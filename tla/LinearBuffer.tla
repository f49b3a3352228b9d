---------------------------- MODULE LinearBuffer ----------------------------
(***************************************************************************)
(* Fix::LinearBuffer: bytes data[head..tail-1] of a linear array.  Byte    *)
(* data[i] has the absolute position base + i, which stays the same when   *)
(* bytes move inside the array or to a larger one.                         *)
(***************************************************************************)
EXTENDS Naturals, Sequences, FiniteSetsExt

CONSTANTS
    StartCapacity,   \* Start_Capacity (64 KB)
    MinGrow,         \* Min_Grow (16 KB)
    Junk             \* what memory holds that nobody wrote

Fresh(cap) == [i \in 0..(cap - 1) |-> Junk]

NewBuffer == [data |-> Fresh(StartCapacity), cap |-> StartCapacity,
              head |-> 0, tail |-> 0, base |-> 0]

readable_size(b) == b.tail - b.head

readable(b) == [i \in 1..readable_size(b) |-> b.data[b.head + i - 1]]

readable_rel_to_abs(b, rel) == b.base + b.head + rel

abs_to_readable_rel(b, abs) == abs - b.base - b.head

\* The live bytes copied to the start of the array `room`.
MovedTo(b, room, cap) ==
    [data |-> [i \in DOMAIN room |->
                 IF i < readable_size(b) THEN b.data[b.head + i] ELSE room[i]],
     cap  |-> cap,
     head |-> 0,
     tail |-> readable_size(b),
     base |-> b.base + b.head]

\* Mutant: compact forgets that the bytes have moved.
compactBaseKept(b) == [MovedTo(b, b.data, b.cap) EXCEPT !.base = b.base]

compact(b) == MovedTo(b, b.data, b.cap)

grow(b, n) ==
    LET required == readable_size(b) + n
        cap == Max({b.cap + Max({n, MinGrow}), required})
    IN  MovedTo(b, Fresh(cap), cap)

\* Mutant: the room before head counts as writable.
ensure_writableBeforeHead(b, n) ==
    IF readable_size(b) + n <= b.cap THEN b ELSE grow(b, n)

ensure_writable(b, n) ==
    CASE b.tail + n <= b.cap -> b
      [] b.tail + n > b.cap /\ b.head > 0 /\ readable_size(b) + n <= b.cap -> compact(b)
      [] OTHER -> grow(b, n)

push(b, items) ==
    LET w == ensure_writable(b, Len(items))
    IN  [w EXCEPT !.data = [i \in DOMAIN w.data \cup w.tail..(w.tail + Len(items) - 1) |->
                              IF i >= w.tail /\ i < w.tail + Len(items)
                              THEN items[i - w.tail + 1] ELSE w.data[i]],
                  !.tail = @ + Len(items)]

\* An empty buffer starts again at index 0; one whose live bytes lie in its
\* second half is compacted.
discard_prefix(b, count) ==
    LET d == [b EXCEPT !.head = @ + count]
    IN  IF d.head = d.tail THEN [d EXCEPT !.base = @ + d.head, !.head = 0, !.tail = 0]
        ELSE IF d.head >= d.cap \div 2 THEN compact(d)
        ELSE d

\* The array keeps its size; its bytes are no longer reachable.
reset(b) == [b EXCEPT !.data = Fresh(b.cap), !.head = 0, !.tail = 0, !.base = 0]
=============================================================================
