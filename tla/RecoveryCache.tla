--------------------------- MODULE RecoveryCache ---------------------------
(***************************************************************************)
(* Fix::RecoveryCache: an array of slots that say where in one growing     *)
(* byte buffer each parked message lies.  The buffer starts again at 0     *)
(* only when the last message is consumed or the cache is reset.           *)
(***************************************************************************)
EXTENDS Naturals, Sequences, FiniteSets

CONSTANTS
    Window,            \* RecoveryCache::window (512)
    InitialCapacity,   \* initial_capacity (64 KB)
    MinGrowth,         \* min_capacity_growth (32 KB)
    Wires,             \* raw messages
    Size,              \* their lengths
    SeqNums,           \* numbers the cache is asked about
    MaxBytes           \* bound: bytes in the buffer

ASSUME CacheAssumption ==
    /\ Window \in Nat \ {0}
    /\ {InitialCapacity, MinGrowth, MaxBytes} \subseteq Nat
    /\ Size \in [Wires -> Nat \ {0}]
    /\ SeqNums \subseteq Nat

\* The bytes of a message, and what fresh memory holds.
Bytes(w) == [i \in 1..Size[w] |-> <<w, i>>]

Junk == <<>>

KEmpty == [offset |-> 0, size |-> 0]

(***************************************************************************)
(* slots_, base_offset_, size_, buff_size_, and data_ with its capacity as *)
(* its length.                                                             *)
(***************************************************************************)
VARIABLES slots, base, size, buffSize, data

vars == <<slots, base, size, buffSize, data>>

Slots == 0..(Window - 1)

TypeOK ==
    /\ slots \in [Slots -> [offset : Nat, size : Nat]]
    /\ base \in Nat /\ size \in 0..Window
    /\ buffSize \in 0..Len(data)

Init ==
    /\ slots = [i \in Slots |-> KEmpty]
    /\ base = 0 /\ size = 0 /\ buffSize = 0
    /\ data = [i \in 1..InitialCapacity |-> Junk]

in_window(n) == n >= base /\ n - base < Window

slot_index(n) == n - base

contains(n) == in_window(n) /\ slots[slot_index(n)] # KEmpty

get(n) == LET b == slots[slot_index(n)]
          IN  SubSeq(data, b.offset + 1, b.offset + b.size)

\* Mutant: size_ keeps its value.
start_mut(n) ==
    /\ slots' = [i \in Slots |-> KEmpty]
    /\ base' = n /\ buffSize' = 0
    /\ UNCHANGED <<size, data>>

\* start, and clear with n = 0: what was parked is forgotten.
start(n) ==
    /\ slots' = [i \in Slots |-> KEmpty]
    /\ base' = n /\ size' = 0 /\ buffSize' = 0
    /\ UNCHANGED data

Max2(a, b) == IF a > b THEN a ELSE b

\* Mutant: grows by the fixed amount even when more is needed.
Grown_short(w) ==
    IF buffSize + Size[w] <= Len(data) THEN data
    ELSE [i \in 1..(Len(data) + MinGrowth) |-> IF i <= buffSize THEN data[i] ELSE Junk]

\* Mutant: the last byte in use is not copied.
Grown_mut(w) ==
    IF buffSize + Size[w] <= Len(data) THEN data
    ELSE [i \in 1..(Len(data) + Max2(buffSize + Size[w] - Len(data), MinGrowth)) |->
             IF i < buffSize THEN data[i] ELSE Junk]

\* The buffer with room for w: grow_buffer copies what is in use.
Grown(w) ==
    IF buffSize + Size[w] <= Len(data) THEN data
    ELSE [i \in 1..(Len(data) + Max2(buffSize + Size[w] - Len(data), MinGrowth)) |->
             IF i <= buffSize THEN data[i] ELSE Junk]

\* The caller has checked that n is in the window and not there yet.
insert(n, w) ==
    /\ in_window(n) /\ ~ contains(n)
    /\ buffSize + Size[w] <= MaxBytes
    /\ data' = [i \in 1..Len(Grown(w)) |->
                  IF i \in (buffSize + 1)..(buffSize + Size[w])
                  THEN Bytes(w)[i - buffSize] ELSE Grown(w)[i]]
    /\ slots' = [slots EXCEPT ![slot_index(n)] = [offset |-> buffSize, size |-> Size[w]]]
    /\ buffSize' = buffSize + Size[w]
    /\ size' = size + 1
    /\ UNCHANGED base

\* Mutant: the space is given back while other messages are parked.
consume_mut(n) ==
    /\ contains(n)
    /\ slots' = [slots EXCEPT ![slot_index(n)] = KEmpty]
    /\ size' = size - 1
    /\ buffSize' = buffSize - slots[slot_index(n)].size
    /\ UNCHANGED <<base, data>>

consume(n) ==
    /\ contains(n)
    /\ slots' = [slots EXCEPT ![slot_index(n)] = KEmpty]
    /\ size' = size - 1
    /\ buffSize' = IF size = 1 THEN 0 ELSE buffSize
    /\ UNCHANGED <<base, data>>

Next ==
    \E n \in SeqNums :
        start(n) \/ consume(n) \/ \E w \in Wires : insert(n, w)

Spec == Init /\ [][Next]_vars

-----------------------------------------------------------------------------
(* Properties *)

Parked == {n \in base..(base + Window - 1) : contains(n)}

(***************************************************************************)
(* size_, which empty() and with it the end of recovery rest on, counts    *)
(* the parked messages.                                                    *)
(***************************************************************************)
SizeExact == size = Cardinality(Parked)

\* The bytes of two parked messages do not overlap, and lie below buff_size_.
RegionsApart ==
    \A i \in Slots : slots[i] # KEmpty =>
        /\ slots[i].offset + slots[i].size <= buffSize
        /\ \A j \in Slots \ {i} : slots[j] # KEmpty =>
              \/ slots[i].offset + slots[i].size <= slots[j].offset
              \/ slots[j].offset + slots[j].size <= slots[i].offset

(***************************************************************************)
(* The cache behaves as a map: get returns the bytes that were inserted    *)
(* under that number, whatever was inserted, consumed or grown since.      *)
(***************************************************************************)
Map == INSTANCE RecoveryMap WITH
           parked <- [n \in Parked |-> get(n)], ReadBack <- Bytes

ImplementsMap == Map!Spec
=============================================================================
