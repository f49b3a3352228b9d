-------------------------------- MODULE Ring --------------------------------
(***************************************************************************)
(* Fix::Ring with RingPolicy::Reject, the one its user (Framer) chooses.   *)
(***************************************************************************)
EXTENDS Naturals

CONSTANTS Capacity, Nothing

NewRing == [slots |-> [i \in 0..(Capacity - 1) |-> Nothing],
            head |-> 0, tail |-> 0, size |-> 0]

empty(r) == r.size = 0

full(r) == r.size = Capacity

next(i) == (i + 1) % Capacity

\* A full ring does not take the item.
push(r, item) ==
    IF full(r) THEN r
    ELSE [slots |-> [r.slots EXCEPT ![r.tail] = item],
          head |-> r.head, tail |-> next(r.tail), size |-> r.size + 1]

front(r) == r.slots[r.head]

pop_front(r) == [r EXCEPT !.head = next(@), !.size = @ - 1]

\* The items in the order front() yields them.
Items(r) == [k \in 1..r.size |-> r.slots[(r.head + k - 1) % Capacity]]
=============================================================================
