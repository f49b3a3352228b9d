----------------------------- MODULE SessionPool ----------------------------
(***************************************************************************)
(* Fix::SessionPool, as operators on a record:                             *)
(*   sessions  sessions_, the id in each slot or None (a reset pointer)    *)
(*   free      free_indices_, used as a stack                              *)
(*   next_idx  the next id                                                 *)
(* A SessionID is [storage_index, id]; two are equal if their ids are.     *)
(***************************************************************************)
EXTENDS Integers, Sequences, SequencesExt

\* No session; ids are natural numbers.
None == [storage_index |-> 0, id |-> -1]

NewPool == [sessions |-> <<>>, free |-> <<>>, next_idx |-> 0]

size(p) == Len(p.sessions) - Len(p.free)

\* The slot emplace_session takes, counted from 1: the last one freed or a new one.
NextSlot(p) == IF p.free = <<>> THEN Len(p.sessions) + 1 ELSE Last(p.free)

NextID(p) == [storage_index |-> NextSlot(p), id |-> p.next_idx]

emplace_session(p) ==
    [sessions |-> IF p.free = <<>> THEN Append(p.sessions, NextID(p))
                  ELSE [p.sessions EXCEPT ![NextSlot(p)] = NextID(p)],
     free     |-> IF p.free = <<>> THEN <<>> ELSE Front(p.free),
     next_idx |-> p.next_idx + 1]

\* Mutant: the slot's occupant is taken, whoever it is.
get_by_slot(p, h) == p.sessions[h.storage_index]

\* The session of handle h, None if it was removed.
get(p, h) ==
    IF p.sessions[h.storage_index].id # h.id THEN None ELSE p.sessions[h.storage_index]

\* Mutant: a handle whose slot is empty frees it once more.
remove_again(p, h) ==
    IF p.sessions[h.storage_index] # None /\ p.sessions[h.storage_index].id # h.id THEN p
    ELSE [p EXCEPT !.sessions[h.storage_index] = None,
                   !.free = Append(@, h.storage_index)]

remove(p, h) ==
    IF p.sessions[h.storage_index] = None \/ p.sessions[h.storage_index].id # h.id THEN p
    ELSE [p EXCEPT !.sessions[h.storage_index] = None,
                   !.free = Append(@, h.storage_index)]

get_all(p) ==
    {h \in ToSet(p.sessions) : h # None /\ h.storage_index \notin ToSet(p.free)}
=============================================================================
