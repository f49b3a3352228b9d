------------------------------- MODULE Arena --------------------------------
(***************************************************************************)
(* Fix::Arena and the WireWriter that holds a message in it, as operators  *)
(* on a record:                                                            *)
(*   free_index  the first free block, End if there is none                *)
(*   block       the blocks; the first bytes of a free one are the index   *)
(*               of the next, <<"link", n>>, one in use has <<"msg", m>>   *)
(*   heap        messages in memory of their own                           *)
(* A handle is [source, index]; of heap memory index is its message.  It   *)
(* has one owner: a move leaves nothing behind that would release it.      *)
(***************************************************************************)
EXTENDS Naturals, Sequences, SequencesExt

CONSTANT block_count

ASSUME ArenaAssumption == block_count \in Nat \ {0}

Blocks == 0..(block_count - 1)

End == block_count + 1

NewArena ==
    [free_index |-> 0, heap |-> {},
     block |-> [i \in Blocks |-> <<"link", IF i = block_count - 1 THEN End ELSE i + 1>>]]

NoHandle == [source |-> "None", index |-> 0]

\* The handle of the memory allocate gives to m; large says that m is
\* longer than a block.
Allocated(a, m, large) ==
    IF large \/ a.free_index = End THEN [source |-> "Heap", index |-> m]
    ELSE [source |-> "Arena", index |-> a.free_index]

\* WireWriter::from_arena: allocate, and the message copied into it.
from_arena(a, m, large) ==
    IF Allocated(a, m, large).source = "Heap" THEN [a EXCEPT !.heap = @ \cup {m}]
    ELSE [a EXCEPT !.free_index = a.block[@][2], !.block[a.free_index] = <<"msg", m>>]

\* Mutant: the block does not get its link.
releaseUnlinked(a, h) ==
    CASE h.source = "Heap" -> [a EXCEPT !.heap = @ \ {h.index}]
      [] h.source = "Arena" -> [a EXCEPT !.free_index = h.index]
      [] OTHER -> a

\* The end of a handle.
release(a, h) ==
    CASE h.source = "Heap" -> [a EXCEPT !.heap = @ \ {h.index}]
      [] h.source = "Arena" -> [a EXCEPT !.free_index = h.index,
                                         !.block[h.index] = <<"link", a.free_index>>]
      [] OTHER -> a

\* The end of several, in this order.
release_all(a, hs) == FoldLeft(release, a, hs)

\* What an operation finds behind h, also after the end of h: the message,
\* or Garbage if a link was written over it or the memory was given back.
Garbage == 0

Read(a, h) ==
    IF h.source = "Heap" THEN (IF h.index \in a.heap THEN h.index ELSE Garbage)
    ELSE IF a.block[h.index][1] = "msg" THEN a.block[h.index][2] ELSE Garbage

\* The blocks one reaches from free_index, in order, End behind the last.
FreeList(a) ==
    LET At[n \in 0..block_count] ==
          IF n = 0 THEN a.free_index
          ELSE IF At[n - 1] \in Blocks /\ a.block[At[n - 1]][1] = "link"
               THEN a.block[At[n - 1]][2] ELSE End
    IN  [n \in 1..(block_count + 1) |-> At[n - 1]]
=============================================================================
