---------------------------- MODULE MCSessionIO -----------------------------
(***************************************************************************)
(* SessionIO over two connections, with two messages besides the Logons,   *)
(* which run out of blocks, or one of which is longer than a block and     *)
(* which meet a transient error.                                           *)
(***************************************************************************)
EXTENDS SessionIO

MCBudgets ==
    {[sends |-> 2, transient |-> 0, large |-> {}], [sends |-> 2, transient |-> 1, large |-> {1}]}
=============================================================================
