-------------------------- MODULE MCRecoveryCache --------------------------
(* RecoveryCache with messages of one and two bytes.                       *)
EXTENDS RecoveryCache

CONSTANTS short, long

MCWires == {short, long}
MCSize == [w \in MCWires |-> IF w = short THEN 1 ELSE 2]
=============================================================================
