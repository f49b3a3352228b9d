-------------------------- MODULE MCSessionManager --------------------------
(***************************************************************************)
(* SessionManager with two files that may be open.  Two sessions, the      *)
(* second often in the slot of the first, with a lost connection and a     *)
(* file that is not opened; or three, which make the sink evict.           *)
(***************************************************************************)
EXTENDS SessionManager

MCBudgets ==
    {[sessions |-> 2, posts |-> 1, downs |-> 1, refusals |-> 1, ring |-> 1],
     [sessions |-> 3, posts |-> 1, downs |-> 0, refusals |-> 0, ring |-> 0]}
=============================================================================
