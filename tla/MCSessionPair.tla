--------------------------- MODULE MCSessionPair ---------------------------
(* SessionPair with the default HeartBtInt of SessionParameters.           *)
EXTENDS SessionPair

MCHeartBtInt == [r \in Roles |-> 30]
=============================================================================
