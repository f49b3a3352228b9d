---------------------------- MODULE RecoveryMap ----------------------------
(***************************************************************************)
(* What Fix::RecoveryCache promises a session: the messages received ahead *)
(* of a gap, each under its MsgSeqNum, for the Window numbers from base    *)
(* on.  This is the cache of Session.tla.                                  *)
(***************************************************************************)
EXTENDS Naturals

CONSTANTS SeqNums, Wires, Window, ReadBack(_)

VARIABLES base, parked

Parks(n) == n \in DOMAIN parked

InWindow(n) == n >= base /\ n - base < Window

Empty == [n \in {} |-> n]

Init == base = 0 /\ parked = Empty

Start(n) == base' = n /\ parked' = Empty

Insert(n, w) ==
    /\ InWindow(n) /\ ~ Parks(n)
    /\ parked' = [k \in DOMAIN parked \cup {n} |->
                     IF k = n THEN ReadBack(w) ELSE parked[k]]
    /\ UNCHANGED base

Consume(n) ==
    /\ Parks(n)
    /\ parked' = [k \in DOMAIN parked \ {n} |-> parked[k]]
    /\ UNCHANGED base

Next ==
    \E n \in SeqNums :
        Start(n) \/ Consume(n) \/ \E w \in Wires : Insert(n, w)

Spec == Init /\ [][Next]_<<base, parked>>
=============================================================================
