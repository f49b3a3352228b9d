---------------------------- MODULE SessionPair ----------------------------
(***************************************************************************)
(* Two FixEngine sessions, an initiator and an acceptor, joined by TCP     *)
(* connections that may break, with the SessionManager behind each that    *)
(* asks for a connection at creation and after every loss.                 *)
(*                                                                         *)
(* Each session's strand runs one handler at a time; the two strands, the  *)
(* transport, the timers, the application and the operator interleave      *)
(* freely.                                                                 *)
(***************************************************************************)
EXTENDS Session

CONSTANTS
    HeartBtInt,    \* params_.heart_beat_int of each role
    AppKinds,      \* what applications send
    MaxApp,        \* bound: application messages, both sides together
    MaxTicks,      \* bound: heartbeat and inbound timeouts
    MaxFailures,   \* bound: connections the network breaks
    MaxStops       \* bound: stop() calls of the operator

ASSUME PairAssumption ==
    /\ HeartBtInt \in [Roles -> Nat]
    /\ AppKinds \subseteq {"request", "response", "unregistered"}
    /\ {MaxApp, MaxTicks, MaxFailures, MaxStops} \subseteq Nat

(***************************************************************************)
(* pend[r] is the async_connect / async_listen the manager of r has        *)
(* outstanding and the StartMode its handler will use.  chan[r] is r's end *)
(* of the current connection: "offered" when the connect handler has it,   *)
(* "set" after set_connection, "used" after start.  broken says that the   *)
(* current connection carries nothing new: cut by the network, or closed   *)
(* by one end.  What was written before may still be read (sess[r].out),   *)
(* up to the point where the reader learns of the loss.                    *)
(***************************************************************************)
VARIABLES sess, pend, chan, broken, budget

vars == <<sess, pend, chan, broken, budget>>

Budgets == [app : Nat, tick : Nat, fail : Nat, stop : Nat]

TypeOK ==
    /\ sess \in [Roles -> SessionRecords]
    /\ pend \in [Roles -> {"none", "normal", "reconnect"}]
    /\ chan \in [Roles -> {"none", "offered", "set", "used"}]
    /\ broken \in BOOLEAN
    /\ budget \in Budgets

Peer(r) == IF r = "INITIATOR" THEN "ACCEPTOR" ELSE "INITIATOR"

\* SessionManager::create_session for both roles: each asks for a connection.
Init ==
    /\ sess = [r \in Roles |-> NewSession(r, HeartBtInt[r])]
    /\ pend = [r \in Roles |-> "normal"]
    /\ chan = [r \in Roles |-> "none"]
    /\ broken = FALSE
    /\ budget = [app |-> MaxApp, tick |-> MaxTicks, fail |-> MaxFailures, stop |-> MaxStops]

\* r's strand is free to run a handler.
Idle(r) == sess[r].fault = "none" /\ ~ Busy(sess[r])

\* A read or a write of r is outstanding on the current connection.
Reading(r) == Idle(r) /\ chan[r] = "used" /\ sess[r].conn = "open" /\ ~ sess[r].stopped

\* With record t, r's end of the connection is gone.
Ends(r, t) == t.fault # "none" \/ (chan[r] \in {"set", "used"} /\ t.conn # "open")

(***************************************************************************)
(* r's handler turns its record into t, and the peer's messages to r into  *)
(* rest.  Nothing new gets through a broken connection.  When r closes its *)
(* end or dies, the connection is broken for both.                         *)
(***************************************************************************)
Commit(r, t, rest) ==
    /\ sess' = [sess EXCEPT
           ![r] = IF broken THEN [t EXCEPT !.out = sess[r].out] ELSE t,
           ![Peer(r)].out = IF Ends(r, t) THEN <<>> ELSE rest]
    /\ broken' = (broken \/ Ends(r, t))

Run(r, t) ==
    /\ Commit(r, t, sess[Peer(r)].out)
    /\ chan' = [chan EXCEPT ![r] = IF @ = "used" /\ Ends(r, t) THEN "none" ELSE @]

-----------------------------------------------------------------------------
(* Connections *)

\* A connect of the initiator meets a listen of the acceptor.
Establish ==
    /\ \A r \in Roles : pend[r] # "none" /\ chan[r] = "none" /\ sess[r].fault = "none"
    /\ chan' = [r \in Roles |-> "offered"]
    /\ broken' = FALSE
    /\ sess' = [r \in Roles |-> [sess[r] EXCEPT !.out = <<>>]]
    /\ UNCHANGED <<pend, budget>>

\* The connect or listen of r ran out of attempts: its handler only logs.
GiveUp(r) ==
    /\ pend[r] # "none" /\ chan[r] = "none"
    /\ pend' = [pend EXCEPT ![r] = "none"]
    /\ UNCHANGED <<sess, chan, broken, budget>>

SetConnection(r) ==
    /\ Idle(r) /\ chan[r] = "offered"
    /\ sess' = [sess EXCEPT ![r] = set_connection(@)]
    /\ chan' = [chan EXCEPT ![r] = "set"]
    /\ UNCHANGED <<pend, broken, budget>>

\* start is queued on the strand behind set_connection; other work may come
\* in between, a stop that closes the connection included.
start(r) ==
    /\ Idle(r) /\ chan[r] = "set"
    /\ LET t == IF pend[r] = "normal" THEN start_normal_(sess[r])
                                      ELSE start_after_reconnect_(sess[r])
       IN  /\ Commit(r, t, sess[Peer(r)].out)
           /\ chan' = [chan EXCEPT ![r] = IF Ends(r, t) THEN "none" ELSE "used"]
    /\ pend' = [pend EXCEPT ![r] = "none"]
    /\ UNCHANGED budget

\* The network cuts the connection.
Fail ==
    /\ budget.fail > 0 /\ ~ broken
    /\ \E r \in Roles : chan[r] # "none"
    /\ broken' = TRUE
    /\ budget' = [budget EXCEPT !.fail = @ - 1]
    /\ UNCHANGED <<sess, pend, chan>>

\* A read or a write of r completes with an error.
TransportDown(r) ==
    /\ Reading(r) /\ broken
    /\ Run(r, on_transport_down_(sess[r]))
    /\ pend' = [pend EXCEPT ![r] = IF LosesTransport(sess[r]) THEN "reconnect" ELSE @]
    /\ UNCHANGED budget

-----------------------------------------------------------------------------
(* Work on the strand of r *)

Receive(r) ==
    /\ Reading(r) /\ sess[Peer(r)].out # <<>>
    /\ LET t == process_wire_message_(sess[r], Head(sess[Peer(r)].out))
       IN  /\ Commit(r, t, Tail(sess[Peer(r)].out))
           /\ chan' = [chan EXCEPT ![r] = IF Ends(r, t) THEN "none" ELSE @]
    /\ UNCHANGED <<pend, budget>>

Resend(r) ==
    /\ sess[r].fault = "none" /\ sess[r].rsCur <= sess[r].rsEnd
    /\ Run(r, ResendStep(sess[r]))
    /\ UNCHANGED <<pend, budget>>

Drain(r) ==
    /\ sess[r].fault = "none" /\ sess[r].rsCur > sess[r].rsEnd /\ sess[r].draining
    /\ Run(r, DrainStep(sess[r]))
    /\ UNCHANGED <<pend, budget>>

Expire(r, t) ==
    /\ Idle(r) /\ t \in sess[r].armed
    /\ IF t \in {"heartbeat", "inbound"}
       THEN budget.tick > 0 /\ budget' = [budget EXCEPT !.tick = @ - 1]
       ELSE UNCHANGED budget
    /\ Run(r, TimerExpired(sess[r], t))
    /\ UNCHANGED pend

AppMessage(kind) ==
    CASE kind = "request"      -> CustomMsg(FALSE)
      [] kind = "response"     -> CustomMsg(TRUE)
      [] kind = "unregistered" -> Plain("Unregistered")

\* SessionManager::send reaches the session whatever its state.
AppSend(r, kind) ==
    /\ Idle(r) /\ budget.app > 0
    /\ Run(r, send_from_app(sess[r], AppMessage(kind)))
    /\ budget' = [budget EXCEPT !.app = @ - 1]
    /\ UNCHANGED pend

\* SessionManager::stop_session.
Stop(r) ==
    /\ Idle(r) /\ budget.stop > 0
    /\ Run(r, stop_(sess[r]))
    /\ budget' = [budget EXCEPT !.stop = @ - 1]
    /\ UNCHANGED pend

Next ==
    \/ Establish
    \/ Fail
    \/ \E r \in Roles :
          \/ GiveUp(r) \/ SetConnection(r) \/ start(r) \/ TransportDown(r)
          \/ Receive(r) \/ Resend(r) \/ Drain(r) \/ Stop(r)
          \/ \E t \in Timers : Expire(r, t)
          \/ \E kind \in AppKinds : AppSend(r, kind)

Spec == Init /\ [][Next]_vars

(***************************************************************************)
(* Fairness.  The io_context runs every handler that is ready (a read or a *)
(* write that completed, a timer that expired, work queued on a strand),   *)
(* and the two loops run to their end.  A connect either meets a listen or *)
(* runs out of its attempts.  Nothing is assumed of the network, of the    *)
(* application or of the operator.                                         *)
(***************************************************************************)
Fairness ==
    /\ WF_vars(Establish \/ GiveUp("INITIATOR"))
    /\ \A r \in Roles :
        /\ WF_vars(SetConnection(r)) /\ WF_vars(start(r)) /\ WF_vars(TransportDown(r))
        /\ WF_vars(Receive(r)) /\ WF_vars(Resend(r)) /\ WF_vars(Drain(r))
        /\ \A t \in Timers : WF_vars(Expire(r, t))

FairSpec == Spec /\ Fairness

-----------------------------------------------------------------------------
(* Properties *)

NoFault == \A r \in Roles : sess[r].fault = "none"

\* The numbers of the Custom messages of a store.
Customs(st) == {i \in 1..Len(st) : st[i].type = "Custom"}

Delivered(s) == {s.delivered[i] : i \in 1..Len(s.delivered)}

(***************************************************************************)
(* Across lost connections, gaps, resends, gap fills and duplicates, the   *)
(* messages handle_custom has taken are exactly the Custom messages the    *)
(* peer stored under the numbers consumed so far, each once and in order.  *)
(***************************************************************************)
OnceInOrder(s, st) ==
    /\ Delivered(s) = {i \in Customs(st) : i < s.nextIn}
    /\ \A i, j \in 1..Len(s.delivered) : i < j => s.delivered[i] < s.delivered[j]

ExactlyOnceInOrder ==
    NoFault => \A r \in Roles : OnceInOrder(sess[r], sess[Peer(r)].store)

(***************************************************************************)
(* While a session may send, the store holds each number below next_out at *)
(* its own index, which is what get_message_index and ResendStream assume. *)
(***************************************************************************)
NumbersMatch(s) == ~ s.stopped => Len(s.store) = s.nextOut - 1

StoreMatchesSeq ==
    \A r \in Roles : sess[r].fault = "none" =>
        /\ NumbersMatch(sess[r])
        /\ \A i \in 1..Len(sess[r].store) : sess[r].store[i].seq = i

(***************************************************************************)
(* Whatever is on the wire from a session, or parked by its peer, agrees   *)
(* with what the session stored: it is the stored message, or its copy     *)
(* marked PossDup if it is an application message, or a gap fill over      *)
(* stored administrative messages only.                                    *)
(***************************************************************************)
Copies(m, st) ==
    /\ m.seq \in 1..Len(st)
    /\ \/ m = st[m.seq]
       \/ st[m.seq].type \notin AdminTypes /\ m = [st[m.seq] EXCEPT !.dup = TRUE]

Fills(m, st) ==
    /\ m.type = "SequenceReset" /\ m.gapFill
    /\ 1 <= m.seq /\ m.seq < m.newSeq /\ m.newSeq <= Len(st) + 1
    /\ \A i \in m.seq..(m.newSeq - 1) : st[i].type \in AdminTypes

Faithful(m, st) == Copies(m, st) \/ Fills(m, st)

WireFaithful ==
    NoFault => \A r \in Roles :
        /\ \A k \in 1..Len(sess[r].out) : Faithful(sess[r].out[k], sess[r].store)
        /\ \A m \in sess[r].cache : Faithful(m, sess[Peer(r)].store)

(***************************************************************************)
(* Between handlers, every message parked in the recovery cache is still   *)
(* ahead of next_in: drain_recovery_cache_ leaves nothing it could have    *)
(* taken and no gap fill passes over a parked message, either of which     *)
(* would keep the session in RECOVERING_RESEND for good.                   *)
(***************************************************************************)
ParkedIsAhead ==
    \A r \in Roles : Idle(r) /\ sess[r].state = "RECOVERING_RESEND" =>
        \A m \in sess[r].cache : m.seq > sess[r].nextIn

\* While both processes run, next_in never goes back, whatever is received,
\* resent, reset or reconnected.
NextInNeverRegresses ==
    [][NoFault' => \A r \in Roles : sess'[r].nextIn >= sess[r].nextIn]_vars

(***************************************************************************)
(* The invariant that is inductive.  To WireFaithful and what it protects  *)
(* it adds what a store holds (StoreSound), that next_in never passes what *)
(* the peer has stored, and that a session not yet started has received    *)
(* nothing.                                                                *)
(***************************************************************************)
StoreSound(st) ==
    \A i \in 1..Len(st) :
        /\ st[i].seq = i
        /\ st[i].type # "SequenceReset"
        /\ st[i].reset => i = 1
        /\ st[i].type = "Unregistered" => st[i].check = "invalid"

\* What the record s says of its own sending.
OutSound(s) ==
    /\ StoreSound(s.store)
    /\ \A k \in 1..Len(s.out) : Faithful(s.out[k], s.store)

\* What the record s knows of the peer, whose store is st.
InSound(s, st) ==
    /\ s.nextIn \in 1..(Len(st) + 1)
    /\ OnceInOrder(s, st)
    /\ \A m \in s.cache : Faithful(m, st)

Fresh(s) == s.nextIn = 1 /\ s.cache = {}

Inv ==
    /\ TypeOK
    /\ \A r \in Roles : pend[r] = "normal" => chan[r] # "used"
    /\ \A r \in Roles : sess[r].fault = "none" =>
          /\ NumbersMatch(sess[r])
          /\ OutSound(sess[r])
          /\ pend[r] = "normal" => Fresh(sess[r])
    /\ NoFault => \A r \in Roles : InSound(sess[r], sess[Peer(r)].store)

Ended == \E r \in Roles :
    sess[r].stopped \/ sess[r].fault # "none" \/ (pend[r] = "none" /\ chan[r] = "none")

AllDelivered == \A r \in Roles : Customs(sess[r].store) \subseteq Delivered(sess[Peer(r)])

\* Each session waits in recovery for an answer to a ResendRequest that the
\* other has parked, and nothing is on the wire.
MutualWait == \A r \in Roles :
    /\ Idle(r) /\ sess[r].state = "RECOVERING_RESEND" /\ sess[r].out = <<>>
    /\ \E m \in sess[r].cache : m.type = "ResendRequest"

(***************************************************************************)
(* Every Custom message accepted from an application is in the end taken   *)
(* by the peer's handle_custom, whatever connections are lost on the way,  *)
(* unless a session ends (stopped, crashed, or out of connect attempts) or *)
(* the two block each other (see NoMutualWait).                            *)
(***************************************************************************)
EventualDelivery == <>[](Ended \/ AllDelivered \/ MutualWait)

(***************************************************************************)
(* A session that has sent Logout gets rid of the connection: by the       *)
(* answer, by logout_timer_, or by losing it, whatever becomes of the peer *)
(* and unless it dies itself.  Messages that take it out of                *)
(* AWAITING_LOGOUT (a gap, a Logon) do not keep it alive.                  *)
(***************************************************************************)
LogoutEnds ==
    \A r \in Roles : sess[r].state = "AWAITING_LOGOUT" ~>
                        (sess[r].fault # "none" \/ sess[r].conn # "open")

(***************************************************************************)
(* A session does not wait for a Logon for ever: the Logon comes, or       *)
(* logon_timer_ or the loss of the connection ends the wait.               *)
(***************************************************************************)
LogonResolves ==
    \A r \in Roles :
        sess[r].state \in {"LOGON_SENT", "AWAITING_LOGON"} /\ ~ sess[r].stopped ~>
            sess[r].state \notin {"LOGON_SENT", "AWAITING_LOGON"} \/ sess[r].fault # "none"

-----------------------------------------------------------------------------
(* What the repository says and the code does not do *)

(***************************************************************************)
(* docs/completeness.md calls ResendRequest handling correct.  If each     *)
(* side has lost a message of the other, each parks the other's            *)
(* ResendRequest behind its own gap.                                       *)
(***************************************************************************)
NoMutualWait == ~ MutualWait

(***************************************************************************)
(* MessageStore.cpp asserts that "MsgSeqNum should be sequential" of every *)
(* message it is given.                                                    *)
(***************************************************************************)
StoreAssertHolds == \A r \in Roles : sess[r].fault # "store_seq"

(***************************************************************************)
(* docs/completeness.md calls the reconnect logic correct: a session that  *)
(* is reconnecting does not dereference the conn_ it has reset.            *)
(***************************************************************************)
NullConnNeverUsed ==
    \A r \in Roles : sess[r].reconnecting => sess[r].fault # "null_conn"
=============================================================================
