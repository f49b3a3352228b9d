------------------------------ MODULE Session ------------------------------
(***************************************************************************)
(* Fix::Session (src/src/Session.cpp): the state one FIX session keeps and *)
(* the effect of each of its handlers on that state.                       *)
(*                                                                         *)
(* Every handler runs on the session's strand, and boost::asio::dispatch   *)
(* from inside the strand is inline, so a handler and all it calls form    *)
(* one function from the session's record to its next record.  The two     *)
(* loops a handler may run (the resend loop of handle_resend_request and   *)
(* drain_recovery_cache_) are taken one iteration per step; while one is   *)
(* unfinished (Busy) the strand runs nothing else.                         *)
(*                                                                         *)
(* Who calls the handlers, and when, is the business of the modules that   *)
(* compose sessions with a transport (SessionPair).                        *)
(***************************************************************************)
EXTENDS Integers, Sequences, FiniteSets

CONSTANTS
    InitiatorReset,  \* params_.initiator_reset_on_logon
    AcceptorReset,   \* params_.acceptor_reset_on_logon
    Window           \* RecoveryCache::window (512 in the code)

ASSUME SessionAssumption ==
    /\ InitiatorReset \in BOOLEAN
    /\ AcceptorReset \in BOOLEAN
    /\ Window \in Nat \ {0}

Roles == {"INITIATOR", "ACCEPTOR"}

SessionStates == {"AWAITING_LOGON", "AWAITING_LOGOUT", "LOGON_RECEIVED",
                  "LOGON_SENT", "RECOVERING_RESEND", "ACTIVE", "DISCONNECTED"}

Timers == {"logon", "inbound", "heartbeat", "logout"}

(***************************************************************************)
(* Messages.  "Custom" is the one application type of the schema registry; *)
(* "Unregistered" stands for every MsgType that has no schema.  check is   *)
(* what Parser and Validator make of the wire: "garbled" does not parse,   *)
(* "fatal" is a validation result of severity Fatal, "invalid" any other   *)
(* validation error.                                                       *)
(***************************************************************************)
AdminTypes == {"Logon", "Logout", "Heartbeat", "TestRequest",
               "ResendRequest", "Reject", "SequenceReset"}

MsgTypes == AdminTypes \cup {"Custom", "Unregistered"}

is_app_message_type_(m) == m.type \notin AdminTypes

Checks == {"ok", "invalid", "fatal", "garbled"}

Messages == [type : MsgTypes, seq : Nat, dup : BOOLEAN, check : Checks,
             reset : BOOLEAN,             \* 141, Logon
             hb : Nat,                    \* 108, Logon
             begin : Nat, end : Nat,      \* 7 and 16, ResendRequest
             newSeq : Nat,                \* 36, SequenceReset
             gapFill : BOOLEAN,           \* 123, SequenceReset
             response : BOOLEAN]          \* 9250 contains "custom_response"

\* The messages of MessageFactory, before stamp_header_ numbers them.
Plain(type) ==
    [type |-> type, seq |-> 0, dup |-> FALSE,
     check |-> IF type = "Unregistered" THEN "invalid" ELSE "ok",
     reset |-> FALSE, hb |-> 0, begin |-> 0, end |-> 0, newSeq |-> 0,
     gapFill |-> FALSE, response |-> FALSE]

LogonMsg(reset, hb) == [Plain("Logon") EXCEPT !.reset = reset, !.hb = hb]

\* Mutant: EndSeqNo sent as a count.
ResendRequestMsg_mut(b, e) ==
    [Plain("ResendRequest") EXCEPT !.begin = b, !.end = e - b - 1]

ResendRequestMsg(b, e) == [Plain("ResendRequest") EXCEPT !.begin = b, !.end = e]

GapFillMsg(seq, newSeq) ==
    [Plain("SequenceReset") EXCEPT !.seq = seq, !.newSeq = newSeq,
                                   !.gapFill = TRUE, !.dup = TRUE]

CustomMsg(response) == [Plain("Custom") EXCEPT !.response = response]

(***************************************************************************)
(* The record of one session.  conn is conn_: "null", "open", or "closed"  *)
(* (a connection that stop_ closed and kept).  out holds what send_bytes_  *)
(* accepted and the peer has not read.  store is the outbound index of the *)
(* message store.  cache/base is the recovery cache: the occupied slots    *)
(* and base_offset_.  rsCur..rsEnd is the rest of the ResendStream being   *)
(* sent, draining that drain_recovery_cache_ is running.  fault is "none"  *)
(* until the process ends: a null conn_ dereferenced, an assert of the     *)
(* store or of the cache that fails, an index outside outbound_index_.     *)
(* delivered is history: the numbers of the messages handle_custom took.   *)
(***************************************************************************)
Faults == {"none", "null_conn", "store_seq", "cache_window", "store_index"}

SessionRecords ==
    [role : Roles, state : SessionStates, stopped : BOOLEAN,
     conn : {"null", "open", "closed"}, reconnecting : BOOLEAN,
     nextIn : Nat, nextOut : Nat, store : Seq(Messages), out : Seq(Messages),
     cache : SUBSET Messages, base : Nat,
     rsCur : Nat, rsEnd : Nat, draining : BOOLEAN,
     armed : SUBSET Timers, awaitingTest : BOOLEAN, hb : Nat,
     fault : Faults, delivered : Seq(Nat)]

NewSession(role, hb) ==
    [role |-> role, state |-> "DISCONNECTED", stopped |-> FALSE,
     conn |-> "null", reconnecting |-> FALSE,
     nextIn |-> 1, nextOut |-> 1, store |-> <<>>, out |-> <<>>,
     cache |-> {}, base |-> 0,
     rsCur |-> 1, rsEnd |-> 0, draining |-> FALSE,
     armed |-> {}, awaitingTest |-> FALSE, hb |-> hb,
     fault |-> "none", delivered |-> <<>>]

Live(s) == s.state \in {"ACTIVE", "RECOVERING_RESEND"}

Busy(s) == s.rsCur <= s.rsEnd \/ s.draining

\* The process ends here; what the rest of the handler does is not seen.
Fault(s, f) == IF s.fault = "none" THEN [s EXCEPT !.fault = f] ELSE s

-----------------------------------------------------------------------------
(* Sending *)

\* send_bytes_ and the do_write it starts: conn_ is dereferenced unchecked.
send_bytes_(s, m) ==
    IF s.conn = "null" THEN Fault(s, "null_conn")
                       ELSE [s EXCEPT !.out = Append(@, m)]

\* The index must grow by the number the message carries.
store_outbound_message(s, m) ==
    IF m.seq = Len(s.store) + 1 THEN [s EXCEPT !.store = Append(@, m)]
                                ELSE Fault(s, "store_seq")

\* Mutant: messages sent before the session is live are not stored.
send_message_mut(s, m, is_resend) ==
    IF s.stopped THEN s
    ELSE LET w == send_bytes_(s, m)
         IN  IF is_resend \/ ~ Live(s) THEN w ELSE store_outbound_message(w, m)

\* send_message_: write, store unless it is a resend, push the heartbeat out.
send_message_(s, m, is_resend) ==
    IF s.stopped THEN s
    ELSE LET w == send_bytes_(s, m)
             k == IF is_resend THEN w ELSE store_outbound_message(w, m)
         IN  [k EXCEPT !.armed = IF Live(s) THEN @ \cup {"heartbeat"} ELSE @]

\* MessageFactory::stamp_header_ takes the number whether or not
\* send_message_ then sends.
Send(s, m) ==
    send_message_([s EXCEPT !.nextOut = @ + 1], [m EXCEPT !.seq = s.nextOut], FALSE)

-----------------------------------------------------------------------------
(* Lifecycle *)

stop_(s) ==
    IF s.stopped THEN s
    ELSE IF s.conn = "null"
    THEN [s EXCEPT !.stopped = TRUE, !.state = "DISCONNECTED"]
    ELSE [s EXCEPT !.stopped = TRUE, !.state = "DISCONNECTED",
                   !.armed = {}, !.conn = "closed"]

\* Mutant: logout_timer_ is not started.
stop_with_logout_mut(s) ==
    IF s.stopped THEN s
    ELSE [Send(s, Plain("Logout")) EXCEPT !.state = "AWAITING_LOGOUT"]

stop_with_logout(s) ==
    IF s.stopped THEN s
    ELSE [Send(s, Plain("Logout")) EXCEPT !.state = "AWAITING_LOGOUT",
                                          !.armed = @ \cup {"logout"}]

\* Mutant: logon_timer_ is not started.
Handshake_mut(s, reset) ==
    IF s.role = "INITIATOR"
    THEN [Send(s, LogonMsg(reset, s.hb)) EXCEPT !.state = "LOGON_SENT"]
    ELSE [s EXCEPT !.state = "AWAITING_LOGON"]

\* The Logon handshake both start modes begin.
Handshake(s, reset) ==
    IF s.role = "INITIATOR"
    THEN [Send(s, LogonMsg(reset, s.hb)) EXCEPT !.state = "LOGON_SENT",
                                               !.armed = @ \cup {"logon"}]
    ELSE [s EXCEPT !.state = "AWAITING_LOGON", !.armed = @ \cup {"logon"}]

\* A connection that stop_ closed is released; the new one is open.
set_connection(s) == [s EXCEPT !.conn = "open"]

\* start(StartMode::NORMAL).  stopped_ is not consulted.
start_normal_(s) ==
    IF s.conn = "null" THEN s
    ELSE IF s.role = "INITIATOR" /\ InitiatorReset
    THEN Handshake([s EXCEPT !.nextIn = 1, !.nextOut = 1], TRUE)
    ELSE Handshake(s, FALSE)

\* Mutant: a new connection is expected to start again at number 1.
start_after_reconnect_mut(s) ==
    IF s.conn = "null" \/ s.stopped THEN s
    ELSE Handshake([s EXCEPT !.awaitingTest = FALSE, !.reconnecting = FALSE,
                             !.cache = {}, !.base = 0, !.nextIn = 1], FALSE)

\* start(StartMode::RECONNECT).  The code clears write_q_ as well, and with it
\* what was sent between set_connection and start and is not yet written.
\* Here a message is written when it is sent, so out stays; SessionIO has
\* the queue and what clearing it does (early).
start_after_reconnect_(s) ==
    IF s.conn = "null" \/ s.stopped THEN s
    ELSE Handshake([s EXCEPT !.awaitingTest = FALSE, !.reconnecting = FALSE,
                             !.cache = {}, !.base = 0], FALSE)

\* Whether on_transport_down_ goes past its early returns and asks the
\* manager for a new connection.
LosesTransport(s) ==
    ~ (s.state = "DISCONNECTED" \/ s.stopped \/ s.reconnecting)

on_transport_down_(s) ==
    IF ~ LosesTransport(s) THEN s
    ELSE [s EXCEPT !.reconnecting = TRUE, !.conn = "null", !.armed = {},
                   !.state = "DISCONNECTED", !.cache = {}, !.base = 0]

-----------------------------------------------------------------------------
(* The recovery cache, as the session uses it (RecoveryCache.tla has the   *)
(* slot array itself).                                                     *)

in_window(s, n) == n >= s.base /\ n - s.base < Window

Cached(s, n) == {m \in s.cache : m.seq = n}

contains(s, n) == in_window(s, n) /\ Cached(s, n) # {}

\* insert asserts in_window; an index past the slots is not survivable.
insert(s, m) ==
    IF in_window(s, m.seq) THEN [s EXCEPT !.cache = @ \cup {m}]
                           ELSE Fault(s, "cache_window")

\* A message from the future while ACTIVE, or before the logon is complete.
BeginRecovery(s, m) ==
    LET r == [Send(s, ResendRequestMsg(s.nextIn, m.seq - 1)) EXCEPT
                 !.state = "RECOVERING_RESEND", !.cache = {}, !.base = s.nextIn]
    IN  insert(r, m)

\* A message from the future while already recovering.
CacheAhead(s, m) ==
    IF ~ in_window(s, m.seq) THEN stop_with_logout(s)
    ELSE IF contains(s, m.seq) THEN s
    ELSE insert(s, m)

-----------------------------------------------------------------------------
(* Handlers of the messages that arrive in sequence *)

validate_heartbeat_int(s, hb) ==
    /\ s.role = "INITIATOR" => hb = s.hb
    /\ hb \in 10..120

Activate(s) ==
    [s EXCEPT !.state = "ACTIVE",
              !.armed = (@ \ {"logon"}) \cup {"heartbeat", "inbound"}]

handle_logon(s, m) ==
    LET h == [s EXCEPT !.hb = m.hb]
        g == [h EXCEPT !.state = "LOGON_RECEIVED"]
        z == IF m.reset THEN [g EXCEPT !.nextIn = 2, !.nextOut = 1] ELSE g
    IN  IF ~ validate_heartbeat_int(s, m.hb) THEN stop_with_logout(s)
        ELSE IF s.role = "ACCEPTOR"
        THEN IF m.reset /\ ~ AcceptorReset THEN stop_with_logout(g)
             ELSE Activate(Send(z, LogonMsg(m.reset, m.hb)))
        ELSE IF m.reset /\ ~ InitiatorReset THEN stop_with_logout(h)
        ELSE Activate(h)

handle_logout(s) ==
    IF s.state = "AWAITING_LOGOUT"
    THEN stop_([s EXCEPT !.armed = @ \ {"logout"}])
    ELSE stop_(Send(s, Plain("Logout")))

handle_heartbeat(s) == [s EXCEPT !.awaitingTest = FALSE]

handle_test_request(s) == Send(s, Plain("Heartbeat"))

\* Sets up the ResendStream; ResendStep sends it.
handle_resend_request(s, m) ==
    [s EXCEPT !.rsCur = m.begin,
              !.rsEnd = IF m.end = 0 \/ m.end >= s.nextOut THEN s.nextOut - 1
                                                           ELSE m.end]

\* Mutant: NewSeqNo taken as the last number filled.
handle_sequence_reset_mut(s, m) ==
    IF m.newSeq < s.nextIn /\ ~ m.gapFill THEN stop_with_logout(s)
    ELSE [s EXCEPT !.nextIn = m.newSeq + 1]

handle_sequence_reset(s, m) ==
    IF m.newSeq < s.nextIn /\ ~ m.gapFill THEN stop_with_logout(s)
    ELSE [s EXCEPT !.nextIn = m.newSeq]

handle_custom(s, m) ==
    LET d == [s EXCEPT !.delivered = Append(@, m.seq)]
    IN  IF m.response THEN d ELSE Send(d, CustomMsg(TRUE))

Handle(s, m) ==
    CASE m.type = "Logon"         -> handle_logon(s, m)
      [] m.type = "Logout"        -> handle_logout(s)
      [] m.type = "Heartbeat"     -> handle_heartbeat(s)
      [] m.type = "TestRequest"   -> handle_test_request(s)
      [] m.type = "ResendRequest" -> handle_resend_request(s, m)
      [] m.type = "SequenceReset" -> handle_sequence_reset(s, m)
      [] m.type = "Custom"        -> handle_custom(s, m)
      [] OTHER                    -> s   \* handle_reject only logs

-----------------------------------------------------------------------------
(* Dispatch *)

\* The sequence-number ladder of dispatch, for a message that validated.
Sequence(s, m) ==
    IF m.seq = s.nextIn THEN Handle([s EXCEPT !.nextIn = m.seq + 1], m)
    ELSE IF m.seq > s.nextIn
    THEN IF s.state = "RECOVERING_RESEND" THEN CacheAhead(s, m)
                                          ELSE BeginRecovery(s, m)
    ELSE IF m.dup THEN s
    ELSE stop_with_logout(s)

dispatch(s, m) ==
    IF s.stopped THEN s
    ELSE IF m.check = "fatal" THEN stop_with_logout(s)
    ELSE IF m.check = "invalid" THEN Send(s, Plain("Reject"))
    ELSE IF ~ Live(s) /\ is_app_message_type_(m) THEN stop_with_logout(s)
    ELSE Sequence(IF Live(s) THEN [s EXCEPT !.armed = @ \cup {"inbound"}] ELSE s, m)

\* Mutant: the recovery cache is not drained.
process_wire_message_mut(s, m) ==
    IF m.check = "garbled" THEN stop_with_logout(s) ELSE dispatch(s, m)

\* process_wire_message_ up to the loop of drain_recovery_cache_, which
\* DrainStep runs once the resend loop, if any, is over.
process_wire_message_(s, m) ==
    LET t == IF m.check = "garbled" THEN stop_with_logout(s) ELSE dispatch(s, m)
    IN  [t EXCEPT !.draining = t.cache # {} /\ t.state = "RECOVERING_RESEND"]

\* One turn of the loop of drain_recovery_cache_, or what follows the loop.
DrainStep(s) ==
    IF contains(s, s.nextIn)
    THEN LET m == CHOOSE c \in Cached(s, s.nextIn) : TRUE
         IN  [dispatch(s, m) EXCEPT !.cache = @ \ {m}]
    ELSE [s EXCEPT !.draining = FALSE,
                   !.state = IF s.cache = {} THEN "ACTIVE" ELSE @]

-----------------------------------------------------------------------------
(* The message store's ResendStream *)

\* Mutant: every registered type is gap-filled.
no_resend_mut(m) == m.type # "Unregistered"

no_resend(m) == m.type \in AdminTypes

\* The last number of the run of administrative messages that starts at b.
RunEnd(store, b, e) ==
    CHOOSE x \in b..e : /\ \A i \in b..x : no_resend(store[i])
                        /\ x < e => ~ no_resend(store[x + 1])

\* One turn of the loop of handle_resend_request: ResendStream::next and the
\* message it calls for.  outbound_index_ is not bounds-checked.
ResendStep(s) ==
    LET b == s.rsCur
        e == RunEnd(s.store, b, s.rsEnd)
    IN  IF b = 0 \/ s.rsEnd > Len(s.store) THEN Fault(s, "store_index")
        ELSE IF no_resend(s.store[b])
        THEN [send_message_(s, GapFillMsg(b, e + 1), TRUE) EXCEPT !.rsCur = e + 1]
        ELSE [send_message_(s, [s.store[b] EXCEPT !.dup = TRUE], TRUE)
                 EXCEPT !.rsCur = b + 1]

-----------------------------------------------------------------------------
(* Timer handlers.  The timer that fired is no longer armed.  A handler    *)
(* returns at once when stopped_.                                          *)

LogonExpired(s) ==
    IF s.state = IF s.role = "INITIATOR" THEN "LOGON_SENT" ELSE "AWAITING_LOGON"
    THEN stop_(s) ELSE s

HeartbeatExpired(s) ==
    [Send(s, Plain("Heartbeat")) EXCEPT !.armed = @ \cup {"heartbeat"}]

InboundExpired(s) ==
    IF s.awaitingTest THEN stop_with_logout(s)
    ELSE [Send([s EXCEPT !.awaitingTest = TRUE], Plain("TestRequest"))
             EXCEPT !.armed = @ \cup {"inbound"}]

TimerExpired(s, t) ==
    LET f == [s EXCEPT !.armed = @ \ {t}]
    IN  IF s.stopped THEN f
        ELSE CASE t = "logon"     -> LogonExpired(f)
               [] t = "heartbeat" -> HeartbeatExpired(f)
               [] t = "inbound"   -> InboundExpired(f)
               [] t = "logout"    -> stop_(f)

-----------------------------------------------------------------------------
(* The application *)

send_from_app(s, m) == IF s.stopped THEN s ELSE Send(s, m)

=============================================================================
