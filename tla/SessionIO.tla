----------------------------- MODULE SessionIO ------------------------------
(***************************************************************************)
(* The reads and writes of one Fix::Session: conn_, write_q_ with its      *)
(* messages in arena_, write_inflight_, the asynchronous operations and    *)
(* their completions.                                                      *)
(*                                                                         *)
(* An operation completes on a thread of the io_context; its handler then  *)
(* waits for the session's strand.  close() aborts the operations that are *)
(* not complete.  One that is complete keeps its result, and its handler   *)
(* may run when conn_ is reset or the next connection is there.  Handlers  *)
(* of an aborted operation and of a stopped session return at once and are *)
(* left out.                                                               *)
(***************************************************************************)
EXTENDS Arena, FiniteSetsExt

CONSTANTS
    Size,        \* pieces a message is written in
    Roles,       \* role_: an initiator sends a Logon at start
    MaxConns,    \* bound: connections
    MaxSends,    \* bound: messages besides the Logons
    Budgets      \* bounds, one of which holds: messages, those of them that
                 \* are longer than a block, transient errors

ASSUME IOAssumption ==
    /\ Size \in Nat \ {0} /\ Roles \subseteq {"INITIATOR", "ACCEPTOR"}
    /\ MaxConns \in Nat /\ MaxSends \in Nat
    /\ Budgets \subseteq [sends : 0..MaxSends, transient : Nat, large : SUBSET Nat]

(***************************************************************************)
(* s is the session: conn (conn_, 0 if null), live (state_ is not          *)
(* DISCONNECTED), stopped, reconnecting, q (write_q_), inflight, fault.    *)
(* arena is arena_.  ops are the operations outstanding; a write is from   *)
(* the memory of handle, at is where it begins, n how many pieces it has   *)
(* written.  open are the sockets that are open,        *)
(* wire[k] what was written to connection k.  connect is the connection    *)
(* factory's side: nothing, asked, or the handler between set_connection   *)
(* and start.                                                              *)
(***************************************************************************)
VARIABLES s, arena, ops, open, wire, connect, budget

(***************************************************************************)
(* sent[k] are the messages send_bytes_ took while conn_ was connection k. *)
(* hist says whether a handler of an earlier connection had an effect      *)
(* (stale), a message was sent with conn_ null (bare) or between           *)
(* set_connection and start (early), and whether the session got a         *)
(* connection after its stop (late).                                       *)
(***************************************************************************)
VARIABLES sent, hist

vars == <<s, arena, ops, open, wire, connect, budget, sent, hist>>

Conns == 1..MaxConns

Init ==
    /\ s \in {[role |-> r, conn |-> 0, live |-> FALSE, stopped |-> FALSE, reconnecting |-> FALSE,
               q |-> <<>>, inflight |-> FALSE, fault |-> "none"] : r \in Roles}
    /\ arena = NewArena /\ ops = {} /\ open = {} /\ wire = [k \in Conns |-> <<>>]
    /\ connect = [stage |-> "asked", mode |-> "NORMAL", next |-> 1]
    /\ budget \in Budgets
    /\ sent = [k \in Conns |-> <<>>]
    /\ hist = [stale |-> FALSE, bare |-> FALSE, early |-> FALSE, late |-> FALSE]

\* None of the three ways has happened in which the code loses track of its
\* operations.  wire and sent are recorded until then.
Undisturbed == ~ hist.stale /\ ~ hist.bare /\ ~ hist.early

(***************************************************************************)
(* A handler in progress: w has the session, the arena, the operations,    *)
(* the open sockets and what was sent.                                     *)
(***************************************************************************)
Now == [s |-> s, arena |-> arena, ops |-> ops, open |-> open, sent |-> sent]

Fault(w, what) == [w EXCEPT !.s.fault = IF @ = "none" THEN what ELSE @]

\* An asynchronous operation on conn_; copy tells two like ones apart.
Begin(w, kind, handle, at) ==
    LET Op(i) == [kind |-> kind, conn |-> w.s.conn, handle |-> handle, at |-> at, copy |-> i,
                  n |-> 0, result |-> "none"]
        i == Min({j \in 1..(Cardinality(w.ops) + 1) : Op(j) \notin w.ops})
    IN  IF w.s.conn = 0 THEN Fault(w, "null_conn") ELSE [w EXCEPT !.ops = @ \cup {Op(i)}]

do_read(w) == IF w.s.stopped THEN w ELSE Begin(w, "read", NoHandle, 0)

\* Mutant: write_inflight_ stays set when the queue is empty.
do_writeKeepsFlag(w) ==
    IF w.s.q = <<>> \/ w.s.stopped THEN w
    ELSE Begin(w, "write", Head(w.s.q).handle, Head(w.s.q).sent)

do_write(w) ==
    IF w.s.q = <<>> THEN [w EXCEPT !.s.inflight = FALSE]
    ELSE IF w.s.stopped THEN w
    ELSE Begin(w, "write", Head(w.s.q).handle, Head(w.s.q).sent)

\* AsioConnection::close.
close(w) ==
    [w EXCEPT !.open = @ \ {w.s.conn},
              !.ops = {o \in @ : o.conn # w.s.conn \/ o.result # "none"}]

\* write_q_ with one more message.
Queued(w, m) ==
    LET large == m \in budget.large
    IN  [w EXCEPT !.arena = from_arena(@, m, large),
                  !.s.q = Append(@, [handle |-> Allocated(w.arena, m, large), sent |-> 0]),
                  !.sent = [k \in Conns |-> IF Undisturbed /\ k = w.s.conn THEN Append(@[k], m) ELSE @[k]]]

\* Mutant: write_inflight_ is not looked at.
send_bytes_AtOnce(w) == do_write([w EXCEPT !.s.inflight = TRUE])

send_bytes_(w) == IF w.s.inflight THEN w ELSE do_write([w EXCEPT !.s.inflight = TRUE])

send_message_(w, m) == IF w.s.stopped THEN w ELSE send_bytes_(Queued(w, m))

\* write_q_.clear(), which ends the handles front to back.
Cleared(w) ==
    [w EXCEPT !.arena = release_all(@, [i \in DOMAIN w.s.q |-> w.s.q[i].handle]), !.s.q = <<>>]

\* Mutant: the connection is left to the write that is under way.
stop_AfterWrite(w) ==
    LET t == IF w.s.conn = 0 \/ w.s.inflight THEN w ELSE close(w)
    IN  IF w.s.stopped THEN w
        ELSE [Cleared(t) EXCEPT !.s.live = FALSE, !.s.stopped = TRUE,
                                !.s.inflight = FALSE, !.ops = {}]

stop_(w) ==
    LET t == IF w.s.conn = 0 THEN w ELSE close(w)
    IN  IF w.s.stopped THEN w
        ELSE [Cleared(t) EXCEPT !.s.live = FALSE, !.s.stopped = TRUE,
                                !.s.inflight = FALSE, !.ops = {}]

on_transport_down_(w) ==
    IF ~ w.s.live \/ w.s.stopped \/ w.s.reconnecting THEN w
    ELSE [Cleared(close(w)) EXCEPT !.s.reconnecting = TRUE, !.s.conn = 0, !.s.live = FALSE,
                                   !.s.inflight = FALSE]

\* The Logon of an initiator.
send_logon(w, m) == IF w.s.role = "INITIATOR" THEN send_message_(w, m) ELSE w

start_normal_(w, m) ==
    IF w.s.conn = 0 THEN w ELSE [send_logon(do_read(w), m) EXCEPT !.s.live = TRUE]

start_after_reconnect_(w, m) ==
    LET t == [Cleared(w) EXCEPT !.s.reconnecting = FALSE, !.s.inflight = FALSE]
    IN  IF w.s.conn = 0 \/ w.s.stopped THEN w
        ELSE do_read([send_logon(t, m) EXCEPT !.s.live = TRUE])

\* The result of a handler.
Commit(w) == s' = w.s /\ arena' = w.arena /\ ops' = w.ops /\ open' = w.open /\ sent' = w.sent

Idle == s.fault = "none"

-----------------------------------------------------------------------------
(* Connections *)

\* async_connect or async_listen has a connection.
Establish ==
    /\ Idle /\ connect.stage = "asked" /\ connect.next <= MaxConns
    /\ connect' = [connect EXCEPT !.stage = "offered"]
    /\ open' = open \cup {connect.next}
    /\ UNCHANGED <<s, arena, ops, wire, budget, sent, hist>>

set_connection ==
    /\ Idle /\ connect.stage = "offered"
    /\ connect' = [connect EXCEPT !.stage = "set"]
    /\ s' = [s EXCEPT !.conn = connect.next]
    /\ hist' = [hist EXCEPT !.late = @ \/ s.stopped]
    /\ UNCHANGED <<arena, ops, open, wire, budget, sent>>

\* start is posted to the strand right behind set_connection; other threads
\* may post in between.  The numbers of messages count down with the budget;
\* a Logon has one above MaxSends.
start ==
    /\ Idle /\ connect.stage = "set"
    /\ connect' = [connect EXCEPT !.stage = "none", !.next = @ + 1]
    /\ Commit(IF connect.mode = "NORMAL" THEN start_normal_(Now, MaxSends + connect.next)
              ELSE start_after_reconnect_(Now, MaxSends + connect.next))
    /\ UNCHANGED <<wire, budget, hist>>

-----------------------------------------------------------------------------
(* The io_context *)

Completes(o, result, n) ==
    /\ Idle /\ o.result = "none"
    /\ LET Done(i) == [o EXCEPT !.result = result, !.n = n, !.copy = i]
           i == Min({j \in 1..(Cardinality(ops) + 1) : Done(j) \notin ops})
       IN  ops' = (ops \ {o}) \cup {Done(i)}
    /\ UNCHANGED <<s, arena, open, connect, sent, hist>>

Pieces(m, from, to) == [i \in 1..(to - from) |-> <<m, from + i>>]

ReadSome(o) ==
    o.kind = "read" /\ Completes(o, "ok", 0) /\ UNCHANGED <<wire, budget>>

WriteSome(o) ==
    /\ o.kind = "write"
    /\ \E n \in 1..(Size - o.at) :
         /\ Completes(o, "ok", n)
         /\ wire' = IF Undisturbed
                    THEN [wire EXCEPT ![o.conn] = @ \o Pieces(Read(arena, o.handle), o.at, o.at + n)]
                    ELSE wire
    /\ UNCHANGED budget

Fails(o) == Completes(o, "fatal", 0) /\ UNCHANGED <<wire, budget>>

Hiccup(o) ==
    /\ budget.transient > 0 /\ Completes(o, "transient", 0)
    /\ budget' = [budget EXCEPT !.transient = @ - 1]
    /\ UNCHANGED wire

-----------------------------------------------------------------------------
(* The strand *)

\* The handler of o changes something.
Effective(o) ==
    \/ o.result \in {"ok", "transient"}
    \/ o.result = "fatal" /\ s.live /\ ~ s.reconnecting

\* The handler of o runs on w, which no longer has it, and gives t.
Handler(o, t) ==
    /\ Idle /\ o.result # "none"
    /\ Commit(t)
    /\ hist' = [hist EXCEPT !.stale = @ \/ (Effective(o) /\ o.conn # s.conn)]
    \* reconnect_callback_: the manager asks for the next connection.
    /\ connect' = IF t.s.reconnecting /\ ~ s.reconnecting
                  THEN [connect EXCEPT !.stage = "asked", !.mode = "RECONNECT"] ELSE connect
    /\ UNCHANGED wire

Without(o) == [Now EXCEPT !.ops = @ \ {o}]

ReadHandlerFails(o) ==
    /\ o.kind = "read" /\ o.result \in {"transient", "fatal"}
    /\ Handler(o, IF o.result = "transient" THEN do_read(Without(o))
                                            ELSE on_transport_down_(Without(o)))
    /\ UNCHANGED budget

\* The messages in what was read need no answer, or one.
ReadHandler(o) ==
    /\ o.kind = "read" /\ o.result = "ok"
    /\ \/ Handler(o, do_read(Without(o))) /\ UNCHANGED budget
       \/ /\ budget.sends > 0 /\ budget' = [budget EXCEPT !.sends = @ - 1]
          /\ Handler(o, do_read(send_message_(Without(o), budget.sends)))

\* A Logout is among them: handle_logout answers it and stops.
ReadHandlerLogout(o) ==
    /\ o.kind = "read" /\ o.result = "ok"
    /\ budget.sends > 0 /\ budget' = [budget EXCEPT !.sends = @ - 1]
    /\ Handler(o, do_read(stop_(send_message_(Without(o), budget.sends))))

WriteHandlerFails(o) ==
    /\ o.kind = "write" /\ o.result \in {"transient", "fatal"}
    /\ Handler(o, IF o.result = "transient" THEN do_write(Without(o))
                                            ELSE on_transport_down_(Without(o)))
    /\ UNCHANGED budget

\* Mutant: a message is taken for written after the first piece.
WrittenWhole(w, n) ==
    [w EXCEPT !.arena = release(@, Head(w.s.q).handle), !.s.q = Tail(@)]

\* The front of write_q_ after n more pieces of it.
Written(w, n) ==
    IF w.s.q = <<>> THEN Fault(w, "no_front")
    ELSE IF Head(w.s.q).sent + n >= Size
         THEN [w EXCEPT !.arena = release(@, Head(w.s.q).handle), !.s.q = Tail(@)]
    ELSE [w EXCEPT !.s.q[1].sent = @ + n]

WriteHandler(o) ==
    /\ o.kind = "write" /\ o.result = "ok"
    /\ LET w == Written(Without(o), o.n)
       IN  Handler(o, IF w.s.fault = "none" THEN do_write(w) ELSE w)
    /\ UNCHANGED budget

\* send_from_app.
AppSend ==
    /\ Idle /\ budget.sends > 0
    /\ budget' = [budget EXCEPT !.sends = @ - 1]
    /\ Commit(send_message_(Now, budget.sends))
    /\ hist' = [hist EXCEPT !.bare = @ \/ (s.conn = 0 /\ ~ s.stopped),
                            !.early = @ \/ (connect.stage = "set" /\ ~ s.stopped)]
    /\ UNCHANGED <<wire, connect>>

stop == Idle /\ ~ s.stopped /\ Commit(stop_(Now)) /\ UNCHANGED <<wire, connect, budget, hist>>

Next ==
    \/ Establish \/ set_connection \/ start \/ AppSend \/ stop
    \/ \E o \in ops :
         \/ ReadSome(o) \/ WriteSome(o) \/ Fails(o) \/ Hiccup(o)
         \/ ReadHandlerFails(o) \/ ReadHandler(o) \/ ReadHandlerLogout(o)
         \/ WriteHandlerFails(o) \/ WriteHandler(o)

Spec == Init /\ [][Next]_vars

(***************************************************************************)
(* Properties.                                                             *)
(***************************************************************************)
\* do_read and do_write use conn_, and a write handler the front of
\* write_q_, without a check.  Both are there, unless the handler of an
\* earlier connection runs or a message is sent before start; transient
\* errors, partial writes, stops and lost connections alone do no harm.
NoUndefinedUse == Undisturbed => s.fault = "none"

\* On the current connection one read is outstanding, and one write exactly
\* if something is queued: write_q_ never waits for a completion that does
\* not come, and no two writes are under way.
OneReadOneWrite ==
    Undisturbed /\ s.live /\ ~ s.stopped =>
      LET reads  == {o \in ops : o.conn = s.conn /\ o.kind = "read"}
          writes == {o \in ops : o.conn = s.conn /\ o.kind = "write"}
      IN  /\ Cardinality(reads) = 1
          /\ Cardinality(writes) = IF s.q = <<>> THEN 0 ELSE 1
          /\ s.inflight <=> s.q # <<>>

\* A connection carries the messages that were sent while it was there, in
\* order, whole up to the last, whatever pieces they were written in and
\* whatever failed before.
WireIntact ==
    Undisturbed =>
      \A k \in Conns : IsPrefix(wire[k], FlattenSeq([i \in DOMAIN sent[k] |-> Pieces(sent[k][i], 0, Size)]))

\* Every block is either in the free list, once, or holds one message of
\* write_q_, and no memory is left behind: also when a handler comes late,
\* when the queue is cleared with a write under way, and when the blocks run
\* out and messages go to the heap.
BlocksExact ==
    LET handles == [i \in DOMAIN s.q |-> s.q[i].handle]
        held    == {h.index : h \in {g \in ToSet(handles) : g.source = "Arena"}}
        free    == FreeList(arena)
    IN  /\ IsInjective(handles)
        /\ \A i, j \in DOMAIN free : free[i] = free[j] /\ i # j => free[i] = End
        /\ ToSet(free) \ {End} = Blocks \ held
        /\ \A i \in held : arena.block[i][1] = "msg"
        /\ arena.heap = {h.index : h \in {g \in ToSet(handles) : g.source = "Heap"}}

\* A session that was stopped has no open socket, unless it got the
\* connection after its stop.
StopLeavesNoSocket == s.stopped /\ s.conn \in open => hist.late
=============================================================================
