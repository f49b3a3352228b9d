--------------------------- MODULE SessionManager ---------------------------
(***************************************************************************)
(* Fix::SessionManager with its SessionPool, the sessions as far as their  *)
(* lifetime goes, and the LogFileSink the drain thread of LogCore writes   *)
(* to.                                                                     *)
(*                                                                         *)
(* create_session and remove_session run on the caller's thread, what is   *)
(* posted runs on the manager's strand, connection handlers on threads of  *)
(* the io_context and writes to the sink on the drain thread.  The pool    *)
(* and the sink have no lock; each access to them is taken as one step.    *)
(***************************************************************************)
EXTENDS SessionPool, LogFileSink

\* Bounds, one set of which holds in a behaviour: create_session calls; send,
\* stop_session and stop_all calls; connections that are lost; files the
\* system does not open; log entries the drain thread may be behind.
CONSTANT Budgets

ASSUME ManagerAssumption ==
    Budgets \subseteq [sessions : Nat, posts : Nat, downs : Nat, refusals : Nat, ring : Nat]

(***************************************************************************)
(* pool, and session_configs_ as the handles it has; the role in a config  *)
(* only picks the call of the connection factory.  creating is the session *)
(* create_session has emplaced and not yet registered with the log.  objs has the Session objects by id.   *)
(* connects are the async_connect and async_listen under way, each with    *)
(* the weak_ptr's session and the StartMode.  strand is the queue of the   *)
(* manager's strand, ring that of LogCore.  engine is "up", "closing" in   *)
(* LogCore's destructor, "down" after it; closed has the nodes shutdown has  *)
(* closed.                                                                 *)
(***************************************************************************)
VARIABLES pool, configs, creating, objs, connects, strand, ring, sink, engine, closed, budget

(***************************************************************************)
(* What happened so far: remove_session calls, sessions somebody asked to  *)
(* stop, stop_all run inside a create_session, sessions whose file could   *)
(* not be opened, sessions a connect of which failed for good.             *)
(***************************************************************************)
VARIABLE hist

vars == <<pool, configs, creating, objs, connects, strand, ring, sink, engine, closed, budget, hist>>

Handles == configs
Ids == DOMAIN objs

\* mail is what send_from_app took, held whether handlers keep the object
\* alive, logged the number of its log entries.
NewObj(h) ==
    [handle |-> h, conn |-> FALSE, stopped |-> FALSE, down |-> FALSE,
     held |-> FALSE, mail |-> {}, logged |-> 0]

Init ==
    /\ pool = NewPool /\ configs = {} /\ creating = None /\ objs = <<>>
    /\ connects = {} /\ strand = <<>> /\ ring = <<>> /\ sink = NewSink /\ engine = "up"
    /\ budget \in Budgets
    /\ hist = [removed |-> {}, asked |-> {}, overtaken |-> FALSE,
               refused |-> {}, gaveUp |-> {}]
    /\ closed = {}

Running == engine = "up" /\ sink.fault = "none" /\ Len(ring) <= budget.ring

\* The system opens the file asked for next, or does not.
Opens(ok) == ok \/ budget.refusals > 0

Refusal(ok, n) ==
    /\ Opens(ok)
    /\ budget' = [budget EXCEPT !.refusals = IF ok THEN @ ELSE @ - 1]
    /\ hist' = [hist EXCEPT !.refused = IF ok THEN @ ELSE @ \cup {n}]

InPool(i) == \E h \in ToSet(pool.sessions) : h.id = i

\* Mutant: the handler holds a shared_ptr.
AliveShared(i) == TRUE

\* weak_ptr::lock finds the object.
Alive(i) == InPool(i) \/ objs[i].held

\* The objects after os' loggers were called once for each of S, on the
\* strands of the sessions and so in any order, and the ring.
Log(os, S) ==
    /\ objs' = [i \in DOMAIN os |->
                  IF i \in S THEN [os[i] EXCEPT !.logged = @ + 1] ELSE os[i]]
    /\ \E entries \in SetToSeqs({[id |-> i, entry |-> os[i].logged + 1] : i \in S}) :
         ring' = ring \o entries

-----------------------------------------------------------------------------
(* Caller's thread *)

\* create_session as far as emplace_session.
CreateBegin ==
    /\ Running /\ creating = None /\ pool.next_idx < budget.sessions
    /\ pool' = emplace_session(pool)
    /\ creating' = NextID(pool)
    /\ objs' = [i \in Ids \cup {pool.next_idx} |->
                  IF i = pool.next_idx THEN NewObj(NextID(pool)) ELSE objs[i]]
    /\ UNCHANGED <<configs, connects, strand, ring, sink, engine, closed, budget, hist>>

\* Mutant: the session is not registered with the log.
CreateEndUnregistered(ok) ==
    /\ Running /\ creating # None
    /\ configs' = configs \cup {creating}
    /\ connects' = connects \cup {[id |-> creating.id, mode |-> "NORMAL"]}
    /\ creating' = None /\ UNCHANGED <<objs, sink, hist>>
    /\ UNCHANGED <<pool, strand, ring, engine, closed, budget>>

\* The rest of it: add_session, which writes an entry, and the connect.
CreateEnd(ok) ==
    /\ Running /\ creating # None
    /\ sink' = add_session(sink, creating.id, objs[creating.id].logged + 1, ok)
    /\ objs' = [objs EXCEPT ![creating.id].logged = @ + 1]
    /\ configs' = configs \cup {creating}
    /\ connects' = connects \cup {[id |-> creating.id, mode |-> "NORMAL"]}
    /\ creating' = None
    /\ Refusal(ok, creating.id)
    /\ UNCHANGED <<pool, strand, ring, engine, closed>>

remove_session(h) ==
    /\ Running /\ creating = None /\ h \in Handles
    /\ pool' = remove(pool, h)
    /\ hist' = [hist EXCEPT !.removed = @ \cup {h.id}]
    /\ UNCHANGED <<configs, creating, objs, connects, strand, ring, sink, engine, closed, budget>>

Post(task) ==
    /\ Running /\ budget.posts > 0
    /\ strand' = Append(strand, task)
    /\ budget' = [budget EXCEPT !.posts = @ - 1]
    /\ UNCHANGED <<pool, configs, creating, objs, connects, ring, sink, engine, closed, hist>>

send(h) == h \in Handles /\ Post([op |-> "send", handle |-> h])

stop_session(h) == h \in Handles /\ Post([op |-> "stop", handle |-> h])

stop_all == Post([op |-> "stop_all", handle |-> None])

-----------------------------------------------------------------------------
(* The manager's strand *)

\* Session::stop_: no effect the second time, closes a connection if there is one.
Stopped(o) == [o EXCEPT !.stopped = TRUE, !.conn = o.conn /\ o.stopped]

RunTask(op) ==
    /\ Running /\ strand # <<>> /\ Head(strand).op = op
    /\ strand' = Tail(strand)

RunSend ==
    /\ RunTask("send")
    /\ LET h == Head(strand).handle
           s == get(pool, h)
       IN  objs' = IF s = None \/ objs[s.id].stopped THEN objs
                   ELSE [objs EXCEPT ![s.id].mail = @ \cup {h.id}]
    /\ UNCHANGED <<pool, configs, creating, connects, ring, sink, engine, closed, budget, hist>>

\* Session::stop of the sessions in S.
StopThese(S) ==
    Log([i \in Ids |-> IF i \in S THEN Stopped(objs[i]) ELSE objs[i]],
        {i \in S : ~ objs[i].stopped})

RunStop ==
    /\ RunTask("stop")
    /\ StopThese({get(pool, Head(strand).handle).id} \cap Ids)
    /\ hist' = [hist EXCEPT !.asked = @ \cup {Head(strand).handle.id}]
    /\ UNCHANGED <<pool, configs, creating, connects, sink, engine, closed, budget>>

RunStopAll ==
    /\ RunTask("stop_all")
    /\ StopThese({h.id : h \in get_all(pool)})
    /\ hist' = [hist EXCEPT !.asked = @ \cup {h.id : h \in get_all(pool)},
                            !.overtaken = @ \/ creating # None]
    /\ UNCHANGED <<pool, configs, creating, connects, sink, engine, closed, budget>>

reconnect_session_impl_ ==
    /\ RunTask("reconnect")
    /\ LET h == Head(strand).handle
       IN  connects' = IF h \notin Handles \/ get(pool, h) = None THEN connects
                       ELSE connects \cup {[id |-> h.id, mode |-> "RECONNECT"]}
    /\ UNCHANGED <<pool, configs, creating, objs, ring, sink, engine, closed, budget, hist>>

-----------------------------------------------------------------------------
(* Connections *)

\* The handler of async_connect or async_listen with a connection:
\* set_connection and start.  A stopped session keeps the connection; only a
\* normal start then arms a timer that holds the object.
Connected(c) ==
    /\ Running /\ c \in connects
    /\ connects' = connects \ {c}
    /\ IF Alive(c.id)
       THEN Log([objs EXCEPT ![c.id].conn = TRUE,
                             ![c.id].held = ~ objs[c.id].stopped \/ c.mode = "NORMAL" \/ @,
                             ![c.id].down = @ /\ objs[c.id].stopped], {c.id})
       ELSE UNCHANGED <<objs, ring>>
    /\ UNCHANGED <<pool, configs, creating, strand, sink, engine, closed, budget, hist>>

ConnectFailed(c) ==
    /\ Running /\ c \in connects
    /\ connects' = connects \ {c}
    /\ IF Alive(c.id) THEN Log(objs, {c.id}) ELSE UNCHANGED <<objs, ring>>
    /\ hist' = [hist EXCEPT !.gaveUp = @ \cup {c.id}]
    /\ UNCHANGED <<pool, configs, creating, strand, sink, engine, closed, budget>>

\* Mutant: the callback is not called.
TransportDownSilent(i) ==
    /\ Running /\ budget.downs > 0
    /\ i \in Ids /\ objs[i].conn /\ ~ objs[i].stopped
    /\ Log([objs EXCEPT ![i].conn = FALSE, ![i].down = TRUE], {i})
    /\ budget' = [budget EXCEPT !.downs = @ - 1]
    /\ UNCHANGED <<pool, configs, creating, connects, strand, sink, engine, closed, hist>>

\* A read or a write of session i fails: on_transport_down_, whose callback
\* posts the reconnect.
TransportDown(i) ==
    /\ Running /\ budget.downs > 0
    /\ i \in Ids /\ objs[i].conn /\ ~ objs[i].stopped
    /\ Log([objs EXCEPT ![i].conn = FALSE, ![i].down = TRUE], {i})
    /\ strand' = Append(strand, [op |-> "reconnect", handle |-> objs[i].handle])
    /\ budget' = [budget EXCEPT !.downs = @ - 1]
    /\ UNCHANGED <<pool, configs, creating, connects, sink, engine, closed, hist>>

\* The last handler of a session that is down or stopped has run.
HandlersGone(i) ==
    /\ Running /\ i \in Ids /\ objs[i].held /\ (~ objs[i].conn \/ objs[i].stopped)
    /\ objs' = [objs EXCEPT ![i].held = FALSE]
    /\ UNCHANGED <<pool, configs, creating, connects, strand, ring, sink, engine, closed, budget, hist>>

-----------------------------------------------------------------------------
(* The drain thread *)

Drain(ok) ==
    /\ engine # "down" /\ sink.fault = "none" /\ ring # <<>>
    /\ ring' = Tail(ring)
    /\ sink' = write(sink, Head(ring).id, Head(ring).entry, ok)
    /\ Refusal(ok, Head(ring).id)
    /\ UNCHANGED <<pool, configs, creating, objs, connects, strand, engine, closed>>

\* LogCore's destructor.  The pool is destroyed before it.
BeginShutdown ==
    /\ Running /\ creating = None
    /\ engine' = "closing"
    /\ UNCHANGED <<closed, pool, configs, creating, objs, connects, strand, ring, sink, budget, hist>>

\* shutdown closes the nodes in the order of the hash table.
CloseNode(n, ok) ==
    /\ engine = "closing" /\ sink.fault = "none" /\ ring = <<>>
    /\ n \in DOMAIN sink.nodes \ closed
    /\ sink' = close_file(sink, n, ok)
    /\ closed' = closed \cup {n}
    /\ Refusal(ok, n)
    /\ UNCHANGED <<pool, configs, creating, objs, connects, strand, ring, engine>>

ShutdownDone ==
    /\ engine = "closing" /\ sink.fault = "none" /\ ring = <<>>
    /\ DOMAIN sink.nodes \subseteq closed
    /\ engine' = "down" /\ sink' = Cleared(sink)
    /\ UNCHANGED <<closed, pool, configs, creating, objs, connects, strand, ring, budget, hist>>

RunStrand == RunSend \/ RunStop \/ RunStopAll \/ reconnect_session_impl_

Next ==
    \/ CreateBegin
    \/ \E ok \in BOOLEAN : CreateEnd(ok) \/ Drain(ok)
    \/ \E h \in Handles : remove_session(h) \/ send(h) \/ stop_session(h)
    \/ stop_all \/ RunStrand
    \/ \E c \in connects : Connected(c) \/ ConnectFailed(c)
    \/ \E i \in Ids : TransportDown(i) \/ HandlersGone(i)
    \/ BeginShutdown \/ ShutdownDone
    \/ \E n \in DOMAIN sink.nodes, ok \in BOOLEAN : CloseNode(n, ok)

Spec == Init /\ [][Next]_vars

(***************************************************************************)
(* Properties.                                                             *)
(***************************************************************************)
\* A slot is free or holds the session that was put there last and was not
\* removed, whatever stale handles remove_session was called with; no slot
\* is free twice.
SlotsExact ==
    /\ ToSet(pool.sessions) \ {None} = {objs[i].handle : i \in Ids \ hist.removed}
    /\ ToSet(pool.free) = {k \in DOMAIN pool.sessions : pool.sessions[k] = None}
    /\ size(pool) = Cardinality(Ids \ hist.removed)

\* A message or a stop that waited on the strand while its session was
\* removed and the slot used again does not reach the new session.
OwnHandleOnly ==
    \A i \in Ids : objs[i].mail \subseteq {i} /\ (objs[i].stopped => i \in hist.asked)

\* A Session object nobody holds stays dead: no connect or reconnect that
\* comes late, and no stale handle, starts, stops or feeds it.
DeadStaysDead ==
    [][\A i \in Ids : ~ InPool(i) /\ ~ objs[i].held => objs'[i] = objs[i] /\ ~ InPool(i)']_vars

\* The drain thread meets no session that is not registered, unless stop_all
\* reached it between emplace_session and add_session.
RegisteredFirst == sink.fault = "unregistered" => hist.overtaken

\* With no more sessions than files that may be open, the LRU list has
\* exactly the open files, each once, and no iterator dangles.
LruExact ==
    Cardinality(Ids) <= MAX_LRU_CACHE_SIZE =>
      /\ sink.fault \in {"none", "unregistered"}
      /\ engine = "up" =>
           LET open == {n \in DOMAIN sink.nodes : sink.nodes[n].open}
           IN  /\ sink.count = Cardinality(open) /\ Len(sink.lru) = sink.count
               /\ \A n \in open : CellOf(sink, n) # 0 /\ sink.lru[CellOf(sink, n)].id = n

\* With no more sessions than that, each file is in the end one JSON array
\* with all entries of its session in the order they were logged.
FilesWellFormed ==
    engine = "down" /\ ~ hist.overtaken /\ Cardinality(Ids) <= MAX_LRU_CACHE_SIZE =>
      \A i \in Ids \ hist.refused :
        sink.files[i] = [k \in 1..(objs[i].logged + 1) |->
                           [sep   |-> IF k = 1 THEN "[" ELSE IF k <= objs[i].logged THEN "," ELSE "]",
                            entry |-> IF k <= objs[i].logged THEN k ELSE 0]]

\* The connects and reconnects under way for session i.
InHand(i) ==
    Cardinality({c \in connects : c.id = i})
    + Cardinality({k \in DOMAIN strand : strand[k].op = "reconnect" /\ strand[k].handle.id = i})

\* A session never has two connects under way.  One that lost its connection
\* has one, as long as it is in the pool, not stopped, and the connection
\* factory has not given up.
OneConnectInHand ==
    \A i \in Ids :
      /\ InHand(i) <= 1 /\ (objs[i].conn /\ ~ objs[i].stopped => InHand(i) = 0)
      /\ objs[i].down /\ InPool(i) /\ ~ objs[i].stopped /\ i \notin hist.gaveUp => InHand(i) = 1
=============================================================================
