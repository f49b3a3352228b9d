------------------------------ MODULE LogCore ------------------------------
(***************************************************************************)
(* Fix::Log::LogCore: strands and application threads push log entries     *)
(* into an MpscRing, a jthread drains it into the file sink, and the       *)
(* destructor stops the thread after a last drain.                         *)
(*                                                                         *)
(* A step is one atomic operation, or one access to a cell's data.  Every  *)
(* epoch is stored with release and loaded with acquire order and head_ is *)
(* advanced with acq_rel, so the interleaving of the steps is what the     *)
(* threads may see as long as DataRaceFree holds.                          *)
(*                                                                         *)
(* sem_ is a counting_semaphore<1024>: a release that brings it above its  *)
(* max() is undefined by the text of the standard.  push can do that (1024 *)
(* entries in the ring beside permits not yet spent), and ~LogCore does    *)
(* whenever a permit is left.  The usual libraries count in a machine word *)
(* and add, and so does sem; it has no bound.                              *)
(***************************************************************************)
EXTENDS Integers, Sequences

CONSTANTS
    Producers,   \* threads that log
    Capacity,    \* MpscRing::capacity (1024 in the code)
    Burst,       \* entries after which drain looks at the semaphore (1024)
    Calls,       \* the calls producers make, of "push" and "try_push"
    MaxPush      \* bound: calls of each producer

ASSUME LogAssumption ==
    /\ Capacity \in Nat \ {0, 1}
    /\ Burst \in Nat \ {0}
    /\ Calls \subseteq {"push", "try_push"}
    /\ MaxPush \in Nat

Cells == 0..(Capacity - 1)

\* buff_[ticket & mask]
Cell(ticket) == ticket % Capacity

Entries == Producers \X (1..MaxPush)

NoEntry == <<>>

(***************************************************************************)
(* epoch, data, head, tail: the ring.  sem: sem_.  stop: what the thread's *)
(* stop_token says.  pc, ticket, count: where each producer is in push or  *)
(* try_push, its ticket, and the calls it has begun.  dpc, final, drained, *)
(* cnt, out: where the drain thread is, whether in its last loop, and its  *)
(* locals.  owner: the thread that runs ~LogCore.                          *)
(* log and written are history: the entries in ticket order, and in the    *)
(* order the sink got them; refused are the tickets try_push gave up.      *)
(***************************************************************************)
VARIABLES epoch, data, head, tail, sem, stop,
          pc, ticket, count,
          dpc, final, drained, cnt, out,
          owner, log, written, refused

ring     == <<epoch, data, head, tail>>
producer == <<pc, ticket, count>>
drainer  == <<dpc, final, drained, cnt, out>>
history  == <<log, written, refused>>
vars     == <<ring, sem, stop, producer, drainer, owner, history>>

\* The types of the variables, for proofs about the ring.
TypeOK ==
    /\ epoch \in [Cells -> Nat]
    /\ data \in [Cells -> Entries \cup {NoEntry}]
    /\ head \in Nat /\ tail \in Nat /\ sem \in Nat /\ stop \in BOOLEAN
    /\ pc \in [Producers -> {"idle", "push", "try_push", "write", "publish", "release"}]
    /\ ticket \in [Producers -> Nat]
    /\ count \in [Producers -> 0..MaxPush]
    /\ dpc \in {"check", "acquire", "pop", "read", "free", "again", "done"}
    /\ final \in BOOLEAN
    /\ drained \in Nat /\ cnt \in 0..Capacity
    /\ out \in Entries \cup {NoEntry}
    /\ owner \in {"alive", "stopping", "joining", "gone"}
    /\ log \in Seq(Entries) /\ written \in Seq(Entries)
    /\ refused \subseteq 0..(Len(log) - 1)

Init ==
    /\ epoch = [c \in Cells |-> c] /\ data = [c \in Cells |-> NoEntry]
    /\ head = 0 /\ tail = 0 /\ sem = 0 /\ stop = FALSE
    /\ pc = [p \in Producers |-> "idle"]
    /\ ticket = [p \in Producers |-> 0] /\ count = [p \in Producers |-> 0]
    /\ dpc = "check" /\ final = FALSE /\ drained = 0 /\ cnt = 0 /\ out = NoEntry
    /\ owner = "alive" /\ log = <<>> /\ written = <<>> /\ refused = {}

-----------------------------------------------------------------------------
(* LogCore::push and LogCore::try_push, in a producer *)

\* head_.fetch_add
FetchTicket(p, c) ==
    /\ pc[p] = "idle" /\ count[p] < MaxPush /\ owner = "alive"
    /\ ticket' = [ticket EXCEPT ![p] = head]
    /\ head' = head + 1
    /\ count' = [count EXCEPT ![p] = @ + 1]
    /\ log' = Append(log, <<p, count[p] + 1>>)
    /\ pc' = [pc EXCEPT ![p] = c]
    /\ UNCHANGED <<epoch, data, tail, sem, stop, drainer, owner, written, refused>>

\* Mutant: the cell is taken as soon as its last entry was published.
CellIsFree_mut(t) == epoch[Cell(t)] \in {t, t - Capacity + 1}

CellIsFree(t) == epoch[Cell(t)] = t

\* push spins until its turn comes; try_push looks once, its ticket spent.
Claim(p) ==
    /\ pc[p] \in {"push", "try_push"} /\ CellIsFree(ticket[p])
    /\ pc' = [pc EXCEPT ![p] = "write"]
    /\ UNCHANGED <<ring, sem, stop, ticket, count, drainer, owner, history>>

Refuse(p) ==
    /\ pc[p] = "try_push" /\ ~ CellIsFree(ticket[p])
    /\ pc' = [pc EXCEPT ![p] = "idle"]
    /\ refused' = refused \cup {ticket[p]}
    /\ UNCHANGED <<ring, sem, stop, ticket, count, drainer, owner, log, written>>

Write(p) ==
    /\ pc[p] = "write"
    /\ data' = [data EXCEPT ![Cell(ticket[p])] = <<p, count[p]>>]
    /\ pc' = [pc EXCEPT ![p] = "publish"]
    /\ UNCHANGED <<epoch, head, tail, sem, stop, ticket, count, drainer, owner, history>>

Publish(p) ==
    /\ pc[p] = "publish"
    /\ epoch' = [epoch EXCEPT ![Cell(ticket[p])] = ticket[p] + 1]
    /\ pc' = [pc EXCEPT ![p] = "release"]
    /\ UNCHANGED <<data, head, tail, sem, stop, ticket, count, drainer, owner, history>>

\* Mutant: sem_ is released only for a ring that was empty.
Release_mut(p) ==
    /\ pc[p] = "release"
    /\ sem' = IF sem = 0 /\ head = tail + 1 THEN 1 ELSE sem
    /\ pc' = [pc EXCEPT ![p] = "idle"]
    /\ UNCHANGED <<ring, stop, ticket, count, drainer, owner, history>>

\* sem_.release(1)
Release(p) ==
    /\ pc[p] = "release"
    /\ sem' = sem + 1
    /\ pc' = [pc EXCEPT ![p] = "idle"]
    /\ UNCHANGED <<ring, stop, ticket, count, drainer, owner, history>>

-----------------------------------------------------------------------------
(* LogCore::drain *)

\* Mutant: the thread returns without the last loop.
Check_mut ==
    /\ dpc = "check"
    /\ dpc' = IF stop THEN "done" ELSE "acquire"
    /\ UNCHANGED <<ring, sem, stop, producer, final, drained, cnt, out, owner, history>>

\* while (!st.stop_requested())
Check ==
    /\ dpc = "check"
    /\ final' = stop
    /\ dpc' = IF stop THEN "pop" ELSE "acquire"
    /\ UNCHANGED <<ring, sem, stop, producer, drained, cnt, out, owner, history>>

\* sem_.acquire()
Acquire ==
    /\ dpc = "acquire" /\ sem > 0
    /\ sem' = sem - 1
    /\ drained' = 0
    /\ dpc' = "pop"
    /\ UNCHANGED <<ring, stop, producer, final, cnt, out, owner, history>>

\* The last loop tries Capacity times, whether or not there is an entry.
AfterPop(popped) ==
    IF final
    THEN /\ cnt' = cnt + 1
         /\ dpc' = IF cnt + 1 < Capacity THEN "pop" ELSE "done"
         /\ UNCHANGED drained
    ELSE /\ drained' = IF popped THEN drained + 1 ELSE drained
         /\ dpc' = IF popped /\ drained + 1 < Burst THEN "pop" ELSE "again"
         /\ UNCHANGED cnt

Published == epoch[Cell(tail)] = tail + 1

PopNothing ==
    /\ dpc = "pop" /\ ~ Published
    /\ AfterPop(FALSE)
    /\ UNCHANGED <<ring, sem, stop, producer, final, out, owner, history>>

PopEntry ==
    /\ dpc = "pop" /\ Published
    /\ dpc' = "read"
    /\ UNCHANGED <<ring, sem, stop, producer, final, drained, cnt, out, owner, history>>

Read ==
    /\ dpc = "read"
    /\ out' = data[Cell(tail)]
    /\ dpc' = "free"
    /\ UNCHANGED <<ring, sem, stop, producer, final, drained, cnt, owner, history>>

\* Mutant: the cell is handed to the ticket after the one whose turn it is.
Free_mut ==
    /\ dpc = "free"
    /\ epoch' = [epoch EXCEPT ![Cell(tail)] = tail + Capacity + 1]
    /\ tail' = tail + 1
    /\ written' = Append(written, out)
    /\ AfterPop(TRUE)
    /\ UNCHANGED <<data, head, sem, stop, producer, final, out, owner, log, refused>>

\* The cell is free for the ticket one lap on; the sink gets the entry.
Free ==
    /\ dpc = "free"
    /\ epoch' = [epoch EXCEPT ![Cell(tail)] = tail + Capacity]
    /\ tail' = tail + 1
    /\ written' = Append(written, out)
    /\ AfterPop(TRUE)
    /\ UNCHANGED <<data, head, sem, stop, producer, final, out, owner, log, refused>>

\* do ... while (sem_.try_acquire())
Again ==
    /\ dpc = "again"
    /\ sem' = IF sem > 0 THEN sem - 1 ELSE sem
    /\ dpc' = IF sem > 0 THEN "pop" ELSE "check"
    /\ UNCHANGED <<ring, stop, producer, final, drained, cnt, out, owner, history>>

-----------------------------------------------------------------------------
(* ~LogCore: nobody logs to an object that is being destroyed *)

RequestStop ==
    /\ owner = "alive" /\ \A p \in Producers : pc[p] = "idle"
    /\ stop' = TRUE
    /\ owner' = "stopping"
    /\ UNCHANGED <<ring, sem, producer, drainer, history>>

\* Mutant: the thread is not woken.
ReleaseAll_mut ==
    /\ owner = "stopping"
    /\ owner' = "joining"
    /\ UNCHANGED <<ring, sem, stop, producer, drainer, history>>

ReleaseAll ==
    /\ owner = "stopping"
    /\ sem' = sem + Capacity
    /\ owner' = "joining"
    /\ UNCHANGED <<ring, stop, producer, drainer, history>>

Join ==
    /\ owner = "joining" /\ dpc = "done"
    /\ owner' = "gone"
    /\ UNCHANGED <<ring, sem, stop, producer, drainer, history>>

Producing(p) == Claim(p) \/ Refuse(p) \/ Write(p) \/ Publish(p) \/ Release(p)

Draining == Check \/ Acquire \/ PopNothing \/ PopEntry \/ Read \/ Free \/ Again

Next ==
    \/ \E p \in Producers : (\E c \in Calls : FetchTicket(p, c)) \/ Producing(p)
    \/ Draining
    \/ RequestStop \/ ReleaseAll \/ Join

\* Threads run; when to log and when to destroy is up to their callers.
Fairness ==
    /\ \A p \in Producers : WF_vars(Producing(p))
    /\ WF_vars(Draining)
    /\ WF_vars(ReleaseAll \/ Join)

Spec == Init /\ [][Next]_vars /\ Fairness

-----------------------------------------------------------------------------
(* Properties *)

(***************************************************************************)
(* The sink gets the entries in ticket order, each once, none torn or      *)
(* overwritten on the way, and never one that try_push refused.            *)
(***************************************************************************)
InTicketOrder ==
    /\ Len(written) = tail /\ tail <= Len(log)
    /\ \A i \in 1..Len(written) : written[i] = log[i] /\ i - 1 \notin refused

\* No two threads are at the data of one cell at the same time.
DataRaceFree ==
    \A p \in Producers : pc[p] = "write" =>
        /\ ~ (dpc = "read" /\ Cell(tail) = Cell(ticket[p]))
        /\ \A q \in Producers \ {p} :
              ~ (pc[q] = "write" /\ Cell(ticket[q]) = Cell(ticket[p]))

(***************************************************************************)
(* When ~LogCore returns, everything logged before is with the sink, or    *)
(* everything up to a ticket that try_push refused: the next ticket then   *)
(* is one of those.                                                        *)
(***************************************************************************)
NothingLost ==
    owner = "gone" => written = log \/ Len(written) \in refused

(***************************************************************************)
(* The destructor returns, even if the thread is blocked in acquire, and   *)
(* even if a refused ticket has wedged the ring.                           *)
(***************************************************************************)
DestructorReturns == owner = "stopping" ~> owner = "gone"

(***************************************************************************)
(* Every entry reaches the sink without a further push and without the     *)
(* destructor, unless a ticket was refused (nobody publishes that ticket,  *)
(* and pop waits for it) or the thread went to sleep after a round that    *)
(* reached the burst cap (see EveryEntryWritten).                          *)
(***************************************************************************)
EventuallyWritten ==
    <>[](written = log \/ refused # {} \/ (dpc = "acquire" /\ drained >= Burst))

(***************************************************************************)
(* docs/completeness.md calls the drain thread correct: with push alone,   *)
(* every entry reaches the sink.  Past the cap, a round pops one entry per *)
(* permit; a permit spent while the next ticket was not yet published is   *)
(* then missing, and a published entry stays behind with sem_ at 0.        *)
(***************************************************************************)
EveryEntryWritten == <>[](written = log)
=============================================================================
