--------------------------- MODULE LogCoreProofs ---------------------------
(***************************************************************************)
(* The theorems about LogCore: for any number of producers, any capacity   *)
(* of at least two and any burst cap, the epochs keep the threads apart,   *)
(* entries reach the sink in ticket order, and the last loop of the drain  *)
(* thread leaves nothing behind.                                           *)
(***************************************************************************)
EXTENDS LogCore, TLAPS

-----------------------------------------------------------------------------
(* The inductive invariant *)

\* p has a ticket and has not published it.
Pending(p) == pc[p] \in {"push", "try_push", "write", "publish"}

\* The tickets whose turn it is: one for each cell.
Lap == tail..(tail + Capacity - 1)

\* The cell of such a ticket is free for it or has its entry.
CellsInv ==
    \A t \in Lap :
      /\ epoch[Cell(t)] \in {t, t + 1}
      /\ epoch[Cell(t)] = t + 1 => t < head /\ data[Cell(t)] = log[t + 1]

\* Who has a ticket has it alone, and its turn has not passed.
TicketsInv ==
    \A p \in Producers : Pending(p) =>
      /\ tail <= ticket[p] /\ ticket[p] < head /\ ticket[p] \notin refused
      /\ log[ticket[p] + 1] = <<p, count[p]>>
      /\ ticket[p] \in Lap => epoch[Cell(ticket[p])] = ticket[p]
      /\ pc[p] \in {"write", "publish"} => ticket[p] \in Lap
      /\ pc[p] = "publish" => data[Cell(ticket[p])] = <<p, count[p]>>

\* A refused ticket's turn comes and does not pass.
RefusedInv ==
    \A t \in refused :
      /\ t \in Nat /\ tail <= t /\ t < head
      /\ t \in Lap => epoch[Cell(t)] = t

\* Every ticket is consumed, published, refused or pending.
AccountInv ==
    \A t \in tail..(head - 1) :
      \/ t \in Lap /\ epoch[Cell(t)] = t + 1
      \/ t \in refused
      \/ \E p \in Producers : Pending(p) /\ ticket[p] = t

\* What the drain thread has in hand and has handed on.
DrainInv ==
    /\ dpc \in {"read", "free"} => Published
    /\ dpc = "free" => out = log[tail + 1]
    /\ Len(log) = head /\ Len(written) = tail /\ tail <= head
    /\ \A i \in 1..tail : written[i] = log[i]

\* Where pop stays put once nobody logs any more.
Ends == refused \cup {head}

\* The last loop has enough rounds for what is in the ring.
LastInv ==
    /\ owner # "alive" => \A p \in Producers : pc[p] = "idle"
    /\ stop => owner # "alive"
    /\ final => stop /\ dpc \in {"pop", "read", "free", "done"}
    /\ ~ final => cnt = 0 /\ dpc # "done"
    /\ final /\ dpc # "done" => cnt < Capacity
    /\ dpc = "done" => cnt = Capacity
    /\ final => \E t \in Ends : tail <= t /\ (tail = t \/ t + cnt <= tail + Capacity)

RingInv == TypeOK /\ CellsInv /\ TicketsInv /\ RefusedInv /\ AccountInv /\ DrainInv /\ LastInv

-----------------------------------------------------------------------------
(* Tickets and cells *)

\* A ticket is a lap and a cell.
LEMMA Laps ==
    ASSUME NEW t \in Nat
    PROVE  \E q \in Nat : t = Capacity * q + Cell(t) /\ Cell(t) \in Cells
  <1>1. Capacity \in Nat \ {0}  BY LogAssumption
  <1>2. /\ Cell(t) \in Cells /\ t \div Capacity \in Nat
        /\ t = Capacity * (t \div Capacity) + Cell(t)
    BY <1>1, Z3 DEF Cell, Cells
  <1> QED  BY <1>2

\* Two multiples of Capacity that are less than Capacity apart are equal.
LEMMA NoMultiple ==
    ASSUME NEW a \in Int, NEW b \in Int, NEW d \in Nat,
           d < Capacity, d = Capacity * a - Capacity * b
    PROVE  d = 0
  <1>1. Capacity \in Nat \ {0}  BY LogAssumption
  <1>2. d = Capacity * (a - b)  BY <1>1, Z3
  <1>3. CASE a - b >= 1  BY <1>1, <1>2, <1>3, Z3
  <1>4. CASE a - b <= -1  BY <1>1, <1>2, <1>4, Z3
  <1>5. CASE a - b = 0  BY <1>1, <1>2, <1>5, Z3
  <1> QED  BY <1>3, <1>4, <1>5

\* Cell of a ticket.
LEMMA CellType ==
    ASSUME NEW t \in Nat
    PROVE  Cell(t) \in Cells
  BY Laps

\* Tickets less than a lap apart have different cells.
LEMMA CellsApart ==
    ASSUME NEW t \in Nat, NEW u \in Nat, t < u + Capacity, u < t + Capacity, Cell(t) = Cell(u)
    PROVE  t = u
  <1>1. Capacity \in Nat \ {0}  BY LogAssumption
  <1>2. PICK a \in Nat : t = Capacity * a + Cell(t) /\ Cell(t) \in Cells  BY Laps
  <1>3. PICK b \in Nat : u = Capacity * b + Cell(u) /\ Cell(u) \in Cells  BY Laps
  <1>4. Capacity * a \in Int /\ Capacity * b \in Int /\ Cell(t) \in Int
    BY <1>1, <1>2 DEF Cells
  <1>5. CASE t <= u
    <2>1. u - t \in Nat /\ u - t < Capacity /\ u - t = Capacity * b - Capacity * a
      BY <1>1, <1>2, <1>3, <1>4, <1>5
    <2>2. u - t = 0  BY <2>1, NoMultiple
    <2> QED  BY <2>2
  <1>6. CASE u <= t
    <2>1. t - u \in Nat /\ t - u < Capacity /\ t - u = Capacity * a - Capacity * b
      BY <1>1, <1>2, <1>3, <1>4, <1>6
    <2>2. t - u = 0  BY <2>1, NoMultiple
    <2> QED  BY <2>2
  <1> QED  BY <1>5, <1>6

\* Whole laps later the cell is the same.
LEMMA SameCell ==
    ASSUME NEW t \in Nat, NEW k \in Nat
    PROVE  t + Capacity * k \in Nat /\ Cell(t + Capacity * k) = Cell(t)
  <1>1. Capacity \in Nat \ {0} /\ Capacity * k \in Nat /\ t + Capacity * k \in Nat
    BY LogAssumption, Z3
  <1> DEFINE r == Cell(t)
             s == Cell(t + Capacity * k)
  <1>2. PICK a \in Nat : t = Capacity * a + r /\ r \in Cells  BY Laps
  <1>3. PICK b \in Nat : t + Capacity * k = Capacity * b + s /\ s \in Cells  BY <1>1, Laps
  <1> HIDE DEF r, s
  <1>4. /\ Capacity * a \in Int /\ Capacity * b \in Int /\ r \in Nat /\ s \in Nat
        /\ r < Capacity /\ s < Capacity /\ Capacity * (a + k) = Capacity * a + Capacity * k
    BY <1>1, <1>2, <1>3, Z3 DEF Cells
  <1>5. CASE r <= s
    <2>1. s - r \in Nat /\ s - r < Capacity /\ s - r = Capacity * (a + k) - Capacity * b
      BY <1>1, <1>2, <1>3, <1>4, <1>5
    <2>2. s - r = 0  BY <2>1, NoMultiple
    <2> QED  BY <1>1, <1>4, <2>2 DEF r, s
  <1>6. CASE s <= r
    <2>1. r - s \in Nat /\ r - s < Capacity /\ r - s = Capacity * b - Capacity * (a + k)
      BY <1>1, <1>2, <1>3, <1>4, <1>6
    <2>2. r - s = 0  BY <2>1, NoMultiple
    <2> QED  BY <1>1, <1>4, <2>2 DEF r, s
  <1> QED  BY <1>4, <1>5, <1>6

\* A lap later the cell is the same.
LEMMA NextLap ==
    ASSUME NEW t \in Nat
    PROVE  Cell(t + Capacity) = Cell(t)
  <1>1. Capacity * 1 = Capacity  BY LogAssumption
  <1> QED  BY <1>1, SameCell

\* Of the tickets from t on, one within the first lap has u's cell.
LEMMA Congruent ==
    ASSUME NEW t \in Nat, NEW u \in Nat, t + Capacity <= u
    PROVE  \E v \in Nat : t <= v /\ v < t + Capacity /\ v + Capacity <= u /\ Cell(v) = Cell(u)
  <1>1. Capacity \in Nat \ {0} /\ u - t \in Nat  BY LogAssumption
  <1>2. PICK k \in Nat : u - t = Capacity * k + Cell(u - t) /\ Cell(u - t) \in Cells
    BY <1>1, Laps
  <1> DEFINE v == t + Cell(u - t)
  <1>3. Cell(u - t) \in Nat /\ Cell(u - t) < Capacity  BY <1>1, <1>2 DEF Cells
  <1>4. v \in Nat /\ t <= v /\ v < t + Capacity /\ Capacity * k \in Nat /\ u = v + Capacity * k
    BY <1>1, <1>2, <1>3
  <1>5. Cell(v) = Cell(u)  BY <1>4, SameCell
  <1> HIDE DEF v
  <1>6. v + Capacity <= u
    <2>1. k # 0  BY <1>1, <1>4
    <2>2. Capacity * k >= Capacity  BY <1>1, <2>1, Z3
    <2> QED  BY <1>1, <1>4, <2>2
  <1> QED  BY <1>4, <1>5, <1>6

\* The tickets of the first lap.
LEMMA SmallCell ==
    ASSUME NEW t \in Cells
    PROVE  Cell(t) = t
  BY LogAssumption, Z3 DEF Cells, Cell

\* Tickets of the lap have cells of their own.
LEMMA LapCells ==
    ASSUME tail \in Nat, NEW t \in Lap, NEW u \in Lap
    PROVE  t \in Nat /\ Cell(t) \in Cells /\ (Cell(t) = Cell(u) => t = u)
  <1>1. Capacity \in Nat \ {0}  BY LogAssumption
  <1>2. t \in Nat /\ u \in Nat /\ t < u + Capacity /\ u < t + Capacity  BY <1>1 DEF Lap
  <1> QED  BY <1>2, CellType, CellsApart

(***************************************************************************)
(* A cell whose epoch is t is free for t: it cannot be the published entry *)
(* of an earlier ticket, as that is at least a lap behind.                 *)
(***************************************************************************)
LEMMA FreeIsInLap ==
    ASSUME tail \in Nat, CellsInv, NEW t \in Nat, tail <= t, CellIsFree(t)
    PROVE  t \in Lap
  <1>1. Capacity \in Nat \ {0, 1}  BY LogAssumption
  <1>2. SUFFICES ASSUME tail + Capacity <= t PROVE FALSE  BY <1>1 DEF Lap
  <1>3. PICK v \in Nat : /\ tail <= v /\ v < tail + Capacity /\ v + Capacity <= t
                         /\ Cell(v) = Cell(t)
    BY <1>2, Congruent
  <1>4. v \in Lap  BY <1>1, <1>3 DEF Lap
  <1>5. epoch[Cell(v)] \in {v, v + 1}  BY <1>4 DEF CellsInv
  <1> QED  BY <1>1, <1>3, <1>5 DEF CellIsFree

-----------------------------------------------------------------------------
(* Invariance *)

LEMMA InitRing ==
    Init => RingInv
  <1> SUFFICES ASSUME Init PROVE RingInv  OBVIOUS
  <1> USE DEF Init
  <1>1. Capacity \in Nat \ {0, 1}  BY LogAssumption
  <1>2. TypeOK
    <2>1. Cells \subseteq Nat  BY <1>1 DEF Cells
    <2>2. epoch \in [Cells -> Nat]  BY <2>1
    <2>3. count \in [Producers -> 0..MaxPush]  BY LogAssumption
    <2>4. refused \subseteq 0..(Len(log) - 1) /\ log \in Seq(Entries) /\ written \in Seq(Entries)
      OBVIOUS
    <2>5. cnt \in 0..Capacity  BY <1>1
    <2> QED  BY <2>2, <2>3, <2>4, <2>5 DEF TypeOK
  <1>3. \A t \in Lap : t \in Cells /\ Cell(t) = t /\ t \in Nat
    BY <1>1, SmallCell DEF Lap, Cells
  <1>4. CellsInv  BY <1>1, <1>3 DEF CellsInv
  <1>5. TicketsInv /\ RefusedInv /\ AccountInv
    BY <1>1 DEF TicketsInv, RefusedInv, AccountInv, Pending
  <1>6. DrainInv /\ LastInv  BY <1>1 DEF DrainInv, LastInv
  <1> QED  BY <1>2, <1>4, <1>5, <1>6 DEF RingInv

\* The types are kept by every step.
LEMMA NextTypes ==
    ASSUME RingInv, [Next]_vars
    PROVE  TypeOK'
  <1>1. Capacity \in Nat \ {0, 1} /\ MaxPush \in Nat  BY LogAssumption
  <1>2. TypeOK /\ LastInv /\ DrainInv /\ TicketsInv  BY DEF RingInv
  <1> USE DEF TypeOK, ring, producer, drainer, history
  <1>3. ASSUME NEW p \in Producers, NEW c \in Calls, FetchTicket(p, c) PROVE TypeOK'
    <2>1. c \in {"push", "try_push"}  BY LogAssumption
    <2>2. count[p] + 1 \in 1..MaxPush  BY <1>1, <1>2, <1>3 DEF FetchTicket
    <2>3. <<p, count[p] + 1>> \in Entries  BY <2>2 DEF Entries
    <2>4. log' \in Seq(Entries) /\ Len(log') = Len(log) + 1 /\ Len(log) \in Nat
      BY <1>2, <1>3, <2>3 DEF FetchTicket
    <2>5. refused' \subseteq 0..(Len(log') - 1)  BY <1>2, <1>3, <2>4 DEF FetchTicket
    <2>6. count' \in [Producers -> 0..MaxPush]  BY <1>1, <1>2, <1>3, <2>2 DEF FetchTicket
    <2> QED  BY <1>2, <1>3, <2>1, <2>4, <2>5, <2>6 DEF FetchTicket
  <1>4. ASSUME NEW p \in Producers, Claim(p) PROVE TypeOK'  BY <1>2, <1>4 DEF Claim
  <1>5. ASSUME NEW p \in Producers, Refuse(p) PROVE TypeOK'
    <2>1. ticket[p] \in 0..(Len(log) - 1)
      BY <1>2, <1>5 DEF Refuse, TicketsInv, DrainInv, Pending
    <2> QED  BY <1>2, <1>5, <2>1 DEF Refuse
  <1>6. ASSUME NEW p \in Producers, Write(p) PROVE TypeOK'
    <2>1. ticket[p] \in 0..(Len(log) - 1) /\ log[ticket[p] + 1] = <<p, count[p]>>
      BY <1>2, <1>6 DEF Write, TicketsInv, DrainInv, Pending
    <2>2. <<p, count[p]>> \in Entries
      <3>1. log \in Seq(Entries) /\ ticket[p] + 1 \in 1..Len(log)  BY <1>2, <2>1
      <3>2. log[ticket[p] + 1] \in Entries  BY <3>1
      <3> QED  BY <2>1, <3>2
    <2> QED  BY <1>2, <1>6, <2>2 DEF Write
  <1>7. ASSUME NEW p \in Producers, Publish(p) PROVE TypeOK'
    <2>1. ticket[p] + 1 \in Nat  BY <1>2
    <2>2. epoch' \in [Cells -> Nat]  BY <1>2, <1>7, <2>1 DEF Publish
    <2> QED  BY <1>2, <1>7, <2>2 DEF Publish
  <1>8. ASSUME NEW p \in Producers, Release(p) PROVE TypeOK'  BY <1>2, <1>8 DEF Release
  <1>9. CASE Check  BY <1>2, <1>9 DEF Check
  <1>10. CASE Acquire  BY <1>2, <1>10 DEF Acquire
  <1>11. CASE PopNothing  BY <1>1, <1>2, <1>11 DEF PopNothing, AfterPop, LastInv
  <1>12. CASE PopEntry  BY <1>2, <1>12 DEF PopEntry
  <1>13. CASE Read
    <2>1. Cell(tail) \in Cells  BY <1>2, CellType
    <2> QED  BY <1>2, <1>13, <2>1 DEF Read
  <1>14. CASE Free
    <2>1. Cell(tail) \in Cells  BY <1>2, CellType
    <2>2. Published  BY <1>2, <1>14 DEF Free, DrainInv
    <2>3. out \in Entries
      <3>1. tail < head
        BY <1>1, <1>2, <2>2, LapCells DEF Published, RingInv, CellsInv, Lap
      <3>2. tail + 1 \in 1..Len(log)  BY <1>2, <3>1 DEF DrainInv
      <3> QED  BY <1>2, <1>14, <3>2 DEF Free, DrainInv
    <2>4. written' \in Seq(Entries)  BY <1>2, <1>14, <2>3 DEF Free
    <2>5. tail + Capacity \in Nat /\ tail + 1 \in Nat  BY <1>1, <1>2
    <2>6. epoch' \in [Cells -> Nat] /\ tail' \in Nat  BY <1>2, <1>14, <2>5 DEF Free
    <2> QED  BY <1>1, <1>2, <1>14, <2>4, <2>6 DEF Free, AfterPop, LastInv
  <1>15. CASE Again  BY <1>2, <1>15 DEF Again
  <1>16. CASE RequestStop  BY <1>2, <1>16 DEF RequestStop
  <1>17. CASE ReleaseAll  BY <1>1, <1>2, <1>17 DEF ReleaseAll
  <1>18. CASE Join  BY <1>2, <1>18 DEF Join
  <1>19. CASE UNCHANGED vars  BY <1>2, <1>19 DEF vars
  <1> QED
    BY <1>3, <1>4, <1>5, <1>6, <1>7, <1>8, <1>9, <1>10, <1>11, <1>12, <1>13, <1>14, <1>15,
       <1>16, <1>17, <1>18, <1>19
       DEF Next, Producing, Draining

\* What is said of cells and tickets; the drain thread apart.
CellTickets == CellsInv /\ TicketsInv /\ RefusedInv /\ AccountInv

\* A step that changes no cell, no ticket and no producer keeps all of that.
LEMMA RingAside ==
    ASSUME CellTickets, UNCHANGED <<epoch, data, head, tail, pc, ticket, count, log, refused>>
    PROVE  CellTickets'
  <1>1. Lap' = Lap /\ \A p : Pending(p)' <=> Pending(p)  BY DEF Lap, Pending
  <1> QED  BY <1>1 DEF CellTickets, CellsInv, TicketsInv, RefusedInv, AccountInv

\* head_.fetch_add: the new ticket is nobody else's and not yet published.
LEMMA FetchKeeps ==
    ASSUME RingInv, NEW p \in Producers, NEW c \in Calls, FetchTicket(p, c)
    PROVE  CellTickets'
  <1>1. Capacity \in Nat \ {0, 1} /\ c \in {"push", "try_push"}  BY LogAssumption
  <1>2. TypeOK /\ CellsInv /\ TicketsInv /\ RefusedInv /\ AccountInv /\ DrainInv  BY DEF RingInv
  <1>3. /\ head \in Nat /\ tail \in Nat /\ tail <= head /\ Len(log) = head /\ log \in Seq(Entries)
        /\ pc \in [Producers -> {"idle", "push", "try_push", "write", "publish", "release"}]
        /\ ticket \in [Producers -> Nat] /\ count \in [Producers -> 0..MaxPush]
    BY <1>2 DEF TypeOK, DrainInv
  <1>4. /\ epoch' = epoch /\ data' = data /\ tail' = tail /\ refused' = refused /\ head' = head + 1
        /\ ticket' = [ticket EXCEPT ![p] = head] /\ pc' = [pc EXCEPT ![p] = c]
        /\ count' = [count EXCEPT ![p] = @ + 1] /\ log' = Append(log, <<p, count[p] + 1>>)
        /\ pc[p] = "idle"
    BY DEF FetchTicket
  <1>5. \A i \in 1..head : log'[i] = log[i]  BY <1>3, <1>4
  <1>6. log'[head + 1] = <<p, count'[p]>>  BY <1>3, <1>4
  <1>7. Lap' = Lap  BY <1>4 DEF Lap
  <1>8. CellsInv'
    <2> SUFFICES ASSUME NEW t \in Lap
                 PROVE  /\ epoch[Cell(t)] \in {t, t + 1}
                        /\ epoch[Cell(t)] = t + 1 => t < head' /\ data[Cell(t)] = log'[t + 1]
      BY <1>4, <1>7 DEF CellsInv
    <2>1. t \in Nat  BY <1>1, <1>3 DEF Lap
    <2> QED  BY <1>2, <1>3, <1>4, <1>5, <2>1 DEF CellsInv
  <1>9. head \in Lap => epoch[Cell(head)] = head
    BY <1>2, <1>3 DEF CellsInv
  <1>10. TicketsInv'
    <2> SUFFICES ASSUME NEW q \in Producers, Pending(q)'
                 PROVE  /\ tail <= ticket'[q] /\ ticket'[q] < head' /\ ticket'[q] \notin refused
                        /\ log'[ticket'[q] + 1] = <<q, count'[q]>>
                        /\ ticket'[q] \in Lap => epoch[Cell(ticket'[q])] = ticket'[q]
                        /\ pc'[q] \in {"write", "publish"} => ticket'[q] \in Lap
                        /\ pc'[q] = "publish" => data[Cell(ticket'[q])] = <<q, count'[q]>>
      BY <1>4, <1>7 DEF TicketsInv
    <2>1. CASE q = p
      <3>1. ticket'[q] = head /\ pc'[q] = c  BY <1>3, <1>4, <2>1
      <3>2. head \notin refused  BY <1>2, <1>3 DEF RefusedInv
      <3> QED  BY <1>1, <1>3, <1>4, <1>6, <1>9, <2>1, <3>1, <3>2
    <2>2. CASE q # p
      <3>1. ticket'[q] = ticket[q] /\ pc'[q] = pc[q] /\ count'[q] = count[q] /\ Pending(q)
        BY <1>3, <1>4, <2>2 DEF Pending
      <3>2. ticket[q] + 1 \in 1..head /\ ticket[q] \in Nat  BY <1>2, <1>3, <3>1 DEF TicketsInv
      <3> QED  BY <1>2, <1>3, <1>4, <1>5, <3>1, <3>2 DEF TicketsInv
    <2> QED  BY <2>1, <2>2
  <1>11. RefusedInv'  BY <1>2, <1>3, <1>4, <1>7 DEF RefusedInv
  <1>12. AccountInv'
    <2> SUFFICES ASSUME NEW t \in tail..head
                 PROVE  \/ t \in Lap /\ epoch[Cell(t)] = t + 1
                        \/ t \in refused
                        \/ \E q \in Producers : Pending(q)' /\ ticket'[q] = t
      BY <1>3, <1>4, <1>7 DEF AccountInv
    <2>1. CASE t = head
      <3>1. Pending(p)' /\ ticket'[p] = t  BY <1>1, <1>3, <1>4, <2>1 DEF Pending
      <3> QED  BY <3>1
    <2>2. CASE t # head
      <3>1. t \in tail..(head - 1)  BY <1>3, <2>2
      <3>2. ASSUME NEW q \in Producers, Pending(q), ticket[q] = t
            PROVE  Pending(q)' /\ ticket'[q] = t
        BY <1>3, <1>4, <3>2 DEF Pending
      <3> QED  BY <1>2, <3>1, <3>2 DEF AccountInv
    <2> QED  BY <2>1, <2>2
  <1> QED  BY <1>8, <1>10, <1>11, <1>12 DEF CellTickets

\* The parts of the invariant and the types that the steps below need.
LEMMA RingFacts ==
    ASSUME RingInv
    PROVE  /\ CellsInv /\ TicketsInv /\ RefusedInv /\ AccountInv /\ CellTickets
           /\ Capacity \in Nat \ {0, 1}
           /\ head \in Nat /\ tail \in Nat /\ tail <= head /\ Len(log) = head
           /\ pc \in [Producers -> {"idle", "push", "try_push", "write", "publish", "release"}]
           /\ ticket \in [Producers -> Nat] /\ count \in [Producers -> 0..MaxPush]
           /\ epoch \in [Cells -> Nat] /\ data \in [Cells -> Entries \cup {NoEntry}]
  BY LogAssumption DEF RingInv, TypeOK, DrainInv, CellTickets

\* A pending ticket has one holder.
LEMMA Holders ==
    ASSUME TicketsInv, NEW p \in Producers, NEW q \in Producers,
           Pending(p), Pending(q), ticket[p] = ticket[q]
    PROVE  p = q
  <1>1. log[ticket[p] + 1] = <<p, count[p]>> /\ log[ticket[q] + 1] = <<q, count[q]>>
    BY DEF TicketsInv
  <1> QED  BY <1>1

\* A cell is claimed when the ticket's lap has come.
LEMMA ClaimKeeps ==
    ASSUME RingInv, NEW p \in Producers, Claim(p)
    PROVE  CellTickets'
  <1> USE RingFacts
  <1>1. /\ pc[p] \in {"push", "try_push"} /\ CellIsFree(ticket[p]) /\ Pending(p)
        /\ pc' = [pc EXCEPT ![p] = "write"]
        /\ UNCHANGED <<epoch, data, head, tail, ticket, count, log, refused>>
    BY DEF Claim, ring, history, Pending
  <1>2. Lap' = Lap /\ \A q \in Producers : Pending(q)' <=> Pending(q)
    BY <1>1 DEF Lap, Pending
  <1>3. ticket[p] \in Lap  BY <1>1, FreeIsInLap DEF TicketsInv
  <1>4. TicketsInv'
    <2> SUFFICES ASSUME NEW q \in Producers, Pending(q)
                 PROVE  /\ tail <= ticket[q] /\ ticket[q] < head /\ ticket[q] \notin refused
                        /\ log[ticket[q] + 1] = <<q, count[q]>>
                        /\ ticket[q] \in Lap => epoch[Cell(ticket[q])] = ticket[q]
                        /\ pc'[q] \in {"write", "publish"} => ticket[q] \in Lap
                        /\ pc'[q] = "publish" => data[Cell(ticket[q])] = <<q, count[q]>>
      BY <1>1, <1>2 DEF TicketsInv
    <2>1. CASE q = p  BY <1>1, <1>3, <2>1 DEF TicketsInv
    <2>2. CASE q # p  BY <1>1, <2>2 DEF TicketsInv
    <2> QED  BY <2>1, <2>2
  <1> QED  BY <1>1, <1>2, <1>4 DEF CellTickets, CellsInv, RefusedInv, AccountInv

\* try_push gives its ticket up: nobody has it, and nobody will publish it.
LEMMA RefuseKeeps ==
    ASSUME RingInv, NEW p \in Producers, Refuse(p)
    PROVE  CellTickets'
  <1> USE RingFacts
  <1>1. /\ pc[p] = "try_push" /\ Pending(p)
        /\ pc' = [pc EXCEPT ![p] = "idle"] /\ refused' = refused \cup {ticket[p]}
        /\ UNCHANGED <<epoch, data, head, tail, ticket, count, log>>
    BY DEF Refuse, ring, Pending
  <1>2. Lap' = Lap /\ \A q \in Producers : Pending(q)' <=> Pending(q) /\ q # p
    BY <1>1 DEF Lap, Pending
  <1>3. \A q \in Producers \ {p} : pc'[q] = pc[q]  BY <1>1
  <1>4. TicketsInv'
    <2> SUFFICES ASSUME NEW q \in Producers \ {p}, Pending(q)
                 PROVE  /\ tail <= ticket[q] /\ ticket[q] < head /\ ticket[q] \notin refused'
                        /\ log[ticket[q] + 1] = <<q, count[q]>>
                        /\ ticket[q] \in Lap => epoch[Cell(ticket[q])] = ticket[q]
                        /\ pc'[q] \in {"write", "publish"} => ticket[q] \in Lap
                        /\ pc'[q] = "publish" => data[Cell(ticket[q])] = <<q, count[q]>>
      BY <1>1, <1>2 DEF TicketsInv
    <2>1. ticket[q] # ticket[p]  BY <1>1, Holders
    <2> QED  BY <1>1, <1>3, <2>1 DEF TicketsInv
  <1>5. RefusedInv'
    <2> SUFFICES ASSUME NEW t \in refused \cup {ticket[p]}
                 PROVE  /\ t \in Nat /\ tail <= t /\ t < head
                        /\ t \in Lap => epoch[Cell(t)] = t
      BY <1>1, <1>2 DEF RefusedInv
    <2> QED  BY <1>1 DEF RefusedInv, TicketsInv
  <1>6. AccountInv'
    <2> SUFFICES ASSUME NEW t \in tail..(head - 1)
                 PROVE  \/ t \in Lap /\ epoch[Cell(t)] = t + 1
                        \/ t \in refused \cup {ticket[p]}
                        \/ \E q \in Producers : Pending(q)' /\ ticket[q] = t
      BY <1>1, <1>2 DEF AccountInv
    <2> QED  BY <1>2 DEF AccountInv
  <1> QED  BY <1>1, <1>2, <1>4, <1>5, <1>6 DEF CellTickets, CellsInv

\* The data of a cell is written by the holder of its ticket alone.
LEMMA WriteKeeps ==
    ASSUME RingInv, NEW p \in Producers, Write(p)
    PROVE  CellTickets'
  <1> USE RingFacts
  <1>1. /\ pc[p] = "write" /\ Pending(p)
        /\ pc' = [pc EXCEPT ![p] = "publish"]
        /\ data' = [data EXCEPT ![Cell(ticket[p])] = <<p, count[p]>>]
        /\ UNCHANGED <<epoch, head, tail, ticket, count, log, refused>>
    BY DEF Write, history, Pending
  <1>2. Lap' = Lap /\ \A q \in Producers : Pending(q)' <=> Pending(q)
    BY <1>1 DEF Lap, Pending
  <1>3. ticket[p] \in Lap /\ epoch[Cell(ticket[p])] = ticket[p]  BY <1>1 DEF TicketsInv
  <1>4. ASSUME NEW t \in Lap, t # ticket[p]
        PROVE  data'[Cell(t)] = data[Cell(t)]
    BY <1>1, <1>3, <1>4, LapCells
  <1>5. CellsInv'
    <2> SUFFICES ASSUME NEW t \in Lap
                 PROVE  /\ epoch[Cell(t)] \in {t, t + 1}
                        /\ epoch[Cell(t)] = t + 1 => t < head /\ data'[Cell(t)] = log[t + 1]
      BY <1>1, <1>2 DEF CellsInv
    <2>1. t \in Nat  BY DEF Lap
    <2> QED  BY <1>3, <1>4, <2>1 DEF CellsInv
  <1>6. TicketsInv'
    <2> SUFFICES ASSUME NEW q \in Producers, Pending(q)
                 PROVE  /\ tail <= ticket[q] /\ ticket[q] < head /\ ticket[q] \notin refused
                        /\ log[ticket[q] + 1] = <<q, count[q]>>
                        /\ ticket[q] \in Lap => epoch[Cell(ticket[q])] = ticket[q]
                        /\ pc'[q] \in {"write", "publish"} => ticket[q] \in Lap
                        /\ pc'[q] = "publish" => data'[Cell(ticket[q])] = <<q, count[q]>>
      BY <1>1, <1>2 DEF TicketsInv
    <2>1. CASE q = p
      <3>1. data'[Cell(ticket[q])] = <<q, count[q]>>  BY <1>1, <2>1, CellType
      <3> QED  BY <1>1, <1>3, <2>1, <3>1 DEF TicketsInv
    <2>2. CASE q # p
      <3>1. ticket[q] # ticket[p] /\ pc'[q] = pc[q]  BY <1>1, <2>2, Holders
      <3> QED  BY <1>4, <3>1 DEF TicketsInv
    <2> QED  BY <2>1, <2>2
  <1> QED  BY <1>1, <1>2, <1>5, <1>6 DEF CellTickets, RefusedInv, AccountInv

\* Publishing turns the epoch of the holder's cell, and of no other.
LEMMA PublishKeeps ==
    ASSUME RingInv, NEW p \in Producers, Publish(p)
    PROVE  CellTickets'
  <1> USE RingFacts
  <1>1. /\ pc[p] = "publish" /\ Pending(p)
        /\ pc' = [pc EXCEPT ![p] = "release"]
        /\ epoch' = [epoch EXCEPT ![Cell(ticket[p])] = ticket[p] + 1]
        /\ UNCHANGED <<data, head, tail, ticket, count, log, refused>>
    BY DEF Publish, history, Pending
  <1>2. Lap' = Lap /\ \A q \in Producers : Pending(q)' <=> Pending(q) /\ q # p
    BY <1>1 DEF Lap, Pending
  <1>3. /\ ticket[p] \in Lap /\ ticket[p] < head /\ ticket[p] \in Nat /\ ticket[p] \notin refused
        /\ data[Cell(ticket[p])] = log[ticket[p] + 1]
    BY <1>1 DEF TicketsInv
  <1>4. ASSUME NEW t \in Lap, t # ticket[p]
        PROVE  epoch'[Cell(t)] = epoch[Cell(t)]
    BY <1>1, <1>3, <1>4, LapCells
  <1>5. epoch'[Cell(ticket[p])] = ticket[p] + 1  BY <1>1, <1>3, CellType
  <1>6. CellsInv'
    <2> SUFFICES ASSUME NEW t \in Lap
                 PROVE  /\ epoch'[Cell(t)] \in {t, t + 1}
                        /\ epoch'[Cell(t)] = t + 1 => t < head /\ data[Cell(t)] = log[t + 1]
      BY <1>1, <1>2 DEF CellsInv
    <2> QED  BY <1>3, <1>4, <1>5 DEF CellsInv
  <1>7. TicketsInv'
    <2> SUFFICES ASSUME NEW q \in Producers \ {p}, Pending(q)
                 PROVE  /\ tail <= ticket[q] /\ ticket[q] < head /\ ticket[q] \notin refused
                        /\ log[ticket[q] + 1] = <<q, count[q]>>
                        /\ ticket[q] \in Lap => epoch'[Cell(ticket[q])] = ticket[q]
                        /\ pc'[q] \in {"write", "publish"} => ticket[q] \in Lap
                        /\ pc'[q] = "publish" => data[Cell(ticket[q])] = <<q, count[q]>>
      BY <1>1, <1>2 DEF TicketsInv
    <2>1. ticket[q] # ticket[p] /\ pc'[q] = pc[q]  BY <1>1, Holders
    <2> QED  BY <1>4, <2>1 DEF TicketsInv
  <1>8. RefusedInv'
    <2> SUFFICES ASSUME NEW t \in refused
                 PROVE  /\ t \in Nat /\ tail <= t /\ t < head
                        /\ t \in Lap => epoch'[Cell(t)] = t
      BY <1>1, <1>2 DEF RefusedInv
    <2> QED  BY <1>3, <1>4 DEF RefusedInv
  <1>9. AccountInv'
    <2> SUFFICES ASSUME NEW t \in tail..(head - 1)
                 PROVE  \/ t \in Lap /\ epoch'[Cell(t)] = t + 1
                        \/ t \in refused
                        \/ \E q \in Producers : Pending(q)' /\ ticket[q] = t
      BY <1>1, <1>2 DEF AccountInv
    <2>1. CASE t = ticket[p]  BY <1>3, <1>5, <2>1
    <2>2. CASE t # ticket[p]  BY <1>2, <1>4, <2>2 DEF AccountInv
    <2> QED  BY <2>1, <2>2
  <1> QED  BY <1>6, <1>7, <1>8, <1>9 DEF CellTickets

\* sem_.release: the ticket was published before.
LEMMA ReleaseKeeps ==
    ASSUME RingInv, NEW p \in Producers, Release(p)
    PROVE  CellTickets'
  <1> USE RingFacts
  <1>1. /\ pc[p] = "release" /\ pc' = [pc EXCEPT ![p] = "idle"]
        /\ UNCHANGED <<epoch, data, head, tail, ticket, count, log, refused>>
    BY DEF Release, ring, history
  <1>2. Lap' = Lap /\ \A q \in Producers : Pending(q)' <=> Pending(q)
    BY <1>1 DEF Lap, Pending
  <1>3. \A q \in Producers : Pending(q) => pc'[q] = pc[q]  BY <1>1 DEF Pending
  <1>4. TicketsInv'  BY <1>1, <1>2, <1>3 DEF TicketsInv
  <1> QED  BY <1>1, <1>2, <1>4 DEF CellTickets, CellsInv, RefusedInv, AccountInv

\* Of the lap that starts one ticket later, only the last is new.
LEMMA LapMoves ==
    ASSUME NEW a \in Nat, NEW t \in (a + 1)..(a + 1 + Capacity - 1)
    PROVE  t = a + Capacity \/ (t \in a..(a + Capacity - 1) /\ t # a)
  BY LogAssumption

\* The cell that is consumed passes to the ticket a lap on.
LEMMA FreeKeeps ==
    ASSUME RingInv, Free
    PROVE  CellTickets'
  <1> USE RingFacts
  <1>1. /\ epoch' = [epoch EXCEPT ![Cell(tail)] = tail + Capacity] /\ tail' = tail + 1
        /\ UNCHANGED <<data, head, pc, ticket, count, log, refused>>
    BY DEF Free, producer
  <1>2. epoch[Cell(tail)] = tail + 1 /\ tail \in Lap
    BY DEF Free, RingInv, DrainInv, Published, Lap
  <1>3. ASSUME NEW t \in Lap, t # tail
        PROVE  epoch'[Cell(t)] = epoch[Cell(t)] /\ t \in Lap'
    <2>1. Cell(t) # Cell(tail) /\ Cell(t) \in Cells  BY <1>2, <1>3, LapCells
    <2> QED  BY <1>1, <1>3, <2>1 DEF Lap
  <1>4. epoch'[Cell(tail + Capacity)] = tail + Capacity
    BY <1>1, CellType, NextLap
  <1>5. \A t \in Lap' : t = tail + Capacity \/ (t \in Lap /\ t # tail)
    <2>1. Lap' = (tail + 1)..(tail + 1 + Capacity - 1) /\ Lap = tail..(tail + Capacity - 1)
      BY <1>1 DEF Lap
    <2> QED  BY <2>1, LapMoves
  <1>6. \A q : Pending(q)' <=> Pending(q)  BY <1>1 DEF Pending
  <1>7. CellsInv'
    <2> SUFFICES ASSUME NEW t \in Lap'
                 PROVE  /\ epoch'[Cell(t)] \in {t, t + 1}
                        /\ epoch'[Cell(t)] = t + 1 => t < head /\ data[Cell(t)] = log[t + 1]
      BY <1>1 DEF CellsInv
    <2>1. CASE t = tail + Capacity  BY <1>4, <2>1
    <2>2. CASE t \in Lap /\ t # tail  BY <1>3, <2>2 DEF CellsInv
    <2> QED  BY <1>5, <2>1, <2>2
  <1>8. TicketsInv'
    <2> SUFFICES ASSUME NEW q \in Producers, Pending(q)
                 PROVE  /\ tail + 1 <= ticket[q] /\ ticket[q] < head /\ ticket[q] \notin refused
                        /\ log[ticket[q] + 1] = <<q, count[q]>>
                        /\ ticket[q] \in Lap' => epoch'[Cell(ticket[q])] = ticket[q]
                        /\ pc[q] \in {"write", "publish"} => ticket[q] \in Lap'
                        /\ pc[q] = "publish" => data[Cell(ticket[q])] = <<q, count[q]>>
      BY <1>1, <1>6 DEF TicketsInv
    <2>1. ticket[q] \in Nat /\ ticket[q] # tail  BY <1>2 DEF TicketsInv
    <2>2. tail + 1 <= ticket[q]  BY <2>1 DEF TicketsInv
    <2>3. ticket[q] \in Lap' => epoch'[Cell(ticket[q])] = ticket[q]
      BY <1>3, <1>4, <1>5 DEF TicketsInv
    <2> QED  BY <1>3, <2>1, <2>2, <2>3 DEF TicketsInv
  <1>9. RefusedInv'
    <2> SUFFICES ASSUME NEW t \in refused
                 PROVE  /\ t \in Nat /\ tail + 1 <= t /\ t < head
                        /\ t \in Lap' => epoch'[Cell(t)] = t
      BY <1>1 DEF RefusedInv
    <2>1. t \in Nat /\ t # tail  BY <1>2 DEF RefusedInv
    <2>2. t \in Lap' => epoch'[Cell(t)] = t  BY <1>3, <1>4, <1>5 DEF RefusedInv
    <2> QED  BY <2>1, <2>2 DEF RefusedInv
  <1>10. AccountInv'
    <2> SUFFICES ASSUME NEW t \in (tail + 1)..(head - 1)
                 PROVE  \/ t \in Lap' /\ epoch'[Cell(t)] = t + 1
                        \/ t \in refused
                        \/ \E q \in Producers : Pending(q) /\ ticket[q] = t
      BY <1>1, <1>6 DEF AccountInv
    <2>1. t \in tail..(head - 1) /\ t # tail  OBVIOUS
    <2> QED  BY <1>3, <2>1 DEF AccountInv
  <1> QED  BY <1>7, <1>8, <1>9, <1>10 DEF CellTickets

\* What was handed on stays, and what is in hand is the next entry.
LEMMA DrainKeeps ==
    ASSUME RingInv, [Next]_vars
    PROVE  DrainInv'
  <1> USE RingFacts
  <1>1. DrainInv /\ log \in Seq(Entries) /\ written \in Seq(Entries)  BY DEF RingInv, TypeOK
  <1> USE DEF ring, producer, drainer, history
  <1>2. tail \in Lap /\ Cell(tail) \in Cells  BY CellType DEF Lap
  <1>3. ASSUME NEW p \in Producers, NEW c \in Calls, FetchTicket(p, c) PROVE DrainInv'
    <2>1. /\ log' = Append(log, <<p, count[p] + 1>>) /\ head' = head + 1
          /\ UNCHANGED <<epoch, tail, dpc, out, written>>
      BY <1>3 DEF FetchTicket
    <2>2. Len(log') = head' /\ \A i \in 1..head : log'[i] = log[i]  BY <1>1, <2>1
    <2>3. Published => tail + 1 \in 1..head  BY <1>2 DEF Published, CellsInv
    <2> QED  BY <1>1, <2>1, <2>2, <2>3 DEF DrainInv, Published
  <1>4. ASSUME NEW p \in Producers, Producing(p) PROVE DrainInv'
    <2>1. CASE Publish(p)
      <3>1. /\ pc[p] = "publish" /\ Pending(p)
            /\ epoch' = [epoch EXCEPT ![Cell(ticket[p])] = ticket[p] + 1]
            /\ UNCHANGED <<head, tail, dpc, out, written, log>>
        BY <2>1 DEF Publish, Pending
      <3>2. ticket[p] \in Lap /\ epoch[Cell(ticket[p])] = ticket[p]  BY <3>1 DEF TicketsInv
      <3>3. Published => ticket[p] # tail  BY <3>2 DEF Published
      <3>4. Published => epoch'[Cell(tail)] = tail + 1
        BY <1>2, <3>1, <3>2, <3>3, LapCells DEF Published
      <3> QED  BY <1>1, <3>1, <3>4 DEF DrainInv, Published
    <2>2. CASE ~ Publish(p)
      <3>1. UNCHANGED <<epoch, head, tail, dpc, out, written, log>>
        BY <1>4, <2>2 DEF Producing, Claim, Refuse, Write, Release
      <3> QED  BY <1>1, <3>1 DEF DrainInv, Published
    <2> QED  BY <2>1, <2>2
  <1>5. CASE Check \/ Acquire \/ Again  BY <1>1, <1>5 DEF Check, Acquire, Again, DrainInv, Published
  <1>6. CASE PopNothing  BY <1>1, <1>6 DEF PopNothing, AfterPop, DrainInv, Published
  <1>7. CASE PopEntry  BY <1>1, <1>7 DEF PopEntry, DrainInv, Published
  <1>8. CASE Read
    <2>1. data[Cell(tail)] = log[tail + 1]
      BY <1>1, <1>2, <1>8 DEF Read, DrainInv, Published, CellsInv
    <2> QED  BY <1>1, <1>8, <2>1 DEF Read, DrainInv, Published
  <1>9. CASE Free
    <2>1. /\ tail' = tail + 1 /\ written' = Append(written, out) /\ out = log[tail + 1]
          /\ UNCHANGED <<head, log>> /\ dpc' \notin {"read", "free"}
      BY <1>1, <1>9 DEF Free, DrainInv, AfterPop
    <2>2. tail < head  BY <1>1, <1>2, <1>9 DEF Free, DrainInv, Published, CellsInv
    <2>3. Len(written') = tail' /\ \A i \in 1..tail : written'[i] = written[i]
      BY <1>1, <2>1 DEF DrainInv
    <2>4. written'[tail + 1] = log[tail + 1]  BY <1>1, <2>1 DEF DrainInv
    <2>5. \A i \in 1..tail' : written'[i] = log[i]  BY <1>1, <2>1, <2>3, <2>4 DEF DrainInv
    <2> QED  BY <1>1, <2>1, <2>2, <2>3, <2>5 DEF DrainInv
  <1>10. CASE RequestStop \/ ReleaseAll \/ Join \/ UNCHANGED vars
    BY <1>1, <1>10 DEF RequestStop, ReleaseAll, Join, vars, DrainInv, Published
  <1> QED  BY <1>3, <1>4, <1>5, <1>6, <1>7, <1>8, <1>9, <1>10 DEF Next, Draining

(***************************************************************************)
(* When nobody is in push or try_push, every ticket that is out is         *)
(* published or was refused: at most Capacity of them up to the first that *)
(* was refused, and pop finds the first unless that is one.                *)
(***************************************************************************)
LEMMA QuietRing ==
    ASSUME RingInv, \A p \in Producers : pc[p] = "idle"
    PROVE  /\ \E t \in Ends : tail <= t /\ t <= tail + Capacity
           /\ Published \/ tail \in Ends
  <1> USE RingFacts
  <1>1. \A t \in tail..(head - 1) : (t \in Lap /\ epoch[Cell(t)] = t + 1) \/ t \in refused
    BY DEF AccountInv, Pending
  <1>2. tail <= head  BY DEF RingInv, DrainInv
  <1>3. \E t \in Ends : tail <= t /\ t <= tail + Capacity
    <2>1. CASE head <= tail + Capacity  BY <1>2, <2>1 DEF Ends
    <2>2. CASE tail + Capacity < head
      <3>1. tail + Capacity \in tail..(head - 1) /\ tail + Capacity \notin Lap  BY <2>2 DEF Lap
      <3>2. tail + Capacity \in refused  BY <1>1, <3>1
      <3> QED  BY <3>1, <3>2 DEF Ends
    <2> QED  BY <2>1, <2>2
  <1>4. tail # head => tail \in tail..(head - 1)  BY <1>2
  <1>5. Published \/ tail \in Ends  BY <1>1, <1>4 DEF Published, Ends
  <1> QED  BY <1>3, <1>5

\* The last loop starts with all its rounds and takes an entry in each.
LEMMA LastKeeps ==
    ASSUME RingInv, [Next]_vars
    PROVE  LastInv'
  <1> USE RingFacts
  <1>1. LastInv /\ cnt \in 0..Capacity /\ final \in BOOLEAN /\ stop \in BOOLEAN
    BY DEF RingInv, TypeOK
  <1> USE DEF ring, producer, drainer, history
  <1>2. ASSUME NEW p \in Producers, NEW c \in Calls, FetchTicket(p, c) PROVE LastInv'
    BY <1>1, <1>2 DEF FetchTicket, LastInv
  <1>3. ASSUME NEW p \in Producers, Producing(p) PROVE LastInv'
    <2>1. pc[p] # "idle" /\ UNCHANGED <<owner, stop, final, dpc, cnt>>
      BY <1>3 DEF Producing, Claim, Refuse, Write, Publish, Release
    <2> QED  BY <1>1, <2>1 DEF LastInv
  <1>4. CASE Check
    <2>1. stop => \E t \in Ends : tail <= t /\ t <= tail + Capacity
      BY <1>1, QuietRing DEF LastInv
    <2>2. Ends' = Ends /\ Ends \subseteq Nat  BY <1>4 DEF Check, Ends, RefusedInv
    <2>3. stop => /\ cnt = 0 \/ final
                  /\ \E t \in Ends : tail <= t /\ (tail = t \/ t + cnt <= tail + Capacity)
      BY <1>1, <2>1, <2>2 DEF LastInv
    <2>4. final' => \E t \in Ends' : tail' <= t /\ (tail' = t \/ t + cnt' <= tail' + Capacity)
      BY <1>4, <2>2, <2>3 DEF Check
    <2> QED  BY <1>1, <1>4, <2>4 DEF Check, LastInv
  <1>5. CASE Acquire \/ Again  BY <1>1, <1>5 DEF Acquire, Again, LastInv
  <1>6. CASE PopNothing
    <2>1. final => tail \in Ends  BY <1>1, <1>6, QuietRing DEF PopNothing, LastInv
    <2>2. Ends' = Ends /\ tail' = tail /\ final' = final  BY <1>6 DEF PopNothing, Ends
    <2>3. final' => \E t \in Ends' : tail' <= t /\ (tail' = t \/ t + cnt' <= tail' + Capacity)
      BY <2>1, <2>2
    <2> QED  BY <1>1, <1>6, <2>3 DEF PopNothing, AfterPop, LastInv
  <1>7. CASE PopEntry \/ Read
    <2>1. Ends' = Ends  BY <1>7 DEF PopEntry, Read, Ends
    <2> QED  BY <1>1, <1>7, <2>1 DEF PopEntry, Read, LastInv
  <1>8. CASE Free
    <2>1. tail \notin Ends
      <3>1. tail \in Lap  BY DEF Lap
      <3>2. epoch[Cell(tail)] = tail + 1  BY <1>8 DEF Free, RingInv, DrainInv, Published
      <3> QED  BY <3>1, <3>2 DEF CellsInv, RefusedInv, Ends
    <2>2. /\ Ends' = Ends /\ Ends \subseteq Nat /\ tail' = tail + 1 /\ final' = final
          /\ final => cnt' = cnt + 1
      BY <1>8 DEF Free, AfterPop, Ends, RefusedInv
    <2>3. final' => \E t \in Ends' : tail' <= t /\ (tail' = t \/ t + cnt' <= tail' + Capacity)
      <3> SUFFICES ASSUME final
                   PROVE  \E t \in Ends : tail + 1 <= t /\ t + (cnt + 1) <= (tail + 1) + Capacity
        BY <2>2
      <3>1. PICK t \in Ends : tail <= t /\ (tail = t \/ t + cnt <= tail + Capacity)
        BY <1>1 DEF LastInv
      <3>2. tail + 1 <= t /\ t + (cnt + 1) <= (tail + 1) + Capacity  BY <1>1, <2>1, <2>2, <3>1
      <3> QED  BY <3>2
    <2> QED  BY <1>1, <1>8, <2>3 DEF Free, AfterPop, LastInv
  <1>9. CASE RequestStop  BY <1>1, <1>9 DEF RequestStop, LastInv
  <1>10. CASE ReleaseAll \/ Join \/ UNCHANGED vars
    <2>1. Ends' = Ends  BY <1>10 DEF ReleaseAll, Join, vars, Ends
    <2> QED  BY <1>1, <1>10, <2>1 DEF ReleaseAll, Join, vars, LastInv
  <1> QED  BY <1>2, <1>3, <1>4, <1>5, <1>6, <1>7, <1>8, <1>9, <1>10 DEF Next, Draining

LEMMA NextRing ==
    RingInv /\ [Next]_vars => RingInv'
  <1> SUFFICES ASSUME RingInv, [Next]_vars PROVE RingInv'  OBVIOUS
  <1>1. CellTickets'
    <2>1. CASE \E p \in Producers, c \in Calls : FetchTicket(p, c)  BY <2>1, FetchKeeps
    <2>2. CASE \E p \in Producers : Producing(p)
      BY <2>2, ClaimKeeps, RefuseKeeps, WriteKeeps, PublishKeeps, ReleaseKeeps DEF Producing
    <2>3. CASE Free  BY <2>3, FreeKeeps
    <2>4. CASE \/ Check \/ Acquire \/ PopNothing \/ PopEntry \/ Read \/ Again
               \/ RequestStop \/ ReleaseAll \/ Join \/ UNCHANGED vars
      <3>1. UNCHANGED <<epoch, data, head, tail, pc, ticket, count, log, refused>>
        BY <2>4 DEF Check, Acquire, PopNothing, PopEntry, Read, Again, RequestStop, ReleaseAll,
                    Join, vars, ring, producer, history
      <3> QED  BY <3>1, RingFacts, RingAside
    <2> QED  BY <2>1, <2>2, <2>3, <2>4 DEF Next, Draining
  <1> QED  BY <1>1, NextTypes, DrainKeeps, LastKeeps DEF RingInv, CellTickets

(***************************************************************************)
(* Spec => []RingInv: the tickets from tail_ on, a lap of them, own a cell *)
(* each, whose epoch says whether its entry is there.                      *)
(***************************************************************************)
THEOREM RingInvariance == Spec => []RingInv
  <1> QED  BY InitRing, NextRing, PTL DEF Spec

(***************************************************************************)
(* Spec => []InTicketOrder: MpscRing::pop hands LogCore::drain the entries *)
(* in the order of the fetch_add on head_, none twice, none torn.          *)
(***************************************************************************)
THEOREM TicketOrder == Spec => []InTicketOrder
  <1>1. RingInv => InTicketOrder
    <2> SUFFICES ASSUME RingInv PROVE InTicketOrder  OBVIOUS
    <2> USE RingFacts
    <2>1. \A i \in 1..tail : i - 1 \notin refused  BY DEF RefusedInv
    <2> QED  BY <2>1 DEF InTicketOrder, RingInv, DrainInv
  <1> QED  BY <1>1, RingInvariance, PTL

(***************************************************************************)
(* Spec => []DataRaceFree: between the epoch's load and its store a thread *)
(* has the cell of MpscRing to itself, the drain thread included.          *)
(***************************************************************************)
THEOREM RaceFreedom == Spec => []DataRaceFree
  <1>1. RingInv => DataRaceFree
    <2> SUFFICES ASSUME RingInv, NEW p \in Producers, pc[p] = "write"
                 PROVE  /\ ~ (dpc = "read" /\ Cell(tail) = Cell(ticket[p]))
                        /\ \A q \in Producers \ {p} :
                              ~ (pc[q] = "write" /\ Cell(ticket[q]) = Cell(ticket[p]))
      BY DEF DataRaceFree
    <2> USE RingFacts
    <2>1. Pending(p) /\ ticket[p] \in Lap /\ epoch[Cell(ticket[p])] = ticket[p]
      BY DEF Pending, TicketsInv
    <2>2. ASSUME dpc = "read", Cell(tail) = Cell(ticket[p]) PROVE FALSE
      <3>1. epoch[Cell(tail)] = tail + 1 /\ tail \in Lap
        BY <2>2 DEF RingInv, DrainInv, Published, Lap
      <3>2. ticket[p] = tail  BY <2>1, <2>2, <3>1, LapCells
      <3> QED  BY <2>1, <3>1, <3>2
    <2>3. ASSUME NEW q \in Producers \ {p}, pc[q] = "write", Cell(ticket[q]) = Cell(ticket[p])
          PROVE  FALSE
      <3>1. Pending(q) /\ ticket[q] \in Lap  BY <2>3 DEF Pending, TicketsInv
      <3>2. ticket[q] = ticket[p]  BY <2>1, <2>3, <3>1, LapCells
      <3> QED  BY <2>1, <3>1, <3>2, Holders
    <2> QED  BY <2>2, <2>3
  <1> QED  BY <1>1, RingInvariance, PTL

(***************************************************************************)
(* Spec => []NothingLost: the Capacity rounds of the drain thread's last   *)
(* loop take what was in the ring when ~LogCore asked it to stop, all of   *)
(* it or up to a ticket that try_push refused.                             *)
(***************************************************************************)
THEOREM NothingIsLost == Spec => []NothingLost
  <1> DEFINE JoinedLast == owner = "gone" => dpc = "done"
  <1>1. RingInv /\ JoinedLast => NothingLost
    <2> SUFFICES ASSUME RingInv, JoinedLast, owner = "gone", Len(written) \notin refused
                 PROVE  written = log
      BY DEF NothingLost
    <2> USE RingFacts
    <2>1. dpc = "done" /\ cnt = Capacity /\ final  BY DEF RingInv, LastInv, TypeOK
    <2>2. tail = head
      <3>1. Ends \subseteq Nat  BY DEF Ends, RefusedInv
      <3>2. PICK t \in Ends : tail <= t /\ (tail = t \/ t + Capacity <= tail + Capacity)
        BY <2>1 DEF RingInv, LastInv
      <3>3. tail = t  BY <3>1, <3>2
      <3> QED  BY <3>2, <3>3 DEF RingInv, DrainInv, Ends
    <2>3. /\ written \in Seq(Entries) /\ log \in Seq(Entries) /\ Len(written) = Len(log)
          /\ \A i \in 1..Len(log) : written[i] = log[i]
      BY <2>2 DEF RingInv, DrainInv, TypeOK
    <2>4. written = [i \in 1..Len(written) |-> written[i]] /\ log = [i \in 1..Len(log) |-> log[i]]
      BY <2>3
    <2> QED  BY <2>3, <2>4
  <1>2. Init => JoinedLast  BY DEF Init
  <1>3. JoinedLast /\ [Next]_vars => JoinedLast'
    <2> SUFFICES ASSUME JoinedLast, [Next]_vars PROVE JoinedLast'  OBVIOUS
    <2> USE DEF producer, drainer, FetchTicket, Producing, Claim, Refuse, Write, Publish, Release,
            RequestStop, ReleaseAll, Join, vars
    <2>1. CASE Draining
      BY <2>1 DEF Draining, Check, Acquire, PopNothing, PopEntry, Read, Free, Again
    <2>2. CASE \E p \in Producers : (\E c \in Calls : FetchTicket(p, c)) \/ Producing(p)
      BY <2>2
    <2>3. CASE RequestStop \/ ReleaseAll \/ Join \/ UNCHANGED vars  BY <2>3
    <2> QED  BY <2>1, <2>2, <2>3 DEF Next
  <1> HIDE DEF JoinedLast
  <1> QED  BY <1>1, <1>2, <1>3, RingInvariance, PTL DEF Spec
=============================================================================
