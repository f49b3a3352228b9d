-------------------------- MODULE SessionIOProofs --------------------------
(***************************************************************************)
(* The theorems about SessionIO and the Arena under it.                    *)
(***************************************************************************)
EXTENDS SessionIO, InductionLemmas, FiniteSetTheorems, SequenceTheorems, TLAPS

-----------------------------------------------------------------------------
(* The arena *)

HandleSet == [source : {"Heap", "Arena"}, index : Nat]

Items == [handle : HandleSet, sent : Nat]

ArenaRecords ==
    [free_index : Nat, heap : SUBSET Nat, block : [Blocks -> {"link", "msg"} \X Nat]]

\* The free blocks, in the order of their links.
Chain(a, fl) ==
    /\ a.free_index = IF fl = <<>> THEN End ELSE fl[1]
    /\ \A i \in 1..Len(fl) :
          a.block[fl[i]] = <<"link", IF i = Len(fl) THEN End ELSE fl[i + 1]>>
    /\ \A i, j \in 1..Len(fl) : fl[i] = fl[j] => i = j

InArena(q, i, b) == q[i].handle.source = "Arena" /\ q[i].handle.index = b

OnHeap(q, i, m) == q[i].handle.source = "Heap" /\ q[i].handle.index = m

\* Every block is free or held by one item of q, and so is the heap.
Holds(a, q) ==
    /\ a \in ArenaRecords /\ q \in Seq(Items)
    /\ \E fl \in Seq(Blocks) :
         /\ Chain(a, fl)
         /\ \A b \in Blocks : (\E i \in 1..Len(fl) : fl[i] = b)
                                <=> ~ \E i \in 1..Len(q) : InArena(q, i, b)
    /\ \A i \in 1..Len(q) : q[i].handle.source = "Arena" =>
         q[i].handle.index \in Blocks /\ a.block[q[i].handle.index][1] = "msg"
    /\ \A i, j \in 1..Len(q) : q[i].handle = q[j].handle => i = j
    /\ \A m \in Nat : m \in a.heap <=> \E i \in 1..Len(q) : OnHeap(q, i, m)

\* A sequence with one element more in front.
LEMMA Prepended ==
    ASSUME NEW S, NEW x \in S, NEW t \in Seq(S)
    PROVE  LET u == <<x>> \o t
           IN  /\ u \in Seq(S) /\ Len(u) = Len(t) + 1 /\ Len(t) \in Nat /\ u[1] = x
               /\ \A i \in 1..Len(t) : u[i + 1] = t[i]
               /\ \A i \in 1..Len(u) : i = 1 \/ (i - 1 \in 1..Len(t) /\ u[i] = t[i - 1])
  <1> DEFINE u == <<x>> \o t
  <1>1. u \in Seq(S) /\ Len(u) = Len(t) + 1 /\ Len(t) \in Nat /\ u[1] = x  OBVIOUS
  <1>2. \A i \in 1..Len(t) : u[i + 1] = t[i]  OBVIOUS
  <1> HIDE DEF u
  <1>3. ASSUME NEW i \in 1..Len(u), i # 1 PROVE i - 1 \in 1..Len(t) /\ u[i] = t[i - 1]
    <2>1. i - 1 \in 1..Len(t) /\ i - 1 + 1 = i  BY <1>1, <1>3
    <2> QED  BY <1>2, <2>1
  <1>4. \A i \in 1..Len(u) : i = 1 \/ (i - 1 \in 1..Len(t) /\ u[i] = t[i - 1])  BY <1>3
  <1>5. /\ u \in Seq(S) /\ Len(u) = Len(t) + 1 /\ Len(t) \in Nat /\ u[1] = x
        /\ \A i \in 1..Len(t) : u[i + 1] = t[i]
        /\ \A i \in 1..Len(u) : i = 1 \/ (i - 1 \in 1..Len(t) /\ u[i] = t[i - 1])
    BY <1>1, <1>2, <1>4
  <1> QED  BY <1>5 DEF u

LEMMA BlockNumbers ==
    Blocks \subseteq Nat /\ End \in Nat /\ End \notin Blocks /\ block_count \in Nat \ {0}
  BY ArenaAssumption DEF Blocks, End

LEMMA ItemFields ==
    ASSUME NEW q \in Seq(Items), NEW i \in 1..Len(q)
    PROVE  /\ q[i] \in Items /\ q[i].handle \in HandleSet /\ q[i].sent \in Nat
           /\ q[i].handle.source \in {"Heap", "Arena"} /\ q[i].handle.index \in Nat
  <1>1. q[i] \in Items  OBVIOUS
  <1>2. q[i].handle \in HandleSet /\ q[i].sent \in Nat  BY <1>1 DEF Items
  <1> QED  BY <1>1, <1>2 DEF HandleSet

LEMMA NewArenaHolds ==
    Holds(NewArena, <<>>)
  <1> USE BlockNumbers
  <1> DEFINE fl == [i \in 1..block_count |-> i - 1]
  <1>1. /\ NewArena.free_index = 0 /\ NewArena.heap = {}
        /\ NewArena.block = [i \in Blocks |-> <<"link", IF i = block_count - 1 THEN End ELSE i + 1>>]
    BY DEF NewArena
  <1>2. NewArena.block \in [Blocks -> {"link", "msg"} \X Nat]  BY <1>1
  <1>3. NewArena \in ArenaRecords  BY <1>1, <1>2 DEF NewArena, ArenaRecords
  <1>4. \A i \in 1..block_count : i - 1 \in Blocks  BY DEF Blocks
  <1>5. fl \in Seq(Blocks) /\ Len(fl) = block_count /\ fl # <<>>  BY <1>4
  <1>6. ASSUME NEW i \in 1..Len(fl)
        PROVE  NewArena.block[fl[i]] = <<"link", IF i = Len(fl) THEN End ELSE fl[i + 1]>>
    <2>1. fl[i] = i - 1 /\ i - 1 \in Blocks /\ (i # Len(fl) => fl[i + 1] = i)  BY <1>4, <1>5
    <2> QED  BY <1>1, <1>5, <2>1
  <1>7. Chain(NewArena, fl)
    <2>1. \A i, j \in 1..Len(fl) : fl[i] = fl[j] => i = j  BY <1>5
    <2>2. fl[1] = 0  BY <1>5
    <2> HIDE DEF fl
    <2> QED  BY <1>1, <1>5, <1>6, <2>1, <2>2 DEF Chain
  <1>8. ASSUME NEW b \in Blocks PROVE \E i \in 1..Len(fl) : fl[i] = b
    <2>1. b + 1 \in 1..Len(fl) /\ fl[b + 1] = b  BY <1>5 DEF Blocks
    <2> QED  BY <2>1
  <1>9. <<>> \in Seq(Items) /\ Len(<<>>) = 0  OBVIOUS
  <1> HIDE DEF fl
  <1> QED  BY <1>1, <1>3, <1>5, <1>7, <1>8, <1>9 DEF Holds

\* The first free block is taken.
LEMMA ChainTake ==
    ASSUME NEW a \in ArenaRecords, NEW fl \in Seq(Blocks), Chain(a, fl), fl # <<>>,
           NEW c \in ArenaRecords, c.free_index = a.block[fl[1]][2],
           \A b \in Blocks \ {fl[1]} : c.block[b] = a.block[b]
    PROVE  Chain(c, Tail(fl))
  <1> USE BlockNumbers
  <1> DEFINE tl == Tail(fl)
  <1>1. /\ tl \in Seq(Blocks) /\ Len(tl) = Len(fl) - 1 /\ Len(fl) \in Nat \ {0}
        /\ \A i \in 1..Len(tl) : tl[i] = fl[i + 1]
    BY HeadTailProperties
  <1> HIDE DEF tl
  <1>2. a.block[fl[1]] = <<"link", IF 1 = Len(fl) THEN End ELSE fl[2]>>  BY <1>1 DEF Chain
  <1>3. c.free_index = IF tl = <<>> THEN End ELSE tl[1]
    <2>1. tl = <<>> <=> Len(fl) = 1  BY <1>1
    <2> QED  BY <1>1, <1>2, <2>1
  <1>4. ASSUME NEW i \in 1..Len(tl)
        PROVE  c.block[tl[i]] = <<"link", IF i = Len(tl) THEN End ELSE tl[i + 1]>>
    <2>1. i + 1 \in 1..Len(fl) /\ 1 \in 1..Len(fl) /\ tl[i] = fl[i + 1]  BY <1>1
    <2>2. fl[i + 1] # fl[1] /\ fl[i + 1] \in Blocks  BY <1>1, <2>1 DEF Chain
    <2>3. c.block[tl[i]] = <<"link", IF i + 1 = Len(fl) THEN End ELSE fl[i + 1 + 1]>>
      <3>1. c.block[tl[i]] = a.block[fl[i + 1]]  BY <2>1, <2>2
      <3>2. a.block[fl[i + 1]] = <<"link", IF i + 1 = Len(fl) THEN End ELSE fl[i + 1 + 1]>>
        BY <2>1 DEF Chain
      <3> QED  BY <3>1, <3>2
    <2>4. i # Len(tl) => tl[i + 1] = fl[i + 1 + 1]  BY <1>1
    <2> QED  BY <1>1, <2>3, <2>4
  <1>5. ASSUME NEW i \in 1..Len(tl), NEW j \in 1..Len(tl), tl[i] = tl[j] PROVE i = j
    <2>1. i + 1 \in 1..Len(fl) /\ j + 1 \in 1..Len(fl)  BY <1>1
    <2>2. fl[i + 1] = fl[j + 1]  BY <1>1, <1>5
    <2>3. i + 1 = j + 1  BY <2>1, <2>2 DEF Chain
    <2> QED  BY <1>1, <2>3
  <1>6. Chain(c, tl)  BY <1>3, <1>4, <1>5 DEF Chain
  <1> QED  BY <1>6 DEF tl

\* A block becomes the first free one.
LEMMA ChainGive ==
    ASSUME NEW a \in ArenaRecords, NEW fl \in Seq(Blocks), Chain(a, fl),
           NEW x \in Blocks, \A i \in 1..Len(fl) : fl[i] # x,
           NEW c \in ArenaRecords, c.free_index = x, c.block[x] = <<"link", a.free_index>>,
           \A b \in Blocks \ {x} : c.block[b] = a.block[b]
    PROVE  Chain(c, <<x>> \o fl)
  <1> USE BlockNumbers
  <1> DEFINE xl == <<x>> \o fl
  <1>1. /\ xl \in Seq(Blocks) /\ Len(xl) = Len(fl) + 1 /\ Len(fl) \in Nat /\ xl[1] = x
        /\ \A i \in 2..Len(xl) : xl[i] = fl[i - 1]
    OBVIOUS
  <1> HIDE DEF xl
  <1>2. c.free_index = IF xl = <<>> THEN End ELSE xl[1]  BY <1>1
  <1>3. ASSUME NEW i \in 1..Len(xl)
        PROVE  c.block[xl[i]] = <<"link", IF i = Len(xl) THEN End ELSE xl[i + 1]>>
    <2>1. CASE i = 1
      <3>1. fl = <<>> <=> Len(xl) = 1  BY <1>1
      <3>2. fl # <<>> => xl[2] = fl[1]  BY <1>1
      <3> QED  BY <1>1, <2>1, <3>1, <3>2 DEF Chain
    <2>2. CASE i # 1
      <3>1. i - 1 \in 1..Len(fl) /\ i \in 2..Len(xl) /\ xl[i] = fl[i - 1]  BY <1>1, <2>2
      <3>2. fl[i - 1] # x /\ fl[i - 1] \in Blocks  BY <3>1
      <3>3. c.block[xl[i]] = <<"link", IF i - 1 = Len(fl) THEN End ELSE fl[i - 1 + 1]>>
        <4>1. c.block[xl[i]] = a.block[fl[i - 1]]  BY <3>1, <3>2
        <4>2. a.block[fl[i - 1]] = <<"link", IF i - 1 = Len(fl) THEN End ELSE fl[i - 1 + 1]>>
          BY <3>1 DEF Chain
        <4> QED  BY <4>1, <4>2
      <3>4. i # Len(xl) => xl[i + 1] = fl[i - 1 + 1]  BY <1>1, <2>2
      <3> QED  BY <1>1, <3>3, <3>4
    <2> QED  BY <2>1, <2>2
  <1>4. ASSUME NEW i \in 1..Len(xl), NEW j \in 1..Len(xl), xl[i] = xl[j] PROVE i = j
    <2>1. \A k \in 1..Len(xl) : k # 1 => k - 1 \in 1..Len(fl) /\ xl[k] = fl[k - 1]  BY <1>1
    <2>2. CASE i = 1 \/ j = 1
      <3>1. \A k \in 1..Len(xl) : k # 1 => xl[k] # x  BY <2>1
      <3> QED  BY <1>1, <1>4, <2>2, <3>1
    <2>3. CASE i # 1 /\ j # 1
      <3>1. i - 1 = j - 1  BY <1>4, <2>1, <2>3 DEF Chain
      <3> QED  BY <1>1, <3>1
    <2> QED  BY <2>2, <2>3
  <1>5. Chain(c, xl)  BY <1>2, <1>3, <1>4 DEF Chain
  <1> QED  BY <1>5 DEF xl

\* WireWriter::from_arena and the push to write_q_.
LEMMA AllocateHolds ==
    ASSUME NEW a, NEW q, Holds(a, q), NEW m \in Nat \ a.heap, NEW large \in BOOLEAN
    PROVE  Holds(from_arena(a, m, large),
                 Append(q, [handle |-> Allocated(a, m, large), sent |-> 0]))
  <1> USE BlockNumbers
  <1> DEFINE h == Allocated(a, m, large)
             c == from_arena(a, m, large)
             p == Append(q, [handle |-> h, sent |-> 0])
  <1>1. a \in ArenaRecords /\ q \in Seq(Items) /\ Len(q) \in Nat  BY DEF Holds
  <1>2. /\ a.free_index \in Nat /\ a.heap \in SUBSET Nat
        /\ a.block \in [Blocks -> {"link", "msg"} \X Nat]
    BY <1>1 DEF ArenaRecords
  <1>3. h \in HandleSet  BY <1>2 DEF Allocated, HandleSet
  <1> HIDE DEF h
  <1>4. /\ p \in Seq(Items) /\ Len(p) = Len(q) + 1
        /\ \A i \in 1..Len(q) : p[i] = q[i]
        /\ p[Len(p)] = [handle |-> h, sent |-> 0]
    BY <1>1, <1>3 DEF Items
  <1>5. \A i \in 1..Len(p) : i = Len(p) \/ i \in 1..Len(q)  BY <1>1, <1>4
  <1>6. p[Len(p)].handle = h /\ Len(p) \in 1..Len(p)  BY <1>1, <1>4
  <1>7. 1..Len(q) \subseteq 1..Len(p)  BY <1>1, <1>4
  <1> HIDE DEF p
  <1>8. PICK fl \in Seq(Blocks) :
         /\ Chain(a, fl)
         /\ \A b \in Blocks : (\E i \in 1..Len(fl) : fl[i] = b)
                                <=> ~ \E i \in 1..Len(q) : InArena(q, i, b)
    BY DEF Holds
  <1>9. CASE h.source = "Heap"
    <2>1. h = [source |-> "Heap", index |-> m] /\ c = [a EXCEPT !.heap = @ \cup {m}]
      BY <1>9 DEF h, Allocated, from_arena
    <2>2. c \in ArenaRecords /\ c.free_index = a.free_index /\ c.block = a.block
          /\ c.heap = a.heap \cup {m}
      BY <1>1, <1>2, <2>1 DEF ArenaRecords
    <2> HIDE DEF c
    <2>3. Chain(c, fl)  BY <1>8, <2>2 DEF Chain
    <2>4. ASSUME NEW b \in Blocks
          PROVE  (\E i \in 1..Len(p) : InArena(p, i, b)) <=> \E i \in 1..Len(q) : InArena(q, i, b)
      BY <1>4, <1>5, <1>6, <1>7, <1>9 DEF InArena
    <2>5. ASSUME NEW i \in 1..Len(q) PROVE q[i].handle # h
      <3>1. q[i].handle = h => OnHeap(q, i, m)  BY <2>1 DEF OnHeap
      <3> QED  BY <3>1 DEF Holds
    <2>6. ASSUME NEW k \in Nat
          PROVE  k \in c.heap <=> \E i \in 1..Len(p) : OnHeap(p, i, k)
      <3>1. k \in a.heap <=> \E i \in 1..Len(q) : OnHeap(q, i, k)  BY DEF Holds
      <3>2. k = m <=> OnHeap(p, Len(p), k)  BY <1>6, <2>1 DEF OnHeap
      <3>3. \A i \in 1..Len(q) : OnHeap(p, i, k) <=> OnHeap(q, i, k)  BY <1>4 DEF OnHeap
      <3> QED  BY <1>5, <1>6, <1>7, <2>2, <3>1, <3>2, <3>3
    <2>7. \A i, j \in 1..Len(p) : p[i].handle = p[j].handle => i = j
      BY <1>4, <1>5, <1>6, <2>5 DEF Holds
    <2>8. \A i \in 1..Len(p) : p[i].handle.source = "Arena" =>
             p[i].handle.index \in Blocks /\ c.block[p[i].handle.index][1] = "msg"
      BY <1>4, <1>5, <1>6, <1>9, <2>2 DEF Holds
    <2>9. \A b \in Blocks : (\E i \in 1..Len(fl) : fl[i] = b)
                              <=> ~ \E i \in 1..Len(p) : InArena(p, i, b)
      BY <1>8, <2>4
    <2>10. Holds(c, p)
      BY <1>4, <2>2, <2>3, <2>6, <2>7, <2>8, <2>9 DEF Holds
    <2> QED  BY <2>10 DEF c, p, h
  <1>10. CASE h.source # "Heap"
    <2> DEFINE x == fl[1]
    <2>1. a.free_index # End /\ h = [source |-> "Arena", index |-> a.free_index]
      BY <1>10 DEF h, Allocated
    <2>2. fl # <<>> /\ a.free_index = x  BY <1>8, <2>1 DEF Chain
    <2>3. 1 \in 1..Len(fl) /\ x \in Blocks  BY <2>2
    <2>4. c = [a EXCEPT !.free_index = a.block[@][2], !.block[a.free_index] = <<"msg", m>>]
      BY <1>10 DEF h, from_arena
    <2>5. a.block[x] \in {"link", "msg"} \X Nat /\ <<"msg", m>> \in {"link", "msg"} \X Nat
      BY <1>2, <2>3
    <2>6. /\ c.free_index = a.block[x][2] /\ c.heap = a.heap
          /\ c.block = [a.block EXCEPT ![x] = <<"msg", m>>]
      BY <1>1, <2>2, <2>4 DEF ArenaRecords
    <2>7. c.block \in [Blocks -> {"link", "msg"} \X Nat] /\ a.block[x][2] \in Nat
      BY <1>2, <2>5, <2>6
    <2>8. c \in ArenaRecords  BY <1>1, <2>4, <2>6, <2>7 DEF ArenaRecords
    <2>9. \A b \in Blocks \ {x} : c.block[b] = a.block[b]  BY <1>2, <2>6
    <2>10. c.block[x] = <<"msg", m>>  BY <1>2, <2>3, <2>6
    <2>11. Chain(c, Tail(fl))  BY <1>1, <1>8, <2>2, <2>6, <2>8, <2>9, ChainTake
    <2> HIDE DEF c, x
    <2>12. \A i \in 1..Len(q) : ~ InArena(q, i, x)  BY <1>8, <2>3 DEF x
    <2> DEFINE tl == Tail(fl)
    <2>13. /\ tl \in Seq(Blocks) /\ Len(tl) = Len(fl) - 1 /\ Len(fl) \in Nat \ {0}
           /\ \A i \in 1..Len(tl) : tl[i] = fl[i + 1]
      BY <2>2, HeadTailProperties
    <2> HIDE DEF tl
    <2>14. ASSUME NEW b \in Blocks
           PROVE  (\E i \in 1..Len(tl) : tl[i] = b) <=> (b # x /\ \E i \in 1..Len(fl) : fl[i] = b)
      <3>1. ASSUME NEW i \in 1..Len(tl), tl[i] = b PROVE b # x /\ \E j \in 1..Len(fl) : fl[j] = b
        <4>1. i + 1 \in 1..Len(fl) /\ i + 1 # 1 /\ fl[i + 1] = b  BY <2>13, <3>1
        <4>2. fl[i + 1] # fl[1]  BY <1>8, <2>3, <4>1 DEF Chain
        <4> QED  BY <4>1, <4>2 DEF x
      <3>2. ASSUME NEW j \in 1..Len(fl), fl[j] = b, b # x PROVE \E i \in 1..Len(tl) : tl[i] = b
        <4>1. j # 1  BY <3>2 DEF x
        <4>2. j - 1 \in 1..Len(tl) /\ tl[j - 1] = fl[j - 1 + 1] /\ j - 1 + 1 = j  BY <2>13, <4>1
        <4> QED  BY <3>2, <4>2
      <3> QED  BY <3>1, <3>2
    <2>15. ASSUME NEW b \in Blocks
           PROVE  (\E i \in 1..Len(p) : InArena(p, i, b))
                    <=> (b = x \/ \E i \in 1..Len(q) : InArena(q, i, b))
      <3>1. InArena(p, Len(p), b) <=> b = x  BY <1>6, <2>1, <2>2 DEF InArena
      <3>2. \A i \in 1..Len(q) : InArena(p, i, b) <=> InArena(q, i, b)  BY <1>4 DEF InArena
      <3> QED  BY <1>5, <1>6, <1>7, <3>1, <3>2
    <2>16. ASSUME NEW i \in 1..Len(q) PROVE q[i].handle # h
      <3>1. q[i].handle = h => InArena(q, i, x)  BY <2>1, <2>2 DEF InArena
      <3> QED  BY <2>12, <3>1
    <2>17. \A i, j \in 1..Len(p) : p[i].handle = p[j].handle => i = j
      BY <1>4, <1>5, <1>6, <2>16 DEF Holds
    <2>18. ASSUME NEW i \in 1..Len(p), p[i].handle.source = "Arena"
           PROVE  p[i].handle.index \in Blocks /\ c.block[p[i].handle.index][1] = "msg"
      <3>1. CASE i = Len(p)  BY <1>6, <2>1, <2>2, <2>3, <2>10, <3>1 DEF x
      <3>2. CASE i \in 1..Len(q)
        <4>1. /\ p[i] = q[i] /\ q[i].handle.index \in Blocks
              /\ a.block[q[i].handle.index][1] = "msg"
          BY <1>4, <2>18, <3>2 DEF Holds
        <4>2. q[i].handle.index # x  BY <2>12, <2>18, <3>2, <4>1 DEF InArena
        <4> QED  BY <2>9, <4>1, <4>2
      <3> QED  BY <1>5, <3>1, <3>2
    <2>19. ASSUME NEW k \in Nat
           PROVE  k \in c.heap <=> \E i \in 1..Len(p) : OnHeap(p, i, k)
      <3>1. k \in a.heap <=> \E i \in 1..Len(q) : OnHeap(q, i, k)  BY DEF Holds
      <3>2. ~ OnHeap(p, Len(p), k)  BY <1>6, <2>1 DEF OnHeap
      <3>3. \A i \in 1..Len(q) : OnHeap(p, i, k) <=> OnHeap(q, i, k)  BY <1>4 DEF OnHeap
      <3> QED  BY <1>5, <1>6, <1>7, <2>6, <3>1, <3>2, <3>3
    <2>20. \A b \in Blocks : (\E i \in 1..Len(tl) : tl[i] = b)
                               <=> ~ \E i \in 1..Len(p) : InArena(p, i, b)
      BY <1>8, <2>14, <2>15
    <2>21. Chain(c, tl)  BY <2>11 DEF tl
    <2>22. Holds(c, p)
      BY <1>4, <2>8, <2>13, <2>17, <2>18, <2>19, <2>20, <2>21 DEF Holds
    <2> QED  BY <2>22 DEF c, p, h
  <1> QED  BY <1>9, <1>10

\* The front of write_q_ is popped, which ends its handle.
LEMMA ReleaseHolds ==
    ASSUME NEW a, NEW q, Holds(a, q), q # <<>>
    PROVE  Holds(release(a, Head(q).handle), Tail(q))
  <1> USE BlockNumbers
  <1> DEFINE h == Head(q).handle
             c == release(a, h)
             p == Tail(q)
  <1>1. a \in ArenaRecords /\ q \in Seq(Items) /\ Len(q) \in Nat \ {0}  BY DEF Holds
  <1>2. /\ a.free_index \in Nat /\ a.heap \in SUBSET Nat
        /\ a.block \in [Blocks -> {"link", "msg"} \X Nat]
    BY <1>1 DEF ArenaRecords
  <1>3. Head(q) = q[1] /\ 1 \in 1..Len(q)  BY <1>1
  <1>4. h = q[1].handle /\ h \in HandleSet /\ h.source \in {"Heap", "Arena"} /\ h.index \in Nat
    BY <1>1, <1>3, ItemFields
  <1> HIDE DEF h
  <1>5. /\ p \in Seq(Items) /\ Len(p) = Len(q) - 1
        /\ \A i \in 1..Len(p) : p[i] = q[i + 1]
    BY <1>1, HeadTailProperties
  <1> HIDE DEF p
  <1>6. \A i \in 1..Len(p) : i + 1 \in 1..Len(q) /\ i + 1 # 1  BY <1>1, <1>5
  <1>7. \A i \in 1..Len(q) : i # 1 => i - 1 \in 1..Len(p) /\ p[i - 1] = q[i]
    <2> TAKE i \in 1..Len(q)
    <2> HAVE i # 1
    <2>1. i - 1 \in 1..Len(p) /\ i - 1 + 1 = i  BY <1>1, <1>5
    <2> QED  BY <1>5, <2>1
  <1>8. \A i \in 1..Len(p) : p[i].handle # h
    BY <1>3, <1>4, <1>5, <1>6 DEF Holds
  <1>9. ASSUME NEW i \in 1..Len(p), NEW j \in 1..Len(p), p[i].handle = p[j].handle PROVE i = j
    <2>1. q[i + 1].handle = q[j + 1].handle  BY <1>5, <1>9
    <2>2. i + 1 = j + 1  BY <1>6, <2>1 DEF Holds
    <2> QED  BY <1>5, <2>2
  <1>10. ASSUME NEW k
         PROVE  (\E i \in 1..Len(q) : OnHeap(q, i, k))
                  <=> (OnHeap(q, 1, k) \/ \E i \in 1..Len(p) : OnHeap(p, i, k))
    <2>1. \A i \in 1..Len(p) : OnHeap(p, i, k) <=> OnHeap(q, i + 1, k)  BY <1>5 DEF OnHeap
    <2>2. \A i \in 1..Len(q) : i # 1 /\ OnHeap(q, i, k) => OnHeap(p, i - 1, k)
      BY <1>7 DEF OnHeap
    <2> QED  BY <1>3, <1>6, <1>7, <2>1, <2>2
  <1>11. ASSUME NEW b
         PROVE  (\E i \in 1..Len(q) : InArena(q, i, b))
                  <=> (InArena(q, 1, b) \/ \E i \in 1..Len(p) : InArena(p, i, b))
    <2>1. \A i \in 1..Len(p) : InArena(p, i, b) <=> InArena(q, i + 1, b)  BY <1>5 DEF InArena
    <2>2. \A i \in 1..Len(q) : i # 1 /\ InArena(q, i, b) => InArena(p, i - 1, b)
      BY <1>7 DEF InArena
    <2> QED  BY <1>3, <1>6, <1>7, <2>1, <2>2
  <1>12. \A i \in 1..Len(p) : p[i].handle \in HandleSet  BY <1>5, ItemFields
  <1>13. ASSUME NEW i \in 1..Len(p), p[i].handle.source = h.source, p[i].handle.index = h.index
         PROVE  FALSE
    <2>1. p[i].handle = h  BY <1>4, <1>12, <1>13 DEF HandleSet
    <2> QED  BY <1>8, <2>1
  <1>14. PICK fl \in Seq(Blocks) :
         /\ Chain(a, fl)
         /\ \A b \in Blocks : (\E i \in 1..Len(fl) : fl[i] = b)
                                <=> ~ \E i \in 1..Len(q) : InArena(q, i, b)
    BY DEF Holds
  <1>15. \A i \in 1..Len(p) : p[i].handle.source = "Arena" =>
            p[i].handle.index \in Blocks /\ a.block[p[i].handle.index][1] = "msg"
    <2> TAKE i \in 1..Len(p)
    <2>1. p[i] = q[i + 1] /\ i + 1 \in 1..Len(q)  BY <1>5, <1>6
    <2> QED  BY <2>1 DEF Holds
  <1>16. CASE h.source = "Heap"
    <2>1. c = [a EXCEPT !.heap = @ \ {h.index}]  BY <1>16 DEF release
    <2>2. /\ c \in ArenaRecords /\ c.free_index = a.free_index /\ c.block = a.block
          /\ c.heap = a.heap \ {h.index}
      BY <1>1, <1>2, <2>1 DEF ArenaRecords
    <2> HIDE DEF c
    <2>3. Chain(c, fl)  BY <1>14, <2>2 DEF Chain
    <2>4. \A b \in Blocks : (\E i \in 1..Len(fl) : fl[i] = b)
                              <=> ~ \E i \in 1..Len(p) : InArena(p, i, b)
      <3>1. \A b : ~ InArena(q, 1, b)  BY <1>4, <1>16 DEF InArena
      <3> QED  BY <1>11, <1>14, <3>1
    <2>5. ASSUME NEW k \in Nat
          PROVE  k \in c.heap <=> \E i \in 1..Len(p) : OnHeap(p, i, k)
      <3>1. k \in a.heap <=> \E i \in 1..Len(q) : OnHeap(q, i, k)  BY DEF Holds
      <3>2. OnHeap(q, 1, k) <=> k = h.index  BY <1>4, <1>16 DEF OnHeap
      <3>3. k = h.index => ~ \E i \in 1..Len(p) : OnHeap(p, i, k)  BY <1>13, <1>16 DEF OnHeap
      <3> QED  BY <1>10, <2>2, <3>1, <3>2, <3>3
    <2>6. Holds(c, p)  BY <1>5, <1>9, <1>15, <2>2, <2>3, <2>4, <2>5 DEF Holds
    <2> QED  BY <2>6 DEF c, p, h
  <1>17. CASE h.source = "Arena"
    <2> DEFINE x == h.index
    <2>1. x \in Blocks /\ InArena(q, 1, x)  BY <1>3, <1>4, <1>17 DEF Holds, InArena
    <2>2. c = [a EXCEPT !.free_index = x, !.block[x] = <<"link", a.free_index>>]
      BY <1>17 DEF release
    <2>3. <<"link", a.free_index>> \in {"link", "msg"} \X Nat  BY <1>2
    <2>4. /\ c.free_index = x /\ c.heap = a.heap
          /\ c.block = [a.block EXCEPT ![x] = <<"link", a.free_index>>]
      BY <1>1, <2>2 DEF ArenaRecords
    <2>5. c.block \in [Blocks -> {"link", "msg"} \X Nat] /\ x \in Nat  BY <1>2, <1>4, <2>3, <2>4
    <2>6. c \in ArenaRecords  BY <1>1, <2>2, <2>4, <2>5 DEF ArenaRecords
    <2>7. \A b \in Blocks \ {x} : c.block[b] = a.block[b]  BY <1>2, <2>4
    <2>8. c.block[x] = <<"link", a.free_index>>  BY <1>2, <2>1, <2>4
    <2>9. \A i \in 1..Len(fl) : fl[i] # x  BY <1>3, <1>14, <2>1
    <2> HIDE DEF c, x
    <2> DEFINE xl == <<x>> \o fl
    <2>10. Chain(c, xl)  BY <1>1, <1>14, <2>1, <2>4, <2>6, <2>7, <2>8, <2>9, ChainGive
    <2>11. /\ xl \in Seq(Blocks) /\ Len(xl) = Len(fl) + 1 /\ Len(fl) \in Nat /\ xl[1] = x
           /\ \A i \in 1..Len(fl) : xl[i + 1] = fl[i]
           /\ \A i \in 1..Len(xl) : i = 1 \/ (i - 1 \in 1..Len(fl) /\ xl[i] = fl[i - 1])
      BY <2>1, Prepended
    <2> HIDE DEF xl
    <2>12. ASSUME NEW b
           PROVE  (\E i \in 1..Len(xl) : xl[i] = b) <=> (b = x \/ \E i \in 1..Len(fl) : fl[i] = b)
      <3>1. 1 \in 1..Len(xl) /\ \A i \in 1..Len(fl) : i + 1 \in 1..Len(xl)  BY <2>11
      <3> QED  BY <2>11, <3>1
    <2>13. ASSUME NEW b \in Blocks
           PROVE  (\E i \in 1..Len(xl) : xl[i] = b) <=> ~ \E i \in 1..Len(p) : InArena(p, i, b)
      <3>1. InArena(q, 1, b) <=> b = x  BY <1>4, <1>17 DEF InArena, x
      <3>2. b = x => ~ \E i \in 1..Len(p) : InArena(p, i, b)  BY <1>13, <1>17 DEF InArena, x
      <3> QED  BY <1>11, <1>14, <2>12, <3>1, <3>2
    <2>14. ASSUME NEW i \in 1..Len(p), p[i].handle.source = "Arena"
           PROVE  p[i].handle.index \in Blocks /\ c.block[p[i].handle.index][1] = "msg"
      <3>1. p[i].handle.index # x  BY <1>13, <1>17, <2>14 DEF x
      <3> QED  BY <1>15, <2>7, <2>14, <3>1
    <2>15. ASSUME NEW k \in Nat
           PROVE  k \in c.heap <=> \E i \in 1..Len(p) : OnHeap(p, i, k)
      <3>1. k \in a.heap <=> \E i \in 1..Len(q) : OnHeap(q, i, k)  BY DEF Holds
      <3>2. ~ OnHeap(q, 1, k)  BY <1>4, <1>17 DEF OnHeap
      <3> QED  BY <1>10, <2>4, <3>1, <3>2
    <2>16. Holds(c, p)
      BY <1>5, <1>9, <2>6, <2>10, <2>11, <2>13, <2>14, <2>15 DEF Holds
    <2> QED  BY <2>16 DEF c, p, h
  <1> QED  BY <1>4, <1>16, <1>17

\* Part of the front of write_q_ is written.
LEMMA PartHolds ==
    ASSUME NEW a, NEW q, Holds(a, q), q # <<>>, NEW n \in Nat
    PROVE  Holds(a, [q EXCEPT ![1].sent = @ + n])
  <1> DEFINE p == [q EXCEPT ![1].sent = @ + n]
  <1>1. q \in Seq(Items) /\ 1 \in 1..Len(q)  BY DEF Holds
  <1>2. [q[1] EXCEPT !.sent = @ + n] \in Items /\ [q[1] EXCEPT !.sent = @ + n].handle = q[1].handle
    <2>1. q[1] \in Items /\ q[1].sent + n \in Nat  BY <1>1, ItemFields
    <2> QED  BY <2>1 DEF Items
  <1>3. p \in Seq(Items) /\ Len(p) = Len(q)  BY <1>1, <1>2, ExceptSeq
  <1>4. \A i \in 1..Len(q) : p[i].handle = q[i].handle  BY <1>1, <1>2
  <1> HIDE DEF p
  <1>5. \A i \in 1..Len(q) : \A b : /\ InArena(p, i, b) <=> InArena(q, i, b)
                                    /\ OnHeap(p, i, b) <=> OnHeap(q, i, b)
    BY <1>4 DEF InArena, OnHeap
  <1>6. Holds(a, p)
    <2>1. PICK fl \in Seq(Blocks) :
         /\ Chain(a, fl)
         /\ \A b \in Blocks : (\E i \in 1..Len(fl) : fl[i] = b)
                                <=> ~ \E i \in 1..Len(q) : InArena(q, i, b)
      BY DEF Holds
    <2>2. \A b \in Blocks : (\E i \in 1..Len(fl) : fl[i] = b)
                              <=> ~ \E i \in 1..Len(p) : InArena(p, i, b)
      BY <1>3, <1>5, <2>1
    <2>3. \A m \in Nat : m \in a.heap <=> \E i \in 1..Len(p) : OnHeap(p, i, m)
      BY <1>3, <1>5 DEF Holds
    <2> QED  BY <1>3, <1>4, <2>1, <2>2, <2>3 DEF Holds
  <1> QED  BY <1>6 DEF p

\* The fold of release_all over the first k handles, as a function of sets.
Fold(a, hs, k, g) ==
    g = [S \in SUBSET (1..k) |->
           IF S = {} THEN a ELSE release(g[S \ {Max(S)}], hs[Max(S)])]

\* A fold exists for any number of handles.
LEMMA FoldExists ==
    ASSUME NEW a, NEW hs, NEW n \in Nat
    PROVE  \E g : Fold(a, hs, n, g)
  <1> DEFINE T == {k \in Nat : \E g : Fold(a, hs, k, g)}
  <1>1. 0 \in T
    <2> DEFINE g == [S \in SUBSET (1..0) |-> a]
    <2>1. \A S \in SUBSET (1..0) : S = {}  OBVIOUS
    <2>2. Fold(a, hs, 0, g)  BY <2>1, Zenon DEF Fold
    <2> QED  BY <2>2
  <1>2. ASSUME NEW k \in Nat, k \in T PROVE k + 1 \in T
    <2>1. PICK g : Fold(a, hs, k, g)  BY <1>2
    <2> DEFINE f == [S \in SUBSET (1..(k + 1)) |->
                       IF k + 1 \in S THEN release(g[S \ {k + 1}], hs[k + 1]) ELSE g[S]]
    <2>2. ASSUME NEW S \in SUBSET (1..(k + 1)), S # {}
          PROVE  f[S] = release(f[S \ {Max(S)}], hs[Max(S)])
      <3>0. k + 1 \in Nat  OBVIOUS
      <3>1. Max(S) \in S /\ \A y \in S : y <= Max(S)  BY <2>2, <3>0, MaxOf
      <3>2. S \ {Max(S)} \in SUBSET (1..(k + 1))  OBVIOUS
      <3>3. CASE k + 1 \in S
        <4>1. Max(S) = k + 1
          <5>1. Max(S) \in 1..(k + 1) /\ k + 1 <= Max(S)  BY <3>1, <3>3
          <5> QED  BY <5>1
        <4>2. f[S] = release(g[S \ {k + 1}], hs[k + 1])  BY <3>3
        <4>3. f[S \ {k + 1}] = g[S \ {k + 1}]  OBVIOUS
        <4> QED  BY <4>1, <4>2, <4>3
      <3>4. CASE k + 1 \notin S
        <4>1. S \in SUBSET (1..k) /\ S \ {Max(S)} \in SUBSET (1..k)
          <5>1. \A y \in 1..(k + 1) : y # k + 1 => y \in 1..k  OBVIOUS
          <5> QED  BY <3>4, <5>1
        <4>2. f[S] = g[S] /\ f[S \ {Max(S)}] = g[S \ {Max(S)}]  BY <3>2, <3>4
        <4>3. g[S] = release(g[S \ {Max(S)}], hs[Max(S)])  BY <2>1, <2>2, <4>1 DEF Fold
        <4> QED  BY <4>2, <4>3
      <3> QED  BY <3>3, <3>4
    <2>3. f[{}] = a
      <3>1. g[{}] = a  BY <2>1 DEF Fold
      <3> QED  BY <3>1
    <2>4. f = [S \in SUBSET (1..(k + 1)) |-> f[S]]  OBVIOUS
    <2> HIDE DEF f
    <2>5. f = [S \in SUBSET (1..(k + 1)) |->
                 IF S = {} THEN a ELSE release(f[S \ {Max(S)}], hs[Max(S)])]
      BY <2>2, <2>3, <2>4
    <2>6. Fold(a, hs, k + 1, f)  BY <2>5 DEF Fold
    <2> QED  BY <2>6
  <1> HIDE DEF T
  <1>3. Nat \subseteq T  BY <1>1, <1>2, SetInduction
  <1> QED  BY <1>3 DEF T

\* release_all is such a fold.
LEMMA ReleaseAllIsFold ==
    ASSUME NEW a, NEW hs, DOMAIN hs = 1..Len(hs), Len(hs) \in Nat
    PROVE  \E g : Fold(a, hs, Len(hs), g) /\ release_all(a, hs) = g[1..Len(hs)]
  <1> DEFINE n == Len(hs)
             g == CHOOSE f : f = [S \in SUBSET DOMAIN hs |->
                    IF S = {} THEN a ELSE release(f[S \ {Max(S)}], hs[Max(S)])]
  <1>1. release_all(a, hs) = g[DOMAIN hs]  BY Zenon DEF release_all, FoldLeft, MapThenFoldSet
  <1>2. \E f : f = [S \in SUBSET DOMAIN hs |->
                    IF S = {} THEN a ELSE release(f[S \ {Max(S)}], hs[Max(S)])]
    <2>1. PICK f : Fold(a, hs, n, f)  BY FoldExists
    <2> QED  BY <2>1 DEF Fold
  <1>3. g = [S \in SUBSET DOMAIN hs |->
               IF S = {} THEN a ELSE release(g[S \ {Max(S)}], hs[Max(S)])]
    BY <1>2
  <1> HIDE DEF g
  <1>4. Fold(a, hs, n, g)  BY <1>3 DEF Fold
  <1> QED  BY <1>1, <1>4

\* write_q_.clear(): the handles are released front to back.
LEMMA ClearHolds ==
    ASSUME NEW a, NEW q, Holds(a, q)
    PROVE  Holds(release_all(a, [i \in DOMAIN q |-> q[i].handle]), <<>>)
  <1> DEFINE hs == [i \in DOMAIN q |-> q[i].handle]
             n == Len(q)
  <1>1. q \in Seq(Items) /\ n \in Nat /\ DOMAIN q = 1..n  BY DEF Holds
  <1>2. \A i \in 1..n : hs[i] = q[i].handle /\ hs[i] \in HandleSet  BY <1>1, ItemFields
  <1>3. hs \in Seq(HandleSet) /\ Len(hs) = n /\ DOMAIN hs = 1..n  BY <1>1, <1>2
  <1> HIDE DEF hs, n
  <1>4. PICK g : Fold(a, hs, n, g) /\ release_all(a, hs) = g[1..n]
    BY <1>1, <1>3, ReleaseAllIsFold
  <1> DEFINE T == {k \in Nat : k <= n => Holds(g[1..k], SubSeq(q, k + 1, n))}
  <1>5. 0 \in T
    <2>1. 1..0 = {} /\ {} \in SUBSET (1..n)  OBVIOUS
    <2>2. g[{}] = a  BY <1>4, <2>1 DEF Fold
    <2>3. SubSeq(q, 0 + 1, n) = q  BY <1>1, SubSeqFull DEF n
    <2> QED  BY <2>1, <2>2, <2>3
  <1>6. ASSUME NEW k \in Nat, k \in T PROVE k + 1 \in T
    <2> SUFFICES ASSUME k + 1 <= n PROVE Holds(g[1..(k + 1)], SubSeq(q, k + 1 + 1, n))
      OBVIOUS
    <2> DEFINE r == SubSeq(q, k + 1, n)
    <2>1. Holds(g[1..k], r)  BY <1>1, <1>6
    <2>2. k + 1 \in 1..Len(q) /\ n \in (k + 1)..Len(q)  BY <1>1 DEF n
    <2>3. Head(r) = q[k + 1] /\ Tail(r) = SubSeq(q, k + 1 + 1, n)
      BY <1>1, <2>2, HeadTailOfSubSeq
    <2>4. r # <<>>
      <3>1. r \in Seq(Items) /\ Len(r) = IF k + 1 <= n THEN n - (k + 1) + 1 ELSE 0
        <4>1. \A i \in (k + 1)..n : q[i] \in Items  BY <1>1 DEF n
        <4> QED  BY <1>1, <4>1, SubSeqProperties
      <3>2. Len(r) >= 1  BY <1>1, <3>1
      <3> HIDE DEF r
      <3> QED  BY <3>1, <3>2
    <2> HIDE DEF r
    <2>5. Holds(release(g[1..k], Head(r).handle), Tail(r))  BY <2>1, <2>4, ReleaseHolds
    <2>6. g[1..(k + 1)] = release(g[1..k], hs[k + 1])
      <3>1. 1..(k + 1) \in SUBSET (1..n) /\ 1..(k + 1) # {}
        <4>1. \A y \in 1..(k + 1) : y \in 1..n  BY <1>1
        <4>2. 1 \in 1..(k + 1)  OBVIOUS
        <4> QED  BY <4>1, <4>2
      <3>2. Max(1..(k + 1)) = k + 1
        <4>1. k + 1 \in Nat /\ 1..(k + 1) \in SUBSET (1..(k + 1))  OBVIOUS
        <4>2. Max(1..(k + 1)) \in 1..(k + 1) /\ \A y \in 1..(k + 1) : y <= Max(1..(k + 1))
          BY <3>1, <4>1, MaxOf
        <4>3. k + 1 \in 1..(k + 1)  OBVIOUS
        <4>4. k + 1 <= Max(1..(k + 1))  BY <4>2, <4>3
        <4> QED  BY <4>2, <4>4
      <3>3. (1..(k + 1)) \ {k + 1} = 1..k  OBVIOUS
      <3>4. g[1..(k + 1)] = release(g[(1..(k + 1)) \ {Max(1..(k + 1))}], hs[Max(1..(k + 1))])
        BY <1>4, <3>1 DEF Fold
      <3> QED  BY <3>2, <3>3, <3>4
    <2>7. hs[k + 1] = Head(r).handle
      BY <1>2, <2>2, <2>3 DEF n
    <2> QED  BY <2>3, <2>5, <2>6, <2>7
  <1> HIDE DEF T
  <1>7. n \in T  BY <1>1, <1>5, <1>6, SetInduction
  <1>8. Holds(g[1..n], SubSeq(q, n + 1, n))  BY <1>1, <1>7 DEF T
  <1>9. SubSeq(q, n + 1, n) = <<>>  BY <1>1, SubSeqEmpty
  <1>10. Holds(release_all(a, hs), <<>>)  BY <1>4, <1>8, <1>9
  <1> QED  BY <1>10 DEF hs

\* The numbers from 1 to n are n.
LEMMA CountTo ==
    ASSUME NEW n \in Nat
    PROVE  Cardinality(1..n) = n
  <1>1. 1 \in Int /\ n \in Int  OBVIOUS
  <1>2. Cardinality(1..n) = IF 1 > n THEN 0 ELSE n - 1 + 1  BY <1>1, FS_Interval, Zenon
  <1> QED  BY <1>2

\* The list one reads from free_index is the chain.
LEMMA FreeListIs ==
    ASSUME NEW a \in ArenaRecords, NEW fl \in Seq(Blocks), Chain(a, fl)
    PROVE  /\ DOMAIN FreeList(a) = 1..(block_count + 1) /\ Len(fl) <= block_count
           /\ \A n \in 1..(block_count + 1) :
                 FreeList(a)[n] = IF n <= Len(fl) THEN fl[n] ELSE End
  <1> USE BlockNumbers
  <1>1. Len(fl) \in Nat /\ \A i \in 1..Len(fl) : fl[i] \in Blocks  OBVIOUS
  <1>2. Len(fl) <= block_count
    <2>1. fl \in [1..Len(fl) -> Blocks]  OBVIOUS
    <2>2. fl \in Injection(1..Len(fl), Blocks)
      BY <2>1 DEF Injection, IsInjective, Chain
    <2>3. IsFiniteSet(Blocks) /\ Cardinality(Blocks) = block_count  BY FS_Interval DEF Blocks
    <2>4. Cardinality(1..Len(fl)) <= Cardinality(Blocks)  BY <2>2, <2>3, FS_Injection
    <2>5. Cardinality(1..Len(fl)) = Len(fl)  BY <1>1, CountTo
    <2> QED  BY <2>3, <2>4, <2>5
  <1> DEFINE Walk(f) == [n \in 0..block_count |->
                           IF n = 0 THEN a.free_index
                           ELSE IF f[n - 1] \in Blocks /\ a.block[f[n - 1]][1] = "link"
                                THEN a.block[f[n - 1]][2] ELSE End]
             At == CHOOSE f : f = Walk(f)
             w == [n \in 0..block_count |-> IF n < Len(fl) THEN fl[n + 1] ELSE End]
  <1>3. FreeList(a) = [n \in 1..(block_count + 1) |-> At[n - 1]]  BY Zenon DEF FreeList
  <1>4. w[0] = a.free_index  BY <1>1 DEF Chain
  <1>5. ASSUME NEW n \in 0..block_count, n # 0
        PROVE  w[n] = IF w[n - 1] \in Blocks /\ a.block[w[n - 1]][1] = "link"
                      THEN a.block[w[n - 1]][2] ELSE End
    <2>1. n - 1 \in 0..block_count /\ n - 1 + 1 = n  BY <1>5
    <2>2. CASE n - 1 < Len(fl)
      <3>1. n \in 1..Len(fl) /\ w[n - 1] = fl[n]  BY <1>1, <1>5, <2>1, <2>2
      <3>2. a.block[fl[n]] = <<"link", IF n = Len(fl) THEN End ELSE fl[n + 1]>>  BY <3>1 DEF Chain
      <3>3. w[n] = IF n = Len(fl) THEN End ELSE fl[n + 1]  BY <1>1, <1>5, <3>1
      <3> HIDE DEF w
      <3> QED  BY <1>1, <3>1, <3>2, <3>3
    <2>3. CASE ~ (n - 1 < Len(fl))
      <3>1. w[n - 1] = End /\ w[n] = End  BY <1>1, <1>5, <2>1, <2>3
      <3> HIDE DEF w
      <3> QED  BY <3>1
    <2> QED  BY <2>2, <2>3
  <1>6. w = [n \in 0..block_count |-> w[n]]  OBVIOUS
  <1> HIDE DEF w
  <1>7. w = Walk(w)  BY <1>4, <1>5, <1>6
  <1>8. At = Walk(At)
    <2> HIDE DEF Walk
    <2> QED  BY <1>7
  <1> HIDE DEF At
  <1>9. \A n \in Nat : n \in 0..block_count => At[n] = w[n]
    <2> DEFINE T == {n \in Nat : n \in 0..block_count => At[n] = w[n]}
    <2>1. 0 \in T  BY <1>4, <1>8
    <2>2. ASSUME NEW n \in Nat, n \in T PROVE n + 1 \in T
      <3> SUFFICES ASSUME n + 1 \in 0..block_count PROVE At[n + 1] = w[n + 1]  OBVIOUS
      <3>1. n \in 0..block_count /\ n + 1 # 0 /\ n + 1 - 1 = n  OBVIOUS
      <3>2. At[n] = w[n]  BY <2>2, <3>1
      <3>3. At[n + 1] = IF At[n] \in Blocks /\ a.block[At[n]][1] = "link"
                        THEN a.block[At[n]][2] ELSE End
        BY <1>8, <3>1
      <3>4. w[n + 1] = IF w[n] \in Blocks /\ a.block[w[n]][1] = "link"
                       THEN a.block[w[n]][2] ELSE End
        BY <1>5, <3>1
      <3> QED  BY <3>2, <3>3, <3>4
    <2> HIDE DEF T
    <2>3. Nat \subseteq T  BY <2>1, <2>2, SetInduction
    <2> QED  BY <2>3 DEF T
  <1>10. ASSUME NEW n \in 1..(block_count + 1)
         PROVE  FreeList(a)[n] = IF n <= Len(fl) THEN fl[n] ELSE End
    <2>1. n - 1 \in Nat /\ n - 1 \in 0..block_count /\ n - 1 + 1 = n
          /\ (n - 1 < Len(fl) <=> n <= Len(fl))
      BY <1>1
    <2>2. FreeList(a)[n] = w[n - 1]  BY <1>3, <1>9, <2>1
    <2> QED  BY <2>1, <2>2 DEF w
  <1> QED  BY <1>2, <1>3, <1>10

\* What is said of the arena, in the words of BlocksExact.
LEMMA HoldsExact ==
    ASSUME Holds(arena, s.q)
    PROVE  BlocksExact
  <1> USE BlockNumbers
  <1> DEFINE q == s.q
             handles == [i \in DOMAIN q |-> q[i].handle]
             held == {h.index : h \in {g \in ToSet(handles) : g.source = "Arena"}}
             heaped == {h.index : h \in {g \in ToSet(handles) : g.source = "Heap"}}
             free == FreeList(arena)
  <1>1. q \in Seq(Items) /\ DOMAIN q = 1..Len(q) /\ arena \in ArenaRecords  BY DEF Holds
  <1> HIDE DEF q
  <1>2. Holds(arena, q)  BY DEF q
  <1>3. PICK fl \in Seq(Blocks) :
         /\ Chain(arena, fl)
         /\ \A b \in Blocks : (\E i \in 1..Len(fl) : fl[i] = b)
                                <=> ~ \E i \in 1..Len(q) : InArena(q, i, b)
    BY <1>2 DEF Holds
  <1>4. /\ DOMAIN free = 1..(block_count + 1) /\ Len(fl) <= block_count /\ Len(fl) \in Nat
        /\ \A n \in 1..(block_count + 1) : free[n] = IF n <= Len(fl) THEN fl[n] ELSE End
    BY <1>1, <1>3, FreeListIs
  <1>5. ToSet(handles) = {q[i].handle : i \in 1..Len(q)}  BY <1>1, Zenon DEF ToSet
  <1>6. \A b : b \in held <=> \E i \in 1..Len(q) : InArena(q, i, b)  BY <1>5 DEF InArena
  <1>7. \A m : m \in heaped <=> \E i \in 1..Len(q) : OnHeap(q, i, m)  BY <1>5 DEF OnHeap
  <1>8. IsInjective(handles)
    <2>1. \A i, j \in 1..Len(q) : q[i].handle = q[j].handle => i = j  BY <1>2 DEF Holds
    <2> QED  BY <1>1, <2>1 DEF IsInjective
  <1> HIDE DEF handles, held, heaped, free
  <1>9. ASSUME NEW i \in DOMAIN free, NEW j \in DOMAIN free, free[i] = free[j], i # j
        PROVE  free[i] = End
    <2>1. i \in 1..(block_count + 1) /\ j \in 1..(block_count + 1)  BY <1>4
    <2>2. CASE i <= Len(fl) /\ j <= Len(fl)
      <3>1. i \in 1..Len(fl) /\ j \in 1..Len(fl) /\ fl[i] = fl[j]  BY <1>4, <1>9, <2>1, <2>2
      <3> QED  BY <1>3, <1>9, <3>1 DEF Chain
    <2>3. CASE ~ (i <= Len(fl)) \/ ~ (j <= Len(fl))  BY <1>4, <1>9, <2>1, <2>3
    <2> QED  BY <2>2, <2>3
  <1>10. ToSet(free) \ {End} = Blocks \ held
    <2>1. ASSUME NEW b \in Blocks \ held PROVE b \in ToSet(free) \ {End}
      <3>1. PICK i \in 1..Len(fl) : fl[i] = b  BY <1>3, <1>6, <2>1
      <3>2. i \in 1..(block_count + 1) /\ i <= Len(fl)  BY <1>4
      <3>3. free[i] = b  BY <1>4, <3>1, <3>2
      <3> QED  BY <1>4, <3>2, <3>3 DEF ToSet
    <2>2. ASSUME NEW b \in ToSet(free) \ {End} PROVE b \in Blocks \ held
      <3>1. PICK i \in 1..(block_count + 1) : free[i] = b  BY <1>4, <2>2 DEF ToSet
      <3>2. i <= Len(fl) /\ fl[i] = b  BY <1>4, <2>2, <3>1
      <3>3. i \in 1..Len(fl) /\ b \in Blocks  BY <1>4, <3>2
      <3> QED  BY <1>3, <1>6, <3>2, <3>3
    <2> QED  BY <2>1, <2>2
  <1>11. \A i \in held : arena.block[i][1] = "msg"  BY <1>2, <1>6 DEF Holds, InArena
  <1>12. arena.heap = heaped
    <2>1. arena.heap \subseteq Nat  BY <1>1 DEF ArenaRecords
    <2>2. \A m \in heaped : m \in Nat  BY <1>1, <1>7, ItemFields DEF OnHeap
    <2>3. \A m \in Nat : m \in arena.heap <=> m \in heaped  BY <1>2, <1>7 DEF Holds
    <2> QED  BY <2>1, <2>2, <2>3
  <1> QED
    BY <1>8, <1>9, <1>10, <1>11, <1>12 DEF BlocksExact, handles, held, heaped, free, q

-----------------------------------------------------------------------------
(* The handlers, for every record they may be given *)

SessionRecords ==
    [role : {"INITIATOR", "ACCEPTOR"}, conn : Nat, live : BOOLEAN, stopped : BOOLEAN,
     reconnecting : BOOLEAN, q : Seq(Items), inflight : BOOLEAN,
     fault : {"none", "null_conn", "no_front"}]

OpRecords ==
    [kind : {"read", "write"}, conn : Nat, handle : HandleSet \cup {NoHandle}, at : Nat,
     copy : Nat, n : Nat, result : {"none", "ok", "transient", "fatal"}]

OpSets == {O \in SUBSET OpRecords : IsFiniteSet(O)}

Worlds ==
    [s : SessionRecords, arena : ArenaRecords, ops : OpSets, open : SUBSET Nat,
     sent : [Conns -> Seq(Nat)]]

\* A record whose queue and arena agree.
Sane(w) == w \in Worlds /\ Holds(w.arena, w.s.q)

\* From w to t the connection and the lifecycle are the same, and no memory
\* but that of the messages in M was asked for.
Same(w, t, M) ==
    /\ Sane(t)
    /\ t.s.role = w.s.role /\ t.s.conn = w.s.conn /\ t.s.live = w.s.live
    /\ t.s.stopped = w.s.stopped /\ t.s.reconnecting = w.s.reconnecting
    /\ t.open = w.open
    /\ t.arena.heap \subseteq w.arena.heap \cup M

LEMMA WorldFields ==
    ASSUME NEW w \in Worlds
    PROVE  /\ w.s \in SessionRecords /\ w.arena \in ArenaRecords /\ w.ops \in OpSets
           /\ w.open \in SUBSET Nat /\ w.sent \in [Conns -> Seq(Nat)]
           /\ w.s.role \in {"INITIATOR", "ACCEPTOR"} /\ w.s.conn \in Nat
           /\ w.s.live \in BOOLEAN /\ w.s.stopped \in BOOLEAN /\ w.s.reconnecting \in BOOLEAN
           /\ w.s.q \in Seq(Items) /\ w.s.inflight \in BOOLEAN
           /\ w.s.fault \in {"none", "null_conn", "no_front"}
           /\ w.arena.heap \in SUBSET Nat
           /\ IsFiniteSet(w.ops) /\ w.ops \in SUBSET OpRecords
  <1>1. /\ w.s \in SessionRecords /\ w.arena \in ArenaRecords /\ w.ops \in OpSets
        /\ w.open \in SUBSET Nat /\ w.sent \in [Conns -> Seq(Nat)]
    BY DEF Worlds
  <1>2. w.arena.heap \in SUBSET Nat  BY <1>1 DEF ArenaRecords
  <1> QED  BY <1>1, <1>2 DEF SessionRecords, OpSets

\* A record is the same as itself.
LEMMA SameRefl ==
    ASSUME NEW w, Sane(w), NEW M
    PROVE  Same(w, w, M)
  BY DEF Same

LEMMA SameTrans ==
    ASSUME NEW w, NEW t, NEW u, NEW M, Same(w, t, M), Same(t, u, M)
    PROVE  Same(w, u, M)
  BY DEF Same

\* A copy number that tells a new operation from those there are.
LEMMA FreshCopy ==
    ASSUME NEW O, IsFiniteSet(O), NEW r \in OpRecords
    PROVE  LET J == {j \in 1..(Cardinality(O) + 1) : [r EXCEPT !.copy = j] \notin O}
           IN  Min(J) \in Nat /\ [r EXCEPT !.copy = Min(J)] \notin O
  <1> DEFINE c == Cardinality(O)
             J == {j \in 1..(c + 1) : [r EXCEPT !.copy = j] \notin O}
             f == [j \in 1..(c + 1) |-> [r EXCEPT !.copy = j]]
  <1>1. c \in Nat  BY FS_CardinalityType
  <1>2. J # {}
    <2> SUFFICES ASSUME J = {} PROVE FALSE  OBVIOUS
    <2>1. \A j \in 1..(c + 1) : f[j] \in O  OBVIOUS
    <2>2. \A j \in 1..(c + 1) : f[j].copy = j  BY DEF OpRecords
    <2>3. f \in [1..(c + 1) -> O]  BY <2>1
    <2> HIDE DEF f
    <2>4. f \in Injection(1..(c + 1), O)
      <3>1. \A i, j \in 1..(c + 1) : f[i] = f[j] => i = j  BY <2>2
      <3> QED  BY <2>3, <3>1 DEF Injection, IsInjective
    <2>5. Cardinality(1..(c + 1)) <= c  BY <2>4, FS_Injection
    <2> HIDE DEF c
    <2>6. Cardinality(1..(c + 1)) = c + 1  BY <1>1, CountTo
    <2> QED  BY <1>1, <2>5, <2>6
  <1>3. J \in SUBSET Nat
    <2>1. \A j \in 1..(c + 1) : j \in Nat  BY <1>1
    <2> QED  BY <2>1
  <1>4. \E j \in J : \A k \in J : j <= k  BY <1>2, <1>3, LeastNatural
  <1>5. Min(J) \in J  BY <1>4 DEF Min
  <1>6. Min(J) \in Nat  BY <1>3, <1>5
  <1>7. [r EXCEPT !.copy = Min(J)] \notin O  BY <1>5
  <1> QED  BY <1>6, <1>7

\* A use of what is not there leaves everything else as it is.
LEMMA FaultIs ==
    ASSUME NEW w \in Worlds, NEW what \in {"null_conn", "no_front"}
    PROVE  LET t == Fault(w, what)
           IN  /\ t \in Worlds /\ t.s.role = w.s.role /\ t.s.conn = w.s.conn /\ t.s.live = w.s.live
               /\ t.s.stopped = w.s.stopped /\ t.s.reconnecting = w.s.reconnecting
               /\ t.s.q = w.s.q /\ t.s.inflight = w.s.inflight /\ t.s.fault # "none"
               /\ t.open = w.open /\ t.arena = w.arena /\ t.ops = w.ops /\ t.sent = w.sent
  <1> DEFINE f == IF w.s.fault = "none" THEN what ELSE w.s.fault
             r == [w.s EXCEPT !.fault = f]
  <1>1. w.s \in SessionRecords /\ f \in {"none", "null_conn", "no_front"}
    BY WorldFields
  <1>2. f # "none"  OBVIOUS
  <1> HIDE DEF f
  <1>3. /\ r \in SessionRecords /\ r.role = w.s.role /\ r.conn = w.s.conn /\ r.live = w.s.live
        /\ r.stopped = w.s.stopped /\ r.reconnecting = w.s.reconnecting
        /\ r.q = w.s.q /\ r.inflight = w.s.inflight /\ r.fault = f
    BY <1>1 DEF SessionRecords
  <1>4. Fault(w, what) = [w EXCEPT !.s = r]  BY DEF Fault, r, f
  <1> HIDE DEF r
  <1>5. LET t == [w EXCEPT !.s = r]
        IN  /\ t \in Worlds /\ t.s = r
            /\ t.open = w.open /\ t.arena = w.arena /\ t.ops = w.ops /\ t.sent = w.sent
    BY <1>3 DEF Worlds
  <1> QED  BY <1>2, <1>3, <1>4, <1>5

\* An operation as it begins.
Fresh(o, handle, at) == o.handle = handle /\ o.at = at /\ o.n = 0 /\ o.result = "none"

\* An asynchronous operation on conn_ is one more operation.
LEMMA BeginIs ==
    ASSUME NEW w, Sane(w), NEW kind \in {"read", "write"},
           NEW handle \in HandleSet \cup {NoHandle}, NEW at \in Nat
    PROVE  LET t == Begin(w, kind, handle, at)
           IN  /\ Same(w, t, {}) /\ t.s.q = w.s.q /\ t.s.inflight = w.s.inflight
               /\ t.arena = w.arena /\ t.sent = w.sent
               /\ w.s.conn # 0 => /\ t.s = w.s
                                  /\ \E o \in OpRecords : /\ o.kind = kind /\ o.conn = w.s.conn
                                                          /\ Fresh(o, handle, at)
                                                          /\ t.ops = w.ops \cup {o}
  <1>1. w \in Worlds  BY DEF Sane
  <1>2. /\ w.s \in SessionRecords /\ w.ops \in OpSets /\ IsFiniteSet(w.ops)
        /\ w.ops \in SUBSET OpRecords /\ w.s.conn \in Nat
    BY <1>1, WorldFields
  <1> DEFINE t == Begin(w, kind, handle, at)
  <1>3. CASE w.s.conn = 0
    <2>1. t = Fault(w, "null_conn")  BY <1>3 DEF Begin
    <2> HIDE DEF t
    <2>2. /\ t \in Worlds /\ t.s.role = w.s.role /\ t.s.conn = w.s.conn /\ t.s.live = w.s.live
          /\ t.s.stopped = w.s.stopped /\ t.s.reconnecting = w.s.reconnecting
          /\ t.open = w.open /\ t.arena = w.arena /\ t.s.q = w.s.q /\ t.s.inflight = w.s.inflight
          /\ t.sent = w.sent
      BY <1>1, <2>1, FaultIs
    <2>3. Same(w, t, {})  BY <2>2 DEF Same, Sane
    <2>4. /\ Same(w, t, {}) /\ t.s.q = w.s.q /\ t.s.inflight = w.s.inflight /\ t.arena = w.arena
          /\ t.sent = w.sent
      BY <2>2, <2>3
    <2> QED  BY <1>3, <2>4 DEF t
  <1>4. CASE w.s.conn # 0
    <2> DEFINE Op(i) == [kind |-> kind, conn |-> w.s.conn, handle |-> handle, at |-> at,
                         copy |-> i, n |-> 0, result |-> "none"]
               J == {j \in 1..(Cardinality(w.ops) + 1) : Op(j) \notin w.ops}
               o == Op(Min(J))
    <2>1. t = [w EXCEPT !.ops = @ \cup {o}]  BY <1>4 DEF Begin
    <2>2. Min(J) \in Nat
      <3>1. Op(0) \in OpRecords  BY <1>2 DEF OpRecords
      <3>2. \A j : [Op(0) EXCEPT !.copy = j] = Op(j)  OBVIOUS
      <3> HIDE DEF Op
      <3>3. J = {j \in 1..(Cardinality(w.ops) + 1) : [Op(0) EXCEPT !.copy = j] \notin w.ops}
        BY <3>2
      <3>4. Min({j \in 1..(Cardinality(w.ops) + 1) : [Op(0) EXCEPT !.copy = j] \notin w.ops}) \in Nat
        BY <1>2, <3>1, FreshCopy
      <3> QED  BY <3>3, <3>4
    <2> HIDE DEF J
    <2>3. o \in OpRecords /\ o.kind = kind /\ o.conn = w.s.conn /\ Fresh(o, handle, at)
      BY <1>2, <2>2 DEF OpRecords, Fresh
    <2> HIDE DEF o
    <2>4. w.ops \cup {o} \in OpSets
      <3>1. IsFiniteSet(w.ops \cup {o})  BY <1>2, FS_AddElement
      <3> QED  BY <1>2, <2>3, <3>1 DEF OpSets
    <2>5. /\ t \in Worlds /\ t.s = w.s /\ t.open = w.open /\ t.arena = w.arena
          /\ t.ops = w.ops \cup {o} /\ t.sent = w.sent
      BY <1>1, <2>1, <2>4 DEF Worlds
    <2> HIDE DEF t
    <2>6. Same(w, t, {})  BY <2>5 DEF Same, Sane
    <2>7. /\ Same(w, t, {}) /\ t.s.q = w.s.q /\ t.s.inflight = w.s.inflight
          /\ t.arena = w.arena /\ t.sent = w.sent /\ t.s = w.s
          /\ \E p \in OpRecords : /\ p.kind = kind /\ p.conn = w.s.conn /\ Fresh(p, handle, at)
                                  /\ t.ops = w.ops \cup {p}
      BY <2>3, <2>5, <2>6
    <2> QED  BY <2>7 DEF t
  <1> QED  BY <1>3, <1>4

\* One more operation of kind k, on conn_.
Grown(w, t, k) ==
    \E o \in OpRecords : o.kind = k /\ o.conn = w.s.conn /\ t.ops = w.ops \cup {o}

LEMMA DoReadIs ==
    ASSUME NEW w, Sane(w)
    PROVE  LET t == do_read(w)
           IN  /\ Same(w, t, {}) /\ t.s.q = w.s.q /\ t.s.inflight = w.s.inflight
               /\ t.arena = w.arena
               /\ w.s.stopped => t = w
               /\ ~ w.s.stopped /\ w.s.conn # 0 => t.s = w.s /\ Grown(w, t, "read")
  <1> DEFINE t == Begin(w, "read", NoHandle, 0)
  <1>1. /\ Same(w, t, {}) /\ t.s.q = w.s.q /\ t.s.inflight = w.s.inflight
        /\ t.arena = w.arena
        /\ w.s.conn # 0 => t.s = w.s /\ Grown(w, t, "read")
    BY BeginIs DEF Grown
  <1>2. Same(w, w, {})  BY SameRefl
  <1>3. do_read(w) = IF w.s.stopped THEN w ELSE t  BY DEF do_read
  <1> HIDE DEF t
  <1> QED  BY <1>1, <1>2, <1>3

\* The flag of a write under way.
LEMMA FlagIs ==
    ASSUME NEW w, Sane(w), NEW b \in BOOLEAN
    PROVE  LET t == [w EXCEPT !.s.inflight = b]
           IN  /\ Same(w, t, {}) /\ t.s.q = w.s.q /\ t.s.inflight = b /\ t.arena = w.arena
               /\ t.ops = w.ops /\ t.s.fault = w.s.fault /\ t.sent = w.sent
  <1> DEFINE r == [w.s EXCEPT !.inflight = b]
             t == [w EXCEPT !.s = r]
  <1>1. w \in Worlds /\ w.s \in SessionRecords  BY WorldFields DEF Sane
  <1>2. /\ r \in SessionRecords /\ r.role = w.s.role /\ r.conn = w.s.conn /\ r.live = w.s.live
        /\ r.stopped = w.s.stopped /\ r.reconnecting = w.s.reconnecting
        /\ r.q = w.s.q /\ r.inflight = b /\ r.fault = w.s.fault
    BY <1>1 DEF SessionRecords
  <1> HIDE DEF r
  <1>3. /\ t \in Worlds /\ t.s = r
        /\ t.open = w.open /\ t.arena = w.arena /\ t.ops = w.ops /\ t.sent = w.sent
    BY <1>1, <1>2 DEF Worlds
  <1>4. [w EXCEPT !.s.inflight = b] = t  BY DEF r
  <1> HIDE DEF t
  <1>5. Same(w, t, {})  BY <1>2, <1>3 DEF Same, Sane
  <1> QED  BY <1>2, <1>3, <1>4, <1>5

LEMMA DoWriteIs ==
    ASSUME NEW w, Sane(w)
    PROVE  LET t == do_write(w)
           IN  /\ Same(w, t, {}) /\ t.s.q = w.s.q /\ t.arena = w.arena
               /\ w.s.q = <<>> => ~ t.s.inflight /\ t.ops = w.ops /\ t.s.fault = w.s.fault
               /\ w.s.q # <<>> /\ w.s.stopped => t = w
               /\ w.s.q # <<>> /\ ~ w.s.stopped /\ w.s.conn # 0 =>
                    t.s = w.s /\ Grown(w, t, "write")
  <1> DEFINE q == w.s.q
             e == [w EXCEPT !.s.inflight = FALSE]
             t == Begin(w, "write", Head(q).handle, Head(q).sent)
  <1>1. do_write(w) = IF q = <<>> THEN e ELSE IF w.s.stopped THEN w ELSE t  BY DEF do_write
  <1>2. q \in Seq(Items)  BY WorldFields DEF Sane
  <1>3. CASE q = <<>>
    <2>1. /\ Same(w, e, {}) /\ e.s.q = w.s.q /\ e.s.inflight = FALSE /\ e.arena = w.arena
          /\ e.ops = w.ops /\ e.s.fault = w.s.fault
      BY FlagIs
    <2> HIDE DEF e, t
    <2> QED  BY <1>1, <1>3, <2>1
  <1>4. CASE q # <<>> /\ w.s.stopped
    <2>1. Same(w, w, {})  BY SameRefl
    <2> HIDE DEF e, t
    <2> QED  BY <1>1, <1>4, <2>1
  <1>5. CASE q # <<>> /\ ~ w.s.stopped
    <2>1. Len(q) >= 1 /\ Len(q) \in Nat /\ Head(q) = q[1]  BY <1>2, <1>5
    <2>2. 1 \in 1..Len(q)  BY <2>1
    <2>3. Head(q).handle \in HandleSet \cup {NoHandle} /\ Head(q).sent \in Nat
      BY <1>2, <2>1, <2>2, ItemFields
    <2>4. /\ Same(w, t, {}) /\ t.s.q = w.s.q /\ t.arena = w.arena
          /\ w.s.conn # 0 => t.s = w.s /\ Grown(w, t, "write")
      <3>1. \A h \in HandleSet \cup {NoHandle}, at \in Nat :
              LET u == Begin(w, "write", h, at)
              IN  /\ Same(w, u, {}) /\ u.s.q = w.s.q /\ u.arena = w.arena
                  /\ w.s.conn # 0 => u.s = w.s /\ Grown(w, u, "write")
        BY BeginIs DEF Grown
      <3> QED  BY <2>3, <3>1
    <2> HIDE DEF e, t
    <2> QED  BY <1>1, <1>5, <2>4
  <1> QED  BY <1>3, <1>4, <1>5

\* A message is queued; its number is not that of a message on the heap.
LEMMA QueuedIs ==
    ASSUME NEW w, Sane(w), NEW m \in Nat \ w.arena.heap
    PROVE  LET t == Queued(w, m)
           IN  /\ Same(w, t, {m}) /\ t.s.q # <<>> /\ t.s.inflight = w.s.inflight
               /\ t.ops = w.ops /\ t.s.fault = w.s.fault
  <1> DEFINE large == m \in budget.large
             c == from_arena(w.arena, m, large)
             p == Append(w.s.q, [handle |-> Allocated(w.arena, m, large), sent |-> 0])
             z == [k \in Conns |-> IF Undisturbed /\ k = w.s.conn THEN Append(w.sent[k], m)
                                                                  ELSE w.sent[k]]
             r == [w.s EXCEPT !.q = p]
             t == Queued(w, m)
  <1>1. /\ w \in Worlds /\ w.s \in SessionRecords /\ w.arena \in ArenaRecords
        /\ w.sent \in [Conns -> Seq(Nat)] /\ w.s.q \in Seq(Items)
    BY WorldFields DEF Sane
  <1>2. large \in BOOLEAN  OBVIOUS
  <1>3. Holds(w.arena, w.s.q)  BY DEF Sane
  <1>4. Holds(c, p)
    <2> HIDE DEF large
    <2> QED  BY <1>2, <1>3, AllocateHolds
  <1>5. p # <<>>
    <2> HIDE DEF large
    <2> QED  BY <1>1
  <1>6. c \in ArenaRecords /\ p \in Seq(Items)
    <2> HIDE DEF c, p
    <2> QED  BY <1>4 DEF Holds
  <1>7. c.heap \subseteq w.arena.heap \cup {m}
    <2> HIDE DEF large
    <2> QED  BY <1>1 DEF from_arena, ArenaRecords
  <1>8. z \in [Conns -> Seq(Nat)]  BY <1>1
  <1>9. t = [w EXCEPT !.arena = c, !.s = r, !.sent = z]  BY <1>1 DEF Queued, Worlds
  <1> HIDE DEF c, p, z, large
  <1>10. /\ r \in SessionRecords /\ r.role = w.s.role /\ r.conn = w.s.conn /\ r.live = w.s.live
         /\ r.stopped = w.s.stopped /\ r.reconnecting = w.s.reconnecting
         /\ r.q = p /\ r.inflight = w.s.inflight /\ r.fault = w.s.fault
    BY <1>1, <1>6 DEF SessionRecords
  <1> HIDE DEF r, t
  <1>11. /\ t \in Worlds /\ t.s = r /\ t.arena = c /\ t.open = w.open /\ t.ops = w.ops
    BY <1>1, <1>6, <1>8, <1>9, <1>10 DEF Worlds
  <1>12. Same(w, t, {m})  BY <1>4, <1>7, <1>10, <1>11 DEF Same, Sane
  <1>13. /\ Same(w, t, {m}) /\ t.s.q # <<>> /\ t.s.inflight = w.s.inflight
         /\ t.ops = w.ops /\ t.s.fault = w.s.fault
    BY <1>5, <1>10, <1>11, <1>12
  <1> QED  BY <1>13 DEF t

\* What is the same up to less is the same up to more.
LEMMA SameMore ==
    ASSUME NEW w, NEW t, NEW M, Same(w, t, {})
    PROVE  Same(w, t, M)
  BY DEF Same

LEMMA SendMessageIs ==
    ASSUME NEW w, Sane(w), NEW m \in Nat \ w.arena.heap
    PROVE  LET t == send_message_(w, m)
           IN  /\ Same(w, t, {m})
               /\ w.s.stopped => t = w
               /\ ~ w.s.stopped => t.s.q # <<>>
               /\ ~ w.s.stopped /\ w.s.inflight =>
                    t.s.inflight /\ t.ops = w.ops /\ t.s.fault = w.s.fault
               /\ ~ w.s.stopped /\ ~ w.s.inflight /\ w.s.conn # 0 =>
                    t.s.inflight /\ Grown(w, t, "write") /\ t.s.fault = w.s.fault
  <1> DEFINE u == Queued(w, m)
             v == [u EXCEPT !.s.inflight = TRUE]
             d == do_write(v)
             t == send_message_(w, m)
  <1>1. t = IF w.s.stopped THEN w ELSE IF u.s.inflight THEN u ELSE d
    BY DEF send_message_, send_bytes_
  <1>2. /\ Same(w, u, {m}) /\ u.s.q # <<>> /\ u.s.inflight = w.s.inflight
        /\ u.ops = w.ops /\ u.s.fault = w.s.fault
    BY QueuedIs
  <1> HIDE DEF u
  <1>3. Sane(u)  BY <1>2 DEF Same
  <1>4. /\ Same(u, v, {}) /\ v.s.q = u.s.q /\ v.s.inflight = TRUE
        /\ v.ops = u.ops /\ v.s.fault = u.s.fault
    BY <1>3, FlagIs
  <1> HIDE DEF v
  <1>5. Sane(v)  BY <1>4 DEF Same
  <1>6. /\ Same(v, d, {}) /\ d.s.q = v.s.q
        /\ ~ v.s.stopped /\ v.s.conn # 0 => d.s = v.s /\ Grown(v, d, "write")
    BY <1>2, <1>4, <1>5, DoWriteIs
  <1> HIDE DEF d, t
  <1>7. Same(w, d, {m})
    <2>1. Same(u, v, {m}) /\ Same(v, d, {m})  BY <1>4, <1>6, SameMore
    <2> QED  BY <1>2, <2>1, SameTrans
  <1>8. Same(w, w, {m})  BY SameRefl
  <1>9. v.s.stopped = w.s.stopped /\ v.s.conn = w.s.conn  BY <1>2, <1>4 DEF Same
  <1>10. Grown(v, d, "write") => Grown(w, d, "write")  BY <1>2, <1>4, <1>9 DEF Grown
  <1>11. /\ Same(w, t, {m})
         /\ w.s.stopped => t = w
         /\ ~ w.s.stopped => t.s.q # <<>>
         /\ ~ w.s.stopped /\ w.s.inflight =>
              t.s.inflight /\ t.ops = w.ops /\ t.s.fault = w.s.fault
         /\ ~ w.s.stopped /\ ~ w.s.inflight /\ w.s.conn # 0 =>
              t.s.inflight /\ Grown(w, t, "write") /\ t.s.fault = w.s.fault
    BY <1>1, <1>2, <1>4, <1>6, <1>7, <1>8, <1>9, <1>10
  <1> QED  BY <1>11 DEF t

\* The connection is closed.
LEMMA CloseIs ==
    ASSUME NEW w, Sane(w)
    PROVE  LET t == close(w)
           IN  /\ Sane(t) /\ t.s = w.s /\ t.arena = w.arena /\ t.ops \subseteq w.ops
               /\ t.open = w.open \ {w.s.conn}
  <1> DEFINE O == {o \in w.ops : o.conn # w.s.conn \/ o.result # "none"}
             t == close(w)
  <1>1. w \in Worlds /\ Holds(w.arena, w.s.q)  BY DEF Sane
  <1>2. IsFiniteSet(w.ops) /\ w.ops \in SUBSET OpRecords /\ w.open \in SUBSET Nat
    BY <1>1, WorldFields
  <1>3. O \subseteq w.ops /\ O \in OpSets
    <2>1. O \subseteq w.ops  OBVIOUS
    <2>2. IsFiniteSet(O)  BY <1>2, <2>1, FS_Subset
    <2> QED  BY <1>2, <2>1, <2>2 DEF OpSets
  <1>4. t = [w EXCEPT !.open = w.open \ {w.s.conn}, !.ops = O]  BY <1>1 DEF close, Worlds
  <1> HIDE DEF O, t
  <1>5. /\ t \in Worlds /\ t.s = w.s /\ t.arena = w.arena /\ t.ops = O
        /\ t.open = w.open \ {w.s.conn}
    BY <1>1, <1>2, <1>3, <1>4 DEF Worlds
  <1>6. /\ Sane(t) /\ t.s = w.s /\ t.arena = w.arena /\ t.ops \subseteq w.ops
        /\ t.open = w.open \ {w.s.conn}
    BY <1>1, <1>3, <1>5 DEF Sane
  <1> QED  BY <1>6 DEF t

\* The session and the operations are replaced, the queue is not.
Put(w, r, O) == [w EXCEPT !.s = r, !.ops = O]

LEMMA PutIs ==
    ASSUME NEW w, Sane(w), NEW r \in SessionRecords, r.q = w.s.q, NEW O \in OpSets
    PROVE  LET t == Put(w, r, O)
           IN  /\ Sane(t) /\ t.s = r /\ t.ops = O /\ t.arena = w.arena /\ t.open = w.open
               /\ t.sent = w.sent
  <1> DEFINE t == Put(w, r, O)
  <1>1. w \in Worlds /\ Holds(w.arena, w.s.q)  BY DEF Sane
  <1>2. /\ t \in Worlds /\ t.s = r /\ t.ops = O /\ t.arena = w.arena /\ t.open = w.open
        /\ t.sent = w.sent
    BY <1>1 DEF Worlds, Put
  <1> HIDE DEF t
  <1>3. /\ Sane(t) /\ t.s = r /\ t.ops = O /\ t.arena = w.arena /\ t.open = w.open
        /\ t.sent = w.sent
    BY <1>1, <1>2 DEF Sane
  <1> QED  BY <1>3 DEF t

\* The queue is cleared.
LEMMA ClearedIs ==
    ASSUME NEW w, Sane(w)
    PROVE  LET t == Cleared(w)
           IN  /\ Sane(t) /\ t.s.q = <<>> /\ t.arena.heap = {}
               /\ t.s.role = w.s.role /\ t.s.conn = w.s.conn /\ t.s.live = w.s.live
               /\ t.s.stopped = w.s.stopped /\ t.s.reconnecting = w.s.reconnecting
               /\ t.s.inflight = w.s.inflight /\ t.s.fault = w.s.fault
               /\ t.ops = w.ops /\ t.open = w.open /\ t.sent = w.sent
  <1> DEFINE c == release_all(w.arena, [i \in DOMAIN w.s.q |-> w.s.q[i].handle])
             r == [w.s EXCEPT !.q = <<>>]
             t == Cleared(w)
  <1>1. w \in Worlds /\ w.s \in SessionRecords /\ Holds(w.arena, w.s.q)
    BY WorldFields DEF Sane
  <1>2. Holds(c, <<>>)  BY <1>1, ClearHolds
  <1>3. t = [w EXCEPT !.arena = c, !.s = r]  BY <1>1 DEF Cleared, Worlds
  <1> HIDE DEF c, t
  <1>4. c \in ArenaRecords /\ c.heap \subseteq Nat  BY <1>2 DEF Holds, ArenaRecords
  <1>5. c.heap = {}
    <2>1. \A m \in Nat : m \in c.heap <=> \E i \in 1..Len(<<>>) : OnHeap(<<>>, i, m)
      BY <1>2 DEF Holds
    <2>2. \A i \in 1..Len(<<>>) : FALSE  OBVIOUS
    <2> QED  BY <1>4, <2>1, <2>2
  <1>6. /\ r \in SessionRecords /\ r.role = w.s.role /\ r.conn = w.s.conn /\ r.live = w.s.live
        /\ r.stopped = w.s.stopped /\ r.reconnecting = w.s.reconnecting
        /\ r.q = <<>> /\ r.inflight = w.s.inflight /\ r.fault = w.s.fault
    <2>1. <<>> \in Seq(Items)  OBVIOUS
    <2> QED  BY <1>1, <2>1 DEF SessionRecords
  <1> HIDE DEF r
  <1>7. /\ t \in Worlds /\ t.s = r /\ t.arena = c /\ t.ops = w.ops /\ t.open = w.open
        /\ t.sent = w.sent
    BY <1>1, <1>3, <1>4, <1>6 DEF Worlds
  <1>8. /\ Sane(t) /\ t.s.q = <<>> /\ t.arena.heap = {}
        /\ t.s.role = w.s.role /\ t.s.conn = w.s.conn /\ t.s.live = w.s.live
        /\ t.s.stopped = w.s.stopped /\ t.s.reconnecting = w.s.reconnecting
        /\ t.s.inflight = w.s.inflight /\ t.s.fault = w.s.fault
        /\ t.ops = w.ops /\ t.open = w.open /\ t.sent = w.sent
    BY <1>2, <1>5, <1>6, <1>7 DEF Sane
  <1> QED  BY <1>8 DEF t

LEMMA StopIs ==
    ASSUME NEW w, Sane(w)
    PROVE  LET t == stop_(w)
           IN  /\ Sane(t)
               /\ w.s.stopped => t = w
               /\ ~ w.s.stopped =>
                    /\ t.s.stopped /\ ~ t.s.live /\ t.s.q = <<>> /\ ~ t.s.inflight
                    /\ t.arena.heap = {} /\ t.ops = {} /\ t.s.conn = w.s.conn
                    /\ t.s.reconnecting = w.s.reconnecting /\ t.s.fault = w.s.fault
                    /\ t.open = IF w.s.conn = 0 THEN w.open ELSE w.open \ {w.s.conn}
  <1> DEFINE u == IF w.s.conn = 0 THEN w ELSE close(w)
             c == Cleared(u)
             r == [c.s EXCEPT !.live = FALSE, !.stopped = TRUE, !.inflight = FALSE]
             d == Put(c, r, {})
             t == stop_(w)
  <1>1. /\ Sane(u) /\ u.s = w.s
        /\ u.open = IF w.s.conn = 0 THEN w.open ELSE w.open \ {w.s.conn}
    BY CloseIs
  <1> HIDE DEF u
  <1>2. /\ Sane(c) /\ c.s.q = <<>> /\ c.arena.heap = {} /\ c.s.conn = u.s.conn
        /\ c.s.reconnecting = u.s.reconnecting /\ c.s.fault = u.s.fault /\ c.open = u.open
    BY <1>1, ClearedIs
  <1>3. t = IF w.s.stopped THEN w ELSE d
    <2> HIDE DEF c
    <2>1. c \in Worlds  BY <1>2 DEF Sane
    <2>2. [c EXCEPT !.s.live = FALSE, !.s.stopped = TRUE, !.s.inflight = FALSE, !.ops = {}] = d
      BY <2>1 DEF Worlds, SessionRecords, Put
    <2> HIDE DEF d
    <2> QED  BY <2>2 DEF stop_, c, u
  <1> HIDE DEF c
  <1>4. c.s \in SessionRecords  BY <1>2, WorldFields DEF Sane
  <1>5. /\ r \in SessionRecords /\ r.q = c.s.q /\ r.conn = c.s.conn /\ ~ r.live /\ r.stopped
        /\ r.reconnecting = c.s.reconnecting /\ ~ r.inflight /\ r.fault = c.s.fault
    BY <1>4 DEF SessionRecords
  <1> HIDE DEF r
  <1>6. {} \in OpSets  BY FS_EmptySet DEF OpSets
  <1>7. Sane(d) /\ d.s = r /\ d.ops = {} /\ d.arena = c.arena /\ d.open = c.open
    BY <1>2, <1>5, <1>6, PutIs
  <1> HIDE DEF d, t
  <1>8. /\ Sane(t)
        /\ w.s.stopped => t = w
        /\ ~ w.s.stopped =>
             /\ t.s.stopped /\ ~ t.s.live /\ t.s.q = <<>> /\ ~ t.s.inflight
             /\ t.arena.heap = {} /\ t.ops = {} /\ t.s.conn = w.s.conn
             /\ t.s.reconnecting = w.s.reconnecting /\ t.s.fault = w.s.fault
             /\ t.open = IF w.s.conn = 0 THEN w.open ELSE w.open \ {w.s.conn}
    BY <1>1, <1>2, <1>3, <1>5, <1>7
  <1> QED  BY <1>8 DEF t

LEMMA DownIs ==
    ASSUME NEW w, Sane(w)
    PROVE  LET t == on_transport_down_(w)
           IN  /\ Sane(t)
               /\ ~ w.s.live \/ w.s.stopped \/ w.s.reconnecting => t = w
               /\ w.s.live /\ ~ w.s.stopped /\ ~ w.s.reconnecting =>
                    /\ ~ t.s.stopped /\ ~ t.s.live /\ t.s.q = <<>> /\ ~ t.s.inflight
                    /\ t.arena.heap = {} /\ t.ops \subseteq w.ops /\ t.s.conn = 0
                    /\ t.s.reconnecting /\ t.s.fault = w.s.fault
                    /\ t.open = w.open \ {w.s.conn}
  <1> DEFINE u == close(w)
             c == Cleared(u)
             r == [c.s EXCEPT !.reconnecting = TRUE, !.conn = 0, !.live = FALSE, !.inflight = FALSE]
             d == Put(c, r, c.ops)
             t == on_transport_down_(w)
  <1>1. Sane(u) /\ u.s = w.s /\ u.open = w.open \ {w.s.conn} /\ u.ops \subseteq w.ops
    BY CloseIs
  <1> HIDE DEF u
  <1>2. /\ Sane(c) /\ c.s.q = <<>> /\ c.arena.heap = {} /\ c.s.stopped = u.s.stopped
        /\ c.s.fault = u.s.fault /\ c.open = u.open /\ c.ops = u.ops
    BY <1>1, ClearedIs
  <1>3. t = IF ~ w.s.live \/ w.s.stopped \/ w.s.reconnecting THEN w ELSE d
    <2> HIDE DEF c
    <2>1. c \in Worlds  BY <1>2 DEF Sane
    <2>2. [c EXCEPT !.s.reconnecting = TRUE, !.s.conn = 0, !.s.live = FALSE, !.s.inflight = FALSE]
            = d
      BY <2>1 DEF Worlds, SessionRecords, Put
    <2> HIDE DEF d
    <2> QED  BY <2>2 DEF on_transport_down_, c, u
  <1> HIDE DEF c
  <1>4. c.s \in SessionRecords /\ c.ops \in OpSets  BY <1>2, WorldFields DEF Sane
  <1>5. /\ r \in SessionRecords /\ r.q = c.s.q /\ r.conn = 0 /\ ~ r.live /\ r.stopped = c.s.stopped
        /\ r.reconnecting /\ ~ r.inflight /\ r.fault = c.s.fault
    BY <1>4 DEF SessionRecords
  <1> HIDE DEF r
  <1>6. Sane(d) /\ d.s = r /\ d.ops = c.ops /\ d.arena = c.arena /\ d.open = c.open
    BY <1>2, <1>4, <1>5, PutIs
  <1> HIDE DEF d, t
  <1>7. /\ Sane(t)
        /\ ~ w.s.live \/ w.s.stopped \/ w.s.reconnecting => t = w
        /\ w.s.live /\ ~ w.s.stopped /\ ~ w.s.reconnecting =>
             /\ ~ t.s.stopped /\ ~ t.s.live /\ t.s.q = <<>> /\ ~ t.s.inflight
             /\ t.arena.heap = {} /\ t.ops \subseteq w.ops /\ t.s.conn = 0
             /\ t.s.reconnecting /\ t.s.fault = w.s.fault
             /\ t.open = w.open \ {w.s.conn}
    BY <1>1, <1>2, <1>3, <1>5, <1>6
  <1> QED  BY <1>7 DEF t

\* No operation of kind k on connection c is in O, and one is.
NoneOf(O, c, k) == \A o \in O : o.conn = c => o.kind # k

OneOf(O, c, k) ==
    \E o \in O : /\ o.conn = c /\ o.kind = k
                 /\ \A p \in O : p.conn = c /\ p.kind = k => p = o

\* A write is under way exactly if something is queued.
WritesFit(w) ==
    IF w.s.q = <<>> THEN ~ w.s.inflight /\ NoneOf(w.ops, w.s.conn, "write")
    ELSE w.s.inflight /\ OneOf(w.ops, w.s.conn, "write")

\* What is new is on conn_.
Within(w, t) == \A o \in t.ops : o \in w.ops \/ o.conn = w.s.conn

LEMMA GrownBy ==
    ASSUME NEW w, NEW t, NEW k \in {"read", "write"}, Grown(w, t, k)
    PROVE  /\ Within(w, t)
           /\ NoneOf(w.ops, w.s.conn, k) => OneOf(t.ops, w.s.conn, k)
           /\ \A j \in {"read", "write"} \ {k} :
                 /\ NoneOf(w.ops, w.s.conn, j) => NoneOf(t.ops, w.s.conn, j)
                 /\ OneOf(w.ops, w.s.conn, j) => OneOf(t.ops, w.s.conn, j)
  <1>1. PICK o \in OpRecords : o.kind = k /\ o.conn = w.s.conn /\ t.ops = w.ops \cup {o}
    BY DEF Grown
  <1>2. Within(w, t)  BY <1>1 DEF Within
  <1>3. NoneOf(w.ops, w.s.conn, k) => OneOf(t.ops, w.s.conn, k)
    <2> SUFFICES ASSUME NoneOf(w.ops, w.s.conn, k) PROVE OneOf(t.ops, w.s.conn, k)  OBVIOUS
    <2>1. o \in t.ops /\ \A p \in t.ops : p.conn = w.s.conn /\ p.kind = k => p = o
      BY <1>1 DEF NoneOf
    <2> QED  BY <1>1, <2>1 DEF OneOf
  <1>4. ASSUME NEW j \in {"read", "write"} \ {k}
        PROVE  /\ NoneOf(w.ops, w.s.conn, j) => NoneOf(t.ops, w.s.conn, j)
               /\ OneOf(w.ops, w.s.conn, j) => OneOf(t.ops, w.s.conn, j)
    <2>1. NoneOf(w.ops, w.s.conn, j) => NoneOf(t.ops, w.s.conn, j)  BY <1>1, <1>4 DEF NoneOf
    <2>2. ASSUME OneOf(w.ops, w.s.conn, j) PROVE OneOf(t.ops, w.s.conn, j)
      <3>1. PICK x \in w.ops : /\ x.conn = w.s.conn /\ x.kind = j
                               /\ \A p \in w.ops : p.conn = w.s.conn /\ p.kind = j => p = x
        BY <2>2 DEF OneOf
      <3>2. x \in t.ops /\ \A p \in t.ops : p.conn = w.s.conn /\ p.kind = j => p = x
        BY <1>1, <1>4, <3>1
      <3> QED  BY <3>1, <3>2 DEF OneOf
    <2> QED  BY <2>1, <2>2
  <1> QED  BY <1>2, <1>3, <1>4

\* do_read where no read is under way.
LEMMA ReadBegins ==
    ASSUME NEW w, Sane(w), ~ w.s.stopped, w.s.conn # 0,
           NoneOf(w.ops, w.s.conn, "read"), WritesFit(w)
    PROVE  LET t == do_read(w)
           IN  /\ t.s = w.s /\ WritesFit(t) /\ OneOf(t.ops, w.s.conn, "read") /\ Within(w, t)
  <1> DEFINE t == do_read(w)
  <1>1. t.s = w.s /\ Grown(w, t, "read")  BY DoReadIs
  <1> HIDE DEF t
  <1>2. /\ Within(w, t) /\ OneOf(t.ops, w.s.conn, "read")
        /\ NoneOf(w.ops, w.s.conn, "write") => NoneOf(t.ops, w.s.conn, "write")
        /\ OneOf(w.ops, w.s.conn, "write") => OneOf(t.ops, w.s.conn, "write")
    BY <1>1, GrownBy
  <1>3. WritesFit(t)  BY <1>1, <1>2 DEF WritesFit
  <1> QED  BY <1>1, <1>2, <1>3 DEF t

\* A message is sent; at most one write is under way.
LEMMA SendFits ==
    ASSUME NEW w, Sane(w), ~ w.s.stopped, w.s.conn # 0, WritesFit(w),
           NEW m \in Nat \ w.arena.heap
    PROVE  LET t == send_message_(w, m)
           IN  /\ WritesFit(t) /\ Within(w, t) /\ t.s.fault = w.s.fault
               /\ NoneOf(w.ops, w.s.conn, "read") => NoneOf(t.ops, w.s.conn, "read")
               /\ OneOf(w.ops, w.s.conn, "read") => OneOf(t.ops, w.s.conn, "read")
  <1> DEFINE t == send_message_(w, m)
  <1>1. /\ Same(w, t, {m}) /\ t.s.q # <<>>
        /\ w.s.inflight => t.s.inflight /\ t.ops = w.ops /\ t.s.fault = w.s.fault
        /\ ~ w.s.inflight => t.s.inflight /\ Grown(w, t, "write") /\ t.s.fault = w.s.fault
    BY SendMessageIs
  <1> HIDE DEF t
  <1>2. t.s.conn = w.s.conn /\ w.s.inflight \in BOOLEAN  BY <1>1, WorldFields DEF Same, Sane
  <1>3. CASE w.s.inflight
    <2>1. w.s.q # <<>> /\ OneOf(w.ops, w.s.conn, "write")  BY <1>3 DEF WritesFit
    <2>2. WritesFit(t) /\ Within(w, t)  BY <1>1, <1>2, <1>3, <2>1 DEF WritesFit, Within
    <2> QED  BY <1>1, <1>3, <2>2 DEF t
  <1>4. CASE ~ w.s.inflight
    <2>1. NoneOf(w.ops, w.s.conn, "write")  BY <1>4 DEF WritesFit
    <2>2. /\ Within(w, t) /\ OneOf(t.ops, w.s.conn, "write")
          /\ NoneOf(w.ops, w.s.conn, "read") => NoneOf(t.ops, w.s.conn, "read")
          /\ OneOf(w.ops, w.s.conn, "read") => OneOf(t.ops, w.s.conn, "read")
      BY <1>1, <1>4, <2>1, GrownBy
    <2>3. WritesFit(t)  BY <1>1, <1>2, <1>4, <2>2 DEF WritesFit
    <2> QED  BY <1>1, <1>4, <2>2, <2>3 DEF t
  <1> QED  BY <1>2, <1>3, <1>4

\* do_write where no write is under way.
LEMMA WriteBegins ==
    ASSUME NEW w, Sane(w), ~ w.s.stopped, w.s.conn # 0, w.s.inflight,
           NoneOf(w.ops, w.s.conn, "write")
    PROVE  LET t == do_write(w)
           IN  /\ WritesFit(t) /\ Within(w, t) /\ t.s.fault = w.s.fault
               /\ OneOf(w.ops, w.s.conn, "read") => OneOf(t.ops, w.s.conn, "read")
  <1> DEFINE t == do_write(w)
  <1>1. /\ Same(w, t, {}) /\ t.s.q = w.s.q
        /\ w.s.q = <<>> => ~ t.s.inflight /\ t.ops = w.ops /\ t.s.fault = w.s.fault
        /\ w.s.q # <<>> => t.s = w.s /\ Grown(w, t, "write")
    BY DoWriteIs
  <1> HIDE DEF t
  <1>2. t.s.conn = w.s.conn  BY <1>1 DEF Same
  <1>3. CASE w.s.q = <<>>
    <2>1. WritesFit(t) /\ Within(w, t)  BY <1>1, <1>2, <1>3 DEF WritesFit, Within
    <2> QED  BY <1>1, <1>3, <2>1 DEF t
  <1>4. CASE w.s.q # <<>>
    <2>1. /\ Within(w, t) /\ OneOf(t.ops, w.s.conn, "write")
          /\ OneOf(w.ops, w.s.conn, "read") => OneOf(t.ops, w.s.conn, "read")
      BY <1>1, <1>4, GrownBy
    <2>2. WritesFit(t)  BY <1>1, <1>2, <1>4, <2>1 DEF WritesFit
    <2> QED  BY <1>1, <1>4, <2>1, <2>2 DEF t
  <1> QED  BY <1>3, <1>4

\* The front of the queue after a write.
LEMMA WrittenIs ==
    ASSUME NEW w, Sane(w), NEW n \in Nat
    PROVE  LET t == Written(w, n)
           IN  /\ Same(w, t, {}) /\ t.ops = w.ops /\ t.s.inflight = w.s.inflight
               /\ w.s.q # <<>> => t.s.fault = w.s.fault
  <1> DEFINE q == w.s.q
             t == Written(w, n)
  <1>1. /\ w \in Worlds /\ w.s \in SessionRecords /\ w.arena \in ArenaRecords
        /\ Holds(w.arena, q) /\ q \in Seq(Items)
    BY WorldFields DEF Sane
  <1>2. CASE q = <<>>
    <2>1. t = Fault(w, "no_front")  BY <1>2 DEF Written
    <2> HIDE DEF t
    <2>2. /\ t \in Worlds /\ t.s.role = w.s.role /\ t.s.conn = w.s.conn /\ t.s.live = w.s.live
          /\ t.s.stopped = w.s.stopped /\ t.s.reconnecting = w.s.reconnecting
          /\ t.s.q = w.s.q /\ t.s.inflight = w.s.inflight
          /\ t.open = w.open /\ t.arena = w.arena /\ t.ops = w.ops
      BY <1>1, <2>1, FaultIs
    <2>3. Same(w, t, {})  BY <1>1, <2>2 DEF Same, Sane
    <2> QED  BY <1>2, <2>2, <2>3 DEF t
  <1>3. ASSUME NEW c, NEW p, Holds(c, p), c.heap \subseteq w.arena.heap,
               t = [w EXCEPT !.arena = c, !.s = [w.s EXCEPT !.q = p]]
        PROVE  /\ Same(w, t, {}) /\ t.ops = w.ops /\ t.s.inflight = w.s.inflight
               /\ t.s.fault = w.s.fault
    <2> DEFINE r == [w.s EXCEPT !.q = p]
    <2>1. c \in ArenaRecords /\ p \in Seq(Items)  BY <1>3 DEF Holds
    <2>2. /\ r \in SessionRecords /\ r.role = w.s.role /\ r.conn = w.s.conn /\ r.live = w.s.live
          /\ r.stopped = w.s.stopped /\ r.reconnecting = w.s.reconnecting
          /\ r.q = p /\ r.inflight = w.s.inflight /\ r.fault = w.s.fault
      BY <1>1, <2>1 DEF SessionRecords
    <2>3. t = [w EXCEPT !.arena = c, !.s = r]  BY <1>3
    <2> HIDE DEF r, t
    <2>4. t \in Worlds /\ t.s = r /\ t.arena = c /\ t.ops = w.ops /\ t.open = w.open
      BY <1>1, <2>1, <2>2, <2>3 DEF Worlds
    <2> QED  BY <1>3, <2>2, <2>4 DEF Same, Sane
  <1>4. CASE q # <<>> /\ Head(q).sent + n >= Size
    <2> DEFINE c == release(w.arena, Head(q).handle)
    <2>1. Holds(c, Tail(q))  BY <1>1, <1>4, ReleaseHolds
    <2>2. c.heap \subseteq w.arena.heap  BY <1>1 DEF release, ArenaRecords
    <2>3. t = [w EXCEPT !.arena = c, !.s = [w.s EXCEPT !.q = Tail(q)]]
      BY <1>1, <1>4 DEF Written, Worlds
    <2> HIDE DEF c, t
    <2>4. /\ Same(w, t, {}) /\ t.ops = w.ops /\ t.s.inflight = w.s.inflight
          /\ t.s.fault = w.s.fault
      BY <1>3, <2>1, <2>2, <2>3
    <2> QED  BY <2>4 DEF t
  <1>5. CASE q # <<>> /\ ~ (Head(q).sent + n >= Size)
    <2> DEFINE p == [q EXCEPT ![1].sent = @ + n]
    <2>1. Holds(w.arena, p)  BY <1>1, <1>5, PartHolds
    <2>2. t = [w EXCEPT !.s = [w.s EXCEPT !.q = p]]
      BY <1>5 DEF Written
    <2> HIDE DEF p, t
    <2>3. t = [w EXCEPT !.arena = w.arena, !.s = [w.s EXCEPT !.q = p]]
      BY <1>1, <2>2 DEF Worlds
    <2>4. /\ Same(w, t, {}) /\ t.ops = w.ops /\ t.s.inflight = w.s.inflight
          /\ t.s.fault = w.s.fault
      BY <1>3, <2>1, <2>3
    <2> QED  BY <2>4 DEF t
  <1> QED  BY <1>2, <1>4, <1>5

\* A session with start_ behind it is live.
LEMMA LiveIs ==
    ASSUME NEW w, Sane(w)
    PROVE  LET t == [w EXCEPT !.s.live = TRUE]
           IN  /\ Sane(t) /\ t.s.role = w.s.role /\ t.s.conn = w.s.conn /\ t.s.live
               /\ t.s.stopped = w.s.stopped /\ t.s.reconnecting = w.s.reconnecting
               /\ t.s.q = w.s.q /\ t.s.inflight = w.s.inflight /\ t.s.fault = w.s.fault
               /\ t.ops = w.ops /\ t.arena = w.arena /\ t.open = w.open
  <1> DEFINE r == [w.s EXCEPT !.live = TRUE]
             d == Put(w, r, w.ops)
  <1>1. w \in Worlds /\ w.s \in SessionRecords /\ w.ops \in OpSets  BY WorldFields DEF Sane
  <1>2. [w EXCEPT !.s.live = TRUE] = d  BY <1>1 DEF Worlds, Put
  <1>3. /\ r \in SessionRecords /\ r.role = w.s.role /\ r.conn = w.s.conn /\ r.live
        /\ r.stopped = w.s.stopped /\ r.reconnecting = w.s.reconnecting
        /\ r.q = w.s.q /\ r.inflight = w.s.inflight /\ r.fault = w.s.fault
    BY <1>1 DEF SessionRecords
  <1> HIDE DEF r
  <1>4. Sane(d) /\ d.s = r /\ d.ops = w.ops /\ d.arena = w.arena /\ d.open = w.open
    BY <1>1, <1>3, PutIs
  <1> HIDE DEF d
  <1> QED  BY <1>2, <1>3, <1>4

\* The Logon of an initiator.
LEMMA LogonIs ==
    ASSUME NEW w, Sane(w), NEW m \in Nat \ w.arena.heap
    PROVE  LET t == send_logon(w, m)
           IN  /\ Same(w, t, {m})
               /\ w.s.stopped => t = w
               /\ ~ w.s.stopped /\ w.s.conn # 0 /\ WritesFit(w) =>
                    /\ WritesFit(t) /\ Within(w, t) /\ t.s.fault = w.s.fault
                    /\ NoneOf(w.ops, w.s.conn, "read") => NoneOf(t.ops, w.s.conn, "read")
                    /\ OneOf(w.ops, w.s.conn, "read") => OneOf(t.ops, w.s.conn, "read")
  <1> DEFINE t == send_logon(w, m)
  <1>1. CASE w.s.role = "INITIATOR"
    <2>1. t = send_message_(w, m)  BY <1>1 DEF send_logon
    <2> HIDE DEF t
    <2>2. Same(w, t, {m}) /\ (w.s.stopped => t = w)  BY <2>1, SendMessageIs
    <2>3. ~ w.s.stopped /\ w.s.conn # 0 /\ WritesFit(w) =>
            /\ WritesFit(t) /\ Within(w, t) /\ t.s.fault = w.s.fault
            /\ NoneOf(w.ops, w.s.conn, "read") => NoneOf(t.ops, w.s.conn, "read")
            /\ OneOf(w.ops, w.s.conn, "read") => OneOf(t.ops, w.s.conn, "read")
      BY <2>1, SendFits
    <2> QED  BY <2>2, <2>3 DEF t
  <1>2. CASE w.s.role # "INITIATOR"
    <2>1. t = w  BY <1>2 DEF send_logon
    <2> HIDE DEF t
    <2>2. Same(w, w, {m})  BY SameRefl
    <2>3. WritesFit(w) => WritesFit(t)  BY <2>1
    <2> QED  BY <2>1, <2>2, <2>3 DEF t, Within
  <1> QED  BY <1>1, <1>2

\* From w to t the session was started, with m for a Logon.
Starts(w, t, m) ==
    /\ Sane(t) /\ t.s.conn = w.s.conn /\ t.s.stopped = w.s.stopped /\ t.open = w.open
    /\ t.arena.heap \subseteq w.arena.heap \cup {m}
    /\ w.s.stopped => t.ops = w.ops /\ t.s.q = w.s.q /\ t.s.inflight = w.s.inflight
                      /\ t.s.fault = w.s.fault
    /\ /\ ~ w.s.stopped /\ w.s.conn # 0 /\ w.s.q = <<>> /\ ~ w.s.inflight
       /\ \A o \in w.ops : o.conn # w.s.conn
       => /\ t.s.live /\ t.s.fault = w.s.fault
          /\ WritesFit(t) /\ OneOf(t.ops, w.s.conn, "read") /\ Within(w, t)

LEMMA StartNormalIs ==
    ASSUME NEW w, Sane(w), NEW m \in Nat \ w.arena.heap
    PROVE  LET t == start_normal_(w, m)
           IN  Starts(w, t, m) /\ t.s.reconnecting = w.s.reconnecting
  <1> DEFINE u == do_read(w)
             v == send_logon(u, m)
             d == [v EXCEPT !.s.live = TRUE]
             t == start_normal_(w, m)
  <1>1. t = IF w.s.conn = 0 THEN w ELSE d  BY DEF start_normal_
  <1>2. CASE w.s.conn = 0
    <2>1. t = w  BY <1>1, <1>2
    <2> HIDE DEF t
    <2>2. Starts(w, t, m) /\ t.s.reconnecting = w.s.reconnecting  BY <1>2, <2>1 DEF Starts
    <2> QED  BY <2>2 DEF t
  <1>3. CASE w.s.conn # 0
    <2>1. /\ Same(w, u, {}) /\ u.s.q = w.s.q /\ u.s.inflight = w.s.inflight
          /\ u.arena = w.arena /\ (w.s.stopped => u = w)
      BY DoReadIs
    <2>2. ASSUME ~ w.s.stopped, NoneOf(w.ops, w.s.conn, "read"), WritesFit(w)
          PROVE  u.s = w.s /\ WritesFit(u) /\ OneOf(u.ops, w.s.conn, "read") /\ Within(w, u)
      BY <1>3, <2>2, ReadBegins
    <2> HIDE DEF u
    <2>3. Sane(u) /\ m \in Nat \ u.arena.heap  BY <2>1 DEF Same
    <2>4. /\ Same(u, v, {m}) /\ (u.s.stopped => v = u)
          /\ ~ u.s.stopped /\ u.s.conn # 0 /\ WritesFit(u) =>
               /\ WritesFit(v) /\ Within(u, v) /\ v.s.fault = u.s.fault
               /\ OneOf(u.ops, u.s.conn, "read") => OneOf(v.ops, u.s.conn, "read")
      BY <2>3, LogonIs
    <2> HIDE DEF v
    <2>5. Sane(v)  BY <2>4 DEF Same
    <2>6. /\ Sane(d) /\ d.s.role = v.s.role /\ d.s.conn = v.s.conn /\ d.s.live
          /\ d.s.stopped = v.s.stopped /\ d.s.reconnecting = v.s.reconnecting
          /\ d.s.q = v.s.q /\ d.s.inflight = v.s.inflight /\ d.s.fault = v.s.fault
          /\ d.ops = v.ops /\ d.arena = v.arena /\ d.open = v.open
      BY <2>5, LiveIs
    <2>7. t = d  BY <1>1, <1>3
    <2> HIDE DEF d, t
    <2>8. /\ Sane(t) /\ t.s.conn = w.s.conn /\ t.s.stopped = w.s.stopped /\ t.open = w.open
          /\ t.arena.heap \subseteq w.arena.heap \cup {m}
          /\ t.s.reconnecting = w.s.reconnecting
      BY <2>1, <2>4, <2>6, <2>7 DEF Same
    <2>9. w.s.stopped => t.ops = w.ops /\ t.s.q = w.s.q /\ t.s.inflight = w.s.inflight
                         /\ t.s.fault = w.s.fault
      BY <2>1, <2>4, <2>6, <2>7
    <2>10. ASSUME ~ w.s.stopped, w.s.q = <<>>, ~ w.s.inflight, \A o \in w.ops : o.conn # w.s.conn
           PROVE  /\ t.s.live /\ t.s.fault = w.s.fault
                  /\ WritesFit(t) /\ OneOf(t.ops, w.s.conn, "read") /\ Within(w, t)
      <3>1. NoneOf(w.ops, w.s.conn, "read") /\ WritesFit(w)  BY <2>10 DEF NoneOf, WritesFit
      <3>2. u.s = w.s /\ WritesFit(u) /\ OneOf(u.ops, w.s.conn, "read") /\ Within(w, u)
        BY <2>2, <2>10, <3>1
      <3>3. WritesFit(v) /\ Within(u, v) /\ v.s.fault = u.s.fault /\ OneOf(v.ops, w.s.conn, "read")
        BY <1>3, <2>4, <2>10, <3>2
      <3>4. Within(w, t)  BY <2>6, <2>7, <3>2, <3>3 DEF Within
      <3>5. WritesFit(t)  BY <2>6, <2>7, <3>3 DEF WritesFit
      <3> QED  BY <2>6, <2>7, <3>2, <3>3, <3>4, <3>5
    <2>11. Starts(w, t, m) /\ t.s.reconnecting = w.s.reconnecting
      BY <2>8, <2>9, <2>10 DEF Starts
    <2> QED  BY <2>11 DEF t
  <1> QED  BY <1>2, <1>3

LEMMA StartAfterReconnectIs ==
    ASSUME NEW w, Sane(w), NEW m \in Nat \ w.arena.heap
    PROVE  LET t == start_after_reconnect_(w, m)
           IN  Starts(w, t, m) /\ (~ w.s.stopped /\ w.s.conn # 0 => ~ t.s.reconnecting)
               /\ (w.s.stopped \/ w.s.conn = 0 => t = w)
  <1> DEFINE c == Cleared(w)
             r == [c.s EXCEPT !.reconnecting = FALSE, !.inflight = FALSE]
             u == Put(c, r, c.ops)
             v == send_logon(u, m)
             x == [v EXCEPT !.s.live = TRUE]
             d == do_read(x)
             t == start_after_reconnect_(w, m)
  <1>1. /\ Sane(c) /\ c.s.q = <<>> /\ c.arena.heap = {}
        /\ c.s.conn = w.s.conn /\ c.s.stopped = w.s.stopped /\ c.s.fault = w.s.fault
        /\ c.ops = w.ops /\ c.open = w.open
    BY ClearedIs
  <1>2. c.s \in SessionRecords /\ c.ops \in OpSets /\ c \in Worlds  BY <1>1, WorldFields DEF Sane
  <1>3. t = IF w.s.conn = 0 \/ w.s.stopped THEN w ELSE d
    <2> DEFINE e == [Cleared(w) EXCEPT !.s.reconnecting = FALSE, !.s.inflight = FALSE]
    <2>1. e = u
      <3> HIDE DEF c
      <3>1. [c EXCEPT !.s.reconnecting = FALSE, !.s.inflight = FALSE] = u
        BY <1>2 DEF Worlds, SessionRecords, Put
      <3> HIDE DEF u
      <3> QED  BY <3>1 DEF c
    <2>2. start_after_reconnect_(w, m) =
            IF w.s.conn = 0 \/ w.s.stopped THEN w
            ELSE do_read([send_logon(e, m) EXCEPT !.s.live = TRUE])
      BY DEF start_after_reconnect_
    <2> HIDE DEF u, e
    <2> QED  BY <2>1, <2>2
  <1> HIDE DEF c
  <1>4. CASE w.s.conn = 0 \/ w.s.stopped
    <2>1. t = w  BY <1>3, <1>4
    <2> HIDE DEF t
    <2>2. Starts(w, t, m)  BY <1>4, <2>1 DEF Starts
    <2> QED  BY <1>4, <2>1, <2>2 DEF t
  <1>5. CASE w.s.conn # 0 /\ ~ w.s.stopped
    <2>1. /\ r \in SessionRecords /\ r.q = c.s.q /\ r.conn = c.s.conn /\ r.stopped = c.s.stopped
          /\ ~ r.reconnecting /\ ~ r.inflight /\ r.fault = c.s.fault
      BY <1>2 DEF SessionRecords
    <2> HIDE DEF r
    <2>2. Sane(u) /\ u.s = r /\ u.ops = c.ops /\ u.arena = c.arena /\ u.open = c.open
      BY <1>1, <1>2, <2>1, PutIs
    <2> HIDE DEF u
    <2>3. m \in Nat \ u.arena.heap  BY <1>1, <2>2
    <2>4. /\ Same(u, v, {m})
          /\ ~ u.s.stopped /\ u.s.conn # 0 /\ WritesFit(u) =>
               /\ WritesFit(v) /\ Within(u, v) /\ v.s.fault = u.s.fault
               /\ NoneOf(u.ops, u.s.conn, "read") => NoneOf(v.ops, u.s.conn, "read")
      BY <2>2, <2>3, LogonIs
    <2> HIDE DEF v
    <2>5. Sane(v)  BY <2>4 DEF Same
    <2>6. /\ Sane(x) /\ x.s.role = v.s.role /\ x.s.conn = v.s.conn /\ x.s.live
          /\ x.s.stopped = v.s.stopped /\ x.s.reconnecting = v.s.reconnecting
          /\ x.s.q = v.s.q /\ x.s.inflight = v.s.inflight /\ x.s.fault = v.s.fault
          /\ x.ops = v.ops /\ x.arena = v.arena /\ x.open = v.open
      BY <2>5, LiveIs
    <2> HIDE DEF x
    <2>7. /\ Same(x, d, {})
          /\ ~ x.s.stopped /\ x.s.conn # 0 /\ NoneOf(x.ops, x.s.conn, "read") /\ WritesFit(x) =>
               d.s = x.s /\ WritesFit(d) /\ OneOf(d.ops, x.s.conn, "read") /\ Within(x, d)
      BY <2>6, DoReadIs, ReadBegins
    <2>8. t = d  BY <1>3, <1>5
    <2> HIDE DEF d, t
    <2>9. u.s.conn = w.s.conn /\ ~ u.s.stopped /\ u.s.q = <<>> /\ ~ u.s.inflight /\ u.ops = w.ops
          /\ u.s.fault = w.s.fault
      BY <1>1, <1>5, <2>1, <2>2
    <2>10. /\ Sane(t) /\ t.s.conn = w.s.conn /\ t.s.stopped = w.s.stopped /\ t.open = w.open
           /\ t.arena.heap \subseteq w.arena.heap \cup {m} /\ ~ t.s.reconnecting
      BY <1>1, <1>5, <2>1, <2>2, <2>4, <2>6, <2>7, <2>8, <2>9 DEF Same
    <2>11. ASSUME \A o \in w.ops : o.conn # w.s.conn
           PROVE  /\ t.s.live /\ t.s.fault = w.s.fault
                  /\ WritesFit(t) /\ OneOf(t.ops, w.s.conn, "read") /\ Within(w, t)
      <3>1. NoneOf(u.ops, u.s.conn, "read") /\ WritesFit(u)
        BY <2>9, <2>11 DEF NoneOf, WritesFit
      <3>2. /\ WritesFit(v) /\ Within(u, v) /\ v.s.fault = w.s.fault
            /\ NoneOf(v.ops, w.s.conn, "read") /\ v.s.conn = w.s.conn /\ ~ v.s.stopped
        BY <1>5, <2>4, <2>9, <3>1 DEF Same
      <3>3. WritesFit(x)  BY <2>6, <3>2 DEF WritesFit
      <3>4. d.s = x.s /\ WritesFit(d) /\ OneOf(d.ops, w.s.conn, "read") /\ Within(x, d)
        BY <1>5, <2>6, <2>7, <3>2, <3>3
      <3>5. Within(w, t)  BY <2>6, <2>8, <2>9, <3>2, <3>4 DEF Within
      <3> QED  BY <2>6, <2>8, <3>2, <3>4, <3>5
    <2>12. Starts(w, t, m)  BY <1>5, <2>10, <2>11 DEF Starts
    <2> QED  BY <1>5, <2>10, <2>12 DEF t
  <1> QED  BY <1>4, <1>5

-----------------------------------------------------------------------------
(* The inductive invariant, for a record w, connect c, budget b and hist h *)

BudgetRecords == [sends : 0..MaxSends, transient : Nat, large : SUBSET Nat]

ConnectRecords ==
    [stage : {"none", "asked", "offered", "set"}, mode : {"NORMAL", "RECONNECT"}, next : Nat \ {0}]

HistRecords == [stale : BOOLEAN, bare : BOOLEAN, early : BOOLEAN, late : BOOLEAN]

\* A message that is yet to be sent has a number of its own.
Numbered(w, c, b) ==
    \A m \in w.arena.heap : (b.sends < m /\ m <= MaxSends) \/ (MaxSends < m /\ m < MaxSends + c.next)

\* Where conn_ is among the connections, whatever happened before.
Placed(w, c, h) ==
    /\ w.s.live => c.stage = "none"
    /\ IF c.stage = "set" THEN w.s.conn = c.next ELSE w.s.conn < c.next
    /\ 0 \notin w.open
    /\ w.s.reconnecting => c.mode = "RECONNECT"
    /\ w.s.stopped => w.ops = {} /\ w.s.q = <<>> /\ ~ w.s.inflight
    /\ w.s.stopped /\ w.s.conn \in w.open => h.late

\* The code has not lost track of its operations.
Tracked(w, c) ==
    /\ w.s.fault = "none"
    /\ \A o \in w.ops : 0 < o.conn /\ o.conn < c.next
    /\ ~ w.s.stopped /\ w.s.live =>
         /\ w.s.conn # 0 /\ ~ w.s.reconnecting
         /\ OneOf(w.ops, w.s.conn, "read") /\ WritesFit(w)
    /\ ~ w.s.stopped /\ ~ w.s.live =>
         w.s.q = <<>> /\ ~ w.s.inflight /\ (c.stage = "set" \/ w.s.conn = 0)

Clean(h) == ~ h.stale /\ ~ h.bare /\ ~ h.early

Good(w, c, b, h) ==
    /\ Sane(w) /\ c \in ConnectRecords /\ b \in BudgetRecords /\ h \in HistRecords
    /\ Numbered(w, c, b)
    /\ Placed(w, c, h)
    /\ Clean(h) => Tracked(w, c)

\* The inductive invariant of SessionIO.
IOInv == Good(Now, connect, budget, hist)

LEMMA ConnectFields ==
    ASSUME NEW c \in ConnectRecords
    PROVE  /\ c.stage \in {"none", "asked", "offered", "set"} /\ c.mode \in {"NORMAL", "RECONNECT"}
           /\ c.next \in Nat \ {0}
  BY DEF ConnectRecords

LEMMA IOInit ==
    Init => IOInv
  <1> SUFFICES ASSUME Init PROVE IOInv  OBVIOUS
  <1>1. PICK r \in Roles : s = [role |-> r, conn |-> 0, live |-> FALSE, stopped |-> FALSE,
                reconnecting |-> FALSE, q |-> <<>>, inflight |-> FALSE, fault |-> "none"]
    BY DEF Init
  <1>2. /\ arena = NewArena /\ ops = {} /\ open = {}
        /\ connect = [stage |-> "asked", mode |-> "NORMAL", next |-> 1]
        /\ budget \in Budgets /\ sent = [k \in Conns |-> <<>>]
        /\ hist = [stale |-> FALSE, bare |-> FALSE, early |-> FALSE, late |-> FALSE]
    BY DEF Init
  <1>3. /\ Now.s = s /\ Now.arena = arena /\ Now.ops = ops /\ Now.open = open /\ Now.sent = sent
    BY DEF Now
  <1>4. r \in {"INITIATOR", "ACCEPTOR"}  BY <1>1, IOAssumption
  <1>5. s \in SessionRecords
    <2>1. <<>> \in Seq(Items)  OBVIOUS
    <2> QED  BY <1>1, <1>4, <2>1 DEF SessionRecords
  <1>6. /\ s.conn = 0 /\ ~ s.live /\ ~ s.stopped /\ ~ s.reconnecting /\ s.q = <<>> /\ ~ s.inflight
        /\ s.fault = "none"
    BY <1>1
  <1>7. Holds(arena, <<>>) /\ arena \in ArenaRecords  BY <1>2, NewArenaHolds DEF Holds
  <1>8. ops \in OpSets  BY <1>2, FS_EmptySet DEF OpSets
  <1>9. sent \in [Conns -> Seq(Nat)]
    <2>1. <<>> \in Seq(Nat)  OBVIOUS
    <2> QED  BY <1>2, <2>1
  <1>10. Now \in Worlds
    <2>1. open \in SUBSET Nat  BY <1>2
    <2> QED  BY <1>5, <1>7, <1>8, <1>9, <2>1 DEF Now, Worlds
  <1>11. Sane(Now)  BY <1>3, <1>6, <1>7, <1>10 DEF Sane
  <1>12. connect \in ConnectRecords /\ hist \in HistRecords /\ budget \in BudgetRecords
    BY <1>2, IOAssumption DEF ConnectRecords, HistRecords, BudgetRecords
  <1>13. Numbered(Now, connect, budget)
    <2>1. arena.heap = {}  BY <1>2 DEF NewArena
    <2> QED  BY <1>3, <2>1 DEF Numbered
  <1>14. connect.stage = "asked" /\ connect.next = 1  BY <1>2
  <1>15. Placed(Now, connect, hist)  BY <1>2, <1>3, <1>6, <1>14 DEF Placed
  <1>16. Tracked(Now, connect)  BY <1>2, <1>3, <1>6 DEF Tracked
  <1> QED  BY <1>11, <1>12, <1>13, <1>15, <1>16 DEF IOInv, Good

\* A handler's result is the next state.
LEMMA Committed ==
    ASSUME NEW t \in Worlds, Commit(t)
    PROVE  Now' = t
  BY DEF Commit, Now, Worlds

LEMMA NowFields ==
    ASSUME IOInv
    PROVE  /\ Sane(Now) /\ Now \in Worlds /\ connect \in ConnectRecords
           /\ budget \in BudgetRecords /\ hist \in HistRecords
           /\ Now.s = s /\ Now.arena = arena /\ Now.ops = ops /\ Now.open = open /\ Now.sent = sent
  BY DEF IOInv, Good, Sane, Now

LEMMA IOEstablish ==
    ASSUME IOInv, Establish
    PROVE  IOInv'
  <1> DEFINE t == [Now EXCEPT !.open = open \cup {connect.next}]
  <1>1. /\ Sane(Now) /\ Now \in Worlds /\ connect \in ConnectRecords
        /\ Now.s = s /\ Now.arena = arena /\ Now.ops = ops /\ Now.open = open /\ Now.sent = sent
    BY NowFields
  <1>2. connect.next \in Nat \ {0} /\ open \in SUBSET Nat  BY <1>1, ConnectFields, WorldFields
  <1>3. /\ connect' = [connect EXCEPT !.stage = "offered"] /\ connect.stage = "asked"
        /\ open' = open \cup {connect.next}
        /\ UNCHANGED <<s, arena, ops, budget, sent, hist>>
    BY DEF Establish
  <1>4. connect' \in ConnectRecords /\ connect'.stage = "offered"
        /\ connect'.mode = connect.mode /\ connect'.next = connect.next
    BY <1>1, <1>3 DEF ConnectRecords
  <1>5. /\ t \in Worlds /\ t.s = s /\ t.arena = arena /\ t.ops = ops
        /\ t.open = open \cup {connect.next} /\ t.sent = sent
    BY <1>1, <1>2 DEF Worlds
  <1>6. Now' = t  BY <1>3 DEF Now
  <1> HIDE DEF t
  <1>7. Sane(t)  BY <1>1, <1>5 DEF Sane
  <1>8. Numbered(t, connect', budget)  BY <1>1, <1>4, <1>5 DEF IOInv, Good, Numbered
  <1>9. Placed(Now, connect, hist)  BY DEF IOInv, Good
  <1>10. Placed(t, connect', hist)
    <2>1. s.conn < connect.next  BY <1>1, <1>3, <1>9 DEF Placed
    <2>2. s.conn \in Nat /\ s.conn # connect.next  BY <1>1, <1>2, <2>1, WorldFields
    <2> QED  BY <1>1, <1>2, <1>3, <1>4, <1>5, <1>9, <2>1, <2>2 DEF Placed
  <1>11. Clean(hist) => Tracked(t, connect')
    <2>1. Clean(hist) => Tracked(Now, connect)  BY DEF IOInv, Good
    <2> QED  BY <1>1, <1>3, <1>4, <1>5, <2>1 DEF Tracked, WritesFit
  <1>12. Good(t, connect', budget, hist)
    BY <1>4, <1>7, <1>8, <1>10, <1>11 DEF IOInv, Good
  <1> QED  BY <1>3, <1>6, <1>12 DEF IOInv

LEMMA IOSetConnection ==
    ASSUME IOInv, set_connection
    PROVE  IOInv'
  <1> DEFINE r == [s EXCEPT !.conn = connect.next]
             t == [Now EXCEPT !.s = r]
  <1>1. /\ Sane(Now) /\ Now \in Worlds /\ connect \in ConnectRecords /\ hist \in HistRecords
        /\ Now.s = s /\ Now.arena = arena /\ Now.ops = ops /\ Now.open = open /\ Now.sent = sent
    BY NowFields
  <1>2. connect.next \in Nat \ {0} /\ s \in SessionRecords  BY <1>1, ConnectFields, WorldFields
  <1>3. /\ connect' = [connect EXCEPT !.stage = "set"] /\ connect.stage = "offered"
        /\ s' = r /\ hist' = [hist EXCEPT !.late = @ \/ s.stopped]
        /\ UNCHANGED <<arena, ops, open, budget, sent>>
    BY DEF set_connection
  <1>4. connect' \in ConnectRecords /\ connect'.stage = "set"
        /\ connect'.mode = connect.mode /\ connect'.next = connect.next
    BY <1>1, <1>3 DEF ConnectRecords
  <1>5. /\ r \in SessionRecords /\ r.conn = connect.next /\ r.live = s.live /\ r.stopped = s.stopped
        /\ r.reconnecting = s.reconnecting /\ r.q = s.q /\ r.inflight = s.inflight
        /\ r.fault = s.fault
    BY <1>2 DEF SessionRecords
  <1>6. Now' = t  BY <1>3 DEF Now
  <1> HIDE DEF r
  <1>7. /\ t \in Worlds /\ t.s = r /\ t.arena = arena /\ t.ops = ops /\ t.open = open
    BY <1>1, <1>5 DEF Worlds
  <1>8. /\ hist' \in HistRecords /\ (s.stopped => hist'.late) /\ (Clean(hist') => Clean(hist))
    <2>1. s.stopped \in BOOLEAN  BY <1>1, WorldFields
    <2>2. (hist.late \/ s.stopped) \in BOOLEAN  OBVIOUS
    <2>3. /\ hist' \in HistRecords /\ hist'.late = (hist.late \/ s.stopped)
          /\ hist'.stale = hist.stale /\ hist'.bare = hist.bare /\ hist'.early = hist.early
      BY <1>1, <1>3, <2>2 DEF HistRecords
    <2> QED  BY <2>1, <2>3 DEF Clean
  <1> HIDE DEF t
  <1>9. Sane(t)  BY <1>1, <1>5, <1>7 DEF Sane
  <1>10. Numbered(t, connect', budget)  BY <1>1, <1>4, <1>7 DEF IOInv, Good, Numbered
  <1>11. Placed(t, connect', hist')
    <2>1. Placed(Now, connect, hist)  BY DEF IOInv, Good
    <2> QED  BY <1>1, <1>3, <1>4, <1>5, <1>7, <1>8, <2>1 DEF Placed
  <1>12. Clean(hist') => Tracked(t, connect')
    <2>1. Clean(hist) => Tracked(Now, connect)  BY DEF IOInv, Good
    <2>2. s.live => connect.stage = "none"  BY <1>1 DEF IOInv, Good, Placed
    <2> QED  BY <1>1, <1>3, <1>4, <1>5, <1>7, <1>8, <2>1, <2>2 DEF Tracked
  <1>13. Good(t, connect', budget, hist')
    BY <1>4, <1>8, <1>9, <1>10, <1>11, <1>12 DEF IOInv, Good
  <1> QED  BY <1>3, <1>6, <1>13 DEF IOInv

LEMMA IOStart ==
    ASSUME IOInv, start
    PROVE  IOInv'
  <1> DEFINE m == MaxSends + connect.next
             t == IF connect.mode = "NORMAL" THEN start_normal_(Now, m)
                  ELSE start_after_reconnect_(Now, m)
  <1>1. /\ Sane(Now) /\ Now \in Worlds /\ connect \in ConnectRecords
        /\ Now.s = s /\ Now.arena = arena /\ Now.ops = ops /\ Now.open = open
    BY NowFields
  <1>2. /\ connect.next \in Nat \ {0} /\ s \in SessionRecords /\ arena.heap \in SUBSET Nat
        /\ s.conn \in Nat /\ s.stopped \in BOOLEAN /\ s.live \in BOOLEAN /\ s.reconnecting \in BOOLEAN
        /\ ops \in SUBSET OpRecords
    BY <1>1, ConnectFields, WorldFields
  <1>3. /\ connect' = [connect EXCEPT !.stage = "none", !.next = @ + 1] /\ connect.stage = "set"
        /\ Commit(t) /\ UNCHANGED <<wire, budget, hist>>
    BY DEF start
  <1>4. connect' \in ConnectRecords /\ connect'.stage = "none"
        /\ connect'.mode = connect.mode /\ connect'.next = connect.next + 1
    <2>1. connect.next + 1 \in Nat \ {0}  BY <1>2
    <2> QED  BY <1>1, <1>3, <2>1 DEF ConnectRecords
  <1>5. Numbered(Now, connect, budget) /\ Placed(Now, connect, hist)
        /\ (Clean(hist) => Tracked(Now, connect)) /\ budget \in BudgetRecords
    BY DEF IOInv, Good
  <1>6. m \in Nat \ Now.arena.heap
    <2>1. m \in Nat /\ ~ (m <= MaxSends) /\ ~ (m < MaxSends + connect.next)  BY <1>2, IOAssumption
    <2> HIDE DEF m
    <2> QED  BY <1>5, <2>1 DEF Numbered
  <1>7. /\ Starts(Now, t, m)
        /\ t.s.reconnecting => s.reconnecting
        /\ ~ s.stopped /\ s.conn # 0 /\ connect.mode # "NORMAL" => ~ t.s.reconnecting
    <2>1. CASE connect.mode = "NORMAL"
      <3>1. t = start_normal_(Now, m)  BY <2>1
      <3> HIDE DEF t, m
      <3> QED  BY <1>1, <1>6, <2>1, <3>1, StartNormalIs
    <2>2. CASE connect.mode # "NORMAL"
      <3>1. t = start_after_reconnect_(Now, m)  BY <2>2
      <3> HIDE DEF t, m
      <3>2. /\ Starts(Now, t, m) /\ (~ s.stopped /\ s.conn # 0 => ~ t.s.reconnecting)
            /\ (s.stopped \/ s.conn = 0 => t = Now)
        BY <1>1, <1>6, <3>1, StartAfterReconnectIs
      <3> QED  BY <1>1, <2>2, <3>2
    <2> QED  BY <2>1, <2>2
  <1> HIDE DEF t
  <1>8. Sane(t) /\ t \in Worlds  BY <1>7 DEF Starts, Sane
  <1>9. Now' = t  BY <1>3, <1>8, Committed
  <1>10. Numbered(t, connect', budget)
    <2>1. t.arena.heap \subseteq arena.heap \cup {m}  BY <1>1, <1>7 DEF Starts
    <2>2. \A x \in arena.heap : (budget.sends < x /\ x <= MaxSends) \/ (MaxSends < x /\ x < m)
      BY <1>1, <1>5 DEF Numbered
    <2>3. \A x \in arena.heap : (budget.sends < x /\ x <= MaxSends) \/ (MaxSends < x /\ x < MaxSends + (connect.next + 1))
      BY <1>2, <2>2, IOAssumption
    <2>4. MaxSends < m /\ m < MaxSends + (connect.next + 1)  BY <1>2, IOAssumption
    <2> HIDE DEF m
    <2> QED  BY <1>4, <2>1, <2>3, <2>4 DEF Numbered
  <1>11. s.conn = connect.next /\ s.conn # 0 /\ ~ s.live
    BY <1>1, <1>2, <1>3, <1>5 DEF Placed
  <1>12. Placed(t, connect', hist)
    <2>1. t.s.conn < connect'.next  BY <1>1, <1>2, <1>4, <1>7, <1>11 DEF Starts
    <2>2. s.reconnecting => connect.mode = "RECONNECT"  BY <1>1, <1>5 DEF Placed
    <2> QED  BY <1>1, <1>4, <1>5, <1>7, <2>1, <2>2 DEF Placed, Starts
  <1>13. ASSUME Clean(hist) PROVE Tracked(t, connect')
    <2>1. /\ s.fault = "none" /\ \A o \in ops : 0 < o.conn /\ o.conn < connect.next
          /\ ~ s.stopped => s.q = <<>> /\ ~ s.inflight
      BY <1>1, <1>5, <1>11, <1>13 DEF Tracked
    <2>2. CASE s.stopped
      <3>1. t.s.stopped /\ t.ops = {} /\ t.s.fault = "none"
        BY <1>1, <1>5, <1>7, <2>1, <2>2 DEF Starts, Placed
      <3> QED  BY <3>1 DEF Tracked
    <2>3. CASE ~ s.stopped
      <3>1. \A o \in ops : o.conn # s.conn
        <4>1. \A o \in ops : o.conn \in Nat  BY <1>2 DEF OpRecords
        <4> QED  BY <1>2, <1>11, <2>1, <4>1
      <3>2. /\ t.s.live /\ t.s.fault = "none"
            /\ WritesFit(t) /\ OneOf(t.ops, s.conn, "read") /\ Within(Now, t)
            /\ t.s.conn = s.conn /\ ~ t.s.stopped
        BY <1>1, <1>7, <1>11, <2>1, <2>3, <3>1 DEF Starts
      <3>3. ~ t.s.reconnecting
        BY <1>1, <1>5, <1>7, <1>11, <2>3 DEF Placed
      <3>4. \A o \in t.ops : 0 < o.conn /\ o.conn < connect'.next
        <4>1. \A o \in ops : 0 < o.conn /\ o.conn < connect.next + 1
          <5>1. \A o \in ops : o.conn \in Nat  BY <1>2 DEF OpRecords
          <5> QED  BY <1>2, <2>1, <5>1
        <4>2. 0 < s.conn /\ s.conn < connect.next + 1  BY <1>2, <1>11
        <4> QED  BY <1>1, <1>4, <3>2, <4>1, <4>2 DEF Within
      <3> QED  BY <1>11, <3>2, <3>3, <3>4 DEF Tracked
    <2> QED  BY <1>2, <2>2, <2>3
  <1>14. Good(t, connect', budget, hist)
    BY <1>4, <1>5, <1>8, <1>10, <1>12, <1>13, NowFields DEF Good
  <1> QED  BY <1>3, <1>9, <1>14 DEF IOInv

LEMMA IOStop ==
    ASSUME IOInv, stop
    PROVE  IOInv'
  <1> DEFINE t == stop_(Now)
  <1>1. /\ Sane(Now) /\ Now \in Worlds /\ connect \in ConnectRecords /\ hist \in HistRecords
        /\ budget \in BudgetRecords
        /\ Now.s = s /\ Now.arena = arena /\ Now.ops = ops /\ Now.open = open
    BY NowFields
  <1>2. ~ s.stopped /\ Commit(t) /\ UNCHANGED <<connect, budget, hist>>  BY DEF stop
  <1>3. /\ Sane(t) /\ t.s.stopped /\ ~ t.s.live /\ t.s.q = <<>> /\ ~ t.s.inflight
        /\ t.arena.heap = {} /\ t.ops = {} /\ t.s.conn = s.conn
        /\ t.s.reconnecting = s.reconnecting /\ t.s.fault = s.fault
        /\ t.open = IF s.conn = 0 THEN open ELSE open \ {s.conn}
    BY <1>1, <1>2, StopIs
  <1> HIDE DEF t
  <1>4. Now' = t  BY <1>2, <1>3, Committed DEF Sane
  <1>5. Numbered(t, connect, budget)  BY <1>3 DEF Numbered
  <1>6. Placed(t, connect, hist)
    <2>1. Placed(Now, connect, hist)  BY DEF IOInv, Good
    <2> QED  BY <1>1, <1>3, <2>1 DEF Placed
  <1>7. Clean(hist) => Tracked(t, connect)
    <2>1. Clean(hist) => s.fault = "none"  BY <1>1 DEF IOInv, Good, Tracked
    <2> QED  BY <1>3, <2>1 DEF Tracked
  <1>8. Good(t, connect, budget, hist)  BY <1>1, <1>3, <1>5, <1>6, <1>7 DEF Good
  <1> QED  BY <1>2, <1>4, <1>8 DEF IOInv

\* A message of the budget is spent.
LEMMA Spent ==
    ASSUME IOInv, budget.sends > 0, budget' = [budget EXCEPT !.sends = @ - 1]
    PROVE  /\ budget.sends \in Nat \ arena.heap /\ budget' \in BudgetRecords
           /\ \A t : t.arena.heap \subseteq arena.heap \cup {budget.sends}
                       => Numbered(t, connect, budget')
  <1>1. budget \in BudgetRecords /\ Now.arena = arena /\ Now \in Worlds  BY NowFields
  <1>2. budget.sends \in 0..MaxSends  BY <1>1 DEF BudgetRecords
  <1>3. budget.sends \in Nat /\ budget.sends <= MaxSends /\ budget.sends - 1 \in 0..MaxSends
        /\ budget.sends - 1 < budget.sends
    BY <1>2, IOAssumption
  <1>4. budget' \in BudgetRecords /\ budget'.sends = budget.sends - 1
    BY <1>1, <1>3 DEF BudgetRecords
  <1>5. \A x \in arena.heap : (budget.sends < x /\ x <= MaxSends) \/ (MaxSends < x /\ x < MaxSends + connect.next)
    BY <1>1 DEF IOInv, Good, Numbered
  <1>6. budget.sends \notin arena.heap  BY <1>3, <1>5, IOAssumption
  <1>7. arena.heap \subseteq Nat  BY <1>1, WorldFields
  <1>8. ASSUME NEW t, t.arena.heap \subseteq arena.heap \cup {budget.sends}
        PROVE  Numbered(t, connect, budget')
    <2>1. \A x \in arena.heap : (budget.sends - 1 < x /\ x <= MaxSends)
                                  \/ (MaxSends < x /\ x < MaxSends + connect.next)
      <3>1. \A x \in Nat : budget.sends < x => budget.sends - 1 < x  BY <1>3
      <3> QED  BY <1>5, <1>7, <3>1
    <2> QED  BY <1>3, <1>4, <1>8, <2>1 DEF Numbered
  <1> QED  BY <1>3, <1>4, <1>6, <1>8

LEMMA IOAppSend ==
    ASSUME IOInv, AppSend
    PROVE  IOInv'
  <1> DEFINE m == budget.sends
             t == send_message_(Now, m)
  <1>1. /\ Sane(Now) /\ Now \in Worlds /\ connect \in ConnectRecords /\ hist \in HistRecords
        /\ Now.s = s /\ Now.arena = arena /\ Now.ops = ops /\ Now.open = open
    BY NowFields
  <1>2. /\ Placed(Now, connect, hist) /\ (Clean(hist) => Tracked(Now, connect))
    BY DEF IOInv, Good
  <1>3. /\ m > 0 /\ budget' = [budget EXCEPT !.sends = @ - 1] /\ Commit(t)
        /\ hist' = [hist EXCEPT !.bare = @ \/ (s.conn = 0 /\ ~ s.stopped),
                                !.early = @ \/ (connect.stage = "set" /\ ~ s.stopped)]
        /\ connect' = connect
    BY DEF AppSend
  <1>4. /\ m \in Nat \ arena.heap /\ budget' \in BudgetRecords
        /\ (t.arena.heap \subseteq arena.heap \cup {m}) => Numbered(t, connect, budget')
    BY <1>3, Spent
  <1>5. Same(Now, t, {m}) /\ (s.stopped => t = Now)
    <2> HIDE DEF m
    <2> QED  BY <1>1, <1>4, SendMessageIs
  <1>6. ~ s.stopped /\ s.conn # 0 /\ WritesFit(Now) =>
          /\ WritesFit(t) /\ Within(Now, t) /\ t.s.fault = s.fault
          /\ OneOf(ops, s.conn, "read") => OneOf(t.ops, s.conn, "read")
    <2> HIDE DEF m
    <2> QED  BY <1>1, <1>4, SendFits
  <1> HIDE DEF m, t
  <1>7. Now' = t  BY <1>3, <1>5, Committed DEF Same, Sane
  <1>8. /\ hist' \in HistRecords /\ hist'.late = hist.late
        /\ Clean(hist') => Clean(hist) /\ (s.stopped \/ (s.conn # 0 /\ connect.stage # "set"))
    <2>1. /\ (hist.bare \/ (s.conn = 0 /\ ~ s.stopped)) \in BOOLEAN
          /\ (hist.early \/ (connect.stage = "set" /\ ~ s.stopped)) \in BOOLEAN
      OBVIOUS
    <2>2. /\ hist' \in HistRecords /\ hist'.late = hist.late /\ hist'.stale = hist.stale
          /\ hist'.bare = (hist.bare \/ (s.conn = 0 /\ ~ s.stopped))
          /\ hist'.early = (hist.early \/ (connect.stage = "set" /\ ~ s.stopped))
      BY <1>1, <1>3, <2>1 DEF HistRecords
    <2> QED  BY <2>2 DEF Clean
  <1>9. Numbered(t, connect, budget')  BY <1>1, <1>4, <1>5 DEF Same
  <1>10. Placed(t, connect, hist')
    <2>1. CASE s.stopped  BY <1>1, <1>2, <1>5, <1>8, <2>1 DEF Placed
    <2>2. CASE ~ s.stopped  BY <1>1, <1>2, <1>5, <1>8, <2>2 DEF Placed, Same
    <2> QED  BY <2>1, <2>2
  <1>11. ASSUME Clean(hist') PROVE Tracked(t, connect)
    <2>1. Tracked(Now, connect) /\ (s.stopped \/ (s.conn # 0 /\ connect.stage # "set"))
      BY <1>2, <1>8, <1>11
    <2>2. CASE s.stopped  BY <1>5, <2>1, <2>2
    <2>3. CASE ~ s.stopped
      <3>1. /\ s.live /\ OneOf(ops, s.conn, "read") /\ WritesFit(Now) /\ ~ s.reconnecting
            /\ s.fault = "none" /\ \A o \in ops : 0 < o.conn /\ o.conn < connect.next
        BY <1>1, <2>1, <2>3 DEF Tracked
      <3>2. /\ WritesFit(t) /\ Within(Now, t) /\ t.s.fault = "none" /\ OneOf(t.ops, s.conn, "read")
            /\ t.s.conn = s.conn /\ t.s.live /\ ~ t.s.reconnecting /\ s.conn # 0
        BY <1>1, <1>5, <1>6, <2>1, <2>3, <3>1 DEF Same
      <3>3. 0 < s.conn /\ s.conn < connect.next
        <4>1. s.conn \in Nat  BY <1>1, WorldFields
        <4> QED  BY <1>1, <1>2, <2>1, <2>3, <4>1 DEF Placed
      <3>4. \A o \in t.ops : 0 < o.conn /\ o.conn < connect.next
        BY <1>1, <3>1, <3>2, <3>3 DEF Within
      <3> QED  BY <3>2, <3>4 DEF Tracked
    <2> QED  BY <2>2, <2>3
  <1>12. Sane(t)  BY <1>5 DEF Same
  <1>13. Good(t, connect, budget', hist')
    BY <1>1, <1>4, <1>8, <1>9, <1>10, <1>11, <1>12 DEF Good
  <1> QED  BY <1>3, <1>7, <1>13 DEF IOInv

\* An operation is replaced by itself with a result.
LEMMA Replaced ==
    ASSUME NEW O, NEW o \in O, NEW d, d.conn = o.conn, d.kind = o.kind, NEW c, NEW k
    PROVE  LET P == (O \ {o}) \cup {d}
           IN  /\ NoneOf(O, c, k) => NoneOf(P, c, k)
               /\ OneOf(O, c, k) => OneOf(P, c, k)
  <1> DEFINE P == (O \ {o}) \cup {d}
  <1>1. NoneOf(O, c, k) => NoneOf(P, c, k)  BY DEF NoneOf
  <1>2. ASSUME OneOf(O, c, k) PROVE OneOf(P, c, k)
    <2>1. PICK x \in O : /\ x.conn = c /\ x.kind = k
                         /\ \A p \in O : p.conn = c /\ p.kind = k => p = x
      BY <1>2 DEF OneOf
    <2>2. CASE x = o
      <3>1. d \in P /\ d.conn = c /\ d.kind = k /\ \A p \in P : p.conn = c /\ p.kind = k => p = d
        BY <2>1, <2>2
      <3> QED  BY <3>1 DEF OneOf
    <2>3. CASE x # o
      <3>1. ~ (d.conn = c /\ d.kind = k)  BY <2>1, <2>3
      <3>2. x \in P /\ \A p \in P : p.conn = c /\ p.kind = k => p = x  BY <2>1, <2>3, <3>1
      <3> QED  BY <2>1, <3>2 DEF OneOf
    <2> QED  BY <2>2, <2>3
  <1> QED  BY <1>1, <1>2

LEMMA IOCompletes ==
    ASSUME IOInv, NEW o \in ops, NEW result \in {"ok", "transient", "fatal"}, NEW n \in Nat,
           Completes(o, result, n), budget' \in BudgetRecords, budget'.sends = budget.sends
    PROVE  IOInv'
  <1> DEFINE Done(i) == [o EXCEPT !.result = result, !.n = n, !.copy = i]
             J == {j \in 1..(Cardinality(ops) + 1) : Done(j) \notin ops}
             d == Done(Min(J))
             P == (ops \ {o}) \cup {d}
             t == [Now EXCEPT !.ops = P]
  <1>1. /\ Sane(Now) /\ Now \in Worlds /\ connect \in ConnectRecords /\ hist \in HistRecords
        /\ Now.s = s /\ Now.arena = arena /\ Now.ops = ops /\ Now.open = open
    BY NowFields
  <1>2. /\ Numbered(Now, connect, budget) /\ Placed(Now, connect, hist)
        /\ (Clean(hist) => Tracked(Now, connect))
    BY DEF IOInv, Good
  <1>3. IsFiniteSet(ops) /\ ops \in SUBSET OpRecords /\ o \in OpRecords  BY <1>1, WorldFields
  <1>4. ops' = P /\ UNCHANGED <<s, arena, open, connect, sent, hist>>  BY DEF Completes
  <1>5. Min(J) \in Nat
    <2>1. Done(0) \in OpRecords  BY <1>3 DEF OpRecords
    <2>2. \A j : [Done(0) EXCEPT !.copy = j] = Done(j)  BY <1>3 DEF OpRecords
    <2> HIDE DEF Done
    <2>3. J = {j \in 1..(Cardinality(ops) + 1) : [Done(0) EXCEPT !.copy = j] \notin ops}
      BY <2>2
    <2>4. Min({j \in 1..(Cardinality(ops) + 1) : [Done(0) EXCEPT !.copy = j] \notin ops}) \in Nat
      BY <1>3, <2>1, FreshCopy
    <2> QED  BY <2>3, <2>4
  <1> HIDE DEF J
  <1>6. d \in OpRecords /\ d.kind = o.kind /\ d.conn = o.conn  BY <1>3, <1>5 DEF OpRecords
  <1> HIDE DEF d
  <1>7. P \in OpSets
    <2>1. IsFiniteSet(ops \ {o})  BY <1>3, FS_RemoveElement
    <2>2. IsFiniteSet(P)  BY <2>1, FS_AddElement
    <2> QED  BY <1>3, <1>6, <2>2 DEF OpSets
  <1>8. \A p \in P : p \in ops \/ p.conn = o.conn  BY <1>6
  <1>9. \A c, k : (NoneOf(ops, c, k) => NoneOf(P, c, k)) /\ (OneOf(ops, c, k) => OneOf(P, c, k))
    BY <1>6, Replaced
  <1>10. Now' = t  BY <1>4 DEF Now
  <1> HIDE DEF P
  <1>11. t \in Worlds /\ t.s = s /\ t.arena = arena /\ t.ops = P /\ t.open = open
    BY <1>1, <1>7 DEF Worlds
  <1> HIDE DEF t
  <1>12. Sane(t)  BY <1>1, <1>11 DEF Sane
  <1>13. Numbered(t, connect, budget')  BY <1>1, <1>2, <1>11 DEF Numbered
  <1>14. ~ s.stopped  BY <1>1, <1>2 DEF Placed
  <1>15. Placed(t, connect, hist)  BY <1>1, <1>2, <1>11, <1>14 DEF Placed
  <1>16. ASSUME Clean(hist) PROVE Tracked(t, connect)
    <2>1. Tracked(Now, connect)  BY <1>2, <1>16
    <2>2. WritesFit(Now) => WritesFit(t)  BY <1>1, <1>9, <1>11 DEF WritesFit
    <2>3. OneOf(ops, s.conn, "read") => OneOf(P, s.conn, "read")  BY <1>9
    <2> QED  BY <1>1, <1>8, <1>11, <2>1, <2>2, <2>3 DEF Tracked
  <1>17. Good(t, connect, budget', hist)  BY <1>1, <1>12, <1>13, <1>15, <1>16 DEF Good
  <1> QED  BY <1>4, <1>10, <1>17 DEF IOInv

\* What a handler may do to conn_ and the lifecycle.
Moves(w, t) ==
    /\ t.s.live => w.s.live
    /\ t.open \subseteq w.open
    /\ \/ t.s.conn = w.s.conn /\ t.s.reconnecting = w.s.reconnecting
       \/ t.s.conn = 0 /\ ~ t.s.live /\ t.s.reconnecting /\ ~ w.s.reconnecting
    /\ t.s.stopped => t.ops = {} /\ t.s.q = <<>> /\ ~ t.s.inflight /\ t.s.conn \notin t.open

LEMMA IOHandler ==
    ASSUME IOInv, NEW o, NEW t, Handler(o, t), Sane(t), Moves(Now, t),
           Numbered(t, connect, budget'), budget' \in BudgetRecords,
           Clean(hist') => Tracked(t, connect)
    PROVE  IOInv'
  <1>1. /\ connect \in ConnectRecords /\ hist \in HistRecords
        /\ Now.s = s /\ Now.arena = arena /\ Now.ops = ops /\ Now.open = open
    BY NowFields
  <1>2. connect.next \in Nat \ {0}  BY <1>1, ConnectFields
  <1>3. /\ Commit(t)
        /\ hist' = [hist EXCEPT !.stale = @ \/ (Effective(o) /\ o.conn # s.conn)]
        /\ connect' = IF t.s.reconnecting /\ ~ s.reconnecting
                      THEN [connect EXCEPT !.stage = "asked", !.mode = "RECONNECT"] ELSE connect
    BY DEF Handler
  <1>4. Now' = t  BY <1>3, Committed DEF Sane
  <1>5. hist' \in HistRecords
    <2>1. (hist.stale \/ (Effective(o) /\ o.conn # s.conn)) \in BOOLEAN  OBVIOUS
    <2> QED  BY <1>1, <1>3, <2>1 DEF HistRecords
  <1>6. Placed(Now, connect, hist)  BY DEF IOInv, Good
  <1>7. CASE t.s.reconnecting /\ ~ s.reconnecting
    <2>1. connect' = [connect EXCEPT !.stage = "asked", !.mode = "RECONNECT"]  BY <1>3, <1>7
    <2>2. /\ connect' \in ConnectRecords /\ connect'.stage = "asked"
          /\ connect'.mode = "RECONNECT" /\ connect'.next = connect.next
      BY <1>1, <2>1 DEF ConnectRecords
    <2>3. t.s.conn = 0 /\ ~ t.s.live  BY <1>1, <1>7 DEF Moves
    <2>4. Numbered(t, connect', budget')  BY <2>2 DEF Numbered
    <2>5. Placed(t, connect', hist')
      BY <1>1, <1>2, <1>6, <2>2, <2>3 DEF Placed, Moves
    <2>6. Clean(hist') => Tracked(t, connect')  BY <2>2, <2>3 DEF Tracked
    <2>7. Good(t, connect', budget', hist')  BY <1>5, <2>2, <2>4, <2>5, <2>6 DEF Good
    <2> QED  BY <1>4, <2>7 DEF IOInv
  <1>8. CASE ~ (t.s.reconnecting /\ ~ s.reconnecting)
    <2>1. connect' = connect  BY <1>3, <1>8
    <2>2. t.s.conn = s.conn /\ t.s.reconnecting = s.reconnecting  BY <1>1, <1>8 DEF Moves
    <2>3. Placed(t, connect, hist')  BY <1>1, <1>6, <2>2 DEF Placed, Moves
    <2>4. Good(t, connect, budget', hist')  BY <1>1, <1>5, <2>3 DEF Good
    <2> QED  BY <1>4, <2>1, <2>4 DEF IOInv
  <1> QED  BY <1>7, <1>8

\* What a handler finds: its operation is taken out, the session is not
\* stopped; if it has an effect and none of an earlier connection had one,
\* the operation is of the current connection, which is live.
LEMMA HandlerFinds ==
    ASSUME IOInv, NEW o \in ops, NEW t, Handler(o, t)
    PROVE  LET w == Without(o)
           IN  /\ Sane(w) /\ w.s = s /\ w.arena = arena /\ w.open = open /\ w.ops = ops \ {o}
               /\ ~ s.stopped /\ s.conn \in Nat /\ o \in OpRecords
               /\ Clean(hist') =>
                    /\ Tracked(Now, connect)
                    /\ \A p \in w.ops : 0 < p.conn /\ p.conn < connect.next
                    /\ Effective(o) =>
                         /\ s.live /\ ~ s.reconnecting /\ s.conn # 0 /\ s.conn < connect.next
                         /\ o.conn = s.conn
                         /\ OneOf(ops, s.conn, "read") /\ WritesFit(Now)
  <1> DEFINE w == Without(o)
  <1>1. /\ Sane(Now) /\ Now \in Worlds /\ connect \in ConnectRecords /\ hist \in HistRecords
        /\ Now.s = s /\ Now.arena = arena /\ Now.ops = ops /\ Now.open = open
    BY NowFields
  <1>2. IsFiniteSet(ops) /\ ops \in SUBSET OpRecords /\ s.conn \in Nat  BY <1>1, WorldFields
  <1>3. ops \ {o} \in OpSets
    <2>1. IsFiniteSet(ops \ {o})  BY <1>2, FS_RemoveElement
    <2> QED  BY <1>2, <2>1 DEF OpSets
  <1>4. w \in Worlds /\ w.s = s /\ w.arena = arena /\ w.open = open /\ w.ops = ops \ {o}
    BY <1>1, <1>3 DEF Without, Worlds
  <1> HIDE DEF w
  <1>5. Sane(w)  BY <1>1, <1>4 DEF Sane
  <1>6. /\ Placed(Now, connect, hist) /\ (Clean(hist) => Tracked(Now, connect))
    BY DEF IOInv, Good
  <1>7. ~ s.stopped  BY <1>1, <1>6 DEF Placed
  <1>8. ASSUME Clean(hist')
        PROVE  /\ Tracked(Now, connect)
               /\ \A p \in w.ops : 0 < p.conn /\ p.conn < connect.next
               /\ Effective(o) =>
                    /\ s.live /\ ~ s.reconnecting /\ s.conn # 0 /\ s.conn < connect.next
                    /\ o.conn = s.conn
                    /\ OneOf(ops, s.conn, "read") /\ WritesFit(Now)
    <2>1. hist' = [hist EXCEPT !.stale = @ \/ (Effective(o) /\ o.conn # s.conn)]  BY DEF Handler
    <2>2. /\ hist'.stale = (hist.stale \/ (Effective(o) /\ o.conn # s.conn))
          /\ hist'.bare = hist.bare /\ hist'.early = hist.early
      BY <1>1, <2>1 DEF HistRecords
    <2>3. Clean(hist) /\ (Effective(o) => o.conn = s.conn)  BY <1>8, <2>2 DEF Clean
    <2>4. Tracked(Now, connect)  BY <1>6, <2>3
    <2>5. \A p \in ops : 0 < p.conn /\ p.conn < connect.next  BY <1>1, <2>4 DEF Tracked
    <2>6. ASSUME Effective(o)
          PROVE  /\ s.live /\ ~ s.reconnecting /\ s.conn # 0 /\ s.conn < connect.next
                 /\ o.conn = s.conn
                 /\ OneOf(ops, s.conn, "read") /\ WritesFit(Now)
      <3>1. s.conn = o.conn /\ 0 < s.conn /\ s.conn < connect.next  BY <2>3, <2>5, <2>6
      <3>2. connect.next \in Nat  BY <1>1, ConnectFields
      <3>3. s.conn # 0 /\ s.conn # connect.next  BY <1>2, <3>1, <3>2
      <3>4. connect.stage # "set"  BY <1>1, <1>6, <3>3 DEF Placed
      <3>5. s.live  BY <1>1, <1>7, <2>4, <3>3, <3>4 DEF Tracked
      <3> QED  BY <1>1, <1>7, <2>4, <3>1, <3>3, <3>5 DEF Tracked
    <2> QED  BY <1>4, <2>4, <2>5, <2>6
  <1>9. /\ Sane(w) /\ w.s = s /\ w.arena = arena /\ w.open = open /\ w.ops = ops \ {o}
        /\ ~ s.stopped /\ s.conn \in Nat /\ o \in OpRecords
    BY <1>2, <1>4, <1>5, <1>7
  <1> QED  BY <1>8, <1>9 DEF w

\* An operation of a connection is taken out.
LEMMA Taken ==
    ASSUME NEW O, NEW o \in O, NEW c, o.conn = c
    PROVE  /\ OneOf(O, c, o.kind) => NoneOf(O \ {o}, c, o.kind)
           /\ \A j : j # o.kind => /\ OneOf(O, c, j) => OneOf(O \ {o}, c, j)
                                   /\ NoneOf(O, c, j) => NoneOf(O \ {o}, c, j)
  <1>1. OneOf(O, c, o.kind) => NoneOf(O \ {o}, c, o.kind)  BY DEF OneOf, NoneOf
  <1>2. ASSUME NEW j, j # o.kind
        PROVE  /\ OneOf(O, c, j) => OneOf(O \ {o}, c, j)
               /\ NoneOf(O, c, j) => NoneOf(O \ {o}, c, j)
    BY <1>2 DEF OneOf, NoneOf
  <1> QED  BY <1>1, <1>2

LEMMA ReadTaken ==
    ASSUME NEW x, NEW o \in x.ops, NEW w, w.s = x.s, w.ops = x.ops \ {o}, o.conn = x.s.conn,
           o.kind = "read", OneOf(x.ops, x.s.conn, "read"), WritesFit(x)
    PROVE  NoneOf(w.ops, w.s.conn, "read") /\ WritesFit(w)
  <1>1. /\ NoneOf(x.ops \ {o}, x.s.conn, "read")
        /\ OneOf(x.ops, x.s.conn, "write") => OneOf(x.ops \ {o}, x.s.conn, "write")
        /\ NoneOf(x.ops, x.s.conn, "write") => NoneOf(x.ops \ {o}, x.s.conn, "write")
    BY Taken
  <1>2. WritesFit(w)  BY <1>1 DEF WritesFit
  <1> QED  BY <1>1, <1>2

LEMMA WriteTaken ==
    ASSUME NEW x, NEW o \in x.ops, NEW w, w.s = x.s, w.ops = x.ops \ {o}, o.conn = x.s.conn,
           o.kind = "write", OneOf(x.ops, x.s.conn, "read"), WritesFit(x)
    PROVE  /\ NoneOf(w.ops, w.s.conn, "write") /\ OneOf(w.ops, w.s.conn, "read")
           /\ w.s.q # <<>> /\ w.s.inflight
  <1>1. x.s.q # <<>> /\ x.s.inflight /\ OneOf(x.ops, x.s.conn, "write")
    BY DEF WritesFit, NoneOf
  <1>2. /\ NoneOf(x.ops \ {o}, x.s.conn, "write")
        /\ OneOf(x.ops \ {o}, x.s.conn, "read")
    BY <1>1, Taken
  <1> QED  BY <1>1, <1>2

\* A handler of the current connection that keeps it.
LEMMA KeptHandler ==
    ASSUME IOInv, NEW o \in ops, NEW t, Handler(o, t), Effective(o), NEW M,
           Same(Without(o), t, M), Numbered(t, connect, budget'), budget' \in BudgetRecords,
           Clean(hist') => /\ WritesFit(t) /\ OneOf(t.ops, s.conn, "read")
                           /\ Within(Without(o), t) /\ t.s.fault = "none"
    PROVE  IOInv'
  <1> DEFINE w == Without(o)
  <1>1. /\ Sane(w) /\ w.s = s /\ w.arena = arena /\ w.open = open /\ w.ops = ops \ {o}
        /\ ~ s.stopped /\ s.conn \in Nat
        /\ Clean(hist') =>
             /\ \A p \in w.ops : 0 < p.conn /\ p.conn < connect.next
             /\ s.live /\ ~ s.reconnecting /\ s.conn # 0 /\ s.conn < connect.next
    BY HandlerFinds
  <1> HIDE DEF w
  <1>2. Same(w, t, M) /\ (Clean(hist') => Within(w, t))  BY DEF w
  <1>3. Sane(t) /\ t.s.conn = s.conn /\ t.s.live = s.live /\ t.s.stopped = s.stopped
        /\ t.s.reconnecting = s.reconnecting /\ t.open = open
    BY <1>1, <1>2 DEF Same
  <1>4. Moves(Now, t)  BY <1>1, <1>3, NowFields DEF Moves
  <1>5. ASSUME Clean(hist') PROVE Tracked(t, connect)
    <2>1. \A p \in t.ops : 0 < p.conn /\ p.conn < connect.next
      <3>1. 0 < s.conn  BY <1>1, <1>5
      <3> QED  BY <1>1, <1>2, <1>5, <3>1 DEF Within
    <2> QED  BY <1>1, <1>3, <1>5, <2>1 DEF Tracked
  <1> QED  BY <1>3, <1>4, <1>5, IOHandler

\* The handler of a fatal error.
LEMMA FatalHandler ==
    ASSUME IOInv, NEW o \in ops, o.result = "fatal",
           Handler(o, on_transport_down_(Without(o))), budget' = budget
    PROVE  IOInv'
  <1> DEFINE w == Without(o)
             t == on_transport_down_(w)
  <1>1. /\ Sane(w) /\ w.s = s /\ w.arena = arena /\ w.open = open /\ w.ops = ops \ {o}
        /\ ~ s.stopped /\ s.conn \in Nat
        /\ Clean(hist') =>
             /\ Tracked(Now, connect)
             /\ \A p \in w.ops : 0 < p.conn /\ p.conn < connect.next
    BY HandlerFinds
  <1> HIDE DEF w
  <1>2. Handler(o, t)  BY DEF w
  <1>3. /\ Sane(t)
        /\ ~ s.live \/ s.stopped \/ s.reconnecting => t = w
        /\ s.live /\ ~ s.stopped /\ ~ s.reconnecting =>
             /\ ~ t.s.stopped /\ ~ t.s.live /\ t.s.q = <<>> /\ ~ t.s.inflight
             /\ t.arena.heap = {} /\ t.ops \subseteq w.ops /\ t.s.conn = 0
             /\ t.s.reconnecting /\ t.s.fault = s.fault
             /\ t.open = open \ {s.conn}
    BY <1>1, DownIs
  <1> HIDE DEF t
  <1>4. /\ Now.s = s /\ Now.arena = arena /\ Now.ops = ops /\ Now.open = open
        /\ budget \in BudgetRecords
    BY NowFields
  <1>5. Numbered(Now, connect, budget)  BY DEF IOInv, Good
  <1>6. CASE s.live /\ ~ s.reconnecting
    <2>1. Numbered(t, connect, budget')  BY <1>1, <1>3, <1>6 DEF Numbered
    <2>2. Moves(Now, t)  BY <1>1, <1>3, <1>4, <1>6 DEF Moves
    <2>3. Clean(hist') => Tracked(t, connect)  BY <1>1, <1>3, <1>4, <1>6 DEF Tracked
    <2> QED  BY <1>2, <1>3, <1>4, <2>1, <2>2, <2>3, IOHandler
  <1>7. CASE ~ (s.live /\ ~ s.reconnecting)
    <2>1. t = w  BY <1>3, <1>7
    <2>2. Numbered(t, connect, budget')  BY <1>1, <1>4, <1>5, <2>1 DEF Numbered
    <2>3. Moves(Now, t)  BY <1>1, <1>4, <2>1 DEF Moves
    <2>4. ASSUME Clean(hist') PROVE Tracked(t, connect)
      <3>1. ~ s.live  BY <1>1, <1>4, <1>7, <2>4 DEF Tracked
      <3> QED  BY <1>1, <1>4, <2>1, <2>4, <3>1 DEF Tracked
    <2> QED  BY <1>2, <1>3, <1>4, <2>2, <2>3, <2>4, IOHandler
  <1> QED  BY <1>6, <1>7

LEMMA IOReadHandlerFails ==
    ASSUME IOInv, NEW o \in ops, ReadHandlerFails(o)
    PROVE  IOInv'
  <1> DEFINE w == Without(o)
             t == do_read(w)
  <1>1. o.kind = "read" /\ budget' = budget  BY DEF ReadHandlerFails
  <1>2. CASE o.result = "fatal"
    <2>1. Handler(o, on_transport_down_(Without(o)))  BY <1>2 DEF ReadHandlerFails
    <2> QED  BY <1>1, <1>2, <2>1, FatalHandler
  <1>3. CASE o.result # "fatal"
    <2>1. o.result = "transient"  BY <1>3 DEF ReadHandlerFails
    <2>2. Handler(o, t) /\ Effective(o)  BY <2>1 DEF ReadHandlerFails, Effective
    <2> HIDE DEF t
    <2>3. /\ Sane(w) /\ w.s = s /\ w.arena = arena /\ w.ops = ops \ {o} /\ ~ s.stopped
          /\ Clean(hist') =>
               /\ Tracked(Now, connect) /\ s.conn # 0 /\ o.conn = s.conn
               /\ OneOf(ops, s.conn, "read") /\ WritesFit(Now)
      BY <2>2, HandlerFinds
    <2>4. Now.s = s /\ Now.arena = arena /\ Now.ops = ops /\ budget \in BudgetRecords  BY NowFields
    <2> HIDE DEF w
    <2>5. Same(w, t, {}) /\ t.arena = w.arena  BY <2>3, DoReadIs DEF t
    <2>6. Numbered(t, connect, budget')
      <3>1. Numbered(Now, connect, budget)  BY DEF IOInv, Good
      <3> QED  BY <1>1, <2>3, <2>4, <2>5, <3>1 DEF Numbered
    <2>7. ASSUME Clean(hist')
          PROVE  /\ WritesFit(t) /\ OneOf(t.ops, s.conn, "read")
                 /\ Within(w, t) /\ t.s.fault = "none"
      <3>1. NoneOf(w.ops, w.s.conn, "read") /\ WritesFit(w)
        BY <1>1, <2>3, <2>4, <2>7, ReadTaken
      <3>2. s.fault = "none"  BY <2>3, <2>4, <2>7 DEF Tracked
      <3> QED  BY <2>3, <2>7, <3>1, <3>2, ReadBegins DEF t
    <2> QED  BY <1>1, <2>2, <2>4, <2>5, <2>6, <2>7, KeptHandler DEF w
  <1> QED  BY <1>2, <1>3

LEMMA IOReadHandler ==
    ASSUME IOInv, NEW o \in ops, ReadHandler(o)
    PROVE  IOInv'
  <1> DEFINE w == Without(o)
             m == budget.sends
  <1>1. o.kind = "read" /\ Effective(o)  BY DEF ReadHandler, Effective
  <1>2. Now.s = s /\ Now.arena = arena /\ Now.ops = ops /\ budget \in BudgetRecords  BY NowFields
  <1>3. ASSUME NEW t, Handler(o, t)
        PROVE  /\ Sane(w) /\ w.s = s /\ w.arena = arena /\ w.ops = ops \ {o} /\ ~ s.stopped
               /\ Clean(hist') =>
                    /\ s.fault = "none" /\ s.conn # 0
                    /\ NoneOf(w.ops, w.s.conn, "read") /\ WritesFit(w)
    <2>1. /\ Sane(w) /\ w.s = s /\ w.arena = arena /\ w.ops = ops \ {o} /\ ~ s.stopped
          /\ Clean(hist') =>
               /\ Tracked(Now, connect) /\ s.conn # 0 /\ o.conn = s.conn
               /\ OneOf(ops, s.conn, "read") /\ WritesFit(Now)
      BY <1>1, <1>3, HandlerFinds
    <2> HIDE DEF w
    <2>2. ASSUME Clean(hist')
          PROVE  /\ s.fault = "none" /\ s.conn # 0
                 /\ NoneOf(w.ops, w.s.conn, "read") /\ WritesFit(w)
      <3>1. NoneOf(w.ops, w.s.conn, "read") /\ WritesFit(w)
        BY <1>1, <1>2, <2>1, <2>2, ReadTaken
      <3> QED  BY <1>2, <2>1, <2>2, <3>1 DEF Tracked
    <2> QED  BY <2>1, <2>2
  <1>4. CASE Handler(o, do_read(w)) /\ budget' = budget
    <2> DEFINE t == do_read(w)
    <2>1. Handler(o, t)  BY <1>4
    <2>2. /\ Sane(w) /\ w.s = s /\ w.arena = arena /\ ~ s.stopped
          /\ Clean(hist') => /\ s.fault = "none" /\ s.conn # 0
                             /\ NoneOf(w.ops, w.s.conn, "read") /\ WritesFit(w)
      BY <1>3, <2>1
    <2> HIDE DEF w
    <2>3. Same(w, t, {}) /\ t.arena = w.arena  BY <2>2, DoReadIs
    <2>4. Numbered(t, connect, budget')
      <3>1. Numbered(Now, connect, budget)  BY DEF IOInv, Good
      <3> HIDE DEF t
      <3> QED  BY <1>2, <1>4, <2>2, <2>3, <3>1 DEF Numbered
    <2>5. Clean(hist') => /\ WritesFit(t) /\ OneOf(t.ops, s.conn, "read")
                          /\ Within(w, t) /\ t.s.fault = "none"
      BY <2>2, ReadBegins
    <2> HIDE DEF t
    <2> QED  BY <1>1, <1>2, <1>4, <2>1, <2>3, <2>4, <2>5, KeptHandler DEF w
  <1>5. CASE /\ m > 0 /\ budget' = [budget EXCEPT !.sends = @ - 1]
             /\ Handler(o, do_read(send_message_(w, m)))
    <2> DEFINE u == send_message_(w, m)
               t == do_read(u)
    <2>1. Handler(o, t)  BY <1>5
    <2>2. /\ Sane(w) /\ w.s = s /\ w.arena = arena /\ ~ s.stopped
          /\ Clean(hist') => /\ s.fault = "none" /\ s.conn # 0
                             /\ NoneOf(w.ops, w.s.conn, "read") /\ WritesFit(w)
      BY <1>3, <2>1
    <2>3. /\ m \in Nat \ arena.heap /\ budget' \in BudgetRecords
          /\ \A x : x.arena.heap \subseteq arena.heap \cup {m} => Numbered(x, connect, budget')
      BY <1>5, Spent
    <2> HIDE DEF w, m
    <2>4. Same(w, u, {m})  BY <2>2, <2>3, SendMessageIs
    <2>5. Clean(hist') => /\ WritesFit(u) /\ Within(w, u) /\ u.s.fault = "none"
                          /\ NoneOf(u.ops, w.s.conn, "read")
      BY <2>2, <2>3, SendFits
    <2> HIDE DEF u
    <2>6. Sane(u) /\ u.s.stopped = s.stopped /\ u.s.conn = s.conn  BY <2>2, <2>4 DEF Same
    <2>7. Same(u, t, {})  BY <2>6, DoReadIs
    <2>8. Same(w, t, {m})  BY <2>4, <2>7, SameMore, SameTrans
    <2>9. Clean(hist') => /\ WritesFit(t) /\ OneOf(t.ops, u.s.conn, "read")
                          /\ Within(u, t) /\ t.s = u.s
      BY <2>2, <2>5, <2>6, ReadBegins
    <2> HIDE DEF t
    <2>10. Numbered(t, connect, budget')  BY <2>2, <2>3, <2>8 DEF Same
    <2>11. Clean(hist') => Within(w, t)  BY <2>2, <2>5, <2>6, <2>9 DEF Within
    <2> QED  BY <1>1, <2>1, <2>3, <2>5, <2>6, <2>8, <2>9, <2>10, <2>11, KeptHandler DEF w
  <1> QED  BY <1>4, <1>5 DEF ReadHandler

LEMMA IOReadHandlerLogout ==
    ASSUME IOInv, NEW o \in ops, ReadHandlerLogout(o)
    PROVE  IOInv'
  <1> DEFINE w == Without(o)
             m == budget.sends
             u == send_message_(w, m)
             v == stop_(u)
             t == do_read(v)
  <1>1. /\ Effective(o) /\ m > 0 /\ budget' = [budget EXCEPT !.sends = @ - 1]
        /\ Handler(o, t)
    BY DEF ReadHandlerLogout, Effective
  <1>2. /\ Now.s = s /\ Now.arena = arena /\ Now.ops = ops /\ Now.open = open
        /\ Placed(Now, connect, hist)
    BY NowFields DEF IOInv, Good
  <1>3. /\ Sane(w) /\ w.s = s /\ w.arena = arena /\ w.open = open /\ ~ s.stopped
        /\ Clean(hist') =>
             /\ Tracked(Now, connect) /\ s.conn # 0 /\ o.conn = s.conn /\ WritesFit(Now)
             /\ OneOf(ops, s.conn, "read") /\ w.ops = ops \ {o}
    <2> HIDE DEF t
    <2> QED  BY <1>1, HandlerFinds
  <1>4. /\ m \in Nat \ arena.heap /\ budget' \in BudgetRecords
        /\ \A x : x.arena.heap \subseteq arena.heap \cup {m} => Numbered(x, connect, budget')
    BY <1>1, Spent
  <1> HIDE DEF w, m
  <1>5. Same(w, u, {m})  BY <1>3, <1>4, SendMessageIs
  <1>6. Clean(hist') => u.s.fault = "none"
    <2> SUFFICES ASSUME Clean(hist') PROVE u.s.fault = "none"  OBVIOUS
    <2>1. o.kind = "read" /\ s.fault = "none"  BY <1>2, <1>3 DEF ReadHandlerLogout, Tracked
    <2>2. WritesFit(w)  BY <1>2, <1>3, <2>1, ReadTaken
    <2> QED  BY <1>3, <1>4, <2>1, <2>2, SendFits
  <1> HIDE DEF u
  <1>7. Sane(u) /\ u.s.stopped = s.stopped /\ u.s.conn = s.conn /\ u.open = open
        /\ u.s.reconnecting = s.reconnecting
    BY <1>3, <1>5 DEF Same
  <1>8. /\ Sane(v) /\ v.s.stopped /\ ~ v.s.live /\ v.s.q = <<>> /\ ~ v.s.inflight
        /\ v.arena.heap = {} /\ v.ops = {} /\ v.s.conn = s.conn
        /\ v.s.reconnecting = s.reconnecting /\ v.s.fault = u.s.fault
        /\ v.open = IF s.conn = 0 THEN open ELSE open \ {s.conn}
    <2>1. ~ u.s.stopped  BY <1>3, <1>7
    <2>2. /\ Sane(v) /\ v.s.stopped /\ ~ v.s.live /\ v.s.q = <<>> /\ ~ v.s.inflight
          /\ v.arena.heap = {} /\ v.ops = {} /\ v.s.conn = u.s.conn
          /\ v.s.reconnecting = u.s.reconnecting /\ v.s.fault = u.s.fault
          /\ v.open = IF u.s.conn = 0 THEN u.open ELSE u.open \ {u.s.conn}
      BY <1>7, <2>1, StopIs
    <2> HIDE DEF v
    <2> QED  BY <1>7, <2>2
  <1> HIDE DEF v
  <1>9. t = v  BY <1>8, DoReadIs
  <1> HIDE DEF t
  <1>10. Moves(Now, t)  BY <1>2, <1>8, <1>9 DEF Moves, Placed
  <1>11. Numbered(t, connect, budget')  BY <1>8, <1>9 DEF Numbered
  <1>12. Clean(hist') => Tracked(t, connect)  BY <1>6, <1>8, <1>9 DEF Tracked
  <1> QED  BY <1>1, <1>4, <1>8, <1>9, <1>10, <1>11, <1>12, IOHandler

LEMMA IOWriteHandlerFails ==
    ASSUME IOInv, NEW o \in ops, WriteHandlerFails(o)
    PROVE  IOInv'
  <1> DEFINE w == Without(o)
             t == do_write(w)
  <1>1. o.kind = "write" /\ budget' = budget  BY DEF WriteHandlerFails
  <1>2. CASE o.result = "fatal"
    <2>1. Handler(o, on_transport_down_(Without(o)))  BY <1>2 DEF WriteHandlerFails
    <2> QED  BY <1>1, <1>2, <2>1, FatalHandler
  <1>3. CASE o.result # "fatal"
    <2>1. o.result = "transient"  BY <1>3 DEF WriteHandlerFails
    <2>2. Handler(o, t) /\ Effective(o)  BY <2>1 DEF WriteHandlerFails, Effective
    <2> HIDE DEF t
    <2>3. /\ Sane(w) /\ w.s = s /\ w.arena = arena /\ w.ops = ops \ {o} /\ ~ s.stopped
          /\ Clean(hist') =>
               /\ Tracked(Now, connect) /\ s.conn # 0 /\ o.conn = s.conn
               /\ OneOf(ops, s.conn, "read") /\ WritesFit(Now)
      BY <2>2, HandlerFinds
    <2>4. Now.s = s /\ Now.arena = arena /\ Now.ops = ops /\ budget \in BudgetRecords  BY NowFields
    <2> HIDE DEF w
    <2>5. Same(w, t, {}) /\ t.arena = w.arena  BY <2>3, DoWriteIs DEF t
    <2>6. Numbered(t, connect, budget')
      <3>1. Numbered(Now, connect, budget)  BY DEF IOInv, Good
      <3> QED  BY <1>1, <2>3, <2>4, <2>5, <3>1 DEF Numbered
    <2>7. ASSUME Clean(hist')
          PROVE  /\ WritesFit(t) /\ OneOf(t.ops, s.conn, "read")
                 /\ Within(w, t) /\ t.s.fault = "none"
      <3>1. /\ NoneOf(w.ops, w.s.conn, "write") /\ OneOf(w.ops, w.s.conn, "read") /\ w.s.inflight
        BY <1>1, <2>3, <2>4, <2>7, WriteTaken
      <3>2. s.fault = "none"  BY <2>3, <2>4, <2>7 DEF Tracked
      <3> QED  BY <2>3, <2>7, <3>1, <3>2, WriteBegins DEF t
    <2> QED  BY <1>1, <2>2, <2>4, <2>5, <2>6, <2>7, KeptHandler DEF w
  <1> QED  BY <1>2, <1>3

LEMMA IOWriteHandler ==
    ASSUME IOInv, NEW o \in ops, WriteHandler(o)
    PROVE  IOInv'
  <1> DEFINE w == Without(o)
             u == Written(w, o.n)
             t == IF u.s.fault = "none" THEN do_write(u) ELSE u
  <1>1. o.kind = "write" /\ budget' = budget /\ Effective(o) /\ Handler(o, t)
    BY DEF WriteHandler, Effective
  <1> HIDE DEF t
  <1>2. /\ Sane(w) /\ w.s = s /\ w.arena = arena /\ w.ops = ops \ {o} /\ ~ s.stopped
        /\ o \in OpRecords
        /\ Clean(hist') =>
             /\ Tracked(Now, connect) /\ s.conn # 0 /\ o.conn = s.conn
             /\ OneOf(ops, s.conn, "read") /\ WritesFit(Now)
    BY <1>1, HandlerFinds
  <1>3. Now.s = s /\ Now.arena = arena /\ Now.ops = ops /\ budget \in BudgetRecords  BY NowFields
  <1> HIDE DEF w
  <1>4. o.n \in Nat  BY <1>2 DEF OpRecords
  <1>5. /\ Same(w, u, {}) /\ u.ops = w.ops /\ u.s.inflight = w.s.inflight
        /\ w.s.q # <<>> => u.s.fault = w.s.fault
    BY <1>2, <1>4, WrittenIs
  <1> HIDE DEF u
  <1>6. Sane(u)  BY <1>5 DEF Same
  <1>7. Same(w, t, {})
    <2>1. Same(u, do_write(u), {})  BY <1>6, DoWriteIs
    <2>2. Same(w, do_write(u), {})  BY <1>5, <2>1, SameTrans
    <2> QED  BY <1>5, <2>2 DEF t
  <1>8. Numbered(t, connect, budget')
    <2>1. Numbered(Now, connect, budget)  BY DEF IOInv, Good
    <2> QED  BY <1>1, <1>2, <1>3, <1>7, <2>1 DEF Numbered, Same
  <1>9. ASSUME Clean(hist')
        PROVE  /\ WritesFit(t) /\ OneOf(t.ops, s.conn, "read")
               /\ Within(w, t) /\ t.s.fault = "none"
    <2>1. /\ NoneOf(w.ops, w.s.conn, "write") /\ OneOf(w.ops, w.s.conn, "read") /\ w.s.inflight
          /\ w.s.q # <<>>
      BY <1>1, <1>2, <1>3, <1>9, WriteTaken
    <2>2. s.fault = "none"  BY <1>2, <1>3, <1>9 DEF Tracked
    <2>3. u.s.fault = "none" /\ t = do_write(u)  BY <1>2, <1>5, <2>1, <2>2 DEF t
    <2>4. u.s.conn = s.conn /\ ~ u.s.stopped /\ u.s.inflight  BY <1>2, <1>5, <2>1 DEF Same
    <2>5. /\ WritesFit(t) /\ Within(u, t) /\ t.s.fault = u.s.fault
          /\ OneOf(u.ops, u.s.conn, "read") => OneOf(t.ops, u.s.conn, "read")
      BY <1>2, <1>5, <1>6, <1>9, <2>1, <2>3, <2>4, WriteBegins
    <2> QED  BY <1>2, <1>5, <2>1, <2>3, <2>4, <2>5 DEF Within
  <1> QED  BY <1>1, <1>3, <1>7, <1>8, <1>9, KeptHandler DEF w

LEMMA IONext ==
    IOInv /\ [Next]_vars => IOInv'
  <1> SUFFICES ASSUME IOInv, [Next]_vars PROVE IOInv'  OBVIOUS
  <1>1. CASE Establish  BY <1>1, IOEstablish
  <1>2. CASE set_connection  BY <1>2, IOSetConnection
  <1>3. CASE start  BY <1>3, IOStart
  <1>4. CASE AppSend  BY <1>4, IOAppSend
  <1>5. CASE stop  BY <1>5, IOStop
  <1>6. ASSUME NEW o \in ops,
               \/ ReadSome(o) \/ WriteSome(o) \/ Fails(o) \/ Hiccup(o)
               \/ ReadHandlerFails(o) \/ ReadHandler(o) \/ ReadHandlerLogout(o)
               \/ WriteHandlerFails(o) \/ WriteHandler(o)
        PROVE  IOInv'
    <2> USE DEF BudgetRecords
    <2>1. budget \in BudgetRecords  BY NowFields
    <2>2. CASE ReadSome(o)
      <3>1. Completes(o, "ok", 0) /\ budget' = budget  BY <2>2 DEF ReadSome
      <3> QED  BY <2>1, <3>1, IOCompletes
    <2>3. CASE WriteSome(o)
      <3>1. PICK n \in 1..(Size - o.at) : Completes(o, "ok", n)  BY <2>3 DEF WriteSome
      <3>2. budget' = budget  BY <2>3 DEF WriteSome
      <3>3. n \in Nat
        <4>1. Now.ops = ops /\ Now \in Worlds  BY NowFields
        <4>2. o \in OpRecords  BY <4>1, WorldFields
        <4>3. o.at \in Nat /\ Size \in Nat  BY <4>2, IOAssumption DEF OpRecords
        <4> QED  BY <4>3
      <3> QED  BY <2>1, <3>1, <3>2, <3>3, IOCompletes
    <2>4. CASE Fails(o)
      <3>1. Completes(o, "fatal", 0) /\ budget' = budget  BY <2>4 DEF Fails
      <3> QED  BY <2>1, <3>1, IOCompletes
    <2>5. CASE Hiccup(o)
      <3>1. /\ Completes(o, "transient", 0) /\ budget.transient > 0
            /\ budget' = [budget EXCEPT !.transient = @ - 1]
        BY <2>5 DEF Hiccup
      <3>2. budget.transient - 1 \in Nat  BY <2>1, <3>1
      <3>3. budget' \in BudgetRecords /\ budget'.sends = budget.sends  BY <2>1, <3>1, <3>2
      <3> QED  BY <3>1, <3>3, IOCompletes
    <2>6. CASE ReadHandlerFails(o)  BY <2>6, IOReadHandlerFails
    <2>7. CASE ReadHandler(o)  BY <2>7, IOReadHandler
    <2>8. CASE ReadHandlerLogout(o)  BY <2>8, IOReadHandlerLogout
    <2>9. CASE WriteHandlerFails(o)  BY <2>9, IOWriteHandlerFails
    <2>10. CASE WriteHandler(o)  BY <2>10, IOWriteHandler
    <2> QED  BY <1>6, <2>2, <2>3, <2>4, <2>5, <2>6, <2>7, <2>8, <2>9, <2>10
  <1>7. CASE UNCHANGED vars
    <2>1. Now' = Now /\ connect' = connect /\ budget' = budget /\ hist' = hist
      BY <1>7 DEF vars, Now
    <2> QED  BY <2>1 DEF IOInv
  <1> QED  BY <1>1, <1>2, <1>3, <1>4, <1>5, <1>6, <1>7 DEF Next

-----------------------------------------------------------------------------
(* What was written to a connection *)

Texts == Seq(Nat \X Nat)

\* x begins the messages ms, each in Size pieces.
Laid(x, ms) ==
    /\ x \in Texts /\ ms \in Seq(Nat) /\ Len(x) <= Len(ms) * Size
    /\ \A i \in 1..Len(ms), p \in 1..Size :
         (i - 1) * Size + p <= Len(x) => x[(i - 1) * Size + p] = <<ms[i], p>>

\* Products with Size, which SMT does not unfold.
LEMMA Multiples ==
    ASSUME NEW a \in Nat, NEW b \in Nat
    PROVE  /\ a * Size \in Nat /\ b * Size \in Nat /\ Size \in Nat /\ Size > 0
           /\ (a + 1) * Size = a * Size + Size
           /\ a <= b => a * Size <= b * Size
           /\ a < b => a * Size + Size <= b * Size
  <1>1. Size \in Nat /\ Size > 0  BY IOAssumption
  <1>2. \A u \in Nat, v \in Nat : u * v \in Nat  OBVIOUS
  <1>3. a * Size \in Nat /\ b * Size \in Nat  BY <1>1, <1>2
  <1>4. (a + 1) * Size = a * Size + Size  BY <1>1
  <1>5. ASSUME a <= b PROVE a * Size <= b * Size
    <2>1. b - a \in Nat  BY <1>5
    <2>2. b * Size = a * Size + (b - a) * Size  BY <1>1
    <2>3. (b - a) * Size \in Nat  BY <1>1, <1>2, <2>1
    <2> QED  BY <1>3, <2>2, <2>3
  <1>6. ASSUME a < b PROVE a * Size + Size <= b * Size
    <2>1. b - a - 1 \in Nat  BY <1>6
    <2>2. b * Size = a * Size + Size + (b - a - 1) * Size  BY <1>1
    <2>3. (b - a - 1) * Size \in Nat  BY <1>1, <1>2, <2>1
    <2> QED  BY <1>1, <1>3, <2>2, <2>3
  <1> QED  BY <1>1, <1>3, <1>4, <1>5, <1>6

\* Nothing was sent and nothing written.
LEMMA LaidEmpty == Laid(<<>>, <<>>)
  <1>1. <<>> \in Texts /\ <<>> \in Seq(Nat) /\ Len(<<>>) = 0  BY DEF Texts
  <1>2. 0 * Size = 0  BY IOAssumption
  <1>3. 1..0 = {}  OBVIOUS
  <1> QED  BY <1>1, <1>2, <1>3 DEF Laid

\* One more message is to be written.
LEMMA LaidMore ==
    ASSUME NEW x, NEW ms, Laid(x, ms), NEW m \in Nat
    PROVE  Laid(x, Append(ms, m))
  <1> DEFINE n == Len(ms)
             r == Append(ms, m)
  <1>1. /\ x \in Texts /\ ms \in Seq(Nat) /\ Len(x) \in Nat /\ n \in Nat /\ Len(x) <= n * Size
    BY DEF Laid, Texts
  <1>2. /\ r \in Seq(Nat) /\ Len(r) = n + 1 /\ \A i \in 1..n : r[i] = ms[i]
    BY <1>1
  <1>3. n * Size \in Nat /\ (n + 1) * Size = n * Size + Size /\ Size \in Nat  BY <1>1, Multiples
  <1> HIDE DEF r, n
  <1>4. ASSUME NEW i \in 1..(n + 1), NEW p \in 1..Size, (i - 1) * Size + p <= Len(x)
        PROVE  x[(i - 1) * Size + p] = <<r[i], p>>
    <2>1. CASE i \in 1..n  BY <1>2, <1>4, <2>1 DEF Laid, n
    <2>2. CASE i = n + 1
      <3>1. i - 1 = n  BY <1>1, <2>2
      <3>2. n * Size + p <= Len(x)  BY <1>4, <3>1
      <3> QED  BY <1>1, <1>3, <3>2
    <2>3. i \in 1..n \/ i = n + 1  BY <1>1
    <2> QED  BY <2>1, <2>2, <2>3
  <1>5. Len(x) <= (n + 1) * Size  BY <1>1, <1>3
  <1> QED  BY <1>1, <1>2, <1>4, <1>5 DEF Laid, r

\* n pieces of the message behind the first d come next, at is where.
Due(x, ms, d, at, n) ==
    /\ Laid(x, ms) /\ d \in 0..(Len(ms) - 1) /\ at \in Nat /\ n \in Nat
    /\ Len(x) = d * Size + at /\ at + n <= Size

\* The pieces that are due go behind what was written.
LEMMA LaidPieces ==
    ASSUME NEW x, NEW ms, NEW d, NEW at, NEW n, Due(x, ms, d, at, n)
    PROVE  LET y == x \o Pieces(ms[d + 1], at, at + n)
           IN  Laid(y, ms) /\ Len(y) = Len(x) + n
  <1> DEFINE m == ms[d + 1]
             z == Pieces(m, at, at + n)
             y == x \o z
  <1>0. /\ Laid(x, ms) /\ d \in 0..(Len(ms) - 1) /\ at \in Nat /\ n \in Nat
        /\ Len(x) = d * Size + at /\ at + n <= Size
    BY DEF Due
  <1> USE <1>0
  <1>1. /\ x \in Texts /\ ms \in Seq(Nat) /\ Len(x) \in Nat /\ Len(ms) \in Nat /\ Size \in Nat
    BY IOAssumption DEF Laid, Texts
  <1>2. d \in Nat /\ d < Len(ms) /\ d + 1 \in 1..Len(ms) /\ m \in Nat  BY <1>1
  <1> HIDE DEF m
  <1>3. z \in Texts /\ Len(z) = n /\ \A i \in 1..n : z[i] = <<m, at + i>>
    <2>1. at + n - at = n  OBVIOUS
    <2>2. z = [i \in 1..n |-> <<m, at + i>>]  BY <2>1 DEF Pieces
    <2>3. \A i \in 1..n : <<m, at + i>> \in Nat \X Nat  BY <1>2
    <2>4. z \in [1..n -> Nat \X Nat]  BY <2>2, <2>3
    <2>5. z \in Seq(Nat \X Nat) /\ DOMAIN z = 1..n  BY <2>4, SeqDef, Zenon
    <2>6. Len(z) = n  BY <2>5
    <2> QED  BY <2>2, <2>5, <2>6 DEF Texts
  <1> HIDE DEF z
  <1>4. /\ y \in Texts /\ Len(y) = Len(x) + n /\ \A i \in 1..Len(x) : y[i] = x[i]
        /\ \A i \in 1..n : y[Len(x) + i] = z[i]
    <2>1. x \in Seq(Nat \X Nat) /\ z \in Seq(Nat \X Nat)  BY <1>1, <1>3 DEF Texts
    <2>2. /\ y \in Seq(Nat \X Nat) /\ Len(y) = Len(x) + Len(z)
          /\ \A i \in 1..(Len(x) + Len(z)) : y[i] = IF i <= Len(x) THEN x[i] ELSE z[i - Len(x)]
      BY <2>1, ConcatProperties
    <2> HIDE DEF y
    <2>3. \A i \in 1..Len(x) : y[i] = x[i]  BY <1>1, <1>3, <2>2
    <2>4. ASSUME NEW i \in 1..n PROVE y[Len(x) + i] = z[i]
      <3> DEFINE j == Len(x) + i
      <3>1. j \in 1..(Len(x) + Len(z)) /\ ~ (j <= Len(x)) /\ j - Len(x) = i  BY <1>1, <1>3
      <3> HIDE DEF j
      <3>2. y[j] = IF j <= Len(x) THEN x[j] ELSE z[j - Len(x)]  BY <2>2, <3>1
      <3>3. y[j] = z[i]  BY <3>1, <3>2
      <3> QED  BY <3>3 DEF j
    <2> QED  BY <1>3, <2>2, <2>3, <2>4 DEF Texts
  <1> HIDE DEF y
  <1>5. d * Size \in Nat /\ d * Size + Size <= Len(ms) * Size /\ Len(ms) * Size \in Nat
    BY <1>1, <1>2, Multiples
  <1>6. Len(y) <= Len(ms) * Size  BY <1>1, <1>4, <1>5
  <1>7. ASSUME NEW i \in 1..Len(ms), NEW p \in 1..Size, (i - 1) * Size + p <= Len(y)
        PROVE  y[(i - 1) * Size + p] = <<ms[i], p>>
    <2> DEFINE j == i - 1
               a == j * Size
    <2>1. j \in Nat /\ i = j + 1  BY <1>1
    <2> HIDE DEF j
    <2>2. /\ a \in Nat /\ (j < d => a + Size <= d * Size) /\ (d < j => d * Size + Size <= a)
      BY <1>2, <2>1, Multiples
    <2>3. a + p <= Len(y)  BY <1>7 DEF j
    <2>4. CASE a + p <= Len(x)
      <3>1. a + p \in 1..Len(x)  BY <1>1, <2>2, <2>4
      <3>2. x[a + p] = <<ms[i], p>>  BY <2>4 DEF Laid, j
      <3> QED  BY <1>4, <3>1, <3>2 DEF j
    <2>5. CASE ~ (a + p <= Len(x))
      <3> DEFINE b == d * Size
      <3>1. j = d
        <4>1. b \in Nat /\ p \in Nat /\ p <= Size /\ p >= 1 /\ Len(x) = b + at /\ Len(y) = b + at + n
          BY <1>1, <1>4, <1>5
        <4>2. (j < d => a + Size <= b) /\ (d < j => b + Size <= a)  BY <2>2
        <4> HIDE DEF a, b
        <4>3. a \in Nat  BY <2>2 DEF a
        <4>4. ~ (j < d) /\ ~ (d < j)  BY <1>1, <2>3, <2>5, <4>1, <4>2, <4>3
        <4> QED  BY <1>2, <2>1, <4>4
      <3>2. a = b /\ ms[i] = m  BY <2>1, <3>1 DEF m
      <3>3. p - at \in 1..n /\ a + p = Len(x) + (p - at) /\ at + (p - at) = p
        <4>1. b \in Nat /\ p \in Nat /\ Len(x) = b + at /\ Len(y) = b + at + n  BY <1>1, <1>4, <1>5
        <4> HIDE DEF a, b
        <4> QED  BY <2>3, <2>5, <3>2, <4>1
      <3>4. y[Len(x) + (p - at)] = <<m, at + (p - at)>>  BY <1>3, <1>4, <3>3
      <3> QED  BY <3>2, <3>3, <3>4 DEF j
    <2> QED  BY <2>4, <2>5
  <1>8. Laid(y, ms)  BY <1>1, <1>4, <1>6, <1>7 DEF Laid
  <1> QED  BY <1>4, <1>8 DEF y, z, m

\* Every position below n messages is one of a piece of a message.
LEMMA Positions ==
    ASSUME NEW n \in Nat
    PROVE  \A j \in 1..(n * Size) : \E i \in 1..n, p \in 1..Size : j = (i - 1) * Size + p
  <1> DEFINE T == {k \in Nat : \A j \in Nat \ {0} : j <= k * Size =>
                                 \E i \in 1..k, p \in 1..Size : j = (i - 1) * Size + p}
  <1>1. 0 \in T
    <2>1. 0 * Size = 0  BY IOAssumption
    <2>2. \A j \in Nat \ {0} : ~ (j <= 0 * Size)  BY <2>1
    <2> QED  BY <2>2
  <1>2. ASSUME NEW k \in Nat, k \in T PROVE k + 1 \in T
    <2> SUFFICES ASSUME NEW j \in Nat \ {0}, j <= (k + 1) * Size
                 PROVE  \E i \in 1..(k + 1), p \in 1..Size : j = (i - 1) * Size + p
      OBVIOUS
    <2>1. (k + 1) * Size = k * Size + Size /\ k * Size \in Nat /\ Size \in Nat  BY Multiples
    <2>2. CASE j <= k * Size
      <3>1. PICK i \in 1..k, p \in 1..Size : j = (i - 1) * Size + p  BY <1>2, <2>2
      <3>2. i \in 1..(k + 1)  OBVIOUS
      <3> QED  BY <3>1, <3>2
    <2>3. CASE ~ (j <= k * Size)
      <3> DEFINE a == k * Size
                 p == j - a
      <3>1. a \in Nat /\ ~ (j <= a) /\ j <= a + Size  BY <2>1, <2>3
      <3>2. k + 1 - 1 = k /\ k + 1 \in 1..(k + 1)  OBVIOUS
      <3>3. (k + 1 - 1) * Size = a  BY <3>2
      <3> HIDE DEF a
      <3>4. p \in 1..Size /\ j = a + p  BY <2>1, <3>1
      <3> HIDE DEF p
      <3> QED  BY <3>2, <3>3, <3>4
    <2> QED  BY <2>2, <2>3
  <1> HIDE DEF T
  <1>3. n \in T  BY <1>1, <1>2, SetInduction
  <1>4. n * Size \in Nat  BY Multiples
  <1>5. \A j \in 1..(n * Size) : j \in Nat \ {0} /\ j <= n * Size  BY <1>4
  <1> QED  BY <1>3, <1>5 DEF T

\* Two beginnings of the same messages: the shorter is one of the longer.
LEMMA LaidPrefix ==
    ASSUME NEW x, NEW y, NEW ms, Laid(x, ms), Laid(y, ms), Len(x) <= Len(y)
    PROVE  IsPrefix(x, y)
  <1>1. /\ x \in Seq(Nat \X Nat) /\ y \in Seq(Nat \X Nat) /\ ms \in Seq(Nat)
        /\ Len(x) \in Nat /\ Len(y) \in Nat /\ Len(ms) \in Nat
        /\ Len(x) <= Len(ms) * Size
    BY DEF Laid, Texts
  <1>2. ASSUME NEW j \in 1..Len(x) PROVE x[j] = y[j] /\ j \in 1..Len(y)
    <2>1. Len(ms) * Size \in Nat  BY <1>1, Multiples
    <2>2. j \in 1..(Len(ms) * Size)  BY <1>1, <2>1
    <2>3. PICK i \in 1..Len(ms), p \in 1..Size : j = (i - 1) * Size + p  BY <1>1, <2>2, Positions
    <2>4. (i - 1) * Size + p <= Len(x) /\ (i - 1) * Size + p <= Len(y)  BY <1>1, <2>3
    <2>5. x[(i - 1) * Size + p] = <<ms[i], p>> /\ y[(i - 1) * Size + p] = <<ms[i], p>>
      BY <2>4 DEF Laid
    <2> QED  BY <1>1, <2>3, <2>5
  <1>3. SubSeq(x, 1, Len(x)) = [j \in 1..Len(x) |-> x[j]]
    BY <1>1
  <1>4. SubSeq(y, 1, Len(x)) = [j \in 1..Len(x) |-> y[j]]
    BY <1>1
  <1>5. SubSeq(x, 1, Len(x)) = SubSeq(y, 1, Len(x))  BY <1>2, <1>3, <1>4
  <1> QED  BY <1>5 DEF IsPrefix

\* The recursive function behind FlattenSeq.
FlatOf(g, n, f) == f = [i \in 1..n |-> IF i = 1 THEN g[i] ELSE f[i - 1] \o g[i]]

FlatUpTo(g, n, f) == \A i \in 1..n : f[i] = IF i = 1 THEN g[i] ELSE f[i - 1] \o g[i]

HasFlat(g, n) == \E f : DOMAIN f = 1..n /\ FlatUpTo(g, n, f)

Flat(g, n) == CHOOSE f : FlatOf(g, n, f)

\* FlattenSeq in steps: a function of how many sequences were put together.
LEMMA FlatExists ==
    ASSUME NEW g, NEW n \in Nat
    PROVE  FlatOf(g, n, Flat(g, n))
  <1> DEFINE T == {k \in Nat : HasFlat(g, k)}
  <1>1. 0 \in T
    <2> DEFINE f == [i \in 1..0 |-> 0]
    <2>1. DOMAIN f = 1..0 /\ FlatUpTo(g, 0, f)  BY DEF FlatUpTo
    <2> QED  BY <2>1 DEF HasFlat
  <1>2. ASSUME NEW k \in Nat, k \in T PROVE k + 1 \in T
    <2>1. PICK f : DOMAIN f = 1..k /\ FlatUpTo(g, k, f)  BY <1>2 DEF HasFlat
    <2> DEFINE h == [i \in 1..(k + 1) |-> IF i <= k THEN f[i]
                                          ELSE IF i = 1 THEN g[i] ELSE f[i - 1] \o g[i]]
    <2>2. ASSUME NEW i \in 1..(k + 1)
          PROVE  h[i] = IF i = 1 THEN g[i] ELSE h[i - 1] \o g[i]
      <3>1. i # 1 => i - 1 \in 1..(k + 1) /\ i - 1 <= k  OBVIOUS
      <3>2. i # 1 => h[i - 1] = f[i - 1]  BY <3>1
      <3>3. CASE i <= k
        <4>1. i \in 1..k  BY <3>3
        <4>2. h[i] = f[i]  BY <3>3
        <4>3. f[i] = IF i = 1 THEN g[i] ELSE f[i - 1] \o g[i]  BY <2>1, <4>1 DEF FlatUpTo
        <4> QED  BY <3>2, <4>2, <4>3
      <3>4. CASE ~ (i <= k)
        <4>1. h[i] = IF i = 1 THEN g[i] ELSE f[i - 1] \o g[i]  BY <3>4
        <4> QED  BY <3>2, <4>1
      <3> QED  BY <3>3, <3>4
    <2>3. DOMAIN h = 1..(k + 1)  OBVIOUS
    <2> HIDE DEF h
    <2>4. FlatUpTo(g, k + 1, h)  BY <2>2 DEF FlatUpTo
    <2>5. HasFlat(g, k + 1)  BY <2>3, <2>4 DEF HasFlat
    <2> QED  BY <2>5
  <1> HIDE DEF T
  <1>3. n \in T  BY <1>1, <1>2, SetInduction
  <1>4. HasFlat(g, n)  BY <1>3 DEF T
  <1>5. PICK f : DOMAIN f = 1..n /\ FlatUpTo(g, n, f)  BY <1>4 DEF HasFlat
  <1> DEFINE h == [i \in 1..n |-> f[i]]
  <1>6. ASSUME NEW i \in 1..n PROVE h[i] = IF i = 1 THEN g[i] ELSE h[i - 1] \o g[i]
    <2>1. i # 1 => i - 1 \in 1..n  OBVIOUS
    <2>2. h[i] = f[i] /\ (i # 1 => h[i - 1] = f[i - 1])  BY <2>1
    <2> HIDE DEF h
    <2> QED  BY <1>5, <2>2 DEF FlatUpTo
  <1>7. h = [i \in 1..n |-> h[i]]  OBVIOUS
  <1> HIDE DEF h
  <1>8. FlatOf(g, n, h)  BY <1>6, <1>7 DEF FlatOf
  <1> QED  BY <1>8, Zenon DEF Flat

\* Those steps are what FlattenSeq is defined by.
LEMMA FlattenIs ==
    ASSUME NEW g, Len(g) # 0
    PROVE  FlattenSeq(g) = Flat(g, Len(g))[Len(g)]
  BY Zenon DEF FlattenSeq, Flat, FlatOf

\* The next message, whole.
LEMMA LaidNext ==
    ASSUME NEW x, NEW ms, Laid(x, ms), NEW d \in 0..(Len(ms) - 1), Len(x) = d * Size
    PROVE  LET y == x \o Pieces(ms[d + 1], 0, Size)
           IN  Laid(y, ms) /\ Len(y) = Len(x) + Size
  <1>1. Size \in Nat /\ 0 + Size = Size /\ d * Size \in Nat /\ d \in Nat  BY IOAssumption, Multiples
  <1>2. Due(x, ms, d, 0, Size)  BY <1>1 DEF Due
  <1>3. LET y == x \o Pieces(ms[d + 1], 0, 0 + Size)
        IN  Laid(y, ms) /\ Len(y) = Len(x) + Size
    BY <1>2, LaidPieces
  <1> QED  BY <1>1, <1>3

\* One message is Size pieces.
LEMMA PiecesAlone ==
    ASSUME NEW m
    PROVE  <<>> \o Pieces(m, 0, Size) = Pieces(m, 0, Size)
  <1> DEFINE S == {<<m, 0 + i>> : i \in 1..(Size - 0)}
             z == Pieces(m, 0, Size)
             n == Size - 0
  <1>1. z \in [1..n -> S] /\ n \in Nat  BY IOAssumption DEF Pieces
  <1> HIDE DEF S, z, n
  <1>2. z \in Seq(S)  BY <1>1, SeqDef, Zenon
  <1>3. <<>> \o z = z  BY <1>2
  <1> QED  BY <1>3 DEF z

\* All pieces of all messages.
LEMMA LaidWhole ==
    ASSUME NEW ms \in Seq(Nat)
    PROVE  LET y == FlattenSeq([i \in DOMAIN ms |-> Pieces(ms[i], 0, Size)])
           IN  Laid(y, ms) /\ Len(y) = Len(ms) * Size
  <1> DEFINE n == Len(ms)
             g == [i \in DOMAIN ms |-> Pieces(ms[i], 0, Size)]
             f == Flat(g, n)
  <1>1. n \in Nat /\ DOMAIN ms = 1..n  OBVIOUS
  <1>2. \A i \in 1..n : g[i] = Pieces(ms[i], 0, Size)  BY <1>1
  <1>3. Len(g) = n
    <2>1. DOMAIN g = 1..n  BY <1>1
    <2> QED  BY <1>1, <2>1
  <1> HIDE DEF g
  <1>4. Laid(<<>>, ms)
    <2>1. <<>> \in Texts /\ Len(<<>>) = 0  BY DEF Texts
    <2>2. n * Size \in Nat  BY <1>1, Multiples
    <2>3. ASSUME NEW i \in 1..n, NEW p \in 1..Size PROVE ~ ((i - 1) * Size + p <= 0)
      <3>1. i - 1 \in Nat  BY <1>1
      <3>2. (i - 1) * Size \in Nat  BY <3>1, Multiples
      <3> QED  BY <3>2, IOAssumption
    <2> QED  BY <2>1, <2>2, <2>3 DEF Laid
  <1>5. CASE n = 0
    <2>1. ms = <<>>  BY <1>5
    <2>2. g = <<>>  BY <1>1, <1>5 DEF g
    <2>3. FlattenSeq(g) = <<>>  BY <1>3, <1>5, <2>2, Zenon DEF FlattenSeq
    <2>4. 0 * Size = 0 /\ Len(<<>>) = 0  BY IOAssumption
    <2>5. Laid(FlattenSeq(g), ms) /\ Len(FlattenSeq(g)) = Len(ms) * Size  BY <1>4, <1>5, <2>3, <2>4
    <2> QED  BY <2>5 DEF g
  <1>6. CASE n # 0
    <2>1. FlattenSeq(g) = f[n]  BY <1>3, <1>6, FlattenIs
    <2>2. FlatOf(g, n, f)  BY <1>1, FlatExists
    <2> HIDE DEF f
    <2>3. \A i \in 1..n : f[i] = IF i = 1 THEN g[i] ELSE f[i - 1] \o g[i]  BY <2>2 DEF FlatOf
    <2> DEFINE At(i) == IF i = 0 THEN <<>> ELSE f[i]
               T == {k \in Nat : k <= n => Laid(At(k), ms) /\ Len(At(k)) = k * Size}
    <2>4. 0 \in T
      <3>1. At(0) = <<>> /\ Len(<<>>) = 0 /\ 0 * Size = 0  BY IOAssumption
      <3> HIDE DEF At
      <3> QED  BY <1>4, <3>1
    <2>5. ASSUME NEW k \in Nat, k \in T PROVE k + 1 \in T
      <3> SUFFICES ASSUME k + 1 <= n PROVE Laid(At(k + 1), ms) /\ Len(At(k + 1)) = (k + 1) * Size
        OBVIOUS
      <3>1. Laid(At(k), ms) /\ Len(At(k)) = k * Size  BY <2>5, <1>1
      <3>2. k \in 0..(Len(ms) - 1) /\ k + 1 \in 1..n /\ k + 1 # 0  BY <1>1
      <3>3. At(k + 1) = At(k) \o Pieces(ms[k + 1], 0, Size)
        <4>1. At(k + 1) = f[k + 1] /\ g[k + 1] = Pieces(ms[k + 1], 0, Size)  BY <1>2, <3>2
        <4>2. CASE k = 0
          <5>1. f[1] = g[1] /\ At(0) = <<>>  BY <2>3, <3>2, <4>2
          <5>2. <<>> \o g[1] = g[1]  BY <4>1, <4>2, PiecesAlone
          <5> QED  BY <4>1, <4>2, <5>1, <5>2
        <4>3. CASE k # 0
          <5> DEFINE j == k + 1
          <5>1. j \in 1..n /\ j # 1 /\ j - 1 = k  BY <3>2, <4>3
          <5> HIDE DEF j
          <5>2. f[j] = f[j - 1] \o g[j]  BY <2>3, <5>1
          <5>3. f[j] = f[k] \o g[j]  BY <5>1, <5>2
          <5>4. At(j) = f[j] /\ At(k) = f[k]  BY <4>1, <4>3 DEF j
          <5> HIDE DEF At
          <5> QED  BY <4>1, <5>3, <5>4 DEF j
        <4> QED  BY <4>2, <4>3
      <3> HIDE DEF At, T
      <3>5. Laid(At(k + 1), ms) /\ Len(At(k + 1)) = Len(At(k)) + Size
        BY <3>1, <3>2, <3>3, LaidNext
      <3>6. (k + 1) * Size = k * Size + Size  BY Multiples
      <3> QED  BY <3>1, <3>5, <3>6
    <2> HIDE DEF T
    <2>6. n \in T  BY <1>1, <2>4, <2>5, SetInduction
    <2>7. Laid(At(n), ms) /\ Len(At(n)) = n * Size  BY <1>1, <2>6 DEF T
    <2>8. Laid(FlattenSeq(g), ms) /\ Len(FlattenSeq(g)) = n * Size  BY <1>6, <2>1, <2>7
    <2> QED  BY <2>8 DEF g
  <1> QED  BY <1>5, <1>6

\* What Laid says is what WireIntact asks for.
LEMMA LaidIsPrefix ==
    ASSUME NEW x, NEW ms, Laid(x, ms)
    PROVE  IsPrefix(x, FlattenSeq([i \in DOMAIN ms |-> Pieces(ms[i], 0, Size)]))
  <1> DEFINE y == FlattenSeq([i \in DOMAIN ms |-> Pieces(ms[i], 0, Size)])
  <1>1. ms \in Seq(Nat) /\ Len(x) <= Len(ms) * Size  BY DEF Laid
  <1>2. Laid(y, ms) /\ Len(y) = Len(ms) * Size  BY <1>1, LaidWhole
  <1> HIDE DEF y
  <1>3. IsPrefix(x, y)  BY <1>1, <1>2, LaidPrefix
  <1> QED  BY <1>3 DEF y

-----------------------------------------------------------------------------
(* What the queued messages are *)

\* A new message is found behind its handle, and the others behind theirs.
LEMMA AllocateReads ==
    ASSUME NEW a, NEW q, Holds(a, q), NEW m \in Nat \ a.heap, NEW large \in BOOLEAN
    PROVE  LET c == from_arena(a, m, large)
           IN  /\ Read(c, Allocated(a, m, large)) = m
               /\ \A i \in 1..Len(q) : Read(c, q[i].handle) = Read(a, q[i].handle)
  <1> USE BlockNumbers
  <1> DEFINE h == Allocated(a, m, large)
             c == from_arena(a, m, large)
  <1>1. a \in ArenaRecords /\ q \in Seq(Items) /\ Len(q) \in Nat  BY DEF Holds
  <1>2. /\ a.free_index \in Nat /\ a.heap \in SUBSET Nat
        /\ a.block \in [Blocks -> {"link", "msg"} \X Nat]
    BY <1>1 DEF ArenaRecords
  <1>3. CASE h.source = "Heap"
    <2>1. h = [source |-> "Heap", index |-> m] /\ c = [a EXCEPT !.heap = @ \cup {m}]
      BY <1>3 DEF Allocated, from_arena
    <2>2. c.block = a.block /\ c.heap = a.heap \cup {m}  BY <1>1, <2>1 DEF ArenaRecords
    <2> HIDE DEF c, h
    <2>3. Read(c, h) = m  BY <2>1, <2>2 DEF Read
    <2>4. ASSUME NEW i \in 1..Len(q) PROVE Read(c, q[i].handle) = Read(a, q[i].handle)
      <3>1. CASE q[i].handle.source = "Heap"
        <4>1. q[i].handle.index \in Nat  BY <1>1, ItemFields
        <4>2. OnHeap(q, i, q[i].handle.index)  BY <3>1 DEF OnHeap
        <4>3. q[i].handle.index \in a.heap  BY <4>1, <4>2 DEF Holds
        <4> QED  BY <2>2, <3>1, <4>3 DEF Read
      <3>2. CASE q[i].handle.source # "Heap"  BY <2>2, <3>2 DEF Read
      <3> QED  BY <3>1, <3>2
    <2> QED  BY <2>3, <2>4 DEF c, h
  <1>4. CASE h.source # "Heap"
    <2> DEFINE x == a.free_index
    <2>1. /\ x # End /\ h = [source |-> "Arena", index |-> x]
          /\ c = [a EXCEPT !.free_index = a.block[@][2], !.block[a.free_index] = <<"msg", m>>]
      BY <1>4 DEF Allocated, from_arena
    <2>2. PICK fl \in Seq(Blocks) :
           /\ Chain(a, fl)
           /\ \A b \in Blocks : (\E i \in 1..Len(fl) : fl[i] = b)
                                  <=> ~ \E i \in 1..Len(q) : InArena(q, i, b)
      BY DEF Holds
    <2>3. fl # <<>> /\ x = fl[1]  BY <2>1, <2>2 DEF Chain
    <2>4. 1 \in 1..Len(fl) /\ x \in Blocks  BY <2>3
    <2>5. \A i \in 1..Len(q) : ~ InArena(q, i, x)  BY <2>2, <2>3, <2>4
    <2>6. c.heap = a.heap /\ c.block = [a.block EXCEPT ![x] = <<"msg", m>>]
      BY <1>1, <2>1 DEF ArenaRecords
    <2>7. c.block[x] = <<"msg", m>> /\ \A b \in Blocks \ {x} : c.block[b] = a.block[b]
      BY <1>2, <2>4, <2>6
    <2> HIDE DEF c, h, x
    <2>8. Read(c, h) = m  BY <2>1, <2>7 DEF Read
    <2>9. ASSUME NEW i \in 1..Len(q) PROVE Read(c, q[i].handle) = Read(a, q[i].handle)
      <3>1. CASE q[i].handle.source = "Heap"  BY <2>6, <3>1 DEF Read
      <3>2. CASE q[i].handle.source # "Heap"
        <4>1. q[i].handle.source = "Arena"  BY <1>1, <3>2, ItemFields
        <4>2. q[i].handle.index \in Blocks  BY <4>1 DEF Holds
        <4>3. q[i].handle.index # x  BY <2>5, <4>1 DEF InArena
        <4> QED  BY <2>7, <3>2, <4>2, <4>3 DEF Read
      <3> QED  BY <3>1, <3>2
    <2> QED  BY <2>8, <2>9 DEF c, h
  <1> QED  BY <1>3, <1>4

\* The end of the front leaves the others.
LEMMA ReleaseReads ==
    ASSUME NEW a, NEW q, Holds(a, q), q # <<>>
    PROVE  \A i \in 2..Len(q) : Read(release(a, q[1].handle), q[i].handle) = Read(a, q[i].handle)
  <1> USE BlockNumbers
  <1> DEFINE h == q[1].handle
             c == release(a, h)
  <1>1. a \in ArenaRecords /\ q \in Seq(Items) /\ Len(q) \in Nat  BY DEF Holds
  <1>2. /\ a.heap \in SUBSET Nat /\ a.block \in [Blocks -> {"link", "msg"} \X Nat]
    BY <1>1 DEF ArenaRecords
  <1>3. 1 \in 1..Len(q)  BY <1>1
  <1>4. h \in HandleSet /\ h.source \in {"Heap", "Arena"}  BY <1>1, <1>3, ItemFields
  <1>5. ASSUME NEW i \in 2..Len(q) PROVE Read(c, q[i].handle) = Read(a, q[i].handle)
    <2> DEFINE g == q[i].handle
    <2>1. i \in 1..Len(q) /\ i # 1  BY <1>1
    <2>2. g \in HandleSet /\ g.source \in {"Heap", "Arena"}  BY <1>1, <2>1, ItemFields
    <2>3. g # h  BY <1>3, <2>1 DEF Holds
    <2>4. g.source = h.source => g.index # h.index  BY <1>4, <2>2, <2>3 DEF HandleSet
    <2>5. g.source = "Arena" => g.index \in Blocks  BY <2>1 DEF Holds
    <2>6. h.source = "Arena" => h.index \in Blocks  BY <1>3 DEF Holds
    <2> HIDE DEF g, h
    <2>7. CASE h.source = "Heap"
      <3>1. c = [a EXCEPT !.heap = @ \ {h.index}]  BY <2>7 DEF release
      <3>2. c.heap = a.heap \ {h.index} /\ c.block = a.block  BY <1>1, <3>1 DEF ArenaRecords
      <3> HIDE DEF c
      <3>3. Read(c, g) = Read(a, g)  BY <2>4, <2>7, <3>2 DEF Read
      <3> QED  BY <3>3 DEF c, g
    <2>8. CASE h.source = "Arena"
      <3>1. c = [a EXCEPT !.free_index = h.index, !.block[h.index] = <<"link", a.free_index>>]
        BY <2>8 DEF release
      <3>2. c.heap = a.heap /\ c.block = [a.block EXCEPT ![h.index] = <<"link", a.free_index>>]
        BY <1>1, <3>1 DEF ArenaRecords
      <3>3. \A b \in Blocks : b # h.index => c.block[b] = a.block[b]  BY <1>2, <3>2
      <3> HIDE DEF c
      <3>4. g.source # "Heap" => c.block[g.index] = a.block[g.index]
        BY <2>2, <2>4, <2>5, <2>8, <3>3
      <3>5. Read(c, g) = Read(a, g)  BY <3>2, <3>4 DEF Read
      <3> QED  BY <3>5 DEF c, g
    <2> QED  BY <1>4, <2>7, <2>8 DEF h
  <1> QED  BY <1>5

\* Of the messages ms those in q are yet to be written; n pieces of the
\* first, behind its sent, are among the len pieces that were.
Backlog(a, q, ms, len, n) ==
    /\ Len(q) <= Len(ms)
    /\ \A i \in 1..Len(q) : Read(a, q[i].handle) = ms[Len(ms) - Len(q) + i]
    /\ \A i \in 2..Len(q) : q[i].sent = 0
    /\ len = (Len(ms) - Len(q)) * Size + (IF q = <<>> THEN 0 ELSE q[1].sent + n)
    /\ q # <<>> => q[1].sent < Size /\ q[1].sent + n <= Size

\* Nothing is queued and nothing was sent.
LEMMA BacklogEmpty ==
    ASSUME NEW a
    PROVE  Backlog(a, <<>>, <<>>, 0, 0)
  <1>1. Len(<<>>) = 0 /\ (0 - 0) * Size + 0 = 0 /\ 1..0 = {} /\ 2..0 = {}  BY IOAssumption
  <1> QED  BY <1>1 DEF Backlog

\* One more message is queued.
LEMMA BacklogMore ==
    ASSUME NEW a, NEW q, Holds(a, q), NEW ms \in Seq(Nat), NEW len \in Nat, NEW n \in Nat,
           Backlog(a, q, ms, len, n), NEW m \in Nat \ a.heap, NEW large \in BOOLEAN
    PROVE  Backlog(from_arena(a, m, large),
                   Append(q, [handle |-> Allocated(a, m, large), sent |-> 0]),
                   Append(ms, m), len, IF q = <<>> THEN 0 ELSE n)
  <1> DEFINE h == Allocated(a, m, large)
             c == from_arena(a, m, large)
             p == Append(q, [handle |-> h, sent |-> 0])
             r == Append(ms, m)
             k == IF q = <<>> THEN 0 ELSE n
             lq == Len(q)
             lm == Len(ms)
  <1>1. q \in Seq(Items) /\ lq \in Nat /\ lm \in Nat  BY DEF Holds
  <1>2. Read(c, h) = m /\ \A i \in 1..lq : Read(c, q[i].handle) = Read(a, q[i].handle)
    BY AllocateReads
  <1> HIDE DEF h, c
  <1>3. h \in HandleSet /\ [handle |-> h, sent |-> 0] \in Items /\ p \in Seq(Items)
    <2>1. h \in HandleSet  BY DEF h, Allocated, HandleSet, Holds, ArenaRecords
    <2> QED  BY <1>1, <2>1 DEF Items
  <1>4. /\ Len(p) = lq + 1 /\ (\A i \in 1..lq : p[i] = q[i])
        /\ p[lq + 1].handle = h /\ p[lq + 1].sent = 0 /\ p # <<>>
    BY <1>1, <1>3
  <1>5. /\ Len(r) = lm + 1 /\ (\A i \in 1..lm : r[i] = ms[i]) /\ r[lm + 1] = m
    BY <1>1
  <1> HIDE DEF p, r
  <1>6. /\ lq <= lm
        /\ \A i \in 1..lq : Read(a, q[i].handle) = ms[lm - lq + i]
        /\ \A i \in 2..lq : q[i].sent = 0
        /\ len = (lm - lq) * Size + (IF q = <<>> THEN 0 ELSE q[1].sent + n)
        /\ q # <<>> => q[1].sent < Size /\ q[1].sent + n <= Size
    BY DEF Backlog
  <1>7. q = <<>> <=> lq = 0  BY <1>1
  <1> HIDE DEF lq, lm
  <1>8. Len(p) <= Len(r) /\ Len(r) - Len(p) = lm - lq  BY <1>1, <1>4, <1>5, <1>6
  <1>9. ASSUME NEW i \in 1..Len(p) PROVE Read(c, p[i].handle) = r[Len(r) - Len(p) + i]
    <2>1. CASE i \in 1..lq
      <3>1. Read(c, p[i].handle) = ms[lm - lq + i]  BY <1>2, <1>4, <1>6, <2>1
      <3>2. lm - lq + i \in 1..lm  BY <1>1, <1>6, <2>1
      <3>3. r[lm - lq + i] = ms[lm - lq + i]  BY <1>5, <3>2
      <3> QED  BY <1>8, <3>1, <3>3
    <2>2. CASE i = lq + 1
      <3>1. lm - lq + i = lm + 1  BY <1>1, <2>2
      <3> QED  BY <1>2, <1>4, <1>5, <1>8, <2>2, <3>1
    <2>3. i \in 1..lq \/ i = lq + 1  BY <1>1, <1>4
    <2> QED  BY <2>1, <2>2, <2>3
  <1>10. ASSUME NEW i \in 2..Len(p) PROVE p[i].sent = 0
    <2>1. i \in 2..lq \/ i = lq + 1  BY <1>1, <1>4
    <2>2. i \in 2..lq => p[i].sent = 0
      <3>1. i \in 2..lq => i \in 1..lq  BY <1>1
      <3> QED  BY <1>4, <1>6, <3>1
    <2> QED  BY <1>4, <2>1, <2>2
  <1>11. /\ len = (Len(r) - Len(p)) * Size + (p[1].sent + k)
         /\ p[1].sent < Size /\ p[1].sent + k <= Size
    <2>1. CASE q = <<>>
      <3>1. p[1].sent = 0 /\ k = 0  BY <1>1, <1>4, <1>7, <2>1
      <3>2. len = (lm - lq) * Size + 0  BY <1>6, <2>1
      <3> QED  BY <1>8, <3>1, <3>2, IOAssumption
    <2>2. CASE q # <<>>
      <3>1. 1 \in 1..lq /\ k = n  BY <1>1, <1>7, <2>2
      <3>2. p[1] = q[1]  BY <1>4, <3>1
      <3> QED  BY <1>6, <1>8, <2>2, <3>1, <3>2
    <2> QED  BY <2>1, <2>2
  <1> HIDE DEF k
  <1>12. Backlog(c, p, r, len, k)  BY <1>4, <1>8, <1>9, <1>10, <1>11 DEF Backlog
  <1> QED  BY <1>12 DEF c, p, r, k, h

\* The front is written.
LEMMA BacklogWhole ==
    ASSUME NEW a, NEW q, Holds(a, q), NEW ms \in Seq(Nat), NEW len \in Nat, NEW n \in Nat,
           Backlog(a, q, ms, len, n), q # <<>>, q[1].sent + n >= Size
    PROVE  Backlog(release(a, Head(q).handle), Tail(q), ms, len, 0)
  <1> DEFINE c == release(a, q[1].handle)
             p == Tail(q)
             lq == Len(q)
             lm == Len(ms)
             d == lm - lq
  <1>1. q \in Seq(Items) /\ lq \in Nat /\ lm \in Nat /\ Head(q) = q[1]  BY DEF Holds
  <1>2. /\ p \in Seq(Items) /\ Len(p) = lq - 1 /\ lq \in Nat \ {0}
        /\ \A i \in 1..Len(p) : p[i] = q[i + 1]
    BY <1>1, HeadTailProperties
  <1>3. \A i \in 2..lq : Read(c, q[i].handle) = Read(a, q[i].handle)  BY ReleaseReads
  <1>4. /\ lq <= lm
        /\ \A i \in 1..lq : Read(a, q[i].handle) = ms[lm - lq + i]
        /\ \A i \in 2..lq : q[i].sent = 0
        /\ len = d * Size + (q[1].sent + n)
        /\ q[1].sent + n <= Size
    BY DEF Backlog
  <1>5. q[1].sent \in Nat  BY <1>1, <1>2, ItemFields
  <1> HIDE DEF c, p, lq, lm
  <1>6. d \in Nat /\ lm - Len(p) = d + 1  BY <1>1, <1>2, <1>4
  <1>7. q[1].sent + n = Size
    <2>1. q[1].sent + n \in Nat /\ Size \in Nat  BY <1>5, IOAssumption
    <2>2. q[1].sent + n <= Size  BY <1>4
    <2> QED  BY <2>1, <2>2
  <1>8. len = (d + 1) * Size
    <2>1. (d + 1) * Size = d * Size + Size  BY <1>6, Multiples
    <2> QED  BY <1>4, <1>7, <2>1
  <1>9. ASSUME NEW i \in 1..Len(p)
        PROVE  Read(c, p[i].handle) = ms[lm - Len(p) + i] /\ p[i].sent = 0
    <2>1. p[i] = q[i + 1] /\ i + 1 \in 2..lq /\ i + 1 \in 1..lq  BY <1>2
    <2>2. lm - lq + (i + 1) = lm - Len(p) + i  BY <1>1, <1>2
    <2>3. Read(c, q[i + 1].handle) = ms[lm - lq + (i + 1)]  BY <1>3, <1>4, <2>1
    <2> QED  BY <1>4, <2>1, <2>2, <2>3
  <1>10. len = (lm - Len(p)) * Size + (IF p = <<>> THEN 0 ELSE p[1].sent + 0)
    <2>1. len = (lm - Len(p)) * Size  BY <1>6, <1>8
    <2>2. p # <<>> => p[1].sent = 0
      <3>1. p # <<>> => 1 \in 1..Len(p)  BY <1>2
      <3> QED  BY <1>9, <3>1
    <2>3. (IF p = <<>> THEN 0 ELSE p[1].sent + 0) = 0  BY <2>2
    <2> QED  BY <2>1, <2>3
  <1>11. p # <<>> => p[1].sent < Size /\ p[1].sent + 0 <= Size
    <2>1. p # <<>> => 1 \in 1..Len(p)  BY <1>2
    <2> QED  BY <1>9, <2>1, IOAssumption
  <1>12. Len(p) <= lm  BY <1>1, <1>2, <1>4
  <1>13. \A i \in 2..Len(p) : p[i].sent = 0  BY <1>2, <1>9
  <1>14. Backlog(c, p, ms, len, 0)  BY <1>9, <1>10, <1>11, <1>12, <1>13 DEF Backlog, lm
  <1> QED  BY <1>1, <1>14 DEF c, p

\* A part of the front is written.
LEMMA BacklogPart ==
    ASSUME NEW a, NEW q \in Seq(Items), NEW ms \in Seq(Nat), NEW len \in Nat, NEW n \in Nat,
           Backlog(a, q, ms, len, n), q # <<>>, ~ (q[1].sent + n >= Size)
    PROVE  Backlog(a, [q EXCEPT ![1].sent = @ + n], ms, len, 0)
  <1> DEFINE p == [q EXCEPT ![1].sent = @ + n]
  <1>1. 1 \in 1..Len(q) /\ Len(q) \in Nat  OBVIOUS
  <1>2. q[1] \in Items /\ q[1].sent \in Nat  BY <1>1, ItemFields
  <1>3. /\ DOMAIN p = 1..Len(q) /\ Len(p) = Len(q) /\ p[1].handle = q[1].handle
        /\ p[1].sent = q[1].sent + n /\ \A i \in 2..Len(q) : p[i] = q[i]
    BY <1>1, <1>2 DEF Items
  <1>4. p # <<>>  BY <1>1, <1>3
  <1> HIDE DEF p
  <1>5. \A i \in 1..Len(q) : p[i].handle = q[i].handle
    <2>1. \A i \in 1..Len(q) : i = 1 \/ i \in 2..Len(q)  BY <1>1
    <2> QED  BY <1>3, <2>1
  <1>6. q[1].sent + n + 0 = q[1].sent + n /\ q[1].sent + n < Size /\ q[1].sent + n + 0 <= Size
    BY <1>2, IOAssumption
  <1>7. len = (Len(ms) - Len(q)) * Size + (q[1].sent + n)  BY DEF Backlog
  <1>8. len = (Len(ms) - Len(p)) * Size + (p[1].sent + 0)  BY <1>3, <1>6, <1>7
  <1>9. Backlog(a, p, ms, len, 0)  BY <1>3, <1>4, <1>5, <1>6, <1>8 DEF Backlog
  <1> QED  BY <1>9 DEF p

\* n pieces of the front are written; no handler has run yet.
LEMMA BacklogGrows ==
    ASSUME NEW a, NEW q \in Seq(Items), NEW ms \in Seq(Nat), NEW len \in Nat, NEW n \in Nat,
           Backlog(a, q, ms, len, 0), q # <<>>, q[1].sent + n <= Size
    PROVE  Backlog(a, q, ms, len + n, n)
  <1>1. 1 \in 1..Len(q) /\ q[1].sent \in Nat  BY ItemFields
  <1> DEFINE e == (Len(ms) - Len(q)) * Size
  <1>2. len = e + (q[1].sent + 0)  BY DEF Backlog
  <1>3. Len(ms) - Len(q) \in Nat  BY DEF Backlog
  <1>4. e \in Nat  BY <1>3, Multiples
  <1> HIDE DEF e
  <1>5. len + n = e + (q[1].sent + n)  BY <1>1, <1>2, <1>4
  <1> QED  BY <1>5 DEF Backlog, e

-----------------------------------------------------------------------------
(* What the handlers do to the queue, the writes and what was sent *)

\* Every write on connection c is of the front of q, from where its sent
\* says; n is what it has written.
WriteOps(O, c, q, n) ==
    \A o \in O : o.conn = c /\ o.kind = "write" =>
      /\ q # <<>> /\ o.handle = q[1].handle /\ o.at = q[1].sent
      /\ o.n = n /\ (o.result # "ok" => n = 0)

\* x is what the current connection has got of what was sent.
Flows(w, x) ==
    /\ w.s.conn \in Conns
    /\ \E n \in Nat : /\ Backlog(w.arena, w.s.q, w.sent[w.s.conn], Len(x), n)
                      /\ WriteOps(w.ops, w.s.conn, w.s.q, n)

\* What is not complete is on the current connection.
Pending(w) == \A o \in w.ops : o.result = "none" => o.conn = w.s.conn

\* At most m was sent.
Tells(w, t, m) ==
    \A k \in Conns : \/ t.sent[k] = w.sent[k]
                     \/ k = w.s.conn /\ t.sent[k] = Append(w.sent[k], m)

\* One more operation, as it begins.
Began(w, t, k, h, at) ==
    \E o \in OpRecords : o.kind = k /\ o.conn = w.s.conn /\ Fresh(o, h, at) /\ t.ops = w.ops \cup {o}

\* do_read leaves the queue and the writes alone.
LEMMA ReadFlows ==
    ASSUME NEW w, Sane(w), ~ w.s.stopped, w.s.conn # 0
    PROVE  LET t == do_read(w)
           IN  /\ t.s = w.s /\ t.sent = w.sent /\ (Pending(w) => Pending(t))
               /\ \A x : Flows(w, x) => Flows(t, x)
  <1> DEFINE t == do_read(w)
  <1>1. t = Begin(w, "read", NoHandle, 0)  BY DEF do_read
  <1> HIDE DEF t
  <1>2. /\ t.arena = w.arena /\ t.sent = w.sent /\ t.s = w.s
        /\ \E o \in OpRecords : /\ o.kind = "read" /\ o.conn = w.s.conn /\ t.ops = w.ops \cup {o}
    BY <1>1, BeginIs
  <1>3. PICK o \in OpRecords : o.kind = "read" /\ o.conn = w.s.conn /\ t.ops = w.ops \cup {o}
    BY <1>2
  <1>4. Pending(w) => Pending(t)  BY <1>2, <1>3 DEF Pending
  <1>5. \A n : WriteOps(w.ops, w.s.conn, w.s.q, n) => WriteOps(t.ops, w.s.conn, w.s.q, n)
    BY <1>3 DEF WriteOps
  <1>6. \A x : Flows(w, x) => Flows(t, x)  BY <1>2, <1>5 DEF Flows
  <1> QED  BY <1>2, <1>4, <1>6 DEF t

\* do_write where no write is under way.
LEMMA WriteFlows ==
    ASSUME NEW w, Sane(w), ~ w.s.stopped, w.s.conn \in Conns, NEW x,
           NoneOf(w.ops, w.s.conn, "write"),
           Backlog(w.arena, w.s.q, w.sent[w.s.conn], Len(x), 0)
    PROVE  LET t == do_write(w)
           IN  t.sent = w.sent /\ (Pending(w) => Pending(t)) /\ Flows(t, x)
  <1> DEFINE t == do_write(w)
             q == w.s.q
  <1>0. w.s.conn # 0 /\ q \in Seq(Items) /\ 0 \in Nat
    BY IOAssumption, WorldFields DEF Conns, Sane
  <1>1. CASE q = <<>>
    <2>1. t = [w EXCEPT !.s.inflight = FALSE]  BY <1>1 DEF do_write
    <2>2. FALSE \in BOOLEAN  OBVIOUS
    <2> HIDE DEF t
    <2>3. /\ Same(w, t, {}) /\ t.s.q = w.s.q /\ t.arena = w.arena /\ t.ops = w.ops /\ t.sent = w.sent
      BY <2>1, <2>2, FlagIs
    <2>4. t.s.conn = w.s.conn  BY <2>3 DEF Same
    <2>5. WriteOps(w.ops, w.s.conn, w.s.q, 0)  BY DEF WriteOps, NoneOf
    <2>6. Flows(t, x)  BY <1>0, <2>3, <2>4, <2>5 DEF Flows
    <2> QED  BY <2>3, <2>4, <2>6 DEF t, Pending
  <1>2. CASE q # <<>>
    <2>1. t = Begin(w, "write", Head(q).handle, Head(q).sent)  BY <1>2 DEF do_write
    <2>2. Head(q) = q[1] /\ 1 \in 1..Len(q)  BY <1>0, <1>2
    <2>3. Head(q).handle \in HandleSet \cup {NoHandle} /\ Head(q).sent \in Nat
      BY <1>0, <2>2, ItemFields
    <2> HIDE DEF t
    <2>4. /\ t.arena = w.arena /\ t.sent = w.sent /\ t.s = w.s
          /\ Began(w, t, "write", Head(q).handle, Head(q).sent)
      <3>1. \A h \in HandleSet \cup {NoHandle}, at \in Nat :
              LET u == Begin(w, "write", h, at)
              IN  /\ u.arena = w.arena /\ u.sent = w.sent
                  /\ w.s.conn # 0 => u.s = w.s /\ Began(w, u, "write", h, at)
        BY BeginIs DEF Began
      <3> QED  BY <1>0, <2>1, <2>3, <3>1
    <2>5. PICK o \in OpRecords : /\ o.kind = "write" /\ o.conn = w.s.conn
                                 /\ Fresh(o, Head(q).handle, Head(q).sent) /\ t.ops = w.ops \cup {o}
      BY <2>4 DEF Began
    <2>6. Pending(w) => Pending(t)  BY <2>4, <2>5 DEF Pending
    <2>7. WriteOps(t.ops, w.s.conn, q, 0)  BY <1>2, <2>2, <2>5 DEF WriteOps, NoneOf, Fresh
    <2>8. Flows(t, x)  BY <1>0, <2>4, <2>7 DEF Flows
    <2> QED  BY <2>4, <2>6, <2>8 DEF t
  <1> QED  BY <1>1, <1>2

\* A message goes to the end of the queue and of what was sent.
LEMMA QueuedFlows ==
    ASSUME NEW w, Sane(w), NEW m \in Nat \ w.arena.heap, Undisturbed, w.s.conn \in Conns, NEW x,
           Len(x) \in Nat, NEW n \in Nat,
           Backlog(w.arena, w.s.q, w.sent[w.s.conn], Len(x), n)
    PROVE  LET t == Queued(w, m)
           IN  /\ Tells(w, t, m) /\ t.ops = w.ops /\ t.s.conn = w.s.conn
               /\ w.s.q # <<>> => t.s.q # <<>> /\ t.s.q[1] = w.s.q[1]
               /\ Backlog(t.arena, t.s.q, t.sent[w.s.conn], Len(x), IF w.s.q = <<>> THEN 0 ELSE n)
  <1> DEFINE large == m \in budget.large
             c == from_arena(w.arena, m, large)
             p == Append(w.s.q, [handle |-> Allocated(w.arena, m, large), sent |-> 0])
             z == [k \in Conns |-> IF Undisturbed /\ k = w.s.conn THEN Append(w.sent[k], m)
                                                                  ELSE w.sent[k]]
             r == [w.s EXCEPT !.q = p]
             t == Queued(w, m)
  <1>1. /\ w \in Worlds /\ w.s \in SessionRecords /\ Holds(w.arena, w.s.q)
        /\ w.sent \in [Conns -> Seq(Nat)] /\ w.s.q \in Seq(Items)
    BY WorldFields DEF Sane
  <1>2. large \in BOOLEAN /\ w.sent[w.s.conn] \in Seq(Nat)  BY <1>1
  <1>3. t = [w EXCEPT !.arena = c, !.s = r, !.sent = z]  BY <1>1 DEF Queued, Worlds
  <1>4. z[w.s.conn] = Append(w.sent[w.s.conn], m) /\ \A k \in Conns : k # w.s.conn => z[k] = w.sent[k]
    OBVIOUS
  <1> HIDE DEF large
  <1>5. Backlog(c, p, Append(w.sent[w.s.conn], m), Len(x), IF w.s.q = <<>> THEN 0 ELSE n)
    BY <1>1, <1>2, BacklogMore
  <1>6. w.s.q # <<>> => p # <<>> /\ p[1] = w.s.q[1]
    <2> DEFINE e == [handle |-> Allocated(w.arena, m, large), sent |-> 0]
    <2>1. ASSUME NEW S, NEW q \in Seq(S), q # <<>>, NEW y PROVE Append(q, y) # <<>> /\ Append(q, y)[1] = q[1]
      BY <2>1
    <2> HIDE DEF e
    <2> QED  BY <1>1, <2>1 DEF p, e
  <1> HIDE DEF c, p, z
  <1>7. r.q = p /\ r.conn = w.s.conn  BY <1>1 DEF SessionRecords
  <1> HIDE DEF r, t
  <1>8. t.s = r /\ t.arena = c /\ t.ops = w.ops /\ t.sent = z  BY <1>1, <1>3 DEF Worlds
  <1>9. Tells(w, t, m)  BY <1>4, <1>8 DEF Tells
  <1> QED  BY <1>4, <1>5, <1>6, <1>7, <1>8, <1>9 DEF t

\* send_message_ keeps what was written in step with the queue.
LEMMA SendFlows ==
    ASSUME NEW w, Sane(w), ~ w.s.stopped, WritesFit(w), NEW m \in Nat \ w.arena.heap, Undisturbed,
           NEW x, Len(x) \in Nat, Flows(w, x)
    PROVE  LET t == send_message_(w, m)
           IN  Tells(w, t, m) /\ (Pending(w) => Pending(t)) /\ Flows(t, x)
  <1> DEFINE u == Queued(w, m)
             v == [u EXCEPT !.s.inflight = TRUE]
             d == do_write(v)
             t == send_message_(w, m)
  <1>1. t = IF u.s.inflight THEN u ELSE d  BY DEF send_message_, send_bytes_
  <1>2. /\ Same(w, u, {m}) /\ u.s.inflight = w.s.inflight /\ u.ops = w.ops  BY QueuedIs
  <1>3. w.s.conn \in Conns  BY DEF Flows
  <1>4. PICK n \in Nat : /\ Backlog(w.arena, w.s.q, w.sent[w.s.conn], Len(x), n)
                         /\ WriteOps(w.ops, w.s.conn, w.s.q, n)
    BY DEF Flows
  <1>5. /\ Tells(w, u, m) /\ u.s.conn = w.s.conn
        /\ w.s.q # <<>> => u.s.q # <<>> /\ u.s.q[1] = w.s.q[1]
        /\ Backlog(u.arena, u.s.q, u.sent[w.s.conn], Len(x), IF w.s.q = <<>> THEN 0 ELSE n)
    BY <1>3, <1>4, QueuedFlows
  <1> HIDE DEF u
  <1>6. CASE w.s.inflight
    <2>1. t = u /\ w.s.q # <<>>  BY <1>1, <1>2, <1>6 DEF WritesFit
    <2>2. WriteOps(u.ops, w.s.conn, u.s.q, n)  BY <1>2, <1>4, <1>5, <2>1 DEF WriteOps
    <2>3. Flows(u, x)  BY <1>3, <1>5, <2>1, <2>2 DEF Flows
    <2>4. Pending(w) => Pending(u)  BY <1>2, <1>5 DEF Pending
    <2> QED  BY <1>5, <2>1, <2>3, <2>4
  <1>7. CASE ~ w.s.inflight
    <2>1. t = d /\ w.s.q = <<>> /\ NoneOf(w.ops, w.s.conn, "write")  BY <1>1, <1>2, <1>7 DEF WritesFit
    <2>2. Sane(u) /\ u.s.stopped = w.s.stopped  BY <1>2 DEF Same
    <2>3. TRUE \in BOOLEAN  OBVIOUS
    <2>4. /\ Same(u, v, {}) /\ v.s.q = u.s.q /\ v.arena = u.arena /\ v.ops = u.ops /\ v.sent = u.sent
      BY <2>2, <2>3, FlagIs
    <2> HIDE DEF v
    <2>5. Sane(v) /\ v.s.stopped = u.s.stopped /\ v.s.conn = u.s.conn  BY <2>4 DEF Same
    <2>6. Backlog(v.arena, v.s.q, v.sent[v.s.conn], Len(x), 0)  BY <1>5, <2>1, <2>4, <2>5
    <2>7. d.sent = v.sent /\ (Pending(v) => Pending(d)) /\ Flows(d, x)
      BY <1>2, <1>3, <1>5, <2>1, <2>2, <2>4, <2>5, <2>6, WriteFlows
    <2> HIDE DEF d
    <2>8. Tells(w, d, m)  BY <1>5, <2>4, <2>7 DEF Tells
    <2>9. Pending(w) => Pending(v)  BY <1>2, <1>5, <2>4, <2>5 DEF Pending
    <2> QED  BY <2>1, <2>7, <2>8, <2>9
  <1> QED  BY <1>6, <1>7

\* The front of the queue after its write: the pieces written are off it.
LEMMA WrittenFlows ==
    ASSUME NEW w, Sane(w), w.s.q # <<>>, w.s.conn \in Conns, NEW x, Len(x) \in Nat, NEW n \in Nat,
           Backlog(w.arena, w.s.q, w.sent[w.s.conn], Len(x), n)
    PROVE  LET t == Written(w, n)
           IN  t.sent = w.sent /\ Backlog(t.arena, t.s.q, t.sent[w.s.conn], Len(x), 0)
  <1> DEFINE q == w.s.q
             t == Written(w, n)
             ms == w.sent[w.s.conn]
  <1>1. /\ w \in Worlds /\ w.s \in SessionRecords /\ Holds(w.arena, q) /\ q \in Seq(Items)
        /\ ms \in Seq(Nat)
    BY WorldFields DEF Sane
  <1>2. Head(q) = q[1]  BY <1>1
  <1>3. CASE q[1].sent + n >= Size
    <2>1. t = [w EXCEPT !.arena = release(w.arena, Head(q).handle), !.s = [w.s EXCEPT !.q = Tail(q)]]
      BY <1>1, <1>2, <1>3 DEF Written, Worlds
    <2>2. Backlog(release(w.arena, Head(q).handle), Tail(q), ms, Len(x), 0)
      BY <1>1, <1>3, BacklogWhole
    <2>3. t.arena = release(w.arena, Head(q).handle) /\ t.s.q = Tail(q) /\ t.sent = w.sent
      BY <1>1, <2>1 DEF Worlds, SessionRecords
    <2> HIDE DEF t
    <2> QED  BY <2>2, <2>3 DEF t
  <1>4. CASE ~ (q[1].sent + n >= Size)
    <2> DEFINE p == [q EXCEPT ![1].sent = @ + n]
    <2>1. t = [w EXCEPT !.s = [w.s EXCEPT !.q = p]]  BY <1>2, <1>4 DEF Written
    <2>2. Backlog(w.arena, p, ms, Len(x), 0)  BY <1>1, <1>4, BacklogPart
    <2> HIDE DEF p
    <2>3. t.arena = w.arena /\ t.s.q = p /\ t.sent = w.sent
      BY <1>1, <2>1 DEF Worlds, SessionRecords
    <2> HIDE DEF t
    <2> QED  BY <2>2, <2>3 DEF t
  <1> QED  BY <1>3, <1>4

\* What ends a connection sends nothing, and leaves nothing under way on it.
LEMMA CloseSends ==
    ASSUME NEW w, Sane(w)
    PROVE  LET t == close(w)
           IN  t.sent = w.sent /\ (Pending(w) => \A o \in t.ops : o.result # "none")
  <1> DEFINE O == {o \in w.ops : o.conn # w.s.conn \/ o.result # "none"}
             t == close(w)
  <1>1. w \in Worlds  BY DEF Sane
  <1>2. t = [w EXCEPT !.open = w.open \ {w.s.conn}, !.ops = O]  BY <1>1 DEF close, Worlds
  <1>3. t.sent = w.sent /\ t.ops = O  BY <1>1, <1>2 DEF Worlds
  <1> HIDE DEF t
  <1>4. Pending(w) => \A o \in t.ops : o.result # "none"  BY <1>3 DEF Pending
  <1> QED  BY <1>3, <1>4 DEF t

\* stop_ sends nothing.
LEMMA StopSends ==
    ASSUME NEW w, Sane(w)
    PROVE  stop_(w).sent = w.sent
  <1> DEFINE u == IF w.s.conn = 0 THEN w ELSE close(w)
             c == Cleared(u)
             d == [c EXCEPT !.s.live = FALSE, !.s.stopped = TRUE, !.s.inflight = FALSE, !.ops = {}]
  <1>1. Sane(u) /\ u.sent = w.sent  BY CloseIs, CloseSends
  <1> HIDE DEF u
  <1>2. Sane(c) /\ c.sent = u.sent  BY <1>1, ClearedIs
  <1>3. stop_(w) = IF w.s.stopped THEN w ELSE d  BY DEF stop_, u
  <1> HIDE DEF c
  <1>4. d.sent = c.sent  BY <1>2 DEF Sane, Worlds
  <1> HIDE DEF d
  <1> QED  BY <1>1, <1>2, <1>3, <1>4

\* on_transport_down_ sends nothing, and what was under way is aborted.
LEMMA DownSends ==
    ASSUME NEW w, Sane(w)
    PROVE  LET t == on_transport_down_(w)
           IN  /\ t.sent = w.sent
               /\ w.s.live /\ ~ w.s.stopped /\ ~ w.s.reconnecting /\ Pending(w) =>
                    \A o \in t.ops : o.result # "none"
  <1> DEFINE u == close(w)
             c == Cleared(u)
             d == [c EXCEPT !.s.reconnecting = TRUE, !.s.conn = 0, !.s.live = FALSE, !.s.inflight = FALSE]
             t == on_transport_down_(w)
  <1>1. Sane(u) /\ u.sent = w.sent /\ (Pending(w) => \A o \in u.ops : o.result # "none")
    BY CloseIs, CloseSends
  <1> HIDE DEF u
  <1>2. Sane(c) /\ c.sent = u.sent /\ c.ops = u.ops  BY <1>1, ClearedIs
  <1>3. t = IF ~ w.s.live \/ w.s.stopped \/ w.s.reconnecting THEN w ELSE d
    BY DEF on_transport_down_, u
  <1> HIDE DEF c
  <1>4. d.sent = c.sent /\ d.ops = c.ops  BY <1>2 DEF Sane, Worlds
  <1> HIDE DEF d, t
  <1>5. /\ t.sent = w.sent
        /\ w.s.live /\ ~ w.s.stopped /\ ~ w.s.reconnecting /\ Pending(w) =>
             \A o \in t.ops : o.result # "none"
    BY <1>1, <1>2, <1>3, <1>4
  <1> QED  BY <1>5 DEF t

\* The Logon of an initiator is sent as any other message.
LEMMA LogonFlows ==
    ASSUME NEW w, Sane(w), ~ w.s.stopped, WritesFit(w), NEW m \in Nat \ w.arena.heap, Undisturbed,
           NEW x, Len(x) \in Nat, Flows(w, x)
    PROVE  LET t == send_logon(w, m)
           IN  Tells(w, t, m) /\ (Pending(w) => Pending(t)) /\ Flows(t, x)
  <1>1. CASE w.s.role = "INITIATOR"
    <2>1. send_logon(w, m) = send_message_(w, m)  BY <1>1 DEF send_logon
    <2> QED  BY <2>1, SendFlows
  <1>2. CASE w.s.role # "INITIATOR"
    <2>1. send_logon(w, m) = w  BY <1>2 DEF send_logon
    <2>2. Tells(w, w, m)  BY DEF Tells
    <2> QED  BY <2>1, <2>2
  <1> QED  BY <1>1, <1>2

\* A session that begins on a connection that has got nothing yet.
Begins(w) ==
    /\ Sane(w) /\ ~ w.s.stopped /\ w.s.conn \in Conns /\ w.s.conn # 0
    /\ w.s.q = <<>> /\ ~ w.s.inflight
    /\ w.sent[w.s.conn] = <<>> /\ \A o \in w.ops : o.conn # w.s.conn /\ o.result # "none"

\* A connection begins with nothing queued, sent or under way.
LEMMA BeginsFlows ==
    ASSUME NEW w, Begins(w)
    PROVE  WritesFit(w) /\ Pending(w) /\ Flows(w, <<>>) /\ NoneOf(w.ops, w.s.conn, "read")
  <1>1. WritesFit(w) /\ Pending(w) /\ NoneOf(w.ops, w.s.conn, "read")
    BY DEF Begins, WritesFit, Pending, NoneOf
  <1>2. Backlog(w.arena, w.s.q, w.sent[w.s.conn], 0, 0)  BY BacklogEmpty DEF Begins
  <1>3. WriteOps(w.ops, w.s.conn, w.s.q, 0)  BY DEF Begins, WriteOps
  <1>4. Len(<<>>) = 0  OBVIOUS
  <1>5. Flows(w, <<>>)  BY <1>2, <1>3, <1>4 DEF Begins, Flows
  <1> QED  BY <1>1, <1>5

\* Flows does not depend on the lifecycle.
LEMMA FlowsAlike ==
    ASSUME NEW w, NEW t, t.s.conn = w.s.conn, t.s.q = w.s.q, t.arena = w.arena, t.sent = w.sent,
           t.ops = w.ops, NEW x, Flows(w, x)
    PROVE  Flows(t, x)
  BY DEF Flows

\* The session is live.
LEMMA LiveSends ==
    ASSUME NEW w, Sane(w)
    PROVE  [w EXCEPT !.s.live = TRUE].sent = w.sent
  BY DEF Sane, Worlds

\* The first connection.
LEMMA StartNormalFlows ==
    ASSUME NEW w, Sane(w), w.s.conn # 0, NEW m \in Nat \ w.arena.heap
    PROVE  LET t == start_normal_(w, m)
           IN  /\ w.s.stopped => t.sent = w.sent
               /\ Undisturbed /\ Begins(w) => Tells(w, t, m) /\ Pending(t) /\ Flows(t, <<>>)
  <1> DEFINE u == do_read(w)
             v == send_logon(u, m)
             d == [v EXCEPT !.s.live = TRUE]
             t == start_normal_(w, m)
  <1>1. t = d  BY DEF start_normal_
  <1>2. Same(w, u, {}) /\ u.arena = w.arena /\ (w.s.stopped => u = w)  BY DoReadIs
  <1>3. ~ w.s.stopped => /\ u.s = w.s /\ u.sent = w.sent /\ (Pending(w) => Pending(u))
                         /\ (Flows(w, <<>>) => Flows(u, <<>>))
    BY ReadFlows
  <1>4. ~ w.s.stopped /\ NoneOf(w.ops, w.s.conn, "read") /\ WritesFit(w) => WritesFit(u)
    BY ReadBegins
  <1> HIDE DEF u
  <1>5. Sane(u) /\ m \in Nat \ u.arena.heap  BY <1>2 DEF Same
  <1>6. Same(u, v, {m}) /\ (u.s.stopped => v = u)  BY <1>5, LogonIs
  <1>7. Len(<<>>) \in Nat  OBVIOUS
  <1>8. ~ u.s.stopped /\ WritesFit(u) /\ Undisturbed /\ Flows(u, <<>>) =>
          Tells(u, v, m) /\ (Pending(u) => Pending(v)) /\ Flows(v, <<>>)
    BY <1>5, <1>7, LogonFlows
  <1> HIDE DEF v
  <1>9. Sane(v)  BY <1>6 DEF Same
  <1>10. /\ d.s.conn = v.s.conn /\ d.s.q = v.s.q /\ d.ops = v.ops /\ d.arena = v.arena
    BY <1>9, LiveIs
  <1>11. d.sent = v.sent  BY <1>9, LiveSends
  <1> HIDE DEF d, t
  <1>12. w.s.stopped => t.sent = w.sent  BY <1>1, <1>2, <1>6, <1>11
  <1>13. ASSUME Undisturbed, Begins(w) PROVE Tells(w, t, m) /\ Pending(t) /\ Flows(t, <<>>)
    <2>1. /\ ~ w.s.stopped /\ WritesFit(w) /\ Pending(w) /\ Flows(w, <<>>)
          /\ NoneOf(w.ops, w.s.conn, "read")
      BY <1>13, BeginsFlows DEF Begins
    <2>2. u.s = w.s /\ u.sent = w.sent /\ Pending(u) /\ Flows(u, <<>>) /\ WritesFit(u)
      BY <1>3, <1>4, <2>1
    <2>3. Tells(u, v, m) /\ Pending(v) /\ Flows(v, <<>>)  BY <1>8, <1>13, <2>1, <2>2
    <2>4. Flows(t, <<>>)  BY <1>1, <1>10, <1>11, <2>3, FlowsAlike
    <2>5. Pending(t)  BY <1>1, <1>10, <2>3 DEF Pending
    <2>6. Tells(w, t, m)  BY <1>1, <1>11, <2>2, <2>3 DEF Tells
    <2> QED  BY <2>4, <2>5, <2>6
  <1> QED  BY <1>12, <1>13 DEF t

\* A connection after one was lost.
LEMMA StartAfterReconnectFlows ==
    ASSUME NEW w, Sane(w), NEW m \in Nat \ w.arena.heap, Undisturbed, Begins(w)
    PROVE  LET t == start_after_reconnect_(w, m)
           IN  Tells(w, t, m) /\ Pending(t) /\ Flows(t, <<>>)
  <1> DEFINE c == Cleared(w)
             u == [c EXCEPT !.s.reconnecting = FALSE, !.s.inflight = FALSE]
             v == send_logon(u, m)
             x == [v EXCEPT !.s.live = TRUE]
             d == do_read(x)
             t == start_after_reconnect_(w, m)
  <1>1. /\ Sane(c) /\ c.s.q = <<>> /\ c.arena.heap = {}
        /\ c.s.conn = w.s.conn /\ c.s.stopped = w.s.stopped
        /\ c.ops = w.ops /\ c.sent = w.sent
    BY ClearedIs
  <1>2. ~ w.s.stopped /\ w.s.conn # 0 /\ w.s.conn \in Conns  BY DEF Begins
  <1>3. t = d  BY <1>2 DEF start_after_reconnect_
  <1> HIDE DEF c
  <1>4. /\ Sane(u) /\ u.s.q = <<>> /\ ~ u.s.inflight /\ u.s.conn = w.s.conn
        /\ u.s.stopped = w.s.stopped /\ u.ops = w.ops /\ u.sent = w.sent /\ u.arena = c.arena
    <2> DEFINE r == [c.s EXCEPT !.reconnecting = FALSE, !.inflight = FALSE]
               p == Put(c, r, c.ops)
    <2>1. c \in Worlds /\ c.s \in SessionRecords /\ c.ops \in OpSets  BY <1>1, WorldFields DEF Sane
    <2>2. u = p  BY <2>1 DEF Worlds, SessionRecords, Put
    <2>3. /\ r \in SessionRecords /\ r.q = c.s.q /\ r.conn = c.s.conn /\ r.stopped = c.s.stopped
          /\ ~ r.inflight
      BY <2>1 DEF SessionRecords
    <2> HIDE DEF r, u
    <2>4. Sane(p) /\ p.s = r /\ p.ops = c.ops /\ p.arena = c.arena /\ p.sent = c.sent
      BY <1>1, <2>1, <2>3, PutIs
    <2> HIDE DEF p
    <2> QED  BY <1>1, <2>2, <2>3, <2>4
  <1> HIDE DEF u
  <1>5. Begins(u)  BY <1>2, <1>4 DEF Begins
  <1>6. WritesFit(u) /\ Pending(u) /\ Flows(u, <<>>)  BY <1>5, BeginsFlows
  <1>7. m \in Nat \ u.arena.heap /\ Len(<<>>) \in Nat /\ ~ u.s.stopped  BY <1>1, <1>2, <1>4
  <1>8. Same(u, v, {m})  BY <1>4, <1>7, LogonIs
  <1>9. Tells(u, v, m) /\ Pending(v) /\ Flows(v, <<>>)  BY <1>4, <1>6, <1>7, LogonFlows
  <1> HIDE DEF v
  <1>10. Sane(v) /\ v.s.conn = w.s.conn /\ ~ v.s.stopped  BY <1>2, <1>4, <1>8 DEF Same
  <1>11. /\ Sane(x) /\ x.s.conn = v.s.conn /\ x.s.q = v.s.q /\ x.ops = v.ops /\ x.arena = v.arena
         /\ x.s.stopped = v.s.stopped
    BY <1>10, LiveIs
  <1>12. x.sent = v.sent  BY <1>10, LiveSends
  <1> HIDE DEF x
  <1>13. Flows(x, <<>>) /\ Pending(x)
    <2>1. Flows(x, <<>>)  BY <1>9, <1>11, <1>12, FlowsAlike
    <2>2. Pending(x)  BY <1>9, <1>11 DEF Pending
    <2> QED  BY <2>1, <2>2
  <1>14. /\ d.sent = x.sent /\ (Pending(x) => Pending(d)) /\ (Flows(x, <<>>) => Flows(d, <<>>))
    BY <1>2, <1>10, <1>11, ReadFlows
  <1> HIDE DEF d, t
  <1>15. Tells(w, t, m)  BY <1>3, <1>4, <1>9, <1>12, <1>14 DEF Tells
  <1>16. Tells(w, t, m) /\ Pending(t) /\ Flows(t, <<>>)  BY <1>3, <1>13, <1>14, <1>15
  <1> QED  BY <1>16 DEF t

-----------------------------------------------------------------------------
(* The inductive invariant of what the connections carry *)

\* Each connection has got a beginning of what was sent to it; those to
\* come, from next on, nothing.
Carries(W, w, next) ==
    /\ W \in [Conns -> Texts]
    /\ \A k \in Conns : Laid(W[k], w.sent[k])
    /\ \A k \in Conns : k >= next => W[k] = <<>> /\ w.sent[k] = <<>>

\* What is under way is on the current connection.
Current(w) == \A o \in w.ops : o.result = "none" => o.conn = w.s.conn /\ w.s.live

Wired(w, W, c) ==
    /\ Carries(W, w, c.next)
    /\ c.next <= MaxConns + 1 /\ (c.stage \in {"offered", "set"} => c.next <= MaxConns)
    /\ Current(w)
    /\ w.s.live /\ ~ w.s.stopped => Flows(w, W[w.s.conn])

WireInv == Clean(hist) => Wired(Now, wire, connect)

\* One more message is sent to the current connection.
LEMMA CarriesTold ==
    ASSUME NEW W, NEW w, NEW t, NEW m \in Nat, NEW a \in Nat, NEW b \in Nat, a <= b,
           w.s.conn \in Nat, w.s.conn < b, Carries(W, w, a), Tells(w, t, m)
    PROVE  Carries(W, t, b)
  <1>1. ASSUME NEW k \in Conns PROVE Laid(W[k], t.sent[k])
    <2>1. Laid(W[k], w.sent[k])  BY DEF Carries
    <2>2. Laid(W[k], Append(w.sent[k], m))  BY <2>1, LaidMore
    <2> QED  BY <2>1, <2>2 DEF Tells
  <1>2. ASSUME NEW k \in Conns, k >= b PROVE W[k] = <<>> /\ t.sent[k] = <<>>
    <2>1. k \in Nat  BY IOAssumption DEF Conns
    <2>2. k >= a /\ k # w.s.conn  BY <1>2, <2>1
    <2> QED  BY <2>2 DEF Carries, Tells
  <1> QED  BY <1>1, <1>2 DEF Carries

\* Nothing is sent.
LEMMA CarriesSame ==
    ASSUME NEW W, NEW w, NEW t, NEW a, Carries(W, w, a), t.sent = w.sent
    PROVE  Carries(W, t, a)
  BY DEF Carries

LEMMA WireInit ==
    Init => WireInv
  <1> SUFFICES ASSUME Init PROVE Wired(Now, wire, connect)  BY DEF WireInv
  <1>1. /\ wire = [k \in Conns |-> <<>>] /\ sent = [k \in Conns |-> <<>>] /\ ops = {}
        /\ connect = [stage |-> "asked", mode |-> "NORMAL", next |-> 1] /\ ~ s.live
    BY DEF Init
  <1>2. Now.s = s /\ Now.ops = ops /\ Now.sent = sent  BY DEF Now
  <1>3. <<>> \in Texts  BY DEF Texts
  <1>4. Carries(wire, Now, connect.next)  BY <1>1, <1>2, <1>3, LaidEmpty DEF Carries
  <1>5. connect.next <= MaxConns + 1 /\ connect.stage = "asked"  BY <1>1, IOAssumption
  <1> QED  BY <1>1, <1>2, <1>4, <1>5 DEF Wired, Current

LEMMA WireEstablish ==
    ASSUME IOInv, WireInv, Establish
    PROVE  WireInv'
  <1>1. /\ connect \in ConnectRecords /\ Now.s = s /\ Now.arena = arena /\ Now.ops = ops /\ Now.sent = sent
    BY NowFields
  <1>2. /\ connect' = [connect EXCEPT !.stage = "offered"] /\ connect.next <= MaxConns
        /\ UNCHANGED <<s, arena, ops, sent, hist, wire>>
    BY DEF Establish
  <1>3. connect'.next = connect.next  BY <1>1, <1>2 DEF ConnectRecords
  <1>4. Now'.s = s /\ Now'.arena = arena /\ Now'.ops = ops /\ Now'.sent = sent  BY <1>2 DEF Now
  <1> SUFFICES ASSUME Clean(hist) PROVE Wired(Now', wire, connect')  BY <1>2 DEF WireInv
  <1>5. Wired(Now, wire, connect)  BY DEF WireInv
  <1>6. Carries(wire, Now', connect'.next)  BY <1>1, <1>3, <1>4, <1>5, CarriesSame DEF Wired
  <1>7. s.live /\ ~ s.stopped => Flows(Now', wire[s.conn])
    BY <1>1, <1>4, <1>5, FlowsAlike DEF Wired
  <1> QED  BY <1>1, <1>2, <1>3, <1>4, <1>5, <1>6, <1>7 DEF Wired, Current

LEMMA WireSetConnection ==
    ASSUME IOInv, WireInv, set_connection
    PROVE  WireInv'
  <1>1. /\ connect \in ConnectRecords /\ hist \in HistRecords /\ Now \in Worlds
        /\ Now.s = s /\ Now.ops = ops /\ Now.sent = sent
    BY NowFields
  <1>2. /\ connect' = [connect EXCEPT !.stage = "set"] /\ connect.stage = "offered"
        /\ s' = [s EXCEPT !.conn = connect.next] /\ hist' = [hist EXCEPT !.late = @ \/ s.stopped]
        /\ UNCHANGED <<ops, sent, wire>>
    BY DEF set_connection
  <1>3. connect'.next = connect.next  BY <1>1, <1>2 DEF ConnectRecords
  <1>4. Now'.s = s' /\ Now'.ops = ops /\ Now'.sent = sent  BY <1>2 DEF Now
  <1>5. ~ s.live  BY <1>1, <1>2 DEF IOInv, Good, Placed
  <1>6. ~ s'.live
    <2>1. s \in SessionRecords  BY <1>1, WorldFields
    <2> QED  BY <1>2, <1>5, <2>1 DEF SessionRecords
  <1>7. Clean(hist') => Clean(hist)  BY <1>1, <1>2 DEF Clean, HistRecords
  <1> SUFFICES ASSUME Clean(hist) PROVE Wired(Now', wire, connect')  BY <1>2, <1>7 DEF WireInv
  <1>8. Wired(Now, wire, connect)  BY DEF WireInv
  <1>9. Carries(wire, Now', connect'.next)  BY <1>1, <1>3, <1>4, <1>8, CarriesSame DEF Wired
  <1> QED  BY <1>1, <1>2, <1>3, <1>4, <1>5, <1>6, <1>8, <1>9 DEF Wired, Current

LEMMA WireStop ==
    ASSUME IOInv, WireInv, stop
    PROVE  WireInv'
  <1> DEFINE t == stop_(Now)
  <1>1. Sane(Now) /\ Now.s = s /\ Now.sent = sent  BY NowFields
  <1>2. ~ s.stopped /\ Commit(t) /\ UNCHANGED <<connect, hist, wire>>  BY DEF stop
  <1>3. Sane(t) /\ ~ t.s.live /\ t.ops = {}  BY <1>1, <1>2, StopIs
  <1>4. t.sent = sent  BY <1>1, StopSends
  <1> HIDE DEF t
  <1>5. Now' = t  BY <1>2, <1>3, Committed DEF Sane
  <1> SUFFICES ASSUME Clean(hist) PROVE Wired(t, wire, connect)  BY <1>2, <1>5 DEF WireInv
  <1>6. Wired(Now, wire, connect)  BY DEF WireInv
  <1>7. Carries(wire, t, connect.next)  BY <1>1, <1>4, <1>6, CarriesSame DEF Wired
  <1> QED  BY <1>3, <1>6, <1>7 DEF Wired, Current

LEMMA WireStart ==
    ASSUME IOInv, WireInv, start
    PROVE  WireInv'
  <1> DEFINE m == MaxSends + connect.next
             t == IF connect.mode = "NORMAL" THEN start_normal_(Now, m)
                  ELSE start_after_reconnect_(Now, m)
  <1>1. /\ Sane(Now) /\ Now \in Worlds /\ connect \in ConnectRecords
        /\ Now.s = s /\ Now.arena = arena /\ Now.ops = ops /\ Now.sent = sent
    BY NowFields
  <1>2. /\ connect.next \in Nat \ {0} /\ s.conn \in Nat /\ s.stopped \in BOOLEAN
        /\ ops \in SUBSET OpRecords
    BY <1>1, ConnectFields, WorldFields
  <1>3. /\ connect' = [connect EXCEPT !.stage = "none", !.next = @ + 1] /\ connect.stage = "set"
        /\ Commit(t) /\ UNCHANGED <<wire, budget, hist>>
    BY DEF start
  <1>4. connect'.stage = "none" /\ connect'.next = connect.next + 1
    BY <1>1, <1>3 DEF ConnectRecords
  <1>5. Numbered(Now, connect, budget) /\ Placed(Now, connect, hist)
        /\ (Clean(hist) => Tracked(Now, connect))
    BY DEF IOInv, Good
  <1>6. m \in Nat \ Now.arena.heap
    <2>1. m \in Nat /\ ~ (m <= MaxSends) /\ ~ (m < MaxSends + connect.next)  BY <1>2, IOAssumption
    <2> HIDE DEF m
    <2> QED  BY <1>5, <2>1 DEF Numbered
  <1> HIDE DEF m
  <1>7. s.conn = connect.next /\ s.conn # 0 /\ ~ s.live
    BY <1>1, <1>2, <1>3, <1>5 DEF Placed
  <1>8. Starts(Now, t, m)
    <2>1. CASE connect.mode = "NORMAL"
      <3>1. t = start_normal_(Now, m)  BY <2>1
      <3> HIDE DEF t
      <3> QED  BY <1>1, <1>6, <3>1, StartNormalIs
    <2>2. CASE connect.mode # "NORMAL"
      <3>1. t = start_after_reconnect_(Now, m)  BY <2>2
      <3> HIDE DEF t
      <3> QED  BY <1>1, <1>6, <3>1, StartAfterReconnectIs
    <2> QED  BY <2>1, <2>2
  <1>9. s.stopped => t.sent = sent
    <2>1. CASE connect.mode = "NORMAL"
      <3>1. t = start_normal_(Now, m)  BY <2>1
      <3> HIDE DEF t
      <3> QED  BY <1>1, <1>6, <1>7, <3>1, StartNormalFlows
    <2>2. CASE connect.mode # "NORMAL"
      <3>1. t = start_after_reconnect_(Now, m)  BY <2>2
      <3> HIDE DEF t
      <3> QED  BY <1>1, <1>6, <3>1, StartAfterReconnectIs
    <2> QED  BY <2>1, <2>2
  <1>10. Clean(hist) /\ Begins(Now) => Tells(Now, t, m) /\ Pending(t) /\ Flows(t, <<>>)
    <2>0. Clean(hist) => Undisturbed  BY DEF Clean, Undisturbed
    <2>1. CASE connect.mode = "NORMAL"
      <3>1. t = start_normal_(Now, m)  BY <2>1
      <3> HIDE DEF t
      <3> QED  BY <1>1, <1>6, <1>7, <2>0, <3>1, StartNormalFlows
    <2>2. CASE connect.mode # "NORMAL"
      <3>1. t = start_after_reconnect_(Now, m)  BY <2>2
      <3> HIDE DEF t
      <3> QED  BY <1>1, <1>6, <2>0, <3>1, StartAfterReconnectFlows
    <2> QED  BY <2>1, <2>2
  <1> HIDE DEF t
  <1>11. Sane(t) /\ t \in Worlds  BY <1>8 DEF Starts, Sane
  <1>12. Now' = t  BY <1>3, <1>11, Committed
  <1> SUFFICES ASSUME Clean(hist) PROVE Wired(t, wire, connect')  BY <1>3, <1>12 DEF WireInv
  <1>13. Wired(Now, wire, connect)  BY DEF WireInv
  <1>14. connect.next <= MaxConns /\ connect'.next <= MaxConns + 1
    BY <1>2, <1>3, <1>4, <1>13, IOAssumption DEF Wired
  <1>15. s.conn \in Conns /\ wire[s.conn] = <<>> /\ sent[s.conn] = <<>>
    <2>1. s.conn \in Conns /\ s.conn >= connect.next  BY <1>2, <1>7, <1>14, IOAssumption DEF Conns
    <2> QED  BY <1>1, <1>13, <2>1 DEF Wired, Carries
  <1>16. CASE s.stopped
    <2>1. t.s.stopped /\ t.ops = {}  BY <1>1, <1>5, <1>8, <1>16 DEF Starts, Placed
    <2>2. Carries(wire, t, connect'.next)
      <3>1. t.sent = sent  BY <1>9, <1>16
      <3>2. \A k \in Conns : k \in Nat  BY IOAssumption DEF Conns
      <3>3. \A k \in Conns : k >= connect.next + 1 => k >= connect.next  BY <1>2, <3>2
      <3> QED  BY <1>1, <1>4, <1>13, <3>1, <3>3 DEF Wired, Carries
    <2> QED  BY <1>4, <1>14, <2>1, <2>2 DEF Wired, Current
  <1>17. CASE ~ s.stopped
    <2>1. s.q = <<>> /\ ~ s.inflight /\ \A o \in ops : 0 < o.conn /\ o.conn < connect.next
      BY <1>1, <1>5, <1>7, <1>17 DEF Tracked
    <2>2. \A o \in ops : o.conn # s.conn
      <3>1. \A o \in ops : o.conn \in Nat  BY <1>2 DEF OpRecords
      <3> QED  BY <1>2, <1>7, <2>1, <3>1
    <2>3. \A o \in ops : o.result # "none"  BY <1>1, <1>7, <1>13 DEF Wired, Current
    <2>4. Begins(Now)  BY <1>1, <1>7, <1>15, <1>17, <2>1, <2>2, <2>3 DEF Begins
    <2>5. Tells(Now, t, m) /\ Pending(t) /\ Flows(t, <<>>)  BY <1>10, <2>4
    <2>6. t.s.live /\ t.s.conn = s.conn /\ ~ t.s.stopped
      BY <1>1, <1>7, <1>8, <1>17, <2>1, <2>2 DEF Starts
    <2>7. Carries(wire, t, connect'.next)
      <3>1. s.conn < connect.next + 1 /\ connect.next <= connect.next + 1 /\ connect.next + 1 \in Nat
        BY <1>2, <1>7
      <3>2. Carries(wire, Now, connect.next)  BY <1>13 DEF Wired
      <3> QED  BY <1>1, <1>2, <1>4, <1>6, <2>5, <3>1, <3>2, CarriesTold
    <2> QED  BY <1>4, <1>14, <1>15, <2>5, <2>6, <2>7 DEF Wired, Current, Pending
  <1> QED  BY <1>2, <1>16, <1>17

LEMMA WireAppSend ==
    ASSUME IOInv, WireInv, AppSend
    PROVE  WireInv'
  <1> DEFINE m == budget.sends
             t == send_message_(Now, m)
  <1>1. /\ Sane(Now) /\ Now \in Worlds /\ connect \in ConnectRecords /\ hist \in HistRecords
        /\ Now.s = s /\ Now.arena = arena /\ Now.ops = ops /\ Now.sent = sent
    BY NowFields
  <1>2. /\ Placed(Now, connect, hist) /\ (Clean(hist) => Tracked(Now, connect))
    BY DEF IOInv, Good
  <1>3. /\ m > 0 /\ budget' = [budget EXCEPT !.sends = @ - 1] /\ Commit(t)
        /\ hist' = [hist EXCEPT !.bare = @ \/ (s.conn = 0 /\ ~ s.stopped),
                                !.early = @ \/ (connect.stage = "set" /\ ~ s.stopped)]
        /\ UNCHANGED <<wire, connect>>
    BY DEF AppSend
  <1>4. m \in Nat \ arena.heap  BY <1>3, Spent
  <1>5. Same(Now, t, {m}) /\ (s.stopped => t = Now)
    <2> HIDE DEF m
    <2> QED  BY <1>1, <1>4, SendMessageIs
  <1>6. ASSUME NEW x, Len(x) \in Nat, Flows(Now, x), ~ s.stopped, WritesFit(Now), Undisturbed
        PROVE  Tells(Now, t, m) /\ (Pending(Now) => Pending(t)) /\ Flows(t, x)
    <2> HIDE DEF m
    <2> QED  BY <1>1, <1>4, <1>6, SendFlows
  <1> HIDE DEF m, t
  <1>7. Now' = t  BY <1>3, <1>5, Committed DEF Same, Sane
  <1>8. Clean(hist') => Clean(hist) /\ (s.stopped \/ (s.conn # 0 /\ connect.stage # "set"))
    <2>1. /\ hist'.stale = hist.stale
          /\ hist'.bare = (hist.bare \/ (s.conn = 0 /\ ~ s.stopped))
          /\ hist'.early = (hist.early \/ (connect.stage = "set" /\ ~ s.stopped))
      BY <1>1, <1>3 DEF HistRecords
    <2> QED  BY <2>1 DEF Clean
  <1> SUFFICES ASSUME Clean(hist') PROVE Wired(t, wire, connect)  BY <1>3, <1>7 DEF WireInv
  <1>9. Wired(Now, wire, connect) /\ Tracked(Now, connect) /\ Undisturbed
    BY <1>2, <1>8 DEF WireInv, Clean, Undisturbed
  <1>10. CASE s.stopped  BY <1>5, <1>9, <1>10
  <1>11. CASE ~ s.stopped
    <2>1. s.live /\ WritesFit(Now)  BY <1>1, <1>8, <1>9, <1>11 DEF Tracked
    <2>2. Flows(Now, wire[s.conn])  BY <1>1, <1>9, <1>11, <2>1 DEF Wired
    <2>3. Len(wire[s.conn]) \in Nat
      <3>1. s.conn \in Conns  BY <1>1, <2>2 DEF Flows
      <3>2. wire[s.conn] \in Texts  BY <1>9, <3>1 DEF Wired, Carries
      <3> QED  BY <3>2 DEF Texts
    <2>4. Tells(Now, t, m) /\ (Pending(Now) => Pending(t)) /\ Flows(t, wire[s.conn])
      BY <1>6, <1>9, <1>11, <2>1, <2>2, <2>3
    <2>5. Pending(t)  BY <1>9, <2>4 DEF Wired, Current, Pending
    <2>6. t.s.conn = s.conn /\ t.s.live = s.live  BY <1>1, <1>5 DEF Same
    <2>7. Carries(wire, t, connect.next)
      <3>1. s.conn \in Nat /\ connect.next \in Nat /\ connect.next <= connect.next
        BY <1>1, WorldFields, ConnectFields
      <3>2. s.conn < connect.next  BY <1>1, <1>2, <1>8, <1>11 DEF Placed
      <3>3. Carries(wire, Now, connect.next)  BY <1>9 DEF Wired
      <3> QED  BY <1>1, <1>4, <2>4, <3>1, <3>2, <3>3, CarriesTold
    <2> QED  BY <1>9, <2>1, <2>4, <2>5, <2>6, <2>7 DEF Wired, Current, Pending
  <1> QED  BY <1>10, <1>11

\* o is replaced by d, which is o with its result.
Ended(o, d, result, n) ==
    /\ d \in OpRecords /\ d.kind = o.kind /\ d.conn = o.conn /\ d.handle = o.handle /\ d.at = o.at
    /\ d.n = n /\ d.result = result

\* The operation that completes, with its result.
LEMMA CompletesIs ==
    ASSUME IOInv, NEW o \in ops, NEW result \in {"ok", "transient", "fatal"}, NEW n \in Nat,
           Completes(o, result, n)
    PROVE  /\ o \in OpRecords /\ o.result = "none"
           /\ UNCHANGED <<s, arena, open, connect, sent, hist>>
           /\ \E d : Ended(o, d, result, n) /\ ops' = (ops \ {o}) \cup {d}
  <1> DEFINE Done(i) == [o EXCEPT !.result = result, !.n = n, !.copy = i]
             J == {j \in 1..(Cardinality(ops) + 1) : Done(j) \notin ops}
             d == Done(Min(J))
             P == (ops \ {o}) \cup {d}
  <1>1. Now \in Worlds /\ Now.ops = ops  BY NowFields
  <1>2. IsFiniteSet(ops) /\ ops \in SUBSET OpRecords /\ o \in OpRecords  BY <1>1, WorldFields
  <1>3. ops' = P /\ UNCHANGED <<s, arena, open, connect, sent, hist>> /\ o.result = "none"
    BY DEF Completes
  <1>4. Min(J) \in Nat
    <2>1. Done(0) \in OpRecords  BY <1>2 DEF OpRecords
    <2>2. \A j : [Done(0) EXCEPT !.copy = j] = Done(j)  BY <1>2 DEF OpRecords
    <2> HIDE DEF Done
    <2>3. J = {j \in 1..(Cardinality(ops) + 1) : [Done(0) EXCEPT !.copy = j] \notin ops}
      BY <2>2
    <2>4. Min({j \in 1..(Cardinality(ops) + 1) : [Done(0) EXCEPT !.copy = j] \notin ops}) \in Nat
      BY <1>2, <2>1, FreshCopy
    <2> QED  BY <2>3, <2>4
  <1> HIDE DEF J
  <1>5. Ended(o, d, result, n)  BY <1>2, <1>4 DEF OpRecords, Ended
  <1> HIDE DEF d
  <1> QED  BY <1>2, <1>3, <1>5

\* A completion that writes nothing.
LEMMA WireCompletes ==
    ASSUME IOInv, WireInv, NEW o \in ops, NEW result \in {"ok", "transient", "fatal"},
           Completes(o, result, 0), wire' = wire
    PROVE  WireInv'
  <1>0. 0 \in Nat  OBVIOUS
  <1>1. Now.s = s /\ Now.arena = arena /\ Now.ops = ops /\ Now.sent = sent  BY NowFields
  <1>2. /\ o.result = "none" /\ UNCHANGED <<s, arena, open, connect, sent, hist>>
        /\ \E d : Ended(o, d, result, 0) /\ ops' = (ops \ {o}) \cup {d}
    BY <1>0, CompletesIs
  <1>3. PICK d : Ended(o, d, result, 0) /\ ops' = (ops \ {o}) \cup {d}  BY <1>2
  <1> DEFINE t == [s |-> s, arena |-> arena, ops |-> ops', open |-> open, sent |-> sent]
  <1>4. Now' = t  BY <1>2 DEF Now
  <1>5. t.s = s /\ t.arena = arena /\ t.ops = ops' /\ t.sent = sent  OBVIOUS
  <1> HIDE DEF t
  <1> SUFFICES ASSUME Clean(hist) PROVE Wired(t, wire, connect)  BY <1>2, <1>4 DEF WireInv
  <1>6. Wired(Now, wire, connect)  BY DEF WireInv
  <1>7. Carries(wire, t, connect.next)  BY <1>1, <1>5, <1>6, CarriesSame DEF Wired
  <1>8. Current(t)  BY <1>1, <1>3, <1>5, <1>6 DEF Wired, Current, Ended
  <1>9. ASSUME s.live, ~ s.stopped PROVE Flows(t, wire[s.conn])
    <2>1. Flows(Now, wire[s.conn])  BY <1>1, <1>6, <1>9 DEF Wired
    <2>2. PICK n \in Nat : /\ Backlog(arena, s.q, sent[s.conn], Len(wire[s.conn]), n)
                           /\ WriteOps(ops, s.conn, s.q, n)
      BY <1>1, <2>1 DEF Flows
    <2>3. WriteOps(ops', s.conn, s.q, n)  BY <1>2, <1>3, <2>2 DEF WriteOps, Ended
    <2> QED  BY <1>1, <1>5, <2>1, <2>2, <2>3 DEF Flows
  <1> QED  BY <1>5, <1>6, <1>7, <1>8, <1>9 DEF Wired

\* What the writes add to connection c.
LEMMA CarriesGrown ==
    ASSUME NEW W, NEW w, NEW a, Carries(W, w, a), NEW c \in Conns, ~ (c >= a), NEW y, Laid(y, w.sent[c])
    PROVE  Carries([W EXCEPT ![c] = y], w, a)
  <1> DEFINE V == [W EXCEPT ![c] = y]
  <1>1. W \in [Conns -> Texts] /\ y \in Texts  BY DEF Carries, Laid
  <1>2. /\ V \in [Conns -> Texts] /\ V[c] = y /\ \A k \in Conns : k # c => V[k] = W[k]
    BY <1>1
  <1> HIDE DEF V
  <1> QED  BY <1>2 DEF Carries, V

\* Pieces of the front of the queue are written to the current connection.
LEMMA WireWriteSome ==
    ASSUME IOInv, WireInv, NEW o \in ops, WriteSome(o)
    PROVE  WireInv'
  <1>1. /\ Now.s = s /\ Now.arena = arena /\ Now.ops = ops /\ Now.sent = sent /\ Now \in Worlds
        /\ connect \in ConnectRecords
    BY NowFields
  <1>2. o \in OpRecords /\ s.conn \in Nat /\ connect.next \in Nat /\ s.q \in Seq(Items)
        /\ sent \in [Conns -> Seq(Nat)]
    BY <1>1, WorldFields, ConnectFields
  <1>3. PICK n \in 1..(Size - o.at) :
          /\ Completes(o, "ok", n)
          /\ wire' = IF Undisturbed
                     THEN [wire EXCEPT ![o.conn] = @ \o Pieces(Read(arena, o.handle), o.at, o.at + n)]
                     ELSE wire
    BY DEF WriteSome
  <1>4. n \in Nat /\ o.at \in Nat /\ o.at + n <= Size  BY <1>2, IOAssumption DEF OpRecords
  <1>5. /\ o.result = "none" /\ UNCHANGED <<s, arena, open, connect, sent, hist>>
        /\ \E d : Ended(o, d, "ok", n) /\ ops' = (ops \ {o}) \cup {d}
    BY <1>3, <1>4, CompletesIs
  <1>6. PICK d : Ended(o, d, "ok", n) /\ ops' = (ops \ {o}) \cup {d}  BY <1>5
  <1> DEFINE t == [s |-> s, arena |-> arena, ops |-> ops', open |-> open, sent |-> sent]
  <1>7. Now' = t  BY <1>5 DEF Now
  <1>8. t.s = s /\ t.arena = arena /\ t.ops = ops' /\ t.sent = sent  OBVIOUS
  <1> HIDE DEF t
  <1> SUFFICES ASSUME Clean(hist) PROVE Wired(t, wire', connect)  BY <1>5, <1>7 DEF WireInv
  <1>9. Wired(Now, wire, connect) /\ Tracked(Now, connect) /\ Undisturbed /\ Placed(Now, connect, hist)
    BY DEF WireInv, IOInv, Good, Clean, Undisturbed
  <1>10. s.live /\ o.conn = s.conn /\ ~ s.stopped /\ o.kind = "write"
    BY <1>1, <1>5, <1>9 DEF Wired, Current, Placed, WriteSome
  <1> DEFINE c == s.conn
             ms == sent[c]
             x == wire[c]
             e == Len(ms) - Len(s.q)
             y == x \o Pieces(Read(arena, o.handle), o.at, o.at + n)
  <1>11. Flows(Now, x) /\ WritesFit(Now) /\ c < connect.next
    BY <1>1, <1>9, <1>10 DEF Wired, Tracked
  <1>12. c \in Conns  BY <1>1, <1>11 DEF Flows
  <1>13. PICK k \in Nat : Backlog(arena, s.q, ms, Len(x), k) /\ WriteOps(ops, c, s.q, k)
    BY <1>1, <1>11 DEF Flows
  <1>14. s.q # <<>> /\ o.handle = s.q[1].handle /\ o.at = s.q[1].sent /\ k = 0
    BY <1>5, <1>10, <1>13 DEF WriteOps
  <1>15. Laid(x, ms)  BY <1>1, <1>9, <1>12 DEF Wired, Carries
  <1>16. ms \in Seq(Nat) /\ Len(ms) \in Nat /\ Len(s.q) \in Nat \ {0} /\ Len(x) \in Nat
    <2>1. ms \in Seq(Nat) /\ x \in Texts  BY <1>15 DEF Laid
    <2>2. Len(s.q) \in Nat \ {0}  BY <1>2, <1>14
    <2> QED  BY <2>1, <2>2 DEF Texts
  <1>17. /\ Len(s.q) <= Len(ms) /\ Read(arena, s.q[1].handle) = ms[e + 1]
         /\ Len(x) = e * Size + (s.q[1].sent + 0)
    <2>1. 1 \in 1..Len(s.q)  BY <1>16
    <2> QED  BY <1>13, <1>14, <2>1 DEF Backlog
  <1>18. e \in 0..(Len(ms) - 1)
    <2> DEFINE a == Len(ms)
               b == Len(s.q)
    <2>1. a \in Nat /\ b \in Nat \ {0} /\ b <= a  BY <1>16, <1>17
    <2> HIDE DEF a, b
    <2>2. a - b \in 0..(a - 1)  BY <2>1
    <2> QED  BY <2>2 DEF a, b
  <1> HIDE DEF e
  <1>19. Len(x) = e * Size + o.at
    <2>1. s.q[1].sent + 0 = o.at  BY <1>4, <1>14
    <2> QED  BY <1>17, <2>1
  <1>20. Due(x, ms, e, o.at, n)  BY <1>4, <1>15, <1>18, <1>19 DEF Due
  <1>21. y = x \o Pieces(ms[e + 1], o.at, o.at + n)  BY <1>14, <1>17
  <1> HIDE DEF y, ms, x
  <1>22. Laid(y, ms) /\ Len(y) = Len(x) + n  BY <1>20, <1>21, LaidPieces
  <1>23. wire' = [wire EXCEPT ![c] = y]  BY <1>3, <1>9, <1>10 DEF y, x
  <1>24. Carries(wire', t, connect.next)
    <2>1. Carries(wire, t, connect.next)  BY <1>1, <1>8, <1>9, CarriesSame DEF Wired
    <2>2. ~ (c >= connect.next)  BY <1>2, <1>11
    <2>3. Laid(y, t.sent[c])  BY <1>8, <1>22 DEF ms
    <2> HIDE DEF c
    <2> QED  BY <1>12, <1>23, <2>1, <2>2, <2>3, CarriesGrown
  <1>25. Current(t)  BY <1>1, <1>6, <1>8, <1>9 DEF Wired, Current, Ended
  <1>26. wire'[c] = y
    <2>1. wire \in [Conns -> Texts]  BY <1>9 DEF Wired, Carries
    <2> HIDE DEF c
    <2> QED  BY <1>12, <1>23, <2>1
  <1>27. Backlog(arena, s.q, ms, Len(y), n)
    <2>1. s.q[1].sent + n <= Size /\ Backlog(arena, s.q, ms, Len(x), 0)  BY <1>4, <1>13, <1>14
    <2> QED  BY <1>2, <1>4, <1>14, <1>16, <1>22, <2>1, BacklogGrows
  <1>28. WriteOps(ops', c, s.q, n)
    <2>1. OneOf(ops, c, "write")  BY <1>1, <1>11, <1>14 DEF WritesFit
    <2>2. NoneOf(ops \ {o}, c, "write")  BY <1>10, <2>1, Taken
    <2>3. \A p \in ops' : p.conn = c /\ p.kind = "write" => p = d  BY <1>6, <2>2 DEF NoneOf
    <2> QED  BY <1>6, <1>14, <2>3 DEF WriteOps, Ended
  <1>29. Flows(t, wire'[s.conn])  BY <1>4, <1>8, <1>12, <1>26, <1>27, <1>28 DEF Flows, ms
  <1> QED  BY <1>8, <1>9, <1>24, <1>25, <1>29 DEF Wired

-----------------------------------------------------------------------------
(* The handlers *)

\* The handler of a completion.
LEMMA WireHandler ==
    ASSUME IOInv, WireInv, NEW o, NEW t, Handler(o, t), Sane(t),
           Clean(hist') => /\ Carries(wire, t, connect.next) /\ Current(t)
                           /\ t.s.live /\ ~ t.s.stopped => Flows(t, wire[t.s.conn])
    PROVE  WireInv'
  <1>1. connect \in ConnectRecords /\ hist \in HistRecords  BY NowFields
  <1>2. /\ Commit(t) /\ wire' = wire
        /\ hist' = [hist EXCEPT !.stale = @ \/ (Effective(o) /\ o.conn # s.conn)]
        /\ connect' = IF t.s.reconnecting /\ ~ s.reconnecting
                      THEN [connect EXCEPT !.stage = "asked", !.mode = "RECONNECT"] ELSE connect
    BY DEF Handler
  <1>3. Now' = t  BY <1>2, Committed DEF Sane
  <1>4. connect'.next = connect.next /\ (connect'.stage = connect.stage \/ connect'.stage = "asked")
    BY <1>1, <1>2 DEF ConnectRecords
  <1>5. Clean(hist') => Clean(hist)
    <2>1. /\ hist'.stale = (hist.stale \/ (Effective(o) /\ o.conn # s.conn))
          /\ hist'.bare = hist.bare /\ hist'.early = hist.early
      BY <1>1, <1>2 DEF HistRecords
    <2> QED  BY <2>1 DEF Clean
  <1> SUFFICES ASSUME Clean(hist') PROVE Wired(t, wire, connect')  BY <1>2, <1>3 DEF WireInv
  <1>6. Wired(Now, wire, connect)  BY <1>5 DEF WireInv
  <1> QED  BY <1>4, <1>6 DEF Wired

\* What the handler of the current connection finds there.
LEMMA WireFinds ==
    ASSUME IOInv, WireInv, NEW o \in ops, NEW t, Handler(o, t), Clean(hist')
    PROVE  LET w == Without(o)
           IN  /\ w.sent = sent /\ Undisturbed /\ Pending(w) /\ Current(w)
               /\ Carries(wire, w, connect.next)
               /\ s.live => /\ s.conn \in Conns /\ Len(wire[s.conn]) \in Nat
                            /\ Flows(Now, wire[s.conn]) /\ Flows(w, wire[s.conn])
  <1> DEFINE w == Without(o)
  <1>1. /\ Now.s = s /\ Now.arena = arena /\ Now.ops = ops /\ Now.sent = sent /\ Now \in Worlds
        /\ hist \in HistRecords
    BY NowFields
  <1>2. w.s = s /\ w.arena = arena /\ w.ops = ops \ {o} /\ ~ s.stopped  BY HandlerFinds
  <1>3. w.sent = sent  BY <1>1 DEF Without, Worlds
  <1> HIDE DEF w
  <1>4. Clean(hist)
    <2>1. hist' = [hist EXCEPT !.stale = @ \/ (Effective(o) /\ o.conn # s.conn)]  BY DEF Handler
    <2>2. /\ hist'.stale = (hist.stale \/ (Effective(o) /\ o.conn # s.conn))
          /\ hist'.bare = hist.bare /\ hist'.early = hist.early
      BY <1>1, <2>1 DEF HistRecords
    <2> QED  BY <2>2 DEF Clean
  <1>5. Wired(Now, wire, connect) /\ Undisturbed  BY <1>4 DEF WireInv, Clean, Undisturbed
  <1>6. Current(w) /\ Pending(w)  BY <1>1, <1>2, <1>5 DEF Wired, Current, Pending
  <1>7. Carries(wire, w, connect.next)  BY <1>1, <1>3, <1>5, CarriesSame DEF Wired
  <1>8. ASSUME s.live
        PROVE  /\ s.conn \in Conns /\ Len(wire[s.conn]) \in Nat
               /\ Flows(Now, wire[s.conn]) /\ Flows(w, wire[s.conn])
    <2>1. Flows(Now, wire[s.conn])  BY <1>1, <1>2, <1>5, <1>8 DEF Wired
    <2>2. s.conn \in Conns  BY <1>1, <2>1 DEF Flows
    <2>3. Len(wire[s.conn]) \in Nat
      <3>1. wire[s.conn] \in Texts  BY <1>5, <2>2 DEF Wired, Carries
      <3> QED  BY <3>1 DEF Texts
    <2>4. \A n : WriteOps(ops, s.conn, s.q, n) => WriteOps(w.ops, s.conn, s.q, n)
      BY <1>2 DEF WriteOps
    <2>5. Flows(w, wire[s.conn])  BY <1>1, <1>2, <1>3, <2>1, <2>4 DEF Flows
    <2> QED  BY <2>1, <2>2, <2>3, <2>5
  <1> QED  BY <1>3, <1>5, <1>6, <1>7, <1>8 DEF w

\* A handler that keeps the connection and sends at most m.
LEMMA KeptWire ==
    ASSUME IOInv, WireInv, NEW o \in ops, NEW t, Handler(o, t), Effective(o), NEW M,
           Same(Without(o), t, M), NEW m \in Nat,
           Clean(hist') => Tells(Without(o), t, m) /\ Pending(t) /\ Flows(t, wire[s.conn])
    PROVE  WireInv'
  <1> DEFINE w == Without(o)
  <1>1. /\ w.s = s /\ ~ s.stopped /\ s.conn \in Nat
        /\ Clean(hist') => s.live /\ s.conn < connect.next
    BY HandlerFinds
  <1>2. Clean(hist') => Carries(wire, w, connect.next)  BY WireFinds
  <1> HIDE DEF w
  <1>3. Same(w, t, M) /\ (Clean(hist') => Tells(w, t, m))  BY DEF w
  <1>4. Sane(t) /\ t.s.conn = s.conn /\ t.s.live = s.live  BY <1>1, <1>3 DEF Same
  <1>5. connect.next \in Nat /\ connect.next <= connect.next  BY NowFields, ConnectFields
  <1>6. Clean(hist') => Carries(wire, t, connect.next)  BY <1>1, <1>2, <1>3, <1>5, CarriesTold
  <1>7. Clean(hist') => Current(t)  BY <1>1, <1>4 DEF Current, Pending
  <1> QED  BY <1>4, <1>6, <1>7, WireHandler

\* The handler of a fatal error.
LEMMA WireFatal ==
    ASSUME IOInv, WireInv, NEW o \in ops, o.result = "fatal",
           Handler(o, on_transport_down_(Without(o)))
    PROVE  WireInv'
  <1> DEFINE w == Without(o)
             t == on_transport_down_(w)
  <1>1. /\ Sane(w) /\ w.s = s /\ ~ s.stopped /\ (Clean(hist') => Tracked(Now, connect)) /\ Now.s = s
    BY HandlerFinds, NowFields
  <1>2. Clean(hist') => /\ w.sent = sent /\ Pending(w) /\ Current(w) /\ Carries(wire, w, connect.next)
    BY WireFinds
  <1> HIDE DEF w
  <1>3. Handler(o, t)  BY DEF w
  <1>4. /\ Sane(t)
        /\ ~ s.live \/ s.stopped \/ s.reconnecting => t = w
        /\ s.live /\ ~ s.stopped /\ ~ s.reconnecting => ~ t.s.live
    BY <1>1, DownIs
  <1>5. /\ t.sent = w.sent
        /\ s.live /\ ~ s.stopped /\ ~ s.reconnecting /\ Pending(w) => \A p \in t.ops : p.result # "none"
    BY <1>1, DownSends
  <1> HIDE DEF t
  <1>6. ASSUME Clean(hist')
        PROVE  Carries(wire, t, connect.next) /\ Current(t) /\ ~ t.s.live
    <2>1. Carries(wire, t, connect.next)  BY <1>2, <1>5, <1>6, CarriesSame
    <2>2. CASE s.live
      <3>1. ~ s.reconnecting  BY <1>1, <1>6, <2>2 DEF Tracked
      <3> QED  BY <1>1, <1>2, <1>4, <1>5, <1>6, <2>1, <2>2, <3>1 DEF Current
    <2>3. CASE ~ s.live  BY <1>1, <1>2, <1>4, <1>6, <2>1, <2>3
    <2> QED  BY <2>2, <2>3
  <1> QED  BY <1>3, <1>4, <1>6, WireHandler

\* A handler that sends nothing.
LEMMA TellsNothing ==
    ASSUME NEW w, NEW t, t.sent = w.sent, NEW m
    PROVE  Tells(w, t, m)
  BY DEF Tells

\* A read handler that only reads again.
LEMMA WireReadAgain ==
    ASSUME IOInv, WireInv, NEW o \in ops, Effective(o), Handler(o, do_read(Without(o)))
    PROVE  WireInv'
  <1> DEFINE w == Without(o)
             t == do_read(w)
  <1>1. /\ Sane(w) /\ w.s = s /\ ~ s.stopped /\ (Clean(hist') => s.live /\ s.conn # 0)
    BY HandlerFinds
  <1>2. Clean(hist') /\ s.live => Pending(w) /\ Flows(w, wire[s.conn])
    BY WireFinds
  <1> HIDE DEF w
  <1>3. Handler(o, t) /\ 0 \in Nat  BY DEF w
  <1>4. Same(w, t, {})  BY <1>1, DoReadIs
  <1>5. Clean(hist') => /\ t.sent = w.sent /\ (Pending(w) => Pending(t))
                        /\ (Flows(w, wire[s.conn]) => Flows(t, wire[s.conn]))
    BY <1>1, ReadFlows
  <1> HIDE DEF t
  <1>6. Clean(hist') => Tells(w, t, 0) /\ Pending(t) /\ Flows(t, wire[s.conn])
    BY <1>1, <1>2, <1>5, TellsNothing
  <1> QED  BY <1>3, <1>4, <1>6, KeptWire DEF w

LEMMA WireReadHandlerFails ==
    ASSUME IOInv, WireInv, NEW o \in ops, ReadHandlerFails(o)
    PROVE  WireInv'
  <1>1. CASE o.result = "fatal"
    <2>1. Handler(o, on_transport_down_(Without(o)))  BY <1>1 DEF ReadHandlerFails
    <2> QED  BY <1>1, <2>1, WireFatal
  <1>2. CASE o.result # "fatal"
    <2>1. o.result = "transient"  BY <1>2 DEF ReadHandlerFails
    <2>2. Handler(o, do_read(Without(o))) /\ Effective(o)  BY <2>1 DEF ReadHandlerFails, Effective
    <2> QED  BY <2>2, WireReadAgain
  <1> QED  BY <1>1, <1>2

LEMMA WireReadHandler ==
    ASSUME IOInv, WireInv, NEW o \in ops, ReadHandler(o)
    PROVE  WireInv'
  <1> DEFINE w == Without(o)
             m == budget.sends
             u == send_message_(w, m)
             t == do_read(u)
  <1>1. o.kind = "read" /\ Effective(o)  BY DEF ReadHandler, Effective
  <1>2. CASE Handler(o, do_read(w))  BY <1>1, <1>2, WireReadAgain
  <1>3. CASE m > 0 /\ budget' = [budget EXCEPT !.sends = @ - 1] /\ Handler(o, t)
    <2>1. /\ Sane(w) /\ w.s = s /\ w.arena = arena /\ w.ops = ops \ {o} /\ ~ s.stopped
          /\ Clean(hist') => /\ s.live /\ s.conn # 0 /\ o.conn = s.conn
                             /\ OneOf(ops, s.conn, "read") /\ WritesFit(Now)
      <3> HIDE DEF t
      <3> QED  BY <1>1, <1>3, HandlerFinds
    <2>2. Clean(hist') /\ s.live => /\ Pending(w) /\ Flows(w, wire[s.conn]) /\ Undisturbed
                                    /\ Len(wire[s.conn]) \in Nat
      <3> HIDE DEF t
      <3> QED  BY <1>3, WireFinds
    <2>3. m \in Nat \ arena.heap  BY <1>3, Spent
    <2>4. Now.s = s /\ Now.ops = ops  BY NowFields
    <2> HIDE DEF w, m
    <2>5. Same(w, u, {m})  BY <2>1, <2>3, SendMessageIs
    <2>6. Clean(hist') => WritesFit(w)  BY <1>1, <2>1, <2>4, ReadTaken
    <2>7. Clean(hist') => /\ Tells(w, u, m) /\ (Pending(w) => Pending(u)) /\ Flows(u, wire[s.conn])
      BY <2>1, <2>2, <2>3, <2>6, SendFlows
    <2> HIDE DEF u
    <2>8. Sane(u) /\ u.s.stopped = s.stopped /\ u.s.conn = s.conn  BY <2>1, <2>5 DEF Same
    <2>9. Same(u, t, {})  BY <2>8, DoReadIs
    <2>10. Same(w, t, {m})  BY <2>5, <2>9, SameMore, SameTrans
    <2>11. Clean(hist') => /\ t.sent = u.sent /\ (Pending(u) => Pending(t))
                           /\ (Flows(u, wire[s.conn]) => Flows(t, wire[s.conn]))
      BY <2>1, <2>8, ReadFlows
    <2> HIDE DEF t
    <2>12. Clean(hist') => Tells(w, t, m) /\ Pending(t) /\ Flows(t, wire[s.conn])
      BY <2>1, <2>2, <2>7, <2>11 DEF Tells
    <2> QED  BY <1>1, <1>3, <2>3, <2>10, <2>12, KeptWire DEF w
  <1> QED  BY <1>2, <1>3 DEF ReadHandler

LEMMA WireReadHandlerLogout ==
    ASSUME IOInv, WireInv, NEW o \in ops, ReadHandlerLogout(o)
    PROVE  WireInv'
  <1> DEFINE w == Without(o)
             m == budget.sends
             u == send_message_(w, m)
             v == stop_(u)
             t == do_read(v)
  <1>1. /\ o.kind = "read" /\ Effective(o) /\ m > 0 /\ budget' = [budget EXCEPT !.sends = @ - 1]
        /\ Handler(o, t)
    BY DEF ReadHandlerLogout, Effective
  <1>2. /\ Sane(w) /\ w.s = s /\ w.arena = arena /\ w.ops = ops \ {o} /\ ~ s.stopped /\ s.conn \in Nat
        /\ Clean(hist') => /\ s.live /\ s.conn # 0 /\ o.conn = s.conn /\ s.conn < connect.next
                           /\ OneOf(ops, s.conn, "read") /\ WritesFit(Now)
    <2> HIDE DEF t
    <2> QED  BY <1>1, HandlerFinds
  <1>3. Clean(hist') => /\ Carries(wire, w, connect.next)
                        /\ s.live => /\ Flows(w, wire[s.conn]) /\ Undisturbed
                                     /\ Len(wire[s.conn]) \in Nat
    <2> HIDE DEF t
    <2> QED  BY <1>1, WireFinds
  <1>4. m \in Nat \ arena.heap  BY <1>1, Spent
  <1>5. Now.s = s /\ Now.ops = ops  BY NowFields
  <1> HIDE DEF w, m
  <1>6. Same(w, u, {m})  BY <1>2, <1>4, SendMessageIs
  <1>7. Clean(hist') => WritesFit(w)  BY <1>1, <1>2, <1>5, ReadTaken
  <1>8. Clean(hist') => Tells(w, u, m)  BY <1>2, <1>3, <1>4, <1>7, SendFlows
  <1> HIDE DEF u
  <1>9. Sane(u) /\ u.s.stopped = s.stopped  BY <1>2, <1>6 DEF Same
  <1>10. Sane(v) /\ v.s.stopped /\ v.ops = {}  BY <1>2, <1>9, StopIs
  <1>11. v.sent = u.sent  BY <1>9, StopSends
  <1> HIDE DEF v
  <1>12. t = v  BY <1>10, DoReadIs
  <1> HIDE DEF t
  <1>13. Clean(hist') => Carries(wire, t, connect.next)
    <2>1. connect.next \in Nat /\ connect.next <= connect.next  BY NowFields, ConnectFields
    <2>2. Clean(hist') => Tells(w, t, m)  BY <1>8, <1>11, <1>12 DEF Tells
    <2> QED  BY <1>2, <1>3, <1>4, <2>1, <2>2, CarriesTold
  <1>14. Current(t) /\ t.s.stopped /\ Sane(t)  BY <1>10, <1>12 DEF Current
  <1> QED  BY <1>1, <1>13, <1>14, WireHandler

LEMMA WireWriteHandlerFails ==
    ASSUME IOInv, WireInv, NEW o \in ops, WriteHandlerFails(o)
    PROVE  WireInv'
  <1> DEFINE w == Without(o)
             t == do_write(w)
  <1>1. CASE o.result = "fatal"
    <2>1. Handler(o, on_transport_down_(Without(o)))  BY <1>1 DEF WriteHandlerFails
    <2> QED  BY <1>1, <2>1, WireFatal
  <1>2. CASE o.result # "fatal"
    <2>1. o.result = "transient" /\ o.kind = "write"  BY <1>2 DEF WriteHandlerFails
    <2>2. Handler(o, t) /\ Effective(o)  BY <2>1 DEF WriteHandlerFails, Effective
    <2> HIDE DEF t
    <2>3. /\ Sane(w) /\ w.s = s /\ w.arena = arena /\ w.ops = ops \ {o} /\ ~ s.stopped
          /\ Clean(hist') => /\ s.live /\ s.conn # 0 /\ o.conn = s.conn
                             /\ OneOf(ops, s.conn, "read") /\ WritesFit(Now)
      BY <2>2, HandlerFinds
    <2>4. Clean(hist') => /\ w.sent = sent /\ Pending(w)
                          /\ s.live => s.conn \in Conns /\ Flows(Now, wire[s.conn])
      BY <2>2, WireFinds
    <2>5. Now.s = s /\ Now.arena = arena /\ Now.ops = ops /\ Now.sent = sent  BY NowFields
    <2> HIDE DEF w
    <2>6. Same(w, t, {})  BY <2>3, DoWriteIs DEF t
    <2>7. ASSUME Clean(hist') PROVE Tells(w, t, 0) /\ Pending(t) /\ Flows(t, wire[s.conn])
      <3>1. NoneOf(w.ops, w.s.conn, "write")  BY <2>1, <2>3, <2>5, <2>7, WriteTaken
      <3>2. PICK n \in Nat : /\ Backlog(arena, s.q, sent[s.conn], Len(wire[s.conn]), n)
                             /\ WriteOps(ops, s.conn, s.q, n)
        BY <2>3, <2>4, <2>5, <2>7 DEF Flows
      <3>3. n = 0  BY <2>1, <2>3, <2>7, <3>2 DEF WriteOps
      <3>4. Backlog(w.arena, w.s.q, w.sent[w.s.conn], Len(wire[s.conn]), 0)
        BY <2>3, <2>4, <2>7, <3>2, <3>3
      <3>5. t.sent = w.sent /\ (Pending(w) => Pending(t)) /\ Flows(t, wire[s.conn])
        BY <2>3, <2>4, <2>7, <3>1, <3>4, WriteFlows DEF t
      <3> QED  BY <2>4, <2>7, <3>5, TellsNothing
    <2>8. 0 \in Nat  OBVIOUS
    <2> QED  BY <2>2, <2>6, <2>7, <2>8, KeptWire DEF w
  <1> QED  BY <1>1, <1>2

LEMMA WireWriteHandler ==
    ASSUME IOInv, WireInv, NEW o \in ops, WriteHandler(o)
    PROVE  WireInv'
  <1> DEFINE w == Without(o)
             u == Written(w, o.n)
             t == IF u.s.fault = "none" THEN do_write(u) ELSE u
  <1>1. o.kind = "write" /\ Effective(o) /\ Handler(o, t)  BY DEF WriteHandler, Effective
  <1> HIDE DEF t
  <1>2. /\ Sane(w) /\ w.s = s /\ w.arena = arena /\ w.ops = ops \ {o} /\ ~ s.stopped
        /\ o \in OpRecords
        /\ Clean(hist') => /\ Tracked(Now, connect) /\ s.live /\ s.conn # 0 /\ o.conn = s.conn
                           /\ OneOf(ops, s.conn, "read") /\ WritesFit(Now)
    BY <1>1, HandlerFinds
  <1>3. Clean(hist') => /\ w.sent = sent /\ Pending(w)
                        /\ s.live => /\ s.conn \in Conns /\ Flows(Now, wire[s.conn])
                                     /\ Len(wire[s.conn]) \in Nat
    BY <1>1, WireFinds
  <1>4. Now.s = s /\ Now.arena = arena /\ Now.ops = ops /\ Now.sent = sent  BY NowFields
  <1> HIDE DEF w
  <1>5. o.n \in Nat /\ 0 \in Nat  BY <1>2 DEF OpRecords
  <1>6. /\ Same(w, u, {}) /\ u.ops = w.ops
        /\ w.s.q # <<>> => u.s.fault = w.s.fault
    BY <1>2, <1>5, WrittenIs
  <1>7. Clean(hist') /\ w.s.q # <<>>
          /\ Backlog(w.arena, w.s.q, w.sent[w.s.conn], Len(wire[s.conn]), o.n) =>
             u.sent = w.sent /\ Backlog(u.arena, u.s.q, u.sent[w.s.conn], Len(wire[s.conn]), 0)
    BY <1>2, <1>3, <1>5, WrittenFlows
  <1> HIDE DEF u
  <1>8. Sane(u) /\ u.s.conn = s.conn /\ u.s.stopped = s.stopped  BY <1>2, <1>6 DEF Same
  <1>9. Same(w, t, {})
    <2>1. Same(u, do_write(u), {})  BY <1>8, DoWriteIs
    <2>2. Same(w, do_write(u), {})  BY <1>6, <2>1, SameTrans
    <2> QED  BY <1>6, <2>2 DEF t
  <1>10. ASSUME Clean(hist') PROVE Tells(w, t, 0) /\ Pending(t) /\ Flows(t, wire[s.conn])
    <2>1. NoneOf(w.ops, w.s.conn, "write") /\ w.s.q # <<>>
      BY <1>1, <1>2, <1>4, <1>10, WriteTaken
    <2>2. PICK n \in Nat : /\ Backlog(arena, s.q, sent[s.conn], Len(wire[s.conn]), n)
                           /\ WriteOps(ops, s.conn, s.q, n)
      BY <1>2, <1>3, <1>4, <1>10 DEF Flows
    <2>3. n = o.n  BY <1>1, <1>2, <1>10, <2>2 DEF WriteOps
    <2>4. Backlog(w.arena, w.s.q, w.sent[w.s.conn], Len(wire[s.conn]), o.n)
      BY <1>2, <1>3, <1>10, <2>2, <2>3
    <2>5. u.sent = w.sent /\ Backlog(u.arena, u.s.q, u.sent[w.s.conn], Len(wire[s.conn]), 0)
      BY <1>7, <1>10, <2>1, <2>4
    <2>6. t = do_write(u)
      <3>1. s.fault = "none"  BY <1>2, <1>4, <1>10 DEF Tracked
      <3> QED  BY <1>2, <1>6, <2>1, <3>1 DEF t
    <2>7. t.sent = u.sent /\ (Pending(u) => Pending(t)) /\ Flows(t, wire[s.conn])
      BY <1>2, <1>3, <1>6, <1>8, <1>10, <2>1, <2>5, <2>6, WriteFlows
    <2>8. Pending(u)  BY <1>2, <1>3, <1>6, <1>8, <1>10 DEF Pending
    <2> QED  BY <2>5, <2>7, <2>8, TellsNothing
  <1> QED  BY <1>1, <1>5, <1>9, <1>10, KeptWire DEF w

LEMMA WireNext ==
    IOInv /\ WireInv /\ [Next]_vars => WireInv'
  <1> SUFFICES ASSUME IOInv, WireInv, [Next]_vars PROVE WireInv'  OBVIOUS
  <1>1. CASE Establish  BY <1>1, WireEstablish
  <1>2. CASE set_connection  BY <1>2, WireSetConnection
  <1>3. CASE start  BY <1>3, WireStart
  <1>4. CASE AppSend  BY <1>4, WireAppSend
  <1>5. CASE stop  BY <1>5, WireStop
  <1>6. ASSUME NEW o \in ops,
               \/ ReadSome(o) \/ WriteSome(o) \/ Fails(o) \/ Hiccup(o)
               \/ ReadHandlerFails(o) \/ ReadHandler(o) \/ ReadHandlerLogout(o)
               \/ WriteHandlerFails(o) \/ WriteHandler(o)
        PROVE  WireInv'
    <2>1. CASE ReadSome(o)
      <3>1. Completes(o, "ok", 0) /\ wire' = wire  BY <2>1 DEF ReadSome
      <3> QED  BY <3>1, WireCompletes
    <2>2. CASE WriteSome(o)  BY <2>2, WireWriteSome
    <2>3. CASE Fails(o)
      <3>1. Completes(o, "fatal", 0) /\ wire' = wire  BY <2>3 DEF Fails
      <3> QED  BY <3>1, WireCompletes
    <2>4. CASE Hiccup(o)
      <3>1. Completes(o, "transient", 0) /\ wire' = wire  BY <2>4 DEF Hiccup
      <3> QED  BY <3>1, WireCompletes
    <2>5. CASE ReadHandlerFails(o)  BY <2>5, WireReadHandlerFails
    <2>6. CASE ReadHandler(o)  BY <2>6, WireReadHandler
    <2>7. CASE ReadHandlerLogout(o)  BY <2>7, WireReadHandlerLogout
    <2>8. CASE WriteHandlerFails(o)  BY <2>8, WireWriteHandlerFails
    <2>9. CASE WriteHandler(o)  BY <2>9, WireWriteHandler
    <2> QED  BY <1>6, <2>1, <2>2, <2>3, <2>4, <2>5, <2>6, <2>7, <2>8, <2>9
  <1>7. CASE UNCHANGED vars
    <2>1. Now' = Now /\ connect' = connect /\ wire' = wire /\ hist' = hist
      BY <1>7 DEF vars, Now
    <2> QED  BY <2>1 DEF WireInv
  <1> QED  BY <1>1, <1>2, <1>3, <1>4, <1>5, <1>6, <1>7 DEF Next

-----------------------------------------------------------------------------
(* The theorems *)

\* The session's connection, queue, arena and operations fit together in
\* every reachable state, whatever completes in which order.
THEOREM IOInvariance == Spec => []IOInv
  BY IOInit, IONext, PTL DEF Spec

\* Every block of arena_ is free, once, or holds one message of write_q_:
\* no handler, however late, leaks a block or gives one back twice.
THEOREM BlocksAreExact == Spec => []BlocksExact
  <1>1. IOInv => BlocksExact
    <2> SUFFICES ASSUME IOInv PROVE BlocksExact  OBVIOUS
    <2>1. Holds(arena, s.q)  BY NowFields DEF Sane
    <2> QED  BY <2>1, HoldsExact
  <1> QED  BY <1>1, IOInvariance, PTL

\* stop_ leaves no socket open, unless set_connection runs after it.
THEOREM StopClosesSocket == Spec => []StopLeavesNoSocket
  <1>1. IOInv => StopLeavesNoSocket
    BY NowFields DEF IOInv, Good, Placed, StopLeavesNoSocket
  <1> QED  BY <1>1, IOInvariance, PTL

\* While no handler of an earlier connection has had an effect and nothing
\* was sent without a connection or before start, do_read and do_write have
\* a conn_ and a write handler has a front of write_q_.
THEOREM NoUndefinedUses == Spec => []NoUndefinedUse
  <1>1. IOInv => NoUndefinedUse
    BY NowFields DEF IOInv, Good, Clean, Tracked, NoUndefinedUse, Undisturbed
  <1> QED  BY <1>1, IOInvariance, PTL

\* Under the same condition a live session has one read outstanding, and
\* one write exactly if write_q_ has something.
THEOREM OneReadAndOneWrite == Spec => []OneReadOneWrite
  <1>1. IOInv => OneReadOneWrite
    <2> SUFFICES ASSUME IOInv, Undisturbed, s.live, ~ s.stopped
                 PROVE  LET reads  == {o \in ops : o.conn = s.conn /\ o.kind = "read"}
                            writes == {o \in ops : o.conn = s.conn /\ o.kind = "write"}
                        IN  /\ Cardinality(reads) = 1
                            /\ Cardinality(writes) = IF s.q = <<>> THEN 0 ELSE 1
                            /\ s.inflight <=> s.q # <<>>
      BY DEF OneReadOneWrite
    <2>1. OneOf(ops, s.conn, "read") /\ WritesFit(Now)
      BY NowFields DEF IOInv, Good, Clean, Tracked, Undisturbed
    <2>2. ASSUME NEW k, OneOf(ops, s.conn, k)
          PROVE  Cardinality({o \in ops : o.conn = s.conn /\ o.kind = k}) = 1
      <3>1. PICK x \in ops : /\ x.conn = s.conn /\ x.kind = k
                             /\ \A p \in ops : p.conn = s.conn /\ p.kind = k => p = x
        BY <2>2 DEF OneOf
      <3>2. {o \in ops : o.conn = s.conn /\ o.kind = k} = {x}  BY <3>1
      <3> QED  BY <3>2, FS_Singleton
    <2>3. ASSUME NoneOf(ops, s.conn, "write")
          PROVE  Cardinality({o \in ops : o.conn = s.conn /\ o.kind = "write"}) = 0
      <3>1. {o \in ops : o.conn = s.conn /\ o.kind = "write"} = {}  BY <2>3 DEF NoneOf
      <3> QED  BY <3>1, FS_EmptySet
    <2>4. s.inflight <=> s.q # <<>>  BY <2>1, NowFields DEF WritesFit
    <2>5. IF s.q = <<>> THEN NoneOf(ops, s.conn, "write") ELSE OneOf(ops, s.conn, "write")
      BY <2>1, NowFields DEF WritesFit
    <2> QED  BY <2>1, <2>2, <2>3, <2>4, <2>5
  <1> QED  BY <1>1, IOInvariance, PTL

\* A connection carries the messages that were sent while it was there, in
\* order and whole up to the last: partial writes, transient errors, lost
\* connections and stops neither repeat a piece nor leave one out.
THEOREM WireIsIntact == Spec => []WireIntact
  <1>1. Init => IOInv /\ WireInv  BY IOInit, WireInit
  <1>2. IOInv /\ WireInv /\ [Next]_vars => (IOInv /\ WireInv)'  BY IONext, WireNext
  <1>3. WireInv => WireIntact
    <2> SUFFICES ASSUME WireInv, Undisturbed, NEW k \in Conns
                 PROVE  IsPrefix(wire[k], FlattenSeq([i \in DOMAIN sent[k] |-> Pieces(sent[k][i], 0, Size)]))
      BY DEF WireIntact
    <2>1. Wired(Now, wire, connect) /\ Now.sent = sent  BY DEF WireInv, Clean, Undisturbed, Now
    <2>2. Laid(wire[k], sent[k])  BY <2>1 DEF Wired, Carries
    <2> QED  BY <2>2, LaidIsPrefix
  <1> QED  BY <1>1, <1>2, <1>3, PTL DEF Spec
=============================================================================
