------------------------ MODULE SessionManagerProofs ------------------------
(***************************************************************************)
(* The theorems about SessionManager and the SessionPool under it.         *)
(***************************************************************************)
EXTENDS SessionManager, FiniteSetTheorems, SequenceTheorems, InductionLemmas, TLAPS

-----------------------------------------------------------------------------
(* The pool *)

HandleRecs == [storage_index : Nat, id : Nat]

ObjRecs ==
    [handle : HandleRecs, conn : BOOLEAN, stopped : BOOLEAN, down : BOOLEAN,
     held : BOOLEAN, mail : SUBSET Nat, logged : Nat]

PoolRecs == [sessions : Seq(HandleRecs \cup {None}), free : Seq(Nat), next_idx : Nat]

\* The slots of p hold the sessions of o that are not in R, and the free
\* list the slots that are empty.
Slots(p, o, R) ==
    /\ p \in PoolRecs /\ o \in [0..(p.next_idx - 1) -> ObjRecs] /\ R \subseteq DOMAIN o
    /\ \A k \in 1..Len(p.sessions) : p.sessions[k] # None =>
         /\ p.sessions[k].storage_index = k /\ p.sessions[k].id \in DOMAIN o \ R
         /\ o[p.sessions[k].id].handle = p.sessions[k]
    /\ \A i \in DOMAIN o : /\ o[i].handle.id = i
                           /\ o[i].handle.storage_index \in 1..Len(p.sessions)
    /\ \A i \in DOMAIN o \ R : p.sessions[o[i].handle.storage_index] = o[i].handle
    /\ \A n \in 1..Len(p.free) : /\ p.free[n] \in 1..Len(p.sessions)
                                 /\ p.sessions[p.free[n]] = None
    /\ \A k \in 1..Len(p.sessions) :
         p.sessions[k] = None => \E n \in 1..Len(p.free) : p.free[n] = k
    /\ \A m, n \in 1..Len(p.free) : p.free[m] = p.free[n] => m = n
    /\ size(p) = Cardinality(DOMAIN o \ R)

LEMMA NoneIsNone ==
    None \notin HandleRecs /\ None.id = -1
  BY DEF None, HandleRecs

LEMMA PoolFields ==
    ASSUME NEW p \in PoolRecs
    PROVE  /\ p.sessions \in Seq(HandleRecs \cup {None}) /\ p.free \in Seq(Nat)
           /\ p.next_idx \in Nat /\ Len(p.sessions) \in Nat /\ Len(p.free) \in Nat
           /\ \A k \in 1..Len(p.sessions) : p.sessions[k] \in HandleRecs \cup {None}
  BY DEF PoolRecs

\* What a handle finds is its own session, and it finds it if it is there.
LEMMA GetIs ==
    ASSUME NEW p, NEW o, NEW R, Slots(p, o, R), NEW i \in DOMAIN o
    PROVE  LET h == o[i].handle
           IN  /\ i \in R => get(p, h) = None
               /\ i \notin R => get(p, h) = h
  <1> DEFINE h == o[i].handle
             k == h.storage_index
  <1>1. k \in 1..Len(p.sessions) /\ h.id = i  BY DEF Slots
  <1>2. CASE i \in R
    <2>1. CASE p.sessions[k] = None
      <3>1. get(p, h) = None  BY <2>1 DEF get
      <3> QED  BY <1>2, <3>1
    <2>2. CASE p.sessions[k] # None
      <3>1. p.sessions[k].id \in DOMAIN o \ R  BY <1>1, <2>2 DEF Slots
      <3>2. p.sessions[k].id # h.id  BY <1>1, <1>2, <3>1
      <3>3. get(p, h) = None  BY <3>2 DEF get
      <3> QED  BY <1>2, <3>3
    <2> QED  BY <2>1, <2>2
  <1>3. CASE i \notin R
    <2>1. p.sessions[k] = h  BY <1>3 DEF Slots
    <2>2. get(p, h) = h  BY <2>1 DEF get
    <2> QED  BY <1>3, <2>2
  <1> QED  BY <1>2, <1>3

\* The handles in the pool are those of the sessions that were not removed.
LEMMA PoolHas ==
    ASSUME NEW p, NEW o, NEW R, Slots(p, o, R)
    PROVE  /\ ToSet(p.sessions) \ {None} = {o[i].handle : i \in DOMAIN o \ R}
           /\ ToSet(p.free) = {k \in DOMAIN p.sessions : p.sessions[k] = None}
           /\ \A i \in DOMAIN o : (\E h \in ToSet(p.sessions) : h.id = i) <=> i \notin R
  <1>1. p \in PoolRecs /\ o \in [0..(p.next_idx - 1) -> ObjRecs]  BY DEF Slots
  <1>2. DOMAIN p.sessions = 1..Len(p.sessions) /\ DOMAIN p.free = 1..Len(p.free)
    BY <1>1, PoolFields
  <1>3. /\ ToSet(p.sessions) = {p.sessions[k] : k \in 1..Len(p.sessions)}
        /\ ToSet(p.free) = {p.free[k] : k \in 1..Len(p.free)}
    BY <1>2 DEF ToSet
  <1>4. \A h : h \in ToSet(p.sessions) \ {None} <=> h \in {o[i].handle : i \in DOMAIN o \ R}
    <2>1. ASSUME NEW h \in ToSet(p.sessions) \ {None}
          PROVE  h \in {o[i].handle : i \in DOMAIN o \ R}
      <3>1. PICK k \in 1..Len(p.sessions) : p.sessions[k] = h  BY <1>3, <2>1
      <3> QED  BY <2>1, <3>1 DEF Slots
    <2>2. ASSUME NEW i \in DOMAIN o \ R
          PROVE  o[i].handle \in ToSet(p.sessions) \ {None}
      <3>1. o[i].handle \in HandleRecs  BY <1>1 DEF ObjRecs
      <3>2. /\ o[i].handle.storage_index \in 1..Len(p.sessions)
            /\ p.sessions[o[i].handle.storage_index] = o[i].handle
        BY DEF Slots
      <3> QED  BY <1>3, <3>1, <3>2, NoneIsNone
    <2> QED  BY <2>1, <2>2
  <1>5. ToSet(p.free) = {k \in DOMAIN p.sessions : p.sessions[k] = None}
    BY <1>2, <1>3 DEF Slots
  <1>6. ASSUME NEW i \in DOMAIN o
        PROVE  (\E h \in ToSet(p.sessions) : h.id = i) <=> i \notin R
    <2>1. i \in Nat  BY <1>1
    <2>2. ASSUME NEW h \in ToSet(p.sessions), h.id = i PROVE i \notin R
      <3>1. h # None  BY <2>1, <2>2, NoneIsNone
      <3>2. PICK k \in 1..Len(p.sessions) : p.sessions[k] = h  BY <1>3, <2>2
      <3> QED  BY <2>2, <3>1, <3>2 DEF Slots
    <2>3. ASSUME i \notin R PROVE \E h \in ToSet(p.sessions) : h.id = i
      <3>1. o[i].handle \in ToSet(p.sessions)  BY <1>4, <2>3
      <3>2. o[i].handle.id = i  BY DEF Slots
      <3> QED  BY <3>1, <3>2
    <2> QED  BY <2>2, <2>3
  <1> QED  BY <1>4, <1>5, <1>6

\* Of the objects only the handles matter.
LEMMA SlotsHandles ==
    ASSUME NEW p, NEW o, NEW R, Slots(p, o, R), NEW u \in [DOMAIN o -> ObjRecs],
           \A i \in DOMAIN o : u[i].handle = o[i].handle
    PROVE  Slots(p, u, R)
  BY DEF Slots

LEMMA IdsFinite ==
    ASSUME NEW p, NEW o, NEW R, Slots(p, o, R)
    PROVE  IsFiniteSet(DOMAIN o) /\ IsFiniteSet(DOMAIN o \ R)
  <1>1. DOMAIN o = 0..(p.next_idx - 1) /\ p.next_idx - 1 \in Int  BY PoolFields DEF Slots
  <1>2. IsFiniteSet(0..(p.next_idx - 1))  BY <1>1, FS_Interval
  <1>3. DOMAIN o \ R \subseteq DOMAIN o  OBVIOUS
  <1> QED  BY <1>1, <1>2, <1>3, FS_Subset

\* The objects with a new one for handle h.
WithNew(p, o) ==
    [i \in DOMAIN o \cup {p.next_idx} |-> IF i = p.next_idx THEN NewObj(NextID(p)) ELSE o[i]]

\* A new session in slot k, which was free or not there.
LEMMA SlotTaken ==
    ASSUME NEW p, NEW o, NEW R, Slots(p, o, R),
           NEW q \in Seq(HandleRecs \cup {None}), NEW f \in Seq(Nat), NEW k \in 1..Len(q),
           NextID(p) \in HandleRecs, NextID(p).storage_index = k, NextID(p).id = p.next_idx,
           q[k] = NextID(p), 1..Len(p.sessions) \subseteq 1..Len(q),
           \A j \in 1..Len(q) : j = k \/ (j \in 1..Len(p.sessions) /\ q[j] = p.sessions[j]),
           k \in 1..Len(p.sessions) => p.sessions[k] = None,
           \A n \in 1..Len(f) : n \in 1..Len(p.free) /\ f[n] = p.free[n] /\ f[n] # k,
           \A n \in 1..Len(p.free) : p.free[n] = k \/ n \in 1..Len(f),
           Len(q) - Len(f) = size(p) + 1
    PROVE  Slots([sessions |-> q, free |-> f, next_idx |-> p.next_idx + 1], WithNew(p, o), R)
  <1> DEFINE t == [sessions |-> q, free |-> f, next_idx |-> p.next_idx + 1]
             u == WithNew(p, o)
             c == p.next_idx
  <1>1. p \in PoolRecs /\ o \in [0..(c - 1) -> ObjRecs] /\ R \subseteq DOMAIN o /\ c \in Nat
    BY PoolFields DEF Slots
  <1>2. /\ t \in PoolRecs /\ t.sessions = q /\ t.free = f /\ t.next_idx = c + 1
    BY <1>1 DEF PoolRecs
  <1>3. DOMAIN o \cup {c} = 0..(c + 1 - 1) /\ c \notin DOMAIN o  BY <1>1
  <1>4. NewObj(NextID(p)) \in ObjRecs /\ NewObj(NextID(p)).handle = NextID(p)
    BY DEF NewObj, ObjRecs
  <1>5. /\ u \in [0..(t.next_idx - 1) -> ObjRecs] /\ DOMAIN u = DOMAIN o \cup {c}
        /\ u[c].handle = NextID(p) /\ \A i \in DOMAIN o : u[i] = o[i]
    BY <1>1, <1>2, <1>3, <1>4 DEF WithNew
  <1> HIDE DEF t, u
  <1>6. ASSUME NEW j \in 1..Len(q), q[j] # None
        PROVE  /\ q[j].storage_index = j /\ q[j].id \in DOMAIN u \ R
               /\ u[q[j].id].handle = q[j]
    <2>1. CASE j = k  BY <1>1, <1>3, <1>5, <2>1
    <2>2. CASE j # k
      <3>1. j \in 1..Len(p.sessions) /\ q[j] = p.sessions[j]  BY <2>2
      <3>2. /\ q[j].storage_index = j /\ q[j].id \in DOMAIN o \ R /\ o[q[j].id].handle = q[j]
        BY <1>6, <3>1 DEF Slots
      <3> QED  BY <1>5, <3>2
    <2> QED  BY <2>1, <2>2
  <1>7. ASSUME NEW i \in DOMAIN u
        PROVE  u[i].handle.id = i /\ u[i].handle.storage_index \in 1..Len(q)
    <2>1. CASE i = c  BY <1>5, <2>1
    <2>2. CASE i \in DOMAIN o  BY <1>5, <2>2 DEF Slots
    <2> QED  BY <1>5, <2>1, <2>2
  <1>8. ASSUME NEW i \in DOMAIN u \ R
        PROVE  q[u[i].handle.storage_index] = u[i].handle
    <2>1. CASE i = c  BY <1>5, <2>1
    <2>2. CASE i \in DOMAIN o
      <3> DEFINE j == o[i].handle.storage_index
      <3>1. j \in 1..Len(p.sessions) /\ p.sessions[j] = o[i].handle  BY <1>8, <2>2 DEF Slots
      <3>2. o[i].handle \in HandleRecs  BY <1>1, <2>2 DEF ObjRecs
      <3>3. j # k  BY <3>1, <3>2, NoneIsNone
      <3>4. q[j] = p.sessions[j]  BY <3>1, <3>3
      <3> QED  BY <1>5, <2>2, <3>1, <3>4
    <2> QED  BY <1>5, <1>8, <2>1, <2>2
  <1>9. ASSUME NEW n \in 1..Len(f)
        PROVE  f[n] \in 1..Len(q) /\ q[f[n]] = None
    <2>1. f[n] \in 1..Len(p.sessions) /\ p.sessions[f[n]] = None /\ f[n] # k
      <3>1. n \in 1..Len(p.free) /\ f[n] = p.free[n] /\ f[n] # k  OBVIOUS
      <3> QED  BY <3>1 DEF Slots
    <2>2. f[n] \in 1..Len(q)  BY <2>1
    <2> QED  BY <2>1, <2>2
  <1>10. ASSUME NEW j \in 1..Len(q), q[j] = None
         PROVE  \E n \in 1..Len(f) : f[n] = j
    <2>1. j # k  BY <1>10, NoneIsNone
    <2>2. j \in 1..Len(p.sessions) /\ p.sessions[j] = None  BY <1>10, <2>1
    <2>3. PICK n \in 1..Len(p.free) : p.free[n] = j  BY <2>2 DEF Slots
    <2>4. n \in 1..Len(f) /\ f[n] = j  BY <2>1, <2>3
    <2> QED  BY <2>4
  <1>11. \A m, n \in 1..Len(f) : f[m] = f[n] => m = n  BY DEF Slots
  <1>12. size(t) = Cardinality(DOMAIN u \ R)
    <2>1. DOMAIN u \ R = (DOMAIN o \ R) \cup {c} /\ c \notin DOMAIN o \ R  BY <1>1, <1>3, <1>5
    <2>2. IsFiniteSet(DOMAIN o \ R)  BY IdsFinite
    <2>3. Cardinality(DOMAIN u \ R) = Cardinality(DOMAIN o \ R) + 1
      BY <2>1, <2>2, FS_AddElement
    <2>4. size(p) = Cardinality(DOMAIN o \ R)  BY DEF Slots
    <2>5. size(t) = Len(q) - Len(f)  BY <1>2 DEF size
    <2> QED  BY <2>3, <2>4, <2>5
  <1>13. R \subseteq DOMAIN u  BY <1>1, <1>5
  <1>14. Slots(t, u, R)
    BY <1>2, <1>5, <1>6, <1>7, <1>8, <1>9, <1>10, <1>11, <1>12, <1>13 DEF Slots
  <1> QED  BY <1>14 DEF t, u

LEMMA EmplaceSlots ==
    ASSUME NEW p, NEW o, NEW R, Slots(p, o, R)
    PROVE  /\ Slots(emplace_session(p), WithNew(p, o), R)
           /\ NextID(p) \in HandleRecs /\ NextID(p).id = p.next_idx
  <1> DEFINE ss == p.sessions
             f == p.free
             k == NextSlot(p)
             h == NextID(p)
  <1>1. /\ ss \in Seq(HandleRecs \cup {None}) /\ f \in Seq(Nat) /\ p.next_idx \in Nat
        /\ Len(ss) \in Nat /\ Len(f) \in Nat
    BY PoolFields DEF Slots
  <1>2. h = [storage_index |-> k, id |-> p.next_idx]  BY DEF NextID
  <1>3. CASE f = <<>>
    <2> DEFINE q == Append(ss, h)
    <2>1. k = Len(ss) + 1  BY <1>3 DEF NextSlot
    <2>2. h \in HandleRecs /\ h.storage_index = k /\ h.id = p.next_idx
      BY <1>1, <1>2, <2>1 DEF HandleRecs
    <2>3. emplace_session(p) = [sessions |-> q, free |-> f, next_idx |-> p.next_idx + 1]
      BY <1>3 DEF emplace_session
    <2> HIDE DEF h, k
    <2>4. /\ q \in Seq(HandleRecs \cup {None}) /\ Len(q) = Len(ss) + 1 /\ q[k] = h
          /\ \A j \in 1..Len(ss) : q[j] = ss[j]
      BY <1>1, <2>1, <2>2
    <2> HIDE DEF q
    <2>5. /\ k \in 1..Len(q) /\ 1..Len(ss) \subseteq 1..Len(q) /\ k \notin 1..Len(ss)
          /\ \A j \in 1..Len(q) : j = k \/ j \in 1..Len(ss)
      BY <1>1, <2>1, <2>4
    <2>6. Len(f) = 0 /\ \A n \in 1..Len(f) : FALSE  BY <1>3
    <2>7. Len(q) - Len(f) = size(p) + 1  BY <1>1, <2>4, <2>6 DEF size
    <2>8. Slots([sessions |-> q, free |-> f, next_idx |-> p.next_idx + 1], WithNew(p, o), R)
      BY <1>1, <2>2, <2>4, <2>5, <2>6, <2>7, SlotTaken DEF h
    <2> QED  BY <2>2, <2>3, <2>8 DEF h
  <1>4. CASE f # <<>>
    <2> DEFINE q == [ss EXCEPT ![k] = h]
               g == Front(f)
    <2>1. Len(f) >= 1 /\ k = f[Len(f)] /\ Len(f) \in 1..Len(f)
      BY <1>1, <1>4 DEF NextSlot, Last
    <2>2. k \in 1..Len(ss) /\ ss[k] = None  BY <2>1 DEF Slots
    <2>3. h \in HandleRecs /\ h.storage_index = k /\ h.id = p.next_idx
      BY <1>1, <1>2, <2>2 DEF HandleRecs
    <2>4. emplace_session(p) = [sessions |-> q, free |-> g, next_idx |-> p.next_idx + 1]
      BY <1>4 DEF emplace_session
    <2> HIDE DEF h, k
    <2>5. /\ q \in Seq(HandleRecs \cup {None}) /\ Len(q) = Len(ss) /\ q[k] = h
          /\ \A j \in 1..Len(ss) : j # k => q[j] = ss[j]
      BY <1>1, <2>2, <2>3, ExceptSeq
    <2> HIDE DEF q
    <2>6. /\ g \in Seq(Nat) /\ Len(g) = Len(f) - 1 /\ \A n \in 1..Len(g) : g[n] = f[n]
      <3>1. g = SubSeq(f, 1, Len(f) - 1) /\ Len(f) - 1 \in 0..Len(f)  BY <1>1, <2>1 DEF Front
      <3> HIDE DEF g
      <3> QED  BY <1>1, <3>1
    <2> HIDE DEF g
    <2>7. ASSUME NEW n \in 1..Len(g) PROVE n \in 1..Len(f) /\ g[n] = f[n] /\ g[n] # k
      <3>1. n \in 1..Len(f) /\ n # Len(f)  BY <1>1, <2>6
      <3>2. f[n] # f[Len(f)]  BY <2>1, <3>1 DEF Slots
      <3> QED  BY <2>1, <2>6, <3>1, <3>2
    <2>8. \A n \in 1..Len(f) : f[n] = k \/ n \in 1..Len(g)  BY <1>1, <2>1, <2>6
    <2>9. Len(q) - Len(g) = size(p) + 1  BY <1>1, <2>5, <2>6 DEF size
    <2>10. k \in 1..Len(q) /\ 1..Len(ss) \subseteq 1..Len(q)  BY <2>2, <2>5
    <2>11. Slots([sessions |-> q, free |-> g, next_idx |-> p.next_idx + 1], WithNew(p, o), R)
      BY <1>1, <2>2, <2>3, <2>5, <2>6, <2>7, <2>8, <2>9, <2>10, SlotTaken DEF h
    <2> QED  BY <2>3, <2>4, <2>11 DEF h
  <1> QED  BY <1>3, <1>4

LEMMA RemoveSlots ==
    ASSUME NEW p, NEW o, NEW R, Slots(p, o, R), NEW i \in DOMAIN o
    PROVE  Slots(remove(p, o[i].handle), o, R \cup {i})
  <1> DEFINE h == o[i].handle
             k == h.storage_index
             ss == p.sessions
             t == remove(p, h)
  <1>1. /\ ss \in Seq(HandleRecs \cup {None}) /\ p.free \in Seq(Nat) /\ p.next_idx \in Nat
        /\ Len(ss) \in Nat /\ Len(p.free) \in Nat /\ p \in PoolRecs
        /\ o \in [0..(p.next_idx - 1) -> ObjRecs] /\ R \subseteq DOMAIN o
    BY PoolFields DEF Slots
  <1>2. k \in 1..Len(ss) /\ h.id = i  BY DEF Slots
  <1>3. CASE i \in R
    <2>1. ss[k] = None \/ ss[k].id # i  BY <1>2, <1>3 DEF Slots
    <2>2. t = p  BY <1>2, <2>1 DEF remove
    <2>3. R \cup {i} = R  BY <1>3
    <2> QED  BY <2>2, <2>3
  <1>4. CASE i \notin R
    <2> DEFINE q == [ss EXCEPT ![k] = None]
               f == Append(p.free, k)
    <2>1. ss[k] = h /\ h \in HandleRecs  BY <1>1, <1>4 DEF Slots, ObjRecs
    <2>2. h # None  BY <2>1, NoneIsNone
    <2>3. t = [p EXCEPT !.sessions = q, !.free = f]  BY <1>1, <2>1, <2>2 DEF remove, PoolRecs
    <2> HIDE DEF t
    <2>4. /\ q \in Seq(HandleRecs \cup {None}) /\ Len(q) = Len(ss) /\ q[k] = None
          /\ \A j \in 1..Len(ss) : j # k => q[j] = ss[j]
      BY <1>1, <1>2, ExceptSeq
    <2> HIDE DEF q
    <2>5. /\ f \in Seq(Nat) /\ Len(f) = Len(p.free) + 1 /\ f[Len(p.free) + 1] = k
          /\ \A n \in 1..Len(p.free) : f[n] = p.free[n]
      <3>1. k \in Nat  BY <1>2
      <3> HIDE DEF k
      <3> QED  BY <1>1, <3>1
    <2> HIDE DEF f
    <2>6. t \in PoolRecs /\ t.sessions = q /\ t.free = f /\ t.next_idx = p.next_idx
      BY <1>1, <2>3, <2>4, <2>5 DEF PoolRecs
    <2>7. \A n \in 1..Len(f) : n = Len(p.free) + 1 \/ n \in 1..Len(p.free)  BY <1>1, <2>5
    <2>8. \A n \in 1..Len(p.free) : p.free[n] \in 1..Len(ss) /\ ss[p.free[n]] = None /\ p.free[n] # k
      BY <2>1, <2>2 DEF Slots
    <2>9. ASSUME NEW j \in 1..Len(q), q[j] # None
          PROVE  /\ q[j].storage_index = j /\ q[j].id \in DOMAIN o \ (R \cup {i})
                 /\ o[q[j].id].handle = q[j]
      <3>1. j # k /\ j \in 1..Len(ss)  BY <2>4, <2>9
      <3>2. q[j] = ss[j]  BY <2>4, <3>1
      <3>3. /\ ss[j].storage_index = j /\ ss[j].id \in DOMAIN o \ R /\ o[ss[j].id].handle = ss[j]
        BY <2>9, <3>1, <3>2 DEF Slots
      <3>4. ss[j].id # i  BY <3>1, <3>3
      <3> QED  BY <3>2, <3>3, <3>4
    <2>10. \A j \in DOMAIN o : o[j].handle.id = j /\ o[j].handle.storage_index \in 1..Len(q)
      BY <2>4 DEF Slots
    <2>11. ASSUME NEW j \in DOMAIN o \ (R \cup {i})
           PROVE  q[o[j].handle.storage_index] = o[j].handle
      <3> DEFINE m == o[j].handle.storage_index
      <3>1. m \in 1..Len(ss) /\ ss[m] = o[j].handle /\ o[j].handle.id = j  BY DEF Slots
      <3>2. m # k  BY <1>2, <2>1, <3>1
      <3> QED  BY <2>4, <3>1, <3>2
    <2>12. ASSUME NEW n \in 1..Len(f)
           PROVE  f[n] \in 1..Len(q) /\ q[f[n]] = None
      <3>1. CASE n = Len(p.free) + 1  BY <1>2, <2>4, <2>5, <3>1
      <3>2. CASE n \in 1..Len(p.free)
        <4>1. f[n] = p.free[n] /\ f[n] \in 1..Len(ss) /\ ss[f[n]] = None /\ f[n] # k
          BY <2>5, <2>8, <3>2
        <4> QED  BY <2>4, <4>1
      <3> QED  BY <2>7, <3>1, <3>2
    <2>13. ASSUME NEW j \in 1..Len(q), q[j] = None
           PROVE  \E n \in 1..Len(f) : f[n] = j
      <3>1. CASE j = k
        <4>1. Len(p.free) + 1 \in 1..Len(f)  BY <1>1, <2>5
        <4> QED  BY <2>5, <3>1, <4>1
      <3>2. CASE j # k
        <4>1. j \in 1..Len(ss) /\ ss[j] = None  BY <2>4, <2>13, <3>2
        <4>2. PICK n \in 1..Len(p.free) : p.free[n] = j  BY <4>1 DEF Slots
        <4>3. n \in 1..Len(f)  BY <1>1, <2>5
        <4> QED  BY <2>5, <4>2, <4>3
      <3> QED  BY <3>1, <3>2
    <2>14. ASSUME NEW m \in 1..Len(f), NEW n \in 1..Len(f), f[m] = f[n] PROVE m = n
      <3>1. CASE m \in 1..Len(p.free) /\ n \in 1..Len(p.free)
        BY <2>5, <2>14, <3>1 DEF Slots
      <3>2. CASE m = Len(p.free) + 1 /\ n = Len(p.free) + 1  BY <3>2
      <3>3. CASE m = Len(p.free) + 1 /\ n \in 1..Len(p.free)  BY <2>5, <2>8, <2>14, <3>3
      <3>4. CASE n = Len(p.free) + 1 /\ m \in 1..Len(p.free)  BY <2>5, <2>8, <2>14, <3>4
      <3> QED  BY <2>7, <3>1, <3>2, <3>3, <3>4
    <2>15. size(t) = Cardinality(DOMAIN o \ (R \cup {i}))
      <3>1. DOMAIN o \ (R \cup {i}) = (DOMAIN o \ R) \ {i} /\ i \in DOMAIN o \ R  BY <1>4
      <3>2. IsFiniteSet(DOMAIN o \ R)  BY IdsFinite
      <3>3. Cardinality(DOMAIN o \ (R \cup {i})) = Cardinality(DOMAIN o \ R) - 1
        BY <3>1, <3>2, FS_RemoveElement
      <3>4. size(p) = Cardinality(DOMAIN o \ R)  BY DEF Slots
      <3>5. size(t) = Len(ss) - (Len(p.free) + 1)  BY <2>4, <2>5, <2>6 DEF size
      <3>6. size(p) = Len(ss) - Len(p.free)  BY DEF size
      <3> QED  BY <1>1, <3>3, <3>4, <3>5, <3>6
    <2>16. R \cup {i} \subseteq DOMAIN o /\ o \in [0..(t.next_idx - 1) -> ObjRecs]
      BY <1>1, <2>6
    <2> HIDE DEF ss, k, h
    <2>17. Slots(t, o, R \cup {i})
      BY <2>6, <2>9, <2>10, <2>11, <2>12, <2>13, <2>14, <2>15, <2>16 DEF Slots
    <2> QED  BY <2>17 DEF t, h
  <1> QED  BY <1>3, <1>4

-----------------------------------------------------------------------------
(* The inductive invariant *)

Tasks == [op : {"send", "stop", "stop_all", "reconnect"}, handle : HandleRecs \cup {None}]

Connects == [id : Nat, mode : {"NORMAL", "RECONNECT"}]

Entries == [id : Nat, entry : Nat]

Hists ==
    [removed : SUBSET Nat, asked : SUBSET Int, overtaken : BOOLEAN,
     refused : SUBSET Nat, gaveUp : SUBSET Nat]

\* Every session is the one that is being created or has a config.
Base(p, cf, cr, o, R) ==
    /\ Slots(p, o, R) /\ cf \subseteq HandleRecs /\ cr \in HandleRecs \cup {None}
    /\ \A h \in cf : h.id \in DOMAIN o /\ o[h.id].handle = h /\ h # cr
    /\ \A i \in DOMAIN o : o[i].handle = cr \/ o[i].handle \in cf
    /\ cr # None => cr.id \in DOMAIN o \ R /\ o[cr.id].handle = cr

\* Tasks, connects and connections are those of sessions that have a config.
Queued(cf, o, st, cn) ==
    /\ st \in Seq(Tasks) /\ cn \subseteq Connects
    /\ \A k \in 1..Len(st) : st[k].op # "stop_all" => st[k].handle \in cf
    /\ \A c \in cn : c.id \in DOMAIN o /\ o[c.id].handle \in cf
    /\ \A i \in DOMAIN o : o[i].conn => o[i].handle \in cf

Owned(o, asked) ==
    \A i \in DOMAIN o : o[i].mail \subseteq {i} /\ (o[i].stopped => i \in asked)

Held(o) == \A i \in DOMAIN o : o[i].conn /\ ~ o[i].stopped => o[i].held

\* The sessions with a config are registered, and what is in the ring is theirs.
Registered(cf, o, rg, sk, en, overtaken) ==
    /\ rg \in Seq(Entries)
    /\ DOMAIN sk = {"nodes", "lru", "count", "files", "fault"} /\ DOMAIN sk.nodes \subseteq Nat
    /\ ~ overtaken =>
         /\ sk.fault # "unregistered"
         /\ en # "down" => \A h \in cf : h.id \in DOMAIN sk.nodes
         /\ \A k \in 1..Len(rg) : rg[k].id \in DOMAIN o /\ o[rg[k].id].handle \in cf

Waits(t, i) == t.op = "reconnect" /\ t.handle.id = i

NoneWaits(st, i) == \A k \in 1..Len(st) : ~ Waits(st[k], i)

NoConnect(cn, i) == \A c \in cn : c.id # i

AtMostOne(o, cn, st, R, gaveUp) ==
    /\ \A c, d \in cn : c.id = d.id => c = d
    /\ \A k, l \in 1..Len(st) : Waits(st[k], st[k].handle.id) /\ Waits(st[l], st[k].handle.id) => k = l
    /\ \A c \in cn : NoneWaits(st, c.id)
    /\ \A i \in DOMAIN o : o[i].conn /\ ~ o[i].stopped => NoConnect(cn, i) /\ NoneWaits(st, i)
    /\ \A i \in DOMAIN o \ R : o[i].down /\ ~ o[i].stopped /\ i \notin gaveUp =>
         ~ (NoConnect(cn, i) /\ NoneWaits(st, i))

ManagerInv ==
    /\ hist \in Hists
    /\ Base(pool, configs, creating, objs, hist.removed)
    /\ Queued(configs, objs, strand, connects)
    /\ Owned(objs, hist.asked) /\ Held(objs)
    /\ Registered(configs, objs, ring, sink, engine, hist.overtaken)
    /\ AtMostOne(objs, connects, strand, hist.removed, hist.gaveUp)

-----------------------------------------------------------------------------
(* The sink *)

SinkDom(s) == DOMAIN s = {"nodes", "lru", "count", "files", "fault"}

\* t has the nodes of s and met none that is not registered.
Keeps(s, t) ==
    SinkDom(t) /\ DOMAIN t.nodes = DOMAIN s.nodes /\ t.fault # "unregistered"

LEMMA KeepsTouch ==
    ASSUME NEW s, NEW id, NEW n, SinkDom(s), s.fault # "unregistered"
    PROVE  Keeps(s, touch(s, id, n))
  <1>1. CASE ~ s.nodes[n].in_lru
    <2> DEFINE x == <<[cell |-> FreshCell(s), id |-> id]>> \o s.lru
               y == FreshCell(s)
    <2>1. touch(s, id, n) = [s EXCEPT !.lru = x, !.nodes[n].iterator = y, !.nodes[n].in_lru = TRUE]
      BY <1>1 DEF touch
    <2> HIDE DEF x, y
    <2> QED  BY <2>1 DEF Keeps, SinkDom
  <1>2. CASE s.nodes[n].in_lru /\ CellOf(s, n) = 0
    <2>1. touch(s, id, n) = [s EXCEPT !.fault = "dangling_iterator"]  BY <1>2 DEF touch, Fault
    <2> QED  BY <2>1 DEF Keeps, SinkDom
  <1>3. CASE s.nodes[n].in_lru /\ CellOf(s, n) # 0
    <2> DEFINE x == <<s.lru[CellOf(s, n)]>> \o RemoveAt(s.lru, CellOf(s, n))
    <2>1. touch(s, id, n) = [s EXCEPT !.lru = x]  BY <1>3 DEF touch
    <2> HIDE DEF x
    <2> QED  BY <2>1 DEF Keeps, SinkDom
  <1> QED  BY <1>1, <1>2, <1>3

LEMMA KeepsOutput ==
    ASSUME NEW s, NEW n, NEW e, SinkDom(s), s.fault # "unregistered"
    PROVE  Keeps(s, Output(s, n, e))
  BY DEF Output, Keeps, SinkDom

LEMMA KeepsBracketed ==
    ASSUME NEW s, NEW n, SinkDom(s), s.fault # "unregistered"
    PROVE  Keeps(s, Bracketed(s, n))
  <1> DEFINE t == IF s.nodes[n].first_write THEN s ELSE Output(s, n, [sep |-> "]", entry |-> 0])
  <1>1. Keeps(s, t)  BY KeepsOutput DEF Keeps
  <1>2. Bracketed(s, n) = [t EXCEPT !.nodes[n].open = FALSE]  BY DEF Bracketed
  <1> HIDE DEF t
  <1> QED  BY <1>1, <1>2 DEF Keeps, SinkDom

LEMMA KeepsEvict ==
    ASSUME NEW s, SinkDom(s), s.fault # "unregistered"
    PROVE  Keeps(s, evict_one(s))
  <1> DEFINE v == Last(s.lru).id
             t == IF s.nodes[v].first_write THEN s ELSE touch(s, DefaultID, v)
             b == Bracketed(t, v)
  <1>1. Keeps(s, t)  BY KeepsTouch DEF Keeps
  <1>2. \/ evict_one(s) = Fault(s, "empty_list") \/ evict_one(s) = Fault(s, "recursion")
        \/ evict_one(s) = t
        \/ evict_one(s) = [b EXCEPT !.nodes[v].in_lru = FALSE, !.lru = Front(@), !.count = @ - 1]
    BY DEF evict_one
  <1> HIDE DEF t
  <1>3. Keeps(t, b)  BY <1>1, KeepsBracketed DEF Keeps
  <1> HIDE DEF v, b
  <1>4. Keeps(s, b)  BY <1>1, <1>3 DEF Keeps
  <1>5. Keeps(s, Fault(s, "empty_list")) /\ Keeps(s, Fault(s, "recursion"))
    BY DEF Keeps, SinkDom, Fault
  <1>6. Keeps(s, [b EXCEPT !.nodes[v].in_lru = FALSE, !.lru = Front(@), !.count = @ - 1])
    BY <1>4 DEF Keeps, SinkDom
  <1> QED  BY <1>1, <1>2, <1>5, <1>6

LEMMA KeepsOpen ==
    ASSUME NEW s, NEW id, NEW n, NEW ok, SinkDom(s), s.fault # "unregistered"
    PROVE  Keeps(s, ensure_open(s, id, n, ok))
  <1> DEFINE t == IF s.count >= MAX_LRU_CACHE_SIZE THEN evict_one(s) ELSE s
             u == [t EXCEPT !.nodes[n].open = TRUE, !.count = @ + 1]
  <1>1. Keeps(s, t)  BY KeepsEvict DEF Keeps
  <1>2. ensure_open(s, id, n, ok) \in {touch(s, id, n), t, touch(u, id, n)}
    BY DEF ensure_open
  <1> HIDE DEF t
  <1>3. Keeps(s, u)  BY <1>1 DEF Keeps, SinkDom
  <1> HIDE DEF u
  <1>4. Keeps(s, touch(u, id, n))  BY <1>3, KeepsTouch DEF Keeps
  <1> QED  BY <1>1, <1>2, <1>4, KeepsTouch

\* An entry of a registered session is found to be one.
LEMMA KeepsWrite ==
    ASSUME NEW s, NEW n, NEW e, NEW ok, SinkDom(s), s.fault = "none"
    PROVE  /\ SinkDom(write(s, n, e, ok))
           /\ DOMAIN write(s, n, e, ok).nodes = DOMAIN s.nodes
           /\ n \in DOMAIN s.nodes => Keeps(s, write(s, n, e, ok))
  <1> DEFINE t == ensure_open(s, n, n, ok)
             sep == IF s.nodes[n].first_write THEN "[" ELSE ","
             x == Output(t, n, [sep |-> sep, entry |-> e])
  <1>1. n \notin DOMAIN s.nodes => write(s, n, e, ok) = Fault(s, "unregistered")  BY DEF write
  <1>2. n \in DOMAIN s.nodes =>
          write(s, n, e, ok) \in {t, [x EXCEPT !.nodes[n].first_write = FALSE]}
    BY DEF write
  <1>3. SinkDom(Fault(s, "unregistered")) /\ DOMAIN Fault(s, "unregistered").nodes = DOMAIN s.nodes
    BY DEF Fault, SinkDom
  <1>4. Keeps(s, t)  BY KeepsOpen
  <1> HIDE DEF t, sep
  <1>5. Keeps(s, x)  BY <1>4, KeepsOutput DEF Keeps
  <1> HIDE DEF x
  <1>6. Keeps(s, [x EXCEPT !.nodes[n].first_write = FALSE])  BY <1>5 DEF Keeps, SinkDom
  <1> QED  BY <1>1, <1>2, <1>3, <1>4, <1>6 DEF Keeps

LEMMA KeepsAdd ==
    ASSUME NEW s, NEW n, NEW e, NEW ok, SinkDom(s), s.fault = "none"
    PROVE  LET t == add_session(s, n, e, ok)
           IN  SinkDom(t) /\ DOMAIN t.nodes = DOMAIN s.nodes \cup {n} /\ t.fault # "unregistered"
  <1> DEFINE x == [m \in DOMAIN s.nodes \cup {n} |-> IF m = n THEN create_sink_node ELSE s.nodes[m]]
             y == [m \in DOMAIN s.files \cup {n} |-> IF m = n THEN <<>> ELSE s.files[m]]
             r == [s EXCEPT !.nodes = x, !.files = y]
  <1>1. add_session(s, n, e, ok) = write(r, n, e, ok)  BY DEF add_session
  <1>2. DOMAIN x = DOMAIN s.nodes \cup {n}  OBVIOUS
  <1> HIDE DEF x, y
  <1>3. SinkDom(r) /\ r.fault = "none" /\ r.nodes = x  BY DEF SinkDom
  <1> HIDE DEF r
  <1> QED  BY <1>1, <1>2, <1>3, KeepsWrite DEF Keeps

LEMMA KeepsClose ==
    ASSUME NEW s, NEW n, NEW ok, SinkDom(s), s.fault = "none"
    PROVE  Keeps(s, close_file(s, n, ok))
  <1> DEFINE t == IF s.nodes[n].first_write THEN s ELSE ensure_open(s, DefaultID, n, ok)
  <1>1. Keeps(s, t)  BY KeepsOpen DEF Keeps
  <1>2. close_file(s, n, ok) \in {t, Bracketed(t, n)}  BY DEF close_file
  <1> HIDE DEF t
  <1>3. Keeps(t, Bracketed(t, n))  BY <1>1, KeepsBracketed DEF Keeps
  <1> QED  BY <1>1, <1>2, <1>3 DEF Keeps

-----------------------------------------------------------------------------
(* The log *)

\* Log(os, S) as a relation of the ring r, the objects u and the ring t after it.
LogStep(os, S, r, u, t) ==
    /\ u = [i \in DOMAIN os |-> IF i \in S THEN [os[i] EXCEPT !.logged = @ + 1] ELSE os[i]]
    /\ \E entries \in SetToSeqs({[id |-> i, entry |-> os[i].logged + 1] : i \in S}) :
         t = r \o entries

\* u has os' sessions and differs in what was logged.
SameButLogged(os, u) ==
    /\ u \in [DOMAIN os -> ObjRecs]
    /\ \A i \in DOMAIN os :
         /\ u[i].handle = os[i].handle /\ u[i].conn = os[i].conn /\ u[i].stopped = os[i].stopped
         /\ u[i].down = os[i].down /\ u[i].held = os[i].held /\ u[i].mail = os[i].mail

LEMMA LogIs ==
    ASSUME NEW os, NEW S, NEW r, NEW u, NEW t, LogStep(os, S, r, u, t),
           os \in [DOMAIN os -> ObjRecs], DOMAIN os \subseteq Nat, IsFiniteSet(DOMAIN os),
           S \subseteq DOMAIN os, r \in Seq(Entries)
    PROVE  /\ SameButLogged(os, u) /\ t \in Seq(Entries)
           /\ \A i \in DOMAIN os \ S : u[i] = os[i]
           /\ \A k \in 1..Len(t) : (k \in 1..Len(r) /\ t[k] = r[k]) \/ t[k].id \in S
  <1> DEFINE D == DOMAIN os
             E == {[id |-> i, entry |-> os[i].logged + 1] : i \in S}
             n == Cardinality(E)
  <1>1. ASSUME NEW i \in D PROVE [os[i] EXCEPT !.logged = @ + 1] \in ObjRecs
    <2>1. os[i] \in ObjRecs  OBVIOUS
    <2>2. os[i].logged + 1 \in Nat  BY <2>1 DEF ObjRecs
    <2> QED  BY <2>1, <2>2 DEF ObjRecs
  <1>2. SameButLogged(os, u) /\ \A i \in D \ S : u[i] = os[i]
    BY <1>1 DEF LogStep, SameButLogged, ObjRecs
  <1>3. E \subseteq Entries /\ \A e \in E : e.id \in S
    <2>1. \A i \in S : os[i].logged \in Nat  BY DEF ObjRecs
    <2> QED  BY <2>1 DEF Entries
  <1>4. n \in Nat
    <2>1. IsFiniteSet(S)  BY FS_Subset
    <2> DEFINE f == [i \in S |-> [id |-> i, entry |-> os[i].logged + 1]]
    <2>2. f \in Surjection(S, E)  BY DEF Surjection
    <2> HIDE DEF f, E
    <2>3. IsFiniteSet(E)  BY <2>1, <2>2, FS_Surjection
    <2> QED  BY <2>3, FS_CardinalityType
  <1>5. PICK x \in SetToSeqs(E) : t = r \o x  BY DEF LogStep
  <1>6. x \in [1..n -> E]  BY <1>5 DEF SetToSeqs
  <1> HIDE DEF E, n
  <1>7. x \in Seq(E)  BY <1>4, <1>6
  <1>8. x \in Seq(Entries) /\ \A k \in 1..Len(x) : x[k].id \in S
    BY <1>3, <1>7
  <1>9. t \in Seq(Entries) /\ Len(t) = Len(r) + Len(x)  BY <1>5, <1>8
  <1>10. ASSUME NEW k \in 1..Len(t)
         PROVE  (k \in 1..Len(r) /\ t[k] = r[k]) \/ t[k].id \in S
    <2>1. CASE k <= Len(r)  BY <1>5, <1>8, <1>9, <2>1
    <2>2. CASE k > Len(r)
      <3>1. t[k] = x[k - Len(r)] /\ k - Len(r) \in 1..Len(x)  BY <1>5, <1>8, <1>9, <2>2
      <3> QED  BY <1>8, <3>1
    <2> QED  BY <2>1, <2>2
  <1> QED  BY <1>2, <1>9, <1>10

-----------------------------------------------------------------------------
(* What the conjuncts of the invariant depend on *)

LEMMA BaseTypes ==
    ASSUME NEW p, NEW cf, NEW cr, NEW o, NEW R, Base(p, cf, cr, o, R)
    PROVE  /\ o \in [DOMAIN o -> ObjRecs] /\ DOMAIN o \subseteq Nat /\ IsFiniteSet(DOMAIN o)
           /\ R \subseteq DOMAIN o /\ DOMAIN o = 0..(p.next_idx - 1) /\ p.next_idx \in Nat
           /\ \A i \in DOMAIN o : o[i].handle.id = i
  <1>1. Slots(p, o, R)  BY DEF Base
  <1>2. /\ p \in PoolRecs /\ o \in [0..(p.next_idx - 1) -> ObjRecs] /\ R \subseteq DOMAIN o
        /\ \A i \in DOMAIN o : o[i].handle.id = i
    BY <1>1 DEF Slots
  <1>3. IsFiniteSet(DOMAIN o)  BY <1>1, IdsFinite
  <1> QED  BY <1>2, <1>3, PoolFields

\* Two sessions that have a config have different ids.
LEMMA ConfigOf ==
    ASSUME NEW p, NEW cf, NEW cr, NEW o, NEW R, Base(p, cf, cr, o, R), NEW h \in cf
    PROVE  /\ h.id \in DOMAIN o /\ o[h.id].handle = h /\ h \in HandleRecs /\ h # None
           /\ h.id # cr.id
  <1>1. h.id \in DOMAIN o /\ o[h.id].handle = h /\ h # cr /\ h \in HandleRecs  BY DEF Base
  <1>2. h # None  BY <1>1, NoneIsNone
  <1>3. h.id # cr.id
    <2>1. CASE cr = None  BY <1>1, <2>1, NoneIsNone DEF HandleRecs
    <2>2. CASE cr # None  BY <1>1, <2>2 DEF Base
    <2> QED  BY <2>1, <2>2
  <1> QED  BY <1>1, <1>2, <1>3

LEMMA KeepBase ==
    ASSUME NEW p, NEW cf, NEW cr, NEW o, NEW R, Base(p, cf, cr, o, R),
           NEW u \in [DOMAIN o -> ObjRecs], \A i \in DOMAIN o : u[i].handle = o[i].handle
    PROVE  Base(p, cf, cr, u, R)
  <1>1. Slots(p, u, R)  BY SlotsHandles DEF Base
  <1>2. DOMAIN u = DOMAIN o  OBVIOUS
  <1>3. \A h \in cf : h.id \in DOMAIN o /\ u[h.id].handle = h /\ h # cr  BY DEF Base
  <1>4. cr # None => cr.id \in DOMAIN o \ R /\ u[cr.id].handle = cr  BY DEF Base
  <1> QED  BY <1>1, <1>2, <1>3, <1>4 DEF Base

LEMMA KeepLogged ==
    ASSUME NEW o, NEW u, SameButLogged(o, u)
    PROVE  /\ \A p, cf, cr, R : Base(p, cf, cr, o, R) => Base(p, cf, cr, u, R)
           /\ \A cf, st, cn : Queued(cf, o, st, cn) => Queued(cf, u, st, cn)
           /\ \A a : Owned(o, a) => Owned(u, a)
           /\ Held(o) => Held(u)
           /\ \A cn, st, R, g : AtMostOne(o, cn, st, R, g) => AtMostOne(u, cn, st, R, g)
  <1>1. DOMAIN u = DOMAIN o /\ u \in [DOMAIN o -> ObjRecs]  BY DEF SameButLogged
  <1>2. ASSUME NEW p, NEW cf, NEW cr, NEW R, Base(p, cf, cr, o, R)
        PROVE  Base(p, cf, cr, u, R)
    BY <1>1, <1>2, KeepBase DEF SameButLogged
  <1>3. ASSUME NEW cf, NEW st, NEW cn, Queued(cf, o, st, cn) PROVE Queued(cf, u, st, cn)
    BY <1>1, <1>3 DEF Queued, SameButLogged
  <1>4. ASSUME NEW a, Owned(o, a) PROVE Owned(u, a)
    BY <1>1, <1>4 DEF Owned, SameButLogged
  <1>5. Held(o) => Held(u)  BY <1>1 DEF Held, SameButLogged
  <1>6. ASSUME NEW cn, NEW st, NEW R, NEW g, AtMostOne(o, cn, st, R, g)
        PROVE  AtMostOne(u, cn, st, R, g)
    BY <1>1, <1>6 DEF AtMostOne, SameButLogged
  <1> QED  BY <1>2, <1>3, <1>4, <1>5, <1>6

LEMMA PopTask ==
    ASSUME NEW cf, NEW o, NEW st, NEW cn, Queued(cf, o, st, cn), st # <<>>
    PROVE  /\ Head(st) = st[1] /\ Head(st) \in Tasks /\ 1 \in 1..Len(st)
           /\ Head(st).op # "stop_all" => Head(st).handle \in cf
           /\ Queued(cf, o, Tail(st), cn)
           /\ \A k \in 1..Len(Tail(st)) : k + 1 \in 1..Len(st) /\ Tail(st)[k] = st[k + 1]
           /\ \A k \in 1..Len(st) : k = 1 \/ (k - 1 \in 1..Len(Tail(st)) /\ Tail(st)[k - 1] = st[k])
  <1>1. st \in Seq(Tasks)  BY DEF Queued
  <1>2. /\ Head(st) = st[1] /\ Head(st) \in Tasks /\ 1 \in 1..Len(st)
        /\ Tail(st) \in Seq(Tasks) /\ Len(Tail(st)) = Len(st) - 1 /\ Len(st) \in Nat
        /\ \A k \in 1..Len(Tail(st)) : Tail(st)[k] = st[k + 1]
    BY <1>1, HeadTailProperties
  <1> DEFINE t == Tail(st)
  <1> HIDE DEF t
  <1>3. \A k \in 1..Len(t) : k + 1 \in 1..Len(st) /\ t[k] = st[k + 1]  BY <1>2 DEF t
  <1>4. \A k \in 1..Len(st) : k = 1 \/ (k - 1 \in 1..Len(t) /\ t[k - 1] = st[k])  BY <1>2 DEF t
  <1>5. Queued(cf, o, t, cn)  BY <1>2, <1>3 DEF Queued, t
  <1>6. Head(st).op # "stop_all" => Head(st).handle \in cf  BY <1>2 DEF Queued
  <1> QED  BY <1>2, <1>3, <1>4, <1>5, <1>6 DEF t

\* A task that is no reconnect leaves the queue.
LEMMA PopOther ==
    ASSUME NEW cf, NEW o, NEW st, NEW cn, NEW R, NEW g, Queued(cf, o, st, cn), st # <<>>,
           Head(st).op # "reconnect", AtMostOne(o, cn, st, R, g)
    PROVE  AtMostOne(o, cn, Tail(st), R, g)
  <1> DEFINE t == Tail(st)
  <1>1. /\ Head(st) = st[1]
        /\ \A k \in 1..Len(t) : k + 1 \in 1..Len(st) /\ t[k] = st[k + 1]
        /\ \A k \in 1..Len(st) : k = 1 \/ (k - 1 \in 1..Len(t) /\ t[k - 1] = st[k])
    BY PopTask
  <1> HIDE DEF t
  <1>2. \A i : NoneWaits(t, i) <=> NoneWaits(st, i)
    BY <1>1 DEF NoneWaits, Waits
  <1>3. ASSUME NEW k \in 1..Len(t), NEW l \in 1..Len(t),
               Waits(t[k], t[k].handle.id) /\ Waits(t[l], t[k].handle.id)
        PROVE  k = l
    <2>1. k + 1 = l + 1  BY <1>1, <1>3 DEF AtMostOne
    <2> QED  BY <2>1
  <1>4. AtMostOne(o, cn, t, R, g)  BY <1>2, <1>3 DEF AtMostOne
  <1> QED  BY <1>4 DEF t

LEMMA PushTask ==
    ASSUME NEW cf, NEW o, NEW st, NEW cn, NEW t \in Tasks, Queued(cf, o, st, cn),
           t.op # "stop_all" => t.handle \in cf
    PROVE  /\ Queued(cf, o, Append(st, t), cn)
           /\ Len(st) \in Nat /\ Len(Append(st, t)) = Len(st) + 1 /\ Append(st, t)[Len(st) + 1] = t
           /\ \A k \in 1..Len(st) : Append(st, t)[k] = st[k]
  <1> DEFINE q == Append(st, t)
  <1>1. st \in Seq(Tasks)  BY DEF Queued
  <1>2. /\ q \in Seq(Tasks) /\ Len(st) \in Nat /\ Len(q) = Len(st) + 1 /\ q[Len(st) + 1] = t
        /\ \A k \in 1..Len(st) : q[k] = st[k]
    BY <1>1
  <1> HIDE DEF q
  <1>3. \A k \in 1..Len(q) : k \in 1..Len(st) \/ k = Len(st) + 1  BY <1>2
  <1>4. Queued(cf, o, q, cn)  BY <1>2, <1>3 DEF Queued
  <1> QED  BY <1>2, <1>4 DEF q

LEMMA PushOther ==
    ASSUME NEW cf, NEW o, NEW st, NEW cn, NEW R, NEW g, NEW t \in Tasks, Queued(cf, o, st, cn),
           t.op # "stop_all" => t.handle \in cf, t.op # "reconnect",
           AtMostOne(o, cn, st, R, g)
    PROVE  AtMostOne(o, cn, Append(st, t), R, g)
  <1> DEFINE q == Append(st, t)
  <1>1. /\ Len(st) \in Nat /\ Len(q) = Len(st) + 1 /\ q[Len(st) + 1] = t
        /\ \A k \in 1..Len(st) : q[k] = st[k]
    BY PushTask
  <1> HIDE DEF q
  <1>2. \A k \in 1..Len(q) : k \in 1..Len(st) \/ (k = Len(st) + 1 /\ q[k] = t)  BY <1>1
  <1>3. \A k \in 1..Len(st) : k \in 1..Len(q)  BY <1>1
  <1>4. \A i : NoneWaits(q, i) <=> NoneWaits(st, i)
    BY <1>1, <1>2, <1>3 DEF NoneWaits, Waits
  <1>5. ASSUME NEW k \in 1..Len(q), NEW l \in 1..Len(q),
               Waits(q[k], q[k].handle.id) /\ Waits(q[l], q[k].handle.id)
        PROVE  k = l
    <2>1. k \in 1..Len(st) /\ l \in 1..Len(st)  BY <1>2, <1>5 DEF Waits
    <2> QED  BY <1>1, <1>5, <2>1 DEF AtMostOne
  <1>6. AtMostOne(o, cn, q, R, g)  BY <1>4, <1>5 DEF AtMostOne
  <1> QED  BY <1>6 DEF q

-----------------------------------------------------------------------------
(* The steps of the caller's thread *)

LEMMA CreateBeginInv ==
    ASSUME ManagerInv, CreateBegin PROVE ManagerInv'
  <1> DEFINE h == NextID(pool)
             u == WithNew(pool, objs)
             c == pool.next_idx
             R == hist.removed
  <1>1. /\ creating = None /\ pool' = emplace_session(pool) /\ creating' = h /\ objs' = u
        /\ UNCHANGED <<configs, connects, strand, ring, sink, engine, hist>>
    BY DEF CreateBegin, WithNew, Ids
  <1>2. Base(pool, configs, creating, objs, R)  BY DEF ManagerInv
  <1>3. /\ Slots(emplace_session(pool), u, R) /\ h \in HandleRecs /\ h.id = c
    BY <1>2, EmplaceSlots DEF Base
  <1>4. /\ DOMAIN objs = 0..(c - 1) /\ c \in Nat /\ R \subseteq DOMAIN objs
        /\ \A i \in DOMAIN objs : objs[i].handle.id = i
    BY <1>2, BaseTypes
  <1>5. /\ DOMAIN u = DOMAIN objs \cup {c} /\ c \notin DOMAIN objs /\ u[c] = NewObj(h)
        /\ \A i \in DOMAIN objs : u[i] = objs[i]
    BY <1>4 DEF WithNew
  <1>6. /\ u[c].handle = h /\ ~ u[c].conn /\ ~ u[c].stopped /\ ~ u[c].down /\ u[c].mail = {}
    BY <1>5 DEF NewObj
  <1> HIDE DEF u, h, c
  <1>7. Base(emplace_session(pool), configs, h, u, R)
    <2>1. ASSUME NEW g \in configs PROVE g.id \in DOMAIN u /\ u[g.id].handle = g /\ g # h
      BY <1>2, <1>3, <1>5 DEF Base
    <2>2. ASSUME NEW i \in DOMAIN u PROVE u[i].handle = h \/ u[i].handle \in configs
      <3>1. CASE i = c  BY <1>6, <3>1
      <3>2. CASE i \in DOMAIN objs
        <4>1. objs[i].handle = creating \/ objs[i].handle \in configs  BY <1>2, <3>2 DEF Base
        <4>2. objs[i].handle.id = i /\ i # -1  BY <1>4, <3>2
        <4>3. objs[i].handle # None  BY <4>2, NoneIsNone
        <4> QED  BY <1>1, <1>5, <3>2, <4>1, <4>3
      <3> QED  BY <1>5, <3>1, <3>2
    <2>3. h.id \in DOMAIN u \ R /\ u[h.id].handle = h  BY <1>3, <1>4, <1>5, <1>6
    <2>4. configs \subseteq HandleRecs  BY <1>2 DEF Base
    <2> QED  BY <1>3, <2>1, <2>2, <2>3, <2>4 DEF Base
  <1>8. Queued(configs, u, strand, connects)
    BY <1>5, <1>6 DEF ManagerInv, Queued
  <1>9. Owned(u, hist.asked) /\ Held(u)
    BY <1>5, <1>6 DEF ManagerInv, Owned, Held
  <1>10. Registered(configs, u, ring, sink, engine, hist.overtaken)
    BY <1>5, <1>6 DEF ManagerInv, Registered
  <1>11. AtMostOne(u, connects, strand, R, hist.gaveUp)
    BY <1>5, <1>6 DEF ManagerInv, AtMostOne
  <1> QED  BY <1>1, <1>7, <1>8, <1>9, <1>10, <1>11 DEF ManagerInv

LEMMA RefusalHist ==
    ASSUME NEW ok \in BOOLEAN, NEW n \in Nat, hist \in Hists, Refusal(ok, n)
    PROVE  /\ hist' \in Hists /\ hist'.removed = hist.removed /\ hist'.asked = hist.asked
           /\ hist'.overtaken = hist.overtaken /\ hist'.gaveUp = hist.gaveUp
  BY DEF Refusal, Hists

LEMMA CreateEndInv ==
    ASSUME ManagerInv, NEW ok \in BOOLEAN, CreateEnd(ok) PROVE ManagerInv'
  <1> DEFINE i == creating.id
             u == [objs EXCEPT ![i].logged = @ + 1]
             t == add_session(sink, i, objs[i].logged + 1, ok)
             cf == configs \cup {creating}
             cn == connects \cup {[id |-> i, mode |-> "NORMAL"]}
             R == hist.removed
  <1>1. /\ creating # None /\ sink' = t /\ objs' = u /\ configs' = cf /\ connects' = cn
        /\ creating' = None /\ UNCHANGED <<pool, strand, ring, engine>> /\ sink.fault = "none"
    BY DEF CreateEnd, Running
  <1>2. /\ hist' \in Hists /\ hist'.removed = R /\ hist'.asked = hist.asked
        /\ hist'.overtaken = hist.overtaken /\ hist'.gaveUp = hist.gaveUp
    <2>1. Refusal(ok, i) /\ creating \in HandleRecs /\ hist \in Hists
      BY <1>1 DEF CreateEnd, ManagerInv, Base
    <2> QED  BY <2>1, RefusalHist DEF HandleRecs
  <1>3. Base(pool, configs, creating, objs, R)  BY DEF ManagerInv
  <1>4. i \in DOMAIN objs \ R /\ objs[i].handle = creating /\ creating \in HandleRecs
    BY <1>1, <1>3 DEF Base
  <1>5. objs \in [DOMAIN objs -> ObjRecs]  BY <1>3, BaseTypes
  <1>6. SameButLogged(objs, u)
    <2>1. objs[i] \in ObjRecs /\ objs[i].logged + 1 \in Nat  BY <1>4, <1>5 DEF ObjRecs
    <2>2. [objs[i] EXCEPT !.logged = @ + 1] \in ObjRecs  BY <2>1 DEF ObjRecs
    <2> QED  BY <1>4, <1>5, <2>1, <2>2 DEF SameButLogged, ObjRecs
  <1>7. /\ Base(pool, configs, creating, u, R) /\ Queued(configs, u, strand, connects)
        /\ Owned(u, hist.asked) /\ Held(u)
        /\ AtMostOne(u, connects, strand, R, hist.gaveUp)
    BY <1>6, KeepLogged DEF ManagerInv
  <1>8. DOMAIN u = DOMAIN objs /\ u[i].handle = creating  BY <1>4, <1>6 DEF SameButLogged
  <1>9. SinkDom(t) /\ DOMAIN t.nodes = DOMAIN sink.nodes \cup {i} /\ t.fault # "unregistered"
    BY <1>1, KeepsAdd DEF ManagerInv, Registered, SinkDom
  <1> HIDE DEF u, t
  <1>10. Base(pool, cf, None, u, R)
    <2>1. \A h \in cf : h.id \in DOMAIN u /\ u[h.id].handle = h /\ h # None
      BY <1>1, <1>4, <1>7, <1>8, ConfigOf
    <2>2. \A j \in DOMAIN u : u[j].handle = None \/ u[j].handle \in cf  BY <1>7 DEF Base
    <2>3. Slots(pool, u, R) /\ cf \subseteq HandleRecs  BY <1>4, <1>7 DEF Base
    <2> HIDE DEF cf
    <2> QED  BY <2>1, <2>2, <2>3 DEF Base
  <1>11. Queued(cf, u, strand, cn)
    <2>1. [id |-> i, mode |-> "NORMAL"] \in Connects  BY <1>4 DEF Connects, HandleRecs
    <2>2. \A c \in cn : c.id \in DOMAIN u /\ u[c.id].handle \in cf
      BY <1>4, <1>7, <1>8 DEF Queued
    <2> QED  BY <1>7, <2>1, <2>2 DEF Queued
  <1>12. Registered(cf, u, ring, t, engine, hist.overtaken)
    <2>1. Registered(configs, objs, ring, sink, engine, hist.overtaken)  BY DEF ManagerInv
    <2>2. \A j \in DOMAIN objs : u[j].handle = objs[j].handle  BY <1>6 DEF SameButLogged
    <2>3. i \in Nat  BY <1>4 DEF HandleRecs
    <2> HIDE DEF i
    <2>4. DOMAIN t.nodes \subseteq Nat  BY <1>9, <2>1, <2>3 DEF Registered
    <2>5. \A h \in cf : h \in configs \/ h.id = i  BY DEF i
    <2> QED  BY <1>8, <1>9, <2>1, <2>2, <2>4, <2>5 DEF Registered, SinkDom
  <1>13. AtMostOne(u, cn, strand, R, hist.gaveUp)
    <2>1. NoConnect(connects, i)
      <3>1. ASSUME NEW c \in connects PROVE c.id # i
        <4>1. c.id \in DOMAIN u /\ u[c.id].handle \in configs  BY <1>7 DEF Queued
        <4> QED  BY <1>7, <1>8, <4>1, ConfigOf
      <3> QED  BY <3>1 DEF NoConnect
    <2>2. NoneWaits(strand, i)
      <3>1. ASSUME NEW k \in 1..Len(strand), Waits(strand[k], i) PROVE FALSE
        <4>1. strand[k].handle \in configs /\ strand[k].handle.id = i
          BY <1>7, <3>1 DEF Queued, Waits
        <4> QED  BY <1>7, <4>1, ConfigOf
      <3> QED  BY <3>1 DEF NoneWaits
    <2>3. ~ u[i].conn
      <3>1. u[i].handle \notin configs  BY <1>7, <1>8, ConfigOf
      <3> QED  BY <1>4, <1>7, <1>8, <3>1 DEF Queued
    <2>4. \A j : j # i => (NoConnect(cn, j) <=> NoConnect(connects, j))  BY DEF NoConnect
    <2>5. ~ NoConnect(cn, i)
      <3> DEFINE c == [id |-> i, mode |-> "NORMAL"]
      <3>1. c \in cn /\ c.id = i  OBVIOUS
      <3> HIDE DEF c
      <3> QED  BY <3>1 DEF NoConnect
    <2>6. \A c, d \in cn : c.id = d.id => c = d  BY <1>7, <2>1 DEF AtMostOne, NoConnect
    <2>7. \A c \in cn : NoneWaits(strand, c.id)  BY <1>7, <2>2 DEF AtMostOne
    <2> HIDE DEF cn, i, R
    <2> QED  BY <1>7, <2>3, <2>4, <2>5, <2>6, <2>7 DEF AtMostOne
  <1> QED  BY <1>1, <1>2, <1>7, <1>10, <1>11, <1>12, <1>13 DEF ManagerInv

LEMMA RemoveInv ==
    ASSUME ManagerInv, NEW h \in Handles, remove_session(h) PROVE ManagerInv'
  <1> DEFINE R == hist.removed \cup {h.id}
  <1>1. /\ creating = None /\ pool' = remove(pool, h)
        /\ hist' = [hist EXCEPT !.removed = R]
        /\ UNCHANGED <<configs, creating, objs, connects, strand, ring, sink, engine>>
    BY DEF remove_session
  <1>2. Base(pool, configs, creating, objs, hist.removed) /\ hist \in Hists  BY DEF ManagerInv
  <1>3. h.id \in DOMAIN objs /\ objs[h.id].handle = h  BY <1>2, ConfigOf DEF Handles
  <1>4. /\ hist' \in Hists /\ hist'.removed = R /\ hist'.asked = hist.asked
        /\ hist'.overtaken = hist.overtaken /\ hist'.gaveUp = hist.gaveUp
    <2>1. R \in SUBSET Nat  BY <1>2, <1>3, BaseTypes DEF Hists
    <2> QED  BY <1>1, <1>2, <2>1 DEF Hists
  <1>5. Slots(remove(pool, h), objs, R)  BY <1>2, <1>3, RemoveSlots DEF Base
  <1>6. Base(remove(pool, h), configs, creating, objs, R)  BY <1>1, <1>2, <1>5 DEF Base
  <1>7. AtMostOne(objs, connects, strand, R, hist.gaveUp)  BY DEF ManagerInv, AtMostOne
  <1> HIDE DEF R
  <1> QED  BY <1>1, <1>4, <1>6, <1>7 DEF ManagerInv

LEMMA PostInv ==
    ASSUME ManagerInv, NEW t \in Tasks, t.op # "stop_all" => t.handle \in configs,
           t.op # "reconnect", Post(t)
    PROVE  ManagerInv'
  <1>1. /\ strand' = Append(strand, t)
        /\ UNCHANGED <<pool, configs, creating, objs, connects, ring, sink, engine, hist>>
    BY DEF Post
  <1>2. Queued(configs, objs, Append(strand, t), connects)
    BY PushTask DEF ManagerInv
  <1>3. AtMostOne(objs, connects, Append(strand, t), hist.removed, hist.gaveUp)
    BY PushOther DEF ManagerInv
  <1> QED  BY <1>1, <1>2, <1>3 DEF ManagerInv

LEMMA PostsInv ==
    ASSUME ManagerInv, stop_all \/ \E h \in Handles : send(h) \/ stop_session(h)
    PROVE  ManagerInv'
  <1>1. \A h \in configs : h \in HandleRecs  BY DEF ManagerInv, Base
  <1>2. CASE stop_all
    <2> DEFINE t == [op |-> "stop_all", handle |-> None]
    <2>1. t \in Tasks /\ t.op = "stop_all" /\ Post(t)  BY <1>2 DEF stop_all, Tasks
    <2> HIDE DEF t
    <2> QED  BY <2>1, PostInv
  <1>3. ASSUME NEW h \in configs, NEW op \in {"send", "stop"}, Post([op |-> op, handle |-> h])
        PROVE  ManagerInv'
    <2> DEFINE t == [op |-> op, handle |-> h]
    <2>1. t \in Tasks /\ t.op = op /\ t.handle = h /\ Post(t)  BY <1>1, <1>3 DEF Tasks
    <2> HIDE DEF t
    <2> QED  BY <2>1, PostInv
  <1> QED  BY <1>2, <1>3 DEF Handles, send, stop_session

-----------------------------------------------------------------------------
(* The steps of the manager's strand *)

\* What the handle of the task at the head finds.
LEMMA HeadFinds ==
    ASSUME ManagerInv, strand # <<>>, Head(strand).op # "stop_all"
    PROVE  LET h == Head(strand).handle
           IN  /\ h \in configs /\ h.id \in Ids /\ objs[h.id].handle = h /\ h # None
               /\ h.id \in hist.removed => get(pool, h) = None
               /\ h.id \notin hist.removed => get(pool, h) = h
  <1> DEFINE h == Head(strand).handle
  <1>1. h \in configs  BY PopTask DEF ManagerInv
  <1>2. Base(pool, configs, creating, objs, hist.removed)  BY DEF ManagerInv
  <1>3. h.id \in DOMAIN objs /\ objs[h.id].handle = h /\ h # None  BY <1>1, <1>2, ConfigOf
  <1>4. /\ h.id \in hist.removed => get(pool, objs[h.id].handle) = None
        /\ h.id \notin hist.removed => get(pool, objs[h.id].handle) = objs[h.id].handle
    BY <1>2, <1>3, GetIs DEF Base
  <1> QED  BY <1>1, <1>3, <1>4 DEF Ids

LEMMA RunSendInv ==
    ASSUME ManagerInv, RunSend PROVE ManagerInv'
  <1> DEFINE h == Head(strand).handle
             s == get(pool, h)
             i == h.id
             m == objs[i].mail \cup {i}
             x == [objs[i] EXCEPT !.mail = m]
             u == [objs EXCEPT ![i] = x]
  <1>1. /\ strand # <<>> /\ Head(strand).op = "send" /\ strand' = Tail(strand)
        /\ objs' = IF s = None \/ objs[s.id].stopped THEN objs
                   ELSE [objs EXCEPT ![s.id].mail = @ \cup {h.id}]
        /\ UNCHANGED <<pool, configs, creating, connects, ring, sink, engine, hist>>
    BY DEF RunSend, RunTask
  <1>2. Queued(configs, objs, Tail(strand), connects)  BY <1>1, PopTask DEF ManagerInv
  <1>3. AtMostOne(objs, connects, Tail(strand), hist.removed, hist.gaveUp)
    BY <1>1, PopOther DEF ManagerInv
  <1>4. h \in configs /\ i \in DOMAIN objs /\ (s = None \/ s = h)
    BY <1>1, HeadFinds DEF Ids
  <1>5. objs' = objs \/ objs' = u  BY <1>1, <1>4
  <1>6. CASE objs' = objs  BY <1>1, <1>2, <1>3, <1>6 DEF ManagerInv
  <1>7. CASE objs' = u
    <2>1. /\ Base(pool, configs, creating, objs, hist.removed) /\ Owned(objs, hist.asked)
          /\ Held(objs) /\ Registered(configs, objs, ring, sink, engine, hist.overtaken)
      BY DEF ManagerInv
    <2>2. objs \in [DOMAIN objs -> ObjRecs] /\ DOMAIN objs \subseteq Nat  BY <2>1, BaseTypes
    <2>3. objs[i] \in ObjRecs /\ m \in SUBSET Nat /\ m \subseteq {i}
      BY <1>4, <2>1, <2>2 DEF ObjRecs, Owned
    <2> HIDE DEF m, i, h
    <2>4. /\ x \in ObjRecs /\ x.handle = objs[i].handle /\ x.conn = objs[i].conn
          /\ x.stopped = objs[i].stopped /\ x.down = objs[i].down /\ x.held = objs[i].held
          /\ x.mail = m
      BY <2>3 DEF ObjRecs
    <2> HIDE DEF x
    <2>5. /\ u \in [DOMAIN objs -> ObjRecs] /\ DOMAIN u = DOMAIN objs
          /\ \A j \in DOMAIN objs :
               /\ u[j].handle = objs[j].handle /\ u[j].conn = objs[j].conn
               /\ u[j].stopped = objs[j].stopped /\ u[j].down = objs[j].down
               /\ u[j].held = objs[j].held /\ u[j].mail \in {m, objs[j].mail}
               /\ (j # i => u[j].mail = objs[j].mail)
      BY <1>4, <2>2, <2>4
    <2> HIDE DEF u
    <2>6. Base(pool, configs, creating, u, hist.removed)  BY <2>1, <2>5, KeepBase
    <2>7. Owned(u, hist.asked)  BY <2>1, <2>3, <2>5 DEF Owned
    <2>8. Held(u)  BY <2>1, <2>5 DEF Held
    <2>9. Queued(configs, u, Tail(strand), connects)  BY <1>2, <2>5 DEF Queued
    <2>10. Registered(configs, u, ring, sink, engine, hist.overtaken)
      BY <2>1, <2>5 DEF Registered
    <2>11. AtMostOne(u, connects, Tail(strand), hist.removed, hist.gaveUp)
      BY <1>3, <2>5 DEF AtMostOne
    <2> QED
      BY <1>1, <1>7, <2>6, <2>7, <2>8, <2>9, <2>10, <2>11 DEF ManagerInv
  <1> QED  BY <1>5, <1>6, <1>7

\* Session::stop of some sessions, posted as the task at the head.
LEMMA StopInv ==
    ASSUME ManagerInv, NEW S \in SUBSET Ids, StopThese(S),
           strand # <<>>, Head(strand).op # "reconnect", strand' = Tail(strand),
           UNCHANGED <<pool, configs, creating, connects, sink, engine>>,
           hist' \in Hists, hist'.removed = hist.removed, hist'.gaveUp = hist.gaveUp,
           hist.asked \cup S \subseteq hist'.asked, hist.overtaken => hist'.overtaken,
           ~ hist'.overtaken => \A i \in S : objs[i].handle \in configs
    PROVE  ManagerInv'
  <1> DEFINE D == DOMAIN objs
             os == [i \in D |-> IF i \in S THEN Stopped(objs[i]) ELSE objs[i]]
             T == {i \in S : ~ objs[i].stopped}
             st == Tail(strand)
             R == hist.removed
  <1>1. Queued(configs, objs, st, connects)  BY PopTask DEF ManagerInv
  <1>2. AtMostOne(objs, connects, st, R, hist.gaveUp)  BY PopOther DEF ManagerInv
  <1>3. /\ Base(pool, configs, creating, objs, R) /\ Owned(objs, hist.asked)
        /\ Held(objs) /\ Registered(configs, objs, ring, sink, engine, hist.overtaken)
    BY DEF ManagerInv
  <1>4. /\ objs \in [D -> ObjRecs] /\ D \in SUBSET Nat /\ IsFiniteSet(D) /\ S \subseteq D
    BY <1>3, BaseTypes DEF Ids
  <1>5. LogStep(os, T, ring, objs', ring')  BY DEF StopThese, Log, LogStep, Ids
  <1>6. /\ os \in [D -> ObjRecs] /\ DOMAIN os = D
        /\ \A i \in D : /\ os[i].handle = objs[i].handle /\ os[i].down = objs[i].down
                        /\ os[i].held = objs[i].held /\ os[i].mail = objs[i].mail
                        /\ (i \notin S => os[i] = objs[i])
                        /\ (os[i].conn => objs[i].conn)
                        /\ (i \in S => os[i].stopped)
                        /\ (objs[i].stopped => os[i].stopped)
    <2>1. ASSUME NEW y \in ObjRecs
          PROVE  /\ Stopped(y) \in ObjRecs /\ Stopped(y).handle = y.handle
                 /\ Stopped(y).down = y.down /\ Stopped(y).held = y.held
                 /\ Stopped(y).mail = y.mail /\ (Stopped(y).conn => y.conn)
                 /\ Stopped(y).stopped
      BY DEF Stopped, ObjRecs
    <2> QED  BY <1>4, <2>1
  <1> HIDE DEF os
  <1>7. /\ SameButLogged(os, objs') /\ ring' \in Seq(Entries)
        /\ \A k \in 1..Len(ring') : (k \in 1..Len(ring) /\ ring'[k] = ring[k]) \/ ring'[k].id \in T
    <2>1. T \in SUBSET D /\ ring \in Seq(Entries)  BY <1>3, <1>4 DEF Registered
    <2> HIDE DEF T, D
    <2> QED  BY <1>4, <1>5, <1>6, <2>1, LogIs
  <1>8. Base(pool, configs, creating, os, R)  BY <1>3, <1>6, KeepBase
  <1>9. Queued(configs, os, st, connects)  BY <1>1, <1>6 DEF Queued
  <1>10. Owned(os, hist'.asked)  BY <1>3, <1>6 DEF Owned
  <1>11. Held(os)  BY <1>3, <1>6 DEF Held
  <1>12. AtMostOne(os, connects, st, R, hist.gaveUp)  BY <1>2, <1>6 DEF AtMostOne
  <1>13. Registered(configs, objs', ring', sink, engine, hist'.overtaken)
    <2>1. DOMAIN objs' = D /\ \A i \in D : objs'[i].handle = objs[i].handle
      BY <1>6, <1>7 DEF SameButLogged
    <2> QED  BY <1>3, <1>4, <1>7, <2>1 DEF Registered
  <1>14. /\ Base(pool, configs, creating, objs', R) /\ Queued(configs, objs', st, connects)
         /\ Owned(objs', hist'.asked) /\ Held(objs')
         /\ AtMostOne(objs', connects, st, R, hist.gaveUp)
    BY <1>7, <1>8, <1>9, <1>10, <1>11, <1>12, KeepLogged
  <1> QED  BY <1>13, <1>14 DEF ManagerInv

LEMMA RunStopInv ==
    ASSUME ManagerInv, RunStop PROVE ManagerInv'
  <1> DEFINE h == Head(strand).handle
             S == {get(pool, h).id} \cap Ids
  <1>1. /\ strand # <<>> /\ Head(strand).op = "stop" /\ strand' = Tail(strand) /\ StopThese(S)
        /\ hist' = [hist EXCEPT !.asked = @ \cup {h.id}]
        /\ UNCHANGED <<pool, configs, creating, connects, sink, engine>>
    BY DEF RunStop, RunTask
  <1>2. /\ h \in configs /\ h.id \in Ids /\ objs[h.id].handle = h
        /\ get(pool, h) = None \/ get(pool, h) = h
    BY <1>1, HeadFinds
  <1>3. Ids \subseteq Nat /\ hist \in Hists  BY BaseTypes DEF ManagerInv, Ids
  <1>4. S \in SUBSET Ids /\ S \subseteq {h.id}  BY <1>2, <1>3, NoneIsNone
  <1>5. /\ hist' \in Hists /\ hist'.removed = hist.removed /\ hist'.gaveUp = hist.gaveUp
        /\ hist'.asked = hist.asked \cup {h.id} /\ hist'.overtaken = hist.overtaken
    <2>1. hist.asked \in SUBSET Int  BY <1>3 DEF Hists
    <2> HIDE DEF h
    <2>2. h.id \in Ids /\ Ids \subseteq Nat  BY <1>2, <1>3
    <2>3. h.id \in Nat  BY <2>2
    <2> QED  BY <1>1, <1>3, <2>1, <2>3 DEF Hists
  <1>6. /\ hist.asked \cup S \subseteq hist'.asked /\ (hist.overtaken => hist'.overtaken)
        /\ \A i \in S : objs[i].handle \in configs
    BY <1>2, <1>4, <1>5
  <1> HIDE DEF S
  <1> QED  BY <1>1, <1>4, <1>5, <1>6, StopInv

LEMMA RunStopAllInv ==
    ASSUME ManagerInv, RunStopAll PROVE ManagerInv'
  <1> DEFINE S == {h.id : h \in get_all(pool)}
             b == hist.overtaken \/ creating # None
             a == hist.asked \cup S
  <1>1. /\ strand # <<>> /\ Head(strand).op = "stop_all" /\ strand' = Tail(strand) /\ StopThese(S)
        /\ hist' = [hist EXCEPT !.asked = a, !.overtaken = b]
        /\ UNCHANGED <<pool, configs, creating, connects, sink, engine>>
    BY DEF RunStopAll, RunTask, ManagerInv, Hists
  <1>2. Base(pool, configs, creating, objs, hist.removed) /\ hist \in Hists  BY DEF ManagerInv
  <1>3. /\ Ids \subseteq Nat /\ \A i \in Ids : objs[i].handle.id = i
    BY <1>2, BaseTypes DEF Ids
  <1>4. ToSet(pool.sessions) \ {None} = {objs[i].handle : i \in Ids \ hist.removed}
    BY <1>2, PoolHas DEF Base, Ids
  <1>5. S \in SUBSET Ids
    <2>1. get_all(pool) \subseteq ToSet(pool.sessions) \ {None}  BY DEF get_all
    <2> QED  BY <1>3, <1>4, <2>1
  <1>6. creating = None => \A i \in Ids : objs[i].handle \in configs
    <2>1. ASSUME NEW i \in Ids PROVE objs[i].handle # None  BY <1>3, NoneIsNone
    <2> QED  BY <1>2, <2>1 DEF Base, Ids
  <1>7. /\ hist' \in Hists /\ hist'.removed = hist.removed /\ hist'.gaveUp = hist.gaveUp
        /\ hist'.asked = a /\ hist'.overtaken = b
    <2>1. hist.asked \in SUBSET Int  BY <1>2 DEF Hists
    <2> HIDE DEF S
    <2>2. S \in SUBSET Int  BY <1>3, <1>5
    <2>3. a \in SUBSET Int /\ b \in BOOLEAN  BY <2>1, <2>2
    <2> HIDE DEF a, b
    <2> QED  BY <1>1, <1>2, <2>3 DEF Hists
  <1> HIDE DEF S
  <1>8. /\ hist.asked \cup S \subseteq hist'.asked /\ (hist.overtaken => hist'.overtaken)
        /\ (~ hist'.overtaken => \A i \in S : objs[i].handle \in configs)
    BY <1>5, <1>6, <1>7
  <1> QED  BY <1>1, <1>5, <1>7, <1>8, StopInv

LEMMA ReconnectInv ==
    ASSUME ManagerInv, reconnect_session_impl_ PROVE ManagerInv'
  <1> DEFINE h == Head(strand).handle
             i == h.id
             st == Tail(strand)
             c == [id |-> i, mode |-> "RECONNECT"]
             cn == connects \cup {c}
             R == hist.removed
  <1>1. /\ strand # <<>> /\ Head(strand).op = "reconnect" /\ strand' = st
        /\ connects' = IF h \notin Handles \/ get(pool, h) = None THEN connects ELSE cn
        /\ UNCHANGED <<pool, configs, creating, objs, ring, sink, engine, hist>>
    BY DEF reconnect_session_impl_, RunTask
  <1>2. /\ h \in configs /\ i \in DOMAIN objs /\ objs[i].handle = h /\ h # None
        /\ i \in R => get(pool, h) = None
        /\ i \notin R => get(pool, h) = h
    BY <1>1, HeadFinds DEF Ids
  <1>3. /\ Queued(configs, objs, st, connects) /\ Head(strand) = strand[1] /\ 1 \in 1..Len(strand)
        /\ \A k \in 1..Len(st) : k + 1 \in 1..Len(strand) /\ st[k] = strand[k + 1]
        /\ \A k \in 1..Len(strand) : k = 1 \/ (k - 1 \in 1..Len(st) /\ st[k - 1] = strand[k])
    BY <1>1, PopTask DEF ManagerInv
  <1>4. /\ Base(pool, configs, creating, objs, R)
        /\ AtMostOne(objs, connects, strand, R, hist.gaveUp)
    BY DEF ManagerInv
  <1>5. Waits(strand[1], i) /\ i = strand[1].handle.id  BY <1>1, <1>3 DEF Waits
  <1>6. NoConnect(connects, i)
    BY <1>3, <1>4, <1>5 DEF AtMostOne, NoConnect, NoneWaits
  <1>7. NoneWaits(st, i)
    <2>1. ASSUME NEW k \in 1..Len(st), Waits(st[k], i) PROVE FALSE
      <3>1. k + 1 \in 1..Len(strand) /\ Waits(strand[k + 1], i)  BY <1>3, <2>1
      <3>2. k + 1 = 1  BY <1>3, <1>4, <1>5, <3>1 DEF AtMostOne
      <3> QED  BY <3>2
    <2> QED  BY <2>1 DEF NoneWaits
  <1>8. ASSUME NEW j, j # i PROVE NoneWaits(st, j) <=> NoneWaits(strand, j)
    <2>1. ~ Waits(strand[1], j)  BY <1>5, <1>8 DEF Waits
    <2> QED  BY <1>3, <2>1 DEF NoneWaits
  <1>9. ~ (objs[i].conn /\ ~ objs[i].stopped)
    BY <1>2, <1>3, <1>4, <1>5 DEF AtMostOne, NoneWaits
  <1>10. \A k, l \in 1..Len(st) :
           Waits(st[k], st[k].handle.id) /\ Waits(st[l], st[k].handle.id) => k = l
    <2>1. ASSUME NEW k \in 1..Len(st), NEW l \in 1..Len(st),
                 Waits(st[k], st[k].handle.id) /\ Waits(st[l], st[k].handle.id)
          PROVE  k = l
      <3>1. k + 1 = l + 1  BY <1>3, <1>4, <2>1 DEF AtMostOne
      <3> QED  BY <3>1
    <2> QED  BY <2>1
  <1>11. CASE i \in R
    <2>1. connects' = connects  BY <1>1, <1>2, <1>11
    <2>2. AtMostOne(objs, connects, st, R, hist.gaveUp)
      <3>1. \A d \in connects : NoneWaits(st, d.id)  BY <1>4, <1>6, <1>8 DEF AtMostOne, NoConnect
      <3> QED  BY <1>4, <1>7, <1>8, <1>9, <1>10, <1>11, <3>1 DEF AtMostOne
    <2> QED  BY <1>1, <1>3, <2>1, <2>2 DEF ManagerInv
  <1>12. CASE i \notin R
    <2>1. connects' = cn  BY <1>1, <1>2, <1>12 DEF Handles
    <2>2. c \in Connects /\ c.id = i  BY <1>2, <1>4, BaseTypes DEF Connects
    <2> HIDE DEF c
    <2>3. Queued(configs, objs, st, cn)  BY <1>2, <1>3, <2>2 DEF Queued
    <2>4. AtMostOne(objs, cn, st, R, hist.gaveUp)
      <3>1. \A d \in cn : NoneWaits(st, d.id)
        BY <1>4, <1>6, <1>7, <1>8, <2>2 DEF AtMostOne, NoConnect
      <3>2. \A d, e \in cn : d.id = e.id => d = e
        BY <1>4, <1>6, <2>2 DEF AtMostOne, NoConnect
      <3>3. \A j : j # i => (NoConnect(cn, j) <=> NoConnect(connects, j))
        BY <2>2 DEF NoConnect
      <3>4. ~ NoConnect(cn, i)  BY <2>2 DEF NoConnect
      <3> HIDE DEF cn, st, i, R
      <3> QED  BY <1>4, <1>7, <1>8, <1>9, <1>10, <3>1, <3>2, <3>3, <3>4 DEF AtMostOne
    <2> HIDE DEF cn, st
    <2> QED  BY <1>1, <2>1, <2>3, <2>4 DEF ManagerInv
  <1> QED  BY <1>11, <1>12

-----------------------------------------------------------------------------
(* The steps of the connections *)

\* A step that logs an entry of each of S, after it made the objects os.
LEMMA LogSome ==
    ASSUME NEW p, NEW cf, NEW cr, NEW R, NEW os, Base(p, cf, cr, os, R),
           NEW S \in SUBSET DOMAIN os, \A i \in S : os[i].handle \in cf,
           NEW r, NEW u, NEW t, NEW sk, NEW en, NEW b, Registered(cf, os, r, sk, en, b),
           LogStep(os, S, r, u, t)
    PROVE  SameButLogged(os, u) /\ Registered(cf, u, t, sk, en, b)
  <1>1. /\ os \in [DOMAIN os -> ObjRecs] /\ DOMAIN os \subseteq Nat /\ IsFiniteSet(DOMAIN os)
        /\ S \subseteq DOMAIN os
    BY BaseTypes
  <1>2. r \in Seq(Entries)  BY DEF Registered
  <1>3. /\ SameButLogged(os, u) /\ t \in Seq(Entries)
        /\ \A k \in 1..Len(t) : (k \in 1..Len(r) /\ t[k] = r[k]) \/ t[k].id \in S
    BY <1>1, <1>2, LogIs
  <1>4. DOMAIN u = DOMAIN os /\ \A j \in DOMAIN os : u[j].handle = os[j].handle
    BY <1>3 DEF SameButLogged
  <1> QED  BY <1>3, <1>4 DEF Registered

LEMMA LogOne ==
    ASSUME NEW p, NEW cf, NEW cr, NEW R, NEW os, Base(p, cf, cr, os, R),
           NEW i \in DOMAIN os, os[i].handle \in cf,
           NEW r, NEW u, NEW t, NEW sk, NEW en, NEW b, Registered(cf, os, r, sk, en, b),
           LogStep(os, {i}, r, u, t)
    PROVE  SameButLogged(os, u) /\ Registered(cf, u, t, sk, en, b)
  <1> DEFINE S == {i}
  <1>1. S \in SUBSET DOMAIN os /\ (\A j \in S : os[j].handle \in cf) /\ LogStep(os, S, r, u, t)
    OBVIOUS
  <1> HIDE DEF S
  <1> QED  BY <1>1, LogSome

\* A connect is over: its session has none left.
LEMMA ConnectOver ==
    ASSUME NEW o, NEW cn, NEW st, NEW R, NEW g, AtMostOne(o, cn, st, R, g), NEW c \in cn
    PROVE  /\ NoConnect(cn \ {c}, c.id) /\ NoneWaits(st, c.id)
           /\ \A j : j # c.id => (NoConnect(cn \ {c}, j) <=> NoConnect(cn, j))
           /\ AtMostOne(o, cn \ {c}, st, R, g \cup {c.id})
           /\ (c.id \in R \/ ~ o[c.id].down \/ o[c.id].stopped) => AtMostOne(o, cn \ {c}, st, R, g)
  <1> DEFINE d == cn \ {c}
  <1>1. NoConnect(d, c.id) /\ NoneWaits(st, c.id)  BY DEF AtMostOne, NoConnect
  <1>2. \A j : j # c.id => (NoConnect(d, j) <=> NoConnect(cn, j))  BY DEF NoConnect
  <1>3. \A j : NoConnect(cn, j) => NoConnect(d, j)  BY DEF NoConnect
  <1>4. \A x, y \in d : x.id = y.id => x = y  BY DEF AtMostOne
  <1>5. \A x \in d : NoneWaits(st, x.id)  BY DEF AtMostOne
  <1> HIDE DEF d
  <1>6. AtMostOne(o, d, st, R, g \cup {c.id})
    BY <1>2, <1>3, <1>4, <1>5 DEF AtMostOne
  <1>7. (c.id \in R \/ ~ o[c.id].down \/ o[c.id].stopped) => AtMostOne(o, d, st, R, g)
    BY <1>2, <1>3, <1>4, <1>5 DEF AtMostOne
  <1> QED  BY <1>1, <1>2, <1>6, <1>7 DEF d

\* A session that has no config is no session of a connect.
LEMMA ConnectKnown ==
    ASSUME ManagerInv, NEW c \in connects
    PROVE  /\ c.id \in DOMAIN objs /\ objs[c.id].handle \in configs /\ c.id \in Nat
           /\ objs[c.id] \in ObjRecs /\ c.mode \in {"NORMAL", "RECONNECT"}
           /\ InPool(c.id) <=> c.id \notin hist.removed
  <1>1. Base(pool, configs, creating, objs, hist.removed)  BY DEF ManagerInv
  <1>2. c.id \in DOMAIN objs /\ objs[c.id].handle \in configs /\ c \in Connects
    BY DEF ManagerInv, Queued
  <1>3. InPool(c.id) <=> c.id \notin hist.removed
    BY <1>1, <1>2, PoolHas DEF Base, InPool
  <1> QED  BY <1>1, <1>2, <1>3, BaseTypes DEF Connects

LEMMA ConnectFailedInv ==
    ASSUME ManagerInv, NEW c \in connects, ConnectFailed(c) PROVE ManagerInv'
  <1> DEFINE i == c.id
             cn == connects \ {c}
             R == hist.removed
             g == hist.gaveUp \cup {i}
  <1>1. /\ connects' = cn /\ hist' = [hist EXCEPT !.gaveUp = g]
        /\ IF Alive(i) THEN Log(objs, {i}) ELSE UNCHANGED <<objs, ring>>
        /\ UNCHANGED <<pool, configs, creating, strand, sink, engine>>
    BY DEF ConnectFailed
  <1>2. i \in DOMAIN objs /\ objs[i].handle \in configs /\ i \in Nat  BY ConnectKnown
  <1>3. /\ hist \in Hists /\ Base(pool, configs, creating, objs, R)
        /\ Queued(configs, objs, strand, connects)
        /\ Owned(objs, hist.asked) /\ Held(objs)
        /\ Registered(configs, objs, ring, sink, engine, hist.overtaken)
        /\ AtMostOne(objs, connects, strand, R, hist.gaveUp)
    BY DEF ManagerInv
  <1>4. /\ hist' \in Hists /\ hist'.removed = R /\ hist'.asked = hist.asked
        /\ hist'.overtaken = hist.overtaken /\ hist'.gaveUp = g
    <2>1. g \in SUBSET Nat  BY <1>2, <1>3 DEF Hists
    <2> HIDE DEF g
    <2> QED  BY <1>1, <1>3, <2>1 DEF Hists
  <1>5. Queued(configs, objs, strand, cn)  BY <1>3 DEF Queued
  <1>6. AtMostOne(objs, cn, strand, R, g)  BY <1>3, ConnectOver
  <1>7. SameButLogged(objs, objs') /\ Registered(configs, objs', ring', sink, engine, hist.overtaken)
    <2>1. CASE Alive(i)
      <3>1. LogStep(objs, {i}, ring, objs', ring')  BY <1>1, <2>1 DEF Log, LogStep
      <3> HIDE DEF i, R
      <3> QED  BY <1>2, <1>3, <3>1, LogOne
    <2>2. CASE ~ Alive(i)
      <3>1. objs' = objs /\ ring' = ring  BY <1>1, <2>2
      <3>2. objs \in [DOMAIN objs -> ObjRecs]  BY <1>3, BaseTypes
      <3> QED  BY <1>3, <3>1, <3>2 DEF SameButLogged
    <2> QED  BY <2>1, <2>2
  <1> HIDE DEF cn, g, R
  <1>8. /\ Base(pool, configs, creating, objs', R) /\ Queued(configs, objs', strand, cn)
        /\ Owned(objs', hist.asked) /\ Held(objs') /\ AtMostOne(objs', cn, strand, R, g)
    BY <1>3, <1>5, <1>6, <1>7, KeepLogged
  <1> QED  BY <1>1, <1>4, <1>7, <1>8 DEF ManagerInv

LEMMA ConnectedInv ==
    ASSUME ManagerInv, NEW c \in connects, Connected(c) PROVE ManagerInv'
  <1> DEFINE i == c.id
             cn == connects \ {c}
             R == hist.removed
             o == objs[i]
             x == [o EXCEPT !.conn = TRUE, !.held = ~ o.stopped \/ c.mode = "NORMAL" \/ o.held,
                            !.down = o.down /\ o.stopped]
             os == [objs EXCEPT ![i] = x]
  <1>1. /\ connects' = cn
        /\ UNCHANGED <<pool, configs, creating, strand, sink, engine, hist>>
    BY DEF Connected
  <1>2. /\ i \in DOMAIN objs /\ objs[i].handle \in configs /\ i \in Nat /\ o \in ObjRecs
        /\ InPool(i) <=> i \notin R
    BY ConnectKnown
  <1>3. /\ hist \in Hists /\ Base(pool, configs, creating, objs, R)
        /\ Queued(configs, objs, strand, connects)
        /\ Owned(objs, hist.asked) /\ Held(objs)
        /\ Registered(configs, objs, ring, sink, engine, hist.overtaken)
        /\ AtMostOne(objs, connects, strand, R, hist.gaveUp)
    BY DEF ManagerInv
  <1>4. Queued(configs, objs, strand, cn)  BY <1>3 DEF Queued
  <1>5. CASE ~ Alive(i)
    <2>1. objs' = objs /\ ring' = ring  BY <1>5 DEF Connected
    <2>2. i \in R  BY <1>2, <1>5 DEF Alive
    <2>3. AtMostOne(objs, cn, strand, R, hist.gaveUp)  BY <1>3, <2>2, ConnectOver
    <2> HIDE DEF cn, R
    <2> QED  BY <1>1, <1>3, <1>4, <2>1, <2>3 DEF ManagerInv, R
  <1>6. CASE Alive(i)
    <2>1. LogStep(os, {i}, ring, objs', ring')
      <3> DEFINE y == [objs EXCEPT ![i].conn = TRUE,
                                   ![i].held = ~ objs[i].stopped \/ c.mode = "NORMAL" \/ @,
                                   ![i].down = @ /\ objs[i].stopped]
      <3>1. Log(y, {i})  BY <1>6 DEF Connected
      <3>2. y = os  BY <1>2, <1>3, BaseTypes DEF ObjRecs
      <3> HIDE DEF y, os
      <3> QED  BY <3>1, <3>2 DEF Log, LogStep
    <2>2. /\ x \in ObjRecs /\ x.handle = o.handle /\ x.conn /\ x.stopped = o.stopped
          /\ (x.down => o.stopped) /\ (~ o.stopped => x.held) /\ x.mail = o.mail
      BY <1>2 DEF ObjRecs
    <2> HIDE DEF x
    <2>3. /\ os \in [DOMAIN objs -> ObjRecs] /\ DOMAIN os = DOMAIN objs /\ os[i] = x
          /\ \A j \in DOMAIN objs : j # i => os[j] = objs[j]
      BY <1>2, <1>3, <2>2, BaseTypes
    <2>4. \A j \in DOMAIN objs : os[j].handle = objs[j].handle  BY <2>2, <2>3
    <2> HIDE DEF os
    <2>5. Base(pool, configs, creating, os, R)  BY <1>3, <2>3, <2>4, KeepBase
    <2>6. Queued(configs, os, strand, cn)  BY <1>2, <1>4, <2>2, <2>3, <2>4 DEF Queued
    <2>7. Owned(os, hist.asked)  BY <1>2, <1>3, <2>2, <2>3 DEF Owned
    <2>8. Held(os)  BY <1>3, <2>2, <2>3 DEF Held
    <2>9. Registered(configs, os, ring, sink, engine, hist.overtaken)
      BY <1>3, <2>3, <2>4 DEF Registered
    <2>10. AtMostOne(os, cn, strand, R, hist.gaveUp)
      <3>1. /\ NoConnect(cn, i) /\ NoneWaits(strand, i)
            /\ \A j : j # i => (NoConnect(cn, j) <=> NoConnect(connects, j))
            /\ AtMostOne(objs, cn, strand, R, hist.gaveUp \cup {i})
        BY <1>3, ConnectOver
      <3> HIDE DEF cn, R, i
      <3> QED  BY <1>2, <2>2, <2>3, <3>1 DEF AtMostOne
    <2>11. SameButLogged(os, objs') /\ Registered(configs, objs', ring', sink, engine, hist.overtaken)
      <3> HIDE DEF i, R
      <3> QED  BY <1>2, <2>1, <2>3, <2>4, <2>5, <2>9, LogOne
    <2> HIDE DEF cn, R
    <2>12. /\ Base(pool, configs, creating, objs', R) /\ Queued(configs, objs', strand, cn)
           /\ Owned(objs', hist.asked) /\ Held(objs') /\ AtMostOne(objs', cn, strand, R, hist.gaveUp)
      BY <2>5, <2>6, <2>7, <2>8, <2>10, <2>11, KeepLogged
    <2> QED  BY <1>1, <1>3, <2>11, <2>12 DEF ManagerInv, R
  <1> QED  BY <1>5, <1>6

LEMMA TransportDownInv ==
    ASSUME ManagerInv, NEW i \in Ids, TransportDown(i) PROVE ManagerInv'
  <1> DEFINE R == hist.removed
             o == objs[i]
             x == [o EXCEPT !.conn = FALSE, !.down = TRUE]
             os == [objs EXCEPT ![i] = x]
             t == [op |-> "reconnect", handle |-> o.handle]
             st == Append(strand, t)
  <1>1. /\ o.conn /\ ~ o.stopped /\ strand' = st
        /\ UNCHANGED <<pool, configs, creating, connects, sink, engine, hist>>
    BY DEF TransportDown
  <1>2. /\ hist \in Hists /\ Base(pool, configs, creating, objs, R)
        /\ Queued(configs, objs, strand, connects)
        /\ Owned(objs, hist.asked) /\ Held(objs)
        /\ Registered(configs, objs, ring, sink, engine, hist.overtaken)
        /\ AtMostOne(objs, connects, strand, R, hist.gaveUp)
    BY DEF ManagerInv
  <1>3. /\ i \in DOMAIN objs /\ objs \in [DOMAIN objs -> ObjRecs] /\ o \in ObjRecs
        /\ o.handle.id = i
    BY <1>2, BaseTypes DEF Ids
  <1>4. o.handle \in configs /\ NoConnect(connects, i) /\ NoneWaits(strand, i)
    BY <1>1, <1>2, <1>3 DEF Queued, AtMostOne
  <1>5. LogStep(os, {i}, ring, objs', ring')
    <2> DEFINE y == [objs EXCEPT ![i].conn = FALSE, ![i].down = TRUE]
    <2>1. Log(y, {i})  BY DEF TransportDown
    <2>2. y = os  BY <1>3 DEF ObjRecs
    <2> HIDE DEF y, os
    <2> QED  BY <2>1, <2>2 DEF Log, LogStep
  <1>6. /\ x \in ObjRecs /\ x.handle = o.handle /\ ~ x.conn /\ x.stopped = o.stopped
        /\ x.held = o.held /\ x.mail = o.mail
    BY <1>3 DEF ObjRecs
  <1> HIDE DEF x
  <1>7. /\ os \in [DOMAIN objs -> ObjRecs] /\ DOMAIN os = DOMAIN objs /\ os[i] = x
        /\ \A j \in DOMAIN objs : j # i => os[j] = objs[j]
    BY <1>3, <1>6
  <1>8. \A j \in DOMAIN objs : os[j].handle = objs[j].handle  BY <1>6, <1>7
  <1> HIDE DEF os
  <1>9. Base(pool, configs, creating, os, R)  BY <1>2, <1>7, <1>8, KeepBase
  <1>10. t \in Tasks /\ t.handle = o.handle /\ Waits(t, i) /\ t.op = "reconnect"
    <2>1. o.handle \in HandleRecs  BY <1>3 DEF ObjRecs
    <2> QED  BY <1>3, <2>1 DEF Tasks, Waits
  <1> HIDE DEF t
  <1>11. /\ Queued(configs, objs, st, connects) /\ Len(strand) \in Nat
         /\ Len(st) = Len(strand) + 1 /\ st[Len(strand) + 1] = t
         /\ \A k \in 1..Len(strand) : st[k] = strand[k]
    BY <1>2, <1>4, <1>10, PushTask
  <1> HIDE DEF st
  <1>12. Queued(configs, os, st, connects)  BY <1>6, <1>7, <1>8, <1>11 DEF Queued
  <1>13. Owned(os, hist.asked)  BY <1>2, <1>3, <1>6, <1>7 DEF Owned
  <1>14. Held(os)  BY <1>2, <1>6, <1>7 DEF Held
  <1>15. Registered(configs, os, ring, sink, engine, hist.overtaken)
    BY <1>2, <1>7, <1>8 DEF Registered
  <1>16. AtMostOne(os, connects, st, R, hist.gaveUp)
    <2>1. \A k \in 1..Len(st) : k \in 1..Len(strand) \/ (k = Len(strand) + 1 /\ st[k] = t)
      BY <1>11
    <2>2. Len(strand) + 1 \in 1..Len(st) /\ \A k \in 1..Len(strand) : k \in 1..Len(st)
      BY <1>11
    <2>3. ASSUME NEW j, j # i PROVE NoneWaits(st, j) <=> NoneWaits(strand, j)
      <3>1. ~ Waits(t, j)  BY <1>10, <2>3 DEF Waits
      <3> QED  BY <1>11, <2>1, <2>2, <3>1 DEF NoneWaits
    <2>4. ~ NoneWaits(st, i)  BY <1>10, <1>11, <2>2 DEF NoneWaits
    <2>5. \A k, l \in 1..Len(st) :
            Waits(st[k], st[k].handle.id) /\ Waits(st[l], st[k].handle.id) => k = l
      <3>1. ASSUME NEW k \in 1..Len(st), NEW l \in 1..Len(st),
                   Waits(st[k], st[k].handle.id), Waits(st[l], st[k].handle.id)
            PROVE  k = l
        <4>1. CASE k \in 1..Len(strand) /\ l \in 1..Len(strand)
          BY <1>2, <1>11, <3>1, <4>1 DEF AtMostOne
        <4>2. CASE k = Len(strand) + 1 /\ l = Len(strand) + 1  BY <4>2
        <4>3. CASE k = Len(strand) + 1 /\ l \in 1..Len(strand)
          <5>1. Waits(strand[l], i)  BY <1>3, <1>10, <1>11, <3>1, <4>3
          <5> QED  BY <1>4, <4>3, <5>1 DEF NoneWaits
        <4>4. CASE l = Len(strand) + 1 /\ k \in 1..Len(strand)
          <5>1. st[k].handle.id = i  BY <1>10, <1>11, <3>1, <4>4 DEF Waits
          <5>2. Waits(strand[k], i)  BY <1>11, <3>1, <4>4, <5>1
          <5> QED  BY <1>4, <4>4, <5>2 DEF NoneWaits
        <4> QED  BY <2>1, <4>1, <4>2, <4>3, <4>4
      <3> QED  BY <3>1
    <2>6. \A c \in connects : NoneWaits(st, c.id)
      BY <1>2, <1>4, <2>3 DEF AtMostOne, NoConnect
    <2> HIDE DEF R
    <2> QED  BY <1>2, <1>6, <1>7, <2>3, <2>4, <2>5, <2>6 DEF AtMostOne
  <1> HIDE DEF R
  <1>17. SameButLogged(os, objs') /\ Registered(configs, objs', ring', sink, engine, hist.overtaken)
    BY <1>3, <1>4, <1>5, <1>7, <1>8, <1>9, <1>15, LogOne
  <1>18. /\ Base(pool, configs, creating, objs', R) /\ Queued(configs, objs', st, connects)
         /\ Owned(objs', hist.asked) /\ Held(objs')
         /\ AtMostOne(objs', connects, st, R, hist.gaveUp)
    BY <1>9, <1>12, <1>13, <1>14, <1>16, <1>17, KeepLogged
  <1> QED  BY <1>1, <1>2, <1>17, <1>18 DEF ManagerInv, R

LEMMA HandlersGoneInv ==
    ASSUME ManagerInv, NEW i \in Ids, HandlersGone(i) PROVE ManagerInv'
  <1> DEFINE o == objs[i]
             x == [o EXCEPT !.held = FALSE]
             u == [objs EXCEPT ![i] = x]
  <1>1. /\ ~ o.conn \/ o.stopped
        /\ UNCHANGED <<pool, configs, creating, connects, strand, ring, sink, engine, hist>>
    BY DEF HandlersGone
  <1>2. /\ Base(pool, configs, creating, objs, hist.removed)
        /\ Queued(configs, objs, strand, connects)
        /\ Owned(objs, hist.asked) /\ Held(objs)
        /\ Registered(configs, objs, ring, sink, engine, hist.overtaken)
        /\ AtMostOne(objs, connects, strand, hist.removed, hist.gaveUp)
    BY DEF ManagerInv
  <1>3. i \in DOMAIN objs /\ objs \in [DOMAIN objs -> ObjRecs] /\ o \in ObjRecs
    BY <1>2, BaseTypes DEF Ids
  <1>4. objs' = u  BY <1>3 DEF HandlersGone
  <1>5. /\ x \in ObjRecs /\ x.handle = o.handle /\ x.conn = o.conn /\ x.stopped = o.stopped
        /\ x.down = o.down /\ x.mail = o.mail
    BY <1>3 DEF ObjRecs
  <1> HIDE DEF x
  <1>6. /\ u \in [DOMAIN objs -> ObjRecs] /\ DOMAIN u = DOMAIN objs
        /\ \A j \in DOMAIN objs :
             /\ u[j].handle = objs[j].handle /\ u[j].conn = objs[j].conn
             /\ u[j].stopped = objs[j].stopped /\ u[j].down = objs[j].down
             /\ u[j].mail = objs[j].mail /\ (j # i => u[j].held = objs[j].held)
    BY <1>3, <1>5
  <1> HIDE DEF u
  <1>7. Base(pool, configs, creating, u, hist.removed)  BY <1>2, <1>6, KeepBase
  <1>8. Owned(u, hist.asked)  BY <1>2, <1>6 DEF Owned
  <1>9. Held(u)  BY <1>1, <1>2, <1>6 DEF Held
  <1>10. Queued(configs, u, strand, connects)  BY <1>2, <1>6 DEF Queued
  <1>11. Registered(configs, u, ring, sink, engine, hist.overtaken)  BY <1>2, <1>6 DEF Registered
  <1>12. AtMostOne(u, connects, strand, hist.removed, hist.gaveUp)  BY <1>2, <1>6 DEF AtMostOne
  <1> QED
    BY <1>1, <1>4, <1>7, <1>8, <1>9, <1>10, <1>11, <1>12 DEF ManagerInv

-----------------------------------------------------------------------------
(* The steps of the drain thread *)

LEMMA DrainInv ==
    ASSUME ManagerInv, NEW ok \in BOOLEAN, Drain(ok) PROVE ManagerInv'
  <1> DEFINE n == Head(ring).id
             t == write(sink, n, Head(ring).entry, ok)
  <1>1. /\ engine # "down" /\ sink.fault = "none" /\ ring # <<>> /\ ring' = Tail(ring)
        /\ sink' = t /\ Refusal(ok, n)
        /\ UNCHANGED <<pool, configs, creating, objs, connects, strand, engine>>
    BY DEF Drain
  <1>2. Registered(configs, objs, ring, sink, engine, hist.overtaken) /\ hist \in Hists
    BY DEF ManagerInv
  <1>3. ring \in Seq(Entries)  BY <1>2 DEF Registered
  <1>4. /\ Head(ring) = ring[1] /\ 1 \in 1..Len(ring) /\ Head(ring) \in Entries
        /\ Tail(ring) \in Seq(Entries) /\ Len(Tail(ring)) = Len(ring) - 1 /\ Len(ring) \in Nat
        /\ \A k \in 1..Len(Tail(ring)) : Tail(ring)[k] = ring[k + 1]
    BY <1>1, <1>3, HeadTailProperties
  <1>5. n \in Nat  BY <1>4 DEF Entries
  <1>6. /\ hist' \in Hists /\ hist'.removed = hist.removed /\ hist'.asked = hist.asked
        /\ hist'.overtaken = hist.overtaken /\ hist'.gaveUp = hist.gaveUp
    BY <1>1, <1>2, <1>5, RefusalHist
  <1>7. /\ SinkDom(t) /\ DOMAIN t.nodes = DOMAIN sink.nodes
        /\ n \in DOMAIN sink.nodes => t.fault # "unregistered"
    BY <1>1, <1>2, KeepsWrite DEF Registered, SinkDom, Keeps
  <1> HIDE DEF t
  <1>8. ~ hist.overtaken => n \in DOMAIN sink.nodes
    <2>1. ASSUME ~ hist.overtaken PROVE n \in DOMAIN sink.nodes
      <3>1. n \in DOMAIN objs /\ objs[n].handle \in configs  BY <1>2, <1>4, <2>1 DEF Registered
      <3>2. objs[n].handle.id = n  BY <3>1, BaseTypes DEF ManagerInv
      <3> QED  BY <1>1, <1>2, <2>1, <3>1, <3>2 DEF Registered
    <2> QED  BY <2>1
  <1>9. Registered(configs, objs, Tail(ring), t, engine, hist.overtaken)
    <2> DEFINE r == Tail(ring)
    <2> HIDE DEF r
    <2>1. \A k \in 1..Len(r) : k + 1 \in 1..Len(ring) /\ r[k] = ring[k + 1]  BY <1>4 DEF r
    <2>2. r \in Seq(Entries)  BY <1>4 DEF r
    <2>3. Registered(configs, objs, r, t, engine, hist.overtaken)
      BY <1>2, <1>7, <1>8, <2>1, <2>2 DEF Registered, SinkDom
    <2> QED  BY <2>3 DEF r
  <1> QED  BY <1>1, <1>6, <1>9 DEF ManagerInv

LEMMA CloseNodeInv ==
    ASSUME ManagerInv, NEW n \in DOMAIN sink.nodes, NEW ok \in BOOLEAN, CloseNode(n, ok)
    PROVE  ManagerInv'
  <1> DEFINE t == close_file(sink, n, ok)
  <1>1. /\ sink.fault = "none" /\ sink' = t /\ Refusal(ok, n)
        /\ UNCHANGED <<pool, configs, creating, objs, connects, strand, ring, engine>>
    BY DEF CloseNode
  <1>2. Registered(configs, objs, ring, sink, engine, hist.overtaken) /\ hist \in Hists
    BY DEF ManagerInv
  <1>3. n \in Nat  BY <1>2 DEF Registered
  <1>4. /\ hist' \in Hists /\ hist'.removed = hist.removed /\ hist'.asked = hist.asked
        /\ hist'.overtaken = hist.overtaken /\ hist'.gaveUp = hist.gaveUp
    BY <1>1, <1>2, <1>3, RefusalHist
  <1>5. Keeps(sink, t)  BY <1>1, <1>2, KeepsClose DEF Registered, SinkDom
  <1> HIDE DEF t
  <1>6. Registered(configs, objs, ring, t, engine, hist.overtaken)
    BY <1>2, <1>5 DEF Registered, Keeps, SinkDom
  <1> QED  BY <1>1, <1>4, <1>6 DEF ManagerInv

LEMMA OtherInv ==
    ASSUME ManagerInv, BeginShutdown \/ ShutdownDone PROVE ManagerInv'
  <1>1. CASE BeginShutdown
    <2>1. /\ engine' = "closing" /\ engine = "up"
          /\ UNCHANGED <<pool, configs, creating, objs, connects, strand, ring, sink, hist>>
      BY <1>1 DEF BeginShutdown, Running
    <2>2. Registered(configs, objs, ring, sink, engine', hist.overtaken)
      BY <2>1 DEF ManagerInv, Registered
    <2> QED  BY <2>1, <2>2 DEF ManagerInv
  <1>2. CASE ShutdownDone
    <2>1. /\ engine' = "down" /\ sink' = Cleared(sink)
          /\ UNCHANGED <<pool, configs, creating, objs, connects, strand, ring, hist>>
      BY <1>2 DEF ShutdownDone
    <2>2. Registered(configs, objs, ring, sink', engine', hist.overtaken)
      BY <2>1 DEF ManagerInv, Registered, Cleared
    <2> QED  BY <2>1, <2>2 DEF ManagerInv
  <1> QED  BY <1>1, <1>2

-----------------------------------------------------------------------------
(* The theorems *)

LEMMA InitInv == Init => ManagerInv
  <1> SUFFICES ASSUME Init PROVE ManagerInv
    OBVIOUS
  <1>1. /\ pool = NewPool /\ configs = {} /\ creating = None /\ objs = <<>> /\ connects = {}
        /\ strand = <<>> /\ ring = <<>> /\ sink = NewSink /\ engine = "up"
        /\ hist = [removed |-> {}, asked |-> {}, overtaken |-> FALSE, refused |-> {}, gaveUp |-> {}]
    BY DEF Init
  <1>2. DOMAIN objs = {} /\ objs \in [{} -> ObjRecs]  BY <1>1
  <1>3. hist \in Hists /\ hist.removed = {} /\ hist.overtaken = FALSE  BY <1>1 DEF Hists
  <1>4. Slots(pool, objs, {})
    <2>1. /\ pool.sessions = <<>> /\ pool.free = <<>> /\ pool.next_idx = 0 /\ pool \in PoolRecs
      BY <1>1 DEF NewPool, PoolRecs
    <2>2. size(pool) = 0 /\ Len(pool.sessions) = 0 /\ Len(pool.free) = 0  BY <2>1 DEF size
    <2>3. 0..(0 - 1) = {} /\ 1..0 = {}  OBVIOUS
    <2>4. Cardinality(DOMAIN objs \ {}) = 0  BY <1>2, FS_EmptySet
    <2> QED  BY <1>2, <2>1, <2>2, <2>3, <2>4 DEF Slots
  <1>5. Base(pool, configs, creating, objs, hist.removed)  BY <1>1, <1>2, <1>3, <1>4 DEF Base
  <1>6. Queued(configs, objs, strand, connects)  BY <1>1, <1>2 DEF Queued
  <1>7. Owned(objs, hist.asked) /\ Held(objs)  BY <1>2 DEF Owned, Held
  <1>8. Registered(configs, objs, ring, sink, engine, hist.overtaken)
    BY <1>1, <1>2 DEF Registered, NewSink
  <1>9. AtMostOne(objs, connects, strand, hist.removed, hist.gaveUp)
    BY <1>1, <1>2 DEF AtMostOne
  <1> QED  BY <1>3, <1>5, <1>6, <1>7, <1>8, <1>9 DEF ManagerInv

LEMMA NextInv == ManagerInv /\ [Next]_vars => ManagerInv'
  <1> SUFFICES ASSUME ManagerInv, [Next]_vars PROVE ManagerInv'
    OBVIOUS
  <1>1. CASE CreateBegin  BY <1>1, CreateBeginInv
  <1>2. CASE \E ok \in BOOLEAN : CreateEnd(ok) \/ Drain(ok)  BY <1>2, CreateEndInv, DrainInv
  <1>3. CASE \E h \in Handles : remove_session(h)  BY <1>3, RemoveInv
  <1>4. CASE stop_all \/ \E h \in Handles : send(h) \/ stop_session(h)  BY <1>4, PostsInv
  <1>5. CASE RunStrand
    BY <1>5, RunSendInv, RunStopInv, RunStopAllInv, ReconnectInv DEF RunStrand
  <1>6. CASE \E c \in connects : Connected(c) \/ ConnectFailed(c)
    BY <1>6, ConnectedInv, ConnectFailedInv
  <1>7. CASE \E i \in Ids : TransportDown(i) \/ HandlersGone(i)
    BY <1>7, TransportDownInv, HandlersGoneInv
  <1>8. CASE BeginShutdown \/ ShutdownDone  BY <1>8, OtherInv
  <1>9. CASE \E n \in DOMAIN sink.nodes, ok \in BOOLEAN : CloseNode(n, ok)  BY <1>9, CloseNodeInv
  <1>10. CASE UNCHANGED vars
    <2>1. /\ pool' = pool /\ configs' = configs /\ creating' = creating /\ objs' = objs
          /\ connects' = connects /\ strand' = strand /\ ring' = ring /\ sink' = sink
          /\ engine' = engine /\ hist' = hist
      BY <1>10 DEF vars
    <2> QED  BY <2>1 DEF ManagerInv
  <1> QED  BY <1>1, <1>2, <1>3, <1>4, <1>5, <1>6, <1>7, <1>8, <1>9, <1>10 DEF Next

\* The invariant the theorems below rest on: slots and sessions correspond,
\* what is queued belongs to sessions that have a config, the log meets
\* registered sessions, and connects and reconnects of a session exclude each other.
THEOREM ManagerInvariance == Spec => []ManagerInv
  <1> QED  BY InitInv, NextInv, PTL DEF Spec

\* SessionPool: the slots hold the sessions that were emplaced and not
\* removed, the free list the other slots, each once, for any number of
\* create_session and remove_session calls, stale handles included.
THEOREM SlotsAreExact == Spec => []SlotsExact
  <1>1. ManagerInv => SlotsExact
    <2> SUFFICES ASSUME ManagerInv PROVE SlotsExact
      OBVIOUS
    <2>1. Slots(pool, objs, hist.removed) /\ Base(pool, configs, creating, objs, hist.removed)
      BY DEF ManagerInv, Base
    <2>2. size(pool) = Cardinality(DOMAIN objs \ hist.removed)  BY <2>1 DEF Slots
    <2>3. ToSet(pool.sessions) \ {None} = {objs[i].handle : i \in DOMAIN objs \ hist.removed}
      BY <2>1, PoolHas DEF Base
    <2>4. ToSet(pool.free) = {k \in DOMAIN pool.sessions : pool.sessions[k] = None}
      BY <2>1, PoolHas
    <2> QED  BY <2>2, <2>3, <2>4 DEF SlotsExact, Ids
  <1> QED  BY <1>1, ManagerInvariance, PTL

\* SessionManager::send and stop_session: a task that waited on the strand
\* reaches the session its handle was given for, or none.
THEOREM HandlesAreOwn == Spec => []OwnHandleOnly
  <1>1. ManagerInv => OwnHandleOnly  BY DEF ManagerInv, Owned, OwnHandleOnly, Ids
  <1> QED  BY <1>1, ManagerInvariance, PTL

\* LogFileSink::get_node throws only after a stop_all inside create_session.
THEOREM LogAfterRegistration == Spec => []RegisteredFirst
  <1>1. ManagerInv => RegisteredFirst  BY DEF ManagerInv, Registered, RegisteredFirst
  <1> QED  BY <1>1, ManagerInvariance, PTL

\* reconnect_session and the connection handlers: at most one connect under
\* way for a session, none while it is connected, and one while it is down,
\* in the pool, not stopped and not given up.
THEOREM OneConnect == Spec => []OneConnectInHand
  <1>1. ManagerInv => OneConnectInHand
    <2> SUFFICES ASSUME ManagerInv, NEW i \in Ids
                 PROVE  /\ InHand(i) <= 1 /\ (objs[i].conn /\ ~ objs[i].stopped => InHand(i) = 0)
                        /\ (objs[i].down /\ InPool(i) /\ ~ objs[i].stopped /\ i \notin hist.gaveUp
                              => InHand(i) = 1)
      BY DEF OneConnectInHand
    <2> DEFINE C == {c \in connects : c.id = i}
               K == {k \in DOMAIN strand : strand[k].op = "reconnect" /\ strand[k].handle.id = i}
    <2>1. /\ AtMostOne(objs, connects, strand, hist.removed, hist.gaveUp)
          /\ Slots(pool, objs, hist.removed) /\ strand \in Seq(Tasks) /\ i \in DOMAIN objs
      BY DEF ManagerInv, Base, Queued, Ids
    <2>2. DOMAIN strand = 1..Len(strand)  BY <2>1
    <2>3. InPool(i) <=> i \notin hist.removed  BY <2>1, PoolHas DEF InPool
    <2>4. InHand(i) = Cardinality(C) + Cardinality(K)  BY DEF InHand
    <2>5. C = {} <=> NoConnect(connects, i)  BY DEF NoConnect
    <2>6. K = {} <=> NoneWaits(strand, i)  BY <2>2 DEF NoneWaits, Waits
    <2>7. C = {} \/ \E c : C = {c}
      <3>1. \A c, d \in C : c = d  BY <2>1 DEF AtMostOne
      <3> HIDE DEF C
      <3> QED  BY <3>1
    <2>8. K = {} \/ \E k : K = {k}
      <3>1. \A k, l \in K : k = l  BY <2>1, <2>2 DEF AtMostOne, Waits
      <3> HIDE DEF K
      <3> QED  BY <3>1
    <2>9. C = {} \/ K = {}  BY <2>1, <2>6 DEF AtMostOne
    <2> HIDE DEF C, K
    <2>10. /\ C = {} => Cardinality(C) = 0
           /\ C # {} => Cardinality(C) = 1
      BY <2>7, FS_EmptySet, FS_Singleton
    <2>11. /\ K = {} => Cardinality(K) = 0
           /\ K # {} => Cardinality(K) = 1
      BY <2>8, FS_EmptySet, FS_Singleton
    <2>12. objs[i].conn /\ ~ objs[i].stopped => C = {} /\ K = {}
      BY <2>1, <2>5, <2>6 DEF AtMostOne
    <2>13. objs[i].down /\ InPool(i) /\ ~ objs[i].stopped /\ i \notin hist.gaveUp
             => ~ (C = {} /\ K = {})
      BY <2>1, <2>3, <2>5, <2>6 DEF AtMostOne
    <2> QED  BY <2>4, <2>9, <2>10, <2>11, <2>12, <2>13
  <1> QED  BY <1>1, ManagerInvariance, PTL

\* A step changes no object that is neither in the pool nor held.
LEMMA DeadObject ==
    ASSUME ManagerInv, Next, NEW i \in DOMAIN objs, i \in hist.removed, ~ objs[i].held
    PROVE  objs'[i] = objs[i]
  <1>1. /\ Base(pool, configs, creating, objs, hist.removed)
        /\ Registered(configs, objs, ring, sink, engine, hist.overtaken)
    BY DEF ManagerInv
  <1>2. /\ objs \in [DOMAIN objs -> ObjRecs] /\ DOMAIN objs \subseteq Nat
        /\ IsFiniteSet(DOMAIN objs) /\ DOMAIN objs = 0..(pool.next_idx - 1)
        /\ pool.next_idx \in Nat /\ ring \in Seq(Entries)
    BY <1>1, BaseTypes DEF Registered
  <1>3. i # pool.next_idx  BY <1>2
  <1>4. CASE CreateBegin  BY <1>3, <1>4 DEF CreateBegin, Ids
  <1>5. ASSUME NEW ok \in BOOLEAN, CreateEnd(ok) PROVE objs'[i] = objs[i]
    <2>1. creating.id # i  BY <1>1, <1>5 DEF CreateEnd, Base
    <2> QED  BY <1>5, <2>1 DEF CreateEnd
  <1>6. CASE RunSend
    <2> DEFINE h == Head(strand).handle
               s == get(pool, h)
    <2>1. /\ strand # <<>> /\ Head(strand).op = "send"
          /\ objs' = IF s = None \/ objs[s.id].stopped THEN objs
                     ELSE [objs EXCEPT ![s.id].mail = @ \cup {h.id}]
      BY <1>6 DEF RunSend, RunTask
    <2>2. s = None \/ (s = h /\ h.id # i)  BY <2>1, HeadFinds
    <2> HIDE DEF s, h
    <2> QED  BY <2>1, <2>2
  <1>7. ASSUME NEW S \in SUBSET DOMAIN objs, i \notin S, StopThese(S)
        PROVE  objs'[i] = objs[i]
    BY <1>7 DEF StopThese, Log, Ids
  <1>8. CASE RunStop
    <2> DEFINE h == Head(strand).handle
               S == {get(pool, h).id} \cap Ids
    <2>1. strand # <<>> /\ Head(strand).op = "stop" /\ StopThese(S)
      BY <1>8 DEF RunStop, RunTask
    <2>2. get(pool, h) = None \/ (get(pool, h) = h /\ h.id # i)  BY <2>1, HeadFinds
    <2>3. i \notin S /\ S \in SUBSET DOMAIN objs  BY <1>2, <2>2, NoneIsNone DEF Ids
    <2> HIDE DEF S
    <2> QED  BY <1>7, <2>1, <2>3
  <1>9. CASE RunStopAll
    <2> DEFINE S == {h.id : h \in get_all(pool)}
    <2>1. StopThese(S)  BY <1>9 DEF RunStopAll
    <2>2. ToSet(pool.sessions) \ {None} = {objs[j].handle : j \in DOMAIN objs \ hist.removed}
      BY <1>1, PoolHas DEF Base
    <2>3. get_all(pool) \subseteq ToSet(pool.sessions) \ {None}  BY DEF get_all
    <2>4. \A j \in DOMAIN objs : objs[j].handle.id = j  BY <1>1, BaseTypes
    <2>5. i \notin S /\ S \in SUBSET DOMAIN objs  BY <2>2, <2>3, <2>4
    <2> HIDE DEF S
    <2> QED  BY <1>7, <2>1, <2>5
  <1>10. ASSUME NEW c \in connects, Connected(c) \/ ConnectFailed(c) PROVE objs'[i] = objs[i]
    <2>1. CASE c.id = i
      <3>1. ~ Alive(i)  BY <2>1, ConnectKnown DEF Alive
      <3> QED  BY <1>10, <2>1, <3>1 DEF Connected, ConnectFailed
    <2>2. CASE c.id # i  BY <1>10, <2>2 DEF Connected, ConnectFailed, Log
    <2> QED  BY <2>1, <2>2
  <1>11. ASSUME NEW j \in Ids, TransportDown(j) \/ HandlersGone(j) PROVE objs'[i] = objs[i]
    <2>1. objs[j].held  BY <1>11 DEF TransportDown, HandlersGone, ManagerInv, Held, Ids
    <2>2. j # i  BY <2>1
    <2> QED  BY <1>11, <2>2 DEF TransportDown, HandlersGone, Log
  <1>12. CASE \/ \E ok \in BOOLEAN : Drain(ok)
              \/ \E h \in Handles : remove_session(h) \/ send(h) \/ stop_session(h)
              \/ stop_all \/ reconnect_session_impl_ \/ BeginShutdown \/ ShutdownDone
              \/ \E n \in DOMAIN sink.nodes, ok \in BOOLEAN : CloseNode(n, ok)
    BY <1>12 DEF Drain, remove_session, send, stop_session, stop_all, Post,
                 reconnect_session_impl_, BeginShutdown, ShutdownDone, CloseNode
  <1> QED
    BY <1>4, <1>5, <1>6, <1>8, <1>9, <1>10, <1>11, <1>12 DEF Next, RunStrand

\* Sessions are removed for good.
LEMMA RemovedStay ==
    ASSUME ManagerInv, Next PROVE hist.removed \subseteq hist'.removed
  <1>1. hist \in Hists  BY DEF ManagerInv
  <1>2. ASSUME NEW ok, NEW n, Refusal(ok, n) PROVE hist'.removed = hist.removed
    BY <1>1, <1>2 DEF Refusal, Hists
  <1>3. CASE \E ok \in BOOLEAN : CreateEnd(ok) \/ Drain(ok)
    BY <1>2, <1>3 DEF CreateEnd, Drain
  <1>4. CASE \E n \in DOMAIN sink.nodes, ok \in BOOLEAN : CloseNode(n, ok)
    BY <1>2, <1>4 DEF CloseNode
  <1>5. CASE RunStop \/ RunStopAll \/ \E c \in connects : ConnectFailed(c)
    BY <1>1, <1>5 DEF RunStop, RunStopAll, ConnectFailed, Hists
  <1>6. CASE \E h \in Handles : remove_session(h)
    BY <1>1, <1>6 DEF remove_session, Hists
  <1>7. CASE \/ CreateBegin \/ stop_all \/ RunSend \/ reconnect_session_impl_
             \/ BeginShutdown \/ ShutdownDone
             \/ \E h \in Handles : send(h) \/ stop_session(h)
             \/ \E c \in connects : Connected(c)
             \/ \E j \in Ids : TransportDown(j) \/ HandlersGone(j)
    BY <1>7 DEF CreateBegin, stop_all, RunSend, reconnect_session_impl_, BeginShutdown,
                ShutdownDone, send, stop_session, Post, Connected, TransportDown, HandlersGone
  <1> QED  BY <1>3, <1>4, <1>5, <1>6, <1>7 DEF Next, RunStrand

\* SessionManager's handlers hold a weak_ptr: once a Session is out of the
\* pool and no handler holds it, no step of any thread changes it.
THEOREM DeadSessions == Spec => DeadStaysDead
  <1> DEFINE Dead == \A i \in Ids : ~ InPool(i) /\ ~ objs[i].held => objs'[i] = objs[i] /\ ~ InPool(i)'
  <1>1. ManagerInv /\ ManagerInv' /\ [Next]_vars => [Dead]_vars
    <2> SUFFICES ASSUME ManagerInv, ManagerInv', Next, NEW i \in Ids, ~ InPool(i), ~ objs[i].held
                 PROVE  objs'[i] = objs[i] /\ ~ InPool(i)'
      OBVIOUS
    <2>1. i \in DOMAIN objs /\ Slots(pool, objs, hist.removed)  BY DEF ManagerInv, Base, Ids
    <2>2. i \in hist.removed  BY <2>1, PoolHas DEF InPool
    <2>3. objs'[i] = objs[i]  BY <2>1, <2>2, DeadObject
    <2>4. i \in hist'.removed  BY <2>2, RemovedStay
    <2>5. Slots(pool', objs', hist'.removed)  BY DEF ManagerInv, Base
    <2>6. i \in DOMAIN objs'  BY <2>4, <2>5 DEF Slots
    <2>7. ~ \E h \in ToSet(pool'.sessions) : h.id = i  BY <2>4, <2>5, <2>6, PoolHas
    <2>8. ~ InPool(i)'  BY <2>7 DEF InPool
    <2> QED  BY <2>3, <2>8
  <1> QED  BY <1>1, ManagerInvariance, PTL DEF Spec, DeadStaysDead

-----------------------------------------------------------------------------
(* The LRU list while no more sessions are registered than files may be open *)

NodeRecs == [open : BOOLEAN, in_lru : BOOLEAN, iterator : Nat, first_write : BOOLEAN]

CellRecs == [cell : Nat, id : Nat]

Listed(s) == {n \in DOMAIN s.nodes : s.nodes[n].in_lru}

\* Nodes in the list are found there by their iterators, the count is that
\* of the list, and a node is in the list from its opening on; C are the
\* nodes shutdown has closed.
Lru(s, C) ==
    /\ SinkDom(s) /\ IsFiniteSet(DOMAIN s.nodes) /\ DOMAIN s.nodes \subseteq Nat
    /\ s.nodes \in [DOMAIN s.nodes -> NodeRecs] /\ s.lru \in Seq(CellRecs)
    /\ DOMAIN s.files = DOMAIN s.nodes
    /\ s.count = Cardinality(Listed(s)) /\ Len(s.lru) = s.count
    /\ \A n \in Listed(s) : \E k \in 1..Len(s.lru) : s.lru[k].cell = s.nodes[n].iterator
    /\ \A j, k \in 1..Len(s.lru) : s.lru[j].cell = s.lru[k].cell => j = k
    /\ \A n \in DOMAIN s.nodes : /\ s.nodes[n].open => s.nodes[n].in_lru
                                 /\ s.nodes[n].in_lru /\ ~ s.nodes[n].open => n \in C

\* The cell of a node has its session.
Named(s) ==
    \A n \in Listed(s), k \in 1..Len(s.lru) :
      s.lru[k].cell = s.nodes[n].iterator => s.lru[k].id = n

LEMMA MinOf ==
    ASSUME NEW T \in SUBSET Nat, T # {}
    PROVE  Min(T) \in T /\ \A y \in T : Min(T) <= y
  <1>1. \E n \in T : \A m \in T : n <= m  BY LeastNatural
  <1> QED  BY <1>1 DEF Min

LEMMA CellOfIs ==
    ASSUME NEW s, s.lru \in Seq(CellRecs), NEW n
    PROVE  /\ CellOf(s, n) \in 0..Len(s.lru)
           /\ CellOf(s, n) # 0 => s.lru[CellOf(s, n)].cell = s.nodes[n].iterator
           /\ (\E k \in 1..Len(s.lru) : s.lru[k].cell = s.nodes[n].iterator) => CellOf(s, n) # 0
  <1> DEFINE I == {i \in 1..Len(s.lru) : s.lru[i].cell = s.nodes[n].iterator}
  <1>1. CellOf(s, n) = IF I # {} THEN Min(I) ELSE 0  BY DEF CellOf, SelectInSeq
  <1>2. I \in SUBSET Nat /\ Len(s.lru) \in Nat  OBVIOUS
  <1>3. I # {} => Min(I) \in I  BY <1>2, MinOf
  <1> QED  BY <1>1, <1>2, <1>3

LEMMA FreshCellIs ==
    ASSUME NEW s, IsFiniteSet(DOMAIN s.nodes), s.nodes \in [DOMAIN s.nodes -> NodeRecs],
           s.lru \in Seq(CellRecs)
    PROVE  /\ FreshCell(s) \in Nat
           /\ \A k \in 1..Len(s.lru) : s.lru[k].cell # FreshCell(s)
           /\ \A n \in DOMAIN s.nodes : s.nodes[n].iterator # FreshCell(s)
  <1> DEFINE A == {s.lru[i].cell : i \in DOMAIN s.lru}
             B == {s.nodes[n].iterator : n \in DOMAIN s.nodes}
             used == A \cup B
             N == 1..(Cardinality(used) + 1)
             f == [i \in DOMAIN s.lru |-> s.lru[i].cell]
             g == [n \in DOMAIN s.nodes |-> s.nodes[n].iterator]
  <1>1. FreshCell(s) = Min(N \ used)  BY DEF FreshCell
  <1>2. DOMAIN s.lru = 1..Len(s.lru) /\ Len(s.lru) \in Nat  OBVIOUS
  <1>3. IsFiniteSet(DOMAIN s.lru)
    <2>1. 1 \in Int /\ Len(s.lru) \in Int  BY <1>2
    <2>2. IsFiniteSet(1..Len(s.lru))  BY <2>1, FS_Interval
    <2> QED  BY <1>2, <2>2
  <1>4. f \in Surjection(DOMAIN s.lru, A) /\ g \in Surjection(DOMAIN s.nodes, B)
    BY DEF Surjection
  <1> HIDE DEF f, g
  <1>5. IsFiniteSet(A) /\ IsFiniteSet(B)
    <2>1. IsFiniteSet(A)  BY <1>3, <1>4, FS_Surjection
    <2>2. IsFiniteSet(B)  BY <1>4, FS_Surjection
    <2> QED  BY <2>1, <2>2
  <1>6. IsFiniteSet(used) /\ Cardinality(used) \in Nat
    <2> HIDE DEF A, B
    <2> QED  BY <1>5, FS_Union, FS_CardinalityType
  <1>7. N \ used # {}
    <2> HIDE DEF used
    <2>1. SUFFICES ASSUME N \subseteq used PROVE FALSE  OBVIOUS
    <2>2. Cardinality(N) <= Cardinality(used)  BY <1>6, <2>1, FS_Subset
    <2>3. Cardinality(N) = Cardinality(used) + 1
      <3>1. 1 \in Int /\ Cardinality(used) + 1 \in Int /\ ~ (1 > Cardinality(used) + 1)  BY <1>6
      <3>2. Cardinality(N) = (Cardinality(used) + 1) - 1 + 1  BY <3>1, FS_Interval
      <3> QED  BY <1>6, <3>2
    <2> QED  BY <1>6, <2>2, <2>3
  <1>8. N \ used \in SUBSET Nat  BY <1>6
  <1>9. Min(N \ used) \in N \ used  BY <1>7, <1>8, MinOf
  <1> QED  BY <1>1, <1>2, <1>8, <1>9

\* splice moves a cell to the front.
LEMMA MovedFront ==
    ASSUME NEW T, NEW q \in Seq(T), NEW k \in 1..Len(q)
    PROVE  LET m == <<q[k]>> \o RemoveAt(q, k)
           IN  /\ m \in Seq(T) /\ Len(m) = Len(q) /\ m[1] = q[k]
               /\ \A j \in 2..Len(q) : m[j] = IF j <= k THEN q[j - 1] ELSE q[j]
  <1> DEFINE a == SubSeq(q, 1, k - 1)
             b == SubSeq(q, k + 1, Len(q))
             r == a \o b
             m == <<q[k]>> \o r
  <1>1. RemoveAt(q, k) = r  BY DEF RemoveAt
  <1>2. /\ Len(q) \in Nat /\ k \in Nat /\ q[k] \in T
    OBVIOUS
  <1>3. /\ a \in Seq(T) /\ Len(a) = k - 1 /\ \A j \in 1..(k - 1) : a[j] = q[j]
    BY <1>2
  <1>4. /\ b \in Seq(T) /\ Len(b) = Len(q) - k /\ \A j \in 1..(Len(q) - k) : b[j] = q[k + j]
    BY <1>2
  <1> HIDE DEF a, b
  <1>5. /\ r \in Seq(T) /\ Len(r) = Len(q) - 1
        /\ \A j \in 1..Len(r) : r[j] = IF j <= k - 1 THEN a[j] ELSE b[j - (k - 1)]
    <2>0. a \in Seq(T) /\ b \in Seq(T)  BY <1>3, <1>4
    <2>1. r \in Seq(T) /\ Len(r) = Len(a) + Len(b)  BY <2>0, ConcatProperties
    <2>2. \A j \in 1..(Len(a) + Len(b)) : r[j] = IF j <= Len(a) THEN a[j] ELSE b[j - Len(a)]
      BY <2>0, ConcatProperties
    <2> HIDE DEF r
    <2> QED  BY <1>2, <1>3, <1>4, <2>1, <2>2
  <1>6. \A j \in 1..Len(r) : r[j] = IF j <= k - 1 THEN q[j] ELSE q[j + 1]
    <2> SUFFICES ASSUME NEW j \in 1..Len(r)
                 PROVE  r[j] = IF j <= k - 1 THEN q[j] ELSE q[j + 1]
      OBVIOUS
    <2>1. CASE j <= k - 1  BY <1>3, <1>5, <2>1
    <2>2. CASE ~ (j <= k - 1)
      <3>1. j - (k - 1) \in 1..(Len(q) - k) /\ k + (j - (k - 1)) = j + 1  BY <1>2, <1>5, <2>2
      <3> QED  BY <1>4, <1>5, <2>2, <3>1
    <2> QED  BY <2>1, <2>2
  <1> HIDE DEF r
  <1>7. /\ m \in Seq(T) /\ Len(m) = Len(q) /\ m[1] = q[k]
        /\ \A j \in 2..Len(q) : m[j] = r[j - 1]
    BY <1>2, <1>5
  <1> HIDE DEF m
  <1>8. ASSUME NEW j \in 2..Len(q) PROVE m[j] = IF j <= k THEN q[j - 1] ELSE q[j]
    <2>1. j - 1 \in 1..Len(r) /\ (j - 1 <= k - 1 <=> j <= k) /\ j - 1 + 1 = j  BY <1>2, <1>5
    <2> QED  BY <1>6, <1>7, <2>1
  <1> QED  BY <1>1, <1>7, <1>8 DEF m

\* What ensure_open does for node n: nothing if the file is not opened, and
\* else the node is open and in the list.  Nobody else's node changes.
Opened(s, t, n, C) ==
    /\ Lru(t, C) /\ t.fault = s.fault /\ t.files = s.files /\ DOMAIN t.nodes = DOMAIN s.nodes
    /\ \A m \in DOMAIN s.nodes : m # n => t.nodes[m] = s.nodes[m]
    /\ t.nodes[n].first_write = s.nodes[n].first_write
    /\ s.nodes[n].open => t.nodes[n].open

LEMMA TouchListed ==
    ASSUME NEW s, NEW C, Lru(s, C), NEW n \in Listed(s), NEW id
    PROVE  Opened(s, touch(s, id, n), n, C) /\ (Named(s) => Named(touch(s, id, n)))
  <1> DEFINE k == CellOf(s, n)
             q == s.lru
             m == <<q[k]>> \o RemoveAt(q, k)
             t == [s EXCEPT !.lru = m]
  <1>1. /\ q \in Seq(CellRecs) /\ SinkDom(s) /\ Len(q) \in Nat
        /\ \E j \in 1..Len(q) : q[j].cell = s.nodes[n].iterator
    BY DEF Lru
  <1>2. k \in 1..Len(q)
    <2>1. k \in 0..Len(q) /\ k # 0  BY <1>1, CellOfIs
    <2> QED  BY <1>1, <2>1
  <1>3. touch(s, id, n) = t  BY <1>2 DEF touch, Listed
  <1> HIDE DEF k
  <1>4. /\ m \in Seq(CellRecs) /\ Len(m) = Len(q) /\ m[1] = q[k]
        /\ \A j \in 2..Len(q) : m[j] = IF j <= k THEN q[j - 1] ELSE q[j]
    BY <1>1, <1>2, MovedFront
  <1> HIDE DEF m
  <1> DEFINE at(j) == IF j = 1 THEN k ELSE IF j <= k THEN j - 1 ELSE j
             from(j) == IF j = k THEN 1 ELSE IF j < k THEN j + 1 ELSE j
  <1>5. \A j \in 1..Len(q) : at(j) \in 1..Len(q) /\ m[j] = q[at(j)]
    BY <1>1, <1>2, <1>4
  <1>6. \A i, j \in 1..Len(q) : at(i) = at(j) => i = j  BY <1>1, <1>2
  <1>7. \A j \in 1..Len(q) : from(j) \in 1..Len(q) /\ at(from(j)) = j  BY <1>1, <1>2
  <1> HIDE DEF at, from
  <1>8. \A j \in 1..Len(q) : m[from(j)] = q[j]  BY <1>5, <1>7
  <1>9. /\ SinkDom(t) /\ t.nodes = s.nodes /\ t.files = s.files /\ t.count = s.count
        /\ t.fault = s.fault /\ t.lru = m
    BY <1>1 DEF SinkDom
  <1> HIDE DEF t
  <1>10. Listed(t) = Listed(s)  BY <1>9 DEF Listed
  <1>11. ASSUME NEW j \in Listed(s) PROVE \E i \in 1..Len(m) : m[i].cell = s.nodes[j].iterator
    <2>1. PICK i \in 1..Len(q) : q[i].cell = s.nodes[j].iterator  BY DEF Lru
    <2> QED  BY <1>4, <1>7, <1>8, <2>1
  <1>12. ASSUME NEW i \in 1..Len(m), NEW j \in 1..Len(m), m[i].cell = m[j].cell PROVE i = j
    <2>0. /\ at(i) \in 1..Len(q) /\ at(j) \in 1..Len(q) /\ q[at(i)].cell = q[at(j)].cell
      BY <1>4, <1>5, <1>12
    <2>1. at(i) = at(j)  BY <2>0 DEF Lru
    <2> QED  BY <1>4, <1>6, <2>1
  <1>13. Lru(t, C)  BY <1>4, <1>9, <1>10, <1>11, <1>12 DEF Lru
  <1>14. Named(s) => Named(t)
    BY <1>4, <1>5, <1>9, <1>10 DEF Named
  <1> QED  BY <1>3, <1>9, <1>13, <1>14 DEF Opened

\* No cell of the list is f, and no iterator points to f.
Unused(s, f) ==
    /\ \A k \in 1..Len(s.lru) : s.lru[k].cell # f
    /\ \A m \in DOMAIN s.nodes : s.nodes[m].iterator # f

\* t is s with node n opened and put in front of the list, in cell f.
PutInFront(s, t, n, f, id) ==
    /\ SinkDom(t) /\ t.lru = <<[cell |-> f, id |-> id]>> \o s.lru
    /\ t.count = s.count + 1 /\ t.files = s.files /\ t.fault = s.fault
    /\ t.nodes \in [DOMAIN s.nodes -> NodeRecs]
    /\ \A m \in DOMAIN s.nodes : m # n => t.nodes[m] = s.nodes[m]
    /\ t.nodes[n].open /\ t.nodes[n].in_lru /\ t.nodes[n].iterator = f
    /\ t.nodes[n].first_write = s.nodes[n].first_write

LEMMA NewInList ==
    ASSUME NEW s, NEW C, Lru(s, C), NEW n \in DOMAIN s.nodes \ Listed(s), NEW id \in Nat,
           NEW f \in Nat, Unused(s, f), NEW t, PutInFront(s, t, n, f, id)
    PROVE  Opened(s, t, n, C) /\ (Named(s) /\ id = n => Named(t))
  <1> DEFINE q == s.lru
             c == [cell |-> f, id |-> id]
             m == <<c>> \o q
  <1> SUFFICES
        ASSUME \A k \in 1..Len(s.lru) : s.lru[k].cell # f,
               \A j \in DOMAIN s.nodes : s.nodes[j].iterator # f,
               SinkDom(t), t.lru = <<[cell |-> f, id |-> id]>> \o s.lru,
               t.count = s.count + 1, t.files = s.files, t.fault = s.fault,
               t.nodes \in [DOMAIN s.nodes -> NodeRecs],
               \A j \in DOMAIN s.nodes : j # n => t.nodes[j] = s.nodes[j],
               t.nodes[n].open, t.nodes[n].in_lru, t.nodes[n].iterator = f,
               t.nodes[n].first_write = s.nodes[n].first_write
        PROVE  Opened(s, t, n, C) /\ (Named(s) /\ id = n => Named(t))
    BY DEF Unused, PutInFront
  <1>1. q \in Seq(CellRecs) /\ Len(q) \in Nat /\ c \in CellRecs /\ c.cell = f /\ c.id = id
    BY DEF Lru, CellRecs
  <1> HIDE DEF c
  <1>2. /\ m \in Seq(CellRecs) /\ Len(m) = Len(q) + 1 /\ m[1] = c
        /\ \A j \in 1..Len(q) : m[j + 1] = q[j]
    BY <1>1
  <1>3. t.lru = m  BY DEF c
  <1> HIDE DEF m
  <1>4. \A j \in 1..Len(m) : j = 1 \/ (j - 1 \in 1..Len(q) /\ m[j] = q[j - 1])
    <2> SUFFICES ASSUME NEW j \in 1..Len(m), j # 1
                 PROVE  j - 1 \in 1..Len(q) /\ m[j] = q[j - 1]
      OBVIOUS
    <2>1. j - 1 \in 1..Len(q) /\ (j - 1) + 1 = j
      <3>1. Len(m) = Len(q) + 1 /\ Len(q) \in Nat  BY <1>1, <1>2
      <3> QED  BY <3>1
    <2> QED  BY <1>2, <2>1
  <1>5. DOMAIN t.nodes = DOMAIN s.nodes  OBVIOUS
  <1>6. Listed(t) = Listed(s) \cup {n} /\ n \notin Listed(s)  BY <1>5 DEF Listed
  <1>7. Cardinality(Listed(t)) = Cardinality(Listed(s)) + 1
    <2>1. IsFiniteSet(Listed(s))
      <3>1. Listed(s) \subseteq DOMAIN s.nodes /\ IsFiniteSet(DOMAIN s.nodes)  BY DEF Listed, Lru
      <3> QED  BY <3>1, FS_Subset
    <2> QED  BY <1>6, <2>1, FS_AddElement
  <1>8. ASSUME NEW i \in Listed(t) PROVE \E j \in 1..Len(m) : m[j].cell = t.nodes[i].iterator
    <2>1. CASE i = n
      <3>1. 1 \in 1..Len(m) /\ m[1].cell = t.nodes[n].iterator  BY <1>1, <1>2
      <3> QED  BY <2>1, <3>1
    <2>2. CASE i # n
      <3>1. i \in Listed(s) /\ t.nodes[i] = s.nodes[i]  BY <1>6, <2>2 DEF Listed
      <3>2. PICK j \in 1..Len(q) : q[j].cell = s.nodes[i].iterator  BY <3>1 DEF Lru
      <3>3. j + 1 \in 1..Len(m)  BY <1>1, <1>2
      <3> QED  BY <1>2, <3>1, <3>2, <3>3
    <2> QED  BY <2>1, <2>2
  <1>9. ASSUME NEW i \in 1..Len(m), NEW j \in 1..Len(m), m[i].cell = m[j].cell PROVE i = j
    <2>1. CASE i = 1 /\ j = 1  BY <2>1
    <2>0. \A x \in 1..Len(m) : x # 1 => m[x].cell # f  BY <1>4
    <2>2. CASE i = 1 /\ j # 1  BY <1>1, <1>2, <1>9, <2>0, <2>2
    <2>3. CASE i # 1 /\ j = 1  BY <1>1, <1>2, <1>9, <2>0, <2>3
    <2>4. CASE i # 1 /\ j # 1
      <3>1. i - 1 \in 1..Len(q) /\ j - 1 \in 1..Len(q) /\ q[i - 1].cell = q[j - 1].cell
        BY <1>4, <1>9, <2>4
      <3>2. i - 1 = j - 1  BY <3>1 DEF Lru
      <3> QED  BY <3>2
    <2> QED  BY <2>1, <2>2, <2>3, <2>4
  <1>10. Lru(t, C)
    <2>1. /\ IsFiniteSet(DOMAIN t.nodes) /\ DOMAIN t.nodes \subseteq Nat
          /\ t.nodes \in [DOMAIN t.nodes -> NodeRecs] /\ DOMAIN t.files = DOMAIN t.nodes
      BY <1>5 DEF Lru
    <2>2. t.count = Cardinality(Listed(t)) /\ Len(m) = t.count  BY <1>2, <1>7 DEF Lru
    <2>3. \A i \in DOMAIN t.nodes : /\ t.nodes[i].open => t.nodes[i].in_lru
                                    /\ t.nodes[i].in_lru /\ ~ t.nodes[i].open => i \in C
      BY <1>5 DEF Lru
    <2>4. /\ t.lru \in Seq(CellRecs) /\ Len(t.lru) = t.count
          /\ \A i \in Listed(t) : \E j \in 1..Len(t.lru) : t.lru[j].cell = t.nodes[i].iterator
          /\ \A i, j \in 1..Len(t.lru) : t.lru[i].cell = t.lru[j].cell => i = j
      BY <1>2, <1>3, <1>8, <1>9, <2>2
    <2> QED  BY <2>1, <2>2, <2>3, <2>4 DEF Lru
  <1>11. ASSUME Named(s), id = n PROVE Named(t)
    <2>1. ASSUME NEW i \in Listed(t), NEW j \in 1..Len(m), m[j].cell = t.nodes[i].iterator
          PROVE  m[j].id = i
      <3>1. CASE i = n /\ j = 1  BY <1>1, <1>2, <1>11, <3>1
      <3>2. CASE i = n /\ j # 1  BY <1>4, <2>1, <3>2
      <3>3. CASE i # n
        <4>1. i \in Listed(s) /\ t.nodes[i] = s.nodes[i]  BY <1>6, <3>3 DEF Listed
        <4>2. s.nodes[i].iterator # f  BY <4>1 DEF Listed
        <4>3. j # 1  BY <1>1, <1>2, <2>1, <4>1, <4>2
        <4>4. j - 1 \in 1..Len(q) /\ m[j] = q[j - 1]  BY <1>4, <4>3
        <4> QED  BY <1>11, <2>1, <4>1, <4>4 DEF Named
      <3> QED  BY <3>1, <3>2, <3>3
    <2> QED  BY <1>3, <2>1 DEF Named
  <1> QED  BY <1>5, <1>10, <1>11 DEF Opened

\* With no more nodes than files that may be open, ensure_open evicts nobody.
LEMMA OpensNode ==
    ASSUME NEW s, NEW C, Lru(s, C), s.fault = "none", NEW n \in DOMAIN s.nodes \ C,
           Cardinality(DOMAIN s.nodes) <= MAX_LRU_CACHE_SIZE, NEW id \in Nat, NEW ok \in BOOLEAN
    PROVE  LET t == ensure_open(s, id, n, ok)
           IN  /\ Opened(s, t, n, C) /\ (ok => t.nodes[n].open)
               /\ Named(s) /\ id = n => Named(t)
  <1> DEFINE t == ensure_open(s, id, n, ok)
  <1>1. s.nodes[n] \in NodeRecs /\ SinkDom(s)  BY DEF Lru
  <1>2. CASE s.nodes[n].open
    <2>1. t = touch(s, id, n) /\ n \in Listed(s)  BY <1>2 DEF ensure_open, Lru, Listed
    <2>2. Opened(s, t, n, C) /\ (Named(s) => Named(t))  BY <2>1, TouchListed
    <2>3. t.nodes[n].open  BY <1>2, <2>2 DEF Opened
    <2> QED  BY <2>2, <2>3
  <1>3. CASE ~ s.nodes[n].open
    <2>1. ~ s.nodes[n].in_lru /\ n \notin Listed(s)  BY <1>3 DEF Lru, Listed
    <2>2. s.count < MAX_LRU_CACHE_SIZE /\ s.count \in Nat
      <3> DEFINE D == DOMAIN s.nodes
      <3>1. IsFiniteSet(D) /\ s.count = Cardinality(Listed(s))  BY DEF Lru
      <3>2. Listed(s) \subseteq D \ {n}  BY <2>1 DEF Listed
      <3>3. IsFiniteSet(D \ {n}) /\ Cardinality(D \ {n}) = Cardinality(D) - 1 /\ Cardinality(D) \in Nat
        BY <3>1, FS_RemoveElement, FS_CardinalityType
      <3>4. IsFiniteSet(Listed(s)) /\ Cardinality(Listed(s)) <= Cardinality(D \ {n})
        BY <3>2, <3>3, FS_Subset
      <3>5. Cardinality(Listed(s)) \in Nat  BY <3>4, FS_CardinalityType
      <3> QED  BY <3>1, <3>3, <3>4, <3>5, SinkAssumption
    <2>3. ~ (s.count >= MAX_LRU_CACHE_SIZE)  BY <2>2, SinkAssumption
    <2>4. CASE ~ ok
      <3>1. t = s  BY <1>3, <2>3, <2>4 DEF ensure_open
      <3>2. Opened(s, s, n, C)  BY DEF Opened
      <3> QED  BY <2>4, <3>1, <3>2
    <2>5. CASE ok
      <3> DEFINE x == [s.nodes[n] EXCEPT !.open = TRUE]
                 v == [s EXCEPT !.nodes = [s.nodes EXCEPT ![n] = x], !.count = @ + 1]
                 f == FreshCell(v)
                 y == [x EXCEPT !.iterator = f, !.in_lru = TRUE]
                 w == [v EXCEPT !.lru = <<[cell |-> f, id |-> id]>> \o @,
                                !.nodes = [v.nodes EXCEPT ![n] = y]]
      <3>1. /\ x \in NodeRecs /\ ~ x.in_lru /\ x.open
            /\ x.first_write = s.nodes[n].first_write /\ x.iterator = s.nodes[n].iterator
        BY <1>1, <2>1 DEF NodeRecs
      <3>2. ensure_open(s, id, n, ok) = touch(v, id, n)
        BY <1>1, <1>3, <2>3, <2>5 DEF ensure_open, SinkDom
      <3> HIDE DEF x
      <3>3. /\ SinkDom(v) /\ v.nodes = [s.nodes EXCEPT ![n] = x] /\ v.lru = s.lru
            /\ v.count = s.count + 1 /\ v.files = s.files /\ v.fault = s.fault
        BY <1>1 DEF SinkDom
      <3>4. /\ v.nodes \in [DOMAIN s.nodes -> NodeRecs] /\ DOMAIN v.nodes = DOMAIN s.nodes
            /\ v.nodes[n] = x /\ \A m \in DOMAIN s.nodes : m # n => v.nodes[m] = s.nodes[m]
        BY <3>1, <3>3 DEF Lru
      <3> HIDE DEF v
      <3>5. touch(v, id, n) = w
        BY <3>1, <3>3, <3>4 DEF touch, SinkDom
      <3>6. /\ f \in Nat /\ \A k \in 1..Len(s.lru) : s.lru[k].cell # f
            /\ \A m \in DOMAIN s.nodes : v.nodes[m].iterator # f
        BY <3>3, <3>4, FreshCellIs DEF Lru
      <3> HIDE DEF f
      <3>7. \A m \in DOMAIN s.nodes : s.nodes[m].iterator # f  BY <3>1, <3>4, <3>6
      <3>8. /\ y \in NodeRecs /\ y.open /\ y.in_lru /\ y.iterator = f
            /\ y.first_write = s.nodes[n].first_write
        BY <3>1, <3>6 DEF NodeRecs
      <3> HIDE DEF y
      <3>9. /\ SinkDom(w) /\ w.lru = <<[cell |-> f, id |-> id]>> \o s.lru /\ w.count = s.count + 1
            /\ w.files = s.files /\ w.fault = s.fault /\ w.nodes = [v.nodes EXCEPT ![n] = y]
        BY <3>3 DEF SinkDom
      <3> HIDE DEF w
      <3>10. /\ w.nodes \in [DOMAIN s.nodes -> NodeRecs] /\ w.nodes[n] = y
             /\ \A m \in DOMAIN s.nodes : m # n => w.nodes[m] = s.nodes[m]
        BY <3>4, <3>8, <3>9
      <3>11. Opened(s, w, n, C) /\ (Named(s) /\ id = n => Named(w))
        <4>1. /\ w.nodes[n].open /\ w.nodes[n].in_lru /\ w.nodes[n].iterator = f
              /\ w.nodes[n].first_write = s.nodes[n].first_write
          BY <3>8, <3>10
        <4>2. n \in DOMAIN s.nodes \ Listed(s)  BY <2>1
        <4>3. PutInFront(s, w, n, f, id)  BY <3>9, <3>10, <4>1 DEF PutInFront
        <4>4. Unused(s, f)  BY <3>6, <3>7 DEF Unused
        <4> QED  BY <3>6, <4>2, <4>3, <4>4, NewInList
      <3> QED  BY <3>2, <3>5, <3>8, <3>10, <3>11
    <2> QED  BY <2>4, <2>5
  <1> QED  BY <1>2, <1>3

\* Of a node only its stream and first_write change.
SameList(s, t, D) ==
    /\ SinkDom(t) /\ t.lru = s.lru /\ t.count = s.count /\ DOMAIN t.files = DOMAIN s.files
    /\ t.nodes \in [DOMAIN s.nodes -> NodeRecs]
    /\ \A m \in DOMAIN s.nodes :
         /\ t.nodes[m].in_lru = s.nodes[m].in_lru /\ t.nodes[m].iterator = s.nodes[m].iterator
         /\ t.nodes[m].open => s.nodes[m].open
         /\ s.nodes[m].open => t.nodes[m].open \/ m \in D

LEMMA SameListLru ==
    ASSUME NEW s, NEW C, Lru(s, C), NEW D, C \subseteq D, NEW t, SameList(s, t, D)
    PROVE  Lru(t, D) /\ (Named(s) => Named(t))
  <1>1. DOMAIN t.nodes = DOMAIN s.nodes  BY DEF SameList
  <1>2. Listed(t) = Listed(s)  BY <1>1 DEF Listed, SameList
  <1>3. \A n \in Listed(s) : t.nodes[n].iterator = s.nodes[n].iterator  BY DEF Listed, SameList
  <1>4. Lru(t, D)
    <2>1. \A n \in DOMAIN t.nodes : /\ t.nodes[n].open => t.nodes[n].in_lru
                                    /\ t.nodes[n].in_lru /\ ~ t.nodes[n].open => n \in D
      BY <1>1 DEF SameList, Lru
    <2>2. \A n \in Listed(t) : \E k \in 1..Len(t.lru) : t.lru[k].cell = t.nodes[n].iterator
      BY <1>2, <1>3 DEF SameList, Lru
    <2>3. \A j, k \in 1..Len(t.lru) : t.lru[j].cell = t.lru[k].cell => j = k
      BY DEF SameList, Lru
    <2>4. /\ SinkDom(t) /\ IsFiniteSet(DOMAIN t.nodes) /\ DOMAIN t.nodes \subseteq Nat
          /\ t.nodes \in [DOMAIN t.nodes -> NodeRecs] /\ t.lru \in Seq(CellRecs)
          /\ DOMAIN t.files = DOMAIN t.nodes
          /\ t.count = Cardinality(Listed(t)) /\ Len(t.lru) = t.count
      BY <1>1, <1>2 DEF SameList, Lru
    <2> QED  BY <2>1, <2>2, <2>3, <2>4 DEF Lru
  <1>5. Named(s) => Named(t)  BY <1>2, <1>3 DEF Named, SameList
  <1> QED  BY <1>4, <1>5

\* What a call for node n leaves of the others.
OthersSame(s, t, n) ==
    /\ DOMAIN t.nodes = DOMAIN s.nodes /\ t.fault = "none"
    /\ \A m \in DOMAIN s.nodes : m # n => t.nodes[m] = s.nodes[m] /\ t.files[m] = s.files[m]

\* What write does for node n.
Wrote(s, w, n, C, e, ok) ==
    /\ Lru(w, C) /\ OthersSame(s, w, n) /\ (Named(s) => Named(w))
    /\ ~ w.nodes[n].first_write
    /\ ok \/ s.nodes[n].open =>
         /\ w.nodes[n].open
         /\ w.files[n] = Append(s.files[n], [sep   |-> IF s.nodes[n].first_write THEN "[" ELSE ",",
                                            entry |-> e])

LEMMA WritesNode ==
    ASSUME NEW s, NEW C, Lru(s, C), s.fault = "none", NEW n \in DOMAIN s.nodes \ C,
           Cardinality(DOMAIN s.nodes) <= MAX_LRU_CACHE_SIZE, NEW e, NEW ok \in BOOLEAN
    PROVE  Wrote(s, write(s, n, e, ok), n, C, e, ok)
  <1> DEFINE w == write(s, n, e, ok)
             sep == IF s.nodes[n].first_write THEN "[" ELSE ","
             el == [sep |-> sep, entry |-> e]
             t == ensure_open(s, n, n, ok)
             fs == IF t.nodes[n].open THEN [t.files EXCEPT ![n] = Append(@, el)] ELSE t.files
             x == [t.nodes[n] EXCEPT !.first_write = FALSE]
  <1>1. n \in Nat /\ n \in DOMAIN s.nodes  BY DEF Lru
  <1>2. Opened(s, t, n, C) /\ (ok => t.nodes[n].open) /\ (Named(s) => Named(t))
    BY <1>1, OpensNode
  <1>3. /\ Lru(t, C) /\ t.fault = "none" /\ t.files = s.files /\ DOMAIN t.nodes = DOMAIN s.nodes
        /\ SinkDom(t) /\ DOMAIN t.files = DOMAIN s.nodes /\ t.nodes \in [DOMAIN s.nodes -> NodeRecs]
        /\ \A m \in DOMAIN s.nodes : m # n => t.nodes[m] = s.nodes[m]
    BY <1>2 DEF Opened, Lru
  <1>4. w = [Output(t, n, el) EXCEPT !.nodes[n].first_write = FALSE]
    BY <1>1, <1>3 DEF write
  <1> HIDE DEF t, el, w
  <1> DEFINE v == Output(t, n, el)
  <1>5. /\ SinkDom(v) /\ v.files = fs /\ v.nodes = t.nodes /\ v.lru = t.lru /\ v.count = t.count
        /\ v.fault = t.fault
    BY <1>3 DEF Output, SinkDom
  <1> HIDE DEF v
  <1>6. /\ SinkDom(w) /\ w.files = fs /\ w.nodes = [t.nodes EXCEPT ![n] = x] /\ w.lru = t.lru
        /\ w.count = t.count /\ w.fault = "none"
    <2>1. w = [v EXCEPT !.nodes = [v.nodes EXCEPT ![n] = x]]  BY <1>4, <1>5 DEF v, SinkDom
    <2> HIDE DEF x
    <2> QED  BY <1>3, <1>5, <2>1 DEF SinkDom
  <1>7. /\ x \in NodeRecs /\ x.in_lru = t.nodes[n].in_lru /\ x.iterator = t.nodes[n].iterator
        /\ x.open = t.nodes[n].open /\ ~ x.first_write
    BY <1>1, <1>3 DEF NodeRecs
  <1> HIDE DEF x
  <1>8. /\ DOMAIN fs = DOMAIN s.nodes
        /\ \A m \in DOMAIN s.nodes : m # n => fs[m] = s.files[m]
        /\ t.nodes[n].open => fs[n] = Append(s.files[n], el)
    BY <1>1, <1>3
  <1> HIDE DEF fs
  <1>9. /\ w.nodes \in [DOMAIN s.nodes -> NodeRecs] /\ w.nodes[n] = x
        /\ \A m \in DOMAIN s.nodes : m # n => w.nodes[m] = t.nodes[m]
    BY <1>1, <1>3, <1>6, <1>7
  <1>10. SameList(t, w, C)  BY <1>3, <1>6, <1>7, <1>8, <1>9 DEF SameList
  <1>11. Lru(w, C) /\ (Named(s) => Named(w))  BY <1>2, <1>3, <1>10, SameListLru
  <1>12. OthersSame(s, w, n)  BY <1>3, <1>6, <1>8, <1>9 DEF OthersSame
  <1>13. ok \/ s.nodes[n].open => w.nodes[n].open /\ w.files[n] = Append(s.files[n], el)
    BY <1>2, <1>6, <1>7, <1>8, <1>9 DEF Opened
  <1> QED  BY <1>7, <1>9, <1>11, <1>12, <1>13 DEF w, el, Wrote

LEMMA AddsNode ==
    ASSUME NEW s, Lru(s, {}), s.fault = "none", NEW n \in Nat, n \notin DOMAIN s.nodes,
           Cardinality(DOMAIN s.nodes \cup {n}) <= MAX_LRU_CACHE_SIZE, NEW e, NEW ok \in BOOLEAN
    PROVE  LET w == add_session(s, n, e, ok)
           IN  /\ Lru(w, {}) /\ w.fault = "none" /\ DOMAIN w.nodes = DOMAIN s.nodes \cup {n}
               /\ \A m \in DOMAIN s.nodes : w.nodes[m] = s.nodes[m] /\ w.files[m] = s.files[m]
               /\ (Named(s) => Named(w)) /\ ~ w.nodes[n].first_write
               /\ ok => w.nodes[n].open /\ w.files[n] = <<[sep |-> "[", entry |-> e]>>
  <1> DEFINE D == DOMAIN s.nodes \cup {n}
             ns == [m \in D |-> IF m = n THEN create_sink_node ELSE s.nodes[m]]
             fs == [m \in D |-> IF m = n THEN <<>> ELSE s.files[m]]
             t == [s EXCEPT !.nodes = ns, !.files = fs]
             w == write(t, n, e, ok)
  <1>1. /\ SinkDom(s) /\ IsFiniteSet(DOMAIN s.nodes) /\ DOMAIN s.nodes \subseteq Nat
        /\ s.nodes \in [DOMAIN s.nodes -> NodeRecs] /\ DOMAIN s.files = DOMAIN s.nodes
    BY DEF Lru
  <1>2. add_session(s, n, e, ok) = w  BY <1>1 DEF add_session
  <1> DEFINE c == create_sink_node
  <1>3. c \in NodeRecs /\ ~ c.open /\ ~ c.in_lru /\ c.first_write
    BY DEF create_sink_node, NodeRecs
  <1>4. /\ ns \in [D -> NodeRecs] /\ DOMAIN ns = D /\ ns[n] = c /\ fs[n] = <<>> /\ DOMAIN fs = D
        /\ \A m \in DOMAIN s.nodes : ns[m] = s.nodes[m] /\ fs[m] = s.files[m]
    BY <1>1, <1>3
  <1> HIDE DEF ns, fs, c
  <1>5. /\ SinkDom(t) /\ t.nodes = ns /\ t.files = fs /\ t.lru = s.lru /\ t.count = s.count
        /\ t.fault = "none"
    BY <1>1 DEF SinkDom
  <1> HIDE DEF t
  <1>6. Listed(t) = Listed(s)  BY <1>3, <1>4, <1>5 DEF Listed
  <1>7. IsFiniteSet(D)  BY <1>1, FS_AddElement
  <1>8. Lru(t, {})
    <2>1. \A m \in D : /\ ns[m].open => ns[m].in_lru
                       /\ ns[m].in_lru /\ ~ ns[m].open => m \in {}
      BY <1>3, <1>4 DEF Lru
    <2>2. \A m \in Listed(s) : ns[m].iterator = s.nodes[m].iterator  BY <1>4 DEF Listed
    <2>3. \A m \in Listed(t) : \E k \in 1..Len(t.lru) : t.lru[k].cell = t.nodes[m].iterator
      BY <1>5, <1>6, <2>2 DEF Lru
    <2>4. /\ t.lru \in Seq(CellRecs) /\ t.count = Cardinality(Listed(t)) /\ Len(t.lru) = t.count
          /\ \A j, k \in 1..Len(t.lru) : t.lru[j].cell = t.lru[k].cell => j = k
      BY <1>5, <1>6 DEF Lru
    <2>5. D \subseteq Nat  BY <1>1
    <2> QED  BY <1>4, <1>5, <1>7, <2>1, <2>3, <2>4, <2>5 DEF Lru
  <1>9. Named(s) => Named(t)
    <2>1. \A m \in Listed(s) : ns[m].iterator = s.nodes[m].iterator  BY <1>4 DEF Listed
    <2> QED  BY <1>5, <1>6, <2>1 DEF Named
  <1>10. n \in DOMAIN t.nodes \ {} /\ Cardinality(DOMAIN t.nodes) <= MAX_LRU_CACHE_SIZE
    BY <1>4, <1>5
  <1>11. /\ Lru(w, {}) /\ OthersSame(t, w, n) /\ (Named(t) => Named(w))
         /\ ~ w.nodes[n].first_write
         /\ ok => w.nodes[n].open /\ w.files[n] = Append(<<>>, [sep |-> "[", entry |-> e])
    <2>1. t.nodes[n].first_write /\ t.files[n] = <<>>  BY <1>3, <1>4, <1>5
    <2> DEFINE C == {}
    <2>2. Lru(t, C) /\ n \in DOMAIN t.nodes \ C  BY <1>8, <1>10
    <2> HIDE DEF C
    <2>3. Wrote(t, w, n, C, e, ok)  BY <1>5, <1>10, <2>2, WritesNode
    <2> HIDE DEF w
    <2> QED  BY <2>1, <2>3 DEF Wrote, C
  <1> HIDE DEF w
  <1>12. Append(<<>>, [sep |-> "[", entry |-> e]) = <<[sep |-> "[", entry |-> e]>>  OBVIOUS
  <1>13. \A m \in DOMAIN s.nodes : w.nodes[m] = s.nodes[m] /\ w.files[m] = s.files[m]
    BY <1>4, <1>5, <1>11 DEF OthersSame
  <1> QED  BY <1>2, <1>4, <1>5, <1>9, <1>11, <1>12, <1>13 DEF OthersSame

LEMMA ClosesNode ==
    ASSUME NEW s, NEW C, Lru(s, C), s.fault = "none", NEW n \in DOMAIN s.nodes \ C,
           Cardinality(DOMAIN s.nodes) <= MAX_LRU_CACHE_SIZE, NEW ok \in BOOLEAN
    PROVE  LET w == close_file(s, n, ok)
           IN  /\ Lru(w, C \cup {n}) /\ OthersSame(s, w, n)
               /\ s.nodes[n].open /\ ~ s.nodes[n].first_write =>
                    w.files[n] = Append(s.files[n], [sep |-> "]", entry |-> 0])
  <1> DEFINE w == close_file(s, n, ok)
             t == IF s.nodes[n].first_write THEN s ELSE ensure_open(s, DefaultID, n, ok)
             el == [sep |-> "]", entry |-> 0]
             v == IF t.nodes[n].first_write THEN t ELSE Output(t, n, el)
             x == [t.nodes[n] EXCEPT !.open = FALSE]
             fs == IF t.nodes[n].open /\ ~ t.nodes[n].first_write
                   THEN [t.files EXCEPT ![n] = Append(@, el)] ELSE t.files
  <1>1. n \in Nat /\ n \in DOMAIN s.nodes /\ DefaultID \in Nat  BY DEF Lru, DefaultID
  <1>2. Opened(s, t, n, C)
    <2>1. CASE s.nodes[n].first_write  BY <2>1 DEF Opened
    <2>2. CASE ~ s.nodes[n].first_write
      <3>1. t = ensure_open(s, DefaultID, n, ok)  BY <2>2
      <3>2. Opened(s, ensure_open(s, DefaultID, n, ok), n, C)  BY <1>1, OpensNode
      <3> QED  BY <3>1, <3>2
    <2> QED  BY <2>1, <2>2
  <1>3. w = IF t.fault # "none" THEN t ELSE Bracketed(t, n)  BY DEF close_file
  <1> HIDE DEF t, w
  <1>4. /\ Lru(t, C) /\ t.fault = "none" /\ t.files = s.files /\ DOMAIN t.nodes = DOMAIN s.nodes
        /\ SinkDom(t) /\ DOMAIN t.files = DOMAIN s.nodes /\ t.nodes \in [DOMAIN s.nodes -> NodeRecs]
        /\ \A m \in DOMAIN s.nodes : m # n => t.nodes[m] = s.nodes[m]
        /\ t.nodes[n].first_write = s.nodes[n].first_write
        /\ s.nodes[n].open => t.nodes[n].open
    BY <1>2 DEF Opened, Lru
  <1>5. w = [v EXCEPT !.nodes[n].open = FALSE]  BY <1>3, <1>4 DEF Bracketed
  <1> HIDE DEF el
  <1>6. /\ SinkDom(v) /\ v.files = fs /\ v.nodes = t.nodes /\ v.lru = t.lru /\ v.count = t.count
        /\ v.fault = t.fault
    BY <1>4 DEF Output, SinkDom
  <1> HIDE DEF v
  <1>7. /\ SinkDom(w) /\ w.files = fs /\ w.nodes = [t.nodes EXCEPT ![n] = x] /\ w.lru = t.lru
        /\ w.count = t.count /\ w.fault = "none"
    <2>1. w = [v EXCEPT !.nodes = [v.nodes EXCEPT ![n] = x]]  BY <1>5, <1>6 DEF SinkDom
    <2> HIDE DEF x
    <2> QED  BY <1>4, <1>6, <2>1 DEF SinkDom
  <1>8. /\ x \in NodeRecs /\ x.in_lru = t.nodes[n].in_lru /\ x.iterator = t.nodes[n].iterator
        /\ ~ x.open
    BY <1>1, <1>4 DEF NodeRecs
  <1> HIDE DEF x
  <1>9. /\ DOMAIN fs = DOMAIN s.nodes
        /\ \A m \in DOMAIN s.nodes : m # n => fs[m] = s.files[m]
        /\ s.nodes[n].open /\ ~ s.nodes[n].first_write => fs[n] = Append(s.files[n], el)
    BY <1>1, <1>4
  <1> HIDE DEF fs
  <1>10. /\ w.nodes \in [DOMAIN s.nodes -> NodeRecs] /\ w.nodes[n] = x
         /\ \A m \in DOMAIN s.nodes : m # n => w.nodes[m] = t.nodes[m]
    BY <1>1, <1>4, <1>7, <1>8
  <1>11. SameList(t, w, C \cup {n})  BY <1>4, <1>7, <1>8, <1>9, <1>10 DEF SameList
  <1>12. Lru(w, C \cup {n})  BY <1>4, <1>11, SameListLru
  <1>13. OthersSame(s, w, n)  BY <1>4, <1>7, <1>9, <1>10 DEF OthersSame
  <1> QED  BY <1>7, <1>9, <1>12, <1>13 DEF w, el

-----------------------------------------------------------------------------
(* Files and what is on its way to them *)

\* A file with k entries, and one with l entries that is closed.
Part(k) == [j \in 1..k |-> [sep |-> IF j = 1 THEN "[" ELSE ",", entry |-> j]]

Whole(l) == [k \in 1..(l + 1) |-> [sep   |-> IF k = 1 THEN "[" ELSE IF k <= l THEN "," ELSE "]",
                                   entry |-> IF k <= l THEN k ELSE 0]]

LEMMA PartGrows ==
    ASSUME NEW k \in Nat \ {0}
    PROVE  /\ Append(Part(k), [sep |-> ",", entry |-> k + 1]) = Part(k + 1)
           /\ Append(Part(k), [sep |-> "]", entry |-> 0]) = Whole(k)
           /\ <<[sep |-> "[", entry |-> 1]>> = Part(1)
  <1> DEFINE T == [sep : {"[", ",", "]"}, entry : Nat]
             p == Part(k)
             a == [sep |-> ",", entry |-> k + 1]
             b == [sep |-> "]", entry |-> 0]
  <1>0. \A j \in 1..k : [sep |-> IF j = 1 THEN "[" ELSE ",", entry |-> j] \in T  OBVIOUS
  <1>a. a \in T /\ b \in T  OBVIOUS
  <1> HIDE DEF T
  <1>1. p \in [1..k -> T]  BY <1>0 DEF Part
  <1>2. p \in Seq(T) /\ Len(p) = k  BY <1>1
  <1>3. \A j \in 1..k : p[j] = [sep |-> IF j = 1 THEN "[" ELSE ",", entry |-> j]  BY DEF Part
  <1> HIDE DEF p, a, b
  <1>4. DOMAIN Append(p, a) = 1..(k + 1) /\ DOMAIN Append(p, b) = 1..(k + 1)  BY <1>2
  <1>5. ASSUME NEW j \in 1..(k + 1)
        PROVE  /\ Append(p, a)[j] = [sep |-> IF j = 1 THEN "[" ELSE ",", entry |-> j]
               /\ Append(p, b)[j] = [sep   |-> IF j = 1 THEN "[" ELSE IF j <= k THEN "," ELSE "]",
                                     entry |-> IF j <= k THEN j ELSE 0]
    <2>1. CASE j \in 1..k
      <3>1. Append(p, a)[j] = p[j] /\ Append(p, b)[j] = p[j] /\ j <= k  BY <1>2, <1>a, <2>1
      <3> QED  BY <1>3, <2>1, <3>1
    <2>2. CASE j = k + 1
      <3>1. Append(p, a)[j] = a /\ Append(p, b)[j] = b /\ ~ (j <= k) /\ j # 1  BY <1>2, <1>a, <2>2
      <3> QED  BY <2>2, <3>1 DEF a, b
    <2>3. j \in 1..k \/ j = k + 1  OBVIOUS
    <2> QED  BY <2>1, <2>2, <2>3
  <1>6. Append(p, a) = Part(k + 1)
    <2> DEFINE x == Append(p, a)
    <2>0. x \in Seq(T)  BY <1>2, <1>a
    <2>1. x = [j \in DOMAIN x |-> x[j]]
      <3> HIDE DEF x
      <3>1. x \in UNION {[1..n -> T] : n \in Nat}  BY <2>0, SeqDef, Zenon
      <3>2. PICK n \in Nat : x \in [1..n -> T]  BY <3>1, Zenon
      <3> QED  BY <3>2
    <2>2. \A j \in 1..(k + 1) : x[j] = [sep |-> IF j = 1 THEN "[" ELSE ",", entry |-> j]  BY <1>5
    <2>3. DOMAIN x = 1..(k + 1)  BY <1>4
    <2> HIDE DEF x
    <2>4. x = Part(k + 1)  BY <2>1, <2>2, <2>3 DEF Part
    <2> QED  BY <2>4 DEF x
  <1>7. Append(p, b) = Whole(k)
    <2> DEFINE x == Append(p, b)
    <2>0. x \in Seq(T)  BY <1>2, <1>a
    <2>1. x = [j \in DOMAIN x |-> x[j]]
      <3> HIDE DEF x
      <3>1. x \in UNION {[1..n -> T] : n \in Nat}  BY <2>0, SeqDef, Zenon
      <3>2. PICK n \in Nat : x \in [1..n -> T]  BY <3>1, Zenon
      <3> QED  BY <3>2
    <2>2. \A j \in 1..(k + 1) :
            x[j] = [sep   |-> IF j = 1 THEN "[" ELSE IF j <= k THEN "," ELSE "]",
                    entry |-> IF j <= k THEN j ELSE 0]
      BY <1>5
    <2>3. DOMAIN x = 1..(k + 1)  BY <1>4
    <2> HIDE DEF x
    <2>4. x = Whole(k)  BY <2>1, <2>2, <2>3 DEF Whole
    <2> QED  BY <2>4 DEF x
  <1>8. <<[sep |-> "[", entry |-> 1]>> = Part(1)  BY DEF Part
  <1> QED  BY <1>6, <1>7, <1>8 DEF p, a, b

\* The entries of session i that are in the ring are k + 1, ..., l in this order.
Pending(rg, i, k, l) ==
    /\ \A p \in 1..Len(rg) : rg[p].id = i => rg[p].entry \in (k + 1)..l
    /\ \A p, q \in 1..Len(rg) : rg[p].id = i /\ rg[q].id = i /\ p < q => rg[p].entry < rg[q].entry
    /\ \A e \in (k + 1)..l : \E p \in 1..Len(rg) : rg[p].id = i /\ rg[p].entry = e

\* What was logged of session i is in its file or on the way there.
FileOf(o, rg, s, C, i) ==
    \E k \in 1..o[i].logged :
      /\ Pending(rg, i, k, o[i].logged)
      /\ i \notin C => s.nodes[i].open /\ ~ s.nodes[i].first_write /\ s.files[i] = Part(k)
      /\ i \in C => s.files[i] = Whole(k)

\* The ring is t and the objects u after one entry of each of S was logged.
Logs(o, r, u, t, S) ==
    /\ DOMAIN u = DOMAIN o /\ S \subseteq DOMAIN o /\ t \in Seq(Entries) /\ Len(r) <= Len(t)
    /\ \A i \in DOMAIN o : u[i].logged = IF i \in S THEN o[i].logged + 1 ELSE o[i].logged
    /\ \A p \in 1..Len(r) : t[p] = r[p]
    /\ \A p \in 1..Len(t) : p > Len(r) => t[p].id \in S /\ t[p].entry = o[t[p].id].logged + 1
    /\ \A i \in S : \E p \in 1..Len(t) : p > Len(r) /\ t[p].id = i
    /\ \A p, q \in 1..Len(t) : p > Len(r) /\ q > Len(r) /\ t[p].id = t[q].id => p = q

LEMMA LogsOf ==
    ASSUME NEW os, NEW S, NEW r, NEW u, NEW t, LogStep(os, S, r, u, t),
           os \in [DOMAIN os -> ObjRecs], DOMAIN os \subseteq Nat, IsFiniteSet(DOMAIN os),
           S \subseteq DOMAIN os, r \in Seq(Entries),
           NEW o, DOMAIN o = DOMAIN os, \A i \in DOMAIN os : os[i].logged = o[i].logged
    PROVE  Logs(o, r, u, t, S)
  <1> DEFINE D == DOMAIN os
             en(i) == [id |-> i, entry |-> os[i].logged + 1]
             E == {en(i) : i \in S}
             n == Cardinality(E)
  <1>1. t \in Seq(Entries)  BY LogIs
  <1>2. \A i \in D : u[i].logged = IF i \in S THEN o[i].logged + 1 ELSE o[i].logged
    <2>1. ASSUME NEW i \in D PROVE [os[i] EXCEPT !.logged = @ + 1].logged = os[i].logged + 1
      BY DEF ObjRecs
    <2> QED  BY <2>1 DEF LogStep
  <1>3. DOMAIN u = DOMAIN o  BY DEF LogStep
  <1>4. \A i \in S : en(i).id = i /\ en(i).entry = o[i].logged + 1  OBVIOUS
  <1>5. IsFiniteSet(E)
    <2>1. IsFiniteSet(S)  BY FS_Subset
    <2> DEFINE f == [i \in S |-> en(i)]
    <2>2. f \in Surjection(S, E)  BY DEF Surjection
    <2> HIDE DEF f, E
    <2> QED  BY <2>1, <2>2, FS_Surjection
  <1>6. n \in Nat  BY <1>5, FS_CardinalityType
  <1>7. PICK x \in SetToSeqs(E) : t = r \o x  BY DEF LogStep
  <1>8. x \in [1..n -> E] /\ \A i, j \in 1..n : i # j => x[i] # x[j]  BY <1>7 DEF SetToSeqs
  <1> HIDE DEF n
  <1>9. \A e \in E : \E j \in 1..n : x[j] = e
    <2> DEFINE X == {x[j] : j \in 1..n}
    <2>1. X \subseteq E  BY <1>8
    <2>2. x \in Bijection(1..n, X)
      <3>1. x \in [1..n -> X]  BY <1>8
      <3>2. \A i, j \in 1..n : x[i] = x[j] => i = j  BY <1>8
      <3>3. \A y \in X : \E j \in 1..n : x[j] = y  OBVIOUS
      <3> HIDE DEF X
      <3> QED  BY <3>1, <3>2, <3>3 DEF Bijection, Injection, Surjection, IsInjective
    <2> HIDE DEF X, E
    <2>3. IsFiniteSet(1..n) /\ Cardinality(1..n) = n
      <3>1. 1 \in Int /\ n \in Int /\ (1 > n <=> n = 0)  BY <1>6
      <3>2. Cardinality(1..n) = IF 1 > n THEN 0 ELSE n - 1 + 1  BY <3>1, FS_Interval
      <3>3. IsFiniteSet(1..n)  BY <3>1, FS_Interval
      <3> QED  BY <1>6, <3>1, <3>2, <3>3
    <2>4. Cardinality(X) = n
      <3>1. ExistsBijection(1..n, X)  BY <2>2 DEF ExistsBijection
      <3> QED  BY <2>3, <3>1, FS_Bijection
    <2>5. X = E  BY <1>5, <2>1, <2>4, FS_Subset DEF n
    <2> QED  BY <2>5 DEF X
  <1> HIDE DEF E, en
  <1>10. x \in Seq(E) /\ Len(x) = n  BY <1>6, <1>8
  <1>11. /\ Len(t) = Len(r) + n /\ Len(r) \in Nat
         /\ \A p \in 1..Len(r) : t[p] = r[p]
         /\ \A p \in 1..n : t[Len(r) + p] = x[p]
    <2>1. /\ Len(t) = Len(r) + Len(x)
          /\ \A p \in 1..(Len(r) + Len(x)) : t[p] = IF p <= Len(r) THEN r[p] ELSE x[p - Len(r)]
      <3>1. E \subseteq Entries
        <4>1. \A i \in S : os[i].logged \in Nat /\ i \in Nat  BY DEF ObjRecs
        <4> QED  BY <4>1 DEF E, en, Entries
      <3>2. x \in Seq(Entries)  BY <1>10, <3>1
      <3> QED  BY <1>7, <3>2, ConcatProperties
    <2>2. Len(r) \in Nat  OBVIOUS
    <2>3. \A p \in 1..n : Len(r) + p \in 1..(Len(r) + n) /\ ~ (Len(r) + p <= Len(r))
                          /\ (Len(r) + p) - Len(r) = p
      BY <1>6, <2>2
    <2>4. \A p \in 1..Len(r) : p \in 1..(Len(r) + n) /\ p <= Len(r)  BY <1>6, <2>2
    <2> QED  BY <1>10, <2>1, <2>2, <2>3, <2>4
  <1>12. \A p \in 1..Len(t) : p > Len(r) => p - Len(r) \in 1..n /\ t[p] = x[p - Len(r)]
    <2> SUFFICES ASSUME NEW p \in 1..Len(t), p > Len(r)
                 PROVE  p - Len(r) \in 1..n /\ t[p] = x[p - Len(r)]
      OBVIOUS
    <2>1. p - Len(r) \in 1..n /\ Len(r) + (p - Len(r)) = p
      <3>1. Len(t) = Len(r) + n /\ Len(r) \in Nat /\ n \in Nat  BY <1>6, <1>11
      <3> QED  BY <3>1
    <2> QED  BY <1>11, <2>1
  <1>13. \A p \in 1..n : x[p].id \in S /\ x[p] = en(x[p].id)
    <2>1. ASSUME NEW p \in 1..n PROVE \E i \in S : x[p] = en(i)  BY <1>8 DEF E
    <2> QED  BY <1>4, <2>1
  <1>14. \A p \in 1..Len(t) : p > Len(r) => t[p].id \in S /\ t[p].entry = o[t[p].id].logged + 1
    BY <1>4, <1>12, <1>13
  <1>15. ASSUME NEW i \in S PROVE \E p \in 1..Len(t) : p > Len(r) /\ t[p].id = i
    <2>1. en(i) \in E  BY DEF E
    <2>2. PICK j \in 1..n : x[j] = en(i)  BY <1>9, <2>1
    <2>3. Len(r) + j \in 1..Len(t) /\ Len(r) + j > Len(r)  BY <1>6, <1>11
    <2>4. t[Len(r) + j].id = i  BY <1>4, <1>11, <2>2
    <2> QED  BY <2>3, <2>4
  <1>16. ASSUME NEW p \in 1..Len(t), NEW q \in 1..Len(t), p > Len(r), q > Len(r), t[p].id = t[q].id
         PROVE  p = q
    <2>1. /\ p - Len(r) \in 1..n /\ t[p] = x[p - Len(r)]
          /\ q - Len(r) \in 1..n /\ t[q] = x[q - Len(r)]
      BY <1>12, <1>16
    <2>2. t[p] = t[q]  BY <1>13, <1>16, <2>1
    <2>3. p - Len(r) = q - Len(r)  BY <1>8, <2>1, <2>2
    <2> QED  BY <1>11, <2>3
  <1>17. Len(r) <= Len(t)  BY <1>6, <1>11
  <1> QED  BY <1>1, <1>2, <1>3, <1>11, <1>14, <1>15, <1>16, <1>17 DEF Logs

\* An entry that is logged is one more that is pending.
LEMMA PendingLogs ==
    ASSUME NEW o, NEW r \in Seq(Entries), NEW u, NEW t, NEW S, Logs(o, r, u, t, S),
           NEW i \in DOMAIN o, o[i].logged \in Nat,
           NEW k \in Nat, k <= o[i].logged, Pending(r, i, k, o[i].logged)
    PROVE  Pending(t, i, k, u[i].logged)
  <1> DEFINE l == o[i].logged
             m == u[i].logged
  <1>1. m = IF i \in S THEN l + 1 ELSE l  BY DEF Logs
  <1>2. Len(r) \in Nat /\ Len(t) \in Nat /\ Len(r) <= Len(t)  BY DEF Logs
  <1>3. ASSUME NEW p \in 1..Len(t), t[p].id = i
        PROVE  \/ p \in 1..Len(r) /\ t[p] = r[p] /\ t[p].entry \in (k + 1)..l
               \/ p > Len(r) /\ i \in S /\ t[p].entry = l + 1
    <2>1. CASE p \in 1..Len(r)
      <3>1. t[p] = r[p]  BY <2>1 DEF Logs
      <3> QED  BY <1>3, <2>1, <3>1 DEF Pending
    <2>2. CASE p > Len(r)  BY <1>3, <2>2 DEF Logs
    <2> QED  BY <1>2, <2>1, <2>2
  <1> HIDE DEF l, m
  <1>4. l \in Nat /\ k <= l  BY DEF l
  <1>5. \A p \in 1..Len(t) : t[p].id = i => t[p].entry \in (k + 1)..m  BY <1>1, <1>3, <1>4
  <1>6. ASSUME NEW p \in 1..Len(t), NEW q \in 1..Len(t), t[p].id = i, t[q].id = i, p < q
        PROVE  t[p].entry < t[q].entry
    <2>1. CASE q \in 1..Len(r)
      <3>1. p \in 1..Len(r) /\ t[p] = r[p] /\ t[q] = r[q]  BY <1>2, <1>6, <2>1 DEF Logs
      <3> QED  BY <1>6, <2>1, <3>1 DEF Pending
    <2>2. CASE q > Len(r) /\ p \in 1..Len(r)
      <3>1. t[q].entry = l + 1  BY <1>2, <1>3, <1>6, <2>2
      <3>2. t[p].entry \in (k + 1)..l  BY <1>2, <1>3, <1>6, <2>2
      <3> QED  BY <1>4, <3>1, <3>2
    <2>3. CASE q > Len(r) /\ p > Len(r)  BY <1>6, <2>3 DEF Logs
    <2> QED  BY <1>2, <2>1, <2>2, <2>3
  <1>7. ASSUME NEW e \in (k + 1)..m PROVE \E p \in 1..Len(t) : t[p].id = i /\ t[p].entry = e
    <2>1. CASE e \in (k + 1)..l
      <3>1. PICK p \in 1..Len(r) : r[p].id = i /\ r[p].entry = e  BY <2>1 DEF Pending, l
      <3>2. p \in 1..Len(t) /\ t[p] = r[p]  BY <1>2 DEF Logs
      <3> QED  BY <3>1, <3>2
    <2>2. CASE e \notin (k + 1)..l
      <3>1. i \in S /\ e = l + 1  BY <1>1, <1>4, <2>2
      <3>2. PICK p \in 1..Len(t) : p > Len(r) /\ t[p].id = i  BY <3>1 DEF Logs
      <3>3. t[p].entry = l + 1  BY <1>2, <1>3, <3>2
      <3> QED  BY <3>1, <3>2, <3>3
    <2> QED  BY <2>1, <2>2
  <1>8. Pending(t, i, k, m)  BY <1>5, <1>6, <1>7 DEF Pending
  <1> QED  BY <1>8 DEF m

\* The head of the ring is the entry its session's file has next.
LEMMA PendingHead ==
    ASSUME NEW r \in Seq(Entries), r # <<>>, NEW i, NEW l \in Nat, NEW k \in Nat, k <= l,
           Pending(r, i, k, l)
    PROVE  /\ r[1].id = i => /\ r[1].entry = k + 1 /\ k + 1 <= l
                             /\ Pending(Tail(r), i, k + 1, l)
           /\ r[1].id # i => Pending(Tail(r), i, k, l)
  <1> DEFINE t == Tail(r)
  <1>1. /\ Len(r) \in Nat \ {0} /\ Len(t) = Len(r) - 1 /\ 1 \in 1..Len(r)
        /\ \A p \in 1..Len(t) : t[p] = r[p + 1]
    BY HeadTailProperties
  <1>2. \A p \in 1..Len(t) : p + 1 \in 1..Len(r) /\ t[p] = r[p + 1] /\ 1 < p + 1  BY <1>1
  <1>3. \A p \in 1..Len(r) : p = 1 \/ (p - 1 \in 1..Len(t) /\ t[p - 1] = r[p])
    <2> SUFFICES ASSUME NEW p \in 1..Len(r), p # 1 PROVE p - 1 \in 1..Len(t) /\ t[p - 1] = r[p]
      OBVIOUS
    <2>1. p - 1 \in 1..Len(t) /\ (p - 1) + 1 = p
      <3>1. Len(t) = Len(r) - 1 /\ Len(r) \in Nat  BY <1>1
      <3> QED  BY <3>1
    <2> QED  BY <1>1, <2>1
  <1> HIDE DEF t
  <1>4. ASSUME NEW p \in 1..Len(t), NEW q \in 1..Len(t), t[p].id = i, t[q].id = i, p < q
        PROVE  t[p].entry < t[q].entry
    <2>1. /\ p + 1 \in 1..Len(r) /\ q + 1 \in 1..Len(r) /\ p + 1 < q + 1
          /\ r[p + 1].id = i /\ r[q + 1].id = i /\ t[p] = r[p + 1] /\ t[q] = r[q + 1]
      <3>1. t[p] = r[p + 1] /\ t[q] = r[q + 1] /\ p + 1 \in 1..Len(r) /\ q + 1 \in 1..Len(r)  BY <1>2
      <3>2. p + 1 < q + 1
        <4>1. p \in Int /\ q \in Int  OBVIOUS
        <4> QED  BY <1>4, <4>1
      <3> QED  BY <1>4, <3>1, <3>2
    <2>2. \A a, b \in 1..Len(r) : r[a].id = i /\ r[b].id = i /\ a < b => r[a].entry < r[b].entry
      BY DEF Pending
    <2> HIDE DEF Pending
    <2> QED  BY <2>1, <2>2
  <1>5. CASE r[1].id # i
    <2>1. \A p \in 1..Len(t) : t[p].id = i => t[p].entry \in (k + 1)..l  BY <1>2 DEF Pending
    <2>2. \A e \in (k + 1)..l : \E p \in 1..Len(t) : t[p].id = i /\ t[p].entry = e
      <3> SUFFICES ASSUME NEW e \in (k + 1)..l
                   PROVE  \E p \in 1..Len(t) : t[p].id = i /\ t[p].entry = e
        OBVIOUS
      <3>1. PICK p \in 1..Len(r) : r[p].id = i /\ r[p].entry = e  BY DEF Pending
      <3>2. p - 1 \in 1..Len(t) /\ t[p - 1] = r[p]  BY <1>3, <1>5, <3>1
      <3> QED  BY <3>1, <3>2
    <2>3. Pending(t, i, k, l)  BY <1>4, <2>1, <2>2 DEF Pending
    <2> QED  BY <1>5, <2>3 DEF t
  <1>6. CASE r[1].id = i
    <2>1. r[1].entry \in (k + 1)..l  BY <1>1, <1>6 DEF Pending
    <2>2. k + 1 \in (k + 1)..l  BY <2>1
    <2>3. PICK p \in 1..Len(r) : r[p].id = i /\ r[p].entry = k + 1  BY <2>2 DEF Pending
    <2>4. p = 1
      <3>1. SUFFICES ASSUME 1 < p PROVE FALSE  BY <1>1
      <3>2. r[1].entry < r[p].entry  BY <1>1, <1>6, <2>3, <3>1 DEF Pending
      <3> QED  BY <2>1, <2>3, <3>2
    <2>5. r[1].entry = k + 1  BY <2>3, <2>4
    <2>6. ASSUME NEW q \in 1..Len(t), t[q].id = i PROVE t[q].entry \in (k + 1 + 1)..l
      <3>1. r[q + 1].entry \in (k + 1)..l /\ r[1].entry < r[q + 1].entry
        BY <1>1, <1>2, <1>6, <2>6 DEF Pending
      <3> QED  BY <1>2, <2>5, <3>1
    <2>7. ASSUME NEW e \in (k + 1 + 1)..l PROVE \E q \in 1..Len(t) : t[q].id = i /\ t[q].entry = e
      <3>1. e \in (k + 1)..l /\ e # k + 1  OBVIOUS
      <3>2. PICK q \in 1..Len(r) : r[q].id = i /\ r[q].entry = e  BY <3>1 DEF Pending
      <3>3. q # 1  BY <2>5, <3>1, <3>2
      <3> QED  BY <1>3, <3>2, <3>3
    <2>8. Pending(t, i, k + 1, l)  BY <1>4, <2>6, <2>7 DEF Pending
    <2>9. k + 1 <= l  BY <2>2
    <2> QED  BY <1>6, <2>5, <2>8, <2>9 DEF t
  <1> QED  BY <1>5, <1>6

-----------------------------------------------------------------------------
(* The invariant of the sink *)

\* Nodes are those of the sessions with a config; shutdown closes nodes when
\* the ring is empty and no session is being created; one that is has logged
\* nothing unless stop_all overtook it.
SinkControl(cf, cr, o, rg, s, en, C, overtaken) ==
    /\ en # "up" => cr = None
    /\ C # {} => rg = <<>> /\ en # "up"
    /\ en # "down" => DOMAIN s.nodes = {h.id : h \in cf}
    /\ cr # None /\ ~ overtaken => o[cr.id].logged = 0

\* With no more sessions than files that may be open.
SmallSink(o, rg, s, en, C, refused, overtaken) ==
    /\ s.fault \in {"none", "unregistered"}
    /\ en # "down" => Lru(s, C) /\ (C = {} => Named(s))
    /\ en # "down" /\ ~ overtaken => \A i \in DOMAIN s.nodes \ refused : FileOf(o, rg, s, C, i)
    /\ en = "down" /\ ~ overtaken => \A i \in DOMAIN o \ refused : s.files[i] = Whole(o[i].logged)

SinkInv ==
    /\ SinkControl(configs, creating, objs, ring, sink, engine, closed, hist.overtaken)
    /\ Cardinality(DOMAIN objs) <= MAX_LRU_CACHE_SIZE =>
         SmallSink(objs, ring, sink, engine, closed, hist.refused, hist.overtaken)

LEMMA ManagerFacts ==
    ASSUME ManagerInv
    PROVE  /\ Base(pool, configs, creating, objs, hist.removed)
           /\ objs \in [DOMAIN objs -> ObjRecs] /\ DOMAIN objs \subseteq Nat
           /\ IsFiniteSet(DOMAIN objs) /\ ring \in Seq(Entries) /\ hist \in Hists
           /\ \A i \in DOMAIN objs : objs[i].logged \in Nat /\ objs[i].handle.id = i
           /\ \A h \in configs : h.id \in DOMAIN objs /\ objs[h.id].handle = h
           /\ {h.id : h \in configs} \subseteq DOMAIN objs
           /\ creating # None => /\ creating.id \in DOMAIN objs /\ creating.id \in Nat
                                 /\ objs[creating.id].handle = creating
                                 /\ creating.id \notin {h.id : h \in configs}
           /\ creating = None => {h.id : h \in configs} = DOMAIN objs
  <1>1. Base(pool, configs, creating, objs, hist.removed) /\ hist \in Hists  BY DEF ManagerInv
  <1>2. /\ objs \in [DOMAIN objs -> ObjRecs] /\ DOMAIN objs \subseteq Nat
        /\ IsFiniteSet(DOMAIN objs) /\ ring \in Seq(Entries)
        /\ \A i \in DOMAIN objs : objs[i].handle.id = i
    BY <1>1, BaseTypes DEF ManagerInv, Registered
  <1>3. \A i \in DOMAIN objs : objs[i].logged \in Nat  BY <1>2 DEF ObjRecs
  <1>4. \A h \in configs : h.id \in DOMAIN objs /\ objs[h.id].handle = h /\ h.id # creating.id
    BY <1>1, ConfigOf
  <1>5. creating # None => creating.id \in DOMAIN objs /\ objs[creating.id].handle = creating
    BY <1>1 DEF Base
  <1>6. ASSUME creating = None, NEW i \in DOMAIN objs PROVE i \in {h.id : h \in configs}
    <2>1. objs[i].handle # None  BY <1>2, NoneIsNone
    <2>2. objs[i].handle \in configs  BY <1>1, <1>6, <2>1 DEF Base
    <2> QED  BY <1>2, <2>2
  <1>7. {h.id : h \in configs} \subseteq DOMAIN objs  BY <1>4
  <1>8. creating # None => creating.id \in Nat  BY <1>2, <1>5
  <1>9. creating.id \notin {h.id : h \in configs}  BY <1>4
  <1>10. creating = None => {h.id : h \in configs} = DOMAIN objs  BY <1>6, <1>7
  <1> QED  BY <1>1, <1>2, <1>3, <1>4, <1>5, <1>7, <1>8, <1>9, <1>10

\* A step that logs and leaves the sink alone.
LEMMA LogsSink ==
    ASSUME ManagerInv, SinkInv, engine = "up", NEW S, Logs(objs, ring, objs', ring', S),
           UNCHANGED <<configs, creating, sink, engine, closed>>,
           hist'.refused = hist.refused, hist.overtaken => hist'.overtaken,
           ~ hist'.overtaken => \A i \in S : objs[i].handle \in configs
    PROVE  SinkInv'
  <1> DEFINE D == DOMAIN objs
  <1>1. DOMAIN objs' = D /\ S \subseteq D  BY DEF Logs
  <1>2. closed = {} /\ engine # "down" /\ DOMAIN sink.nodes = {h.id : h \in configs}
    BY DEF SinkInv, SinkControl
  <1>3. SinkControl(configs, creating, objs', ring', sink, engine, closed, hist'.overtaken)
    <2>1. ASSUME creating # None, ~ hist'.overtaken PROVE objs'[creating.id].logged = 0
      <3>1. /\ creating.id \in D /\ objs[creating.id].handle = creating
            /\ creating.id \notin {h.id : h \in configs}
        BY <2>1, ManagerFacts
      <3>2. creating.id \notin S  BY <2>1, <3>1
      <3>3. objs[creating.id].logged = 0  BY <2>1 DEF SinkInv, SinkControl
      <3> QED  BY <3>1, <3>2, <3>3 DEF Logs
    <2> QED  BY <1>2, <2>1 DEF SinkInv, SinkControl
  <1>4. ASSUME Cardinality(D) <= MAX_LRU_CACHE_SIZE
        PROVE  SmallSink(objs', ring', sink, engine, closed, hist.refused, hist'.overtaken)
    <2>1. SmallSink(objs, ring, sink, engine, closed, hist.refused, hist.overtaken)
      BY <1>4 DEF SinkInv
    <2>2. ASSUME ~ hist'.overtaken, NEW i \in DOMAIN sink.nodes \ hist.refused
          PROVE  FileOf(objs', ring', sink, closed, i)
      <3>1. FileOf(objs, ring, sink, closed, i)  BY <1>2, <2>1, <2>2 DEF SmallSink
      <3>2. PICK k \in 1..objs[i].logged :
              /\ Pending(ring, i, k, objs[i].logged)
              /\ i \notin closed =>
                   sink.nodes[i].open /\ ~ sink.nodes[i].first_write /\ sink.files[i] = Part(k)
              /\ i \in closed => sink.files[i] = Whole(k)
        BY <3>1 DEF FileOf
      <3>3. i \in D /\ objs[i].logged \in Nat /\ ring \in Seq(Entries)  BY <1>2, ManagerFacts
      <3>4. k \in Nat /\ k <= objs[i].logged  BY <3>3
      <3>5. Pending(ring', i, k, objs'[i].logged)  BY <3>2, <3>3, <3>4, PendingLogs
      <3>6. k \in 1..objs'[i].logged
        <4>1. objs'[i].logged = IF i \in S THEN objs[i].logged + 1 ELSE objs[i].logged
          BY <3>3 DEF Logs
        <4> QED  BY <3>3, <4>1
      <3> QED  BY <3>2, <3>5, <3>6 DEF FileOf
    <2> QED  BY <1>2, <2>1, <2>2 DEF SmallSink
  <1> QED  BY <1>1, <1>3, <1>4 DEF SinkInv

\* A step that logs nothing.
LEMMA QuietSink ==
    ASSUME ManagerInv, SinkInv, engine = "up", ring' = ring, DOMAIN objs' = DOMAIN objs,
           \A i \in DOMAIN objs : objs'[i].logged = objs[i].logged,
           UNCHANGED <<configs, creating, sink, engine, closed>>,
           hist'.refused = hist.refused, hist'.overtaken = hist.overtaken
    PROVE  SinkInv'
  <1> DEFINE S == {}
  <1>1. ring \in Seq(Entries) /\ Len(ring) \in Nat  BY ManagerFacts
  <1>2. \A p \in 1..Len(ring) : ~ (p > Len(ring))  BY <1>1
  <1>3. S \subseteq DOMAIN objs /\ \A i \in S : FALSE  OBVIOUS
  <1> HIDE DEF S
  <1>4. Logs(objs, ring, objs', ring', S)  BY <1>1, <1>2, <1>3 DEF Logs
  <1> QED  BY <1>3, <1>4, LogsSink

LEMMA QuietSteps ==
    ASSUME ManagerInv, SinkInv,
           \/ \E h \in Handles : remove_session(h) \/ send(h) \/ stop_session(h)
           \/ stop_all \/ RunSend \/ reconnect_session_impl_ \/ \E i \in Ids : HandlersGone(i)
    PROVE  SinkInv'
  <1>1. objs \in [DOMAIN objs -> ObjRecs] /\ hist \in Hists  BY ManagerFacts
  <1>2. CASE RunSend
    <2> DEFINE h == Head(strand).handle
               s == get(pool, h)
    <2>1. /\ engine = "up" /\ UNCHANGED <<configs, creating, ring, sink, engine, closed, hist>>
          /\ objs' = IF s = None \/ objs[s.id].stopped THEN objs
                     ELSE [objs EXCEPT ![s.id].mail = @ \cup {h.id}]
      BY <1>2 DEF RunSend, RunTask, Running
    <2> HIDE DEF s, h
    <2>2. DOMAIN objs' = DOMAIN objs /\ \A i \in DOMAIN objs : objs'[i].logged = objs[i].logged
      BY <1>1, <2>1 DEF ObjRecs
    <2> QED  BY <2>1, <2>2, QuietSink
  <1>3. ASSUME NEW i \in Ids, HandlersGone(i) PROVE SinkInv'
    <2>1. /\ engine = "up" /\ UNCHANGED <<configs, creating, ring, sink, engine, closed, hist>>
          /\ objs' = [objs EXCEPT ![i].held = FALSE]
      BY <1>3 DEF HandlersGone, Running
    <2>2. DOMAIN objs' = DOMAIN objs /\ \A j \in DOMAIN objs : objs'[j].logged = objs[j].logged
      BY <1>1, <2>1 DEF ObjRecs
    <2> QED  BY <2>1, <2>2, QuietSink
  <1>4. CASE \E h \in Handles : remove_session(h)
    <2>1. /\ engine = "up" /\ UNCHANGED <<configs, creating, objs, ring, sink, engine, closed>>
          /\ hist'.refused = hist.refused /\ hist'.overtaken = hist.overtaken
      BY <1>1, <1>4 DEF remove_session, Running, Hists
    <2> QED  BY <2>1, QuietSink
  <1>5. CASE \/ \E h \in Handles : send(h) \/ stop_session(h)
             \/ stop_all \/ reconnect_session_impl_
    <2>1. engine = "up" /\ UNCHANGED <<configs, creating, objs, ring, sink, engine, closed, hist>>
      BY <1>5 DEF send, stop_session, stop_all, Post, reconnect_session_impl_, RunTask, Running
    <2> QED  BY <2>1, QuietSink
  <1> QED  BY <1>2, <1>3, <1>4, <1>5

\* Session::stop of the sessions in S.
LEMMA StopSink ==
    ASSUME ManagerInv, SinkInv, engine = "up", NEW S \in SUBSET Ids, StopThese(S),
           UNCHANGED <<configs, creating, sink, engine, closed>>,
           hist'.refused = hist.refused, hist.overtaken => hist'.overtaken,
           ~ hist'.overtaken => \A i \in S : objs[i].handle \in configs
    PROVE  SinkInv'
  <1> DEFINE D == DOMAIN objs
             os == [i \in D |-> IF i \in S THEN Stopped(objs[i]) ELSE objs[i]]
             T == {i \in S : ~ objs[i].stopped}
  <1>1. /\ objs \in [D -> ObjRecs] /\ D \subseteq Nat /\ IsFiniteSet(D) /\ S \subseteq D
        /\ ring \in Seq(Entries)
    BY ManagerFacts DEF Ids
  <1>2. LogStep(os, T, ring, objs', ring')  BY DEF StopThese, Log, LogStep, Ids
  <1>3. os \in [D -> ObjRecs] /\ DOMAIN os = D /\ \A i \in D : os[i].logged = objs[i].logged
    <2>1. ASSUME NEW y \in ObjRecs PROVE Stopped(y) \in ObjRecs /\ Stopped(y).logged = y.logged
      BY DEF Stopped, ObjRecs
    <2> QED  BY <1>1, <2>1
  <1>4. T \subseteq D /\ T \subseteq S  BY <1>1
  <1> HIDE DEF os, T, D
  <1>5. Logs(objs, ring, objs', ring', T)  BY <1>1, <1>2, <1>3, <1>4, LogsOf DEF D
  <1>6. ~ hist'.overtaken => \A i \in T : objs[i].handle \in configs  BY <1>4
  <1> QED  BY <1>5, <1>6, LogsSink

LEMMA StopSteps ==
    ASSUME ManagerInv, SinkInv, RunStop \/ RunStopAll PROVE SinkInv'
  <1>1. hist \in Hists  BY ManagerFacts
  <1>2. CASE RunStop
    <2> DEFINE h == Head(strand).handle
               S == {get(pool, h).id} \cap Ids
    <2>1. /\ strand # <<>> /\ Head(strand).op = "stop" /\ StopThese(S) /\ engine = "up"
          /\ hist' = [hist EXCEPT !.asked = @ \cup {h.id}]
          /\ UNCHANGED <<configs, creating, sink, engine, closed>>
      BY <1>2 DEF RunStop, RunTask, Running
    <2>2. /\ h \in configs /\ h.id \in Ids /\ objs[h.id].handle = h
          /\ get(pool, h) = None \/ get(pool, h) = h
      BY <2>1, HeadFinds
    <2>3. Ids \subseteq Nat  BY ManagerFacts DEF Ids
    <2>4. S \in SUBSET Ids /\ S \subseteq {h.id}  BY <2>2, <2>3, NoneIsNone
    <2>5. hist'.refused = hist.refused /\ hist'.overtaken = hist.overtaken
      BY <1>1, <2>1 DEF Hists
    <2>6. \A i \in S : objs[i].handle \in configs  BY <2>2, <2>4
    <2> HIDE DEF S, h
    <2> QED  BY <2>1, <2>4, <2>5, <2>6, StopSink
  <1>3. CASE RunStopAll
    <2> DEFINE S == {h.id : h \in get_all(pool)}
               b == hist.overtaken \/ creating # None
    <2>1. /\ StopThese(S) /\ engine = "up" /\ UNCHANGED <<configs, creating, sink, engine, closed>>
          /\ hist' = [hist EXCEPT !.asked = @ \cup S, !.overtaken = b]
      BY <1>1, <1>3 DEF RunStopAll, RunTask, Running, Hists
    <2>2. Base(pool, configs, creating, objs, hist.removed)
      BY ManagerFacts
    <2>3. ToSet(pool.sessions) \ {None} = {objs[i].handle : i \in DOMAIN objs \ hist.removed}
      BY <2>2, PoolHas DEF Base
    <2>4. S \in SUBSET Ids
      <3>1. get_all(pool) \subseteq ToSet(pool.sessions) \ {None}  BY DEF get_all
      <3>2. \A i \in DOMAIN objs : objs[i].handle.id = i  BY ManagerFacts
      <3> QED  BY <2>3, <3>1, <3>2 DEF Ids
    <2>5. hist'.refused = hist.refused /\ hist'.overtaken = b  BY <1>1, <2>1 DEF Hists
    <2>6. creating = None => \A i \in Ids : objs[i].handle \in configs
      <3>1. creating = None => Ids = {h.id : h \in configs}  BY ManagerFacts DEF Ids
      <3>2. \A h \in configs : objs[h.id].handle = h  BY ManagerFacts
      <3> QED  BY <3>1, <3>2
    <2> HIDE DEF S
    <2> QED  BY <2>1, <2>4, <2>5, <2>6, StopSink
  <1> QED  BY <1>2, <1>3

\* A step of a connection that logs an entry of session i.
LEMMA LogOneSink ==
    ASSUME ManagerInv, SinkInv, engine = "up", NEW i \in DOMAIN objs, objs[i].handle \in configs,
           NEW x \in ObjRecs, x.logged = objs[i].logged, Log([objs EXCEPT ![i] = x], {i}),
           UNCHANGED <<configs, creating, sink, engine, closed>>,
           hist'.refused = hist.refused, hist'.overtaken = hist.overtaken
    PROVE  SinkInv'
  <1> DEFINE D == DOMAIN objs
             os == [objs EXCEPT ![i] = x]
             T == {i}
  <1>1. /\ objs \in [D -> ObjRecs] /\ D \subseteq Nat /\ IsFiniteSet(D) /\ ring \in Seq(Entries)
    BY ManagerFacts
  <1>2. LogStep(os, T, ring, objs', ring')  BY DEF Log, LogStep
  <1>3. os \in [D -> ObjRecs] /\ DOMAIN os = D /\ \A j \in D : os[j].logged = objs[j].logged
    BY <1>1
  <1>4. T \subseteq D /\ \A j \in T : objs[j].handle \in configs  OBVIOUS
  <1> HIDE DEF os, T, D
  <1>5. Logs(objs, ring, objs', ring', T)  BY <1>1, <1>2, <1>3, <1>4, LogsOf DEF D
  <1> QED  BY <1>4, <1>5, LogsSink

LEMMA ConnectionSteps ==
    ASSUME ManagerInv, SinkInv,
           \/ \E c \in connects : Connected(c) \/ ConnectFailed(c)
           \/ \E i \in Ids : TransportDown(i)
    PROVE  SinkInv'
  <1>1. objs \in [DOMAIN objs -> ObjRecs] /\ hist \in Hists  BY ManagerFacts
  <1>2. ASSUME NEW c \in connects, Connected(c) PROVE SinkInv'
    <2> DEFINE i == c.id
               o == objs[i]
               x == [o EXCEPT !.conn = TRUE, !.held = ~ o.stopped \/ c.mode = "NORMAL" \/ o.held,
                              !.down = o.down /\ o.stopped]
    <2>1. i \in DOMAIN objs /\ o.handle \in configs /\ o \in ObjRecs  BY ConnectKnown
    <2>2. engine = "up" /\ UNCHANGED <<configs, creating, sink, engine, closed, hist>>
      BY <1>2 DEF Connected, Running
    <2>3. CASE Alive(i)
      <3> DEFINE y == [objs EXCEPT ![i].conn = TRUE,
                                   ![i].held = ~ objs[i].stopped \/ c.mode = "NORMAL" \/ @,
                                   ![i].down = @ /\ objs[i].stopped]
      <3>1. Log(y, {i})  BY <1>2, <2>3 DEF Connected
      <3>2. y = [objs EXCEPT ![i] = x]  BY <1>1, <2>1 DEF ObjRecs
      <3>3. x \in ObjRecs /\ x.logged = o.logged  BY <2>1 DEF ObjRecs
      <3> HIDE DEF y, x, i
      <3>4. Log([objs EXCEPT ![i] = x], {i})  BY <3>1, <3>2
      <3> QED  BY <2>1, <2>2, <3>3, <3>4, LogOneSink
    <2>4. CASE ~ Alive(i)
      <3>1. objs' = objs /\ ring' = ring  BY <1>2, <2>4 DEF Connected
      <3> QED  BY <2>2, <3>1, QuietSink
    <2> QED  BY <2>3, <2>4
  <1>3. ASSUME NEW c \in connects, ConnectFailed(c) PROVE SinkInv'
    <2> DEFINE i == c.id
    <2>1. i \in DOMAIN objs /\ objs[i].handle \in configs /\ objs[i] \in ObjRecs  BY ConnectKnown
    <2>2. /\ engine = "up" /\ UNCHANGED <<configs, creating, sink, engine, closed>>
          /\ hist'.refused = hist.refused /\ hist'.overtaken = hist.overtaken
      BY <1>1, <1>3 DEF ConnectFailed, Running, Hists
    <2>3. CASE Alive(i)
      <3>1. Log(objs, {i})  BY <1>3, <2>3 DEF ConnectFailed
      <3>2. [objs EXCEPT ![i] = objs[i]] = objs  BY <1>1
      <3> HIDE DEF i
      <3>3. Log([objs EXCEPT ![i] = objs[i]], {i})  BY <3>1, <3>2
      <3> QED  BY <2>1, <2>2, <3>3, LogOneSink
    <2>4. CASE ~ Alive(i)
      <3>1. objs' = objs /\ ring' = ring  BY <1>3, <2>4 DEF ConnectFailed
      <3> QED  BY <2>2, <3>1, QuietSink
    <2> QED  BY <2>3, <2>4
  <1>4. ASSUME NEW i \in Ids, TransportDown(i) PROVE SinkInv'
    <2> DEFINE o == objs[i]
               x == [o EXCEPT !.conn = FALSE, !.down = TRUE]
               y == [objs EXCEPT ![i].conn = FALSE, ![i].down = TRUE]
    <2>1. /\ engine = "up" /\ UNCHANGED <<configs, creating, sink, engine, closed, hist>>
          /\ o.conn /\ Log(y, {i}) /\ i \in DOMAIN objs
      BY <1>4 DEF TransportDown, Running, Ids
    <2>2. o.handle \in configs /\ o \in ObjRecs  BY <1>1, <2>1 DEF ManagerInv, Queued
    <2>3. y = [objs EXCEPT ![i] = x]  BY <1>1, <2>1 DEF ObjRecs
    <2>4. x \in ObjRecs /\ x.logged = o.logged  BY <2>2 DEF ObjRecs
    <2> HIDE DEF y, x
    <2>5. Log([objs EXCEPT ![i] = x], {i})  BY <2>1, <2>3
    <2> QED  BY <2>1, <2>2, <2>4, <2>5, LogOneSink
  <1> QED  BY <1>2, <1>3, <1>4

LEMMA CreateBeginSink ==
    ASSUME ManagerInv, SinkInv, CreateBegin PROVE SinkInv'
  <1> DEFINE h == NextID(pool)
             c == pool.next_idx
             D == DOMAIN objs
  <1>1. /\ engine = "up" /\ creating = None /\ creating' = h
        /\ UNCHANGED <<configs, ring, sink, engine, closed, hist>>
        /\ objs' = [i \in D \cup {c} |-> IF i = c THEN NewObj(h) ELSE objs[i]]
    BY DEF CreateBegin, Running, Ids
  <1>2. h.id = c /\ NewObj(h).logged = 0  BY DEF NextID, NewObj
  <1>3. /\ D = 0..(c - 1) /\ c \in Nat /\ IsFiniteSet(D)
    BY BaseTypes DEF ManagerInv
  <1>4. /\ DOMAIN objs' = D \cup {c} /\ c \notin D /\ objs'[c].logged = 0
        /\ \A i \in D : objs'[i] = objs[i]
    BY <1>1, <1>2, <1>3
  <1> HIDE DEF h, c
  <1>5. closed = {} /\ engine # "down" /\ DOMAIN sink.nodes = {g.id : g \in configs}
    BY <1>1 DEF SinkInv, SinkControl
  <1>6. SinkControl(configs, creating', objs', ring, sink, engine, closed, hist.overtaken)
    BY <1>1, <1>2, <1>4, <1>5 DEF SinkControl
  <1>7. ASSUME Cardinality(DOMAIN objs') <= MAX_LRU_CACHE_SIZE
        PROVE  SmallSink(objs', ring, sink, engine, closed, hist.refused, hist.overtaken)
    <2>1. Cardinality(D) <= MAX_LRU_CACHE_SIZE
      <3>1. Cardinality(D \cup {c}) = Cardinality(D) + 1 /\ Cardinality(D) \in Nat
        BY <1>3, <1>4, FS_AddElement, FS_CardinalityType
      <3> QED  BY <1>4, <1>7, <3>1, SinkAssumption
    <2>2. SmallSink(objs, ring, sink, engine, closed, hist.refused, hist.overtaken)
      BY <2>1 DEF SinkInv
    <2>3. DOMAIN sink.nodes \subseteq D  BY <1>5, ManagerFacts
    <2>4. \A i \in D : FileOf(objs, ring, sink, closed, i) => FileOf(objs', ring, sink, closed, i)
      BY <1>4 DEF FileOf
    <2> QED  BY <1>5, <2>2, <2>3, <2>4 DEF SmallSink
  <1> QED  BY <1>1, <1>6, <1>7 DEF SinkInv

LEMMA RefusedIs ==
    ASSUME NEW ok \in BOOLEAN, NEW n, hist \in Hists, Refusal(ok, n)
    PROVE  /\ hist'.refused = (IF ok THEN hist.refused ELSE hist.refused \cup {n})
           /\ hist'.overtaken = hist.overtaken
  BY DEF Refusal, Hists

LEMMA CreateEndSink ==
    ASSUME ManagerInv, SinkInv, NEW ok \in BOOLEAN, CreateEnd(ok) PROVE SinkInv'
  <1> DEFINE n == creating.id
             D == DOMAIN objs
             e == objs[n].logged + 1
             w == add_session(sink, n, e, ok)
  <1>1. /\ engine = "up" /\ sink.fault = "none" /\ creating # None /\ sink' = w
        /\ objs' = [objs EXCEPT ![n].logged = @ + 1] /\ configs' = configs \cup {creating}
        /\ creating' = None /\ Refusal(ok, n) /\ UNCHANGED <<ring, engine, closed>>
    BY DEF CreateEnd, Running
  <1>2. /\ hist'.refused = (IF ok THEN hist.refused ELSE hist.refused \cup {n})
        /\ hist'.overtaken = hist.overtaken
    BY <1>1, ManagerFacts, RefusedIs
  <1>3. /\ n \in D /\ n \in Nat /\ n \notin {h.id : h \in configs} /\ D \subseteq Nat
        /\ objs \in [D -> ObjRecs] /\ IsFiniteSet(D) /\ {h.id : h \in configs} \subseteq D
        /\ objs[n].handle = creating
    BY <1>1, ManagerFacts
  <1>4. closed = {} /\ engine # "down" /\ DOMAIN sink.nodes = {h.id : h \in configs}
    BY <1>1 DEF SinkInv, SinkControl
  <1>5. /\ DOMAIN objs' = D /\ objs'[n].logged = e /\ \A i \in D : i # n => objs'[i] = objs[i]
    BY <1>1, <1>3 DEF ObjRecs
  <1>6. DOMAIN w.nodes = DOMAIN sink.nodes \cup {n}
    <2>1. SinkDom(sink)  BY DEF ManagerInv, Registered, SinkDom
    <2> QED  BY <1>1, <2>1, KeepsAdd
  <1>7. {h.id : h \in configs'} = DOMAIN w.nodes  BY <1>1, <1>4, <1>6
  <1> HIDE DEF w, e
  <1>8. SinkControl(configs', creating', objs', ring, w, engine, closed, hist'.overtaken)
    BY <1>1, <1>4, <1>7 DEF SinkControl
  <1>9. ASSUME Cardinality(D) <= MAX_LRU_CACHE_SIZE
        PROVE  SmallSink(objs', ring, w, engine, closed, hist'.refused, hist'.overtaken)
    <2>1. SmallSink(objs, ring, sink, engine, closed, hist.refused, hist.overtaken)
      BY <1>9 DEF SinkInv
    <2>2. Lru(sink, {}) /\ Named(sink)  BY <1>4, <2>1 DEF SmallSink
    <2>3. Cardinality(DOMAIN sink.nodes \cup {n}) <= MAX_LRU_CACHE_SIZE
      <3>1. DOMAIN sink.nodes \cup {n} \subseteq D  BY <1>3, <1>4
      <3>2. /\ IsFiniteSet(DOMAIN sink.nodes \cup {n})
            /\ Cardinality(DOMAIN sink.nodes \cup {n}) <= Cardinality(D)
        BY <1>3, <3>1, FS_Subset
      <3>3. Cardinality(DOMAIN sink.nodes \cup {n}) \in Nat /\ Cardinality(D) \in Nat
        BY <1>3, <3>2, FS_CardinalityType
      <3> QED  BY <1>9, <3>2, <3>3, SinkAssumption
    <2>4. /\ Lru(w, {}) /\ w.fault = "none"
          /\ \A m \in DOMAIN sink.nodes : w.nodes[m] = sink.nodes[m] /\ w.files[m] = sink.files[m]
          /\ (Named(sink) => Named(w)) /\ ~ w.nodes[n].first_write
          /\ ok => w.nodes[n].open /\ w.files[n] = <<[sep |-> "[", entry |-> e]>>
      <3>1. n \notin DOMAIN sink.nodes  BY <1>3, <1>4
      <3> HIDE DEF n
      <3> QED  BY <1>1, <1>3, <2>2, <2>3, <3>1, AddsNode DEF w
    <2>5. ASSUME ~ hist.overtaken, NEW i \in DOMAIN w.nodes \ hist'.refused
          PROVE  FileOf(objs', ring, w, closed, i)
      <3>1. CASE i = n
        <4>1. ok  BY <1>2, <2>5, <3>1
        <4>2. e = 1  BY <1>1, <2>5 DEF SinkInv, SinkControl, e
        <4>3. w.nodes[n].open /\ ~ w.nodes[n].first_write /\ w.files[n] = Part(1)
          <5>1. <<[sep |-> "[", entry |-> 1]>> = Part(1)
            <6>1. 1 \in Nat \ {0}  OBVIOUS
            <6> QED  BY <6>1, PartGrows
          <5> QED  BY <2>4, <4>1, <4>2, <5>1
        <4>4. \A p \in 1..Len(ring) : ring[p].id # n
          <5>1. ASSUME NEW p \in 1..Len(ring), ring[p].id = n PROVE FALSE
            <6>1. objs[n].handle \in configs  BY <2>5, <5>1 DEF ManagerInv, Registered
            <6> QED  BY <1>3, <6>1
          <5> QED  BY <5>1
        <4>5. Pending(ring, n, 1, 1)
          <5>1. (1 + 1)..1 = {}  OBVIOUS
          <5> QED  BY <4>4, <5>1 DEF Pending
        <4>6. 1 \in 1..objs'[n].logged /\ objs'[n].logged = 1  BY <1>5, <4>2
        <4>7. i \notin closed  BY <1>4
        <4> QED  BY <3>1, <4>3, <4>5, <4>6, <4>7 DEF FileOf
      <3>2. CASE i # n
        <4>1. i \in DOMAIN sink.nodes \ hist.refused /\ i \in D  BY <1>2, <1>3, <1>4, <1>6, <2>5, <3>2
        <4>2. FileOf(objs, ring, sink, closed, i)  BY <1>4, <2>1, <2>5, <4>1 DEF SmallSink
        <4>3. /\ objs'[i] = objs[i] /\ w.nodes[i] = sink.nodes[i] /\ w.files[i] = sink.files[i]
          BY <1>5, <2>4, <3>2, <4>1
        <4> QED  BY <4>2, <4>3 DEF FileOf
      <3> QED  BY <3>1, <3>2
    <2> QED  BY <1>2, <1>4, <2>2, <2>4, <2>5 DEF SmallSink
  <1> QED  BY <1>1, <1>5, <1>8, <1>9 DEF SinkInv

LEMMA DrainSink ==
    ASSUME ManagerInv, SinkInv, NEW ok \in BOOLEAN, Drain(ok) PROVE SinkInv'
  <1> DEFINE n == ring[1].id
             e == ring[1].entry
             D == DOMAIN objs
             w == write(sink, n, e, ok)
             t == Tail(ring)
  <1>1. /\ engine # "down" /\ sink.fault = "none" /\ ring # <<>> /\ ring' = t
        /\ sink' = write(sink, Head(ring).id, Head(ring).entry, ok) /\ Refusal(ok, Head(ring).id)
        /\ UNCHANGED <<configs, creating, objs, engine, closed>>
    BY DEF Drain
  <1>2. ring \in Seq(Entries) /\ hist \in Hists /\ IsFiniteSet(D)  BY ManagerFacts
  <1>3. /\ Head(ring) = ring[1] /\ ring[1] \in Entries /\ 1 \in 1..Len(ring)
    BY <1>1, <1>2, HeadTailProperties
  <1>4. sink' = w /\ Refusal(ok, n)  BY <1>1, <1>3
  <1>5. /\ hist'.refused = (IF ok THEN hist.refused ELSE hist.refused \cup {n})
        /\ hist'.overtaken = hist.overtaken
    BY <1>2, <1>4, RefusedIs
  <1>6. closed = {} /\ DOMAIN sink.nodes = {h.id : h \in configs}
    BY <1>1 DEF SinkInv, SinkControl
  <1>7. DOMAIN w.nodes = DOMAIN sink.nodes
    <2>1. SinkDom(sink)  BY DEF ManagerInv, Registered, SinkDom
    <2> QED  BY <1>1, <2>1, KeepsWrite
  <1>8. DOMAIN sink.nodes \subseteq D  BY <1>6, ManagerFacts
  <1> HIDE DEF w, t
  <1>9. SinkControl(configs, creating, objs, t, w, engine, closed, hist'.overtaken)
    BY <1>1, <1>5, <1>6, <1>7 DEF SinkInv, SinkControl
  <1>10. ASSUME Cardinality(D) <= MAX_LRU_CACHE_SIZE
         PROVE  SmallSink(objs, t, w, engine, closed, hist'.refused, hist'.overtaken)
    <2>1. SmallSink(objs, ring, sink, engine, closed, hist.refused, hist.overtaken)
      BY <1>10 DEF SinkInv
    <2>2. Lru(sink, closed) /\ Named(sink)  BY <1>1, <1>6, <2>1 DEF SmallSink
    <2>3. CASE n \notin DOMAIN sink.nodes
      <3>1. w = [sink EXCEPT !.fault = "unregistered"]  BY <2>3 DEF w, write, Fault
      <3>2. hist.overtaken
        <4>1. SUFFICES ASSUME ~ hist.overtaken PROVE FALSE  OBVIOUS
        <4>2. objs[n].handle \in configs /\ n \in D
          BY <1>3, <4>1 DEF ManagerInv, Registered
        <4>3. objs[n].handle.id = n  BY <4>2, ManagerFacts
        <4> QED  BY <1>6, <2>3, <4>2, <4>3
      <3>3. /\ SinkDom(w) /\ w.nodes = sink.nodes /\ w.lru = sink.lru /\ w.count = sink.count
            /\ w.files = sink.files /\ w.fault = "unregistered"
        BY <2>2, <3>1 DEF Lru, SinkDom
      <3>4. Lru(w, closed) /\ Named(w)
        <4>1. SameList(sink, w, closed)  BY <2>2, <3>3 DEF SameList, Lru
        <4> QED  BY <2>2, <4>1, SameListLru
      <3> QED  BY <1>1, <1>5, <3>2, <3>3, <3>4 DEF SmallSink
    <2>4. CASE n \in DOMAIN sink.nodes
      <3>1. n \in DOMAIN sink.nodes \ closed  BY <1>6, <2>4
      <3>2. Cardinality(DOMAIN sink.nodes) <= MAX_LRU_CACHE_SIZE
        <4>1. /\ IsFiniteSet(DOMAIN sink.nodes) /\ Cardinality(DOMAIN sink.nodes) <= Cardinality(D)
          BY <1>2, <1>8, FS_Subset
        <4>2. Cardinality(DOMAIN sink.nodes) \in Nat /\ Cardinality(D) \in Nat
          BY <1>2, <4>1, FS_CardinalityType
        <4> QED  BY <1>10, <4>1, <4>2, SinkAssumption
      <3>3. Wrote(sink, w, n, closed, e, ok)
        <4> HIDE DEF n, e
        <4> QED  BY <1>1, <2>2, <3>1, <3>2, WritesNode DEF w
      <3>4. /\ Lru(w, closed) /\ Named(w) /\ w.fault = "none" /\ ~ w.nodes[n].first_write
            /\ \A m \in DOMAIN sink.nodes :
                 m # n => w.nodes[m] = sink.nodes[m] /\ w.files[m] = sink.files[m]
        BY <2>2, <3>3 DEF Wrote, OthersSame
      <3>5. ASSUME ~ hist.overtaken, NEW i \in DOMAIN w.nodes \ hist'.refused
            PROVE  FileOf(objs, t, w, closed, i)
        <4>1. i \in DOMAIN sink.nodes \ hist.refused /\ i \in D  BY <1>5, <1>7, <1>8, <3>5
        <4>2. FileOf(objs, ring, sink, closed, i)  BY <1>1, <2>1, <3>5, <4>1 DEF SmallSink
        <4>3. PICK k \in 1..objs[i].logged :
                /\ Pending(ring, i, k, objs[i].logged)
                /\ i \notin closed =>
                     sink.nodes[i].open /\ ~ sink.nodes[i].first_write /\ sink.files[i] = Part(k)
                /\ i \in closed => sink.files[i] = Whole(k)
          BY <4>2 DEF FileOf
        <4>4. i \notin closed  BY <1>6
        <4>5. objs[i].logged \in Nat  BY <4>1, ManagerFacts
        <4>6. k \in Nat /\ k <= objs[i].logged /\ k \in Nat \ {0}  BY <4>5
        <4>7. CASE i # n
          <5>1. Pending(t, i, k, objs[i].logged)
            BY <1>1, <1>2, <4>3, <4>5, <4>6, <4>7, PendingHead DEF t
          <5>2. w.nodes[i] = sink.nodes[i] /\ w.files[i] = sink.files[i]  BY <3>4, <4>1, <4>7
          <5> QED  BY <4>3, <4>4, <5>1, <5>2 DEF FileOf
        <4>8. CASE i = n
          <5>1. e = k + 1 /\ k + 1 <= objs[i].logged /\ Pending(t, i, k + 1, objs[i].logged)
            BY <1>1, <1>2, <4>3, <4>5, <4>6, <4>8, PendingHead DEF t
          <5>2. w.nodes[n].open /\ w.files[n] = Append(Part(k), [sep |-> ",", entry |-> e])
            BY <3>3, <4>3, <4>4, <4>8 DEF Wrote
          <5>3. w.files[n] = Part(k + 1)  BY <4>6, <5>1, <5>2, PartGrows
          <5>4. k + 1 \in 1..objs[i].logged  BY <4>5, <4>6, <5>1
          <5> QED  BY <3>4, <4>4, <4>8, <5>1, <5>2, <5>3, <5>4 DEF FileOf
        <4> QED  BY <4>7, <4>8
      <3> QED  BY <1>1, <1>5, <3>4, <3>5 DEF SmallSink
    <2> QED  BY <2>3, <2>4
  <1> QED  BY <1>1, <1>4, <1>9, <1>10 DEF SinkInv

LEMMA CloseNodeSink ==
    ASSUME ManagerInv, SinkInv, NEW n \in DOMAIN sink.nodes, NEW ok \in BOOLEAN, CloseNode(n, ok)
    PROVE  SinkInv'
  <1> DEFINE D == DOMAIN objs
             w == close_file(sink, n, ok)
             C == closed \cup {n}
  <1>1. /\ engine = "closing" /\ sink.fault = "none" /\ ring = <<>> /\ n \notin closed /\ sink' = w
        /\ closed' = C /\ Refusal(ok, n) /\ UNCHANGED <<configs, creating, objs, ring, engine>>
    BY DEF CloseNode
  <1>2. hist \in Hists /\ IsFiniteSet(D)  BY ManagerFacts
  <1>3. /\ hist'.refused = (IF ok THEN hist.refused ELSE hist.refused \cup {n})
        /\ hist'.overtaken = hist.overtaken
    BY <1>1, <1>2, RefusedIs
  <1>4. engine # "down" /\ DOMAIN sink.nodes = {h.id : h \in configs}
    BY <1>1 DEF SinkInv, SinkControl
  <1>5. DOMAIN w.nodes = DOMAIN sink.nodes
    <2>1. SinkDom(sink)  BY DEF ManagerInv, Registered, SinkDom
    <2> QED  BY <1>1, <2>1, KeepsClose DEF Keeps
  <1>6. DOMAIN sink.nodes \subseteq D  BY <1>4, ManagerFacts
  <1> HIDE DEF w
  <1>7. SinkControl(configs, creating, objs, ring, w, engine, C, hist'.overtaken)
    BY <1>1, <1>3, <1>4, <1>5 DEF SinkInv, SinkControl
  <1>8. ASSUME Cardinality(D) <= MAX_LRU_CACHE_SIZE
        PROVE  SmallSink(objs, ring, w, engine, C, hist'.refused, hist'.overtaken)
    <2>1. SmallSink(objs, ring, sink, engine, closed, hist.refused, hist.overtaken)
      BY <1>8 DEF SinkInv
    <2>2. Lru(sink, closed)  BY <1>4, <2>1 DEF SmallSink
    <2>3. Cardinality(DOMAIN sink.nodes) <= MAX_LRU_CACHE_SIZE
      <3>1. /\ IsFiniteSet(DOMAIN sink.nodes) /\ Cardinality(DOMAIN sink.nodes) <= Cardinality(D)
        BY <1>2, <1>6, FS_Subset
      <3>2. Cardinality(DOMAIN sink.nodes) \in Nat /\ Cardinality(D) \in Nat
        BY <1>2, <3>1, FS_CardinalityType
      <3> QED  BY <1>8, <3>1, <3>2, SinkAssumption
    <2>4. /\ Lru(w, C) /\ OthersSame(sink, w, n)
          /\ sink.nodes[n].open /\ ~ sink.nodes[n].first_write =>
               w.files[n] = Append(sink.files[n], [sep |-> "]", entry |-> 0])
      <3>1. n \in DOMAIN sink.nodes \ closed  BY <1>1
      <3> QED  BY <1>1, <2>2, <2>3, <3>1, ClosesNode DEF w
    <2>5. ASSUME ~ hist.overtaken, NEW i \in DOMAIN w.nodes \ hist'.refused
          PROVE  FileOf(objs, ring, w, C, i)
      <3>1. i \in DOMAIN sink.nodes \ hist.refused /\ i \in D  BY <1>3, <1>5, <1>6, <2>5
      <3>2. FileOf(objs, ring, sink, closed, i)  BY <1>4, <2>1, <2>5, <3>1 DEF SmallSink
      <3>3. PICK k \in 1..objs[i].logged :
              /\ Pending(ring, i, k, objs[i].logged)
              /\ i \notin closed =>
                   sink.nodes[i].open /\ ~ sink.nodes[i].first_write /\ sink.files[i] = Part(k)
              /\ i \in closed => sink.files[i] = Whole(k)
        BY <3>2 DEF FileOf
      <3>4. k \in Nat \ {0}  BY <3>1, ManagerFacts
      <3>5. CASE i = n
        <4>1. w.files[n] = Append(Part(k), [sep |-> "]", entry |-> 0])
          BY <1>1, <2>4, <3>3, <3>5
        <4>2. w.files[i] = Whole(k) /\ i \in C  BY <3>4, <3>5, <4>1, PartGrows
        <4> QED  BY <3>3, <4>2 DEF FileOf
      <3>6. CASE i # n
        <4>1. w.nodes[i] = sink.nodes[i] /\ w.files[i] = sink.files[i] /\ (i \in C <=> i \in closed)
          BY <2>4, <3>1, <3>6 DEF OthersSame
        <4> QED  BY <3>3, <4>1 DEF FileOf
      <3> QED  BY <3>5, <3>6
    <2>6. C # {} /\ w.fault = "none"  BY <2>4 DEF OthersSame
    <2> HIDE DEF C
    <2> QED  BY <1>3, <1>4, <2>4, <2>5, <2>6 DEF SmallSink
  <1> QED  BY <1>1, <1>7, <1>8 DEF SinkInv

LEMMA ShutdownSink ==
    ASSUME ManagerInv, SinkInv, BeginShutdown \/ ShutdownDone PROVE SinkInv'
  <1>1. CASE BeginShutdown
    <2>1. /\ engine = "up" /\ engine' = "closing" /\ creating = None
          /\ UNCHANGED <<configs, creating, objs, ring, sink, closed, hist>>
      BY <1>1 DEF BeginShutdown, Running
    <2>2. SinkControl(configs, creating, objs, ring, sink, engine', closed, hist.overtaken)
      BY <2>1 DEF SinkInv, SinkControl
    <2>3. SmallSink(objs, ring, sink, engine, closed, hist.refused, hist.overtaken) =>
            SmallSink(objs, ring, sink, engine', closed, hist.refused, hist.overtaken)
      BY <2>1 DEF SmallSink
    <2> QED  BY <2>1, <2>2, <2>3 DEF SinkInv
  <1>2. CASE ShutdownDone
    <2>1. /\ engine = "closing" /\ ring = <<>> /\ DOMAIN sink.nodes \subseteq closed
          /\ engine' = "down" /\ sink' = Cleared(sink) /\ sink.fault = "none"
          /\ UNCHANGED <<configs, creating, objs, ring, closed, hist>>
      BY <1>2 DEF ShutdownDone
    <2>2. creating = None /\ DOMAIN sink.nodes = {h.id : h \in configs}
      BY <2>1 DEF SinkInv, SinkControl
    <2>3. DOMAIN sink.nodes = DOMAIN objs  BY <2>2, ManagerFacts
    <2>4. SinkControl(configs, creating, objs, ring, sink', engine', closed, hist.overtaken)
      BY <2>1, <2>2 DEF SinkControl
    <2>5. sink'.files = sink.files /\ sink'.fault = "none"
      <3>1. SinkDom(sink)  BY DEF ManagerInv, Registered, SinkDom
      <3> QED  BY <2>1, <3>1 DEF Cleared, SinkDom
    <2>6. ASSUME Cardinality(DOMAIN objs) <= MAX_LRU_CACHE_SIZE
          PROVE  SmallSink(objs, ring, sink', engine', closed, hist.refused, hist.overtaken)
      <3>1. SmallSink(objs, ring, sink, engine, closed, hist.refused, hist.overtaken)
        BY <2>6 DEF SinkInv
      <3>2. ASSUME ~ hist.overtaken, NEW i \in DOMAIN objs \ hist.refused
            PROVE  sink.files[i] = Whole(objs[i].logged)
        <4>1. FileOf(objs, ring, sink, closed, i) /\ i \in closed
          BY <2>1, <2>3, <3>1, <3>2 DEF SmallSink
        <4>2. PICK k \in 1..objs[i].logged :
                Pending(ring, i, k, objs[i].logged) /\ sink.files[i] = Whole(k)
          BY <4>1 DEF FileOf
        <4>3. objs[i].logged \in Nat  BY ManagerFacts
        <4>4. 1..Len(ring) = {}  BY <2>1
        <4>5. ~ (objs[i].logged \in (k + 1)..objs[i].logged)  BY <4>2, <4>4 DEF Pending
        <4>6. k = objs[i].logged  BY <4>3, <4>5
        <4> QED  BY <4>2, <4>6
      <3> QED  BY <2>1, <2>5, <3>2 DEF SmallSink
    <2> QED  BY <2>1, <2>4, <2>6 DEF SinkInv
  <1> QED  BY <1>1, <1>2

LEMMA InitSink == Init => SinkInv
  <1> SUFFICES ASSUME Init PROVE SinkInv
    OBVIOUS
  <1>1. /\ configs = {} /\ creating = None /\ objs = <<>> /\ ring = <<>> /\ sink = NewSink
        /\ engine = "up" /\ closed = {}
    BY DEF Init
  <1>2. /\ SinkDom(sink) /\ sink.nodes = <<>> /\ sink.lru = <<>> /\ sink.count = 0
        /\ sink.files = <<>> /\ sink.fault = "none"
    BY <1>1 DEF NewSink, SinkDom
  <1>3. DOMAIN sink.nodes = {} /\ DOMAIN sink.files = {} /\ Len(sink.lru) = 0  BY <1>2
  <1>4. Listed(sink) = {}  BY <1>3 DEF Listed
  <1>5. IsFiniteSet({}) /\ Cardinality({}) = 0  BY FS_EmptySet
  <1>6. sink.nodes \in [{} -> NodeRecs] /\ sink.lru \in Seq(CellRecs)  BY <1>2
  <1>7. Lru(sink, {}) /\ Named(sink)
    BY <1>2, <1>3, <1>4, <1>5, <1>6 DEF Lru, Named
  <1>8. SinkControl(configs, creating, objs, ring, sink, engine, closed, hist.overtaken)
    BY <1>1, <1>3 DEF SinkControl
  <1>9. SmallSink(objs, ring, sink, engine, closed, hist.refused, hist.overtaken)
    BY <1>1, <1>2, <1>3, <1>7 DEF SmallSink
  <1> QED  BY <1>8, <1>9 DEF SinkInv

LEMMA NextSink == ManagerInv /\ SinkInv /\ [Next]_vars => SinkInv'
  <1> SUFFICES ASSUME ManagerInv, SinkInv, [Next]_vars PROVE SinkInv'
    OBVIOUS
  <1>1. CASE CreateBegin  BY <1>1, CreateBeginSink
  <1>2. CASE \E ok \in BOOLEAN : CreateEnd(ok) \/ Drain(ok)  BY <1>2, CreateEndSink, DrainSink
  <1>3. CASE \/ \E h \in Handles : remove_session(h) \/ send(h) \/ stop_session(h)
             \/ stop_all \/ RunSend \/ reconnect_session_impl_ \/ \E i \in Ids : HandlersGone(i)
    BY <1>3, QuietSteps
  <1>4. CASE RunStop \/ RunStopAll  BY <1>4, StopSteps
  <1>5. CASE \/ \E c \in connects : Connected(c) \/ ConnectFailed(c)
             \/ \E i \in Ids : TransportDown(i)
    BY <1>5, ConnectionSteps
  <1>6. CASE BeginShutdown \/ ShutdownDone  BY <1>6, ShutdownSink
  <1>7. CASE \E n \in DOMAIN sink.nodes, ok \in BOOLEAN : CloseNode(n, ok)  BY <1>7, CloseNodeSink
  <1>8. CASE UNCHANGED vars
    <2>1. /\ configs' = configs /\ creating' = creating /\ objs' = objs /\ ring' = ring
          /\ sink' = sink /\ engine' = engine /\ closed' = closed /\ hist' = hist
      BY <1>8 DEF vars
    <2> QED  BY <2>1 DEF SinkInv
  <1> QED  BY <1>1, <1>2, <1>3, <1>4, <1>5, <1>6, <1>7, <1>8 DEF Next, RunStrand

\* LogFileSink with no more sessions than files that may be open: every entry
\* that was logged is in its file or in the ring, in order, and the nodes that
\* were opened are found in the LRU list.
THEOREM SinkInvariance == Spec => [](ManagerInv /\ SinkInv)
  <1>1. Init => ManagerInv /\ SinkInv  BY InitInv, InitSink
  <1>2. (ManagerInv /\ SinkInv) /\ [Next]_vars => (ManagerInv /\ SinkInv)'
    BY NextInv, NextSink
  <1> QED  BY <1>1, <1>2, PTL DEF Spec

\* touch and ensure_open: the list has the open files, each once, under the
\* iterator and the id of its session, and no iterator dangles.
THEOREM LruIsExact == Spec => []LruExact
  <1>1. ManagerInv /\ SinkInv => LruExact
    <2> SUFFICES ASSUME ManagerInv, SinkInv, Cardinality(Ids) <= MAX_LRU_CACHE_SIZE
                 PROVE  /\ sink.fault \in {"none", "unregistered"}
                        /\ engine = "up" =>
                             LET open == {n \in DOMAIN sink.nodes : sink.nodes[n].open}
                             IN  /\ sink.count = Cardinality(open) /\ Len(sink.lru) = sink.count
                                 /\ \A n \in open : /\ CellOf(sink, n) # 0
                                                    /\ sink.lru[CellOf(sink, n)].id = n
      BY DEF LruExact
    <2>1. SmallSink(objs, ring, sink, engine, closed, hist.refused, hist.overtaken)
      BY DEF SinkInv, Ids
    <2>2. sink.fault \in {"none", "unregistered"}  BY <2>1 DEF SmallSink
    <2>3. ASSUME engine = "up"
          PROVE  LET open == {n \in DOMAIN sink.nodes : sink.nodes[n].open}
                 IN  /\ sink.count = Cardinality(open) /\ Len(sink.lru) = sink.count
                     /\ \A n \in open : /\ CellOf(sink, n) # 0
                                        /\ sink.lru[CellOf(sink, n)].id = n
      <3> DEFINE open == {n \in DOMAIN sink.nodes : sink.nodes[n].open}
      <3>1. closed = {}  BY <2>3 DEF SinkInv, SinkControl
      <3>2. Lru(sink, {}) /\ Named(sink)  BY <2>1, <2>3, <3>1 DEF SmallSink
      <3>3. open = Listed(sink)  BY <3>2 DEF Lru, Listed
      <3> HIDE DEF open
      <3>4. sink.count = Cardinality(open) /\ Len(sink.lru) = sink.count  BY <3>2, <3>3 DEF Lru
      <3>5. ASSUME NEW n \in open
            PROVE  CellOf(sink, n) # 0 /\ sink.lru[CellOf(sink, n)].id = n
        <4>1. sink.lru \in Seq(CellRecs) /\ n \in Listed(sink)  BY <3>2, <3>3, <3>5 DEF Lru
        <4>2. \E k \in 1..Len(sink.lru) : sink.lru[k].cell = sink.nodes[n].iterator
          BY <3>2, <4>1 DEF Lru
        <4>3. /\ CellOf(sink, n) \in 0..Len(sink.lru) /\ CellOf(sink, n) # 0
              /\ sink.lru[CellOf(sink, n)].cell = sink.nodes[n].iterator
          BY <4>1, <4>2, CellOfIs
        <4>4. CellOf(sink, n) \in 1..Len(sink.lru)  BY <4>1, <4>3
        <4> QED  BY <3>2, <4>1, <4>3, <4>4 DEF Named
      <3> QED  BY <3>4, <3>5 DEF open
    <2> QED  BY <2>2, <2>3
  <1> QED  BY <1>1, SinkInvariance, PTL

\* write, close_file and shutdown: each file of a session is in the end one
\* array with all the entries of the session in the order they were logged.
THEOREM FilesAreWellFormed == Spec => []FilesWellFormed
  <1>1. SinkInv => FilesWellFormed
    <2> SUFFICES ASSUME SinkInv, engine = "down", ~ hist.overtaken,
                        Cardinality(Ids) <= MAX_LRU_CACHE_SIZE, NEW i \in Ids \ hist.refused
                 PROVE  sink.files[i] = Whole(objs[i].logged)
      BY DEF FilesWellFormed, Whole
    <2> QED  BY DEF SinkInv, SmallSink, Ids
  <1> QED  BY <1>1, SinkInvariance, PTL

=============================================================================
