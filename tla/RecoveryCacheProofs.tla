------------------------ MODULE RecoveryCacheProofs ------------------------
(***************************************************************************)
(* The theorems about RecoveryCache: for any window, any sizes of messages *)
(* and any growth of the buffer, size_ is exact, parked messages do not    *)
(* overlap, and the cache implements the map of RecoveryMap.               *)
(***************************************************************************)
EXTENDS RecoveryCache, FiniteSetTheorems, SequenceTheorems, TLAPS

-----------------------------------------------------------------------------
(* The inductive invariant *)

ByteValues == {Junk} \cup (Wires \X Nat)

\* A slot in use has bytes, so that it differs from an empty one.
SlotsInv == \A i \in Slots : slots[i] # KEmpty => slots[i].size > 0

CacheInv == TypeOK /\ data \in Seq(ByteValues) /\ SlotsInv /\ SizeExact /\ RegionsApart

-----------------------------------------------------------------------------
(* Lemmas *)

\* The numbers of the window and its slots correspond.
LEMMA WindowSlots ==
    ASSUME base \in Nat, NEW n \in Nat
    PROVE  /\ in_window(n) <=> n \in base..(base + Window - 1)
           /\ in_window(n) => slot_index(n) \in Slots
  BY CacheAssumption DEF in_window, slot_index, Slots

LEMMA WindowSize ==
    ASSUME base \in Nat
    PROVE  IsFiniteSet(base..(base + Window - 1)) /\ Cardinality(base..(base + Window - 1)) = Window
  <1>1. Window \in Nat \ {0}  BY CacheAssumption
  <1> QED  BY <1>1, FS_Interval

LEMMA ParkedFinite ==
    ASSUME TypeOK
    PROVE  /\ IsFiniteSet(Parked) /\ Cardinality(Parked) \in 0..Window
           /\ Parked \subseteq Nat
  <1>1. base \in Nat /\ Window \in Nat \ {0}  BY CacheAssumption DEF TypeOK
  <1>2. IsFiniteSet(base..(base + Window - 1)) /\ Cardinality(base..(base + Window - 1)) = Window
    BY <1>1, WindowSize
  <1>3. Parked \in SUBSET (base..(base + Window - 1))  BY DEF Parked
  <1>4. IsFiniteSet(Parked) /\ Cardinality(Parked) <= Window  BY <1>2, <1>3, FS_Subset
  <1>5. Cardinality(Parked) \in Nat  BY <1>4, FS_CardinalityType
  <1> QED  BY <1>1, <1>3, <1>4, <1>5

\* A slot in use belongs to a parked message.
LEMMA UsedIsParked ==
    ASSUME TypeOK, NEW i \in Slots, slots[i] # KEmpty
    PROVE  base + i \in Parked
  <1>1. base \in Nat /\ Window \in Nat \ {0} /\ i \in Nat  BY CacheAssumption DEF TypeOK, Slots
  <1>2. in_window(base + i) /\ slot_index(base + i) = i
    BY <1>1 DEF in_window, slot_index, Slots
  <1> QED  BY <1>1, <1>2 DEF Parked, contains, Slots

\* What SubSeq gives for a region that lies in the sequence.
LEMMA RegionOf ==
    ASSUME NEW S, NEW q \in Seq(S), NEW m \in Nat, NEW n \in Nat, m + n <= Len(q)
    PROVE  SubSeq(q, m + 1, m + n) = [i \in 1..n |-> q[m + i]]
  <1> DEFINE r == SubSeq(q, m + 1, m + n)
  <1>1. \A i \in (m + 1)..(m + n) : q[i] \in S  OBVIOUS
  <1>2. /\ r \in Seq(S) /\ Len(r) = (IF m + 1 <= m + n THEN m + n - (m + 1) + 1 ELSE 0)
        /\ \A i \in 1..(m + n - (m + 1) + 1) : r[i] = q[m + 1 + i - 1]
    BY <1>1, SubSeqProperties
  <1> HIDE DEF r
  <1>3. Len(r) = n /\ m + n - (m + 1) + 1 = n /\ \A i \in 1..n : m + 1 + i - 1 = m + i
    BY <1>2
  <1>4. \A i \in 1..n : r[i] = q[m + i]  BY <1>2, <1>3
  <1>5. r = [i \in 1..n |-> r[i]]  BY <1>2, <1>3
  <1>6. r = [i \in 1..n |-> q[m + i]]  BY <1>4, <1>5
  <1> QED  BY <1>6 DEF r

\* grow_buffer keeps what is in use and makes room.
LEMMA GrownProperties ==
    ASSUME TypeOK, data \in Seq(ByteValues), NEW w \in Wires
    PROVE  /\ Grown(w) \in Seq(ByteValues) /\ buffSize + Size[w] <= Len(Grown(w))
           /\ \A i \in 1..buffSize : Grown(w)[i] = data[i]
  <1>1. /\ buffSize \in Nat /\ Len(data) \in Nat /\ buffSize <= Len(data)
        /\ Size[w] \in Nat \ {0} /\ MinGrowth \in Nat
    BY CacheAssumption DEF TypeOK
  <1>2. CASE buffSize + Size[w] <= Len(data)  BY <1>1, <1>2 DEF Grown
  <1>3. CASE ~ (buffSize + Size[w] <= Len(data))
    <2> DEFINE n == Len(data) + Max2(buffSize + Size[w] - Len(data), MinGrowth)
    <2>1. n \in Nat /\ buffSize + Size[w] <= n  BY <1>1, <1>3 DEF Max2
    <2>2. Grown(w) = [i \in 1..n |-> IF i <= buffSize THEN data[i] ELSE Junk]
      BY <1>3 DEF Grown
    <2> HIDE DEF n
    <2>3. \A i \in 1..n : (IF i <= buffSize THEN data[i] ELSE Junk) \in ByteValues
      BY <1>1, <2>1 DEF ByteValues
    <2>4. Grown(w) \in Seq(ByteValues) /\ Len(Grown(w)) = n  BY <2>1, <2>2, <2>3
    <2>5. \A i \in 1..buffSize : Grown(w)[i] = data[i]  BY <1>1, <2>1, <2>2
    <2> QED  BY <2>1, <2>4, <2>5
  <1> QED  BY <1>2, <1>3

\* insert writes behind what is in use.
LEMMA InsertedData ==
    ASSUME TypeOK, data \in Seq(ByteValues), NEW n, NEW w \in Wires, insert(n, w)
    PROVE  /\ data' \in Seq(ByteValues) /\ buffSize + Size[w] <= Len(data')
           /\ \A i \in 1..buffSize : data'[i] = data[i]
           /\ \A i \in 1..Size[w] : data'[buffSize + i] = Bytes(w)[i]
  <1>1. buffSize \in Nat /\ Size[w] \in Nat \ {0}  BY CacheAssumption DEF TypeOK
  <1> DEFINE g == Grown(w)
  <1>2. /\ g \in Seq(ByteValues) /\ buffSize + Size[w] <= Len(g)
        /\ \A i \in 1..buffSize : g[i] = data[i]
    BY GrownProperties
  <1>3. data' = [i \in 1..Len(g) |-> IF i \in (buffSize + 1)..(buffSize + Size[w])
                                     THEN Bytes(w)[i - buffSize] ELSE g[i]]
    BY DEF insert
  <1> HIDE DEF g
  <1>4. ASSUME NEW i \in 1..Size[w] PROVE Bytes(w)[i] \in ByteValues
    <2>1. Bytes(w)[i] = <<w, i>> /\ i \in Nat  BY <1>1 DEF Bytes
    <2> QED  BY <2>1 DEF ByteValues
  <1>5. Len(g) \in Nat  BY <1>2
  <1>6. ASSUME NEW i \in 1..Len(g)
        PROVE  (IF i \in (buffSize + 1)..(buffSize + Size[w])
                THEN Bytes(w)[i - buffSize] ELSE g[i]) \in ByteValues
    <2>1. i \in (buffSize + 1)..(buffSize + Size[w]) => i - buffSize \in 1..Size[w]
      BY <1>1, <1>5
    <2>2. g[i] \in ByteValues  BY <1>2
    <2> QED  BY <1>4, <2>1, <2>2
  <1>7. data' \in Seq(ByteValues) /\ Len(data') = Len(g)  BY <1>3, <1>5, <1>6
  <1>8. \A i \in 1..buffSize : data'[i] = data[i]  BY <1>1, <1>2, <1>3, <1>5
  <1>9. ASSUME NEW i \in 1..Size[w] PROVE data'[buffSize + i] = Bytes(w)[i]
    <2> DEFINE k == buffSize + i
    <2>1. k \in 1..Len(g) /\ k \in (buffSize + 1)..(buffSize + Size[w]) /\ k - buffSize = i
      BY <1>1, <1>2, <1>5
    <2> HIDE DEF k
    <2>2. data'[k] = Bytes(w)[k - buffSize]  BY <1>3, <2>1
    <2>3. data'[k] = Bytes(w)[i]  BY <2>1, <2>2
    <2> QED  BY <2>3 DEF k
  <1> QED  BY <1>2, <1>7, <1>8, <1>9

-----------------------------------------------------------------------------
(* What each operation does to the parked messages *)

LEMMA StartEmpties ==
    ASSUME base \in Nat, NEW n \in Nat, start(n)
    PROVE  Parked' = {} /\ \A i \in Slots : slots'[i] = KEmpty
  <1>1. \A i \in Slots : slots'[i] = KEmpty  BY DEF start
  <1>2. ASSUME NEW k \in n..(n + Window - 1) PROVE ~ contains(k)'
    <2>1. k - n \in Slots  BY CacheAssumption DEF Slots
    <2> QED  BY <1>1, <2>1 DEF contains, slot_index, start
  <1> QED  BY <1>1, <1>2 DEF Parked, start

LEMMA ConsumeRemoves ==
    ASSUME TypeOK, NEW n \in Nat, consume(n)
    PROVE  /\ n \in Parked /\ Parked' = Parked \ {n}
           /\ slot_index(n) \in Slots /\ slots'[slot_index(n)] = KEmpty
           /\ \A i \in Slots \ {slot_index(n)} : slots'[i] = slots[i]
  <1>1. base \in Nat /\ Window \in Nat \ {0} /\ slots \in [Slots -> [offset : Nat, size : Nat]]
    BY CacheAssumption DEF TypeOK
  <1>2. /\ contains(n) /\ base' = base /\ slots' = [slots EXCEPT ![slot_index(n)] = KEmpty]
    BY DEF consume
  <1>3. in_window(n) /\ n \in base..(base + Window - 1) /\ slot_index(n) \in Slots
    BY <1>1, <1>2, WindowSlots DEF contains
  <1>4. /\ slots'[slot_index(n)] = KEmpty
        /\ \A i \in Slots \ {slot_index(n)} : slots'[i] = slots[i]
    BY <1>1, <1>2, <1>3
  <1>5. ASSUME NEW k \in base..(base + Window - 1)
        PROVE  contains(k)' <=> contains(k) /\ k # n
    <2>1. k \in Nat /\ in_window(k) /\ in_window(k)' /\ slot_index(k) \in Slots
      BY <1>1, <1>2, WindowSlots DEF in_window
    <2>2. slot_index(k)' = slot_index(k)  BY <1>2 DEF slot_index
    <2>3. slot_index(k) = slot_index(n) <=> k = n  BY <1>1, <2>1 DEF slot_index
    <2> QED  BY <1>4, <2>1, <2>2, <2>3 DEF contains
  <1> QED  BY <1>2, <1>3, <1>4, <1>5 DEF Parked

LEMMA InsertAdds ==
    ASSUME TypeOK, NEW n \in Nat, NEW w \in Wires, insert(n, w)
    PROVE  /\ n \notin Parked /\ Parked' = Parked \cup {n} /\ slot_index(n) \in Slots
           /\ slots[slot_index(n)] = KEmpty
           /\ slots'[slot_index(n)] = [offset |-> buffSize, size |-> Size[w]]
           /\ slots'[slot_index(n)] # KEmpty
           /\ \A i \in Slots \ {slot_index(n)} : slots'[i] = slots[i]
  <1>1. /\ base \in Nat /\ Window \in Nat \ {0} /\ slots \in [Slots -> [offset : Nat, size : Nat]]
        /\ Size[w] \in Nat \ {0}
    BY CacheAssumption DEF TypeOK
  <1>2. /\ in_window(n) /\ ~ contains(n) /\ base' = base
        /\ slots' = [slots EXCEPT ![slot_index(n)] = [offset |-> buffSize, size |-> Size[w]]]
    BY DEF insert
  <1>3. n \in base..(base + Window - 1) /\ slot_index(n) \in Slots  BY <1>1, <1>2, WindowSlots
  <1>4. /\ slots'[slot_index(n)] = [offset |-> buffSize, size |-> Size[w]]
        /\ \A i \in Slots \ {slot_index(n)} : slots'[i] = slots[i]
    BY <1>1, <1>2, <1>3
  <1>5. slots'[slot_index(n)] # KEmpty  BY <1>1, <1>4 DEF KEmpty
  <1>6. slots[slot_index(n)] = KEmpty  BY <1>2 DEF contains
  <1>7. ASSUME NEW k \in base..(base + Window - 1)
        PROVE  contains(k)' <=> contains(k) \/ k = n
    <2>1. k \in Nat /\ in_window(k) /\ in_window(k)' /\ slot_index(k) \in Slots
      BY <1>1, <1>2, WindowSlots DEF in_window
    <2>2. slot_index(k)' = slot_index(k)  BY <1>2 DEF slot_index
    <2>3. slot_index(k) = slot_index(n) <=> k = n  BY <1>1, <2>1 DEF slot_index
    <2> QED  BY <1>4, <1>5, <2>1, <2>2, <2>3 DEF contains
  <1> QED  BY <1>2, <1>3, <1>4, <1>5, <1>6, <1>7 DEF Parked

-----------------------------------------------------------------------------
(* Invariance *)

LEMMA InitCache ==
    Init => CacheInv /\ Parked = {}
  <1> SUFFICES ASSUME Init PROVE CacheInv /\ Parked = {}  OBVIOUS
  <1>1. Window \in Nat \ {0} /\ InitialCapacity \in Nat  BY CacheAssumption
  <1>2. data \in Seq(ByteValues) /\ Len(data) \in Nat  BY <1>1 DEF Init, ByteValues
  <1>3. TypeOK  BY <1>1, <1>2 DEF Init, TypeOK, KEmpty
  <1>4. \A i \in Slots : slots[i] = KEmpty  BY DEF Init
  <1>5. Parked = {}
    <2>1. ASSUME NEW k \in base..(base + Window - 1) PROVE ~ contains(k)
      <3>1. slot_index(k) \in Slots  BY <1>1 DEF Init, slot_index, Slots
      <3> QED  BY <1>4, <3>1 DEF contains
    <2> QED  BY <2>1 DEF Parked
  <1>6. SizeExact  BY <1>5, FS_EmptySet DEF SizeExact, Init
  <1> QED  BY <1>2, <1>3, <1>4, <1>5, <1>6 DEF CacheInv, SlotsInv, RegionsApart

LEMMA StartKeeps ==
    ASSUME CacheInv, NEW n \in SeqNums, start(n)
    PROVE  CacheInv'
  <1>1. /\ TypeOK /\ base \in Nat /\ n \in Nat /\ Window \in Nat \ {0}
        /\ data \in Seq(ByteValues) /\ Len(data) \in Nat
    BY CacheAssumption DEF CacheInv, TypeOK
  <1>2. Parked' = {} /\ \A i \in Slots : slots'[i] = KEmpty  BY <1>1, StartEmpties
  <1>3. TypeOK'  BY <1>1 DEF TypeOK, start, KEmpty
  <1>4. SizeExact'  BY <1>2, FS_EmptySet DEF SizeExact, start
  <1> QED  BY <1>1, <1>2, <1>3, <1>4 DEF CacheInv, SlotsInv, RegionsApart, start

LEMMA ConsumeKeeps ==
    ASSUME CacheInv, NEW n \in SeqNums, consume(n)
    PROVE  CacheInv'
  <1>1. /\ TypeOK /\ n \in Nat /\ SlotsInv /\ SizeExact /\ RegionsApart
        /\ slots \in [Slots -> [offset : Nat, size : Nat]]
        /\ base \in Nat /\ size \in 0..Window /\ Window \in Nat \ {0}
        /\ data \in Seq(ByteValues) /\ Len(data) \in Nat /\ buffSize \in 0..Len(data)
    BY CacheAssumption DEF CacheInv, TypeOK
  <1>2. /\ data' = data /\ base' = base /\ size' = size - 1
        /\ buffSize' = IF size = 1 THEN 0 ELSE buffSize
        /\ slots' = [slots EXCEPT ![slot_index(n)] = KEmpty]
    BY DEF consume
  <1>3. /\ n \in Parked /\ Parked' = Parked \ {n}
        /\ slot_index(n) \in Slots /\ slots'[slot_index(n)] = KEmpty
        /\ \A i \in Slots \ {slot_index(n)} : slots'[i] = slots[i]
    BY <1>1, ConsumeRemoves
  <1>4. IsFiniteSet(Parked) /\ Cardinality(Parked) \in 0..Window  BY <1>1, ParkedFinite
  <1>5. IsFiniteSet(Parked') /\ Cardinality(Parked') = Cardinality(Parked) - 1
    BY <1>3, <1>4, FS_RemoveElement
  <1>6. SizeExact'  BY <1>1, <1>2, <1>5 DEF SizeExact
  <1>7. size # 0
    <2>1. Parked # {}  BY <1>3
    <2> QED  BY <1>1, <1>4, <2>1, FS_EmptySet DEF SizeExact
  <1>8. KEmpty \in [offset : Nat, size : Nat]  BY DEF KEmpty
  <1>9. TypeOK'
    <2>1. slots' \in [Slots -> [offset : Nat, size : Nat]]  BY <1>1, <1>2, <1>8
    <2>2. size' \in 0..Window /\ buffSize' \in 0..Len(data')  BY <1>1, <1>2, <1>7
    <2> QED  BY <1>1, <1>2, <2>1, <2>2 DEF TypeOK
  <1>10. SlotsInv'  BY <1>1, <1>3 DEF SlotsInv
  <1>11. RegionsApart'
    <2>1. CASE size = 1
      <3>1. Parked' = {}  BY <1>1, <1>5, <2>1, FS_EmptySet DEF SizeExact
      <3>2. ASSUME NEW i \in Slots, slots'[i] # KEmpty PROVE FALSE
        <4>1. i # slot_index(n) /\ slots[i] # KEmpty  BY <1>3, <3>2
        <4>2. base + i \in Parked  BY <1>1, <4>1, UsedIsParked
        <4>3. base + i # n  BY <1>1, <4>1 DEF slot_index, Slots
        <4> QED  BY <1>3, <3>1, <4>2, <4>3
      <3> QED  BY <3>2 DEF RegionsApart
    <2>2. CASE size # 1  BY <1>1, <1>2, <1>3, <2>2 DEF RegionsApart
    <2> QED  BY <2>1, <2>2
  <1> QED  BY <1>1, <1>2, <1>6, <1>9, <1>10, <1>11 DEF CacheInv

LEMMA InsertKeeps ==
    ASSUME CacheInv, NEW n \in SeqNums, NEW w \in Wires, insert(n, w)
    PROVE  CacheInv'
  <1>1. /\ TypeOK /\ n \in Nat /\ SlotsInv /\ SizeExact /\ RegionsApart
        /\ slots \in [Slots -> [offset : Nat, size : Nat]]
        /\ base \in Nat /\ size \in 0..Window /\ Window \in Nat \ {0}
        /\ data \in Seq(ByteValues) /\ Len(data) \in Nat /\ buffSize \in 0..Len(data)
        /\ Size[w] \in Nat \ {0}
    BY CacheAssumption DEF CacheInv, TypeOK
  <1>2. /\ base' = base /\ size' = size + 1 /\ buffSize' = buffSize + Size[w]
        /\ slots' = [slots EXCEPT ![slot_index(n)] = [offset |-> buffSize, size |-> Size[w]]]
    BY DEF insert
  <1>3. data' \in Seq(ByteValues) /\ buffSize + Size[w] <= Len(data')  BY <1>1, InsertedData
  <1>4. /\ n \notin Parked /\ Parked' = Parked \cup {n} /\ slot_index(n) \in Slots
        /\ slots'[slot_index(n)] = [offset |-> buffSize, size |-> Size[w]]
        /\ \A i \in Slots \ {slot_index(n)} : slots'[i] = slots[i]
    BY <1>1, InsertAdds
  <1>5. IsFiniteSet(Parked) /\ Cardinality(Parked) \in 0..Window  BY <1>1, ParkedFinite
  <1>6. Cardinality(Parked') = Cardinality(Parked) + 1  BY <1>4, <1>5, FS_AddElement
  <1>7. SizeExact'  BY <1>1, <1>2, <1>6 DEF SizeExact
  <1>8. size' \in 0..Window
    <2>1. base..(base + Window - 1) = (base..(base + Window - 1))' /\ Parked' \subseteq base..(base + Window - 1)
      BY <1>2 DEF Parked
    <2>2. IsFiniteSet(base..(base + Window - 1)) /\ Cardinality(base..(base + Window - 1)) = Window
      BY <1>1, WindowSize
    <2>3. Cardinality(Parked') <= Window  BY <2>1, <2>2, FS_Subset
    <2> QED  BY <1>1, <1>2, <1>6, <2>3 DEF SizeExact
  <1>9. TypeOK'
    <2>1. [offset |-> buffSize, size |-> Size[w]] \in [offset : Nat, size : Nat]  BY <1>1
    <2>2. slots' \in [Slots -> [offset : Nat, size : Nat]]  BY <1>1, <1>2, <2>1
    <2>3. buffSize' \in 0..Len(data')  BY <1>1, <1>2, <1>3
    <2> QED  BY <1>1, <1>2, <1>8, <2>2, <2>3 DEF TypeOK
  <1>10. SlotsInv'  BY <1>1, <1>4 DEF SlotsInv
  <1>11. RegionsApart'
    <2> SUFFICES ASSUME NEW i \in Slots, slots'[i] # KEmpty
                 PROVE  /\ slots'[i].offset + slots'[i].size <= buffSize'
                        /\ \A j \in Slots \ {i} : slots'[j] # KEmpty =>
                              \/ slots'[i].offset + slots'[i].size <= slots'[j].offset
                              \/ slots'[j].offset + slots'[j].size <= slots'[i].offset
      BY DEF RegionsApart
    <2>1. \A j \in Slots \ {slot_index(n)} : slots'[j] # KEmpty =>
             /\ slots'[j].offset + slots'[j].size <= buffSize
             /\ slots'[j].offset \in Nat /\ slots'[j].size \in Nat
      BY <1>1, <1>4 DEF RegionsApart
    <2>2. CASE i = slot_index(n)  BY <1>1, <1>2, <1>4, <2>1, <2>2
    <2>3. CASE i # slot_index(n)
      <3>1. slots'[i].offset + slots'[i].size <= buffSize'  BY <1>1, <1>2, <2>1, <2>3
      <3>2. ASSUME NEW j \in Slots \ {i}, slots'[j] # KEmpty
            PROVE  \/ slots'[i].offset + slots'[i].size <= slots'[j].offset
                   \/ slots'[j].offset + slots'[j].size <= slots'[i].offset
        <4>1. CASE j = slot_index(n)  BY <1>4, <2>1, <2>3, <4>1
        <4>2. CASE j # slot_index(n)  BY <1>1, <1>4, <2>3, <3>2, <4>2 DEF RegionsApart
        <4> QED  BY <4>1, <4>2
      <3> QED  BY <3>1, <3>2
    <2> QED  BY <2>2, <2>3
  <1> QED  BY <1>3, <1>7, <1>9, <1>10, <1>11 DEF CacheInv

LEMMA NextCache ==
    CacheInv /\ [Next]_vars => CacheInv'
  <1> SUFFICES ASSUME CacheInv, [Next]_vars PROVE CacheInv'  OBVIOUS
  <1>1. CASE Next  BY <1>1, StartKeeps, ConsumeKeeps, InsertKeeps DEF Next
  <1>2. CASE UNCHANGED vars
    <2>1. Parked' = Parked  BY <1>2 DEF vars, Parked, contains, in_window, slot_index
    <2> QED
      BY <1>2, <2>1 DEF vars, CacheInv, TypeOK, SlotsInv, SizeExact, RegionsApart
  <1> QED  BY <1>1, <1>2

(***************************************************************************)
(* Spec => []CacheInv, and with it the type invariant, the exactness of    *)
(* size_ that RecoveryCache::empty answers from, and that no parked        *)
(* message lies over another or beyond buff_size_.                         *)
(***************************************************************************)
THEOREM CacheInvariance == Spec => []CacheInv
  <1> QED  BY InitCache, NextCache, PTL DEF Spec

\* Spec => []TypeOK: buff_size_ never passes the capacity, size_ never the window.
THEOREM CacheTypes == Spec => []TypeOK
  <1>1. CacheInv => TypeOK  BY DEF CacheInv
  <1> QED  BY <1>1, CacheInvariance, PTL

\* Spec => []SizeExact: RecoveryCache::empty is right about the window.
THEOREM SizeIsExact == Spec => []SizeExact
  <1>1. CacheInv => SizeExact  BY DEF CacheInv
  <1> QED  BY <1>1, CacheInvariance, PTL

\* Spec => []RegionsApart: parked messages never share a byte.
THEOREM MessagesApart == Spec => []RegionsApart
  <1>1. CacheInv => RegionsApart  BY DEF CacheInv
  <1> QED  BY <1>1, CacheInvariance, PTL

-----------------------------------------------------------------------------
(* The cache implements the map *)

\* What get returns lies in the buffer.
LEMMA GetIs ==
    ASSUME CacheInv, NEW k \in Parked
    PROVE  LET b == slots[slot_index(k)]
           IN  /\ slot_index(k) \in Slots /\ b # KEmpty /\ b.offset \in Nat /\ b.size \in Nat
               /\ b.offset + b.size <= buffSize
               /\ get(k) = [i \in 1..b.size |-> data[b.offset + i]]
  <1>1. /\ TypeOK /\ base \in Nat /\ slots \in [Slots -> [offset : Nat, size : Nat]]
        /\ RegionsApart /\ data \in Seq(ByteValues)
        /\ buffSize \in Nat /\ buffSize <= Len(data) /\ Len(data) \in Nat
    BY DEF CacheInv, TypeOK
  <1>2. k \in Nat  BY <1>1, ParkedFinite
  <1>3. contains(k)  BY DEF Parked
  <1>4. slot_index(k) \in Slots /\ slots[slot_index(k)] # KEmpty
    BY <1>1, <1>2, <1>3, WindowSlots DEF contains
  <1> DEFINE b == slots[slot_index(k)]
  <1>5. b.offset \in Nat /\ b.size \in Nat /\ b.offset + b.size <= buffSize
    BY <1>1, <1>4 DEF RegionsApart
  <1>6. b.offset + b.size <= Len(data)  BY <1>1, <1>5
  <1>7. SubSeq(data, b.offset + 1, b.offset + b.size) = [i \in 1..b.size |-> data[b.offset + i]]
    BY <1>1, <1>5, <1>6, RegionOf
  <1> QED  BY <1>4, <1>5, <1>7 DEF get

\* Slots of different parked messages differ.
LEMMA SlotsDiffer ==
    ASSUME TypeOK, NEW k \in Parked, NEW n \in Nat, k # n
    PROVE  slot_index(k) # slot_index(n)
  <1>1. k \in Nat /\ base \in Nat  BY ParkedFinite DEF TypeOK
  <1> QED  BY <1>1 DEF slot_index

LEMMA InitMaps ==
    Init => Map!Init
  BY InitCache DEF Map!Init, Map!Empty, Init

LEMMA StartMaps ==
    ASSUME CacheInv, NEW n \in SeqNums, start(n)
    PROVE  Map!Start(n)
  <1>1. base \in Nat /\ n \in Nat  BY CacheAssumption DEF CacheInv, TypeOK
  <1>2. Parked' = {}  BY <1>1, StartEmpties
  <1> QED  BY <1>2 DEF Map!Start, Map!Empty, start

LEMMA ConsumeMaps ==
    ASSUME CacheInv, CacheInv', NEW n \in SeqNums, consume(n)
    PROVE  Map!Consume(n)
  <1>1. TypeOK /\ n \in Nat  BY CacheAssumption DEF CacheInv
  <1>2. n \in Parked /\ Parked' = Parked \ {n} /\ base' = base
    BY <1>1, ConsumeRemoves DEF consume
  <1>3. ASSUME NEW k \in Parked \ {n} PROVE get(k)' = get(k)
    <2>1. slot_index(k) # slot_index(n) /\ slot_index(k) \in Slots  BY <1>1, GetIs, SlotsDiffer
    <2>2. slot_index(k)' = slot_index(k)  BY <1>2 DEF slot_index
    <2>3. slots'[slot_index(k)] = slots[slot_index(k)]  BY <1>1, <2>1, ConsumeRemoves
    <2> QED  BY <2>2, <2>3 DEF get, consume
  <1> QED  BY <1>2, <1>3 DEF Map!Consume, Map!Parks

LEMMA InsertMaps ==
    ASSUME CacheInv, CacheInv', NEW n \in SeqNums, NEW w \in Wires, insert(n, w)
    PROVE  Map!Insert(n, w)
  <1>1. /\ TypeOK /\ n \in Nat /\ data \in Seq(ByteValues) /\ buffSize \in Nat
        /\ Size[w] \in Nat \ {0}
    BY CacheAssumption DEF CacheInv, TypeOK
  <1>2. /\ n \notin Parked /\ Parked' = Parked \cup {n} /\ base' = base /\ slot_index(n) \in Slots
        /\ slots'[slot_index(n)] = [offset |-> buffSize, size |-> Size[w]]
        /\ \A i \in Slots \ {slot_index(n)} : slots'[i] = slots[i]
    BY <1>1, InsertAdds DEF insert
  <1>3. /\ data' \in Seq(ByteValues) /\ buffSize + Size[w] <= Len(data')
        /\ \A i \in 1..buffSize : data'[i] = data[i]
        /\ \A i \in 1..Size[w] : data'[buffSize + i] = Bytes(w)[i]
    BY <1>1, InsertedData
  <1>4. \A k : slot_index(k)' = slot_index(k)  BY <1>2 DEF slot_index
  <1>5. get(n)' = Bytes(w)
    <2> DEFINE b == slots'[slot_index(n)]
    <2>0. b.offset = buffSize /\ b.size = Size[w]  BY <1>2
    <2>1. get(n)' = SubSeq(data', buffSize + 1, buffSize + Size[w])  BY <1>4, <2>0 DEF get
    <2>2. get(n)' = [i \in 1..Size[w] |-> data'[buffSize + i]]  BY <1>1, <1>3, <2>1, RegionOf
    <2>3. Bytes(w) = [i \in 1..Size[w] |-> Bytes(w)[i]]  BY DEF Bytes
    <2> QED  BY <1>3, <2>2, <2>3
  <1>6. ASSUME NEW k \in Parked PROVE get(k)' = get(k)
    <2> DEFINE b == slots[slot_index(k)]
    <2>1. /\ slot_index(k) \in Slots /\ b.offset \in Nat /\ b.size \in Nat
          /\ b.offset + b.size <= buffSize
          /\ get(k) = [i \in 1..b.size |-> data[b.offset + i]]
      BY GetIs
    <2>2. slot_index(k) # slot_index(n)  BY <1>1, <1>2, SlotsDiffer
    <2>3. slots'[slot_index(k)] = b  BY <1>2, <2>1, <2>2
    <2>4. get(k)' = SubSeq(data', b.offset + 1, b.offset + b.size)  BY <1>4, <2>3 DEF get
    <2> HIDE DEF b
    <2>5. b.offset + b.size <= Len(data')  BY <1>1, <1>3, <2>1
    <2>6. get(k)' = [i \in 1..b.size |-> data'[b.offset + i]]  BY <1>3, <2>1, <2>4, <2>5, RegionOf
    <2>7. \A i \in 1..b.size : b.offset + i \in 1..buffSize  BY <1>1, <2>1
    <2>8. \A i \in 1..b.size : data'[b.offset + i] = data[b.offset + i]  BY <1>3, <2>7
    <2> QED  BY <2>1, <2>6, <2>8
  <1>7. in_window(n)  BY DEF insert
  <1>8. [k \in Parked' |-> get(k)'] =
           [k \in Parked \cup {n} |-> IF k = n THEN Bytes(w) ELSE [j \in Parked |-> get(j)][k]]
    BY <1>2, <1>5, <1>6
  <1> QED  BY <1>2, <1>7, <1>8 DEF Map!Insert, Map!Parks, Map!InWindow, in_window

(***************************************************************************)
(* Spec => ImplementsMap: whatever was inserted, consumed or grown since,  *)
(* RecoveryCache::get returns the bytes that insert was given under that   *)
(* number, and nothing is parked that was not inserted.                    *)
(***************************************************************************)
THEOREM CacheIsAMap == Spec => ImplementsMap
  <1>1. CacheInv /\ CacheInv' /\ [Next]_vars
          => [Map!Next]_<<base, [n \in Parked |-> get(n)]>>
    <2> SUFFICES ASSUME CacheInv, CacheInv', [Next]_vars
                 PROVE  [Map!Next]_<<base, [n \in Parked |-> get(n)]>>
      OBVIOUS
    <2>1. CASE Next
      BY <2>1, StartMaps, ConsumeMaps, InsertMaps DEF Next, Map!Next
    <2>2. CASE UNCHANGED vars
      BY <2>2 DEF vars, Parked, get, contains, in_window, slot_index
    <2> QED  BY <2>1, <2>2
  <1> QED  BY <1>1, InitMaps, CacheInvariance, PTL DEF Spec, ImplementsMap, Map!Spec
=============================================================================
