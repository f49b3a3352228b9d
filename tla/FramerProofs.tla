---------------------------- MODULE FramerProofs ----------------------------
(***************************************************************************)
(* The theorems about Framer, with the LinearBuffer and the Ring under it. *)
(***************************************************************************)
EXTENDS Framer, InductionLemmas, SequenceTheorems, TLAPS

-----------------------------------------------------------------------------
(* Numbers *)

LEMMA Sizes ==
    /\ Len(FirstField) \in Nat \ {0} /\ Len(LengthTag) \in Nat \ {0}
    /\ TrailerSize \in Nat /\ MaxMessageSize \in Nat /\ MinGrow \in Nat
    /\ MaxCompleted \in Nat \ {0} /\ StartCapacity \in Nat \ {0}
  BY FramerAssumption

LEMMA Max2 ==
    ASSUME NEW a \in Nat, NEW b \in Nat
    PROVE  B!Max({a, b}) = IF a >= b THEN a ELSE b
  <1>1. CASE a >= b  BY <1>1 DEF B!Max
  <1>2. CASE ~ (a >= b)  BY <1>2 DEF B!Max
  <1> QED  BY <1>1, <1>2

LEMMA Min2 ==
    ASSUME NEW a \in Nat, NEW b \in Nat
    PROVE  B!Min({a, b}) = IF a <= b THEN a ELSE b
  <1>1. CASE a <= b  BY <1>1 DEF B!Min
  <1>2. CASE ~ (a <= b)  BY <1>2 DEF B!Min
  <1> QED  BY <1>1, <1>2

LEMMA MinOf ==
    ASSUME NEW S \in SUBSET Nat, S # {}
    PROVE  B!Min(S) \in S /\ \A y \in S : B!Min(S) <= y
  <1>1. PICK n \in S : \A m \in S : n <= m  BY LeastNatural
  <1> QED  BY <1>1 DEF B!Min

LEMMA ModIs ==
    ASSUME NEW m \in Nat \ {0}, NEW x \in Nat, x < m + m
    PROVE  (x < m => x % m = x) /\ (x >= m => x % m = x - m)
  OBVIOUS

-----------------------------------------------------------------------------
(* The length field *)

Digit(c) == CHOOSE d \in 0..9 : Numerals[d + 1] = c

LEMMA DigitIs ==
    ASSUME NEW c, Contains(Numerals, c)
    PROVE  Digit(c) \in 0..9
  <1>1. Len(Numerals) = 10  BY DEF Numerals
  <1>2. PICK i \in 1..10 : Numerals[i] = c  BY <1>1 DEF Contains
  <1>3. i - 1 \in 0..9 /\ Numerals[i - 1 + 1] = c  BY <1>2
  <1> QED  BY <1>3 DEF Digit

LEMMA NumberIs ==
    ASSUME NEW n \in Nat, NEW ds, DOMAIN ds = 1..n, IsNumber(ds)
    PROVE  from_chars(ds) \in Nat
  <1> DEFINE g == CHOOSE f : f = [S \in SUBSET DOMAIN ds |->
                    IF S = {} THEN 0 ELSE 10 * f[S \ {Max(S)}] + Digit(ds[Max(S)])]
             st == [p \in Nat \X (1..n) |-> 10 * p[1] + Digit(ds[p[2]])]
  <1>1. from_chars(ds) = g[DOMAIN ds]  BY Zenon DEF from_chars, FoldLeft, MapThenFoldSet, Digit
  <1>2. \A i \in 1..n : Digit(ds[i]) \in 0..9  BY DigitIs DEF IsNumber
  <1>3. st \in [Nat \X (1..n) -> Nat]  BY <1>2
  <1>4. PICK f \in [SUBSET (1..n) -> Nat] : FoldOf(0, n, st, f)  BY <1>3, FoldOfExists
  <1>5. ASSUME NEW S \in SUBSET (1..n), S # {}
        PROVE  f[S] = 10 * f[S \ {Max(S)}] + Digit(ds[Max(S)])
    <2>1. Max(S) \in 1..n /\ S \ {Max(S)} \in SUBSET (1..n)  BY <1>5, MaxOf
    <2>2. f[S] = st[<<f[S \ {Max(S)}], Max(S)>>]  BY <1>4, <1>5 DEF FoldOf
    <2>3. <<f[S \ {Max(S)}], Max(S)>> \in Nat \X (1..n)  BY <2>1
    <2> QED  BY <2>2, <2>3
  <1>6. f[{}] = 0  BY <1>4 DEF FoldOf
  <1>7. f = [S \in SUBSET DOMAIN ds |->
               IF S = {} THEN 0 ELSE 10 * f[S \ {Max(S)}] + Digit(ds[Max(S)])]
    BY <1>5, <1>6
  <1>8. g = [S \in SUBSET DOMAIN ds |->
               IF S = {} THEN 0 ELSE 10 * g[S \ {Max(S)}] + Digit(ds[Max(S)])]
    BY <1>7
  <1> HIDE DEF g, st
  <1> DEFINE T == {k \in Nat : k <= n => g[1..k] \in Nat}
  <1>9. 0 \in T
    <2>1. 1..0 = {} /\ {} \in SUBSET DOMAIN ds  OBVIOUS
    <2>2. g[{}] = 0  BY <1>8, <2>1
    <2> QED  BY <2>1, <2>2
  <1>10. ASSUME NEW k \in Nat, k \in T PROVE k + 1 \in T
    <2> SUFFICES ASSUME k + 1 <= n PROVE g[1..(k + 1)] \in Nat
      OBVIOUS
    <2>1. g[1..k] \in Nat  BY <1>10
    <2>2. 1..(k + 1) \in SUBSET DOMAIN ds /\ k + 1 \in 1..n  OBVIOUS
    <2>3. g[1..(k + 1)] = 10 * g[1..k] + Digit(ds[k + 1])
      <3>1. /\ Max(1..(k + 1)) = k + 1 /\ (1..(k + 1)) \ {k + 1} = 1..k
            /\ 1..(k + 1) # {}
        BY LastOfInterval
      <3> DEFINE S == 1..(k + 1)
      <3> HIDE DEF S
      <3>2. g[S] = 10 * g[S \ {Max(S)}] + Digit(ds[Max(S)])  BY <1>8, <2>2, <3>1 DEF S
      <3> QED  BY <3>1, <3>2 DEF S
    <2>4. Digit(ds[k + 1]) \in Nat  BY <1>2, <2>2
    <2> QED  BY <2>1, <2>3, <2>4
  <1> HIDE DEF T
  <1>11. n \in T  BY <1>9, <1>10, SetInduction
  <1> QED  BY <1>1, <1>11 DEF T

-----------------------------------------------------------------------------
(* The buffer *)

BufferOK(b) ==
    /\ DOMAIN b = {"data", "cap", "head", "tail", "base"}
    /\ b.cap \in Nat /\ b.head \in Nat /\ b.tail \in Nat /\ b.base \in Nat
    /\ b.head <= b.tail /\ b.tail <= b.cap /\ DOMAIN b.data = 0..(b.cap - 1)

\* Absolute positions: the first readable byte, the one behind the last, and
\* the byte at a.
First(b) == b.base + b.head

Last1(b) == b.base + b.tail

ByteAt(b, a) == b.data[a - b.base]

\* w has the readable bytes of b where b has them.
SameBytes(b, w) ==
    /\ First(w) = First(b) /\ Last1(w) = Last1(b)
    /\ \A a \in First(b)..(Last1(b) - 1) : ByteAt(w, a) = ByteAt(b, a)

LEMMA MovedOK ==
    ASSUME NEW b, BufferOK(b), NEW cap \in Nat, NEW room, DOMAIN room = 0..(cap - 1),
           b.tail - b.head <= cap
    PROVE  LET w == B!MovedTo(b, room, cap)
           IN  BufferOK(w) /\ SameBytes(b, w) /\ w.cap = cap /\ w.tail = b.tail - b.head
  <1> DEFINE w == B!MovedTo(b, room, cap)
             n == b.tail - b.head
  <1>1. n \in Nat  BY DEF BufferOK
  <1>2. /\ w.cap = cap /\ w.head = 0 /\ w.tail = n /\ w.base = b.base + b.head
        /\ DOMAIN w = {"data", "cap", "head", "tail", "base"}
        /\ w.data = [i \in 0..(cap - 1) |-> IF i < n THEN b.data[b.head + i] ELSE room[i]]
    BY DEF B!MovedTo, B!readable_size
  <1> HIDE DEF w
  <1>3. BufferOK(w)  BY <1>1, <1>2 DEF BufferOK
  <1>4. First(w) = First(b) /\ Last1(w) = Last1(b)  BY <1>2 DEF First, Last1, BufferOK
  <1>5. ASSUME NEW a \in First(b)..(Last1(b) - 1) PROVE ByteAt(w, a) = ByteAt(b, a)
    <2>1. a - w.base \in 0..(cap - 1) /\ a - w.base < n /\ b.head + (a - w.base) = a - b.base
      BY <1>2, <1>5 DEF First, Last1, BufferOK
    <2>2. w.data[a - w.base] = b.data[b.head + (a - w.base)]  BY <1>2, <2>1
    <2> QED  BY <2>1, <2>2 DEF ByteAt
  <1>6. SameBytes(b, w)  BY <1>4, <1>5 DEF SameBytes
  <1> QED  BY <1>2, <1>3, <1>6 DEF w

LEMMA WritableOK ==
    ASSUME NEW b, BufferOK(b), NEW n \in Nat
    PROVE  LET w == B!ensure_writable(b, n)
           IN  BufferOK(w) /\ SameBytes(b, w) /\ w.tail + n <= w.cap
  <1> DEFINE m == b.tail - b.head
  <1>0. m \in Nat /\ m <= b.cap /\ b.cap \in Nat /\ b.tail \in Nat  BY DEF BufferOK
  <1>1. CASE b.tail + n <= b.cap
    <2>1. B!ensure_writable(b, n) = b  BY <1>0, <1>1 DEF B!ensure_writable
    <2>2. SameBytes(b, b)  BY DEF SameBytes
    <2> QED  BY <1>1, <2>1, <2>2
  <1>2. CASE b.tail + n > b.cap /\ b.head > 0 /\ m + n <= b.cap
    <2>1. B!ensure_writable(b, n) = B!MovedTo(b, b.data, b.cap)
      BY <1>0, <1>2 DEF B!ensure_writable, B!compact, B!readable_size
    <2>2. DOMAIN b.data = 0..(b.cap - 1)  BY DEF BufferOK
    <2> QED  BY <1>0, <1>2, <2>1, <2>2, MovedOK
  <1>3. CASE b.tail + n > b.cap /\ ~ (b.head > 0 /\ m + n <= b.cap)
    <2> DEFINE cap == B!Max({b.cap + B!Max({n, MinGrow}), m + n})
    <2>1. B!ensure_writable(b, n) = B!MovedTo(b, B!Fresh(cap), cap)
      BY <1>0, <1>3 DEF B!ensure_writable, B!grow, B!readable_size
    <2>2. B!Max({n, MinGrow}) \in Nat  BY Max2, Sizes
    <2>3. b.cap + B!Max({n, MinGrow}) \in Nat /\ m + n \in Nat  BY <1>0, <2>2
    <2>4. cap \in Nat /\ cap >= m + n
      <3> DEFINE x == b.cap + B!Max({n, MinGrow})
                 y == m + n
      <3> HIDE DEF x, y
      <3>1. B!Max({x, y}) = IF x >= y THEN x ELSE y  BY <2>3, Max2 DEF x, y
      <3>2. B!Max({x, y}) \in Nat /\ B!Max({x, y}) >= y  BY <2>3, <3>1 DEF x, y
      <3> QED  BY <3>2 DEF x, y
    <2> HIDE DEF cap
    <2>5. DOMAIN B!Fresh(cap) = 0..(cap - 1)  BY DEF B!Fresh
    <2>6. m <= cap  BY <1>0, <2>4
    <2> DEFINE room == B!Fresh(cap)
    <2> HIDE DEF room
    <2>7. /\ BufferOK(B!MovedTo(b, room, cap)) /\ SameBytes(b, B!MovedTo(b, room, cap))
          /\ B!MovedTo(b, room, cap).cap = cap /\ B!MovedTo(b, room, cap).tail = m
      BY <2>4, <2>5, <2>6, MovedOK DEF room
    <2> QED  BY <1>0, <2>1, <2>4, <2>7 DEF room
  <1> QED  BY <1>0, <1>1, <1>2, <1>3

\* The readable bytes are those of the stream s from First to the f-th.
Holding(b, s, f) ==
    /\ BufferOK(b) /\ Last1(b) = f
    /\ \A a \in First(b)..(f - 1) : ByteAt(b, a) = s[a + 1]

\* The index of a byte at the absolute position a, of n that are pushed at tail.
LEMMA IndexIs ==
    ASSUME NEW base \in Nat, NEW head \in Nat, NEW tail \in Nat, NEW cap \in Nat, NEW n \in Nat,
           tail + n <= cap, NEW f \in Nat, base + tail = f,
           NEW a \in (base + head)..(f + n - 1)
    PROVE  /\ a \in Nat /\ a - base \in Nat /\ a - base \in 0..(cap - 1) /\ a - base < tail + n
           /\ a < f => a - base < tail
           /\ a >= f => /\ a - base >= tail /\ a - base - tail + 1 \in 1..n
                        /\ f + (a - base - tail + 1) = a + 1
  OBVIOUS

LEMMA PushHolding ==
    ASSUME NEW b, NEW s, s \in Seq(ToSet(s)), NEW f \in Nat, NEW n \in Nat, f + n <= Len(s), Holding(b, s, f)
    PROVE  LET w == B!push(b, SubSeq(s, f + 1, f + n))
           IN  Holding(w, s, f + n) /\ First(w) = First(b)
  <1> DEFINE items == SubSeq(s, f + 1, f + n)
             v == B!ensure_writable(b, n)
             w == B!push(b, items)
  <1>1. /\ Len(items) = n /\ \A i \in 1..n : items[i] = s[f + i]
    <2>1. /\ f + 1 \in Int /\ f + n \in Int /\ Len(s) \in Nat
          /\ \A i \in (f + 1)..(f + n) : s[i] \in ToSet(s)
      OBVIOUS
    <2>2. /\ Len(items) = IF f + 1 <= f + n THEN f + n - (f + 1) + 1 ELSE 0
          /\ \A i \in 1..(f + n - (f + 1) + 1) : items[i] = s[f + 1 + i - 1]
      BY <2>1, SubSeqProperties
    <2>3. \A i \in 1..n : f + 1 + i - 1 = f + i  OBVIOUS
    <2>4. f + n - (f + 1) + 1 = n  OBVIOUS
    <2> HIDE DEF items
    <2> QED  BY <2>2, <2>3, <2>4
  <1>2. BufferOK(v) /\ SameBytes(b, v) /\ v.tail + n <= v.cap
    BY WritableOK DEF Holding
  <1>3. w = [v EXCEPT !.data = [i \in DOMAIN v.data \cup v.tail..(v.tail + n - 1) |->
                                  IF i >= v.tail /\ i < v.tail + n
                                  THEN items[i - v.tail + 1] ELSE v.data[i]],
                      !.tail = v.tail + n]
    BY <1>1 DEF B!push
  <1> HIDE DEF items, v, w
  <1>4. /\ v.cap \in Nat /\ v.head \in Nat /\ v.tail \in Nat /\ v.base \in Nat
        /\ v.head <= v.tail /\ v.tail <= v.cap /\ DOMAIN v.data = 0..(v.cap - 1)
    BY <1>2 DEF BufferOK
  <1>5. DOMAIN v.data \cup v.tail..(v.tail + n - 1) = 0..(v.cap - 1)
    BY <1>2, <1>4
  <1>6. /\ DOMAIN w = {"data", "cap", "head", "tail", "base"}
        /\ w.cap = v.cap /\ w.head = v.head /\ w.tail = v.tail + n /\ w.base = v.base
        /\ w.data = [i \in 0..(v.cap - 1) |->
                       IF i >= v.tail /\ i < v.tail + n
                       THEN items[i - v.tail + 1] ELSE v.data[i]]
    BY <1>2, <1>3, <1>5 DEF BufferOK
  <1>7. BufferOK(w)  BY <1>2, <1>4, <1>6 DEF BufferOK
  <1>8. /\ First(w) = First(v) /\ First(v) = First(b) /\ Last1(v) = f /\ Last1(w) = f + n
        /\ Last1(b) = f /\ First(b) \in Nat /\ v.base + v.tail = f /\ First(b) = v.base + v.head
    <2>1. Last1(b) = f /\ Last1(v) = Last1(b) /\ First(v) = First(b)
      BY <1>2 DEF SameBytes, Holding
    <2>2. First(v) = v.base + v.head /\ Last1(v) = v.base + v.tail  BY DEF First, Last1
    <2>3. First(w) = v.base + v.head /\ Last1(w) = v.base + (v.tail + n)
      BY <1>6 DEF First, Last1
    <2> QED  BY <1>4, <2>1, <2>2, <2>3
  <1>9. ASSUME NEW a \in First(w)..(f + n - 1) PROVE ByteAt(w, a) = s[a + 1]
    <2> DEFINE i == a - v.base
    <2>0. a \in (v.base + v.head)..(f + n - 1)  BY <1>8, <1>9
    <2>1. /\ a \in Nat /\ i \in Nat /\ i \in 0..(v.cap - 1) /\ i < v.tail + n
          /\ a < f => i < v.tail
          /\ a >= f => i >= v.tail /\ i - v.tail + 1 \in 1..n /\ f + (i - v.tail + 1) = a + 1
      <3> DEFINE base == v.base  head == v.head  tail == v.tail  cap == v.cap
      <3>1. /\ base \in Nat /\ head \in Nat /\ tail \in Nat /\ cap \in Nat
            /\ tail + n <= cap /\ base + tail = f /\ a \in (base + head)..(f + n - 1)
            /\ i = a - base
        BY <1>2, <1>4, <1>8, <2>0
      <3> HIDE DEF base, head, tail, cap, i
      <3>2. /\ a \in Nat /\ i \in Nat /\ i \in 0..(cap - 1) /\ i < tail + n
            /\ a < f => i < tail
            /\ a >= f => i >= tail /\ i - tail + 1 \in 1..n /\ f + (i - tail + 1) = a + 1
        BY <3>1, IndexIs
      <3> QED  BY <3>2 DEF tail, cap
    <2> HIDE DEF i
    <2>2. CASE a < f
      <3>1. i < v.tail  BY <2>1, <2>2
      <3>2. w.data[i] = v.data[i]  BY <1>4, <1>6, <2>1, <3>1
      <3>3. a \in First(b)..(f - 1)  BY <1>8, <1>9, <2>1, <2>2
      <3>4. ByteAt(v, a) = ByteAt(b, a) /\ ByteAt(b, a) = s[a + 1]
        BY <1>2, <1>8, <3>3 DEF SameBytes, Holding
      <3> QED  BY <1>6, <3>2, <3>4 DEF ByteAt, i
    <2>3. CASE a >= f
      <3>1. i >= v.tail /\ i < v.tail + n /\ i - v.tail + 1 \in 1..n /\ f + (i - v.tail + 1) = a + 1
        BY <2>1, <2>3
      <3>2. w.data[i] = items[i - v.tail + 1]  BY <1>6, <2>1, <3>1
      <3> QED  BY <1>1, <1>6, <3>1, <3>2 DEF ByteAt, i
    <2> QED  BY <2>1, <2>2, <2>3
  <1>10. Holding(w, s, f + n)  BY <1>7, <1>8, <1>9 DEF Holding
  <1> QED  BY <1>8, <1>10 DEF w, items

LEMMA DiscardHolding ==
    ASSUME NEW b, NEW s, NEW f, Holding(b, s, f), NEW n \in 0..(b.tail - b.head)
    PROVE  LET w == B!discard_prefix(b, n)
           IN  Holding(w, s, f) /\ First(w) = First(b) + n
  <1> DEFINE d == [b EXCEPT !.head = b.head + n]
             w == B!discard_prefix(b, n)
  <1>1. /\ BufferOK(b) /\ b.head \in Nat /\ b.tail \in Nat /\ b.base \in Nat /\ b.head <= b.tail
        /\ b.tail <= b.cap /\ b.cap \in Nat /\ n \in Nat /\ n <= b.tail - b.head
    BY DEF Holding, BufferOK
  <1>2. /\ DOMAIN d = {"data", "cap", "head", "tail", "base"} /\ d.head = b.head + n
        /\ d.tail = b.tail /\ d.base = b.base /\ d.cap = b.cap /\ d.data = b.data
    BY DEF Holding, BufferOK
  <1>3. BufferOK(d) /\ First(d) = First(b) + n /\ Last1(d) = Last1(b) /\ First(d) \in Nat
    BY <1>1, <1>2 DEF BufferOK, First, Last1
  <1>4. w \in {d, B!compact(d), [d EXCEPT !.base = d.base + d.head, !.head = 0, !.tail = 0]}
        /\ (d.head = d.tail => w = [d EXCEPT !.base = d.base + d.head, !.head = 0, !.tail = 0])
        /\ (d.head # d.tail => w \in {d, B!compact(d)})
    BY DEF B!discard_prefix
  <1> HIDE DEF w, d
  <1>5. \A a \in First(d)..(f - 1) : ByteAt(d, a) = s[a + 1]
    <2>1. \A a \in First(d)..(f - 1) : a \in First(b)..(f - 1)
      BY <1>1, <1>3 DEF Holding, First, Last1
    <2> QED  BY <1>2, <2>1 DEF Holding, ByteAt
  <1>6. CASE d.head = d.tail
    <2>1. w = [d EXCEPT !.base = d.base + d.head, !.head = 0, !.tail = 0]  BY <1>4, <1>6
    <2>2. /\ DOMAIN w = {"data", "cap", "head", "tail", "base"} /\ w.head = 0 /\ w.tail = 0
          /\ w.base = d.base + d.head /\ w.cap = d.cap /\ w.data = d.data
      BY <1>2, <2>1
    <2>3. BufferOK(w) /\ First(w) = First(d) /\ Last1(w) = Last1(d) /\ First(w) = Last1(w)
      BY <1>3, <1>6, <2>2 DEF BufferOK, First, Last1
    <2>4. Last1(w) = f /\ \A a \in First(w)..(f - 1) : FALSE
      BY <1>3, <2>3 DEF Holding
    <2> QED  BY <1>3, <2>3, <2>4 DEF Holding, w
  <1>7. CASE w = d  BY <1>3, <1>5, <1>7 DEF Holding, w
  <1>8. CASE w = B!compact(d)
    <2>1. w = B!MovedTo(d, d.data, d.cap)  BY <1>8 DEF B!compact
    <2>2. DOMAIN d.data = 0..(d.cap - 1) /\ d.cap \in Nat /\ d.tail - d.head <= d.cap
      BY <1>3 DEF BufferOK
    <2>3. BufferOK(w) /\ SameBytes(d, w)  BY <1>3, <2>1, <2>2, MovedOK
    <2> QED  BY <1>3, <1>5, <2>3 DEF SameBytes, Holding, w
  <1> QED  BY <1>4, <1>6, <1>7, <1>8

\* What parse_buffer sees of the stream.
LEMMA ViewIs ==
    ASSUME NEW b, NEW s, s \in Seq(ToSet(s)), NEW f \in 0..Len(s), Holding(b, s, f)
    PROVE  /\ First(b) \in Nat /\ First(b) <= f /\ Len(s) \in Nat
           /\ Len(B!readable(b)) = f - First(b) /\ DOMAIN B!readable(b) = 1..(f - First(b))
           /\ \A i \in 1..(f - First(b)) : B!readable(b)[i] = s[First(b) + i]
           /\ B!readable(b) = SubSeq(s, First(b) + 1, f)
  <1> DEFINE v == B!readable(b)  p == First(b)
  <1>1. /\ b.head \in Nat /\ b.tail \in Nat /\ b.base \in Nat /\ b.head <= b.tail
        /\ b.base + b.tail = f /\ p = b.base + b.head /\ b.tail - b.head = f - p
    BY DEF Holding, BufferOK, First, Last1
  <1>2. p \in Nat /\ p <= f /\ f - p \in Nat  BY <1>1
  <1>3. v = [i \in 1..(f - p) |-> b.data[b.head + i - 1]]
    BY <1>1 DEF B!readable, B!readable_size
  <1>4. Len(v) = f - p /\ DOMAIN v = 1..(f - p)  BY <1>2, <1>3
  <1>5. ASSUME NEW i \in 1..(f - p) PROVE v[i] = s[p + i]
    <2>1. p + i - 1 \in p..(f - 1) /\ p + i - 1 - b.base = b.head + i - 1 /\ p + i - 1 + 1 = p + i
      <3> HIDE DEF p
      <3>1. i \in Nat /\ i >= 1 /\ i <= f - p /\ f \in Nat  BY <1>1, <1>2
      <3>2. p + i - 1 \in p..(f - 1) /\ p + i - 1 + 1 = p + i  BY <1>2, <3>1
      <3>3. p + i - 1 - b.base = b.head + i - 1  BY <1>1, <3>1
      <3> QED  BY <3>2, <3>3
    <2>2. ByteAt(b, p + i - 1) = s[p + i - 1 + 1]  BY <2>1 DEF Holding
    <2> HIDE DEF p, v
    <2>3. v[i] = b.data[b.head + i - 1]  BY <1>3
    <2> DEFINE a == p + i - 1  j == b.head + i - 1
    <2>4. a - b.base = j /\ a + 1 = p + i
      <3>1. p \in Int /\ i \in Int /\ b.base \in Int /\ b.head \in Int /\ p = b.base + b.head
        BY <1>1, <1>2
      <3> QED  BY <3>1
    <2>6. ByteAt(b, a) = s[a + 1]  BY <2>2
    <2>7. v[i] = b.data[j]  BY <2>3
    <2> HIDE DEF a, j
    <2>5. ByteAt(b, a) = b.data[j]  BY <2>4 DEF ByteAt
    <2> QED  BY <2>4, <2>5, <2>6, <2>7
  <1> HIDE DEF p, v
  <1>6. v = SubSeq(s, p + 1, f)
    <2>1. /\ p + 1 \in Int /\ f \in Int /\ Len(s) \in Nat
          /\ \A i \in (p + 1)..f : s[i] \in ToSet(s)
      BY <1>2
    <2>2. SubSeq(s, p + 1, f) = [i \in 1..(f - p) |-> s[p + i]]
      <3>1. SubSeq(s, p + 1, f) = [i \in 1..(f - (p + 1) + 1) |-> s[p + 1 + i - 1]]
        BY <1>2, <2>1
      <3>2. f - (p + 1) + 1 = f - p /\ \A i \in 1..(f - p) : p + 1 + i - 1 = p + i  BY <1>2
      <3> QED  BY <3>1, <3>2
    <2>3. v = [i \in 1..(f - p) |-> v[i]]  BY <1>3
    <2> QED  BY <1>5, <2>2, <2>3
  <1> QED  BY <1>2, <1>4, <1>5, <1>6 DEF p, v

LEMMA ResetHolding ==
    ASSUME NEW b, BufferOK(b), NEW s
    PROVE  Holding(B!reset(b), s, 0) /\ First(B!reset(b)) = 0
  <1> DEFINE w == B!reset(b)
  <1>1. /\ DOMAIN w = {"data", "cap", "head", "tail", "base"} /\ w.head = 0 /\ w.tail = 0
        /\ w.base = 0 /\ w.cap = b.cap /\ DOMAIN w.data = 0..(b.cap - 1)
    BY DEF B!reset, B!Fresh, BufferOK
  <1> HIDE DEF w
  <1>2. BufferOK(w) /\ First(w) = 0 /\ Last1(w) = 0  BY <1>1 DEF BufferOK, First, Last1
  <1> QED  BY <1>2 DEF Holding, w

LEMMA NewHolding ==
    ASSUME NEW s
    PROVE  Holding(B!NewBuffer, s, 0) /\ First(B!NewBuffer) = 0
  <1> DEFINE w == B!NewBuffer
  <1>1. /\ DOMAIN w = {"data", "cap", "head", "tail", "base"} /\ w.head = 0 /\ w.tail = 0
        /\ w.base = 0 /\ w.cap = StartCapacity /\ DOMAIN w.data = 0..(StartCapacity - 1)
    BY DEF B!NewBuffer, B!Fresh
  <1> HIDE DEF w
  <1>2. BufferOK(w) /\ First(w) = 0 /\ Last1(w) = 0  BY <1>1, Sizes DEF BufferOK, First, Last1
  <1> QED  BY <1>2 DEF Holding, w

-----------------------------------------------------------------------------
(* The ring *)

RingOK(r) ==
    /\ DOMAIN r = {"slots", "head", "tail", "size"}
    /\ r.size \in 0..MaxCompleted /\ r.head \in 0..(MaxCompleted - 1)
    /\ r.tail = (r.head + r.size) % MaxCompleted
    /\ DOMAIN r.slots = 0..(MaxCompleted - 1)

\* The k-th item from the front.
Item(r, k) == r.slots[(r.head + k - 1) % MaxCompleted]

LEMMA RingPush ==
    ASSUME NEW r, RingOK(r), ~ R!full(r), NEW it
    PROVE  LET w == R!push(r, it)
           IN  /\ RingOK(w) /\ w.size = r.size + 1 /\ Item(w, r.size + 1) = it
               /\ \A k \in 1..r.size : Item(w, k) = Item(r, k)
  <1> DEFINE w == R!push(r, it)  m == MaxCompleted  h == r.head  z == r.size  t == r.tail
  <1>1. /\ m \in Nat \ {0} /\ z \in Nat /\ z < m /\ h \in 0..(m - 1) /\ t = (h + z) % m
        /\ DOMAIN r.slots = 0..(m - 1)
    BY Sizes DEF RingOK, R!full
  <1>2. /\ DOMAIN w = {"slots", "head", "tail", "size"} /\ w.head = h /\ w.tail = (t + 1) % m
        /\ w.size = z + 1 /\ w.slots = [r.slots EXCEPT ![t] = it]
    BY DEF R!push, R!next
  <1> HIDE DEF w, m, h, z, t
  <1> DEFINE x == h + z  y == h + z + 1
  <1>3. x \in Nat /\ x < m + m /\ y \in Nat /\ y < m + m /\ t = x % m /\ y = x + 1
    BY <1>1
  <1> HIDE DEF x, y
  <1>4. /\ (x < m => t = x) /\ (x >= m => t = x - m) /\ t \in 0..(m - 1)
        /\ (y < m => y % m = y) /\ (y >= m => y % m = y - m)
    <2>1. (x < m => x % m = x) /\ (x >= m => x % m = x - m)  BY <1>1, <1>3, ModIs
    <2>2. (y < m => y % m = y) /\ (y >= m => y % m = y - m)  BY <1>1, <1>3, ModIs
    <2>3. t \in 0..(m - 1)
      <3>1. CASE x < m  BY <1>1, <1>3, <2>1, <3>1
      <3>2. CASE x >= m  BY <1>1, <1>3, <2>1, <3>2
      <3> QED  BY <1>1, <1>3, <3>1, <3>2
    <2> QED  BY <1>3, <2>1, <2>2, <2>3
  <1>6. (t + 1) % m = (h + (z + 1)) % m
    <2> DEFINE u == t + 1
    <2>1. u \in Nat /\ u < m + m /\ (u = y \/ (u = y - m /\ y >= m))  BY <1>1, <1>3, <1>4
    <2> HIDE DEF u
    <2>2. (u < m => u % m = u) /\ (u >= m => u % m = u - m)  BY <1>1, <2>1, ModIs
    <2>3. u % m = y % m
      <3>1. CASE u = y  BY <3>1
      <3>2. CASE u = y - m /\ y >= m
        <4>1. u < m  BY <1>1, <1>3, <3>2
        <4> QED  BY <1>4, <2>2, <3>2, <4>1
      <3> QED  BY <2>1, <3>1, <3>2
    <2>4. h + (z + 1) = y  BY <1>1 DEF y
    <2> QED  BY <2>3, <2>4 DEF u
  <1>7. RingOK(w)
    <2>1. z + 1 \in 0..m /\ DOMAIN w.slots = 0..(m - 1)  BY <1>1, <1>2
    <2> QED  BY <1>1, <1>2, <1>6, <2>1 DEF RingOK, m
  <1>8. Item(w, z + 1) = it
    <2>1. h + (z + 1) - 1 = h + z  BY <1>1
    <2> QED  BY <1>1, <1>2, <1>4, <2>1 DEF Item, m
  <1>9. ASSUME NEW k \in 1..z PROVE Item(w, k) = Item(r, k)
    <2> DEFINE i == (h + k - 1) % m
    <2> DEFINE u == h + k - 1
    <2>1. u \in Nat /\ u < m + m /\ i = u % m /\ u < x /\ u >= h /\ x < h + m
      BY <1>1 DEF x
    <2> HIDE DEF u, i
    <2>2. (u < m => u % m = u) /\ (u >= m => u % m = u - m)  BY <1>1, <2>1, ModIs
    <2>3. (u < m => i = u) /\ (u >= m => i = u - m)  BY <2>1, <2>2
    <2>4. i # t /\ i \in 0..(m - 1)  BY <1>1, <1>3, <1>4, <2>1, <2>3
    <2>5. w.slots[i] = r.slots[i]  BY <1>1, <1>2, <2>4
    <2> QED  BY <1>2, <2>5 DEF Item, i, m, h
  <1> QED  BY <1>2, <1>7, <1>8, <1>9 DEF w, z

LEMMA RingPop ==
    ASSUME NEW r, RingOK(r), ~ R!empty(r)
    PROVE  LET w == R!pop_front(r)
           IN  /\ RingOK(w) /\ w.size = r.size - 1 /\ r.size \in Nat \ {0}
               /\ R!front(r) = Item(r, 1)
               /\ \A k \in 1..w.size : Item(w, k) = Item(r, k + 1)
  <1> DEFINE w == R!pop_front(r)  m == MaxCompleted  h == r.head  z == r.size
  <1>1. /\ m \in Nat \ {0} /\ z \in 1..m /\ h \in 0..(m - 1) /\ r.tail = (h + z) % m
        /\ DOMAIN r.slots = 0..(m - 1)
    BY Sizes DEF RingOK, R!empty
  <1>2. /\ DOMAIN w = {"slots", "head", "tail", "size"} /\ w.head = (h + 1) % m
        /\ w.tail = r.tail /\ w.size = z - 1 /\ w.slots = r.slots
    BY DEF R!pop_front, R!next, RingOK
  <1> HIDE DEF w, m, h, z
  <1> DEFINE g == (h + 1) % m
  <1>3. g = h + 1 \/ (g = h + 1 - m /\ h + 1 >= m)
    <2> DEFINE x == h + 1
    <2>1. x \in Nat /\ x < m + m /\ g = x % m  BY <1>1
    <2> HIDE DEF x, g
    <2>2. (x < m => x % m = x) /\ (x >= m => x % m = x - m)  BY <1>1, <2>1, ModIs
    <2>3. x < m => g = x  BY <2>1, <2>2
    <2>4. x >= m => g = x - m  BY <2>1, <2>2
    <2>5. h \in Int /\ m \in Int /\ x = h + 1  BY <1>1 DEF x
    <2> QED  BY <2>3, <2>4, <2>5
  <1>4. g \in 0..(m - 1)  BY <1>1
  <1>5. ASSUME NEW k \in 1..z PROVE (g + k - 1) % m = (h + (k + 1) - 1) % m
    <2> DEFINE x == g + k - 1  y == h + (k + 1) - 1
    <2> HIDE DEF g
    <2>1. x \in Nat /\ x < m + m /\ y \in Nat /\ y < m + m /\ (x = y \/ x = y - m)
          /\ (x = y - m => y >= m /\ x < m)
      BY <1>1, <1>3, <1>4
    <2> HIDE DEF x, y
    <2>2. (x < m => x % m = x) /\ (x >= m => x % m = x - m)  BY <1>1, <2>1, ModIs
    <2>3. (y < m => y % m = y) /\ (y >= m => y % m = y - m)  BY <1>1, <2>1, ModIs
    <2>4. x % m = y % m  BY <1>1, <2>1, <2>2, <2>3
    <2> QED  BY <2>4 DEF x, y
  <1> HIDE DEF g
  <1>6. RingOK(w)
    <2>1. (g + z - 1) % m = (h + (z + 1) - 1) % m  BY <1>1, <1>5
    <2>2. h + (z + 1) - 1 = h + z /\ g + z - 1 = g + (z - 1)  BY <1>1, <1>4
    <2>3. z - 1 \in 0..m  BY <1>1
    <2> QED  BY <1>1, <1>2, <1>4, <2>1, <2>2, <2>3 DEF RingOK, m, g
  <1>7. R!front(r) = Item(r, 1)
    <2>1. h + 1 - 1 = h /\ h \in Nat /\ h < m + m /\ h < m  BY <1>1
    <2>2. h % m = h  BY <1>1, <2>1, ModIs
    <2> QED  BY <2>1, <2>2 DEF R!front, Item, h, m
  <1>8. ASSUME NEW k \in 1..(z - 1) PROVE Item(w, k) = Item(r, k + 1)
    <2>1. k \in 1..z  BY <1>1
    <2>2. (g + k - 1) % m = (h + (k + 1) - 1) % m  BY <2>1, <1>5
    <2> QED  BY <1>2, <2>2 DEF Item, m, h, g
  <1> QED  BY <1>1, <1>2, <1>6, <1>7, <1>8 DEF w, z

LEMMA RingNew == RingOK(R!NewRing) /\ R!NewRing.size = 0
  <1>1. R!NewRing.tail = 0 /\ R!NewRing.size = 0 /\ R!NewRing.head = 0
    BY DEF R!NewRing
  <1>2. DOMAIN R!NewRing = {"slots", "head", "tail", "size"}
        /\ DOMAIN R!NewRing.slots = 0..(MaxCompleted - 1)
    BY DEF R!NewRing
  <1>3. (0 + 0) % MaxCompleted = 0  BY Sizes
  <1> QED  BY <1>1, <1>2, <1>3, Sizes DEF RingOK

-----------------------------------------------------------------------------
(* The inductive invariant *)

\* The windows in the ring lie one behind the other between lo and hi.
WindowsOK(r, lo, hi) ==
    \A k \in 1..r.size :
        /\ Item(r, k).begin \in Nat /\ Item(r, k).end \in Nat
        /\ lo <= Item(r, k).begin /\ Item(r, k).begin < Item(r, k).end
        /\ Item(r, k).end <= hi
        /\ k < r.size => Item(r, k).end <= Item(r, k + 1).begin

\* A message whose end is not there yet begins where the scan stands.
ContextOK(c, at) ==
    /\ DOMAIN c = {"begin", "end", "state"} /\ c.state \in {"FindingBegin", "ReadingBody"}
    /\ c.state = "ReadingBody" => c.begin = at /\ c.end \in Nat /\ at < c.end

Feed ==
    /\ stream \in Streams /\ fed \in 0..Len(stream)
    /\ phase \in {"reading", "parsing", "taking"}
    /\ Holding(buf, stream, fed)

Position == scan \in Nat /\ First(buf) <= scan /\ scan <= fed /\ ContextOK(ctx, scan)

Windows ==
    /\ RingOK(completed) /\ WindowsOK(completed, First(buf), scan)
    /\ phase = "reading" => completed.size = 0

FramerInv == Feed /\ Position /\ Windows

LEMMA StreamIs ==
    ASSUME NEW s \in Streams
    PROVE  s \in Seq(ToSet(s)) /\ Len(s) \in Nat
  BY FramerAssumption

LEMMA NewContextOK == ASSUME NEW at PROVE ContextOK(NewContext, at)
  BY DEF ContextOK, NewContext

\* What a state of the parser says in absolute positions.
LEMMA Positions ==
    ASSUME FramerInv
    PROVE  /\ stream \in Seq(ToSet(stream)) /\ Len(stream) \in Nat /\ fed \in Nat
           /\ fed <= Len(stream) /\ First(buf) \in Nat /\ First(buf) <= fed
           /\ Scan = scan /\ RelScan = scan - First(buf) /\ RelScan \in Nat
           /\ Len(View) = fed - First(buf) /\ Len(View) \in Nat
           /\ DOMAIN View = 1..(fed - First(buf)) /\ View \in Seq(ToSet(stream))
           /\ \A i \in 1..(fed - First(buf)) : View[i] = stream[First(buf) + i]
  <1>1. stream \in Seq(ToSet(stream)) /\ Len(stream) \in Nat /\ fed \in 0..Len(stream)
        /\ Holding(buf, stream, fed)
    BY StreamIs DEF FramerInv, Feed
  <1>2. /\ First(buf) \in Nat /\ First(buf) <= fed /\ fed \in Nat /\ fed <= Len(stream)
        /\ Len(View) = fed - First(buf)
        /\ DOMAIN View = 1..(fed - First(buf))
        /\ \A i \in 1..(fed - First(buf)) : View[i] = stream[First(buf) + i]
        /\ View = SubSeq(stream, First(buf) + 1, fed)
    BY <1>1, ViewIs DEF View
  <1>3. scan \in Nat /\ First(buf) <= scan  BY DEF FramerInv, Position
  <1>4. B!readable_rel_to_abs(buf, 0) = First(buf)
    BY <1>1 DEF B!readable_rel_to_abs, First, Holding, BufferOK
  <1>5. Scan = scan
    <2>1. B!Max({scan, First(buf)}) = IF scan >= First(buf) THEN scan ELSE First(buf)
      BY <1>2, <1>3, Max2
    <2> QED  BY <1>2, <1>3, <1>4, <2>1 DEF Scan
  <1>6. RelScan = scan - First(buf)
    <2>1. buf.base \in Int /\ buf.head \in Int  BY <1>1 DEF Holding, BufferOK
    <2> QED  BY <1>3, <1>5, <2>1 DEF RelScan, B!abs_to_readable_rel, First
  <1>7. View \in Seq(ToSet(stream))
    <2>1. \A i \in (First(buf) + 1)..fed : i \in 1..Len(stream)  BY <1>2
    <2>2. \A i \in (First(buf) + 1)..fed : stream[i] \in ToSet(stream)  BY <1>1, <2>1
    <2> QED  BY <1>1, <1>2, <2>2, SubSeqProperties
  <1>8. RelScan \in Nat /\ Len(View) \in Nat  BY <1>2, <1>3, <1>6
  <1> QED  BY <1>1, <1>2, <1>5, <1>6, <1>7, <1>8

LEMMA AbsIs ==
    ASSUME FramerInv, NEW x \in Nat
    PROVE  /\ B!readable_rel_to_abs(buf, x) = First(buf) + x
           /\ B!abs_to_readable_rel(buf, x) = x - First(buf)
  <1>1. buf.base \in Nat /\ buf.head \in Nat
    BY DEF FramerInv, Feed, Holding, BufferOK
  <1> QED  BY <1>1 DEF B!readable_rel_to_abs, B!abs_to_readable_rel, First

LEMMA BeginIs ==
    ASSUME FramerInv, Begins # {}
    PROVE  /\ Begin \in Nat /\ Begin >= RelScan /\ Begin + Len(FirstField) <= Len(View)
           /\ SubSeq(View, Begin + 1, Begin + Len(FirstField)) = FirstField
           /\ \A i \in Begins : Begin <= i
           /\ BeginAbs = First(buf) + Begin /\ BeginAbs \in Nat /\ scan <= BeginAbs
           /\ BeginAbs < fed
  <1>1. /\ First(buf) \in Nat /\ RelScan = scan - First(buf) /\ RelScan \in Nat
        /\ Len(View) = fed - First(buf) /\ Len(View) \in Nat /\ fed \in Nat /\ scan \in Nat
    BY Positions DEF FramerInv, Position
  <1>2. Begins \in SUBSET Nat  BY <1>1 DEF Begins
  <1>3. Begin \in Begins /\ \A i \in Begins : Begin <= i  BY <1>2, MinOf DEF Begin
  <1>4. /\ Begin \in Nat /\ Begin >= RelScan /\ Begin + Len(FirstField) <= Len(View)
        /\ SubSeq(View, Begin + 1, Begin + Len(FirstField)) = FirstField
        /\ Begin <= Len(View) - 1
    BY <1>1, <1>3 DEF Begins
  <1>5. BeginAbs = First(buf) + Begin  BY <1>4, AbsIs DEF BeginAbs
  <1>6. BeginAbs \in Nat /\ scan <= BeginAbs /\ BeginAbs < fed  BY <1>1, <1>4, <1>5
  <1> QED  BY <1>3, <1>4, <1>5, <1>6

\* The outcomes of Header.
LEMMA HeaderIs ==
    ASSUME LengthAt \in Nat, Len(View) \in Nat
    PROVE  /\ LengthAt > Len(View) => Header = "cut"
           /\ LengthAt <= Len(View) /\ SubSeq(View, TagAt + 1, LengthAt) # LengthTag
                => Header = "wrong"
           /\ LengthAt <= Len(View) /\ SubSeq(View, TagAt + 1, LengthAt) = LengthTag
                => Header = IF Sohs = {} THEN "cut"
                            ELSE IF ~ IsNumber(LengthField) THEN "wrong"
                            ELSE IF from_chars(LengthField) > MaxMessageSize THEN "wrong"
                            ELSE "sound"
  <1> DEFINE a == LengthAt > Len(View)
             c == SubSeq(View, TagAt + 1, LengthAt) = LengthTag
             h == IF Sohs = {} THEN "cut"
                  ELSE IF ~ IsNumber(LengthField) THEN "wrong"
                  ELSE IF from_chars(LengthField) > MaxMessageSize THEN "wrong"
                  ELSE "sound"
  <1>1. LengthAt <= Len(View) <=> ~ a  OBVIOUS
  <1> HIDE DEF a, c, h
  <1>2. Header = CASE a -> "cut" [] ~ a /\ ~ c -> "wrong" [] ~ a /\ c -> h
    BY <1>1, Zenon DEF Header, a, c, h
  <1>3. /\ a => Header = "cut"
        /\ ~ a /\ ~ c => Header = "wrong"
        /\ ~ a /\ c => Header = h
    BY <1>2
  <1> QED  BY <1>1, <1>3 DEF a, c, h

LEMMA SoundIs ==
    ASSUME FramerInv, Begins # {}, Header = "sound"
    PROVE  /\ LengthAt <= Len(View) /\ SubSeq(View, TagAt + 1, LengthAt) = LengthTag
           /\ Sohs # {} /\ LengthEnd \in Sohs /\ \A j \in Sohs : LengthEnd <= j
           /\ LengthEnd \in Nat /\ LengthEnd >= LengthAt /\ LengthEnd <= Len(View) - 1
           /\ IsNumber(LengthField) /\ from_chars(LengthField) \in Nat
           /\ from_chars(LengthField) <= MaxMessageSize
           /\ FrameEnd \in Nat /\ LengthEnd < FrameEnd /\ Begin < FrameEnd
  <1>1. /\ Begin \in Nat /\ Len(FirstField) \in Nat \ {0} /\ Len(LengthTag) \in Nat \ {0}
        /\ Len(View) \in Nat /\ View \in Seq(ToSet(stream)) /\ TrailerSize \in Nat
        /\ MaxMessageSize \in Nat
    BY BeginIs, Positions, Sizes
  <1>2. TagAt \in Nat /\ LengthAt \in Nat /\ TagAt > Begin /\ LengthAt > TagAt
        /\ TagAt = Begin + Len(FirstField) /\ LengthAt = TagAt + Len(LengthTag)
    BY <1>1 DEF TagAt, LengthAt
  <1>3. LengthAt <= Len(View) /\ SubSeq(View, TagAt + 1, LengthAt) = LengthTag
    BY <1>1, <1>2, HeaderIs
  <1>4. Sohs # {} /\ IsNumber(LengthField) /\ ~ (from_chars(LengthField) > MaxMessageSize)
    BY <1>1, <1>2, <1>3, HeaderIs
  <1>5. Sohs \in SUBSET Nat  BY <1>1, <1>2 DEF Sohs
  <1>6. LengthEnd \in Sohs /\ \A j \in Sohs : LengthEnd <= j  BY <1>4, <1>5, MinOf DEF LengthEnd
  <1>7. LengthEnd \in Nat /\ LengthEnd >= LengthAt /\ LengthEnd <= Len(View) - 1
    BY <1>1, <1>2, <1>6 DEF Sohs
  <1>8. from_chars(LengthField) \in Nat
    <2>1. \A i \in (LengthAt + 1)..LengthEnd : View[i] \in ToSet(stream)
      BY <1>1, <1>2, <1>7
    <2>2. LengthField \in Seq(ToSet(stream))  BY <1>1, <1>2, <1>7, <2>1, SubSeqProperties DEF LengthField
    <2>3. Len(LengthField) \in Nat /\ DOMAIN LengthField = 1..Len(LengthField)  BY <2>2
    <2> DEFINE n == Len(LengthField)
    <2> HIDE DEF n
    <2>4. n \in Nat /\ DOMAIN LengthField = 1..n  BY <2>3 DEF n
    <2> QED  BY <1>4, <2>4, NumberIs
  <1>9. FrameEnd \in Nat /\ LengthEnd < FrameEnd /\ Begin < FrameEnd
    BY <1>1, <1>2, <1>7, <1>8 DEF FrameEnd
  <1> QED  BY <1>1, <1>3, <1>4, <1>6, <1>7, <1>8, <1>9

LEMMA WindowsRaised ==
    ASSUME NEW r, RingOK(r), NEW lo \in Nat, NEW hi \in Nat, NEW hi2 \in Nat, hi <= hi2,
           WindowsOK(r, lo, hi)
    PROVE  WindowsOK(r, lo, hi2)
  BY DEF WindowsOK

LEMMA NoWindows ==
    ASSUME NEW r, r.size = 0, NEW lo, NEW hi
    PROVE  WindowsOK(r, lo, hi)
  BY DEF WindowsOK

\* A window behind all of them enters the ring.
LEMMA WindowPushed ==
    ASSUME NEW r, RingOK(r), ~ R!full(r), NEW lo \in Nat, NEW at \in Nat, WindowsOK(r, lo, at),
           NEW b \in Nat, NEW e \in Nat, lo <= at, at <= b, b < e
    PROVE  WindowsOK(R!push(r, [begin |-> b, end |-> e]), lo, e)
  <1> DEFINE w == R!push(r, [begin |-> b, end |-> e])
  <1>1. /\ w.size = r.size + 1 /\ Item(w, r.size + 1) = [begin |-> b, end |-> e]
        /\ \A k \in 1..r.size : Item(w, k) = Item(r, k)
    BY RingPush
  <1> HIDE DEF w
  <1>2. r.size \in Nat  BY DEF RingOK
  <1> SUFFICES ASSUME NEW k \in 1..w.size
               PROVE  /\ Item(w, k).begin \in Nat /\ Item(w, k).end \in Nat
                      /\ lo <= Item(w, k).begin /\ Item(w, k).begin < Item(w, k).end
                      /\ Item(w, k).end <= e
                      /\ k < w.size => Item(w, k).end <= Item(w, k + 1).begin
    BY DEF WindowsOK, w
  <1>3. CASE k = r.size + 1
    <2>1. Item(w, k).begin = b /\ Item(w, k).end = e /\ ~ (k < w.size)  BY <1>1, <1>2, <1>3
    <2> QED  BY <2>1
  <1>4. CASE k \in 1..r.size
    <2>1. /\ Item(r, k).begin \in Nat /\ Item(r, k).end \in Nat
          /\ lo <= Item(r, k).begin /\ Item(r, k).begin < Item(r, k).end
          /\ Item(r, k).end <= at
          /\ k < r.size => Item(r, k).end <= Item(r, k + 1).begin
      BY <1>4 DEF WindowsOK
    <2>2. Item(w, k) = Item(r, k)  BY <1>1, <1>4
    <2>3. CASE k < r.size
      <3>1. k + 1 \in 1..r.size  BY <1>2, <2>3
      <3>2. Item(w, k + 1) = Item(r, k + 1)  BY <1>1, <3>1
      <3>3. Item(r, k).end <= e  BY <2>1
      <3> QED  BY <2>1, <2>2, <2>3, <3>2, <3>3
    <2>4. CASE k = r.size
      <3>1. Item(w, k + 1).begin = b  BY <1>1, <2>4
      <3>2. Item(r, k).end <= e /\ Item(r, k).end <= b  BY <2>1
      <3> QED  BY <2>1, <2>2, <3>1, <3>2
    <2> QED  BY <1>2, <1>4, <2>3, <2>4
  <1> QED  BY <1>1, <1>2, <1>3, <1>4

\* The front window leaves, and the bytes up to its end with it.
LEMMA WindowPopped ==
    ASSUME NEW r, RingOK(r), ~ R!empty(r), NEW lo \in Nat, NEW at \in Nat, WindowsOK(r, lo, at)
    PROVE  /\ R!front(r).begin \in Nat /\ R!front(r).end \in Nat /\ lo <= R!front(r).begin
           /\ R!front(r).begin < R!front(r).end /\ R!front(r).end <= at
           /\ WindowsOK(R!pop_front(r), R!front(r).end, at)
  <1> DEFINE w == R!pop_front(r)  e == R!front(r).end  z == r.size
  <1>1. /\ w.size = z - 1 /\ z \in Nat \ {0} /\ R!front(r) = Item(r, 1)
        /\ \A k \in 1..(z - 1) : Item(w, k) = Item(r, k + 1)
    BY RingPop
  <1>2. /\ Item(r, 1).begin \in Nat /\ e \in Nat /\ lo <= Item(r, 1).begin
        /\ Item(r, 1).begin < e /\ e <= at /\ e = Item(r, 1).end
    BY <1>1 DEF WindowsOK
  <1> HIDE DEF w, e
  <1>3. \A k \in 1..z : /\ Item(r, k).begin \in Nat /\ Item(r, k).end \in Nat
                        /\ Item(r, k).begin < Item(r, k).end /\ Item(r, k).end <= at
                        /\ k < z => Item(r, k).end <= Item(r, k + 1).begin
    BY DEF WindowsOK
  <1> HIDE DEF z
  \* By induction on k: what lies behind the front begins at its end or later.
  <1> DEFINE T == {k \in Nat : k + 2 <= z => e <= Item(r, k + 2).begin}
  <1>4. 0 \in T
    <2>1. 1 < z => Item(r, 1).end <= Item(r, 1 + 1).begin  BY <1>1, <1>3
    <2>2. 2 <= z => e <= Item(r, 2).begin  BY <1>1, <1>2, <2>1
    <2> QED  BY <2>2
  <1>5. ASSUME NEW k \in Nat, k \in T PROVE k + 1 \in T
    <2> SUFFICES ASSUME k + 1 + 2 <= z PROVE e <= Item(r, k + 1 + 2).begin
      OBVIOUS
    <2>1. e <= Item(r, k + 2).begin /\ k + 2 \in 1..z /\ k + 2 < z /\ k + 2 + 1 = k + 1 + 2
          /\ k + 1 + 2 \in 1..z
      BY <1>1, <1>5
    <2> DEFINE i == k + 2  j == k + 1 + 2
    <2>2. i \in 1..z /\ j \in 1..z /\ i < z /\ i + 1 = j /\ e <= Item(r, i).begin  BY <2>1
    <2> HIDE DEF i, j
    <2>3. /\ Item(r, i).begin \in Nat /\ Item(r, i).end \in Nat
          /\ Item(r, i).begin < Item(r, i).end
          /\ Item(r, i).end <= Item(r, j).begin /\ Item(r, j).begin \in Nat
      BY <1>3, <2>2
    <2>4. e <= Item(r, j).begin  BY <1>2, <2>2, <2>3
    <2> QED  BY <2>4 DEF j
  <1> HIDE DEF T
  <1>6. \A k \in Nat : k \in T  BY <1>4, <1>5, SetInduction
  <1>7. ASSUME NEW k \in 1..w.size
        PROVE  /\ Item(w, k).begin \in Nat /\ Item(w, k).end \in Nat
               /\ e <= Item(w, k).begin /\ Item(w, k).begin < Item(w, k).end
               /\ Item(w, k).end <= at
               /\ k < w.size => Item(w, k).end <= Item(w, k + 1).begin
    <2> DEFINE j == k + 1
    <2>1. /\ k \in 1..(z - 1) /\ j \in 1..z /\ (k < w.size => k + 1 \in 1..(z - 1) /\ j < z)
          /\ k - 1 \in Nat /\ k - 1 + 2 = j
      BY <1>1
    <2>2. Item(w, k) = Item(r, j)  BY <1>1, <2>1
    <2>3. k < w.size => Item(w, k + 1) = Item(r, j + 1)  BY <1>1, <2>1
    <2>4. e <= Item(r, j).begin  BY <1>6, <2>1 DEF T
    <2> HIDE DEF j
    <2>5. /\ Item(r, j).begin \in Nat /\ Item(r, j).end \in Nat
          /\ Item(r, j).begin < Item(r, j).end /\ Item(r, j).end <= at
          /\ j < z => Item(r, j).end <= Item(r, j + 1).begin
      BY <1>3, <2>1
    <2> QED  BY <2>1, <2>2, <2>3, <2>4, <2>5
  <1>8. WindowsOK(w, e, at)  BY <1>7 DEF WindowsOK
  <1> QED  BY <1>1, <1>2, <1>8 DEF w, e

-----------------------------------------------------------------------------
(* Every step preserves it *)

LEMMA InitInv == Init => FramerInv
  <1> SUFFICES ASSUME Init PROVE FramerInv  OBVIOUS
  <1>1. Feed
    <2>1. Len(stream) \in Nat  BY StreamIs DEF Init
    <2> QED  BY <2>1, NewHolding DEF Init, Feed
  <1>2. Position
    <2>1. First(buf) = 0  BY NewHolding DEF Init
    <2> QED  BY <2>1, NewContextOK DEF Init, Position
  <1>3. Windows  BY RingNew, NoWindows DEF Init, Windows
  <1> QED  BY <1>1, <1>2, <1>3 DEF FramerInv

LEMMA AppendInv ==
    ASSUME FramerInv, NEW n \in 1..StartCapacity, append(n)
    PROVE  FramerInv'
  <1>1. n \in Nat /\ fed \in Nat /\ fed + n <= Len(stream) /\ Len(stream) \in Nat
        /\ stream \in Seq(ToSet(stream)) /\ Holding(buf, stream, fed) /\ stream \in Streams
    BY Positions, Sizes DEF append, FramerInv, Feed
  <1>2. Holding(buf', stream, fed + n) /\ First(buf') = First(buf)
    <2> DEFINE w == B!push(buf, SubSeq(stream, fed + 1, fed + n))
    <2>1. buf' = w  BY DEF append
    <2>2. /\ stream \in Seq(ToSet(stream)) /\ fed \in Nat /\ n \in Nat /\ fed + n <= Len(stream)
          /\ Holding(buf, stream, fed)
      BY <1>1
    <2>3. Holding(w, stream, fed + n) /\ First(w) = First(buf)  BY <2>2, PushHolding
    <2> QED  BY <2>1, <2>3
  <1>3. UNCHANGED <<ctx, scan, completed, stream>> /\ fed' = fed + n /\ phase' = "parsing"
    BY DEF append
  <1>4. Feed'  BY <1>1, <1>2, <1>3 DEF Feed
  <1>5. Position'
    <2>1. scan \in Nat /\ First(buf) <= scan /\ scan <= fed /\ ContextOK(ctx, scan)
      BY DEF FramerInv, Position
    <2>2. scan <= fed + n  BY <1>1, <2>1
    <2> QED  BY <1>2, <1>3, <2>1, <2>2 DEF Position
  <1>6. Windows'  BY <1>2, <1>3 DEF FramerInv, Windows
  <1> QED  BY <1>4, <1>5, <1>6 DEF FramerInv

\* A step that leaves buffer, stream and ring alone may move the scan on.
LEMMA ScanInv ==
    ASSUME FramerInv, UNCHANGED <<buf, completed, stream, fed>>,
           phase' \in {"parsing", "taking"}, scan' \in Nat, scan <= scan', scan' <= fed,
           ContextOK(ctx', scan')
    PROVE  FramerInv'
  <1>1. /\ scan \in Nat /\ First(buf) \in Nat /\ First(buf) <= scan
        /\ RingOK(completed) /\ WindowsOK(completed, First(buf), scan)
    BY Positions DEF FramerInv, Position, Windows
  <1>2. Feed'  BY DEF FramerInv, Feed
  <1>3. Position'
    <2>1. First(buf) <= scan'  BY <1>1
    <2> QED  BY <2>1 DEF Position
  <1>4. WindowsOK(completed, First(buf), scan')  BY <1>1, WindowsRaised
  <1>5. Windows'  BY <1>1, <1>4 DEF Windows
  <1> QED  BY <1>2, <1>3, <1>5 DEF FramerInv

LEMMA QueueInv ==
    ASSUME FramerInv, Parsing, NEW b \in Nat, NEW e \in Nat, Queue(b, e),
           scan <= b, b < e, e <= fed
    PROVE  FramerInv'
  <1>1. /\ scan \in Nat /\ First(buf) \in Nat /\ First(buf) <= scan
        /\ RingOK(completed) /\ WindowsOK(completed, First(buf), scan)
        /\ phase = "parsing" /\ ~ R!full(completed)
    BY Positions DEF FramerInv, Position, Windows, Parsing
  <1>2. UNCHANGED <<buf, phase, stream, fed>> /\ scan' = e /\ ctx' = NewContext
        /\ completed' = R!push(completed, [begin |-> b, end |-> e])
    BY DEF Queue
  <1>3. Feed'  BY <1>2 DEF FramerInv, Feed
  <1>4. Position'
    <2>1. First(buf) <= e  BY <1>1
    <2> QED  BY <1>2, <2>1, NewContextOK DEF Position
  <1>5. Windows'
    <2>1. WindowsOK(completed', First(buf), e)  BY <1>1, <1>2, WindowPushed
    <2>2. RingOK(completed')  BY <1>1, <1>2, RingPush
    <2> QED  BY <1>1, <1>2, <2>1, <2>2 DEF Windows
  <1> QED  BY <1>3, <1>4, <1>5 DEF FramerInv

LEMMA NoBeginInv ==
    ASSUME FramerInv, NoBegin
    PROVE  FramerInv'
  <1>1. CASE R!empty(completed) /\ buf' = B!discard_prefix(buf, Len(View) - Kept)
             /\ scan' = B!readable_rel_to_abs(buf', 0)
    <2>1. /\ First(buf) \in Nat /\ fed \in Nat /\ Len(View) = fed - First(buf)
          /\ Len(View) \in Nat /\ Holding(buf, stream, fed) /\ First(buf) <= fed
          /\ stream \in Seq(ToSet(stream)) /\ fed \in 0..Len(stream)
      BY Positions DEF FramerInv, Feed
    <2> DEFINE x == Len(View)  y == Len(FirstField) - 1
    <2>2. x \in Nat /\ y \in Nat  BY <2>1, Sizes
    <2> HIDE DEF x, y
    <2>3. B!Min({x, y}) = IF x <= y THEN x ELSE y  BY <2>2, Min2
    <2>4. Kept \in Nat /\ Kept <= Len(View)  BY <2>2, <2>3 DEF Kept, x, y
    <2> DEFINE n == Len(View) - Kept
    <2>5. n \in Nat /\ n <= fed - First(buf)  BY <2>1, <2>4
    <2>6. buf.tail - buf.head = fed - First(buf)
      BY <2>1 DEF Holding, BufferOK, First, Last1
    <2>7. n \in 0..(buf.tail - buf.head)  BY <2>1, <2>5, <2>6
    <2>8. buf' = B!discard_prefix(buf, n)  BY <1>1
    <2> HIDE DEF n
    <2>9. Holding(buf', stream, fed) /\ First(buf') = First(buf) + n
      BY <2>1, <2>7, <2>8, DiscardHolding
    <2>10. First(buf') \in Nat /\ First(buf') <= fed  BY <2>1, <2>5, <2>9
    <2>11. scan' = First(buf')
      BY <1>1, <2>9 DEF B!readable_rel_to_abs, Holding, BufferOK, First
    <2>12. UNCHANGED <<ctx, completed, stream, fed>> /\ phase' = "taking"
           /\ ctx.state = "FindingBegin"
      BY DEF NoBegin, NeedMoreData, Finding
    <2>13. Feed'  BY <2>9, <2>12 DEF FramerInv, Feed
    <2>14. ContextOK(ctx, scan')  BY <2>12 DEF FramerInv, Position, ContextOK
    <2>15. Position'  BY <2>10, <2>11, <2>12, <2>14 DEF Position
    <2>16. Windows'
      <3>1. completed.size = 0  BY <1>1 DEF R!empty
      <3> QED  BY <2>12, <3>1, NoWindows DEF FramerInv, Windows
    <2> QED  BY <2>13, <2>15, <2>16 DEF FramerInv
  <1>2. CASE scan' = Scan /\ UNCHANGED buf
    <2>1. scan' = scan /\ scan \in Nat /\ scan <= fed /\ ContextOK(ctx, scan)
      BY <1>2, Positions DEF FramerInv, Position
    <2>2. UNCHANGED <<ctx, completed, stream, fed>> /\ phase' = "taking"
      BY DEF NoBegin, NeedMoreData
    <2> QED  BY <1>2, <2>1, <2>2, ScanInv
  <1> QED  BY <1>1, <1>2 DEF NoBegin

LEMMA ParseInv ==
    ASSUME FramerInv, parse_buffer
    PROVE  FramerInv'
  <1>1. /\ scan \in Nat /\ fed \in Nat /\ scan <= fed /\ ContextOK(ctx, scan) /\ Scan = scan
        /\ First(buf) \in Nat /\ Len(View) = fed - First(buf) /\ Len(View) \in Nat
        /\ phase \in {"reading", "parsing", "taking"}
    BY Positions DEF FramerInv, Position, Feed
  <1>2. CASE NothingNew
    <2>1. /\ UNCHANGED <<buf, ctx, completed, stream, fed>> /\ phase' = "taking"
          /\ scan' = scan
      BY <1>1, <1>2 DEF NothingNew, NeedMoreData
    <2> QED  BY <1>1, <2>1, ScanInv
  <1>3. CASE NoBegin  BY <1>3, NoBeginInv
  <1>4. CASE HeaderCut
    <2>1. BeginAbs \in Nat /\ scan <= BeginAbs /\ BeginAbs < fed  BY <1>4, BeginIs DEF HeaderCut
    <2>2. /\ UNCHANGED <<buf, completed, stream, fed>> /\ phase' = "taking"
          /\ scan' = BeginAbs /\ ctx' = [ctx EXCEPT !.begin = BeginAbs]
          /\ ctx.state = "FindingBegin"
      BY <1>4 DEF HeaderCut, NeedMoreData, Finding
    <2>3. ContextOK(ctx', scan')  BY <1>1, <2>2 DEF ContextOK
    <2>4. scan' <= fed  BY <1>1, <2>1, <2>2
    <2> QED  BY <2>1, <2>2, <2>3, <2>4, ScanInv
  <1>5. CASE Resync
    <2>1. BeginAbs \in Nat /\ scan <= BeginAbs /\ BeginAbs < fed  BY <1>5, BeginIs DEF Resync
    <2>2. /\ UNCHANGED <<buf, completed, stream, fed>> /\ phase' = "parsing"
          /\ scan' = BeginAbs + 1 /\ ctx' = NewContext
      BY <1>5 DEF Resync, Finding, Parsing
    <2>3. scan' \in Nat /\ scan <= scan' /\ scan' <= fed  BY <1>1, <2>1, <2>2
    <2>4. ContextOK(ctx', scan')  BY <2>2, NewContextOK
    <2> QED  BY <2>2, <2>3, <2>4, ScanInv
  <1>6. CASE BodyCut
    <2>1. BeginAbs \in Nat /\ scan <= BeginAbs /\ BeginAbs < fed /\ BeginAbs = First(buf) + Begin
          /\ Begin \in Nat /\ FrameEnd \in Nat /\ Begin < FrameEnd
      BY <1>6, BeginIs, SoundIs DEF BodyCut
    <2>2. B!readable_rel_to_abs(buf, FrameEnd) = First(buf) + FrameEnd  BY <2>1, AbsIs
    <2>3. /\ UNCHANGED <<buf, completed, stream, fed>> /\ phase' = "taking"
          /\ scan' = BeginAbs
          /\ ctx' = [begin |-> BeginAbs, end |-> First(buf) + FrameEnd, state |-> "ReadingBody"]
      BY <1>6, <2>2 DEF BodyCut, NeedMoreData
    <2>4. First(buf) + FrameEnd \in Nat /\ BeginAbs < First(buf) + FrameEnd  BY <1>1, <2>1
    <2>5. ContextOK(ctx', scan')  BY <2>3, <2>4 DEF ContextOK
    <2>6. scan' <= fed  BY <1>1, <2>1, <2>3
    <2> QED  BY <2>1, <2>3, <2>5, <2>6, ScanInv
  <1>7. CASE MessageFound
    <2>1. BeginAbs \in Nat /\ scan <= BeginAbs /\ BeginAbs = First(buf) + Begin
          /\ Begin \in Nat /\ FrameEnd \in Nat /\ Begin < FrameEnd /\ FrameEnd <= Len(View)
      BY <1>7, BeginIs, SoundIs DEF MessageFound
    <2>2. B!readable_rel_to_abs(buf, FrameEnd) = First(buf) + FrameEnd  BY <2>1, AbsIs
    <2> DEFINE e == First(buf) + FrameEnd
    <2>3. e \in Nat /\ BeginAbs < e /\ e <= fed  BY <1>1, <2>1
    <2>4. Queue(BeginAbs, e) /\ Parsing  BY <1>7, <2>2 DEF MessageFound, Finding
    <2> HIDE DEF e
    <2> QED  BY <2>1, <2>3, <2>4, QueueInv
  <1>8. CASE BodyStillCut
    <2>1. /\ UNCHANGED <<buf, ctx, completed, stream, fed>> /\ phase' = "taking"
          /\ scan' = scan
      BY <1>1, <1>8 DEF BodyStillCut, NeedMoreData
    <2> QED  BY <1>1, <2>1, ScanInv
  <1>9. CASE BodyComplete
    <2>1. ctx.state = "ReadingBody" /\ Parsing /\ Queue(ctx.begin, ctx.end)
          /\ ctx.end <= B!readable_rel_to_abs(buf, Len(View))
      BY <1>9 DEF BodyComplete, Reading
    <2>2. B!readable_rel_to_abs(buf, Len(View)) = fed
      <3>1. B!readable_rel_to_abs(buf, Len(View)) = First(buf) + Len(View)  BY <1>1, AbsIs
      <3> QED  BY <1>1, <3>1
    <2>3. ctx.begin = scan /\ ctx.end \in Nat /\ ctx.begin < ctx.end /\ ctx.begin \in Nat
      BY <1>1, <2>1 DEF ContextOK
    <2> DEFINE b == ctx.begin  e == ctx.end
    <2>4. b \in Nat /\ e \in Nat /\ scan <= b /\ b < e /\ e <= fed /\ Queue(b, e)
      BY <1>1, <2>1, <2>2, <2>3
    <2> HIDE DEF b, e
    <2> QED  BY <2>1, <2>4, QueueInv
  <1> QED  BY <1>2, <1>3, <1>4, <1>5, <1>6, <1>7, <1>8, <1>9 DEF parse_buffer

LEMMA ConsumeInv ==
    ASSUME FramerInv, consume_message
    PROVE  FramerInv'
  <1> DEFINE e == R!front(completed).end
  <1>1. /\ First(buf) \in Nat /\ fed \in Nat /\ scan \in Nat /\ scan <= fed
        /\ Holding(buf, stream, fed) /\ RingOK(completed)
        /\ WindowsOK(completed, First(buf), scan) /\ ContextOK(ctx, scan)
    BY Positions DEF FramerInv, Feed, Position, Windows
  <1>2. /\ ~ R!empty(completed) /\ phase = "taking"
        /\ buf' = B!discard_prefix(buf, B!abs_to_readable_rel(buf, e))
        /\ completed' = R!pop_front(completed) /\ UNCHANGED <<ctx, scan, phase, stream, fed>>
    BY DEF consume_message
  <1>3. /\ e \in Nat /\ First(buf) < e /\ e <= scan /\ WindowsOK(completed', e, scan)
    BY <1>1, <1>2, WindowPopped
  <1>4. RingOK(completed')  BY <1>1, <1>2, RingPop
  <1> HIDE DEF e
  <1> DEFINE n == e - First(buf)
  <1>5. B!abs_to_readable_rel(buf, e) = n  BY <1>3, AbsIs
  <1>6. buf.tail - buf.head = fed - First(buf)
    BY <1>1 DEF Holding, BufferOK, First, Last1
  <1>7. n \in 0..(buf.tail - buf.head)  BY <1>1, <1>3, <1>6
  <1>8. First(buf) + n = e  BY <1>1, <1>3
  <1>9. buf' = B!discard_prefix(buf, n)  BY <1>2, <1>5
  <1> HIDE DEF n
  <1>10. Holding(buf', stream, fed) /\ First(buf') = e  BY <1>1, <1>7, <1>8, <1>9, DiscardHolding
  <1>11. Feed'  BY <1>2, <1>10 DEF FramerInv, Feed
  <1>12. Position'  BY <1>1, <1>2, <1>3, <1>10 DEF Position
  <1>13. Windows'  BY <1>2, <1>3, <1>4, <1>10 DEF Windows
  <1> QED  BY <1>11, <1>12, <1>13 DEF FramerInv

LEMMA ResetInv ==
    ASSUME FramerInv, NEW s \in Streams, reset(s)
    PROVE  FramerInv'
  <1>1. BufferOK(buf) /\ Len(s) \in Nat  BY StreamIs DEF FramerInv, Feed, Holding
  <1>2. Holding(buf', s, 0) /\ First(buf') = 0  BY <1>1, ResetHolding DEF reset
  <1>3. /\ stream' = s /\ fed' = 0 /\ scan' = 0 /\ ctx' = NewContext /\ completed' = R!NewRing
        /\ phase' = phase
    BY DEF reset
  <1>4. Feed'  BY <1>1, <1>2, <1>3 DEF FramerInv, Feed
  <1>5. Position'  BY <1>2, <1>3, NewContextOK DEF Position
  <1>6. Windows'  BY <1>3, RingNew, NoWindows DEF Windows
  <1> QED  BY <1>4, <1>5, <1>6 DEF FramerInv

LEMMA NextInv == FramerInv /\ [Next]_vars => FramerInv'
  <1> SUFFICES ASSUME FramerInv, [Next]_vars PROVE FramerInv'  OBVIOUS
  <1>1. ASSUME NEW n \in 1..StartCapacity, append(n) PROVE FramerInv'  BY <1>1, AppendInv
  <1>2. CASE RingFull
    <2>1. /\ UNCHANGED <<buf, ctx, scan, completed, stream, fed>> /\ phase' = "taking"
      BY <1>2 DEF RingFull
    <2>2. scan \in Nat /\ scan <= scan /\ scan <= fed /\ ContextOK(ctx, scan)
      BY DEF FramerInv, Position
    <2> QED  BY <2>1, <2>2, ScanInv
  <1>3. CASE parse_buffer  BY <1>3, ParseInv
  <1>4. CASE consume_message  BY <1>4, ConsumeInv
  <1>5. CASE ReadAgain
    <2>1. UNCHANGED <<buf, ctx, scan, completed, stream, fed>> /\ phase' = "reading"
          /\ completed.size = 0
      BY <1>5 DEF ReadAgain, R!empty
    <2> QED  BY <2>1 DEF FramerInv, Feed, Position, Windows
  <1>6. ASSUME NEW s \in Streams, reset(s) PROVE FramerInv'  BY <1>6, ResetInv
  <1>7. CASE UNCHANGED vars
    BY <1>7 DEF vars, FramerInv, Feed, Position, Windows
  <1> QED  BY <1>1, <1>2, <1>3, <1>4, <1>5, <1>6, <1>7 DEF Next

-----------------------------------------------------------------------------
(* Theorems *)

\* However the reads cut a stream, the buffer holds it where it says, and the
\* scan and the windows of the ring lie in what is readable.
THEOREM FramerInvariance == Spec => []FramerInv
  BY InitInv, NextInv, PTL DEF Spec

LEMMA InvTypes == FramerInv => TypeOK
  <1> SUFFICES ASSUME FramerInv PROVE TypeOK  OBVIOUS
  <1>1. /\ DOMAIN buf.data = 0..(buf.cap - 1)
        /\ 0 <= buf.head /\ buf.head <= buf.tail /\ buf.tail <= buf.cap /\ buf.base \in Nat
        /\ phase \in {"reading", "parsing", "taking"}
    BY DEF FramerInv, Feed, Holding, BufferOK
  <1>2. scan \in Nat /\ ctx.state \in {"FindingBegin", "ReadingBody"}
    BY DEF FramerInv, Position, ContextOK
  <1>3. /\ completed.size \in 0..MaxCompleted /\ completed.head \in 0..(MaxCompleted - 1)
        /\ completed.tail = (completed.head + completed.size) % MaxCompleted
    BY DEF FramerInv, Windows, RingOK
  <1> QED  BY <1>1, <1>2, <1>3 DEF TypeOK

\* No byte is written outside the buffer's array, and the indices of the ring
\* agree with its size, for streams, reads and capacities of any size.
THEOREM FramerTypes == Spec => []TypeOK
  BY FramerInvariance, InvTypes, PTL

LEMMA InvHolds == FramerInv => BufferHoldsStream
  <1> SUFFICES ASSUME FramerInv PROVE BufferHoldsStream  OBVIOUS
  <1>1. Holding(buf, stream, fed) /\ stream \in Seq(ToSet(stream)) /\ fed \in 0..Len(stream)
    BY StreamIs DEF FramerInv, Feed
  <1>2. buf.base + buf.tail = fed  BY <1>1 DEF Holding, Last1
  <1>3. B!readable(buf) = SubSeq(stream, First(buf) + 1, fed)  BY <1>1, ViewIs
  <1> QED  BY <1>2, <1>3 DEF BufferHoldsStream, First

\* LinearBuffer never loses, repeats or moves a byte: across compact, grow and
\* discard_prefix the readable bytes are the end of what was read.
THEOREM BufferIsStream == Spec => []BufferHoldsStream
  BY FramerInvariance, InvHolds, PTL

LEMMA InvWindows == FramerInv => WindowsInBuffer
  <1> SUFFICES ASSUME FramerInv PROVE WindowsInBuffer  OBVIOUS
  <1> DEFINE ws == R!Items(completed)
  <1>1. /\ scan \in Nat /\ scan <= fed /\ First(buf) \in Nat /\ fed \in Nat
        /\ First(buf) <= scan /\ ContextOK(ctx, scan) /\ RingOK(completed)
        /\ WindowsOK(completed, First(buf), scan) /\ Last1(buf) = fed
    BY Positions DEF FramerInv, Feed, Position, Windows, Holding
  <1>2. completed.size \in Nat  BY <1>1 DEF RingOK
  <1>3. ws = [k \in 1..completed.size |-> Item(completed, k)]
    BY DEF R!Items, Item
  <1>4. Len(ws) = completed.size  BY <1>2, <1>3
  <1> HIDE DEF ws
  <1>5. ASSUME NEW k \in 1..Len(ws)
        PROVE  /\ buf.base + buf.head <= ws[k].begin /\ ws[k].begin < ws[k].end
               /\ ws[k].end <= buf.base + buf.tail /\ ws[k].end <= scan
               /\ k < Len(ws) => ws[k].end <= ws[k + 1].begin
    <2>1. k \in 1..completed.size /\ (k < Len(ws) => k + 1 \in 1..completed.size)
      BY <1>2, <1>4
    <2>2. ws[k] = Item(completed, k) /\ (k < Len(ws) => ws[k + 1] = Item(completed, k + 1))
      BY <1>3, <2>1
    <2>3. /\ Item(completed, k).begin \in Nat /\ Item(completed, k).end \in Nat
          /\ First(buf) <= Item(completed, k).begin
          /\ Item(completed, k).begin < Item(completed, k).end
          /\ Item(completed, k).end <= scan
          /\ k < completed.size => Item(completed, k).end <= Item(completed, k + 1).begin
      BY <1>1, <2>1 DEF WindowsOK
    <2>4. Item(completed, k).end <= fed  BY <1>1, <2>3
    <2> QED  BY <1>1, <1>4, <2>2, <2>3, <2>4 DEF First, Last1
  <1>6. ctx.state = "ReadingBody" => buf.base + buf.head <= ctx.begin /\ ctx.begin < ctx.end
    BY <1>1 DEF ContextOK, First
  <1> QED  BY <1>5, <1>6 DEF WindowsInBuffer, ws

\* The asserts of get_message and abs_to_local hold: no read of the handler
\* meets a message whose bytes have been discarded.
THEOREM WindowsAreReadable == Spec => []WindowsInBuffer
  BY FramerInvariance, InvWindows, PTL

-----------------------------------------------------------------------------
(* Parts of sequences *)

LEMMA SubSeqIs ==
    ASSUME NEW U, NEW s \in Seq(U), NEW a \in Nat \ {0}, NEW b \in Nat, b <= Len(s), a <= b + 1
    PROVE  /\ SubSeq(s, a, b) \in Seq(U) /\ Len(SubSeq(s, a, b)) = b - a + 1
           /\ b - a + 1 \in Nat /\ DOMAIN SubSeq(s, a, b) = 1..(b - a + 1)
           /\ \A i \in 1..(b - a + 1) : SubSeq(s, a, b)[i] = s[a + i - 1]
  <1>1. \A i \in a..b : i \in 1..Len(s)  OBVIOUS
  <1>2. \A i \in a..b : s[i] \in U  BY <1>1
  <1>3. /\ SubSeq(s, a, b) \in Seq(U) /\ Len(SubSeq(s, a, b)) = IF a <= b THEN b - a + 1 ELSE 0
        /\ \A i \in 1..(b - a + 1) : SubSeq(s, a, b)[i] = s[a + i - 1]
    BY <1>2, SubSeqProperties
  <1>4. Len(SubSeq(s, a, b)) = b - a + 1 /\ b - a + 1 \in Nat  BY <1>3
  <1>5. DOMAIN SubSeq(s, a, b) = 1..(b - a + 1)  BY <1>3, <1>4
  <1> QED  BY <1>3, <1>4, <1>5

\* A part of s is x when the bytes are those of x.
LEMMA PartIs ==
    ASSUME NEW U, NEW s \in Seq(U), NEW x \in Seq(U), NEW a \in Nat \ {0}, NEW b \in Nat,
           b <= Len(s), b = a + Len(x) - 1
    PROVE  SubSeq(s, a, b) = x <=> \A i \in 1..Len(x) : s[a + i - 1] = x[i]
  <1>1. Len(x) \in Nat /\ a <= b + 1 /\ b - a + 1 = Len(x)  OBVIOUS
  <1> DEFINE y == SubSeq(s, a, b)
  <1>2. y \in Seq(U) /\ Len(y) = Len(x) /\ \A i \in 1..Len(x) : y[i] = s[a + i - 1]
    BY <1>1, SubSeqIs
  <1> HIDE DEF y
  <1>3. y = x => \A i \in 1..Len(x) : s[a + i - 1] = x[i]  BY <1>2
  <1>4. (\A i \in 1..Len(x) : s[a + i - 1] = x[i]) => y = x
    <2>1. (\A i \in 1..Len(x) : s[a + i - 1] = x[i]) => \A i \in 1..Len(y) : y[i] = x[i]
      BY <1>2
    <2> QED  BY <1>2, <2>1, SeqEqual
  <1> QED  BY <1>3, <1>4 DEF y

Shifted(s, t, d, a, b) == \A i \in a..b : s[i] = t[d + i]

\* Parts of two sequences that have the same bytes, d apart.
LEMMA SameParts ==
    ASSUME NEW U, NEW s \in Seq(U), NEW t \in Seq(U), NEW a \in Nat \ {0}, NEW b \in Nat,
           b <= Len(s), a <= b + 1, NEW d \in Nat, d + b <= Len(t),
           Shifted(s, t, d, a, b)
    PROVE  SubSeq(s, a, b) = SubSeq(t, d + a, d + b)
  <1> DEFINE x == SubSeq(s, a, b)  y == SubSeq(t, d + a, d + b)  n == b - a + 1
  <1>1. x \in Seq(U) /\ Len(x) = n /\ \A i \in 1..n : x[i] = s[a + i - 1]  BY SubSeqIs
  <1>2. y \in Seq(U) /\ Len(y) = n /\ \A i \in 1..n : y[i] = t[d + a + i - 1]
    <2> DEFINE a2 == d + a  b2 == d + b
    <2>1. a2 \in Nat \ {0} /\ b2 \in Nat /\ b2 <= Len(t) /\ a2 <= b2 + 1 /\ b2 - a2 + 1 = n
      OBVIOUS
    <2> HIDE DEF a2, b2, n
    <2>2. /\ SubSeq(t, a2, b2) \in Seq(U) /\ Len(SubSeq(t, a2, b2)) = n
          /\ \A i \in 1..n : SubSeq(t, a2, b2)[i] = t[a2 + i - 1]
      BY <2>1, SubSeqIs
    <2> QED  BY <2>2 DEF a2, b2
  <1>3. \A i \in 1..n : a + i - 1 \in a..b /\ d + (a + i - 1) = d + a + i - 1  OBVIOUS
  <1> HIDE DEF x, y, n
  <1>4. \A i \in 1..n : x[i] = y[i]  BY <1>1, <1>2, <1>3 DEF Shifted
  <1>5. x = y  BY <1>1, <1>2, <1>4, SeqEqual
  <1> QED  BY <1>5 DEF x, y

\* The parts of a header, joined.
LEMMA JoinIs ==
    ASSUME NEW U, NEW s \in Seq(U), NEW t \in Seq(U), NEW x, x = s \o t
    PROVE  /\ x \in Seq(U) /\ Len(x) = Len(s) + Len(t)
           /\ \A i \in 1..(Len(s) + Len(t)) : x[i] = IF i <= Len(s) THEN s[i] ELSE t[i - Len(s)]
  BY ConcatProperties

LEMMA JoinedIs ==
    ASSUME NEW U, NEW a \in Seq(U), NEW b \in Seq(U), NEW c \in Seq(U), NEW d \in U,
           NEW x, x = a \o b \o c \o <<d>>
    PROVE  /\ x \in Seq(U) /\ Len(x) = Len(a) + Len(b) + Len(c) + 1
           /\ \A i \in 1..Len(a) : x[i] = a[i]
           /\ \A i \in 1..Len(b) : x[Len(a) + i] = b[i]
           /\ \A i \in 1..Len(c) : x[Len(a) + Len(b) + i] = c[i]
           /\ x[Len(a) + Len(b) + Len(c) + 1] = d
  <1> DEFINE y == a \o b  z == y \o c  o == <<d>>
  <1>0. x = z \o o  OBVIOUS
  <1>1. Len(a) \in Nat /\ Len(b) \in Nat /\ Len(c) \in Nat /\ o \in Seq(U) /\ Len(o) = 1 /\ o[1] = d
    OBVIOUS
  <1> HIDE DEF o
  <1>2. /\ y \in Seq(U) /\ Len(y) = Len(a) + Len(b)
        /\ \A i \in 1..(Len(a) + Len(b)) : y[i] = IF i <= Len(a) THEN a[i] ELSE b[i - Len(a)]
    BY JoinIs
  <1> HIDE DEF y
  <1>3. /\ z \in Seq(U) /\ Len(z) = Len(y) + Len(c)
        /\ \A i \in 1..(Len(y) + Len(c)) : z[i] = IF i <= Len(y) THEN y[i] ELSE c[i - Len(y)]
    <2>1. z = y \o c /\ y \in Seq(U)  BY <1>2
    <2> HIDE DEF z
    <2> QED  BY <2>1, JoinIs
  <1> HIDE DEF z
  <1>4. /\ x \in Seq(U) /\ Len(x) = Len(z) + Len(o)
        /\ \A i \in 1..(Len(z) + Len(o)) : x[i] = IF i <= Len(z) THEN z[i] ELSE o[i - Len(z)]
    <2> DEFINE w == z \o o
    <2>1. z \in Seq(U) /\ o \in Seq(U)  BY <1>1, <1>3
    <2>2. /\ w \in Seq(U) /\ Len(w) = Len(z) + Len(o)
          /\ \A i \in 1..(Len(z) + Len(o)) : w[i] = IF i <= Len(z) THEN z[i] ELSE o[i - Len(z)]
      BY <2>1, ConcatProperties
    <2>3. w = x  BY <1>0
    <2> QED  BY <2>2, <2>3
  <1>5. Len(x) = Len(a) + Len(b) + Len(c) + 1  BY <1>1, <1>2, <1>3, <1>4
  <1>6. ASSUME NEW i \in 1..Len(a) PROVE x[i] = a[i]
    <2>1. y[i] = a[i]  BY <1>1, <1>2
    <2>2. z[i] = y[i]  BY <1>1, <1>2, <1>3
    <2>3. x[i] = z[i]  BY <1>1, <1>2, <1>3, <1>4
    <2> QED  BY <2>1, <2>2, <2>3
  <1>7. ASSUME NEW i \in 1..Len(b) PROVE x[Len(a) + i] = b[i]
    <2> DEFINE k == Len(a) + i
    <2>0. k \in 1..Len(y) /\ ~ (k <= Len(a)) /\ k - Len(a) = i  BY <1>1, <1>2
    <2> HIDE DEF k
    <2>1. y[k] = b[i]  BY <1>1, <1>2, <2>0
    <2>2. z[k] = y[k]  BY <1>1, <1>2, <1>3, <2>0
    <2>3. x[k] = z[k]  BY <1>1, <1>2, <1>3, <1>4, <2>0
    <2> QED  BY <2>1, <2>2, <2>3 DEF k
  <1>8. ASSUME NEW i \in 1..Len(c) PROVE x[Len(a) + Len(b) + i] = c[i]
    <2> DEFINE k == Len(a) + Len(b) + i
    <2>0. k \in 1..Len(z) /\ ~ (k <= Len(y)) /\ k - Len(y) = i  BY <1>1, <1>2, <1>3
    <2> HIDE DEF k
    <2>1. z[k] = c[i]  BY <1>1, <1>2, <1>3, <2>0
    <2>2. x[k] = z[k]  BY <1>1, <1>2, <1>3, <1>4, <2>0
    <2> QED  BY <2>1, <2>2 DEF k
  <1>9. x[Len(a) + Len(b) + Len(c) + 1] = d
    <2> DEFINE k == Len(a) + Len(b) + Len(c) + 1
    <2>0. k \in 1..(Len(z) + Len(o)) /\ ~ (k <= Len(z)) /\ k - Len(z) = 1  BY <1>1, <1>2, <1>3
    <2> HIDE DEF k
    <2>1. x[k] = o[1]  BY <1>4, <2>0
    <2> QED  BY <1>1, <2>1 DEF k
  <1> QED  BY <1>4, <1>5, <1>6, <1>7, <1>8, <1>9

-----------------------------------------------------------------------------
(* Headers *)

\* What sequences of bytes are made of.
Alphabet(U) == FirstField \in Seq(U) /\ LengthTag \in Seq(U) /\ Soh \in U

AllBytes(s) == ToSet(s) \cup ToSet(FirstField) \cup ToSet(LengthTag) \cup {Soh}

LEMMA AllBytesOK ==
    ASSUME NEW s, s \in Seq(ToSet(s))
    PROVE  Alphabet(AllBytes(s)) /\ s \in Seq(AllBytes(s))
  <1> DEFINE U == AllBytes(s)
  <1>1. FirstField \in Seq(ToSet(FirstField)) /\ LengthTag \in Seq(ToSet(LengthTag))
    BY FramerAssumption
  <1>2. ToSet(s) \subseteq U /\ ToSet(FirstField) \subseteq U /\ ToSet(LengthTag) \subseteq U
        /\ Soh \in U
    BY DEF AllBytes
  <1> HIDE DEF U
  <1>3. s \in Seq(U) /\ FirstField \in Seq(U) /\ LengthTag \in Seq(U)
    BY <1>1, <1>2, SeqMonotonic
  <1> QED  BY <1>2, <1>3 DEF Alphabet, U

\* The first field, and the tag behind it, begin at q.
FieldAt(s, q) == \A i \in 1..Len(FirstField) : s[q + i - 1] = FirstField[i]

LengthTagAt(s, q) == \A i \in 1..Len(LengthTag) : s[q + Len(FirstField) + i - 1] = LengthTag[i]

\* Where the digits begin.
DigitsAt(q) == q + Len(FirstField) + Len(LengthTag)

\* A header from q to j, byte by byte.
HeaderTo(s, q, j) ==
    /\ FieldAt(s, q) /\ LengthTagAt(s, q) /\ s[j] = Soh /\ DigitsAt(q) < j
    /\ \A i \in DigitsAt(q)..(j - 1) : Contains(Numerals, s[i])
    /\ from_chars(SubSeq(s, DigitsAt(q), j - 1)) <= MaxMessageSize

LEMMA DigitsIs ==
    ASSUME NEW q \in Nat
    PROVE  /\ DigitsAt(q) \in Nat /\ DigitsAt(q) > q + Len(FirstField)
           /\ DigitsAt(q) = q + Len(FirstField) + Len(LengthTag)
           /\ q + Len(FirstField) \in Nat /\ q + Len(FirstField) > q
  BY Sizes DEF DigitsAt

\* HeaderEnds compares whole sequences; a header can be read byte by byte.
LEMMA HeaderEndsIs ==
    ASSUME NEW U, Alphabet(U), NEW s \in Seq(U), NEW q \in 1..Len(s), NEW j \in q..Len(s)
    PROVE  j \in HeaderEnds(s, q) <=> HeaderTo(s, q, j)
  <1> DEFINE ds == LengthDigits(s, q, j)  n == Len(FirstField)  m == Len(LengthTag)  a == DigitsAt(q)
  <1>1. /\ n \in Nat \ {0} /\ m \in Nat \ {0} /\ q \in Nat \ {0} /\ Len(s) \in Nat /\ j \in Nat
        /\ a = q + n + m /\ a \in Nat \ {0} /\ j <= Len(s) /\ q <= j /\ j - 1 \in Nat
    BY Sizes DEF DigitsAt
  <1>2. ds = SubSeq(s, a, j - 1)  BY DEF LengthDigits, DigitsAt
  <1>3. j \in HeaderEnds(s, q) <=>
          /\ SubSeq(s, q, j) = FirstField \o LengthTag \o ds \o <<Soh>>
          /\ IsNumber(ds) /\ from_chars(ds) <= MaxMessageSize
    BY DEF HeaderEnds
  <1> HIDE DEF ds
  <1>4. CASE ~ (a < j)
    <2>1. ~ HeaderTo(s, q, j)  BY <1>4 DEF HeaderTo
    <2>2. a > j - 1  BY <1>1, <1>4
    <2>3. ds = <<>>
      <3> DEFINE b == j - 1
      <3>1. ds = SubSeq(s, a, b) /\ a \in Int /\ b \in Int /\ a > b  BY <1>1, <1>2, <2>2
      <3> HIDE DEF a, b
      <3>2. \A i \in a..b : FALSE  BY <3>1
      <3>3. \A i \in a..b : s[i] \in U  BY <3>2
      <3>4. ds \in Seq(U) /\ Len(ds) = 0  BY <3>1, <3>3, SubSeqProperties
      <3> QED  BY <3>4
    <2>4. ~ IsNumber(ds)  BY <2>3 DEF IsNumber
    <2> QED  BY <1>3, <2>1, <2>4
  <1>5. CASE a < j
    <2> DEFINE k == j - a
    <2>1. k \in Nat \ {0} /\ j - 1 \in Nat /\ j - 1 <= Len(s) /\ a <= (j - 1) + 1 /\ (j - 1) - a + 1 = k
      BY <1>1, <1>5
    <2>2. ds \in Seq(U) /\ Len(ds) = k /\ DOMAIN ds = 1..k /\ \A i \in 1..k : ds[i] = s[a + i - 1]
      <3> DEFINE b == j - 1
      <3>1. /\ ds = SubSeq(s, a, b) /\ a \in Nat \ {0} /\ b \in Nat /\ b <= Len(s)
            /\ a <= b + 1 /\ b - a + 1 = k
        BY <1>1, <1>2, <2>1
      <3> HIDE DEF a, b, k
      <3> QED  BY <3>1, SubSeqIs
    <2> DEFINE x == FirstField \o LengthTag \o ds \o <<Soh>>
    <2>3. /\ x \in Seq(U) /\ Len(x) = n + m + k + 1
          /\ \A i \in 1..n : x[i] = FirstField[i]
          /\ \A i \in 1..m : x[n + i] = LengthTag[i]
          /\ \A i \in 1..k : x[n + m + i] = ds[i]
          /\ x[n + m + k + 1] = Soh
      <3>1. /\ x \in Seq(U) /\ Len(x) = Len(FirstField) + Len(LengthTag) + Len(ds) + 1
            /\ \A i \in 1..Len(FirstField) : x[i] = FirstField[i]
            /\ \A i \in 1..Len(LengthTag) : x[Len(FirstField) + i] = LengthTag[i]
            /\ \A i \in 1..Len(ds) : x[Len(FirstField) + Len(LengthTag) + i] = ds[i]
            /\ x[Len(FirstField) + Len(LengthTag) + Len(ds) + 1] = Soh
        <4>1. ds \in Seq(U) /\ FirstField \in Seq(U) /\ LengthTag \in Seq(U) /\ Soh \in U
          BY <2>2 DEF Alphabet
        <4>2. x = FirstField \o LengthTag \o ds \o <<Soh>>  OBVIOUS
        <4> HIDE DEF n, m, k, a, x
        <4> QED  BY <4>1, <4>2, JoinedIs
      <3> HIDE DEF x
      <3> QED  BY <2>2, <3>1
    <2> HIDE DEF x
    <2>0. Len(x) = n + m + k + 1 /\ j = a + k /\ a = q + n + m /\ j = q + Len(x) - 1
          /\ n + m + k + 1 \in 1..Len(x) /\ q + (n + m + k + 1) - 1 = j
      <3>1. Len(x) = n + m + k + 1  BY <2>3
      <3>2. j = a + k /\ a = q + n + m  BY <1>1
      <3>3. n \in Int /\ m \in Int /\ k \in Nat /\ q \in Int /\ n + m \in Nat  BY <1>1, <2>1
      <3> HIDE DEF n, m, k, a
      <3>4. j = q + Len(x) - 1  BY <3>1, <3>2, <3>3
      <3>5. n + m + k + 1 \in 1..Len(x)  BY <3>1, <3>3
      <3>6. q + (n + m + k + 1) - 1 = j  BY <3>2, <3>3
      <3> QED  BY <3>1, <3>2, <3>4, <3>5, <3>6
    <2>4. SubSeq(s, q, j) = x <=> \A i \in 1..Len(x) : s[q + i - 1] = x[i]
      <3>1. j = q + Len(x) - 1 /\ x \in Seq(U)  BY <2>0, <2>3
      <3> QED  BY <1>1, <3>1, PartIs
    <2>5. (\A i \in 1..Len(x) : s[q + i - 1] = x[i])
            <=> FieldAt(s, q) /\ LengthTagAt(s, q) /\ s[j] = Soh
      <3>1. ASSUME \A i \in 1..Len(x) : s[q + i - 1] = x[i]
            PROVE  FieldAt(s, q) /\ LengthTagAt(s, q) /\ s[j] = Soh
        <4>1. FieldAt(s, q)
          <5>1. \A i \in 1..n : i \in 1..Len(x)  BY <1>1, <2>1, <2>3
          <5> QED  BY <2>3, <3>1, <5>1 DEF FieldAt
        <4>2. LengthTagAt(s, q)
          <5>1. \A i \in 1..m : n + i \in 1..Len(x) /\ q + (n + i) - 1 = q + n + i - 1
            BY <1>1, <2>1, <2>3
          <5>2. \A i \in 1..m : s[q + n + i - 1] = LengthTag[i]  BY <2>3, <3>1, <5>1
          <5> QED  BY <5>2 DEF LengthTagAt
        <4>3. s[j] = Soh
          <5> DEFINE r == n + m + k + 1
          <5>1. r \in 1..Len(x) /\ q + r - 1 = j /\ x[r] = Soh  BY <2>0, <2>3
          <5> HIDE DEF r
          <5> QED  BY <3>1, <5>1
        <4> QED  BY <4>1, <4>2, <4>3
      <3>2. ASSUME FieldAt(s, q), LengthTagAt(s, q), s[j] = Soh, NEW i \in 1..Len(x)
            PROVE  s[q + i - 1] = x[i]
        <4>1. CASE i \in 1..n  BY <2>3, <3>2, <4>1 DEF FieldAt
        <4>2. CASE i \in (n + 1)..(n + m)
          <5> DEFINE r == i - n
          <5>1. r \in 1..m /\ n + r = i /\ q + n + r - 1 = q + i - 1  BY <1>1, <4>2
          <5> HIDE DEF r
          <5>2. s[q + n + r - 1] = LengthTag[r]  BY <3>2, <5>1 DEF LengthTagAt
          <5>3. x[n + r] = LengthTag[r]  BY <2>3, <5>1
          <5> QED  BY <5>1, <5>2, <5>3
        <4>3. CASE i \in (n + m + 1)..(n + m + k)
          <5> DEFINE r == i - n - m
          <5>1. r \in 1..k /\ n + m + r = i /\ a + r - 1 = q + i - 1  BY <1>1, <2>1, <4>3
          <5> HIDE DEF r
          <5>2. ds[r] = s[a + r - 1]  BY <2>2, <5>1
          <5>3. x[n + m + r] = ds[r]  BY <2>3, <5>1
          <5> QED  BY <5>1, <5>2, <5>3
        <4>4. CASE i = n + m + k + 1
          <5>1. q + i - 1 = j  BY <1>1, <2>1, <4>4
          <5> QED  BY <2>3, <3>2, <4>4, <5>1
        <4>5. \/ i \in 1..n \/ i \in (n + 1)..(n + m) \/ i \in (n + m + 1)..(n + m + k)
              \/ i = n + m + k + 1
          <5>1. n \in Nat /\ m \in Nat /\ k \in Nat /\ i \in 1..(n + m + k + 1)
            BY <1>1, <2>0, <2>1
          <5> HIDE DEF n, m, k
          <5> QED  BY <5>1
        <4> QED  BY <4>1, <4>2, <4>3, <4>4, <4>5
      <3> QED  BY <3>1, <3>2
    <2>6. IsNumber(ds) <=> \A i \in a..(j - 1) : Contains(Numerals, s[i])
      <3>1. ds # <<>>  BY <2>1, <2>2
      <3>2. (\A i \in 1..k : Contains(Numerals, ds[i])) <=> \A i \in a..(j - 1) : Contains(Numerals, s[i])
        <4>1. \A i \in 1..k : a + i - 1 \in a..(j - 1)  BY <1>1, <2>1
        <4>2. \A i \in a..(j - 1) : i - a + 1 \in 1..k /\ a + (i - a + 1) - 1 = i  BY <1>1, <2>1
        <4>3. \A i \in a..(j - 1) : ds[i - a + 1] = s[i]
          <5> SUFFICES ASSUME NEW i \in a..(j - 1) PROVE ds[i - a + 1] = s[i]  OBVIOUS
          <5> DEFINE r == i - a + 1
          <5>1. r \in 1..k /\ a + r - 1 = i  BY <4>2
          <5> HIDE DEF r
          <5>2. ds[r] = s[i]  BY <2>2, <5>1
          <5> QED  BY <5>2 DEF r
        <4> QED  BY <2>2, <4>1, <4>2, <4>3
      <3> QED  BY <2>2, <3>1, <3>2 DEF IsNumber
    <2> QED  BY <1>2, <1>3, <1>5, <2>4, <2>5, <2>6 DEF HeaderTo, x
  <1> QED  BY <1>4, <1>5

\* The length field ends at the first Soh, so a header has one end.
LEMMA HeaderUnique ==
    ASSUME NEW s, NEW q \in Nat, NEW j \in Nat, NEW k \in Nat, HeaderTo(s, q, j), HeaderTo(s, q, k)
    PROVE  j = k
  <1>1. DigitsAt(q) \in Nat  BY DigitsIs
  <1>2. ASSUME j < k PROVE FALSE
    <2>1. j \in DigitsAt(q)..(k - 1)  BY <1>1, <1>2 DEF HeaderTo
    <2>2. Contains(Numerals, Soh)  BY <2>1 DEF HeaderTo
    <2> QED  BY <2>2, SohAssumption
  <1>3. ASSUME k < j PROVE FALSE
    <2>1. k \in DigitsAt(q)..(j - 1)  BY <1>1, <1>3 DEF HeaderTo
    <2>2. Contains(Numerals, Soh)  BY <2>1 DEF HeaderTo
    <2> QED  BY <2>2, SohAssumption
  <1> QED  BY <1>2, <1>3

LEMMA MessageEndIs ==
    ASSUME NEW U, Alphabet(U), NEW s \in Seq(U), NEW q \in 1..Len(s), NEW j \in q..Len(s),
           HeaderTo(s, q, j)
    PROVE  /\ HeaderEnds(s, q) # {}
           /\ MessageEnd(s, q) = j + from_chars(SubSeq(s, DigitsAt(q), j - 1)) + TrailerSize
           /\ MessageEnd(s, q) \in Nat /\ MessageEnd(s, q) >= j /\ j > q
  <1>1. j \in Nat /\ q \in Nat \ {0} /\ Len(s) \in Nat /\ j <= Len(s)  OBVIOUS
  <1>2. HeaderEnds(s, q) = {j}
    <2>1. j \in HeaderEnds(s, q)  BY HeaderEndsIs
    <2>2. ASSUME NEW k \in HeaderEnds(s, q) PROVE k = j
      <3>1. k \in q..Len(s)  BY DEF HeaderEnds
      <3>2. HeaderTo(s, q, k)  BY <3>1, <2>2, HeaderEndsIs
      <3>3. k \in Nat  BY <1>1, <3>1
      <3> QED  BY <1>1, <3>2, <3>3, HeaderUnique
    <2> QED  BY <2>1, <2>2
  <1>3. B!Min({j}) = j
    <2>1. {j} \in SUBSET Nat /\ {j} # {}  BY <1>1
    <2> QED  BY <2>1, MinOf
  <1> DEFINE a == DigitsAt(q)  ds == SubSeq(s, a, j - 1)  v == from_chars(ds)
  <1>4. a \in Nat \ {0} /\ a > q /\ a < j
    <2>1. a < j  BY DEF HeaderTo
    <2>2. a \in Nat /\ a > q + Len(FirstField) /\ q + Len(FirstField) > q
          /\ q + Len(FirstField) \in Nat
      BY <1>1, DigitsIs
    <2> HIDE DEF a
    <2>3. a > q  BY <1>1, <2>2
    <2> QED  BY <1>1, <2>1, <2>2, <2>3
  <1>5. LengthDigits(s, q, j) = ds  BY DEF LengthDigits, DigitsAt
  <1>6. MessageEnd(s, q) = j + v + TrailerSize  BY <1>2, <1>3, <1>5 DEF MessageEnd
  <1>7. v \in Nat
    <2> DEFINE b == j - 1  n == b - a + 1
    <2>1. b \in Nat /\ b <= Len(s) /\ a <= b + 1 /\ n \in Nat \ {0}  BY <1>1, <1>4
    <2>2. ds = SubSeq(s, a, b)  OBVIOUS
    <2>3. \A i \in a..b : Contains(Numerals, s[i])  BY DEF HeaderTo
    <2> HIDE DEF a, b, ds
    <2>4. DOMAIN ds = 1..n /\ Len(ds) = n /\ \A i \in 1..n : ds[i] = s[a + i - 1]
      BY <1>4, <2>1, <2>2, SubSeqIs
    <2>5. \A i \in 1..n : a + i - 1 \in a..b  BY <1>4, <2>1
    <2>6. IsNumber(ds)  BY <2>1, <2>3, <2>4, <2>5 DEF IsNumber
    <2> HIDE DEF n
    <2> QED  BY <2>1, <2>4, <2>6, NumberIs DEF ds
  <1> HIDE DEF v
  <1>8. MessageEnd(s, q) \in Nat /\ MessageEnd(s, q) >= j /\ j > q
    BY <1>1, <1>4, <1>6, <1>7, Sizes
  <1> QED  BY <1>2, <1>6, <1>8 DEF v, ds, a

LEMMA FirstHeader ==
    ASSUME NEW U, Alphabet(U), NEW s \in Seq(U), NEW p \in 1..(Len(s) + 1), HeadersFrom(s, p) # {}
    PROVE  LET q == B!Min(HeadersFrom(s, p))
           IN  /\ q \in p..Len(s) /\ HeaderEnds(s, q) # {}
               /\ \A i \in HeadersFrom(s, p) : q <= i
               /\ MessageEnd(s, q) \in Nat /\ MessageEnd(s, q) > q
  <1> DEFINE q == B!Min(HeadersFrom(s, p))
  <1>1. HeadersFrom(s, p) \in SUBSET Nat  BY DEF HeadersFrom
  <1>2. q \in HeadersFrom(s, p) /\ \A i \in HeadersFrom(s, p) : q <= i  BY <1>1, MinOf
  <1> HIDE DEF q
  <1>3. q \in p..Len(s) /\ HeaderEnds(s, q) # {}  BY <1>2 DEF HeadersFrom
  <1>4. q \in 1..Len(s)  BY <1>3
  <1>5. PICK j \in HeaderEnds(s, q) : TRUE  BY <1>3
  <1>6. j \in q..Len(s)  BY <1>5 DEF HeaderEnds
  <1>7. HeaderTo(s, q, j)  BY <1>4, <1>6, HeaderEndsIs
  <1>8. MessageEnd(s, q) \in Nat /\ MessageEnd(s, q) >= j /\ j > q
    BY <1>4, <1>6, <1>7, MessageEndIs
  <1>9. MessageEnd(s, q) > q  BY <1>4, <1>6, <1>8
  <1> QED  BY <1>2, <1>3, <1>8, <1>9 DEF q

\* The recursion of MessagesFrom has a solution, and yields sequences.
LEMMA MessagesFromIs ==
    ASSUME NEW U, Alphabet(U), NEW s \in Seq(U)
    PROVE  \A p \in 1..(Len(s) + 1) :
             /\ MessagesFrom(s)[p] \in Seq(Seq(U))
             /\ LET q == B!Min(HeadersFrom(s, p))
                IN  MessagesFrom(s)[p] =
                      IF HeadersFrom(s, p) = {} THEN <<>>
                      ELSE IF MessageEnd(s, q) > Len(s) THEN <<>>
                      ELSE <<SubSeq(s, q, MessageEnd(s, q))>> \o MessagesFrom(s)[MessageEnd(s, q) + 1]
  <1> DEFINE n == Len(s) + 1
             Q(p) == B!Min(HeadersFrom(s, p))
             E(p) == MessageEnd(s, Q(p))
             stop == [p \in 1..n |-> HeadersFrom(s, p) = {} \/ E(p) > Len(s)]
             hd == [p \in 1..n |-> SubSeq(s, Q(p), E(p))]
             nx == [p \in 1..n |-> E(p) + 1]
             M == MessagesFrom(s)
             Step(f, p) == IF HeadersFrom(s, p) = {} THEN <<>>
                           ELSE IF E(p) > Len(s) THEN <<>>
                           ELSE <<SubSeq(s, Q(p), E(p))>> \o f[E(p) + 1]
  <1>1. n \in Nat /\ Len(s) \in Nat  OBVIOUS
  <1>2. ASSUME NEW p \in 1..n, ~ stop[p] PROVE hd[p] \in Seq(U) /\ nx[p] \in (p + 1)..n
    <2>1. HeadersFrom(s, p) # {} /\ ~ (E(p) > Len(s))  BY <1>2
    <2> DEFINE q == Q(p)  e == E(p)
    <2>2. q \in p..Len(s) /\ e \in Nat /\ e > q  BY <2>1, FirstHeader
    <2>3. hd[p] = SubSeq(s, q, e) /\ nx[p] = e + 1 /\ e <= Len(s)  BY <1>1, <2>1, <2>2
    <2> HIDE DEF q, e, hd, nx
    <2>4. q \in Nat \ {0} /\ q <= e + 1  BY <1>1, <2>2
    <2>5. SubSeq(s, q, e) \in Seq(U)  BY <2>2, <2>3, <2>4, SubSeqIs
    <2>6. e + 1 \in (p + 1)..n  BY <1>1, <2>2, <2>3
    <2> QED  BY <2>3, <2>5, <2>6
  <1>3. ASSUME NEW f PROVE WalkOf(n, stop, hd, nx, f) <=> f = [p \in 1..n |-> Step(f, p)]
    <2>1. ASSUME NEW p \in 1..n
          PROVE  Step(f, p) = IF stop[p] THEN <<>> ELSE <<hd[p]>> \o f[nx[p]]
      <3>1. /\ stop[p] <=> (HeadersFrom(s, p) = {} \/ E(p) > Len(s))
            /\ hd[p] = SubSeq(s, Q(p), E(p)) /\ nx[p] = E(p) + 1
        OBVIOUS
      <3> HIDE DEF stop, hd, nx, Q, E
      <3> QED  BY <3>1
    <2> HIDE DEF Step, stop, hd, nx
    <2> QED  BY <2>1 DEF WalkOf
  <1>4. M = CHOOSE f : f = [p \in 1..n |-> Step(f, p)]
    BY Zenon DEF MessagesFrom
  <1> HIDE DEF M, stop, hd, nx, Step
  <1>5. PICK f \in [1..n -> Seq(Seq(U))] : WalkOf(n, stop, hd, nx, f)
    <2> DEFINE V == Seq(U)
    <2>1. \A p \in 1..n : ~ stop[p] => hd[p] \in V /\ nx[p] \in (p + 1)..n  BY <1>2
    <2> HIDE DEF V, n
    <2>2. \E f \in [1..n -> Seq(V)] : WalkOf(n, stop, hd, nx, f)  BY <1>1, <2>1, WalkExists
    <2> QED  BY <2>2 DEF V
  <1>6. f = [p \in 1..n |-> Step(f, p)]  BY <1>3, <1>5
  <1>7. M = [p \in 1..n |-> Step(M, p)]  BY <1>4, <1>6
  <1>8. WalkOf(n, stop, hd, nx, M)  BY <1>3, <1>7
  <1>9. \A p \in 1..n : M[p] \in Seq(Seq(U))
    <2> DEFINE V == Seq(U)
    <2>1. \A p \in 1..n : ~ stop[p] => hd[p] \in V /\ nx[p] \in (p + 1)..n  BY <1>2
    <2> HIDE DEF V, n
    <2>2. \A p \in 1..n : M[p] \in Seq(V)  BY <1>1, <1>8, <2>1, WalkTyped
    <2> QED  BY <2>2 DEF V
  <1>10. \A p \in 1..n : M[p] = Step(M, p)  BY <1>7
  <1> QED  BY <1>9, <1>10 DEF M, Step

\* Positions where no header begins are passed over.
LEMMA SkipTo ==
    ASSUME NEW U, Alphabet(U), NEW s \in Seq(U), NEW p \in 1..(Len(s) + 1), NEW r \in p..(Len(s) + 1),
           \A q \in p..(r - 1) : HeaderEnds(s, q) = {}
    PROVE  MessagesFrom(s)[p] = MessagesFrom(s)[r]
  <1>1. HeadersFrom(s, p) = HeadersFrom(s, r)
    <2>1. \A q \in p..Len(s) : q \in p..(r - 1) \/ q \in r..Len(s)  OBVIOUS
    <2>2. \A q \in r..Len(s) : q \in p..Len(s)  OBVIOUS
    <2> QED  BY <2>1, <2>2 DEF HeadersFrom
  <1>2. r \in 1..(Len(s) + 1)  OBVIOUS
  <1> QED  BY <1>1, <1>2, MessagesFromIs

LEMMA NoneFrom ==
    ASSUME NEW U, Alphabet(U), NEW s \in Seq(U), NEW p \in 1..(Len(s) + 1),
           \A q \in p..Len(s) : HeaderEnds(s, q) = {}
    PROVE  MessagesFrom(s)[p] = <<>>
  <1>1. HeadersFrom(s, p) = {}  BY DEF HeadersFrom
  <1> QED  BY <1>1, MessagesFromIs

LEMMA HeaderAt ==
    ASSUME NEW U, Alphabet(U), NEW s \in Seq(U), NEW p \in 1..Len(s), HeaderEnds(s, p) # {}
    PROVE  /\ MessageEnd(s, p) \in Nat /\ MessageEnd(s, p) > p
           /\ MessageEnd(s, p) > Len(s) => MessagesFrom(s)[p] = <<>>
           /\ MessageEnd(s, p) <= Len(s) =>
                MessagesFrom(s)[p]
                  = <<SubSeq(s, p, MessageEnd(s, p))>> \o MessagesFrom(s)[MessageEnd(s, p) + 1]
  <1> DEFINE q == B!Min(HeadersFrom(s, p))
  <1>1. p \in HeadersFrom(s, p)  BY DEF HeadersFrom
  <1>2. p \in 1..(Len(s) + 1) /\ HeadersFrom(s, p) # {}  BY <1>1
  <1>3. q \in p..Len(s) /\ q <= p /\ MessageEnd(s, q) \in Nat /\ MessageEnd(s, q) > q
    BY <1>1, <1>2, FirstHeader
  <1>4. MessagesFrom(s)[p] =
          IF HeadersFrom(s, p) = {} THEN <<>>
          ELSE IF MessageEnd(s, q) > Len(s) THEN <<>>
          ELSE <<SubSeq(s, q, MessageEnd(s, q))>> \o MessagesFrom(s)[MessageEnd(s, q) + 1]
    BY <1>2, MessagesFromIs
  <1> HIDE DEF q
  <1>5. q = p  BY <1>3
  <1>6. MessageEnd(s, p) <= Len(s) => ~ (MessageEnd(s, p) > Len(s))  BY <1>3, <1>5
  <1> QED  BY <1>2, <1>3, <1>4, <1>5, <1>6

-----------------------------------------------------------------------------
(* What the parser sees of a stream *)

\* The view is a part of t.
Sees(U, t) ==
    /\ Alphabet(U) /\ t \in Seq(U) /\ View \in Seq(U)
    /\ First(buf) + Len(View) <= Len(t)
    /\ \A i \in 1..Len(View) : View[i] = t[First(buf) + i]

LEMMA SeesIs ==
    ASSUME FramerInv, NEW U, NEW t, Sees(U, t)
    PROVE  /\ First(buf) \in Nat /\ Len(View) \in Nat /\ Len(t) \in Nat /\ fed = First(buf) + Len(View)
           /\ First(buf) + Len(View) <= Len(t) /\ RelScan \in Nat /\ scan = First(buf) + RelScan
           /\ scan \in Nat /\ fed \in Nat /\ fed <= Len(t)
           /\ Len(FirstField) \in Nat \ {0} /\ Len(LengthTag) \in Nat \ {0}
  <1>1. Len(t) \in Nat /\ First(buf) + Len(View) <= Len(t)  BY DEF Sees
  <1>2. /\ First(buf) \in Nat /\ Len(View) = fed - First(buf) /\ Len(View) \in Nat /\ fed \in Nat
        /\ RelScan = scan - First(buf) /\ RelScan \in Nat /\ scan \in Nat
    BY Positions DEF FramerInv, Position
  <1>3. fed = First(buf) + Len(View) /\ scan = First(buf) + RelScan  BY <1>2
  <1> QED  BY <1>1, <1>2, <1>3, Sizes

BytesAt(t, a, x) == \A k \in 1..Len(x) : t[a + k] = x[k]

\* A field in the view is a field in the stream.
LEMMA FieldSeen ==
    ASSUME FramerInv, NEW U, NEW t, Sees(U, t), NEW x \in Seq(U), NEW i \in Nat,
           i + Len(x) <= Len(View)
    PROVE  SubSeq(View, i + 1, i + Len(x)) = x <=> BytesAt(t, First(buf) + i, x)
  <1> DEFINE a == i + 1  b == i + Len(x)
  <1>1. Len(x) \in Nat /\ Len(View) \in Nat /\ First(buf) \in Nat  BY SeesIs
  <1>2. a \in Nat \ {0} /\ b \in Nat /\ b <= Len(View) /\ b = a + Len(x) - 1  BY <1>1
  <1>3. View \in Seq(U)  BY DEF Sees
  <1>4. \A k \in 1..Len(x) : /\ a + k - 1 = i + k /\ i + k \in 1..Len(View)
                             /\ First(buf) + (i + k) = First(buf) + i + k
    BY <1>1
  <1> HIDE DEF a, b
  <1>5. SubSeq(View, a, b) = x <=> \A k \in 1..Len(x) : View[a + k - 1] = x[k]
    BY <1>2, <1>3, PartIs
  <1>6. \A k \in 1..Len(x) : View[i + k] = t[First(buf) + (i + k)]  BY <1>4 DEF Sees
  <1>7. \A k \in 1..Len(x) : View[a + k - 1] = t[First(buf) + i + k]  BY <1>4, <1>6
  <1> QED  BY <1>5, <1>7 DEF a, b, BytesAt

LEMMA EndsAre ==
    ASSUME NEW U, Alphabet(U), NEW s \in Seq(U), NEW q \in 1..Len(s), NEW j \in HeaderEnds(s, q)
    PROVE  j \in q..Len(s) /\ HeaderTo(s, q, j)
  <1>1. j \in q..Len(s)  BY DEF HeaderEnds
  <1> QED  BY <1>1, HeaderEndsIs

\* Where the parser finds no first field, no header begins.
LEMMA NotBegin ==
    ASSUME FramerInv, NEW U, NEW t, Sees(U, t), NEW i \in Nat, i >= RelScan,
           i + Len(FirstField) <= Len(View), i \notin Begins
    PROVE  HeaderEnds(t, First(buf) + i + 1) = {}
  <1> DEFINE q == First(buf) + i + 1  n == Len(FirstField)
  <1>1. /\ First(buf) \in Nat /\ Len(View) \in Nat /\ Len(t) \in Nat /\ n \in Nat \ {0}
        /\ RelScan \in Nat /\ First(buf) + Len(View) <= Len(t)
    BY SeesIs
  <1>2. q \in 1..Len(t) /\ i \in RelScan..(Len(View) - 1)  BY <1>1
  <1>3. Alphabet(U) /\ t \in Seq(U) /\ FirstField \in Seq(U)  BY DEF Sees, Alphabet
  <1> SUFFICES ASSUME NEW j \in HeaderEnds(t, q) PROVE FALSE  OBVIOUS
  <1>4. FieldAt(t, q)
    <2> HIDE DEF q
    <2> QED  BY <1>2, <1>3, EndsAre DEF HeaderTo
  <1>5. \A k \in 1..n : q + k - 1 = First(buf) + i + k  BY <1>1
  <1>6. \A k \in 1..n : t[First(buf) + i + k] = FirstField[k]  BY <1>4, <1>5 DEF FieldAt
  <1>7. SubSeq(View, i + 1, i + n) = FirstField
    <2> DEFINE x == FirstField
    <2>1. x \in Seq(U) /\ i + Len(x) <= Len(View) /\ BytesAt(t, First(buf) + i, x)
      BY <1>3, <1>6 DEF BytesAt
    <2> HIDE DEF x
    <2>2. SubSeq(View, i + 1, i + Len(x)) = x  BY <2>1, FieldSeen
    <2> QED  BY <2>2 DEF x
  <1>8. i \in Begins  BY <1>2, <1>7 DEF Begins
  <1> QED  BY <1>8

\* The parts of the header at Begin, as positions of the stream.
LEMMA PartsAre ==
    ASSUME FramerInv, NEW U, NEW t, Sees(U, t), Begins # {}
    PROVE  /\ BeginAbs + 1 \in 1..Len(t) /\ BeginAbs \in Nat
           /\ TagAt \in Nat /\ LengthAt \in Nat /\ LengthAt = TagAt + Len(LengthTag)
           /\ BeginAbs + 1 + Len(FirstField) = First(buf) + TagAt + 1
           /\ DigitsAt(BeginAbs + 1) = First(buf) + LengthAt + 1
  <1>1. /\ First(buf) \in Nat /\ Len(View) \in Nat /\ Len(t) \in Nat
        /\ Len(FirstField) \in Nat \ {0} /\ Len(LengthTag) \in Nat \ {0}
        /\ First(buf) + Len(View) <= Len(t)
    BY SeesIs
  <1>2. /\ Begin \in Nat /\ Begin + Len(FirstField) <= Len(View)
        /\ BeginAbs = First(buf) + Begin
    BY BeginIs
  <1>3. TagAt = Begin + Len(FirstField) /\ LengthAt = TagAt + Len(LengthTag)
    BY DEF TagAt, LengthAt
  <1>4. DigitsAt(BeginAbs + 1) = BeginAbs + 1 + Len(FirstField) + Len(LengthTag)
    BY DEF DigitsAt
  <1> DEFINE n == Len(FirstField)  m == Len(LengthTag)  p == First(buf)  v == Len(View)
  <1>5. /\ p \in Nat /\ v \in Nat /\ n \in Nat \ {0} /\ m \in Nat \ {0} /\ p + v <= Len(t)
        /\ Begin + n <= v /\ BeginAbs = p + Begin /\ TagAt = Begin + n /\ LengthAt = TagAt + m
        /\ DigitsAt(BeginAbs + 1) = BeginAbs + 1 + n + m
    BY <1>1, <1>2, <1>3, <1>4
  <1> HIDE DEF n, m, p, v
  <1>6. /\ BeginAbs + 1 \in 1..Len(t) /\ BeginAbs \in Nat /\ TagAt \in Nat /\ LengthAt \in Nat
        /\ BeginAbs + 1 + n = p + TagAt + 1 /\ BeginAbs + 1 + n + m = p + LengthAt + 1
    <2>1. BeginAbs \in Nat /\ TagAt \in Nat /\ LengthAt \in Nat  BY <1>2, <1>5
    <2>2. BeginAbs + 1 <= p + v  BY <1>2, <1>5
    <2>3. BeginAbs + 1 \in 1..Len(t)
      <3> DEFINE z == Len(t)
      <3>1. z \in Nat /\ p + v <= z  BY <1>1, <1>5
      <3> HIDE DEF z
      <3>2. BeginAbs + 1 \in 1..z  BY <1>5, <2>1, <2>2, <3>1
      <3> QED  BY <3>2 DEF z
    <2>4. BeginAbs + 1 + n = p + TagAt + 1  BY <1>2, <1>5
    <2>5. BeginAbs + 1 + n + m = p + LengthAt + 1  BY <1>2, <1>5
    <2> QED  BY <2>1, <2>3, <2>4, <2>5
  <1> QED  BY <1>5, <1>6 DEF n, m, p

LEMMA TagSeen ==
    ASSUME FramerInv, NEW U, NEW t, Sees(U, t), Begins # {}, LengthAt <= Len(View)
    PROVE  SubSeq(View, TagAt + 1, LengthAt) = LengthTag <=> LengthTagAt(t, BeginAbs + 1)
  <1> DEFINE x == LengthTag  i == TagAt
  <1>1. x \in Seq(U) /\ i \in Nat /\ LengthAt = i + Len(x) /\ Len(x) \in Nat /\ First(buf) \in Nat
        /\ BeginAbs + 1 + Len(FirstField) = First(buf) + i + 1
    BY PartsAre, SeesIs DEF Sees, Alphabet
  <1>2. LengthTagAt(t, BeginAbs + 1) <=> BytesAt(t, First(buf) + i, x)
    <2>1. LengthTagAt(t, BeginAbs + 1) <=> \A k \in 1..Len(x) : t[First(buf) + i + 1 + k - 1] = x[k]
      BY <1>1 DEF LengthTagAt
    <2> HIDE DEF x, i
    <2>2. \A k \in 1..Len(x) : First(buf) + i + 1 + k - 1 = First(buf) + i + k  BY <1>1
    <2> QED  BY <2>1, <2>2 DEF BytesAt
  <1> HIDE DEF x, i
  <1>3. i + Len(x) <= Len(View)  BY <1>1
  <1>4. SubSeq(View, i + 1, i + Len(x)) = x <=> BytesAt(t, First(buf) + i, x)
    BY <1>1, <1>3, FieldSeen
  <1> QED  BY <1>1, <1>2, <1>4 DEF x, i

LEMMA SohSeen ==
    ASSUME FramerInv, NEW U, NEW t, Sees(U, t), Begins # {}, LengthAt <= Len(View)
    PROVE  \A j \in (First(buf) + LengthAt + 1)..fed :
             t[j] = Soh => j - 1 - First(buf) \in Sohs
  <1>1. /\ First(buf) \in Nat /\ Len(View) \in Nat /\ LengthAt \in Nat
        /\ fed = First(buf) + Len(View) /\ fed \in Nat
    BY SeesIs, PartsAre
  <1> SUFFICES ASSUME NEW j \in (First(buf) + LengthAt + 1)..fed, t[j] = Soh
               PROVE  j - 1 - First(buf) \in Sohs
    OBVIOUS
  <1> DEFINE i == j - 1 - First(buf)
  <1>2. /\ i \in LengthAt..(Len(View) - 1) /\ i + 1 \in 1..Len(View)
        /\ First(buf) + (i + 1) = j
    BY <1>1
  <1> HIDE DEF i
  <1>3. View[i + 1] = t[First(buf) + (i + 1)]  BY <1>2 DEF Sees
  <1>4. i \in Sohs  BY <1>2, <1>3 DEF Sohs
  <1> QED  BY <1>4 DEF i

LEMMA LengthEndIs ==
    ASSUME FramerInv, NEW U, NEW t, Sees(U, t), Begins # {}, LengthAt <= Len(View), Sohs # {}
    PROVE  /\ LengthEnd \in Nat /\ LengthEnd >= LengthAt /\ LengthEnd <= Len(View) - 1
           /\ \A i \in Sohs : LengthEnd <= i
           /\ t[First(buf) + LengthEnd + 1] = Soh
           /\ SubSeq(t, First(buf) + LengthAt + 1, First(buf) + LengthEnd) = LengthField
           /\ LengthField \in Seq(U) /\ Len(LengthField) = LengthEnd - LengthAt
           /\ \A i \in (First(buf) + LengthAt + 1)..(First(buf) + LengthEnd) :
                i - First(buf) - LengthAt \in 1..(LengthEnd - LengthAt)
                /\ t[i] = LengthField[i - First(buf) - LengthAt]
  <1>1. /\ First(buf) \in Nat /\ Len(View) \in Nat /\ LengthAt \in Nat /\ Len(t) \in Nat
        /\ First(buf) + Len(View) <= Len(t)
    BY SeesIs, PartsAre
  <1>2. Sohs \in SUBSET Nat  BY <1>1 DEF Sohs
  <1>3. LengthEnd \in Sohs /\ \A j \in Sohs : LengthEnd <= j  BY <1>2, MinOf DEF LengthEnd
  <1>4. LengthEnd \in Nat /\ LengthEnd >= LengthAt /\ LengthEnd <= Len(View) - 1
        /\ View[LengthEnd + 1] = Soh
    BY <1>1, <1>3 DEF Sohs
  <1> DEFINE p == First(buf)  a == LengthAt + 1  b == LengthEnd
  <1>5. /\ p \in Nat /\ a \in Nat \ {0} /\ b \in Nat /\ b <= Len(View) /\ a <= b + 1
        /\ p + b <= Len(t) /\ b + 1 \in 1..Len(View) /\ p + (b + 1) = p + b + 1
        /\ b - a + 1 = LengthEnd - LengthAt /\ p + a = p + LengthAt + 1
    BY <1>1, <1>4
  <1>6. \A i \in a..b : i \in 1..Len(View)  BY <1>1, <1>5
  <1>7. /\ View \in Seq(U) /\ t \in Seq(U) /\ \A i \in 1..Len(View) : View[i] = t[p + i]
    BY DEF Sees
  <1>8. LengthField = SubSeq(View, a, b)  BY DEF LengthField
  <1>9. t[p + b + 1] = Soh  BY <1>4, <1>5, <1>7
  <1> HIDE DEF p, a, b
  <1>10. \A i \in a..b : View[i] = t[p + i]  BY <1>6, <1>7
  <1>11. SubSeq(View, a, b) = SubSeq(t, p + a, p + b)
    <2>1. Shifted(View, t, p, a, b)  BY <1>10 DEF Shifted
    <2> DEFINE v == View
    <2>2. /\ v \in Seq(U) /\ t \in Seq(U) /\ a \in Nat \ {0} /\ b \in Nat /\ b <= Len(v) /\ a <= b + 1
          /\ p \in Nat /\ p + b <= Len(t) /\ Shifted(v, t, p, a, b)
      BY <1>5, <1>7, <2>1
    <2> HIDE DEF v
    <2>3. SubSeq(v, a, b) = SubSeq(t, p + a, p + b)  BY <2>2, SameParts
    <2> QED  BY <2>3 DEF v
  <1>12. /\ SubSeq(View, a, b) \in Seq(U) /\ Len(SubSeq(View, a, b)) = b - a + 1
         /\ \A i \in 1..(b - a + 1) : SubSeq(View, a, b)[i] = View[a + i - 1]
    BY <1>5, <1>7, SubSeqIs
  <1>13. ASSUME NEW i \in (p + a)..(p + b)
         PROVE  i - p - LengthAt \in 1..(LengthEnd - LengthAt) /\ t[i] = LengthField[i - p - LengthAt]
    <2> DEFINE k == i - p - LengthAt
    <2>1. k \in 1..(b - a + 1) /\ a + k - 1 = i - p /\ i - p \in a..b /\ p + (i - p) = i
      BY <1>1, <1>4, <1>5 DEF a, b
    <2> HIDE DEF k
    <2>2. LengthField[k] = View[a + k - 1]  BY <1>8, <1>12, <2>1
    <2>3. View[i - p] = t[p + (i - p)]  BY <1>10, <2>1
    <2>4. LengthField[k] = t[i]  BY <2>1, <2>2, <2>3
    <2> QED  BY <1>5, <2>1, <2>4 DEF k
  <1>14. /\ SubSeq(t, p + LengthAt + 1, p + b) = LengthField
         /\ LengthField \in Seq(U) /\ Len(LengthField) = LengthEnd - LengthAt
    BY <1>5, <1>8, <1>11, <1>12
  <1> QED  BY <1>3, <1>4, <1>5, <1>9, <1>13, <1>14 DEF p, b

\* The byte behind the length field.
LEMMA SohPosition ==
    ASSUME NEW p \in Nat, NEW at \in Nat, NEW e \in Nat, NEW v \in Nat, NEW n \in Nat,
           at <= e, e <= v - 1, p + v <= n
    PROVE  /\ p + e + 1 - 1 = p + e /\ p + e + 1 \in Nat /\ p + e + 1 <= n
           /\ p + e + 1 <= p + v /\ p + at + 1 <= p + e + 1
           /\ at < e => p + at + 1 < p + e + 1
           /\ \A j \in Nat : j < p + e + 1 => ~ (e <= j - 1 - p)
  OBVIOUS

\* A sound header is a header of the stream, and its message ends at FrameEnd.
LEMMA SoundSeen ==
    ASSUME FramerInv, NEW U, NEW t, Sees(U, t), Begins # {}, Header = "sound"
    PROVE  /\ HeaderEnds(t, BeginAbs + 1) # {}
           /\ MessageEnd(t, BeginAbs + 1) = First(buf) + FrameEnd
  <1> DEFINE q == BeginAbs + 1  j == First(buf) + LengthEnd + 1  p == First(buf)
             n == Len(FirstField)
  <1>1. /\ p \in Nat /\ Len(View) \in Nat /\ Len(t) \in Nat /\ p + Len(View) <= Len(t)
        /\ n \in Nat \ {0} /\ Alphabet(U) /\ t \in Seq(U)
    BY SeesIs DEF Sees
  <1>2. /\ q \in 1..Len(t) /\ BeginAbs \in Nat /\ LengthAt \in Nat
        /\ DigitsAt(q) = p + LengthAt + 1
    BY PartsAre
  <1>3. /\ LengthAt <= Len(View) /\ SubSeq(View, TagAt + 1, LengthAt) = LengthTag
        /\ Sohs # {} /\ IsNumber(LengthField) /\ from_chars(LengthField) \in Nat
        /\ from_chars(LengthField) <= MaxMessageSize
    BY SoundIs
  <1>4. /\ LengthEnd \in Nat /\ LengthEnd >= LengthAt /\ LengthEnd <= Len(View) - 1
        /\ t[j] = Soh /\ SubSeq(t, p + LengthAt + 1, p + LengthEnd) = LengthField
        /\ LengthField \in Seq(U) /\ Len(LengthField) = LengthEnd - LengthAt
        /\ \A i \in (p + LengthAt + 1)..(p + LengthEnd) :
             i - p - LengthAt \in 1..(LengthEnd - LengthAt) /\ t[i] = LengthField[i - p - LengthAt]
    BY <1>3, LengthEndIs
  <1>5. LengthTagAt(t, q)  BY <1>3, TagSeen
  <1>6. FieldAt(t, q)
    <2> DEFINE x == FirstField  i == Begin
    <2>1. x \in Seq(U) /\ i \in Nat /\ i + Len(x) <= Len(View) /\ SubSeq(View, i + 1, i + Len(x)) = x
          /\ BeginAbs = p + i /\ Len(x) \in Nat
      BY <1>1, BeginIs DEF Alphabet
    <2> HIDE DEF x, i
    <2>2. BytesAt(t, p + i, x)  BY <2>1, FieldSeen
    <2>3. \A k \in 1..Len(x) : q + k - 1 = p + i + k  BY <1>1, <2>1
    <2> HIDE DEF q, p
    <2>4. \A k \in 1..Len(x) : t[q + k - 1] = x[k]  BY <2>2, <2>3 DEF BytesAt
    <2> QED  BY <2>4 DEF FieldAt, x
  <1>7. /\ j - 1 = p + LengthEnd /\ j \in Nat /\ j <= Len(t) /\ p + LengthAt + 1 <= j
        /\ LengthAt < LengthEnd => p + LengthAt + 1 < j
    <2> DEFINE at == LengthAt  e == LengthEnd  v == Len(View)  z == Len(t)
    <2>1. /\ p \in Nat /\ at \in Nat /\ e \in Nat /\ v \in Nat /\ z \in Nat
          /\ at <= e /\ e <= v - 1 /\ p + v <= z /\ j = p + e + 1
      BY <1>1, <1>2, <1>4
    <2> HIDE DEF p, at, e, v, z, j
    <2>2. /\ p + e + 1 - 1 = p + e /\ p + e + 1 \in Nat /\ p + e + 1 <= z
          /\ p + at + 1 <= p + e + 1 /\ (at < e => p + at + 1 < p + e + 1)
      BY <2>1, SohPosition
    <2> QED  BY <2>1, <2>2 DEF at, e, z
  <1>8. LengthAt < LengthEnd
    <2>1. LengthField # <<>>  BY <1>3 DEF IsNumber
    <2>2. Len(LengthField) # 0  BY <1>4, <2>1
    <2> QED  BY <1>2, <1>4, <2>2
  <1>9. DigitsAt(q) < j
    <2> HIDE DEF p, q, j
    <2> QED  BY <1>2, <1>7, <1>8
  <1>10. \A i \in DigitsAt(q)..(j - 1) : Contains(Numerals, t[i])
    <2>1. \A i \in 1..(LengthEnd - LengthAt) : Contains(Numerals, LengthField[i])
      <3>1. DOMAIN LengthField = 1..(LengthEnd - LengthAt)  BY <1>4
      <3> QED  BY <1>3, <3>1 DEF IsNumber
    <2>2. \A i \in (p + LengthAt + 1)..(p + LengthEnd) : Contains(Numerals, t[i])
      BY <1>4, <2>1
    <2> HIDE DEF p, q, j
    <2> QED  BY <1>2, <1>7, <2>2
  <1>11. SubSeq(t, DigitsAt(q), j - 1) = LengthField
    <2> HIDE DEF p, q, j
    <2> QED  BY <1>2, <1>4, <1>7
  <1>12. HeaderTo(t, q, j)  BY <1>3, <1>4, <1>5, <1>6, <1>9, <1>10, <1>11 DEF HeaderTo
  <1>13. j \in q..Len(t)
    <2>1. DigitsAt(q) > q  BY <1>2, DigitsIs
    <2>2. DigitsAt(q) \in Nat /\ q \in Nat  BY <1>2, DigitsIs
    <2> HIDE DEF p, q, j
    <2> QED  BY <1>1, <1>7, <1>9, <2>1, <2>2
  <1>14. /\ HeaderEnds(t, q) # {}
         /\ MessageEnd(t, q) = j + from_chars(SubSeq(t, DigitsAt(q), j - 1)) + TrailerSize
    <2> HIDE DEF p, q, j
    <2> QED  BY <1>1, <1>2, <1>12, <1>13, MessageEndIs
  <1>15. MessageEnd(t, q) = p + LengthEnd + 1 + from_chars(LengthField) + TrailerSize
    BY <1>11, <1>14
  <1> DEFINE v == from_chars(LengthField)
  <1>16. MessageEnd(t, q) = p + FrameEnd
    <2>1. FrameEnd = LengthEnd + 1 + v + TrailerSize  BY DEF FrameEnd
    <2>2. v \in Nat /\ TrailerSize \in Nat /\ LengthEnd \in Nat /\ p \in Nat
      BY <1>1, <1>3, <1>4, Sizes
    <2> HIDE DEF v, p, q
    <2>3. p + FrameEnd = p + LengthEnd + 1 + v + TrailerSize  BY <2>1, <2>2
    <2> QED  BY <1>15, <2>3 DEF v
  <1> QED  BY <1>14, <1>16

\* Where the parser finds a wrong header, the stream has none.
LEMMA WrongSeen ==
    ASSUME FramerInv, NEW U, NEW t, Sees(U, t), Begins # {}, Header = "wrong"
    PROVE  HeaderEnds(t, BeginAbs + 1) = {}
  <1> DEFINE q == BeginAbs + 1  p == First(buf)  e == First(buf) + LengthEnd + 1
  <1>1. /\ p \in Nat /\ Len(View) \in Nat /\ Len(t) \in Nat /\ p + Len(View) <= Len(t)
        /\ fed = p + Len(View) /\ Alphabet(U) /\ t \in Seq(U)
    BY SeesIs DEF Sees
  <1>2. /\ q \in 1..Len(t) /\ BeginAbs \in Nat /\ LengthAt \in Nat
        /\ DigitsAt(q) = p + LengthAt + 1
    BY PartsAre
  <1> SUFFICES ASSUME NEW j \in HeaderEnds(t, q) PROVE FALSE  OBVIOUS
  <1>3. j \in q..Len(t) /\ HeaderTo(t, q, j)
    <2> HIDE DEF q
    <2> QED  BY <1>1, <1>2, EndsAre
  <1>4. /\ j \in Nat /\ LengthTagAt(t, q) /\ t[j] = Soh /\ DigitsAt(q) < j
        /\ \A i \in DigitsAt(q)..(j - 1) : Contains(Numerals, t[i])
        /\ from_chars(SubSeq(t, DigitsAt(q), j - 1)) <= MaxMessageSize
    BY <1>2, <1>3 DEF HeaderTo
  <1>5. LengthAt <= Len(View)  BY <1>1, <1>2, HeaderIs
  <1>6. SubSeq(View, TagAt + 1, LengthAt) = LengthTag  BY <1>4, <1>5, TagSeen
  <1>7. Header = IF Sohs = {} THEN "cut"
                 ELSE IF ~ IsNumber(LengthField) THEN "wrong"
                 ELSE IF from_chars(LengthField) > MaxMessageSize THEN "wrong"
                 ELSE "sound"
    BY <1>1, <1>2, <1>5, <1>6, HeaderIs
  <1>8. Sohs # {} /\ (~ IsNumber(LengthField) \/ from_chars(LengthField) > MaxMessageSize)
    BY <1>7
  <1>9. /\ LengthEnd \in Nat /\ LengthEnd >= LengthAt /\ LengthEnd <= Len(View) - 1
        /\ \A i \in Sohs : LengthEnd <= i
        /\ t[e] = Soh /\ SubSeq(t, p + LengthAt + 1, p + LengthEnd) = LengthField
        /\ LengthField \in Seq(U) /\ Len(LengthField) = LengthEnd - LengthAt
    BY <1>5, <1>8, LengthEndIs
  <1>10. /\ e \in Nat /\ e <= fed /\ e >= p + LengthAt + 1 /\ e - 1 = p + LengthEnd
         /\ \A i \in Nat : i < e => ~ (LengthEnd <= i - 1 - p)
    <2> DEFINE at == LengthAt  l == LengthEnd  v == Len(View)  z == Len(t)
    <2>1. /\ p \in Nat /\ at \in Nat /\ l \in Nat /\ v \in Nat /\ z \in Nat
          /\ at <= l /\ l <= v - 1 /\ p + v <= z /\ fed = p + v /\ e = p + l + 1
      BY <1>1, <1>2, <1>9
    <2> HIDE DEF p, at, l, v, z, e
    <2>2. /\ p + l + 1 - 1 = p + l /\ p + l + 1 \in Nat /\ p + l + 1 <= p + v
          /\ p + at + 1 <= p + l + 1 /\ \A i \in Nat : i < p + l + 1 => ~ (l <= i - 1 - p)
      BY <2>1, SohPosition
    <2>3. e >= p + at + 1  BY <2>1, <2>2
    <2> QED  BY <2>1, <2>2, <2>3 DEF at, l
  <1>11. j >= e
    <2> SUFFICES ASSUME j < e PROVE FALSE  BY <1>4, <1>10
    <2>1. j \in (p + LengthAt + 1)..fed
      <3> HIDE DEF p, q, e
      <3> QED  BY <1>1, <1>2, <1>4, <1>10
    <2>2. j - 1 - p \in Sohs  BY <1>4, <1>5, <2>1, SohSeen
    <2>3. LengthEnd <= j - 1 - p  BY <1>9, <2>2
    <2> HIDE DEF p, q, e
    <2> QED  BY <1>4, <1>10, <2>3
  <1>12. j <= e
    <2> SUFFICES ASSUME e < j PROVE FALSE  BY <1>4, <1>10
    <2>1. e \in DigitsAt(q)..(j - 1)
      <3> HIDE DEF p, q, e
      <3> QED  BY <1>1, <1>2, <1>4, <1>10
    <2>2. Contains(Numerals, Soh)
      <3> HIDE DEF p, q, e
      <3> QED  BY <1>4, <1>9, <2>1
    <2> QED  BY <2>2, SohAssumption
  <1>13. j = e
    <2> HIDE DEF e
    <2> QED  BY <1>4, <1>10, <1>11, <1>12
  <1>14. SubSeq(t, DigitsAt(q), j - 1) = LengthField
    <2> HIDE DEF p, q, e
    <2> QED  BY <1>2, <1>9, <1>10, <1>13
  <1>15. HeaderEnds(t, q) # {} /\ IsNumber(LengthField) /\ from_chars(LengthField) \in Nat
    <2>1. j \in HeaderEnds(t, q)  OBVIOUS
    <2>2. LengthDigits(t, q, j) = SubSeq(t, DigitsAt(q), j - 1)  BY DEF LengthDigits, DigitsAt
    <2>3. IsNumber(LengthDigits(t, q, j))  BY <2>1 DEF HeaderEnds
    <2>4. IsNumber(LengthField)  BY <1>14, <2>2, <2>3
    <2> DEFINE n == Len(LengthField)
    <2>5. n \in Nat /\ DOMAIN LengthField = 1..n  BY <1>9
    <2> HIDE DEF n
    <2>6. from_chars(LengthField) \in Nat  BY <2>4, <2>5, NumberIs
    <2> QED  BY <2>1, <2>4, <2>6
  <1>16. from_chars(LengthField) <= MaxMessageSize  BY <1>4, <1>14
  <1> QED  BY <1>8, <1>15, <1>16, Sizes

\* A cut header: no header ends in what was read so far.
LEMMA CutSeen ==
    ASSUME FramerInv, NEW U, NEW t, Sees(U, t), Len(t) = fed, Begins # {}, Header = "cut"
    PROVE  \A q \in (BeginAbs + 1)..Len(t) : HeaderEnds(t, q) = {}
  <1> DEFINE p == First(buf)
  <1>1. /\ p \in Nat /\ Len(View) \in Nat /\ Len(t) \in Nat /\ fed = p + Len(View)
        /\ Len(FirstField) \in Nat /\ Len(LengthTag) \in Nat /\ Alphabet(U) /\ t \in Seq(U)
    BY SeesIs DEF Sees
  <1>2. BeginAbs \in Nat /\ LengthAt \in Nat /\ DigitsAt(BeginAbs + 1) = p + LengthAt + 1
    BY PartsAre
  <1> SUFFICES ASSUME NEW q \in (BeginAbs + 1)..Len(t), NEW j \in HeaderEnds(t, q) PROVE FALSE
    OBVIOUS
  <1>3. q \in 1..Len(t)  BY <1>1, <1>2
  <1>4. j \in q..Len(t) /\ HeaderTo(t, q, j)  BY <1>1, <1>3, EndsAre
  <1>5. t[j] = Soh /\ DigitsAt(q) < j  BY <1>4 DEF HeaderTo
  <1>6. DigitsAt(q) >= DigitsAt(BeginAbs + 1) /\ DigitsAt(q) \in Nat
    BY <1>1, <1>2 DEF DigitsAt
  <1>7. j \in (p + LengthAt + 1)..fed
    <2> HIDE DEF p
    <2> QED  BY <1>1, <1>2, <1>3, <1>4, <1>5, <1>6
  <1>8. LengthAt <= Len(View)
    <2> HIDE DEF p
    <2> QED  BY <1>1, <1>2, <1>7
  <1>9. j - 1 - p \in Sohs  BY <1>5, <1>7, <1>8, SohSeen
  <1>10. Header # "cut"  BY <1>1, <1>2, <1>8, <1>9, HeaderIs
  <1> QED  BY <1>10

-----------------------------------------------------------------------------
(* Nothing is lost, doubled or held back *)

\* What was sent up to the f-th byte.
Upto(f) == SubSeq(stream, 1, f)

LEMMA UptoIs ==
    ASSUME FramerInv, NEW f \in fed..Len(stream)
    PROVE  /\ Upto(f) \in Seq(AllBytes(stream)) /\ Len(Upto(f)) = f /\ f \in Nat
           /\ \A i \in 1..f : Upto(f)[i] = stream[i]
           /\ Sees(AllBytes(stream), Upto(f))
           /\ \A a \in Nat \ {0} : \A b \in 0..f :
                a <= b + 1 => SubSeq(Upto(f), a, b) = SubSeq(stream, a, b)
  <1> DEFINE U == AllBytes(stream)  t == Upto(f)
  <1>1. /\ stream \in Seq(ToSet(stream)) /\ Len(stream) \in Nat /\ fed \in Nat
        /\ First(buf) \in Nat /\ Len(View) = fed - First(buf) /\ Len(View) \in Nat
        /\ View \in Seq(ToSet(stream)) /\ f \in Nat /\ f <= Len(stream)
        /\ \A i \in 1..(fed - First(buf)) : View[i] = stream[First(buf) + i]
    BY Positions
  <1>2. Alphabet(U) /\ stream \in Seq(U)  BY <1>1, AllBytesOK
  <1>3. View \in Seq(U)
    <2>1. ToSet(stream) \subseteq U  BY DEF AllBytes
    <2> QED  BY <1>1, <2>1, SeqMonotonic
  <1> HIDE DEF U
  <1>4. t \in Seq(U) /\ Len(t) = f /\ \A i \in 1..f : t[i] = stream[i]
    <2>1. /\ SubSeq(stream, 1, f) \in Seq(U) /\ Len(SubSeq(stream, 1, f)) = f - 1 + 1
          /\ \A i \in 1..(f - 1 + 1) : SubSeq(stream, 1, f)[i] = stream[1 + i - 1]
      BY <1>1, <1>2, SubSeqIs
    <2>2. f - 1 + 1 = f /\ \A i \in 1..f : 1 + i - 1 = i  BY <1>1
    <2> QED  BY <2>1, <2>2 DEF Upto
  <1> HIDE DEF t
  <1>5. Sees(U, t)
    <2>1. First(buf) + Len(View) <= Len(t)  BY <1>1, <1>4
    <2>2. \A i \in 1..Len(View) : i \in 1..(fed - First(buf)) /\ First(buf) + i \in 1..f
      BY <1>1
    <2>3. \A i \in 1..Len(View) : View[i] = t[First(buf) + i]  BY <1>1, <1>4, <2>2
    <2> QED  BY <1>2, <1>3, <1>4, <2>1, <2>3 DEF Sees
  <1>6. ASSUME NEW a \in Nat \ {0}, NEW b \in 0..f, a <= b + 1
        PROVE  SubSeq(t, a, b) = SubSeq(stream, a, b)
    <2>1. b \in Nat /\ b <= Len(t) /\ 0 + b <= Len(stream) /\ 0 + a = a /\ 0 + b = b  BY <1>1, <1>4
    <2>2. \A i \in a..b : i \in 1..f /\ 0 + i = i  BY <1>1
    <2>3. Shifted(t, stream, 0, a, b)  BY <1>4, <2>2 DEF Shifted
    <2>4. SubSeq(t, a, b) = SubSeq(stream, 0 + a, 0 + b)
      BY <1>2, <1>4, <1>6, <2>1, <2>3, SameParts
    <2> QED  BY <2>1, <2>4
  <1> QED  BY <1>1, <1>4, <1>5, <1>6 DEF U, t

\* What get_message yields for a window is that part of the stream.
LEMMA BytesAre ==
    ASSUME FramerInv, NEW w, w.begin \in Nat, w.end \in Nat, First(buf) <= w.begin,
           w.begin < w.end, w.end <= fed
    PROVE  Bytes(w) = SubSeq(stream, w.begin + 1, w.end)
  <1> DEFINE d == First(buf)  a == w.begin - d + 1  b == w.end - d  U == ToSet(stream)
  <1>1. /\ stream \in Seq(U) /\ Len(stream) \in Nat /\ fed \in Nat /\ fed <= Len(stream)
        /\ d \in Nat /\ Len(View) = fed - d /\ Len(View) \in Nat /\ View \in Seq(U)
        /\ \A i \in 1..(fed - d) : View[i] = stream[d + i]
    BY Positions
  <1>2. /\ B!abs_to_readable_rel(buf, w.begin) = w.begin - d
        /\ B!abs_to_readable_rel(buf, w.end) = w.end - d
    BY AbsIs
  <1>3. Bytes(w) = SubSeq(View, a, b)  BY <1>2 DEF Bytes
  <1>4. /\ a \in Nat \ {0} /\ b \in Nat /\ b <= Len(View) /\ a <= b + 1 /\ d + b <= Len(stream)
        /\ d + a = w.begin + 1 /\ d + b = w.end
    <2> DEFINE x == w.begin  y == w.end  v == Len(View)  z == Len(stream)
    <2>1. /\ x \in Nat /\ y \in Nat /\ d \in Nat /\ d <= x /\ x < y /\ y <= fed /\ fed \in Nat
          /\ v = fed - d /\ v \in Nat /\ z \in Nat /\ fed <= z /\ a = x - d + 1 /\ b = y - d
      BY <1>1
    <2> HIDE DEF x, y, v, z, a, b, d
    <2>2. /\ a \in Nat \ {0} /\ b \in Nat /\ b <= v /\ a <= b + 1 /\ d + b <= z
          /\ d + a = x + 1 /\ d + b = y
      BY <2>1
    <2> QED  BY <2>2 DEF x, y, v, z
  <1> HIDE DEF d, a, b, U
  <1>5. \A i \in a..b : i \in 1..(fed - d)  BY <1>1, <1>4
  <1>6. Shifted(View, stream, d, a, b)  BY <1>1, <1>5 DEF Shifted
  <1>7. SubSeq(View, a, b) = SubSeq(stream, d + a, d + b)  BY <1>1, <1>4, <1>6, SameParts
  <1> QED  BY <1>3, <1>4, <1>7

\* The messages that wait in the ring r, as parts of the stream s.
Waiting(s, r) == [k \in 1..r.size |-> SubSeq(s, Item(r, k).begin + 1, Item(r, k).end)]

\* Of every longer part of the stream: its messages are the ones taken, the
\* ones that wait, and those a scan from here on will find.
Account ==
    \A f \in fed..Len(stream) :
        Messages(Upto(f)) = (taken \o Waiting(stream, completed)) \o MessagesFrom(Upto(f))[scan + 1]

\* The message whose bytes are awaited is the next message of the stream.
BodyKnown ==
    ctx.state = "ReadingBody" =>
        /\ scan < fed
        /\ \A f \in fed..Len(stream) :
             HeaderEnds(Upto(f), scan + 1) # {} /\ MessageEnd(Upto(f), scan + 1) = ctx.end

\* When append is done, a scan from here on finds nothing in what was read.
AllFound == phase # "parsing" /\ ~ capped => MessagesFrom(Upto(fed))[scan + 1] = <<>>

\* The scan stands at the end of the last message, at the first readable byte,
\* or where there was room for a first field: going back for the bytes that
\* NoBegin keeps never goes behind it.
Standing ==
    \/ completed.size > 0 /\ scan = Item(completed, completed.size).end
    \/ completed.size = 0 /\ scan = First(buf)
    \/ scan + Len(FirstField) <= fed + 1

FramesInv ==
    /\ FramerInv /\ Standing /\ taken \in Seq(Seq(AllBytes(stream)))
    /\ Account /\ BodyKnown /\ AllFound

-----------------------------------------------------------------------------
(* A scan position moves on *)

\* From at to at2 the scan passes no header.
Passes(at, at2) ==
    \A f \in fed..Len(stream) : MessagesFrom(Upto(f))[at + 1] = MessagesFrom(Upto(f))[at2 + 1]

LEMMA ScanFrames ==
    ASSUME FramesInv, FramerInv', UNCHANGED <<completed, stream, fed, taken>>,
           Passes(scan, scan'), Standing', BodyKnown', AllFound'
    PROVE  FramesInv'
  <1>1. Account'  BY DEF FramesInv, Account, Passes, Upto
  <1> QED  BY <1>1 DEF FramesInv

\* A header that would end behind the last byte is none.
LEMMA TooShort ==
    ASSUME NEW U, Alphabet(U), NEW s \in Seq(U), NEW q \in 1..Len(s), q + Len(FirstField) > Len(s)
    PROVE  HeaderEnds(s, q) = {}
  <1> SUFFICES ASSUME NEW j \in HeaderEnds(s, q) PROVE FALSE  OBVIOUS
  <1>1. j \in q..Len(s) /\ HeaderTo(s, q, j)  BY EndsAre
  <1>2. DigitsAt(q) < j  BY <1>1 DEF HeaderTo
  <1>3. DigitsAt(q) \in Nat /\ DigitsAt(q) > q + Len(FirstField) /\ q + Len(FirstField) \in Nat
    BY DigitsIs
  <1> DEFINE x == q + Len(FirstField)  z == Len(s)
  <1>4. x \in Nat /\ x > z /\ z \in Nat /\ j \in Nat /\ j <= z /\ DigitsAt(q) > x  BY <1>1, <1>3
  <1> HIDE DEF x, z
  <1> QED  BY <1>2, <1>3, <1>4

\* The positions before the first field that is found, or before the bytes
\* that are kept, are passed.
LEMMA PassesTo ==
    ASSUME FramerInv, NEW r \in Nat, scan <= r, r <= fed,
           \A i \in Nat : i >= RelScan /\ First(buf) + i < r =>
              i + Len(FirstField) <= Len(View) /\ i \notin Begins
    PROVE  Passes(scan, r)
  <1> SUFFICES ASSUME NEW f \in fed..Len(stream)
               PROVE  MessagesFrom(Upto(f))[scan + 1] = MessagesFrom(Upto(f))[r + 1]
    BY DEF Passes
  <1> DEFINE U == AllBytes(stream)  t == Upto(f)
  <1>1. Alphabet(U) /\ t \in Seq(U) /\ Len(t) = f /\ Sees(U, t) /\ f \in Nat
    BY UptoIs DEF Sees
  <1>2. First(buf) \in Nat /\ scan \in Nat /\ RelScan = scan - First(buf) /\ fed \in Nat /\ fed <= f
        /\ First(buf) <= scan
    BY Positions DEF FramerInv, Position
  <1> HIDE DEF U, t
  <1>3. ASSUME NEW q \in (scan + 1)..(r + 1 - 1) PROVE HeaderEnds(t, q) = {}
    <2> DEFINE i == q - 1 - First(buf)
    <2>1. i \in Nat /\ i >= RelScan /\ First(buf) + i < r /\ First(buf) + i + 1 = q  BY <1>2
    <2> HIDE DEF i
    <2>2. i + Len(FirstField) <= Len(View) /\ i \notin Begins  BY <2>1
    <2>3. HeaderEnds(t, First(buf) + i + 1) = {}  BY <1>1, <2>1, <2>2, NotBegin
    <2> QED  BY <2>1, <2>3
  <1> DEFINE x == scan + 1  y == r + 1
  <1>4. x \in 1..(Len(t) + 1) /\ y \in x..(Len(t) + 1) /\ \A q \in x..(y - 1) : HeaderEnds(t, q) = {}
    BY <1>1, <1>2, <1>3
  <1> HIDE DEF x, y
  <1>5. MessagesFrom(t)[x] = MessagesFrom(t)[y]  BY <1>1, <1>4, SkipTo
  <1> QED  BY <1>5 DEF x, y, t

\* Up to the first field that is found.
LEMMA PassesToBegin ==
    ASSUME FramerInv, Begins # {}
    PROVE  Passes(scan, BeginAbs)
  <1>1. /\ Begin \in Nat /\ Begin + Len(FirstField) <= Len(View) /\ \A i \in Begins : Begin <= i
        /\ BeginAbs = First(buf) + Begin /\ BeginAbs \in Nat /\ scan <= BeginAbs /\ BeginAbs < fed
        /\ First(buf) \in Nat /\ Len(View) \in Nat /\ Len(FirstField) \in Nat /\ fed \in Nat
    BY BeginIs, Positions, Sizes
  <1>2. ASSUME NEW i \in Nat, i >= RelScan, First(buf) + i < BeginAbs
        PROVE  i + Len(FirstField) <= Len(View) /\ i \notin Begins
    <2>1. i < Begin  BY <1>1, <1>2
    <2>2. i \notin Begins  BY <1>1, <2>1
    <2> DEFINE n == Len(FirstField)  v == Len(View)
    <2>3. n \in Nat /\ v \in Nat /\ Begin + n <= v  BY <1>1
    <2> HIDE DEF n, v
    <2>4. i + n <= v  BY <1>1, <2>1, <2>3
    <2> QED  BY <2>2, <2>4 DEF n, v
  <1>3. BeginAbs <= fed  BY <1>1
  <1> QED  BY <1>1, <1>2, <1>3, PassesTo

\* fed as a part of the stream to look at.
LEMMA FedIs ==
    ASSUME FramerInv
    PROVE  /\ fed \in fed..Len(stream) /\ scan + 1 \in 1..(fed + 1) /\ fed \in Nat /\ scan \in Nat
           /\ Alphabet(AllBytes(stream)) /\ Upto(fed) \in Seq(AllBytes(stream))
           /\ Len(Upto(fed)) = fed /\ Sees(AllBytes(stream), Upto(fed))
  <1>1. fed \in Nat /\ fed <= Len(stream) /\ Len(stream) \in Nat /\ scan \in Nat /\ scan <= fed
    BY Positions DEF FramerInv, Position
  <1>2. fed \in fed..Len(stream) /\ scan + 1 \in 1..(fed + 1)  BY <1>1
  <1> QED  BY <1>1, <1>2, UptoIs DEF Sees

LEMMA NothingNewFound ==
    ASSUME FramerInv, RelScan >= Len(View)
    PROVE  MessagesFrom(Upto(fed))[scan + 1] = <<>>
  <1>1. /\ First(buf) \in Nat /\ RelScan = scan - First(buf) /\ Len(View) = fed - First(buf)
        /\ scan \in Nat /\ fed \in Nat /\ scan <= fed
    BY Positions DEF FramerInv, Position
  <1>2. scan = fed  BY <1>1
  <1> DEFINE t == Upto(fed)  U == AllBytes(stream)  p == scan + 1
  <1>3. /\ Alphabet(U) /\ t \in Seq(U) /\ p \in 1..(Len(t) + 1)
        /\ \A q \in p..Len(t) : HeaderEnds(t, q) = {}
    BY <1>2, FedIs
  <1> HIDE DEF t, U, p
  <1>4. MessagesFrom(t)[p] = <<>>  BY <1>3, NoneFrom
  <1> QED  BY <1>4 DEF t, p

LEMMA NoBeginFound ==
    ASSUME FramerInv, Begins = {}
    PROVE  MessagesFrom(Upto(fed))[scan + 1] = <<>>
  <1> DEFINE t == Upto(fed)  U == AllBytes(stream)  p == scan + 1
  <1>1. /\ Alphabet(U) /\ t \in Seq(U) /\ p \in 1..(Len(t) + 1) /\ Len(t) = fed /\ Sees(U, t)
        /\ fed \in Nat /\ p \in Nat \ {0}
    BY FedIs
  <1>2. /\ First(buf) \in Nat /\ RelScan = scan - First(buf) /\ Len(View) = fed - First(buf)
        /\ scan \in Nat /\ fed \in Nat /\ First(buf) <= scan /\ Len(FirstField) \in Nat
    BY Positions, Sizes DEF FramerInv, Position
  <1> HIDE DEF t, U
  <1>3. ASSUME NEW q \in p..Len(t) PROVE HeaderEnds(t, q) = {}
    <2> DEFINE i == q - 1 - First(buf)
    <2>1. i \in Nat /\ i >= RelScan /\ First(buf) + i + 1 = q /\ q \in 1..Len(t)  BY <1>1, <1>2
    <2>2. CASE i + Len(FirstField) <= Len(View)
      <3> HIDE DEF i
      <3>1. i \notin Begins  OBVIOUS
      <3>2. HeaderEnds(t, First(buf) + i + 1) = {}  BY <1>1, <2>1, <2>2, <3>1, NotBegin
      <3> QED  BY <2>1, <3>2
    <2>3. CASE ~ (i + Len(FirstField) <= Len(View))
      <3> DEFINE n == Len(FirstField)  v == Len(View)  d == First(buf)
      <3>1. n \in Nat /\ v = fed - d /\ d \in Nat /\ ~ (i + n <= v) /\ d + i + 1 = q  BY <1>2, <2>1, <2>3
      <3> HIDE DEF n, v, d, i
      <3>2. q + n > fed  BY <1>1, <2>1, <3>1
      <3>3. q + Len(FirstField) > Len(t)  BY <1>1, <3>2 DEF n
      <3> QED  BY <1>1, <2>1, <3>3, TooShort
    <2> QED  BY <2>2, <2>3
  <1> HIDE DEF p
  <1>4. MessagesFrom(t)[p] = <<>>  BY <1>1, <1>3, NoneFrom
  <1> QED  BY <1>4 DEF t, p

LEMMA CutFound ==
    ASSUME FramerInv, Begins # {}, Header = "cut"
    PROVE  MessagesFrom(Upto(fed))[BeginAbs + 1] = <<>>
  <1> DEFINE t == Upto(fed)  U == AllBytes(stream)  p == BeginAbs + 1
  <1>1. /\ Alphabet(U) /\ t \in Seq(U) /\ Len(t) = fed /\ Sees(U, t) /\ fed \in Nat
    BY FedIs
  <1>2. BeginAbs \in Nat /\ BeginAbs < fed  BY BeginIs
  <1> HIDE DEF t, U
  <1>3. \A q \in p..Len(t) : HeaderEnds(t, q) = {}  BY <1>1, CutSeen
  <1>4. p \in 1..(Len(t) + 1)  BY <1>1, <1>2
  <1> HIDE DEF p
  <1>5. MessagesFrom(t)[p] = <<>>  BY <1>1, <1>3, <1>4, NoneFrom
  <1> QED  BY <1>5 DEF t, p

\* A wrong header is passed.
LEMMA PassesWrong ==
    ASSUME FramerInv, Begins # {}, Header = "wrong"
    PROVE  Passes(scan, BeginAbs + 1)
  <1>1. Passes(scan, BeginAbs)  BY PassesToBegin
  <1>2. BeginAbs \in Nat /\ BeginAbs < fed /\ fed \in Nat  BY BeginIs, Positions
  <1> SUFFICES ASSUME NEW f \in fed..Len(stream)
               PROVE  MessagesFrom(Upto(f))[scan + 1] = MessagesFrom(Upto(f))[BeginAbs + 1 + 1]
    BY DEF Passes
  <1> DEFINE U == AllBytes(stream)  t == Upto(f)  x == BeginAbs + 1  y == BeginAbs + 1 + 1
  <1>3. Alphabet(U) /\ t \in Seq(U) /\ Len(t) = f /\ Sees(U, t) /\ f \in Nat /\ fed <= f
    BY UptoIs, <1>2 DEF Sees
  <1> HIDE DEF U, t
  <1>4. HeaderEnds(t, x) = {}  BY <1>3, WrongSeen
  <1>5. x \in 1..(Len(t) + 1) /\ y \in x..(Len(t) + 1) /\ \A q \in x..(y - 1) : q = x  BY <1>2, <1>3
  <1> HIDE DEF x, y
  <1>6. \A q \in x..(y - 1) : HeaderEnds(t, q) = {}  BY <1>4, <1>5
  <1>7. MessagesFrom(t)[x] = MessagesFrom(t)[y]  BY <1>3, <1>5, <1>6, SkipTo
  <1>8. MessagesFrom(Upto(f))[scan + 1] = MessagesFrom(Upto(f))[BeginAbs + 1]  BY <1>1 DEF Passes
  <1> QED  BY <1>7, <1>8 DEF x, y, t

-----------------------------------------------------------------------------
(* Messages enter and leave the ring *)

LEMMA MoveIn ==
    ASSUME NEW V, NEW a \in Seq(V), NEW w \in Seq(V), NEW x \in Seq(V), NEW m \in V
    PROVE  (a \o w) \o (<<m>> \o x) = (a \o (w \o <<m>>)) \o x
  <1> DEFINE o == <<m>>
  <1>1. o \in Seq(V)  OBVIOUS
  <1> HIDE DEF o
  <1>2. w \o o \in Seq(V) /\ a \o w \in Seq(V) /\ o \o x \in Seq(V)  BY <1>1, ConcatProperties
  <1>3. (a \o w) \o (o \o x) = ((a \o w) \o o) \o x
    <2> DEFINE y == a \o w
    <2>1. y \in Seq(V)  BY <1>2
    <2> HIDE DEF y
    <2>2. (y \o o) \o x = y \o (o \o x)  BY <1>1, <2>1, ConcatAssociative
    <2> QED  BY <2>2 DEF y
  <1>4. (a \o w) \o o = a \o (w \o o)  BY <1>1, ConcatAssociative
  <1> QED  BY <1>3, <1>4 DEF o

LEMMA MoveOut ==
    ASSUME NEW V, NEW a \in Seq(V), NEW w \in Seq(V), NEW m \in V
    PROVE  a \o (<<m>> \o w) = Append(a, m) \o w
  <1> DEFINE o == <<m>>
  <1>1. o \in Seq(V)  OBVIOUS
  <1>2. Append(a, m) = a \o o  OBVIOUS
  <1> HIDE DEF o
  <1>3. (a \o o) \o w = a \o (o \o w)  BY <1>1, ConcatAssociative
  <1> QED  BY <1>2, <1>3 DEF o

LEMMA WaitingOK ==
    ASSUME FramerInv
    PROVE  /\ Waiting(stream, completed) \in Seq(Seq(AllBytes(stream)))
           /\ \A k \in 1..completed.size :
                /\ Item(completed, k).begin \in Nat /\ Item(completed, k).end \in Nat
                /\ First(buf) <= Item(completed, k).begin
                /\ Item(completed, k).begin < Item(completed, k).end
                /\ Item(completed, k).end <= scan /\ Item(completed, k).end <= fed
                /\ SubSeq(stream, Item(completed, k).begin + 1, Item(completed, k).end)
                     \in Seq(AllBytes(stream))
  <1> DEFINE U == AllBytes(stream)  z == completed.size
  <1>1. /\ scan \in Nat /\ scan <= fed /\ fed \in Nat /\ fed <= Len(stream) /\ Len(stream) \in Nat
        /\ stream \in Seq(ToSet(stream)) /\ RingOK(completed)
        /\ WindowsOK(completed, First(buf), scan) /\ First(buf) \in Nat
    BY Positions DEF FramerInv, Position, Windows
  <1>2. stream \in Seq(U) /\ z \in Nat  BY <1>1, AllBytesOK DEF RingOK
  <1> HIDE DEF U
  <1>3. ASSUME NEW k \in 1..z
        PROVE  /\ Item(completed, k).begin \in Nat /\ Item(completed, k).end \in Nat
               /\ First(buf) <= Item(completed, k).begin
               /\ Item(completed, k).begin < Item(completed, k).end
               /\ Item(completed, k).end <= scan /\ Item(completed, k).end <= fed
               /\ SubSeq(stream, Item(completed, k).begin + 1, Item(completed, k).end) \in Seq(U)
    <2> DEFINE x == Item(completed, k).begin  b == Item(completed, k).end  a == x + 1
    <2>1. x \in Nat /\ b \in Nat /\ First(buf) <= x /\ x < b /\ b <= scan  BY <1>1 DEF WindowsOK
    <2> HIDE DEF x, b
    <2>2. b <= fed /\ a \in Nat \ {0} /\ b <= Len(stream) /\ a <= b + 1  BY <1>1, <2>1
    <2>3. SubSeq(stream, a, b) \in Seq(U)  BY <1>2, <2>1, <2>2, SubSeqIs
    <2> QED  BY <2>1, <2>2, <2>3 DEF x, b
  <1>4. Waiting(stream, completed) \in Seq(Seq(U))
    <2> DEFINE V == Seq(U)
    <2>1. \A k \in 1..z : SubSeq(stream, Item(completed, k).begin + 1, Item(completed, k).end) \in V
      BY <1>3
    <2> HIDE DEF V
    <2>2. Waiting(stream, completed) \in [1..z -> V]  BY <2>1 DEF Waiting
    <2>3. Waiting(stream, completed) \in Seq(V)  BY <1>2, <2>2
    <2> QED  BY <2>3 DEF V
  <1> QED  BY <1>3, <1>4 DEF U

\* The messages from a position are sequences of bytes.
LEMMA FoundOK ==
    ASSUME FramerInv, NEW f \in fed..Len(stream), NEW at \in Nat, at <= f
    PROVE  MessagesFrom(Upto(f))[at + 1] \in Seq(Seq(AllBytes(stream)))
  <1> DEFINE U == AllBytes(stream)  t == Upto(f)  p == at + 1
  <1>1. Alphabet(U) /\ t \in Seq(U) /\ Len(t) = f /\ f \in Nat  BY UptoIs DEF Sees
  <1>2. p \in 1..(Len(t) + 1)  BY <1>1
  <1> HIDE DEF U, t, p
  <1>3. MessagesFrom(t)[p] \in Seq(Seq(U))  BY <1>1, <1>2, MessagesFromIs
  <1> QED  BY <1>3 DEF U, t, p

\* The window from b to e is the first message behind the scan.
IsNextMessage(b, e) ==
    \A f \in fed..Len(stream) :
        MessagesFrom(Upto(f))[scan + 1]
          = <<SubSeq(stream, b + 1, e)>> \o MessagesFrom(Upto(f))[e + 1]

LEMMA WaitingPushed ==
    ASSUME NEW s, NEW r, RingOK(r), ~ R!full(r), NEW b, NEW e, NEW V,
           Waiting(s, r) \in Seq(V), SubSeq(s, b + 1, e) \in V
    PROVE  Waiting(s, R!push(r, [begin |-> b, end |-> e]))
             = Waiting(s, r) \o <<SubSeq(s, b + 1, e)>>
  <1> DEFINE w == R!push(r, [begin |-> b, end |-> e])  m == SubSeq(s, b + 1, e)  z == r.size
             x == Waiting(s, r)  y == Waiting(s, w)
  <1>1. /\ w.size = z + 1 /\ Item(w, z + 1) = [begin |-> b, end |-> e]
        /\ \A k \in 1..z : Item(w, k) = Item(r, k)
    BY RingPush
  <1>2. z \in Nat  BY DEF RingOK
  <1> HIDE DEF w
  <1>3. /\ x = [k \in 1..z |-> SubSeq(s, Item(r, k).begin + 1, Item(r, k).end)]
        /\ y = [k \in 1..(z + 1) |-> SubSeq(s, Item(w, k).begin + 1, Item(w, k).end)]
    BY <1>1 DEF Waiting
  <1> HIDE DEF x, y, z
  <1>4. ASSUME NEW k \in 1..(z + 1) PROVE y[k] = IF k <= z THEN x[k] ELSE m
    <2>1. CASE k <= z
      <3>1. k \in 1..z  BY <1>2, <2>1
      <3>2. Item(w, k) = Item(r, k)  BY <1>1, <3>1
      <3>3. y[k] = SubSeq(s, Item(w, k).begin + 1, Item(w, k).end)  BY <1>3
      <3>4. x[k] = SubSeq(s, Item(r, k).begin + 1, Item(r, k).end)  BY <1>3, <3>1
      <3> QED  BY <2>1, <3>2, <3>3, <3>4
    <2>2. CASE ~ (k <= z)
      <3>1. k = z + 1  BY <1>2, <2>2
      <3>2. Item(w, k).begin = b /\ Item(w, k).end = e  BY <1>1, <3>1
      <3>3. y[k] = SubSeq(s, Item(w, k).begin + 1, Item(w, k).end)  BY <1>3
      <3> QED  BY <2>2, <3>2, <3>3
    <2> QED  BY <2>1, <2>2
  <1>5. x \in Seq(V) /\ m \in V  BY DEF x
  <1> HIDE DEF m
  <1>6. Len(x) = z /\ DOMAIN y = 1..(z + 1)  BY <1>2, <1>3
  <1>7. y = Append(x, m)
    <2>1. y = [k \in 1..(z + 1) |-> IF k <= z THEN x[k] ELSE m]  BY <1>3, <1>4
    <2>2. Append(x, m) = [k \in 1..(Len(x) + 1) |-> IF k <= Len(x) THEN x[k] ELSE m]
      <3>1. /\ Append(x, m) \in Seq(V) /\ Len(Append(x, m)) = Len(x) + 1
            /\ \A i \in 1..Len(x) : Append(x, m)[i] = x[i]
            /\ Append(x, m)[Len(x) + 1] = m
        BY <1>5, AppendProperties
      <3>2. \A k \in 1..(Len(x) + 1) : Append(x, m)[k] = IF k <= Len(x) THEN x[k] ELSE m
        BY <1>2, <1>6, <3>1
      <3>3. DOMAIN Append(x, m) = 1..(Len(x) + 1)  BY <1>2, <1>6, <3>1
      <3> DEFINE ap == Append(x, m)  l == Len(x) + 1
      <3>4. ap \in [1..l -> V]  BY <3>1, LenProperties
      <3>5. \A k \in 1..l : ap[k] = IF k <= Len(x) THEN x[k] ELSE m  BY <3>2
      <3> HIDE DEF ap, l
      <3>6. ap = [k \in 1..l |-> IF k <= Len(x) THEN x[k] ELSE m]  BY <3>4, <3>5
      <3> QED  BY <3>6 DEF ap, l
    <2> QED  BY <1>6, <2>1, <2>2
  <1>8. Append(x, m) = x \o <<m>>  BY <1>5
  <1> QED  BY <1>7, <1>8 DEF x, y, w, m

LEMMA QueueFrames ==
    ASSUME FramesInv, FramerInv', Parsing, NEW b \in Nat, NEW e \in Nat, Queue(b, e),
           b < e, e <= fed, IsNextMessage(b, e)
    PROVE  FramesInv'
  <1> DEFINE U == AllBytes(stream)  V == Seq(U)  m == SubSeq(stream, b + 1, e)
             W == Waiting(stream, completed)
  <1>1. /\ completed' = R!push(completed, [begin |-> b, end |-> e]) /\ scan' = e
        /\ ctx' = NewContext /\ UNCHANGED <<phase, capped, stream, fed, taken>>
        /\ phase = "parsing" /\ ~ R!full(completed) /\ RingOK(completed) /\ FramerInv
    BY DEF Queue, Parsing, FramesInv, FramerInv, Windows
  <1>2. /\ taken \in Seq(V) /\ W \in Seq(V)  BY <1>1, WaitingOK DEF FramesInv
  <1>3. m \in V
    <2>1. stream \in Seq(U) /\ fed <= Len(stream) /\ fed \in Nat /\ Len(stream) \in Nat
      BY <1>1, Positions, AllBytesOK
    <2> DEFINE a == b + 1
    <2>2. a \in Nat \ {0} /\ e <= Len(stream) /\ a <= e + 1  BY <2>1
    <2> HIDE DEF a, U
    <2>3. SubSeq(stream, a, e) \in Seq(U)  BY <2>1, <2>2, SubSeqIs
    <2> QED  BY <2>3 DEF a
  <1>4. Waiting(stream, completed') = W \o <<m>>
    <2> HIDE DEF V
    <2> QED  BY <1>1, <1>2, <1>3, WaitingPushed
  <1>5. Account'
    <2> SUFFICES ASSUME NEW f \in fed..Len(stream)
                 PROVE  Messages(Upto(f)) = (taken \o (W \o <<m>>)) \o MessagesFrom(Upto(f))[e + 1]
      BY <1>1, <1>4 DEF Account, Upto
    <2> DEFINE x == MessagesFrom(Upto(f))[e + 1]
    <2>1. x \in Seq(V)
      <3>1. f \in Nat /\ e <= f  BY <1>1, Positions
      <3> QED  BY <1>1, <3>1, FoundOK
    <2>2. Messages(Upto(f)) = (taken \o W) \o MessagesFrom(Upto(f))[scan + 1]
      BY DEF FramesInv, Account
    <2>3. MessagesFrom(Upto(f))[scan + 1] = <<m>> \o x  BY DEF IsNextMessage
    <2> DEFINE tk == taken
    <2>0. tk \in Seq(V) /\ W \in Seq(V) /\ m \in V /\ x \in Seq(V)  BY <1>2, <1>3, <2>1
    <2> HIDE DEF V, W, m, x, tk
    <2>4. (tk \o W) \o (<<m>> \o x) = (tk \o (W \o <<m>>)) \o x
      BY <2>0, MoveIn
    <2> QED  BY <2>2, <2>3, <2>4 DEF x, tk
  <1>6. Standing'
    <2>1. completed'.size = completed.size + 1 /\ Item(completed', completed.size + 1).end = e
      BY <1>1, RingPush
    <2>2. completed.size \in Nat  BY <1>1 DEF RingOK
    <2> QED  BY <1>1, <2>1, <2>2 DEF Standing
  <1>7. BodyKnown'  BY <1>1 DEF BodyKnown, NewContext
  <1>8. AllFound'  BY <1>1 DEF AllFound
  <1> QED  BY <1>1, <1>2, <1>5, <1>6, <1>7, <1>8 DEF FramesInv

LEMMA WaitingPopped ==
    ASSUME NEW s, NEW r, RingOK(r), ~ R!empty(r), NEW V, Waiting(s, r) \in Seq(V)
    PROVE  /\ SubSeq(s, R!front(r).begin + 1, R!front(r).end) \in V
           /\ Waiting(s, R!pop_front(r)) \in Seq(V)
           /\ Waiting(s, r) = <<SubSeq(s, R!front(r).begin + 1, R!front(r).end)>>
                                \o Waiting(s, R!pop_front(r))
  <1> DEFINE w == R!pop_front(r)  m == SubSeq(s, R!front(r).begin + 1, R!front(r).end)  z == r.size
             x == Waiting(s, r)  y == Waiting(s, w)  o == <<m>>  j == o \o y
  <1>1. /\ w.size = z - 1 /\ z \in Nat \ {0} /\ R!front(r) = Item(r, 1)
        /\ \A k \in 1..(z - 1) : Item(w, k) = Item(r, k + 1)
    BY RingPop
  <1>2. /\ x = [k \in 1..z |-> SubSeq(s, Item(r, k).begin + 1, Item(r, k).end)]
        /\ y = [k \in 1..(z - 1) |-> SubSeq(s, Item(w, k).begin + 1, Item(w, k).end)]
        /\ m = SubSeq(s, Item(r, 1).begin + 1, Item(r, 1).end)
    BY <1>1 DEF Waiting
  <1>3. x \in Seq(V)  OBVIOUS
  <1> HIDE DEF w, m, x, y, z
  <1>4. Len(x) = z /\ m = x[1] /\ x \in [1..z -> V]
    <2>1. DOMAIN x = 1..z  BY <1>2
    <2>2. DOMAIN x = 1..Len(x) /\ Len(x) \in Nat /\ x \in [1..Len(x) -> V]  BY <1>3, LenProperties
    <2>3. Len(x) = z  BY <1>1, <2>1, <2>2
    <2>4. 1 \in 1..z  BY <1>1
    <2>5. m = x[1]  BY <1>2, <2>4
    <2> QED  BY <2>2, <2>3, <2>5
  <1>5. m \in V  BY <1>1, <1>4
  <1>6. ASSUME NEW k \in 1..(z - 1) PROVE y[k] = x[k + 1] /\ y[k] \in V
    <2>1. k + 1 \in 1..z  BY <1>1
    <2>2. Item(w, k) = Item(r, k + 1)  BY <1>1
    <2>3. y[k] = SubSeq(s, Item(w, k).begin + 1, Item(w, k).end)  BY <1>2
    <2>4. x[k + 1] = SubSeq(s, Item(r, k + 1).begin + 1, Item(r, k + 1).end)  BY <1>2, <2>1
    <2>5. x[k + 1] \in V  BY <1>4, <2>1
    <2> QED  BY <2>2, <2>3, <2>4, <2>5
  <1>7. y \in Seq(V) /\ Len(y) = z - 1
    <2>1. y \in [1..(z - 1) -> V]  BY <1>2, <1>6
    <2>2. z - 1 \in Nat  BY <1>1
    <2> QED  BY <2>1, <2>2
  <1>8. o \in Seq(V) /\ Len(o) = 1 /\ o[1] = m  BY <1>5
  <1> HIDE DEF o
  <1>9. /\ j \in Seq(V) /\ Len(j) = Len(o) + Len(y)
        /\ \A i \in 1..(Len(o) + Len(y)) : j[i] = IF i <= Len(o) THEN o[i] ELSE y[i - Len(o)]
    <2>1. o \in Seq(V) /\ y \in Seq(V)  BY <1>7, <1>8
    <2> QED  BY <2>1, ConcatProperties
  <1> HIDE DEF j
  <1>10. Len(j) = z  BY <1>1, <1>7, <1>8, <1>9
  <1>11. ASSUME NEW i \in 1..Len(x) PROVE x[i] = j[i]
    <2>1. i \in 1..z /\ i \in 1..(Len(o) + Len(y))  BY <1>1, <1>4, <1>7, <1>8
    <2>2. CASE i = 1  BY <1>4, <1>8, <1>9, <2>1, <2>2
    <2>3. CASE i # 1
      <3> DEFINE k == i - 1
      <3>1. k \in 1..(z - 1) /\ k + 1 = i /\ ~ (i <= 1)  BY <1>1, <2>1, <2>3
      <3> HIDE DEF k
      <3>2. y[k] = x[i]  BY <1>6, <3>1
      <3>3. j[i] = y[i - 1]  BY <1>8, <1>9, <2>1, <3>1
      <3> QED  BY <3>2, <3>3 DEF k
    <2> QED  BY <2>2, <2>3
  <1>12. x = j  BY <1>3, <1>4, <1>9, <1>10, <1>11, SeqEqual
  <1> QED  BY <1>5, <1>7, <1>12 DEF w, m, x, y, o, j

LEMMA ConsumeFrames ==
    ASSUME FramesInv, FramerInv', consume_message
    PROVE  FramesInv'
  <1> DEFINE U == AllBytes(stream)  V == Seq(U)  W == Waiting(stream, completed)
             X == Waiting(stream, completed')  fr == R!front(completed)
             m == SubSeq(stream, fr.begin + 1, fr.end)
  <1>1. /\ completed' = R!pop_front(completed) /\ UNCHANGED <<ctx, scan, phase, capped, stream, fed>>
        /\ taken' = Append(taken, Bytes(fr)) /\ ~ R!empty(completed) /\ phase = "taking"
        /\ RingOK(completed) /\ FramerInv
    BY DEF consume_message, get_message, FramesInv, FramerInv, Windows
  <1>2. /\ taken \in Seq(V) /\ W \in Seq(V)  BY <1>1, WaitingOK DEF FramesInv
  <1>3. m \in V /\ X \in Seq(V) /\ W = <<m>> \o X
    <2> HIDE DEF V
    <2> QED  BY <1>1, <1>2, WaitingPopped
  <1>4. fr = Item(completed, 1) /\ completed.size \in Nat \ {0}  BY <1>1, RingPop
  <1>5. Bytes(fr) = m
    <2>1. 1 \in 1..completed.size  BY <1>4
    <2>2. /\ fr.begin \in Nat /\ fr.end \in Nat /\ First(buf) <= fr.begin /\ fr.begin < fr.end
          /\ fr.end <= fed
      BY <1>1, <1>4, <2>1, WaitingOK
    <2> HIDE DEF fr
    <2> QED  BY <1>1, <2>2, BytesAre
  <1>6. taken' = Append(taken, m) /\ taken' \in Seq(V)
    <2>1. taken' = Append(taken, m)  BY <1>1, <1>5
    <2> HIDE DEF m, V
    <2>2. Append(taken, m) \in Seq(V)  BY <1>2, <1>3
    <2> QED  BY <2>1, <2>2
  <1>7. taken \o W = Append(taken, m) \o X
    <2> DEFINE tk == taken
    <2>1. tk \in Seq(V)  BY <1>2
    <2> HIDE DEF tk, m, W, X, V
    <2>2. tk \o (<<m>> \o X) = Append(tk, m) \o X  BY <1>3, <2>1, MoveOut
    <2> QED  BY <1>3, <2>2 DEF tk
  <1>8. Account'
    <2> SUFFICES ASSUME NEW f \in fed..Len(stream)
                 PROVE  Messages(Upto(f)) = (Append(taken, m) \o X) \o MessagesFrom(Upto(f))[scan + 1]
      BY <1>1, <1>6 DEF Account, Upto
    <2>1. Messages(Upto(f)) = (taken \o W) \o MessagesFrom(Upto(f))[scan + 1]
      BY DEF FramesInv, Account
    <2> QED  BY <1>7, <2>1
  <1>9. Standing'
    <2>1. /\ completed'.size = completed.size - 1
          /\ \A k \in 1..(completed.size - 1) : Item(completed', k) = Item(completed, k + 1)
      BY <1>1, RingPop
    <2>2. CASE completed.size = 1
      <3>1. completed'.size = 0  BY <2>1, <2>2
      <3>2. First(buf') = fr.end
        <4>1. 1 \in 1..completed.size  BY <1>4
        <4>0. /\ fr.begin \in Nat /\ fr.end \in Nat /\ First(buf) <= fr.begin /\ fr.begin < fr.end
              /\ fr.end <= fed /\ First(buf) \in Nat /\ fed \in Nat
          BY <1>1, <1>4, <4>1, WaitingOK, Positions
        <4> HIDE DEF fr
        <4>2. fr.end \in Nat /\ First(buf) < fr.end /\ fr.end <= fed  BY <4>0
        <4> DEFINE n == fr.end - First(buf)
        <4>3. B!abs_to_readable_rel(buf, fr.end) = n  BY <1>1, <4>2, AbsIs
        <4>4. buf' = B!discard_prefix(buf, n)  BY <4>3 DEF consume_message, fr
        <4>5. Holding(buf, stream, fed)  BY <1>1 DEF FramerInv, Feed
        <4>51. buf.tail - buf.head = fed - First(buf)  BY <4>5 DEF Holding, BufferOK, First, Last1
        <4>6. n \in 0..(buf.tail - buf.head) /\ First(buf) + n = fr.end  BY <4>0, <4>2, <4>51
        <4> HIDE DEF n
        <4>7. First(buf') = First(buf) + n  BY <4>4, <4>5, <4>6, DiscardHolding
        <4> QED  BY <4>6, <4>7
      <3>3. scan = fr.end \/ scan + Len(FirstField) <= fed + 1
        BY <1>4, <2>2 DEF FramesInv, Standing
      <3> QED  BY <1>1, <3>1, <3>2, <3>3 DEF Standing
    <2>3. CASE completed.size # 1
      <3>1. completed.size - 1 \in 1..(completed.size - 1) /\ completed.size - 1 + 1 = completed.size
        BY <1>4, <2>3
      <3>2. completed'.size > 0 /\ Item(completed', completed'.size) = Item(completed, completed.size)
        BY <2>1, <3>1
      <3> QED  BY <1>1, <1>4, <3>2 DEF FramesInv, Standing
    <2> QED  BY <2>2, <2>3
  <1>10. BodyKnown'  BY <1>1 DEF FramesInv, BodyKnown, Upto
  <1>11. AllFound'  BY <1>1 DEF FramesInv, AllFound, Upto
  <1> QED  BY <1>1, <1>6, <1>8, <1>9, <1>10, <1>11 DEF FramesInv

-----------------------------------------------------------------------------
(* Every step preserves the account *)

\* Nothing was read of the stream yet.
LEMMA FreshFrames ==
    ASSUME FramerInv, completed.size = 0, ctx = NewContext, scan = 0, First(buf) = 0, fed = 0,
           taken = <<>>
    PROVE  FramesInv
  <1> DEFINE V == Seq(AllBytes(stream))  W == Waiting(stream, completed)
  <1>1. Standing  BY DEF Standing
  <1>2. taken \in Seq(V)  OBVIOUS
  <1>3. W = <<>>  BY DEF Waiting
  <1>4. Account
    <2> SUFFICES ASSUME NEW f \in fed..Len(stream)
                 PROVE  Messages(Upto(f)) = (taken \o W) \o MessagesFrom(Upto(f))[scan + 1]
      BY DEF Account
    <2> DEFINE x == MessagesFrom(Upto(f))[1]
    <2>1. scan + 1 = 1 /\ scan \in Nat  OBVIOUS
    <2>2. scan <= f  OBVIOUS
    <2>3. x \in Seq(V)  BY <2>1, <2>2, FoundOK
    <2>4. taken \o W = <<>>  BY <1>3
    <2>5. Messages(Upto(f)) = x  BY DEF Messages
    <2> HIDE DEF V, x
    <2>6. <<>> \o x = x  BY <2>3, ConcatEmptySeq
    <2> QED  BY <2>1, <2>4, <2>5, <2>6 DEF x
  <1>5. BodyKnown  BY DEF BodyKnown, NewContext
  <1>6. AllFound
    <2>1. RelScan >= Len(View)  BY Positions
    <2> QED  BY <2>1, NothingNewFound DEF AllFound
  <1> QED  BY <1>1, <1>2, <1>4, <1>5, <1>6 DEF FramesInv

LEMMA InitFrames == Init => FramesInv
  <1> SUFFICES ASSUME Init PROVE FramesInv  OBVIOUS
  <1>1. FramerInv  BY InitInv
  <1>2. First(buf) = 0  BY NewHolding DEF Init
  <1>3. completed.size = 0  BY RingNew DEF Init
  <1> QED  BY <1>1, <1>2, <1>3, FreshFrames DEF Init

LEMMA ResetFrames ==
    ASSUME FramerInv, NEW s \in Streams, reset(s)
    PROVE  FramesInv'
  <1>1. FramerInv'  BY ResetInv
  <1>2. First(buf') = 0
    <2>1. BufferOK(buf)  BY DEF FramerInv, Feed, Holding
    <2> QED  BY <2>1, ResetHolding DEF reset
  <1>3. completed'.size = 0  BY RingNew DEF reset
  <1>4. /\ (completed.size = 0)' /\ (ctx = NewContext)' /\ (scan = 0)' /\ (First(buf) = 0)'
        /\ (fed = 0)' /\ (taken = <<>>)'
    BY <1>2, <1>3 DEF reset, NewContext
  <1> QED  BY <1>1, <1>4, FreshFrames, PTL

LEMMA AppendFrames ==
    ASSUME FramesInv, FramerInv', NEW n \in 1..StartCapacity, append(n)
    PROVE  FramesInv'
  <1>1. /\ UNCHANGED <<ctx, scan, completed, stream, taken>> /\ fed' = fed + n
        /\ phase' = "parsing" /\ FramerInv
    BY DEF append, FramesInv
  <1>2. /\ n \in Nat /\ fed \in Nat /\ fed + n <= Len(stream) /\ Len(stream) \in Nat
        /\ scan \in Nat /\ Len(FirstField) \in Nat
    BY <1>1, Positions, Sizes DEF append, FramerInv, Position
  <1>3. First(buf') = First(buf)
    <2>1. stream \in Seq(ToSet(stream)) /\ Holding(buf, stream, fed)
      BY <1>1, StreamIs DEF FramerInv, Feed
    <2>2. buf' = B!push(buf, SubSeq(stream, fed + 1, fed + n))  BY DEF append
    <2>3. fed \in Nat /\ n \in Nat /\ fed + n <= Len(stream)  BY <1>2
    <2> DEFINE w == B!push(buf, SubSeq(stream, fed + 1, fed + n))
    <2>4. First(w) = First(buf)  BY <2>1, <2>3, PushHolding
    <2> QED  BY <2>2, <2>4
  <1>4. \A f \in (fed + n)..Len(stream) : f \in fed..Len(stream)  BY <1>2
  <1>5. Account'  BY <1>1, <1>4 DEF FramesInv, Account, Upto
  <1>6. Standing'
    <2>1. scan + Len(FirstField) <= fed + 1 => scan + Len(FirstField) <= fed + n + 1  BY <1>2
    <2> QED  BY <1>1, <1>3, <2>1 DEF FramesInv, Standing
  <1>7. BodyKnown'
    <2>1. scan < fed => scan < fed + n  BY <1>2
    <2> QED  BY <1>1, <1>4, <2>1 DEF FramesInv, BodyKnown, Upto
  <1>8. AllFound'  BY <1>1 DEF AllFound
  <1> QED  BY <1>1, <1>5, <1>6, <1>7, <1>8 DEF FramesInv

\* A step that leaves the scan, the ring and the stream alone.
LEMMA StillFrames ==
    ASSUME FramesInv, FramerInv', UNCHANGED <<buf, ctx, scan, completed, stream, fed, taken>>, AllFound'
    PROVE  FramesInv'
  <1>1. Account' /\ Standing' /\ BodyKnown'
    BY DEF FramesInv, Account, Standing, BodyKnown, Upto
  <1> QED  BY <1>1 DEF FramesInv

LEMMA NoBeginFrames ==
    ASSUME FramesInv, FramerInv', NoBegin
    PROVE  FramesInv'
  <1>1. /\ FramerInv /\ Begins = {} /\ UNCHANGED <<ctx, completed, stream, fed, taken>>
        /\ ctx.state = "FindingBegin"
    BY DEF FramesInv, NoBegin, Finding
  <1>2. MessagesFrom(Upto(fed))[scan + 1] = <<>>  BY <1>1, NoBeginFound
  <1>3. CASE scan' = Scan /\ UNCHANGED buf
    <2>1. scan' = scan  BY <1>1, <1>3, Positions
    <2>2. AllFound'  BY <1>1, <1>2, <2>1 DEF AllFound, Upto
    <2> QED  BY <1>1, <1>3, <2>1, <2>2, StillFrames
  <1>4. CASE R!empty(completed) /\ buf' = B!discard_prefix(buf, Len(View) - Kept)
             /\ scan' = B!readable_rel_to_abs(buf', 0)
    <2> DEFINE x == Len(View)  y == Len(FirstField) - 1  d == First(buf)  n == x - Kept
    <2>1. /\ d \in Nat /\ fed \in Nat /\ x = fed - d /\ x \in Nat /\ y \in Nat
          /\ scan \in Nat /\ d <= scan /\ scan <= fed /\ RelScan = scan - d
          /\ Len(FirstField) = y + 1
      BY <1>1, Positions, Sizes DEF FramerInv, Position
    <2>2. Holding(buf, stream, fed)  BY <1>1 DEF FramerInv, Feed
    <2>3. buf.tail - buf.head = fed - d  BY <2>2 DEF Holding, BufferOK, First, Last1
    <2>4. Kept = IF x <= y THEN x ELSE y
      <3> HIDE DEF x, y
      <3>1. B!Min({x, y}) = IF x <= y THEN x ELSE y  BY <2>1, Min2
      <3> QED  BY <3>1 DEF Kept, x, y
    <2>5. completed.size = 0  BY <1>4 DEF R!empty
    <2>6. scan = d \/ scan + (y + 1) <= fed + 1
      BY <2>1, <2>5 DEF FramesInv, Standing
    <2>7. buf' = B!discard_prefix(buf, n)  BY <1>4
    <2> HIDE DEF x, y, d
    <2>8. n \in 0..(fed - d) /\ scan <= d + n /\ d + n <= fed /\ d + n \in Nat
          /\ \A i \in Nat : i >= RelScan /\ d + i < d + n => i + (y + 1) <= x
      BY <2>1, <2>4, <2>6
    <2> HIDE DEF n
    <2>9. First(buf') = d + n  BY <2>2, <2>3, <2>7, <2>8, DiscardHolding DEF d
    <2>10. Holding(buf', stream, fed)  BY <2>2, <2>3, <2>7, <2>8, DiscardHolding DEF d
    <2>11. scan' = d + n
      BY <1>4, <2>9, <2>10 DEF B!readable_rel_to_abs, Holding, BufferOK, First
    <2>12. Passes(scan, scan')
      <3> DEFINE r == d + n
      <3>1. r \in Nat /\ scan <= r /\ r <= fed  BY <2>8
      <3>2. \A i \in Nat : i >= RelScan /\ First(buf) + i < r =>
              i + Len(FirstField) <= Len(View) /\ i \notin Begins
        BY <1>1, <2>1, <2>8 DEF d, x
      <3> HIDE DEF r
      <3>3. Passes(scan, r)  BY <1>1, <3>1, <3>2, PassesTo
      <3> QED  BY <2>11, <3>3 DEF r
    <2>13. Standing'  BY <1>1, <2>5, <2>9, <2>11 DEF Standing
    <2>14. BodyKnown'  BY <1>1 DEF BodyKnown
    <2>15. AllFound'
      <3>1. fed \in fed..Len(stream)  BY <1>1, FedIs
      <3>2. MessagesFrom(Upto(fed))[scan' + 1] = <<>>  BY <1>2, <2>12, <3>1 DEF Passes
      <3> QED  BY <1>1, <3>2 DEF AllFound, Upto
    <2> QED  BY <1>1, <2>12, <2>13, <2>14, <2>15, ScanFrames
  <1> QED  BY <1>3, <1>4 DEF NoBegin

\* A first field that is found has room before the last byte.
LEMMA RoomForField ==
    ASSUME FramerInv, Begins # {}
    PROVE  BeginAbs + Len(FirstField) <= fed
  <1> DEFINE n == Len(FirstField)  d == First(buf)  v == Len(View)
  <1>1. /\ Begin \in Nat /\ Begin + n <= v /\ BeginAbs = d + Begin /\ v = fed - d
        /\ d \in Nat /\ fed \in Nat /\ n \in Nat
    BY BeginIs, Positions, Sizes
  <1> HIDE DEF n, d, v
  <1>2. BeginAbs + n <= fed  BY <1>1
  <1> QED  BY <1>2 DEF n

LEMMA HeaderCutFrames ==
    ASSUME FramesInv, FramerInv', HeaderCut
    PROVE  FramesInv'
  <1>1. /\ FramerInv /\ Begins # {} /\ Header = "cut" /\ scan' = BeginAbs
        /\ UNCHANGED <<buf, completed, stream, fed, taken>>
        /\ ctx' = [ctx EXCEPT !.begin = BeginAbs] /\ ctx.state = "FindingBegin"
    BY DEF FramesInv, HeaderCut, Finding
  <1>2. Passes(scan, scan')  BY <1>1, PassesToBegin
  <1>3. BeginAbs \in Nat /\ fed \in Nat /\ Len(FirstField) \in Nat  BY <1>1, BeginIs, Positions, Sizes
  <1>4. BeginAbs + Len(FirstField) <= fed  BY <1>1, RoomForField
  <1>5. Standing'
    <2>1. BeginAbs + Len(FirstField) <= fed + 1  BY <1>3, <1>4
    <2> QED  BY <1>1, <2>1 DEF Standing
  <1>6. BodyKnown'
    <2>1. ctx'.state = "FindingBegin"  BY <1>1 DEF FramerInv, Position, ContextOK
    <2> QED  BY <2>1 DEF BodyKnown
  <1>7. AllFound'  BY <1>1, CutFound DEF AllFound, Upto
  <1> QED  BY <1>1, <1>2, <1>5, <1>6, <1>7, ScanFrames

LEMMA ResyncFrames ==
    ASSUME FramesInv, FramerInv', Resync
    PROVE  FramesInv'
  <1>1. /\ FramerInv /\ Begins # {} /\ Header = "wrong" /\ scan' = BeginAbs + 1
        /\ UNCHANGED <<buf, completed, stream, fed, taken>> /\ ctx' = NewContext
        /\ phase' = "parsing"
    BY DEF FramesInv, Resync, Finding, Parsing
  <1>2. Passes(scan, scan')  BY <1>1, PassesWrong
  <1>3. BeginAbs \in Nat /\ fed \in Nat /\ Len(FirstField) \in Nat  BY <1>1, BeginIs, Positions, Sizes
  <1>4. BeginAbs + Len(FirstField) <= fed  BY <1>1, RoomForField
  <1>5. Standing'
    <2>1. BeginAbs + 1 + Len(FirstField) <= fed + 1  BY <1>3, <1>4
    <2> QED  BY <1>1, <2>1 DEF Standing
  <1>6. BodyKnown'  BY <1>1 DEF BodyKnown, NewContext
  <1>7. AllFound'  BY <1>1 DEF AllFound
  <1> QED  BY <1>1, <1>2, <1>5, <1>6, <1>7, ScanFrames

\* A header where the scan stands, of a message that ends at e.
HeaderWith(at, e) ==
    \A f \in fed..Len(stream) : HeaderEnds(Upto(f), at + 1) # {} /\ MessageEnd(Upto(f), at + 1) = e

LEMMA SoundWith ==
    ASSUME FramerInv, Begins # {}, Header = "sound"
    PROVE  HeaderWith(BeginAbs, First(buf) + FrameEnd)
  <1> SUFFICES ASSUME NEW f \in fed..Len(stream)
               PROVE  /\ HeaderEnds(Upto(f), BeginAbs + 1) # {}
                      /\ MessageEnd(Upto(f), BeginAbs + 1) = First(buf) + FrameEnd
    BY DEF HeaderWith
  <1> DEFINE U == AllBytes(stream)  t == Upto(f)
  <1>1. Sees(U, t)  BY UptoIs
  <1> HIDE DEF U, t
  <1>2. HeaderEnds(t, BeginAbs + 1) # {} /\ MessageEnd(t, BeginAbs + 1) = First(buf) + FrameEnd
    BY <1>1, SoundSeen
  <1> QED  BY <1>2 DEF t

\* Its end is not there yet: nothing is found.
LEMMA BodyMissing ==
    ASSUME FramerInv, NEW at \in Nat, at < fed, NEW e \in Nat, HeaderWith(at, e), e > fed
    PROVE  MessagesFrom(Upto(fed))[at + 1] = <<>>
  <1> DEFINE U == AllBytes(stream)  t == Upto(fed)  p == at + 1
  <1>1. /\ Alphabet(U) /\ t \in Seq(U) /\ Len(t) = fed /\ fed \in Nat /\ fed \in fed..Len(stream)
    BY FedIs
  <1>2. HeaderEnds(t, p) # {} /\ MessageEnd(t, p) = e  BY <1>1 DEF HeaderWith
  <1>3. p \in 1..Len(t)  BY <1>1
  <1> HIDE DEF U, t, p
  <1>4. MessageEnd(t, p) > Len(t) => MessagesFrom(t)[p] = <<>>  BY <1>1, <1>2, <1>3, HeaderAt
  <1> QED  BY <1>1, <1>2, <1>4 DEF t, p

\* Its end is there: it is the next message.
LEMMA BodyThere ==
    ASSUME FramerInv, NEW at \in Nat, at < fed, NEW e \in Nat, HeaderWith(at, e), e <= fed,
           Passes(scan, at)
    PROVE  IsNextMessage(at, e)
  <1> SUFFICES ASSUME NEW f \in fed..Len(stream)
               PROVE  MessagesFrom(Upto(f))[scan + 1]
                        = <<SubSeq(stream, at + 1, e)>> \o MessagesFrom(Upto(f))[e + 1]
    BY DEF IsNextMessage
  <1> DEFINE U == AllBytes(stream)  t == Upto(f)  p == at + 1
  <1>1. /\ Alphabet(U) /\ t \in Seq(U) /\ Len(t) = f /\ f \in Nat /\ fed \in Nat /\ fed <= f
        /\ \A a \in Nat \ {0} : \A b \in 0..f :
             a <= b + 1 => SubSeq(t, a, b) = SubSeq(stream, a, b)
    BY UptoIs, Positions DEF Sees
  <1>2. HeaderEnds(t, p) # {} /\ MessageEnd(t, p) = e  BY DEF HeaderWith
  <1>3. p \in 1..Len(t) /\ e <= Len(t) /\ p \in Nat \ {0} /\ e \in 0..f  BY <1>1
  <1>4. MessagesFrom(t)[scan + 1] = MessagesFrom(t)[p]  BY DEF Passes
  <1> HIDE DEF U, t, p
  <1>5. /\ MessageEnd(t, p) > p
        /\ MessageEnd(t, p) <= Len(t) =>
             MessagesFrom(t)[p] = <<SubSeq(t, p, MessageEnd(t, p))>> \o MessagesFrom(t)[MessageEnd(t, p) + 1]
    BY <1>1, <1>2, <1>3, HeaderAt
  <1>6. MessagesFrom(t)[p] = <<SubSeq(t, p, e)>> \o MessagesFrom(t)[e + 1]  BY <1>2, <1>3, <1>5
  <1>7. SubSeq(t, p, e) = SubSeq(stream, p, e)
    <2>1. p <= e + 1  BY <1>2, <1>3, <1>5
    <2> QED  BY <1>1, <1>3, <2>1
  <1> QED  BY <1>4, <1>6, <1>7 DEF t, p

LEMMA BodyCutFrames ==
    ASSUME FramesInv, FramerInv', BodyCut
    PROVE  FramesInv'
  <1> DEFINE e == First(buf) + FrameEnd
  <1>1. /\ FramerInv /\ Begins # {} /\ Header = "sound" /\ scan' = BeginAbs /\ FrameEnd > Len(View)
        /\ UNCHANGED <<buf, completed, stream, fed, taken>>
    BY DEF FramesInv, BodyCut
  <1>2. /\ BeginAbs \in Nat /\ BeginAbs < fed /\ FrameEnd \in Nat /\ First(buf) \in Nat
        /\ Len(View) = fed - First(buf) /\ fed \in Nat /\ Len(FirstField) \in Nat
    BY <1>1, BeginIs, SoundIs, Positions, Sizes
  <1>3. e \in Nat /\ e > fed  BY <1>1, <1>2
  <1>4. ctx'.end = e
    <2>1. ctx'.end = B!readable_rel_to_abs(buf, FrameEnd)  BY DEF BodyCut
    <2> QED  BY <1>1, <1>2, <2>1, AbsIs
  <1>5. HeaderWith(BeginAbs, e)  BY <1>1, SoundWith
  <1> HIDE DEF e
  <1>6. Passes(scan, scan')  BY <1>1, PassesToBegin
  <1>7. Standing'
    <2>1. BeginAbs + Len(FirstField) <= fed  BY <1>1, RoomForField
    <2>2. BeginAbs + Len(FirstField) <= fed + 1  BY <1>2, <2>1
    <2> QED  BY <1>1, <2>2 DEF Standing
  <1>8. BodyKnown'  BY <1>1, <1>2, <1>4, <1>5 DEF BodyKnown, HeaderWith, Upto
  <1>9. AllFound'
    <2>1. MessagesFrom(Upto(fed))[BeginAbs + 1] = <<>>  BY <1>1, <1>2, <1>3, <1>5, BodyMissing
    <2> QED  BY <1>1, <2>1 DEF AllFound, Upto
  <1> QED  BY <1>1, <1>6, <1>7, <1>8, <1>9, ScanFrames

LEMMA MessageFoundFrames ==
    ASSUME FramesInv, FramerInv', MessageFound
    PROVE  FramesInv'
  <1> DEFINE e == First(buf) + FrameEnd  b == BeginAbs
  <1>1. /\ FramerInv /\ Begins # {} /\ Header = "sound" /\ FrameEnd <= Len(View) /\ Parsing
        /\ Queue(BeginAbs, B!readable_rel_to_abs(buf, FrameEnd))
    BY DEF FramesInv, MessageFound, Finding
  <1>2. /\ b \in Nat /\ b < fed /\ FrameEnd \in Nat /\ First(buf) \in Nat
        /\ Len(View) = fed - First(buf) /\ fed \in Nat /\ b = First(buf) + Begin
        /\ Begin \in Nat /\ Begin < FrameEnd
    BY <1>1, BeginIs, SoundIs, Positions
  <1>3. e \in Nat /\ e <= fed /\ b < e  BY <1>1, <1>2
  <1>4. Queue(b, e)  BY <1>1, <1>2, AbsIs
  <1>5. HeaderWith(b, e) /\ Passes(scan, b)  BY <1>1, SoundWith, PassesToBegin
  <1> HIDE DEF e, b
  <1>6. IsNextMessage(b, e)  BY <1>1, <1>2, <1>3, <1>5, BodyThere
  <1> QED  BY <1>1, <1>2, <1>3, <1>4, <1>6, QueueFrames

\* While a body is awaited.
LEMMA AwaitedIs ==
    ASSUME FramesInv, ctx.state = "ReadingBody"
    PROVE  /\ scan \in Nat /\ scan < fed /\ ctx.begin = scan /\ ctx.end \in Nat /\ scan < ctx.end
           /\ HeaderWith(scan, ctx.end) /\ Passes(scan, scan)
           /\ B!readable_rel_to_abs(buf, Len(View)) = fed /\ fed \in Nat
  <1>1. FramerInv  BY DEF FramesInv
  <1>2. ctx.begin = scan /\ ctx.end \in Nat /\ scan < ctx.end /\ scan \in Nat
    BY <1>1 DEF FramerInv, Position, ContextOK
  <1>3. scan < fed /\ HeaderWith(scan, ctx.end)  BY DEF FramesInv, BodyKnown, HeaderWith
  <1>4. B!readable_rel_to_abs(buf, Len(View)) = fed /\ fed \in Nat
    <2>1. /\ First(buf) \in Nat /\ Len(View) = fed - First(buf) /\ Len(View) \in Nat /\ fed \in Nat
      BY <1>1, Positions
    <2>2. B!readable_rel_to_abs(buf, Len(View)) = First(buf) + Len(View)  BY <1>1, <2>1, AbsIs
    <2> QED  BY <2>1, <2>2
  <1> QED  BY <1>2, <1>3, <1>4 DEF Passes

LEMMA BodyStillCutFrames ==
    ASSUME FramesInv, FramerInv', BodyStillCut
    PROVE  FramesInv'
  <1>1. /\ FramerInv /\ ctx.state = "ReadingBody" /\ scan' = scan
        /\ ctx.end > B!readable_rel_to_abs(buf, Len(View))
        /\ UNCHANGED <<buf, ctx, completed, stream, fed, taken>>
    BY Positions DEF FramesInv, BodyStillCut, Reading
  <1> DEFINE e == ctx.end
  <1>2. scan \in Nat /\ scan < fed /\ e \in Nat /\ HeaderWith(scan, e) /\ e > fed
    BY <1>1, AwaitedIs
  <1> HIDE DEF e
  <1>3. MessagesFrom(Upto(fed))[scan + 1] = <<>>  BY <1>1, <1>2, BodyMissing
  <1>4. AllFound'  BY <1>1, <1>3 DEF AllFound, Upto
  <1> QED  BY <1>1, <1>4, StillFrames

LEMMA BodyCompleteFrames ==
    ASSUME FramesInv, FramerInv', BodyComplete
    PROVE  FramesInv'
  <1>1. /\ FramerInv /\ ctx.state = "ReadingBody" /\ Queue(ctx.begin, ctx.end) /\ Parsing
        /\ ctx.end <= B!readable_rel_to_abs(buf, Len(View))
    BY DEF FramesInv, BodyComplete, Reading
  <1> DEFINE e == ctx.end  b == ctx.begin
  <1>2. /\ scan \in Nat /\ scan < fed /\ e \in Nat /\ HeaderWith(scan, e) /\ e <= fed /\ b = scan
        /\ scan < e /\ Passes(scan, scan) /\ Queue(b, e)
    BY <1>1, AwaitedIs
  <1> HIDE DEF e, b
  <1>3. IsNextMessage(scan, e)  BY <1>1, <1>2, BodyThere
  <1> QED  BY <1>1, <1>2, <1>3, QueueFrames

LEMMA ParseFrames ==
    ASSUME FramesInv, FramerInv', parse_buffer
    PROVE  FramesInv'
  <1>1. CASE NothingNew
    <2>1. /\ FramerInv /\ RelScan >= Len(View) /\ scan' = scan
          /\ UNCHANGED <<buf, ctx, completed, stream, fed, taken>>
      BY <1>1, Positions DEF FramesInv, NothingNew
    <2>2. AllFound'  BY <2>1, NothingNewFound DEF AllFound, Upto
    <2> QED  BY <2>1, <2>2, StillFrames
  <1>2. CASE NoBegin  BY <1>2, NoBeginFrames
  <1>3. CASE HeaderCut  BY <1>3, HeaderCutFrames
  <1>4. CASE Resync  BY <1>4, ResyncFrames
  <1>5. CASE BodyCut  BY <1>5, BodyCutFrames
  <1>6. CASE MessageFound  BY <1>6, MessageFoundFrames
  <1>7. CASE BodyStillCut  BY <1>7, BodyStillCutFrames
  <1>8. CASE BodyComplete  BY <1>8, BodyCompleteFrames
  <1> QED  BY <1>1, <1>2, <1>3, <1>4, <1>5, <1>6, <1>7, <1>8 DEF parse_buffer

LEMMA NextFrames == FramesInv /\ [Next]_vars => FramesInv'
  <1> SUFFICES ASSUME FramesInv, [Next]_vars PROVE FramesInv'  OBVIOUS
  <1>1. FramerInv  BY DEF FramesInv
  <1>2. FramerInv'  BY <1>1, NextInv
  <1>3. ASSUME NEW n \in 1..StartCapacity, append(n) PROVE FramesInv'  BY <1>2, <1>3, AppendFrames
  <1>4. CASE RingFull
    <2>1. UNCHANGED <<buf, ctx, scan, completed, stream, fed, taken>> /\ capped' = TRUE
      BY <1>4 DEF RingFull
    <2>2. AllFound'  BY <2>1 DEF AllFound
    <2> QED  BY <1>2, <2>1, <2>2, StillFrames
  <1>5. CASE parse_buffer  BY <1>2, <1>5, ParseFrames
  <1>6. CASE consume_message  BY <1>2, <1>6, ConsumeFrames
  <1>7. CASE ReadAgain
    <2>1. UNCHANGED <<buf, ctx, scan, completed, capped, stream, fed, taken>> /\ phase = "taking"
      BY <1>7 DEF ReadAgain
    <2>2. AllFound'  BY <2>1 DEF FramesInv, AllFound, Upto
    <2> QED  BY <1>2, <2>1, <2>2, StillFrames
  <1>8. ASSUME NEW s \in Streams, reset(s) PROVE FramesInv'  BY <1>1, <1>8, ResetFrames
  <1>9. CASE UNCHANGED vars
    <2>1. UNCHANGED <<buf, ctx, scan, completed, capped, stream, fed, taken, phase>>
      BY <1>9 DEF vars
    <2>2. AllFound'  BY <2>1 DEF FramesInv, AllFound, Upto
    <2> QED  BY <1>2, <2>1, <2>2, StillFrames
  <1> QED  BY <1>3, <1>4, <1>5, <1>6, <1>7, <1>8, <1>9 DEF Next

\* Whatever the reads were, and wherever append stopped: the messages of the
\* stream are those taken, those in the ring and those the scan still has
\* before it, each once and in order.
THEOREM FramesInvariance == Spec => []FramesInv
  BY InitFrames, NextFrames, PTL DEF Spec

LEMMA PrefixIs ==
    ASSUME NEW V, NEW s \in Seq(V), NEW x \in Seq(V)
    PROVE  IsPrefix(s, s \o x)
  <1> DEFINE t == s \o x  n == Len(s)
  <1>1. /\ t \in Seq(V) /\ Len(t) = Len(s) + Len(x)
        /\ \A i \in 1..(Len(s) + Len(x)) : t[i] = IF i <= Len(s) THEN s[i] ELSE x[i - Len(s)]
    BY ConcatProperties
  <1>2. Len(s) \in Nat /\ Len(x) \in Nat  OBVIOUS
  <1> HIDE DEF t
  <1>3. n \in Nat /\ n <= Len(s) /\ 0 + n <= Len(t) /\ 1 <= n + 1 /\ 0 + 1 = 1 /\ 0 + n = n /\ n <= Len(t)
    BY <1>1, <1>2
  <1>4. Shifted(s, t, 0, 1, n)
    <2>1. \A i \in 1..n : i \in 1..(Len(s) + Len(x)) /\ i <= Len(s) /\ 0 + i = i  BY <1>2
    <2> QED  BY <1>1, <2>1 DEF Shifted
  <1> HIDE DEF n
  <1>5. SubSeq(s, 1, n) = SubSeq(t, 0 + 1, 0 + n)  BY <1>1, <1>3, <1>4, SameParts
  <1> QED  BY <1>3, <1>5 DEF IsPrefix, t, n

LEMMA FramesInOrder == FramesInv => MessagesInOrder
  <1> SUFFICES ASSUME FramesInv PROVE MessagesInOrder  OBVIOUS
  <1> DEFINE V == Seq(AllBytes(stream))  W == Waiting(stream, completed)  f == Len(stream)
             X == [k \in 1..completed.size |-> Bytes(R!Items(completed)[k])]
             x == MessagesFrom(stream)[scan + 1]
  <1>1. FramerInv  BY DEF FramesInv
  <1>2. taken \in Seq(V) /\ W \in Seq(V)  BY <1>1, WaitingOK DEF FramesInv
  <1>3. /\ f \in fed..Len(stream) /\ scan \in Nat /\ scan <= f /\ stream \in Seq(ToSet(stream))
    <2>1. /\ fed \in Nat /\ fed <= Len(stream) /\ Len(stream) \in Nat /\ scan \in Nat /\ scan <= fed
          /\ stream \in Seq(ToSet(stream))
      BY <1>1, Positions DEF FramerInv, Position
    <2> QED  BY <2>1
  <1>4. Upto(f) = stream  BY <1>3, SubSeqFull DEF Upto
  <1>5. Messages(Upto(f)) = (taken \o W) \o MessagesFrom(Upto(f))[scan + 1]
    BY <1>3 DEF FramesInv, Account
  <1>6. Messages(stream) = (taken \o W) \o x  BY <1>4, <1>5
  <1>7. x \in Seq(V)
    <2> HIDE DEF f
    <2>1. MessagesFrom(Upto(f))[scan + 1] \in Seq(V)  BY <1>1, <1>3, FoundOK
    <2> QED  BY <1>4, <2>1
  <1>8. X = W
    <2>1. ASSUME NEW k \in 1..completed.size
          PROVE  Bytes(R!Items(completed)[k])
                   = SubSeq(stream, Item(completed, k).begin + 1, Item(completed, k).end)
      <3> DEFINE w == Item(completed, k)
      <3>1. R!Items(completed)[k] = w  BY DEF R!Items, Item
      <3>2. /\ w.begin \in Nat /\ w.end \in Nat /\ First(buf) <= w.begin /\ w.begin < w.end
            /\ w.end <= fed
        BY <1>1, WaitingOK
      <3> HIDE DEF w
      <3>3. Bytes(w) = SubSeq(stream, w.begin + 1, w.end)  BY <1>1, <3>2, BytesAre
      <3> QED  BY <3>1, <3>3 DEF w
    <2> QED  BY <2>1 DEF Waiting
  <1> DEFINE s == taken \o W
  <1>9. s \in Seq(V)
    <2> DEFINE tk == taken
    <2>1. tk \in Seq(V)  BY <1>2
    <2> HIDE DEF V, W, tk
    <2>2. tk \o W \in Seq(V)  BY <1>2, <2>1, ConcatProperties
    <2> QED  BY <2>2 DEF tk
  <1>10. MessagesInOrder <=> IsPrefix(s, s \o x)  BY <1>6, <1>8 DEF MessagesInOrder
  <1> HIDE DEF s, x, V
  <1> QED  BY <1>7, <1>9, <1>10, PrefixIs

\* Whatever sizes the reads have, the handler of Session gets the messages of
\* the stream, whole, in order and none twice.
THEOREM InOrder == Spec => []MessagesInOrder
  BY FramesInvariance, FramesInOrder, PTL

LEMMA FramesComplete == FramesInv => NothingHeldBack
  <1> SUFFICES ASSUME FramesInv, phase = "reading", ~ capped PROVE taken = Messages(SubSeq(stream, 1, fed))
    BY DEF NothingHeldBack
  <1> DEFINE V == Seq(AllBytes(stream))  tk == taken
  <1>1. FramerInv  BY DEF FramesInv
  <1>2. tk \in Seq(V)  BY DEF FramesInv
  <1>3. completed.size = 0  BY <1>1 DEF FramerInv, Windows
  <1>4. Waiting(stream, completed) = <<>>  BY <1>3 DEF Waiting
  <1>5. fed \in fed..Len(stream)  BY <1>1, FedIs
  <1>6. Messages(Upto(fed)) = (tk \o <<>>) \o MessagesFrom(Upto(fed))[scan + 1]
    BY <1>4, <1>5 DEF FramesInv, Account
  <1>7. MessagesFrom(Upto(fed))[scan + 1] = <<>>  BY DEF FramesInv, AllFound
  <1> HIDE DEF V, tk
  <1>8. tk \o <<>> = tk  BY <1>2, ConcatEmptySeq
  <1>9. Messages(Upto(fed)) = tk  BY <1>6, <1>7, <1>8
  <1> QED  BY <1>9 DEF Upto, tk

\* Before it reads again, the handler has every message that was received in
\* full, unless append stopped at a full ring.
THEOREM Complete == Spec => []NothingHeldBack
  BY FramesInvariance, FramesComplete, PTL
=============================================================================
