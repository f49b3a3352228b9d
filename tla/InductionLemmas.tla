-------------------------- MODULE InductionLemmas --------------------------
(***************************************************************************)
(* Induction over the natural numbers, for a set instead of a predicate:   *)
(* what is to be shown of every n is stated as the set of the n for which  *)
(* it holds.                                                               *)
(***************************************************************************)
EXTENDS Integers, Sequences, FiniteSetsExt, WellFoundedInduction, TLAPS

\* A set of natural numbers that is not empty has a least element.
LEMMA LeastNatural ==
    ASSUME NEW T \in SUBSET Nat, T # {}
    PROVE  \E n \in T : \A m \in T : n <= m
  <1> DEFINE R == OpToRel(<, Nat)
  <1>1. IsWellFoundedOn(R, Nat)  BY NatLessThanWellFounded, Zenon
  <1>2. \A x, y \in Nat : x < y => <<x, y>> \in R  BY DEF OpToRel
  <1> HIDE DEF R
  <1>3. PICK n \in T : \A y \in T : ~ (<<y, n>> \in R)  BY <1>1, WFMin
  <1>4. \A m \in T : m \in Nat /\ n \in Nat /\ ~ (m < n)  BY <1>2, <1>3
  <1>5. \A m \in T : n <= m  BY <1>4
  <1> QED  BY <1>5

\* A set that has 0 and with n also n + 1 has all natural numbers.
LEMMA SetInduction ==
    ASSUME NEW T, 0 \in T, \A n \in Nat : n \in T => n + 1 \in T
    PROVE  Nat \subseteq T
  <1> SUFFICES ASSUME Nat \ T # {} PROVE FALSE  OBVIOUS
  <1>1. PICK n \in Nat \ T : \A m \in Nat \ T : n <= m  BY LeastNatural
  <1>2. n # 0 /\ n - 1 \in Nat /\ n - 1 + 1 = n  BY <1>1
  <1>3. n - 1 \in T  BY <1>1, <1>2
  <1> QED  BY <1>1, <1>2, <1>3

\* Max of numbers up to a bound.
LEMMA MaxOf ==
    ASSUME NEW n \in Nat, NEW S \in SUBSET (1..n), S # {}
    PROVE  Max(S) \in S /\ \A y \in S : y <= Max(S)
  <1> DEFINE T == {n - x : x \in S}
  <1>1. T \in SUBSET Nat /\ T # {}
    <2>1. \A x \in S : n - x \in Nat  OBVIOUS
    <2> QED  BY <2>1
  <1>2. PICK t \in T : \A m \in T : t <= m  BY <1>1, LeastNatural
  <1>3. PICK x \in S : t = n - x  BY <1>2
  <1>4. \A y \in S : n - x <= n - y  BY <1>2, <1>3
  <1>5. \A y \in S : x >= y  BY <1>4
  <1>6. Max(S) \in S /\ \A y \in S : Max(S) >= y  BY <1>5 DEF Max
  <1> QED  BY <1>6

\* The numbers up to k + 1, taken apart as a fold over a sequence does it.
LEMMA LastOfInterval ==
    ASSUME NEW k \in Nat
    PROVE  /\ Max(1..(k + 1)) = k + 1 /\ (1..(k + 1)) \ {k + 1} = 1..k
           /\ 1..(k + 1) # {}
  <1>1. k + 1 \in Nat /\ 1..(k + 1) \in SUBSET (1..(k + 1)) /\ k + 1 \in 1..(k + 1)  OBVIOUS
  <1>2. 1..(k + 1) # {}  BY <1>1
  <1>3. Max(1..(k + 1)) \in 1..(k + 1) /\ \A y \in 1..(k + 1) : y <= Max(1..(k + 1))
    BY <1>1, <1>2, MaxOf
  <1>4. k + 1 <= Max(1..(k + 1))  BY <1>1, <1>3
  <1>5. Max(1..(k + 1)) = k + 1  BY <1>3, <1>4
  <1>6. (1..(k + 1)) \ {k + 1} = 1..k  OBVIOUS
  <1> QED  BY <1>2, <1>5, <1>6

\* The function of sets that FoldLeft computes with, for a step st from a
\* value and a position to a value.
FoldOf(a, n, st, g) ==
    g = [S \in SUBSET (1..n) |-> IF S = {} THEN a ELSE st[<<g[S \ {Max(S)}], Max(S)>>]]

HasFold(A, a, n, st) == \E g \in [SUBSET (1..n) -> A] : FoldOf(a, n, st, g)

LEMMA FoldOfExists ==
    ASSUME NEW A, NEW a \in A, NEW n \in Nat, NEW st \in [A \X (1..n) -> A]
    PROVE  \E g \in [SUBSET (1..n) -> A] : FoldOf(a, n, st, g)
  <1> DEFINE T == {k \in Nat : k <= n => HasFold(A, a, k, st)}
  <1>1. 0 \in T
    <2> DEFINE g == [S \in SUBSET (1..0) |-> a]
    <2>1. \A S \in SUBSET (1..0) : S = {}  OBVIOUS
    <2>2. FoldOf(a, 0, st, g)  BY <2>1, Zenon DEF FoldOf
    <2>3. g \in [SUBSET (1..0) -> A]  OBVIOUS
    <2> QED  BY <2>2, <2>3 DEF HasFold
  <1>2. ASSUME NEW k \in Nat, k \in T PROVE k + 1 \in T
    <2> SUFFICES ASSUME k + 1 <= n
                 PROVE  HasFold(A, a, k + 1, st)
      OBVIOUS
    <2>0. HasFold(A, a, k, st)  BY <1>2
    <2>1. PICK g \in [SUBSET (1..k) -> A] : FoldOf(a, k, st, g)  BY <2>0 DEF HasFold
    <2> DEFINE f == [S \in SUBSET (1..(k + 1)) |->
                       IF k + 1 \in S THEN st[<<g[S \ {k + 1}], k + 1>>] ELSE g[S]]
    <2>2. ASSUME NEW S \in SUBSET (1..(k + 1))
          PROVE  /\ k + 1 \in S => S \ {k + 1} \in SUBSET (1..k)
                 /\ k + 1 \notin S => S \in SUBSET (1..k)
      <3>1. \A y \in 1..(k + 1) : y # k + 1 => y \in 1..k  OBVIOUS
      <3> QED  BY <3>1
    <2>3. f \in [SUBSET (1..(k + 1)) -> A]
      <3>1. k + 1 \in 1..n  OBVIOUS
      <3> QED  BY <2>1, <2>2, <3>1
    <2>4. ASSUME NEW S \in SUBSET (1..(k + 1)), S # {}
          PROVE  f[S] = st[<<f[S \ {Max(S)}], Max(S)>>]
      <3>0. k + 1 \in Nat  OBVIOUS
      <3>1. Max(S) \in S /\ \A y \in S : y <= Max(S)  BY <2>4, <3>0, MaxOf
      <3>2. S \ {Max(S)} \in SUBSET (1..(k + 1))  OBVIOUS
      <3>3. CASE k + 1 \in S
        <4>1. Max(S) = k + 1
          <5>1. Max(S) \in 1..(k + 1) /\ k + 1 <= Max(S)  BY <3>1, <3>3
          <5> QED  BY <5>1
        <4>2. f[S] = st[<<g[S \ {k + 1}], k + 1>>]  BY <3>3
        <4>3. f[S \ {k + 1}] = g[S \ {k + 1}]  OBVIOUS
        <4> QED  BY <4>1, <4>2, <4>3
      <3>4. CASE k + 1 \notin S
        <4>1. S \in SUBSET (1..k) /\ S \ {Max(S)} \in SUBSET (1..k)  BY <2>2, <3>4
        <4>2. f[S] = g[S] /\ f[S \ {Max(S)}] = g[S \ {Max(S)}]  BY <3>2, <3>4
        <4>3. g[S] = st[<<g[S \ {Max(S)}], Max(S)>>]  BY <2>1, <2>4, <4>1 DEF FoldOf
        <4> QED  BY <4>2, <4>3
      <3> QED  BY <3>3, <3>4
    <2>5. f[{}] = a
      <3>1. g[{}] = a  BY <2>1 DEF FoldOf
      <3> QED  BY <3>1
    <2>6. f = [S \in SUBSET (1..(k + 1)) |-> f[S]]  OBVIOUS
    <2> HIDE DEF f
    <2>7. FoldOf(a, k + 1, st, f)  BY <2>4, <2>5, <2>6 DEF FoldOf
    <2> QED  BY <2>3, <2>7 DEF HasFold
  <1> HIDE DEF T
  <1>3. Nat \subseteq T  BY <1>1, <1>2, SetInduction
  <1>4. HasFold(A, a, n, st)  BY <1>3 DEF T
  <1> QED  BY <1>4 DEF HasFold

\* g does the steps st from values in A on.
Folded(A, a, n, st, g) ==
    /\ g[{}] = a
    /\ \A S \in SUBSET (1..n) : S # {} /\ g[S \ {Max(S)}] \in A
                                  => g[S] = st[<<g[S \ {Max(S)}], Max(S)>>]

\* Such steps lead from a to v.
Iterates(A, a, n, st, v) ==
    \E it \in [0..n -> A] : it[0] = a /\ it[n] = v /\ \A k \in 1..n : it[k] = st[<<it[k - 1], k>>]

\* The values a recursion over the sets of positions goes through for 1..0,
\* 1..1, up to 1..n, if each step from a value in A takes it to one in A.
LEMMA FoldIterates ==
    ASSUME NEW A, NEW a \in A, NEW n \in Nat, NEW st \in [A \X (1..n) -> A], NEW g,
           Folded(A, a, n, st, g)
    PROVE  Iterates(A, a, n, st, g[1..n])
  <1> DEFINE T == {k \in Nat : k <= n => g[1..k] \in A}
             it == [k \in 0..n |-> g[1..k]]
  <1>0. ASSUME NEW k \in Nat, k + 1 <= n, g[1..k] \in A
        PROVE  g[1..(k + 1)] = st[<<g[1..k], k + 1>>] /\ g[1..(k + 1)] \in A
    <2> DEFINE S == 1..(k + 1)
    <2>1. Max(S) = k + 1 /\ S \ {k + 1} = 1..k /\ S # {}  BY LastOfInterval
    <2>2. S \in SUBSET (1..n) /\ k + 1 \in 1..n  BY <1>0
    <2> HIDE DEF S
    <2>3. g[S] = st[<<g[1..k], k + 1>>]  BY <1>0, <2>1, <2>2 DEF Folded
    <2>4. <<g[1..k], k + 1>> \in A \X (1..n)  BY <1>0, <2>2
    <2> QED  BY <2>3, <2>4 DEF S
  <1>1. 1..0 = {}  OBVIOUS
  <1>2. 0 \in T  BY <1>1 DEF Folded
  <1>3. ASSUME NEW k \in Nat, k \in T PROVE k + 1 \in T
    <2>1. CASE k + 1 <= n
      <3>1. g[1..k] \in A  BY <1>3, <2>1
      <3>2. g[1..(k + 1)] \in A  BY <1>0, <2>1, <3>1
      <3> QED  BY <3>2
    <2>2. CASE ~ (k + 1 <= n)  BY <2>2
    <2> QED  BY <2>1, <2>2
  <1> HIDE DEF T
  <1>4. Nat \subseteq T  BY <1>2, <1>3, SetInduction
  <1>5. \A k \in 0..n : g[1..k] \in A  BY <1>4 DEF T
  <1>6. it \in [0..n -> A] /\ it[0] = a /\ it[n] = g[1..n]  BY <1>1, <1>5 DEF Folded
  <1>7. ASSUME NEW k \in 1..n PROVE it[k] = st[<<it[k - 1], k>>]
    <2>1. k - 1 \in Nat /\ k - 1 \in 0..n /\ k \in 0..n /\ k - 1 + 1 = k /\ k - 1 + 1 <= n  OBVIOUS
    <2>2. g[1..(k - 1)] \in A  BY <1>5, <2>1
    <2>3. g[1..(k - 1 + 1)] = st[<<g[1..(k - 1)], k - 1 + 1>>]  BY <1>0, <2>1, <2>2
    <2> QED  BY <2>1, <2>3
  <1> HIDE DEF it
  <1> QED  BY <1>6, <1>7 DEF Iterates

\* What the first value has and every step keeps, all values have.
LEMMA IteratesIn ==
    ASSUME NEW n \in Nat, NEW it, NEW T, it[0] \in T,
           \A k \in 1..n : it[k - 1] \in T => it[k] \in T
    PROVE  \A k \in 0..n : it[k] \in T
  <1> DEFINE U == {k \in Nat : k <= n => it[k] \in T}
  <1>1. 0 \in U  OBVIOUS
  <1>2. ASSUME NEW k \in Nat, k \in U PROVE k + 1 \in U
    <2>1. CASE k + 1 <= n
      <3>1. k + 1 \in 1..n /\ k + 1 - 1 = k /\ it[k] \in T  BY <1>2, <2>1
      <3> QED  BY <3>1
    <2>2. CASE ~ (k + 1 <= n)  BY <2>2
    <2> QED  BY <2>1, <2>2
  <1> HIDE DEF U
  <1>3. Nat \subseteq U  BY <1>1, <1>2, SetInduction
  <1> QED  BY <1>3 DEF U

-----------------------------------------------------------------------------
(* A recursion that walks up the positions 1..n and collects what it meets *)

\* f yields at p nothing where the walk stops, and else hd[p] and what it
\* yields at nx[p].
WalkOf(n, stop, hd, nx, f) ==
    f = [p \in 1..n |-> IF stop[p] THEN <<>> ELSE <<hd[p]>> \o f[nx[p]]]

\* The equation of a walk from position i on.
WalkFrom(n, stop, hd, nx, f, i) ==
    \A p \in 1..n : p >= i => f[p] = IF stop[p] THEN <<>> ELSE <<hd[p]>> \o f[nx[p]]

HasWalk(V, n, stop, hd, nx, i) ==
    \E f \in [1..n -> Seq(V)] : WalkFrom(n, stop, hd, nx, f, i)

\* Such a function exists.
LEMMA WalkExists ==
    ASSUME NEW V, NEW n \in Nat, NEW stop, NEW hd, NEW nx,
           \A p \in 1..n : ~ stop[p] => hd[p] \in V /\ nx[p] \in (p + 1)..n
    PROVE  \E f \in [1..n -> Seq(V)] : WalkOf(n, stop, hd, nx, f)
  <1> DEFINE T == {k \in Nat : k <= n => HasWalk(V, n, stop, hd, nx, n + 1 - k)}
  <1>1. 0 \in T
    <2> DEFINE f == [p \in 1..n |-> <<>>]
    <2>1. f \in [1..n -> Seq(V)]  OBVIOUS
    <2>2. WalkFrom(n, stop, hd, nx, f, n + 1 - 0)  BY DEF WalkFrom
    <2> QED  BY <2>1, <2>2 DEF HasWalk
  <1>2. ASSUME NEW k \in Nat, k \in T PROVE k + 1 \in T
    <2> SUFFICES ASSUME k + 1 <= n PROVE HasWalk(V, n, stop, hd, nx, n + 1 - (k + 1))
      OBVIOUS
    <2>1. PICK f \in [1..n -> Seq(V)] : WalkFrom(n, stop, hd, nx, f, n + 1 - k)
      BY <1>2 DEF HasWalk
    <2> DEFINE i == n + 1 - (k + 1)
               x == IF stop[i] THEN <<>> ELSE <<hd[i]>> \o f[nx[i]]
               g == [p \in 1..n |-> IF p = i THEN x ELSE f[p]]
    <2>2. i \in 1..n /\ n + 1 - k = i + 1  OBVIOUS
    <2> HIDE DEF i
    <2>3. x \in Seq(V)
      <3>1. CASE stop[i]  BY <3>1
      <3>2. CASE ~ stop[i]
        <4>1. hd[i] \in V /\ nx[i] \in 1..n  BY <2>2, <3>2
        <4>2. <<hd[i]>> \in Seq(V) /\ f[nx[i]] \in Seq(V)  BY <4>1
        <4>3. <<hd[i]>> \o f[nx[i]] \in Seq(V)  BY <4>2
        <4> QED  BY <3>2, <4>3
      <3> QED  BY <3>1, <3>2
    <2>4. g \in [1..n -> Seq(V)]  BY <2>3
    <2>5. ASSUME NEW p \in 1..n, p >= i
          PROVE  g[p] = IF stop[p] THEN <<>> ELSE <<hd[p]>> \o g[nx[p]]
      <3>1. CASE p = i
        <4>1. ~ stop[p] => nx[p] \in 1..n /\ nx[p] # i  BY <2>2, <3>1
        <4>2. ~ stop[p] => g[nx[p]] = f[nx[p]]  BY <4>1
        <4>3. g[p] = IF stop[p] THEN <<>> ELSE <<hd[p]>> \o f[nx[p]]  BY <3>1
        <4> QED  BY <4>2, <4>3
      <3>2. CASE p # i
        <4>1. p >= n + 1 - k  BY <2>2, <2>5, <3>2
        <4>2. f[p] = IF stop[p] THEN <<>> ELSE <<hd[p]>> \o f[nx[p]]  BY <2>1, <4>1 DEF WalkFrom
        <4>3. ~ stop[p] => nx[p] \in 1..n /\ nx[p] # i  BY <2>2, <2>5, <3>2
        <4>4. ~ stop[p] => g[nx[p]] = f[nx[p]]  BY <4>3
        <4> QED  BY <3>2, <4>2, <4>4
      <3> QED  BY <3>1, <3>2
    <2> HIDE DEF g
    <2>6. WalkFrom(n, stop, hd, nx, g, i)  BY <2>5 DEF WalkFrom
    <2> QED  BY <2>4, <2>6 DEF HasWalk, i
  <1> HIDE DEF T
  <1>3. n \in T  BY <1>1, <1>2, SetInduction
  <1>4. HasWalk(V, n, stop, hd, nx, n + 1 - n)  BY <1>3 DEF T
  <1>5. PICK f \in [1..n -> Seq(V)] : WalkFrom(n, stop, hd, nx, f, n + 1 - n)
    BY <1>4 DEF HasWalk
  <1>6. \A p \in 1..n : f[p] = IF stop[p] THEN <<>> ELSE <<hd[p]>> \o f[nx[p]]
    <2>1. \A p \in 1..n : p >= n + 1 - n  OBVIOUS
    <2> QED  BY <1>5, <2>1 DEF WalkFrom
  <1>7. WalkOf(n, stop, hd, nx, f)  BY <1>6 DEF WalkOf
  <1> QED  BY <1>7

\* And every such function yields sequences.
LEMMA WalkTyped ==
    ASSUME NEW V, NEW n \in Nat, NEW stop, NEW hd, NEW nx,
           \A p \in 1..n : ~ stop[p] => hd[p] \in V /\ nx[p] \in (p + 1)..n,
           NEW f, WalkOf(n, stop, hd, nx, f)
    PROVE  \A p \in 1..n : f[p] \in Seq(V)
  <1>0. \A p \in 1..n : f[p] = IF stop[p] THEN <<>> ELSE <<hd[p]>> \o f[nx[p]]
    BY DEF WalkOf
  <1> DEFINE T == {k \in Nat : \A p \in 1..n : p >= n + 1 - k => f[p] \in Seq(V)}
  <1>1. 0 \in T  OBVIOUS
  <1>2. ASSUME NEW k \in Nat, k \in T PROVE k + 1 \in T
    <2> SUFFICES ASSUME NEW p \in 1..n, p >= n + 1 - (k + 1) PROVE f[p] \in Seq(V)
      OBVIOUS
    <2>1. CASE p >= n + 1 - k  BY <1>2, <2>1
    <2>2. CASE stop[p]
      <3>1. f[p] = <<>>  BY <1>0, <2>2
      <3> QED  BY <3>1
    <2>3. CASE ~ stop[p] /\ ~ (p >= n + 1 - k)
      <3>1. hd[p] \in V /\ nx[p] \in 1..n /\ nx[p] >= n + 1 - k  BY <2>3
      <3>2. <<hd[p]>> \in Seq(V) /\ f[nx[p]] \in Seq(V)  BY <1>2, <3>1
      <3>3. <<hd[p]>> \o f[nx[p]] \in Seq(V)  BY <3>2
      <3>4. f[p] = <<hd[p]>> \o f[nx[p]]  BY <1>0, <2>3
      <3> QED  BY <3>3, <3>4
    <2> QED  BY <2>1, <2>2, <2>3
  <1> HIDE DEF T
  <1>3. n \in T  BY <1>1, <1>2, SetInduction
  <1>4. \A p \in 1..n : p >= n + 1 - n  OBVIOUS
  <1> QED  BY <1>3, <1>4 DEF T
=============================================================================
