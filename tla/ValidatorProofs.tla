-------------------------- MODULE ValidatorProofs --------------------------
(***************************************************************************)
(* The theorems about Validator: the search in the Registry, the words of  *)
(* TagScratch, the first error and the sequence number that dispatch uses. *)
(***************************************************************************)
EXTENDS Validator, SequenceTheorems, InductionLemmas

-----------------------------------------------------------------------------
(* Calls in progress *)

MsgFields == [tag : Nat, value : STRING]

\* The codes for fields, and all of them.
FieldCodes == {"RequiredTagMissing", "IncorrectDataFormatForValue", "IncorrectNumInGroupCount",
               "CompIDProblem", "InvalidMsgType", "Other"}

Codes == FieldCodes \cup {"InvalidTagNumber"}

Calls ==
    [bits : SUBSET Int, errors : Seq([tag : Nat, code : Codes]), severity : {"Moderate", "Fatal"},
     returned : BOOLEAN, cur : Nat, seen : BOOLEAN]

\* The first position with a tag, 0 if there is none.
At(m, tag) == SelectInSeq(m, LAMBDA g : g.tag = tag)

\* Bit b is that of a field with a tag in B, or of the first with its tag.
Asked(m, b, B) == m[b + 1].tag \in B \/ b + 1 = At(m, m[b + 1].tag)

\* From r the validator of m got to s: the first error stays the first, the
\* severity stays, bits are set for positions of m only, of the first field
\* with a tag unless the tag is in B, and a new first error is none of a
\* field nobody asked for and, of a tag that is missing, about one in B.
Since(m, r, s, B) ==
    /\ s \in Calls /\ s.severity = r.severity /\ s.bits \subseteq r.bits \cup 0..(Len(m) - 1)
    /\ \A b \in s.bits : b \in r.bits \/ Asked(m, b, B)
    /\ (r.cur >= 1 => s.cur >= 1) /\ (s.returned => r.returned \/ s.errors # <<>>)
    /\ r.errors # <<>> => s.errors # <<>> /\ Head(s.errors) = Head(r.errors)
    /\ r.errors = <<>> /\ s.errors # <<>> =>
         /\ Head(s.errors).code # "InvalidTagNumber"
         /\ Head(s.errors).code = "RequiredTagMissing" => Head(s.errors).tag \in B

LEMMA SinceSame ==
    ASSUME NEW m, NEW B, NEW r \in Calls
    PROVE  Since(m, r, r, B)
  BY DEF Since, Calls

LEMMA SinceTrans ==
    ASSUME NEW m, NEW B, NEW r \in Calls, NEW s, NEW t, Since(m, r, s, B), Since(m, s, t, B)
    PROVE  Since(m, r, t, B)
  <1>1. /\ t \in Calls /\ t.severity = r.severity /\ t.bits \subseteq r.bits \cup 0..(Len(m) - 1)
        /\ \A b \in t.bits : b \in r.bits \/ Asked(m, b, B)
        /\ (r.cur >= 1 => t.cur >= 1) /\ (t.returned => r.returned \/ t.errors # <<>>)
    BY DEF Since
  <1>2. /\ r.errors # <<>> => t.errors # <<>> /\ Head(t.errors) = Head(r.errors)
        /\ r.errors = <<>> /\ t.errors # <<>> =>
             /\ Head(t.errors).code # "InvalidTagNumber"
             /\ Head(t.errors).code = "RequiredTagMissing" => Head(t.errors).tag \in B
    BY DEF Since
  <1> QED  BY <1>1, <1>2 DEF Since

LEMMA FirstStays ==
    ASSUME NEW S, NEW q \in Seq(S), NEW e \in S
    PROVE  /\ Append(q, e) \in Seq(S) /\ Append(q, e) # <<>>
           /\ q # <<>> => Head(Append(q, e)) = Head(q)
           /\ q = <<>> => Head(Append(q, e)) = e
  <1>1. Append(q, e) \in Seq(S) /\ Len(Append(q, e)) = Len(q) + 1 /\ Len(q) \in Nat  OBVIOUS
  <1>2. Append(q, e) # <<>>  BY <1>1
  <1>3. Head(Append(q, e)) = Append(q, e)[1]  BY <1>1, <1>2
  <1>4. q # <<>> => Head(Append(q, e)) = Head(q)  BY <1>3
  <1>5. q = <<>> => Head(Append(q, e)) = e  BY <1>3
  <1> QED  BY <1>1, <1>2, <1>4, <1>5

LEMMA ErrorIs ==
    ASSUME NEW r \in Calls, NEW tag \in Nat, NEW code \in Codes
    PROVE  LET s == Error(r, tag, code)
           IN  /\ s \in Calls /\ s.bits = r.bits /\ s.severity = r.severity /\ s.cur = r.cur
               /\ s.returned /\ s.errors # <<>>
               /\ r.errors # <<>> => Head(s.errors) = Head(r.errors)
               /\ r.errors = <<>> => Head(s.errors) = [tag |-> tag, code |-> code]
  <1> DEFINE S == [tag : Nat, code : Codes]
             e == [tag |-> tag, code |-> code]
             s == Error(r, tag, code)
  <1>1. r.errors \in Seq(S) /\ e \in S  BY DEF Calls
  <1> HIDE DEF S
  <1>2. /\ Append(r.errors, e) \in Seq(S) /\ Append(r.errors, e) # <<>>
        /\ r.errors # <<>> => Head(Append(r.errors, e)) = Head(r.errors)
        /\ r.errors = <<>> => Head(Append(r.errors, e)) = e
    BY <1>1, FirstStays
  <1>3. /\ s.errors = Append(r.errors, e) /\ s.bits = r.bits /\ s.severity = r.severity
        /\ s.cur = r.cur /\ s.returned
    BY DEF Error, Calls
  <1>4. s \in Calls  BY <1>2 DEF Error, Calls, S
  <1> QED  BY <1>2, <1>3, <1>4

\* An error leads on as long as it is of the kind that B allows.
LEMMA SinceError ==
    ASSUME NEW m, NEW B, NEW r \in Calls, NEW s \in Calls, Since(m, r, s, B), NEW tag \in Nat,
           NEW code \in FieldCodes, code = "RequiredTagMissing" => tag \in B
    PROVE  Since(m, r, Error(s, tag, code), B)
  <1> DEFINE t == Error(s, tag, code)
  <1>1. /\ t \in Calls /\ t.bits = s.bits /\ t.severity = s.severity /\ t.cur = s.cur
        /\ t.returned /\ t.errors # <<>>
        /\ s.errors # <<>> => Head(t.errors) = Head(s.errors)
        /\ s.errors = <<>> => Head(t.errors) = [tag |-> tag, code |-> code]
    BY ErrorIs DEF Codes
  <1> HIDE DEF t
  <1>2. Since(m, s, t, B)  BY <1>1 DEF Since, FieldCodes
  <1>3. Since(m, r, t, B)  BY <1>2, SinceTrans
  <1> QED  BY <1>3 DEF t

-----------------------------------------------------------------------------
(* Repeating groups *)

LEMMA GroupFieldSince ==
    ASSUME NEW m \in Seq(MsgFields), NEW B, NEW r \in Calls, r.cur >= 1,
           NEW f \in GroupMembers, f.tag \in B
    PROVE  Since(m, r, GroupField(m, r, f), B)
  <1> DEFINE s == [r EXCEPT !.bits = @ \cup {r.cur - 1}]
             t == [s EXCEPT !.cur = @ + 1, !.seen = TRUE]
  <1>1. f.tag \in Nat  BY DEF GroupMembers
  <1>2. Since(m, r, r, B)  BY SinceSame
  <1>3. \/ GroupField(m, r, f) = r
        \/ GroupField(m, r, f) = Error(r, f.tag, "IncorrectNumInGroupCount")
        \/ GroupField(m, r, f) = Error(r, f.tag, "RequiredTagMissing")
        \/ r.cur <= Len(m) /\ m[r.cur].tag = f.tag /\ GroupField(m, r, f) = t
        \/ /\ r.cur <= Len(m) /\ m[r.cur].tag = f.tag
           /\ GroupField(m, r, f) = Error(s, f.tag, "IncorrectDataFormatForValue")
    <2>1. Len(m) \in Nat /\ r.cur \in Nat  BY DEF Calls
    <2>2. r.cur > Len(m) \/ r.cur <= Len(m)  BY <2>1
    <2> QED  BY <2>2, Zenon DEF GroupField
  <1>4. ASSUME r.cur <= Len(m), m[r.cur].tag = f.tag
        PROVE  s \in Calls /\ Since(m, r, s, B) /\ Since(m, r, t, B)
    <2>1. r.cur - 1 \in 0..(Len(m) - 1) /\ r.cur - 1 \in Int  BY <1>4 DEF Calls
    <2>2. /\ s \in Calls /\ s.bits = r.bits \cup {r.cur - 1} /\ s.severity = r.severity
          /\ s.cur = r.cur /\ s.returned = r.returned /\ s.errors = r.errors
      BY <2>1 DEF Calls
    <2>3. /\ t \in Calls /\ t.bits = r.bits \cup {r.cur - 1} /\ t.severity = r.severity
          /\ t.cur = r.cur + 1 /\ t.returned = r.returned /\ t.errors = r.errors
      <3> HIDE DEF s
      <3>1. /\ t.bits = s.bits /\ t.severity = s.severity /\ t.errors = s.errors
            /\ t.cur = s.cur + 1 /\ t.returned = s.returned
        BY <2>2 DEF Calls
      <3>2. t \in Calls
        <4>1. s.cur + 1 \in Nat  BY <2>2 DEF Calls
        <4> QED  BY <2>2, <4>1 DEF Calls
      <3> QED  BY <2>2, <3>1, <3>2
    <2>4. r.cur + 1 >= 1 /\ (r.cur - 1) + 1 = r.cur  BY DEF Calls
    <2>a. Asked(m, r.cur - 1, B)  BY <1>4, <2>4 DEF Asked
    <2> HIDE DEF s, t
    <2>5. Since(m, r, s, B)  BY <2>1, <2>2, <2>a DEF Since
    <2>6. Since(m, r, t, B)  BY <2>1, <2>3, <2>4, <2>a DEF Since
    <2> QED  BY <2>2, <2>5, <2>6
  <1> HIDE DEF s, t
  <1>c. {"IncorrectNumInGroupCount", "RequiredTagMissing", "IncorrectDataFormatForValue"}
             \subseteq FieldCodes
    BY DEF FieldCodes
  <1>5. \A c \in FieldCodes : Since(m, r, Error(r, f.tag, c), B)  BY <1>1, <1>2, SinceError
  <1>6. r.cur <= Len(m) /\ m[r.cur].tag = f.tag =>
          Since(m, r, Error(s, f.tag, "IncorrectDataFormatForValue"), B)
    BY <1>1, <1>4, <1>c, SinceError
  <1>7. r.cur <= Len(m) /\ m[r.cur].tag = f.tag => Since(m, r, t, B)  BY <1>4
  <1> QED  BY <1>2, <1>3, <1>5, <1>6, <1>7, <1>c

\* The fields of an entry, one after the other.
LEMMA GroupEntryIterates ==
    ASSUME NEW m \in Seq(MsgFields), NEW r \in Calls, NEW q \in Seq(GroupMembers), r.cur >= 1
    PROVE  Since(m, r, FoldLeft(LAMBDA s, f : GroupField(m, s, f), r, q), {q[k].tag : k \in 1..Len(q)})
  <1> DEFINE n == Len(q)
             B == {q[k].tag : k \in 1..n}
             A == {s \in Calls : s.cur >= 1}
             G == CHOOSE g : g = [S \in SUBSET DOMAIN q |->
                    IF S = {} THEN r ELSE GroupField(m, g[S \ {Max(S)}], q[Max(S)])]
             st == [p \in A \X (1..n) |-> GroupField(m, p[1], q[p[2]])]
  <1>1. FoldLeft(LAMBDA s, f : GroupField(m, s, f), r, q) = G[DOMAIN q]
    BY Zenon DEF FoldLeft, MapThenFoldSet
  <1>2. n \in Nat /\ DOMAIN q = 1..n /\ r \in A /\ \A k \in 1..n : q[k] \in GroupMembers /\ q[k].tag \in B
    OBVIOUS
  <1>3. ASSUME NEW s \in A, NEW k \in 1..n
        PROVE  Since(m, s, GroupField(m, s, q[k]), B) /\ GroupField(m, s, q[k]) \in A
    <2>1. q[k] \in GroupMembers /\ q[k].tag \in B /\ s \in Calls /\ s.cur >= 1  BY <1>2
    <2> HIDE DEF B
    <2>2. Since(m, s, GroupField(m, s, q[k]), B)  BY <2>1, GroupFieldSince
    <2> QED  BY <2>1, <2>2 DEF Since
  <1> HIDE DEF A, B
  <1>4. st \in [A \X (1..n) -> A]  BY <1>3
  <1>5. PICK f \in [SUBSET (1..n) -> A] : FoldOf(r, n, st, f)  BY <1>2, <1>4, FoldOfExists
  <1>6. ASSUME NEW S \in SUBSET (1..n), S # {}
        PROVE  f[S] = GroupField(m, f[S \ {Max(S)}], q[Max(S)])
    <2>1. Max(S) \in 1..n /\ S \ {Max(S)} \in SUBSET (1..n)  BY <1>2, <1>6, MaxOf
    <2>2. f[S] = st[<<f[S \ {Max(S)}], Max(S)>>]  BY <1>5, <1>6 DEF FoldOf
    <2>3. <<f[S \ {Max(S)}], Max(S)>> \in A \X (1..n)  BY <2>1
    <2> QED  BY <2>2, <2>3
  <1>7. f[{}] = r  BY <1>5 DEF FoldOf
  <1>8. f = [S \in SUBSET DOMAIN q |->
               IF S = {} THEN r ELSE GroupField(m, f[S \ {Max(S)}], q[Max(S)])]
    BY <1>2, <1>6, <1>7
  <1>9. G = [S \in SUBSET DOMAIN q |->
               IF S = {} THEN r ELSE GroupField(m, G[S \ {Max(S)}], q[Max(S)])]
    BY <1>8
  <1> HIDE DEF G, n
  <1>10. G[{}] = r  BY <1>2, <1>9
  <1>11. ASSUME NEW S \in SUBSET (1..n), S # {}, G[S \ {Max(S)}] \in A
         PROVE  G[S] = st[<<G[S \ {Max(S)}], Max(S)>>]
    <2>1. Max(S) \in 1..n  BY <1>2, <1>11, MaxOf
    <2>2. G[S] = GroupField(m, G[S \ {Max(S)}], q[Max(S)])  BY <1>2, <1>9, <1>11
    <2>3. <<G[S \ {Max(S)}], Max(S)>> \in A \X (1..n)  BY <1>11, <2>1
    <2> QED  BY <2>2, <2>3
  <1> HIDE DEF st
  <1>a. Folded(A, r, n, st, G)  BY <1>10, <1>11 DEF Folded
  <1>b. Iterates(A, r, n, st, G[1..n])  BY <1>2, <1>4, <1>a, FoldIterates
  <1>12. PICK it \in [0..n -> A] : /\ it[0] = r /\ it[n] = G[1..n]
                                   /\ \A k \in 1..n : it[k] = st[<<it[k - 1], k>>]
    BY <1>b DEF Iterates
  <1> DEFINE T == {s \in Calls : Since(m, r, s, B)}
  <1>13. it[0] \in T  BY <1>12, SinceSame
  <1>14. ASSUME NEW k \in 1..n, it[k - 1] \in T PROVE it[k] \in T
    <2>1. k - 1 \in 0..n  BY <1>2
    <2>2. it[k - 1] \in A /\ Since(m, r, it[k - 1], B)  BY <1>12, <1>14, <2>1
    <2>3. it[k] = GroupField(m, it[k - 1], q[k])
      <3>1. <<it[k - 1], k>> \in A \X (1..n)  BY <2>2
      <3> QED  BY <1>12, <3>1 DEF st
    <2>4. Since(m, it[k - 1], it[k], B)  BY <1>3, <2>2, <2>3
    <2>5. Since(m, r, it[k], B)  BY <2>2, <2>4, SinceTrans
    <2> QED  BY <2>5 DEF Since
  <1> HIDE DEF T
  <1>15. it[n] \in T
    <2>1. n \in 0..n  BY <1>2
    <2> QED  BY <1>2, <1>13, <1>14, <2>1, IteratesIn
  <1> QED  BY <1>1, <1>2, <1>12, <1>15 DEF T, B, n

LEMMA GroupEntrySince ==
    ASSUME NEW m \in Seq(MsgFields), NEW r \in Calls, r.cur >= 1, NEW g \in FieldSchemas
    PROVE  Since(m, r, GroupEntry(m, r, g), FieldTags(g))
  <1> DEFINE u == [r EXCEPT !.seen = FALSE]
             s == FoldLeft(LAMBDA q, f : GroupField(m, q, f), u, g.fields)
             B == FieldTags(g)
  <1>1. g.tag \in Nat /\ g.fields \in Seq(GroupMembers)  BY DEF FieldSchemas
  <1>2. B = {g.fields[k].tag : k \in 1..Len(g.fields)}  BY <1>1 DEF FieldTags
  <1>3. /\ u \in Calls /\ u.cur = r.cur /\ u.bits = r.bits /\ u.severity = r.severity
        /\ u.returned = r.returned /\ u.errors = r.errors
    BY DEF Calls
  <1> HIDE DEF u
  <1>4. Since(m, r, u, B)  BY <1>3 DEF Since
  <1>5. Since(m, u, s, B)  BY <1>1, <1>2, <1>3, GroupEntryIterates
  <1> HIDE DEF B
  <1>6. Since(m, r, s, B) /\ s \in Calls  BY <1>4, <1>5, SinceTrans DEF Since
  <1>7. Since(m, r, r, B)  BY SinceSame
  <1>8. \/ GroupEntry(m, r, g) = r \/ GroupEntry(m, r, g) = s
        \/ GroupEntry(m, r, g) = Error(s, g.tag, "IncorrectNumInGroupCount")
    BY Zenon DEF GroupEntry, u
  <1> HIDE DEF s
  <1>9. Since(m, r, Error(s, g.tag, "IncorrectNumInGroupCount"), B)
    BY <1>1, <1>6, SinceError DEF FieldCodes
  <1> QED  BY <1>6, <1>7, <1>8, <1>9 DEF B

\* The entries, as many as the group announces.
LEMMA GroupsSince ==
    ASSUME NEW m \in Seq(MsgFields), NEW r \in Calls, r.cur >= 1, NEW g \in FieldSchemas,
           NEW n \in Nat
    PROVE  Since(m, r, validate_groups_(m, r, g, n), FieldTags(g))
  <1> DEFINE q == [i \in 1..n |-> i]
             B == FieldTags(g)
             A == {s \in Calls : s.cur >= 1}
             G == CHOOSE h : h = [S \in SUBSET DOMAIN q |->
                    IF S = {} THEN r ELSE GroupEntry(m, h[S \ {Max(S)}], g)]
             st == [p \in A \X (1..n) |-> GroupEntry(m, p[1], g)]
             w == FoldLeft(LAMBDA s, i : GroupEntry(m, s, g), r, q)
  <1>1. w = G[DOMAIN q]  BY Zenon DEF FoldLeft, MapThenFoldSet
  <1>2. DOMAIN q = 1..n /\ r \in A  OBVIOUS
  <1>3. ASSUME NEW s \in A
        PROVE  Since(m, s, GroupEntry(m, s, g), B) /\ GroupEntry(m, s, g) \in A
    <2>1. Since(m, s, GroupEntry(m, s, g), B)  BY GroupEntrySince
    <2> HIDE DEF B
    <2> QED  BY <2>1 DEF Since
  <1> HIDE DEF A, B
  <1>4. st \in [A \X (1..n) -> A]  BY <1>3
  <1>5. PICK f \in [SUBSET (1..n) -> A] : FoldOf(r, n, st, f)  BY <1>2, <1>4, FoldOfExists
  <1>6. ASSUME NEW S \in SUBSET (1..n), S # {}
        PROVE  f[S] = GroupEntry(m, f[S \ {Max(S)}], g)
    <2>1. Max(S) \in 1..n /\ S \ {Max(S)} \in SUBSET (1..n)  BY <1>6, MaxOf
    <2>2. f[S] = st[<<f[S \ {Max(S)}], Max(S)>>]  BY <1>5, <1>6 DEF FoldOf
    <2>3. <<f[S \ {Max(S)}], Max(S)>> \in A \X (1..n)  BY <2>1
    <2> QED  BY <2>2, <2>3
  <1>7. f[{}] = r  BY <1>5 DEF FoldOf
  <1>8. f = [S \in SUBSET DOMAIN q |-> IF S = {} THEN r ELSE GroupEntry(m, f[S \ {Max(S)}], g)]
    BY <1>2, <1>6, <1>7
  <1>9. G = [S \in SUBSET DOMAIN q |-> IF S = {} THEN r ELSE GroupEntry(m, G[S \ {Max(S)}], g)]
    BY <1>8
  <1> HIDE DEF G, q
  <1>10. G[{}] = r  BY <1>2, <1>9
  <1>11. ASSUME NEW S \in SUBSET (1..n), S # {}, G[S \ {Max(S)}] \in A
         PROVE  G[S] = st[<<G[S \ {Max(S)}], Max(S)>>]
    <2>1. Max(S) \in 1..n  BY <1>11, MaxOf
    <2>2. G[S] = GroupEntry(m, G[S \ {Max(S)}], g)  BY <1>2, <1>9, <1>11
    <2>3. <<G[S \ {Max(S)}], Max(S)>> \in A \X (1..n)  BY <1>11, <2>1
    <2> QED  BY <2>2, <2>3
  <1> HIDE DEF st
  <1>12. Folded(A, r, n, st, G)  BY <1>10, <1>11 DEF Folded
  <1>13. Iterates(A, r, n, st, G[1..n])  BY <1>2, <1>4, <1>12, FoldIterates
  <1>14. PICK it \in [0..n -> A] : /\ it[0] = r /\ it[n] = G[1..n]
                                   /\ \A k \in 1..n : it[k] = st[<<it[k - 1], k>>]
    BY <1>13 DEF Iterates
  <1> DEFINE T == {s \in Calls : Since(m, r, s, B)}
  <1>15. it[0] \in T  BY <1>14, SinceSame
  <1>16. ASSUME NEW k \in 1..n, it[k - 1] \in T PROVE it[k] \in T
    <2>1. k - 1 \in 0..n  OBVIOUS
    <2>2. it[k - 1] \in A /\ Since(m, r, it[k - 1], B)  BY <1>14, <1>16, <2>1
    <2>3. it[k] = GroupEntry(m, it[k - 1], g)
      <3>1. <<it[k - 1], k>> \in A \X (1..n)  BY <2>2
      <3> QED  BY <1>14, <3>1 DEF st
    <2>4. Since(m, it[k - 1], it[k], B)  BY <1>3, <2>2, <2>3
    <2>5. Since(m, r, it[k], B)  BY <2>2, <2>4, SinceTrans
    <2> QED  BY <2>5 DEF Since
  <1> HIDE DEF T
  <1>17. it[n] \in T
    <2>1. n \in 0..n  OBVIOUS
    <2> QED  BY <1>15, <1>16, <2>1, IteratesIn
  <1>18. w \in Calls /\ Since(m, r, w, B)  BY <1>1, <1>2, <1>14, <1>17 DEF T
  <1> DEFINE v == [w EXCEPT !.returned = FALSE]
  <1>19. validate_groups_(m, r, g, n) = v  BY Zenon DEF validate_groups_, q
  <1> HIDE DEF w
  <1>20. /\ v \in Calls /\ v.bits = w.bits /\ v.severity = w.severity /\ v.cur = w.cur
         /\ ~ v.returned /\ v.errors = w.errors
    BY <1>18 DEF Calls
  <1> HIDE DEF v
  <1>21. Since(m, r, v, B)  BY <1>18, <1>20 DEF Since
  <1> QED  BY <1>19, <1>21 DEF B

-----------------------------------------------------------------------------
(* The fields of a schema *)

LEMMA SinceWider ==
    ASSUME NEW m, NEW r, NEW s, NEW B, NEW C, B \subseteq C, Since(m, r, s, B)
    PROVE  Since(m, r, s, C)
  BY DEF Since, Asked

LEMMA FirstAt ==
    ASSUME NEW m \in Seq(MsgFields), NEW tag
    PROVE  /\ At(m, tag) \in 0..Len(m) /\ (At(m, tag) = 0 <=> ~ Has(m, tag))
           /\ At(m, tag) # 0 => m[At(m, tag)].tag = tag
  <1> DEFINE I == {i \in 1..Len(m) : m[i].tag = tag}
             at == At(m, tag)
  <1>1. at = IF I # {} THEN Min(I) ELSE 0  BY Zenon DEF SelectInSeq, At
  <1>2. Has(m, tag) <=> I # {}
    <2>1. DOMAIN m = 1..Len(m)  OBVIOUS
    <2> QED  BY <2>1 DEF Has
  <1>3. ASSUME I # {} PROVE Min(I) \in I
    <2>1. I \in SUBSET Nat  OBVIOUS
    <2> HIDE DEF I
    <2>2. PICK n \in I : \A k \in I : n <= k  BY <1>3, <2>1, LeastNatural
    <2> QED  BY <2>2 DEF Min
  <1>4. Len(m) \in Nat /\ \A i \in I : i \in 1..Len(m) /\ m[i].tag = tag  OBVIOUS
  <1> HIDE DEF I, at
  <1>5. CASE I # {}
    <2>1. at \in I  BY <1>1, <1>3, <1>5
    <2>2. at \in 1..Len(m) /\ m[at].tag = tag  BY <1>4, <2>1
    <2>3. at \in 0..Len(m) /\ at # 0  BY <1>4, <2>2
    <2> QED  BY <1>2, <1>5, <2>2, <2>3 DEF at
  <1>6. CASE I = {}  BY <1>1, <1>2, <1>4, <1>6 DEF at
  <1> QED  BY <1>5, <1>6

LEMMA LastAt ==
    ASSUME NEW m \in Seq(MsgFields), NEW tag, Has(m, tag)
    PROVE  \E i \in DOMAIN m : m[i].tag = tag /\ Slot(m, tag) = m[i].value
  <1> DEFINE I == {i \in 1..Len(m) : m[i].tag = tag}
             at == SelectLastInSeq(m, LAMBDA f : f.tag = tag)
  <1>1. at = IF I # {} THEN Max(I) ELSE 0  BY Zenon DEF SelectLastInSeq
  <1>2. I # {} /\ I \in SUBSET (1..Len(m)) /\ Len(m) \in Nat /\ DOMAIN m = 1..Len(m)  BY DEF Has
  <1>3. Slot(m, tag) = m[at].value  BY Zenon DEF Slot
  <1>4. \A i \in I : i \in 1..Len(m) /\ m[i].tag = tag  OBVIOUS
  <1> HIDE DEF I, at
  <1>5. at \in I  BY <1>1, <1>2, MaxOf
  <1> QED  BY <1>2, <1>3, <1>4, <1>5

\* Field finds what is missing, and nothing else is reported missing, but
\* for fields of its group.
LEMMA FieldSince ==
    ASSUME NEW m \in Seq(MsgFields), NEW r \in Calls, NEW f \in FieldSchemas, NEW B,
           FieldTags(f) \subseteq B, ~ Has(m, f.tag) => f.tag \in B
    PROVE  /\ Since(m, r, Field(m, r, f), B)
           /\ f.required /\ ~ r.returned /\ Field(m, r, f).errors = <<>> => Has(m, f.tag)
  <1> DEFINE at == SelectInSeq(m, LAMBDA g : g.tag = f.tag)
             s  == [r EXCEPT !.bits = @ \cup {at - 1}]
             u  == [s EXCEPT !.cur = at + 1]
             w  == Field(m, r, f)
  <1>1. /\ at \in 0..Len(m) /\ (at = 0 <=> ~ Has(m, f.tag)) /\ Len(m) \in Nat
        /\ at = At(m, f.tag) /\ (at # 0 => m[at].tag = f.tag)
    <2>1. at = At(m, f.tag)  BY Zenon DEF At
    <2> HIDE DEF at
    <2> QED  BY <2>1, FirstAt
  <1>2. f.tag \in Nat  BY DEF FieldSchemas
  <1>3. \/ r.returned /\ w = r
        \/ at = 0 /\ f.required /\ w = Error(r, f.tag, "RequiredTagMissing")
        \/ at = 0 /\ ~ f.required /\ w = r
        \/ at # 0 /\ w = validate_groups_(m, u, f, NumberOf[m[at].value]) /\ parse_int(m[at].value)
        \/ at # 0 /\ w = s
        \/ at # 0 /\ w = Error(s, f.tag, "IncorrectNumInGroupCount")
        \/ at # 0 /\ w = Error(s, f.tag, "IncorrectDataFormatForValue")
    BY Zenon DEF Field
  <1> HIDE DEF at
  <1>4. ASSUME at # 0
        PROVE  /\ s \in Calls /\ Since(m, r, s, B) /\ u \in Calls /\ Since(m, r, u, B) /\ u.cur >= 1
    <2>1. at - 1 \in 0..(Len(m) - 1) /\ at - 1 \in Int /\ at + 1 \in Nat /\ at + 1 >= 1
      BY <1>1, <1>4
    <2>a. Asked(m, at - 1, B)
      <3>1. (at - 1) + 1 = at  BY <1>1
      <3> QED  BY <1>1, <1>4, <3>1 DEF Asked
    <2>2. /\ s \in Calls /\ s.bits = r.bits \cup {at - 1} /\ s.severity = r.severity
          /\ s.cur = r.cur /\ s.returned = r.returned /\ s.errors = r.errors
      BY <2>1 DEF Calls
    <2> HIDE DEF s
    <2>3. /\ u.bits = s.bits /\ u.severity = s.severity /\ u.errors = s.errors
          /\ u.cur = at + 1 /\ u.returned = s.returned
      BY <2>2 DEF Calls
    <2>4. u \in Calls  BY <2>1, <2>2 DEF Calls
    <2> HIDE DEF u
    <2>5. Since(m, r, s, B)  BY <2>1, <2>2, <2>a DEF Since
    <2>6. Since(m, r, u, B)  BY <2>1, <2>2, <2>3, <2>4, <2>a DEF Since
    <2> QED  BY <2>1, <2>2, <2>3, <2>4, <2>5, <2>6
  <1> HIDE DEF s, u, w
  <1>5. Since(m, r, r, B)  BY SinceSame
  <1>6. at = 0 => /\ Since(m, r, Error(r, f.tag, "RequiredTagMissing"), B)
                  /\ Error(r, f.tag, "RequiredTagMissing").errors # <<>>
    BY <1>1, <1>2, <1>5, SinceError, ErrorIs DEF FieldCodes, Codes
  <1>7. at # 0 => /\ Since(m, r, Error(s, f.tag, "IncorrectNumInGroupCount"), B)
                  /\ Since(m, r, Error(s, f.tag, "IncorrectDataFormatForValue"), B)
    BY <1>2, <1>4, SinceError DEF FieldCodes
  <1>8. ASSUME at # 0, parse_int(m[at].value)
        PROVE  Since(m, r, validate_groups_(m, u, f, NumberOf[m[at].value]), B)
    <2> DEFINE n == NumberOf[m[at].value]
               v == validate_groups_(m, u, f, n)
    <2>1. n \in Nat
      <3>1. 0..IntMax \subseteq Nat  BY ValidatorAssumption
      <3> QED  BY <1>8, <3>1 DEF parse_int
    <2> HIDE DEF n
    <2>2. Since(m, u, v, FieldTags(f))  BY <1>4, <1>8, <2>1, GroupsSince
    <2> HIDE DEF v
    <2>3. Since(m, u, v, B)  BY <2>2, SinceWider
    <2> QED  BY <1>4, <1>8, <2>3, SinceTrans DEF v, n
  <1>9. Since(m, r, w, B)  BY <1>3, <1>4, <1>5, <1>6, <1>7, <1>8
  <1>10. f.required /\ ~ r.returned /\ w.errors = <<>> => Has(m, f.tag)  BY <1>1, <1>3, <1>6
  <1> QED  BY <1>9, <1>10 DEF w

\* All fields of a schema: with no error in the end, none that is required
\* is missing.
LEMMA FieldsSince ==
    ASSUME NEW m \in Seq(MsgFields), NEW r \in Calls, NEW q \in Seq(FieldSchemas), NEW B,
           \A k \in 1..Len(q) : /\ FieldTags(q[k]) \subseteq B
                                /\ ~ Has(m, q[k].tag) => q[k].tag \in B
    PROVE  /\ Since(m, r, validate_fields_(m, r, q), B)
           /\ validate_fields_(m, r, q).errors = <<>> =>
                \A k \in 1..Len(q) : q[k].required => Has(m, q[k].tag)
  <1> DEFINE n == Len(q)
             u == [r EXCEPT !.returned = FALSE]
             G == CHOOSE g : g = [S \in SUBSET DOMAIN q |->
                    IF S = {} THEN u ELSE Field(m, g[S \ {Max(S)}], q[Max(S)])]
             st == [p \in Calls \X (1..n) |-> Field(m, p[1], q[p[2]])]
  <1>1. validate_fields_(m, r, q) = G[DOMAIN q]
    BY Zenon DEF validate_fields_, FoldLeft, MapThenFoldSet
  <1>2. n \in Nat /\ DOMAIN q = 1..n /\ \A k \in 1..n : q[k] \in FieldSchemas  OBVIOUS
  <1>u. /\ u \in Calls /\ u.bits = r.bits /\ u.severity = r.severity /\ u.cur = r.cur
        /\ u.errors = r.errors /\ ~ u.returned
    BY DEF Calls
  <1> HIDE DEF u
  <1>3. ASSUME NEW s \in Calls, NEW k \in 1..n
        PROVE  /\ Since(m, s, Field(m, s, q[k]), B) /\ Field(m, s, q[k]) \in Calls
               /\ q[k].required /\ ~ s.returned /\ Field(m, s, q[k]).errors = <<>> => Has(m, q[k].tag)
    <2>1. /\ q[k] \in FieldSchemas /\ FieldTags(q[k]) \subseteq B
          /\ ~ Has(m, q[k].tag) => q[k].tag \in B
      BY <1>2
    <2>2. /\ Since(m, s, Field(m, s, q[k]), B)
          /\ q[k].required /\ ~ s.returned /\ Field(m, s, q[k]).errors = <<>> => Has(m, q[k].tag)
      BY <2>1, FieldSince
    <2> QED  BY <2>2 DEF Since
  <1>4. st \in [Calls \X (1..n) -> Calls]  BY <1>3
  <1>5. PICK f \in [SUBSET (1..n) -> Calls] : FoldOf(u, n, st, f)  BY <1>2, <1>4, <1>u, FoldOfExists
  <1>6. ASSUME NEW S \in SUBSET (1..n), S # {}
        PROVE  f[S] = Field(m, f[S \ {Max(S)}], q[Max(S)])
    <2>1. Max(S) \in 1..n /\ S \ {Max(S)} \in SUBSET (1..n)  BY <1>2, <1>6, MaxOf
    <2>2. f[S] = st[<<f[S \ {Max(S)}], Max(S)>>]  BY <1>5, <1>6 DEF FoldOf
    <2>3. <<f[S \ {Max(S)}], Max(S)>> \in Calls \X (1..n)  BY <2>1
    <2> QED  BY <2>2, <2>3
  <1>7. f[{}] = u  BY <1>5 DEF FoldOf
  <1>8. f = [S \in SUBSET DOMAIN q |-> IF S = {} THEN u ELSE Field(m, f[S \ {Max(S)}], q[Max(S)])]
    BY <1>2, <1>6, <1>7
  <1>9. G = [S \in SUBSET DOMAIN q |-> IF S = {} THEN u ELSE Field(m, G[S \ {Max(S)}], q[Max(S)])]
    BY <1>8
  <1> HIDE DEF G, n
  <1>10. G[{}] = u  BY <1>2, <1>9
  <1>11. ASSUME NEW S \in SUBSET (1..n), S # {}, G[S \ {Max(S)}] \in Calls
         PROVE  G[S] = st[<<G[S \ {Max(S)}], Max(S)>>]
    <2>1. Max(S) \in 1..n  BY <1>2, <1>11, MaxOf
    <2>2. G[S] = Field(m, G[S \ {Max(S)}], q[Max(S)])  BY <1>2, <1>9, <1>11
    <2>3. <<G[S \ {Max(S)}], Max(S)>> \in Calls \X (1..n)  BY <1>11, <2>1
    <2> QED  BY <2>2, <2>3
  <1> HIDE DEF st
  <1>12. Folded(Calls, u, n, st, G)  BY <1>10, <1>11 DEF Folded
  <1>13. Iterates(Calls, u, n, st, G[1..n])  BY <1>2, <1>4, <1>u, <1>12, FoldIterates
  <1>14. PICK it \in [0..n -> Calls] : /\ it[0] = u /\ it[n] = G[1..n]
                                       /\ \A k \in 1..n : it[k] = st[<<it[k - 1], k>>]
    BY <1>13 DEF Iterates
  <1>15. ASSUME NEW k \in 1..n
         PROVE  /\ k - 1 \in 0..n /\ k \in 0..n /\ it[k - 1] \in Calls
                /\ it[k] = Field(m, it[k - 1], q[k])
    <2>1. k - 1 \in 0..n /\ k \in 0..n  BY <1>2
    <2>2. it[k - 1] \in Calls  BY <1>14, <2>1
    <2>3. <<it[k - 1], k>> \in Calls \X (1..n)  BY <2>2
    <2> QED  BY <1>14, <2>1, <2>2, <2>3 DEF st
  <1> DEFINE T == {s \in Calls : Since(m, u, s, B)}
             E == {s \in Calls : s.errors # <<>>}
  <1>16. it[0] \in T  BY <1>14, <1>u, SinceSame
  <1>17. ASSUME NEW k \in 1..n, it[k - 1] \in T PROVE it[k] \in T
    <2>1. Since(m, u, it[k - 1], B)  BY <1>17
    <2>2. Since(m, it[k - 1], it[k], B)  BY <1>3, <1>15
    <2>3. Since(m, u, it[k], B)  BY <1>u, <2>1, <2>2, SinceTrans
    <2> QED  BY <2>3 DEF Since
  <1> HIDE DEF T
  <1>18. \A k \in 0..n : it[k] \in T  BY <1>2, <1>16, <1>17, IteratesIn
  <1>19. n \in 0..n  BY <1>2
  <1>20. Since(m, u, it[n], B)  BY <1>18, <1>19 DEF T
  <1>21. ASSUME it[n].errors = <<>>
         PROVE  \A k \in 0..n : it[k].errors = <<>> /\ ~ it[k].returned
    <2> DEFINE U == {k \in Nat : k <= n => it[n - k].errors = <<>>}
    <2>1. 0 \in U  BY <1>2, <1>21
    <2>2. ASSUME NEW k \in Nat, k \in U PROVE k + 1 \in U
      <3>1. CASE k + 1 <= n
        <4>1. n - k \in 1..n /\ n - k - 1 = n - (k + 1) /\ k <= n  BY <1>2, <3>1
        <4>2. it[n - k].errors = <<>>  BY <2>2, <4>1
        <4>3. Since(m, it[n - k - 1], it[n - k], B)  BY <1>3, <1>15, <4>1
        <4>4. it[n - (k + 1)].errors = <<>>  BY <4>1, <4>2, <4>3 DEF Since
        <4> QED  BY <4>4
      <3>2. CASE ~ (k + 1 <= n)  BY <3>2
      <3> QED  BY <3>1, <3>2
    <2> HIDE DEF U
    <2>3. Nat \subseteq U  BY <2>1, <2>2, SetInduction
    <2>4. ASSUME NEW k \in 0..n PROVE it[k].errors = <<>>
      <3>1. n - k \in Nat /\ n - k <= n /\ n - (n - k) = k  BY <1>2
      <3>2. n - k \in U  BY <2>3, <3>1
      <3> QED  BY <3>1, <3>2 DEF U
    <2>5. ASSUME NEW k \in 0..n PROVE ~ it[k].returned
      <3>1. Since(m, u, it[k], B)  BY <1>18 DEF T
      <3> QED  BY <1>u, <2>4, <3>1 DEF Since
    <2> QED  BY <2>4, <2>5
  <1>22. ASSUME it[n].errors = <<>>, NEW k \in 1..n, q[k].required PROVE Has(m, q[k].tag)
    <2>1. it[k].errors = <<>> /\ ~ it[k - 1].returned  BY <1>15, <1>21, <1>22
    <2> QED  BY <1>3, <1>15, <1>22, <2>1
  <1>23. Since(m, r, u, B)  BY <1>u DEF Since
  <1>24. Since(m, r, it[n], B)  BY <1>20, <1>23, SinceTrans
  <1> QED  BY <1>1, <1>2, <1>14, <1>22, <1>24 DEF n

-----------------------------------------------------------------------------
(* The binary search in the Registry *)

Windows == (0..Len(SortedTypes)) \X (0..Len(SortedTypes))

Mid(w) == w[1] + (w[2] - w[1]) \div 2

\* The type behind position i comes before t.
Below(t, i) == Rank[SortedTypes[i + 1]] < Rank[t]

\* What the search yields for the window w, given what it yields in S.
Narrowed(t, S, w) ==
    IF w[1] >= w[2] THEN w[1]
    ELSE IF Below(t, Mid(w)) THEN S[<<Mid(w) + 1, w[2]>>]
    ELSE S[<<w[1], Mid(w)>>]

Searches(t, S, d) == \A w \in Windows : w[2] - w[1] <= d => S[w] = Narrowed(t, S, w)

LEMMA MidIs ==
    ASSUME NEW w \in Windows, w[1] < w[2]
    PROVE  /\ Mid(w) \in w[1]..(w[2] - 1) /\ Mid(w) \in Nat /\ Mid(w) + 1 <= w[2]
           /\ <<Mid(w) + 1, w[2]>> \in Windows /\ <<w[1], Mid(w)>> \in Windows
           /\ w[2] - (Mid(w) + 1) < w[2] - w[1] /\ Mid(w) - w[1] < w[2] - w[1]
  <1> DEFINE N == Len(SortedTypes)
  <1>1. w[1] \in 0..N /\ w[2] \in 0..N /\ N \in Nat  BY ValidatorAssumption DEF Windows
  <1> HIDE DEF N
  <1>2. w[1] \in Nat /\ w[2] \in Nat /\ w[2] <= N  BY <1>1
  <1>3. Mid(w) \in w[1]..(w[2] - 1)
    <2> DEFINE d == w[2] - w[1]
    <2>1. d \in Nat /\ d > 0  BY <1>2
    <2> HIDE DEF d
    <2>2. d \div 2 \in Nat /\ d \div 2 < d  BY <2>1
    <2>3. Mid(w) = w[1] + d \div 2  BY DEF Mid, d
    <2> DEFINE e == d \div 2
    <2> HIDE DEF e
    <2>4. e \in Nat /\ e < w[2] - w[1] /\ Mid(w) = w[1] + e  BY <2>2, <2>3 DEF d, e
    <2> QED  BY <1>2, <2>4
  <1> DEFINE mid == Mid(w)
  <1>4. mid \in w[1]..(w[2] - 1)  BY <1>3
  <1> HIDE DEF mid
  <1>5. /\ mid \in Nat /\ mid + 1 <= w[2] /\ mid + 1 \in 0..N /\ mid \in 0..N
        /\ w[2] - (mid + 1) < w[2] - w[1] /\ mid - w[1] < w[2] - w[1]
    BY <1>1, <1>2, <1>4
  <1>6. <<mid + 1, w[2]>> \in Windows /\ <<w[1], mid>> \in Windows  BY <1>1, <1>5 DEF Windows, N
  <1> QED  BY <1>4, <1>5, <1>6 DEF mid

LEMMA NarrowedIn ==
    ASSUME NEW t, NEW S \in [Windows -> 0..Len(SortedTypes)], NEW w \in Windows
    PROVE  Narrowed(t, S, w) \in 0..Len(SortedTypes)
  <1>1. w[1] \in 0..Len(SortedTypes) /\ w[1] \in Int /\ w[2] \in Int
    BY ValidatorAssumption DEF Windows
  <1>2. CASE w[1] >= w[2]  BY <1>1, <1>2 DEF Narrowed
  <1>3. CASE ~ (w[1] >= w[2])
    <2>1. w[1] < w[2]  BY <1>1, <1>3
    <2>2. <<Mid(w) + 1, w[2]>> \in Windows /\ <<w[1], Mid(w)>> \in Windows  BY <2>1, MidIs
    <2> QED  BY <1>3, <2>2 DEF Narrowed
  <1> QED  BY <1>2, <1>3

\* Such a search exists for windows of any size.
LEMMA SearchExists ==
    ASSUME NEW t
    PROVE  \E S \in [Windows -> 0..Len(SortedTypes)] : \A w \in Windows : S[w] = Narrowed(t, S, w)
  <1> DEFINE N == Len(SortedTypes)
             T == {d \in Nat : \E S \in [Windows -> 0..N] : Searches(t, S, d)}
  <1>0. N \in Nat /\ \A w \in Windows : w[1] \in 0..N /\ w[2] \in 0..N /\ w[2] - w[1] \in Int
    BY ValidatorAssumption DEF Windows
  <1>1. 0 \in T
    <2> DEFINE S == [w \in Windows |-> w[1]]
    <2>1. S \in [Windows -> 0..N]  BY <1>0
    <2>2. ASSUME NEW w \in Windows, w[2] - w[1] <= 0 PROVE S[w] = Narrowed(t, S, w)
      <3>1. w[1] >= w[2]
        <4>1. w[1] \in Int /\ w[2] \in Int  BY <1>0
        <4> QED  BY <2>2, <4>1
      <3> QED  BY <3>1 DEF Narrowed
    <2> HIDE DEF S
    <2>3. Searches(t, S, 0)  BY <2>2 DEF Searches
    <2> QED  BY <2>1, <2>3
  <1>2. ASSUME NEW d \in Nat, d \in T PROVE d + 1 \in T
    <2>1. PICK S \in [Windows -> 0..N] : Searches(t, S, d)  BY <1>2
    <2> DEFINE R == [w \in Windows |-> IF w[2] - w[1] <= d THEN S[w] ELSE Narrowed(t, S, w)]
    <2>2. R \in [Windows -> 0..N]  BY NarrowedIn
    <2>3. ASSUME NEW w \in Windows, w[2] - w[1] <= d + 1
          PROVE  R[w] = Narrowed(t, R, w)
      <3>1. R[w] = Narrowed(t, S, w)  BY <2>1 DEF Searches
      <3>2. CASE w[1] >= w[2]  BY <3>1, <3>2 DEF Narrowed
      <3>3. CASE ~ (w[1] >= w[2])
        <4> DEFINE a == <<Mid(w) + 1, w[2]>>
                   b == <<w[1], Mid(w)>>
        <4>0. w[1] \in Int /\ w[2] \in Int /\ w[1] < w[2]  BY <1>0, <3>3
        <4>1. /\ a \in Windows /\ b \in Windows /\ Mid(w) \in Nat
              /\ w[2] - (Mid(w) + 1) < w[2] - w[1] /\ Mid(w) - w[1] < w[2] - w[1]
          BY <4>0, MidIs
        <4>2. a[2] - a[1] <= d /\ b[2] - b[1] <= d  BY <2>3, <4>0, <4>1
        <4> HIDE DEF a, b
        <4>3. R[a] = S[a] /\ R[b] = S[b]  BY <4>1, <4>2
        <4> HIDE DEF R
        <4> QED  BY <3>1, <3>3, <4>3 DEF Narrowed, a, b
      <3> QED  BY <3>2, <3>3
    <2> HIDE DEF R
    <2>4. Searches(t, R, d + 1)  BY <2>3 DEF Searches
    <2> QED  BY <2>2, <2>4
  <1>3. N \in T
    <2> HIDE DEF T
    <2> QED  BY <1>0, <1>1, <1>2, SetInduction
  <1>4. PICK S \in [Windows -> 0..N] : Searches(t, S, N)  BY <1>3
  <1>5. \A w \in Windows : w[2] - w[1] <= N
    <2> SUFFICES ASSUME NEW w \in Windows PROVE w[2] - w[1] <= N  OBVIOUS
    <2>1. w[1] \in 0..N /\ w[2] \in 0..N  BY <1>0
    <2> HIDE DEF N
    <2> QED  BY <1>0, <2>1
  <1> QED  BY <1>4, <1>5 DEF Searches

\* Where the search ends in the window w.
Ends(t, w, p) ==
    /\ p \in w[1]..w[2]
    /\ t \in DOMAIN Rank => /\ \A i \in w[1]..(p - 1) : Below(t, i)
                            /\ \A i \in p..(w[2] - 1) : ~ Below(t, i)

LEMMA SortedBelow ==
    ASSUME NEW t \in DOMAIN Rank, NEW i \in 0..(Len(SortedTypes) - 1), NEW j \in 0..i
    PROVE  Below(t, i) => Below(t, j)
  <1> DEFINE N == Len(SortedTypes)
             x == SortedTypes[i + 1]
             y == SortedTypes[j + 1]
  <1>1. N \in Nat /\ DOMAIN SortedTypes = 1..N  BY ValidatorAssumption
  <1> HIDE DEF N
  <1>2. i + 1 \in 1..N /\ j + 1 \in 1..N /\ (j + 1 < i + 1 \/ j = i)  BY <1>1 DEF N
  <1>3. x \in DOMAIN Rank /\ y \in DOMAIN Rank  BY <1>1, <1>2, ValidatorAssumption
  <1>4. Rank[x] \in Nat /\ Rank[y] \in Nat /\ Rank[t] \in Nat  BY <1>3, ValidatorAssumption
  <1>5. j = i \/ Rank[y] < Rank[x]  BY <1>1, <1>2, ValidatorAssumption
  <1> HIDE DEF x, y
  <1>6. Rank[x] < Rank[t] => Rank[y] < Rank[t] \/ j = i  BY <1>4, <1>5
  <1> QED  BY <1>6 DEF Below, x, y

LEMMA LowerBoundIs ==
    ASSUME NEW t
    PROVE  Ends(t, <<0, Len(SortedTypes)>>, LowerBound(t))
  <1> DEFINE N == Len(SortedTypes)
             F == CHOOSE S : S = [w \in (0..N) \X (0..N) |->
                    IF w[1] >= w[2] THEN w[1]
                    ELSE IF Rank[SortedTypes[w[1] + (w[2] - w[1]) \div 2 + 1]] < Rank[t]
                         THEN S[<<w[1] + (w[2] - w[1]) \div 2 + 1, w[2]>>]
                    ELSE S[<<w[1], w[1] + (w[2] - w[1]) \div 2>>]]
             T == {d \in Nat : \A w \in Windows : w[1] <= w[2] /\ w[2] - w[1] <= d => Ends(t, w, F[w])}
  <1>0. N \in Nat /\ \A w \in Windows : w[1] \in 0..N /\ w[2] \in 0..N
    BY ValidatorAssumption DEF Windows
  <1>1. LowerBound(t) = F[<<0, N>>]  BY Zenon DEF LowerBound
  <1>2. \A w \in Windows : F[w] = Narrowed(t, F, w)
    <2>1. PICK S \in [Windows -> 0..N] : \A w \in Windows : S[w] = Narrowed(t, S, w)
      BY SearchExists
    <2>2. S = [w \in Windows |-> S[w]]  BY <2>1
    <2>3. S = [w \in Windows |-> Narrowed(t, S, w)]  BY <2>1, <2>2
    <2>4. S = [w \in (0..N) \X (0..N) |->
                    IF w[1] >= w[2] THEN w[1]
                    ELSE IF Rank[SortedTypes[w[1] + (w[2] - w[1]) \div 2 + 1]] < Rank[t]
                         THEN S[<<w[1] + (w[2] - w[1]) \div 2 + 1, w[2]>>]
                    ELSE S[<<w[1], w[1] + (w[2] - w[1]) \div 2>>]]
      BY <2>3, Zenon DEF Narrowed, Below, Mid, Windows
    <2>5. F = [w \in (0..N) \X (0..N) |->
                    IF w[1] >= w[2] THEN w[1]
                    ELSE IF Rank[SortedTypes[w[1] + (w[2] - w[1]) \div 2 + 1]] < Rank[t]
                         THEN F[<<w[1] + (w[2] - w[1]) \div 2 + 1, w[2]>>]
                    ELSE F[<<w[1], w[1] + (w[2] - w[1]) \div 2>>]]
      BY <2>4, Zenon
    <2> HIDE DEF F
    <2>6. F = [w \in Windows |-> Narrowed(t, F, w)]
      BY <2>5, Zenon DEF Narrowed, Below, Mid, Windows
    <2> QED  BY <2>6
  <1> HIDE DEF F, N
  <1>3. 0 \in T
    <2> SUFFICES ASSUME NEW w \in Windows, w[1] <= w[2], w[2] - w[1] <= 0 PROVE Ends(t, w, F[w])
      OBVIOUS
    <2>1. w[1] \in Int /\ w[1] = w[2]  BY <1>0
    <2>2. F[w] = w[1]  BY <1>2, <2>1 DEF Narrowed
    <2>3. w[1]..(w[1] - 1) = {} /\ w[1]..(w[2] - 1) = {} /\ w[1] \in w[1]..w[2]  BY <2>1
    <2> QED  BY <2>2, <2>3 DEF Ends
  <1>4. ASSUME NEW d \in Nat, d \in T PROVE d + 1 \in T
    <2> SUFFICES ASSUME NEW w \in Windows, w[1] <= w[2], w[2] - w[1] <= d + 1
                 PROVE  Ends(t, w, F[w])
      OBVIOUS
    <2>0. w[1] \in Nat /\ w[2] \in Nat /\ w[2] <= N  BY <1>0
    <2>1. CASE w[1] = w[2]
      <3>1. w[2] - w[1] <= d  BY <2>0, <2>1
      <3> QED  BY <1>4, <3>1
    <2>2. CASE w[1] # w[2]
      <3> DEFINE mid == Mid(w)
                 a == <<mid + 1, w[2]>>
                 b == <<w[1], mid>>
      <3>1. w[1] < w[2] /\ ~ (w[1] >= w[2])  BY <2>0, <2>2
      <3>2. /\ mid \in w[1]..(w[2] - 1) /\ mid \in Nat /\ mid + 1 <= w[2]
            /\ a \in Windows /\ b \in Windows
            /\ w[2] - (mid + 1) < w[2] - w[1] /\ mid - w[1] < w[2] - w[1]
        BY <3>1, MidIs
      <3>3. F[w] = IF Below(t, mid) THEN F[a] ELSE F[b]  BY <1>2, <3>1 DEF Narrowed
      <3> HIDE DEF mid
      <3>4. /\ a[1] = mid + 1 /\ a[2] = w[2] /\ b[1] = w[1] /\ b[2] = mid
            /\ a[1] <= a[2] /\ b[1] <= b[2] /\ a[2] - a[1] <= d /\ b[2] - b[1] <= d
        BY <2>0, <3>1, <3>2
      <3> HIDE DEF a, b
      <3>5. Ends(t, a, F[a]) /\ Ends(t, b, F[b])  BY <1>4, <3>2, <3>4
      <3>6. mid \in 0..(N - 1)  BY <1>0, <2>0, <3>2
      <3>7. CASE Below(t, mid)
        <4> DEFINE p == F[a]
        <4>1. p \in (mid + 1)..w[2] /\ F[w] = p  BY <3>3, <3>4, <3>5, <3>7 DEF Ends
        <4>2. t \in DOMAIN Rank => /\ \A i \in (mid + 1)..(p - 1) : Below(t, i)
                                   /\ \A i \in p..(w[2] - 1) : ~ Below(t, i)
          BY <3>4, <3>5 DEF Ends
        <4>3. t \in DOMAIN Rank => \A i \in 0..mid : Below(t, i)
          BY <3>6, <3>7, SortedBelow DEF N
        <4> HIDE DEF p
        <4>4. p \in w[1]..w[2]  BY <2>0, <3>2, <4>1
        <4>5. \A i \in w[1]..(p - 1) : i \in 0..mid \/ i \in (mid + 1)..(p - 1)
          BY <2>0, <3>2, <4>1
        <4> QED  BY <4>1, <4>2, <4>3, <4>4, <4>5 DEF Ends
      <3>8. CASE ~ Below(t, mid)
        <4> DEFINE p == F[b]
        <4>1. p \in w[1]..mid /\ F[w] = p  BY <3>3, <3>4, <3>5, <3>8 DEF Ends
        <4>2. t \in DOMAIN Rank => /\ \A i \in w[1]..(p - 1) : Below(t, i)
                                   /\ \A i \in p..(mid - 1) : ~ Below(t, i)
          BY <3>4, <3>5 DEF Ends
        <4>3. ASSUME t \in DOMAIN Rank, NEW i \in mid..(w[2] - 1) PROVE ~ Below(t, i)
          <5>1. i \in 0..(N - 1) /\ mid \in 0..i  BY <1>0, <2>0, <3>2
          <5> QED  BY <3>8, <4>3, <5>1, SortedBelow DEF N
        <4> HIDE DEF p
        <4>4. p \in w[1]..w[2]  BY <2>0, <3>2, <4>1
        <4>5. \A i \in p..(w[2] - 1) : i \in p..(mid - 1) \/ i \in mid..(w[2] - 1)
          BY <2>0, <3>2, <4>1
        <4> QED  BY <4>1, <4>2, <4>3, <4>4, <4>5 DEF Ends
      <3> QED  BY <3>7, <3>8
    <2> QED  BY <2>1, <2>2
  <1> HIDE DEF T
  <1>5. N \in T  BY <1>0, <1>3, <1>4, SetInduction
  <1> DEFINE z == <<0, N>>
  <1>6. z \in Windows /\ z[1] <= z[2] /\ z[2] - z[1] <= N  BY <1>0 DEF Windows, N
  <1> HIDE DEF z
  <1>7. Ends(t, z, F[z])  BY <1>5, <1>6 DEF T
  <1> QED  BY <1>1, <1>7 DEF z, N

\* Registry::get finds the types it has and no other.
THEOREM RegistryFinds ==
    ASSUME NEW t \in DOMAIN Rank
    PROVE  registered(t) <=> t \in ToSet(SortedTypes)
  <1> DEFINE N == Len(SortedTypes)
             L == LowerBound(t)
  <1>1. N \in Nat /\ DOMAIN SortedTypes = 1..N  BY ValidatorAssumption
  <1>2. L \in 0..N /\ (\A i \in 0..(L - 1) : Below(t, i)) /\ \A i \in L..(N - 1) : ~ Below(t, i)
    BY LowerBoundIs DEF Ends
  <1> HIDE DEF L
  <1>3. ASSUME registered(t) PROVE t \in ToSet(SortedTypes)
    <2>1. L < N /\ SortedTypes[L + 1] = t  BY <1>3 DEF registered, L
    <2>2. L + 1 \in 1..N  BY <1>1, <1>2, <2>1
    <2> QED  BY <1>1, <2>1, <2>2 DEF ToSet
  <1>4. ASSUME t \in ToSet(SortedTypes) PROVE registered(t)
    <2>1. PICK j \in 1..N : SortedTypes[j] = t  BY <1>1, <1>4 DEF ToSet
    <2>2. Rank[t] \in Nat  BY ValidatorAssumption
    <2>3. ~ Below(t, j - 1)
      <3>1. j - 1 + 1 = j  BY <1>1
      <3>2. Below(t, j - 1) <=> Rank[t] < Rank[t]  BY <2>1, <3>1 DEF Below
      <3> QED  BY <2>2, <3>2
    <2>4. L <= j - 1
      <3> HIDE DEF N
      <3>1. j \in Nat /\ j >= 1 /\ L \in Nat  BY <1>1, <1>2
      <3>2. ASSUME ~ (L <= j - 1) PROVE j - 1 \in 0..(L - 1)  BY <3>1, <3>2
      <3> QED  BY <1>2, <2>3, <3>2
    <2>5. ASSUME L < j - 1 PROVE FALSE
      <3> DEFINE x == SortedTypes[L + 1]
      <3>1. L + 1 \in 1..N /\ L + 1 < j /\ L \in L..(N - 1)  BY <1>1, <1>2, <2>5
      <3>2. Rank[x] < Rank[SortedTypes[j]]  BY <1>1, <3>1, ValidatorAssumption
      <3> QED  BY <1>2, <2>1, <3>1, <3>2 DEF Below
    <2>6. L + 1 = j /\ L < N
      <3> HIDE DEF N
      <3>1. j \in Nat /\ j >= 1 /\ j <= N /\ L \in Nat  BY <1>1, <1>2
      <3> QED  BY <1>1, <2>4, <2>5, <3>1
    <2> QED  BY <2>1, <2>6 DEF registered, L
  <1> QED  BY <1>3, <1>4

-----------------------------------------------------------------------------
(* TagScratch *)

LEMMA WordsCover ==
    ASSUME NEW n \in Nat
    PROVE  /\ n \div WordBits + 1 \in Nat
           /\ n <= (n \div WordBits + 1) * WordBits
  <1>1. WordBits \in Nat /\ WordBits > 0  BY ValidatorAssumption
  <1>2. n \div WordBits \in Nat  BY <1>1
  <1>3. n < WordBits * (n \div WordBits) + WordBits  BY <1>1
  <1>4. (n \div WordBits + 1) * WordBits = WordBits * (n \div WordBits) + WordBits  BY <1>1, <1>2
  <1>5. WordBits * (n \div WordBits) \in Int  BY <1>1, <1>2
  <1> QED  BY <1>1, <1>2, <1>3, <1>4, <1>5

LEMMA MoreWords ==
    ASSUME NEW v \in Nat, NEW w \in Nat, v <= w
    PROVE  v * WordBits \in Nat /\ w * WordBits \in Nat /\ v * WordBits <= w * WordBits
  <1>1. WordBits \in Nat  BY ValidatorAssumption
  <1>2. w - v \in Nat  OBVIOUS
  <1>3. w * WordBits = v * WordBits + (w - v) * WordBits  BY <1>1
  <1>4. (w - v) * WordBits \in Nat  BY <1>1, <1>2
  <1> QED  BY <1>1, <1>3, <1>4

\* full: every one of the bits is set.
LEMMA FullIsAll ==
    ASSUME NEW set, NEW size \in Nat, full(set, size), NEW p \in 0..(size - 1)
    PROVE  p \in set
  <1> DEFINE q == size \div WordBits
             rest == size % WordBits
             i == p \div WordBits
             b == p % WordBits
  <1>1. WordBits \in Nat /\ WordBits > 0 /\ p \in Nat /\ p < size  BY ValidatorAssumption
  <1>2. q \in Nat /\ i \in Nat /\ rest \in Nat /\ b \in 0..(WordBits - 1)  BY <1>1
  <1>3. size = WordBits * q + rest /\ p = WordBits * i + b  BY <1>1
  <1>4. /\ \A k \in 0..(q - 1) : Word(set, k) = 0..(WordBits - 1)
        /\ rest # 0 => 0..(rest - 1) \subseteq Word(set, q)
    BY DEF full
  <1> HIDE DEF q, rest, i, b
  <1>5. i * WordBits + b = p  BY <1>1, <1>2, <1>3
  <1>6. i <= q
    <2> SUFFICES ASSUME i >= q + 1 PROVE FALSE  BY <1>2
    <2>1. rest < WordBits  BY <1>1 DEF rest
    <2>2. WordBits * i >= WordBits * (q + 1)
      <3>1. i - (q + 1) \in Nat  BY <1>2
      <3>2. WordBits * (i - (q + 1)) \in Nat  BY <1>1, <3>1
      <3>3. WordBits * i = WordBits * (q + 1) + WordBits * (i - (q + 1))  BY <1>1, <1>2
      <3>4. WordBits * (q + 1) \in Nat  BY <1>1, <1>2
      <3> QED  BY <3>2, <3>3, <3>4
    <2>3. WordBits * (q + 1) = WordBits * q + WordBits  BY <1>1, <1>2
    <2>4. WordBits * q \in Nat /\ WordBits * i \in Nat  BY <1>1, <1>2
    <2> HIDE DEF q, i
    <2> QED  BY <1>1, <1>2, <1>3, <2>1, <2>2, <2>3, <2>4
  <1>7. b \in Word(set, i)
    <2>1. CASE i < q
      <3>1. i \in 0..(q - 1)  BY <1>2, <2>1
      <3>2. Word(set, i) = 0..(WordBits - 1)  BY <1>4, <3>1
      <3> QED  BY <1>2, <3>2
    <2>2. CASE i = q
      <3>1. WordBits * q \in Nat  BY <1>1, <1>2
      <3>2. b < rest  BY <1>1, <1>2, <1>3, <2>2, <3>1
      <3> QED  BY <1>2, <1>4, <2>2, <3>2
    <2> QED  BY <1>2, <1>6, <2>1, <2>2
  <1> QED  BY <1>5, <1>7 DEF Word

-----------------------------------------------------------------------------
(* validate_message *)

\* What the validator may report missing of a message of the type.
MayMiss(m, type) == {t \in Nat : ~ Has(m, t)} \cup UNION {FieldTags(f) : f \in Schema(type)}

LEMMA SchemaSince ==
    ASSUME NEW m \in Seq(MsgFields), NEW r \in Calls, NEW type, NEW q \in Seq(FieldSchemas),
           ToSet(q) \subseteq Schema(type)
    PROVE  /\ Since(m, r, validate_fields_(m, r, q), MayMiss(m, type))
           /\ validate_fields_(m, r, q).errors = <<>> =>
                \A f \in ToSet(q) : f.required => Has(m, f.tag)
  <1> DEFINE B == MayMiss(m, type)
  <1>1. \A k \in 1..Len(q) : q[k] \in ToSet(q) /\ q[k] \in FieldSchemas  BY DEF ToSet
  <1>2. ASSUME NEW k \in 1..Len(q)
        PROVE  /\ FieldTags(q[k]) \subseteq B /\ (~ Has(m, q[k].tag) => q[k].tag \in B)
    <2>1. q[k] \in Schema(type) /\ q[k].tag \in Nat  BY <1>1 DEF FieldSchemas
    <2> QED  BY <2>1 DEF MayMiss
  <1> HIDE DEF B
  <1>3. /\ Since(m, r, validate_fields_(m, r, q), B)
        /\ validate_fields_(m, r, q).errors = <<>> =>
             \A k \in 1..Len(q) : q[k].required => Has(m, q[k].tag)
    BY <1>2, FieldsSince
  <1>4. \A f \in ToSet(q) : \E k \in 1..Len(q) : f = q[k]  BY DEF ToSet
  <1> QED  BY <1>3, <1>4 DEF B

\* The header: a fatal error, an error of a format, or all of its fields.
LEMMA HeaderSince ==
    ASSUME NEW m \in Seq(MsgFields), NEW r \in Calls, r.errors = <<>>, NEW type,
           NEW h, h = validate_header_(m, r, type)
    PROVE  /\ h \in Calls /\ h.bits \subseteq r.bits \cup 0..(Len(m) - 1)
           /\ \/ h.severity = "Fatal"
              \/ Since(m, r, h, MayMiss(m, type))
           /\ h.errors = <<>> => /\ Has(m, 34) /\ validate_type_(Slot(m, 34), "INT")
                                 /\ \A f \in ToSet(HeaderSchema) : f.required => Has(m, f.tag)
           /\ h.severity \in {r.severity, "Fatal"}
           /\ h.severity = "Fatal" => h.errors # <<>> \/ r.severity = "Fatal"
  <1> DEFINE B == MayMiss(m, type)
             v == validate_fields_(m, r, HeaderSchema)
  <1>1. ASSUME NEW tag \in Nat, NEW code \in FieldCodes
        PROVE  LET e == Fatal(r, tag, code)
               IN  /\ e \in Calls /\ e.severity = "Fatal" /\ e.errors # <<>> /\ e.bits = r.bits
    <2> DEFINE s == Error(r, tag, code)
    <2>1. s \in Calls /\ s.bits = r.bits /\ s.errors # <<>>  BY ErrorIs DEF Codes
    <2> HIDE DEF s
    <2>2. [s EXCEPT !.severity = "Fatal"] \in Calls  BY <2>1 DEF Calls
    <2>3. /\ [s EXCEPT !.severity = "Fatal"].severity = "Fatal"
          /\ [s EXCEPT !.severity = "Fatal"].errors = s.errors
          /\ [s EXCEPT !.severity = "Fatal"].bits = s.bits
      BY <2>1 DEF Calls
    <2> QED  BY <2>1, <2>2, <2>3 DEF Fatal, s
  <1>2. ASSUME NEW tag \in Nat
        PROVE  LET e == Error(r, tag, "IncorrectDataFormatForValue")
               IN  /\ e \in Calls /\ Since(m, r, e, B) /\ e.errors # <<>> /\ e.bits = r.bits
                   /\ e.severity = r.severity
    <2>1. Since(m, r, r, B)  BY SinceSame
    <2>2. Since(m, r, Error(r, tag, "IncorrectDataFormatForValue"), B)
      BY <2>1, SinceError DEF FieldCodes
    <2> QED  BY <2>2, ErrorIs DEF Codes, FieldCodes
  <1>3. /\ Since(m, r, v, B)
        /\ v.errors = <<>> => \A f \in ToSet(HeaderSchema) : f.required => Has(m, f.tag)
    BY SchemaSince, SchemaAssumption DEF Schema
  <1>4. \/ \E tag \in Nat, code \in FieldCodes : h = Fatal(r, tag, code)
        \/ \E tag \in Nat : h = Error(r, tag, "IncorrectDataFormatForValue")
        \/ h = v /\ Has(m, 34) /\ validate_type_(Slot(m, 34), "INT")
    <2>1. \/ h = Fatal(r, 8, "RequiredTagMissing") \/ h = Fatal(r, 8, "Other")
          \/ h = Fatal(r, 34, "IncorrectDataFormatForValue")
          \/ h = Fatal(r, 49, "CompIDProblem") \/ h = Fatal(r, 56, "CompIDProblem")
          \/ h = Error(r, 9, "IncorrectDataFormatForValue")
          \/ h = Error(r, 35, "IncorrectDataFormatForValue")
          \/ h = v /\ Has(m, 34) /\ validate_type_(Slot(m, 34), "INT")
      BY Zenon DEF validate_header_
    <2>2. /\ 8 \in Nat /\ 9 \in Nat /\ 34 \in Nat /\ 35 \in Nat /\ 49 \in Nat /\ 56 \in Nat
          /\ "RequiredTagMissing" \in FieldCodes /\ "Other" \in FieldCodes
          /\ "IncorrectDataFormatForValue" \in FieldCodes /\ "CompIDProblem" \in FieldCodes
      BY DEF FieldCodes
    <2> HIDE DEF v
    <2> QED  BY <2>1, <2>2, Zenon
  <1> HIDE DEF B, v
  <1>5. CASE \E tag \in Nat, code \in FieldCodes : h = Fatal(r, tag, code)
    <2>1. h \in Calls /\ h.severity = "Fatal" /\ h.errors # <<>> /\ h.bits = r.bits  BY <1>1, <1>5
    <2> QED  BY <2>1
  <1>6. CASE \E tag \in Nat : h = Error(r, tag, "IncorrectDataFormatForValue")
    <2>1. /\ h \in Calls /\ Since(m, r, h, B) /\ h.errors # <<>> /\ h.bits = r.bits
          /\ h.severity = r.severity
      BY <1>2, <1>6
    <2> QED  BY <2>1 DEF B
  <1>7. CASE h = v /\ Has(m, 34) /\ validate_type_(Slot(m, 34), "INT")
    <2>1. h \in Calls /\ h.bits \subseteq r.bits \cup 0..(Len(m) - 1) /\ h.severity = r.severity
      BY <1>3, <1>7 DEF Since
    <2> QED  BY <1>3, <1>7, <2>1 DEF B
  <1> QED  BY <1>4, <1>5, <1>6, <1>7

\* The whole message.
LEMMA CheckedIs ==
    ASSUME NEW m \in Seq(MsgFields), NEW type \in DOMAIN BodySchema,
           Fresh \in Calls, Fresh.errors = <<>>, Fresh.bits = {}, Fresh.severity = "Moderate"
    PROVE  LET c == Checked(m, type)
           IN  /\ c \in Calls /\ c.bits \subseteq 0..(Len(m) - 1)
               /\ c.errors = <<>> => /\ c.severity = "Moderate" /\ full(c.bits, Len(m))
                                     /\ \A b \in c.bits : Asked(m, b, MayMiss(m, type))
                                     /\ Has(m, 34) /\ validate_type_(Slot(m, 34), "INT")
               /\ c.severity # "Fatal" /\ c.errors # <<>> =>
                    /\ Head(c.errors).code = "RequiredTagMissing" =>
                         Head(c.errors).tag \in MayMiss(m, type)
                    /\ Head(c.errors).code = "InvalidTagNumber" =>
                         \A f \in Schema(type) : f.required => Has(m, f.tag)
  <1> DEFINE B == MayMiss(m, type)
             h == validate_header_(m, Fresh, type)
             b == validate_fields_(m, h, BodySchema[type])
             t == validate_fields_(m, b, TrailerSchema)
             c == Checked(m, type)
  <1>1. /\ BodySchema[type] \in Seq(FieldSchemas) /\ TrailerSchema \in Seq(FieldSchemas)
        /\ ToSet(BodySchema[type]) \subseteq Schema(type) /\ ToSet(TrailerSchema) \subseteq Schema(type)
    BY SchemaAssumption DEF Schema
  <1>2. c = IF t.errors = <<>> /\ ~ full(t.bits, Len(m)) THEN Error(t, 0, "InvalidTagNumber") ELSE t
    BY Zenon DEF Checked
  <1>3. /\ h \in Calls /\ h.bits \subseteq Fresh.bits \cup 0..(Len(m) - 1)
        /\ h.severity = "Fatal" \/ Since(m, Fresh, h, B)
        /\ h.errors = <<>> => /\ Has(m, 34) /\ validate_type_(Slot(m, 34), "INT")
                              /\ \A f \in ToSet(HeaderSchema) : f.required => Has(m, f.tag)
        /\ h.severity \in {"Moderate", "Fatal"} /\ (h.severity = "Fatal" => h.errors # <<>>)
    BY HeaderSince
  <1> HIDE DEF h
  <1>4. /\ Since(m, h, b, B)
        /\ b.errors = <<>> => \A f \in ToSet(BodySchema[type]) : f.required => Has(m, f.tag)
    BY <1>1, <1>3, SchemaSince
  <1> HIDE DEF b
  <1>5. b \in Calls  BY <1>4 DEF Since
  <1>6. /\ Since(m, b, t, B)
        /\ t.errors = <<>> => \A f \in ToSet(TrailerSchema) : f.required => Has(m, f.tag)
    BY <1>1, <1>5, SchemaSince
  <1> HIDE DEF t, c, B
  <1>7. Since(m, h, t, B)  BY <1>3, <1>4, <1>6, SinceTrans
  <1>8. t \in Calls /\ t.bits \subseteq 0..(Len(m) - 1) /\ t.severity = h.severity  BY <1>3, <1>7 DEF Since
  <1>9. h.severity # "Fatal" => Since(m, Fresh, t, B)  BY <1>3, <1>7, SinceTrans
  <1>10. CASE t.errors = <<>> /\ ~ full(t.bits, Len(m))
    <2>1. c = Error(t, 0, "InvalidTagNumber")  BY <1>2, <1>10
    <2>2. /\ c \in Calls /\ c.bits = t.bits /\ c.errors # <<>>
          /\ Head(c.errors) = [tag |-> 0, code |-> "InvalidTagNumber"]
      BY <1>8, <1>10, <2>1, ErrorIs DEF Codes
    <2>3. h.errors = <<>> /\ b.errors = <<>>  BY <1>6, <1>7, <1>10 DEF Since
    <2>4. \A f \in Schema(type) : f.required => Has(m, f.tag)
      BY <1>3, <1>4, <1>6, <1>10, <2>3 DEF Schema
    <2> QED  BY <1>8, <2>2, <2>4 DEF c, B
  <1>11. CASE ~ (t.errors = <<>> /\ ~ full(t.bits, Len(m)))
    <2>1. c = t  BY <1>2, <1>11
    <2>2. t.errors = <<>> => h.errors = <<>>  BY <1>7 DEF Since
    <2>4. ASSUME t.errors = <<>>
          PROVE  /\ t.severity = "Moderate" /\ full(t.bits, Len(m))
                 /\ \A d \in t.bits : Asked(m, d, B)
      <3>1. h.severity = "Moderate"  BY <1>3, <2>2, <2>4
      <3>2. Since(m, Fresh, t, B)  BY <1>9, <3>1
      <3> QED  BY <1>8, <1>11, <2>4, <3>1, <3>2 DEF Since
    <2>3. t.severity # "Fatal" /\ t.errors # <<>> =>
            /\ Head(t.errors).code = "RequiredTagMissing" => Head(t.errors).tag \in B
            /\ Head(t.errors).code # "InvalidTagNumber"
      BY <1>8, <1>9 DEF Since
    <2> QED  BY <1>3, <1>8, <2>1, <2>2, <2>3, <2>4 DEF c, B
  <1> QED  BY <1>10, <1>11

-----------------------------------------------------------------------------
(* The sequence number of a message that passed *)

OnlySeqNum(m, i) == \A j \in DOMAIN m : m[j].tag = 34 <=> j = i

ReadOrDropped(v) ==
    \/ Outcome = "handle" /\ v \in Digits /\ NumberOf[v] <= SeqNumMax
    \/ Outcome = "drop" /\ v \in Plus \cup Minus
    \/ Outcome = "drop" /\ NumberOf[v] > SeqNumMax

\* With all bits set, and bits only for the first field with a tag of the
\* message level, there is one MsgSeqNum.
LEMMA OneSeqNum ==
    ASSUME NEW m \in Seq(MsgFields), NEW type \in DOMAIN BodySchema, NEW set,
           full(set, Len(m)), \A b \in set : Asked(m, b, MayMiss(m, type)),
           NEW i \in DOMAIN m, m[i].tag = 34
    PROVE  OnlySeqNum(m, i)
  <1>1. DOMAIN m = 1..Len(m) /\ Len(m) \in Nat  OBVIOUS
  <1>2. 34 \notin MayMiss(m, type)
    <2>1. Has(m, 34)  BY DEF Has
    <2>2. PICK g \in Schema(type) : g.tag = 34  BY SchemaAssumption DEF Schema
    <2>3. \A f \in Schema(type) : 34 \notin FieldTags(f)  BY <2>2, SchemaAssumption
    <2> QED  BY <2>1, <2>3 DEF MayMiss
  <1>3. ASSUME NEW j \in DOMAIN m, m[j].tag = 34 PROVE j = At(m, 34)
    <2>1. j - 1 \in 0..(Len(m) - 1) /\ (j - 1) + 1 = j  BY <1>1
    <2>2. j - 1 \in set  BY <1>1, <2>1, FullIsAll
    <2>3. Asked(m, j - 1, MayMiss(m, type))  BY <2>2
    <2> QED  BY <1>2, <1>3, <2>1, <2>3 DEF Asked
  <1> QED  BY <1>3 DEF OnlySeqNum

-----------------------------------------------------------------------------
(* The invariant *)

\* What a call starts from.
Started ==
    /\ phase # "idle" => msg \in Messages
    /\ phase = "checking" => bits = {} /\ errors = <<>> /\ severity = "Moderate"

ValidatorInv == TypeOK /\ Started /\ FirstErrorTrue /\ PassedSeqNum

LEMMA InitValidator == Init => ValidatorInv
  BY ValidatorAssumption DEF Init, ValidatorInv, TypeOK, Started, FirstErrorTrue, PassedSeqNum

LEMMA BeginValidator ==
    ASSUME ValidatorInv, NEW m \in Messages, Begin(m)
    PROVE  ValidatorInv'
  <1>1. m \in Seq(MsgFields) /\ Len(m) \in Nat
    <2>1. m \in Seq(MsgFields)  BY ValidatorAssumption DEF MsgFields
    <2> QED  BY <2>1
  <1>2. /\ phase' = "checking" /\ msg' = m /\ words' = ensure_bits(Len(m)) /\ bits' = {}
        /\ errors' = <<>> /\ severity' = "Moderate"
    BY DEF Begin
  <1>3. words \in Nat  BY DEF ValidatorInv, TypeOK
  <1>4. words' \in Nat /\ Len(m) <= words' * WordBits
    <2> DEFINE k == Len(m) \div WordBits + 1
    <2>1. k \in Nat /\ Len(m) <= k * WordBits  BY <1>1, WordsCover
    <2>2. words' = IF words < k THEN k ELSE words  BY <1>2 DEF ensure_bits
    <2> HIDE DEF k
    <2>3. words' \in Nat /\ k <= words'  BY <1>3, <2>1, <2>2
    <2>4. k * WordBits \in Nat /\ words' * WordBits \in Nat /\ k * WordBits <= words' * WordBits
      BY <2>1, <2>3, MoreWords
    <2> QED  BY <1>1, <2>1, <2>3, <2>4
  <1> QED  BY <1>2, <1>4 DEF ValidatorInv, TypeOK, Started, FirstErrorTrue, PassedSeqNum

LEMMA FinishTypes ==
    ASSUME ValidatorInv, phase = "checking", NEW r \in Calls, r.bits \subseteq 0..(Len(msg) - 1),
           Finish(r)
    PROVE  TypeOK' /\ Started' /\ phase' = "done" /\ msg' = msg /\ errors' = r.errors
           /\ severity' = r.severity
  <1>1. /\ bits' = r.bits /\ errors' = r.errors /\ severity' = r.severity
        /\ phase' = "done" /\ words' = words /\ msg' = msg
    BY DEF Finish
  <1>2. words \in Nat /\ Len(msg) <= words * WordBits /\ msg \in Seq(MsgFields)
    BY ValidatorAssumption DEF ValidatorInv, TypeOK, Started, MsgFields
  <1>3. Len(msg) \in Nat /\ words * WordBits \in Nat  BY <1>2, MoreWords
  <1>4. 0..(Len(msg) - 1) \subseteq 0..(words * WordBits - 1)  BY <1>2, <1>3
  <1>5. r.severity \in {"Moderate", "Fatal"}  BY DEF Calls
  <1>6. bits' \subseteq 0..(words' * WordBits - 1)  BY <1>1, <1>4
  <1>7. TypeOK'  BY <1>1, <1>2, <1>5, <1>6 DEF TypeOK
  <1>8. Started'  BY <1>1 DEF ValidatorInv, Started
  <1> QED  BY <1>1, <1>7, <1>8

\* What dispatch does with a message without errors and with one MsgSeqNum.
LEMMA ReadOrDroppedIs ==
    ASSUME severity' = "Moderate", errors' = <<>>, msg' = msg, Has(msg, 35),
           NEW i \in DOMAIN msg, OnlySeqNum(msg, i), is_int_type(msg[i].value)
    PROVE  ReadOrDropped(msg[i].value)'
  <1> DEFINE v == msg[i].value
  <1>1. has_msg_seq_num(msg) <=> parse_seq_num(v)  BY DEF has_msg_seq_num, OnlySeqNum
  <1>2. Outcome' = IF parse_seq_num(v) THEN "handle" ELSE "drop"
    <2>1. has_msg_seq_num(msg)' <=> has_msg_seq_num(msg)  BY DEF has_msg_seq_num
    <2>2. Has(msg, 35)' <=> Has(msg, 35)  BY DEF Has
    <2> QED  BY <1>1, <2>1, <2>2 DEF Outcome
  <1>3. v' = v  OBVIOUS
  <1> HIDE DEF v
  <1>4. v \in Digits \cup Plus \cup Minus /\ NumberOf[v] \in Int /\ SeqNumMax \in Nat
    BY ValidatorAssumption DEF is_int_type, v
  <1>5. parse_seq_num(v) \/ v \in Plus \cup Minus \/ NumberOf[v] > SeqNumMax
    BY <1>4 DEF parse_seq_num
  <1> QED  BY <1>2, <1>3, <1>5 DEF ReadOrDropped, parse_seq_num, v

LEMMA CheckValidator ==
    ASSUME ValidatorInv, validate_message
    PROVE  ValidatorInv'
  <1> DEFINE ty == Slot(msg, 35)
  <1>1. /\ phase = "checking" /\ msg \in Seq(MsgFields) /\ bits = {} /\ errors = <<>>
        /\ severity = "Moderate"
    BY ValidatorAssumption DEF validate_message, ValidatorInv, Started, MsgFields
  <1>2. /\ Fresh \in Calls /\ Fresh.errors = <<>> /\ Fresh.bits = {} /\ Fresh.severity = "Moderate"
    <2>1. <<>> \in Seq([tag : Nat, code : Codes])  OBVIOUS
    <2> QED  BY <1>1, <2>1 DEF Fresh, Calls
  <1> HIDE DEF ty
  <1>3. ASSUME NEW tag \in Nat, NEW code \in {"RequiredTagMissing", "InvalidMsgType"},
               Finish(Error(Fresh, tag, code)), code = "RequiredTagMissing" => ~ Has(msg, 35)
        PROVE  ValidatorInv'
    <2> DEFINE e == Error(Fresh, tag, code)
    <2>1. /\ e \in Calls /\ e.bits = {} /\ e.errors # <<>> /\ e.severity = "Moderate"
          /\ Head(e.errors) = [tag |-> tag, code |-> code]
      <3>1. code \in Codes  BY DEF Codes, FieldCodes
      <3> QED  BY <1>2, <3>1, ErrorIs
    <2> HIDE DEF e
    <2>2. /\ TypeOK' /\ Started' /\ phase' = "done" /\ msg' = msg /\ errors' = e.errors
          /\ severity' = e.severity
      BY <1>1, <1>3, <2>1, FinishTypes DEF e
    <2>3. FirstErrorTrue'  BY <1>3, <2>1, <2>2 DEF FirstErrorTrue
    <2>4. PassedSeqNum'  BY <2>1, <2>2 DEF PassedSeqNum, Outcome
    <2> QED  BY <2>2, <2>3, <2>4 DEF ValidatorInv
  <1>4. CASE NoType  BY <1>3, <1>4 DEF NoType
  <1>5. CASE UnknownType  BY <1>3, <1>5 DEF UnknownType
  <1>6. CASE KnownType
    <2> DEFINE c == Checked(msg, ty)
    <2>1. Has(msg, 35) /\ registered(ty) /\ Finish(c)  BY <1>6 DEF KnownType, ty
    <2>2. ty \in DOMAIN BodySchema
      <3> DEFINE N == Len(SortedTypes)
                 L == LowerBound(ty)
      <3>1. N \in Nat  BY ValidatorAssumption
      <3>2. L \in 0..N  BY LowerBoundIs DEF Ends
      <3>3. L < N /\ SortedTypes[L + 1] = ty  BY <2>1 DEF registered
      <3> HIDE DEF L
      <3>4. L + 1 \in 1..N  BY <3>1, <3>2, <3>3
      <3> QED  BY <3>3, <3>4, ValidatorAssumption
    <2>3. /\ c \in Calls /\ c.bits \subseteq 0..(Len(msg) - 1)
          /\ c.errors = <<>> => /\ c.severity = "Moderate" /\ full(c.bits, Len(msg))
                                /\ \A b \in c.bits : Asked(msg, b, MayMiss(msg, ty))
                                /\ Has(msg, 34) /\ validate_type_(Slot(msg, 34), "INT")
          /\ c.severity # "Fatal" /\ c.errors # <<>> =>
               /\ Head(c.errors).code = "RequiredTagMissing" => Head(c.errors).tag \in MayMiss(msg, ty)
               /\ Head(c.errors).code = "InvalidTagNumber" =>
                    \A f \in Schema(ty) : f.required => Has(msg, f.tag)
      BY <1>1, <1>2, <2>2, CheckedIs
    <2> HIDE DEF c
    <2>4. /\ TypeOK' /\ Started' /\ phase' = "done" /\ msg' = msg /\ errors' = c.errors
          /\ severity' = c.severity
      BY <1>1, <2>1, <2>3, FinishTypes
    <2>5. FirstErrorTrue'
      <3> DEFINE e == Head(c.errors)
      <3>1. ASSUME c.errors # <<>>, c.severity # "Fatal", e.code = "RequiredTagMissing",
                   NEW f \in Schema(ty), f.tag = e.tag
            PROVE  ~ Has(msg, e.tag)
        <4>1. e.tag \in MayMiss(msg, ty)  BY <2>3, <3>1
        <4>2. \A g \in Schema(ty) : f.tag \notin FieldTags(g)  BY <2>2, SchemaAssumption
        <4> QED  BY <3>1, <4>1, <4>2 DEF MayMiss
      <3> HIDE DEF e
      <3>2. errors' # <<>> /\ severity' # "Fatal" =>
              /\ e.code = "RequiredTagMissing" /\ (\E f \in Schema(ty) : f.tag = e.tag)
                   => ~ Has(msg, e.tag)
              /\ e.code = "InvalidTagNumber" => \A f \in Schema(ty) : f.required => Has(msg, f.tag)
        BY <2>3, <2>4, <3>1 DEF e
      <3> QED  BY <2>4, <3>2 DEF FirstErrorTrue, e, ty
    <2>6. PassedSeqNum'
      <3> SUFFICES ASSUME c.errors = <<>>
                   PROVE  \E i \in DOMAIN msg : OnlySeqNum(msg, i) /\ ReadOrDropped(msg[i].value)'
        BY <2>4 DEF PassedSeqNum, OnlySeqNum, ReadOrDropped
      <3>1. /\ severity' = "Moderate" /\ errors' = <<>> /\ Has(msg, 34)
            /\ validate_type_(Slot(msg, 34), "INT")
        BY <2>3, <2>4
      <3>2. PICK i \in DOMAIN msg : msg[i].tag = 34 /\ Slot(msg, 34) = msg[i].value
        BY <1>1, <3>1, LastAt
      <3>3. OnlySeqNum(msg, i)  BY <1>1, <2>2, <2>3, <3>2, OneSeqNum
      <3>4. is_int_type(msg[i].value)  BY <3>1, <3>2 DEF validate_type_
      <3>5. ReadOrDropped(msg[i].value)'  BY <2>1, <2>4, <3>1, <3>3, <3>4, ReadOrDroppedIs
      <3> QED  BY <2>4, <3>3, <3>5
    <2> QED  BY <2>4, <2>5, <2>6 DEF ValidatorInv
  <1> QED  BY <1>4, <1>5, <1>6 DEF validate_message

LEMMA NextValidator == ValidatorInv /\ [Next]_vars => ValidatorInv'
  <1> SUFFICES ASSUME ValidatorInv, [Next]_vars PROVE ValidatorInv'  OBVIOUS
  <1>1. ASSUME NEW m \in Messages, Begin(m) PROVE ValidatorInv'  BY <1>1, BeginValidator
  <1>2. CASE validate_message  BY <1>2, CheckValidator
  <1>3. CASE dispatch
    BY <1>3 DEF dispatch, ValidatorInv, TypeOK, Started, FirstErrorTrue, PassedSeqNum
  <1>4. CASE UNCHANGED vars
    <2>1. /\ words' = words /\ bits' = bits /\ errors' = errors /\ severity' = severity
          /\ msg' = msg /\ phase' = phase
      BY <1>4 DEF vars
    <2> QED  BY <2>1 DEF ValidatorInv, TypeOK, Started, FirstErrorTrue, PassedSeqNum, Outcome
  <1> QED  BY <1>1, <1>2, <1>3, <1>4 DEF Next

\* validate_message, whatever was validated before: the words of TagScratch
\* suffice for the message, its first error is true of it, and a message that
\* passed has one number, and is handled exactly if from_chars takes it.
THEOREM ValidatorInvariance == Spec => []ValidatorInv
  <1>1. ValidatorInv /\ [Next]_vars => ValidatorInv'  BY NextValidator
  <1> QED  BY <1>1, InitValidator, PTL DEF Spec

\* ensure_bits: for a message of any length, TagScratch::set and full stay
\* inside the words it has.
THEOREM TypeCorrect == Spec => []TypeOK
  BY ValidatorInvariance, PTL DEF ValidatorInv

\* validate_message, for any schemas, registry and sequence of messages: the
\* error that goes into the Reject is true of the message.
THEOREM FirstErrorIsTrue == Spec => []FirstErrorTrue
  BY ValidatorInvariance, PTL DEF ValidatorInv

\* make_valid_message_view and dispatch, for a message of any length, any
\* schemas and any limits of the types: a message that passed has one
\* MsgSeqNum, and it is dropped only if that has a sign or is too large.
THEOREM PassedSeqNumRead == Spec => []PassedSeqNum
  BY ValidatorInvariance, PTL DEF ValidatorInv
=============================================================================
