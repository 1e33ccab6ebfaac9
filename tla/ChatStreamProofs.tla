---------------------------- MODULE ChatStreamProofs ----------------------------
(***************************************************************************)
(* Proofs about ChatStream, for every length of the answer, of the         *)
(* channels and of the timeouts, and any number of continued rounds.       *)
(***************************************************************************)
EXTENDS ChatStream, SequenceTheorems, WellFoundedInduction, TLAPS

-----------------------------------------------------------------------------
\* Sequences that follow each other

\* A nonempty set of numbers has a least one.
LEMMA LeastNumber ==
    ASSUME NEW T \in SUBSET Nat, T # {}
    PROVE  \E n \in T : \A m \in T : ~(m < n)
  <1>1. IsWellFoundedOn(OpToRel(<, Nat), Nat)
    BY NatLessThanWellFounded
  <1>2. PICK n \in T : \A m \in T : ~(<<m, n>> \in OpToRel(<, Nat))
    BY <1>1, WFMin
  <1>3. ASSUME NEW m \in T, m < n PROVE <<m, n>> \in OpToRel(<, Nat)
    BY <1>3 DEF OpToRel
  <1>. QED BY <1>2, <1>3

\* g holds, up to n, what the sequences of w have in common when one follows
\* the other.
Joins(w, n, g) ==
    g = [k \in 1..n |-> IF k = 1 THEN w[k] ELSE g[k - 1] \o w[k]]

LEMMA JoinsExist ==
    ASSUME NEW w, NEW n \in Nat
    PROVE  \E g : Joins(w, n, g)
  <1>. DEFINE Bad == {m \in Nat : ~ \E g : Joins(w, m, g)}
  <1>1. ASSUME NEW m \in Nat, \A k \in Bad : ~(k < m) PROVE \E g : Joins(w, m, g)
    <2>1. CASE m = 0
      <3>1. Joins(w, m, [k \in 1..0 |-> w])
        BY <2>1 DEF Joins
      <3>. QED BY <3>1
    <2>2. CASE m > 0
      <3>1. m - 1 \in Nat /\ m - 1 \notin Bad
        BY <1>1, <2>2
      <3>2. PICK h : Joins(w, m - 1, h)
        BY <3>1
      <3>. DEFINE g == [k \in 1..m |-> IF k = 1 THEN w[k] ELSE h[k - 1] \o w[k]]
      <3>3. ASSUME NEW k \in 1..(m - 1) PROVE g[k] = h[k]
        <4>1. h[k] = IF k = 1 THEN w[k] ELSE h[k - 1] \o w[k]
          BY <3>2 DEF Joins
        <4>2. k \in 1..m
          BY <3>1
        <4>. QED BY <4>1, <4>2
      <3>4. \A k \in 1..m : k # 1 => g[k - 1] = h[k - 1]
        <4>. HIDE DEF g
        <4>1. \A k \in 1..m : k # 1 => k - 1 \in 1..(m - 1)
          BY <3>1
        <4>. QED BY <3>3, <4>1
      <3>5. g = [k \in 1..m |-> IF k = 1 THEN w[k] ELSE g[k - 1] \o w[k]]
        BY <3>4
      <3>6. Joins(w, m, g)
        BY <3>5 DEF Joins
      <3>. QED BY <3>6
    <2>. QED BY <2>1, <2>2
  <1>. HIDE DEF Bad
  <1>2. Bad = {}
    <2>. SUFFICES ASSUME Bad # {} PROVE FALSE
      OBVIOUS
    <2>1. Bad \in SUBSET Nat
      BY DEF Bad
    <2>2. PICK m \in Bad : \A k \in Bad : ~(k < m)
      BY <2>1, LeastNumber
    <2>3. \E g : Joins(w, m, g)
      BY <1>1, <2>1, <2>2
    <2>. QED BY <2>2, <2>3 DEF Bad
  <1>. QED BY <1>2 DEF Bad

LEMMA FlattenIsJoin ==
    ASSUME NEW S, NEW w \in Seq(Seq(S)), w # <<>>
    PROVE  \E g : Joins(w, Len(w), g) /\ FlattenSeq(w) = g[Len(w)]
  <1>1. Len(w) \in Nat /\ Len(w) # 0
    BY EmptySeq, LenProperties
  <1>2. PICK h : Joins(w, Len(w), h)
    BY <1>1, JoinsExist
  <1>. QED BY <1>1, <1>2 DEF FlattenSeq, Joins

LEMMA ConcatInSeq ==
    ASSUME NEW S, NEW a \in Seq(S), NEW b \in Seq(S)
    PROVE  a \o b \in Seq(S)
  BY ConcatProperties

Regrouped(a, b, c) == (a \o b) \o c = a \o (b \o c)

LEMMA ConcatRegroups ==
    ASSUME NEW S, NEW a \in Seq(S), NEW b \in Seq(S), NEW c \in Seq(S)
    PROVE  Regrouped(a, b, c)
  BY ConcatAssociative DEF Regrouped

LEMMA AppendGrows ==
    ASSUME NEW S, NEW s \in Seq(S), NEW e \in S
    PROVE  Append(s, e) \in Seq(S) /\ Len(Append(s, e)) = Len(s) + 1
  BY AppendProperties

\* What the sequences that follow the others are, all of them.
LEMMA JoinLaws ==
    ASSUME NEW S, NEW w \in Seq(Seq(S)), NEW g, Joins(w, Len(w), g)
    PROVE  \A k \in 1..Len(w) :
               /\ g[k] \in Seq(S)
               /\ g[k] = IF k = 1 THEN w[k] ELSE g[k - 1] \o w[k]
  <1>. DEFINE Bad == {k \in 1..Len(w) : g[k] \notin Seq(S)}
  <1>1. Len(w) \in Nat /\ \A k \in 1..Len(w) : w[k] \in Seq(S)
    BY LenProperties, ElementOfSeq
  <1>2. \A k \in 1..Len(w) : g[k] = IF k = 1 THEN w[k] ELSE g[k - 1] \o w[k]
    BY DEF Joins
  <1>3. Bad \in SUBSET Nat
    BY <1>1
  <1>4. ASSUME NEW k \in Bad, \A j \in Bad : ~(j < k) PROVE FALSE
    <2>1. k \in 1..Len(w) /\ g[k] \notin Seq(S)
      OBVIOUS
    <2>2. k # 1
      BY <1>1, <1>2, <2>1
    <2>3. k - 1 \in 1..Len(w) /\ k - 1 \notin Bad
      BY <1>1, <1>4, <2>1, <2>2
    <2>4. g[k - 1] \in Seq(S)
      BY <2>3
    <2>5. g[k] = g[k - 1] \o w[k]
      BY <1>2, <2>1, <2>2
    <2>6. w[k] \in Seq(S)
      BY <1>1, <2>1
    <2>7. g[k - 1] \o w[k] \in Seq(S)
      BY <2>4, <2>6, ConcatInSeq
    <2>. QED BY <2>1, <2>5, <2>7
  <1>. HIDE DEF Bad
  <1>5. Bad = {}
    BY <1>3, <1>4, LeastNumber
  <1>. QED BY <1>2, <1>5 DEF Bad

LEMMA FlattenType ==
    ASSUME NEW S, NEW w \in Seq(Seq(S))
    PROVE  FlattenSeq(w) \in Seq(S)
  <1>1. CASE w = <<>>
    <2>1. FlattenSeq(w) = w
      BY <1>1 DEF FlattenSeq
    <2>. QED BY <1>1, <2>1, EmptySeq
  <1>2. CASE w # <<>>
    <2>1. PICK g : Joins(w, Len(w), g) /\ FlattenSeq(w) = g[Len(w)]
      BY <1>2, FlattenIsJoin
    <2>2. Len(w) \in 1..Len(w)
      BY <1>2, EmptySeq, LenProperties
    <2>3. Joins(w, Len(w), g)
      BY <2>1
    <2>4. \A k \in 1..Len(w) : g[k] \in Seq(S)
      BY <2>3, JoinLaws
    <2>. QED BY <2>1, <2>2, <2>4
  <1>. QED BY <1>1, <1>2

\* A sequence appended comes last.
LEMMA FlattenAppend ==
    ASSUME NEW S, NEW w \in Seq(Seq(S)), NEW e \in Seq(S)
    PROVE  FlattenSeq(Append(w, e)) = FlattenSeq(w) \o e
  <1>. DEFINE v == Append(w, e)
  <1>1. /\ v \in Seq(Seq(S)) /\ Len(v) = Len(w) + 1 /\ v # <<>> /\ v[Len(w) + 1] = e
        /\ Len(w) \in Nat /\ \A k \in 1..Len(w) : v[k] = w[k]
    BY AppendProperties, LenProperties
  <1>. HIDE DEF v
  <1>2. PICK g : Joins(v, Len(v), g) /\ FlattenSeq(v) = g[Len(v)]
    BY <1>1, FlattenIsJoin
  <1>3. \A k \in 1..Len(v) :
               /\ g[k] \in Seq(S)
               /\ g[k] = IF k = 1 THEN v[k] ELSE g[k - 1] \o v[k]
    <2>1. v \in Seq(Seq(S)) /\ Joins(v, Len(v), g)
      BY <1>1, <1>2
    <2>2. \A x \in Seq(Seq(S)) : \A h : Joins(x, Len(x), h) =>
             \A k \in 1..Len(x) : /\ h[k] \in Seq(S)
                                 /\ h[k] = IF k = 1 THEN x[k] ELSE h[k - 1] \o x[k]
      BY JoinLaws
    <2>. QED BY <2>1, <2>2
  <1>4. CASE w = <<>>
    <2>1. FlattenSeq(w) = <<>> /\ Len(w) = 0
      BY <1>4 DEF FlattenSeq
    <2>2. <<>> \o e = e
      BY ConcatEmptySeq
    <2>3. 1 \in 1..Len(v) /\ Len(v) = 1
      BY <1>1, <2>1
    <2>4. g[1] = v[1] /\ v[1] = e
      BY <1>1, <1>3, <2>1, <2>3
    <2>. QED BY <1>1, <1>2, <2>1, <2>2, <2>3, <2>4 DEF v
  <1>5. CASE w # <<>>
    <2>1. PICK h : Joins(w, Len(w), h) /\ FlattenSeq(w) = h[Len(w)]
      BY <1>5, FlattenIsJoin
    <2>2. \A k \in 1..Len(w) : h[k] = IF k = 1 THEN w[k] ELSE h[k - 1] \o w[k]
      BY <2>1, JoinLaws
    <2>. DEFINE Bad == {k \in 1..Len(w) : g[k] # h[k]}
    <2>3. Bad \in SUBSET Nat
      BY <1>1
    <2>4. ASSUME NEW k \in Bad, \A j \in Bad : ~(j < k) PROVE FALSE
      <3>1. k \in 1..Len(w) /\ k \in 1..Len(v) /\ g[k] # h[k]
        BY <1>1
      <3>2. v[k] = w[k]
        BY <1>1, <3>1
      <3>3. CASE k = 1
        BY <1>3, <2>2, <3>1, <3>2, <3>3
      <3>4. CASE k # 1
        <4>1. k - 1 \in 1..Len(w) /\ k - 1 \notin Bad
          BY <1>1, <2>4, <3>1, <3>4
        <4>2. g[k - 1] = h[k - 1]
          BY <4>1
        <4>. QED BY <1>3, <2>2, <3>1, <3>2, <3>4, <4>2
      <3>. QED BY <3>3, <3>4
    <2>. HIDE DEF Bad
    <2>5. Bad = {}
      BY <2>3, <2>4, LeastNumber
    <2>6. Len(w) \in 1..Len(w) /\ Len(w) + 1 \in 1..Len(v) /\ Len(w) + 1 # 1
      BY <1>1, <1>5, EmptySeq
    <2>7. g[Len(w)] = h[Len(w)]
      BY <2>5, <2>6 DEF Bad
    <2>8. g[Len(w) + 1] = g[(Len(w) + 1) - 1] \o v[Len(w) + 1]
      BY <1>3, <2>6
    <2>9. (Len(w) + 1) - 1 = Len(w)
      BY <1>1
    <2>. QED BY <1>1, <1>2, <2>1, <2>7, <2>8, <2>9 DEF v
  <1>. QED BY <1>4, <1>5

\* So do several.
LEMMA FlattenConcat ==
    ASSUME NEW S, NEW w \in Seq(Seq(S)), NEW v \in Seq(Seq(S))
    PROVE  FlattenSeq(w \o v) = FlattenSeq(w) \o FlattenSeq(v)
  <1>. DEFINE Good(n) == \A u \in Seq(Seq(S)) : Len(u) = n =>
                           FlattenSeq(w \o u) = FlattenSeq(w) \o FlattenSeq(u)
              Bad == {n \in Nat : ~Good(n)}
  <1>1. ASSUME NEW n \in Nat, \A m \in Bad : ~(m < n), NEW u \in Seq(Seq(S)), Len(u) = n
        PROVE  FlattenSeq(w \o u) = FlattenSeq(w) \o FlattenSeq(u)
    <2>1. CASE u = <<>>
      <3>1. w \o u = w /\ FlattenSeq(u) = <<>>
        BY <2>1, ConcatEmptySeq DEF FlattenSeq
      <3>2. FlattenSeq(w) \o <<>> = FlattenSeq(w)
        BY FlattenType, ConcatEmptySeq
      <3>. QED BY <3>1, <3>2
    <2>2. CASE u # <<>>
      <3>1. PICK t \in Seq(Seq(S)), e \in Seq(S) : u = Append(t, e)
        BY <2>2, SequenceEmptyOrAppend
      <3>2. Len(t) \in Nat /\ Len(u) = Len(t) + 1 /\ u = t \o <<e>> /\ <<e>> \in Seq(Seq(S))
        BY <3>1, AppendProperties, AppendIsConcat, LenProperties
      <3>3. Len(t) \in Nat /\ Len(t) < n
        BY <1>1, <3>2
      <3>4. FlattenSeq(w \o t) = FlattenSeq(w) \o FlattenSeq(t)
        <4>1. Len(t) \notin Bad
          BY <1>1, <3>3
        <4>2. Good(Len(t))
          BY <3>3, <4>1
        <4>. QED BY <3>1, <4>2
      <3>5. w \o u = (w \o t) \o <<e>> /\ w \o t \in Seq(Seq(S))
        BY <3>1, <3>2, ConcatAssociative, ConcatProperties
      <3>6. w \o u = Append(w \o t, e)
        BY <3>1, <3>5, AppendIsConcat
      <3>7. FlattenSeq(w \o u) = FlattenSeq(w \o t) \o e
        BY <3>1, <3>5, <3>6, FlattenAppend
      <3>8. FlattenSeq(u) = FlattenSeq(t) \o e
        BY <3>1, FlattenAppend
      <3>9. FlattenSeq(w) \in Seq(S) /\ FlattenSeq(t) \in Seq(S)
        BY <3>1, FlattenType
      <3>10. (FlattenSeq(w) \o FlattenSeq(t)) \o e = FlattenSeq(w) \o (FlattenSeq(t) \o e)
        <4>1. PICK a \in Seq(S) : a = FlattenSeq(w)
          BY <3>9
        <4>2. PICK b \in Seq(S) : b = FlattenSeq(t)
          BY <3>9
        <4>3. Regrouped(a, b, e)
          BY ConcatRegroups
        <4>. QED BY <4>1, <4>2, <4>3 DEF Regrouped
      <3>. QED BY <3>4, <3>7, <3>8, <3>10
    <2>. QED BY <2>1, <2>2
  <1>2. ASSUME NEW n \in Bad, \A m \in Bad : ~(m < n) PROVE FALSE
    BY <1>1, <1>2
  <1>3. Bad \in SUBSET Nat
    OBVIOUS
  <1>4. Len(v) \in Nat /\ (Len(v) \notin Bad => Good(Len(v)))
    BY LenProperties
  <1>. HIDE DEF Bad
  <1>5. Bad = {}
    BY <1>2, <1>3, LeastNumber
  <1>. QED BY <1>4, <1>5

-----------------------------------------------------------------------------
\* The text of lines

Text == 1..MaxLines
Quiet(s) == \A k \in DOMAIN s : s[k].kind # "text"

LEMMA LineKinds ==
    ASSUME NEW line \in Line
    PROVE  /\ line.kind = "text" => line.n \in Text
           /\ Visible(line) \in Seq(Text)
           /\ line.kind # "text" => Visible(line) = <<>>
  <1>1. line.kind = "text" => line.n \in Text
    BY DEF Line, Signals, Text
  <1>2. CASE line.kind = "text"
    <2>1. Visible(line) = <<line.n>>
      BY <1>2 DEF Visible
    <2>. QED BY <1>1, <1>2, <2>1
  <1>3. CASE line.kind # "text"
    <2>1. Visible(line) = <<>>
      BY <1>3 DEF Visible
    <2>. QED BY <1>3, <2>1, EmptySeq
  <1>. QED BY <1>1, <1>2, <1>3

LEMMA VisibleSeq ==
    ASSUME NEW s \in Seq(Line)
    PROVE  /\ [j \in DOMAIN s |-> Visible(s[j])] \in Seq(Seq(Text))
           /\ Len([j \in DOMAIN s |-> Visible(s[j])]) = Len(s)
  <1>1. Len(s) \in Nat /\ DOMAIN s = 1..Len(s)
    BY LenProperties
  <1>2. \A j \in 1..Len(s) : Visible(s[j]) \in Seq(Text)
    BY ElementOfSeq, LineKinds
  <1>. DEFINE v == [j \in 1..Len(s) |-> Visible(s[j])]
  <1>3. v \in Seq(Seq(Text)) /\ DOMAIN v = 1..Len(s)
    BY <1>1, <1>2, IsASeq
  <1>. HIDE DEF v
  <1>4. Len(v) = Len(s)
    BY <1>1, <1>3, LenProperties
  <1>. QED BY <1>1, <1>3, <1>4 DEF v

LEMMA TextType ==
    ASSUME NEW s \in Seq(Line)
    PROVE  TextOf(s) \in Seq(Text)
  BY VisibleSeq, FlattenType DEF TextOf

LEMMA TextConcat ==
    ASSUME NEW s \in Seq(Line), NEW t \in Seq(Line)
    PROVE  TextOf(s \o t) = TextOf(s) \o TextOf(t)
  <1>. DEFINE v(x) == [j \in DOMAIN x |-> Visible(x[j])]
  <1>1. s \o t \in Seq(Line)
    BY ConcatProperties
  <1>2. PICK a \in Seq(Seq(Text)) : a = v(s) /\ Len(a) = Len(s)
    BY VisibleSeq
  <1>3. PICK b \in Seq(Seq(Text)) : b = v(t) /\ Len(b) = Len(t)
    BY VisibleSeq
  <1>4. PICK c \in Seq(Seq(Text)) : c = v(s \o t) /\ Len(c) = Len(s \o t)
    BY <1>1, VisibleSeq
  <1>5. /\ Len(s) \in Nat /\ DOMAIN s = 1..Len(s) /\ Len(t) \in Nat /\ DOMAIN t = 1..Len(t)
        /\ Len(s \o t) = Len(s) + Len(t) /\ DOMAIN (s \o t) = 1..(Len(s) + Len(t))
        /\ \A k \in 1..(Len(s) + Len(t)) :
              (s \o t)[k] = IF k <= Len(s) THEN s[k] ELSE t[k - Len(s)]
    BY <1>1, LenProperties, ConcatProperties
  <1>6. /\ \A k \in 1..Len(s) : a[k] = Visible(s[k])
        /\ \A k \in 1..Len(t) : b[k] = Visible(t[k])
        /\ \A k \in 1..(Len(s) + Len(t)) : c[k] = Visible((s \o t)[k])
    BY <1>2, <1>3, <1>4, <1>5
  <1>7. /\ a \o b \in Seq(Seq(Text)) /\ Len(a \o b) = Len(s) + Len(t)
        /\ \A k \in 1..(Len(s) + Len(t)) : (a \o b)[k] = IF k <= Len(s) THEN a[k] ELSE b[k - Len(s)]
    <2>. HIDE DEF v
    <2>1. /\ a \o b \in Seq(Seq(Text)) /\ Len(a \o b) = Len(a) + Len(b)
          /\ \A k \in 1..(Len(a) + Len(b)) : (a \o b)[k] = IF k <= Len(a) THEN a[k] ELSE b[k - Len(a)]
      BY ConcatProperties
    <2>. QED BY <1>2, <1>3, <2>1
  <1>8. ASSUME NEW k \in 1..(Len(s) + Len(t)) PROVE c[k] = (a \o b)[k]
    <2>1. CASE k <= Len(s)
      <3>1. k \in 1..Len(s)
        BY <1>5, <2>1
      <3>. QED BY <1>5, <1>6, <1>7, <2>1, <3>1
    <2>2. CASE ~(k <= Len(s))
      <3>1. k - Len(s) \in 1..Len(t)
        BY <1>5, <2>2
      <3>. QED BY <1>5, <1>6, <1>7, <2>2, <3>1
    <2>. QED BY <2>1, <2>2
  <1>9. c = a \o b
    BY <1>4, <1>5, <1>7, <1>8, SeqEqual
  <1>10. FlattenSeq(c) = FlattenSeq(a) \o FlattenSeq(b)
    BY <1>9, FlattenConcat
  <1>. QED BY <1>2, <1>3, <1>4, <1>10 DEF TextOf

LEMMA TextQuiet ==
    ASSUME NEW s \in Seq(Line), Quiet(s)
    PROVE  TextOf(s) = <<>>
  <1>1. Len(s) \in Nat /\ DOMAIN s = 1..Len(s)
    BY LenProperties
  <1>2. \A j \in 1..Len(s) : Visible(s[j]) = <<>>
    BY <1>1, ElementOfSeq, LineKinds DEF Quiet
  <1>3. <<>> \in Seq({})
    BY EmptySeq
  <1>4. \A j \in 1..Len(s) : Visible(s[j]) \in Seq({})
    BY <1>2, <1>3
  <1>5. [j \in 1..Len(s) |-> Visible(s[j])] \in Seq(Seq({}))
    BY <1>1, <1>4, IsASeq
  <1>6. PICK t \in Seq({}) : t = TextOf(s)
    BY <1>1, <1>5, FlattenType DEF TextOf
  <1>7. t = <<>>
    <2>1. Len(t) \in Nat /\ \A k \in 1..Len(t) : t[k] \in {}
      BY LenProperties, ElementOfSeq
    <2>2. Len(t) = 0
      BY <2>1
    <2>. QED BY <2>2, EmptySeq
  <1>. QED BY <1>6, <1>7

LEMMA TextOne ==
    ASSUME NEW line \in Line
    PROVE  <<line>> \in Seq(Line) /\ TextOf(<<line>>) = Visible(line)
  <1>1. TextOf(<<line>>) = FlattenSeq(<<Visible(line)>>)
    <2>1. [j \in DOMAIN <<line>> |-> Visible(<<line>>[j])] = <<Visible(line)>>
      OBVIOUS
    <2>. QED BY <2>1 DEF TextOf
  <1>2. PICK e \in Seq(Text) : e = Visible(line)
    BY LineKinds
  <1>3. <<>> \in Seq(Seq(Text)) /\ <<e>> = Append(<<>>, e) /\ FlattenSeq(<<>>) = <<>>
    BY EmptySeq DEF FlattenSeq
  <1>4. FlattenSeq(Append(<<>>, e)) = <<>> \o e
    BY <1>3, FlattenAppend
  <1>. QED BY <1>1, <1>2, <1>3, <1>4, ConcatEmptySeq

-----------------------------------------------------------------------------
\* What is on its way to the client, in the order in which it will get there

PipeOf(o, s, p, l) == FlattenSeq(o) \o FlattenSeq(s) \o p \o l

LEMMA LineAssociative ==
    ASSUME NEW a \in Seq(Line), NEW b \in Seq(Line), NEW c \in Seq(Line)
    PROVE  (a \o b) \o c = a \o (b \o c)
  BY ConcatAssociative

FirstApart(a, b, c, d) == ((a \o b) \o c) \o d = a \o ((b \o c) \o d)

LEMMA LineAssociative4 ==
    ASSUME NEW a \in Seq(Line), NEW b \in Seq(Line), NEW c \in Seq(Line), NEW d \in Seq(Line)
    PROVE  FirstApart(a, b, c, d)
  <1>1. PICK e \in Seq(Line) : e = b \o c
    BY ConcatProperties
  <1>2. (a \o b) \o c = a \o (b \o c)
    BY LineAssociative
  <1>3. (a \o e) \o d = a \o (e \o d)
    BY LineAssociative
  <1>. QED BY <1>1, <1>2, <1>3 DEF FirstApart

LEMMA LineEmpty ==
    ASSUME NEW a \in Seq(Line)
    PROVE  a \o <<>> = a /\ <<>> \o a = a
  BY ConcatEmptySeq

\* One result on its own.
LEMMA FlattenOne ==
    ASSUME NEW h \in Seq(Line)
    PROVE  <<h>> \in Seq(Seq(Line)) /\ FlattenSeq(<<h>>) = h
  <1>1. <<>> \in Seq(Seq(Line)) /\ <<h>> = Append(<<>>, h) /\ FlattenSeq(<<>>) = <<>>
    BY EmptySeq DEF FlattenSeq
  <1>2. FlattenSeq(Append(<<>>, h)) = <<>> \o h
    BY <1>1, FlattenAppend
  <1>3. Append(<<>>, h) \in Seq(Seq(Line))
    BY <1>1, AppendProperties
  <1>. QED BY <1>1, <1>2, <1>3, LineEmpty

LEMMA PipeType ==
    ASSUME NEW o \in Seq(Seq(Line)), NEW s \in Seq(Seq(Line)), NEW p \in Seq(Line), NEW l \in Seq(Line)
    PROVE  PipeOf(o, s, p, l) \in Seq(Line)
  BY FlattenType, ConcatProperties DEF PipeOf

\* A line that enters at the far end is appended.
LEMMA PipeAppend ==
    ASSUME NEW o \in Seq(Seq(Line)), NEW s \in Seq(Seq(Line)), NEW p \in Seq(Line), NEW l \in Seq(Line),
           NEW m \in Seq(Line)
    PROVE  PipeOf(o, s, p, l \o m) = PipeOf(o, s, p, l) \o m
  <1>1. PICK a \in Seq(Line) : a = FlattenSeq(o) \o FlattenSeq(s) \o p
    BY FlattenType, ConcatProperties
  <1>2. a \o (l \o m) = (a \o l) \o m
    BY LineAssociative
  <1>. QED BY <1>1, <1>2 DEF PipeOf

\* What is still in the lines comes last.
LEMMA PipeLines ==
    ASSUME NEW o \in Seq(Seq(Line)), NEW s \in Seq(Seq(Line)), NEW p \in Seq(Line), NEW l \in Seq(Line)
    PROVE  PipeOf(o, s, p, l) = PipeOf(o, s, p, <<>>) \o l
  <1>1. PICK a \in Seq(Line) : a = FlattenSeq(o) \o FlattenSeq(s) \o p
    BY FlattenType, ConcatProperties
  <1>2. a \o <<>> = a
    BY LineEmpty
  <1>. QED BY <1>1, <1>2 DEF PipeOf

\* From the lines to what is pending, nothing moves.
LEMMA PipePending ==
    ASSUME NEW o \in Seq(Seq(Line)), NEW p \in Seq(Line), NEW l \in Seq(Line), NEW h \in Line
    PROVE  PipeOf(o, <<>>, Append(p, h), l) = PipeOf(o, <<>>, p, <<h>> \o l)
  <1>1. PICK a \in Seq(Line) : a = FlattenSeq(o) \o FlattenSeq(<<>>)
    BY FlattenType, ConcatProperties, EmptySeq
  <1>2. PICK e \in Seq(Line) : e = <<h>>
    BY TextOne
  <1>3. (a \o (p \o e)) \o l = ((a \o p) \o e) \o l
    BY LineAssociative
  <1>4. PICK b \in Seq(Line) : b = a \o p
    BY ConcatProperties
  <1>5. (b \o e) \o l = b \o (e \o l)
    BY LineAssociative
  <1>6. Append(p, h) = p \o e
    BY <1>2, AppendIsConcat
  <1>. QED BY <1>1, <1>2, <1>3, <1>4, <1>5, <1>6 DEF PipeOf

\* Nor from what is pending to the results.
LEMMA PipeFlush ==
    ASSUME NEW o \in Seq(Seq(Line)), NEW p \in Seq(Line), NEW l \in Seq(Line)
    PROVE  /\ Flushed(p) \in Seq(Seq(Line))
           /\ PipeOf(o, Flushed(p), <<>>, l) = PipeOf(o, <<>>, p, l)
  <1>1. PICK a \in Seq(Line) : a = FlattenSeq(o)
    BY FlattenType
  <1>2. Flushed(p) \in Seq(Seq(Line)) /\ FlattenSeq(Flushed(p)) = p
    <2>1. CASE p = <<>>
      BY <2>1, EmptySeq DEF Flushed, FlattenSeq
    <2>2. CASE p # <<>>
      BY <2>2, FlattenOne DEF Flushed
    <2>. QED BY <2>1, <2>2
  <1>3. FlattenSeq(<<>>) = <<>> /\ a \o <<>> = a
    BY LineEmpty DEF FlattenSeq
  <1>4. (a \o p) \o <<>> = a \o p
    BY LineEmpty, ConcatProperties
  <1>. QED BY <1>1, <1>2, <1>3, <1>4 DEF PipeOf

LEMMA PipeSingle ==
    ASSUME NEW o \in Seq(Seq(Line)), NEW p \in Seq(Line), NEW l \in Seq(Line), NEW h \in Line
    PROVE  /\ Append(Flushed(p), <<h>>) \in Seq(Seq(Line))
           /\ PipeOf(o, Append(Flushed(p), <<h>>), <<>>, l) = PipeOf(o, <<>>, p, <<h>> \o l)
  <1>1. PICK e \in Seq(Line) : e = <<h>>
    BY TextOne
  <1>2. PICK f \in Seq(Seq(Line)) : f = Flushed(p)
    BY PipeFlush
  <1>3. Append(f, e) \in Seq(Seq(Line)) /\ FlattenSeq(Append(f, e)) = FlattenSeq(f) \o e
    BY FlattenAppend, AppendProperties
  <1>4. PICK a \in Seq(Line) : a = FlattenSeq(o)
    BY FlattenType
  <1>5. PICK b \in Seq(Line) : b = FlattenSeq(f)
    BY FlattenType
  <1>6. PipeOf(o, f, <<>>, e \o l) = PipeOf(o, <<>>, p, e \o l)
    <2>1. e \o l \in Seq(Line)
      BY ConcatProperties
    <2>. QED BY <1>2, <2>1, PipeFlush
  <1>7. ((a \o (b \o e)) \o <<>>) \o l = ((a \o b) \o <<>>) \o (e \o l)
    <2>1. PICK c \in Seq(Line) : c = a \o b
      BY ConcatProperties
    <2>2. (a \o b) \o e = a \o (b \o e)
      BY LineAssociative
    <2>3. (c \o e) \o <<>> = c \o e /\ c \o <<>> = c
      BY ConcatProperties, LineEmpty
    <2>4. (c \o e) \o l = c \o (e \o l)
      BY LineAssociative
    <2>. QED BY <2>1, <2>2, <2>3, <2>4
  <1>. QED BY <1>1, <1>2, <1>3, <1>4, <1>5, <1>6, <1>7 DEF PipeOf

LEMMA FirstAndRest ==
    ASSUME NEW S, NEW s \in Seq(S), s # <<>>
    PROVE  s = <<Head(s)>> \o Tail(s) /\ Head(s) \in S /\ Tail(s) \in Seq(S) /\ <<Head(s)>> \in Seq(S)
  <1>1. /\ Head(s) \in S /\ Tail(s) \in Seq(S) /\ Len(Tail(s)) = Len(s) - 1
        /\ \A i \in 1..Len(Tail(s)) : Tail(s)[i] = s[i + 1]
    BY HeadTailProperties
  <1>2. PICK h \in S : h = Head(s)
    BY <1>1
  <1>3. PICK t \in Seq(S) : t = Tail(s)
    BY <1>1
  <1>4. PICK e \in Seq(S) : e = <<h>>
    <2>1. <<h>> \in Seq(S)
      OBVIOUS
    <2>. QED BY <2>1
  <1>5. Len(e) = 1 /\ e[1] = h /\ h = s[1] /\ Len(s) \in Nat /\ Len(t) = Len(s) - 1
    BY <1>1, <1>2, <1>3, <1>4, LenProperties
  <1>6. /\ e \o t \in Seq(S) /\ Len(e \o t) = Len(e) + Len(t)
        /\ \A i \in 1..(Len(e) + Len(t)) : (e \o t)[i] = IF i <= Len(e) THEN e[i] ELSE t[i - Len(e)]
    BY ConcatProperties
  <1>7. \A i \in 1..Len(t) : t[i] = s[i + 1]
    BY <1>1, <1>3
  <1>8. ASSUME NEW i \in 1..Len(s) PROVE (e \o t)[i] = s[i]
    <2>1. CASE i = 1
      BY <1>5, <1>6, <2>1
    <2>2. CASE i # 1
      <3>1. i - 1 \in 1..Len(t) /\ (i - 1) + 1 = i
        BY <1>5, <2>2
      <3>. QED BY <1>5, <1>6, <1>7, <2>2, <3>1
    <2>. QED BY <2>1, <2>2
  <1>9. s = e \o t
    BY <1>5, <1>6, <1>8, SeqEqual
  <1>. QED BY <1>1, <1>2, <1>3, <1>4, <1>9

\* Nor from the results that wait to those that are sent.
LEMMA PipeSend ==
    ASSUME NEW o \in Seq(Seq(Line)), NEW s \in Seq(Seq(Line)), NEW p \in Seq(Line), NEW l \in Seq(Line),
           s # <<>>
    PROVE  PipeOf(Append(o, Head(s)), Tail(s), p, l) = PipeOf(o, s, p, l)
  <1>1. PICK h \in Seq(Line) : h = Head(s) /\ <<h>> \in Seq(Seq(Line))
    BY FirstAndRest
  <1>2. PICK t \in Seq(Seq(Line)) : t = Tail(s) /\ s = <<h>> \o t
    BY <1>1, FirstAndRest
  <1>3. FlattenSeq(s) = FlattenSeq(<<h>>) \o FlattenSeq(t)
    BY <1>1, <1>2, FlattenConcat
  <1>4. FlattenSeq(<<h>>) = h
    BY FlattenOne
  <1>5. FlattenSeq(Append(o, h)) = FlattenSeq(o) \o h
    BY FlattenAppend
  <1>6. PICK a \in Seq(Line) : a = FlattenSeq(o)
    BY FlattenType
  <1>7. PICK b \in Seq(Line) : b = FlattenSeq(t)
    BY FlattenType
  <1>8. Regrouped(a, h, b)
    BY ConcatRegroups
  <1>. QED BY <1>1, <1>2, <1>3, <1>4, <1>5, <1>6, <1>7, <1>8 DEF PipeOf, Regrouped

\* The consume loop takes from the near end.
LEMMA PipeRelay ==
    ASSUME NEW o \in Seq(Seq(Line)), NEW s \in Seq(Seq(Line)), NEW p \in Seq(Line), NEW l \in Seq(Line),
           o # <<>>
    PROVE  PipeOf(o, s, p, l) = Head(o) \o PipeOf(Tail(o), s, p, l)
  <1>1. PICK h \in Seq(Line) : h = Head(o) /\ <<h>> \in Seq(Seq(Line))
    BY FirstAndRest
  <1>2. PICK t \in Seq(Seq(Line)) : t = Tail(o) /\ o = <<h>> \o t
    BY <1>1, FirstAndRest
  <1>3. FlattenSeq(o) = FlattenSeq(<<h>>) \o FlattenSeq(t)
    BY <1>1, <1>2, FlattenConcat
  <1>4. FlattenSeq(<<h>>) = h
    BY FlattenOne
  <1>5. PICK a \in Seq(Line) : a = FlattenSeq(t)
    BY FlattenType
  <1>6. PICK b \in Seq(Line) : b = FlattenSeq(s)
    BY FlattenType
  <1>7. FirstApart(h, a, b, p)
    BY LineAssociative4
  <1>8. PICK c \in Seq(Line) : c = (a \o b) \o p
    BY ConcatProperties
  <1>9. Regrouped(h, c, l)
    BY ConcatRegroups
  <1>. QED BY <1>1, <1>2, <1>3, <1>4, <1>5, <1>6, <1>7, <1>8, <1>9 DEF PipeOf, FirstApart, Regrouped

-----------------------------------------------------------------------------
\* The end of an answer, wherever it is on its way

Stops == {"finished", "filter", "done", "eof", "broken"}
HasStop(r) == \E k \in DOMAIN r : r[k].kind \in Stops
StopsLast(r) == \A j, k \in DOMAIN r : j < k /\ r[j].kind \in Stops => r[k].kind # "text"

\* The client's text and what is on its way make up what was said, and no text
\* follows the end of the answer, after which no more is sent.
Good(text, sd, r, over) ==
    /\ sd = text \o TextOf(r)
    /\ StopsLast(r)
    /\ HasStop(r) => over

LEMMA LineAt ==
    ASSUME NEW r \in Seq(Line), NEW m \in Seq(Line)
    PROVE  /\ r \o m \in Seq(Line)
           /\ Len(r) \in Nat /\ DOMAIN r = 1..Len(r) /\ Len(m) \in Nat /\ DOMAIN m = 1..Len(m)
           /\ DOMAIN (r \o m) = 1..(Len(r) + Len(m))
           /\ \A k \in 1..Len(r) : (r \o m)[k] = r[k]
           /\ \A k \in 1..Len(m) : (r \o m)[Len(r) + k] = m[k]
           /\ \A k \in (Len(r) + 1)..(Len(r) + Len(m)) : k - Len(r) \in 1..Len(m) /\ (r \o m)[k] = m[k - Len(r)]
  <1>1. /\ r \o m \in Seq(Line) /\ Len(r \o m) = Len(r) + Len(m)
        /\ \A k \in 1..(Len(r) + Len(m)) : (r \o m)[k] = IF k <= Len(r) THEN r[k] ELSE m[k - Len(r)]
    BY ConcatProperties
  <1>2. /\ Len(r) \in Nat /\ DOMAIN r = 1..Len(r) /\ Len(m) \in Nat /\ DOMAIN m = 1..Len(m)
        /\ DOMAIN (r \o m) = 1..Len(r \o m)
    BY <1>1, LenProperties
  <1>3. ASSUME NEW k \in 1..Len(r) PROVE (r \o m)[k] = r[k]
    BY <1>1, <1>2
  <1>4. ASSUME NEW k \in 1..Len(m) PROVE (r \o m)[Len(r) + k] = m[k]
    <2>1. Len(r) + k \in 1..(Len(r) + Len(m)) /\ ~(Len(r) + k <= Len(r)) /\ (Len(r) + k) - Len(r) = k
      BY <1>2
    <2>. QED BY <1>1, <2>1
  <1>5. ASSUME NEW k \in (Len(r) + 1)..(Len(r) + Len(m))
        PROVE  k - Len(r) \in 1..Len(m) /\ (r \o m)[k] = m[k - Len(r)]
    <2>1. k \in 1..(Len(r) + Len(m)) /\ ~(k <= Len(r)) /\ k - Len(r) \in 1..Len(m)
      BY <1>2
    <2>. QED BY <1>1, <2>1
  <1>. QED BY <1>1, <1>2, <1>3, <1>4, <1>5

\* Lines that are added.
LEMMA GoodAppend ==
    ASSUME NEW text \in Seq(Text), NEW sd, NEW r \in Seq(Line), NEW over, NEW m \in Seq(Line), NEW past,
           Good(text, sd, r, over), StopsLast(m), over => Quiet(m) /\ past, HasStop(m) => past
    PROVE  Good(text, sd \o TextOf(m), r \o m, past)
  <1>1. TextOf(r \o m) = TextOf(r) \o TextOf(m)
    BY TextConcat
  <1>2. PICK a \in Seq(Text) : a = TextOf(r)
    BY TextType
  <1>3. PICK b \in Seq(Text) : b = TextOf(m)
    BY TextType
  <1>4. (text \o a) \o b = text \o (a \o b)
    BY ConcatAssociative
  <1>5. sd \o TextOf(m) = text \o TextOf(r \o m)
    BY <1>1, <1>2, <1>3, <1>4 DEF Good
  <1>6. \A k \in DOMAIN (r \o m) :
          \/ k \in DOMAIN r /\ (r \o m)[k] = r[k]
          \/ k - Len(r) \in DOMAIN m /\ k > Len(r) /\ (r \o m)[k] = m[k - Len(r)]
    BY LineAt
  <1>7. HasStop(r \o m) => past
    BY <1>6 DEF HasStop, Good
  <1>8. ASSUME NEW j \in DOMAIN (r \o m), NEW k \in DOMAIN (r \o m), j < k, (r \o m)[j].kind \in Stops
        PROVE  (r \o m)[k].kind # "text"
    <2>1. CASE k \in DOMAIN r /\ (r \o m)[k] = r[k]
      <3>1. j \in DOMAIN r /\ (r \o m)[j] = r[j]
        BY <1>8, <2>1, LineAt
      <3>. QED BY <1>8, <2>1, <3>1 DEF Good, StopsLast
    <2>2. CASE k - Len(r) \in DOMAIN m /\ (r \o m)[k] = m[k - Len(r)]
      <3>1. CASE j \in DOMAIN r /\ (r \o m)[j] = r[j]
        BY <1>8, <2>2, <3>1 DEF Good, HasStop, Quiet
      <3>2. CASE j - Len(r) \in DOMAIN m /\ (r \o m)[j] = m[j - Len(r)]
        <4>1. j - Len(r) < k - Len(r)
          BY <1>8, LineAt
        <4>. QED BY <1>8, <2>2, <3>2, <4>1 DEF StopsLast
      <3>. QED BY <1>6, <3>1, <3>2
    <2>. QED BY <1>6, <2>1, <2>2
  <1>9. StopsLast(r \o m)
    BY <1>8 DEF StopsLast
  <1>. QED BY <1>5, <1>7, <1>9 DEF Good

\* The tail, without text, is dropped.
LEMMA GoodCut ==
    ASSUME NEW text \in Seq(Text), NEW sd, NEW r \in Seq(Line), NEW over, NEW m \in Seq(Line),
           Good(text, sd, r \o m, over), Quiet(m)
    PROVE  Good(text, sd, r, over)
  <1>1. TextOf(r \o m) = TextOf(r) \o <<>>
    BY TextConcat, TextQuiet
  <1>2. TextOf(r) \o <<>> = TextOf(r)
    BY TextType, ConcatEmptySeq
  <1>3. \A k \in DOMAIN r : k \in DOMAIN (r \o m) /\ (r \o m)[k] = r[k]
    BY LineAt
  <1>4. StopsLast(r) /\ (HasStop(r) => over)
    BY <1>3 DEF Good, StopsLast, HasStop
  <1>. QED BY <1>1, <1>2, <1>4 DEF Good

\* The first lines reach the client.
LEMMA GoodRelay ==
    ASSUME NEW text \in Seq(Text), NEW sd, NEW r \in Seq(Line), NEW over, NEW m \in Seq(Line),
           Good(text, sd, r \o m, over)
    PROVE  Good(text \o TextOf(r), sd, m, over)
  <1>1. TextOf(r \o m) = TextOf(r) \o TextOf(m)
    BY TextConcat
  <1>2. PICK a \in Seq(Text) : a = TextOf(r)
    BY TextType
  <1>3. PICK b \in Seq(Text) : b = TextOf(m)
    BY TextType
  <1>4. (text \o a) \o b = text \o (a \o b)
    BY ConcatAssociative
  <1>5. \A k \in DOMAIN m : Len(r) + k \in DOMAIN (r \o m) /\ (r \o m)[Len(r) + k] = m[k]
    BY LineAt
  <1>6. HasStop(m) => over
    BY <1>5 DEF Good, HasStop
  <1>7. ASSUME NEW j \in DOMAIN m, NEW k \in DOMAIN m, j < k, m[j].kind \in Stops
        PROVE  m[k].kind # "text"
    <2>1. Len(r) + j < Len(r) + k
      BY <1>7, LineAt
    <2>. QED BY <1>5, <1>7, <2>1 DEF Good, StopsLast
  <1>. QED BY <1>1, <1>2, <1>3, <1>4, <1>6, <1>7 DEF Good, StopsLast

\* The end of the answer comes first: there is no text behind it.
LEMMA GoodStop ==
    ASSUME NEW text \in Seq(Text), NEW sd, NEW r \in Seq(Line), NEW over, r # <<>>,
           Good(text, sd, r, over), r[1].kind \in Stops
    PROVE  sd = text
  <1>1. Len(r) \in Nat /\ Len(r) # 0 /\ DOMAIN r = 1..Len(r)
    BY LenProperties, EmptySeq
  <1>2. ASSUME NEW k \in DOMAIN r PROVE r[k].kind # "text"
    <2>1. CASE k = 1
      BY <2>1 DEF Stops
    <2>2. CASE k # 1
      <3>1. 1 \in DOMAIN r /\ 1 < k
        BY <1>1, <2>2
      <3>. QED BY <3>1 DEF Good, StopsLast
    <2>. QED BY <2>1, <2>2
  <1>3. TextOf(r) = <<>>
    BY <1>2, TextQuiet DEF Quiet
  <1>. QED BY <1>3, ConcatEmptySeq DEF Good

\* The end of the stream is taken out, and nothing behind it has text.
LEMMA GoodDrop ==
    ASSUME NEW text \in Seq(Text), NEW sd, NEW r \in Seq(Line), NEW over, NEW m \in Seq(Line), NEW h \in Line,
           Good(text, sd, r \o (<<h>> \o m), over), h.kind \in Stops
    PROVE  Good(text, sd, r \o m, over) /\ Quiet(m) /\ over
  <1>1. PICK e \in Seq(Line) : e = <<h>> /\ e[1] = h /\ Len(e) = 1
    BY TextOne
  <1>2. PICK n \in Seq(Line) : n = e \o m
    BY ConcatProperties
  <1>3. PICK w \in Seq(Line) : w = r \o n
    BY ConcatProperties
  <1>4. Good(text, sd, w, over)
    BY <1>1, <1>2, <1>3
  <1>5. n[1] = h /\ 1 \in DOMAIN n
    <2>1. DOMAIN n = 1..(1 + Len(m)) /\ Len(m) \in Nat
      BY <1>1, <1>2, LineAt
    <2>2. 1 \in 1..Len(e)
      BY <1>1
    <2>3. n[1] = e[1]
      BY <1>2, <2>2, LineAt
    <2>. QED BY <1>1, <2>1, <2>3
  <1>6. Len(r) + 1 \in DOMAIN w /\ w[Len(r) + 1] = h
    BY <1>3, <1>5, LineAt
  <1>7. over
    BY <1>4, <1>6 DEF Good, HasStop
  <1>8. \A k \in DOMAIN m : 1 + k \in DOMAIN n /\ n[1 + k] = m[k] /\ k \in Nat /\ k > 0
    BY <1>1, <1>2, LineAt
  <1>9. \A k \in DOMAIN m : Len(r) + (1 + k) \in DOMAIN w /\ w[Len(r) + (1 + k)] = m[k]
    BY <1>3, <1>8, LineAt
  <1>10. ASSUME NEW k \in DOMAIN m PROVE m[k].kind # "text"
    <2>1. Len(r) + 1 < Len(r) + (1 + k)
      BY <1>8, LineAt
    <2>. QED BY <1>4, <1>6, <1>9, <2>1 DEF Good, StopsLast
  <1>11. Quiet(m)
    BY <1>10 DEF Quiet
  <1>12. Quiet(n)
    <2>1. ASSUME NEW k \in DOMAIN n PROVE n[k].kind # "text"
      <3>1. CASE k = 1
        BY <1>5, <3>1 DEF Stops
      <3>2. CASE k # 1
        <4>1. k \in (Len(e) + 1)..(Len(e) + Len(m))
          BY <1>1, <1>2, <3>2, LineAt
        <4>2. k - 1 \in DOMAIN m /\ n[k] = m[k - 1]
          BY <1>1, <1>2, <4>1, LineAt
        <4>. QED BY <1>10, <4>2
      <3>. QED BY <3>1, <3>2
    <2>. QED BY <2>1 DEF Quiet
  <1>13. Good(text, sd, r, over)
    BY <1>3, <1>4, <1>12, GoodCut
  <1>14. StopsLast(m)
    BY <1>11 DEF StopsLast, Quiet
  <1>15. Good(text, sd \o TextOf(m), r \o m, over)
    BY <1>7, <1>11, <1>13, <1>14, GoodAppend
  <1>16. sd \o TextOf(m) = sd
    <2>1. TextOf(m) = <<>>
      BY <1>11, TextQuiet
    <2>2. sd \in Seq(Text)
      BY <1>13, TextType, ConcatProperties DEF Good
    <2>. QED BY <2>1, <2>2, ConcatEmptySeq
  <1>. QED BY <1>7, <1>11, <1>15, <1>16

-----------------------------------------------------------------------------
\* The inductive invariant

\* The handler's record and the client's, whatever text the client has.
Records ==
    /\ handler = [pc |-> handler.pc, attempt |-> handler.attempt, seen |-> handler.seen, quiet |-> handler.quiet]
    /\ handler.pc \in {"consume", "retry", "over"} /\ handler.attempt \in Attempts
    /\ client = [text |-> client.text, ending |-> client.ending, endings |-> client.endings]
    /\ ctx \in {"live", "gone", "ended"}

\* Until the handler returns the client was told no end and the history has no
\* result, but perhaps that the client left; the context ends with the handler.
Unended ==
    /\ handler.pc = "over" <=> ctx = "ended"
    /\ handler.pc # "over" => client.ending = "none" /\ history \in {"streaming", "stopped"}

\* A retry follows the first attempt, which said nothing and was closed.
RetriedOnce ==
    handler.pc = "retry" => handler.attempt = 1 /\ client.text = <<>>

EndingInv == Records /\ Unended /\ RetriedOnce /\ OneEnding /\ HistorySettled

-----------------------------------------------------------------------------
\* Steps

\* The handler returns, from where it has not returned before.
LEMMA ReturnStep ==
    ASSUME EndingInv, handler.pc # "over", NEW ending, NEW status,
           <<ending, status>> \in {<<"finish", "success">>, <<"failed", "error">>},
           Return(ending, status)
    PROVE  EndingInv'
  <1>1. /\ handler' = [handler EXCEPT !.pc = "over"] /\ history' = status /\ ctx' = "ended"
        /\ client' = [client EXCEPT !.ending = ending, !.endings = @ + 1]
    BY DEF Return, Cancel
  <1>2. handler'.pc = "over" /\ handler'.attempt = handler.attempt /\ client.endings = 0
    BY <1>1 DEF EndingInv, Records, OneEnding
  <1>3. client'.ending = ending /\ client'.endings = 1 /\ client'.text = client.text
    BY <1>1, <1>2 DEF EndingInv, Records
  <1>4. Records'
    BY <1>1, <1>2, <1>3 DEF EndingInv, Records
  <1>5. (ending = "finish" /\ status = "success") \/ (ending = "failed" /\ status = "error")
    OBVIOUS
  <1>6. Unended' /\ RetriedOnce' /\ OneEnding'
    BY <1>1, <1>2, <1>3 DEF Unended, RetriedOnce, OneEnding
  <1>7. HistorySettled'
    BY <1>1, <1>3, <1>5 DEF HistorySettled
  <1>. QED BY <1>4, <1>6, <1>7 DEF EndingInv

\* An attempt ends, by the handler's return or with a retry to come.
LEMMA FinalizeStep ==
    ASSUME EndingInv, Consuming, NEW reason, NEW why, Finalize(reason, why)
    PROVE  EndingInv'
  <1>1. handler.pc # "over"
    BY DEF Consuming
  <1>2. CASE client.text # <<>>
    BY <1>1, <1>2, ReturnStep DEF Finalize
  <1>3. CASE client.text = <<>> /\ (handler.attempt = 2 \/ reason = "filter")
    BY <1>1, <1>3, ReturnStep DEF Finalize
  <1>4. CASE client.text = <<>> /\ handler.attempt # 2
    <2>1. CASE Return("failed", "error")
      BY <1>1, <2>1, ReturnStep
    <2>2. CASE /\ handler' = [handler EXCEPT !.pc = "retry"]
               /\ history' = IF why = "gone" THEN "stopped" ELSE history
               /\ UNCHANGED <<ctx, client>>
      <3>1. handler'.pc = "retry" /\ handler'.attempt = 1
        BY <1>4, <2>2 DEF EndingInv, Records, Attempts
      <3>2. Records'
        BY <2>2, <3>1 DEF EndingInv, Records, Attempts
      <3>3. Unended' /\ RetriedOnce' /\ OneEnding' /\ HistorySettled'
        BY <1>1, <1>4, <2>2, <3>1 DEF EndingInv, Unended, RetriedOnce, OneEnding, HistorySettled
      <3>. QED BY <3>2, <3>3 DEF EndingInv
    <2>. QED BY <1>4, <2>1, <2>2 DEF Finalize
  <1>. QED BY <1>2, <1>3, <1>4

\* What does not concern the handler and the client does not concern the end.
LEMMA Unconcerned ==
    ASSUME EndingInv, UNCHANGED <<ctx, handler, client, history>>
    PROVE  EndingInv'
  BY DEF EndingInv, Records, Unended, RetriedOnce, OneEnding, HistorySettled

\* A step of the stages before the consume loop.
LEMMA StageStep ==
    ASSUME EndingInv, NEW i \in Attempts, Upstream(i) \/ Plumbing(i)
    PROVE  EndingInv'
  <1>1. UNCHANGED <<ctx, handler, client, history>>
    BY DEF Upstream, Speak, Continue, BodyEnds, BodyBreaks, PipeClosed,
           Plumbing, SourceAborts, TakeLine, FlushTick, sendResult, PumpEnds
  <1>. QED BY <1>1, Unconcerned

\* A step of the consume loop, of a retry, or of the client.
LEMMA HandlerStep ==
    ASSUME EndingInv, Consume \/ Tick \/ Retry \/ ClientLeaves
    PROVE  EndingInv'
  <1>1. CASE ContextDone
    BY <1>1, FinalizeStep DEF ContextDone
  <1>2. CASE Relay
    <2>1. /\ Consuming /\ UNCHANGED <<ctx, history>>
          /\ client' = [client EXCEPT !.text = @ \o TextOf(Head(Arrived))]
          /\ handler' = [handler EXCEPT !.seen = TRUE, !.quiet = 0] \/ handler' = handler
      BY <1>2 DEF Relay
    <2>2. client'.ending = client.ending /\ client'.endings = client.endings
      BY <2>1 DEF EndingInv, Records
    <2>3. handler'.pc = "consume" /\ handler'.attempt = handler.attempt
      BY <2>1 DEF EndingInv, Records, Consuming
    <2>4. Records'
      BY <2>1, <2>2, <2>3 DEF EndingInv, Records
    <2>5. Unended' /\ RetriedOnce' /\ OneEnding' /\ HistorySettled'
      BY <2>1, <2>2, <2>3 DEF EndingInv, Unended, RetriedOnce, OneEnding, HistorySettled, Consuming
    <2>. QED BY <2>4, <2>5 DEF EndingInv
  <1>3. CASE StopLine
    BY <1>3, FinalizeStep DEF StopLine
  <1>4. CASE Drained
    BY <1>4, FinalizeStep DEF Drained
  <1>5. CASE Tick
    <2>1. Consuming
      BY <1>5 DEF Tick
    <2>2. CASE handler' = [handler EXCEPT !.quiet = @ + 1] /\ UNCHANGED <<ctx, client, history>>
      <3>1. handler'.pc = handler.pc /\ handler'.attempt = handler.attempt
        BY <2>2 DEF EndingInv, Records
      <3>2. Records'
        BY <2>2, <3>1 DEF EndingInv, Records
      <3>3. Unended' /\ RetriedOnce' /\ OneEnding' /\ HistorySettled'
        BY <2>2, <3>1 DEF EndingInv, Unended, RetriedOnce, OneEnding, HistorySettled
      <3>. QED BY <3>2, <3>3 DEF EndingInv
    <2>3. CASE Finalize("stop", "silent") \/ Finalize("stop", "idle")
      BY <2>1, <2>3, FinalizeStep
    <2>. QED BY <1>5, <2>2, <2>3 DEF Tick
  <1>6. CASE RetryOpens
    <2>1. /\ handler.pc = "retry" /\ UNCHANGED <<ctx, client, history>>
          /\ handler' = [pc |-> "consume", attempt |-> 2, seen |-> FALSE, quiet |-> 0]
      BY <1>6 DEF RetryOpens
    <2>2. Records'
      BY <2>1 DEF EndingInv, Records, Attempts
    <2>3. Unended' /\ RetriedOnce' /\ OneEnding' /\ HistorySettled'
      BY <2>1 DEF EndingInv, Unended, RetriedOnce, OneEnding, HistorySettled
    <2>. QED BY <2>2, <2>3 DEF EndingInv
  <1>7. CASE RetryFails
    BY <1>7, ReturnStep DEF RetryFails
  <1>8. CASE ClientLeaves
    <2>1. ctx = "live" /\ ctx' = "gone" /\ UNCHANGED <<handler, client, history>>
      BY <1>8 DEF ClientLeaves, Cancel
    <2>. QED BY <2>1 DEF EndingInv, Records, Unended, RetriedOnce, OneEnding, HistorySettled
  <1>. QED BY <1>1, <1>2, <1>3, <1>4, <1>5, <1>6, <1>7, <1>8 DEF Consume, Retry

LEMMA InitEnding == Init => EndingInv
  BY DEF Init, EndingInv, Records, Unended, RetriedOnce, OneEnding, HistorySettled, Attempts

LEMMA EndingInvariance == Spec => []EndingInv
  <1>1. EndingInv /\ [Next]_vars => EndingInv'
    <2>. SUFFICES ASSUME EndingInv, [Next]_vars PROVE EndingInv'
      OBVIOUS
    <2>1. CASE \E i \in Attempts : Upstream(i) \/ Plumbing(i)
      BY <2>1, StageStep
    <2>2. CASE Consume \/ Tick \/ Retry \/ ClientLeaves
      BY <2>2, HandlerStep
    <2>3. CASE UNCHANGED vars
      BY <2>3, Unconcerned DEF vars
    <2>. QED BY <2>1, <2>2, <2>3 DEF Next, Terminated
  <1>. QED BY <1>1, InitEnding, PTL DEF Spec

-----------------------------------------------------------------------------
\* The types, and the room that is left for the end of the stream

SourceType == [on : BOOLEAN, rounds : 0..MaxRounds, status : {"none", "incomplete", "finished"}]
PumpType == [on : BOOLEAN, pending : Seq(Line), sending : Seq(Seq(Line)), last : BOOLEAN, err : BOOLEAN]
Fits == \A i \in Attempts : source[i].on => Len(lines[i]) <= LineCap
TypeInv == TypeOK /\ Fits

LEMMA KindsAreLines ==
    ASSUME NEW kind \in Signals
    PROVE  L(kind) \in Line /\ L(kind).kind = kind
  BY DEF L, Line

\* What the pump makes of a line.
LEMMA AcceptType ==
    ASSUME NEW p \in PumpType, NEW h \in Line, NEW q \in Accept(p, h)
    PROVE  q \in PumpType /\ q.on = p.on
  <1>1. /\ p.pending \in Seq(Line) /\ Append(p.pending, h) \in Seq(Line) /\ <<h>> \in Seq(Line)
        /\ <<>> \in Seq(Line)
    BY TextOne, AppendProperties, EmptySeq DEF PumpType
  <1>2. /\ Flushed(p.pending) \in Seq(Seq(Line)) /\ Flushed(Append(p.pending, h)) \in Seq(Seq(Line))
        /\ Append(Flushed(p.pending), <<h>>) \in Seq(Seq(Line))
    BY <1>1, PipeFlush, PipeSingle, EmptySeq
  <1>. QED BY <1>1, <1>2 DEF Accept, PumpType

\* The parts of the state a stage of attempt i may change.
LEMMA StageType ==
    ASSUME TypeInv, NEW i \in Attempts,
           NEW s \in SourceType, NEW l \in Seq(Line), NEW p \in PumpType, NEW o \in Seq(Seq(Line)),
           source' = [source EXCEPT ![i] = s], lines' = [lines EXCEPT ![i] = l],
           pump' = [pump EXCEPT ![i] = p], out' = [out EXCEPT ![i] = o],
           Len(l) <= LineCap + 1, s.on => Len(l) <= LineCap, Len(o) <= OutCap,
           UNCHANGED <<ctx, closed, handler, client, history, cut>>,
           said' \in [Attempts -> Seq(1..MaxLines)], budget' \in 0..MaxLines
    PROVE  TypeInv'
  <1>1. source' \in [Attempts -> SourceType] /\ pump' \in [Attempts -> PumpType]
    BY DEF TypeInv, TypeOK, SourceType, PumpType
  <1>2. lines' \in [Attempts -> Seq(Line)] /\ out' \in [Attempts -> Seq(Seq(Line))]
    BY DEF TypeInv, TypeOK
  <1>3. \A k \in Attempts : Len(lines'[k]) <= LineCap + 1 /\ Len(out'[k]) <= OutCap
    BY DEF TypeInv, TypeOK
  <1>4. \A k \in Attempts : source'[k].on => Len(lines'[k]) <= LineCap
    BY DEF TypeInv, TypeOK, Fits
  <1>5. Fits'
    BY <1>4 DEF Fits
  <1>6. TypeOK'
    BY <1>1, <1>2, <1>3 DEF TypeInv, TypeOK, SourceType, PumpType
  <1>. QED BY <1>5, <1>6 DEF TypeInv

\* A line is sent, a round is continued, and a body ends in one way or another.
LEMMA UpstreamType ==
    ASSUME TypeInv, NEW i \in Attempts, Upstream(i)
    PROVE  TypeInv'
  <1>1. /\ source[i] \in SourceType /\ lines[i] \in Seq(Line) /\ pump[i] \in PumpType
        /\ out[i] \in Seq(Seq(Line)) /\ Len(out[i]) <= OutCap /\ Len(lines[i]) \in Nat
    BY LenProperties DEF TypeInv, TypeOK, SourceType, PumpType
  <1>2. pump' = [pump EXCEPT ![i] = pump[i]] /\ out' = [out EXCEPT ![i] = out[i]]
    BY DEF Upstream, Speak, Continue, BodyEnds, BodyBreaks, PipeClosed, TypeInv, TypeOK
  <1>3. UNCHANGED <<ctx, closed, handler, client, history, cut>>
    BY DEF Upstream, Speak, Continue, BodyEnds, BodyBreaks, PipeClosed
  <1>4. source[i].on => Len(lines[i]) <= LineCap
    BY DEF TypeInv, Fits
  <1>5. said \in [Attempts -> Seq(1..MaxLines)] /\ budget \in 0..MaxLines /\ LineCap \in Nat /\ MaxLines \in Nat
    BY BoundsAssumption DEF TypeInv, TypeOK
  <1>6. CASE Speak(i)
    <2>1. PICK line \in {L(k) : k \in Spoken} \cup {[kind |-> "text", n |-> MaxLines - budget + 1]} :
             /\ source' = [source EXCEPT ![i] = Observed(source[i], line.kind)]
             /\ lines' = [lines EXCEPT ![i] = Append(lines[i], line)]
             /\ said' = IF line.kind = "text" THEN [said EXCEPT ![i] = Append(@, line.n)] ELSE said
      BY <1>6 DEF Speak, TypeInv, TypeOK
    <2>2. Len(lines[i]) < LineCap /\ budget > 0 /\ budget' = budget - 1
      BY <1>6 DEF Speak, Room
    <2>3. line \in Line /\ (line.kind = "text" => line.n \in 1..MaxLines)
      <3>1. \A k \in Spoken : L(k) \in Line /\ L(k).kind # "text"
        BY DEF L, Line, Spoken, Signals
      <3>2. MaxLines - budget + 1 \in 1..MaxLines
        BY <1>5, <2>2
      <3>. QED BY <3>1, <3>2 DEF Line
    <2>4. Append(lines[i], line) \in Seq(Line) /\ Len(Append(lines[i], line)) = Len(lines[i]) + 1
      BY <1>1, <2>3, AppendProperties
    <2>5. Observed(source[i], line.kind) \in SourceType
      BY <1>1 DEF Observed, SourceType
    <2>6. said' \in [Attempts -> Seq(1..MaxLines)]
      <3>1. CASE line.kind = "text"
        <4>1. Append(said[i], line.n) \in Seq(1..MaxLines)
          BY <1>5, <2>3, <3>1, AppendProperties
        <4>. QED BY <1>5, <2>1, <3>1, <4>1
      <3>. QED BY <1>5, <2>1, <3>1
    <2>7. budget' \in 0..MaxLines
      BY <1>5, <2>2
    <2>8. Len(Append(lines[i], line)) <= LineCap /\ Len(Append(lines[i], line)) <= LineCap + 1
      BY <1>1, <1>5, <2>2, <2>4
    <2>9. PICK l \in Seq(Line) : l = Append(lines[i], line)
      BY <2>4
    <2>10. PICK s \in SourceType : s = Observed(source[i], line.kind)
      BY <2>5
    <2>11. /\ source' = [source EXCEPT ![i] = s] /\ lines' = [lines EXCEPT ![i] = l]
           /\ Len(l) <= LineCap + 1 /\ (s.on => Len(l) <= LineCap)
      BY <2>1, <2>8, <2>9, <2>10
    <2>. QED BY <1>1, <1>2, <1>3, <2>6, <2>7, <2>11, StageType
  <1>7. CASE Continue(i)
    <2>. DEFINE s == [NoSource EXCEPT !.on = TRUE, !.rounds = source[i].rounds + 1]
    <2>1. source' = [source EXCEPT ![i] = s] /\ lines' = [lines EXCEPT ![i] = lines[i]]
          /\ UNCHANGED <<said, budget>> /\ source[i].on /\ source[i].rounds < MaxRounds
      BY <1>7 DEF Continue, TypeInv, TypeOK, shouldContinue
    <2>2. s \in SourceType
      <3>2. source[i].rounds \in 0..MaxRounds /\ MaxRounds \in Nat
        BY <1>1, BoundsAssumption DEF SourceType
      <3>3. source[i].rounds + 1 \in 0..MaxRounds
        BY <2>1, <3>2
      <3>1. NoSource \in SourceType
        BY <3>2 DEF NoSource, SourceType
      <3>. QED BY <3>1, <3>3 DEF SourceType
    <2>. HIDE DEF s
    <2>3. Len(lines[i]) <= LineCap /\ Len(lines[i]) <= LineCap + 1
      BY <1>1, <1>4, <1>5, <2>1
    <2>. QED BY <1>1, <1>2, <1>3, <1>5, <2>1, <2>2, <2>3, StageType
  <1>8. ASSUME UNCHANGED <<said, budget>>, source[i].on,
               source' = [source EXCEPT ![i].on = FALSE],
               NEW l \in Seq(Line), lines' = [lines EXCEPT ![i] = l], Len(l) <= LineCap + 1
        PROVE  TypeInv'
    <2>. DEFINE s == [source[i] EXCEPT !.on = FALSE]
    <2>1. source' = [source EXCEPT ![i] = s]
      BY <1>8
    <2>2. s \in SourceType /\ ~s.on
      BY <1>1 DEF SourceType
    <2>. HIDE DEF s
    <2>. QED BY <1>1, <1>2, <1>3, <1>5, <1>8, <2>1, <2>2, StageType
  <1>9. CASE BodyEnds(i)
    <2>1. PICK l \in Seq(Line) : lines' = [lines EXCEPT ![i] = l] /\ Len(l) \in {Len(lines[i]) + 1, Len(lines[i]) + 2}
      <3>1. PICK hadDone \in {<<>>, <<L("done")>>} :
               lines' = [lines EXCEPT ![i] = lines[i] \o hadDone \o <<L("eof")>>]
        BY <1>9 DEF BodyEnds, TypeInv, TypeOK
      <3>2. hadDone \in Seq(Line) /\ Len(hadDone) \in 0..1 /\ <<L("eof")>> \in Seq(Line) /\ Len(<<L("eof")>>) = 1
        <4>1. L("eof") \in Line /\ L("done") \in Line
          BY KindsAreLines DEF Signals
        <4>2. \A x \in Line : <<x>> \in Seq(Line) /\ Len(<<x>>) = 1
          BY TextOne
        <4>3. CASE hadDone = <<>>
          <5>1. <<>> \in Seq(Line) /\ Len(<<>>) = 0
            BY EmptySeq
          <5>. QED BY <4>1, <4>2, <4>3, <5>1
        <4>4. CASE hadDone = <<L("done")>>
          BY <4>1, <4>2, <4>4
        <4>. QED BY <4>3, <4>4
      <3>3. PICK l \in Seq(Line) : l = lines[i] \o hadDone \o <<L("eof")>> /\ Len(l) = Len(lines[i]) + Len(hadDone) + 1
        <4>1. PICK d \in Seq(Line) : d = hadDone
          BY <3>2
        <4>2. PICK a \in Seq(Line) : a = lines[i]
          BY <1>1
        <4>3. PICK e \in Seq(Line) : e = <<L("eof")>> /\ Len(e) = 1
          BY <3>2
        <4>4. PICK b \in Seq(Line) : b = a \o d /\ Len(b) = Len(a) + Len(d)
          BY ConcatProperties
        <4>5. b \o e \in Seq(Line) /\ Len(b \o e) = Len(b) + 1
          BY <4>3, ConcatProperties
        <4>. QED BY <4>1, <4>2, <4>3, <4>4, <4>5
      <3>4. Len(lines[i]) + Len(hadDone) + 1 \in {Len(lines[i]) + 1, Len(lines[i]) + 2}
        <4>1. Len(hadDone) = 0 \/ Len(hadDone) = 1
          BY <3>2
        <4>2. Len(lines[i]) \in Nat
          BY <1>1
        <4>3. \A a \in Nat, b \in {0, 1} : a + b + 1 \in {a + 1, a + 2}
          OBVIOUS
        <4>. QED BY <4>1, <4>2, <4>3
      <3>. QED BY <3>1, <3>3, <3>4
    <2>2. Len(lines[i]) < LineCap /\ UNCHANGED <<said, budget>> /\ source[i].on
          /\ source' = [source EXCEPT ![i].on = FALSE]
      BY <1>9 DEF BodyEnds, Room
    <2>3. Len(l) <= LineCap + 1
      BY <1>1, <1>5, <2>1, <2>2
    <2>. QED BY <1>8, <2>1, <2>2, <2>3
  <1>10. CASE BodyBreaks(i) \/ PipeClosed(i)
    <2>1. lines' = [lines EXCEPT ![i] = Append(lines[i], L("broken"))] /\ UNCHANGED <<said, budget>>
          /\ source[i].on /\ source' = [source EXCEPT ![i].on = FALSE]
      BY <1>10 DEF BodyBreaks, PipeClosed, TypeInv, TypeOK
    <2>2. PICK l \in Seq(Line) : l = Append(lines[i], L("broken")) /\ Len(l) = Len(lines[i]) + 1
      <3>1. L("broken") \in Line
        BY KindsAreLines DEF Signals
      <3>2. lines[i] \in Seq(Line)
        BY <1>1
      <3>3. Append(lines[i], L("broken")) \in Seq(Line) /\ Len(Append(lines[i], L("broken"))) = Len(lines[i]) + 1
        BY <3>1, <3>2, AppendGrows
      <3>. QED BY <3>3
    <2>3. Len(l) <= LineCap + 1
      BY <1>1, <1>4, <1>5, <2>1, <2>2
    <2>. QED BY <1>8, <2>1, <2>2, <2>3
  <1>. QED BY <1>6, <1>7, <1>9, <1>10 DEF Upstream

\* The goroutines between DeepSeek and the consume loop.
LEMMA PlumbingType ==
    ASSUME TypeInv, NEW i \in Attempts, Plumbing(i)
    PROVE  TypeInv'
  <1>1. /\ source[i] \in SourceType /\ lines[i] \in Seq(Line) /\ pump[i] \in PumpType
        /\ out[i] \in Seq(Seq(Line)) /\ Len(out[i]) <= OutCap /\ Len(lines[i]) \in Nat
        /\ Len(lines[i]) <= LineCap + 1 /\ Len(out[i]) \in Nat /\ Len(lines[i]) <= Len(lines[i])
    BY LenProperties DEF TypeInv, TypeOK, SourceType, PumpType
  <1>2. UNCHANGED <<ctx, closed, handler, client, history, cut, said, budget>>
    BY DEF Plumbing, SourceAborts, TakeLine, FlushTick, sendResult, PumpEnds
  <1>3. source[i].on => Len(lines[i]) <= LineCap
    BY DEF TypeInv, Fits
  <1>4. said' \in [Attempts -> Seq(1..MaxLines)] /\ budget' \in 0..MaxLines /\ LineCap \in Nat
        /\ OutCap \in Nat
    BY <1>2, BoundsAssumption DEF TypeInv, TypeOK
  <1>5. ASSUME NEW p \in PumpType, NEW l \in Seq(Line), NEW o \in Seq(Seq(Line)),
               source' = source, lines' = [lines EXCEPT ![i] = l], pump' = [pump EXCEPT ![i] = p],
               out' = [out EXCEPT ![i] = o], Len(l) <= Len(lines[i]), Len(o) <= OutCap
        PROVE  TypeInv'
    <2>1. source' = [source EXCEPT ![i] = source[i]]
      BY <1>5 DEF TypeInv, TypeOK
    <2>2. Len(l) <= LineCap + 1 /\ (source[i].on => Len(l) <= LineCap)
      BY <1>1, <1>3, <1>4, <1>5, LenProperties
    <2>. QED BY <1>1, <1>2, <1>4, <1>5, <2>1, <2>2, StageType
  <1>6. CASE SourceAborts(i)
    <2>. DEFINE s == [source[i] EXCEPT !.on = FALSE]
    <2>1. /\ source' = [source EXCEPT ![i] = s] /\ lines' = [lines EXCEPT ![i] = lines[i]]
          /\ pump' = [pump EXCEPT ![i] = pump[i]] /\ out' = [out EXCEPT ![i] = out[i]]
      BY <1>6 DEF SourceAborts, TypeInv, TypeOK
    <2>2. s \in SourceType /\ ~s.on
      BY <1>1 DEF SourceType
    <2>. HIDE DEF s
    <2>. QED BY <1>1, <1>2, <1>4, <2>1, <2>2, StageType
  <1>7. CASE TakeLine(i)
    <2>1. PICK p \in Accept(pump[i], Head(lines[i])) : pump' = [pump EXCEPT ![i] = p]
      BY <1>7 DEF TakeLine
    <2>2. Head(lines[i]) \in Line /\ Tail(lines[i]) \in Seq(Line) /\ Len(Tail(lines[i])) <= Len(lines[i])
      BY <1>1, <1>7, HeadTailProperties DEF TakeLine
    <2>3. p \in PumpType
      BY <1>1, <2>1, <2>2, AcceptType
    <2>4. source' = source /\ lines' = [lines EXCEPT ![i] = Tail(lines[i])] /\ out' = [out EXCEPT ![i] = out[i]]
      BY <1>7 DEF TakeLine, TypeInv, TypeOK
    <2>5. PICK l \in Seq(Line) : l = Tail(lines[i])
      BY <2>2
    <2>6. lines' = [lines EXCEPT ![i] = l] /\ Len(l) <= Len(lines[i])
      BY <2>2, <2>4, <2>5
    <2>. QED BY <1>1, <1>5, <2>1, <2>3, <2>4, <2>6
  <1>8. CASE FlushTick(i)
    <2>. DEFINE p == [pump[i] EXCEPT !.pending = <<>>, !.sending = Flushed(pump[i].pending)]
    <2>1. /\ source' = source /\ lines' = [lines EXCEPT ![i] = lines[i]]
          /\ pump' = [pump EXCEPT ![i] = p] /\ out' = [out EXCEPT ![i] = out[i]]
      BY <1>8 DEF FlushTick, TypeInv, TypeOK
    <2>2. Flushed(pump[i].pending) \in Seq(Seq(Line)) /\ <<>> \in Seq(Line)
      BY <1>1, PipeFlush, EmptySeq DEF PumpType
    <2>3. p \in PumpType
      BY <1>1, <2>2 DEF PumpType
    <2>. HIDE DEF p
    <2>. QED BY <1>1, <1>5, <2>1, <2>3
  <1>9. CASE sendResult(i)
    <2>. DEFINE p == [pump[i] EXCEPT !.sending = Tail(pump[i].sending)]
                o == Append(out[i], Head(pump[i].sending))
    <2>1. /\ source' = source /\ lines' = [lines EXCEPT ![i] = lines[i]]
          /\ pump' = [pump EXCEPT ![i] = p] /\ out' = [out EXCEPT ![i] = o]
      BY <1>9 DEF sendResult, TypeInv, TypeOK
    <2>2. pump[i].sending \in Seq(Seq(Line)) /\ pump[i].sending # <<>> /\ Len(out[i]) < OutCap
      BY <1>1, <1>9 DEF sendResult, PumpType
    <2>3. Head(pump[i].sending) \in Seq(Line) /\ Tail(pump[i].sending) \in Seq(Seq(Line))
      BY <2>2, HeadTailProperties
    <2>4. p \in PumpType
      BY <1>1, <2>3 DEF PumpType
    <2>5. o \in Seq(Seq(Line)) /\ Len(o) = Len(out[i]) + 1
      BY <1>1, <2>3, AppendProperties
    <2>. HIDE DEF p, o
    <2>6. Len(o) <= OutCap
      BY <1>1, <1>4, <2>2, <2>5
    <2>. QED BY <1>1, <1>5, <2>1, <2>4, <2>5, <2>6
  <1>10. CASE PumpEnds(i)
    <2>. DEFINE p == [NoPump EXCEPT !.err = pump[i].err]
                o == IF closed[i] THEN <<>> ELSE out[i]
    <2>1. /\ source' = source /\ lines' = [lines EXCEPT ![i] = <<>>]
          /\ pump' = [pump EXCEPT ![i] = p] /\ out' = [out EXCEPT ![i] = o]
      BY <1>10 DEF PumpEnds
    <2>2. p \in PumpType
      BY <1>1, EmptySeq DEF PumpType, NoPump
    <2>3. o \in Seq(Seq(Line)) /\ Len(o) <= OutCap /\ <<>> \in Seq(Line) /\ Len(<<>>) <= Len(lines[i])
      BY <1>1, <1>4, EmptySeq
    <2>. HIDE DEF p, o
    <2>. QED BY <1>1, <1>5, <2>1, <2>2, <2>3
  <1>. QED BY <1>6, <1>7, <1>8, <1>9, <1>10 DEF Plumbing

\* Nothing of a second attempt is there as long as the first is made.
Second ==
    handler.attempt = 1 =>
        /\ source[2] = NoSource /\ pump[2] = NoPump /\ ~closed[2]
        /\ lines[2] = <<>> /\ out[2] = <<>> /\ said[2] = <<>>

\* Cancellation leaves of the goroutines only whether they still run.
LEMMA CancelType ==
    ASSUME TypeInv, NEW reason \in {"gone", "ended"}, Cancel(reason)
    PROVE  /\ ctx' \in {"live", "gone", "ended"}
           /\ source' \in [Attempts -> SourceType] /\ pump' \in [Attempts -> PumpType]
           /\ lines' \in [Attempts -> Seq(Line)] /\ out' \in [Attempts -> Seq(Seq(Line))]
           /\ \A i \in Attempts : Len(lines'[i]) = 0 /\ Len(out'[i]) = 0
  <1>1. <<>> \in Seq(Line) /\ <<>> \in Seq(Seq(Line)) /\ Len(<<>>) = 0
    BY EmptySeq
  <1>2. \A i \in Attempts : source[i].on \in BOOLEAN /\ pump[i].on \in BOOLEAN
    BY DEF TypeInv, TypeOK
  <1>3. \A i \in Attempts : [NoSource EXCEPT !.on = source[i].on] \in SourceType
    BY <1>2, BoundsAssumption DEF NoSource, SourceType
  <1>4. \A i \in Attempts : [NoPump EXCEPT !.on = pump[i].on] \in PumpType
    BY <1>1, <1>2 DEF NoPump, PumpType
  <1>5. \A i \in Attempts : lines'[i] = <<>> /\ out'[i] = <<>>
    BY DEF Cancel
  <1>. QED BY <1>1, <1>3, <1>4, <1>5 DEF Cancel

\* The handler returns.
LEMMA ReturnType ==
    ASSUME TypeInv, NEW ending \in {"finish", "failed"}, NEW status \in {"success", "error"},
           Return(ending, status), closed' \in [Attempts -> BOOLEAN],
           cut' \in {"no", "silent", "idle", "gone", "broken", "error"}, UNCHANGED <<said, budget>>
    PROVE  TypeInv'
  <1>1. Cancel("ended") /\ history' = status
        /\ handler' = [handler EXCEPT !.pc = "over"]
        /\ client' = [client EXCEPT !.ending = ending, !.endings = @ + 1]
    BY DEF Return
  <1>2. /\ ctx' \in {"live", "gone", "ended"}
        /\ source' \in [Attempts -> SourceType] /\ pump' \in [Attempts -> PumpType]
        /\ lines' \in [Attempts -> Seq(Line)] /\ out' \in [Attempts -> Seq(Seq(Line))]
        /\ \A i \in Attempts : Len(lines'[i]) = 0 /\ Len(out'[i]) = 0
    BY <1>1, CancelType
  <1>3. LineCap \in Nat /\ OutCap \in Nat
    BY BoundsAssumption
  <1>4. \A i \in Attempts : Len(lines'[i]) <= LineCap /\ Len(lines'[i]) <= LineCap + 1 /\ Len(out'[i]) <= OutCap
    BY <1>2, <1>3
  <1>5. handler' \in [pc : {"consume", "retry", "over"}, attempt : Attempts,
                      seen : BOOLEAN, quiet : 0..(MaxQuiet + IdleTicks)]
    BY <1>1 DEF TypeInv, TypeOK
  <1>6. client' \in [text : Seq(1..MaxLines), ending : {"none", "finish", "failed"}, endings : Nat]
    <2>1. client \in [text : Seq(1..MaxLines), ending : {"none", "finish", "failed"}, endings : Nat]
      BY DEF TypeInv, TypeOK
    <2>2. client.endings + 1 \in Nat
      BY <2>1
    <2>. QED BY <1>1, <2>1, <2>2
  <1>7. history' \in {"streaming", "success", "error", "stopped"}
    BY <1>1
  <1>. QED BY <1>2, <1>4, <1>5, <1>6, <1>7 DEF TypeInv, TypeOK, Fits, SourceType, PumpType

LEMMA FinalizeType ==
    ASSUME TypeInv, NEW reason, NEW why \in {"no", "silent", "idle", "gone", "broken", "error"},
           Finalize(reason, why)
    PROVE  TypeInv'
  <1>1. closed' \in [Attempts -> BOOLEAN] /\ cut' = why /\ UNCHANGED <<said, budget>>
    BY DEF Finalize, TypeInv, TypeOK
  <1>2. CASE Return("finish", "success") \/ Return("failed", "error")
    BY <1>1, <1>2, ReturnType
  <1>3. CASE /\ handler' = [handler EXCEPT !.pc = "retry"]
             /\ history' = IF why = "gone" THEN "stopped" ELSE history
             /\ UNCHANGED <<ctx, client, source, lines, pump, out>>
    <2>1. handler' \in [pc : {"consume", "retry", "over"}, attempt : Attempts,
                        seen : BOOLEAN, quiet : 0..(MaxQuiet + IdleTicks)]
      BY <1>3 DEF TypeInv, TypeOK
    <2>2. history' \in {"streaming", "success", "error", "stopped"}
      BY <1>3 DEF TypeInv, TypeOK
    <2>. QED BY <1>1, <1>3, <2>1, <2>2 DEF TypeInv, TypeOK, Fits
  <1>. QED BY <1>2, <1>3 DEF Finalize

LEMMA HandlerType ==
    ASSUME TypeInv, Second, Consume \/ Tick \/ Retry \/ ClientLeaves, handler.pc = "retry" => handler.attempt = 1
    PROVE  TypeInv'
  <1>1. CASE ContextDone
    BY <1>1, FinalizeType DEF ContextDone
  <1>2. CASE StopLine
    BY <1>2, FinalizeType DEF StopLine
  <1>3. CASE Drained
    <2>1. PICK why \in {"no", "silent", "idle", "gone", "broken", "error"} : Finalize("stop", why)
      BY <1>3 DEF Drained
    <2>. QED BY <2>1, FinalizeType
  <1>4. CASE Relay
    <2>. DEFINE i == handler.attempt
    <2>1. /\ i \in Attempts /\ out[i] \in Seq(Seq(Line)) /\ out[i] # <<>> /\ Len(out[i]) <= OutCap
          /\ out' = [out EXCEPT ![i] = Tail(out[i])]
          /\ client' = [client EXCEPT !.text = client.text \o TextOf(Head(out[i]))]
          /\ client.text \in Seq(1..MaxLines)
          /\ UNCHANGED <<ctx, source, lines, pump, closed, history, cut, said, budget>>
      BY <1>4 DEF Relay, Arrived, TypeInv, TypeOK
    <2>. HIDE DEF i
    <2>2. /\ Head(out[i]) \in Seq(Line) /\ Tail(out[i]) \in Seq(Seq(Line))
          /\ Len(Tail(out[i])) = Len(out[i]) - 1 /\ Len(out[i]) \in Nat
      BY <2>1, HeadTailProperties, LenProperties
    <2>3. TextOf(Head(out[i])) \in Seq(1..MaxLines)
      BY <2>2, TextType DEF Text
    <2>4. client.text \o TextOf(Head(out[i])) \in Seq(1..MaxLines)
      BY <2>1, <2>3, ConcatProperties
    <2>5. client' \in [text : Seq(1..MaxLines), ending : {"none", "finish", "failed"}, endings : Nat]
      BY <2>1, <2>4 DEF TypeInv, TypeOK
    <2>6. Len(Tail(out[i])) <= OutCap
      BY <2>1, <2>2, BoundsAssumption
    <2>7. out' \in [Attempts -> Seq(Seq(Line))] /\ \A k \in Attempts : Len(out'[k]) <= OutCap
      BY <2>1, <2>2, <2>6 DEF TypeInv, TypeOK
    <2>8. handler' \in [pc : {"consume", "retry", "over"}, attempt : Attempts,
                        seen : BOOLEAN, quiet : 0..(MaxQuiet + IdleTicks)]
      <3>1. handler' = [handler EXCEPT !.seen = TRUE, !.quiet = 0] \/ handler' = handler
        BY <1>4 DEF Relay
      <3>2. 0 \in 0..(MaxQuiet + IdleTicks)
        BY BoundsAssumption
      <3>. QED BY <3>1, <3>2 DEF TypeInv, TypeOK
    <2>. QED BY <2>1, <2>5, <2>7, <2>8 DEF TypeInv, TypeOK, Fits
  <1>5. CASE Tick
    <2>1. CASE Finalize("stop", "silent") \/ Finalize("stop", "idle")
      BY <2>1, FinalizeType
    <2>2. CASE /\ handler' = [handler EXCEPT !.quiet = @ + 1]
               /\ UNCHANGED <<ctx, channels, client, history, cut, said, budget>>
               /\ ~(~handler.seen /\ handler.quiet + 1 >= MaxQuiet)
               /\ ~(handler.seen /\ handler.quiet >= IdleTicks)
      <3>1. handler.quiet \in 0..(MaxQuiet + IdleTicks) /\ handler.seen \in BOOLEAN
            /\ MaxQuiet \in Nat \ {0} /\ IdleTicks \in Nat \ {0}
        BY BoundsAssumption DEF TypeInv, TypeOK
      <3>2. handler.quiet + 1 \in 0..(MaxQuiet + IdleTicks)
        BY <2>2, <3>1
      <3>3. handler' \in [pc : {"consume", "retry", "over"}, attempt : Attempts,
                          seen : BOOLEAN, quiet : 0..(MaxQuiet + IdleTicks)]
        BY <2>2, <3>2 DEF TypeInv, TypeOK
      <3>. QED BY <2>2, <3>3 DEF TypeInv, TypeOK, Fits, channels
    <2>. QED BY <1>5, <2>1, <2>2 DEF Tick
  <1>6. CASE RetryOpens
    <2>1. /\ handler' = [pc |-> "consume", attempt |-> 2, seen |-> FALSE, quiet |-> 0]
          /\ source' = [source EXCEPT ![2].on = TRUE] /\ pump' = [pump EXCEPT ![2].on = TRUE]
          /\ cut' = "no"
          /\ UNCHANGED <<ctx, lines, out, closed, client, history, said, budget>>
      BY <1>6 DEF RetryOpens
    <2>2. handler' \in [pc : {"consume", "retry", "over"}, attempt : Attempts,
                        seen : BOOLEAN, quiet : 0..(MaxQuiet + IdleTicks)]
      BY <2>1, BoundsAssumption DEF Attempts
    <2>3. 2 \in Attempts /\ source[2] \in SourceType /\ pump[2] \in PumpType
      BY DEF TypeInv, TypeOK, SourceType, PumpType, Attempts
    <2>4. source' = [source EXCEPT ![2] = [source[2] EXCEPT !.on = TRUE]] /\ [source[2] EXCEPT !.on = TRUE] \in SourceType
      BY <2>1, <2>3 DEF SourceType
    <2>5. pump' = [pump EXCEPT ![2] = [pump[2] EXCEPT !.on = TRUE]] /\ [pump[2] EXCEPT !.on = TRUE] \in PumpType
      BY <2>1, <2>3 DEF PumpType
    <2>6. source' \in [Attempts -> SourceType] /\ pump' \in [Attempts -> PumpType]
      BY <2>4, <2>5 DEF TypeInv, TypeOK, SourceType, PumpType
    <2>7. lines[2] = <<>> /\ LineCap \in Nat /\ Len(<<>>) = 0
      BY <1>6, BoundsAssumption, EmptySeq DEF RetryOpens, Second
    <2>8. \A i \in Attempts : source'[i].on => Len(lines[i]) <= LineCap
      <3>1. \A i \in Attempts : i # 2 => source'[i] = source[i]
        BY <2>4 DEF TypeInv, TypeOK
      <3>. QED BY <2>7, <3>1 DEF TypeInv, Fits
    <2>. QED BY <2>1, <2>2, <2>6, <2>8 DEF TypeInv, TypeOK, Fits, SourceType, PumpType
  <1>7. CASE RetryFails
    <2>1. Return("failed", "error") /\ closed' = closed /\ cut' = cut /\ UNCHANGED <<said, budget>>
      BY <1>7 DEF RetryFails
    <2>2. closed' \in [Attempts -> BOOLEAN] /\ cut' \in {"no", "silent", "idle", "gone", "broken", "error"}
      BY <2>1 DEF TypeInv, TypeOK
    <2>. QED BY <2>1, <2>2, ReturnType
  <1>8. CASE ClientLeaves
    <2>1. Cancel("gone") /\ UNCHANGED <<closed, handler, client, history, cut, said, budget>>
      BY <1>8 DEF ClientLeaves
    <2>2. /\ ctx' \in {"live", "gone", "ended"}
          /\ source' \in [Attempts -> SourceType] /\ pump' \in [Attempts -> PumpType]
          /\ lines' \in [Attempts -> Seq(Line)] /\ out' \in [Attempts -> Seq(Seq(Line))]
          /\ \A i \in Attempts : Len(lines'[i]) = 0 /\ Len(out'[i]) = 0
      BY <2>1, CancelType
    <2>3. LineCap \in Nat /\ OutCap \in Nat
      BY BoundsAssumption
    <2>4. \A i \in Attempts : Len(lines'[i]) <= LineCap /\ Len(lines'[i]) <= LineCap + 1 /\ Len(out'[i]) <= OutCap
      BY <2>2, <2>3
    <2>. QED BY <2>1, <2>2, <2>4 DEF TypeInv, TypeOK, Fits, SourceType, PumpType
  <1>. QED BY <1>1, <1>2, <1>3, <1>4, <1>5, <1>6, <1>7, <1>8 DEF Consume, Retry

-----------------------------------------------------------------------------
\* The inductive invariant of the stream

Streaming(i) == Consuming /\ ctx = "live" /\ i = handler.attempt
SourceOver(i) == ~source[i].on \/ source[i].status = "finished"
Pipe(i) == PipeOf(out[i], pump[i].sending, pump[i].pending, lines[i])
NoneEmpty(q) == \A k \in DOMAIN q : q[k] # <<>>
Ended(i) == pump[i].last \/ ~pump[i].on

\* The body of the attempt that is consumed is open.
Open == Consuming => ~closed[handler.attempt]

\* No result is empty.
Shape == \A i \in Attempts : NoneEmpty(out[i]) /\ NoneEmpty(pump[i].sending)

\* As long as the client is there, its text and what the channels of the
\* attempt hold make up what DeepSeek said.
Flow == \A i \in Attempts : Streaming(i) => Good(client.text, said[i], Pipe(i), SourceOver(i))

\* When the pump has seen the end of the lines, nothing was left behind.
Ends ==
    \A i \in Attempts : Streaming(i) /\ Ended(i) =>
        /\ SourceOver(i) /\ pump[i].pending = <<>> /\ Quiet(lines[i])
        /\ ~pump[i].on => pump[i].sending = <<>>

\* What the client has is the beginning of what was said.
Begun == \E rest \in Seq(Text) : said[handler.attempt] = client.text \o rest

StreamInv ==
    /\ TypeInv /\ EndingInv /\ Second /\ Open /\ Shape /\ Flow /\ Ends
    /\ Begun /\ FinishedIsComplete

LEMMA Stages ==
    ASSUME TypeInv, NEW i \in Attempts
    PROVE  /\ source[i] \in SourceType /\ lines[i] \in Seq(Line) /\ pump[i] \in PumpType
           /\ pump[i].pending \in Seq(Line) /\ pump[i].sending \in Seq(Seq(Line))
           /\ out[i] \in Seq(Seq(Line)) /\ said[i] \in Seq(Text) /\ client.text \in Seq(Text)
           /\ Pipe(i) \in Seq(Line) /\ DOMAIN source = Attempts /\ DOMAIN pump = Attempts
           /\ DOMAIN lines = Attempts /\ DOMAIN out = Attempts /\ DOMAIN said = Attempts
           /\ handler.attempt \in Attempts
  <1>1. /\ source[i] \in SourceType /\ lines[i] \in Seq(Line) /\ pump[i] \in PumpType
        /\ out[i] \in Seq(Seq(Line)) /\ said[i] \in Seq(Text) /\ client.text \in Seq(Text)
        /\ DOMAIN source = Attempts /\ DOMAIN pump = Attempts
        /\ DOMAIN lines = Attempts /\ DOMAIN out = Attempts /\ DOMAIN said = Attempts
        /\ handler.attempt \in Attempts
    BY DEF TypeInv, TypeOK, SourceType, PumpType, Text
  <1>2. pump[i].pending \in Seq(Line) /\ pump[i].sending \in Seq(Seq(Line))
    BY <1>1 DEF PumpType
  <1>3. Pipe(i) \in Seq(Line)
    BY <1>1, <1>2, PipeType DEF Pipe
  <1>. QED BY <1>1, <1>2, <1>3

\* What a step of the stages of attempt i leaves alone.
LEMMA StageFrame ==
    ASSUME StreamInv, NEW i \in Attempts, Upstream(i) \/ Plumbing(i)
    PROVE  /\ UNCHANGED <<ctx, closed, handler, client, history, cut>>
           /\ \A k \in Attempts : Streaming(k)' <=> Streaming(k)
           /\ \A k \in Attempts : k # i =>
                 /\ source'[k] = source[k] /\ pump'[k] = pump[k] /\ lines'[k] = lines[k]
                 /\ out'[k] = out[k] /\ said'[k] = said[k]
           /\ source[i].on \/ pump[i].on
  <1>1. UNCHANGED <<ctx, closed, handler, client, history, cut>>
    BY DEF Upstream, Speak, Continue, BodyEnds, BodyBreaks, PipeClosed,
           Plumbing, SourceAborts, TakeLine, FlushTick, sendResult, PumpEnds
  <1>2. \A k \in Attempts : Streaming(k)' <=> Streaming(k)
    BY <1>1 DEF Streaming, Consuming
  <1>3. ASSUME NEW k \in Attempts, k # i
        PROVE  /\ source'[k] = source[k] /\ pump'[k] = pump[k] /\ lines'[k] = lines[k]
               /\ out'[k] = out[k] /\ said'[k] = said[k]
    <2>1. CASE Upstream(i)
      BY <1>3, <2>1 DEF Upstream, Speak, Continue, BodyEnds, BodyBreaks, PipeClosed, StreamInv, TypeInv, TypeOK
    <2>2. CASE Plumbing(i)
      BY <1>3, <2>2 DEF Plumbing, SourceAborts, TakeLine, FlushTick, sendResult, PumpEnds,
                        StreamInv, TypeInv, TypeOK
    <2>. QED BY <2>1, <2>2
  <1>4. source[i].on \/ pump[i].on
    BY DEF Upstream, Speak, Continue, BodyEnds, BodyBreaks, PipeClosed,
           Plumbing, SourceAborts, TakeLine, FlushTick, sendResult, PumpEnds, Selecting
  <1>. QED BY <1>1, <1>2, <1>3, <1>4

\* What is left to show of such a step: its effect on the stages of attempt i.
LEMMA StageKeeps ==
    ASSUME StreamInv, NEW i \in Attempts, Upstream(i) \/ Plumbing(i),
           NoneEmpty(out'[i]), NoneEmpty(pump'[i].sending),
           Streaming(i) =>
               /\ Good(client.text, said'[i], Pipe(i)', SourceOver(i)')
               /\ Ended(i)' =>
                     /\ SourceOver(i)' /\ pump'[i].pending = <<>> /\ Quiet(lines'[i])
                     /\ ~pump'[i].on => pump'[i].sending = <<>>,
           said' = said \/ (ctx = "live" /\ \E n \in Text : said' = [said EXCEPT ![i] = Append(@, n)])
    PROVE  StreamInv'
  <1>1. /\ UNCHANGED <<ctx, closed, handler, client, history, cut>>
        /\ \A k \in Attempts : Streaming(k)' <=> Streaming(k)
        /\ \A k \in Attempts : k # i =>
              /\ source'[k] = source[k] /\ pump'[k] = pump[k] /\ lines'[k] = lines[k]
              /\ out'[k] = out[k] /\ said'[k] = said[k]
        /\ source[i].on \/ pump[i].on
    BY StageFrame
  <1>2. TypeInv'
    BY UpstreamType, PlumbingType DEF StreamInv
  <1>3. EndingInv'
    BY StageStep DEF StreamInv
  <1>4. Second'
    <2>. SUFFICES ASSUME handler.attempt = 1 PROVE Second'
      BY <1>1 DEF Second
    <2>1. source[2] = NoSource /\ pump[2] = NoPump
      BY DEF StreamInv, Second
    <2>2. ~source[2].on /\ ~pump[2].on /\ 2 \in Attempts
      BY <2>1 DEF NoSource, NoPump, Attempts
    <2>3. i # 2
      BY <1>1, <2>2
    <2>4. /\ source'[2] = source[2] /\ pump'[2] = pump[2] /\ lines'[2] = lines[2]
          /\ out'[2] = out[2] /\ said'[2] = said[2] /\ closed'[2] = closed[2]
      BY <1>1, <2>2, <2>3
    <2>. QED BY <1>1, <2>4 DEF StreamInv, Second
  <1>5. Open'
    BY <1>1 DEF StreamInv, Open, Consuming
  <1>6. Shape'
    BY <1>1 DEF StreamInv, Shape, NoneEmpty
  <1>7. Flow'
    <2>. SUFFICES ASSUME NEW k \in Attempts, Streaming(k)'
                  PROVE  Good(client.text, said'[k], Pipe(k)', SourceOver(k)')
      BY <1>1 DEF Flow
    <2>1. Streaming(k)
      BY <1>1
    <2>2. CASE k = i
      BY <2>1, <2>2
    <2>3. CASE k # i
      <3>1. Pipe(k)' = Pipe(k) /\ (SourceOver(k)' <=> SourceOver(k)) /\ said'[k] = said[k]
        BY <1>1, <2>3 DEF Pipe, SourceOver
      <3>. QED BY <2>1, <3>1 DEF StreamInv, Flow, Good
    <2>. QED BY <2>2, <2>3
  <1>8. Ends'
    <2>. SUFFICES ASSUME NEW k \in Attempts, Streaming(k)', Ended(k)'
                  PROVE  /\ SourceOver(k)' /\ pump'[k].pending = <<>> /\ Quiet(lines'[k])
                         /\ ~pump'[k].on => pump'[k].sending = <<>>
      BY DEF Ends
    <2>1. Streaming(k)
      BY <1>1
    <2>2. CASE k = i
      BY <2>1, <2>2
    <2>3. CASE k # i
      <3>1. Ended(k) /\ (SourceOver(k)' <=> SourceOver(k)) /\ pump'[k] = pump[k] /\ lines'[k] = lines[k]
        BY <1>1, <2>3 DEF Ended, SourceOver
      <3>. QED BY <2>1, <3>1 DEF StreamInv, Ends
    <2>. QED BY <2>2, <2>3
  <1>9. Begun'
    <2>1. PICK rest \in Seq(Text) : said[handler.attempt] = client.text \o rest
      BY DEF StreamInv, Begun
    <2>2. CASE said' = said
      BY <1>1, <2>1, <2>2 DEF Begun
    <2>3. ASSUME NEW n \in Text, said' = [said EXCEPT ![i] = Append(@, n)] PROVE Begun'
      <3>1. CASE i # handler.attempt
        BY <1>1, <2>1, <2>3, <3>1, Stages DEF Begun, StreamInv
      <3>2. CASE i = handler.attempt
        <4>1. PICK text \in Seq(Text) : text = client.text
          BY Stages DEF StreamInv
        <4>2. said'[i] = Append(text \o rest, n)
          BY <2>1, <2>3, <3>2, <4>1, Stages DEF StreamInv
        <4>3. PICK e \in Seq(Text) : e = <<n>>
          <5>1. <<n>> \in Seq(Text)
            OBVIOUS
          <5>. QED BY <5>1
        <4>4. Append(text \o rest, n) = (text \o rest) \o e
          BY <4>3, ConcatProperties, AppendIsConcat
        <4>5. (text \o rest) \o e = text \o (rest \o e)
          BY ConcatAssociative
        <4>6. rest \o e \in Seq(Text)
          BY ConcatProperties
        <4>. QED BY <1>1, <3>2, <4>1, <4>2, <4>4, <4>5, <4>6 DEF Begun
      <3>. QED BY <3>1, <3>2
    <2>. QED BY <2>2, <2>3
  <1>10. FinishedIsComplete'
    <2>1. CASE said' = said
      BY <1>1, <2>1 DEF StreamInv, FinishedIsComplete
    <2>2. CASE ctx = "live"
      <3>1. client.ending = "none"
        BY <2>2 DEF StreamInv, EndingInv, Unended
      <3>. QED BY <1>1, <3>1 DEF FinishedIsComplete
    <2>. QED BY <2>1, <2>2
  <1>. QED BY <1>2, <1>3, <1>4, <1>5, <1>6, <1>7, <1>8, <1>9, <1>10 DEF StreamInv

\* Lines that enter the pipe.
LEMMA UpstreamStream ==
    ASSUME StreamInv, NEW i \in Attempts, Upstream(i)
    PROVE  StreamInv'
  <1>1. /\ source[i] \in SourceType /\ lines[i] \in Seq(Line) /\ pump[i] \in PumpType
        /\ pump[i].pending \in Seq(Line) /\ pump[i].sending \in Seq(Seq(Line))
        /\ out[i] \in Seq(Seq(Line)) /\ said[i] \in Seq(Text) /\ client.text \in Seq(Text)
        /\ Pipe(i) \in Seq(Line) /\ DOMAIN source = Attempts /\ DOMAIN pump = Attempts
        /\ DOMAIN lines = Attempts /\ DOMAIN out = Attempts /\ DOMAIN said = Attempts
    BY Stages DEF StreamInv
  <1>2. NoneEmpty(out[i]) /\ NoneEmpty(pump[i].sending)
    BY DEF StreamInv, Shape
  <1>3. pump' = pump /\ out' = out
    BY DEF Upstream, Speak, Continue, BodyEnds, BodyBreaks, PipeClosed
  <1>4. Streaming(i) => Good(client.text, said[i], Pipe(i), SourceOver(i))
    BY DEF StreamInv, Flow
  <1>5. Streaming(i) /\ Ended(i) =>
            /\ SourceOver(i) /\ pump[i].pending = <<>> /\ Quiet(lines[i])
            /\ ~pump[i].on => pump[i].sending = <<>>
    BY DEF StreamInv, Ends
  <1>6. ASSUME NEW m \in Seq(Line), lines' = [lines EXCEPT ![i] = lines[i] \o m]
        PROVE  Pipe(i)' = Pipe(i) \o m
    <2>1. lines'[i] = lines[i] \o m
      BY <1>1, <1>6
    <2>2. Pipe(i)' = PipeOf(out[i], pump[i].sending, pump[i].pending, lines[i] \o m)
      BY <1>3, <2>1 DEF Pipe
    <2>3. PipeOf(out[i], pump[i].sending, pump[i].pending, lines[i] \o m)
            = PipeOf(out[i], pump[i].sending, pump[i].pending, lines[i]) \o m
      <3>1. PICK o \in Seq(Seq(Line)) : o = out[i]
        BY <1>1
      <3>2. PICK s \in Seq(Seq(Line)) : s = pump[i].sending
        BY <1>1
      <3>3. PICK p \in Seq(Line) : p = pump[i].pending
        BY <1>1
      <3>4. PICK l \in Seq(Line) : l = lines[i]
        BY <1>1
      <3>5. PipeOf(o, s, p, l \o m) = PipeOf(o, s, p, l) \o m
        BY PipeAppend, ZenonT(30)
      <3>. QED BY <3>1, <3>2, <3>3, <3>4, <3>5
    <2>. QED BY <2>2, <2>3 DEF Pipe
  <1>7. ASSUME NEW m \in Seq(Line), lines' = [lines EXCEPT ![i] = lines[i] \o m], Quiet(m),
               ~source'[i].on, said' = said
        PROVE  StreamInv'
    <2>1. SourceOver(i)'
      BY <1>7 DEF SourceOver
    <2>2. StopsLast(m) /\ TextOf(m) = <<>>
      BY <1>7, TextQuiet DEF Quiet, StopsLast
    <2>3. said[i] \o TextOf(m) = said[i]
      BY <1>1, <2>2, ConcatEmptySeq
    <2>4. ASSUME Streaming(i) PROVE Good(client.text, said'[i], Pipe(i)', SourceOver(i)')
      <3>1. Good(client.text, said[i] \o TextOf(m), Pipe(i) \o m, SourceOver(i)')
        BY <1>1, <1>4, <1>7, <2>1, <2>2, <2>4, GoodAppend
      <3>. QED BY <1>6, <1>7, <2>3, <3>1
    <2>5. ASSUME Streaming(i), Ended(i)' PROVE
             /\ SourceOver(i)' /\ pump'[i].pending = <<>> /\ Quiet(lines'[i])
             /\ ~pump'[i].on => pump'[i].sending = <<>>
      <3>1. Ended(i)
        BY <1>3, <2>5 DEF Ended
      <3>2. lines'[i] = lines[i] \o m /\ Quiet(lines[i])
        BY <1>1, <1>5, <1>7, <2>5, <3>1
      <3>3. \A k \in DOMAIN (lines[i] \o m) :
              \/ k \in DOMAIN lines[i] /\ (lines[i] \o m)[k] = lines[i][k]
              \/ k - Len(lines[i]) \in DOMAIN m /\ (lines[i] \o m)[k] = m[k - Len(lines[i])]
        BY <1>1, LineAt
      <3>4. Quiet(lines'[i])
        BY <1>7, <3>2, <3>3 DEF Quiet
      <3>. QED BY <1>3, <1>5, <2>1, <2>5, <3>1, <3>4
    <2>6. NoneEmpty(out'[i]) /\ NoneEmpty(pump'[i].sending)
      BY <1>2, <1>3
    <2>. QED BY <1>7, <2>4, <2>5, <2>6, StageKeeps
  <1>8. CASE Speak(i)
    <2>1. PICK line \in {L(k) : k \in Spoken} \cup {[kind |-> "text", n |-> MaxLines - budget + 1]} :
             /\ source' = [source EXCEPT ![i] = Observed(source[i], line.kind)]
             /\ lines' = [lines EXCEPT ![i] = Append(lines[i], line)]
             /\ said' = IF line.kind = "text" THEN [said EXCEPT ![i] = Append(@, line.n)] ELSE said
      BY <1>1, <1>8 DEF Speak
    <2>2. ctx = "live" /\ ~SourceOver(i) /\ budget > 0
      BY <1>8 DEF Speak, SourceOver
    <2>3. line \in Line /\ (line.kind = "text" => line.n \in Text)
          /\ line.kind \notin {"done", "eof", "broken"}
      <3>1. \A k \in Spoken : L(k) \in Line /\ L(k).kind \notin {"text", "done", "eof", "broken"}
        BY DEF L, Line, Spoken, Signals
      <3>2. budget \in 0..MaxLines /\ MaxLines \in Nat
        BY BoundsAssumption DEF StreamInv, TypeInv, TypeOK
      <3>3. MaxLines - budget + 1 \in 1..MaxLines
        BY <2>2, <3>2
      <3>. QED BY <3>1, <3>3 DEF Line, Text
    <2>4. PICK m \in Seq(Line) : m = <<line>> /\ TextOf(m) = Visible(line) /\ m[1] = line /\ \A k \in DOMAIN m : k = 1
      <3>1. <<line>> \in Seq(Line) /\ TextOf(<<line>>) = Visible(line)
        BY <2>3, TextOne
      <3>2. Len(<<line>>) = 1 /\ <<line>>[1] = line /\ \A k \in DOMAIN <<line>> : k = 1
        OBVIOUS
      <3>. QED BY <3>1, <3>2
    <2>5. lines' = [lines EXCEPT ![i] = lines[i] \o m]
      <3>1. Append(lines[i], line) = lines[i] \o <<line>>
        BY <1>1, <2>3, AppendIsConcat
      <3>. QED BY <2>1, <2>4, <3>1
    <2>6. StopsLast(m)
      BY <2>4 DEF StopsLast
    <2>7. HasStop(m) => SourceOver(i)'
      <3>1. HasStop(m) => line.kind \in {"finished", "filter"}
        BY <2>3, <2>4 DEF HasStop, Stops
      <3>2. source'[i] = Observed(source[i], line.kind)
        BY <1>1, <2>1
      <3>3. line.kind \in {"finished", "filter"} => source'[i].status = "finished"
        BY <1>1, <3>2 DEF Observed, SourceType
      <3>. QED BY <3>1, <3>3 DEF SourceOver
    <2>8. said'[i] = said[i] \o TextOf(m)
      <3>1. CASE line.kind = "text"
        <4>1. said'[i] = Append(said[i], line.n) /\ TextOf(m) = <<line.n>>
          BY <1>1, <2>1, <2>4, <3>1 DEF Visible
        <4>. QED BY <1>1, <2>3, <3>1, <4>1, AppendIsConcat
      <3>2. CASE line.kind # "text"
        <4>1. said'[i] = said[i] /\ TextOf(m) = <<>>
          BY <2>1, <2>4, <3>2 DEF Visible
        <4>. QED BY <1>1, <4>1, ConcatEmptySeq
      <3>. QED BY <3>1, <3>2
    <2>9. ASSUME Streaming(i) PROVE Good(client.text, said'[i], Pipe(i)', SourceOver(i)')
      <3>1. Good(client.text, said[i] \o TextOf(m), Pipe(i) \o m, SourceOver(i)')
        BY <1>1, <1>4, <2>2, <2>6, <2>7, <2>9, GoodAppend
      <3>. QED BY <1>6, <2>5, <2>8, <3>1
    <2>10. ~(Streaming(i) /\ Ended(i)')
      BY <1>3, <1>5, <2>2 DEF Ended
    <2>11. NoneEmpty(out'[i]) /\ NoneEmpty(pump'[i].sending)
      BY <1>2, <1>3
    <2>12. said' = said \/ (ctx = "live" /\ \E n \in Text : said' = [said EXCEPT ![i] = Append(@, n)])
      BY <2>1, <2>2, <2>3
    <2>. QED BY <2>9, <2>10, <2>11, <2>12, StageKeeps
  <1>9. CASE Continue(i)
    <2>1. ~SourceOver(i) /\ lines' = lines /\ said' = said
      BY <1>9 DEF Continue, shouldContinue, SourceOver
    <2>2. Pipe(i)' = Pipe(i)
      BY <1>3, <2>1 DEF Pipe
    <2>3. ASSUME Streaming(i) PROVE Good(client.text, said'[i], Pipe(i)', SourceOver(i)')
      BY <1>4, <2>1, <2>2, <2>3 DEF Good
    <2>4. ~(Streaming(i) /\ Ended(i)')
      BY <1>3, <1>5, <2>1 DEF Ended
    <2>5. NoneEmpty(out'[i]) /\ NoneEmpty(pump'[i].sending)
      BY <1>2, <1>3
    <2>. QED BY <2>1, <2>3, <2>4, <2>5, StageKeeps
  <1>10. \A kind \in {"done", "eof", "broken"} :
            /\ L(kind) \in Line /\ <<L(kind)>> \in Seq(Line) /\ Quiet(<<L(kind)>>)
            /\ Len(<<L(kind)>>) = 1 /\ <<L(kind)>>[1].kind # "text"
    BY TextOne DEF L, Line, Signals, Quiet
  <1>11. CASE BodyEnds(i)
    <2>1. PICK hadDone \in {<<>>, <<L("done")>>} :
             lines' = [lines EXCEPT ![i] = lines[i] \o hadDone \o <<L("eof")>>]
      BY <1>1, <1>11 DEF BodyEnds
    <2>2. hadDone \in Seq(Line) /\ Quiet(hadDone)
      <3>1. <<>> \in Seq(Line) /\ Quiet(<<>>)
        BY EmptySeq DEF Quiet
      <3>. QED BY <1>10, <3>1
    <2>3. PICK a \in Seq(Line) : a = hadDone /\ Quiet(a)
      BY <2>2
    <2>4. PICK e \in Seq(Line) : e = <<L("eof")>> /\ Quiet(e)
      BY <1>10
    <2>5. (lines[i] \o a) \o e = lines[i] \o (a \o e) /\ a \o e \in Seq(Line)
      BY <1>1, LineAssociative, ConcatProperties
    <2>6. Quiet(a \o e)
      <3>1. \A k \in DOMAIN (a \o e) :
              \/ k \in DOMAIN a /\ (a \o e)[k] = a[k]
              \/ k - Len(a) \in DOMAIN e /\ (a \o e)[k] = e[k - Len(a)]
        BY LineAt
      <3>. QED BY <2>3, <2>4, <3>1 DEF Quiet
    <2>7. PICK m \in Seq(Line) : m = a \o e
      BY <2>5
    <2>8. lines' = [lines EXCEPT ![i] = lines[i] \o m]
      BY <2>1, <2>3, <2>4, <2>5, <2>7
    <2>9. ~source'[i].on /\ said' = said
      BY <1>1, <1>11 DEF BodyEnds, SourceType
    <2>. QED BY <1>7, <2>6, <2>7, <2>8, <2>9
  <1>12. CASE BodyBreaks(i) \/ PipeClosed(i)
    <2>1. lines' = [lines EXCEPT ![i] = Append(lines[i], L("broken"))] /\ said' = said /\ ~source'[i].on
      BY <1>1, <1>12 DEF BodyBreaks, PipeClosed, SourceType
    <2>2. PICK m \in Seq(Line) : m = <<L("broken")>> /\ Quiet(m)
      BY <1>10
    <2>3. lines' = [lines EXCEPT ![i] = lines[i] \o m]
      BY <1>1, <1>10, <2>1, <2>2, AppendIsConcat
    <2>. QED BY <1>7, <2>1, <2>2, <2>3
  <1>. QED BY <1>8, <1>9, <1>11, <1>12 DEF Upstream

\* From the lines to the consume loop, nothing is lost and nothing overtakes.
LEMMA PlumbingStream ==
    ASSUME StreamInv, NEW i \in Attempts, Plumbing(i)
    PROVE  StreamInv'
  <1>1. /\ source[i] \in SourceType /\ lines[i] \in Seq(Line) /\ pump[i] \in PumpType
        /\ pump[i].pending \in Seq(Line) /\ pump[i].sending \in Seq(Seq(Line))
        /\ out[i] \in Seq(Seq(Line)) /\ said[i] \in Seq(Text) /\ client.text \in Seq(Text)
        /\ Pipe(i) \in Seq(Line) /\ DOMAIN source = Attempts /\ DOMAIN pump = Attempts
        /\ DOMAIN lines = Attempts /\ DOMAIN out = Attempts /\ DOMAIN said = Attempts
    BY Stages DEF StreamInv
  <1>2. NoneEmpty(out[i]) /\ NoneEmpty(pump[i].sending)
    BY DEF StreamInv, Shape
  <1>3. said' = said
    BY DEF Plumbing, SourceAborts, TakeLine, FlushTick, sendResult, PumpEnds
  <1>4. Streaming(i) => Good(client.text, said[i], Pipe(i), SourceOver(i))
    BY DEF StreamInv, Flow
  <1>5. Streaming(i) /\ Ended(i) =>
            /\ SourceOver(i) /\ pump[i].pending = <<>> /\ Quiet(lines[i])
            /\ ~pump[i].on => pump[i].sending = <<>>
    BY DEF StreamInv, Ends
  <1>6. CASE SourceAborts(i)
    <2>1. ~Streaming(i) /\ pump' = pump /\ out' = out
      BY <1>6 DEF SourceAborts, Streaming
    <2>. QED BY <1>2, <1>3, <2>1, StageKeeps
  <1>7. CASE TakeLine(i)
    <2>1. PICK q \in Accept(pump[i], Head(lines[i])) : pump' = [pump EXCEPT ![i] = q]
      BY <1>7 DEF TakeLine
    <2>2. /\ pump[i].on /\ pump[i].sending = <<>> /\ ~pump[i].last /\ lines[i] # <<>>
          /\ lines' = [lines EXCEPT ![i] = Tail(lines[i])] /\ out' = out /\ source' = source
      BY <1>1, <1>7 DEF TakeLine, Selecting
    <2>3. PICK h \in Line : h = Head(lines[i])
      BY <1>1, <2>2, FirstAndRest
    <2>4. PICK t \in Seq(Line) : t = Tail(lines[i]) /\ lines[i] = <<h>> \o t /\ <<h>> \in Seq(Line)
      BY <1>1, <2>2, <2>3, FirstAndRest
    <2>5. PICK p \in Seq(Line) : p = pump[i].pending
      BY <1>1
    <2>6. PICK o \in Seq(Seq(Line)) : o = out[i]
      BY <1>1
    <2>7. Pipe(i) = PipeOf(o, <<>>, p, <<h>> \o t)
      BY <2>2, <2>4, <2>5, <2>6 DEF Pipe
    <2>8. pump'[i] = q /\ lines'[i] = t /\ q \in Accept(pump[i], h) /\ out'[i] = o
      BY <1>1, <2>1, <2>2, <2>3, <2>4, <2>6
    <2>9. Pipe(i)' = PipeOf(o, q.sending, q.pending, t)
      BY <2>8 DEF Pipe
    <2>10. SourceOver(i)' <=> SourceOver(i)
      BY <2>2 DEF SourceOver
    <2>11. NoneEmpty(<<>>) /\ NoneEmpty(Flushed(p))
      BY DEF NoneEmpty, Flushed
    <2>12. ASSUME NEW w \in Seq(Seq(Line)), NoneEmpty(w), NEW e \in Seq(Line), e # <<>>
           PROVE  NoneEmpty(Append(w, e))
      <3>1. /\ Len(w) \in Nat /\ DOMAIN w = 1..Len(w) /\ DOMAIN Append(w, e) = 1..(Len(w) + 1)
            /\ \A k \in 1..Len(w) : Append(w, e)[k] = w[k]
            /\ Append(w, e)[Len(w) + 1] = e
        BY <2>12, AppendProperties, LenProperties
      <3>. QED BY <2>12, <3>1 DEF NoneEmpty
    <2>13. CASE h.kind \in Parts
      <3>1. q = [pump[i] EXCEPT !.pending = Append(@, h)]
              \/ q = [pump[i] EXCEPT !.pending = <<>>, !.sending = Flushed(Append(pump[i].pending, h))]
        BY <2>8, <2>13 DEF Accept, Parts
      <3>2. q.last = pump[i].last /\ q.on = pump[i].on
        BY <1>1, <3>1 DEF PumpType
      <3>3. \/ q.pending = Append(p, h) /\ q.sending = <<>>
            \/ q.pending = <<>> /\ q.sending = Flushed(Append(p, h))
        BY <1>1, <2>2, <2>5, <3>1 DEF PumpType
      <3>4. Append(p, h) \in Seq(Line)
        BY AppendProperties
      <3>5. PipeOf(o, <<>>, Append(p, h), t) = PipeOf(o, <<>>, p, <<h>> \o t)
        BY PipePending
      <3>6. PipeOf(o, Flushed(Append(p, h)), <<>>, t) = PipeOf(o, <<>>, Append(p, h), t)
        BY <3>4, PipeFlush
      <3>7. Pipe(i)' = Pipe(i)
        BY <2>7, <2>9, <3>3, <3>5, <3>6
      <3>8. NoneEmpty(out'[i]) /\ NoneEmpty(pump'[i].sending)
        BY <1>2, <2>6, <2>8, <2>11, <3>3 DEF NoneEmpty, Flushed
      <3>9. ~Ended(i)'
        BY <2>2, <2>8, <3>2 DEF Ended
      <3>10. Streaming(i) => Good(client.text, said'[i], Pipe(i)', SourceOver(i)')
        BY <1>3, <1>4, <2>10, <3>7 DEF Good
      <3>. QED BY <1>3, <3>8, <3>9, <3>10, StageKeeps
    <2>14. CASE h.kind \in {"eof", "broken"}
      <3>1. q = [pump[i] EXCEPT !.pending = <<>>, !.sending = Flushed(pump[i].pending), !.last = TRUE,
                                !.err = h.kind = "broken"]
        BY <2>8, <2>14 DEF Accept, Parts
      <3>2. q.pending = <<>> /\ q.sending = Flushed(p) /\ q.on = pump[i].on
        BY <1>1, <2>5, <3>1 DEF PumpType
      <3>3. Pipe(i)' = PipeOf(o, <<>>, p, t)
        BY <2>9, <3>2, PipeFlush
      <3>4. PICK r \in Seq(Line) : r = PipeOf(o, <<>>, p, <<>>)
        BY PipeType, EmptySeq
      <3>5. PipeOf(o, <<>>, p, t) = r \o t
        BY <3>4, PipeLines, EmptySeq
      <3>6. PICK n \in Seq(Line) : n = <<h>> \o t
        BY <2>4, ConcatProperties
      <3>7. PipeOf(o, <<>>, p, n) = r \o n
        BY <3>4, PipeLines, EmptySeq
      <3>8. ASSUME Streaming(i)
            PROVE  Good(client.text, said'[i], Pipe(i)', SourceOver(i)') /\ Quiet(t) /\ SourceOver(i)'
        <4>1. Good(client.text, said[i], r \o (<<h>> \o t), SourceOver(i))
          BY <1>4, <2>7, <3>6, <3>7, <3>8
        <4>2. h.kind \in Stops
          BY <2>14 DEF Stops
        <4>3. Good(client.text, said[i], r \o t, SourceOver(i)) /\ Quiet(t) /\ SourceOver(i)
          BY <1>1, <4>1, <4>2, GoodDrop
        <4>. QED BY <1>3, <2>10, <3>3, <3>5, <4>3 DEF Good
      <3>9. NoneEmpty(out'[i]) /\ NoneEmpty(pump'[i].sending)
        BY <1>2, <2>6, <2>8, <2>11, <3>2
      <3>10. pump'[i].pending = <<>> /\ pump'[i].on /\ lines'[i] = t
        BY <2>2, <2>8, <3>2
      <3>. QED BY <1>3, <3>8, <3>9, <3>10, StageKeeps
    <2>15. CASE h.kind \notin Parts \cup {"eof", "broken"}
      <3>1. q = [pump[i] EXCEPT !.pending = <<>>, !.sending = Append(Flushed(pump[i].pending), <<h>>)]
        BY <2>8, <2>15 DEF Accept
      <3>2. q.pending = <<>> /\ q.sending = Append(Flushed(p), <<h>>) /\ q.on = pump[i].on /\ q.last = pump[i].last
        BY <1>1, <2>5, <3>1 DEF PumpType
      <3>3. Pipe(i)' = Pipe(i)
        BY <2>7, <2>9, <3>2, PipeSingle
      <3>4. NoneEmpty(Append(Flushed(p), <<h>>))
        <4>1. Flushed(p) \in Seq(Seq(Line)) /\ <<h>> # <<>>
          BY PipeFlush
        <4>. QED BY <2>4, <2>11, <2>12, <4>1
      <3>5. NoneEmpty(out'[i]) /\ NoneEmpty(pump'[i].sending)
        BY <1>2, <2>6, <2>8, <3>2, <3>4
      <3>6. ~Ended(i)'
        BY <2>2, <2>8, <3>2 DEF Ended
      <3>7. Streaming(i) => Good(client.text, said'[i], Pipe(i)', SourceOver(i)')
        BY <1>3, <1>4, <2>10, <3>3 DEF Good
      <3>. QED BY <1>3, <3>5, <3>6, <3>7, StageKeeps
    <2>. QED BY <2>13, <2>14, <2>15
  <1>8. CASE FlushTick(i)
    <2>1. /\ pump[i].on /\ pump[i].sending = <<>> /\ ~pump[i].last
          /\ pump' = [pump EXCEPT ![i] = [pump[i] EXCEPT !.pending = <<>>, !.sending = Flushed(pump[i].pending)]]
          /\ lines' = lines /\ out' = out /\ source' = source
      BY <1>1, <1>8 DEF FlushTick, Selecting
    <2>2. /\ pump'[i].pending = <<>> /\ pump'[i].sending = Flushed(pump[i].pending)
          /\ pump'[i].on /\ ~pump'[i].last
      BY <1>1, <2>1 DEF PumpType
    <2>3. Pipe(i)' = Pipe(i)
      <3>1. Pipe(i)' = PipeOf(out[i], Flushed(pump[i].pending), <<>>, lines[i])
        BY <2>1, <2>2 DEF Pipe
      <3>2. Pipe(i) = PipeOf(out[i], <<>>, pump[i].pending, lines[i])
        BY <2>1 DEF Pipe
      <3>. QED BY <1>1, <3>1, <3>2, PipeFlush
    <2>4. NoneEmpty(out'[i]) /\ NoneEmpty(pump'[i].sending)
      BY <1>2, <2>1, <2>2 DEF NoneEmpty, Flushed
    <2>5. ~Ended(i)'
      BY <2>2 DEF Ended
    <2>6. Streaming(i) => Good(client.text, said'[i], Pipe(i)', SourceOver(i)')
      BY <1>3, <1>4, <2>1, <2>3 DEF Good, SourceOver
    <2>. QED BY <1>3, <2>4, <2>5, <2>6, StageKeeps
  <1>9. CASE sendResult(i)
    <2>1. /\ pump[i].on /\ pump[i].sending # <<>>
          /\ pump' = [pump EXCEPT ![i] = [pump[i] EXCEPT !.sending = Tail(pump[i].sending)]]
          /\ out' = [out EXCEPT ![i] = Append(out[i], Head(pump[i].sending))]
          /\ lines' = lines /\ source' = source
      BY <1>1, <1>9 DEF sendResult
    <2>2. /\ pump'[i].sending = Tail(pump[i].sending) /\ pump'[i].pending = pump[i].pending
          /\ pump'[i].on /\ (pump'[i].last <=> pump[i].last) /\ lines'[i] = lines[i]
          /\ out'[i] = Append(out[i], Head(pump[i].sending))
      BY <1>1, <2>1 DEF PumpType
    <2>3. Pipe(i)' = Pipe(i)
      <3>1. Pipe(i)' = PipeOf(Append(out[i], Head(pump[i].sending)), Tail(pump[i].sending), pump[i].pending, lines[i])
        BY <2>2 DEF Pipe
      <3>. QED BY <1>1, <2>1, <3>1, PipeSend DEF Pipe
    <2>4. NoneEmpty(out'[i]) /\ NoneEmpty(pump'[i].sending)
      <3>1. PICK s \in Seq(Seq(Line)) : s = pump[i].sending
        BY <1>1
      <3>2. /\ Head(s) \in Seq(Line) /\ Len(Tail(s)) = Len(s) - 1 /\ Tail(s) \in Seq(Seq(Line))
            /\ \A k \in 1..Len(Tail(s)) : Tail(s)[k] = s[k + 1]
        BY <2>1, <3>1, HeadTailProperties
      <3>3. Len(s) \in Nat /\ Len(s) # 0 /\ DOMAIN s = 1..Len(s) /\ DOMAIN Tail(s) = 1..(Len(s) - 1)
            /\ Head(s) = s[1]
        BY <2>1, <3>1, <3>2, LenProperties, EmptySeq
      <3>4. NoneEmpty(s)
        BY <1>2, <3>1
      <3>5. NoneEmpty(Tail(s)) /\ Head(s) # <<>>
        BY <3>2, <3>3, <3>4 DEF NoneEmpty
      <3>6. PICK o \in Seq(Seq(Line)) : o = out[i] /\ NoneEmpty(o)
        BY <1>1, <1>2
      <3>7. PICK e \in Seq(Line) : e = Head(s)
        BY <3>2
      <3>8. /\ Len(o) \in Nat /\ DOMAIN o = 1..Len(o) /\ DOMAIN Append(o, e) = 1..(Len(o) + 1)
            /\ \A k \in 1..Len(o) : Append(o, e)[k] = o[k]
            /\ Append(o, e)[Len(o) + 1] = e
        BY AppendProperties, LenProperties
      <3>9. NoneEmpty(Append(o, e))
        BY <3>5, <3>6, <3>7, <3>8 DEF NoneEmpty
      <3>. QED BY <2>2, <3>1, <3>5, <3>6, <3>7, <3>9
    <2>5. Ended(i)' <=> Ended(i)
      BY <2>1, <2>2 DEF Ended
    <2>6. SourceOver(i)' <=> SourceOver(i)
      BY <2>1 DEF SourceOver
    <2>7. Streaming(i) => Good(client.text, said'[i], Pipe(i)', SourceOver(i)')
      BY <1>3, <1>4, <2>3, <2>6 DEF Good
    <2>8. Streaming(i) /\ Ended(i)' =>
             /\ SourceOver(i)' /\ pump'[i].pending = <<>> /\ Quiet(lines'[i])
             /\ ~pump'[i].on => pump'[i].sending = <<>>
      BY <1>5, <2>2, <2>5, <2>6
    <2>. QED BY <1>3, <2>4, <2>7, <2>8, StageKeeps
  <1>10. CASE PumpEnds(i)
    <2>1. /\ pump[i].on /\ (ctx # "live" \/ (pump[i].last /\ pump[i].sending = <<>>))
          /\ pump' = [pump EXCEPT ![i] = [NoPump EXCEPT !.err = pump[i].err]]
          /\ lines' = [lines EXCEPT ![i] = <<>>]
          /\ out' = [out EXCEPT ![i] = IF closed[i] THEN <<>> ELSE out[i]]
          /\ source' = source
      BY <1>1, <1>10 DEF PumpEnds
    <2>2. /\ pump'[i].pending = <<>> /\ pump'[i].sending = <<>> /\ lines'[i] = <<>>
          /\ out'[i] = IF closed[i] THEN <<>> ELSE out[i]
      BY <1>1, <2>1 DEF NoPump
    <2>3. NoneEmpty(out'[i]) /\ NoneEmpty(pump'[i].sending)
      BY <1>2, <2>2 DEF NoneEmpty
    <2>4. SourceOver(i)' <=> SourceOver(i)
      BY <2>1 DEF SourceOver
    <2>5. ASSUME Streaming(i)
          PROVE  /\ Good(client.text, said'[i], Pipe(i)', SourceOver(i)')
                 /\ SourceOver(i)' /\ pump'[i].pending = <<>> /\ Quiet(lines'[i])
                 /\ ~pump'[i].on => pump'[i].sending = <<>>
      <3>1. pump[i].last /\ pump[i].sending = <<>> /\ ~closed[i]
        BY <2>1, <2>5 DEF Streaming, StreamInv, Open
      <3>2. SourceOver(i) /\ pump[i].pending = <<>> /\ Quiet(lines[i])
        BY <1>5, <2>5, <3>1 DEF Ended
      <3>3. Pipe(i) = PipeOf(out[i], <<>>, <<>>, lines[i]) /\ Pipe(i)' = PipeOf(out[i], <<>>, <<>>, <<>>)
        BY <2>2, <3>1, <3>2 DEF Pipe
      <3>4. PICK r \in Seq(Line) : r = PipeOf(out[i], <<>>, <<>>, <<>>)
        BY <1>1, PipeType, EmptySeq
      <3>5. PipeOf(out[i], <<>>, <<>>, lines[i]) = PipeOf(out[i], <<>>, <<>>, <<>>) \o lines[i]
        <4>1. PICK o \in Seq(Seq(Line)) : o = out[i]
          BY <1>1
        <4>2. <<>> \in Seq(Seq(Line)) /\ <<>> \in Seq(Line)
          BY EmptySeq
        <4>3. PICK l \in Seq(Line) : l = lines[i]
          BY <1>1
        <4>4. PipeOf(o, <<>>, <<>>, l) = PipeOf(o, <<>>, <<>>, <<>>) \o l
          BY <4>2, PipeLines
        <4>. QED BY <4>1, <4>3, <4>4
      <3>6. Pipe(i) = r \o lines[i]
        BY <3>3, <3>4, <3>5
      <3>7. Good(client.text, said[i], r \o lines[i], SourceOver(i))
        BY <1>4, <2>5, <3>6
      <3>8. Good(client.text, said[i], r, SourceOver(i))
        BY <1>1, <3>2, <3>7, GoodCut
      <3>9. Quiet(<<>>)
        BY DEF Quiet
      <3>. QED BY <1>3, <2>2, <2>4, <3>2, <3>3, <3>4, <3>8, <3>9 DEF Good
    <2>. QED BY <1>3, <2>3, <2>5, StageKeeps
  <1>. QED BY <1>6, <1>7, <1>8, <1>9, <1>10 DEF Plumbing

-----------------------------------------------------------------------------
\* The consume loop, the retry and the client

\* What cancellation does to the channels.
LEMMA CancelKeeps ==
    ASSUME StreamInv, NEW reason, Cancel(reason)
    PROVE  /\ Shape'
           /\ (handler.attempt = 1 => /\ source'[2] = NoSource /\ pump'[2] = NoPump
                                      /\ lines'[2] = <<>> /\ out'[2] = <<>>)
  <1>1. \A i \in Attempts :
          /\ source'[i] = [NoSource EXCEPT !.on = source[i].on]
          /\ pump'[i] = [NoPump EXCEPT !.on = pump[i].on]
          /\ lines'[i] = <<>> /\ out'[i] = <<>>
    BY DEF Cancel
  <1>2. \A i \in Attempts : pump'[i].sending = <<>>
    BY <1>1 DEF NoPump
  <1>3. Shape'
    <2>1. NoneEmpty(<<>>)
      BY DEF NoneEmpty
    <2>. QED BY <1>1, <1>2, <2>1 DEF Shape
  <1>4. ASSUME handler.attempt = 1
        PROVE  source'[2] = NoSource /\ pump'[2] = NoPump /\ lines'[2] = <<>> /\ out'[2] = <<>>
    <2>1. 2 \in Attempts /\ source[2] = NoSource /\ pump[2] = NoPump
      BY <1>4 DEF StreamInv, Second, Attempts
    <2>2. source[2].on = FALSE /\ pump[2].on = FALSE
      BY <2>1 DEF NoSource, NoPump
    <2>. QED BY <1>1, <2>1, <2>2 DEF NoSource, NoPump
  <1>. QED BY <1>3, <1>4

\* The handler returns, whatever the client is told.
LEMMA ReturnStream ==
    ASSUME StreamInv, TypeInv', EndingInv', NEW ending, NEW status, Return(ending, status),
           handler.attempt = 1 => closed'[2] = closed[2], said' = said,
           ending = "finish" /\ cut' = "no" => client.text = said[handler.attempt]
    PROVE  StreamInv'
  <1>1. /\ handler' = [handler EXCEPT !.pc = "over"] /\ Cancel("ended")
        /\ client' = [client EXCEPT !.ending = ending, !.endings = @ + 1]
    BY DEF Return
  <1>2. /\ handler'.pc = "over" /\ handler'.attempt = handler.attempt
        /\ client'.ending = ending /\ client'.text = client.text
    BY <1>1 DEF StreamInv, EndingInv, Records
  <1>3. Shape' /\ Second'
    BY <1>1, <1>2, CancelKeeps DEF StreamInv, Second
  <1>4. Open' /\ Flow' /\ Ends'
    BY <1>2 DEF Open, Flow, Ends, Streaming, Consuming
  <1>5. Begun' /\ FinishedIsComplete'
    BY <1>2 DEF StreamInv, Begun, FinishedIsComplete
  <1>. QED BY <1>3, <1>4, <1>5 DEF StreamInv

\* An attempt ends; with its own end only when all of it has arrived.
LEMMA FinalizeStream ==
    ASSUME StreamInv, Consuming, NEW reason, NEW why \in {"no", "silent", "idle", "gone", "broken", "error"},
           Finalize(reason, why),
           why = "no" /\ client.text # <<>> => client.text = said[handler.attempt]
    PROVE  StreamInv'
  <1>1. TypeInv'
    BY FinalizeType DEF StreamInv
  <1>2. EndingInv'
    BY FinalizeStep DEF StreamInv
  <1>3. said' = said /\ cut' = why /\ closed' = [closed EXCEPT ![handler.attempt] = TRUE]
    BY DEF Finalize
  <1>4. handler.attempt = 1 => closed'[2] = closed[2]
    BY <1>3 DEF StreamInv, TypeInv, TypeOK, Attempts
  <1>5. CASE client.text # <<>>
    <2>1. Return("finish", "success")
      BY <1>5 DEF Finalize
    <2>. QED BY <1>1, <1>2, <1>3, <1>4, <1>5, <2>1, ReturnStream
  <1>6. CASE Return("failed", "error")
    BY <1>1, <1>2, <1>3, <1>4, <1>6, ReturnStream
  <1>7. CASE /\ handler' = [handler EXCEPT !.pc = "retry"]
             /\ UNCHANGED <<ctx, client, source, lines, pump, out>>
    <2>1. handler'.pc = "retry" /\ handler'.attempt = handler.attempt /\ client' = client
      BY <1>7 DEF StreamInv, EndingInv, Records
    <2>2. client.ending = "none"
      BY DEF StreamInv, EndingInv, Unended, Consuming
    <2>3. Shape' /\ Second'
      BY <1>3, <1>4, <1>7, <2>1 DEF StreamInv, Shape, Second
    <2>4. Open' /\ Flow' /\ Ends'
      BY <2>1 DEF Open, Flow, Ends, Streaming, Consuming
    <2>5. Begun' /\ FinishedIsComplete'
      BY <1>3, <2>1, <2>2 DEF StreamInv, Begun, FinishedIsComplete
    <2>. QED BY <1>1, <1>2, <2>3, <2>4, <2>5 DEF StreamInv
  <1>. QED BY <1>5, <1>6, <1>7 DEF Finalize

\* A result reaches the client.
LEMMA RelayStream ==
    ASSUME StreamInv, Relay
    PROVE  StreamInv'
  <1>1. TypeInv' /\ EndingInv'
    BY HandlerType, HandlerStep DEF StreamInv, EndingInv, RetriedOnce, Consume
  <1>2. PICK i \in Attempts : i = handler.attempt
    BY Stages DEF StreamInv, Attempts
  <1>3. /\ Consuming /\ ctx = "live" /\ out[i] # <<>>
        /\ out' = [out EXCEPT ![i] = Tail(out[i])]
        /\ client' = [client EXCEPT !.text = client.text \o TextOf(Head(out[i]))]
        /\ handler' = [handler EXCEPT !.seen = TRUE, !.quiet = 0] \/ handler' = handler
        /\ UNCHANGED <<ctx, source, lines, pump, closed, history, cut, said, budget>>
    BY <1>2 DEF Relay, Arrived, StreamInv, TypeInv, TypeOK
  <1>4. /\ handler'.pc = "consume" /\ handler'.attempt = i /\ client'.ending = client.ending
        /\ client'.text = client.text \o TextOf(Head(out[i]))
    BY <1>2, <1>3 DEF StreamInv, EndingInv, Records, Consuming
  <1>5. /\ lines[i] \in Seq(Line) /\ pump[i].pending \in Seq(Line) /\ pump[i].sending \in Seq(Seq(Line))
        /\ out[i] \in Seq(Seq(Line)) /\ said[i] \in Seq(Text) /\ client.text \in Seq(Text)
        /\ DOMAIN out = Attempts
    BY Stages DEF StreamInv
  <1>6. /\ Head(out[i]) \in Seq(Line) /\ Tail(out[i]) \in Seq(Seq(Line))
        /\ Len(Tail(out[i])) = Len(out[i]) - 1
        /\ \A k \in 1..Len(Tail(out[i])) : Tail(out[i])[k] = out[i][k + 1]
    BY <1>3, <1>5, HeadTailProperties
  <1>7. PICK h \in Seq(Line) : h = Head(out[i])
    BY <1>6
  <1>8. PICK r \in Seq(Line) : r = PipeOf(Tail(out[i]), pump[i].sending, pump[i].pending, lines[i])
    BY <1>5, <1>6, PipeType
  <1>9. Pipe(i)' = r
    BY <1>3, <1>5, <1>8 DEF Pipe
  <1>10. Pipe(i) = h \o r
    <2>1. PICK o \in Seq(Seq(Line)) : o = out[i]
      BY <1>5
    <2>2. PICK s \in Seq(Seq(Line)) : s = pump[i].sending
      BY <1>5
    <2>3. PICK p \in Seq(Line) : p = pump[i].pending
      BY <1>5
    <2>4. PICK l \in Seq(Line) : l = lines[i]
      BY <1>5
    <2>5. o # <<>>
      BY <1>3, <2>1
    <2>6. PipeOf(o, s, p, l) = Head(o) \o PipeOf(Tail(o), s, p, l)
      BY <2>5, PipeRelay
    <2>. QED BY <1>7, <1>8, <2>1, <2>2, <2>3, <2>4, <2>6 DEF Pipe
  <1>11. Good(client.text, said[i], h \o r, SourceOver(i))
    BY <1>2, <1>3, <1>10 DEF StreamInv, Flow, Streaming
  <1>12. Good(client.text \o TextOf(h), said[i], r, SourceOver(i))
    BY <1>5, <1>11, GoodRelay
  <1>13. Flow'
    <2>1. \A k \in Attempts : Streaming(k)' => k = i
      BY <1>4 DEF Streaming
    <2>2. Good(client'.text, said'[i], Pipe(i)', SourceOver(i)')
      BY <1>3, <1>4, <1>7, <1>9, <1>12 DEF Good, SourceOver
    <2>. QED BY <2>1, <2>2 DEF Flow
  <1>14. Begun'
    <2>1. said[i] = client'.text \o TextOf(r) /\ TextOf(r) \in Seq(Text)
      BY <1>4, <1>7, <1>12, TextType DEF Good
    <2>. QED BY <1>3, <1>4, <2>1 DEF Begun
  <1>15. Ends'
    <2>. SUFFICES ASSUME NEW k \in Attempts, Streaming(k)', Ended(k)'
                  PROVE  /\ SourceOver(k)' /\ pump'[k].pending = <<>> /\ Quiet(lines'[k])
                         /\ ~pump'[k].on => pump'[k].sending = <<>>
      BY DEF Ends
    <2>1. Streaming(k) /\ Ended(k) /\ (SourceOver(k)' <=> SourceOver(k))
      BY <1>2, <1>3, <1>4 DEF Streaming, Ended, SourceOver
    <2>. QED BY <1>3, <2>1 DEF StreamInv, Ends
  <1>16. Shape'
    <2>1. NoneEmpty(Tail(out[i]))
      <3>1. Len(out[i]) \in Nat /\ DOMAIN out[i] = 1..Len(out[i]) /\ Len(out[i]) # 0
            /\ DOMAIN Tail(out[i]) = 1..(Len(out[i]) - 1)
        BY <1>3, <1>5, <1>6, LenProperties, EmptySeq
      <3>2. \A k \in 1..(Len(out[i]) - 1) : k + 1 \in 1..Len(out[i])
        BY <3>1
      <3>3. NoneEmpty(out[i])
        BY DEF StreamInv, Shape
      <3>. QED BY <1>6, <3>1, <3>2, <3>3 DEF NoneEmpty
    <2>2. \A k \in Attempts : out'[k] = IF k = i THEN Tail(out[i]) ELSE out[k]
      BY <1>3, <1>5
    <2>. QED BY <1>3, <2>1, <2>2 DEF StreamInv, Shape
  <1>17. Open' /\ Second'
    <2>1. i = 1 => out'[2] = out[2]
      BY <1>3, <1>5 DEF Attempts
    <2>. QED BY <1>2, <1>3, <1>4, <2>1 DEF StreamInv, Open, Second, Consuming
  <1>18. FinishedIsComplete'
    <2>1. client.ending = "none"
      BY <1>3 DEF StreamInv, EndingInv, Unended
    <2>. QED BY <1>4, <2>1 DEF FinishedIsComplete
  <1>. QED BY <1>1, <1>13, <1>14, <1>15, <1>16, <1>17, <1>18 DEF StreamInv

\* The line that ends the answer has arrived, and with it all the text.
LEMMA StopIsComplete ==
    ASSUME StreamInv, Consuming, ctx = "live", Arrived # <<>>, Head(Arrived)[1].kind \in Stops
    PROVE  client.text = said[handler.attempt]
  <1>1. PICK i \in Attempts : i = handler.attempt
    BY Stages DEF StreamInv, Attempts
  <1>2. /\ lines[i] \in Seq(Line) /\ pump[i].pending \in Seq(Line) /\ pump[i].sending \in Seq(Seq(Line))
        /\ out[i] \in Seq(Seq(Line)) /\ said[i] \in Seq(Text) /\ client.text \in Seq(Text)
    BY Stages DEF StreamInv
  <1>3. out[i] # <<>> /\ Head(out[i])[1].kind \in Stops
    BY <1>1 DEF Arrived
  <1>4. Head(out[i]) \in Seq(Line) /\ Tail(out[i]) \in Seq(Seq(Line))
    BY <1>2, <1>3, HeadTailProperties
  <1>5. PICK h \in Seq(Line) : h = Head(out[i])
    BY <1>4
  <1>6. h # <<>>
    <2>1. Head(out[i]) = out[i][1] /\ 1 \in DOMAIN out[i]
      BY <1>2, <1>3, LenProperties, EmptySeq
    <2>. QED BY <1>5, <2>1 DEF StreamInv, Shape, NoneEmpty
  <1>7. PICK r \in Seq(Line) : r = PipeOf(Tail(out[i]), pump[i].sending, pump[i].pending, lines[i])
    BY <1>2, <1>4, PipeType
  <1>8. PICK w \in Seq(Line) : w = h \o r
    BY ConcatProperties
  <1>9. Pipe(i) = w
    <2>1. PICK o \in Seq(Seq(Line)) : o = out[i]
      BY <1>2
    <2>2. PICK s \in Seq(Seq(Line)) : s = pump[i].sending
      BY <1>2
    <2>3. PICK p \in Seq(Line) : p = pump[i].pending
      BY <1>2
    <2>4. PICK l \in Seq(Line) : l = lines[i]
      BY <1>2
    <2>5. o # <<>>
      BY <1>3, <2>1
    <2>6. PipeOf(o, s, p, l) = Head(o) \o PipeOf(Tail(o), s, p, l)
      BY <2>5, PipeRelay
    <2>. QED BY <1>5, <1>7, <1>8, <2>1, <2>2, <2>3, <2>4, <2>6 DEF Pipe
  <1>10. w # <<>> /\ w[1] = h[1]
    <2>1. Len(h) \in Nat /\ Len(h) # 0 /\ DOMAIN h = 1..Len(h)
      BY <1>6, LenProperties, EmptySeq
    <2>2. 1 \in 1..Len(h)
      BY <2>1
    <2>3. w[1] = h[1]
      BY <1>8, <2>2, LineAt
    <2>4. w # <<>>
      BY <1>6, <1>8, ConcatEqualIffEmpty
    <2>. QED BY <2>3, <2>4
  <1>11. Good(client.text, said[i], w, SourceOver(i))
    BY <1>1, <1>9 DEF StreamInv, Flow, Streaming
  <1>. QED BY <1>1, <1>2, <1>3, <1>5, <1>10, <1>11, GoodStop

\* The pump's channel is drained and closed, and nothing was left behind.
LEMMA DrainedIsComplete ==
    ASSUME StreamInv, Drained
    PROVE  client.text = said[handler.attempt]
  <1>1. PICK i \in Attempts : i = handler.attempt
    BY Stages DEF StreamInv, Attempts
  <1>2. lines[i] \in Seq(Line) /\ client.text \in Seq(Text)
    BY Stages DEF StreamInv
  <1>3. Streaming(i) /\ Ended(i) /\ out[i] = <<>> /\ ~pump[i].on
    BY <1>1 DEF Drained, Arrived, Streaming, Ended
  <1>4. pump[i].pending = <<>> /\ pump[i].sending = <<>> /\ Quiet(lines[i])
    BY <1>3 DEF StreamInv, Ends
  <1>5. Pipe(i) = PipeOf(<<>>, <<>>, <<>>, lines[i])
    BY <1>3, <1>4 DEF Pipe
  <1>6. FlattenSeq(<<>>) = <<>> /\ <<>> \in Seq(Line)
    BY EmptySeq DEF FlattenSeq
  <1>7. PICK l \in Seq(Line) : l = lines[i]
    BY <1>2
  <1>8. <<>> \o <<>> = <<>> /\ <<>> \o l = l
    BY <1>6, LineEmpty
  <1>9. PipeOf(<<>>, <<>>, <<>>, l) = l
    BY <1>6, <1>8 DEF PipeOf
  <1>10. said[i] = client.text \o TextOf(l)
    BY <1>3, <1>5, <1>7, <1>9 DEF StreamInv, Flow, Good
  <1>11. TextOf(l) = <<>>
    BY <1>4, <1>7, TextQuiet
  <1>. QED BY <1>1, <1>2, <1>10, <1>11, ConcatEmptySeq

\* The second attempt begins with channels of its own.
LEMMA RetryStream ==
    ASSUME StreamInv, RetryOpens
    PROVE  StreamInv'
  <1>1. TypeInv' /\ EndingInv'
    BY HandlerType, HandlerStep DEF StreamInv, EndingInv, RetriedOnce, Retry
  <1>2. /\ handler.pc = "retry" /\ handler' = [pc |-> "consume", attempt |-> 2, seen |-> FALSE, quiet |-> 0]
        /\ source' = [source EXCEPT ![2].on = TRUE] /\ pump' = [pump EXCEPT ![2].on = TRUE]
        /\ UNCHANGED <<ctx, lines, out, closed, client, said>>
    BY DEF RetryOpens
  <1>3. /\ handler.attempt = 1 /\ client.text = <<>> /\ client.ending = "none"
        /\ source[2] = NoSource /\ pump[2] = NoPump /\ ~closed[2]
        /\ lines[2] = <<>> /\ out[2] = <<>> /\ said[2] = <<>> /\ 2 \in Attempts
    BY <1>2 DEF StreamInv, EndingInv, Unended, RetriedOnce, Second, Attempts
  <1>4. pump'[2] = [NoPump EXCEPT !.on = TRUE] /\ \A k \in Attempts : k # 2 => pump'[k] = pump[k]
    BY <1>2, <1>3 DEF StreamInv, TypeInv, TypeOK
  <1>5. pump'[2].on /\ ~pump'[2].last /\ pump'[2].sending = <<>> /\ pump'[2].pending = <<>>
    BY <1>4 DEF NoPump
  <1>6. FlattenSeq(<<>>) = <<>> /\ <<>> \in Seq(Line) /\ <<>> \in Seq(Text)
    BY EmptySeq DEF FlattenSeq
  <1>7. Pipe(2)' = <<>>
    <2>1. Pipe(2)' = PipeOf(<<>>, <<>>, <<>>, <<>>)
      BY <1>2, <1>3, <1>5 DEF Pipe
    <2>. QED BY <1>6, <2>1, LineEmpty DEF PipeOf
  <1>8. Good(<<>>, <<>>, <<>>, SourceOver(2)')
    <2>1. TextOf(<<>>) = <<>>
      <3>1. Quiet(<<>>)
        BY DEF Quiet
      <3>. QED BY <1>6, <3>1, TextQuiet
    <2>2. <<>> \o <<>> = <<>>
      BY <1>6, LineEmpty
    <2>. QED BY <2>1, <2>2 DEF Good, StopsLast, HasStop
  <1>9. Flow'
    <2>1. \A k \in Attempts : Streaming(k)' => k = 2
      BY <1>2 DEF Streaming
    <2>2. Good(client'.text, said'[2], Pipe(2)', SourceOver(2)')
      BY <1>2, <1>3, <1>7, <1>8
    <2>. QED BY <2>1, <2>2 DEF Flow
  <1>10. Ends'
    BY <1>2, <1>5 DEF Ends, Streaming, Ended
  <1>11. Open' /\ Second'
    BY <1>2, <1>3 DEF Open, Second
  <1>12. Shape'
    <2>1. \A k \in Attempts : pump'[k].sending = pump[k].sending
      BY <1>3, <1>4, <1>5 DEF NoPump
    <2>. QED BY <1>2, <2>1 DEF StreamInv, Shape
  <1>13. Begun'
    <2>1. <<>> = <<>> \o <<>>
      BY <1>6, LineEmpty
    <2>. QED BY <1>2, <1>3, <1>6, <2>1 DEF Begun
  <1>14. FinishedIsComplete'
    BY <1>2, <1>3 DEF FinishedIsComplete
  <1>. QED BY <1>1, <1>9, <1>10, <1>11, <1>12, <1>13, <1>14 DEF StreamInv

LEMMA HandlerStream ==
    ASSUME StreamInv, Consume \/ Tick \/ Retry \/ ClientLeaves
    PROVE  StreamInv'
  <1>1. TypeInv'
    BY HandlerType DEF StreamInv, EndingInv, RetriedOnce
  <1>2. EndingInv'
    BY HandlerStep DEF StreamInv
  <1>3. CASE ContextDone
    BY <1>3, FinalizeStream DEF ContextDone
  <1>4. CASE Relay
    BY <1>4, RelayStream
  <1>5. CASE StopLine
    <2>1. Consuming /\ ctx = "live" /\ Arrived # <<>>
      BY <1>5 DEF StopLine
    <2>2. CASE Head(Arrived)[1].kind \in {"finished", "done"} /\ Finalize("stop", "no")
      BY <2>1, <2>2, StopIsComplete, FinalizeStream DEF Stops
    <2>3. CASE /\ Head(Arrived)[1].kind = "filter"
               /\ Finalize(IF client.text = <<>> THEN "filter" ELSE "stop", "no")
      <3>1. PICK reason : Finalize(reason, "no")
        BY <2>3
      <3>. QED BY <2>1, <2>3, <3>1, StopIsComplete, FinalizeStream DEF Stops
    <2>4. CASE Finalize("filter", "error")
      BY <2>1, <2>4, FinalizeStream
    <2>. QED BY <1>5, <2>2, <2>3, <2>4 DEF StopLine
  <1>6. CASE Drained
    <2>1. Consuming /\ \E why \in {"no", "broken"} : Finalize("stop", why)
      BY <1>6 DEF Drained
    <2>. QED BY <1>6, <2>1, DrainedIsComplete, FinalizeStream
  <1>7. CASE Tick
    <2>1. Consuming
      BY <1>7 DEF Tick
    <2>2. CASE Finalize("stop", "silent") \/ Finalize("stop", "idle")
      BY <2>1, <2>2, FinalizeStream
    <2>3. CASE /\ handler' = [handler EXCEPT !.quiet = @ + 1]
               /\ UNCHANGED <<ctx, channels, client, history, cut, said, budget>>
      <3>1. /\ handler'.pc = handler.pc /\ handler'.attempt = handler.attempt
            /\ UNCHANGED <<ctx, source, lines, pump, out, closed, client, cut, said>>
        BY <2>3 DEF StreamInv, EndingInv, Records, channels
      <3>2. \A k \in Attempts : /\ Streaming(k)' <=> Streaming(k)
                                /\ Pipe(k)' = Pipe(k) /\ (SourceOver(k)' <=> SourceOver(k))
                                /\ Ended(k)' <=> Ended(k)
        BY <3>1 DEF Streaming, Pipe, SourceOver, Ended, Consuming
      <3>3. Flow'
        BY <3>1, <3>2 DEF StreamInv, Flow, Good
      <3>4. Ends'
        BY <3>1, <3>2 DEF StreamInv, Ends
      <3>5. Second' /\ Open' /\ Shape' /\ Begun' /\ FinishedIsComplete'
        BY <3>1 DEF StreamInv, Second, Open, Shape, Begun, FinishedIsComplete, Consuming
      <3>. QED BY <1>1, <1>2, <3>3, <3>4, <3>5 DEF StreamInv
    <2>. QED BY <1>7, <2>2, <2>3 DEF Tick
  <1>8. CASE RetryOpens
    BY <1>8, RetryStream
  <1>9. CASE RetryFails
    BY <1>1, <1>2, <1>9, ReturnStream DEF RetryFails
  <1>10. CASE ClientLeaves
    <2>1. Cancel("gone") /\ ctx' = "gone" /\ UNCHANGED <<closed, handler, client, cut, said>>
      BY <1>10 DEF ClientLeaves, Cancel
    <2>2. Shape' /\ Second'
      BY <2>1, CancelKeeps DEF StreamInv, Second
    <2>3. Flow' /\ Ends'
      BY <2>1 DEF Flow, Ends, Streaming
    <2>4. Open' /\ Begun' /\ FinishedIsComplete'
      BY <2>1 DEF StreamInv, Open, Begun, FinishedIsComplete, Consuming
    <2>. QED BY <1>1, <1>2, <2>2, <2>3, <2>4 DEF StreamInv
  <1>. QED BY <1>3, <1>4, <1>5, <1>6, <1>7, <1>8, <1>9, <1>10 DEF Consume, Retry

LEMMA InitStream == Init => StreamInv
  <1>. SUFFICES ASSUME Init PROVE StreamInv
    OBVIOUS
  <1>1. /\ <<>> \in Seq(Line) /\ <<>> \in Seq(Seq(Line)) /\ <<>> \in Seq(Text) /\ Len(<<>>) = 0
        /\ FlattenSeq(<<>>) = <<>>
    BY EmptySeq DEF FlattenSeq
  <1>2. /\ LineCap \in Nat /\ OutCap \in Nat /\ MaxLines \in Nat /\ MaxRounds \in Nat
        /\ MaxQuiet \in Nat /\ IdleTicks \in Nat
    BY BoundsAssumption
  <1>3. \A i \in Attempts : lines[i] = <<>> /\ out[i] = <<>> /\ said[i] = <<>> /\ closed[i] = FALSE
    BY DEF Init
  <1>4. /\ source[1] = [NoSource EXCEPT !.on = TRUE] /\ pump[1] = [NoPump EXCEPT !.on = TRUE]
        /\ source[2] = [NoSource EXCEPT !.on = FALSE] /\ pump[2] = [NoPump EXCEPT !.on = FALSE]
        /\ Attempts = {1, 2} /\ DOMAIN source = Attempts /\ DOMAIN pump = Attempts
        /\ source = [i \in Attempts |-> source[i]] /\ pump = [i \in Attempts |-> pump[i]]
    <2>1. Attempts = {1, 2}
      BY DEF Attempts
    <2>2. (1 = 1) = TRUE /\ (2 = 1) = FALSE
      OBVIOUS
    <2>3. /\ source[1] = [NoSource EXCEPT !.on = (1 = 1)] /\ pump[1] = [NoPump EXCEPT !.on = (1 = 1)]
          /\ source[2] = [NoSource EXCEPT !.on = (2 = 1)] /\ pump[2] = [NoPump EXCEPT !.on = (2 = 1)]
      BY <2>1 DEF Init
    <2>4. DOMAIN source = Attempts /\ DOMAIN pump = Attempts
          /\ source = [i \in Attempts |-> source[i]] /\ pump = [i \in Attempts |-> pump[i]]
      BY DEF Init
    <2>. QED BY <2>1, <2>2, <2>3, <2>4
  <1>5. NoSource \in SourceType /\ NoPump \in PumpType
    BY <1>1, <1>2 DEF NoSource, NoPump, SourceType, PumpType
  <1>6. /\ source[1] \in SourceType /\ source[2] \in SourceType
        /\ pump[1] \in PumpType /\ pump[2] \in PumpType
    <2>1. \A b \in BOOLEAN : [NoSource EXCEPT !.on = b] \in SourceType
      BY <1>5 DEF SourceType
    <2>2. \A b \in BOOLEAN : [NoPump EXCEPT !.on = b] \in PumpType
      BY <1>5 DEF PumpType
    <2>. QED BY <1>4, <2>1, <2>2
  <1>7. TypeInv
    <2>1. \A i \in Attempts : Len(lines[i]) = 0 /\ Len(out[i]) = 0
      BY <1>1, <1>3
    <2>2. handler \in [pc : {"consume", "retry", "over"}, attempt : Attempts,
                       seen : BOOLEAN, quiet : 0..(MaxQuiet + IdleTicks)]
      BY <1>2 DEF Init, Attempts
    <2>3. client \in [text : Seq(1..MaxLines), ending : {"none", "finish", "failed"}, endings : Nat]
      BY <1>1 DEF Init, Text
    <2>4. source \in [Attempts -> SourceType] /\ pump \in [Attempts -> PumpType]
      BY <1>4, <1>6
    <2>5. /\ lines \in [Attempts -> Seq(Line)] /\ out \in [Attempts -> Seq(Seq(Line))]
          /\ closed \in [Attempts -> BOOLEAN] /\ said \in [Attempts -> Seq(1..MaxLines)]
      BY <1>1 DEF Init, Text
    <2>6. /\ \A i \in Attempts : Len(lines[i]) <= LineCap + 1 /\ Len(out[i]) <= OutCap
          /\ Fits
      BY <1>2, <2>1 DEF Fits
    <2>7. /\ ctx \in {"live", "gone", "ended"} /\ history \in {"streaming", "success", "error", "stopped"}
          /\ cut \in {"no", "silent", "idle", "gone", "broken", "error"} /\ budget \in 0..MaxLines
      BY <1>2 DEF Init
    <2>. QED BY <2>1, <2>2, <2>3, <2>4, <2>5, <2>6, <2>7 DEF TypeInv, TypeOK, SourceType, PumpType
  <1>8. EndingInv
    BY InitEnding
  <1>9. handler.attempt = 1 /\ client.text = <<>> /\ client.ending = "none" /\ 1 \in Attempts /\ 2 \in Attempts
    BY DEF Init, Attempts
  <1>10. Second
    BY <1>3, <1>4, <1>9 DEF Second, NoSource, NoPump
  <1>11. pump[1].on /\ \A i \in Attempts : pump[i].pending = <<>> /\ pump[i].sending = <<>> /\ ~pump[i].last
    BY <1>4 DEF NoPump
  <1>12. Open /\ Shape
    <2>1. NoneEmpty(<<>>)
      BY DEF NoneEmpty
    <2>. QED BY <1>3, <1>9, <1>11, <2>1 DEF Open, Shape
  <1>13. Ends
    BY <1>9, <1>11 DEF Ends, Streaming, Ended
  <1>14. Pipe(1) = <<>>
    <2>1. Pipe(1) = PipeOf(<<>>, <<>>, <<>>, <<>>)
      BY <1>3, <1>9, <1>11 DEF Pipe
    <2>. QED BY <1>1, <2>1, LineEmpty DEF PipeOf
  <1>15. Good(<<>>, <<>>, <<>>, SourceOver(1))
    <2>1. Quiet(<<>>)
      BY DEF Quiet
    <2>2. TextOf(<<>>) = <<>> /\ <<>> \o <<>> = <<>>
      BY <1>1, <2>1, TextQuiet, LineEmpty
    <2>. QED BY <2>2 DEF Good, StopsLast, HasStop
  <1>16. Flow
    <2>1. said[1] = <<>> /\ client.text = <<>>
      BY <1>3, <1>9
    <2>2. \A k \in Attempts : Streaming(k) => k = 1
      BY <1>9 DEF Streaming
    <2>. QED BY <1>14, <1>15, <2>1, <2>2 DEF Flow
  <1>17. Begun
    <2>1. <<>> = <<>> \o <<>>
      BY <1>1, LineEmpty
    <2>. QED BY <1>1, <1>3, <1>9, <2>1 DEF Begun
  <1>18. FinishedIsComplete
    BY <1>9 DEF FinishedIsComplete
  <1>. QED BY <1>7, <1>8, <1>10, <1>12, <1>13, <1>16, <1>17, <1>18 DEF StreamInv

LEMMA StreamInvariance == Spec => []StreamInv
  <1>1. StreamInv /\ [Next]_vars => StreamInv'
    <2>. SUFFICES ASSUME StreamInv, [Next]_vars PROVE StreamInv'
      OBVIOUS
    <2>1. \/ \E i \in Attempts : Upstream(i) \/ Plumbing(i)
          \/ Consume \/ Tick \/ Retry \/ ClientLeaves
          \/ UNCHANGED vars
      BY DEF Next, Terminated
    <2>2. CASE \E i \in Attempts : Upstream(i) \/ Plumbing(i)
      BY <2>2, UpstreamStream, PlumbingStream
    <2>3. CASE Consume \/ Tick \/ Retry \/ ClientLeaves
      BY <2>3, HandlerStream
    <2>4. CASE UNCHANGED vars
      <3>1. TypeInv'
        BY <2>4 DEF StreamInv, TypeInv, TypeOK, Fits, vars, channels
      <3>2. EndingInv'
        BY <2>4, Unconcerned DEF StreamInv, vars
      <3>3. Flow' /\ Ends'
        BY <2>4 DEF StreamInv, Flow, Ends, Good, Streaming, Consuming, Ended, SourceOver, Pipe, vars, channels
      <3>4. Second' /\ Open' /\ Shape' /\ Begun' /\ FinishedIsComplete'
        BY <2>4 DEF StreamInv, Second, Open, Shape, Begun, FinishedIsComplete, Consuming, vars, channels
      <3>. QED BY <3>1, <3>2, <3>3, <3>4 DEF StreamInv
    <2>. QED BY <2>1, <2>2, <2>3, <2>4
  <1>. QED BY <1>1, InitStream, PTL DEF Spec

LEMMA BeginningIsPrefix ==
    ASSUME NEW S, NEW s \in Seq(S), NEW t \in Seq(S)
    PROVE  IsPrefix(s, s \o t)
  <1>1. PICK w \in Seq(S) : w = s \o t
    BY ConcatProperties
  <1>2. /\ Len(s) \in Nat /\ Len(t) \in Nat /\ Len(w) = Len(s) + Len(t)
        /\ \A k \in 1..(Len(s) + Len(t)) : w[k] = IF k <= Len(s) THEN s[k] ELSE t[k - Len(s)]
    BY <1>1, LenProperties, ConcatProperties
  <1>3. SubSeq(s, 1, Len(s)) = s
    BY SubSeqFull
  <1>4. SubSeq(w, 1, Len(s)) = s
    <2>1. \A k \in 1..Len(s) : w[k] \in S
      BY <1>2, ElementOfSeq
    <2>2. PICK u \in Seq(S) : /\ u = SubSeq(w, 1, Len(s))
                              /\ Len(u) = IF 1 <= Len(s) THEN Len(s) - 1 + 1 ELSE 0
                              /\ \A k \in 1..(Len(s) - 1 + 1) : u[k] = w[1 + k - 1]
      BY <1>2, <2>1, SubSeqProperties
    <2>3. Len(u) = Len(s)
      BY <1>2, <2>2
    <2>4. \A k \in 1..Len(s) : u[k] = s[k]
      <3>. SUFFICES ASSUME NEW k \in 1..Len(s) PROVE u[k] = s[k]
        OBVIOUS
      <3>1. k \in 1..(Len(s) - 1 + 1) /\ 1 + k - 1 = k /\ k \in 1..(Len(s) + Len(t)) /\ k <= Len(s)
        BY <1>2
      <3>. QED BY <1>2, <2>2, <3>1
    <2>. QED BY <2>2, <2>3, <2>4, SeqEqual
  <1>. QED BY <1>1, <1>2, <1>3, <1>4 DEF IsPrefix

-----------------------------------------------------------------------------
\* Theorems

\* On every way out of both attempts the client is told one end, and not before
\* the handler returns.
THEOREM OneEndingSafe == Spec => []OneEnding
  <1>1. EndingInv => OneEnding
    BY DEF EndingInv
  <1>. QED BY <1>1, EndingInvariance, PTL

\* What the history entry says when the handler has returned agrees with what
\* the client was told.
THEOREM HistorySettledSafe == Spec => []HistorySettled
  <1>1. EndingInv => HistorySettled
    BY DEF EndingInv
  <1>. QED BY <1>1, EndingInvariance, PTL

\* Every stage keeps to its types, the channels to their room.
THEOREM TypesKept == Spec => []TypeOK
  <1>1. StreamInv => TypeOK
    BY DEF StreamInv, TypeInv
  <1>. QED BY <1>1, StreamInvariance, PTL

\* What the client has is at every moment the beginning of what one attempt
\* said: through the pump, which gathers and sends, through the channels, over
\* the continued rounds and the second attempt, no text is lost in between, none
\* comes twice and none overtakes another.
THEOREM TextIsSafe == Spec => []TextIsOneAnswer
  <1>1. StreamInv => TextIsOneAnswer
    <2>. SUFFICES ASSUME StreamInv PROVE TextIsOneAnswer
      OBVIOUS
    <2>1. PICK rest \in Seq(Text) : said[handler.attempt] = client.text \o rest
      BY DEF StreamInv, Begun
    <2>2. PICK text \in Seq(Text) : text = client.text
      BY Stages DEF StreamInv, Attempts
    <2>3. IsPrefix(text, text \o rest)
      BY BeginningIsPrefix
    <2>. QED BY <2>1, <2>2, <2>3 DEF TextIsOneAnswer
  <1>. QED BY <1>1, StreamInvariance, PTL

\* Whoever is told that the answer is finished has all of it, unless one of the
\* named causes cut it short.
THEOREM FinishedIsAll == Spec => []FinishedIsComplete
  <1>1. StreamInv => FinishedIsComplete
    BY DEF StreamInv
  <1>. QED BY <1>1, StreamInvariance, PTL

===============================================================================
