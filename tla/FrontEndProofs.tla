---------------------------- MODULE FrontEndProofs ----------------------------
(***************************************************************************)
(* Proofs about FileUploads, for every set of requests, of contents and of *)
(* accounts, and about VercelStream, for every set of streams and accounts, *)
(* every number of slots and every lifetime of a lease, with any bounds;   *)
(* then the types of what AnswerOutput and the modules it is built of make *)
(* of a text, for every text: the parser of tool calls, the sieve, and     *)
(* what a line of DeepSeek's stream says; and NodeStream, whose two streams *)
(* keep their types whatever DeepSeek says and however it is cut, and whose *)
(* answers are tried again only while the client was shown nothing.        *)
(***************************************************************************)
EXTENDS FileUploads, VercelStream, NodeStream, FiniteSetTheorems, SequenceTheorems, WellFoundedInduction, TLAPS

-----------------------------------------------------------------------------
\* Sequences built from others, element by element

\* A nonempty set of numbers has a least one.
LEMMA LeastNumber ==
    ASSUME NEW T \in SUBSET Nat, T # {}
    PROVE  \E n \in T : \A m \in T : ~(m < n)
  <1>1. IsWellFoundedOn(OpToRel(<, Nat), Nat)
    BY NatLessThanWellFounded
  <1>2. PICK n \in T : \A m \in T : ~(<<m, n>> \in OpToRel(<, Nat))
    BY <1>1, WFMin
  <1>3. ASSUME NEW m \in T, m < n PROVE <<m, n>> \in OpToRel(<, Nat)
    BY <1>3 DEF OpToRel
  <1>. QED BY <1>2, <1>3

\* g starts with e and goes on with the steps of F, n times.
Runs(e, F, n, g) == g[0] = e /\ \A i \in 1..n : g[i] = F[<<i, g[i - 1]>>]

LEMMA RunsExist ==
    ASSUME NEW T, NEW e \in T, NEW n \in Nat, NEW F \in [(1..n) \X T -> T]
    PROVE  \E g \in [0..n -> T] : Runs(e, F, n, g)
  <1>. DEFINE Bad == {m \in 0..n : ~ \E g \in [0..m -> T] : Runs(e, F, m, g)}
  <1>1. ASSUME NEW m \in 0..n, \A k \in Bad : ~(k < m)
        PROVE  \E g \in [0..m -> T] : Runs(e, F, m, g)
    <2>1. CASE m = 0
      <3>1. [k \in 0..0 |-> e] \in [0..0 -> T] /\ Runs(e, F, 0, [k \in 0..0 |-> e])
        BY DEF Runs
      <3>. QED BY <2>1, <3>1
    <2>2. CASE m > 0
      <3>1. m - 1 \in 0..n /\ m - 1 \notin Bad
        BY <1>1, <2>2
      <3>2. PICK h \in [0..(m - 1) -> T] : Runs(e, F, m - 1, h)
        BY <3>1
      <3>3. h[m - 1] \in T /\ m \in 1..n
        BY <2>2, <3>1
      <3>4. PICK y \in T : y = F[<<m, h[m - 1]>>]
        BY <3>3
      <3>. DEFINE g == [k \in 0..m |-> IF k = m THEN y ELSE h[k]]
      <3>. HIDE DEF Bad
      <3>5. g \in [0..m -> T]
        <4>1. \A k \in 0..m : k # m => k \in 0..(m - 1)
          BY <3>1
        <4>. QED BY <3>2, <3>4, <4>1
      <3>6. g[0] = e
        <4>1. 0 \in 0..m /\ 0 # m
          BY <2>2
        <4>. QED BY <3>2, <4>1 DEF Runs
      <3>7. ASSUME NEW k \in 1..m PROVE g[k] = F[<<k, g[k - 1]>>]
        <4>1. k - 1 \in 0..m /\ k - 1 # m /\ k \in 0..m
          BY <3>3
        <4>2. g[k - 1] = h[k - 1] /\ g[m] = y /\ (k # m => g[k] = h[k])
          BY <3>3, <4>1
        <4>. HIDE DEF g
        <4>3. CASE k = m
          BY <3>4, <4>2, <4>3
        <4>4. CASE k # m
          <5>1. k \in 1..(m - 1)
            BY <3>3, <4>4
          <5>2. h[k] = F[<<k, h[k - 1]>>]
            BY <3>2, <5>1 DEF Runs
          <5>. QED BY <4>2, <4>4, <5>2
        <4>. QED BY <4>3, <4>4
      <3>. HIDE DEF g
      <3>. QED BY <3>5, <3>6, <3>7 DEF Runs
    <2>. QED BY <2>1, <2>2
  <1>2. Bad \in SUBSET Nat
    OBVIOUS
  <1>3. ASSUME NEW m \in Bad, \A k \in Bad : ~(k < m) PROVE FALSE
    BY <1>1, <1>3
  <1>4. n \in 0..n
    OBVIOUS
  <1>5. n \notin Bad => \E g \in [0..n -> T] : Runs(e, F, n, g)
    BY <1>4
  <1>. HIDE DEF Bad
  <1>6. Bad = {}
    BY <1>2, <1>3, LeastNumber
  <1>. QED BY <1>5, <1>6

\* No element is there twice.
Once(r) == \A i, j \in DOMAIN r : i # j => r[i] # r[j]
Given(r) == {r[i] : i \in DOMAIN r}

LEMMA AddedToGiven ==
    ASSUME NEW r \in Seq(Int), NEW x \in Int
    PROVE  /\ Append(r, x) \in Seq(Int) /\ Given(Append(r, x)) = Given(r) \union {x}
           /\ Once(r) /\ x \notin Given(r) => Once(Append(r, x))
  <1>. DEFINE s == Append(r, x)
  <1>1. /\ s \in Seq(Int) /\ Len(s) = Len(r) + 1 /\ s[Len(r) + 1] = x /\ \A i \in 1..Len(r) : s[i] = r[i]
        /\ Len(r) \in Nat /\ DOMAIN r = 1..Len(r) /\ DOMAIN s = 1..Len(s)
    BY AppendProperties, LenProperties
  <1>. HIDE DEF s
  <1>2. \A i \in 1..Len(s) : i \in 1..Len(r) \/ i = Len(r) + 1
    BY <1>1
  <1>3. \A i \in 1..Len(r) : i \in 1..Len(s) /\ i # Len(r) + 1
    BY <1>1
  <1>4. Len(r) + 1 \in 1..Len(s)
    BY <1>1
  <1>5. Given(s) = Given(r) \union {x}
    BY <1>1, <1>2, <1>3, <1>4 DEF Given
  <1>6. ASSUME Once(r), x \notin Given(r) PROVE Once(s)
    BY <1>1, <1>2, <1>6 DEF Once, Given
  <1>. QED BY <1>1, <1>5, <1>6 DEF s

LEMMA PutBeforeGiven ==
    ASSUME NEW r \in Seq(Int), NEW x \in Int, Once(r), x \notin Given(r)
    PROVE  /\ <<x>> \o r \in Seq(Int) /\ Given(<<x>> \o r) = Given(r) \union {x}
           /\ Once(<<x>> \o r) /\ 1 \in DOMAIN (<<x>> \o r) /\ (<<x>> \o r)[1] = x
  <1>. DEFINE s == <<x>> \o r
  <1>1. PICK e \in Seq(Int) : e = <<x>> /\ Len(e) = 1 /\ e[1] = x
    <2>1. <<x>> \in Seq(Int) /\ Len(<<x>>) = 1 /\ <<x>>[1] = x
      OBVIOUS
    <2>. QED BY <2>1
  <1>2. /\ s \in Seq(Int) /\ Len(s) = 1 + Len(r)
        /\ \A i \in 1..(1 + Len(r)) : s[i] = IF i <= 1 THEN e[i] ELSE r[i - 1]
    BY <1>1, ConcatProperties
  <1>3. Len(r) \in Nat /\ DOMAIN r = 1..Len(r) /\ DOMAIN s = 1..Len(s)
    BY <1>2, LenProperties
  <1>. HIDE DEF s
  <1>4. \A i \in 1..Len(s) : (i = 1 /\ s[i] = x) \/ (i - 1 \in 1..Len(r) /\ s[i] = r[i - 1])
    BY <1>1, <1>2, <1>3
  <1>5. ASSUME NEW i \in 1..Len(r) PROVE i + 1 \in 1..Len(s) /\ s[i + 1] = r[i]
    <2>1. i + 1 \in 1..(1 + Len(r)) /\ ~(i + 1 <= 1) /\ (i + 1) - 1 = i
      BY <1>3
    <2>. QED BY <1>2, <2>1
  <1>6. 1 \in 1..Len(s) /\ s[1] = x
    BY <1>1, <1>2, <1>3
  <1>7. Given(s) = Given(r) \union {x}
    <2>1. \A y \in Given(s) : y \in Given(r) \union {x}
      BY <1>3, <1>4 DEF Given
    <2>2. \A y \in Given(r) : y \in Given(s)
      BY <1>3, <1>5 DEF Given
    <2>3. x \in Given(s)
      BY <1>3, <1>6 DEF Given
    <2>. QED BY <2>1, <2>2, <2>3
  <1>8. Once(s)
    <2>. SUFFICES ASSUME NEW i \in 1..Len(s), NEW j \in 1..Len(s), i # j PROVE s[i] # s[j]
      BY <1>3 DEF Once
    <2>1. CASE i = 1
      <3>1. j - 1 \in 1..Len(r) /\ s[j] = r[j - 1]
        BY <1>4, <2>1
      <3>. QED BY <1>3, <1>6, <2>1, <3>1 DEF Given
    <2>2. CASE j = 1
      <3>1. i - 1 \in 1..Len(r) /\ s[i] = r[i - 1]
        BY <1>4, <2>2
      <3>. QED BY <1>3, <1>6, <2>2, <3>1 DEF Given
    <2>3. CASE i # 1 /\ j # 1
      <3>1. i - 1 \in 1..Len(r) /\ s[i] = r[i - 1] /\ j - 1 \in 1..Len(r) /\ s[j] = r[j - 1] /\ i - 1 # j - 1
        BY <1>4, <2>3
      <3>. QED BY <1>3, <3>1 DEF Once
    <2>. QED BY <2>1, <2>2, <2>3
  <1>. QED BY <1>2, <1>3, <1>6, <1>7, <1>8 DEF s

\* What Distinct keeps: each element once, and all but NoFile.
LEMMA DistinctLaws ==
    ASSUME NEW ids \in Seq(Int)
    PROVE  /\ Distinct(ids) \in Seq(Int) /\ Once(Distinct(ids))
           /\ Given(Distinct(ids)) = Given(ids) \ {NoFile}
  <1>. DEFINE n == Len(ids)
              F == [p \in (1..n) \X Seq(Int) |->
                        IF ids[p[1]] = NoFile \/ \E j \in DOMAIN p[2] : p[2][j] = ids[p[1]]
                        THEN p[2] ELSE Append(p[2], ids[p[1]])]
              Next(i, s) == IF ids[i] = NoFile \/ ids[i] \in Given(s) THEN s ELSE Append(s, ids[i])
              Rec(f) == f = [i \in 0..n |->
                            CASE i = 0 -> <<>>
                              [] i > 0 /\ (ids[i] = NoFile \/ \E j \in DOMAIN f[i - 1] : f[i - 1][j] = ids[i]) -> f[i - 1]
                              [] OTHER -> Append(f[i - 1], ids[i])]
  <1>1. n \in Nat /\ DOMAIN ids = 1..n /\ \A i \in 1..n : ids[i] \in Int
    BY LenProperties, ElementOfSeq
  <1>2. ASSUME NEW i \in 1..n, NEW s \in Seq(Int) PROVE F[<<i, s>>] \in Seq(Int)
    BY <1>1, AppendProperties
  <1>3. F \in [(1..n) \X Seq(Int) -> Seq(Int)]
    BY <1>1, AppendProperties
  <1>4. ASSUME NEW i \in 1..n, NEW s \in Seq(Int) PROVE F[<<i, s>>] = Next(i, s)
    BY DEF Given
  <1>5. <<>> \in Seq(Int)
    BY EmptySeq
  <1>. HIDE DEF F
  <1>6. PICK g \in [0..n -> Seq(Int)] : Runs(<<>>, F, n, g)
    BY <1>1, <1>3, <1>5, RunsExist
  <1>7. g[0] = <<>> /\ \A i \in 1..n : g[i] = Next(i, g[i - 1])
    <2>. HIDE DEF Next
    <2>1. \A i \in 1..n : i - 1 \in 0..n
      BY <1>1
    <2>2. \A i \in 1..n : g[i - 1] \in Seq(Int)
      BY <1>6, <2>1
    <2>3. \A i \in 1..n : g[i] = F[<<i, g[i - 1]>>]
      BY <1>6 DEF Runs
    <2>4. g[0] = <<>>
      BY <1>6 DEF Runs
    <2>. QED BY <1>4, <2>2, <2>3, <2>4
  <1>8. Rec(g)
    <2>1. ASSUME NEW i \in 0..n
          PROVE  g[i] = CASE i = 0 -> <<>>
                          [] i > 0 /\ (ids[i] = NoFile \/ \E j \in DOMAIN g[i - 1] : g[i - 1][j] = ids[i]) -> g[i - 1]
                          [] OTHER -> Append(g[i - 1], ids[i])
      <3>1. CASE i = 0
        BY <1>7, <3>1
      <3>2. CASE i # 0
        <4>1. i \in 1..n /\ i > 0
          BY <1>1, <3>2
        <4>2. g[i] = Next(i, g[i - 1])
          BY <1>7, <4>1
        <4>. QED BY <3>2, <4>1, <4>2 DEF Given
      <3>. QED BY <3>1, <3>2
    <2>. QED BY <2>1
  <1>9. PICK f : Rec(f) /\ Distinct(ids) = f[n]
    BY <1>8 DEF Distinct
  <1>10. f[0] = <<>> /\ \A i \in 1..n : f[i] = Next(i, f[i - 1])
    <2>1. f[0] = <<>>
      BY <1>1, <1>9
    <2>2. ASSUME NEW i \in 1..n PROVE f[i] = Next(i, f[i - 1])
      <3>1. f[i] = CASE i = 0 -> <<>>
                     [] i > 0 /\ (ids[i] = NoFile \/ \E j \in DOMAIN f[i - 1] : f[i - 1][j] = ids[i]) -> f[i - 1]
                     [] OTHER -> Append(f[i - 1], ids[i])
        <4>1. i \in 0..n
          BY <1>1
        <4>. QED BY <1>9, <4>1
      <3>2. i # 0 /\ i > 0
        BY <1>1
      <3>. QED BY <3>1, <3>2 DEF Given
    <2>. QED BY <2>1, <2>2
  <1>. DEFINE Fine(i) == /\ f[i] \in Seq(Int) /\ Once(f[i])
                         /\ Given(f[i]) = {ids[j] : j \in 1..i} \ {NoFile}
              Bad == {i \in 0..n : ~Fine(i)}
  <1>11. ASSUME NEW i \in 0..n, \A j \in Bad : ~(j < i) PROVE Fine(i)
    <2>1. CASE i = 0
      <3>1. <<>> \in Seq(Int) /\ Once(<<>>) /\ Given(<<>>) = {}
        BY EmptySeq DEF Once, Given
      <3>2. f[i] = <<>>
        BY <1>10, <2>1
      <3>3. {ids[j] : j \in 1..i} = {}
        BY <2>1
      <3>. QED BY <3>1, <3>2, <3>3
    <2>2. CASE i # 0
      <3>1. i \in 1..n /\ i - 1 \in 0..n /\ i - 1 \notin Bad
        <4>1. i \in 1..n /\ i - 1 \in 0..n /\ i - 1 < i
          BY <1>1, <2>2
        <4>. QED BY <1>11, <4>1
      <3>2. Fine(i - 1)
        BY <3>1
      <3>3. {ids[j] : j \in 1..i} = {ids[j] : j \in 1..(i - 1)} \union {ids[i]}
        <4>1. \A j \in 1..i : j \in 1..(i - 1) \/ j = i
          BY <1>1
        <4>2. \A j \in 1..(i - 1) : j \in 1..i
          BY <1>1
        <4>3. i \in 1..i
          BY <3>1
        <4>. QED BY <4>1, <4>2, <4>3
      <3>4. PICK s \in Seq(Int) : s = f[i - 1]
        BY <3>2
      <3>5. ids[i] \in Int
        BY <1>1, <3>1
      <3>6. CASE ids[i] = NoFile \/ ids[i] \in Given(s)
        <4>1. f[i] = f[i - 1]
          BY <1>10, <3>1, <3>4, <3>6
        <4>. QED BY <3>2, <3>3, <3>4, <3>6, <4>1
      <3>7. CASE ids[i] # NoFile /\ ids[i] \notin Given(s)
        <4>1. f[i] = Append(s, ids[i])
          BY <1>10, <3>1, <3>4, <3>7
        <4>2. /\ Append(s, ids[i]) \in Seq(Int) /\ Given(Append(s, ids[i])) = Given(s) \union {ids[i]}
              /\ Once(s) /\ ids[i] \notin Given(s) => Once(Append(s, ids[i]))
          BY <3>5, AddedToGiven
        <4>. QED BY <3>2, <3>3, <3>4, <3>7, <4>1, <4>2
      <3>. QED BY <3>6, <3>7
    <2>. QED BY <2>1, <2>2
  <1>12. Bad \in SUBSET Nat
    OBVIOUS
  <1>13. ASSUME NEW i \in Bad, \A j \in Bad : ~(j < i) PROVE FALSE
    BY <1>11, <1>13
  <1>14. n \notin Bad => Fine(n)
    <2>. HIDE DEF Fine
    <2>1. n \in 0..n
      BY <1>1
    <2>. HIDE DEF n
    <2>. QED BY <2>1
  <1>. HIDE DEF Bad
  <1>15. Bad = {}
    BY <1>12, <1>13, LeastNumber
  <1>16. Given(ids) = {ids[j] : j \in 1..n}
    BY <1>1 DEF Given
  <1>. QED BY <1>9, <1>14, <1>15, <1>16

\* What OtherThan keeps: all but one element and NoFile.
LEMMA OtherThanLaws ==
    ASSUME NEW ids \in Seq(Int), NEW id \in Int, Once(ids)
    PROVE  /\ OtherThan(ids, id) \in Seq(Int) /\ Once(OtherThan(ids, id))
           /\ Given(OtherThan(ids, id)) = Given(ids) \ {id, NoFile}
  <1>. DEFINE n == Len(ids)
              F == [p \in (1..n) \X Seq(Int) |->
                        IF ids[p[1]] \in {id, NoFile}
                        THEN p[2] ELSE Append(p[2], ids[p[1]])]
              Next(i, s) == IF ids[i] \in {id, NoFile} THEN s ELSE Append(s, ids[i])
              Rec(f) == f = [i \in 0..n |->
                            CASE i = 0 -> <<>>
                              [] i > 0 /\ ids[i] \in {id, NoFile} -> f[i - 1]
                              [] OTHER -> Append(f[i - 1], ids[i])]
  <1>1. n \in Nat /\ DOMAIN ids = 1..n /\ \A i \in 1..n : ids[i] \in Int
    BY LenProperties, ElementOfSeq
  <1>2. ASSUME NEW i \in 1..n, NEW s \in Seq(Int) PROVE F[<<i, s>>] \in Seq(Int)
    BY <1>1, AppendProperties
  <1>3. F \in [(1..n) \X Seq(Int) -> Seq(Int)]
    BY <1>1, AppendProperties
  <1>4. ASSUME NEW i \in 1..n, NEW s \in Seq(Int) PROVE F[<<i, s>>] = Next(i, s)
    BY DEF Given
  <1>5. <<>> \in Seq(Int)
    BY EmptySeq
  <1>. HIDE DEF F
  <1>6. PICK g \in [0..n -> Seq(Int)] : Runs(<<>>, F, n, g)
    BY <1>1, <1>3, <1>5, RunsExist
  <1>7. g[0] = <<>> /\ \A i \in 1..n : g[i] = Next(i, g[i - 1])
    <2>. HIDE DEF Next
    <2>1. \A i \in 1..n : i - 1 \in 0..n
      BY <1>1
    <2>2. \A i \in 1..n : g[i - 1] \in Seq(Int)
      BY <1>6, <2>1
    <2>3. \A i \in 1..n : g[i] = F[<<i, g[i - 1]>>]
      BY <1>6 DEF Runs
    <2>4. g[0] = <<>>
      BY <1>6 DEF Runs
    <2>. QED BY <1>4, <2>2, <2>3, <2>4
  <1>8. Rec(g)
    <2>1. ASSUME NEW i \in 0..n
          PROVE  g[i] = CASE i = 0 -> <<>>
                          [] i > 0 /\ ids[i] \in {id, NoFile} -> g[i - 1]
                          [] OTHER -> Append(g[i - 1], ids[i])
      <3>1. CASE i = 0
        BY <1>7, <3>1
      <3>2. CASE i # 0
        <4>1. i \in 1..n /\ i > 0
          BY <1>1, <3>2
        <4>2. g[i] = Next(i, g[i - 1])
          BY <1>7, <4>1
        <4>. QED BY <3>2, <4>1, <4>2 DEF Given
      <3>. QED BY <3>1, <3>2
    <2>. QED BY <2>1
  <1>9. PICK f : Rec(f) /\ OtherThan(ids, id) = f[n]
    BY <1>8 DEF OtherThan
  <1>10. f[0] = <<>> /\ \A i \in 1..n : f[i] = Next(i, f[i - 1])
    <2>1. f[0] = <<>>
      BY <1>1, <1>9
    <2>2. ASSUME NEW i \in 1..n PROVE f[i] = Next(i, f[i - 1])
      <3>1. f[i] = CASE i = 0 -> <<>>
                     [] i > 0 /\ ids[i] \in {id, NoFile} -> f[i - 1]
                     [] OTHER -> Append(f[i - 1], ids[i])
        <4>1. i \in 0..n
          BY <1>1
        <4>. QED BY <1>9, <4>1
      <3>2. i # 0 /\ i > 0
        BY <1>1
      <3>. QED BY <3>1, <3>2 DEF Given
    <2>. QED BY <2>1, <2>2
  <1>. DEFINE Fine(i) == /\ f[i] \in Seq(Int) /\ Once(f[i])
                         /\ Given(f[i]) = {ids[j] : j \in 1..i} \ {id, NoFile}
              Bad == {i \in 0..n : ~Fine(i)}
  <1>11. ASSUME NEW i \in 0..n, \A j \in Bad : ~(j < i) PROVE Fine(i)
    <2>1. CASE i = 0
      <3>1. <<>> \in Seq(Int) /\ Once(<<>>) /\ Given(<<>>) = {}
        BY EmptySeq DEF Once, Given
      <3>2. f[i] = <<>>
        BY <1>10, <2>1
      <3>3. {ids[j] : j \in 1..i} = {}
        BY <2>1
      <3>. QED BY <3>1, <3>2, <3>3
    <2>2. CASE i # 0
      <3>1. i \in 1..n /\ i - 1 \in 0..n /\ i - 1 \notin Bad
        <4>1. i \in 1..n /\ i - 1 \in 0..n /\ i - 1 < i
          BY <1>1, <2>2
        <4>. QED BY <1>11, <4>1
      <3>2. Fine(i - 1)
        BY <3>1
      <3>3. {ids[j] : j \in 1..i} = {ids[j] : j \in 1..(i - 1)} \union {ids[i]}
        <4>1. \A j \in 1..i : j \in 1..(i - 1) \/ j = i
          BY <1>1
        <4>2. \A j \in 1..(i - 1) : j \in 1..i
          BY <1>1
        <4>3. i \in 1..i
          BY <3>1
        <4>. QED BY <4>1, <4>2, <4>3
      <3>4. PICK s \in Seq(Int) : s = f[i - 1]
        BY <3>2
      <3>5. ids[i] \in Int
        BY <1>1, <3>1
      <3>6. CASE ids[i] \in {id, NoFile}
        <4>1. f[i] = f[i - 1]
          BY <1>10, <3>1, <3>4, <3>6
        <4>. QED BY <3>2, <3>3, <3>4, <3>6, <4>1
      <3>7. ids[i] \notin Given(s)
        <4>1. \A j \in 1..(i - 1) : j \in 1..n /\ j # i
          BY <1>1, <3>1
        <4>2. \A j \in 1..(i - 1) : ids[j] # ids[i]
          BY <1>1, <3>1, <4>1 DEF Once
        <4>. QED BY <3>2, <3>4, <4>2
      <3>8. CASE ids[i] \notin {id, NoFile}
        <4>1. f[i] = Append(s, ids[i])
          BY <1>10, <3>1, <3>4, <3>8
        <4>2. /\ Append(s, ids[i]) \in Seq(Int) /\ Given(Append(s, ids[i])) = Given(s) \union {ids[i]}
              /\ Once(s) /\ ids[i] \notin Given(s) => Once(Append(s, ids[i]))
          BY <3>5, AddedToGiven
        <4>. QED BY <3>2, <3>3, <3>4, <3>8, <3>7, <4>1, <4>2
      <3>. QED BY <3>6, <3>8
    <2>. QED BY <2>1, <2>2
  <1>12. Bad \in SUBSET Nat
    OBVIOUS
  <1>13. ASSUME NEW i \in Bad, \A j \in Bad : ~(j < i) PROVE FALSE
    BY <1>11, <1>13
  <1>14. n \notin Bad => Fine(n)
    <2>. HIDE DEF Fine
    <2>1. n \in 0..n
      BY <1>1
    <2>. HIDE DEF n
    <2>. QED BY <2>1
  <1>. HIDE DEF Bad
  <1>15. Bad = {}
    BY <1>12, <1>13, LeastNumber
  <1>16. Given(ids) = {ids[j] : j \in 1..n}
    BY <1>1 DEF Given
  <1>. QED BY <1>9, <1>14, <1>15, <1>16

-----------------------------------------------------------------------------
\* The invariant

\* What a file may hold, and what an upload is of.
Contained == Contents \union {Transcript, Empty, CHOOSE c \in Contents : TRUE}
FileType == [content : Contained, owner : FileAccounts \union {NoAccount}, ready : BOOLEAN]
CallType == [purpose : {"none", "inline", "input", "direct"}, content : Contained, attempts : 0..MaxAttempts,
             refreshed : BOOLEAN, id : Nat, polls : 0..MaxPolls]

Decodes(i) == WalkOrder[i].holds
Places == 1..Len(WalkOrder)
Uploading == at \in {"pow", "sending", "resending", "polling"}

\* The state has its type.
Typed ==
    /\ ask \in Asks
    /\ at \in {"walking", "pow", "sending", "resending", "polling", "session", "asking", "leaving", "over"}
    /\ walked \in 0..Len(WalkOrder) /\ count \in 0..MaxInline
    /\ files \in Seq(FileType) /\ fileOf \in [Places -> 0..Len(files)]
    /\ cache \subseteq [content : Contents, id : 1..Len(files)]
    /\ call \in CallType
    /\ tried \subseteq FileAccounts \union {NoAccount} /\ account \in tried
    /\ refs \in Seq(Int)
    /\ asked \in [account : FileAccounts \union {NoAccount}, refs : Seq(Int)]

\* A file is owned by an account the request was given.
Owned == \A k \in 1..Len(files) : files[k].owner \in tried

\* What was uploaded is known by its content, ready, and of an object that was
\* walked; every file among these objects was uploaded, and nothing else.
Cached ==
    /\ \A c \in cache :
          /\ files[c.id].ready /\ files[c.id].content = c.content
          /\ \E i \in 1..walked : Decodes(i).found /\ Decodes(i).content = c.content
    /\ \A c, d \in cache : c.content = d.content => c = d
    /\ \A i \in 1..walked : Decodes(i).found =>
          /\ Decodes(i).content \in Contents
          /\ \E c \in cache : c.content = Decodes(i).content /\ c.id = fileOf[i]
    /\ \A i \in Places : i > walked \/ ~Decodes(i).found => fileOf[i] = NoFile

\* Where an upload under way comes from, and what is left of it.
Inline ==
    /\ call.purpose = "inline" /\ walked < Len(WalkOrder) /\ count < MaxInline
    /\ Decodes(walked + 1).found /\ Decodes(walked + 1).content = call.content /\ call.content \in Contents
    /\ \A c \in cache : c.content # call.content
Input ==
    /\ call.purpose = "input" /\ call.content = Transcript /\ ask.long
    /\ walked = Len(WalkOrder) /\ refs = CollectOpenAIRefFileIDs
CalledFor ==
    Uploading =>
        /\ call.attempts < MaxAttempts /\ call.polls < MaxPolls
        /\ Inline \/ Input \/ (call.purpose = "direct" /\ ask.kind = "upload")
        /\ ask.kind = "upload" => call.purpose = "direct"
        /\ at = "polling" => call.id \in 1..Len(files) /\ files[call.id].content = call.content

\* References as they are to be, of the files fs: see FilesAreReferredTo.
NamedFiles == {WalkOrder[i].names : i \in DOMAIN WalkOrder} \union {ask.refs[i] : i \in DOMAIN ask.refs}
InlineContents ==
    {WalkOrder[i].holds.content : i \in {j \in DOMAIN WalkOrder : WalkOrder[j].collected /\ WalkOrder[j].holds.found}}
Own(r) == Given(r) \cap Nat
Referred(fs, r) ==
    /\ Once(r)
    /\ \A id \in Own(r) : id \in 1..Len(fs) /\ fs[id].ready
    /\ {fs[id].content : id \in Own(r)} = InlineContents \union (IF ask.long THEN {Transcript} ELSE {})
    /\ \A x, y \in Own(r) : x # y => fs[x].content # fs[y].content
    /\ ask.long => 1 \in DOMAIN r /\ r[1] \in Own(r) /\ fs[r[1]].content = Transcript
    /\ Given(r) \cap UserFiles = NamedFiles \cap UserFiles
Phases ==
    /\ at = "walking" => ask.kind = "chat"
    /\ at \in {"session", "asking"} => ask.kind = "chat" /\ Referred(files, refs)
    /\ at \in {"leaving", "over"} /\ status = 200 /\ ask.kind = "chat" => Referred(files, asked.refs) /\ asked.account \in tried

FilesInv == Typed /\ Owned /\ Cached /\ CalledFor /\ Phases

-----------------------------------------------------------------------------
\* The request and its files

ObjectSet == {ObjectsOf(b)[j] : b \in Block, j \in 1..4}

\* The objects of blocks, one after the other.
LEMMA ObjectsType ==
    ASSUME NEW blocks \in Seq(Block)
    PROVE  /\ Objects(blocks) \in Seq(ObjectSet)
           /\ Len(Objects(blocks)) = 4 * Len(blocks)
  <1>. DEFINE n == Len(blocks)
  <1>1. n \in Nat /\ DOMAIN blocks = 1..n /\ \A k \in 1..n : blocks[k] \in Block
    BY LenProperties, ElementOfSeq
  <1>. HIDE DEF n
  <1>2. ASSUME NEW k \in 1..4 * n
        PROVE  (k + 3) \div 4 \in 1..n /\ ((k - 1) % 4) + 1 \in 1..4
    BY <1>1
  <1>3. \A k \in 1..4 * n : ObjectsOf(blocks[(k + 3) \div 4])[((k - 1) % 4) + 1] \in ObjectSet
    BY <1>1, <1>2 DEF ObjectSet
  <1>4. Objects(blocks) = [k \in 1..4 * n |-> ObjectsOf(blocks[(k + 3) \div 4])[((k - 1) % 4) + 1]]
    BY DEF Objects, n
  <1>5. Objects(blocks) \in [1..4 * n -> ObjectSet]
    BY <1>3, <1>4
  <1>6. 4 * n \in Nat
    BY <1>1
  <1>7. Objects(blocks) \in Seq(ObjectSet)
    BY <1>5, <1>6, SeqDef
  <1>8. Len(Objects(blocks)) = 4 * n
    BY <1>5, <1>6, <1>7, LenProperties
  <1>. QED BY <1>7, <1>8 DEF n

LEMMA RequestType ==
    ASSUME ask \in Asks
    PROVE  /\ IsAsk(ask)
           /\ Len(WalkOrder) = 4 * Len(ask.messages) + 4 * Len(ask.attachments)
           /\ DOMAIN WalkOrder = Places /\ Len(WalkOrder) \in Nat
           /\ \A i \in Places : \E b \in Block, j \in 1..4 : WalkOrder[i] = ObjectsOf(b)[j]
  <1>1. IsAsk(ask)
    BY UploadsAssumption
  <1>2. ask.messages \in Seq(Block) /\ ask.attachments \in Seq(Block)
    BY <1>1 DEF IsAsk
  <1>3. /\ Objects(ask.messages) \in Seq(ObjectSet) /\ Len(Objects(ask.messages)) = 4 * Len(ask.messages)
        /\ Objects(ask.attachments) \in Seq(ObjectSet) /\ Len(Objects(ask.attachments)) = 4 * Len(ask.attachments)
    BY <1>2, ObjectsType
  <1>4. WalkOrder \in Seq(ObjectSet) /\ Len(WalkOrder) = 4 * Len(ask.messages) + 4 * Len(ask.attachments)
    <2>1. ASSUME NEW p \in Seq(ObjectSet), NEW q \in Seq(ObjectSet)
          PROVE  p \o q \in Seq(ObjectSet) /\ Len(p \o q) = Len(p) + Len(q)
      BY ConcatProperties
    <2>2. WalkOrder = Objects(ask.messages) \o Objects(ask.attachments)
      BY DEF WalkOrder
    <2>. QED BY <1>3, <2>1, <2>2
  <1>5. DOMAIN WalkOrder = Places /\ Len(WalkOrder) \in Nat
    BY <1>4, LenProperties DEF Places
  <1>6. \A i \in Places : WalkOrder[i] \in ObjectSet
    BY <1>4, <1>5, ElementOfSeq DEF Places
  <1>7. ASSUME NEW i \in Places PROVE \E b \in Block, j \in 1..4 : WalkOrder[i] = ObjectsOf(b)[j]
    <2>1. WalkOrder[i] \in ObjectSet
      BY <1>6
    <2>. QED BY <2>1 DEF ObjectSet
  <1>. QED BY <1>1, <1>4, <1>5, <1>7

LEMMA LeafDecoded ==
    ASSUME NEW b, b.fileID \in UserFiles \union {NoFile}, b.image \in Payloads, b.data \in Payloads
    PROVE  \/ DecodeLeaf(b) = NotAFile
           \/ \E c \in Contents \union {"bad", Empty} : DecodeLeaf(b) = Decoded(c)
  <1>1. \A p \in Payloads : p # "" => p \in Contents \union {"bad", Empty}
    BY DEF Payloads
  <1>2. CASE b.fileID = NoFile /\ b.image # ""
    BY <1>1, <1>2 DEF DecodeLeaf
  <1>3. CASE b.fileID = NoFile /\ b.image = "" /\ b.data # "" /\ b.named
    BY <1>1, <1>3 DEF DecodeLeaf
  <1>4. CASE ~(b.fileID = NoFile /\ b.image # "") /\ ~(b.fileID = NoFile /\ b.image = "" /\ b.data # "" /\ b.named)
    BY <1>4 DEF DecodeLeaf
  <1>. QED BY <1>2, <1>3, <1>4

\* What an object holds, and that it names no file if it is one, or if nobody
\* looks at it.
Wellformed(o) ==
    /\ o.holds = NotAFile \/ \E c \in Contents \union {"bad", Empty} : o.holds = Decoded(c)
    /\ o.names \in UserFiles \union {NoFile} /\ o.collected \in BOOLEAN
    /\ o.holds # NotAFile \/ ~o.collected => o.names = NoFile

LEMMA LeafNames ==
    ASSUME NEW b, b.fileID # NoFile PROVE DecodeLeaf(b) = NotAFile
  BY DEF DecodeLeaf

LEMMA BlockObjects ==
    ASSUME NEW b \in Block, NEW j \in 1..4 PROVE Wellformed(ObjectsOf(b)[j])
  <1>. DEFINE none == [fileID |-> NoFile, image |-> "", data |-> "", named |-> FALSE]
              whole == decodeOpenAIInlineFileBlock(b)
              inner == IF b.file = <<>> THEN none ELSE b.file[1]
              nested == IF whole.found THEN NotAFile ELSE DecodeLeaf(inner)
              Image(o, replaced) == [holds |-> IF replaced \/ o.image = "" THEN NotAFile ELSE Decoded(o.image),
                                     names |-> NoFile, collected |-> FALSE]
              Leafy(o) == o.fileID \in UserFiles \union {NoFile} /\ o.image \in Payloads /\ o.data \in Payloads
              Holding(h) == h = NotAFile \/ \E c \in Contents \union {"bad", Empty} : h = Decoded(c)
  <1>1. Leafy(b) /\ (b.file = <<>> \/ \E l \in Leaf : b.file = <<l>>)
    BY DEF Block
  <1>2. Leafy(inner)
    <2>1. CASE b.file = <<>>
      <3>1. Leafy(none)
        BY DEF Payloads
      <3>. QED BY <2>1, <3>1
    <2>2. CASE b.file # <<>>
      <3>1. PICK l \in Leaf : b.file = <<l>>
        BY <1>1, <2>2
      <3>2. inner = l
        BY <2>2, <3>1
      <3>. QED BY <3>2 DEF Leaf
    <2>. QED BY <2>1, <2>2
  <1>3. whole = IF b.fileID = NoFile /\ b.file # <<>> THEN DecodeLeaf(inner) ELSE DecodeLeaf(b)
    BY DEF decodeOpenAIInlineFileBlock
  <1>4. ObjectsOf(b) = << [holds |-> whole, names |-> b.fileID, collected |-> TRUE],
                          [holds |-> nested, names |-> inner.fileID, collected |-> TRUE],
                          Image(inner, whole.found \/ nested.found), Image(b, whole.found) >>
    BY DEF ObjectsOf
  <1>. HIDE DEF inner, whole, none
  <1>5. Holding(DecodeLeaf(inner)) /\ Holding(DecodeLeaf(b))
    BY <1>1, <1>2, LeafDecoded
  <1>6. Holding(whole) /\ (whole # NotAFile => b.fileID = NoFile)
    BY <1>3, <1>5, LeafNames
  <1>7. Holding(nested) /\ (nested # NotAFile => inner.fileID = NoFile)
    BY <1>5, LeafNames
  <1>. HIDE DEF nested
  <1>8. ASSUME NEW o, Leafy(o), NEW replaced PROVE Wellformed(Image(o, replaced))
    <2>1. CASE replaced \/ o.image = ""
      BY <2>1 DEF Wellformed, NoFile
    <2>2. CASE ~(replaced \/ o.image = "")
      <3>1. o.image \in Contents \union {"bad", Empty}
        BY <1>8, <2>2 DEF Payloads
      <3>. QED BY <2>2, <3>1 DEF Wellformed
    <2>. QED BY <2>1, <2>2
  <1>9. /\ Wellformed([holds |-> whole, names |-> b.fileID, collected |-> TRUE])
        /\ Wellformed([holds |-> nested, names |-> inner.fileID, collected |-> TRUE])
    BY <1>1, <1>2, <1>6, <1>7 DEF Wellformed
  <1>10. Wellformed(Image(inner, whole.found \/ nested.found)) /\ Wellformed(Image(b, whole.found))
    BY <1>1, <1>2, <1>8
  <1>11. j = 1 \/ j = 2 \/ j = 3 \/ j = 4
    OBVIOUS
  <1>12. ASSUME NEW x, NEW y, NEW u, NEW v, NEW o, o = <<x, y, u, v>>,
                 Wellformed(x), Wellformed(y), Wellformed(u), Wellformed(v)
         PROVE  Wellformed(o[j])
    <2>. HIDE DEF Wellformed
    <2>1. o[1] = x /\ o[2] = y /\ o[3] = u /\ o[4] = v
      BY <1>12
    <2>2. o[j] \in {x, y, u, v}
      BY <1>11, <2>1
    <2>3. \A w \in {x, y, u, v} : Wellformed(w)
      BY <1>12
    <2>. QED BY <2>2, <2>3
  <1>. HIDE DEF Image
  <1>. DEFINE x == [holds |-> whole, names |-> b.fileID, collected |-> TRUE]
              y == [holds |-> nested, names |-> inner.fileID, collected |-> TRUE]
              u == Image(inner, whole.found \/ nested.found)
              v == Image(b, whole.found)
  <1>13. ObjectsOf(b) = <<x, y, u, v>> /\ Wellformed(x) /\ Wellformed(y) /\ Wellformed(u) /\ Wellformed(v)
    BY <1>4, <1>9, <1>10
  <1>. HIDE DEF x, y, u, v
  <1>. QED BY <1>12, <1>13

LEMMA ObjectDecoded ==
    ASSUME ask \in Asks, NEW i \in Places PROVE Wellformed(WalkOrder[i])
  BY RequestType, BlockObjects

\* What decoding finds, field by field.
LEMMA FileFound ==
    ASSUME ask \in Asks, NEW i \in Places
    PROVE  /\ Decodes(i).found => /\ Decodes(i).content \in Contents \union {"bad", Empty}
                                  /\ Decodes(i).bad <=> Decodes(i).content = "bad"
           /\ Decodes(i).found <=> Decodes(i) # NotAFile
           /\ Decodes(i).found \in BOOLEAN /\ Decodes(i).bad \in BOOLEAN
  <1>1. CASE Decodes(i) = NotAFile
    BY <1>1 DEF NotAFile
  <1>2. ASSUME NEW c \in Contents \union {"bad", Empty}, Decodes(i) = Decoded(c)
        PROVE  /\ Decodes(i).found = TRUE /\ Decodes(i).content = c /\ Decodes(i).bad = (c = "bad")
               /\ Decodes(i) # NotAFile
    BY <1>2 DEF Decoded, NotAFile
  <1>. QED BY <1>1, <1>2, ObjectDecoded DEF Wellformed, Decodes

LEMMA RefOfType ==
    ASSUME Typed, NEW i \in Places
    PROVE  /\ RefOf(i) \in Int
           /\ WalkOrder[i].collected /\ fileOf[i] # NoFile => RefOf(i) = fileOf[i]
           /\ fileOf[i] = NoFile => RefOf(i) = WalkOrder[i].names
           /\ ~WalkOrder[i].collected => RefOf(i) = NoFile
           /\ WalkOrder[i].names \in UserFiles \union {NoFile}
           /\ Decodes(i).found \/ ~WalkOrder[i].collected => WalkOrder[i].names = NoFile
  <1>1. Wellformed(WalkOrder[i])
    BY ObjectDecoded DEF Typed
  <1>2. Decodes(i).found => Decodes(i) # NotAFile
    BY FileFound DEF Typed
  <1>3. fileOf[i] \in Int
    <2>1. fileOf[i] \in 0..Len(files)
      BY DEF Typed
    <2>. QED BY <2>1
  <1>4. UserFiles \subseteq Int /\ NoFile \in Int
    <2>1. UserFiles \subseteq Int
      BY UploadsAssumption
    <2>. QED BY <2>1 DEF NoFile
  <1>5. RefOf(i) = IF ~WalkOrder[i].collected THEN NoFile
                   ELSE IF fileOf[i] # NoFile THEN fileOf[i] ELSE WalkOrder[i].names
    BY DEF RefOf
  <1>. QED BY <1>1, <1>2, <1>3, <1>4, <1>5 DEF Wellformed, Decodes

LEMMA GivenConcat ==
    ASSUME NEW a \in Seq(Int), NEW b \in Seq(Int)
    PROVE  a \o b \in Seq(Int) /\ Given(a \o b) = Given(a) \union Given(b)
  <1>. DEFINE s == a \o b
  <1>1. /\ s \in Seq(Int) /\ Len(s) = Len(a) + Len(b)
        /\ \A i \in 1..(Len(a) + Len(b)) : s[i] = IF i <= Len(a) THEN a[i] ELSE b[i - Len(a)]
    BY ConcatProperties
  <1>2. /\ Len(a) \in Nat /\ DOMAIN a = 1..Len(a) /\ Len(b) \in Nat /\ DOMAIN b = 1..Len(b)
        /\ DOMAIN s = 1..Len(s)
    BY <1>1, LenProperties
  <1>. HIDE DEF s
  <1>3. ASSUME NEW i \in 1..Len(a) PROVE i \in 1..Len(s) /\ s[i] = a[i]
    BY <1>1, <1>2
  <1>4. ASSUME NEW i \in 1..Len(b) PROVE Len(a) + i \in 1..Len(s) /\ s[Len(a) + i] = b[i]
    <2>1. Len(a) + i \in 1..(Len(a) + Len(b)) /\ ~(Len(a) + i <= Len(a)) /\ (Len(a) + i) - Len(a) = i
      BY <1>2
    <2>. QED BY <1>1, <2>1
  <1>5. ASSUME NEW i \in 1..Len(s) PROVE s[i] \in Given(a) \union Given(b)
    <2>1. CASE i <= Len(a)
      <3>1. i \in 1..Len(a) /\ s[i] = a[i]
        BY <1>1, <1>2, <2>1
      <3>. QED BY <1>2, <3>1 DEF Given
    <2>2. CASE ~(i <= Len(a))
      <3>1. i - Len(a) \in 1..Len(b) /\ s[i] = b[i - Len(a)]
        BY <1>1, <1>2, <2>2
      <3>. QED BY <1>2, <3>1 DEF Given
    <2>. QED BY <2>1, <2>2
  <1>6. Given(a) \subseteq Given(s)
    BY <1>2, <1>3 DEF Given
  <1>7. Given(b) \subseteq Given(s)
    BY <1>2, <1>4 DEF Given
  <1>8. Given(s) \subseteq Given(a) \union Given(b)
    BY <1>2, <1>5 DEF Given
  <1>. QED BY <1>1, <1>6, <1>7, <1>8 DEF s

\* What references are collected from, with and without files.
Collectible == {RefOf(i) : i \in DOMAIN WalkOrder} \union {ask.refs[i] : i \in DOMAIN ask.refs}

\* The references collected are those the request names or was given, once each.
LEMMA CollectLaws ==
    ASSUME Typed
    PROVE  /\ CollectOpenAIRefFileIDs \in Seq(Int) /\ Once(CollectOpenAIRefFileIDs)
           /\ Given(CollectOpenAIRefFileIDs) = Collectible \ {NoFile}
  <1>. DEFINE m == 4 * Len(ask.messages)
              k == 4 * Len(ask.attachments)
              att == [i \in 1..k |-> RefOf(m + i)]
              mes == [i \in 1..m |-> RefOf(i)]
  <1>1. IsAsk(ask) /\ Len(WalkOrder) = m + k /\ DOMAIN WalkOrder = Places
    BY RequestType DEF Typed
  <1>2. m \in Nat /\ k \in Nat
    <2>1. Len(ask.messages) \in Nat /\ Len(ask.attachments) \in Nat
      BY <1>1, LenProperties DEF IsAsk
    <2>. QED BY <2>1
  <1>3. Places = 1..(m + k)
    BY <1>1 DEF Places
  <1>4. ask.refs \in Seq(Int)
    <2>1. ask.refs \in Seq(UserFiles) /\ UserFiles \subseteq Int
      BY <1>1, UploadsAssumption DEF IsAsk
    <2>. QED BY <2>1, SeqMonotonic
  <1>5. att \in Seq(Int) /\ DOMAIN att = 1..k /\ \A i \in 1..k : att[i] = RefOf(m + i)
    <2>1. ASSUME NEW i \in 1..k PROVE RefOf(m + i) \in Int
      <3>1. m + i \in Places
        <4>. HIDE DEF m, k
        <4>. QED BY <1>3, <1>2
      <3>. QED BY <3>1, RefOfType
    <2>2. att \in [1..k -> Int]
      BY <1>2, <2>1
    <2>3. att \in Seq(Int)
      BY <1>2, <2>2, SeqDef
    <2>. QED BY <1>2, <2>2, <2>3
  <1>6. mes \in Seq(Int) /\ DOMAIN mes = 1..m /\ \A i \in 1..m : mes[i] = RefOf(i)
    <2>1. ASSUME NEW i \in 1..m PROVE RefOf(i) \in Int
      <3>1. i \in Places
        <4>. HIDE DEF m, k
        <4>. QED BY <1>3, <1>2
      <3>. QED BY <3>1, RefOfType
    <2>2. mes \in [1..m -> Int]
      BY <2>1
    <2>3. mes \in Seq(Int)
      BY <1>2, <2>2, SeqDef
    <2>. QED BY <2>2, <2>3
  <1>7. CollectOpenAIRefFileIDs = Distinct(ask.refs \o att \o mes)
    BY DEF CollectOpenAIRefFileIDs
  <1>. HIDE DEF att, mes, m, k
  <1>8. PICK a \in Seq(Int) : a = ask.refs \o att /\ Given(a) = Given(ask.refs) \union Given(att)
    BY <1>4, <1>5, GivenConcat
  <1>9. PICK b \in Seq(Int) : b = a \o mes /\ Given(b) = Given(a) \union Given(mes)
    BY <1>6, GivenConcat
  <1>10. Given(att) \union Given(mes) = {RefOf(i) : i \in DOMAIN WalkOrder}
    <2>1. \A i \in Places : i \in 1..m \/ (i - m \in 1..k /\ m + (i - m) = i)
      BY <1>3, <1>2
    <2>2. \A i \in 1..k : m + i \in Places
      BY <1>3, <1>2
    <2>3. \A i \in 1..m : i \in Places
      BY <1>3, <1>2
    <2>4. Given(att) \subseteq {RefOf(i) : i \in Places}
      BY <1>5, <2>2 DEF Given
    <2>5. Given(mes) \subseteq {RefOf(i) : i \in Places}
      BY <1>6, <2>3 DEF Given
    <2>6. {RefOf(i) : i \in Places} \subseteq Given(att) \union Given(mes)
      <3>. SUFFICES ASSUME NEW i \in Places PROVE RefOf(i) \in Given(att) \union Given(mes)
        OBVIOUS
      <3>1. CASE i \in 1..m
        BY <1>6, <3>1 DEF Given
      <3>2. CASE i \notin 1..m
        <4>1. i - m \in 1..k /\ m + (i - m) = i
          BY <2>1, <3>2
        <4>2. att[i - m] = RefOf(i)
          BY <1>5, <4>1
        <4>. QED BY <1>5, <4>1, <4>2 DEF Given
      <3>. QED BY <3>1, <3>2
    <2>. QED BY <1>1, <2>4, <2>5, <2>6
  <1>11. Given(b) = Collectible
    BY <1>8, <1>9, <1>10 DEF Collectible, Given
  <1>12. Distinct(b) \in Seq(Int) /\ Once(Distinct(b)) /\ Given(Distinct(b)) = Given(b) \ {NoFile}
    BY DistinctLaws
  <1>. QED BY <1>7, <1>8, <1>9, <1>11, <1>12

\* The files fs are those there are, some of which became ready, and new ones.
Keeps(fs) ==
    /\ fs \in Seq(FileType) /\ Len(files) <= Len(fs)
    /\ \A k \in 1..Len(files) : /\ fs[k].content = files[k].content /\ fs[k].owner = files[k].owner
                                /\ files[k].ready => fs[k].ready

LEMMA CacheKept ==
    ASSUME Typed, Cached, NEW fs, Keeps(fs), NEW c \in cache
    PROVE  /\ c.id \in 1..Len(fs) /\ c.id \in 1..Len(files) /\ fs[c.id].ready /\ fs[c.id].content = c.content
           /\ c.content \in Contents /\ c.id \in Nat /\ c.id # NoFile
  <1>1. c \in [content : Contents, id : 1..Len(files)]
    BY DEF Typed
  <1>2. c.id \in 1..Len(files) /\ c.content \in Contents
    BY <1>1
  <1>3. Len(files) \in Nat /\ Len(fs) \in Nat /\ Len(files) <= Len(fs)
    BY LenProperties DEF Typed, Keeps
  <1>4. c.id \in 1..Len(fs) /\ c.id \in Nat /\ c.id # 0
    BY <1>2, <1>3
  <1>5. files[c.id].ready /\ files[c.id].content = c.content
    BY DEF Cached
  <1>6. fs[c.id].content = files[c.id].content /\ (files[c.id].ready => fs[c.id].ready)
    BY <1>2 DEF Keeps
  <1>. QED BY <1>2, <1>4, <1>5, <1>6 DEF NoFile

\* When every object was walked, the references collected are those to be given.
LEMMA CollectReferred ==
    ASSUME Typed, Cached, walked = Len(WalkOrder), NEW fs, Keeps(fs), NEW r, r = CollectOpenAIRefFileIDs
    PROVE  /\ r \in Seq(Int) /\ Once(r)
           /\ \A x \in Own(r) : x \in 1..Len(fs) /\ fs[x].ready /\ fs[x].content \in Contents
           /\ {fs[x].content : x \in Own(r)} = InlineContents
           /\ \A x, y \in Own(r) : x # y => fs[x].content # fs[y].content
           /\ Given(r) \cap UserFiles = NamedFiles \cap UserFiles
  <1>1. r \in Seq(Int) /\ Once(r) /\ Given(r) = Collectible \ {NoFile}
    BY CollectLaws
  <1>2. IsAsk(ask) /\ DOMAIN WalkOrder = Places /\ ask \in Asks /\ \A i \in Places : i \in 1..walked
    BY RequestType DEF Typed, Places
  <1>3. UserFiles \cap Nat = {} /\ NoFile \notin UserFiles
    <2>1. \A id \in UserFiles : id < 0
      BY UploadsAssumption
    <2>2. \A id \in Nat : ~(id < 0)
      OBVIOUS
    <2>3. NoFile \in Nat
      BY DEF NoFile
    <2>. QED BY <2>1, <2>2, <2>3
  <1>4. \A i \in DOMAIN ask.refs : ask.refs[i] \in UserFiles
    <2>1. ask.refs \in Seq(UserFiles)
      BY <1>2 DEF IsAsk
    <2>. QED BY <2>1, ElementOfSeq, LenProperties
  <1>5. ASSUME NEW i \in Places, Decodes(i).found, WalkOrder[i].collected
        PROVE  \E c \in cache : c.content = Decodes(i).content /\ c.id = RefOf(i)
    <2>1. PICK c \in cache : c.content = Decodes(i).content /\ c.id = fileOf[i]
      BY <1>2, <1>5 DEF Cached
    <2>2. c.id # NoFile
      BY CacheKept
    <2>3. WalkOrder[i].collected /\ fileOf[i] # NoFile => RefOf(i) = fileOf[i]
      BY RefOfType
    <2>. QED BY <1>5, <2>1, <2>2, <2>3
  <1>6. ASSUME NEW i \in Places, ~Decodes(i).found \/ ~WalkOrder[i].collected
        PROVE  RefOf(i) = WalkOrder[i].names /\ RefOf(i) \in UserFiles \union {NoFile}
    <2>1. CASE ~Decodes(i).found
      <3>1. fileOf[i] = NoFile
        BY <2>1 DEF Cached
      <3>. QED BY <3>1, RefOfType
    <2>2. CASE ~WalkOrder[i].collected
      BY <2>2, RefOfType
    <2>. QED BY <1>6, <2>1, <2>2
  <1>7. ASSUME NEW x \in Own(r)
        PROVE  \E c \in cache : c.id = x /\ \E i \in Places : /\ Decodes(i).found /\ WalkOrder[i].collected
                                                           /\ Decodes(i).content = c.content
    <2>1. x \in Collectible /\ x # NoFile /\ x \notin UserFiles
      BY <1>1, <1>3 DEF Own
    <2>2. PICK i \in Places : x = RefOf(i)
      BY <1>2, <1>4, <2>1 DEF Collectible
    <2>3. Decodes(i).found /\ WalkOrder[i].collected
      BY <1>6, <2>1, <2>2
    <2>4. PICK c \in cache : c.content = Decodes(i).content /\ c.id = RefOf(i)
      BY <1>5, <2>3
    <2>. QED BY <2>2, <2>3, <2>4
  <1>8. ASSUME NEW i \in Places, Decodes(i).found, WalkOrder[i].collected
        PROVE  \E c \in cache : c.content = Decodes(i).content /\ c.id \in Own(r)
    <2>1. PICK c \in cache : c.content = Decodes(i).content /\ c.id = RefOf(i)
      BY <1>5, <1>8
    <2>2. c.id \in Collectible
      BY <1>2, <2>1 DEF Collectible
    <2>3. c.id \in Nat /\ c.id # NoFile
      BY CacheKept
    <2>. QED BY <1>1, <2>1, <2>2, <2>3 DEF Own
  <1>10. ASSUME NEW x \in Own(r) PROVE x \in 1..Len(fs) /\ fs[x].ready /\ fs[x].content \in Contents
    <2>1. PICK c \in cache : c.id = x
      BY <1>7
    <2>. QED BY <2>1, CacheKept
  <1>11. ASSUME NEW x \in Own(r), NEW y \in Own(r), x # y PROVE fs[x].content # fs[y].content
    <2>1. PICK c \in cache : c.id = x
      BY <1>7
    <2>2. PICK d \in cache : d.id = y
      BY <1>7
    <2>3. c # d
      BY <1>11, <2>1, <2>2
    <2>4. c.content # d.content
      BY <2>3 DEF Cached
    <2>. QED BY <2>1, <2>2, <2>4, CacheKept
  <1>12. {fs[x].content : x \in Own(r)} \subseteq InlineContents
    <2>. SUFFICES ASSUME NEW x \in Own(r) PROVE fs[x].content \in InlineContents
      OBVIOUS
    <2>1. PICK c \in cache : c.id = x /\ \E i \in Places : /\ Decodes(i).found /\ WalkOrder[i].collected
                                                         /\ Decodes(i).content = c.content
      BY <1>7
    <2>2. PICK i \in Places : Decodes(i).found /\ WalkOrder[i].collected /\ Decodes(i).content = c.content
      BY <2>1
    <2>3. fs[x].content = Decodes(i).content
      BY <2>1, <2>2, CacheKept
    <2>. QED BY <1>2, <2>2, <2>3 DEF InlineContents, Decodes
  <1>13. InlineContents \subseteq {fs[x].content : x \in Own(r)}
    <2>. SUFFICES ASSUME NEW i \in Places, Decodes(i).found, WalkOrder[i].collected
                  PROVE  Decodes(i).content \in {fs[x].content : x \in Own(r)}
      BY <1>2 DEF InlineContents, Decodes
    <2>1. PICK c \in cache : c.content = Decodes(i).content /\ c.id \in Own(r)
      BY <1>8
    <2>2. fs[c.id].content = c.content
      BY CacheKept
    <2>. QED BY <2>1, <2>2
  <1>14. Given(r) \cap UserFiles = NamedFiles \cap UserFiles
    <2>. SUFFICES ASSUME NEW x \in UserFiles PROVE x \in Collectible <=> x \in NamedFiles
      BY <1>1, <1>3
    <2>1. ASSUME NEW i \in Places PROVE x = RefOf(i) <=> x = WalkOrder[i].names
      <3>1. CASE Decodes(i).found /\ WalkOrder[i].collected
        <4>1. PICK c \in cache : c.id = RefOf(i)
          BY <1>5, <3>1
        <4>2. RefOf(i) \in Nat
          BY <4>1, CacheKept
        <4>3. WalkOrder[i].names = NoFile
          BY <3>1, RefOfType
        <4>. QED BY <1>3, <4>2, <4>3
      <3>2. CASE ~Decodes(i).found \/ ~WalkOrder[i].collected
        BY <1>6, <3>2
      <3>. QED BY <3>1, <3>2
    <2>. QED BY <1>2, <2>1 DEF Collectible, NamedFiles
  <1>. QED BY <1>1, <1>10, <1>11, <1>12, <1>13, <1>14

\* With the file of the conversation before them, too.
LEMMA PrependReferred ==
    ASSUME Typed, Cached, walked = Len(WalkOrder), NEW fs, Keeps(fs), ask.long,
           NEW id \in 1..Len(fs), fs[id].ready, fs[id].content = Transcript
    PROVE  /\ prependUniqueRefFileID(CollectOpenAIRefFileIDs, id) \in Seq(Int)
           /\ Referred(fs, prependUniqueRefFileID(CollectOpenAIRefFileIDs, id))
  <1>1. PICK r : r = CollectOpenAIRefFileIDs
    OBVIOUS
  <1>2. /\ r \in Seq(Int) /\ Once(r)
        /\ \A x \in Own(r) : x \in 1..Len(fs) /\ fs[x].ready /\ fs[x].content \in Contents
        /\ {fs[x].content : x \in Own(r)} = InlineContents
        /\ \A x, y \in Own(r) : x # y => fs[x].content # fs[y].content
        /\ Given(r) \cap UserFiles = NamedFiles \cap UserFiles
    BY <1>1, CollectReferred
  <1>3. id \in Int /\ id \in Nat /\ id # NoFile
    <2>1. Len(fs) \in Nat
      BY LenProperties DEF Keeps
    <2>. QED BY <2>1 DEF NoFile
  <1>4. Transcript \notin Contents
    BY UploadsAssumption
  <1>5. id \notin UserFiles
    <2>1. \A x \in UserFiles : x < 0
      BY UploadsAssumption
    <2>2. ~(id < 0)
      BY <1>3
    <2>. QED BY <2>1, <2>2
  <1>6. id \notin Given(r)
    BY <1>2, <1>3, <1>4 DEF Own
  <1>7. NoFile \notin Given(r)
    BY <1>1, CollectLaws
  <1>8. PICK w \in Seq(Int) : w = OtherThan(r, id) /\ Once(w) /\ Given(w) = Given(r) \ {id, NoFile}
    BY <1>2, <1>3, OtherThanLaws
  <1>9. Given(w) = Given(r)
    BY <1>6, <1>7, <1>8
  <1>10. PICK p \in Seq(Int) : p = <<id>> \o w /\ Given(p) = Given(r) \union {id} /\ Once(p) /\ 1 \in DOMAIN p /\ p[1] = id
    <2>1. Once(w) /\ id \notin Given(w)
      BY <1>6, <1>8, <1>9
    <2>2. /\ <<id>> \o w \in Seq(Int) /\ Given(<<id>> \o w) = Given(w) \union {id}
          /\ Once(<<id>> \o w) /\ 1 \in DOMAIN (<<id>> \o w) /\ (<<id>> \o w)[1] = id
      BY <1>3, <2>1, PutBeforeGiven
    <2>. QED BY <1>9, <2>2
  <1>11. p = prependUniqueRefFileID(CollectOpenAIRefFileIDs, id)
    BY <1>1, <1>8, <1>10 DEF prependUniqueRefFileID
  <1>12. Own(p) = Own(r) \union {id}
    BY <1>3, <1>10 DEF Own
  <1>13. \A x \in Own(p) : x \in 1..Len(fs) /\ fs[x].ready
    BY <1>2, <1>12
  <1>14. {fs[x].content : x \in Own(p)} = InlineContents \union {Transcript}
    BY <1>2, <1>12
  <1>15. \A x, y \in Own(p) : x # y => fs[x].content # fs[y].content
    BY <1>2, <1>4, <1>12
  <1>16. Given(p) \cap UserFiles = NamedFiles \cap UserFiles
    BY <1>2, <1>5, <1>10
  <1>17. p[1] \in Own(p) /\ fs[p[1]].content = Transcript
    BY <1>10, <1>12
  <1>. QED BY <1>10, <1>11, <1>13, <1>14, <1>15, <1>16, <1>17 DEF Referred

-----------------------------------------------------------------------------
\* Steps

\* What every step of an upload does to the files and the accounts.
Advances ==
    /\ UNCHANGED <<ask, asked>> /\ Keeps(files')
    /\ tried \subseteq tried' /\ tried' \subseteq FileAccounts \union {NoAccount} /\ account' \in tried'
    /\ \A k \in 1..Len(files') : k > Len(files) => files'[k].owner \in tried'

LEMMA OwnersKept ==
    ASSUME FilesInv, Advances
    PROVE  Owned'
  <1>1. Len(files) \in Nat /\ Len(files') \in Nat
    BY LenProperties DEF FilesInv, Typed, Advances, Keeps
  <1>2. ASSUME NEW k \in 1..Len(files') PROVE files'[k].owner \in tried'
    <2>1. CASE k > Len(files)
      BY <2>1 DEF Advances
    <2>2. CASE ~(k > Len(files))
      <3>1. k \in 1..Len(files)
        BY <1>1, <2>2
      <3>2. files[k].owner \in tried
        BY <3>1 DEF FilesInv, Owned
      <3>. QED BY <3>1, <3>2 DEF Advances, Keeps
    <2>. QED BY <2>1, <2>2
  <1>. QED BY <1>2 DEF Owned

LEMMA OrderKept ==
    ASSUME UNCHANGED ask
    PROVE  WalkOrder' = WalkOrder /\ Places' = Places /\ \A i : Decodes(i)' = Decodes(i)
  BY DEF WalkOrder, Places, Decodes

LEMMA CachedKept ==
    ASSUME FilesInv, Advances, UNCHANGED <<walked, fileOf, cache>>
    PROVE  Cached'
  <1>1. WalkOrder' = WalkOrder /\ Places' = Places /\ \A i : Decodes(i)' = Decodes(i)
    BY OrderKept DEF Advances
  <1>2. ASSUME NEW c \in cache PROVE files'[c.id].ready /\ files'[c.id].content = c.content
    BY CacheKept DEF FilesInv, Advances
  <1>. QED BY <1>1, <1>2 DEF Cached, FilesInv

LEMMA TypedKept ==
    ASSUME FilesInv, Advances, UNCHANGED <<walked, fileOf, cache>>
    PROVE  /\ ask' \in Asks /\ walked' \in 0..Len(WalkOrder') /\ files' \in Seq(FileType)
           /\ fileOf' \in [Places' -> 0..Len(files')]
           /\ cache' \subseteq [content : Contents, id : 1..Len(files')]
           /\ tried' \subseteq FileAccounts \union {NoAccount} /\ account' \in tried'
           /\ asked' \in [account : FileAccounts \union {NoAccount}, refs : Seq(Int)]
  <1>1. WalkOrder' = WalkOrder /\ Places' = Places
    BY OrderKept DEF Advances
  <1>2. /\ Len(files) \in Nat /\ Len(files') \in Nat /\ Len(files) <= Len(files')
    BY LenProperties DEF FilesInv, Typed, Advances, Keeps
  <1>3. 0..Len(files) \subseteq 0..Len(files') /\ 1..Len(files) \subseteq 1..Len(files')
    BY <1>2
  <1>4. fileOf \in [Places -> 0..Len(files)] /\ cache \subseteq [content : Contents, id : 1..Len(files)]
    BY DEF FilesInv, Typed
  <1>5. fileOf \in [Places -> 0..Len(files')]
    BY <1>3, <1>4
  <1>6. cache \subseteq [content : Contents, id : 1..Len(files')]
    BY <1>3, <1>4
  <1>7. ask \in Asks /\ walked \in 0..Len(WalkOrder) /\ asked \in [account : FileAccounts \union {NoAccount}, refs : Seq(Int)]
    BY DEF FilesInv, Typed
  <1>. QED BY <1>1, <1>5, <1>6, <1>7 DEF Advances, Keeps

\* An upload that failed ends the request.
LEMMA FailedStep ==
    ASSUME FilesInv, Advances, UNCHANGED cache, AnswersWith(400) \/ AnswersWith(500), call' \in CallType,
           UNCHANGED <<walked, fileOf, count, refs>>
    PROVE  FilesInv'
  <1>1. at' = "leaving" /\ status' # 200
    BY DEF AnswersWith
  <1>2. CalledFor' /\ Phases'
    BY <1>1 DEF CalledFor, Phases, Uploading
  <1>3. count' \in 0..MaxInline /\ refs' \in Seq(Int)
    BY DEF FilesInv, Typed
  <1>4. Typed'
    BY <1>1, <1>3, TypedKept DEF Typed
  <1>. QED BY <1>2, <1>4, OwnersKept, CachedKept DEF FilesInv

\* An upload that goes on is of the same.
LEMMA GoesOnStep ==
    ASSUME FilesInv, Uploading, Advances, at' \in {"pow", "sending", "resending", "polling"},
           UNCHANGED <<walked, fileOf, count, cache, refs, status>>,
           call' \in CallType, call'.purpose = call.purpose, call'.content = call.content,
           call'.attempts < MaxAttempts, call'.polls < MaxPolls,
           at' = "polling" => call'.id \in 1..Len(files') /\ files'[call'.id].content = call.content
    PROVE  FilesInv'
  <1>1. WalkOrder' = WalkOrder /\ Places' = Places /\ \A i : Decodes(i)' = Decodes(i)
    BY OrderKept DEF Advances
  <1>2. Phases'
    BY DEF Phases
  <1>3. count' \in 0..MaxInline /\ refs' \in Seq(Int)
    BY DEF FilesInv, Typed
  <1>4. Typed'
    BY <1>3, TypedKept DEF Typed
  <1>5. UNCHANGED ask
    BY DEF Advances
  <1>6. Inline => Inline'
    BY <1>1 DEF Inline
  <1>7. CollectOpenAIRefFileIDs' = CollectOpenAIRefFileIDs
    BY <1>5 DEF CollectOpenAIRefFileIDs, RefOf, WalkOrder
  <1>8. Input => Input'
    BY <1>1, <1>5, <1>7 DEF Input
  <1>9. CalledFor
    BY DEF FilesInv
  <1>10. CalledFor'
    BY <1>5, <1>6, <1>8, <1>9 DEF CalledFor
  <1>. QED BY <1>2, <1>4, <1>10, OwnersKept, CachedKept DEF FilesInv

LEMMA AttemptStep ==
    ASSUME FilesInv, Uploading, Advances, NEW b \in BOOLEAN, NextAttempt(b)
    PROVE  FilesInv'
  <1>1. /\ call \in CallType /\ call.attempts \in Nat /\ call.attempts < MaxAttempts
        /\ MaxAttempts \in Nat /\ MaxPolls \in Nat /\ 0 < MaxPolls
    <2>1. call \in CallType /\ call.attempts < MaxAttempts
      BY DEF FilesInv, CalledFor, Typed
    <2>2. call.attempts \in 0..MaxAttempts
      BY <2>1 DEF CallType
    <2>3. MaxAttempts \in Nat /\ MaxPolls \in Nat /\ 0 < MaxPolls
      <3>1. MaxAttempts \in Nat \ {0} /\ MaxPolls \in Nat \ {0}
        BY UploadsAssumption
      <3>. QED BY <3>1
    <2>. QED BY <2>1, <2>2, <2>3
  <1>2. call.attempts + 1 \in 0..MaxAttempts /\ 0 \in Nat /\ 0 \in 0..MaxPolls
    BY <1>1
  <1>3. call' = [call EXCEPT !.attempts = call.attempts + 1, !.refreshed = b, !.id = NoFile, !.polls = 0]
    BY DEF NextAttempt, AttemptOf
  <1>4. call' \in CallType
    BY <1>1, <1>2, <1>3 DEF CallType, NoFile
  <1>5. /\ call'.purpose = call.purpose /\ call'.content = call.content
        /\ call'.attempts = call.attempts + 1 /\ call'.polls = 0
    BY <1>1, <1>3 DEF CallType
  <1>6. CASE call.attempts < MaxAttempts - 1
    <2>1. at' = "pow" /\ UNCHANGED <<walked, fileOf, count, cache, refs, status>>
      BY <1>6 DEF NextAttempt, AttemptOf
    <2>2. call'.attempts < MaxAttempts /\ call'.polls < MaxPolls
      BY <1>1, <1>5, <1>6
    <2>. QED BY <1>4, <1>5, <2>1, <2>2, GoesOnStep
  <1>7. CASE ~(call.attempts < MaxAttempts - 1)
    BY <1>4, <1>7, FailedStep DEF NextAttempt, AttemptOf, UploadFailed
  <1>. QED BY <1>6, <1>7

LEMMA InlineDone ==
    ASSUME FilesInv, Advances, Inline, NEW id \in 1..Len(files'), files'[id].ready, files'[id].content = call.content,
           Replace(walked + 1, id), cache' = cache \union {[content |-> call.content, id |-> id]}
    PROVE  /\ Cached' /\ walked' \in 0..Len(WalkOrder') /\ count' \in 0..MaxInline
           /\ fileOf' \in [Places' -> 0..Len(files')]
           /\ cache' \subseteq [content : Contents, id : 1..Len(files')]
  <1>1. WalkOrder' = WalkOrder /\ Places' = Places /\ \A i : Decodes(i)' = Decodes(i)
    BY OrderKept DEF Advances
  <1>2. /\ Len(files) \in Nat /\ Len(files') \in Nat /\ Len(files) <= Len(files')
    BY LenProperties DEF FilesInv, Typed, Advances, Keeps
  <1>3. Len(WalkOrder) \in Nat
    BY RequestType DEF FilesInv, Typed
  <1>4. walked \in 0..Len(WalkOrder) /\ count \in 0..MaxInline /\ walked < Len(WalkOrder) /\ count < MaxInline
    BY DEF FilesInv, Typed, Inline
  <1>5. walked' = walked + 1 /\ walked' \in 0..Len(WalkOrder) /\ walked' \in Places
    BY <1>3, <1>4 DEF Replace, Places
  <1>6. count' \in 0..MaxInline
    <2>1. MaxInline \in Nat /\ count' = count + 1
      BY UploadsAssumption DEF Replace
    <2>. QED BY <1>4, <2>1
  <1>7. fileOf \in [Places -> 0..Len(files)] /\ cache \subseteq [content : Contents, id : 1..Len(files)]
    BY DEF FilesInv, Typed
  <1>8. 0..Len(files) \subseteq 0..Len(files') /\ 1..Len(files) \subseteq 1..Len(files') /\ id \in 0..Len(files')
    BY <1>2
  <1>9. fileOf' = [fileOf EXCEPT ![walked'] = id]
    BY <1>5 DEF Replace
  <1>10. fileOf' \in [Places -> 0..Len(files')]
    BY <1>5, <1>7, <1>8, <1>9
  <1>11. fileOf'[walked'] = id /\ \A i \in Places : i # walked' => fileOf'[i] = fileOf[i]
    BY <1>5, <1>7, <1>9
  <1>. DEFINE new == [content |-> call.content, id |-> id]
  <1>12. new.content = call.content /\ new.id = id /\ new \in cache' /\ \A c \in cache' : c \in cache \/ c = new
    OBVIOUS
  <1>13. cache' \subseteq [content : Contents, id : 1..Len(files')]
    BY <1>7, <1>8 DEF Inline
  <1>. HIDE DEF new
  <1>14. \A i \in 1..walked' : (i \in 1..walked /\ i # walked' /\ i \in Places) \/ i = walked'
    BY <1>3, <1>4, <1>5 DEF Places
  <1>15. \A i \in 1..walked : i \in 1..walked'
    BY <1>4, <1>5
  <1>16. walked' \in 1..walked'
    BY <1>4, <1>5
  <1>17. Decodes(walked').found /\ Decodes(walked').content = call.content /\ call.content \in Contents
         /\ \A c \in cache : c.content # call.content
    BY <1>5 DEF Inline
  <1>18. ASSUME NEW c \in cache'
         PROVE  /\ files'[c.id].ready /\ files'[c.id].content = c.content
                /\ \E i \in 1..walked' : Decodes(i).found /\ Decodes(i).content = c.content
    <2>1. CASE c \in cache
      <3>1. files'[c.id].ready /\ files'[c.id].content = c.content
        BY <2>1, CacheKept DEF FilesInv, Advances
      <3>2. \E i \in 1..walked : Decodes(i).found /\ Decodes(i).content = c.content
        BY <2>1 DEF FilesInv, Cached
      <3>. QED BY <1>15, <3>1, <3>2
    <2>2. CASE c = new
      BY <1>12, <1>16, <1>17, <2>2
    <2>. QED BY <1>12, <2>1, <2>2
  <1>19. ASSUME NEW c \in cache', NEW d \in cache', c.content = d.content PROVE c = d
    BY <1>12, <1>17, <1>19 DEF FilesInv, Cached
  <1>20. ASSUME NEW i \in 1..walked', Decodes(i).found
         PROVE  /\ Decodes(i).content \in Contents
                /\ \E c \in cache' : c.content = Decodes(i).content /\ c.id = fileOf'[i]
    <2>1. CASE i = walked'
      BY <1>11, <1>12, <1>17, <2>1
    <2>2. CASE i \in 1..walked /\ i # walked' /\ i \in Places
      <3>1. /\ Decodes(i).content \in Contents
            /\ \E c \in cache : c.content = Decodes(i).content /\ c.id = fileOf[i]
        BY <1>20, <2>2 DEF FilesInv, Cached
      <3>2. fileOf'[i] = fileOf[i]
        BY <1>11, <2>2
      <3>. QED BY <3>1, <3>2
    <2>. QED BY <1>14, <2>1, <2>2
  <1>21. ASSUME NEW i \in Places, i > walked' \/ ~Decodes(i).found PROVE fileOf'[i] = NoFile
    <2>1. i # walked'
      BY <1>5, <1>17, <1>21 DEF Places
    <2>2. i > walked \/ ~Decodes(i).found
      BY <1>4, <1>5, <1>21 DEF Places
    <2>3. fileOf[i] = NoFile
      BY <2>2 DEF FilesInv, Cached
    <2>. QED BY <1>11, <2>1, <2>3
  <1>22. Cached'
    BY <1>1, <1>18, <1>19, <1>20, <1>21 DEF Cached
  <1>. QED BY <1>1, <1>5, <1>6, <1>10, <1>13, <1>22

\* An upload whose file is ready.
LEMMA DoneStep ==
    ASSUME FilesInv, Uploading, Advances, NEW id \in 1..Len(files'), files'[id].ready,
           files'[id].content = call.content, UploadDone(id), UNCHANGED call
    PROVE  FilesInv'
  <1>1. Inline \/ Input \/ (call.purpose = "direct" /\ ask.kind = "upload")
    BY DEF FilesInv, CalledFor
  <1>2. WalkOrder' = WalkOrder /\ Places' = Places /\ UNCHANGED ask
    BY OrderKept DEF Advances
  <1>3. call' \in CallType
    BY DEF FilesInv, Typed
  <1>4. ask.kind = "upload" => call.purpose = "direct"
    BY DEF FilesInv, CalledFor
  <1>5. ask.kind \in {"upload", "chat"}
    BY RequestType DEF FilesInv, Typed, IsAsk
  <1>6. CASE Inline
    <2>1. /\ Replace(walked + 1, id) /\ cache' = cache \union {[content |-> call.content, id |-> id]}
          /\ at' = "walking" /\ UNCHANGED <<refs, status>>
      BY <1>6 DEF Inline, UploadDone
    <2>2. /\ Cached' /\ walked' \in 0..Len(WalkOrder') /\ count' \in 0..MaxInline
          /\ fileOf' \in [Places' -> 0..Len(files')]
          /\ cache' \subseteq [content : Contents, id : 1..Len(files')]
      BY <1>6, <2>1, InlineDone
    <2>3. CalledFor' /\ Phases'
      BY <1>2, <1>4, <1>5, <1>6, <2>1 DEF CalledFor, Phases, Uploading, Inline
    <2>4. /\ refs' \in Seq(Int) /\ ask' \in Asks /\ files' \in Seq(FileType)
          /\ asked' \in [account : FileAccounts \union {NoAccount}, refs : Seq(Int)]
          /\ tried' \subseteq FileAccounts \union {NoAccount} /\ account' \in tried'
      BY <1>2, <2>1 DEF FilesInv, Typed, Advances, Keeps
    <2>5. Typed'
      BY <1>3, <2>1, <2>2, <2>4 DEF Typed
    <2>. QED BY <2>2, <2>3, <2>5, OwnersKept DEF FilesInv
  <1>7. CASE Input
    <2>1. /\ refs' = prependUniqueRefFileID(refs, id) /\ at' = "session"
          /\ UNCHANGED <<walked, fileOf, count, cache, status>>
      BY <1>7 DEF Input, UploadDone
    <2>2. /\ refs' \in Seq(Int) /\ Referred(files', refs')
      BY <1>7, <2>1, PrependReferred DEF FilesInv, Input, Advances
    <2>3. Referred(files, refs)'
      <3>1. NamedFiles' = NamedFiles /\ InlineContents' = InlineContents
        BY <1>2, <2>1 DEF NamedFiles, InlineContents, RefOf
      <3>. QED BY <1>2, <2>2, <3>1 DEF Referred
    <2>4. CalledFor' /\ Phases'
      BY <1>2, <1>4, <1>5, <1>7, <2>1, <2>3 DEF CalledFor, Phases, Uploading, Input
    <2>5. count' \in 0..MaxInline
      BY <2>1 DEF FilesInv, Typed
    <2>6. Typed'
      BY <1>3, <2>1, <2>2, <2>5, TypedKept DEF Typed
    <2>. QED BY <2>1, <2>4, <2>6, OwnersKept, CachedKept DEF FilesInv
  <1>8. CASE call.purpose = "direct" /\ ask.kind = "upload"
    <2>1. at' = "leaving" /\ UNCHANGED <<walked, fileOf, count, cache, refs>>
      BY <1>8 DEF UploadDone, AnswersWith
    <2>2. CalledFor' /\ Phases'
      BY <1>2, <1>8, <2>1 DEF CalledFor, Phases, Uploading
    <2>3. count' \in 0..MaxInline /\ refs' \in Seq(Int)
      BY <2>1 DEF FilesInv, Typed
    <2>4. Typed'
      BY <1>3, <2>1, <2>3, TypedKept DEF Typed
    <2>. QED BY <2>1, <2>2, <2>4, OwnersKept, CachedKept DEF FilesInv
  <1>. QED BY <1>1, <1>6, <1>7, <1>8

LEMMA AppendLaws ==
    ASSUME NEW S, NEW s \in Seq(S), NEW e \in S
    PROVE  /\ Append(s, e) \in Seq(S) /\ Len(Append(s, e)) = Len(s) + 1 /\ Append(s, e)[Len(s) + 1] = e
           /\ \A i \in 1..Len(s) : Append(s, e)[i] = s[i]
           /\ Len(s) \in Nat
  BY AppendProperties, LenProperties

LEMMA FileAppended ==
    ASSUME Typed, NEW f \in FileType, f.owner = account
    PROVE  /\ Keeps(Append(files, f)) /\ Len(Append(files, f)) = Len(files) + 1
           /\ Append(files, f)[Len(files) + 1] = f
           /\ \A k \in 1..Len(Append(files, f)) : k > Len(files) => Append(files, f)[k].owner = account
           /\ Len(files) + 1 \in 1..Len(Append(files, f)) /\ Len(files) \in Nat
  <1>1. files \in Seq(FileType)
    BY DEF Typed
  <1>2. PICK s : s = Append(files, f)
    OBVIOUS
  <1>3. /\ s \in Seq(FileType) /\ Len(s) = Len(files) + 1 /\ s[Len(files) + 1] = f
        /\ (\A i \in 1..Len(files) : s[i] = files[i]) /\ Len(files) \in Nat
    BY <1>1, <1>2, AppendLaws
  <1>4. Keeps(s)
    BY <1>3 DEF Keeps
  <1>5. \A k \in 1..Len(s) : k > Len(files) => k = Len(files) + 1
    BY <1>3
  <1>6. Len(files) + 1 \in 1..Len(s)
    BY <1>3
  <1>. QED BY <1>2, <1>3, <1>4, <1>5, <1>6

LEMMA FileOfCall ==
    ASSUME FilesInv, NEW b \in BOOLEAN, NEW f, f = [content |-> call.content, owner |-> account, ready |-> b]
    PROVE  f \in FileType /\ f.owner = account /\ f.content = call.content /\ f.ready = b
  <1>1. call.content \in Contained /\ account \in FileAccounts \union {NoAccount}
    BY DEF FilesInv, Typed, CallType
  <1>. QED BY <1>1 DEF FileType

LEMMA FilesSame ==
    ASSUME Typed
    PROVE  Keeps(files) /\ \A k \in 1..Len(files) : ~(k > Len(files))
  <1>1. Len(files) \in Nat /\ files \in Seq(FileType)
    BY LenProperties DEF Typed
  <1>. QED BY <1>1 DEF Keeps

LEMMA CallHeld ==
    ASSUME FilesInv
    PROVE  /\ call \in CallType /\ call.content \in Contained
           /\ tried \subseteq FileAccounts \union {NoAccount} /\ account \in tried
  BY DEF FilesInv, Typed, CallType

\* What is sent may have left a file or none.
LEMMA MaybeStored ==
    ASSUME FilesInv, UNCHANGED <<ask, asked, account, tried>>, files' \in {files, Stored(FALSE)}
    PROVE  Advances
  <1>1. Typed
    BY DEF FilesInv
  <1>2. Keeps(files') /\ \A k \in 1..Len(files') : k > Len(files) => files'[k].owner = account
    <2>1. CASE files' = files
      BY <1>1, <2>1, FilesSame
    <2>2. CASE files' = Stored(FALSE)
      <3>1. PICK f : f = [content |-> call.content, owner |-> account, ready |-> FALSE]
        OBVIOUS
      <3>2. files' = Append(files, f)
        BY <2>2, <3>1 DEF Stored
      <3>3. /\ Keeps(Append(files, f))
            /\ \A k \in 1..Len(Append(files, f)) : k > Len(files) => Append(files, f)[k].owner = account
        <4>1. FALSE \in BOOLEAN
          OBVIOUS
        <4>2. f \in FileType /\ f.owner = account
          BY <3>1, <4>1, FileOfCall
        <4>. QED BY <1>1, <4>2, FileAppended
      <3>. QED BY <3>2, <3>3
    <2>. QED BY <2>1, <2>2
  <1>. QED BY <1>2, CallHeld DEF Advances

LEMMA doUploadStep ==
    ASSUME FilesInv, doUpload
    PROVE  FilesInv'
  <1>1. Uploading /\ UNCHANGED <<ask, asked, account, tried, call>> /\ files' \in {files, Stored(FALSE)}
    BY DEF doUpload, Uploading
  <1>2. call.attempts < MaxAttempts /\ call.polls < MaxPolls
    BY <1>1 DEF FilesInv, CalledFor
  <1>3. at' = "resending" /\ UNCHANGED <<walked, fileOf, count, cache, refs, status>>
    BY DEF doUpload
  <1>. QED BY <1>1, <1>2, <1>3, CallHeld, MaybeStored, GoesOnStep

LEMMA UploadLostStep ==
    ASSUME FilesInv, UploadLost
    PROVE  FilesInv'
  <1>1. UNCHANGED <<ask, asked, account, tried>> /\ files' \in {files, Stored(FALSE)} /\ Uploading
    BY DEF UploadLost, Sending, Uploading
  <1>2. Advances
    BY <1>1, MaybeStored
  <1>3. call.refreshed \in BOOLEAN
    BY CallHeld DEF CallType
  <1>4. NextAttempt(call.refreshed)
    BY DEF UploadLost
  <1>. QED BY <1>1, <1>2, <1>3, <1>4, AttemptStep

LEMMA UploadAcceptedStep ==
    ASSUME FilesInv, UploadAccepted
    PROVE  FilesInv'
  <1>1. Typed
    BY DEF FilesInv
  <1>2. UNCHANGED <<ask, asked, account, tried>> /\ Uploading /\ files' = Stored(FALSE)
    BY DEF UploadAccepted, Sending, Uploading
  <1>3. PICK f : f = [content |-> call.content, owner |-> account, ready |-> FALSE]
    OBVIOUS
  <1>4. files' = Append(files, f)
    BY <1>2, <1>3 DEF Stored
  <1>5. /\ Keeps(files') /\ files'[Len(files) + 1] = f
        /\ \A k \in 1..Len(files') : k > Len(files) => files'[k].owner = account
        /\ Len(files) + 1 \in 1..Len(files') /\ Len(files) \in Nat
    <2>1. /\ Keeps(Append(files, f)) /\ Append(files, f)[Len(files) + 1] = f
          /\ \A k \in 1..Len(Append(files, f)) : k > Len(files) => Append(files, f)[k].owner = account
          /\ Len(files) + 1 \in 1..Len(Append(files, f)) /\ Len(files) \in Nat
      <3>1. FALSE \in BOOLEAN
        OBVIOUS
      <3>2. f \in FileType /\ f.owner = account
        BY <1>3, <3>1, FileOfCall
      <3>. QED BY <1>1, <3>2, FileAppended
    <2>. QED BY <1>4, <2>1
  <1>6. Advances
    BY <1>2, <1>5, CallHeld DEF Advances
  <1>7. CASE call' = [call EXCEPT !.id = Len(files) + 1] /\ at' = "polling"
             /\ UNCHANGED <<walked, fileOf, count, cache, refs, status>>
    <2>1. call' \in CallType /\ call'.id = Len(files) + 1
          /\ call'.purpose = call.purpose /\ call'.content = call.content
          /\ call'.attempts = call.attempts /\ call'.polls = call.polls
      BY <1>5, <1>7, CallHeld DEF CallType
    <2>2. call.attempts < MaxAttempts /\ call.polls < MaxPolls
      BY <1>2 DEF FilesInv, CalledFor
    <2>3. files'[call'.id].content = call.content
      BY <1>3, <1>5, <2>1
    <2>. QED BY <1>2, <1>5, <1>6, <1>7, <2>1, <2>2, <2>3, GoesOnStep
  <1>8. CASE UploadFailed /\ UNCHANGED call
    BY <1>6, <1>8, CallHeld, FailedStep DEF UploadFailed
  <1>. QED BY <1>7, <1>8 DEF UploadAccepted

LEMMA UploadReadyStep ==
    ASSUME FilesInv, UploadReady
    PROVE  FilesInv'
  <1>1. Typed
    BY DEF FilesInv
  <1>2. UNCHANGED <<ask, asked, account, tried, call>> /\ Uploading /\ UploadDone(Len(files) + 1)
    BY DEF UploadReady, Sending, Uploading
  <1>3. PICK f : f = [content |-> call.content, owner |-> account, ready |-> TRUE]
    OBVIOUS
  <1>4. files' = Append(files, f)
    BY <1>3 DEF UploadReady, Stored
  <1>5. /\ Keeps(files') /\ files'[Len(files) + 1] = f
        /\ \A k \in 1..Len(files') : k > Len(files) => files'[k].owner = account
        /\ Len(files) + 1 \in 1..Len(files')
    <2>1. /\ Keeps(Append(files, f)) /\ Append(files, f)[Len(files) + 1] = f
          /\ \A k \in 1..Len(Append(files, f)) : k > Len(files) => Append(files, f)[k].owner = account
          /\ Len(files) + 1 \in 1..Len(Append(files, f))
      <3>1. TRUE \in BOOLEAN
        OBVIOUS
      <3>2. f \in FileType /\ f.owner = account
        BY <1>3, <3>1, FileOfCall
      <3>. QED BY <1>1, <3>2, FileAppended
    <2>. QED BY <1>4, <2>1
  <1>6. Advances
    BY <1>2, <1>5, CallHeld DEF Advances
  <1>7. files'[Len(files) + 1].ready /\ files'[Len(files) + 1].content = call.content
    BY <1>3, <1>5
  <1>. QED BY <1>2, <1>5, <1>6, <1>7, DoneStep

LEMMA UploadRefusedStep ==
    ASSUME FilesInv, UploadRefused
    PROVE  FilesInv'
  <1>1. Typed
    BY DEF FilesInv
  <1>2. UNCHANGED <<ask, asked, files>> /\ Uploading
    BY DEF UploadRefused, Sending, Uploading
  <1>3. /\ tried \subseteq tried' /\ tried' \subseteq FileAccounts \union {NoAccount} /\ account' \in tried'
    BY CallHeld DEF UploadRefused, Switches
  <1>4. Advances
    BY <1>1, <1>2, <1>3, FilesSame DEF Advances
  <1>5. call.refreshed \in BOOLEAN
    BY CallHeld DEF CallType
  <1>6. \E b \in BOOLEAN : NextAttempt(b)
    BY <1>5 DEF UploadRefused
  <1>. QED BY <1>2, <1>4, <1>6, AttemptStep

LEMMA MovedType ==
    ASSUME FilesInv, MayMove
    PROVE  /\ tried \subseteq tried' /\ tried' \subseteq FileAccounts \union {NoAccount} /\ account' \in tried'
  BY CallHeld DEF MayMove

LEMMA UploadPowStep ==
    ASSUME FilesInv, UploadPow
    PROVE  FilesInv'
  <1>1. Typed /\ UNCHANGED <<ask, asked, files, call>> /\ Uploading /\ MayMove
    BY DEF FilesInv, UploadPow, Uploading
  <1>2. Advances
    BY <1>1, MovedType, FilesSame DEF Advances
  <1>3. CASE at' = "sending" /\ UNCHANGED <<walked, fileOf, count, cache, refs, status>>
    <2>1. call.attempts < MaxAttempts /\ call.polls < MaxPolls
      BY <1>1 DEF FilesInv, CalledFor
    <2>. QED BY <1>1, <1>2, <1>3, <2>1, CallHeld, GoesOnStep
  <1>4. CASE UploadFailed
    BY <1>1, <1>2, <1>4, CallHeld, FailedStep DEF UploadFailed
  <1>. QED BY <1>3, <1>4 DEF UploadPow

LEMMA PollReadyStep ==
    ASSUME FilesInv, PollReady
    PROVE  FilesInv'
  <1>1. Typed /\ UNCHANGED <<ask, asked, account, tried, call>> /\ Uploading /\ UploadDone(call.id)
    BY DEF FilesInv, PollReady, Uploading
  <1>2. call.id \in 1..Len(files) /\ files[call.id].content = call.content
    BY DEF FilesInv, CalledFor, PollReady, Uploading
  <1>3. files \in Seq(FileType) /\ Len(files) \in Nat /\ files[call.id] \in FileType
    <2>1. files \in Seq(FileType)
      BY <1>1 DEF Typed
    <2>. QED BY <1>2, <2>1, LenProperties, ElementOfSeq
  <1>4. PICK f : /\ f = [files[call.id] EXCEPT !.ready = TRUE] /\ f.ready /\ f \in FileType
                 /\ f.content = files[call.id].content /\ f.owner = files[call.id].owner
    <2>1. \A e \in FileType : /\ [e EXCEPT !.ready = TRUE] \in FileType /\ [e EXCEPT !.ready = TRUE].ready = TRUE
                              /\ [e EXCEPT !.ready = TRUE].content = e.content
                              /\ [e EXCEPT !.ready = TRUE].owner = e.owner
      BY DEF FileType
    <2>. QED BY <1>3, <2>1
  <1>5. files' = [files EXCEPT ![call.id] = f]
    BY <1>2, <1>4 DEF PollReady
  <1>6. files' \in Seq(FileType) /\ Len(files') = Len(files)
        /\ \A i \in 1..Len(files) : files'[i] = IF i = call.id THEN f ELSE files[i]
    BY <1>2, <1>3, <1>4, <1>5, ExceptSeq
  <1>7. Keeps(files') /\ \A k \in 1..Len(files') : ~(k > Len(files))
    <2>1. \A k \in 1..Len(files) : /\ files'[k].content = files[k].content /\ files'[k].owner = files[k].owner
                                   /\ files[k].ready => files'[k].ready
      BY <1>4, <1>6
    <2>2. Len(files) <= Len(files') /\ \A k \in 1..Len(files') : ~(k > Len(files))
      BY <1>3, <1>6
    <2>. QED BY <1>6, <2>1, <2>2 DEF Keeps
  <1>8. Advances
    BY <1>1, <1>7, CallHeld DEF Advances
  <1>9. call.id \in 1..Len(files') /\ files'[call.id].ready /\ files'[call.id].content = call.content
    BY <1>2, <1>4, <1>6
  <1>. QED BY <1>1, <1>8, <1>9, DoneStep

LEMMA PollAgainStep ==
    ASSUME FilesInv, PollAgain
    PROVE  FilesInv'
  <1>1. Typed /\ UNCHANGED <<ask, asked, account, tried, files>> /\ Uploading /\ at = "polling"
    BY DEF FilesInv, PollAgain, Uploading
  <1>2. Advances
    BY <1>1, CallHeld, FilesSame DEF Advances
  <1>3. call.attempts < MaxAttempts /\ call.polls < MaxPolls /\ call.id \in 1..Len(files)
        /\ files[call.id].content = call.content
    BY <1>1 DEF FilesInv, CalledFor
  <1>4. call.polls + 1 \in 0..MaxPolls
    <2>1. call.polls \in 0..MaxPolls /\ MaxPolls \in Nat
      BY CallHeld, UploadsAssumption DEF CallType
    <2>. QED BY <1>3, <2>1
  <1>5. /\ call' \in CallType /\ call'.purpose = call.purpose /\ call'.content = call.content
        /\ call'.attempts = call.attempts /\ call'.id = call.id
    BY <1>4, CallHeld DEF CallType, PollAgain
  <1>6. CASE call'.polls < MaxPolls /\ UNCHANGED <<at, walked, fileOf, count, cache, refs, status>>
    BY <1>1, <1>2, <1>3, <1>5, <1>6, GoesOnStep
  <1>7. CASE UploadFailed
    BY <1>2, <1>5, <1>7, FailedStep DEF UploadFailed
  <1>. QED BY <1>6, <1>7 DEF PollAgain

LEMMA PollTimeoutStep ==
    ASSUME FilesInv, PollTimeout
    PROVE  FilesInv'
  <1>1. Typed /\ UNCHANGED <<ask, asked, account, tried, files, call>>
    BY DEF FilesInv, PollTimeout
  <1>2. Advances
    BY <1>1, CallHeld, FilesSame DEF Advances
  <1>. QED BY <1>1, <1>2, CallHeld, FailedStep DEF UploadFailed, PollTimeout

LEMMA WalkObjectStep ==
    ASSUME FilesInv, WalkObject
    PROVE  FilesInv'
  <1>. DEFINE i == walked + 1
              d == WalkOrder[i].holds
              known == {c \in cache : c.content = d.content}
  <1>1. /\ Typed /\ at = "walking" /\ walked < Len(WalkOrder)
        /\ UNCHANGED <<ask, cache, account, tried, files, refs, session, asked>>
    BY DEF FilesInv, WalkObject
  <1>2. Advances /\ UNCHANGED ask
    BY <1>1, CallHeld, FilesSame DEF Advances
  <1>3. /\ walked \in Nat /\ Len(WalkOrder) \in Nat /\ i \in Places /\ i \in 0..Len(WalkOrder)
        /\ \A j \in 1..i : j \in 1..walked \/ j = i
    <2>1. walked \in 0..Len(WalkOrder) /\ Len(WalkOrder) \in Nat
      BY <1>1, RequestType DEF Typed
    <2>. QED BY <1>1, <2>1 DEF Places
  <1>4. d = Decodes(i) /\ WalkOrder' = WalkOrder /\ Places' = Places /\ \A j : Decodes(j)' = Decodes(j)
    BY <1>2, OrderKept DEF Decodes
  <1>5. ask.kind = "chat" /\ ask.kind' = ask.kind
    BY <1>1, <1>2 DEF FilesInv, Phases
  <1>6. /\ d.found => /\ d.content \in Contents \union {"bad", Empty}
                      /\ d.bad <=> d.content = "bad"
        /\ d.found \in BOOLEAN /\ d.bad \in BOOLEAN
    BY <1>1, <1>3, <1>4, FileFound DEF Typed
  <1>. HIDE DEF d, i
  <1>7. CASE ~d.found /\ walked' = i /\ UNCHANGED <<at, fileOf, count, call, status>>
    <2>1. Cached'
      <3>1. 1..walked \subseteq 1..i /\ \A j \in Places : j > i => j > walked
        BY <1>3 DEF i, Places
      <3>2. \A j \in 1..i : Decodes(j).found => j \in 1..walked
        BY <1>3, <1>4, <1>7
      <3>. QED BY <1>1, <1>2, <1>4, <1>7, <3>1, <3>2 DEF FilesInv, Cached
    <2>2. CalledFor' /\ Phases'
      BY <1>1, <1>5, <1>7 DEF CalledFor, Phases, Uploading
    <2>3. Typed'
      BY <1>1, <1>3, <1>4, <1>7 DEF Typed
    <2>. QED BY <1>2, <2>1, <2>2, <2>3, OwnersKept DEF FilesInv
  <1>8. CASE (AnswersWith(400) \/ AnswersWith(500)) /\ UNCHANGED <<walked, fileOf, count, call>>
    BY <1>1, <1>2, <1>8, CallHeld, FailedStep
  <1>9. CASE d.found /\ ~d.bad /\ count < MaxInline /\ known # {}
             /\ Replace(i, (CHOOSE c \in known : TRUE).id) /\ UNCHANGED <<at, call, status>>
    <2>1. PICK c \in cache : c.content = d.content /\ c = CHOOSE x \in known : TRUE
      BY <1>9
    <2>2. fileOf' = [fileOf EXCEPT ![i] = c.id] /\ count' = count + 1 /\ walked' = i
      BY <1>9, <2>1 DEF Replace
    <2>3. c.id \in 1..Len(files) /\ c.content \in Contents
      BY <1>1, <2>1, FilesSame, CacheKept DEF FilesInv
    <2>4. fileOf \in [Places -> 0..Len(files)] /\ Len(files) \in Nat
      BY <1>1, LenProperties DEF Typed
    <2>5. c.id \in 0..Len(files)
      BY <2>3, <2>4
    <2>6. fileOf' \in [Places -> 0..Len(files)] /\ fileOf'[i] = c.id /\ \A j \in Places : j # i => fileOf'[j] = fileOf[j]
      BY <1>3, <2>2, <2>4, <2>5
    <2>7. count' \in 0..MaxInline
      <3>1. count \in 0..MaxInline /\ MaxInline \in Nat
        BY <1>1, UploadsAssumption DEF Typed
      <3>. QED BY <1>9, <2>2, <3>1
    <2>8. Cached'
      <3>1. 1..walked \subseteq 1..i /\ (\A j \in Places : j > i => j > walked /\ j # i) /\ ~(i > i)
        BY <1>3 DEF i, Places
      <3>2. ASSUME NEW x \in cache
            PROVE  /\ files[x.id].ready /\ files[x.id].content = x.content
                   /\ \E j \in 1..i : Decodes(j).found /\ Decodes(j).content = x.content
        BY <3>1 DEF FilesInv, Cached
      <3>3. ASSUME NEW x \in cache, NEW y \in cache, x.content = y.content PROVE x = y
        BY <3>3 DEF FilesInv, Cached
      <3>4. ASSUME NEW j \in 1..i, Decodes(j).found
            PROVE  /\ Decodes(j).content \in Contents
                   /\ \E x \in cache : x.content = Decodes(j).content /\ x.id = fileOf'[j]
        <4>1. CASE j = i
          BY <1>4, <2>1, <2>3, <2>6, <4>1
        <4>2. CASE j # i
          <5>1. j \in 1..walked /\ j \in Places
            BY <1>3, <4>2 DEF Places
          <5>2. fileOf'[j] = fileOf[j]
            BY <2>6, <4>2, <5>1
          <5>. QED BY <3>4, <5>1, <5>2 DEF FilesInv, Cached
        <4>. QED BY <4>1, <4>2
      <3>5. ASSUME NEW j \in Places, j > i \/ ~Decodes(j).found PROVE fileOf'[j] = NoFile
        <4>1. j # i
          BY <1>4, <1>9, <3>1, <3>5
        <4>2. fileOf[j] = NoFile
          BY <3>1, <3>5 DEF FilesInv, Cached
        <4>. QED BY <2>6, <4>1, <4>2
      <3>. QED BY <1>1, <1>4, <2>2, <3>2, <3>3, <3>4, <3>5 DEF Cached
    <2>9. CalledFor' /\ Phases'
      BY <1>1, <1>5, <1>9 DEF CalledFor, Phases, Uploading
    <2>10. Typed'
      BY <1>1, <1>3, <1>4, <1>9, <2>2, <2>6, <2>7 DEF Typed
    <2>. QED BY <1>2, <2>8, <2>9, <2>10, OwnersKept DEF FilesInv
  <1>10. CASE d.found /\ ~d.bad /\ count < MaxInline /\ known = {} /\ d.content # Empty
              /\ at' = "pow" /\ call' = Upload("inline", d.content) /\ UNCHANGED <<walked, fileOf, count, status>>
    <2>1. d.content \in Contents
      BY <1>6, <1>10
    <2>2. MaxAttempts \in Nat \ {0} /\ MaxPolls \in Nat \ {0}
      BY UploadsAssumption
    <2>3. 0 \in 0..MaxAttempts /\ 0 \in 0..MaxPolls /\ 0 < MaxAttempts /\ 0 < MaxPolls /\ 0 \in Nat
      BY <2>2
    <2>4. d.content \in Contained
      BY <2>1 DEF Contained
    <2>5. /\ call' \in CallType /\ call'.purpose = "inline" /\ call'.content = d.content
          /\ call'.attempts = 0 /\ call'.polls = 0
      BY <1>10, <2>3, <2>4 DEF Upload, NoCall, CallType, NoFile
    <2>6. Inline'
      BY <1>1, <1>4, <1>10, <2>1, <2>5 DEF Inline, i
    <2>7. CalledFor' /\ Phases'
      BY <1>5, <1>10, <2>3, <2>5, <2>6 DEF CalledFor, Phases, Uploading
    <2>8. count' \in 0..MaxInline /\ refs' \in Seq(Int)
      BY <1>1, <1>10 DEF Typed
    <2>9. Typed'
      BY <1>1, <1>2, <1>10, <2>5, <2>8, TypedKept DEF Typed
    <2>. QED BY <1>1, <1>2, <1>10, <2>7, <2>9, OwnersKept, CachedKept DEF FilesInv
  <1>11. \/ ~d.found /\ walked' = i /\ UNCHANGED <<at, fileOf, count, call, status>>
         \/ (AnswersWith(400) \/ AnswersWith(500)) /\ UNCHANGED <<walked, fileOf, count, call>>
         \/ d.found /\ ~d.bad /\ count < MaxInline /\ known # {}
            /\ Replace(i, (CHOOSE c \in known : TRUE).id) /\ UNCHANGED <<at, call, status>>
         \/ d.found /\ ~d.bad /\ count < MaxInline /\ known = {} /\ d.content # Empty
            /\ at' = "pow" /\ call' = Upload("inline", d.content) /\ UNCHANGED <<walked, fileOf, count, status>>
    <2>1. CASE ~d.found
      BY <2>1 DEF WalkObject, d, i
    <2>2. CASE d.found /\ d.bad
      BY <2>2 DEF WalkObject, d, i
    <2>3. CASE d.found /\ ~d.bad /\ count >= MaxInline
      BY <2>3 DEF WalkObject, d, i
    <2>4. CASE d.found /\ ~d.bad /\ count < MaxInline /\ known # {}
      BY <2>4 DEF WalkObject, d, i
    <2>5. CASE d.found /\ ~d.bad /\ count < MaxInline /\ known = {}
      BY <2>5 DEF WalkObject, d, i
    <2>6. count < MaxInline \/ count >= MaxInline
      <3>1. count \in 0..MaxInline /\ MaxInline \in Nat
        BY <1>1, UploadsAssumption DEF Typed
      <3>. QED BY <3>1
    <2>. QED BY <1>6, <2>1, <2>2, <2>3, <2>4, <2>5, <2>6
  <1>. QED BY <1>7, <1>8, <1>9, <1>10, <1>11

LEMMA WalkDoneStep ==
    ASSUME FilesInv, WalkDone
    PROVE  FilesInv'
  <1>1. /\ Typed /\ Cached /\ at = "walking" /\ walked = Len(WalkOrder) /\ refs' = CollectOpenAIRefFileIDs
        /\ UNCHANGED <<ask, walked, fileOf, cache, count, account, tried, files, session, asked, status>>
    BY DEF FilesInv, WalkDone
  <1>2. Advances
    BY <1>1, CallHeld, FilesSame DEF Advances
  <1>3. WalkOrder' = WalkOrder /\ Places' = Places /\ ask.kind = "chat" /\ ask' = ask
    BY <1>1, OrderKept DEF FilesInv, Phases
  <1>4. refs' \in Seq(Int) /\ count' \in 0..MaxInline
    BY <1>1, CollectLaws DEF Typed
  <1>5. ask.long \in BOOLEAN
    BY <1>1, RequestType DEF Typed, IsAsk
  <1>6. CollectOpenAIRefFileIDs' = CollectOpenAIRefFileIDs
    BY <1>1 DEF CollectOpenAIRefFileIDs, RefOf, WalkOrder
  <1>7. CASE ask.long
    <2>1. at' = "pow" /\ call' = Upload("input", Transcript)
      BY <1>7 DEF WalkDone
    <2>2. MaxAttempts \in Nat \ {0} /\ MaxPolls \in Nat \ {0}
      BY UploadsAssumption
    <2>3. 0 \in 0..MaxAttempts /\ 0 \in 0..MaxPolls /\ 0 < MaxAttempts /\ 0 < MaxPolls /\ 0 \in Nat
      BY <2>2
    <2>4. Transcript \in Contained
      BY DEF Contained
    <2>5. /\ call' \in CallType /\ call'.purpose = "input" /\ call'.content = Transcript
          /\ call'.attempts = 0 /\ call'.polls = 0
      BY <2>1, <2>3, <2>4 DEF Upload, NoCall, CallType, NoFile
    <2>6. Input'
      BY <1>1, <1>3, <1>6, <1>7, <2>5 DEF Input
    <2>7. CalledFor' /\ Phases'
      BY <1>3, <2>1, <2>3, <2>5, <2>6 DEF CalledFor, Phases, Uploading
    <2>8. Typed'
      BY <1>1, <1>2, <1>4, <2>1, <2>5, TypedKept DEF Typed
    <2>. QED BY <1>1, <1>2, <2>7, <2>8, OwnersKept, CachedKept DEF FilesInv
  <1>8. CASE ~ask.long
    <2>1. at' = "session" /\ UNCHANGED call
      BY <1>8 DEF WalkDone
    <2>2. Keeps(files)
      BY <1>1, FilesSame
    <2>3. Referred(files, refs')
      <3>1. PICK r : r = CollectOpenAIRefFileIDs
        OBVIOUS
      <3>2. /\ Once(r) /\ \A x \in Own(r) : x \in 1..Len(files) /\ files[x].ready
            /\ {files[x].content : x \in Own(r)} = InlineContents
            /\ \A x, y \in Own(r) : x # y => files[x].content # files[y].content
            /\ Given(r) \cap UserFiles = NamedFiles \cap UserFiles
        BY <1>1, <2>2, <3>1, CollectReferred
      <3>. QED BY <1>1, <1>8, <3>1, <3>2 DEF Referred
    <2>4. Referred(files, refs)'
      <3>1. NamedFiles' = NamedFiles /\ InlineContents' = InlineContents
        BY <1>1, <1>3 DEF NamedFiles, InlineContents, RefOf
      <3>. QED BY <1>1, <2>3, <3>1 DEF Referred
    <2>5. CalledFor' /\ Phases'
      BY <1>3, <2>1, <2>4 DEF CalledFor, Phases, Uploading
    <2>6. call' \in CallType
      BY <2>1, CallHeld
    <2>7. Typed'
      BY <1>1, <1>2, <1>4, <2>1, <2>6, TypedKept DEF Typed
    <2>. QED BY <1>1, <1>2, <2>5, <2>7, OwnersKept, CachedKept DEF FilesInv
  <1>. QED BY <1>5, <1>7, <1>8

\* What was referred to stays so while the files do.
LEMMA ReferredKept ==
    ASSUME UNCHANGED <<ask, fileOf, files>>, NEW r, Referred(files, r)
    PROVE  Referred(files', r) /\ Referred(files, r)'
  <1>1. NamedFiles' = NamedFiles /\ InlineContents' = InlineContents /\ ask' = ask
    BY DEF NamedFiles, InlineContents, RefOf, WalkOrder
  <1>. QED BY <1>1 DEF Referred

LEMMA CreateSessionStep ==
    ASSUME FilesInv, CreateSession
    PROVE  FilesInv'
  <1>1. /\ Typed /\ at = "session" /\ MayMove
        /\ UNCHANGED <<ask, walked, fileOf, cache, count, call, files, refs, asked>>
        /\ at' = "asking" \/ (at' = "leaving" /\ status' = 401)
    BY DEF FilesInv, CreateSession, AnswersWith
  <1>2. Advances
    BY <1>1, MovedType, FilesSame DEF Advances
  <1>3. count' \in 0..MaxInline /\ refs' \in Seq(Int) /\ call' \in CallType
    BY <1>1 DEF Typed
  <1>4. ask.kind' = "chat" /\ Referred(files, refs)
    BY <1>1 DEF FilesInv, Phases
  <1>5. Referred(files, refs)'
    <2>1. \A r : Referred(files, r) => Referred(files', r) /\ Referred(files, r)'
      BY <1>1, ReferredKept
    <2>2. refs' = refs
      BY <1>1
    <2>3. NamedFiles' = NamedFiles /\ InlineContents' = InlineContents
      BY <1>1 DEF NamedFiles, InlineContents, RefOf, WalkOrder
    <2>. QED BY <1>1, <1>4, <2>3 DEF Referred
  <1>6. CalledFor' /\ Phases'
    BY <1>1, <1>4, <1>5 DEF CalledFor, Phases, Uploading
  <1>7. Typed'
    BY <1>1, <1>2, <1>3, TypedKept DEF Typed
  <1>. QED BY <1>1, <1>2, <1>6, <1>7, OwnersKept, CachedKept DEF FilesInv

LEMMA CallCompletionStep ==
    ASSUME FilesInv, CallCompletion
    PROVE  FilesInv'
  <1>1. /\ Typed /\ at = "asking" /\ MayMove /\ at' = "leaving"
        /\ UNCHANGED <<ask, walked, fileOf, cache, count, call, files, refs, session>>
        /\ (asked' = [account |-> account', refs |-> refs] /\ status' = 200) \/ (asked' = asked /\ status' = 401)
    BY DEF FilesInv, CallCompletion, AnswersWith
  <1>2. /\ tried \subseteq tried' /\ tried' \subseteq FileAccounts \union {NoAccount} /\ account' \in tried'
    BY <1>1, MovedType
  <1>3. Typed'
    <2>1. asked' \in [account : FileAccounts \union {NoAccount}, refs : Seq(Int)]
      BY <1>1, <1>2 DEF Typed
    <2>2. WalkOrder' = WalkOrder /\ Places' = Places
      BY <1>1, OrderKept
    <2>. QED BY <1>1, <1>2, <2>1, <2>2 DEF Typed
  <1>4. Owned' /\ Cached'
    <2>1. WalkOrder' = WalkOrder /\ Places' = Places /\ \A i : Decodes(i)' = Decodes(i)
      BY <1>1, OrderKept
    <2>2. Owned'
      BY <1>1, <1>2 DEF FilesInv, Owned
    <2>3. Cached'
      BY <1>1, <2>1 DEF FilesInv, Cached
    <2>. QED BY <2>2, <2>3
  <1>5. CalledFor'
    BY <1>1 DEF CalledFor, Uploading
  <1>6. Referred(files, refs)
    BY <1>1 DEF FilesInv, Phases
  <1>7. status' = 200 => Referred(files, asked.refs)' /\ asked'.account \in tried'
    <2>. SUFFICES ASSUME status' = 200 PROVE Referred(files, asked.refs)' /\ asked'.account \in tried'
      OBVIOUS
    <2>1. asked'.refs = refs /\ asked'.account = account'
      BY <1>1
    <2>2. NamedFiles' = NamedFiles /\ InlineContents' = InlineContents
      BY <1>1 DEF NamedFiles, InlineContents, RefOf, WalkOrder
    <2>. QED BY <1>1, <1>2, <1>6, <2>1, <2>2 DEF Referred
  <1>8. Phases'
    BY <1>1, <1>7 DEF Phases
  <1>. QED BY <1>3, <1>4, <1>5, <1>8 DEF FilesInv

\* Steps that leave all but the session alone, and the end.
LEMMA EndStep ==
    ASSUME FilesInv, autoDeleteRemoteSession \/ UNCHANGED uploadVars
    PROVE  FilesInv'
  <1>1. /\ UNCHANGED <<ask, walked, fileOf, cache, count, call, account, tried, files, refs, asked, status>>
        /\ at' = at \/ (at = "leaving" /\ at' = "over")
    BY DEF autoDeleteRemoteSession, uploadVars
  <1>2. WalkOrder' = WalkOrder /\ Places' = Places /\ \A i : Decodes(i)' = Decodes(i)
    BY <1>1, OrderKept
  <1>3. Typed'
    BY <1>1, <1>2 DEF FilesInv, Typed
  <1>4. Owned' /\ Cached'
    BY <1>1, <1>2 DEF FilesInv, Owned, Cached
  <1>5. NamedFiles' = NamedFiles /\ InlineContents' = InlineContents /\ CollectOpenAIRefFileIDs' = CollectOpenAIRefFileIDs
    BY <1>1 DEF NamedFiles, InlineContents, RefOf, WalkOrder, CollectOpenAIRefFileIDs
  <1>6. CalledFor'
    <2>1. CalledFor
      BY DEF FilesInv
    <2>2. Uploading' => Uploading /\ at' = at
      BY <1>1 DEF Uploading
    <2>3. Inline => Inline'
      BY <1>1, <1>2 DEF Inline
    <2>4. Input => Input'
      BY <1>1, <1>2, <1>5 DEF Input
    <2>. QED BY <1>1, <2>1, <2>2, <2>3, <2>4 DEF CalledFor
  <1>7. Referred(files, refs) => Referred(files, refs)'
    BY <1>1, <1>5 DEF Referred
  <1>8. Referred(files, asked.refs) => Referred(files, asked.refs)'
    BY <1>1, <1>5 DEF Referred
  <1>9. Phases
    BY DEF FilesInv
  <1>10. Phases'
    BY <1>1, <1>7, <1>8, <1>9 DEF Phases
  <1>. QED BY <1>3, <1>4, <1>6, <1>10 DEF FilesInv

LEMMA FilesInitInv ==
    ASSUME FilesInit
    PROVE  FilesInv
  <1>1. /\ ask \in Asks /\ walked = 0 /\ fileOf = [i \in Places |-> NoFile] /\ cache = {} /\ count = 0
        /\ tried = {account} /\ files = <<>> /\ refs = <<>> /\ status = 0
        /\ asked = [account |-> NoAccount, refs |-> <<>>] /\ account \in FileAccounts \union {NoAccount}
    BY DEF FilesInit, Places
  <1>2. ask.kind \in {"upload", "chat"} /\ Len(WalkOrder) \in Nat
    BY <1>1, RequestType DEF IsAsk
  <1>3. MaxAttempts \in Nat \ {0} /\ MaxPolls \in Nat \ {0} /\ MaxInline \in Nat
    BY UploadsAssumption
  <1>4. 0 \in 0..MaxAttempts /\ 0 \in 0..MaxPolls /\ 0 < MaxAttempts /\ 0 < MaxPolls /\ 0 \in Nat /\ 0 \in 0..MaxInline
        /\ 0 \in 0..Len(WalkOrder)
    BY <1>2, <1>3
  <1>5. files \in Seq(FileType) /\ Len(files) = 0 /\ refs \in Seq(Int) /\ <<>> \in Seq(Int)
    BY <1>1, EmptySeq
  <1>6. \A c \in Contained, p \in {"none", "inline", "input", "direct"} :
           /\ Upload(p, c) \in CallType /\ Upload(p, c).attempts = 0 /\ Upload(p, c).polls = 0
           /\ Upload(p, c).purpose = p
    BY <1>4 DEF Upload, NoCall, CallType, NoFile
  <1>7. Empty \in Contained /\ (CHOOSE c \in Contents : TRUE) \in Contained
    BY DEF Contained
  <1>8. CASE ask.kind = "chat"
    <2>1. at = "walking" /\ call = NoCall
      BY <1>8 DEF FilesInit
    <2>2. NoCall \in CallType
      BY <1>4, <1>7 DEF NoCall, CallType, NoFile
    <2>3. Typed
      BY <1>1, <1>4, <1>5, <2>1, <2>2 DEF Typed, NoFile
    <2>4. CalledFor /\ Phases
      BY <1>8, <2>1 DEF CalledFor, Phases, Uploading
    <2>5. Owned /\ Cached
      BY <1>1, <1>5 DEF Owned, Cached, NoFile
    <2>. QED BY <2>3, <2>4, <2>5 DEF FilesInv
  <1>9. CASE ask.kind # "chat"
    <2>1. at = "pow" /\ call = Upload("direct", CHOOSE c \in Contents : TRUE) /\ ask.kind = "upload"
      BY <1>2, <1>9 DEF FilesInit
    <2>2. call \in CallType /\ call.attempts = 0 /\ call.polls = 0 /\ call.purpose = "direct"
      BY <1>6, <1>7, <2>1
    <2>3. Typed
      BY <1>1, <1>4, <1>5, <2>1, <2>2 DEF Typed, NoFile
    <2>4. CalledFor /\ Phases
      BY <1>4, <2>1, <2>2 DEF CalledFor, Phases, Uploading
    <2>5. Owned /\ Cached
      BY <1>1, <1>5 DEF Owned, Cached, NoFile
    <2>. QED BY <2>3, <2>4, <2>5 DEF FilesInv
  <1>. QED BY <1>8, <1>9

LEMMA FilesStep ==
    ASSUME FilesInv, [FilesNext]_uploadVars
    PROVE  FilesInv'
  BY WalkObjectStep, WalkDoneStep, UploadPowStep, doUploadStep, UploadLostStep, UploadAcceptedStep, UploadReadyStep,
     UploadRefusedStep, PollReadyStep, PollAgainStep, PollTimeoutStep, CreateSessionStep, CallCompletionStep,
     EndStep DEF FilesNext

-----------------------------------------------------------------------------
\* The inductive invariant holds in every state.
LEMMA FilesInvariant == FilesSpec => []FilesInv
  <1>1. FilesInit => FilesInv
    BY FilesInitInv
  <1>2. FilesInv /\ [FilesNext]_uploadVars => FilesInv'
    BY FilesStep
  <1>. QED BY <1>1, <1>2, PTL DEF FilesSpec

\* The state of a request for files has its type: attempts, polls and inline
\* files stay within their bounds, and every reference is to a file there is.
THEOREM FilesTyped == FilesSpec => []FilesTypeOK
  <1>1. FilesInv => FilesTypeOK
    <2>. SUFFICES ASSUME FilesInv PROVE FilesTypeOK
      OBVIOUS
    <2>1. Typed
      BY DEF FilesInv
    <2>2. DOMAIN fileOf = Places /\ \A i \in Places : fileOf[i] \in 0..Len(files)
      BY <2>1 DEF Typed
    <2>3. \A c \in cache : c.content \in Contents /\ c.id \in 1..Len(files)
      BY <2>1 DEF Typed
    <2>4. call.attempts \in 0..MaxAttempts /\ call.polls \in 0..MaxPolls
      BY <2>1 DEF Typed, CallType
    <2>5. at = "polling" => call.id \in 1..Len(files)
      BY DEF FilesInv, CalledFor, Uploading
    <2>6. walked \in 0..4 * (Len(ask.messages) + Len(ask.attachments))
      <3>1. walked \in 0..Len(WalkOrder) /\ Len(WalkOrder) = 4 * Len(ask.messages) + 4 * Len(ask.attachments)
        BY <2>1, RequestType DEF Typed
      <3>2. Len(ask.messages) \in Nat /\ Len(ask.attachments) \in Nat
        BY <2>1, RequestType DEF Typed, IsAsk
      <3>3. \A x, y \in Nat : 4 * x + 4 * y = 4 * (x + y)
        OBVIOUS
      <3>4. Len(WalkOrder) = 4 * (Len(ask.messages) + Len(ask.attachments))
        BY <3>1, <3>2, <3>3, Zenon
      <3>. QED BY <3>1, <3>4, Zenon
    <2>. QED BY <2>1, <2>2, <2>3, <2>4, <2>5, <2>6 DEF FilesTypeOK, Typed
  <1>. QED BY <1>1, FilesInvariant, PTL

\* Whatever was repeated, switched or lost on the way, DeepSeek is asked with
\* references to the right files: each inline file once, processed and with its
\* own content, the conversation first, and else what the client named.
THEOREM FilesReferred == FilesSpec => []FilesAreReferredTo
  <1>1. FilesInv => FilesAreReferredTo
    <2>. SUFFICES ASSUME FilesInv, ask.kind = "chat", at \in {"leaving", "over"}, status = 200
                  PROVE  LET named == {WalkOrder[i].names : i \in DOMAIN WalkOrder} \union {ask.refs[i] : i \in DOMAIN ask.refs}
                             given == {asked.refs[i] : i \in DOMAIN asked.refs}
                             own == given \cap Nat
                             inline == {WalkOrder[i].holds.content :
                                           i \in {j \in DOMAIN WalkOrder : WalkOrder[j].collected /\ WalkOrder[j].holds.found}}
                         IN  /\ \A i, j \in DOMAIN asked.refs : i # j => asked.refs[i] # asked.refs[j]
                             /\ \A id \in own : Of(id).ready
                             /\ {Of(id).content : id \in own} = inline \union (IF ask.long THEN {Transcript} ELSE {})
                             /\ \A x, y \in own : x # y => Of(x).content # Of(y).content
                             /\ ask.long => asked.refs[1] \in own /\ Of(asked.refs[1]).content = Transcript
                             /\ given \cap UserFiles = named \cap UserFiles
                             /\ tried = {account} => \A id \in own : Of(id).owner = asked.account
      BY DEF FilesAreReferredTo
    <2>1. Referred(files, asked.refs) /\ asked.account \in tried
      BY DEF FilesInv, Phases
    <2>2. \A id \in Own(asked.refs) : id \in 1..Len(files) /\ files[id].owner \in tried
      BY <2>1 DEF FilesInv, Owned, Referred
    <2>3. tried = {account} => \A id \in Own(asked.refs) : files[id].owner = asked.account
      BY <2>1, <2>2
    <2>. QED BY <2>1, <2>3 DEF Referred, Once, Given, Own, NamedFiles, InlineContents, Of
  <1>. QED BY <1>1, FilesInvariant, PTL

-----------------------------------------------------------------------------
\* The streams on Vercel

\* A stream that is not over has told its client nothing final, and one that
\* went past preparing knows of its lease.
NotOverYet ==
    \A s \in Streams :
        /\ js[s].pc # "over" => client[s].endings = 0
        /\ js[s].pc # "over" => (js[s].leased <=> js[s].pc # "preparing")

VercelInv == VercelTypeOK /\ EndsOnce /\ NotOverYet

-----------------------------------------------------------------------------
\* The two halves of the state

LeaseType == [state : {"none", "preparing", "refused", "held", "over"}, account : Accounts,
              tried : SUBSET Accounts, deadline : 0..MaxTime + LeaseTTL]
JsType == [pc : {"preparing", "fetching", "reading", "powing", "over"}, leased : BOOLEAN, gone : BOOLEAN,
           output : {"", "text"}, status : {"", "incomplete"},
           rounds : 0..MaxContinues, retries : 0..MaxEmptyRetries]
ClientType == [begun : BOOLEAN, ending : {"none", "json", "thrown", "failed", "finish"}, endings : 0..1]

GoTypeOK ==
    /\ slots \in [Accounts -> 0..SlotsPer]
    /\ lease \in [Streams -> LeaseType]
    /\ solving \subseteq Streams /\ strayed \subseteq Streams /\ now \in 0..MaxTime

JsTypeOK ==
    /\ js \in [Streams -> JsType]
    /\ client \in [Streams -> ClientType]
    /\ post \in [Streams -> {"none", "sent", "done"}]

LEMMA Halves == VercelTypeOK <=> GoTypeOK /\ JsTypeOK
  BY DEF VercelTypeOK, GoTypeOK, JsTypeOK, LeaseType, JsType, ClientType

\* How many of a set of streams are on an account is a number.
LEMMA CountType ==
    ASSUME NEW S \in SUBSET Streams, NEW a
    PROVE  Cardinality({s \in S : lease[s].account = a}) \in Nat
  BY FS_Subset, FS_CardinalityType, VercelAssumption

\* Releasing and ending keep slots and leases well formed.
LEMMA ReleaseOfType ==
    ASSUME GoTypeOK, NEW S \in SUBSET Streams
    PROVE  /\ ReleaseOf(S) \in [Accounts -> 0..SlotsPer]
           /\ Ended(S) \in [Streams -> LeaseType]
  <1>1. ASSUME NEW a \in Accounts
        PROVE  (LET n == Cardinality({s \in S : lease[s].account = a})
                IN  IF slots[a] > n THEN slots[a] - n ELSE 0) \in 0..SlotsPer
    <2>. DEFINE n == Cardinality({s \in S : lease[s].account = a})
    <2>1. n \in Nat
      BY CountType
    <2>2. slots[a] \in 0..SlotsPer /\ SlotsPer \in Nat
      BY VercelAssumption DEF GoTypeOK
    <2>. HIDE DEF n
    <2>3. (IF slots[a] > n THEN slots[a] - n ELSE 0) \in 0..SlotsPer
      BY <2>1, <2>2
    <2>. QED BY <2>3 DEF n
  <1>2. ReleaseOf(S) \in [Accounts -> 0..SlotsPer]
    BY <1>1 DEF ReleaseOf
  <1>3. Ended(S) \in [Streams -> LeaseType]
    <2>1. 0 \in 0..MaxTime + LeaseTTL
      BY VercelAssumption
    <2>2. ASSUME NEW l \in LeaseType PROVE [l EXCEPT !.state = "over", !.deadline = 0] \in LeaseType
      BY <2>1 DEF LeaseType
    <2>3. lease \in [Streams -> LeaseType]
      BY DEF GoTypeOK
    <2>4. ASSUME NEW t \in Streams
          PROVE  (IF t \in S THEN [lease[t] EXCEPT !.state = "over", !.deadline = 0] ELSE lease[t]) \in LeaseType
      BY <2>2, <2>3
    <2>. QED BY <2>4 DEF Ended
  <1>. QED BY <1>2, <1>3

-----------------------------------------------------------------------------
\* Steps of the Go function, and of the world

GoStep(s) ==
    \/ PrepareAcquires(s) \/ PrepareSwitchesAccount(s) \/ PrepareFails(s) \/ holdStreamLease(s)
    \/ releaseStreamLease(s) \/ lookupStreamLeaseAuth(s) \/ PowSwitchesAccount(s) \/ PowDone(s) \/ ReleaseLost(s)

JsStep(s) ==
    \/ Prepared(s) \/ markClientClosed(s) \/ FetchAborted(s) \/ FetchThrows(s) \/ FetchRefused(s)
    \/ FetchOpens(s) \/ Line(s) \/ Breaks(s) \/ BodyEnded(s) \/ PowAnswered(s)

\* A preparation takes the slot of an account with room, or none.
LEMMA AcquiresShape ==
    ASSUME GoTypeOK, NEW s \in Streams, PrepareAcquires(s)
    PROVE  /\ lease[s].state = "none" /\ UNCHANGED <<solving, strayed, now>>
           /\ \/ /\ slots' = ReleaseOf(popExpiredLeasesLocked)
                 /\ lease' = [Ended(popExpiredLeasesLocked) EXCEPT ![s].state = "refused"]
              \/ \E a \in Accounts, failed \in SUBSET Accounts :
                    /\ ReleaseOf(popExpiredLeasesLocked)[a] < SlotsPer
                    /\ slots' = [ReleaseOf(popExpiredLeasesLocked) EXCEPT ![a] = @ + 1]
                    /\ lease' = [Ended(popExpiredLeasesLocked) EXCEPT
                                    ![s] = [Ended(popExpiredLeasesLocked)[s] EXCEPT
                                              !.state = "preparing", !.account = a, !.tried = failed]]
  <1>. DEFINE swept == popExpiredLeasesLocked
              Free == {a \in Accounts : ReleaseOf(swept)[a] < SlotsPer}
  <1>1. lease[s].state = "none" /\ UNCHANGED <<solving, strayed, now>>
    BY DEF PrepareAcquires
  <1>2. CASE slots' = ReleaseOf(swept) /\ lease' = [Ended(swept) EXCEPT ![s].state = "refused"]
    BY <1>1, <1>2
  <1>3. CASE \E a \in Free : \E failed \in SUBSET (Free \ {a}) :
                 /\ slots' = [ReleaseOf(swept) EXCEPT ![a] = @ + 1]
                 /\ lease' = [Ended(swept) EXCEPT ![s].state = "preparing", ![s].account = a, ![s].tried = failed]
    <2>1. PICK a \in Free, failed \in SUBSET Accounts :
                 /\ slots' = [ReleaseOf(swept) EXCEPT ![a] = @ + 1]
                 /\ lease' = [Ended(swept) EXCEPT ![s].state = "preparing", ![s].account = a, ![s].tried = failed]
      BY <1>3
    <2>2. Ended(swept) \in [Streams -> LeaseType]
      BY ReleaseOfType DEF popExpiredLeasesLocked
    <2>. HIDE DEF swept
    <2>3. lease' = [Ended(swept) EXCEPT ![s] = [Ended(swept)[s] EXCEPT
                      !.state = "preparing", !.account = a, !.tried = failed]]
      BY <2>1, <2>2
    <2>. QED BY <1>1, <2>1, <2>3 DEF swept
  <1>. QED BY <1>2, <1>3 DEF PrepareAcquires

\* A switch moves the auth to an account with room and takes its slot, or
\* leaves it on some account without one.
LEMMA SwitchShape ==
    ASSUME GoTypeOK, NEW s \in Streams, SwitchAccount(s)
    PROVE  \E a \in Accounts, given \in SUBSET Accounts :
              /\ lease' = [lease EXCEPT ![s] = [lease[s] EXCEPT !.account = a, !.tried = given]]
              /\ \/ /\ ReleaseOf({s})[a] < SlotsPer
                    /\ slots' = [ReleaseOf({s}) EXCEPT ![a] = @ + 1]
                    /\ strayed' = IF Pending(s) \/ Held(s) THEN strayed ELSE strayed \union {s}
                 \/ slots' = ReleaseOf({s}) /\ strayed' = strayed \union {s}
  <1>. DEFINE freed == ReleaseOf({s})
              own == lease[s].account
              fresh == {a \in Accounts \ (lease[s].tried \union {own}) : freed[a] < SlotsPer}
              Tried(failed) == lease[s].tried \union {own} \union failed
              Moved(a, failed) == [lease EXCEPT ![s].account = a, ![s].tried = @ \union {own} \union failed]
  <1>1. own \in Accounts /\ lease[s].tried \in SUBSET Accounts /\ fresh \in SUBSET Accounts
    BY DEF GoTypeOK, LeaseType
  <1>2. ASSUME NEW a \in Accounts, NEW failed \in SUBSET fresh
        PROVE  /\ Moved(a, failed) = [lease EXCEPT ![s] = [lease[s] EXCEPT !.account = a, !.tried = Tried(failed)]]
               /\ Tried(failed) \in SUBSET Accounts
    <2>. HIDE DEF fresh
    <2>. QED BY <1>1 DEF GoTypeOK, LeaseType
  <1>3. CASE \E a \in fresh : \E failed \in SUBSET (fresh \ {a}) :
                /\ slots' = [freed EXCEPT ![a] = @ + 1] /\ lease' = Moved(a, failed)
                /\ strayed' = IF Pending(s) \/ Held(s) THEN strayed ELSE strayed \union {s}
    <2>1. PICK a \in fresh, failed \in SUBSET fresh :
                /\ slots' = [freed EXCEPT ![a] = @ + 1] /\ lease' = Moved(a, failed)
                /\ strayed' = IF Pending(s) \/ Held(s) THEN strayed ELSE strayed \union {s}
      BY <1>3
    <2>2. a \in Accounts /\ freed[a] < SlotsPer
      OBVIOUS
    <2>3. /\ lease' = [lease EXCEPT ![s] = [lease[s] EXCEPT !.account = a, !.tried = Tried(failed)]]
          /\ Tried(failed) \in SUBSET Accounts
      BY <1>2, <2>1, <2>2
    <2>. HIDE DEF Tried, Moved, fresh
    <2>. QED BY <2>1, <2>2, <2>3
  <1>4. CASE /\ slots' = freed /\ strayed' = strayed \union {s}
             /\ \E a \in IF fresh = {} THEN {own} ELSE fresh : lease' = Moved(a, fresh)
    <2>1. PICK a \in IF fresh = {} THEN {own} ELSE fresh : lease' = Moved(a, fresh)
      BY <1>4
    <2>2. a \in Accounts
      BY <1>1
    <2>3. /\ lease' = [lease EXCEPT ![s] = [lease[s] EXCEPT !.account = a, !.tried = Tried(fresh)]]
          /\ Tried(fresh) \in SUBSET Accounts
      BY <1>2, <2>1, <2>2
    <2>. HIDE DEF Tried, Moved, fresh
    <2>. QED BY <1>4, <2>2, <2>3
  <1>. QED BY <1>3, <1>4, Zenon DEF SwitchAccount

LEMMA GoStepType ==
    ASSUME GoTypeOK, NEW s \in Streams, GoStep(s) PROVE GoTypeOK'
  <1>. DEFINE swept == popExpiredLeasesLocked
  <1>1. swept \in SUBSET Streams
    BY DEF popExpiredLeasesLocked
  <1>2. /\ ReleaseOf(swept) \in [Accounts -> 0..SlotsPer] /\ Ended(swept) \in [Streams -> LeaseType]
        /\ ReleaseOf({s}) \in [Accounts -> 0..SlotsPer]
    BY <1>1, ReleaseOfType
  <1>3. SlotsPer \in Nat /\ LeaseTTL \in Nat /\ MaxTime \in Nat /\ now \in 0..MaxTime
    BY VercelAssumption DEF GoTypeOK
  <1>. HIDE DEF swept
  <1>4. CASE PrepareAcquires(s)
    <2>1. UNCHANGED <<solving, strayed, now>>
      BY <1>4 DEF PrepareAcquires
    <2>2. CASE slots' = ReleaseOf(swept) /\ lease' = [Ended(swept) EXCEPT ![s].state = "refused"]
      BY <1>2, <2>1, <2>2 DEF GoTypeOK, LeaseType
    <2>3. CASE \E a \in Accounts, failed \in SUBSET Accounts :
                 /\ ReleaseOf(swept)[a] < SlotsPer
                 /\ slots' = [ReleaseOf(swept) EXCEPT ![a] = @ + 1]
                 /\ lease' = [Ended(swept) EXCEPT ![s] = [Ended(swept)[s] EXCEPT
                                 !.state = "preparing", !.account = a, !.tried = failed]]
      <3>1. PICK a \in Accounts, failed \in SUBSET Accounts :
                 /\ ReleaseOf(swept)[a] < SlotsPer
                 /\ slots' = [ReleaseOf(swept) EXCEPT ![a] = @ + 1]
                 /\ lease' = [Ended(swept) EXCEPT ![s] = [Ended(swept)[s] EXCEPT
                                 !.state = "preparing", !.account = a, !.tried = failed]]
        BY <2>3
      <3>2. slots' \in [Accounts -> 0..SlotsPer]
        BY <1>2, <1>3, <3>1
      <3>3. [Ended(swept)[s] EXCEPT !.state = "preparing", !.account = a, !.tried = failed] \in LeaseType
        BY <1>2 DEF LeaseType
      <3>5. lease' \in [Streams -> LeaseType]
        BY <1>2, <3>1, <3>3
      <3>. QED BY <2>1, <3>2, <3>5 DEF GoTypeOK
    <2>. QED BY <1>4, <2>2, <2>3, AcquiresShape DEF swept
  <1>5. CASE PrepareFails(s)
    BY <1>2, <1>5 DEF PrepareFails, GoTypeOK, LeaseType
  <1>6. CASE holdStreamLease(s)
    <2>1. /\ slots' = ReleaseOf(swept) /\ UNCHANGED <<solving, strayed, now>>
          /\ lease' = [Ended(swept) EXCEPT ![s].state = "held", ![s].deadline = now + LeaseTTL]
      BY <1>6 DEF holdStreamLease, swept
    <2>2. now + LeaseTTL \in 0..MaxTime + LeaseTTL
      BY <1>3
    <2>3. [Ended(swept)[s] EXCEPT !.state = "held", !.deadline = now + LeaseTTL] \in LeaseType
      BY <1>2, <2>2 DEF LeaseType
    <2>4. lease' = [Ended(swept) EXCEPT ![s] = [Ended(swept)[s] EXCEPT !.state = "held", !.deadline = now + LeaseTTL]]
      BY <1>2, <2>1
    <2>5. lease' \in [Streams -> LeaseType]
      BY <1>2, <2>3, <2>4
    <2>. QED BY <1>2, <2>1, <2>5 DEF GoTypeOK
  <1>7. CASE releaseStreamLease(s)
    <2>. DEFINE ended == popExpiredLeasesLocked \union {t \in {s} : Held(t)}
    <2>1. ended \in SUBSET Streams
      BY DEF popExpiredLeasesLocked
    <2>2. slots' = ReleaseOf(ended) /\ lease' = Ended(ended) /\ UNCHANGED <<solving, strayed, now>>
      BY <1>7 DEF releaseStreamLease, ReleasesOf
    <2>. HIDE DEF ended
    <2>. QED BY <2>1, <2>2, ReleaseOfType DEF GoTypeOK
  <1>8. CASE lookupStreamLeaseAuth(s)
    BY <1>8 DEF lookupStreamLeaseAuth, GoTypeOK
  <1>9. CASE PrepareSwitchesAccount(s) \/ PowSwitchesAccount(s)
    <2>1. UNCHANGED <<solving, now>> /\ SwitchAccount(s)
      BY <1>9 DEF PrepareSwitchesAccount, PowSwitchesAccount
    <2>. DEFINE freed == ReleaseOf({s})
    <2>2. PICK a \in Accounts, given \in SUBSET Accounts :
              /\ lease' = [lease EXCEPT ![s] = [lease[s] EXCEPT !.account = a, !.tried = given]]
              /\ strayed' \in {strayed, strayed \union {s}}
              /\ slots' = freed \/ (freed[a] < SlotsPer /\ slots' = [freed EXCEPT ![a] = @ + 1])
      BY <2>1, SwitchShape
    <2>. freed \in [Accounts -> 0..SlotsPer]
      BY <1>2
    <2>. HIDE DEF freed
    <2>3. slots' \in [Accounts -> 0..SlotsPer]
      BY <1>3, <2>2
    <2>4. [lease[s] EXCEPT !.account = a, !.tried = given] \in LeaseType
      BY DEF GoTypeOK, LeaseType
    <2>5. lease' \in [Streams -> LeaseType]
      BY <2>2, <2>4 DEF GoTypeOK
    <2>. QED BY <2>1, <2>2, <2>3, <2>5 DEF GoTypeOK
  <1>10. CASE PowDone(s)
    BY <1>10 DEF PowDone, GoTypeOK
  <1>11. CASE ReleaseLost(s)
    BY <1>11 DEF ReleaseLost, goSide, GoTypeOK
  <1>. QED BY <1>4, <1>5, <1>6, <1>7, <1>8, <1>9, <1>10, <1>11 DEF GoStep

\* The Go function does nothing to the JavaScript function but to answer a
\* release that was sent.
LEMMA GoStepAnswers ==
    ASSUME NEW s \in Streams, GoStep(s)
    PROVE  /\ UNCHANGED <<js, client>>
           /\ \/ post' = post
              \/ post[s] = "sent" /\ post' = [post EXCEPT ![s] = "done"]
  BY DEF GoStep, PrepareAcquires, PrepareFails, holdStreamLease, releaseStreamLease, ReleasesOf,
         lookupStreamLeaseAuth, PrepareSwitchesAccount, PowSwitchesAccount, PowDone, ReleaseLost, jsSide

LEMMA JsStepGoType ==
    ASSUME GoTypeOK, NEW s \in Streams, JsStep(s) PROVE GoTypeOK'
  <1>1. UNCHANGED <<slots, lease, strayed, now>> /\ solving' \in {solving, solving \ {s}}
    BY DEF JsStep, Prepared, markClientClosed, FetchAborted, FetchThrows, FetchRefused, FetchOpens,
           Line, Breaks, BodyEnded, PowAnswered, goSide
  <1>. QED BY <1>1 DEF GoTypeOK

-----------------------------------------------------------------------------
\* Steps of the JavaScript function

\* One stream leaves: its client is told at most once and the lease released.
LEMMA LeavesKeeps ==
    ASSUME JsTypeOK, EndsOnce, NotOverYet, NEW s \in Streams,
           js[s].pc \notin {"preparing", "over"},
           NEW ending \in {"none", "json", "thrown", "failed", "finish"},
           ~js[s].gone => ending # "none",
           LeavesWith(s, ending)
    PROVE  (JsTypeOK /\ EndsOnce /\ NotOverYet)'
  <1>. DEFINE left == [js[s] EXCEPT !.pc = "over", !.output = "", !.status = "", !.rounds = 0, !.retries = 0]
              times == IF ending \in {"none", "thrown"} THEN client[s].endings ELSE client[s].endings + 1
              told == [client[s] EXCEPT !.ending = ending, !.endings = times]
              sent == IF post[s] = "none" THEN "sent" ELSE post[s]
  <1>1. js' = [js EXCEPT ![s] = left] /\ post' = [post EXCEPT ![s] = sent]
    BY DEF LeavesWith, Left, createLeaseReleaser, JsTypeOK
  <1>2. client' = [client EXCEPT ![s] = told]
    BY DEF LeavesWith, Told, JsTypeOK
  <1>3. client[s].endings = 0 /\ js[s].leased
    BY DEF NotOverYet
  <1>4. /\ left \in JsType /\ left.pc = "over" /\ left.leased /\ left.gone = js[s].gone
        /\ sent \in {"sent", "done"}
    <2>1. 0 \in 0..MaxContinues /\ 0 \in 0..MaxEmptyRetries
      BY VercelAssumption DEF MaxEmptyRetries
    <2>2. js[s] \in JsType /\ post[s] \in {"none", "sent", "done"}
      BY DEF JsTypeOK
    <2>3. left \in JsType /\ left.pc = "over" /\ left.leased = js[s].leased /\ left.gone = js[s].gone
      BY <2>1, <2>2 DEF JsType
    <2>. QED BY <1>3, <2>2, <2>3
  <1>5. told \in ClientType /\ told.ending = ending /\ told.endings \in 0..1
    <2>1. client[s] \in ClientType
      BY DEF JsTypeOK
    <2>2. times \in 0..1
      BY <1>3
    <2>. HIDE DEF times
    <2>. QED BY <2>1, <2>2 DEF ClientType
  <1>. HIDE DEF left, told, sent
  <1>6. JsTypeOK'
    BY <1>1, <1>2, <1>4, <1>5 DEF JsTypeOK
  <1>7. EndsOnce'
    BY <1>1, <1>2, <1>4, <1>5 DEF EndsOnce, JsTypeOK
  <1>8. NotOverYet'
    BY <1>1, <1>2, <1>4, <1>5 DEF NotOverYet, JsTypeOK
  <1>. QED BY <1>6, <1>7, <1>8

\* A stream goes on: what its client was told and its release stay as they are.
LEMMA GoesOnKeeps ==
    ASSUME JsTypeOK, EndsOnce, NotOverYet, NEW s \in Streams,
           js[s].pc \notin {"preparing", "over"},
           NEW next \in JsType, next.pc \notin {"preparing", "over"}, next.leased = js[s].leased,
           js' = [js EXCEPT ![s] = next], post' = post,
           NEW told \in ClientType, told.endings = client[s].endings,
           client' = [client EXCEPT ![s] = told]
    PROVE  (JsTypeOK /\ EndsOnce /\ NotOverYet)'
  <1>1. JsTypeOK'
    BY DEF JsTypeOK
  <1>2. EndsOnce'
    BY DEF EndsOnce, JsTypeOK
  <1>3. NotOverYet'
    BY DEF NotOverYet, JsTypeOK
  <1>. QED BY <1>1, <1>2, <1>3

\* finish: either the stream is left for a retry, or it leaves.
LEMMA FinishKeeps ==
    ASSUME JsTypeOK, EndsOnce, NotOverYet, NEW s \in Streams, NEW defer,
           js[s].pc \notin {"preparing", "over"},
           defer => js[s].retries < MaxEmptyRetries,
           finish(s, defer)
    PROVE  (JsTypeOK /\ EndsOnce /\ NotOverYet)'
  <1>. DEFINE again == [js[s] EXCEPT !.pc = "powing", !.retries = @ + 1, !.status = "", !.rounds = 0]
              ending == IF js[s].gone THEN "none" ELSE IF js[s].output # "text" THEN "failed" ELSE "finish"
  <1>1. \/ LeavesWith(s, ending)
        \/ defer /\ js' = [js EXCEPT ![s] = again] /\ UNCHANGED <<post, client>>
    BY DEF finish, JsTypeOK
  <1>2. js[s] \in JsType /\ client[s] \in ClientType
    BY DEF JsTypeOK
  <1>3. /\ ending \in {"none", "json", "thrown", "failed", "finish"}
        /\ ~js[s].gone => ending # "none"
    OBVIOUS
  <1>4. again.pc = "powing" /\ again.leased = js[s].leased
    BY <1>2 DEF JsType
  <1>5. ASSUME defer PROVE again \in JsType
    <2>. DEFINE n == js[s].retries + 1
    <2>0. js[s].retries < MaxEmptyRetries
      BY <1>5, Zenon
    <2>1. n \in 0..MaxEmptyRetries
      <3>. HIDE DEF again, ending
      <3>1. js[s].retries \in 0..MaxEmptyRetries
        BY <1>2 DEF JsType
      <3>. QED BY <2>0, <3>1 DEF MaxEmptyRetries
    <2>2. 0 \in 0..MaxContinues
      BY VercelAssumption
    <2>. HIDE DEF n
    <2>3. [js[s] EXCEPT !.pc = "powing", !.retries = n] \in JsType
      BY <1>2, <2>1 DEF JsType
    <2>4. ASSUME NEW r \in JsType PROVE [r EXCEPT !.status = "", !.rounds = 0] \in JsType
      BY <2>2 DEF JsType
    <2>. DEFINE first == [js[s] EXCEPT !.pc = "powing", !.retries = n]
    <2>5. again = [first EXCEPT !.status = "", !.rounds = 0]
      BY <1>2 DEF JsType, n
    <2>. HIDE DEF again, first
    <2>. QED BY <2>3, <2>4, <2>5 DEF first
  <1>. HIDE DEF again, ending
  <1>6. CASE defer /\ js' = [js EXCEPT ![s] = again] /\ UNCHANGED <<post, client>>
    <2>1. client' = [client EXCEPT ![s] = client[s]]
      BY <1>6 DEF JsTypeOK
    <2>. QED BY <1>2, <1>4, <1>5, <1>6, <2>1, GoesOnKeeps
  <1>. QED BY <1>1, <1>3, <1>6, LeavesKeeps

\* The answer to prepare is the one way out that releases nothing: no lease
\* is known to the stream then.
LEMMA PreparedKeeps ==
    ASSUME JsTypeOK, EndsOnce, NotOverYet, NEW s \in Streams, Prepared(s)
    PROVE  (JsTypeOK /\ EndsOnce /\ NotOverYet)'
  <1>1. /\ js[s].pc = "preparing" /\ post' = post /\ post[s] = "none" /\ client[s].endings = 0
        /\ js[s] \in JsType /\ client[s] \in ClientType
    BY DEF Prepared, EndsOnce, NotOverYet, JsTypeOK
  <1>. DEFINE leased == [js[s] EXCEPT !.pc = "fetching", !.leased = TRUE]
              left == [js[s] EXCEPT !.pc = "over"]
              times == client[s].endings + 1
              told == [client[s] EXCEPT !.ending = "json", !.endings = times]
  <1>2. leased \in JsType /\ leased.pc = "fetching" /\ leased.leased
    BY <1>1 DEF JsType
  <1>3. left \in JsType /\ left.pc = "over" /\ left.leased = js[s].leased
    BY <1>1 DEF JsType
  <1>4. told \in ClientType /\ told.ending = "json" /\ told.endings = 1
    <2>1. times = 1 /\ times \in 0..1
      BY <1>1
    <2>. HIDE DEF times
    <2>. QED BY <1>1, <2>1 DEF ClientType
  <1>5. ~js[s].leased
    BY <1>1 DEF NotOverYet
  <1>6. \/ js' = [js EXCEPT ![s] = leased] /\ client' = client
        \/ js' = [js EXCEPT ![s] = left] /\ client' = [client EXCEPT ![s] = told]
    BY <1>1 DEF Prepared, JsTypeOK
  <1>. HIDE DEF leased, left, told
  <1>7. CASE js' = [js EXCEPT ![s] = leased] /\ client' = client
    BY <1>1, <1>2, <1>7 DEF JsTypeOK, EndsOnce, NotOverYet
  <1>8. CASE js' = [js EXCEPT ![s] = left] /\ client' = [client EXCEPT ![s] = told]
    <2>1. JsTypeOK'
      BY <1>1, <1>3, <1>4, <1>8 DEF JsTypeOK
    <2>2. EndsOnce'
      BY <1>1, <1>3, <1>4, <1>5, <1>8 DEF JsTypeOK, EndsOnce
    <2>3. NotOverYet'
      BY <1>1, <1>3, <1>4, <1>8 DEF JsTypeOK, NotOverYet
    <2>. QED BY <2>1, <2>2, <2>3
  <1>. QED BY <1>6, <1>7, <1>8

LEMMA JsStepKeeps ==
    ASSUME JsTypeOK, EndsOnce, NotOverYet, NEW s \in Streams, JsStep(s)
    PROVE  (JsTypeOK /\ EndsOnce /\ NotOverYet)'
  <1>. js[s] \in JsType /\ client[s] \in ClientType
    BY DEF JsTypeOK
  <1>1. CASE Prepared(s)
    BY <1>1, PreparedKeeps
  <1>2. CASE markClientClosed(s)
    <2>. DEFINE next == [js[s] EXCEPT !.gone = TRUE]
    <2>1. /\ js' = [js EXCEPT ![s] = next] /\ UNCHANGED <<post, client>>
          /\ client' = [client EXCEPT ![s] = client[s]]
          /\ js[s].pc \notin {"preparing", "over"}
      BY <1>2 DEF markClientClosed, JsTypeOK
    <2>2. next \in JsType /\ next.pc = js[s].pc /\ next.leased = js[s].leased
      BY DEF JsType
    <2>. HIDE DEF next
    <2>. QED BY <2>1, <2>2, GoesOnKeeps
  <1>3. CASE FetchAborted(s)
    BY <1>3, LeavesKeeps DEF FetchAborted
  <1>4. CASE FetchThrows(s)
    BY <1>4, LeavesKeeps DEF FetchThrows
  <1>5. CASE FetchRefused(s)
    <2>1. js[s].pc = "fetching" /\ (finish(s, FALSE) \/ LeavesWith(s, "json"))
      BY <1>5 DEF FetchRefused
    <2>2. CASE finish(s, FALSE)
      BY <2>1, <2>2, FinishKeeps
    <2>3. CASE LeavesWith(s, "json")
      BY <2>1, <2>3, LeavesKeeps
    <2>. QED BY <2>1, <2>2, <2>3
  <1>6. CASE FetchOpens(s)
    <2>. DEFINE next == [js[s] EXCEPT !.pc = "reading"]
                told == [client[s] EXCEPT !.begun = TRUE]
    <2>1. /\ js' = [js EXCEPT ![s] = next] /\ client' = [client EXCEPT ![s] = told]
          /\ post' = post /\ js[s].pc = "fetching"
      BY <1>6 DEF FetchOpens, JsTypeOK
    <2>2. next \in JsType /\ next.pc = "reading" /\ next.leased = js[s].leased
      BY DEF JsType
    <2>3. told \in ClientType /\ told.endings = client[s].endings
      BY DEF ClientType
    <2>. HIDE DEF next, told
    <2>. QED BY <2>1, <2>2, <2>3, GoesOnKeeps
  <1>7. CASE Line(s)
    <2>1. PICK next \in {[js[s] EXCEPT !.output = "text"],
                         [js[s] EXCEPT !.status = "incomplete"]} :
             js' = [js EXCEPT ![s] = next]
      BY <1>7 DEF Line, JsTypeOK
    <2>2. /\ UNCHANGED <<post, client>> /\ client' = [client EXCEPT ![s] = client[s]]
          /\ js[s].pc = "reading"
      BY <1>7 DEF Line, JsTypeOK
    <2>3. next \in JsType /\ next.pc = js[s].pc /\ next.leased = js[s].leased
      BY DEF JsType
    <2>. QED BY <2>1, <2>2, <2>3, GoesOnKeeps
  <1>8. CASE Breaks(s)
    BY <1>8, FinishKeeps DEF Breaks
  <1>9. CASE BodyEnded(s)
    <2>. DEFINE next == [js[s] EXCEPT !.pc = "powing", !.rounds = js[s].rounds + 1, !.status = ""]
    <2>1. js[s].pc = "reading"
      BY <1>9 DEF BodyEnded
    <2>2. CASE shouldAutoContinue(s) /\ js' = [js EXCEPT ![s] = next] /\ UNCHANGED <<post, client>>
      <3>1. client' = [client EXCEPT ![s] = client[s]]
        BY <2>2 DEF JsTypeOK
      <3>2. js[s].rounds + 1 \in 0..MaxContinues
        <4>1. js[s].rounds < MaxContinues
          BY <2>2 DEF shouldAutoContinue
        <4>2. js[s].rounds \in 0..MaxContinues
          BY DEF JsType
        <4>3. MaxContinues \in Nat
          BY VercelAssumption
        <4>. HIDE DEF next
        <4>. QED BY <4>1, <4>2, <4>3
      <3>3. next \in JsType /\ next.pc = "powing" /\ next.leased = js[s].leased
        <4>1. ASSUME NEW n \in 0..MaxContinues
              PROVE  [js[s] EXCEPT !.pc = "powing", !.rounds = n, !.status = ""] \in JsType
          BY DEF JsType
        <4>. QED BY <3>2, <4>1 DEF JsType
      <3>. HIDE DEF next
      <3>. QED BY <2>1, <2>2, <3>1, <3>3, GoesOnKeeps
    <2>3. CASE finish(s, js[s].retries < MaxEmptyRetries)
      BY <2>1, <2>3, FinishKeeps
    <2>4. \/ shouldAutoContinue(s) /\ js' = [js EXCEPT ![s] = next] /\ UNCHANGED <<post, client>>
          \/ finish(s, js[s].retries < MaxEmptyRetries)
      BY <1>9 DEF BodyEnded, JsTypeOK
    <2>. QED BY <2>2, <2>3, <2>4
  <1>10. CASE PowAnswered(s)
    <2>. DEFINE next == [js[s] EXCEPT !.pc = "fetching"]
    <2>1. /\ js' = [js EXCEPT ![s] = next] /\ UNCHANGED <<post, client>>
          /\ client' = [client EXCEPT ![s] = client[s]] /\ js[s].pc = "powing"
      BY <1>10 DEF PowAnswered, JsTypeOK
    <2>2. next \in JsType /\ next.pc = "fetching" /\ next.leased = js[s].leased
      BY DEF JsType
    <2>. HIDE DEF next
    <2>. QED BY <2>1, <2>2, GoesOnKeeps
  <1>. QED BY <1>1, <1>2, <1>3, <1>4, <1>5, <1>6, <1>7, <1>8, <1>9, <1>10 DEF JsStep

-----------------------------------------------------------------------------
\* The invariant of both functions

LEMMA InitInv == VercelInit => VercelInv
  <1>. SUFFICES ASSUME VercelInit PROVE VercelInv
    OBVIOUS
  <1>1. (CHOOSE a \in Accounts : TRUE) \in Accounts
    BY VercelAssumption
  <1>2. SlotsPer \in Nat /\ LeaseTTL \in Nat /\ MaxTime \in Nat /\ MaxContinues \in Nat
    BY VercelAssumption
  <1>3. \E a \in Accounts : lease = [s \in Streams |-> [state |-> "none", account |-> a, tried |-> {}, deadline |-> 0]]
    BY <1>1, Zenon DEF VercelInit
  <1>4. /\ slots = [a \in Accounts |-> 0]
        /\ solving = {} /\ strayed = {} /\ now = 0
        /\ post = [s \in Streams |-> "none"]
        /\ js = [s \in Streams |-> [pc |-> "preparing", leased |-> FALSE, gone |-> FALSE, output |-> "", status |-> "",
                                    rounds |-> 0, retries |-> 0]]
        /\ client = [s \in Streams |-> [begun |-> FALSE, ending |-> "none", endings |-> 0]]
    BY Zenon DEF VercelInit
  <1>5. GoTypeOK
    <2>1. ASSUME NEW a \in Accounts PROVE [state |-> "none", account |-> a, tried |-> {}, deadline |-> 0] \in LeaseType
      BY <1>2 DEF LeaseType
    <2>2. lease \in [Streams -> LeaseType]
      BY <1>3, <2>1
    <2>3. slots \in [Accounts -> 0..SlotsPer]
      <3>1. 0 \in 0..SlotsPer
        BY <1>2
      <3>2. slots = [a \in Accounts |-> 0]
        BY <1>4
      <3>. QED BY <3>1, <3>2
    <2>4. now \in 0..MaxTime
      <3>1. 0 \in 0..MaxTime
        BY <1>2
      <3>2. now = 0
        BY <1>4
      <3>. QED BY <3>1, <3>2
    <2>5. solving \subseteq Streams /\ strayed \subseteq Streams
      BY <1>4
    <2>. QED BY <2>2, <2>3, <2>4, <2>5 DEF GoTypeOK
  <1>6. JsTypeOK
    <2>1. [pc |-> "preparing", leased |-> FALSE, gone |-> FALSE, output |-> "", status |-> "",
           rounds |-> 0, retries |-> 0] \in JsType
      BY <1>2 DEF JsType, MaxEmptyRetries
    <2>2. [begun |-> FALSE, ending |-> "none", endings |-> 0] \in ClientType
      BY DEF ClientType
    <2>. QED BY <1>4, <2>1, <2>2 DEF JsTypeOK
  <1>7. EndsOnce /\ NotOverYet
    <2>1. ASSUME NEW s \in Streams
          PROVE  /\ js[s].pc = "preparing" /\ js[s].pc # "over" /\ ~js[s].leased /\ post[s] = "none"
      BY <1>4
    <2>2. ASSUME NEW s \in Streams
          PROVE  client[s].endings = 0 /\ client[s].endings <= 1
      <3>1. client[s].endings = 0
        BY <1>4
      <3>2. 0 <= 1
        OBVIOUS
      <3>. QED BY <3>1, <3>2, Zenon
    <2>. QED BY <2>1, <2>2, Zenon DEF EndsOnce, NotOverYet
  <1>. QED BY <1>5, <1>6, <1>7, Halves DEF VercelInv

LEMMA GoStepKeeps ==
    ASSUME JsTypeOK, EndsOnce, NotOverYet, NEW s \in Streams, GoStep(s)
    PROVE  (JsTypeOK /\ EndsOnce /\ NotOverYet)'
  <1>1. UNCHANGED <<js, client>>
    BY GoStepAnswers
  <1>2. CASE post' = post
    BY <1>1, <1>2 DEF JsTypeOK, EndsOnce, NotOverYet
  <1>3. CASE post[s] = "sent" /\ post' = [post EXCEPT ![s] = "done"]
    BY <1>1, <1>3 DEF JsTypeOK, EndsOnce, NotOverYet
  <1>. QED BY <1>2, <1>3, GoStepAnswers

LEMMA NextInv == VercelInv /\ [VercelNext]_vercelVars => VercelInv'
  <1>. SUFFICES ASSUME VercelInv, [VercelNext]_vercelVars PROVE VercelInv'
    OBVIOUS
  <1>. GoTypeOK /\ JsTypeOK /\ EndsOnce /\ NotOverYet
    BY Halves DEF VercelInv
  <1>1. (VercelTypeOK <=> GoTypeOK /\ JsTypeOK)'
    BY Halves, PTL
  <1>2. CASE UNCHANGED vercelVars
    BY <1>1, <1>2 DEF VercelInv, vercelVars, GoTypeOK, JsTypeOK, EndsOnce, NotOverYet
  <1>3. CASE TimePasses
    <2>1. now + 1 \in 0..MaxTime
      BY <1>3, VercelAssumption DEF TimePasses, GoTypeOK
    <2>. QED BY <1>1, <1>3, <2>1 DEF TimePasses, goSide, jsSide, VercelInv, GoTypeOK, JsTypeOK, EndsOnce, NotOverYet
  <1>4. ASSUME NEW s \in Streams, GoStep(s) PROVE VercelInv'
    BY <1>1, <1>4, GoStepType, GoStepKeeps DEF VercelInv
  <1>5. ASSUME NEW s \in Streams, JsStep(s) PROVE VercelInv'
    BY <1>1, <1>5, JsStepGoType, JsStepKeeps DEF VercelInv
  <1>6. VercelNext => TimePasses \/ \E s \in Streams : GoStep(s) \/ JsStep(s)
    BY DEF VercelNext, GoStep, JsStep
  <1>. QED BY <1>2, <1>3, <1>4, <1>5, <1>6

LEMMA InvSafe == VercelSpec => []VercelInv
  BY InitInv, NextInv, PTL DEF VercelSpec

\* Both functions, their leases and the release requests are well formed at
\* every moment: no account has more slots taken than it has, no answer is
\* continued or retried more often than allowed.
THEOREM VercelTypeCorrect == VercelSpec => []VercelTypeOK
  BY InvSafe, PTL DEF VercelInv

\* On every way out of the JavaScript function, with throws, refusals, clients
\* that go away and retries, it asks for the release of the lease it knows of
\* and tells its client once.
THEOREM EndsOnceSafe == VercelSpec => []EndsOnce
  BY InvSafe, PTL DEF VercelInv

-----------------------------------------------------------------------------
\* The slots against the leases

Leased(s) == Pending(s) \/ Held(s)
On(a) == {s \in Streams : Leased(s) /\ lease[s].account = a}
Counted == \A a \in Accounts : slots[a] = Cardinality(On(a))

\* With the auths that strayed, nobody else has a slot.
Near(a) == {s \in Streams : (Leased(s) \/ s \in strayed) /\ lease[s].account = a}
Bounded == \A a \in Accounts : slots[a] <= Cardinality(Near(a))

\* Whose lease is none yet has called DeepSeek for nothing.
Unspoilt == \A s \in Streams : lease[s].state = "none" => s \notin solving \union strayed

LEMMA SlotsAreLeasesIsCounted ==
    GoTypeOK => (SlotsAreLeases <=> Bounded /\ (strayed = {} => Counted))
  <1>. SUFFICES ASSUME GoTypeOK PROVE SlotsAreLeases <=> Bounded /\ (strayed = {} => Counted)
    OBVIOUS
  <1>1. ASSUME NEW a \in Accounts
        PROVE  {s \in Streams : (Pending(s) \/ Held(s)) /\ lease[s].account = a}
                 \union {s \in strayed : lease[s].account = a} = Near(a)
    BY DEF GoTypeOK, Near, Leased
  <1>. QED BY <1>1 DEF SlotsAreLeases, Bounded, Counted, On, Leased

LEMMA NearFinite == ASSUME NEW a PROVE IsFiniteSet(Near(a)) /\ Cardinality(Near(a)) \in Nat
  BY FS_Subset, FS_CardinalityType, VercelAssumption DEF Near

\* Whatever is released, what is left of an account's slots is bounded by those
\* near it that were not released.
LEMMA ReleaseBounds ==
    ASSUME GoTypeOK, Bounded, NEW S \in SUBSET Streams, NEW a \in Accounts
    PROVE  ReleaseOf(S)[a] <= Cardinality(Near(a) \ S)
  <1>. DEFINE on == {s \in S : lease[s].account = a}
              n == Cardinality(on)
  <1>1. Near(a) \cap S \subseteq on /\ on \subseteq Streams
    BY DEF Near
  <1>2. IsFiniteSet(on) /\ IsFiniteSet(Near(a) \cap S)
    BY <1>1, FS_Subset, VercelAssumption
  <1>3. Cardinality(Near(a) \cap S) <= n /\ n \in Nat
    BY <1>1, <1>2, FS_Subset, FS_CardinalityType
  <1>4. Cardinality(Near(a) \ S) = Cardinality(Near(a)) - Cardinality(Near(a) \cap S)
    BY NearFinite, FS_Difference, FS_Subset, VercelAssumption
  <1>5. Cardinality(Near(a) \cap S) \in Nat /\ Cardinality(Near(a)) \in Nat /\ Cardinality(Near(a) \ S) \in Nat
    BY <1>2, NearFinite, FS_Subset, FS_CardinalityType
  <1>6. slots[a] <= Cardinality(Near(a)) /\ slots[a] \in Nat
    BY VercelAssumption DEF Bounded, GoTypeOK
  <1>7. ReleaseOf(S)[a] = IF slots[a] > n THEN slots[a] - n ELSE 0
    BY DEF ReleaseOf
  <1>. HIDE DEF n, on
  <1>. QED BY <1>3, <1>4, <1>5, <1>6, <1>7

\* A step that releases S, and after which the rest is near what it was near.
LEMMA BoundedRelease ==
    ASSUME GoTypeOK, Bounded, NEW S \in SUBSET Streams, slots' = ReleaseOf(S),
           \A b \in Accounts : Near(b) \ S \subseteq Near(b)'
    PROVE  Bounded'
  <1>. SUFFICES ASSUME NEW b \in Accounts PROVE slots'[b] <= Cardinality(Near(b)')
    BY DEF Bounded
  <1>1. slots'[b] <= Cardinality(Near(b) \ S)
    BY ReleaseBounds
  <1>2. IsFiniteSet(Near(b)') /\ Near(b) \ S \subseteq Near(b)'
    BY FS_Subset, VercelAssumption DEF Near
  <1>3. Cardinality(Near(b) \ S) <= Cardinality(Near(b)') /\ IsFiniteSet(Near(b) \ S)
    BY <1>2, FS_Subset
  <1>4. Cardinality(Near(b) \ S) \in Nat /\ Cardinality(Near(b)') \in Nat
    BY <1>2, <1>3, FS_CardinalityType
  <1>5. slots'[b] \in Nat
    <2>1. ReleaseOf(S) \in [Accounts -> 0..SlotsPer]
      BY ReleaseOfType
    <2>. QED BY <2>1, VercelAssumption
  <1>. QED BY <1>1, <1>3, <1>4, <1>5

\* A step that also takes a slot, for a stream that is near its account now.
LEMMA BoundedTake ==
    ASSUME GoTypeOK, Bounded, NEW S \in SUBSET Streams, NEW a \in Accounts, NEW s \in Streams,
           slots' = [ReleaseOf(S) EXCEPT ![a] = @ + 1],
           s \notin Near(a) \ S, s \in Near(a)',
           \A b \in Accounts : Near(b) \ S \subseteq Near(b)'
    PROVE  Bounded'
  <1>. DEFINE freed == ReleaseOf(S)
  <1>1. freed \in [Accounts -> 0..SlotsPer]
    BY ReleaseOfType
  <1>. SUFFICES ASSUME NEW b \in Accounts PROVE slots'[b] <= Cardinality(Near(b)')
    BY DEF Bounded
  <1>2. freed[b] <= Cardinality(Near(b) \ S)
    BY ReleaseBounds
  <1>. HIDE DEF freed
  <1>3. IsFiniteSet(Near(b)') /\ Near(b) \ S \subseteq Near(b)'
    BY FS_Subset, VercelAssumption DEF Near
  <1>4. Cardinality(Near(b) \ S) <= Cardinality(Near(b)') /\ IsFiniteSet(Near(b) \ S)
    BY <1>3, FS_Subset
  <1>5. Cardinality(Near(b) \ S) \in Nat /\ Cardinality(Near(b)') \in Nat
    BY <1>3, <1>4, FS_CardinalityType
  <1>6. freed[b] \in Nat
    BY <1>1, VercelAssumption
  <1>7. CASE b = a
    <2>1. Cardinality((Near(b) \ S) \union {s}) = Cardinality(Near(b) \ S) + 1
      BY <1>4, <1>7, FS_AddElement
    <2>2. (Near(b) \ S) \union {s} \subseteq Near(b)'
      BY <1>3, <1>7
    <2>3. Cardinality((Near(b) \ S) \union {s}) <= Cardinality(Near(b)')
      BY <1>3, <2>2, FS_Subset
    <2>4. slots'[b] = freed[b] + 1
      BY <1>1, <1>7 DEF freed
    <2>. QED BY <1>2, <1>5, <1>6, <2>1, <2>3, <2>4
  <1>8. CASE b # a
    <2>1. slots'[b] = freed[b]
      BY <1>1, <1>8 DEF freed
    <2>. QED BY <1>2, <1>4, <1>5, <1>6, <2>1
  <1>. QED BY <1>7, <1>8

LEMMA GoStepBounded ==
    ASSUME GoTypeOK, Unspoilt, Bounded, NEW s \in Streams, GoStep(s)
    PROVE  Bounded'
  <1>. DEFINE swept == popExpiredLeasesLocked
  <1>1. swept \in SUBSET Streams /\ \A t \in swept : Held(t)
    BY DEF popExpiredLeasesLocked, Expired
  <1>2. Ended(swept) \in [Streams -> LeaseType] /\ lease \in [Streams -> LeaseType]
    BY <1>1, ReleaseOfType DEF GoTypeOK
  <1>. HIDE DEF swept
  <1>3. CASE PrepareAcquires(s)
    <2>1. lease[s].state = "none" /\ UNCHANGED <<solving, strayed, now>>
      BY <1>3, AcquiresShape
    <2>2. s \notin swept /\ \A b \in Accounts : s \notin Near(b)
      BY <1>1, <2>1 DEF Unspoilt, Near, Leased, Held, Pending
    <2>3. CASE slots' = ReleaseOf(swept) /\ lease' = [Ended(swept) EXCEPT ![s].state = "refused"]
      <3>1. \A t \in Streams \ (swept \union {s}) : lease'[t] = lease[t]
        BY <1>2, <2>3 DEF Ended
      <3>2. \A b \in Accounts : Near(b) \ swept \subseteq Near(b)'
        BY <2>1, <2>2, <3>1 DEF Near, Leased, Pending, Held
      <3>. QED BY <1>1, <2>3, <3>2, BoundedRelease
    <2>4. CASE \E a \in Accounts, failed \in SUBSET Accounts :
                 /\ ReleaseOf(swept)[a] < SlotsPer
                 /\ slots' = [ReleaseOf(swept) EXCEPT ![a] = @ + 1]
                 /\ lease' = [Ended(swept) EXCEPT ![s] = [Ended(swept)[s] EXCEPT
                                 !.state = "preparing", !.account = a, !.tried = failed]]
      <3>1. PICK a \in Accounts, failed \in SUBSET Accounts :
                 /\ slots' = [ReleaseOf(swept) EXCEPT ![a] = @ + 1]
                 /\ lease' = [Ended(swept) EXCEPT ![s] = [Ended(swept)[s] EXCEPT
                                 !.state = "preparing", !.account = a, !.tried = failed]]
        BY <2>4
      <3>2. \A t \in Streams \ (swept \union {s}) : lease'[t] = lease[t]
        BY <1>2, <3>1 DEF Ended
      <3>3. lease'[s].state = "preparing" /\ lease'[s].account = a
        BY <1>2, <3>1 DEF LeaseType
      <3>4. \A b \in Accounts : Near(b) \ swept \subseteq Near(b)'
        BY <2>1, <2>2, <3>2 DEF Near, Leased, Pending, Held
      <3>5. s \in Near(a)' /\ s \notin Near(a) \ swept
        BY <2>2, <3>3 DEF Near, Leased, Pending
      <3>. QED BY <1>1, <3>1, <3>4, <3>5, BoundedTake
    <2>. QED BY <1>3, <2>3, <2>4, AcquiresShape DEF swept
  <1>4. CASE PrepareFails(s)
    <2>1. \A t \in Streams \ {s} : lease'[t] = lease[t]
      BY <1>4 DEF PrepareFails, GoTypeOK
    <2>2. \A b \in Accounts : Near(b) \ {s} \subseteq Near(b)'
      BY <1>4, <2>1 DEF PrepareFails, Near, Leased, Pending, Held
    <2>. QED BY <1>4, <2>2, BoundedRelease DEF PrepareFails
  <1>5. CASE holdStreamLease(s)
    <2>1. /\ slots' = ReleaseOf(swept) /\ Pending(s) /\ strayed' = strayed
          /\ lease' = [Ended(swept) EXCEPT ![s].state = "held", ![s].deadline = now + LeaseTTL]
      BY <1>5 DEF holdStreamLease, swept
    <2>2. \A t \in Streams \ (swept \union {s}) : lease'[t] = lease[t]
      BY <1>2, <2>1 DEF Ended
    <2>3. lease'[s].state = "held" /\ lease'[s].account = lease[s].account
      <3>1. Ended(swept)[s] \in LeaseType /\ Ended(swept)[s].account = lease[s].account
        BY <1>2 DEF Ended, LeaseType
      <3>2. lease'[s] = [Ended(swept)[s] EXCEPT !.state = "held", !.deadline = now + LeaseTTL]
        BY <1>2, <2>1
      <3>. QED BY <3>1, <3>2 DEF LeaseType
    <2>4. \A b \in Accounts : Near(b) \ swept \subseteq Near(b)'
      BY <2>1, <2>2, <2>3 DEF Near, Leased, Pending, Held
    <2>. QED BY <1>1, <2>1, <2>4, BoundedRelease
  <1>6. CASE releaseStreamLease(s)
    <2>. DEFINE ended == popExpiredLeasesLocked \union {t \in {s} : Held(t)}
    <2>1. ended \in SUBSET Streams
      BY DEF popExpiredLeasesLocked
    <2>2. slots' = ReleaseOf(ended) /\ lease' = Ended(ended) /\ strayed' = strayed
      BY <1>6 DEF releaseStreamLease, ReleasesOf
    <2>. HIDE DEF ended
    <2>3. \A t \in Streams \ ended : lease'[t] = lease[t]
      BY <2>2 DEF Ended
    <2>4. \A b \in Accounts : Near(b) \ ended \subseteq Near(b)'
      BY <2>2, <2>3 DEF Near, Leased, Pending, Held
    <2>. QED BY <2>1, <2>2, <2>4, BoundedRelease
  <1>7. CASE PrepareSwitchesAccount(s) \/ PowSwitchesAccount(s)
    <2>1. SwitchAccount(s)
      BY <1>7 DEF PrepareSwitchesAccount, PowSwitchesAccount
    <2>2. PICK a \in Accounts, given \in SUBSET Accounts :
              /\ lease' = [lease EXCEPT ![s] = [lease[s] EXCEPT !.account = a, !.tried = given]]
              /\ \/ /\ ReleaseOf({s})[a] < SlotsPer
                    /\ slots' = [ReleaseOf({s}) EXCEPT ![a] = @ + 1]
                    /\ strayed' = IF Pending(s) \/ Held(s) THEN strayed ELSE strayed \union {s}
                 \/ slots' = ReleaseOf({s}) /\ strayed' = strayed \union {s}
      BY <2>1, SwitchShape
    <2>3. /\ \A t \in Streams \ {s} : lease'[t] = lease[t]
          /\ lease'[s].account = a /\ lease'[s].state = lease[s].state
          /\ strayed \subseteq strayed'
      BY <1>2, <2>2 DEF LeaseType
    <2>4. \A b \in Accounts : Near(b) \ {s} \subseteq Near(b)'
      BY <2>3 DEF Near, Leased, Pending, Held
    <2>5. CASE slots' = ReleaseOf({s})
      BY <2>4, <2>5, BoundedRelease
    <2>6. CASE /\ slots' = [ReleaseOf({s}) EXCEPT ![a] = @ + 1]
               /\ strayed' = IF Pending(s) \/ Held(s) THEN strayed ELSE strayed \union {s}
      <3>1. s \in Near(a)' /\ s \notin Near(a) \ {s}
        BY <2>3, <2>6 DEF Near, Leased, Pending, Held
      <3>. QED BY <2>4, <2>6, <3>1, BoundedTake
    <2>. QED BY <2>2, <2>5, <2>6
  <1>8. CASE lookupStreamLeaseAuth(s) \/ PowDone(s) \/ ReleaseLost(s)
    <2>1. UNCHANGED <<slots, lease, strayed>>
      BY <1>8 DEF lookupStreamLeaseAuth, PowDone, ReleaseLost, goSide
    <2>. QED BY <2>1 DEF Bounded, Near, Leased, Pending, Held
  <1>. QED BY <1>3, <1>4, <1>5, <1>6, <1>7, <1>8 DEF GoStep

LEMMA GoStepUnspoilt ==
    ASSUME GoTypeOK, Unspoilt, NEW s \in Streams, GoStep(s) PROVE Unspoilt'
  <1>. DEFINE swept == popExpiredLeasesLocked
  <1>1. swept \in SUBSET Streams /\ Ended(swept) \in [Streams -> LeaseType] /\ lease \in [Streams -> LeaseType]
    BY ReleaseOfType DEF popExpiredLeasesLocked, GoTypeOK
  <1>. SUFFICES ASSUME NEW t \in Streams, lease'[t].state = "none"
                PROVE  t \notin solving' \union strayed'
    BY DEF Unspoilt
  <1>2. ASSUME NEW S \in SUBSET Streams PROVE Ended(S)[t].state = "none" => lease[t].state = "none"
    BY <1>1 DEF Ended, LeaseType
  <1>3. CASE PrepareAcquires(s)
    <2>. HIDE DEF swept
    <2>1. lease'[t].state = "none" => Ended(swept)[t].state = "none"
      <3>1. CASE lease' = [Ended(swept) EXCEPT ![s].state = "refused"]
        BY <1>1, <3>1 DEF LeaseType
      <3>2. CASE \E a \in Accounts, failed \in SUBSET Accounts :
                 /\ ReleaseOf(swept)[a] < SlotsPer
                 /\ slots' = [ReleaseOf(swept) EXCEPT ![a] = @ + 1]
                 /\ lease' = [Ended(swept) EXCEPT ![s] = [Ended(swept)[s] EXCEPT
                                !.state = "preparing", !.account = a, !.tried = failed]]
        BY <1>1, <3>2 DEF LeaseType
      <3>. QED BY <1>3, <3>1, <3>2, AcquiresShape DEF swept
    <2>. QED BY <1>1, <1>2, <1>3, <2>1, AcquiresShape DEF Unspoilt
  <1>4. CASE PrepareFails(s)
    BY <1>1, <1>4 DEF PrepareFails, Unspoilt, LeaseType
  <1>5. CASE holdStreamLease(s)
    <2>1. lease' = [Ended(swept) EXCEPT ![s].state = "held", ![s].deadline = now + LeaseTTL]
      BY <1>5 DEF holdStreamLease
    <2>. HIDE DEF swept
    <2>2. Ended(swept)[t].state = "none"
      BY <1>1, <2>1 DEF LeaseType
    <2>. QED BY <1>1, <1>2, <1>5, <2>2 DEF holdStreamLease, Unspoilt
  <1>6. CASE releaseStreamLease(s)
    <2>. DEFINE ended == swept \union {u \in {s} : Held(u)}
    <2>1. ended \in SUBSET Streams /\ lease' = Ended(ended) /\ UNCHANGED <<solving, strayed>>
      BY <1>1, <1>6 DEF releaseStreamLease, ReleasesOf
    <2>. HIDE DEF ended
    <2>. QED BY <1>2, <2>1 DEF Unspoilt
  <1>7. CASE PrepareSwitchesAccount(s) \/ PowSwitchesAccount(s)
    <2>1. SwitchAccount(s) /\ UNCHANGED solving /\ (Pending(s) \/ s \in solving)
      BY <1>7 DEF PrepareSwitchesAccount, PowSwitchesAccount
    <2>2. PICK a \in Accounts, given \in SUBSET Accounts :
              /\ lease' = [lease EXCEPT ![s] = [lease[s] EXCEPT !.account = a, !.tried = given]]
              /\ strayed' \in {strayed, strayed \union {s}}
      BY <2>1, SwitchShape
    <2>3. lease'[t].state = lease[t].state
      BY <1>1, <2>2 DEF LeaseType
    <2>4. lease[s].state # "none"
      BY <2>1 DEF Unspoilt, Pending
    <2>. QED BY <2>1, <2>2, <2>3, <2>4 DEF Unspoilt
  <1>8. CASE lookupStreamLeaseAuth(s)
    BY <1>8 DEF lookupStreamLeaseAuth, Held, Unspoilt
  <1>9. CASE PowDone(s) \/ ReleaseLost(s)
    BY <1>9 DEF PowDone, ReleaseLost, goSide, Unspoilt
  <1>. QED BY <1>3, <1>4, <1>5, <1>6, <1>7, <1>8, <1>9 DEF GoStep

LEMMA OnFinite == ASSUME NEW a PROVE IsFiniteSet(On(a)) /\ Cardinality(On(a)) \in Nat
  BY FS_Subset, FS_CardinalityType, VercelAssumption DEF On

\* Releasing streams that have leases leaves the slots of the others.
LEMMA ReleaseCounts ==
    ASSUME GoTypeOK, Counted, NEW S \in SUBSET Streams, \A s \in S : Leased(s), NEW a \in Accounts
    PROVE  ReleaseOf(S)[a] = Cardinality(On(a) \ S)
  <1>. DEFINE n == Cardinality({s \in S : lease[s].account = a})
  <1>1. {s \in S : lease[s].account = a} = On(a) \cap S
    BY DEF On
  <1>2. Cardinality(On(a) \ S) = Cardinality(On(a)) - Cardinality(On(a) \cap S)
    BY OnFinite, FS_Subset, FS_Difference, VercelAssumption
  <1>3. Cardinality(On(a) \cap S) <= Cardinality(On(a)) /\ Cardinality(On(a) \cap S) \in Nat
    BY OnFinite, FS_Subset, FS_CardinalityType
  <1>4. slots[a] = Cardinality(On(a)) /\ Cardinality(On(a)) \in Nat
    BY OnFinite DEF Counted
  <1>5. ReleaseOf(S)[a] = IF slots[a] > n THEN slots[a] - n ELSE 0
    BY DEF ReleaseOf
  <1>6. n = Cardinality(On(a) \cap S)
    BY <1>1
  <1>. HIDE DEF n
  <1>. QED BY <1>2, <1>3, <1>4, <1>5, <1>6

\* Expired leases are leases.
LEMMA ExpiredAreLeased ==
    /\ popExpiredLeasesLocked \in SUBSET Streams
    /\ \A s \in popExpiredLeasesLocked : Held(s) /\ Leased(s)
  BY DEF popExpiredLeasesLocked, Expired, Leased

\* What is on an account after a step that ends swept leases and does
\* something to stream s.
LEMMA OnAfter ==
    ASSUME GoTypeOK, NEW swept \in SUBSET Streams, NEW s \in Streams \ swept, NEW b \in Accounts,
           \A t \in Streams \ {s} : lease'[t] = Ended(swept)[t]
    PROVE  On(b)' = IF lease'[s].state \in {"preparing", "held"} /\ lease'[s].account = b
                    THEN (On(b) \ swept) \union {s} ELSE On(b) \ (swept \union {s})
  <1>1. ASSUME NEW t \in Streams \ {s}
        PROVE  t \in On(b)' <=> t \in On(b) \ swept
    <2>1. CASE t \in swept
      <3>1. lease'[t].state = "over"
        BY <2>1 DEF Ended, GoTypeOK, LeaseType
      <3>. QED BY <2>1, <3>1 DEF On, Leased, Pending, Held
    <2>2. CASE t \notin swept
      <3>1. lease'[t] = lease[t]
        BY <2>2 DEF Ended
      <3>. QED BY <2>2, <3>1 DEF On, Leased, Pending, Held
    <2>. QED BY <2>1, <2>2
  <1>2. s \in On(b)' <=> lease'[s].state \in {"preparing", "held"} /\ lease'[s].account = b
    BY DEF On, Leased, Pending, Held
  <1>3. On(b)' \subseteq Streams /\ On(b) \subseteq Streams
    BY DEF On
  <1>. QED BY <1>1, <1>2, <1>3

LEMMA GoStepCounts ==
    ASSUME GoTypeOK, Counted, NEW s \in Streams, GoStep(s), strayed' = {}
    PROVE  Counted'
  <1>. DEFINE swept == popExpiredLeasesLocked
  <1>. SUFFICES ASSUME NEW b \in Accounts PROVE slots'[b] = Cardinality(On(b)')
    BY DEF Counted
  <1>1. swept \in SUBSET Streams /\ \A t \in swept : Held(t) /\ Leased(t)
    BY ExpiredAreLeased
  <1>. HIDE DEF swept
  <1>2. CASE PrepareAcquires(s)
    <2>1. lease[s].state = "none" /\ s \notin swept /\ s \notin On(b)
      BY <1>1, <1>2 DEF PrepareAcquires, Held, On, Leased, Pending
    <2>2. ReleaseOf(swept)[b] = Cardinality(On(b) \ swept)
      BY <1>1, ReleaseCounts
    <2>3. CASE slots' = ReleaseOf(swept) /\ lease' = [Ended(swept) EXCEPT ![s].state = "refused"]
      <3>1. On(b)' = On(b) \ swept
        BY <1>1, <2>1, <2>3 DEF On, Leased, Pending, Held, Ended, GoTypeOK, LeaseType
      <3>. QED BY <2>2, <2>3, <3>1
    <2>4. CASE \E a \in Accounts, failed \in SUBSET Accounts :
                 /\ ReleaseOf(swept)[a] < SlotsPer
                 /\ slots' = [ReleaseOf(swept) EXCEPT ![a] = @ + 1]
                 /\ lease' = [Ended(swept) EXCEPT ![s] = [Ended(swept)[s] EXCEPT
                                 !.state = "preparing", !.account = a, !.tried = failed]]
      <3>1. PICK a \in Accounts, failed \in SUBSET Accounts :
                 /\ slots' = [ReleaseOf(swept) EXCEPT ![a] = @ + 1]
                 /\ lease' = [Ended(swept) EXCEPT ![s] = [Ended(swept)[s] EXCEPT
                                 !.state = "preparing", !.account = a, !.tried = failed]]
        BY <2>4
      <3>2. ReleaseOf(swept) \in [Accounts -> 0..SlotsPer]
        BY <1>1, ReleaseOfType
      <3>3. /\ lease'[s].state = "preparing" /\ lease'[s].account = a
            /\ \A t \in Streams \ {s} : lease'[t] = Ended(swept)[t]
        BY <3>1, <1>1, ReleaseOfType DEF LeaseType
      <3>4. On(b)' = IF b = a THEN (On(b) \ swept) \union {s} ELSE On(b) \ swept
        BY <1>1, <2>1, <3>3, OnAfter
      <3>5. IsFiniteSet(On(b) \ swept) /\ s \notin On(b) \ swept
        BY <2>1, OnFinite, FS_Subset
      <3>6. Cardinality((On(b) \ swept) \union {s}) = Cardinality(On(b) \ swept) + 1
        BY <3>5, FS_AddElement
      <3>7. slots'[b] = IF b = a THEN ReleaseOf(swept)[b] + 1 ELSE ReleaseOf(swept)[b]
        BY <3>1, <3>2
      <3>. QED BY <2>2, <3>4, <3>6, <3>7
    <2>. QED BY <1>2, <2>3, <2>4, AcquiresShape DEF swept
  <1>3. CASE PrepareFails(s)
    <2>1. ReleaseOf({s})[b] = Cardinality(On(b) \ {s})
      BY <1>3, ReleaseCounts DEF PrepareFails, Leased
    <2>2. On(b)' = On(b) \ {s}
      BY <1>3 DEF PrepareFails, On, Leased, Pending, Held, GoTypeOK, LeaseType
    <2>. QED BY <1>3, <2>1, <2>2 DEF PrepareFails
  <1>4. CASE holdStreamLease(s)
    <2>1. /\ slots' = ReleaseOf(swept) /\ Pending(s) /\ s \notin swept
          /\ lease' = [Ended(swept) EXCEPT ![s].state = "held", ![s].deadline = now + LeaseTTL]
      BY <1>1, <1>4 DEF holdStreamLease, swept, Pending, Held
    <2>2. /\ lease'[s].state = "held" /\ lease'[s].account = lease[s].account
          /\ \A t \in Streams \ {s} : lease'[t] = Ended(swept)[t]
      BY <2>1, <1>1 DEF Ended, LeaseType, GoTypeOK
    <2>3. s \in On(b) <=> lease[s].account = b
      BY <2>1 DEF On, Leased
    <2>4. On(b)' = On(b) \ swept
      <3>1. On(b)' = IF lease[s].account = b THEN (On(b) \ swept) \union {s} ELSE On(b) \ (swept \union {s})
        <4>1. swept \in SUBSET Streams /\ s \in Streams \ swept
          BY <1>1, <2>1
        <4>2. On(b)' = IF lease'[s].state \in {"preparing", "held"} /\ lease'[s].account = b
                       THEN (On(b) \ swept) \union {s} ELSE On(b) \ (swept \union {s})
          BY <4>1, <2>2, OnAfter
        <4>. QED BY <2>2, <4>2
      <3>. QED BY <2>1, <2>3, <3>1
    <2>. QED BY <1>1, <2>1, <2>4, ReleaseCounts
  <1>5. CASE releaseStreamLease(s)
    <2>. DEFINE ended == popExpiredLeasesLocked \union {t \in {s} : Held(t)}
    <2>1. ended \in SUBSET Streams /\ \A t \in ended : Leased(t)
      BY ExpiredAreLeased DEF Leased
    <2>2. slots' = ReleaseOf(ended) /\ lease' = Ended(ended)
      BY <1>5 DEF releaseStreamLease, ReleasesOf
    <2>. HIDE DEF ended
    <2>3. On(b)' = On(b) \ ended
      BY <2>1, <2>2 DEF On, Leased, Pending, Held, Ended, GoTypeOK, LeaseType
    <2>. QED BY <2>1, <2>2, <2>3, ReleaseCounts
  <1>6. CASE PrepareSwitchesAccount(s) \/ PowSwitchesAccount(s)
    <2>. DEFINE freed == ReleaseOf({s})
    <2>0. SwitchAccount(s)
      BY <1>6 DEF PrepareSwitchesAccount, PowSwitchesAccount
    <2>. PICK a \in Accounts, given \in SUBSET Accounts :
              /\ lease' = [lease EXCEPT ![s] = [lease[s] EXCEPT !.account = a, !.tried = given]]
              /\ \/ /\ freed[a] < SlotsPer
                    /\ slots' = [freed EXCEPT ![a] = @ + 1]
                    /\ strayed' = IF Pending(s) \/ Held(s) THEN strayed ELSE strayed \union {s}
                 \/ slots' = freed /\ strayed' = strayed \union {s}
      BY <2>0, SwitchShape
    <2>1. /\ slots' = [freed EXCEPT ![a] = @ + 1] /\ Leased(s)
          /\ lease' = [lease EXCEPT ![s] = [lease[s] EXCEPT !.account = a, !.tried = given]]
      BY DEF Leased
    <2>2. freed[b] = Cardinality(On(b) \ {s}) /\ freed \in [Accounts -> 0..SlotsPer]
      BY <2>1, ReleaseCounts, ReleaseOfType
    <2>. HIDE DEF freed
    <2>3. On(b)' = IF b = a THEN (On(b) \ {s}) \union {s} ELSE On(b) \ {s}
      BY <2>1 DEF On, Leased, Pending, Held, GoTypeOK, LeaseType
    <2>4. Cardinality((On(b) \ {s}) \union {s}) = Cardinality(On(b) \ {s}) + 1
      BY OnFinite, FS_Subset, FS_AddElement
    <2>5. slots'[b] = IF b = a THEN freed[b] + 1 ELSE freed[b]
      BY <2>1, <2>2
    <2>. QED BY <2>2, <2>3, <2>4, <2>5
  <1>7. CASE lookupStreamLeaseAuth(s) \/ PowDone(s) \/ ReleaseLost(s)
    <2>1. UNCHANGED <<slots, lease>>
      BY <1>7 DEF lookupStreamLeaseAuth, PowDone, ReleaseLost, goSide
    <2>. QED BY <2>1 DEF On, Leased, Pending, Held, Counted
  <1>. QED BY <1>2, <1>3, <1>4, <1>5, <1>6, <1>7 DEF GoStep

\* Streams whose auth strayed stay known.
LEMMA StrayedStays ==
    ASSUME NEW s \in Streams, GoStep(s) PROVE strayed \subseteq strayed'
  BY DEF GoStep, PrepareAcquires, PrepareFails, holdStreamLease, releaseStreamLease, ReleasesOf, SwitchAccount,
         lookupStreamLeaseAuth, PrepareSwitchesAccount, PowSwitchesAccount, PowDone, ReleaseLost, goSide

\* What is kept of the slots: SlotsInv is inductive beside VercelInv.
SlotsInv == Unspoilt /\ Bounded /\ (strayed = {} => Counted)

LEMMA SlotsStep == VercelInv /\ SlotsInv /\ [VercelNext]_vercelVars => SlotsInv'
  <1>. SUFFICES ASSUME VercelInv, SlotsInv, [VercelNext]_vercelVars PROVE SlotsInv'
    OBVIOUS
  <1>. GoTypeOK /\ Unspoilt /\ Bounded /\ (strayed = {} => Counted)
    BY Halves DEF VercelInv, SlotsInv
  <1>1. ASSUME UNCHANGED <<slots, lease, strayed>>, solving' \subseteq solving PROVE SlotsInv'
    <2>1. Bounded' /\ (strayed' = {} => Counted')
      BY <1>1 DEF Bounded, Counted, Near, On, Leased, Pending, Held
    <2>2. Unspoilt'
      BY <1>1 DEF Unspoilt
    <2>. QED BY <2>1, <2>2 DEF SlotsInv
  <1>2. ASSUME NEW s \in Streams, GoStep(s) PROVE SlotsInv'
    <2>1. strayed' = {} => Counted'
      BY <1>2, StrayedStays, GoStepCounts
    <2>. QED BY <1>2, <2>1, GoStepBounded, GoStepUnspoilt DEF SlotsInv
  <1>3. ASSUME NEW s \in Streams, JsStep(s) PROVE SlotsInv'
    <2>1. UNCHANGED <<slots, lease, strayed>> /\ solving' \subseteq solving
      BY <1>3 DEF JsStep, Prepared, markClientClosed, FetchAborted, FetchThrows, FetchRefused, FetchOpens,
           Line, Breaks, BodyEnded, PowAnswered, goSide
    <2>. QED BY <1>1, <2>1
  <1>4. CASE UNCHANGED vercelVars \/ TimePasses
    BY <1>1, <1>4 DEF vercelVars, TimePasses, goSide
  <1>5. VercelNext => TimePasses \/ \E s \in Streams : GoStep(s) \/ JsStep(s)
    BY DEF VercelNext, GoStep, JsStep
  <1>. QED BY <1>2, <1>3, <1>4, <1>5

\* However release requests are lost or late, leases expire, preparations fail,
\* logins fail, and accounts are switched while a request is prepared or after
\* its lease is over: no slot is taken that nobody will give back but those of
\* auths that strayed, and until one has, the slots taken are those of the
\* leases and of the requests being prepared.
THEOREM SlotsAreLeasesSafe == VercelSpec => []SlotsAreLeases
  <1>1. VercelInit => SlotsInv
    <2>. SUFFICES ASSUME VercelInit PROVE SlotsInv
      OBVIOUS
    <2>0. /\ \A s \in Streams : lease[s].state = "none"
          /\ \A a \in Accounts : slots[a] = 0
          /\ solving = {} /\ strayed = {}
      BY Zenon DEF VercelInit
    <2>1. ASSUME NEW a \in Accounts PROVE On(a) = {} /\ Near(a) = {}
      BY <2>0 DEF On, Near, Leased, Pending, Held
    <2>2. Bounded /\ Counted
      BY <2>0, <2>1, FS_EmptySet DEF Bounded, Counted
    <2>. QED BY <2>0, <2>2 DEF SlotsInv, Unspoilt
  <1>2. VercelInv /\ SlotsInv => SlotsAreLeases
    BY SlotsAreLeasesIsCounted, Halves DEF VercelInv, SlotsInv
  <1>. QED BY <1>1, <1>2, SlotsStep, InvSafe, PTL DEF VercelSpec

\* What follows the steps of F wherever it is typed is what RunsExist finds.
Follows(T, e, F, n, h) == h[0] = e /\ \A i \in 1..n : h[i - 1] \in T => h[i] = F[<<i, h[i - 1]>>]

LEMMA RunsTyped ==
    ASSUME NEW T, NEW e \in T, NEW n \in Nat, NEW F \in [(1..n) \X T -> T], NEW h, Follows(T, e, F, n, h)
    PROVE  \A i \in 0..n : h[i] \in T
  <1>. DEFINE Bad == {i \in 0..n : h[i] \notin T}
  <1>1. ASSUME NEW i \in Bad, \A j \in Bad : ~(j < i) PROVE FALSE
    <2>1. i # 0
      BY <1>1 DEF Follows
    <2>2. i \in 1..n /\ i - 1 \in 0..n /\ i - 1 < i
      BY <2>1
    <2>3. h[i - 1] \in T
      BY <1>1, <2>2
    <2>4. h[i] = F[<<i, h[i - 1]>>]
      BY <2>2, <2>3 DEF Follows
    <2>. QED BY <1>1, <2>2, <2>3, <2>4
  <1>2. Bad \in SUBSET Nat
    OBVIOUS
  <1>. HIDE DEF Bad
  <1>3. Bad = {}
    BY <1>1, <1>2, LeastNumber
  <1>. QED BY <1>3 DEF Bad

\* What follows the same typed steps is the same.
LEMMA RunsAgree ==
    ASSUME NEW T, NEW e \in T, NEW n \in Nat, NEW F \in [(1..n) \X T -> T],
           NEW g, Follows(T, e, F, n, g), NEW h, Follows(T, e, F, n, h)
    PROVE  g[n] = h[n] /\ h[n] \in T
  <1>. DEFINE Bad == {i \in 0..n : g[i] # h[i]}
  <1>1. \A i \in 0..n : g[i] \in T /\ h[i] \in T
    BY RunsTyped
  <1>2. ASSUME NEW i \in Bad, \A j \in Bad : ~(j < i) PROVE FALSE
    <2>1. i # 0
      BY <1>2 DEF Follows
    <2>2. i \in 1..n /\ i - 1 \in 0..n /\ i - 1 < i
      BY <2>1
    <2>3. g[i - 1] = h[i - 1] /\ g[i - 1] \in T
      BY <1>1, <1>2, <2>2
    <2>4. h[i] = F[<<i, h[i - 1]>>] /\ g[i] = F[<<i, g[i - 1]>>]
      BY <2>2, <2>3 DEF Follows
    <2>. QED BY <1>2, <2>2, <2>3, <2>4
  <1>3. Bad \in SUBSET Nat
    OBVIOUS
  <1>. HIDE DEF Bad
  <1>4. Bad = {}
    BY <1>2, <1>3, LeastNumber
  <1>5. n \in 0..n
    OBVIOUS
  <1>. QED BY <1>1, <1>4, <1>5 DEF Bad

-----------------------------------------------------------------------------
\* Texts: what is cut out of a sequence is one of the same members

LEMMA LeastIs ==
    ASSUME NEW n \in Nat, NEW S \in SUBSET (0..n), S # {}
    PROVE  Least(S) \in S /\ \A y \in S : Least(S) <= y
  <1>1. PICK x \in S : \A y \in S : ~(y < x)
    BY LeastNumber
  <1>2. \A y \in S : x <= y
    BY <1>1
  <1>. QED BY <1>2 DEF Least

LEMMA GreatestIs ==
    ASSUME NEW n \in Nat, NEW S \in SUBSET (0..n), S # {}
    PROVE  Greatest(S) \in S /\ \A y \in S : y <= Greatest(S)
  <1>. DEFINE T == {m \in 0..n : n - m \in S}
  <1>1. T \in SUBSET Nat
    OBVIOUS
  <1>2. T # {}
    <2>1. PICK x \in S : TRUE
      OBVIOUS
    <2>2. n - x \in 0..n /\ n - (n - x) = x
      BY <2>1
    <2>. QED BY <2>1, <2>2
  <1>3. PICK k \in T : \A m \in T : ~(m < k)
    <2>. HIDE DEF T
    <2>. QED BY <1>1, <1>2, LeastNumber
  <1>4. ASSUME NEW y \in S PROVE y <= n - k
    <2>1. n - y \in 0..n /\ n - (n - y) = y
      OBVIOUS
    <2>2. n - y \in T
      BY <2>1
    <2>3. ~(n - y < k) /\ k \in 0..n
      BY <1>3, <2>2
    <2>. QED BY <2>3
  <1>5. n - k \in S
    BY <1>3
  <1>. QED BY <1>4, <1>5 DEF Greatest

LEMMA Members ==
    ASSUME NEW W, NEW s \in Seq(W)
    PROVE  Len(s) \in Nat /\ DOMAIN s = 1..Len(s) /\ \A i \in 1..Len(s) : s[i] \in W
  BY LenProperties, ElementOfSeq

LEMMA Cut ==
    ASSUME NEW W, NEW s \in Seq(W), NEW m \in Nat, m > 0, NEW n \in Int, n <= Len(s)
    PROVE  /\ SubSeq(s, m, n) \in Seq(W) /\ Len(SubSeq(s, m, n)) = IF m <= n THEN n - m + 1 ELSE 0
           /\ Len(SubSeq(s, m, n)) <= Len(s)
  <1>1. Len(s) \in Nat /\ \A i \in 1..Len(s) : s[i] \in W
    BY Members
  <1>2. \A i \in m..n : i \in 1..Len(s)
    BY <1>1
  <1>3. \A i \in m..n : s[i] \in W
    BY <1>1, <1>2
  <1>4. SubSeq(s, m, n) \in Seq(W) /\ Len(SubSeq(s, m, n)) = IF m <= n THEN n - m + 1 ELSE 0
    BY <1>3, SubSeqProperties
  <1>. QED BY <1>1, <1>4

LEMMA FromThere ==
    ASSUME NEW W, NEW s \in Seq(W), NEW m \in Nat, m > 0
    PROVE  From(s, m) \in Seq(W) /\ Len(From(s, m)) = IF m <= Len(s) THEN Len(s) - m + 1 ELSE 0
  BY Members, Cut DEF From

LEMMA Joined ==
    ASSUME NEW W, NEW s \in Seq(W), NEW t \in Seq(W)
    PROVE  s \o t \in Seq(W) /\ Len(s \o t) = Len(s) + Len(t)
  BY ConcatProperties

LEMMA WithoutThat ==
    ASSUME NEW W, NEW s \in Seq(W), NEW i \in 1..Len(s)
    PROVE  Without(s, i) \in Seq(W)
  <1>1. Len(s) \in Nat /\ i - 1 \in Int /\ i - 1 <= Len(s) /\ i + 1 \in Nat /\ i + 1 > 0
    BY Members
  <1>2. SubSeq(s, 1, i - 1) \in Seq(W)
    BY <1>1, Cut
  <1>3. From(s, i + 1) \in Seq(W)
    BY <1>1, FromThere
  <1>. QED BY <1>2, <1>3, Joined DEF Without

LEMMA BetweenPlaces ==
    ASSUME NEW W, NEW s \in Seq(W), NEW P \in SUBSET (1..Len(s))
    PROVE  Between(s, P) \in Seq(W)
  <1>1. Len(s) \in Nat /\ P \in SUBSET (0..Len(s))
    BY Members
  <1>2. CASE P = {}
    BY <1>2 DEF Between
  <1>3. CASE P # {}
    <2>1. Least(P) \in P /\ Greatest(P) \in P
      BY <1>1, <1>3, LeastIs, GreatestIs
    <2>2. \A x \in P : x \in Nat /\ x > 0 /\ x \in Int /\ x <= Len(s)
      BY <1>1
    <2>3. Least(P) \in Nat /\ Least(P) > 0 /\ Greatest(P) \in Int /\ Greatest(P) <= Len(s)
      BY <2>1, <2>2
    <2>4. SubSeq(s, Least(P), Greatest(P)) \in Seq(W)
      BY <2>3, Cut
    <2>. QED BY <1>3, <2>4 DEF Between
  <1>. QED BY <1>2, <1>3

LEMMA Trimmed ==
    ASSUME NEW W, NEW s \in Seq(W)
    PROVE  Trim(s) \in Seq(W)
  <1>1. {i \in DOMAIN s : s[i] # "nl"} \in SUBSET (1..Len(s))
    BY Members
  <1>. QED BY <1>1, BetweenPlaces DEF Trim

-----------------------------------------------------------------------------
\* Tags and the calls they stand for

LEMMA TagsInPlace ==
    ASSUME NEW W, NEW s \in Seq(W), NEW t \in FindToolMarkupTags(s)
    PROVE  t.at \in 1..Len(s) /\ t.end \in 1..Len(s) /\ t.at <= t.end
  <1>1. Len(s) \in Nat /\ DOMAIN s = 1..Len(s)
    BY Members
  <1>2. PICK i \in 1..Len(s) : t \in scanToolMarkupTagAt(s, i)
    BY <1>1 DEF FindToolMarkupTags
  <1>3. \/ t.at = i /\ t.end = i + 1 /\ i < Len(s)
        \/ t.at = i /\ t.end = i + 0
    <2>. DEFINE A == WrapperAt(s, i)
                B == i < Len(s)
                Is(n) == t.at = i /\ t.end = i + n
    <2>1. A => B /\ s[i] = "tc1"
      BY DEF WrapperAt
    <2>. HIDE DEF A, B
    <2>2. CASE A
      <3>1. scanToolMarkupTagAt(s, i) = {[at |-> i, end |-> i + 1, name |-> "tool_calls", closing |-> FALSE]}
        BY <2>1, <2>2 DEF scanToolMarkupTagAt, A
      <3>. QED BY <1>2, <2>1, <2>2, <3>1 DEF B
    <2>3. CASE ~A
      <3>1. \/ scanToolMarkupTagAt(s, i) = {[at |-> i, end |-> i + 0, name |-> "tool_calls", closing |-> TRUE]}
            \/ scanToolMarkupTagAt(s, i) = {[at |-> i, end |-> i + 0, name |-> "invoke", closing |-> FALSE]}
            \/ scanToolMarkupTagAt(s, i) = {[at |-> i, end |-> i + 0, name |-> "invoke", closing |-> TRUE]}
            \/ scanToolMarkupTagAt(s, i) = {[at |-> i, end |-> i + 0, name |-> "parameter", closing |-> FALSE]}
            \/ scanToolMarkupTagAt(s, i) = {}
        BY <2>3 DEF scanToolMarkupTagAt, A
      <3>. QED BY <1>2, <3>1
    <2>. QED BY <2>2, <2>3
  <1>4. PICK n \in {0, 1} : t.at = i /\ t.end = i + n /\ (n = 1 => i < Len(s))
    BY <1>3
  <1>. QED BY <1>1, <1>4

LEMMA SpansInPlace ==
    ASSUME NEW W, NEW s \in Seq(W), NEW name, NEW p \in Spans(s, name)
    PROVE  p[1] \in FindToolMarkupTags(s) /\ p[2] \in FindToolMarkupTags(s)
  BY DEF Spans

LEMMA ElementsInPlace ==
    ASSUME NEW W, NEW s \in Seq(W), NEW name, NEW b \in findXMLElementBlocks(s, name)
    PROVE  b.at \in 1..Len(s) /\ b.body \in Seq(W) /\ Len(b.body) <= Len(s)
  <1>1. PICK p \in Spans(s, name) : b = [at |-> p[1].at, body |-> SubSeq(s, p[1].end + 1, p[2].at - 1)]
    BY DEF findXMLElementBlocks, Outermost
  <1>2. p[1].at \in 1..Len(s) /\ p[1].end \in 1..Len(s) /\ p[2].at \in 1..Len(s)
    BY SpansInPlace, TagsInPlace
  <1>3. p[1].end + 1 \in Nat /\ p[1].end + 1 > 0 /\ p[2].at - 1 \in Int /\ p[2].at - 1 <= Len(s)
    BY <1>2, Members
  <1>4. /\ SubSeq(s, p[1].end + 1, p[2].at - 1) \in Seq(W)
        /\ Len(SubSeq(s, p[1].end + 1, p[2].at - 1)) <= Len(s)
    BY <1>3, Cut
  <1>. QED BY <1>1, <1>2, <1>4

LEMMA WrappersCounted ==
    ASSUME NEW W, NEW n \in Nat, NEW ws,
           \A w \in ws : w.at \in 1..n /\ w.body \in Seq(W) /\ Len(w.body) <= n
    PROVE  CallsOfWrappers(ws) \in Nat
  <1>. DEFINE C(w) == {<<w.at, b.at>> : b \in {c \in findXMLElementBlocks(w.body, "invoke") :
                                                  parseSingleXMLToolCall(c.body)}}
              U == UNION {C(w) : w \in ws}
  <1>1. ASSUME NEW x \in U PROVE x \in (1..n) \X (1..n)
    <2>1. PICK w \in ws : x \in C(w)
      BY <1>1
    <2>2. PICK b \in findXMLElementBlocks(w.body, "invoke") : x = <<w.at, b.at>>
      BY <2>1
    <2>3. b.at \in 1..Len(w.body) /\ Len(w.body) \in Nat /\ Len(w.body) <= n
      BY ElementsInPlace, Members
    <2>4. b.at \in 1..n
      BY <2>3
    <2>. QED BY <2>2, <2>4
  <1>2. IsFiniteSet((1..n) \X (1..n))
    <2>1. IsFiniteSet(1..n)
      BY FS_Interval
    <2>. QED BY <2>1, FS_Product
  <1>3. Cardinality(U) \in Nat
    <2>1. U \in SUBSET ((1..n) \X (1..n))
      BY <1>1
    <2>. HIDE DEF U
    <2>. QED BY <1>2, <2>1, FS_Subset, FS_CardinalityType
  <1>. QED BY <1>3 DEF CallsOfWrappers

LEMMA RepairedText ==
    ASSUME NEW W, NEW s \in Seq(W)
    PROVE  repairMissingXMLToolCallsOpeningWrapper(s) \in Seq(W \union {"tc1", "tc2"})
  <1>. DEFINE V == W \union {"tc1", "tc2"}
              P == {i \in DOMAIN s : s[i] = "inv"}
  <1>1. \A t \in Seq(W) : t \in Seq(V)
    BY SeqMonotonic
  <1>2. ASSUME P # {} PROVE Repaired(s, Least(P)) \in Seq(V)
    <2>1. Len(s) \in Nat /\ P \in SUBSET (0..Len(s)) /\ P \in SUBSET (1..Len(s))
      BY Members
    <2>2. Least(P) \in P
      <3>. HIDE DEF P
      <3>. QED BY <1>2, <2>1, LeastIs
    <2>3. Least(P) \in Nat /\ Least(P) > 0 /\ Least(P) - 1 \in Int /\ Least(P) - 1 <= Len(s)
      BY <2>1, <2>2
    <2>. HIDE DEF P
    <2>4. SubSeq(s, 1, Least(P) - 1) \in Seq(V) /\ From(s, Least(P)) \in Seq(V)
      <3>1. SubSeq(s, 1, Least(P) - 1) \in Seq(W)
        BY <2>3, Cut
      <3>2. From(s, Least(P)) \in Seq(W)
        BY <2>3, FromThere
      <3>. QED BY <1>1, <3>1, <3>2
    <2>5. <<"tc1", "tc2">> \in Seq(V)
      OBVIOUS
    <2>. HIDE DEF V
    <2>6. SubSeq(s, 1, Least(P) - 1) \o <<"tc1", "tc2">> \in Seq(V)
      BY <2>4, <2>5, Joined
    <2>. QED BY <2>4, <2>6, Joined DEF Repaired
  <1>3. s \in Seq(V)
    BY <1>1
  <1>4. (\E i, j \in DOMAIN s : i < j /\ s[i] = "inv" /\ s[j] = "/tc") => P # {}
    OBVIOUS
  <1>. HIDE DEF V
  <1>. QED BY <1>2, <1>3, <1>4 DEF repairMissingXMLToolCallsOpeningWrapper, V

LEMMA CallsCounted ==
    ASSUME NEW W, NEW s \in Seq(W)
    PROVE  parseXMLToolCalls(s) \in Nat
  <1>. DEFINE V == W \union {"tc1", "tc2"}
              t == repairMissingXMLToolCallsOpeningWrapper(s)
  <1>1. t \in Seq(V)
    BY RepairedText
  <1>2. CallsOfWrappers(findXMLElementBlocks(t, "tool_calls")) \in Nat
    <2>. HIDE DEF t, V
    <2>1. Len(t) \in Nat
      BY <1>1, Members
    <2>2. \A w \in findXMLElementBlocks(t, "tool_calls") : w.at \in 1..Len(t) /\ w.body \in Seq(V) /\ Len(w.body) <= Len(t)
      BY <1>1, ElementsInPlace
    <2>. QED BY <2>1, <2>2, WrappersCounted
  <1>3. CallsOfWrappers(findXMLElementBlocks(s, "tool_calls")) \in Nat
    <2>1. Len(s) \in Nat
      BY Members
    <2>2. \A w \in findXMLElementBlocks(s, "tool_calls") : w.at \in 1..Len(s) /\ w.body \in Seq(W) /\ Len(w.body) <= Len(s)
      BY ElementsInPlace
    <2>. QED BY <2>1, <2>2, WrappersCounted
  <1>. QED BY <1>2, <1>3 DEF parseXMLToolCalls, OrRepaired

LEMMA Sanitized ==
    ASSUME NEW W, NEW s \in Seq(W)
    PROVE  SanitizeLooseCDATA(s) \in Seq(W)
  <1>. DEFINE P == {i \in DOMAIN s : s[i] = "cd" /\ \A k \in i + 1..Len(s) : s[k] # "]]"}
  <1>1. Len(s) \in Nat /\ P \in SUBSET (0..Len(s)) /\ P \in SUBSET (1..Len(s))
    BY Members
  <1>. HIDE DEF P
  <1>2. WithoutFirst(s, P) \in Seq(W)
    <2>1. P # {} => Least(P) \in 1..Len(s)
      BY <1>1, LeastIs
    <2>. QED BY <2>1, WithoutThat DEF WithoutFirst
  <1>. QED BY <1>2 DEF SanitizeLooseCDATA, P

-----------------------------------------------------------------------------
\* Fenced blocks

Walks(W) == [kept : Seq(W), before : Nat, mark : W \union {"fence"}, length : Nat, cdata : BOOLEAN]
Walking(W) == {w \in Walks(W) : w.before <= Len(w.kept)}

LEMMA FenceCharsCounted ==
    ASSUME NEW W, NEW s \in Seq(W)
    PROVE  countLeadingFenceChars(s) \in 0..Len(s)
  <1>. DEFINE P == {n \in 0..Len(s) : \A i \in 1..n : s[i] = s[1] /\ s[i] \in FenceMarks}
  <1>1. Len(s) \in Nat
    BY Members
  <1>2. 0 \in P
    BY <1>1
  <1>3. P \in SUBSET (0..Len(s))
    OBVIOUS
  <1>. HIDE DEF P
  <1>4. Greatest(P) \in P
    BY <1>1, <1>2, <1>3, GreatestIs
  <1>. QED BY <1>3, <1>4 DEF countLeadingFenceChars, P

LEMMA OneLineWalked ==
    ASSUME NEW W, NEW line \in Seq(W), NEW w \in Walking(W)
    PROVE  AfterLine(line, w) \in Walking(W)
  <1>. DEFINE n == countLeadingFenceChars(line)
              C == cdataStartsBeforeFence(line)
              u == updateCDATAState(w.cdata, line)
              k == w.kept \o line
              K == Seq(W)
              M == W \union {"fence"}
              B == BOOLEAN
  <1>1. /\ w \in [kept : K, before : Nat, mark : M, length : Nat, cdata : B]
        /\ w.before <= Len(w.kept) /\ w.kept \in Seq(W)
    BY DEF Walking, Walks
  <1>2. Len(line) \in Nat /\ n \in 0..Len(line) /\ \A i \in 1..Len(line) : line[i] \in W
    BY Members, FenceCharsCounted
  <1>3. k \in K /\ Len(k) = Len(w.kept) + Len(line) /\ Len(w.kept) \in Nat
    BY <1>1, Joined, Members
  <1>4. u \in B
    BY <1>1 DEF updateCDATAState
  <1>5. n > 0 => line[1] \in M
    BY <1>2
  <1>6. FALSE \in B /\ w.length \in Nat
    BY <1>1
  <1>. DEFINE R == FenceLine(line, w, n)
  <1>. HIDE DEF n, C, u, k, K, M, B
  <1>7. CASE w.cdata \/ C
    <2>1. R = [w EXCEPT !.kept = k, !.cdata = u]
      BY <1>1, <1>7 DEF FenceLine, C, u, k
    <2>2. R \in [kept : K, before : Nat, mark : M, length : Nat, cdata : B] /\ R.kept = k /\ R.before = w.before
      BY <1>1, <1>3, <1>4, <2>1
    <2>3. R.before <= Len(R.kept)
      BY <1>1, <1>2, <1>3, <2>2
    <2>. QED BY <2>2, <2>3 DEF AfterLine, Walking, Walks, K, M, B, n
  <1>8. CASE ~(w.cdata \/ C) /\ w.length = 0 /\ n > 0
    <2>1. R = [w EXCEPT !.mark = line[1], !.length = n, !.before = Len(w.kept)]
      BY <1>1, <1>8 DEF FenceLine, C
    <2>2. n \in Nat
      BY <1>2
    <2>3. R \in [kept : K, before : Nat, mark : M, length : Nat, cdata : B] /\ R.kept = w.kept /\ R.before = Len(w.kept)
      BY <1>1, <1>3, <1>5, <1>8, <2>1, <2>2
    <2>. QED BY <1>3, <2>3 DEF AfterLine, Walking, Walks, K, M, B, n
  <1>9. CASE ~(w.cdata \/ C) /\ w.length = 0 /\ n = 0
    <2>1. R = [w EXCEPT !.kept = k]
      BY <1>1, <1>9 DEF FenceLine, C, k
    <2>2. R \in [kept : K, before : Nat, mark : M, length : Nat, cdata : B] /\ R.kept = k /\ R.before = w.before
      BY <1>1, <1>3, <2>1
    <2>3. R.before <= Len(R.kept)
      BY <1>1, <1>2, <1>3, <2>2
    <2>. QED BY <2>2, <2>3 DEF AfterLine, Walking, Walks, K, M, B, n
  <1>10. CASE ~(w.cdata \/ C) /\ w.length # 0
    <2>1. R = w \/ R = [w EXCEPT !.length = 0]
      BY <1>1, <1>10 DEF FenceLine, C
    <2>2. R \in [kept : K, before : Nat, mark : M, length : Nat, cdata : B] /\ R.kept = w.kept /\ R.before = w.before
      BY <1>1, <2>1
    <2>. QED BY <1>1, <2>2 DEF AfterLine, Walking, Walks, K, M, B, n
  <1>11. n = 0 \/ n > 0
    BY <1>2
  <1>. QED BY <1>7, <1>8, <1>9, <1>10, <1>11

LEMMA LineCut ==
    ASSUME NEW W, NEW s \in Seq(W), NEW i \in 1..Len(s)
    PROVE  LineTo(s, i) \in Seq(W)
  <1>. DEFINE P == {0} \union {j \in 1..i - 1 : s[j] = "nl"}
  <1>1. Len(s) \in Nat
    BY Members
  <1>2. P \in SUBSET (0..Len(s)) /\ P # {}
    BY <1>1
  <1>. HIDE DEF P
  <1>3. Greatest(P) \in P
    BY <1>1, <1>2, GreatestIs
  <1>4. Greatest(P) \in 0..Len(s)
    BY <1>2, <1>3
  <1>5. Greatest(P) + 1 \in Nat /\ Greatest(P) + 1 > 0 /\ i \in Int /\ i <= Len(s)
    BY <1>1, <1>4
  <1>6. SubSeq(s, Greatest(P) + 1, i) \in Seq(W)
    BY <1>5, Cut
  <1>. QED BY <1>6 DEF LineTo, P

LEMMA LinesWalked ==
    ASSUME NEW W, NEW s \in Seq(W), NEW start \in Walking(W)
    PROVE  WalkLines(s, start) \in Walking(W)
  <1>. DEFINE T == Walking(W)
              n == Len(s)
              Next(i, x) == IF EndsALine(s, i) THEN AfterLine(LineTo(s, i), x) ELSE x
              F == [p \in (1..n) \X T |-> Next(p[1], p[2])]
              Rec(f) == f = [i \in 0..n |-> CASE i = 0 -> start
                                              [] i > 0 /\ EndsALine(s, i) -> AfterLine(LineTo(s, i), f[i - 1])
                                              [] OTHER -> f[i - 1]]
  <1>1. n \in Nat /\ start \in T
    BY Members
  <1>2. \A i \in 1..n, x \in T : Next(i, x) \in T
    BY LineCut, OneLineWalked
  <1>3. F \in [(1..n) \X T -> T] /\ \A i \in 1..n, x \in T : F[<<i, x>>] = Next(i, x)
    <2>. HIDE DEF Next
    <2>. QED BY <1>2
  <1>. HIDE DEF F, T, n
  <1>4. PICK g \in [0..n -> T] : Runs(start, F, n, g)
    BY <1>1, <1>3, RunsExist
  <1>5. ASSUME NEW f, f[0] = start, \A i \in 1..n : f[i] = Next(i, f[i - 1]), NEW i \in 0..n
        PROVE  f[i] = CASE i = 0 -> start
                        [] i > 0 /\ EndsALine(s, i) -> AfterLine(LineTo(s, i), f[i - 1])
                        [] OTHER -> f[i - 1]
    <2>1. CASE i = 0
      BY <1>5, <2>1
    <2>2. CASE i # 0
      <3>1. i \in 1..n /\ i > 0
        BY <1>1, <2>2
      <3>. QED BY <1>5, <2>2, <3>1
    <2>. QED BY <2>1, <2>2
  <1>6. Rec(g)
    <2>1. g[0] = start /\ \A i \in 1..n : g[i] = Next(i, g[i - 1])
      <3>1. \A i \in 1..n : i - 1 \in 0..n
        BY <1>1
      <3>2. \A i \in 1..n : g[i - 1] \in T
        BY <1>4, <3>1
      <3>. HIDE DEF Next
      <3>. QED BY <1>3, <1>4, <3>2 DEF Runs
    <2>2. g = [i \in 0..n |-> g[i]]
      BY <1>4
    <2>. HIDE DEF Next
    <2>. QED BY <1>5, <2>1, <2>2
  <1>7. PICK h : Rec(h) /\ WalkLines(s, start) = h[n]
    BY <1>6 DEF WalkLines, n
  <1>8. Follows(T, start, F, n, h)
    <2>1. h[0] = start
      BY <1>1, <1>7
    <2>2. ASSUME NEW i \in 1..n, h[i - 1] \in T PROVE h[i] = Next(i, h[i - 1])
      <3>1. i \in 0..n /\ i # 0 /\ i > 0
        BY <1>1
      <3>2. h[i] = CASE i = 0 -> start
                     [] i > 0 /\ EndsALine(s, i) -> AfterLine(LineTo(s, i), h[i - 1])
                     [] OTHER -> h[i - 1]
        BY <1>7, <3>1
      <3>. QED BY <3>1, <3>2
    <2>. HIDE DEF Next
    <2>. QED BY <1>3, <2>1, <2>2 DEF Follows
  <1>9. \A i \in 0..n : h[i] \in T
    <2>. HIDE DEF Next, Rec
    <2>. QED BY <1>1, <1>3, <1>8, RunsTyped
  <1>. QED BY <1>1, <1>7, <1>9 DEF T

LEMMA FencesStripped ==
    ASSUME NEW W, NEW s \in Seq(W)
    PROVE  stripFencedCodeBlocks(s) \in Seq(W)
  <1>. DEFINE start == [kept |-> <<>>, before |-> 0, mark |-> "fence", length |-> 0, cdata |-> FALSE]
              w == WalkLines(s, start)
  <1>1. start \in Walking(W)
    <2>1. <<>> \in Seq(W) /\ Len(<<>>) = 0
      BY EmptySeq
    <2>. QED BY <2>1 DEF Walking, Walks
  <1>. HIDE DEF start
  <1>2. w \in Walking(W)
    BY <1>1, LinesWalked
  <1>3. w.kept \in Seq(W) /\ w.before \in Int /\ w.before <= Len(w.kept)
    BY <1>2 DEF Walking, Walks
  <1>. HIDE DEF w
  <1>4. SubSeq(w.kept, 1, w.before) \in Seq(W)
    BY <1>3, Cut
  <1>5. OutsideFence(w) \in Seq(W)
    BY <1>3, <1>4 DEF OutsideFence
  <1>. QED BY <1>5 DEF stripFencedCodeBlocks, w, start

Parsed == [calls : Nat, saw : BOOLEAN]

LEMMA Standalone ==
    ASSUME NEW W, NEW s \in Seq(W)
    PROVE  ParseStandaloneToolCallsDetailed(s) \in Parsed
  <1>. DEFINE t == Trim(stripFencedCodeBlocks(Trim(s)))
  <1>1. t \in Seq(W)
    BY Trimmed, FencesStripped
  <1>. HIDE DEF t
  <1>2. CallsOutsideFences(t) \in Nat
    BY <1>1, Sanitized, CallsCounted DEF CallsOutsideFences, OrSanitized
  <1>3. ContainsToolCallWrapperSyntax(s) \in BOOLEAN
    BY DEF ContainsToolCallWrapperSyntax
  <1>4. Found(CallsOutsideFences(t), ContainsToolCallWrapperSyntax(s)) \in Parsed
    BY <1>2, <1>3 DEF Found, Parsed
  <1>. QED BY <1>4 DEF ParseStandaloneToolCallsDetailed, t

-----------------------------------------------------------------------------
\* The sieve's code fences

Fences == [stack : Seq(Int), ticks : Nat, tildes : Nat, lineStart : BOOLEAN]

LEMMA FencesFlushed ==
    ASSUME NEW f \in Fences
    PROVE  flushPending(f) \in Fences
  <1>. DEFINE m == f.ticks - f.tildes
              k == applyFenceMarker(f.stack, m)
  <1>1. f.stack \in Seq(Int) /\ m \in Int
    BY DEF Fences
  <1>. HIDE DEF m
  <1>2. Append(f.stack, m) \in Seq(Int)
    BY <1>1, AppendProperties
  <1>3. SubSeq(f.stack, 1, Len(f.stack) - 1) \in Seq(Int)
    <2>1. Len(f.stack) - 1 \in Int /\ Len(f.stack) - 1 <= Len(f.stack)
      BY <1>1, Members
    <2>. QED BY <1>1, <2>1, Cut
  <1>4. k \in Seq(Int)
    BY <1>2, <1>3 DEF applyFenceMarker
  <1>. HIDE DEF k
  <1>5. [stack |-> IF f.lineStart THEN k ELSE f.stack, ticks |-> 0, tildes |-> 0, lineStart |-> FALSE] \in Fences
    BY <1>1, <1>4 DEF Fences
  <1>. QED BY <1>5 DEF flushPending, k, m

LEMMA FencedByToken ==
    ASSUME NEW f \in Fences, NEW token
    PROVE  FenceStep(f, token) \in Fences
  <1>. DEFINE S == Seq(Int)
              B == BOOLEAN
              x == token = "nl"
              Type == [stack : S, ticks : Nat, tildes : Nat, lineStart : B]
  <1>1. f \in Type /\ flushPending(f) \in Type /\ x \in B
    BY FencesFlushed DEF Fences
  <1>. HIDE DEF S, B, x
  <1>2. \A g \in Type : [g EXCEPT !.ticks = @ + 1] \in Type /\ [g EXCEPT !.tildes = @ + 1] \in Type
                        /\ [g EXCEPT !.lineStart = x] \in Type
    BY <1>1
  <1>. HIDE DEF Type
  <1>3. CASE token = "fence"
    BY <1>1, <1>2, <1>3 DEF FenceStep, Type, Fences, S, B
  <1>4. CASE token = "tilde"
    BY <1>1, <1>2, <1>4 DEF FenceStep, Type, Fences, S, B
  <1>5. CASE token \notin {"fence", "tilde"}
    <2>1. FenceStep(f, token) = [flushPending(f) EXCEPT !.lineStart = x]
      BY <1>5 DEF FenceStep, x
    <2>. QED BY <1>1, <1>2, <2>1 DEF Type, Fences, S, B
  <1>. QED BY <1>3, <1>4, <1>5

LEMMA FencesSimulated ==
    ASSUME NEW W, NEW s \in Seq(W), NEW f \in Fences
    PROVE  simulateCodeFenceState(f, s) \in Fences
  <1>. DEFINE n == Len(s)
              F == [p \in (1..n) \X Fences |-> FenceStep(p[2], s[p[1]])]
              Rec(h) == h = [i \in 0..n |-> IF i = 0 THEN f ELSE FenceStep(h[i - 1], s[i])]
  <1>1. n \in Nat
    BY Members
  <1>2. F \in [(1..n) \X Fences -> Fences] /\ \A i \in 1..n, x \in Fences : F[<<i, x>>] = FenceStep(x, s[i])
    BY FencedByToken
  <1>. HIDE DEF F, n
  <1>3. PICK g \in [0..n -> Fences] : Runs(f, F, n, g)
    BY <1>1, <1>2, RunsExist
  <1>4. Rec(g)
    <2>1. ASSUME NEW i \in 0..n PROVE g[i] = IF i = 0 THEN f ELSE FenceStep(g[i - 1], s[i])
      <3>1. i # 0 => i \in 1..n /\ i - 1 \in 0..n
        BY <1>1
      <3>. QED BY <1>2, <1>3, <3>1 DEF Runs
    <2>. QED BY <1>3, <2>1
  <1>5. PICK h : Rec(h) /\ simulateCodeFenceState(f, s) = h[n]
    BY <1>4 DEF simulateCodeFenceState, n
  <1>6. Follows(Fences, f, F, n, h)
    <2>1. h[0] = f
      BY <1>1, <1>5
    <2>2. ASSUME NEW i \in 1..n, h[i - 1] \in Fences PROVE h[i] = FenceStep(h[i - 1], s[i])
      <3>1. i \in 0..n /\ i # 0
        BY <1>1
      <3>. QED BY <1>5, <3>1
    <2>. QED BY <1>2, <2>1, <2>2 DEF Follows
  <1>7. n \in 0..n
    BY <1>1
  <1>8. \A i \in 0..n : h[i] \in Fences
    <2>. HIDE DEF Rec
    <2>. QED BY <1>1, <1>2, <1>6, RunsTyped
  <1>. QED BY <1>5, <1>7, <1>8

-----------------------------------------------------------------------------
\* What is judged of a capture

Judgements(W) == [ready : BOOLEAN, prefix : Seq(W), calls : Nat, suffix : Seq(W)]
Captures(W) == [at : Nat, before : Seq(W), text : Seq(W), after : Seq(W), parsed : Parsed]

LEMMA JudgedTyped ==
    ASSUME NEW W, NEW p \in Seq(W), NEW n \in Nat, NEW q \in Seq(W)
    PROVE  Judged(p, n, q) \in Judgements(W) /\ NotReady \in Judgements(W)
  <1>1. <<>> \in Seq(W)
    BY EmptySeq
  <1>. QED BY <1>1 DEF Judged, NotReady, Judgements

LEMMA FenceTrimmed ==
    ASSUME NEW W, NEW p \in Seq(W), NEW n \in Nat, NEW q \in Seq(W)
    PROVE  trimWrappingJSONFence(p, n, q) \in Judgements(W)
  <1>. DEFINE a == WithoutEndLines(p)
              b == WithoutStartLines(q)
              P == {0} \union {i \in DOMAIN p : p[i] # "nl"}
              Q == {i \in DOMAIN q : q[i] # "nl"} \union {Len(q) + 1}
  <1>1. Len(p) \in Nat /\ DOMAIN p = 1..Len(p) /\ Len(q) \in Nat /\ DOMAIN q = 1..Len(q)
    BY Members
  <1>2. a \in Seq(W)
    <2>1. P \in SUBSET (0..Len(p)) /\ P # {}
      BY <1>1
    <2>. HIDE DEF P
    <2>0. \A x \in P : x \in Int /\ x <= Len(p)
      BY <1>1, <2>1
    <2>2. Greatest(P) \in P
      BY <1>1, <2>1, GreatestIs
    <2>3. Greatest(P) \in Int /\ Greatest(P) <= Len(p)
      BY <2>0, <2>2
    <2>4. SubSeq(p, 1, Greatest(P)) \in Seq(W)
      BY <2>3, Cut
    <2>. QED BY <2>4 DEF WithoutEndLines, P, a
  <1>3. b \in Seq(W)
    <2>1. Q \in SUBSET (0..(Len(q) + 1)) /\ Q # {} /\ Len(q) + 1 \in Nat /\ \A x \in Q : x > 0
      BY <1>1
    <2>. HIDE DEF Q
    <2>0. \A x \in Q : x \in Nat /\ x > 0
      BY <1>1, <2>1
    <2>2. Least(Q) \in Q
      BY <2>1, LeastIs
    <2>3. Least(Q) \in Nat /\ Least(Q) > 0
      BY <2>0, <2>2
    <2>4. From(q, Least(Q)) \in Seq(W)
      BY <2>3, FromThere
    <2>. QED BY <2>4 DEF WithoutStartLines, Q, b
  <1>. HIDE DEF a, b, P, Q
  <1>4. SubSeq(a, 1, Len(a) - 1) \in Seq(W) /\ From(b, 2) \in Seq(W)
    <2>1. Len(a) - 1 \in Int /\ Len(a) - 1 <= Len(a)
      BY <1>2, Members
    <2>2. SubSeq(a, 1, Len(a) - 1) \in Seq(W)
      BY <1>2, <2>1, Cut
    <2>3. 2 \in Nat /\ 2 > 0
      OBVIOUS
    <2>4. From(b, 2) \in Seq(W)
      BY <1>3, <2>3, FromThere
    <2>. QED BY <2>2, <2>4
  <1>5. Judged(SubSeq(a, 1, Len(a) - 1), n, From(b, 2)) \in Judgements(W) /\ Judged(p, n, q) \in Judgements(W)
    BY <1>4, JudgedTyped
  <1>. QED BY <1>5 DEF trimWrappingJSONFence, a, b

LEMMA BlockJudged ==
    ASSUME NEW W, NEW b \in Captures(W)
    PROVE  JudgeBlock(b) \in Judgements(W)
  <1>1. b.before \in Seq(W) /\ b.text \in Seq(W) /\ b.after \in Seq(W) /\ b.parsed.calls \in Nat /\ <<>> \in Seq(W)
    BY EmptySeq DEF Captures, Parsed
  <1>2. trimWrappingJSONFence(b.before, b.parsed.calls, b.after) \in Judgements(W)
    BY <1>1, FenceTrimmed
  <1>3. b.before \o (IF b.parsed.saw THEN <<>> ELSE b.text) \in Seq(W)
    BY <1>1, Joined
  <1>4. Judged(b.before \o (IF b.parsed.saw THEN <<>> ELSE b.text), 0, b.after) \in Judgements(W)
    BY <1>1, <1>3, JudgedTyped
  <1>. QED BY <1>2, <1>4 DEF JudgeBlock

LEMMA FirstExists ==
    ASSUME NEW bs, bs # {}, \A b \in bs : b.at \in Nat
    PROVE  TheFirst(bs) \in bs
  <1>. DEFINE A == {b.at : b \in bs}
  <1>1. A \in SUBSET Nat /\ A # {}
    OBVIOUS
  <1>2. PICK x \in A : \A y \in A : ~(y < x)
    <2>. HIDE DEF A
    <2>. QED BY <1>1, LeastNumber
  <1>3. PICK b \in bs : x = b.at
    BY <1>2
  <1>4. \A u \in bs : b.at <= u.at
    <2>1. ASSUME NEW u \in bs PROVE b.at <= u.at
      <3>1. u.at \in A /\ u.at \in Nat /\ x \in Nat
        BY <1>3
      <3>. HIDE DEF A
      <3>. QED BY <1>2, <1>3, <3>1
    <2>. QED BY <2>1
  <1>5. b \in FirstOf(bs)
    BY <1>4 DEF FirstOf
  <1>. QED BY <1>5 DEF TheFirst

LEMMA WrappersJudged ==
    ASSUME NEW W, NEW opens, opens # {}, NEW closed \in SUBSET Captures(W)
    PROVE  JudgeWrappers(opens, closed) \in Judgements(W)
  <1>. DEFINE some == {b \in closed : b.parsed.calls > 0}
  <1>1. \A b \in closed : b.at \in Nat
    BY DEF Captures
  <1>2. ASSUME some # {} PROVE JudgeBlock(TheFirst(some)) \in Judgements(W)
    <2>1. TheFirst(some) \in some
      BY <1>1, <1>2, FirstExists
    <2>2. TheFirst(some) \in Captures(W)
      BY <2>1
    <2>. QED BY <2>2, BlockJudged
  <1>3. ASSUME closed # {} PROVE JudgeBlock(TheFirst(closed)) \in Judgements(W)
    <2>1. TheFirst(closed) \in Captures(W)
      BY <1>1, <1>3, FirstExists
    <2>. QED BY <2>1, BlockJudged
  <1>4. NotReady \in Judgements(W)
    BY EmptySeq, JudgedTyped
  <1>5. opens = {b.at : b \in closed} => closed # {}
    OBVIOUS
  <1>6. CASE \E b \in closed : b.parsed.calls > 0
    <2>1. ~\A b \in closed : b.parsed.calls = 0
      BY <1>6
    <2>. QED BY <1>2, <1>6, <2>1 DEF JudgeWrappers
  <1>7. CASE ~\E b \in closed : b.parsed.calls > 0
    BY <1>3, <1>4, <1>5, <1>7 DEF JudgeWrappers
  <1>. QED BY <1>6, <1>7

LEMMA BareJudged ==
    ASSUME NEW W, NEW bs \in SUBSET Captures(W)
    PROVE  JudgeBareInvokes(bs) \in Judgements(W)
  <1>1. NotReady \in Judgements(W)
    BY EmptySeq, JudgedTyped
  <1>2. ASSUME bs # {} PROVE JudgeBlock(TheFirst(bs)) \in Judgements(W)
    <2>1. \A b \in bs : b.at \in Nat
      BY DEF Captures
    <2>2. TheFirst(bs) \in Captures(W)
      BY <1>2, <2>1, FirstExists
    <2>. QED BY <2>2, BlockJudged
  <1>. QED BY <1>1, <1>2 DEF JudgeBareInvokes

LEMMA BlockTyped ==
    ASSUME NEW W, NEW s \in Seq(W), NEW a \in 1..Len(s), NEW z \in 1..Len(s), NEW parsed \in Parsed
    PROVE  BlockOf(s, a, z, parsed) \in Captures(W)
  <1>1. Len(s) \in Nat /\ a \in Nat /\ a > 0 /\ a - 1 \in Int /\ a - 1 <= Len(s) /\ z \in Int /\ z <= Len(s) /\ z + 1 \in Nat /\ z + 1 > 0
    BY Members
  <1>2. SubSeq(s, 1, a - 1) \in Seq(W)
    BY <1>1, Cut
  <1>3. SubSeq(s, a, z) \in Seq(W)
    BY <1>1, Cut
  <1>4. From(s, z + 1) \in Seq(W)
    BY <1>1, FromThere
  <1>. QED BY <1>1, <1>2, <1>3, <1>4 DEF BlockOf, Captures

LEMMA WrapperBlocks ==
    ASSUME NEW W, NEW s \in Seq(W)
    PROVE  ClosedWrappers(s) \in SUBSET Captures(W)
  <1>1. ASSUME NEW p \in Spans(s, "tool_calls")
        PROVE  BlockOf(s, p[1].at, p[2].end, ParseStandaloneToolCallsDetailed(SubSeq(s, p[1].at, p[2].end))) \in Captures(W)
    <2>1. p[1].at \in 1..Len(s) /\ p[2].end \in 1..Len(s)
      BY SpansInPlace, TagsInPlace
    <2>2. Len(s) \in Nat /\ p[1].at \in Nat /\ p[1].at > 0 /\ p[2].end \in Int /\ p[2].end <= Len(s)
      BY <2>1, Members
    <2>3. SubSeq(s, p[1].at, p[2].end) \in Seq(W)
      BY <2>2, Cut
    <2>4. ParseStandaloneToolCallsDetailed(SubSeq(s, p[1].at, p[2].end)) \in Parsed
      BY <2>3, Standalone
    <2>. QED BY <2>1, <2>4, BlockTyped
  <1>. QED BY <1>1 DEF ClosedWrappers

LEMMA BareBlocks ==
    ASSUME NEW W, NEW s \in Seq(W)
    PROVE  BareInvokes(s) \in SUBSET Captures(W)
  <1>. DEFINE V == W \union {"tc1", "tc2"}
              P(i, c) == ParseStandaloneToolCallsDetailed(<<"tc1", "tc2">> \o SubSeq(s, i.at, c.end))
  <1>1. ASSUME NEW i \in FirstNamed(s, "invoke", FALSE, 1), NEW c \in FirstNamed(s, "tool_calls", TRUE, i.at + 1)
        PROVE  BlockOf(s, i.at, c.end, P(i, c)) \in Captures(W)
    <2>1. i.at \in 1..Len(s) /\ c.end \in 1..Len(s)
      BY TagsInPlace DEF FirstNamed, FirstOf
    <2>2. Len(s) \in Nat /\ i.at \in Nat /\ i.at > 0 /\ c.end \in Int /\ c.end <= Len(s)
      BY <2>1, Members
    <2>3. SubSeq(s, i.at, c.end) \in Seq(W)
      BY <2>2, Cut
    <2>4. SubSeq(s, i.at, c.end) \in Seq(V) /\ <<"tc1", "tc2">> \in Seq(V)
      BY <2>3, SeqMonotonic
    <2>. HIDE DEF V
    <2>5. <<"tc1", "tc2">> \o SubSeq(s, i.at, c.end) \in Seq(V)
      BY <2>4, Joined
    <2>6. P(i, c) \in Parsed
      BY <2>5, Standalone
    <2>. QED BY <2>1, <2>6, BlockTyped
  <1>2. ASSUME NEW b \in BareInvokes(s) PROVE b \in Captures(W)
    <2>1. PICK i \in FirstNamed(s, "invoke", FALSE, 1) :
                b \in {BlockOf(s, i.at, c.end, P(i, c)) : c \in FirstNamed(s, "tool_calls", TRUE, i.at + 1)}
      BY <1>2 DEF BareInvokes
    <2>. HIDE DEF P
    <2>. QED BY <1>1, <2>1
  <1>. QED BY <1>2

LEMMA CaptureJudged ==
    ASSUME NEW W, NEW s \in Seq(W)
    PROVE  consumeXMLToolCapture(s) \in Judgements(W) /\ consumeToolCapture(s) \in Judgements(W)
  <1>1. consumeXMLToolCapture(s) \in Judgements(W)
    <2>. DEFINE opens == {t.at : t \in OpenWrappers(s)}
    <2>1. OpenWrappers(s) # {} => opens # {}
      OBVIOUS
    <2>. HIDE DEF opens
    <2>2. OpenWrappers(s) # {} => JudgeWrappers(opens, ClosedWrappers(s)) \in Judgements(W)
      BY <2>1, WrapperBlocks, WrappersJudged
    <2>3. JudgeBareInvokes(BareInvokes(s)) \in Judgements(W)
      BY BareBlocks, BareJudged
    <2>. QED BY <2>2, <2>3 DEF consumeXMLToolCapture, opens
  <1>2. Judged(s, 0, <<>>) \in Judgements(W) /\ NotReady \in Judgements(W)
    BY EmptySeq, JudgedTyped
  <1>. QED BY <1>1, <1>2 DEF consumeToolCapture, OrHeld

-----------------------------------------------------------------------------
\* The sieve

SiftEvents(W) == [text : Seq(W), calls : Nat]
Sieves(W) == [pending : Seq(W), capture : Seq(W), capturing : BOOLEAN, calls : Nat, fences : Fences,
              events : Seq(SiftEvents(W))]

LEMMA NewSieveTyped ==
    ASSUME NEW W
    PROVE  NewSieve \in Sieves(W)
  <1>1. <<>> \in Seq(W) /\ <<>> \in Seq(SiftEvents(W)) /\ <<>> \in Seq(Int)
    BY EmptySeq
  <1>2. NoFences \in Fences
    BY <1>1 DEF NoFences, Fences
  <1>. QED BY <1>1, <1>2 DEF NewSieve, Sieves

\* Records like the sieve's whose fields are of any sets.
LEMMA SieveUpdates ==
    ASSUME NEW P, NEW C, NEW B, NEW N, NEW F, NEW E,
           NEW st \in [pending : P, capture : C, capturing : B, calls : N, fences : F, events : E],
           NEW p \in P, NEW c \in C, NEW b \in B, NEW n \in N, NEW f \in F, NEW e \in E
    PROVE  LET R == [pending : P, capture : C, capturing : B, calls : N, fences : F, events : E]
           IN  /\ [st EXCEPT !.pending = p] \in R /\ [st EXCEPT !.events = e] \in R
               /\ [st EXCEPT !.fences = f, !.events = e] \in R
               /\ [st EXCEPT !.events = e, !.pending = p] \in R
               /\ [st EXCEPT !.capture = c, !.pending = p] \in R
               /\ [st EXCEPT !.capture = c, !.capturing = b] \in R
               /\ [st EXCEPT !.capture = c, !.capturing = b, !.pending = p] \in R
               /\ [st EXCEPT !.pending = p, !.capture = c, !.capturing = b] \in R
               /\ [st EXCEPT !.pending = p, !.calls = n] \in R
               /\ [st EXCEPT !.calls = n] \in R
  OBVIOUS

LEMMA SieveFields ==
    ASSUME NEW W, NEW st \in Sieves(W)
    PROVE  /\ st.pending \in Seq(W) /\ st.capture \in Seq(W) /\ st.capturing \in BOOLEAN /\ st.calls \in Nat
           /\ st.fences \in Fences /\ st.events \in Seq(SiftEvents(W))
  BY DEF Sieves

LEMMA TextEmitted ==
    ASSUME NEW W, NEW st \in Sieves(W), NEW s \in Seq(W)
    PROVE  EmitText(st, s) \in Sieves(W)
  <1>. DEFINE f == noteText(st.fences, s)
              e == Append(st.events, [text |-> s, calls |-> 0])
  <1>1. f \in Fences
    BY SieveFields, FencesSimulated DEF noteText
  <1>2. e \in Seq(SiftEvents(W))
    <2>1. [text |-> s, calls |-> 0] \in SiftEvents(W)
      BY DEF SiftEvents
    <2>. QED BY <2>1, SieveFields, AppendProperties
  <1>3. EmitText(st, s) = st \/ EmitText(st, s) = [st EXCEPT !.fences = f, !.events = e]
    BY DEF EmitText
  <1>. HIDE DEF f, e
  <1>4. [st EXCEPT !.fences = f, !.events = e] \in Sieves(W)
    BY <1>1, <1>2, SieveFields, SieveUpdates DEF Sieves
  <1>. QED BY <1>3, <1>4

LEMMA CallsEmitted ==
    ASSUME NEW W, NEW st \in Sieves(W), NEW n \in Nat
    PROVE  EmitCalls(st, n) \in Sieves(W)
  <1>. DEFINE e == Append(st.events, [text |-> <<>>, calls |-> n])
  <1>1. e \in Seq(SiftEvents(W))
    <2>1. [text |-> <<>>, calls |-> n] \in SiftEvents(W)
      BY EmptySeq DEF SiftEvents
    <2>. QED BY <2>1, SieveFields, AppendProperties
  <1>2. EmitCalls(st, n) = st \/ EmitCalls(st, n) = [st EXCEPT !.events = e]
    BY DEF EmitCalls
  <1>. HIDE DEF e
  <1>3. [st EXCEPT !.events = e] \in Sieves(W)
    BY <1>1, SieveFields, SieveUpdates DEF Sieves
  <1>. QED BY <1>2, <1>3

LEMMA CallsPassed ==
    ASSUME NEW W, NEW st \in Sieves(W)
    PROVE  PassCalls(st) \in Sieves(W)
  <1>. DEFINE q == EmitCalls(st, st.calls)
  <1>1. q \in Sieves(W)
    BY SieveFields, CallsEmitted
  <1>. HIDE DEF q
  <1>2. [q EXCEPT !.calls = 0] \in Sieves(W)
    BY <1>1, SieveFields, SieveUpdates DEF Sieves
  <1>. QED BY <1>2 DEF PassCalls, q

LEMMA SegmentStarts ==
    ASSUME NEW W, NEW s \in Seq(W), NEW P \in SUBSET (1..Len(s))
    PROVE  LeastOrZero(P) \in 0..Len(s)
  <1>1. Len(s) \in Nat /\ P \in SUBSET (0..Len(s))
    BY Members
  <1>2. P # {} => Least(P) \in 0..Len(s)
    BY <1>1, LeastIs
  <1>. QED BY <1>1, <1>2 DEF LeastOrZero

LEMMA CapturedTyped ==
    ASSUME NEW W, NEW st \in Sieves(W), NEW s \in Seq(W), NEW j \in Judgements(W)
    PROVE  Captured(st, s, j) \in Sieves(W)
  <1>. DEFINE a == [st EXCEPT !.capture = <<>>, !.capturing = FALSE, !.pending = <<>>]
              q == EmitText(a, j.prefix)
              n == IF j.calls > 0 THEN j.calls ELSE q.calls
              z == [q EXCEPT !.pending = j.suffix, !.calls = n]
              k == [st EXCEPT !.capture = s, !.pending = <<>>]
  <1>1. j.prefix \in Seq(W) /\ j.calls \in Nat /\ j.suffix \in Seq(W) /\ <<>> \in Seq(W) /\ FALSE \in BOOLEAN
    BY EmptySeq DEF Judgements
  <1>2. a \in Sieves(W) /\ k \in Sieves(W)
    BY <1>1, SieveFields, SieveUpdates DEF Sieves
  <1>. HIDE DEF a
  <1>3. q \in Sieves(W)
    BY <1>1, <1>2, TextEmitted
  <1>. HIDE DEF q
  <1>4. n \in Nat
    BY <1>1, <1>3, SieveFields
  <1>. HIDE DEF n
  <1>5. z \in Sieves(W)
    BY <1>1, <1>3, <1>4, SieveFields, SieveUpdates DEF Sieves
  <1>. QED BY <1>2, <1>5 DEF Captured, a, q, n

LEMMA ScannedTyped ==
    ASSUME NEW W, NEW st \in Sieves(W), NEW s \in Seq(W), NEW begin \in 0..Len(s),
           NEW safe \in Int, safe <= Len(s), safe >= 0
    PROVE  Scanned(st, s, begin, safe) \in Sieves(W)
  <1>. DEFINE a == [st EXCEPT !.pending = <<>>]
              q == EmitText(a, SubSeq(s, 1, begin - 1))
              y == [q EXCEPT !.capture = From(s, begin), !.capturing = TRUE]
              b == [st EXCEPT !.pending = From(s, safe + 1)]
              z == EmitText(b, SubSeq(s, 1, safe))
  <1>1. Len(s) \in Nat /\ <<>> \in Seq(W) /\ TRUE \in BOOLEAN /\ begin - 1 \in Int /\ begin - 1 <= Len(s) /\ begin \in Nat
        /\ safe + 1 \in Nat /\ safe + 1 > 0
    BY Members, EmptySeq
  <1>2. SubSeq(s, 1, begin - 1) \in Seq(W)
    BY <1>1, Cut
  <1>3. begin > 0 => From(s, begin) \in Seq(W)
    BY <1>1, FromThere
  <1>4. SubSeq(s, 1, safe) \in Seq(W)
    BY <1>1, Cut
  <1>5. From(s, safe + 1) \in Seq(W)
    BY <1>1, FromThere
  <1>6. a \in Sieves(W) /\ b \in Sieves(W)
    BY <1>1, <1>5, SieveFields, SieveUpdates DEF Sieves
  <1>. HIDE DEF a, b
  <1>7. q \in Sieves(W) /\ z \in Sieves(W)
    BY <1>2, <1>4, <1>6, TextEmitted
  <1>. HIDE DEF q, z
  <1>8. begin > 0 => y \in Sieves(W)
    BY <1>1, <1>3, <1>7, SieveFields, SieveUpdates DEF Sieves
  <1>. HIDE DEF y
  <1>. QED BY <1>7, <1>8 DEF Scanned, a, b, q, y, z

LEMMA OneSift ==
    ASSUME NEW W, NEW st \in Sieves(W)
    PROVE  SiftStep(st) \in Sieves(W)
  <1>. DEFINE s == st.capture \o st.pending
              p == st.pending
              begin == findToolSegmentStart(st, p)
              safe == splitSafeContentForToolDetection(st, p)
  <1>1. s \in Seq(W) /\ p \in Seq(W)
    BY SieveFields, Joined
  <1>2. Captured(st, s, consumeToolCapture(s)) \in Sieves(W)
    <2>. HIDE DEF s
    <2>. QED BY <1>1, CaptureJudged, CapturedTyped
  <1>3. begin \in 0..Len(p)
    <2>. DEFINE P == {i \in DOMAIN p : (WrapperAt(p, i) \/ p[i] = "inv")
                                  /\ ~insideCodeFenceWithState(st, SubSeq(p, 1, i - 1))}
    <2>1. P \in SUBSET (1..Len(p))
      BY <1>1, Members
    <2>. HIDE DEF P
    <2>2. LeastOrZero(P) \in 0..Len(p)
      BY <1>1, <2>1, SegmentStarts
    <2>. QED BY <2>2 DEF findToolSegmentStart, P
  <1>4. p # <<>> => safe \in Int /\ safe <= Len(p) /\ safe >= 0
    <2>1. p # <<>> => Len(p) \in Nat /\ Len(p) > 0
      <3>. HIDE DEF p
      <3>. QED BY <1>1, EmptySeq, LenProperties
    <2>. HIDE DEF p
    <2>. QED BY <2>1 DEF splitSafeContentForToolDetection
  <1>. HIDE DEF begin, safe, p
  <1>5. p # <<>> => Scanned(st, p, begin, safe) \in Sieves(W)
    BY <1>1, <1>3, <1>4, ScannedTyped
  <1>. QED BY <1>2, <1>5 DEF SiftStep, begin, safe, p

Waits(W) == [sieve : Sieves(W), waits : BOOLEAN]

LEMMA SteppedTyped ==
    ASSUME NEW W, NEW st, NEW q \in Sieves(W)
    PROVE  Stepped(st, q) \in Waits(W)
  BY DEF Stepped, Waits

LEMMA Sifting ==
    ASSUME NEW W, NEW st \in Sieves(W)
    PROVE  Sift(st) \in Sieves(W)
  <1>. DEFINE T == Waits(W)
              n == Steps(st)
              e == Stepped(st, SiftStep(st))
              Next(x) == IF x.waits THEN x ELSE Stepped(x.sieve, SiftStep(x.sieve))
              F == [p \in (1..n) \X T |-> Next(p[2])]
              Rec(h) == h = [i \in 0..n |-> IF i = 0 THEN e ELSE Next(h[i - 1])]
  <1>1. n \in Nat
    <2>1. \A a, b \in Nat : 2 * (a + b) + 2 \in Nat
      OBVIOUS
    <2>2. Len(st.capture) \in Nat /\ Len(st.pending) \in Nat
      BY SieveFields, Members
    <2>. QED BY <2>1, <2>2 DEF Steps
  <1>2. e \in T
    BY OneSift, SteppedTyped
  <1>3. \A x \in T : Next(x) \in T
    <2>1. ASSUME NEW x \in T PROVE Next(x) \in T
      <3>1. x.sieve \in Sieves(W)
        BY DEF Waits
      <3>2. Stepped(x.sieve, SiftStep(x.sieve)) \in T
        BY <3>1, OneSift, SteppedTyped
      <3>. HIDE DEF T
      <3>. QED BY <3>2
    <2>. QED BY <2>1
  <1>4. F \in [(1..n) \X T -> T] /\ \A i \in 1..n, x \in T : F[<<i, x>>] = Next(x)
    <2>. HIDE DEF Next, T, n
    <2>. QED BY <1>3
  <1>. HIDE DEF F, n, T, e
  <1>5. PICK g \in [0..n -> T] : Runs(e, F, n, g)
    BY <1>1, <1>2, <1>4, RunsExist
  <1>6. Rec(g)
    <2>1. ASSUME NEW i \in 0..n PROVE g[i] = IF i = 0 THEN e ELSE Next(g[i - 1])
      <3>1. i # 0 => i \in 1..n /\ i - 1 \in 0..n
        BY <1>1
      <3>. HIDE DEF Next
      <3>. QED BY <1>4, <1>5, <3>1 DEF Runs
    <2>. HIDE DEF Next
    <2>. QED BY <1>5, <2>1
  <1>7. PICK h : Rec(h) /\ Sift(st) = h[n].sieve
    BY <1>6 DEF Sift, n, e
  <1>8. Follows(T, e, F, n, h)
    <2>. HIDE DEF Next
    <2>1. h[0] = e
      BY <1>1, <1>7
    <2>2. ASSUME NEW i \in 1..n, h[i - 1] \in T PROVE h[i] = Next(h[i - 1])
      <3>1. i \in 0..n /\ i # 0
        BY <1>1
      <3>. QED BY <1>7, <3>1
    <2>. QED BY <1>4, <2>1, <2>2 DEF Follows
  <1>9. n \in 0..n
    BY <1>1
  <1>10. \A i \in 0..n : h[i] \in T
    <2>. HIDE DEF Rec, Next
    <2>. QED BY <1>1, <1>2, <1>4, <1>8, RunsTyped
  <1>. QED BY <1>7, <1>9, <1>10 DEF T, Waits

LEMMA ChunkProcessed ==
    ASSUME NEW W, NEW st \in Sieves(W), NEW s \in Seq(W)
    PROVE  ProcessChunk(st, s) \in Sieves(W)
  <1>. DEFINE p == st.pending \o s
              q == [st EXCEPT !.events = <<>>, !.pending = p]
  <1>1. p \in Seq(W) /\ <<>> \in Seq(SiftEvents(W))
    BY SieveFields, Joined, EmptySeq
  <1>2. q = [st EXCEPT !.events = <<>>, !.pending = @ \o s]
    BY DEF Sieves
  <1>. HIDE DEF p
  <1>3. q \in Sieves(W)
    BY <1>1, SieveFields, SieveUpdates DEF Sieves
  <1>. HIDE DEF q
  <1>4. Sift(PassCalls(q)) \in Sieves(W)
    BY <1>3, CallsPassed, Sifting
  <1>. QED BY <1>2, <1>4 DEF ProcessChunk

LEMMA AllLetOut ==
    ASSUME NEW W, NEW st \in Sieves(W), NEW j \in Judgements(W)
    PROVE  LetOut(st, j) \in Sieves(W)
  <1>1. j.prefix \in Seq(W) /\ j.calls \in Nat /\ j.suffix \in Seq(W)
    BY DEF Judgements
  <1>. QED BY <1>1, TextEmitted, CallsEmitted DEF LetOut

LEMMA PendingLetOut ==
    ASSUME NEW W, NEW st \in Sieves(W)
    PROVE  PendingOut(st) \in Sieves(W)
  <1>. DEFINE q == EmitText(st, st.pending)
  <1>1. q \in Sieves(W) /\ <<>> \in Seq(W) /\ FALSE \in BOOLEAN
    BY SieveFields, TextEmitted, EmptySeq
  <1>. HIDE DEF q
  <1>2. [q EXCEPT !.pending = <<>>, !.capture = <<>>, !.capturing = FALSE] \in Sieves(W)
    BY <1>1, SieveFields, SieveUpdates DEF Sieves
  <1>. QED BY <1>2 DEF PendingOut, q

LEMMA AllFlushed ==
    ASSUME NEW W, NEW st \in Sieves(W)
    PROVE  Flush(st) \in Sieves(W)
  <1>. DEFINE q == PassCalls(ProcessChunk(st, <<>>))
              z == SanitizeLooseCDATA(q.capture)
  <1>1. q \in Sieves(W)
    BY EmptySeq, ChunkProcessed, CallsPassed
  <1>. HIDE DEF q
  <1>2. q.capture \in Seq(W) /\ z \in Seq(W)
    BY <1>1, SieveFields, Sanitized
  <1>. HIDE DEF z
  <1>3. consumeXMLToolCapture(z) \in Judgements(W) /\ consumeToolCapture(q.capture) \in Judgements(W)
    BY <1>2, CaptureJudged
  <1>4. EmitText(q, q.capture) \in Sieves(W)
    BY <1>1, <1>2, TextEmitted
  <1>5. OrSanitizedCapture(q, consumeXMLToolCapture(z)) \in Sieves(W)
    BY <1>1, <1>3, <1>4, AllLetOut DEF OrSanitizedCapture
  <1>6. FlushCapture(q, consumeToolCapture(q.capture)) \in Sieves(W)
    BY <1>1, <1>3, <1>4, <1>5, AllLetOut DEF FlushCapture, z
  <1>7. FlushSifted(q) \in Sieves(W)
    BY <1>1, <1>6, PendingLetOut DEF FlushSifted
  <1>. QED BY <1>7 DEF Flush, q

-----------------------------------------------------------------------------
\* What is picked of a text, and what is cleaned away

LEMMA ThinkTagsStripped ==
    ASSUME NEW W, NEW s \in Seq(W)
    PROVE  stripThinkTags(s) \in Seq(W)
  <1>. DEFINE T == Seq(W)
              n == Len(s)
              Next(i, x) == IF s[i] \notin {"th", "/th"} THEN Append(x, s[i]) ELSE x
              F == [p \in (1..n) \X T |-> Next(p[1], p[2])]
              Rec(h) == h = [i \in 0..n |-> IF i = 0 THEN <<>> ELSE Next(i, h[i - 1])]
  <1>1. n \in Nat /\ <<>> \in T
    BY Members, EmptySeq
  <1>2. ASSUME NEW i \in 1..n, NEW x \in T PROVE Next(i, x) \in T
    <2>1. s[i] \in W
      BY <1>1, Members
    <2>. QED BY <2>1, AppendProperties
  <1>. HIDE DEF Next, T, n
  <1>3. F \in [(1..n) \X T -> T] /\ \A i \in 1..n, x \in T : F[<<i, x>>] = Next(i, x)
    BY <1>2
  <1>. HIDE DEF F
  <1>4. PICK g \in [0..n -> T] : Runs(<<>>, F, n, g)
    BY <1>1, <1>3, RunsExist
  <1>5. Rec(g)
    <2>1. ASSUME NEW i \in 0..n PROVE g[i] = IF i = 0 THEN <<>> ELSE Next(i, g[i - 1])
      <3>1. i # 0 => i \in 1..n /\ i - 1 \in 0..n
        BY <1>1
      <3>. QED BY <1>3, <1>4, <3>1 DEF Runs
    <2>. QED BY <1>4, <2>1
  <1>6. PICK h : Rec(h) /\ stripThinkTags(s) = h[n]
    BY <1>5 DEF stripThinkTags, Picked, Over, Next, n
  <1>7. Follows(T, <<>>, F, n, h)
    <2>1. h[0] = <<>>
      BY <1>1, <1>6
    <2>2. ASSUME NEW i \in 1..n, h[i - 1] \in T PROVE h[i] = Next(i, h[i - 1])
      <3>1. i \in 0..n /\ i # 0
        BY <1>1
      <3>. QED BY <1>6, <3>1
    <2>. QED BY <1>3, <2>1, <2>2 DEF Follows
  <1>8. n \in 0..n
    BY <1>1
  <1>. HIDE DEF Rec
  <1>9. \A i \in 0..n : h[i] \in T
    BY <1>1, <1>3, <1>7, RunsTyped
  <1>. QED BY <1>6, <1>8, <1>9 DEF T

Unmarked(s) == Picked(s, LAMBDA t : t # "ref")

LEMMA MarkersStripped ==
    ASSUME NEW W, NEW s \in Seq(W)
    PROVE  Unmarked(s) \in Seq(W)
  <1>. DEFINE T == Seq(W)
              n == Len(s)
              Next(i, x) == IF s[i] # "ref" THEN Append(x, s[i]) ELSE x
              F == [p \in (1..n) \X T |-> Next(p[1], p[2])]
              Rec(h) == h = [i \in 0..n |-> IF i = 0 THEN <<>> ELSE Next(i, h[i - 1])]
  <1>1. n \in Nat /\ <<>> \in T
    BY Members, EmptySeq
  <1>2. ASSUME NEW i \in 1..n, NEW x \in T PROVE Next(i, x) \in T
    <2>1. s[i] \in W
      BY <1>1, Members
    <2>. QED BY <2>1, AppendProperties
  <1>. HIDE DEF Next, T, n
  <1>3. F \in [(1..n) \X T -> T] /\ \A i \in 1..n, x \in T : F[<<i, x>>] = Next(i, x)
    BY <1>2
  <1>. HIDE DEF F
  <1>4. PICK g \in [0..n -> T] : Runs(<<>>, F, n, g)
    BY <1>1, <1>3, RunsExist
  <1>5. Rec(g)
    <2>1. ASSUME NEW i \in 0..n PROVE g[i] = IF i = 0 THEN <<>> ELSE Next(i, g[i - 1])
      <3>1. i # 0 => i \in 1..n /\ i - 1 \in 0..n
        BY <1>1
      <3>. QED BY <1>3, <1>4, <3>1 DEF Runs
    <2>. QED BY <1>4, <2>1
  <1>6. PICK h : Rec(h) /\ Unmarked(s) = h[n]
    BY <1>5 DEF Unmarked, Picked, Over, Next, n
  <1>7. Follows(T, <<>>, F, n, h)
    <2>1. h[0] = <<>>
      BY <1>1, <1>6
    <2>2. ASSUME NEW i \in 1..n, h[i - 1] \in T PROVE h[i] = Next(i, h[i - 1])
      <3>1. i \in 0..n /\ i # 0
        BY <1>1
      <3>. QED BY <1>6, <3>1
    <2>. QED BY <1>3, <2>1, <2>2 DEF Follows
  <1>8. n \in 0..n
    BY <1>1
  <1>. HIDE DEF Rec
  <1>9. \A i \in 0..n : h[i] \in T
    BY <1>1, <1>3, <1>7, RunsTyped
  <1>. QED BY <1>6, <1>8, <1>9 DEF T

LEMMA ThinkingSelected ==
    ASSUME NEW W, NEW s \in Seq(W)
    PROVE  selectThinkingParts(s) \in Seq(W)
  <1>. DEFINE T == Seq(W)
              n == Len(s)
              Next(i, x) == IF s[i].type = "thinking" THEN Append(x, s[i]) ELSE x
              F == [p \in (1..n) \X T |-> Next(p[1], p[2])]
              Rec(h) == h = [i \in 0..n |-> IF i = 0 THEN <<>> ELSE Next(i, h[i - 1])]
  <1>1. n \in Nat /\ <<>> \in T
    BY Members, EmptySeq
  <1>2. ASSUME NEW i \in 1..n, NEW x \in T PROVE Next(i, x) \in T
    <2>1. s[i] \in W
      BY <1>1, Members
    <2>. QED BY <2>1, AppendProperties
  <1>. HIDE DEF Next, T, n
  <1>3. F \in [(1..n) \X T -> T] /\ \A i \in 1..n, x \in T : F[<<i, x>>] = Next(i, x)
    BY <1>2
  <1>. HIDE DEF F
  <1>4. PICK g \in [0..n -> T] : Runs(<<>>, F, n, g)
    BY <1>1, <1>3, RunsExist
  <1>5. Rec(g)
    <2>1. ASSUME NEW i \in 0..n PROVE g[i] = IF i = 0 THEN <<>> ELSE Next(i, g[i - 1])
      <3>1. i # 0 => i \in 1..n /\ i - 1 \in 0..n
        BY <1>1
      <3>. QED BY <1>3, <1>4, <3>1 DEF Runs
    <2>. QED BY <1>4, <2>1
  <1>6. PICK h : Rec(h) /\ selectThinkingParts(s) = h[n]
    BY <1>5 DEF selectThinkingParts, Picked, Over, Next, n
  <1>7. Follows(T, <<>>, F, n, h)
    <2>1. h[0] = <<>>
      BY <1>1, <1>6
    <2>2. ASSUME NEW i \in 1..n, h[i - 1] \in T PROVE h[i] = Next(i, h[i - 1])
      <3>1. i \in 0..n /\ i # 0
        BY <1>1
      <3>. QED BY <1>6, <3>1
    <2>. QED BY <1>3, <2>1, <2>2 DEF Follows
  <1>8. n \in 0..n
    BY <1>1
  <1>. HIDE DEF Rec
  <1>9. \A i \in 0..n : h[i] \in T
    BY <1>1, <1>3, <1>7, RunsTyped
  <1>. QED BY <1>6, <1>8, <1>9 DEF T

LEMMA ThinkingDropped ==
    ASSUME NEW W, NEW s \in Seq(W)
    PROVE  dropThinkingParts(s) \in Seq(W)
  <1>. DEFINE T == Seq(W)
              n == Len(s)
              Next(i, x) == IF s[i].type # "thinking" THEN Append(x, s[i]) ELSE x
              F == [p \in (1..n) \X T |-> Next(p[1], p[2])]
              Rec(h) == h = [i \in 0..n |-> IF i = 0 THEN <<>> ELSE Next(i, h[i - 1])]
  <1>1. n \in Nat /\ <<>> \in T
    BY Members, EmptySeq
  <1>2. ASSUME NEW i \in 1..n, NEW x \in T PROVE Next(i, x) \in T
    <2>1. s[i] \in W
      BY <1>1, Members
    <2>. QED BY <2>1, AppendProperties
  <1>. HIDE DEF Next, T, n
  <1>3. F \in [(1..n) \X T -> T] /\ \A i \in 1..n, x \in T : F[<<i, x>>] = Next(i, x)
    BY <1>2
  <1>. HIDE DEF F
  <1>4. PICK g \in [0..n -> T] : Runs(<<>>, F, n, g)
    BY <1>1, <1>3, RunsExist
  <1>5. Rec(g)
    <2>1. ASSUME NEW i \in 0..n PROVE g[i] = IF i = 0 THEN <<>> ELSE Next(i, g[i - 1])
      <3>1. i # 0 => i \in 1..n /\ i - 1 \in 0..n
        BY <1>1
      <3>. QED BY <1>3, <1>4, <3>1 DEF Runs
    <2>. QED BY <1>4, <2>1
  <1>6. PICK h : Rec(h) /\ dropThinkingParts(s) = h[n]
    BY <1>5 DEF dropThinkingParts, Picked, Over, Next, n
  <1>7. Follows(T, <<>>, F, n, h)
    <2>1. h[0] = <<>>
      BY <1>1, <1>6
    <2>2. ASSUME NEW i \in 1..n, h[i - 1] \in T PROVE h[i] = Next(i, h[i - 1])
      <3>1. i \in 0..n /\ i # 0
        BY <1>1
      <3>. QED BY <1>6, <3>1
    <2>. QED BY <1>3, <2>1, <2>2 DEF Follows
  <1>8. n \in 0..n
    BY <1>1
  <1>. HIDE DEF Rec
  <1>9. \A i \in 0..n : h[i] \in T
    BY <1>1, <1>3, <1>7, RunsTyped
  <1>. QED BY <1>6, <1>8, <1>9 DEF T

LEMMA DepthsCounted ==
    ASSUME NEW W, NEW s \in Seq(W)
    PROVE  /\ \A i \in 0..Len(s) : Depths(s)[i] \in Nat
           /\ Depths(s)[0] = 0
           /\ \A i \in 1..Len(s) : Depths(s)[i - 1] = 0 /\ s[i] # "th" => Depths(s)[i] = 0
  <1>. DEFINE n == Len(s)
              Next(i, x) == CASE s[i] = "th" -> x + 1
                              [] s[i] = "/th" -> IF x = 0 THEN 0 ELSE x - 1
                              [] OTHER -> x
              F == [p \in (1..n) \X Nat |-> Next(p[1], p[2])]
              Rec(h) == h = [i \in 0..n |-> CASE i = 0 -> 0
                                              [] i > 0 /\ s[i] = "th"  -> h[i - 1] + 1
                                              [] i > 0 /\ s[i] = "/th" -> IF h[i - 1] = 0 THEN 0 ELSE h[i - 1] - 1
                                              [] OTHER -> h[i - 1]]
  <1>1. n \in Nat
    BY Members
  <1>2. ASSUME NEW i \in 1..n, NEW x \in Nat PROVE Next(i, x) \in Nat
    <2>1. CASE s[i] = "th"
      BY <2>1
    <2>2. CASE s[i] # "th"
      BY <2>2
    <2>. QED BY <2>1, <2>2
  <1>. HIDE DEF n
  <1>3. F \in [(1..n) \X Nat -> Nat] /\ \A i \in 1..n, x \in Nat : F[<<i, x>>] = Next(i, x)
    <2>. HIDE DEF Next
    <2>. QED BY <1>2
  <1>. HIDE DEF F
  <1>4. PICK g \in [0..n -> Nat] : Runs(0, F, n, g)
    BY <1>1, <1>3, RunsExist
  <1>5. ASSUME NEW h, h[0] = 0, \A i \in 1..n : h[i] = Next(i, h[i - 1]), NEW i \in 0..n
        PROVE  h[i] = CASE i = 0 -> 0
                        [] i > 0 /\ s[i] = "th"  -> h[i - 1] + 1
                        [] i > 0 /\ s[i] = "/th" -> IF h[i - 1] = 0 THEN 0 ELSE h[i - 1] - 1
                        [] OTHER -> h[i - 1]
    <2>1. CASE i = 0
      BY <1>5, <2>1
    <2>2. CASE i # 0
      <3>1. i \in 1..n /\ i > 0
        BY <1>1, <2>2
      <3>2. h[i] = Next(i, h[i - 1])
        BY <1>5, <3>1
      <3>3. CASE s[i] = "th"
        BY <2>2, <3>1, <3>2, <3>3
      <3>4. CASE s[i] = "/th"
        BY <2>2, <3>1, <3>2, <3>4
      <3>5. CASE s[i] \notin {"th", "/th"}
        BY <2>2, <3>1, <3>2, <3>5
      <3>. QED BY <3>3, <3>4, <3>5
    <2>. QED BY <2>1, <2>2
  <1>6. Rec(g)
    <2>1. g[0] = 0 /\ \A i \in 1..n : g[i] = Next(i, g[i - 1])
      <3>1. \A i \in 1..n : i - 1 \in 0..n
        BY <1>1
      <3>2. \A i \in 1..n : g[i - 1] \in Nat
        BY <1>4, <3>1
      <3>. HIDE DEF Next
      <3>. QED BY <1>3, <1>4, <3>2 DEF Runs
    <2>2. g = [i \in 0..n |-> g[i]]
      BY <1>4
    <2>. HIDE DEF Next
    <2>. QED BY <1>5, <2>1, <2>2
  <1>7. PICK h : Rec(h) /\ Depths(s) = h
    BY <1>6 DEF Depths, n
  <1>8. h[0] = 0
    BY <1>1, <1>7
  <1>9. ASSUME NEW i \in 1..n PROVE h[i] = Next(i, h[i - 1])
    <2>1. i \in 0..n /\ i # 0 /\ i > 0
      BY <1>1
    <2>2. h[i] = CASE i = 0 -> 0
                   [] i > 0 /\ s[i] = "th"  -> h[i - 1] + 1
                   [] i > 0 /\ s[i] = "/th" -> IF h[i - 1] = 0 THEN 0 ELSE h[i - 1] - 1
                   [] OTHER -> h[i - 1]
      BY <1>7, <2>1
    <2>. HIDE DEF Rec
    <2>3. CASE s[i] = "th"
      BY <2>1, <2>2, <2>3
    <2>4. CASE s[i] = "/th"
      BY <2>1, <2>2, <2>4
    <2>5. CASE s[i] \notin {"th", "/th"}
      BY <2>1, <2>2, <2>5
    <2>. QED BY <2>3, <2>4, <2>5
  <1>. HIDE DEF Rec
  <1>10. \A i \in 0..n : h[i] \in Nat
    <2>1. Follows(Nat, 0, F, n, h)
      <3>. HIDE DEF Next
      <3>. QED BY <1>3, <1>8, <1>9 DEF Follows
    <2>. QED BY <1>1, <1>3, <2>1, RunsTyped
  <1>11. ASSUME NEW i \in 1..n, h[i - 1] = 0, s[i] # "th" PROVE h[i] = 0
    BY <1>9, <1>11
  <1>. QED BY <1>7, <1>8, <1>10, <1>11 DEF n

LEMMA DanglingStripped ==
    ASSUME NEW W, NEW s \in Seq(W)
    PROVE  stripDanglingThinkSuffix(s) \in Seq(W)
  <1>. DEFINE d == Depths(s)
              P == {i \in DOMAIN s : s[i] = "th" /\ d[i - 1] = 0}
              n == Len(s)
  <1>1. n \in Nat /\ DOMAIN s = 1..n
    BY Members
  <1>2. d[0] = 0 /\ \A i \in 1..n : d[i - 1] = 0 /\ s[i] # "th" => d[i] = 0
    BY DepthsCounted
  <1>. HIDE DEF d, n
  <1>3. ASSUME P = {} PROVE d[n] = 0
    <2>. DEFINE F == [p \in (1..n) \X {0} |-> 0]
    <2>1. F \in [(1..n) \X {0} -> {0}] /\ \A i \in 1..n : F[<<i, 0>>] = 0
      OBVIOUS
    <2>2. \A i \in 1..n : d[i - 1] = 0 => d[i] = 0
      BY <1>1, <1>2, <1>3
    <2>. HIDE DEF F, P
    <2>3. Follows({0}, 0, F, n, d)
      BY <1>2, <2>1, <2>2 DEF Follows
    <2>4. \A i \in 0..n : d[i] \in {0}
      BY <1>1, <2>1, <2>3, RunsTyped
    <2>. QED BY <1>1, <2>4
  <1>4. P \in SUBSET (0..n) /\ P \in SUBSET (1..n)
    BY <1>1
  <1>. HIDE DEF P
  <1>5. ASSUME P # {} PROVE SubSeq(s, 1, Greatest(P) - 1) \in Seq(W)
    <2>1. Greatest(P) \in P
      BY <1>1, <1>4, <1>5, GreatestIs
    <2>2. \A x \in P : x - 1 \in Int /\ x - 1 <= Len(s)
      BY <1>1, <1>4 DEF n
    <2>3. Greatest(P) - 1 \in Int /\ Greatest(P) - 1 <= Len(s)
      BY <2>1, <2>2
    <2>. QED BY <2>3, Cut
  <1>6. BeforeDangling(s, d) \in Seq(W)
    BY <1>3, <1>5, EmptySeq DEF BeforeDangling, OrNothing, P, n
  <1>. QED BY <1>6 DEF stripDanglingThinkSuffix, d

LEMMA SpansTakenOut ==
    ASSUME NEW W, NEW s \in Seq(W), NEW spans
    PROVE  WithoutSpans(s, spans) \in Seq(W)
  <1>. DEFINE T == Seq(W)
              q == [i \in DOMAIN s |-> i]
              n == Len(q)
              Next(i, x) == x \o (IF \E r \in spans : r[1].at <= q[i] /\ q[i] <= r[2].end THEN <<>> ELSE <<s[q[i]]>>)
              F == [p \in (1..n) \X T |-> Next(p[1], p[2])]
              Rec(h) == h = [i \in 0..n |-> IF i = 0 THEN <<>> ELSE Next(i, h[i - 1])]
  <1>1. n \in Nat /\ <<>> \in T
    <2>1. DOMAIN s = 1..Len(s) /\ Len(s) \in Nat
      BY Members
    <2>2. q \in Seq(1..Len(s)) /\ Len(q) = Len(s)
      BY <2>1, IsASeq, LenProperties
    <2>. HIDE DEF q
    <2>. QED BY <2>1, <2>2, EmptySeq
  <1>2. ASSUME NEW i \in 1..n, NEW x \in T PROVE Next(i, x) \in T
    <2>1. DOMAIN s = 1..Len(s) /\ Len(s) \in Nat /\ q \in [1..Len(s) -> 1..Len(s)]
      BY Members
    <2>2. Len(q) = Len(s)
      BY <2>1, IsASeq, LenProperties
    <2>3. q[i] \in 1..Len(s)
      BY <2>1, <2>2
    <2>4. s[q[i]] \in W
      BY <2>3, Members
    <2>5. <<>> \in Seq(W) /\ <<s[q[i]]>> \in Seq(W)
      BY <2>4, EmptySeq
    <2>. HIDE DEF q
    <2>. QED BY <2>5, Joined
  <1>. HIDE DEF Next, T, n
  <1>3. F \in [(1..n) \X T -> T] /\ \A i \in 1..n, x \in T : F[<<i, x>>] = Next(i, x)
    BY <1>2
  <1>. HIDE DEF F
  <1>4. PICK g \in [0..n -> T] : Runs(<<>>, F, n, g)
    BY <1>1, <1>3, RunsExist
  <1>5. Rec(g)
    <2>1. ASSUME NEW i \in 0..n PROVE g[i] = IF i = 0 THEN <<>> ELSE Next(i, g[i - 1])
      <3>1. i # 0 => i \in 1..n /\ i - 1 \in 0..n
        BY <1>1
      <3>. QED BY <1>3, <1>4, <3>1 DEF Runs
    <2>. QED BY <1>4, <2>1
  <1>6. PICK h : Rec(h) /\ WithoutSpans(s, spans) = h[n]
    BY <1>5 DEF WithoutSpans, Collected, q, Over, Next, n
  <1>7. Follows(T, <<>>, F, n, h)
    <2>1. h[0] = <<>>
      BY <1>1, <1>6
    <2>2. ASSUME NEW i \in 1..n, h[i - 1] \in T PROVE h[i] = Next(i, h[i - 1])
      <3>1. i \in 0..n /\ i # 0
        BY <1>1
      <3>. QED BY <1>6, <3>1
    <2>. QED BY <1>3, <2>1, <2>2 DEF Follows
  <1>8. n \in 0..n
    BY <1>1
  <1>. HIDE DEF Rec
  <1>9. \A i \in 0..n : h[i] \in T
    BY <1>1, <1>3, <1>7, RunsTyped
  <1>. QED BY <1>6, <1>8, <1>9 DEF T

LEMMA OutputCleaned ==
    ASSUME NEW W, NEW s \in Seq(W)
    PROVE  CleanVisibleOutput(s, TRUE) \in Seq(W)
  <1>. DEFINE t == Unmarked(s)
              u == stripThinkTags(stripDanglingThinkSuffix(t))
  <1>1. t \in Seq(W)
    BY MarkersStripped
  <1>. HIDE DEF t
  <1>2. u \in Seq(W)
    BY <1>1, DanglingStripped, ThinkTagsStripped
  <1>. HIDE DEF u
  <1>3. stripLeakedToolCallWrapperBlocks(u) \in Seq(W)
    BY <1>2, SpansTakenOut DEF stripLeakedToolCallWrapperBlocks
  <1>. QED BY <1>3 DEF CleanVisibleOutput, sanitizeLeakedOutput, Unmarked, t, u

LEMMA CallsDetected ==
    ASSUME NEW W, NEW s \in Seq(W), NEW v, NEW t \in Seq(W), NEW d \in Seq(W)
    PROVE  DetectAssistantToolCalls(s, v, t, d) \in Nat
  <1>1. \A x \in Seq(W) : ParseStandaloneToolCallsDetailed(x).calls \in Nat
    BY Standalone DEF Parsed
  <1>. QED BY <1>1 DEF DetectAssistantToolCalls, OrOfThinking

LEMMA OverlapTrimmed ==
    ASSUME NEW W, NEW s \in Seq(W), NEW t \in Seq(W)
    PROVE  TrimContinuationOverlap(s, t) \in Seq(W) /\ AddTo(s, t) \in Seq(W)
  <1>1. From(t, Len(s) + 1) \in Seq(W)
    <2>1. Len(s) + 1 \in Nat /\ Len(s) + 1 > 0
      BY Members
    <2>. QED BY <2>1, FromThere
  <1>2. TrimContinuationOverlap(s, t) \in Seq(W)
    BY <1>1, EmptySeq DEF TrimContinuationOverlap
  <1>. QED BY <1>2, Joined DEF AddTo

-----------------------------------------------------------------------------
\* What a line of the stream says

PartTypes == {"thinking", "text"}
Parts == [text : Text, type : PartTypes]

LEMMA TypeNamed ==
    ASSUME NEW name, NEW default \in PartTypes
    PROVE  Named(name, default) \in PartTypes
  <1>1. CASE name = "THINK"
    BY <1>1 DEF Named, PartTypes
  <1>2. CASE name = "RESPONSE"
    BY <1>2 DEF Named, PartTypes
  <1>3. CASE name \notin {"THINK", "RESPONSE"}
    BY <1>3 DEF Named, PartTypes
  <1>. QED BY <1>1, <1>2, <1>3

LEMMA TextTyped ==
    /\ <<>> \in Text /\ <<>> \in Seq(Parts)
    /\ \A s, t \in Text : s \o t \in Text /\ TrimContinuationOverlap(s, t) \in Text /\ AddTo(s, t) \in Text
    /\ \A s \in Text : /\ stripThinkTags(s) \in Text /\ CleanVisibleOutput(s, TRUE) \in Text
                       /\ Len(s) \in Nat /\ \A i \in 1..Len(s) : SubSeq(s, 1, i) \in Text
  <1>1. ASSUME NEW s \in Seq(STRING), NEW i \in 1..Len(s) PROVE SubSeq(s, 1, i) \in Seq(STRING)
    <2>1. i \in Int /\ i <= Len(s)
      BY Members
    <2>. QED BY <2>1, Cut
  <1>. QED BY <1>1, EmptySeq, Joined, OverlapTrimmed, ThinkTagsStripped, OutputCleaned, Members DEF Text

LEMMA PartAppended ==
    ASSUME NEW ps \in Seq(Parts), NEW s \in Text, NEW kind \in PartTypes
    PROVE  appendContentPart(ps, s, kind) \in Seq(Parts)
  <1>1. Part(s, kind) \in Parts
    BY DEF Part, Parts
  <1>. QED BY <1>1, AppendProperties DEF appendContentPart

LEMMA LastTypeNamed ==
    ASSUME NEW X, NEW frags \in Seq(X), NEW type \in PartTypes
    PROVE  LastNamed(frags, type) \in PartTypes
  <1>. DEFINE T == PartTypes
              n == Len(frags)
              Next(i, x) == Named(frags[i].type, x)
              F == [p \in (1..n) \X T |-> Next(p[1], p[2])]
              Rec(h) == h = [i \in 0..n |-> IF i = 0 THEN type ELSE Next(i, h[i - 1])]
  <1>1. n \in Nat /\ type \in T
    BY Members
  <1>2. ASSUME NEW i \in 1..n, NEW x \in T PROVE Next(i, x) \in T
    BY TypeNamed
  <1>. HIDE DEF Next, T, n
  <1>3. F \in [(1..n) \X T -> T] /\ \A i \in 1..n, x \in T : F[<<i, x>>] = Next(i, x)
    BY <1>2
  <1>. HIDE DEF F
  <1>4. PICK g \in [0..n -> T] : Runs(type, F, n, g)
    BY <1>1, <1>3, RunsExist
  <1>5. Rec(g)
    <2>1. ASSUME NEW i \in 0..n PROVE g[i] = IF i = 0 THEN type ELSE Next(i, g[i - 1])
      <3>1. i # 0 => i \in 1..n /\ i - 1 \in 0..n
        BY <1>1
      <3>. QED BY <1>3, <1>4, <3>1 DEF Runs
    <2>. QED BY <1>4, <2>1
  <1>6. PICK h : Rec(h) /\ LastNamed(frags, type) = h[n]
    BY <1>5 DEF LastNamed, Over, Next, n
  <1>7. Follows(T, type, F, n, h)
    <2>1. h[0] = type
      BY <1>1, <1>6
    <2>2. ASSUME NEW i \in 1..n, h[i - 1] \in T PROVE h[i] = Next(i, h[i - 1])
      <3>1. i \in 0..n /\ i # 0
        BY <1>1
      <3>. QED BY <1>6, <3>1
    <2>. QED BY <1>3, <2>1, <2>2 DEF Follows
  <1>8. n \in 0..n
    BY <1>1
  <1>. HIDE DEF Rec
  <1>9. \A i \in 0..n : h[i] \in T
    BY <1>1, <1>3, <1>7, RunsTyped
  <1>. QED BY <1>6, <1>8, <1>9 DEF T

LEMMA FragmentsRead ==
    ASSUME NEW X, \A x \in X : x.text \in Text, NEW frags \in Seq(X), NEW default \in PartTypes
    PROVE  OfFragments(frags, default) \in Seq(Parts)
  <1>. DEFINE T == Seq(Parts)
              n == Len(frags)
              Next(i, x) == appendContentPart(x, frags[i].text, Named(frags[i].type, default))
              F == [p \in (1..n) \X T |-> Next(p[1], p[2])]
              Rec(h) == h = [i \in 0..n |-> IF i = 0 THEN <<>> ELSE Next(i, h[i - 1])]
  <1>1. n \in Nat /\ <<>> \in T
    BY Members, EmptySeq
  <1>2. ASSUME NEW i \in 1..n, NEW x \in T PROVE Next(i, x) \in T
    <2>1. frags[i] \in X
      BY <1>1, Members
    <2>. QED BY <2>1, TypeNamed, PartAppended
  <1>. HIDE DEF Next, T, n
  <1>3. F \in [(1..n) \X T -> T] /\ \A i \in 1..n, x \in T : F[<<i, x>>] = Next(i, x)
    BY <1>2
  <1>. HIDE DEF F
  <1>4. PICK g \in [0..n -> T] : Runs(<<>>, F, n, g)
    BY <1>1, <1>3, RunsExist
  <1>5. Rec(g)
    <2>1. ASSUME NEW i \in 0..n PROVE g[i] = IF i = 0 THEN <<>> ELSE Next(i, g[i - 1])
      <3>1. i # 0 => i \in 1..n /\ i - 1 \in 0..n
        BY <1>1
      <3>. QED BY <1>3, <1>4, <3>1 DEF Runs
    <2>. QED BY <1>4, <2>1
  <1>6. PICK h : Rec(h) /\ OfFragments(frags, default) = h[n]
    BY <1>5 DEF OfFragments, Over, Next, n
  <1>7. Follows(T, <<>>, F, n, h)
    <2>1. h[0] = <<>>
      BY <1>1, <1>6
    <2>2. ASSUME NEW i \in 1..n, h[i - 1] \in T PROVE h[i] = Next(i, h[i - 1])
      <3>1. i \in 0..n /\ i # 0
        BY <1>1
      <3>. QED BY <1>6, <3>1
    <2>. QED BY <1>3, <2>1, <2>2 DEF Follows
  <1>8. n \in 0..n
    BY <1>1
  <1>. HIDE DEF Rec
  <1>9. \A i \in 0..n : h[i] \in T
    BY <1>1, <1>3, <1>7, RunsTyped
  <1>. QED BY <1>6, <1>8, <1>9 DEF T

LEMMA NestedTypes ==
    ASSUME NEW frame, frame.items \in Seq(Patches), frame.path = "response", frame.is = "items", NEW type \in PartTypes
    PROVE  updateTypeFromNestedResponse(frame, type) \in PartTypes
  <1>. DEFINE T == PartTypes
              n == Len(frame.items)
              Next(i, x) == IF frame.items[i].path = "fragments" /\ frame.items[i].op = "APPEND" /\ frame.items[i].is = "items" THEN LastNamed(frame.items[i].items, x) ELSE x
              F == [p \in (1..n) \X T |-> Next(p[1], p[2])]
              Rec(h) == h = [i \in 0..n |-> IF i = 0 THEN type ELSE Next(i, h[i - 1])]
  <1>1. n \in Nat /\ type \in T
    BY Members
  <1>2. ASSUME NEW i \in 1..n, NEW x \in T PROVE Next(i, x) \in T
    <2>1. frame.items[i] \in Patches
      BY <1>1, Members
    <2>2. frame.items[i].items \in Seq(Fragments)
      BY <2>1 DEF Patches
    <2>. QED BY <2>2, LastTypeNamed
  <1>. HIDE DEF Next, T, n
  <1>3. F \in [(1..n) \X T -> T] /\ \A i \in 1..n, x \in T : F[<<i, x>>] = Next(i, x)
    BY <1>2
  <1>. HIDE DEF F
  <1>4. PICK g \in [0..n -> T] : Runs(type, F, n, g)
    BY <1>1, <1>3, RunsExist
  <1>5. Rec(g)
    <2>1. ASSUME NEW i \in 0..n PROVE g[i] = IF i = 0 THEN type ELSE Next(i, g[i - 1])
      <3>1. i # 0 => i \in 1..n /\ i - 1 \in 0..n
        BY <1>1
      <3>. QED BY <1>3, <1>4, <3>1 DEF Runs
    <2>. QED BY <1>4, <2>1
  <1>6. PICK h : Rec(h) /\ updateTypeFromNestedResponse(frame, type) = h[n]
    BY <1>5 DEF updateTypeFromNestedResponse, Over, Next, n
  <1>7. Follows(T, type, F, n, h)
    <2>1. h[0] = type
      BY <1>1, <1>6
    <2>2. ASSUME NEW i \in 1..n, h[i - 1] \in T PROVE h[i] = Next(i, h[i - 1])
      <3>1. i \in 0..n /\ i # 0
        BY <1>1
      <3>. QED BY <1>6, <3>1
    <2>. QED BY <1>3, <2>1, <2>2 DEF Follows
  <1>8. n \in 0..n
    BY <1>1
  <1>. HIDE DEF Rec
  <1>9. \A i \in 0..n : h[i] \in T
    BY <1>1, <1>3, <1>7, RunsTyped
  <1>. QED BY <1>6, <1>8, <1>9 DEF T

LEMMA ItemRead ==
    ASSUME NEW item \in Patches, NEW default \in PartTypes
    PROVE  ItemParts(item, default) \in Seq(Parts)
  <1>1. item.text \in Text /\ item.items \in Seq(Fragments) /\ \A x \in Fragments : x.text \in Text
    BY DEF Patches, Fragments
  <1>2. ItemType(item.path, default) \in PartTypes
    <2>1. CASE item.path \in {"thinking_content", "response/thinking_content"}
      BY <2>1 DEF ItemType, PartTypes, FragmentContentPath
    <2>2. CASE item.path \notin {"thinking_content", "response/thinking_content"}
      BY <2>2 DEF ItemType, PartTypes
    <2>. QED BY <2>1, <2>2
  <1>. DEFINE k == ItemType(item.path, default)
              A == item.is = "none" \/ isStatusPath(item.path) \/ shouldSkipPath(item.path)
              B == item.is = "text" /\ ~isStatusPath(item.path) /\ ~shouldSkipPath(item.path)
  <1>. HIDE DEF k
  <1>3. OfFragments(item.items, k) \in Seq(Parts)
    BY <1>1, <1>2, FragmentsRead DEF k
  <1>4. <<Part(item.text, k)>> \in Seq(Parts) /\ <<>> \in Seq(Parts)
    <2>1. Part(item.text, k) \in Parts
      BY <1>1, <1>2 DEF Part, Parts, k
    <2>. QED BY <2>1, EmptySeq
  <1>5. B => ~A
    OBVIOUS
  <1>6. ItemParts(item, default) = CASE A -> <<>>
                                     [] B -> (IF item.text \in {<<>>, FINISHED} THEN <<>> ELSE <<Part(item.text, k)>>)
                                     [] OTHER -> OfFragments(item.items, k)
    BY DEF ItemParts, k
  <1>. HIDE DEF A, B
  <1>. QED BY <1>3, <1>4, <1>5, <1>6

LEMMA ItemsRead ==
    ASSUME NEW items \in Seq(Patches), NEW default \in PartTypes
    PROVE  ItemsParts(items, default) \in Seq(Parts)
  <1>. DEFINE T == Seq(Parts)
              n == Len(items)
              Next(i, x) == x \o ItemParts(items[i], default)
              F == [p \in (1..n) \X T |-> Next(p[1], p[2])]
              Rec(h) == h = [i \in 0..n |-> IF i = 0 THEN <<>> ELSE Next(i, h[i - 1])]
  <1>1. n \in Nat /\ <<>> \in T
    BY Members, EmptySeq
  <1>2. ASSUME NEW i \in 1..n, NEW x \in T PROVE Next(i, x) \in T
    <2>1. items[i] \in Patches
      BY <1>1, Members
    <2>. QED BY <2>1, ItemRead, Joined
  <1>. HIDE DEF Next, T, n
  <1>3. F \in [(1..n) \X T -> T] /\ \A i \in 1..n, x \in T : F[<<i, x>>] = Next(i, x)
    BY <1>2
  <1>. HIDE DEF F
  <1>4. PICK g \in [0..n -> T] : Runs(<<>>, F, n, g)
    BY <1>1, <1>3, RunsExist
  <1>5. Rec(g)
    <2>1. ASSUME NEW i \in 0..n PROVE g[i] = IF i = 0 THEN <<>> ELSE Next(i, g[i - 1])
      <3>1. i # 0 => i \in 1..n /\ i - 1 \in 0..n
        BY <1>1
      <3>. QED BY <1>3, <1>4, <3>1 DEF Runs
    <2>. QED BY <1>4, <2>1
  <1>6. PICK h : Rec(h) /\ ItemsParts(items, default) = h[n]
    BY <1>5 DEF ItemsParts, Collected, Over, Next, n
  <1>7. Follows(T, <<>>, F, n, h)
    <2>1. h[0] = <<>>
      BY <1>1, <1>6
    <2>2. ASSUME NEW i \in 1..n, h[i - 1] \in T PROVE h[i] = Next(i, h[i - 1])
      <3>1. i \in 0..n /\ i # 0
        BY <1>1
      <3>. QED BY <1>6, <3>1
    <2>. QED BY <1>3, <2>1, <2>2 DEF Follows
  <1>8. n \in 0..n
    BY <1>1
  <1>. HIDE DEF Rec
  <1>9. \A i \in 0..n : h[i] \in T
    BY <1>1, <1>3, <1>7, RunsTyped
  <1>. QED BY <1>6, <1>8, <1>9 DEF T

Values == [parts : Seq(Parts), type : PartTypes, finished : BOOLEAN]

LEMMA ValueRead ==
    ASSUME NEW frame \in Frames, NEW partType \in PartTypes, NEW type \in PartTypes
    PROVE  appendChunkValueContent(frame, partType, type) \in Values
  <1>. DEFINE a == IF isStatusPath(frame.path) THEN <<>> ELSE appendContentPart(<<>>, frame.text, partType)
              fa == frame.text = FINISHED /\ frame.path \in {"", "status"}
              b == ItemsParts(frame.items, partType)
              fb == ItemsFinish(frame.items)
              c == OfFragments(frame.items, partType)
              tc == LastNamed(frame.items, type)
  <1>1. frame.text \in Text /\ frame.items \in Seq(Patches) /\ (\A x \in Patches : x.text \in Text)
    BY DEF Frames, Patches
  <1>2. <<>> \in Seq(Parts) /\ a \in Seq(Parts) /\ b \in Seq(Parts) /\ c \in Seq(Parts) /\ tc \in PartTypes
    BY <1>1, EmptySeq, PartAppended, ItemsRead, FragmentsRead, LastTypeNamed
  <1>3. fa \in BOOLEAN /\ fb \in BOOLEAN
    BY DEF ItemsFinish
  <1>. HIDE DEF a, fa, b, fb, c, tc
  <1>4. /\ Value(a, type, fa) \in Values /\ Value(b, type, fb) \in Values
        /\ Value(c, tc, FALSE) \in Values /\ Value(<<>>, type, FALSE) \in Values
    BY <1>2, <1>3 DEF Value, Values
  <1>5. appendChunkValueContent(frame, partType, type) =
            CASE frame.is = "text" -> Value(a, type, fa)
              [] frame.is = "items" -> Value(b, type, fb)
              [] frame.is = "response" -> Value(c, tc, FALSE)
              [] OTHER -> Value(<<>>, type, FALSE)
    BY DEF appendChunkValueContent, a, fa, b, fb, c, tc
  <1>6. CASE frame.is = "text"
    BY <1>4, <1>5, <1>6
  <1>7. CASE frame.is = "items"
    BY <1>4, <1>5, <1>7
  <1>8. CASE frame.is = "response"
    BY <1>4, <1>5, <1>8
  <1>9. CASE frame.is \notin {"text", "items", "response"}
    BY <1>4, <1>5, <1>9
  <1>. QED BY <1>6, <1>7, <1>8, <1>9

Splits == [parts : Seq(Parts), over : BOOLEAN]

LEMMA PartSplit ==
    ASSUME NEW r \in Splits, NEW p \in Parts
    PROVE  SplitStep(r, p) \in Splits
  <1>. DEFINE P == {i \in DOMAIN p.text : p.text[i] = "/th"}
              e == Append(r.parts, p)
              f == r.parts \o SplitAt(p.text, Least(P))
              g == appendContentPart(r.parts, stripThinkTags(p.text), "text")
              Q == Seq(Parts)
              B == BOOLEAN
  <1>1. p.text \in Seq(STRING) /\ p.text \in Text /\ r.parts \in Seq(Parts) /\ "text" \in PartTypes /\ "thinking" \in PartTypes
    BY DEF Parts, Splits, Text, PartTypes
  <1>2. e \in Q
    BY <1>1, AppendProperties
  <1>3. Closes(p) => f \in Q
    <2>1. Len(p.text) \in Nat /\ P \in SUBSET (0..Len(p.text)) /\ P \in SUBSET (1..Len(p.text)) /\ (Closes(p) => P # {})
      BY <1>1, Members DEF Closes
    <2>. HIDE DEF P
    <2>2. \A x \in P : x - 1 \in Int /\ x - 1 <= Len(p.text) /\ x + 1 \in Nat /\ x + 1 > 0
      BY <2>1
    <2>3. ASSUME NEW x \in P PROVE SplitAt(p.text, x) \in Q
      <3>1. SubSeq(p.text, 1, x - 1) \in Text
        BY <1>1, <2>2, Cut DEF Text
      <3>2. From(p.text, x + 1) \in Text
        BY <1>1, <2>2, FromThere DEF Text
      <3>3. appendContentPart(<<>>, SubSeq(p.text, 1, x - 1), "thinking") \in Q
        BY <1>1, <3>1, PartAppended, EmptySeq
      <3>. HIDE DEF Q
      <3>. QED BY <1>1, <3>2, <3>3, TextTyped, PartAppended DEF SplitAt, Q
    <2>4. Closes(p) => Least(P) \in P
      BY <2>1, LeastIs
    <2>. QED BY <1>1, <2>3, <2>4, Joined
  <1>4. g \in Q
    BY <1>1, TextTyped, PartAppended
  <1>5. r \in [parts : Q, over : B] /\ TRUE \in B
    BY DEF Splits
  <1>. DEFINE A1 == p.type = "thinking" /\ ~r.over /\ ~Closes(p)
              A2 == p.type = "thinking" /\ ~r.over /\ Closes(p)
  <1>6. SplitStep(r, p) = CASE A1 -> [r EXCEPT !.parts = e]
                            [] A2 -> [parts |-> f, over |-> TRUE]
                            [] OTHER -> [r EXCEPT !.parts = g]
    BY <1>5 DEF SplitStep
  <1>7. (A2 => Closes(p)) /\ (A1 => ~A2)
    OBVIOUS
  <1>. HIDE DEF e, f, g, Q, B, A1, A2, P
  <1>8. /\ [r EXCEPT !.parts = e] \in [parts : Q, over : B]
        /\ [r EXCEPT !.parts = g] \in [parts : Q, over : B]
        /\ A2 => [parts |-> f, over |-> TRUE] \in [parts : Q, over : B]
    BY <1>2, <1>3, <1>4, <1>5, <1>7
  <1>9. SplitStep(r, p) \in [parts : Q, over : B]
    <2>1. CASE A1
      BY <1>6, <1>7, <1>8, <2>1
    <2>2. CASE A2
      BY <1>6, <1>7, <1>8, <2>2
    <2>3. CASE ~A1 /\ ~A2
      BY <1>6, <1>8, <2>3
    <2>. QED BY <2>1, <2>2, <2>3
  <1>. QED BY <1>9 DEF Q, B, Splits

LEMMA ThinkingSplit ==
    ASSUME NEW ps \in Seq(Parts)
    PROVE  splitThinkingParts(ps) \in Splits
  <1>. DEFINE T == Splits
              n == Len(ps)
              Next(i, x) == SplitStep(x, ps[i])
              F == [p \in (1..n) \X T |-> Next(p[1], p[2])]
              Rec(h) == h = [i \in 0..n |-> IF i = 0 THEN [parts |-> <<>>, over |-> FALSE] ELSE Next(i, h[i - 1])]
  <1>1. n \in Nat /\ [parts |-> <<>>, over |-> FALSE] \in T
    BY Members, EmptySeq DEF Splits
  <1>2. ASSUME NEW i \in 1..n, NEW x \in T PROVE Next(i, x) \in T
    <2>1. ps[i] \in Parts
      BY <1>1, Members
    <2>. QED BY <2>1, PartSplit
  <1>. HIDE DEF Next, T, n
  <1>3. F \in [(1..n) \X T -> T] /\ \A i \in 1..n, x \in T : F[<<i, x>>] = Next(i, x)
    BY <1>2
  <1>. HIDE DEF F
  <1>4. PICK g \in [0..n -> T] : Runs([parts |-> <<>>, over |-> FALSE], F, n, g)
    BY <1>1, <1>3, RunsExist
  <1>5. Rec(g)
    <2>1. ASSUME NEW i \in 0..n PROVE g[i] = IF i = 0 THEN [parts |-> <<>>, over |-> FALSE] ELSE Next(i, g[i - 1])
      <3>1. i # 0 => i \in 1..n /\ i - 1 \in 0..n
        BY <1>1
      <3>. QED BY <1>3, <1>4, <3>1 DEF Runs
    <2>. QED BY <1>4, <2>1
  <1>6. PICK h : Rec(h) /\ splitThinkingParts(ps) = h[n]
    BY <1>5 DEF splitThinkingParts, Over, Next, n
  <1>7. Follows(T, [parts |-> <<>>, over |-> FALSE], F, n, h)
    <2>1. h[0] = [parts |-> <<>>, over |-> FALSE]
      BY <1>1, <1>6
    <2>2. ASSUME NEW i \in 1..n, h[i - 1] \in T PROVE h[i] = Next(i, h[i - 1])
      <3>1. i \in 0..n /\ i # 0
        BY <1>1
      <3>. QED BY <1>6, <3>1
    <2>. QED BY <1>3, <2>1, <2>2 DEF Follows
  <1>8. n \in 0..n
    BY <1>1
  <1>. HIDE DEF Rec
  <1>9. \A i \in 0..n : h[i] \in T
    BY <1>1, <1>3, <1>7, RunsTyped
  <1>. QED BY <1>6, <1>8, <1>9 DEF T

LEMMA LeakFiltered ==
    ASSUME NEW ps \in Seq(Parts)
    PROVE  filterLeakedContentFilterParts(ps) \in Seq(Parts)
  <1>. DEFINE T == Seq(Parts)
              n == Len(ps)
              Next(i, x) == appendContentPart(x, stripLeakedContentFilterSuffix(ps[i].text), ps[i].type)
              F == [p \in (1..n) \X T |-> Next(p[1], p[2])]
              Rec(h) == h = [i \in 0..n |-> IF i = 0 THEN <<>> ELSE Next(i, h[i - 1])]
  <1>1. n \in Nat /\ <<>> \in T
    BY Members, EmptySeq
  <1>2. ASSUME NEW i \in 1..n, NEW x \in T PROVE Next(i, x) \in T
    <2>1. ps[i] \in Parts
      BY <1>1, Members
    <2>2. ps[i].type \in PartTypes /\ ps[i].text \in Seq(STRING)
      BY <2>1 DEF Parts, Text
    <2>. DEFINE s == ps[i].text
                P == {j \in DOMAIN s : s[j] = "cf"} \union {Len(s) + 1}
    <2>3. s \in Seq(STRING) /\ Len(s) \in Nat /\ Len(s) + 1 \in Nat /\ DOMAIN s = 1..Len(s)
      BY <2>2, Members
    <2>. HIDE DEF s
    <2>4. P # {} /\ P \in SUBSET (0..(Len(s) + 1)) /\ \A y \in P : y - 1 \in Int /\ y - 1 <= Len(s)
      BY <2>3
    <2>. HIDE DEF P
    <2>5. Least(P) \in P
      BY <2>3, <2>4, LeastIs
    <2>6. SubSeq(s, 1, Least(P) - 1) \in Text
      <3>1. Least(P) - 1 \in Int /\ Least(P) - 1 <= Len(s)
        BY <2>4, <2>5
      <3>. QED BY <2>3, <3>1, Cut DEF Text
    <2>7. stripLeakedContentFilterSuffix(s) \in Text
      BY <2>6 DEF stripLeakedContentFilterSuffix, P
    <2>. QED BY <2>2, <2>7, PartAppended DEF s
  <1>. HIDE DEF Next, T, n
  <1>3. F \in [(1..n) \X T -> T] /\ \A i \in 1..n, x \in T : F[<<i, x>>] = Next(i, x)
    BY <1>2
  <1>. HIDE DEF F
  <1>4. PICK g \in [0..n -> T] : Runs(<<>>, F, n, g)
    BY <1>1, <1>3, RunsExist
  <1>5. Rec(g)
    <2>1. ASSUME NEW i \in 0..n PROVE g[i] = IF i = 0 THEN <<>> ELSE Next(i, g[i - 1])
      <3>1. i # 0 => i \in 1..n /\ i - 1 \in 0..n
        BY <1>1
      <3>. QED BY <1>3, <1>4, <3>1 DEF Runs
    <2>. QED BY <1>4, <2>1
  <1>6. PICK h : Rec(h) /\ filterLeakedContentFilterParts(ps) = h[n]
    BY <1>5 DEF filterLeakedContentFilterParts, Over, Next, n
  <1>7. Follows(T, <<>>, F, n, h)
    <2>1. h[0] = <<>>
      BY <1>1, <1>6
    <2>2. ASSUME NEW i \in 1..n, h[i - 1] \in T PROVE h[i] = Next(i, h[i - 1])
      <3>1. i \in 0..n /\ i # 0
        BY <1>1
      <3>. QED BY <1>6, <3>1
    <2>. QED BY <1>3, <2>1, <2>2 DEF Follows
  <1>8. n \in 0..n
    BY <1>1
  <1>. HIDE DEF Rec
  <1>9. \A i \in 0..n : h[i] \in T
    BY <1>1, <1>3, <1>7, RunsTyped
  <1>. QED BY <1>6, <1>8, <1>9 DEF T

Chunks == [parts : Seq(Parts), detection : Seq(Parts), finished : BOOLEAN, type : PartTypes]
Lines == [parsed : BOOLEAN, stop : BOOLEAN, filter : BOOLEAN, error : BOOLEAN,
          parts : Seq(Parts), detection : Seq(Parts), type : PartTypes, id : Nat]

LEMMA ChunkRead ==
    ASSUME NEW frame \in Frames, NEW thinking \in BOOLEAN, NEW current \in PartTypes
    PROVE  ParseSSEChunkForContentDetailed(frame, thinking, current) \in Chunks
  <1>. DEFINE named == IF IsDirect(frame) THEN LastNamed(frame.items, current) ELSE current
              type == updateTypeFromNestedResponse(frame, named)
              partType == resolvePartType(frame.path, thinking, type)
              v == appendChunkValueContent(frame, partType, type)
              ps == collectDirectFragments(frame) \o v.parts
              split == splitThinkingParts(ps)
              kept == IF thinking THEN split.parts ELSE dropThinkingParts(split.parts)
              next == IF split.over \/ ~thinking THEN "text" ELSE v.type
  <1>1. frame.items \in Seq(Patches) /\ (\A x \in Patches : x.text \in Text) /\ "text" \in PartTypes
        /\ "thinking" \in PartTypes /\ <<>> \in Seq(Parts)
    BY EmptySeq DEF Frames, Patches, PartTypes
  <1>2. named \in PartTypes
    BY <1>1, LastTypeNamed
  <1>. HIDE DEF named
  <1>3. type \in PartTypes
    BY <1>1, <1>2, NestedTypes DEF updateTypeFromNestedResponse
  <1>. HIDE DEF type
  <1>4. partType \in PartTypes
    <2>1. CASE frame.path = "response/thinking_content"
      BY <1>1, <2>1 DEF resolvePartType, FragmentContentPath
    <2>2. CASE frame.path # "response/thinking_content"
      <3>1. CASE frame.path = "response/content"
        BY <1>1, <3>1 DEF resolvePartType, FragmentContentPath
      <3>2. CASE frame.path # "response/content"
        BY <1>1, <1>3, <2>2, <3>2 DEF resolvePartType
      <3>. QED BY <3>1, <3>2
    <2>. QED BY <2>1, <2>2
  <1>. HIDE DEF partType
  <1>5. v \in Values
    BY <1>3, <1>4, ValueRead
  <1>6. v.parts \in Seq(Parts) /\ v.type \in PartTypes
    BY <1>5 DEF Values
  <1>. HIDE DEF v
  <1>7. ps \in Seq(Parts)
    <2>1. collectDirectFragments(frame) \in Seq(Parts)
      BY <1>1, FragmentsRead DEF collectDirectFragments
    <2>. QED BY <1>6, <2>1, Joined
  <1>. HIDE DEF ps
  <1>8. split.parts \in Seq(Parts)
    BY <1>7, ThinkingSplit DEF Splits
  <1>. HIDE DEF split
  <1>9. kept \in Seq(Parts) /\ selectThinkingParts(split.parts) \in Seq(Parts)
    BY <1>8, ThinkingDropped, ThinkingSelected
  <1>10. next \in PartTypes
    BY <1>1, <1>6
  <1>. HIDE DEF kept, next
  <1>11. [parts |-> kept, detection |-> selectThinkingParts(split.parts), finished |-> FALSE, type |-> next] \in Chunks
    BY <1>9, <1>10 DEF Chunks
  <1>12. ASSUME NEW b \in BOOLEAN, NEW t \in PartTypes PROVE NoParts(b, t) \in Chunks
    BY <1>1 DEF NoParts, Chunks
  <1>13. OfType(frame, type, thinking) \in Chunks
    BY <1>6, <1>11, <1>12 DEF OfType, OfValue, Chunk, v, partType, ps, split, kept, next
  <1>. DEFINE A == frame.is = "none" \/ shouldSkipPath(frame.path)
              B == ~shouldSkipPath(frame.path) /\ isStatusPath(frame.path) /\ frame.is = "text"
              c == frame.text = FINISHED
  <1>14. ParseSSEChunkForContentDetailed(frame, thinking, current) =
             CASE A -> NoParts(FALSE, current) [] B -> NoParts(c, current) [] OTHER -> OfType(frame, type, thinking)
    BY DEF ParseSSEChunkForContentDetailed, type, named
  <1>15. (A => ~B) /\ c \in BOOLEAN
    OBVIOUS
  <1>. HIDE DEF A, B, c
  <1>16. CASE A
    BY <1>12, <1>14, <1>15, <1>16
  <1>17. CASE B
    BY <1>12, <1>14, <1>15, <1>17
  <1>18. CASE ~A /\ ~B
    BY <1>13, <1>14, <1>18
  <1>. QED BY <1>16, <1>17, <1>18

LEMMA LineRead ==
    ASSUME NEW frame \in Frames, NEW thinking \in BOOLEAN, NEW current \in PartTypes
    PROVE  ParseDeepSeekContentLine(frame, thinking, current) \in Lines
  <1>. DEFINE B == BOOLEAN
              P == Seq(Parts)
              T == PartTypes
              L == [parsed : B, stop : B, filter : B, error : B, parts : P, detection : P, type : T, id : Nat]
              c == ParseSSEChunkForContentDetailed(frame, thinking, current)
              p == filterLeakedContentFilterParts(c.parts)
              d == filterLeakedContentFilterParts(c.detection)
  <1>1. c \in Chunks
    BY ChunkRead
  <1>2. c.parts \in Seq(Parts) /\ c.detection \in Seq(Parts) /\ c.finished \in B /\ c.type \in T
    BY <1>1 DEF Chunks
  <1>. HIDE DEF c
  <1>3. p \in P /\ d \in P
    BY <1>2, LeakFiltered
  <1>4. \A t \in PartTypes : Bare(t) \in Lines
    BY EmptySeq DEF Bare, Lines
  <1>5. Bare(current) \in L /\ Bare(c.type) \in L /\ TRUE \in B /\ FALSE \in B /\ frame.id \in Nat
    BY <1>2, <1>4 DEF Lines, Frames
  <1>. HIDE DEF B, P, T, p, d
  <1>6. /\ [Bare(current) EXCEPT !.parsed = FALSE, !.stop = FALSE] \in L
        /\ [Bare(current) EXCEPT !.error = TRUE] \in L
        /\ [Bare(current) EXCEPT !.filter = TRUE] \in L
    BY <1>5
  <1>7. OfChunk(frame, c) = [Bare(c.type) EXCEPT !.stop = c.finished, !.id = frame.id, !.parts = p, !.detection = d]
    BY DEF OfChunk, p, d
  <1>8. OfChunk(frame, c) \in L
    BY <1>2, <1>3, <1>5, <1>7
  <1>9. ParseDeepSeekContentLine(frame, thinking, current) \in L
    <2>1. CASE frame.kind = "junk"
      BY <1>6, <2>1 DEF ParseDeepSeekContentLine
    <2>2. CASE frame.kind = "done"
      BY <1>5, <2>2 DEF ParseDeepSeekContentLine
    <2>3. CASE frame.kind = "error"
      BY <1>6, <2>3 DEF ParseDeepSeekContentLine
    <2>4. CASE frame.kind = "filter"
      BY <1>6, <2>4 DEF ParseDeepSeekContentLine
    <2>5. CASE frame.kind \notin {"junk", "done", "error", "filter"}
      BY <1>8, <2>5 DEF ParseDeepSeekContentLine, c
    <2>. QED BY <2>1, <2>2, <2>3, <2>4, <2>5
  <1>. QED BY <1>9 DEF L, B, P, T, Lines

-----------------------------------------------------------------------------
\* NodeStream: what the port makes of a line

\* The parts that are shown, and a chunk with them.
ShownParts(thinking) == [text : Text, type : IF thinking THEN PartTypes ELSE {"text"}]
NodeChunks(thinking) == [parts : Seq(ShownParts(thinking)), finished : BOOLEAN, type : PartTypes]

LEMMA ReferencesStripped ==
    ASSUME NEW s \in Text
    PROVE  stripReferenceMarkersText(s) \in Text
  <1>1. Unmarked(s) \in Text
    BY MarkersStripped DEF Text
  <1>. QED BY <1>1 DEF stripReferenceMarkersText, Unmarked

LEMMA LeakCut ==
    ASSUME NEW s \in Text
    PROVE  stripLeakedContentFilterSuffix(s) \in Text
  <1>. DEFINE P == {j \in DOMAIN s : s[j] = "cf"} \union {Len(s) + 1}
  <1>1. s \in Seq(STRING) /\ Len(s) \in Nat /\ Len(s) + 1 \in Nat /\ DOMAIN s = 1..Len(s)
    BY Members DEF Text
  <1>2. P # {} /\ P \in SUBSET (0..(Len(s) + 1)) /\ \A y \in P : y - 1 \in Int /\ y - 1 <= Len(s)
    BY <1>1
  <1>. HIDE DEF P
  <1>3. Least(P) \in P
    BY <1>1, <1>2, LeastIs
  <1>4. Least(P) - 1 \in Int /\ Least(P) - 1 <= Len(s)
    BY <1>2, <1>3
  <1>5. SubSeq(s, 1, Least(P) - 1) \in Text
    BY <1>1, <1>4, Cut DEF Text
  <1>. QED BY <1>5 DEF stripLeakedContentFilterSuffix, P

LEMMA PartsCleaned ==
    ASSUME NEW ps \in Seq(Parts)
    PROVE  asContentParts(ps) \in Seq(Parts)
  <1>. DEFINE T == Seq(Parts)
              n == Len(ps)
              Next(i, x) == x \o appendContentPart(<<>>, stripReferenceMarkersText(ps[i].text), ps[i].type)
              F == [p \in (1..n) \X T |-> Next(p[1], p[2])]
              Rec(h) == h = [i \in 0..n |-> IF i = 0 THEN <<>> ELSE Next(i, h[i - 1])]
  <1>1. n \in Nat /\ <<>> \in T
    BY Members, EmptySeq
  <1>2. ASSUME NEW i \in 1..n, NEW x \in T PROVE Next(i, x) \in T
    <2>1. ps[i] \in Parts
      BY <1>1, Members
    <2>2. ps[i].type \in PartTypes /\ ps[i].text \in Text
      BY <2>1 DEF Parts
    <2>3. appendContentPart(<<>>, stripReferenceMarkersText(ps[i].text), ps[i].type) \in Seq(Parts)
      BY <2>2, ReferencesStripped, PartAppended, EmptySeq
    <2>. QED BY <2>3, Joined
  <1>. HIDE DEF Next, T, n
  <1>3. F \in [(1..n) \X T -> T] /\ \A i \in 1..n, x \in T : F[<<i, x>>] = Next(i, x)
    BY <1>2
  <1>. HIDE DEF F
  <1>4. PICK g \in [0..n -> T] : Runs(<<>>, F, n, g)
    BY <1>1, <1>3, RunsExist
  <1>5. Rec(g)
    <2>1. ASSUME NEW i \in 0..n PROVE g[i] = IF i = 0 THEN <<>> ELSE Next(i, g[i - 1])
      <3>1. i # 0 => i \in 1..n /\ i - 1 \in 0..n
        BY <1>1
      <3>. QED BY <1>3, <1>4, <3>1 DEF Runs
    <2>. QED BY <1>4, <2>1
  <1>6. PICK h : Rec(h) /\ asContentParts(ps) = h[n]
    BY <1>5 DEF asContentParts, Collected, Over, Next, n
  <1>7. Follows(T, <<>>, F, n, h)
    <2>1. h[0] = <<>>
      BY <1>1, <1>6
    <2>2. ASSUME NEW i \in 1..n, h[i - 1] \in T PROVE h[i] = Next(i, h[i - 1])
      <3>1. i \in 0..n /\ i # 0
        BY <1>1
      <3>. QED BY <1>6, <3>1
    <2>. QED BY <1>3, <2>1, <2>2 DEF Follows
  <1>8. n \in 0..n
    BY <1>1
  <1>. HIDE DEF Rec
  <1>9. \A i \in 0..n : h[i] \in T
    BY <1>1, <1>3, <1>7, RunsTyped
  <1>. QED BY <1>6, <1>8, <1>9 DEF T

LEMMA LeaksCut ==
    ASSUME NEW ps \in Seq(Parts)
    PROVE  NodeLeakedFilter(ps) \in Seq(Parts)
  <1>. DEFINE T == Seq(Parts)
              n == Len(ps)
              Next(i, x) == x \o appendContentPart(<<>>, stripLeakedContentFilterSuffix(ps[i].text), ps[i].type)
              F == [p \in (1..n) \X T |-> Next(p[1], p[2])]
              Rec(h) == h = [i \in 0..n |-> IF i = 0 THEN <<>> ELSE Next(i, h[i - 1])]
  <1>1. n \in Nat /\ <<>> \in T
    BY Members, EmptySeq
  <1>2. ASSUME NEW i \in 1..n, NEW x \in T PROVE Next(i, x) \in T
    <2>1. ps[i] \in Parts
      BY <1>1, Members
    <2>2. ps[i].type \in PartTypes /\ ps[i].text \in Text
      BY <2>1 DEF Parts
    <2>3. appendContentPart(<<>>, stripLeakedContentFilterSuffix(ps[i].text), ps[i].type) \in Seq(Parts)
      BY <2>2, LeakCut, PartAppended, EmptySeq
    <2>. QED BY <2>3, Joined
  <1>. HIDE DEF Next, T, n
  <1>3. F \in [(1..n) \X T -> T] /\ \A i \in 1..n, x \in T : F[<<i, x>>] = Next(i, x)
    BY <1>2
  <1>. HIDE DEF F
  <1>4. PICK g \in [0..n -> T] : Runs(<<>>, F, n, g)
    BY <1>1, <1>3, RunsExist
  <1>5. Rec(g)
    <2>1. ASSUME NEW i \in 0..n PROVE g[i] = IF i = 0 THEN <<>> ELSE Next(i, g[i - 1])
      <3>1. i # 0 => i \in 1..n /\ i - 1 \in 0..n
        BY <1>1
      <3>. QED BY <1>3, <1>4, <3>1 DEF Runs
    <2>. QED BY <1>4, <2>1
  <1>6. PICK h : Rec(h) /\ NodeLeakedFilter(ps) = h[n]
    BY <1>5 DEF NodeLeakedFilter, Collected, Over, Next, n
  <1>7. Follows(T, <<>>, F, n, h)
    <2>1. h[0] = <<>>
      BY <1>1, <1>6
    <2>2. ASSUME NEW i \in 1..n, h[i - 1] \in T PROVE h[i] = Next(i, h[i - 1])
      <3>1. i \in 0..n /\ i # 0
        BY <1>1
      <3>. QED BY <1>6, <3>1
    <2>. QED BY <1>3, <2>1, <2>2 DEF Follows
  <1>8. n \in 0..n
    BY <1>1
  <1>. HIDE DEF Rec
  <1>9. \A i \in 0..n : h[i] \in T
    BY <1>1, <1>3, <1>7, RunsTyped
  <1>. QED BY <1>6, <1>8, <1>9 DEF T

LEMMA StatedPicked ==
    ASSUME NEW X, NEW frags \in Seq(X)
    PROVE  Picked(frags, Stated) \in Seq(X)
  <1>. DEFINE T == Seq(X)
              n == Len(frags)
              Next(i, x) == IF Stated(frags[i]) THEN Append(x, frags[i]) ELSE x
              F == [p \in (1..n) \X T |-> Next(p[1], p[2])]
              Rec(h) == h = [i \in 0..n |-> IF i = 0 THEN <<>> ELSE Next(i, h[i - 1])]
  <1>1. n \in Nat /\ <<>> \in T
    BY Members, EmptySeq
  <1>2. ASSUME NEW i \in 1..n, NEW x \in T PROVE Next(i, x) \in T
    <2>1. frags[i] \in X
      BY <1>1, Members
    <2>. QED BY <2>1, AppendProperties
  <1>. HIDE DEF Next, T, n
  <1>3. F \in [(1..n) \X T -> T] /\ \A i \in 1..n, x \in T : F[<<i, x>>] = Next(i, x)
    BY <1>2
  <1>. HIDE DEF F
  <1>4. PICK g \in [0..n -> T] : Runs(<<>>, F, n, g)
    BY <1>1, <1>3, RunsExist
  <1>5. Rec(g)
    <2>1. ASSUME NEW i \in 0..n PROVE g[i] = IF i = 0 THEN <<>> ELSE Next(i, g[i - 1])
      <3>1. i # 0 => i \in 1..n /\ i - 1 \in 0..n
        BY <1>1
      <3>. QED BY <1>3, <1>4, <3>1 DEF Runs
    <2>. QED BY <1>4, <2>1
  <1>6. PICK h : Rec(h) /\ Picked(frags, Stated) = h[n]
    BY <1>5 DEF Picked, Over, Next, n
  <1>7. Follows(T, <<>>, F, n, h)
    <2>1. h[0] = <<>>
      BY <1>1, <1>6
    <2>2. ASSUME NEW i \in 1..n, h[i - 1] \in T PROVE h[i] = Next(i, h[i - 1])
      <3>1. i \in 0..n /\ i # 0
        BY <1>1
      <3>. QED BY <1>6, <3>1
    <2>. QED BY <1>3, <2>1, <2>2 DEF Follows
  <1>8. n \in 0..n
    BY <1>1
  <1>. HIDE DEF Rec
  <1>9. \A i \in 0..n : h[i] \in T
    BY <1>1, <1>3, <1>7, RunsTyped
  <1>. QED BY <1>6, <1>8, <1>9 DEF T

LEMMA TextKept ==
    ASSUME NEW ps \in Seq(Parts)
    PROVE  dropThinkingParts(ps) \in Seq(ShownParts(FALSE))
  <1>. DEFINE T == Seq(ShownParts(FALSE))
              n == Len(ps)
              Next(i, x) == IF ps[i].type # "thinking" THEN Append(x, ps[i]) ELSE x
              F == [p \in (1..n) \X T |-> Next(p[1], p[2])]
              Rec(h) == h = [i \in 0..n |-> IF i = 0 THEN <<>> ELSE Next(i, h[i - 1])]
  <1>1. n \in Nat /\ <<>> \in T
    BY Members, EmptySeq
  <1>2. ASSUME NEW i \in 1..n, NEW x \in T PROVE Next(i, x) \in T
    <2>1. ps[i] \in Parts
      BY <1>1, Members
    <2>2. ps[i].type # "thinking" => ps[i] \in ShownParts(FALSE)
      BY <2>1 DEF Parts, ShownParts, PartTypes
    <2>. QED BY <2>2, AppendProperties
  <1>. HIDE DEF Next, T, n
  <1>3. F \in [(1..n) \X T -> T] /\ \A i \in 1..n, x \in T : F[<<i, x>>] = Next(i, x)
    BY <1>2
  <1>. HIDE DEF F
  <1>4. PICK g \in [0..n -> T] : Runs(<<>>, F, n, g)
    BY <1>1, <1>3, RunsExist
  <1>5. Rec(g)
    <2>1. ASSUME NEW i \in 0..n PROVE g[i] = IF i = 0 THEN <<>> ELSE Next(i, g[i - 1])
      <3>1. i # 0 => i \in 1..n /\ i - 1 \in 0..n
        BY <1>1
      <3>. QED BY <1>3, <1>4, <3>1 DEF Runs
    <2>. QED BY <1>4, <2>1
  <1>6. PICK h : Rec(h) /\ dropThinkingParts(ps) = h[n]
    BY <1>5 DEF dropThinkingParts, Picked, Over, Next, n
  <1>7. Follows(T, <<>>, F, n, h)
    <2>1. h[0] = <<>>
      BY <1>1, <1>6
    <2>2. ASSUME NEW i \in 1..n, h[i - 1] \in T PROVE h[i] = Next(i, h[i - 1])
      <3>1. i \in 0..n /\ i # 0
        BY <1>1
      <3>. QED BY <1>6, <3>1
    <2>. QED BY <1>3, <2>1, <2>2 DEF Follows
  <1>8. n \in 0..n
    BY <1>1
  <1>. HIDE DEF Rec
  <1>9. \A i \in 0..n : h[i] \in T
    BY <1>1, <1>3, <1>7, RunsTyped
  <1>. QED BY <1>6, <1>8, <1>9 DEF T

LEMMA NodePartsTyped ==
    ASSUME NEW ps \in Seq(Parts), NEW thinking \in BOOLEAN, NEW next \in PartTypes
    PROVE  NodeParts(ps, thinking, next) \in NodeChunks(thinking)
  <1>. DEFINE split == splitThinkingParts(NodeLeakedFilter(ps))
              kept == IF thinking THEN split.parts ELSE dropThinkingParts(split.parts)
              type == IF split.over \/ ~thinking THEN "text" ELSE next
  <1>1. split.parts \in Seq(Parts)
    BY LeaksCut, ThinkingSplit DEF Splits
  <1>. HIDE DEF split
  <1>2. Parts = ShownParts(TRUE)
    BY DEF Parts, ShownParts
  <1>3. kept \in Seq(ShownParts(thinking))
    BY <1>1, <1>2, TextKept
  <1>4. type \in PartTypes
    BY DEF PartTypes
  <1>. HIDE DEF kept, type
  <1>5. [parts |-> kept, finished |-> FALSE, type |-> type] \in NodeChunks(thinking)
    BY <1>3, <1>4 DEF NodeChunks
  <1>. QED BY <1>5 DEF NodeParts, finalizeThinkingParts, NodeSplitThinking, split, kept, type

LEMMA NoPartsTyped ==
    ASSUME NEW thinking, NEW finished \in BOOLEAN, NEW next \in PartTypes
    PROVE  NodeNoParts(finished, next) \in NodeChunks(thinking)
  BY EmptySeq DEF NodeNoParts, NodeChunks

LEMMA NodeValueRead ==
    ASSUME NEW frame \in Frames, NEW direct \in Seq(Parts), NEW partType \in PartTypes, NEW type \in PartTypes,
           NEW thinking \in BOOLEAN
    PROVE  NodeValue(frame, direct, partType, type, thinking) \in NodeChunks(thinking)
  <1>. DEFINE t == NodeText(frame, direct, partType, type, thinking)
              e == extractContentRecursive(frame.items, partType)
              u == NodeItems(e, direct, type, thinking)
              frags == Picked(frame.items, Stated)
              v == NodeResponse(frags, partType, type, thinking)
  <1>1. frame.text \in Text /\ frame.items \in Seq(Patches) /\ (\A x \in Patches : x.text \in Text)
    BY DEF Frames, Patches
  <1>2. TRUE \in BOOLEAN
    OBVIOUS
  <1>3. t \in NodeChunks(thinking)
    <2>1. Part(frame.text, partType) \in Parts
      BY <1>1 DEF Part, Parts
    <2>2. <<Part(frame.text, partType)>> \in Seq(Parts)
      BY <2>1
    <2>3. direct \o asContentParts(<<Part(frame.text, partType)>>) \in Seq(Parts)
      BY <2>2, PartsCleaned, Joined
    <2>. QED BY <1>2, <2>3, NodePartsTyped, NoPartsTyped DEF NodeText
  <1>4. u \in NodeChunks(thinking)
    <2>1. e.parts \in Seq(Parts)
      BY <1>1, ItemsRead, PartsCleaned DEF extractContentRecursive
    <2>. HIDE DEF e
    <2>2. direct \o e.parts \in Seq(Parts)
      BY <2>1, Joined
    <2>. QED BY <1>2, <2>2, NodePartsTyped, NoPartsTyped DEF NodeItems
  <1>5. v \in NodeChunks(thinking)
    <2>1. frags \in Seq(Patches)
      BY <1>1, StatedPicked
    <2>. HIDE DEF frags
    <2>2. asContentParts(OfFragments(frags, partType)) \in Seq(Parts) /\ LastNamed(frags, type) \in PartTypes
      BY <1>1, <2>1, FragmentsRead, PartsCleaned, LastTypeNamed
    <2>. QED BY <2>2, NodePartsTyped DEF NodeResponse
  <1>. HIDE DEF t, u, v
  <1>6. NodeValue(frame, direct, partType, type, thinking) =
            CASE frame.is = "text" -> t [] frame.is = "items" -> u [] OTHER -> v
    BY DEF NodeValue, t, u, v, e, frags
  <1>. QED BY <1>3, <1>4, <1>5, <1>6

LEMMA PartTypeResolved ==
    ASSUME NEW path, NEW thinking \in BOOLEAN, NEW type \in PartTypes
    PROVE  resolvePartType(path, thinking, type) \in PartTypes
  <1>1. "text" \in PartTypes /\ "thinking" \in PartTypes
    BY DEF PartTypes
  <1>2. CASE path = "response/thinking_content"
    BY <1>1, <1>2 DEF resolvePartType, FragmentContentPath
  <1>3. CASE path # "response/thinking_content"
    <2>1. CASE path = "response/content"
      BY <1>1, <2>1 DEF resolvePartType, FragmentContentPath
    <2>2. CASE path # "response/content"
      BY <1>1, <1>3, <2>2 DEF resolvePartType
    <2>. QED BY <2>1, <2>2
  <1>. QED BY <1>2, <1>3

LEMMA NodeChunkRead ==
    ASSUME NEW frame \in Frames, NEW thinking \in BOOLEAN, NEW current \in PartTypes
    PROVE  parseChunkForContent(frame, thinking, current) \in NodeChunks(thinking)
  <1>. DEFINE frags == NodeDirectFragments(frame)
              type == NodeNestedType(frame, current)
              direct == asContentParts(OfFragments(frags, "text"))
              partType == NodePartType(frame.path, thinking, type)
              v == NodeOfType(frame, type, thinking)
  <1>1. frame.items \in Seq(Patches) /\ (\A x \in Patches : x.text \in Text) /\ "text" \in PartTypes
        /\ "thinking" \in PartTypes /\ <<>> \in Seq(Patches)
    BY EmptySeq DEF Frames, Patches, PartTypes
  <1>2. frags \in Seq(Patches)
    BY <1>1, StatedPicked DEF NodeDirectFragments
  <1>. HIDE DEF frags
  <1>3. type \in PartTypes
    <2>. DEFINE named == LastNamed(frags, current)
    <2>1. named \in PartTypes
      BY <1>2, LastTypeNamed
    <2>. HIDE DEF named
    <2>2. updateTypeFromNestedResponse(frame, named) \in PartTypes
      BY <1>1, <2>1, NestedTypes DEF updateTypeFromNestedResponse
    <2>. QED BY <2>2 DEF NodeNestedType, named, frags
  <1>. HIDE DEF type
  <1>4. partType \in PartTypes
    BY <1>1, <1>3, PartTypeResolved DEF NodePartType
  <1>. HIDE DEF partType
  <1>5. direct \in Seq(Parts)
    BY <1>1, <1>2, FragmentsRead, PartsCleaned
  <1>. HIDE DEF direct
  <1>6. v \in NodeChunks(thinking)
    <2>1. NodeValue(frame, direct, partType, type, thinking) \in NodeChunks(thinking)
      BY <1>3, <1>4, <1>5, NodeValueRead
    <2>. QED BY <2>1 DEF NodeOfType, direct, partType, frags
  <1>. DEFINE A == shouldSkipPath(frame.path) \/ (frame.is = "none" /\ ~isStatusPath(frame.path))
              B == isStatusPath(frame.path)
              c == frame.text = FINISHED
  <1>7. NodeNoParts(FALSE, current) \in NodeChunks(thinking) /\ NodeNoParts(c, current) \in NodeChunks(thinking)
    <2>1. FALSE \in BOOLEAN /\ c \in BOOLEAN
      OBVIOUS
    <2>. HIDE DEF c
    <2>. QED BY <2>1, NoPartsTyped
  <1>8. parseChunkForContent(frame, thinking, current) =
            CASE A -> NodeNoParts(FALSE, current) [] B -> NodeNoParts(c, current) [] OTHER -> v
    BY DEF parseChunkForContent, type, v
  <1>9. A => ~B
    BY DEF shouldSkipPath, isStatusPath, isFragmentStatusPath
  <1>. HIDE DEF A, B, c, v
  <1>. QED BY <1>6, <1>7, <1>8, <1>9

-----------------------------------------------------------------------------
\* NodeStream: the port's parser and sieve

\* What is known of no string is that it is one: the words the port itself writes.
Words == STRING \union {"/t", "c>", "tc1", "tc2", "call"}

LEMMA NodeCallsCounted ==
    ASSUME NEW s \in Seq(Words)
    PROVE  parseStandaloneToolCalls(s) \in Nat
  <1>. DEFINE t == Trim(s)
  <1>1. t \in Seq(Words)
    BY Trimmed
  <1>. HIDE DEF t
  <1>2. ASSUME NEW u \in Seq(Words) PROVE parseMarkupToolCalls(u) \in Nat
    <2>1. u \in Seq(Words) /\ Len(u) \in Nat
      BY <1>2, Members
    <2>. DEFINE ws == findXmlElementBlocks(u, "tool_calls")
    <2>2. \A w \in ws : w.at \in 1..Len(u) /\ w.body \in Seq(Words) /\ Len(w.body) <= Len(u)
      BY <2>1, ElementsInPlace DEF findXmlElementBlocks
    <2>. HIDE DEF ws
    <2>3. CallsOfWrappers(ws) \in Nat
      BY <2>1, <2>2, WrappersCounted
    <2>. QED BY <2>3 DEF parseMarkupToolCalls, ws
  <1>3. sanitizeLooseCDATA(t) \in Seq(Words)
    BY <1>1, Trimmed, Sanitized DEF sanitizeLooseCDATA
  <1>4. parseMarkupToolCalls(t) \in Nat /\ parseMarkupToolCalls(sanitizeLooseCDATA(t)) \in Nat
    BY <1>1, <1>2, <1>3
  <1>. QED BY <1>4 DEF parseStandaloneToolCalls, NodeRecovered, t

LEMMA BrokenTyped ==
    ASSUME NEW s \in Seq(Words), NEW a \in 1..Len(s), NEW z \in 1..Len(s)
    PROVE  BrokenBlock(s, a, z) \in Captures(Words)
  <1>1. /\ Len(s) \in Nat /\ a \in Nat /\ a > 0 /\ a - 1 \in Int /\ a - 1 <= Len(s)
        /\ z - 1 \in Int /\ z - 1 <= Len(s) /\ z + 1 \in Nat /\ z + 1 > 0
    BY Members
  <1>2. SubSeq(s, 1, a - 1) \in Seq(Words) /\ SubSeq(s, a, z - 1) \in Seq(Words)
    BY <1>1, Cut
  <1>3. From(s, z + 1) \in Seq(Words)
    BY <1>1, FromThere
  <1>4. <<"/t">> \in Seq(Words) /\ <<"c>">> \in Seq(Words)
    BY DEF Words
  <1>5. SubSeq(s, a, z - 1) \o <<"/t">> \in Seq(Words)
    BY <1>2, <1>4, Joined
  <1>6. <<"c>">> \o From(s, z + 1) \in Seq(Words)
    BY <1>3, <1>4, Joined
  <1>7. [calls |-> 0, saw |-> FALSE] \in Parsed
    BY DEF Parsed
  <1>. QED BY <1>1, <1>2, <1>5, <1>6, <1>7 DEF BrokenBlock, Captures

LEMMA NodeBlockTyped ==
    ASSUME NEW s \in Seq(Words), NEW a \in 1..Len(s), NEW z \in 1..Len(s), NEW opening \in Seq(Words)
    PROVE  NodeBlock(s, a, z, opening) \in Captures(Words)
  <1>. DEFINE b == opening \o SubSeq(s, a, z)
              parsed == [calls |-> parseStandaloneToolCalls(b), saw |-> FALSE]
  <1>1. Len(s) \in Nat /\ a \in Nat /\ a > 0 /\ z \in Int /\ z <= Len(s)
    BY Members
  <1>2. SubSeq(s, a, z) \in Seq(Words)
    BY <1>1, Cut
  <1>3. b \in Seq(Words)
    BY <1>2, Joined
  <1>. HIDE DEF b
  <1>4. parsed \in Parsed
    BY <1>3, NodeCallsCounted DEF Parsed
  <1>. HIDE DEF parsed
  <1>5. BlockOf(s, a, z, parsed) \in Captures(Words)
    BY <1>1, <1>4, BlockTyped
  <1>6. WholeBlock(s, a, z, opening) = BlockOf(s, a, z, parsed)
    BY DEF WholeBlock, parsed, b
  <1>. QED BY <1>5, <1>6, BrokenTyped DEF NodeBlock

\* The sieve keeps to the words it is given, and to line breaks when there is
\* nothing else in the text.
LineBreaks == {"nl"}
Vocabularies == {Words, LineBreaks}

LEMMA LineBreaksBare ==
    ASSUME NEW s \in Seq(LineBreaks)
    PROVE  FindToolMarkupTags(s) = {}
  <1>1. ASSUME NEW i \in DOMAIN s PROVE scanToolMarkupTagAt(s, i) = {}
    <2>1. s[i] = "nl"
      BY Members DEF LineBreaks
    <2>2. ~WrapperAt(s, i) /\ s[i] # "/tc" /\ s[i] # "inv" /\ s[i] # "/inv" /\ s[i] # "par"
      BY <2>1 DEF WrapperAt
    <2>. QED BY <2>2 DEF scanToolMarkupTagAt
  <1>. QED BY <1>1 DEF FindToolMarkupTags

LEMMA NodeWrapperBlocks ==
    ASSUME NEW W \in Vocabularies, NEW s \in Seq(W)
    PROVE  NodeWrappers(s) \in SUBSET Captures(W)
  <1>1. CASE W = Words
    <2>1. <<>> \in Seq(Words)
      BY EmptySeq
    <2>2. ASSUME NEW p \in Spans(s, "tool_calls")
          PROVE  NodeBlock(s, p[1].at, p[2].end, <<>>) \in Captures(Words)
      <3>1. p[1].at \in 1..Len(s) /\ p[2].end \in 1..Len(s)
        BY SpansInPlace, TagsInPlace
      <3>. QED BY <1>1, <2>1, <3>1, NodeBlockTyped
    <2>. QED BY <1>1, <2>2 DEF NodeWrappers
  <1>2. CASE W = LineBreaks
    <2>1. Spans(s, "tool_calls") = {}
      BY <1>2, LineBreaksBare DEF Spans
    <2>. QED BY <2>1 DEF NodeWrappers
  <1>. QED BY <1>1, <1>2 DEF Vocabularies

LEMMA NodeBareBlocks ==
    ASSUME NEW W \in Vocabularies, NEW s \in Seq(W)
    PROVE  NodeBareInvokes(s) \in SUBSET Captures(W)
  <1>1. CASE W = Words
    <2>1. <<"tc1", "tc2">> \in Seq(Words)
      BY DEF Words
    <2>2. ASSUME NEW i \in FirstNamed(s, "invoke", FALSE, 1), NEW c \in FirstNamed(s, "tool_calls", TRUE, i.at + 1)
          PROVE  NodeBlock(s, i.at, c.end, <<"tc1", "tc2">>) \in Captures(Words)
      <3>1. i.at \in 1..Len(s) /\ c.end \in 1..Len(s)
        BY TagsInPlace DEF FirstNamed, FirstOf
      <3>. QED BY <1>1, <2>1, <3>1, NodeBlockTyped
    <2>3. ASSUME NEW b \in NodeBareInvokes(s) PROVE b \in Captures(Words)
      <3>1. PICK i \in FirstNamed(s, "invoke", FALSE, 1) :
                  b \in {NodeBlock(s, i.at, c.end, <<"tc1", "tc2">>) : c \in FirstNamed(s, "tool_calls", TRUE, i.at + 1)}
        BY <2>3 DEF NodeBareInvokes
      <3>. QED BY <2>2, <3>1
    <2>. QED BY <1>1, <2>3
  <1>2. CASE W = LineBreaks
    <2>1. FirstNamed(s, "invoke", FALSE, 1) = {}
      BY <1>2, LineBreaksBare DEF FirstNamed, FirstOf
    <2>. QED BY <2>1 DEF NodeBareInvokes
  <1>. QED BY <1>1, <1>2 DEF Vocabularies

LEMMA NodeCaptureJudged ==
    ASSUME NEW W \in Vocabularies, NEW s \in Seq(W)
    PROVE  consumeXMLToolCapture_js(s) \in Judgements(W) /\ consumeToolCapture_js(s) \in Judgements(W)
  <1>1. consumeXMLToolCapture_js(s) \in Judgements(W)
    <2>. DEFINE opens == {t.at : t \in OpenWrappers(s)}
    <2>1. OpenWrappers(s) # {} => opens # {}
      OBVIOUS
    <2>. HIDE DEF opens
    <2>2. OpenWrappers(s) # {} => JudgeWrappers(opens, NodeWrappers(s)) \in Judgements(W)
      BY <2>1, NodeWrapperBlocks, WrappersJudged
    <2>3. JudgeBareInvokes(NodeBareInvokes(s)) \in Judgements(W)
      BY NodeBareBlocks, BareJudged
    <2>. QED BY <2>2, <2>3 DEF consumeXMLToolCapture_js, opens
  <1>2. Judged(s, 0, <<>>) \in Judgements(W) /\ NotReady \in Judgements(W)
    BY EmptySeq, JudgedTyped
  <1>. QED BY <1>1, <1>2 DEF consumeToolCapture_js, NodeOrHeld

\* Places in a text without its line breaks are places in the text.
LEMMA LeadLeftOut ==
    ASSUME NEW W \in Vocabularies, NEW s \in Seq(W)
    PROVE  /\ WithoutLead(s) \in Seq(W) /\ Len(WithoutLead(s)) <= Len(s)
           /\ Trim(s) \in Seq(W) /\ Len(Trim(s)) <= Len(s)
  <1>. DEFINE P == {i \in DOMAIN s : s[i] # "nl"} \union {Len(s) + 1}
              Q == {i \in DOMAIN s : s[i] # "nl"}
  <1>1. Len(s) \in Nat /\ Len(s) + 1 \in Nat /\ DOMAIN s = 1..Len(s)
    BY Members
  <1>2. WithoutLead(s) \in Seq(W) /\ Len(WithoutLead(s)) <= Len(s)
    <2>1. P # {} /\ P \in SUBSET (0..(Len(s) + 1)) /\ \A y \in P : y \in Nat /\ y > 0
      BY <1>1
    <2>. HIDE DEF P
    <2>2. Least(P) \in P
      BY <1>1, <2>1, LeastIs
    <2>3. Least(P) \in Nat /\ Least(P) > 0
      BY <2>1, <2>2
    <2>4. From(s, Least(P)) \in Seq(W)
          /\ Len(From(s, Least(P))) = IF Least(P) <= Len(s) THEN Len(s) - Least(P) + 1 ELSE 0
      BY <1>1, <2>3, FromThere
    <2>5. Len(From(s, Least(P))) <= Len(s)
      BY <1>1, <2>3, <2>4
    <2>. QED BY <2>4, <2>5 DEF WithoutLead, WithoutStartLines, P
  <1>3. Trim(s) \in Seq(W)
    BY <1>1, Trimmed
  <1>4. Len(Trim(s)) <= Len(s)
    <2>1. Trim(s) = IF Q = {} THEN <<>> ELSE SubSeq(s, Least(Q), Greatest(Q))
      BY DEF Trim, Between
    <2>2. Q \in SUBSET (0..Len(s)) /\ \A y \in Q : y \in Nat /\ y > 0 /\ y <= Len(s)
      BY <1>1
    <2>. HIDE DEF Q
    <2>3. CASE Q = {}
      <3>1. Trim(s) = <<>>
        BY <2>1, <2>3
      <3>2. Len(<<>>) = 0
        OBVIOUS
      <3>. QED BY <1>1, <3>1, <3>2
    <2>4. CASE Q # {}
      <3>1. Least(Q) \in Q /\ Greatest(Q) \in Q
        BY <1>1, <2>2, <2>4, LeastIs, GreatestIs
      <3>2. Least(Q) \in Nat /\ Least(Q) > 0
        BY <2>2, <3>1
      <3>3. Greatest(Q) \in Int /\ Greatest(Q) <= Len(s)
        <4>1. Greatest(Q) \in Nat /\ Greatest(Q) <= Len(s)
          BY <2>2, <3>1
        <4>. QED BY <4>1
      <3>4. Len(SubSeq(s, Least(Q), Greatest(Q))) <= Len(s)
        BY <1>1, <3>2, <3>3, Cut
      <3>. QED BY <2>1, <2>4, <3>4
    <2>. QED BY <2>3, <2>4
  <1>. QED BY <1>2, <1>3, <1>4

LEMMA NodePlaces ==
    ASSUME NEW st, NEW W \in Vocabularies, NEW s \in Seq(W)
    PROVE  findToolSegmentStart_js(st, s) \in 0..Len(s) /\ splitSafeContent(st, s) \in 0..Len(s)
  <1>1. Len(s) \in Nat
    BY Members
  <1>2. findToolSegmentStart_js(st, s) \in 0..Len(s)
    <2>. DEFINE P == {i \in {t.at : t \in findToolMarkupTagOutsideIgnored(s)} : ~insideCodeFence(st, SubSeq(s, 1, i - 1))}
    <2>1. ASSUME NEW t \in findToolMarkupTagOutsideIgnored(s) PROVE t.at \in 1..Len(s)
      <3>1. WithoutLead(s) \in Seq(W) /\ Len(WithoutLead(s)) <= Len(s) /\ Len(WithoutLead(s)) \in Nat
        BY LeadLeftOut, Members
      <3>2. t.at \in 1..Len(WithoutLead(s))
        BY <2>1, <3>1, TagsInPlace DEF findToolMarkupTagOutsideIgnored
      <3>. QED BY <1>1, <3>1, <3>2
    <2>2. P \in SUBSET (1..Len(s))
      BY <2>1
    <2>. HIDE DEF P
    <2>3. LeastOrZero(P) \in 0..Len(s)
      BY <1>1, <2>2, SegmentStarts
    <2>. QED BY <2>3 DEF findToolSegmentStart_js, P
  <1>3. splitSafeContent(st, s) \in 0..Len(s)
    <2>. DEFINE place == findPartialToolMarkupStart(s)
    <2>1. Len(Trim(s)) \in Nat /\ Len(Trim(s)) <= Len(s)
      BY LeadLeftOut, Members
    <2>2. place \in Nat /\ place <= Len(s)
      BY <1>1, <2>1 DEF findPartialToolMarkupStart
    <2>. HIDE DEF place
    <2>3. Len(s) \in 0..Len(s) /\ (place > 0 => place - 1 \in 0..Len(s))
      BY <1>1, <2>2
    <2>. QED BY <2>3 DEF splitSafeContent, place
  <1>. QED BY <1>2, <1>3

LEMMA NodeOneSift ==
    ASSUME NEW W \in Vocabularies, NEW st \in Sieves(W)
    PROVE  NodeSiftStep(st) \in Sieves(W)
  <1>. DEFINE s == st.capture \o st.pending
              p == st.pending
              begin == findToolSegmentStart_js(st, p)
              safe == splitSafeContent(st, p)
              a == PassCalls(st)
              b == Captured(st, s, consumeToolCapture_js(s))
              c == Scanned(st, p, begin, safe)
  <1>1. s \in Seq(W) /\ p \in Seq(W) /\ Len(p) \in Nat
    BY SieveFields, Joined, Members
  <1>2. a \in Sieves(W)
    BY CallsPassed
  <1>3. b \in Sieves(W)
    <2>. HIDE DEF s
    <2>. QED BY <1>1, NodeCaptureJudged, CapturedTyped
  <1>4. begin \in 0..Len(p) /\ safe \in 0..Len(p)
    BY <1>1, NodePlaces
  <1>5. safe \in Int /\ safe <= Len(p) /\ safe >= 0
    BY <1>1, <1>4
  <1>. HIDE DEF begin, safe, p
  <1>6. c \in Sieves(W)
    BY <1>1, <1>4, <1>5, ScannedTyped
  <1>. DEFINE A == st.calls > 0
              B == st.calls = 0 /\ st.capturing
              C == st.calls = 0 /\ ~st.capturing /\ st.pending # <<>>
  <1>7. NodeSiftStep(st) = CASE A -> a [] B -> b [] C -> c [] OTHER -> st
    BY DEF NodeSiftStep, a, b, c, s, p, begin, safe
  <1>8. (A => ~B /\ ~C) /\ (B => ~C)
    OBVIOUS
  <1>. HIDE DEF A, B, C, a, b, c
  <1>. QED BY <1>2, <1>3, <1>6, <1>7, <1>8

LEMMA NodeSifting ==
    ASSUME NEW W \in Vocabularies, NEW st \in Sieves(W)
    PROVE  NodeSift(st) \in Sieves(W)
  <1>. DEFINE T == Waits(W)
              n == NodeSteps(st)
              e == Stepped(st, NodeSiftStep(st))
              Next(x) == IF x.waits THEN x ELSE Stepped(x.sieve, NodeSiftStep(x.sieve))
              F == [p \in (1..n) \X T |-> Next(p[2])]
              Rec(h) == h = [i \in 0..n |-> IF i = 0 THEN e ELSE Next(h[i - 1])]
  <1>1. n \in Nat
    <2>1. \A a, b \in Nat : 2 * (2 * (a + b) + 2) \in Nat
      OBVIOUS
    <2>2. Len(st.capture) \in Nat /\ Len(st.pending) \in Nat
      BY SieveFields, Members
    <2>. QED BY <2>1, <2>2 DEF NodeSteps, Steps
  <1>2. e \in T
    BY NodeOneSift, SteppedTyped
  <1>3. \A x \in T : Next(x) \in T
    <2>1. ASSUME NEW x \in T PROVE Next(x) \in T
      <3>1. x.sieve \in Sieves(W)
        BY DEF Waits
      <3>2. Stepped(x.sieve, NodeSiftStep(x.sieve)) \in T
        BY <3>1, NodeOneSift, SteppedTyped
      <3>. HIDE DEF T
      <3>. QED BY <3>2
    <2>. QED BY <2>1
  <1>4. F \in [(1..n) \X T -> T] /\ \A i \in 1..n, x \in T : F[<<i, x>>] = Next(x)
    <2>. HIDE DEF Next, T, n
    <2>. QED BY <1>3
  <1>. HIDE DEF F, n, T, e
  <1>5. PICK g \in [0..n -> T] : Runs(e, F, n, g)
    BY <1>1, <1>2, <1>4, RunsExist
  <1>6. Rec(g)
    <2>1. ASSUME NEW i \in 0..n PROVE g[i] = IF i = 0 THEN e ELSE Next(g[i - 1])
      <3>1. i # 0 => i \in 1..n /\ i - 1 \in 0..n
        BY <1>1
      <3>. HIDE DEF Next
      <3>. QED BY <1>4, <1>5, <3>1 DEF Runs
    <2>. HIDE DEF Next
    <2>. QED BY <1>5, <2>1
  <1>7. PICK h : Rec(h) /\ NodeSift(st) = h[n].sieve
    BY <1>6 DEF NodeSift, n, e
  <1>8. Follows(T, e, F, n, h)
    <2>. HIDE DEF Next
    <2>1. h[0] = e
      BY <1>1, <1>7
    <2>2. ASSUME NEW i \in 1..n, h[i - 1] \in T PROVE h[i] = Next(h[i - 1])
      <3>1. i \in 0..n /\ i # 0
        BY <1>1
      <3>. QED BY <1>7, <3>1
    <2>. QED BY <1>4, <2>1, <2>2 DEF Follows
  <1>9. n \in 0..n
    BY <1>1
  <1>10. \A i \in 0..n : h[i] \in T
    <2>. HIDE DEF Rec, Next
    <2>. QED BY <1>1, <1>2, <1>4, <1>8, RunsTyped
  <1>. QED BY <1>7, <1>9, <1>10 DEF T, Waits

LEMMA NodeChunkProcessed ==
    ASSUME NEW W \in Vocabularies, NEW st \in Sieves(W), NEW s \in Seq(W)
    PROVE  processToolSieveChunk(st, s) \in Sieves(W)
  <1>. DEFINE p == st.pending \o s
              q == [st EXCEPT !.events = <<>>, !.pending = p]
  <1>1. p \in Seq(W) /\ <<>> \in Seq(SiftEvents(W))
    BY SieveFields, Joined, EmptySeq
  <1>2. q = [st EXCEPT !.events = <<>>, !.pending = @ \o s]
    BY DEF Sieves
  <1>. HIDE DEF p
  <1>3. q \in Sieves(W)
    BY <1>1, SieveFields, SieveUpdates DEF Sieves
  <1>. HIDE DEF q
  <1>4. NodeSift(q) \in Sieves(W)
    BY <1>3, NodeSifting
  <1>. QED BY <1>2, <1>4 DEF processToolSieveChunk

LEMMA NodeAllFlushed ==
    ASSUME NEW W \in Vocabularies, NEW st \in Sieves(W)
    PROVE  flushToolSieve(st) \in Sieves(W)
  <1>. DEFINE q == processToolSieveChunk(st, <<>>)
              z == sanitizeLooseCDATA(q.capture)
  <1>1. q \in Sieves(W)
    BY EmptySeq, NodeChunkProcessed
  <1>. HIDE DEF q
  <1>2. q.capture \in Seq(W) /\ z \in Seq(W)
    BY <1>1, SieveFields, Trimmed, Sanitized DEF sanitizeLooseCDATA
  <1>. HIDE DEF z
  <1>3. consumeXMLToolCapture_js(z) \in Judgements(W) /\ consumeToolCapture_js(q.capture) \in Judgements(W)
    BY <1>2, NodeCaptureJudged
  <1>4. EmitText(q, q.capture) \in Sieves(W)
    BY <1>1, <1>2, TextEmitted
  <1>5. NodeOrRecovered(q, consumeXMLToolCapture_js(z)) \in Sieves(W)
    BY <1>1, <1>3, <1>4, AllLetOut DEF NodeOrRecovered
  <1>6. NodeFlushCapture(q, consumeToolCapture_js(q.capture)) \in Sieves(W)
    BY <1>1, <1>3, <1>4, <1>5, AllLetOut DEF NodeFlushCapture, z
  <1>7. NodeFlushed(q) \in Sieves(W)
    BY <1>1, <1>6, PendingLetOut DEF NodeFlushed
  <1>. QED BY <1>7 DEF flushToolSieve, q

Gathered(v, ps) == Over(ps, v, LAMBDA t, p : AddTo(t, p.text))

LEMMA DetectionNoted ==
    ASSUME NEW v \in Text, NEW ps \in Seq(Parts)
    PROVE  Gathered(v, ps) \in Text
  <1>. DEFINE T == Text
              n == Len(ps)
              Next(i, x) == AddTo(x, ps[i].text)
              F == [p \in (1..n) \X T |-> Next(p[1], p[2])]
              Rec(h) == h = [i \in 0..n |-> IF i = 0 THEN v ELSE Next(i, h[i - 1])]
  <1>1. n \in Nat /\ v \in T
    BY Members
  <1>2. ASSUME NEW i \in 1..n, NEW x \in T PROVE Next(i, x) \in T
    <2>1. ps[i] \in Parts
      BY <1>1, Members
    <2>2. ps[i].text \in Text
      BY <2>1 DEF Parts
    <2>. QED BY <2>2, TextTyped
  <1>. HIDE DEF Next, T, n
  <1>3. F \in [(1..n) \X T -> T] /\ \A i \in 1..n, x \in T : F[<<i, x>>] = Next(i, x)
    BY <1>2
  <1>. HIDE DEF F
  <1>4. PICK g \in [0..n -> T] : Runs(v, F, n, g)
    BY <1>1, <1>3, RunsExist
  <1>5. Rec(g)
    <2>1. ASSUME NEW i \in 0..n PROVE g[i] = IF i = 0 THEN v ELSE Next(i, g[i - 1])
      <3>1. i # 0 => i \in 1..n /\ i - 1 \in 0..n
        BY <1>1
      <3>. QED BY <1>3, <1>4, <3>1 DEF Runs
    <2>. QED BY <1>4, <2>1
  <1>6. PICK h : Rec(h) /\ Gathered(v, ps) = h[n]
    BY <1>5 DEF Gathered, Over, Next, n
  <1>7. Follows(T, v, F, n, h)
    <2>1. h[0] = v
      BY <1>1, <1>6
    <2>2. ASSUME NEW i \in 1..n, h[i - 1] \in T PROVE h[i] = Next(i, h[i - 1])
      <3>1. i \in 0..n /\ i # 0
        BY <1>1
      <3>. QED BY <1>6, <3>1
    <2>. QED BY <1>3, <2>1, <2>2 DEF Follows
  <1>8. n \in 0..n
    BY <1>1
  <1>. HIDE DEF Rec
  <1>9. \A i \in 0..n : h[i] \in T
    BY <1>1, <1>3, <1>7, RunsTyped
  <1>. QED BY <1>6, <1>8, <1>9 DEF T

-----------------------------------------------------------------------------
\* NodeStream: the two streams

Endings == {"", "stop", "tool_calls", "content_filter", "upstream_empty_output"}
ThoughtsOf(shown) == IF shown THEN Text ELSE {<<>>}
Tellings(shown) ==
    [sieve : Sieves(Words), type : PartTypes, thinking : ThoughtsOf(shown), text : Text, raw : Text, rawThinking : Text,
     detection : Text, told : Seq(Words), done : BOOLEAN, ended : Endings]

LEMMA TellingRead ==
    ASSUME NEW b \in BOOLEAN, NEW r \in Tellings(b)
    PROVE  /\ r.sieve \in Sieves(Words) /\ r.type \in PartTypes /\ r.thinking \in ThoughtsOf(b) /\ r.thinking \in Text
           /\ r.text \in Text /\ r.raw \in Text /\ r.rawThinking \in Text /\ r.detection \in Text /\ r.told \in Seq(Words)
           /\ r.done \in BOOLEAN /\ r.ended \in Endings /\ (~b => r.thinking = <<>>)
  <1>1. \A x \in ThoughtsOf(b) : x \in Text /\ (~b => x = <<>>)
    BY TextTyped DEF ThoughtsOf
  <1>. QED BY <1>1 DEF Tellings

LEMMA TellingUpdates ==
    ASSUME NEW b \in BOOLEAN, NEW r \in Tellings(b)
    PROVE  /\ \A s \in Sieves(Words) : [r EXCEPT !.sieve = s] \in Tellings(b)
           /\ \A t \in PartTypes : [r EXCEPT !.type = t] \in Tellings(b)
           /\ \A h \in ThoughtsOf(b) : [r EXCEPT !.thinking = h] \in Tellings(b)
           /\ \A x \in Text : [r EXCEPT !.text = x] \in Tellings(b) /\ [r EXCEPT !.raw = x] \in Tellings(b)
           /\ \A w \in Seq(Words) : /\ [r EXCEPT !.told = w] \in Tellings(b)
                                    /\ [r EXCEPT !.told = w, !.done = TRUE] \in Tellings(b)
           /\ \A e \in Endings : [r EXCEPT !.ended = e] \in Tellings(b)
           /\ \A x \in Text, h \in ThoughtsOf(b) : [r EXCEPT !.rawThinking = x, !.thinking = h] \in Tellings(b)
           /\ \A t \in PartTypes, x \in Text : [r EXCEPT !.type = t, !.detection = x] \in Tellings(b)
  <1>. DEFINE S == Sieves(Words)
              H == ThoughtsOf(b)
              X == Text
              W == Seq(Words)
              P == PartTypes
              E == Endings
              R == [sieve : S, type : P, thinking : H, text : X, raw : X, rawThinking : X, detection : X,
                    told : W, done : BOOLEAN, ended : E]
  <1>1. Tellings(b) = R
    BY DEF Tellings
  <1>2. r \in R
    BY <1>1
  <1>. HIDE DEF S, H, X, W, P, E
  <1>3. /\ \A s \in S : [r EXCEPT !.sieve = s] \in R
        /\ \A t \in P : [r EXCEPT !.type = t] \in R
        /\ \A h \in H : [r EXCEPT !.thinking = h] \in R
        /\ \A x \in X : [r EXCEPT !.text = x] \in R /\ [r EXCEPT !.raw = x] \in R
    BY <1>2
  <1>4. /\ \A w \in W : [r EXCEPT !.told = w] \in R /\ [r EXCEPT !.told = w, !.done = TRUE] \in R
        /\ \A e \in E : [r EXCEPT !.ended = e] \in R
        /\ \A x \in X, h \in H : [r EXCEPT !.rawThinking = x, !.thinking = h] \in R
        /\ \A t \in P, x \in X : [r EXCEPT !.type = t, !.detection = x] \in R
    BY <1>2
  <1>. HIDE DEF R
  <1>. QED BY <1>1, <1>3, <1>4 DEF S, H, X, W, P, E

LEMMA TextIsWords ==
    ASSUME NEW s \in Text
    PROVE  s \in Seq(Words)
  BY SeqMonotonic DEF Text, Words

LEMMA NewStreamTyped ==
    ASSUME NEW b \in BOOLEAN
    PROVE  NewStream(b) \in Tellings(b) /\ InitialType(b) \in PartTypes
  <1>1. NodeSieve \in Sieves(Words)
    BY NewSieveTyped DEF NodeSieve
  <1>2. InitialType(b) \in PartTypes
    BY DEF InitialType, PartTypes
  <1>3. <<>> \in ThoughtsOf(b) /\ <<>> \in Text /\ <<>> \in Seq(Words) /\ "" \in Endings
    BY TextTyped, EmptySeq DEF ThoughtsOf, Endings
  <1>. QED BY <1>1, <1>2, <1>3 DEF NewStream, Tellings

LEMMA CallsAreTold ==
    ASSUME NEW b \in BOOLEAN, NEW r \in Tellings(b), NEW n \in Nat
    PROVE  TellCalls(r, n) \in Tellings(b)
  <1>. DEFINE c == Calls(n)
              told == r.told \o c
  <1>1. c \in Seq(Words)
    <2>1. c \in [1..n -> Words]
      BY DEF Calls, Words
    <2>. HIDE DEF c
    <2>. QED BY <2>1, SeqDef
  <1>. HIDE DEF c
  <1>2. told \in Seq(Words)
    BY <1>1, TellingRead, Joined
  <1>3. [r EXCEPT !.told = @ \o c, !.done = TRUE] = [r EXCEPT !.told = told, !.done = TRUE]
    BY DEF Tellings
  <1>. HIDE DEF told
  <1>4. [r EXCEPT !.told = told, !.done = TRUE] \in Tellings(b)
    <2>1. \A w \in Seq(Words) : [r EXCEPT !.told = w, !.done = TRUE] \in Tellings(b)
      BY TellingUpdates
    <2>. QED BY <1>2, <2>1
  <1>. QED BY <1>3, <1>4 DEF TellCalls, c

LEMMA TextIsTold ==
    ASSUME NEW b \in BOOLEAN, NEW r \in Tellings(b), NEW s \in Seq(Words)
    PROVE  TellText(r, s) \in Tellings(b)
  <1>. DEFINE told == r.told \o s
  <1>1. told \in Seq(Words)
    BY TellingRead, Joined
  <1>2. [r EXCEPT !.told = @ \o s] = [r EXCEPT !.told = told]
    BY DEF Tellings
  <1>. HIDE DEF told
  <1>3. [r EXCEPT !.told = told] \in Tellings(b)
    <2>1. \A w \in Seq(Words) : [r EXCEPT !.told = w] \in Tellings(b)
      BY TellingUpdates
    <2>. QED BY <1>1, <2>1
  <1>. QED BY <1>2, <1>3 DEF TellText

\* What a stream of line breaks has told without a call, and holds back.
Quietly(r) == ~r.done => r.told \in Seq(LineBreaks)
Silent(r) == Blank(r.text) => r.sieve \in Sieves(LineBreaks) /\ Quietly(r)
NodeTellings(shown) == {r \in Tellings(shown) : Silent(r)}

LEMMA BlankText ==
    /\ \A s \in Text : Blank(s) => s \in Seq(LineBreaks)
    /\ \A s \in Seq(LineBreaks) : Blank(s)
    /\ \A s, t \in Text : Blank(s \o t) => Blank(s) /\ Blank(t)
  <1>1. ASSUME NEW s \in Text, Blank(s) PROVE s \in Seq(LineBreaks)
    <2>1. s \in Seq(STRING)
      BY DEF Text
    <2>2. Len(s) \in Nat /\ DOMAIN s = 1..Len(s) /\ s = [i \in 1..Len(s) |-> s[i]]
      BY <2>1, LenProperties
    <2>3. s \in [1..Len(s) -> LineBreaks]
      BY <1>1, <2>2 DEF Blank, LineBreaks
    <2>. QED BY <2>2, <2>3, SeqDef
  <1>2. ASSUME NEW s \in Seq(LineBreaks) PROVE Blank(s)
    BY Members DEF Blank, LineBreaks
  <1>3. ASSUME NEW s \in Text, NEW t \in Text, Blank(s \o t) PROVE Blank(s) /\ Blank(t)
    <2>. DEFINE st == s \o t
    <2>1. s \in Seq(STRING) /\ t \in Seq(STRING)
      BY DEF Text
    <2>2. /\ Len(s) \in Nat /\ Len(t) \in Nat /\ DOMAIN s = 1..Len(s) /\ DOMAIN t = 1..Len(t)
          /\ st \in Seq(STRING) /\ Len(st) = Len(s) + Len(t)
          /\ \A i \in 1..Len(s) + Len(t) : st[i] = IF i <= Len(s) THEN s[i] ELSE t[i - Len(s)]
      BY <2>1, Members, ConcatProperties
    <2>3. DOMAIN st = 1..Len(st)
      BY <2>2, Members
    <2>. HIDE DEF st
    <2>4. \A i \in 1..Len(s) + Len(t) : st[i] = "nl"
      BY <1>3, <2>2, <2>3 DEF Blank, st
    <2>5. ASSUME NEW i \in DOMAIN s PROVE s[i] = "nl"
      <3>1. i \in 1..Len(s) + Len(t) /\ i <= Len(s)
        BY <2>2
      <3>. QED BY <2>2, <2>4, <3>1
    <2>6. ASSUME NEW i \in DOMAIN t PROVE t[i] = "nl"
      <3>. DEFINE k == Len(s) + i
      <3>1. k \in 1..Len(s) + Len(t) /\ ~(k <= Len(s)) /\ k - Len(s) = i
        BY <2>2
      <3>. HIDE DEF k
      <3>2. st[k] = t[i]
        BY <2>2, <3>1
      <3>. QED BY <2>4, <3>1, <3>2
    <2>. QED BY <2>5, <2>6 DEF Blank
  <1>. QED BY <1>1, <1>2, <1>3

LEMMA CallsAreQuiet ==
    ASSUME NEW b \in BOOLEAN, NEW r \in Tellings(b), NEW n \in Nat
    PROVE  LET q == TellCalls(r, n) IN q.sieve = r.sieve /\ q.text = r.text /\ (Quietly(r) => Quietly(q))
  <1>. DEFINE q == [r EXCEPT !.told = @ \o Calls(n), !.done = TRUE]
  <1>1. q.sieve = r.sieve /\ q.text = r.text /\ q.done
    BY DEF Tellings
  <1>2. TellCalls(r, n) = IF n = 0 THEN r ELSE q
    BY DEF TellCalls
  <1>. HIDE DEF q
  <1>. QED BY <1>1, <1>2 DEF Quietly

LEMMA TextIsQuiet ==
    ASSUME NEW b \in BOOLEAN, NEW r \in Tellings(b), NEW s
    PROVE  LET q == TellText(r, s)
           IN  /\ q.sieve = r.sieve /\ q.text = r.text
               /\ Quietly(r) /\ s \in Seq(LineBreaks) => Quietly(q)
  <1>. DEFINE q == TellText(r, s)
              told == r.told \o s
  <1>1. q.sieve = r.sieve /\ q.text = r.text /\ q.done = r.done /\ q.told = told
    BY DEF Tellings, TellText
  <1>2. r.told \in Seq(LineBreaks) /\ s \in Seq(LineBreaks) => told \in Seq(LineBreaks)
    BY Joined
  <1>. HIDE DEF q, told
  <1>3. Quietly(r) /\ s \in Seq(LineBreaks) => Quietly(q)
    BY <1>1, <1>2 DEF Quietly
  <1>. QED BY <1>1, <1>3 DEF q

\* What the sieve lets out is told, and the sieve is kept; of line breaks the
\* client is told nothing else.
LEMMA NodeSieveTold ==
    ASSUME NEW b \in BOOLEAN, NEW r \in Tellings(b), NEW st \in Sieves(Words)
    PROVE  LET q == NodeSifted(r, st)
           IN  /\ q \in Tellings(b) /\ q.sieve = st /\ q.text = r.text
               /\ st \in Sieves(LineBreaks) /\ Quietly(r) => Quietly(q)
  <1>. DEFINE quiet == st \in Sieves(LineBreaks) /\ Quietly(r)
              T == {x \in Tellings(b) : x.sieve = st /\ x.text = r.text /\ (quiet => Quietly(x))}
              n == Len(st.events)
              Next(i, x) == NodeOnEvent(x, st.events[i])
              F == [p \in (1..n) \X T |-> Next(p[1], p[2])]
              Rec(h) == h = [i \in 0..n |-> IF i = 0 THEN [r EXCEPT !.sieve = st] ELSE Next(i, h[i - 1])]
  <1>1. n \in Nat /\ [r EXCEPT !.sieve = st] \in T
    <2>1. st.events \in Seq(SiftEvents(Words))
      BY SieveFields
    <2>2. [r EXCEPT !.sieve = st] \in Tellings(b)
      BY TellingUpdates
    <2>3. /\ [r EXCEPT !.sieve = st].sieve = st /\ [r EXCEPT !.sieve = st].text = r.text
          /\ [r EXCEPT !.sieve = st].told = r.told /\ [r EXCEPT !.sieve = st].done = r.done
      BY DEF Tellings
    <2>4. quiet => Quietly([r EXCEPT !.sieve = st])
      BY <2>3 DEF Quietly
    <2>5. n \in Nat
      BY <2>1, Members
    <2>. HIDE DEF quiet
    <2>. QED BY <2>2, <2>3, <2>4, <2>5
  <1>2. ASSUME NEW i \in 1..n, NEW x \in T PROVE Next(i, x) \in T
    <2>1. st.events[i] \in SiftEvents(Words)
      BY <1>1, SieveFields, Members
    <2>2. st.events[i].calls \in Nat /\ st.events[i].text \in Seq(Words)
      BY <2>1 DEF SiftEvents
    <2>3. quiet => st.events[i].text \in Seq(LineBreaks)
      <3>1. SUFFICES ASSUME st \in Sieves(LineBreaks) PROVE st.events[i].text \in Seq(LineBreaks)
        OBVIOUS
      <3>2. st.events[i] \in SiftEvents(LineBreaks)
        BY <1>1, <3>1, SieveFields, Members
      <3>. QED BY <3>2 DEF SiftEvents
    <2>. DEFINE e == st.events[i]
    <2>. HIDE DEF quiet, e
    <2>4. x \in Tellings(b) /\ x.sieve = st /\ x.text = r.text /\ (quiet => Quietly(x))
      OBVIOUS
    <2>5. TellCalls(x, e.calls) \in T
      <3>1. TellCalls(x, e.calls) \in Tellings(b)
        BY <2>2, <2>4, CallsAreTold DEF e
      <3>2. LET q == TellCalls(x, e.calls) IN q.sieve = x.sieve /\ q.text = x.text /\ (Quietly(x) => Quietly(q))
        BY <2>2, <2>4, CallsAreQuiet DEF e
      <3>. QED BY <2>4, <3>1, <3>2
    <2>6. TellText(x, e.text) \in T
      <3>1. TellText(x, e.text) \in Tellings(b)
        BY <2>2, <2>4, TextIsTold DEF e
      <3>2. LET q == TellText(x, e.text)
            IN  q.sieve = x.sieve /\ q.text = x.text /\ (Quietly(x) /\ e.text \in Seq(LineBreaks) => Quietly(q))
        BY <2>4, TextIsQuiet
      <3>3. quiet => e.text \in Seq(LineBreaks)
        BY <2>3 DEF e
      <3>. QED BY <2>4, <3>1, <3>2, <3>3
    <2>. HIDE DEF T
    <2>. QED BY <2>5, <2>6 DEF NodeOnEvent, e
  <1>. HIDE DEF Next, T, n, quiet
  <1>3. F \in [(1..n) \X T -> T] /\ \A i \in 1..n, x \in T : F[<<i, x>>] = Next(i, x)
    BY <1>2
  <1>. HIDE DEF F
  <1>4. PICK g \in [0..n -> T] : Runs([r EXCEPT !.sieve = st], F, n, g)
    BY <1>1, <1>3, RunsExist
  <1>5. Rec(g)
    <2>1. ASSUME NEW i \in 0..n PROVE g[i] = IF i = 0 THEN [r EXCEPT !.sieve = st] ELSE Next(i, g[i - 1])
      <3>1. i # 0 => i \in 1..n /\ i - 1 \in 0..n
        BY <1>1
      <3>. QED BY <1>3, <1>4, <3>1 DEF Runs
    <2>. QED BY <1>4, <2>1
  <1>6. PICK h : Rec(h) /\ NodeSifted(r, st) = h[n]
    BY <1>5 DEF NodeSifted, Over, Next, n
  <1>7. Follows(T, [r EXCEPT !.sieve = st], F, n, h)
    <2>1. h[0] = [r EXCEPT !.sieve = st]
      BY <1>1, <1>6
    <2>2. ASSUME NEW i \in 1..n, h[i - 1] \in T PROVE h[i] = Next(i, h[i - 1])
      <3>1. i \in 0..n /\ i # 0
        BY <1>1
      <3>. QED BY <1>6, <3>1
    <2>. QED BY <1>3, <2>1, <2>2 DEF Follows
  <1>8. n \in 0..n
    BY <1>1
  <1>. HIDE DEF Rec
  <1>9. \A i \in 0..n : h[i] \in T
    BY <1>1, <1>3, <1>7, RunsTyped
  <1>10. NodeSifted(r, st) \in T
    BY <1>6, <1>8, <1>9
  <1>. QED BY <1>10 DEF T, quiet

LEMMA GoShownTyped ==
    ASSUME NEW s \in Seq(Words), NEW req
    PROVE  GoShown(CleanVisibleOutput(s, TRUE), req) \in Seq(Words)
  BY OutputCleaned, EmptySeq DEF GoShown

LEMMA GoSieveTold ==
    ASSUME NEW b \in BOOLEAN, NEW r \in Tellings(b), NEW st \in Sieves(Words), NEW req
    PROVE  GoSifted(r, st, req) \in Tellings(b)
  <1>. DEFINE T == Tellings(b)
              n == Len(st.events)
              Next(i, x) == GoOnEvent(x, st.events[i], req)
              F == [p \in (1..n) \X T |-> Next(p[1], p[2])]
              Rec(h) == h = [i \in 0..n |-> IF i = 0 THEN [r EXCEPT !.sieve = st] ELSE Next(i, h[i - 1])]
  <1>1. n \in Nat /\ [r EXCEPT !.sieve = st] \in T
    <2>1. st.events \in Seq(SiftEvents(Words))
      BY SieveFields
    <2>2. [r EXCEPT !.sieve = st] \in Tellings(b)
      BY TellingUpdates
    <2>. QED BY <2>1, <2>2, Members
  <1>2. ASSUME NEW i \in 1..n, NEW x \in T PROVE Next(i, x) \in T
    <2>1. st.events[i] \in SiftEvents(Words)
      BY <1>1, SieveFields, Members
    <2>2. st.events[i].calls \in Nat /\ st.events[i].text \in Seq(Words)
      BY <2>1 DEF SiftEvents
    <2>3. GoShown(CleanVisibleOutput(st.events[i].text, TRUE), req) \in Seq(Words)
      BY <2>2, GoShownTyped
    <2>. QED BY <2>2, <2>3, CallsAreTold, TextIsTold DEF GoOnEvent
  <1>. HIDE DEF Next, T, n
  <1>3. F \in [(1..n) \X T -> T] /\ \A i \in 1..n, x \in T : F[<<i, x>>] = Next(i, x)
    BY <1>2
  <1>. HIDE DEF F
  <1>4. PICK g \in [0..n -> T] : Runs([r EXCEPT !.sieve = st], F, n, g)
    BY <1>1, <1>3, RunsExist
  <1>5. Rec(g)
    <2>1. ASSUME NEW i \in 0..n PROVE g[i] = IF i = 0 THEN [r EXCEPT !.sieve = st] ELSE Next(i, g[i - 1])
      <3>1. i # 0 => i \in 1..n /\ i - 1 \in 0..n
        BY <1>1
      <3>. QED BY <1>3, <1>4, <3>1 DEF Runs
    <2>. QED BY <1>4, <2>1
  <1>6. PICK h : Rec(h) /\ GoSifted(r, st, req) = h[n]
    BY <1>5 DEF GoSifted, Over, Next, n
  <1>7. Follows(T, [r EXCEPT !.sieve = st], F, n, h)
    <2>1. h[0] = [r EXCEPT !.sieve = st]
      BY <1>1, <1>6
    <2>2. ASSUME NEW i \in 1..n, h[i - 1] \in T PROVE h[i] = Next(i, h[i - 1])
      <3>1. i \in 0..n /\ i # 0
        BY <1>1
      <3>. QED BY <1>6, <3>1
    <2>. QED BY <1>3, <2>1, <2>2 DEF Follows
  <1>8. n \in 0..n
    BY <1>1
  <1>. HIDE DEF Rec
  <1>9. \A i \in 0..n : h[i] \in T
    BY <1>1, <1>3, <1>7, RunsTyped
  <1>. QED BY <1>6, <1>8, <1>9 DEF T

\* One part: to the port
LEMMA NodePartTold ==
    ASSUME NEW b \in BOOLEAN, NEW r \in NodeTellings(b), NEW p \in ShownParts(b), NEW req
    PROVE  NodePart(r, p, req) \in NodeTellings(b)
  <1>. DEFINE new == trimContinuationOverlap(r.thinking, p.text)
              more == trimContinuationOverlap(r.text, p.text)
              told == [r EXCEPT !.text = r.text \o more]
              st == processToolSieveChunk(r.sieve, more)
  <1>. r \in Tellings(b) /\ Silent(r)
    BY DEF NodeTellings
  <1>1. p.text \in Text /\ r.text \in Text /\ r.thinking \in Text /\ (p.type = "thinking" => b)
    BY TellingRead DEF ShownParts
  <1>2. new \in Text /\ more \in Text /\ r.thinking \o new \in Text /\ r.text \o more \in Text
    <2>1. new \in Text /\ more \in Text
      BY <1>1, TextTyped DEF trimContinuationOverlap
    <2>. HIDE DEF new, more
    <2>. QED BY <1>1, <2>1, TextTyped
  <1>3. p.type = "thinking" => NodeThinking(r, new) \in NodeTellings(b)
    <2>. HIDE DEF new
    <2>1. NodeThinking(r, new) = [r EXCEPT !.thinking = r.thinking \o new]
      BY DEF NodeThinking, Tellings
    <2>2. b => r.thinking \o new \in ThoughtsOf(b)
      BY <1>2 DEF ThoughtsOf
    <2>3. \A h \in ThoughtsOf(b) : [r EXCEPT !.thinking = h] \in Tellings(b)
      BY TellingUpdates
    <2>. DEFINE q == NodeThinking(r, new)
    <2>4. q.text = r.text /\ q.sieve = r.sieve /\ q.told = r.told /\ q.done = r.done
      BY <2>1 DEF Tellings
    <2>. HIDE DEF q
    <2>5. Silent(q)
      BY <2>4 DEF Silent, Quietly
    <2>. QED BY <1>1, <2>1, <2>2, <2>3, <2>5 DEF q, NodeTellings
  <1>4. st \in Sieves(Words) /\ more \in Seq(Words)
    <2>. HIDE DEF more
    <2>1. more \in Seq(Words) /\ r.sieve \in Sieves(Words) /\ Words \in Vocabularies
      BY <1>2, TextIsWords, TellingRead DEF Vocabularies
    <2>. QED BY <2>1, NodeChunkProcessed
  <1>5. told \in Tellings(b) /\ [r EXCEPT !.text = @ \o more] = told
    <2>. HIDE DEF more
    <2>1. \A x \in Text : [r EXCEPT !.text = x] \in Tellings(b)
      BY TellingUpdates
    <2>2. [r EXCEPT !.text = @ \o more] = told
      BY DEF Tellings
    <2>. QED BY <1>2, <2>1, <2>2
  <1>6. told.text = r.text \o more /\ told.sieve = r.sieve /\ told.told = r.told /\ told.done = r.done
    <2>. HIDE DEF more
    <2>. QED BY DEF Tellings
  <1>7. Blank(told.text) => /\ r.sieve \in Sieves(LineBreaks) /\ more \in Seq(LineBreaks)
                            /\ st \in Sieves(LineBreaks) /\ Quietly(told)
    <2>. HIDE DEF more, told
    <2>1. SUFFICES ASSUME Blank(r.text \o more)
                   PROVE  /\ r.sieve \in Sieves(LineBreaks) /\ more \in Seq(LineBreaks)
                          /\ st \in Sieves(LineBreaks) /\ Quietly(told)
      BY <1>6
    <2>2. Blank(r.text) /\ Blank(more)
      BY <1>1, <1>2, <2>1, BlankText
    <2>3. more \in Seq(LineBreaks) /\ r.sieve \in Sieves(LineBreaks) /\ Quietly(r)
      BY <1>2, <2>2, BlankText DEF Silent
    <2>4. LineBreaks \in Vocabularies
      BY DEF Vocabularies
    <2>5. st \in Sieves(LineBreaks)
      BY <2>3, <2>4, NodeChunkProcessed
    <2>. QED BY <1>6, <2>3, <2>5 DEF Quietly
  <1>. HIDE DEF new, told, st
  <1>8. NodeSifted(told, st) \in NodeTellings(b)
    <2>. DEFINE q == NodeSifted(told, st)
    <2>1. q \in Tellings(b) /\ q.sieve = st /\ q.text = told.text
          /\ (st \in Sieves(LineBreaks) /\ Quietly(told) => Quietly(q))
      BY <1>4, <1>5, NodeSieveTold
    <2>. HIDE DEF q, more
    <2>. QED BY <1>7, <2>1 DEF NodeTellings, Silent, q
  <1>9. TellText(told, more) \in NodeTellings(b)
    <2>. DEFINE q == TellText(told, more)
    <2>1. q \in Tellings(b)
      BY <1>4, <1>5, TextIsTold
    <2>2. q.sieve = told.sieve /\ q.text = told.text /\ (Quietly(told) /\ more \in Seq(LineBreaks) => Quietly(q))
      BY <1>5, TextIsQuiet
    <2>. HIDE DEF q, more
    <2>. QED BY <1>6, <1>7, <2>1, <2>2 DEF NodeTellings, Silent, q
  <1>10. NodeNewText(r, more, req) \in {r, NodeSifted(told, st), TellText(told, more)}
    <2>1. NodeNewText(r, more, req) =
            IF more = <<>> \/ (req.search /\ IsCitation(more)) THEN r
            ELSE IF req.tools THEN NodeSifted(told, st) ELSE TellText(told, more)
      BY <1>5 DEF NodeNewText, st
    <2>. HIDE DEF more
    <2>. QED BY <2>1
  <1>11. NodePart(r, p, req) = IF p.type = "thinking" THEN NodeThinking(r, new) ELSE NodeNewText(r, more, req)
    BY DEF NodePart, new
  <1>. HIDE DEF more
  <1>. QED BY <1>3, <1>8, <1>9, <1>10, <1>11

LEMMA NodePartsTold ==
    ASSUME NEW b \in BOOLEAN, NEW r \in NodeTellings(b), NEW chunk \in NodeChunks(b), NEW req
    PROVE  NodeLine(r, chunk, req) \in NodeTellings(b)
  <1>. DEFINE T == NodeTellings(b)
              n == Len(chunk.parts)
              Next(i, x) == NodePart(x, chunk.parts[i], req)
              F == [p \in (1..n) \X T |-> Next(p[1], p[2])]
              Rec(h) == h = [i \in 0..n |-> IF i = 0 THEN [r EXCEPT !.type = chunk.type] ELSE Next(i, h[i - 1])]
  <1>1. n \in Nat /\ [r EXCEPT !.type = chunk.type] \in T
    <2>1. chunk.parts \in Seq(ShownParts(b)) /\ chunk.type \in PartTypes
      BY DEF NodeChunks
    <2>2. r \in Tellings(b) /\ Silent(r)
      BY DEF NodeTellings
    <2>. DEFINE q == [r EXCEPT !.type = chunk.type]
    <2>3. q \in Tellings(b)
      BY <2>1, <2>2, TellingUpdates
    <2>4. q.text = r.text /\ q.sieve = r.sieve /\ q.told = r.told /\ q.done = r.done
      BY <2>2 DEF Tellings
    <2>. HIDE DEF q
    <2>5. q \in NodeTellings(b)
      BY <2>2, <2>3, <2>4 DEF NodeTellings, Silent, Quietly
    <2>6. n \in Nat
      BY <2>1, Members
    <2>. QED BY <2>5, <2>6 DEF q
  <1>2. ASSUME NEW i \in 1..n, NEW x \in T PROVE Next(i, x) \in T
    <2>1. chunk.parts[i] \in ShownParts(b)
      <3>1. chunk.parts \in Seq(ShownParts(b))
        BY DEF NodeChunks
      <3>. QED BY <1>1, <3>1, Members
    <2>. QED BY <2>1, NodePartTold
  <1>. HIDE DEF Next, T, n
  <1>3. F \in [(1..n) \X T -> T] /\ \A i \in 1..n, x \in T : F[<<i, x>>] = Next(i, x)
    BY <1>2
  <1>. HIDE DEF F
  <1>4. PICK g \in [0..n -> T] : Runs([r EXCEPT !.type = chunk.type], F, n, g)
    BY <1>1, <1>3, RunsExist
  <1>5. Rec(g)
    <2>1. ASSUME NEW i \in 0..n PROVE g[i] = IF i = 0 THEN [r EXCEPT !.type = chunk.type] ELSE Next(i, g[i - 1])
      <3>1. i # 0 => i \in 1..n /\ i - 1 \in 0..n
        BY <1>1
      <3>. QED BY <1>3, <1>4, <3>1 DEF Runs
    <2>. QED BY <1>4, <2>1
  <1>6. PICK h : Rec(h) /\ NodeLine(r, chunk, req) = h[n]
    BY <1>5 DEF NodeLine, Over, Next, n
  <1>7. Follows(T, [r EXCEPT !.type = chunk.type], F, n, h)
    <2>1. h[0] = [r EXCEPT !.type = chunk.type]
      BY <1>1, <1>6
    <2>2. ASSUME NEW i \in 1..n, h[i - 1] \in T PROVE h[i] = Next(i, h[i - 1])
      <3>1. i \in 0..n /\ i # 0
        BY <1>1
      <3>. QED BY <1>6, <3>1
    <2>. QED BY <1>3, <2>1, <2>2 DEF Follows
  <1>8. n \in 0..n
    BY <1>1
  <1>. HIDE DEF Rec
  <1>9. \A i \in 0..n : h[i] \in T
    BY <1>1, <1>3, <1>7, RunsTyped
  <1>. QED BY <1>6, <1>8, <1>9 DEF T

\* and to the Go server.
LEMMA GoPartTold ==
    ASSUME NEW b \in BOOLEAN, NEW r \in Tellings(b), NEW p \in Parts, NEW req, req.thinking = b
    PROVE  GoPart(r, p, req) \in Tellings(b)
  <1>. DEFINE new == TrimContinuationOverlap(r.rawThinking, p.text)
              raw == TrimContinuationOverlap(r.raw, p.text)
              clean == CleanVisibleOutput(raw, TRUE)
              kept == [r EXCEPT !.raw = r.raw \o raw]
              more == TrimContinuationOverlap(kept.text, clean)
              told == [kept EXCEPT !.text = kept.text \o more]
              st == ProcessChunk(kept.sieve, raw)
  <1>1. p.text \in Text /\ r.text \in Text /\ r.thinking \in Text /\ r.raw \in Text /\ r.rawThinking \in Text
    BY TellingRead DEF Parts
  <1>2. new \in Text /\ raw \in Text
    BY <1>1, TextTyped
  <1>3. GoThinking(r, new, req) \in Tellings(b)
    <2>. HIDE DEF new
    <2>. DEFINE h == IF b THEN AddTo(r.thinking, CleanVisibleOutput(new, TRUE)) ELSE r.thinking
                x == r.rawThinking \o new
    <2>1. x \in Text /\ h \in ThoughtsOf(b)
      <3>1. CleanVisibleOutput(new, TRUE) \in Text
        BY <1>2, TextTyped
      <3>2. b => h \in Text
        BY <1>1, <3>1, TextTyped
      <3>3. r.thinking \in ThoughtsOf(b)
        BY TellingRead
      <3>. QED BY <1>1, <1>2, <3>2, <3>3, TextTyped DEF ThoughtsOf
    <2>2. GoThinking(r, new, req) = [r EXCEPT !.rawThinking = x, !.thinking = h]
      BY DEF GoThinking, Tellings
    <2>. HIDE DEF h, x
    <2>3. \A y \in Text, z \in ThoughtsOf(b) : [r EXCEPT !.rawThinking = y, !.thinking = z] \in Tellings(b)
      BY TellingUpdates
    <2>. QED BY <2>1, <2>2, <2>3
  <1>. HIDE DEF raw
  <1>4. clean \in Text /\ r.raw \o raw \in Text
    BY <1>1, <1>2, TextTyped
  <1>5. kept \in Tellings(b) /\ [r EXCEPT !.raw = @ \o raw] = kept
    <2>1. \A x \in Text : [r EXCEPT !.raw = x] \in Tellings(b)
      BY TellingUpdates
    <2>2. [r EXCEPT !.raw = @ \o raw] = kept
      BY DEF Tellings
    <2>. QED BY <1>4, <2>1, <2>2
  <1>. HIDE DEF clean, kept
  <1>6. kept.text \in Text /\ kept.sieve \in Sieves(Words) /\ more \in Text
    <2>1. kept.text \in Text /\ kept.sieve \in Sieves(Words)
      BY <1>5, TellingRead
    <2>2. \A s, t \in Text : TrimContinuationOverlap(s, t) \in Text
      BY TextTyped
    <2>. QED BY <1>4, <2>1, <2>2
  <1>. HIDE DEF more
  <1>7. kept.text \o more \in Text /\ more \in Seq(Words) /\ st \in Sieves(Words)
    BY <1>2, <1>6, TextTyped, TextIsWords, ChunkProcessed
  <1>8. told \in Tellings(b) /\ [kept EXCEPT !.text = @ \o more] = told
    <2>1. \A x \in Text : [kept EXCEPT !.text = x] \in Tellings(b)
      BY <1>5, TellingUpdates
    <2>2. [kept EXCEPT !.text = @ \o more] = told
      BY <1>5 DEF Tellings
    <2>. QED BY <1>7, <2>1, <2>2
  <1>. HIDE DEF told, st
  <1>9. GoSifted(told, st, req) \in Tellings(b) /\ TellText(told, more) \in Tellings(b)
    BY <1>7, <1>8, GoSieveTold, TextIsTold
  <1>10. GoDelta(kept, raw, more, req) = IF req.tools THEN GoSifted(told, st, req) ELSE TellText(told, more)
    BY <1>8 DEF GoDelta, st
  <1>11. GoNewText(r, raw, req) \in {r, kept, GoDelta(kept, raw, more, req)}
    BY <1>5 DEF GoNewText, GoClean, clean, more
  <1>12. GoPart(r, p, req) = IF p.type = "thinking" THEN GoThinking(r, new, req) ELSE GoNewText(r, raw, req)
    BY DEF GoPart, new, raw
  <1>. HIDE DEF new
  <1>. QED BY <1>3, <1>5, <1>9, <1>10, <1>11, <1>12

TwinHears(r, ps, req) == Over(ps, r, LAMBDA s, p : GoPart(s, p, req))

LEMMA GoPartsTold ==
    ASSUME NEW b \in BOOLEAN, NEW r \in Tellings(b), NEW ps \in Seq(Parts), NEW req, req.thinking = b
    PROVE  TwinHears(r, ps, req) \in Tellings(b)
  <1>. DEFINE T == Tellings(b)
              n == Len(ps)
              Next(i, x) == GoPart(x, ps[i], req)
              F == [p \in (1..n) \X T |-> Next(p[1], p[2])]
              Rec(h) == h = [i \in 0..n |-> IF i = 0 THEN r ELSE Next(i, h[i - 1])]
  <1>1. n \in Nat /\ r \in T
    BY Members
  <1>2. ASSUME NEW i \in 1..n, NEW x \in T PROVE Next(i, x) \in T
    <2>1. ps[i] \in Parts
      BY <1>1, Members
    <2>. QED BY <2>1, GoPartTold
  <1>. HIDE DEF Next, T, n
  <1>3. F \in [(1..n) \X T -> T] /\ \A i \in 1..n, x \in T : F[<<i, x>>] = Next(i, x)
    BY <1>2
  <1>. HIDE DEF F
  <1>4. PICK g \in [0..n -> T] : Runs(r, F, n, g)
    BY <1>1, <1>3, RunsExist
  <1>5. Rec(g)
    <2>1. ASSUME NEW i \in 0..n PROVE g[i] = IF i = 0 THEN r ELSE Next(i, g[i - 1])
      <3>1. i # 0 => i \in 1..n /\ i - 1 \in 0..n
        BY <1>1
      <3>. QED BY <1>3, <1>4, <3>1 DEF Runs
    <2>. QED BY <1>4, <2>1
  <1>6. PICK h : Rec(h) /\ TwinHears(r, ps, req) = h[n]
    BY <1>5 DEF TwinHears, Over, Next, n
  <1>7. Follows(T, r, F, n, h)
    <2>1. h[0] = r
      BY <1>1, <1>6
    <2>2. ASSUME NEW i \in 1..n, h[i - 1] \in T PROVE h[i] = Next(i, h[i - 1])
      <3>1. i \in 0..n /\ i # 0
        BY <1>1
      <3>. QED BY <1>6, <3>1
    <2>. QED BY <1>3, <2>1, <2>2 DEF Follows
  <1>8. n \in 0..n
    BY <1>1
  <1>. HIDE DEF Rec
  <1>9. \A i \in 0..n : h[i] \in T
    BY <1>1, <1>3, <1>7, RunsTyped
  <1>. QED BY <1>6, <1>8, <1>9 DEF T

LEMMA GoLineTold ==
    ASSUME NEW b \in BOOLEAN, NEW r \in Tellings(b), NEW line \in Lines, NEW req, req.thinking = b
    PROVE  GoLine(r, line, req) \in Tellings(b)
  <1>. DEFINE d == Gathered(r.detection, line.detection)
              seen == [r EXCEPT !.type = line.type, !.detection = d]
  <1>1. line.detection \in Seq(Parts) /\ line.parts \in Seq(Parts) /\ line.type \in PartTypes /\ r.detection \in Text
    BY TellingRead DEF Lines
  <1>2. d \in Text
    BY <1>1, DetectionNoted
  <1>3. [r EXCEPT !.type = line.type, !.detection = Over(line.detection, @, LAMBDA t, p : AddTo(t, p.text))] = seen
    BY DEF Tellings, Gathered
  <1>. HIDE DEF d
  <1>4. seen \in Tellings(b)
    BY <1>1, <1>2, TellingUpdates
  <1>. HIDE DEF seen
  <1>5. TwinHears(seen, line.parts, req) \in Tellings(b)
    BY <1>1, <1>4, GoPartsTold
  <1>. QED BY <1>3, <1>5 DEF GoLine, TwinHears

\* An attempt that may not be tried again says how it ended.
\* An attempt that has no end after its end is as it was, and may be tried again.
EndsTyped(q, b, deferEmpty) == q \in Tellings(b) /\ (q.ended = "" => deferEmpty)
EndsSilent(q, r, text) ==
    /\ q.text = r.text /\ q.sieve = r.sieve /\ q.told = r.told /\ q.done = r.done
    /\ q.ended = "" => ~r.done /\ Blank(text)

LEMMA EndTyped ==
    ASSUME NEW b \in BOOLEAN, NEW r \in Tellings(b), NEW calls \in Nat, NEW text, NEW reason \in {"stop", "content_filter"},
           NEW deferEmpty \in BOOLEAN
    PROVE  /\ EndsTyped(EndOf(r, calls, text, reason, deferEmpty), b, deferEmpty)
           /\ EndsSilent(EndOf(r, calls, text, reason, deferEmpty), r, text)
  <1>1. \A e \in Endings : [r EXCEPT !.ended = e] \in Tellings(b) /\ [r EXCEPT !.ended = e].ended = e
    <2>1. \A e \in Endings : [r EXCEPT !.ended = e].ended = e
      BY DEF Tellings
    <2>. QED BY <2>1, TellingUpdates
  <1>. DEFINE A == calls > 0 \/ r.done
              B == calls = 0 /\ ~r.done /\ ~Blank(text)
              code == UpstreamEmptyOutputDetail(reason = "content_filter").code
              a == [r EXCEPT !.ended = "tool_calls"]
              c == [r EXCEPT !.ended = reason]
              d == IF deferEmpty /\ reason # "content_filter" THEN r ELSE [r EXCEPT !.ended = code]
  <1>2. code \in Endings /\ code # "" /\ "tool_calls" \in Endings /\ reason \in Endings /\ reason # ""
    BY DEF UpstreamEmptyOutputDetail, Endings
  <1>. HIDE DEF code
  <1>3. EndsTyped(a, b, deferEmpty) /\ EndsTyped(c, b, deferEmpty) /\ EndsTyped(d, b, deferEmpty)
    BY <1>1, <1>2 DEF EndsTyped
  <1>4. EndOf(r, calls, text, reason, deferEmpty) = CASE A -> a [] B -> c [] OTHER -> d
    BY DEF EndOf, code
  <1>5. A => ~B
    OBVIOUS
  <1>6. ASSUME NEW f \in Endings, f # "" PROVE EndsSilent([r EXCEPT !.ended = f], r, text)
    <2>. DEFINE q == [r EXCEPT !.ended = f]
    <2>1. q.text = r.text /\ q.sieve = r.sieve /\ q.told = r.told /\ q.done = r.done /\ q.ended = f
      BY DEF Tellings
    <2>. HIDE DEF q
    <2>2. EndsSilent(q, r, text)
      BY <1>6, <2>1 DEF EndsSilent
    <2>. QED BY <2>2 DEF q
  <1>7. EndsSilent(a, r, text) /\ EndsSilent(c, r, text) /\ EndsSilent([r EXCEPT !.ended = code], r, text)
    <2>1. "tool_calls" # ""
      OBVIOUS
    <2>. QED BY <1>2, <1>6, <2>1
  <1>8. ~A /\ ~B => ~r.done /\ Blank(text)
    <2>1. calls > 0 \/ calls = 0
      OBVIOUS
    <2>. QED BY <2>1
  <1>9. ~A /\ ~B => EndsSilent(d, r, text)
    <2>1. ~A /\ ~B => EndsSilent(r, r, text)
      BY <1>8 DEF EndsSilent
    <2>. QED BY <1>7, <2>1
  <1>. HIDE DEF A, B, a, c, d
  <1>. QED BY <1>3, <1>4, <1>5, <1>7, <1>9

\* After its end the port's stream, if it may be tried again, has no text but line
\* breaks and told of no call.
NodeEndsTyped(q, b, deferEmpty) ==
    q \in NodeTellings(b) /\ (q.ended = "" => deferEmpty /\ ~q.done /\ Blank(q.text))

LEMMA NodeFinished ==
    ASSUME NEW b \in BOOLEAN, NEW r \in NodeTellings(b), NEW reason \in {"stop", "content_filter"},
           NEW deferEmpty \in BOOLEAN, NEW req
    PROVE  NodeEndsTyped(NodeFinish(r, reason, deferEmpty, req), b, deferEmpty)
  <1>. DEFINE n == parseStandaloneToolCalls(r.text)
              q == NodeDetected(r, n, req.tools)
              st == flushToolSieve(r.sieve)
              p == EndOf(q, n, r.text, reason, deferEmpty)
  <1>1. r \in Tellings(b) /\ Silent(r)
    BY DEF NodeTellings
  <1>2. n \in Nat
    BY <1>1, TellingRead, TextIsWords, NodeCallsCounted
  <1>. HIDE DEF n
  <1>3. TellCalls(r, n) \in NodeTellings(b) /\ TellCalls(r, n).text = r.text
    <2>. DEFINE c == TellCalls(r, n)
    <2>1. c \in Tellings(b)
      BY <1>1, <1>2, CallsAreTold
    <2>2. c.sieve = r.sieve /\ c.text = r.text /\ (Quietly(r) => Quietly(c))
      BY <1>1, <1>2, CallsAreQuiet
    <2>. HIDE DEF c
    <2>. QED BY <1>1, <2>1, <2>2 DEF NodeTellings, Silent, c
  <1>4. NodeSifted(r, st) \in NodeTellings(b) /\ NodeSifted(r, st).text = r.text
    <2>. DEFINE c == NodeSifted(r, st)
    <2>1. Words \in Vocabularies /\ LineBreaks \in Vocabularies
      BY DEF Vocabularies
    <2>2. r.sieve \in Sieves(Words)
      BY <1>1, TellingRead
    <2>3. st \in Sieves(Words) /\ (r.sieve \in Sieves(LineBreaks) => st \in Sieves(LineBreaks))
      BY <2>1, <2>2, NodeAllFlushed
    <2>. HIDE DEF st
    <2>4. c \in Tellings(b) /\ c.sieve = st /\ c.text = r.text /\ (st \in Sieves(LineBreaks) /\ Quietly(r) => Quietly(c))
      BY <1>1, <2>3, NodeSieveTold
    <2>. HIDE DEF c
    <2>. QED BY <1>1, <2>3, <2>4 DEF NodeTellings, Silent, c
  <1>5. q \in NodeTellings(b) /\ q.text = r.text
    <2>1. q \in {r, TellCalls(r, n), NodeSifted(r, st)}
      BY DEF NodeDetected
    <2>. HIDE DEF q, st
    <2>. QED BY <1>3, <1>4, <2>1
  <1>. HIDE DEF q
  <1>6. q \in Tellings(b) /\ Silent(q)
    BY <1>5 DEF NodeTellings
  <1>7. EndsTyped(p, b, deferEmpty) /\ EndsSilent(p, q, r.text)
    BY <1>2, <1>6, EndTyped
  <1>8. p = NodeFinish(r, reason, deferEmpty, req)
    BY DEF NodeFinish, n, q
  <1>. HIDE DEF p
  <1>9. Silent(p)
    BY <1>6, <1>7 DEF EndsSilent, Silent, Quietly
  <1>10. NodeEndsTyped(p, b, deferEmpty)
    BY <1>5, <1>7, <1>9 DEF EndsTyped, EndsSilent, NodeEndsTyped, NodeTellings
  <1>. QED BY <1>8, <1>10

LEMMA GoFinished ==
    ASSUME NEW b \in BOOLEAN, NEW r \in Tellings(b), NEW reason \in {"stop", "content_filter"}, NEW deferEmpty \in BOOLEAN, NEW req
    PROVE  EndsTyped(GoFinish(r, reason, deferEmpty, req), b, deferEmpty)
  <1>. DEFINE text == CleanVisibleOutput(r.text, TRUE)
              n == DetectAssistantToolCalls(r.raw, text, r.rawThinking, r.detection)
              q == GoDetected(r, n, req)
  <1>1. n \in Nat
    <2>1. r.raw \in Seq(STRING) /\ r.rawThinking \in Seq(STRING) /\ r.detection \in Seq(STRING)
      BY TellingRead DEF Text
    <2>. HIDE DEF text
    <2>. QED BY <2>1, CallsDetected
  <1>. HIDE DEF n
  <1>2. q \in Tellings(b)
    <2>1. TellCalls(r, n) \in Tellings(b)
      BY <1>1, CallsAreTold
    <2>2. GoSifted(r, Flush(r.sieve), req) \in Tellings(b)
      BY TellingRead, AllFlushed, GoSieveTold
    <2>. QED BY <2>1, <2>2 DEF GoDetected
  <1>. HIDE DEF q
  <1>3. EndsTyped(EndOf(q, n, text, reason, deferEmpty), b, deferEmpty)
    BY <1>1, <1>2, EndTyped
  <1>. QED BY <1>3 DEF GoFinish, GoConclude, n, q, text

-----------------------------------------------------------------------------
\* NodeStream: its steps

NodeStages == {"opening", "reading", "retrying", "over"}
Shows == nodeAsk.thinking
StreamsTyped == node \in NodeTellings(Shows) /\ twin \in Tellings(Shows)
NodeInv ==
    /\ nodeAsk \in NodeAsks /\ nodeRetries \in 0..NodeRetryMax /\ nodeStage \in NodeStages /\ nodeLeft \in Seq(Frames)
    /\ nodeStage = "retrying" => Defers /\ ~node.done /\ Blank(node.text)
    /\ StreamsTyped

LEMMA NodeAskRead ==
    ASSUME NodeInv
    PROVE  /\ Shows \in BOOLEAN /\ node \in NodeTellings(Shows) /\ node \in Tellings(Shows)
           /\ twin \in Tellings(Shows) /\ Defers \in BOOLEAN
  <1>1. nodeAsk \in [thinking : BOOLEAN, search : BOOLEAN, tools : BOOLEAN]
    BY NodeAssumption DEF NodeInv
  <1>2. Shows \in BOOLEAN
    BY <1>1 DEF Shows
  <1>. QED BY <1>2 DEF NodeInv, StreamsTyped, NodeTellings, Defers

LEMMA NodeInitInv == NodeInit => NodeInv
  <1>. SUFFICES ASSUME NodeInit PROVE NodeInv
    OBVIOUS
  <1>1. nodeAsk \in NodeAsks /\ nodeAsk \in [thinking : BOOLEAN, search : BOOLEAN, tools : BOOLEAN]
    BY NodeAssumption DEF NodeInit
  <1>2. Shows \in BOOLEAN
    BY <1>1 DEF Shows
  <1>3. node \in NodeTellings(Shows) /\ twin \in Tellings(Shows)
    <2>1. NewStream(Shows) \in Tellings(Shows)
      BY <1>2, NewStreamTyped
    <2>2. Silent(NewStream(Shows))
      <3>1. NodeSieve \in Sieves(LineBreaks)
        BY NewSieveTyped DEF NodeSieve
      <3>2. NewStream(Shows).sieve = NodeSieve /\ NewStream(Shows).told = <<>>
        BY DEF NewStream
      <3>. QED BY <3>1, <3>2, EmptySeq DEF Silent, Quietly
    <2>. QED BY <2>1, <2>2 DEF NodeInit, Shows, NodeTellings
  <1>4. nodeLeft \in Seq(Frames)
    BY EmptySeq DEF NodeInit
  <1>5. nodeStage \in NodeStages /\ nodeStage # "retrying" /\ nodeRetries \in 0..NodeRetryMax
    BY DEF NodeInit, NodeStages, NodeRetryMax
  <1>. QED BY <1>1, <1>3, <1>4, <1>5 DEF NodeInv, StreamsTyped

LEMMA NodeOpensStep ==
    ASSUME NodeInv, NodeOpens
    PROVE  NodeInv'
  <1>1. nodeLeft' \in Seq(Frames)
    BY NodeAssumption DEF NodeOpens
  <1>2. nodeStage' \in NodeStages /\ nodeStage' # "retrying"
    BY DEF NodeOpens, NodeStages
  <1>3. StreamsTyped'
    BY DEF NodeInv, StreamsTyped, Shows, NodeOpens
  <1>. QED BY <1>1, <1>2, <1>3 DEF NodeInv, NodeOpens

\* A frame with another text; and what is left when one was read, or a part of it.
LEMMA FramesCut ==
    ASSUME NEW f \in Frames, NEW s \in Text
    PROVE  [f EXCEPT !.text = s] \in Frames
  <1>. DEFINE K == {"junk", "done", "error", "filter", "chunk"}
              I == {"none", "text", "items", "response"}
              X == Text
              P == Seq(Patches)
              L == Seq([url : STRING, index : Int])
              R == [kind : K, path : STRING, op : STRING, is : I, text : X, items : P, id : Nat, links : L]
  <1>1. Frames = R
    BY DEF Frames
  <1>2. f \in R /\ s \in X
    BY <1>1
  <1>. HIDE DEF K, I, X, P, L
  <1>3. [f EXCEPT !.text = s] \in R
    BY <1>2
  <1>. QED BY <1>1, <1>3

LEMMA FrameRead ==
    ASSUME NodeInv, nodeLeft # <<>>, NEW n \in 1..Len(Head(nodeLeft).text) \union {Len(Head(nodeLeft).text)}
    PROVE  Piece(n) \in Frames /\ After(n) \in Seq(Frames)
  <1>. DEFINE f == Head(nodeLeft)
              rest == Tail(nodeLeft)
              s == SubSeq(f.text, 1, n)
              t == From(f.text, n + 1)
  <1>1. f \in Frames /\ rest \in Seq(Frames)
    BY HeadTailProperties DEF NodeInv
  <1>2. f.text \in Text /\ f.text \in Seq(STRING) /\ Len(f.text) \in Nat
    <2>1. f.text \in Text
      <3>. HIDE DEF f
      <3>. QED BY <1>1 DEF Frames
    <2>. QED BY <2>1, Members DEF Text
  <1>3. n \in Int /\ n <= Len(f.text) /\ n + 1 \in Nat /\ n + 1 > 0
    BY <1>2
  <1>. HIDE DEF f, rest
  <1>4. s \in Text /\ t \in Text
    <2>. DEFINE m == n + 1
    <2>1. m \in Nat /\ m > 0 /\ 1 \in Nat /\ 1 > 0
      BY <1>3
    <2>2. SubSeq(f.text, 1, n) \in Seq(STRING)
      BY <1>2, <1>3, <2>1, Cut
    <2>. HIDE DEF m
    <2>3. From(f.text, m) \in Seq(STRING)
      BY <1>2, <2>1, FromThere
    <2>. QED BY <2>2, <2>3 DEF Text, m
  <1>. HIDE DEF s, t
  <1>5. [f EXCEPT !.text = s] \in Frames /\ [f EXCEPT !.text = t] \in Frames
    BY <1>1, <1>4, FramesCut
  <1>6. [f EXCEPT !.text = SubSeq(@, 1, n)] = [f EXCEPT !.text = s] /\ [f EXCEPT !.text = From(@, n + 1)] = [f EXCEPT !.text = t]
    BY <1>1 DEF s, t, Frames
  <1>7. Piece(n) = [f EXCEPT !.text = s]
    BY <1>6 DEF Piece, f
  <1>8. After(n) = IF n = Len(f.text) THEN rest ELSE <<[f EXCEPT !.text = t]>> \o rest
    BY <1>6 DEF After, f, rest
  <1>. DEFINE g == [f EXCEPT !.text = t]
  <1>. HIDE DEF g
  <1>9. <<g>> \in Seq(Frames)
    BY <1>5 DEF g
  <1>10. <<g>> \o rest \in Seq(Frames)
    BY <1>1, <1>9, Joined
  <1>. QED BY <1>1, <1>5, <1>7, <1>8, <1>10 DEF g

LEMMA FrameTold ==
    ASSUME NodeInv, NEW f \in Frames, NodeReadsFrame(f)
    PROVE  node' \in NodeTellings(Shows) /\ twin' \in Tellings(Shows)
  <1>1. Shows \in BOOLEAN /\ node \in NodeTellings(Shows) /\ node \in Tellings(Shows) /\ twin \in Tellings(Shows)
    BY NodeAskRead
  <1>2. node.type \in PartTypes /\ twin.type \in PartTypes
    BY <1>1, TellingRead
  <1>. DEFINE c == parseChunkForContent(f, Shows, node.type)
              d == ParseDeepSeekContentLine(f, Shows, twin.type)
  <1>3. c \in NodeChunks(Shows) /\ d \in Lines
    BY <1>1, <1>2, NodeChunkRead, LineRead
  <1>4. node' \in {node, NodeLine(node, c, nodeAsk)} /\ twin' \in {twin, GoLine(twin, d, nodeAsk)}
    BY DEF NodeReadsFrame, Shows
  <1>. HIDE DEF c, d
  <1>5. NodeLine(node, c, nodeAsk) \in NodeTellings(Shows)
    BY <1>1, <1>3, NodePartsTold
  <1>6. GoLine(twin, d, nodeAsk) \in Tellings(Shows)
    <2>1. nodeAsk.thinking = Shows
      BY DEF Shows
    <2>. HIDE DEF Shows
    <2>. QED BY <1>1, <1>3, <2>1, GoLineTold
  <1>. QED BY <1>1, <1>4, <1>5, <1>6

LEMMA NodeReadsStep ==
    ASSUME NodeInv, NodeReads
    PROVE  NodeInv'
  <1>1. PICK n \in 1..Len(Head(nodeLeft).text) \union {Len(Head(nodeLeft).text)} :
              NodeReadsFrame(Piece(n)) /\ nodeLeft' = After(n)
    BY DEF NodeReads
  <1>2. Piece(n) \in Frames /\ After(n) \in Seq(Frames)
    BY FrameRead DEF NodeReads
  <1>3. node' \in NodeTellings(Shows) /\ twin' \in Tellings(Shows)
    BY <1>1, <1>2, FrameTold
  <1>4. StreamsTyped'
    BY <1>3 DEF StreamsTyped, Shows, NodeReads
  <1>5. nodeStage' # "retrying"
    BY DEF NodeReads
  <1>. QED BY <1>1, <1>2, <1>4, <1>5 DEF NodeInv, NodeReads

LEMMA FinishesStep ==
    ASSUME NodeInv, NEW reason \in {"stop", "content_filter"}, NEW defers \in BOOLEAN, defers => Defers,
           Finishes(reason, defers)
    PROVE  NodeInv'
  <1>. DEFINE goes == Defers /\ reason # "content_filter"
  <1>1. Shows \in BOOLEAN /\ node \in NodeTellings(Shows) /\ twin \in Tellings(Shows) /\ goes \in BOOLEAN
    BY NodeAskRead
  <1>2. NodeEndsTyped(NodeFinish(node, reason, defers, nodeAsk), Shows, defers)
    BY <1>1, NodeFinished
  <1>3. EndsTyped(GoFinish(twin, reason, goes, nodeAsk), Shows, goes)
    <2>. HIDE DEF goes
    <2>. QED BY <1>1, GoFinished
  <1>4. node' = NodeFinish(node, reason, defers, nodeAsk) /\ twin' = GoFinish(twin, reason, goes, nodeAsk)
    BY DEF Finishes
  <1>5. /\ node' \in NodeTellings(Shows) /\ twin' \in Tellings(Shows)
        /\ node'.ended = "" => defers /\ ~node'.done /\ Blank(node'.text)
    BY <1>2, <1>3, <1>4 DEF EndsTyped, NodeEndsTyped
  <1>6. StreamsTyped'
    BY <1>5 DEF StreamsTyped, Shows, Finishes
  <1>7. nodeStage' \in NodeStages /\ (nodeStage' = "retrying" => Defers' /\ ~node'.done /\ Blank(node'.text))
    <2>1. (nodeStage' = "retrying" => defers /\ ~node'.done /\ Blank(node'.text)) /\ nodeStage' \in NodeStages /\ nodeRetries' = nodeRetries
      BY <1>5 DEF Finishes, NodeStages
    <2>. QED BY <2>1 DEF Defers
  <1>8. nodeLeft' \in Seq(Frames)
    BY EmptySeq DEF Finishes
  <1>. QED BY <1>6, <1>7, <1>8 DEF NodeInv, Finishes

LEMMA NodeEndsStep ==
    ASSUME NodeInv, NodeEnds
    PROVE  NodeInv'
  <1>1. Defers \in BOOLEAN /\ FALSE \in BOOLEAN /\ "stop" \in {"stop", "content_filter"}
    BY DEF Defers
  <1>2. CASE Finishes("stop", Defers)
    <2>1. Defers => Defers
      OBVIOUS
    <2>. QED BY <1>1, <1>2, <2>1, FinishesStep
  <1>. DEFINE f == Head(nodeLeft)
              again == Defers /\ f.kind \notin {"error", "filter"}
              reason == ReasonOf(f)
  <1>3. CASE Finishes(reason, again)
    <2>1. reason \in {"stop", "content_filter"}
      <3>. DEFINE A == f.kind = "error"
                  B == f.kind = "filter"
                  b == IF Blank(node.text) THEN "content_filter" ELSE "stop"
      <3>1. reason = CASE A -> "content_filter" [] B -> b [] OTHER -> "stop"
        BY DEF ReasonOf
      <3>2. b \in {"stop", "content_filter"} /\ (A => ~B)
        OBVIOUS
      <3>. HIDE DEF A, B, b, reason
      <3>. QED BY <3>1, <3>2
    <2>2. again \in BOOLEAN /\ (again => Defers)
      OBVIOUS
    <2>. HIDE DEF reason, again
    <2>. QED BY <1>3, <2>1, <2>2, FinishesStep
  <1>. QED BY <1>2, <1>3 DEF NodeEnds

LEMMA NodeBreaksStep ==
    ASSUME NodeInv, NodeBreaks
    PROVE  NodeInv'
  <1>1. FALSE \in BOOLEAN /\ "stop" \in {"stop", "content_filter"} /\ (FALSE => Defers)
    OBVIOUS
  <1>2. Finishes("stop", FALSE)
    BY DEF NodeBreaks
  <1>. QED BY <1>1, <1>2, FinishesStep

LEMMA NodeRetriesStep ==
    ASSUME NodeInv, NodeRetries
    PROVE  NodeInv'
  <1>1. Shows \in BOOLEAN /\ node \in NodeTellings(Shows) /\ twin \in Tellings(Shows)
    BY NodeAskRead
  <1>2. nodeRetries' \in 0..NodeRetryMax /\ nodeAsk' = nodeAsk
    BY DEF NodeInv, NodeRetries, Defers, NodeRetryMax
  <1>3. nodeLeft' \in Seq(Frames) /\ nodeStage' \in NodeStages /\ nodeStage' # "retrying"
    BY NodeAssumption, EmptySeq DEF NodeRetries, NodeStages
  <1>4. node' \in NodeTellings(Shows) /\ twin' \in Tellings(Shows)
    <2>1. [twin EXCEPT !.type = InitialType(Shows)] \in Tellings(Shows)
      BY <1>1, NewStreamTyped, TellingUpdates
    <2>2. NodeFinish(node, "stop", FALSE, nodeAsk) \in NodeTellings(Shows)
      <3>1. FALSE \in BOOLEAN /\ "stop" \in {"stop", "content_filter"}
        OBVIOUS
      <3>2. NodeEndsTyped(NodeFinish(node, "stop", FALSE, nodeAsk), Shows, FALSE)
        BY <1>1, <3>1, NodeFinished
      <3>. QED BY <3>2 DEF NodeEndsTyped
    <2>. QED BY <1>1, <2>1, <2>2 DEF NodeRetries, Shows
  <1>5. StreamsTyped'
    BY <1>2, <1>4 DEF StreamsTyped, Shows
  <1>. QED BY <1>2, <1>3, <1>5 DEF NodeInv

LEMMA NodeStep == NodeInv /\ [NodeNext]_nodeVars => NodeInv'
  <1>. SUFFICES ASSUME NodeInv, [NodeNext]_nodeVars PROVE NodeInv'
    OBVIOUS
  <1>1. CASE UNCHANGED nodeVars
    BY <1>1 DEF nodeVars, NodeInv, StreamsTyped, Shows, Defers
  <1>. QED BY <1>1, NodeOpensStep, NodeReadsStep, NodeEndsStep, NodeBreaksStep, NodeRetriesStep DEF NodeNext

LEMMA NodeTypes == NodeInv => NodeTypeOK
  <1>. SUFFICES ASSUME NodeInv PROVE NodeTypeOK
    OBVIOUS
  <1>1. Shows \in BOOLEAN
    BY NodeAskRead
  <1>2. ASSUME NEW r \in {node, twin}
        PROVE  /\ r.ended \in {"", "stop", "tool_calls", "content_filter", "upstream_empty_output"}
               /\ r.type \in {"thinking", "text"} /\ (~nodeAsk.thinking => r.thinking = <<>>) /\ r.sieve.calls \in Nat
    <2>1. r \in Tellings(Shows)
      BY NodeAskRead
    <2>2. r.ended \in Endings /\ r.type \in PartTypes /\ (~Shows => r.thinking = <<>>) /\ r.sieve \in Sieves(Words)
      BY <1>1, <2>1, TellingRead
    <2>3. r.sieve.calls \in Nat
      BY <2>2, SieveFields
    <2>. QED BY <2>2, <2>3 DEF Endings, PartTypes, Shows
  <1>. QED BY <1>2 DEF NodeInv, NodeStages, NodeTypeOK

LEMMA NodeSilence == NodeInv => RetriesInSilence
  <1>. SUFFICES ASSUME NodeInv, nodeStage = "retrying"
                PROVE  Blank(node.told \o node.sieve.capture \o node.sieve.pending) /\ ~node.done
    BY DEF RetriesInSilence
  <1>1. ~node.done /\ Blank(node.text) /\ Silent(node)
    BY NodeAskRead DEF NodeInv, NodeTellings
  <1>2. node.told \in Seq(LineBreaks) /\ node.sieve \in Sieves(LineBreaks)
    BY <1>1 DEF Silent, Quietly
  <1>3. node.sieve.capture \in Seq(LineBreaks) /\ node.sieve.pending \in Seq(LineBreaks)
    BY <1>2, SieveFields
  <1>4. node.told \o node.sieve.capture \o node.sieve.pending \in Seq(LineBreaks)
    BY <1>2, <1>3, Joined
  <1>. QED BY <1>1, <1>4, BlankText

\* However DeepSeek's answer is cut, wherever it ends or breaks off, and whatever
\* is tried again, the port and the Go server hold streams of the same shape: no
\* thinking is kept that was not asked for, an attempt has not ended or has ended
\* in one of the known ways, and an answer is tried again once at most.
THEOREM NodeTyped == NodeSpec => []NodeTypeOK
  <1>1. NodeInit => NodeInv
    BY NodeInitInv
  <1>2. NodeInv /\ [NodeNext]_nodeVars => NodeInv'
    BY NodeStep
  <1>3. NodeInv => NodeTypeOK
    BY NodeTypes
  <1>. QED BY <1>1, <1>2, <1>3, PTL DEF NodeSpec

\* However DeepSeek's answer is cut: before the port tries it again its client was
\* shown nothing but line breaks, and the sieve holds nothing else back.
THEOREM NodeRetriesSilently == NodeSpec => []RetriesInSilence
  <1>1. NodeInit => NodeInv
    BY NodeInitInv
  <1>2. NodeInv /\ [NodeNext]_nodeVars => NodeInv'
    BY NodeStep
  <1>3. NodeInv => RetriesInSilence
    BY NodeSilence
  <1>. QED BY <1>1, <1>2, <1>3, PTL DEF NodeSpec

=============================================================================
