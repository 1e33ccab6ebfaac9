---------------------------- MODULE PoolCoreProofs ----------------------------
(***************************************************************************)
(* What the critical sections of Pool.mu do to the slot ledger, stated     *)
(* once for the modules that prove something about the goroutines that run *)
(* them.                                                                   *)
(***************************************************************************)
EXTENDS PoolCore, FiniteSetTheorems, SequenceTheorems, WellFoundedInduction, TLAPS

\* What removing one element of a sequence gives.
LEMMA RemoveAtType ==
    ASSUME NEW S, NEW s \in Seq(S), NEW i \in DOMAIN s
    PROVE  RemoveAt(s, i) \in Seq(S)
  BY DEF RemoveAt

\* bumpQueue keeps the rotation a sequence of accounts.
LEMMA BumpQueueType ==
    ASSUME queue \in Seq(Accounts), NEW a \in Accounts, bumpQueue(a)
    PROVE  queue' \in Seq(Accounts)
  <1>1. CASE queue' = queue
    BY <1>1
  <1>2. CASE \E i \in DOMAIN queue : queue' = Append(RemoveAt(queue, i), a)
    <2>1. PICK i \in DOMAIN queue : queue' = Append(RemoveAt(queue, i), a)
      BY <1>2
    <2>2. RemoveAt(queue, i) \in Seq(Accounts)
      BY RemoveAtType
    <2>. QED BY <2>1, <2>2
  <1>. QED BY <1>1, <1>2 DEF bumpQueue

\* Whatever acquireLocked hands out, it hands out an account of the store
\* that has a slot left, and counts that slot.
LEMMA AcquireEffect ==
    ASSUME LedgerTypeOK,
           NEW target \in Accounts \cup {NoAccount}, NEW exclude, NEW a \in Accounts,
           acquireLocked(target, exclude, a)
    PROVE  /\ Usable(a, exclude)
           /\ inUse' = [inUse EXCEPT ![a] = @ + 1]
           /\ inUse' \in [Accounts -> Nat]
           /\ queue' \in Seq(Accounts)
  <1>1. Usable(a, exclude)
    BY DEF acquireLocked, Candidates
  <1>2. inUse' = [inUse EXCEPT ![a] = @ + 1]
    BY DEF acquireLocked
  <1>3. inUse' \in [Accounts -> Nat]
    BY <1>2 DEF LedgerTypeOK
  <1>4. queue' \in Seq(Accounts)
    BY BumpQueueType DEF acquireLocked, LedgerTypeOK
  <1>. QED BY <1>1, <1>2, <1>3, <1>4

\* A release keeps the ledger's types and lowers no other account's count.
LEMMA ReleaseEffect ==
    ASSUME LedgerTypeOK, NEW a \in Accounts, releaseSlot(a)
    PROVE  /\ inUse' \in [Accounts -> Nat]
           /\ queue' = queue
           /\ inUse'[a] = IF inUse[a] > 0 THEN inUse[a] - 1 ELSE 0
           /\ \A b \in Accounts \ {a} : inUse'[b] = inUse[b]
  BY DEF releaseSlot, LedgerTypeOK

\* SetToSeqs lists a set of accounts as a sequence of accounts.
LEMMA ListType ==
    ASSUME NEW S \in SUBSET Accounts, NEW q \in SetToSeqs(S)
    PROVE  q \in Seq(Accounts)
  <1>1. Cardinality(S) \in Nat
    BY FS_Subset, FS_CardinalityType, AccountsAssumption
  <1>2. q \in [1..Cardinality(S) -> Accounts]
    BY DEF SetToSeqs
  <1>. QED BY <1>1, <1>2

\* A list in another order is as long and has the same accounts.
LEMMA OrderType ==
    ASSUME NEW l \in Seq(Accounts), NEW q \in Orders(l)
    PROVE  /\ q \in Seq(Accounts)
           /\ Len(q) = Len(l)
           /\ Range(q) = Range(l)
  <1>1. PICK n \in Nat : n = Len(l) /\ DOMAIN l = 1..n
    OBVIOUS
  <1>2. PICK p \in Bijection(DOMAIN l, DOMAIN l) : q = [i \in DOMAIN l |-> l[p[i]]]
    BY DEF Orders
  <1>3. /\ \A i \in 1..n : p[i] \in 1..n
        /\ \A k \in 1..n : \E i \in 1..n : p[i] = k
    BY <1>1, <1>2 DEF Bijection, Injection, Surjection
  <1>4. q = [i \in 1..n |-> l[p[i]]]
    BY <1>1, <1>2
  <1>5. \A i \in 1..n : q[i] = l[p[i]] /\ l[p[i]] \in Accounts
    BY <1>1, <1>3, <1>4
  <1>6. q \in Seq(Accounts) /\ Len(q) = n
    BY <1>4, <1>5
  <1>7. ASSUME NEW x \in Range(l) PROVE x \in Range(q)
    <2>1. PICK k \in 1..n : x = l[k]
      BY <1>1, <1>7 DEF Range
    <2>2. PICK i \in 1..n : p[i] = k
      BY <1>3
    <2>. QED BY <1>4, <1>5, <2>1, <2>2 DEF Range
  <1>8. ASSUME NEW x \in Range(q) PROVE x \in Range(l)
    <2>1. PICK i \in 1..n : x = l[p[i]]
      BY <1>4, <1>5, <1>8 DEF Range
    <2>. QED BY <1>1, <1>3, <2>1 DEF Range
  <1>. QED BY <1>1, <1>6, <1>7, <1>8

\* Installing a list of accounts makes a well-formed empty ledger.
LEMMA InstallType ==
    ASSUME NEW l \in Seq(Accounts), InstallLedger(l)
    PROVE  /\ inUse' = [a \in Accounts |-> 0]
           /\ inUse' \in [Accounts -> Nat]
           /\ queue' \in Seq(Accounts)
           /\ queue' \in Orders(l)
  BY OrderType DEF InstallLedger

\* The store has at most as many accounts as its list has entries.
LEMMA StoredFinite ==
    ASSUME NEW l \in Seq(Accounts)
    PROVE  /\ Range(l) \in SUBSET Accounts
           /\ IsFiniteSet(Range(l)) /\ Cardinality(Range(l)) \in Nat
           /\ Cardinality(Range(l)) <= Len(l)
           /\ Range(l) = {} => Len(l) = 0
  <1>1. Len(l) \in Nat /\ DOMAIN l = 1..Len(l)
    OBVIOUS
  <1>2. l \in Surjection(1..Len(l), Range(l)) /\ Range(l) \in SUBSET Accounts
    BY <1>1 DEF Surjection, Range
  <1>3. ASSUME NEW n \in Nat PROVE IsFiniteSet(1..n) /\ Cardinality(1..n) = n
    BY FS_Interval
  <1>4. IsFiniteSet(Range(l)) /\ Cardinality(Range(l)) <= Len(l)
    BY <1>1, <1>2, <1>3, FS_Surjection
  <1>5. ASSUME Len(l) # 0 PROVE Range(l) # {}
    <2>1. 1 \in DOMAIN l
      BY <1>1, <1>5
    <2>. QED BY <2>1 DEF Range
  <1>. QED BY <1>2, <1>4, <1>5, FS_CardinalityType

-----------------------------------------------------------------------------
\* The rotation

\* The rotation is the list l in some order.
Rotates(l) == queue \in Orders(l)

\* The places of a sequence without its i-th element.
LEMMA RemoveAtPlaces ==
    ASSUME NEW S, NEW s \in Seq(S), NEW i \in DOMAIN s
    PROVE  /\ Len(RemoveAt(s, i)) = Len(s) - 1
           /\ \A k \in 1..(Len(s) - 1) :
                 RemoveAt(s, i)[k] = IF k < i THEN s[k] ELSE s[k + 1]
  <1>1. Len(s) \in Nat /\ i \in 1..Len(s)
    OBVIOUS
  <1>2. PICK front : front = SubSeq(s, 1, i - 1)
    OBVIOUS
  <1>3. PICK back : back = SubSeq(s, i + 1, Len(s))
    OBVIOUS
  <1>4. front \in Seq(S) /\ Len(front) = i - 1 /\ \A k \in 1..(i - 1) : front[k] = s[k]
    BY <1>1, <1>2
  <1>5. /\ back \in Seq(S)
        /\ Len(back) = Len(s) - i
        /\ \A k \in 1..(Len(s) - i) : back[k] = s[k + i]
    BY <1>1, <1>3, SubSeqProperties
  <1>6. RemoveAt(s, i) = front \o back
    BY <1>2, <1>3 DEF RemoveAt
  <1>7. Len(front \o back) = Len(s) - 1
    BY <1>1, <1>4, <1>5
  <1>8. ASSUME NEW k \in 1..(Len(s) - 1), k < i PROVE (front \o back)[k] = s[k]
    BY <1>1, <1>4, <1>5, <1>8
  <1>9. ASSUME NEW k \in 1..(Len(s) - 1), k >= i PROVE (front \o back)[k] = s[k + 1]
    <2>1. k - (i - 1) \in 1..(Len(s) - i) /\ (k - (i - 1)) + i = k + 1
      BY <1>1, <1>9
    <2>2. (front \o back)[k] = back[k - (i - 1)]
      BY <1>1, <1>4, <1>5, <1>9
    <2>. QED BY <1>5, <2>1, <2>2
  <1>10. ASSUME NEW k \in 1..(Len(s) - 1)
         PROVE  (front \o back)[k] = IF k < i THEN s[k] ELSE s[k + 1]
    <2>1. CASE k < i
      BY <1>8, <2>1
    <2>2. CASE ~(k < i)
      <3>1. k >= i
        BY <1>1, <2>2
      <3>. QED BY <1>9, <2>2, <3>1
    <2>. QED BY <2>1, <2>2
  <1>. QED BY <1>6, <1>7, <1>10

\* Moving the i-th account to the tail, place by place.
LEMMA MoveToTail ==
    ASSUME queue \in Seq(Accounts), NEW i \in DOMAIN queue,
           queue' = Append(RemoveAt(queue, i), queue[i])
    PROVE  /\ DOMAIN queue' = 1..Len(queue)
           /\ \A k \in 1..Len(queue) :
                 queue'[k] = IF k < i THEN queue[k]
                             ELSE IF k < Len(queue) THEN queue[k + 1] ELSE queue[i]
  <1>1. Len(queue) \in Nat /\ i \in 1..Len(queue) /\ queue[i] \in Accounts
    OBVIOUS
  <1>2. PICK rest : rest = RemoveAt(queue, i)
    OBVIOUS
  <1>3. /\ rest \in Seq(Accounts)
        /\ Len(rest) = Len(queue) - 1
        /\ \A k \in 1..(Len(queue) - 1) : rest[k] = IF k < i THEN queue[k] ELSE queue[k + 1]
    BY <1>2, RemoveAtType, RemoveAtPlaces
  <1>4. /\ DOMAIN queue' = 1..Len(queue)
        /\ \A k \in 1..Len(queue) : queue'[k] = IF k < Len(queue) THEN rest[k] ELSE queue[i]
    BY <1>1, <1>2, <1>3
  <1>5. ASSUME NEW k \in 1..Len(queue), k < Len(queue)
        PROVE  queue'[k] = IF k < i THEN queue[k] ELSE queue[k + 1]
    BY <1>1, <1>3, <1>4, <1>5
  <1>6. queue'[Len(queue)] = queue[i]
    BY <1>1, <1>4
  <1>. QED BY <1>1, <1>4, <1>5, <1>6

\* The place among n from which the k-th account came when the i-th moved to
\* the tail.
From(k, i, n) == IF k < i THEN k ELSE IF k < n THEN k + 1 ELSE i

LEMMA FromPermutes ==
    ASSUME NEW n \in Nat, NEW i \in 1..n
    PROVE  /\ \A k \in 1..n : From(k, i, n) \in 1..n
           /\ \A j \in 1..n : \A k \in 1..n : From(j, i, n) = From(k, i, n) => j = k
           /\ \A m \in 1..n : \E k \in 1..n : From(k, i, n) = m
  <1>1. \A k \in 1..n : From(k, i, n) \in 1..n
    BY DEF From
  <1>2. ASSUME NEW j \in 1..n, NEW k \in 1..n, From(j, i, n) = From(k, i, n)
        PROVE  j = k
    BY <1>2 DEF From
  <1>3. ASSUME NEW m \in 1..n
        PROVE  \E k \in 1..n : From(k, i, n) = m
    <2>1. CASE m < i
      BY <2>1 DEF From
    <2>2. CASE m = i
      <3>1. n \in 1..n /\ From(n, i, n) = i
        BY DEF From
      <3>. QED BY <2>2, <3>1
    <2>3. CASE m > i
      <3>1. m - 1 \in 1..n /\ From(m - 1, i, n) = m
        BY <2>3 DEF From
      <3>. QED BY <3>1
    <2>. QED BY <2>1, <2>2, <2>3
  <1>. QED BY <1>1, <1>2, <1>3

\* bumpQueue's splice neither loses an entry nor repeats one.
LEMMA BumpQueueRotates ==
    ASSUME NEW l \in Seq(Accounts), Rotates(l), NEW a \in Accounts, bumpQueue(a)
    PROVE  Rotates(l)'
  <1>1. CASE queue' = queue
    BY <1>1 DEF Rotates, Orders
  <1>2. ASSUME NEW i \in DOMAIN queue, queue' = Append(RemoveAt(queue, i), queue[i])
        PROVE  queue' \in Orders(l)
    <2>1. PICK n \in Nat : n = Len(l) /\ DOMAIN l = 1..n
      OBVIOUS
    <2>2. queue \in Seq(Accounts) /\ Len(queue) = n
      BY <2>1, OrderType DEF Rotates
    <2>3. i \in 1..n /\ DOMAIN queue = 1..n
      BY <2>2
    <2>4. DOMAIN queue' = 1..n /\ \A k \in 1..n : queue'[k] = queue[From(k, i, n)]
      BY <1>2, <2>2, <2>3, MoveToTail DEF From
    <2>5. /\ \A k \in 1..n : From(k, i, n) \in 1..n
          /\ \A j \in 1..n : \A k \in 1..n : From(j, i, n) = From(k, i, n) => j = k
          /\ \A m \in 1..n : \E k \in 1..n : From(k, i, n) = m
      BY <2>3, FromPermutes
    <2>6. PICK p \in Bijection(1..n, 1..n) : queue = [k \in 1..n |-> l[p[k]]]
      BY <2>1 DEF Rotates, Orders
    <2>7. /\ \A k \in 1..n : p[k] \in 1..n
          /\ \A j \in 1..n : \A k \in 1..n : p[j] = p[k] => j = k
          /\ \A m \in 1..n : \E k \in 1..n : p[k] = m
      <3>1. p \in Injection(1..n, 1..n) /\ p \in Surjection(1..n, 1..n)
        BY DEF Bijection
      <3>2. p \in [1..n -> 1..n] /\ IsInjective(p)
        BY <3>1 DEF Injection
      <3>. QED BY <3>1, <3>2 DEF Surjection, IsInjective
    <2>8. PICK t : t = [k \in 1..n |-> p[From(k, i, n)]]
      OBVIOUS
    <2>9. t \in [1..n -> 1..n] /\ \A k \in 1..n : t[k] = p[From(k, i, n)]
      BY <2>5, <2>7, <2>8
    <2>10. ASSUME NEW j \in 1..n, NEW k \in 1..n, t[j] = t[k] PROVE j = k
      <3>1. p[From(j, i, n)] = p[From(k, i, n)]
        BY <2>9, <2>10
      <3>2. From(j, i, n) = From(k, i, n)
        BY <2>5, <2>7, <3>1
      <3>. QED BY <2>5, <3>2
    <2>11. ASSUME NEW m \in 1..n PROVE \E k \in 1..n : t[k] = m
      <3>1. PICK j \in 1..n : p[j] = m
        BY <2>7
      <3>2. PICK k \in 1..n : From(k, i, n) = j
        BY <2>5
      <3>. QED BY <2>9, <3>1, <3>2
    <2>12. t \in Bijection(1..n, 1..n)
      <3>1. IsInjective(t)
        BY <2>9, <2>10 DEF IsInjective
      <3>. QED BY <2>9, <2>11, <3>1 DEF Bijection, Injection, Surjection
    <2>13. \A k \in 1..n : queue'[k] = l[t[k]]
      BY <2>4, <2>5, <2>6, <2>9
    <2>14. queue' \in Seq(Accounts)
      BY <2>2, BumpQueueType
    <2>15. queue' = [k \in 1..n |-> l[t[k]]]
      BY <2>4, <2>13, <2>14
    <2>. QED BY <2>1, <2>12, <2>15 DEF Orders
  <1>. QED BY <1>1, <1>2 DEF bumpQueue, Rotates

\* What a rotation of the store's list offers.
LEMMA RotationOffers ==
    ASSUME LedgerTypeOK, Rotates(listed)
    PROVE  Len(queue) = Len(listed) /\ Range(queue) = stored /\ Offered = stored
  <1>1. listed \in Seq(Accounts) /\ queue \in Orders(listed)
    BY DEF LedgerTypeOK, Rotates
  <1>. QED BY <1>1, OrderType DEF stored, Offered

-----------------------------------------------------------------------------
\* Sums of slots.  SumFunction is a fold over a set in an order nobody knows;
\* these are the laws of sums that the pool's total, currentInUse, obeys.

\* Every set of naturals has a least member.
LEMMA LeastNumber ==
    ASSUME NEW T \in SUBSET Nat, T # {}
    PROVE  \E n \in T : \A m \in T : ~(m < n)
  <1>1. IsWellFoundedOn(OpToRel(<, Nat), Nat)
    BY NatLessThanWellFounded
  <1>2. PICK n \in T : \A m \in T : ~(<<m, n>> \in OpToRel(<, Nat))
    BY <1>1, WFMin
  <1>3. ASSUME NEW m \in T, m < n PROVE <<m, n>> \in OpToRel(<, Nat)
    BY <1>3 DEF OpToRel
  <1>. QED BY <1>2, <1>3

\* Among subsets of a finite set, one includes none of the others.
LEMMA SmallestSet ==
    ASSUME NEW D, IsFiniteSet(D), NEW T \in SUBSET SUBSET D, T # {}
    PROVE  \E s \in T : \A t \in T : ~(t \subseteq s /\ t # s)
  <1>1. T \subseteq FiniteSubsetsOf(D)
    BY FS_FiniteSubsetsOfFinite
  <1>2. IsWellFoundedOn(StrictSubsetOrdering(D), FiniteSubsetsOf(D))
    BY FS_StrictSubsetOrderingWellFounded
  <1>3. PICK s \in T : \A t \in T : ~(<<t, s>> \in StrictSubsetOrdering(D))
    BY <1>1, <1>2, WFMin
  <1>. QED BY <1>3 DEF StrictSubsetOrdering

\* The member a fold takes out of a set next, one step of the sum over a set,
\* and the sums over all subsets of D.
AnyOf(s) == CHOOSE x \in s : TRUE

SumStep(f, g, s) == IF s = {} THEN 0 ELSE f[AnyOf(s)] + g[s \ {AnyOf(s)}]

Sums(f, D, g) == g = [s \in SUBSET D |-> SumStep(f, g, s)]

LEMMA AnyMember == ASSUME NEW s, s # {} PROVE AnyOf(s) \in s
  BY DEF AnyOf

\* Such sums exist: the recursion ends on a finite set.
LEMMA SumsExist ==
    ASSUME NEW D, IsFiniteSet(D), NEW f
    PROVE  \E g : Sums(f, D, g)
  <1>. DEFINE Upto(n, g) == \A s \in SUBSET D : Cardinality(s) <= n => g[s] = SumStep(f, g, s)
              Bad == {n \in Nat : ~ \E g : Upto(n, g)}
  <1>1. \A s \in SUBSET D : Cardinality(s) \in Nat /\ IsFiniteSet(s)
    BY FS_Subset, FS_CardinalityType
  <1>2. IsFiniteSet(D) /\ Cardinality(D) \in Nat
    BY FS_CardinalityType
  <1>3. ASSUME NEW n \in Nat, \A m \in Bad : ~(m < n) PROVE \E g : Upto(n, g)
    <2>1. CASE n = 0
      <3>. DEFINE g == [s \in SUBSET D |-> 0]
      <3>1. \A s \in SUBSET D : Cardinality(s) <= 0 => s = {}
        BY <1>1, FS_EmptySet
      <3>2. Upto(n, g)
        BY <2>1, <3>1 DEF SumStep
      <3>. QED BY <3>2
    <2>2. CASE n > 0
      <3>1. n - 1 \in Nat /\ n - 1 < n
        BY <2>2
      <3>2. n - 1 \notin Bad
        BY <1>3, <3>1
      <3>3. PICK h : Upto(n - 1, h)
        BY <3>1, <3>2
      <3>. DEFINE g == [s \in SUBSET D |-> IF Cardinality(s) <= n - 1 THEN h[s] ELSE SumStep(f, h, s)]
      <3>4. ASSUME NEW s \in SUBSET D, s # {}, Cardinality(s) <= n
            PROVE  g[s \ {AnyOf(s)}] = h[s \ {AnyOf(s)}]
        <4>1. AnyOf(s) \in s
          BY <3>4, AnyMember
        <4>2. Cardinality(s \ {AnyOf(s)}) = Cardinality(s) - 1
          BY <1>1, <4>1, FS_RemoveElement
        <4>3. Cardinality(s \ {AnyOf(s)}) <= n - 1
          BY <1>1, <3>4, <4>2
        <4>. QED BY <4>3
      <3>5. ASSUME NEW s \in SUBSET D, Cardinality(s) <= n
            PROVE  SumStep(f, g, s) = SumStep(f, h, s)
        <4>. HIDE DEF g
        <4>. QED BY <3>4, <3>5 DEF SumStep
      <3>6. ASSUME NEW s \in SUBSET D, Cardinality(s) <= n
            PROVE  g[s] = SumStep(f, h, s)
        <4>1. CASE Cardinality(s) <= n - 1
          <5>1. h[s] = SumStep(f, h, s)
            BY <3>3, <4>1
          <5>. QED BY <4>1, <5>1
        <4>2. CASE ~(Cardinality(s) <= n - 1)
          BY <4>2
        <4>. QED BY <4>1, <4>2
      <3>. HIDE DEF g
      <3>7. Upto(n, g)
        BY <3>5, <3>6
      <3>. QED BY <3>7
    <2>. QED BY <2>1, <2>2
  <1>. HIDE DEF Upto
  <1>4. Bad = {}
    <2>. SUFFICES ASSUME Bad # {} PROVE FALSE
      OBVIOUS
    <2>1. PICK n \in Bad : \A m \in Bad : ~(m < n)
      BY LeastNumber
    <2>. QED BY <1>3, <2>1
  <1>5. PICK h : Upto(Cardinality(D), h)
    BY <1>2, <1>4
  <1>. DEFINE g == [s \in SUBSET D |-> h[s]]
  <1>6. ASSUME NEW s \in SUBSET D PROVE g[s] = SumStep(f, g, s)
    <2>1. Cardinality(s) <= Cardinality(D)
      BY FS_Subset
    <2>2. h[s] = SumStep(f, h, s)
      BY <1>5, <2>1 DEF Upto
    <2>. QED BY <2>2 DEF SumStep
  <1>7. g = [s \in SUBSET D |-> g[s]]
    OBVIOUS
  <1>. HIDE DEF g
  <1>8. g = [s \in SUBSET D |-> SumStep(f, g, s)]
    BY <1>6, <1>7
  <1>. QED BY <1>8 DEF Sums

\* SumFunctionOnSet, a fold, is one of them.
LEMMA SumIsOne ==
  ASSUME NEW D, IsFiniteSet(D), NEW f
  PROVE \E g : Sums(f, D, g) /\ SumFunctionOnSet(f, D) = g[D]
  <1>1. PICK h : Sums(f, D, h)
    BY SumsExist
  <1>. QED
  BY <1>1 DEF SumFunctionOnSet, FoldFunctionOnSet, MapThenFoldSet, Sums, AnyOf, SumStep

\* The sum of a finite set of numbers, taken apart at any of its members.
LEMMA SumOrder ==
    ASSUME NEW D, IsFiniteSet(D), NEW f \in [D -> Nat], NEW g, Sums(f, D, g),
           NEW s \in SUBSET D
    PROVE  g[s] \in Nat /\ \A x \in s : g[s] = f[x] + g[s \ {x}]
  <1>. DEFINE Good(t) == g[t] \in Nat /\ \A x \in t : g[t] = f[x] + g[t \ {x}]
              Bad == {t \in SUBSET D : ~Good(t)}
  <1>1. \A t \in SUBSET D : g[t] = SumStep(f, g, t)
    BY DEF Sums
  <1>2. ASSUME NEW t \in SUBSET D, \A u \in Bad : ~(u \subseteq t /\ u # t)
        PROVE  Good(t)
    <2>1. CASE t = {}
      <3>1. g[t] = 0
        BY <1>1, <2>1 DEF SumStep
      <3>. QED BY <2>1, <3>1
    <2>2. CASE t # {}
      <3>. DEFINE y == AnyOf(t)
      <3>1. y \in t
        BY <2>2, AnyMember
      <3>2. g[t] = f[y] + g[t \ {y}]
        BY <1>1, <2>2 DEF SumStep
      <3>. HIDE DEF y
      <3>3. \A x \in t : t \ {x} \in SUBSET D /\ t \ {x} \notin Bad
        BY <1>2
      <3>4. \A x \in t : Good(t \ {x})
        BY <3>3
      <3>5. f[y] \in Nat /\ \A x \in t : f[x] \in Nat /\ g[t \ {x}] \in Nat
        BY <3>1, <3>4
      <3>6. g[t] \in Nat
        BY <3>1, <3>2, <3>5
      <3>7. ASSUME NEW x \in t, x # y PROVE g[t] = f[x] + g[t \ {x}]
        <4>1. g[t \ {y}] = f[x] + g[(t \ {y}) \ {x}]
          BY <3>1, <3>4, <3>7
        <4>2. g[t \ {x}] = f[y] + g[(t \ {x}) \ {y}]
          BY <3>1, <3>4, <3>7
        <4>3. PICK c : c = g[(t \ {x}) \ {y}]
          OBVIOUS
        <4>4. t \ {x} \in SUBSET D /\ (t \ {x}) \ {y} \notin Bad
          BY <1>2, <3>1, <3>7
        <4>5. c \in Nat
          BY <4>3, <4>4
        <4>6. (t \ {y}) \ {x} = (t \ {x}) \ {y}
          OBVIOUS
        <4>7. g[t \ {y}] = f[x] + c
          BY <4>1, <4>3, <4>6
        <4>8. g[t \ {x}] = f[y] + c
          BY <4>2, <4>3
        <4>9. f[x] \in Nat /\ f[y] \in Nat
          BY <3>5
        <4>. HIDE DEF Good, Bad
        <4>. QED BY <3>2, <4>5, <4>7, <4>8, <4>9
      <3>. QED BY <3>2, <3>6, <3>7
    <2>. QED BY <2>1, <2>2
  <1>. HIDE DEF Good
  <1>3. Bad = {}
    <2>. SUFFICES ASSUME Bad # {} PROVE FALSE
      OBVIOUS
    <2>1. Bad \in SUBSET SUBSET D
      OBVIOUS
    <2>2. PICK t \in Bad : \A u \in Bad : ~(u \subseteq t /\ u # t)
      <3>. HIDE DEF Bad
      <3>. QED BY <2>1, SmallestSet
    <2>. QED BY <1>2, <2>2
  <1>4. Good(s)
    BY <1>3
  <1>. QED BY <1>4 DEF Good

\* Where one function is at most another, so are their sums, and below as soon
\* as one value is.
LEMMA SumOrdered ==
    ASSUME NEW D, IsFiniteSet(D), NEW f \in [D -> Nat], NEW h \in [D -> Nat],
           NEW g, Sums(f, D, g), NEW k, Sums(h, D, k),
           NEW s \in SUBSET D, \A x \in s : f[x] <= h[x]
    PROVE  /\ g[s] <= k[s]
           /\ (\E x \in s : f[x] < h[x]) => g[s] < k[s]
  <1>. DEFINE Good(t) == /\ g[t] <= k[t]
                         /\ (\E x \in t : f[x] < h[x]) => g[t] < k[t]
              Bad == {t \in SUBSET s : ~Good(t)}
  <1>1. IsFiniteSet(s)
    BY FS_Subset
  <1>2. ASSUME NEW t \in SUBSET s, \A u \in Bad : ~(u \subseteq t /\ u # t)
        PROVE  Good(t)
    <2>1. CASE t = {}
      <3>1. g[t] = 0 /\ k[t] = 0
        BY <2>1 DEF Sums, SumStep
      <3>. QED BY <2>1, <3>1
    <2>2. CASE t # {}
      <3>1. ASSUME NEW x \in t PROVE /\ g[t] <= k[t]
                                     /\ f[x] < h[x] => g[t] < k[t]
        <4>1. t \in SUBSET D /\ t \ {x} \in SUBSET D
          OBVIOUS
        <4>2. \A z \in t : g[t] = f[z] + g[t \ {z}]
          BY <4>1, SumOrder
        <4>3. \A z \in t : k[t] = h[z] + k[t \ {z}]
          BY <4>1, SumOrder
        <4>4. g[t \ {x}] \in Nat
          BY <4>1, SumOrder
        <4>5. k[t \ {x}] \in Nat
          BY <4>1, SumOrder
        <4>6. t \ {x} \notin Bad
          BY <1>2
        <4>7. g[t \ {x}] <= k[t \ {x}]
          BY <4>6
        <4>8. f[x] \in Nat /\ h[x] \in Nat /\ f[x] <= h[x]
          OBVIOUS
        <4>. HIDE DEF Good, Bad
        <4>. QED BY <4>2, <4>3, <4>4, <4>5, <4>7, <4>8
      <3>. QED BY <2>2, <3>1
    <2>. QED BY <2>1, <2>2
  <1>. HIDE DEF Good
  <1>3. Bad = {}
    <2>. SUFFICES ASSUME Bad # {} PROVE FALSE
      OBVIOUS
    <2>1. Bad \in SUBSET SUBSET s
      OBVIOUS
    <2>2. PICK t \in Bad : \A u \in Bad : ~(u \subseteq t /\ u # t)
      <3>. HIDE DEF Bad
      <3>. QED BY <1>1, <2>1, SmallestSet
    <2>. QED BY <1>2, <2>2
  <1>4. Good(s)
    BY <1>3
  <1>. QED BY <1>4 DEF Good

\* The sum of naturals is one.
LEMMA SumNat ==
    ASSUME NEW D, IsFiniteSet(D), NEW f \in [D -> Nat]
    PROVE  SumFunction(f) \in Nat
  <1>1. PICK g : Sums(f, D, g) /\ SumFunctionOnSet(f, D) = g[D]
    BY SumIsOne
  <1>2. g[D] \in Nat
    BY <1>1, SumOrder
  <1>. QED BY <1>1, <1>2 DEF SumFunction

\* The sums of whole functions compare as their values do.
LEMMA SumMonotone ==
    ASSUME NEW D, IsFiniteSet(D), NEW f \in [D -> Nat], NEW h \in [D -> Nat],
           \A x \in D : f[x] <= h[x]
    PROVE  /\ SumFunction(f) <= SumFunction(h)
           /\ (\E x \in D : f[x] < h[x]) => SumFunction(f) < SumFunction(h)
  <1>1. PICK g : Sums(f, D, g) /\ SumFunctionOnSet(f, D) = g[D]
    BY SumIsOne
  <1>2. PICK k : Sums(h, D, k) /\ SumFunctionOnSet(h, D) = k[D]
    BY SumIsOne
  <1>3. D \in SUBSET D
    OBVIOUS
  <1>4. /\ g[D] <= k[D]
        /\ (\E x \in D : f[x] < h[x]) => g[D] < k[D]
    BY <1>1, <1>2, <1>3, SumOrdered
  <1>5. DOMAIN f = D /\ DOMAIN h = D
    OBVIOUS
  <1>. QED BY <1>1, <1>2, <1>4, <1>5 DEF SumFunction

\* The sum of a function, without one of its values.
LEMMA SumApart ==
    ASSUME NEW D, IsFiniteSet(D), NEW f \in [D -> Nat], NEW g, Sums(f, D, g),
           SumFunctionOnSet(f, D) = g[D], NEW a \in D
    PROVE  SumFunction(f) = f[a] + g[D \ {a}] /\ g[D \ {a}] \in Nat
  <1>1. PICK s \in SUBSET D : s = D
    OBVIOUS
  <1>2. \A z \in s : g[s] = f[z] + g[s \ {z}]
    BY SumOrder
  <1>3. g[D] = f[a] + g[D \ {a}]
    BY <1>1, <1>2
  <1>4. g[D \ {a}] \in Nat
    BY SumOrder
  <1>. QED BY <1>3, <1>4 DEF SumFunction

\* Changing one value changes the sum by as much.
LEMMA SumChange ==
    ASSUME NEW D, IsFiniteSet(D), NEW f \in [D -> Nat], NEW h \in [D -> Nat],
           NEW a \in D, \A x \in D \ {a} : h[x] = f[x]
    PROVE  SumFunction(h) = SumFunction(f) - f[a] + h[a]
  <1>1. PICK g : Sums(f, D, g) /\ SumFunctionOnSet(f, D) = g[D]
    BY SumIsOne
  <1>2. PICK k : Sums(h, D, k) /\ SumFunctionOnSet(h, D) = k[D]
    BY SumIsOne
  <1>3. SumFunction(f) = f[a] + g[D \ {a}] /\ g[D \ {a}] \in Nat
    BY <1>1, SumApart
  <1>4. SumFunction(h) = h[a] + k[D \ {a}] /\ k[D \ {a}] \in Nat
    BY <1>2, SumApart
  <1>5. /\ \A x \in D \ {a} : f[x] <= h[x]
        /\ \A x \in D \ {a} : h[x] <= f[x]
    OBVIOUS
  <1>6. D \ {a} \in SUBSET D
    OBVIOUS
  <1>7. g[D \ {a}] <= k[D \ {a}]
    BY <1>1, <1>2, <1>5, <1>6, SumOrdered
  <1>8. k[D \ {a}] <= g[D \ {a}]
    BY <1>1, <1>2, <1>5, <1>6, SumOrdered
  <1>9. f[a] \in Nat /\ h[a] \in Nat
    OBVIOUS
  <1>. QED BY <1>3, <1>4, <1>7, <1>8, <1>9

\* A constant on Q sums to the constant times the members of Q.
LEMMA SumConstant ==
    ASSUME NEW D, IsFiniteSet(D), NEW Q \in SUBSET D, NEW m \in Nat
    PROVE  SumFunction([x \in D |-> IF x \in Q THEN m ELSE 0]) = m * Cardinality(Q)
  <1>. DEFINE f == [x \in D |-> IF x \in Q THEN m ELSE 0]
  <1>1. f \in [D -> Nat] /\ \A x \in D : f[x] = IF x \in Q THEN m ELSE 0
    OBVIOUS
  <1>. HIDE DEF f
  <1>2. PICK g : Sums(f, D, g) /\ SumFunctionOnSet(f, D) = g[D]
    BY SumIsOne
  <1>. DEFINE Good(t) == g[t] = m * Cardinality(t \cap Q)
              Bad == {t \in SUBSET D : ~Good(t)}
  <1>3. ASSUME NEW t \in SUBSET D, \A u \in Bad : ~(u \subseteq t /\ u # t)
        PROVE  Good(t)
    <2>1. CASE t = {}
      <3>1. g[t] = 0
        BY <1>2, <2>1 DEF Sums, SumStep
      <3>2. Cardinality(t \cap Q) = 0
        BY <2>1, FS_EmptySet
      <3>3. g[t] = m * 0
        BY <3>1
      <3>4. m * Cardinality(t \cap Q) = m * 0
        BY <3>2
      <3>. QED BY <3>3, <3>4
    <2>2. CASE t # {}
      <3>1. PICK x : x \in t
        BY <2>2
      <3>2. g[t] = f[x] + g[t \ {x}] /\ g[t \ {x}] \in Nat
        BY <1>1, <1>2, <3>1, SumOrder
      <3>3. t \ {x} \notin Bad
        BY <1>3, <3>1
      <3>4. g[t \ {x}] = m * Cardinality((t \ {x}) \cap Q)
        BY <3>3
      <3>5. IsFiniteSet(t \cap Q) /\ Cardinality(t \cap Q) \in Nat
        BY FS_Subset, FS_CardinalityType
      <3>6. CASE x \in Q
        <4>1. (t \ {x}) \cap Q = (t \cap Q) \ {x} /\ x \in t \cap Q
          BY <3>1, <3>6
        <4>2. Cardinality((t \cap Q) \ {x}) = Cardinality(t \cap Q) - 1
          BY <3>5, <4>1, FS_RemoveElement
        <4>3. ASSUME NEW n \in Nat PROVE m + m * (n - 1) = m * n
          OBVIOUS
        <4>. QED BY <1>1, <3>1, <3>2, <3>4, <3>5, <3>6, <4>1, <4>2, <4>3
      <3>7. CASE x \notin Q
        <4>1. (t \ {x}) \cap Q = t \cap Q
          BY <3>7
        <4>2. f[x] = 0
          BY <1>1, <3>1, <3>7
        <4>3. g[t] = g[t \ {x}]
          BY <3>2, <4>2
        <4>. QED BY <3>4, <4>1, <4>3
      <3>. QED BY <3>6, <3>7
    <2>. QED BY <2>1, <2>2
  <1>. HIDE DEF Good
  <1>4. Bad = {}
    <2>. SUFFICES ASSUME Bad # {} PROVE FALSE
      OBVIOUS
    <2>1. Bad \in SUBSET SUBSET D
      OBVIOUS
    <2>2. PICK t \in Bad : \A u \in Bad : ~(u \subseteq t /\ u # t)
      <3>. HIDE DEF Bad
      <3>. QED BY <2>1, SmallestSet
    <2>. QED BY <1>3, <2>2
  <1>5. Good(D)
    BY <1>4
  <1>6. D \cap Q = Q /\ DOMAIN f = D
    BY <1>1
  <1>. QED BY <1>2, <1>5, <1>6 DEF Good, SumFunction, f

-----------------------------------------------------------------------------
\* Room in the pool

\* The accounts a request can be given, and how many there are.
LEMMA OfferedFinite ==
    ASSUME LedgerTypeOK
    PROVE  Offered \in SUBSET Accounts /\ IsFiniteSet(Offered) /\ Cardinality(Offered) \in Nat
  <1>1. listed \in Seq(Accounts)
    BY DEF LedgerTypeOK
  <1>2. stored \in SUBSET Accounts
    BY <1>1, StoredFinite DEF stored
  <1>3. Offered \in SUBSET Accounts
    BY <1>2 DEF Offered
  <1>. QED BY <1>3, FS_Subset, FS_CardinalityType, AccountsAssumption

\* How many slots the pool can give, and each account's share of them.
Slots == [a \in Accounts |-> IF a \in Offered THEN maxInflightPerAccount ELSE 0]

LEMMA SlotsOffered ==
    ASSUME LedgerTypeOK
    PROVE  /\ Slots \in [Accounts -> Nat]
           /\ SumFunction(Slots) = maxInflightPerAccount * Cardinality(Offered)
           /\ maxInflightPerAccount * Cardinality(Offered) \in Nat
  <1>1. /\ maxInflightPerAccount \in Nat /\ Offered \in SUBSET Accounts
        /\ IsFiniteSet(Accounts) /\ Cardinality(Offered) \in Nat
    BY AccountsAssumption, OfferedFinite DEF LedgerTypeOK
  <1>2. Slots \in [Accounts -> Nat]
    BY <1>1 DEF Slots
  <1>3. SumFunction(Slots) = maxInflightPerAccount * Cardinality(Offered)
    BY <1>1, SumConstant DEF Slots
  <1>4. ASSUME NEW m \in Nat, NEW n \in Nat PROVE m * n \in Nat
    OBVIOUS
  <1>. QED BY <1>1, <1>2, <1>3, <1>4

\* When the scan of the rotation finds nothing for a request that takes any
\* account, every slot or every unit of the global limit is taken.
LEMMA NoCandidateIsFull ==
    ASSUME LedgerTypeOK, Candidates(NoAccount, {}) = {}
    PROVE  \/ globalMaxInflight > 0 /\ currentInUse >= globalMaxInflight
           \/ currentInUse >= maxInflightPerAccount * Cardinality(Offered)
  <1>. SUFFICES ASSUME ~(globalMaxInflight > 0 /\ currentInUse >= globalMaxInflight)
                PROVE  currentInUse >= maxInflightPerAccount * Cardinality(Offered)
    OBVIOUS
  <1>1. /\ inUse \in [Accounts -> Nat] /\ maxInflightPerAccount \in Nat
        /\ globalMaxInflight \in Nat /\ queue \in Seq(Accounts)
        /\ IsFiniteSet(Accounts) /\ Offered \in SUBSET Accounts
    BY AccountsAssumption, OfferedFinite DEF LedgerTypeOK
  <1>2. currentInUse \in Nat
    BY <1>1, SumNat DEF currentInUse
  <1>3. ASSUME NEW a \in Offered PROVE inUse[a] >= maxInflightPerAccount
    <2>. SUFFICES ASSUME ~(inUse[a] >= maxInflightPerAccount) PROVE FALSE
      OBVIOUS
    <2>. DEFINE T == {i \in DOMAIN queue : Usable(queue[i], {})}
    <2>1. PICK i \in DOMAIN queue : queue[i] = a
      BY DEF Offered, Range
    <2>2. a \in Accounts /\ a \in stored
      BY <1>1 DEF Offered
    <2>3. inUse[a] < maxInflightPerAccount
      BY <1>1, <2>2
    <2>4. globalMaxInflight > 0 => currentInUse < globalMaxInflight
      BY <1>1, <1>2
    <2>5. i \in T
      BY <2>1, <2>2, <2>3, <2>4 DEF Usable, canAcquireID
    <2>6. T \in SUBSET Nat /\ T # {}
      BY <1>1, <2>5
    <2>. HIDE DEF T
    <2>7. PICK k \in T : \A m \in T : ~(m < k)
      BY <2>6, LeastNumber
    <2>8. k \in DOMAIN queue /\ Usable(queue[k], {})
      BY <2>7 DEF T
    <2>9. ASSUME NEW j \in 1..(k - 1) PROVE ~Usable(queue[j], {})
      <3>1. j \in DOMAIN queue /\ j < k
        BY <1>1, <2>8
      <3>. QED BY <2>7, <3>1 DEF T
    <2>10. queue[k] \in Candidates(NoAccount, {})
      BY <2>8, <2>9 DEF Candidates
    <2>. QED BY <2>10
  <1>4. \A a \in Accounts : Slots[a] <= inUse[a]
    BY <1>1, <1>3 DEF Slots
  <1>5. /\ Slots \in [Accounts -> Nat]
        /\ SumFunction(Slots) = maxInflightPerAccount * Cardinality(Offered)
        /\ maxInflightPerAccount * Cardinality(Offered) \in Nat
    BY SlotsOffered
  <1>6. SumFunction(Slots) <= currentInUse
    BY <1>1, <1>4, <1>5, SumMonotone DEF currentInUse
  <1>. QED
    BY <1>2, <1>5, <1>6

\* While such a request could be given an account, some slot and some unit of
\* the global limit are free.
LEMMA CandidateIsRoom ==
    ASSUME LedgerTypeOK, Candidates(NoAccount, {}) # {},
           \A a \in Accounts : inUse[a] <= Slots[a]
    PROVE  /\ globalMaxInflight > 0 => currentInUse < globalMaxInflight
           /\ currentInUse < maxInflightPerAccount * Cardinality(Offered)
  <1>1. inUse \in [Accounts -> Nat] /\ queue \in Seq(Accounts) /\ IsFiniteSet(Accounts)
    BY AccountsAssumption DEF LedgerTypeOK
  <1>2. PICK i \in DOMAIN queue : Usable(queue[i], {})
    BY DEF Candidates
  <1>3. /\ queue[i] \in Accounts
        /\ queue[i] \in Offered
        /\ inUse[queue[i]] < maxInflightPerAccount
        /\ globalMaxInflight > 0 => currentInUse < globalMaxInflight
    BY <1>1, <1>2 DEF Usable, canAcquireID, Offered, Range
  <1>4. inUse[queue[i]] < Slots[queue[i]]
    BY <1>3 DEF Slots
  <1>5. /\ Slots \in [Accounts -> Nat]
        /\ SumFunction(Slots) = maxInflightPerAccount * Cardinality(Offered)
    BY SlotsOffered
  <1>6. SumFunction(inUse) < SumFunction(Slots)
    BY <1>1, <1>3, <1>4, <1>5, SumMonotone
  <1>. QED BY <1>3, <1>5, <1>6 DEF currentInUse

===============================================================================
