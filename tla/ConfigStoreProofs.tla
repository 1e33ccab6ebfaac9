--------------------------- MODULE ConfigStoreProofs ---------------------------
(***************************************************************************)
(* Proofs about ConfigStore, for every set of keys, accounts, proxies and  *)
(* handlers, any contents of the requests, and any number of changes,      *)
(* failed saves and crashes.                                               *)
(***************************************************************************)
EXTENDS ConfigStore, FiniteSetTheorems, FunctionTheorems, TLAPS

-----------------------------------------------------------------------------
\* The elements of a list at the places of a set

\* The number of smaller places: a numbering of the places from 0.
Rank(P, i) == Cardinality({j \in P : j < i})

LEMMA RankGrows ==
    ASSUME NEW m \in Nat, NEW P \in SUBSET (1..m), NEW i \in P
    PROVE  /\ Rank(P, i) \in Nat /\ Rank(P, i) < Cardinality(P)
           /\ \A k \in P : i < k => Rank(P, i) < Rank(P, k)
<1>1. IsFiniteSet(1..m)
  BY FS_Interval
<1>2. IsFiniteSet(P)
  BY <1>1, FS_Subset
<1>3. \A S \in SUBSET P : /\ IsFiniteSet(S) /\ Cardinality(S) \in Nat
                          /\ \A T \in SUBSET S : T # S => Cardinality(T) < Cardinality(S)
  <2> SUFFICES ASSUME NEW S \in SUBSET P
               PROVE  /\ IsFiniteSet(S) /\ Cardinality(S) \in Nat
                      /\ \A T \in SUBSET S : T # S => Cardinality(T) < Cardinality(S)
    OBVIOUS
  <2>1. IsFiniteSet(S) /\ Cardinality(S) \in Nat
    BY <1>2, FS_Subset, FS_CardinalityType
  <2>2. ASSUME NEW T \in SUBSET S, T # S
        PROVE  Cardinality(T) < Cardinality(S)
    <3>1. /\ IsFiniteSet(T) /\ Cardinality(T) <= Cardinality(S)
          /\ Cardinality(S) = Cardinality(T) => S = T
      BY <2>1, FS_Subset
    <3>2. Cardinality(T) \in Nat
      BY <3>1, FS_CardinalityType
    <3> QED
      BY <2>1, <2>2, <3>1, <3>2
  <2> QED
    BY <2>1, <2>2
<1> DEFINE Below(k) == {j \in P : j < k}
<1>4. Below(i) \in SUBSET P /\ Below(i) # P
  OBVIOUS
<1>5. Rank(P, i) \in Nat /\ Rank(P, i) < Cardinality(P)
  BY <1>3, <1>4 DEF Rank
<1>6. ASSUME NEW k \in P, i < k
      PROVE  Rank(P, i) < Rank(P, k)
  <2>1. i \in Below(k) /\ i \notin Below(i)
    BY <1>6
  <2>2. \A j \in P : j < i => j < k
    BY <1>6
  <2> QED
    BY <1>3, <2>1, <2>2 DEF Rank
<1> QED
  BY <1>5, <1>6

\* The ranks of the places are exactly the numbers below their count.
LEMMA PlaceProperties ==
    ASSUME NEW m \in Nat, NEW P \in SUBSET (1..m)
    PROVE  /\ Cardinality(P) \in Nat
           /\ \A n \in 1..Cardinality(P) : Place(P, n) \in P /\ Rank(P, Place(P, n)) = n - 1
           /\ \A i \in P : Rank(P, i) + 1 \in 1..Cardinality(P) /\ Place(P, Rank(P, i) + 1) = i
           /\ \A n, k \in 1..Cardinality(P) : n < k => Place(P, n) < Place(P, k)
<1>0. \A i, k \in P : i < k \/ k < i \/ i = k
  OBVIOUS
<1>1. IsFiniteSet(P) /\ Cardinality(P) \in Nat
  <2>1. IsFiniteSet(1..m)
    BY FS_Interval
  <2> QED
    BY <2>1, FS_Subset, FS_CardinalityType
<1> DEFINE f == [i \in P |-> Rank(P, i) + 1]
           N == 1..Cardinality(P)
<1>2. \A i, k \in P : /\ Rank(P, i) \in Nat /\ Rank(P, i) + 1 \in N
                      /\ (i < k => Rank(P, i) < Rank(P, k))
  <2>1. \A i, k \in P : /\ Rank(P, i) \in Nat /\ Rank(P, i) < Cardinality(P)
                        /\ (i < k => Rank(P, i) < Rank(P, k))
    BY RankGrows
  <2> QED
    BY <1>1, <2>1
<1>3. f \in Injection(P, N)
  <2>1. f \in [P -> N]
    BY <1>2
  <2>2. ASSUME NEW i \in P, NEW k \in P, f[i] = f[k]
        PROVE  i = k
    <3>1. Rank(P, i) = Rank(P, k)
      BY <1>2, <2>2
    <3> QED
      BY <1>0, <1>2, <3>1
  <2> QED
    BY <2>1, <2>2, Fun_IsInj
<1>4. IsFiniteSet(N) /\ Cardinality(N) = Cardinality(P)
  BY <1>1, FS_Interval
<1> HIDE DEF f, N
<1>5. f \in Surjection(P, N)
  BY <1>3, <1>4, FS_Injection
<1>6. \A n \in N : \E i \in P : f[i] = n
  BY <1>5, Fun_SurjectionProperties
<1> USE DEF f, N
<1>7. \A n \in N : \E i \in P : Rank(P, i) = n - 1
  BY <1>1, <1>2, <1>6
<1>8. \A n \in N : Place(P, n) \in P /\ Rank(P, Place(P, n)) = n - 1
  BY <1>7 DEF Place, Rank
<1>9. \A i \in P : Place(P, Rank(P, i) + 1) = i
  <2> SUFFICES ASSUME NEW i \in P PROVE Place(P, Rank(P, i) + 1) = i
    OBVIOUS
  <2> DEFINE k == Place(P, Rank(P, i) + 1)
  <2>1. Rank(P, i) + 1 \in N /\ Rank(P, i) \in Nat
    BY <1>2
  <2>2. k \in P /\ Rank(P, k) = Rank(P, i)
    BY <1>8, <2>1
  <2> HIDE DEF k
  <2>3. k = i
    BY <1>0, <1>2, <2>2
  <2> QED
    BY <2>3 DEF k
<1>10. ASSUME NEW n \in N, NEW k \in N, n < k
       PROVE  Place(P, n) < Place(P, k)
  <2> DEFINE a == Place(P, n)  b == Place(P, k)
  <2>1. a \in P /\ b \in P /\ Rank(P, a) = n - 1 /\ Rank(P, b) = k - 1
    BY <1>8
  <2> HIDE DEF a, b
  <2>2. ~(b < a) /\ a # b
    BY <1>2, <1>10, <2>1
  <2>3. a < b
    BY <1>0, <2>1, <2>2
  <2> QED
    BY <2>3 DEF a, b
<1> QED
  BY <1>1, <1>2, <1>8, <1>9, <1>10

\* A set of places that is not empty has a first one.
LEMMA FirstPlace ==
    ASSUME NEW m \in Nat, NEW P \in SUBSET (1..m), P # {}
    PROVE  \E i \in P : \A j \in P : ~(j < i)
<1>1. PICK k \in P : TRUE
  OBVIOUS
<1>2. /\ Cardinality(P) \in Nat /\ Rank(P, k) + 1 \in 1..Cardinality(P)
      /\ \A n \in 1..Cardinality(P) : Place(P, n) \in P /\ Rank(P, Place(P, n)) = n - 1
  BY PlaceProperties
<1>3. 1 \in 1..Cardinality(P)
  BY <1>2
<1> DEFINE i == Place(P, 1)
<1>4. i \in P /\ Rank(P, i) = 0
  BY <1>2, <1>3
<1> HIDE DEF i
<1>5. IsFiniteSet(1..m)
  BY FS_Interval
<1>6. IsFiniteSet(P)
  BY <1>5, FS_Subset
<1>7. IsFiniteSet({j \in P : j < i})
  BY <1>6, FS_Subset
<1>8. {j \in P : j < i} = {}
  BY <1>4, <1>7, FS_EmptySet DEF Rank
<1> QED
  BY <1>4, <1>8

LEMMA LastPlace ==
    ASSUME NEW m \in Nat, NEW P \in SUBSET (1..m), P # {}
    PROVE  \E i \in P : \A j \in P : ~(i < j)
<1> DEFINE Q == {i \in 1..m : m + 1 - i \in P}
<1>1. Q \in SUBSET (1..m) /\ \A i \in P : m + 1 - i \in Q
  <2>1. \A i \in P : m + 1 - i \in 1..m /\ m + 1 - (m + 1 - i) = i
    OBVIOUS
  <2> QED
    BY <2>1
<1>2. \A i \in Q : m + 1 - i \in P
  OBVIOUS
<1> HIDE DEF Q
<1>3. PICK i \in Q : \A j \in Q : ~(j < i)
  BY <1>1, FirstPlace
<1>4. \A j \in P : ~(m + 1 - i < j)
  <2> SUFFICES ASSUME NEW j \in P, m + 1 - i < j
               PROVE  FALSE
    OBVIOUS
  <2>1. m + 1 - j \in Q /\ ~(m + 1 - j < i)
    BY <1>1, <1>3
  <2>2. i \in 1..m /\ j \in 1..m
    BY <1>1
  <2> QED
    BY <2>1, <2>2
<1> QED
  BY <1>2, <1>4

\* What ElementsAt returns: the elements at the places, each place once, and
\* the whole list for all its places.
LEMMA ElementsAtProperties ==
    ASSUME NEW S, NEW s \in Seq(S), NEW P \in SUBSET (DOMAIN s)
    PROVE  LET e == ElementsAt(s, P)
           IN  /\ e \in Seq(S)
               /\ \A n \in DOMAIN e : \E i \in P : e[n] = s[i]
               /\ \A i \in P : \E n \in DOMAIN e : e[n] = s[i]
               /\ \A n, k \in DOMAIN e : n # k =>
                     \E i, j \in P : i # j /\ e[n] = s[i] /\ e[k] = s[j]
               /\ P = DOMAIN s => e = s
<1> DEFINE m == Len(s)
           N == 1..Cardinality(P)
           e == ElementsAt(s, P)
<1>1. m \in Nat /\ DOMAIN s = 1..m /\ s = [i \in 1..m |-> s[i]]
      /\ \A i \in 1..m : s[i] \in S
  OBVIOUS
<1>2. P \in SUBSET (1..m)
  BY <1>1
<1> HIDE DEF m
<1>3. /\ Cardinality(P) \in Nat
      /\ \A n \in N : Place(P, n) \in P /\ Rank(P, Place(P, n)) = n - 1
      /\ \A i \in P : Rank(P, i) + 1 \in N /\ Place(P, Rank(P, i) + 1) = i
      /\ \A n, k \in N : n < k => Place(P, n) < Place(P, k)
  BY <1>1, <1>2, PlaceProperties
<1>4. e = [n \in N |-> s[Place(P, n)]]
  BY DEF ElementsAt
<1> HIDE DEF e
<1>5. DOMAIN e = N /\ \A n \in N : e[n] = s[Place(P, n)]
  BY <1>4
<1>6. e \in Seq(S)
  <2>1. \A n \in N : s[Place(P, n)] \in S
    BY <1>1, <1>2, <1>3
  <2>2. e \in [1..Cardinality(P) -> S]
    BY <1>4, <2>1
  <2> HIDE DEF N
  <2> QED
    BY <1>3, <2>2
<1>7. \A n \in DOMAIN e : \E i \in P : e[n] = s[i]
  BY <1>3, <1>5
<1>8. \A i \in P : \E n \in DOMAIN e : e[n] = s[i]
  <2> SUFFICES ASSUME NEW i \in P PROVE \E n \in DOMAIN e : e[n] = s[i]
    OBVIOUS
  <2>1. Rank(P, i) + 1 \in N /\ e[Rank(P, i) + 1] = s[i]
    BY <1>3, <1>5
  <2> QED
    BY <1>5, <2>1
<1>9. ASSUME NEW n \in DOMAIN e, NEW k \in DOMAIN e, n # k
      PROVE  \E i, j \in P : i # j /\ e[n] = s[i] /\ e[k] = s[j]
  <2>1. n \in N /\ k \in N /\ (n < k \/ k < n)
    BY <1>3, <1>5, <1>9
  <2>2. Place(P, n) < Place(P, k) \/ Place(P, k) < Place(P, n)
    BY <1>3, <2>1
  <2>3. Place(P, n) \in P /\ Place(P, k) \in P /\ Place(P, n) # Place(P, k)
    BY <1>2, <1>3, <2>1, <2>2
  <2> QED
    BY <1>5, <2>1, <2>3
<1>10. ASSUME P = DOMAIN s PROVE e = s
  <2>1. \A i \in P : Rank(P, i) = i - 1
    <3> SUFFICES ASSUME NEW i \in P PROVE Rank(P, i) = i - 1
      OBVIOUS
    <3>1. i \in 1..m
      BY <1>2
    <3>2. {j \in P : j < i} = 1..(i - 1)
      BY <1>1, <1>10, <3>1
    <3>3. Cardinality(1..(i - 1)) = i - 1
      BY <3>1, FS_Interval
    <3> QED
      BY <3>2, <3>3 DEF Rank
  <2>2. \A n \in N : Place(P, n) = n
    <3> SUFFICES ASSUME NEW n \in N PROVE Place(P, n) = n
      OBVIOUS
    <3>1. Place(P, n) \in P /\ Place(P, n) - 1 = n - 1
      BY <1>3, <2>1
    <3> QED
      BY <1>2, <1>3, <3>1
  <2>3. Cardinality(P) = m
    BY <1>1, <1>10, FS_Interval
  <2> QED
    BY <1>1, <1>4, <2>2, <2>3
<1> QED
  BY <1>6, <1>7, <1>8, <1>9, <1>10 DEF e

\* The places of a list whose name is not an earlier one's.
Firsts(s, name) == {i \in DOMAIN s : \A j \in 1..(i - 1) : name[j] # name[i]}

\* The first element of each name: every name is there once, and nothing
\* changes where no name repeats.
LEMMA FirstsProperties ==
    ASSUME NEW S, NEW s \in Seq(S), NEW name, NEW e, e = ElementsAt(s, Firsts(s, name))
    PROVE  /\ e \in Seq(S)
           /\ \A n \in DOMAIN e : \E i \in DOMAIN s : e[n] = s[i]
           /\ \A n, k \in DOMAIN e : n # k =>
                 \E i, j \in DOMAIN s : name[i] # name[j] /\ e[n] = s[i] /\ e[k] = s[j]
           /\ \A j \in DOMAIN s : \E i \in DOMAIN s :
                 name[i] = name[j] /\ \E n \in DOMAIN e : e[n] = s[i]
           /\ (\A i, j \in DOMAIN s : name[i] = name[j] => i = j) => e = s
<1> DEFINE P == Firsts(s, name)
<1>0. e = ElementsAt(s, P)
  OBVIOUS
<1> USE DEF Firsts
<1>1. Len(s) \in Nat /\ DOMAIN s = 1..Len(s)
  OBVIOUS
<1>2. P \in SUBSET (DOMAIN s)
  OBVIOUS
<1>3. \A i, j \in P : name[i] = name[j] => i = j
  <2> SUFFICES ASSUME NEW i \in P, NEW j \in P, i # j
               PROVE  name[i] # name[j]
    OBVIOUS
  <2>1. i \in 1..Len(s) /\ j \in 1..Len(s)
    BY <1>1
  <2>2. i \in 1..(j - 1) \/ j \in 1..(i - 1)
    BY <2>1
  <2> QED
    BY <2>2
<1>4. \A j \in DOMAIN s : \E i \in P : name[i] = name[j]
  <2> SUFFICES ASSUME NEW j \in DOMAIN s PROVE \E i \in P : name[i] = name[j]
    OBVIOUS
  <2> DEFINE Q == {i \in DOMAIN s : name[i] = name[j]}
  <2>1. Q \in SUBSET (1..Len(s)) /\ j \in Q
    BY <1>1
  <2> HIDE DEF Q
  <2>2. PICK i \in Q : \A k \in Q : ~(k < i)
    BY <1>1, <2>1, FirstPlace
  <2>3. i \in 1..Len(s)
    BY <2>1
  <2>4. \A k \in 1..(i - 1) : k \in DOMAIN s /\ k < i
    BY <1>1, <2>3
  <2>5. i \in P /\ name[i] = name[j]
    BY <1>1, <2>2, <2>3, <2>4 DEF Q
  <2> QED
    BY <2>5
<1>5. ASSUME \A i, j \in DOMAIN s : name[i] = name[j] => i = j
      PROVE  P = DOMAIN s
  <2> SUFFICES ASSUME NEW i \in DOMAIN s, NEW j \in 1..(i - 1)
               PROVE  name[j] # name[i]
    OBVIOUS
  <2>1. j \in DOMAIN s /\ j # i
    BY <1>1
  <2> QED
    BY <1>5, <2>1
<1> HIDE DEF P, Firsts
<1>6. /\ e \in Seq(S)
      /\ \A k \in DOMAIN e : \E i \in P : e[k] = s[i]
      /\ \A i \in P : \E k \in DOMAIN e : e[k] = s[i]
      /\ \A a, b \in DOMAIN e : a # b =>
            \E i, j \in P : i # j /\ e[a] = s[i] /\ e[b] = s[j]
      /\ P = DOMAIN s => e = s
  BY <1>0, <1>2, ElementsAtProperties
<1>7. \A n \in DOMAIN e : \E i \in DOMAIN s : e[n] = s[i]
  BY <1>2, <1>6
<1>8. \A n, k \in DOMAIN e : n # k =>
         \E i, j \in DOMAIN s : name[i] # name[j] /\ e[n] = s[i] /\ e[k] = s[j]
  <2> SUFFICES ASSUME NEW n \in DOMAIN e, NEW k \in DOMAIN e, n # k
               PROVE  \E i, j \in DOMAIN s : name[i] # name[j] /\ e[n] = s[i] /\ e[k] = s[j]
    OBVIOUS
  <2>1. PICK i \in P, j \in P : i # j /\ e[n] = s[i] /\ e[k] = s[j]
    BY <1>6
  <2> QED
    BY <1>2, <1>3, <2>1
<1>9. \A j \in DOMAIN s : \E i \in DOMAIN s :
         name[i] = name[j] /\ \E n \in DOMAIN e : e[n] = s[i]
  <2> SUFFICES ASSUME NEW j \in DOMAIN s
               PROVE  \E i \in DOMAIN s : name[i] = name[j] /\ \E n \in DOMAIN e : e[n] = s[i]
    OBVIOUS
  <2>1. PICK p \in P : name[p] = name[j]
    BY <1>4
  <2> QED
    BY <1>2, <1>6, <2>1
<1> QED
  BY <1>5, <1>6, <1>7, <1>8, <1>9 DEF P

-----------------------------------------------------------------------------
\* Accounts

\* A search and a map find an account that is there.
LEMMA AccountPlaces ==
    ASSUME NEW accounts \in Seq(Accounts), NEW id \in IdsOf(accounts)
    PROVE  /\ FirstOf(accounts, id) \in DOMAIN accounts /\ accounts[FirstOf(accounts, id)].id = id
           /\ LastOf(accounts, id) \in DOMAIN accounts /\ accounts[LastOf(accounts, id)].id = id
<1> DEFINE P == {i \in DOMAIN accounts : accounts[i].id = id}
<1>1. Len(accounts) \in Nat /\ P \in SUBSET (1..Len(accounts)) /\ P # {}
  BY DEF IdsOf
<1>2. \A i \in DOMAIN accounts : i \in P <=> accounts[i].id = id
  OBVIOUS
<1> HIDE DEF P
<1>3. \E i \in DOMAIN accounts : /\ accounts[i].id = id
                                /\ \A j \in DOMAIN accounts : j < i => accounts[j].id # id
  <2>1. PICK i \in P : \A j \in P : ~(j < i)
    BY <1>1, FirstPlace
  <2>2. i \in DOMAIN accounts /\ accounts[i].id = id
    BY <1>1, <1>2, <2>1
  <2>3. \A j \in DOMAIN accounts : j < i => accounts[j].id # id
    BY <1>2, <2>1
  <2> QED
    BY <2>2, <2>3
<1>4. \E i \in DOMAIN accounts : /\ accounts[i].id = id
                                /\ \A j \in DOMAIN accounts : i < j => accounts[j].id # id
  <2>1. PICK i \in P : \A j \in P : ~(i < j)
    BY <1>1, LastPlace
  <2>2. i \in DOMAIN accounts /\ accounts[i].id = id
    BY <1>1, <1>2, <2>1
  <2>3. \A j \in DOMAIN accounts : i < j => accounts[j].id # id
    BY <1>2, <2>1
  <2> QED
    BY <2>2, <2>3
<1>5. FirstOf(accounts, id) \in DOMAIN accounts /\ accounts[FirstOf(accounts, id)].id = id
  BY <1>3 DEF FirstOf
<1>6. LastOf(accounts, id) \in DOMAIN accounts /\ accounts[LastOf(accounts, id)].id = id
  BY <1>4 DEF LastOf
<1> QED
  BY <1>5, <1>6

-----------------------------------------------------------------------------
\* Credentials

\* No key has two records, no key is listed twice.
DistinctKeys(items) == \A i, j \in DOMAIN items : items[i].key = items[j].key => i = j
Distinct(keys) == \A i, j \in DOMAIN keys : keys[i] = keys[j] => i = j

\* Normalised records: the first of each key, and no change without repetition.
LEMMA NormalizedItems ==
    ASSUME NEW items \in Seq(KeyRecords)
    PROVE  LET n == normalizeAPIKeys(items)
           IN  /\ n \in Seq(KeyRecords) /\ DistinctKeys(n)
               /\ \A i \in DOMAIN n : \E j \in DOMAIN items : n[i] = items[j]
               /\ \A j \in DOMAIN items : \E i \in DOMAIN n : n[i].key = items[j].key
               /\ DistinctKeys(items) => n = items
<1>1. PICK name : name = [i \in DOMAIN items |-> items[i].key]
  OBVIOUS
<1> DEFINE n == ElementsAt(items, Firsts(items, name))
<1>2. normalizeAPIKeys(items) = n
  <2>1. \A i \in DOMAIN items : \A j \in 1..(i - 1) : j \in DOMAIN items
    OBVIOUS
  <2>2. Firsts(items, name) =
            {i \in DOMAIN items : \A j \in 1..(i - 1) : items[j].key # items[i].key}
    BY <1>1, <2>1 DEF Firsts
  <2> QED
    BY <2>2 DEF normalizeAPIKeys, FirstOfEach
<1>3. \A i \in DOMAIN items : name[i] = items[i].key
  BY <1>1
<1>4. n = ElementsAt(items, Firsts(items, name))
  OBVIOUS
<1> HIDE DEF n
<1>5. n \in Seq(KeyRecords) /\ \A a \in DOMAIN n : \E i \in DOMAIN items : n[a] = items[i]
  BY <1>4, FirstsProperties
<1>6. \A a, b \in DOMAIN n : a # b =>
         \E i, j \in DOMAIN items : name[i] # name[j] /\ n[a] = items[i] /\ n[b] = items[j]
  BY <1>4, FirstsProperties
<1>7. \A j \in DOMAIN items : \E i \in DOMAIN items :
         name[i] = name[j] /\ \E a \in DOMAIN n : n[a] = items[i]
  BY <1>4, FirstsProperties
<1>8. (\A i, j \in DOMAIN items : name[i] = name[j] => i = j) => n = items
  BY <1>4, FirstsProperties
<1>9. DistinctKeys(n)
  BY <1>3, <1>6 DEF DistinctKeys
<1>10. \A j \in DOMAIN items : \E i \in DOMAIN n : n[i].key = items[j].key
  BY <1>3, <1>7
<1>11. DistinctKeys(items) => n = items
  BY <1>3, <1>8 DEF DistinctKeys
<1> QED
  BY <1>2, <1>5, <1>9, <1>10, <1>11

LEMMA NormalizedKeys ==
    ASSUME NEW keys \in Seq(Keys)
    PROVE  LET n == normalizeKeys(keys)
           IN  /\ n \in Seq(Keys) /\ Distinct(n)
               /\ \A i \in DOMAIN n : \E j \in DOMAIN keys : n[i] = keys[j]
               /\ \A j \in DOMAIN keys : \E i \in DOMAIN n : n[i] = keys[j]
               /\ Distinct(keys) => n = keys
<1> DEFINE n == ElementsAt(keys, Firsts(keys, keys))
<1>1. normalizeKeys(keys) = n
  BY DEF normalizeKeys, FirstOfEach, Firsts
<1>0. n = ElementsAt(keys, Firsts(keys, keys))
  OBVIOUS
<1> HIDE DEF n
<1>2. n \in Seq(Keys) /\ \A a \in DOMAIN n : \E i \in DOMAIN keys : n[a] = keys[i]
  BY <1>0, FirstsProperties
<1>3. \A a, b \in DOMAIN n : a # b =>
         \E i, j \in DOMAIN keys : keys[i] # keys[j] /\ n[a] = keys[i] /\ n[b] = keys[j]
  BY <1>0, FirstsProperties
<1>4. \A j \in DOMAIN keys : \E i \in DOMAIN keys :
         keys[i] = keys[j] /\ \E a \in DOMAIN n : n[a] = keys[i]
  BY <1>0, FirstsProperties
<1>5. (\A i, j \in DOMAIN keys : keys[i] = keys[j] => i = j) => n = keys
  BY <1>0, FirstsProperties
<1>6. Distinct(n)
  BY <1>3 DEF Distinct
<1>7. \A j \in DOMAIN keys : \E i \in DOMAIN n : n[i] = keys[j]
  BY <1>4
<1> QED
  BY <1>1, <1>2, <1>5, <1>6, <1>7 DEF Distinct

LEMMA NormalizedAccounts ==
    ASSUME NEW accounts \in Seq(Accounts)
    PROVE  LET n == normalizeAndDedupeAccounts(accounts)
           IN  /\ n \in Seq(Accounts)
               /\ \A i \in DOMAIN n : \E j \in DOMAIN accounts : n[i] = accounts[j]
<1> DEFINE P == {i \in DOMAIN accounts : \A j \in 1..(i - 1) : accounts[j].id # accounts[i].id}
<1>1. normalizeAndDedupeAccounts(accounts) = ElementsAt(accounts, P)
  BY DEF normalizeAndDedupeAccounts, FirstOfEach
<1>2. P \in SUBSET (DOMAIN accounts)
  OBVIOUS
<1> HIDE DEF P
<1> QED
  BY <1>1, <1>2, ElementsAtProperties

\* Records made of strings.
LEMMA FromStrings ==
    ASSUME NEW keys \in Seq(Keys), NEW meta
    PROVE  LET n == apiKeysFromStrings(keys, meta)
           IN  /\ n \in Seq(KeyRecords) /\ DOMAIN n = DOMAIN keys
               /\ \A i \in DOMAIN n : n[i].key = keys[i]
               /\ \A i \in DOMAIN n, j \in DOMAIN meta :
                     meta[j] = [key |-> keys[i], named |-> TRUE] => n[i].named
               /\ Distinct(keys) => DistinctKeys(n)
<1> DEFINE n == apiKeysFromStrings(keys, meta)
           Known(k) == [key |-> k, named |-> TRUE] \in {meta[j] : j \in DOMAIN meta}
<1>1. Len(keys) \in Nat /\ DOMAIN keys = 1..Len(keys) /\ \A i \in 1..Len(keys) : keys[i] \in Keys
  OBVIOUS
<1>2. n = [i \in 1..Len(keys) |-> [key |-> keys[i], named |-> Known(keys[i])]]
  BY <1>1 DEF apiKeysFromStrings
<1>3. \A k \in Keys : [key |-> k, named |-> Known(k)] \in KeyRecords
  BY DEF KeyRecords
<1>4. n \in [1..Len(keys) -> KeyRecords]
  BY <1>1, <1>2, <1>3
<1>5. n \in Seq(KeyRecords)
  BY <1>1, <1>4
<1>6. DOMAIN n = DOMAIN keys /\ \A i \in DOMAIN n : n[i].key = keys[i] /\ n[i].named = Known(keys[i])
  BY <1>1, <1>2
<1> HIDE DEF n
<1>7. Distinct(keys) => DistinctKeys(n)
  BY <1>6 DEF Distinct, DistinctKeys
<1>8. ASSUME NEW i \in DOMAIN n, NEW j \in DOMAIN meta, meta[j] = [key |-> keys[i], named |-> TRUE]
      PROVE  n[i].named
  BY <1>6, <1>8
<1> QED
  BY <1>5, <1>6, <1>7, <1>8 DEF n

LEMMA ToStrings ==
    ASSUME NEW items \in Seq(KeyRecords)
    PROVE  LET n == apiKeysToStrings(items)
           IN  /\ n \in Seq(Keys) /\ DOMAIN n = DOMAIN items
               /\ \A i \in DOMAIN n : n[i] = items[i].key
               /\ DistinctKeys(items) => Distinct(n)
<1> DEFINE n == apiKeysToStrings(items)
<1>1. Len(items) \in Nat /\ DOMAIN items = 1..Len(items)
      /\ \A i \in 1..Len(items) : items[i] \in KeyRecords
  OBVIOUS
<1>2. n = [i \in 1..Len(items) |-> items[i].key]
  BY <1>1 DEF apiKeysToStrings
<1>3. \A i \in 1..Len(items) : items[i].key \in Keys
  BY <1>1 DEF KeyRecords
<1>4. n \in [1..Len(items) -> Keys]
  BY <1>2, <1>3
<1>5. n \in Seq(Keys)
  BY <1>1, <1>4
<1>6. DOMAIN n = DOMAIN items /\ \A i \in DOMAIN n : n[i] = items[i].key
  BY <1>1, <1>2
<1> HIDE DEF n
<1>7. DistinctKeys(items) => Distinct(n)
  BY <1>6 DEF Distinct, DistinctKeys
<1> QED
  BY <1>5, <1>6, <1>7 DEF n

\* A configuration as the store keeps it: both lists say the same.
Canonical(c) == c.keys = apiKeysToStrings(c.apiKeys) /\ DistinctKeys(c.apiKeys)

\* The two differ in nothing but their keys.
SameButKeys(c, d) ==
    /\ d.accounts = c.accounts /\ d.proxies = c.proxies
    /\ d.perAccount = c.perAccount /\ d.global = c.global /\ d.sync = c.sync

\* Records in place of the two lists of keys.
LEMMA WithItems ==
    ASSUME NEW c \in StoredConfigs, NEW items \in Seq(KeyRecords)
    PROVE  LET n == [c EXCEPT !.apiKeys = items, !.keys = apiKeysToStrings(items)]
           IN  /\ n \in StoredConfigs /\ n.apiKeys = items /\ n.keys = apiKeysToStrings(items)
               /\ SameButKeys(c, n)
               /\ c.apiKeys = items /\ c.keys = apiKeysToStrings(items) => n = c
<1>1. apiKeysToStrings(items) \in Seq(Keys)
  BY ToStrings
<1> QED
  BY <1>1 DEF StoredConfigs, SameButKeys

\* What NormalizeCredentials promises: both lists say the same, and nothing
\* changes where they did.
LEMMA NormalizedCredentials ==
    ASSUME NEW c \in StoredConfigs
    PROVE  LET n == NormalizeCredentials(c)
           IN  /\ n \in StoredConfigs /\ Canonical(n) /\ SameButKeys(c, n)
               /\ Canonical(c) => n = c
               /\ c.keys = apiKeysToStrings(c.apiKeys) => n.apiKeys = normalizeAPIKeys(c.apiKeys)
<1> DEFINE fromKeys == apiKeysFromStrings(normalizeKeys(c.keys), <<>>)
           items == IF c.apiKeys # <<>> THEN normalizeAPIKeys(c.apiKeys) ELSE fromKeys
           n == NormalizeCredentials(c)
<1>1. c.apiKeys \in Seq(KeyRecords) /\ c.keys \in Seq(Keys)
  BY DEF StoredConfigs
<1>2. normalizeKeys(c.keys) \in Seq(Keys) /\ Distinct(normalizeKeys(c.keys))
      /\ (c.keys = <<>> => normalizeKeys(c.keys) = <<>>)
  BY <1>1, NormalizedKeys DEF Distinct
<1>3. /\ fromKeys \in Seq(KeyRecords) /\ DistinctKeys(fromKeys)
      /\ DOMAIN fromKeys = DOMAIN normalizeKeys(c.keys)
  BY <1>2, FromStrings
<1>4. /\ normalizeAPIKeys(c.apiKeys) \in Seq(KeyRecords) /\ DistinctKeys(normalizeAPIKeys(c.apiKeys))
      /\ (DistinctKeys(c.apiKeys) => normalizeAPIKeys(c.apiKeys) = c.apiKeys)
  BY <1>1, NormalizedItems
<1>5. items \in Seq(KeyRecords) /\ DistinctKeys(items)
  BY <1>3, <1>4
<1>6. n = [c EXCEPT !.apiKeys = items, !.keys = apiKeysToStrings(items)]
  BY DEF NormalizeCredentials
<1> HIDE DEF n, items, fromKeys
<1>7. /\ n \in StoredConfigs /\ n.apiKeys = items /\ n.keys = apiKeysToStrings(items)
      /\ SameButKeys(c, n)
      /\ (c.apiKeys = items /\ c.keys = apiKeysToStrings(items) => n = c)
  BY <1>5, <1>6, WithItems
<1>8. ASSUME c.keys = apiKeysToStrings(c.apiKeys)
      PROVE  items = normalizeAPIKeys(c.apiKeys)
  <2>1. CASE c.apiKeys # <<>>
    BY <2>1 DEF items
  <2>2. CASE c.apiKeys = <<>>
    <3>1. c.keys = <<>>
      BY <1>8, <2>2 DEF apiKeysToStrings
    <3>2. fromKeys = <<>>
      BY <1>2, <1>3, <3>1
    <3>3. normalizeAPIKeys(c.apiKeys) = <<>>
      BY <1>4, <2>2 DEF DistinctKeys
    <3> QED
      BY <2>2, <3>2, <3>3 DEF items
  <2> QED
    BY <2>1, <2>2
<1> QED
  BY <1>4, <1>5, <1>7, <1>8 DEF Canonical, n

\* What Store.Update makes of a changed configuration: both lists say the same;
\* records that were changed win, and a changed list of strings finds the names
\* of the keys it keeps.
LEMMA UpdatedCredentials ==
    ASSUME NEW c \in StoredConfigs, NEW base \in StoredConfigs, Canonical(base)
    PROVE  LET n == NormalizeCredentials(ReconcileCredentials(c, base))
           IN  /\ n \in StoredConfigs /\ Canonical(n) /\ SameButKeys(c, n)
               /\ c.keys = base.keys \/ Canonical(c) => n.apiKeys = normalizeAPIKeys(c.apiKeys)
               /\ c.apiKeys = base.apiKeys =>
                     \A k : IsNamed(base, k) /\ k \in KeysOf(n) => IsNamed(n, k)
<1> DEFINE keysChanged == normalizeKeys(c.keys) # normalizeKeys(base.keys)
           apiKeysChanged == normalizeAPIKeys(c.apiKeys) # normalizeAPIKeys(base.apiKeys)
           found == apiKeysFromStrings(normalizeKeys(c.keys), normalizeAPIKeys(base.apiKeys))
           items == IF keysChanged /\ ~apiKeysChanged THEN found ELSE normalizeAPIKeys(c.apiKeys)
           r == ReconcileCredentials(c, base)
           n == NormalizeCredentials(r)
<1>1. c.apiKeys \in Seq(KeyRecords) /\ c.keys \in Seq(Keys)
      /\ base.apiKeys \in Seq(KeyRecords) /\ base.keys \in Seq(Keys)
  BY DEF StoredConfigs
<1>2. /\ normalizeAPIKeys(c.apiKeys) \in Seq(KeyRecords) /\ DistinctKeys(normalizeAPIKeys(c.apiKeys))
      /\ (DistinctKeys(c.apiKeys) => normalizeAPIKeys(c.apiKeys) = c.apiKeys)
  BY <1>1, NormalizedItems
<1>3. normalizeAPIKeys(base.apiKeys) = base.apiKeys
  BY <1>1, NormalizedItems DEF Canonical
<1>4. normalizeKeys(c.keys) \in Seq(Keys) /\ Distinct(normalizeKeys(c.keys))
  BY <1>1, NormalizedKeys
<1>5. /\ found \in Seq(KeyRecords) /\ DOMAIN found = DOMAIN normalizeKeys(c.keys)
      /\ \A i \in DOMAIN found : found[i].key = normalizeKeys(c.keys)[i]
      /\ \A i \in DOMAIN found, j \in DOMAIN base.apiKeys :
            base.apiKeys[j] = [key |-> normalizeKeys(c.keys)[i], named |-> TRUE] => found[i].named
      /\ DistinctKeys(found)
  BY <1>3, <1>4, FromStrings
<1>6. items \in Seq(KeyRecords) /\ DistinctKeys(items)
  BY <1>2, <1>5
<1>7. r = [c EXCEPT !.apiKeys = items, !.keys = apiKeysToStrings(items)]
  BY DEF ReconcileCredentials
<1>8. /\ keysChanged /\ ~apiKeysChanged => items = found
      /\ ~(keysChanged /\ ~apiKeysChanged) => items = normalizeAPIKeys(c.apiKeys)
  OBVIOUS
<1> HIDE DEF r, n, items, found
<1>9. r \in StoredConfigs /\ r.apiKeys = items /\ r.keys = apiKeysToStrings(items) /\ SameButKeys(c, r)
  BY <1>6, <1>7, WithItems
<1>10. n = r /\ Canonical(r)
  <2>1. Canonical(r)
    BY <1>6, <1>9 DEF Canonical
  <2> QED
    BY <1>9, <2>1, NormalizedCredentials DEF n
<1>11. ASSUME c.keys = base.keys \/ Canonical(c)
       PROVE  items = normalizeAPIKeys(c.apiKeys)
  <2>1. ~apiKeysChanged => ~keysChanged
    <3>1. CASE c.keys = base.keys
      BY <3>1
    <3>2. CASE Canonical(c)
      BY <1>2, <1>3, <3>2 DEF Canonical
    <3> QED
      BY <1>11, <3>1, <3>2
  <2> QED
    BY <1>8, <2>1
<1>12. ASSUME c.apiKeys = base.apiKeys, NEW k, IsNamed(base, k), k \in KeysOf(n)
       PROVE  IsNamed(n, k)
  <2>1. n.apiKeys = items /\ n.keys = apiKeysToStrings(items)
    BY <1>9, <1>10
  <2>2. CASE items = normalizeAPIKeys(c.apiKeys)
    <3>1. items = base.apiKeys
      BY <1>3, <1>12, <2>2
    <3> QED
      BY <1>12, <2>1, <3>1 DEF IsNamed
  <2>3. CASE items = found
    <3>1. PICK j \in DOMAIN base.apiKeys : base.apiKeys[j] = [key |-> k, named |-> TRUE]
      BY <1>12 DEF IsNamed
    <3>2. PICK i \in DOMAIN items : items[i].key = k
      <4>1. PICK i \in DOMAIN n.keys : n.keys[i] = k
        BY <1>12 DEF KeysOf
      <4>2. DOMAIN n.keys = DOMAIN items /\ n.keys[i] = items[i].key
        BY <1>6, <2>1, <4>1, ToStrings
      <4> QED
        BY <4>1, <4>2
    <3>3. items[i].named
      BY <1>5, <2>3, <3>1, <3>2
    <3>4. items[i] \in KeyRecords
      BY <1>6
    <3>5. items[i] = [key |-> k, named |-> TRUE]
      BY <3>2, <3>3, <3>4 DEF KeyRecords
    <3> QED
      BY <2>1, <3>2, <3>5 DEF IsNamed
  <2> QED
    BY <1>8, <2>2, <2>3
<1> QED
  BY <1>9, <1>10, <1>11, <1>12, <1>1 DEF n, r, SameButKeys

-----------------------------------------------------------------------------
\* The inductive invariant

\* The indexes, whether the server is up or not.
Indexed ==
    /\ index = [keys |-> KeysOf(cfg), accounts |-> index.accounts]
    /\ \A id \in DOMAIN index.accounts :
          index.accounts[id] \in DOMAIN cfg.accounts /\ cfg.accounts[index.accounts[id]].id = id

\* The file holds what a start may load; only a server that writes files has
\* one.
Backed ==
    /\ file \in StoredConfigs => OwnTokens(file.accounts)
    /\ backing.mode = "memory" => file = Absent

\* What was acknowledged is in the file, in the form a load leaves alone, and
\* in use when the server is up.
Acknowledged ==
    note.acked # NoValue =>
        /\ backing.mode # "memory"
        /\ file = note.acked /\ Canonical(file) /\ ClearAccountTokens(file) = file
        /\ Up => ClearAccountTokens(cfg) = file

Upserted(adm) == job[adm].at = "upserted"

\* A deployment whose hash is to be stored is the last one; between deployments
\* the hashes in memory and in the file are that of the last one, or none.
Deploying ==
    ~note.muddled =>
        /\ \A adm \in Admins : Upserted(adm) => deployed = job[adm].config
        /\ \A adm, other \in Admins : Upserted(adm) /\ Upserted(other) => adm = other
        /\ (\A adm \in Admins : ~Upserted(adm)) =>
              /\ cfg.sync \in {NoValue, deployed}
              /\ file \in StoredConfigs => file.sync \in {NoValue, deployed}

ConfigInv ==
    /\ ConfigTypeOK /\ Canonical(cfg) /\ OwnTokens(cfg.accounts)
    /\ Indexed /\ Backed /\ Acknowledged /\ StartsAgain /\ Deploying

-----------------------------------------------------------------------------
\* Accounts

\* The accounts without their tokens: nothing else changes, and doing it twice
\* is doing it once.
LEMMA ClearedTokens ==
    ASSUME NEW c \in StoredConfigs
    PROVE  LET n == ClearAccountTokens(c)
           IN  /\ n \in StoredConfigs /\ OwnTokens(n.accounts) /\ ClearAccountTokens(n) = n
               /\ n.keys = c.keys /\ n.apiKeys = c.apiKeys /\ n.proxies = c.proxies
               /\ n.perAccount = c.perAccount /\ n.global = c.global /\ n.sync = c.sync
               /\ DOMAIN n.accounts = DOMAIN c.accounts
               /\ \A i \in DOMAIN c.accounts : n.accounts[i].id = c.accounts[i].id
                                             /\ n.accounts[i].proxy = c.accounts[i].proxy
               /\ Canonical(c) => Canonical(n)
<1> DEFINE cleared(s) == [i \in DOMAIN s |-> [s[i] EXCEPT !.token = NoValue]]
           n == ClearAccountTokens(c)
<1>1. \A acc \in Accounts : LET cl == [acc EXCEPT !.token = NoValue]
                            IN  /\ cl \in Accounts /\ [cl EXCEPT !.token = NoValue] = cl
                                /\ cl.id = acc.id /\ cl.proxy = acc.proxy /\ cl.token = NoValue
  BY DEF Accounts
<1>2. \A s \in Seq(Accounts) :
         /\ cleared(s) \in Seq(Accounts) /\ cleared(cleared(s)) = cleared(s)
         /\ DOMAIN cleared(s) = DOMAIN s
         /\ \A i \in DOMAIN s : /\ cleared(s)[i].id = s[i].id /\ cleared(s)[i].proxy = s[i].proxy
                               /\ cleared(s)[i].token = NoValue
  <2> SUFFICES ASSUME NEW s \in Seq(Accounts)
               PROVE  /\ cleared(s) \in Seq(Accounts) /\ cleared(cleared(s)) = cleared(s)
                      /\ DOMAIN cleared(s) = DOMAIN s
                      /\ \A i \in DOMAIN s :
                            /\ cleared(s)[i].id = s[i].id /\ cleared(s)[i].proxy = s[i].proxy
                            /\ cleared(s)[i].token = NoValue
    OBVIOUS
  <2>1. Len(s) \in Nat /\ DOMAIN s = 1..Len(s) /\ \A i \in 1..Len(s) : s[i] \in Accounts
    OBVIOUS
  <2>2. cleared(s) \in [1..Len(s) -> Accounts]
    BY <1>1, <2>1
  <2>3. cleared(s) \in Seq(Accounts)
    BY <2>1, <2>2
  <2>4. cleared(cleared(s)) = cleared(s)
    BY <1>1, <2>1
  <2>5. \A i \in DOMAIN s : /\ cleared(s)[i].id = s[i].id /\ cleared(s)[i].proxy = s[i].proxy
                           /\ cleared(s)[i].token = NoValue
    BY <1>1, <2>1
  <2> QED
    BY <2>3, <2>4, <2>5
<1> HIDE DEF cleared
<1>3. ClearAccountTokens(c) = [c EXCEPT !.accounts = cleared(c.accounts)]
  BY DEF ClearAccountTokens, cleared
<1>4. c.accounts \in Seq(Accounts) /\ cleared(c.accounts) \in Seq(Accounts)
  BY <1>2 DEF StoredConfigs
<1>5. /\ n \in StoredConfigs /\ n.accounts = cleared(c.accounts)
      /\ n.keys = c.keys /\ n.apiKeys = c.apiKeys /\ n.proxies = c.proxies
      /\ n.perAccount = c.perAccount /\ n.global = c.global /\ n.sync = c.sync
  BY <1>3, <1>4 DEF StoredConfigs
<1>6. ClearAccountTokens(n) = [n EXCEPT !.accounts = cleared(n.accounts)]
  BY DEF ClearAccountTokens, cleared
<1> HIDE DEF n
<1>7. ClearAccountTokens(n) = n
  BY <1>2, <1>4, <1>5, <1>6 DEF StoredConfigs
<1>8. OwnTokens(n.accounts)
  BY <1>2, <1>4, <1>5 DEF OwnTokens
<1> QED
  BY <1>2, <1>4, <1>5, <1>7, <1>8 DEF Canonical, n

\* What is deployed, and hashed.
LEMMA Hashed ==
    ASSUME NEW c \in StoredConfigs
    PROVE  SyncHash(c) \in Configs
  BY ClearedTokens DEF SyncHash, Body, StoredConfigs, Configs

-----------------------------------------------------------------------------
\* Saving

LEMMA SaveStep ==
    ASSUME ConfigInv, Up, NEW c \in StoredConfigs, Canonical(c), OwnTokens(c.accounts),
           NEW unchecked \in BOOLEAN, NEW muddled \in BOOLEAN,
           cfg' = c, saveLocked(c, unchecked, muddled), UNCHANGED backing
    PROVE  /\ (file \in StoredConfigs \cup {Torn, Absent})'
           /\ note' \in [acked : StoredConfigs \cup {NoValue}, changes : 0..MaxChanges,
                         faults : 0..MaxFaults, unchecked : BOOLEAN, muddled : BOOLEAN]
           /\ Backed' /\ Acknowledged'
           /\ note'.unchecked = (note.unchecked \/ unchecked)
           /\ note'.muddled = note.muddled \/ note'.muddled = (note.muddled \/ muddled)
           /\ ~note'.muddled => ~note.muddled
           /\ ~note'.muddled /\ muddled /\ file' \in StoredConfigs => file'.sync = c.sync
           /\ file' \in StoredConfigs => file' = file \/ file'.sync = c.sync
<1> DEFINE saved == ClearAccountTokens(c)
<1>1. /\ saved \in StoredConfigs /\ OwnTokens(saved.accounts) /\ ClearAccountTokens(saved) = saved
      /\ Canonical(saved) /\ saved.sync = c.sync
  BY ClearedTokens
<1>2. /\ note \in [acked : StoredConfigs \cup {NoValue}, changes : 0..MaxChanges,
                   faults : 0..MaxFaults, unchecked : BOOLEAN, muddled : BOOLEAN]
      /\ file \in StoredConfigs \cup {Torn, Absent} /\ Backed /\ Acknowledged
  BY DEF ConfigInv, ConfigTypeOK
<1>3. Torn \notin StoredConfigs /\ Absent \notin StoredConfigs /\ MaxChanges \in Nat /\ MaxFaults \in Nat
  BY FileMarksAssumption, ConfigBoundsAssumption
<1>4. note.changes < MaxChanges
  BY DEF saveLocked
<1>5. CASE backing.mode = "memory" /\ UNCHANGED file /\ Noted(note.acked, FALSE, unchecked, FALSE)
  <2>1. note.acked = NoValue
    BY <1>2, <1>5 DEF Acknowledged
  <2>2. note'.acked = NoValue /\ Acknowledged'
    BY <1>5, <2>1 DEF Noted, Acknowledged
  <2>3. Backed'
    BY <1>2, <1>5 DEF Backed
  <2> QED
    BY <1>2, <1>3, <1>4, <1>5, <2>1, <2>2, <2>3 DEF Noted, Backed
<1>6. CASE backing.mode # "memory" /\ file' = saved /\ Noted(saved, FALSE, unchecked, FALSE)
  <2>1. note'.acked = saved
    BY <1>6 DEF Noted
  <2>2. Acknowledged'
    BY <1>1, <1>6, <2>1 DEF Acknowledged
  <2>3. Backed'
    BY <1>1, <1>2, <1>6 DEF Backed
  <2> QED
    BY <1>1, <1>2, <1>3, <1>4, <1>6, <2>2, <2>3 DEF Noted
<1>7. CASE /\ backing.mode # "memory" /\ note.faults < MaxFaults
           /\ file' \in {file, Torn} /\ Noted(NoValue, TRUE, unchecked, muddled)
  <2>1. note'.acked = NoValue
    BY <1>7 DEF Noted
  <2>2. Acknowledged'
    BY <2>1 DEF Acknowledged
  <2>3. Backed'
    BY <1>2, <1>3, <1>7 DEF Backed
  <2> QED
    BY <1>2, <1>3, <1>4, <1>7, <2>2, <2>3 DEF Noted
<1> QED
  BY <1>5, <1>6, <1>7 DEF saveLocked

\* The indexes of a configuration are right.
LEMMA IndexesStep ==
    ASSUME NEW c \in StoredConfigs, cfg' = c, index' = IndexesOf(c)
    PROVE  Indexed' /\ index'.keys \subseteq Keys /\ DOMAIN index'.accounts \subseteq AccountIds
<1>1. c.accounts \in Seq(Accounts) /\ c.keys \in Seq(Keys)
  BY DEF StoredConfigs
<1>2. index'.keys = KeysOf(c)
      /\ index'.accounts = [id \in IdsOf(c.accounts) |-> LastOf(c.accounts, id)]
      /\ index' = [keys |-> KeysOf(c), accounts |-> index'.accounts]
  BY DEF IndexesOf
<1>3. KeysOf(c) \subseteq Keys
  BY <1>1 DEF KeysOf
<1>4. \A i \in DOMAIN c.accounts : c.accounts[i].id \in AccountIds
  <2>1. \A i \in DOMAIN c.accounts : c.accounts[i] \in Accounts
    BY <1>1
  <2> QED
    BY <2>1 DEF Accounts
<1>5. IdsOf(c.accounts) \subseteq AccountIds
  BY <1>4 DEF IdsOf
<1>6. ASSUME NEW id \in IdsOf(c.accounts)
      PROVE  index'.accounts[id] \in DOMAIN c.accounts /\ c.accounts[index'.accounts[id]].id = id
  BY <1>1, <1>2, AccountPlaces
<1>7. DOMAIN index'.accounts = IdsOf(c.accounts)
  BY <1>2
<1> QED
  BY <1>2, <1>3, <1>5, <1>6, <1>7 DEF Indexed

\* What the invariant says of all but the handlers under way.
StoreInv ==
    /\ cfg \in StoredConfigs /\ Canonical(cfg) /\ OwnTokens(cfg.accounts)
    /\ index.keys \subseteq Keys /\ DOMAIN index.accounts \subseteq AccountIds
    /\ file \in StoredConfigs \cup {Torn, Absent}
    /\ backing \in [mode : Modes, source : SourceConfigs, state : {"up", "down", "refused"}]
    /\ note \in [acked : StoredConfigs \cup {NoValue}, changes : 0..MaxChanges,
                 faults : 0..MaxFaults, unchecked : BOOLEAN, muddled : BOOLEAN]
    /\ Indexed /\ Backed /\ Acknowledged /\ StartsAgain

\* The hash in memory is the one the step is about, and the file keeps its own or
\* takes it too.
HashStep(hash) ==
    /\ cfg'.sync = hash
    /\ ~note'.muddled => ~note.muddled
    /\ file' \in StoredConfigs => file' = file \/ file'.sync = hash

LEMMA UpdateStep ==
    ASSUME ConfigInv, NEW c \in StoredConfigs, OwnTokens(c.accounts),
           NEW unchecked \in BOOLEAN, NEW muddled \in BOOLEAN,
           UpdateNoting(c, unchecked, muddled),
           ~note.unchecked /\ ~unchecked => ValidateConfig(c)
    PROVE  /\ StoreInv' /\ HashStep(c.sync)
           /\ ~note'.muddled /\ muddled /\ file' \in StoredConfigs => file'.sync = c.sync
<1> DEFINE next == NormalizeCredentials(ReconcileCredentials(c, cfg))
<1>1. /\ cfg \in StoredConfigs /\ Canonical(cfg)
      /\ backing \in [mode : Modes, source : SourceConfigs, state : {"up", "down", "refused"}]
  BY DEF ConfigInv, ConfigTypeOK
<1>2. next \in StoredConfigs /\ Canonical(next) /\ SameButKeys(c, next)
  BY <1>1, UpdatedCredentials
<1>3. Up /\ cfg' = next /\ index' = IndexesOf(next) /\ saveLocked(next, unchecked, muddled)
      /\ UNCHANGED backing
  BY DEF UpdateNoting, rebuildIndexes
<1> HIDE DEF next
<1>4. OwnTokens(next.accounts) /\ next.sync = c.sync
  BY <1>2 DEF SameButKeys
<1>5. /\ (file \in StoredConfigs \cup {Torn, Absent})'
      /\ note' \in [acked : StoredConfigs \cup {NoValue}, changes : 0..MaxChanges,
                    faults : 0..MaxFaults, unchecked : BOOLEAN, muddled : BOOLEAN]
      /\ Backed' /\ Acknowledged'
      /\ note'.unchecked = (note.unchecked \/ unchecked)
      /\ (~note'.muddled => ~note.muddled)
      /\ (~note'.muddled /\ muddled /\ file' \in StoredConfigs => file'.sync = next.sync)
      /\ (file' \in StoredConfigs => file' = file \/ file'.sync = next.sync)
  BY <1>2, <1>3, <1>4, SaveStep
<1>6. Indexed' /\ index'.keys \subseteq Keys /\ DOMAIN index'.accounts \subseteq AccountIds
  BY <1>2, <1>3, IndexesStep
<1>7. StartsAgain'
  <2>1. ValidateConfig(c) => ValidateConfig(next)
    BY <1>2 DEF ValidateConfig, ValidRuntime, ValidProxyReferences, SameButKeys
  <2>2. ~note'.unchecked => ~note.unchecked /\ ~unchecked
    BY <1>5
  <2> QED
    BY <1>3, <2>1, <2>2 DEF StartsAgain
<1>8. StoreInv'
  BY <1>1, <1>2, <1>3, <1>4, <1>5, <1>6, <1>7 DEF StoreInv
<1> QED
  BY <1>3, <1>4, <1>5, <1>8 DEF HashStep

-----------------------------------------------------------------------------
\* Deployments

\* The step starts and ends no deployment: its jobs were not waiting to store a
\* hash, and are not now.
SameDeployments ==
    /\ deployed' = deployed
    /\ \A adm \in Admins : job'[adm] = job[adm] \/ (~Upserted(adm) /\ ~Upserted(adm)')

LEMMA DeployingKept ==
    ASSUME ConfigInv, SameDeployments, HashStep(cfg.sync)
    PROVE  Deploying'
<1> SUFFICES ASSUME ~note'.muddled
             PROVE  /\ \A adm \in Admins : Upserted(adm)' => deployed' = job'[adm].config
                    /\ \A adm, other \in Admins : Upserted(adm)' /\ Upserted(other)' => adm = other
                    /\ (\A adm \in Admins : ~Upserted(adm)') =>
                          /\ cfg'.sync \in {NoValue, deployed'}
                          /\ file' \in StoredConfigs => file'.sync \in {NoValue, deployed'}
  BY DEF Deploying
<1>1. /\ \A adm \in Admins : Upserted(adm) => deployed = job[adm].config
      /\ \A adm, other \in Admins : Upserted(adm) /\ Upserted(other) => adm = other
      /\ (\A adm \in Admins : ~Upserted(adm)) =>
            /\ cfg.sync \in {NoValue, deployed}
            /\ file \in StoredConfigs => file.sync \in {NoValue, deployed}
  BY DEF ConfigInv, Deploying, HashStep
<1>2. \A adm \in Admins : /\ Upserted(adm)' = Upserted(adm)
                          /\ Upserted(adm) => job'[adm] = job[adm]
  BY DEF SameDeployments, Upserted
<1> QED
  BY <1>1, <1>2 DEF SameDeployments, HashStep

\* The invariant is what it says of the store, of the jobs and of deployments.
LEMMA InvParts ==
    ASSUME StoreInv', job' \in [Admins -> Jobs], deployed' \in Configs \cup {NoValue}, Deploying'
    PROVE  ConfigInv'
  BY DEF ConfigInv, StoreInv, ConfigTypeOK

\* A step that leaves the store alone.
LEMMA StoreKept ==
    ASSUME ConfigInv, UNCHANGED <<cfg, index, file, backing, note>>
    PROVE  StoreInv' /\ HashStep(cfg.sync)
  BY DEF ConfigInv, StoreInv, ConfigTypeOK, HashStep, Indexed, Backed, Acknowledged, StartsAgain, Up

\* Handlers of one Update, none of which changes the hash.
LEMMA ChangeStep ==
    ASSUME ConfigInv, NEW c \in StoredConfigs, OwnTokens(c.accounts), c.sync = cfg.sync,
           NEW unchecked \in BOOLEAN,
           UpdateNoting(c, unchecked, FALSE), UNCHANGED <<job, deployed>>,
           ~note.unchecked /\ ~unchecked => ValidateConfig(c)
    PROVE  ConfigInv'
<1>1. StoreInv' /\ HashStep(cfg.sync)
  BY UpdateStep
<1>2. SameDeployments
  BY DEF SameDeployments
<1>3. Deploying'
  BY <1>1, <1>2, DeployingKept
<1> QED
  BY <1>1, <1>3, InvParts DEF ConfigInv, ConfigTypeOK

-----------------------------------------------------------------------------
\* Tokens

LEMMA TokenStep ==
    ASSUME ConfigInv, NEW id \in AccountIds, NEW token \in {id, NoValue},
           UpdateAccountToken(id, token)
    PROVE  StoreInv' /\ HashStep(cfg.sync)
<1> DEFINE i == findAccountIndexLocked(id)
           s == cfg.accounts
           t == [s EXCEPT ![i].token = token]
           next == [cfg EXCEPT !.accounts = t]
<1>1. /\ cfg \in StoredConfigs /\ Canonical(cfg) /\ OwnTokens(s) /\ s \in Seq(Accounts)
      /\ Indexed /\ StartsAgain
      /\ index.keys \subseteq Keys /\ DOMAIN index.accounts \subseteq AccountIds
      /\ backing \in [mode : Modes, source : SourceConfigs, state : {"up", "down", "refused"}]
      /\ note.unchecked \in BOOLEAN
  BY DEF ConfigInv, ConfigTypeOK, StoredConfigs
<1>2. Up /\ i # 0 /\ cfg' = next /\ index' = [index EXCEPT !.accounts = [x \in {id} \cup DOMAIN @ |-> IF x = id THEN i ELSE @[x]]]
      /\ saveLocked(next, FALSE, FALSE) /\ UNCHANGED backing
  BY DEF UpdateAccountToken
<1>3. i \in DOMAIN s /\ s[i].id = id
  BY <1>1, <1>2, AccountPlaces DEF findAccountIndexLocked, Indexed
<1> HIDE DEF i
<1>4. Len(s) \in Nat /\ DOMAIN s = 1..Len(s) /\ \A k \in 1..Len(s) : s[k] \in Accounts
  BY <1>1
<1>5. LET a == [s[i] EXCEPT !.token = token]
      IN  a \in Accounts /\ a.id = id /\ a.proxy = s[i].proxy /\ a.token = token
  BY <1>3, <1>4 DEF Accounts
<1>6. /\ t \in Seq(Accounts) /\ DOMAIN t = DOMAIN s
      /\ \A k \in DOMAIN s : t[k].id = s[k].id /\ t[k].proxy = s[k].proxy
                          /\ t[k].token \in {t[k].id, NoValue}
  <2>1. t \in [1..Len(s) -> Accounts]
    BY <1>3, <1>4, <1>5
  <2>2. t \in Seq(Accounts)
    BY <1>4, <2>1
  <2>3. \A k \in DOMAIN s : t[k].id = s[k].id /\ t[k].proxy = s[k].proxy
                          /\ t[k].token \in {t[k].id, NoValue}
    BY <1>1, <1>3, <1>4, <1>5 DEF OwnTokens
  <2> QED
    BY <1>4, <2>1, <2>2, <2>3
<1> HIDE DEF t
<1>7. /\ next \in StoredConfigs /\ next.accounts = t /\ next.keys = cfg.keys
      /\ next.apiKeys = cfg.apiKeys /\ next.proxies = cfg.proxies /\ next.perAccount = cfg.perAccount
      /\ next.global = cfg.global /\ next.sync = cfg.sync
  BY <1>1, <1>6 DEF StoredConfigs
<1> HIDE DEF next
<1>8. Canonical(next) /\ OwnTokens(next.accounts)
  BY <1>1, <1>6, <1>7 DEF Canonical, OwnTokens
<1>9. /\ (file \in StoredConfigs \cup {Torn, Absent})'
      /\ note' \in [acked : StoredConfigs \cup {NoValue}, changes : 0..MaxChanges,
                    faults : 0..MaxFaults, unchecked : BOOLEAN, muddled : BOOLEAN]
      /\ Backed' /\ Acknowledged'
      /\ note'.unchecked = (note.unchecked \/ FALSE)
      /\ (~note'.muddled => ~note.muddled)
      /\ (file' \in StoredConfigs => file' = file \/ file'.sync = next.sync)
  BY <1>2, <1>7, <1>8, SaveStep
<1>10. /\ index' = [keys |-> index.keys, accounts |-> index'.accounts]
       /\ index'.keys = index.keys
       /\ DOMAIN index'.accounts = DOMAIN index.accounts \cup {id}
       /\ \A k \in DOMAIN index'.accounts :
             index'.accounts[k] = IF k = id THEN i ELSE index.accounts[k]
  BY <1>1, <1>2 DEF Indexed
<1>11. Indexed' /\ index'.keys \subseteq Keys /\ DOMAIN index'.accounts \subseteq AccountIds
  <2>1. index.keys = KeysOf(cfg) /\ KeysOf(next) = KeysOf(cfg)
    BY <1>1, <1>7 DEF Indexed, KeysOf
  <2>2. index' = [keys |-> KeysOf(next), accounts |-> index'.accounts]
    BY <1>10, <2>1
  <2>3. ASSUME NEW x \in DOMAIN index'.accounts
        PROVE  index'.accounts[x] \in DOMAIN t /\ t[index'.accounts[x]].id = x
    <3>1. CASE x = id
      BY <1>3, <1>6, <1>10, <3>1
    <3>2. CASE x # id
      <4>1. x \in DOMAIN index.accounts /\ index'.accounts[x] = index.accounts[x]
        BY <1>10, <3>2
      <4>2. index.accounts[x] \in DOMAIN s /\ s[index.accounts[x]].id = x
        BY <1>1, <4>1 DEF Indexed
      <4> QED
        BY <1>6, <4>1, <4>2
    <3> QED
      BY <3>1, <3>2
  <2>4. Indexed'
    BY <1>2, <1>7, <2>2, <2>3 DEF Indexed
  <2> QED
    BY <1>1, <1>10, <2>4
<1>12. StartsAgain'
  BY <1>1, <1>2, <1>6, <1>7, <1>9
     DEF StartsAgain, ValidateConfig, ValidRuntime, ValidProxyReferences
<1>13. StoreInv'
  BY <1>1, <1>2, <1>7, <1>8, <1>9, <1>11, <1>12 DEF StoreInv
<1> QED
  BY <1>2, <1>7, <1>9, <1>13 DEF HashStep

-----------------------------------------------------------------------------
\* What the handlers make of the configuration

\* Accounts taken from others keep their tokens and references.
LEMMA SomeAccounts ==
    ASSUME NEW s \in Seq(Accounts), NEW P \in SUBSET (DOMAIN s)
    PROVE  /\ ElementsAt(s, P) \in Seq(Accounts)
           /\ OwnTokens(s) => OwnTokens(ElementsAt(s, P))
           /\ \A i \in DOMAIN ElementsAt(s, P) : \E j \in P : ElementsAt(s, P)[i] = s[j]
<1> DEFINE e == ElementsAt(s, P)
<1>1. e \in Seq(Accounts) /\ \A i \in DOMAIN e : \E j \in P : e[i] = s[j]
  BY ElementsAtProperties
<1> HIDE DEF e
<1>2. OwnTokens(s) => OwnTokens(e)
  BY <1>1 DEF OwnTokens
<1> QED
  BY <1>1, <1>2 DEF e

\* Merged accounts are the old ones and some of the new.
LEMMA MergedAccounts ==
    ASSUME NEW old \in Seq(Accounts), OwnTokens(old),
           NEW new \in Seq(Accounts), OwnTokens(new)
    PROVE  /\ mergeAccounts(old, new) \in Seq(Accounts) /\ OwnTokens(mergeAccounts(old, new))
           /\ new = <<>> => mergeAccounts(old, new) = old
<1> DEFINE n == normalizeAndDedupeAccounts(new)
           P == {i \in DOMAIN n : n[i].id \notin IdsOf(old)}
           e == ElementsAt(n, P)
<1>1. n \in Seq(Accounts) /\ \A i \in DOMAIN n : \E j \in DOMAIN new : n[i] = new[j]
  BY NormalizedAccounts
<1> HIDE DEF n
<1>2. OwnTokens(n) /\ (new = <<>> => n = <<>>)
  BY <1>1 DEF OwnTokens
<1>3. mergeAccounts(old, new) = old \o e
  BY DEF mergeAccounts, n
<1>4. P \in SUBSET (DOMAIN n)
  OBVIOUS
<1> HIDE DEF P
<1>5. e \in Seq(Accounts) /\ OwnTokens(e) /\ \A i \in DOMAIN e : \E j \in P : e[i] = n[j]
  BY <1>1, <1>2, <1>4, SomeAccounts
<1> HIDE DEF e
<1>6. old \o e \in Seq(Accounts) /\ OwnTokens(old \o e)
  BY <1>5 DEF OwnTokens
<1>7. new = <<>> => old \o e = old
  BY <1>2, <1>4, <1>5
<1> QED
  BY <1>3, <1>6, <1>7

\* Merged records: every key once, and a name that was there stays.
LEMMA MergedRecords ==
    ASSUME NEW old \in Seq(KeyRecords), NEW new \in Seq(KeyRecords)
    PROVE  LET m == mergeAPIKeysPreferStructured(old, new)
           IN  /\ m \in Seq(KeyRecords) /\ DistinctKeys(m)
               /\ \A k \in Keys : [key |-> k, named |-> TRUE] \in {old[i] : i \in DOMAIN old} =>
                     [key |-> k, named |-> TRUE] \in {m[i] : i \in DOMAIN m}
<1> DEFINE all == old \o new
           keys == normalizeKeys(apiKeysToStrings(all))
           m == mergeAPIKeysPreferStructured(old, new)
<1>1. all \in Seq(KeyRecords) /\ \A i \in DOMAIN old : i \in DOMAIN all /\ all[i] = old[i]
  OBVIOUS
<1> HIDE DEF all
<1>2. /\ apiKeysToStrings(all) \in Seq(Keys) /\ DOMAIN apiKeysToStrings(all) = DOMAIN all
      /\ \A i \in DOMAIN all : apiKeysToStrings(all)[i] = all[i].key
  BY <1>1, ToStrings
<1>3. keys \in Seq(Keys) /\ Distinct(keys)
      /\ \A j \in DOMAIN apiKeysToStrings(all) : \E i \in DOMAIN keys : keys[i] = apiKeysToStrings(all)[j]
  BY <1>2, NormalizedKeys
<1>4. m = apiKeysFromStrings(keys, all)
  BY DEF mergeAPIKeysPreferStructured, all
<1> HIDE DEF m, keys
<1>5. /\ m \in Seq(KeyRecords) /\ DOMAIN m = DOMAIN keys /\ DistinctKeys(m)
      /\ \A i \in DOMAIN m : m[i].key = keys[i]
      /\ \A i \in DOMAIN m, j \in DOMAIN all :
            all[j] = [key |-> keys[i], named |-> TRUE] => m[i].named
  BY <1>3, <1>4, FromStrings
<1>6. ASSUME NEW k \in Keys, NEW j \in DOMAIN old, old[j] = [key |-> k, named |-> TRUE]
      PROVE  \E i \in DOMAIN m : m[i] = [key |-> k, named |-> TRUE]
  <2>0. j \in DOMAIN all /\ all[j] = [key |-> k, named |-> TRUE]
    BY <1>1, <1>6
  <2>1. all[j].key = k
    BY <2>0
  <2>2. PICK i \in DOMAIN keys : keys[i] = k
    BY <1>2, <1>3, <2>0, <2>1
  <2>3. m[i].named /\ m[i].key = k /\ m[i] \in KeyRecords
    BY <1>5, <2>0, <2>2
  <2>4. m[i] = [key |-> k, named |-> TRUE]
    BY <2>3 DEF KeyRecords
  <2> QED
    BY <1>5, <2>2, <2>4
<1> QED
  BY <1>5, <1>6 DEF m

-----------------------------------------------------------------------------
\* Handlers of one step

\* What every handler finds.
LEMMA Found ==
    ASSUME ConfigInv
    PROVE  /\ cfg \in StoredConfigs /\ cfg.keys \in Seq(Keys) /\ cfg.apiKeys \in Seq(KeyRecords)
           /\ cfg.accounts \in Seq(Accounts) /\ cfg.proxies \subseteq ProxyIds
           /\ Canonical(cfg) /\ OwnTokens(cfg.accounts)
           /\ Up /\ ~note.unchecked => ValidateConfig(cfg)
           /\ note.unchecked \in BOOLEAN
  BY DEF ConfigInv, ConfigTypeOK, StoredConfigs, StartsAgain

\* A key that is named and stays is still named.
NamesKept == \A k \in Keys : IsNamed(cfg, k) /\ k \in KeysOf(cfg') => IsNamed(cfg', k)

\* Store.Update keeps the names when the handler did.
LEMMA UpdateKeepsNames ==
    ASSUME ConfigInv, NEW c \in StoredConfigs, NEW unchecked, NEW muddled,
           UpdateNoting(c, unchecked, muddled),
           \/ c.apiKeys = cfg.apiKeys
           \/ /\ c.keys = cfg.keys /\ DistinctKeys(c.apiKeys)
              /\ \A k \in Keys : IsNamed(cfg, k) /\ (\E i \in DOMAIN c.apiKeys : c.apiKeys[i].key = k)
                                => IsNamed(c, k)
    PROVE  NamesKept
<1> DEFINE n == NormalizeCredentials(ReconcileCredentials(c, cfg))
<1>1. /\ n \in StoredConfigs /\ Canonical(n)
      /\ (c.keys = cfg.keys \/ Canonical(c) => n.apiKeys = normalizeAPIKeys(c.apiKeys))
      /\ (c.apiKeys = cfg.apiKeys => \A k : IsNamed(cfg, k) /\ k \in KeysOf(n) => IsNamed(n, k))
  BY Found, UpdatedCredentials
<1>2. cfg' = n
  BY DEF UpdateNoting
<1> HIDE DEF n
<1>3. CASE c.apiKeys = cfg.apiKeys
  BY <1>1, <1>2, <1>3 DEF NamesKept
<1>4. CASE /\ c.keys = cfg.keys /\ DistinctKeys(c.apiKeys)
           /\ \A k \in Keys : IsNamed(cfg, k) /\ (\E i \in DOMAIN c.apiKeys : c.apiKeys[i].key = k)
                             => IsNamed(c, k)
  <2>1. c.apiKeys \in Seq(KeyRecords)
    BY DEF StoredConfigs
  <2>2. n.apiKeys = c.apiKeys
    BY <1>1, <1>4, <2>1, NormalizedItems
  <2>3. n.keys = apiKeysToStrings(c.apiKeys) /\ DOMAIN n.keys = DOMAIN c.apiKeys
        /\ \A i \in DOMAIN n.keys : n.keys[i] = c.apiKeys[i].key
    BY <1>1, <2>1, <2>2, ToStrings DEF Canonical
  <2>4. ASSUME NEW k \in Keys, IsNamed(cfg, k), k \in KeysOf(n)
        PROVE  IsNamed(n, k)
    <3>1. \E i \in DOMAIN c.apiKeys : c.apiKeys[i].key = k
      BY <2>3, <2>4 DEF KeysOf
    <3>2. IsNamed(c, k)
      BY <1>4, <2>4, <3>1
    <3> QED
      BY <2>2, <3>2 DEF IsNamed
  <2> QED
    BY <1>2, <2>4 DEF NamesKept
<1> QED
  BY <1>3, <1>4

LEMMA ChangeKeepsNames ==
    ASSUME ConfigInv, NEW c \in StoredConfigs, Change(c), c.apiKeys = cfg.apiKeys
    PROVE  NamesKept
  BY UpdateKeepsNames DEF Change, Update

\* Handlers that change nothing but the keys.
LEMMA KeysStep ==
    ASSUME ConfigInv, NEW items \in Seq(KeyRecords), Change([cfg EXCEPT !.apiKeys = items])
    PROVE  ConfigInv'
<1> DEFINE c == [cfg EXCEPT !.apiKeys = items]
<1>1. c \in StoredConfigs /\ SameButKeys(cfg, c)
  BY Found DEF StoredConfigs, SameButKeys
<1>2. UpdateNoting(c, FALSE, FALSE) /\ UNCHANGED <<job, deployed>> /\ Up
  BY DEF Change, Update, UpdateNoting
<1> HIDE DEF c
<1>3. ~note.unchecked => ValidateConfig(c)
  BY <1>1, <1>2, Found DEF ValidateConfig, ValidRuntime, ValidProxyReferences, SameButKeys
<1>4. OwnTokens(c.accounts) /\ c.sync = cfg.sync
  BY <1>1, Found DEF SameButKeys
<1> QED
  BY <1>1, <1>2, <1>3, <1>4, ChangeStep

LEMMA AddKeyStep ==
    ASSUME ConfigInv, NEW k \in Keys, NEW named \in BOOLEAN, addKey(k, named)
    PROVE  ConfigInv'
<1>1. Append(cfg.apiKeys, [key |-> k, named |-> named]) \in Seq(KeyRecords)
  BY Found DEF KeyRecords
<1> QED
  BY <1>1, KeysStep DEF addKey

LEMMA UpdateKeyStep ==
    ASSUME ConfigInv, NEW k \in Keys, NEW named \in BOOLEAN, updateKey(k, named)
    PROVE  ConfigInv'
<1> DEFINE s == cfg.apiKeys
           t == [i \in DOMAIN s |-> IF s[i].key = k THEN [key |-> k, named |-> named] ELSE s[i]]
<1>1. Len(s) \in Nat /\ DOMAIN s = 1..Len(s) /\ \A i \in 1..Len(s) : s[i] \in KeyRecords
  BY Found
<1>2. [key |-> k, named |-> named] \in KeyRecords
  BY DEF KeyRecords
<1>3. t \in [1..Len(s) -> KeyRecords]
  BY <1>1, <1>2
<1>4. t \in Seq(KeyRecords)
  BY <1>1, <1>3
<1> QED
  BY <1>4, KeysStep DEF updateKey

LEMMA DeleteKeyStep ==
    ASSUME ConfigInv, NEW k \in Keys, deleteKey(k)
    PROVE  ConfigInv'
<1> DEFINE P == {i \in DOMAIN cfg.apiKeys : cfg.apiKeys[i].key # k}
<1>1. P \in SUBSET (DOMAIN cfg.apiKeys)
  OBVIOUS
<1>2. Change([cfg EXCEPT !.apiKeys = ElementsAt(cfg.apiKeys, P)])
  BY DEF deleteKey
<1> HIDE DEF P
<1>3. ElementsAt(cfg.apiKeys, P) \in Seq(KeyRecords)
  BY <1>1, Found, ElementsAtProperties
<1> QED
  BY <1>2, <1>3, KeysStep

\* Handlers that change the accounts and the proxies.
LEMMA AccountsStep ==
    ASSUME ConfigInv, NEW accounts \in Seq(Accounts), OwnTokens(accounts),
           NEW proxies \in SUBSET ProxyIds,
           NEW c, c = [cfg EXCEPT !.accounts = accounts, !.proxies = proxies], Change(c),
           ValidProxyReferences(cfg) \/ note.unchecked => ValidProxyReferences(c) \/ note.unchecked
    PROVE  ConfigInv' /\ NamesKept
<1>1. /\ c \in StoredConfigs /\ c.accounts = accounts /\ c.sync = cfg.sync
      /\ c.perAccount = cfg.perAccount /\ c.global = cfg.global /\ c.apiKeys = cfg.apiKeys
  BY Found DEF StoredConfigs
<1>2. UpdateNoting(c, FALSE, FALSE) /\ UNCHANGED <<job, deployed>> /\ Up
  BY DEF Change, Update, UpdateNoting
<1>3. ~note.unchecked => ValidateConfig(c)
  BY <1>1, <1>2, Found DEF ValidateConfig, ValidRuntime
<1>4. ConfigInv'
  BY <1>1, <1>2, <1>3, ChangeStep
<1>5. NamesKept
  BY <1>1, <1>2, UpdateKeepsNames
<1> QED
  BY <1>4, <1>5

LEMMA AddAccountStep ==
    ASSUME ConfigInv, NEW accounts \in AccountLists, accounts # <<>>, addAccount(accounts[1])
    PROVE  ConfigInv' /\ NamesKept
<1> DEFINE acc == accounts[1]
           s == Append(cfg.accounts, acc)
           c == [cfg EXCEPT !.accounts = s]
<1>1. acc \in Accounts /\ acc.token = NoValue
  BY RequestsAssumption
<1> HIDE DEF acc
<1>2. s \in Seq(Accounts) /\ DOMAIN s = DOMAIN cfg.accounts \cup {Len(cfg.accounts) + 1}
      /\ s[Len(cfg.accounts) + 1] = acc
      /\ \A i \in DOMAIN cfg.accounts : s[i] = cfg.accounts[i]
  BY <1>1, Found
<1>3. acc.proxy \in cfg.proxies \cup {NoValue} /\ Change(c)
  BY DEF addAccount, acc
<1> HIDE DEF s
<1>4. OwnTokens(s)
  BY <1>1, <1>2, Found DEF OwnTokens
<1>5. c = [cfg EXCEPT !.accounts = s, !.proxies = cfg.proxies] /\ c.accounts = s /\ c.proxies = cfg.proxies
  BY Found DEF StoredConfigs
<1>6. ValidProxyReferences(cfg) => ValidProxyReferences(c)
  BY <1>2, <1>3, <1>5 DEF ValidProxyReferences
<1> HIDE DEF c
<1> QED
  BY <1>2, <1>3, <1>4, <1>5, <1>6, Found, AccountsStep

LEMMA DeleteAccountStep ==
    ASSUME ConfigInv, NEW id \in AccountIds, deleteAccount(id)
    PROVE  ConfigInv' /\ NamesKept
<1> DEFINE P == DOMAIN cfg.accounts \ {FirstOf(cfg.accounts, id)}
           s == ElementsAt(cfg.accounts, P)
           c == [cfg EXCEPT !.accounts = s]
<1>1. Change(c)
  BY DEF deleteAccount
<1>2. P \in SUBSET (DOMAIN cfg.accounts)
  OBVIOUS
<1> HIDE DEF P
<1>3. s \in Seq(Accounts) /\ OwnTokens(s) /\ \A i \in DOMAIN s : \E j \in P : s[i] = cfg.accounts[j]
  BY <1>2, Found, SomeAccounts
<1> HIDE DEF s
<1>4. c = [cfg EXCEPT !.accounts = s, !.proxies = cfg.proxies] /\ c.accounts = s /\ c.proxies = cfg.proxies
  BY Found DEF StoredConfigs
<1>5. ValidProxyReferences(cfg) => ValidProxyReferences(c)
  BY <1>2, <1>3, <1>4 DEF ValidProxyReferences
<1> HIDE DEF c
<1> QED
  BY <1>1, <1>3, <1>4, <1>5, Found, AccountsStep

LEMMA AddProxyStep ==
    ASSUME ConfigInv, NEW p \in ProxyIds, addProxy(p)
    PROVE  ConfigInv' /\ NamesKept
<1> DEFINE c == [cfg EXCEPT !.proxies = @ \cup {p}]
<1>1. ValidProxyReferences(c) /\ Change(c)
  BY DEF addProxy
<1>2. c = [cfg EXCEPT !.accounts = cfg.accounts, !.proxies = cfg.proxies \cup {p}]
  BY Found DEF StoredConfigs
<1>3. cfg.proxies \cup {p} \in SUBSET ProxyIds
  BY Found
<1> HIDE DEF c
<1> QED
  BY <1>1, <1>2, <1>3, Found, AccountsStep

\* Accounts with another proxy.
LEMMA Rerouted ==
    ASSUME NEW s \in Seq(Accounts), OwnTokens(s), NEW P \in SUBSET (DOMAIN s),
           NEW p \in ProxyIds \cup {NoValue}
    PROVE  LET t == [i \in DOMAIN s |-> IF i \in P THEN [s[i] EXCEPT !.proxy = p] ELSE s[i]]
           IN  t \in Seq(Accounts) /\ OwnTokens(t)
<1> DEFINE t == [i \in DOMAIN s |-> IF i \in P THEN [s[i] EXCEPT !.proxy = p] ELSE s[i]]
<1>1. Len(s) \in Nat /\ DOMAIN s = 1..Len(s) /\ \A i \in 1..Len(s) : s[i] \in Accounts
  OBVIOUS
<1>2. \A a \in Accounts : /\ [a EXCEPT !.proxy = p] \in Accounts
                          /\ [a EXCEPT !.proxy = p].id = a.id /\ [a EXCEPT !.proxy = p].token = a.token
  BY DEF Accounts
<1>3. t \in [1..Len(s) -> Accounts]
  BY <1>1, <1>2
<1>4. t \in Seq(Accounts)
  BY <1>1, <1>3
<1>5. \A i \in DOMAIN t : t[i].id = s[i].id /\ t[i].token = s[i].token
  BY <1>1, <1>2
<1>6. OwnTokens(t)
  BY <1>5 DEF OwnTokens
<1> QED
  BY <1>4, <1>6

LEMMA DeleteProxyStep ==
    ASSUME ConfigInv, NEW p \in ProxyIds, deleteProxy(p)
    PROVE  ConfigInv' /\ NamesKept
<1> DEFINE s == cfg.accounts
           t == [i \in DOMAIN s |-> IF s[i].proxy = p THEN [s[i] EXCEPT !.proxy = NoValue] ELSE s[i]]
           c == [cfg EXCEPT !.proxies = @ \ {p}, !.accounts = t]
           P == {i \in DOMAIN s : s[i].proxy = p}
<1>1. ValidProxyReferences(c) /\ Change(c)
  BY DEF deleteProxy
<1>2. t = [i \in DOMAIN s |-> IF i \in P THEN [s[i] EXCEPT !.proxy = NoValue] ELSE s[i]]
  OBVIOUS
<1>3. P \in SUBSET (DOMAIN s) /\ NoValue \in ProxyIds \cup {NoValue}
  OBVIOUS
<1> HIDE DEF P
<1>4. t \in Seq(Accounts) /\ OwnTokens(t)
  BY <1>2, <1>3, Found, Rerouted
<1> HIDE DEF t
<1>5. c = [cfg EXCEPT !.accounts = t, !.proxies = cfg.proxies \ {p}]
  BY Found DEF StoredConfigs
<1>6. cfg.proxies \ {p} \in SUBSET ProxyIds
  BY Found
<1> HIDE DEF c
<1> QED
  BY <1>1, <1>4, <1>5, <1>6, Found, AccountsStep

LEMMA UpdateAccountProxyStep ==
    ASSUME ConfigInv, NEW id \in AccountIds, NEW p \in ProxyIds \cup {NoValue},
           updateAccountProxy(id, p)
    PROVE  ConfigInv' /\ NamesKept
<1> DEFINE s == cfg.accounts
           t == [s EXCEPT ![FirstOf(s, id)].proxy = p]
           c == [cfg EXCEPT !.accounts = t]
           P == {FirstOf(s, id)}
<1>1. ValidProxyReferences(c) /\ Change(c)
  BY DEF updateAccountProxy
<1>2. t = [i \in DOMAIN s |-> IF i \in P THEN [s[i] EXCEPT !.proxy = p] ELSE s[i]]
  OBVIOUS
<1>3. P \in SUBSET (DOMAIN s)
  BY Found, AccountPlaces DEF updateAccountProxy
<1> HIDE DEF P, t
<1>4. t \in Seq(Accounts) /\ OwnTokens(t)
  BY <1>2, <1>3, Found, Rerouted
<1>5. c = [cfg EXCEPT !.accounts = t, !.proxies = cfg.proxies]
  BY Found DEF StoredConfigs
<1> HIDE DEF c
<1> QED
  BY <1>1, <1>4, <1>5, Found, AccountsStep

LEMMA UpdateAccountStep ==
    ASSUME ConfigInv, updateAccount
    PROVE  ConfigInv' /\ NamesKept
<1>1. Change(cfg) /\ cfg = [cfg EXCEPT !.accounts = cfg.accounts, !.proxies = cfg.proxies]
  BY Found DEF updateAccount, StoredConfigs
<1> QED
  BY <1>1, Found, AccountsStep

LEMMA UpdateProxyStep ==
    ASSUME ConfigInv, updateProxy
    PROVE  ConfigInv' /\ NamesKept
<1>1. Change(cfg) /\ cfg = [cfg EXCEPT !.accounts = cfg.accounts, !.proxies = cfg.proxies]
  BY Found DEF updateProxy, StoredConfigs
<1> QED
  BY <1>1, Found, AccountsStep

LEMMA BatchImportStep ==
    ASSUME ConfigInv, NEW items \in RecordLists, NEW accounts \in AccountLists,
           batchImport(items, accounts)
    PROVE  ConfigInv'
<1> DEFINE keys == mergeAPIKeysPreferStructured(cfg.apiKeys, items)
           accs == mergeAccounts(cfg.accounts, accounts)
           c == [cfg EXCEPT !.apiKeys = keys, !.accounts = accs]
<1>1. items \in Seq(KeyRecords) /\ accounts \in Seq(Accounts) /\ OwnTokens(accounts)
  BY RequestsAssumption DEF OwnTokens
<1>2. keys \in Seq(KeyRecords)
  BY <1>1, Found, MergedRecords
<1>3. accs \in Seq(Accounts) /\ OwnTokens(accs)
  BY <1>1, Found, MergedAccounts
<1>4. UpdateNoting(c, ~ValidateConfig(c), FALSE) /\ UNCHANGED <<job, deployed>>
  BY DEF batchImport
<1> HIDE DEF keys, accs
<1>5. c \in StoredConfigs /\ c.accounts = accs /\ c.sync = cfg.sync
  BY <1>2, <1>3, Found DEF StoredConfigs
<1> HIDE DEF c
<1>6. ValidateConfig(c) \in BOOLEAN
  BY DEF ValidateConfig, ValidRuntime, ValidProxyReferences
<1> QED
  BY <1>3, <1>4, <1>5, <1>6, ChangeStep

\* What an import or a request for settings leaves.
LEMMA MergedConfigs ==
    ASSUME ConfigInv, NEW incoming \in StoredConfigs, OwnTokens(incoming.accounts)
    PROVE  LET c == MergedConfig(cfg, incoming)
           IN  /\ c \in StoredConfigs /\ OwnTokens(c.accounts) /\ c.sync = cfg.sync
               /\ c.proxies = cfg.proxies
               /\ incoming.accounts = <<>> => c.accounts = cfg.accounts
               /\ c.keys = cfg.keys
               /\ c.apiKeys = mergeAPIKeysPreferStructured(cfg.apiKeys, incoming.apiKeys)
<1> DEFINE keys == mergeAPIKeysPreferStructured(cfg.apiKeys, incoming.apiKeys)
           accs == mergeAccounts(cfg.accounts, incoming.accounts)
           pa == IF incoming.perAccount > 0 THEN incoming.perAccount ELSE cfg.perAccount
           gl == IF incoming.global > 0 THEN incoming.global ELSE cfg.global
           c == MergedConfig(cfg, incoming)
<1>1. incoming.apiKeys \in Seq(KeyRecords) /\ incoming.accounts \in Seq(Accounts)
  BY DEF StoredConfigs
<1>2. keys \in Seq(KeyRecords)
  BY <1>1, Found, MergedRecords
<1>3. accs \in Seq(Accounts) /\ OwnTokens(accs) /\ (incoming.accounts = <<>> => accs = cfg.accounts)
  BY <1>1, Found, MergedAccounts
<1>4. pa \in Limits /\ gl \in Limits
  BY Found DEF StoredConfigs
<1>5. c = [cfg EXCEPT !.apiKeys = keys, !.accounts = accs, !.perAccount = pa, !.global = gl]
  BY DEF MergedConfig
<1> HIDE DEF keys, accs, pa, gl, c
<1>6. /\ c \in StoredConfigs /\ c.accounts = accs /\ c.sync = cfg.sync /\ c.proxies = cfg.proxies
      /\ c.keys = cfg.keys /\ c.apiKeys = keys
  BY <1>2, <1>3, <1>4, <1>5, Found DEF StoredConfigs
<1> QED
  BY <1>3, <1>6 DEF keys, c

LEMMA ReplacedConfigs ==
    ASSUME ConfigInv, NEW incoming \in StoredConfigs, OwnTokens(incoming.accounts), Canonical(incoming)
    PROVE  LET c == ReplacedConfig(cfg, incoming)
           IN  /\ c \in StoredConfigs /\ OwnTokens(c.accounts) /\ c.sync = cfg.sync
               /\ Canonical(c) /\ c.apiKeys = incoming.apiKeys
<1> DEFINE accs == normalizeAndDedupeAccounts(incoming.accounts)
           c == ReplacedConfig(cfg, incoming)
<1>1. incoming.accounts \in Seq(Accounts)
  BY DEF StoredConfigs
<1>2. accs \in Seq(Accounts) /\ \A i \in DOMAIN accs : \E j \in DOMAIN incoming.accounts :
                                                     accs[i] = incoming.accounts[j]
  BY <1>1, NormalizedAccounts
<1>3. c = [incoming EXCEPT !.accounts = accs, !.sync = cfg.sync]
  BY DEF ReplacedConfig
<1> HIDE DEF accs, c
<1>4. OwnTokens(accs)
  BY <1>2 DEF OwnTokens
<1>5. cfg.sync \in Configs \cup {NoValue}
  BY Found DEF StoredConfigs
<1>6. /\ c \in StoredConfigs /\ c.accounts = accs /\ c.sync = cfg.sync
      /\ c.keys = incoming.keys /\ c.apiKeys = incoming.apiKeys
  BY <1>2, <1>3, <1>5 DEF StoredConfigs
<1> QED
  BY <1>4, <1>6 DEF Canonical, c

\* What configImport reads.
LEMMA Incoming ==
    ASSUME NEW raw \in ImportConfigs
    PROVE  LET c == ClearAccountTokens(NormalizeCredentials(raw))
           IN  c \in StoredConfigs /\ OwnTokens(c.accounts) /\ Canonical(c)
               /\ c.apiKeys = NormalizeCredentials(raw).apiKeys
<1>1. raw \in StoredConfigs
  BY RequestsAssumption
<1>2. NormalizeCredentials(raw) \in StoredConfigs /\ Canonical(NormalizeCredentials(raw))
  BY <1>1, NormalizedCredentials
<1> QED
  BY <1>2, ClearedTokens

LEMMA ConfigImportStep ==
    ASSUME ConfigInv, NEW raw \in ImportConfigs, configImport(raw)
    PROVE  ConfigInv'
<1> DEFINE incoming == ClearAccountTokens(NormalizeCredentials(raw))
<1>1. incoming \in StoredConfigs /\ OwnTokens(incoming.accounts) /\ Canonical(incoming)
  BY Incoming
<1>2. PICK c \in {MergedConfig(cfg, incoming), ReplacedConfig(cfg, incoming)} :
         ValidateConfig(c) /\ Change(c)
  BY DEF configImport
<1> HIDE DEF incoming
<1>3. c \in StoredConfigs /\ OwnTokens(c.accounts) /\ c.sync = cfg.sync
  BY <1>1, <1>2, MergedConfigs, ReplacedConfigs
<1>4. UpdateNoting(c, FALSE, FALSE) /\ UNCHANGED <<job, deployed>>
  BY <1>2 DEF Change, Update
<1> QED
  BY <1>2, <1>3, <1>4, ChangeStep

\* A step of a job on a store that keeps its hash.
LEMMA JobStep ==
    ASSUME ConfigInv, StoreInv', HashStep(cfg.sync), deployed' = deployed,
           NEW adm \in Admins, NEW j \in Jobs, ~Upserted(adm), j.at # "upserted",
           job' = [job EXCEPT ![adm] = j]
    PROVE  ConfigInv'
<1>1. job \in [Admins -> Jobs] /\ deployed \in Configs \cup {NoValue}
  BY DEF ConfigInv, ConfigTypeOK
<1>2. job' \in [Admins -> Jobs] /\ deployed' \in Configs \cup {NoValue}
  BY <1>1
<1>3. \A other \in Admins : job'[other] = IF other = adm THEN j ELSE job[other]
  BY <1>1
<1>4. SameDeployments
  BY <1>3 DEF SameDeployments, Upserted
<1>5. Deploying'
  BY <1>4, DeployingKept
<1> QED
  BY <1>2, <1>5, InvParts

LEMMA RequestTokenStep ==
    ASSUME ConfigInv, NEW id \in AccountIds, requestToken(id)
    PROVE  ConfigInv'
<1>1. StoreInv' /\ HashStep(cfg.sync)
  BY TokenStep DEF requestToken
<1>2. UNCHANGED <<job, deployed>>
  BY DEF requestToken
<1>3. Deploying'
  BY <1>1, <1>2, DeployingKept DEF SameDeployments
<1> QED
  BY <1>1, <1>2, <1>3, InvParts DEF ConfigInv, ConfigTypeOK

LEMMA OneUpdateStep ==
    ASSUME ConfigInv, OneUpdate
    PROVE  ConfigInv'
  BY AddKeyStep, UpdateKeyStep, DeleteKeyStep, BatchImportStep, ConfigImportStep, AddAccountStep,
     UpdateAccountStep, DeleteAccountStep, RequestTokenStep, AddProxyStep, UpdateProxyStep,
     DeleteProxyStep, UpdateAccountProxyStep
  DEF OneUpdate

-----------------------------------------------------------------------------
\* Handlers of several steps

\* A job knows what its phase needs.
LEMMA JobTypes ==
    ASSUME ConfigInv, NEW adm \in Admins
    PROVE  /\ job \in [Admins -> Jobs] /\ job[adm] \in Jobs
           /\ job[adm].at = "update" => job[adm].old \in Seq(Accounts)
           /\ job[adm].at = "settings" => job[adm].perAccount \in Limits /\ job[adm].global \in Limits
           /\ job[adm].at = "test" => job[adm].id \in AccountIds
           /\ job[adm].at = "validate" => job[adm] = [at |-> "validate", pending |-> job[adm].pending]
                                          /\ job[adm].pending \subseteq AccountIds
           /\ job[adm].at \in {"exported", "upserted"} =>
                 job[adm] = [at |-> job[adm].at, config |-> job[adm].config]
                 /\ job[adm].config \in Configs
<1>1. job \in [Admins -> Jobs] /\ job[adm] \in Jobs
  BY DEF ConfigInv, ConfigTypeOK
<1> DEFINE j == job[adm]
<1>2. j \in Jobs
  BY <1>1
<1> HIDE DEF j
<1>3. /\ j.at = "update" => j.old \in Seq(Accounts)
      /\ j.at = "settings" => j.perAccount \in Limits /\ j.global \in Limits
      /\ j.at = "test" => j.id \in AccountIds
  BY <1>2 DEF Jobs
<1>4. /\ j.at = "validate" => j = [at |-> "validate", pending |-> j.pending]
                               /\ j.pending \subseteq AccountIds
      /\ j.at \in {"exported", "upserted"} =>
            j = [at |-> j.at, config |-> j.config] /\ j.config \in Configs
  BY <1>2 DEF Jobs
<1> QED
  BY <1>1, <1>3, <1>4 DEF j

LEMMA IdleJob == Idle \in Jobs /\ Idle.at = "idle"
  BY DEF Idle, Jobs

\* Passwords of the accounts there were: nothing else is taken from them.
LEMMA OldPasswords ==
    ASSUME NEW accounts \in Seq(Accounts), OwnTokens(accounts), NEW old \in Seq(Accounts)
    PROVE  WithOldPasswords(accounts, old) \in Seq(Accounts) /\ OwnTokens(WithOldPasswords(accounts, old))
<1> DEFINE found(i) == old[LastOf(old, accounts[i].id)].password
           kept(i) == accounts[i].password # NoValue \/ accounts[i].id \notin IdsOf(old)
           t == [i \in DOMAIN accounts |-> IF kept(i) THEN accounts[i]
                                           ELSE [accounts[i] EXCEPT !.password = found(i)]]
<1>1. Len(accounts) \in Nat /\ DOMAIN accounts = 1..Len(accounts)
      /\ \A i \in 1..Len(accounts) : accounts[i] \in Accounts
  OBVIOUS
<1>2. ASSUME NEW i \in DOMAIN accounts, accounts[i].id \in IdsOf(old)
      PROVE  found(i) \in Secrets \cup {NoValue}
  <2>1. LastOf(old, accounts[i].id) \in DOMAIN old
    BY <1>2, AccountPlaces
  <2>2. PICK j \in DOMAIN old : found(i) = old[j].password
    BY <2>1
  <2>3. old[j] \in Accounts
    BY <2>2
  <2> QED
    BY <2>2, <2>3 DEF Accounts
<1>3. WithOldPasswords(accounts, old) = t
  BY DEF WithOldPasswords
<1> HIDE DEF found
<1>4. \A a \in Accounts, pw \in Secrets \cup {NoValue} :
         LET b == [a EXCEPT !.password = pw]
         IN  b \in Accounts /\ b.id = a.id /\ b.token = a.token
  BY DEF Accounts
<1>5. \A i \in DOMAIN accounts : t[i] \in Accounts /\ t[i].id = accounts[i].id
                               /\ t[i].token = accounts[i].token
  BY <1>1, <1>2, <1>4
<1>6. DOMAIN t = 1..Len(accounts)
  BY <1>1
<1>7. t \in [1..Len(accounts) -> Accounts]
  BY <1>1, <1>5, <1>6
<1> HIDE DEF t
<1>8. t \in Seq(Accounts)
  BY <1>1, <1>7
<1>9. OwnTokens(t)
  BY <1>1, <1>5, <1>6 DEF OwnTokens
<1> QED
  BY <1>3, <1>8, <1>9

LEMMA EmptyStored == Empty \in StoredConfigs /\ Empty.accounts = <<>>
<1>1. <<>> \in Seq(Keys) /\ <<>> \in Seq(KeyRecords) /\ <<>> \in Seq(Accounts) /\ 0 \in Limits
  BY DEF Limits
<1> QED
  BY <1>1 DEF Empty, StoredConfigs

\* The accounts of a request for another configuration.
LEMMA SentAccounts ==
    ASSUME ConfigInv, NEW old \in Seq(Accounts),
           NEW accounts \in {cfg.accounts} \cup
               {WithOldPasswords(normalizeAndDedupeAccounts(a), old) : a \in AccountLists}
    PROVE  accounts \in Seq(Accounts) /\ OwnTokens(accounts)
<1>1. CASE accounts = cfg.accounts
  BY <1>1, Found
<1>2. ASSUME NEW a \in AccountLists,
             accounts = WithOldPasswords(normalizeAndDedupeAccounts(a), old)
      PROVE  accounts \in Seq(Accounts) /\ OwnTokens(accounts)
  <2>1. a \in Seq(Accounts) /\ \A i \in DOMAIN a : a[i].token = NoValue
    BY RequestsAssumption
  <2>2. normalizeAndDedupeAccounts(a) \in Seq(Accounts) /\ OwnTokens(normalizeAndDedupeAccounts(a))
    BY <2>1, NormalizedAccounts DEF OwnTokens
  <2> QED
    BY <1>2, <2>2, OldPasswords
<1> QED
  BY <1>1, <1>2

LEMMA UpdateConfigStep ==
    ASSUME ConfigInv, Up, NEW adm \in Admins, updateConfig(adm)
    PROVE  ConfigInv'
<1>1. job[adm].at = "update" /\ job[adm].old \in Seq(Accounts)
  BY JobTypes DEF updateConfig
<1>2. PICK accounts \in {cfg.accounts} \cup
               {WithOldPasswords(normalizeAndDedupeAccounts(a), job[adm].old) : a \in AccountLists},
           base \in {cfg} \cup {[cfg EXCEPT !.apiKeys = items] : items \in RecordLists}
                    \cup {[cfg EXCEPT !.keys = keys] : keys \in KeyLists} :
         UpdateNoting([base EXCEPT !.accounts = accounts],
                      ~ValidateConfig([base EXCEPT !.accounts = accounts]), FALSE)
  BY DEF updateConfig
<1>3. accounts \in Seq(Accounts) /\ OwnTokens(accounts)
  BY <1>1, <1>2, SentAccounts
<1>4. base \in StoredConfigs /\ base.sync = cfg.sync
  BY <1>2, Found, RequestsAssumption DEF StoredConfigs
<1> DEFINE c == [base EXCEPT !.accounts = accounts]
<1>5. c \in StoredConfigs /\ c.accounts = accounts /\ c.sync = cfg.sync
  BY <1>3, <1>4 DEF StoredConfigs
<1>6. UpdateNoting(c, ~ValidateConfig(c), FALSE)
  BY <1>2
<1> HIDE DEF c
<1>7. ValidateConfig(c) \in BOOLEAN
  BY DEF ValidateConfig, ValidRuntime, ValidProxyReferences
<1>8. StoreInv' /\ HashStep(cfg.sync)
  BY <1>3, <1>5, <1>6, <1>7, UpdateStep
<1>9. job' = [job EXCEPT ![adm] = Idle] /\ deployed' = deployed
  BY DEF updateConfig
<1>10. ~Upserted(adm) /\ Idle \in Jobs /\ Idle.at # "upserted"
  BY <1>1, IdleJob DEF Upserted
<1> QED
  BY <1>8, <1>9, <1>10, JobStep

LEMMA UpdateSettingsStep ==
    ASSUME ConfigInv, Up, NEW adm \in Admins, updateSettings(adm)
    PROVE  ConfigInv'
<1> DEFINE wanted == [Empty EXCEPT !.perAccount = job[adm].perAccount, !.global = job[adm].global]
           c == MergedConfig(cfg, wanted)
<1>1. /\ job[adm].at = "settings" /\ job[adm].perAccount \in Limits /\ job[adm].global \in Limits
  BY JobTypes DEF updateSettings
<1>2. wanted \in StoredConfigs /\ wanted.accounts = <<>>
  <2>1. Empty \in StoredConfigs /\ Empty.accounts = <<>>
    BY EmptyStored
  <2> QED
    BY <1>1, <2>1 DEF StoredConfigs
<1>3. UpdateNoting(c, ~ValidRuntime(c), FALSE)
  BY DEF updateSettings
<1> HIDE DEF wanted
<1>4. c \in StoredConfigs /\ OwnTokens(c.accounts) /\ c.sync = cfg.sync
      /\ c.proxies = cfg.proxies /\ c.accounts = cfg.accounts
  BY <1>2, MergedConfigs DEF OwnTokens
<1> HIDE DEF c
<1>5. ValidRuntime(c) \in BOOLEAN
  BY DEF ValidRuntime
<1>6. ~note.unchecked /\ ValidRuntime(c) => ValidateConfig(c)
  BY <1>4, Found DEF ValidateConfig, ValidProxyReferences
<1>7. StoreInv' /\ HashStep(cfg.sync)
  BY <1>3, <1>4, <1>5, <1>6, UpdateStep
<1>8. job' = [job EXCEPT ![adm] = Idle] /\ deployed' = deployed
  BY DEF updateSettings
<1>9. ~Upserted(adm) /\ Idle \in Jobs /\ Idle.at # "upserted"
  BY <1>1, IdleJob DEF Upserted
<1> QED
  BY <1>7, <1>8, <1>9, JobStep

\* Handlers that begin: what they take from the configuration is typed.
LEMMA BeginningStep ==
    ASSUME ConfigInv, NEW adm \in Admins, NEW j \in Jobs, j.at # "upserted",
           job[adm].at # "upserted", job' = [job EXCEPT ![adm] = j],
           UNCHANGED <<cfg, index, file, backing, deployed, note>>
    PROVE  ConfigInv'
<1>1. StoreInv' /\ HashStep(cfg.sync)
  BY StoreKept
<1> QED
  BY <1>1, JobStep DEF Upserted

LEMMA BeginsStep ==
    ASSUME ConfigInv, NEW adm \in Admins,
           \/ updateConfigBegins(adm) \/ syncVercelBegins(adm) \/ exportSyncConfig(adm)
           \/ testAccountEnds(adm)
           \/ \E limits \in LimitRequests : updateSettingsBegins(adm, limits[1], limits[2])
           \/ \E id \in AccountIds : testAccountBegins(adm, id)
    PROVE  ConfigInv'
<1>1. Idle.at = "idle" /\ Idle \in Jobs
  BY IdleJob
<1>2. CASE updateConfigBegins(adm)
  <2>1. [at |-> "update", old |-> cfg.accounts] \in Jobs
    BY Found DEF Jobs
  <2> QED
    BY <1>1, <1>2, <2>1, BeginningStep DEF updateConfigBegins
<1>3. CASE syncVercelBegins(adm)
  <2> DEFINE pending == {id \in IdsOf(cfg.accounts) :
                            \E i \in DOMAIN cfg.accounts :
                               cfg.accounts[i].id = id /\ cfg.accounts[i].token = NoValue}
  <2>1. pending \subseteq AccountIds
    <3>1. \A i \in DOMAIN cfg.accounts : cfg.accounts[i] \in Accounts
      BY Found
    <3> QED
      BY <3>1 DEF IdsOf, Accounts
  <2>2. \E ids \in {pending, {}} : job' = [job EXCEPT ![adm] = [at |-> "validate", pending |-> ids]]
    BY <1>3 DEF syncVercelBegins
  <2> HIDE DEF pending
  <2>3. \A ids \in {pending, {}} : [at |-> "validate", pending |-> ids] \in Jobs
    BY <2>1 DEF Jobs
  <2> QED
    BY <1>1, <1>3, <2>2, <2>3, BeginningStep DEF syncVercelBegins
<1>4. CASE exportSyncConfig(adm)
  <2>1. PICK c \in {cfg} \cup {NormalizeCredentials(raw) : raw \in ImportConfigs} :
           job' = [job EXCEPT ![adm] = [at |-> "exported", config |-> SyncHash(c)]]
    BY <1>4 DEF exportSyncConfig
  <2>2. c \in StoredConfigs
    BY <2>1, Found, RequestsAssumption, NormalizedCredentials
  <2>3. [at |-> "exported", config |-> SyncHash(c)] \in Jobs
    BY <2>2, Hashed DEF Jobs
  <2> QED
    BY <1>4, <2>1, <2>3, BeginningStep DEF exportSyncConfig
<1>5. CASE testAccountEnds(adm)
  BY <1>1, <1>5, BeginningStep DEF testAccountEnds
<1>6. CASE \E limits \in LimitRequests : updateSettingsBegins(adm, limits[1], limits[2])
  <2>1. PICK limits \in LimitRequests : updateSettingsBegins(adm, limits[1], limits[2])
    BY <1>6
  <2>2. [at |-> "settings", perAccount |-> limits[1], global |-> limits[2]] \in Jobs
    BY RequestsAssumption DEF Jobs
  <2> QED
    BY <1>1, <2>1, <2>2, BeginningStep DEF updateSettingsBegins
<1>7. CASE \E id \in AccountIds : testAccountBegins(adm, id)
  <2>1. PICK id \in AccountIds : testAccountBegins(adm, id)
    BY <1>7
  <2>2. [at |-> "test", id |-> id] \in Jobs
    BY DEF Jobs
  <2> QED
    BY <1>1, <2>1, <2>2, BeginningStep DEF testAccountBegins
<1> QED
  BY <1>2, <1>3, <1>4, <1>5, <1>6, <1>7

LEMMA LoginStep ==
    ASSUME ConfigInv, NEW adm \in Admins,
           testAccountLogin(adm) \/ \E id \in AccountIds : validateAccountsForVercelSync(adm, id)
    PROVE  ConfigInv'
<1>1. CASE testAccountLogin(adm)
  <2>1. job[adm].at = "test" /\ job[adm].id \in AccountIds /\ UNCHANGED <<job, deployed>>
        /\ UpdateAccountToken(job[adm].id, job[adm].id)
    BY <1>1, JobTypes DEF testAccountLogin
  <2>2. StoreInv' /\ HashStep(cfg.sync)
    BY <2>1, TokenStep
  <2>3. Deploying'
    BY <2>1, <2>2, DeployingKept DEF SameDeployments
  <2> QED
    BY <2>1, <2>2, <2>3, InvParts DEF ConfigInv, ConfigTypeOK
<1>2. ASSUME NEW id \in AccountIds, validateAccountsForVercelSync(adm, id)
      PROVE  ConfigInv'
  <2>1. /\ job[adm].at = "validate" /\ job[adm] = [at |-> "validate", pending |-> job[adm].pending]
        /\ job[adm].pending \subseteq AccountIds /\ job \in [Admins -> Jobs]
    BY <1>2, JobTypes DEF validateAccountsForVercelSync
  <2>2. StoreInv' /\ HashStep(cfg.sync)
    BY <1>2, TokenStep, StoreKept DEF validateAccountsForVercelSync
  <2> DEFINE j == [at |-> "validate", pending |-> job[adm].pending \ {id}]
  <2>3. [job[adm] EXCEPT !.pending = @ \ {id}] = j
    BY <2>1
  <2>4. job' = [job EXCEPT ![adm] = j] /\ deployed' = deployed
    BY <1>2, <2>1, <2>3 DEF validateAccountsForVercelSync
  <2>5. j \in Jobs /\ j.at # "upserted"
    BY <2>1 DEF Jobs
  <2> QED
    BY <2>1, <2>2, <2>4, <2>5, JobStep DEF Upserted
<1> QED
  BY <1>1, <1>2

\* The environment variable is replaced, or the request failed.
LEMMA UpsertStep ==
    ASSUME ConfigInv, NEW adm \in Admins, upsertVercelEnv(adm)
    PROVE  ConfigInv'
<1>1. /\ job[adm].at = "exported" /\ job[adm] = [at |-> "exported", config |-> job[adm].config]
      /\ job[adm].config \in Configs /\ job \in [Admins -> Jobs]
  BY JobTypes DEF upsertVercelEnv
<1>2. /\ UNCHANGED <<cfg, index, file, backing>> /\ deployed \in Configs \cup {NoValue}
      /\ note \in [acked : StoredConfigs \cup {NoValue}, changes : 0..MaxChanges,
                   faults : 0..MaxFaults, unchecked : BOOLEAN, muddled : BOOLEAN]
      /\ Deploying
  BY DEF upsertVercelEnv, ConfigInv, ConfigTypeOK
<1>3. ASSUME NEW b \in BOOLEAN, note' = [note EXCEPT !.muddled = b]
      PROVE  StoreInv' /\ note'.muddled = b
  <2>1. /\ note' \in [acked : StoredConfigs \cup {NoValue}, changes : 0..MaxChanges,
                      faults : 0..MaxFaults, unchecked : BOOLEAN, muddled : BOOLEAN]
        /\ note'.acked = note.acked /\ note'.unchecked = note.unchecked /\ note'.muddled = b
    BY <1>2, <1>3
  <2>2. Acknowledged' /\ StartsAgain' /\ Indexed' /\ Backed'
    BY <1>2, <2>1 DEF ConfigInv, Acknowledged, StartsAgain, Indexed, Backed, Up
  <2> QED
    BY <1>2, <2>1, <2>2 DEF StoreInv, ConfigInv, ConfigTypeOK
<1>4. CASE /\ deployed' = job[adm].config
           /\ job' = [job EXCEPT ![adm].at = "upserted"]
           /\ note' = [note EXCEPT !.muddled = @ \/ Crossed(adm)]
  <2> DEFINE j == [at |-> "upserted", config |-> job[adm].config]
  <2>1. [job[adm] EXCEPT !.at = "upserted"] = j /\ j \in Jobs
    BY <1>1 DEF Jobs
  <2>2. job' = [job EXCEPT ![adm] = j]
    BY <1>1, <1>4, <2>1
  <2>3. job' \in [Admins -> Jobs] /\ \A other \in Admins : job'[other] = IF other = adm THEN j ELSE job[other]
    BY <1>1, <2>1, <2>2
  <2>4. Crossed(adm) \in BOOLEAN
    BY DEF Crossed
  <2>5. StoreInv' /\ note'.muddled = (note.muddled \/ Crossed(adm))
    BY <1>2, <1>3, <1>4, <2>4
  <2>6. ASSUME ~note'.muddled, NEW other \in Admins \ {adm}
        PROVE  ~Upserted(other)'
    <3>1. job[other].at # "upserted"
      BY <2>5, <2>6 DEF Crossed
    <3> QED
      BY <2>3, <3>1 DEF Upserted
  <2>7. job'[adm].config = deployed' /\ Upserted(adm)'
    BY <1>4, <2>3 DEF Upserted
  <2>8. Deploying'
    BY <2>6, <2>7 DEF Deploying
  <2> QED
    BY <1>1, <1>4, <2>3, <2>5, <2>8, InvParts
<1>5. CASE /\ deployed' \in {deployed, job[adm].config}
           /\ job' = [job EXCEPT ![adm] = Idle]
           /\ note' = [note EXCEPT !.muddled = @ \/ deployed' # deployed]
  <2>1. /\ job' \in [Admins -> Jobs]
        /\ \A other \in Admins : job'[other] = IF other = adm THEN Idle ELSE job[other]
    BY <1>1, <1>5, IdleJob
  <2>2. StoreInv' /\ note'.muddled = (note.muddled \/ deployed' # deployed)
    BY <1>2, <1>3, <1>5
  <2>3. CASE deployed' # deployed
    <3>1. Deploying'
      BY <2>2, <2>3 DEF Deploying
    <3> QED
      BY <1>1, <1>2, <1>5, <2>1, <2>2, <3>1, InvParts
  <2>4. CASE deployed' = deployed
    <3>1. HashStep(cfg.sync)
      BY <1>2, <2>2 DEF HashStep
    <3> QED
      BY <1>1, <1>5, <2>2, <2>4, <3>1, IdleJob, JobStep DEF Upserted
  <2> QED
    BY <2>3, <2>4
<1> QED
  BY <1>4, <1>5 DEF upsertVercelEnv

LEMMA SetVercelSyncStep ==
    ASSUME ConfigInv, Up, NEW adm \in Admins, SetVercelSync(adm)
    PROVE  ConfigInv'
<1> DEFINE hash == job[adm].config
           c == [cfg EXCEPT !.sync = hash]
<1>1. job[adm].at = "upserted" /\ hash \in Configs /\ job \in [Admins -> Jobs]
  BY JobTypes DEF SetVercelSync
<1>2. UpdateNoting(c, FALSE, TRUE) /\ job' = [job EXCEPT ![adm] = Idle] /\ deployed' = deployed
  BY DEF SetVercelSync
<1> HIDE DEF hash
<1>3. c \in StoredConfigs /\ c.sync = hash /\ c.accounts = cfg.accounts /\ c.proxies = cfg.proxies
      /\ c.perAccount = cfg.perAccount /\ c.global = cfg.global
  BY <1>1, Found DEF StoredConfigs
<1> HIDE DEF c
<1>4. OwnTokens(c.accounts) /\ (~note.unchecked => ValidateConfig(c))
  BY <1>3, Found DEF ValidateConfig, ValidRuntime, ValidProxyReferences
<1>5. StoreInv' /\ HashStep(hash) /\ (~note'.muddled /\ file' \in StoredConfigs => file'.sync = hash)
  BY <1>2, <1>3, <1>4, UpdateStep
<1>6. /\ job' \in [Admins -> Jobs]
      /\ \A other \in Admins : job'[other] = IF other = adm THEN Idle ELSE job[other]
  BY <1>1, <1>2, IdleJob
<1>7. ASSUME ~note'.muddled
      PROVE  deployed = hash /\ \A other \in Admins : ~Upserted(other)'
  <2>1. ~note.muddled /\ Upserted(adm) /\ Deploying
    BY <1>1, <1>5, <1>7 DEF HashStep, Upserted, ConfigInv
  <2>2. deployed = hash /\ \A other \in Admins : Upserted(other) => other = adm
    BY <2>1 DEF Deploying, hash
  <2>3. ASSUME NEW other \in Admins PROVE ~Upserted(other)'
    BY <1>6, <2>2, IdleJob DEF Upserted
  <2> QED
    BY <2>2, <2>3
<1>8. Deploying'
  BY <1>2, <1>5, <1>7 DEF Deploying, HashStep
<1> QED
  BY <1>2, <1>5, <1>6, <1>8, InvParts DEF ConfigInv, ConfigTypeOK

LEMMA LongerStep ==
    ASSUME ConfigInv, Up, NEW adm \in Admins, Longer(adm)
    PROVE  ConfigInv'
  BY BeginsStep, UpdateConfigStep, UpdateSettingsStep, LoginStep, UpsertStep, SetVercelSyncStep
  DEF Longer, testAccount, syncVercel

-----------------------------------------------------------------------------
\* The start and the end of the process

LEMMA Source ==
    ASSUME ConfigInv
    PROVE  /\ backing.source \in StoredConfigs /\ OwnTokens(backing.source.accounts)
           /\ backing \in [mode : Modes, source : SourceConfigs, state : {"up", "down", "refused"}]
  BY SourcesAssumption DEF ConfigInv, ConfigTypeOK

\* A configuration is loaded, and one that was acknowledged is the one.
LEMMA LoadedStep ==
    ASSUME ConfigInv, NEW c \in StoredConfigs, OwnTokens(c.accounts), Loaded(c),
           file' \in StoredConfigs \cup {Torn, Absent}, file' \in StoredConfigs => OwnTokens(file'.accounts),
           backing.mode = "memory" => file' = Absent,
           note.acked # NoValue => file' = file /\ c = file,
           UNCHANGED <<job, deployed>>,
           note' \in [acked : StoredConfigs \cup {NoValue}, changes : 0..MaxChanges,
                      faults : 0..MaxFaults, unchecked : BOOLEAN, muddled : BOOLEAN],
           note'.acked = note.acked, note'.unchecked = note.unchecked,
           ~note'.muddled => ~note.muddled /\ (c.sync \in {NoValue, deployed} \/ c = file),
           file' \in StoredConfigs => file' = file \/ file'.sync = c.sync
    PROVE  ConfigInv'
<1> DEFINE n == NormalizeCredentials(c)
           st == IF ValidateConfig(c) THEN "up" ELSE "refused"
<1>1. n \in StoredConfigs /\ Canonical(n) /\ SameButKeys(c, n) /\ (Canonical(c) => n = c)
  BY NormalizedCredentials
<1>2. cfg' = n /\ index' = IndexesOf(n) /\ backing' = [backing EXCEPT !.state = st]
  BY DEF Loaded
<1> HIDE DEF n
<1>3. backing' \in [mode : Modes, source : SourceConfigs, state : {"up", "down", "refused"}]
      /\ backing'.mode = backing.mode /\ backing'.source = backing.source /\ backing'.state = st
  BY <1>2, Source
<1>4. Indexed' /\ index'.keys \subseteq Keys /\ DOMAIN index'.accounts \subseteq AccountIds
  BY <1>1, <1>2, IndexesStep
<1>5. Backed'
  BY <1>3, Source DEF Backed
<1>6. Acknowledged'
  <2> SUFFICES ASSUME note'.acked # NoValue
               PROVE  /\ backing'.mode # "memory"
                      /\ file' = note'.acked /\ Canonical(file') /\ ClearAccountTokens(file') = file'
                      /\ Up' => ClearAccountTokens(cfg') = file'
    BY DEF Acknowledged
  <2>1. /\ backing.mode # "memory" /\ file = note.acked /\ Canonical(file)
        /\ ClearAccountTokens(file) = file /\ file' = file /\ c = file
    BY DEF ConfigInv, Acknowledged
  <2> QED
    BY <1>1, <1>2, <1>3, <2>1
<1>7. StartsAgain'
  BY <1>1, <1>2, <1>3
     DEF StartsAgain, Up, ValidateConfig, ValidRuntime, ValidProxyReferences, SameButKeys
<1>8. OwnTokens(n.accounts) /\ n.sync = c.sync
  BY <1>1 DEF SameButKeys
<1>9. StoreInv'
  BY <1>1, <1>2, <1>3, <1>4, <1>5, <1>6, <1>7, <1>8 DEF StoreInv
<1>10. Deploying'
  <2>1. c = file => file \in StoredConfigs
    OBVIOUS
  <2> QED
    BY <1>2, <1>8, <2>1 DEF ConfigInv, Deploying, Upserted
<1> QED
  BY <1>9, <1>10, InvParts DEF ConfigInv, ConfigTypeOK

LEMMA LoadConfigStep ==
    ASSUME ConfigInv, loadConfig
    PROVE  ConfigInv'
<1> DEFINE env == ClearAccountTokens(backing.source)
<1>1. env \in StoredConfigs /\ OwnTokens(env.accounts) /\ env.sync = backing.source.sync
  BY Source, ClearedTokens
<1>2. /\ UNCHANGED <<job, deployed>>
      /\ note \in [acked : StoredConfigs \cup {NoValue}, changes : 0..MaxChanges,
                   faults : 0..MaxFaults, unchecked : BOOLEAN, muddled : BOOLEAN]
      /\ file \in StoredConfigs \cup {Torn, Absent} /\ Backed /\ Acknowledged
      /\ Torn \notin StoredConfigs /\ Absent \notin StoredConfigs
      /\ Torn # Absent
  BY FileMarksAssumption DEF loadConfig, ConfigInv, ConfigTypeOK
<1>3. note.acked # NoValue => file \in StoredConfigs /\ backing.mode # "memory"
  BY <1>2 DEF Acknowledged
<1> HIDE DEF env
<1>9. ASSUME LoadedFromEnv
      PROVE  /\ Loaded(env)
             /\ note' \in [acked : StoredConfigs \cup {NoValue}, changes : 0..MaxChanges,
                           faults : 0..MaxFaults, unchecked : BOOLEAN, muddled : BOOLEAN]
             /\ note'.acked = note.acked /\ note'.unchecked = note.unchecked
             /\ ~note'.muddled => ~note.muddled /\ env.sync \in {NoValue, deployed}
  <2> DEFINE b == note.muddled \/ backing.source.sync \notin {NoValue, deployed}
  <2>1. Loaded(env) /\ note' = [note EXCEPT !.muddled = b]
    BY <1>9 DEF LoadedFromEnv, env
  <2>2. b \in BOOLEAN /\ (~b => ~note.muddled /\ env.sync \in {NoValue, deployed})
    BY <1>1, <1>2
  <2> HIDE DEF b
  <2>3. note'.muddled = b
    BY <1>2, <2>1
  <2> QED
    BY <1>2, <2>1, <2>2, <2>3
<1>4. CASE backing.mode = "memory" /\ LoadedFromEnv /\ UNCHANGED file
  BY <1>1, <1>2, <1>3, <1>4, <1>9, LoadedStep DEF Backed
<1>5. CASE file \notin {Torn, Absent} /\ backing.mode # "memory" /\ Loaded(file)
           /\ UNCHANGED <<file, note>>
  <2>1. file \in StoredConfigs /\ OwnTokens(file.accounts)
    BY <1>2, <1>5 DEF Backed
  <2> QED
    BY <1>2, <1>5, <2>1, LoadedStep
<1>6. CASE /\ file \in {Torn, Absent} /\ backing.mode = "file"
           /\ backing' = [backing EXCEPT !.state = "refused"] /\ UNCHANGED <<cfg, index, file, note>>
  <2>1. backing' \in [mode : Modes, source : SourceConfigs, state : {"up", "down", "refused"}]
        /\ backing'.mode = backing.mode /\ backing'.source = backing.source /\ ~Up'
    BY <1>6, Source DEF Up
  <2>2. Acknowledged' /\ StartsAgain' /\ Indexed' /\ Backed'
    BY <1>2, <1>3, <1>6, <2>1 DEF ConfigInv, Acknowledged, StartsAgain, Indexed, Backed
  <2>3. StoreInv'
    BY <1>2, <1>6, <2>1, <2>2 DEF StoreInv, ConfigInv, ConfigTypeOK
  <2>4. Deploying'
    BY <1>2, <1>6 DEF ConfigInv, Deploying, Upserted
  <2> QED
    BY <1>2, <2>3, <2>4, InvParts DEF ConfigInv, ConfigTypeOK
<1>7. CASE file = Torn /\ backing.mode = "writeback" /\ LoadedFromEnv /\ UNCHANGED file
  BY <1>1, <1>2, <1>3, <1>7, <1>9, LoadedStep
<1>8. CASE /\ file = Absent /\ backing.mode = "writeback" /\ LoadedFromEnv
           /\ file' = IF ValidateConfig(backing.source) THEN env ELSE Absent
  BY <1>1, <1>2, <1>3, <1>8, <1>9, LoadedStep
<1> QED
  BY <1>4, <1>5, <1>6, <1>7, <1>8 DEF loadConfig, env

LEMMA CrashStep ==
    ASSUME ConfigInv, Crash
    PROVE  ConfigInv'
<1>1. /\ backing' = [backing EXCEPT !.state = "down"] /\ job' = [adm \in Admins |-> Idle]
      /\ note.faults < MaxFaults /\ UNCHANGED <<cfg, index, deployed>>
  BY DEF Crash
<1>2. /\ note \in [acked : StoredConfigs \cup {NoValue}, changes : 0..MaxChanges,
                   faults : 0..MaxFaults, unchecked : BOOLEAN, muddled : BOOLEAN]
      /\ file \in StoredConfigs \cup {Torn, Absent} /\ Backed /\ Acknowledged /\ Deploying
      /\ MaxFaults \in Nat /\ Torn \notin StoredConfigs
  BY ConfigBoundsAssumption, FileMarksAssumption DEF ConfigInv, ConfigTypeOK
<1>3. /\ backing' \in [mode : Modes, source : SourceConfigs, state : {"up", "down", "refused"}]
      /\ backing'.mode = backing.mode /\ backing'.source = backing.source /\ ~Up'
  BY <1>1, Source DEF Up
<1>4. job' \in [Admins -> Jobs] /\ \A adm \in Admins : ~Upserted(adm)'
  BY <1>1, IdleJob DEF Upserted
<1>0. note.faults + 1 \in 0..MaxFaults
  BY <1>1, <1>2
<1>5. CASE /\ UNCHANGED file
           /\ note' = [note EXCEPT !.faults = @ + 1,
                           !.muddled = @ \/ \E adm \in Admins : job[adm].at = "upserted"]
  <2>1. /\ note' \in [acked : StoredConfigs \cup {NoValue}, changes : 0..MaxChanges,
                      faults : 0..MaxFaults, unchecked : BOOLEAN, muddled : BOOLEAN]
        /\ note'.acked = note.acked
        /\ (~note'.muddled => ~note.muddled /\ \A adm \in Admins : ~Upserted(adm))
    <3> DEFINE b == note.muddled \/ \E adm \in Admins : job[adm].at = "upserted"
    <3>1. b \in BOOLEAN /\ note' = [note EXCEPT !.faults = @ + 1, !.muddled = b]
      BY <1>2, <1>5
    <3> HIDE DEF b
    <3>2. note'.muddled = b
      BY <1>2, <3>1
    <3> QED
      BY <1>0, <1>2, <3>1, <3>2 DEF Upserted, b
  <2>2. Acknowledged' /\ StartsAgain' /\ Indexed' /\ Backed'
    BY <1>1, <1>2, <1>3, <1>5, <2>1 DEF ConfigInv, Acknowledged, StartsAgain, Indexed, Backed
  <2>3. Deploying'
    BY <1>1, <1>2, <1>4, <1>5, <2>1 DEF Deploying
  <2>4. StoreInv'
    BY <1>1, <1>2, <1>3, <1>5, <2>1, <2>2 DEF StoreInv, ConfigInv, ConfigTypeOK
  <2> QED
    BY <1>1, <1>4, <2>3, <2>4, InvParts DEF ConfigInv, ConfigTypeOK
<1>6. CASE /\ backing.mode # "memory" /\ file' = Torn
           /\ note' = [note EXCEPT !.faults = @ + 1, !.acked = NoValue, !.muddled = TRUE]
  <2>1. /\ note' \in [acked : StoredConfigs \cup {NoValue}, changes : 0..MaxChanges,
                      faults : 0..MaxFaults, unchecked : BOOLEAN, muddled : BOOLEAN]
        /\ note'.acked = NoValue /\ note'.muddled
    BY <1>0, <1>2, <1>6
  <2>2. Acknowledged' /\ StartsAgain' /\ Indexed' /\ Backed' /\ Deploying'
    BY <1>1, <1>2, <1>3, <1>6, <2>1
       DEF ConfigInv, Acknowledged, StartsAgain, Indexed, Backed, Deploying
  <2>3. StoreInv'
    BY <1>1, <1>2, <1>3, <1>6, <2>1, <2>2 DEF StoreInv, ConfigInv, ConfigTypeOK
  <2> QED
    BY <1>1, <1>4, <2>2, <2>3, InvParts DEF ConfigInv, ConfigTypeOK
<1> QED
  BY <1>5, <1>6 DEF Crash

-----------------------------------------------------------------------------
\* The theorems

LEMMA InvInitially ==
    ASSUME ConfigInit
    PROVE  ConfigInv
<1>1. PICK mode \in Modes, c \in SourceConfigs :
         /\ backing = [mode |-> mode, source |-> c, state |-> "down"]
         /\ file = IF mode = "file" THEN c ELSE Absent
         /\ deployed = c.sync \/ (mode # "file" /\ deployed = SyncHash(c))
  BY DEF ConfigInit
<1>2. /\ c \in StoredConfigs /\ OwnTokens(c.accounts) /\ c.sync \in Configs \cup {NoValue}
      /\ SyncHash(c) \in Configs
  BY SourcesAssumption, Hashed DEF StoredConfigs
<1>3. cfg = Empty /\ index = IndexesOf(Empty) /\ job = [adm \in Admins |-> Idle]
      /\ note = [acked |-> NoValue, changes |-> 0, faults |-> 0, unchecked |-> FALSE, muddled |-> FALSE]
  BY DEF ConfigInit
<1>4. /\ Empty \in StoredConfigs /\ Empty.keys = <<>> /\ Empty.apiKeys = <<>>
      /\ Empty.accounts = <<>> /\ Empty.sync = NoValue
  BY EmptyStored DEF Empty
<1>5. KeysOf(Empty) = {} /\ IdsOf(Empty.accounts) = {}
  BY <1>4 DEF KeysOf, IdsOf
<1>6. index.keys = {} /\ DOMAIN index.accounts = {}
      /\ index = [keys |-> KeysOf(Empty), accounts |-> index.accounts]
  BY <1>3, <1>5 DEF IndexesOf
<1>7. /\ cfg \in StoredConfigs /\ file \in StoredConfigs \cup {Torn, Absent}
      /\ backing \in [mode : Modes, source : SourceConfigs, state : {"up", "down", "refused"}]
      /\ job \in [Admins -> Jobs] /\ deployed \in Configs \cup {NoValue}
      /\ note \in [acked : StoredConfigs \cup {NoValue}, changes : 0..MaxChanges,
                   faults : 0..MaxFaults, unchecked : BOOLEAN, muddled : BOOLEAN]
  BY <1>1, <1>2, <1>3, <1>4, IdleJob, ConfigBoundsAssumption
<1>8. Canonical(cfg) /\ OwnTokens(cfg.accounts) /\ Indexed
  BY <1>3, <1>4, <1>6 DEF Canonical, apiKeysToStrings, DistinctKeys, OwnTokens, Indexed
<1>9. Backed /\ Acknowledged /\ StartsAgain
  BY <1>1, <1>2, <1>3, FileMarksAssumption DEF Backed, Acknowledged, StartsAgain, Up, Modes
<1>10. Deploying
  BY <1>1, <1>2, <1>3, <1>4, IdleJob, FileMarksAssumption DEF Deploying, Upserted
<1> QED
  BY <1>6, <1>7, <1>8, <1>9, <1>10 DEF ConfigInv, ConfigTypeOK

LEMMA InvStep ==
    ASSUME ConfigInv, [ConfigNext]_configVars
    PROVE  ConfigInv'
<1>1. CASE UNCHANGED configVars
  <2>1. StoreInv' /\ HashStep(cfg.sync)
    BY <1>1, StoreKept DEF configVars
  <2>2. Deploying'
    BY <1>1, <2>1, DeployingKept DEF configVars, SameDeployments
  <2> QED
    BY <1>1, <2>1, <2>2, InvParts DEF configVars, ConfigInv, ConfigTypeOK
<1> QED
  BY <1>1, LoadConfigStep, CrashStep, OneUpdateStep, LongerStep DEF ConfigNext

\* In every state: the inductive invariant.
THEOREM Invariance == ConfigSpec => []ConfigInv
  BY InvInitially, InvStep, PTL DEF ConfigSpec

\* The configuration, its indexes, the file, the jobs of the handlers and what
\* is deployed have their types.
THEOREM ConfigTypesHold == ConfigSpec => []ConfigTypeOK
<1>1. ConfigInv => ConfigTypeOK
  BY DEF ConfigInv
<1> QED
  BY <1>1, Invariance, PTL

\* The indexes are those of the configuration, and a token is stored on no
\* account but its own, whatever handlers did between login and store.
THEOREM IndexesAgree == ConfigSpec => []IndexAgrees
<1>1. ConfigInv => IndexAgrees
  <2> SUFFICES ASSUME ConfigInv PROVE IndexAgrees
    OBVIOUS
  <2>1. index.keys = KeysOf(cfg)
    BY DEF ConfigInv, Indexed
  <2> QED
    BY <2>1 DEF ConfigInv, Indexed, IndexAgrees, Canonical
<1> QED
  BY <1>1, Invariance, PTL

\* What was acknowledged as saved is in use, after restarts too.
THEOREM AcknowledgedStays == ConfigSpec => []AcknowledgedIsServed
<1>1. ConfigInv => AcknowledgedIsServed
  BY DEF ConfigInv, Acknowledged, AcknowledgedIsServed
<1> QED
  BY <1>1, Invariance, PTL

\* The server would start with the configuration it holds, as long as none was
\* stored unchecked.
THEOREM StartsAlways == ConfigSpec => []StartsAgain
<1>1. ConfigInv => StartsAgain
  BY DEF ConfigInv
<1> QED
  BY <1>1, Invariance, PTL

\* "Synced" is only shown when the configuration in use is the one deployed.
THEOREM SyncedMeansDeployed == ConfigSpec => []SyncedIsDeployed
<1>1. ConfigInv => SyncedIsDeployed
  BY DEF ConfigInv, Deploying, SyncedIsDeployed, Synced, Upserted
<1> QED
  BY <1>1, Invariance, PTL

-----------------------------------------------------------------------------
\* The names of keys

LEMMA AddKeyKeepsNames ==
    ASSUME ConfigInv, NEW k \in Keys, NEW named \in BOOLEAN, addKey(k, named)
    PROVE  NamesKept
<1> DEFINE s == cfg.apiKeys
           t == Append(s, [key |-> k, named |-> named])
           c == [cfg EXCEPT !.apiKeys = t]
<1>1. s \in Seq(KeyRecords) /\ DistinctKeys(s) /\ cfg \in StoredConfigs
      /\ cfg.keys = apiKeysToStrings(s) /\ k \notin KeysOf(cfg)
  BY Found DEF addKey, Canonical
<1>2. UpdateNoting(c, FALSE, FALSE)
  BY DEF addKey, Change, Update
<1>3. /\ t \in Seq(KeyRecords) /\ DOMAIN t = DOMAIN s \cup {Len(s) + 1} /\ Len(s) + 1 \notin DOMAIN s
      /\ t[Len(s) + 1] = [key |-> k, named |-> named]
      /\ \A i \in DOMAIN s : t[i] = s[i]
  BY <1>1 DEF KeyRecords
<1>4. \A i \in DOMAIN s : s[i].key # k
  <2>1. DOMAIN cfg.keys = DOMAIN s /\ \A i \in DOMAIN s : cfg.keys[i] = s[i].key
    BY <1>1, ToStrings
  <2> QED
    BY <1>1, <2>1 DEF KeysOf
<1> HIDE DEF t
<1>5. DistinctKeys(t)
  <2>1. t[Len(s) + 1].key = k
    BY <1>3
  <2> QED
    BY <1>1, <1>3, <1>4, <2>1 DEF DistinctKeys
<1>6. c \in StoredConfigs /\ c.keys = cfg.keys /\ c.apiKeys = t
  BY <1>1, <1>3 DEF StoredConfigs
<1> HIDE DEF c
<1>7. \A x \in Keys : IsNamed(cfg, x) => IsNamed(c, x)
  BY <1>3, <1>6 DEF IsNamed
<1> QED
  BY <1>2, <1>5, <1>6, <1>7, UpdateKeepsNames

\* A part of a list of distinct keys is one.
LEMMA DistinctPart ==
    ASSUME NEW s \in Seq(KeyRecords), DistinctKeys(s), NEW P \in SUBSET (DOMAIN s),
           NEW e, e = ElementsAt(s, P)
    PROVE  DistinctKeys(e)
<1>1. /\ e \in Seq(KeyRecords)
      /\ \A k \in DOMAIN e : \E i \in P : e[k] = s[i]
      /\ \A i \in P : \E k \in DOMAIN e : e[k] = s[i]
      /\ \A a, b \in DOMAIN e : a # b =>
            \E i, j \in P : i # j /\ e[a] = s[i] /\ e[b] = s[j]
      /\ P = DOMAIN s => e = s
  BY ElementsAtProperties
<1> SUFFICES ASSUME NEW n \in DOMAIN e, NEW m \in DOMAIN e, n # m
             PROVE  e[n].key # e[m].key
  BY DEF DistinctKeys
<1>2. PICK i \in P, j \in P : i # j /\ e[n] = s[i] /\ e[m] = s[j]
  BY <1>1
<1> QED
  BY <1>2 DEF DistinctKeys

LEMMA DeleteKeyKeepsNames ==
    ASSUME ConfigInv, NEW k \in Keys, deleteKey(k)
    PROVE  NamesKept
<1> DEFINE s == cfg.apiKeys
           P == {i \in DOMAIN s : s[i].key # k}
           t == ElementsAt(s, P)
           c == [cfg EXCEPT !.apiKeys = t]
<1>1. s \in Seq(KeyRecords) /\ DistinctKeys(s) /\ cfg \in StoredConfigs
  BY Found DEF Canonical
<1>2. UpdateNoting(c, FALSE, FALSE)
  BY DEF deleteKey, Change, Update
<1>3. P \in SUBSET (DOMAIN s) /\ \A i \in DOMAIN s : i \in P <=> s[i].key # k
  OBVIOUS
<1> HIDE DEF P
<1>4. t \in Seq(KeyRecords)
  BY <1>1, <1>3, ElementsAtProperties
<1>5. \A n \in DOMAIN t : \E i \in P : t[n] = s[i]
  BY <1>1, <1>3, ElementsAtProperties
<1>6. t = ElementsAt(s, P)
  OBVIOUS
<1> HIDE DEF t
<1>7. DistinctKeys(t)
  BY <1>1, <1>3, <1>6, DistinctPart
<1>8. c \in StoredConfigs /\ c.keys = cfg.keys /\ c.apiKeys = t
  BY <1>1, <1>4 DEF StoredConfigs
<1> HIDE DEF c
<1>9. ASSUME NEW x \in Keys, IsNamed(cfg, x), NEW n \in DOMAIN t, t[n].key = x
      PROVE  IsNamed(c, x)
  <2>1. PICK i \in P : t[n] = s[i]
    BY <1>5
  <2>2. PICK j \in DOMAIN s : s[j] = [key |-> x, named |-> TRUE]
    BY <1>9 DEF IsNamed
  <2>3. s[j].key = x /\ s[i].key = x
    BY <1>9, <2>1, <2>2
  <2>4. i = j
    BY <1>1, <1>3, <2>3 DEF DistinctKeys
  <2> QED
    BY <1>8, <2>1, <2>2, <2>4 DEF IsNamed
<1> QED
  BY <1>2, <1>7, <1>8, <1>9, UpdateKeepsNames

\* Merging keeps names, whatever is merged.
LEMMA MergeKeepsNames ==
    ASSUME ConfigInv, NEW items \in Seq(KeyRecords), NEW c \in StoredConfigs, c.keys = cfg.keys,
           c.apiKeys = mergeAPIKeysPreferStructured(cfg.apiKeys, items),
           NEW unchecked, NEW muddled, UpdateNoting(c, unchecked, muddled)
    PROVE  NamesKept
<1> DEFINE m == mergeAPIKeysPreferStructured(cfg.apiKeys, items)
<1>1. cfg.apiKeys \in Seq(KeyRecords) /\ c.apiKeys = m
  BY Found
<1>2. DistinctKeys(m)
  BY <1>1, MergedRecords
<1>3. \A k \in Keys : [key |-> k, named |-> TRUE] \in {cfg.apiKeys[i] : i \in DOMAIN cfg.apiKeys} =>
            [key |-> k, named |-> TRUE] \in {m[i] : i \in DOMAIN m}
  BY <1>1, MergedRecords
<1> HIDE DEF m
<1>4. /\ DistinctKeys(c.apiKeys)
      /\ \A k \in Keys : [key |-> k, named |-> TRUE] \in {cfg.apiKeys[i] : i \in DOMAIN cfg.apiKeys} =>
            [key |-> k, named |-> TRUE] \in {c.apiKeys[i] : i \in DOMAIN c.apiKeys}
  BY <1>1, <1>2, <1>3
<1>5. \A k \in Keys : IsNamed(cfg, k) => IsNamed(c, k)
  BY <1>4 DEF IsNamed
<1> QED
  BY <1>4, <1>5, UpdateKeepsNames

\* The records are rewritten, or the names are kept.
NamesStep == NamesKept \/ RewritesRecords

LEMMA ImportKeepsNames ==
    ASSUME ConfigInv, NEW raw \in ImportConfigs, configImport(raw)
    PROVE  NamesStep
<1> DEFINE incoming == ClearAccountTokens(NormalizeCredentials(raw))
<1>1. /\ incoming \in StoredConfigs /\ OwnTokens(incoming.accounts) /\ Canonical(incoming)
      /\ incoming.apiKeys = NormalizeCredentials(raw).apiKeys
  BY Incoming
<1>2. PICK c \in {MergedConfig(cfg, incoming), ReplacedConfig(cfg, incoming)} :
         ValidateConfig(c) /\ Change(c)
  BY DEF configImport
<1> HIDE DEF incoming
<1>3. UpdateNoting(c, FALSE, FALSE)
  BY <1>2 DEF Change, Update
<1>4. incoming.apiKeys \in Seq(KeyRecords)
  BY <1>1 DEF StoredConfigs
<1>5. CASE c = MergedConfig(cfg, incoming)
  <2>1. c \in StoredConfigs
    BY <1>1, <1>5, MergedConfigs
  <2>2. c.keys = cfg.keys
    BY <1>1, <1>5, MergedConfigs
  <2>3. c.apiKeys = mergeAPIKeysPreferStructured(cfg.apiKeys, incoming.apiKeys)
    BY <1>1, <1>5, MergedConfigs
  <2> QED
    BY <1>3, <1>4, <2>1, <2>2, <2>3, MergeKeepsNames DEF NamesStep
<1>6. CASE c = ReplacedConfig(cfg, incoming)
  <2>1. c \in StoredConfigs /\ Canonical(c) /\ c.apiKeys = incoming.apiKeys
    BY <1>1, <1>6, ReplacedConfigs
  <2>2. cfg'.apiKeys = normalizeAPIKeys(c.apiKeys)
    BY <1>3, <2>1, Found, UpdatedCredentials DEF UpdateNoting
  <2>3. normalizeAPIKeys(c.apiKeys) = c.apiKeys
    BY <1>4, <2>1, NormalizedItems DEF Canonical
  <2> QED
    BY <1>1, <2>1, <2>2, <2>3 DEF NamesStep, RewritesRecords
<1> QED
  BY <1>2, <1>5, <1>6

LEMMA BatchImportKeepsNames ==
    ASSUME ConfigInv, NEW items \in RecordLists, NEW accounts \in AccountLists,
           batchImport(items, accounts)
    PROVE  NamesKept
<1> DEFINE keys == mergeAPIKeysPreferStructured(cfg.apiKeys, items)
           accs == mergeAccounts(cfg.accounts, accounts)
           c == [cfg EXCEPT !.apiKeys = keys, !.accounts = accs]
<1>1. items \in Seq(KeyRecords) /\ accounts \in Seq(Accounts) /\ OwnTokens(accounts)
  BY RequestsAssumption DEF OwnTokens
<1>2. keys \in Seq(KeyRecords)
  BY <1>1, Found, MergedRecords
<1>3. accs \in Seq(Accounts)
  BY <1>1, Found, MergedAccounts
<1>4. UpdateNoting(c, ~ValidateConfig(c), FALSE)
  BY DEF batchImport
<1>5. keys = mergeAPIKeysPreferStructured(cfg.apiKeys, items)
  OBVIOUS
<1> HIDE DEF keys, accs
<1>6. c \in StoredConfigs /\ c.keys = cfg.keys /\ c.apiKeys = keys
  BY <1>2, <1>3, Found DEF StoredConfigs
<1> HIDE DEF c
<1> QED
  BY <1>1, <1>4, <1>5, <1>6, MergeKeepsNames

LEMMA UpdateConfigKeepsNames ==
    ASSUME ConfigInv, NEW adm \in Admins, updateConfig(adm)
    PROVE  NamesStep
<1>1. job[adm].at = "update" /\ job[adm].old \in Seq(Accounts)
  BY JobTypes DEF updateConfig
<1>2. PICK accounts \in {cfg.accounts} \cup
               {WithOldPasswords(normalizeAndDedupeAccounts(a), job[adm].old) : a \in AccountLists},
           base \in {cfg} \cup {[cfg EXCEPT !.apiKeys = items] : items \in RecordLists}
                    \cup {[cfg EXCEPT !.keys = keys] : keys \in KeyLists} :
         UpdateNoting([base EXCEPT !.accounts = accounts],
                      ~ValidateConfig([base EXCEPT !.accounts = accounts]), FALSE)
  BY DEF updateConfig
<1>3. accounts \in Seq(Accounts)
  BY <1>1, <1>2, SentAccounts
<1>4. base \in StoredConfigs
  BY <1>2, Found, RequestsAssumption DEF StoredConfigs
<1> DEFINE c == [base EXCEPT !.accounts = accounts]
<1>5. c \in StoredConfigs /\ c.keys = base.keys /\ c.apiKeys = base.apiKeys
  BY <1>3, <1>4 DEF StoredConfigs
<1>6. UpdateNoting(c, ~ValidateConfig(c), FALSE)
  BY <1>2
<1> HIDE DEF c
<1>7. CASE base.apiKeys = cfg.apiKeys
  BY <1>5, <1>6, <1>7, UpdateKeepsNames DEF NamesStep
<1>8. ASSUME NEW items \in RecordLists, base = [cfg EXCEPT !.apiKeys = items]
      PROVE  NamesStep
  <2>1. c.keys = cfg.keys /\ c.apiKeys = items
    BY <1>5, <1>8, Found DEF StoredConfigs
  <2>2. cfg'.apiKeys = normalizeAPIKeys(items)
    BY <1>5, <1>6, <2>1, Found, UpdatedCredentials DEF UpdateNoting
  <2> QED
    BY <1>1, <1>8, <2>2 DEF NamesStep, RewritesRecords
<1>9. ASSUME NEW keys \in KeyLists, base = [cfg EXCEPT !.keys = keys]
      PROVE  base.apiKeys = cfg.apiKeys
  BY <1>9, Found DEF StoredConfigs
<1> QED
  BY <1>2, <1>7, <1>8, <1>9

LEMMA UpdateSettingsKeepsNames ==
    ASSUME ConfigInv, NEW adm \in Admins, updateSettings(adm)
    PROVE  NamesKept
<1> DEFINE wanted == [Empty EXCEPT !.perAccount = job[adm].perAccount, !.global = job[adm].global]
           c == MergedConfig(cfg, wanted)
<1>1. /\ job[adm].at = "settings" /\ job[adm].perAccount \in Limits /\ job[adm].global \in Limits
  BY JobTypes DEF updateSettings
<1>2. wanted \in StoredConfigs /\ wanted.accounts = <<>>
  <2>1. Empty \in StoredConfigs /\ Empty.accounts = <<>>
    BY EmptyStored
  <2> QED
    BY <1>1, <2>1 DEF StoredConfigs
<1>3. UpdateNoting(c, ~ValidRuntime(c), FALSE)
  BY DEF updateSettings
<1> HIDE DEF wanted
<1>4. OwnTokens(wanted.accounts) /\ wanted.apiKeys \in Seq(KeyRecords)
  BY <1>2 DEF OwnTokens, StoredConfigs
<1>5. c \in StoredConfigs
  BY <1>2, <1>4, MergedConfigs
<1>6. c.keys = cfg.keys
  BY <1>2, <1>4, MergedConfigs
<1>7. c.apiKeys = mergeAPIKeysPreferStructured(cfg.apiKeys, wanted.apiKeys)
  BY <1>2, <1>4, MergedConfigs
<1> HIDE DEF c
<1> QED
  BY <1>3, <1>4, <1>5, <1>6, <1>7, MergeKeepsNames

LEMMA SetVercelSyncKeepsNames ==
    ASSUME ConfigInv, NEW adm \in Admins, SetVercelSync(adm)
    PROVE  NamesKept
<1> DEFINE c == [cfg EXCEPT !.sync = job[adm].config]
<1>1. job[adm].config \in Configs
  BY JobTypes DEF SetVercelSync
<1>2. c \in StoredConfigs /\ c.apiKeys = cfg.apiKeys
  BY <1>1, Found DEF StoredConfigs
<1>3. UpdateNoting(c, FALSE, TRUE)
  BY DEF SetVercelSync
<1> HIDE DEF c
<1> QED
  BY <1>2, <1>3, UpdateKeepsNames

\* Steps that leave the keys alone.
LEMMA SameKeysKeepNames ==
    ASSUME cfg'.apiKeys = cfg.apiKeys
    PROVE  NamesStep
  BY DEF NamesStep, NamesKept, IsNamed

LEMMA TokenKeepsNames ==
    ASSUME ConfigInv, NEW id, NEW token, UpdateAccountToken(id, token)
    PROVE  NamesStep
<1>1. cfg' = [cfg EXCEPT !.accounts = [cfg.accounts EXCEPT ![findAccountIndexLocked(id)].token = token]]
  BY DEF UpdateAccountToken
<1>2. cfg'.apiKeys = cfg.apiKeys
  BY <1>1, Found DEF StoredConfigs
<1> QED
  BY <1>2, SameKeysKeepNames

LEMMA NamesStepHolds ==
    ASSUME ConfigInv, [ConfigNext]_configVars
    PROVE  NamesStep
<1>1. CASE UNCHANGED configVars
  BY <1>1, SameKeysKeepNames DEF configVars
<1>2. CASE loadConfig
  BY <1>2 DEF NamesStep, RewritesRecords
<1>3. CASE Crash
  BY <1>3, SameKeysKeepNames DEF Crash
<1>4. CASE Up /\ OneUpdate
  <2>1. ASSUME NEW k \in Keys, NEW named \in BOOLEAN, updateKey(k, named)
        PROVE  NamesStep
    BY <2>1 DEF NamesStep, RewritesRecords
  <2>2. ASSUME NEW id \in AccountIds, requestToken(id)
        PROVE  NamesStep
    BY <2>2, TokenKeepsNames DEF requestToken
  <2> QED
    BY <1>4, <2>1, <2>2, AddKeyKeepsNames, DeleteKeyKeepsNames, BatchImportKeepsNames,
       ImportKeepsNames, AddAccountStep, UpdateAccountStep, DeleteAccountStep, AddProxyStep,
       UpdateProxyStep, DeleteProxyStep, UpdateAccountProxyStep
    DEF OneUpdate, NamesStep
<1>5. ASSUME NEW adm \in Admins, Up, Longer(adm)
      PROVE  NamesStep
  <2>1. CASE updateConfig(adm)
    BY <2>1, UpdateConfigKeepsNames
  <2>2. CASE updateSettings(adm) \/ SetVercelSync(adm)
    BY <2>2, UpdateSettingsKeepsNames, SetVercelSyncKeepsNames DEF NamesStep
  <2>3. CASE testAccountLogin(adm)
    BY <2>3, TokenKeepsNames DEF testAccountLogin
  <2>4. ASSUME NEW id \in AccountIds, validateAccountsForVercelSync(adm, id)
        PROVE  NamesStep
    BY <2>4, TokenKeepsNames, SameKeysKeepNames DEF validateAccountsForVercelSync
  <2>5. CASE cfg' = cfg
    BY <2>5, SameKeysKeepNames
  <2> QED
    BY <1>5, <2>1, <2>2, <2>3, <2>4, <2>5
    DEF Longer, testAccount, syncVercel, updateConfigBegins, updateSettingsBegins, testAccountBegins, testAccountEnds,
        syncVercelBegins, exportSyncConfig, upsertVercelEnv
<1> QED
  BY <1>1, <1>2, <1>3, <1>4, <1>5 DEF ConfigNext

\* The names and remarks of keys survive all that does not rewrite the records.
THEOREM NamesSurvive == ConfigSpec => MetadataKept
<1>1. ConfigInv /\ [ConfigNext]_configVars =>
         [\A k \in Keys : IsNamed(cfg, k) /\ k \in KeysOf(cfg') =>
             IsNamed(cfg', k) \/ RewritesRecords]_configVars
  BY NamesStepHolds DEF NamesStep, NamesKept
<1> QED
  BY <1>1, Invariance, PTL DEF ConfigSpec, MetadataKept
===============================================================================
