-------------------------- MODULE RequestLeaseProofs --------------------------
(***************************************************************************)
(* Proofs about RequestLease, for every set of accounts and requests, every *)
(* limit and every bound of the retry loops.                               *)
(***************************************************************************)
EXTENDS RequestLease, PoolCoreProofs

\* A request that occupies a slot is not between two accounts.
Occupying == {"ensure", "call", "reensure", "closing"}

\* Where the handler may release the account it knows, it knows one.
Engaged == {"ensure", "call", "pick", "reensure", "closing"}

\* LeaseConsistent with what makes it inductive.
LeaseInv ==
    \A r \in Requests :
        /\ pc[r] \in Engaged => auth[r].account \in Accounts
        /\ owns[r] # NoAccount =>
              /\ pc[r] \in Occupying
              /\ auth[r].account = owns[r]
              /\ owns[r] \notin auth[r].tried
              /\ pc[r] \in {"call", "closing"} => auth[r].token = owns[r]

IInv == TypeOK /\ LeaseInv /\ NoSlotLeak

Auths == [account : Accounts \cup {NoAccount}, token : Accounts \cup {NoAccount},
          tried : SUBSET Accounts]
Loops == [stage : Stages, attempts : 0..(MaxAttempts - 1), refreshed : BOOLEAN]

-----------------------------------------------------------------------------
\* Types of the steps the actions share

LEMMA FreshType == \A s \in Stages : Fresh(s) \in Loops
  BY BoundsAssumption DEF Fresh, Loops

LEMMA AttemptOverType ==
    ASSUME TypeOK, NEW r \in Requests, AttemptOver(r)
    PROVE  /\ loop' \in [Requests -> Loops]
           /\ pc' = [pc EXCEPT ![r] = "call"] \/ pc' = [pc EXCEPT ![r] = "closing"]
           /\ pc' \in [Requests -> Phases]
  <1>. loop \in [Requests -> Loops] /\ loop[r] \in Loops
    BY DEF TypeOK, Loops
  <1>1. Fresh(RetryCompletion) \in Loops
    BY FreshType DEF Stages, RetryCompletion, Session
  <1>2. ASSUME loop[r].attempts + 1 < MaxAttempts
        PROVE  [loop[r] EXCEPT !.attempts = @ + 1] \in Loops
    BY <1>2, BoundsAssumption DEF Loops
  <1>3. loop' \in [Requests -> Loops]
    BY <1>1, <1>2 DEF AttemptOver
  <1>4. pc' = [pc EXCEPT ![r] = "call"] \/ pc' = [pc EXCEPT ![r] = "closing"]
    BY DEF AttemptOver
  <1>. QED BY <1>3, <1>4 DEF TypeOK, Phases

\* The pool hands out an account the request has not tried, and counts it.
LEMMA ObtainEffect ==
    ASSUME TypeOK, NEW r \in Requests, NEW wanted \in Accounts \cup {NoAccount},
           NEW a \in Accounts, Obtain(r, wanted, a)
    PROVE  /\ a \notin auth[r].tried
           /\ inUse' = [inUse EXCEPT ![a] = @ + 1]
           /\ inUse' \in [Accounts -> Nat]
           /\ queue' \in Seq(Accounts)
           /\ auth' \in [Requests -> Auths]
  <1>1. /\ Usable(a, auth[r].tried)
        /\ inUse' = [inUse EXCEPT ![a] = @ + 1]
        /\ inUse' \in [Accounts -> Nat]
        /\ queue' \in Seq(Accounts)
    BY AcquireEffect DEF Obtain, TypeOK
  <1>2. auth \in [Requests -> Auths]
    BY DEF TypeOK, Auths
  <1>3. auth' \in [Requests -> Auths]
    BY <1>2 DEF Obtain, Auths
  <1>. QED BY <1>1, <1>3 DEF Usable

\* Putting an account aside releases it and keeps the account identifier.
LEMMA TryNoMoreEffect ==
    ASSUME TypeOK, NEW r \in Requests, auth[r].account \in Accounts, TryNoMore(r)
    PROVE  /\ inUse' \in [Accounts -> Nat]
           /\ queue' = queue
           /\ auth' \in [Requests -> Auths]
           /\ auth'[r].account = auth[r].account
           /\ \A q \in Requests \ {r} : auth'[q] = auth[q]
           /\ owns' = [owns EXCEPT ![r] = NoAccount]
  <1>1. inUse' \in [Accounts -> Nat] /\ queue' = queue
    BY ReleaseEffect DEF TryNoMore, TypeOK
  <1>2. PICK t \in {auth[r].token, auth[r].account} :
            auth' = [auth EXCEPT ![r].token = t, ![r].tried = @ \cup {auth[r].account}]
    BY DEF TryNoMore
  <1>3. auth \in [Requests -> Auths]
    BY DEF TypeOK, Auths
  <1>4. auth' \in [Requests -> Auths] /\ auth'[r].account = auth[r].account
    BY <1>2, <1>3 DEF Auths
  <1>5. \A q \in Requests \ {r} : auth'[q] = auth[q]
    BY <1>2, <1>3
  <1>. QED BY <1>1, <1>4, <1>5 DEF TryNoMore

-----------------------------------------------------------------------------
\* Owners and the ledger

LEMMA OwnersFinite ==
    ASSUME NEW a PROVE IsFiniteSet(Owners(a)) /\ Cardinality(Owners(a)) \in Nat
  BY FS_Subset, FS_CardinalityType, RequestsAssumption DEF Owners

\* A step that keeps the counts and the slots keeps NoSlotLeak.
LEMMA SameSlots ==
    ASSUME NoSlotLeak, UNCHANGED <<inUse, owns>> PROVE NoSlotLeak'
  BY DEF NoSlotLeak, Owners

\* A slot counted by the pool and given to a request that had none.
LEMMA ObtainSlot ==
    ASSUME TypeOK, NoSlotLeak, NEW r \in Requests, NEW a \in Accounts,
           owns[r] = NoAccount, owns' = [owns EXCEPT ![r] = a],
           inUse' = [inUse EXCEPT ![a] = @ + 1]
    PROVE  NoSlotLeak'
  <1>. SUFFICES ASSUME NEW c \in Accounts PROVE inUse'[c] <= Cardinality(Owners(c)')
    BY DEF NoSlotLeak
  <1>. inUse[c] <= Cardinality(Owners(c)) /\ inUse \in [Accounts -> Nat]
    BY DEF NoSlotLeak, TypeOK, LedgerTypeOK
  <1>1. CASE c = a
    <2>1. Owners(a)' = Owners(a) \cup {r} /\ r \notin Owners(a)
      BY AccountsAssumption DEF Owners, TypeOK
    <2>2. Cardinality(Owners(a) \cup {r}) = Cardinality(Owners(a)) + 1
      BY <2>1, OwnersFinite, FS_AddElement
    <2>. QED BY <1>1, <2>1, <2>2, OwnersFinite
  <1>2. CASE c # a
    <2>1. Owners(c)' = Owners(c)
      BY <1>2, AccountsAssumption DEF Owners, TypeOK
    <2>. QED BY <1>2, <2>1
  <1>. QED BY <1>1, <1>2

\* A release of the account a request knows, whether or not the request still
\* occupies a slot of it.
LEMMA ReleaseKnown ==
    ASSUME TypeOK, NoSlotLeak, NEW r \in Requests, NEW a \in Accounts,
           owns[r] \in {a, NoAccount}, owns' = [owns EXCEPT ![r] = NoAccount],
           releaseSlot(a)
    PROVE  NoSlotLeak'
  <1>. SUFFICES ASSUME NEW c \in Accounts PROVE inUse'[c] <= Cardinality(Owners(c)')
    BY DEF NoSlotLeak
  <1>. /\ inUse[c] <= Cardinality(Owners(c))
       /\ inUse[c] \in Nat
       /\ Cardinality(Owners(c)) \in Nat
       /\ IsFiniteSet(Owners(c))
    BY OwnersFinite DEF NoSlotLeak, TypeOK, LedgerTypeOK
  <1>1. /\ inUse'[a] = IF inUse[a] > 0 THEN inUse[a] - 1 ELSE 0
        /\ \A b \in Accounts \ {a} : inUse'[b] = inUse[b]
    BY ReleaseEffect DEF TypeOK
  <1>2. CASE c = a /\ owns[r] = a
    <2>1. Owners(a)' = Owners(a) \ {r} /\ r \in Owners(a)
      BY <1>2, AccountsAssumption DEF Owners, TypeOK
    <2>2. Cardinality(Owners(a) \ {r}) = Cardinality(Owners(a)) - 1
      BY <1>2, <2>1, FS_RemoveElement
    <2>3. Cardinality(Owners(a)) > 0
      BY <1>2, <2>1, FS_EmptySet
    <2>. QED BY <1>1, <1>2, <2>1, <2>2, <2>3
  <1>3. CASE c # a \/ owns[r] # a
    <2>1. Owners(c)' = Owners(c)
      BY <1>3, AccountsAssumption DEF Owners, TypeOK
    <2>. QED BY <1>1, <2>1
  <1>. QED BY <1>2, <1>3

-----------------------------------------------------------------------------
\* The invariant

LEMMA InitInv == Init => IInv
  <1>. SUFFICES ASSUME Init PROVE IInv
    OBVIOUS
  <1>1. queue \in Seq(Accounts)
    BY ListType DEF Init
  <1>2. globalMaxInflight \in Nat
    BY AccountsAssumption, FS_CardinalityType, BoundsAssumption DEF Init
  <1>3. LedgerTypeOK
    BY <1>1, <1>2, BoundsAssumption DEF Init, LedgerTypeOK
  <1>4. Fresh(Session) \in Loops
    BY FreshType DEF Stages, RetryCompletion, Session
  <1>5. NoAuth \in Auths
    BY DEF NoAuth, Auths
  <1>6. TypeOK
    BY <1>3, <1>4, <1>5, TargetsAssumption DEF Init, TypeOK, Phases, Auths, Loops
  <1>7. LeaseInv
    BY DEF Init, LeaseInv, Engaged
  <1>8. NoSlotLeak
    BY OwnersFinite DEF Init, NoSlotLeak
  <1>. QED BY <1>6, <1>7, <1>8 DEF IInv

\* One step of a request.  The other requests keep all their state, so for
\* LeaseInv only the request that moves has to be looked at.
LEMMA StepInv == ASSUME IInv, NEW r \in Requests, Step(r) PROVE IInv'
  <1>. /\ TypeOK /\ LeaseInv /\ NoSlotLeak
       /\ auth \in [Requests -> Auths] /\ loop \in [Requests -> Loops]
       /\ pc \in [Requests -> Phases] /\ owns \in [Requests -> Accounts \cup {NoAccount}]
       /\ target \in [Requests -> Accounts \cup {NoAccount}]
       /\ LedgerTypeOK
    BY DEF IInv, TypeOK, Auths, Loops
  <1>. DEFINE LeaseInvOf(q) ==
          /\ pc[q] \in Engaged => auth[q].account \in Accounts
          /\ owns[q] # NoAccount =>
                /\ pc[q] \in Occupying
                /\ auth[q].account = owns[q]
                /\ owns[q] \notin auth[q].tried
                /\ pc[q] \in {"call", "closing"} => auth[q].token = owns[q]
  <1>. LeaseInvOf(r)
    BY DEF LeaseInv
  <1>0. ASSUME auth' \in [Requests -> Auths], loop' \in [Requests -> Loops],
               pc' \in [Requests -> Phases], owns' \in [Requests -> Accounts \cup {NoAccount}],
               target' = target, limits' = limits,
               queue' \in Seq(Accounts), inUse' \in [Accounts -> Nat]
        PROVE  TypeOK'
    BY <1>0 DEF TypeOK, LedgerTypeOK, limits, Auths, Loops
  <1>00. ASSUME LeaseInvOf(r)',
                \A q \in Requests \ {r} : pc'[q] = pc[q] /\ auth'[q] = auth[q] /\ owns'[q] = owns[q]
         PROVE  LeaseInv'
    BY <1>00 DEF LeaseInv
  <1>1. CASE Acquire(r) \/ PickAccount(r)
    <2>1. PICK wanted \in Accounts \cup {NoAccount}, a \in Accounts : Obtain(r, wanted, a)
      BY <1>1 DEF Acquire, PickAccount
    <2>2. owns[r] = NoAccount
      BY <1>1 DEF Acquire, PickAccount, Goto, Occupying
    <2>3. /\ a \notin auth[r].tried
          /\ inUse' = [inUse EXCEPT ![a] = @ + 1]
          /\ inUse' \in [Accounts -> Nat]
          /\ queue' \in Seq(Accounts)
          /\ auth' \in [Requests -> Auths]
      BY <2>1, ObtainEffect
    <2>. auth' = [auth EXCEPT ![r].account = a] /\ owns' = [owns EXCEPT ![r] = a]
      BY <2>1 DEF Obtain
    <2>4. /\ pc' = [pc EXCEPT ![r] = "ensure"] \/ pc' = [pc EXCEPT ![r] = "reensure"]
          /\ limits' = limits /\ target' = target /\ loop' = loop
      BY <1>1 DEF Acquire, PickAccount, Goto
    <2>5. TypeOK'
      BY <1>0, <2>3, <2>4 DEF Phases
    <2>6. auth'[r].account = a /\ auth'[r].tried = auth[r].tried
      BY <2>3 DEF Auths
    <2>7. LeaseInvOf(r)'
      BY <2>3, <2>4, <2>6, AccountsAssumption DEF Engaged, Occupying
    <2>8. NoSlotLeak'
      BY <2>2, <2>3, ObtainSlot
    <2>. QED BY <1>00, <2>3, <2>4, <2>5, <2>7, <2>8 DEF IInv
  <1>2. CASE Refuse(r)
    <2>1. TypeOK'
      BY <1>2, <1>0 DEF Refuse, Goto, Phases, LedgerTypeOK, ledger
    <2>2. owns[r] = NoAccount
      BY <1>2 DEF Refuse, Goto, Occupying
    <2>3. LeaseInvOf(r)'
      BY <1>2, <2>2 DEF Refuse, Goto, Engaged
    <2>. QED BY <1>2, <1>00, <2>1, <2>3, SameSlots DEF IInv, Refuse, Goto, ledger
  <1>3. CASE TokenReady(r)
    <2>1. auth' \in [Requests -> Auths]
      BY <1>3 DEF TokenReady, Auths
    <2>2. TypeOK'
      BY <1>3, <1>0, <2>1 DEF TokenReady, Goto, Phases, LedgerTypeOK, ledger
    <2>3. LeaseInvOf(r)'
      BY <1>3 DEF TokenReady, Goto, Engaged, Occupying, Auths
    <2>. QED BY <1>3, <1>00, <2>2, <2>3, SameSlots DEF IInv, TokenReady, Goto, ledger
  <1>4. CASE LoginFailed(r)
    <2>1. auth[r].account \in Accounts /\ owns[r] \in {auth[r].account, NoAccount}
      BY <1>4 DEF LoginFailed, Goto, Engaged
    <2>2. inUse' \in [Accounts -> Nat] /\ queue' = queue
      BY <1>4, <2>1, ReleaseEffect DEF LoginFailed
    <2>3. [NoAuth EXCEPT !.tried = auth[r].tried \cup {auth[r].account}] \in Auths
      BY <2>1 DEF NoAuth, Auths
    <2>4. auth' \in [Requests -> Auths]
      BY <1>4, <2>3 DEF LoginFailed
    <2>5. pc' = [pc EXCEPT ![r] = "acquire"] \/ pc' = [pc EXCEPT ![r] = "refused"]
      BY <1>4 DEF LoginFailed, Goto
    <2>6. TypeOK'
      BY <1>4, <1>0, <2>2, <2>4, <2>5 DEF LoginFailed, Phases, LedgerTypeOK
    <2>7. LeaseInvOf(r)'
      BY <1>4, <2>5 DEF LoginFailed, Engaged
    <2>8. NoSlotLeak'
      BY <1>4, <2>1, ReleaseKnown DEF LoginFailed
    <2>. QED BY <1>4, <1>00, <2>5, <2>6, <2>7, <2>8 DEF IInv, LoginFailed
  <1>5. CASE Succeed(r)
    <2>1. ASSUME loop[r].stage # RetryCompletion
          PROVE  Fresh(loop[r].stage + 1) \in Loops
      BY <2>1, FreshType DEF Loops, Stages, RetryCompletion, Session
    <2>2. loop' \in [Requests -> Loops]
      BY <1>5, <2>1 DEF Succeed
    <2>3. pc' = pc \/ pc' = [pc EXCEPT ![r] = "closing"]
      BY <1>5 DEF Succeed
    <2>4. TypeOK'
      BY <1>5, <1>0, <2>2, <2>3 DEF Succeed, Phases, LedgerTypeOK, ledger
    <2>5. LeaseInvOf(r)'
      BY <1>5, <2>3 DEF Succeed, Engaged, Occupying
    <2>. QED BY <1>5, <1>00, <2>3, <2>4, <2>5, SameSlots DEF IInv, Succeed, ledger
  <1>6. CASE Fail(r)
    <2>1. TypeOK'
      BY <1>6, <1>0, AttemptOverType DEF Fail, LedgerTypeOK, ledger
    <2>2. LeaseInvOf(r)'
      BY <1>6, AttemptOverType DEF Fail, Engaged, Occupying
    <2>. QED BY <1>6, <1>00, <2>1, <2>2, AttemptOverType, SameSlots DEF IInv, Fail, ledger
  <1>7. CASE RefreshToken(r)
    <2>1. auth' \in [Requests -> Auths] /\ loop' \in [Requests -> Loops]
      BY <1>7 DEF RefreshToken, Auths, Loops
    <2>2. TypeOK'
      BY <1>7, <1>0, <2>1 DEF RefreshToken, LedgerTypeOK, ledger
    <2>3. LeaseInvOf(r)'
      BY <1>7 DEF RefreshToken, Engaged, Occupying, Auths
    <2>. QED BY <1>7, <1>00, <2>2, <2>3, SameSlots DEF IInv, RefreshToken, ledger
  <1>8. CASE SwitchAccount(r) \/ SwitchFailed(r)
    <2>1. auth[r].account \in Accounts /\ owns[r] \in {auth[r].account, NoAccount}
      BY <1>8 DEF SwitchAccount, SwitchFailed, Goto, Engaged
    <2>2. TryNoMore(r) /\ pc' = [pc EXCEPT ![r] = "pick"]
      BY <1>8 DEF SwitchAccount, SwitchFailed, Goto
    <2>3. /\ inUse' \in [Accounts -> Nat]
          /\ queue' = queue
          /\ auth' \in [Requests -> Auths]
          /\ auth'[r].account = auth[r].account
          /\ \A q \in Requests \ {r} : auth'[q] = auth[q]
          /\ owns' = [owns EXCEPT ![r] = NoAccount]
      BY <2>1, <2>2, TryNoMoreEffect
    <2>4. limits' = limits /\ target' = target /\ loop' = loop
      BY <1>8 DEF SwitchAccount, SwitchFailed
    <2>5. TypeOK'
      BY <1>0, <2>2, <2>3, <2>4 DEF Phases, LedgerTypeOK
    <2>6. LeaseInvOf(r)'
      BY <2>1, <2>2, <2>3
    <2>7. NoSlotLeak'
      BY <2>1, <2>2, ReleaseKnown DEF TryNoMore
    <2>. QED BY <1>00, <2>2, <2>3, <2>5, <2>6, <2>7 DEF IInv
  <1>9. CASE NoOtherAccount(r)
    <2>1. TypeOK'
      BY <1>9, <1>0, AttemptOverType DEF NoOtherAccount, LedgerTypeOK, ledger
    <2>2. owns[r] = NoAccount /\ auth[r].account \in Accounts
      BY <1>9 DEF NoOtherAccount, Occupying, Engaged
    <2>3. LeaseInvOf(r)'
      BY <1>9, <2>2 DEF NoOtherAccount
    <2>. QED BY <1>9, <1>00, <2>1, <2>3, AttemptOverType, SameSlots DEF IInv, NoOtherAccount, ledger
  <1>10. CASE Switched(r)
    <2>1. auth' \in [Requests -> Auths]
      BY <1>10 DEF Switched, Auths
    <2>2. ASSUME loop[r].attempts + 1 < MaxAttempts
          PROVE  [loop[r] EXCEPT !.attempts = @ + 1, !.refreshed = FALSE] \in Loops
      <3>1. loop[r].attempts + 1 \in 0..(MaxAttempts - 1)
        BY <2>2, BoundsAssumption DEF Loops
      <3>. QED BY <3>1 DEF Loops
    <2>3. /\ loop' \in [Requests -> Loops]
          /\ pc' = [pc EXCEPT ![r] = "call"] \/ pc' = [pc EXCEPT ![r] = "closing"]
      <3>1. CASE loop[r].attempts + 1 < MaxAttempts
        BY <1>10, <3>1, <2>2 DEF Switched
      <3>2. CASE ~(loop[r].attempts + 1 < MaxAttempts)
        BY <1>10, <3>2, AttemptOverType DEF Switched
      <3>. QED BY <3>1, <3>2
    <2>4. TypeOK'
      BY <1>10, <1>0, <2>1, <2>3 DEF Switched, Phases, LedgerTypeOK, ledger
    <2>5. /\ auth'[r].account = auth[r].account
          /\ auth'[r].tried = auth[r].tried
          /\ auth'[r].token = auth[r].account
      BY <1>10 DEF Switched, Auths
    <2>6. LeaseInvOf(r)'
      BY <1>10, <2>3, <2>5 DEF Switched, Engaged, Occupying
    <2>. QED BY <1>10, <1>00, <2>3, <2>4, <2>6, SameSlots DEF IInv, Switched, ledger
  <1>11. CASE Release(r)
    <2>1. auth[r].account \in Accounts /\ owns[r] \in {auth[r].account, NoAccount}
      BY <1>11 DEF Release, Goto, Engaged
    <2>2. inUse' \in [Accounts -> Nat] /\ queue' = queue
      BY <1>11, <2>1, ReleaseEffect DEF Release
    <2>3. TypeOK'
      BY <1>11, <1>0, <2>2 DEF Release, Goto, Phases, LedgerTypeOK
    <2>4. LeaseInvOf(r)'
      BY <1>11 DEF Release, Goto, Engaged
    <2>5. NoSlotLeak'
      BY <1>11, <2>1, ReleaseKnown DEF Release
    <2>. QED BY <1>11, <1>00, <2>3, <2>4, <2>5 DEF IInv, Release, Goto
  <1>. QED
    BY <1>1, <1>2, <1>3, <1>4, <1>5, <1>6, <1>7, <1>8, <1>9, <1>10, <1>11 DEF Step

LEMMA NextInv == IInv /\ [Next]_vars => IInv'
  <1>. SUFFICES ASSUME IInv, [Next]_vars PROVE IInv'
    OBVIOUS
  <1>1. CASE UNCHANGED vars
    BY <1>1 DEF IInv, TypeOK, LedgerTypeOK, LeaseInv, NoSlotLeak, Owners, vars, limits, ledger
  <1>. QED BY <1>1, StepInv DEF Next, Terminated

LEMMA Invariance == Spec => []IInv
  BY InitInv, NextInv, PTL DEF Spec

\* Every reachable state is well formed: the retry loops stay within their
\* bound and every account identifier is one of the configuration's.
THEOREM TypeCorrect == Spec => []TypeOK
  BY Invariance, PTL DEF IInv

\* On every path through login failures, refreshes, switches and retries each
\* slot taken from the pool is given back.
THEOREM NoSlotLeakSafe == Spec => []NoSlotLeak
  BY Invariance, PTL DEF IInv

\* A request that occupies a slot calls DeepSeek with the token of the account
\* it occupies, will release that account, and has not failed with it before.
THEOREM LeaseConsistentSafe == Spec => []LeaseConsistent
  <1>1. LeaseInv => LeaseConsistent
    BY DEF LeaseInv, LeaseConsistent
  <1>. QED BY <1>1, Invariance, PTL DEF IInv

-----------------------------------------------------------------------------
\* The loops wind down

\* The account a login is tried for was not tried before.
ChosenUntried == \A r \in Requests : pc[r] \in {"ensure", "reensure"} => auth[r].account \notin auth[r].tried

\* What one request does leaves the others where they are.
LEMMA StepApart ==
    ASSUME IInv, NEW r \in Requests, Step(r)
    PROVE  \A q \in Requests \ {r} : pc'[q] = pc[q] /\ auth'[q] = auth[q] /\ loop'[q] = loop[q]
  BY DEF Step, Acquire, Refuse, TokenReady, LoginFailed, Succeed, Fail, RefreshToken, SwitchAccount, PickAccount,
         NoOtherAccount, Switched, SwitchFailed, Release, AttemptOver, TryNoMore, Obtain, Goto, IInv, TypeOK

LEMMA StepChosen == ASSUME IInv, ChosenUntried, NEW r \in Requests, Step(r) PROVE ChosenUntried'
  <1>. /\ TypeOK /\ auth \in [Requests -> Auths] /\ loop \in [Requests -> Loops] /\ pc \in [Requests -> Phases]
       /\ target[r] \in Accounts \cup {NoAccount}
    BY DEF IInv, TypeOK, Auths, Loops
  <1>1. CASE Acquire(r) \/ PickAccount(r)
    <2>1. PICK wanted \in Accounts \cup {NoAccount}, a \in Accounts : Obtain(r, wanted, a)
      BY <1>1 DEF Acquire, PickAccount
    <2>2. a \notin auth[r].tried /\ auth' = [auth EXCEPT ![r].account = a]
      BY <2>1, ObtainEffect DEF Obtain
    <2>3. auth'[r].account = a /\ auth'[r].tried = auth[r].tried /\ \A q \in Requests \ {r} : auth'[q] = auth[q]
      BY <2>2 DEF Auths
    <2>4. \A q \in Requests \ {r} : pc'[q] = pc[q]
      BY <1>1 DEF Acquire, PickAccount, Goto
    <2>. QED BY <2>2, <2>3, <2>4 DEF ChosenUntried
  <1>2. CASE ~(Acquire(r) \/ PickAccount(r))
    <2>1. pc'[r] \notin {"ensure", "reensure"}
      BY <1>2 DEF Step, Refuse, TokenReady, LoginFailed, Succeed, Fail, RefreshToken, SwitchAccount,
                  NoOtherAccount, Switched, SwitchFailed, Release, AttemptOver, Goto
    <2>2. \A q \in Requests \ {r} : pc'[q] = pc[q] /\ auth'[q] = auth[q]
      BY <1>2, StepApart
    <2>. QED BY <2>1, <2>2 DEF ChosenUntried
  <1>. QED BY <1>1, <1>2

LEMMA ChosenInv == Spec => []ChosenUntried
  <1>1. Init => ChosenUntried
    BY DEF Init, ChosenUntried
  <1>2. IInv /\ ChosenUntried /\ [Next]_vars => ChosenUntried'
    <2>. SUFFICES ASSUME IInv, ChosenUntried, [Next]_vars PROVE ChosenUntried'
      OBVIOUS
    <2>1. CASE UNCHANGED vars
      BY <2>1 DEF ChosenUntried, vars
    <2>. QED BY <2>1, StepChosen DEF Next, Terminated
  <1>. QED BY <1>1, <1>2, Invariance, PTL DEF Spec

\* The accounts left to try.
LEMMA UntriedCount ==
    ASSUME NEW T \in SUBSET Accounts
    PROVE  /\ Cardinality(Accounts \ T) \in Nat
           /\ \A a \in Accounts : Cardinality(Accounts \ (T \cup {a})) <= Cardinality(Accounts \ T)
           /\ \A a \in Accounts \ T : Cardinality(Accounts \ (T \cup {a})) = Cardinality(Accounts \ T) - 1
  <1>1. \A S \in SUBSET Accounts : IsFiniteSet(S) /\ Cardinality(S) \in Nat
    BY FS_Subset, FS_CardinalityType, AccountsAssumption
  <1>2. IsFiniteSet(Accounts \ T) /\ Cardinality(Accounts \ T) \in Nat
    BY <1>1
  <1>3. ASSUME NEW a \in Accounts PROVE Cardinality(Accounts \ (T \cup {a})) <= Cardinality(Accounts \ T)
    <2>1. Accounts \ (T \cup {a}) \subseteq Accounts \ T
      OBVIOUS
    <2>. QED BY <1>2, <2>1, FS_Subset
  <1>4. ASSUME NEW a \in Accounts \ T PROVE Cardinality(Accounts \ (T \cup {a})) = Cardinality(Accounts \ T) - 1
    <2>1. Accounts \ (T \cup {a}) = (Accounts \ T) \ {a}
      OBVIOUS
    <2>. QED BY <1>2, <2>1, FS_RemoveElement
  <1>. QED BY <1>2, <1>3, <1>4

LEMMA StepsOfPhases ==
    ASSUME NEW b \in BOOLEAN, NEW T
    PROVE  LET n == 2 * Cardinality(Accounts \ T)
           IN  /\ StepsAt("acquire", b, T) = n + 7 /\ StepsAt("ensure", b, T) = n + 6
               /\ StepsAt("call", FALSE, T) = n + 5 /\ StepsAt("call", TRUE, T) = n + 4
               /\ StepsAt("pick", b, T) = n + 3 /\ StepsAt("reensure", b, T) = n + 2
               /\ StepsAt("closing", b, T) = 1 /\ StepsAt("done", b, T) = 0 /\ StepsAt("refused", b, T) = 0
  <1>. DEFINE n == 2 * Cardinality(Accounts \ T)
  <1>1. \A p, c : StepsAt(p, c, T) = CASE p = "acquire"  -> n + 7
                                       [] p = "ensure"   -> n + 6
                                       [] p = "call"     -> IF c THEN n + 4 ELSE n + 5
                                       [] p = "pick"     -> n + 3
                                       [] p = "reensure" -> n + 2
                                       [] p = "closing"  -> 1
                                       [] OTHER          -> 0
    BY DEF StepsAt
  <1>. HIDE DEF n
  <1>2. /\ StepsAt("acquire", b, T) = n + 7 /\ StepsAt("ensure", b, T) = n + 6
        /\ StepsAt("call", FALSE, T) = n + 5 /\ StepsAt("call", TRUE, T) = n + 4
        /\ StepsAt("pick", b, T) = n + 3 /\ StepsAt("reensure", b, T) = n + 2
        /\ StepsAt("closing", b, T) = 1 /\ StepsAt("done", b, T) = 0 /\ StepsAt("refused", b, T) = 0
    BY <1>1
  <1>. QED BY <1>2 DEF n

Nearer(r) == NextStage(r) \/ NextAttempt(r) \/ (SameAttempt(r) /\ StepsLeft(r)' < StepsLeft(r))

LEMMA StepsAhead ==
    ASSUME IInv, NEW r \in Requests
    PROVE  LET n == 2 * Cardinality(Accounts \ auth[r].tried)
           IN  /\ n \in Nat /\ loop[r].refreshed \in BOOLEAN
               /\ pc[r] = "acquire" => StepsLeft(r) = n + 7
               /\ pc[r] = "ensure" => StepsLeft(r) = n + 6
               /\ pc[r] = "call" => StepsLeft(r) = IF loop[r].refreshed THEN n + 4 ELSE n + 5
               /\ pc[r] = "pick" => StepsLeft(r) = n + 3
               /\ pc[r] = "reensure" => StepsLeft(r) = n + 2
               /\ pc[r] = "closing" => StepsLeft(r) = 1
  <1>. DEFINE n == 2 * Cardinality(Accounts \ auth[r].tried)
  <1>1. auth[r].tried \in SUBSET Accounts /\ loop[r].refreshed \in BOOLEAN
    BY DEF IInv, TypeOK
  <1>2. n \in Nat
    <2>. DEFINE c == Cardinality(Accounts \ auth[r].tried)
    <2>1. c \in Nat
      BY <1>1, UntriedCount
    <2>. HIDE DEF c
    <2>. QED BY <2>1 DEF c
  <1>3. StepsLeft(r) = StepsAt(pc[r], loop[r].refreshed, auth[r].tried)
    BY DEF StepsLeft
  <1>4. \A b \in BOOLEAN :
            /\ StepsAt("acquire", b, auth[r].tried) = n + 7 /\ StepsAt("ensure", b, auth[r].tried) = n + 6
            /\ StepsAt("call", FALSE, auth[r].tried) = n + 5 /\ StepsAt("call", TRUE, auth[r].tried) = n + 4
            /\ StepsAt("pick", b, auth[r].tried) = n + 3 /\ StepsAt("reensure", b, auth[r].tried) = n + 2
            /\ StepsAt("closing", b, auth[r].tried) = 1
    BY StepsOfPhases
  <1>. HIDE DEF n
  <1>5. /\ pc[r] = "acquire" => StepsLeft(r) = n + 7
        /\ pc[r] = "ensure" => StepsLeft(r) = n + 6
        /\ pc[r] = "pick" => StepsLeft(r) = n + 3
        /\ pc[r] = "reensure" => StepsLeft(r) = n + 2
        /\ pc[r] = "closing" => StepsLeft(r) = 1
    BY <1>1, <1>3, <1>4
  <1>6. pc[r] = "call" => StepsLeft(r) = IF loop[r].refreshed THEN n + 4 ELSE n + 5
    <2>1. CASE loop[r].refreshed
      BY <1>1, <1>3, <1>4, <2>1
    <2>2. CASE ~loop[r].refreshed
      BY <1>1, <1>3, <1>4, <2>2
    <2>. QED BY <2>1, <2>2
  <1>. QED BY <1>1, <1>2, <1>5, <1>6 DEF n

\* An attempt that is used up leads to the next one, to the next stage, or to the end.
LEMMA AttemptOverNearer ==
    ASSUME IInv, NEW r \in Requests, AttemptOver(r), pc[r] \in {"call", "pick", "reensure"}
    PROVE  Nearer(r)
  <1>. loop \in [Requests -> Loops] /\ loop[r] \in Loops /\ pc \in [Requests -> Phases]
    BY DEF IInv, TypeOK, Loops
  <1>1. CASE loop[r].attempts + 1 < MaxAttempts
    <2>1. loop' = [loop EXCEPT ![r].attempts = @ + 1]
      BY <1>1 DEF AttemptOver
    <2>2. loop'[r].stage = loop[r].stage /\ loop'[r].attempts = loop[r].attempts + 1
      BY <2>1 DEF Loops
    <2>3. loop'[r].attempts > loop[r].attempts
      BY <2>2, BoundsAssumption DEF Loops
    <2>. QED BY <2>2, <2>3 DEF Nearer, NextAttempt
  <1>2. CASE ~(loop[r].attempts + 1 < MaxAttempts) /\ loop[r].stage = RetryPow
    <2>1. loop' = [loop EXCEPT ![r] = Fresh(RetryCompletion)]
      BY <1>2 DEF AttemptOver
    <2>2. loop'[r].stage = RetryCompletion
      BY <2>1 DEF Fresh
    <2>. QED BY <1>2, <2>2 DEF Nearer, NextStage, RetryPow, RetryCompletion
  <1>3. CASE ~(loop[r].attempts + 1 < MaxAttempts) /\ loop[r].stage # RetryPow
    <2>1. loop' = loop /\ pc' = [pc EXCEPT ![r] = "closing"]
      BY <1>3 DEF AttemptOver
    <2>2. StepsLeft(r)' = 1
      <3>1. StepsLeft(r)' = StepsAt("closing", loop'[r].refreshed, auth'[r].tried)
        BY <2>1 DEF StepsLeft
      <3>2. loop'[r].refreshed \in BOOLEAN
        BY <2>1 DEF Loops
      <3>. QED BY <3>1, <3>2, StepsOfPhases
    <2>3. StepsLeft(r) > 1
      <3>. DEFINE n == 2 * Cardinality(Accounts \ auth[r].tried)
      <3>1. n \in Nat /\ StepsLeft(r) \in {n + 5, n + 4, n + 3, n + 2}
        BY StepsAhead
      <3>. HIDE DEF n
      <3>. QED BY <3>1
    <2>. QED BY <2>1, <2>2, <2>3 DEF Nearer, SameAttempt
  <1>. QED BY <1>1, <1>2, <1>3

LEMMA StepNearer == ASSUME IInv, ChosenUntried, NEW r \in Requests, Step(r) PROVE Nearer(r)
  <1>. DEFINE T == auth[r].tried
              n == 2 * Cardinality(Accounts \ T)
              m == 2 * Cardinality(Accounts \ (T \cup {auth[r].account}))
              after == StepsAt(pc'[r], loop'[r].refreshed, auth'[r].tried)
  <1>. /\ auth \in [Requests -> Auths] /\ auth[r] \in Auths /\ loop \in [Requests -> Loops] /\ loop[r] \in Loops
       /\ pc \in [Requests -> Phases] /\ T \in SUBSET Accounts
    BY DEF IInv, TypeOK, Auths, Loops
  <1>0. IInv'
    BY StepInv
  <1>1. /\ n \in Nat
        /\ auth[r].account \in Accounts => m \in Nat /\ m <= n
        /\ auth[r].account \in Accounts \ T => m = n - 2
    <2>1. /\ Cardinality(Accounts \ T) \in Nat
          /\ \A a \in Accounts : Cardinality(Accounts \ (T \cup {a})) <= Cardinality(Accounts \ T)
          /\ \A a \in Accounts \ T : Cardinality(Accounts \ (T \cup {a})) = Cardinality(Accounts \ T) - 1
      BY UntriedCount
    <2>2. auth[r].account \in Accounts => Cardinality(Accounts \ (T \cup {auth[r].account})) \in Nat
      <3>1. auth[r].account \in Accounts => T \cup {auth[r].account} \in SUBSET Accounts
        OBVIOUS
      <3>. QED BY <3>1, UntriedCount
    <2>. DEFINE c == Cardinality(Accounts \ T)
                d == Cardinality(Accounts \ (T \cup {auth[r].account}))
    <2>3. /\ c \in Nat
          /\ auth[r].account \in Accounts => d \in Nat /\ d <= c
          /\ auth[r].account \in Accounts \ T => d = c - 1
      BY <2>1, <2>2
    <2>. HIDE DEF c, d, T
    <2>4. n = 2 * c /\ m = 2 * d
      BY DEF c, d
    <2>. HIDE DEF n, m
    <2>. QED BY <2>3, <2>4
  <1>2. pc[r] \in Engaged => auth[r].account \in Accounts
    BY DEF IInv, LeaseInv
  <1>3. StepsLeft(r)' = after /\ loop'[r].refreshed \in BOOLEAN
    BY <1>0 DEF StepsLeft, IInv, TypeOK
  <1>4. ASSUME loop' = loop, after < StepsLeft(r) PROVE Nearer(r)
    BY <1>3, <1>4 DEF Nearer, SameAttempt
  <1>5. CASE Acquire(r) \/ PickAccount(r)
    <2>1. PICK a \in Accounts : auth' = [auth EXCEPT ![r].account = a]
      BY <1>5 DEF Acquire, PickAccount, Obtain
    <2>2. auth'[r].tried = T /\ loop' = loop
      BY <1>5, <2>1 DEF Acquire, PickAccount, Auths
    <2>3. \/ pc[r] = "acquire" /\ pc'[r] = "ensure"
          \/ pc[r] = "pick" /\ pc'[r] = "reensure"
      BY <1>5 DEF Acquire, PickAccount, Goto
    <2>4. /\ pc[r] = "acquire" => StepsLeft(r) = n + 7 /\ after = n + 6
          /\ pc[r] = "pick" => StepsLeft(r) = n + 3 /\ after = n + 2
      <3>1. after = StepsAt(pc'[r], loop'[r].refreshed, T)
        BY <2>2
      <3>2. /\ StepsAt("ensure", loop'[r].refreshed, T) = n + 6
            /\ StepsAt("reensure", loop'[r].refreshed, T) = n + 2
        BY <1>3, StepsOfPhases
      <3>3. /\ pc[r] = "acquire" => StepsLeft(r) = n + 7
            /\ pc[r] = "pick" => StepsLeft(r) = n + 3
        BY StepsAhead
      <3>. HIDE DEF n, after
      <3>. QED BY <2>3, <3>1, <3>2, <3>3
    <2>. HIDE DEF n, after
    <2>. QED BY <1>1, <1>4, <2>2, <2>3, <2>4
  <1>6. CASE Refuse(r) \/ Release(r)
    <2>1. \/ pc[r] = "acquire" /\ pc'[r] = "refused"
          \/ pc[r] = "closing" /\ pc'[r] = "done"
      BY <1>6 DEF Refuse, Release, Goto
    <2>2. after = 0
      <3>1. \A U : StepsAt("refused", loop'[r].refreshed, U) = 0 /\ StepsAt("done", loop'[r].refreshed, U) = 0
        BY <1>3, StepsOfPhases
      <3>. QED BY <2>1, <3>1
    <2>3. StepsLeft(r) \in {n + 7, 1}
      BY <2>1, StepsAhead
    <2>4. loop' = loop
      BY <1>6 DEF Refuse, Release
    <2>. HIDE DEF n, after
    <2>. QED BY <1>1, <1>4, <2>2, <2>3, <2>4
  <1>7. CASE TokenReady(r)
    <2>1. pc[r] = "ensure" /\ pc'[r] = "call" /\ loop' = loop /\ auth'[r].tried = T
      BY <1>7 DEF TokenReady, Goto, Auths
    <2>2. StepsLeft(r) = n + 6
      BY <2>1, StepsAhead
    <2>3. after \in {n + 4, n + 5}
      <3>1. after = StepsAt("call", loop'[r].refreshed, T)
        BY <2>1
      <3>. QED BY <1>3, <3>1, StepsOfPhases
    <2>. HIDE DEF n, after
    <2>. QED BY <1>1, <1>4, <2>1, <2>2, <2>3
  <1>8. CASE LoginFailed(r)
    <2>1. pc[r] = "ensure" /\ pc'[r] \in {"acquire", "refused"} /\ loop' = loop
      BY <1>8 DEF LoginFailed, Goto
    <2>2. auth'[r].tried = T \cup {auth[r].account}
      BY <1>8 DEF LoginFailed, NoAuth
    <2>3. auth[r].account \in Accounts \ T
      BY <1>2, <2>1 DEF ChosenUntried, Engaged
    <2>4. after \in {m + 7, 0}
      <3>1. after = StepsAt(pc'[r], loop'[r].refreshed, T \cup {auth[r].account})
        BY <2>2
      <3>2. /\ StepsAt("acquire", loop'[r].refreshed, T \cup {auth[r].account}) = m + 7
            /\ StepsAt("refused", loop'[r].refreshed, T \cup {auth[r].account}) = 0
        BY <1>3, StepsOfPhases
      <3>. HIDE DEF m, after
      <3>. QED BY <2>1, <3>1, <3>2
    <2>5. StepsLeft(r) = n + 6
      BY <2>1, StepsAhead
    <2>6. m \in Nat /\ m = n - 2
      BY <1>1, <2>3
    <2>. HIDE DEF n, m, after
    <2>. QED BY <1>1, <1>4, <2>1, <2>4, <2>5, <2>6
  <1>9. CASE Succeed(r)
    <2>1. CASE /\ loop[r].stage # RetryCompletion
               /\ loop' = [loop EXCEPT ![r] = Fresh(@.stage + 1)]
      <3>1. loop'[r].stage = loop[r].stage + 1
        BY <2>1 DEF Fresh
      <3>2. loop[r].stage \in Int
        BY DEF Loops, Stages, Session, RetryCompletion
      <3>. QED BY <3>1, <3>2 DEF Nearer, NextStage
    <2>2. CASE pc' = [pc EXCEPT ![r] = "closing"] /\ loop' = loop
      <3>1. pc[r] = "call" /\ pc'[r] = "closing"
        BY <1>9, <2>2 DEF Succeed
      <3>2. after = 1
        <4>1. after = StepsAt("closing", loop'[r].refreshed, auth'[r].tried)
          BY <3>1
        <4>. QED BY <1>3, <4>1, StepsOfPhases
      <3>3. StepsLeft(r) \in {n + 4, n + 5}
        BY <3>1, StepsAhead
      <3>. HIDE DEF n, after
      <3>. QED BY <1>1, <1>4, <2>2, <3>2, <3>3
    <2>. QED BY <1>9, <2>1, <2>2 DEF Succeed
  <1>10. CASE Fail(r) \/ NoOtherAccount(r)
    <2>1. AttemptOver(r) /\ pc[r] \in {"call", "pick"}
      BY <1>10 DEF Fail, NoOtherAccount
    <2>. QED BY <2>1, AttemptOverNearer
  <1>11. CASE RefreshToken(r)
    <2>1. pc[r] = "call" /\ pc' = pc /\ ~loop[r].refreshed
      BY <1>11 DEF RefreshToken
    <2>2. loop'[r].stage = loop[r].stage /\ loop'[r].attempts = loop[r].attempts /\ loop'[r].refreshed = TRUE
          /\ auth'[r].tried = T
      BY <1>11 DEF RefreshToken, Loops, Auths
    <2>3. after = n + 4
      <3>1. after = StepsAt("call", TRUE, T)
        BY <2>1, <2>2
      <3>. QED BY <3>1, StepsOfPhases
    <2>4. StepsLeft(r) = n + 5
      BY <2>1, StepsAhead
    <2>. HIDE DEF n, after
    <2>. QED BY <1>1, <1>3, <2>2, <2>3, <2>4 DEF Nearer, SameAttempt
  <1>12. CASE SwitchAccount(r) \/ SwitchFailed(r)
    <2>1. /\ pc'[r] = "pick" /\ loop' = loop /\ TryNoMore(r)
          /\ pc[r] = "call" \/ pc[r] = "reensure"
      BY <1>12 DEF SwitchAccount, SwitchFailed, Goto
    <2>2. auth'[r].tried = T \cup {auth[r].account}
      BY <2>1 DEF TryNoMore, Auths
    <2>3. auth[r].account \in Accounts /\ (pc[r] = "reensure" => auth[r].account \notin T)
      BY <1>2, <2>1 DEF ChosenUntried, Engaged
    <2>4. after = m + 3
      <3>1. after = StepsAt("pick", loop'[r].refreshed, T \cup {auth[r].account})
        BY <2>1, <2>2
      <3>2. StepsAt("pick", loop'[r].refreshed, T \cup {auth[r].account}) = m + 3
        BY <1>3, StepsOfPhases
      <3>. HIDE DEF m, after
      <3>. QED BY <3>1, <3>2
    <2>5. /\ pc[r] = "call" => StepsLeft(r) \in {n + 4, n + 5}
          /\ pc[r] = "reensure" => StepsLeft(r) = n + 2
      BY StepsAhead
    <2>6. m \in Nat /\ m <= n /\ (pc[r] = "reensure" => m = n - 2)
      BY <1>1, <2>3
    <2>. HIDE DEF n, m, after
    <2>. QED BY <1>1, <1>4, <2>1, <2>4, <2>5, <2>6
  <1>13. CASE Switched(r)
    <2>1. CASE loop[r].attempts + 1 < MaxAttempts
      <3>1. loop' = [loop EXCEPT ![r].attempts = @ + 1, ![r].refreshed = FALSE]
        BY <1>13, <2>1 DEF Switched
      <3>2. loop'[r].stage = loop[r].stage /\ loop'[r].attempts = loop[r].attempts + 1
        BY <3>1 DEF Loops
      <3>3. loop'[r].attempts > loop[r].attempts
        BY <3>2, BoundsAssumption DEF Loops
      <3>. QED BY <3>2, <3>3 DEF Nearer, NextAttempt
    <2>2. CASE ~(loop[r].attempts + 1 < MaxAttempts)
      <3>1. AttemptOver(r) /\ pc[r] = "reensure"
        BY <1>13, <2>2 DEF Switched
      <3>. QED BY <3>1, AttemptOverNearer
    <2>. QED BY <2>1, <2>2
  <1>. QED BY <1>5, <1>6, <1>7, <1>8, <1>9, <1>10, <1>11, <1>12, <1>13 DEF Step

\* Whatever DeepSeek answers, for any number of accounts, requests and attempts: no
\* step of a request is taken for nothing.  Stages and attempts are bounded, and so
\* are the steps of an attempt, by the accounts not tried yet: the loops cannot go on
\* for ever, however refreshes, switches and retries follow each other.
THEOREM LoopsEnd == Spec => LoopsWindDown
  <1>. DEFINE Progress ==
          \E r \in Requests :
              /\ NextStage(r) \/ NextAttempt(r) \/ (SameAttempt(r) /\ StepsLeft(r)' < StepsLeft(r))
              /\ \A q \in Requests \ {r} : UNCHANGED <<pc[q], auth[q], loop[q]>>
  <1>1. IInv /\ ChosenUntried /\ [Next]_vars => [Progress]_vars
    <2>. SUFFICES ASSUME IInv, ChosenUntried, NEW r \in Requests, Step(r) PROVE Progress
      BY DEF Next, Terminated
    <2>1. NextStage(r) \/ NextAttempt(r) \/ (SameAttempt(r) /\ StepsLeft(r)' < StepsLeft(r))
      BY StepNearer DEF Nearer
    <2>2. \A q \in Requests \ {r} : UNCHANGED <<pc[q], auth[q], loop[q]>>
      BY StepApart
    <2>. QED BY <2>1, <2>2
  <1>. HIDE DEF Progress
  <1>2. Spec => [][Progress]_vars
    BY <1>1, Invariance, ChosenInv, PTL DEF Spec
  <1>. QED BY <1>2 DEF LoopsWindDown, Progress

===============================================================================
