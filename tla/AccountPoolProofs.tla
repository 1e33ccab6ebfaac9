--------------------------- MODULE AccountPoolProofs ---------------------------
(***************************************************************************)
(* Proofs about AccountPool, for every set of accounts, requests,          *)
(* administrators and settings.                                            *)
(***************************************************************************)
EXTENDS AccountPool, PoolCoreProofs

-----------------------------------------------------------------------------
\* The wait queue

\* Taking the head waiter, or another one, off the queue.
LEMMA NotifyType ==
    ASSUME waiters \in Seq(Requests), notifyWaiterLocked
    PROVE  waiters' \in Seq(Requests)
  BY DEF notifyWaiterLocked

LEMMA RemoveWaiterType ==
    ASSUME waiters \in Seq(Requests), NEW r \in Requests, removeWaiterLocked(r)
    PROVE  waiters' \in Seq(Requests)
  <1>1. CASE waiters' = waiters
    BY <1>1
  <1>2. CASE \E i \in DOMAIN waiters : waiters' = RemoveAt(waiters, i)
    BY <1>2, RemoveAtType
  <1>. QED BY <1>1, <1>2 DEF removeWaiterLocked

-----------------------------------------------------------------------------
\* Limits

\* Every plan an administrator computes is well formed.
LEMMA LimitsType ==
    ASSUME NEW l \in Seq(Accounts), NEW rt \in Settings
    PROVE  /\ ResetPlan(l, rt) \in Plans
           /\ LimitsFor(l, rt, defaultRuntimeRecommended(Len(l), rt.maxPer)) \in Plans
  <1>1. Len(l) \in Nat
    OBVIOUS
  <1>2. /\ rt.maxPer \in Nat \ {0}
        /\ rt.maxQueue \in Nat \cup {Default}
        /\ rt.global \in Nat \cup {Default}
    BY SettingsAssumption
  <1>3. ASSUME NEW n \in Nat
        PROVE  LimitsFor(l, rt, n) \in Plans
    BY <1>2 DEF LimitsFor, Plans, RuntimeAccountMaxQueue, RuntimeGlobalMaxInflight
  <1>4. defaultRecommendedConcurrency(Len(l), rt.maxPer) \in Nat
    BY <1>1, <1>2 DEF defaultRecommendedConcurrency
  <1>5. defaultRuntimeRecommended(Len(l), rt.maxPer) \in Nat
    BY <1>1, <1>2 DEF defaultRuntimeRecommended
  <1>. QED BY <1>3, <1>4, <1>5 DEF ResetPlan

LEMMA InitType == Init => TypeOK
  <1>. SUFFICES ASSUME Init PROVE TypeOK
    OBVIOUS
  <1>1. /\ listed \in Seq(Accounts)
        /\ runtime \in Settings
    BY ListingsAssumption DEF Init
  <1>2. ResetPlan(listed, runtime) \in Plans
    BY <1>1, LimitsType
  <1>3. queue \in Seq(Accounts)
    BY <1>1, OrderType DEF Init
  <1>4. LedgerTypeOK
    BY <1>1, <1>2, <1>3, SettingsAssumption DEF Init, LedgerTypeOK, Plans
  <1>5. maxQueueSize \in Nat
    BY <1>2 DEF Init, Plans
  <1>6. NoPlan \in Plans
    BY DEF NoPlan, Plans
  <1>7. plan \in [Admins -> Plans] /\ job \in [Admins -> {"idle", "reset", "install", "limits"}]
    BY <1>6 DEF Init
  <1>8. ask \in [Requests -> [target : Accounts \cup {NoAccount}, exclude : SUBSET Accounts]]
    BY DEF Init, NoAsk
  <1>9. /\ waiters \in Seq(Requests)
        /\ pc \in [Requests -> Phases]
        /\ lease \in [Requests -> Accounts \cup {NoAccount}]
    BY DEF Init, Phases
  <1>10. cancelled \in [Requests -> BOOLEAN] /\ unseen \in BOOLEAN
    BY Zenon DEF Init
  <1>11. \A r \in Requests : lease[r] # NoAccount <=> pc[r] = "holding"
    BY DEF Init
  <1>. QED BY <1>1, <1>4, <1>5, <1>7, <1>8, <1>9, <1>10, <1>11 DEF TypeOK

-----------------------------------------------------------------------------
\* Type correctness

\* Every action but the grant and the release keeps the leases, so the
\* request it moves neither enters nor leaves "holding".
LEMMA RequestStepType ==
    ASSUME TypeOK, NEW r \in Requests,
           Call(r) \/ Cancel(r) \/ AcquireWait(r) \/ Release(r)
    PROVE  TypeOK'
  <1>. USE DEF TypeOK
  <1>1. CASE Call(r)
    <2>1. ask' \in [Requests -> [target : Accounts \cup {NoAccount}, exclude : SUBSET Accounts]]
      BY <1>1, AsksAssumption DEF Call
    <2>2. pc' = [pc EXCEPT ![r] = "loop"] \/ pc' = [pc EXCEPT ![r] = "refused"]
      BY <1>1 DEF Call, Goto
    <2>. QED BY <1>1, <2>1, <2>2 DEF Call, Goto, Phases, LedgerTypeOK, config, ledger, limits, adminVars
  <1>2. CASE Cancel(r)
    BY <1>2 DEF Cancel, Phases, LedgerTypeOK, config, ledger, limits, adminVars
  <1>3. CASE CheckContext(r)
    BY <1>3 DEF CheckContext, Goto, Phases, LedgerTypeOK, config, ledger, limits, adminVars
  <1>4. CASE Grant(r)
    <2>1. PICK a \in Accounts : /\ acquireLocked(ask[r].target, ask[r].exclude, a)
                                /\ lease' = [lease EXCEPT ![r] = a]
      BY <1>4 DEF Grant
    <2>2. ask[r].target \in Accounts \cup {NoAccount}
      OBVIOUS
    <2>3. inUse' \in [Accounts -> Nat] /\ queue' \in Seq(Accounts)
      BY <2>1, <2>2, AcquireEffect
    <2>4. pc' = [pc EXCEPT ![r] = "holding"]
      BY <1>4 DEF Grant, Goto
    <2>5. LedgerTypeOK'
      BY <1>4, <2>3 DEF Grant, LedgerTypeOK, config, limits
    <2>6. lease' \in [Requests -> Accounts \cup {NoAccount}] /\ pc' \in [Requests -> Phases]
      BY <2>1, <2>4 DEF Phases
    <2>7. \A q \in Requests : lease'[q] # NoAccount <=> pc'[q] = "holding"
      BY <2>1, <2>4, AccountsAssumption
    <2>. QED BY <1>4, <2>5, <2>6, <2>7 DEF Grant, config, limits, adminVars
  <1>5. CASE Refuse(r)
    BY <1>5 DEF Refuse, Goto, Phases, LedgerTypeOK, config, ledger, limits, adminVars
  <1>6. CASE Park(r)
    BY <1>6 DEF Park, Goto, Phases, LedgerTypeOK, config, ledger, limits, adminVars
  <1>7. CASE WakeUp(r)
    BY <1>7 DEF WakeUp, Goto, Phases, LedgerTypeOK, config, ledger, limits, adminVars
  <1>8. CASE Abandon(r)
    <2>1. waiters' \in Seq(Requests)
      BY <1>8, RemoveWaiterType DEF Abandon
    <2>. QED BY <1>8, <2>1 DEF Abandon, Goto, Phases, LedgerTypeOK, config, ledger, limits, adminVars
  <1>9. CASE Release(r)
    <2>1. lease[r] \in Accounts
      BY <1>9 DEF Release, Goto
    <2>2. inUse' \in [Accounts -> Nat] /\ queue' = queue
      BY <1>9, <2>1, ReleaseEffect DEF Release
    <2>3. waiters' \in Seq(Requests)
      BY <1>9, NotifyType DEF Release
    <2>4. LedgerTypeOK'
      BY <1>9, <2>2 DEF Release, LedgerTypeOK, config, limits
    <2>. QED BY <1>9, <2>3, <2>4 DEF Release, Goto, Phases, config, limits, adminVars
  <1>. QED BY <1>1, <1>2, <1>3, <1>4, <1>5, <1>6, <1>7, <1>8, <1>9 DEF AcquireWait

LEMMA AdminStepType ==
    ASSUME TypeOK, NEW adm \in Admins,
           UpdateAccounts(adm) \/ UpdateUnsaved(adm) \/ UpdateSettings(adm) \/ AdminWork(adm)
    PROVE  TypeOK'
  <1>. USE DEF TypeOK
  <1>. NoPlan \in Plans
    BY DEF NoPlan, Plans
  <1>1. CASE UpdateAccounts(adm)
    BY <1>1, ListingsAssumption
       DEF UpdateAccounts, Proceed, LedgerTypeOK, ledger, limits, requestVars
  <1>6. CASE UpdateUnsaved(adm)
    BY <1>6, ListingsAssumption
       DEF UpdateUnsaved, LedgerTypeOK, ledger, limits, requestVars, adminVars
  <1>2. CASE ResetSnapshot(adm)
    <2>1. ResetPlan(listed, runtime) \in Plans /\ runtime.maxPer \in Nat \ {0}
      BY LimitsType, SettingsAssumption DEF LedgerTypeOK
    <2>. QED BY <1>2, <2>1 DEF ResetSnapshot, Proceed, LedgerTypeOK, ledger, config, requestVars
  <1>3. CASE ResetInstall(adm)
    <2>1. plan[adm] \in Plans
      OBVIOUS
    <2>2. inUse' \in [Accounts -> Nat] /\ queue' \in Seq(Accounts)
      BY <1>3, <2>1, InstallType DEF ResetInstall, Plans
    <2>3. maxQueueSize' \in Nat /\ globalMaxInflight' \in Nat
      BY <1>3, <2>1 DEF ResetInstall, Plans
    <2>4. LedgerTypeOK'
      BY <1>3, <2>2, <2>3 DEF ResetInstall, LedgerTypeOK, config
    <2>. QED BY <1>3, <2>3, <2>4 DEF ResetInstall, Proceed, drainWaitersLocked, config, requestVars
  <1>4. CASE UpdateSettings(adm)
    <2>1. runtime' \in Settings
      BY <1>4 DEF UpdateSettings
    <2>2. LimitsFor(listed, runtime', defaultRuntimeRecommended(Len(listed), runtime'.maxPer)) \in Plans
      BY <2>1, LimitsType DEF LedgerTypeOK
    <2>. QED BY <1>4, <2>1, <2>2 DEF UpdateSettings, Proceed, LedgerTypeOK, ledger, limits, requestVars
  <1>5. CASE ApplyRuntimeLimits(adm)
    <2>1. /\ plan[adm].maxPer \in Nat \ {0}
          /\ plan[adm].maxQueue \in Nat
          /\ plan[adm].global \in Nat
      BY DEF Plans
    <2>2. Len(listed) \in Nat
      BY DEF LedgerTypeOK
    <2>3. defaultRuntimeRecommended(Len(listed), plan[adm].maxPer) \in Nat
      BY <2>1, <2>2 DEF defaultRuntimeRecommended
    <2>4. waiters' \in Seq(Requests)
      BY <1>5, NotifyType DEF ApplyRuntimeLimits
    <2>5. globalMaxInflight' \in Nat
      BY <1>5, <2>1, <2>3 DEF ApplyRuntimeLimits
    <2>6. LedgerTypeOK'
      BY <1>5, <2>1, <2>5 DEF ApplyRuntimeLimits, LedgerTypeOK, config, ledger
    <2>. QED BY <1>5, <2>1, <2>4, <2>6 DEF ApplyRuntimeLimits, Proceed, config, requestVars
  <1>. QED BY <1>1, <1>2, <1>3, <1>4, <1>5, <1>6 DEF AdminWork

LEMMA NextType == TypeOK /\ [Next]_vars => TypeOK'
  <1>. SUFFICES ASSUME TypeOK, [Next]_vars PROVE TypeOK'
    OBVIOUS
  <1>1. CASE UNCHANGED vars
    BY <1>1 DEF TypeOK, LedgerTypeOK, vars, config, ledger, limits, requestVars, adminVars
  <1>2. CASE Next
    BY <1>1, <1>2, RequestStepType, AdminStepType DEF Next, Terminated
  <1>. QED BY <1>1, <1>2

\* Every reachable state is well formed, and a request has a lease exactly
\* while it holds an account.
THEOREM TypeCorrect == Spec => []TypeOK
  BY InitType, NextType, PTL DEF Spec

-----------------------------------------------------------------------------
\* The ledger against the leases

LEMMA HoldersFinite ==
    ASSUME NEW a PROVE IsFiniteSet(Holders(a)) /\ Cardinality(Holders(a)) \in Nat
  BY FS_Subset, FS_CardinalityType, RequestsAssumption DEF Holders

\* A step that changes no lease changes nobody's holders.
LEMMA SameHolders ==
    ASSUME lease' = lease, NEW a PROVE Holders(a)' = Holders(a)
  BY DEF Holders

\* A grant adds one holder to the account it hands out.
LEMMA GrantHolders ==
    ASSUME TypeOK, NEW r \in Requests, NEW a \in Accounts,
           lease[r] = NoAccount, lease' = [lease EXCEPT ![r] = a]
    PROVE  /\ Cardinality(Holders(a)') = Cardinality(Holders(a)) + 1
           /\ \A b \in Accounts \ {a} : Holders(b)' = Holders(b)
  <1>1. r \notin Holders(a)
    BY AccountsAssumption DEF Holders
  <1>2. Holders(a)' = Holders(a) \cup {r}
    BY DEF Holders, TypeOK
  <1>3. ASSUME NEW b \in Accounts \ {a} PROVE Holders(b)' = Holders(b)
    BY AccountsAssumption DEF Holders, TypeOK
  <1>4. Cardinality(Holders(a) \cup {r}) = Cardinality(Holders(a)) + 1
    BY <1>1, HoldersFinite, FS_AddElement
  <1>. QED BY <1>2, <1>3, <1>4

\* A release takes one holder from the account it gives back.
LEMMA ReleaseHolders ==
    ASSUME TypeOK, NEW r \in Requests, NEW a \in Accounts,
           lease[r] = a, lease' = [lease EXCEPT ![r] = NoAccount]
    PROVE  /\ Cardinality(Holders(a)') = Cardinality(Holders(a)) - 1
           /\ Cardinality(Holders(a)) > 0
           /\ \A b \in Accounts \ {a} : Holders(b)' = Holders(b)
  <1>1. r \in Holders(a)
    BY DEF Holders
  <1>2. Holders(a)' = Holders(a) \ {r}
    BY AccountsAssumption DEF Holders, TypeOK
  <1>3. ASSUME NEW b \in Accounts \ {a} PROVE Holders(b)' = Holders(b)
    BY AccountsAssumption DEF Holders, TypeOK
  <1>4. Cardinality(Holders(a) \ {r}) = Cardinality(Holders(a)) - 1
    BY <1>1, HoldersFinite, FS_RemoveElement
  <1>5. Cardinality(Holders(a)) > 0
    BY <1>1, HoldersFinite, FS_EmptySet
  <1>. QED BY <1>2, <1>3, <1>4, <1>5

\* What a grant does to the ledger and to the leases together.
LEMMA GrantStep ==
    ASSUME TypeOK, NEW r \in Requests, Grant(r)
    PROVE  \E a \in Accounts :
              /\ inUse[a] < maxInflightPerAccount
              /\ inUse' = [inUse EXCEPT ![a] = @ + 1]
              /\ Cardinality(Holders(a)') = Cardinality(Holders(a)) + 1
              /\ \A b \in Accounts \ {a} : Holders(b)' = Holders(b)
  <1>1. PICK a \in Accounts : /\ acquireLocked(ask[r].target, ask[r].exclude, a)
                              /\ lease' = [lease EXCEPT ![r] = a]
    BY DEF Grant
  <1>2. ask[r].target \in Accounts \cup {NoAccount}
    BY DEF TypeOK
  <1>3. Usable(a, ask[r].exclude) /\ inUse' = [inUse EXCEPT ![a] = @ + 1]
    BY <1>1, <1>2, AcquireEffect DEF TypeOK
  <1>4. lease[r] = NoAccount
    BY DEF Grant, Goto, TypeOK
  <1>. QED BY <1>1, <1>3, <1>4, GrantHolders DEF Usable, canAcquireID

\* What a release does to the ledger and to the leases together.
LEMMA ReleaseStep ==
    ASSUME TypeOK, NEW r \in Requests, Release(r)
    PROVE  \E a \in Accounts :
              /\ inUse'[a] = IF inUse[a] > 0 THEN inUse[a] - 1 ELSE 0
              /\ \A b \in Accounts \ {a} : inUse'[b] = inUse[b]
              /\ Cardinality(Holders(a)') = Cardinality(Holders(a)) - 1
              /\ Cardinality(Holders(a)) > 0
              /\ \A b \in Accounts \ {a} : Holders(b)' = Holders(b)
  <1>1. lease[r] \in Accounts
    BY DEF Release, Goto, TypeOK
  <1>2. releaseSlot(lease[r]) /\ lease' = [lease EXCEPT ![r] = NoAccount]
    BY DEF Release
  <1>. QED BY <1>1, <1>2, ReleaseEffect, ReleaseHolders DEF TypeOK

\* No other step of a request touches the ledger's counts or the leases.
LEMMA OtherRequestStep ==
    ASSUME NEW r \in Requests,
           \/ Call(r) \/ Cancel(r) \/ CheckContext(r) \/ Refuse(r) \/ Park(r)
           \/ WakeUp(r) \/ Abandon(r)
    PROVE  UNCHANGED <<inUse, lease, maxInflightPerAccount>>
  BY DEF Call, Cancel, CheckContext, Refuse, Park, WakeUp, Abandon, ledger, limits

\* An administrator changes no lease, and the counts only by forgetting them.
LEMMA AdminLedgerStep ==
    ASSUME TypeOK, NEW adm \in Admins,
           UpdateAccounts(adm) \/ UpdateUnsaved(adm) \/ UpdateSettings(adm) \/ AdminWork(adm)
    PROVE  lease' = lease /\ (inUse' = inUse \/ inUse' = [a \in Accounts |-> 0])
  BY DEF UpdateAccounts, UpdateUnsaved, UpdateSettings, AdminWork, ResetSnapshot,
         ResetInstall, ApplyRuntimeLimits, InstallLedger, ledger, requestVars

-----------------------------------------------------------------------------
\* No slot leak

LEMMA NoSlotLeakStep == TypeOK /\ NoSlotLeak /\ [Next]_vars => NoSlotLeak'
  <1>. SUFFICES ASSUME TypeOK, NoSlotLeak, [Next]_vars, NEW c \in Accounts
                PROVE  inUse'[c] <= Cardinality(Holders(c)')
    BY DEF NoSlotLeak
  <1>. inUse[c] <= Cardinality(Holders(c)) /\ inUse[c] \in Nat
    BY DEF NoSlotLeak, TypeOK, LedgerTypeOK
  <1>. Cardinality(Holders(c)) \in Nat
    BY HoldersFinite
  <1>1. CASE UNCHANGED <<inUse, lease>>
    BY <1>1, SameHolders
  <1>2. ASSUME NEW r \in Requests, Grant(r)
        PROVE  inUse'[c] <= Cardinality(Holders(c)')
    <2>1. PICK a \in Accounts :
              /\ inUse' = [inUse EXCEPT ![a] = @ + 1]
              /\ Cardinality(Holders(a)') = Cardinality(Holders(a)) + 1
              /\ \A b \in Accounts \ {a} : Holders(b)' = Holders(b)
      BY <1>2, GrantStep
    <2>2. inUse \in [Accounts -> Nat]
      BY DEF TypeOK, LedgerTypeOK
    <2>3. CASE c = a
      BY <2>1, <2>2, <2>3
    <2>4. CASE c # a
      <3>1. inUse'[c] = inUse[c]
        BY <2>1, <2>2, <2>4
      <3>2. Holders(c)' = Holders(c)
        BY <2>1, <2>4
      <3>. QED BY <3>1, <3>2
    <2>. QED BY <2>3, <2>4
  <1>3. ASSUME NEW r \in Requests, Release(r)
        PROVE  inUse'[c] <= Cardinality(Holders(c)')
    BY <1>3, ReleaseStep
  <1>4. ASSUME NEW adm \in Admins,
               UpdateAccounts(adm) \/ UpdateUnsaved(adm) \/ UpdateSettings(adm) \/ AdminWork(adm)
        PROVE  inUse'[c] <= Cardinality(Holders(c)')
    <2>1. Holders(c)' = Holders(c)
      BY <1>4, AdminLedgerStep, SameHolders
    <2>. QED BY <1>4, <2>1, AdminLedgerStep
  <1>5. CASE UNCHANGED vars
    BY <1>1, <1>5 DEF vars, ledger, requestVars
  <1>. QED
    BY <1>1, <1>2, <1>3, <1>4, <1>5, OtherRequestStep DEF Next, AcquireWait, Terminated

\* However resets, limit changes, cancellations and releases interleave, the
\* pool never counts a slot that no request holds.
THEOREM NoSlotLeakSafe == Spec => []NoSlotLeak
  <1>1. Init => NoSlotLeak
    BY HoldersFinite DEF Init, NoSlotLeak
  <1>. QED BY <1>1, NoSlotLeakStep, TypeCorrect, PTL DEF Spec

-----------------------------------------------------------------------------
\* The rotation

\* Between its two parts a reset knows the list it will install, and nobody
\* else changes it: with one administrator at work at a time.
RotationInv ==
    /\ Settled => Rotates(listed)
    /\ \A adm \in Admins : job[adm] = "install" => plan[adm].ids = listed /\ ~unseen
    /\ Admins = {} => ~unseen

LEMMA RotationStep ==
    ASSUME \A one, other \in Admins : one = other
    PROVE  TypeOK /\ RotationInv /\ [Next]_vars => RotationInv'
  <1>. SUFFICES ASSUME TypeOK, RotationInv, [Next]_vars PROVE RotationInv'
    OBVIOUS
  <1>. USE DEF RotationInv, Settled, Resetting
  <1>1. CASE UNCHANGED <<listed, unseen, queue, adminVars>>
    BY <1>1 DEF Rotates, Orders, adminVars
  <1>2. ASSUME NEW r \in Requests, Grant(r) PROVE RotationInv'
    <2>1. PICK a \in Accounts : bumpQueue(a)
      BY <1>2 DEF Grant, acquireLocked
    <2>2. listed \in Seq(Accounts)
      BY DEF TypeOK, LedgerTypeOK
    <2>3. UNCHANGED <<listed, unseen, adminVars>>
      BY <1>2 DEF Grant, config
    <2>4. ASSUME NEW l, l = listed, Rotates(l) PROVE Rotates(l)'
      BY <2>1, <2>2, <2>4, BumpQueueRotates
    <2>5. Rotates(listed) => Rotates(listed)'
      BY <2>3, <2>4 DEF Rotates, Orders
    <2>. QED BY <2>3, <2>5 DEF adminVars
  <1>3. ASSUME NEW r \in Requests, Release(r) PROVE RotationInv'
    BY <1>1, <1>3 DEF Release, releaseSlot, config, adminVars
  <1>4. ASSUME NEW r \in Requests,
               \/ Call(r) \/ Cancel(r) \/ CheckContext(r) \/ Refuse(r) \/ Park(r)
               \/ WakeUp(r) \/ Abandon(r)
        PROVE  RotationInv'
    BY <1>1, <1>4 DEF Call, Cancel, CheckContext, Refuse, Park, WakeUp, Abandon,
                      ledger, config
  <1>5. ASSUME NEW adm \in Admins, UpdateAccounts(adm) PROVE RotationInv'
    BY <1>5 DEF UpdateAccounts, Proceed, TypeOK
  <1>6. ASSUME NEW adm \in Admins, ResetSnapshot(adm) PROVE RotationInv'
    <2>1. job' = [job EXCEPT ![adm] = "install"] /\ listed' = listed /\ unseen' = FALSE
      BY <1>6 DEF ResetSnapshot, Proceed
    <2>2. plan'[adm].ids = listed
      BY <1>6 DEF ResetSnapshot, ResetPlan, LimitsFor, TypeOK
    <2>. QED BY <2>1, <2>2 DEF TypeOK
  <1>7. ASSUME NEW adm \in Admins, ResetInstall(adm) PROVE RotationInv'
    <2>1. plan[adm].ids = listed /\ listed' = listed /\ unseen' = unseen
      BY <1>7 DEF ResetInstall, Proceed, config
    <2>2. Rotates(listed)'
      BY <1>7, <2>1 DEF ResetInstall, InstallLedger, Rotates, Orders
    <2>. QED BY <1>7, <2>1, <2>2 DEF ResetInstall, Proceed, TypeOK
  <1>8. ASSUME NEW adm \in Admins, UpdateSettings(adm) PROVE RotationInv'
    BY <1>8 DEF UpdateSettings, Proceed, TypeOK, ledger, Rotates, Orders
  <1>9. ASSUME NEW adm \in Admins, ApplyRuntimeLimits(adm) PROVE RotationInv'
    BY <1>9 DEF ApplyRuntimeLimits, Proceed, TypeOK, config, ledger, Rotates, Orders
  <1>10. ASSUME NEW adm \in Admins, UpdateUnsaved(adm) PROVE RotationInv'
    <2>1. /\ job[adm] = "idle" /\ UNCHANGED <<queue, adminVars>>
          /\ unseen' = (unseen \/ listed' # listed)
      BY <1>10 DEF UpdateUnsaved, ledger
    <2>2. \A other \in Admins : job'[other] # "install"
      BY <2>1 DEF adminVars
    <2>3. Settled' => Settled /\ listed' = listed
      BY <2>1 DEF adminVars
    <2>. QED BY <2>1, <2>2, <2>3 DEF Rotates, Orders
  <1>11. CASE UNCHANGED vars
    BY <1>1, <1>11 DEF vars, config, ledger
  <1>. QED
    BY <1>2, <1>3, <1>4, <1>5, <1>6, <1>7, <1>8, <1>9, <1>10, <1>11
    DEF Next, AcquireWait, AdminWork, Terminated

LEMMA InitRotation == Init => RotationInv
  BY DEF Init, RotationInv, Rotates

\* With one administrator at a time, however requests take, wait and release,
\* whatever list is configured and whichever saves fail: while no reset is
\* under way and no failed save has changed the list behind the pool's back,
\* the rotation is that list in some order.
THEOREM RotationCompleteSafe ==
    ASSUME \A one, other \in Admins : one = other PROVE Spec => []RotationComplete
  <1>1. RotationInv => RotationComplete
    BY DEF RotationInv, RotationComplete, Rotates
  <1>. QED BY <1>1, InitRotation, RotationStep, TypeCorrect, PTL DEF Spec

-----------------------------------------------------------------------------
\* Without administrators the ledger is exact and the limit is real

FixedPool == LedgerExact /\ PerAccountLimit

LEMMA FixedPoolStep ==
    ASSUME Admins = {} PROVE TypeOK /\ FixedPool /\ [Next]_vars => FixedPool'
  <1>. SUFFICES ASSUME TypeOK, FixedPool, [Next]_vars, NEW c \in Accounts
                PROVE  /\ inUse'[c] = Cardinality(Holders(c)')
                       /\ Cardinality(Holders(c)') <= maxInflightPerAccount'
    BY DEF FixedPool, LedgerExact, PerAccountLimit
  <1>. /\ inUse[c] = Cardinality(Holders(c))
       /\ Cardinality(Holders(c)) <= maxInflightPerAccount
       /\ inUse \in [Accounts -> Nat]
       /\ maxInflightPerAccount \in Nat
    BY DEF FixedPool, LedgerExact, PerAccountLimit, TypeOK, LedgerTypeOK
  <1>1. CASE UNCHANGED <<inUse, lease, maxInflightPerAccount>>
    BY <1>1, SameHolders
  <1>2. ASSUME NEW r \in Requests, Grant(r)
        PROVE  /\ inUse'[c] = Cardinality(Holders(c)')
               /\ Cardinality(Holders(c)') <= maxInflightPerAccount'
    <2>1. maxInflightPerAccount' = maxInflightPerAccount
      BY <1>2 DEF Grant, limits
    <2>. QED BY <1>2, <2>1, GrantStep
  <1>3. ASSUME NEW r \in Requests, Release(r)
        PROVE  /\ inUse'[c] = Cardinality(Holders(c)')
               /\ Cardinality(Holders(c)') <= maxInflightPerAccount'
    <2>1. maxInflightPerAccount' = maxInflightPerAccount
      BY <1>3 DEF Release, limits
    <2>2. PICK a \in Accounts :
              /\ inUse'[a] = IF inUse[a] > 0 THEN inUse[a] - 1 ELSE 0
              /\ \A b \in Accounts \ {a} : inUse'[b] = inUse[b]
              /\ Cardinality(Holders(a)') = Cardinality(Holders(a)) - 1
              /\ Cardinality(Holders(a)) > 0
              /\ \A b \in Accounts \ {a} : Holders(b)' = Holders(b)
      BY <1>3, ReleaseStep
    <2>3. CASE c = a
      BY <2>1, <2>2, <2>3
    <2>4. CASE c # a
      BY <2>1, <2>2, <2>4
    <2>. QED BY <2>3, <2>4
  <1>4. CASE UNCHANGED vars
    BY <1>1, <1>4 DEF vars, ledger, limits, requestVars
  <1>. QED
    BY <1>1, <1>2, <1>3, <1>4, OtherRequestStep DEF Next, AcquireWait, Terminated

LEMMA FixedPoolSafe == ASSUME Admins = {} PROVE Spec => []FixedPool
  <1>1. Init => FixedPool
    <2>. SUFFICES ASSUME Init, NEW c \in Accounts
                  PROVE  /\ inUse[c] = Cardinality(Holders(c))
                         /\ Cardinality(Holders(c)) <= maxInflightPerAccount
      BY DEF FixedPool, LedgerExact, PerAccountLimit
    <2>1. Holders(c) = {}
      BY AccountsAssumption DEF Init, Holders
    <2>2. Cardinality(Holders(c)) = 0
      BY <2>1, FS_EmptySet
    <2>3. maxInflightPerAccount \in Nat
      BY SettingsAssumption DEF Init
    <2>. QED BY <2>2, <2>3 DEF Init
  <1>. QED BY <1>1, FixedPoolStep, TypeCorrect, PTL DEF Spec

\* With nobody resetting the pool, Pool.inUse counts exactly the requests
\* being served on each account.
THEOREM LedgerExactSafe == ASSUME Admins = {} PROVE Spec => []LedgerExact
  BY FixedPoolSafe, PTL DEF FixedPool

\* With nobody resetting the pool, no account ever serves more requests than
\* the per-account limit, whoever cancels, waits or barges in.
THEOREM PerAccountLimitSafe == ASSUME Admins = {} PROVE Spec => []PerAccountLimit
  BY FixedPoolSafe, PTL DEF FixedPool

-----------------------------------------------------------------------------
\* A refusal means that the pool is full

\* The requests the pool serves are those it serves on each account.
Load == [a \in Accounts |-> Cardinality(Holders(a))]
LoadCounted == SumFunction(Load) = Cardinality(Leases)

LEMMA LoadType == Load \in [Accounts -> Nat]
  BY HoldersFinite DEF Load

LEMMA LeasesFinite == IsFiniteSet(Leases) /\ Cardinality(Leases) \in Nat
  BY FS_Subset, FS_CardinalityType, RequestsAssumption DEF Leases

\* A step that changes no lease changes neither side.
LEMMA SameLoad == ASSUME LoadCounted, lease' = lease PROVE LoadCounted'
  BY DEF LoadCounted, Load, Leases, Holders

\* A grant and a release change both sides by one.
LEMMA GrantLoad ==
    ASSUME TypeOK, LoadCounted, NEW r \in Requests, NEW a \in Accounts,
           lease[r] = NoAccount, lease' = [lease EXCEPT ![r] = a]
    PROVE  /\ LoadCounted'
           /\ Cardinality(Leases') = Cardinality(Leases) + 1
  <1>1. Leases' = Leases \cup {r} /\ r \notin Leases
    BY AccountsAssumption DEF Leases, TypeOK
  <1>2. Cardinality(Leases') = Cardinality(Leases) + 1
    BY <1>1, LeasesFinite, FS_AddElement
  <1>3. /\ Cardinality(Holders(a)') = Cardinality(Holders(a)) + 1
        /\ \A b \in Accounts \ {a} : Holders(b)' = Holders(b)
    BY GrantHolders
  <1>4. Load' = [b \in Accounts |-> Cardinality(Holders(b)')]
    BY DEF Load
  <1>5. Load'[a] = Load[a] + 1 /\ \A b \in Accounts \ {a} : Load'[b] = Load[b]
    BY <1>3, <1>4 DEF Load
  <1>6. Load' \in [Accounts -> Nat]
    <2>1. \A b \in Accounts : Load'[b] \in Nat
      BY <1>5, LoadType
    <2>. QED BY <1>4, <2>1
  <1>7. SumFunction(Load') = SumFunction(Load) - Load[a] + Load'[a]
    BY <1>5, <1>6, LoadType, SumChange, AccountsAssumption
  <1>8. Load[a] \in Nat /\ SumFunction(Load) \in Nat
    BY LoadType, SumNat, AccountsAssumption
  <1>9. SumFunction(Load') = SumFunction(Load) + 1
    BY <1>5, <1>7, <1>8
  <1>. QED BY <1>2, <1>9 DEF LoadCounted

LEMMA ReleaseLoad ==
    ASSUME TypeOK, LoadCounted, NEW r \in Requests, NEW a \in Accounts,
           lease[r] = a, lease' = [lease EXCEPT ![r] = NoAccount]
    PROVE  /\ LoadCounted'
           /\ Cardinality(Leases') = Cardinality(Leases) - 1
  <1>1. Leases' = Leases \ {r} /\ r \in Leases
    BY AccountsAssumption DEF Leases, TypeOK
  <1>2. Cardinality(Leases') = Cardinality(Leases) - 1
    BY <1>1, LeasesFinite, FS_RemoveElement
  <1>3. /\ Cardinality(Holders(a)') = Cardinality(Holders(a)) - 1
        /\ Cardinality(Holders(a)) > 0
        /\ \A b \in Accounts \ {a} : Holders(b)' = Holders(b)
    BY ReleaseHolders
  <1>4. Load' = [b \in Accounts |-> Cardinality(Holders(b)')]
    BY DEF Load
  <1>5. /\ Load'[a] = Load[a] - 1 /\ Load[a] > 0
        /\ \A b \in Accounts \ {a} : Load'[b] = Load[b]
    BY <1>3, <1>4 DEF Load
  <1>6. Load' \in [Accounts -> Nat]
    <2>1. \A b \in Accounts : Load'[b] \in Nat
      BY <1>5, LoadType
    <2>. QED BY <1>4, <2>1
  <1>7. SumFunction(Load') = SumFunction(Load) - Load[a] + Load'[a]
    BY <1>5, <1>6, LoadType, SumChange, AccountsAssumption
  <1>8. Load[a] \in Nat /\ SumFunction(Load) \in Nat
    BY LoadType, SumNat, AccountsAssumption
  <1>9. SumFunction(Load') = SumFunction(Load) - 1
    BY <1>5, <1>7, <1>8
  <1>. QED BY <1>2, <1>9 DEF LoadCounted

LEMMA LoadStep == TypeOK /\ LoadCounted /\ [Next]_vars => LoadCounted'
  <1>. SUFFICES ASSUME TypeOK, LoadCounted, [Next]_vars PROVE LoadCounted'
    OBVIOUS
  <1>1. CASE UNCHANGED lease
    BY <1>1, SameLoad
  <1>2. ASSUME NEW r \in Requests, Grant(r) PROVE LoadCounted'
    <2>1. PICK a \in Accounts : lease' = [lease EXCEPT ![r] = a]
      BY <1>2 DEF Grant
    <2>2. lease[r] = NoAccount
      BY <1>2 DEF Grant, Goto, TypeOK
    <2>. QED BY <2>1, <2>2, GrantLoad
  <1>3. ASSUME NEW r \in Requests, Release(r) PROVE LoadCounted'
    <2>1. lease[r] \in Accounts /\ lease' = [lease EXCEPT ![r] = NoAccount]
      BY <1>3 DEF Release, Goto, TypeOK
    <2>. QED BY <2>1, ReleaseLoad
  <1>4. ASSUME NEW adm \in Admins,
               UpdateAccounts(adm) \/ UpdateUnsaved(adm) \/ UpdateSettings(adm) \/ AdminWork(adm)
        PROVE  LoadCounted'
    BY <1>1, <1>4, AdminLedgerStep
  <1>5. CASE UNCHANGED vars
    BY <1>1, <1>5 DEF vars, requestVars
  <1>. QED
    BY <1>1, <1>2, <1>3, <1>4, <1>5, OtherRequestStep DEF Next, AcquireWait, Terminated

LEMMA InitLoad == Init => LoadCounted
  <1>. SUFFICES ASSUME Init PROVE LoadCounted
    OBVIOUS
  <1>1. Leases = {} /\ \A a \in Accounts : Holders(a) = {}
    BY AccountsAssumption DEF Init, Leases, Holders
  <1>2. Cardinality({}) = 0
    BY FS_EmptySet
  <1>3. Load = [a \in Accounts |-> IF a \in {} THEN 0 ELSE 0]
    BY <1>1, <1>2 DEF Load
  <1>4. SumFunction([a \in Accounts |-> IF a \in {} THEN 0 ELSE 0]) = 0 * Cardinality({})
    BY SumConstant, AccountsAssumption
  <1>5. SumFunction(Load) = 0
    BY <1>2, <1>3, <1>4
  <1>. QED BY <1>1, <1>2, <1>5 DEF LoadCounted

\* The ledger's total is at most the number of requests being served.
LEMMA TakenWithinLeases ==
    ASSUME TypeOK, NoSlotLeak, LoadCounted
    PROVE  currentInUse \in Nat /\ currentInUse <= Cardinality(Leases)
  <1>1. inUse \in [Accounts -> Nat] /\ IsFiniteSet(Accounts)
    BY AccountsAssumption DEF TypeOK, LedgerTypeOK
  <1>2. \A a \in Accounts : inUse[a] <= Load[a]
    BY DEF NoSlotLeak, Load
  <1>3. SumFunction(inUse) <= SumFunction(Load)
    BY <1>1, <1>2, LoadType, SumMonotone
  <1>. QED BY <1>1, <1>3, SumNat DEF currentInUse, LoadCounted

\* Every request takes whatever account there is.
PlainAsk == \A r \in Requests : ask[r] = NoAsk

LEMMA PlainAskStep ==
    ASSUME Asks \subseteq {NoAsk} PROVE TypeOK /\ PlainAsk /\ [Next]_vars => PlainAsk'
  <1>. SUFFICES ASSUME TypeOK, PlainAsk, [Next]_vars PROVE PlainAsk'
    OBVIOUS
  <1>1. CASE ask' = ask
    BY <1>1 DEF PlainAsk
  <1>2. ASSUME NEW r \in Requests, Call(r) PROVE PlainAsk'
    BY <1>2 DEF Call, PlainAsk, TypeOK
  <1>. QED
    BY <1>1, <1>2
    DEF Next, AcquireWait, Terminated, Cancel, CheckContext, Grant, Refuse, Park, WakeUp,
        Abandon, Release, UpdateAccounts, UpdateUnsaved, UpdateSettings, AdminWork,
        ResetSnapshot, ResetInstall, ApplyRuntimeLimits, vars, requestVars

\* Where no account can be had, the slots or the global limit are used up.
LEMMA FullPool ==
    ASSUME TypeOK, Candidates(NoAccount, {}) = {}
    PROVE  Capacity \in Nat /\ Capacity <= currentInUse
  <1>1. LedgerTypeOK /\ globalMaxInflight \in Nat
    BY DEF TypeOK, LedgerTypeOK
  <1>2. maxInflightPerAccount * Cardinality(Offered) \in Nat
    BY <1>1, SlotsOffered
  <1>3. \/ globalMaxInflight > 0 /\ currentInUse >= globalMaxInflight
        \/ currentInUse >= maxInflightPerAccount * Cardinality(Offered)
    BY <1>1, NoCandidateIsFull
  <1>4. inUse \in [Accounts -> Nat]
    BY DEF TypeOK, LedgerTypeOK
  <1>5. currentInUse \in Nat
    BY <1>4, SumNat, AccountsAssumption DEF currentInUse
  <1>. QED BY <1>1, <1>2, <1>3, <1>5 DEF Capacity

LEMMA RefusalStep ==
    ASSUME TypeOK, NoSlotLeak, LoadCounted, PlainAsk,
           NEW r \in Requests, Refuse(r)
    PROVE  Cardinality(Leases) + Len(waiters) >= Capacity + maxQueueSize
  <1>1. ask[r].target = NoAccount /\ ask[r].exclude = {}
    BY DEF PlainAsk, NoAsk
  <1>2. Candidates(NoAccount, {}) = {}
    BY <1>1 DEF Refuse
  <1>3. ~(Len(waiters) < maxQueueSize)
    BY <1>1 DEF Refuse, canQueueLocked
  <1>4. Capacity \in Nat /\ Capacity <= currentInUse
    BY <1>2, FullPool
  <1>5. currentInUse \in Nat /\ currentInUse <= Cardinality(Leases)
    BY TakenWithinLeases
  <1>6. Len(waiters) \in Nat /\ maxQueueSize \in Nat
    BY DEF TypeOK
  <1>. QED BY <1>3, <1>4, <1>5, <1>6, LeasesFinite

\* Only the critical section that finds neither an account nor a place in the
\* line takes a request from the lock to its refusal.
LEMMA OnlyRefuseRefuses ==
    ASSUME TypeOK, NEW r \in Requests, pc[r] = "lock", pc'[r] = "refused", [Next]_vars
    PROVE  Refuse(r)
  <1>1. pc' # pc
    OBVIOUS
  <1>2. ASSUME NEW q \in Requests, Grant(q) \/ CheckContext(q) \/ Park(q) \/ WakeUp(q) \/ Release(q)
        PROVE  pc'[r] = pc[r] \/ pc'[r] # "refused"
    BY <1>2 DEF Grant, CheckContext, Park, WakeUp, Release, Goto, TypeOK
  <1>3. ASSUME NEW q \in Requests, Call(q) \/ Abandon(q) \/ CheckContext(q) PROVE pc'[r] = pc[r]
    BY <1>3 DEF Call, Abandon, CheckContext, Goto, TypeOK
  <1>4. ASSUME NEW q \in Requests, Refuse(q), q # r PROVE pc'[r] = pc[r]
    BY <1>4 DEF Refuse, Goto, TypeOK
  <1>5. \E q \in Requests : Call(q) \/ Cancel(q) \/ AcquireWait(q) \/ Release(q)
    BY <1>1 DEF Next, Terminated, UpdateAccounts, UpdateUnsaved, UpdateSettings, AdminWork,
                ResetSnapshot, ResetInstall, ApplyRuntimeLimits, vars, requestVars
  <1>. QED BY <1>1, <1>2, <1>3, <1>4, <1>5 DEF Cancel, AcquireWait

\* However many administrators are at work at once, for requests that take any
\* account: whatever resets forget slots that are still in use, limits change,
\* saves fail and callers give up, a request is refused only when the requests
\* being served and those waiting fill the slots and the line.
THEOREM RefusalsAreHonest ==
    ASSUME Asks \subseteq {NoAsk} PROVE Spec => RefusalMeansSaturation
  <1>. DEFINE Honest ==
          \A r \in Requests :
             pc[r] = "lock" /\ pc'[r] = "refused"
             => Cardinality(Leases) + Len(waiters) >= Capacity + maxQueueSize
  <1>1. ASSUME TypeOK, NoSlotLeak, LoadCounted, PlainAsk, [Next]_vars
        PROVE  Honest
    <2>. SUFFICES ASSUME NEW r \in Requests, pc[r] = "lock", pc'[r] = "refused"
                  PROVE  Cardinality(Leases) + Len(waiters) >= Capacity + maxQueueSize
      OBVIOUS
    <2>1. Refuse(r)
      BY <1>1, OnlyRefuseRefuses
    <2>. QED BY <1>1, <2>1, RefusalStep
  <1>2. Init => PlainAsk
    BY DEF Init, PlainAsk
  <1>3. TypeOK /\ NoSlotLeak /\ LoadCounted /\ PlainAsk /\ [Next]_vars => [Honest]_vars
    BY <1>1
  <1>. HIDE DEF Honest
  <1>4. Spec => [][Honest]_vars
    BY <1>2, <1>3, InitLoad, LoadStep, PlainAskStep, TypeCorrect, NoSlotLeakSafe, PTL DEF Spec
  <1>. QED BY <1>4, PTL DEF RefusalMeansSaturation, Honest

-----------------------------------------------------------------------------
\* No wakeup is lost

\* One administrator at a time, and settings that never change: resets for
\* accounts that come and go are all that happens to the pool.
OneAdmin == \A one, other \in Admins : one = other
OneSetting == \A one, other \in Settings : one = other

\* Each waiter stands in the line once, and does nothing else.
LineOK == IsInjective(waiters) /\ \A r \in Requests : Waiting(r) => pc[r] = "parked"

NobodyCancelled == \A r \in Requests : ~cancelled[r]

\* The capacity that settings give a pool of n accounts.
CapacityFor(rt, n) ==
    IF rt.global \in Nat \ {0} /\ rt.global < rt.maxPer * n
    THEN rt.global ELSE rt.maxPer * n

\* While the pool is settled the limits are those of the settings, and an
\* administrator on the way to change them brings the same ones.
LimitsFollow ==
    /\ Settled => /\ maxInflightPerAccount = runtime.maxPer
                  /\ Capacity = CapacityFor(runtime, Cardinality(stored))
    /\ \A adm \in Admins :
          /\ job[adm] = "install" => /\ plan[adm] = ResetPlan(listed, runtime)
                                     /\ maxInflightPerAccount = runtime.maxPer
          /\ job[adm] = "limits" =>
                plan[adm] = LimitsFor(listed, runtime,
                              defaultRuntimeRecommended(Len(listed), runtime.maxPer))

\* While the pool is settled no account has more slots taken than it has.
SlotsOK == Settled => \A a \in Accounts : inUse[a] <= Slots[a]

\* The requests on their way to the pool; while anybody waits, they are enough
\* to take every slot that is free.
Coming == {r \in Requests : pc[r] \in {"loop", "lock"} \/ (pc[r] = "parked" /\ ~Waiting(r))}

WakeupsSuffice ==
    Settled /\ waiters # <<>> => Capacity <= currentInUse + Cardinality(Coming)

\* What happens when the head of the line is told.
LEMMA HeadLeaves ==
    ASSUME waiters \in Seq(Requests), waiters # <<>>, IsInjective(waiters),
           waiters' = Tail(waiters)
    PROVE  /\ IsInjective(waiters')
           /\ \A r \in Requests : Waiting(r)' <=> Waiting(r) /\ r # waiters[1]
           /\ waiters[1] \in Requests /\ Waiting(waiters[1])
  <1>1. /\ Len(waiters) \in Nat /\ Len(waiters) >= 1
        /\ DOMAIN waiters = 1..Len(waiters)
        /\ DOMAIN waiters' = 1..(Len(waiters) - 1)
        /\ \A i \in 1..(Len(waiters) - 1) : waiters'[i] = waiters[i + 1]
    OBVIOUS
  <1>2. IsInjective(waiters')
    BY <1>1 DEF IsInjective
  <1>3. 1 \in DOMAIN waiters /\ waiters[1] \in Requests
    BY <1>1
  <1>4. ASSUME NEW r \in Requests, Waiting(r)' PROVE Waiting(r) /\ r # waiters[1]
    <2>1. PICK i \in 1..(Len(waiters) - 1) : waiters[i + 1] = r
      BY <1>1, <1>4 DEF Waiting
    <2>2. i + 1 \in DOMAIN waiters /\ i + 1 # 1
      BY <1>1, <2>1
    <2>. QED BY <1>3, <2>1, <2>2 DEF Waiting, IsInjective
  <1>5. ASSUME NEW r \in Requests, Waiting(r), r # waiters[1] PROVE Waiting(r)'
    <2>1. PICK i \in DOMAIN waiters : waiters[i] = r
      BY <1>5 DEF Waiting
    <2>2. i - 1 \in 1..(Len(waiters) - 1) /\ (i - 1) + 1 = i
      BY <1>1, <1>5, <2>1
    <2>3. waiters'[i - 1] = r
      BY <1>1, <2>1, <2>2
    <2>. QED BY <1>1, <2>2, <2>3 DEF Waiting
  <1>. QED BY <1>2, <1>3, <1>4, <1>5 DEF Waiting

\* What happens when a request joins the line.
LEMMA LastJoins ==
    ASSUME waiters \in Seq(Requests), IsInjective(waiters), NEW r \in Requests, ~Waiting(r),
           waiters' = Append(waiters, r)
    PROVE  /\ IsInjective(waiters')
           /\ \A q \in Requests : Waiting(q)' <=> Waiting(q) \/ q = r
  <1>1. /\ Len(waiters) \in Nat
        /\ DOMAIN waiters = 1..Len(waiters)
        /\ DOMAIN waiters' = 1..(Len(waiters) + 1)
        /\ \A i \in 1..Len(waiters) : waiters'[i] = waiters[i]
        /\ waiters'[Len(waiters) + 1] = r
    OBVIOUS
  <1>2. ASSUME NEW i \in DOMAIN waiters', NEW j \in DOMAIN waiters', waiters'[i] = waiters'[j]
        PROVE  i = j
    <2>1. i \in DOMAIN waiters \/ i = Len(waiters) + 1
      BY <1>1
    <2>2. j \in DOMAIN waiters \/ j = Len(waiters) + 1
      BY <1>1
    <2>. QED BY <1>1, <1>2, <2>1, <2>2 DEF Waiting, IsInjective
  <1>3. ASSUME NEW q \in Requests PROVE Waiting(q)' <=> Waiting(q) \/ q = r
    <2>1. ASSUME Waiting(q)' PROVE Waiting(q) \/ q = r
      <3>1. PICK i \in DOMAIN waiters' : waiters'[i] = q
        BY <2>1 DEF Waiting
      <3>2. i \in DOMAIN waiters \/ i = Len(waiters) + 1
        BY <1>1
      <3>. QED BY <1>1, <3>1, <3>2 DEF Waiting
    <2>2. ASSUME Waiting(q) PROVE Waiting(q)'
      <3>1. PICK i \in DOMAIN waiters : waiters[i] = q
        BY <2>2 DEF Waiting
      <3>2. i \in DOMAIN waiters' /\ waiters'[i] = q
        BY <1>1, <3>1
      <3>. QED BY <3>2 DEF Waiting
    <2>3. Len(waiters) + 1 \in DOMAIN waiters'
      BY <1>1
    <2>4. ASSUME q = r PROVE Waiting(q)'
      BY <1>1, <2>3, <2>4 DEF Waiting
    <2>. QED BY <2>1, <2>2, <2>4
  <1>. QED BY <1>2, <1>3 DEF IsInjective

\* Telling the next waiter, when there may be none.
LEMMA NotifyLine ==
    ASSUME TypeOK, LineOK, notifyWaiterLocked
    PROVE  /\ IsInjective(waiters')
           /\ \A r \in Requests : Waiting(r)' => Waiting(r)
           /\ waiters # <<>> => \E h \in Requests : /\ Waiting(h) /\ ~Waiting(h)'
           /\ waiters = <<>> => waiters' = <<>>
  <1>1. CASE waiters = <<>>
    BY <1>1 DEF notifyWaiterLocked, Waiting, LineOK, IsInjective
  <1>2. CASE waiters # <<>>
    <2>1. waiters' = Tail(waiters) /\ waiters \in Seq(Requests)
      BY <1>2 DEF notifyWaiterLocked, TypeOK
    <2>. QED BY <1>2, <2>1, HeadLeaves DEF LineOK
  <1>. QED BY <1>1, <1>2

\* No step of a request but parking puts anybody in the line.
LEMMA RequestLine ==
    ASSUME TypeOK, LineOK, NobodyCancelled, Cancellable = {},
           NEW r \in Requests, Call(r) \/ Cancel(r) \/ AcquireWait(r) \/ Release(r)
    PROVE  LineOK' /\ NobodyCancelled'
  <1>1. NobodyCancelled'
    BY DEF NobodyCancelled, Call, Cancel, AcquireWait, CheckContext, Grant, Refuse, Park, WakeUp,
           Abandon, Release
  <1>2. CASE Park(r)
    <2>1. ~Waiting(r) /\ waiters' = Append(waiters, r) /\ pc' = [pc EXCEPT ![r] = "parked"]
      BY <1>2 DEF Park, Goto, LineOK
    <2>2. IsInjective(waiters') /\ \A q \in Requests : Waiting(q)' <=> Waiting(q) \/ q = r
      BY <2>1, LastJoins DEF TypeOK, LineOK
    <2>. QED BY <1>1, <2>1, <2>2 DEF LineOK, TypeOK
  <1>3. CASE Release(r)
    <2>1. pc[r] = "holding" /\ pc' = [pc EXCEPT ![r] = "released"] /\ ~Waiting(r)
      BY <1>3 DEF Release, Goto, LineOK
    <2>2. IsInjective(waiters') /\ \A q \in Requests : Waiting(q)' => Waiting(q)
      <3>1. CASE waiters' = waiters
        BY <3>1 DEF LineOK, Waiting
      <3>2. CASE notifyWaiterLocked
        BY <3>2, NotifyLine
      <3>. QED BY <1>3, <3>1, <3>2 DEF Release
    <2>. QED BY <1>1, <2>1, <2>2 DEF LineOK, TypeOK
  <1>4. CASE Call(r) \/ Cancel(r) \/ CheckContext(r) \/ Grant(r) \/ Refuse(r) \/ WakeUp(r) \/ Abandon(r)
    <2>1. waiters' = waiters
      BY <1>4 DEF Call, Cancel, CheckContext, Grant, Refuse, WakeUp, Abandon, NobodyCancelled
    <2>2. pc' = pc \/ ~Waiting(r)
      BY <1>4 DEF Call, Cancel, CheckContext, Grant, Refuse, WakeUp, Abandon, Goto, LineOK,
                  NobodyCancelled
    <2>3. \A q \in Requests : q # r => pc'[q] = pc[q]
      BY <1>4 DEF Call, Cancel, CheckContext, Grant, Refuse, WakeUp, Abandon, Goto, TypeOK,
                  NobodyCancelled
    <2>. QED BY <1>1, <2>1, <2>2, <2>3 DEF LineOK, Waiting
  <1>. QED BY <1>2, <1>3, <1>4 DEF AcquireWait

LEMMA AdminLine ==
    ASSUME TypeOK, LineOK, NobodyCancelled,
           NEW adm \in Admins,
           UpdateAccounts(adm) \/ UpdateUnsaved(adm) \/ UpdateSettings(adm) \/ AdminWork(adm)
    PROVE  LineOK' /\ NobodyCancelled'
  <1>1. pc' = pc /\ cancelled' = cancelled
    BY DEF UpdateAccounts, UpdateUnsaved, UpdateSettings, AdminWork, ResetSnapshot,
           ResetInstall, ApplyRuntimeLimits, requestVars
  <1>2. CASE waiters' = waiters
    BY <1>1, <1>2 DEF LineOK, NobodyCancelled, Waiting
  <1>3. CASE waiters' = <<>>
    BY <1>1, <1>3 DEF LineOK, NobodyCancelled, Waiting, IsInjective
  <1>4. CASE notifyWaiterLocked
    BY <1>1, <1>4, NotifyLine DEF LineOK, NobodyCancelled
  <1>. QED
    BY <1>2, <1>3, <1>4 DEF UpdateAccounts, UpdateUnsaved, UpdateSettings, AdminWork,
                            ResetSnapshot, ResetInstall, ApplyRuntimeLimits, drainWaitersLocked

LEMMA LineStep ==
    ASSUME Cancellable = {}
    PROVE  TypeOK /\ LineOK /\ NobodyCancelled /\ [Next]_vars => LineOK' /\ NobodyCancelled'
  <1>. SUFFICES ASSUME TypeOK, LineOK, NobodyCancelled, [Next]_vars
                PROVE  LineOK' /\ NobodyCancelled'
    OBVIOUS
  <1>1. CASE UNCHANGED vars
    BY <1>1 DEF vars, requestVars, LineOK, NobodyCancelled, Waiting
  <1>. QED BY <1>1, RequestLine, AdminLine DEF Next, Terminated

\* The capacity of any pool, and what it offers once it is settled.
LEMMA CapacityType == ASSUME TypeOK PROVE Capacity \in Nat
  <1>1. maxInflightPerAccount * Cardinality(Offered) \in Nat
    BY SlotsOffered DEF TypeOK
  <1>2. globalMaxInflight \in Nat
    BY DEF TypeOK, LedgerTypeOK
  <1>. QED BY <1>1, <1>2 DEF Capacity

LEMMA SettledOffers ==
    ASSUME TypeOK, RotationInv, Settled PROVE Rotates(listed) /\ Offered = stored
  <1>1. Rotates(listed)
    BY DEF RotationInv
  <1>. QED BY <1>1, RotationOffers DEF TypeOK

\* The store's accounts, and the entries of the list that names them.
LEMMA StoredSize ==
    ASSUME TypeOK
    PROVE  /\ IsFiniteSet(stored) /\ Cardinality(stored) \in Nat /\ Len(listed) \in Nat
           /\ Cardinality(stored) <= Len(listed)
           /\ stored = {} => Len(listed) = 0
  <1>1. listed \in Seq(Accounts)
    BY DEF TypeOK, LedgerTypeOK
  <1>. QED BY <1>1, StoredFinite DEF stored

\* The limits the settings give make their capacity, whichever page computed
\* them for however many entries: with too many for the accounts, or for no
\* account, they differ and hold nobody back.
LEMMA PlanCapacity ==
    ASSUME NEW rt \in Settings, NEW n \in Nat, NEW m \in Nat, n <= m, NEW recommended,
           \/ recommended = defaultRecommendedConcurrency(m, rt.maxPer)
           \/ recommended = defaultRuntimeRecommended(m, rt.maxPer),
           NEW global, global = RuntimeGlobalMaxInflight(rt, recommended)
    PROVE  /\ CapacityFor(rt, n) = IF global > 0 /\ global < rt.maxPer * n
                                   THEN global ELSE rt.maxPer * n
           /\ global \in Nat
  <1>1. rt.maxPer \in Nat \ {0} /\ rt.global \in Nat \cup {Default}
    BY SettingsAssumption
  <1>2. PICK b \in Nat : b = rt.maxPer * n
    BY <1>1
  <1>3. PICK c \in Nat : c = m * rt.maxPer
    BY <1>1
  <1>4. b <= c
    <2>1. \A x, y, z \in Nat : x <= y => z * x <= y * z
      OBVIOUS
    <2>2. rt.maxPer \in Nat
      BY <1>1
    <2>. QED BY <1>2, <1>3, <2>1, <2>2
  <1>5. m = 0 => n = 0 /\ b = 0
    BY <1>1, <1>2
  <1>6. recommended = c \/ (b = 0 /\ recommended = rt.maxPer)
    BY <1>3, <1>5 DEF defaultRecommendedConcurrency, defaultRuntimeRecommended
  <1>7. CASE rt.global \in Nat \ {0}
    BY <1>1, <1>2, <1>7 DEF RuntimeGlobalMaxInflight, CapacityFor
  <1>8. CASE rt.global \notin Nat \ {0}
    <2>1. global = recommended /\ CapacityFor(rt, n) = b
      BY <1>2, <1>8 DEF RuntimeGlobalMaxInflight, CapacityFor
    <2>. QED BY <1>1, <1>2, <1>4, <1>6, <2>1
  <1>. QED BY <1>7, <1>8

LEMMA InitLimits == Init => LimitsFollow /\ SlotsOK
  <1>. SUFFICES ASSUME Init PROVE LimitsFollow /\ SlotsOK
    OBVIOUS
  <1>1. Rotates(listed) /\ TypeOK /\ runtime \in Settings
    BY InitType DEF Init, Rotates
  <1>2. Offered = stored
    BY <1>1, RotationOffers DEF TypeOK
  <1>3. globalMaxInflight
          = RuntimeGlobalMaxInflight(runtime, defaultRecommendedConcurrency(Len(listed), runtime.maxPer))
    BY DEF Init, ResetPlan, LimitsFor
  <1>4. Capacity = CapacityFor(runtime, Cardinality(stored))
    BY <1>1, <1>2, <1>3, StoredSize, PlanCapacity DEF Init, Capacity
  <1>5. \A a \in Accounts : inUse[a] <= Slots[a]
    BY SettingsAssumption DEF Init, Slots
  <1>. QED BY <1>4, <1>5 DEF Init, LimitsFollow, SlotsOK

\* Requests leave the limits alone, and take no slot an account does not have.
LEMMA RequestLimits ==
    ASSUME TypeOK, RotationInv, RotationInv', LimitsFollow, SlotsOK,
           NEW r \in Requests, Call(r) \/ Cancel(r) \/ AcquireWait(r) \/ Release(r)
    PROVE  /\ UNCHANGED <<listed, runtime, unseen, limits, adminVars>>
           /\ Settled => Capacity' = Capacity
           /\ LimitsFollow' /\ SlotsOK'
  <1>1. UNCHANGED <<listed, runtime, unseen, limits, adminVars>>
    BY DEF Call, Cancel, AcquireWait, CheckContext, Grant, Refuse, Park, WakeUp, Abandon, Release,
           config
  <1>2. Settled' <=> Settled
    BY <1>1 DEF Settled, Resetting, adminVars
  <1>3. TypeOK' /\ stored' = stored
    BY <1>1, RequestStepType DEF stored
  <1>4. ASSUME Settled PROVE Offered' = Offered
    <2>1. Offered = stored
      BY <1>4, SettledOffers
    <2>2. Rotates(listed)' /\ LedgerTypeOK'
      BY <1>2, <1>3, <1>4 DEF RotationInv, TypeOK
    <2>3. Offered' = stored'
      <3>1. listed' \in Seq(Accounts) /\ queue' \in Orders(listed')
        BY <2>2 DEF LedgerTypeOK, Rotates, Orders
      <3>. QED BY <3>1, OrderType DEF Offered, stored
    <2>. QED BY <1>3, <2>1, <2>3
  <1>5. Settled => Capacity' = Capacity
    BY <1>1, <1>4 DEF Capacity, limits
  <1>6. LimitsFollow'
    <2>1. Settled' => /\ maxInflightPerAccount' = runtime'.maxPer
                      /\ Capacity' = CapacityFor(runtime, Cardinality(stored))'
      BY <1>1, <1>2, <1>3, <1>5 DEF LimitsFollow, CapacityFor, limits
    <2>. QED BY <1>1, <2>1 DEF LimitsFollow, limits, adminVars, ResetPlan, LimitsFor
  <1>7. ASSUME Settled, NEW b \in Accounts PROVE inUse'[b] <= Slots'[b]
    <2>1. inUse[b] <= Slots[b] /\ Slots'[b] = Slots[b]
      BY <1>1, <1>4, <1>7 DEF SlotsOK, Slots, limits
    <2>7. Offered = stored
      BY <1>7, SettledOffers
    <2>2. inUse \in [Accounts -> Nat] /\ maxInflightPerAccount \in Nat
      BY DEF TypeOK, LedgerTypeOK
    <2>3. CASE Grant(r)
      <3>1. PICK a \in Accounts : acquireLocked(ask[r].target, ask[r].exclude, a)
        BY <2>3 DEF Grant
      <3>2. Usable(a, ask[r].exclude) /\ inUse' = [inUse EXCEPT ![a] = @ + 1]
        BY <3>1, AcquireEffect DEF TypeOK
      <3>3. CASE b = a
        <4>1. inUse'[b] = inUse[b] + 1 /\ inUse[b] < Slots[b]
          BY <2>2, <2>7, <3>2, <3>3 DEF Usable, canAcquireID, Slots
        <4>. QED BY <2>1, <2>2, <4>1 DEF Slots
      <3>4. CASE b # a
        BY <2>1, <2>2, <3>2, <3>4
      <3>. QED BY <3>3, <3>4
    <2>4. CASE Release(r)
      <3>1. lease[r] \in Accounts /\ releaseSlot(lease[r])
        BY <2>4 DEF Release, Goto, TypeOK
      <3>2. inUse'[b] <= inUse[b]
        BY <2>2, <3>1 DEF releaseSlot
      <3>3. inUse'[b] \in Nat /\ Slots[b] \in Nat
        BY <1>3, <2>2 DEF TypeOK, LedgerTypeOK, Slots
      <3>. QED BY <2>1, <2>2, <3>2, <3>3
    <2>5. CASE Call(r) \/ Cancel(r) \/ CheckContext(r) \/ Refuse(r) \/ Park(r) \/ WakeUp(r) \/ Abandon(r)
      BY <2>1, <2>5, OtherRequestStep
    <2>. QED BY <2>3, <2>4, <2>5 DEF AcquireWait
  <1>. QED BY <1>1, <1>2, <1>5, <1>6, <1>7 DEF SlotsOK

\* Nor do administrators who only reset the pool: every reset ends with the
\* limits it began with.
LEMMA AdminLimits ==
    ASSUME OneAdmin, OneSetting, TypeOK, RotationInv, RotationInv', LimitsFollow, SlotsOK,
           NEW adm \in Admins,
           UpdateAccounts(adm) \/ UpdateUnsaved(adm) \/ UpdateSettings(adm) \/ AdminWork(adm)
    PROVE  /\ LimitsFollow' /\ SlotsOK'
           /\ Settled /\ Settled' => Capacity' = Capacity
  <1>. USE DEF OneAdmin
  <1>1. TypeOK'
    BY AdminStepType
  <1>2. runtime' = runtime /\ runtime \in Settings
    BY <1>1 DEF OneSetting, TypeOK
  <1>3. /\ Cardinality(stored) \in Nat /\ Len(listed) \in Nat /\ Cardinality(stored) <= Len(listed)
    BY StoredSize
  <1>4. CASE UpdateAccounts(adm)
    <2>1. Resetting' /\ job'[adm] = "reset"
      BY <1>4 DEF UpdateAccounts, Proceed, TypeOK, Resetting
    <2>. QED BY <2>1 DEF LimitsFollow, SlotsOK, Settled
  <1>5. CASE ResetSnapshot(adm)
    <2>1. Resetting' /\ job'[adm] = "install"
      BY <1>5 DEF ResetSnapshot, Proceed, TypeOK, Resetting
    <2>2. /\ plan'[adm] = ResetPlan(listed, runtime)
          /\ maxInflightPerAccount' = runtime.maxPer
          /\ listed' = listed
      BY <1>5 DEF ResetSnapshot, TypeOK
    <2>3. ResetPlan(listed, runtime)' = ResetPlan(listed, runtime)
      BY <1>2, <2>2 DEF ResetPlan, LimitsFor
    <2>. QED BY <1>2, <2>1, <2>2, <2>3 DEF LimitsFollow, SlotsOK, Settled
  <1>6. CASE ResetInstall(adm)
    <2>1. /\ job[adm] = "install" /\ job' = [job EXCEPT ![adm] = "idle"]
          /\ listed' = listed /\ unseen' = unseen
          /\ maxInflightPerAccount' = maxInflightPerAccount
          /\ globalMaxInflight' = plan[adm].global
          /\ inUse' = [a \in Accounts |-> 0]
      BY <1>6 DEF ResetInstall, Proceed, InstallLedger, config
    <2>2. Settled' /\ ~Settled
      BY <2>1 DEF RotationInv, Settled, Resetting, TypeOK
    <2>3. plan[adm] = ResetPlan(listed, runtime) /\ maxInflightPerAccount = runtime.maxPer
      BY <2>1 DEF LimitsFollow
    <2>4. globalMaxInflight'
            = RuntimeGlobalMaxInflight(runtime, defaultRecommendedConcurrency(Len(listed), runtime.maxPer))
      BY <2>1, <2>3 DEF ResetPlan, LimitsFor
    <2>5. stored' = stored /\ Offered' = stored
      <3>1. listed' \in Seq(Accounts) /\ queue' \in Orders(listed')
        BY <1>1, <2>2 DEF RotationInv, Rotates, Orders, TypeOK, LedgerTypeOK
      <3>. QED BY <2>1, <3>1, OrderType DEF Offered, stored
    <2>6. Capacity' = CapacityFor(runtime, Cardinality(stored))
      BY <1>2, <1>3, <2>1, <2>3, <2>4, <2>5, PlanCapacity DEF Capacity
    <2>7. \A a \in Accounts : inUse'[a] <= Slots'[a]
      BY <1>1, <2>1 DEF Slots, TypeOK, LedgerTypeOK
    <2>8. \A other \in Admins : job'[other] = "idle"
      BY <2>1 DEF TypeOK
    <2>9. CapacityFor(runtime, Cardinality(stored))' = CapacityFor(runtime, Cardinality(stored))
      BY <1>2, <2>5 DEF CapacityFor
    <2>. QED BY <1>2, <2>1, <2>2, <2>3, <2>6, <2>7, <2>8, <2>9 DEF LimitsFollow, SlotsOK
  <1>7. CASE UpdateSettings(adm)
    <2>1. /\ job[adm] = "idle" /\ job' = [job EXCEPT ![adm] = "limits"]
          /\ listed' = listed /\ unseen' = unseen /\ UNCHANGED <<ledger, limits>>
          /\ plan' = [plan EXCEPT ![adm] = LimitsFor(listed, runtime',
                        defaultRuntimeRecommended(Len(listed), runtime'.maxPer))]
      BY <1>7 DEF UpdateSettings, Proceed
    <2>2. ~Resetting' /\ ~Resetting
      BY <2>1 DEF Resetting, TypeOK
    <2>3. job'[adm] = "limits" /\ plan'[adm] = LimitsFor(listed, runtime,
                        defaultRuntimeRecommended(Len(listed), runtime.maxPer))
      BY <1>2, <2>1 DEF TypeOK
    <2>4. stored' = stored /\ Offered' = Offered /\ Capacity' = Capacity /\ Slots' = Slots
      BY <2>1 DEF Capacity, Slots, Offered, stored, ledger, limits
    <2>5. Settled' <=> Settled
      BY <2>1, <2>2 DEF Settled
    <2>6. LimitsFollow'
      <3>1. Settled' => /\ maxInflightPerAccount' = runtime'.maxPer
                        /\ Capacity' = CapacityFor(runtime, Cardinality(stored))'
        BY <1>2, <2>1, <2>4, <2>5 DEF LimitsFollow, CapacityFor, limits
      <3>2. LimitsFor(listed, runtime, defaultRuntimeRecommended(Len(listed), runtime.maxPer))'
              = plan'[adm]
        BY <1>2, <2>1, <2>3 DEF LimitsFor
      <3>3. \A other \in Admins : other = adm
        OBVIOUS
      <3>. QED BY <2>3, <3>1, <3>2, <3>3 DEF LimitsFollow
    <2>. QED BY <2>1, <2>4, <2>5, <2>6 DEF SlotsOK, ledger
  <1>8. CASE ApplyRuntimeLimits(adm)
    <2>1. /\ job[adm] = "limits" /\ job' = [job EXCEPT ![adm] = "idle"]
          /\ listed' = listed /\ unseen' = unseen /\ queue' = queue /\ inUse' = inUse
          /\ maxInflightPerAccount' = plan[adm].maxPer
          /\ globalMaxInflight' =
                IF plan[adm].global > 0 THEN plan[adm].global
                ELSE defaultRuntimeRecommended(Len(listed), plan[adm].maxPer)
      BY <1>8 DEF ApplyRuntimeLimits, Proceed, config, ledger
    <2>2. ~Resetting' /\ ~Resetting
      BY <2>1 DEF Resetting, TypeOK
    <2>. DEFINE recommended == defaultRuntimeRecommended(Len(listed), runtime.maxPer)
    <2>3. /\ plan[adm].maxPer = runtime.maxPer
          /\ plan[adm].global = RuntimeGlobalMaxInflight(runtime, recommended)
      BY <2>1 DEF LimitsFollow, LimitsFor
    <2>4. recommended \in Nat \ {0}
      <3>1. \A m \in Nat \ {0}, n \in Nat \ {0} : n * m \in Nat \ {0}
        OBVIOUS
      <3>. QED BY <1>2, <1>3, <3>1, SettingsAssumption DEF defaultRuntimeRecommended
    <2>5. globalMaxInflight' = RuntimeGlobalMaxInflight(runtime, recommended)
      BY <2>1, <2>3, <2>4 DEF RuntimeGlobalMaxInflight
    <2>6. stored' = stored /\ Offered' = Offered
      BY <2>1 DEF Offered, stored
    <2>7. Settled' <=> Settled
      BY <2>1, <2>2 DEF Settled
    <2>8. ASSUME Settled PROVE Capacity' = CapacityFor(runtime, Cardinality(stored))
      <3>1. Offered' = stored
        BY <2>6, <2>8, SettledOffers
      <3>. QED BY <1>2, <1>3, <2>1, <2>3, <2>5, <3>1, PlanCapacity DEF Capacity
    <2>9. \A other \in Admins : job'[other] = "idle"
      BY <2>1 DEF TypeOK
    <2>10. ASSUME Settled PROVE maxInflightPerAccount' = maxInflightPerAccount /\ Capacity' = Capacity
      BY <2>1, <2>3, <2>8, <2>10 DEF LimitsFollow
    <2>11. CapacityFor(runtime, Cardinality(stored))' = CapacityFor(runtime, Cardinality(stored))
      BY <1>2, <2>6 DEF CapacityFor
    <2>12. LimitsFollow'
      BY <1>2, <2>1, <2>3, <2>7, <2>8, <2>9, <2>11 DEF LimitsFollow
    <2>13. SlotsOK'
      BY <2>1, <2>6, <2>7, <2>10 DEF SlotsOK, Slots
    <2>. QED BY <2>7, <2>10, <2>12, <2>13
  <1>9. CASE UpdateUnsaved(adm)
    <2>1. /\ job[adm] = "idle" /\ UNCHANGED <<ledger, limits, adminVars>>
          /\ unseen' = (unseen \/ listed' # listed)
      BY <1>9 DEF UpdateUnsaved
    <2>2. \A other \in Admins : job'[other] = "idle"
      BY <2>1 DEF adminVars
    <2>3. ASSUME Settled'
          PROVE  Settled /\ stored' = stored /\ Offered' = Offered /\ Capacity' = Capacity /\ Slots' = Slots
      <3>1. Settled /\ listed' = listed
        BY <2>1, <2>3 DEF Settled, Resetting, adminVars
      <3>. QED BY <2>1, <3>1 DEF Capacity, Slots, Offered, stored, ledger, limits
    <2>4. LimitsFollow'
      BY <1>2, <2>1, <2>2, <2>3 DEF LimitsFollow, CapacityFor, limits
    <2>5. SlotsOK'
      BY <2>1, <2>3 DEF SlotsOK, ledger
    <2>. QED BY <2>3, <2>4, <2>5
  <1>. QED BY <1>4, <1>5, <1>6, <1>7, <1>8, <1>9 DEF AdminWork

\* The wakeups themselves

LEMMA ComingFinite == IsFiniteSet(Coming) /\ Cardinality(Coming) \in Nat
  BY FS_Subset, FS_CardinalityType, RequestsAssumption DEF Coming

LEMMA ComingFiniteNext == IsFiniteSet(Coming') /\ Cardinality(Coming') \in Nat
  BY FS_Subset, FS_CardinalityType, RequestsAssumption DEF Coming

\* More requests on their way, or the same.
LEMMA ComingMore ==
    ASSUME Coming \subseteq Coming' PROVE Cardinality(Coming) <= Cardinality(Coming')
  BY ComingFinite, ComingFiniteNext, FS_Subset

LEMMA ComingOneMore ==
    ASSUME Coming \subseteq Coming', NEW h, h \in Coming', h \notin Coming
    PROVE  Cardinality(Coming) + 1 <= Cardinality(Coming')
  <1>1. Cardinality(Coming \cup {h}) = Cardinality(Coming) + 1
    BY ComingFinite, FS_AddElement
  <1>2. Cardinality(Coming \cup {h}) <= Cardinality(Coming')
    BY ComingFiniteNext, FS_Subset
  <1>. QED BY <1>1, <1>2

\* One slot more is taken, or one fewer.
LEMMA TakenChanges ==
    ASSUME TypeOK, TypeOK', NEW a \in Accounts,
           \A b \in Accounts \ {a} : inUse'[b] = inUse[b]
    PROVE  /\ currentInUse \in Nat /\ currentInUse' \in Nat
           /\ currentInUse' = currentInUse - inUse[a] + inUse'[a]
  <1>1. inUse \in [Accounts -> Nat] /\ inUse' \in [Accounts -> Nat]
    BY DEF TypeOK, LedgerTypeOK
  <1>2. SumFunction(inUse) \in Nat /\ SumFunction(inUse') \in Nat
    BY <1>1, SumNat, AccountsAssumption
  <1>3. SumFunction(inUse') = SumFunction(inUse) - inUse[a] + inUse'[a]
    BY <1>1, SumChange, AccountsAssumption
  <1>. QED BY <1>2, <1>3 DEF currentInUse

\* A request takes a slot where it was on its way to one; a release that frees
\* a slot sends the next waiter; nobody parks or is refused while there is room.
LEMMA RequestWakes ==
    ASSUME Cancellable = {}, TypeOK, RotationInv, RotationInv', PlainAsk,
           LineOK, NobodyCancelled, LimitsFollow, SlotsOK, WakeupsSuffice,
           NEW r \in Requests, Call(r) \/ Cancel(r) \/ AcquireWait(r) \/ Release(r)
    PROVE  WakeupsSuffice'
  <1>1. /\ UNCHANGED <<listed, runtime, unseen, limits, adminVars>>
        /\ Settled => Capacity' = Capacity
    BY RequestLimits
  <1>. SUFFICES ASSUME Settled, waiters' # <<>>
                PROVE  Capacity <= currentInUse' + Cardinality(Coming')
    BY <1>1 DEF WakeupsSuffice, Settled, Resetting, adminVars
  <1>2. TypeOK' /\ LineOK'
    BY RequestStepType, RequestLine
  <1>4. Capacity \in Nat
    BY CapacityType
  <1>5. currentInUse \in Nat /\ currentInUse' \in Nat
    BY <1>2, SumNat, AccountsAssumption DEF currentInUse, TypeOK, LedgerTypeOK
  <1>6. ask[r].target = NoAccount /\ ask[r].exclude = {}
    BY DEF PlainAsk, NoAsk
  <1>7. Cardinality(Coming) \in Nat /\ Cardinality(Coming') \in Nat
    BY ComingFinite, ComingFiniteNext
  <1>8. CASE Refuse(r) \/ Park(r)
    <2>1. Candidates(NoAccount, {}) = {} /\ inUse' = inUse
      BY <1>6, <1>8 DEF Refuse, Park, ledger
    <2>2. Capacity <= currentInUse
      BY <2>1, FullPool
    <2>3. currentInUse' = currentInUse
      BY <2>1 DEF currentInUse
    <2>. QED BY <1>4, <1>5, <1>7, <2>2, <2>3
  <1>9. CASE Call(r) \/ CheckContext(r) \/ WakeUp(r)
    <2>1. waiters' = waiters /\ inUse' = inUse
      BY <1>9 DEF Call, CheckContext, WakeUp, ledger
    <2>2. \A q \in Requests : Waiting(q)' <=> Waiting(q)
      BY <2>1 DEF Waiting
    <2>3. pc[r] = "new" \/ (pc'[r] \in {"loop", "lock"})
      BY <1>9 DEF Call, CheckContext, WakeUp, Goto, TypeOK, NobodyCancelled
    <2>4. \A q \in Requests : q # r => pc'[q] = pc[q]
      BY <1>9 DEF Call, CheckContext, WakeUp, Goto, TypeOK
    <2>5. Coming \subseteq Coming'
      BY <2>2, <2>3, <2>4 DEF Coming
    <2>6. Capacity <= currentInUse + Cardinality(Coming) /\ currentInUse' = currentInUse
      BY <2>1 DEF WakeupsSuffice, currentInUse
    <2>7. Cardinality(Coming) <= Cardinality(Coming')
      BY <2>5, ComingMore
    <2>. QED BY <1>4, <1>5, <1>7, <2>6, <2>7
  <1>10. CASE Grant(r)
    <2>1. waiters' = waiters /\ pc[r] = "lock" /\ pc' = [pc EXCEPT ![r] = "holding"]
      BY <1>10 DEF Grant, Goto
    <2>2. PICK a \in Accounts : inUse' = [inUse EXCEPT ![a] = @ + 1]
      BY <1>10, GrantStep
    <2>3. inUse'[a] = inUse[a] + 1 /\ inUse[a] \in Nat
          /\ \A b \in Accounts \ {a} : inUse'[b] = inUse[b]
      BY <2>2 DEF TypeOK, LedgerTypeOK
    <2>4. currentInUse' = currentInUse - inUse[a] + inUse'[a]
      BY <1>2, <2>3, TakenChanges
    <2>5. currentInUse' = currentInUse + 1
      BY <1>5, <2>3, <2>4
    <2>6. Coming' = Coming \ {r} /\ r \in Coming
      BY <2>1 DEF Coming, Waiting, TypeOK
    <2>7. Cardinality(Coming') = Cardinality(Coming) - 1
      BY <2>6, ComingFinite, FS_RemoveElement
    <2>8. Capacity <= currentInUse + Cardinality(Coming)
      BY <2>1 DEF WakeupsSuffice
    <2>. QED BY <1>4, <1>5, <1>7, <2>5, <2>7, <2>8
  <1>11. CASE Release(r)
    <2>1. pc[r] = "holding" /\ pc' = [pc EXCEPT ![r] = "released"] /\ lease[r] \in Accounts
      BY <1>11 DEF Release, Goto, TypeOK
    <2>2. PICK a \in Accounts : a = lease[r]
      BY <2>1
    <2>3. /\ inUse'[a] = IF inUse[a] > 0 THEN inUse[a] - 1 ELSE 0
          /\ \A b \in Accounts \ {a} : inUse'[b] = inUse[b]
          /\ inUse[a] \in Nat
      BY <1>11, <2>1, <2>2, ReleaseEffect DEF Release, TypeOK, LedgerTypeOK
    <2>4. currentInUse' = currentInUse - inUse[a] + inUse'[a]
      BY <1>2, <2>3, TakenChanges
    <2>5. \A q \in Requests : q # r => pc'[q] = pc[q]
      BY <2>1 DEF TypeOK
    <2>6. r \notin Coming
      BY <2>1 DEF Coming
    <2>7. CASE inUse[a] > 0
      <3>1. notifyWaiterLocked
        BY <1>11, <2>2, <2>7 DEF Release
      <3>2. waiters # <<>>
        BY <3>1, NotifyLine
      <3>3. \A q \in Requests : Waiting(q)' => Waiting(q)
        BY <3>1, NotifyLine
      <3>4. PICK h \in Requests : Waiting(h) /\ ~Waiting(h)'
        BY <3>1, <3>2, NotifyLine
      <3>5. Coming \subseteq Coming'
        BY <2>5, <2>6, <3>3 DEF Coming
      <3>6. pc[h] = "parked" /\ h # r
        BY <2>1, <3>4 DEF LineOK
      <3>7. h \in Coming' /\ h \notin Coming
        BY <2>5, <3>4, <3>6 DEF Coming
      <3>8. Cardinality(Coming) + 1 <= Cardinality(Coming')
        BY <3>5, <3>7, ComingOneMore
      <3>9. currentInUse' = currentInUse - 1
        BY <1>5, <2>3, <2>4, <2>7
      <3>10. Capacity <= currentInUse + Cardinality(Coming)
        BY <3>2 DEF WakeupsSuffice
      <3>. QED BY <1>4, <1>5, <1>7, <3>8, <3>9, <3>10
    <2>8. CASE ~(inUse[a] > 0)
      <3>1. waiters' = waiters
        BY <1>11, <2>2, <2>8 DEF Release
      <3>2. currentInUse' = currentInUse
        BY <1>5, <2>3, <2>4, <2>8
      <3>3. Coming \subseteq Coming'
        BY <2>5, <2>6, <3>1 DEF Coming, Waiting
      <3>4. Cardinality(Coming) <= Cardinality(Coming')
        BY <3>3, ComingMore
      <3>5. Capacity <= currentInUse + Cardinality(Coming)
        BY <3>1 DEF WakeupsSuffice
      <3>. QED BY <1>4, <1>5, <1>7, <3>2, <3>4, <3>5
    <2>. QED BY <2>7, <2>8
  <1>12. ~Cancel(r) /\ ~Abandon(r)
    BY DEF Cancel, Abandon, NobodyCancelled
  <1>. QED BY <1>8, <1>9, <1>10, <1>11, <1>12 DEF AcquireWait

\* A reset sends everybody; a change of limits that changes nothing sends one.
LEMMA AdminWakes ==
    ASSUME OneAdmin, OneSetting, TypeOK, RotationInv, RotationInv',
           LineOK, LimitsFollow, SlotsOK, WakeupsSuffice,
           NEW adm \in Admins,
           UpdateAccounts(adm) \/ UpdateUnsaved(adm) \/ UpdateSettings(adm) \/ AdminWork(adm)
    PROVE  WakeupsSuffice'
  <1>1. TypeOK'
    BY AdminStepType
  <1>2. pc' = pc
    BY DEF UpdateAccounts, UpdateUnsaved, UpdateSettings, AdminWork, ResetSnapshot, ResetInstall,
           ApplyRuntimeLimits, requestVars
  <1>3. CASE UpdateAccounts(adm) \/ ResetSnapshot(adm)
    <2>1. Resetting'
      BY <1>3 DEF UpdateAccounts, ResetSnapshot, Proceed, Resetting, TypeOK
    <2>. QED BY <2>1 DEF WakeupsSuffice, Settled
  <1>4. CASE ResetInstall(adm)
    BY <1>4 DEF ResetInstall, drainWaitersLocked, WakeupsSuffice
  <1>5. CASE UpdateUnsaved(adm) \/ UpdateSettings(adm) \/ ApplyRuntimeLimits(adm)
    <2>1. /\ job[adm] \in {"idle", "limits"} /\ job'[adm] \in {"idle", "limits"}
          /\ inUse' = inUse
          /\ waiters' = waiters \/ notifyWaiterLocked
          /\ ~unseen' => ~unseen
      BY <1>5 DEF UpdateUnsaved, UpdateSettings, ApplyRuntimeLimits, Proceed, config, ledger,
                  adminVars, TypeOK
    <2>2. Settled' => Settled
      BY <2>1 DEF OneAdmin, Settled, Resetting
    <2>3. Settled' => Capacity' = Capacity
      BY <2>2, AdminLimits
    <2>5. Capacity \in Nat
      BY CapacityType
    <2>6. currentInUse \in Nat /\ currentInUse' = currentInUse
      BY <2>1, SumNat, AccountsAssumption DEF currentInUse, TypeOK, LedgerTypeOK
    <2>7. \A q \in Requests : Waiting(q)' => Waiting(q)
      BY <2>1, NotifyLine DEF Waiting
    <2>8. waiters' # <<>> => waiters # <<>>
      BY <2>1, NotifyLine
    <2>9. Coming \subseteq Coming'
      BY <1>2, <2>7 DEF Coming
    <2>10. Cardinality(Coming) <= Cardinality(Coming')
      BY <2>9, ComingMore
    <2>11. Cardinality(Coming) \in Nat /\ Cardinality(Coming') \in Nat
      BY ComingFinite, ComingFiniteNext
    <2>12. ASSUME Settled', waiters' # <<>>
           PROVE  Capacity' <= currentInUse' + Cardinality(Coming')
      <3>1. Capacity <= currentInUse + Cardinality(Coming)
        BY <2>2, <2>8, <2>12 DEF WakeupsSuffice
      <3>2. Capacity' = Capacity
        BY <2>3, <2>12
      <3>. QED BY <2>5, <2>6, <2>10, <2>11, <3>1, <3>2
    <2>. QED BY <2>12 DEF WakeupsSuffice
  <1>. QED BY <1>3, <1>4, <1>5 DEF AdminWork

\* Everything the wakeups depend on, while nobody changes the limits.
LineInv == LineOK /\ NobodyCancelled /\ LimitsFollow /\ SlotsOK /\ WakeupsSuffice

OnlyResets == Admins = {} \/ (OneAdmin /\ OneSetting)

LEMMA LineInvStep ==
    ASSUME Cancellable = {}, OnlyResets
    PROVE  /\ TypeOK /\ RotationInv /\ RotationInv' /\ PlainAsk /\ LineInv /\ [Next]_vars
           => LineInv'
  <1>. SUFFICES ASSUME TypeOK, RotationInv, RotationInv', PlainAsk, LineInv, [Next]_vars
                PROVE  LineInv'
    OBVIOUS
  <1>. USE DEF LineInv
  <1>1. LineOK' /\ NobodyCancelled'
    BY LineStep
  <1>2. ASSUME NEW r \in Requests, Call(r) \/ Cancel(r) \/ AcquireWait(r) \/ Release(r)
        PROVE  LimitsFollow' /\ SlotsOK' /\ WakeupsSuffice'
    <2>1. LimitsFollow' /\ SlotsOK'
      BY <1>2, RequestLimits
    <2>2. WakeupsSuffice'
      BY <1>2, RequestWakes
    <2>. QED BY <2>1, <2>2
  <1>3. ASSUME NEW adm \in Admins,
               UpdateAccounts(adm) \/ UpdateUnsaved(adm) \/ UpdateSettings(adm) \/ AdminWork(adm)
        PROVE  LimitsFollow' /\ SlotsOK' /\ WakeupsSuffice'
    <2>1. OneAdmin /\ OneSetting
      BY DEF OnlyResets
    <2>2. LimitsFollow' /\ SlotsOK'
      BY <1>3, <2>1, AdminLimits
    <2>3. WakeupsSuffice'
      BY <1>3, <2>1, AdminWakes
    <2>. QED BY <2>2, <2>3
  <1>4. CASE UNCHANGED vars
    <2>1. UNCHANGED <<listed, runtime, unseen, queue, inUse, maxInflightPerAccount,
                      globalMaxInflight, waiters, pc, job, plan>>
      BY <1>4 DEF vars, config, ledger, limits, requestVars, adminVars
    <2>2. (Settled' <=> Settled) /\ stored' = stored /\ Offered' = Offered
      BY <2>1 DEF Settled, Resetting, Offered, stored
    <2>3. Capacity' = Capacity /\ CapacityFor(runtime, Cardinality(stored))' = CapacityFor(runtime, Cardinality(stored))
      BY <2>1, <2>2 DEF Capacity, CapacityFor
    <2>4. LimitsFollow'
      BY <2>1, <2>2, <2>3 DEF LimitsFollow, ResetPlan, LimitsFor
    <2>5. SlotsOK'
      BY <2>1, <2>2 DEF SlotsOK, Slots
    <2>6. WakeupsSuffice'
      BY <2>1, <2>2, <2>3 DEF WakeupsSuffice, currentInUse, Coming, Waiting
    <2>. QED BY <1>1, <2>4, <2>5, <2>6
  <1>5. \/ \E r \in Requests : Call(r) \/ Cancel(r) \/ AcquireWait(r) \/ Release(r)
        \/ \E adm \in Admins : UpdateAccounts(adm) \/ UpdateUnsaved(adm) \/ UpdateSettings(adm) \/ AdminWork(adm)
        \/ UNCHANGED vars
    BY DEF Next, Terminated
  <1>6. LimitsFollow' /\ SlotsOK' /\ WakeupsSuffice'
    BY <1>2, <1>3, <1>4, <1>5
  <1>. QED BY <1>1, <1>6

LEMMA InitLine == Init => LineInv
  <1>. SUFFICES ASSUME Init PROVE LineInv
    OBVIOUS
  <1>1. LimitsFollow /\ SlotsOK
    BY InitLimits
  <1>2. waiters = <<>> /\ NobodyCancelled
    BY DEF Init, NobodyCancelled
  <1>3. LineOK /\ WakeupsSuffice
    BY <1>2 DEF LineOK, Waiting, IsInjective, WakeupsSuffice
  <1>. QED BY <1>1, <1>2, <1>3 DEF LineInv

\* The wakeups that are under way suffice, so a waiter that could be served is
\* not left alone.
LEMMA NobodyStranded ==
    TypeOK /\ RotationInv /\ PlainAsk /\ LineInv => NoStrandedWaiter
  <1>. SUFFICES ASSUME TypeOK, RotationInv, PlainAsk, LineInv, ~unseen, NEW r \in Requests,
                       Waiting(r), Candidates(ask[r].target, ask[r].exclude) # {}, ~OnTheWay
                PROVE  FALSE
    BY DEF NoStrandedWaiter
  <1>1. Settled
    BY DEF OnTheWay, Settled
  <1>2. \A a \in Accounts : inUse[a] <= Slots[a]
    BY <1>1 DEF LineInv, SlotsOK
  <1>3. Candidates(NoAccount, {}) # {}
    BY DEF PlainAsk, NoAsk
  <1>4. /\ globalMaxInflight > 0 => currentInUse < globalMaxInflight
        /\ currentInUse < maxInflightPerAccount * Cardinality(Offered)
    BY <1>2, <1>3, CandidateIsRoom DEF TypeOK
  <1>5. currentInUse < Capacity
    BY <1>4 DEF Capacity
  <1>6. waiters # <<>>
    BY DEF Waiting
  <1>7. Capacity <= currentInUse + Cardinality(Coming)
    BY <1>1, <1>6 DEF LineInv, WakeupsSuffice
  <1>8. Coming = {}
    BY DEF OnTheWay, Coming
  <1>9. Cardinality(Coming) = 0
    BY <1>8, FS_EmptySet
  <1>10. Capacity \in Nat
    BY CapacityType
  <1>11. currentInUse \in Nat
    BY SumNat, AccountsAssumption DEF currentInUse, TypeOK, LedgerTypeOK
  <1>. QED BY <1>5, <1>7, <1>9, <1>10, <1>11

LEMMA LineSafe ==
    ASSUME Cancellable = {}, Asks \subseteq {NoAsk}, OnlyResets
    PROVE  Spec => [](TypeOK /\ RotationInv /\ PlainAsk /\ LineInv)
  <1>1. Init => RotationInv /\ PlainAsk
    BY InitRotation DEF Init, PlainAsk
  <1>2. \A one, other \in Admins : one = other
    BY DEF OnlyResets, OneAdmin
  <1>3. TypeOK /\ RotationInv /\ [Next]_vars => RotationInv'
    BY <1>2, RotationStep
  <1>. QED
    BY <1>1, <1>3, InitLine, LineInvStep, PlainAskStep, TypeCorrect, PTL DEF Spec

\* While no caller gives up and the limits stay what they are, however many
\* requests take, share and return the slots and however often a reset forgets
\* them: nobody waits beside an account it could have while nobody is on the
\* way to the pool, unless a failed save has changed the accounts in memory and
\* no reset has come since.
THEOREM NoWakeupIsLost ==
    ASSUME Cancellable = {}, Asks \subseteq {NoAsk}, OnlyResets
    PROVE  Spec => []NoStrandedWaiter
  BY LineSafe, NobodyStranded, PTL

-----------------------------------------------------------------------------
\* The leases of the service behind the pool

LEMMA ServedByIsHolders ==
    ASSUME TypeOK, NEW a \in Accounts PROVE Service!ServedBy(a) = Holders(a)
  <1>1. ASSUME NEW r \in Requests PROVE PhaseOf(r) = "served" <=> lease[r] # NoAccount
    BY DEF PhaseOf, TypeOK, Phases
  <1>. QED
    BY <1>1, AccountsAssumption DEF Service!ServedBy, Service!Served, Holders

\* A request that moves changes its own phase only.
LEMMA PhaseStep ==
    ASSUME TypeOK, NEW r \in Requests, NEW to \in Phases, pc' = [pc EXCEPT ![r] = to]
    PROVE  [q \in Requests |-> PhaseOf(q)]'
              = [[q \in Requests |-> PhaseOf(q)] EXCEPT ![r] = PhaseOf(r)']
  BY DEF PhaseOf, TypeOK, Phases

LEMMA GrantLends ==
    ASSUME TypeOK, FixedPool, NEW r \in Requests, Grant(r)
    PROVE  Service!Lend(r)
  <1>1. PICK a \in Accounts : /\ acquireLocked(ask[r].target, ask[r].exclude, a)
                              /\ lease' = [lease EXCEPT ![r] = a]
    BY DEF Grant
  <1>2. ask[r].target \in Accounts \cup {NoAccount}
    BY DEF TypeOK
  <1>3. Usable(a, ask[r].exclude)
    BY <1>1, <1>2, AcquireEffect DEF TypeOK
  <1>4. a \in stored /\ Cardinality(Service!ServedBy(a)) < maxInflightPerAccount
    BY <1>3, ServedByIsHolders DEF Usable, canAcquireID, FixedPool, LedgerExact
  <1>5. pc[r] = "lock" /\ pc' = [pc EXCEPT ![r] = "holding"]
    BY DEF Grant, Goto
  <1>6. PhaseOf(r) = "asking" /\ PhaseOf(r)' = "served"
    BY <1>5 DEF PhaseOf, TypeOK
  <1>7. Service!Becomes(r, "asking", "served")
    BY <1>5, <1>6, PhaseStep DEF Service!Becomes, Phases
  <1>8. Service!Cardinality(Service!ServedBy(a)) = Cardinality(Service!ServedBy(a))
    BY DEF Service!Cardinality, Cardinality
  <1>. QED
    BY <1>1, <1>4, <1>7, <1>8 DEF Service!Lend, Service!terms, Grant, config, stored, limits

LEMMA ReleaseReturns ==
    ASSUME TypeOK, NEW r \in Requests, Release(r)
    PROVE  Service!Return(r)
  <1>1. pc[r] = "holding" /\ pc' = [pc EXCEPT ![r] = "released"]
    BY DEF Release, Goto
  <1>2. PhaseOf(r) = "served" /\ PhaseOf(r)' = "over"
    BY <1>1 DEF PhaseOf, TypeOK
  <1>3. Service!Becomes(r, "served", "over")
    BY <1>1, <1>2, PhaseStep DEF Service!Becomes, Phases
  <1>. QED BY <1>3 DEF Service!Return, Service!terms, Release, config, stored, limits

\* Asking, waiting and being refused lend and return nothing.
LEMMA OtherStepKeepsLeases ==
    ASSUME TypeOK, NEW r \in Requests,
           \/ Call(r) \/ Cancel(r) \/ CheckContext(r) \/ Refuse(r) \/ Park(r)
           \/ WakeUp(r) \/ Abandon(r)
    PROVE  [Service!LeaseNext]_(Service!serviceVars)
  <1>1. UNCHANGED <<stored, limits, lease>>
    BY DEF Call, Cancel, CheckContext, Refuse, Park, WakeUp, Abandon, config, stored, limits
  <1>2. CASE pc' = pc
    BY <1>1, <1>2 DEF Service!serviceVars, Service!terms, limits, PhaseOf
  <1>3. CASE \E to \in {"loop", "lock", "parked", "refused"} : pc' = [pc EXCEPT ![r] = to]
    <2>1. PICK to \in {"loop", "lock", "parked", "refused"} : pc' = [pc EXCEPT ![r] = to]
      BY <1>3
    <2>2. /\ pc[r] = "new" => PhaseOf(r) = "out"
          /\ pc[r] \in {"loop", "lock", "parked"} => PhaseOf(r) = "asking"
          /\ PhaseOf(r)' = IF to = "refused" THEN "refused" ELSE "asking"
      BY <2>1 DEF PhaseOf, TypeOK
    <2>3. pc[r] \in {"new", "loop", "lock", "parked"}
      BY <2>1 DEF Call, Cancel, CheckContext, Refuse, Park, WakeUp, Abandon, Goto
    <2>. DEFINE phases == [q \in Requests |-> PhaseOf(q)]
    <2>4. phases' = [phases EXCEPT ![r] = PhaseOf(r)']
      BY <2>1, PhaseStep DEF Phases
    <2>5. CASE PhaseOf(r)' = PhaseOf(r)
      <3>1. phases' = phases
        BY <2>4, <2>5
      <3>. QED BY <1>1, <3>1 DEF Service!serviceVars, Service!terms, limits
    <2>6. CASE PhaseOf(r) = "out" /\ PhaseOf(r)' = "asking"
      <3>1. Service!Ask(r)
        BY <1>1, <2>4, <2>6 DEF Service!Ask, Service!Becomes, Service!terms, limits
      <3>. QED BY <3>1 DEF Service!LeaseNext
    <2>7. CASE PhaseOf(r) \in {"out", "asking"} /\ PhaseOf(r)' = "refused"
      <3>1. /\ Service!Becomes(r, "out", "refused") \/ Service!Becomes(r, "asking", "refused")
            /\ UNCHANGED <<Service!terms, lease>>
        BY <1>1, <2>4, <2>7 DEF Service!Becomes, Service!terms, limits
      <3>. QED BY <3>1 DEF Service!LeaseNext
    <2>. QED BY <2>2, <2>3, <2>5, <2>6, <2>7
  <1>. QED
    BY <1>2, <1>3 DEF Call, Cancel, CheckContext, Refuse, Park, WakeUp, Abandon, Goto, requestVars

LEMMA ImplementsStep ==
    ASSUME Admins = {} PROVE
    TypeOK /\ FixedPool /\ [Next]_vars => [Service!LeaseNext]_(Service!serviceVars)
  <1>. SUFFICES ASSUME TypeOK, FixedPool, [Next]_vars
                PROVE  [Service!LeaseNext]_(Service!serviceVars)
    OBVIOUS
  <1>1. CASE UNCHANGED vars
    BY <1>1 DEF vars, config, stored, limits, requestVars, Service!serviceVars, Service!terms, PhaseOf
  <1>2. ASSUME NEW r \in Requests, Grant(r) PROVE Service!LeaseNext
    BY <1>2, GrantLends DEF Service!LeaseNext
  <1>3. ASSUME NEW r \in Requests, Release(r) PROVE Service!LeaseNext
    BY <1>3, ReleaseReturns DEF Service!LeaseNext
  <1>. QED
    BY <1>1, <1>2, <1>3, OtherStepKeepsLeases DEF Next, AcquireWait, Terminated

\* With nobody resetting the pool, its ledger and wait queue implement the
\* leases of the service: an account is lent only while fewer requests than
\* the limit have it, and every lease ends with one return.
THEOREM ImplementsLeases == ASSUME Admins = {} PROVE Spec => Service!LeaseSpec
  <1>1. Init => Service!Init
    BY DEF Init, Service!Init, PhaseOf
  <1>. QED
    BY <1>1, ImplementsStep, TypeCorrect, FixedPoolSafe, PTL DEF Spec, Service!LeaseSpec

-----------------------------------------------------------------------------
\* The whole service, but for its liveness

\* Pool.inUse counts the requests being served, all together.
LEMMA TakenIsLeases ==
    ASSUME TypeOK, FixedPool, LoadCounted PROVE currentInUse = Cardinality(Leases)
  <1>1. inUse = Load
    BY DEF FixedPool, LedgerExact, Load, TypeOK, LedgerTypeOK
  <1>. QED BY <1>1 DEF LoadCounted, currentInUse

LEMMA ServedIsLeases == ASSUME TypeOK PROVE Service!Served = Leases
  <1>1. ASSUME NEW r \in Requests PROVE PhaseOf(r) = "served" <=> lease[r] # NoAccount
    BY DEF PhaseOf, TypeOK, Phases
  <1>. QED BY <1>1 DEF Service!Served, Leases

\* Those who stand in the line ask, and there are as many as it is long.
LEMMA LineIsAsking ==
    ASSUME TypeOK, LineOK, NEW r \in Requests, pc[r] = "lock"
    PROVE  Len(waiters) <= Cardinality(Service!Asking \ {r})
  <1>. DEFINE A == Service!Asking \ {r}
  <1>1. Len(waiters) \in Nat /\ DOMAIN waiters = 1..Len(waiters)
    BY DEF TypeOK
  <1>2. ASSUME NEW i \in DOMAIN waiters PROVE waiters[i] \in A
    <2>1. waiters[i] \in Requests /\ Waiting(waiters[i])
      BY DEF TypeOK, Waiting
    <2>2. pc[waiters[i]] = "parked"
      BY <2>1 DEF LineOK
    <2>. QED BY <2>1, <2>2 DEF Service!Asking, PhaseOf
  <1>3. IsFiniteSet(A)
    <2>1. A \in SUBSET Requests
      BY DEF Service!Asking
    <2>. HIDE DEF A
    <2>. QED BY <2>1, FS_Subset, RequestsAssumption
  <1>. HIDE DEF A
  <1>4. waiters \in Injection(1..Len(waiters), A)
    <2>1. waiters \in [1..Len(waiters) -> A]
      BY <1>1, <1>2 DEF TypeOK
    <2>. QED BY <2>1 DEF LineOK, Injection, IsInjective
  <1>5. Cardinality(1..Len(waiters)) <= Cardinality(A)
    BY <1>3, <1>4, FS_Injection
  <1>6. ASSUME NEW n \in Nat PROVE Cardinality(1..n) = n
    BY FS_Interval
  <1>7. Len(waiters) <= Cardinality(A)
    BY <1>1, <1>5, <1>6
  <1>. QED BY <1>7 DEF A

LEMMA ServiceCardinality ==
    ASSUME NEW S PROVE Service!Cardinality(S) = Cardinality(S)
  BY DEF Service!Cardinality, Cardinality

\* The pool's capacity is the service's.
LEMMA SameCapacity ==
    ASSUME TypeOK, RotationInv, Settled PROVE Service!Capacity = Capacity
  <1>1. Offered = stored
    BY SettledOffers
  <1>. QED BY <1>1, ServiceCardinality DEF Service!Capacity, Capacity

LEMMA GrantServes ==
    ASSUME TypeOK, FixedPool, LoadCounted, NEW r \in Requests, Grant(r)
    PROVE  Service!Serve(r)
  <1>1. PICK a \in Accounts : acquireLocked(ask[r].target, ask[r].exclude, a)
    BY DEF Grant
  <1>2. ask[r].target \in Accounts \cup {NoAccount}
    BY DEF TypeOK
  <1>3. Usable(a, ask[r].exclude)
    BY <1>1, <1>2, AcquireEffect DEF TypeOK
  <1>4. globalMaxInflight > 0 => Cardinality(Leases) < globalMaxInflight
    BY <1>3, TakenIsLeases DEF Usable, canAcquireID
  <1>5. Service!Lend(r)
    BY GrantLends
  <1>6. Service!Served = Leases
    BY ServedIsLeases
  <1>. QED BY <1>4, <1>5, <1>6, ServiceCardinality DEF Service!Serve

LEMMA RefuseRefuses ==
    ASSUME TypeOK, FixedPool, LoadCounted, PlainAsk, LineOK, RotationInv, Settled,
           NEW r \in Requests, Refuse(r)
    PROVE  Service!Refuse(r)
  <1>1. pc[r] = "lock" /\ pc' = [pc EXCEPT ![r] = "refused"]
    BY DEF Refuse, Goto
  <1>2. ask[r].target = NoAccount /\ ask[r].exclude = {}
    BY DEF PlainAsk, NoAsk
  <1>3. Candidates(NoAccount, {}) = {} /\ ~(Len(waiters) < maxQueueSize)
    BY <1>2 DEF Refuse, canQueueLocked
  <1>4. Cardinality(Service!Served) >= Service!Capacity
    <2>1. Capacity \in Nat /\ Capacity <= currentInUse
      BY <1>3, FullPool
    <2>2. currentInUse = Cardinality(Leases)
      BY TakenIsLeases
    <2>. QED BY <2>1, <2>2, SameCapacity, ServedIsLeases, LeasesFinite
  <1>5. Len(waiters) <= Cardinality(Service!Asking \ {r})
    BY <1>1, LineIsAsking
  <1>6. Cardinality(Service!Asking \ {r}) \in Nat
    <2>1. Service!Asking \ {r} \in SUBSET Requests
      BY DEF Service!Asking
    <2>2. ASSUME NEW A \in SUBSET Requests PROVE Cardinality(A) \in Nat
      BY FS_Subset, FS_CardinalityType, RequestsAssumption
    <2>. QED BY <2>1, <2>2
  <1>7. Len(waiters) \in Nat /\ maxQueueSize \in Nat
    BY DEF TypeOK
  <1>8. Cardinality(Service!Asking \ {r}) >= maxQueueSize
    BY <1>3, <1>5, <1>6, <1>7
  <1>9. PhaseOf(r) = "asking" /\ PhaseOf(r)' = "refused"
    BY <1>1 DEF PhaseOf, TypeOK
  <1>10. Service!Becomes(r, "asking", "refused")
    BY <1>1, <1>9, PhaseStep DEF Service!Becomes, Phases
  <1>11. UNCHANGED <<stored, limits, lease>>
    BY DEF Refuse, config, stored
  <1>. QED
    BY <1>4, <1>8, <1>10, <1>11, ServiceCardinality DEF Service!Refuse, Service!terms, limits

\* A call asks, or finds a pool without accounts.
LEMMA CallAsks ==
    ASSUME TypeOK, Asks \subseteq {NoAsk}, NEW r \in Requests, Call(r)
    PROVE  Service!Ask(r)
  <1>1. UNCHANGED <<stored, limits, lease>>
    BY DEF Call, config, stored
  <1>2. pc[r] = "new" /\ PhaseOf(r) = "out"
    BY DEF Call, Goto, PhaseOf
  <1>3. CASE pc' = [pc EXCEPT ![r] = "loop"]
    <2>1. PhaseOf(r)' = "asking"
      BY <1>3 DEF PhaseOf, TypeOK
    <2>2. Service!Becomes(r, "out", "asking")
      BY <1>2, <1>3, <2>1, PhaseStep DEF Service!Becomes, Phases
    <2>. QED BY <1>1, <2>2 DEF Service!Ask, Service!terms, limits
  <1>4. CASE pc' # [pc EXCEPT ![r] = "loop"]
    <2>1. PICK a \in Asks :
             pc' = [pc EXCEPT ![r] = IF a.target = NoAccount
                                        /\ Cardinality(a.exclude) >= Len(listed)
                                     THEN "refused" ELSE "loop"]
      BY DEF Call, Goto
    <2>2. /\ pc' = [pc EXCEPT ![r] = "refused"]
          /\ Cardinality({}) >= Len(listed)
      <3>1. a.exclude = {}
        BY DEF NoAsk
      <3>. QED BY <1>4, <2>1, <3>1
    <2>3. listed \in Seq(Accounts) /\ Cardinality({}) = 0
      BY FS_EmptySet DEF TypeOK, LedgerTypeOK
    <2>4. stored = {}
      <3>1. Len(listed) = 0
        BY <2>2, <2>3
      <3>2. listed = <<>>
        BY <2>3, <3>1
      <3>. QED BY <3>2 DEF stored, Range
    <2>5. PhaseOf(r)' = "refused"
      BY <2>2 DEF PhaseOf, TypeOK
    <2>6. Service!Becomes(r, "out", "refused")
      BY <1>2, <2>2, <2>5, PhaseStep DEF Service!Becomes, Phases
    <2>. QED BY <1>1, <2>4, <2>6 DEF Service!Ask, Service!terms, limits
  <1>. QED BY <1>3, <1>4

\* Whatever else a request does, it goes on asking.
LEMMA OthersStutter ==
    ASSUME TypeOK, NobodyCancelled, Cancellable = {}, NEW r \in Requests,
           Cancel(r) \/ CheckContext(r) \/ Park(r) \/ WakeUp(r) \/ Abandon(r)
    PROVE  UNCHANGED Service!serviceVars
  <1>1. UNCHANGED <<stored, limits, lease>>
    BY DEF Cancel, CheckContext, Park, WakeUp, Abandon, config, stored
  <1>2. pc[r] \in {"loop", "lock", "parked"}
    BY DEF Cancel, CheckContext, Park, WakeUp, Abandon, Goto
  <1>3. PICK to \in {"loop", "lock", "parked"} : pc' = [pc EXCEPT ![r] = to]
    BY DEF Cancel, CheckContext, Park, WakeUp, Abandon, Goto, NobodyCancelled
  <1>4. ASSUME NEW q \in Requests PROVE PhaseOf(q)' = PhaseOf(q)
    BY <1>2, <1>3 DEF PhaseOf, TypeOK
  <1>5. [q \in Requests |-> PhaseOf(q)]' = [q \in Requests |-> PhaseOf(q)]
    BY <1>4
  <1>. QED BY <1>1, <1>5 DEF Service!serviceVars, Service!terms, limits

LEMMA ServiceStep ==
    ASSUME Admins = {}, Cancellable = {}, Asks \subseteq {NoAsk}
    PROVE  /\ TypeOK /\ FixedPool /\ LoadCounted /\ RotationInv /\ PlainAsk /\ LineInv
           /\ [Next]_vars
           => [Service!Next]_(Service!serviceVars)
  <1>. SUFFICES ASSUME TypeOK, FixedPool, LoadCounted, RotationInv, PlainAsk, LineInv, [Next]_vars
                PROVE  [Service!Next]_(Service!serviceVars)
    OBVIOUS
  <1>1. Settled /\ LineOK /\ NobodyCancelled
    BY DEF RotationInv, Settled, Resetting, LineInv
  <1>2. CASE UNCHANGED vars
    BY <1>2 DEF vars, config, stored, limits, requestVars, Service!serviceVars, Service!terms, PhaseOf
  <1>3. ASSUME NEW r \in Requests, Call(r) PROVE Service!Next
    BY <1>3, CallAsks DEF Service!Next
  <1>4. ASSUME NEW r \in Requests, Grant(r) PROVE Service!Next
    BY <1>4, GrantServes DEF Service!Next
  <1>5. ASSUME NEW r \in Requests, Refuse(r) PROVE Service!Next
    BY <1>1, <1>5, RefuseRefuses DEF Service!Next
  <1>6. ASSUME NEW r \in Requests, Release(r) PROVE Service!Next
    BY <1>6, ReleaseReturns DEF Service!Next
  <1>7. ASSUME NEW r \in Requests,
               Cancel(r) \/ CheckContext(r) \/ Park(r) \/ WakeUp(r) \/ Abandon(r)
        PROVE  UNCHANGED Service!serviceVars
    BY <1>1, <1>7, OthersStutter
  <1>. QED
    BY <1>2, <1>3, <1>4, <1>5, <1>6, <1>7 DEF Next, AcquireWait, Terminated

\* While no caller gives up and nobody administers the pool, its ledger,
\* rotation and line do nothing the service does not allow: both limits hold
\* of the requests themselves, and a refusal means that the slots and the line
\* are full.
THEOREM ImplementsService ==
    ASSUME Admins = {}, Cancellable = {}, Asks \subseteq {NoAsk}
    PROVE  Spec => Service!SafeSpec
  <1>1. Init => Service!Init
    BY DEF Init, Service!Init, PhaseOf
  <1>2. OnlyResets
    BY DEF OnlyResets
  <1>3. Spec => [](TypeOK /\ RotationInv /\ PlainAsk /\ LineInv)
    BY <1>2, LineSafe
  <1>. QED
    BY <1>1, <1>3, FixedPoolSafe, InitLoad, LoadStep, TypeCorrect, ServiceStep, PTL
       DEF Spec, Service!SafeSpec

===============================================================================
