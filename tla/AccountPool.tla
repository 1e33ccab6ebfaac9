------------------------------ MODULE AccountPool ------------------------------
(***************************************************************************)
(* The account pool under concurrent use (internal/account).  Requests     *)
(* run AcquireWait, hold the account they get and Release it; their        *)
(* context may be cancelled at any moment.  Administrators change the      *)
(* configuration and then run Pool.Reset or Pool.ApplyRuntimeLimits.       *)
(*                                                                         *)
(* A step of a request is one pass through a critical section of Pool.mu   *)
(* or one receive of its select statement, so a cancellation, a release or *)
(* a reset can fall between any two of them.                               *)
(***************************************************************************)
EXTENDS PoolCore

CONSTANTS
    Requests,       \* HTTP requests, each asking for one account once
    Asks,           \* what a request may ask for: [target, exclude] records
    Cancellable,    \* the requests whose context may be cancelled
    Admins,         \* administrators that can be at work at the same time
    Listings,       \* the account lists the configuration may hold
    Settings,       \* runtime settings the configuration may hold
    Default         \* marks a setting neither the configuration nor the
                    \* environment gives

ASSUME RequestsAssumption == IsFiniteSet(Requests)

ASSUME AsksAssumption ==
    Asks \subseteq [target : Accounts \cup {NoAccount}, exclude : SUBSET Accounts]

ASSUME ListingsAssumption == Listings \subseteq Seq(Accounts)

\* maxPer is the setting, else the environment's, else 2: never below 1.
ASSUME SettingsAssumption ==
    /\ Default \notin Nat
    /\ Settings \subseteq [maxPer : Nat \ {0},
                           maxQueue : Nat \cup {Default},
                           global : Nat \cup {Default}]

VARIABLES
    runtime,         \* the runtime settings in config.Store
    unseen,          \* history: a save failed after the list of accounts was
                     \* changed, and no Reset has read the store since
    maxQueueSize,    \* Pool.maxQueueSize
    waiters,         \* Pool.waiters: requests whose channel is still open
    pc,              \* where each request is
    ask,             \* what it asked for
    lease,           \* the account it holds, NoAccount when none
    cancelled,       \* its context is done
    job,             \* what each administrator is doing
    plan             \* the values that job computed outside the pool's lock

requestVars == <<pc, ask, lease, cancelled>>
adminVars == <<job, plan>>
limits == <<maxInflightPerAccount, globalMaxInflight, maxQueueSize>>
config == <<listed, runtime, unseen>>
vars == <<config, ledger, limits, waiters, requestVars, adminVars>>

Phases == {"new", "loop", "lock", "parked", "holding", "released", "refused"}
Plans == [ids : Seq(Accounts), maxPer : Nat \ {0}, maxQueue : Nat, global : Nat]
NoPlan == [ids |-> <<>>, maxPer |-> 1, maxQueue |-> 0, global |-> 0]
NoAsk == [target |-> NoAccount, exclude |-> {}]

TypeOK ==
    /\ LedgerTypeOK
    /\ runtime \in Settings
    /\ unseen \in BOOLEAN
    /\ maxQueueSize \in Nat
    /\ waiters \in Seq(Requests)
    /\ pc \in [Requests -> Phases]
    /\ ask \in [Requests -> [target : Accounts \cup {NoAccount}, exclude : SUBSET Accounts]]
    /\ lease \in [Requests -> Accounts \cup {NoAccount}]
    /\ cancelled \in [Requests -> BOOLEAN]
    /\ job \in [Admins -> {"idle", "reset", "install", "limits"}]
    /\ plan \in [Admins -> Plans]
    /\ \A r \in Requests : lease[r] # NoAccount <=> pc[r] = "holding"

-----------------------------------------------------------------------------
\* Limits derived from the configuration

defaultRecommendedConcurrency(n, per) == n * per

\* The settings page never recommends 0, Reset does when there is no account.
defaultRuntimeRecommended(n, per) == IF n = 0 THEN per ELSE n * per

RuntimeAccountMaxQueue(rt, recommended) ==
    IF rt.maxQueue = Default THEN recommended ELSE rt.maxQueue

RuntimeGlobalMaxInflight(rt, recommended) ==
    IF rt.global \in Nat \ {0} THEN rt.global ELSE recommended

LimitsFor(l, rt, recommended) ==
    [ids |-> l, maxPer |-> rt.maxPer,
     maxQueue |-> RuntimeAccountMaxQueue(rt, recommended),
     global |-> RuntimeGlobalMaxInflight(rt, recommended)]

\* What Reset computes from the store before it takes the pool's lock.
ResetPlan(l, rt) ==
    LimitsFor(l, rt, defaultRecommendedConcurrency(Len(l), rt.maxPer))

-----------------------------------------------------------------------------
\* The wait queue

Waiting(r) == \E i \in DOMAIN waiters : waiters[i] = r

canQueueLocked(a) ==
    /\ a.target # NoAccount => a.target \notin a.exclude /\ a.target \in stored
    /\ Len(waiters) < maxQueueSize

\* Mutant: the waiter stays in the queue and its channel stays open.
notifyNobody == UNCHANGED waiters

\* Closes the channel of the request that has waited longest.
notifyWaiterLocked == waiters' = IF waiters = <<>> THEN <<>> ELSE Tail(waiters)

drainWaitersLocked == waiters' = <<>>

\* A request that was notified is no longer there to be removed, and the
\* notification it received goes to nobody else.
removeWaiterLocked(r) ==
    \/ \E i \in DOMAIN waiters :
          /\ waiters[i] = r
          /\ \A j \in 1..(i - 1) : waiters[j] # r
          /\ waiters' = RemoveAt(waiters, i)
    \/ ~Waiting(r) /\ UNCHANGED waiters

-----------------------------------------------------------------------------
\* Requests

\* The pc transition of a request; the other requests stay where they are.
Goto(r, from, to) == pc[r] = from /\ pc' = [pc EXCEPT ![r] = to]

\* A request enters AcquireWait, unless it has no target and has already
\* tried as many accounts as there are (acquireManagedRequestAuth).
Call(r) ==
    /\ \E a \in Asks :
          /\ ask' = [ask EXCEPT ![r] = a]
          /\ Goto(r, "new", IF a.target = NoAccount
                              /\ Cardinality(a.exclude) >= Len(listed)
                           THEN "refused" ELSE "loop")
    /\ UNCHANGED <<config, ledger, limits, waiters, lease, cancelled, adminVars>>

\* The caller goes away, or its deadline passes.
Cancel(r) ==
    /\ r \in Cancellable
    /\ pc[r] \in {"loop", "lock", "parked"}
    /\ ~cancelled[r]
    /\ cancelled' = [cancelled EXCEPT ![r] = TRUE]
    /\ UNCHANGED <<config, ledger, limits, waiters, pc, ask, lease, adminVars>>

\* The test of ctx.Err() at the top of the loop, made without the lock.
CheckContext(r) ==
    /\ Goto(r, "loop", IF cancelled[r] THEN "refused" ELSE "lock")
    /\ UNCHANGED <<config, ledger, limits, waiters, ask, lease, cancelled, adminVars>>

\* The three outcomes of the critical section: a grant, a refusal (the
\* caller answers 429), or a place at the end of the wait queue.
Grant(r) ==
    /\ Goto(r, "lock", "holding")
    /\ \E a \in Accounts :
          /\ acquireLocked(ask[r].target, ask[r].exclude, a)
          /\ lease' = [lease EXCEPT ![r] = a]
    /\ UNCHANGED <<config, limits, waiters, ask, cancelled, adminVars>>

Refuse(r) ==
    /\ Goto(r, "lock", "refused")
    /\ Candidates(ask[r].target, ask[r].exclude) = {}
    /\ ~canQueueLocked(ask[r])
    /\ UNCHANGED <<config, ledger, limits, waiters, ask, lease, cancelled, adminVars>>

Park(r) ==
    /\ Goto(r, "lock", "parked")
    /\ Candidates(ask[r].target, ask[r].exclude) = {}
    /\ canQueueLocked(ask[r])
    /\ waiters' = Append(waiters, r)
    /\ UNCHANGED <<config, ledger, limits, ask, lease, cancelled, adminVars>>

\* select receives from the closed channel and the loop starts again.
WakeUp(r) ==
    /\ Goto(r, "parked", "loop")
    /\ ~Waiting(r)
    /\ UNCHANGED <<config, ledger, limits, waiters, ask, lease, cancelled, adminVars>>

\* select receives from ctx.Done, which it may prefer to a closed channel.
Abandon(r) ==
    /\ Goto(r, "parked", "refused")
    /\ cancelled[r]
    /\ removeWaiterLocked(r)
    /\ UNCHANGED <<config, ledger, limits, ask, lease, cancelled, adminVars>>

\* Mutant: the request releases the slot and goes on using the account.
ReleaseKeepsLease(r) ==
    /\ Goto(r, "holding", "released")
    /\ releaseSlot(lease[r])
    /\ IF inUse[lease[r]] > 0 THEN notifyWaiterLocked ELSE UNCHANGED waiters
    /\ UNCHANGED <<config, limits, ask, lease, cancelled, adminVars>>

\* The request is over and gives its slot back; a release that finds no slot
\* taken (a Reset forgot it) wakes nobody.
Release(r) ==
    /\ Goto(r, "holding", "released")
    /\ releaseSlot(lease[r])
    /\ IF inUse[lease[r]] > 0 THEN notifyWaiterLocked ELSE UNCHANGED waiters
    /\ lease' = [lease EXCEPT ![r] = NoAccount]
    /\ UNCHANGED <<config, limits, ask, cancelled, adminVars>>

-----------------------------------------------------------------------------
\* Administrators

Proceed(adm, from, to) == job[adm] = from /\ job' = [job EXCEPT ![adm] = to]

\* Adding, deleting or importing accounts rewrites the store first; an import
\* may change the runtime settings as well.
UpdateAccounts(adm) ==
    /\ Proceed(adm, "idle", "reset")
    /\ listed' \in Listings
    /\ runtime' \in Settings
    /\ UNCHANGED <<unseen, ledger, limits, waiters, requestVars, plan>>

\* Store.Update changes the configuration in memory, then fails to save it:
\* the handler answers with the error and goes nowhere near the pool.
UpdateUnsaved(adm) ==
    /\ job[adm] = "idle"
    /\ listed' \in Listings
    /\ runtime' \in Settings
    /\ unseen' = (unseen \/ listed' # listed)
    /\ UNCHANGED <<ledger, limits, waiters, requestVars, adminVars>>

\* Reset up to its lock: the accounts and limits are read from the store, and
\* maxInflightPerAccount is already overwritten, without the lock.
ResetSnapshot(adm) ==
    /\ Proceed(adm, "reset", "install")
    /\ plan' = [plan EXCEPT ![adm] = ResetPlan(listed, runtime)]
    /\ maxInflightPerAccount' = runtime.maxPer
    /\ unseen' = FALSE
    /\ UNCHANGED <<listed, runtime, ledger, globalMaxInflight, maxQueueSize, waiters, requestVars>>

\* Reset under its lock: every slot is forgotten, the leases are not.
ResetInstall(adm) ==
    /\ Proceed(adm, "install", "idle")
    /\ drainWaitersLocked
    /\ InstallLedger(plan[adm].ids)
    /\ maxQueueSize' = plan[adm].maxQueue
    /\ globalMaxInflight' = plan[adm].global
    /\ plan' = [plan EXCEPT ![adm] = NoPlan]
    /\ UNCHANGED <<config, maxInflightPerAccount, requestVars>>

\* The settings page stores new runtime settings and computes the limits.
UpdateSettings(adm) ==
    /\ Proceed(adm, "idle", "limits")
    /\ runtime' \in Settings
    /\ plan' = [plan EXCEPT ![adm] = LimitsFor(listed, runtime',
                  defaultRuntimeRecommended(Len(listed), runtime'.maxPer))]
    /\ UNCHANGED <<listed, unseen, ledger, limits, waiters, requestVars>>

\* However much room the new limits make, one waiter is told.
ApplyRuntimeLimits(adm) ==
    /\ Proceed(adm, "limits", "idle")
    /\ maxInflightPerAccount' = plan[adm].maxPer
    /\ maxQueueSize' = plan[adm].maxQueue
    /\ globalMaxInflight' =
          IF plan[adm].global > 0 THEN plan[adm].global
          ELSE defaultRuntimeRecommended(Len(listed), plan[adm].maxPer)
    /\ notifyWaiterLocked
    /\ plan' = [plan EXCEPT ![adm] = NoPlan]
    /\ UNCHANGED <<config, ledger, requestVars>>

-----------------------------------------------------------------------------

Init ==
    /\ listed \in Listings
    /\ runtime \in Settings
    /\ unseen = FALSE
    /\ queue \in Orders(listed)
    /\ inUse = [a \in Accounts |-> 0]
    /\ maxInflightPerAccount = runtime.maxPer
    /\ maxQueueSize = ResetPlan(listed, runtime).maxQueue
    /\ globalMaxInflight = ResetPlan(listed, runtime).global
    /\ waiters = <<>>
    /\ pc = [r \in Requests |-> "new"]
    /\ ask = [r \in Requests |-> NoAsk]
    /\ lease = [r \in Requests |-> NoAccount]
    /\ cancelled = [r \in Requests |-> FALSE]
    /\ job = [adm \in Admins |-> "idle"]
    /\ plan = [adm \in Admins |-> NoPlan]

AcquireWait(r) ==
    CheckContext(r) \/ Grant(r) \/ Refuse(r) \/ Park(r) \/ WakeUp(r) \/ Abandon(r)

AdminWork(adm) == ResetSnapshot(adm) \/ ResetInstall(adm) \/ ApplyRuntimeLimits(adm)

\* All requests are over and every administrator is idle.
Terminated ==
    /\ \A r \in Requests : pc[r] \in {"released", "refused"}
    /\ \A adm \in Admins : job[adm] = "idle"
    /\ UNCHANGED vars

Next ==
    \/ \E r \in Requests : Call(r) \/ Cancel(r) \/ AcquireWait(r) \/ Release(r)
    \/ \E adm \in Admins : UpdateAccounts(adm) \/ UpdateUnsaved(adm) \/ UpdateSettings(adm)
                          \/ AdminWork(adm)
    \/ Terminated

Spec == Init /\ [][Next]_vars

\* A goroutine in AcquireWait or in an admin handler keeps running, and every
\* handler that holds an account ends and releases it (a deferred call).
Fairness ==
    /\ \A r \in Requests : WF_vars(AcquireWait(r)) /\ WF_vars(Release(r))
    /\ \A adm \in Admins : WF_vars(AdminWork(adm))

FairSpec == Spec /\ Fairness

-----------------------------------------------------------------------------
\* Properties

Holders(a) == {r \in Requests : lease[r] = a}
Leases == {r \in Requests : lease[r] # NoAccount}

\* The ledger never counts a slot nobody holds: whatever resets, limit
\* changes and cancellations happen, every slot Pool.inUse reports taken
\* belongs to a request that will release it, so no account is lost to the
\* rotation for good.
NoSlotLeak == \A a \in Accounts : inUse[a] <= Cardinality(Holders(a))

\* Pool.inUse is the number of requests on each account, which is what makes
\* in_use in Pool.Status mean anything, when nobody resets the pool.
LedgerExact == \A a \in Accounts : inUse[a] = Cardinality(Holders(a))

\* The documented per-account limit holds of the requests themselves, not only
\* of the pool's own count, when nobody resets the pool.
PerAccountLimit ==
    \A a \in Accounts : Cardinality(Holders(a)) <= maxInflightPerAccount

Resetting == \E adm \in Admins : job[adm] \in {"reset", "install"}

\* No reset is under way, and no failed save has left the store's memory with
\* accounts the pool has not been told of.
Settled == ~unseen /\ ~Resetting

\* While the pool is settled, the rotation is the configuration's list of
\* accounts in some order, each entry as often as the list has it: bumpQueue's
\* splice neither loses nor repeats one, and a Reset leaves none behind.
\* After a failed save the two may differ until the next Reset.
RotationComplete == Settled => queue \in Orders(listed)

\* Somebody is about to look at the pool again.
OnTheWay ==
    \/ \E r \in Requests : pc[r] \in {"loop", "lock"} \/ (pc[r] = "parked" /\ ~Waiting(r))
    \/ Resetting

\* No wakeup is lost: a request does not sit in the wait queue beside an
\* account it could have while nobody is on the way to the pool.  (A failed
\* save can put an account back in memory, and tells no waiter.)
NoStrandedWaiter ==
    ~unseen => \A r \in Requests :
        Waiting(r) /\ Candidates(ask[r].target, ask[r].exclude) # {} => OnTheWay

\* How many requests the pool can serve at once: an account that a failed save
\* took from the store, or put there unknown to the rotation, serves none.
Capacity ==
    LET byAccount == maxInflightPerAccount * Cardinality(Offered)
    IN  IF globalMaxInflight > 0 /\ globalMaxInflight < byAccount
        THEN globalMaxInflight ELSE byAccount

\* A caller is answered 429 only when the real load, the requests being
\* served and those waiting, fills both the slots and the wait queue, also
\* while resets, changes of limits and failed saves are about.
RefusalMeansSaturation ==
    [][\A r \in Requests :
          pc[r] = "lock" /\ pc'[r] = "refused"
          => Cardinality(Leases) + Len(waiters) >= Capacity + maxQueueSize]_vars

\* Every request that asks for an account gets one or is refused; it does not
\* wait for ever while the others come and go.
EveryAskAnswered ==
    \A r \in Requests : pc[r] = "lock" ~> pc[r] \in {"holding", "released", "refused"}

-----------------------------------------------------------------------------
\* The service behind the pool

PhaseOf(r) ==
    CASE pc[r] = "new" -> "out"
      [] pc[r] \in {"loop", "lock", "parked"} -> "asking"
      [] pc[r] = "holding" -> "served"
      [] pc[r] = "released" -> "over"
      [] OTHER -> "refused"

Service == INSTANCE AccountService
    WITH offered <- stored, perAccount <- maxInflightPerAccount,
         inAll <- globalMaxInflight, places <- maxQueueSize,
         phase <- [r \in Requests |-> PhaseOf(r)]

\* With nobody resetting the pool, its ledger, rotation, wait queue and
\* wakeups implement the service: requests are served within the per-account
\* and the global limit, counted by the requests themselves, are refused only
\* when slots and line are full, and are never forgotten in the line.
ServesAsPromised == Service!ServiceSpec

===============================================================================
