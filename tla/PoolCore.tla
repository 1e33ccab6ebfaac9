------------------------------- MODULE PoolCore -------------------------------
(***************************************************************************)
(* The account pool's slot ledger (internal/account): which accounts are   *)
(* in the rotation, how many in-flight slots of each are taken, and the    *)
(* limits.  Every operator below is the body of a critical section of      *)
(* Pool.mu; the modules that extend this one add the goroutines that run   *)
(* those sections and what happens between them.                           *)
(***************************************************************************)
EXTENDS Integers, Sequences, FiniteSets, Functions, SequencesExt

CONSTANTS
    Accounts,    \* every account identifier the configuration may ever hold
    NoAccount    \* the empty identifier: no target, no lease

ASSUME AccountsAssumption ==
    /\ IsFiniteSet(Accounts)
    /\ NoAccount \notin Accounts

VARIABLES
    listed,                  \* the identifiers of Config.Accounts, in its order
    queue,                   \* Pool.queue: the rotation, next account first
    inUse,                   \* Pool.inUse: slots taken, 0 for a missing key
    maxInflightPerAccount,   \* Pool.maxInflightPerAccount
    globalMaxInflight        \* Pool.globalMaxInflight, 0 means no global limit

ledger == <<queue, inUse>>

\* The accounts FindAccount succeeds on.  Nothing between a file or an
\* environment variable and the store drops an identifier listed twice.
stored == Range(listed)

\* The accounts a request without a target can be given.
Offered == Range(queue) \cap stored

LedgerTypeOK ==
    /\ listed \in Seq(Accounts)
    /\ queue \in Seq(Accounts)
    /\ inUse \in [Accounts -> Nat]
    /\ maxInflightPerAccount \in Nat \ {0}
    /\ globalMaxInflight \in Nat

-----------------------------------------------------------------------------

currentInUse == SumFunction(inUse)

\* Mutant: the global limit is compared with the account's own count.
canAcquireIDEachAlone(a) ==
    /\ inUse[a] < maxInflightPerAccount
    /\ globalMaxInflight > 0 => inUse[a] < globalMaxInflight

canAcquireID(a) ==
    /\ inUse[a] < maxInflightPerAccount
    /\ globalMaxInflight > 0 => currentInUse < globalMaxInflight

\* What tryAcquire and the targeted path require of the account they hand out.
Usable(a, exclude) ==
    /\ a \notin exclude
    /\ canAcquireID(a)
    /\ a \in stored

\* The accounts acquireLocked may return: the target, or the first usable
\* account of the rotation; none when the pool has nothing to give.
Candidates(target, exclude) ==
    IF target # NoAccount
    THEN {a \in {target} : Usable(a, exclude)}
    ELSE {queue[i] : i \in {i \in DOMAIN queue :
              /\ Usable(queue[i], exclude)
              /\ \A j \in 1..(i - 1) : ~Usable(queue[j], exclude)}}

\* Mutant: the rotation keeps the old place beside the new one.
bumpQueueTwice(a) == queue' = Append(queue, a)

\* The account just handed out goes to the tail; one that is not in the
\* rotation (a target the last Reset did not see) leaves it as it is.
bumpQueue(a) ==
    \/ \E i \in DOMAIN queue :
          /\ queue[i] = a
          /\ \A j \in 1..(i - 1) : queue[j] # a
          /\ queue' = Append(RemoveAt(queue, i), a)
    \/ /\ \A i \in DOMAIN queue : queue[i] # a
       /\ queue' = queue

acquireLocked(target, exclude, a) ==
    /\ a \in Candidates(target, exclude)
    /\ inUse' = [inUse EXCEPT ![a] = @ + 1]
    /\ bumpQueue(a)

\* Mutant: a release that forgets the first of several slots of an account.
releaseSlotOnlyLast(a) ==
    /\ inUse' = [inUse EXCEPT ![a] = IF @ = 1 THEN 0 ELSE @]
    /\ UNCHANGED queue

\* Releasing an account with no slot taken changes nothing.
releaseSlot(a) ==
    /\ inUse' = [inUse EXCEPT ![a] = IF @ > 0 THEN @ - 1 ELSE 0]
    /\ UNCHANGED queue

\* The list l in any order, as often as l has each entry.
Orders(l) == {[i \in DOMAIN l |-> l[p[i]]] : p \in Bijection(DOMAIN l, DOMAIN l)}

\* A freshly initialised ledger with the accounts listed in l, the one listed
\* twice twice.  Token holders come first; tokens come and go, so the order is
\* any order.
InstallLedger(l) ==
    /\ queue' \in Orders(l)
    /\ inUse' = [a \in Accounts |-> 0]

===============================================================================
