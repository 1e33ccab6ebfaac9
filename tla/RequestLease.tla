----------------------------- MODULE RequestLease -----------------------------
(***************************************************************************)
(* What a request does with the account it was given: internal/auth        *)
(* (Determine, RefreshToken, SwitchAccount, Release), the retry loops of   *)
(* internal/deepseek/client around it, and the handler that runs them      *)
(* (chat completions: create a session, get a proof of work, call the      *)
(* completion, and once more when the answer was empty).                   *)
(*                                                                         *)
(* The request's RequestAuth remembers an account identifier, and whoever  *)
(* releases the request releases that identifier.  "owns" is what the code *)
(* does not write down: the slot the request has really been given and not *)
(* yet returned.                                                           *)
(*                                                                         *)
(* DeepSeek is external: each call may succeed, be rejected or never come  *)
(* back, each login may succeed or fail.  The wait for an account is one   *)
(* step here, its protocol is AccountPool.  Callers with a DeepSeek token  *)
(* of their own never touch the pool and are left out.                     *)
(***************************************************************************)
EXTENDS PoolCore

CONSTANTS
    Requests,      \* requests made with one of the server's own API keys
    Targets,       \* what X-Ds2-Target-Account may hold, NoAccount when absent
    MaxAttempts,   \* the bound of each retry loop, 3 in the code
    MaxPerAccount  \* the per-account limit, the same throughout

ASSUME RequestsAssumption == IsFiniteSet(Requests)
ASSUME TargetsAssumption == Targets \subseteq Accounts \cup {NoAccount}
ASSUME BoundsAssumption == MaxAttempts \in Nat \ {0} /\ MaxPerAccount \in Nat \ {0}

VARIABLES
    pc,        \* where each request is
    target,    \* the account its header pins
    auth,      \* RequestAuth: AccountID, the account DeepSeekToken belongs to,
               \* TriedAccounts
    loop,      \* the stage of the handler, and its retry loop's variables
    owns       \* the account whose slot the request really occupies

limits == <<listed, maxInflightPerAccount, globalMaxInflight>>
vars == <<limits, ledger, pc, target, auth, loop, owns>>

\* The calls the handler makes one after the other.  Only the calls for a
\* session and for a proof of work refresh the token or switch accounts.
Session == 1
Pow == 2
Completion == 3
RetryPow == 4
RetryCompletion == 5
Stages == Session..RetryCompletion
Completions == {Completion, RetryCompletion}

Phases == {"acquire", "ensure", "call", "pick", "reensure", "closing", "done", "refused"}
NoAuth == [account |-> NoAccount, token |-> NoAccount, tried |-> {}]
Fresh(s) == [stage |-> s, attempts |-> 0, refreshed |-> FALSE]

TypeOK ==
    /\ LedgerTypeOK
    /\ pc \in [Requests -> Phases]
    /\ target \in [Requests -> Accounts \cup {NoAccount}]
    /\ auth \in [Requests -> [account : Accounts \cup {NoAccount},
                              token : Accounts \cup {NoAccount},
                              tried : SUBSET Accounts]]
    /\ loop \in [Requests -> [stage : Stages, attempts : 0..(MaxAttempts - 1),
                              refreshed : BOOLEAN]]
    /\ owns \in [Requests -> Accounts \cup {NoAccount}]

-----------------------------------------------------------------------------
\* Steps shared by several handlers

Goto(r, from, to) == pc[r] = from /\ pc' = [pc EXCEPT ![r] = to]

\* The pool hands out account a, whose token is not known yet.
Obtain(r, wanted, a) ==
    /\ acquireLocked(wanted, auth[r].tried, a)
    /\ auth' = [auth EXCEPT ![r].account = a]
    /\ owns' = [owns EXCEPT ![r] = a]

\* Mutant: the account is put aside but its slot is not given back.
TryNoMoreKeepSlot(r) ==
    /\ auth' = [auth EXCEPT ![r].tried = @ \cup {auth[r].account}]
    /\ UNCHANGED ledger
    /\ owns' = [owns EXCEPT ![r] = NoAccount]

\* Mutant: the account is released but not remembered as tried.
TryNoMoreForgets(r) ==
    /\ releaseSlot(auth[r].account)
    /\ owns' = [owns EXCEPT ![r] = NoAccount]
    /\ UNCHANGED auth

\* The account did not work: it is remembered as tried, and released.  A
\* login whose token could not be stored has replaced the token all the same.
TryNoMore(r) ==
    /\ \E t \in {auth[r].token, auth[r].account} :
          auth' = [auth EXCEPT ![r].token = t, ![r].tried = @ \cup {auth[r].account}]
    /\ releaseSlot(auth[r].account)
    /\ owns' = [owns EXCEPT ![r] = NoAccount]

\* Mutant: one attempt too many.
AttemptOverOffByOne(r) ==
    IF loop[r].attempts < MaxAttempts
    THEN /\ pc' = [pc EXCEPT ![r] = "call"]
         /\ loop' = [loop EXCEPT ![r].attempts = @ + 1]
    ELSE /\ pc' = [pc EXCEPT ![r] = "closing"]
         /\ UNCHANGED loop

\* One attempt is used up.  The last one ends the request, except that a
\* retry without a new proof of work goes on with the old one.
AttemptOver(r) ==
    IF loop[r].attempts + 1 < MaxAttempts
    THEN /\ pc' = [pc EXCEPT ![r] = "call"]
         /\ loop' = [loop EXCEPT ![r].attempts = @ + 1]
    ELSE IF loop[r].stage = RetryPow
    THEN /\ pc' = [pc EXCEPT ![r] = "call"]
         /\ loop' = [loop EXCEPT ![r] = Fresh(RetryCompletion)]
    ELSE /\ pc' = [pc EXCEPT ![r] = "closing"]
         /\ UNCHANGED loop

-----------------------------------------------------------------------------
\* Determine

\* A free account, within AcquireWait.
Acquire(r) ==
    /\ Goto(r, "acquire", "ensure")
    /\ \E a \in Accounts : Obtain(r, target[r], a)
    /\ UNCHANGED <<limits, target, loop>>

\* Every account was tried, or there is none and no place to wait, or the
\* caller went away.
Refuse(r) ==
    /\ Goto(r, "acquire", "refused")
    /\ UNCHANGED <<limits, ledger, target, auth, loop, owns>>

\* The stored token is used, or a login gives a new one.
TokenReady(r) ==
    /\ Goto(r, "ensure", "call")
    /\ auth' = [auth EXCEPT ![r].token = auth[r].account]
    /\ UNCHANGED <<limits, ledger, target, loop, owns>>

\* The login failed: the next account, unless one was pinned.  The failed
\* RequestAuth is dropped, only its tried accounts live on.
LoginFailed(r) ==
    /\ Goto(r, "ensure", IF target[r] = NoAccount THEN "acquire" ELSE "refused")
    /\ auth' = [auth EXCEPT ![r] = [NoAuth EXCEPT !.tried = auth[r].tried \cup {auth[r].account}]]
    /\ releaseSlot(auth[r].account)
    /\ owns' = [owns EXCEPT ![r] = NoAccount]
    /\ UNCHANGED <<limits, target, loop>>

-----------------------------------------------------------------------------
\* The retry loops

\* The call succeeds.  An answer ends the request; an empty one is asked for
\* once more, with a new proof of work.
Succeed(r) ==
    /\ pc[r] = "call"
    /\ \/ /\ loop[r].stage # RetryCompletion
          /\ loop' = [loop EXCEPT ![r] = Fresh(@.stage + 1)]
          /\ UNCHANGED pc
       \/ /\ loop[r].stage \in Completions
          /\ pc' = [pc EXCEPT ![r] = "closing"]
          /\ UNCHANGED loop
    /\ UNCHANGED <<limits, ledger, target, auth, owns>>

\* No answer, or a completion that is not 200, or a challenge not solved.
Fail(r) ==
    /\ pc[r] = "call"
    /\ AttemptOver(r)
    /\ UNCHANGED <<limits, ledger, target, auth, owns>>

\* Mutant: it is not noted that the token was refreshed.
RefreshTokenUnnoted(r) ==
    /\ pc[r] = "call"
    /\ loop[r].stage \notin Completions
    /\ ~loop[r].refreshed
    /\ auth' = [auth EXCEPT ![r].token = auth[r].account]
    /\ UNCHANGED <<limits, ledger, loop, pc, target, owns>>

\* The token is rejected, a new login repairs it.  The attempt is not counted.
RefreshToken(r) ==
    /\ pc[r] = "call"
    /\ loop[r].stage \notin Completions
    /\ ~loop[r].refreshed
    /\ loop' = [loop EXCEPT ![r].refreshed = TRUE]
    /\ auth' = [auth EXCEPT ![r].token = auth[r].account]
    /\ UNCHANGED <<limits, ledger, pc, target, owns>>

\* SwitchAccount, first part: the account is released ...
SwitchAccount(r) ==
    /\ Goto(r, "call", "pick")
    /\ loop[r].stage \notin Completions
    /\ TryNoMore(r)
    /\ UNCHANGED <<limits, target, loop>>

\* ... then another is taken without waiting, whatever the header says ...
PickAccount(r) ==
    /\ Goto(r, "pick", "reensure")
    /\ \E a \in Accounts : Obtain(r, NoAccount, a)
    /\ UNCHANGED <<limits, target, loop>>

\* ... or none is free: the loop goes on with the account it has released.
NoOtherAccount(r) ==
    /\ pc[r] = "pick"
    /\ Candidates(NoAccount, auth[r].tried) = {}
    /\ AttemptOver(r)
    /\ UNCHANGED <<limits, ledger, target, auth, owns>>

\* Mutant: the new account is called with the old one's token.
SwitchedOldToken(r) ==
    /\ pc[r] = "reensure"
    /\ AttemptOver(r)
    /\ UNCHANGED <<limits, ledger, target, auth, owns>>

\* The switch succeeds and uses up an attempt; the new account's token may be
\* refreshed once more.
Switched(r) ==
    /\ pc[r] = "reensure"
    /\ auth' = [auth EXCEPT ![r].token = auth[r].account]
    /\ IF loop[r].attempts + 1 < MaxAttempts
       THEN /\ pc' = [pc EXCEPT ![r] = "call"]
            /\ loop' = [loop EXCEPT ![r].attempts = @ + 1, ![r].refreshed = FALSE]
       ELSE AttemptOver(r)
    /\ UNCHANGED <<limits, ledger, target, owns>>

\* The new account cannot log in: it is released and the next one tried.
SwitchFailed(r) ==
    /\ Goto(r, "reensure", "pick")
    /\ TryNoMore(r)
    /\ UNCHANGED <<limits, target, loop>>

\* The deferred end of the handler: the account the request last knew is
\* released, be its slot still occupied or not.
Release(r) ==
    /\ Goto(r, "closing", "done")
    /\ releaseSlot(auth[r].account)
    /\ owns' = [owns EXCEPT ![r] = NoAccount]
    /\ UNCHANGED <<limits, target, auth, loop>>

-----------------------------------------------------------------------------

Init ==
    /\ queue \in SetToSeqs(Accounts)
    /\ listed = queue
    /\ inUse = [a \in Accounts |-> 0]
    /\ maxInflightPerAccount = MaxPerAccount
    /\ globalMaxInflight = MaxPerAccount * Cardinality(Accounts)
    /\ pc = [r \in Requests |-> "acquire"]
    /\ target \in [Requests -> Targets]
    /\ auth = [r \in Requests |-> NoAuth]
    /\ loop = [r \in Requests |-> Fresh(Session)]
    /\ owns = [r \in Requests |-> NoAccount]

Step(r) ==
    \/ Acquire(r) \/ Refuse(r) \/ TokenReady(r) \/ LoginFailed(r)
    \/ Succeed(r) \/ Fail(r) \/ RefreshToken(r)
    \/ SwitchAccount(r) \/ PickAccount(r) \/ NoOtherAccount(r)
    \/ Switched(r) \/ SwitchFailed(r) \/ Release(r)

Terminated ==
    /\ \A r \in Requests : pc[r] \in {"done", "refused"}
    /\ UNCHANGED vars

Next == (\E r \in Requests : Step(r)) \/ Terminated

Spec == Init /\ [][Next]_vars

\* The handler's goroutine keeps running: every call it makes comes back,
\* times out, or is cancelled with the request when the caller gives up.
FairSpec == Spec /\ \A r \in Requests : WF_vars(Step(r))

-----------------------------------------------------------------------------
\* Properties

Owners(a) == {r \in Requests : owns[r] = a}

\* On every path through login failures, refreshes, switches and retries each
\* slot taken from the pool is given back at least once: the pool never counts
\* a slot that no request will return.
NoSlotLeak == \A a \in Accounts : inUse[a] <= Cardinality(Owners(a))

\* A request that occupies an account's slot calls DeepSeek with that
\* account's token and will release that account, and it is not one that has
\* already failed it.
LeaseConsistent ==
    \A r \in Requests : owns[r] # NoAccount =>
        /\ auth[r].account = owns[r]
        /\ owns[r] \notin auth[r].tried
        /\ pc[r] \in {"call", "closing"} => auth[r].token = owns[r]

\* The configured number of requests at most occupies an account at once.
PerAccountLimit ==
    \A a \in Accounts : Cardinality(Owners(a)) <= maxInflightPerAccount

\* The internal retry of an empty answer stays on the account of the first
\* attempt.
RetryStaysOnAccount ==
    [][\A r \in Requests :
          loop[r].stage >= RetryPow => auth'[r].account = auth[r].account]_vars

\* How far a request is from its end while its loop counts no attempt: each account
\* it has not tried may be taken and put aside, and a token refreshed.
StepsAt(phase, refreshed, tried) ==
    LET untried == 2 * Cardinality(Accounts \ tried)
    IN  CASE phase = "acquire"  -> untried + 7
          [] phase = "ensure"   -> untried + 6
          [] phase = "call"     -> IF refreshed THEN untried + 4 ELSE untried + 5
          [] phase = "pick"     -> untried + 3
          [] phase = "reensure" -> untried + 2
          [] phase = "closing"  -> 1
          [] OTHER              -> 0
StepsLeft(r) == StepsAt(pc[r], loop[r].refreshed, auth[r].tried)
NextStage(r) == loop'[r].stage > loop[r].stage
NextAttempt(r) == loop'[r].stage = loop[r].stage /\ loop'[r].attempts > loop[r].attempts
SameAttempt(r) == loop'[r].stage = loop[r].stage /\ loop'[r].attempts = loop[r].attempts

\* No step of a request is taken for nothing: it reaches the next call, uses up an
\* attempt, or is one of the finitely many an attempt has.  A refresh and a switch,
\* which are not counted as attempts, cannot follow each other for ever, and no
\* request sets another back.
LoopsWindDown ==
    [][\E r \in Requests :
          /\ NextStage(r) \/ NextAttempt(r) \/ (SameAttempt(r) /\ StepsLeft(r)' < StepsLeft(r))
          /\ \A q \in Requests \ {r} : UNCHANGED <<pc[q], auth[q], loop[q]>>]_vars

\* The retry loops and the switches between accounts come to an end: every
\* request is answered.
EveryRequestEnds == \A r \in Requests : <>(pc[r] \in {"done", "refused"})

===============================================================================
