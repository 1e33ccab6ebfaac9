----------------------------- MODULE VercelStream -----------------------------
(***************************************************************************)
(* Streaming on Vercel.  The JavaScript function (src/internal/js/         *)
(* chat-stream) talks to DeepSeek and to the client; the Go function       *)
(* (src/internal/httpapi/openai/chat/vercel_stream.go) keeps the account.  *)
(* The first asks the second to prepare, which leases the account to it,   *)
(* then for more proofs-of-work, and in the end to release the lease:      *)
(* three requests, each of which can be lost or come late, while the lease *)
(* itself expires.                                                         *)
(*                                                                         *)
(* A lease holds a pointer to the request's auth.  Every call to DeepSeek  *)
(* made with it, in prepare or for a proof-of-work, may move it to another *)
(* account (Resolver.SwitchAccount), or give its slot back and find no     *)
(* other.  The pool is AccountPool's; here it is the number of slots taken *)
(* of each account.                                                        *)
(***************************************************************************)
EXTENDS Integers, FiniteSets

CONSTANTS
    Streams,        \* the requests for a stream
    Accounts,
    SlotsPer,       \* slots of an account
    LeaseTTL,       \* streamLeaseTTL
    MaxTime,        \* bound on the clock
    MaxContinues,   \* AUTO_CONTINUE_MAX_ROUNDS, 8
    Talkers         \* bound: the streams whose answers have lines

ASSUME VercelAssumption ==
    /\ SlotsPer \in Nat \ {0} /\ LeaseTTL \in Nat
    /\ MaxTime \in Nat /\ MaxContinues \in Nat /\ Talkers \subseteq Streams
    /\ IsFiniteSet(Streams) /\ Accounts # {}

VARIABLES
    slots,     \* slots taken, by account
    lease,     \* what the Go function has of each stream: its lease's state and deadline,
               \* its auth's account and the accounts it tried
    solving,   \* streams whose proof-of-work is being computed
    post,      \* release requests: "none", "sent", "done" (or lost)
    js,        \* the JavaScript function, by stream
    client,    \* what each client has: text, calls, how it ended and how often
    now,
    strayed    \* streams whose auth gave its slot back and found no other account,
               \* or took one when the lease was over (history)

goSide == <<slots, lease, solving, strayed>>
jsSide == <<js, client>>
vercelVars == <<slots, lease, solving, post, js, client, now, strayed>>

MaxEmptyRetries == 1    \* EMPTY_OUTPUT_RETRY_MAX_ATTEMPTS

VercelInit ==
    /\ slots = [a \in Accounts |-> 0]
    /\ lease = [s \in Streams |-> [state |-> "none", account |-> CHOOSE a \in Accounts : TRUE,
                             tried |-> {}, deadline |-> 0]]
    /\ solving = {} /\ strayed = {} /\ now = 0
    /\ post = [s \in Streams |-> "none"]
    /\ js = [s \in Streams |-> [pc |-> "preparing", leased |-> FALSE, gone |-> FALSE, output |-> "", status |-> "",
                                rounds |-> 0, retries |-> 0]]
    /\ client = [s \in Streams |-> [begun |-> FALSE, ending |-> "none", endings |-> 0]]

-----------------------------------------------------------------------------
(* The Go function.                                                        *)

Pending(s) == lease[s].state = "preparing"
Held(s) == lease[s].state = "held"
Expired(s) == Held(s) /\ now > lease[s].deadline

\* The slots once those of the auths of streams S are released (Pool.Release).
ReleaseOf(S) == [a \in Accounts |->
    LET n == Cardinality({s \in S : lease[s].account = a}) IN IF slots[a] > n THEN slots[a] - n ELSE 0]
Ended(S) == [s \in Streams |-> IF s \in S THEN [lease[s] EXCEPT !.state = "over", !.deadline = 0] ELSE lease[s]]

popExpiredLeasesLocked == {s \in Streams : Expired(s)}
sweepExpiredStreamLeases ==
    slots' = ReleaseOf(popExpiredLeasesLocked) /\ lease' = Ended(popExpiredLeasesLocked)

\* Prepare begins: expired leases are swept, then accounts with room are taken
\* until one can log in; the function is told so if none is left.
PrepareAcquires(s) ==
    LET after == ReleaseOf(popExpiredLeasesLocked)
        Free == {a \in Accounts : after[a] < SlotsPer}
    IN  /\ lease[s].state = "none"
        /\ \/ \E a \in Free : \E failed \in SUBSET (Free \ {a}) :
                 /\ slots' = [after EXCEPT ![a] = @ + 1]
                 /\ lease' = [Ended(popExpiredLeasesLocked) EXCEPT
                                 ![s].state = "preparing", ![s].account = a, ![s].tried = failed]
           \/ /\ slots' = after
              /\ lease' = [Ended(popExpiredLeasesLocked) EXCEPT ![s].state = "refused"]
        /\ UNCHANGED <<solving, strayed, post, jsSide, now>>

\* DeepSeek rejects the account.  Its slot is released, if the auth still has
\* it or not; then accounts not tried yet are taken until one can log in.  If
\* none can, the auth is left with the last of them, or its own, and no slot.
SwitchAccount(s) ==
    LET freed == ReleaseOf({s})
        fresh == {a \in Accounts \ (lease[s].tried \union {lease[s].account}) : freed[a] < SlotsPer}
        Moved(a, failed) == [lease EXCEPT ![s].account = a, ![s].tried = @ \union {lease[s].account} \union failed]
    IN  \/ \E a \in fresh : \E failed \in SUBSET (fresh \ {a}) :
              /\ slots' = [freed EXCEPT ![a] = @ + 1] /\ lease' = Moved(a, failed)
              /\ strayed' = IF Pending(s) \/ Held(s) THEN strayed ELSE strayed \union {s}
        \/ /\ slots' = freed /\ strayed' = strayed \union {s}
           /\ \E a \in IF fresh = {} THEN {lease[s].account} ELSE fresh : lease' = Moved(a, fresh)

\* An upload, the new session or the proof-of-work of prepare is rejected.
PrepareSwitchesAccount(s) ==
    /\ Pending(s) /\ SwitchAccount(s)
    /\ UNCHANGED <<solving, post, jsSide, now>>

\* The request is invalid, or a call to DeepSeek fails: the auth is released.
PrepareFails(s) ==
    /\ Pending(s)
    /\ slots' = ReleaseOf({s}) /\ lease' = [lease EXCEPT ![s].state = "refused"]
    /\ UNCHANGED <<solving, strayed, post, jsSide, now>>

\* Prepare leases the auth, with a slot or without.
holdStreamLease(s) ==
    /\ Pending(s)
    /\ slots' = ReleaseOf(popExpiredLeasesLocked)
    /\ lease' = [Ended(popExpiredLeasesLocked) EXCEPT ![s].state = "held", ![s].deadline = now + LeaseTTL]
    /\ UNCHANGED <<solving, strayed, post, jsSide, now>>

\* A release request arrives, whether or not its sender still waits for it.
ReleasesOf(s, known) ==
    LET ended == popExpiredLeasesLocked \union known
    IN  /\ post[s] = "sent" /\ post' = [post EXCEPT ![s] = "done"]
        /\ slots' = ReleaseOf(ended) /\ lease' = Ended(ended)
        /\ UNCHANGED <<solving, strayed, jsSide, now>>
\* As it should not be: a lease that is over is released again.
releaseStreamLeaseAgain(s) == ReleasesOf(s, {t \in {s} : lease[t].state \in {"held", "over"}})
releaseStreamLease(s) == ReleasesOf(s, {t \in {s} : Held(t)})

\* A request for a proof-of-work finds the lease's auth; no lock is held while
\* the proof is computed.
lookupStreamLeaseAuth(s) ==
    /\ js[s].pc = "powing" /\ s \notin solving
    /\ Held(s) /\ ~Expired(s)
    /\ solving' = solving \union {s}
    /\ UNCHANGED <<slots, lease, strayed, post, jsSide, now>>

\* The lease may be over by then.
PowSwitchesAccount(s) ==
    /\ s \in solving /\ SwitchAccount(s)
    /\ UNCHANGED <<solving, post, jsSide, now>>

-----------------------------------------------------------------------------
(* The JavaScript function.  Between two awaits it runs without a break, so *)
(* what follows a call's return is part of the same step.                   *)

\* The lease is released once, on whichever path comes first.
createLeaseReleaser(s) == post' = [post EXCEPT ![s] = IF @ = "none" THEN "sent" ELSE @]

\* The end of handleVercelStream, whatever happened: finally.
Told(s, ending) == client' = [client EXCEPT ![s].ending = ending,
                                            ![s].endings = IF ending \in {"none", "thrown"} THEN @ ELSE @ + 1]
Left(s) == [js[s] EXCEPT !.pc = "over", !.output = "", !.status = "", !.rounds = 0, !.retries = 0]
\* As it should not be: without the release when something was thrown.
LeavesWithUnreleased(s, ending) ==
    /\ js' = [js EXCEPT ![s] = Left(s)] /\ Told(s, ending)
    /\ IF ending = "thrown" THEN UNCHANGED post ELSE createLeaseReleaser(s)
LeavesWith(s, ending) ==
    /\ js' = [js EXCEPT ![s] = Left(s)] /\ Told(s, ending) /\ createLeaseReleaser(s)

\* finish: nothing is said to a client that is gone; an answer without text
\* and calls is left for a retry, or fails; any other one finishes.
finish(s, deferEmpty) ==
    LET empty == js[s].output # "text"
    IN  IF ~js[s].gone /\ empty /\ deferEmpty
        THEN /\ js' = [js EXCEPT ![s].pc = "powing", ![s].retries = @ + 1, ![s].status = "", ![s].rounds = 0]
             /\ UNCHANGED <<post, client>>
        ELSE LeavesWith(s, IF js[s].gone THEN "none" ELSE IF empty THEN "failed" ELSE "finish")

\* The answer to prepare: a lease, a refusal, or one without what is needed,
\* or none; the lease of the last two is left to expire.
Prepared(s) ==
    /\ js[s].pc = "preparing"
    /\ \/ /\ lease[s].state \in {"held", "over"}
          /\ js' = [js EXCEPT ![s].pc = "fetching", ![s].leased = TRUE] /\ UNCHANGED client
       \/ /\ js' = [js EXCEPT ![s].pc = "over"]
          /\ client' = [client EXCEPT ![s].ending = "json", ![s].endings = @ + 1]
    /\ UNCHANGED <<goSide, post, now>>

\* The client goes away: what is read from DeepSeek is aborted.
markClientClosed(s) ==
    /\ js[s].pc \in {"fetching", "reading", "powing"} /\ ~js[s].gone
    /\ js' = [js EXCEPT ![s].gone = TRUE]
    /\ UNCHANGED <<goSide, post, client, now>>

\* The call to DeepSeek, for the answer, its continuation or a retry.  It is
\* aborted with the client, throws, is refused, or opens a body.
FetchAborted(s) ==
    /\ js[s].pc = "fetching" /\ js[s].gone /\ LeavesWith(s, "none")
    /\ UNCHANGED <<goSide, now>>

FetchThrows(s) ==
    /\ js[s].pc = "fetching" /\ ~js[s].gone /\ LeavesWith(s, "thrown")
    /\ UNCHANGED <<goSide, now>>

FetchRefused(s) ==
    /\ js[s].pc = "fetching" /\ ~js[s].gone
    /\ IF client[s].begun THEN finish(s, FALSE) ELSE LeavesWith(s, "json")
    /\ UNCHANGED <<goSide, now>>

FetchOpens(s) ==
    /\ js[s].pc = "fetching" /\ ~js[s].gone /\ s \in Talkers
    /\ js' = [js EXCEPT ![s].pc = "reading"] /\ client' = [client EXCEPT ![s].begun = TRUE]
    /\ UNCHANGED <<goSide, post, now>>

\* A line of the answer that counts: text or a call, or a status that is not
\* the last (observeContinueState).
Line(s) ==
    /\ js[s].pc = "reading" /\ ~js[s].gone
    /\ \/ js' = [js EXCEPT ![s].output = "text"]
       \/ js' = [js EXCEPT ![s].status = "incomplete"]
    /\ UNCHANGED <<goSide, post, client, now>>

\* The answer says it failed or was filtered, or its body breaks off, or the
\* client is gone.
Breaks(s) ==
    /\ js[s].pc = "reading" /\ finish(s, FALSE)
    /\ UNCHANGED <<goSide, now>>

shouldAutoContinue(s) == js[s].status = "incomplete" /\ js[s].rounds < MaxContinues

\* The body ends, or says it is finished and with that is not continued.
BodyEnded(s) ==
    /\ js[s].pc = "reading" /\ ~js[s].gone
    /\ \/ /\ shouldAutoContinue(s)
          /\ js' = [js EXCEPT ![s].pc = "powing", ![s].rounds = @ + 1, ![s].status = ""]
          /\ UNCHANGED <<post, client>>
       \/ finish(s, js[s].retries < MaxEmptyRetries)
    /\ UNCHANGED <<goSide, now>>

\* refreshPowHeader: the proof came, or the old one is used again; the request
\* for it may still be worked on when its answer is given up.
PowAnswered(s) ==
    /\ js[s].pc = "powing" /\ js' = [js EXCEPT ![s].pc = "fetching"]
    /\ solving' \in {solving, solving \ {s}}
    /\ UNCHANGED <<slots, lease, strayed, post, client, now>>

\* A proof nobody waits for is done at last.
PowDone(s) ==
    /\ s \in solving /\ js[s].pc # "powing" /\ solving' = solving \ {s}
    /\ UNCHANGED <<slots, lease, strayed, post, jsSide, now>>

-----------------------------------------------------------------------------
\* A release request is lost, or reaches an instance without the lease.
ReleaseLost(s) ==
    /\ post[s] = "sent" /\ post' = [post EXCEPT ![s] = "done"]
    /\ UNCHANGED <<goSide, jsSide, now>>

TimePasses ==
    /\ now < MaxTime /\ now' = now + 1
    /\ UNCHANGED <<goSide, post, jsSide>>

VercelNext ==
    \/ TimePasses
    \/ \E s \in Streams :
          \/ PrepareAcquires(s) \/ PrepareSwitchesAccount(s) \/ PrepareFails(s) \/ holdStreamLease(s)
          \/ releaseStreamLease(s) \/ lookupStreamLeaseAuth(s) \/ PowSwitchesAccount(s) \/ Prepared(s)
          \/ markClientClosed(s) \/ FetchAborted(s) \/ FetchThrows(s) \/ FetchRefused(s)
          \/ FetchOpens(s) \/ Line(s) \/ Breaks(s) \/ BodyEnded(s) \/ PowAnswered(s) \/ PowDone(s)
          \/ ReleaseLost(s)

VercelSpec == VercelInit /\ [][VercelNext]_vercelVars

-----------------------------------------------------------------------------
\* The state of both functions has its type.
VercelTypeOK ==
    /\ slots \in [Accounts -> 0..SlotsPer]
    /\ lease \in [Streams -> [state : {"none", "preparing", "refused", "held", "over"}, account : Accounts,
                              tried : SUBSET Accounts, deadline : 0..MaxTime + LeaseTTL]]
    /\ solving \subseteq Streams /\ strayed \subseteq Streams /\ now \in 0..MaxTime
    /\ post \in [Streams -> {"none", "sent", "done"}]
    /\ js \in [Streams -> [pc : {"preparing", "fetching", "reading", "powing", "over"},
                           leased : BOOLEAN, gone : BOOLEAN,
                           output : {"", "text"}, status : {"", "incomplete"},
                           rounds : 0..MaxContinues, retries : 0..MaxEmptyRetries]]
    /\ client \in [Streams -> [begun : BOOLEAN, ending : {"none", "json", "thrown", "failed", "finish"},
                               endings : 0..1]]

\* No account has a slot taken that nobody will give back: each is that of a
\* request being prepared, of a lease, or of an auth that strayed on it.  And
\* as long as no auth strayed, none of these has lost its slot.
SlotsAreLeases ==
    \A a \in Accounts :
        LET holders == {s \in Streams : (Pending(s) \/ Held(s)) /\ lease[s].account = a}
            astray == {s \in strayed : lease[s].account = a}
        IN  /\ slots[a] <= Cardinality(holders \union astray)
            /\ strayed = {} => slots[a] = Cardinality(holders)

\* A stream ends once for either side, on every way out: the Go function is
\* asked to release the lease the stream knew of, and a client that is still
\* there is told once, unless the call to DeepSeek threw.
EndsOnce ==
    \A s \in Streams :
        /\ client[s].endings <= 1
        /\ js[s].pc = "over" => /\ (js[s].leased => post[s] # "none")
                               /\ (~js[s].gone => client[s].ending # "none")
        /\ post[s] # "none" => js[s].pc = "over" /\ js[s].leased
===============================================================================
