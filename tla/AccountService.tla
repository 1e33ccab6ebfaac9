---------------------------- MODULE AccountService ----------------------------
(***************************************************************************)
(* What the account pool promises to the handlers that use it, without its *)
(* ledger, its rotation and its wait queue: a request asks for an account  *)
(* and is served one with room or is refused; no account serves more       *)
(* requests than its limit and all together no more than the global one; a *)
(* refusal means that the service and its line are full.  AccountPool      *)
(* states how it implements this.                                          *)
(***************************************************************************)
EXTENDS Integers, FiniteSets

CONSTANTS Accounts, NoAccount, Requests

VARIABLES
    offered,      \* the configured accounts
    perAccount,   \* how many requests an account may serve
    inAll,        \* how many the service may serve, 0 for no limit
    places,       \* how many may stand in line
    phase,        \* how far each request is
    lease         \* the account that serves it

terms == <<offered, perAccount, inAll, places>>
serviceVars == <<terms, phase, lease>>

Served == {r \in Requests : phase[r] = "served"}
Asking == {r \in Requests : phase[r] = "asking"}
ServedBy(a) == {r \in Served : lease[r] = a}

Capacity ==
    LET byAccount == perAccount * Cardinality(offered)
    IN  IF inAll > 0 /\ inAll < byAccount THEN inAll ELSE byAccount

Init ==
    /\ phase = [r \in Requests |-> "out"]
    /\ lease = [r \in Requests |-> NoAccount]

Becomes(r, from, to) == phase[r] = from /\ phase' = [phase EXCEPT ![r] = to]

\* A service without accounts refuses at once.
Ask(r) ==
    /\ \/ Becomes(r, "out", "asking")
       \/ offered = {} /\ Becomes(r, "out", "refused")
    /\ UNCHANGED <<terms, lease>>

\* An account with room is lent.
Lend(r) ==
    /\ Becomes(r, "asking", "served")
    /\ \E a \in offered :
          /\ Cardinality(ServedBy(a)) < perAccount
          /\ lease' = [lease EXCEPT ![r] = a]
    /\ UNCHANGED terms

Serve(r) == Lend(r) /\ (inAll > 0 => Cardinality(Served) < inAll)

\* The others that ask fill the line, and more.
Refuse(r) ==
    /\ Becomes(r, "asking", "refused")
    /\ Cardinality(Served) >= Capacity
    /\ Cardinality(Asking \ {r}) >= places
    /\ UNCHANGED <<terms, lease>>

Return(r) ==
    /\ Becomes(r, "served", "over")
    /\ lease' = [lease EXCEPT ![r] = NoAccount]
    /\ UNCHANGED terms

Next == \E r \in Requests : Ask(r) \/ Serve(r) \/ Refuse(r) \/ Return(r)

\* The leases alone, whatever all requests together may have and whoever is
\* refused: every lease was lent by an account with room, once, and ends.
LeaseNext ==
    \E r \in Requests :
        \/ Ask(r) \/ Lend(r) \/ Return(r)
        \/ /\ Becomes(r, "out", "refused") \/ Becomes(r, "asking", "refused")
           /\ UNCHANGED <<terms, lease>>

LeaseSpec == Init /\ [][LeaseNext]_serviceVars

\* What the service never does.
SafeSpec == Init /\ [][Next]_serviceVars

\* A request that could be answered is not left without an answer.
ServiceSpec ==
    /\ SafeSpec
    /\ \A r \in Requests : WF_serviceVars(Serve(r) \/ Refuse(r)) /\ WF_serviceVars(Return(r))

===============================================================================
