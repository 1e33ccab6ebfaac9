---------------------------- MODULE MCAccountPool ----------------------------
(***************************************************************************)
(* Small instances of AccountPool for TLC.                                 *)
(***************************************************************************)
EXTENDS AccountPool, TLC

CONSTANTS a1, a2

AnyAccount == [target |-> NoAccount, exclude |-> {}]

\* A request pinned by X-Ds2-Target-Account that has already tried a1.
MixedAsks ==
    {AnyAccount, [target |-> a2, exclude |-> {a1}]}
PlainAsks == {AnyAccount}

\* One slot per account with a short queue, and two slots with a global limit.
BothSettings ==
    {[maxPer |-> 1, maxQueue |-> 1, global |-> Default],
     [maxPer |-> 2, maxQueue |-> Default, global |-> 3]}
TightSettings ==
    {[maxPer |-> 1, maxQueue |-> 2, global |-> Default],
     [maxPer |-> 2, maxQueue |-> 1, global |-> 2]}

\* The account lists: without a2, with it, with one account listed twice.
AllListings == {<<>>, <<a1>>, <<a1, a2>>, <<a1, a2, a1>>}
ChangingListings == {<<>>, <<a1, a2>>, <<a2, a2>>}
OneListing == {<<a1>>}

RequestSymmetry == Permutations(Requests)
===============================================================================
