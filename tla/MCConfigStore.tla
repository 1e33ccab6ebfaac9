---------------------------- MODULE MCConfigStore ----------------------------
(***************************************************************************)
(* A small instance of ConfigStore for TLC.                                *)
(***************************************************************************)
EXTENDS ConfigStore

CONSTANTS k1, k2, a1, a2, p1, s1, s2

Plain(k) == [key |-> k, named |-> FALSE]
Named(k) == [key |-> k, named |-> TRUE]
Acc(id, password, proxy) == [id |-> id, password |-> password, proxy |-> proxy, token |-> NoValue]

\* A configuration with one account behind a proxy and a named key.
Usual == [Empty EXCEPT !.keys = <<k1>>, !.apiKeys = <<Named(k1)>>, !.proxies = {p1},
                       !.accounts = <<Acc(a1, s1, p1)>>]
\* One that mentions a proxy it does not have, and a limit.
Foreign == [Empty EXCEPT !.keys = <<k2, k1, k2>>, !.accounts = <<Acc(a2, s2, p1), Acc(a1, s2, NoValue)>>,
                         !.global = 1]

\* As it was deployed once, in a file with a token.
Deployed == [Usual EXCEPT !.accounts[1].token = a1, !.sync = SyncHash(Usual)]

MCSources == {Usual, Deployed}
MCKeyLists == {<<k2, k1>>}
MCRecordLists == {<<Named(k2)>>}
MCAccountLists == {<<Acc(a2, s2, p1), Acc(a1, NoValue, NoValue)>>}
MCImports == {Foreign, [Usual EXCEPT !.perAccount = 2]}
MCLimits == {<<0, 1>>}
===============================================================================
