------------------------------ MODULE ConfigData ------------------------------
(***************************************************************************)
(* A configuration and the pure functions on it: internal/config           *)
(* (credentials.go, config.go, validation.go) and the merging helpers of   *)
(* the admin handlers (admin/shared/helpers.go).                           *)
(*                                                                         *)
(* API keys are kept twice, as plain strings (the legacy field "keys") and *)
(* as records with a name and a remark (api_keys), of which "named" tells  *)
(* whether there is one.  An account's token is represented by the account *)
(* it was issued to.  Names, remarks, aliases and the settings no property *)
(* is about are left out; strings arrive trimmed and in canonical form.    *)
(***************************************************************************)
EXTENDS Integers, Sequences, FiniteSets

CONSTANTS
    Keys,        \* API keys
    AccountIds,  \* identifiers: an email address or a canonical mobile number
    Secrets,     \* account passwords
    ProxyIds,    \* identifiers of proxies
    NoValue      \* an empty password, token or proxy, no hash and no value

ASSUME NoValueAssumption == NoValue \notin Keys \cup AccountIds \cup Secrets \cup ProxyIds

\* 0 stands for a limit that is not set.
Limits == 0..2

Empty == [keys |-> <<>>, apiKeys |-> <<>>, accounts |-> <<>>, proxies |-> {},
          perAccount |-> 0, global |-> 0, sync |-> NoValue]

KeyRecords == [key : Keys, named : BOOLEAN]
Accounts == [id : AccountIds, password : Secrets \cup {NoValue},
             proxy : ProxyIds \cup {NoValue}, token : AccountIds \cup {NoValue}]

\* What is deployed, and hashed: a configuration without its synchronisation
\* fields.
Configs ==
    [keys : Seq(Keys), apiKeys : Seq(KeyRecords), accounts : Seq(Accounts),
     proxies : SUBSET ProxyIds, perAccount : Limits, global : Limits]

\* What the server holds and saves: the hash stands for what was hashed.
StoredConfigs ==
    [keys : Seq(Keys), apiKeys : Seq(KeyRecords), accounts : Seq(Accounts),
     proxies : SUBSET ProxyIds, perAccount : Limits, global : Limits,
     sync : Configs \cup {NoValue}]

KeysOf(c) == {c.keys[i] : i \in DOMAIN c.keys}

\* The fields of a configuration but its synchronisation hash.
Body(c) == [keys |-> c.keys, apiKeys |-> c.apiKeys, accounts |-> c.accounts,
            proxies |-> c.proxies, perAccount |-> c.perAccount, global |-> c.global]

IdsOf(accounts) == {accounts[i].id : i \in DOMAIN accounts}

\* Where an account is; a file may list an identifier twice, a search finds the
\* first and a map keeps the last.
FirstOf(accounts, id) ==
    CHOOSE i \in DOMAIN accounts : /\ accounts[i].id = id
                                  /\ \A j \in DOMAIN accounts : j < i => accounts[j].id # id
LastOf(accounts, id) ==
    CHOOSE i \in DOMAIN accounts : /\ accounts[i].id = id
                                  /\ \A j \in DOMAIN accounts : i < j => accounts[j].id # id

IsNamed(c, k) == \E i \in DOMAIN c.apiKeys : c.apiKeys[i] = [key |-> k, named |-> TRUE]

-----------------------------------------------------------------------------
\* Credentials

\* The nth smallest of a set of places, and the elements of a list at the places
\* of a set, in their order.
Place(P, n) == CHOOSE i \in P : Cardinality({j \in P : j < i}) = n - 1
ElementsAt(s, P) == [n \in 1..Cardinality(P) |-> s[Place(P, n)]]

\* The elements of a list without those that repeat the name of an earlier one.
FirstOfEach(s, Name(_)) ==
    ElementsAt(s, {i \in DOMAIN s : \A j \in 1..(i - 1) : Name(s[j]) # Name(s[i])})

normalizeKeys(keys) == FirstOfEach(keys, LAMBDA k : k)
normalizeAPIKeys(items) == FirstOfEach(items, LAMBDA item : item.key)

apiKeysToStrings(items) == [i \in DOMAIN items |-> items[i].key]

\* Mutant: a key's name is not looked up.
apiKeysFromStringsPlain(keys, meta) ==
    [i \in DOMAIN keys |-> [key |-> keys[i], named |-> FALSE]]

\* The records of a list of strings, with what "meta" knows of each key.
apiKeysFromStrings(keys, meta) ==
    [i \in DOMAIN keys |->
        [key |-> keys[i], named |-> [key |-> keys[i], named |-> TRUE] \in {meta[j] : j \in DOMAIN meta}]]

\* Whichever of the two lists was changed wins, the records when both were.
ReconcileCredentials(c, base) ==
    LET keysChanged == normalizeKeys(c.keys) # normalizeKeys(base.keys)
        apiKeysChanged == normalizeAPIKeys(c.apiKeys) # normalizeAPIKeys(base.apiKeys)
        items == IF keysChanged /\ ~apiKeysChanged
                 THEN apiKeysFromStrings(normalizeKeys(c.keys), normalizeAPIKeys(base.apiKeys))
                 ELSE normalizeAPIKeys(c.apiKeys)
    IN  [c EXCEPT !.apiKeys = items, !.keys = apiKeysToStrings(items)]

NormalizeCredentials(c) ==
    LET items == IF c.apiKeys # <<>> THEN normalizeAPIKeys(c.apiKeys)
                 ELSE apiKeysFromStrings(normalizeKeys(c.keys), <<>>)
    IN  [c EXCEPT !.apiKeys = items, !.keys = apiKeysToStrings(items)]

ClearAccountTokens(c) ==
    [c EXCEPT !.accounts = [i \in DOMAIN @ |-> [@[i] EXCEPT !.token = NoValue]]]

\* A token is kept with the account it was issued to.
OwnTokens(accounts) ==
    \A i \in DOMAIN accounts : accounts[i].token \in {accounts[i].id, NoValue}

\* The hash of a configuration: of all its content but tokens and the
\* synchronisation fields.
SyncHash(c) == Body(ClearAccountTokens(c))

-----------------------------------------------------------------------------
\* Merging what an administrator sends into what is there

\* A key that is there keeps its name, and takes one when it has none.
mergeAPIKeysPreferStructured(existing, incoming) ==
    LET all == existing \o incoming
    IN  apiKeysFromStrings(normalizeKeys(apiKeysToStrings(all)), all)

normalizeAndDedupeAccounts(accounts) == FirstOfEach(accounts, LAMBDA acc : acc.id)

\* Accounts that are there already are left as they are.
mergeAccounts(existing, incoming) ==
    LET candidates == normalizeAndDedupeAccounts(incoming)
    IN  existing \o ElementsAt(candidates, {i \in DOMAIN candidates :
                                                candidates[i].id \notin IdsOf(existing)})

-----------------------------------------------------------------------------
\* Validation

ValidRuntime(c) == c.perAccount > 0 /\ c.global > 0 => c.global >= c.perAccount

\* The proxies being a set stands for the check of their identifiers.
ValidProxyReferences(c) ==
    \A i \in DOMAIN c.accounts : c.accounts[i].proxy \in c.proxies \cup {NoValue}

ValidateConfig(c) == ValidRuntime(c) /\ ValidProxyReferences(c)
===============================================================================
