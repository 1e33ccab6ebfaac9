------------------------------ MODULE ConfigStore ------------------------------
(***************************************************************************)
(* The configuration of a running server: internal/config/store.go (the    *)
(* configuration in memory, its indexes, the file it is saved to and       *)
(* loaded from), the admin handlers that change it                         *)
(* (internal/httpapi/admin: configmgmt, settings, accounts, proxies,       *)
(* vercel), and the tokens the requests store in it.                       *)
(*                                                                         *)
(* Store.Update and the other methods of the store run under its lock and  *)
(* are one step each; what a handler does between two of them is not       *)
(* protected, and those handlers have several steps: the configuration is  *)
(* replaced with passwords from an older snapshot, settings are validated  *)
(* against one, an account is tested, and the configuration is deployed    *)
(* to Vercel.  A save rewrites the file in place and may fail or be cut    *)
(* off; the memory has changed by then.                                    *)
(*                                                                         *)
(* What Pool.Reset does after a change is AccountPool.  External: the file *)
(* system, the logins, the environment variable of the Vercel project.     *)
(***************************************************************************)
EXTENDS ConfigData

CONSTANTS
    Admins,         \* handlers of several steps that run at the same time
    SourceConfigs,  \* what the file or the environment holds at first
    KeyLists,       \* lists of keys in a request
    RecordLists,    \* lists of key records in a request
    AccountLists,   \* lists of accounts in a request
    ImportConfigs,  \* configurations to import or to deploy
    LimitRequests,  \* pairs of limits in a request, 0 for one left out
    MaxChanges,     \* bound on the changes of the configuration
    MaxFaults,      \* bound on failed saves and crashes
    Torn, Absent    \* a file with half of its content, no file

ASSUME ConfigBoundsAssumption == MaxChanges \in Nat /\ MaxFaults \in Nat

\* A file may hold tokens, each with its account.
ASSUME SourcesAssumption ==
    \A c \in SourceConfigs : c \in StoredConfigs /\ OwnTokens(c.accounts)

\* A request's accounts are read without a token (toAccount).
ASSUME RequestsAssumption ==
    /\ KeyLists \subseteq Seq(Keys)
    /\ RecordLists \subseteq Seq(KeyRecords)
    /\ \A accounts \in AccountLists : /\ accounts \in Seq(Accounts)
                                     /\ \A i \in DOMAIN accounts : accounts[i].token = NoValue
    /\ ImportConfigs \subseteq StoredConfigs
    /\ LimitRequests \subseteq Limits \X Limits

ASSUME FileMarksAssumption == Torn # Absent /\ {Torn, Absent} \cap StoredConfigs = {}

VARIABLES
    cfg,       \* Store.cfg
    index,     \* Store.keyMap and accMap
    file,      \* the configuration file
    backing,   \* where the configuration comes from, what the environment holds,
               \* and whether the server is up
    job,       \* the handler each administrator has running
    deployed,  \* the configuration in the environment of the Vercel project
    note       \* what the code does not write down: the configuration last
               \* acknowledged as saved; whether one was stored unchecked;
               \* whether deployments crossed, failed half-way or were forgotten
               \* by a restart; the counters

configVars == <<cfg, index, file, backing, job, deployed, note>>

\* How the server was started: with a file, with an environment variable that
\* is written back to a file, with one that is not (or on Vercel, where nothing
\* is ever saved).
Modes == {"file", "writeback", "memory"}
Idle == [at |-> "idle"]

\* What a handler of several steps has got to, and what it holds meanwhile.
Jobs ==
    [at : {"idle"}] \cup [at : {"update"}, old : Seq(Accounts)]
    \cup [at : {"settings"}, perAccount : Limits, global : Limits]
    \cup [at : {"test"}, id : AccountIds]
    \cup [at : {"validate"}, pending : SUBSET AccountIds]
    \cup [at : {"exported", "upserted"}, config : Configs]

ConfigTypeOK ==
    /\ cfg \in StoredConfigs
    /\ index.keys \subseteq Keys
    /\ DOMAIN index.accounts \subseteq AccountIds
    /\ file \in StoredConfigs \cup {Torn, Absent}
    /\ backing \in [mode : Modes, source : SourceConfigs, state : {"up", "down", "refused"}]
    /\ job \in [Admins -> Jobs]
    /\ deployed \in Configs \cup {NoValue}
    /\ note \in [acked : StoredConfigs \cup {NoValue}, changes : 0..MaxChanges,
                 faults : 0..MaxFaults, unchecked : BOOLEAN, muddled : BOOLEAN]

Up == backing.state = "up"

-----------------------------------------------------------------------------
\* The store under its lock

IndexesOf(c) ==
    [keys |-> KeysOf(c),
     accounts |-> [id \in IdsOf(c.accounts) |-> LastOf(c.accounts, id)]]

\* Mutant: an index of an earlier configuration is kept.
rebuildIndexesOnlyKeys(c) == index' = [index EXCEPT !.keys = KeysOf(c)]

rebuildIndexes(c) == index' = IndexesOf(c)

findAccountIndexLocked(id) ==
    IF id \in DOMAIN index.accounts /\ index.accounts[id] \in DOMAIN cfg.accounts
    THEN index.accounts[id]
    ELSE IF id \in IdsOf(cfg.accounts)
    THEN FirstOf(cfg.accounts, id)
    ELSE 0

\* What a step writes down about itself.
Noted(acked, fault, unchecked, muddled) ==
    note' = [acked |-> acked,
             changes |-> note.changes + 1,
             faults |-> note.faults + (IF fault THEN 1 ELSE 0),
             unchecked |-> note.unchecked \/ unchecked,
             muddled |-> note.muddled \/ muddled]

\* A save writes the file in place, or fails and may leave half of it.
saveLocked(c, unchecked, muddled) ==
    /\ note.changes < MaxChanges
    /\ IF backing.mode = "memory"
       THEN UNCHANGED file /\ Noted(note.acked, FALSE, unchecked, FALSE)
       ELSE \/ /\ file' = ClearAccountTokens(c)
               /\ Noted(ClearAccountTokens(c), FALSE, unchecked, FALSE)
            \/ /\ note.faults < MaxFaults
               /\ file' \in {file, Torn}
               /\ Noted(NoValue, TRUE, unchecked, muddled)

\* Store.Update with a mutator that makes c of cfg; the caller's answer is an
\* error when the save failed, but the configuration stays changed.
UpdateNoting(c, unchecked, muddled) ==
    LET next == NormalizeCredentials(ReconcileCredentials(c, cfg))
    IN  /\ Up
        /\ cfg' = next
        /\ rebuildIndexes(next)
        /\ saveLocked(next, unchecked, muddled)
        /\ UNCHANGED backing

Update(c) == UpdateNoting(c, FALSE, FALSE)

\* Handlers that are one Update.
Change(c) == Update(c) /\ UNCHANGED <<job, deployed>>

UpdateAccountToken(id, token) ==
    LET i == findAccountIndexLocked(id)
    IN  /\ Up
        /\ i # 0
        /\ cfg' = [cfg EXCEPT !.accounts[i].token = token]
        /\ index' = [index EXCEPT !.accounts = [x \in {id} \cup DOMAIN @ |-> IF x = id THEN i ELSE @[x]]]
        /\ saveLocked(cfg', FALSE, FALSE)
        /\ UNCHANGED backing

-----------------------------------------------------------------------------
\* Loading, and the end of the process

Loaded(c) ==
    /\ cfg' = NormalizeCredentials(c)
    /\ index' = IndexesOf(NormalizeCredentials(c))
    /\ backing' = [backing EXCEPT !.state = IF ValidateConfig(c) THEN "up" ELSE "refused"]

\* What the environment holds is loaded without its tokens, but with the hash it
\* was exported with: that of a deployment before, which need not be the last.
LoadedFromEnv ==
    /\ Loaded(ClearAccountTokens(backing.source))
    /\ note' = [note EXCEPT !.muddled = @ \/ backing.source.sync \notin {NoValue, deployed}]

\* Mutant: the environment wins over the file it was written back to.
loadConfigFromEnv ==
    /\ backing.state = "down" /\ backing.mode = "writeback"
    /\ LoadedFromEnv
    /\ UNCHANGED <<file, job, deployed>>

\* Without write-back the environment is loaded, whatever was changed since.
\* With it the file is, when there is a readable one; otherwise a file is created
\* from the environment, but a torn one is left for the next save to replace.
loadConfig ==
    /\ backing.state = "down"
    /\ \/ /\ backing.mode = "memory"
          /\ LoadedFromEnv
          /\ UNCHANGED file
       \/ /\ file \notin {Torn, Absent} /\ backing.mode # "memory"
          /\ Loaded(file)
          /\ UNCHANGED <<file, note>>
       \/ /\ file \in {Torn, Absent} /\ backing.mode = "file"
          /\ backing' = [backing EXCEPT !.state = "refused"]
          /\ UNCHANGED <<cfg, index, file, note>>
       \/ /\ file = Torn /\ backing.mode = "writeback"
          /\ LoadedFromEnv
          /\ UNCHANGED file
       \/ /\ file = Absent /\ backing.mode = "writeback"
          /\ LoadedFromEnv
          /\ file' = IF ValidateConfig(backing.source)
                     THEN ClearAccountTokens(backing.source) ELSE Absent
    /\ UNCHANGED <<job, deployed>>

\* The process dies, perhaps while it rewrites the file.
Crash ==
    /\ Up
    /\ note.faults < MaxFaults
    /\ backing' = [backing EXCEPT !.state = "down"]
    /\ job' = [adm \in Admins |-> Idle]
    /\ \/ UNCHANGED file /\ note' = [note EXCEPT
              !.faults = @ + 1,
              !.muddled = @ \/ \E adm \in Admins : job[adm].at = "upserted"]
       \/ /\ backing.mode # "memory"
          /\ file' = Torn
          /\ note' = [note EXCEPT !.faults = @ + 1, !.acked = NoValue, !.muddled = TRUE]
    /\ UNCHANGED <<cfg, index, deployed>>

-----------------------------------------------------------------------------
\* configmgmt: keys and whole configurations

addKey(k, named) ==
    /\ k \notin KeysOf(cfg)
    /\ Change([cfg EXCEPT !.apiKeys = Append(@, [key |-> k, named |-> named])])

\* A name may be set or removed.
updateKey(k, named) ==
    /\ k \in KeysOf(cfg)
    /\ Change([cfg EXCEPT !.apiKeys = [i \in DOMAIN @ |->
                  IF @[i].key = k THEN [key |-> k, named |-> named] ELSE @[i]]])

deleteKey(k) ==
    /\ k \in KeysOf(cfg)
    /\ Change([cfg EXCEPT !.apiKeys = ElementsAt(@, {i \in DOMAIN @ : @[i].key # k})])

\* updateConfig, up to the store's lock: the passwords of this moment are kept.
updateConfigBegins(adm) ==
    /\ Up /\ job[adm] = Idle
    /\ job' = [job EXCEPT ![adm] = [at |-> "update", old |-> cfg.accounts]]
    /\ UNCHANGED <<cfg, index, file, backing, deployed, note>>

\* A blank password means the one the account had.
WithOldPasswords(accounts, old) ==
    [i \in DOMAIN accounts |->
        IF accounts[i].password # NoValue \/ accounts[i].id \notin IdsOf(old)
        THEN accounts[i]
        ELSE [accounts[i] EXCEPT !.password = old[LastOf(old, accounts[i].id)].password]]

\* Nothing is validated: an account may name a proxy that does not exist.
updateConfig(adm) ==
    /\ job[adm].at = "update"
    /\ \E accounts \in {cfg.accounts} \cup
              {WithOldPasswords(normalizeAndDedupeAccounts(a), job[adm].old) : a \in AccountLists} :
       \E base \in {cfg} \cup {[cfg EXCEPT !.apiKeys = items] : items \in RecordLists}
                   \cup {[cfg EXCEPT !.keys = keys] : keys \in KeyLists} :
          LET c == [base EXCEPT !.accounts = accounts]
          IN  UpdateNoting(c, ~ValidateConfig(c), FALSE)
    /\ job' = [job EXCEPT ![adm] = Idle]
    /\ UNCHANGED deployed

\* batchImport merges, and validates nothing either.
batchImport(items, accounts) ==
    LET c == [cfg EXCEPT !.apiKeys = mergeAPIKeysPreferStructured(@, items),
                         !.accounts = mergeAccounts(@, accounts)]
    IN  UpdateNoting(c, ~ValidateConfig(c), FALSE) /\ UNCHANGED <<job, deployed>>

\* Mode "merge": proxies are not imported, limits only when they are set.
MergedConfig(c, incoming) ==
    [c EXCEPT !.apiKeys = mergeAPIKeysPreferStructured(@, incoming.apiKeys),
              !.accounts = mergeAccounts(@, incoming.accounts),
              !.perAccount = IF incoming.perAccount > 0 THEN incoming.perAccount ELSE @,
              !.global = IF incoming.global > 0 THEN incoming.global ELSE @]

\* Mode "replace": only the synchronisation fields are kept.
ReplacedConfig(c, incoming) ==
    [incoming EXCEPT !.accounts = normalizeAndDedupeAccounts(@), !.sync = c.sync]

configImport(raw) ==
    LET incoming == ClearAccountTokens(NormalizeCredentials(raw))
    IN  \E c \in {MergedConfig(cfg, incoming), ReplacedConfig(cfg, incoming)} :
           ValidateConfig(c) /\ Change(c)

-----------------------------------------------------------------------------
\* settings

\* updateSettings validates against a snapshot ...
updateSettingsBegins(adm, perAccount, global) ==
    LET merged == [cfg EXCEPT !.perAccount = IF perAccount > 0 THEN perAccount ELSE @,
                              !.global = IF global > 0 THEN global ELSE @]
    IN  /\ Up /\ job[adm] = Idle
        /\ ValidRuntime(merged)
        /\ job' = [job EXCEPT ![adm] = [at |-> "settings", perAccount |-> perAccount,
                                        global |-> global]]
        /\ UNCHANGED <<cfg, index, file, backing, deployed, note>>

\* ... and stores the limits later.
updateSettings(adm) ==
    /\ job[adm].at = "settings"
    /\ LET c == MergedConfig(cfg, [Empty EXCEPT !.perAccount = job[adm].perAccount,
                                                !.global = job[adm].global])
       IN  UpdateNoting(c, ~ValidRuntime(c), FALSE)
    /\ job' = [job EXCEPT ![adm] = Idle]
    /\ UNCHANGED deployed

-----------------------------------------------------------------------------
\* accounts and proxies

\* Mutant: the proxy is not looked up.
addAccountAnyProxy(acc) ==
    /\ acc.id \notin IdsOf(cfg.accounts)
    /\ Change([cfg EXCEPT !.accounts = Append(@, acc)])

addAccount(acc) ==
    /\ acc.proxy \in cfg.proxies \cup {NoValue}
    /\ acc.id \notin IdsOf(cfg.accounts)
    /\ Change([cfg EXCEPT !.accounts = Append(@, acc)])

\* updateAccount changes a name or a remark: nothing the model has, but the
\* configuration is saved.
updateAccount == cfg.accounts # <<>> /\ Change(cfg)

deleteAccount(id) ==
    /\ id \in IdsOf(cfg.accounts)
    /\ Change([cfg EXCEPT !.accounts = ElementsAt(@, DOMAIN @ \ {FirstOf(@, id)})])

addProxy(p) ==
    /\ p \notin cfg.proxies
    /\ LET c == [cfg EXCEPT !.proxies = @ \cup {p}]
       IN  ValidProxyReferences(c) /\ Change(c)

\* The address changes, the identifier stays.
updateProxy == cfg.proxies # {} /\ ValidProxyReferences(cfg) /\ Change(cfg)

\* The accounts behind the proxy go without one.
deleteProxy(p) ==
    LET c == [cfg EXCEPT
                 !.proxies = @ \ {p},
                 !.accounts = [i \in DOMAIN @ |->
                     IF @[i].proxy = p THEN [@[i] EXCEPT !.proxy = NoValue] ELSE @[i]]]
    IN  p \in cfg.proxies /\ ValidProxyReferences(c) /\ Change(c)

updateAccountProxy(id, p) ==
    LET c == [cfg EXCEPT !.accounts[FirstOf(cfg.accounts, id)].proxy = p]
    IN  /\ p \in cfg.proxies \cup {NoValue}
        /\ id \in IdsOf(cfg.accounts)
        /\ ValidProxyReferences(c)
        /\ Change(c)

\* testAccount finds the account, logs in, perhaps twice, and stores the token
\* under the identifier it found; the account may be gone or another by then.
\* deleteAllSessions does the same.
testAccountBegins(adm, id) ==
    /\ Up /\ job[adm] = Idle
    /\ id \in IdsOf(cfg.accounts)
    /\ job' = [job EXCEPT ![adm] = [at |-> "test", id |-> id]]
    /\ UNCHANGED <<cfg, index, file, backing, deployed, note>>

testAccountLogin(adm) ==
    /\ job[adm].at = "test"
    /\ UpdateAccountToken(job[adm].id, job[adm].id)
    /\ UNCHANGED <<job, deployed>>

\* The status that is noted at the end is shown in a list and left out here.
testAccountEnds(adm) ==
    /\ job[adm].at = "test"
    /\ job' = [job EXCEPT ![adm] = Idle]
    /\ UNCHANGED <<cfg, index, file, backing, deployed, note>>

\* A request logs its account in, or finds the token refused.
requestToken(id) ==
    /\ \E token \in {id, NoValue} : UpdateAccountToken(id, token)
    /\ UNCHANGED <<job, deployed>>

-----------------------------------------------------------------------------
\* vercel: deploying the configuration

\* The accounts without a token are logged in first, as they were at the start,
\* unless the request (parseVercelSyncOptions) asks for no validation.
syncVercelBegins(adm) ==
    /\ Up /\ job[adm] = Idle
    /\ LET pending == {id \in IdsOf(cfg.accounts) :
                          \E i \in DOMAIN cfg.accounts :
                             cfg.accounts[i].id = id /\ cfg.accounts[i].token = NoValue}
       IN  \E ids \in {pending, {}} :
              job' = [job EXCEPT ![adm] = [at |-> "validate", pending |-> ids]]
    /\ UNCHANGED <<cfg, index, file, backing, deployed, note>>

validateAccountsForVercelSync(adm, id) ==
    /\ job[adm].at = "validate" /\ id \in job[adm].pending
    /\ \/ UpdateAccountToken(id, id)
       \/ UNCHANGED <<cfg, index, file, backing, note>>     \* no login, or no such account
    /\ job' = [job EXCEPT ![adm].pending = @ \ {id}]
    /\ UNCHANGED deployed

\* Mutant: the synchronisation fields are left in what is deployed.
exportSyncConfigWithSync(adm) ==
    /\ job[adm].at = "validate" /\ job[adm].pending = {}
    /\ job' = [job EXCEPT ![adm] = [at |-> "exported", config |-> ClearAccountTokens(cfg)]]
    /\ UNCHANGED <<cfg, index, file, backing, deployed, note>>

\* The stored configuration, or the one the page sends instead.  Only the latter
\* is exported without its synchronisation fields; hashes and comparisons leave
\* them out.
exportSyncConfig(adm) ==
    /\ job[adm].at = "validate" /\ job[adm].pending = {}
    /\ \E c \in {cfg} \cup {NormalizeCredentials(raw) : raw \in ImportConfigs} :
          job' = [job EXCEPT ![adm] = [at |-> "exported", config |-> SyncHash(c)]]
    /\ UNCHANGED <<cfg, index, file, backing, deployed, note>>

Crossed(adm) == \E other \in Admins \ {adm} : job[other].at \in {"exported", "upserted"}

\* The environment variable is replaced; or the request fails, perhaps after it
\* took effect.  The credentials stored beside it and the deployment triggered
\* then change nothing that is kept here, whether they succeed or not.
upsertVercelEnv(adm) ==
    /\ job[adm].at = "exported"
    /\ \/ /\ deployed' = job[adm].config
          /\ job' = [job EXCEPT ![adm].at = "upserted"]
          /\ note' = [note EXCEPT !.muddled = @ \/ Crossed(adm)]
       \/ /\ deployed' \in {deployed, job[adm].config}
          /\ job' = [job EXCEPT ![adm] = Idle]
          /\ note' = [note EXCEPT !.muddled = @ \/ deployed' # deployed]
    /\ UNCHANGED <<cfg, index, file, backing>>

\* Mutant: the hash of what is stored now.
SetVercelSyncCurrent(adm) ==
    /\ job[adm].at = "upserted"
    /\ UpdateNoting([cfg EXCEPT !.sync = SyncHash(cfg)], FALSE, TRUE)
    /\ job' = [job EXCEPT ![adm] = Idle]
    /\ UNCHANGED deployed

\* The hash of what was exported is stored, whatever the store holds by now.
SetVercelSync(adm) ==
    /\ job[adm].at = "upserted"
    /\ UpdateNoting([cfg EXCEPT !.sync = job[adm].config], FALSE, TRUE)
    /\ job' = [job EXCEPT ![adm] = Idle]
    /\ UNCHANGED deployed

\* What vercelStatus answers.
Synced == cfg.sync # NoValue /\ cfg.sync = SyncHash(cfg)

-----------------------------------------------------------------------------
\* The system

\* A file tells of the last deployment, if any; what an environment variable
\* holds tells of the deployment before it was exported, and may itself be what
\* was deployed.
ConfigInit ==
    /\ cfg = Empty
    /\ index = IndexesOf(Empty)
    /\ \E mode \in Modes, c \in SourceConfigs :
          /\ backing = [mode |-> mode, source |-> c, state |-> "down"]
          /\ file = IF mode = "file" THEN c ELSE Absent
          /\ \/ deployed = c.sync
             \/ mode # "file" /\ deployed = SyncHash(c)
    /\ job = [adm \in Admins |-> Idle]
    /\ note = [acked |-> NoValue, changes |-> 0, faults |-> 0, unchecked |-> FALSE, muddled |-> FALSE]

\* Handlers that take one Update.
OneUpdate ==
    \/ \E k \in Keys : deleteKey(k) \/ \E named \in BOOLEAN : addKey(k, named) \/ updateKey(k, named)
    \/ \E items \in RecordLists, accounts \in AccountLists : batchImport(items, accounts)
    \/ \E c \in ImportConfigs : configImport(c)
    \/ \E accounts \in AccountLists : accounts # <<>> /\ addAccount(accounts[1])
    \/ updateAccount \/ updateProxy
    \/ \E id \in AccountIds : deleteAccount(id) \/ requestToken(id)
    \/ \E p \in ProxyIds : addProxy(p) \/ deleteProxy(p)
    \/ \E id \in AccountIds, p \in ProxyIds \cup {NoValue} : updateAccountProxy(id, p)

\* Handlers with several steps.
testAccount(adm) ==
    \/ \E id \in AccountIds : testAccountBegins(adm, id)
    \/ testAccountLogin(adm) \/ testAccountEnds(adm)

syncVercel(adm) ==
    \/ syncVercelBegins(adm)
    \/ \E id \in AccountIds : validateAccountsForVercelSync(adm, id)
    \/ exportSyncConfig(adm) \/ upsertVercelEnv(adm) \/ SetVercelSync(adm)

Longer(adm) ==
    \/ updateConfigBegins(adm) \/ updateConfig(adm)
    \/ \E limits \in LimitRequests : updateSettingsBegins(adm, limits[1], limits[2])
    \/ updateSettings(adm)
    \/ testAccount(adm) \/ syncVercel(adm)

ConfigNext ==
    \/ loadConfig
    \/ Crash
    \/ Up /\ note.changes < MaxChanges /\ OneUpdate
    \/ Up /\ \E adm \in Admins : Longer(adm)

ConfigSpec == ConfigInit /\ [][ConfigNext]_configVars

-----------------------------------------------------------------------------
\* Properties

\* The indexes are those of the configuration: a key is accepted exactly when
\* it is configured, both lists of keys agree, an identifier leads to its own
\* account, and so a token is only ever stored on the account it was issued
\* to, also when the accounts were replaced while the login was under way.
IndexAgrees ==
    Up => /\ index.keys = KeysOf(cfg)
          /\ cfg.keys = apiKeysToStrings(cfg.apiKeys)
          /\ \A id \in DOMAIN index.accounts :
                /\ index.accounts[id] \in DOMAIN cfg.accounts
                /\ cfg.accounts[index.accounts[id]].id = id
          /\ OwnTokens(cfg.accounts)

\* The step is one that an administrator makes to rewrite the records of the
\* keys: an edit, a list of records, an import in place of everything.
RewritesRecords ==
    \/ \E k \in Keys, named \in BOOLEAN : updateKey(k, named)
    \/ \E adm \in Admins, items \in RecordLists :
          job[adm].at = "update" /\ cfg'.apiKeys = normalizeAPIKeys(items)
    \/ \E raw \in ImportConfigs : cfg'.apiKeys = NormalizeCredentials(raw).apiKeys
    \/ loadConfig

\* A key that stays keeps its name and remark through legacy lists of plain
\* strings, merges, and changes of anything else.
MetadataKept ==
    [][\A k \in Keys : IsNamed(cfg, k) /\ k \in KeysOf(cfg') =>
          IsNamed(cfg', k) \/ RewritesRecords]_configVars

\* The configuration last acknowledged as saved is the one in use, and still is
\* after a crash and a restart, unless a later save failed or was cut off.
AcknowledgedIsServed ==
    Up /\ note.acked # NoValue => ClearAccountTokens(cfg) = note.acked

\* What the server holds is a configuration it would start with: only a
\* configuration replaced or imported without validation, or settings validated
\* against a snapshot that was overtaken, may break that.
StartsAgain == Up /\ ~note.unchecked => ValidateConfig(cfg)

\* When the status page says "synced", what is deployed is the configuration
\* in use: changes made during the deployment are not taken for deployed.  Two
\* deployments that cross, or one that fails after it took effect, may break it,
\* one that has replaced the variable and not yet stored the hash, and a start
\* from an environment variable that tells of a deployment before the last.
SyncedIsDeployed ==
    Up /\ Synced /\ ~note.muddled /\ (\A adm \in Admins : job[adm].at # "upserted")
        => deployed = SyncHash(cfg)
===============================================================================
