\* One handler of several steps beside those of one step; two accounts, two
\* keys, one proxy.
CONSTANTS
    k1 = k1
    k2 = k2
    a1 = a1
    a2 = a2
    p1 = p1
    s1 = s1
    s2 = s2
    Keys = {k1, k2}
    AccountIds = {a1, a2}
    Secrets = {s1, s2}
    ProxyIds = {p1}
    NoValue = NoValue
    Torn = Torn
    Absent = Absent
    Admins = {x}
    SourceConfigs <- MCSources
    KeyLists <- MCKeyLists
    RecordLists <- MCRecordLists
    AccountLists <- MCAccountLists
    ImportConfigs <- MCImports
    LimitRequests <- MCLimits
    MaxChanges = 2
    MaxFaults = 1
SPECIFICATION ConfigSpec
INVARIANTS ConfigTypeOK IndexAgrees AcknowledgedIsServed StartsAgain SyncedIsDeployed
PROPERTIES MetadataKept
CHECK_DEADLOCK FALSE
