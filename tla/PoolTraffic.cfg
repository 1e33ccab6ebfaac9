\* Two accounts, four requests, nobody resets the pool and nobody gives up.
CONSTANTS
    a1 = a1
    a2 = a2
    Accounts = {a1, a2}
    NoAccount = NoAccount
    Default = Default
    Requests = {r1, r2, r3, r4}
    Cancellable = {}
    Admins = {}
    Listings <- AllListings
    Asks <- PlainAsks
    Settings <- TightSettings
SPECIFICATION FairSpec
INVARIANTS TypeOK NoStrandedWaiter
PROPERTIES EveryAskAnswered ServesAsPromised
