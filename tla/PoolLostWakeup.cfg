\* A caller that goes away just as it is notified.
CONSTANTS
    a1 = a1
    a2 = a2
    Accounts = {a1}
    NoAccount = NoAccount
    Default = Default
    Requests = {r1, r2, r3}
    Cancellable = {r1, r2, r3}
    Admins = {}
    Listings <- OneListing
    Asks <- PlainAsks
    Settings <- TightSettings
SPECIFICATION FairSpec
PROPERTIES EveryAskAnswered
