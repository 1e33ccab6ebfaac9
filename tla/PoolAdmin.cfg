\* Two accounts, three requests, one administrator: everything can happen.
CONSTANTS
    a1 = a1
    a2 = a2
    Accounts = {a1, a2}
    NoAccount = NoAccount
    Default = Default
    Requests = {r1, r2, r3}
    Cancellable = {r1, r2, r3}
    Admins = {adm}
    Listings <- ChangingListings
    Asks <- MixedAsks
    Settings <- BothSettings
SPECIFICATION Spec
SYMMETRY RequestSymmetry
INVARIANTS NoSlotLeak RotationComplete
