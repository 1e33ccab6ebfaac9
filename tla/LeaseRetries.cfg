\* Two accounts with one slot each, two requests, one of the targets pinned.
CONSTANTS
    a1 = a1
    a2 = a2
    Accounts = {a1, a2}
    NoAccount = NoAccount
    Requests = {r1, r2}
    Targets <- AnyOrFirst
    MaxAttempts = 2
    MaxPerAccount = 1
SPECIFICATION FairSpec
INVARIANTS TypeOK NoSlotLeak LeaseConsistent
PROPERTIES LoopsWindDown EveryRequestEnds
