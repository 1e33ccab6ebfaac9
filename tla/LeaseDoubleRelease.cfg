\* A request that releases its account when it switches, and again at its end.
CONSTANTS
    a1 = a1
    a2 = a2
    Accounts = {a1}
    NoAccount = NoAccount
    Requests = {r1, r2, r3}
    Targets = {NoAccount}
    MaxAttempts = 3
    MaxPerAccount = 1
SPECIFICATION Spec
INVARIANTS PerAccountLimit
