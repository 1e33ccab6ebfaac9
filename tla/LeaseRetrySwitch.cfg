\* One request whose first answer is empty, and two accounts.
CONSTANTS
    a1 = a1
    a2 = a2
    Accounts = {a1, a2}
    NoAccount = NoAccount
    Requests = {r1}
    Targets = {NoAccount}
    MaxAttempts = 3
    MaxPerAccount = 1
SPECIFICATION FairSpec
PROPERTIES RetryStaysOnAccount
