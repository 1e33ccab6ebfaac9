SPECIFICATION FrontSpec
CONSTANTS
    MinSnapshot = 3
    Requests <- MCRequests
    Answers <- MCAnswers
    Owners = {"o1", "o2"}
    StoreTTL = 1
    MaxClock = 2
    MaxPieces = 2
    Streams = {s1, s2}
    Accounts = {a1, a2}
    SlotsPer = 1
    LeaseTTL = 0
    MaxTime = 1
    MaxContinues = 1
    Talkers = {s1}
    NodeAsks <- MCNodeAsks
    NodeAnswers <- MCNodeAnswers
    NodePieces = 3
    Asks <- MCAsks
    Contents = {"c1", "c2"}
    UserFiles <- MCUserFiles
    FileAccounts = {b1, b2}
    MaxAttempts = 2
    MaxInline = 2
    MaxPolls = 2
    Inquiries <- MCInquiries
    MaxUttered = 3
INVARIANTS FrontEndsTypeOK StreamedIsCollected StreamEventsAgree StoredIsWhatWasSent SlotsAreLeases EndsOnce NodeTellsTheSame RetriesInSilence FilesAreReferredTo ToldInTheirWords
CHECK_DEADLOCK FALSE
