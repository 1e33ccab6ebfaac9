\* An answer of a few lines, continued once and asked for a second time.
CONSTANTS
    MaxLines = 3
    MaxRounds = 1
    LineCap = 1
    OutCap = 1
    MaxQuiet = 1
    IdleTicks = 1
SPECIFICATION FairSpec
INVARIANTS TypeOK TextIsOneAnswer FinishedIsComplete OneEnding HistorySettled
PROPERTIES EverythingEnds
