\* A client that goes away in the middle of an answer.
CONSTANTS
    MaxLines = 3
    MaxRounds = 1
    LineCap = 1
    OutCap = 1
    MaxQuiet = 1
    IdleTicks = 1
SPECIFICATION Spec
INVARIANTS StoppedIsRecorded
