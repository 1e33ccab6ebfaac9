\* A save that removed a file and could not write the index, then a restart.
CONSTANTS
    Ids = {h1, h2, h3}
    NoId = NoId
    Sessions = {s1, s2}
    Limits = {0, 1, 2}
    DefaultLimit = 1
    MaxTime = 6
SPECIFICATION Spec
SYMMETRY IdSymmetry
CHECK_DEADLOCK FALSE
INVARIANTS FailuresDoNotLatch
