SPECIFICATION Spec
CHECK_DEADLOCK FALSE
CONSTANTS
    c1 = c1
    c2 = c2
    k1 = k1
    v1 = v1
    g1 = g1
    g2 = g2
    g3 = g3
    CommandIDs = {c1, c2}
    Keys = {k1}
    Values = {v1}
    Absent = Absent
    NoCommand = NoCommand
    Writes <- PutOnly
    Bytes <- OneByte
    jsonText <- ValidText
    MaxRecords = 1
    MaxTransactionBytes = 2
    DedupeHorizons = {1}
    DirectorySync = TRUE
    Restarts = {"power"}
    MaxSequence = 2
    MaxOpens = 2
    Clients = {g1, g2}
    Calls = {"submit", "get", "snapshot", "close"}
    MaxGroup = 2
SYMMETRY Symmetry
INVARIANTS
    DrainedAtExit
    NoLostWakeup
    AnswersFaithful
PROPERTIES
    StorageSpec
    PoisonBarrier
