SPECIFICATION StorageSpec
CHECK_DEADLOCK FALSE
CONSTANTS
    c1 = c1
    c2 = c2
    c3 = c3
    k1 = k1
    k2 = k2
    v1 = v1
    CommandIDs = {c1, c2}
    Keys = {k1}
    Values = {v1}
    Absent = Absent
    Writes <- PutDelete
    Bytes <- OneByte
    jsonText <- ValidText
    MaxRecords = 1
    MaxTransactionBytes = 2
    DedupeHorizons = {1}
    DirectorySync = TRUE
    Restarts = {"process"}
    MaxSequence = 3
    MaxOpens = 4
SYMMETRY Symmetry
INVARIANTS
    RecoverySucceeds
    SeenNotLost
