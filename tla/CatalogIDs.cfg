SPECIFICATION Spec
CHECK_DEADLOCK FALSE
CONSTANTS
    c1 = c1
    c2 = c2
    v1 = v1
    CommandIDs = {c1}
    Keys <- TextKeys
    Values = {v1}
    Absent = Absent
    Writes <- SecondDataset
    Bytes <- OneByte
    jsonText <- IDBeyondASCII
    MaxRecords = 4
    MaxTransactionBytes = 8
    DedupeHorizons = {1}
    DirectorySync = TRUE
    Restarts = {}
    MaxSequence = 1
    MaxOpens = 2
    Models = {"catalog"}
    Requests <- TwoDatasets
    jsonName <- UTF8
    ValidNames = {1, 2, 3, 4}
    MaxDatasets = 2
INVARIANT
    ReopenSurvives
