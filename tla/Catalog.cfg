SPECIFICATION Spec
CHECK_DEADLOCK FALSE
CONSTANTS
    c1 = c1
    c2 = c2
    v1 = v1
    CommandIDs = {c1, c2}
    Keys <- PlainKeys
    Values = {v1}
    Absent = Absent
    Writes <- AllWrites
    Bytes <- OneByte
    jsonText <- PlainText
    MaxRecords = 4
    MaxTransactionBytes = 8
    DedupeHorizons = {1}
    DirectorySync = TRUE
    Restarts = {"process", "power"}
    MaxSequence = 2
    MaxOpens = 2
    Models = {"catalog", "account"}
    Requests <- TwoDatasets
    jsonName <- UTF8
    ValidNames = {1, 2, 3, 4}
    MaxDatasets = 3
SYMMETRY Symmetry
INVARIANTS
    CursorExact
    ScanSeesOneState
    CatalogCurrent
    RecordsStayInTheirDataset
    PromisesKept
    FilesFitTogether
    NeverReinterpreted
