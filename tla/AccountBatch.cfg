SPECIFICATION BatchSpec
CHECK_DEADLOCK FALSE
CONSTANTS
    c1 = c1
    c2 = c2
    a1 = a1
    a2 = a2
    NoAccount = NoAccount
    Accounts = {a1, a2}
    CommandIDs = {c1, c2}
    Commands <- EveryKind
    MaxAccounts = 2
    DedupeWindow = 1
    BatchMax = 2
    IntBits = 3
    Faults = {}
    TornHeader = FALSE
    DirectorySync = TRUE
    Restarts = {}
    MaxSequence = 5
    MaxOpens = 1
INVARIANTS
    Conservation
    ConfirmMatchesBegin
    SerialOnKnownAccounts
