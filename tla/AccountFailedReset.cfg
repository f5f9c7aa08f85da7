SPECIFICATION Spec
CHECK_DEADLOCK FALSE
CONSTANTS
    c1 = c1
    c2 = c2
    a1 = a1
    a2 = a2
    NoAccount = NoAccount
    Accounts = {a1, a2}
    CommandIDs = {c1, c2}
    Commands <- Transfers
    MaxAccounts = 2
    DedupeWindow = 2
    BatchMax = 1
    IntBits = 5
    Faults = {"reset"}
    TornHeader = FALSE
    DirectorySync = TRUE
    Restarts = {}
    MaxSequence = 2
    MaxOpens = 2
INVARIANT
    AckedRecoverable
