SPECIFICATION Spec
CHECK_DEADLOCK FALSE
CONSTANTS
    c1 = c1
    c2 = c2
    a1 = a1
    a2 = a2
    NoAccount = NoAccount
    Accounts = {a1, a2}
    CommandIDs = {c1, c2}
    Commands <- Transfers
    MaxAccounts = 2
    DedupeWindow = 1
    BatchMax = 2
    IntBits = 5
    Faults = {"install"}
    TornHeader = TRUE
    DirectorySync = TRUE
    Restarts = {"process", "power"}
    MaxSequence = 3
    MaxOpens = 3
INVARIANTS
    CoreTypeOK
    AckedRecoverable
    AccountsExact
    PendingExact
    ReadsDurable
    AllOrNothing
