SPECIFICATION Spec
CHECK_DEADLOCK FALSE
CONSTANTS
    c1 = c1
    c2 = c2
    a1 = a1
    a2 = a2
    NoAccount = NoAccount
    Accounts = {a1}
    CommandIDs = {c1, c2}
    Commands <- Deposits
    MaxAccounts = 1
    DedupeWindow = 1
    BatchMax = 2
    IntBits = 5
    Faults = {"append", "sync", "install", "reset"}
    TornHeader = FALSE
    DirectorySync = TRUE
    Restarts = {"process"}
    MaxSequence = 3
    MaxOpens = 3
INVARIANTS
    AccountsExact
    OpenSucceeds
