SPECIFICATION FairSpec
CONSTANTS
    a = a
    b = b
    t1 = t1
    t2 = t2
    t3 = t3
    BSOs = {a, b}
    Transfers = {t1, t2, t3}
    from <- Sender
    to <- Receiver
    amount <- Amount
    InitialBalance = 3
    ReservationExpiry = 2
    Duplicated <- Twice
    Forgotten <- Old
CHECK_DEADLOCK FALSE
INVARIANTS
    BothSidesAgree
    AppliedOnce
    MoneyConserved
PROPERTIES
    ImplementsLedger
    DecisionsFinal
    EveryTransferResolves
