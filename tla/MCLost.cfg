CONSTANTS
    Node = {n1, n2, n3}
    Transaction = {t1, t2}
    Command <- Debits
    None = None
    ApplyCommand <- Apply
    InitialMachine <- FundedLedger
    Lossy = TRUE
    MaxTerm = 2
    MaxLog = 1
    Campaigner = {n2}
    Mortal = {}
    MaxInFlight = 1
    n1 = n1
    n2 = n2
    n3 = n3
SPECIFICATION SpecRemote
CHECK_DEADLOCK FALSE
INVARIANTS SubmittedNotLost
