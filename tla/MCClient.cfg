CONSTANTS
    Node = {n1, n2, n3}
    Transaction = {t1}
    Command <- Debits
    None = None
    ApplyCommand <- Apply
    InitialMachine <- FundedLedger
    Lossy = TRUE
    MaxTerm = 2
    MaxLog = 2
    Campaigner = {n2}
    Mortal = {n1}
    MaxInFlight = 1
    n1 = n1
    n2 = n2
    n3 = n3
SPECIFICATION SpecCluster
CHECK_DEADLOCK FALSE
INVARIANTS FailureIsFinal NoDoubleSpend
