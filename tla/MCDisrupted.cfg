CONSTANTS
    Node = {n1, n2, n3}
    Transaction = {t1}
    Command <- Debits
    None = None
    ApplyCommand <- Apply
    InitialMachine <- FundedLedger
    Lossy = TRUE
    MaxTerm = 2
    MaxLog = 0
    Campaigner = {n1, n2, n3}
    Mortal = {}
    MaxInFlight = 3
SPECIFICATION Spec
SYMMETRY Symmetry
CHECK_DEADLOCK FALSE
PROPERTIES HealthyLeaderNotDisrupted
