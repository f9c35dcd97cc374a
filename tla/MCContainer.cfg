CONSTANTS
    Node = {n1, n2, n3}
    Transaction = {t1}
    Command <- Debits
    None = None
    ApplyCommand <- Apply
    InitialMachine <- FundedLedger
    Lossy = TRUE
    MaxTerm = 1
    MaxLog = 0
    Campaigner = {n1, n2}
    Mortal = {n3}
    MaxInFlight = 2
SPECIFICATION ContainerSpec
SYMMETRY Symmetry
CHECK_DEADLOCK FALSE
INVARIANTS ElectionSafety
