CONSTANTS
    Node = {n1, n2, n3}
    Transaction = {t1}
    Command <- Debits
    None = None
    ApplyCommand <- Apply
    InitialMachine <- FundedLedger
    Lossy = FALSE
    MaxTerm = 4
    MaxLog = 2
    Campaigner = {n1}
    Mortal = {}
    MaxInFlight = 3
    n1 = n1
    n2 = n2
    n3 = n3
    t1 = t1
SPECIFICATION FairSettle
CHECK_DEADLOCK FALSE
PROPERTIES ElectionRetried OwnTermSettles
