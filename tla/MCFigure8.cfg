CONSTANTS
    Node = {n1, n2, n3}
    Transaction = {t1, t2}
    Command <- Debits
    None = None
    ApplyCommand <- Apply
    InitialMachine <- FundedLedger
    Lossy = TRUE
    MaxTerm = 4
    MaxLog = 2
    Campaigner = {n1, n2, n3}
    Mortal = {}
    MaxInFlight = 1
    n1 = n1
    n2 = n2
    n3 = n3
    t1 = t1
    t2 = t2
SPECIFICATION SpecFigure8
CHECK_DEADLOCK FALSE
INVARIANTS LogMatching StateMachineSafety LeaderCompleteness ReplicasAgreeOnResults
PROPERTIES ImplementsReplicatedLedger
