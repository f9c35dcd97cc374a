CONSTANTS
    Node = {n1, n2, n3}
    Transaction = {t1, t2}
    Command <- Debits
    None = None
    ApplyCommand <- Apply
    InitialMachine <- FundedLedger
    Lossy = TRUE
    MaxTerm = 2
    MaxLog = 2
    Campaigner = {}
    Mortal = {n2}
    MaxInFlight = 2
    n1 = n1
    n2 = n2
    t1 = t1
SPECIFICATION SpecReplay
CHECK_DEADLOCK FALSE
INVARIANTS MatchIndexSound LedgerIsLogPrefix NoDoubleSpend
PROPERTIES CommittedNeverTruncated ImplementsReplicatedLedger ResultsFinal
