SPECIFICATION FairSpec
CONSTANTS
    a1 = a1
    t1 = t1
    w1 = w1
    e1 = e1
    NoCaller = NoCaller
    Scheduler = Scheduler
    Accounts <- MCAccounts
    Triggers <- MCTriggers
    Workers <- MCWorkers
    Requests = {}
    Editors <- MCEditors
    CurInUse = FALSE
    EnforceEnvelope = TRUE
    MaxSkew = 0
    ScanTimeout = 1
    ClientTimeout = 2
    StuckTimeout = 2
    Interval = 2
    MaxQueue = 1
    MaxFaults = 1
    MaxFailures = 1
    SuccessThreshold = 1
INVARIANTS TypeOK StampedScanNotStuck
PROPERTIES NoOrphanedScan ScanningEnds
