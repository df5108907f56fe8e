SPECIFICATION FairSpec
CONSTANTS
    a1 = a1
    a2 = a2
    t1 = t1
    r1 = r1
    r2 = r2
    e1 = e1
    e2 = e2
    NoCaller = NoCaller
    Scheduler = Scheduler
    Accounts <- MCTwoAccounts
    Triggers = {}
    Workers = {}
    Requests <- MCRequests
    Editors = {}
    CurInUse = FALSE
    EnforceEnvelope = FALSE
    MaxSkew = 0
    ScanTimeout = 0
    ClientTimeout = 0
    StuckTimeout = 1
    Interval = 1
    MaxQueue = 0
    MaxFaults = 1
    MaxFailures = 1
    SuccessThreshold = 1
PROPERTIES PassEnds OverdueIsScanned
