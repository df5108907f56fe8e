SPECIFICATION FindingsSpec
CONSTANTS
    a1 = a1
    a2 = a2
    r1 = r1
    c1 = c1
    s1 = s1
    s2 = s2
    Accounts <- MCAccounts
    Resources <- MCResources
    Channels <- MCChannels
    Scans <- MCScans
    Gate <- MCGate
    Views <- MCViews
    NoScan = NoScan
    NoChannel = NoChannel
    MaxFaults = 1
    MaxEvents = 2
INVARIANTS FindingsTypeOK DeletedLeavesNothing TablesAgree SendsRecorded CountedRightly
CHECK_DEADLOCK FALSE
SYMMETRY MCSymmetry
