SPECIFICATION Spec
CONSTANTS
    p1 = p1
    p2 = p2
    Procs <- MCProcs
    NoProc = NoProc
    Top = 1
    Idempotent = {0}
    MaxFaults = 2
    MaxOps = 1
INVARIANTS TypeOK AppliedBelow HistoryTrue
PROPERTIES LiveRowKept UpToDate
