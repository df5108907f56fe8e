SPECIFICATION FairSpec
CONSTANTS
    g1 = g1
    g2 = g2
    g3 = g3
    Nobody = Nobody
    Callers <- MCCallers
    MaxFailures = 3
    SuccessThreshold = 2
INVARIANTS TypeOK
PROPERTIES PromiseKept OpenIsTriedAgain
