SPECIFICATION Spec
CONSTANTS
    u1 = u1
    r1 = r1
    r2 = r2
    c1 = c1
    Users <- MCUsers
    Reqs <- MCReqs
    Caches <- MCCaches
    Cap = 1
    Nobody = Nobody
    NoCache = NoCache
    MaxSessions = 2
    Expiring <- MCExpiring
INVARIANTS TypeOK AtMostCap ResetRevokesAll
PROPERTIES RevokedEndsRefused PromiseKept
