CONSTANTS
    Replicas = {r1, r2}
    Setups = {s1, s2}
    Orgs = {o1, o2}
    Persons = {p1}
    Passwords = {w1, w2}
    Reqs = {q1, q2}
    NoReplica = NoReplica
    NoOrg = NoOrg
    NoPerson = NoPerson
    NoPassword = NoPassword
    MaxStarts = 3
    MaxOps = 6
    MaxUsers = 2
    MaxLinks = 3
SPECIFICATION Spec
SYMMETRY Symm
CHECK_DEADLOCK FALSE
INVARIANTS TypeOK Proved
PROPERTIES FoundedAlone LinksHonoured
