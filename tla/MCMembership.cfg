SPECIFICATION Spec
CONSTANTS
    p1 = p1
    p2 = p2
    p3 = p3
    r1 = r1
    r2 = r2
    Persons <- MCPersons
    SsoPersons <- MCSsoPersons
    Reqs <- MCReqs
    Assignable = {"member"}
    Nobody = Nobody
    CanErase = TRUE
    OtherOrg = TRUE
    MaxPending = 1
INVARIANTS TypeOK AtMostOneOwner NoWaitCycle
PROPERTIES OwnerKept ChosenRoleKept
SYMMETRY MCSymmetry
