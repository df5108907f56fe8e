SPECIFICATION Spec
CONSTANTS
    c1 = c1
    c2 = c2
    i1 = i1
    i2 = i2
    d1 = d1
    d2 = d2
    t1 = t1
    k1 = k1
    k2 = k2
    Connections = {c1, c2}
    Idps = {i1, i2}
    Rows = {d1, d2}
    Names = {"acme"}
    ConnOf <- MCConnOf
    NameOf <- MCNameOf
    States = {t1}
    Callbacks = {k1, k2}
    NoConnection = NoConnection
    NoRow = NoRow
    NoPatch = NoPatch
    NoState = NoState
    NoIdp = NoIdp
    MaxChanges = 3
INVARIANTS TypeOK OneClaim StateUsedOnce RefusedRightly
SYMMETRY MCSymmetry
CHECK_DEADLOCK FALSE
