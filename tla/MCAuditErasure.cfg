CONSTANTS
    u1 = u1
    u2 = u2
    w1 = w1
    w2 = w2
    Users <- MCUsers
    Writers <- MCWriters
    Native = {w2}
    Walks = {k1}
    NoUser = NoUser
    MaxLimit = 2
    ExportLimit = 1
    MaxPages = 2
    MaxRows = 3
    MaxTime = 1
SPECIFICATION Spec
SYMMETRY Symm
CHECK_DEADLOCK FALSE
INVARIANT ErasedForgotten
