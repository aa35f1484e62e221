SPECIFICATION Spec
CONSTANTS
    c1 = c1
    c2 = c2
    Callers = {c1, c2}
    home = home
    work = work
    a = a
    b = b
    Backends = {home, work}
    Ids = {a, b}
    Mail <- MCMail
    Cap <- MCCap
    Size <- MCSize
    Budget = 3
    Header <- MCHeader
    Self <- MCSelf
    Others <- MCOthers
    Batches <- MCBatches
    MaxSwaps = 1
SYMMETRY CallersSymmetry
INVARIANTS
    ReportIsExact
    OneGestureBounds
    OnlyStirredMailEscapesTheBudget
    AudienceAsApproved
CHECK_DEADLOCK FALSE
