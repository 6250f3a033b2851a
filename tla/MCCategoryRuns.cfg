SPECIFICATION Spec
CONSTANTS
    r1 = r1  r2 = r2  b1 = b1  b2 = b2
    Runs = {r1, r2}
    Blogs = {b1, b2}
    Targets <- MCTargets
    Pages = 0
    StopModes <- MCStopModes
    MaxAttempt = 2
    MaxEdits = 1
    MaxVersion = 2
    MaxMoves = 3
    RestoreIds = {q1, q2}
    None = None
INVARIANTS OneReservation CursorIsLanded RestorePointIsBefore
PROPERTIES JobSettles
CHECK_DEADLOCK FALSE
