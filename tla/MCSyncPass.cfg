SPECIFICATION Spec
CONSTANTS
    Tickets = {t1, t2}
    Runs = {r1, r2}
    Starters = {q}
    Cap = 1
    PageSize = 2
    Buffer = 1
    Lag = 1
    MaxDeaths = 1
    MaxTime = 5
SYMMETRY Symmetric
INVARIANTS RowsWithinReach DocumentsWithinReach
CHECK_DEADLOCK FALSE
