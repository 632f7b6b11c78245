\* SQLite: a new row takes over the id of a deleted one while its job still runs.
SPECIFICATION Spec
CONSTANTS
    c1 = c1
    c2 = c2
    k1 = k1
    k2 = k2
    Cruise = {c1, c2}
    Caller = {k1, k2}
    NoCruise = NoCruise
    MaxPerDay = 1
    MaxWorkers = 1
    ReuseIds = TRUE
    DbFailures = FALSE
    MaxScans = 3
    MaxPools = 2
    MaxCrashes = 0
    MaxStray = 0
SYMMETRY Symmetry
INVARIANTS
    EachScanOnce
    OvershootBounded
\* With every id used, every row final and the windows empty, nothing is left to do.
CHECK_DEADLOCK FALSE
