\* SQLite, two cruises, a healthy database, no crash.
SPECIFICATION FairSpec
CONSTANTS
    c1 = c1
    c2 = c2
    k1 = k1
    k2 = k2
    Cruise = {c1, c2}
    Caller = {k1}
    NoCruise = NoCruise
    MaxPerDay = 1
    MaxWorkers = 1
    ReuseIds = TRUE
    DbFailures = FALSE
    MaxScans = 2
    MaxPools = 1
    MaxCrashes = 0
    MaxStray = 0
PROPERTIES
    WritesOwnScan
\* With every id used, every row final and the windows empty, nothing is left to do.
CHECK_DEADLOCK FALSE
