\* PostgreSQL: row ids are never reused.  Failing commits and submissions, one
\* crash, one in-process restart.
SPECIFICATION FairSpec
CONSTANTS
    c1 = c1
    c2 = c2
    k1 = k1
    k2 = k2
    Cruise = {c1}
    Caller = {k1, k2}
    NoCruise = NoCruise
    MaxPerDay = 1
    MaxWorkers = 1
    ReuseIds = FALSE
    DbFailures = TRUE
    MaxScans = 2
    MaxPools = 2
    MaxCrashes = 1
    MaxStray = 1
INVARIANTS
    TypeOK
    RegistryExact
    AccountedFor
PROPERTIES
    LifecycleSpec
    RegistrationEnds
    EventuallySettled
\* With every id used, every row final and the windows empty, nothing is left to do.
CHECK_DEADLOCK FALSE
