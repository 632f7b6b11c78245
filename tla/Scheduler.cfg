\* Two cruises, one that is edited and one that requests ask a scan for; within
\* a day the scans of either leave the other a tick free.
CONSTANTS
    None = None
    Cruise = {c1, c2}
    Edited = {c2}
    Asked = {c1}
    Caller = {ticker, k1}
    Ticker = ticker
    Interval = {"6h", "daily"}
    Length <- MCLength
    Day = 5
    MaxPerDay = 1
    MaxScanTicks = 1
    MaxMishaps = 1
SPECIFICATION FairSpec
INVARIANTS TypeOK OneScheduledAtATime CountedAtStart
PROPERTIES WatchedVisited StaleScheduleHeals
