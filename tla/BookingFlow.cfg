\* A flow of up to three turns on the site of MCBookingFlow.
CONSTANTS
    p1 = p1
    p2 = p2
    t1 = t1
    t2 = t2
    None = None
    Price = {p1, p2}
    Tariff = {t1, t2}
    Pages <- MCPages
    MaxSteps = 3
SPECIFICATION FairSpec
INVARIANTS TypeOK HardStop BlockReported ChangeReported
PROPERTIES FirstReadingStays Terminates
\* a flow ends
CHECK_DEADLOCK FALSE
