\* Two tests, up to two rounds, every setting from "off" to two.
SPECIFICATION FairSpec
CONSTANTS
    NumTests = 2
    Profile <- OneProfile
    Price = {1, 2}
    Outcome <- RoundOutcomes
    Settings <- AllSettings
INVARIANTS
    TypeOK
    RetriesUsed
    NothingHidden
    EarlyStopJustified
PROPERTIES
    NoVisitAfterBlock
    PolledSpec
    Terminates
\* The scan ends.
CHECK_DEADLOCK FALSE
