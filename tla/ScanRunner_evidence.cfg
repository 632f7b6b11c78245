\* Two tests that share a profile, one round.
SPECIFICATION FairSpec
CONSTANTS
    NumTests = 2
    Profile <- OneProfile
    Price = {1}
    Outcome <- EvidenceOutcomes
    Settings <- DefaultSettings
INVARIANTS
    EvidenceIsOwn
\* The scan ends.
CHECK_DEADLOCK FALSE
