\* Three scans on two threads, and an evaluation after the window.
CONSTANTS
    low = low
    fall = fall
    None = None
    Scan = {s1, s2, s3}
    Workers = 2
    Alert = {low, fall}
    Present = {low}
    Options <- MCOptions
    Deployments <- MCDeployments
    Price = {80, 100}
    Debounce = 1
    MaxTime = 1
    MaxMishaps = 1
SPECIFICATION Spec
SYMMETRY ScanSymmetry
INVARIANTS TypeOK RepeatExplained DueServed NoFalseDrop
\* scans and alerts come to an end
CHECK_DEADLOCK FALSE
