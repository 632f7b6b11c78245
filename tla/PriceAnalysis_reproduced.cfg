\* Two tests in two rounds: a reproduced difference that was measured once.
CONSTANTS
    a = a
    b = b
    ff = ff
    ghost = ghost
    m1 = m1
    x1 = x1
    t1 = t1
    t2 = t2
    r1 = r1
    r2 = r2
    r3 = r3
    None = None
    DefaultMode = DefaultMode
    Profile = {a, b, ff}
    Firefox = {ff}
    DefaultProfiles <- MCDefaultProfiles
    CookieMode = {m1}
    Proxy = {x1}
    Requests <- MCRequests
    MaxTests = 3
    Amount <- MCAmount
    Tolerance = 51
    Field = {"tariff", "route"}
    Loose = {"route"}
    Value <- MCValue
    Similar <- MCSimilar
    Identities <- MCIdentities
SPECIFICATION Spec
INVARIANTS ReproducedTwice
\* an analysis ends
CHECK_DEADLOCK FALSE
