-------------------------- MODULE MCPriceAnalysis --------------------------
\* PriceAnalysis with one exact and one loose field, whose texts r1, r2, r3 are
\* similar in pairs but not all alike, and prices on both sides of TOLERANCE.
EXTENDS PriceAnalysis

CONSTANTS a, b, ff, ghost, m1, x1, t1, t2, r1, r2, r3

MCDefaultProfiles == <<a, b>>
MCSimilar == {<<r1, r2>>, <<r2, r1>>, <<r2, r3>>, <<r3, r2>>}
MCValue == {t1, t2, r1, r2, r3}
MCAmount == {1000, 1051, 1052}

Offer(t, r) == [f \in Field |-> IF f = "tariff" THEN t ELSE r]
MCIdentities == {Offer(t1, r1), Offer(None, r2), Offer(t2, r3)}

Ask(profiles, modes, referrers, proxies, rounds) ==
    [profiles |-> profiles, modes |-> modes, referrers |-> referrers,
     proxies |-> proxies, rounds |-> rounds]

\* The default; four combinations for three places; a name given twice; names
\* nobody knows; a proxy that is not configured next to one that is.
MCRequests ==
    { Ask(<<>>, <<>>, <<>>, <<>>, 2),
      Ask(<<a, b>>, <<>>, <<"direct", "google">>, <<>>, 1),
      Ask(<<a, a>>, <<m1>>, <<>>, <<>>, 1),
      Ask(<<ff, ghost>>, <<ghost>>, <<>>, <<>>, 1),
      Ask(<<a>>, <<m1, ghost>>, <<>>, <<x1, ghost, None>>, 1),
      Ask(<<a, ff>>, <<>>, <<>>, <<ghost>>, 2) }
=============================================================================
