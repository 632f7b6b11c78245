--------------------------- MODULE PriceAnalysis ---------------------------
(***************************************************************************)
(* From a request to the verdict on the prices: the test matrix            *)
(* (scanner/runner.py, build_matrix), the table of its results and the     *)
(* verdict (comparison/analysis.py, build_analysis), and the grouping of   *)
(* identical offers in between (comparison/identity.py).                   *)
(*                                                                         *)
(* execute_scan analyses all results after every round, and an analysis    *)
(* without a difference ends the scan.  build_analysis is one call; its    *)
(* loops are the steps of this machine: AddResult reads a result into its  *)
(* row, GroupRow places a row, Conclude is the rest.  The rows of earlier  *)
(* rounds are kept from one analysis to the next, which reads them again   *)
(* in the same order.  A test is the tuple profile, cookie mode, referrer, *)
(* proxy, which is also the key of its row.  Amounts are cents, so that    *)
(* the rounding to two decimals is exact.                                  *)
(***************************************************************************)
EXTENDS Integers, FiniteSets, Sequences

CONSTANTS
    Profile,         \* the registered profiles
    Firefox,         \* those that need Firefox, which is disabled
    DefaultProfiles, \* the sequence used when a request names none
    CookieMode,      \* the known cookie variants
    DefaultMode,     \* stands for each profile's own variant
    Proxy,           \* the configured proxies
    Requests,        \* the requests to look at
    MaxTests,        \* MAX_TESTS_PER_ROUND
    Amount,          \* prices
    Tolerance,       \* TOLERANCE
    Field,           \* IDENTITY_FIELDS
    Loose,           \* the fields of free text
    Value,           \* what a field can say
    Similar,         \* the pairs of texts that _similar_text accepts
    Identities,      \* what flows can read of an offer
    None             \* missing

Identity == [Field -> Value \cup {None}]

Elements(s) == {s[i] : i \in DOMAIN s}

ASSUME AmountAssumption == Amount \subseteq Nat /\ Tolerance \in Nat
ASSUME IdentityAssumption ==
    Identities \subseteq Identity /\ Loose \subseteq Field
ASSUME NoneAssumption == None \notin Amount \cup Value
ASSUME SimilarAssumption ==
    \A v, w \in Value : <<v, w>> \in Similar <=> <<w, v>> \in Similar
\* The options of a request are lists of names.
ASSUME RequestAssumption ==
    /\ \A r \in Requests :
           /\ r.rounds \in Nat \ {0}      \* create_scan plans at least one
           /\ \A s \in {r.profiles, r.modes, r.referrers, r.proxies} :
                  s \in Seq(Elements(s))
    /\ DefaultProfiles \in Seq(Elements(DefaultProfiles))
ASSUME LimitAssumption == MaxTests \in Nat

VARIABLES
    request,  \* the options of the scan
    round,    \* round_no
    seen,     \* results read so far
    buckets,  \* the row of every test
    phase,    \* "collect", "group", "done"
    groups,   \* identity_groups
    verdict,
    repro     \* reproducibility.status

vars == <<request, round, seen, buckets, phase, groups, verdict, repro>>

-----------------------------------------------------------------------------
\* build_matrix

\* SelectSeq for a set: the elements of s that are in S, in their order.  An
\* element belongs at n + 1 when n of the chosen places come before its own.
Kept(s, S) ==
    LET places == {i \in DOMAIN s : s[i] \in S}
        Before(i) == {k \in places : k < i}
    IN [n \in 1 .. Cardinality(places) |->
           s[CHOOSE i \in places : Cardinality(Before(i)) + 1 = n]]

Usable == Profile \ Firefox
Configured == Proxy \cup {None}

AskedProfiles(r) == IF r.profiles = <<>> THEN DefaultProfiles ELSE r.profiles
AskedModes(r) == IF r.modes = <<>> THEN <<DefaultMode>> ELSE r.modes
ProfilesOf(r) == Kept(AskedProfiles(r), Usable)
ModesOf(r) == Kept(AskedModes(r), CookieMode \cup {DefaultMode})
ReferrersOf(r) == IF r.referrers = <<>> THEN <<"direct">> ELSE r.referrers
ProxiesOf(r) ==
    LET clean == Kept(r.proxies, Configured)
    IN IF clean = <<>> THEN <<None>> ELSE clean

Combinations(r) ==
    Len(ProfilesOf(r)) * Len(ModesOf(r)) * Len(ReferrersOf(r))
        * Len(ProxiesOf(r))

\* The n-th combination, from 0; the proxy changes fastest.
Combination(r, n) ==
    LET x == Len(ProxiesOf(r))
        fx == Len(ReferrersOf(r)) * x
        mfx == Len(ModesOf(r)) * fx
    IN << ProfilesOf(r)[(n \div mfx) + 1], ModesOf(r)[((n % mfx) \div fx) + 1],
          ReferrersOf(r)[((n % fx) \div x) + 1], ProxiesOf(r)[(n % x) + 1] >>

\* Nothing is made unique: a name given twice makes two tests of one key.
Specs(r) ==
    LET all == Combinations(r)
    IN [n \in 1 .. (IF all > MaxTests THEN MaxTests ELSE all) |->
           Combination(r, n - 1)]

\* Faulty variant: what the limit cuts off is not named.
NotesSilentLimit(r) ==
    (Elements(AskedProfiles(r)) \ Usable)
    \cup {m \in Elements(r.modes) : m \notin CookieMode /\ ProfilesOf(r) # <<>>}
    \cup (Elements(r.proxies) \ Configured)

\* The names and the combinations the notes say were dropped.
Notes(r) ==
    (Elements(AskedProfiles(r)) \ Usable)
    \cup {m \in Elements(r.modes) : m \notin CookieMode /\ ProfilesOf(r) # <<>>}
    \cup (Elements(r.proxies) \ Configured)
    \cup {Combination(r, n) : n \in MaxTests .. Combinations(r) - 1}

-----------------------------------------------------------------------------
\* Rows

Blank == [f \in Field |-> None]
Keys == Elements(Specs(request))
Round == 1 .. request.rounds

\* What a flow leaves behind: a price of an offer, an offer without a price, a
\* price without its offer (an aborted flow keeps its prices only), or nothing.
Outcome == [price: Amount \cup {None}, identity: Identities \cup {Blank}]

\* None is None or "".  The texts that only compare_identity takes for missing
\* ("-", "n/a", ...; identity.py:44) are no values of an exact field: the
\* recognisers of a flow do not produce them.
FillIdentity(known, new) ==
    [f \in Field |-> IF known[f] = None THEN new[f] ELSE known[f]]

Init ==
    /\ request \in Requests
    /\ round = 1
    /\ seen = 0
    /\ buckets = [k \in Keys |-> [rounds |-> [i \in Round |-> None],
                                  identity |-> Blank]]
    /\ phase = "collect"
    /\ groups = <<>>
    /\ verdict = None
    /\ repro = None

\* The rows come in the order of their ids: round by round, test by test.  A
\* second result of the same key and round replaces the price of the first.
AddResult ==
    /\ phase = "collect"
    /\ seen < round * Len(Specs(request))
    /\ seen' = seen + 1
    /\ LET k == Specs(request)[(seen % Len(Specs(request))) + 1]
       IN \E o \in Outcome :
              buckets' = [buckets EXCEPT
                  ![k].rounds[round] = o.price,
                  ![k].identity = FillIdentity(@, o.identity)]
    /\ UNCHANGED <<request, round, phase, groups, verdict, repro>>

\* The round is complete (after a block, with results that have no price), and
\* is analysed.  Without a test there is no round.
EndResults ==
    /\ phase = "collect"
    /\ Keys # {}
    /\ seen = round * Len(Specs(request))
    /\ phase' = "group"
    /\ UNCHANGED <<request, round, seen, buckets, groups, verdict, repro>>

\* Unless the verdict is that there is no difference, the next round follows.  (A
\* scan that was aborted is over all the same.)
NextRound ==
    /\ phase = "done"
    /\ round < request.rounds
    /\ verdict # "no_difference"
    /\ round' = round + 1
    /\ phase' = "collect"
    /\ groups' = <<>>
    /\ verdict' = None
    /\ repro' = None
    /\ UNCHANGED <<request, seen, buckets>>

PricesOf(k) == {buckets[k].rounds[i] : i \in Round} \ {None}

\* row["price"]: the lowest of all rounds
Price(k) == CHOOSE p \in PricesOf(k) : \A q \in PricesOf(k) : p <= q

Priced == {k \in Keys : PricesOf(k) # {}}
Unstable(k) == \E p, q \in PricesOf(k) : p # q
RoundsWithPrice(k) == Cardinality({i \in Round : buckets[k].rounds[i] # None})

-----------------------------------------------------------------------------
\* group_identical

\* compare_identity: unknown on one side is not a difference.
SameField(f, v, w) ==
    v = None \/ w = None \/ v = w \/ (f \in Loose /\ <<v, w>> \in Similar)

\* Faulty variant: a missing value is a difference.
IdenticalStrictly(a, b) ==
    \A f \in Field : a[f] = b[f] \/ (f \in Loose /\ <<a[f], b[f]>> \in Similar)

Identical(a, b) == \A f \in Field : SameField(f, a[f], b[f])

Grouped == UNION {groups[g].members : g \in DOMAIN groups}

\* Faulty variant: rows without a price are grouped along with the first.
PlaceUnpriced(k) ==
    LET id == buckets[k].identity
    IN groups' = Append(groups,
           [identity |-> id, members |-> {k} \cup (Keys \ Priced)])

\* The first group that fits takes the next row, and the row fills its blanks.
Place(k) ==
    LET id == buckets[k].identity
        fits == {g \in DOMAIN groups : Identical(groups[g].identity, id)}
    IN \/ \E g \in fits :
              /\ \A h \in fits : g <= h
              /\ groups' = [groups EXCEPT
                     ![g] = [identity |-> FillIdentity(@.identity, id),
                             members |-> @.members \cup {k}]]
       \/ /\ fits = {}
          /\ groups' = Append(groups, [identity |-> id, members |-> {k}])

\* Rows are sorted by price; of equal ones any may come first.
GroupRow ==
    /\ phase = "group"
    /\ \E k \in Priced \ Grouped :
           /\ \A j \in Priced \ Grouped : Price(k) <= Price(j)
           /\ Place(k)
    /\ UNCHANGED <<request, round, seen, buckets, phase, verdict, repro>>

-----------------------------------------------------------------------------
\* The verdict

Comparable == Len(groups) <= 1

\* spread: the distance of the cheapest and the most expensive row
SpreadExceeds(t) == \E j, k \in Priced : Price(j) - Price(k) > t

\* Faulty variant: the groups are not asked.
VerdictOfPrices ==
    IF Priced = {} THEN "insufficient_data"
    ELSE IF SpreadExceeds(Tolerance) THEN "difference"
    ELSE "no_difference"

Verdict ==
    IF Priced = {} THEN "insufficient_data"
    ELSE IF ~Comparable THEN "not_comparable"
    ELSE IF SpreadExceeds(Tolerance) THEN "difference"
    ELSE "no_difference"

\* Faulty variant: price_stable is only asked from the third round on.
ReproducibilityLate ==
    IF \A k \in Keys : RoundsWithPrice(k) <= 1 THEN "single"
    ELSE IF \E k \in Keys : RoundsWithPrice(k) > 2 /\ Unstable(k) THEN "dynamic"
    ELSE "reproduced"

\* _reproducibility; it looks at each row by itself
Reproducibility ==
    IF \A k \in Keys : RoundsWithPrice(k) <= 1 THEN "single"
    ELSE IF \E k \in Keys : RoundsWithPrice(k) > 1 /\ Unstable(k) THEN "dynamic"
    ELSE "reproduced"

Conclude ==
    /\ phase = "group"
    /\ Priced \subseteq Grouped
    /\ phase' = "done"
    /\ verdict' = Verdict
    /\ repro' = IF Priced = {} THEN None ELSE Reproducibility
    /\ UNCHANGED <<request, round, seen, buckets, groups>>

Next == AddResult \/ EndResults \/ GroupRow \/ Conclude \/ NextRound

Spec == Init /\ [][Next]_vars

-----------------------------------------------------------------------------
\* Properties

Row == [rounds: [Round -> Amount \cup {None}], identity: Identity]

\* The types; no more groups than rows, and no row in two of them.
TypeOK ==
    /\ request \in Requests
    /\ round \in Round
    /\ seen \in 0 .. round * Len(Specs(request))
    /\ buckets \in [Keys -> Row]
    /\ phase \in {"collect", "group", "done"}
    /\ \A g \in DOMAIN groups :
           groups[g].identity \in Identity /\ groups[g].members \subseteq Priced
    /\ verdict \in {"insufficient_data", "not_comparable", "difference",
                    "no_difference", None}
    /\ repro \in {"single", "dynamic", "reproduced", None}

\* runner.py:78, "report everything that was dropped": every combination a
\* request asks for is tested, or the notes name it or a part of it.
NothingDropped ==
    \A p \in Elements(AskedProfiles(request)),
       m \in Elements(AskedModes(request)),
       f \in Elements(ReferrersOf(request)),
       x \in Elements(request.proxies) \cup
                 (IF request.proxies = <<>> THEN {None} ELSE {}) :
        \/ <<p, m, f, x>> \in Keys
        \/ {<<p, m, f, x>>, p, m, x} \cap Notes(request) # {}

\* identity.py:144 and analysis.py:158: however the greedy grouping ran, an
\* analysis that refuses to compare has two rows that contradict each other.
RefusalWitnessed ==
    phase = "done" /\ verdict = "not_comparable" =>
        \E j, k \in Priced, f \in Field :
            ~SameField(f, buckets[j].identity[f], buckets[k].identity[f])

\* analysis.py:6, "Only compare prices of offers whose identity matched": when
\* prices are compared, no two of their rows contradict each other in an exact
\* field, whatever blanks the groups have filled on the way.
OnlyMatchedCompared ==
    phase = "done" /\ verdict \in {"difference", "no_difference"} =>
        \A j, k \in Priced, f \in Field \ Loose :
            SameField(f, buckets[j].identity[f], buckets[k].identity[f])

\* how much more row j costs than row k in round i
Gap(j, k, i) == buckets[j].rounds[i] - buckets[k].rounds[i]

\* analysis.py:285: unless the prices are called dynamic, every round in which
\* all compared tests have a price shows what the lowest prices over all rounds
\* show, so the minimum taken at analysis.py:124 hides nothing.
VerdictOfEveryRound ==
    (/\ phase = "done"
     /\ verdict \in {"difference", "no_difference"}
     /\ repro # "dynamic") =>
        \A i \in Round :
            (\A k \in Priced : buckets[k].rounds[i] # None) =>
                (verdict = "difference" <=>
                     \E j, k \in Priced : Gap(j, k, i) > Tolerance)

\* analysis.py:7, "A single deviation is not called reproducible -- that needs
\* several rounds": a reproduced difference was measured in two rounds.
ReproducedTwice ==
    phase = "done" /\ verdict = "difference" /\ repro = "reproduced" =>
        \E h, i \in Round, j, k \in Priced :
            /\ h # i
            /\ \A r \in {h, i} :
                   /\ None \notin {buckets[j].rounds[r], buckets[k].rounds[r]}
                   /\ Gap(j, k, r) > Tolerance
=============================================================================
