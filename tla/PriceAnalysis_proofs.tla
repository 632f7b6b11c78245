----------------------- MODULE PriceAnalysis_proofs ------------------------
(***************************************************************************)
(* What the verdict of PriceAnalysis rests on, for any number of tests and *)
(* rounds, any prices, any identity fields and any similarity of texts.    *)
(* The heart is the loop invariant of group_identical: what a group says   *)
(* of its offer comes from a member (Explained) and contradicts no member  *)
(* (Covered), so that a second group means two contradicting rows (Split). *)
(* The second half is about the matrix: filtering a list loses no element  *)
(* that it should keep, and every combination has its number.              *)
(***************************************************************************)
EXTENDS PriceAnalysis, FiniteSetTheorems, FunctionTheorems, TLAPS

Group == [identity: Identity, members: SUBSET Priced]

Explained ==
    \A g \in DOMAIN groups, f \in Field :
        groups[g].identity[f] # None =>
            \E k \in groups[g].members :
                buckets[k].identity[f] = groups[g].identity[f]

Covered ==
    \A g \in DOMAIN groups, f \in Field : \A k \in groups[g].members :
        buckets[k].identity[f] # None =>
            /\ groups[g].identity[f] # None
            /\ SameField(f, groups[g].identity[f], buckets[k].identity[f])

Split ==
    Len(groups) > 1 =>
        \E j, k \in Priced : ~Identical(buckets[j].identity, buckets[k].identity)

Concluded ==
    phase = "done" =>
        /\ Priced \subseteq Grouped
        /\ verdict = Verdict
        /\ repro = IF Priced = {} THEN None ELSE Reproducibility

Inv ==
    /\ request \in Requests
    /\ buckets \in [Keys -> Row]
    /\ phase = "collect" => groups = <<>>
    /\ groups \in Seq(Group)
    /\ Explained
    /\ Covered
    /\ Split
    /\ Concluded

-----------------------------------------------------------------------------
\* Identities

\* Filling the blanks of an identity gives one (identity.py:154).
LEMMA FillType ==
    \A a, b \in Identity : FillIdentity(a, b) \in Identity
  BY DEF FillIdentity, Identity

\* Whatever a result holds, its row stays a row (analysis.py:104).
LEMMA RowStep ==
    ASSUME NEW row \in Row, NEW o \in Outcome, NEW i
    PROVE  [row EXCEPT !.rounds[i] = o.price,
                       !.identity = FillIdentity(@, o.identity)] \in Row
<1>1. o.price \in Amount \cup {None} /\ o.identity \in Identity
  BY IdentityAssumption DEF Outcome, Identity, Blank
<1>2. FillIdentity(row.identity, o.identity) \in Identity
  BY <1>1, FillType DEF Row
<1>3. [row.rounds EXCEPT ![i] = o.price] \in [Round -> Amount \cup {None}]
  BY <1>1 DEF Row
<1> QED BY <1>2, <1>3 DEF Row

\* An empty list of groups explains and covers everything.
LEMMA NoGroups == groups = <<>> => groups \in Seq(Group) /\ Explained /\ Covered /\ Split
  BY DEF Explained, Covered, Split

-----------------------------------------------------------------------------
\* The steps

LEMMA InitInv == Init => Inv
<1> SUFFICES ASSUME Init PROVE Inv
  OBVIOUS
<1>1. buckets \in [Keys -> Row]
  BY DEF Init, Row, Blank, Identity
<1>2. groups \in Seq(Group) /\ Explained /\ Covered /\ Split
  BY NoGroups DEF Init
<1> QED BY <1>1, <1>2 DEF Init, Inv, Concluded

LEMMA AddResultStep == Inv /\ AddResult => Inv'
<1> SUFFICES ASSUME Inv, AddResult PROVE Inv'
  OBVIOUS
<1> DEFINE n == Len(Specs(request))
           k == Specs(request)[(seen % n) + 1]
<1>1. PICK o \in Outcome :
          buckets' = [buckets EXCEPT
              ![k].rounds[round] = o.price,
              ![k].identity = FillIdentity(@, o.identity)]
  BY DEF AddResult
<1> HIDE DEF k
<1>2. Keys' = Keys /\ Row' = Row
  BY DEF AddResult, Keys, Row, Round
<1>3. buckets' \in [Keys -> Row]
  <2>1. buckets \in [Keys -> Row]
    BY DEF Inv
  <2>2. buckets' = [x \in Keys |->
            IF x = k THEN [buckets[x] EXCEPT
                               !.rounds[round] = o.price,
                               !.identity = FillIdentity(@, o.identity)]
            ELSE buckets[x]]
    BY <1>1, <2>1
  <2>3. \A x \in Keys : [buckets[x] EXCEPT
                             !.rounds[round] = o.price,
                             !.identity = FillIdentity(@, o.identity)] \in Row
    BY <2>1, RowStep
  <2> QED BY <2>1, <2>2, <2>3
<1>4. groups' = <<>>
  BY DEF AddResult, Inv
<1>5. (groups \in Seq(Group) /\ Explained /\ Covered /\ Split)'
  BY <1>4 DEF Explained, Covered, Split
<1> QED BY <1>2, <1>3, <1>4, <1>5 DEF Inv, AddResult, Concluded

\* The rows do not change any more.
LEMMA SameRows ==
    ASSUME UNCHANGED <<request, buckets>>
    PROVE  /\ Keys' = Keys /\ Row' = Row /\ Round' = Round
           /\ Priced' = Priced /\ Group' = Group
           /\ \A k : PricesOf(k)' = PricesOf(k)
  BY DEF Keys, Row, Round, Priced, PricesOf, Group

LEMMA EndResultsStep == Inv /\ EndResults => Inv'
<1> SUFFICES ASSUME Inv, EndResults PROVE Inv'
  OBVIOUS
<1>1. UNCHANGED <<request, buckets, groups, verdict, repro>> /\ phase' = "group"
  BY DEF EndResults
<1>2. groups = <<>>
  BY DEF Inv, EndResults
<1>3. Keys' = Keys /\ Row' = Row
  BY <1>1, SameRows
<1>4. (groups \in Seq(Group) /\ Explained /\ Covered /\ Split)'
  BY <1>1, <1>2 DEF Explained, Covered, Split
<1> QED BY <1>1, <1>3, <1>4 DEF Inv, Concluded

\* A row joins the first group that fits (identity.py:149).
LEMMA Join ==
    ASSUME Inv, NEW k \in Priced, NEW g \in DOMAIN groups,
           Identical(groups[g].identity, buckets[k].identity),
           groups' = [groups EXCEPT
               ![g] = [identity |-> FillIdentity(@.identity, buckets[k].identity),
                       members |-> @.members \cup {k}]],
           UNCHANGED <<request, buckets>>
    PROVE  (groups \in Seq(Group) /\ Explained /\ Covered /\ Split)'
<1> DEFINE old == groups[g]
           id == buckets[k].identity
           new == [identity |-> FillIdentity(old.identity, id),
                   members |-> old.members \cup {k}]
<1>1. /\ groups \in Seq(Group) /\ old \in Group /\ id \in Identity
      /\ \A h \in DOMAIN groups : groups[h] \in Group
  BY DEF Inv, Priced, Row
<1>2. new \in Group
  BY <1>1, FillType DEF Group
<1>3. groups' \in Seq(Group) /\ Len(groups') = Len(groups)
      /\ DOMAIN groups' = DOMAIN groups
      /\ groups'[g] = new
      /\ \A h \in DOMAIN groups \ {g} : groups'[h] = groups[h]
  BY <1>1, <1>2
<1>4. Explained'
  <2> SUFFICES ASSUME NEW h \in DOMAIN groups, NEW f \in Field,
                      groups'[h].identity[f] # None
               PROVE  \E j \in groups'[h].members :
                          buckets[j].identity[f] = groups'[h].identity[f]
    BY <1>3 DEF Explained
  <2>1. CASE h # g
    BY <1>3, <2>1 DEF Inv, Explained
  <2>2. CASE h = g /\ old.identity[f] = None
    <3>1. new.identity[f] = id[f] /\ k \in new.members
      BY <2>2 DEF FillIdentity
    <3> QED BY <1>3, <2>2, <3>1
  <2>3. CASE h = g /\ old.identity[f] # None
    <3>1. new.identity[f] = old.identity[f]
      BY <2>3 DEF FillIdentity
    <3>2. PICK j \in old.members : buckets[j].identity[f] = old.identity[f]
      BY <2>3 DEF Inv, Explained
    <3> QED BY <1>3, <2>3, <3>1, <3>2
  <2> QED BY <2>1, <2>2, <2>3
<1>5. Covered'
  <2> SUFFICES ASSUME NEW h \in DOMAIN groups, NEW f \in Field,
                      NEW j \in groups'[h].members,
                      buckets[j].identity[f] # None
               PROVE  /\ groups'[h].identity[f] # None
                      /\ SameField(f, groups'[h].identity[f], buckets[j].identity[f])
    BY <1>3 DEF Covered
  <2>1. CASE h # g
    BY <1>3, <2>1 DEF Inv, Covered
  <2>2. CASE h = g /\ j \in old.members
    <3>1. /\ old.identity[f] # None
          /\ SameField(f, old.identity[f], buckets[j].identity[f])
      BY <2>2 DEF Inv, Covered
    <3>2. new.identity[f] = old.identity[f]
      BY <3>1 DEF FillIdentity
    <3> QED BY <1>3, <2>2, <3>1, <3>2
  <2>3. CASE h = g /\ j = k
    <3>1. SameField(f, old.identity[f], id[f])
      BY DEF Identical
    <3>2. new.identity[f] = IF old.identity[f] = None THEN id[f] ELSE old.identity[f]
      BY DEF FillIdentity
    <3>3. new.identity[f] # None /\ SameField(f, new.identity[f], id[f])
      BY <2>3, <3>1, <3>2 DEF SameField
    <3> QED BY <1>3, <2>3, <3>3
  <2> QED BY <1>3, <2>1, <2>2, <2>3
<1>6. Split'
  BY <1>3, SameRows DEF Inv, Split
<1> QED
  <2>1. Group' = Group
    BY SameRows
  <2> QED BY <1>3, <1>4, <1>5, <1>6, <2>1

\* A row that fits no group opens one, and contradicts a member of the first
\* group there is (identity.py:159).
LEMMA Open ==
    ASSUME Inv, NEW k \in Priced,
           \A g \in DOMAIN groups :
               ~Identical(groups[g].identity, buckets[k].identity),
           groups' = Append(groups, [identity |-> buckets[k].identity,
                                     members |-> {k}]),
           UNCHANGED <<request, buckets>>
    PROVE  (groups \in Seq(Group) /\ Explained /\ Covered /\ Split)'
<1> DEFINE id == buckets[k].identity
           new == [identity |-> id, members |-> {k}]
           last == Len(groups) + 1
<1>1. groups \in Seq(Group) /\ id \in Identity /\ Len(groups) \in Nat
  BY DEF Inv, Priced, Row
<1>2. new \in Group
  BY <1>1 DEF Group
<1>3. /\ groups' \in Seq(Group) /\ Len(groups') = last
      /\ DOMAIN groups = 1 .. Len(groups) /\ DOMAIN groups' = 1 .. last
      /\ groups'[last] = new
      /\ \A h \in DOMAIN groups : groups'[h] = groups[h]
  BY <1>1, <1>2
<1>4. \A h \in DOMAIN groups' : h = last \/ h \in DOMAIN groups
  BY <1>1, <1>3
<1>5. Explained'
  <2> SUFFICES ASSUME NEW h \in DOMAIN groups', NEW f \in Field,
                      groups'[h].identity[f] # None
               PROVE  \E j \in groups'[h].members :
                          buckets[j].identity[f] = groups'[h].identity[f]
    BY DEF Explained
  <2>1. CASE h = last
    BY <1>3, <2>1
  <2>2. CASE h \in DOMAIN groups
    BY <1>3, <2>2 DEF Inv, Explained
  <2> QED BY <1>4, <2>1, <2>2
<1>6. Covered'
  <2> SUFFICES ASSUME NEW h \in DOMAIN groups', NEW f \in Field,
                      NEW j \in groups'[h].members,
                      buckets[j].identity[f] # None
               PROVE  /\ groups'[h].identity[f] # None
                      /\ SameField(f, groups'[h].identity[f], buckets[j].identity[f])
    BY DEF Covered
  <2>1. CASE h = last
    BY <1>3, <2>1 DEF SameField
  <2>2. CASE h \in DOMAIN groups
    BY <1>3, <2>2 DEF Inv, Covered
  <2> QED BY <1>4, <2>1, <2>2
<1>7. Split'
  <2> SUFFICES ASSUME Len(groups) >= 1
               PROVE  \E j \in Priced : ~Identical(buckets[j].identity, id)
    BY <1>1, <1>3, SameRows DEF Split, Identical
  <2>1. 1 \in DOMAIN groups
    BY <1>1, <1>3
  <2>2. PICK f \in Field : ~SameField(f, groups[1].identity[f], id[f])
    BY <2>1 DEF Identical
  <2>3. groups[1].identity[f] # None
    BY <2>2 DEF SameField
  <2>4. PICK j \in groups[1].members :
            buckets[j].identity[f] = groups[1].identity[f]
    BY <2>1, <2>3 DEF Inv, Explained
  <2>5. j \in Priced
    <3>1. groups[1] \in Group
      BY <1>1, <2>1
    <3> QED BY <2>4, <3>1 DEF Group
  <2>6. ~Identical(buckets[j].identity, id)
    BY <2>2, <2>4 DEF Identical
  <2> QED BY <2>5, <2>6
<1> QED
  <2>1. Group' = Group
    BY SameRows
  <2> QED BY <1>3, <1>5, <1>6, <1>7, <2>1

LEMMA GroupRowStep == Inv /\ GroupRow => Inv'
<1> SUFFICES ASSUME Inv, GroupRow PROVE Inv'
  OBVIOUS
<1>1. PICK k \in Priced \ Grouped : Place(k)
  BY DEF GroupRow
<1>2. UNCHANGED <<request, seen, buckets, phase, verdict, repro>> /\ phase = "group"
  BY DEF GroupRow
<1>3. (groups \in Seq(Group) /\ Explained /\ Covered /\ Split)'
  BY <1>1, <1>2, Join, Open DEF Place
<1>4. Keys' = Keys /\ Row' = Row
  BY <1>2, SameRows
<1> QED BY <1>2, <1>3, <1>4 DEF Inv, Concluded

LEMMA ConcludeStep == Inv /\ Conclude => Inv'
<1> SUFFICES ASSUME Inv, Conclude PROVE Inv'
  OBVIOUS
<1>1. UNCHANGED <<request, seen, buckets, groups>> /\ phase' = "done"
  BY DEF Conclude
<1>2. Keys' = Keys /\ Row' = Row /\ Priced' = Priced /\ Group' = Group
  BY <1>1, SameRows
<1>3. (groups \in Seq(Group) /\ Explained /\ Covered /\ Split)'
  BY <1>1, <1>2 DEF Inv, Explained, Covered, Split
<1>4. Verdict' = Verdict /\ Reproducibility' = Reproducibility /\ Grouped' = Grouped
  BY <1>1 DEF Verdict, Reproducibility, Grouped, Comparable, SpreadExceeds, Price,
     Priced, PricesOf, RoundsWithPrice, Unstable, Keys, Round
<1>5. Concluded'
  BY <1>2, <1>4 DEF Conclude, Concluded
<1> QED BY <1>1, <1>2, <1>3, <1>5 DEF Inv

LEMMA NextRoundStep == Inv /\ NextRound => Inv'
<1> SUFFICES ASSUME Inv, NextRound PROVE Inv'
  OBVIOUS
<1>1. UNCHANGED <<request, buckets>> /\ phase' = "collect" /\ groups' = <<>>
  BY DEF NextRound
<1>2. Keys' = Keys /\ Row' = Row
  BY <1>1, SameRows
<1>3. (groups \in Seq(Group) /\ Explained /\ Covered /\ Split)'
  BY <1>1 DEF Explained, Covered, Split
<1> QED BY <1>1, <1>2, <1>3 DEF Inv, Concluded

LEMMA StutterStep == Inv /\ UNCHANGED vars => Inv'
<1> SUFFICES ASSUME Inv, UNCHANGED vars PROVE Inv'
  OBVIOUS
<1>1. UNCHANGED <<request, buckets, phase, groups, verdict, repro>>
  BY DEF vars
<1>2. Keys' = Keys /\ Row' = Row /\ Priced' = Priced /\ Group' = Group
  BY <1>1, SameRows
<1>3. Verdict' = Verdict /\ Reproducibility' = Reproducibility /\ Grouped' = Grouped
  BY <1>1 DEF Verdict, Reproducibility, Grouped, Comparable, SpreadExceeds, Price,
     Priced, PricesOf, RoundsWithPrice, Unstable, Keys, Round
<1> QED BY <1>1, <1>2, <1>3 DEF Inv, Explained, Covered, Split, Concluded

\* The invariant holds in every reachable state.
THEOREM Invariant == Spec => []Inv
<1>1. Inv /\ [Next]_vars => Inv'
  BY AddResultStep, EndResultsStep, GroupRowStep, ConcludeStep, NextRoundStep,
     StutterStep DEF Next
<1> QED BY <1>1, InitInv, PTL DEF Spec

\* A refusal to compare has two rows that contradict each other (analysis.py:158).
THEOREM RefusalTheorem == Spec => []RefusalWitnessed
<1>1. Inv => RefusalWitnessed
  <2> SUFFICES ASSUME Inv, phase = "done", verdict = "not_comparable"
               PROVE  \E j, k \in Priced, f \in Field :
                          ~SameField(f, buckets[j].identity[f],
                                     buckets[k].identity[f])
    BY DEF RefusalWitnessed
  <2>1. Verdict = "not_comparable"
    BY DEF Inv, Concluded
  <2>2. Len(groups) > 1
    BY <2>1 DEF Verdict, Comparable, Inv
  <2> QED BY <2>2 DEF Inv, Split, Identical
<1> QED BY <1>1, Invariant, PTL

\* Compared rows agree in every exact field (analysis.py:6).
THEOREM OnlyMatchedTheorem == Spec => []OnlyMatchedCompared
<1>1. Inv => OnlyMatchedCompared
  <2> SUFFICES ASSUME Inv, phase = "done", verdict \in {"difference", "no_difference"},
                      NEW j \in Priced, NEW k \in Priced, NEW f \in Field \ Loose
               PROVE  SameField(f, buckets[j].identity[f], buckets[k].identity[f])
    BY DEF OnlyMatchedCompared
  <2>1. Verdict \in {"difference", "no_difference"} /\ Priced \subseteq Grouped
    BY DEF Inv, Concluded
  <2>2. Len(groups) <= 1 /\ groups \in Seq(Group)
    BY <2>1 DEF Verdict, Comparable, Inv
  <2>3. \A g \in DOMAIN groups : g = 1
    BY <2>2
  <2>4. 1 \in DOMAIN groups /\ j \in groups[1].members /\ k \in groups[1].members
    BY <2>1, <2>3 DEF Grouped
  <2>5. \A i \in {j, k} : buckets[i].identity[f] # None =>
            buckets[i].identity[f] = groups[1].identity[f]
    BY <2>4 DEF Inv, Covered, SameField
  <2> QED BY <2>5 DEF SameField
<1> QED BY <1>1, Invariant, PTL

-----------------------------------------------------------------------------
\* Rounds

\* There are finitely many rounds (runner.py:383).
LEMMA FiniteRounds == request \in Requests => IsFiniteSet(Round)
<1> SUFFICES ASSUME request \in Requests PROVE IsFiniteSet(Round)
  OBVIOUS
<1>1. request.rounds \in Int /\ 1 \in Int
  BY RequestAssumption
<1> QED BY <1>1, FS_Interval DEF Round

LEMMA AtMostOne ==
    ASSUME NEW S, IsFiniteSet(S), Cardinality(S) <= 1, NEW x \in S
    PROVE  S = {x}
<1>1. Cardinality(S) \in Nat /\ Cardinality(S) # 0
  BY FS_CardinalityType, FS_EmptySet
<1>2. Cardinality(S) = 1
  BY <1>1
<1>3. PICK y : S = {y}
  BY <1>2, FS_Singleton
<1> QED BY <1>3

\* A row that is not unstable costs in every round what it costs at the lowest
\* (analysis.py:124 and analysis.py:287).
LEMMA StableRow ==
    ASSUME Inv, NEW k \in Keys, ~(RoundsWithPrice(k) > 1 /\ Unstable(k)),
           NEW i \in Round, buckets[k].rounds[i] # None
    PROVE  Price(k) = buckets[k].rounds[i]
<1> DEFINE p == buckets[k].rounds[i]
           S == {h \in Round : buckets[k].rounds[h] # None}
<1>1. p \in PricesOf(k) /\ i \in S /\ p \in Nat
  BY AmountAssumption DEF PricesOf, Inv, Row
<1>2. IsFiniteSet(Round)
  BY FiniteRounds DEF Inv
<1>3. IsFiniteSet(S) /\ Cardinality(S) \in Nat
  BY <1>2, FS_Subset, FS_CardinalityType
<1>4. PricesOf(k) = {p}
  <2>1. CASE ~Unstable(k)
    BY <1>1, <2>1 DEF Unstable
  <2>2. CASE Cardinality(S) <= 1
    <3>1. S = {i}
      BY <1>1, <1>3, <2>2, AtMostOne
    <3> QED BY <1>1, <3>1 DEF PricesOf
  <2> QED BY <1>3, <2>1, <2>2 DEF RoundsWithPrice
<1> QED BY <1>1, <1>4 DEF Price

\* Unless prices are dynamic, every complete round tells what the minima tell
\* (analysis.py:285).
THEOREM EveryRoundTheorem == Spec => []VerdictOfEveryRound
<1>1. Inv => VerdictOfEveryRound
  <2> SUFFICES ASSUME Inv, phase = "done",
                      verdict \in {"difference", "no_difference"},
                      repro # "dynamic", NEW i \in Round,
                      \A k \in Priced : buckets[k].rounds[i] # None
               PROVE  verdict = "difference" <=>
                          \E j, k \in Priced : Gap(j, k, i) > Tolerance
    BY DEF VerdictOfEveryRound
  <2>1. verdict = Verdict /\ Priced # {} /\ repro = Reproducibility
    BY DEF Inv, Concluded, Verdict
  <2>2. verdict = "difference" <=> SpreadExceeds(Tolerance)
    BY <2>1 DEF Verdict
  <2>3. \A k \in Keys : ~(RoundsWithPrice(k) > 1 /\ Unstable(k))
    <3>1. ASSUME NEW k \in Keys PROVE RoundsWithPrice(k) \in Nat
      <4>1. IsFiniteSet(Round)
        BY FiniteRounds DEF Inv
      <4>2. IsFiniteSet({h \in Round : buckets[k].rounds[h] # None})
        BY <4>1, FS_Subset
      <4> QED BY <4>2, FS_CardinalityType DEF RoundsWithPrice
    <3> QED BY <2>1, <3>1 DEF Reproducibility
  <2>4. \A k \in Priced : Price(k) = buckets[k].rounds[i]
    BY <2>3, StableRow DEF Priced
  <2> QED BY <2>2, <2>4 DEF SpreadExceeds, Gap
<1> QED BY <1>1, Invariant, PTL

-----------------------------------------------------------------------------
\* The test matrix

\* How many of the chosen places come before an element tells where it goes:
\* every element kept has one place in the result, and every place one element.
LEMMA KeptElements ==
    ASSUME NEW s, s \in Seq(Elements(s)), NEW S
    PROVE  /\ Kept(s, S) \in Seq(Elements(s) \cap S)
           /\ Elements(Kept(s, S)) = Elements(s) \cap S
<1> DEFINE places == {i \in DOMAIN s : s[i] \in S}
           Before(i) == {k \in places : k < i}
           size == Cardinality(places)
           rank == [i \in places |-> Cardinality(Before(i)) + 1]
           place(n) == CHOOSE i \in places : Cardinality(Before(i)) + 1 = n
           out == [n \in 1 .. size |-> s[place(n)]]
<1>1. Kept(s, S) = out
  BY DEF Kept
<1>2. /\ places \subseteq Nat
      /\ IsFiniteSet(places) /\ size \in Nat
  <2>1. DOMAIN s = 1 .. Len(s) /\ Len(s) \in Nat
    OBVIOUS
  <2>2. IsFiniteSet(DOMAIN s)
    BY <2>1, FS_Interval
  <2>3. IsFiniteSet(places)
    BY <2>2, FS_Subset
  <2> QED BY <2>1, <2>3, FS_CardinalityType
<1> HIDE DEF places
<1>3. ASSUME NEW i \in places
      PROVE  /\ IsFiniteSet(Before(i)) /\ Cardinality(Before(i)) \in Nat
             /\ Cardinality(Before(i)) + 1 \in 1 .. size
  <2>1. Before(i) \subseteq places \ {i}
    BY <1>2
  <2>2. IsFiniteSet(places \ {i}) /\ Cardinality(places \ {i}) = size - 1
    BY <1>2, FS_RemoveElement
  <2>3. /\ IsFiniteSet(Before(i))
        /\ Cardinality(Before(i)) <= size - 1
    BY <2>1, <2>2, FS_Subset
  <2>4. Cardinality(Before(i)) \in Nat
    BY <2>3, FS_CardinalityType
  <2> QED BY <1>2, <2>3, <2>4
<1>4. ASSUME NEW i \in places, NEW j \in places, i < j
      PROVE  Cardinality(Before(i)) < Cardinality(Before(j))
  <2>0. i \in Nat /\ j \in Nat /\ \A k \in places : k \in Nat
    BY <1>2
  <2>1. Before(i) \cup {i} \subseteq Before(j)
    <3>1. \A k \in Before(i) : k \in places /\ k < j
      BY <1>4, <2>0
    <3> QED BY <1>4, <3>1
  <2>2. i \notin Before(i)
    BY <1>2
  <2>3. /\ Cardinality(Before(i) \cup {i}) = Cardinality(Before(i)) + 1
    BY <1>3, <2>2, FS_AddElement
  <2>4. Cardinality(Before(i) \cup {i}) <= Cardinality(Before(j))
    BY <1>3, <2>1, FS_Subset
  <2>5. /\ Cardinality(Before(i)) \in Nat
        /\ Cardinality(Before(j)) \in Nat
    BY <1>3
  <2> HIDE DEF Before
  <2> QED BY <2>3, <2>4, <2>5
<1>5. rank \in [places -> 1 .. size]
  BY <1>3
<1> HIDE DEF Before
<1>6. ASSUME NEW i \in places, NEW j \in places, rank[i] = rank[j]
      PROVE  i = j
  <2>1. Cardinality(Before(i)) = Cardinality(Before(j))
    BY <1>3, <1>6
  <2>2. i \in Nat /\ j \in Nat
    BY <1>2
  <2> QED BY <1>3, <1>4, <2>1, <2>2
<1>7. rank \in Injection(places, 1 .. size)
  BY <1>5, <1>6, Fun_IsInj
<1>8. IsFiniteSet(1 .. size) /\ Cardinality(1 .. size) = size
  BY <1>2, FS_Interval
<1> HIDE DEF size
<1>9. rank \in Surjection(places, 1 .. size)
  <2> HIDE DEF rank
  <2> QED BY <1>7, <1>8, FS_Injection DEF size
<1>10. ASSUME NEW n \in 1 .. size
       PROVE  place(n) \in places /\ rank[place(n)] = n
  <2>1. \E i \in places : rank[i] = n
    <3> DEFINE N == 1 .. size
    <3>1. n \in N /\ rank \in Surjection(places, N)
      BY <1>9
    <3> HIDE DEF N, rank
    <3> QED BY <3>1, Fun_SurjectionProperties
  <2> QED BY <2>1
<1> HIDE DEF place, rank
<1>11. \A i \in places : i \in DOMAIN s /\ s[i] \in Elements(s) \cap S
  BY DEF places, Elements
<1>12. out \in Seq(Elements(s) \cap S)
  <2>1. \A n \in 1 .. size : s[place(n)] \in Elements(s) \cap S
    BY <1>10, <1>11
  <2>2. out \in [1 .. size -> Elements(s) \cap S]
    BY <2>1
  <2>3. size \in Nat
    BY <1>2 DEF size
  <2> HIDE DEF out
  <2> QED BY <2>2, <2>3
<1>13. Elements(out) \subseteq Elements(s) \cap S
  <2>1. DOMAIN out = 1 .. size
    OBVIOUS
  <2>2. \A n \in 1 .. size : out[n] \in Elements(s) \cap S
    BY <1>10, <1>11
  <2> HIDE DEF out
  <2> QED BY <2>1, <2>2 DEF Elements
<1>14. ASSUME NEW e \in Elements(s) \cap S PROVE e \in Elements(out)
  <2>1. PICK i \in places : e = s[i]
    BY DEF places, Elements
  <2>2. rank[i] \in 1 .. size
    BY <1>5
  <2>3. place(rank[i]) = i
    BY <1>6, <1>10, <2>2
  <2>4. out[rank[i]] = e
    BY <2>1, <2>2, <2>3
  <2> QED BY <2>2, <2>4 DEF Elements
<1> QED BY <1>1, <1>12, <1>13, <1>14

\* Quotient and remainder are unique.
LEMMA DivMod ==
    ASSUME NEW q \in Nat, NEW d \in Nat \ {0}, NEW r \in 0 .. d - 1
    PROVE  (q * d + r) \div d = q /\ (q * d + r) % d = r
<1> DEFINE n == q * d + r
           k == n \div d
           m == n % d
<1>1. q * d \in Nat
  OBVIOUS
<1>2. n \in Nat
  BY <1>1
<1> HIDE DEF n
<1>3. k \in Nat /\ m \in 0 .. d - 1 /\ n = d * k + m
  BY <1>2
<1> HIDE DEF k, m
<1>4. d * k + m = q * d + r
  BY <1>3 DEF n
<1>5. \A a, b \in Nat : a < b => d * b >= d * a + d
  <2> SUFFICES ASSUME NEW a \in Nat, NEW b \in Nat, a < b
               PROVE  d * b >= d * a + d
    OBVIOUS
  <2>1. b - a - 1 \in Nat
    OBVIOUS
  <2>2. d * (b - a - 1) \in Nat
    BY <2>1
  <2>3. d * b = d * a + d + d * (b - a - 1)
    OBVIOUS
  <2>4. d * a \in Nat
    OBVIOUS
  <2> QED BY <2>2, <2>3, <2>4
<1>6. q * d = d * q /\ d * k \in Nat /\ d * q \in Nat
  BY <1>3
<1>7. ~(k < q)
  BY <1>3, <1>4, <1>5, <1>6
<1>8. ~(q < k)
  BY <1>3, <1>4, <1>5, <1>6
<1>9. k = q
  BY <1>3, <1>7, <1>8
<1>10. m = r
  BY <1>3, <1>4, <1>6, <1>9
<1> QED BY <1>9, <1>10 DEF k, m, n

\* a number in mixed radix stays below the product of the radices
LEMMA Below ==
    ASSUME NEW q \in Nat, NEW Q \in Nat, q < Q, NEW d \in Nat \ {0},
           NEW r \in 0 .. d - 1
    PROVE  q * d + r \in 0 .. Q * d - 1
<1>1. Q - q - 1 \in Nat
  OBVIOUS
<1>2. (Q - q - 1) * d \in Nat
  BY <1>1
<1>3. Q * d = q * d + d + (Q - q - 1) * d
  OBVIOUS
<1>4. q * d \in Nat
  OBVIOUS
<1> QED BY <1>2, <1>3, <1>4

\* What is left of the lists of a request, and that they are lists.
LEMMA Lists ==
    ASSUME NEW r \in Requests
    PROVE  /\ ProfilesOf(r) \in Seq(Elements(AskedProfiles(r)) \cap Usable)
           /\ Elements(ProfilesOf(r)) = Elements(AskedProfiles(r)) \cap Usable
           /\ ModesOf(r) \in Seq(Elements(AskedModes(r))
                                      \cap (CookieMode \cup {DefaultMode}))
           /\ Elements(ModesOf(r)) =
                  Elements(AskedModes(r)) \cap (CookieMode \cup {DefaultMode})
           /\ ReferrersOf(r) \in Seq(Elements(ReferrersOf(r)))
           /\ ProxiesOf(r) \in Seq(Configured)
           /\ Elements(r.proxies) \cap Configured \subseteq Elements(ProxiesOf(r))
           /\ r.proxies = <<>> => None \in Elements(ProxiesOf(r))
<1>1. /\ r.profiles \in Seq(Elements(r.profiles))
      /\ r.modes \in Seq(Elements(r.modes))
      /\ r.referrers \in Seq(Elements(r.referrers))
      /\ r.proxies \in Seq(Elements(r.proxies))
  BY RequestAssumption
<1>2. AskedProfiles(r) \in Seq(Elements(AskedProfiles(r)))
  BY <1>1, RequestAssumption DEF AskedProfiles
<1>3. \A e : <<e>> \in Seq(Elements(<<e>>)) /\ e \in Elements(<<e>>)
  <2> TAKE e
  <2>1. DOMAIN <<e>> = {1} /\ <<e>>[1] = e
    OBVIOUS
  <2>2. e \in Elements(<<e>>)
    BY <2>1 DEF Elements
  <2> QED BY <2>2
<1>4. AskedModes(r) \in Seq(Elements(AskedModes(r)))
  BY <1>1, <1>3 DEF AskedModes
<1>5. ReferrersOf(r) \in Seq(Elements(ReferrersOf(r)))
  BY <1>1, <1>3 DEF ReferrersOf
<1> DEFINE clean == Kept(r.proxies, Configured)
<1>6. /\ clean \in Seq(Elements(r.proxies) \cap Configured)
      /\ Elements(clean) = Elements(r.proxies) \cap Configured
  BY <1>1, KeptElements
<1>7. ProxiesOf(r) = IF clean = <<>> THEN <<None>> ELSE clean
  BY DEF ProxiesOf
<1> HIDE DEF clean
<1>8. None \in Configured
  BY DEF Configured
<1>9. clean \in Seq(Configured)
  <2>1. /\ \A i \in 1 .. Len(clean) : clean[i] \in Configured
        /\ clean = [i \in 1 .. Len(clean) |-> clean[i]] /\ Len(clean) \in Nat
    BY <1>6
  <2>2. clean \in [1 .. Len(clean) -> Configured]
    BY <2>1
  <2> QED BY <2>1, <2>2
<1>10. ProxiesOf(r) \in Seq(Configured)
  BY <1>7, <1>8, <1>9
<1>11. Elements(r.proxies) \cap Configured \subseteq Elements(ProxiesOf(r))
  <2>1. CASE clean = <<>>
    <3>1. Elements(clean) = {}
      BY <2>1 DEF Elements
    <3> QED BY <1>6, <3>1
  <2>2. CASE clean # <<>>
    BY <1>6, <1>7, <2>2
  <2> QED BY <2>1, <2>2
<1>12. r.proxies = <<>> => None \in Elements(ProxiesOf(r))
  <2>1. ASSUME r.proxies = <<>> PROVE clean = <<>>
    <3>1. Elements(clean) = {}
      BY <1>6, <2>1 DEF Elements
    <3>2. Len(clean) = 0
      <4>1. ASSUME Len(clean) # 0 PROVE FALSE
        <5>1. 1 \in DOMAIN clean
          BY <1>6, <4>1
        <5> QED BY <3>1, <5>1 DEF Elements
      <4> QED BY <4>1
    <3> QED BY <1>6, <3>2
  <2> QED BY <1>3, <1>7, <2>1
<1> QED BY <1>2, <1>4, <1>5, <1>10, <1>11, <1>12, KeptElements
      DEF ProfilesOf, ModesOf

\* Every combination of names that are left has its number (runner.py:111-119).
LEMMA Numbered ==
    ASSUME NEW r \in Requests,
           NEW p \in Elements(ProfilesOf(r)), NEW m \in Elements(ModesOf(r)),
           NEW f \in Elements(ReferrersOf(r)), NEW x \in Elements(ProxiesOf(r))
    PROVE  /\ Combinations(r) \in Nat
           /\ \E n \in 0 .. Combinations(r) - 1 : Combination(r, n) = <<p, m, f, x>>
<1> DEFINE P == Len(ProfilesOf(r))
           M == Len(ModesOf(r))
           F == Len(ReferrersOf(r))
           X == Len(ProxiesOf(r))
           fx == F * X
           mfx == M * fx
<1>1. /\ P \in Nat /\ M \in Nat /\ F \in Nat /\ X \in Nat
      /\ DOMAIN ProfilesOf(r) = 1 .. P /\ DOMAIN ModesOf(r) = 1 .. M
      /\ DOMAIN ReferrersOf(r) = 1 .. F /\ DOMAIN ProxiesOf(r) = 1 .. X
  BY Lists
<1>2. PICK a \in 1 .. P : ProfilesOf(r)[a] = p
  BY <1>1 DEF Elements
<1>3. PICK b \in 1 .. M : ModesOf(r)[b] = m
  BY <1>1 DEF Elements
<1>4. PICK c \in 1 .. F : ReferrersOf(r)[c] = f
  BY <1>1 DEF Elements
<1>5. PICK d \in 1 .. X : ProxiesOf(r)[d] = x
  BY <1>1 DEF Elements
<1> HIDE DEF P, M, F, X
<1>6. /\ a - 1 \in Nat /\ a - 1 < P /\ b - 1 \in Nat /\ b - 1 < M
      /\ c - 1 \in Nat /\ c - 1 < F /\ d - 1 \in 0 .. X - 1
      /\ M \in Nat \ {0} /\ F \in Nat \ {0} /\ X \in Nat \ {0}
  BY <1>1, <1>2, <1>3, <1>4, <1>5
<1>7. \A i, k \in Nat : i * k \in Nat
  OBVIOUS
<1>8. \A i, k \in Nat \ {0} : i * k # 0
  OBVIOUS
<1>9. fx \in Nat \ {0} /\ mfx \in Nat \ {0}
  BY <1>6, <1>7, <1>8
<1>10. Combinations(r) = P * M * F * X
  BY DEF Combinations, P, M, F, X
<1>11. Combinations(r) = P * mfx
  <2>1. P * M * F * X = P * (M * (F * X))
    BY <1>1
  <2> QED BY <1>10, <2>1
<1>12. Combinations(r) \in Nat
  BY <1>1, <1>7, <1>9, <1>11
\* the numbers of the referrer and the proxy, of the mode as well, of all
<1> DEFINE n1 == (c - 1) * X + (d - 1)
           n2 == (b - 1) * fx + n1
           n3 == (a - 1) * mfx + n2
<1>13. n1 \in 0 .. fx - 1
  BY <1>1, <1>6, Below
<1> HIDE DEF fx
<1>14. n2 \in 0 .. mfx - 1
  <2> HIDE DEF n1
  <2> QED BY <1>1, <1>6, <1>9, <1>13, Below
<1> HIDE DEF mfx
<1>15. n3 \in 0 .. P * mfx - 1
  <2> HIDE DEF n2
  <2> QED BY <1>1, <1>6, <1>9, <1>14, Below
<1>16. n3 \div mfx = a - 1 /\ n3 % mfx = n2
  <2> HIDE DEF n2
  <2> QED BY <1>6, <1>9, <1>14, DivMod
<1>17. n2 \div fx = b - 1
  <2> HIDE DEF n1
  <2> QED BY <1>6, <1>9, <1>13, DivMod
<1>18. n3 % fx = n1
  <2>1. (a - 1) * M + (b - 1) \in Nat
    BY <1>1, <1>6, <1>7
  <2>2. n3 = ((a - 1) * M + (b - 1)) * fx + n1
    <3> HIDE DEF n1
    <3>1. (a - 1) * (M * fx) = ((a - 1) * M) * fx
      BY <1>1, <1>6, <1>9
    <3>2. ((a - 1) * M + (b - 1)) * fx = ((a - 1) * M) * fx + (b - 1) * fx
      BY <1>1, <1>6, <1>7, <1>9
    <3>3. /\ ((a - 1) * M) * fx \in Nat /\ (b - 1) * fx \in Nat /\ n1 \in Nat
      BY <1>6, <1>7, <1>9, <1>13
    <3> QED BY <3>1, <3>2, <3>3 DEF mfx
  <2> HIDE DEF n3, n1
  <2> QED BY <1>9, <1>13, <2>1, <2>2, DivMod
<1>19. n1 \div X = c - 1
  BY <1>6, DivMod
<1>20. n3 % X = d - 1
  <2> DEFINE q == ((a - 1) * M + (b - 1)) * F + (c - 1)
  <2>1. q \in Nat
    BY <1>1, <1>6, <1>7
  <2>2. n3 = q * X + (d - 1)
    <3> DEFINE A == (a - 1) * M
               e == b - 1
               g == c - 1
    <3>1. A \in Nat /\ e \in Nat /\ g \in Nat
      BY <1>6, <1>7
    <3>2. (a - 1) * (M * (F * X)) = A * (F * X)
      BY <1>1, <1>6
    <3> HIDE DEF A, e, g
    <3>3. A * (F * X) + (e * (F * X) + (g * X + (d - 1)))
              = ((A + e) * F + g) * X + (d - 1)
      BY <1>1, <1>6, <3>1
    <3> QED BY <3>2, <3>3 DEF A, e, g, mfx, fx
  <2> HIDE DEF n3, q
  <2> QED BY <1>6, <2>1, <2>2, DivMod
<1>21. Combination(r, n3) = << ProfilesOf(r)[(n3 \div mfx) + 1],
            ModesOf(r)[((n3 % mfx) \div fx) + 1],
            ReferrersOf(r)[((n3 % fx) \div X) + 1], ProxiesOf(r)[(n3 % X) + 1] >>
  <2> HIDE DEF n3
  <2> QED BY DEF Combination, mfx, fx, M, F, X
<1> HIDE DEF n3, n2, n1
<1>22. Combination(r, n3) = <<p, m, f, x>>
  <2>1. /\ (n3 \div mfx) + 1 = a /\ ((n3 % mfx) \div fx) + 1 = b
        /\ ((n3 % fx) \div X) + 1 = c /\ (n3 % X) + 1 = d
    BY <1>2, <1>3, <1>4, <1>5, <1>16, <1>17, <1>18, <1>19, <1>20
  <2> QED BY <1>2, <1>3, <1>4, <1>5, <1>21, <2>1
<1> QED BY <1>11, <1>12, <1>15, <1>22

\* The specification of the tests is a list of keys.
LEMMA SpecsList ==
    ASSUME NEW r \in Requests
    PROVE  /\ Combinations(r) \in Nat
           /\ Len(Specs(r)) \in Nat
           /\ Specs(r) \in Seq(Elements(Specs(r)))
           /\ DOMAIN Specs(r) = 1 .. (IF Combinations(r) > MaxTests THEN MaxTests
                                      ELSE Combinations(r))
<1> DEFINE P == Len(ProfilesOf(r))
           M == Len(ModesOf(r))
           F == Len(ReferrersOf(r))
           X == Len(ProxiesOf(r))
           size == IF Combinations(r) > MaxTests THEN MaxTests ELSE Combinations(r)
<1>1. P \in Nat /\ M \in Nat /\ F \in Nat /\ X \in Nat
  BY Lists
<1> HIDE DEF P, M, F, X
<1>2. \A i, k \in Nat : i * k \in Nat
  OBVIOUS
<1>3. Combinations(r) = P * M * F * X
  BY DEF Combinations, P, M, F, X
<1>4. Combinations(r) \in Nat
  BY <1>1, <1>2, <1>3
<1>5. size \in Nat
  BY <1>4, LimitAssumption
<1>6. Specs(r) = [n \in 1 .. size |-> Combination(r, n - 1)]
  BY DEF Specs
<1>7. DOMAIN Specs(r) = 1 .. size
  BY <1>6
<1> HIDE DEF size
<1>8. \A n \in 1 .. size : Specs(r)[n] \in Elements(Specs(r))
  BY <1>7 DEF Elements
<1>9. Specs(r) = [n \in 1 .. size |-> Specs(r)[n]]
  BY <1>6, <1>7
<1>10. Specs(r) \in [1 .. size -> Elements(Specs(r))]
  BY <1>8, <1>9
<1>11. Specs(r) \in Seq(Elements(Specs(r)))
  BY <1>5, <1>10
<1> QED BY <1>4, <1>7, <1>11 DEF size

\* runner.py:78: whatever a request asks for and whatever the limit cuts off,
\* each combination is tested, or a note names it or a part of it.
THEOREM NothingDroppedTheorem == Spec => []NothingDropped
<1>1. ASSUME request \in Requests PROVE NothingDropped
  <2> SUFFICES ASSUME NEW p \in Elements(AskedProfiles(request)),
                      NEW m \in Elements(AskedModes(request)),
                      NEW f \in Elements(ReferrersOf(request)),
                      NEW x \in Elements(request.proxies) \cup
                              (IF request.proxies = <<>> THEN {None} ELSE {})
               PROVE  \/ <<p, m, f, x>> \in Keys
                      \/ {<<p, m, f, x>>, p, m, x} \cap Notes(request) # {}
    BY DEF NothingDropped
  <2> DEFINE all == Combinations(request)
  <2>1. CASE p \notin Usable
    BY <2>1 DEF Notes
  <2>2. CASE x \notin Configured
    <3>1. x \in Elements(request.proxies)
      BY <2>2 DEF Configured
    <3> QED BY <2>2, <3>1 DEF Notes
  <2>3. CASE p \in Usable /\ m \notin CookieMode \cup {DefaultMode}
    <3>1. p \in Elements(ProfilesOf(request))
      BY <1>1, <2>3, Lists
    <3>2. ProfilesOf(request) # <<>>
      <4>1. Elements(<<>>) = {}
        BY DEF Elements
      <4> QED BY <3>1, <4>1
    <3>3. m \in Elements(request.modes)
      <4>1. ASSUME request.modes = <<>> PROVE FALSE
        <5>1. Elements(<<DefaultMode>>) = {DefaultMode}
          BY DEF Elements
        <5> QED BY <2>3, <4>1, <5>1 DEF AskedModes
      <4> QED BY <4>1 DEF AskedModes
    <3> QED BY <2>3, <3>2, <3>3 DEF Notes
  <2>4. CASE /\ p \in Usable /\ m \in CookieMode \cup {DefaultMode}
             /\ x \in Configured
    <3>1. /\ p \in Elements(ProfilesOf(request))
          /\ m \in Elements(ModesOf(request))
          /\ x \in Elements(ProxiesOf(request))
      BY <1>1, <2>4, Lists
    <3>2. all \in Nat
      BY <1>1, <3>1, Numbered
    <3>3. PICK n \in 0 .. all - 1 : Combination(request, n) = <<p, m, f, x>>
      BY <1>1, <3>1, Numbered
    <3>4. CASE n < MaxTests
      <4>1. n + 1 \in DOMAIN Specs(request)
        BY <1>1, <3>2, <3>4, SpecsList, LimitAssumption
      <4>2. Specs(request)[n + 1] = Combination(request, (n + 1) - 1)
        BY <4>1 DEF Specs
      <4>3. (n + 1) - 1 = n
        BY <3>2
      <4> QED BY <3>3, <4>1, <4>2, <4>3 DEF Keys, Elements
    <3>5. CASE ~(n < MaxTests)
      <4>1. n \in MaxTests .. Combinations(request) - 1
        BY <3>2, <3>5, LimitAssumption
      <4> QED BY <3>3, <4>1 DEF Notes
    <3> QED BY <3>4, <3>5
  <2> QED BY <2>1, <2>2, <2>3, <2>4
<1>2. Inv => request \in Requests
  BY DEF Inv
<1> QED BY <1>1, <1>2, Invariant, PTL

-----------------------------------------------------------------------------
\* Types

Answers ==
    /\ round \in Round
    /\ seen \in 0 .. round * Len(Specs(request))
    /\ phase \in {"collect", "group", "done"}
    /\ verdict \in {"insufficient_data", "not_comparable", "difference",
                    "no_difference", None}
    /\ repro \in {"single", "dynamic", "reproduced", None}

LEMMA InitAnswers == Init => Answers
<1> SUFFICES ASSUME Init PROVE Answers
  OBVIOUS
<1>1. request.rounds \in Nat \ {0} /\ Len(Specs(request)) \in Nat
  BY RequestAssumption, SpecsList DEF Init
<1>2. round = 1 /\ seen = 0
  BY DEF Init
<1>3. round \in Round /\ round * Len(Specs(request)) \in Nat
  BY <1>1, <1>2 DEF Round
<1> QED BY <1>2, <1>3 DEF Init, Answers

\* A further round has room for the results of the rounds before it.
LEMMA MoreRoom ==
    ASSUME NEW i \in Nat, NEW n \in Nat
    PROVE  i * n \in Nat /\ (i + 1) * n \in Nat /\ i * n <= (i + 1) * n
<1>1. i * n \in Nat
  OBVIOUS
<1>2. (i + 1) * n = i * n + n
  OBVIOUS
<1> QED BY <1>1, <1>2

LEMMA AnswersStep == Inv /\ Answers /\ [Next]_vars => Answers'
<1> SUFFICES ASSUME Inv, Answers, [Next]_vars PROVE Answers'
  OBVIOUS
<1> DEFINE n == Len(Specs(request))
<1>1. request.rounds \in Nat \ {0} /\ n \in Nat
  BY RequestAssumption, SpecsList DEF Inv
<1>2. round \in Nat /\ round \in 1 .. request.rounds /\ seen \in 0 .. round * n
  BY <1>1 DEF Answers, Round
<1>3. ASSUME UNCHANGED request PROVE Len(Specs(request))' = n /\ Round' = Round
  BY <1>3 DEF Specs, Combinations, Combination, ProfilesOf, ModesOf, ReferrersOf,
       ProxiesOf, AskedProfiles, AskedModes, Round
<1> HIDE DEF n
<1>4. round * n \in Nat /\ (round + 1) * n \in Nat /\ round * n <= (round + 1) * n
  BY <1>1, <1>2, MoreRoom
<1>5. CASE AddResult
  <2>1. seen < round * n /\ seen' = seen + 1
        /\ UNCHANGED <<request, round, phase, verdict, repro>>
    BY <1>5 DEF AddResult, n
  <2>2. seen' \in 0 .. round * n
    BY <1>2, <1>4, <2>1
  <2>3. (round * Len(Specs(request)))' = round * n /\ Round' = Round
    BY <1>3, <2>1
  <2> QED BY <2>1, <2>2, <2>3 DEF Answers
<1>6. CASE EndResults \/ GroupRow \/ UNCHANGED vars
  <2>1. /\ UNCHANGED <<request, round, seen, verdict, repro>>
        /\ phase' \in {phase, "group"}
    BY <1>6 DEF EndResults, GroupRow, vars
  <2>2. (round * Len(Specs(request)))' = round * n /\ Round' = Round
    BY <1>3, <2>1
  <2> QED BY <2>1, <2>2 DEF Answers, n
<1>7. CASE Conclude
  <2>1. /\ UNCHANGED <<request, round, seen>> /\ phase' = "done"
        /\ verdict' = Verdict
        /\ repro' = IF Priced = {} THEN None ELSE Reproducibility
    BY <1>7 DEF Conclude
  <2>2. (round * Len(Specs(request)))' = round * n /\ Round' = Round
    BY <1>3, <2>1
  <2>3. Verdict \in {"insufficient_data", "not_comparable", "difference",
                     "no_difference"}
    BY DEF Verdict
  <2>4. Reproducibility \in {"single", "dynamic", "reproduced"}
    BY DEF Reproducibility
  <2> QED BY <2>1, <2>2, <2>3, <2>4 DEF Answers, n
<1>8. CASE NextRound
  <2>1. /\ UNCHANGED <<request, seen>> /\ phase' = "collect"
        /\ verdict' = None /\ repro' = None
        /\ round < request.rounds /\ round' = round + 1
    BY <1>8 DEF NextRound
  <2>2. Len(Specs(request))' = n /\ Round' = Round
    BY <1>3, <2>1
  <2>3. round' \in Round'
    BY <1>1, <1>2, <2>1, <2>2 DEF Round
  <2>4. seen' \in 0 .. (round + 1) * n
    BY <1>2, <1>4, <2>1
  <2> QED BY <2>1, <2>2, <2>3, <2>4 DEF Answers
<1> QED BY <1>5, <1>6, <1>7, <1>8 DEF Next

\* The types; a group holds rows with a price only, whatever the order in which
\* rows were placed, and the results read never exceed those there are.
THEOREM TypeCorrect == Spec => []TypeOK
<1>1. Inv /\ Answers => TypeOK
  <2> SUFFICES ASSUME Inv, Answers PROVE TypeOK
    OBVIOUS
  <2>1. \A g \in DOMAIN groups : groups[g] \in Group
    BY DEF Inv
  <2>2. \A g \in DOMAIN groups :
            groups[g].identity \in Identity /\ groups[g].members \subseteq Priced
    BY <2>1 DEF Group
  <2> QED BY <2>2 DEF Inv, Answers, TypeOK
<1> QED BY <1>1, Invariant, InitAnswers, AnswersStep, PTL DEF Spec
=============================================================================
