------------------------ MODULE BookingFlow_proofs -------------------------
(***************************************************************************)
(* What BookingFlow promises for every site: any set of pages, any amounts *)
(* and tariffs, any number of turns.  Where the flow stands bounds the     *)
(* clicks of the turn (Position); a page the flow has read and not clicked *)
(* away is one it may work on (Guarded).                                   *)
(***************************************************************************)
EXTENDS BookingFlow, TLAPS

Clicking == {"summary", "booking", "preferred", "option", "button", "unchosen",
             "continue"}

Position ==
    /\ pc \in {"launch", "open", "cookies", "start"}
           => stale = 0 /\ steps = 0 /\ trip = None
    /\ pc \in {"summary", "booking", "preferred"} => stale = 0
    /\ pc = "option" => stale <= 1
    /\ pc = "button" => stale <= 2
    /\ pc \in Clicking \cup {"chosen"} => stale <= 3
    /\ pc = "chosen" => stale > 0
    /\ pc = "loop" /\ stale = 0 => steps = 0

Guarded ==
    /\ pc \in Clicking /\ stale = 0 => ~Restricted(page)
    /\ pc = "after" /\ stale = 0 /\ steps > 0 => ~Challenge(page)
    /\ (pc \in {"close", "done"} /\ page # None /\ steps > 0 /\ stale = 0
            /\ Challenge(page)) => status \in Blocked \cup Failure

Inv ==
    /\ TypeOK
    /\ Position
    /\ HardStop
    /\ Guarded
    /\ told => status \notin Regular

Amounts == [PriceField \cup {"tariff"} -> Price \cup Tariff \cup {None}]

USE DEF StopKind, PageKind, Notice

-----------------------------------------------------------------------------
\* Reading

\* Pages are records of the declared kinds (base.py:106).
LEMMA PageType ==
    \A p \in Pages : /\ p.kind \in PageKind
                     /\ p.notices \subseteq Notice
                     /\ p.tariff \in Tariff \cup {None}
                     /\ p.shows \in [PriceField -> Price \cup {None}]
  BY PagesAssumption DEF Page

\* What is read off a page is a record of amounts (adapter.py:384).
LEMMA BreakdownType ==
    \A p \in Pages : Breakdown(p) \in Amounts /\ FinalBreakdown(p) \in Amounts
<1> SUFFICES ASSUME NEW p \in Pages
             PROVE  Breakdown(p) \in Amounts /\ FinalBreakdown(p) \in Amounts
  OBVIOUS
<1>1. Breakdown(p) \in Amounts
  BY PageType DEF Breakdown, Amounts, PriceField
<1>2. Fill(p.shows["final"], p.shows["total"]) \in Price \cup {None}
  BY PageType DEF Fill, PriceField
<1>3. FinalBreakdown(p) \in Amounts
  BY <1>1, <1>2, PageType DEF FinalBreakdown, Amounts, PriceField
<1> QED BY <1>1, <1>3

\* Merging two breakdowns yields one, and it keeps what is known (base.py:127).
LEMMA MergeFacts ==
    \A known, new \in Amounts :
        /\ Merge(known, new) \in Amounts
        /\ \A f \in DOMAIN known :
               known[f] # None => Merge(known, new)[f] = known[f]
  BY DEF Merge, Fill, Amounts

-----------------------------------------------------------------------------
\* The steps of a flow

LEMMA InitInv == Init => Inv
<1> SUFFICES ASSUME Init PROVE Inv
  OBVIOUS
<1>1. NoPrices \in Amounts
  BY DEF NoPrices, Amounts
<1>2. TypeOK
  <2>1. pc \in Step /\ status \in Status
    BY DEF Init, Step, Status, Regular
  <2>2. steps \in 0..MaxSteps /\ stale \in 0..4 /\ blind \subseteq 0..3
    BY StepsAssumption DEF Init
  <2> QED BY <1>1, <2>1, <2>2 DEF Init, TypeOK, Amounts
<1>3. Position /\ HardStop /\ Guarded
  BY DEF Init, Position, HardStop, Guarded, Clicking
<1> QED BY <1>2, <1>3 DEF Init, Inv

\* An abort ends the flow with a status that is not a regular one.
LEMMA AbortStep ==
    ASSUME Inv, NEW s \in Blocked \cup Failure, Abort(s), pc # "done",
           UNCHANGED <<page, steps, prices, seenSummary, blind>>,
           kind' \in PageKind \cup {None}, stale' \in 0..4, told' \in BOOLEAN
    PROVE  Inv'
<1>1. TypeOK'
  BY DEF Inv, TypeOK, Abort, Step, Status
<1>2. Position' /\ HardStop' /\ Guarded'
  BY DEF Inv, Position, HardStop, Guarded, Clicking, Abort
<1>3. status' \notin Regular
  BY DEF Abort, Blocked, Failure, Regular
<1> QED BY <1>1, <1>2, <1>3 DEF Inv

\* A click leaves the types alone and hits a restricted page only after another
\* click of the same turn.
LEMMA ClickStep ==
    ASSUME Inv, NEW ok \in BOOLEAN, Click(ok), stale <= 3,
           pc \in Clicking
    PROVE  /\ page' \in Pages
           /\ stale' \in 0..4 /\ stale <= stale' /\ stale' <= stale + 1
           /\ blind' \subseteq 0..3
           /\ 0 \notin blind'
           /\ ok => stale' = stale + 1
           /\ stale' = 0 => page' = page /\ ~Restricted(page)
<1>1. page \in Pages /\ stale \in 0..3 /\ blind \subseteq 0..3 /\ 0 \notin blind
  BY DEF Inv, TypeOK, HardStop, Clicking
<1>2. stale = 0 => ~Restricted(page)
  BY DEF Inv, Guarded
<1>3. CASE ~ok /\ UNCHANGED <<page, stale, blind>>
  BY <1>1, <1>2, <1>3
<1>4. CASE /\ page' \in Pages
           /\ stale' = stale + 1
           /\ blind' = IF Restricted(page) THEN blind \cup {stale} ELSE blind
  BY <1>1, <1>2, <1>4
<1> QED BY <1>3, <1>4 DEF Click

\* Every step keeps the invariant.
LEMMA NextInv == Inv /\ [Next]_vars => Inv'
<1> SUFFICES ASSUME Inv, [Next]_vars PROVE Inv'
  OBVIOUS
<1> USE DEF Inv
<1>1. CASE Launch
  <2>1. TypeOK'
    BY <1>1 DEF Launch, TypeOK, Step, Status, Failure
  <2>2. Position' /\ HardStop' /\ Guarded'
    BY <1>1 DEF Launch, TypeOK, Position, HardStop, Guarded, Clicking, Failure
  <2>3. told' => status' \notin Regular
    BY <1>1 DEF Launch, Regular
  <2> QED BY <2>1, <2>2, <2>3
<1>2. CASE OpenFails
  BY <1>2, AbortStep DEF OpenFails, Blocked, Failure, TypeOK
<1>3. CASE OpenOffer
  <2>1. CASE Challenge(page')
    <3>1. PICK s \in Blocked : Abort(s)
      BY <1>3, <2>1 DEF OpenOffer
    <3>2. TypeOK'
      BY <1>3, <3>1 DEF OpenOffer, Abort, TypeOK, Step, Status
    <3>3. Position' /\ HardStop' /\ Guarded'
      BY <1>3, <3>1 DEF OpenOffer, Abort, Position, HardStop, Guarded, Clicking
    <3>4. status' \notin Regular
      BY <3>1 DEF Abort, Blocked, Regular
    <3> QED BY <3>2, <3>3, <3>4
  <2>2. CASE ~Challenge(page')
    <3>1. TypeOK'
      BY <1>3, <2>2 DEF OpenOffer, TypeOK, Step
    <3>2. Position' /\ HardStop' /\ Guarded'
      BY <1>3, <2>2 DEF OpenOffer, Position, HardStop, Guarded, Clicking
    <3> QED BY <1>3, <2>2, <3>1, <3>2 DEF OpenOffer
  <2> QED BY <2>1, <2>2
<1>4. CASE AcceptCookies
  <2>1. TypeOK'
    BY <1>4 DEF AcceptCookies, TypeOK, Step
  <2>2. Position' /\ HardStop' /\ Guarded'
    BY <1>4 DEF AcceptCookies, Position, HardStop, Guarded, Clicking
  <2> QED BY <1>4, <2>1, <2>2 DEF AcceptCookies
<1>5. CASE ReadOffer
  <2>1. prices' \in Amounts
    BY <1>5, BreakdownType, MergeFacts DEF ReadOffer, TypeOK, Amounts
  <2>2. TypeOK'
    BY <1>5, <2>1, PageType DEF ReadOffer, TripDetails, TypeOK, Step, Amounts
  <2>3. Position' /\ HardStop' /\ Guarded'
    BY <1>5 DEF ReadOffer, Position, HardStop, Guarded, Clicking
  <2> QED BY <1>5, <2>2, <2>3 DEF ReadOffer
<1>6. CASE Interrupt
  BY <1>6, AbortStep DEF Interrupt, Failure, TypeOK
<1>7. CASE Inspect
  <2>1. /\ page \in Pages /\ page' = page
        /\ kind' \in PageKind /\ stale' = 0
        /\ steps' \in 0..MaxSteps
        /\ UNCHANGED <<prices, seenSummary, blind>>
    BY <1>7, PageType, StepsAssumption
    DEF Inspect, StepsLeft, CountTurn, TypeOK
  <2>2. CASE GuardFails(page)
    <3>1. PICK s \in Blocked : Abort(s)
      BY <1>7, <2>2 DEF Inspect
    <3>2. TypeOK'
      BY <1>7, <2>1, <2>2, <3>1 DEF Inspect, Abort, TypeOK, Step, Status
    <3>3. Position' /\ HardStop' /\ Guarded'
      BY <2>1, <3>1 DEF Abort, Position, HardStop, Guarded, Clicking
    <3>4. status' \notin Regular
      BY <3>1 DEF Abort, Blocked, Regular
    <3> QED BY <3>2, <3>3, <3>4
  <2>3. CASE ~GuardFails(page) /\ "expired" \in page.notices
    <3>1. /\ status' = "SESSION_EXPIRED" /\ pc' = "after"
          /\ UNCHANGED <<trip, told>>
      BY <1>7, <2>3 DEF Inspect
    <3>2. TypeOK'
      BY <2>1, <3>1 DEF TypeOK, Step, Status
    <3>3. Position' /\ HardStop' /\ Guarded'
      BY <2>1, <2>3, <3>1
      DEF Position, HardStop, Guarded, Clicking, GuardFails, Challenge
    <3>4. status' \notin Regular
      BY <3>1 DEF Regular
    <3> QED BY <3>2, <3>3, <3>4
  <2>4. CASE /\ ~GuardFails(page) /\ "expired" \notin page.notices
             /\ "sold_out" \in page.notices
             /\ page.kind \in {"cabin", "availability"}
    <3>1. Abort("CABIN_SOLD_OUT") /\ told' = (told \/ "changed" \in page.notices)
      BY <1>7, <2>4 DEF Inspect
    <3>2. TypeOK'
      BY <2>1, <3>1 DEF Abort, TypeOK, Step, Status, SoldOut
    <3>3. Position' /\ HardStop' /\ Guarded'
      BY <2>1, <2>4, <3>1
      DEF Abort, Position, HardStop, Guarded, Clicking, GuardFails, Challenge
    <3>4. status' \notin Regular
      BY <3>1 DEF Abort, Regular
    <3> QED BY <3>2, <3>3, <3>4
  <2>5. CASE /\ ~GuardFails(page) /\ "expired" \notin page.notices
             /\ ~ /\ "sold_out" \in page.notices
                  /\ page.kind \in {"cabin", "availability"}
    <3>1. /\ told' = (told \/ "changed" \in page.notices)
          /\ status' = IF "changed" \in page.notices
                       THEN "PRICE_CHANGED_DURING_FLOW" ELSE status
          /\ pc' = IF HardStopAt(page.kind) THEN "after" ELSE BranchOf(page.kind)
          /\ UNCHANGED trip
      BY <1>7, <2>5 DEF Inspect
    <3>2. /\ pc' \in {"after", "summary", "booking", "preferred", "continue"}
          /\ pc' # "after" => page.kind \notin StopKind
      BY <3>1 DEF HardStopAt, BranchOf
    <3>3. TypeOK'
      BY <2>1, <3>1, <3>2 DEF TypeOK, Step, Status
    <3>4. Position' /\ HardStop' /\ Guarded'
      BY <2>1, <2>5, <3>1, <3>2
      DEF Position, HardStop, Guarded, Clicking, GuardFails, Challenge, Restricted
    <3>5. told' => status' \notin Regular
      BY <3>1 DEF Regular
    <3> QED BY <3>3, <3>4, <3>5
  <2> QED BY <2>2, <2>3, <2>4, <2>5
<1>8. CASE StepsUsed
  <2>1. TypeOK'
    BY <1>8 DEF StepsUsed, TypeOK, Step
  <2>2. Position' /\ HardStop' /\ Guarded'
    BY <1>8, StepsAssumption
    DEF StepsUsed, StepsLeft, TypeOK, Position, HardStop, Guarded, Clicking
  <2> QED BY <1>8, <2>1, <2>2 DEF StepsUsed
<1>9. CASE ReadSummary
  <2>1. prices' \in Amounts
    BY <1>9, BreakdownType, MergeFacts DEF ReadSummary, TypeOK, Amounts
  <2>2. trip' \in Tariff \cup {None}
    BY <1>9, PageType DEF ReadSummary, TripDetails, TypeOK, Fill
  <2>3. TypeOK'
    BY <1>9, <2>1, <2>2 DEF ReadSummary, TypeOK, Step, Amounts
  <2>4. Position' /\ HardStop' /\ Guarded'
    BY <1>9 DEF ReadSummary, Position, HardStop, Guarded, Clicking, Restricted
  <2> QED BY <1>9, <2>3, <2>4 DEF ReadSummary
<1>10. CASE StartBooking
  <2>1. PICK ok \in BOOLEAN :
            /\ Click(ok)
            /\ IF ok
               THEN /\ prices' = Merge(prices, Breakdown(page'))
                    /\ pc' = "loop"
               ELSE /\ pc' = "continue"
                    /\ UNCHANGED prices
    BY <1>10 DEF StartBooking
  <2>2. stale = 0 /\ pc \in Clicking
    BY <1>10 DEF StartBooking, Position, Clicking
  <2>3. /\ page' \in Pages
        /\ stale' \in 0..1
        /\ blind' \subseteq 0..3 /\ 0 \notin blind'
        /\ ok => stale' = 1
        /\ stale' = 0 => page' = page /\ ~Restricted(page)
    BY <2>1, <2>2, ClickStep DEF TypeOK
  <2>4. prices' \in Amounts
    <3>1. prices \in Amounts
      BY DEF TypeOK, Amounts
    <3>2. Breakdown(page') \in Amounts
      BY <2>3, BreakdownType
    <3> QED BY <2>1, <3>1, <3>2, MergeFacts
  <2>5. TypeOK'
    BY <1>10, <2>1, <2>3, <2>4 DEF StartBooking, TypeOK, Step, Amounts
  <2>6. Position' /\ HardStop' /\ Guarded'
    BY <2>1, <2>3 DEF Position, HardStop, Guarded, Clicking
  <2> QED BY <1>10, <2>5, <2>6 DEF StartBooking
<1>11. ASSUME NEW o \in Option, Choose(o) PROVE Inv'
  <2>1. PICK ok \in BOOLEAN, labelled \in BOOLEAN :
            /\ Click(ok)
            /\ pc' = IF ok /\ labelled THEN "chosen" ELSE NextOption(o)
    BY <1>11 DEF Choose
  <2>2. /\ pc \in Clicking
        /\ o = "preferred" => stale = 0
        /\ o = "option" => stale <= 1
        /\ stale <= 2
    BY <1>11 DEF Choose, Option, Position, Clicking, TypeOK
  <2>3. /\ page' \in Pages
        /\ stale' \in 0..3 /\ stale' <= stale + 1
        /\ blind' \subseteq 0..3 /\ 0 \notin blind'
        /\ ok => stale' > 0
        /\ stale' = 0 => page' = page /\ ~Restricted(page)
    BY <2>1, <2>2, ClickStep DEF TypeOK
  <2>4. /\ NextOption("preferred") = "option"
        /\ NextOption("option") = "button"
        /\ NextOption("button") = "unchosen"
    BY DEF NextOption
  <2>5. /\ pc' \in {"chosen", "option", "button", "unchosen"}
        /\ pc' = "chosen" => stale' > 0
        /\ pc' = "option" => stale' <= 1
        /\ pc' = "button" => stale' <= 2
    BY <2>1, <2>2, <2>3, <2>4 DEF Option, TypeOK
  <2>6. TypeOK'
    BY <1>11, <2>3, <2>5 DEF Choose, TypeOK, Step
  <2>7. Position' /\ HardStop' /\ Guarded'
    BY <2>3, <2>5 DEF Position, HardStop, Guarded, Clicking
  <2> QED BY <1>11, <2>6, <2>7 DEF Choose
<1>12. CASE AfterChoice
  <2>1. Merge(prices, Breakdown(page)) \in Amounts
    BY <1>12, BreakdownType, MergeFacts DEF AfterChoice, TypeOK, Amounts
  <2>2. prices' \in Amounts
    BY <1>12, <2>1 DEF AfterChoice, Amounts, Fill
  <2>3. TypeOK'
    BY <1>12, <2>2 DEF AfterChoice, TypeOK, Step, Amounts
  <2>4. Position' /\ HardStop' /\ Guarded'
    BY <1>12 DEF AfterChoice, TypeOK, Position, HardStop, Guarded, Clicking
  <2> QED BY <1>12, <2>3, <2>4 DEF AfterChoice
<1>13. CASE Continue
  <2>1. PICK ok \in BOOLEAN : Click(ok) /\ pc' = IF ok THEN "loop" ELSE "after"
    BY <1>13 DEF Continue
  <2>2. pc \in Clicking /\ stale <= 3
    BY <1>13 DEF Continue, Position, Clicking
  <2>3. /\ page' \in Pages
        /\ stale' \in 0..4
        /\ blind' \subseteq 0..3 /\ 0 \notin blind'
        /\ ok => stale' > 0
        /\ stale' = 0 => page' = page /\ ~Restricted(page)
    BY <2>1, <2>2, ClickStep DEF TypeOK
  <2>4. TypeOK'
    BY <1>13, <2>1, <2>3 DEF Continue, TypeOK, Step
  <2>5. Position' /\ HardStop' /\ Guarded'
    BY <2>1, <2>3 DEF Position, HardStop, Guarded, Clicking, Restricted
  <2> QED BY <1>13, <2>4, <2>5 DEF Continue
<1>14. CASE AfterLoop
  <2>1. prices' \in Amounts
    BY <1>14, BreakdownType, MergeFacts DEF AfterLoop, TypeOK, Amounts
  <2>2. trip' \in Tariff \cup {None}
    BY <1>14, PageType DEF AfterLoop, TripDetails, TypeOK, Fill
  <2>3. /\ status' \in Status
        /\ status # "OK" => status' = status
    BY <1>14 DEF AfterLoop, Verdict, TypeOK, Status, Regular
  <2>4. TypeOK'
    BY <1>14, <2>1, <2>2, <2>3 DEF AfterLoop, TypeOK, Step, Amounts
  <2>5. Position' /\ HardStop' /\ Guarded'
    BY <1>14 DEF AfterLoop, Position, HardStop, Guarded, Clicking
  <2>6. told' => status' \notin Regular
    BY <1>14, <2>3 DEF AfterLoop, Regular
  <2> QED BY <2>4, <2>5, <2>6
<1>15. CASE CloseSession
  <2>1. TypeOK'
    BY <1>15 DEF CloseSession, TypeOK, Step
  <2>2. Position' /\ HardStop' /\ Guarded'
    BY <1>15 DEF CloseSession, Position, HardStop, Guarded, Clicking
  <2> QED BY <1>15, <2>1, <2>2 DEF CloseSession
<1>16. CASE UNCHANGED vars
  <2>1. TypeOK'
    BY <1>16 DEF vars, TypeOK
  <2>2. Position' /\ HardStop' /\ Guarded'
    BY <1>16 DEF vars, Position, HardStop, Guarded
  <2> QED BY <1>16, <2>1, <2>2 DEF vars
<1> QED
  BY <1>1, <1>2, <1>3, <1>4, <1>5, <1>6, <1>7, <1>8, <1>9, <1>10, <1>11,
     <1>12, <1>13, <1>14, <1>15, <1>16 DEF Next
-----------------------------------------------------------------------------
\* The theorems

\* The invariant holds in every reachable state.
THEOREM Invariant == Spec => []Inv
  BY InitInv, NextInv, PTL DEF Spec

\* A flow takes at most MaxSteps turns of at most four clicks (adapter.py:567).
THEOREM TypeCorrect == Spec => []TypeOK
<1>1. Inv => TypeOK
  BY DEF Inv
<1> QED BY <1>1, Invariant, PTL

\* Nothing is clicked on a page for personal data or payment, or on a
\* challenge, that the flow has read (adapter.py:584).
THEOREM HardStopTheorem == Spec => []HardStop
<1>1. Inv => HardStop
  BY DEF Inv
<1> QED BY <1>1, Invariant, PTL

\* A challenge the flow has read is in its status (adapter.py:99).
THEOREM BlockReportedTheorem == Spec => []BlockReported
<1>1. Inv => BlockReported
  BY DEF Inv, Guarded, BlockReported
<1> QED BY <1>1, Invariant, PTL

\* An announced change of the price is in the status (adapter.py:578).
THEOREM ChangeReportedTheorem == Spec => []ChangeReported
<1>1. Inv => ChangeReported
  BY DEF Inv, ChangeReported
<1> QED BY <1>1, Invariant, PTL

\* What was read first stays; an abort keeps the prices and drops the trip
\* (base.py:97, base.py:127, adapter.py:708).
THEOREM FirstReadingTheorem == Spec => FirstReadingStays
<1> DEFINE Kept ==
        /\ \A f \in DOMAIN prices : prices[f] # None => prices'[f] = prices[f]
        /\ trip # None => \/ trip' = trip
                          \/ pc' = "close" /\ status' \notin Regular
<1>1. ASSUME Inv, [Next]_vars PROVE [Kept]_vars
  <2>1. prices \in Amounts /\ trip \in Tariff \cup {None}
    BY <1>1 DEF Inv, TypeOK, Amounts
  <2>2. ASSUME NEW s \in Status \ Regular, Abort(s), UNCHANGED prices
        PROVE  Kept
    BY <2>2 DEF Abort
  <2>3. ASSUME NEW new \in Amounts, prices' = Merge(prices, new),
               trip # None => trip' = trip
        PROVE  Kept
    BY <2>1, <2>3, MergeFacts
  <2>4. CASE Launch \/ AcceptCookies \/ StepsUsed \/ CloseSession \/ Continue
    BY <2>4 DEF Launch, AcceptCookies, StepsUsed, CloseSession, Continue
  <2>5. Blocked \cup Failure \cup {"CABIN_SOLD_OUT"} \subseteq Status \ Regular
    BY DEF Status, Blocked, Failure, SoldOut, Regular
  <2>6. CASE OpenFails
    <3>1. PICK s \in Blocked \cup Failure : Abort(s)
      BY <2>6 DEF OpenFails, Blocked, Failure
    <3> QED BY <2>2, <2>5, <2>6, <3>1 DEF OpenFails
  <2>7. CASE Interrupt
    <3>1. PICK s \in Failure : Abort(s)
      BY <2>7 DEF Interrupt, Failure
    <3> QED BY <2>2, <2>5, <2>7, <3>1 DEF Interrupt
  <2>8. CASE OpenOffer \/ Inspect
    <3>1. UNCHANGED prices
      BY <2>8 DEF OpenOffer, Inspect
    <3>2. CASE \E s \in Blocked \cup {"CABIN_SOLD_OUT"} : Abort(s)
      BY <2>2, <2>5, <3>1, <3>2
    <3>3. CASE UNCHANGED trip
      BY <3>1, <3>3
    <3> QED BY <2>8, <3>2, <3>3 DEF OpenOffer, Inspect
  <2>9. CASE ReadOffer
    <3>1. page \in Pages /\ trip = None
      BY <1>1, <2>9 DEF ReadOffer, Inv, TypeOK, Position
    <3> QED BY <2>3, <2>9, <3>1, BreakdownType DEF ReadOffer, TripDetails
  <2>10. CASE ReadSummary \/ AfterLoop
    <3>1. page \in Pages
      BY <1>1, <2>10 DEF ReadSummary, AfterLoop, Inv, TypeOK
    <3> QED BY <2>3, <2>10, <3>1, BreakdownType DEF ReadSummary, AfterLoop, Fill, TripDetails
  <2>11. CASE StartBooking
    <3>1. PICK ok \in BOOLEAN :
              /\ Click(ok)
              /\ IF ok THEN prices' = Merge(prices, Breakdown(page'))
                       ELSE UNCHANGED prices
      BY <2>11 DEF StartBooking
    <3>2. UNCHANGED trip
      BY <2>11 DEF StartBooking
    <3>3. ok => page' \in Pages
      BY <3>1 DEF Click
    <3> QED BY <2>3, <3>1, <3>2, <3>3, BreakdownType
  <2>12. ASSUME NEW o \in Option, Choose(o) PROVE Kept
    BY <2>12 DEF Choose
  <2>13. CASE AfterChoice
    <3>1. page \in Pages
      BY <1>1, <2>13 DEF AfterChoice, Inv, TypeOK
    <3>2. /\ Merge(prices, Breakdown(page)) \in Amounts
          /\ \A f \in DOMAIN prices : prices[f] # None =>
                 Merge(prices, Breakdown(page))[f] = prices[f]
      BY <2>1, <3>1, BreakdownType, MergeFacts
    <3>3. \A f \in DOMAIN prices : prices[f] # None => prices'[f] = prices[f]
      BY <2>1, <2>13, <3>2 DEF AfterChoice, Fill, Amounts
    <3> QED BY <2>13, <3>3 DEF AfterChoice
  <2> QED
    BY <1>1, <2>4, <2>6, <2>7, <2>8, <2>9, <2>10, <2>11, <2>12, <2>13 DEF Next
<1> QED BY <1>1, Invariant, PTL DEF Spec, FirstReadingStays

-----------------------------------------------------------------------------
\* Every step brings the flow nearer to its end

LEMMA Distances ==
    /\ Distance["launch"] = 12 /\ Distance["open"] = 11 /\ Distance["cookies"] = 10
    /\ Distance["start"] = 9 /\ Distance["summary"] = 8 /\ Distance["booking"] = 8
    /\ Distance["preferred"] = 8 /\ Distance["option"] = 7 /\ Distance["button"] = 6
    /\ Distance["chosen"] = 5 /\ Distance["unchosen"] = 5 /\ Distance["continue"] = 4
    /\ Distance["loop"] = 3 /\ Distance["after"] = 2 /\ Distance["close"] = 1
    /\ Distance["done"] = 0
BY DEF Distance

LEMMA DistanceBounds ==
    ASSUME NEW p \in Step
    PROVE  Distance[p] \in 0..12
BY Distances DEF Step

\* Within a turn the flow only moves on.
LEMMA Onwards ==
    ASSUME TypeOK, Next, ~Inspect
    PROVE  steps' = steps /\ Distance[pc'] < Distance[pc]
<1>1. CASE Launch \/ OpenFails \/ OpenOffer \/ AcceptCookies \/ ReadOffer
  BY <1>1, Distances DEF Launch, OpenFails, OpenOffer, AcceptCookies, ReadOffer, Abort
<1>2. CASE Interrupt
  <2>1. pc \in Step \ {"launch", "open", "close", "done"} /\ pc' = "close" /\ steps' = steps
    BY <1>2 DEF Interrupt, Abort, TypeOK
  <2> QED BY <2>1, Distances DEF Step
<1>3. CASE StepsUsed \/ ReadSummary \/ StartBooking \/ Continue \/ AfterLoop \/ CloseSession
  BY <1>3, Distances
     DEF StepsUsed, ReadSummary, StartBooking, Continue, AfterLoop, CloseSession
<1>4. CASE AfterChoice
  BY <1>4, Distances DEF AfterChoice
<1>5. ASSUME NEW o \in Option, Choose(o)
      PROVE  steps' = steps /\ Distance[pc'] < Distance[pc]
  <2>1. pc = o /\ pc' \in {"chosen", NextOption(o)} /\ steps' = steps
    BY <1>5 DEF Choose
  <2> QED BY <2>1, Distances DEF Option, NextOption
<1> QED BY <1>1, <1>2, <1>3, <1>4, <1>5 DEF Next

\* adapter.py:567 and max_steps_per_profile: every step of a flow lowers its
\* effort, which starts below 13 * (MaxSteps + 1) and is never negative.  So no
\* flow makes more steps than that, on any site.  (That a flow which has not
\* ended can go on is what Terminates adds.)
THEOREM EffortTheorem == Spec => EffortFalls /\ [](Effort \in 0 .. 13 * MaxSteps + 12)
<1>1. TypeOK => Effort \in 0 .. 13 * MaxSteps + 12
  <2> SUFFICES ASSUME TypeOK PROVE Effort \in 0 .. 13 * MaxSteps + 12
    OBVIOUS
  <2>1. Distance[pc] \in 0..12 /\ MaxSteps - steps \in 0..MaxSteps
    BY DistanceBounds, StepsAssumption DEF TypeOK
  <2> QED BY <2>1, StepsAssumption DEF Effort
<1>2. TypeOK /\ TypeOK' /\ [Next]_vars => [Effort' < Effort]_vars
  <2> SUFFICES ASSUME TypeOK, TypeOK', Next PROVE Effort' < Effort
    OBVIOUS
  <2>1. /\ steps \in Nat /\ steps' \in Nat /\ MaxSteps \in Nat
        /\ Distance[pc] \in 0..12 /\ Distance[pc'] \in 0..12
    BY DistanceBounds, StepsAssumption DEF TypeOK
  <2>2. CASE Inspect
    <3>1. steps' = steps + 1 /\ Distance[pc] = 3
      BY <2>2, Distances DEF Inspect, CountTurn
    <3> QED BY <2>1, <3>1 DEF Effort
  <2>3. CASE ~Inspect
    BY <2>1, <2>3, Onwards DEF Effort
  <2> QED BY <2>2, <2>3
<1>3. Spec => []TypeOK
  BY TypeCorrect
<1> QED BY <1>1, <1>2, <1>3, PTL DEF Spec, EffortFalls
=============================================================================
