---------------------------- MODULE BookingFlow ----------------------------
(***************************************************************************)
(* One run of the MSC adapter (providers/msc/adapter.py, MscProvider):     *)
(* a browser session is opened, run_flow opens the offer, deals with the   *)
(* cookie banner and walks the booking funnel page by page until it has a  *)
(* price on the summary, reaches personal data or payment, finds nothing   *)
(* more to click, or has used its steps.                                   *)
(*                                                                         *)
(* The site is the environment: every click that reaches it may show any   *)
(* page.  A page is reduced to what the flow tells apart: the page type,   *)
(* the notices in its text, the prices and the tariff it shows.            *)
(*                                                                         *)
(* A click (_guarded_click) has three outcomes: nothing was clicked (no    *)
(* element, a forbidden label, an early failure); it was clicked and       *)
(* reported; or it reached the site and still raised, so that the flow     *)
(* believes nothing happened (a click that waits too long for the          *)
(* navigation it started).                                                 *)
(*                                                                         *)
(* The text of a page can always be read, and a page changes only when     *)
(* something on it is clicked.                                             *)
(***************************************************************************)
EXTENDS Naturals

CONSTANTS
    Price,       \* amounts a page can show
    Tariff,      \* tariff names a page can show
    None,        \* "not reliably detected"
    Pages,       \* the pages this site can show
    MaxSteps     \* settings.max_steps_per_profile

PageKind == {"offer", "availability", "cabin", "rate", "extras", "summary",
             "passenger_data", "payment"}
StopKind == {"passenger_data", "payment"}
Notice == {"challenge", "expired", "changed", "sold_out"}
PriceField == {"final", "total", "other"}

\* "other" stands for every price that is neither a total nor a final price.
Page == [kind: PageKind, notices: SUBSET Notice,
         shows: [PriceField -> Price \cup {None}], tariff: Tariff \cup {None}]

ASSUME PagesAssumption == Pages \subseteq Page /\ Pages # {}
ASSUME StepsAssumption == MaxSteps \in Nat
ASSUME NoneAssumption == None \notin Price \cup Tariff

Blocked == {"BLOCKED_CAPTCHA", "BOT_PROTECTION"}
Failure == {"TIMEOUT", "UNREACHABLE", "SITE_ERROR", "SELECTOR_CHANGED", "ERROR"}
SoldOut == {"SOLD_OUT", "CABIN_SOLD_OUT"}
Regular == {"OK", "PARTIAL", "PRICE_NOT_FOUND"}
Status == Blocked \cup Failure \cup SoldOut \cup Regular
              \cup {"SESSION_EXPIRED", "PRICE_CHANGED_DURING_FLOW"}

Option == {"preferred", "option", "button"}

VARIABLES
    pc,         \* where run_flow stands
    page,       \* the page the browser shows, None before the first
    kind,       \* ctx.page_type: the page type read last, None before
    stale,      \* clicks that reached the site since the page type was read
    steps,      \* turns of the loop
    prices,     \* the PriceBreakdown merged so far
    trip,       \* the TripDetails merged so far, reduced to the tariff
    seenSummary,
    status,     \* FlowResult.status
    \* for the properties only
    blind,      \* the values of stale at clicks on a page to be left alone
    told        \* the flow read past a notice that the price has changed

vars == <<pc, page, kind, stale, steps, prices, trip, seenSummary, status,
          blind, told>>

-----------------------------------------------------------------------------
\* Reading a page

Challenge(p) == "challenge" \in p.notices

\* Pages on which nothing may be clicked.
Restricted(p) == p.kind \in StopKind \/ Challenge(p)

Fill(known, new) == IF known = None THEN new ELSE known

\* Faulty variant: the last reading wins.
MergeLatest(known, new) == [f \in DOMAIN known |-> Fill(new[f], known[f])]

\* PriceBreakdown.merge and TripDetails.merge: blanks are filled, never more.
Merge(known, new) == [f \in DOMAIN known |-> Fill(known[f], new[f])]

NoPrices == [f \in PriceField \cup {"tariff"} |-> None]

\* extract_price, _breakdown_from_page
Breakdown(p) ==
    [f \in PriceField \cup {"tariff"} |->
        IF f = "tariff" THEN None ELSE p.shows[f]]

\* extract_trip_details; of the facts about the offer only the tariff is kept,
\* which the link does not name.
TripDetails(p) == p.tariff

\* extract_final_price: a total serves as the final price
FinalBreakdown(p) ==
    [Breakdown(p) EXCEPT !["final"] = Fill(p.shows["final"], p.shows["total"]),
                         !["tariff"] = p.tariff]

HasTotal(b) == b["final"] # None \/ b["total"] # None
HasAny(b) == \E f \in PriceField : b[f] # None

-----------------------------------------------------------------------------
Init ==
    /\ pc = "launch"
    /\ page = None
    /\ kind = None
    /\ stale = 0
    /\ steps = 0
    /\ prices = NoPrices
    /\ trip = None
    /\ seenSummary = FALSE
    /\ status = "OK"
    /\ blind = {}
    /\ told = FALSE

\* The except branches of run_flow: the prices stay, the trip details are lost
\* (result.trip is assigned after the loop only).
Abort(s) ==
    /\ status' = s
    /\ trip' = None
    /\ pc' = "close"

\* open_session; without a browser there is no flow
Launch ==
    /\ pc = "launch"
    /\ \/ /\ pc' = "open"
          /\ UNCHANGED status
       \/ /\ pc' = "done"
          /\ status' = "ERROR"
    /\ UNCHANGED <<page, kind, stale, steps, prices, trip, seenSummary, blind,
                   told>>

\* open_offer up to the HTTP status
OpenFails ==
    /\ pc = "open"
    /\ \E s \in {"TIMEOUT", "UNREACHABLE", "SITE_ERROR", "BOT_PROTECTION",
                  "ERROR"} : Abort(s)
    /\ UNCHANGED <<page, kind, stale, steps, prices, seenSummary, blind, told>>

\* open_offer with its _guard_page
OpenOffer ==
    /\ pc = "open"
    /\ page' \in Pages
    /\ IF Challenge(page')
       THEN \E s \in Blocked : Abort(s)
       ELSE /\ pc' = "cookies"
            /\ UNCHANGED <<status, trip>>
    /\ UNCHANGED <<kind, stale, steps, prices, seenSummary, blind, told>>

\* accept_cookies: no banner, a banner left alone, or up to two clicks on it;
\* a click may reload the offer
AcceptCookies ==
    /\ pc = "cookies"
    /\ page' \in Pages \cup {page}
    /\ pc' = "start"
    /\ UNCHANGED <<kind, stale, steps, prices, trip, seenSummary, status,
                   blind, told>>

\* the first detect_page_type, extract_trip_details and extract_price
ReadOffer ==
    /\ pc = "start"
    /\ kind' = page.kind
    /\ trip' = TripDetails(page)
    /\ prices' = Merge(prices, Breakdown(page))
    /\ pc' = "loop"
    /\ UNCHANGED <<page, stale, steps, seenSummary, status, blind, told>>

\* any exception that nothing on the way handles
Interrupt ==
    /\ pc \notin {"launch", "open", "close", "done"}
    /\ \E s \in {"TIMEOUT", "ERROR", "SELECTOR_CHANGED"} : Abort(s)
    /\ UNCHANGED <<page, kind, stale, steps, prices, seenSummary, blind, told>>

-----------------------------------------------------------------------------
\* The loop

\* What the loop does with a page it may work on.
BranchOf(k) ==
    CASE k = "summary" -> "summary"
      [] k \in {"offer", "availability"} -> "booking"
      [] k \in {"cabin", "rate"} -> "preferred"
      [] OTHER -> "continue"

\* Faulty variant: one turn too many.
StepsLeftInclusive == steps <= MaxSteps

StepsLeft == steps < MaxSteps

\* Faulty variant: a turn is not counted.
CountTurnNever == UNCHANGED steps

CountTurn == steps' = steps + 1

\* Faulty variant: only payment is a hard stop.
HardStopAtPayment(k) == k = "payment"

HardStopAt(k) == k \in {"payment", "passenger_data"}

\* Faulty variant: a hard stop is not guarded.
GuardFailsBeforeStop(p) == Challenge(p) /\ p.kind \notin StopKind

\* _guard_page raises
GuardFails(p) == Challenge(p)

\* The head of the loop: page type, _guard_page, notices, hard stop.
\* select_cabin looks for "sold out" once more, in the same text.
Inspect ==
    /\ pc = "loop"
    /\ StepsLeft
    /\ CountTurn
    /\ kind' = page.kind
    /\ stale' = 0
    /\ IF GuardFails(page)
       THEN /\ \E s \in Blocked : Abort(s)
            /\ UNCHANGED told
       ELSE IF "expired" \in page.notices
       THEN /\ status' = "SESSION_EXPIRED"
            /\ pc' = "after"
            /\ UNCHANGED <<trip, told>>
       ELSE /\ told' = (told \/ "changed" \in page.notices)
            /\ IF /\ "sold_out" \in page.notices
                  /\ page.kind \in {"cabin", "availability"}
               THEN Abort("CABIN_SOLD_OUT")
               ELSE /\ status' = IF "changed" \in page.notices
                                 THEN "PRICE_CHANGED_DURING_FLOW" ELSE status
                    /\ pc' = IF HardStopAt(page.kind) THEN "after"
                             ELSE BranchOf(page.kind)
                    /\ UNCHANGED trip
    /\ UNCHANGED <<page, prices, seenSummary, blind>>

\* the loop condition
StepsUsed ==
    /\ pc = "loop"
    /\ ~StepsLeft
    /\ pc' = "after"
    /\ UNCHANGED <<page, kind, stale, steps, prices, trip, seenSummary, status,
                   blind, told>>

\* A summary without any total is left by its continue button.
ReadSummary ==
    /\ pc = "summary"
    /\ prices' = Merge(prices, FinalBreakdown(page))
    /\ trip' = Fill(trip, TripDetails(page))
    /\ seenSummary' = TRUE
    /\ pc' = IF HasTotal(prices') THEN "after" ELSE "continue"
    /\ UNCHANGED <<page, kind, stale, steps, status, blind, told>>

\* _guarded_click; ok is what it returns
Click(ok) ==
    \/ /\ ~ok
       /\ UNCHANGED <<page, stale, blind>>
    \/ /\ page' \in Pages
       /\ stale' = stale + 1
       /\ blind' = IF Restricted(page) THEN blind \cup {stale} ELSE blind

StartBooking ==
    /\ pc = "booking"
    /\ \E ok \in BOOLEAN :
           /\ Click(ok)
           /\ IF ok
              THEN /\ prices' = Merge(prices, Breakdown(page'))
                   /\ pc' = "loop"
              ELSE /\ pc' = "continue"
                   /\ UNCHANGED prices
    /\ UNCHANGED <<kind, steps, trip, seenSummary, status, told>>

NextOption(o) == CASE o = "preferred" -> "option"
                   [] o = "option" -> "button"
                   [] o = "button" -> "unchosen"

\* select_cabin and select_rate: three ways to choose.  The label of an option
\* is read before its click and that of a button after it, and may be missing;
\* a choice without a label counts as no choice.
Choose(o) ==
    /\ pc = o
    /\ \E ok, labelled \in BOOLEAN :
           /\ o = "preferred" => labelled
           /\ Click(ok)
           /\ pc' = IF ok /\ labelled THEN "chosen" ELSE NextOption(o)
    /\ UNCHANGED <<kind, steps, prices, trip, seenSummary, status, told>>

\* The rest of the cabin and rate branches, on the page the browser shows now;
\* the label of a chosen rate names the tariff unless one is known.
AfterChoice ==
    /\ pc \in {"chosen", "unchosen"}
    /\ LET read == Merge(prices, Breakdown(page))
       IN IF pc = "chosen" /\ kind = "rate"
          THEN \E label \in Tariff :
                   prices' = [read EXCEPT !["tariff"] = Fill(@, label)]
          ELSE prices' = read
    /\ pc' = IF pc = "chosen" THEN "loop" ELSE "continue"
    /\ UNCHANGED <<page, kind, stale, steps, trip, seenSummary, status, blind,
                   told>>

\* CONTINUE_BUTTONS; the loop ends when there is none
Continue ==
    /\ pc = "continue"
    /\ \E ok \in BOOLEAN :
           /\ Click(ok)
           /\ pc' = IF ok THEN "loop" ELSE "after"
    /\ UNCHANGED <<kind, steps, prices, trip, seenSummary, status, told>>

-----------------------------------------------------------------------------
\* The end

\* Faulty variant: the verdict forgets a status set in the loop.
VerdictAnew(read) ==
    IF HasTotal(read) THEN (IF seenSummary THEN "OK" ELSE "PARTIAL")
    ELSE IF HasAny(read) THEN "PARTIAL" ELSE "PRICE_NOT_FOUND"

Verdict(read) ==
    IF status # "OK" THEN status
    ELSE IF HasTotal(read) THEN (IF seenSummary THEN "OK" ELSE "PARTIAL")
    ELSE IF HasAny(read) THEN "PARTIAL" ELSE "PRICE_NOT_FOUND"

\* After the loop: last reading and verdict.
AfterLoop ==
    /\ pc = "after"
    /\ prices' = Merge(prices, Breakdown(page))
    /\ trip' = Fill(trip, TripDetails(page))
    /\ status' = Verdict(prices')
    /\ pc' = "close"
    /\ UNCHANGED <<page, kind, stale, steps, seenSummary, blind, told>>

\* the finally branch of open_session: context and browser are closed
CloseSession ==
    /\ pc = "close"
    /\ pc' = "done"
    /\ UNCHANGED <<page, kind, stale, steps, prices, trip, seenSummary, status,
                   blind, told>>

Next ==
    \/ Launch
    \/ OpenFails
    \/ OpenOffer
    \/ AcceptCookies
    \/ ReadOffer
    \/ Interrupt
    \/ Inspect
    \/ StepsUsed
    \/ ReadSummary
    \/ StartBooking
    \/ \E o \in Option : Choose(o)
    \/ AfterChoice
    \/ Continue
    \/ AfterLoop
    \/ CloseSession

\* Every wait of the adapter has a timeout, so a flow that can go on does.
Fairness == WF_vars(Next)

Spec == Init /\ [][Next]_vars
FairSpec == Spec /\ Fairness

-----------------------------------------------------------------------------
\* Properties

Step == {"launch", "open", "cookies", "start", "loop", "summary", "booking",
         "preferred", "option", "button", "chosen", "unchosen", "continue",
         "after", "close", "done"}

\* The types, and two bounds of the loop of run_flow: no more turns than
\* max_steps_per_profile, and at most four clicks in one of them.
TypeOK ==
    /\ pc \in Step
    /\ page \in Pages \cup {None}
    /\ pc \notin {"launch", "open", "close", "done"} => page \in Pages
    /\ kind \in PageKind \cup {None}
    /\ stale \in 0..4
    /\ steps \in 0..MaxSteps
    /\ prices \in [PriceField \cup {"tariff"} -> Price \cup Tariff \cup {None}]
    /\ trip \in Tariff \cup {None}
    /\ seenSummary \in BOOLEAN
    /\ status \in Status
    /\ blind \subseteq 0..3
    /\ told \in BOOLEAN

\* adapter.py:584, "Hard stop: never enter personal data or payment steps", as
\* far as the code keeps it: nothing is clicked on a page for personal data or
\* payment, or on a challenge, that the flow has read; a click reaches such a
\* page only after another one of the same turn brought it up unnoticed.
HardStop == 0 \notin blind

\* adapter.py:99 (_guard_page): a flow that leaves a challenge on the screen
\* and does not report it has not read that page: it came with a click that
\* went unnoticed, or after the last turn.
BlockReported ==
    (pc = "done" /\ page # None /\ steps > 0 /\ stale = 0 /\ Challenge(page))
        => status \in Blocked \cup Failure

\* adapter.py:578: once the site has announced a changed price, the flow does
\* not end as one with an ordinary price, whatever it reads later.
ChangeReported == told /\ pc = "done" => status \notin Regular

\* base.py:97 and base.py:127 (merge): later pages fill blanks and replace
\* nothing, so the price of an early page outlives that of the summary; an
\* aborted flow keeps its prices and loses what identifies the offer.
FirstReadingStays ==
    [][/\ \A f \in DOMAIN prices : prices[f] # None => prices'[f] = prices[f]
       /\ trip # None => \/ trip' = trip
                         \/ pc' = "close" /\ status' \notin Regular]_vars

\* What is left to do: the turns, and within a turn the way to its end.  Every
\* step of the flow lowers this number, so that there is no way to go on without
\* end, whatever the site answers.
Distance ==
    [launch |-> 12, open |-> 11, cookies |-> 10, start |-> 9, summary |-> 8,
     booking |-> 8, preferred |-> 8, option |-> 7, button |-> 6, chosen |-> 5,
     unchosen |-> 5, continue |-> 4, loop |-> 3, after |-> 2, close |-> 1,
     done |-> 0]
Effort == 13 * (MaxSteps - steps) + Distance[pc]
EffortFalls == [][Effort' < Effort]_vars

\* adapter.py:567: every flow ends, whatever the site answers.
Terminates == <>(pc = "done")
=============================================================================
