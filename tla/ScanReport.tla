----------------------------- MODULE ScanReport -----------------------------
(***************************************************************************)
(* What a client that polls GET /scans/{id} sees of a scan from RUNNING to *)
(* its end: the results of a round come in one after the other and are     *)
(* final, a block may end the scan and then the rest of the round comes in *)
(* as SKIPPED in one piece, a round is counted when it is complete, and    *)
(* only a scan that stands between two rounds can be DONE.  Attempts,      *)
(* settings, pictures and verdicts are hidden; ScanRunner is shown to      *)
(* implement it.                                                           *)
(***************************************************************************)
EXTENDS Naturals

CONSTANTS
    NumTests,           \* tests per round
    FlowStatus,         \* the classes of a flow's result
    Price, NoPrice      \* the prices of a result, and none

VARIABLES
    report,             \* the results delivered so far
    roundsCompleted,    \* scans.rounds_completed
    status              \* scans.status

reportVars == <<report, roundsCompleted, status>>

Tests == 1 .. NumTests
Current == roundsCompleted + 1      \* the round under way

Entry(t, s, p) == [test |-> t, round |-> Current, status |-> s, price |-> p]
Entries(t) == {e \in report : e.test = t /\ e.round = Current}
Delivered(t) == Entries(t) # {}
Stopped == \E e \in report : e.status = "SKIPPED"

Init ==
    /\ report = {}
    /\ roundsCompleted = 0
    /\ status = "RUNNING"

\* run_single_test commits the result of the next test of the round.
Deliver(t, s, p) ==
    /\ status = "RUNNING"
    /\ ~Stopped
    /\ \A u \in Tests : Delivered(u) <=> u < t
    /\ report' = report \cup {Entry(t, s, p)}
    /\ UNCHANGED <<roundsCompleted, status>>

\* _mark_skipped: test t was answered with a block, and no other one is made.
GiveUp(t) ==
    /\ status = "RUNNING"
    /\ ~Stopped
    /\ \A u \in Tests : Delivered(u) <=> u <= t
    /\ \E e \in Entries(t) : e.status = "BLOCKED"
    /\ report' = report \cup {Entry(u, "SKIPPED", NoPrice) : u \in t + 1 .. NumTests}
    /\ UNCHANGED <<roundsCompleted, status>>

\* execute_scan counts the round: every test of it has a result.
CloseRound ==
    /\ status = "RUNNING"
    /\ \A t \in Tests : Delivered(t)
    /\ roundsCompleted' = Current
    /\ UNCHANGED <<report, status>>

\* The last commit of a scan.
Complete ==
    /\ status = "RUNNING"
    /\ roundsCompleted > 0
    /\ \A t \in Tests : ~Delivered(t)
    /\ status' = "DONE"
    /\ UNCHANGED <<report, roundsCompleted>>

\* The handler of execute_scan; it takes no result back.
Break ==
    /\ status = "RUNNING"
    /\ status' = "FAILED"
    /\ UNCHANGED <<report, roundsCompleted>>

Next ==
    \/ \E t \in Tests, s \in FlowStatus, p \in Price \cup {NoPrice} : Deliver(t, s, p)
    \/ \E t \in Tests : GiveUp(t)
    \/ CloseRound
    \/ Complete
    \/ Break

Spec == Init /\ [][Next]_reportVars
=============================================================================
