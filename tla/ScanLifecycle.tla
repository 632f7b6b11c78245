---------------------------- MODULE ScanLifecycle ----------------------------
(***************************************************************************)
(* What the scan pipeline of the price checker promises to its users (the  *)
(* REST API, the scheduler and the dashboard, which poll `scans.status'):  *)
(* a scan row is created QUEUED, it changes status only while a job for it *)
(* waits in or runs on the in-process queue, it only ever moves forward,   *)
(* and DONE and FAILED are final.  Threads, pools, locks, sessions and the *)
(* order of the commits are hidden; ScanQueue is shown to implement it.    *)
(***************************************************************************)

CONSTANT Scan           \* the identifiers of scan rows

VARIABLES
    status,             \* status[s]: the committed status of row s, or "none"
    active              \* the scans that have a job in the queue

lifecycleVars == <<status, active>>

ScanState == {"none", "QUEUED", "RUNNING", "DONE", "FAILED"}

Unfinished == {"QUEUED", "RUNNING"}

Init ==
    /\ status = [s \in Scan |-> "none"]
    /\ active = {}

\* create_scan commits a new row.
Create(s) ==
    /\ status[s] = "none"
    /\ status' = [status EXCEPT ![s] = "QUEUED"]
    /\ UNCHANGED active

\* ScanQueue.submit hands a job for the row to its pool.
Accept(s) ==
    /\ s \notin active
    /\ active' = active \cup {s}
    /\ UNCHANGED status

\* execute_scan reports the row as RUNNING.
Start(s) ==
    /\ s \in active
    /\ status[s] = "QUEUED"
    /\ status' = [status EXCEPT ![s] = "RUNNING"]
    /\ UNCHANGED active

\* execute_scan finished a RUNNING scan, well or badly.
Settle(s, outcome) ==
    /\ s \in active
    /\ status[s] = "RUNNING"
    /\ status' = [status EXCEPT ![s] = outcome]
    /\ UNCHANGED active

\* execute_scan refused a QUEUED scan (no valid test profile was selected).
Refuse(s) ==
    /\ s \in active
    /\ status[s] = "QUEUED"
    /\ status' = [status EXCEPT ![s] = "FAILED"]
    /\ UNCHANGED active

\* The job of the scan has ended.
Release(s) ==
    /\ s \in active
    /\ active' = active \ {s}
    /\ UNCHANGED status

\* The rows of a deleted cruise disappear together.
Remove(gone) ==
    /\ status' = [s \in Scan |-> IF s \in gone THEN "none" ELSE status[s]]
    /\ UNCHANGED active

\* The process died: all jobs are gone, the rows stay as they were.
Die ==
    /\ active' = {}
    /\ UNCHANGED status

Next ==
    \/ \E s \in Scan :
          \/ Create(s)
          \/ Accept(s)
          \/ Start(s)
          \/ Refuse(s)
          \/ \E outcome \in {"DONE", "FAILED"} : Settle(s, outcome)
          \/ Release(s)
    \/ \E gone \in SUBSET Scan : Remove(gone)
    \/ Die

Spec == Init /\ [][Next]_lifecycleVars
==============================================================================
