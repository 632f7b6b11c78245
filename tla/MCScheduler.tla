---------------------------- MODULE MCScheduler ----------------------------
\* Scheduler with two intervals.
EXTENDS Scheduler

MCLength == [i \in {"6h", "daily"} |-> IF i = "6h" THEN 1 ELSE 2]
=============================================================================
