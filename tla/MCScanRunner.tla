---------------------------- MODULE MCScanRunner ----------------------------
(***************************************************************************)
(* Instances of ScanRunner for TLC: a matrix of one profile with two       *)
(* referrers (or two cookie modes), and the settings around their limits.  *)
(***************************************************************************)
EXTENDS ScanRunner

OneProfile == [t \in Test |-> "clean_win_chrome"]

\* A flow that fails or is blocked late keeps the price it has read by then; no
\* picture is taken when the page never came up.
RoundOutcomes ==
    {[flow |-> [status |-> "OK", price |-> p], picture |-> TRUE] : p \in Price \cup {NoPrice}}
    \cup {[flow |-> [status |-> s, price |-> p], picture |-> p # NoPrice] :
              s \in {"TIMEOUT", "BLOCKED"}, p \in {NoPrice, 1}}

EvidenceOutcomes == {[flow |-> [status |-> "OK", price |-> p], picture |-> TRUE] : p \in Price}

AllSettings == [abortAfter : 0 .. 2, maxRetries : 0 .. 2, rounds : 1 .. 2]
DefaultSettings == [abortAfter : {1}, maxRetries : {2}, rounds : {1}]
=============================================================================
