---------------------------- MODULE MCScanQueue ----------------------------
(***************************************************************************)
(* Instances of ScanQueue for TLC: the model values the .cfg files build   *)
(* their sets of cruises and callers from.                                 *)
(***************************************************************************)
EXTENDS ScanQueue, TLC

CONSTANTS c1, c2, k1, k2

ASSUME DistinctValues == Cardinality({c1, c2}) = 2 /\ Cardinality({k1, k2}) = 2

\* Cruises and callers are interchangeable; used where no liveness is checked.
Symmetry == Permutations(Cruise) \cup Permutations(Caller)
============================================================================
