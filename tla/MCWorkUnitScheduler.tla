------------------------ MODULE MCWorkUnitScheduler ------------------------
(* Instances of WorkUnitScheduler for TLC: dependency graphs and bounds.    *)
EXTENDS WorkUnitScheduler

(* The planner's shape, two analyses and a verifier behind both, next to    *)
(* what the scheduler guards against: 4 has a dependency nobody planned, 5  *)
(* and 6 form a cycle.                                                      *)
MixedDeps == <<{}, {}, {1, 2}, {9}, {6}, {5}>>

=============================================================================
