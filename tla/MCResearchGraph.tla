--------------------------- MODULE MCResearchGraph ---------------------------
(* Instances of ResearchGraph for TLC.  Version v1 is parsed to document dA  *)
(* or dB, version v2 to dC.  In dA the statement s occurs in two fields (a   *)
(* method's name and a component of it) and t only there; e1 is named by dA  *)
(* and dB, e2 by dB and dC.                                                  *)
EXTENDS ResearchGraph, TLC

CONSTANTS r1, r2, v1, v2, dA, dB, dC, s, t, e1, e2

Versions == [d \in {dA, dB, dC} |-> IF d = dC THEN v2 ELSE v1]
Statements == <<s, s, t>>
ClaimTable == [d \in {dA, dB, dC} |-> IF d = dA THEN {1, 2, 3} ELSE {1}]
EntityTable ==
  [d \in {dA, dB, dC} |-> CASE d = dA -> {e1} [] d = dB -> {e1, e2} [] d = dC -> {e2}]

RunSymmetry == Permutations({r1, r2})
=============================================================================
