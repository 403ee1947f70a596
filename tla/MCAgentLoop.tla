----------------------------- MODULE MCAgentLoop ------------------------------
(* Instances of AgentLoop for TLC.                                           *)
EXTENDS AgentLoop

CONSTANTS r1, r2

OneRun  == {r1}
TwoRuns == {r1, r2}

=============================================================================
