-------------------------- MODULE WorkUnitOutcomes --------------------------
(***************************************************************************)
(* What Scheduler.run promises about the WorkUnits of one ResearchTask,    *)
(* whatever happens to the processes that run them: each unit is launched  *)
(* a bounded number of times, never before its dependencies completed, and *)
(* settles once and for all as completed, failed or skipped.               *)
(***************************************************************************)
EXTENDS Naturals

CONSTANTS UnitCount, DependsOn, MaxAttempts

Unit == 1 .. UnitCount

VARIABLES
  outcome,    \* "open", or the outcome the unit settled with
  launched    \* times the runner was called on the unit

Outcome == {"open", "completed", "failed", "skipped"}

Init ==
  /\ outcome = [u \in Unit |-> "open"]
  /\ launched = [u \in Unit |-> 0]

DependsOnCycle(u) ==
  \E S \in SUBSET Unit : u \in S /\ \A v \in S : DependsOn[v] \cap S # {}

CannotRun(u) ==
  \/ \E d \in DependsOn[u] : d \notin Unit \/ outcome[d] \in {"failed", "skipped"}
  \/ DependsOnCycle(u)

Launch(u) ==
  /\ outcome[u] = "open"
  /\ launched[u] < MaxAttempts
  /\ \A d \in DependsOn[u] : d \in Unit /\ outcome[d] = "completed"
  /\ launched' = [launched EXCEPT ![u] = @ + 1]
  /\ UNCHANGED outcome

Settle(u, result) ==
  /\ outcome[u] = "open"
  /\ outcome' = [outcome EXCEPT ![u] = result]
  /\ UNCHANGED launched

Complete(u) == launched[u] > 0 /\ Settle(u, "completed")
Fail(u) == launched[u] = MaxAttempts /\ Settle(u, "failed")
Skip(u) == launched[u] = 0 /\ CannotRun(u) /\ Settle(u, "skipped")

Next == \E u \in Unit : Launch(u) \/ Complete(u) \/ Fail(u) \/ Skip(u)

Spec == Init /\ [][Next]_<<outcome, launched>>
=============================================================================
