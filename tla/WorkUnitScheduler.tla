------------------------- MODULE WorkUnitScheduler -------------------------
(***************************************************************************)
(* Delegated research work: ResearchTaskService.delegate creates or reuses *)
(* a ResearchTask, plans its WorkUnits, stores them, and hands them to     *)
(* Scheduler.run, which executes them layer by layer on a thread pool and  *)
(* records every outcome in the research_tasks and work_units tables.      *)
(*                                                                         *)
(* The tables survive a crash; everything a delegation holds in memory     *)
(* (its copy of the task and units, its worker threads) does not.  Several *)
(* delegations of the same request share the tables, because the task and  *)
(* the units are found again by their generation keys.                     *)
(*                                                                         *)
(* Every repository call is one transaction, hence one action.             *)
(***************************************************************************)
EXTENDS Integers, FiniteSets

CONSTANTS
  UnitCount,      \* number of WorkUnits the planner emits for the task
  DependsOn,      \* dependency_ids of each unit; an id outside Unit is missing
  MaxAttempts,    \* Scheduler.max_attempts
  MaxWorkers,     \* min(Scheduler.max_workers, TaskBudget.max_workers)
  Runs,           \* delegations of this task that may be in flight at once
  MaxDelegations  \* model bound: how often delegate may be called in all

Unit == 1 .. UnitCount          \* in the order of the planner's tuple

ASSUME UnitCountAssumption == UnitCount \in Nat \ {0}
ASSUME DependsOnAssumption == DependsOn \in [Unit -> SUBSET Nat]
ASSUME MaxAttemptsAssumption == MaxAttempts \in Nat
ASSUME MaxWorkersAssumption == MaxWorkers \in Nat \ {0}
ASSUME MaxDelegationsAssumption == MaxDelegations \in Nat

VARIABLES
  taskRow,      \* status column of the research_tasks row
  unitRow,      \* work_units rows
  pc,           \* where each delegation is
  task,         \* its in-memory ResearchTask.status
  units,        \* its in-memory WorkUnit objects
  updated,      \* units whose outcome it knows (dict `updated`)
  todo,         \* units still to visit in the loop it is executing
  layer,        \* runnable_layer of the current pass
  progressed,   \* a unit was skipped in the current pass
  worker,       \* pool thread of each unit of the layer
  attempts,     \* attempts made by _run_with_retry for that unit
  launched,     \* history: attempts ever begun on a unit, by any delegation
  call,         \* history: which of them a pool thread is waiting for
  delegations   \* calls of delegate so far, for the model bound

dbVars  == <<taskRow, unitRow>>
runVars == <<task, units, updated, todo, layer, progressed>>
poolVars == <<worker, attempts, call>>
vars == <<taskRow, unitRow, pc, task, units, updated, todo, layer,
          progressed, worker, attempts, launched, call, delegations>>

-----------------------------------------------------------------------------

TaskStatus == {"absent", "created", "running", "completed",
               "partially_completed", "failed"}
UnitStatus == {"absent", "pending", "running", "completed", "failed", "skipped"}
Terminal   == {"completed", "failed", "skipped"}
Error      == {"none", "dependency", "cycle", "worker", "exhausted"}

(* An Artifact is named by the unit and the attempt that produced it; 0 is  *)
(* a NULL output_artifact_id.                                               *)
Artifact == Unit \X Nat

WorkUnit == [status : UnitStatus, attempt_count : Nat, output : Nat,
             error : Error, inputs : SUBSET Artifact]

NoRow == [status |-> "absent", attempt_count |-> 0, output |-> 0,
          error |-> "none", inputs |-> {}]
PlannedUnit == [NoRow EXCEPT !.status = "pending"]

(* What update_work_unit leaves in the columns it is given. *)
Skipped(w, why) == [w EXCEPT !.status = "skipped", !.error = why]
WithInputs(w, artifacts) == [w EXCEPT !.inputs = artifacts]
Attempting(w, n) == [w EXCEPT !.status = "running", !.attempt_count = n]
(* Faulty variant: an earlier attempt's error survives success. *)
SucceededKeepingError(w, n, artifact) ==
  [w EXCEPT !.status = "completed", !.attempt_count = n, !.output = artifact]
Succeeded(w, n, artifact) ==
  [w EXCEPT !.status = "completed", !.attempt_count = n, !.output = artifact,
            !.error = "none"]
WithError(w, why) == [w EXCEPT !.error = why]
Failed(w, n, why) ==
  [w EXCEPT !.status = "failed", !.attempt_count = n, !.error = why]

PC == {"idle", "create", "plan", "scan", "cycle", "layer", "finalize"}
WorkerState == {"none", "queued", "ready", "calling", "done", "raised"}

TypeOK ==
  /\ taskRow \in TaskStatus
  /\ unitRow \in [Unit -> WorkUnit]
  /\ pc \in [Runs -> PC]
  /\ task \in [Runs -> TaskStatus]
  /\ units \in [Runs -> [Unit -> WorkUnit]]
  /\ updated \in [Runs -> SUBSET Unit]
  /\ todo \in [Runs -> SUBSET Unit]
  /\ layer \in [Runs -> SUBSET Unit]
  /\ progressed \in [Runs -> BOOLEAN]
  /\ worker \in [Runs -> [Unit -> WorkerState]]
  /\ attempts \in [Runs -> [Unit -> Nat]]
  /\ launched \in [Unit -> Nat]
  /\ call \in [Runs -> [Unit -> Nat]]
  /\ delegations \in Nat

Init ==
  /\ taskRow = "absent"
  /\ unitRow = [u \in Unit |-> NoRow]
  /\ pc = [r \in Runs |-> "idle"]
  /\ task = [r \in Runs |-> "absent"]
  /\ units = [r \in Runs |-> [u \in Unit |-> NoRow]]
  /\ updated = [r \in Runs |-> {}]
  /\ todo = [r \in Runs |-> {}]
  /\ layer = [r \in Runs |-> {}]
  /\ progressed = [r \in Runs |-> FALSE]
  /\ worker = [r \in Runs |-> [u \in Unit |-> "none"]]
  /\ attempts = [r \in Runs |-> [u \in Unit |-> 0]]
  /\ launched = [u \in Unit |-> 0]
  /\ call = [r \in Runs |-> [u \in Unit |-> 0]]
  /\ delegations = 0

-----------------------------------------------------------------------------
(* ResearchTaskService.delegate: find or create the task, store the plan.   *)

(* The memory of a delegation that is over, or died. *)
Forget(r) ==
  /\ pc' = [pc EXCEPT ![r] = "idle"]
  /\ task' = [task EXCEPT ![r] = "absent"]
  /\ units' = [units EXCEPT ![r] = [u \in Unit |-> NoRow]]
  /\ updated' = [updated EXCEPT ![r] = {}]
  /\ todo' = [todo EXCEPT ![r] = {}]
  /\ layer' = [layer EXCEPT ![r] = {}]
  /\ progressed' = [progressed EXCEPT ![r] = FALSE]
  /\ worker' = [worker EXCEPT ![r] = [u \in Unit |-> "none"]]
  /\ attempts' = [attempts EXCEPT ![r] = [u \in Unit |-> 0]]
  /\ call' = [call EXCEPT ![r] = [u \in Unit |-> 0]]

(* find_task_by_generation_key *)
Delegate(r) ==
  /\ pc[r] = "idle"
  /\ delegations < MaxDelegations
  /\ delegations' = delegations + 1
  /\ task' = [task EXCEPT ![r] = taskRow]
  /\ todo' = [todo EXCEPT ![r] = Unit]
  /\ pc' = [pc EXCEPT ![r] = IF taskRow = "absent" THEN "create" ELSE "plan"]
  /\ UNCHANGED <<dbVars, units, updated, layer, progressed, poolVars, launched>>

(* save_task of a task with a fresh id: the insert does nothing when another *)
(* delegation won the generation key, and the winner's row is returned.      *)
CreateTask(r) ==
  /\ pc[r] = "create"
  /\ taskRow' = IF taskRow = "absent" THEN "created" ELSE taskRow
  /\ task' = [task EXCEPT ![r] = taskRow']
  /\ pc' = [pc EXCEPT ![r] = "plan"]
  /\ UNCHANGED <<unitRow, units, updated, todo, layer, progressed, poolVars,
                 launched, delegations>>

(* The loop of delegation r visits its units in plan order; u is next. *)
Visits(r, u) == u \in todo[r] /\ \A v \in todo[r] : u <= v

(* save_work_unit: an existing row is returned as it is. *)
SaveWorkUnit(r, u) ==
  /\ pc[r] = "plan"
  /\ Visits(r, u)
  /\ unitRow' = [unitRow EXCEPT ![u] =
                   IF @.status = "absent" THEN PlannedUnit ELSE @]
  /\ units' = [units EXCEPT ![r][u] = unitRow'[u]]
  /\ todo' = [todo EXCEPT ![r] = @ \ {u}]
  /\ UNCHANGED <<taskRow, pc, task, updated, layer, progressed, poolVars,
                 launched, delegations>>

-----------------------------------------------------------------------------
(* Scheduler.run: passes over the remaining units.                          *)

Remaining(known) == Unit \ known

(* `while remaining`: another pass, or _finalize_task. *)
NextPass(r, known) ==
  /\ updated' = [updated EXCEPT ![r] = known]
  /\ todo' = [todo EXCEPT ![r] = Remaining(known)]
  /\ pc' = [pc EXCEPT ![r] = IF Remaining(known) = {} THEN "finalize" ELSE "scan"]
  /\ progressed' = [progressed EXCEPT ![r] = FALSE]
  /\ layer' = [layer EXCEPT ![r] = {}]

StartRun(r) ==
  /\ pc[r] = "plan"
  /\ todo[r] = {}
  /\ IF task[r] = "created"
       THEN taskRow' = "running" /\ task' = [task EXCEPT ![r] = "running"]
       ELSE UNCHANGED <<taskRow, task>>
  /\ NextPass(r, {u \in Unit : units[r][u].status = "completed"})
  /\ UNCHANGED <<unitRow, units, poolVars, launched, delegations>>

(* Faulty variant: a dependency already in the layer counts as completed. *)
CompletedOrSubmitted(r) == updated[r] \cup layer[r]
Completed(r) == {u \in updated[r] : units[r][u].status = "completed"}

BlockedForGood(r, u) ==
  \E d \in DependsOn[u] :
    \/ d \notin Unit
    \/ d \in updated[r] /\ units[r][d].status \in {"failed", "skipped"}

(* The SKIPPED outcome of a unit, in memory and in its row. *)
Skip(r, u, why) ==
  /\ unitRow' = [unitRow EXCEPT ![u] = Skipped(@, why)]
  /\ units' = [units EXCEPT ![r][u] = Skipped(@, why)]
  /\ updated' = [updated EXCEPT ![r] = @ \cup {u}]
  /\ todo' = [todo EXCEPT ![r] = @ \ {u}]

SkipUnit(r, u) ==
  /\ pc[r] = "scan"
  /\ Visits(r, u)
  /\ BlockedForGood(r, u)
  /\ Skip(r, u, "dependency")
  /\ progressed' = [progressed EXCEPT ![r] = TRUE]
  /\ UNCHANGED <<taskRow, pc, task, layer, poolVars, launched, delegations>>

(* The artifacts of u's dependencies, as this delegation knows them. *)
DependencyArtifacts(r, u) ==
  {<<d, units[r][d].output>> : d \in {e \in DependsOn[u] : units[r][e].output # 0}}

AdmitUnit(r, u) ==
  /\ pc[r] = "scan"
  /\ Visits(r, u)
  /\ ~ BlockedForGood(r, u)
  /\ DependsOn[u] \subseteq Completed(r)
  /\ LET inputs == units[r][u].inputs \cup DependencyArtifacts(r, u)
     IN  /\ units' = [units EXCEPT ![r][u] = WithInputs(@, inputs)]
         /\ unitRow' = IF inputs # units[r][u].inputs
                         THEN [unitRow EXCEPT ![u] = WithInputs(@, inputs)]
                         ELSE unitRow
  /\ layer' = [layer EXCEPT ![r] = @ \cup {u}]
  /\ todo' = [todo EXCEPT ![r] = @ \ {u}]
  /\ UNCHANGED <<taskRow, pc, task, updated, progressed, poolVars, launched,
                 delegations>>

DeferUnit(r, u) ==
  /\ pc[r] = "scan"
  /\ Visits(r, u)
  /\ ~ BlockedForGood(r, u)
  /\ ~ DependsOn[u] \subseteq Completed(r)
  /\ todo' = [todo EXCEPT ![r] = @ \ {u}]
  /\ UNCHANGED <<dbVars, pc, task, units, updated, layer, progressed, poolVars,
                 launched, delegations>>

EndPass(r) == pc[r] = "scan" /\ todo[r] = {}

(* The runnable layer is submitted to a fresh ThreadPoolExecutor. *)
SubmitLayer(r) ==
  /\ EndPass(r)
  /\ layer[r] # {}
  /\ pc' = [pc EXCEPT ![r] = "layer"]
  /\ worker' = [worker EXCEPT ![r] =
                  [u \in Unit |-> IF u \in layer[r] THEN "queued" ELSE "none"]]
  /\ attempts' = [attempts EXCEPT ![r] = [u \in Unit |-> 0]]
  /\ UNCHANGED <<dbVars, runVars, call, launched, delegations>>

(* Nothing ran, but some unit was skipped: look again. *)
RepeatPass(r) ==
  /\ EndPass(r)
  /\ layer[r] = {}
  /\ progressed[r]
  /\ NextPass(r, updated[r])
  /\ UNCHANGED <<dbVars, task, units, poolVars, launched, delegations>>

(* Faulty variant: whatever a pass leaves over is taken for a cycle. *)
DetectCycleTooSoon(r) ==
  /\ EndPass(r)
  /\ pc' = [pc EXCEPT ![r] = "cycle"]
  /\ todo' = [todo EXCEPT ![r] = Remaining(updated[r])]
  /\ UNCHANGED <<dbVars, task, units, updated, layer, progressed, poolVars,
                 launched, delegations>>

(* Faulty variant: a pass without progress is simply repeated. *)
KeepWaitingOnCycle(r) ==
  /\ EndPass(r)
  /\ layer[r] = {}
  /\ ~ progressed[r]
  /\ NextPass(r, updated[r])
  /\ UNCHANGED <<dbVars, task, units, poolVars, launched, delegations>>

(* No progress: what remains depends on a cycle. *)
DetectCycle(r) ==
  /\ EndPass(r)
  /\ layer[r] = {}
  /\ ~ progressed[r]
  /\ pc' = [pc EXCEPT ![r] = "cycle"]
  /\ todo' = [todo EXCEPT ![r] = Remaining(updated[r])]
  /\ UNCHANGED <<dbVars, task, units, updated, layer, progressed, poolVars,
                 launched, delegations>>

BreakCycle(r, u) ==
  /\ pc[r] = "cycle"
  /\ Visits(r, u)
  /\ Skip(r, u, "cycle")
  /\ pc' = [pc EXCEPT ![r] = IF todo'[r] = {} THEN "finalize" ELSE "cycle"]
  /\ UNCHANGED <<taskRow, task, layer, progressed, poolVars, launched,
                 delegations>>

-----------------------------------------------------------------------------
(* _run_with_retry, on a pool thread.                                       *)

Busy(r) == {u \in Unit : worker[r][u] \in {"ready", "calling"}}

(* The pool takes submitted units first-in, first-out. *)
StartWorker(r, u) ==
  /\ worker[r][u] = "queued"
  /\ \A v \in Unit : worker[r][v] = "queued" => u <= v
  /\ Cardinality(Busy(r)) < MaxWorkers
  /\ worker' = [worker EXCEPT ![r][u] = "ready"]
  /\ UNCHANGED <<dbVars, pc, runVars, attempts, call, launched, delegations>>

(* Faulty variant: every delegation starts with the full budget. *)
FreshBudget(r, u) == MaxAttempts

RemainingAttempts(r, u) ==
  IF MaxAttempts > units[r][u].attempt_count
    THEN MaxAttempts - units[r][u].attempt_count
    ELSE 0

(* The attempt is charged to the row before the runner is called. *)
BeginAttempt(r, u) ==
  /\ worker[r][u] = "ready"
  /\ attempts[r][u] < RemainingAttempts(r, u)
  /\ attempts' = [attempts EXCEPT ![r][u] = @ + 1]
  /\ unitRow' = [unitRow EXCEPT ![u] =
                   Attempting(@, units[r][u].attempt_count + attempts[r][u] + 1)]
  /\ launched' = [launched EXCEPT ![u] = @ + 1]
  /\ call' = [call EXCEPT ![r][u] = launched[u] + 1]
  /\ worker' = [worker EXCEPT ![r][u] = "calling"]
  /\ UNCHANGED <<taskRow, pc, runVars, delegations>>

(* result.succeeded: the Artifact of this attempt becomes the output. *)
AttemptSucceeds(r, u) ==
  /\ worker[r][u] = "calling"
  /\ unitRow' = [unitRow EXCEPT ![u] =
                   Succeeded(@, @.attempt_count, call[r][u])]
  /\ units' = [units EXCEPT ![r][u] =
                 Succeeded(@, @.attempt_count + attempts[r][u], call[r][u])]
  /\ worker' = [worker EXCEPT ![r][u] = "done"]
  /\ UNCHANGED <<taskRow, pc, task, updated, todo, layer, progressed, attempts,
                 call, launched, delegations>>

(* The runner answered with a failure: the row keeps it, then try again. *)
AttemptFails(r, u) ==
  /\ worker[r][u] = "calling"
  /\ unitRow' = [unitRow EXCEPT ![u] = WithError(@, "worker")]
  /\ worker' = [worker EXCEPT ![r][u] = "ready"]
  /\ UNCHANGED <<taskRow, pc, runVars, attempts, call, launched, delegations>>

LastError(r, u) ==
  IF attempts[r][u] > 0 THEN "worker"
  ELSE IF units[r][u].error # "none" THEN units[r][u].error
  ELSE "exhausted"

GiveUp(r, u) ==
  /\ worker[r][u] = "ready"
  /\ attempts[r][u] >= RemainingAttempts(r, u)
  /\ LET charged == units[r][u].attempt_count + RemainingAttempts(r, u)
     IN  /\ unitRow' = [unitRow EXCEPT ![u] = Failed(@, charged, LastError(r, u))]
         /\ units' = [units EXCEPT ![r][u] = Failed(@, charged, LastError(r, u))]
  /\ worker' = [worker EXCEPT ![r][u] = "done"]
  /\ UNCHANGED <<taskRow, pc, task, updated, todo, layer, progressed, attempts,
                 call, launched, delegations>>

(* The runner (unknown worker, Artifact persistence) or the repository      *)
(* raised: nothing in _run_with_retry catches it.                           *)
WorkerRaises(r, u) ==
  /\ worker[r][u] \in {"ready", "calling"}
  /\ worker' = [worker EXCEPT ![r][u] = "raised"]
  /\ UNCHANGED <<dbVars, pc, runVars, attempts, call, launched, delegations>>

PoolDrained(r) ==
  /\ pc[r] = "layer"
  /\ \A u \in layer[r] : worker[r][u] \in {"done", "raised"}

(* Every future returned its finished unit. *)
FinishLayer(r) ==
  /\ PoolDrained(r)
  /\ \A u \in layer[r] : worker[r][u] = "done"
  /\ NextPass(r, updated[r] \cup layer[r])
  /\ worker' = [worker EXCEPT ![r] = [u \in Unit |-> "none"]]
  /\ UNCHANGED <<dbVars, task, units, attempts, call, launched,
                 delegations>>

(* future.result() raised: the pool drains, then delegate raises too. *)
AbortLayer(r) ==
  /\ PoolDrained(r)
  /\ \E u \in layer[r] : worker[r][u] = "raised"
  /\ Forget(r)
  /\ UNCHANGED <<dbVars, launched, delegations>>

-----------------------------------------------------------------------------
(* _finalize_task, and the end of a delegation.                             *)

(* Faulty variant: one failure fails the task. *)
FailedIfAnyFailed(r) ==
  IF \E u \in Unit : units[r][u].status = "failed" THEN "failed"
  ELSE IF \A u \in Unit : units[r][u].status = "completed" THEN "completed"
  ELSE "partially_completed"

FinalStatus(r) ==
  IF \A u \in Unit : units[r][u].status = "failed" THEN "failed"
  ELSE IF \A u \in Unit : units[r][u].status = "completed" THEN "completed"
  ELSE "partially_completed"

FinalizeTask(r) ==
  /\ pc[r] = "finalize"
  /\ taskRow' = FinalStatus(r)
  /\ Forget(r)
  /\ UNCHANGED <<unitRow, launched, delegations>>

(* The process dies, or a repository call outside the pool raises.  A pool  *)
(* that is still running dies with its process.                             *)
Crash(r) ==
  /\ pc[r] # "idle"
  /\ Forget(r)
  /\ UNCHANGED <<dbVars, launched, delegations>>

MainStep(r) ==
  \/ CreateTask(r)
  \/ StartRun(r)
  \/ SubmitLayer(r)
  \/ RepeatPass(r)
  \/ DetectCycle(r)
  \/ FinishLayer(r)
  \/ AbortLayer(r)
  \/ FinalizeTask(r)
  \/ \E u \in Unit : \/ SaveWorkUnit(r, u)
                     \/ SkipUnit(r, u)
                     \/ AdmitUnit(r, u)
                     \/ DeferUnit(r, u)
                     \/ BreakCycle(r, u)

WorkerStep(r, u) ==
  \/ StartWorker(r, u)
  \/ BeginAttempt(r, u)
  \/ AttemptSucceeds(r, u)
  \/ AttemptFails(r, u)
  \/ GiveUp(r, u)

Next ==
  \E r \in Runs :
    \/ Delegate(r)
    \/ MainStep(r)
    \/ \E u \in Unit : WorkerStep(r, u) \/ WorkerRaises(r, u)
    \/ Crash(r)

Spec == Init /\ [][Next]_vars

(* The interpreter and the operating system keep running a live process'    *)
(* threads, and a runner always answers: its agent loop has a step limit    *)
(* and a deadline.  Nothing obliges anybody to delegate, raise or crash.    *)
FairSpec ==
  /\ Spec
  /\ \A r \in Runs : WF_vars(MainStep(r))
  /\ \A r \in Runs : \A u \in Unit : WF_vars(WorkerStep(r, u))

-----------------------------------------------------------------------------
(* Properties of the shared tables, for any number of delegations.          *)

(* No row is ever charged more attempts than the retry budget, whatever     *)
(* stale copy of it a delegation was working from                           *)
(* (Scheduler._run_with_retry).                                             *)
ChargedAttemptsWithinBudget ==
  \A u \in Unit : unitRow[u].attempt_count <= MaxAttempts

(* Why it is so: a delegation's copy is within the budget, and a thread     *)
(* never has made more attempts than that copy leaves; threads exist only   *)
(* while a layer is executing.                                              *)
WithinBudget(r, u) ==
  /\ units[r][u].attempt_count <= MaxAttempts
  /\ worker[r][u] \in {"queued", "ready", "calling"} =>
       attempts[r][u] <= RemainingAttempts(r, u)
  /\ pc[r] # "layer" => worker[r][u] = "none"

BudgetInv ==
  /\ ChargedAttemptsWithinBudget
  /\ \A r \in Runs : \A u \in Unit : WithinBudget(r, u)

(* While a unit runs, the delegation running it has a completed dependency  *)
(* for each of its dependency_ids and every one of their artifacts among    *)
(* the inputs the worker may read (Scheduler.run, layer construction).      *)
RunningUnitsSeeTheirDependencies ==
  \A r \in Runs : \A u \in Busy(r) : \A d \in DependsOn[u] :
    /\ d \in updated[r] /\ units[r][d].status = "completed"
    /\ units[r][d].output # 0 => <<d, units[r][d].output>> \in units[r][u].inputs

(* A delegation always ends: passes, layers and retries are finite whatever *)
(* the dependency graph, and a cycle is broken rather than waited on        *)
(* (Scheduler.run, `while remaining`).                                      *)
EveryDelegationEnds == \A r \in Runs : pc[r] # "idle" ~> pc[r] = "idle"

-----------------------------------------------------------------------------
(* Properties that hold when delegations of a task do not overlap; crashes  *)
(* and repeated delegations are still allowed.                              *)

(* A final task status tells the truth about the unit rows, also while the  *)
(* task is delegated again (Scheduler._finalize_task).                      *)
TaskStatusMatchesUnits ==
  /\ taskRow \in {"completed", "failed", "partially_completed"} =>
       \A u \in Unit : unitRow[u].status \in Terminal
  /\ taskRow = "completed" => \A u \in Unit : unitRow[u].status = "completed"
  /\ taskRow = "failed" => \A u \in Unit : unitRow[u].status = "failed"

(* The row of a settled unit is coherent: a completed one carries an        *)
(* artifact and no error, a failed one an error and no artifact, and what a *)
(* completed unit was given to read is exactly its dependencies' outputs    *)
(* (update_work_unit writes only the columns it is given).                  *)
SettledRowsAreCoherent ==
  \A u \in Unit :
    /\ unitRow[u].status = "completed" =>
         /\ unitRow[u].output # 0
         /\ unitRow[u].error = "none"
         /\ unitRow[u].inputs = {<<d, unitRow[d].output>> : d \in DependsOn[u]}
    /\ unitRow[u].status = "failed" =>
         unitRow[u].output = 0 /\ unitRow[u].error \in {"worker", "exhausted"}

(* Delegations that do not overlap keep the promise of WorkUnitOutcomes:    *)
(* outcomes are final, dependencies complete first, skips are justified,    *)
(* and "max one retry per WorkUnit" (scheduler.py:3) counts attempts across *)
(* crashes and reruns.                                                      *)
Outcomes == INSTANCE WorkUnitOutcomes
              WITH outcome <- [u \in Unit |-> IF unitRow[u].status \in Terminal
                                                THEN unitRow[u].status
                                                ELSE "open"]

ImplementsOutcomes == Outcomes!Spec
=============================================================================
