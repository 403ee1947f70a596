---------------------- MODULE WorkUnitSchedulerProofs ----------------------
(***************************************************************************)
(* Proofs about WorkUnitScheduler, for every number of units, dependency   *)
(* graph, retry budget, pool size and set of delegations.                  *)
(***************************************************************************)
EXTENDS WorkUnitScheduler, TLAPS

-----------------------------------------------------------------------------
(* Record updates keep WorkUnits WorkUnits. *)

LEMMA SkippedType ==
  ASSUME NEW w \in WorkUnit, NEW e \in Error
  PROVE  Skipped(w, e) \in WorkUnit /\ WithError(w, e) \in WorkUnit
  BY DEF WorkUnit, Skipped, WithError, UnitStatus

LEMMA WithInputsType ==
  ASSUME NEW w \in WorkUnit, NEW i \in SUBSET Artifact
  PROVE  WithInputs(w, i) \in WorkUnit
  BY DEF WorkUnit, WithInputs

LEMMA AttemptingType ==
  ASSUME NEW w \in WorkUnit, NEW n \in Nat
  PROVE  Attempting(w, n) \in WorkUnit
  BY DEF WorkUnit, Attempting, UnitStatus

LEMMA SucceededType ==
  ASSUME NEW w \in WorkUnit, NEW n \in Nat, NEW a \in Nat
  PROVE  Succeeded(w, n, a) \in WorkUnit
  BY DEF WorkUnit, Succeeded, UnitStatus, Error

LEMMA FailedType ==
  ASSUME NEW w \in WorkUnit, NEW n \in Nat, NEW e \in Error
  PROVE  Failed(w, n, e) \in WorkUnit
  BY DEF WorkUnit, Failed, UnitStatus

LEMMA WorkUnitFields ==
  ASSUME NEW w \in WorkUnit
  PROVE  /\ w.attempt_count \in Nat
         /\ w.output \in Nat
         /\ w.error \in Error
         /\ w.inputs \in SUBSET Artifact
  BY DEF WorkUnit

LEMMA FreshWorkUnits == NoRow \in WorkUnit /\ PlannedUnit \in WorkUnit
  BY DEF NoRow, PlannedUnit, WorkUnit, UnitStatus, Error

LEMMA ForgetType ==
  ASSUME TypeOK, NEW r \in Runs, Forget(r)
  PROVE  /\ pc' \in [Runs -> PC]
         /\ task' \in [Runs -> TaskStatus]
         /\ units' \in [Runs -> [Unit -> WorkUnit]]
         /\ updated' \in [Runs -> SUBSET Unit]
         /\ todo' \in [Runs -> SUBSET Unit]
         /\ layer' \in [Runs -> SUBSET Unit]
         /\ progressed' \in [Runs -> BOOLEAN]
         /\ worker' \in [Runs -> [Unit -> WorkerState]]
         /\ attempts' \in [Runs -> [Unit -> Nat]]
         /\ call' \in [Runs -> [Unit -> Nat]]
  BY FreshWorkUnits DEF TypeOK, Forget, PC, TaskStatus, WorkerState

LEMMA NextPassType ==
  ASSUME TypeOK, NEW r \in Runs, NEW known \in SUBSET Unit, NextPass(r, known)
  PROVE  /\ pc' \in [Runs -> PC]
         /\ updated' \in [Runs -> SUBSET Unit]
         /\ todo' \in [Runs -> SUBSET Unit]
         /\ layer' \in [Runs -> SUBSET Unit]
         /\ progressed' \in [Runs -> BOOLEAN]
  BY DEF TypeOK, NextPass, Remaining, PC

LEMMA SkipType ==
  ASSUME TypeOK, NEW r \in Runs, NEW u \in Unit, NEW why \in Error,
         Skip(r, u, why)
  PROVE  /\ unitRow' \in [Unit -> WorkUnit]
         /\ units' \in [Runs -> [Unit -> WorkUnit]]
         /\ updated' \in [Runs -> SUBSET Unit]
         /\ todo' \in [Runs -> SUBSET Unit]
  <1>1. /\ Skipped(unitRow[u], why) \in WorkUnit
        /\ Skipped(units[r][u], why) \in WorkUnit
    BY SkippedType DEF TypeOK
  <1> QED
    BY <1>1 DEF TypeOK, Skip

LEMMA AttemptBounds ==
  ASSUME TypeOK, NEW r \in Runs, NEW u \in Unit
  PROVE  /\ units[r][u].attempt_count \in Nat
         /\ RemainingAttempts(r, u) \in Nat
         /\ attempts[r][u] \in Nat
         /\ LastError(r, u) \in Error
  BY MaxAttemptsAssumption DEF TypeOK, RemainingAttempts, LastError, WorkUnit, Error

(* Type correctness: the rows stay rows and the delegations' memory stays   *)
(* well formed, through every handler of Scheduler.run and delegate.        *)
THEOREM TypeCorrect == Spec => []TypeOK
<1>1. Init => TypeOK
  BY FreshWorkUnits DEF Init, TypeOK, TaskStatus, PC, WorkerState
<1>2. TypeOK /\ [Next]_vars => TypeOK'
  <2> SUFFICES ASSUME TypeOK, [Next]_vars PROVE TypeOK'
    OBVIOUS
  <2> USE DEF dbVars, runVars, poolVars
  <2>1. ASSUME NEW r \in Runs, Delegate(r) PROVE TypeOK'
    BY <2>1 DEF TypeOK, Delegate, PC
  <2>2. ASSUME NEW r \in Runs, CreateTask(r) PROVE TypeOK'
    BY <2>2 DEF TypeOK, CreateTask, PC, TaskStatus
  <2>3. ASSUME NEW r \in Runs, NEW u \in Unit, SaveWorkUnit(r, u) PROVE TypeOK'
    <3>1. unitRow' \in [Unit -> WorkUnit]
      BY <2>3, FreshWorkUnits DEF TypeOK, SaveWorkUnit
    <3> QED
      BY <2>3, <3>1 DEF TypeOK, SaveWorkUnit
  <2>4. ASSUME NEW r \in Runs, StartRun(r) PROVE TypeOK'
    <3>1. {u \in Unit : units[r][u].status = "completed"} \in SUBSET Unit
      OBVIOUS
    <3>2. taskRow' \in TaskStatus /\ task' \in [Runs -> TaskStatus]
      BY <2>4 DEF TypeOK, StartRun, TaskStatus
    <3> QED
      BY <2>4, <3>1, <3>2, NextPassType DEF TypeOK, StartRun
  <2>5. ASSUME NEW r \in Runs, NEW u \in Unit, SkipUnit(r, u) PROVE TypeOK'
    <3>1. "dependency" \in Error
      BY DEF Error
    <3> QED
      BY <2>5, <3>1, SkipType DEF TypeOK, SkipUnit
  <2>6. ASSUME NEW r \in Runs, NEW u \in Unit, AdmitUnit(r, u) PROVE TypeOK'
    <3> DEFINE inputs == units[r][u].inputs \cup DependencyArtifacts(r, u)
    <3>1. DependencyArtifacts(r, u) \subseteq Artifact
      <4>1. ASSUME NEW d \in DependsOn[u]
            PROVE  <<d, units[r][d].output>> \in Artifact
        <5>1. d \in Unit
          BY <2>6 DEF AdmitUnit, Completed, TypeOK
        <5>2. units[r][d].output \in Nat
          BY <5>1, WorkUnitFields DEF TypeOK
        <5> QED
          BY <5>1, <5>2 DEF Artifact
      <4> QED
        BY <4>1 DEF DependencyArtifacts
    <3>2. inputs \in SUBSET Artifact
      BY <3>1 DEF TypeOK, WorkUnit
    <3>3. /\ WithInputs(units[r][u], inputs) \in WorkUnit
          /\ WithInputs(unitRow[u], inputs) \in WorkUnit
      BY <3>2, WithInputsType DEF TypeOK
    <3> HIDE DEF inputs
    <3>4. /\ unitRow' \in [Unit -> WorkUnit]
          /\ units' \in [Runs -> [Unit -> WorkUnit]]
      BY <2>6, <3>3 DEF TypeOK, AdmitUnit, inputs
    <3> QED
      BY <2>6, <3>4 DEF TypeOK, AdmitUnit
  <2>7. ASSUME NEW r \in Runs, NEW u \in Unit, DeferUnit(r, u) PROVE TypeOK'
    BY <2>7 DEF TypeOK, DeferUnit
  <2>8. ASSUME NEW r \in Runs, SubmitLayer(r) PROVE TypeOK'
    BY <2>8 DEF TypeOK, SubmitLayer, PC, WorkerState
  <2>9. ASSUME NEW r \in Runs, RepeatPass(r) PROVE TypeOK'
    <3>1. updated[r] \in SUBSET Unit
      BY DEF TypeOK
    <3> QED
      BY <2>9, <3>1, NextPassType DEF TypeOK, RepeatPass
  <2>10. ASSUME NEW r \in Runs, DetectCycle(r) PROVE TypeOK'
    BY <2>10 DEF TypeOK, DetectCycle, Remaining, PC
  <2>11. ASSUME NEW r \in Runs, NEW u \in Unit, BreakCycle(r, u) PROVE TypeOK'
    <3>1. "cycle" \in Error
      BY DEF Error
    <3>2. pc' \in [Runs -> PC]
      BY <2>11 DEF TypeOK, BreakCycle, PC
    <3> QED
      BY <2>11, <3>1, <3>2, SkipType DEF TypeOK, BreakCycle
  <2>12. ASSUME NEW r \in Runs, NEW u \in Unit, StartWorker(r, u) PROVE TypeOK'
    BY <2>12 DEF TypeOK, StartWorker, WorkerState
  <2>13. ASSUME NEW r \in Runs, NEW u \in Unit, BeginAttempt(r, u) PROVE TypeOK'
    <3> DEFINE n == units[r][u].attempt_count + attempts[r][u] + 1
    <3>1. Attempting(unitRow[u], n) \in WorkUnit
      BY AttemptBounds, AttemptingType DEF TypeOK
    <3> QED
      BY <2>13, <3>1 DEF TypeOK, BeginAttempt, WorkerState
  <2>14. ASSUME NEW r \in Runs, NEW u \in Unit, AttemptSucceeds(r, u) PROVE TypeOK'
    <3> DEFINE n == units[r][u].attempt_count + attempts[r][u]
    <3>1. /\ unitRow[u] \in WorkUnit /\ unitRow[u].attempt_count \in Nat
          /\ units[r][u] \in WorkUnit /\ n \in Nat
          /\ call[r][u] \in Nat
      BY AttemptBounds, WorkUnitFields DEF TypeOK
    <3> HIDE DEF n
    <3>2. /\ Succeeded(unitRow[u], unitRow[u].attempt_count, call[r][u]) \in WorkUnit
          /\ Succeeded(units[r][u], n, call[r][u]) \in WorkUnit
      BY <3>1, SucceededType
    <3> QED
      BY <2>14, <3>2 DEF TypeOK, AttemptSucceeds, n, WorkerState
  <2>15. ASSUME NEW r \in Runs, NEW u \in Unit, AttemptFails(r, u) PROVE TypeOK'
    <3>1. WithError(unitRow[u], "worker") \in WorkUnit
      BY SkippedType DEF TypeOK, Error
    <3> QED
      BY <2>15, <3>1 DEF TypeOK, AttemptFails, WorkerState
  <2>16. ASSUME NEW r \in Runs, NEW u \in Unit, GiveUp(r, u) PROVE TypeOK'
    <3> DEFINE n == units[r][u].attempt_count + RemainingAttempts(r, u)
               e == LastError(r, u)
    <3>1. /\ Failed(unitRow[u], n, e) \in WorkUnit
          /\ Failed(units[r][u], n, e) \in WorkUnit
      BY AttemptBounds, FailedType DEF TypeOK
    <3> QED
      BY <2>16, <3>1 DEF TypeOK, GiveUp, WorkerState
  <2>17. ASSUME NEW r \in Runs, NEW u \in Unit, WorkerRaises(r, u) PROVE TypeOK'
    BY <2>17 DEF TypeOK, WorkerRaises, WorkerState
  <2>18. ASSUME NEW r \in Runs, FinishLayer(r) PROVE TypeOK'
    <3>1. updated[r] \cup layer[r] \in SUBSET Unit
      BY DEF TypeOK
    <3>2. worker' \in [Runs -> [Unit -> WorkerState]]
      BY <2>18 DEF TypeOK, FinishLayer, WorkerState
    <3> QED
      BY <2>18, <3>1, <3>2, NextPassType DEF TypeOK, FinishLayer
  <2>19. ASSUME NEW r \in Runs, AbortLayer(r) PROVE TypeOK'
    BY <2>19, ForgetType DEF TypeOK, AbortLayer
  <2>20. ASSUME NEW r \in Runs, FinalizeTask(r) PROVE TypeOK'
    BY <2>20, ForgetType DEF TypeOK, FinalizeTask, FinalStatus, TaskStatus
  <2>21. ASSUME NEW r \in Runs, Crash(r) PROVE TypeOK'
    BY <2>21, ForgetType DEF TypeOK, Crash
  <2>22. CASE UNCHANGED vars
    BY <2>22 DEF TypeOK, vars
  <2> QED
    BY <2>1, <2>2, <2>3, <2>4, <2>5, <2>6, <2>7, <2>8, <2>9, <2>10, <2>11,
       <2>12, <2>13, <2>14, <2>15, <2>16, <2>17, <2>18, <2>19, <2>20, <2>21,
       <2>22 DEF Next, MainStep, WorkerStep
<1> QED
  BY <1>1, <1>2, PTL DEF Spec

-----------------------------------------------------------------------------
(* The retry budget, for any number of overlapping delegations. *)

(* A delegation that ends or dies leaves no thread and no copy behind. *)
LEMMA ForgetBudget ==
  ASSUME TypeOK, BudgetInv, NEW r \in Runs, Forget(r), UNCHANGED unitRow
  PROVE  BudgetInv'
  <1>1. NoRow.attempt_count = 0
    BY DEF NoRow
  <1> QED
    BY <1>1, MaxAttemptsAssumption
    DEF TypeOK, BudgetInv, ChargedAttemptsWithinBudget, WithinBudget,
        RemainingAttempts, Forget

(* A step of one delegation that concerns one unit only disturbs that pair. *)
LEMMA OneUnitBudget ==
  ASSUME TypeOK, BudgetInv, NEW r \in Runs, NEW u \in Unit,
         \A v \in Unit : v # u => unitRow'[v] = unitRow[v],
         \A s \in Runs, v \in Unit : <<s, v>> # <<r, u>> =>
            /\ units'[s][v] = units[s][v]
            /\ worker'[s][v] = worker[s][v]
            /\ attempts'[s][v] = attempts[s][v],
         \A s \in Runs : pc'[s] = "layer" <=> pc[s] = "layer",
         unitRow'[u].attempt_count <= MaxAttempts,
         WithinBudget(r, u)'
  PROVE  BudgetInv'
  <1>1. ChargedAttemptsWithinBudget'
    BY DEF BudgetInv, ChargedAttemptsWithinBudget
  <1>2. ASSUME NEW s \in Runs, NEW v \in Unit, <<s, v>> # <<r, u>>
        PROVE  WithinBudget(s, v)'
    BY <1>2 DEF BudgetInv, WithinBudget, RemainingAttempts
  <1> QED
    BY <1>1, <1>2 DEF BudgetInv

LEMMA SkipBudget ==
  ASSUME TypeOK, BudgetInv, NEW r \in Runs, NEW u \in Unit, NEW why \in Error,
         Skip(r, u, why), UNCHANGED poolVars,
         \A s \in Runs : pc'[s] = "layer" <=> pc[s] = "layer"
  PROVE  BudgetInv'
  <1>1. /\ unitRow'[u].attempt_count = unitRow[u].attempt_count
        /\ units'[r][u].attempt_count = units[r][u].attempt_count
    BY DEF TypeOK, Skip, Skipped, WorkUnit
  <1>2. WithinBudget(r, u)'
    BY <1>1 DEF BudgetInv, WithinBudget, RemainingAttempts, poolVars
  <1>3. unitRow'[u].attempt_count <= MaxAttempts
    BY <1>1 DEF BudgetInv, ChargedAttemptsWithinBudget
  <1>4. \A v \in Unit : v # u => unitRow'[v] = unitRow[v]
    BY DEF TypeOK, Skip
  <1>5. \A s \in Runs, v \in Unit : <<s, v>> # <<r, u>> => units'[s][v] = units[s][v]
    BY DEF TypeOK, Skip
  <1> QED
    BY <1>2, <1>3, <1>4, <1>5, OneUnitBudget DEF poolVars

LEMMA BudgetInvariant == Spec => []BudgetInv
<1>1. Init => BudgetInv
  BY MaxAttemptsAssumption
  DEF Init, BudgetInv, ChargedAttemptsWithinBudget, WithinBudget,
      RemainingAttempts, NoRow
<1>2. TypeOK /\ BudgetInv /\ [Next]_vars => BudgetInv'
  <2> SUFFICES ASSUME TypeOK, BudgetInv, [Next]_vars PROVE BudgetInv'
    OBVIOUS
  <2> USE MaxAttemptsAssumption DEF dbVars, runVars, poolVars
  <2>0. ASSUME NEW r \in Runs, NEW u \in Unit
        PROVE  /\ units[r][u] \in WorkUnit /\ units[r][u].attempt_count \in Nat
               /\ unitRow[u] \in WorkUnit /\ unitRow[u].attempt_count \in Nat
               /\ attempts[r][u] \in Nat /\ call[r][u] \in Nat
               /\ RemainingAttempts(r, u) \in Nat
               /\ LastError(r, u) \in Error
               /\ WithinBudget(r, u)
               /\ unitRow[u].attempt_count <= MaxAttempts
    BY AttemptBounds, WorkUnitFields
    DEF TypeOK, BudgetInv, ChargedAttemptsWithinBudget
  <2>1. ASSUME NEW r \in Runs, Delegate(r) PROVE BudgetInv'
    BY <2>1 DEF TypeOK, BudgetInv, ChargedAttemptsWithinBudget, WithinBudget,
                RemainingAttempts, Delegate
  <2>2. ASSUME NEW r \in Runs, CreateTask(r) PROVE BudgetInv'
    BY <2>2 DEF TypeOK, BudgetInv, ChargedAttemptsWithinBudget, WithinBudget,
                RemainingAttempts, CreateTask
  <2>3. ASSUME NEW r \in Runs, NEW u \in Unit, SaveWorkUnit(r, u) PROVE BudgetInv'
    <3>1. unitRow'[u].attempt_count <= MaxAttempts
      BY <2>0, <2>3 DEF TypeOK, SaveWorkUnit, PlannedUnit, NoRow
    <3>2. units'[r][u] = unitRow'[u] /\ worker[r][u] = "none"
      BY <2>0, <2>3 DEF TypeOK, SaveWorkUnit, WithinBudget
    <3>3. WithinBudget(r, u)'
      BY <2>3, <3>1, <3>2 DEF SaveWorkUnit, WithinBudget
    <3> QED
      BY <2>3, <3>1, <3>3, OneUnitBudget DEF TypeOK, SaveWorkUnit
  <2>4. ASSUME NEW r \in Runs, StartRun(r) PROVE BudgetInv'
    BY <2>4 DEF TypeOK, BudgetInv, ChargedAttemptsWithinBudget, WithinBudget,
                RemainingAttempts, StartRun, NextPass
  <2>6. ASSUME NEW r \in Runs, NEW u \in Unit, SkipUnit(r, u) PROVE BudgetInv'
    BY <2>6, SkipBudget DEF SkipUnit, Error
  <2>7. ASSUME NEW r \in Runs, NEW u \in Unit, AdmitUnit(r, u) PROVE BudgetInv'
    <3> DEFINE inputs == units[r][u].inputs \cup DependencyArtifacts(r, u)
    <3>1. \A w \in WorkUnit : WithInputs(w, inputs).attempt_count = w.attempt_count
      BY DEF WithInputs, WorkUnit
    <3> HIDE DEF inputs
    <3>2. /\ units'[r][u].attempt_count = units[r][u].attempt_count
          /\ unitRow'[u].attempt_count = unitRow[u].attempt_count
      BY <2>7, <3>1 DEF TypeOK, AdmitUnit, inputs
    <3>3. WithinBudget(r, u)'
      BY <2>0, <2>7, <3>2 DEF WithinBudget, RemainingAttempts, AdmitUnit
    <3> QED
      BY <2>0, <2>7, <3>2, <3>3, OneUnitBudget DEF TypeOK, AdmitUnit
  <2>8. ASSUME NEW r \in Runs, NEW u \in Unit, DeferUnit(r, u) PROVE BudgetInv'
    BY <2>8 DEF TypeOK, BudgetInv, ChargedAttemptsWithinBudget, WithinBudget,
                RemainingAttempts, DeferUnit
  <2>9. ASSUME NEW r \in Runs, SubmitLayer(r) PROVE BudgetInv'
    <3>1. UNCHANGED unitRow /\ UNCHANGED units
      BY <2>9 DEF SubmitLayer
    <3>2. ASSUME NEW s \in Runs, NEW v \in Unit PROVE WithinBudget(s, v)'
      <4>1. s = r => attempts'[s][v] = 0 /\ pc'[s] = "layer"
        BY <2>9 DEF TypeOK, SubmitLayer
      <4>2. s # r => /\ attempts'[s] = attempts[s] /\ worker'[s] = worker[s]
                     /\ pc'[s] = pc[s]
        BY <2>9 DEF TypeOK, SubmitLayer
      <4> QED
        BY <2>0, <3>1, <4>1, <4>2 DEF WithinBudget, RemainingAttempts
    <3> QED
      BY <3>1, <3>2 DEF BudgetInv, ChargedAttemptsWithinBudget
  <2>10. ASSUME NEW r \in Runs, RepeatPass(r) PROVE BudgetInv'
    BY <2>10 DEF TypeOK, BudgetInv, ChargedAttemptsWithinBudget, WithinBudget,
                 RemainingAttempts, RepeatPass, NextPass, EndPass
  <2>11. ASSUME NEW r \in Runs, DetectCycle(r) PROVE BudgetInv'
    BY <2>11 DEF TypeOK, BudgetInv, ChargedAttemptsWithinBudget, WithinBudget,
                 RemainingAttempts, DetectCycle, EndPass
  <2>12. ASSUME NEW r \in Runs, NEW u \in Unit, BreakCycle(r, u) PROVE BudgetInv'
    <3>1. \A s \in Runs : pc'[s] = "layer" <=> pc[s] = "layer"
      BY <2>12 DEF BreakCycle, TypeOK
    <3> QED
      BY <2>12, <3>1, SkipBudget DEF BreakCycle, Error
  <2>13. ASSUME NEW r \in Runs, NEW u \in Unit, StartWorker(r, u) PROVE BudgetInv'
    BY <2>0, <2>13 DEF TypeOK, BudgetInv, ChargedAttemptsWithinBudget,
                       WithinBudget, RemainingAttempts, StartWorker
  <2>14. ASSUME NEW r \in Runs, NEW u \in Unit, BeginAttempt(r, u) PROVE BudgetInv'
    <3> DEFINE n == units[r][u].attempt_count + attempts[r][u] + 1
    <3>1. n \in Nat /\ n <= MaxAttempts
      BY <2>0, <2>14 DEF BeginAttempt, RemainingAttempts
    <3> HIDE DEF n
    <3>2. unitRow'[u].attempt_count = n
      BY <2>0, <2>14, <3>1 DEF TypeOK, BeginAttempt, n, Attempting, WorkUnit
    <3>3. WithinBudget(r, u)'
      BY <2>0, <2>14 DEF TypeOK, WithinBudget, RemainingAttempts, BeginAttempt
    <3> QED
      BY <2>14, <3>1, <3>2, <3>3, OneUnitBudget DEF TypeOK, BeginAttempt
  <2>15. ASSUME NEW r \in Runs, NEW u \in Unit, AttemptSucceeds(r, u) PROVE BudgetInv'
    <3> DEFINE n == units[r][u].attempt_count + attempts[r][u]
    <3>1. n \in Nat /\ n <= MaxAttempts
      BY <2>0, <2>15 DEF AttemptSucceeds, WithinBudget, RemainingAttempts
    <3>2. /\ unitRow'[u].attempt_count = unitRow[u].attempt_count
          /\ units'[r][u].attempt_count = n
      BY <2>0, <2>15 DEF TypeOK, AttemptSucceeds, Succeeded, WorkUnit
    <3>3. pc[r] = "layer"
      BY <2>0, <2>15 DEF AttemptSucceeds, WithinBudget
    <3>4. WithinBudget(r, u)'
      BY <2>15, <3>1, <3>2, <3>3 DEF TypeOK, WithinBudget, AttemptSucceeds
    <3> QED
      BY <2>0, <2>15, <3>2, <3>4, OneUnitBudget DEF TypeOK, AttemptSucceeds
  <2>16. ASSUME NEW r \in Runs, NEW u \in Unit, AttemptFails(r, u) PROVE BudgetInv'
    <3>1. unitRow'[u].attempt_count = unitRow[u].attempt_count
      BY <2>0, <2>16 DEF TypeOK, AttemptFails, WithError, WorkUnit
    <3>2. WithinBudget(r, u)'
      BY <2>0, <2>16 DEF TypeOK, WithinBudget, RemainingAttempts, AttemptFails
    <3> QED
      BY <2>0, <2>16, <3>1, <3>2, OneUnitBudget DEF TypeOK, AttemptFails
  <2>17. ASSUME NEW r \in Runs, NEW u \in Unit, GiveUp(r, u) PROVE BudgetInv'
    <3> DEFINE n == units[r][u].attempt_count + RemainingAttempts(r, u)
    <3>1. n \in Nat /\ n <= MaxAttempts
      BY <2>0 DEF WithinBudget, RemainingAttempts
    <3>2. unitRow'[u].attempt_count = n /\ units'[r][u].attempt_count = n
      BY <2>0, <2>17 DEF TypeOK, GiveUp, Failed, WorkUnit
    <3>3. pc[r] = "layer"
      BY <2>0, <2>17 DEF GiveUp, WithinBudget
    <3>4. WithinBudget(r, u)'
      BY <2>17, <3>1, <3>2, <3>3 DEF TypeOK, WithinBudget, GiveUp
    <3> QED
      BY <2>17, <3>1, <3>2, <3>4, OneUnitBudget DEF TypeOK, GiveUp
  <2>18. ASSUME NEW r \in Runs, NEW u \in Unit, WorkerRaises(r, u) PROVE BudgetInv'
    BY <2>18 DEF TypeOK, BudgetInv, ChargedAttemptsWithinBudget, WithinBudget,
                 RemainingAttempts, WorkerRaises
  <2>19. ASSUME NEW r \in Runs, FinishLayer(r) PROVE BudgetInv'
    BY <2>19 DEF TypeOK, BudgetInv, ChargedAttemptsWithinBudget, WithinBudget,
                 RemainingAttempts, FinishLayer, NextPass
  <2>20. ASSUME NEW r \in Runs, AbortLayer(r) PROVE BudgetInv'
    BY <2>20, ForgetBudget DEF AbortLayer
  <2>21. ASSUME NEW r \in Runs, FinalizeTask(r) PROVE BudgetInv'
    BY <2>21, ForgetBudget DEF FinalizeTask
  <2>22. ASSUME NEW r \in Runs, Crash(r) PROVE BudgetInv'
    BY <2>22, ForgetBudget DEF Crash
  <2>23. CASE UNCHANGED vars
    BY <2>23 DEF vars, BudgetInv, ChargedAttemptsWithinBudget, WithinBudget,
                 RemainingAttempts
  <2> QED
    BY <2>1, <2>2, <2>3, <2>4, <2>6, <2>7, <2>8, <2>9, <2>10, <2>11, <2>12,
       <2>13, <2>14, <2>15, <2>16, <2>17, <2>18, <2>19, <2>20, <2>21, <2>22,
       <2>23 DEF Next, MainStep, WorkerStep
<1> QED
  BY <1>1, <1>2, TypeCorrect, PTL DEF Spec

(* ChargedAttemptsWithinBudget: the attempt_count column never exceeds the  *)
(* retry budget, however many delegations write it from stale copies.       *)
THEOREM ChargedAttemptsBounded == Spec => []ChargedAttemptsWithinBudget
<1>1. BudgetInv => ChargedAttemptsWithinBudget
  BY DEF BudgetInv
<1> QED
  BY <1>1, BudgetInvariant, PTL

-----------------------------------------------------------------------------
(* What a running unit is given, for any number of overlapping delegations. *)

(* A pool thread works on a unit of the layer; the units of a layer are not  *)
(* known yet, but all they depend on is, with its artifacts.                 *)
LayerInv(r) ==
  /\ pc[r] \notin {"scan", "layer"} => layer[r] = {}
  /\ layer[r] \cap updated[r] = {}
  /\ pc[r] = "scan" => todo[r] \cap (layer[r] \cup updated[r]) = {}
  /\ \A u \in Unit : worker[r][u] # "none" => pc[r] = "layer" /\ u \in layer[r]
  /\ \A u \in layer[r] : \A d \in DependsOn[u] :
       /\ d \in updated[r] /\ units[r][d].status = "completed"
       /\ units[r][d].output # 0 => <<d, units[r][d].output>> \in units[r][u].inputs

-----------------------------------------------------------------------------
(* One delegation at a time.                                                 *)

OneDelegationAtATime == \A r, s \in Runs : r = s

Executing == {"scan", "layer", "cycle", "finalize"}

CompletedRows == {u \in Unit : unitRow[u].status = "completed"}

DependenciesDone(u) == DependsOn[u] \subseteq CompletedRows

OnCycle(u) ==
  \E S \in SUBSET Unit : u \in S /\ \A v \in S : DependsOn[v] \cap S # {}

CannotRun(u) ==
  \/ \E d \in DependsOn[u] : d \notin Unit \/ unitRow[d].status \in {"failed", "skipped"}
  \/ OnCycle(u)

(* What a row says is so: of the unit, and of those it depends on. *)
RowInv(u) ==
  /\ unitRow[u].status = "absent" => launched[u] = 0
  /\ unitRow[u].output # 0 <=> unitRow[u].status = "completed"
  /\ unitRow[u].error \in {"dependency", "cycle"} => unitRow[u].status = "skipped"
  /\ unitRow[u].status = "completed" =>
       /\ unitRow[u].error = "none" /\ launched[u] > 0
       /\ unitRow[u].inputs = {<<d, unitRow[d].output>> : d \in DependsOn[u]}
  /\ unitRow[u].status = "failed" =>
       unitRow[u].error \in {"worker", "exhausted"} /\ launched[u] = MaxAttempts
  /\ unitRow[u].status = "skipped" => CannotRun(u)
  /\ unitRow[u].status \in {"completed", "failed"} => DependenciesDone(u)
  /\ launched[u] > 0 => DependenciesDone(u)
  /\ unitRow[u].inputs \subseteq
       {<<d, unitRow[d].output>> : d \in DependsOn[u] \cap CompletedRows}
  /\ launched[u] = unitRow[u].attempt_count

(* No unit completed before one it depends on. *)
CompletedInOrder ==
  \A S \in SUBSET CompletedRows : S # {} => \E u \in S : DependsOn[u] \cap S = {}

HasRead(r, u) == pc[r] \in Executing \/ (pc[r] = "plan" /\ u \notin todo[r])

(* The copy a delegation holds of a row it has read is the row, but for the   *)
(* attempts that a pool thread is making.                                     *)
CopyInv(r, u) ==
  /\ worker[r][u] \in {"none", "queued", "done"} => units[r][u] = unitRow[u]
  /\ worker[r][u] \in {"ready", "calling", "raised"} =>
       /\ unitRow[u].inputs = units[r][u].inputs
       /\ unitRow[u].output = units[r][u].output
       /\ unitRow[u].attempt_count = units[r][u].attempt_count + attempts[r][u]
       /\ attempts[r][u] = 0 => unitRow[u] = units[r][u]
       /\ attempts[r][u] > 0 =>
            /\ unitRow[u].status = "running"
            /\ unitRow[u].error \in {units[r][u].error, "worker"}
  /\ worker[r][u] = "queued" => attempts[r][u] = 0
  /\ worker[r][u] = "calling" => attempts[r][u] > 0 /\ call[r][u] # 0
  /\ worker[r][u] = "done" => units[r][u].status \in {"completed", "failed"}

(* How far the passes over the units have come. *)
PassInv(r) ==
  /\ \A u \in updated[r] : units[r][u].status \in Terminal
  /\ \A u \in Unit \ updated[r] :
       units[r][u].status = "completed" => worker[r][u] = "done"
  /\ pc[r] = "scan" /\ ~ progressed[r] =>
       \A u \in Remaining(updated[r]) \ (todo[r] \cup layer[r]) :
         DependsOn[u] \cap Remaining(updated[r]) # {}
  /\ pc[r] = "cycle" => todo[r] = Remaining(updated[r]) /\ \A u \in todo[r] : OnCycle(u)
  /\ pc[r] = "finalize" => updated[r] = Unit

RowsInv == (\A u \in Unit : RowInv(u)) /\ CompletedInOrder

MemoryInv(r) ==
  /\ \A u \in Unit : HasRead(r, u) => CopyInv(r, u)
  /\ pc[r] \in Executing => PassInv(r)
  /\ pc[r] = "create" => todo[r] = Unit

SoloInv == RowsInv /\ \A r \in Runs : MemoryInv(r)

-----------------------------------------------------------------------------
(* Steps.                                                                    *)

RunStep(r) ==
  \/ Delegate(r)
  \/ MainStep(r)
  \/ \E u \in Unit : WorkerStep(r, u) \/ WorkerRaises(r, u)
  \/ Crash(r)

(* A delegation writes nothing of another's memory. *)
LEMMA OthersUntouched ==
  ASSUME TypeOK, NEW r \in Runs, NEW s \in Runs \ {r}, RunStep(r)
  PROVE  /\ pc'[s] = pc[s] /\ task'[s] = task[s] /\ units'[s] = units[s]
         /\ updated'[s] = updated[s] /\ todo'[s] = todo[s] /\ layer'[s] = layer[s]
         /\ progressed'[s] = progressed[s] /\ worker'[s] = worker[s]
         /\ attempts'[s] = attempts[s] /\ call'[s] = call[s]
<1> DEFINE Same == /\ pc'[s] = pc[s] /\ task'[s] = task[s] /\ units'[s] = units[s]
                   /\ updated'[s] = updated[s] /\ todo'[s] = todo[s]
                   /\ layer'[s] = layer[s] /\ progressed'[s] = progressed[s]
                   /\ worker'[s] = worker[s] /\ attempts'[s] = attempts[s]
                   /\ call'[s] = call[s]
<1> USE DEF dbVars, runVars, poolVars
<1>1. CASE Forget(r)
  BY <1>1 DEF TypeOK, Forget
<1>2. CASE Delegate(r)
  BY <1>2 DEF TypeOK, Delegate
<1>3. CASE CreateTask(r)
  BY <1>3 DEF TypeOK, CreateTask
<1>4. CASE StartRun(r)
  BY <1>4 DEF TypeOK, StartRun, NextPass
<1>5. CASE SubmitLayer(r)
  BY <1>5 DEF TypeOK, SubmitLayer
<1>6. CASE RepeatPass(r) \/ FinishLayer(r)
  BY <1>6 DEF TypeOK, RepeatPass, FinishLayer, NextPass
<1>7. CASE DetectCycle(r)
  BY <1>7 DEF TypeOK, DetectCycle
<1>8. ASSUME NEW u \in Unit, SaveWorkUnit(r, u) PROVE Same
  BY <1>8 DEF TypeOK, SaveWorkUnit
<1>9. ASSUME NEW u \in Unit, SkipUnit(r, u) \/ BreakCycle(r, u) PROVE Same
  BY <1>9 DEF TypeOK, SkipUnit, BreakCycle, Skip
<1>10. ASSUME NEW u \in Unit, AdmitUnit(r, u) PROVE Same
  BY <1>10 DEF TypeOK, AdmitUnit
<1>11. ASSUME NEW u \in Unit, DeferUnit(r, u) PROVE Same
  BY <1>11 DEF TypeOK, DeferUnit
<1>12. ASSUME NEW u \in Unit, StartWorker(r, u) \/ BeginAttempt(r, u) PROVE Same
  BY <1>12 DEF TypeOK, StartWorker, BeginAttempt
<1>13. ASSUME NEW u \in Unit, AttemptSucceeds(r, u) PROVE Same
  BY <1>13 DEF TypeOK, AttemptSucceeds
<1>14. ASSUME NEW u \in Unit, GiveUp(r, u) PROVE Same
  BY <1>14 DEF TypeOK, GiveUp
<1>15. ASSUME NEW u \in Unit, AttemptFails(r, u) \/ WorkerRaises(r, u) PROVE Same
  BY <1>15 DEF TypeOK, AttemptFails, WorkerRaises
<1> HIDE DEF Same
<1>16. CASE MainStep(r)
  <2>1. CASE \E u \in Unit : SaveWorkUnit(r, u) \/ SkipUnit(r, u) \/ AdmitUnit(r, u)
                               \/ DeferUnit(r, u) \/ BreakCycle(r, u)
    BY <1>8, <1>9, <1>10, <1>11, <2>1 DEF Same
  <2>2. CASE AbortLayer(r) \/ FinalizeTask(r)
    BY <1>1, <2>2 DEF AbortLayer, FinalizeTask
  <2> QED
    BY <1>3, <1>4, <1>5, <1>6, <1>7, <1>16, <2>1, <2>2 DEF MainStep
<1>17. CASE \E u \in Unit : WorkerStep(r, u) \/ WorkerRaises(r, u)
  BY <1>12, <1>13, <1>14, <1>15, <1>17 DEF WorkerStep, Same
<1>18. CASE Crash(r)
  BY <1>1, <1>18 DEF Crash
<1> QED
  BY <1>2, <1>16, <1>17, <1>18 DEF RunStep

LEMMA ForgetLayer ==
  ASSUME TypeOK, NEW r \in Runs, Forget(r)
  PROVE  LayerInv(r)'
  BY DEF TypeOK, Forget, LayerInv

LEMMA NextPassLayer ==
  ASSUME TypeOK, NEW r \in Runs, NEW known \in SUBSET Unit, NextPass(r, known),
         \A u \in Unit : worker'[r][u] = "none"
  PROVE  LayerInv(r)'
  BY DEF TypeOK, NextPass, Remaining, LayerInv

(* A unit that is settled, skipped or admitted was not known before, so no    *)
(* unit of the layer depends on it.                                           *)
LEMMA LayerKept ==
  ASSUME NEW r \in Runs, LayerInv(r), NEW u \in Unit, u \notin updated[r],
         layer'[r] = layer[r], worker'[r] = worker[r],
         updated[r] \subseteq updated'[r],
         \A v \in Unit \ {u} : units'[r][v] = units[r][v],
         units'[r][u].inputs = units[r][u].inputs,
         updated[r] \subseteq Unit, layer[r] \subseteq Unit
  PROVE  \A v \in layer'[r] : \A d \in DependsOn[v] :
           /\ d \in updated'[r] /\ units'[r][d].status = "completed"
           /\ units'[r][d].output # 0 => <<d, units'[r][d].output>> \in units'[r][v].inputs
<1> SUFFICES ASSUME NEW v \in layer[r], NEW d \in DependsOn[v]
             PROVE  /\ d \in updated'[r] /\ units'[r][d].status = "completed"
                    /\ units'[r][d].output # 0 =>
                         <<d, units'[r][d].output>> \in units'[r][v].inputs
  OBVIOUS
<1>1. /\ d \in updated[r] /\ units[r][d].status = "completed"
      /\ units[r][d].output # 0 => <<d, units[r][d].output>> \in units[r][v].inputs
  BY DEF LayerInv
<1>2. units'[r][d] = units[r][d]
  BY <1>1
<1>3. units'[r][v].inputs = units[r][v].inputs
  OBVIOUS
<1> QED
  BY <1>1, <1>2, <1>3

LEMMA SkipLayer ==
  ASSUME TypeOK, NEW r \in Runs, LayerInv(r), NEW u \in Unit, NEW why \in Error,
         Skip(r, u, why), UNCHANGED <<layer, poolVars>>, u \in todo[r],
         \/ pc[r] = "scan" /\ pc'[r] = "scan"
         \/ pc[r] = "cycle" /\ pc'[r] \in {"cycle", "finalize"} /\ u \notin updated[r]
  PROVE  LayerInv(r)'
<1>1. /\ updated'[r] = updated[r] \cup {u} /\ todo'[r] = todo[r] \ {u}
      /\ layer' = layer /\ worker' = worker
      /\ units'[r][u].inputs = units[r][u].inputs
      /\ \A v \in Unit \ {u} : units'[r][v] = units[r][v]
      /\ updated[r] \subseteq Unit /\ layer[r] \subseteq Unit
  BY DEF TypeOK, Skip, Skipped, WorkUnit, poolVars
<1>2. u \notin updated[r] /\ u \notin layer[r]
  BY DEF LayerInv
<1>3. \A v \in layer'[r] : \A d \in DependsOn[v] :
        /\ d \in updated'[r] /\ units'[r][d].status = "completed"
        /\ units'[r][d].output # 0 => <<d, units'[r][d].output>> \in units'[r][v].inputs
  BY <1>1, <1>2, LayerKept
<1> QED
  BY <1>1, <1>2, <1>3 DEF LayerInv

LEMMA LayerStep ==
  ASSUME TypeOK, NEW r \in Runs, LayerInv(r), RunStep(r)
  PROVE  LayerInv(r)'
<1> USE DEF dbVars, runVars, poolVars
<1>0. /\ updated[r] \subseteq Unit /\ layer[r] \subseteq Unit /\ todo[r] \subseteq Unit
  BY DEF TypeOK
<1>1. CASE Delegate(r)
  BY <1>1 DEF TypeOK, Delegate, LayerInv
<1>2. CASE CreateTask(r)
  BY <1>2 DEF TypeOK, CreateTask, LayerInv
<1>3. ASSUME NEW u \in Unit, SaveWorkUnit(r, u) PROVE LayerInv(r)'
  BY <1>3 DEF TypeOK, SaveWorkUnit, LayerInv
<1>4. CASE StartRun(r)
  <2>1. \A u \in Unit : worker'[r][u] = "none"
    BY <1>4 DEF StartRun, LayerInv
  <2>2. {u \in Unit : units[r][u].status = "completed"} \in SUBSET Unit
    OBVIOUS
  <2> QED
    BY <1>4, <2>1, <2>2, NextPassLayer DEF StartRun
<1>5. ASSUME NEW u \in Unit, SkipUnit(r, u) PROVE LayerInv(r)'
  <2>1. "dependency" \in Error
    BY DEF Error
  <2> QED
    BY <1>5, <2>1, SkipLayer DEF SkipUnit, Visits
<1>6. ASSUME NEW u \in Unit, AdmitUnit(r, u) PROVE LayerInv(r)'
  <2> DEFINE inputs == units[r][u].inputs \cup DependencyArtifacts(r, u)
             mine == WithInputs(units[r][u], inputs)
  <2>1. /\ pc' = pc /\ updated' = updated /\ worker' = worker
        /\ layer'[r] = layer[r] \cup {u} /\ todo'[r] = todo[r] \ {u}
        /\ u \in todo[r] /\ DependsOn[u] \subseteq Completed(r) /\ pc[r] = "scan"
    BY <1>6 DEF AdmitUnit, TypeOK, Visits
  <2>2. units'[r][u] = mine /\ \A v \in Unit \ {u} : units'[r][v] = units[r][v]
    <3>1. units' = [units EXCEPT ![r][u] = mine]
      BY <1>6 DEF AdmitUnit
    <3> HIDE DEF mine
    <3> QED
      BY <3>1 DEF TypeOK
  <2>3. mine.inputs = inputs
    BY DEF TypeOK, WithInputs, WorkUnit
  <2>4. u \notin updated[r] /\ u \notin layer[r]
    BY <2>1 DEF LayerInv
  <2>5. ASSUME NEW v \in layer'[r], NEW d \in DependsOn[v]
        PROVE  /\ d \in updated'[r] /\ units'[r][d].status = "completed"
               /\ units'[r][d].output # 0 =>
                    <<d, units'[r][d].output>> \in units'[r][v].inputs
    <3>1. CASE v = u
      <4>1. d \in updated[r] /\ d \in Unit /\ units[r][d].status = "completed"
        BY <1>0, <2>1, <3>1 DEF Completed
      <4>2. units'[r][d] = units[r][d]
        BY <2>2, <2>4, <4>1
      <4>3. units[r][d].output # 0 => <<d, units[r][d].output>> \in inputs
        BY <3>1 DEF DependencyArtifacts
      <4> HIDE DEF mine, inputs
      <4> QED
        BY <2>1, <2>2, <2>3, <3>1, <4>1, <4>2, <4>3
    <3>2. CASE v # u
      <4>1. v \in layer[r]
        BY <2>1, <3>2
      <4>2. /\ d \in updated[r] /\ units[r][d].status = "completed"
            /\ units[r][d].output # 0 =>
                 <<d, units[r][d].output>> \in units[r][v].inputs
        BY <4>1 DEF LayerInv
      <4>3. units'[r][d] = units[r][d] /\ units'[r][v] = units[r][v]
        BY <1>0, <2>2, <2>4, <3>2, <4>1, <4>2
      <4> QED
        BY <2>1, <4>2, <4>3
    <3> QED
      BY <3>1, <3>2
  <2> HIDE DEF mine, inputs
  <2> QED
    BY <2>1, <2>4, <2>5 DEF LayerInv
<1>7. ASSUME NEW u \in Unit, DeferUnit(r, u) PROVE LayerInv(r)'
  BY <1>7 DEF TypeOK, DeferUnit, LayerInv
<1>8. CASE SubmitLayer(r)
  <2>1. /\ pc'[r] = "layer" /\ layer' = layer /\ updated' = updated /\ units' = units
        /\ \A u \in Unit : worker'[r][u] # "none" => u \in layer[r]
    BY <1>8 DEF TypeOK, SubmitLayer
  <2> QED
    BY <2>1 DEF LayerInv
<1>9. CASE RepeatPass(r)
  <2>1. \A u \in Unit : worker'[r][u] = "none"
    BY <1>9 DEF RepeatPass, EndPass, LayerInv
  <2> QED
    BY <1>0, <1>9, <2>1, NextPassLayer DEF RepeatPass
<1>10. CASE DetectCycle(r)
  <2>1. /\ pc'[r] = "cycle" /\ layer' = layer /\ updated' = updated /\ units' = units
        /\ worker' = worker /\ layer[r] = {} /\ pc[r] = "scan"
    BY <1>10 DEF TypeOK, DetectCycle, EndPass
  <2> QED
    BY <2>1 DEF LayerInv
<1>11. ASSUME NEW u \in Unit, BreakCycle(r, u) PROVE LayerInv(r)'
  <2>1. /\ pc'[r] \in {"cycle", "finalize"} /\ layer'[r] = {} /\ worker' = worker
        /\ pc[r] = "cycle"
    BY <1>11 DEF TypeOK, BreakCycle, LayerInv
  <2> QED
    BY <2>1 DEF LayerInv
<1>12. ASSUME NEW u \in Unit, StartWorker(r, u) PROVE LayerInv(r)'
  BY <1>12 DEF TypeOK, StartWorker, LayerInv
<1>13. ASSUME NEW u \in Unit, BeginAttempt(r, u) PROVE LayerInv(r)'
  BY <1>13 DEF TypeOK, BeginAttempt, LayerInv
(* A pool thread settles its own unit. *)
<1>14. ASSUME NEW u \in Unit, AttemptSucceeds(r, u) \/ GiveUp(r, u) PROVE LayerInv(r)'
  <2>1. /\ pc' = pc /\ layer' = layer /\ updated' = updated /\ todo' = todo
        /\ worker[r][u] # "none" /\ worker'[r][u] # "none"
        /\ \A v \in Unit \ {u} : worker'[r][v] = worker[r][v]
    BY <1>14 DEF TypeOK, AttemptSucceeds, GiveUp
  <2>2. \A v \in Unit \ {u} : units'[r][v] = units[r][v]
    BY <1>14 DEF TypeOK, AttemptSucceeds, GiveUp
  <2>3. units'[r][u].inputs = units[r][u].inputs
    <3>1. \A w \in WorkUnit : \A n, x : /\ Succeeded(w, n, x).inputs = w.inputs
                                        /\ Failed(w, n, x).inputs = w.inputs
      BY DEF WorkUnit, Succeeded, Failed
    <3>2. CASE AttemptSucceeds(r, u)
      BY <3>1, <3>2 DEF TypeOK, AttemptSucceeds
    <3>3. CASE GiveUp(r, u)
      BY <3>1, <3>3 DEF TypeOK, GiveUp
    <3> QED
      BY <1>14, <3>2, <3>3
  <2>4. pc[r] = "layer" /\ u \in layer[r] /\ u \notin updated[r]
    BY <2>1 DEF LayerInv
  <2>5. ASSUME NEW v \in layer[r], NEW d \in DependsOn[v]
        PROVE  /\ d \in updated[r] /\ units'[r][d].status = "completed"
               /\ units'[r][d].output # 0 =>
                    <<d, units'[r][d].output>> \in units'[r][v].inputs
    <3>1. /\ d \in updated[r] /\ units[r][d].status = "completed"
          /\ units[r][d].output # 0 => <<d, units[r][d].output>> \in units[r][v].inputs
      BY DEF LayerInv
    <3>2. units'[r][d] = units[r][d] /\ units'[r][v].inputs = units[r][v].inputs
      BY <1>0, <2>2, <2>3, <2>4, <3>1
    <3> QED
      BY <3>1, <3>2
  <2> QED
    BY <2>1, <2>4, <2>5 DEF LayerInv
<1>15. ASSUME NEW u \in Unit, AttemptFails(r, u) PROVE LayerInv(r)'
  BY <1>15 DEF TypeOK, AttemptFails, LayerInv
<1>16. ASSUME NEW u \in Unit, WorkerRaises(r, u) PROVE LayerInv(r)'
  BY <1>16 DEF TypeOK, WorkerRaises, LayerInv
<1>17. CASE FinishLayer(r)
  <2>1. \A u \in Unit : worker'[r][u] = "none"
    BY <1>17 DEF FinishLayer, TypeOK
  <2>2. updated[r] \cup layer[r] \in SUBSET Unit
    BY <1>0
  <2> QED
    BY <1>17, <2>1, <2>2, NextPassLayer DEF FinishLayer
<1>18. CASE AbortLayer(r) \/ FinalizeTask(r) \/ Crash(r)
  BY <1>18, ForgetLayer DEF AbortLayer, FinalizeTask, Crash
<1> QED
  BY <1>1, <1>2, <1>3, <1>4, <1>5, <1>6, <1>7, <1>8, <1>9, <1>10, <1>11, <1>12, <1>13,
     <1>14, <1>15, <1>16, <1>17, <1>18 DEF RunStep, MainStep, WorkerStep

LEMMA LayersStep ==
  ASSUME TypeOK, \A r \in Runs : LayerInv(r), [Next]_vars
  PROVE  \A r \in Runs : LayerInv(r)'
<1>1. ASSUME NEW r \in Runs, RunStep(r) PROVE \A s \in Runs : LayerInv(s)'
  <2>1. LayerInv(r)'
    BY <1>1, LayerStep
  <2>2. ASSUME NEW s \in Runs \ {r} PROVE LayerInv(s)'
    BY <1>1, OthersUntouched DEF LayerInv
  <2> QED
    BY <2>1, <2>2
<1>2. CASE UNCHANGED vars
  BY <1>2 DEF vars, LayerInv
<1> QED
  BY <1>1, <1>2 DEF Next, RunStep

(* A worker never starts a unit before all it depends on is done and among     *)
(* its inputs, however many delegations run the units of the task at once.     *)
THEOREM RunningUnitsAreFed == Spec => []RunningUnitsSeeTheirDependencies
<1> DEFINE IInv == \A r \in Runs : LayerInv(r)
<1>1. Init => IInv
  BY DEF Init, LayerInv
<1>2. TypeOK /\ IInv /\ [Next]_vars => IInv'
  BY LayersStep
<1>3. IInv => RunningUnitsSeeTheirDependencies
  BY DEF LayerInv, RunningUnitsSeeTheirDependencies, Busy
<1> QED
  <2> HIDE DEF IInv
  <2> QED
    BY <1>1, <1>2, <1>3, TypeCorrect, PTL DEF Spec

-----------------------------------------------------------------------------
(* Rows, one delegation at a time.                                           *)

(* What a step of one delegation may do to the rows: it leaves what is        *)
(* settled alone.                                                            *)
Kept ==
  \A u \in Unit : unitRow[u].status \in Terminal =>
    unitRow'[u].status = unitRow[u].status /\ unitRow'[u].output = unitRow[u].output

OutcomeOf == [u \in Unit |-> IF unitRow[u].status \in Terminal
                               THEN unitRow[u].status ELSE "open"]

LEMMA SameUnit ==
  ASSUME NEW x \in WorkUnit, NEW y \in WorkUnit, x.status = y.status,
         x.attempt_count = y.attempt_count, x.output = y.output,
         x.error = y.error, x.inputs = y.inputs
  PROVE  x = y
  BY DEF WorkUnit

(* A unit whose dependencies completed is on no cycle, and none is missing.   *)
LEMMA DoneCanRun ==
  ASSUME RowsInv, NEW u \in Unit, DependenciesDone(u)
  PROVE  ~ CannotRun(u)
<1>1. DependsOn[u] \subseteq CompletedRows /\ CompletedRows \subseteq Unit
  BY DEF DependenciesDone, CompletedRows
<1>2. \A d \in CompletedRows : unitRow[d].status = "completed"
  BY DEF CompletedRows
<1>3. ASSUME OnCycle(u) PROVE FALSE
  <2>1. PICK S \in SUBSET Unit : u \in S /\ \A v \in S : DependsOn[v] \cap S # {}
    BY <1>3 DEF OnCycle
  <2>2. S \cap CompletedRows # {}
    BY <1>1, <2>1
  <2>3. S \cap CompletedRows \in SUBSET CompletedRows
    OBVIOUS
  <2>4. PICK v \in S \cap CompletedRows : DependsOn[v] \cap (S \cap CompletedRows) = {}
    BY <2>2, <2>3 DEF RowsInv, CompletedInOrder
  <2>5. DependsOn[v] \subseteq CompletedRows
    BY <1>2, <2>4 DEF RowsInv, RowInv, DependenciesDone
  <2> QED
    BY <2>1, <2>4, <2>5
<1> QED
  BY <1>1, <1>2, <1>3 DEF CannotRun

LEMMA KeptMonotone ==
  ASSUME Kept
  PROVE  /\ CompletedRows \subseteq CompletedRows'
         /\ \A d \in CompletedRows : unitRow'[d].output = unitRow[d].output
         /\ \A u \in Unit : DependenciesDone(u) => DependenciesDone(u)'
         /\ \A u \in Unit : CannotRun(u) => CannotRun(u)'
<1>1. CompletedRows \subseteq CompletedRows'
  BY DEF Kept, CompletedRows, Terminal
<1>2. \A d \in CompletedRows : unitRow'[d].output = unitRow[d].output
  BY DEF Kept, CompletedRows, Terminal
<1>3. \A u \in Unit : DependenciesDone(u) => DependenciesDone(u)'
  BY <1>1 DEF DependenciesDone
<1>4. \A u \in Unit : CannotRun(u) => CannotRun(u)'
  BY DEF CannotRun, OnCycle, Kept, Terminal
<1> QED
  BY <1>1, <1>2, <1>3, <1>4

(* The rows a step does not write say what they said. *)
LEMMA OtherRowsFollow ==
  ASSUME Kept, NEW v \in Unit, RowInv(v), unitRow'[v] = unitRow[v],
         launched'[v] = launched[v]
  PROVE  RowInv(v)'
<1>1. /\ CompletedRows \subseteq CompletedRows'
      /\ \A d \in CompletedRows : unitRow'[d].output = unitRow[d].output
      /\ DependenciesDone(v) => DependenciesDone(v)'
      /\ CannotRun(v) => CannotRun(v)'
  BY KeptMonotone
<1>2. ASSUME unitRow[v].status = "completed"
      PROVE  unitRow[v].inputs = {<<d, unitRow'[d].output>> : d \in DependsOn[v]}
  <2>1. DependsOn[v] \subseteq CompletedRows
    BY <1>2 DEF RowInv, DependenciesDone
  <2>2. {<<d, unitRow'[d].output>> : d \in DependsOn[v]}
          = {<<d, unitRow[d].output>> : d \in DependsOn[v]}
    BY <1>1, <2>1
  <2> QED
    BY <1>2, <2>2 DEF RowInv
<1>3. unitRow[v].inputs \subseteq
        {<<d, unitRow'[d].output>> : d \in DependsOn[v] \cap CompletedRows'}
  <2>1. {<<d, unitRow[d].output>> : d \in DependsOn[v] \cap CompletedRows}
          \subseteq {<<d, unitRow'[d].output>> : d \in DependsOn[v] \cap CompletedRows'}
    BY <1>1
  <2> QED
    BY <2>1 DEF RowInv
<1> QED
  BY <1>1, <1>2, <1>3 DEF RowInv

LEMMA OrderFollows ==
  ASSUME RowsInv, NEW u \in Unit,
         CompletedRows' = CompletedRows
           \/ (CompletedRows' = CompletedRows \cup {u} /\ u \notin CompletedRows
                 /\ DependenciesDone(u))
  PROVE  CompletedInOrder'
<1>1. CASE CompletedRows' = CompletedRows
  BY <1>1 DEF RowsInv, CompletedInOrder
<1>2. CASE /\ CompletedRows' = CompletedRows \cup {u} /\ u \notin CompletedRows
           /\ DependenciesDone(u)
  <2> SUFFICES ASSUME NEW S \in SUBSET CompletedRows', S # {}
               PROVE  \E v \in S : DependsOn[v] \cap S = {}
    BY DEF CompletedInOrder
  <2>1. CASE S \ {u} = {}
    BY <1>2, <2>1 DEF DependenciesDone
  <2>2. CASE S \ {u} # {}
    <3>1. S \ {u} \in SUBSET CompletedRows
      BY <1>2
    <3>2. PICK v \in S \ {u} : DependsOn[v] \cap (S \ {u}) = {}
      BY <2>2, <3>1 DEF RowsInv, CompletedInOrder
    <3>3. DependsOn[v] \subseteq CompletedRows
      BY <3>1, <3>2 DEF RowsInv, RowInv, DependenciesDone, CompletedRows
    <3> QED
      BY <1>2, <3>2, <3>3
  <2> QED
    BY <2>1, <2>2
<1> QED
  BY <1>1, <1>2

(* What WorkUnitOutcomes allows. *)
OutcomeStep == Outcomes!Next \/ UNCHANGED <<OutcomeOf, launched>>

LEMMA AbstractLaunch ==
  ASSUME NEW u \in Unit, unitRow[u].status \notin Terminal, launched[u] < MaxAttempts,
         DependenciesDone(u), launched' = [launched EXCEPT ![u] = @ + 1],
         UNCHANGED OutcomeOf
  PROVE  Outcomes!Next
<1>1. Outcomes!Launch(u)
  BY DEF Outcomes!Launch, OutcomeOf, DependenciesDone, CompletedRows, Terminal,
         Unit, Outcomes!Unit
<1> QED
  BY <1>1 DEF Outcomes!Next, Unit, Outcomes!Unit

LEMMA AbstractSettle ==
  ASSUME NEW u \in Unit, unitRow[u].status \notin Terminal,
         unitRow'[u].status \in Terminal, RowsInv,
         \A v \in Unit \ {u} : unitRow'[v] = unitRow[v],
         UNCHANGED launched,
         unitRow'[u].status = "completed" => launched[u] > 0,
         unitRow'[u].status = "failed" => launched[u] = MaxAttempts,
         unitRow'[u].status = "skipped" => CannotRun(u) /\ launched[u] = 0
  PROVE  Outcomes!Next
<1>1. /\ OutcomeOf[u] = "open"
      /\ OutcomeOf' = [OutcomeOf EXCEPT ![u] = unitRow'[u].status]
  BY DEF OutcomeOf
<1>2. ASSUME NEW result, unitRow'[u].status = result PROVE Outcomes!Settle(u, result)
  BY <1>1, <1>2 DEF Outcomes!Settle, OutcomeOf
<1>3. CASE unitRow'[u].status = "completed"
  BY <1>2, <1>3 DEF Outcomes!Next, Outcomes!Complete, Unit, Outcomes!Unit
<1>4. CASE unitRow'[u].status = "failed"
  BY <1>2, <1>4 DEF Outcomes!Next, Outcomes!Fail, Unit, Outcomes!Unit
<1>5. CASE unitRow'[u].status = "skipped"
  <2>1. CannotRun(u) => Outcomes!CannotRun(u)
    <3>1. OnCycle(u) => Outcomes!DependsOnCycle(u)
      BY DEF OnCycle, Outcomes!DependsOnCycle, Unit, Outcomes!Unit
    <3>2. \A d \in Unit : unitRow[d].status \in {"failed", "skipped"}
                            => OutcomeOf[d] \in {"failed", "skipped"}
      BY DEF OutcomeOf, Terminal
    <3> QED
      BY <3>1, <3>2 DEF CannotRun, Outcomes!CannotRun, OutcomeOf, Unit, Outcomes!Unit
  <2> QED
    BY <1>2, <1>5, <2>1 DEF Outcomes!Next, Outcomes!Skip, Unit, Outcomes!Unit
<1> QED
  BY <1>3, <1>4, <1>5 DEF Terminal

(* A step that writes one row, so that it says what is so, keeps the rows and  *)
(* is a step of WorkUnitOutcomes.                                             *)
LEMMA RowWrite ==
  ASSUME TypeOK, TypeOK', BudgetInv', RowsInv, NEW u \in Unit,
         \A v \in Unit \ {u} : unitRow'[v] = unitRow[v],
         unitRow[u].status \in Terminal =>
           unitRow'[u].status = unitRow[u].status /\ unitRow'[u].output = unitRow[u].output,
         Kept => RowInv(u)',
         unitRow'[u].status = "completed" => DependenciesDone(u),
         unitRow'[u].status = "skipped" => CannotRun(u),
         \/ launched' = launched
         \/ /\ launched' = [launched EXCEPT ![u] = @ + 1] /\ DependenciesDone(u)
            /\ unitRow[u].status \notin Terminal /\ unitRow'[u].status \notin Terminal
  PROVE  RowsInv' /\ Kept /\ OutcomeStep
<1>1. Kept
  BY DEF Kept
<1>2. RowInv(u)'
  BY <1>1
<1>3. ASSUME NEW v \in Unit \ {u} PROVE RowInv(v)'
  <2>1. launched'[v] = launched[v]
    BY DEF TypeOK
  <2> QED
    BY <1>1, <2>1, OtherRowsFollow DEF RowsInv
<1>4. CompletedInOrder'
  <2>1. CASE unitRow'[u].status = "completed" /\ unitRow[u].status # "completed"
    <3>1. CompletedRows' = CompletedRows \cup {u} /\ u \notin CompletedRows
      BY <2>1 DEF CompletedRows
    <3> QED
      BY <2>1, <3>1, OrderFollows
  <2>2. CASE ~ (unitRow'[u].status = "completed" /\ unitRow[u].status # "completed")
    <3>1. CompletedRows' = CompletedRows
      BY <2>2 DEF CompletedRows, Terminal
    <3> QED
      BY <3>1, OrderFollows
  <2> QED
    BY <2>1, <2>2
<1>5. OutcomeStep
  <2>1. CASE launched' # launched
    <3>1. OutcomeOf' = OutcomeOf
      BY <2>1 DEF OutcomeOf
    <3>2. launched[u] < MaxAttempts
      <4>1. launched'[u] = launched[u] + 1 /\ launched[u] \in Nat
        BY <2>1 DEF TypeOK
      <4>2. launched'[u] <= MaxAttempts
        BY <1>2 DEF RowInv, BudgetInv, ChargedAttemptsWithinBudget
      <4> QED
        BY <4>1, <4>2, MaxAttemptsAssumption
    <3> QED
      BY <2>1, <3>1, <3>2, AbstractLaunch DEF OutcomeStep
  <2>2. CASE launched' = launched
    <3>1. CASE unitRow[u].status \notin Terminal /\ unitRow'[u].status \in Terminal
      <4>1. unitRow'[u].status = "skipped" => launched[u] = 0
        <5>1. launched[u] > 0 => DependenciesDone(u)
          BY DEF RowsInv, RowInv
        <5>2. launched[u] \in Nat
          BY DEF TypeOK
        <5> QED
          BY <5>1, <5>2, DoneCanRun
      <4>2. /\ unitRow'[u].status = "completed" => launched[u] > 0
            /\ unitRow'[u].status = "failed" => launched[u] = MaxAttempts
        BY <1>2, <2>2 DEF RowInv
      <4> QED
        BY <2>2, <3>1, <4>1, <4>2, AbstractSettle DEF OutcomeStep
    <3>2. CASE ~ (unitRow[u].status \notin Terminal /\ unitRow'[u].status \in Terminal)
      <4>1. OutcomeOf' = OutcomeOf
        BY <3>2 DEF OutcomeOf
      <4> QED
        BY <2>2, <4>1 DEF OutcomeStep
    <3> QED
      BY <3>1, <3>2
  <2> QED
    BY <2>1, <2>2
<1> QED
  BY <1>1, <1>2, <1>3, <1>4, <1>5 DEF RowsInv

LEMMA RowsUntouched ==
  ASSUME RowsInv, UNCHANGED <<unitRow, launched>>
  PROVE  RowsInv' /\ Kept /\ OutcomeStep
<1>1. Kept
  BY DEF Kept
<1>2. \A v \in Unit : RowInv(v)'
  BY <1>1, OtherRowsFollow DEF RowsInv
<1>3. CompletedInOrder' /\ OutcomeStep
  BY DEF RowsInv, CompletedInOrder, CompletedRows, OutcomeStep, OutcomeOf
<1> QED
  BY <1>1, <1>2, <1>3 DEF RowsInv

-----------------------------------------------------------------------------
(* What the one delegation there is knows, step by step.                     *)

Reached(r) ==
  TypeOK /\ BudgetInv /\ LayerInv(r) /\ RowsInv /\ MemoryInv(r)
Sound(r) == RowsInv' /\ Kept /\ OutcomeStep /\ MemoryInv(r)'

LEMMA SettledCopies ==
  ASSUME NEW r \in Runs, Reached(r), pc[r] \in {"scan", "cycle", "finalize"},
         NEW u \in Unit
  PROVE  /\ worker[r][u] = "none" /\ units[r][u] = unitRow[u]
         /\ unitRow[u].status = "completed" => u \in updated[r]
<1>1. worker[r][u] = "none"
  BY DEF Reached, LayerInv
<1>2. CopyInv(r, u) /\ PassInv(r)
  BY DEF Reached, MemoryInv, HasRead, Executing
<1> QED
  BY <1>1, <1>2 DEF CopyInv, PassInv

LEMMA LayerUnits ==
  ASSUME NEW r \in Runs, Reached(r), NEW u \in layer[r]
  PROVE  /\ u \in Unit /\ u \notin updated[r] /\ pc[r] \in {"scan", "layer"}
         /\ CopyInv(r, u) /\ PassInv(r)
         /\ DependenciesDone(u) /\ ~ CannotRun(u) /\ unitRow[u].status # "skipped"
         /\ {<<d, unitRow[d].output>> : d \in DependsOn[u]} \subseteq units[r][u].inputs
<1>1. u \in Unit /\ layer[r] \subseteq Unit /\ updated[r] \subseteq Unit
  BY DEF Reached, TypeOK
<1>2. pc[r] \in {"scan", "layer"} /\ u \notin updated[r]
  BY DEF Reached, LayerInv
<1>3. PassInv(r) /\ \A v \in Unit : CopyInv(r, v)
  BY <1>2 DEF Reached, MemoryInv, HasRead, Executing
<1>4. ASSUME NEW d \in DependsOn[u]
      PROVE  /\ d \in CompletedRows
             /\ <<d, unitRow[d].output>> \in units[r][u].inputs
  <2>1. /\ d \in updated[r] /\ units[r][d].status = "completed" /\ d \in Unit
        /\ units[r][d].output # 0 => <<d, units[r][d].output>> \in units[r][u].inputs
    BY <1>1 DEF Reached, LayerInv
  <2>2. worker[r][d] = "none"
    BY <2>1 DEF Reached, LayerInv
  <2>3. units[r][d] = unitRow[d]
    BY <1>3, <2>1, <2>2 DEF CopyInv
  <2> QED
    BY <2>1, <2>3 DEF Reached, RowsInv, RowInv, CompletedRows
<1>5. DependenciesDone(u)
  BY <1>4 DEF DependenciesDone
<1>6. ~ CannotRun(u)
  BY <1>1, <1>5, DoneCanRun DEF Reached
<1>7. unitRow[u].status # "skipped"
  BY <1>1, <1>6 DEF Reached, RowsInv, RowInv
<1> QED
  BY <1>1, <1>2, <1>3, <1>4, <1>5, <1>6, <1>7

LEMMA ForgetSound ==
  ASSUME NEW r \in Runs, Reached(r), Forget(r), UNCHANGED <<unitRow, launched>>
  PROVE  Sound(r)
<1>1. pc'[r] = "idle"
  BY DEF Forget, Reached, TypeOK
<1>2. MemoryInv(r)'
  BY <1>1 DEF MemoryInv, HasRead, Executing
<1> QED
  BY <1>2, RowsUntouched DEF Reached, Sound

(* A new pass visits what is left. *)
LEMMA NextPassMemory ==
  ASSUME NEW r \in Runs, Reached(r), NEW known \in SUBSET Unit, NextPass(r, known),
         \A u \in Unit : worker'[r][u] = "none" /\ units'[r][u] = units[r][u]
                         /\ units[r][u] = unitRow'[u],
         \A u \in known : units[r][u].status \in Terminal,
         \A u \in Unit \ known : units[r][u].status # "completed"
  PROVE  MemoryInv(r)'
<1>1. /\ pc'[r] = IF Unit \ known = {} THEN "finalize" ELSE "scan"
      /\ updated'[r] = known /\ todo'[r] = Unit \ known
  BY DEF NextPass, Remaining, Reached, TypeOK
<1>2. PassInv(r)'
  BY <1>1 DEF PassInv, Remaining
<1>3. \A u \in Unit : CopyInv(r, u)'
  BY DEF CopyInv
<1> QED
  BY <1>1, <1>2, <1>3 DEF MemoryInv

LEMMA BeforeTheRun ==
  ASSUME NEW r \in Runs, Reached(r), Delegate(r) \/ CreateTask(r)
  PROVE  Sound(r)
<1>1. /\ todo'[r] = Unit /\ pc'[r] \in {"create", "plan"}
      /\ UNCHANGED <<unitRow, launched>>
  <2>1. CASE Delegate(r)
    BY <2>1 DEF Delegate, Reached, TypeOK, dbVars
  <2>2. CASE CreateTask(r)
    BY <2>2 DEF CreateTask, Reached, TypeOK, MemoryInv
  <2> QED
    BY <2>1, <2>2
<1>2. MemoryInv(r)'
  BY <1>1 DEF MemoryInv, HasRead, Executing
<1> QED
  BY <1>1, <1>2, RowsUntouched DEF Reached, Sound

LEMMA PassSound ==
  ASSUME NEW r \in Runs, Reached(r), StartRun(r) \/ RepeatPass(r)
  PROVE  Sound(r)
<1>1. UNCHANGED <<unitRow, launched, units, worker>>
  BY DEF StartRun, RepeatPass, poolVars, dbVars
<1>2. CASE StartRun(r)
  <2> DEFINE known == {u \in Unit : units[r][u].status = "completed"}
  <2>1. NextPass(r, known) /\ pc[r] = "plan" /\ todo[r] = {}
    BY <1>2 DEF StartRun
  <2>2. \A u \in Unit : worker[r][u] = "none" /\ CopyInv(r, u)
    BY <2>1 DEF Reached, LayerInv, MemoryInv, HasRead
  <2>3. \A u \in Unit : units[r][u] = unitRow[u]
    BY <2>2 DEF CopyInv
  <2>4. MemoryInv(r)'
    BY <1>1, <2>1, <2>2, <2>3, NextPassMemory DEF Terminal
  <2> QED
    BY <1>1, <2>4, RowsUntouched DEF Reached, Sound
<1>3. CASE RepeatPass(r)
  <2>1. NextPass(r, updated[r]) /\ pc[r] = "scan" /\ updated[r] \in SUBSET Unit
    BY <1>3 DEF RepeatPass, EndPass, Reached, TypeOK
  <2>2. \A u \in Unit : worker[r][u] = "none" /\ units[r][u] = unitRow[u]
                        /\ (unitRow[u].status = "completed" => u \in updated[r])
    BY <2>1, SettledCopies
  <2>3. \A u \in updated[r] : units[r][u].status \in Terminal
    BY <2>1 DEF Reached, MemoryInv, Executing, PassInv
  <2>4. MemoryInv(r)'
    BY <1>1, <2>1, <2>2, <2>3, NextPassMemory
  <2> QED
    BY <1>1, <2>4, RowsUntouched DEF Reached, Sound
<1> QED
  BY <1>2, <1>3

LEMMA FinishSound ==
  ASSUME NEW r \in Runs, Reached(r), FinishLayer(r)
  PROVE  Sound(r)
<1> DEFINE known == updated[r] \cup layer[r]
<1>1. /\ UNCHANGED <<unitRow, launched, units>> /\ NextPass(r, known)
      /\ pc[r] = "layer" /\ \A u \in layer[r] : worker[r][u] = "done"
      /\ \A u \in Unit : worker'[r][u] = "none"
  BY DEF FinishLayer, PoolDrained, Reached, TypeOK, dbVars
<1>2. known \in SUBSET Unit
  BY DEF Reached, TypeOK
<1>3. PassInv(r) /\ \A u \in Unit : CopyInv(r, u)
  BY <1>1 DEF Reached, MemoryInv, HasRead, Executing
<1>4. \A u \in Unit : worker[r][u] \in {"none", "done"}
  BY <1>1 DEF Reached, LayerInv
<1>5. \A u \in Unit : units[r][u] = unitRow[u]
  BY <1>3, <1>4 DEF CopyInv
<1>6. \A u \in known : units[r][u].status \in Terminal
  BY <1>1, <1>2, <1>3 DEF CopyInv, PassInv, Terminal
<1>7. \A u \in Unit \ known : units[r][u].status # "completed"
  BY <1>3 DEF PassInv, Reached, LayerInv
<1>8. MemoryInv(r)'
  BY <1>1, <1>2, <1>5, <1>6, <1>7, NextPassMemory
<1> QED
  BY <1>1, <1>8, RowsUntouched DEF Reached, Sound

(* A unit that is put off waits for one that is still to be settled. *)
LEMMA DeferSound ==
  ASSUME NEW r \in Runs, Reached(r), NEW u \in Unit, DeferUnit(r, u)
  PROVE  Sound(r)
<1>1. /\ UNCHANGED <<unitRow, launched, units, updated, layer, progressed, pc, worker,
                     attempts, call>>
      /\ pc[r] = "scan" /\ todo'[r] = todo[r] \ {u}
      /\ ~ BlockedForGood(r, u) /\ ~ DependsOn[u] \subseteq Completed(r)
  BY DEF DeferUnit, Reached, TypeOK, dbVars, poolVars
<1>2. PassInv(r) /\ updated[r] \subseteq Unit
  BY <1>1 DEF Reached, MemoryInv, Executing, TypeOK
<1>3. DependsOn[u] \cap Remaining(updated[r]) # {}
  <2>1. PICK d \in DependsOn[u] : d \notin Completed(r)
    BY <1>1
  <2>2. d \in Unit
    BY <1>1 DEF BlockedForGood
  <2>3. ASSUME d \in updated[r] PROVE FALSE
    BY <1>1, <1>2, <2>1, <2>3 DEF BlockedForGood, Completed, PassInv, Terminal
  <2> QED
    BY <2>2, <2>3 DEF Remaining
<1>4. PassInv(r)'
  BY <1>1, <1>2, <1>3 DEF PassInv, Remaining
<1>5. \A v \in Unit : CopyInv(r, v)'
  BY <1>1 DEF CopyInv, Reached, MemoryInv, HasRead, Executing
<1> QED
  BY <1>1, <1>4, <1>5, RowsUntouched DEF Reached, Sound, MemoryInv

LEMMA SubmitSound ==
  ASSUME NEW r \in Runs, Reached(r), SubmitLayer(r)
  PROVE  Sound(r)
<1>1. /\ UNCHANGED <<unitRow, launched, units, updated>>
      /\ pc[r] = "scan" /\ pc'[r] = "layer"
      /\ \A v \in Unit : worker'[r][v] \in {"none", "queued"} /\ attempts'[r][v] = 0
  BY DEF SubmitLayer, EndPass, Reached, TypeOK, dbVars, runVars
<1>2. \A v \in Unit : units[r][v] = unitRow[v]
                      /\ (unitRow[v].status = "completed" => v \in updated[r])
  BY <1>1, SettledCopies
<1>3. \A v \in updated[r] : units[r][v].status \in Terminal
  BY <1>1 DEF Reached, MemoryInv, Executing, PassInv
<1>4. PassInv(r)' /\ \A v \in Unit : CopyInv(r, v)'
  BY <1>1, <1>2, <1>3 DEF PassInv, CopyInv
<1> QED
  BY <1>1, <1>4, RowsUntouched DEF Reached, Sound, MemoryInv

(* What a pass without progress leaves over waits for itself. *)
LEMMA DetectSound ==
  ASSUME NEW r \in Runs, Reached(r), DetectCycle(r)
  PROVE  Sound(r)
<1>1. /\ UNCHANGED <<unitRow, launched, units, updated, layer, progressed, worker,
                     attempts, call>>
      /\ pc[r] = "scan" /\ todo[r] = {} /\ layer[r] = {} /\ ~ progressed[r]
      /\ pc'[r] = "cycle" /\ todo'[r] = Remaining(updated[r])
  BY DEF DetectCycle, EndPass, Reached, TypeOK, dbVars, poolVars
<1>2. PassInv(r)
  BY <1>1 DEF Reached, MemoryInv, Executing
<1>3. \A v \in Remaining(updated[r]) : DependsOn[v] \cap Remaining(updated[r]) # {}
  BY <1>1, <1>2 DEF PassInv
<1>4. \A v \in Remaining(updated[r]) : OnCycle(v)
  <2>1. Remaining(updated[r]) \in SUBSET Unit
    BY DEF Remaining
  <2> QED
    BY <1>3, <2>1 DEF OnCycle
<1>5. PassInv(r)'
  BY <1>1, <1>2, <1>4 DEF PassInv, Remaining, OnCycle
<1>6. \A v \in Unit : CopyInv(r, v)'
  BY <1>1 DEF CopyInv, Reached, MemoryInv, HasRead, Executing
<1> QED
  BY <1>1, <1>5, <1>6, RowsUntouched DEF Reached, Sound, MemoryInv

(* A step of a pool thread, whatever it does to its own unit. *)
LEMMA ThreadMemory ==
  ASSUME NEW r \in Runs, Reached(r), NEW u \in layer[r], pc[r] = "layer",
         UNCHANGED <<pc, updated, todo, layer, progressed>>,
         \A v \in Unit \ {u} : /\ unitRow'[v] = unitRow[v] /\ units'[r][v] = units[r][v]
                               /\ worker'[r][v] = worker[r][v]
                               /\ attempts'[r][v] = attempts[r][v]
                               /\ call'[r][v] = call[r][v],
         CopyInv(r, u)',
         units'[r][u].status = "completed" => worker'[r][u] = "done"
  PROVE  MemoryInv(r)'
<1>1. /\ PassInv(r) /\ \A v \in Unit : CopyInv(r, v)
      /\ u \notin updated[r] /\ updated[r] \subseteq Unit
  BY LayerUnits DEF Reached, MemoryInv, HasRead, Executing, TypeOK
<1>2. \A v \in Unit : CopyInv(r, v)'
  BY <1>1 DEF CopyInv
<1>3. PassInv(r)'
  BY <1>1 DEF PassInv, Remaining
<1> QED
  BY <1>2, <1>3 DEF MemoryInv, HasRead, Executing

LEMMA ThreadSound ==
  ASSUME NEW r \in Runs, Reached(r), NEW u \in Unit,
         StartWorker(r, u) \/ WorkerRaises(r, u)
  PROVE  Sound(r)
<1>1. /\ UNCHANGED <<unitRow, launched, units, pc, updated, todo, layer, progressed,
                     attempts, call>>
      /\ \/ worker[r][u] = "queued" /\ worker'[r][u] = "ready"
         \/ worker[r][u] \in {"ready", "calling"} /\ worker'[r][u] = "raised"
      /\ \A v \in Unit \ {u} : worker'[r][v] = worker[r][v]
  BY DEF StartWorker, WorkerRaises, Reached, TypeOK, dbVars, runVars
<1>2. u \in layer[r] /\ pc[r] = "layer"
  BY <1>1 DEF Reached, LayerInv
<1>3. CopyInv(r, u) /\ PassInv(r) /\ u \notin updated[r]
  BY <1>2, LayerUnits
<1>4. units[r][u].status # "completed"
  BY <1>1, <1>3 DEF PassInv
<1>5. CopyInv(r, u)'
  BY <1>1, <1>3 DEF CopyInv, Reached, TypeOK, WorkUnit
<1>6. MemoryInv(r)'
  BY <1>1, <1>2, <1>4, <1>5, ThreadMemory
<1> QED
  BY <1>1, <1>6, RowsUntouched DEF Reached, Sound

LEMMA SaveSound ==
  ASSUME NEW r \in Runs, Reached(r), NEW u \in Unit, SaveWorkUnit(r, u),
         TypeOK', BudgetInv'
  PROVE  Sound(r)
<1>1. /\ UNCHANGED <<launched, pc, worker, attempts, call>>
      /\ pc[r] = "plan" /\ todo'[r] = todo[r] \ {u}
      /\ unitRow'[u] = IF unitRow[u].status = "absent" THEN PlannedUnit ELSE unitRow[u]
      /\ units'[r][u] = unitRow'[u]
      /\ \A v \in Unit \ {u} : unitRow'[v] = unitRow[v] /\ units'[r][v] = units[r][v]
  BY DEF SaveWorkUnit, Reached, TypeOK, poolVars
<1>2. \A v \in Unit : worker[r][v] = "none"
  BY <1>1 DEF Reached, LayerInv
<1>3. PlannedUnit = [status |-> "pending", attempt_count |-> 0, output |-> 0,
                     error |-> "none", inputs |-> {}]
  BY DEF PlannedUnit, NoRow
<1>4. RowInv(u)
  BY DEF Reached, RowsInv
<1>5. ASSUME Kept PROVE RowInv(u)'
  <2>1. CASE unitRow[u].status = "absent"
    <3>1. /\ unitRow'[u].status = "pending" /\ unitRow'[u].attempt_count = 0
          /\ unitRow'[u].output = 0 /\ unitRow'[u].error = "none"
          /\ unitRow'[u].inputs = {}
      BY <1>1, <1>3, <2>1
    <3>2. launched'[u] = 0
      BY <1>1, <1>4, <2>1 DEF RowInv
    <3> QED
      BY <3>1, <3>2 DEF RowInv
  <2>2. CASE unitRow[u].status # "absent"
    BY <1>1, <1>4, <1>5, <2>2, OtherRowsFollow
  <2> QED
    BY <2>1, <2>2
<1>6. /\ unitRow'[u].status = "completed" => unitRow[u].status = "completed"
      /\ unitRow'[u].status = "skipped" => unitRow[u].status = "skipped"
      /\ unitRow[u].status \in Terminal => unitRow'[u] = unitRow[u]
  BY <1>1, <1>3 DEF Terminal
<1>7. RowsInv' /\ Kept /\ OutcomeStep
  <2>1. /\ unitRow'[u].status = "completed" => DependenciesDone(u)
        /\ unitRow'[u].status = "skipped" => CannotRun(u)
    BY <1>4, <1>6 DEF RowInv
  <2> QED
    BY <1>1, <1>5, <1>6, <2>1, RowWrite DEF Reached
<1>8. ASSUME NEW v \in Unit, HasRead(r, v)' PROVE CopyInv(r, v)'
  <2>1. CASE v = u
    BY <1>1, <1>2, <2>1 DEF CopyInv
  <2>2. CASE v # u
    BY <1>1, <1>8, <2>2 DEF CopyInv, HasRead, Reached, MemoryInv
  <2> QED
    BY <2>1, <2>2
<1> QED
  BY <1>1, <1>7, <1>8 DEF Sound, MemoryInv, Executing

(* A unit that cannot run was never launched: skipping it settles it. *)
LEMMA SkipSound ==
  ASSUME NEW r \in Runs, Reached(r), NEW u \in Unit, NEW why \in {"dependency", "cycle"},
         Skip(r, u, why), UNCHANGED <<launched, layer, poolVars>>, CannotRun(u),
         u \in todo[r], u \notin updated[r], TypeOK', BudgetInv',
         \/ pc[r] = "scan" /\ pc'[r] = "scan" /\ progressed'[r]
         \/ /\ pc[r] = "cycle"
            /\ pc'[r] = IF todo'[r] = {} THEN "finalize" ELSE "cycle"
  PROVE  Sound(r)
<1>1. /\ unitRow'[u] = Skipped(unitRow[u], why) /\ units'[r][u] = Skipped(units[r][u], why)
      /\ \A v \in Unit \ {u} : unitRow'[v] = unitRow[v] /\ units'[r][v] = units[r][v]
      /\ updated'[r] = updated[r] \cup {u} /\ todo'[r] = todo[r] \ {u}
      /\ UNCHANGED <<launched, layer, worker, attempts, call>>
  BY DEF Skip, Reached, TypeOK, poolVars
<1>2. \A w \in WorkUnit : /\ Skipped(w, why).status = "skipped"
                          /\ Skipped(w, why).error = why
                          /\ Skipped(w, why).inputs = w.inputs
                          /\ Skipped(w, why).output = w.output
                          /\ Skipped(w, why).attempt_count = w.attempt_count
  BY DEF Skipped, WorkUnit
<1>3. unitRow[u] \in WorkUnit /\ units[r][u] \in WorkUnit /\ launched[u] \in Nat
  BY DEF Reached, TypeOK
<1>4. RowInv(u) /\ ~ DependenciesDone(u)
  BY DoneCanRun DEF Reached, RowsInv
<1>5. launched[u] = 0 /\ unitRow[u].status \notin {"completed", "failed"}
      /\ unitRow[u].output = 0
  BY <1>3, <1>4 DEF RowInv
<1>6. ASSUME Kept PROVE RowInv(u)'
  <2>1. CannotRun(u)' /\ CompletedRows \subseteq CompletedRows'
        /\ \A d \in CompletedRows : unitRow'[d].output = unitRow[d].output
    BY <1>6, KeptMonotone
  <2>2. unitRow[u].inputs \subseteq
          {<<d, unitRow'[d].output>> : d \in DependsOn[u] \cap CompletedRows'}
    BY <1>4, <2>1 DEF RowInv
  <2> QED
    BY <1>1, <1>2, <1>3, <1>4, <1>5, <2>1, <2>2, ZenonT(30) DEF RowInv
<1>7. RowsInv' /\ Kept /\ OutcomeStep
  <2>1. /\ unitRow'[u].status = "skipped" /\ unitRow'[u].output = unitRow[u].output
        /\ unitRow[u].status \in Terminal => unitRow[u].status = "skipped"
    BY <1>1, <1>2, <1>3, <1>5 DEF Terminal
  <2> QED
    BY <1>1, <1>6, <2>1, RowWrite DEF Reached
<1>8. pc[r] \in {"scan", "cycle"} /\ pc'[r] \in {"scan", "cycle", "finalize"}
  OBVIOUS
<1>9. \A v \in Unit : CopyInv(r, v)'
  <2>1. \A v \in Unit : worker[r][v] = "none" /\ units[r][v] = unitRow[v]
    BY <1>8, SettledCopies
  <2> QED
    BY <1>1, <2>1 DEF CopyInv
<1>10. PassInv(r) /\ updated[r] \subseteq Unit
  BY <1>8 DEF Reached, MemoryInv, Executing, TypeOK
<1>11. PassInv(r)'
  <2>1. \A v \in updated'[r] : units'[r][v].status \in Terminal
    BY <1>1, <1>2, <1>3, <1>10 DEF PassInv, Terminal
  <2>2. \A v \in Unit \ updated'[r] : units'[r][v].status = "completed" => worker'[r][v] = "done"
    BY <1>1, <1>10 DEF PassInv
  <2>3. CASE pc[r] = "scan" /\ pc'[r] = "scan" /\ progressed'[r]
    BY <2>1, <2>2, <2>3 DEF PassInv
  <2>4. CASE pc[r] = "cycle" /\ pc'[r] = IF todo'[r] = {} THEN "finalize" ELSE "cycle"
    <3>1. todo[r] = Remaining(updated[r]) /\ \A v \in todo[r] : OnCycle(v)
      BY <1>10, <2>4 DEF PassInv
    <3>2. todo'[r] = Remaining(updated'[r]) /\ \A v \in todo'[r] : OnCycle(v)
      BY <1>1, <3>1 DEF Remaining
    <3>3. pc'[r] = "finalize" => updated'[r] = Unit
      BY <1>1, <1>10, <2>4, <3>2 DEF Remaining
    <3> QED
      BY <2>1, <2>2, <2>4, <3>2, <3>3 DEF PassInv, OnCycle
  <2> QED
    BY <2>3, <2>4
<1> QED
  BY <1>7, <1>8, <1>9, <1>11 DEF Sound, MemoryInv

LEMMA SkipsSound ==
  ASSUME NEW r \in Runs, Reached(r), NEW u \in Unit,
         SkipUnit(r, u) \/ BreakCycle(r, u), TypeOK', BudgetInv'
  PROVE  Sound(r)
<1>1. CASE SkipUnit(r, u)
  <2>1. /\ Skip(r, u, "dependency") /\ UNCHANGED <<launched, layer, poolVars>>
        /\ pc[r] = "scan" /\ pc'[r] = "scan" /\ progressed'[r] /\ u \in todo[r]
        /\ BlockedForGood(r, u)
    BY <1>1 DEF SkipUnit, Visits, Reached, TypeOK
  <2>2. u \notin updated[r]
    BY <2>1 DEF Reached, LayerInv
  <2>3. \A d \in Unit : units[r][d] = unitRow[d]
    BY <2>1, SettledCopies
  <2>4. CannotRun(u)
    BY <2>1, <2>3 DEF BlockedForGood, CannotRun
  <2> QED
    BY <2>1, <2>2, <2>4, SkipSound
<1>2. CASE BreakCycle(r, u)
  <2>1. /\ Skip(r, u, "cycle") /\ UNCHANGED <<launched, layer, poolVars>>
        /\ pc[r] = "cycle" /\ pc'[r] = (IF todo'[r] = {} THEN "finalize" ELSE "cycle")
        /\ u \in todo[r]
    BY <1>2 DEF BreakCycle, Visits, Reached, TypeOK
  <2>2. u \notin updated[r] /\ OnCycle(u)
    BY <2>1 DEF Reached, MemoryInv, Executing, PassInv, Remaining
  <2>3. CannotRun(u)
    BY <2>2 DEF CannotRun
  <2> QED
    BY <2>1, <2>2, <2>3, SkipSound
<1> QED
  BY <1>1, <1>2

LEMMA AdmitSound ==
  ASSUME NEW r \in Runs, Reached(r), NEW u \in Unit, AdmitUnit(r, u), TypeOK', BudgetInv'
  PROVE  Sound(r)
<1> DEFINE inputs == units[r][u].inputs \cup DependencyArtifacts(r, u)
<1>1. /\ UNCHANGED <<launched, pc, updated, progressed, worker, attempts, call>>
      /\ pc[r] = "scan" /\ u \in todo[r] /\ DependsOn[u] \subseteq Completed(r)
      /\ todo'[r] = todo[r] \ {u} /\ layer'[r] = layer[r] \cup {u}
      /\ unitRow' = IF inputs # units[r][u].inputs
                      THEN [unitRow EXCEPT ![u] = WithInputs(unitRow[u], inputs)]
                      ELSE unitRow
      /\ units' = [units EXCEPT ![r][u] = WithInputs(units[r][u], inputs)]
  BY DEF AdmitUnit, Visits, Reached, TypeOK, poolVars
<1>2. /\ \A v \in Unit : worker[r][v] = "none" /\ units[r][v] = unitRow[v]
                         /\ (unitRow[v].status = "completed" => v \in updated[r])
      /\ u \notin updated[r] /\ updated[r] \subseteq Unit /\ PassInv(r)
  BY <1>1, SettledCopies DEF Reached, LayerInv, TypeOK, MemoryInv, Executing
<1>3. DependsOn[u] \subseteq CompletedRows
  BY <1>1, <1>2 DEF Completed, CompletedRows
<1>4. unitRow[u] \in WorkUnit /\ RowInv(u)
  BY DEF Reached, TypeOK, RowsInv
<1>5. \A d \in CompletedRows : unitRow[d].output # 0 /\ units[r][d] = unitRow[d]
  BY <1>2 DEF Reached, RowsInv, RowInv, CompletedRows
<1>6. inputs \subseteq {<<d, unitRow[d].output>> : d \in DependsOn[u] \cap CompletedRows}
  <2>1. DependencyArtifacts(r, u)
          \subseteq {<<d, unitRow[d].output>> : d \in DependsOn[u] \cap CompletedRows}
    BY <1>3, <1>5 DEF DependencyArtifacts
  <2> QED
    BY <1>2, <1>4, <2>1 DEF RowInv
<1> HIDE DEF inputs
<1>7. \A w \in WorkUnit : /\ WithInputs(w, inputs).status = w.status
                          /\ WithInputs(w, inputs).error = w.error
                          /\ WithInputs(w, inputs).inputs = inputs
                          /\ WithInputs(w, inputs).output = w.output
                          /\ WithInputs(w, inputs).attempt_count = w.attempt_count
                          /\ inputs = w.inputs => WithInputs(w, inputs) = w
  BY DEF WithInputs, WorkUnit
<1>8. /\ unitRow'[u] = WithInputs(unitRow[u], inputs)
      /\ units'[r][u] = unitRow'[u]
      /\ \A v \in Unit \ {u} : unitRow'[v] = unitRow[v] /\ units'[r][v] = units[r][v]
  BY <1>1, <1>2, <1>4, <1>7 DEF Reached, TypeOK
<1>9. /\ unitRow'[u].status = unitRow[u].status /\ unitRow'[u].output = unitRow[u].output
      /\ unitRow'[u].error = unitRow[u].error /\ unitRow'[u].inputs = inputs
      /\ unitRow'[u].attempt_count = unitRow[u].attempt_count
      /\ unitRow[u].status # "completed"
  BY <1>2, <1>4, <1>7, <1>8
<1>10. ASSUME Kept PROVE RowInv(u)'
  <2>1. /\ CompletedRows \subseteq CompletedRows'
        /\ \A d \in CompletedRows : unitRow'[d].output = unitRow[d].output
        /\ DependenciesDone(u) => DependenciesDone(u)'
        /\ CannotRun(u) => CannotRun(u)'
    BY <1>10, KeptMonotone
  <2>2. inputs \subseteq {<<d, unitRow'[d].output>> : d \in DependsOn[u] \cap CompletedRows'}
    BY <1>6, <2>1
  <2> QED
    BY <1>1, <1>4, <1>9, <2>1, <2>2 DEF RowInv
<1>11. RowsInv' /\ Kept /\ OutcomeStep
  <2>1. unitRow'[u].status = "skipped" => CannotRun(u)
    BY <1>4, <1>9 DEF RowInv
  <2> QED
    BY <1>1, <1>8, <1>9, <1>10, <2>1, RowWrite DEF Reached
<1>12. \A v \in Unit : CopyInv(r, v)'
  BY <1>1, <1>2, <1>8 DEF CopyInv
<1>13. PassInv(r)'
  <2>1. \A v \in Unit : units'[r][v].status = units[r][v].status
    BY <1>2, <1>8, <1>9
  <2> QED
    BY <1>1, <1>2, <2>1 DEF PassInv, Remaining
<1> QED
  BY <1>1, <1>11, <1>12, <1>13 DEF Sound, MemoryInv

(* A thread that may still attempt its unit found it unsettled. *)
LEMMA OpenUnit ==
  ASSUME NEW r \in Runs, Reached(r), NEW u \in Unit, worker[r][u] \in {"ready", "calling"}
  PROVE  /\ u \in layer[r] /\ pc[r] = "layer" /\ CopyInv(r, u) /\ RowInv(u)
         /\ DependenciesDone(u) /\ unitRow[u] \in WorkUnit /\ units[r][u] \in WorkUnit
         /\ attempts[r][u] \in Nat /\ launched[u] \in Nat
         /\ units[r][u].attempt_count \in Nat /\ launched[u] = unitRow[u].attempt_count
         /\ units[r][u].status # "completed"
         /\ unitRow[u].status \notin {"completed", "skipped"} /\ unitRow[u].output = 0
         /\ unitRow[u].error \notin {"dependency", "cycle"}
<1>1. u \in layer[r] /\ pc[r] = "layer"
  BY DEF Reached, LayerInv
<1>2. /\ CopyInv(r, u) /\ PassInv(r) /\ DependenciesDone(u) /\ u \notin updated[r]
      /\ unitRow[u].status # "skipped"
  BY <1>1, LayerUnits
<1>3. RowInv(u)
  BY DEF Reached, RowsInv
<1>4. /\ unitRow[u] \in WorkUnit /\ units[r][u] \in WorkUnit /\ attempts[r][u] \in Nat
      /\ launched[u] \in Nat /\ units[r][u].attempt_count \in Nat
  BY DEF Reached, TypeOK, WorkUnit
<1>5. units[r][u].status # "completed"
  BY <1>2 DEF PassInv
<1>6. unitRow[u].status # "completed"
  BY <1>2, <1>4, <1>5 DEF CopyInv
<1> QED
  BY <1>1, <1>2, <1>3, <1>4, <1>5, <1>6 DEF RowInv

LEMMA BeginSound ==
  ASSUME NEW r \in Runs, Reached(r), NEW u \in Unit, BeginAttempt(r, u), TypeOK', BudgetInv'
  PROVE  Sound(r)
<1> DEFINE n == units[r][u].attempt_count + attempts[r][u] + 1
<1>1. /\ UNCHANGED <<units, pc, updated, todo, layer, progressed>>
      /\ worker[r][u] = "ready" /\ worker'[r][u] = "calling"
      /\ attempts[r][u] < RemainingAttempts(r, u) /\ attempts'[r][u] = attempts[r][u] + 1
      /\ unitRow' = [unitRow EXCEPT ![u] = Attempting(unitRow[u], n)]
      /\ launched' = [launched EXCEPT ![u] = launched[u] + 1]
      /\ call'[r][u] = launched[u] + 1
      /\ \A v \in Unit \ {u} : /\ worker'[r][v] = worker[r][v]
                               /\ attempts'[r][v] = attempts[r][v]
                               /\ call'[r][v] = call[r][v]
  BY DEF BeginAttempt, Reached, TypeOK, runVars
<1>2. /\ u \in layer[r] /\ pc[r] = "layer" /\ CopyInv(r, u) /\ RowInv(u)
      /\ DependenciesDone(u) /\ unitRow[u] \in WorkUnit /\ units[r][u] \in WorkUnit
      /\ attempts[r][u] \in Nat /\ launched[u] \in Nat
      /\ units[r][u].attempt_count \in Nat /\ launched[u] = unitRow[u].attempt_count
      /\ units[r][u].status # "completed"
      /\ unitRow[u].status \notin {"completed", "skipped"} /\ unitRow[u].output = 0
      /\ unitRow[u].error \notin {"dependency", "cycle"}
  BY <1>1, OpenUnit
<1>3. /\ unitRow[u].inputs = units[r][u].inputs /\ unitRow[u].output = units[r][u].output
      /\ unitRow[u].attempt_count = units[r][u].attempt_count + attempts[r][u]
      /\ unitRow[u].error \in {units[r][u].error, "worker"}
  BY <1>1, <1>2 DEF CopyInv
<1>4. unitRow[u].status # "failed"
  <2>1. ASSUME unitRow[u].status = "failed" PROVE FALSE
    <3>1. attempts[r][u] = 0 /\ units[r][u].attempt_count = MaxAttempts
      BY <1>1, <1>2, <1>3, <2>1 DEF CopyInv, RowInv
    <3> QED
      BY <1>1, <3>1, MaxAttemptsAssumption DEF RemainingAttempts
  <2> QED
    BY <2>1
<1>5. n \in Nat /\ n = launched[u] + 1
  BY <1>2, <1>3
<1> HIDE DEF n
<1>6. /\ unitRow'[u].status = "running" /\ unitRow'[u].attempt_count = n
      /\ unitRow'[u].inputs = unitRow[u].inputs /\ unitRow'[u].output = unitRow[u].output
      /\ unitRow'[u].error = unitRow[u].error
      /\ \A v \in Unit \ {u} : unitRow'[v] = unitRow[v]
  BY <1>1, <1>2 DEF Reached, TypeOK, Attempting, WorkUnit
<1>7. launched'[u] = n
  BY <1>1, <1>2, <1>5 DEF Reached, TypeOK
<1>8. ASSUME Kept PROVE RowInv(u)'
  <2>1. /\ DependenciesDone(u)' /\ CompletedRows \subseteq CompletedRows'
        /\ \A d \in CompletedRows : unitRow'[d].output = unitRow[d].output
    BY <1>2, <1>8, KeptMonotone
  <2>2. unitRow[u].inputs \subseteq
          {<<d, unitRow'[d].output>> : d \in DependsOn[u] \cap CompletedRows'}
    BY <1>2, <2>1 DEF RowInv
  <2> QED
    BY <1>2, <1>6, <1>7, <2>1, <2>2 DEF RowInv
<1>9. RowsInv' /\ Kept /\ OutcomeStep
  <2>1. unitRow[u].status \notin Terminal /\ unitRow'[u].status \notin Terminal
    BY <1>2, <1>4, <1>6 DEF Terminal
  <2>2. launched' = [launched EXCEPT ![u] = @ + 1]
    BY <1>1
  <2>3. unitRow'[u].status # "completed" /\ unitRow'[u].status # "skipped"
    BY <1>6
  <2>4. TypeOK /\ RowsInv
    BY DEF Reached
  <2> QED
    BY <1>2, <1>6, <1>8, <2>1, <2>2, <2>3, <2>4, RowWrite
<1>10. CopyInv(r, u)'
  BY <1>1, <1>2, <1>3, <1>5, <1>6 DEF CopyInv, n
<1>11. MemoryInv(r)'
  BY <1>1, <1>2, <1>6, <1>10, ThreadMemory
<1> QED
  BY <1>9, <1>11 DEF Sound

LEMMA FailsSound ==
  ASSUME NEW r \in Runs, Reached(r), NEW u \in Unit, AttemptFails(r, u), TypeOK', BudgetInv'
  PROVE  Sound(r)
<1>1. /\ UNCHANGED <<units, pc, updated, todo, layer, progressed, attempts, call, launched>>
      /\ worker[r][u] = "calling" /\ worker'[r][u] = "ready"
      /\ unitRow' = [unitRow EXCEPT ![u] = WithError(unitRow[u], "worker")]
      /\ \A v \in Unit \ {u} : worker'[r][v] = worker[r][v]
  BY DEF AttemptFails, Reached, TypeOK, runVars
<1>2. /\ u \in layer[r] /\ pc[r] = "layer" /\ CopyInv(r, u) /\ RowInv(u)
      /\ unitRow[u] \in WorkUnit /\ units[r][u].status # "completed"
  BY <1>1, OpenUnit
<1>3. unitRow[u].status = "running" /\ attempts[r][u] > 0
  BY <1>1, <1>2 DEF CopyInv
<1>4. /\ unitRow'[u].status = "running" /\ unitRow'[u].error = "worker"
      /\ unitRow'[u].attempt_count = unitRow[u].attempt_count
      /\ unitRow'[u].inputs = unitRow[u].inputs /\ unitRow'[u].output = unitRow[u].output
      /\ \A v \in Unit \ {u} : unitRow'[v] = unitRow[v]
  BY <1>1, <1>2, <1>3 DEF Reached, TypeOK, WithError, WorkUnit
<1>5. ASSUME Kept PROVE RowInv(u)'
  <2>1. /\ DependenciesDone(u) => DependenciesDone(u)'
        /\ CompletedRows \subseteq CompletedRows'
        /\ \A d \in CompletedRows : unitRow'[d].output = unitRow[d].output
    BY <1>5, KeptMonotone
  <2>2. unitRow[u].inputs \subseteq
          {<<d, unitRow'[d].output>> : d \in DependsOn[u] \cap CompletedRows'}
    BY <1>2, <2>1 DEF RowInv
  <2> QED
    BY <1>1, <1>2, <1>3, <1>4, <2>1, <2>2 DEF RowInv
<1>6. RowsInv' /\ Kept /\ OutcomeStep
  <2>1. TypeOK /\ RowsInv /\ unitRow[u].status \notin Terminal
    BY <1>3 DEF Reached, Terminal
  <2> QED
    BY <1>1, <1>4, <1>5, <2>1, RowWrite
<1>7. CopyInv(r, u)'
  BY <1>1, <1>2, <1>3, <1>4 DEF CopyInv
<1>8. MemoryInv(r)'
  BY <1>1, <1>2, <1>4, <1>7, ThreadMemory
<1> QED
  BY <1>6, <1>8 DEF Sound

(* The inputs the completed unit was given are its dependencies' outputs. *)
LEMMA SucceedsSound ==
  ASSUME NEW r \in Runs, Reached(r), NEW u \in Unit, AttemptSucceeds(r, u),
         TypeOK', BudgetInv'
  PROVE  Sound(r)
<1> DEFINE n == units[r][u].attempt_count + attempts[r][u]
           c == call[r][u]
<1>1. /\ UNCHANGED <<pc, updated, todo, layer, progressed, attempts, call, launched>>
      /\ worker[r][u] = "calling" /\ worker'[r][u] = "done"
      /\ unitRow' = [unitRow EXCEPT ![u] =
                       Succeeded(unitRow[u], unitRow[u].attempt_count, c)]
      /\ units' = [units EXCEPT ![r][u] = Succeeded(units[r][u], n, c)]
      /\ \A v \in Unit \ {u} : worker'[r][v] = worker[r][v]
  BY DEF AttemptSucceeds, Reached, TypeOK
<1>2. /\ u \in layer[r] /\ pc[r] = "layer" /\ CopyInv(r, u) /\ RowInv(u)
      /\ DependenciesDone(u) /\ unitRow[u] \in WorkUnit /\ units[r][u] \in WorkUnit
      /\ launched[u] \in Nat /\ launched[u] = unitRow[u].attempt_count
      /\ unitRow[u].status \notin {"completed", "skipped"}
  BY <1>1, OpenUnit
<1>3. {<<d, unitRow[d].output>> : d \in DependsOn[u]} \subseteq units[r][u].inputs
  BY <1>2, LayerUnits
<1>4. /\ unitRow[u].inputs = units[r][u].inputs /\ unitRow[u].attempt_count = n
      /\ attempts[r][u] > 0 /\ c # 0 /\ unitRow[u].status = "running"
      /\ c \in Nat /\ n \in Nat /\ n > 0
  <2>1. /\ attempts[r][u] \in Nat /\ units[r][u].attempt_count \in Nat /\ c \in Nat
    BY <1>2 DEF Reached, TypeOK, WorkUnit
  <2> QED
    BY <1>1, <1>2, <2>1 DEF CopyInv
<1> HIDE DEF n, c
<1>5. \A w \in WorkUnit, k \in Nat : /\ Succeeded(w, k, c).status = "completed"
                                     /\ Succeeded(w, k, c).error = "none"
                                     /\ Succeeded(w, k, c).inputs = w.inputs
                                     /\ Succeeded(w, k, c).output = c
                                     /\ Succeeded(w, k, c).attempt_count = k
                                     /\ Succeeded(w, k, c) \in WorkUnit
  BY <1>4, SucceededType DEF Succeeded, WorkUnit
<1>6. /\ unitRow'[u] = Succeeded(unitRow[u], n, c)
      /\ units'[r][u] = Succeeded(units[r][u], n, c)
      /\ \A v \in Unit \ {u} : unitRow'[v] = unitRow[v] /\ units'[r][v] = units[r][v]
  BY <1>1, <1>4 DEF Reached, TypeOK
<1>7. unitRow'[u] = units'[r][u]
  <2> DEFINE x == Succeeded(unitRow[u], n, c)
             y == Succeeded(units[r][u], n, c)
  <2>1. /\ x \in WorkUnit /\ x.status = "completed" /\ x.error = "none" /\ x.output = c
        /\ x.attempt_count = n /\ x.inputs = unitRow[u].inputs
    BY <1>2, <1>4, <1>5, SMTT(30)
  <2>2. /\ y \in WorkUnit /\ y.status = "completed" /\ y.error = "none" /\ y.output = c
        /\ y.attempt_count = n /\ y.inputs = units[r][u].inputs
    BY <1>2, <1>4, <1>5
  <2> HIDE DEF x, y
  <2>3. x = y
    BY <1>4, <2>1, <2>2, SameUnit
  <2> QED
    BY <1>6, <2>3 DEF x, y
<1>8. /\ unitRow'[u].status = "completed" /\ unitRow'[u].error = "none"
      /\ unitRow'[u].inputs = unitRow[u].inputs /\ unitRow'[u].output = c
      /\ unitRow'[u].attempt_count = n
  BY <1>2, <1>4, <1>5, <1>6, SMTT(30)
<1>9. ASSUME Kept PROVE RowInv(u)'
  <2>1. /\ DependenciesDone(u)' /\ CompletedRows \subseteq CompletedRows'
        /\ \A d \in CompletedRows : unitRow'[d].output = unitRow[d].output
    BY <1>2, <1>9, KeptMonotone
  <2>2. DependsOn[u] \subseteq CompletedRows
    BY <1>2 DEF DependenciesDone
  <2>3. unitRow[u].inputs = {<<d, unitRow[d].output>> : d \in DependsOn[u]}
    <3>1. unitRow[u].inputs \subseteq {<<d, unitRow[d].output>> : d \in DependsOn[u]}
      BY <1>2 DEF RowInv
    <3> QED
      BY <1>3, <1>4, <3>1
  <2>4. unitRow[u].inputs = {<<d, unitRow'[d].output>> : d \in DependsOn[u]}
    BY <2>1, <2>2, <2>3
  <2>5. unitRow[u].inputs \subseteq
          {<<d, unitRow'[d].output>> : d \in DependsOn[u] \cap CompletedRows'}
    BY <2>1, <2>2, <2>4
  <2> QED
    BY <1>1, <1>2, <1>4, <1>8, <2>1, <2>4, <2>5 DEF RowInv
<1>10. RowsInv' /\ Kept /\ OutcomeStep
  <2>1. TypeOK /\ RowsInv /\ unitRow[u].status \notin Terminal
    BY <1>4 DEF Reached, Terminal
  <2> QED
    BY <1>1, <1>2, <1>6, <1>8, <1>9, <2>1, RowWrite
<1>11. CopyInv(r, u)'
  BY <1>1, <1>7, <1>8 DEF CopyInv
<1>12. MemoryInv(r)'
  BY <1>1, <1>2, <1>6, <1>11, ThreadMemory
<1> QED
  BY <1>10, <1>12 DEF Sound

(* A unit is given up with its whole budget charged. *)
LEMMA GiveUpSound ==
  ASSUME NEW r \in Runs, Reached(r), NEW u \in Unit, GiveUp(r, u), TypeOK', BudgetInv'
  PROVE  Sound(r)
<1> DEFINE n == units[r][u].attempt_count + RemainingAttempts(r, u)
           e == LastError(r, u)
<1>1. /\ UNCHANGED <<pc, updated, todo, layer, progressed, attempts, call, launched>>
      /\ worker[r][u] = "ready" /\ worker'[r][u] = "done"
      /\ attempts[r][u] >= RemainingAttempts(r, u)
      /\ unitRow' = [unitRow EXCEPT ![u] = Failed(unitRow[u], n, e)]
      /\ units' = [units EXCEPT ![r][u] = Failed(units[r][u], n, e)]
      /\ \A v \in Unit \ {u} : worker'[r][v] = worker[r][v]
  BY DEF GiveUp, Reached, TypeOK
<1>2. /\ u \in layer[r] /\ pc[r] = "layer" /\ CopyInv(r, u) /\ RowInv(u)
      /\ DependenciesDone(u) /\ unitRow[u] \in WorkUnit /\ units[r][u] \in WorkUnit
      /\ attempts[r][u] \in Nat /\ units[r][u].attempt_count \in Nat
      /\ launched[u] = unitRow[u].attempt_count
      /\ unitRow[u].status \notin {"completed", "skipped"} /\ unitRow[u].output = 0
      /\ unitRow[u].error \notin {"dependency", "cycle"}
  BY <1>1, OpenUnit
<1>3. n \in Nat /\ unitRow[u].attempt_count = n /\ n = MaxAttempts
  <2>1. attempts[r][u] <= RemainingAttempts(r, u)
        /\ units[r][u].attempt_count <= MaxAttempts
    BY <1>1 DEF Reached, BudgetInv, WithinBudget
  <2>2. unitRow[u].attempt_count = units[r][u].attempt_count + attempts[r][u]
    BY <1>1, <1>2 DEF CopyInv
  <2> QED
    BY <1>1, <1>2, <2>1, <2>2, MaxAttemptsAssumption DEF RemainingAttempts
<1>4. e \in {"worker", "exhausted"} /\ e \in Error
  <2>1. attempts[r][u] = 0 => units[r][u].error \in {"none", "worker", "exhausted"}
    BY <1>1, <1>2 DEF CopyInv, WorkUnit, Error
  <2> QED
    BY <1>2, <2>1 DEF LastError, Error
<1>5. unitRow[u].inputs = units[r][u].inputs /\ unitRow[u].output = units[r][u].output
  BY <1>1, <1>2 DEF CopyInv
<1> HIDE DEF n, e
<1>6. \A w \in WorkUnit : /\ Failed(w, n, e).status = "failed"
                          /\ Failed(w, n, e).error = e
                          /\ Failed(w, n, e).inputs = w.inputs
                          /\ Failed(w, n, e).output = w.output
                          /\ Failed(w, n, e).attempt_count = n
                          /\ Failed(w, n, e) \in WorkUnit
  BY <1>3, <1>4, FailedType DEF Failed, WorkUnit
<1>7. /\ unitRow'[u] = Failed(unitRow[u], n, e) /\ units'[r][u] = Failed(units[r][u], n, e)
      /\ \A v \in Unit \ {u} : unitRow'[v] = unitRow[v] /\ units'[r][v] = units[r][v]
  BY <1>1 DEF Reached, TypeOK
<1>8. unitRow'[u] = units'[r][u]
  BY <1>2, <1>5, <1>6, <1>7, SameUnit
<1>9. /\ unitRow'[u].status = "failed" /\ unitRow'[u].error = e
      /\ unitRow'[u].inputs = unitRow[u].inputs /\ unitRow'[u].output = 0
      /\ unitRow'[u].attempt_count = n
  BY <1>2, <1>6, <1>7
<1>10. ASSUME Kept PROVE RowInv(u)'
  <2>1. /\ DependenciesDone(u)' /\ CompletedRows \subseteq CompletedRows'
        /\ \A d \in CompletedRows : unitRow'[d].output = unitRow[d].output
    BY <1>2, <1>10, KeptMonotone
  <2>2. unitRow[u].inputs \subseteq
          {<<d, unitRow'[d].output>> : d \in DependsOn[u] \cap CompletedRows'}
    BY <1>2, <2>1 DEF RowInv
  <2> QED
    BY <1>1, <1>2, <1>3, <1>4, <1>9, <2>1, <2>2 DEF RowInv
<1>11. RowsInv' /\ Kept /\ OutcomeStep
  <2>1. TypeOK /\ RowsInv
    BY DEF Reached
  <2>2. unitRow[u].status \in Terminal => unitRow[u].status = "failed"
    BY <1>2 DEF Terminal
  <2>3. unitRow'[u].status # "completed" /\ unitRow'[u].status # "skipped"
    BY <1>9
  <2> QED
    BY <1>1, <1>2, <1>7, <1>9, <1>10, <2>1, <2>2, <2>3, RowWrite
<1>12. CopyInv(r, u)'
  BY <1>1, <1>8, <1>9 DEF CopyInv
<1>13. MemoryInv(r)'
  <2>1. units'[r][u].status = "completed" => worker'[r][u] = "done"
    BY <1>1
  <2> QED
    BY <1>1, <1>2, <1>7, <1>12, <2>1, ThreadMemory
<1> QED
  BY <1>11, <1>13 DEF Sound

LEMMA RunSound ==
  ASSUME NEW r \in Runs, Reached(r), RunStep(r), TypeOK', BudgetInv'
  PROVE  Sound(r)
<1>1. CASE AbortLayer(r) \/ FinalizeTask(r) \/ Crash(r)
  BY <1>1, ForgetSound DEF AbortLayer, FinalizeTask, Crash, dbVars
<1>2. ASSUME NEW u \in Unit, SaveWorkUnit(r, u) \/ SkipUnit(r, u) \/ AdmitUnit(r, u)
                               \/ DeferUnit(r, u) \/ BreakCycle(r, u)
      PROVE  Sound(r)
  BY <1>2, SaveSound, SkipsSound, AdmitSound, DeferSound
<1>3. CASE MainStep(r)
  BY <1>1, <1>2, <1>3, BeforeTheRun, PassSound, FinishSound, SubmitSound, DetectSound
     DEF MainStep
<1>4. ASSUME NEW u \in Unit, WorkerStep(r, u) \/ WorkerRaises(r, u) PROVE Sound(r)
  BY <1>4, ThreadSound, BeginSound, SucceedsSound, FailsSound, GiveUpSound DEF WorkerStep
<1> QED
  BY <1>1, <1>3, <1>4, BeforeTheRun DEF RunStep

LEMMA SoloStep ==
  ASSUME OneDelegationAtATime, TypeOK, BudgetInv, \A r \in Runs : LayerInv(r), SoloInv,
         TypeOK', BudgetInv', [Next]_vars
  PROVE  SoloInv' /\ Kept /\ OutcomeStep
<1>1. ASSUME NEW r \in Runs, RunStep(r) PROVE SoloInv' /\ Kept /\ OutcomeStep
  <2>1. Reached(r)
    BY DEF Reached, SoloInv
  <2>2. Sound(r)
    BY <1>1, <2>1, RunSound
  <2>3. \A s \in Runs : s = r
    BY DEF OneDelegationAtATime
  <2> QED
    BY <2>2, <2>3 DEF Sound, SoloInv
<1>2. CASE UNCHANGED vars
  <2>1. RowsInv' /\ Kept /\ OutcomeStep
    BY <1>2, RowsUntouched DEF vars, SoloInv
  <2>2. ASSUME NEW r \in Runs PROVE MemoryInv(r)'
    BY <1>2 DEF vars, SoloInv, MemoryInv, HasRead, CopyInv, PassInv, OnCycle, Remaining
  <2> QED
    BY <2>1, <2>2 DEF SoloInv
<1> QED
  BY <1>1, <1>2 DEF Next, RunStep

-----------------------------------------------------------------------------
(* Theorems about delegations that do not overlap.                           *)

LEMMA SoloInvariant ==
  ASSUME OneDelegationAtATime
  PROVE  Spec => [](SoloInv /\ \A r \in Runs : LayerInv(r))
<1> DEFINE Layers == \A r \in Runs : LayerInv(r)
<1>1. Init => SoloInv /\ Layers
  <2> SUFFICES ASSUME Init PROVE SoloInv /\ Layers
    OBVIOUS
  <2>1. Layers
    BY DEF Init, LayerInv
  <2>2. \A u \in Unit : unitRow[u] = NoRow /\ launched[u] = 0
    BY DEF Init
  <2>3. CompletedRows = {}
    BY <2>2 DEF CompletedRows, NoRow
  <2>4. RowsInv
    BY <2>2, <2>3 DEF RowsInv, RowInv, CompletedInOrder, NoRow
  <2>5. \A r \in Runs : MemoryInv(r)
    BY DEF Init, MemoryInv, HasRead, Executing
  <2> QED
    BY <2>1, <2>4, <2>5 DEF SoloInv
<1>2. /\ SoloInv /\ Layers /\ TypeOK /\ TypeOK' /\ BudgetInv /\ BudgetInv' /\ [Next]_vars
      => SoloInv' /\ Layers'
  BY SoloStep, LayersStep
<1> HIDE DEF Layers
<1>3. Spec => [](SoloInv /\ Layers)
  BY <1>1, <1>2, TypeCorrect, BudgetInvariant, PTL DEF Spec
<1> QED
  BY <1>3, PTL DEF Layers

(* The row of a settled unit is coherent, through crashes and reruns: what a   *)
(* completed one was given to read is exactly its dependencies' outputs.      *)
THEOREM SettledRowsCoherent ==
  ASSUME OneDelegationAtATime
  PROVE  Spec => []SettledRowsAreCoherent
<1>1. SoloInv => SettledRowsAreCoherent
  BY DEF SoloInv, RowsInv, RowInv, SettledRowsAreCoherent
<1> QED
  BY <1>1, SoloInvariant, PTL

(* A final status of the task tells the truth about its units, also while the  *)
(* task is delegated again: what a unit settled as stays.                      *)
THEOREM TaskStatusTrue ==
  ASSUME OneDelegationAtATime
  PROVE  Spec => []TaskStatusMatchesUnits
<1> DEFINE Layers == \A r \in Runs : LayerInv(r)
<1>1. Init => TaskStatusMatchesUnits
  BY DEF Init, TaskStatusMatchesUnits
<1>2. ASSUME SoloInv, Layers, TypeOK, TypeOK', BudgetInv, BudgetInv',
             TaskStatusMatchesUnits, [Next]_vars
      PROVE  TaskStatusMatchesUnits'
  <2>1. Kept
    BY <1>2, SoloStep
  <2>2. ASSUME taskRow' = taskRow \/ taskRow' \in {"created", "running"}
        PROVE  TaskStatusMatchesUnits'
    BY <1>2, <2>1, <2>2 DEF TaskStatusMatchesUnits, Kept, Terminal
  <2>3. ASSUME NEW r \in Runs, FinalizeTask(r) PROVE TaskStatusMatchesUnits'
    <3>1. /\ pc[r] = "finalize" /\ taskRow' = FinalStatus(r) /\ unitRow' = unitRow
      BY <2>3 DEF FinalizeTask
    <3>2. Reached(r)
      BY <1>2 DEF Reached, SoloInv
    <3>3. \A u \in Unit : units[r][u] = unitRow[u]
      BY <3>1, <3>2, SettledCopies
    <3>4. \A u \in Unit : unitRow[u].status \in Terminal
      BY <3>1, <3>2, <3>3 DEF Reached, MemoryInv, Executing, PassInv
    <3> QED
      BY <3>1, <3>3, <3>4 DEF FinalStatus, TaskStatusMatchesUnits, Terminal
  <2>4. ASSUME NEW r \in Runs, MainStep(r), ~ FinalizeTask(r)
        PROVE  taskRow' = taskRow \/ taskRow' \in {"created", "running"}
    BY <2>4 DEF MainStep, CreateTask, StartRun, SubmitLayer, RepeatPass, DetectCycle,
                FinishLayer, AbortLayer, SaveWorkUnit, SkipUnit, AdmitUnit, DeferUnit,
                BreakCycle, dbVars
  <2>5. ASSUME NEW r \in Runs, RunStep(r), ~ MainStep(r) PROVE taskRow' = taskRow
    BY <2>5 DEF RunStep, Delegate, WorkerStep, StartWorker, BeginAttempt,
                AttemptSucceeds, AttemptFails, GiveUp, WorkerRaises, Crash, dbVars
  <2> QED
    BY <1>2, <2>2, <2>3, <2>4, <2>5 DEF Next, RunStep, vars
<1> HIDE DEF Layers
<1>3. Spec => []Layers /\ []SoloInv
  BY SoloInvariant, PTL DEF Layers
<1> QED
  BY <1>1, <1>2, <1>3, TypeCorrect, BudgetInvariant, PTL DEF Spec

(* Delegations that do not overlap keep the promise of WorkUnitOutcomes:       *)
(* an outcome is final, a unit is launched at most MaxAttempts times in all,   *)
(* after what it depends on completed, and is skipped only if it cannot run.  *)
THEOREM OutcomesKept ==
  ASSUME OneDelegationAtATime
  PROVE  Spec => ImplementsOutcomes
<1> DEFINE Layers == \A r \in Runs : LayerInv(r)
<1>1. Init => Outcomes!Init
  BY DEF Init, Outcomes!Init, NoRow, Terminal, Unit, Outcomes!Unit
<1>2. /\ SoloInv /\ Layers /\ TypeOK /\ TypeOK' /\ BudgetInv /\ BudgetInv' /\ [Next]_vars
      => Outcomes!Next \/ UNCHANGED <<OutcomeOf, launched>>
  BY SoloStep DEF OutcomeStep
<1> HIDE DEF Layers
<1>3. Spec => []Layers /\ []SoloInv
  BY SoloInvariant, PTL DEF Layers
<1> QED
  BY <1>1, <1>2, <1>3, TypeCorrect, BudgetInvariant, PTL
  DEF Spec, ImplementsOutcomes, Outcomes!Spec, OutcomeOf

==============================================================================
