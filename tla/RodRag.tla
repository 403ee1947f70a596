-------------------------------- MODULE RodRag --------------------------------
(***************************************************************************)
(* Retrieve, offload, delegate: RetrieveOffloadDelegateService.run answers a *)
(* question in at most max_rounds rounds.  A round retrieves evidence, stores *)
(* each chunk as an artifact, saves one work unit for each artifact, has the  *)
(* scheduler run every unfinished unit of the task, the earlier rounds' too,  *)
(* and collects the analysts' reports; a round that supports no claim is      *)
(* followed by one with a rewritten query.                                    *)
(*                                                                         *)
(* One task, which the same question of one session always finds again, after *)
(* an answer or a crash; its calls do not overlap here (overlapping           *)
(* delegations: module WorkUnitScheduler).  The index may be another at every *)
(* retrieval.  An artifact's id and its unit's follow from the query, the      *)
(* chunk and its scores, so query and chunk stand for both; the units depend   *)
(* on nothing, so the scheduler has them all in one layer.                     *)
(***************************************************************************)
EXTENDS Integers, FiniteSets

CONSTANTS
  Chunk,         \* chunks that may be retrieved, each with its scores
  Query,         \* the question, 1, and what it is rewritten to
  MaxRounds,     \* RagConfig.max_rounds
  MaxEvidence,   \* RagConfig.max_evidence
  MaxAttempts,   \* TaskBudget.max_attempts
  MaxCalls       \* model bound: calls of run

ASSUME QueryAssumption == 1 \in Query /\ Query \subseteq Nat
ASSUME BudgetAssumption ==
  /\ MaxRounds \in 1 .. 2
  /\ MaxEvidence \in Nat \ {0}
  /\ MaxAttempts \in Nat \ {0}
  /\ MaxCalls \in Nat

VARIABLES
  taskRow,    \* research_tasks.status
  unitRow,    \* work_units, for each query and chunk, with what the
              \* worker_result artifact of a unit says
  run,        \* where the call is, and what it holds
  abandoned,  \* history: units that a call whose retrieval came back empty
              \* left as they were when it closed the task
  calls       \* for the model bound

vars == <<taskRow, unitRow, run, abandoned, calls>>

-----------------------------------------------------------------------------

Unit == Query \X Chunk
Final == {"completed", "partially_completed", "failed"}
TaskStatus == {"none", "created", "planned", "running"} \cup Final

(* What an analyst may answer, as far as somebody checks it: not the JSON its  *)
(* schema asks for, or too long; claims with a citation it was shown, without  *)
(* any, without text, with a citation of something else; nothing for a summary *)
(* or a question.                                                              *)
Output == [form : {"json", "broken"},
           relevance : {"relevant", "partial", "irrelevant"},
           claims : SUBSET {"cited", "uncited", "blank", "foreign"},
           summary : {"text", "blank"}]

(* WorkerOutputValidator *)
Labelled(out) == out.claims \ {"uncited"} # {}
Grounded(out) ==
  /\ "foreign" \notin out.claims
  /\ out.relevance = "relevant" => out.claims # {}
  /\ out.relevance # "irrelevant" /\ out.claims # {} => Labelled(out)
Accepted == {out \in Output : out.form = "json" /\ Grounded(out)}

(* AnalystReport, as the collector reads it: the validator lets pass what the  *)
(* report's own checks refuse.                                                 *)
Readable(out) == out.summary = "text" /\ out.claims \subseteq {"cited"}
ReportOf(out) ==
  IF ~ Readable(out) THEN "malformed"
  ELSE IF out.relevance = "relevant" THEN "relevant" ELSE "inconclusive"

Report == {"none", "relevant", "inconclusive", "malformed"}
Row == [status : {"none", "pending", "running", "completed", "failed"},
        attempts : 0 .. MaxAttempts, report : Report]

(* The locals of run: its task, round and query, the chunks selected that have *)
(* no unit yet, the scheduler's copy of the rows, the units given to a worker, *)
(* the status of the result, and whether an artifact could not be read for it. *)
Stage == {"idle", "retrieve", "plan", "list", "schedule", "work", "collect"}
Answer == {"none", "supported", "no_evidence", "insufficient", "failed"}
Held == [stage : Stage, task : TaskStatus, round : 1 .. MaxRounds, query : Query,
         todo : SUBSET Chunk, copy : [Unit -> Row], working : SUBSET Unit,
         done : SUBSET Unit, answer : Answer, lost : BOOLEAN]

NoRow == [status |-> "none", attempts |-> 0, report |-> "none"]
Idle == [stage |-> "idle", task |-> "none", round |-> 1, query |-> 1, todo |-> {},
         copy |-> [u \in Unit |-> NoRow], working |-> {}, done |-> {},
         answer |-> "none", lost |-> FALSE]

TypeOK ==
  /\ taskRow \in TaskStatus
  /\ unitRow \in [Unit -> Row]
  /\ run \in Held
  /\ abandoned \subseteq Unit
  /\ calls \in 0 .. MaxCalls

Init ==
  /\ taskRow = "none"
  /\ unitRow = [u \in Unit |-> NoRow]
  /\ run = Idle
  /\ abandoned = {}
  /\ calls = 0

-----------------------------------------------------------------------------
(* The task, and what a round retrieves and plans.                           *)

Known(rows) == {u \in Unit : rows[u].status # "none"}
In(rows, status) == {u \in Unit : rows[u].status = status}
Settled(rows) == In(rows, "completed") \cup In(rows, "failed")
InFlight == run.stage # "idle"

(* _get_or_create_task *)
Call ==
  /\ ~ InFlight
  /\ calls < MaxCalls
  /\ calls' = calls + 1
  /\ taskRow' = IF taskRow = "none" THEN "created" ELSE taskRow
  /\ run' = [Idle EXCEPT !.stage = "retrieve", !.task = taskRow']
  /\ UNCHANGED <<unitRow, abandoned>>

(* The call returns its result. *)
Return(answer, lost) ==
  run' = [Idle EXCEPT !.answer = answer, !.lost = lost]

(* search_knowledge, _select_evidence, and the chunks selected stored as      *)
(* artifacts (module ArtifactStore).                                          *)
Retrieve ==
  /\ run.stage = "retrieve"
  /\ \E selected \in SUBSET Chunk \ {{}} :
       /\ Cardinality(selected) <= MaxEvidence
       /\ run' = [run EXCEPT !.stage = "plan", !.todo = selected]
  /\ UNCHANGED <<taskRow, unitRow, abandoned, calls>>

(* Faulty variant: the task is closed whatever became of it. *)
AlwaysClosed == "completed"

(* _finish_without_workers looks at the task as this call holds it: pending   *)
(* units of a call that crashed are not looked at.                            *)
Closed == IF run.task \in Final THEN run.task ELSE "completed"

RetrieveNothing ==
  /\ run.stage = "retrieve"
  /\ taskRow' = IF Closed = run.task THEN taskRow ELSE Closed
  /\ abandoned' = abandoned \cup
       (Known(unitRow) \ IF run.task \in Final THEN Settled(unitRow)
                         ELSE In(unitRow, "completed"))
  /\ Return(IF run.round = 1 THEN "no_evidence" ELSE "insufficient", run.lost)
  /\ UNCHANGED <<unitRow, calls>>

Pending == [NoRow EXCEPT !.status = "pending"]

(* Faulty variant: save_work_unit replaces a row that exists. *)
Replaced(row) == Pending
Saved(row) == IF row.status = "none" THEN Pending ELSE row

SaveUnit ==
  /\ run.stage = "plan"
  /\ \E c \in run.todo :
       /\ unitRow' = [unitRow EXCEPT ![<<run.query, c>>] = Saved(@)]
       /\ run' = [run EXCEPT !.todo = @ \ {c}]
  /\ UNCHANGED <<taskRow, abandoned, calls>>

(* The task is PLANNED again, whatever it was. *)
Plan ==
  /\ run.stage = "plan" /\ run.todo = {}
  /\ taskRow' = "planned"
  /\ run' = [run EXCEPT !.stage = "list", !.task = "planned"]
  /\ UNCHANGED <<unitRow, abandoned, calls>>

-----------------------------------------------------------------------------
(* The scheduler runs the task's units.                                      *)

(* Faulty variant: only the units of this round. *)
OfThisRound == {u \in Known(unitRow) : u[1] = run.query}
Listed == Known(unitRow)

(* list_work_units *)
List ==
  /\ run.stage = "list"
  /\ run' = [run EXCEPT !.stage = "schedule",
       !.copy = [u \in Unit |-> IF u \in Listed THEN unitRow[u] ELSE NoRow]]
  /\ UNCHANGED <<taskRow, unitRow, abandoned, calls>>

Schedule ==
  /\ run.stage = "schedule"
  /\ taskRow' = "running"
  /\ run' = [run EXCEPT !.stage = "work", !.task = "running",
       !.done = In(run.copy, "completed")]
  /\ UNCHANGED <<unitRow, abandoned, calls>>

Copy(u) == run.copy[u]
Outstanding == Known(run.copy) \ run.done

(* _run_with_retry charges the attempt, calls the analyst ... *)
BeginAttempt(u) ==
  /\ run.stage = "work"
  /\ u \in Outstanding \ run.working
  /\ Copy(u).attempts < MaxAttempts
  /\ LET charged == Copy(u).attempts + 1 IN
       /\ unitRow' = [unitRow EXCEPT ![u].status = "running", ![u].attempts = charged]
       /\ run' = [run EXCEPT !.working = @ \cup {u}, !.copy[u].attempts = charged]
  /\ UNCHANGED <<taskRow, abandoned, calls>>

(* WorkerRunner.run: an answer the validator accepted becomes the analyst's    *)
(* report, a new worker_result artifact.                                      *)
Reports == {ReportOf(out) : out \in Accepted}
Completed(row, said) == [row EXCEPT !.status = "completed", !.report = said]

(* ... and records its report ... *)
Analyse(u) ==
  /\ u \in run.working
  /\ \E said \in Reports :
       /\ unitRow' = [unitRow EXCEPT ![u] = Completed(@, said)]
       /\ run' = [run EXCEPT !.working = @ \ {u}, !.done = @ \cup {u},
                             !.copy[u] = Completed(@, said)]
  /\ UNCHANGED <<taskRow, abandoned, calls>>

(* ... or its failure, an answer refused included: the row changes only in its *)
(* error.                                                                     *)
AttemptFails(u) ==
  /\ u \in run.working
  /\ run' = [run EXCEPT !.working = @ \ {u}]
  /\ UNCHANGED <<taskRow, unitRow, abandoned, calls>>

GiveUp(u) ==
  /\ run.stage = "work"
  /\ u \in Outstanding \ run.working
  /\ Copy(u).attempts = MaxAttempts
  /\ unitRow' = [unitRow EXCEPT ![u].status = "failed", ![u].attempts = MaxAttempts]
  /\ run' = [run EXCEPT !.copy[u].status = "failed", !.done = @ \cup {u}]
  /\ UNCHANGED <<taskRow, abandoned, calls>>

FinalStatus ==
  LET units == Known(run.copy) IN
    IF units = In(run.copy, "failed") THEN "failed"
    ELSE IF units = In(run.copy, "completed") THEN "completed"
    ELSE "partially_completed"

(* _finalize_task *)
Finalize ==
  /\ run.stage = "work" /\ Outstanding = {}
  /\ taskRow' = FinalStatus
  /\ run' = [run EXCEPT !.stage = "collect", !.task = FinalStatus]
  /\ abandoned' = {}
  /\ UNCHANGED <<unitRow, calls>>

-----------------------------------------------------------------------------
(* RodResultCollector, and what the call makes of the reports.               *)

(* The units whose report is read; `lost` are artifacts that cannot be. *)
Collected(lost) ==
  {u \in In(run.copy, "completed") \ lost : Copy(u).report # "malformed"}
Sufficient(lost) == \E u \in Collected(lost) : Copy(u).report = "relevant"

AllWorkersFailed(lost) == Collected(lost) = {}

(* Faulty variant: the rewriting does not count the rounds. *)
SameRound == run.round
NextRound == run.round + 1

(* The rewriter always extends the query. *)
Rewrite(lost) ==
  /\ NextRound <= MaxRounds
  /\ \E q \in Query \ {1} :
       run' = [Idle EXCEPT !.stage = "retrieve", !.task = run.task, !.round = NextRound,
                 !.query = q, !.lost = lost # {} \/ run.lost]

Collect ==
  /\ run.stage = "collect"
  /\ \E lost \in SUBSET In(run.copy, "completed") :
       LET Answered(answer) == Return(answer, lost # {} \/ run.lost) IN
         \/ Sufficient(lost) /\ Answered("supported")
         \/ ~ Sufficient(lost) /\ AllWorkersFailed(lost) /\ Answered("failed")
         \/ ~ Sufficient(lost) /\ ~ AllWorkersFailed(lost) /\ Rewrite(lost)
         \/ /\ ~ Sufficient(lost) /\ ~ AllWorkersFailed(lost)
            /\ run.round = MaxRounds
            /\ Answered("insufficient")
  /\ UNCHANGED <<taskRow, unitRow, abandoned, calls>>

-----------------------------------------------------------------------------

(* The process dies or a step of run raises: what is stored stays. *)
Crash ==
  /\ InFlight
  /\ run' = Idle
  /\ UNCHANGED <<taskRow, unitRow, abandoned, calls>>

MainStep ==
  \/ Retrieve \/ RetrieveNothing \/ SaveUnit \/ Plan
  \/ List \/ Schedule \/ Finalize \/ Collect
WorkerStep(u) ==
  BeginAttempt(u) \/ Analyse(u) \/ AttemptFails(u) \/ GiveUp(u)

Next ==
  \/ Call \/ MainStep \/ Crash
  \/ \E u \in Unit : WorkerStep(u)

(* A call and its pool run on as long as their process does; searches, model  *)
(* calls and transactions return.                                             *)
Spec ==
  /\ Init
  /\ [][Next]_vars
  /\ WF_vars(MainStep)
  /\ \A u \in Unit : WF_vars(WorkerStep(u))

-----------------------------------------------------------------------------

(* Once a call is answered its task is closed, and the task's status tells    *)
(* the truth about every unit of the task, those of earlier rounds and of     *)
(* calls that crashed included.  The exception: units a crashed call left     *)
(* behind when the next retrieval came back empty, for _finish_without_workers *)
(* closes the task over them; Scheduler._finalize_task never does.            *)
AnsweredTasksAreClosed ==
  run.answer # "none" =>
    LET units == Known(unitRow) \ abandoned IN
      /\ taskRow \in Final
      /\ units \subseteq Settled(unitRow)
      /\ taskRow = "completed" => units \subseteq In(unitRow, "completed")
      /\ taskRow = "failed" => units \subseteq In(unitRow, "failed")

(* Asking again never repeats an analysis: whatever rounds, calls and crashes *)
(* follow, the row of a unit that completed, or failed for good, stays as it  *)
(* is (docs/retrieve-offload-delegate-rag-redesign.md:229-230: at most one   *)
(* retry for each work unit, no evidence artifact analysed twice;             *)
(* save_work_unit, list_work_units, Scheduler.run).                           *)
SettledAnalysesStay ==
  [][\A u \in Settled(unitRow) : unitRow'[u] = unitRow[u]]_vars

(* The answer follows the reports the task has, also those of earlier rounds  *)
(* and earlier calls: a call that could read its artifacts says "failed" only *)
(* when no unit has a readable report, and "insufficient" only when none of   *)
(* them is relevant (run, collect).                                           *)
AnswersFollowTheReports ==
  ~ run.lost =>
    LET reports == {unitRow[u].report : u \in In(unitRow, "completed")} IN
      /\ run.answer = "failed" => reports \subseteq {"malformed"}
      /\ run.answer = "insufficient" => "relevant" \notin reports
      /\ run.answer = "supported" => "relevant" \in reports

(* Every call ends: rounds, retries and layers are finite (run).              *)
EveryCallEnds == InFlight ~> ~ InFlight
=============================================================================
