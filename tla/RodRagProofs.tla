----------------------------- MODULE RodRagProofs -----------------------------
(* Proofs about RodRag, for every set of chunks and queries, every number of  *)
(* rounds, attempts and calls, and any crashes.                               *)
EXTENDS RodRag, TLAPS

-----------------------------------------------------------------------------
(* The inductive invariant.                                                  *)

(* The scheduler's copy of a row is the row, but for a status the row got when *)
(* an attempt on it began.                                                    *)
Agree(u) ==
  /\ Copy(u).attempts = unitRow[u].attempts
  /\ Copy(u).report = unitRow[u].report
  /\ \/ Copy(u).status = unitRow[u].status
     \/ /\ unitRow[u].status = "running"
        /\ Copy(u).status \in {"pending", "running"}

(* What the row, the copy and the pool thread of a unit have to do with each  *)
(* other.                                                                     *)
UnitFollows(u) ==
  /\ unitRow[u].status = "none" => unitRow[u] = NoRow
  /\ unitRow[u].status = "failed" => unitRow[u].attempts = MaxAttempts
  /\ run.stage \in {"schedule", "work", "collect"} => Agree(u)
  /\ run.stage \in {"work", "collect"} =>
       /\ Copy(u).status = "completed" => u \in run.done
       /\ u \in run.done => Copy(u).status \in {"completed", "failed"}
  /\ u \in run.working =>
       run.stage = "work" /\ unitRow[u].status = "running" /\ u \notin run.done

RowsFollow == \A u \in Unit : UnitFollows(u)

(* A closed task tells the truth about the units of a set. *)
TellsOf(units) ==
  /\ taskRow = "completed" => units \subseteq In(unitRow, "completed")
  /\ taskRow = "failed" => units \subseteq In(unitRow, "failed")

(* The status of a closed task is true of the units that are settled; pending *)
(* ones may have been saved since it was closed.                              *)
StatusFollows ==
  /\ TellsOf(Settled(unitRow) \ abandoned)
  /\ run.stage \in {"retrieve", "plan"} => run.task = taskRow
  /\ run.stage \in {"list", "schedule", "work"} => taskRow \notin Final
  /\ run.stage = "collect" =>
       /\ run.task = taskRow /\ taskRow \in Final /\ abandoned = {}
       /\ Known(unitRow) \subseteq Settled(unitRow)
  /\ run.stage # "idle" => run.answer = "none"

(* A further round is only begun when no report read so far is relevant. *)
RoundsFollow ==
  run.stage = "retrieve" /\ run.round # 1 /\ ~ run.lost =>
    \A u \in In(unitRow, "completed") : unitRow[u].report # "relevant"

-----------------------------------------------------------------------------
(* Types.                                                                    *)

LEMMA IdleHeld == NoRow \in Row /\ Idle \in Held
  BY QueryAssumption, BudgetAssumption
  DEF NoRow, Row, Report, Idle, Held, Stage, TaskStatus, Answer, Unit

LEMMA RowUpdates ==
  ASSUME NEW row \in Row
  PROVE  /\ Saved(row) \in Row
         /\ \A said \in Report : Completed(row, said) \in Row
         /\ \A n \in 0 .. MaxAttempts :
              /\ [row EXCEPT !.status = "running", !.attempts = n] \in Row
              /\ [row EXCEPT !.status = "failed", !.attempts = n] \in Row
              /\ [row EXCEPT !.attempts = n] \in Row
         /\ [row EXCEPT !.status = "failed"] \in Row
  BY IdleHeld DEF Row, Saved, Pending, NoRow, Completed, Report

LEMMA ReportsTyped == Reports \subseteq Report \ {"none"}
  BY DEF Reports, ReportOf, Report

(* The steps of a call that touch the rows only through their own unit. *)
LEMMA WorkerTyped ==
  ASSUME TypeOK, NEW u \in Unit, WorkerStep(u)
  PROVE  TypeOK'
<1>1. run \in Held /\ unitRow[u] \in Row /\ Copy(u) \in Row
  BY DEF TypeOK, Held, Copy
<1>2. CASE BeginAttempt(u)
  <2> DEFINE n == Copy(u).attempts + 1
  <2>1. n \in 0 .. MaxAttempts
    BY <1>1, <1>2, BudgetAssumption DEF BeginAttempt, Row
  <2>2. /\ [unitRow[u] EXCEPT !.status = "running", !.attempts = n] \in Row
        /\ [Copy(u) EXCEPT !.attempts = n] \in Row
    BY <1>1, <2>1, RowUpdates
  <2> HIDE DEF n
  <2>3. unitRow' = [unitRow EXCEPT ![u] = [unitRow[u] EXCEPT !.status = "running", !.attempts = n]]
    BY <1>2 DEF BeginAttempt, n, TypeOK
  <2>4. run' = [run EXCEPT !.working = @ \cup {u},
                           !.copy = [run.copy EXCEPT ![u] = [Copy(u) EXCEPT !.attempts = n]]]
    BY <1>2 DEF BeginAttempt, n, Copy
  <2>5. unitRow' \in [Unit -> Row]
    BY <2>2, <2>3 DEF TypeOK
  <2>6. [run.copy EXCEPT ![u] = [Copy(u) EXCEPT !.attempts = n]] \in [Unit -> Row]
    BY <1>1, <2>2 DEF Held
  <2>7. run' \in Held
    BY <1>1, <2>4, <2>6 DEF Held
  <2> QED
    BY <1>2, <2>5, <2>7 DEF TypeOK, BeginAttempt
<1>3. CASE Analyse(u)
  <2>1. PICK said \in Reports :
          /\ unitRow' = [unitRow EXCEPT ![u] = Completed(@, said)]
          /\ run' = [run EXCEPT !.working = @ \ {u}, !.done = @ \cup {u},
                                !.copy[u] = Completed(@, said)]
    BY <1>3 DEF Analyse
  <2>2. Completed(unitRow[u], said) \in Row /\ Completed(Copy(u), said) \in Row
    BY <1>1, RowUpdates, ReportsTyped
  <2>3. unitRow' \in [Unit -> Row]
    BY <2>1, <2>2 DEF TypeOK
  <2>4. [run.copy EXCEPT ![u] = Completed(Copy(u), said)] \in [Unit -> Row]
    BY <1>1, <2>2 DEF Held
  <2>5. run' \in Held
    BY <1>1, <2>1, <2>4 DEF Held, Copy
  <2> QED
    BY <1>3, <2>3, <2>5 DEF TypeOK, Analyse
<1>4. CASE AttemptFails(u)
  BY <1>4 DEF AttemptFails, TypeOK, Held
<1>5. CASE GiveUp(u)
  <2>1. MaxAttempts \in 0 .. MaxAttempts
    BY BudgetAssumption
  <2>2. /\ [unitRow[u] EXCEPT !.status = "failed", !.attempts = MaxAttempts] \in Row
        /\ [Copy(u) EXCEPT !.status = "failed"] \in Row
    BY <1>1, <2>1, RowUpdates
  <2>3. unitRow' \in [Unit -> Row]
    BY <1>5, <2>2 DEF GiveUp, TypeOK
  <2>4. [run.copy EXCEPT ![u] = [Copy(u) EXCEPT !.status = "failed"]] \in [Unit -> Row]
    BY <1>1, <2>2 DEF Held
  <2>5. run' \in Held
    BY <1>1, <1>5, <2>4 DEF GiveUp, Held, Copy
  <2> QED
    BY <1>5, <2>3, <2>5 DEF TypeOK, GiveUp
<1> QED
  BY <1>2, <1>3, <1>4, <1>5 DEF WorkerStep

LEMMA FinalStatusFinal == FinalStatus \in Final
  BY DEF FinalStatus, Final

(* The calls, rows and units of every state are what they should be, whatever *)
(* crashed before (the columns' domains in research_tasks and work_units).    *)
THEOREM TypeCorrect == Spec => []TypeOK
<1>1. Init => TypeOK
  BY IdleHeld, BudgetAssumption DEF Init, TypeOK, TaskStatus
<1>2. TypeOK /\ [Next]_vars => TypeOK'
  <2> SUFFICES ASSUME TypeOK, [Next]_vars PROVE TypeOK'
    OBVIOUS
  <2>0. run \in Held
    BY DEF TypeOK
  <2>1. CASE Call
    <3>1. taskRow' \in TaskStatus
      BY <2>1 DEF Call, TypeOK, TaskStatus
    <3>2. run' \in Held
      BY <2>1, <3>1, IdleHeld DEF Call, Held, Stage
    <3>3. calls' \in 0 .. MaxCalls
      BY <2>1, BudgetAssumption DEF Call, TypeOK
    <3> QED
      BY <2>1, <3>1, <3>2, <3>3 DEF Call, TypeOK
  <2>2. CASE Retrieve
    BY <2>0, <2>2, ZenonT(30) DEF Retrieve, TypeOK, Held, Stage
  <2>3. CASE RetrieveNothing
    <3>1. Closed \in TaskStatus
      BY <2>0 DEF Closed, TaskStatus, Final
    <3>2. PICK answer \in {"no_evidence", "insufficient"} : Return(answer, run.lost)
      BY <2>3 DEF RetrieveNothing
    <3>3. run' \in Held
      BY <2>0, <3>2, IdleHeld DEF Return, Held, Answer
    <3> QED
      BY <2>3, <3>1, <3>3 DEF RetrieveNothing, TypeOK, Known
  <2>4. CASE SaveUnit
    <3>1. PICK c \in run.todo :
            /\ unitRow' = [unitRow EXCEPT ![<<run.query, c>>] = Saved(@)]
            /\ run' = [run EXCEPT !.todo = @ \ {c}]
      BY <2>4 DEF SaveUnit
    <3>2. <<run.query, c>> \in Unit
      BY <2>0 DEF Held, Unit
    <3>3. unitRow' \in [Unit -> Row]
      BY <3>1, <3>2, RowUpdates DEF TypeOK
    <3>4. run' \in Held
      BY <2>0, <3>1 DEF Held
    <3> QED
      BY <2>4, <3>3, <3>4 DEF SaveUnit, TypeOK
  <2>5. CASE Plan
    BY <2>0, <2>5 DEF Plan, TypeOK, Held, Stage, TaskStatus
  <2>6. CASE List
    <3>1. [u \in Unit |-> IF u \in Listed THEN unitRow[u] ELSE NoRow] \in [Unit -> Row]
      BY IdleHeld DEF TypeOK
    <3>2. run' \in Held
      BY <2>0, <2>6, <3>1 DEF List, Held, Stage
    <3> QED
      BY <2>6, <3>2 DEF List, TypeOK
  <2>7. CASE Schedule
    <3>1. In(run.copy, "completed") \in SUBSET Unit
      BY DEF In
    <3> QED
      BY <2>0, <2>7, <3>1 DEF Schedule, TypeOK, Held, Stage, TaskStatus
  <2>8. CASE Finalize
    <3>1. FinalStatus \in TaskStatus
      BY FinalStatusFinal DEF TaskStatus
    <3> QED
      BY <2>0, <2>8, <3>1 DEF Finalize, TypeOK, Held, Stage
  <2>9. CASE Collect
    <3>1. PICK lost \in SUBSET In(run.copy, "completed") :
            \/ \E answer \in {"supported", "failed", "insufficient"} :
                 Return(answer, lost # {} \/ run.lost)
            \/ Rewrite(lost)
      BY <2>9 DEF Collect
    <3> DEFINE gone == lost # {} \/ run.lost
    <3>2. gone \in BOOLEAN
      BY <2>0 DEF Held
    <3>3. ASSUME NEW answer \in {"supported", "failed", "insufficient"},
                 Return(answer, gone)
          PROVE  run' \in Held
      <4> HIDE DEF gone
      <4> QED
        BY <3>2, <3>3, IdleHeld DEF Return, Answer, Held
    <3>4. ASSUME Rewrite(lost) PROVE run' \in Held
      <4>1. NextRound \in 1 .. MaxRounds
        BY <2>0, <3>4, BudgetAssumption DEF Rewrite, NextRound, Held
      <4>2. run.task \in TaskStatus
        BY <2>0 DEF Held
      <4>3. PICK q \in Query :
              run' = [Idle EXCEPT !.stage = "retrieve", !.task = run.task,
                        !.round = NextRound, !.query = q, !.lost = gone]
        BY <3>4 DEF Rewrite
      <4> HIDE DEF gone
      <4> QED
        BY <3>2, <4>1, <4>2, <4>3, IdleHeld DEF Held, Stage
    <3> QED
      BY <2>9, <3>1, <3>3, <3>4 DEF Collect, TypeOK, Rewrite, Return
  <2>10. CASE Crash
    BY <2>10, IdleHeld DEF Crash, TypeOK
  <2>11. CASE UNCHANGED vars
    BY <2>11 DEF vars, TypeOK
  <2> QED
    BY <2>1, <2>2, <2>3, <2>4, <2>5, <2>6, <2>7, <2>8, <2>9, <2>10, <2>11,
       WorkerTyped DEF Next, MainStep
<1> QED
  BY <1>1, <1>2, PTL DEF Spec

-----------------------------------------------------------------------------
(* What the steps on one unit do to its row, its copy and the rest.          *)

LEMMA RowFields ==
  ASSUME NEW row \in Row
  PROVE  /\ row.attempts \in 0 .. MaxAttempts
         /\ row = [status |-> row.status, attempts |-> row.attempts, report |-> row.report]
  BY DEF Row

(* Nothing but unit u, its place in the pool and the set done has changed. *)
OnlyUnit(u) ==
  /\ \A v \in Unit \ {u} : unitRow'[v] = unitRow[v] /\ Copy(v)' = Copy(v)
  /\ run'.stage = run.stage /\ run'.task = run.task /\ run'.answer = run.answer
  /\ run'.round = run.round /\ run'.lost = run.lost
  /\ taskRow' = taskRow /\ abandoned' = abandoned

LEMMA BeginAttemptEffect ==
  ASSUME TypeOK, NEW u \in Unit, BeginAttempt(u)
  PROVE  /\ OnlyUnit(u)
         /\ unitRow'[u].status = "running"
         /\ unitRow'[u].attempts = Copy(u).attempts + 1
         /\ unitRow'[u].report = unitRow[u].report
         /\ Copy(u)'.status = Copy(u).status
         /\ Copy(u)'.attempts = Copy(u).attempts + 1
         /\ Copy(u)'.report = Copy(u).report
         /\ run'.working = run.working \cup {u} /\ run'.done = run.done
<1>1. run \in Held /\ unitRow[u] \in Row /\ Copy(u) \in Row
  BY DEF TypeOK, Held, Copy
<1> DEFINE n == Copy(u).attempts + 1
           row == [unitRow[u] EXCEPT !.status = "running", !.attempts = n]
           mine == [Copy(u) EXCEPT !.attempts = n]
<1>2. unitRow' = [unitRow EXCEPT ![u] = row]
  BY DEF BeginAttempt, TypeOK
<1>3. run' = [run EXCEPT !.working = @ \cup {u}, !.copy = [run.copy EXCEPT ![u] = mine]]
  BY DEF BeginAttempt, Copy
<1>4. /\ row.status = "running" /\ row.attempts = n /\ row.report = unitRow[u].report
      /\ mine.status = Copy(u).status /\ mine.attempts = n /\ mine.report = Copy(u).report
  BY <1>1 DEF Row
<1>5. /\ run'.copy = [run.copy EXCEPT ![u] = mine]
      /\ run'.working = run.working \cup {u} /\ run'.done = run.done
      /\ run'.stage = run.stage /\ run'.task = run.task /\ run'.answer = run.answer
      /\ run'.round = run.round /\ run'.lost = run.lost
  BY <1>1, <1>3 DEF Held
<1> HIDE DEF row, mine
<1>6. run.copy \in [Unit -> Row] /\ unitRow \in [Unit -> Row]
  BY <1>1 DEF TypeOK, Held
<1>7. unitRow'[u] = row /\ Copy(u)' = mine
  BY <1>2, <1>5, <1>6 DEF Copy
<1>8. \A v \in Unit \ {u} : unitRow'[v] = unitRow[v] /\ Copy(v)' = Copy(v)
  BY <1>2, <1>5, <1>6 DEF Copy
<1> QED
  BY <1>4, <1>5, <1>7, <1>8 DEF OnlyUnit, BeginAttempt

LEMMA AnalyseEffect ==
  ASSUME TypeOK, NEW u \in Unit, Analyse(u)
  PROVE  /\ OnlyUnit(u)
         /\ unitRow'[u].status = "completed" /\ Copy(u)'.status = "completed"
         /\ unitRow'[u].attempts = unitRow[u].attempts
         /\ Copy(u)'.attempts = Copy(u).attempts
         /\ unitRow'[u].report = Copy(u)'.report
         /\ run'.working = run.working \ {u} /\ run'.done = run.done \cup {u}
<1>1. run \in Held /\ unitRow[u] \in Row /\ Copy(u) \in Row
  BY DEF TypeOK, Held, Copy
<1>2. PICK said \in Reports :
        /\ unitRow' = [unitRow EXCEPT ![u] = Completed(@, said)]
        /\ run' = [run EXCEPT !.working = @ \ {u}, !.done = @ \cup {u},
                              !.copy[u] = Completed(@, said)]
  BY DEF Analyse
<1> DEFINE row == Completed(unitRow[u], said)
           mine == Completed(Copy(u), said)
<1>3. /\ row.status = "completed" /\ row.attempts = unitRow[u].attempts
      /\ row.report = said /\ mine.report = said
      /\ mine.status = "completed" /\ mine.attempts = Copy(u).attempts
  BY <1>1 DEF Row, Completed
<1>4. /\ run'.copy = [run.copy EXCEPT ![u] = mine]
      /\ run'.working = run.working \ {u} /\ run'.done = run.done \cup {u}
      /\ run'.stage = run.stage /\ run'.task = run.task /\ run'.answer = run.answer
      /\ run'.round = run.round /\ run'.lost = run.lost
  BY <1>1, <1>2 DEF Held, Copy
<1>5. unitRow' = [unitRow EXCEPT ![u] = row]
  BY <1>2 DEF TypeOK
<1> HIDE DEF row, mine
<1>6. run.copy \in [Unit -> Row] /\ unitRow \in [Unit -> Row]
  BY <1>1 DEF TypeOK, Held
<1>7. unitRow'[u] = row /\ Copy(u)' = mine
  BY <1>4, <1>5, <1>6 DEF Copy
<1>8. \A v \in Unit \ {u} : unitRow'[v] = unitRow[v] /\ Copy(v)' = Copy(v)
  BY <1>4, <1>5, <1>6 DEF Copy
<1> QED
  BY <1>3, <1>4, <1>7, <1>8 DEF OnlyUnit, Analyse

LEMMA GiveUpEffect ==
  ASSUME TypeOK, NEW u \in Unit, GiveUp(u)
  PROVE  /\ OnlyUnit(u)
         /\ unitRow'[u].status = "failed" /\ Copy(u)'.status = "failed"
         /\ unitRow'[u].attempts = MaxAttempts
         /\ Copy(u)'.attempts = Copy(u).attempts
         /\ unitRow'[u].report = unitRow[u].report
         /\ Copy(u)'.report = Copy(u).report
         /\ run'.working = run.working /\ run'.done = run.done \cup {u}
<1>1. run \in Held /\ unitRow[u] \in Row /\ Copy(u) \in Row
  BY DEF TypeOK, Held, Copy
<1> DEFINE row == [unitRow[u] EXCEPT !.status = "failed", !.attempts = MaxAttempts]
           mine == [Copy(u) EXCEPT !.status = "failed"]
<1>2. unitRow' = [unitRow EXCEPT ![u] = row]
  BY DEF GiveUp, TypeOK
<1>3. run' = [run EXCEPT !.copy = [run.copy EXCEPT ![u] = mine], !.done = @ \cup {u}]
  BY DEF GiveUp, Copy
<1>4. /\ row.status = "failed" /\ row.attempts = MaxAttempts
      /\ row.report = unitRow[u].report /\ mine.report = Copy(u).report
      /\ mine.status = "failed" /\ mine.attempts = Copy(u).attempts
  BY <1>1 DEF Row
<1>5. /\ run'.copy = [run.copy EXCEPT ![u] = mine]
      /\ run'.working = run.working /\ run'.done = run.done \cup {u}
      /\ run'.stage = run.stage /\ run'.task = run.task /\ run'.answer = run.answer
      /\ run'.round = run.round /\ run'.lost = run.lost
  BY <1>1, <1>3 DEF Held
<1> HIDE DEF row, mine
<1>6. run.copy \in [Unit -> Row] /\ unitRow \in [Unit -> Row]
  BY <1>1 DEF TypeOK, Held
<1>7. unitRow'[u] = row /\ Copy(u)' = mine
  BY <1>2, <1>5, <1>6 DEF Copy
<1>8. \A v \in Unit \ {u} : unitRow'[v] = unitRow[v] /\ Copy(v)' = Copy(v)
  BY <1>2, <1>5, <1>6 DEF Copy
<1> QED
  BY <1>4, <1>5, <1>7, <1>8 DEF OnlyUnit, GiveUp

(* A unit that has a row keeps it. *)
LEMMA SaveUnitEffect ==
  ASSUME TypeOK, SaveUnit
  PROVE  \E u \in Unit :
           /\ \A v \in Unit \ {u} : unitRow'[v] = unitRow[v]
           /\ unitRow[u].status # "none" => unitRow'[u] = unitRow[u]
           /\ unitRow[u].status = "none" => unitRow'[u] = Pending
           /\ run' = [run EXCEPT !.todo = run'.todo]
<1>1. PICK c \in run.todo :
        /\ unitRow' = [unitRow EXCEPT ![<<run.query, c>>] = Saved(@)]
        /\ run' = [run EXCEPT !.todo = @ \ {c}]
  BY DEF SaveUnit
<1>2. run \in Held
  BY DEF TypeOK
<1> <<run.query, c>> \in Unit
  BY <1>2 DEF Held, Unit
<1> WITNESS <<run.query, c>> \in Unit
<1>3. run' = [run EXCEPT !.todo = run'.todo]
  BY <1>1, <1>2 DEF Held
<1> QED
  BY <1>1, <1>2, <1>3 DEF TypeOK, Saved
(* A call begins, returns, and begins another round with nothing in its hands *)
(* but what is said here.                                                     *)
LEMMA CallEffect ==
  ASSUME Call
  PROVE  /\ run'.stage = "retrieve" /\ run'.working = {} /\ run'.task = taskRow'
         /\ run'.answer = "none" /\ run'.round = 1
  BY DEF Call, Idle

LEMMA ReturnEffect ==
  ASSUME NEW answer, NEW lost \in BOOLEAN, Return(answer, lost)
  PROVE  /\ run'.stage = "idle" /\ run'.working = {} /\ run'.answer = answer
         /\ run'.lost = lost
  BY DEF Return, Idle

LEMMA RewriteEffect ==
  ASSUME TypeOK, NEW lost, Rewrite(lost)
  PROVE  /\ run'.stage = "retrieve" /\ run'.working = {} /\ run'.task = run.task
         /\ run'.answer = "none" /\ run'.round # 1
         /\ run'.lost = (lost # {} \/ run.lost)
<1> DEFINE gone == lost # {} \/ run.lost
<1>1. PICK q \in Query : run' = [Idle EXCEPT !.stage = "retrieve", !.task = run.task,
                                !.round = NextRound, !.query = q, !.lost = gone]
  BY DEF Rewrite
<1>2. NextRound # 1
  BY BudgetAssumption DEF NextRound, TypeOK, Held
<1> HIDE DEF gone
<1>3. run'.lost = gone
  BY <1>1 DEF Idle
<1> QED
  BY <1>1, <1>2, <1>3 DEF Idle, gone
LEMMA CollectEffect ==
  ASSUME TypeOK, Collect
  PROVE  \E lost \in SUBSET In(run.copy, "completed") :
           /\ run'.working = {}
           /\ run'.lost = (lost # {} \/ run.lost)
           /\ \/ /\ run'.stage = "idle"
                 /\ \/ run'.answer = "supported" /\ Sufficient(lost)
                    \/ run'.answer = "failed" /\ AllWorkersFailed(lost)
                    \/ run'.answer = "insufficient" /\ ~ Sufficient(lost)
              \/ /\ run'.stage = "retrieve" /\ run'.task = run.task
                 /\ run'.answer = "none" /\ run'.round # 1 /\ ~ Sufficient(lost)
<1>1. PICK lost \in SUBSET In(run.copy, "completed") :
        LET gone == lost # {} \/ run.lost IN
          \/ Sufficient(lost) /\ Return("supported", gone)
          \/ ~ Sufficient(lost) /\ AllWorkersFailed(lost) /\ Return("failed", gone)
          \/ ~ Sufficient(lost) /\ Rewrite(lost)
          \/ ~ Sufficient(lost) /\ Return("insufficient", gone)
  BY DEF Collect
<1> WITNESS lost \in SUBSET In(run.copy, "completed")
<1> DEFINE gone == lost # {} \/ run.lost
<1>2. gone \in BOOLEAN
  BY DEF TypeOK, Held
<1>3. CASE Sufficient(lost) /\ Return("supported", gone)
  <2> HIDE DEF gone
  <2>1. run'.stage = "idle" /\ run'.working = {} /\ run'.answer = "supported" /\ run'.lost = gone
    BY <1>2, <1>3, ReturnEffect
  <2> QED
    BY <1>3, <2>1 DEF gone
<1>4. CASE AllWorkersFailed(lost) /\ Return("failed", gone)
  <2> HIDE DEF gone
  <2>1. run'.stage = "idle" /\ run'.working = {} /\ run'.answer = "failed" /\ run'.lost = gone
    BY <1>2, <1>4, ReturnEffect
  <2> QED
    BY <1>4, <2>1 DEF gone
<1>5. CASE ~ Sufficient(lost) /\ Return("insufficient", gone)
  <2> HIDE DEF gone
  <2>1. run'.stage = "idle" /\ run'.working = {} /\ run'.answer = "insufficient" /\ run'.lost = gone
    BY <1>2, <1>5, ReturnEffect
  <2> QED
    BY <1>5, <2>1 DEF gone
<1>6. CASE ~ Sufficient(lost) /\ Rewrite(lost)
  BY <1>6, RewriteEffect
<1> QED
  BY <1>1, <1>3, <1>4, <1>5, <1>6

-----------------------------------------------------------------------------
(* Rows and copies.                                                          *)

LEMMA RowsFollowInit == Init => RowsFollow
  BY DEF Init, RowsFollow, UnitFollows, NoRow, Idle

(* A worker's step leaves its own unit right, and a settled one as it was. *)
LEMMA WorkerFollows ==
  ASSUME TypeOK, RowsFollow, NEW u \in Unit, WorkerStep(u)
  PROVE  /\ RowsFollow'
         /\ u \in Settled(unitRow) => unitRow'[u] = unitRow[u]
         /\ OnlyUnit(u)
         /\ run.stage = "work"
<1>1. /\ run \in Held /\ unitRow[u] \in Row /\ Copy(u) \in Row /\ UnitFollows(u)
      /\ unitRow' [u] \in Row
  BY WorkerTyped DEF TypeOK, Held, Copy, RowsFollow
<1>2. ASSUME OnlyUnit(u), UnitFollows(u)',
             run'.working \ {u} = run.working \ {u}, run'.done \ {u} = run.done \ {u}
      PROVE  RowsFollow'
  <2>1. ASSUME NEW v \in Unit \ {u} PROVE UnitFollows(v)'
    BY <1>2 DEF RowsFollow, UnitFollows, OnlyUnit, Agree
  <2> QED
    BY <1>2, <2>1 DEF RowsFollow
<1>3. CASE BeginAttempt(u)
  <2>1. /\ run.stage = "work" /\ u \notin run.done /\ Copy(u).attempts < MaxAttempts
        /\ Copy(u).status # "none"
    BY <1>3 DEF BeginAttempt, Outstanding, Known, Copy
  <2>2. u \notin Settled(unitRow)
    BY <1>1, <2>1, BudgetAssumption DEF UnitFollows, Agree, Settled, In, Row
  <2>3. Copy(u).status \in {"pending", "running"} /\ Agree(u)
    BY <1>1, <2>1, BudgetAssumption DEF UnitFollows, Agree, Row
  <2>4. UnitFollows(u)'
    BY <1>3, <2>1, <2>3, BeginAttemptEffect DEF UnitFollows, Agree, OnlyUnit
  <2>5. OnlyUnit(u) /\ run'.working = run.working \cup {u} /\ run'.done = run.done
    BY <1>3, BeginAttemptEffect
  <2> QED
    BY <1>2, <2>1, <2>2, <2>4, <2>5
<1>4. CASE Analyse(u)
  <2>1. u \in run.working /\ run.stage = "work"
    BY <1>1, <1>4 DEF Analyse, UnitFollows
  <2>2. u \notin Settled(unitRow)
    BY <1>1, <2>1 DEF UnitFollows, Settled, In
  <2>3. UnitFollows(u)'
    BY <1>1, <1>4, <2>1, AnalyseEffect DEF UnitFollows, Agree, OnlyUnit
  <2> QED
    BY <1>2, <1>4, <2>1, <2>2, <2>3, AnalyseEffect
<1>5. CASE AttemptFails(u)
  <2>1. u \in run.working /\ run.stage = "work"
    BY <1>1, <1>5 DEF AttemptFails, UnitFollows
  <2>2. /\ OnlyUnit(u) /\ unitRow' = unitRow /\ Copy(u)' = Copy(u)
        /\ run'.working = run.working \ {u} /\ run'.done = run.done
    BY <1>1, <1>5 DEF AttemptFails, OnlyUnit, Held, Copy
  <2>3. UnitFollows(u)'
    BY <1>1, <2>1, <2>2 DEF UnitFollows, Agree, OnlyUnit
  <2> QED
    BY <1>2, <2>1, <2>2, <2>3
<1>6. CASE GiveUp(u)
  <2>1. run.stage = "work" /\ u \notin run.done \cup run.working
        /\ Copy(u).attempts = MaxAttempts
    BY <1>6 DEF GiveUp, Outstanding
  <2>2. u \in Settled(unitRow) => unitRow'[u] = unitRow[u]
    BY <1>1, <1>6, <2>1, GiveUpEffect, RowFields DEF UnitFollows, Agree, Settled, In
  <2>3. UnitFollows(u)'
    BY <1>1, <1>6, <2>1, GiveUpEffect DEF UnitFollows, Agree, OnlyUnit
  <2> QED
    BY <1>2, <1>6, <2>1, <2>2, <2>3, GiveUpEffect
<1> QED
  BY <1>3, <1>4, <1>5, <1>6 DEF WorkerStep

LEMMA SaveUnitFollows ==
  ASSUME TypeOK, RowsFollow, SaveUnit
  PROVE  /\ RowsFollow'
         /\ \A u \in Settled(unitRow) : unitRow'[u] = unitRow[u]
<1>1. PICK u \in Unit :
        /\ \A v \in Unit \ {u} : unitRow'[v] = unitRow[v]
        /\ unitRow[u].status # "none" => unitRow'[u] = unitRow[u]
        /\ unitRow[u].status = "none" => unitRow'[u] = Pending
        /\ run' = [run EXCEPT !.todo = run'.todo]
  BY SaveUnitEffect
<1>2. run.stage = "plan" /\ run \in Held /\ Pending.status = "pending"
  BY DEF SaveUnit, TypeOK, Pending, NoRow
<1>3. run'.stage = "plan" /\ run'.working = run.working
  BY <1>1, <1>2 DEF Held
<1>4. ASSUME NEW v \in Unit PROVE UnitFollows(v)'
  BY <1>1, <1>2, <1>3 DEF RowsFollow, UnitFollows
<1> QED
  BY <1>1, <1>4 DEF RowsFollow, Settled, In

(* The steps that leave the rows alone: the stage they end in, and what they *)
(* make of the copy, the pool and the units done.                            *)
LEMMA OtherFollows ==
  ASSUME TypeOK, RowsFollow,
         \/ Call \/ Retrieve \/ RetrieveNothing \/ Plan \/ List \/ Schedule
         \/ Finalize \/ Collect \/ Crash
  PROVE  RowsFollow' /\ unitRow' = unitRow
<1>1. run \in Held
  BY DEF TypeOK
<1>2. \A u \in Unit : UnitFollows(u)
  BY DEF RowsFollow
<1>3. ASSUME run'.stage \in {"idle", "retrieve", "plan", "list"}, run'.working = {},
             unitRow' = unitRow
      PROVE  RowsFollow'
  BY <1>2, <1>3 DEF RowsFollow, UnitFollows
<1>4. run.stage # "work" => run.working = {}
  BY <1>1, <1>2 DEF Held, UnitFollows
<1>5. CASE Call \/ RetrieveNothing \/ Collect \/ Crash
  <2>1. unitRow' = unitRow
    BY <1>5 DEF Call, RetrieveNothing, Collect, Crash
  <2>2. Call \/ run' = Idle \/ Collect \/ \E a : Return(a, run.lost)
    BY <1>5 DEF RetrieveNothing, Crash
  <2>3. run.lost \in BOOLEAN
    BY <1>1 DEF Held
  <2>4. run'.stage \in {"idle", "retrieve"} /\ run'.working = {}
    BY <2>2, <2>3, CallEffect, ReturnEffect, CollectEffect DEF Idle
  <2> QED
    BY <1>3, <2>1, <2>4
<1>6. CASE Retrieve \/ Plan
  <2>1. run'.stage \in {"plan", "list"} /\ run'.working = {} /\ unitRow' = unitRow
    BY <1>1, <1>4, <1>6 DEF Retrieve, Plan, Held
  <2> QED
    BY <1>3, <2>1
<1>7. CASE List
  <2>1. /\ run'.stage = "schedule" /\ run'.working = {} /\ unitRow' = unitRow
        /\ run'.copy = [u \in Unit |-> IF u \in Listed THEN unitRow[u] ELSE NoRow]
    BY <1>1, <1>4, <1>7 DEF List, Held
  <2>2. ASSUME NEW u \in Unit PROVE Copy(u)' = unitRow[u]
    BY <1>2, <2>1 DEF UnitFollows, Listed, Known, Copy
  <2>3. ASSUME NEW u \in Unit PROVE Agree(u)'
    BY <2>1, <2>2 DEF Agree
  <2>4. ASSUME NEW u \in Unit PROVE UnitFollows(u)'
    BY <1>2, <2>1, <2>3 DEF UnitFollows
  <2> QED
    BY <2>1, <2>4 DEF RowsFollow
<1>8. CASE Schedule
  <2>1. /\ run.stage = "schedule" /\ run'.stage = "work" /\ run'.working = {}
        /\ unitRow' = unitRow /\ run'.copy = run.copy
        /\ run'.done = In(run.copy, "completed")
    BY <1>1, <1>4, <1>8 DEF Schedule, Held
  <2> QED
    BY <1>2, <2>1 DEF RowsFollow, UnitFollows, Agree, Copy, In
<1>9. CASE Finalize
  <2>1. /\ run.stage = "work" /\ run'.stage = "collect" /\ run'.working = run.working
        /\ unitRow' = unitRow /\ run'.copy = run.copy /\ run'.done = run.done
        /\ Outstanding = {}
    BY <1>1, <1>9 DEF Finalize, Held
  <2>2. \A u \in Unit : u \in run.working => Copy(u).status # "none"
    BY <1>2, <2>1 DEF UnitFollows, Agree
  <2>3. ASSUME NEW u \in run.working PROVE FALSE
    <3>1. u \in Unit /\ u \notin run.done
      BY <1>1, <1>2 DEF Held, UnitFollows
    <3> QED
      BY <2>1, <2>2, <3>1 DEF Outstanding, Known, Copy
  <2> QED
    BY <1>2, <2>1, <2>3 DEF RowsFollow, UnitFollows, Agree, Copy
<1> QED
  BY <1>5, <1>6, <1>7, <1>8, <1>9

LEMMA RowsFollowNext ==
  ASSUME TypeOK, RowsFollow, [Next]_vars
  PROVE  /\ RowsFollow'
         /\ \A u \in Settled(unitRow) : unitRow'[u] = unitRow[u]
<1>1. ASSUME NEW u \in Unit, WorkerStep(u)
      PROVE  /\ RowsFollow'
             /\ \A v \in Settled(unitRow) : unitRow'[v] = unitRow[v]
  <2>1. Settled(unitRow) \subseteq Unit
    BY DEF Settled, In
  <2> QED
    BY <1>1, <2>1, WorkerFollows DEF OnlyUnit
<1>2. CASE UNCHANGED vars
  BY <1>2 DEF vars, RowsFollow, UnitFollows, Agree, Copy
<1> QED
  BY <1>1, <1>2, OtherFollows, SaveUnitFollows DEF Next, MainStep

(* SettledAnalysesStay: whatever calls, rounds and crashes follow, the row of *)
(* a unit that completed or failed for good stays as it is.                   *)
THEOREM SettledRowsStay == Spec => SettledAnalysesStay
<1>1. TypeOK /\ RowsFollow /\ [Next]_vars =>
        [\A u \in Settled(unitRow) : unitRow'[u] = unitRow[u]]_vars
  BY RowsFollowNext
<1> QED
  BY <1>1, RowsFollowInit, RowsFollowNext, TypeCorrect, PTL DEF Spec, SettledAnalysesStay

-----------------------------------------------------------------------------
(* The status of the task.                                                   *)

LEMMA StatusFollowsInit == Init => StatusFollows
  BY DEF Init, StatusFollows, TellsOf, Idle, Final

(* Where no row changes, what a status tells depends on the status and on the *)
(* units left aside.                                                          *)
LEMMA TellsOfLess ==
  ASSUME TellsOf(Settled(unitRow) \ abandoned), unitRow' = unitRow, taskRow' = taskRow,
         abandoned \subseteq abandoned'
  PROVE  TellsOf(Settled(unitRow) \ abandoned)'
  BY DEF TellsOf, Settled, In

LEMMA SaveUnitKeepsSettled ==
  ASSUME TypeOK, SaveUnit
  PROVE  In(unitRow, "completed")' = In(unitRow, "completed")
         /\ In(unitRow, "failed")' = In(unitRow, "failed")
<1>1. PICK u \in Unit :
        /\ \A v \in Unit \ {u} : unitRow'[v] = unitRow[v]
        /\ unitRow[u].status # "none" => unitRow'[u] = unitRow[u]
        /\ unitRow[u].status = "none" => unitRow'[u] = Pending
        /\ run' = [run EXCEPT !.todo = run'.todo]
  BY SaveUnitEffect
<1>2. Pending.status = "pending"
  BY DEF Pending, NoRow
<1>3. \A v \in Unit : unitRow'[v].status \in {"completed", "failed"}
                        \/ unitRow[v].status \in {"completed", "failed"}
                      => unitRow'[v] = unitRow[v]
  BY <1>1, <1>2
<1> QED
  BY <1>3 DEF In

(* What Finalize says of the units of its copy is true of their rows. *)
LEMMA FinalizeTells ==
  ASSUME TypeOK, RowsFollow, StatusFollows, Finalize
  PROVE  /\ TellsOf(Known(unitRow))'
         /\ Known(unitRow) \subseteq Settled(unitRow)
         /\ taskRow' \in Final
<1>1. /\ run.stage = "work" /\ Outstanding = {} /\ unitRow' = unitRow
      /\ taskRow' = FinalStatus
  BY DEF Finalize
<1>2. \A u \in Unit : UnitFollows(u) /\ Agree(u)
  BY <1>1 DEF RowsFollow, UnitFollows
<1>3. \A u \in Unit : (unitRow[u].status = "none") <=> (Copy(u).status = "none")
  BY <1>2 DEF Agree
<1>4. \A u \in Known(unitRow) : u \in run.done
  BY <1>1, <1>3 DEF Outstanding, Known, Copy
<1>5. \A u \in Known(unitRow) : /\ Copy(u).status \in {"completed", "failed"}
                                /\ unitRow[u].status = Copy(u).status
  BY <1>1, <1>2, <1>4 DEF UnitFollows, Agree, Known
<1>6. Known(unitRow) = Known(run.copy)
  BY <1>3 DEF Known, Copy
<1>7. Known(unitRow) \subseteq Settled(unitRow)
  BY <1>5 DEF Settled, In, Known
<1>8. ASSUME FinalStatus = "completed" PROVE Known(unitRow) \subseteq In(unitRow, "completed")
  BY <1>5, <1>6, <1>8 DEF FinalStatus, In, Known, Copy
<1>9. ASSUME FinalStatus = "failed" PROVE Known(unitRow) \subseteq In(unitRow, "failed")
  BY <1>5, <1>6, <1>9 DEF FinalStatus, In, Known, Copy
<1> QED
  BY <1>1, <1>7, <1>8, <1>9, FinalStatusFinal DEF TellsOf, Known, In

LEMMA StatusFollowsNext ==
  ASSUME TypeOK, RowsFollow, StatusFollows, [Next]_vars
  PROVE  StatusFollows'
<1> USE DEF Final
<1>0. run \in Held
  BY DEF TypeOK
<1>1. CASE Call
  <2>1. unitRow' = unitRow /\ abandoned' = abandoned
        /\ taskRow' = IF taskRow = "none" THEN "created" ELSE taskRow
    BY <1>1 DEF Call
  <2>2. TellsOf(Settled(unitRow) \ abandoned)'
    BY <2>1, TellsOfLess DEF TellsOf, StatusFollows
  <2> QED
    BY <1>1, <2>2, CallEffect DEF StatusFollows
<1>2. CASE Retrieve
  <2>1. /\ run.stage = "retrieve" /\ run'.stage = "plan" /\ run'.task = run.task
        /\ run'.answer = run.answer /\ unitRow' = unitRow /\ taskRow' = taskRow
        /\ abandoned' = abandoned
    BY <1>0, <1>2 DEF Retrieve, Held
  <2> QED
    BY <2>1, TellsOfLess DEF StatusFollows
<1>3. CASE RetrieveNothing
  <2>1. run'.stage = "idle" /\ unitRow' = unitRow
    BY <1>0, <1>3, ReturnEffect DEF RetrieveNothing, Held
  <2>2. run.task = taskRow
    BY <1>3 DEF StatusFollows, RetrieveNothing
  <2>3. CASE run.task \in Final
    <3>1. taskRow' = taskRow /\ abandoned \subseteq abandoned'
      BY <1>3, <2>3 DEF RetrieveNothing, Closed
    <3> QED
      BY <2>1, <3>1, TellsOfLess DEF StatusFollows
  <2>4. CASE run.task \notin Final
    <3>1. taskRow' = "completed"
          /\ Known(unitRow) \ In(unitRow, "completed") \subseteq abandoned'
      BY <1>3, <2>2, <2>4 DEF RetrieveNothing, Closed
    <3>2. Settled(unitRow) \subseteq Known(unitRow)
      BY DEF Settled, Known, In
    <3> QED
      BY <2>1, <3>1, <3>2 DEF StatusFollows, TellsOf, Settled, In
  <2> QED
    BY <2>3, <2>4
<1>4. CASE SaveUnit
  <2>1. /\ run.stage = "plan" /\ run'.stage = "plan" /\ run'.task = run.task
        /\ run'.answer = run.answer /\ taskRow' = taskRow /\ abandoned' = abandoned
    BY <1>0, <1>4 DEF SaveUnit, Held
  <2> QED
    BY <1>4, <2>1, SaveUnitKeepsSettled DEF StatusFollows, TellsOf, Settled
<1>5. CASE Plan \/ List \/ Schedule
  <2>1. /\ run'.stage \in {"list", "schedule", "work"} /\ run'.answer = run.answer
        /\ run.stage # "idle" /\ taskRow' \in {"planned", "running"} \cup {taskRow}
        /\ run.stage = "plan" => taskRow' = "planned"
        /\ run.stage \in {"plan", "list", "schedule"}
    BY <1>0, <1>5 DEF Plan, List, Schedule, Held
  <2>2. taskRow' \notin Final
    BY <2>1 DEF StatusFollows
  <2> QED
    BY <2>1, <2>2 DEF StatusFollows, TellsOf
<1>6. CASE Finalize
  <2>1. /\ run.stage = "work" /\ run'.stage = "collect" /\ run'.answer = run.answer
        /\ run'.task = taskRow' /\ abandoned' = {} /\ unitRow' = unitRow
    BY <1>0, <1>6 DEF Finalize, Held
  <2>2. Settled(unitRow)' \subseteq Known(unitRow)'
    BY DEF Settled, Known, In
  <2>3. TellsOf(Settled(unitRow) \ abandoned)'
    BY <1>6, <2>2, FinalizeTells DEF TellsOf
  <2>4. (Known(unitRow) \subseteq Settled(unitRow))'
    BY <1>6, <2>1, FinalizeTells DEF Settled, Known, In
  <2> QED
    BY <1>6, <2>1, <2>3, <2>4, FinalizeTells DEF StatusFollows
<1>7. CASE Collect
  <2>1. /\ unitRow' = unitRow /\ taskRow' = taskRow /\ abandoned' = abandoned
        /\ run.stage = "collect"
    BY <1>7 DEF Collect
  <2>2. TellsOf(Settled(unitRow) \ abandoned)'
    BY <2>1, TellsOfLess DEF StatusFollows
  <2> QED
    BY <1>7, <2>1, <2>2, CollectEffect DEF StatusFollows
<1>8. CASE Crash
  <2>1. /\ unitRow' = unitRow /\ taskRow' = taskRow /\ abandoned' = abandoned
        /\ run'.stage = "idle"
    BY <1>8 DEF Crash, Idle
  <2> QED
    BY <2>1, TellsOfLess DEF StatusFollows
<1>9. ASSUME NEW u \in Unit, WorkerStep(u) PROVE StatusFollows'
  BY <1>9, WorkerFollows DEF OnlyUnit, StatusFollows, TellsOf
<1>10. CASE UNCHANGED vars
  BY <1>10 DEF vars, StatusFollows, TellsOf, Settled, Known, In
<1> QED
  BY <1>1, <1>2, <1>3, <1>4, <1>5, <1>6, <1>7, <1>8, <1>9, <1>10 DEF Next, MainStep

-----------------------------------------------------------------------------
(* Answers.                                                                  *)

(* Only two steps answer; a call in flight has no answer yet. *)
LEMMA OnlyTwoAnswer ==
  ASSUME TypeOK, RowsFollow, StatusFollows, [Next]_vars,
         ~ RetrieveNothing, ~ Collect, ~ UNCHANGED vars
  PROVE  run'.answer = "none"
<1>1. run \in Held /\ (run.stage # "idle" => run.answer = "none")
  BY DEF TypeOK, StatusFollows
<1>2. CASE Call
  BY <1>2, CallEffect
<1>3. CASE Retrieve
  BY <1>1, <1>3 DEF Retrieve, Held
<1>4. CASE SaveUnit
  BY <1>1, <1>4 DEF SaveUnit, Held
<1>5. CASE Plan \/ List
  BY <1>1, <1>5 DEF Plan, List, Held
<1>6. CASE Schedule \/ Finalize
  BY <1>1, <1>6 DEF Schedule, Finalize, Held
<1>7. CASE Crash
  BY <1>7 DEF Crash, Idle
<1>8. ASSUME NEW u \in Unit, WorkerStep(u) PROVE run'.answer = "none"
  BY <1>1, <1>8, WorkerFollows DEF OnlyUnit
<1> QED
  BY <1>2, <1>3, <1>4, <1>5, <1>6, <1>7, <1>8 DEF Next, MainStep

LEMMA AnsweredNext ==
  ASSUME TypeOK, RowsFollow, StatusFollows, AnsweredTasksAreClosed, [Next]_vars
  PROVE  AnsweredTasksAreClosed'
<1>1. CASE RetrieveNothing
  <2>1. unitRow' = unitRow /\ run.task = taskRow
    BY <1>1 DEF RetrieveNothing, StatusFollows
  <2>2. CASE run.task \in Final
    <3>1. /\ taskRow' = taskRow
          /\ abandoned' = abandoned \cup (Known(unitRow) \ Settled(unitRow))
      BY <1>1, <2>2 DEF RetrieveNothing, Closed
    <3> QED
      BY <2>1, <2>2, <3>1
      DEF AnsweredTasksAreClosed, StatusFollows, TellsOf, Settled, Known, In
  <2>3. CASE run.task \notin Final
    <3>1. /\ taskRow' = "completed"
          /\ abandoned' = abandoned \cup (Known(unitRow) \ In(unitRow, "completed"))
      BY <1>1, <2>1, <2>3 DEF RetrieveNothing, Closed, Final
    <3> QED
      BY <2>1, <3>1 DEF AnsweredTasksAreClosed, Settled, Known, In, Final
  <2> QED
    BY <2>2, <2>3
<1>2. CASE Collect
  <2>1. unitRow' = unitRow /\ taskRow' = taskRow /\ abandoned' = abandoned
    BY <1>2 DEF Collect
  <2>2. /\ abandoned = {} /\ taskRow \in Final /\ Known(unitRow) \subseteq Settled(unitRow)
        /\ TellsOf(Settled(unitRow) \ abandoned)
    BY <1>2 DEF Collect, StatusFollows
  <2> QED
    BY <2>1, <2>2 DEF AnsweredTasksAreClosed, TellsOf, Settled, Known, In
<1>3. CASE UNCHANGED vars
  BY <1>3 DEF vars, AnsweredTasksAreClosed, Settled, Known, In
<1> QED
  BY <1>1, <1>2, <1>3, OnlyTwoAnswer DEF AnsweredTasksAreClosed

(* AnsweredTasksAreClosed: with an answer given the task is closed, and its   *)
(* status is true of all its units but those a crashed call left to a         *)
(* retrieval that came back empty.                                            *)
THEOREM AnsweredTasksClosed == Spec => []AnsweredTasksAreClosed
<1>1. Init => AnsweredTasksAreClosed
  BY DEF Init, AnsweredTasksAreClosed, Idle
<1> QED
  BY <1>1, RowsFollowInit, RowsFollowNext, StatusFollowsInit, StatusFollowsNext,
     AnsweredNext, TypeCorrect, PTL DEF Spec

(* A round in retrieval has just begun, and only Collect begins a later one. *)
LEMMA OnlyTwoRetrieve ==
  ASSUME TypeOK, RowsFollow, [Next]_vars, run'.stage = "retrieve"
  PROVE  Call \/ Collect \/ UNCHANGED vars
<1>1. run \in Held
  BY DEF TypeOK
<1>2. Retrieve \/ SaveUnit \/ Plan => run'.stage # "retrieve"
  BY <1>1 DEF Retrieve, SaveUnit, Plan, Held
<1>3. List \/ Schedule \/ Finalize => run'.stage # "retrieve"
  BY <1>1 DEF List, Schedule, Finalize, Held
<1>4. RetrieveNothing \/ Crash => run'.stage # "retrieve"
  BY <1>1, ReturnEffect DEF RetrieveNothing, Crash, Idle, Held
<1>5. ASSUME NEW u \in Unit, WorkerStep(u) PROVE run'.stage # "retrieve"
  BY <1>5, WorkerFollows DEF OnlyUnit
<1> QED
  BY <1>2, <1>3, <1>4, <1>5 DEF Next, MainStep

(* The copies a call collects from are the rows. *)
LEMMA CollectedAreRows ==
  ASSUME RowsFollow, run.stage = "collect"
  PROVE  /\ In(run.copy, "completed") = In(unitRow, "completed")
         /\ \A u \in Unit : Copy(u).report = unitRow[u].report
<1>1. \A u \in Unit : UnitFollows(u) /\ Agree(u)
  BY DEF RowsFollow, UnitFollows
<1> QED
  BY <1>1 DEF In, Copy, Agree

LEMMA RoundsFollowNext ==
  ASSUME TypeOK, RowsFollow, RoundsFollow, [Next]_vars
  PROVE  RoundsFollow'
<1>1. CASE Collect
  <2>1. run.stage = "collect" /\ unitRow' = unitRow
    BY <1>1 DEF Collect
  <2>2. ASSUME run'.stage = "retrieve", ~ run'.lost PROVE ~ Sufficient({})
    <3>1. PICK lost \in SUBSET In(run.copy, "completed") :
            run'.lost = (lost # {} \/ run.lost) /\ ~ Sufficient(lost)
      BY <1>1, <2>2, CollectEffect
    <3>2. lost = {}
      BY <2>2, <3>1
    <3> QED
      BY <3>1, <3>2
  <2> QED
    BY <2>1, <2>2, CollectedAreRows DEF RoundsFollow, Sufficient, Collected, In
<1>2. CASE UNCHANGED vars
  BY <1>2 DEF vars, RoundsFollow, In
<1> QED
  BY <1>1, <1>2, OnlyTwoRetrieve, CallEffect DEF RoundsFollow

LEMMA AnswersFollowNext ==
  ASSUME TypeOK, RowsFollow, StatusFollows, RoundsFollow, AnswersFollowTheReports,
         [Next]_vars
  PROVE  AnswersFollowTheReports'
<1>1. CASE RetrieveNothing
  <2>1. /\ run.stage = "retrieve" /\ unitRow' = unitRow
        /\ Return(IF run.round = 1 THEN "no_evidence" ELSE "insufficient", run.lost)
        /\ run.lost \in BOOLEAN
    BY <1>1 DEF RetrieveNothing, TypeOK, Held
  <2>2. /\ run'.answer = IF run.round = 1 THEN "no_evidence" ELSE "insufficient"
        /\ run'.lost = run.lost
    BY <2>1, ReturnEffect
  <2> QED
    BY <2>1, <2>2 DEF AnswersFollowTheReports, RoundsFollow, In
<1>2. CASE Collect
  <2>1. run.stage = "collect" /\ unitRow' = unitRow
    BY <1>2 DEF Collect
  <2>2. ASSUME ~ run'.lost
        PROVE  \/ run'.answer = "supported" /\ Sufficient({})
               \/ run'.answer = "failed" /\ AllWorkersFailed({})
               \/ run'.answer = "insufficient" /\ ~ Sufficient({})
               \/ run'.answer = "none"
    BY <1>2, <2>2, CollectEffect
  <2> DEFINE R == {unitRow[u].report : u \in In(unitRow, "completed")}
  <2>3. Sufficient({}) <=> "relevant" \in R
    BY <2>1, CollectedAreRows DEF Sufficient, Collected, In
  <2>4. AllWorkersFailed({}) => R \subseteq {"malformed"}
    BY <2>1, CollectedAreRows DEF AllWorkersFailed, Collected, In
  <2> QED
    BY <2>1, <2>2, <2>3, <2>4 DEF AnswersFollowTheReports, In
<1>3. CASE UNCHANGED vars
  BY <1>3 DEF vars, AnswersFollowTheReports, In
<1> QED
  BY <1>1, <1>2, <1>3, OnlyTwoAnswer DEF AnswersFollowTheReports

(* AnswersFollowTheReports: a call that could read its artifacts answers what *)
(* the reports of all rounds and calls say.                                   *)
THEOREM AnswersFollow == Spec => []AnswersFollowTheReports
<1>1. Init => AnswersFollowTheReports /\ RoundsFollow
  BY DEF Init, AnswersFollowTheReports, RoundsFollow, Idle
<1> QED
  BY <1>1, RowsFollowInit, RowsFollowNext, StatusFollowsInit, StatusFollowsNext,
     RoundsFollowNext, AnswersFollowNext, TypeCorrect, PTL DEF Spec
====
