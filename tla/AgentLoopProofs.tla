--------------------------- MODULE AgentLoopProofs ----------------------------
(***************************************************************************)
(* Proofs about AgentLoop, for any set of overlapping runs, step limit,     *)
(* tool budget and number of calls per response.                            *)
(***************************************************************************)
EXTENDS AgentLoop, FiniteSetTheorems, TLAPS

-----------------------------------------------------------------------------
(* Updates keep checkpoints checkpoints. *)

LEMMA FreshCheckpoints == NoCheckpoint \in Checkpoint /\ FreshCheckpoint \in Checkpoint
  <1>1. NoConversation \in Conversation /\ 0 \in 0 .. MaxSteps
    BY MaxStepsAssumption DEF NoConversation, Conversation
  <1>2. NoCheckpoint \in Checkpoint
    BY <1>1 DEF NoCheckpoint, Checkpoint, Status
  <1> QED
    BY <1>2 DEF FreshCheckpoint, Checkpoint, Status

LEMMA CheckpointFields ==
  ASSUME NEW c \in Checkpoint
  PROVE  /\ c.status \in Status
         /\ c.talk \in Conversation
         /\ c.pending \in SUBSET Call
         /\ c.unsent \in SUBSET Call
         /\ c.results \in SUBSET Call
         /\ c.step \in 0 .. MaxSteps
  BY DEF Checkpoint

LEMMA MarkedType ==
  ASSUME NEW c \in Checkpoint, NEW s \in Status
  PROVE  Marked(c, s) \in Checkpoint
  BY DEF Checkpoint, Marked

LEMMA DeliveredType ==
  ASSUME NEW c \in Checkpoint
  PROVE  Delivered(c) \in Checkpoint
  BY DEF Checkpoint, Delivered

LEMMA AdvancedType ==
  ASSUME NEW c \in Checkpoint, ~ StepsExhausted(c), NEW talk \in Conversation
  PROVE  Advanced(c, talk) \in Checkpoint
  <1>1. c.step + 1 \in 0 .. MaxSteps
    BY MaxStepsAssumption DEF Checkpoint, StepsExhausted
  <1> QED
    BY <1>1 DEF Checkpoint, Advanced

LEMMA WaitingType ==
  ASSUME NEW c \in Checkpoint, NEW calls \in SUBSET Call
  PROVE  Waiting(c, calls) \in Checkpoint
  BY DEF Checkpoint, Waiting, Status

LEMMA WithResultType ==
  ASSUME NEW c \in Checkpoint, NEW calls \in SUBSET Call, NEW ok \in BOOLEAN
  PROVE  WithResult(c, calls, ok) \in Checkpoint
  <1>1. /\ c.results \cup calls \in SUBSET Call
        /\ c.unsent \cup calls \in SUBSET Call
        /\ c.pending \ calls \in SUBSET Call
        /\ (IF ok THEN c.useful \cup calls ELSE c.useful) \in SUBSET Call
    BY DEF Checkpoint
  <1> QED
    BY <1>1 DEF Checkpoint, WithResult

(* What a response brings: new calls, none of an earlier step. *)
LEMMA NewCallsType ==
  ASSUME NEW r \in Runs, NEW n \in 0 .. CallsPerTurn,
         ck[r] \in Checkpoint, ck[r].step < MaxSteps
  PROVE  /\ NewCalls(r, n) \in SUBSET Call
         /\ \A x \in NewCalls(r, n) : x[2] = ck[r].step + 1
  <1>1. ck[r].step + 1 \in 1 .. MaxSteps
    BY MaxStepsAssumption DEF Checkpoint
  <1>2. 1 .. n \subseteq 1 .. CallsPerTurn
    BY CallsPerTurnAssumption
  <1> QED
    BY <1>1, <1>2 DEF NewCalls, Call

LEMMA ReceiveType ==
  ASSUME TypeOK, NEW r \in Runs, NEW talk \in Conversation, Receive(r, talk)
  PROVE  /\ turn' \in [Runs -> Turn]
         /\ turn' = [turn EXCEPT ![r] = turn'[r]]
         /\ \A x \in turn'[r].calls : x[2] = ck[r].step + 1
         /\ turn'[r].talk.called = talk.called \cup turn'[r].calls
         /\ turn'[r].talk.answered = talk.answered
  <1>1. PICK n \in 0 .. CallsPerTurn :
          LET calls == IF ck[r].step < MaxSteps THEN NewCalls(r, n) ELSE {}
          IN  turn' = [turn EXCEPT ![r] =
                [calls |-> calls, talk |-> [talk EXCEPT !.called = @ \cup calls]]]
    BY DEF Receive
  <1> DEFINE calls == IF ck[r].step < MaxSteps THEN NewCalls(r, n) ELSE {}
  <1>2. calls \in SUBSET Call /\ \A x \in calls : x[2] = ck[r].step + 1
    BY NewCallsType DEF TypeOK
  <1> HIDE DEF calls
  <1>3. turn' = [turn EXCEPT ![r] =
                   [calls |-> calls, talk |-> [talk EXCEPT !.called = @ \cup calls]]]
    BY <1>1 DEF calls
  <1>4. [talk EXCEPT !.called = @ \cup calls] \in Conversation
    BY <1>2 DEF Conversation
  <1>5. turn'[r] = [calls |-> calls, talk |-> [talk EXCEPT !.called = @ \cup calls]]
    BY <1>3 DEF TypeOK
  <1>6. turn'[r] \in Turn
    BY <1>2, <1>4, <1>5 DEF Turn
  <1>7. /\ turn'[r].calls = calls
        /\ turn'[r].talk.called = talk.called \cup calls
        /\ turn'[r].talk.answered = talk.answered
    BY <1>5 DEF Conversation
  <1> QED
    BY <1>2, <1>3, <1>5, <1>6, <1>7 DEF TypeOK

LEMMA TalkTypes ==
  ASSUME TypeOK, NEW r \in Runs
  PROVE  /\ NoConversation \in Conversation
         /\ WithOutputs(ck[r]) \in Conversation
         /\ turn[r].calls \in SUBSET Call
         /\ turn[r].talk \in Conversation
  BY DEF TypeOK, NoConversation, Conversation, WithOutputs, Checkpoint, Turn

LEMMA LeaveType ==
  ASSUME TypeOK, NEW r \in Runs, Leave(r)
  PROVE  /\ pc' \in [Runs -> PC]
         /\ ck' \in [Runs -> Checkpoint]
         /\ turn' \in [Runs -> Turn]
         /\ todo' \in [Runs -> SUBSET Call]
         /\ current' \in [Runs -> SUBSET Call]
         /\ exchange' \in [Runs -> Nat]
         /\ recalled' \in [Runs -> SUBSET Nat]
  BY FreshCheckpoints
  DEF TypeOK, Leave, PC, NoTurn, Turn, NoConversation, Conversation

LEMMA FailWithType ==
  ASSUME TypeOK, NEW r \in Runs, NEW c \in Checkpoint, FailWith(r, c)
  PROVE  TypeOK'
  <1>1. stored' \in Checkpoint
    BY MarkedType DEF FailWith, Status
  <1> QED
    BY <1>1, LeaveType DEF TypeOK, FailWith

(* Type correctness: the checkpoint in Redis and every run's copy stay well  *)
(* formed and within the step limit, through every handler of AgentRuntime.  *)
THEOREM TypeCorrect == Spec => []TypeOK
<1>1. Init => TypeOK
  BY FreshCheckpoints
  DEF Init, TypeOK, PC, NoTurn, Turn, NoConversation, Conversation
<1>2. TypeOK /\ [Next]_vars => TypeOK'
  <2> SUFFICES ASSUME TypeOK, [Next]_vars PROVE TypeOK'
    OBVIOUS
  <2> USE DEF memoryVars, loopVars
  <2>1. ASSUME NEW r \in Runs, Invoke(r) PROVE TypeOK'
    <3>1. EntryPoint(stored) \in PC
      BY DEF EntryPoint, PC
    <3>2. [calls |-> stored.pending, talk |-> stored.talk] \in Turn
      BY DEF TypeOK, Checkpoint, Turn
    <3>3. pc' \in [Runs -> PC] /\ ck' \in [Runs -> Checkpoint]
          /\ turn' \in [Runs -> Turn]
      BY <2>1, <3>1, <3>2, FreshCheckpoints DEF TypeOK, Invoke, PC
    <3> QED
      BY <2>1, <3>3 DEF TypeOK, Invoke
  <2>2. ASSUME NEW r \in Runs, SaveFresh(r) PROVE TypeOK'
    BY <2>2 DEF TypeOK, SaveFresh, PC
  <2>3. ASSUME NEW r \in Runs, Start(r) PROVE TypeOK'
    BY <2>3, TalkTypes, ReceiveType DEF TypeOK, Start, PC
  <2>4. ASSUME NEW r \in Runs, ResumeWithResults(r) PROVE TypeOK'
    BY <2>4, TalkTypes, ReceiveType DEF TypeOK, ResumeWithResults, PC
  <2>5. ASSUME NEW r \in Runs, ContinueWithResults(r) PROVE TypeOK'
    <3>1. Delivered(ck[r]) \in Checkpoint
      BY DeliveredType DEF TypeOK
    <3> QED
      BY <2>5, <3>1, TalkTypes, ReceiveType DEF TypeOK, ContinueWithResults, PC
  <2>6. ASSUME NEW r \in Runs, TimeOut(r) \/ ExceedSteps(r) \/ ExceedBudget(r)
        PROVE TypeOK'
    BY <2>6, FailWithType DEF TypeOK, TimeOut, ExceedSteps, ExceedBudget
  <2>7. ASSUME NEW r \in Runs, RejectAnswer(r) PROVE TypeOK'
    <3>1. Advanced(ck[r], turn[r].talk) \in Checkpoint
      BY <2>7, TalkTypes, AdvancedType DEF TypeOK, RejectAnswer, Answering
    <3> QED
      BY <2>7, <3>1, FailWithType DEF RejectAnswer
  <2>8. ASSUME NEW r \in Runs, AcceptAnswer(r) PROVE TypeOK'
    <3>1. Advanced(ck[r], turn[r].talk) \in Checkpoint
      BY <2>8, TalkTypes, AdvancedType DEF TypeOK, AcceptAnswer, Answering
    <3>2. Marked(Advanced(ck[r], turn[r].talk), "completed") \in Checkpoint
      BY <3>1, MarkedType DEF Status
    <3>3. ck' \in [Runs -> Checkpoint] /\ stored' \in Checkpoint
      BY <2>8, <3>2 DEF TypeOK, AcceptAnswer
    <3> QED
      BY <2>8, <3>3 DEF TypeOK, AcceptAnswer, PC
  <2>9. ASSUME NEW r \in Runs, EnterTools(r) PROVE TypeOK'
    <3>1. Advanced(ck[r], turn[r].talk) \in Checkpoint
      BY <2>9, TalkTypes, AdvancedType DEF TypeOK, EnterTools
    <3>2. Waiting(Advanced(ck[r], turn[r].talk), turn[r].calls) \in Checkpoint
      BY <3>1, TalkTypes, WaitingType
    <3>3. ck' \in [Runs -> Checkpoint] /\ stored' \in Checkpoint
      BY <2>9, <3>2 DEF TypeOK, EnterTools
    <3> QED
      BY <2>9, <3>3, TalkTypes DEF TypeOK, EnterTools, PC
  <2>10. ASSUME NEW r \in Runs, ExecuteTool(r) PROVE TypeOK'
    BY <2>10 DEF TypeOK, ExecuteTool, PC
  <2>11. ASSUME NEW r \in Runs, SaveResult(r) PROVE TypeOK'
    <3>1. PICK ok \in BOOLEAN :
            /\ ck' = [ck EXCEPT ![r] = WithResult(@, current[r], ok)]
            /\ todo' = [todo EXCEPT ![r] = RestOfLoop(r, ok)]
      BY <2>11 DEF SaveResult
    <3>2. WithResult(ck[r], current[r], ok) \in Checkpoint
      BY WithResultType DEF TypeOK
    <3>3. ck' \in [Runs -> Checkpoint] /\ stored' \in Checkpoint
      BY <2>11, <3>1, <3>2 DEF TypeOK, SaveResult
    <3> QED
      BY <2>11, <3>1, <3>3 DEF TypeOK, SaveResult, RestOfLoop, PC
  <2>12. ASSUME NEW r \in Runs, LeaveTools(r) PROVE TypeOK'
    <3>1. Marked(ck[r], "running") \in Checkpoint
      BY MarkedType DEF TypeOK, Status
    <3> QED
      BY <2>12, <3>1 DEF TypeOK, LeaveTools, PC
  <2>13. ASSUME NEW r \in Runs, SaveInteraction(r) \/ LoadSession(r) PROVE TypeOK'
    BY <2>13 DEF TypeOK, SaveInteraction, LoadSession, PC
  <2>14. ASSUME NEW r \in Runs, SaveSession(r) \/ Crash(r) PROVE TypeOK'
    BY <2>14, LeaveType DEF TypeOK, SaveSession, Crash
  <2>15. CASE Expire
    BY <2>15, FreshCheckpoints DEF TypeOK, Expire
  <2>16. CASE UNCHANGED vars
    BY <2>16 DEF TypeOK, vars
  <2> QED
    BY <2>1, <2>2, <2>3, <2>4, <2>5, <2>6, <2>7, <2>8, <2>9, <2>10, <2>11,
       <2>12, <2>13, <2>14, <2>15, <2>16 DEF Next, Step
<1> QED
  BY <1>1, <1>2, PTL DEF Spec

-----------------------------------------------------------------------------
(* What an update leaves alone, and whom a step leaves alone. *)

LEMMA SameResults ==
  ASSUME NEW c \in Checkpoint, NEW s \in Status, NEW talk \in Conversation,
         NEW calls \in SUBSET Call
  PROVE  /\ Marked(c, s).results = c.results
         /\ Delivered(c).results = c.results
         /\ Advanced(c, talk).results = c.results
         /\ Waiting(c, calls).results = c.results
  BY DEF Checkpoint, Marked, Delivered, Advanced, Waiting

(* A step of a run touches no other run's objects. *)
LEMMA OthersUntouched ==
  ASSUME TypeOK, NEW r \in Runs, NEW q \in Runs \ {r},
         Invoke(r) \/ Step(r) \/ TimeOut(r) \/ Crash(r)
  PROVE  /\ pc'[q] = pc[q] /\ ck'[q] = ck[q] /\ turn'[q] = turn[q]
         /\ todo'[q] = todo[q] /\ current'[q] = current[q]
  <1> USE DEF TypeOK, memoryVars, loopVars
  <1>1. CASE Leave(r)
    BY <1>1 DEF Leave
  <1>2. CASE Invoke(r) \/ SaveFresh(r)
    BY <1>2 DEF Invoke, SaveFresh
  <1>3. CASE Start(r) \/ ResumeWithResults(r) \/ ContinueWithResults(r)
    <2>1. turn' = [turn EXCEPT ![r] = turn'[r]]
      BY <1>3, TalkTypes, ReceiveType DEF Start, ResumeWithResults, ContinueWithResults
    <2> QED
      BY <1>3, <2>1 DEF Start, ResumeWithResults, ContinueWithResults
  <1>4. CASE AcceptAnswer(r) \/ EnterTools(r) \/ ExecuteTool(r) \/ LeaveTools(r)
    BY <1>4 DEF AcceptAnswer, EnterTools, ExecuteTool, LeaveTools
  <1>5. CASE SaveResult(r)
    BY <1>5 DEF SaveResult
  <1>6. CASE SaveInteraction(r) \/ LoadSession(r)
    BY <1>6 DEF SaveInteraction, LoadSession
  <1> QED
    BY <1>1, <1>2, <1>3, <1>4, <1>5, <1>6
    DEF Step, TimeOut, Crash, ExceedSteps, RejectAnswer, ExceedBudget,
        SaveSession, FailWith

-----------------------------------------------------------------------------
(* The tool budget. *)

LEMMA FreshIsAffordable == Affordable(NoCheckpoint) /\ Affordable(FreshCheckpoint)
  BY FS_EmptySet, MaxToolCallsAssumption
  DEF Affordable, NoCheckpoint, FreshCheckpoint

LEMMA OneMoreElement ==
  ASSUME NEW S, IsFiniteSet(S), NEW x
  PROVE  /\ IsFiniteSet(S \cup {x})
         /\ Cardinality(S) \in Nat
         /\ Cardinality(S \cup {x}) \in Nat
         /\ Cardinality(S \cup {x}) <= Cardinality(S) + 1
  <1>1. Cardinality(S) \in Nat
    BY FS_CardinalityType
  <1>2. /\ IsFiniteSet(S \cup {x})
        /\ Cardinality(S \cup {x}) =
             IF x \in S THEN Cardinality(S) ELSE Cardinality(S) + 1
    BY FS_AddElement
  <1> QED
    BY <1>1, <1>2

LEMMA OneMoreResult ==
  ASSUME NEW c \in Checkpoint, NEW x \in Call, NEW ok \in BOOLEAN,
         Affordable(c), ~ BudgetSpent(c)
  PROVE  Affordable(WithResult(c, {x}, ok))
  <1> DEFINE S == c.results
  <1>1. WithResult(c, {x}, ok).results = S \cup {x}
    BY DEF WithResult, Checkpoint
  <1>2. IsFiniteSet(S) /\ ~ Cardinality(S) >= MaxToolCalls
    BY DEF Affordable, BudgetSpent
  <1> HIDE DEF S
  <1>3. /\ IsFiniteSet(S \cup {x})
        /\ Cardinality(S) \in Nat
        /\ Cardinality(S \cup {x}) \in Nat
        /\ Cardinality(S \cup {x}) <= Cardinality(S) + 1
    BY <1>2, OneMoreElement
  <1>4. Cardinality(S \cup {x}) <= MaxToolCalls
    BY <1>2, <1>3, MaxToolCallsAssumption
  <1> QED
    BY <1>1, <1>3, <1>4 DEF Affordable

LEMMA BudgetInvariant == Spec => []BudgetInv
<1>1. Init => BudgetInv
  BY FreshIsAffordable DEF Init, BudgetInv
<1>2. TypeOK /\ BudgetInv /\ [Next]_vars => BudgetInv'
  <2> SUFFICES ASSUME TypeOK, BudgetInv, [Next]_vars PROVE BudgetInv'
    OBVIOUS
  <2> DEFINE Frugal(r) ==
        /\ Affordable(ck[r])
        /\ pc[r] = "executing" =>
             ~ BudgetSpent(ck[r]) /\ \E c \in Call : current[r] = {c}
  <2>0. \A r \in Runs : ck[r] \in Checkpoint /\ turn[r].talk \in Conversation
                      /\ turn[r].calls \in SUBSET Call
    BY TalkTypes DEF TypeOK
  <2> USE DEF memoryVars, loopVars
  <2>1. ASSUME NEW r \in Runs, Invoke(r) \/ Step(r) \/ TimeOut(r) \/ Crash(r)
        PROVE  BudgetInv'
    <3>1. SUFFICES Affordable(stored)' /\ Frugal(r)'
      <4>1. ASSUME NEW q \in Runs \ {r} PROVE Frugal(q)'
        <5>1. ck'[q] = ck[q] /\ pc'[q] = pc[q] /\ current'[q] = current[q]
          BY <2>1, OthersUntouched
        <5>2. Frugal(q)
          BY DEF BudgetInv
        <5> QED
          BY <5>1, <5>2 DEF Affordable, BudgetSpent
      <4> QED
        BY <4>1 DEF BudgetInv
    <3>2. ASSUME Leave(r) PROVE Frugal(r)'
      BY <3>2, FreshIsAffordable DEF Leave, TypeOK, Affordable
    <3>3. CASE Invoke(r)
      <4>1. ck'[r] = FreshCheckpoint \/ ck'[r] = stored
        BY <3>3 DEF Invoke, TypeOK
      <4>2. pc'[r] # "executing"
        BY <3>3 DEF Invoke, TypeOK, EntryPoint
      <4> QED
        BY <3>3, <4>1, <4>2, FreshIsAffordable DEF Invoke, BudgetInv, Affordable
    <3>4. CASE SaveFresh(r)
      BY <3>4 DEF SaveFresh, BudgetInv, TypeOK, Affordable
    <3>5. CASE Start(r) \/ ResumeWithResults(r) \/ SaveInteraction(r) \/ LoadSession(r)
      BY <3>5 DEF Start, ResumeWithResults, SaveInteraction, LoadSession,
                  BudgetInv, TypeOK, Affordable
    <3>6. CASE ContinueWithResults(r)
      <4>1. ck'[r].results = ck[r].results
        BY <3>6, <2>0, SameResults DEF ContinueWithResults, TypeOK, Delivered, Checkpoint
      <4> QED
        BY <3>6, <4>1 DEF ContinueWithResults, BudgetInv, TypeOK, Affordable
    <3>7. ASSUME NEW c \in Checkpoint, c.results = ck[r].results, FailWith(r, c)
          PROVE  Affordable(stored)' /\ Frugal(r)'
      <4>1. stored'.results = ck[r].results
        BY <3>7 DEF FailWith, Marked, Checkpoint
      <4> QED
        BY <3>7, <3>2, <4>1 DEF FailWith, BudgetInv, Affordable
    <3>8. CASE TimeOut(r) \/ ExceedSteps(r) \/ ExceedBudget(r)
      BY <3>8, <3>7, <2>0 DEF TimeOut, ExceedSteps, ExceedBudget
    <3>9. CASE RejectAnswer(r)
      <4>1. ~ StepsExhausted(ck[r])
        BY <3>9 DEF RejectAnswer, Answering
      <4>2. /\ Advanced(ck[r], turn[r].talk) \in Checkpoint
            /\ Advanced(ck[r], turn[r].talk).results = ck[r].results
        BY <2>0, <4>1, AdvancedType DEF Advanced, Checkpoint
      <4> QED
        BY <3>9, <3>7, <4>2 DEF RejectAnswer
    <3>10. CASE AcceptAnswer(r) \/ EnterTools(r) \/ LeaveTools(r)
      <4>0. /\ ~ StepsExhausted(ck[r]) =>
                 Advanced(ck[r], turn[r].talk) \in Checkpoint
            /\ "completed" \in Status /\ "running" \in Status
        BY <2>0, AdvancedType DEF Status
      <4>1. /\ ck'[r].results = ck[r].results
            /\ stored' = ck'[r]
        <5> DEFINE a == Advanced(ck[r], turn[r].talk)
        <5>1. CASE AcceptAnswer(r)
          <6>1. a \in Checkpoint /\ a.results = ck[r].results
            BY <5>1, <4>0, <2>0, SameResults DEF AcceptAnswer, Answering
          <6>2. ck'[r] = Marked(a, "completed") /\ stored' = ck'[r]
            BY <5>1 DEF AcceptAnswer, TypeOK
          <6> HIDE DEF a
          <6>3. Marked(a, "completed").results = a.results
            BY <6>1, <4>0, <2>0, SameResults
          <6> QED
            BY <6>1, <6>2, <6>3
        <5>2. CASE EnterTools(r)
          <6>1. a \in Checkpoint /\ a.results = ck[r].results
            BY <5>2, <4>0, <2>0, SameResults DEF EnterTools
          <6>2. ck'[r] = Waiting(a, turn[r].calls) /\ stored' = ck'[r]
            BY <5>2 DEF EnterTools, TypeOK
          <6> HIDE DEF a
          <6>3. Waiting(a, turn[r].calls).results = a.results
            BY <6>1, <4>0, <2>0, SameResults
          <6> QED
            BY <6>1, <6>2, <6>3
        <5>3. CASE LeaveTools(r)
          BY <5>3, <4>0, <2>0, SameResults DEF LeaveTools, TypeOK
        <5> QED
          BY <3>10, <5>1, <5>2, <5>3
      <4>2. pc'[r] # "executing"
        BY <3>10 DEF AcceptAnswer, EnterTools, LeaveTools, TypeOK
      <4> QED
        BY <4>1, <4>2 DEF BudgetInv, Affordable
    <3>11. CASE ExecuteTool(r)
      BY <3>11 DEF ExecuteTool, BudgetInv, TypeOK, Affordable, BudgetSpent
    <3>12. CASE SaveResult(r)
      <4>1. PICK ok \in BOOLEAN : ck' = [ck EXCEPT ![r] = WithResult(@, current[r], ok)]
        BY <3>12 DEF SaveResult
      <4>2. PICK x \in Call : current[r] = {x}
        BY <3>12 DEF SaveResult, BudgetInv
      <4>3. Affordable(WithResult(ck[r], {x}, ok))
        BY <3>12, <2>0, <4>2, OneMoreResult DEF SaveResult, BudgetInv
      <4>4. ck'[r] = WithResult(ck[r], {x}, ok) /\ stored' = ck'[r] /\ pc'[r] = "tools"
        BY <3>12, <4>1, <4>2 DEF SaveResult, TypeOK
      <4> QED
        BY <4>3, <4>4 DEF Affordable
    <3>13. CASE SaveSession(r) \/ Crash(r)
      BY <3>13, <3>2 DEF SaveSession, Crash, BudgetInv, Affordable
    <3> HIDE DEF Frugal
    <3> QED
      BY <2>1, <3>3, <3>4, <3>5, <3>6, <3>8, <3>9, <3>10, <3>11, <3>12, <3>13 DEF Step
  <2>2. CASE Expire
    BY <2>2, FreshIsAffordable DEF Expire, BudgetInv, Affordable, BudgetSpent
  <2>3. CASE UNCHANGED vars
    BY <2>3 DEF vars, BudgetInv, Affordable, BudgetSpent
  <2> QED
    BY <2>1, <2>2, <2>3 DEF Next
<1> QED
  BY <1>1, <1>2, TypeCorrect, PTL DEF Spec

(* The tool budget of a conversation holds across crashes, resumptions and   *)
(* overlapping runs (AgentRuntime._drive, tool_call_budget).                 *)
THEOREM ToolBudgetRespected == Spec => []ToolCallsWithinBudget
<1>1. BudgetInv => ToolCallsWithinBudget
  BY DEF BudgetInv, Affordable, ToolCallsWithinBudget
<1> QED
  BY <1>1, BudgetInvariant, PTL

-----------------------------------------------------------------------------
(* Resumption. *)

LEMMA MarkedFields ==
  ASSUME NEW c \in Checkpoint, NEW s
  PROVE  /\ Marked(c, s).status = s
         /\ Marked(c, s).talk = c.talk
         /\ Marked(c, s).pending = c.pending
         /\ Marked(c, s).unsent = c.unsent
         /\ Marked(c, s).results = c.results
         /\ Marked(c, s).step = c.step
  BY DEF Checkpoint, Marked

LEMMA DeliveredFields ==
  ASSUME NEW c \in Checkpoint
  PROVE  /\ Delivered(c).pending = c.pending
         /\ Delivered(c).unsent = {}
         /\ Delivered(c).results = c.results
         /\ Delivered(c).step = c.step
  BY DEF Checkpoint, Delivered

LEMMA AdvancedFields ==
  ASSUME NEW c \in Checkpoint, NEW talk
  PROVE  /\ Advanced(c, talk).talk = talk
         /\ Advanced(c, talk).pending = c.pending
         /\ Advanced(c, talk).unsent = c.unsent
         /\ Advanced(c, talk).results = c.results
         /\ Advanced(c, talk).step = c.step + 1
  BY DEF Checkpoint, Advanced

LEMMA WaitingFields ==
  ASSUME NEW c \in Checkpoint, NEW calls
  PROVE  /\ Waiting(c, calls).talk = c.talk
         /\ Waiting(c, calls).pending = calls
         /\ Waiting(c, calls).unsent = c.unsent
         /\ Waiting(c, calls).results = c.results
         /\ Waiting(c, calls).step = c.step
  BY DEF Checkpoint, Waiting

LEMMA WithResultFields ==
  ASSUME NEW c \in Checkpoint, NEW calls, NEW ok
  PROVE  /\ WithResult(c, calls, ok).talk = c.talk
         /\ WithResult(c, calls, ok).pending = c.pending \ calls
         /\ WithResult(c, calls, ok).unsent = c.unsent \cup calls
         /\ WithResult(c, calls, ok).results = c.results \cup calls
         /\ WithResult(c, calls, ok).step = c.step
  BY DEF Checkpoint, WithResult

LEMMA FreshFields ==
  /\ NoCheckpoint.status = "absent" /\ FreshCheckpoint.status = "running"
  /\ Dated(NoCheckpoint) /\ Dated(FreshCheckpoint)
  /\ Accounts(FreshCheckpoint)
  /\ NoCheckpoint.unsent \subseteq NoCheckpoint.results
  /\ FreshCheckpoint.unsent \subseteq FreshCheckpoint.results
  BY DEF NoCheckpoint, FreshCheckpoint, NoConversation, Dated, Accounts

LEMMA Steps ==
  ASSUME NEW c \in Checkpoint
  PROVE  c.step \in Nat /\ \A x \in c.results \cup c.pending : x[2] \in Nat
  BY MaxStepsAssumption DEF Checkpoint, Call

(* The calls of a new response are not those of any earlier result. *)
LEMMA FreshTurnAccounts ==
  ASSUME NEW c \in Checkpoint, NEW t \in Turn,
         Dated(c),
         t.talk.called \ t.talk.answered \subseteq t.calls \cup c.unsent,
         \A x \in t.calls : x[2] = c.step + 1
  PROVE  TurnAccounts(c, t)
  <1>1. t.calls \cap c.results = {}
    <2>1. ASSUME NEW x \in t.calls, x \in c.results PROVE FALSE
      <3>1. x[2] = c.step + 1 /\ x[2] <= c.step /\ c.step \in Nat
        BY <2>1, Steps DEF Dated
      <3> QED
        BY <3>1
    <2> QED
      BY <2>1
  <1>2. \A x \in t.calls : x[2] <= c.step + 1
    BY Steps
  <1> QED
    BY <1>1, <1>2 DEF TurnAccounts

(* Sending the results of a checkpoint that is ready leaves only new calls.  *)
LEMMA SendingAnswersAll ==
  ASSUME TypeOK, NEW r \in Runs, ReadyToSend(ck[r]), Receive(r, WithOutputs(ck[r]))
  PROVE  turn'[r].talk.called \ turn'[r].talk.answered \subseteq turn'[r].calls
  <1>1. /\ WithOutputs(ck[r]).called = ck[r].talk.called
        /\ WithOutputs(ck[r]).answered = ck[r].talk.answered \cup ck[r].unsent
    BY DEF TypeOK, Checkpoint, Conversation, WithOutputs
  <1>2. /\ turn'[r].talk.called = WithOutputs(ck[r]).called \cup turn'[r].calls
        /\ turn'[r].talk.answered = WithOutputs(ck[r]).answered
    BY ReceiveType, TalkTypes
  <1> QED
    BY <1>1, <1>2 DEF ReadyToSend

LEMMA LeavingIsResumable ==
  ASSUME TypeOK, NEW r \in Runs, Leave(r)
  PROVE  Resumption(r)'
  BY FreshFields DEF TypeOK, Leave, Resumption, Dated

LEMMA ResumptionInvariant == Spec => []ResumptionInv
<1>1. Init => ResumptionInv
  BY FreshFields DEF Init, ResumptionInv, Resumption, ResumableCheckpoint
<1>2. TypeOK /\ ResumptionInv /\ [Next]_vars => ResumptionInv'
  <2> SUFFICES ASSUME TypeOK, ResumptionInv, [Next]_vars PROVE ResumptionInv'
    OBVIOUS
  <2>0. \A r \in Runs : /\ ck[r] \in Checkpoint /\ turn[r] \in Turn
                      /\ turn[r].talk \in Conversation
                      /\ turn[r].calls \in SUBSET Call
    BY TalkTypes DEF TypeOK
  <2> USE DEF memoryVars, loopVars
  <2>1. ASSUME NEW r \in Runs, Invoke(r) \/ Step(r) \/ TimeOut(r) \/ Crash(r)
        PROVE  ResumptionInv'
    <3>1. SUFFICES (Dated(stored) /\ ResumableCheckpoint)' /\ Resumption(r)'
      <4>1. ASSUME NEW q \in Runs \ {r} PROVE Resumption(q)'
        <5>1. /\ pc'[q] = pc[q] /\ ck'[q] = ck[q] /\ turn'[q] = turn[q]
              /\ todo'[q] = todo[q] /\ current'[q] = current[q]
          BY <2>1, OthersUntouched
        <5>2. Resumption(q)
          BY DEF ResumptionInv
        <5> QED
          BY <5>1, <5>2
          DEF Resumption, Dated, TurnAccounts, Accounts, ReadyToSend
      <4> QED
        BY <4>1 DEF ResumptionInv
    <3>2. Resumption(r) /\ Dated(stored) /\ ResumableCheckpoint
      BY DEF ResumptionInv
    <3>3. stored' = stored => (Dated(stored) /\ ResumableCheckpoint)'
      BY <3>2 DEF Dated, ResumableCheckpoint, Accounts
    <3>4. CASE Invoke(r)
      <4>1. CASE stored.status \in Over
        <5>1. ck'[r] = FreshCheckpoint /\ pc'[r] = "open"
          BY <3>4, <4>1 DEF Invoke, TypeOK
        <5> QED
          BY <3>4, <3>3, <5>1, FreshFields DEF Invoke, Resumption, Dated
      <4>2. CASE stored.status \notin Over
        <5>1. Accounts(stored)
          BY <3>2, <4>2 DEF TypeOK, Checkpoint, Status, Over, ResumableCheckpoint
        <5>2. /\ ck'[r] = stored /\ pc'[r] = EntryPoint(stored)
              /\ turn'[r] = [calls |-> stored.pending, talk |-> stored.talk]
          BY <3>4, <4>2 DEF Invoke, TypeOK
        <5>3. TurnAccounts(stored, turn'[r])
          <6>1. \A x \in stored.pending : x[2] <= stored.step + 1
            BY <3>2, Steps DEF TypeOK, Dated
          <6> QED
            BY <5>1, <5>2, <6>1 DEF TurnAccounts, Accounts
        <5>4. /\ pc'[r] \in {"turn", "start", "resume"}
              /\ pc'[r] = "resume" => stored.pending = {}
          BY <5>2 DEF EntryPoint
        <5>5. pc'[r] = "resume" => ReadyToSend(stored)
          BY <5>1, <5>4 DEF Accounts, ReadyToSend
        <5>6. Dated(stored) /\ stored.unsent \subseteq stored.results
          BY <3>2, <5>1 DEF Accounts
        <5>7. Resumption(r)'
          BY <5>2, <5>3, <5>4, <5>5, <5>6
          DEF Resumption, Dated, TurnAccounts, ReadyToSend
        <5> QED
          BY <3>4, <3>3, <5>7 DEF Invoke
      <4> QED
        BY <4>1, <4>2
    <3>5. CASE SaveFresh(r)
      <4>1. /\ stored' = FreshCheckpoint /\ ck'[r] = FreshCheckpoint
            /\ pc'[r] = "start"
        BY <3>5, <3>2 DEF SaveFresh, Resumption, TypeOK
      <4> QED
        BY <4>1, FreshFields DEF Resumption, Dated, ResumableCheckpoint, Accounts
    <3>6. CASE Start(r)
      <4>1. /\ ck'[r] = ck[r] /\ pc'[r] = "turn" /\ stored' = stored
            /\ turn'[r] \in Turn
        BY <3>6, TalkTypes, ReceiveType DEF Start, TypeOK
      <4>2. /\ turn'[r].talk.called = NoConversation.called \cup turn'[r].calls
            /\ \A x \in turn'[r].calls : x[2] = ck[r].step + 1
        BY <3>6, TalkTypes, ReceiveType DEF Start
      <4>3. turn'[r].talk.called \ turn'[r].talk.answered \subseteq turn'[r].calls
        BY <4>2 DEF NoConversation
      <4>4. TurnAccounts(ck[r], turn'[r])
        BY <4>1, <4>2, <4>3, <3>2, <2>0, FreshTurnAccounts DEF Resumption
      <4> QED
        BY <4>1, <4>4, <3>2, <3>3 DEF Resumption, Dated, TurnAccounts
    <3>7. CASE ResumeWithResults(r)
      <4>1. /\ ck'[r] = ck[r] /\ pc'[r] = "turn" /\ stored' = stored
            /\ turn'[r] \in Turn
        BY <3>7, TalkTypes, ReceiveType DEF ResumeWithResults, TypeOK
      <4>2. \A x \in turn'[r].calls : x[2] = ck[r].step + 1
        BY <3>7, TalkTypes, ReceiveType DEF ResumeWithResults
      <4>3. turn'[r].talk.called \ turn'[r].talk.answered \subseteq turn'[r].calls
        BY <3>7, <3>2, SendingAnswersAll DEF ResumeWithResults, Resumption
      <4>4. TurnAccounts(ck[r], turn'[r])
        BY <4>1, <4>2, <4>3, <3>2, <2>0, FreshTurnAccounts DEF Resumption
      <4> QED
        BY <4>1, <4>4, <3>2, <3>3 DEF Resumption, Dated, TurnAccounts
    <3>8. CASE ContinueWithResults(r)
      <4>1. /\ ck'[r] = Delivered(ck[r]) /\ pc'[r] = "turn" /\ stored' = stored
            /\ turn'[r] \in Turn
        BY <3>8, TalkTypes, ReceiveType DEF ContinueWithResults, TypeOK
      <4>2. \A x \in turn'[r].calls : x[2] = ck[r].step + 1
        BY <3>8, TalkTypes, ReceiveType DEF ContinueWithResults
      <4>3. turn'[r].talk.called \ turn'[r].talk.answered \subseteq turn'[r].calls
        BY <3>8, <3>2, SendingAnswersAll DEF ContinueWithResults, Resumption
      <4>4. /\ Delivered(ck[r]) \in Checkpoint /\ Dated(Delivered(ck[r]))
            /\ Delivered(ck[r]).unsent = {}
            /\ Delivered(ck[r]).step = ck[r].step
        BY <3>2, <2>0, DeliveredType, DeliveredFields DEF Resumption, Dated
      <4>5. TurnAccounts(Delivered(ck[r]), turn'[r])
        BY <4>1, <4>2, <4>3, <4>4, FreshTurnAccounts
      <4> QED
        BY <4>1, <4>4, <4>5, <3>3 DEF Resumption, Dated, TurnAccounts
    <3>9. ASSUME NEW c \in Checkpoint, Dated(c), FailWith(r, c)
          PROVE  (Dated(stored) /\ ResumableCheckpoint)' /\ Resumption(r)'
      <4>1. stored' = Marked(c, "failed")
        BY <3>9 DEF FailWith
      <4>2. /\ Marked(c, "failed").status = "failed"
            /\ Dated(Marked(c, "failed"))
        BY <3>9, MarkedFields DEF Dated
      <4> QED
        BY <3>9, <4>1, <4>2, LeavingIsResumable
        DEF FailWith, ResumableCheckpoint, Dated
    <3>10. CASE TimeOut(r) \/ ExceedSteps(r) \/ ExceedBudget(r)
      BY <3>10, <3>2, <3>9, <2>0 DEF TimeOut, ExceedSteps, ExceedBudget, Resumption
    <3> DEFINE a == Advanced(ck[r], turn[r].talk)
    <3>11. ASSUME ~ StepsExhausted(ck[r])
           PROVE  /\ a \in Checkpoint /\ Dated(a)
                  /\ a.talk = turn[r].talk /\ a.unsent = ck[r].unsent
                  /\ a.results = ck[r].results /\ a.step = ck[r].step + 1
      <4>1. /\ a.results = ck[r].results /\ a.pending = ck[r].pending
            /\ a.talk = turn[r].talk /\ a.unsent = ck[r].unsent
            /\ a.step = ck[r].step + 1
        BY <2>0, AdvancedFields
      <4>2. a \in Checkpoint
        BY <3>11, <2>0, AdvancedType
      <4> HIDE DEF a
      <4>3. Dated(a)
        BY <4>1, <3>2, <2>0, Steps DEF Resumption, Dated
      <4> QED
        BY <4>1, <4>2, <4>3
    <3>12. CASE RejectAnswer(r)
      BY <3>12, <3>11, <3>9 DEF RejectAnswer, Answering
    <3>13. CASE AcceptAnswer(r)
      <4>1. /\ ck'[r] = Marked(a, "completed") /\ stored' = Marked(a, "completed")
            /\ pc'[r] = "remember"
        BY <3>13 DEF AcceptAnswer, TypeOK
      <4>2. /\ a \in Checkpoint /\ Dated(a) /\ a.unsent \subseteq a.results
        BY <3>13, <3>11, <3>2 DEF AcceptAnswer, Answering, Resumption
      <4> HIDE DEF a
      <4>3. /\ Dated(Marked(a, "completed"))
            /\ Marked(a, "completed").status = "completed"
            /\ Marked(a, "completed").unsent \subseteq Marked(a, "completed").results
        BY <4>2, MarkedFields DEF Dated
      <4> QED
        BY <4>1, <4>3 DEF Resumption, ResumableCheckpoint, Dated
    <3>14. CASE EnterTools(r)
      <4> DEFINE w == Waiting(a, turn[r].calls)
      <4>1. /\ ck'[r] = w /\ stored' = w /\ pc'[r] = "tools"
            /\ todo'[r] = turn[r].calls \ ck[r].results
        BY <3>14 DEF EnterTools, TypeOK
      <4>2. /\ TurnAccounts(ck[r], turn[r]) /\ ck[r].unsent \subseteq ck[r].results
        BY <3>14, <3>2 DEF EnterTools, Resumption
      <4>3. /\ a \in Checkpoint /\ Dated(a)
            /\ a.talk = turn[r].talk /\ a.unsent = ck[r].unsent
            /\ a.results = ck[r].results /\ a.step = ck[r].step + 1
        BY <3>14, <3>11 DEF EnterTools
      <4> HIDE DEF a
      <4>4. /\ w.talk = turn[r].talk /\ w.pending = turn[r].calls
            /\ w.unsent = ck[r].unsent /\ w.results = ck[r].results
            /\ w.step = ck[r].step + 1
        BY <4>3, WaitingFields
      <4> HIDE DEF w
      <4>5. Accounts(w)
        BY <4>2, <4>4 DEF Accounts, TurnAccounts
      <4>6. Dated(w)
        BY <4>2, <4>3, <4>4 DEF Dated, TurnAccounts
      <4>7. todo'[r] = w.pending
        BY <4>1, <4>2, <4>4 DEF TurnAccounts
      <4>8. Resumption(r)'
        BY <4>1, <4>2, <4>4, <4>5, <4>6, <4>7 DEF Resumption, Dated, Accounts
      <4> QED
        BY <4>1, <4>5, <4>6, <4>8 DEF ResumableCheckpoint, Dated, Accounts
    <3>15. CASE ExecuteTool(r)
      <4>1. /\ ck'[r] = ck[r] /\ stored' = stored /\ pc'[r] = "executing"
            /\ todo'[r] = todo[r] /\ pc[r] = "tools"
        BY <3>15 DEF ExecuteTool, TypeOK
      <4>2. current'[r] \subseteq todo[r]
        BY <3>15 DEF ExecuteTool, TypeOK
      <4> QED
        BY <4>1, <4>2, <3>2, <3>3 DEF Resumption, Dated, Accounts
    <3>16. CASE SaveResult(r)
      <4>1. PICK ok \in BOOLEAN :
              /\ ck' = [ck EXCEPT ![r] = WithResult(@, current[r], ok)]
              /\ todo' = [todo EXCEPT ![r] = RestOfLoop(r, ok)]
        BY <3>16 DEF SaveResult
      <4> DEFINE w == WithResult(ck[r], current[r], ok)
      <4>2. /\ ck'[r] = w /\ stored' = w /\ pc'[r] = "tools"
            /\ todo'[r] = todo[r] \ current[r]
        BY <3>16, <4>1 DEF SaveResult, RestOfLoop, TypeOK
      <4>3. /\ Accounts(ck[r]) /\ todo[r] = ck[r].pending
            /\ current[r] \subseteq todo[r] /\ Dated(ck[r])
        BY <3>16, <3>2 DEF SaveResult, Resumption
      <4>4. /\ w.talk = ck[r].talk /\ w.pending = ck[r].pending \ current[r]
            /\ w.unsent = ck[r].unsent \cup current[r]
            /\ w.results = ck[r].results \cup current[r]
            /\ w.step = ck[r].step
        BY <2>0, WithResultFields
      <4> HIDE DEF w
      <4>5. Accounts(w)
        BY <4>3, <4>4 DEF Accounts
      <4>6. Dated(w)
        BY <4>3, <4>4 DEF Dated
      <4>7. Resumption(r)'
        BY <4>2, <4>3, <4>4, <4>5, <4>6 DEF Resumption, Dated, Accounts
      <4> QED
        BY <4>2, <4>5, <4>6, <4>7 DEF ResumableCheckpoint, Dated, Accounts
    <3>17. CASE LeaveTools(r)
      <4> DEFINE w == Marked(ck[r], "running")
      <4>1. ck'[r] = w /\ stored' = w /\ pc'[r] = "continue"
        BY <3>17 DEF LeaveTools, TypeOK
      <4>2. Accounts(ck[r]) /\ ck[r].pending = {} /\ Dated(ck[r])
        BY <3>17, <3>2 DEF LeaveTools, Resumption
      <4>3. /\ w.talk = ck[r].talk /\ w.pending = ck[r].pending
            /\ w.unsent = ck[r].unsent /\ w.results = ck[r].results
            /\ w.step = ck[r].step
        BY <2>0, MarkedFields
      <4> HIDE DEF w
      <4>4. Accounts(w) /\ ReadyToSend(w) /\ Dated(w)
        BY <4>2, <4>3 DEF Accounts, ReadyToSend, Dated
      <4> QED
        BY <4>1, <4>4 DEF Resumption, ResumableCheckpoint, Dated, Accounts, ReadyToSend
    <3>18. CASE SaveInteraction(r) \/ LoadSession(r)
      <4>1. ck'[r] = ck[r] /\ stored' = stored /\ pc'[r] \in {"recall", "record"}
        BY <3>18 DEF SaveInteraction, LoadSession, TypeOK
      <4> QED
        BY <4>1, <3>2, <3>3 DEF Resumption, Dated
    <3>19. CASE SaveSession(r) \/ Crash(r)
      BY <3>19, <3>3, LeavingIsResumable DEF SaveSession, Crash
    <3> HIDE DEF a
    <3> QED
      BY <2>1, <3>4, <3>5, <3>6, <3>7, <3>8, <3>10, <3>12, <3>13, <3>14, <3>15,
         <3>16, <3>17, <3>18, <3>19 DEF Step
  <2>2. CASE Expire
    <3>1. stored' = stored \/ stored' = NoCheckpoint
      BY <2>2 DEF Expire
    <3>2. (Dated(stored) /\ ResumableCheckpoint)'
      BY <3>1, FreshFields DEF ResumptionInv, Dated, ResumableCheckpoint, Accounts
    <3> QED
      BY <2>2, <3>2
      DEF Expire, ResumptionInv, Resumption, Dated, TurnAccounts, Accounts, ReadyToSend
  <2>3. CASE UNCHANGED vars
    BY <2>3 DEF vars, ResumptionInv, ResumableCheckpoint, Resumption, Dated,
                TurnAccounts, Accounts, ReadyToSend
  <2> QED
    BY <2>1, <2>2, <2>3 DEF Next
<1> QED
  BY <1>1, <1>2, TypeCorrect, PTL DEF Spec

(* Whatever crashes, times out or overlaps, a conversation can be resumed    *)
(* from its last save (AgentRuntime._drive).                                 *)
THEOREM ConversationsAreResumable == Spec => []ResumableCheckpoint
<1>1. ResumptionInv => ResumableCheckpoint
  BY DEF ResumptionInv
<1> QED
  BY <1>1, ResumptionInvariant, PTL

(* ... and whenever results are sent to the model, every call of its last      *)
(* response is answered (AgentRuntime._resume_turn, _drive).                 *)
THEOREM CallsAreAnswered == Spec => []NoCallLeftUnanswered
<1>1. ResumptionInv => NoCallLeftUnanswered
  BY DEF ResumptionInv, Resumption, ReadyToSend, NoCallLeftUnanswered
<1> QED
  BY <1>1, ResumptionInvariant, PTL

-----------------------------------------------------------------------------
(* Memory. *)

(* The steps that come before an answer, and those that end a run, leave     *)
(* every run with nothing more to remember than it had.                      *)
LEMMA NothingToRemember ==
  ASSUME TypeOK, MemoryInv, NEW r \in Runs,
         UNCHANGED <<session, interactions, answers>>,
         \/ Leave(r)
         \/ /\ UNCHANGED <<exchange, recalled>>
            /\ \E next \in PC \ {"remember", "recall", "record"} :
                 pc' = [pc EXCEPT ![r] = next]
  PROVE  MemoryInv'
  BY DEF TypeOK, MemoryInv, SessionFollowsInteractions, Remembering, Leave

(* However runs overlap, crash or expire, the session state remembers only   *)
(* exchanges that are in the interactions table, and the table only          *)
(* exchanges that were answered (AgentRuntime._persist_memory).              *)
THEOREM SessionsFollow == Spec => []SessionFollowsInteractions
<1>1. Init => MemoryInv
  BY DEF Init, MemoryInv, SessionFollowsInteractions, Remembering
<1>2. TypeOK /\ MemoryInv /\ [Next]_vars => MemoryInv'
  <2> SUFFICES ASSUME TypeOK, MemoryInv, [Next]_vars PROVE MemoryInv'
    OBVIOUS
  <2> USE DEF memoryVars, loopVars
  <2>1. ASSUME NEW r \in Runs, Invoke(r) \/ SaveFresh(r) PROVE MemoryInv'
    <3>1. \E next \in {"open", "turn", "start", "resume"} :
            pc' = [pc EXCEPT ![r] = next]
      BY <2>1 DEF Invoke, SaveFresh, EntryPoint
    <3> QED
      BY <2>1, <3>1, NothingToRemember DEF Invoke, SaveFresh, PC
  <2>2. ASSUME NEW r \in Runs,
               Start(r) \/ ResumeWithResults(r) \/ ContinueWithResults(r)
        PROVE  MemoryInv'
    BY <2>2, NothingToRemember
    DEF Start, ResumeWithResults, ContinueWithResults, PC
  <2>3. ASSUME NEW r \in Runs,
               EnterTools(r) \/ ExecuteTool(r) \/ SaveResult(r) \/ LeaveTools(r)
        PROVE  MemoryInv'
    BY <2>3, NothingToRemember
    DEF EnterTools, ExecuteTool, SaveResult, LeaveTools, PC
  <2>4. ASSUME NEW r \in Runs,
               \/ TimeOut(r) \/ ExceedSteps(r) \/ RejectAnswer(r)
               \/ ExceedBudget(r) \/ Crash(r)
        PROVE  MemoryInv'
    BY <2>4, NothingToRemember
    DEF TimeOut, ExceedSteps, RejectAnswer, ExceedBudget, Crash, FailWith
  <2>5. ASSUME NEW r \in Runs, AcceptAnswer(r) PROVE MemoryInv'
    <3>1. answers + 1 \in 1 .. (answers + 1) /\ 1 .. answers \subseteq 1 .. (answers + 1)
      BY DEF TypeOK
    <3> QED
      BY <2>5, <3>1
      DEF TypeOK, AcceptAnswer, MemoryInv, SessionFollowsInteractions, Remembering
  <2>6. ASSUME NEW r \in Runs, SaveInteraction(r) PROVE MemoryInv'
    BY <2>6
    DEF TypeOK, SaveInteraction, MemoryInv, SessionFollowsInteractions, Remembering
  <2>7. ASSUME NEW r \in Runs, LoadSession(r) PROVE MemoryInv'
    BY <2>7
    DEF TypeOK, LoadSession, MemoryInv, SessionFollowsInteractions, Remembering
  <2>8. ASSUME NEW r \in Runs, SaveSession(r) PROVE MemoryInv'
    <3>1. session' \subseteq interactions
      BY <2>8 DEF SaveSession, MemoryInv, Remembering
    <3> QED
      BY <2>8, <3>1
      DEF TypeOK, SaveSession, Leave, MemoryInv, SessionFollowsInteractions, Remembering
  <2>9. CASE Expire
    BY <2>9 DEF Expire, MemoryInv, SessionFollowsInteractions, Remembering
  <2>10. CASE UNCHANGED vars
    BY <2>10 DEF vars, MemoryInv, SessionFollowsInteractions, Remembering
  <2> QED
    BY <2>1, <2>2, <2>3, <2>4, <2>5, <2>6, <2>7, <2>8, <2>9, <2>10 DEF Next, Step
<1>3. MemoryInv => SessionFollowsInteractions
  BY DEF MemoryInv
<1> QED
  BY <1>1, <1>2, <1>3, TypeCorrect, PTL DEF Spec

-----------------------------------------------------------------------------
(* Runs that do not overlap implement AgentConversation. *)

OneRunAtATime == \A q, r \in Runs : q = r

LEMMA StatusFields ==
  ASSUME NEW c \in Checkpoint
  PROVE  /\ Delivered(c).status = c.status
         /\ \A talk : Advanced(c, talk).status = c.status
         /\ \A calls : Waiting(c, calls).status = "waiting_for_tools"
         /\ \A calls, ok : WithResult(c, calls, ok).status = c.status
  BY DEF Checkpoint, Delivered, Advanced, Waiting, WithResult

(* The stored conversation as AgentConversation sees it, and its steps as    *)
(* they show in a save.                                                      *)
Open(c) == c.status \in {"running", "waiting_for_tools"}
Seen == <<IF stored.status \in {"running", "waiting_for_tools"}
            THEN "open" ELSE stored.status, stored.results>>

LEMMA AbstractStutter ==
  ASSUME stored'.results = stored.results,
         stored'.status = stored.status \/ (Open(stored) /\ Open(stored'))
  PROVE  UNCHANGED Seen
  BY DEF Open, Seen

LEMMA AbstractBegin ==
  ASSUME stored.status \in Over, Open(stored'), stored'.results = {}
  PROVE  Conversations!Begin
  BY DEF Open, Over, Conversations!Begin

LEMMA AbstractEnd ==
  ASSUME Open(stored), stored'.status \in {"completed", "failed"},
         stored'.results = stored.results
  PROVE  Conversations!End
  BY DEF Open, Conversations!End

(* The instance has its own copy of the library's operator. *)
LEMMA SameCardinality ==
  ASSUME NEW S
  PROVE  Conversations!Cardinality(S) = Cardinality(S)
  BY DEF Cardinality, Conversations!Cardinality

LEMMA AbstractLearn ==
  ASSUME Open(stored), Open(stored'), Cardinality(stored.results) < MaxToolCalls,
         NEW x \in Call \ stored.results, stored'.results = stored.results \cup {x}
  PROVE  Conversations!Learn
  BY SameCardinality DEF Open, Conversations!Learn

LEMMA AbstractExpire ==
  ASSUME stored.status # "absent", stored' = NoCheckpoint
  PROVE  Conversations!Expire
  BY DEF NoCheckpoint, Conversations!Expire

(* A step of the one run that is at work. *)
LEMMA MirroredStep ==
  ASSUME TypeOK, BudgetInv, ResumptionInv, MirrorInv, NEW r \in Runs,
         Invoke(r) \/ Step(r) \/ TimeOut(r) \/ Crash(r)
  PROVE  Mirrored(r)' /\ (Conversations!Next \/ UNCHANGED Seen)
<1>0. /\ ck[r] \in Checkpoint /\ stored \in Checkpoint
      /\ turn[r].talk \in Conversation /\ turn[r].calls \in SUBSET Call
  BY TalkTypes DEF TypeOK
<1>1. /\ Mirrored(r) /\ Resumption(r)
      /\ pc[r] = "executing" => ~ BudgetSpent(ck[r]) /\ \E c \in Call : current[r] = {c}
      /\ Affordable(ck[r])
  BY DEF MirrorInv, ResumptionInv, BudgetInv
<1>2. Leave(r) => Mirrored(r)'
  BY DEF Leave, TypeOK, Mirrored
<1>3. stored' = stored => UNCHANGED Seen
  BY DEF Seen
<1> USE DEF memoryVars, loopVars
<1> DEFINE AtWork == {"start", "resume", "turn", "tools", "executing", "continue"}
<1>4. pc[r] \in AtWork => /\ Open(stored) /\ Open(ck[r])
                          /\ stored.results = ck[r].results
  BY <1>1 DEF Mirrored, Open
(* A save of the run's checkpoint that adds nothing to its results. *)
<1>5. ASSUME pc[r] \in AtWork, NEW c \in Checkpoint, c.results = ck[r].results,
             FailWith(r, c)
      PROVE  Mirrored(r)' /\ Conversations!Next
  <2>1. stored'.status = "failed" /\ stored'.results = ck[r].results
    BY <1>5, MarkedFields DEF FailWith
  <2> QED
    BY <1>2, <1>4, <1>5, <2>1, AbstractEnd DEF FailWith, Conversations!Next
<1>6. ASSUME pc[r] \in AtWork, stored' = ck'[r], Open(ck'[r]),
             ck'[r].results = ck[r].results, pc'[r] \in AtWork
      PROVE  Mirrored(r)' /\ UNCHANGED Seen
  BY <1>4, <1>6, AbstractStutter DEF Mirrored, Open
<1>7. ASSUME pc[r] \in AtWork, stored' = stored, Open(ck'[r]),
             ck'[r].results = ck[r].results, pc'[r] \in AtWork
      PROVE  Mirrored(r)' /\ UNCHANGED Seen
  BY <1>3, <1>4, <1>7 DEF Mirrored, Open
<1>8. CASE Invoke(r)
  <2>1. CASE stored.status \in Over
    BY <1>3, <1>8, <2>1 DEF Invoke, TypeOK, Mirrored
  <2>2. CASE stored.status \notin Over
    <3>1. ck'[r] = stored /\ pc'[r] \in {"turn", "start", "resume"} /\ stored' = stored
      BY <1>8, <2>2 DEF Invoke, TypeOK, EntryPoint
    <3>2. Open(stored)
      BY <1>0, <2>2 DEF Open, Over, Checkpoint, Status
    <3> QED
      BY <1>3, <3>1, <3>2 DEF Mirrored, Open
  <2> QED
    BY <2>1, <2>2
<1>9. CASE SaveFresh(r)
  <2>1. /\ stored' = FreshCheckpoint /\ ck'[r] = FreshCheckpoint /\ pc'[r] = "start"
        /\ stored.status \in Over
    BY <1>1, <1>9 DEF SaveFresh, TypeOK, Resumption, Mirrored
  <2>2. Open(FreshCheckpoint) /\ FreshCheckpoint.results = {}
    BY DEF Open, FreshCheckpoint, NoCheckpoint
  <2>3. Conversations!Begin
    BY <2>1, <2>2, AbstractBegin
  <2> QED
    BY <2>1, <2>2, <2>3 DEF Mirrored, Open, Conversations!Next
<1>10. CASE Start(r) \/ ResumeWithResults(r) \/ ExecuteTool(r)
  BY <1>4, <1>7, <1>10 DEF Start, ResumeWithResults, ExecuteTool, TypeOK
<1>11. CASE ContinueWithResults(r)
  <2>1. /\ ck'[r] = Delivered(ck[r]) /\ pc[r] = "continue" /\ pc'[r] = "turn"
        /\ stored' = stored
    BY <1>11 DEF ContinueWithResults, TypeOK
  <2> QED
    BY <1>0, <1>4, <1>7, <2>1, DeliveredFields, StatusFields DEF Open
<1>12. CASE TimeOut(r) \/ ExceedSteps(r) \/ ExceedBudget(r)
  BY <1>0, <1>5, <1>12 DEF TimeOut, ExceedSteps, ExceedBudget
<1> DEFINE a == Advanced(ck[r], turn[r].talk)
<1>13. ~ StepsExhausted(ck[r]) =>
         a \in Checkpoint /\ a.results = ck[r].results /\ a.status = ck[r].status
  BY <1>0, AdvancedType, AdvancedFields, StatusFields
<1>14. CASE RejectAnswer(r)
  BY <1>5, <1>13, <1>14 DEF RejectAnswer, Answering
<1>15. CASE AcceptAnswer(r)
  <2>1. /\ stored' = Marked(a, "completed") /\ pc'[r] = "remember" /\ pc[r] = "turn"
        /\ ~ StepsExhausted(ck[r])
    BY <1>15 DEF AcceptAnswer, Answering, TypeOK
  <2> HIDE DEF a
  <2>2. stored'.status = "completed" /\ stored'.results = ck[r].results
    BY <1>13, <2>1, MarkedFields
  <2> QED
    BY <1>4, <2>1, <2>2, AbstractEnd DEF Mirrored, Conversations!Next
<1>16. CASE EnterTools(r)
  <2>1. /\ ck'[r] = Waiting(a, turn[r].calls) /\ stored' = ck'[r]
        /\ pc'[r] = "tools" /\ pc[r] = "turn" /\ ~ StepsExhausted(ck[r])
    BY <1>16 DEF EnterTools, TypeOK
  <2> HIDE DEF a
  <2>2. ck'[r].results = ck[r].results /\ Open(ck'[r])
    BY <1>13, <2>1, WaitingFields, StatusFields DEF Open
  <2> QED
    BY <1>6, <2>1, <2>2
<1>17. CASE LeaveTools(r)
  <2>1. /\ ck'[r] = Marked(ck[r], "running") /\ stored' = ck'[r]
        /\ pc'[r] = "continue" /\ pc[r] = "tools"
    BY <1>17 DEF LeaveTools, TypeOK
  <2>2. ck'[r].results = ck[r].results /\ Open(ck'[r])
    BY <1>0, <2>1, MarkedFields DEF Open
  <2> QED
    BY <1>6, <2>1, <2>2
<1>18. CASE SaveResult(r)
  <2>1. PICK ok \in BOOLEAN : ck' = [ck EXCEPT ![r] = WithResult(@, current[r], ok)]
    BY <1>18 DEF SaveResult
  <2>2. PICK x \in Call : current[r] = {x}
    BY <1>1, <1>18 DEF SaveResult
  <2>3. /\ ck'[r] = WithResult(ck[r], current[r], ok) /\ stored' = ck'[r]
        /\ pc[r] = "executing" /\ pc'[r] = "tools"
    BY <1>18, <2>1 DEF SaveResult, TypeOK
  <2>4. ck'[r].results = ck[r].results \cup {x} /\ Open(ck'[r])
    BY <1>0, <1>4, <2>2, <2>3, WithResultFields, StatusFields DEF Open
  <2>5. x \notin ck[r].results
    BY <1>1, <2>2, <2>3 DEF Resumption, Accounts
  <2>6. Cardinality(ck[r].results) < MaxToolCalls
    <3>1. Cardinality(ck[r].results) \in Nat
      BY <1>1, FS_CardinalityType DEF Affordable
    <3>2. ~ Cardinality(ck[r].results) >= MaxToolCalls
      BY <1>1, <2>3 DEF BudgetSpent
    <3> QED
      BY <3>1, <3>2, MaxToolCallsAssumption
  <2>7. Conversations!Learn
    BY <1>4, <2>3, <2>4, <2>5, <2>6, AbstractLearn
  <2> QED
    BY <2>3, <2>4, <2>7 DEF Mirrored, Open, Conversations!Next
<1>19. CASE SaveInteraction(r) \/ LoadSession(r)
  BY <1>3, <1>19 DEF SaveInteraction, LoadSession, Mirrored, TypeOK
<1>20. CASE SaveSession(r) \/ Crash(r)
  BY <1>2, <1>3, <1>20 DEF SaveSession, Crash
<1> HIDE DEF AtWork
<1> QED
  BY <1>8, <1>9, <1>10, <1>11, <1>12, <1>14, <1>15, <1>16, <1>17, <1>18, <1>19, <1>20
  DEF Step

LEMMA MirrorNext ==
  ASSUME OneRunAtATime, TypeOK, BudgetInv, ResumptionInv, MirrorInv, TypeOK', [Next]_vars
  PROVE  MirrorInv' /\ [Conversations!Next]_Seen
<1> SUFFICES MirrorInv' /\ (Conversations!Next \/ UNCHANGED Seen)
  OBVIOUS
<1>1. ASSUME NEW r \in Runs, Invoke(r) \/ Step(r) \/ TimeOut(r) \/ Crash(r)
      PROVE  MirrorInv' /\ (Conversations!Next \/ UNCHANGED Seen)
  <2>1. Mirrored(r)' /\ (Conversations!Next \/ UNCHANGED Seen)
    BY <1>1, MirroredStep
  <2>2. \A q \in Runs : q = r
    BY OneRunAtATime DEF OneRunAtATime
  <2>3. (stored.status = "absent" => stored.results = {})'
    BY <2>1
    DEF MirrorInv, Seen, Conversations!Next, Conversations!Begin,
        Conversations!Learn, Conversations!End, Conversations!Expire
  <2> QED
    BY <2>1, <2>2, <2>3 DEF MirrorInv
<1>2. CASE Expire
  <2>1. MirrorInv'
    BY <1>2 DEF Expire, MirrorInv, Mirrored, NoCheckpoint
  <2>2. CASE stored' = stored
    BY <2>1, <2>2 DEF Seen
  <2>3. CASE stored' = NoCheckpoint /\ stored.status = "absent"
    BY <2>1, <2>3 DEF Seen, MirrorInv, NoCheckpoint
  <2>4. CASE stored' = NoCheckpoint /\ stored.status # "absent"
    BY <2>1, <2>4, AbstractExpire DEF Conversations!Next
  <2> QED
    BY <1>2, <2>1, <2>2, <2>3, <2>4 DEF Expire
<1>3. CASE UNCHANGED vars
  BY <1>3 DEF vars, MirrorInv, Mirrored, Seen
<1> QED
  BY <1>1, <1>2, <1>3 DEF Next

(* While runs of a session do not overlap, whatever crashes, times out,      *)
(* expires or resumes, its stored conversations only begin, learn one new    *)
(* tool result at a time within the budget, end and expire: no saved result  *)
(* is lost or repeated, and what is over is never touched again              *)
(* (AgentRuntime.run, _drive, _resume_turn).                                 *)
THEOREM OneRunImplementsConversation ==
  ASSUME OneRunAtATime
  PROVE  Spec => ImplementsConversation
<1>1. Init => MirrorInv /\ Conversations!Init
  BY DEF Init, MirrorInv, Mirrored, Conversations!Init, NoCheckpoint
<1> QED
  BY <1>1, MirrorNext, TypeCorrect, BudgetInvariant, ResumptionInvariant, PTL
  DEF Spec, ImplementsConversation, Conversations!Spec, Seen

(* SettledCallsNeverRun: while runs of a session do not overlap, a call whose  *)
(* result is checkpointed is not executed again, whatever crashes and resumes *)
(* (AgentRuntime._drive, the calls left out of the loop).                     *)
THEOREM SettledCallsRest ==
  ASSUME OneRunAtATime
  PROVE  Spec => []SettledCallsNeverRun
<1> DEFINE Executing == \A r \in Runs : pc[r] # "executing" => current[r] = {}
<1>1. Init => MirrorInv /\ Executing
  BY DEF Init, MirrorInv, Mirrored, NoCheckpoint
<1>2. TypeOK /\ Executing /\ [Next]_vars => Executing'
  <2> SUFFICES ASSUME TypeOK, Executing, [Next]_vars PROVE Executing'
    OBVIOUS
  <2> USE DEF memoryVars, loopVars
  <2>1. ASSUME NEW r \in Runs, Invoke(r) \/ Step(r) \/ TimeOut(r) \/ Crash(r)
        PROVE  Executing'
    <3>1. \A q \in Runs \ {r} : pc'[q] = pc[q] /\ current'[q] = current[q]
      BY <2>1, OthersUntouched
    <3>2. CASE Leave(r) \/ SaveResult(r)
      BY <3>1, <3>2 DEF Leave, SaveResult, TypeOK
    <3>3. CASE ExecuteTool(r)
      BY <3>1, <3>3 DEF ExecuteTool, TypeOK
    <3>4. CASE current' = current /\ pc[r] # "executing"
      BY <3>1, <3>4
    <3> QED
      BY <2>1, <3>2, <3>3, <3>4
      DEF Invoke, Step, TimeOut, Crash, FailWith, SaveFresh, Start, ResumeWithResults,
          ContinueWithResults, ExceedSteps, Answering, RejectAnswer, AcceptAnswer, EnterTools,
          ExceedBudget, LeaveTools, SaveInteraction, LoadSession, SaveSession
  <2>2. CASE Expire \/ UNCHANGED vars
    BY <2>2 DEF Expire, vars
  <2> QED
    BY <2>1, <2>2 DEF Next
<1>3. MirrorInv /\ ResumptionInv /\ Executing => SettledCallsNeverRun
  <2> SUFFICES ASSUME MirrorInv, ResumptionInv, Executing, NEW r \in Runs
               PROVE  current[r] \cap stored.results = {}
    BY DEF SettledCallsNeverRun
  <2>1. CASE pc[r] = "executing"
    <3>1. stored.results = ck[r].results
      BY <2>1 DEF MirrorInv, Mirrored
    <3>2. current[r] \subseteq ck[r].pending /\ ck[r].pending \cap ck[r].results = {}
      BY <2>1 DEF ResumptionInv, Resumption, Accounts
    <3> QED
      BY <3>1, <3>2
  <2>2. CASE pc[r] # "executing"
    BY <2>2
  <2> QED
    BY <2>1, <2>2
<1> HIDE DEF Executing
<1> QED
  BY <1>1, <1>2, <1>3, MirrorNext, TypeCorrect, BudgetInvariant, ResumptionInvariant, PTL DEF Spec
=============================================================================
