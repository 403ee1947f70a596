------------------------------ MODULE AgentLoop -------------------------------
(***************************************************************************)
(* AgentRuntime.run: one conversation (session_id) of a model with its      *)
(* tools, checkpointed in Redis after every model response and every tool   *)
(* result so that a later run of the same session can pick it up.           *)
(*                                                                         *)
(* The checkpoint and the session state in Redis and the interactions table *)
(* survive the process; the checkpoint object a run works on does not.  A   *)
(* run is one call of AgentRuntime.run; runs of a session may overlap (two  *)
(* processes, or the workers of two delegations of the same unit).          *)
(*                                                                         *)
(* Every Redis command and every database transaction is one action.        *)
(***************************************************************************)
EXTENDS Integers, FiniteSets

CONSTANTS
  Runs,           \* runs of the session that may be in flight at once
  MaxSteps,       \* AgentRuntime max_steps
  MaxToolCalls,   \* AgentRuntime max_tool_calls (large when it is None)
  RequireTool,    \* required_tool_name is set, and names the only tool
  CallsPerTurn,   \* model bound: tool calls in one model response
  MaxInvocations  \* model bound: how often run may be called in all

ASSUME MaxStepsAssumption == MaxSteps \in Nat
ASSUME MaxToolCallsAssumption == MaxToolCalls \in Nat
ASSUME RequireToolAssumption == RequireTool \in BOOLEAN
ASSUME CallsPerTurnAssumption == CallsPerTurn \in Nat
ASSUME MaxInvocationsAssumption == MaxInvocations \in Nat

VARIABLES
  stored,       \* the session's AgentCheckpoint in Redis
  session,      \* exchanges in the session's SessionState in Redis
  interactions, \* exchanges in the interactions table
  pc,           \* where each run is
  ck,           \* its AgentCheckpoint object
  turn,         \* the ModelTurn it is acting on
  todo,         \* calls left in the `for call in ...` loop
  current,      \* the call whose tool is executing
  exchange,     \* the exchange it answered
  recalled,     \* the SessionState it loaded in _persist_memory
  answers,      \* history: exchanges answered so far
  invocations   \* calls of run so far, for the model bound

memoryVars == <<session, interactions, exchange, recalled, answers>>
loopVars == <<ck, turn, todo, current>>
vars == <<stored, session, interactions, pc, ck, turn, todo, current,
          exchange, recalled, answers, invocations>>

-----------------------------------------------------------------------------

(* A call_id: who received it, at which step, and its place in the response. *)
Call == Runs \X (1 .. MaxSteps) \X (1 .. CallsPerTurn)
Position(c) == c[3]

Status == {"absent", "running", "waiting_for_tools", "completed", "failed"}

(* `called` and `answered` are the conversation as the model provider knows *)
(* it (previous_response_id, or the replayed model_history): the calls it    *)
(* made and the outputs it was sent.                                         *)
Conversation == [called : SUBSET Call, answered : SUBSET Call]
NoConversation == [called |-> {}, answered |-> {}]

Checkpoint ==
  [status : Status,
   responded : BOOLEAN,           \* response_id is set
   talk : Conversation,           \* up to response_id
   pending : SUBSET Call,         \* pending_calls
   unsent : SUBSET Call,          \* pending_response_results
   results : SUBSET Call,         \* tool_results
   useful : SUBSET Call,          \* those with is_error false
   step : 0 .. MaxSteps]

NoCheckpoint ==
  [status |-> "absent", responded |-> FALSE, talk |-> NoConversation,
   pending |-> {}, unsent |-> {}, results |-> {}, useful |-> {}, step |-> 0]
FreshCheckpoint == [NoCheckpoint EXCEPT !.status = "running"]

(* A turn with no calls is an answer. *)
Turn == [calls : SUBSET Call, talk : Conversation]
NoTurn == [calls |-> {}, talk |-> NoConversation]

PC == {"idle", "open", "start", "resume", "turn", "tools", "executing",
       "continue", "remember", "recall", "record"}

TypeOK ==
  /\ stored \in Checkpoint
  /\ session \in SUBSET Nat
  /\ interactions \in SUBSET Nat
  /\ pc \in [Runs -> PC]
  /\ ck \in [Runs -> Checkpoint]
  /\ turn \in [Runs -> Turn]
  /\ todo \in [Runs -> SUBSET Call]
  /\ current \in [Runs -> SUBSET Call]
  /\ exchange \in [Runs -> Nat]
  /\ recalled \in [Runs -> SUBSET Nat]
  /\ answers \in Nat
  /\ invocations \in Nat

Init ==
  /\ stored = NoCheckpoint
  /\ session = {}
  /\ interactions = {}
  /\ pc = [r \in Runs |-> "idle"]
  /\ ck = [r \in Runs |-> NoCheckpoint]
  /\ turn = [r \in Runs |-> NoTurn]
  /\ todo = [r \in Runs |-> {}]
  /\ current = [r \in Runs |-> {}]
  /\ exchange = [r \in Runs |-> 0]
  /\ recalled = [r \in Runs |-> {}]
  /\ answers = 0
  /\ invocations = 0

-----------------------------------------------------------------------------
(* The run returns, raises, or dies: its objects are gone. *)
Leave(r) ==
  /\ pc' = [pc EXCEPT ![r] = "idle"]
  /\ ck' = [ck EXCEPT ![r] = NoCheckpoint]
  /\ turn' = [turn EXCEPT ![r] = NoTurn]
  /\ todo' = [todo EXCEPT ![r] = {}]
  /\ current' = [current EXCEPT ![r] = {}]
  /\ exchange' = [exchange EXCEPT ![r] = 0]
  /\ recalled' = [recalled EXCEPT ![r] = {}]

Marked(checkpoint, status) == [checkpoint EXCEPT !.status = status]

(* status FAILED is saved and the run raises. *)
FailWith(r, checkpoint) ==
  /\ stored' = Marked(checkpoint, "failed")
  /\ Leave(r)
  /\ UNCHANGED <<session, interactions, answers, invocations>>

(* Faulty variant: a failed conversation is resumed. *)
OnlyCompletedIsOver == {"absent", "completed"}
Over == {"absent", "completed", "failed"}

(* _resume_turn: which way back into the loop a checkpoint offers. *)
EntryPoint(checkpoint) ==
  IF checkpoint.pending # {} THEN "turn"
  ELSE IF checkpoint.unsent = {} \/ ~ checkpoint.responded THEN "start"
  ELSE "resume"

(* The recovered turn holds the pending calls of the last response. *)
Invoke(r) ==
  /\ pc[r] = "idle"
  /\ invocations < MaxInvocations
  /\ invocations' = invocations + 1
  /\ IF stored.status \in Over
       THEN /\ ck' = [ck EXCEPT ![r] = FreshCheckpoint]
            /\ pc' = [pc EXCEPT ![r] = "open"]
            /\ turn' = turn
       ELSE /\ ck' = [ck EXCEPT ![r] = stored]
            /\ pc' = [pc EXCEPT ![r] = EntryPoint(stored)]
            /\ turn' = [turn EXCEPT ![r] = [calls |-> stored.pending,
                                            talk |-> stored.talk]]
  /\ UNCHANGED <<stored, todo, current, memoryVars>>

SaveFresh(r) ==
  /\ pc[r] = "open"
  /\ stored' = ck[r]
  /\ pc' = [pc EXCEPT ![r] = "start"]
  /\ UNCHANGED <<loopVars, memoryVars, invocations>>

-----------------------------------------------------------------------------
(* Requests to the model. *)

NewCalls(r, n) == {r} \X {ck[r].step + 1} \X (1 .. n)

(* A response to the conversation `talk` carries n calls; none: an answer.   *)
(* A response at the step limit is never acted on, so its calls do not count. *)
Receive(r, talk) ==
  \E n \in 0 .. CallsPerTurn :
    LET calls == IF ck[r].step < MaxSteps THEN NewCalls(r, n) ELSE {}
    IN  turn' = [turn EXCEPT ![r] =
                   [calls |-> calls, talk |-> [talk EXCEPT !.called = @ \cup calls]]]

Start(r) ==
  /\ pc[r] = "start"
  /\ Receive(r, NoConversation)
  /\ pc' = [pc EXCEPT ![r] = "turn"]
  /\ UNCHANGED <<stored, ck, todo, current, memoryVars, invocations>>

WithOutputs(checkpoint) ==
  [checkpoint.talk EXCEPT !.answered = @ \cup checkpoint.unsent]

(* From _resume_turn: the results just delivered stay pending. *)
ResumeWithResults(r) ==
  /\ pc[r] = "resume"
  /\ Receive(r, WithOutputs(ck[r]))
  /\ pc' = [pc EXCEPT ![r] = "turn"]
  /\ UNCHANGED <<stored, ck, todo, current, memoryVars, invocations>>

Delivered(checkpoint) == [checkpoint EXCEPT !.unsent = {}]

(* From the loop: pending_response_results is cleared. *)
ContinueWithResults(r) ==
  /\ pc[r] = "continue"
  /\ Receive(r, WithOutputs(ck[r]))
  /\ ck' = [ck EXCEPT ![r] = Delivered(@)]
  /\ pc' = [pc EXCEPT ![r] = "turn"]
  /\ UNCHANGED <<stored, todo, current, memoryVars, invocations>>

-----------------------------------------------------------------------------
(* _drive: one iteration per model turn. *)

StepsExhausted(checkpoint) == checkpoint.step >= MaxSteps

(* A deadline check, before a turn or between tool calls, raises TimeoutError. *)
TimeOut(r) ==
  /\ pc[r] \in {"turn", "tools"}
  /\ FailWith(r, ck[r])

ExceedSteps(r) ==
  /\ pc[r] = "turn"
  /\ StepsExhausted(ck[r])
  /\ FailWith(r, ck[r])

(* Faulty variant: a turn costs no step. *)
AdvancedForFree(checkpoint, talk) ==
  [checkpoint EXCEPT !.responded = TRUE, !.talk = talk]
(* The checkpoint with the turn's response_id and the step it costs. *)
Advanced(checkpoint, talk) ==
  [checkpoint EXCEPT !.responded = TRUE, !.talk = talk, !.step = @ + 1]

Answering(r) == pc[r] = "turn" /\ ~ StepsExhausted(ck[r]) /\ turn[r].calls = {}

(* The required tool has not answered, or the finalizer or observer raised. *)
RejectAnswer(r) ==
  /\ Answering(r)
  /\ FailWith(r, Advanced(ck[r], turn[r].talk))

AcceptAnswer(r) ==
  /\ Answering(r)
  /\ RequireTool => ck[r].useful # {}
  /\ ck' = [ck EXCEPT ![r] =
             Marked(Advanced(@, turn[r].talk), "completed")]
  /\ stored' = ck'[r]
  /\ answers' = answers + 1
  /\ exchange' = [exchange EXCEPT ![r] = answers + 1]
  /\ pc' = [pc EXCEPT ![r] = "remember"]
  /\ UNCHANGED <<session, interactions, turn, todo, current, recalled, invocations>>

(* Faulty variant: entering the tool loop always drops undelivered results. *)
WaitingAndForgetful(checkpoint, calls) ==
  [checkpoint EXCEPT !.status = "waiting_for_tools", !.pending = calls,
                     !.unsent = {}]
Waiting(checkpoint, calls) ==
  [checkpoint EXCEPT !.status = "waiting_for_tools", !.pending = calls]

EnterTools(r) ==
  /\ pc[r] = "turn"
  /\ ~ StepsExhausted(ck[r])
  /\ turn[r].calls # {}
  /\ ck' = [ck EXCEPT ![r] = Waiting(Advanced(@, turn[r].talk), turn[r].calls)]
  /\ stored' = ck'[r]
  /\ todo' = [todo EXCEPT ![r] = turn[r].calls \ ck[r].results]
  /\ pc' = [pc EXCEPT ![r] = "tools"]
  /\ UNCHANGED <<turn, current, memoryVars, invocations>>

(* Faulty variant: only results not yet sent count against the budget. *)
TurnBudgetSpent(checkpoint) == Cardinality(checkpoint.unsent) >= MaxToolCalls
BudgetSpent(checkpoint) == Cardinality(checkpoint.results) >= MaxToolCalls

ExceedBudget(r) ==
  /\ pc[r] = "tools"
  /\ todo[r] # {}
  /\ BudgetSpent(ck[r])
  /\ FailWith(r, ck[r])

ExecuteTool(r) ==
  /\ pc[r] = "tools"
  /\ ~ BudgetSpent(ck[r])
  /\ \E c \in todo[r] :
       /\ \A d \in todo[r] : Position(c) <= Position(d)
       /\ current' = [current EXCEPT ![r] = {c}]
  /\ pc' = [pc EXCEPT ![r] = "executing"]
  /\ UNCHANGED <<stored, ck, turn, todo, memoryVars, invocations>>

(* The tool's result, or its exception as an error result. *)
WithResult(checkpoint, calls, ok) ==
  [checkpoint EXCEPT !.results = @ \cup calls, !.unsent = @ \cup calls,
                     !.useful = IF ok THEN @ \cup calls ELSE @,
                     !.pending = @ \ calls]

(* Faulty variant: a call whose tool failed is tried again. *)
RetryUntilUseful(r, ok) == IF ok THEN todo[r] \ current[r] ELSE todo[r]
RestOfLoop(r, ok) == todo[r] \ current[r]

SaveResult(r) ==
  /\ pc[r] = "executing"
  /\ \E ok \in BOOLEAN :
       /\ ck' = [ck EXCEPT ![r] = WithResult(@, current[r], ok)]
       /\ todo' = [todo EXCEPT ![r] = RestOfLoop(r, ok)]
  /\ stored' = ck'[r]
  /\ current' = [current EXCEPT ![r] = {}]
  /\ pc' = [pc EXCEPT ![r] = "tools"]
  /\ UNCHANGED <<turn, memoryVars, invocations>>

LeaveTools(r) ==
  /\ pc[r] = "tools"
  /\ todo[r] = {}
  /\ ck' = [ck EXCEPT ![r] = Marked(@, "running")]
  /\ stored' = ck'[r]
  /\ pc' = [pc EXCEPT ![r] = "continue"]
  /\ UNCHANGED <<turn, todo, current, memoryVars, invocations>>

-----------------------------------------------------------------------------
(* _persist_memory, after the completed checkpoint is saved. *)

(* Faulty variant: the session is written first. *)
SessionBeforeInteraction(r) ==
  /\ pc[r] = "remember"
  /\ pc' = [pc EXCEPT ![r] = "recall"]
  /\ UNCHANGED <<stored, session, interactions, loopVars, exchange, recalled,
                 answers, invocations>>

SaveInteraction(r) ==
  /\ pc[r] = "remember"
  /\ interactions' = interactions \cup {exchange[r]}
  /\ pc' = [pc EXCEPT ![r] = "recall"]
  /\ UNCHANGED <<stored, session, loopVars, exchange, recalled, answers, invocations>>

LoadSession(r) ==
  /\ pc[r] = "recall"
  /\ recalled' = [recalled EXCEPT ![r] = session]
  /\ pc' = [pc EXCEPT ![r] = "record"]
  /\ UNCHANGED <<stored, session, interactions, loopVars, exchange, answers,
                 invocations>>

SaveSession(r) ==
  /\ pc[r] = "record"
  /\ session' = recalled[r] \cup {exchange[r]}
  /\ Leave(r)
  /\ UNCHANGED <<stored, interactions, answers, invocations>>

(* The run raises without saving (the provider, Redis, the database), or the *)
(* process dies: in every state, so between any two writes.                  *)
Crash(r) ==
  /\ pc[r] # "idle"
  /\ Leave(r)
  /\ UNCHANGED <<stored, session, interactions, answers, invocations>>

(* The 24-hour TTLs, which every save renews, run out between runs. *)
Expire ==
  /\ \A r \in Runs : pc[r] = "idle"
  /\ \/ stored' = NoCheckpoint /\ session' = session
     \/ session' = {} /\ stored' = stored
  /\ UNCHANGED <<interactions, pc, loopVars, exchange, recalled, answers, invocations>>

Step(r) ==
  \/ SaveFresh(r)
  \/ Start(r)
  \/ ResumeWithResults(r)
  \/ ContinueWithResults(r)
  \/ ExceedSteps(r)
  \/ RejectAnswer(r)
  \/ AcceptAnswer(r)
  \/ EnterTools(r)
  \/ ExceedBudget(r)
  \/ ExecuteTool(r)
  \/ SaveResult(r)
  \/ LeaveTools(r)
  \/ SaveInteraction(r)
  \/ LoadSession(r)
  \/ SaveSession(r)

Next ==
  \/ \E r \in Runs : Invoke(r) \/ Step(r) \/ TimeOut(r) \/ Crash(r)
  \/ Expire

Spec == Init /\ [][Next]_vars

(* A live process keeps executing, and the provider and the tools answer or  *)
(* raise: the HTTP and database clients have timeouts.  Nothing obliges       *)
(* anybody to call run, to hit a deadline or to crash.                        *)
FairSpec == Spec /\ \A r \in Runs : WF_vars(Step(r))

-----------------------------------------------------------------------------
(* Properties that hold however runs of the session overlap.                 *)

(* max_tool_calls bounds the results of a conversation across crashes and    *)
(* resumptions: the results travel with the checkpoint, so no run starts     *)
(* with a fresh budget (AgentRuntime._drive, tool_call_budget).              *)
ToolCallsWithinBudget ==
  /\ Cardinality(stored.results) <= MaxToolCalls
  /\ \A r \in Runs : Cardinality(ck[r].results) <= MaxToolCalls

(* Why it is so: a tool executes for one call, while the budget of the       *)
(* checkpoint its run works on is not spent.                                 *)
Affordable(checkpoint) ==
  /\ IsFiniteSet(checkpoint.results)
  /\ Cardinality(checkpoint.results) <= MaxToolCalls

BudgetInv ==
  /\ Affordable(stored)
  /\ \A r \in Runs :
       /\ Affordable(ck[r])
       /\ pc[r] = "executing" =>
            ~ BudgetSpent(ck[r]) /\ \E c \in Call : current[r] = {c}

(* A checkpoint accounts for every call the model still waits for: it is     *)
(* pending, or its result waits to be sent.                                  *)
Accounts(checkpoint) ==
  /\ checkpoint.talk.called \ checkpoint.talk.answered \subseteq
       checkpoint.pending \cup checkpoint.unsent
  /\ checkpoint.pending \cap checkpoint.results = {}
  /\ checkpoint.unsent \subseteq checkpoint.results

(* A saved checkpoint from which a run may resume accounts for every call    *)
(* the model still waits for, between any two saves of AgentRuntime._drive.  *)
ResumableCheckpoint ==
  stored.status \in {"running", "waiting_for_tools"} => Accounts(stored)

(* Whenever results are sent to the model, resumed or not, every call of its *)
(* last response is answered: a provider rejects a continuation that leaves  *)
(* one out (AgentRuntime._resume_turn and _drive).                           *)
NoCallLeftUnanswered ==
  \A r \in Runs : pc[r] \in {"resume", "continue"} =>
    ck[r].talk.called \ ck[r].talk.answered \subseteq ck[r].unsent

(* Why both hold: calls are dated by the step that brought them, so a new    *)
(* response never repeats the call of a result; and at each point of a run   *)
(* the calls the model waits for are those of the turn, or those pending,    *)
(* or those whose results are about to be sent.                              *)
Dated(checkpoint) ==
  \A c \in checkpoint.results \cup checkpoint.pending : c[2] <= checkpoint.step

TurnAccounts(checkpoint, t) ==
  /\ t.talk.called \ t.talk.answered \subseteq t.calls \cup checkpoint.unsent
  /\ t.calls \cap checkpoint.results = {}
  /\ \A c \in t.calls : c[2] <= checkpoint.step + 1

ReadyToSend(checkpoint) ==
  /\ checkpoint.pending = {}
  /\ checkpoint.talk.called \ checkpoint.talk.answered \subseteq checkpoint.unsent

Resumption(r) ==
  /\ Dated(ck[r])
  /\ ck[r].unsent \subseteq ck[r].results
  /\ pc[r] = "open" => ck[r] = FreshCheckpoint
  /\ pc[r] = "turn" => TurnAccounts(ck[r], turn[r])
  /\ pc[r] \in {"tools", "executing"} => Accounts(ck[r]) /\ todo[r] = ck[r].pending
  /\ pc[r] = "executing" => current[r] \subseteq todo[r]
  /\ pc[r] \in {"resume", "continue"} => ReadyToSend(ck[r])

ResumptionInv ==
  Dated(stored) /\ ResumableCheckpoint /\ \A r \in Runs : Resumption(r)

(* An exchange enters the session state only after its interaction row is    *)
(* written, and each only if it was answered: a crash may lose the memory of *)
(* an answer but never leaves a session that remembers more than the         *)
(* database (AgentRuntime._persist_memory).                                  *)
SessionFollowsInteractions ==
  session \subseteq interactions /\ interactions \subseteq 1 .. answers

(* Why it is so: what a run is about to write was answered, and what it has  *)
(* loaded or already written is in the table.                                *)
Remembering(r) ==
  /\ pc[r] \in {"remember", "recall", "record"} => exchange[r] \in 1 .. answers
  /\ pc[r] \in {"recall", "record"} => exchange[r] \in interactions
  /\ pc[r] = "record" => recalled[r] \subseteq interactions

MemoryInv == SessionFollowsInteractions /\ \A r \in Runs : Remembering(r)

(* Every run ends, by an answer, an error or the step limit                  *)
(* (AgentRuntime._drive, `while True`).                                      *)
EveryRunEnds == \A r \in Runs : pc[r] # "idle" ~> pc[r] = "idle"

-----------------------------------------------------------------------------
(* Properties that hold when runs of the session do not overlap; crashes,    *)
(* expiry and resumption are still allowed.                                  *)

(* A call whose result is checkpointed is never executed again, whatever     *)
(* crashes (tests/unit/agent/test_runtime_and_context.py,                    *)
(* test_agent_resume_does_not_repeat_completed_tool_call).                   *)
SettledCallsNeverRun ==
  \A r \in Runs : current[r] \cap stored.results = {}

(* The stored conversations keep the promise of AgentConversation: results   *)
(* accumulate one by one within the budget, nothing checkpointed is lost,    *)
(* and a completed or failed conversation is never touched again.            *)
Conversations ==
  INSTANCE AgentConversation
    WITH phase <- IF stored.status \in {"running", "waiting_for_tools"}
                    THEN "open" ELSE stored.status,
         results <- stored.results,
         Budget <- MaxToolCalls

ImplementsConversation == Conversations!Spec

(* Why it is so: from its first save to its last, the one run that is at     *)
(* work holds the results that are stored.                                   *)
Mirrored(r) ==
  /\ pc[r] = "open" => stored.status \in Over
  /\ pc[r] \in {"start", "resume", "turn", "tools", "executing", "continue"} =>
       /\ stored.status \in {"running", "waiting_for_tools"}
       /\ ck[r].status \in {"running", "waiting_for_tools"}
       /\ stored.results = ck[r].results

MirrorInv ==
  /\ stored.status = "absent" => stored.results = {}
  /\ \A r \in Runs : Mirrored(r)

(* "Checkpointed, idempotent model/tool loop." (runtime.py:1): the result of *)
(* a call is delivered to the model once in a conversation.                  *)
NoResultSentTwice ==
  \A r \in Runs : pc[r] \in {"resume", "continue"} =>
    ck[r].unsent \cap ck[r].talk.answered = {}
=============================================================================
