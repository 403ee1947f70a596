-------------------------- MODULE AgentConversation ---------------------------
(***************************************************************************)
(* What the checkpoints of a session promise, seen only through the stored  *)
(* checkpoint: a conversation is begun, learns one tool result at a time    *)
(* within its budget, and ends; what is over is replaced, never resumed.    *)
(***************************************************************************)
EXTENDS Integers, FiniteSets

CONSTANTS
  Call,    \* the calls a model may make
  Budget   \* tool results a conversation may hold

VARIABLES
  phase,   \* of the stored conversation
  results  \* the calls whose results it holds

Phase == {"absent", "open", "completed", "failed"}

Init == phase = "absent" /\ results = {}

(* A new conversation starts with nothing, and only when none is open. *)
Begin ==
  /\ phase # "open"
  /\ phase' = "open"
  /\ results' = {}

(* One more tool result is saved; none is ever dropped or replaced. *)
Learn ==
  /\ phase = "open"
  /\ phase' = "open"
  /\ Cardinality(results) < Budget
  /\ \E c \in Call \ results : results' = results \cup {c}

(* The conversation ends with what it had learned. *)
End ==
  /\ phase = "open"
  /\ phase' \in {"completed", "failed"}
  /\ results' = results

(* The stored checkpoint's time to live runs out. *)
Expire ==
  /\ phase # "absent"
  /\ phase' = "absent"
  /\ results' = {}

Next == Begin \/ Learn \/ End \/ Expire

Spec == Init /\ [][Next]_<<phase, results>>
=============================================================================
