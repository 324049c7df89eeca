----------------------------- MODULE TaskMachine -----------------------------
(***************************************************************************)
(* The task state machine of src/task/machine.ts: the statuses a Task      *)
(* object can have, the transitions TaskStateMachine accepts, and what its *)
(* three mutators do to a status.  A mutator that is refused throws; the   *)
(* callers that swallow the exception are modelled with FailOrKeep.        *)
(***************************************************************************)

TaskStatus == {"pending", "planning", "executing", "paused",
               "completed", "failed", "interrupted"}

VALID_TRANSITIONS ==
  [ pending     |-> {"planning", "executing", "failed"},
    planning    |-> {"executing", "failed"},
    executing   |-> {"paused", "completed", "failed", "interrupted"},
    paused      |-> {"executing", "failed", "interrupted"},
    completed   |-> {},
    failed      |-> {},
    interrupted |-> {"executing"} ]

\* Mutant: a transition to the status the task already has is accepted.
CanTransitionOrStay(from, to) ==
  /\ from \in DOMAIN VALID_TRANSITIONS
  /\ to = from \/ to \in VALID_TRANSITIONS[from]

\* canTransition: is to a legal successor of from?
CanTransition(from, to) ==
  from \in DOMAIN VALID_TRANSITIONS /\ to \in VALID_TRANSITIONS[from]

\* Statuses nothing leaves.
Terminal == {"completed", "failed"}

\* What InMemoryTaskStore.getActive and getActiveForSession look for.
ActiveStatus == {"executing", "paused"}

\* try { stateMachine.fail(task) } catch { already terminal }
FailOrKeep(st) == IF CanTransition(st, "failed") THEN "failed" ELSE st
==============================================================================
