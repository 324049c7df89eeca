---------------------------- MODULE TaskLifecycle ----------------------------
(***************************************************************************)
(* What the dual loop promises about the status of its tasks, whatever the *)
(* interleaving of messages, inner loops, cancellations, resumptions and   *)
(* shutdown: a task comes into being pending (or is read from disk when    *)
(* the server starts) and from then on moves only along VALID_TRANSITIONS. *)
(* One step may move several tasks, because cancel() without a task id     *)
(* fails all of them.  DualLoop is shown to implement this specification.  *)
(***************************************************************************)
EXTENDS TaskMachine

CONSTANT Task

VARIABLE status

\* The status of a task id no Task object exists for.
Absent == "absent"

\* The statuses loadPersistedTasks can give a task.
Restorable == {"interrupted", "completed", "failed"}

Init == status \in [Task -> Restorable \cup {Absent}]

LegalStep(from, to) ==
  \/ to = from
  \/ from = Absent /\ to = "pending"
  \/ CanTransition(from, to)

Next ==
  /\ status' \in [Task -> TaskStatus \cup {Absent}]
  /\ \A t \in Task : LegalStep(status[t], status'[t])

Spec == Init /\ [][Next]_status
==============================================================================
