----------------------------- MODULE TaskRoutes ------------------------------
(***************************************************************************)
(* The task routes of the gateway (handleCancelTask, handleResumeTask and  *)
(* handleGetTask in src/server.ts) on the dual loop.                       *)
(*                                                                         *)
(* DualLoop lets cancel and resumeTask be called at any moment; here it is *)
(* HTTP requests that call them.  A cancellation looks the task up, awaits *)
(* the body of the request, and then decides by the status it looked up,   *)
(* which is a copy: loop.getTask makes a new object.  A resumption stands  *)
(* in resumeTask, at readTranscript, until it is replayed or fails.        *)
(***************************************************************************)
EXTENDS DualLoop

CONSTANT Request  \* requests to a task route

VARIABLE request  \* where each request stands

routeVars == <<status, sessionOf, stored, older, pc, iter, ctx, aborted, queue,
               fate, history, prompt, resuming, outcome, timer, request>>

\* body: the cancellation awaits the rest of the request; copy is the status
\* of its task when it looked.  replay: the resumption is in resumeTask.
Unsent == [stage |-> "unsent"]
AwaitsBody(t, copy) == [stage |-> "body", task |-> t, copy |-> copy]
AwaitsReplay(t) == [stage |-> "replay", task |-> t]
Answered(t, answer) == [stage |-> "answered", task |-> t, answer |-> answer]

Answer == {"cancelled", "resumed", "bad request", "not found", "conflict"}

RequestState ==
  {Unsent}
    \cup {AwaitsBody(t, copy) : t \in Task, copy \in TaskStatus}
    \cup {AwaitsReplay(t) : t \in Task}
    \cup {Answered(t, answer) : t \in Task, answer \in Answer}

RouteInit ==
  /\ Init
  /\ request = [r \in Request |-> Unsent]

Becomes(r, to) == request' = [request EXCEPT ![r] = to]

\* task.status of handleCancelTask and of its documentation.
Cancelling == {"executing", "planning", "paused"}

------------------------------------------------------------------------------
(* POST /v1/tasks/:id/cancel                                               *)

\* The look-up, up to readBody.
CancelArrives(r, t) ==
  /\ request[r] = Unsent
  /\ Becomes(r, IF t \in stored THEN AwaitsBody(t, status[t])
                                ELSE Answered(t, "not found"))
  /\ UNCHANGED vars

\* The body is too long, comes too late, or names no reason there is.
CancelMalformed(r) ==
  /\ request[r].stage = "body"
  /\ Becomes(r, Answered(request[r].task, "bad request"))
  /\ UNCHANGED vars

\* The copy was not active when it was made.
CancelConflicts(r) ==
  /\ request[r].stage = "body"
  /\ request[r].copy \notin Cancelling
  /\ Becomes(r, Answered(request[r].task, "conflict"))
  /\ UNCHANGED vars

\* Mutant: cancel does not look whether the task has a context.
CancelDecidesAnyway(r) ==
  LET t == request[r].task
  IN  /\ request[r].stage = "body"
      /\ request[r].copy \in Cancelling
      /\ CancelTargets({t}) /\ UNCHANGED timer
      /\ Becomes(r, Answered(t, "cancelled"))

\* The copy was active; loop.cancel does nothing for a task whose context
\* has been released meanwhile.
CancelDecides(r) ==
  LET t == request[r].task
  IN  /\ request[r].stage = "body"
      /\ request[r].copy \in Cancelling
      /\ IF t \in ctx THEN Cancel(t) ELSE UNCHANGED vars
      /\ Becomes(r, Answered(t, "cancelled"))

------------------------------------------------------------------------------
(* POST /v1/tasks/:id/resume                                               *)

\* resumeTask up to readTranscript.
ResumeArrives(r, t) ==
  /\ request[r] = Unsent
  /\ ResumeTask(t)
  /\ Becomes(r, AwaitsReplay(t))

\* resumeTask throws at once.
ResumeRefused(r, t) ==
  /\ request[r] = Unsent
  /\ \/ t \notin stored /\ Becomes(r, Answered(t, "not found"))
     \/ /\ t \in stored
        /\ status[t] # "interrupted"
        /\ Becomes(r, Answered(t, "conflict"))
  /\ UNCHANGED vars

\* The transcript could not be read.
ResumeUnread(r) ==
  /\ request[r].stage = "replay"
  /\ ResumeFailed(request[r].task)
  /\ Becomes(r, Answered(request[r].task, "conflict"))

\* Replayed; the transition throws if the task is not interrupted any more.
ResumeDecides(r) ==
  LET t == request[r].task
  IN  /\ request[r].stage = "replay"
      /\ \E turns \in {<<>>, <<t>>} : ResumeReplay(t, turns)
      /\ Becomes(r, Answered(t, IF CanTransition(status[t], "executing")
                                THEN "resumed" ELSE "conflict"))

------------------------------------------------------------------------------
Route(r) ==
  \/ \E t \in Task : CancelArrives(r, t) \/ ResumeArrives(r, t) \/ ResumeRefused(r, t)
  \/ CancelMalformed(r)
  \/ CancelConflicts(r)
  \/ CancelDecides(r)
  \/ ResumeUnread(r)
  \/ ResumeDecides(r)

\* What the loop does without the routes; cancel() without a task id is the
\* embedding program's.
LoopStep ==
  \/ \E s \in Session, t \in Task, m \in Msg : EnqueueMessage(s, t, m)
  \/ \E s \in Session, t \in Task : CreateTask(s, t)
  \/ CancelAll
  \/ Shutdown
  \/ \E T \in SUBSET Task : EvictCompleted(T)
  \/ \E t \in Task : Inner(t)

RouteNext ==
  \/ LoopStep /\ UNCHANGED request
  \/ \E r \in Request : Route(r)

RouteSpec == RouteInit /\ [][RouteNext]_routeVars

------------------------------------------------------------------------------
(* Properties.                                                             *)

RouteTypeOK == request \in [Request -> RequestState]

(* Whoever is answered "cancelled" has a task that is over for good,       *)
(* although the decision is made on a copy that may be stale: if the task  *)
(* had not ended before, this cancellation ended it, and no inner loop     *)
(* brings it back.                                                         *)
CancelledIsOver ==
  \A r \in Request :
    request[r].stage = "answered" /\ request[r].answer = "cancelled" =>
      status[request[r].task] \in Terminal

(* Of the requests that resume a task together, all of which found it      *)
(* interrupted, one is answered "resumed": no two inner loops are          *)
(* dispatched for one task.                                                *)
ResumedOnce ==
  \A r, q \in Request :
    /\ request[r].stage = "answered" /\ request[r].answer = "resumed"
    /\ request[q].stage = "answered" /\ request[q].answer = "resumed"
    /\ request[r].task = request[q].task
    => r = q

(* The routes use the loop only in ways DualLoop covers.                   *)
LoopSpec == Spec
==============================================================================
