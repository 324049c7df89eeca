------------------------------ MODULE DualLoop -------------------------------
(***************************************************************************)
(* The dual-loop runtime of src/loop/dual.ts with the task store, the task *)
(* state machine and the message queue it owns.                            *)
(*                                                                         *)
(* The outer loop (processMessage) answers a user message at once: it      *)
(* either queues the message for the task its session already executes or  *)
(* creates a task and dispatches an inner loop nobody waits for.  Node     *)
(* runs one callback at a time, so an action is what the code does between *)
(* two awaits: pc[t] names the await task t's callback chain stands at,    *)
(*                                                                         *)
(*   recall  memStore.recall in processMessage                             *)
(*   plan    the planning LLM call raced with its 5 s timer                *)
(*   build   buildInnerLoopToolRegistry                                    *)
(*   loop    an LLM call or a tool call of the agent, iteration iter[t]    *)
(*   done    the chain has ended                                           *)
(*                                                                         *)
(* and any other callback may run while it stands there.                   *)
(*                                                                         *)
(* Left out: what is written to disk (module TaskDisk), the planned steps, *)
(* checkpoints, progress numbers, artifacts, and the directiveRouter,      *)
(* viewStack and worldModel fields all inner loops share.                  *)
(***************************************************************************)
EXTENDS TaskMachine, Naturals, Sequences

CONSTANTS
  Task,       \* task ids (randomUUID)
  Session,    \* session ids
  Msg,        \* user messages sent while a task of the session is active
  NoSession,  \* "no session yet"
  MaxIter,    \* maxIterations of the agent
  MaxResume   \* bound: resumeTask calls of one task suspended together

ASSUME MaxIterAssumption == MaxIter \in Nat \ {0}
ASSUME MaxResumeAssumption == MaxResume \in Nat
ASSUME SessionAssumption == NoSession \notin Session

VARIABLES
  status,     \* status of each Task object, "absent" before it exists
  sessionOf,  \* sessionId of each Task object
  stored,     \* keys of InMemoryTaskStore.tasks
  older,      \* tasks that were in that Map when each one was inserted
  pc,         \* the await each task's callback chain stands at
  iter,       \* iteration of each task's agent
  ctx,        \* keys of taskContexts
  aborted,    \* tasks whose AbortController was aborted
  queue,      \* messages waiting for each task, in enqueue order
  fate,       \* what became of each user message
  history,    \* user messages of each Session object
  prompt,     \* user messages in each agent's state.messages
  resuming,   \* resumeTask calls suspended in readTranscript
  outcome,    \* final event published on each task's bus
  timer       \* the eviction interval is armed

vars == <<status, sessionOf, stored, older, pc, iter, ctx, aborted, queue,
          fate, history, prompt, resuming, outcome, timer>>

Absent == "absent"
PC == {"idle", "recall", "plan", "build", "loop", "done"}
Fate == {"unsent", "queued", "delivered", "orphaned", "lost"}

\* What a session's history is made of: the instruction of a task (written
\* as the task itself) and the messages delivered to it later.
Entry == Task \cup Msg

\* Chains that have started and not ended.
Live == {"recall", "plan", "build", "loop"}

Elems(q) == {q[i] : i \in DOMAIN q}

------------------------------------------------------------------------------
(* The task store and the message queue.                                   *)

\* getActiveForSession: the tasks that match; the first in Map order wins.
ActiveIn(s) == {t \in stored : sessionOf[t] = s /\ status[t] \in ActiveStatus}

IsActiveForSession(t, s) ==
  /\ t \in ActiveIn(s)
  /\ older[t] \cap ActiveIn(s) = {}

\* messageQueue.drainForTask on each task t of T, whose messages meet f[t].
DrainForTask(T, f) ==
  /\ queue' = [t \in Task |-> IF t \in T THEN <<>> ELSE queue[t]]
  /\ fate' = [m \in Msg |-> IF \E t \in T : m \in Elems(queue[t])
                            THEN f[CHOOSE t \in T : m \in Elems(queue[t])]
                            ELSE fate[m]]

\* onIterationStart adds the messages to the session.
DrainIntoSession(t) == DrainForTask({t}, [u \in Task |-> "delivered"])

\* Each message is announced as task.message.orphaned on the bus of the
\* task's context; without a context the function returns silently.
DrainQueueOnTermination(T) ==
  DrainForTask(T, [t \in Task |-> IF t \in ctx THEN "orphaned" ELSE "lost"])

------------------------------------------------------------------------------
(* The server starts: loadPersistedTasks has re-registered the tasks that  *)
(* were on disk, the unfinished ones as interrupted.                       *)

Init ==
  /\ status \in [Task -> {Absent, "interrupted", "completed", "failed"}]
  /\ stored = {t \in Task : status[t] # Absent}
  /\ sessionOf \in [Task -> Session \cup {NoSession}]
  /\ \A t \in Task : sessionOf[t] = NoSession <=> status[t] = Absent
  /\ older = [t \in Task |-> {}]
  /\ pc = [t \in Task |-> "idle"]
  /\ iter = [t \in Task |-> 0]
  /\ ctx = {}
  /\ aborted = {}
  /\ queue = [t \in Task |-> <<>>]
  /\ fate = [m \in Msg |-> "unsent"]
  /\ history = [s \in Session |-> <<>>]
  /\ prompt = [t \in Task |-> <<>>]
  /\ resuming = [t \in Task |-> 0]
  /\ outcome = [t \in Task |-> "none"]
  /\ timer = TRUE

------------------------------------------------------------------------------
(* The outer loop.                                                         *)

\* processMessage, the session has an active task: queue for that task.
EnqueueMessage(s, t, m) ==
  /\ IsActiveForSession(t, s)
  /\ fate[m] = "unsent"
  /\ queue' = [queue EXCEPT ![t] = Append(@, m)]
  /\ fate' = [fate EXCEPT ![m] = "queued"]
  /\ UNCHANGED <<status, sessionOf, stored, older, pc, iter, ctx, aborted,
                 history, prompt, resuming, outcome, timer>>

\* processMessage, no active task: register context and task, then await
\* memStore.recall.
CreateTask(s, t) ==
  /\ status[t] = Absent
  /\ ActiveIn(s) = {}
  /\ ctx' = ctx \cup {t}
  /\ status' = [status EXCEPT ![t] = "pending"]
  /\ sessionOf' = [sessionOf EXCEPT ![t] = s]
  /\ stored' = stored \cup {t}
  /\ older' = [older EXCEPT ![t] = stored]
  /\ pc' = [pc EXCEPT ![t] = "recall"]
  /\ UNCHANGED <<iter, aborted, queue, fate, history, prompt, resuming,
                 outcome, timer>>

\* processMessage after the recall, and runInnerLoop up to its first await:
\* the task starts planning.
Dispatch(t) ==
  /\ pc[t] = "recall"
  /\ CanTransition(status[t], "planning")
  /\ status' = [status EXCEPT ![t] = "planning"]
  /\ pc' = [pc EXCEPT ![t] = "plan"]
  /\ UNCHANGED <<sessionOf, stored, older, iter, ctx, aborted, queue, fate,
                 history, prompt, resuming, outcome, timer>>

\* The task was cancelled during the recall: the transition throws and the
\* catch handler of processMessage cleans up.
DispatchCrash(t) ==
  /\ pc[t] = "recall"
  /\ ~CanTransition(status[t], "planning")
  /\ status' = [status EXCEPT ![t] = FailOrKeep(@)]
  /\ DrainQueueOnTermination({t})
  /\ ctx' = ctx \ {t}
  /\ outcome' = [outcome EXCEPT ![t] = "error"]
  /\ pc' = [pc EXCEPT ![t] = "done"]
  /\ UNCHANGED <<sessionOf, stored, older, iter, aborted, history, prompt,
                 resuming, timer>>

------------------------------------------------------------------------------
(* The inner loop.                                                         *)

\* Mutant: the status is not looked at after the planning call.
PlanningDoneUnchecked(t) ==
  /\ pc[t] = "plan"
  /\ status' = [status EXCEPT ![t] = "executing"]
  /\ pc' = [pc EXCEPT ![t] = "build"]
  /\ UNCHANGED <<sessionOf, stored, older, iter, ctx, aborted, queue, fate,
                 history, prompt, resuming, outcome, timer>>

\* The planning call returned, failed or timed out.
PlanningDone(t) ==
  /\ pc[t] = "plan"
  /\ status[t] = "planning"
  /\ status' = [status EXCEPT ![t] = "executing"]
  /\ pc' = [pc EXCEPT ![t] = "build"]
  /\ UNCHANGED <<sessionOf, stored, older, iter, ctx, aborted, queue, fate,
                 history, prompt, resuming, outcome, timer>>

\* The task was cancelled while planning: runInnerLoop returns, outside the
\* try block whose finally releases the context.
PlanningAbandoned(t) ==
  /\ pc[t] = "plan"
  /\ status[t] # "planning"
  /\ pc' = [pc EXCEPT ![t] = "done"]
  /\ UNCHANGED <<status, sessionOf, stored, older, iter, ctx, aborted, queue,
                 fate, history, prompt, resuming, outcome, timer>>

\* The tools are built and the agent starts: it adds the instruction to the
\* session, copies the session into the messages it will send to the LLM and
\* begins iteration 1, whose onIterationStart drains the queue into the
\* session.
StartAgent(t) ==
  LET s == sessionOf[t]
      asked == Append(history[s], t)
  IN  /\ pc[t] = "build"
      /\ prompt' = [prompt EXCEPT ![t] = asked]
      /\ history' = [history EXCEPT ![s] = asked \o queue[t]]
      /\ DrainIntoSession(t)
      /\ iter' = [iter EXCEPT ![t] = 1]
      /\ pc' = [pc EXCEPT ![t] = "loop"]
      /\ UNCHANGED <<status, sessionOf, stored, older, ctx, aborted, resuming,
                     outcome, timer>>

\* The instruction starts with @agent: a sub-agent answers on a child
\* session, without iterations of this agent.
StartMention(t) ==
  /\ pc[t] = "build"
  /\ pc' = [pc EXCEPT ![t] = "loop"]
  /\ UNCHANGED <<status, sessionOf, stored, older, iter, ctx, aborted, queue,
                 fate, history, prompt, resuming, outcome, timer>>

\* The LLM asked for tools and they have run: the next iteration starts.
\* The agent was built without the abort signal, so a cancelled task goes on.
Iterate(t) ==
  /\ pc[t] = "loop"
  /\ iter[t] \in 1 .. (MaxIter - 1)
  /\ iter' = [iter EXCEPT ![t] = @ + 1]
  /\ history' = [history EXCEPT ![sessionOf[t]] = @ \o queue[t]]
  /\ DrainIntoSession(t)
  /\ UNCHANGED <<status, sessionOf, stored, older, pc, ctx, aborted, prompt,
                 resuming, outcome, timer>>

\* Mutant: the context is released before the queue is drained.
CompleteReleaseFirst(t) ==
  /\ status' = [status EXCEPT ![t] = "completed"]
  /\ DrainForTask({t}, [u \in Task |-> IF u \in ctx \ {t} THEN "orphaned" ELSE "lost"])
  /\ outcome' = [outcome EXCEPT ![t] = "completed"]
  /\ ctx' = ctx \ {t}

\* Mutant: the queue is not drained on completion.
CompleteNoDrain(t) ==
  /\ status' = [status EXCEPT ![t] = "completed"]
  /\ UNCHANGED <<queue, fate>>
  /\ outcome' = [outcome EXCEPT ![t] = "completed"]
  /\ ctx' = ctx \ {t}

\* What complete, the drain, the final events and the finally block do.
Complete(t) ==
  /\ status' = [status EXCEPT ![t] = "completed"]
  /\ DrainQueueOnTermination({t})
  /\ outcome' = [outcome EXCEPT ![t] = "completed"]
  /\ ctx' = ctx \ {t}

\* Mutant: the catch block leaves the status alone.
CatchNoFail(t) ==
  /\ UNCHANGED status
  /\ DrainQueueOnTermination({t})
  /\ outcome' = [outcome EXCEPT ![t] = "error"]
  /\ ctx' = ctx \ {t}

\* Mutant: the catch block publishes nothing.
CatchSilent(t) ==
  /\ status' = [status EXCEPT ![t] = FailOrKeep(@)]
  /\ DrainQueueOnTermination({t})
  /\ UNCHANGED outcome
  /\ ctx' = ctx \ {t}

\* What the catch and finally blocks of runInnerLoop do.
CatchError(t) ==
  /\ status' = [status EXCEPT ![t] = FailOrKeep(@)]
  /\ DrainQueueOnTermination({t})
  /\ outcome' = [outcome EXCEPT ![t] = "error"]
  /\ ctx' = ctx \ {t}

\* Mutant: complete does not validate the transition.
FinishUnvalidated(t) ==
  /\ pc[t] = "loop"
  /\ Complete(t)
  /\ pc' = [pc EXCEPT ![t] = "done"]
  /\ UNCHANGED <<sessionOf, stored, older, iter, aborted, history, prompt,
                 resuming, timer>>

\* Mutant: a refused complete is swallowed and the final events go out.
FinishSwallows(t) ==
  /\ pc[t] = "loop"
  /\ IF CanTransition(status[t], "completed")
     THEN Complete(t)
     ELSE /\ UNCHANGED status
          /\ DrainQueueOnTermination({t})
          /\ outcome' = [outcome EXCEPT ![t] = "completed"]
          /\ ctx' = ctx \ {t}
  /\ pc' = [pc EXCEPT ![t] = "done"]
  /\ UNCHANGED <<sessionOf, stored, older, iter, aborted, history, prompt,
                 resuming, timer>>

\* The agent returned a result.  complete throws when the task was cancelled
\* meanwhile, and the catch block takes over.
Finish(t) ==
  /\ pc[t] = "loop"
  /\ IF CanTransition(status[t], "completed") THEN Complete(t) ELSE CatchError(t)
  /\ pc' = [pc EXCEPT ![t] = "done"]
  /\ UNCHANGED <<sessionOf, stored, older, iter, aborted, history, prompt,
                 resuming, timer>>

\* The agent threw.
Throw(t) ==
  /\ pc[t] = "loop"
  /\ CatchError(t)
  /\ pc' = [pc EXCEPT ![t] = "done"]
  /\ UNCHANGED <<sessionOf, stored, older, iter, aborted, history, prompt,
                 resuming, timer>>

------------------------------------------------------------------------------
(* Cancellation, eviction, shutdown, resumption.                           *)

\* Mutant: cancel deletes the contexts itself.
CancelReleases(T) ==
  /\ aborted' = aborted \cup T
  /\ status' = [t \in Task |-> IF t \in T \cap stored THEN FailOrKeep(status[t])
                                                      ELSE status[t]]
  /\ DrainQueueOnTermination(T \cap stored)
  /\ ctx' = ctx \ T
  /\ UNCHANGED <<sessionOf, stored, older, pc, iter, history, prompt, resuming,
                 outcome>>

\* Mutant: cancel aborts and drains but does not fail the tasks.
CancelOnlyAborts(T) ==
  /\ aborted' = aborted \cup T
  /\ UNCHANGED status
  /\ DrainQueueOnTermination(T \cap stored)
  /\ UNCHANGED <<sessionOf, stored, older, pc, iter, ctx, history, prompt,
                 resuming, outcome>>

\* The loop over targets in cancel.  A target without a Task object in the
\* store is only aborted.  The contexts stay.
CancelTargets(T) ==
  /\ aborted' = aborted \cup T
  /\ status' = [t \in Task |-> IF t \in T \cap stored THEN FailOrKeep(status[t])
                                                      ELSE status[t]]
  /\ DrainQueueOnTermination(T \cap stored)
  /\ UNCHANGED <<sessionOf, stored, older, pc, iter, ctx, history, prompt,
                 resuming, outcome>>

\* cancel(taskId)
Cancel(t) ==
  /\ t \in ctx
  /\ CancelTargets({t})
  /\ UNCHANGED timer

\* cancel() without an id: the sole context, or all of them.
CancelAll ==
  /\ ctx # {}
  /\ CancelTargets(ctx)
  /\ UNCHANGED timer

\* shutdown disarms the eviction timer and cancels everything.
Shutdown ==
  /\ timer
  /\ timer' = FALSE
  /\ CancelTargets(ctx)

\* A tick of the eviction timer: any non-empty set of terminal tasks can be
\* the ones older than evictionMaxAgeMs.
EvictCompleted(T) ==
  /\ timer
  /\ T # {}
  /\ \A t \in T : t \in stored /\ status[t] \in Terminal
  /\ stored' = stored \ T
  /\ UNCHANGED <<status, sessionOf, older, pc, iter, ctx, aborted, queue, fate,
                 history, prompt, resuming, outcome, timer>>

\* resumeTask up to readTranscript.
ResumeTask(t) ==
  /\ t \in stored
  /\ status[t] = "interrupted"
  /\ resuming[t] < MaxResume
  /\ resuming' = [resuming EXCEPT ![t] = @ + 1]
  /\ UNCHANGED <<status, sessionOf, stored, older, pc, iter, ctx, aborted,
                 queue, fate, history, prompt, outcome, timer>>

\* readTranscript threw (an unreadable or torn transcript).
ResumeFailed(t) ==
  /\ resuming[t] > 0
  /\ resuming' = [resuming EXCEPT ![t] = @ - 1]
  /\ UNCHANGED <<status, sessionOf, stored, older, pc, iter, ctx, aborted,
                 queue, fate, history, prompt, outcome, timer>>

\* The rest of resumeTask.  The only user turn ever appended to a transcript
\* is the instruction, and it may be missing.  The session is reset before
\* the transition is tried; when another call resumed the task first the
\* transition throws and nothing else happens.
ResumeReplay(t, turns) ==
  /\ resuming[t] > 0
  /\ turns \in {<<>>, <<t>>}
  /\ resuming' = [resuming EXCEPT ![t] = @ - 1]
  /\ history' = [history EXCEPT ![sessionOf[t]] = turns]
  /\ IF CanTransition(status[t], "executing")
     THEN /\ status' = [status EXCEPT ![t] = "executing"]
          /\ ctx' = ctx \cup {t}
          /\ aborted' = aborted \ {t}
          /\ pc' = [pc EXCEPT ![t] = "build"]
     ELSE UNCHANGED <<status, ctx, aborted, pc>>
  /\ UNCHANGED <<sessionOf, stored, older, iter, queue, fate, prompt,
                 outcome, timer>>

------------------------------------------------------------------------------
Outer ==
  \/ \E s \in Session, t \in Task, m \in Msg : EnqueueMessage(s, t, m)
  \/ \E s \in Session, t \in Task : CreateTask(s, t)
  \/ \E t \in Task : Cancel(t)
  \/ CancelAll
  \/ Shutdown
  \/ \E T \in SUBSET Task : EvictCompleted(T)
  \/ \E t \in Task : ResumeTask(t)

\* The callback chain of task t.
Inner(t) ==
  \/ Dispatch(t)
  \/ DispatchCrash(t)
  \/ PlanningDone(t)
  \/ PlanningAbandoned(t)
  \/ StartAgent(t)
  \/ StartMention(t)
  \/ Iterate(t)
  \/ Finish(t)
  \/ Throw(t)

\* The continuation of a suspended resumeTask.
Resumption(t) ==
  \/ ResumeFailed(t)
  \/ \E turns \in {<<>>, <<t>>} : ResumeReplay(t, turns)

Next ==
  \/ Outer
  \/ \E t \in Task : Inner(t)
  \/ \E t \in Task : Resumption(t)

Spec == Init /\ [][Next]_vars

\* Every await of a chain settles: the planning call is raced with a timer,
\* buildSignal bounds each LLM call to 300 s, and recall, plugin import and
\* transcript reads are local file operations.  Nothing is assumed of the
\* user: messages, cancellations and resumptions need never come.
Fairness == \A t \in Task : WF_vars(Inner(t)) /\ WF_vars(Resumption(t))

FairSpec == Spec /\ Fairness

------------------------------------------------------------------------------
(* Properties.                                                             *)

TypeOK ==
  /\ status \in [Task -> TaskStatus \cup {Absent}]
  /\ sessionOf \in [Task -> Session \cup {NoSession}]
  /\ stored \in SUBSET Task
  /\ older \in [Task -> SUBSET Task]
  /\ pc \in [Task -> PC]
  /\ iter \in [Task -> 0 .. MaxIter]
  /\ ctx \in SUBSET Task
  /\ aborted \in SUBSET Task
  /\ queue \in [Task -> Seq(Msg)]
  /\ fate \in [Msg -> Fate]
  /\ history \in [Session -> Seq(Entry)]
  /\ prompt \in [Task -> Seq(Entry)]
  /\ resuming \in [Task -> 0 .. MaxResume]
  /\ outcome \in [Task -> {"none", "completed", "error"}]
  /\ timer \in BOOLEAN

(* A message the caller was told is queued never vanishes: whenever the    *)
(* queue of a terminating task is drained, the task's context is still     *)
(* there to announce the message as orphaned (drainQueueOnTermination      *)
(* returns silently when it is not).                                       *)
NoSilentLoss == \A m \in Msg : fate[m] # "lost"

(* No message waits for a task that will not look at its queue again: a    *)
(* task with queued messages is executing and its chain has still to       *)
(* iterate or to terminate, each of which drains the queue.                *)
NoStrandedMessage ==
  \A t \in Task : queue[t] # <<>> => /\ status[t] = "executing"
                                     /\ pc[t] \in {"build", "loop"}

(* A queued message is in one place of one queue, and a message that has   *)
(* been delivered or orphaned is in none: draining on cancel, on           *)
(* completion and at an iteration start never hands a message out twice.   *)
QueuedOnce ==
  /\ \A m \in Msg : fate[m] = "queued" <=> \E t \in Task : m \in Elems(queue[t])
  /\ \A t, u \in Task : \A i \in DOMAIN queue[t], j \in DOMAIN queue[u] :
       queue[t][i] = queue[u][j] => t = u /\ i = j

(* Every running chain can be reached by cancel(taskId): its context is in *)
(* taskContexts from before the task exists until the chain ends.          *)
Cancellable == \A t \in Task : pc[t] \in Live => t \in ctx

(* A cancelled task ends failed and never announces a completion, however  *)
(* far its inner loop had got and although that loop runs on.              *)
CancelIsFinal ==
  \A t \in aborted : status[t] = "failed" /\ outcome[t] # "completed"

(* task.completed is announced for the completed tasks and for no other.   *)
HonestOutcome ==
  \A t \in Task : pc[t] # "idle" =>
    (outcome[t] = "completed" <=> status[t] = "completed")

(* Task statuses move only as TaskLifecycle allows, in every interleaving. *)
Lifecycle == INSTANCE TaskLifecycle
LifecycleSpec == Lifecycle!Spec

(* Every dispatched chain ends, with its task completed or failed.         *)
TaskSettles ==
  \A t \in Task : pc[t] \in Live ~> pc[t] = "done" /\ status[t] \in Terminal

(* Every queued message is eventually delivered to the session or          *)
(* announced as orphaned.                                                  *)
MessageResolved ==
  \A m \in Msg : fate[m] = "queued" ~> fate[m] \in {"delivered", "orphaned"}

(* The client of a task nobody cancels eventually sees task.completed or   *)
(* error on the task's bus.                                                *)
OutcomeAnnounced ==
  \A t \in Task : status[t] = "pending" ~> outcome[t] # "none" \/ t \in aborted

------------------------------------------------------------------------------
(* What a document says of this code and the model refutes.                *)

(* "MessageQueue delivers dialogue-layer messages at the next iteration    *)
(* boundary" so that dialogue steers the running task                      *)
(* (DUAL_LOOP_ARCHITECTURE.md): the messages an iteration drains are among *)
(* the messages its LLM call sends.                                        *)
Steered ==
  [][\A t \in Task : iter'[t] # iter[t] => Elems(queue[t]) \subseteq Elems(prompt'[t])]_vars
==============================================================================
