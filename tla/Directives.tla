----------------------------- MODULE Directives ------------------------------
(***************************************************************************)
(* UI directives on their way from the agents of the dual loop to the      *)
(* clients (src/loop/directive-router.ts and its use in src/loop/dual.ts). *)
(*                                                                         *)
(* Each inner loop has an inner bus whose subscriber hands every directive *)
(* to this.directiveRouter, a field of the loop that the start of each     *)
(* inner loop replaces with a router onto its own task's bus.  So the      *)
(* router belongs to the inner loop that started last, and directives of   *)
(* an older one that is still running go where the younger one's go.       *)
(*                                                                         *)
(* A directive comes from a tool or from a file the scanner finds; either  *)
(* way it is published in one synchronous step of one agent, so the model  *)
(* has no directive before that step.  Left out: the hil-only ones, which  *)
(* go nowhere; a file that cannot be unlinked and is published again; the  *)
(* copies in session and result; and the view stack.                       *)
(***************************************************************************)
EXTENDS DualLoop

CONSTANTS
  Realtime,    \* directives whose type DELIVERY_TABLE calls realtime
  Checkpoint,  \* and those whose type it calls checkpoint
  NoTask       \* "none"

Directive == Realtime \cup Checkpoint

ASSUME NoTaskAssumption == NoTask \notin Task
ASSUME DeliveryAssumption == Realtime \cap Checkpoint = {}

VARIABLES
  router,    \* task whose bus this.directiveRouter publishes on
  buffer,    \* its checkpointBuffer
  author,    \* task whose agent published each directive
  shownTo,   \* task on whose bus each directive was shown
  together   \* tasks whose agents ran during some of each task's agent

directiveVars == <<router, buffer, author, shownTo, together>>

DInit ==
  /\ Init
  /\ router = NoTask
  /\ buffer = {}
  /\ author = [d \in Directive |-> NoTask]
  /\ shownTo = [d \in Directive |-> NoTask]
  /\ together = [t \in Task |-> {}]

Agents == {t \in Task : pc[t] = "loop"}

\* route(d) for each d of D, on the router r with the buffer b; the agent is
\* that of task t.
Publish(t, D, r, b) ==
  /\ \A d \in D : author[d] = NoTask
  /\ author' = [d \in Directive |-> IF d \in D THEN t ELSE author[d]]
  /\ shownTo' = [d \in Directive |-> IF d \in D \cap Realtime THEN r ELSE shownTo[d]]
  /\ router' = r
  /\ buffer' = b \cup (D \cap Checkpoint)

\* Mutant: the loop keeps its first router.
FirstRouter(t, D) ==
  /\ IF router = NoTask THEN Publish(t, D, t, {}) ELSE Publish(t, D, router, buffer)
  /\ together' = [u \in Task |-> IF u = t THEN together[t] \cup Agents
                                 ELSE IF u \in Agents THEN together[u] \cup {t}
                                 ELSE together[u]]

\* runInnerLoop from the new router to its first LLM call.
NewRouter(t, D) ==
  /\ Publish(t, D, t, {})
  /\ together' = [u \in Task |-> IF u = t THEN together[t] \cup Agents
                                 ELSE IF u \in Agents THEN together[u] \cup {t}
                                 ELSE together[u]]

\* Mutant: the buffer is cleared, not drained.
ClearCheckpointBuffer(t) ==
  /\ buffer' = {}
  /\ UNCHANGED <<router, author, shownTo, together>>

\* The agent of task t has returned: what is buffered, whoever's it is, goes
\* to t's bus.
DrainCheckpointBuffer(t) ==
  /\ shownTo' = [d \in Directive |-> IF d \in buffer THEN t ELSE shownTo[d]]
  /\ buffer' = {}
  /\ UNCHANGED <<router, author, together>>

------------------------------------------------------------------------------
\* An agent, or a sub-agent of it, publishes directives after its tools.
ToolDirectives(t, D) ==
  /\ pc[t] = "loop"
  /\ D # {}
  /\ Publish(t, D, router, buffer)
  /\ UNCHANGED <<vars, together>>

\* The scan at the start of an iteration is part of StartAgent and Iterate.
InnerD(t) ==
  \/ \E D \in SUBSET Directive : StartAgent(t) /\ NewRouter(t, D)
  \/ StartMention(t) /\ NewRouter(t, {})
  \/ \E D \in SUBSET Directive :
       Iterate(t) /\ Publish(t, D, router, buffer) /\ UNCHANGED together
  \/ \E D \in SUBSET Directive : ToolDirectives(t, D)
  \/ Finish(t) /\ DrainCheckpointBuffer(t)
  \/ Throw(t) /\ UNCHANGED directiveVars
  \/ /\ Dispatch(t) \/ DispatchCrash(t) \/ PlanningDone(t) \/ PlanningAbandoned(t)
     /\ UNCHANGED directiveVars

DNext ==
  \/ Outer /\ UNCHANGED directiveVars
  \/ \E t \in Task : InnerD(t)
  \/ \E t \in Task : Resumption(t) /\ UNCHANGED directiveVars

DSpec == DInit /\ [][DNext]_<<vars, directiveVars>>

------------------------------------------------------------------------------
(* Properties.                                                             *)

DTypeOK ==
  /\ router \in Task \cup {NoTask}
  /\ buffer \in SUBSET Checkpoint
  /\ author \in [Directive -> Task \cup {NoTask}]
  /\ shownTo \in [Directive -> Task \cup {NoTask}]
  /\ together \in [Task -> SUBSET Task]

(* The client of a task sees its own task's directives and those of tasks  *)
(* whose agents ran while its agent ran, never those of an earlier task:   *)
(* although the router outlives the inner loop that made it, nothing       *)
(* buffered in it reaches a task that starts later.                        *)
NoLateDirective ==
  \A d \in Directive : shownTo[d] # NoTask =>
    author[d] = shownTo[d] \/ author[d] \in together[shownTo[d]]

(* A completed task whose agent had the loop to itself has shown its       *)
(* client everything its agent published for it, what was buffered         *)
(* included.  (With another agent beside it, all of it may be lost.)       *)
CompletedShowsAll ==
  \A d \in Directive :
    LET t == author[d]
    IN  t # NoTask /\ status[t] = "completed" /\ together[t] = {} => shownTo[d] = t
==============================================================================
