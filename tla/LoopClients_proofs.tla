-------------------------- MODULE LoopClients_proofs -------------------------
(***************************************************************************)
(* Proofs about the two modules that compose the dual loop with its        *)
(* clients, TaskRoutes and Directives.  In both every step is a step of    *)
(* the loop or leaves it alone, so what DualLoop_proofs shows of every     *)
(* status move holds under them.                                           *)
(*                                                                         *)
(* Routes: what a request knew when it looked at its task stays true       *)
(* enough for what it answers later.                                       *)
(*                                                                         *)
(* Directives: agents that run together know each other, so the shared     *)
(* router can only ever hand an agent's directives to a task it ran with.  *)
(***************************************************************************)
EXTENDS TaskRoutes, Directives, DualLoop_proofs

\* Sets of statuses no step leaves: nothing interrupts or pauses a task.
ActiveOrOver == Cancelling \cup Terminal
ExecutingOrOver == {"executing"} \cup Terminal
ResumableOrOver == {"interrupted", "executing"} \cup Terminal

\* What is still true of the task of a request while the request waits, and
\* what stays true once it is answered.
Promise(r) ==
  LET t == request[r].task
      stage == request[r].stage
  IN  /\ stage = "body" /\ request[r].copy \in Cancelling => status[t] \in ActiveOrOver
      /\ stage = "replay" => status[t] \in ResumableOrOver
      /\ stage = "answered" /\ request[r].answer = "resumed" => status[t] \in ExecutingOrOver
      /\ stage = "answered" /\ request[r].answer = "cancelled" => status[t] \in Terminal

RouteInv ==
  /\ IndInv
  /\ RouteTypeOK
  /\ \A r \in Request : Promise(r)
  /\ ResumedOnce

------------------------------------------------------------------------------
(* The routes are steps of the loop.                                       *)

\* Every request that has got anywhere is about a task.
LEMMA RequestFacts ==
  ASSUME RouteTypeOK, NEW r \in Request
  PROVE  /\ request[r] \in RequestState
         /\ request[r] # Unsent => request[r].task \in Task
         /\ request[r].stage \in {"body", "replay", "answered"} => request[r] # Unsent
  BY DEF RouteTypeOK, RequestState, Unsent, AwaitsBody, AwaitsReplay, Answered

LEMMA RouteIsLoopStep ==
  ASSUME TypeOK, RouteTypeOK, [RouteNext]_routeVars
  PROVE  [Next]_vars
  <1>1. CASE LoopStep
    BY <1>1 DEF LoopStep, Next, Outer
  <1>2. ASSUME NEW r \in Request, Route(r) PROVE [Next]_vars
    <2>1. ASSUME NEW t \in Task,
                 CancelArrives(r, t) \/ ResumeArrives(r, t) \/ ResumeRefused(r, t)
          PROVE  [Next]_vars
      BY <2>1 DEF CancelArrives, ResumeArrives, ResumeRefused, Next, Outer
    <2>2. CASE CancelMalformed(r) \/ CancelConflicts(r)
      BY <2>2 DEF CancelMalformed, CancelConflicts
    <2>3. CASE CancelDecides(r)
      BY <1>2, <2>3, RequestFacts DEF CancelDecides, Next, Outer
    <2>4. CASE ResumeUnread(r)
      BY <1>2, <2>4, RequestFacts DEF ResumeUnread, Next, Resumption
    <2>5. CASE ResumeDecides(r)
      BY <1>2, <2>5, RequestFacts DEF ResumeDecides, Next, Resumption
    <2> QED
      BY <1>2, <2>1, <2>2, <2>3, <2>4, <2>5 DEF Route
  <1> QED
    BY <1>1, <1>2 DEF RouteNext, routeVars, vars

------------------------------------------------------------------------------
(* What a step of the loop may do to a status.                             *)

\* Nothing pauses or interrupts a task while the server runs.
LEMMA NeverInterrupted ==
  ASSUME TypeOK, [Next]_vars, NEW t \in Task, status'[t] \in {"paused", "interrupted"}
  PROVE  status'[t] = status[t]
  <1>1. ASSUME NEW u \in Task, Inner(u) PROVE status'[t] = status[t]
    <2>1. CASE Dispatch(u)
      BY <2>1 DEF Dispatch, TypeOK
    <2>2. CASE PlanningDone(u)
      BY <2>2 DEF PlanningDone, TypeOK
    <2>3. CASE DispatchCrash(u) \/ Throw(u) \/ Finish(u)
      BY <2>3 DEF DispatchCrash, Throw, Finish, Complete, CatchError, FailOrKeep, TypeOK
    <2>4. CASE PlanningAbandoned(u) \/ StartAgent(u) \/ StartMention(u) \/ Iterate(u)
      BY <2>4 DEF PlanningAbandoned, StartAgent, StartMention, Iterate
    <2> QED
      BY <1>1, <2>1, <2>2, <2>3, <2>4 DEF Inner
  <1>2. ASSUME NEW T, CancelTargets(T) PROVE status'[t] = status[t]
    BY <1>2 DEF CancelTargets, FailOrKeep
  <1>3. ASSUME NEW s \in Session, NEW u \in Task, CreateTask(s, u)
        PROVE  status'[t] = status[t]
    BY <1>3 DEF CreateTask, TypeOK
  <1>4. ASSUME Outer PROVE status'[t] = status[t]
    BY <1>2, <1>3, <1>4 DEF Outer, EnqueueMessage, Cancel, CancelAll,
       Shutdown, EvictCompleted, ResumeTask
  <1>5. ASSUME NEW u \in Task, Resumption(u) PROVE status'[t] = status[t]
    <2>1. ASSUME NEW turns \in {<<>>, <<u>>}, ResumeReplay(u, turns)
          PROVE  status'[t] = status[t]
      BY <2>1 DEF ResumeReplay, TypeOK
    <2> QED
      BY <1>5, <2>1 DEF Resumption, ResumeFailed
  <1> QED
    BY <1>1, <1>4, <1>5 DEF Next, vars

LEMMA StatusKeeps ==
  ASSUME TypeOK, [Next]_vars, NEW t \in Task
  PROVE  /\ status[t] \in ActiveOrOver => status'[t] \in ActiveOrOver
         /\ status[t] \in ExecutingOrOver => status'[t] \in ExecutingOrOver
         /\ status[t] \in ResumableOrOver => status'[t] \in ResumableOrOver
         /\ status[t] \in Terminal => status'[t] \in Terminal
  BY StatusMoves, NeverInterrupted
     DEF LegalMove, CanTransition, VALID_TRANSITIONS, ActiveOrOver,
         ExecutingOrOver, ResumableOrOver, Cancelling, Terminal, Absent

LEMMA PromiseKept ==
  ASSUME TypeOK, RouteTypeOK, [Next]_vars,
         NEW r \in Request, Promise(r), request'[r] = request[r]
  PROVE  Promise(r)'
  <1>1. CASE request[r] = Unsent
    BY <1>1 DEF Promise, Unsent
  <1>2. CASE request[r] # Unsent
    BY <1>2, RequestFacts, StatusKeeps DEF Promise
  <1> QED
    BY <1>1, <1>2

------------------------------------------------------------------------------
(* The invariant of the routes.                                            *)

LEMMA RouteInitInv == RouteInit => RouteInv
  BY InitInv DEF RouteInit, RouteInv, RouteTypeOK, RequestState, Promise,
     ResumedOnce, Unsent

(* One request moves to a state that its promise and the other resumptions *)
(* allow; the loop may take a step with it.                                *)
LEMMA OneRequestMoves ==
  ASSUME RouteInv, [Next]_vars, NEW r \in Request, NEW to \in RequestState,
         Becomes(r, to), Promise(r)',
         to.stage = "answered" /\ to.answer = "resumed" =>
           \A q \in Request \ {r} :
             /\ request[q].stage = "answered"
             /\ request[q].answer = "resumed"
             => request[q].task # to.task
  PROVE  RouteInv'
  <1>1. IndInv'
    BY NextInv DEF RouteInv
  <1>2. /\ request' \in [Request -> RequestState]
        /\ request'[r] = to
        /\ \A q \in Request \ {r} : request'[q] = request[q]
    BY DEF Becomes, RouteInv, RouteTypeOK
  <1>3. ASSUME NEW q \in Request PROVE Promise(q)'
    <2>1. CASE q = r
      BY <2>1
    <2>2. CASE q # r
      BY <1>2, <2>2, PromiseKept DEF RouteInv, IndInv
    <2> QED
      BY <2>1, <2>2
  <1>4. ResumedOnce'
    BY <1>2 DEF ResumedOnce, RouteInv
  <1> QED
    BY <1>1, <1>2, <1>3, <1>4 DEF RouteInv, RouteTypeOK

\* The states a request is made of, their stages and their fields.
LEMMA BodyState ==
  ASSUME NEW t \in Task, NEW copy \in TaskStatus
  PROVE  /\ AwaitsBody(t, copy) \in RequestState
         /\ AwaitsBody(t, copy).stage = "body"
         /\ AwaitsBody(t, copy).task = t
         /\ AwaitsBody(t, copy).copy = copy
  <1>1. AwaitsBody(t, copy) \in {AwaitsBody(u, c) : u \in Task, c \in TaskStatus}
    OBVIOUS
  <1>2. AwaitsBody(t, copy) \in RequestState
    BY <1>1 DEF RequestState
  <1> QED
    BY <1>2 DEF AwaitsBody

LEMMA ReplayState ==
  ASSUME NEW t \in Task
  PROVE  /\ AwaitsReplay(t) \in RequestState
         /\ AwaitsReplay(t).stage = "replay"
         /\ AwaitsReplay(t).task = t
  <1>1. AwaitsReplay(t) \in {AwaitsReplay(u) : u \in Task}
    OBVIOUS
  <1>2. AwaitsReplay(t) \in RequestState
    BY <1>1 DEF RequestState
  <1> QED
    BY <1>2 DEF AwaitsReplay

LEMMA AnsweredState ==
  ASSUME NEW t \in Task, NEW answer \in Answer
  PROVE  /\ Answered(t, answer) \in RequestState
         /\ Answered(t, answer).stage = "answered"
         /\ Answered(t, answer).task = t
         /\ Answered(t, answer).answer = answer
  <1>1. Answered(t, answer) \in {Answered(u, a) : u \in Task, a \in Answer}
    OBVIOUS
  <1>2. Answered(t, answer) \in RequestState
    BY <1>1 DEF RequestState
  <1> QED
    BY <1>2 DEF Answered

\* An answer that promises nothing.
LEMMA RefusalInv ==
  ASSUME RouteInv, [Next]_vars, NEW r \in Request, NEW t \in Task,
         NEW answer \in {"bad request", "not found", "conflict"},
         Becomes(r, Answered(t, answer))
  PROVE  RouteInv'
  <1> DEFINE to == Answered(t, answer)
  <1>1. to \in RequestState /\ to.stage = "answered" /\ to.answer = answer
    <2>1. answer \in Answer
      BY DEF Answer
    <2> QED
      BY <2>1, AnsweredState
  <1>2. request'[r] = to
    BY DEF Becomes, RouteInv, RouteTypeOK
  <1>3. Becomes(r, to)
    OBVIOUS
  <1> HIDE DEF to
  <1>4. Promise(r)'
    BY <1>1, <1>2 DEF Promise
  <1> QED
    BY <1>1, <1>3, <1>4, OneRequestMoves

------------------------------------------------------------------------------
(* The steps of a request.                                                 *)

LEMMA CancelArrivesInv ==
  ASSUME RouteInv, NEW r \in Request, NEW t \in Task, CancelArrives(r, t)
  PROVE  RouteInv'
  <1>1. UNCHANGED vars
    BY DEF CancelArrives
  <1>2. CASE t \in stored
    <2> DEFINE to == AwaitsBody(t, status[t])
    <2>1. status[t] \in TaskStatus
      BY <1>2 DEF RouteInv, IndInv, TypeOK, Known
    <2>2. to \in RequestState /\ to.stage = "body" /\ to.task = t /\ to.copy = status[t]
      BY <2>1, BodyState
    <2>3. Becomes(r, to)
      BY <1>2 DEF CancelArrives
    <2>4. request'[r] = to
      BY <2>3 DEF Becomes, RouteInv, RouteTypeOK
    <2> HIDE DEF to
    <2>5. Promise(r)'
      BY <1>1, <2>2, <2>4 DEF Promise, vars, ActiveOrOver
    <2> QED
      BY <1>1, <2>2, <2>3, <2>5, OneRequestMoves
  <1>3. CASE t \notin stored
    BY <1>1, <1>3, RefusalInv DEF CancelArrives
  <1> QED
    BY <1>2, <1>3

LEMMA CancelRefusedInv ==
  ASSUME RouteInv, NEW r \in Request, CancelMalformed(r) \/ CancelConflicts(r)
  PROVE  RouteInv'
  <1>1. request[r].task \in Task
    BY RequestFacts DEF RouteInv, CancelMalformed, CancelConflicts
  <1> QED
    BY <1>1, RefusalInv DEF CancelMalformed, CancelConflicts

\* The copy was active, so the task is active or over; an active task has a
\* context, and the cancellation fails it.
LEMMA CancelDecidesInv ==
  ASSUME RouteInv, NEW r \in Request, CancelDecides(r)
  PROVE  RouteInv'
  <1> DEFINE t == request[r].task
             to == Answered(t, "cancelled")
  <1>1. t \in Task
    BY RequestFacts DEF RouteInv, CancelDecides
  <1>2. [Next]_vars
    BY <1>1 DEF CancelDecides, Next, Outer
  <1>3. status[t] \in ActiveOrOver
    BY DEF RouteInv, Promise, CancelDecides
  <1>4. to \in RequestState /\ to.stage = "answered" /\ to.task = t /\ to.answer = "cancelled"
    <2>1. "cancelled" \in Answer
      BY DEF Answer
    <2> QED
      BY <1>1, <2>1, AnsweredState
  <1>5. Becomes(r, to) /\ request'[r] = to
    BY DEF CancelDecides, Becomes, RouteInv, RouteTypeOK
  <1>6. status'[t] \in Terminal
    <2>1. CASE t \in ctx
      <3>1. t \in stored \/ status[t] \in Terminal
        BY <1>1, <1>3 DEF RouteInv, IndInv, Known, ActiveOrOver, Cancelling, Terminal, Absent
      <3>2. CancelTargets({t})
        BY <2>1 DEF CancelDecides, Cancel
      <3>3. CASE t \in stored
        BY <1>1, <1>3, <3>2, <3>3 DEF CancelTargets, ActiveOrOver, Cancelling,
           Terminal, FailOrKeep, CanTransition, VALID_TRANSITIONS
      <3>4. CASE status[t] \in Terminal
        BY <1>1, <1>2, <3>4, StatusKeeps DEF RouteInv, IndInv
      <3> QED
        BY <3>1, <3>3, <3>4
    <2>2. CASE t \notin ctx
      <3>1. pc[t] \notin Live
        BY <1>1, <2>2 DEF RouteInv, IndInv, Cancellable
      <3>2. pc[t] \in {"idle", "done"}
        BY <1>1, <3>1 DEF RouteInv, IndInv, TypeOK, PC, Live
      <3>3. status[t] \in Terminal
        BY <1>1, <1>3, <3>2 DEF RouteInv, IndInv, Phase, ActiveOrOver, Cancelling,
           Terminal, Absent
      <3> QED
        BY <1>1, <1>2, <3>3, StatusKeeps DEF RouteInv, IndInv
    <2> QED
      BY <2>1, <2>2
  <1> HIDE DEF to
  <1>7. Promise(r)'
    BY <1>4, <1>5, <1>6 DEF Promise
  <1> HIDE DEF t
  <1> QED
    BY <1>2, <1>4, <1>5, <1>7, OneRequestMoves

\* Only an interrupted task is resumed.
LEMMA ResumeArrivesInv ==
  ASSUME RouteInv, NEW r \in Request, NEW t \in Task, ResumeArrives(r, t)
  PROVE  RouteInv'
  <1> DEFINE to == AwaitsReplay(t)
  <1>1. [Next]_vars
    BY DEF ResumeArrives, Next, Outer
  <1>2. to \in RequestState /\ to.stage = "replay" /\ to.task = t
    BY ReplayState
  <1>3. Becomes(r, to) /\ request'[r] = to
    BY DEF ResumeArrives, Becomes, RouteInv, RouteTypeOK
  <1>4. status'[t] = "interrupted"
    BY DEF ResumeArrives, ResumeTask
  <1> HIDE DEF to
  <1>5. Promise(r)'
    BY <1>2, <1>3, <1>4 DEF Promise, ResumableOrOver
  <1> QED
    BY <1>1, <1>2, <1>3, <1>5, OneRequestMoves

LEMMA ResumeRefusedInv ==
  ASSUME RouteInv, NEW r \in Request, NEW t \in Task, ResumeRefused(r, t)
  PROVE  RouteInv'
  BY RefusalInv DEF ResumeRefused

LEMMA ResumeUnreadInv ==
  ASSUME RouteInv, NEW r \in Request, ResumeUnread(r)
  PROVE  RouteInv'
  <1>1. request[r].task \in Task
    BY RequestFacts DEF RouteInv, ResumeUnread
  <1>2. [Next]_vars
    BY <1>1 DEF ResumeUnread, Next, Resumption
  <1> QED
    BY <1>1, <1>2, RefusalInv DEF ResumeUnread

\* A replay that is answered "resumed" found the task interrupted, which no
\* task with a request answered so is.
LEMMA ResumeDecidesInv ==
  ASSUME RouteInv, NEW r \in Request, ResumeDecides(r)
  PROVE  RouteInv'
  <1> DEFINE t == request[r].task
  <1>1. t \in Task
    BY RequestFacts DEF RouteInv, ResumeDecides
  <1>2. [Next]_vars
    BY <1>1 DEF ResumeDecides, Next, Resumption
  <1>3. CASE CanTransition(status[t], "executing")
    <2> DEFINE to == Answered(t, "resumed")
    <2>1. status[t] = "interrupted"
      BY <1>1, <1>3 DEF ResumeDecides, RouteInv, Promise, ResumableOrOver, Terminal,
         CanTransition, VALID_TRANSITIONS
    <2>2. to \in RequestState /\ to.stage = "answered" /\ to.task = t /\ to.answer = "resumed"
      <3>1. "resumed" \in Answer
        BY DEF Answer
      <3> QED
        BY <1>1, <3>1, AnsweredState
    <2>3. Becomes(r, to) /\ request'[r] = to
      BY <1>3 DEF ResumeDecides, Becomes, RouteInv, RouteTypeOK
    <2>4. status'[t] = "executing"
      BY <1>1, <1>3 DEF ResumeDecides, ResumeReplay, RouteInv, IndInv, TypeOK
    <2>5. ASSUME NEW q \in Request \ {r}, request[q].stage = "answered",
                 request[q].answer = "resumed"
          PROVE  request[q].task # t
      BY <2>1, <2>5 DEF RouteInv, Promise, ExecutingOrOver, Terminal
    <2> HIDE DEF to
    <2>6. Promise(r)'
      BY <2>2, <2>3, <2>4 DEF Promise, ExecutingOrOver
    <2> HIDE DEF t
    <2> QED
      BY <1>2, <2>2, <2>3, <2>5, <2>6, OneRequestMoves
  <1>4. CASE ~CanTransition(status[t], "executing")
    BY <1>1, <1>2, <1>4, RefusalInv DEF ResumeDecides
  <1> QED
    BY <1>3, <1>4

LEMMA RouteNextInv == RouteInv /\ [RouteNext]_routeVars => RouteInv'
  <1> SUFFICES ASSUME RouteInv, [RouteNext]_routeVars PROVE RouteInv'
    OBVIOUS
  <1>1. [Next]_vars
    BY RouteIsLoopStep DEF RouteInv, IndInv
  <1>2. CASE UNCHANGED request
    <2>1. IndInv'
      BY <1>1, NextInv DEF RouteInv
    <2>2. \A r \in Request : Promise(r)'
      BY <1>1, <1>2, PromiseKept DEF RouteInv, IndInv
    <2>3. RouteTypeOK' /\ ResumedOnce'
      BY <1>2 DEF RouteInv, RouteTypeOK, ResumedOnce
    <2> QED
      BY <2>1, <2>2, <2>3 DEF RouteInv
  <1>3. ASSUME NEW r \in Request, Route(r) PROVE RouteInv'
    BY <1>3, CancelArrivesInv, ResumeArrivesInv, ResumeRefusedInv,
       CancelRefusedInv, CancelDecidesInv, ResumeUnreadInv, ResumeDecidesInv DEF Route
  <1> QED
    BY <1>2, <1>3 DEF RouteNext, routeVars

(* Under the routes the loop keeps its invariant, and every request knows  *)
(* enough of its task for the answer it will give.                         *)
THEOREM RouteInvariance == RouteSpec => []RouteInv
  <1>1. RouteInit => RouteInv BY RouteInitInv
  <1>2. RouteInv /\ [RouteNext]_routeVars => RouteInv' BY RouteNextInv
  <1> QED BY <1>1, <1>2, PTL DEF RouteSpec

------------------------------------------------------------------------------
(* The results.                                                            *)

(* Every request is in a state of its route.                               *)
THEOREM RouteTypeCorrect == RouteSpec => []RouteTypeOK
  <1>1. RouteInv => RouteTypeOK BY DEF RouteInv
  <1> QED BY <1>1, RouteInvariance, PTL

(* Whoever is answered "cancelled" has a task that is over.                *)
THEOREM CancelledIsTrue == RouteSpec => []CancelledIsOver
  <1>1. RouteInv => CancelledIsOver BY DEF RouteInv, Promise, CancelledIsOver
  <1> QED BY <1>1, RouteInvariance, PTL

(* A task is resumed for one request at most.                              *)
THEOREM ResumedForOne == RouteSpec => []ResumedOnce
  <1>1. RouteInv => ResumedOnce BY DEF RouteInv
  <1> QED BY <1>1, RouteInvariance, PTL

(* Every behaviour of the routes is a behaviour of the loop.               *)
THEOREM RoutesUseTheLoop == RouteSpec => LoopSpec
  <1>1. RouteInit => Init BY DEF RouteInit
  <1>2. RouteInv /\ [RouteNext]_routeVars => [Next]_vars
    BY RouteIsLoopStep DEF RouteInv, IndInv
  <1> QED BY <1>1, <1>2, RouteInvariance, PTL DEF RouteSpec, LoopSpec, Spec

------------------------------------------------------------------------------
(* Directives.                                                             *)

\* Two agents that ran together know of each other; those that run now do.
Acquainted ==
  /\ \A t, u \in Task : u \in together[t] => t \in together[u]
  /\ \A t, u \in Agents : t # u => u \in together[t]

\* The router belongs to the agent that started last: every running agent is
\* that one or ran beside it.
RouterKnown ==
  \A t \in Agents : router \in Task /\ (t = router \/ t \in together[router])

\* Only agents that run or have run publish.
Authors ==
  \A d \in Directive :
    /\ author[d] # NoTask => pc[author[d]] \in {"loop", "done"}
    /\ author[d] = NoTask => shownTo[d] = NoTask

\* A buffered directive has not been shown, and every agent that might drain
\* it is its author or ran beside its author.
Buffered ==
  \A d \in buffer :
    /\ author[d] # NoTask
    /\ shownTo[d] = NoTask
    /\ \A t \in Agents : author[d] = t \/ author[d] \in together[t]

\* What an agent that has the loop to itself has published is shown or
\* buffered.
NothingDropped ==
  \A d \in Directive :
    author[d] \in Agents /\ together[author[d]] = {} =>
      shownTo[d] = author[d] \/ d \in buffer

DInv ==
  /\ DTypeOK
  /\ Acquainted
  /\ RouterKnown
  /\ Authors
  /\ Buffered
  /\ NothingDropped
  /\ NoLateDirective
  /\ CompletedShowsAll

------------------------------------------------------------------------------
(* The loop without the directives.                                        *)

LEMMA DirectiveStepIsLoopStep == [DNext]_<<vars, directiveVars>> => [Next]_vars
  <1> SUFFICES ASSUME [DNext]_<<vars, directiveVars>> PROVE [Next]_vars
    OBVIOUS
  <1>1. ASSUME NEW t \in Task, InnerD(t) PROVE [Next]_vars
    BY <1>1 DEF InnerD, ToolDirectives, Next, Inner
  <1> QED
    BY <1>1 DEF DNext, Next

\* An agent that has started is never built again.
LEMMA StaysStarted ==
  ASSUME IndInv, [Next]_vars, NEW t \in Task, pc[t] \in {"loop", "done"}
  PROVE  pc'[t] \in {"loop", "done"}
  <1>1. status[t] \in {"executing"} \cup Terminal
    BY DEF IndInv, Phase, Terminal
  <1>2. ASSUME NEW u \in Task, Inner(u) PROVE pc'[t] \in {"loop", "done"}
    BY <1>2 DEF IndInv, TypeOK, Inner, Dispatch, DispatchCrash, PlanningDone,
       PlanningAbandoned, StartAgent, StartMention, Iterate, Finish, Throw
  <1>3. ASSUME NEW u \in Task, Resumption(u) PROVE pc'[t] \in {"loop", "done"}
    <2>1. ASSUME NEW turns \in {<<>>, <<u>>}, ResumeReplay(u, turns)
          PROVE  pc'[t] \in {"loop", "done"}
      <3>1. ~CanTransition(status[t], "executing")
        BY <1>1 DEF CanTransition, VALID_TRANSITIONS, Terminal
      <3>2. pc'[t] = pc[t]
        BY <2>1, <3>1 DEF IndInv, TypeOK, ResumeReplay
      <3> QED
        BY <3>2
    <2> QED
      BY <1>3, <2>1 DEF Resumption, ResumeFailed
  <1>4. ASSUME Outer PROVE pc'[t] \in {"loop", "done"}
    <2>1. ASSUME NEW s \in Session, NEW u \in Task, CreateTask(s, u)
          PROVE  pc'[t] \in {"loop", "done"}
      BY <1>1, <2>1 DEF IndInv, TypeOK, CreateTask, Absent, Terminal
    <2> QED
      BY <1>4, <2>1 DEF Outer, EnqueueMessage, Cancel, CancelAll, CancelTargets,
         Shutdown, EvictCompleted, ResumeTask
  <1> QED
    BY <1>2, <1>3, <1>4 DEF Next, vars

\* Apart from the start of an agent, no step brings one about; apart from its
\* end, none completes a task whose agent has started.
LEMMA QuietStep ==
  ASSUME IndInv,
         \/ Outer
         \/ \E t \in Task : Resumption(t)
         \/ \E t \in Task : \/ Throw(t) \/ Dispatch(t) \/ DispatchCrash(t)
                            \/ PlanningDone(t) \/ PlanningAbandoned(t)
         \/ UNCHANGED vars
  PROVE  /\ Agents' \subseteq Agents
         /\ \A t \in Task : status'[t] = "completed" => status[t] = "completed"
  <1>1. ASSUME Outer PROVE UNCHANGED pc \/ \E s \in Session, t \in Task : CreateTask(s, t)
    BY <1>1 DEF Outer, EnqueueMessage, Cancel, CancelAll, CancelTargets, Shutdown,
       EvictCompleted, ResumeTask
  <1>2. Agents' \subseteq Agents
    <2>1. ASSUME NEW s \in Session, NEW t \in Task, CreateTask(s, t)
          PROVE  Agents' \subseteq Agents
      BY <2>1 DEF CreateTask, Agents, IndInv, TypeOK
    <2>2. ASSUME NEW t \in Task, Resumption(t) PROVE Agents' \subseteq Agents
      <3>1. ASSUME NEW turns \in {<<>>, <<t>>}, ResumeReplay(t, turns)
            PROVE  Agents' \subseteq Agents
        BY <3>1 DEF ResumeReplay, Agents, IndInv, TypeOK
      <3> QED
        BY <2>2, <3>1 DEF Resumption, ResumeFailed, Agents
    <2>3. ASSUME NEW t \in Task, \/ Throw(t) \/ Dispatch(t) \/ DispatchCrash(t)
                                 \/ PlanningDone(t) \/ PlanningAbandoned(t)
          PROVE  Agents' \subseteq Agents
      BY <2>3 DEF Throw, Dispatch, DispatchCrash, PlanningDone, PlanningAbandoned,
         Agents, IndInv, TypeOK
    <2>4. ASSUME UNCHANGED pc PROVE Agents' \subseteq Agents
      BY <2>4 DEF Agents
    <2> QED
      BY <1>1, <2>1, <2>2, <2>3, <2>4 DEF vars
  <1>3. ASSUME NEW u \in Task, status'[u] = "completed" PROVE status[u] = "completed"
    <2>1. ASSUME NEW T, CancelTargets(T) PROVE status[u] = "completed"
      BY <1>3, <2>1 DEF CancelTargets, FailOrKeep
    <2>2. ASSUME NEW s \in Session, NEW t \in Task, CreateTask(s, t)
          PROVE  status[u] = "completed"
      BY <1>3, <2>2 DEF CreateTask, IndInv, TypeOK
    <2>3. ASSUME Outer PROVE status[u] = "completed"
      BY <1>3, <2>1, <2>2, <2>3 DEF Outer, EnqueueMessage, Cancel, CancelAll,
         Shutdown, EvictCompleted, ResumeTask
    <2>4. ASSUME NEW t \in Task, Resumption(t) PROVE status[u] = "completed"
      <3>1. ASSUME NEW turns \in {<<>>, <<t>>}, ResumeReplay(t, turns)
            PROVE  status[u] = "completed"
        BY <1>3, <3>1 DEF ResumeReplay, IndInv, TypeOK
      <3> QED
        BY <1>3, <2>4, <3>1 DEF Resumption, ResumeFailed
    <2>5. ASSUME NEW t \in Task, \/ Throw(t) \/ Dispatch(t) \/ DispatchCrash(t)
                                 \/ PlanningDone(t) \/ PlanningAbandoned(t)
          PROVE  status[u] = "completed"
      BY <1>3, <2>5 DEF Throw, Dispatch, DispatchCrash, PlanningDone,
         PlanningAbandoned, CatchError, FailOrKeep, IndInv, TypeOK
    <2> QED
      BY <1>3, <2>3, <2>4, <2>5 DEF vars
  <1> QED
    BY <1>2, <1>3

------------------------------------------------------------------------------
(* The routing.                                                            *)

LEMMA DInitInv == DInit => IndInv /\ DInv
  <1> SUFFICES ASSUME DInit PROVE IndInv /\ DInv
    OBVIOUS
  <1>1. IndInv
    BY InitInv DEF DInit
  <1>2. DTypeOK
    BY DEF DInit, DTypeOK
  <1>3. Agents = {}
    BY DEF DInit, Init, Agents
  <1>4. Acquainted /\ RouterKnown /\ Authors /\ Buffered /\ NothingDropped
    BY <1>3 DEF DInit, Acquainted, RouterKnown, Authors, Buffered, NothingDropped
  <1>5. NoLateDirective
    BY DEF DInit, NoLateDirective
  <1>6. CompletedShowsAll
    BY DEF DInit, CompletedShowsAll
  <1> QED
    BY <1>1, <1>2, <1>4, <1>5, <1>6 DEF DInv

\* The authors of an invariant state are tasks.
LEMMA AuthorFacts ==
  ASSUME DTypeOK, Authors, NEW d \in Directive, author[d] # NoTask
  PROVE  author[d] \in Task /\ pc[author[d]] \in {"loop", "done"}
  BY DEF DTypeOK, Authors

\* A task whose agent has ended completed or failed, and fails no more.
LEMMA CompletedIsDone ==
  ASSUME IndInv, NEW t \in Task, status[t] = "completed", pc[t] \in {"loop", "done"}
  PROVE  pc[t] = "done"
  BY DEF IndInv, Phase

LEMMA QuietInv ==
  ASSUME IndInv, DInv, [Next]_vars, UNCHANGED directiveVars,
         Agents' \subseteq Agents,
         \A t \in Task : status'[t] = "completed" => status[t] = "completed"
  PROVE  DInv'
  <1> USE DEF DInv, directiveVars
  <1>1. DTypeOK' /\ NoLateDirective'
    BY DEF DTypeOK, NoLateDirective
  <1>2. (Acquainted /\ RouterKnown /\ Buffered /\ NothingDropped)'
    BY DEF Acquainted, RouterKnown, Buffered, NothingDropped
  <1>3. Authors'
    BY StaysStarted, AuthorFacts DEF Authors
  <1>4. CompletedShowsAll'
    BY AuthorFacts DEF CompletedShowsAll
  <1> QED
    BY <1>1, <1>2, <1>3, <1>4

\* An agent starts with a router of its own and meets all that run.
LEMMA NewRouterInv ==
  ASSUME IndInv, DInv, [Next]_vars,
         NEW t \in Task, NEW D \in SUBSET Directive, NewRouter(t, D),
         pc[t] = "build", pc' = [pc EXCEPT ![t] = "loop"], status' = status
  PROVE  DInv'
  <1> USE DEF DInv, NewRouter, Publish
  <1>1. Agents' = Agents \cup {t} /\ t \notin Agents
    BY DEF Agents, IndInv, TypeOK
  <1>2. t # NoTask
    BY NoTaskAssumption
  <1>3. DTypeOK'
    <2>1. Agents \subseteq Task /\ Directive = Realtime \cup Checkpoint
      BY DEF Agents, Directive
    <2> QED
      BY <2>1 DEF DTypeOK
  <1>4. Acquainted'
    BY <1>1 DEF Acquainted, DTypeOK, Agents
  <1>5. RouterKnown'
    BY <1>1 DEF RouterKnown, DTypeOK, Agents
  <1>6. \A d \in Directive : author[d] # NoTask => author[d] # t
    BY AuthorFacts
  <1>7. Authors'
    BY <1>2, <1>6, StaysStarted, AuthorFacts, DeliveryAssumption
       DEF Authors, IndInv, TypeOK, DTypeOK
  <1>8. Buffered'
    BY <1>1, <1>2, DeliveryAssumption DEF Buffered, Authors, DTypeOK, Directive, Agents
  <1>9. NothingDropped'
    <2> SUFFICES ASSUME NEW d \in Directive, author'[d] \in Agents',
                        together'[author'[d]] = {}
                 PROVE  shownTo'[d] = author'[d] \/ d \in buffer'
      BY DEF NothingDropped
    <2>1. CASE d \in D
      BY <2>1 DEF Directive
    <2>2. CASE d \notin D
      <3>1. author'[d] = author[d] /\ author[d] \in Agents /\ author[d] # t
        BY <1>1, <1>2, <1>6, <2>2 DEF Agents, DTypeOK
      <3>2. t \in together'[author[d]]
        BY <3>1 DEF Agents, DTypeOK
      <3> QED
        BY <3>1, <3>2
    <2> QED
      BY <2>1, <2>2
  <1>10. NoLateDirective'
    BY DEF NoLateDirective, DTypeOK, Authors
  <1>11. CompletedShowsAll'
    BY <1>6, AuthorFacts DEF CompletedShowsAll, DTypeOK, IndInv, Phase
  <1> QED
    BY <1>3, <1>4, <1>5, <1>7, <1>8, <1>9, <1>10, <1>11

\* A running agent publishes on the router there is.
LEMMA PublishInv ==
  ASSUME IndInv, DInv, [Next]_vars,
         NEW t \in Task, NEW D \in SUBSET Directive,
         Publish(t, D, router, buffer), UNCHANGED together,
         pc[t] = "loop", pc' = pc, status' = status
  PROVE  DInv'
  <1> USE DEF DInv, Publish
  <1>1. Agents' = Agents /\ t \in Agents
    BY DEF Agents
  <1>2. t # NoTask /\ router \in Task /\ router # NoTask
    BY <1>1, NoTaskAssumption DEF RouterKnown
  <1>3. DTypeOK'
    BY DEF DTypeOK, Directive
  <1>4. Acquainted' /\ RouterKnown'
    BY <1>1 DEF Acquainted, RouterKnown
  <1>5. Authors'
    BY <1>2 DEF Authors, DTypeOK
  <1>6. Buffered'
    <2> SUFFICES ASSUME NEW d \in buffer'
                 PROVE  /\ author'[d] # NoTask
                        /\ shownTo'[d] = NoTask
                        /\ \A u \in Agents : author'[d] = u \/ author'[d] \in together[u]
      BY <1>1 DEF Buffered
    <2>1. CASE d \in D /\ d \in Checkpoint
      <3>1. d \in Directive /\ d \notin Realtime /\ author'[d] = t /\ shownTo'[d] = shownTo[d]
        BY <2>1, DeliveryAssumption DEF Directive
      <3>2. shownTo[d] = NoTask
        BY <2>1, <3>1 DEF Authors
      <3>3. \A u \in Agents : t = u \/ t \in together[u]
        BY <1>1 DEF Acquainted, Agents
      <3> QED
        BY <1>2, <3>1, <3>2, <3>3
    <2>2. CASE d \in buffer
      <3>1. d \in Directive /\ author[d] # NoTask
        BY <2>2 DEF Buffered, DTypeOK, Directive
      <3>2. d \notin D /\ author'[d] = author[d] /\ shownTo'[d] = shownTo[d]
        BY <3>1
      <3> QED
        BY <2>2, <3>2 DEF Buffered
    <2> QED
      BY <2>1, <2>2
  <1>7. NothingDropped'
    <2> SUFFICES ASSUME NEW d \in Directive, author'[d] \in Agents,
                        together[author'[d]] = {}
                 PROVE  shownTo'[d] = author'[d] \/ d \in buffer'
      BY <1>1 DEF NothingDropped
    <2>1. CASE d \in D
      <3>1. author'[d] = t /\ together[t] = {}
        BY <2>1
      <3>2. t = router
        BY <1>1, <1>2, <3>1 DEF RouterKnown, Acquainted
      <3> QED
        BY <2>1, <3>1, <3>2 DEF Directive
    <2>2. CASE d \notin D
      BY <2>2 DEF NothingDropped
    <2> QED
      BY <2>1, <2>2
  <1>8. NoLateDirective'
    <2> SUFFICES ASSUME NEW d \in Directive, shownTo'[d] # NoTask
                 PROVE  author'[d] = shownTo'[d] \/ author'[d] \in together[shownTo'[d]]
      BY DEF NoLateDirective
    <2>1. CASE d \in D
      <3>1. author[d] = NoTask /\ shownTo[d] = NoTask
        BY <2>1 DEF Authors
      <3>2. author'[d] = t /\ shownTo'[d] = router
        BY <2>1, <3>1
      <3> QED
        BY <1>1, <3>2 DEF RouterKnown
    <2>2. CASE d \notin D
      BY <2>2 DEF NoLateDirective
    <2> QED
      BY <2>1, <2>2
  <1>9. CompletedShowsAll'
    <2> SUFFICES ASSUME NEW d \in Directive, author'[d] # NoTask,
                        status[author'[d]] = "completed", together[author'[d]] = {}
                 PROVE  shownTo'[d] = author'[d]
      BY DEF CompletedShowsAll
    <2>1. CASE d \in D
      BY <2>1, CompletedIsDone
    <2>2. CASE d \notin D
      BY <2>2 DEF CompletedShowsAll
    <2> QED
      BY <2>1, <2>2
  <1> QED
    BY <1>3, <1>4, <1>5, <1>6, <1>7, <1>8, <1>9

\* An agent returns, and what is buffered goes to its task.
LEMMA DrainInv ==
  ASSUME IndInv, DInv, [Next]_vars,
         NEW t \in Task, DrainCheckpointBuffer(t),
         pc[t] = "loop", pc' = [pc EXCEPT ![t] = "done"],
         \A u \in Task \ {t} : status'[u] = status[u]
  PROVE  DInv'
  <1> USE DEF DInv, DrainCheckpointBuffer
  <1>1. Agents' = Agents \ {t} /\ t \in Agents
    BY DEF Agents, IndInv, TypeOK
  <1>2. \A d \in buffer : d \in Directive /\ (author[d] = t \/ author[d] \in together[t])
    BY <1>1 DEF Buffered, DTypeOK, Directive
  <1>3. DTypeOK'
    BY DEF DTypeOK
  <1>4. Acquainted' /\ RouterKnown'
    BY <1>1 DEF Acquainted, RouterKnown
  <1>5. Authors'
    BY <1>2, StaysStarted, AuthorFacts DEF Authors, Buffered
  <1>6. Buffered'
    BY DEF Buffered
  <1>7. ASSUME NEW d \in buffer, author[d] # t
        PROVE  author[d] \in Task /\ together[author[d]] # {}
    BY <1>2, <1>7, AuthorFacts DEF Acquainted, Buffered
  <1>8. NothingDropped'
    <2> SUFFICES ASSUME NEW d \in Directive, author[d] \in Agents, author[d] # t,
                        together[author[d]] = {}
                 PROVE  shownTo'[d] = author[d]
      BY <1>1 DEF NothingDropped
    <2>1. d \notin buffer
      BY <1>7
    <2> QED
      BY <2>1 DEF NothingDropped
  <1>9. NoLateDirective'
    BY <1>2 DEF NoLateDirective
  <1>10. CompletedShowsAll'
    <2> SUFFICES ASSUME NEW d \in Directive, author[d] # NoTask,
                        status'[author[d]] = "completed", together[author[d]] = {}
                 PROVE  shownTo'[d] = author[d]
      BY DEF CompletedShowsAll
    <2>1. CASE d \in buffer
      BY <1>7, <2>1
    <2>2. CASE d \notin buffer /\ author[d] = t
      BY <1>1, <2>2 DEF NothingDropped
    <2>3. CASE d \notin buffer /\ author[d] # t
      BY <2>3, AuthorFacts DEF CompletedShowsAll
    <2> QED
      BY <2>1, <2>2, <2>3
  <1> QED
    BY <1>3, <1>4, <1>5, <1>6, <1>8, <1>9, <1>10

LEMMA DNextInv ==
  IndInv /\ DInv /\ [DNext]_<<vars, directiveVars>> => IndInv' /\ DInv'
  <1> SUFFICES ASSUME IndInv, DInv, [DNext]_<<vars, directiveVars>> PROVE IndInv' /\ DInv'
    OBVIOUS
  <1>1. [Next]_vars
    BY DirectiveStepIsLoopStep
  <1>2. IndInv'
    BY <1>1, NextInv
  <1>3. CASE /\ UNCHANGED directiveVars
             /\ \/ Outer
                \/ \E t \in Task : Resumption(t)
                \/ \E t \in Task : \/ Throw(t) \/ Dispatch(t) \/ DispatchCrash(t)
                                   \/ PlanningDone(t) \/ PlanningAbandoned(t)
                \/ UNCHANGED vars
    BY <1>1, <1>2, <1>3, QuietStep, QuietInv
  <1>4. ASSUME NEW t \in Task, NEW D \in SUBSET Directive,
               StartAgent(t) \/ StartMention(t), NewRouter(t, D)
        PROVE  DInv'
    BY <1>1, <1>4, NewRouterInv DEF StartAgent, StartMention
  <1>5. ASSUME NEW t \in Task, NEW D \in SUBSET Directive,
               \/ Iterate(t) /\ Publish(t, D, router, buffer) /\ UNCHANGED together
               \/ ToolDirectives(t, D)
        PROVE  DInv'
    BY <1>1, <1>5, PublishInv DEF Iterate, ToolDirectives, vars
  <1>6. ASSUME NEW t \in Task, Finish(t), DrainCheckpointBuffer(t) PROVE DInv'
    <2>1. \A u \in Task \ {t} : status'[u] = status[u]
      BY <1>6 DEF Finish, Complete, CatchError, IndInv, TypeOK
    <2> QED
      BY <1>1, <1>6, <2>1, DrainInv DEF Finish
  <1> QED
    BY <1>2, <1>3, <1>4, <1>5, <1>6 DEF DNext, InnerD

(* In every reachable state the agents that ran together know each other   *)
(* and the buffer holds only what they may show.                           *)
THEOREM DirectiveInvariance == DSpec => [](IndInv /\ DInv)
  <1>1. DInit => IndInv /\ DInv BY DInitInv
  <1>2. IndInv /\ DInv /\ [DNext]_<<vars, directiveVars>> => IndInv' /\ DInv'
    BY DNextInv
  <1> QED BY <1>1, <1>2, PTL DEF DSpec

------------------------------------------------------------------------------
(* The results.                                                            *)

(* The router, its buffer and the record of directives keep their types.   *)
THEOREM DirectivesTypeCorrect == DSpec => []DTypeOK
  <1>1. DInv => DTypeOK BY DEF DInv
  <1> QED BY <1>1, DirectiveInvariance, PTL

(* No directive reaches a task that started after its author had ended.    *)
THEOREM NoDirectiveIsLate == DSpec => []NoLateDirective
  <1>1. DInv => NoLateDirective BY DEF DInv
  <1> QED BY <1>1, DirectiveInvariance, PTL

(* A task that completed with the loop to itself has shown everything.     *)
THEOREM CompletedHasShown == DSpec => []CompletedShowsAll
  <1>1. DInv => CompletedShowsAll BY DEF DInv
  <1> QED BY <1>1, DirectiveInvariance, PTL
==============================================================================
