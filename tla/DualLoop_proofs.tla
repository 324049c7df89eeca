--------------------------- MODULE DualLoop_proofs ---------------------------
(***************************************************************************)
(* Proofs about DualLoop, for every set of tasks, sessions and messages    *)
(* and every iteration bound.                                              *)
(***************************************************************************)
EXTENDS DualLoop, TLAPS

(* Where a chain stands tells what the status of its task can be.          *)
Phase ==
  \A t \in Task :
    /\ pc[t] = "idle" => status[t] \in {Absent, "interrupted", "completed", "failed"}
    /\ pc[t] = "recall" => status[t] \in {"pending", "failed"}
    /\ pc[t] = "plan" => status[t] \in {"planning", "failed"}
    /\ pc[t] \in {"build", "loop"} => status[t] \in {"executing", "failed"}
    /\ pc[t] = "done" => status[t] \in {"completed", "failed"}

(* Task objects that exist have a session; only they are stored or resumed, *)
(* and only those that have ended may have left the store.                 *)
Known ==
  \A t \in Task :
    /\ status[t] # Absent => sessionOf[t] \in Session
    /\ t \in stored => status[t] # Absent
    /\ t \notin stored => status[t] \in {Absent, "completed", "failed"}
    /\ resuming[t] > 0 => status[t] \notin {Absent, "pending", "planning"}

(* Abort and final events come to tasks whose chain has started, and ended. *)
Started ==
  \A t \in Task :
    /\ t \in aborted => pc[t] # "idle"
    /\ t \in ctx => pc[t] # "idle" /\ status[t] # "completed"
    /\ outcome[t] # "none" => pc[t] = "done"

(* The messages of the queues and the fates agree, and nothing is lost.    *)
Accounted == QueuedOnce /\ NoSilentLoss

IndInv ==
  /\ TypeOK
  /\ Phase
  /\ Known
  /\ Started
  /\ Cancellable
  /\ NoStrandedMessage
  /\ Accounted
  /\ CancelIsFinal
  /\ HonestOutcome

------------------------------------------------------------------------------
(* The queue operations.                                                   *)

(* drainForTask empties the queues of T, touches no other queue, and gives *)
(* each drained message its fate: none is left queued, and none is lost    *)
(* when the fate of a non-empty queue is not.                              *)
LEMMA DrainFacts ==
  ASSUME TypeOK, Accounted, NEW T \in SUBSET Task,
         NEW f \in [Task -> {"delivered", "orphaned", "lost"}],
         \A t \in T : queue[t] # <<>> => f[t] # "lost",
         DrainForTask(T, f)
  PROVE  /\ queue' \in [Task -> Seq(Msg)]
         /\ fate' \in [Msg -> Fate]
         /\ \A t \in T : queue'[t] = <<>>
         /\ \A t \in Task \ T : queue'[t] = queue[t]
         /\ Accounted'
<1> DEFINE src(m) == CHOOSE t \in T : m \in Elems(queue[t])
<1>1. queue' \in [Task -> Seq(Msg)]
  BY DEF TypeOK, DrainForTask
<1>2. /\ \A t \in T : queue'[t] = <<>>
      /\ \A t \in Task \ T : queue'[t] = queue[t]
  BY DEF DrainForTask
<1>3. ASSUME NEW m \in Msg, NEW t \in T, m \in Elems(queue[t])
      PROVE  src(m) \in T /\ m \in Elems(queue[src(m)])
  BY <1>3
<1>4. \A t \in Task, m \in Msg : m \in Elems(queue[t]) => queue[t] # <<>>
  BY DEF Elems
<1>5. ASSUME NEW m \in Msg
      PROVE  IF \E t \in T : m \in Elems(queue[t])
             THEN fate'[m] \in {"delivered", "orphaned"}
             ELSE fate'[m] = fate[m]
  <2>1. CASE \E t \in T : m \in Elems(queue[t])
    <3>1. src(m) \in T /\ m \in Elems(queue[src(m)])
      BY <1>3, <2>1
    <3>2. queue[src(m)] # <<>>
      BY <1>4, <3>1
    <3>3. f[src(m)] # "lost" /\ f[src(m)] \in {"delivered", "orphaned", "lost"}
      BY <3>1, <3>2
    <3>4. fate'[m] = f[src(m)]
      BY <2>1 DEF DrainForTask
    <3> QED
      BY <2>1, <3>3, <3>4
  <2>2. CASE ~ \E t \in T : m \in Elems(queue[t])
    BY <2>2 DEF DrainForTask
  <2> QED
    BY <2>1, <2>2
<1>6. fate' \in [Msg -> Fate]
  <2>1. \A m \in Msg : fate'[m] \in Fate
    BY <1>5 DEF TypeOK, Fate
  <2>2. fate' = [m \in Msg |-> fate'[m]]
    BY DEF DrainForTask
  <2> QED
    BY <2>1, <2>2
<1>7. \A t \in T : Elems(queue'[t]) = {}
  BY <1>2 DEF Elems
<1>8. \A t \in Task \ T : Elems(queue'[t]) = Elems(queue[t])
  BY <1>2 DEF Elems
<1>9. QueuedOnce'
  <2>1. ASSUME NEW m \in Msg
        PROVE  fate'[m] = "queued" <=> \E t \in Task : m \in Elems(queue'[t])
    <3>1. fate[m] = "queued" <=> \E t \in Task : m \in Elems(queue[t])
      BY DEF Accounted, QueuedOnce
    <3>2. CASE \E t \in T : m \in Elems(queue[t])
      <4>1. fate'[m] # "queued"
        BY <1>5, <3>2
      <4>2. ASSUME NEW t \in Task \ T, m \in Elems(queue[t]) PROVE FALSE
        <5>1. PICK u \in T : m \in Elems(queue[u])
          BY <3>2
        <5>2. PICK i \in DOMAIN queue[t] : queue[t][i] = m
          BY <4>2 DEF Elems
        <5>3. PICK j \in DOMAIN queue[u] : queue[u][j] = m
          BY <5>1 DEF Elems
        <5> QED
          BY <5>2, <5>3 DEF Accounted, QueuedOnce
      <4> QED
        BY <1>7, <1>8, <4>1, <4>2
    <3>3. CASE ~ \E t \in T : m \in Elems(queue[t])
      BY <1>5, <1>7, <1>8, <3>1, <3>3
    <3> QED
      BY <3>2, <3>3
  <2>2. ASSUME NEW t \in Task, NEW u \in Task,
               NEW i \in DOMAIN queue'[t], NEW j \in DOMAIN queue'[u],
               queue'[t][i] = queue'[u][j]
        PROVE  t = u /\ i = j
    <3>1. t \notin T /\ u \notin T
      BY <1>2
    <3> QED
      BY <1>2, <2>2, <3>1 DEF Accounted, QueuedOnce
  <2> QED
    BY <2>1, <2>2 DEF QueuedOnce
<1>10. NoSilentLoss'
  BY <1>5 DEF NoSilentLoss, Accounted
<1> QED
  BY <1>1, <1>2, <1>6, <1>9, <1>10 DEF Accounted

(* Draining on termination loses nothing and draining into the session     *)
(* delivers: what DrainFacts says of the two uses the loop makes of it.    *)
LEMMA TerminationDrain ==
  ASSUME IndInv, NEW T \in SUBSET Task, DrainQueueOnTermination(T)
  PROVE  /\ queue' \in [Task -> Seq(Msg)]
         /\ fate' \in [Msg -> Fate]
         /\ \A t \in T : queue'[t] = <<>>
         /\ \A t \in Task \ T : queue'[t] = queue[t]
         /\ Accounted'
<1> DEFINE f == [t \in Task |-> IF t \in ctx THEN "orphaned" ELSE "lost"]
<1>1. f \in [Task -> {"delivered", "orphaned", "lost"}]
  OBVIOUS
<1>2. \A t \in T : queue[t] # <<>> => f[t] # "lost"
  BY DEF IndInv, NoStrandedMessage, Cancellable, Live
<1>3. DrainForTask(T, f)
  BY DEF DrainQueueOnTermination
<1> HIDE DEF f
<1> QED
  BY <1>1, <1>2, <1>3, DrainFacts DEF IndInv

\* At an iteration boundary the queue of a task is delivered whole: nothing
\* stays in it and no message of another task moves.
LEMMA SessionDrain ==
  ASSUME IndInv, NEW t \in Task, DrainIntoSession(t)
  PROVE  /\ queue' \in [Task -> Seq(Msg)]
         /\ fate' \in [Msg -> Fate]
         /\ queue'[t] = <<>>
         /\ \A u \in Task \ {t} : queue'[u] = queue[u]
         /\ Accounted'
<1> DEFINE f == [u \in Task |-> "delivered"]
<1>1. f \in [Task -> {"delivered", "orphaned", "lost"}]
  OBVIOUS
<1>2. \A u \in {t} : queue[u] # <<>> => f[u] # "lost"
  OBVIOUS
<1>3. DrainForTask({t}, f)
  BY DEF DrainIntoSession
<1> HIDE DEF f
<1> QED
  BY <1>1, <1>2, <1>3, DrainFacts DEF IndInv

(* enqueue keeps the books: the message is new to every queue.             *)
LEMMA EnqueueFacts ==
  ASSUME TypeOK, Accounted, NEW t \in Task, NEW m \in Msg,
         fate[m] = "unsent",
         queue' = [queue EXCEPT ![t] = Append(@, m)],
         fate' = [fate EXCEPT ![m] = "queued"]
  PROVE  /\ queue' \in [Task -> Seq(Msg)]
         /\ fate' \in [Msg -> Fate]
         /\ Accounted'
<1>1. queue' \in [Task -> Seq(Msg)] /\ fate' \in [Msg -> Fate]
  BY DEF TypeOK, Fate
<1>2. \A u \in Task : m \notin Elems(queue[u])
  BY DEF Accounted, QueuedOnce
<1>3. /\ queue[t] \in Seq(Msg)
      /\ queue'[t] = Append(queue[t], m)
      /\ \A u \in Task \ {t} : queue'[u] = queue[u]
  BY DEF TypeOK
<1>4. Elems(queue'[t]) = Elems(queue[t]) \cup {m}
  <2>1. DOMAIN queue[t] = 1 .. Len(queue[t]) /\ Len(queue[t]) \in Nat
    BY <1>3
  <2>2. DOMAIN queue'[t] = 1 .. (Len(queue[t]) + 1)
    BY <1>3
  <2>3. \A i \in 1 .. Len(queue[t]) : queue'[t][i] = queue[t][i]
    BY <1>3, <2>1
  <2>4. queue'[t][Len(queue[t]) + 1] = m
    BY <1>3, <2>1
  <2> QED
    BY <2>1, <2>2, <2>3, <2>4 DEF Elems
<1>5. \A n \in Msg : fate'[n] = "queued" <=> \E u \in Task : n \in Elems(queue'[u])
  <2> TAKE n \in Msg
  <2>1. \A u \in Task \ {t} : Elems(queue'[u]) = Elems(queue[u])
    BY <1>3 DEF Elems
  <2>2. fate[n] = "queued" <=> \E u \in Task : n \in Elems(queue[u])
    BY DEF Accounted, QueuedOnce
  <2>3. CASE n = m
    BY <1>4, <2>3 DEF TypeOK
  <2>4. CASE n # m
    <3>1. fate'[n] = fate[n]
      BY <2>4 DEF TypeOK
    <3> QED
      BY <1>4, <2>1, <2>2, <2>4, <3>1
  <2> QED
    BY <2>3, <2>4
<1>6. ASSUME NEW u \in Task, NEW v \in Task,
             NEW i \in DOMAIN queue'[u], NEW j \in DOMAIN queue'[v],
             queue'[u][i] = queue'[v][j]
      PROVE  u = v /\ i = j
  <2>1. DOMAIN queue[t] = 1 .. Len(queue[t]) /\ Len(queue[t]) \in Nat
    BY <1>3
  <2>2. DOMAIN queue'[t] = 1 .. (Len(queue[t]) + 1)
    BY <1>3
  <2>3. \A k \in DOMAIN queue[t] : queue'[t][k] = queue[t][k]
    BY <1>3, <2>1
  <2>4. queue'[t][Len(queue[t]) + 1] = m
    BY <1>3, <2>1
  <2>5. \A w \in Task : \A k \in DOMAIN queue[w] : queue[w][k] # m
    BY <1>2 DEF Elems
  <2>6. ASSUME NEW w \in Task, NEW k \in DOMAIN queue'[w]
        PROVE  \/ k \in DOMAIN queue[w] /\ queue'[w][k] = queue[w][k]
               \/ w = t /\ k = Len(queue[t]) + 1 /\ queue'[w][k] = m
    <3>1. CASE w = t
      BY <2>1, <2>2, <2>3, <2>4, <3>1
    <3>2. CASE w # t
      BY <1>3, <3>2
    <3> QED
      BY <3>1, <3>2
  <2>7. \A w, x \in Task : \A k \in DOMAIN queue[w], l \in DOMAIN queue[x] :
          queue[w][k] = queue[x][l] => w = x /\ k = l
    BY DEF Accounted, QueuedOnce
  <2> QED
    BY <1>6, <2>5, <2>6, <2>7
<1>7. NoSilentLoss'
  BY DEF Accounted, NoSilentLoss, TypeOK
<1> QED
  BY <1>1, <1>5, <1>6, <1>7 DEF Accounted, QueuedOnce

------------------------------------------------------------------------------
(* The invariant holds initially.                                          *)

\* The invariant holds in the state loadPersistedTasks leaves.
LEMMA InitInv == Init => IndInv
<1> SUFFICES ASSUME Init PROVE IndInv
  OBVIOUS
<1>1. TypeOK
  BY MaxIterAssumption, MaxResumeAssumption
     DEF Init, TypeOK, TaskStatus, Absent, PC, Fate
<1>2. Phase /\ Started /\ Cancellable /\ CancelIsFinal /\ HonestOutcome
  BY DEF Init, Phase, Started, Cancellable, CancelIsFinal, HonestOutcome, Live
<1>3. Known
  BY DEF Init, Known
<1>4. NoStrandedMessage
  BY DEF Init, NoStrandedMessage
<1>5. Accounted
  BY DEF Init, Accounted, QueuedOnce, NoSilentLoss, Elems
<1> QED
  BY <1>1, <1>2, <1>3, <1>4, <1>5 DEF IndInv

------------------------------------------------------------------------------
(* Every step preserves it.  RestAt(t) is what the invariant says of one   *)
(* task once the types and the books of the queues are settled; most       *)
(* actions change one task only.                                           *)

RestAt(t) ==
  /\ pc[t] = "idle" => status[t] \in {Absent, "interrupted", "completed", "failed"}
  /\ pc[t] = "recall" => status[t] \in {"pending", "failed"}
  /\ pc[t] = "plan" => status[t] \in {"planning", "failed"}
  /\ pc[t] \in {"build", "loop"} => status[t] \in {"executing", "failed"}
  /\ pc[t] = "done" => status[t] \in {"completed", "failed"}
  /\ status[t] # Absent => sessionOf[t] \in Session
  /\ t \in stored => status[t] # Absent
  /\ t \notin stored => status[t] \in {Absent, "completed", "failed"}
  /\ resuming[t] > 0 => status[t] \notin {Absent, "pending", "planning"}
  /\ t \in aborted => pc[t] # "idle"
  /\ t \in ctx => pc[t] # "idle" /\ status[t] # "completed"
  /\ outcome[t] # "none" => pc[t] = "done"
  /\ pc[t] \in Live => t \in ctx
  /\ queue[t] # <<>> => status[t] = "executing" /\ pc[t] \in {"build", "loop"}
  /\ t \in aborted => status[t] = "failed" /\ outcome[t] # "completed"
  /\ pc[t] # "idle" => (outcome[t] = "completed" <=> status[t] = "completed")

\* The invariant, task by task: what the one-task actions have to show.
LEMMA IndInvParts ==
  TypeOK => (IndInv <=> Accounted /\ \A t \in Task : RestAt(t))
BY DEF IndInv, RestAt, TypeOK, Phase, Known, Started, Cancellable,
   NoStrandedMessage, CancelIsFinal, HonestOutcome

\* The same of the next state.
LEMMA IndInvPartsNext ==
  TypeOK' => (IndInv' <=> Accounted' /\ \A t \in Task : RestAt(t)')
BY DEF IndInv, RestAt, TypeOK, Phase, Known, Started, Cancellable,
   NoStrandedMessage, CancelIsFinal, HonestOutcome

(* A step that does not touch task u keeps what is said of u.              *)
SameAt(u) ==
  /\ status'[u] = status[u] /\ sessionOf'[u] = sessionOf[u] /\ pc'[u] = pc[u]
  /\ resuming'[u] > 0 => resuming[u] > 0
  /\ outcome'[u] = outcome[u] /\ queue'[u] = queue[u]
  /\ u \in stored' => u \in stored
  /\ u \in stored /\ u \notin stored' => status[u] \in Terminal
  /\ u \in aborted' <=> u \in aborted
  /\ u \in ctx' <=> u \in ctx

\* A task whose own variables do not change keeps its part of the invariant.
LEMMA RestUntouched ==
  ASSUME NEW u \in Task, RestAt(u), SameAt(u)
  PROVE  RestAt(u)'
BY DEF RestAt, SameAt, Terminal

(* The books depend on queue and fate only.                                *)
LEMMA AccountedUnchanged ==
  ASSUME Accounted, UNCHANGED <<queue, fate>>
  PROVE  Accounted'
BY DEF Accounted, QueuedOnce, NoSilentLoss, Elems

(* How the one-task actions are proved: types, books, the task itself.     *)
LEMMA OneTask ==
  ASSUME IndInv, NEW t \in Task, TypeOK', Accounted', RestAt(t)',
         \A u \in Task \ {t} : SameAt(u)
  PROVE  IndInv'
<1>1. \A u \in Task : RestAt(u)
  BY IndInvParts DEF IndInv
<1>2. \A u \in Task : RestAt(u)'
  BY <1>1, RestUntouched
<1> QED
  BY <1>2, IndInvPartsNext


------------------------------------------------------------------------------
(* The actions.                                                            *)

\* A task processMessage creates starts with an empty queue and a context.
LEMMA CreateTaskInv ==
  ASSUME IndInv, NEW s \in Session, NEW t \in Task, CreateTask(s, t)
  PROVE  IndInv'
<1>a. TypeOK /\ Accounted /\ RestAt(t)
  BY IndInvParts DEF IndInv
<1>b. Accounted'
  BY <1>a, AccountedUnchanged DEF CreateTask
<1>1. TypeOK'
  BY <1>a DEF CreateTask, TypeOK, TaskStatus, PC
<1>2. RestAt(t)'
  BY <1>a DEF CreateTask, TypeOK, RestAt, Live, Absent, PC
<1>3. \A u \in Task \ {t} : SameAt(u)
  BY <1>a DEF CreateTask, TypeOK, SameAt
<1> QED
  BY <1>b, <1>1, <1>2, <1>3, OneTask

\* The chain starts planning, whether or not it was aborted during recall.
LEMMA DispatchInv ==
  ASSUME IndInv, NEW t \in Task, Dispatch(t)
  PROVE  IndInv'
<1>a. TypeOK /\ Accounted /\ RestAt(t)
  BY IndInvParts DEF IndInv
<1>b. Accounted'
  BY <1>a, AccountedUnchanged DEF Dispatch
<1>1. TypeOK'
  BY <1>a DEF Dispatch, TypeOK, TaskStatus, PC
<1>2. RestAt(t)'
  BY <1>a DEF Dispatch, TypeOK, RestAt, Live, Absent,
    CanTransition, VALID_TRANSITIONS, FailOrKeep
<1>3. \A u \in Task \ {t} : SameAt(u)
  BY <1>a DEF Dispatch, TypeOK, SameAt
<1> QED
  BY <1>b, <1>1, <1>2, <1>3, OneTask

\* A task cancelled during recall ends its chain before the inner loop starts.
LEMMA DispatchCrashInv ==
  ASSUME IndInv, NEW t \in Task, DispatchCrash(t)
  PROVE  IndInv'
<1>a. TypeOK /\ Accounted /\ RestAt(t)
  BY IndInvParts DEF IndInv
<1>b. /\ queue' \in [Task -> Seq(Msg)]
      /\ fate' \in [Msg -> Fate]
      /\ queue'[t] = <<>>
      /\ \A u \in Task \ {t} : queue'[u] = queue[u]
      /\ Accounted'
  BY TerminationDrain DEF DispatchCrash
<1>1. TypeOK'
  BY <1>a, <1>b DEF DispatchCrash, TypeOK, TaskStatus, PC, FailOrKeep
<1>2. RestAt(t)'
  BY <1>a, <1>b DEF DispatchCrash, TypeOK, RestAt, Live, Absent,
    CanTransition, VALID_TRANSITIONS, FailOrKeep
<1>3. \A u \in Task \ {t} : SameAt(u)
  BY <1>a, <1>b DEF DispatchCrash, TypeOK, SameAt
<1> QED
  BY <1>b, <1>1, <1>2, <1>3, OneTask

\* Planning leads to executing, unless a cancel came first.
LEMMA PlanningDoneInv ==
  ASSUME IndInv, NEW t \in Task, PlanningDone(t)
  PROVE  IndInv'
<1>a. TypeOK /\ Accounted /\ RestAt(t)
  BY IndInvParts DEF IndInv
<1>b. Accounted'
  BY <1>a, AccountedUnchanged DEF PlanningDone
<1>1. TypeOK'
  BY <1>a DEF PlanningDone, TypeOK, TaskStatus, PC
<1>2. RestAt(t)'
  BY <1>a DEF PlanningDone, TypeOK, RestAt, Live, Absent
<1>3. \A u \in Task \ {t} : SameAt(u)
  BY <1>a DEF PlanningDone, TypeOK, SameAt
<1> QED
  BY <1>b, <1>1, <1>2, <1>3, OneTask

\* A cancel during planning ends the chain; its queue was drained by cancel.
LEMMA PlanningAbandonedInv ==
  ASSUME IndInv, NEW t \in Task, PlanningAbandoned(t)
  PROVE  IndInv'
<1>a. TypeOK /\ Accounted /\ RestAt(t)
  BY IndInvParts DEF IndInv
<1>b. Accounted'
  BY <1>a, AccountedUnchanged DEF PlanningAbandoned
<1>1. TypeOK'
  BY <1>a DEF PlanningAbandoned, TypeOK, PC
<1>2. RestAt(t)'
  BY <1>a DEF PlanningAbandoned, TypeOK, RestAt, Live, Absent
<1>3. \A u \in Task \ {t} : SameAt(u)
  BY <1>a DEF PlanningAbandoned, TypeOK, SameAt
<1> QED
  BY <1>b, <1>1, <1>2, <1>3, OneTask

\* The first iteration of the agent delivers the queue.
LEMMA StartAgentInv ==
  ASSUME IndInv, NEW t \in Task, StartAgent(t)
  PROVE  IndInv'
<1>a. TypeOK /\ Accounted /\ RestAt(t)
  BY IndInvParts DEF IndInv
<1>b. /\ queue' \in [Task -> Seq(Msg)]
      /\ fate' \in [Msg -> Fate]
      /\ queue'[t] = <<>>
      /\ \A u \in Task \ {t} : queue'[u] = queue[u]
      /\ Accounted'
  BY SessionDrain DEF StartAgent
<1>c. /\ sessionOf[t] \in Session
      /\ history[sessionOf[t]] \in Seq(Entry)
      /\ queue[t] \in Seq(Entry)
      /\ Append(history[sessionOf[t]], t) \in Seq(Entry)
      /\ Append(history[sessionOf[t]], t) \o queue[t] \in Seq(Entry)
  <2>1. sessionOf[t] \in Session
    BY <1>a DEF StartAgent, RestAt, Absent
  <2>2. /\ history[sessionOf[t]] \in Seq(Entry)
        /\ queue[t] \in Seq(Entry)
        /\ t \in Entry
    BY <1>a, <2>1 DEF TypeOK, Entry
  <2> QED
    BY <2>1, <2>2
<1>1. TypeOK'
  <2>1. history' \in [Session -> Seq(Entry)]
    BY <1>a, <1>c DEF StartAgent, TypeOK
  <2>2. iter' \in [Task -> 0 .. MaxIter]
    BY <1>a, MaxIterAssumption DEF StartAgent, TypeOK
  <2> QED
    BY <1>a, <1>b, <1>c, <2>1, <2>2 DEF StartAgent, TypeOK, PC
<1>2. RestAt(t)'
  BY <1>a, <1>b, <1>c DEF StartAgent, TypeOK, RestAt, Live, Absent
<1>3. \A u \in Task \ {t} : SameAt(u)
  BY <1>a, <1>b, <1>c DEF StartAgent, TypeOK, SameAt
<1> QED
  BY <1>b, <1>1, <1>2, <1>3, OneTask

\* An @mention goes to a sub-agent and never looks at the queue.
LEMMA StartMentionInv ==
  ASSUME IndInv, NEW t \in Task, StartMention(t)
  PROVE  IndInv'
<1>a. TypeOK /\ Accounted /\ RestAt(t)
  BY IndInvParts DEF IndInv
<1>b. Accounted'
  BY <1>a, AccountedUnchanged DEF StartMention
<1>1. TypeOK'
  BY <1>a DEF StartMention, TypeOK, PC
<1>2. RestAt(t)'
  BY <1>a DEF StartMention, TypeOK, RestAt, Live, Absent
<1>3. \A u \in Task \ {t} : SameAt(u)
  BY <1>a DEF StartMention, TypeOK, SameAt
<1> QED
  BY <1>b, <1>1, <1>2, <1>3, OneTask

\* A later iteration delivers the queue.
LEMMA IterateInv ==
  ASSUME IndInv, NEW t \in Task, Iterate(t)
  PROVE  IndInv'
<1>a. TypeOK /\ Accounted /\ RestAt(t)
  BY IndInvParts DEF IndInv
<1>b. /\ queue' \in [Task -> Seq(Msg)]
      /\ fate' \in [Msg -> Fate]
      /\ queue'[t] = <<>>
      /\ \A u \in Task \ {t} : queue'[u] = queue[u]
      /\ Accounted'
  BY SessionDrain DEF Iterate
<1>c. /\ sessionOf[t] \in Session
      /\ history[sessionOf[t]] \in Seq(Entry)
      /\ queue[t] \in Seq(Entry)
      /\ Append(history[sessionOf[t]], t) \in Seq(Entry)
      /\ history[sessionOf[t]] \o queue[t] \in Seq(Entry)
  <2>1. sessionOf[t] \in Session
    BY <1>a DEF Iterate, RestAt, Absent
  <2>2. /\ history[sessionOf[t]] \in Seq(Entry)
        /\ queue[t] \in Seq(Entry)
        /\ t \in Entry
    BY <1>a, <2>1 DEF TypeOK, Entry
  <2> QED
    BY <2>1, <2>2
<1>1. TypeOK'
  <2>1. history' \in [Session -> Seq(Entry)]
    BY <1>a, <1>c DEF Iterate, TypeOK
  <2>2. iter' \in [Task -> 0 .. MaxIter]
    BY <1>a, MaxIterAssumption DEF Iterate, TypeOK
  <2> QED
    BY <1>a, <1>b, <1>c, <2>1, <2>2 DEF Iterate, TypeOK
<1>2. RestAt(t)'
  BY <1>a, <1>b, <1>c DEF Iterate, TypeOK, RestAt, Live, Absent
<1>3. \A u \in Task \ {t} : SameAt(u)
  BY <1>a, <1>b, <1>c DEF Iterate, TypeOK, SameAt
<1> QED
  BY <1>b, <1>1, <1>2, <1>3, OneTask

\* The agent returned: the task completes, and its queue is drained before
\* the context goes.
LEMMA FinishInv ==
  ASSUME IndInv, NEW t \in Task, Finish(t)
  PROVE  IndInv'
<1>a. TypeOK /\ Accounted /\ RestAt(t)
  BY IndInvParts DEF IndInv
<1>b. /\ queue' \in [Task -> Seq(Msg)]
      /\ fate' \in [Msg -> Fate]
      /\ queue'[t] = <<>>
      /\ \A u \in Task \ {t} : queue'[u] = queue[u]
      /\ Accounted'
  BY TerminationDrain DEF Finish, Complete, CatchError
<1>c. /\ status' \in [Task -> TaskStatus \cup {Absent}]
      /\ outcome' \in [Task -> {"none", "completed", "error"}]
      /\ ctx' \in SUBSET Task
  <2>1. CASE Complete(t)
    BY <1>a, <2>1 DEF TypeOK, Complete, TaskStatus
  <2>2. CASE CatchError(t)
    BY <1>a, <2>2 DEF TypeOK, CatchError, TaskStatus, FailOrKeep
  <2> QED
    BY <2>1, <2>2 DEF Finish
<1>d. /\ pc' \in [Task -> PC]
      /\ UNCHANGED <<sessionOf, stored, older, iter, aborted, history, prompt,
                     resuming, timer>>
  BY <1>a DEF Finish, TypeOK, PC
<1>1. TypeOK'
  BY <1>a, <1>b, <1>c, <1>d DEF TypeOK
<1>2. RestAt(t)'
  BY <1>a, <1>b DEF Finish, TypeOK, RestAt, Complete, CatchError, Live, Absent,
    CanTransition, VALID_TRANSITIONS, FailOrKeep
<1>3. \A u \in Task \ {t} : SameAt(u)
  BY <1>a, <1>b DEF Finish, TypeOK, SameAt, Complete, CatchError
<1> QED
  BY <1>b, <1>1, <1>2, <1>3, OneTask

\* The agent threw: the task fails, and its queue is drained before the
\* context goes.
LEMMA ThrowInv ==
  ASSUME IndInv, NEW t \in Task, Throw(t)
  PROVE  IndInv'
<1>a. TypeOK /\ Accounted /\ RestAt(t)
  BY IndInvParts DEF IndInv
<1>b. /\ queue' \in [Task -> Seq(Msg)]
      /\ fate' \in [Msg -> Fate]
      /\ queue'[t] = <<>>
      /\ \A u \in Task \ {t} : queue'[u] = queue[u]
      /\ Accounted'
  BY TerminationDrain DEF Throw, CatchError
<1>1. TypeOK'
  BY <1>a, <1>b DEF Throw, TypeOK, CatchError, TaskStatus, PC, FailOrKeep
<1>2. RestAt(t)'
  BY <1>a, <1>b DEF Throw, TypeOK, RestAt, CatchError, Live, Absent,
    CanTransition, VALID_TRANSITIONS, FailOrKeep
<1>3. \A u \in Task \ {t} : SameAt(u)
  BY <1>a, <1>b DEF Throw, TypeOK, SameAt, CatchError
<1> QED
  BY <1>b, <1>1, <1>2, <1>3, OneTask

\* resumeTask suspends at its first await with the task still interrupted.
LEMMA ResumeTaskInv ==
  ASSUME IndInv, NEW t \in Task, ResumeTask(t)
  PROVE  IndInv'
<1>a. TypeOK /\ Accounted /\ RestAt(t)
  BY IndInvParts DEF IndInv
<1>b. Accounted'
  BY <1>a, AccountedUnchanged DEF ResumeTask
<1>c. /\ resuming' \in [Task -> 0 .. MaxResume]
      /\ \A u \in Task : resuming'[u] > 0 => resuming[u] > 0 \/ u = t
  BY <1>a, MaxResumeAssumption DEF ResumeTask, TypeOK
<1>1. TypeOK'
  BY <1>a, <1>c DEF ResumeTask, TypeOK
<1>2. RestAt(t)'
  BY <1>a, <1>c DEF ResumeTask, TypeOK, RestAt, Live, Absent
<1>3. \A u \in Task \ {t} : SameAt(u)
  BY <1>a, <1>c DEF ResumeTask, TypeOK, SameAt
<1> QED
  BY <1>b, <1>1, <1>2, <1>3, OneTask

\* A transcript that cannot be read leaves the task as it was.
LEMMA ResumeFailedInv ==
  ASSUME IndInv, NEW t \in Task, ResumeFailed(t)
  PROVE  IndInv'
<1>a. TypeOK /\ Accounted /\ RestAt(t)
  BY IndInvParts DEF IndInv
<1>b. Accounted'
  BY <1>a, AccountedUnchanged DEF ResumeFailed
<1>c. /\ resuming' \in [Task -> 0 .. MaxResume]
      /\ \A u \in Task : resuming'[u] > 0 => resuming[u] > 0 \/ FALSE
  BY <1>a, MaxResumeAssumption DEF ResumeFailed, TypeOK
<1>1. TypeOK'
  BY <1>a, <1>c DEF ResumeFailed, TypeOK
<1>2. RestAt(t)'
  BY <1>a, <1>c DEF ResumeFailed, TypeOK, RestAt, Live, Absent
<1>3. \A u \in Task \ {t} : SameAt(u)
  BY <1>a, <1>c DEF ResumeFailed, TypeOK, SameAt
<1> QED
  BY <1>b, <1>1, <1>2, <1>3, OneTask

\* The replay gives the task a fresh context and starts its chain, unless
\* another call resumed it first.
LEMMA ResumeReplayInv ==
  ASSUME IndInv, NEW t \in Task, NEW turns \in {<<>>, <<t>>}, ResumeReplay(t, turns)
  PROVE  IndInv'
<1>a. TypeOK /\ Accounted /\ RestAt(t)
  BY IndInvParts DEF IndInv
<1>b. Accounted'
  BY <1>a, AccountedUnchanged DEF ResumeReplay
<1>c. /\ resuming' \in [Task -> 0 .. MaxResume]
      /\ \A u \in Task : resuming'[u] > 0 => resuming[u] > 0
  BY <1>a, MaxResumeAssumption DEF ResumeReplay, TypeOK
<1>d. sessionOf[t] \in Session /\ turns \in Seq(Entry)
  <2>1. <<t>> \in Seq(Entry) /\ <<>> \in Seq(Entry)
    BY DEF Entry
  <2>2. turns = <<>> \/ turns = <<t>>
    OBVIOUS
  <2> QED
    BY <1>a, <2>1, <2>2 DEF ResumeReplay, RestAt
<1>1. TypeOK'
  <2>1. history' \in [Session -> Seq(Entry)]
    BY <1>a, <1>d DEF ResumeReplay, TypeOK
  <2> QED
    BY <1>a, <1>c, <2>1 DEF ResumeReplay, TypeOK, TaskStatus, PC
<1>2. RestAt(t)'
  <2>1. CASE CanTransition(status[t], "executing")
    <3>1. status[t] = "interrupted" /\ pc[t] = "idle"
      <4>1. status[t] \in {"pending", "planning", "paused", "interrupted"}
        BY <2>1 DEF CanTransition, VALID_TRANSITIONS
      <4> QED
        BY <1>a, <4>1 DEF ResumeReplay, RestAt, TypeOK, PC, Absent
    <3>2. /\ status'[t] = "executing" /\ pc'[t] = "build"
          /\ t \in ctx' /\ t \notin aborted'
          /\ UNCHANGED <<sessionOf, stored, queue, outcome>>
      BY <1>a, <2>1 DEF ResumeReplay, TypeOK
    <3>3. /\ outcome[t] = "none" /\ queue[t] = <<>> /\ t \in stored
          /\ sessionOf[t] \in Session
      BY <1>a, <3>1 DEF RestAt, Absent
    <3> QED
      BY <3>2, <3>3 DEF RestAt, Live, Absent
  <2>2. CASE ~CanTransition(status[t], "executing")
    BY <1>a, <1>c, <2>2 DEF ResumeReplay, TypeOK, RestAt, Live, Absent
  <2> QED
    BY <2>1, <2>2
<1>3. \A u \in Task \ {t} : SameAt(u)
  BY <1>a, <1>c DEF ResumeReplay, TypeOK, SameAt
<1> QED
  BY <1>b, <1>1, <1>2, <1>3, OneTask

\* A message is queued for a task whose chain has still to end.
LEMMA EnqueueMessageInv ==
  ASSUME IndInv, NEW s \in Session, NEW t \in Task, NEW m \in Msg,
         EnqueueMessage(s, t, m)
  PROVE  IndInv'
<1>a. TypeOK /\ Accounted /\ RestAt(t)
  BY IndInvParts DEF IndInv
<1>b. /\ queue' \in [Task -> Seq(Msg)]
      /\ fate' \in [Msg -> Fate]
      /\ Accounted'
  BY <1>a, EnqueueFacts DEF EnqueueMessage
<1>1. TypeOK'
  BY <1>a, <1>b DEF EnqueueMessage, TypeOK
<1>2. RestAt(t)'
  <2>1. t \in stored /\ status[t] \in ActiveStatus
    BY DEF EnqueueMessage, IsActiveForSession, ActiveIn
  <2>2. status[t] = "executing" /\ pc[t] \in {"build", "loop"}
    BY <1>a, <2>1 DEF RestAt, TypeOK, ActiveStatus, PC
  <2> QED
    BY <1>a, <2>2 DEF EnqueueMessage, TypeOK, RestAt
<1>3. \A u \in Task \ {t} : SameAt(u)
  BY <1>a DEF EnqueueMessage, TypeOK, SameAt
<1> QED
  BY <1>b, <1>1, <1>2, <1>3, OneTask

(* cancel touches the tasks of T; all three of its callers pass contexts.  *)
LEMMA CancelTargetsInv ==
  ASSUME IndInv, NEW T \in SUBSET ctx, CancelTargets(T), timer' \in BOOLEAN
  PROVE  IndInv'
<1>a. TypeOK /\ Accounted /\ \A t \in Task : RestAt(t)
  BY IndInvParts DEF IndInv
<1>b. T \in SUBSET Task /\ T \cap stored \in SUBSET Task
  BY <1>a DEF TypeOK
<1>c. /\ queue' \in [Task -> Seq(Msg)]
      /\ fate' \in [Msg -> Fate]
      /\ \A u \in T \cap stored : queue'[u] = <<>>
      /\ \A u \in Task \ (T \cap stored) : queue'[u] = queue[u]
      /\ Accounted'
  BY <1>b, TerminationDrain DEF CancelTargets
<1>1. TypeOK'
  BY <1>a, <1>b, <1>c DEF CancelTargets, TypeOK, TaskStatus, FailOrKeep
<1>2. ASSUME NEW t \in Task PROVE RestAt(t)'
  <2>1. RestAt(t)
    BY <1>a
  <2>2. CASE t \notin T
    <3>1. SameAt(t)
      BY <1>a, <1>c, <2>2 DEF CancelTargets, SameAt, TypeOK
    <3> QED
      BY <2>1, <3>1, RestUntouched
  <2>3. CASE t \in T \cap stored
    <3>1. /\ status[t] \in {"pending", "planning", "executing", "failed"}
          /\ pc[t] # "idle"
          /\ outcome[t] # "completed"
      BY <1>a, <1>b, <2>1, <2>3 DEF RestAt, TypeOK, PC, Absent
    <3>2. /\ status'[t] = "failed" /\ queue'[t] = <<>>
          /\ UNCHANGED <<sessionOf, stored, pc, ctx, outcome, resuming>>
      BY <1>a, <1>b, <1>c, <2>3, <3>1
         DEF CancelTargets, TypeOK, FailOrKeep, CanTransition, VALID_TRANSITIONS
    <3>3. resuming'[t] > 0 => resuming[t] > 0
      BY <3>2
    <3> QED
      BY <2>1, <3>1, <3>2, <3>3 DEF RestAt, Absent, Live
  <2>4. CASE t \in T /\ t \notin stored
    <3>1. status[t] = "failed" /\ pc[t] # "idle" /\ outcome[t] # "completed"
      BY <1>a, <1>b, <2>1, <2>4 DEF RestAt, TypeOK, PC, Absent
    <3>2. /\ status'[t] = "failed" /\ queue'[t] = queue[t]
          /\ UNCHANGED <<sessionOf, stored, pc, ctx, outcome, resuming>>
      BY <1>a, <1>b, <1>c, <2>4, <3>1 DEF CancelTargets, TypeOK
    <3> QED
      BY <2>1, <3>1, <3>2 DEF RestAt, Absent, Live
  <2> QED
    BY <2>2, <2>3, <2>4
<1> QED
  BY <1>c, <1>1, <1>2, IndInvPartsNext

\* Eviction takes ended tasks from the store, and nothing else.
LEMMA EvictCompletedInv ==
  ASSUME IndInv, NEW T \in SUBSET Task, EvictCompleted(T)
  PROVE  IndInv'
<1>a. TypeOK /\ Accounted /\ \A t \in Task : RestAt(t)
  BY IndInvParts DEF IndInv
<1>b. Accounted'
  BY <1>a, AccountedUnchanged DEF EvictCompleted
<1>1. TypeOK'
  BY <1>a DEF EvictCompleted, TypeOK
<1>2. \A t \in Task : SameAt(t)
  BY DEF EvictCompleted, SameAt
<1> QED
  BY <1>a, <1>b, <1>1, <1>2, RestUntouched, IndInvPartsNext

------------------------------------------------------------------------------
(* The invariant is inductive.                                             *)

\* The invariant is inductive: one lemma for each action of Next.
LEMMA NextInv == IndInv /\ [Next]_vars => IndInv'
<1> SUFFICES ASSUME IndInv, [Next]_vars PROVE IndInv'
  OBVIOUS
<1>1. ASSUME Outer PROVE IndInv'
  <2>1. ASSUME NEW t \in Task, Cancel(t) PROVE IndInv'
    BY <2>1, CancelTargetsInv DEF Cancel, IndInv, TypeOK
  <2>2. ASSUME CancelAll PROVE IndInv'
    BY <2>2, CancelTargetsInv DEF CancelAll, IndInv, TypeOK
  <2>3. ASSUME Shutdown PROVE IndInv'
    BY <2>3, CancelTargetsInv DEF Shutdown, IndInv, TypeOK
  <2> QED
    BY <1>1, <2>1, <2>2, <2>3, EnqueueMessageInv, CreateTaskInv,
       EvictCompletedInv, ResumeTaskInv DEF Outer
<1>2. ASSUME NEW t \in Task, Inner(t) PROVE IndInv'
  BY <1>2, DispatchInv, DispatchCrashInv, PlanningDoneInv, PlanningAbandonedInv,
     StartAgentInv, StartMentionInv, IterateInv, FinishInv, ThrowInv DEF Inner
<1>3. ASSUME NEW t \in Task, Resumption(t) PROVE IndInv'
  BY <1>3, ResumeFailedInv, ResumeReplayInv DEF Resumption
<1>4. CASE UNCHANGED vars
  <2>1. TypeOK /\ Accounted /\ \A t \in Task : RestAt(t)
    BY IndInvParts DEF IndInv
  <2>2. TypeOK' /\ Accounted' /\ \A t \in Task : SameAt(t)
    BY <1>4, <2>1, AccountedUnchanged DEF vars, TypeOK, SameAt
  <2> QED
    BY <2>1, <2>2, RestUntouched, IndInvPartsNext
<1> QED
  BY <1>1, <1>2, <1>3, <1>4 DEF Next

\* The inductive invariant holds in every reachable state.
THEOREM Invariance == Spec => []IndInv
<1> QED
  BY InitInv, NextInv, PTL DEF Spec

------------------------------------------------------------------------------
(* The results.                                                            *)

(* Every variable keeps its type in every reachable state.                 *)
THEOREM TypeCorrect == Spec => []TypeOK
<1>1. IndInv => TypeOK
  BY DEF IndInv
<1> QED
  BY <1>1, Invariance, PTL

(* Whatever messages, cancellations, resumptions, evictions and shutdowns  *)
(* interleave with any number of inner loops, a message its sender was     *)
(* told is queued is in exactly one queue, or was delivered, or was        *)
(* announced as orphaned: drainQueueOnTermination always finds the bus.    *)
THEOREM MessagesAreSafe == Spec => [](NoSilentLoss /\ QueuedOnce)
<1>1. IndInv => NoSilentLoss /\ QueuedOnce
  BY DEF IndInv, Accounted
<1> QED
  BY <1>1, Invariance, PTL

(* A message only waits for a task that will still drain its queue.        *)
THEOREM MessagesAreNotStranded == Spec => []NoStrandedMessage
<1>1. IndInv => NoStrandedMessage
  BY DEF IndInv
<1> QED
  BY <1>1, Invariance, PTL

(* Every running chain can be cancelled by its task id.                    *)
THEOREM RunningIsCancellable == Spec => []Cancellable
<1>1. IndInv => Cancellable
  BY DEF IndInv
<1> QED
  BY <1>1, Invariance, PTL

(* A cancelled task stays failed and never announces a completion, however *)
(* late its agent returns.                                                 *)
THEOREM CancellationIsFinal == Spec => []CancelIsFinal
<1>1. IndInv => CancelIsFinal
  BY DEF IndInv
<1> QED
  BY <1>1, Invariance, PTL

(* task.completed is announced for completed tasks only.                   *)
THEOREM OutcomesAreHonest == Spec => []HonestOutcome
<1>1. IndInv => HonestOutcome
  BY DEF IndInv
<1> QED
  BY <1>1, Invariance, PTL

(* Which actions move a status, and how.                                   *)
LegalMove(t) ==
  \/ status'[t] = status[t]
  \/ status[t] = Absent /\ status'[t] = "pending"
  \/ CanTransition(status[t], status'[t])

\* fail is a legal move or none.
LEMMA FailIsLegal ==
  ASSUME NEW st PROVE FailOrKeep(st) = st \/ CanTransition(st, FailOrKeep(st))
BY DEF FailOrKeep

\* Every step moves every status along VALID_TRANSITIONS, or not at all.
LEMMA StatusMoves ==
  ASSUME TypeOK, [Next]_vars
  PROVE  \A t \in Task : LegalMove(t)
<1>1. ASSUME NEW t \in Task, Inner(t) PROVE \A u \in Task : LegalMove(u)
  <2>1. ASSUME Dispatch(t) PROVE LegalMove(t)
    BY <2>1 DEF Dispatch, LegalMove, TypeOK
  <2>2. ASSUME PlanningDone(t) PROVE LegalMove(t)
    BY <2>2 DEF PlanningDone, LegalMove, TypeOK, CanTransition, VALID_TRANSITIONS
  <2>3. ASSUME DispatchCrash(t) \/ Throw(t) PROVE LegalMove(t)
    BY <2>3, FailIsLegal DEF DispatchCrash, Throw, CatchError, LegalMove, TypeOK
  <2>4. ASSUME Finish(t) PROVE LegalMove(t)
    BY <2>4, FailIsLegal DEF Finish, Complete, CatchError, LegalMove, TypeOK
  <2>5. ASSUME PlanningAbandoned(t) \/ StartAgent(t) \/ StartMention(t) \/ Iterate(t)
        PROVE  LegalMove(t)
    BY <2>5 DEF PlanningAbandoned, StartAgent, StartMention, Iterate, LegalMove
  <2>6. \A u \in Task \ {t} : status'[u] = status[u]
    BY <1>1 DEF Inner, Dispatch, DispatchCrash, PlanningDone, PlanningAbandoned,
       StartAgent, StartMention, Iterate, Finish, Throw, Complete, CatchError, TypeOK
  <2> QED
    BY <1>1, <2>1, <2>2, <2>3, <2>4, <2>5, <2>6 DEF Inner, LegalMove
<1>2. ASSUME NEW T, CancelTargets(T) PROVE \A u \in Task : LegalMove(u)
  BY <1>2, FailIsLegal DEF CancelTargets, LegalMove
<1>3. ASSUME NEW s \in Session, NEW t \in Task, CreateTask(s, t)
      PROVE  \A u \in Task : LegalMove(u)
  BY <1>3 DEF CreateTask, LegalMove, TypeOK
<1>4. ASSUME UNCHANGED status PROVE \A u \in Task : LegalMove(u)
  BY <1>4 DEF LegalMove
<1>5. ASSUME Outer PROVE \A u \in Task : LegalMove(u)
  BY <1>2, <1>3, <1>4, <1>5 DEF Outer, EnqueueMessage, Cancel, CancelAll,
     Shutdown, EvictCompleted, ResumeTask
<1>6. ASSUME NEW t \in Task, Resumption(t) PROVE \A u \in Task : LegalMove(u)
  <2>1. ASSUME NEW turns \in {<<>>, <<t>>}, ResumeReplay(t, turns)
        PROVE  \A u \in Task : LegalMove(u)
    BY <2>1 DEF ResumeReplay, LegalMove, TypeOK
  <2> QED
    BY <1>4, <1>6, <2>1 DEF Resumption, ResumeFailed
<1> QED
  BY <1>1, <1>4, <1>5, <1>6 DEF Next, vars

(* The dual loop implements the task lifecycle: every step of it moves     *)
(* every task along VALID_TRANSITIONS or not at all.                       *)
THEOREM ImplementsLifecycle == Spec => LifecycleSpec
<1>1. Init => Lifecycle!Init
  BY DEF Init, Lifecycle!Init, Lifecycle!Restorable, Lifecycle!Absent, Absent
<1>2. ASSUME TypeOK, TypeOK', [Next]_vars PROVE [Lifecycle!Next]_status
  <2>1. \A t \in Task : LegalMove(t)
    BY <1>2, StatusMoves
  <2>2. \A t \in Task : Lifecycle!LegalStep(status[t], status'[t])
    BY <2>1 DEF LegalMove, Lifecycle!LegalStep, Lifecycle!Absent, Absent,
       Lifecycle!CanTransition, CanTransition, Lifecycle!VALID_TRANSITIONS,
       VALID_TRANSITIONS
  <2>3. status' \in [Task -> Lifecycle!TaskStatus \cup {Lifecycle!Absent}]
    BY <1>2 DEF TypeOK, TaskStatus, Lifecycle!TaskStatus, Absent, Lifecycle!Absent
  <2> QED
    BY <2>2, <2>3 DEF Lifecycle!Next
<1> QED
  BY <1>1, <1>2, TypeCorrect, PTL DEF Spec, LifecycleSpec, Lifecycle!Spec

==============================================================================
