-------------------------- MODULE StreamingExecutor --------------------------
(***************************************************************************)
(* StreamingToolExecutor of src/streaming-executor.ts.  Tool calls are     *)
(* added while the LLM streams and run as early as the rules allow: safe   *)
(* tools beside each other, any other tool alone.  Their results are       *)
(* polled during the stream and drained after it, in the order of the      *)
(* calls.  Calls are numbered in the order they are added.                 *)
(*                                                                         *)
(* An action is what runs between two awaits (or yields).  at names where  *)
(* the drain generator stands:                                             *)
(*                                                                         *)
(*   stream  not started, the LLM still streams                            *)
(*   top     the while condition                                           *)
(*   yield   a yield, with the rest of a batch still to hand out           *)
(*   race    Promise.race over the tools in racing                         *)
(*   end     returned                                                      *)
(*   threw   a raced promise was rejected                                  *)
(***************************************************************************)
EXTENDS Naturals, Sequences, FiniteSets

CONSTANTS
  N,       \* bound: tool calls of one response
  Rejects  \* may executeFn reject instead of resolving with an error result?

ASSUME NAssumption == N \in Nat
ASSUME RejectsAssumption == Rejects \in BOOLEAN

VARIABLES
  safe,      \* isConcurrencySafe of each call
  added,     \* calls added so far
  tool,      \* status of each call; "none" before it is added
  rejected,  \* calls whose promise was rejected
  at,        \* where drain stands
  batch,     \* results drain took and has not yielded yet
  racing,    \* calls whose promises drain waits for
  out        \* results handed to the caller, each named by its call

vars == <<safe, added, tool, rejected, at, batch, racing, out>>

Call == 1 .. N
ToolStatus == {"none", "queued", "executing", "completed", "yielded"}

Ended == {"completed", "yielded"}

Executing(ts) == {i \in Call : ts[i] = "executing"}

\* Mutant: queued tools are not looked at in canExecute.
StartableOvertakes(ts) ==
  {i \in Call :
     /\ ts[i] = "queued"
     /\ IF safe[i]
        THEN \A j \in Executing(ts) : safe[j]
        ELSE /\ Executing(ts) = {}
             /\ \A j \in 1 .. (i - 1) : ts[j] # "queued"}

\* The calls a pass of processQueue over ts starts.  A safe tool starts when
\* only safe tools execute, unless a queued unsafe one stands before it; an
\* unsafe tool starts when nothing executes and nothing is queued before it.
Startable(ts) ==
  {i \in Call :
     /\ ts[i] = "queued"
     /\ IF safe[i]
        THEN /\ \A j \in Executing(ts) : safe[j]
             /\ \A j \in 1 .. (i - 1) : ts[j] = "queued" => safe[j]
        ELSE /\ Executing(ts) = {}
             /\ \A j \in 1 .. (i - 1) : ts[j] # "queued"}

ProcessQueue(ts) ==
  [i \in Call |-> IF i \in Startable(ts) THEN "executing" ELSE ts[i]]

\* Mutant: getCompletedResults skips what is not completed.
ReadySkips(ts) == {i \in Call : ts[i] = "completed"}

\* The results getCompletedResults takes: up to the first tool that has
\* neither completed nor been yielded.
Ready(ts) ==
  {i \in Call : ts[i] = "completed" /\ \A j \in 1 .. i : ts[j] \in Ended}

\* The calls in S from first to last: the k-th has k in S up to itself.
InOrder(S) ==
  [k \in 1 .. Cardinality(S) |->
     CHOOSE i \in S : Cardinality({j \in S : j <= i}) = k]

Taken(ts) == [i \in Call |-> IF i \in Ready(ts) THEN "yielded" ELSE ts[i]]

Init ==
  /\ safe \in [Call -> BOOLEAN]
  /\ added = 0
  /\ tool = [i \in Call |-> "none"]
  /\ rejected = {}
  /\ at = "stream"
  /\ batch = <<>>
  /\ racing = {}
  /\ out = <<>>

------------------------------------------------------------------------------
\* addTool: the tool_use block of the next call is complete.
AddTool ==
  /\ at = "stream"
  /\ added < N
  /\ added' = added + 1
  /\ tool' = ProcessQueue([tool EXCEPT ![added + 1] = "queued"])
  /\ UNCHANGED <<safe, rejected, at, batch, racing, out>>

\* Mutant: a completion does not look at the queue.
CompletedNoCascade(i) ==
  /\ tool[i] = "executing"
  /\ i \notin rejected
  /\ tool' = [tool EXCEPT ![i] = "completed"]
  /\ UNCHANGED <<safe, added, rejected, at, batch, racing, out>>

\* The promise of executeFn resolved; the cascade starts what may now run.
Completed(i) ==
  /\ tool[i] = "executing"
  /\ i \notin rejected
  /\ tool' = ProcessQueue([tool EXCEPT ![i] = "completed"])
  /\ UNCHANGED <<safe, added, rejected, at, batch, racing, out>>

\* The promise of executeFn was rejected: the status stays "executing".
Rejected(i) ==
  /\ Rejects
  /\ tool[i] = "executing"
  /\ i \notin rejected
  /\ rejected' = rejected \cup {i}
  /\ UNCHANGED <<safe, added, tool, at, batch, racing, out>>

\* getCompletedResults, called by the consumer of the stream.
GetCompletedResults ==
  /\ at = "stream"
  /\ Ready(tool) # {}
  /\ tool' = Taken(tool)
  /\ out' = out \o InOrder(Ready(tool))
  /\ UNCHANGED <<safe, added, rejected, at, batch, racing>>

------------------------------------------------------------------------------
(* drain                                                                   *)

Drain ==
  /\ at = "stream"
  /\ at' = "top"
  /\ UNCHANGED <<safe, added, tool, rejected, batch, racing, out>>

\* Mutant: drain looks only at what runs or waits.
PendingRunning == \E i \in 1 .. added : tool[i] \in {"queued", "executing"}

\* hasPendingTools
Pending == \E i \in 1 .. added : tool[i] # "yielded"

\* Wait for the tools executing in ts, or go round at once if there are none.
Await(ts) ==
  IF Executing(ts) = {}
  THEN /\ tool' = ProcessQueue(ts)
       /\ at' = "top"
       /\ UNCHANGED racing
  ELSE /\ tool' = ts
       /\ at' = "race"
       /\ racing' = Executing(ts)

\* The loop takes the results at the front of the queue.
TakeBatch ==
  /\ at = "top"
  /\ Pending
  /\ batch' = InOrder(Ready(tool))
  /\ IF Ready(tool) = {}
     THEN Await(tool)
     ELSE /\ tool' = Taken(tool)
          /\ at' = "yield"
          /\ UNCHANGED racing
  /\ UNCHANGED <<safe, added, rejected, out>>

\* The consumer receives the next result of the batch.
Yield ==
  /\ at = "yield"
  /\ batch # <<>>
  /\ out' = Append(out, Head(batch))
  /\ batch' = Tail(batch)
  /\ UNCHANGED <<safe, added, tool, rejected, at, racing>>

\* The consumer asks again after the last result of the batch.
BatchDone ==
  /\ at = "yield"
  /\ batch = <<>>
  /\ Await(tool)
  /\ UNCHANGED <<safe, added, rejected, batch, out>>

\* One of the raced tools has completed.
RaceWon ==
  /\ at = "race"
  /\ \E i \in racing : tool[i] \in Ended
  /\ tool' = ProcessQueue(tool)
  /\ at' = "top"
  /\ racing' = {}
  /\ UNCHANGED <<safe, added, rejected, batch, out>>

\* Mutant: only the fulfilment of a raced promise is looked at.
RaceLostIgnored ==
  /\ at = "race"
  /\ racing \cap rejected # {}
  /\ UNCHANGED vars

\* One of the raced promises was rejected: drain throws.
RaceLost ==
  /\ at = "race"
  /\ racing \cap rejected # {}
  /\ at' = "threw"
  /\ racing' = {}
  /\ UNCHANGED <<safe, added, tool, rejected, batch, out>>

\* Everything has been yielded.
Return ==
  /\ at = "top"
  /\ ~Pending
  /\ at' = "end"
  /\ UNCHANGED <<safe, added, tool, rejected, batch, racing, out>>

Draining == TakeBatch \/ Yield \/ BatchDone \/ RaceWon \/ RaceLost \/ Return

Next ==
  \/ AddTool
  \/ GetCompletedResults
  \/ Drain
  \/ Draining
  \/ \E i \in Call : Completed(i) \/ Rejected(i)

Spec == Init /\ [][Next]_vars

\* Tools settle (their executors time out), the stream ends, and the
\* consumer of drain keeps asking.
Fairness ==
  /\ WF_vars(Drain)
  /\ WF_vars(Draining)
  /\ \A i \in Call : WF_vars(Completed(i) \/ Rejected(i))

FairSpec == Spec /\ Fairness

------------------------------------------------------------------------------
(* Properties.                                                             *)

TypeOK ==
  /\ safe \in [Call -> BOOLEAN]
  /\ added \in 0 .. N
  /\ tool \in [Call -> ToolStatus]
  /\ rejected \subseteq Call
  /\ at \in {"stream", "top", "yield", "race", "end", "threw"}
  /\ batch \in Seq(Call)
  /\ racing \subseteq Call
  /\ out \in Seq(Call)

Started(i) == tool[i] \in {"executing"} \cup Ended

(* "Concurrency-safe tools execute in parallel; non-safe tools execute     *)
(* serially and block subsequent tools until complete": of two calls that  *)
(* are not both safe, the later one starts only when the earlier one has   *)
(* completed, whatever the order of additions, completions and polls.      *)
Barrier ==
  \A i, j \in Call :
    i < j /\ ~(safe[i] /\ safe[j]) /\ Started(j) => tool[i] \in Ended

(* Some tool is always running while one is queued: no sequence of         *)
(* additions, completions and rejections leaves the queue waiting for a    *)
(* pass of processQueue nobody will make.                                  *)
NeverIdle ==
  (\E i \in Call : tool[i] = "queued") => Executing(tool) # {}

(* "wait for all tools to complete and yield results in order": when drain *)
(* has returned, polls and drain together have handed out every call.      *)
AllDelivered == at = "end" => out = [i \in 1 .. added |-> i]

(* "Results are always yielded in the original order, regardless of        *)
(* completion order", polled and drained results together: the executor    *)
(* implements OrderedDelivery.                                             *)
Delivery == INSTANCE OrderedDelivery WITH
  done <- {i \in Call : tool[i] \in Ended}
DeliverySpec == Delivery!Spec

(* drain always comes to an end, and returns unless a tool was rejected.   *)
DrainEnds == at = "top" ~> at = "end" \/ (at = "threw" /\ rejected # {})
==============================================================================
