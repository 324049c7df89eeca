----------------------- MODULE StreamingExecutor_proofs ----------------------
(***************************************************************************)
(* Proofs about StreamingExecutor, for any number of calls of any safety:  *)
(* unsafe calls run alone and in order, and the queue never stalls, which  *)
(* follows from what one pass of processQueue does; results are delivered  *)
(* once, in order and all of them; and the set of calls a pass starts is   *)
(* the one the loop of processQueue arrives at.                            *)
(***************************************************************************)
EXTENDS MCStreamingExecutor, TLAPS, WellFoundedInduction, FiniteSetTheorems

\* The types of the variables the scheduling depends on.
QueueType ==
  /\ safe \in [Call -> BOOLEAN]
  /\ added \in 0 .. N
  /\ tool \in [Call -> ToolStatus]

\* The first n calls have been added.
AddedUpTo(ts, n) == \A i \in Call : ts[i] = "none" <=> i > n

\* Barrier of any statuses ts.
Ordered(ts) ==
  \A i, j \in Call :
    i < j /\ ~(safe[i] /\ safe[j]) /\ ts[j] \in {"executing"} \cup Ended
      => ts[i] \in Ended

\* NeverIdle of any statuses ts.
Busy(ts) == (\E i \in Call : ts[i] = "queued") => Executing(ts) # {}

Good(ts, n) == AddedUpTo(ts, n) /\ Ordered(ts)

IndInv == QueueType /\ Good(tool, added) /\ Busy(tool)

USE DEF Call, ToolStatus, Ended

\* A non-empty set of calls has a first one.
LEMMA FirstCall ==
  ASSUME NEW S \in SUBSET Call, S # {}
  PROVE  \E i \in S : \A j \in S : i <= j
<1>1. S \subseteq Nat
  BY NAssumption
<1>2. \E i \in S : \A j \in S : ~(<<j, i>> \in OpToRel(<, Nat))
  BY <1>1, NatLessThanWellFounded, WFMin
<1>3. PICK i \in S : \A j \in S : ~(<<j, i>> \in OpToRel(<, Nat))
  BY <1>2
<1>4. \A j \in S : ~(j < i)
  BY <1>1, <1>3 DEF OpToRel
<1> QED BY <1>1, <1>4, NAssumption

\* A pass of processQueue keeps the order of unsafe calls, and leaves nothing
\* queued unless something executes.
LEMMA PassFacts ==
  ASSUME NAssumption, safe \in [Call -> BOOLEAN],
         NEW n \in 0 .. N, NEW ts \in [Call -> ToolStatus], Good(ts, n)
  PROVE  /\ ProcessQueue(ts) \in [Call -> ToolStatus]
         /\ Good(ProcessQueue(ts), n)
         /\ Busy(ProcessQueue(ts))
<1> DEFINE ps == ProcessQueue(ts)
<1>1. /\ ps \in [Call -> ToolStatus]
      /\ \A i \in Call : ps[i] = IF i \in Startable(ts) THEN "executing" ELSE ts[i]
  BY DEF ProcessQueue
<1>2. AddedUpTo(ps, n)
  BY <1>1 DEF Good, AddedUpTo, Startable
<1>3. ASSUME NEW i \in Call, NEW j \in Call, i < j, ~(safe[i] /\ safe[j]),
             ps[j] \in {"executing"} \cup Ended
      PROVE  ps[i] \in Ended
  <2>1. ts[i] # "none"
    <3>1. ts[j] # "none"
      BY <1>1, <1>3 DEF Startable
    <3> QED BY <1>3, <3>1, NAssumption DEF Good, AddedUpTo
  <2>2. i \in 1 .. (j - 1)
    BY <1>3, NAssumption
  <2>3. CASE j \in Startable(ts)
    <3>1. ts[i] # "queued" /\ ts[i] # "executing"
      BY <1>3, <2>2, <2>3 DEF Startable, Executing
    <3> QED BY <1>1, <2>1, <3>1 DEF Startable
  <2>4. CASE j \notin Startable(ts)
    <3>1. ts[i] \in Ended
      BY <1>1, <1>3, <2>4 DEF Good, Ordered
    <3> QED BY <1>1, <3>1 DEF Startable
  <2> QED BY <2>3, <2>4
<1>4. ASSUME NEW q \in Call, ps[q] = "queued", Executing(ps) = {}
      PROVE  FALSE
  <2> DEFINE Q == {i \in Call : ts[i] = "queued"}
  <2>1. Startable(ts) = {} /\ Executing(ts) = {}
    BY <1>1, <1>4 DEF Executing, Startable
  <2>2. q \in Q
    BY <1>1, <1>4, <2>1
  <2>3. PICK i \in Q : \A j \in Q : i <= j
    BY <2>2, FirstCall
  <2>4. \A j \in 1 .. (i - 1) : j \in Call /\ j \notin Q
    BY <2>3, NAssumption
  <2>5. i \in Startable(ts)
    BY <2>1, <2>3, <2>4 DEF Startable
  <2> QED BY <2>1, <2>5
<1> QED BY <1>1, <1>2, <1>3, <1>4 DEF Good, Ordered, Busy

\* A call that is added waits behind all others.
LEMMA AddToolInv ==
  ASSUME IndInv, AddTool PROVE IndInv'
<1> DEFINE ts == [tool EXCEPT ![added + 1] = "queued"]
<1>1. /\ safe \in [Call -> BOOLEAN] /\ safe' = safe /\ added + 1 \in 0 .. N
      /\ added + 1 \in Call /\ ts \in [Call -> ToolStatus]
      /\ tool' = ProcessQueue(ts) /\ added' = added + 1
  BY NAssumption DEF IndInv, QueueType, AddTool
<1>2. AddedUpTo(ts, added + 1)
  BY <1>1, NAssumption DEF IndInv, QueueType, Good, AddedUpTo
<1>3. Ordered(ts)
  <2>1. \A j \in Call : j > added + 1 => ts[j] = "none"
    BY <1>1, <1>2 DEF AddedUpTo
  <2> QED BY <1>1, <2>1, NAssumption DEF IndInv, QueueType, Good, Ordered
<1>4. /\ ProcessQueue(ts) \in [Call -> ToolStatus]
      /\ Good(ProcessQueue(ts), added + 1)
      /\ Busy(ProcessQueue(ts))
  BY <1>1, <1>2, <1>3, PassFacts, NAssumption DEF Good
<1>5. QueueType'
  BY <1>1, <1>4 DEF QueueType
<1>6. Good(tool, added)'
  BY <1>1, <1>4 DEF Good, AddedUpTo, Ordered
<1>7. Busy(tool)'
  BY <1>1, <1>4 DEF Busy, Executing
<1> QED BY <1>5, <1>6, <1>7 DEF IndInv

\* A call that completes opens the queue behind it.
LEMMA CompletedInv ==
  ASSUME IndInv, NEW c \in Call, Completed(c) PROVE IndInv'
<1> DEFINE ts == [tool EXCEPT ![c] = "completed"]
<1>1. /\ safe \in [Call -> BOOLEAN] /\ safe' = safe /\ added' = added
      /\ added \in 0 .. N /\ ts \in [Call -> ToolStatus]
      /\ tool' = ProcessQueue(ts) /\ tool[c] = "executing"
  BY DEF IndInv, QueueType, Completed
<1>2. Good(ts, added)
  BY <1>1 DEF IndInv, QueueType, Good, AddedUpTo, Ordered
<1>3. /\ ProcessQueue(ts) \in [Call -> ToolStatus]
      /\ Good(ProcessQueue(ts), added)
      /\ Busy(ProcessQueue(ts))
  BY <1>1, <1>2, PassFacts, NAssumption
<1>4. QueueType'
  BY <1>1, <1>3 DEF QueueType
<1>5. Good(tool, added)'
  BY <1>1, <1>3 DEF Good, AddedUpTo, Ordered
<1>6. Busy(tool)'
  BY <1>1, <1>3 DEF Busy, Executing
<1> QED
  BY <1>4, <1>5, <1>6 DEF IndInv

\* A pass of processQueue without news keeps the invariant.
LEMMA PassInv ==
  ASSUME IndInv, UNCHANGED <<safe, added>>, tool' = ProcessQueue(tool)
  PROVE  IndInv'
<1>1. /\ ProcessQueue(tool) \in [Call -> ToolStatus]
      /\ Good(ProcessQueue(tool), added)
      /\ Busy(ProcessQueue(tool))
  BY PassFacts, NAssumption DEF IndInv, QueueType
<1> QED
  BY <1>1 DEF IndInv, QueueType, Good, AddedUpTo, Ordered, Busy, Executing

\* Handing out results only turns completed calls into yielded ones.
LEMMA TakenInv ==
  ASSUME IndInv, UNCHANGED <<safe, added>>, tool' = Taken(tool)
  PROVE  IndInv'
<1>1. \A i \in Call : /\ tool'[i] = tool[i] \/ (tool[i] = "completed" /\ tool'[i] = "yielded")
  BY DEF Taken, Ready
<1>2. tool' \in [Call -> ToolStatus]
  BY DEF Taken, IndInv, QueueType
<1> QED
  BY <1>1, <1>2 DEF IndInv, QueueType, Good, AddedUpTo, Ordered, Busy, Executing

\* The invariant does not depend on where drain stands.
LEMMA SameQueueInv ==
  ASSUME IndInv, UNCHANGED <<safe, added, tool>>
  PROVE  IndInv'
BY DEF IndInv, QueueType, Good, AddedUpTo, Ordered, Busy, Executing

\* The wait of drain makes at most one pass.
LEMMA AwaitInv ==
  ASSUME IndInv, UNCHANGED <<safe, added>>, Await(tool)
  PROVE  IndInv'
<1>1. tool' = ProcessQueue(tool) \/ tool' = tool
  BY DEF Await
<1> QED BY <1>1, PassInv, SameQueueInv

\* Every step of the executor keeps the invariant.
THEOREM Invariance == Spec => []IndInv
<1>1. Init => IndInv
  BY NAssumption DEF Init, IndInv, QueueType, Good, AddedUpTo, Ordered, Busy, Executing
<1>2. IndInv /\ [Next]_vars => IndInv'
  <2> SUFFICES ASSUME IndInv, [Next]_vars PROVE IndInv'
    OBVIOUS
  <2>1. CASE AddTool
    BY <2>1, AddToolInv
  <2>2. CASE GetCompletedResults
    BY <2>2, TakenInv DEF GetCompletedResults
  <2>3. CASE Drain
    BY <2>3, SameQueueInv DEF Drain
  <2>4. CASE Draining
    <3>1. CASE TakeBatch
      <4>1. CASE Ready(tool) = {}
        BY <3>1, <4>1, AwaitInv DEF TakeBatch
      <4>2. CASE Ready(tool) # {}
        BY <3>1, <4>2, TakenInv DEF TakeBatch
      <4> QED BY <4>1, <4>2
    <3>2. CASE Yield
      BY <3>2, SameQueueInv DEF Yield
    <3>3. CASE BatchDone
      BY <3>3, AwaitInv DEF BatchDone
    <3>4. CASE RaceWon
      BY <3>4, PassInv DEF RaceWon
    <3>5. CASE RaceLost
      BY <3>5, SameQueueInv DEF RaceLost
    <3>6. CASE Return
      BY <3>6, SameQueueInv DEF Return
    <3> QED BY <2>4, <3>1, <3>2, <3>3, <3>4, <3>5, <3>6 DEF Draining
  <2>5. CASE \E i \in Call : Completed(i) \/ Rejected(i)
    <3>1. PICK i \in Call : Completed(i) \/ Rejected(i)
      BY <2>5
    <3>2. CASE Completed(i)
      BY <3>2, CompletedInv
    <3>3. CASE Rejected(i)
      BY <3>3, SameQueueInv DEF Rejected
    <3> QED BY <3>1, <3>2, <3>3
  <2>6. CASE UNCHANGED vars
    BY <2>6, SameQueueInv DEF vars
  <2> QED BY <2>1, <2>2, <2>3, <2>4, <2>5, <2>6 DEF Next
<1> QED BY <1>1, <1>2, PTL DEF Spec

\* Of two calls that are not both concurrency-safe the later one never starts
\* before the earlier one has completed.
THEOREM UnsafeCallsRunInOrder == Spec => []Barrier
<1>1. IndInv => Barrier
  BY DEF IndInv, Good, Ordered, Barrier, Started
<1> QED BY <1>1, Invariance, PTL

\* No order of additions, completions and polls leaves calls queued with none
\* executing.
THEOREM QueueNeverStalls == Spec => []NeverIdle
<1>1. IndInv => NeverIdle
  BY DEF IndInv, Busy, NeverIdle
<1> QED BY <1>1, Invariance, PTL

------------------------------------------------------------------------------
(* Delivery.  The calls yielded so far are the first ones, those handed    *)
(* out before those of the batch, so what is taken next are the calls      *)
(* right behind them.                                                      *)

Given == Len(out) + Len(batch)

DeliveryInv ==
  /\ out \in Seq(Nat) /\ batch \in Seq(Nat)
  /\ \A k \in 1 .. Len(out) : out[k] = k
  /\ \A k \in 1 .. Len(batch) : batch[k] = Len(out) + k
  /\ Given <= N
  /\ \A i \in Call : tool[i] = "yielded" <=> i <= Given
  /\ at # "yield" => batch = <<>>

\* What a pass of processQueue does not change.
LEMMA PassKeeps ==
  ASSUME NEW ts \in [Call -> ToolStatus], NEW i \in Call
  PROVE  /\ ProcessQueue(ts)[i] \in Ended <=> ts[i] \in Ended
         /\ ProcessQueue(ts)[i] = "yielded" <=> ts[i] = "yielded"
BY DEF ProcessQueue, Startable

\* An interval of calls in order.
LEMMA IntervalInOrder ==
  ASSUME NEW a \in Nat, NEW b \in Nat, a <= b
  PROVE  InOrder((a + 1) .. b) = [k \in 1 .. (b - a) |-> a + k]
<1> DEFINE S == (a + 1) .. b
<1>0. ASSUME NEW c \in Nat, a <= c
      PROVE  Cardinality((a + 1) .. c) = c - a
  <2>1. a + 1 \in Int /\ c \in Int
    OBVIOUS
  <2>2. Cardinality((a + 1) .. c) = IF a + 1 > c THEN 0 ELSE c - (a + 1) + 1
    BY <2>1, FS_Interval
  <2> QED BY <1>0, <2>2
<1>1. Cardinality(S) = b - a
  BY <1>0
<1>2. ASSUME NEW i \in S
      PROVE  Cardinality({j \in S : j <= i}) = i - a
  <2>1. {j \in S : j <= i} = (a + 1) .. i
    OBVIOUS
  <2>2. Cardinality((a + 1) .. i) = i - a
    <3>1. i \in Nat /\ a <= i
      OBVIOUS
    <3> QED BY <1>0, <3>1
  <2> QED BY <2>1, <2>2
<1>3. ASSUME NEW k \in 1 .. (b - a)
      PROVE  (CHOOSE i \in S : Cardinality({j \in S : j <= i}) = k) = a + k
  <2>1. a + k \in S
    OBVIOUS
  <2>2. \A i \in S : Cardinality({j \in S : j <= i}) = k <=> i = a + k
    BY <1>2
  <2> QED BY <2>1, <2>2
<1> QED BY <1>1, <1>3 DEF InOrder

\* What can be taken are the calls behind those that were, up to the first
\* that has not completed.
LEMMA ReadyIsInterval ==
  ASSUME NAssumption, NEW ts \in [Call -> ToolStatus], NEW y \in 0 .. N,
         \A i \in Call : ts[i] = "yielded" <=> i <= y
  PROVE  \E m \in y .. N :
           /\ Ready(ts) = (y + 1) .. m
           /\ \A i \in Call : i <= m => ts[i] \in Ended
<1> DEFINE Open == {i \in Call : ts[i] \notin Ended}
<1>1. CASE Open = {}
  <2>1. \A i \in Call : ts[i] \in Ended
    BY <1>1
  <2>2. \A i \in Call : \A j \in 1 .. i : j \in Call
    BY NAssumption
  <2>3. Ready(ts) = (y + 1) .. N
    BY <2>1, <2>2, NAssumption DEF Ready
  <2> QED BY <2>1, <2>3, NAssumption
<1>2. CASE Open # {}
  <2>1. PICK f \in Open : \A j \in Open : f <= j
    BY <1>2, FirstCall
  <2>2. f - 1 \in y .. N
    BY <2>1, NAssumption
  <2>3. \A i \in Call : i <= f - 1 => ts[i] \in Ended
    BY <2>1, NAssumption
  <2>4. ASSUME NEW i \in Call PROVE i \in Ready(ts) <=> i \in (y + 1) .. (f - 1)
    <3>1. CASE i < f
      <4>1. \A j \in 1 .. i : j \in Call /\ j <= f - 1
        BY <3>1, NAssumption
      <4> QED BY <2>3, <3>1, <4>1, NAssumption DEF Ready
    <3>2. CASE ~(i < f)
      <4>1. f \in 1 .. i
        BY <3>2, NAssumption
      <4> QED BY <2>1, <3>2, <4>1, NAssumption DEF Ready
    <3> QED BY <3>1, <3>2
  <2>5. Ready(ts) = (y + 1) .. (f - 1)
    <3>1. \A i \in (y + 1) .. (f - 1) : i \in Call
      BY <2>1, NAssumption
    <3>2. Ready(ts) \subseteq Call
      BY DEF Ready
    <3> QED BY <2>4, <3>1, <3>2
  <2> QED BY <2>2, <2>3, <2>5
<1> QED BY <1>1, <1>2

\* Taking the results: the next m - y of them, which become yielded.
LEMMA Taking ==
  ASSUME NAssumption, NEW ts \in [Call -> ToolStatus], NEW y \in 0 .. N,
         \A i \in Call : ts[i] = "yielded" <=> i <= y
  PROVE  \E m \in y .. N :
           /\ InOrder(Ready(ts)) = [k \in 1 .. (m - y) |-> y + k]
           /\ Ready(ts) = {} <=> m = y
           /\ \A i \in Call : i <= m => ts[i] \in Ended
           /\ \A i \in Call : Taken(ts)[i] = "yielded" <=> i <= m
           /\ \A i \in Call : Taken(ts)[i] \in Ended <=> ts[i] \in Ended
<1>1. PICK m \in y .. N : /\ Ready(ts) = (y + 1) .. m
                          /\ \A i \in Call : i <= m => ts[i] \in Ended
  BY ReadyIsInterval
<1>2. InOrder(Ready(ts)) = [k \in 1 .. (m - y) |-> y + k]
  BY <1>1, IntervalInOrder, NAssumption
<1>3. Ready(ts) = {} <=> m = y
  BY <1>1, NAssumption
<1>4. \A i \in Call : Taken(ts)[i] = "yielded" <=> i <= m
  BY <1>1, NAssumption DEF Taken
<1>5. \A i \in Call : Taken(ts)[i] \in Ended <=> ts[i] \in Ended
  BY DEF Taken, Ready
<1> QED BY <1>1, <1>2, <1>3, <1>4, <1>5

\* A step that hands nothing out and takes nothing keeps the invariant.
LEMMA NothingTaken ==
  ASSUME DeliveryInv, UNCHANGED <<out, batch>>,
         \A i \in Call : tool'[i] = "yielded" <=> tool[i] = "yielded",
         at' = "yield" \/ batch = <<>>
  PROVE  DeliveryInv'
BY DEF DeliveryInv, Given

\* Such steps also leave the calls that have ended as they are.
Quiet ==
  /\ UNCHANGED out
  /\ \A i \in Call : tool'[i] \in Ended <=> tool[i] \in Ended

\* The wait of drain takes nothing.
LEMMA AwaitTakesNothing ==
  ASSUME QueueType, Await(tool)
  PROVE  /\ \A i \in Call : tool'[i] = "yielded" <=> tool[i] = "yielded"
         /\ \A i \in Call : tool'[i] \in Ended <=> tool[i] \in Ended
<1>1. tool' = ProcessQueue(tool) \/ tool' = tool
  BY DEF Await
<1> QED BY <1>1, PassKeeps DEF QueueType

\* Results that are taken are the next ones.
LEMMA TakingNext ==
  ASSUME QueueType, DeliveryInv
  PROVE  \E m \in Given .. N :
           /\ InOrder(Ready(tool)) = [k \in 1 .. (m - Given) |-> Given + k]
           /\ Ready(tool) = {} <=> m = Given
           /\ \A i \in Call : i <= m => tool[i] \in Ended
           /\ \A i \in Call : Taken(tool)[i] = "yielded" <=> i <= m
           /\ \A i \in Call : Taken(tool)[i] \in Ended <=> tool[i] \in Ended
<1>1. Given \in 0 .. N
  BY NAssumption DEF DeliveryInv, Given
<1> QED BY <1>1, Taking, NAssumption DEF QueueType, DeliveryInv

\* getCompletedResults delivers the next results.
LEMMA PollDelivers ==
  ASSUME QueueType, DeliveryInv, GetCompletedResults
  PROVE  DeliveryInv' /\ Delivery!Next
<1>1. PICK m \in Given .. N :
           /\ InOrder(Ready(tool)) = [k \in 1 .. (m - Given) |-> Given + k]
           /\ Ready(tool) = {} <=> m = Given
           /\ \A i \in Call : i <= m => tool[i] \in Ended
           /\ \A i \in Call : Taken(tool)[i] = "yielded" <=> i <= m
           /\ \A i \in Call : Taken(tool)[i] \in Ended <=> tool[i] \in Ended
  BY TakingNext
<1> DEFINE k == m - Given
           next == [j \in 1 .. k |-> Given + j]
<1>2. /\ batch = <<>> /\ batch' = <<>> /\ at' = at /\ Given = Len(out)
      /\ Given \in Nat /\ m \in Nat /\ k \in 1 .. N
      /\ tool' = Taken(tool) /\ out' = out \o next /\ out \in Seq(Nat)
  BY <1>1, NAssumption DEF DeliveryInv, Given, GetCompletedResults
<1>3. next \in Seq(Nat) /\ Len(next) = k
  BY <1>2
<1>4. /\ out' \in Seq(Nat) /\ Len(out') = m
      /\ \A j \in 1 .. m : out'[j] = j
  BY <1>2, <1>3 DEF DeliveryInv
<1>5. DeliveryInv'
  <2>1. Given' = m
    BY <1>2, <1>4 DEF Given
  <2>2. \A i \in Call : tool'[i] = "yielded" <=> i <= Given'
    BY <1>1, <1>2, <2>1
  <2> QED BY <1>1, <1>2, <1>4, <2>1, <2>2 DEF DeliveryInv
<1>6. Delivery!Deliver(k)
  <2>1. \A j \in 1 .. k : Given + j \in Call /\ Given + j <= m
    BY <1>1, <1>2, NAssumption
  <2>2. \A j \in 1 .. k : tool[Given + j] \in Ended
    BY <1>1, <2>1
  <2>3. {i \in Call : tool[i] \in Ended}' = {i \in Call : tool[i] \in Ended}
    BY <1>1, <1>2
  <2> QED BY <1>2, <2>1, <2>2, <2>3 DEF Delivery!Deliver
<1> QED BY <1>2, <1>5, <1>6 DEF Delivery!Next

\* drain takes a batch, or waits.
LEMMA TakeBatchQuiet ==
  ASSUME QueueType, DeliveryInv, TakeBatch
  PROVE  DeliveryInv' /\ Quiet
<1>1. PICK m \in Given .. N :
           /\ InOrder(Ready(tool)) = [k \in 1 .. (m - Given) |-> Given + k]
           /\ Ready(tool) = {} <=> m = Given
           /\ \A i \in Call : i <= m => tool[i] \in Ended
           /\ \A i \in Call : Taken(tool)[i] = "yielded" <=> i <= m
           /\ \A i \in Call : Taken(tool)[i] \in Ended <=> tool[i] \in Ended
  BY TakingNext
<1>2. /\ batch = <<>> /\ Given = Len(out) /\ Given \in Nat /\ m \in Nat
      /\ batch' = [k \in 1 .. (m - Given) |-> Given + k] /\ UNCHANGED out
  BY <1>1, NAssumption DEF DeliveryInv, Given, TakeBatch
<1>3. CASE Ready(tool) = {}
  <2>1. Await(tool) /\ batch' = batch
    BY <1>1, <1>2, <1>3 DEF TakeBatch
  <2> QED BY <1>2, <2>1, AwaitTakesNothing, NothingTaken DEF Quiet
<1>4. CASE Ready(tool) # {}
  <2>1. tool' = Taken(tool) /\ at' = "yield"
    BY <1>4 DEF TakeBatch
  <2>2. /\ batch' \in Seq(Nat) /\ Len(batch') = m - Given
        /\ \A k \in 1 .. Len(batch') : batch'[k] = Given + k
    BY <1>2
  <2>3. Given' = m
    BY <1>2, <2>2 DEF Given
  <2>4. \A i \in Call : tool'[i] = "yielded" <=> i <= Given'
    BY <1>1, <2>1, <2>3
  <2>5. \A k \in 1 .. Len(batch') : batch'[k] = Len(out') + k
    BY <1>2, <2>2
  <2>6. /\ out' \in Seq(Nat) /\ Given' <= N
        /\ \A k \in 1 .. Len(out') : out'[k] = k
    BY <1>1, <1>2, <2>3 DEF DeliveryInv
  <2>7. DeliveryInv'
    BY <2>1, <2>2, <2>4, <2>5, <2>6 DEF DeliveryInv
  <2> QED BY <1>1, <1>2, <2>1, <2>7 DEF Quiet
<1> QED BY <1>3, <1>4

\* A yield of drain delivers one result.
LEMMA YieldDelivers ==
  ASSUME QueueType, DeliveryInv, Yield
  PROVE  DeliveryInv' /\ Delivery!Next
<1> DEFINE n == Len(out)
<1>1. /\ out \in Seq(Nat) /\ batch \in Seq(Nat) /\ batch # <<>> /\ n \in Nat
      /\ Len(batch) \in Nat \ {0} /\ tool' = tool /\ at' = at /\ at = "yield"
  BY DEF DeliveryInv, Yield
<1>2. /\ batch' \in Seq(Nat) /\ Len(batch') = Len(batch) - 1
      /\ \A k \in 1 .. Len(batch') : batch'[k] = batch[k + 1]
      /\ Head(batch) = n + 1
  BY <1>1 DEF DeliveryInv, Yield
<1>3. /\ out' \in Seq(Nat) /\ Len(out') = n + 1
      /\ \A k \in 1 .. n : out'[k] = out[k]
      /\ out'[n + 1] = n + 1
  BY <1>1, <1>2 DEF Yield
<1>4. DeliveryInv'
  <2>1. \A k \in 1 .. Len(out') : out'[k] = k
    BY <1>1, <1>3, SMTT(30) DEF DeliveryInv
  <2>2. \A k \in 1 .. Len(batch') : batch'[k] = Len(out') + k
    BY <1>1, <1>2, <1>3 DEF DeliveryInv
  <2>3. Given' = Given
    BY <1>1, <1>2, <1>3 DEF Given
  <2>4. /\ \A i \in Call : tool'[i] = "yielded" <=> i <= Given'
        /\ Given' <= N /\ at' = "yield"
    BY <1>1, <2>3 DEF DeliveryInv
  <2> QED BY <1>2, <1>3, <2>1, <2>2, <2>4 DEF DeliveryInv
<1>5. Delivery!Deliver(1)
  <2>1. n + 1 \in Call /\ n + 1 <= Given /\ 1 \in 1 .. N
    BY <1>1, NAssumption DEF DeliveryInv, Given
  <2>2. tool[n + 1] \in Ended
    BY <2>1 DEF DeliveryInv
  <2>3. out' = out \o [j \in 1 .. 1 |-> n + j]
    <3>1. [j \in 1 .. 1 |-> n + j] = <<n + 1>>
      BY <1>1
    <3> QED BY <1>1, <1>2, <3>1 DEF Yield
  <2> QED BY <1>1, <2>1, <2>2, <2>3 DEF Delivery!Deliver
<1> QED BY <1>1, <1>4, <1>5, NAssumption DEF DeliveryInv, Given, Delivery!Next

\* Calls end, and then nothing is delivered.
LEMMA CallsEnd ==
  ASSUME \A i \in Call : tool[i] \in Ended => tool'[i] \in Ended, UNCHANGED out
  PROVE  Delivery!Next
<1> DEFINE done == {i \in Call : tool[i] \in Ended}
<1>1. done' \in SUBSET (1 .. N) /\ done' = done \cup done'
  OBVIOUS
<1> QED BY <1>1 DEF Delivery!Next, Delivery!Finish

\* Every step keeps the invariant, and hands out the next results or none.
LEMMA StepDelivers ==
  ASSUME IndInv, DeliveryInv, [Next]_vars
  PROVE  /\ DeliveryInv'
         /\ Delivery!Next \/ Quiet
<1>1. QueueType
  BY DEF IndInv
<1>2. CASE AddTool
  <2> DEFINE ts == [tool EXCEPT ![added + 1] = "queued"]
  <2>1. /\ ts \in [Call -> ToolStatus] /\ tool' = ProcessQueue(ts)
        /\ UNCHANGED <<out, batch, at>> /\ at = "stream" /\ added + 1 \in Call
    BY <1>1, <1>2, NAssumption DEF QueueType, AddTool
  <2>2. tool[added + 1] = "none"
    BY <1>1, <2>1 DEF IndInv, Good, AddedUpTo, QueueType
  <2>3. \A i \in Call : /\ ts[i] = "yielded" <=> tool[i] = "yielded"
                        /\ ts[i] \in Ended <=> tool[i] \in Ended
    BY <1>1, <2>1, <2>2 DEF QueueType
  <2>4. \A i \in Call : /\ tool'[i] = "yielded" <=> tool[i] = "yielded"
                        /\ tool'[i] \in Ended <=> tool[i] \in Ended
    BY <2>1, <2>3, PassKeeps
  <2>5. batch = <<>>
    BY <2>1 DEF DeliveryInv
  <2> QED BY <2>1, <2>4, <2>5, NothingTaken DEF Quiet
<1>3. ASSUME NEW c \in Call, Completed(c) PROVE DeliveryInv' /\ Delivery!Next
  <2> DEFINE ts == [tool EXCEPT ![c] = "completed"]
  <2>1. /\ ts \in [Call -> ToolStatus] /\ tool' = ProcessQueue(ts)
        /\ UNCHANGED <<out, batch, at>> /\ tool[c] = "executing"
    BY <1>1, <1>3 DEF QueueType, Completed
  <2>2. \A i \in Call : /\ ts[i] = "yielded" <=> tool[i] = "yielded"
                        /\ tool[i] \in Ended => ts[i] \in Ended
    BY <1>1, <2>1 DEF QueueType
  <2>3. \A i \in Call : /\ tool'[i] = "yielded" <=> tool[i] = "yielded"
                        /\ tool[i] \in Ended => tool'[i] \in Ended
    BY <2>1, <2>2, PassKeeps, ZenonT(60)
  <2>4. DeliveryInv'
    BY <2>1, <2>3, NothingTaken DEF DeliveryInv
  <2> QED BY <2>1, <2>3, <2>4, CallsEnd
<1>4. ASSUME UNCHANGED <<tool, out, batch>>, at' = "yield" \/ batch = <<>>
      PROVE  DeliveryInv' /\ Quiet
  BY <1>4, NothingTaken DEF Quiet
<1>5. CASE GetCompletedResults
  BY <1>1, <1>5, PollDelivers
<1>6. CASE Drain
  BY <1>4, <1>6 DEF Drain, DeliveryInv
<1>7. CASE TakeBatch
  BY <1>1, <1>7, TakeBatchQuiet
<1>8. CASE Yield
  BY <1>1, <1>8, YieldDelivers
<1>9. CASE BatchDone
  BY <1>1, <1>9, AwaitTakesNothing, NothingTaken DEF BatchDone, Quiet
<1>10. CASE RaceWon
  <2>1. batch = <<>>
    BY <1>10 DEF RaceWon, DeliveryInv
  <2>2. \A i \in Call : /\ tool'[i] = "yielded" <=> tool[i] = "yielded"
                        /\ tool'[i] \in Ended <=> tool[i] \in Ended
    BY <1>1, <1>10, PassKeeps DEF RaceWon, QueueType
  <2> QED BY <1>10, <2>1, <2>2, NothingTaken DEF RaceWon, Quiet
<1>11. CASE RaceLost \/ Return
  BY <1>4, <1>11 DEF RaceLost, Return, DeliveryInv
<1>12. ASSUME NEW i \in Call, Rejected(i) PROVE DeliveryInv' /\ Quiet
  BY <1>4, <1>12 DEF Rejected, DeliveryInv
<1>13. CASE UNCHANGED vars
  BY <1>4, <1>13 DEF vars, DeliveryInv
<1> QED
  BY <1>2, <1>3, <1>5, <1>6, <1>7, <1>8, <1>9, <1>10, <1>11, <1>12, <1>13
     DEF Next, Draining

\* Polled and drained results together are delivered once each, in the order
\* of the calls and after the call has completed: the executor implements
\* OrderedDelivery, for any number of calls of any safety.
THEOREM ImplementsDelivery == Spec => DeliverySpec
<1>1. Init => Delivery!Init /\ DeliveryInv
  BY NAssumption DEF Init, Delivery!Init, DeliveryInv, Given
<1>2. IndInv /\ DeliveryInv /\ [Next]_vars => DeliveryInv'
  BY StepDelivers
<1>3. IndInv /\ DeliveryInv /\ [Next]_vars
        => [Delivery!Next]_<<{i \in Call : tool[i] \in Ended}, out>>
  <2>1. Quiet => UNCHANGED <<{i \in Call : tool[i] \in Ended}, out>>
    BY DEF Quiet
  <2> QED BY <2>1, StepDelivers
<1> QED
  BY <1>1, <1>2, <1>3, Invariance, PTL DEF Spec, DeliverySpec, Delivery!Spec

------------------------------------------------------------------------------
(* What drain has done when it returns, and what it waits for.             *)

EndInv ==
  /\ rejected \subseteq Call /\ racing \subseteq Call
  /\ at \in {"stream", "top", "yield", "race", "end", "threw"}
  /\ at = "end" => Given = added

\* Once everything that was added has been yielded, as much has been taken as
\* was added.
LEMMA NothingPending ==
  ASSUME NAssumption, IndInv, DeliveryInv, ~Pending
  PROVE  Given = added
<1>1. added \in 0 .. N /\ Given \in 0 .. N /\ N \in Nat
  BY NAssumption DEF IndInv, QueueType, DeliveryInv, Given
<1>2. ASSUME NEW i \in Call, i <= added PROVE i <= Given
  <2>1. i \in 1 .. added
    BY <1>1, <1>2
  <2> QED BY <2>1 DEF Pending, DeliveryInv
<1>3. ASSUME NEW i \in Call, i <= Given PROVE i <= added
  <2>1. tool[i] = "yielded"
    BY <1>3 DEF DeliveryInv
  <2>2. i > added => tool[i] = "none"
    BY DEF IndInv, Good, AddedUpTo
  <2> QED BY <1>1, <2>1, <2>2
<1>4. added # 0 => added <= Given
  BY <1>1, <1>2
<1>5. Given # 0 => Given <= added
  BY <1>1, <1>3
<1> QED BY <1>1, <1>4, <1>5

\* What waits for tools waits for those executing.
LEMMA AwaitEnds ==
  ASSUME EndInv, NEW ts \in [Call -> ToolStatus], Await(ts)
  PROVE  racing' \subseteq Call /\ at' \in {"top", "race"}
BY DEF EndInv, Await, Executing

\* Every step keeps what is known of the end.
LEMMA EndKeeps ==
  ASSUME IndInv, DeliveryInv, EndInv, [Next]_vars
  PROVE  EndInv'
<1>1. tool \in [Call -> ToolStatus]
  BY DEF IndInv, QueueType
<1>2. CASE TakeBatch
  <2>1. rejected' = rejected /\ (Ready(tool) = {} => Await(tool))
    BY <1>2 DEF TakeBatch
  <2>2. CASE Ready(tool) = {}
    BY <1>1, <2>1, <2>2, AwaitEnds DEF EndInv
  <2>3. CASE Ready(tool) # {}
    BY <1>2, <2>1, <2>3 DEF EndInv, TakeBatch
  <2> QED BY <2>2, <2>3
<1>3. CASE BatchDone
  BY <1>1, <1>3, AwaitEnds DEF EndInv, BatchDone
<1>4. CASE Return
  <2>1. Given = added
    BY <1>4, NothingPending, NAssumption DEF Return
  <2> QED BY <1>4, <2>1 DEF EndInv, Return, Given
<1>5. CASE AddTool \/ GetCompletedResults \/ Drain \/ Yield \/ RaceWon \/ RaceLost
  BY <1>5 DEF EndInv, AddTool, GetCompletedResults, Drain, Yield, RaceWon, RaceLost
<1>6. ASSUME NEW i \in Call, Completed(i) \/ Rejected(i) PROVE EndInv'
  BY <1>6 DEF EndInv, Completed, Rejected, Given
<1>7. CASE UNCHANGED vars
  BY <1>7 DEF EndInv, vars, Given
<1> QED BY <1>2, <1>3, <1>4, <1>5, <1>6, <1>7 DEF Next, Draining

\* The three invariants together.
THEOREM DrainInvariance == Spec => [](IndInv /\ DeliveryInv /\ EndInv)
<1>1. Init => DeliveryInv /\ EndInv
  BY NAssumption DEF Init, DeliveryInv, EndInv, Given
<1>2. IndInv /\ DeliveryInv /\ EndInv /\ [Next]_vars => DeliveryInv' /\ EndInv'
  BY StepDelivers, EndKeeps
<1> QED BY <1>1, <1>2, Invariance, PTL DEF Spec

\* Every variable of the executor and of drain keeps its type; what is handed
\* out are calls.
THEOREM TypeCorrect == Spec => []TypeOK
<1>1. ASSUME DeliveryInv PROVE out \in Seq(Call) /\ batch \in Seq(Call)
  <2>1. /\ out \in Seq(Nat) /\ batch \in Seq(Nat) /\ Len(out) \in Nat /\ Len(batch) \in Nat
        /\ Len(out) + Len(batch) <= N
    BY <1>1 DEF DeliveryInv, Given
  <2>2. \A k \in 1 .. Len(out) : out[k] \in Call
    BY <1>1, <2>1, NAssumption DEF DeliveryInv
  <2>3. \A k \in 1 .. Len(batch) : batch[k] \in Call
    BY <1>1, <2>1, NAssumption DEF DeliveryInv
  <2>4. ASSUME NEW T, NEW s \in Seq(Nat), \A k \in 1 .. Len(s) : s[k] \in T
        PROVE  s \in Seq(T)
    <3>1. s \in [1 .. Len(s) -> T]
      BY <2>4
    <3> QED BY <3>1
  <2> QED BY <2>1, <2>2, <2>3, <2>4
<1>2. IndInv /\ DeliveryInv /\ EndInv => TypeOK
  BY <1>1 DEF IndInv, QueueType, EndInv, TypeOK
<1> QED BY <1>2, DrainInvariance, PTL

\* When drain has returned, the result of every call that was added has been
\* handed out, once and in order, by the polls and drain together.
THEOREM DrainReturnsAll == Spec => []AllDelivered
<1>1. ASSUME IndInv, DeliveryInv, EndInv, at = "end"
      PROVE  out = [i \in 1 .. added |-> i]
  <2>1. /\ out \in Seq(Nat) /\ batch = <<>> /\ \A k \in 1 .. Len(out) : out[k] = k
        /\ Len(out) + Len(batch) = added
    BY <1>1 DEF DeliveryInv, EndInv, Given
  <2>2. Len(out) = added
    BY <2>1
  <2> QED BY <2>1, <2>2
<1>2. IndInv /\ DeliveryInv /\ EndInv => AllDelivered
  BY <1>1 DEF AllDelivered
<1> QED BY <1>2, DrainInvariance, PTL

\* drain never goes round with nothing to yield and nothing to wait for: when
\* results are pending and none can be taken, a tool executes.  (The loop would
\* otherwise spin without an await, and no tool could ever complete.)
THEOREM DrainNeverSpins ==
  Spec => [](Pending /\ Ready(tool) = {} => Executing(tool) # {})
<1>1. ASSUME IndInv, Pending, Ready(tool) = {}
      PROVE  Executing(tool) # {}
  <2>1. PICK i \in 1 .. added : tool[i] # "yielded"
    BY <1>1 DEF Pending
  <2>2. added \in 0 .. N /\ tool \in [Call -> ToolStatus] /\ i \in Call
    BY <1>1, <2>1, NAssumption DEF IndInv, QueueType
  <2>3. PICK j \in 1 .. i : tool[j] \notin Ended
    BY <1>1, <2>1, <2>2 DEF Ready
  <2>4. j \in Call /\ j <= added
    BY <2>1, <2>2, <2>3, NAssumption
  <2>5. tool[j] # "none"
    BY <1>1, <2>2, <2>4 DEF IndInv, Good, AddedUpTo
  <2>6. tool[j] \in {"queued", "executing"}
    BY <2>2, <2>3, <2>4, <2>5
  <2> QED BY <1>1, <2>4, <2>6 DEF IndInv, Busy, Executing
<1>2. IndInv => (Pending /\ Ready(tool) = {} => Executing(tool) # {})
  BY <1>1
<1> QED BY <1>2, Invariance, PTL

------------------------------------------------------------------------------
(* The loop of processQueue.  After its visit of call n it has started the *)
(* startable calls up to n, and has stopped at the first unsafe one that   *)
(* was queued and could not start.  That makes Seen a solution of the      *)
(* recursion, and the least call where another one differed from it would  *)
(* contradict VisitSeen: induction without an induction rule.              *)

Seen(ts, n) ==
  [ts |-> [i \in Call |-> IF i \in Startable(ts) /\ i <= n THEN "executing" ELSE ts[i]],
   stopped |-> \E i \in Call : /\ i <= n /\ ts[i] = "queued" /\ ~safe[i]
                              /\ i \notin Startable(ts)]

\* While the loop has not stopped, canExecute says whether call n may start.
LEMMA CanExecuteIsStartable ==
  ASSUME NAssumption, safe \in [Call -> BOOLEAN],
         NEW ts \in [Call -> ToolStatus], NEW n \in Call, ts[n] = "queued",
         \A i \in Call : i < n /\ ts[i] = "queued" /\ ~safe[i] => i \in Startable(ts)
  PROVE  CanExecute(Seen(ts, n - 1).ts, n) <=> n \in Startable(ts)
<1> DEFINE ps == Seen(ts, n - 1).ts
           Queued == {i \in Call : i < n /\ ts[i] = "queued"}
<1>1. \A i \in Call : i \in Executing(ps) <=>
                        i \in Executing(ts) \/ (i \in Startable(ts) /\ i < n)
  BY NAssumption DEF Seen, Executing
<1>2. /\ n \in Nat
      /\ \A i \in Call : i \in Nat /\ (i \in 1 .. (n - 1) <=> i < n)
  BY NAssumption
<1>3. \A i \in 1 .. (n - 1) : i \in Call
  BY NAssumption
<1>4. \A i \in Startable(ts) : i \in Call /\ ts[i] = "queued"
  BY DEF Startable
<1>5. CASE safe[n]
  <2>1. n \in Startable(ts) <=> /\ \A j \in Executing(ts) : safe[j]
                               /\ \A j \in Queued : safe[j]
    BY <1>2, <1>3, <1>5 DEF Startable
  <2>2. CanExecute(ps, n) <=> \A j \in Executing(ps) : safe[j]
    BY <1>5 DEF CanExecute
  <2>3. \A j \in Queued : ~safe[j] => j \in Executing(ps)
    BY <1>1
  <2>4. (\A j \in Queued : safe[j]) =>
          \A j \in Executing(ps) : j \in Executing(ts) \/ safe[j]
    BY <1>1, <1>4 DEF Executing
  <2>5. \A j \in Executing(ts) : j \in Executing(ps)
    BY <1>1 DEF Executing
  <2> QED BY <2>1, <2>2, <2>3, <2>4, <2>5
<1>6. CASE ~safe[n]
  <2>1. n \in Startable(ts) <=> Executing(ts) = {} /\ Queued = {}
    BY <1>2, <1>3, <1>6 DEF Startable
  <2>2. CanExecute(ps, n) <=> Executing(ps) = {}
    BY <1>6 DEF CanExecute
  <2>3. Executing(ts) = {} /\ Queued = {} => Executing(ps) = {}
    BY <1>1, <1>4 DEF Executing
  <2>4. Executing(ps) = {} => Executing(ts) = {}
    BY <1>1 DEF Executing
  <2>5. ASSUME Executing(ts) = {}, Queued # {} PROVE Executing(ps) # {}
    <3>1. PICK f \in Queued : \A j \in Queued : f <= j
      BY <2>5, FirstCall
    <3>2. \A j \in 1 .. (f - 1) : ts[j] # "queued"
      BY <1>2, <3>1, NAssumption
    <3>3. f \in Startable(ts)
      BY <2>5, <3>1, <3>2 DEF Startable
    <3> QED BY <1>1, <3>1, <3>3
  <2> QED BY <2>1, <2>2, <2>3, <2>4, <2>5
<1> QED BY <1>5, <1>6

\* One visit of the loop.
LEMMA VisitSeen ==
  ASSUME NAssumption, safe \in [Call -> BOOLEAN],
         NEW ts \in [Call -> ToolStatus], NEW n \in Call
  PROVE  Visit(Seen(ts, n - 1), n) = Seen(ts, n)
<1> DEFINE p == Seen(ts, n - 1)
           q == Seen(ts, n)
           Blocked(i) == ts[i] = "queued" /\ ~safe[i] /\ i \notin Startable(ts)
<1>1. /\ n \in Nat
      /\ \A i \in Call : i \in Nat /\ (i <= n <=> i <= n - 1 \/ i = n)
      /\ ~(n <= n - 1)
  BY NAssumption
<1>2. /\ p.ts[n] = ts[n]
      /\ p.stopped <=> \E i \in Call : i <= n - 1 /\ Blocked(i)
      /\ q.stopped <=> p.stopped \/ Blocked(n)
  BY <1>1 DEF Seen
<1>3. \A i \in Startable(ts) : ts[i] = "queued"
  BY DEF Startable
<1>4. n \notin Startable(ts) => p.ts = q.ts
  BY <1>1 DEF Seen
<1>5. n \in Startable(ts) => q.ts = [p.ts EXCEPT ![n] = "executing"]
  BY <1>1 DEF Seen
<1>6. p = [ts |-> p.ts, stopped |-> p.stopped] /\ q = [ts |-> q.ts, stopped |-> q.stopped]
  BY DEF Seen
<1>7. p.stopped \in BOOLEAN /\ q.stopped \in BOOLEAN
  BY DEF Seen
<1>8. CASE p.stopped
  <2>1. PICK i \in Call : i <= n - 1 /\ Blocked(i)
    BY <1>2, <1>8
  <2>2. i \in 1 .. (n - 1)
    BY <1>1, <2>1, NAssumption
  <2>3. n \notin Startable(ts)
    BY <2>1, <2>2 DEF Startable
  <2>4. Visit(p, n) = p
    BY <1>8 DEF Visit
  <2>5. p.stopped = q.stopped
    BY <1>2, <1>7, <1>8
  <2> QED BY <1>4, <1>6, <2>3, <2>4, <2>5
<1>9. CASE ts[n] # "queued"
  <2>1. n \notin Startable(ts) /\ ~Blocked(n)
    BY <1>3, <1>9
  <2>2. Visit(p, n) = p
    BY <1>2, <1>9 DEF Visit
  <2>3. p.stopped = q.stopped
    BY <1>2, <1>7, <2>1
  <2> QED BY <1>4, <1>6, <2>1, <2>2, <2>3
<1>10. CASE ~p.stopped /\ ts[n] = "queued"
  <2>1. \A i \in Call : i < n /\ ts[i] = "queued" /\ ~safe[i] => i \in Startable(ts)
    BY <1>1, <1>2, <1>10
  <2>2. CanExecute(p.ts, n) <=> n \in Startable(ts)
    BY <1>10, <2>1, CanExecuteIsStartable
  <2>3. CASE n \in Startable(ts)
    <3>1. Visit(p, n) = [p EXCEPT !.ts[n] = "executing"]
      BY <1>2, <1>10, <2>2, <2>3 DEF Visit
    <3>2. p.stopped = q.stopped
      BY <1>2, <1>7, <2>3
    <3>3. [p EXCEPT !.ts[n] = "executing"]
            = [ts |-> [p.ts EXCEPT ![n] = "executing"], stopped |-> p.stopped]
      BY <1>6, SMTT(30)
    <3> QED BY <1>5, <1>6, <2>3, <3>1, <3>2, <3>3
  <2>4. CASE n \notin Startable(ts)
    <3>1. Visit(p, n) = [p EXCEPT !.stopped = ~safe[n]]
      BY <1>2, <1>10, <2>2, <2>4 DEF Visit
    <3>2. q.stopped = ~safe[n]
      BY <1>2, <1>7, <1>10, <2>4
    <3> DEFINE x == ~safe[n]
    <3>3. [p EXCEPT !.stopped = x] = [ts |-> p.ts, stopped |-> x]
      <4> HIDE DEF x, p
      <4> QED BY <1>6
    <3> QED BY <1>4, <1>6, <2>4, <3>1, <3>2, <3>3
  <2> QED BY <2>3, <2>4
<1> QED BY <1>8, <1>9, <1>10

\* The loop starts what ProcessQueue starts, whatever the queue looks like.
LEMMA LoopIsProcessQueue ==
  ASSUME NAssumption, safe \in [Call -> BOOLEAN], NEW ts \in [Call -> ToolStatus]
  PROVE  Loop(ts) = ProcessQueue(ts)
<1> DEFINE base == [ts |-> ts, stopped |-> FALSE]
           Solves(f) == f = [i \in 0 .. N |-> IF i = 0 THEN base ELSE Visit(f[i - 1], i)]
           seen == [i \in 0 .. N |-> Seen(ts, i)]
           pass == CHOOSE f : Solves(f)
<1>1. Seen(ts, 0) = base
  <2>1. \A i \in Call : ~(i <= 0)
    BY NAssumption
  <2>2. [i \in Call |-> IF i \in Startable(ts) /\ i <= 0 THEN "executing" ELSE ts[i]] = ts
    BY <2>1
  <2> QED BY <2>1, <2>2 DEF Seen
<1>2. \A i \in 0 .. N : i # 0 => i \in Call /\ i - 1 \in 0 .. N
  BY NAssumption
<1>3. Solves(seen)
  BY <1>1, <1>2, VisitSeen
<1>4. Solves(pass)
  BY <1>3
<1>5. \A i \in 0 .. N : pass[i] = IF i = 0 THEN base ELSE Visit(pass[i - 1], i)
  BY <1>4
<1>6. pass[N] = Seen(ts, N)
  <2> DEFINE Wrong == {i \in 0 .. N : pass[i] # Seen(ts, i)}
  <2>1. SUFFICES ASSUME Wrong # {} PROVE FALSE
    <3>1. N \in 0 .. N
      BY NAssumption
    <3> QED BY <3>1
  <2>2. 0 \notin Wrong
    BY <1>1, <1>5, NAssumption
  <2>3. Wrong \in SUBSET Call
    BY <1>2, <2>2
  <2>4. PICK i \in Wrong : \A j \in Wrong : i <= j
    BY <2>1, <2>3, FirstCall
  <2>5. i \in Call /\ i \in 0 .. N /\ i # 0 /\ i - 1 \in 0 .. N /\ i - 1 \notin Wrong
    BY <2>3, <2>4, NAssumption
  <2>6. pass[i] = Visit(Seen(ts, i - 1), i)
    BY <1>5, <2>5
  <2> QED BY <2>4, <2>5, <2>6, VisitSeen
<1>7. Loop(ts) = pass[N].ts
  BY DEF Loop
<1>8. \A i \in Call : i <= N
  BY NAssumption
<1> QED BY <1>6, <1>7, <1>8 DEF Seen, ProcessQueue

\* ProcessQueue, the set of calls a pass may start, and the loop of
\* processQueue agree in every reachable state, also after one more addition
\* or completion.
THEOREM LoopIsModelled == Spec => []LoopAgrees
<1>1. IndInv => LoopAgrees
  <2> SUFFICES ASSUME IndInv PROVE LoopAgrees
    OBVIOUS
  <2>1. safe \in [Call -> BOOLEAN] /\ tool \in [Call -> ToolStatus]
    BY DEF IndInv, QueueType
  <2>2. \A i \in Call : [tool EXCEPT ![i] = "completed"] \in [Call -> ToolStatus]
    BY <2>1
  <2>3. [tool EXCEPT ![added + 1] = "queued"] \in [Call -> ToolStatus]
    BY <2>1
  <2> QED
    BY <2>1, <2>2, <2>3, LoopIsProcessQueue, NAssumption DEF LoopAgrees, Executing
<1> QED BY <1>1, Invariance, PTL
==============================================================================
