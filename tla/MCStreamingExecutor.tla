------------------------ MODULE MCStreamingExecutor --------------------------
(***************************************************************************)
(* StreamingExecutor for TLC, with the loop of processQueue written out as *)
(* the code has it, to compare with the set ProcessQueue starts.           *)
(***************************************************************************)
EXTENDS StreamingExecutor

\* The queue and whether the loop has hit its break.
Pass == [ts : [Call -> ToolStatus], stopped : BOOLEAN]

CanExecute(ts, i) ==
  Executing(ts) = {} \/ (safe[i] /\ \A j \in Executing(ts) : safe[j])

Visit(p, i) ==
  IF p.stopped \/ p.ts[i] # "queued" THEN p
  ELSE IF CanExecute(p.ts, i) THEN [p EXCEPT !.ts[i] = "executing"]
  ELSE [p EXCEPT !.stopped = ~safe[i]]

Loop(ts) ==
  LET pass[i \in 0 .. N] ==
        IF i = 0 THEN [ts |-> ts, stopped |-> FALSE] ELSE Visit(pass[i - 1], i)
  IN  pass[N].ts

(* The calls ProcessQueue starts are those the loop of processQueue starts, *)
(* in every state, also after one more addition or completion.             *)
LoopAgrees ==
  /\ ProcessQueue(tool) = Loop(tool)
  /\ \A i \in Executing(tool) :
       LET ts == [tool EXCEPT ![i] = "completed"] IN ProcessQueue(ts) = Loop(ts)
  /\ added < N => LET ts == [tool EXCEPT ![added + 1] = "queued"]
                  IN  ProcessQueue(ts) = Loop(ts)
==============================================================================
