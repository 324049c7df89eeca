--------------------------- MODULE OrderedDelivery ---------------------------
(***************************************************************************)
(* What a tool executor promises the conversation history: the result of   *)
(* each tool call is delivered once, after the call has completed, and in  *)
(* the order of the calls, whatever order they complete in.                *)
(***************************************************************************)
EXTENDS Naturals, Sequences

CONSTANT N  \* tool calls 1 .. N, in the order of the LLM stream

VARIABLES
  done,  \* calls that have completed
  out    \* results delivered, each named by its call

Init == done = {} /\ out = <<>>

\* Calls complete, several at once when an abort ends a batch.
Finish(S) == done' = done \cup S /\ UNCHANGED out

\* Deliver the next k results.
Deliver(k) ==
  LET next == [j \in 1 .. k |-> Len(out) + j]
  IN  /\ \A j \in 1 .. k : next[j] \in done
      /\ out' = out \o next
      /\ UNCHANGED done

Next ==
  \/ \E S \in SUBSET (1 .. N) : Finish(S)
  \/ \E k \in 1 .. N : Deliver(k)

Spec == Init /\ [][Next]_<<done, out>>
==============================================================================
