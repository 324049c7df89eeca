------------------------------ MODULE AgentLoop ------------------------------
(***************************************************************************)
(* The loop of PrismerAgent.processMessage (src/agent.ts) and the          *)
(* conversation it keeps: the messages of the session, which outlive the   *)
(* run, and the copy of them each run sends to the LLM.  Successive runs   *)
(* use one session.  Contents are abstracted to what the LLM API looks at, *)
(* the roles and the ids of tool calls; sizes, which decide about          *)
(* truncation, are left open.                                              *)
(*                                                                         *)
(* pc[r] names where run r stands:                                         *)
(*   idle       not started             compact    summarising, truncation *)
(*   head       the loop condition      recompact  summarising, too long   *)
(*   start      onIterationStart        ending     agent_end hooks         *)
(*   llm        the LLM call            done       returned                *)
(*   tools      the tool calls          threw      threw                   *)
(*   mention    a sub-agent answers                                        *)
(* Only head is no await: what happens there depends on the run's own      *)
(* state and its abort signal.                                             *)
(***************************************************************************)
EXTENDS Integers, Sequences, SequencesExt

CONSTANTS
  Run,         \* runs of processMessage on the session
  MaxIter,     \* maxIterations
  Recent,      \* messages truncation never drops (6 in the code)
  Inherited,   \* messages a child session inherits (4 in the code)
  MaxRecovery, \* MAX_OUTPUT_RECOVERY
  Doom,        \* DOOM_LOOP_THRESHOLD
  Repeat,      \* REPETITION_THRESHOLD
  MaxCalls     \* bound: tool calls of one response

ASSUME MaxIterAssumption == MaxIter \in Nat \ {0}
ASSUME RecentAssumption == Recent \in Nat \ {0}
ASSUME ThresholdAssumption ==
  {MaxRecovery, Doom, Repeat, Inherited, MaxCalls} \subseteq Nat \ {0}

VARIABLES
  session,  \* session.messages
  summary,  \* does the session have a compaction summary?
  pc,       \* where each run stands
  loop,     \* LoopState of each run, forgotten when it is over
  child,    \* messages of the first request of the sub-agent a run started
  aborted   \* runs whose abortSignal has fired, forgotten when they are over

vars == <<session, summary, pc, loop, child, aborted>>

------------------------------------------------------------------------------
(* Messages.                                                               *)

\* Call k of the response of iteration i of run r.  The code passes on the ids
\* of the LLM, which are taken to be different here, as the LLM API has them.
CallId == Run \X (1 .. MaxIter) \X (1 .. MaxCalls)

Message == [role : {"system", "user", "assistant", "tool"}, calls : Seq(CallId)]

System == [role |-> "system", calls |-> <<>>]
User == [role |-> "user", calls |-> <<>>]
Assistant(cs) == [role |-> "assistant", calls |-> cs]
Tool(c) == [role |-> "tool", calls |-> <<c>>]

Results(cs) == [k \in 1 .. Len(cs) |-> Tool(cs[k])]

CallsOf(ms) ==
  UNION {Range(ms[i].calls) : i \in {j \in 1 .. Len(ms) : ms[j].role = "assistant"}}

\* Calls with a result after position i, and those with one in the unbroken
\* run of tool messages after it.
AnsweredAfter(ms, i) ==
  {ms[j].calls[1] : j \in {k \in (i + 1) .. Len(ms) : ms[k].role = "tool"}}

AnsweredNext(ms, i) ==
  {ms[j].calls[1] : j \in {k \in (i + 1) .. Len(ms) :
                             \A l \in (i + 1) .. k : ms[l].role = "tool"}}

\* Mutant: nothing is repaired.
RepairNothing(ms) == ms

\* Results of the calls cs that are not among the answered ones.
Missing(cs, answered) ==
  FlattenSeq([k \in 1 .. Len(cs) |->
    IF cs[k] \in answered THEN <<>> ELSE <<Tool(cs[k])>>])

\* repairOrphanedToolCalls of session.ts: calls without a result get one.
RepairCalls(ms) ==
  FlattenSeq([i \in 1 .. Len(ms) |->
    IF ms[i].role = "assistant"
    THEN <<ms[i]>> \o Missing(ms[i].calls, AnsweredNext(ms, i))
    ELSE <<ms[i]>>])

\* repairOrphanedToolResults of compaction.ts: results without a call become
\* user messages.
RepairResults(ms) ==
  [i \in 1 .. Len(ms) |->
    IF ms[i].role = "tool" /\ ms[i].calls[1] \notin CallsOf(ms) THEN User ELSE ms[i]]

\* What the summary of earlier messages adds to a prompt.
Summary == <<User, Assistant(<<>>)>>

\* Session.buildMessages for the history ms.
BuildMessages(ms) ==
  <<System>> \o (IF summary THEN Summary ELSE <<>>) \o RepairCalls(ms)

\* The last n messages of ms.
LastOf(n, ms) == SubSeq(ms, IF Len(ms) > n THEN Len(ms) - n + 1 ELSE 1, Len(ms))

\* The first request of a sub-agent on a child of the session.  The child
\* session is new and has no summary.
ChildPrompt == <<System>> \o RepairCalls(Append(LastOf(Inherited, session), User))

------------------------------------------------------------------------------
\* same stands for recentToolSigs: the equal signatures at its end, up to
\* Repeat.
LoopState ==
  [messages : Seq(Message), iteration : 0 .. MaxIter + 1, compacted : BOOLEAN,
   recovered : 0 .. MaxRecovery, errors : 0 .. Doom, same : 0 .. Repeat]

Fresh(ms) == [messages |-> ms, iteration |-> 0, compacted |-> FALSE,
              recovered |-> 0, errors |-> 0, same |-> 0]

Init ==
  /\ session = <<>>
  /\ summary = FALSE
  /\ pc = [r \in Run |-> "idle"]
  /\ loop = [r \in Run |-> Fresh(<<>>)]
  /\ child = [r \in Run |-> <<>>]
  /\ aborted = {}

Over == {"done", "threw"}

\* Runs on the session follow each other here, which the code leaves to its
\* callers and does not check: no property speaks of runs that overlap.
MayStart(r) ==
  /\ pc[r] = "idle"
  /\ \A q \in Run : pc[q] \in {"idle"} \cup Over

Goto(r, where) == pc' = [pc EXCEPT ![r] = where]

\* Run r is over, and what it kept is forgotten.
Leave(r, where) ==
  /\ Goto(r, where)
  /\ loop' = [loop EXCEPT ![r] = Fresh(<<>>)]
  /\ child' = [child EXCEPT ![r] = <<>>]
  /\ aborted' = aborted \ {r}

\* The messages ms join the prompt of r, in state st, and the session.
Add(r, st, ms) ==
  /\ loop' = [loop EXCEPT ![r] = [st EXCEPT !.messages = @ \o ms]]
  /\ session' = session \o ms

\* The message of the user joins the history, of which the run takes a copy.
StartRun(r) ==
  /\ MayStart(r)
  /\ session' = Append(session, User)
  /\ loop' = [loop EXCEPT ![r] = Fresh(BuildMessages(session'))]
  /\ Goto(r, "head")
  /\ UNCHANGED <<summary, child, aborted>>

\* The message starts with @agent: a sub-agent answers it on a child session.
StartMention(r) ==
  /\ MayStart(r)
  /\ child' = [child EXCEPT ![r] = ChildPrompt]
  /\ Goto(r, "mention")
  /\ UNCHANGED <<session, summary, loop, aborted>>

\* The sub-agent's answer is the run's, and so is what it throws.
MentionDone(r) ==
  /\ pc[r] = "mention"
  /\ \E where \in Over : Leave(r, where)
  /\ UNCHANGED <<session, summary>>

\* An iteration begins.
Iterate(r) ==
  /\ pc[r] = "head"
  /\ loop[r].iteration < MaxIter
  /\ r \notin aborted
  /\ loop' = [loop EXCEPT ![r].iteration = @ + 1]
  /\ Goto(r, "start")
  /\ UNCHANGED <<session, summary, child, aborted>>

Exhausted(r) ==
  /\ pc[r] = "head"
  /\ loop[r].iteration = MaxIter
  /\ loop' = [loop EXCEPT ![r].iteration = @ + 1]
  /\ Goto(r, "ending")
  /\ UNCHANGED <<session, summary, child, aborted>>

\* Mutant: calls that have a result get another one.
UnansweredAll(ms) ==
  LET asked == {i \in 1 .. Len(ms) : ms[i].role = "assistant" /\ ms[i].calls # <<>>}
      last == CHOOSE i \in asked : \A j \in asked : j <= i
  IN  IF asked = {} THEN <<>> ELSE Results(ms[last].calls)

\* synthesizeAbortedToolResults: results of the calls of the last assistant
\* message with calls that have none.
Unanswered(ms) ==
  LET asked == {i \in 1 .. Len(ms) : ms[i].role = "assistant" /\ ms[i].calls # <<>>}
      last == CHOOSE i \in asked : \A j \in asked : j <= i
  IN  IF asked = {} THEN <<>> ELSE Missing(ms[last].calls, AnsweredAfter(ms, last))

\* The loop sees the abort.
StopAborted(r) ==
  /\ pc[r] = "head"
  /\ loop[r].iteration < MaxIter
  /\ r \in aborted
  /\ Add(r, [loop[r] EXCEPT !.iteration = @ + 1], Unanswered(loop[r].messages))
  /\ Goto(r, "ending")
  /\ UNCHANGED <<summary, child, aborted>>

------------------------------------------------------------------------------
(* Preparing the request.                                                  *)

\* truncateOldestTurns drops the oldest cut messages after the system prompt
\* and the results whose calls went with them are repaired.
Truncated(ms, cut) == RepairResults(<<Head(ms)>> \o SubSeq(ms, cut + 2, Len(ms)))

\* onIterationStart has run and may have put a queued message of the user into
\* the session.  When more than two messages are dropped for the first time
\* they are summarised, which takes LLM calls.
Prepare(r, queued, cut) ==
  LET ms == loop[r].messages IN
  /\ pc[r] = "start"
  /\ session' = session \o queued
  /\ cut = 0 \/ cut + 1 + Recent <= Len(ms)
  /\ loop' = [loop EXCEPT ![r].messages = IF cut = 0 THEN @ ELSE Truncated(@, cut)]
  /\ Goto(r, IF cut > 2 /\ ~summary THEN "compact" ELSE "llm")
  /\ UNCHANGED <<summary, child, aborted>>

\* The summary of the dropped messages arrived, or was empty, or failed.
Summarised(r) ==
  /\ pc[r] = "compact"
  /\ summary' \in BOOLEAN
  /\ Goto(r, "llm")
  /\ UNCHANGED <<session, loop, child, aborted>>

------------------------------------------------------------------------------
(* The answer of the LLM.                                                  *)

\* A final text, or a cut one that may not be continued any more.
Answer(r) ==
  /\ pc[r] = "llm"
  /\ Add(r, loop[r], <<Assistant(<<>>)>>)
  /\ Goto(r, "ending")
  /\ UNCHANGED <<summary, child, aborted>>

\* A text cut off by the output limit is continued.
Continue(r) ==
  /\ pc[r] = "llm"
  /\ loop[r].recovered < MaxRecovery
  /\ Add(r, [loop[r] EXCEPT !.recovered = @ + 1], <<Assistant(<<>>), User>>)
  /\ Goto(r, "head")
  /\ UNCHANGED <<summary, child, aborted>>

\* The response asks for n tool calls.
CallTools(r, n) ==
  /\ pc[r] = "llm"
  /\ Add(r, loop[r], <<Assistant([k \in 1 .. n |-> <<r, loop[r].iteration, k>>])>>)
  /\ Goto(r, "tools")
  /\ UNCHANGED <<summary, child, aborted>>

\* The prompt was too long for the first time: its older half is summarised.
TooLong(r) ==
  /\ pc[r] = "llm"
  /\ ~loop[r].compacted
  /\ Goto(r, "recompact")
  /\ UNCHANGED <<session, summary, loop, child, aborted>>

\* The newer half of the messages after the system prompt.
NewerHalf(ms) == SubSeq(ms, 2 + (Len(ms) - 1) \div 2, Len(ms))

Compacted(ms) == <<System>> \o Summary \o RepairResults(NewerHalf(ms))

\* Mutant: the request is repeated at once, as often as it takes.
ReactiveCompactRetry(r) ==
  /\ pc[r] = "recompact"
  /\ summary' \in BOOLEAN
  /\ loop' = [loop EXCEPT ![r].messages = Compacted(@)]
  /\ Goto(r, "llm")
  /\ UNCHANGED <<session, child, aborted>>

\* The summary arrived, empty or not, and takes the place of the older half.
ReactiveCompact(r) ==
  /\ pc[r] = "recompact"
  /\ summary' \in BOOLEAN
  /\ loop' = [loop EXCEPT ![r].messages = Compacted(@), ![r].compacted = TRUE]
  /\ Goto(r, "head")
  /\ UNCHANGED <<session, child, aborted>>

\* The call failed, or the summary it needed: processMessage returns the
\* error as its text, without the agent_end hooks and event.
Fail(r) ==
  /\ pc[r] \in {"llm", "recompact"}
  /\ Leave(r, "done")
  /\ UNCHANGED <<session, summary>>

------------------------------------------------------------------------------
(* The tool calls.                                                         *)

Asked(r) == Last(loop[r].messages).calls

\* One of the calls delegates to a sub-agent.
Delegate(r) ==
  /\ pc[r] = "tools"
  /\ child[r] = <<>>
  /\ child' = [child EXCEPT ![r] = ChildPrompt]
  /\ UNCHANGED <<session, summary, pc, loop, aborted>>

Least(m, n) == IF m < n THEN m ELSE n

\* The loop state after a round of n calls, all of them failed or not, the
\* last k of them equal; when all are, they may continue those before.
Counted(st, n, failed, k) ==
  {[st EXCEPT !.errors = IF failed THEN @ + 1 ELSE 0, !.same = Least(s, Repeat)] :
     s \in {k} \cup (IF k = n THEN {st.same + n} ELSE {})}

Stops(st) == st.errors >= Doom \/ st.same >= Repeat

\* Mutant: the run stops before the results are recorded.
ToolsDoneStopFirst(r, failed, k) ==
  /\ pc[r] = "tools"
  /\ k <= Len(Asked(r))
  /\ \E st \in Counted(loop[r], Len(Asked(r)), failed, k) :
       IF Stops(st)
       THEN UNCHANGED <<session, loop>> /\ Goto(r, "ending")
       ELSE Add(r, st, Results(Asked(r))) /\ Goto(r, "head")
  /\ child' = [child EXCEPT ![r] = <<>>]
  /\ UNCHANGED <<summary, aborted>>

\* Mutant: the results are recorded in the prompt only.
ToolsDoneUnrecorded(r, failed, k) ==
  /\ pc[r] = "tools"
  /\ k <= Len(Asked(r))
  /\ loop' = [loop EXCEPT ![r].messages = @ \o Results(Asked(r))]
  /\ Goto(r, "head")
  /\ child' = [child EXCEPT ![r] = <<>>]
  /\ UNCHANGED <<session, summary, aborted>>

\* All calls have settled.  Their results are recorded, and the run goes on
\* unless rounds of errors or equal calls have reached their limits.
ToolsDone(r, failed, k) ==
  /\ pc[r] = "tools"
  /\ k <= Len(Asked(r))
  /\ \E st \in Counted(loop[r], Len(Asked(r)), failed, k) :
       /\ Add(r, st, Results(Asked(r)))
       /\ Goto(r, IF Stops(st) THEN "ending" ELSE "head")
  /\ child' = [child EXCEPT ![r] = <<>>]
  /\ UNCHANGED <<summary, aborted>>

\* A tool's permission check threw, and processMessage with it.
ToolsThrow(r) ==
  /\ pc[r] = "tools"
  /\ Leave(r, "threw")
  /\ UNCHANGED <<session, summary>>

------------------------------------------------------------------------------
\* The agent_end hooks have run; agent.end is published.
Finish(r) ==
  /\ pc[r] = "ending"
  /\ Leave(r, "done")
  /\ UNCHANGED <<session, summary>>

\* The abort signal of a run fires.
Abort(r) ==
  /\ pc[r] \notin {"idle"} \cup Over
  /\ r \notin aborted
  /\ aborted' = aborted \cup {r}
  /\ UNCHANGED <<session, summary, pc, loop, child>>

\* What a run does once it has started.
Step(r) ==
  \/ MentionDone(r)
  \/ Iterate(r)
  \/ Exhausted(r)
  \/ StopAborted(r)
  \/ \E queued \in {<<>>, <<User>>}, cut \in 0 .. Len(loop[r].messages) :
       Prepare(r, queued, cut)
  \/ Summarised(r)
  \/ Answer(r)
  \/ Continue(r)
  \/ \E n \in 1 .. MaxCalls : CallTools(r, n)
  \/ TooLong(r)
  \/ ReactiveCompact(r)
  \/ Fail(r)
  \/ Delegate(r)
  \/ \E failed \in BOOLEAN, k \in 1 .. MaxCalls : ToolsDone(r, failed, k)
  \/ ToolsThrow(r)
  \/ Finish(r)

Next == \E r \in Run : StartRun(r) \/ StartMention(r) \/ Step(r) \/ Abort(r)

Spec == Init /\ [][Next]_vars

\* Every await settles: buildSignal bounds an LLM call to 300 s, an approval
\* and a hook have timers, and a tool returns or throws.
Fairness == \A r \in Run : WF_vars(Step(r))

FairSpec == Spec /\ Fairness

------------------------------------------------------------------------------
(* Properties.                                                             *)

Where == {"idle", "mention", "head", "start", "llm", "tools", "compact",
          "recompact", "ending"} \cup Over

TypeOK ==
  /\ session \in Seq(Message)
  /\ summary \in BOOLEAN
  /\ pc \in [Run -> Where]
  /\ loop \in [Run -> LoopState]
  /\ child \in [Run -> Seq(Message)]
  /\ aborted \in SUBSET Run

\* What the LLM API asks of ms: each call is followed by its result, and each
\* result follows its call, with nothing but results between.
CallsHaveResults(ms) ==
  \A i \in 1 .. Len(ms) :
    ms[i].role = "assistant" => Range(ms[i].calls) \subseteq AnsweredNext(ms, i)

ResultsHaveCalls(ms) ==
  \A i \in 1 .. Len(ms) :
    ms[i].role = "tool" =>
      \E j \in 1 .. (i - 1) : /\ ms[j].role = "assistant"
                              /\ ms[i].calls[1] \in Range(ms[j].calls)
                              /\ \A k \in (j + 1) .. i : ms[k].role = "tool"

(* Every request is one the LLM API takes, whatever earlier runs left in   *)
(* the session (aborted, failed, thrown in the middle of their tools) and  *)
(* whatever truncation and compaction cut away.  Of the first request of a *)
(* sub-agent this is half true: it may begin with results of calls it did  *)
(* not inherit.                                                            *)
PromptsWellFormed ==
  \A r \in Run :
    /\ CallsHaveResults(child[r])
    /\ pc[r] = "llm" => /\ CallsHaveResults(loop[r].messages)
                        /\ ResultsHaveCalls(loop[r].messages)

(* The session never gets two results for one call: synthesised results of *)
(* an abort are only for calls that have none.                             *)
OneResult ==
  \A i, j \in 1 .. Len(session) :
    session[i].role = "tool" /\ session[j] = session[i] => i = j

(* However a run returns, each of its calls in the session has a result.   *)
CallsAnswered ==
  \A r \in Run : pc[r] = "done" =>
    \A i \in 1 .. Len(session) :
      session[i].role = "assistant" =>
        \A c \in Range(session[i].calls) :
          c[1] = r => c \in AnsweredAfter(session, i)

(* Every call and result of its own that a run shows to the LLM is         *)
(* recorded in the session, for the runs to come.                          *)
Recorded ==
  \A r \in Run : pc[r] = "llm" =>
    \A m \in Range(loop[r].messages) :
      m.calls # <<>> /\ m.calls[1][1] = r => m \in Range(session)

(* Every run comes to an end.                                              *)
RunEnds == \A r \in Run : pc[r] = "head" ~> pc[r] \in Over
==============================================================================
