------------------------------ MODULE ToolGate -------------------------------
(***************************************************************************)
(* The way of a tool call through PrismerAgent (src/agent.ts): the calls   *)
(* of a response are partitioned into batches, and each call passes the    *)
(* before_tool hooks, the permission mode of the session, the approval of  *)
(* a user, the tool itself and the after_tool hooks.  The events of a call *)
(* are collected and published with its round.  Calls are numbered in the  *)
(* order the LLM makes them; a round is the calls of one response.         *)
(*                                                                         *)
(* pc[c] names the await call c stands at:                                 *)
(*   none      not made yet             tool   the tool executes           *)
(*   queued    its batch has not begun  after  the after_tool hooks        *)
(*   hook      the before_tool hooks    child  the sub-agent of a delegate *)
(*   check     checkPermissions         done   it has a result             *)
(*   approval  waitForApproval                                             *)
(*                                                                         *)
(* Hooks are taken to be registered; without them a call goes on at once.  *)
(***************************************************************************)
EXTENDS Naturals, Sequences

CONSTANTS
  N,           \* bound: tool calls of the run
  MaxCalls,    \* bound: tool calls of one response
  Tool,        \* names a call may have, registered or not
  Bash, EnterPlan, ExitPlan, Delegate,  \* the tools the gate treats specially
  Concurrent,  \* tools whose isConcurrencySafe answers true
  Interactive, \* tools whose requiresUserInteraction answers true
  Sensitive,   \* SENSITIVE_TOOLS
  Checked,     \* tools with checkPermissions
  Id           \* the id the LLM gives each call

Call == 1 .. N
Ids == {Id[c] : c \in Call}
NoCall == 0

ASSUME BoundAssumption == N \in Nat /\ MaxCalls \in Nat \ {0}
ASSUME ToolAssumption ==
  /\ {Bash, EnterPlan, ExitPlan, Delegate} \subseteq Tool
  /\ Concurrent \cup Interactive \cup Sensitive \cup Checked \subseteq Tool
\* The plan-mode tools define no isConcurrencySafe; delegate is not registered.
ASSUME SerialAssumption ==
  Concurrent \cap {EnterPlan, ExitPlan, Delegate} = {}
ASSUME IdAssumption == DOMAIN Id = Call

VARIABLES
  state,     \* of the run: head, llm, tools, done, threw
  perm,      \* session.permissionContext
  asked,     \* calls made so far
  tool,      \* name of each call
  matches,   \* do the arguments of the call match a sensitive pattern?  They
             \* are followed until the tool begins, which has read them then.
  pc,        \* where each call stands
  resolver,  \* approvalResolvers: per id the call it resolves, or NoCall
  timers,    \* calls whose approval timer is armed
  events,    \* events collected for each call
  out,       \* calls whose results are in the history and events published
  approved,  \* calls a user has approved
  aborted    \* has the abort signal fired?

vars == <<state, perm, asked, tool, matches, pc, resolver, timers, events,
          out, approved, aborted>>

Mode == {"default", "plan", "auto", "bypass"}
Permission == [mode : Mode, pre : Mode \cup {"none"}]

\* A session as its host sets it up, or left in plan mode by an earlier run.
SessionPermission ==
  [mode : Mode \ {"plan"}, pre : {"none"}] \cup [mode : {"plan"}, pre : Mode \ {"plan"}]

Init ==
  /\ state = "head"
  /\ perm \in SessionPermission
  /\ asked = 0
  /\ tool = [c \in Call |-> Bash]
  /\ matches = [c \in Call |-> FALSE]
  /\ pc = [c \in Call |-> "none"]
  /\ resolver = [i \in Ids |-> NoCall]
  /\ timers = {}
  /\ events = [c \in Call |-> <<>>]
  /\ out = <<>>
  /\ approved = {}
  /\ aborted = FALSE

Queued == {c \in Call : pc[c] = "queued"}

Waiting == {"hook", "check", "approval", "tool", "after", "child"}
Active == {c \in Call : pc[c] \in Waiting}

\* The two shapes of arguments a call of t may have; only those of bash are
\* looked at.
Shapes(t) == IF t = Bash THEN BOOLEAN ELSE {FALSE}

NeedsApproval(t, m) == t \in Sensitive /\ (t = Bash => m)

------------------------------------------------------------------------------
(* The run: responses and batches.                                         *)

\* The loop condition, the only place where the run itself looks at the signal.
Ask ==
  /\ state = "head"
  /\ ~aborted
  /\ state' = "llm"
  /\ UNCHANGED <<perm, asked, tool, matches, pc, resolver, timers, events,
                 out, approved, aborted>>

\* The response has n tool calls.
CallTools ==
  /\ state = "llm"
  /\ \E n \in 1 .. MaxCalls :
       LET new == (asked + 1) .. (asked + n) IN
       /\ asked + n <= N
       /\ asked' = asked + n
       /\ \E ts \in [new -> Tool] : \E ms \in [new -> BOOLEAN] :
            /\ \A c \in new : ms[c] \in Shapes(ts[c])
            /\ tool' = [c \in Call |-> IF c \in new THEN ts[c] ELSE tool[c]]
            /\ matches' =
                 [c \in Call |-> IF c \in new THEN ms[c] ELSE matches[c]]
       /\ pc' = [c \in Call |-> IF c \in new THEN "queued" ELSE pc[c]]
  /\ state' = "tools"
  /\ UNCHANGED <<perm, resolver, timers, events, out, approved, aborted>>

\* Mutant: every batch is run with Promise.all, and all calls are one batch.
NextBatchAll == Queued

\* partitionToolCalls: a batch is one call, or the concurrency-safe calls
\* that follow each other.
NextBatch ==
  {c \in Queued :
     \/ \A b \in Queued : c <= b
     \/ \A b \in Queued : b <= c => tool[b] \in Concurrent}

\* The start of executeToolCall, up to its first await.
Entered(c) ==
  CASE aborted -> "done"
    [] ~aborted /\ tool[c] = Delegate -> "child"
    [] OTHER -> "hook"

StartBatch ==
  /\ state = "tools"
  /\ Active = {}
  /\ Queued # {}
  /\ pc' = [c \in Call |-> IF c \in NextBatch THEN Entered(c) ELSE pc[c]]
  /\ UNCHANGED <<state, perm, asked, tool, matches, resolver, timers, events,
                 out, approved, aborted>>

\* Mutant: the batch is started and not awaited.
PublishEarly ==
  /\ state = "tools"
  /\ Queued = {}
  /\ out' = [c \in 1 .. asked |-> c]
  /\ state' = "head"
  /\ UNCHANGED <<perm, asked, tool, matches, pc, resolver, timers, events,
                 approved, aborted>>

\* All batches have returned: their events are published and their results
\* join the history, both in the order of the calls.
Publish ==
  /\ state = "tools"
  /\ Active = {}
  /\ Queued = {}
  /\ out' = [c \in 1 .. asked |-> c]
  /\ state' = "head"
  /\ UNCHANGED <<perm, asked, tool, matches, pc, resolver, timers, events,
                 approved, aborted>>

\* The loop ends, for whatever reason, and agent.end is published.
Finish ==
  /\ state \in {"head", "llm"}
  /\ state' = "done"
  /\ UNCHANGED <<perm, asked, tool, matches, pc, resolver, timers, events,
                 out, approved, aborted>>

Abort ==
  /\ state \in {"head", "llm", "tools"}
  /\ ~aborted
  /\ aborted' = TRUE
  /\ UNCHANGED <<state, perm, asked, tool, matches, pc, resolver, timers,
                 events, out, approved>>

------------------------------------------------------------------------------
(* One call: executeToolCall from await to await.                          *)

Move(c, to, evs) ==
  /\ pc' = [pc EXCEPT ![c] = to]
  /\ events' = [events EXCEPT ![c] = @ \o evs]

\* enter_plan_mode and exit_plan_mode; other tools leave the mode alone.
PermAfter(t) ==
  CASE t = EnterPlan -> [mode |-> "plan", pre |-> perm.mode]
    [] t = ExitPlan ->
         [mode |-> IF perm.pre = "none" THEN "default" ELSE perm.pre,
          pre |-> "none"]
    [] OTHER -> perm

\* The tool begins, with the last of evs; what the plan-mode tools do, they
\* do before any await.
Begin(c, evs) ==
  /\ Move(c, "tool", evs)
  /\ perm' = PermAfter(tool[c])

\* waitForApproval: the resolver and its timer are keyed by the call's id.
WaitForApproval(c) ==
  /\ Move(c, "approval", <<"required">>)
  /\ resolver' = [resolver EXCEPT ![Id[c]] = c]
  /\ timers' = timers \cup {c}
  /\ UNCHANGED perm

\* The call has permission; m are its arguments.
Allow(c, m) ==
  \/ /\ NeedsApproval(tool[c], m)
     /\ WaitForApproval(c)
  \/ /\ ~NeedsApproval(tool[c], m)
     /\ Begin(c, <<"start">>)
     /\ UNCHANGED <<resolver, timers>>

Deny(c) ==
  /\ Move(c, "done", <<"end">>)
  /\ UNCHANGED <<perm, resolver, timers>>

\* What the permission mode says of tool t.
Policy(t) ==
  CASE perm.mode \in {"plan", "auto"} /\ t \in Interactive -> "deny"
    [] perm.mode = "default" /\ t \in Checked -> "check"
    [] OTHER -> "allow"

\* A before_tool hook answers that the call must not proceed.
HookBlocks(c) ==
  /\ pc[c] = "hook"
  /\ Move(c, "done", <<>>)
  /\ UNCHANGED <<state, perm, asked, tool, matches, resolver, timers, out,
                 approved, aborted>>

\* Mutant: whether approval is needed is decided before the hooks.
HookPassesUnseen(c) ==
  /\ pc[c] = "hook"
  /\ \E m \in Shapes(tool[c]) :
       /\ matches' = [matches EXCEPT ![c] = m]
       /\ \/ Policy(tool[c]) = "deny" /\ Deny(c)
          \/ /\ Policy(tool[c]) = "check"
             /\ Move(c, "check", <<>>)
             /\ UNCHANGED <<perm, resolver, timers>>
          \/ Policy(tool[c]) = "allow" /\ Allow(c, matches[c])
  /\ UNCHANGED <<state, asked, tool, out, approved, aborted>>

\* The hooks have answered, thrown or timed out, and may have replaced the
\* arguments; the permission mode decides what comes next.
HookPasses(c) ==
  /\ pc[c] = "hook"
  /\ \E m \in Shapes(tool[c]) :
       /\ matches' = [matches EXCEPT ![c] = m]
       /\ \/ Policy(tool[c]) = "deny" /\ Deny(c)
          \/ /\ Policy(tool[c]) = "check"
             /\ Move(c, "check", <<>>)
             /\ UNCHANGED <<perm, resolver, timers>>
          \/ Policy(tool[c]) = "allow" /\ Allow(c, m)
  /\ UNCHANGED <<state, asked, tool, out, approved, aborted>>

\* A before_tool hook that has timed out still holds the arguments and changes
\* them while the call waits.
HookLate(c) ==
  /\ pc[c] \in {"check", "approval"}
  /\ \E m \in Shapes(tool[c]) : matches' = [matches EXCEPT ![c] = m]
  /\ UNCHANGED <<state, perm, asked, tool, pc, resolver, timers, events, out,
                 approved, aborted>>

\* checkPermissions denies, or answers allow or ask, which are the same.
CheckAnswers(c) ==
  /\ pc[c] = "check"
  /\ Deny(c) \/ Allow(c, matches[c])
  /\ UNCHANGED <<state, asked, tool, matches, out, approved, aborted>>

\* checkPermissions throws: the run throws, and the other calls of the batch
\* go on with nobody waiting for them.
CheckThrows(c) ==
  /\ pc[c] = "check"
  /\ Move(c, "done", <<>>)
  /\ state' = "threw"
  /\ UNCHANGED <<perm, asked, tool, matches, resolver, timers, out, approved,
                 aborted>>

\* resolveApproval(i, TRUE)
Approve(i) ==
  LET c == resolver[i] IN
  /\ c # NoCall
  /\ resolver' = [resolver EXCEPT ![i] = NoCall]
  /\ Begin(c, <<"response", "start">>)
  /\ approved' = approved \cup {c}
  /\ UNCHANGED <<state, asked, tool, matches, timers, out, aborted>>

\* resolveApproval(i, FALSE)
Reject(i) ==
  LET c == resolver[i] IN
  /\ c # NoCall
  /\ resolver' = [resolver EXCEPT ![i] = NoCall]
  /\ Move(c, "done", <<"response">>)
  /\ UNCHANGED <<state, perm, asked, tool, matches, timers, out, approved,
                 aborted>>

\* Mutant: the timer removes the resolver and leaves its promise pending.
TimerForgets(c) ==
  /\ c \in timers
  /\ timers' = timers \ {c}
  /\ resolver' = [resolver EXCEPT ![Id[c]] = NoCall]
  /\ UNCHANGED <<state, perm, asked, tool, matches, pc, events, out, approved,
                 aborted>>

\* The approval timer of c: whatever resolver is registered under its id is
\* removed, but the promise it resolves is that of c.
Timer(c) ==
  /\ c \in timers
  /\ timers' = timers \ {c}
  /\ resolver' = [resolver EXCEPT ![Id[c]] = NoCall]
  /\ IF resolver[Id[c]] # NoCall /\ pc[c] = "approval"
     THEN Move(c, "done", <<"response">>)
     ELSE UNCHANGED <<pc, events>>
  /\ UNCHANGED <<state, perm, asked, tool, matches, out, approved, aborted>>

\* Mutant: tool.end is published for tools that succeed only.
ToolReturnsSilent(c) ==
  /\ pc[c] = "tool"
  /\ Move(c, "after", <<"end">>) \/ Move(c, "after", <<>>)
  /\ UNCHANGED <<state, perm, asked, tool, matches, resolver, timers, out,
                 approved, aborted>>

\* The tool returns or throws.
ToolReturns(c) ==
  /\ pc[c] = "tool"
  /\ Move(c, "after", <<"end">>)
  /\ UNCHANGED <<state, perm, asked, tool, matches, resolver, timers, out,
                 approved, aborted>>

\* The after_tool hooks have answered, thrown or timed out.
HooksReturn(c) ==
  /\ pc[c] = "after"
  /\ Move(c, "done", <<>>)
  /\ UNCHANGED <<state, perm, asked, tool, matches, resolver, timers, out,
                 approved, aborted>>

\* handleDelegateCall: the sub-agent, which runs on a session, with a mode
\* and approvals of its own, answers or fails.
SubAgentReturns(c) ==
  /\ pc[c] = "child"
  /\ Move(c, "done", <<>>)
  /\ UNCHANGED <<state, perm, asked, tool, matches, resolver, timers, out,
                 approved, aborted>>

------------------------------------------------------------------------------
RunStep == Ask \/ CallTools \/ StartBatch \/ Publish \/ Finish

CallStep(c) ==
  \/ HookBlocks(c) \/ HookPasses(c)
  \/ CheckAnswers(c) \/ CheckThrows(c)
  \/ ToolReturns(c) \/ HooksReturn(c)
  \/ SubAgentReturns(c)

Next ==
  \/ RunStep
  \/ Abort
  \/ \E c \in Call : CallStep(c) \/ Timer(c) \/ HookLate(c)
  \/ \E i \in Ids : Approve(i) \/ Reject(i)

Spec == Init /\ [][Next]_vars

\* Hooks, tools, checks and sub-agents come to an end and timers fire; users
\* need not answer, and late hooks need not change anything.
Fairness ==
  /\ WF_vars(RunStep)
  /\ \A c \in Call : WF_vars(CallStep(c)) /\ WF_vars(Timer(c))

FairSpec == Spec /\ Fairness

------------------------------------------------------------------------------
(* Properties.                                                             *)

EventType == {"required", "response", "start", "end"}

TypeOK ==
  /\ state \in {"head", "llm", "tools", "done", "threw"}
  /\ perm \in Permission
  /\ asked \in 0 .. N
  /\ tool \in [Call -> Tool]
  /\ matches \in [Call -> BOOLEAN]
  /\ pc \in [Call -> {"none", "queued", "done"} \cup Waiting]
  /\ resolver \in [Ids -> Call \cup {NoCall}]
  /\ timers \in SUBSET Call
  /\ events \in [Call -> Seq(EventType)]
  /\ out \in Seq(Call)
  /\ approved \in SUBSET Call
  /\ aborted \in BOOLEAN

(* "In headless/auto modes, tools marked requiresUserInteraction are       *)
(* auto-denied", "in plan mode, write/destructive tools are denied": such  *)
(* a tool never begins while the session is in one of these modes, however *)
(* long its call waited since the mode was looked at.                      *)
Starts(c) == pc[c] # "tool" /\ pc'[c] = "tool"
ModeRespected ==
  [][\A c \in Call :
       Starts(c) /\ tool[c] \in Interactive => perm.mode \in {"default", "bypass"}]_vars

(* A sensitive call executes only after a user has approved it, where what *)
(* counts are the arguments the tool begins with: as the hooks have left   *)
(* them, late ones included.                                               *)
ApprovedAsRun ==
  \A c \in Call :
    pc[c] \in {"tool", "after"} /\ NeedsApproval(tool[c], matches[c])
      => c \in approved

\* A user can answer call c, and its own timer will if nobody does.
Answerable(c) == resolver[Id[c]] = c /\ c \in timers

Waits(c) == pc[c] = "approval"

(* Whichever ids the LLM gives the calls, a call that asks for approval can *)
(* be answered, and by its own timer, until a call with the same id asks in *)
(* its turn or the timer of such a call, left behind when it was answered,  *)
(* fires: nothing else strands a call (waitForApproval, resolveApproval).   *)
StrandedByItsId ==
  [][\A c \in Call : Waits(c)' =>
       \/ Answerable(c)'
       \/ /\ Waits(c)
          /\ Answerable(c) =>
               \E d \in Call \ {c} :
                 /\ Id[d] = Id[c]
                 /\ d \in timers \ timers' \/ (~Waits(d) /\ Waits(d)')]_vars

(* A call beside which another one is under way is safe to run beside it.  *)
Alone ==
  \A c, d \in Active : c # d => {tool[c], tool[d]} \subseteq Concurrent

(* INV-1 of docs/TOOL_COMPLETION_INVARIANTS.md: when the run ends, every   *)
(* tool.start has been followed by the tool.end of its call, and every     *)
(* approval that was required by a response.                               *)
Followed(s, e, f) ==
  \A i \in 1 .. Len(s) : s[i] = e => \E j \in i + 1 .. Len(s) : s[j] = f
EventsPaired ==
  state = "done" =>
    \A c \in 1 .. asked :
      /\ pc[c] = "done"
      /\ Followed(events[c], "start", "end")
      /\ Followed(events[c], "required", "response")

(* INV-2: the results of the calls reach the history once, in the order of *)
(* the calls, and not before the call has ended: partitioned execution     *)
(* implements the same OrderedDelivery as the streaming executor.          *)
Delivery == INSTANCE OrderedDelivery WITH
  done <- {c \in Call : pc[c] = "done"}
DeliverySpec == Delivery!Spec

(* Every run comes to an end, whatever users, hooks and tools answer,      *)
(* unless the LLM repeats an id and so displaces the resolver of a call    *)
(* that waits for its approval: that call waits for ever.                  *)
Displaced(c) ==
  Waits(c) /\ resolver[Id[c]] # c /\ \E d \in Call \ {c} : Id[d] = Id[c]
RunEnds == <>(state \in {"done", "threw"} \/ \E c \in Call : Displaced(c))
==============================================================================
