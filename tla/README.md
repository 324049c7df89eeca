# LuminClaw: TLA+ models, model checking and proofs

LuminClaw (`@prismer/agent-core`) is a TypeScript agent runtime. A gateway
server receives chat messages, a loop implementation decides what to do with
them, and an agent alternates LLM calls and tool calls over a session's
message history. This directory models the parts of it whose correctness
depends on the order of events, checks them with TLC on small instances, and
proves the central safety properties with TLAPS for every instance.

Node runs one callback at a time, so throughout these modules an action is
what the code does between two `await`s, and any other callback may run while
a chain of callbacks stands at one.

## 1. Inventory

State, operations and hazards of each component. Paths are relative to `src/`
of the repository's own `src/` directory; `PROJECT.json` repeats the list with
the status of each.

| component | state it keeps | operations | what is hard | what makes it correct |
|---|---|---|---|---|
| dual loop `loop/dual.ts` | task contexts (abort controller and bus), task store, message queue, eviction timer, shared world model and router | processMessage, runInnerLoop, cancel, resumeTask, loadPersistedTasks, shutdown | the outer loop returns at once and inner loops run unattended; cancel, eviction, resumption and shutdown come at any await | no accepted message is lost; a task ends once and as it is announced; every running task can be cancelled |
| task machine `task/machine.ts` | none | transition, complete, fail, interrupt | calls from chains that do not know of each other | statuses move along `VALID_TRANSITIONS` only |
| task store `task/store.ts` | Map of tasks in insertion order | create, get, getActiveForSession, evictCompleted | eviction while a chain runs | the active task of a session is found |
| message queue `task/message-queue.ts` | messages per task | enqueue, drainForTask | draining on three paths | each message leaves once |
| persistence `task/disk.ts` | metadata and transcript of each task | writeMeta, appendTurn, readTranscript, enumerateSessionTasks | nobody waits for writes; the process stops anywhere | disk does not claim what did not happen; the server comes up again |
| streaming executor `streaming-executor.ts` | queue of tool calls | addTool, getCompletedResults, drain | tools complete in any order while more are added | exclusion, progress, ordered delivery |
| agent loop `agent.ts` | loop state, copy of the messages | processMessage, sub-agents, truncation, compaction, abort | a run may end anywhere and the next one uses its history | every request is one the LLM API takes |
| session `session.ts`, `compaction.ts`, `microcompact.ts` | messages, summary, directives, permission mode | addMessage, buildMessages, createChild, repairs | runs interleave on one session | each call has one result |
| permissions, plan mode, approvals `permissions.ts`, `tools/plan-mode.ts`, `agent.ts` | mode of the session, pending approvals | executeToolCall's gates | check before await, use after; timers keyed by reused ids | no mutation in plan mode; approvals settle |
| event bus, SSE `sse.ts` | handlers, bounded buffer | publish, subscribe, replay | slow and late subscribers | order, bounded loss |
| directive router `loop/directive-router.ts`, view stack, scanner | buffered directives, known files | route, drain, scan | shared by concurrent inner loops, replaced by each | a directive reaches its task, or one it ran with |
| gateway server `server.ts` | per socket: receive buffer, heartbeat, current abort controller, session id | data, heartbeat, chat.send, chat.cancel, close; task routes | one frame per chunk, pongs behind other frames, overlapping chat.send; routes that decide by a copy after an await | cancel reaches the run it means; frames are handled, responsive clients stay; answers are true |
| providers `provider.ts` | none between calls | chat, chatStream, fallback | a stream that fails half way | one answer per request |
| hooks `hooks.ts` | registered hooks | four hook points with timeouts | late hooks | the loop never waits for ever |
| set-up, single loop `index.ts`, `loop/single.ts` | shared tools and agents | ensureInitialized, runAgent | concurrent first calls | fully loaded or not returned |
| channels `channels/*.ts` | offsets, sockets, reconnection timers | startAll, stopAll, poll, handleUpdate, send | polls that get lost, batches that fail half way, crashes with the offset in memory only | each update handled, once per process |
| memory `memory*.ts`, world model, artifacts | files, maps | store, recall | read-modify-write of files | nothing stored is lost |
| configuration, prompts, skills, registries, CLI, logging | little | parsing, text | - | - |

How they interact: a channel, a socket or an HTTP request calls
`loop.processMessage` of the one shared loop. The single loop awaits a run of
the agent. The dual loop creates a task, answers, and lets an inner loop run
the agent with nobody waiting; it talks to the rest through the message queue,
the event buses and the files of `task/disk.ts`. The agent's run awaits the
provider and the tools, and keeps its messages in a session that the next run
continues. All of it shares one thread.

What is left out, and why, is section 6.

## 2. Modules

| module | models | abstract specification |
|---|---|---|
| `TaskMachine` | statuses and `VALID_TRANSITIONS` | |
| `TaskLifecycle` | what is promised about task statuses | |
| `DualLoop` (`MCDualLoop`) | `loop/dual.ts` with `task/store.ts`, `task/message-queue.ts`, and the agent reduced to its iterations | implements `TaskLifecycle` |
| `TaskDisk` | `task/disk.ts`, `persistState`, `loadPersistedTasks` | |
| `OrderedDelivery` | what a tool executor promises the history | |
| `StreamingExecutor` (`MCStreamingExecutor`) | `streaming-executor.ts` | implements `OrderedDelivery` |
| `AgentLoop` | the loop of `agent.ts` with `session.ts` and the repairs of `compaction.ts` | |
| `ToolGate` (`MCToolGate`) | `executeToolCall` and `executeToolsPartitioned` of `agent.ts`, with `permissions.ts`, `hooks.ts`, `tools/plan-mode.ts` | implements `OrderedDelivery` |
| `TaskRoutes` | the cancel and resume routes of `server.ts`, on `DualLoop` | implements `DualLoop` |
| `Directives` (`MCDirectives`) | `loop/directive-router.ts` and its use by concurrent inner loops, on `DualLoop` | |
| `Gateway` | a WebSocket of `server.ts` | |
| `TelegramChannel` | `channels/telegram.ts` and `channels/manager.ts`, against the update queue of the Bot API | |
| `*_proofs` | the theorems about the module they extend; `LoopClients_proofs` those about `TaskRoutes` and `Directives` | |

Definitions whose comment begins with "Mutant:" are deliberate bugs. No
specification uses them; each is a changed form of one definition that a
property must notice, and shows that the property depends on that definition.

### DualLoop

`pc[t]` names the await the callback chain of task `t` stands at. `ctx` is the
key set of `taskContexts`, `stored` and `older` the Map of the task store with
its insertion order, `queue` and `fate` the message queue and what became of
each message, `history` the user messages of each `Session`, `prompt` the copy
the agent of a task took of it. The agent's own loop is reduced to its
iteration count, because that is what the dual loop sees of it: the callback at
an iteration's start, and the end. `Init` is a server that has loaded any set of
interrupted and ended tasks.

### TaskDisk

Each task has up to `MaxWrites` background writes, each standing at an await
of `persistState` or of the two initial writes; a write carries the status its
metadata was built with. Task statuses move as `DualLoop` allows, with the
moves the code persists starting a write. `Stop` is a crash or `process.exit`
at any point, `Start` is `loadPersistedTasks`. With `Faults`, writes are
refused and appends leave part of a line.

### StreamingExecutor

`tool` is the queue with the status of each call, `safe` what
`isConcurrencySafe` said. `ProcessQueue` starts, in one step, the set of calls
the loop of `processQueue` starts one after the other; `LoopAgrees` compares
it with the loop written out. `at` is where the consumer of `drain` stands.
`Rejected` is an `executeFn` that rejects, which leaves its tool executing.

### AgentLoop

A message is its role and the ids of its tool calls. Sizes are left open, so
truncation may cut any number of messages the code can cut, and the LLM may
answer anything, reject a prompt as too long or fail. `pc[r]` is the await run
`r` stands at; `loop[r]` is the `LoopState`, `session` the history the runs
share. A sub-agent is reduced to its first request (`child`), which is built
from the parent's history. Runs on the session follow each other (`MayStart`),
which the code leaves to its callers and does not check: the properties are
those of a session used so, and section 5 has what becomes of the history
otherwise. Calls are named by run, iteration and position; the code
passes on the ids of the LLM, so the model takes these to be different and not
empty, as the LLM API has them (section 5 says what the code does otherwise).
The thresholds of the code (6 recent messages, 3
continuations, 3 rounds of errors) are constants, smaller in the runs.

### ToolGate

`AgentLoop` takes a tool call to be one step; `ToolGate` is what happens in it.
Calls are numbered in the order the LLM makes them, and `pc[c]` is the await of
`executeToolCall` call `c` stands at: the hooks before the tool, the tool's own
permission check, the approval, the tool, the hooks after it, or the sub-agent
of a delegation. What lies between two awaits is one action: `HookPasses` reads
the permission mode and goes on to denial, check, approval or execution, and
the plan-mode tools change the mode in the step that begins them. `perm` is
`session.permissionContext`, `resolver` the map `approvalResolvers`, keyed by
the id the LLM gave the call (the constant `Id`, not assumed to be injective:
the code takes what the LLM sends, and `''` if it sends none,
`provider.ts:318`), and `timers` the approval timers that are still armed:
answering an approval does not disarm its timer. All timers have the same delay;
the model lets them fire in any order. `HookLate` is a hook that has timed out
and changes `call.arguments`, which it still holds, while the call waits for a
check or an approval; `matches` follows the arguments until the tool begins. The
run looks at its abort signal at the loop head only (`Ask`), a call when it
enters `executeToolCall` (`Entered`). `StartBatch` starts the first batch
`partitionToolCalls` would make of the calls left; `events` are collected per
call and become visible with `Publish`. Hooks are taken to be registered, which
gives every call the awaits it can have. One run uses the session; what
overlapping runs do to it is in section 5.

### TaskRoutes

`TaskRoutes` extends `DualLoop` with HTTP requests (`request`). A cancellation
looks the task up and takes a copy of its status (`CancelArrives`), awaits the
body of the request (`stage = "body"`), and then decides by the copy
(`CancelDecides`, `CancelConflicts`, `CancelMalformed`), while the inner loops,
evictions, shutdowns and other requests go on. A resumption stands in
`resumeTask` at `readTranscript` (`stage = "replay"`) until it is replayed or
refused. The steps of the loop are `DualLoop`'s own, so `LoopSpec`, which is
`DualLoop`'s specification, is a property of this module.

### Directives

`Directives` extends `DualLoop` with `this.directiveRouter`: the task whose bus
it publishes on (`router`) and its `checkpointBuffer` (`buffer`). `StartAgent`
is conjoined with `NewRouter`, which drops router and buffer of an inner loop
that may still run; `Finish` with `DrainCheckpointBuffer`, which drains whatever
is buffered, whoever's it is. A directive is unused until an agent's tool, or
the file scan at the start of an iteration, publishes it. `author` and
`shownTo` record what became of it, `together` which agents ran at the same
time.

### Gateway

What the client writes is on its way (`written`, of which the first frame may
have arrived in part), then whole in the receive buffer (`recvBuffer`), then
taken. `Data(n, cut)` is one `'data'` event: a chunk that completes `n` frames
and may end in the middle of the next, and of which the handler takes one
frame. What the frame does is a disjunct of `Handle`. `Heartbeat` is the
interval timer with its count of missed pongs. A chat is running from its
frame to the end of `processMessage` (`Resolve`, `Reject`), and `activeAbort`
names the chat whose controller is the active one. `late`, `crowded` and
`overlap` are history variables: they record what the properties speak of, and
no action reads them.

### TelegramChannel

`at` names the await of the poll loop, `offset` the first update the next
`getUpdates` asks for, `cur` and `upto` what is left of the batch. `confirmed`
is the state of the Bot API, which is external: it forgets updates below the
offset of a poll that reaches it, even if the answer is lost (`PollThrows` at
`"reply"`). `Exit` ends the process at any await and `StartAll` starts another
with offset 0.

## 3. Runs

Runs that pass:

| run | instance | shows |
|---|---|---|
| `DualLoop_safety` | 2 tasks, 1 session, 2 messages, 2 iterations, 2 concurrent resumptions; symmetry of tasks and messages (1.1 million states) | no queued message is lost (`NoSilentLoss`), or waits for a chain that will not look (`NoStrandedMessage`); running chains are cancellable (`Cancellable`); a cancelled task ends failed and unannounced (`CancelIsFinal`, `HonestOutcome`); statuses refine `TaskLifecycle` (`LifecycleSpec`) |
| `DualLoop_liveness` | 2 tasks, 1 message, no symmetry | chains end (`TaskSettles`), queued messages are resolved (`MessageResolved`), outcomes are announced (`OutcomeAnnounced`) |
| `TaskDisk_safety` | file faults, several stops | `NoFalseEnd`: disk never says ended of a task that has not ended so; `LoadSucceeds`: metadata can always be read |
| `StreamingExecutor` | up to 5 calls of any safety, rejections | `Barrier`, `NeverIdle`, `AllDelivered`, `LoopAgrees`, refinement of `OrderedDelivery` (`DeliverySpec`), `DrainEnds` |
| `AgentLoop` | 2 runs one after the other, 2 iterations, 1 call per response (0.6 million states) | every request is well formed (`PromptsWellFormed`), calls have one result (`OneResult`, `CallsAnswered`), the history forgets nothing it was given (`Recorded`), runs end (`RunEnds`) |
| `ToolGate` | 3 calls in rounds of 1 or 2, 6 tools, any initial mode, two calls with the same id (0.7 million states) | no interactive tool begins in plan or headless mode (`ModeRespected`), no sensitive one unapproved (`ApprovedAsRun`), unsafe tools run alone (`Alone`), events are complete (`EventsPaired`), a call that asks for approval can be answered, and by its own timer, until a call with its id asks or has its timer fire (`StrandedByItsId`), refinement of `OrderedDelivery` (`DeliverySpec`), the run ends unless a call waits whose resolver one with its id displaced (`RunEnds`) |
| `TaskRoutes` | 3 requests about 1 task in any state it can be loaded or created in, 1 message (0.2 million states) | who is told "cancelled" has a task that is over (`CancelledIsOver`), of several resumptions one is accepted (`ResumedOnce`), the routes use the loop only as `DualLoop` allows (`LoopSpec`) |
| `Directives` | 2 tasks of 1 session or of 2, a realtime and a checkpoint directive; symmetry of tasks and of sessions (0.8 million states) | no directive reaches a task that started after its author ended (`NoLateDirective`), a completed task that had the loop to itself has shown everything (`CompletedShowsAll`) |
| `Gateway` | 2 chats, 1 other frame, 3 frames on their way, chunks of up to 3 frames (0.6 million states) | a chat without overlap can be cancelled and is aborted with its socket (`Abortable`), a client that answers pings is dropped only if frames piled up (`DroppedWithCause`), a chat.send is handled at last (`SendHandled`) |
| `TelegramChannel` | 4 updates, 1 of them ignored, 3 processes | the Bot API forgets only what the agent has finished with (`ConfirmedIsDone`), no process repeats an update (`OncePerLife`), each is handled at last unless the channel is stopped or never came up (`HandledAtLast`) |

One session suffices in `DualLoop` for everything in which tasks meet: tasks of
different sessions share only the contexts, which the model has for both tasks
whichever session they are in. Two tasks are enough for a cancellation of all,
for a queue that outlives its task, and for two chains on one session; two
messages for one to be queued before and one after a drain. Three overlapping
writes let a third overtake two. In `AgentLoop`, two runs suffice because a run
leaves to the next only the history and the summary; two iterations let
a result of the first be cut from its call in the second, and one message that
truncation never drops (`Recent = 1`) makes every cut reachable that
six would in a longer history. Five calls in `StreamingExecutor` admit two
groups of concurrent calls around an exclusive one. Three calls in rounds of at
most two in `ToolGate` admit a pair of concurrent calls after or before a
serial one, a mode changed in an earlier round or by the call before, and, as
the first two have the same id (`RepeatedIds`), a timer of an earlier approval
that fires during a later one and two approvals at once under one id; the third
has an id of its own. With ids that all differ no call is ever displaced, and
`RunEnds` says that every run ends. The six tools are one of each kind the gate
distinguishes.

In `TaskRoutes` requests meet only over one task; three of them admit two
resumptions that both found the task interrupted and a cancellation between
them, and `MaxResume = 3` bounds nothing that three requests could do. In
`Directives` a task that outlives another and one that starts after both
differ only by who is in `together`, which two tasks have in every
combination; one directive of each delivery is enough as each is routed by
itself. In `Gateway` three frames beside each other are what the heartbeat's
limit of three needs; two chats are one that runs while another is sent or
ends. `MaxOther`, `MaxWritten` and `MaxExtra` bound what the client does, not
the server. In `TelegramChannel` four updates admit a batch with an ignored
update in the middle that fails before and after it, and a later batch; three
processes admit a crash of a process that was itself started after a crash.

Runs in which TLC refutes what a document or a comment says (findings in
`PROJECT.json` quote the lines):

| run | refuted | how |
|---|---|---|
| `DualLoop_steering` | queued messages steer the running task (docs/DUAL_LOOP_ARCHITECTURE.md) | they reach the session, not the copy the agent sends |
| `Gateway_timeout` | three missed pongs mean the "client [is] truly gone" (comment in server.ts) | three frames that arrive in one chunk with others leave the pongs behind them waiting for the next data event; the client has answered every ping in time and is dropped |

`CHECK_DEADLOCK FALSE` is set everywhere: a server without requests, and a run
that is over, may stop.

Fairness is weak fairness of what the code itself continues: the chain of a
task and a suspended resumption (`DualLoop`), the steps of a run (`AgentLoop`),
the consumer of `drain` and the tools (`StreamingExecutor`), the steps of the
run and of each call, and the approval timers (`ToolGate`), the arrival of what
was written, the heartbeat and the end of a chat (`Gateway`; that chats end is
`RunEnds` and `TaskSettles`), the restart of a process, the end of its `init`
and its poll loop (`TelegramChannel`). The latter also assumes strong fairness
of `GetUpdates` and `PollReturns`: the Bot API may fail polls for ever so long,
but of infinitely many some are answered; without that no client of it could
promise anything. The rest is justified by timers: `buildSignal` bounds an LLM call to 300 s, the provider bounds calls
without a signal likewise, the planning call is raced with 5 s, approvals and
hooks have timeouts. Tools are assumed to return or throw. Nothing is assumed
of users: messages, cancellations, aborts, approvals, pongs and resumptions need
never come.

## 4. Proofs

The constants are arbitrary (any sets of tasks, sessions, messages; any
bounds), under the named assumptions of the modules.

`DualLoop_proofs`. None of the safety properties is inductive. What makes them
so is `Phase` (where a chain stands tells what the status of its task can be),
`Known` (which Task objects can be stored, resumed or evicted) and `Started`
(aborts and contexts belong to started chains). `IndInv` joins these with the
properties. The queue operations have lemmas of their own (`DrainFacts`,
`TerminationDrain`, `EnqueueFacts`), one lemma per action carries `IndInv`
across it, and `NextInv` collects them. Theorems: `TypeCorrect`,
`MessagesAreSafe`, `MessagesAreNotStranded`, `RunningIsCancellable`,
`CancellationIsFinal`, `OutcomesAreHonest`, and `ImplementsLifecycle`, the
refinement of `TaskLifecycle`.

`TaskDisk_proofs`. `NoFalseEnd` needs two facts about writes in flight: the
status a write carries is one the task had, and if terminal it still is the
task's (`WritesAreTrue`), and no write carries rubbish (`WritesAreWhole`).
Terminal statuses are final (`TerminalIsFinal`), which is why overlapping
writes in any order cannot put disk ahead of memory. Theorems: `TypeCorrect`,
`DiskIsNotAhead`, `ServerComesUp`.

`StreamingExecutor_proofs`. `PassFacts` says what one pass of `processQueue`
keeps and establishes, by the first queued call (`FirstCall`); the invariant is
that of any two calls not both safe the later has not started before the
earlier completed, and that something executes while something is queued. What
has been handed out is the calls 1, 2, ... in order and the batch continues it
(`DeliveryInv`), because a poll takes what has ended before the first call that
has not and that bars the way (`TakenIsNext`); a sequence without repetition is
what `InOrder` makes of a set. `LoopIsModelled` shows, by the least call at
which they part, that the loop of `processQueue`, which starts calls one after
the other and stops at its break, starts the set `ProcessQueue` starts.
When drain returns, as much has been taken as was added (`EndInv`). Theorems:
`TypeCorrect`, `UnsafeCallsRunInOrder`, `QueueNeverStalls`,
`ImplementsDelivery`, `DrainReturnsAll`, `LoopIsModelled`, and
`DrainNeverSpins`: the `while` loop of `drain`, which awaits nothing when no
tool executes, never goes round without a result to yield, for which it rests
on `QueueNeverStalls`.

`AgentLoop_proofs`. Its first half is about sequences of messages alone. A
prompt is well formed if each call has a result in the unbroken run of tool
messages behind it and each result has a call before it. `ConcatWellFormed`
puts well-formed parts together; `RepairFacts` says that the repair of
`session.ts` gives every call a result and invents nothing else, whatever was
left of the conversation; `RepairResultsFacts` says that the repair of
`compaction.ts` keeps a well-formed prompt so when truncation or compaction
cuts it anywhere, between a call and its result too (`TruncatedFacts`,
`CompactedFacts`). The second half is the invariant `IInv`. None of the
properties is inductive by itself: that the results of a batch are the first of
their calls needs to know that the calls are new, and that a prompt stays well
formed that its parts have different calls. So the invariant dates the calls
(`Stamped`): they are named by run and iteration, and a run that has not had
the response of its current iteration has no call of it, neither in the prompt
nor in the session. While tools run, the last message of both is the response
and the results are all that is missing (`ToolsOf`); outside of that, every
call of the run in the session has a result (`SessionOf`), and what the prompt
shows of the run is in the session (`PromptOf`). One lemma per action carries
it on, most of them through `GoesOn`, `Ends`, `Responds` and `Settles`, which
say what a change of place, of the prompt, a response and its results do to the
part of the invariant that is about the acting run; `NothingAdded` and
`PlainMessages` keep the parts of the other runs. Theorems: `TypeCorrect`,
`RequestsWellFormed`, `OneResultPerCall`, `ReturnedRunsAnswered`, `RunsRecord`,
and `AbortsAddNothing`: since an abort is only looked at where every call has a
result, `synthesizeAbortedToolResults` has nothing to add there
(`agent.ts:466`).

`ToolGate_proofs`. The invariant `IInv` joins `TypeOK` with: which calls have
been made and which have results (`Numbered`); `Alone`; that while a call is
past the mode check and may yet execute, the mode it was let through by still
holds (`Steady`), which is so because the tools that change the mode are never
under way beside another call; that resolvers belong to calls that wait
(`Registered`); `ApprovedAsRun`; and which events a call has collected where it
stands (`Traced`). `EndInv` and `MoveInv` carry it across the steps that only
move a call. Theorems: `TypeCorrect`, `SensitiveIsApproved`, `OneAtATime`,
`EventsArePaired`, `ModeIsRespected`, `ImplementsDelivery`, and
`OnlyItsIdStrands`, which goes through the steps that touch resolvers and timers
(`StrandedStep`): a call loses its resolver or its timer to a call with the same
id only, and as long as it has both, its own timer finds the resolver and
answers it. None of them assumes anything of the ids.

`LoopClients_proofs` has the two modules that extend `DualLoop`, and rests on
`DualLoop_proofs`. For `TaskRoutes`, `RouteIsLoopStep` shows that every step of
a route is a step of the loop or a stutter, which gives
`RoutesUseTheLoop`, and `DualLoop`'s invariant with it. What a request answers
late is decided by what it saw early, so each waiting request has a `Promise`:
a set of statuses that holds the one it saw and that no step of the loop
leaves. That there are such sets follows from `LegalMove` (the statuses move as
`TaskLifecycle` says) and from `NeverInterrupted` (nothing pauses or interrupts
a task while the server runs). Theorems: `RouteTypeCorrect`,
`CancelledIsTrue`, `ResumedForOne`.

For `Directives`, in the same module, the invariant says that agents that ran
together know of each other (`Acquainted`), that every running agent ran beside the owner of the router (`RouterKnown`), and that
every agent that could drain a buffered directive ran beside its author
(`Buffered`), which is what makes one shared buffer harmless to later tasks;
`NothingDropped` carries `CompletedShowsAll`. Theorems:
`DirectivesTypeCorrect`, `NoDirectiveIsLate`, `CompletedHasShown`.

`Gateway_proofs`. For `Abortable`: chats that run together are all in `overlap`
(`OverlapKnown`). For `DroppedWithCause`: as long as no beat was late and the
buffer never crowded, each beat that was missed has its pong among the frames
between client and handler (`Beats`, which counts the pongs of
`recvBuffer \o written`); a beat that is not late finds nothing on its way, so
three missed ones are three frames in the buffer, and `CrowdSeen` says that was
noticed. `DataConveyor` shows that a chunk, however cut, takes at most the
first frame of that queue. Theorems: `TypeCorrect`, `ChatIsAbortable`,
`DropHasCause`.

`TelegramChannel_proofs`. What is behind the offset has been handled, except
the update the handler is at (`BehindOffset`), the offset sent is never that
one's (`Cursor`), and what is at the offset or beyond this process has not
begun (`NotBegun`). Theorems: `TypeCorrect`, `NothingIsForgotten`,
`NothingIsRepeated`.

Type correctness is a theorem for every module with a specification, and is
therefore not an invariant of the runs.

What a function of a sequence computes needs an induction over its length, and
the induction theorems of the library take the statement as an operator
parameter, which the installed provers cannot instantiate. Where the proofs
need one they argue about the least counterexample instead: a set of numbers
that is not empty has a least member (`LeastNumber`, from `WFMin`), and the
prefix that ends there contradicts the step (`UpTo`). `FlattenFacts` gets from
it that the fold in `FlattenSeq` concatenates from the left.

Every invariant and every refinement the passing runs check is a theorem. Only
model-checked is liveness and what rests on fairness: `TaskSettles`,
`MessageResolved`, `OutcomeAnnounced`, `DrainEnds`, `RunEnds`, `SendHandled`
and `HandledAtLast`, which are out of the prover's reach, as is ENABLED.

## 5. Divergences observed and not checked by a run

These were met while the models were written. A property that states what the
code breaks would only restate the line; each is given with the place to look.

Tasks and runs:

- A cancelled task's agent runs on to its iteration limit: it is built without
  the task's signal (`loop/dual.ts:425`), where docs/API.md:165 says the
  cancellation propagates into the inner loop.
- A task cancelled during planning never leaves `taskContexts`
  (`loop/dual.ts:369` returns before the `try`; the comment at 545 says the map
  does not grow unbounded).
- `resumeTask` "into a fresh session" (638) empties the session in use (660),
  also when the task was resumed by another request meanwhile and this one will
  be refused. A resumed task publishes on a new bus (696) that nobody has
  subscribed to.
- Of overlapping metadata writes the older may be renamed last, so that an
  ended task stays executing on disk and is interrupted after a restart
  (`loop/dual.ts:595`, comment at 607).
- A restored completed task has no result: metadata does not hold it
  (`task/disk.ts:20-33`, comment at `loop/dual.ts:607`).
- `appendFile` is not atomic (`task/disk.ts:64`, head comment at 7); a torn
  line makes the task impossible to resume.
- Messages for a session whose task is still being planned start a second task,
  where docs/DUAL_LOOP_ARCHITECTURE.md:280 routes them to the active one
  (`getActiveForSession`, `task/store.ts:54`, knows executing and paused tasks).
  The two inner loops interleave their messages in one history; the real
  results of calls that were repaired meanwhile come as orphans
  (`session.ts:191-195`, 210), which the comment at `compaction.ts:124` says are
  converted into user messages.
- Call ids are the LLM's. With an empty id (`provider.ts:318`)
  `synthesizeAbortedToolResults` does not count the result it has
  (`agent.ts:296`) and `repairOrphanedToolCalls` does not either
  (`session.ts:212`), so both add another one.
- Overlapping inner loops share one router: the younger replaces it with what
  it has buffered, so directives of the older reach the younger's client or
  nobody; a task that fails never drains (`loop/dual.ts:407`, 466).
- A sub-agent inherits the last four messages of its parent (`session.ts:117`),
  which may begin with a result whose call was left behind, although
  `compaction.ts:124` repairs orphans of the parent.
- `AgentResult.iterations` is one more than the iterations executed when they
  are exhausted (`agent.ts:466`). An LLM error returns without the `agent_end`
  hooks and event (`agent.ts:549`).

Tools:

- `tool.approval_required` is published after the tool batch has returned
  (`agent.ts:371`, 582), so an approval can only time out; the events of a
  delegated sub-agent are published live and once more with the batch.
- The timer of an approval is not disarmed by its answer and is keyed by the id
  of the call (`agent.ts:252`). If the LLM repeats an id within the timeout, the
  timer of the first removes the resolver of the second, which then waits for
  ever, and its run with it, where `config.ts:81` says it is rejected. Nothing
  else strands a call (`StrandedByItsId`).
- `enter_plan_mode` in plan mode forgets the mode to return to, and
  `exit_plan_mode` outside it leaves headless mode for the default one
  (`permissions.ts:37-43`).
- A hook that has timed out can change the arguments while the approval is
  pending (`hooks.ts:97`): the user has then approved others than those the tool
  gets. `ApprovedAsRun` says that a user has approved the call, not which
  arguments.
- A delegated sub-agent gets a session with the default mode
  (`session.ts:112`), so neither plan nor headless mode binds it.
- `ModeRespected` needs the session to itself: a second run on it may change
  the mode while a call of the first waits for an approval.
- A `checkPermissions` that throws ends the run through `Promise.all`
  (`agent.ts:416`) while the other calls of the batch go on, which INV-2 of
  docs/TOOL_COMPLETION_INVARIANTS.md excludes: their tools may begin when the run
  is over.
- The abort signal is looked at at the loop head and when a call enters
  `executeToolCall`, not after its hooks, its check or its approval.

Gateway:

- `chat.cancel` and a disconnect abort a controller whose signal no loop reads:
  `server.ts` passes it in the options, `loop/single.ts:54-82` uses the bus of
  the options only, and so does `loop/dual.ts`. The run goes on. `Abortable` is
  about the gateway's half.
- With overlapping `chat.send` the active controller is the last one's, and the
  end of any of them clears it; `chat.cancel` and a disconnect then abort one run
  or none, where the comment at `server.ts:589` says any active one.
- In dual mode `processMessage` returns when the task has been created, so
  `chat.final` (and the Telegram answer) is the acknowledgement; the result of
  the task is on the task's bus, and no event of it is forwarded as an answer.
  `task.message.enqueued` is not forwarded either (docs/API.md:72).
- `client.sessionId` is changed by every `chat.send`, so that a
  `lifecycle.start` may name the session of a later chat.
- A pong that arrives in two chunks empties the receive buffer (`Gateway` takes
  pongs, which are six bytes, to arrive whole).
- The cancel route decides by a copy it made before the body of the request: a
  task that was pending then and executes now is answered 409, and a task that
  completed meanwhile is answered 200 "cancelled" (`server.ts:360`).

Channels and the rest:

- `stopAll` misses adapters whose `init` is still awaited. A Telegram batch goes
  on after `stop`. One failed `getMe` disables the channel for the life of the
  process. A poll error whose text contains "abort" is retried without backoff.
- Cloud IM loses what is sent while its event stream is disconnected: there is
  no cursor to resume from (`channels/cloud-im.ts`).
- `ensureInitialized` sets `sharedTools` before it awaits the plugins
  (`index.ts:74`): a concurrent first call gets a registry without them, and the
  module selection of the first call holds for all.
- A stream that fails after some deltas is repeated with the next model and its
  deltas are delivered again; an abort counts as retryable if its text says
  timeout (`provider.ts:502`).
- `FileMemoryBackend.store` rewrites the file of the day in place
  (`memory-file-backend.ts:112`): a stop in the middle loses the day's entries.

## 6. Not modelled

The repository has 2146 source files and about 523,000 lines of code, nearly all
of it third-party reference code under `ref/`, which no part of the program
imports. The program's own TypeScript is about 9,800 lines. `rust/` is a second
implementation of the same runtime. Neither is modelled: a model of `ref/` would
be a model of other programs.

Of the program itself the following is left out:

- *Providers* (`provider.ts`): `FallbackProvider` is a sequential loop over a
  list, without state between calls; the rest encodes requests and decodes
  streams. To `AgentLoop` a call answers, is rejected as too long, or fails.
- *Event bus and SSE writer* (`sse.ts`): `publish` calls its handlers in one
  synchronous step, so it never interleaves; the replay buffer drops its oldest
  events by design, and no route of the server creates an SSE writer.
- *Set-up and the single loop*: one check and one assignment around an await
  (section 5), and a promise around one run of `AgentLoop`.
- *Cloud IM*: a stream that reconnects, with nothing acknowledged on either
  side, keeps no state that could be wrong.
- *Memory, world model, artifacts*: each operation is one synchronous step on
  files or a map, and no control decision depends on it.
- *Microcompaction, prompts, skills, agents, configuration*: text.
- *CLI, IPC, embedded entry points, logging*: input and output around a run.
- Routes of the gateway other than cancel and resume: one synchronous read.
- In `AgentLoop`: the run of a sub-agent after its first request (its loop is
  the same `processMessage` on a session of its own), and runs that overlap on
  one session (section 5).

## 7. Plan

1. `CompletedShowsAll` with failures: what a task that throws owes its client.
2. The array of `task/message-queue.ts` as a refinement of the per-task queues
   of `DualLoop`.
3. A composition of `Gateway` with `DualLoop` in place of the abstract await,
   once the gateway forwards the task's own result.
