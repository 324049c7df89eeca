--------------------------- MODULE TelegramChannel ---------------------------
(***************************************************************************)
(* The Telegram adapter of src/channels/telegram.ts as the channel manager *)
(* (src/channels/manager.ts) starts and stops it, with the update queue of *)
(* the Bot API at the other end and a process that may be stopped or crash *)
(* at any await.                                                           *)
(*                                                                         *)
(* The Bot API keeps every update until a getUpdates asks for a later one. *)
(* The adapter keeps its offset in memory only.  at names the await its    *)
(* poll loop stands at:                                                    *)
(*                                                                         *)
(*   off        no process                                                 *)
(*   init       getMe in init; the manager does not know the adapter yet   *)
(*   failed     init threw; nobody tries again                             *)
(*   poll       getUpdates on its way to the Bot API                       *)
(*   reply      its answer on the way back                                 *)
(*   next       the head of the loop over the batch, at update cur         *)
(*   handler    the agent runs                                             *)
(*   send       sendMessage with its answer                                *)
(*   sendError  sendMessage with the error of the first one                *)
(*   backoff    the 5 s after an error                                     *)
(*   over       the loop has ended                                         *)
(*                                                                         *)
(* Left out: the typing indicator, which nobody waits for, and the pieces  *)
(* a long answer is sent in.                                               *)
(***************************************************************************)
EXTENDS Naturals

CONSTANTS
  LastUpdate,  \* bound: updates users send, numbered from 1
  Ignored,     \* updates without text or from a chat that is not allowed
  MaxLife      \* bound: processes, one after the other

ASSUME LastUpdateAssumption == LastUpdate \in Nat
ASSUME MaxLifeAssumption == MaxLife \in Nat

VARIABLES
  arrived,    \* updates 1 .. arrived have reached the Bot API
  confirmed,  \* updates 1 .. confirmed have been forgotten by it
  life,       \* the number of the process
  at,         \* the await of the poll loop
  running,    \* the flag stop clears
  offset,     \* the first update the next getUpdates asks for
  cur,        \* the update the loop over the batch is at
  upto,       \* the last update of the batch
  began,      \* how often this process has given each update to the agent
  done        \* updates the agent has finished with, in any process

vars == <<arrived, confirmed, life, at, running, offset, cur, upto, began, done>>

server == <<arrived, confirmed>>
batch == <<cur, upto>>

Update == 1 .. LastUpdate

At == {"off", "init", "failed", "poll", "reply", "next", "handler", "send",
       "sendError", "backoff", "over"}

Init ==
  /\ arrived = 0
  /\ confirmed = 0
  /\ life = 0
  /\ at = "off"
  /\ running = FALSE
  /\ offset = 0
  /\ cur = 1
  /\ upto = 0
  /\ began = [u \in Update |-> 0]
  /\ done = {}

------------------------------------------------------------------------------
(* The process and its channel manager.                                    *)

\* A user sends a message.
Arrive ==
  /\ arrived < LastUpdate
  /\ arrived' = arrived + 1
  /\ UNCHANGED <<confirmed, life, at, running, offset, cur, upto, began, done>>

\* A process starts: startAll makes an adapter and awaits its init.
StartAll ==
  /\ at = "off"
  /\ life' = life + 1
  /\ at' = "init"
  /\ running' = FALSE
  /\ offset' = 0
  /\ cur' = 1
  /\ upto' = 0
  /\ began' = [u \in Update |-> 0]
  /\ UNCHANGED <<server, done>>

\* getMe returned; poll begins before the manager has set the handler, which
\* it does before any answer can come.
InitReturns ==
  /\ at = "init"
  /\ running' = TRUE
  /\ at' = "poll"
  /\ UNCHANGED <<server, life, offset, batch, began, done>>

InitThrows ==
  /\ at = "init"
  /\ at' = "failed"
  /\ UNCHANGED <<server, life, running, offset, batch, began, done>>

\* stopAll.  An adapter whose init is still awaited is not in the list.
StopAll ==
  /\ running
  /\ running' = FALSE
  /\ UNCHANGED <<server, life, at, offset, batch, began, done>>

\* The process exits or crashes.
Exit ==
  /\ at # "off"
  /\ life < MaxLife
  /\ at' = "off"
  /\ UNCHANGED <<server, life, running, offset, batch, began, done>>

------------------------------------------------------------------------------
(* The Bot API.                                                            *)

\* getUpdates: the updates before the offset are forgotten, the oldest of the
\* others are returned, or none when the long poll ends without any.
GetUpdates ==
  /\ at = "poll"
  /\ confirmed' = IF offset > confirmed + 1 THEN offset - 1 ELSE confirmed
  /\ cur' = confirmed' + 1
  /\ IF arrived > confirmed'
     THEN upto' \in cur' .. arrived
     ELSE upto' = confirmed'
  /\ at' = "reply"
  /\ UNCHANGED <<arrived, life, running, offset, began, done>>

------------------------------------------------------------------------------
(* The poll loop.                                                          *)

\* The loop condition, after a batch or an error.
Again == IF running THEN "poll" ELSE "over"

PollReturns ==
  /\ at = "reply"
  /\ running
  /\ at' = "next"
  /\ UNCHANGED <<server, life, running, offset, batch, began, done>>

\* The request or its answer got lost, or the Bot API said no.
PollThrows ==
  /\ at \in {"poll", "reply"}
  /\ running
  /\ at' = "backoff"
  /\ UNCHANGED <<server, life, running, offset, batch, began, done>>

\* stop has aborted the request.
PollAborted ==
  /\ at \in {"poll", "reply"}
  /\ ~running
  /\ at' = "over"
  /\ UNCHANGED <<server, life, running, offset, batch, began, done>>

\* Mutant: the offset goes past the whole batch at once.
TakeBatch ==
  /\ at = "next"
  /\ cur <= upto
  /\ offset' = upto + 1
  /\ IF cur \in Ignored
     THEN cur' = cur + 1 /\ UNCHANGED <<at, began>>
     ELSE /\ at' = "handler"
          /\ began' = [began EXCEPT ![cur] = @ + 1]
          /\ UNCHANGED cur
  /\ UNCHANGED <<server, life, running, upto, done>>

\* Mutant: the offset stays where it is.
TakeWithoutOffset ==
  /\ at = "next"
  /\ cur <= upto
  /\ IF cur \in Ignored
     THEN cur' = cur + 1 /\ UNCHANGED <<at, began>>
     ELSE /\ at' = "handler"
          /\ began' = [began EXCEPT ![cur] = @ + 1]
          /\ UNCHANGED cur
  /\ UNCHANGED <<server, life, running, offset, upto, done>>

\* The loop over the batch takes an update: the offset moves past it, and
\* handleUpdate drops it or calls the handler.  running is not looked at.
Take ==
  /\ at = "next"
  /\ cur <= upto
  /\ offset' = cur + 1
  /\ IF cur \in Ignored
     THEN cur' = cur + 1 /\ UNCHANGED <<at, began>>
     ELSE /\ at' = "handler"
          /\ began' = [began EXCEPT ![cur] = @ + 1]
          /\ UNCHANGED cur
  /\ UNCHANGED <<server, life, running, upto, done>>

BatchDone ==
  /\ at = "next"
  /\ cur > upto
  /\ at' = Again
  /\ UNCHANGED <<server, life, running, offset, batch, began, done>>

\* The handler of startServer catches everything and returns a text.
HandlerReturns ==
  /\ at = "handler"
  /\ done' = done \cup {cur}
  /\ at' = "send"
  /\ UNCHANGED <<server, life, running, offset, batch, began>>

SendReturns ==
  /\ at \in {"send", "sendError"}
  /\ cur' = cur + 1
  /\ at' = "next"
  /\ UNCHANGED <<server, life, running, offset, upto, began, done>>

SendThrows ==
  /\ at = "send"
  /\ at' = "sendError"
  /\ UNCHANGED <<server, life, running, offset, batch, began, done>>

\* Mutant: the error leaves the poll loop too.
LoopDies ==
  /\ at = "sendError"
  /\ at' = "over"
  /\ UNCHANGED <<server, life, running, offset, batch, began, done>>

\* The second sendMessage throws out of the loop over the batch; what is left
\* of the batch will be fetched again.
ErrorSendThrows ==
  /\ at = "sendError"
  /\ at' = IF running THEN "backoff" ELSE "over"
  /\ UNCHANGED <<server, life, running, offset, batch, began, done>>

BackoffEnds ==
  /\ at = "backoff"
  /\ at' = Again
  /\ UNCHANGED <<server, life, running, offset, batch, began, done>>

------------------------------------------------------------------------------
Loop ==
  \/ PollReturns
  \/ PollAborted
  \/ Take
  \/ BatchDone
  \/ HandlerReturns
  \/ SendReturns
  \/ SendThrows
  \/ ErrorSendThrows
  \/ BackoffEnds

Next ==
  \/ Arrive
  \/ StartAll
  \/ InitReturns
  \/ InitThrows
  \/ StopAll
  \/ Exit
  \/ GetUpdates
  \/ PollThrows
  \/ Loop

Spec == Init /\ [][Next]_vars

\* A process that ended is started again, init settles, and the loop goes on;
\* the agent's own timeouts bound the handler.  The Bot API cannot be out of
\* reach for ever: of infinitely many polls some are answered.
Fairness ==
  /\ WF_vars(StartAll)
  /\ WF_vars(InitReturns \/ InitThrows)
  /\ WF_vars(Loop)
  /\ SF_vars(GetUpdates)
  /\ SF_vars(PollReturns)

FairSpec == Spec /\ Fairness

------------------------------------------------------------------------------
(* Properties.                                                             *)

TypeOK ==
  /\ arrived \in 0 .. LastUpdate
  /\ confirmed \in 0 .. arrived
  /\ life \in Nat
  /\ at \in At
  /\ running \in BOOLEAN
  /\ offset \in 0 .. (arrived + 1)
  /\ cur \in 1 .. (arrived + 1)
  /\ upto \in 0 .. arrived
  /\ began \in [Update -> Nat]
  /\ done \subseteq Update

(* The Bot API forgets an update only when the agent has finished with it, *)
(* whatever sends fail, polls get lost and processes end in between: the   *)
(* offset is sent no earlier than the batch is through, or what is left of *)
(* it is still behind the offset.                                          *)
ConfirmedIsDone == \A u \in Update : u <= confirmed => u \in Ignored \cup done

(* A process gives an update to the agent once at most, although a batch   *)
(* that fails half way is fetched again.                                   *)
OncePerLife == \A u \in Update : began[u] <= 1

(* Every message is eventually handled by the agent, unless the channel is *)
(* stopped or its init fails: no error ends the poll loop.                 *)
HandledAtLast ==
  \A u \in Update \ Ignored :
    arrived >= u ~> u \in done \/ at = "failed" \/ (at = "over" /\ ~running)
==============================================================================
