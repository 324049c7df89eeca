------------------------------- MODULE Gateway -------------------------------
(***************************************************************************)
(* One WebSocket of the gateway (handleWebSocket in src/server.ts): frames *)
(* that arrive in chunks, the heartbeat, and the chats it starts on the    *)
(* shared loop.                                                            *)
(*                                                                         *)
(* TCP cuts what the client writes into chunks as it likes.  Each chunk is *)
(* one 'data' event, and its handler takes one frame off the front of the  *)
(* receive buffer, not more.  processMessage of the shared loop is one     *)
(* await here: in single mode that is the whole run of the agent           *)
(* (AgentLoop), in dual mode the creation of a task (DualLoop).            *)
(*                                                                         *)
(* A frame that has no effect but an error answer (invalid JSON, unknown   *)
(* type, no content) and tool.approve, whose callback nobody registers,    *)
(* are "other".  Frames travel whole or, if they carry text, in pieces; a  *)
(* pong, six bytes, is taken to arrive whole.                              *)
(***************************************************************************)
EXTENDS Naturals, Sequences

CONSTANTS
  Chat,        \* chat.send frames the client may write
  NoChat,      \* null
  MaxOther,    \* bound: frames of other types the client writes
  MaxWritten,  \* bound: frames on their way
  MaxExtra     \* bound: frames that arrive in one chunk with an earlier one

ASSUME NoChatAssumption == NoChat \notin Chat
ASSUME BoundsAssumption ==
  MaxOther \in Nat /\ MaxWritten \in Nat /\ MaxExtra \in Nat

VARIABLES
  open,         \* the socket has not been closed or destroyed
  written,      \* frames the client has written that are not received whole
  partial,      \* part of the first of them has been received
  recvBuffer,   \* whole frames waiting in the receive buffer
  alive,        \* client.alive
  missedPongs,
  pinged,       \* the client has a ping to answer
  chat,         \* where each chat stands
  activeAbort,  \* the chat whose AbortController is the active one
  aborted,      \* chats whose AbortController was aborted
  budget,       \* bound: what is left of MaxOther and MaxExtra
  overlap,      \* history: chats that ran while another one did
  late,         \* history: a beat found a ping unanswered or a frame on its way
  crowded,      \* history: an event left MissLimit frames in the buffer
  timedOut      \* history: the heartbeat destroyed the socket

vars == <<open, written, partial, recvBuffer, alive, missedPongs, pinged,
          chat, activeAbort, aborted, budget, overlap, late, crowded, timedOut>>

heart == <<alive, missedPongs, pinged>>
chats == <<chat, activeAbort, aborted, overlap>>
beats == <<late, timedOut>>

\* Missed pongs the heartbeat does not tolerate.
MissLimit == 3

SendFrame(c) == [type |-> "chat.send", chat |-> c]
Frame(x) == [type |-> x, chat |-> NoChat]

Frames == {SendFrame(c) : c \in Chat}
            \cup {Frame(x) : x \in {"pong", "ping", "chat.cancel", "close", "other"}}

\* running: processMessage is awaited; rejected: it threw.
ChatState == {"unsent", "sent", "running", "rejected", "over"}

Running == {c \in Chat : chat[c] = "running"}

Init ==
  /\ open = TRUE
  /\ written = <<>>
  /\ partial = FALSE
  /\ recvBuffer = <<>>
  /\ alive = TRUE
  /\ missedPongs = 0
  /\ pinged = FALSE
  /\ chat = [c \in Chat |-> "unsent"]
  /\ activeAbort = NoChat
  /\ aborted = {}
  /\ budget = [other |-> MaxOther, extra |-> MaxExtra]
  /\ overlap = {}
  /\ late = FALSE
  /\ crowded = FALSE
  /\ timedOut = FALSE

------------------------------------------------------------------------------
(* The client.                                                             *)

ClientWrites(f) ==
  /\ open
  /\ Len(written) < MaxWritten
  /\ written' = Append(written, f)
  /\ UNCHANGED <<open, partial, recvBuffer, alive, missedPongs,
                 activeAbort, aborted, overlap, beats, crowded>>

ClientSends(c) ==
  /\ chat[c] = "unsent"
  /\ ClientWrites(SendFrame(c))
  /\ chat' = [chat EXCEPT ![c] = "sent"]
  /\ UNCHANGED <<pinged, budget>>

ClientSendsOther(x) ==
  /\ budget.other > 0
  /\ ClientWrites(Frame(x))
  /\ budget' = [budget EXCEPT !.other = @ - 1]
  /\ UNCHANGED <<pinged, chat>>

\* A pong answers all the pings before it.
ClientPongs ==
  /\ pinged
  /\ ClientWrites(Frame("pong"))
  /\ pinged' = FALSE
  /\ UNCHANGED <<chat, budget>>

------------------------------------------------------------------------------
(* What a 'data' event does with the frame it takes, by type.              *)

\* The 'close' event, which follows every destroy.
AbortActive ==
  /\ aborted' = IF activeAbort = NoChat THEN aborted ELSE aborted \cup {activeAbort}
  /\ activeAbort' = NoChat

HandleClose ==
  /\ open' = FALSE
  /\ AbortActive
  /\ UNCHANGED <<heart, chat, overlap>>

\* A pong or a JSON ping.
HandleAlive ==
  /\ alive' = TRUE
  /\ UNCHANGED <<open, missedPongs, pinged, chats>>

\* Without an active controller nothing happens.
HandleCancel ==
  /\ AbortActive
  /\ UNCHANGED <<open, heart, chat, overlap>>

\* Mutant: a controller that is set is kept.
HandleSendKeeps(c) ==
  /\ chat' = [chat EXCEPT ![c] = "running"]
  /\ activeAbort' = IF activeAbort = NoChat THEN c ELSE activeAbort
  /\ overlap' = IF Running = {} THEN overlap ELSE overlap \cup Running \cup {c}
  /\ UNCHANGED <<open, heart, aborted>>

\* A new controller replaces the active one, whatever that stands for.
HandleSend(c) ==
  /\ chat' = [chat EXCEPT ![c] = "running"]
  /\ activeAbort' = c
  /\ overlap' = IF Running = {} THEN overlap ELSE overlap \cup Running \cup {c}
  /\ UNCHANGED <<open, heart, aborted>>

HandleOther == UNCHANGED <<open, heart, chats>>

Handle(f) ==
  \/ f.type \in {"pong", "ping"} /\ HandleAlive
  \/ f.type = "close" /\ HandleClose
  \/ f.type = "chat.cancel" /\ HandleCancel
  \/ f.type = "chat.send" /\ HandleSend(f.chat)
  \/ f.type = "other" /\ HandleOther

\* Mutant: what is behind the first frame is thrown away.
TakeAndClear(got) ==
  /\ recvBuffer' = <<>>
  /\ IF got = <<>> THEN HandleOther ELSE Handle(Head(got))

\* The handler takes the first whole frame; the others stay in the buffer.
TakeFrame(got) ==
  IF got = <<>>
  THEN recvBuffer' = got /\ HandleOther
  ELSE recvBuffer' = Tail(got) /\ Handle(Head(got))

\* A chunk completes n frames and, if cut, ends in the middle of the next one;
\* one that completes none still takes a frame that waits in the buffer.
Data(n, cut) ==
  /\ open
  /\ n > 0 \/ cut
  /\ n <= Len(written)
  /\ n <= budget.extra + 1
  /\ cut => n < Len(written) /\ written[n + 1].type # "pong"
  /\ written' = SubSeq(written, n + 1, Len(written))
  /\ partial' = cut
  /\ budget' = [budget EXCEPT !.extra = IF n > 1 THEN @ - (n - 1) ELSE @]
  /\ TakeFrame(recvBuffer \o SubSeq(written, 1, n))
  /\ crowded' = (crowded \/ Len(recvBuffer') >= MissLimit)
  /\ UNCHANGED beats

------------------------------------------------------------------------------
(* The heartbeat, the end of the connection, and the chats.                *)

\* What a destroyed socket has not delivered it never will.
Discard ==
  /\ written' = <<>>
  /\ partial' = FALSE
  /\ recvBuffer' = <<>>

\* The client went away, or the connection broke.
Close ==
  /\ open
  /\ Discard
  /\ HandleClose
  /\ UNCHANGED <<budget, beats, crowded>>

Late == pinged \/ written # <<>>

\* Mutant: a pong that came does not end the row.
HeartbeatNoReset ==
  /\ open
  /\ late' = (late \/ Late)
  /\ missedPongs' = IF alive THEN missedPongs ELSE missedPongs + 1
  /\ IF missedPongs' >= MissLimit
     THEN /\ timedOut' = TRUE
          /\ open' = FALSE
          /\ Discard
          /\ AbortActive
          /\ UNCHANGED <<alive, pinged>>
     ELSE /\ alive' = FALSE
          /\ pinged' = TRUE
          /\ UNCHANGED <<timedOut, open, written, partial, recvBuffer,
                         activeAbort, aborted>>
  /\ UNCHANGED <<chat, budget, overlap, crowded>>

\* A beat destroys the socket at the MissLimit-th missed pong in a row.
Heartbeat ==
  /\ open
  /\ late' = (late \/ Late)
  /\ missedPongs' = IF alive THEN 0 ELSE missedPongs + 1
  /\ IF missedPongs' >= MissLimit
     THEN /\ timedOut' = TRUE
          /\ open' = FALSE
          /\ Discard
          /\ AbortActive
          /\ UNCHANGED <<alive, pinged>>
     ELSE /\ alive' = FALSE
          /\ pinged' = TRUE
          /\ UNCHANGED <<timedOut, open, written, partial, recvBuffer,
                         activeAbort, aborted>>
  /\ UNCHANGED <<chat, budget, overlap, crowded>>

\* processMessage returns: the active controller is dropped, whichever chat
\* it belongs to, and chat.final is sent if the socket is still there.
Resolve(c) ==
  /\ chat[c] = "running"
  /\ chat' = [chat EXCEPT ![c] = "over"]
  /\ activeAbort' = NoChat
  /\ UNCHANGED <<open, written, partial, recvBuffer, heart, aborted,
                 budget, overlap, beats, crowded>>

\* processMessage rejects: the rest of the handler does not run.
Reject(c) ==
  /\ chat[c] = "running"
  /\ chat' = [chat EXCEPT ![c] = "rejected"]
  /\ UNCHANGED <<open, written, partial, recvBuffer, heart, activeAbort,
                 aborted, budget, overlap, beats, crowded>>

------------------------------------------------------------------------------
Client ==
  \/ \E c \in Chat : ClientSends(c)
  \/ \E x \in {"ping", "chat.cancel", "close", "other"} : ClientSendsOther(x)
  \/ ClientPongs
  \/ Close

Receive == \E n \in 0 .. MaxWritten, cut \in BOOLEAN : Data(n, cut)

\* The awaits of chat c.
Progress(c) == Resolve(c) \/ Reject(c)

Next ==
  \/ Client
  \/ Receive
  \/ Heartbeat
  \/ \E c \in Chat : Progress(c)

Spec == Init /\ [][Next]_vars

\* What was written arrives, the interval timer fires, and runs end (RunEnds
\* of AgentLoop, TaskSettles of DualLoop).  Nothing is assumed of the client,
\* which need not even answer pings.
Fairness ==
  /\ WF_vars(\E n \in 1 .. MaxWritten, cut \in BOOLEAN : Data(n, cut))
  /\ WF_vars(Heartbeat)
  /\ \A c \in Chat : WF_vars(Progress(c))

FairSpec == Spec /\ Fairness

------------------------------------------------------------------------------
(* Properties.                                                             *)

TypeOK ==
  /\ open \in BOOLEAN
  /\ written \in Seq(Frames)
  /\ partial \in BOOLEAN
  /\ recvBuffer \in Seq(Frames)
  /\ alive \in BOOLEAN
  /\ missedPongs \in 0 .. MissLimit
  /\ pinged \in BOOLEAN
  /\ chat \in [Chat -> ChatState]
  /\ activeAbort \in Chat \cup {NoChat}
  /\ aborted \subseteq Chat
  /\ budget \in [other : 0 .. MaxOther, extra : 0 .. MaxExtra]
  /\ overlap \subseteq Chat
  /\ late \in BOOLEAN
  /\ crowded \in BOOLEAN
  /\ timedOut \in BOOLEAN

(* A chat that had the socket to itself can be cancelled while it runs, and *)
(* is aborted when the socket goes: the active controller is its own.       *)
Abortable ==
  \A c \in Running \ overlap : activeAbort = c \/ c \in aborted

(* The heartbeat destroys the socket of a client that answers every ping    *)
(* within a beat only if frames had piled up behind each other in the       *)
(* receive buffer: pongs wait their turn there.                             *)
DroppedWithCause == timedOut => late \/ crowded

(* Every chat.send that was written is eventually handled, or the socket is *)
(* gone: as no event takes more than one frame, it is the pongs, or their   *)
(* absence, that keep a backlog moving.                                     *)
SendHandled == \A c \in Chat : chat[c] = "sent" ~> chat[c] # "sent" \/ ~open

------------------------------------------------------------------------------
(* What a comment says of this code and the model refutes.                 *)

(* "3 consecutive missed pongs (~90s) — client truly gone": a client that   *)
(* answers every ping within a beat keeps its socket.                       *)
ResponsiveStays == timedOut => late
==============================================================================
