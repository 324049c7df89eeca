---------------------------- MODULE Gateway_proofs ----------------------------
(***************************************************************************)
(* The safety of one socket for any chats, frames and chunks.  A chat that *)
(* never overlapped is the one the active controller belongs to.  And as   *)
(* long as no beat finds a ping unanswered, every missed beat is a pong    *)
(* that is on its way or waits in the receive buffer, so three of them     *)
(* crowd it.                                                               *)
(***************************************************************************)
EXTENDS Gateway, FiniteSets, SequenceTheorems, FiniteSetTheorems, FunctionTheorems, TLAPS

\* Chats that run together all know it.
OverlapKnown == \A c, d \in Running : c # d => c \in overlap

\* What has been written and not been taken, in order.
Conveyor == recvBuffer \o written

Pongs(s) == {i \in 1 .. Len(s) : s[i].type = "pong"}

\* Pongs that have not been taken, with the one the client owes.
Outstanding == Cardinality(Pongs(Conveyor)) + (IF pinged THEN 1 ELSE 0)

\* Every missed beat has its pong.
Beats ==
  /\ open => missedPongs < MissLimit
  /\ open /\ ~late /\ ~crowded => alive \/ Outstanding >= missedPongs + 1

CrowdSeen == Len(recvBuffer) >= MissLimit => crowded

IndInv ==
  /\ TypeOK
  /\ OverlapKnown
  /\ Abortable
  /\ Beats
  /\ CrowdSeen
  /\ DroppedWithCause

------------------------------------------------------------------------------
(* Counting pongs.                                                         *)

LEMMA PongsFinite ==
  ASSUME NEW s \in Seq(Frames)
  PROVE  /\ IsFiniteSet(Pongs(s))
         /\ Cardinality(Pongs(s)) \in Nat
         /\ Cardinality(Pongs(s)) <= Len(s)
  <1>1. Len(s) \in Nat
    OBVIOUS
  <1>2. IsFiniteSet(1 .. Len(s)) /\ Cardinality(1 .. Len(s)) = Len(s)
    BY SMTT(30), <1>1, FS_Interval
  <1>3. Pongs(s) \in SUBSET (1 .. Len(s))
    BY DEF Pongs
  <1>4. IsFiniteSet(Pongs(s)) /\ Cardinality(Pongs(s)) <= Len(s)
    BY <1>2, <1>3, FS_Subset
  <1> QED
    BY <1>4, FS_CardinalityType

LEMMA PongsAppend ==
  ASSUME NEW s \in Seq(Frames), NEW f \in Frames
  PROVE  Cardinality(Pongs(Append(s, f))) =
           Cardinality(Pongs(s)) + (IF f.type = "pong" THEN 1 ELSE 0)
  <1> DEFINE n == Len(s) + 1
  <1>1. /\ Len(Append(s, f)) = n
        /\ \A i \in 1 .. Len(s) : Append(s, f)[i] = s[i]
        /\ Append(s, f)[n] = f
    BY AppendProperties
  <1>2. Len(s) \in Nat
    OBVIOUS
  <1>3. n \notin Pongs(s)
    BY <1>2 DEF Pongs
  <1>4. CASE f.type = "pong"
    <2>1. Pongs(Append(s, f)) = Pongs(s) \cup {n}
      BY <1>1, <1>2, <1>4 DEF Pongs
    <2> HIDE DEF n
    <2> QED
      BY <1>3, <1>4, <2>1, PongsFinite, FS_AddElement
  <1>5. CASE f.type # "pong"
    <2>1. Pongs(Append(s, f)) = Pongs(s)
      BY <1>1, <1>2, <1>5 DEF Pongs
    <2> QED
      BY <1>5, <2>1, PongsFinite
  <1> QED
    BY <1>4, <1>5

LEMMA PongsTail ==
  ASSUME NEW s \in Seq(Frames), s # <<>>
  PROVE  Cardinality(Pongs(Tail(s))) =
           Cardinality(Pongs(s)) - (IF Head(s).type = "pong" THEN 1 ELSE 0)
  <1> DEFINE S == Pongs(Tail(s))
             T == Pongs(s) \ {1}
             f == [i \in S |-> i + 1]
  <1>1. /\ Len(s) \in Nat /\ Len(s) >= 1
        /\ Len(Tail(s)) = Len(s) - 1
        /\ \A i \in 1 .. Len(s) - 1 : Tail(s)[i] = s[i + 1]
        /\ Tail(s) \in Seq(Frames)
        /\ Head(s) = s[1]
    BY HeadTailProperties, EmptySeq
  <1>2. f \in Bijection(S, T)
    <2>1. f \in [S -> T]
      BY <1>1 DEF Pongs
    <2>2. \A a, b \in S : f[a] = f[b] => a = b
      BY <1>1 DEF Pongs
    <2>3. \A t \in T : \E a \in S : f[a] = t
      <3> SUFFICES ASSUME NEW t \in T PROVE t - 1 \in S /\ f[t - 1] = t
        OBVIOUS
      <3> QED
        BY <1>1 DEF Pongs
    <2> HIDE DEF f, S, T
    <2> QED
      BY <2>1, <2>2, <2>3 DEF Bijection, Injection, Surjection, IsInjective
  <1>3. Cardinality(T) = Cardinality(S)
    <2> HIDE DEF f
    <2>1. ExistsBijection(S, T)
      BY <1>2 DEF ExistsBijection
    <2>2. IsFiniteSet(S)
      BY <1>1, PongsFinite
    <2> QED
      BY <2>1, <2>2, FS_Bijection
  <1>4. 1 \in Pongs(s) <=> Head(s).type = "pong"
    BY <1>1 DEF Pongs
  <1>5. Cardinality(T) =
          IF 1 \in Pongs(s) THEN Cardinality(Pongs(s)) - 1 ELSE Cardinality(Pongs(s))
    BY PongsFinite, FS_RemoveElement
  <1> HIDE DEF S, T
  <1> QED
    BY <1>3, <1>4, <1>5, PongsFinite DEF S

------------------------------------------------------------------------------
(* The conveyor: frames join it at the end and are taken from its front.   *)

LEMMA ConveyorType ==
  ASSUME TypeOK
  PROVE  /\ Conveyor \in Seq(Frames)
         /\ Len(Conveyor) = Len(recvBuffer) + Len(written)
         /\ Outstanding \in Nat
  <1>1. Conveyor \in Seq(Frames) /\ Len(Conveyor) = Len(recvBuffer) + Len(written)
    BY ConcatProperties DEF TypeOK, Conveyor
  <1>2. Cardinality(Pongs(Conveyor)) \in Nat
    BY <1>1, PongsFinite
  <1>3. (IF pinged THEN 1 ELSE 0) \in Nat
    OBVIOUS
  <1> QED
    BY <1>1, <1>2, <1>3 DEF Outstanding

LEMMA Split ==
  ASSUME NEW s \in Seq(Frames), NEW n \in 0 .. Len(s)
  PROVE  /\ SubSeq(s, 1, n) \in Seq(Frames)
         /\ SubSeq(s, n + 1, Len(s)) \in Seq(Frames)
         /\ SubSeq(s, 1, n) \o SubSeq(s, n + 1, Len(s)) = s
  <1>1. Len(s) \in Nat /\ \A i \in 1 .. Len(s) : s[i] \in Frames
    BY ElementOfSeq
  <1>2. SubSeq(s, 1, n) \in Seq(Frames)
    <2>1. \A i \in 1 .. n : s[i] \in Frames
      BY <1>1
    <2> QED
      BY <1>1, <2>1, SubSeqProperties
  <1>3. SubSeq(s, n + 1, Len(s)) \in Seq(Frames)
    <2>1. \A i \in (n + 1) .. Len(s) : s[i] \in Frames
      BY <1>1
    <2> QED
      BY <1>1, <2>1, SubSeqProperties
  <1>4. SubSeq(s, 1, n) \o SubSeq(s, n + 1, Len(s)) = SubSeq(s, 1, Len(s))
    <2>1. 1 \in 1 .. Len(s) + 1 /\ n \in 1 - 1 .. Len(s) /\ Len(s) \in n .. Len(s)
      BY <1>1
    <2> QED
      BY <2>1, ConcatAdjacentSubSeq
  <1> QED
    BY <1>2, <1>3, <1>4, SubSeqFull

LEMMA TailOfConcat ==
  ASSUME NEW s \in Seq(Frames), NEW t \in Seq(Frames), s # <<>>
  PROVE  Tail(s) \o t = Tail(s \o t) /\ Head(s \o t) = Head(s) /\ s \o t # <<>>
  <1>1. Len(s) \in Nat /\ Len(s) >= 1 /\ Len(t) \in Nat
    BY EmptySeq
  <1>2. /\ s \o t \in Seq(Frames)
        /\ Len(s \o t) = Len(s) + Len(t)
        /\ \A i \in 1 .. Len(s) + Len(t) :
             (s \o t)[i] = IF i <= Len(s) THEN s[i] ELSE t[i - Len(s)]
    BY ConcatProperties
  <1>3. s \o t # <<>>
    BY <1>1, <1>2
  <1>4. /\ Tail(s) \in Seq(Frames)
        /\ Len(Tail(s)) = Len(s) - 1
        /\ \A i \in 1 .. Len(s) - 1 : Tail(s)[i] = s[i + 1]
    BY HeadTailProperties
  <1>5. /\ Tail(s \o t) \in Seq(Frames)
        /\ Len(Tail(s \o t)) = Len(s) + Len(t) - 1
        /\ \A i \in 1 .. Len(s) + Len(t) - 1 : Tail(s \o t)[i] = (s \o t)[i + 1]
    BY <1>2, <1>3, HeadTailProperties
  <1>6. /\ Tail(s) \o t \in Seq(Frames)
        /\ Len(Tail(s) \o t) = Len(s) - 1 + Len(t)
        /\ \A i \in 1 .. Len(s) - 1 + Len(t) :
             (Tail(s) \o t)[i] = IF i <= Len(s) - 1 THEN Tail(s)[i]
                                                    ELSE t[i - (Len(s) - 1)]
    BY <1>4, ConcatProperties
  <1>7. ASSUME NEW i \in 1 .. Len(s) + Len(t) - 1
        PROVE  (Tail(s) \o t)[i] = Tail(s \o t)[i]
    BY <1>1, <1>2, <1>4, <1>5, <1>6, <1>7
  <1>8. Tail(s) \o t = Tail(s \o t)
    <2>1. Len(Tail(s) \o t) = Len(Tail(s \o t))
      BY <1>1, <1>5, <1>6
    <2>2. \A i \in 1 .. Len(Tail(s) \o t) : (Tail(s) \o t)[i] = Tail(s \o t)[i]
      BY <1>1, <1>6, <1>7
    <2> QED
      BY <1>5, <1>6, <2>1, <2>2, SeqEqual
  <1>9. Head(s \o t) = Head(s)
    BY <1>1, <1>2, <1>3
  <1> QED
    BY <1>3, <1>8, <1>9

LEMMA Associative ==
  ASSUME NEW F, NEW s \in Seq(F), NEW t \in Seq(F), NEW u \in Seq(F)
  PROVE  (s \o t) \o u = s \o (t \o u)
  BY ConcatAssociative

\* A 'data' event takes the front of the conveyor, if it has a whole frame.
LEMMA DataConveyor ==
  ASSUME TypeOK, NEW n \in 0 .. MaxWritten, NEW cut \in BOOLEAN, Data(n, cut)
  PROVE  /\ recvBuffer' \in Seq(Frames) /\ written' \in Seq(Frames)
         /\ \/ Conveyor' = Conveyor /\ HandleOther
            \/ /\ Conveyor # <<>>
               /\ Conveyor' = Tail(Conveyor)
               /\ Head(Conveyor) \in Frames
               /\ Handle(Head(Conveyor))
  <1> DEFINE front == SubSeq(written, 1, n)
             rest == SubSeq(written, n + 1, Len(written))
             got == recvBuffer \o front
  <1>1. n \in 0 .. Len(written) /\ written \in Seq(Frames) /\ recvBuffer \in Seq(Frames)
    BY DEF Data, TypeOK
  <1>2. front \in Seq(Frames) /\ rest \in Seq(Frames) /\ front \o rest = written
    BY <1>1, Split
  <1>3. written' = rest /\ TakeFrame(got)
    BY DEF Data
  <1> HIDE DEF front, rest
  <1>4. got \in Seq(Frames) /\ got \o rest = Conveyor
    <2>1. got \in Seq(Frames)
      BY <1>1, <1>2, ConcatProperties
    <2>2. (recvBuffer \o front) \o rest = recvBuffer \o (front \o rest)
      <3>1. front \in Seq(Frames) /\ rest \in Seq(Frames) /\ recvBuffer \in Seq(Frames)
        BY <1>1, <1>2
      <3> QED
        BY <3>1, Associative
    <2> QED
      BY <1>2, <2>1, <2>2 DEF Conveyor
  <1> HIDE DEF got
  <1>5. CASE got = <<>>
    BY <1>2, <1>3, <1>4, <1>5 DEF TakeFrame, Conveyor
  <1>6. CASE got # <<>>
    <2>1. recvBuffer' = Tail(got) /\ Handle(Head(got))
      BY <1>3, <1>6 DEF TakeFrame
    <2>2. Tail(got) \in Seq(Frames) /\ Head(got) \in Frames
      BY <1>4, <1>6, HeadTailProperties
    <2>3. Tail(got) \o rest = Tail(Conveyor) /\ Head(Conveyor) = Head(got) /\ Conveyor # <<>>
      BY <1>2, <1>4, <1>6, TailOfConcat
    <2> QED
      BY <1>2, <1>3, <2>1, <2>2, <2>3 DEF Conveyor
  <1> QED
    BY <1>5, <1>6

------------------------------------------------------------------------------
(* Types.                                                                  *)

LEMMA FramesFacts ==
  /\ \A c \in Chat : SendFrame(c) \in Frames
  /\ \A x \in {"pong", "ping", "chat.cancel", "close", "other"} : Frame(x) \in Frames
  /\ \A f \in Frames : f.type = "chat.send" => f.chat \in Chat
  BY DEF Frames, SendFrame, Frame

LEMMA InitType == Init => TypeOK
  <1> SUFFICES ASSUME Init PROVE TypeOK
    OBVIOUS
  <1>1. /\ open \in BOOLEAN /\ partial \in BOOLEAN /\ alive \in BOOLEAN
        /\ pinged \in BOOLEAN /\ late \in BOOLEAN /\ crowded \in BOOLEAN
        /\ timedOut \in BOOLEAN
    BY DEF Init
  <1>2. /\ written \in Seq(Frames) /\ recvBuffer \in Seq(Frames)
        /\ missedPongs \in 0 .. MissLimit
        /\ chat \in [Chat -> ChatState]
        /\ activeAbort \in Chat \cup {NoChat}
        /\ aborted \subseteq Chat /\ overlap \subseteq Chat
        /\ budget \in [other : 0 .. MaxOther, extra : 0 .. MaxExtra]
    BY BoundsAssumption DEF Init, MissLimit, ChatState
  <1> QED
    BY <1>1, <1>2 DEF TypeOK

\* What taking a frame does to the types of what it may change.
LEMMA HandleType ==
  ASSUME TypeOK, NEW f \in Frames, Handle(f)
  PROVE  /\ open' \in BOOLEAN /\ alive' \in BOOLEAN /\ pinged' \in BOOLEAN
         /\ missedPongs' \in 0 .. MissLimit
         /\ chat' \in [Chat -> ChatState]
         /\ activeAbort' \in Chat \cup {NoChat}
         /\ aborted' \subseteq Chat /\ overlap' \subseteq Chat
  <1>1. CASE f.type \in {"pong", "ping"} /\ HandleAlive
    BY <1>1 DEF HandleAlive, TypeOK, chats
  <1>2. CASE f.type = "close" /\ HandleClose
    BY <1>2 DEF HandleClose, AbortActive, TypeOK, heart
  <1>3. CASE f.type = "chat.cancel" /\ HandleCancel
    BY <1>3 DEF HandleCancel, AbortActive, TypeOK, heart
  <1>4. CASE f.type = "chat.send" /\ HandleSend(f.chat)
    <2>1. f.chat \in Chat
      BY <1>4, FramesFacts
    <2>2. Running \subseteq Chat
      BY DEF Running
    <2> QED
      BY <1>4, <2>1, <2>2 DEF HandleSend, TypeOK, heart, ChatState
  <1>5. CASE f.type = "other" /\ HandleOther
    BY <1>5 DEF HandleOther, TypeOK, heart, chats
  <1> QED
    BY <1>1, <1>2, <1>3, <1>4, <1>5 DEF Handle

LEMMA WritesType ==
  ASSUME TypeOK, NEW f \in Frames, ClientWrites(f),
         pinged' \in BOOLEAN, chat' \in [Chat -> ChatState],
         budget' \in [other : 0 .. MaxOther, extra : 0 .. MaxExtra]
  PROVE  TypeOK'
  <1>1. written' \in Seq(Frames)
    BY DEF ClientWrites, TypeOK
  <1> QED
    BY <1>1 DEF ClientWrites, TypeOK, beats

LEMMA ClientType ==
  ASSUME TypeOK, Client
  PROVE  TypeOK'
  <1>1. ASSUME NEW c \in Chat, ClientSends(c) PROVE TypeOK'
    <2>1. chat' \in [Chat -> ChatState] /\ pinged' = pinged /\ budget' = budget
      BY <1>1 DEF ClientSends, TypeOK, ChatState
    <2> QED
      BY <1>1, <2>1, WritesType, FramesFacts DEF ClientSends, TypeOK
  <1>2. ASSUME NEW x \in {"ping", "chat.cancel", "close", "other"}, ClientSendsOther(x)
        PROVE  TypeOK'
    <2>1. budget' \in [other : 0 .. MaxOther, extra : 0 .. MaxExtra]
      BY SMTT(30), <1>2, BoundsAssumption DEF ClientSendsOther, TypeOK
    <2>2. Frame(x) \in Frames
      BY FramesFacts
    <2> QED
      BY <1>2, <2>1, <2>2, WritesType DEF ClientSendsOther, TypeOK
  <1>3. ASSUME ClientPongs PROVE TypeOK'
    <2>1. pinged' \in BOOLEAN
      BY <1>3 DEF ClientPongs
    <2> QED
      BY <1>3, <2>1, WritesType, FramesFacts DEF ClientPongs, TypeOK
  <1>4. ASSUME Close PROVE TypeOK'
    <2>1. open' \in BOOLEAN /\ partial' \in BOOLEAN
      BY <1>4 DEF Close, Discard, HandleClose
    <2>2. /\ written' \in Seq(Frames) /\ recvBuffer' \in Seq(Frames)
          /\ activeAbort' \in Chat \cup {NoChat} /\ aborted' \subseteq Chat
      BY <1>4 DEF Close, Discard, HandleClose, AbortActive, TypeOK
    <2> QED
      BY <1>4, <2>1, <2>2 DEF Close, HandleClose, TypeOK, heart, beats
  <1> QED
    BY <1>1, <1>2, <1>3, <1>4 DEF Client

LEMMA DataType ==
  ASSUME TypeOK, NEW n \in 0 .. MaxWritten, NEW cut \in BOOLEAN, Data(n, cut)
  PROVE  TypeOK'
  <1>1. /\ open' \in BOOLEAN /\ alive' \in BOOLEAN /\ pinged' \in BOOLEAN
        /\ missedPongs' \in 0 .. MissLimit
        /\ chat' \in [Chat -> ChatState]
        /\ activeAbort' \in Chat \cup {NoChat}
        /\ aborted' \subseteq Chat /\ overlap' \subseteq Chat
    <2>1. CASE HandleOther
      BY <2>1 DEF HandleOther, TypeOK, heart, chats
    <2>2. CASE Head(Conveyor) \in Frames /\ Handle(Head(Conveyor))
      BY <2>2, HandleType
    <2> QED
      BY <2>1, <2>2, DataConveyor
  <1>2. partial' \in BOOLEAN /\ crowded' \in BOOLEAN /\ late' \in BOOLEAN /\ timedOut' \in BOOLEAN
    BY DEF Data, beats, TypeOK
  <1>3. budget' \in [other : 0 .. MaxOther, extra : 0 .. MaxExtra]
    <2>1. n <= budget.extra + 1
      BY DEF Data
    <2>2. budget' = [budget EXCEPT !.extra = IF n > 1 THEN @ - (n - 1) ELSE @]
      BY DEF Data
    <2> QED
      BY <2>1, <2>2, BoundsAssumption DEF TypeOK
  <1>4. recvBuffer' \in Seq(Frames) /\ written' \in Seq(Frames)
    BY DataConveyor
  <1> QED
    BY <1>1, <1>2, <1>3, <1>4 DEF TypeOK

LEMMA HeartbeatType ==
  ASSUME TypeOK, Heartbeat, open => missedPongs < MissLimit
  PROVE  TypeOK'
  <1>1. missedPongs' \in 0 .. MissLimit
    BY DEF Heartbeat, TypeOK, MissLimit
  <1>2. late' \in BOOLEAN
    BY DEF Heartbeat
  <1>3. CASE missedPongs' >= MissLimit
    <2>1. /\ timedOut' \in BOOLEAN /\ open' \in BOOLEAN /\ partial' \in BOOLEAN
          /\ written' \in Seq(Frames) /\ recvBuffer' \in Seq(Frames)
      <3>1. timedOut' = TRUE /\ open' = FALSE /\ Discard
        BY <1>3 DEF Heartbeat
      <3>2. written' = <<>> /\ recvBuffer' = <<>> /\ partial' = FALSE
        BY <3>1 DEF Discard
      <3>3. written' \in Seq(Frames) /\ recvBuffer' \in Seq(Frames)
        BY <3>2
      <3> QED
        BY <3>1, <3>2, <3>3, Zenon
    <2>2. activeAbort' \in Chat \cup {NoChat} /\ aborted' \subseteq Chat
      BY <1>3 DEF Heartbeat, AbortActive, TypeOK
    <2> QED
      BY <1>1, <1>2, <1>3, <2>1, <2>2 DEF Heartbeat, TypeOK
  <1>4. CASE ~(missedPongs' >= MissLimit)
    <2>1. alive' \in BOOLEAN /\ pinged' \in BOOLEAN
      BY <1>4 DEF Heartbeat
    <2> QED
      BY <1>1, <1>2, <1>4, <2>1 DEF Heartbeat, TypeOK
  <1> QED
    BY <1>3, <1>4

LEMMA ProgressType ==
  ASSUME TypeOK, NEW c \in Chat, Progress(c)
  PROVE  TypeOK'
  <1>1. chat' \in [Chat -> ChatState]
    BY DEF Progress, Resolve, Reject, TypeOK, ChatState
  <1>2. activeAbort' \in Chat \cup {NoChat}
    BY DEF Progress, Resolve, Reject, TypeOK
  <1> QED
    BY <1>1, <1>2 DEF Progress, Resolve, Reject, TypeOK, heart, beats

------------------------------------------------------------------------------
(* The active controller.                                                  *)

LEMMA AbortableKept ==
  ASSUME TypeOK, OverlapKnown, Abortable, Next
  PROVE  OverlapKnown' /\ Abortable'
  <1>1. CASE UNCHANGED chats
    BY <1>1 DEF chats, OverlapKnown, Abortable, Running
  <1>2. CASE AbortActive /\ UNCHANGED <<chat, overlap>>
    BY <1>2 DEF AbortActive, OverlapKnown, Abortable, Running, TypeOK
  <1>3. ASSUME NEW c \in Chat, HandleSend(c) PROVE OverlapKnown' /\ Abortable'
    <2>1. Running' \subseteq Running \cup {c}
      BY <1>3 DEF HandleSend, Running, TypeOK
    <2>2. CASE Running = {}
      BY <1>3, <2>1, <2>2 DEF HandleSend, OverlapKnown, Abortable
    <2>3. CASE Running # {}
      BY <1>3, <2>1, <2>3 DEF HandleSend, OverlapKnown, Abortable
    <2> QED
      BY <2>2, <2>3
  <1>4. ASSUME NEW c \in Chat, Progress(c) PROVE OverlapKnown' /\ Abortable'
    <2>1. Running' = Running \ {c} /\ c \in Running
      BY <1>4 DEF Progress, Resolve, Reject, Running, TypeOK
    <2>2. UNCHANGED <<overlap, aborted>>
      BY <1>4 DEF Progress, Resolve, Reject
    <2>3. Running' \subseteq overlap
      BY <2>1 DEF OverlapKnown
    <2> QED
      BY <2>1, <2>2, <2>3 DEF OverlapKnown, Abortable
  <1>5. ASSUME Client PROVE UNCHANGED <<activeAbort, aborted, overlap>> \/ Close
    BY <1>5 DEF Client, ClientSends, ClientSendsOther, ClientPongs, ClientWrites
  <1>6. CASE Client
    <2>1. CASE Close
      BY <1>2, <2>1 DEF Close, HandleClose
    <2>2. CASE UNCHANGED <<activeAbort, aborted, overlap>> /\ Running' \subseteq Running
      BY <2>2 DEF OverlapKnown, Abortable
    <2>3. CASE ~Close
      <3>1. Running' \subseteq Running
        BY <1>6, <2>3 DEF Client, ClientSends, ClientSendsOther, ClientPongs, Running, TypeOK
      <3> QED
        BY <1>5, <1>6, <2>2, <2>3, <3>1
    <2> QED
      BY <2>1, <2>3
  <1>7. ASSUME NEW n \in 0 .. MaxWritten, NEW cut \in BOOLEAN, Data(n, cut)
        PROVE  OverlapKnown' /\ Abortable'
    <2>1. CASE HandleOther
      BY <1>1, <2>1 DEF HandleOther
    <2>2. CASE Head(Conveyor) \in Frames /\ Handle(Head(Conveyor))
      BY <1>1, <1>2, <1>3, <2>2, FramesFacts DEF Handle, HandleAlive, HandleClose,
         HandleCancel, HandleOther
    <2> QED
      BY <1>7, <2>1, <2>2, DataConveyor
  <1>8. CASE Heartbeat
    BY <1>1, <1>2, <1>8 DEF Heartbeat, chats
  <1> QED
    BY <1>4, <1>6, <1>7, <1>8 DEF Next, Receive

------------------------------------------------------------------------------
(* The heartbeat.                                                          *)

\* The counts of the beats are kept by what writes no pong and takes none.
LEMMA WritesBeats ==
  ASSUME TypeOK, Beats, NEW f \in Frames, ClientWrites(f),
         \/ f.type # "pong" /\ pinged' = pinged
         \/ f.type = "pong" /\ pinged /\ ~pinged'
  PROVE  Beats'
  <1>1. written' = Append(written, f) /\ recvBuffer' = recvBuffer
    BY DEF ClientWrites
  <1>2. Conveyor' = Append(Conveyor, f)
    <2>1. written \in Seq(Frames) /\ recvBuffer \in Seq(Frames)
      BY DEF TypeOK
    <2> QED
      BY <1>1, <2>1 DEF Conveyor
  <1>3. Cardinality(Pongs(Conveyor')) =
          Cardinality(Pongs(Conveyor)) + (IF f.type = "pong" THEN 1 ELSE 0)
    BY <1>2, ConveyorType, PongsAppend
  <1>4. Outstanding' = Outstanding
    <2>1. Cardinality(Pongs(Conveyor)) \in Nat
      BY ConveyorType, PongsFinite
    <2>2. Pongs(Conveyor)' = Pongs(Conveyor')
      BY DEF Pongs
    <2>3. CASE f.type # "pong" /\ pinged' = pinged
      BY <1>3, <2>1, <2>2, <2>3 DEF Outstanding
    <2>4. CASE f.type = "pong" /\ pinged /\ ~pinged'
      BY <1>3, <2>1, <2>2, <2>4 DEF Outstanding
    <2> QED
      BY <2>3, <2>4
  <1>5. UNCHANGED <<open, late, crowded, alive, missedPongs>>
    BY DEF ClientWrites, beats
  <1> QED
    BY <1>4, <1>5 DEF Beats

LEMMA ClientBeats ==
  ASSUME TypeOK, Beats, CrowdSeen, DroppedWithCause, Client
  PROVE  (Beats /\ CrowdSeen /\ DroppedWithCause)'
  <1>1. CASE Close
    BY <1>1 DEF Close, Discard, HandleClose, Beats, CrowdSeen, DroppedWithCause,
       MissLimit, beats
  <1>2. CASE ~Close
    <2>1. PICK f \in Frames :
            /\ ClientWrites(f)
            /\ \/ f.type # "pong" /\ pinged' = pinged
               \/ f.type = "pong" /\ pinged /\ ~pinged'
      <3>1. ASSUME NEW c \in Chat, ClientSends(c)
            PROVE  \E f \in Frames : ClientWrites(f) /\ f.type # "pong" /\ pinged' = pinged
        BY <3>1, FramesFacts DEF ClientSends, SendFrame
      <3>2. ASSUME NEW x \in {"ping", "chat.cancel", "close", "other"}, ClientSendsOther(x)
            PROVE  \E f \in Frames : ClientWrites(f) /\ f.type # "pong" /\ pinged' = pinged
        BY <3>2, FramesFacts DEF ClientSendsOther, Frame
      <3>3. ASSUME ClientPongs
            PROVE  \E f \in Frames : ClientWrites(f) /\ f.type = "pong" /\ pinged /\ ~pinged'
        BY <3>3, FramesFacts DEF ClientPongs, Frame
      <3> QED
        BY <1>2, <3>1, <3>2, <3>3 DEF Client
    <2>2. Beats'
      BY <2>1, WritesBeats
    <2>3. UNCHANGED <<recvBuffer, crowded, late, timedOut>>
      BY <2>1 DEF ClientWrites, beats
    <2> QED
      BY <2>2, <2>3 DEF CrowdSeen, DroppedWithCause
  <1> QED
    BY <1>1, <1>2

LEMMA DataBeats ==
  ASSUME TypeOK, Beats, DroppedWithCause,
         NEW n \in 0 .. MaxWritten, NEW cut \in BOOLEAN, Data(n, cut)
  PROVE  (Beats /\ CrowdSeen /\ DroppedWithCause)'
  <1>1. late' = late /\ timedOut' = timedOut /\ (crowded => crowded')
    BY DEF Data, beats
  <1>2. CrowdSeen'
    BY DEF Data, CrowdSeen
  <1>3. DroppedWithCause'
    BY <1>1 DEF DroppedWithCause
  <1>4. CASE Conveyor' = Conveyor /\ HandleOther
    <2>1. Outstanding' = Outstanding
      BY <1>4 DEF Outstanding, Pongs, HandleOther, heart
    <2>2. UNCHANGED <<open, alive, missedPongs>>
      BY <1>4 DEF HandleOther, heart
    <2> QED
      BY <1>1, <1>2, <1>3, <2>1, <2>2 DEF Beats
  <1>5. CASE /\ Conveyor # <<>>
             /\ Conveyor' = Tail(Conveyor)
             /\ Head(Conveyor) \in Frames
             /\ Handle(Head(Conveyor))
    <2> DEFINE f == Head(Conveyor)
    <2>1. missedPongs' = missedPongs /\ (open' => open)
      BY <1>5 DEF Data, Handle, HandleAlive, HandleClose, HandleCancel, HandleSend,
         HandleOther, heart
    <2>2. CASE f.type = "pong"
      <3>1. alive'
        BY <1>5, <2>2 DEF Handle, HandleAlive
      <3> QED
        BY <1>2, <1>3, <2>1, <3>1 DEF Beats
    <2>3. CASE f.type # "pong"
      <3>1. pinged' = pinged /\ (alive => alive')
        BY <1>5 DEF Handle, HandleAlive, HandleClose, HandleCancel, HandleSend,
           HandleOther, heart
      <3>2. Cardinality(Pongs(Tail(Conveyor))) = Cardinality(Pongs(Conveyor))
        <4>1. Conveyor \in Seq(Frames)
          BY ConveyorType
        <4>2. Cardinality(Pongs(Conveyor)) \in Nat
          BY <4>1, PongsFinite
        <4> QED
          BY <1>5, <2>3, <4>1, <4>2, PongsTail
      <3>3. Outstanding' = Outstanding
        <4>1. Pongs(Conveyor)' = Pongs(Tail(Conveyor))
          BY <1>5 DEF Pongs
        <4> QED
          BY <3>1, <3>2, <4>1 DEF Outstanding
      <3> QED
        BY <1>1, <1>2, <1>3, <2>1, <3>1, <3>3 DEF Beats
    <2> QED
      BY <2>2, <2>3
  <1> QED
    BY <1>4, <1>5, DataConveyor

\* A beat that finds no ping unanswered and no frame on its way: every pong
\* of the missed beats is in the receive buffer, which was never crowded.
LEMMA HeartbeatBeats ==
  ASSUME TypeOK, Beats, CrowdSeen, DroppedWithCause, Heartbeat
  PROVE  (Beats /\ CrowdSeen /\ DroppedWithCause)'
  <1> DEFINE pongs == Cardinality(Pongs(recvBuffer))
  <1>1. /\ open /\ crowded' = crowded /\ (late => late')
        /\ missedPongs' = IF alive THEN 0 ELSE missedPongs + 1
        /\ missedPongs \in 0 .. 2
    BY DEF Heartbeat, Beats, TypeOK, MissLimit
  <1>2. pongs \in Nat /\ pongs <= Len(recvBuffer)
    BY PongsFinite DEF TypeOK
  <1> HIDE DEF pongs
  <1>3. ASSUME ~late', ~crowded'
        PROVE  /\ Conveyor = recvBuffer
               /\ pongs <= 2
               /\ ~alive => pongs >= missedPongs + 1
    <2>1. ~late /\ ~pinged /\ written = <<>>
      BY <1>3 DEF Heartbeat, Late
    <2>2. recvBuffer \in Seq(Frames)
      BY DEF TypeOK
    <2>3. Conveyor = recvBuffer
      BY <2>1, <2>2 DEF Conveyor
    <2>4. Outstanding = pongs
      BY <1>2, <2>1, <2>3 DEF Outstanding, pongs
    <2>5. Len(recvBuffer) <= 2
      <3>1. ~(Len(recvBuffer) >= 3)
        BY <1>1, <1>3 DEF CrowdSeen, MissLimit
      <3>2. Len(recvBuffer) \in Nat
        BY <2>2
      <3> QED
        BY <3>1, <3>2
    <2>6. ~alive => pongs >= missedPongs + 1
      BY <1>1, <1>3, <2>1, <2>4 DEF Beats
    <2>7. pongs <= 2
      <3>1. Len(recvBuffer) \in Nat
        BY <2>2
      <3> QED
        BY <1>2, <2>5, <3>1
    <2> QED
      BY <2>3, <2>6, <2>7
  <1>4. CASE missedPongs' >= MissLimit
    <2>1. open' = FALSE /\ Discard
      BY <1>4 DEF Heartbeat
    <2>2. ~alive /\ missedPongs = 2
      BY <1>1, <1>4 DEF MissLimit
    <2>3. late' \/ crowded'
      BY <1>2, <1>3, <2>2
    <2>4. Len(recvBuffer') = 0
      BY <2>1 DEF Discard
    <2> QED
      BY <2>1, <2>3, <2>4 DEF Beats, CrowdSeen, DroppedWithCause, MissLimit
  <1>5. CASE ~(missedPongs' >= MissLimit)
    <2>1. /\ pinged' = TRUE
          /\ UNCHANGED <<timedOut, written, recvBuffer>>
      BY <1>5 DEF Heartbeat
    <2>2. CrowdSeen' /\ DroppedWithCause'
      BY <1>1, <2>1 DEF CrowdSeen, DroppedWithCause
    <2>3. missedPongs' < MissLimit
      BY <1>1, <1>5 DEF MissLimit
    <2>4. ASSUME ~late', ~crowded' PROVE Outstanding' >= missedPongs' + 1
      <3>1. Pongs(Conveyor)' = Pongs(recvBuffer)
        BY <1>3, <2>1, <2>4 DEF Pongs, Conveyor
      <3>2. Outstanding' = pongs + 1
        BY <2>1, <3>1 DEF Outstanding, pongs
      <3>3. missedPongs' <= pongs
        BY <1>1, <1>2, <1>3, <2>4
      <3> QED
        BY <1>1, <1>2, <3>2, <3>3
    <2> QED
      BY <2>2, <2>3, <2>4 DEF Beats
  <1> QED
    BY <1>4, <1>5

LEMMA ProgressBeats ==
  ASSUME Beats, CrowdSeen, DroppedWithCause, NEW c \in Chat, Progress(c)
  PROVE  (Beats /\ CrowdSeen /\ DroppedWithCause)'
  <1>1. UNCHANGED <<open, written, recvBuffer, alive, missedPongs, pinged,
                    late, crowded, timedOut>>
    BY DEF Progress, Resolve, Reject, heart, beats
  <1>2. Outstanding' = Outstanding
    BY <1>1 DEF Outstanding, Conveyor, Pongs
  <1> QED
    BY <1>1, <1>2 DEF Beats, CrowdSeen, DroppedWithCause

------------------------------------------------------------------------------
(* The invariant.                                                          *)

LEMMA InitInv == Init => IndInv
  <1> SUFFICES ASSUME Init PROVE IndInv
    OBVIOUS
  <1>1. TypeOK
    BY InitType
  <1>2. OverlapKnown /\ Abortable
    BY DEF Init, OverlapKnown, Abortable, Running
  <1>3. CrowdSeen /\ DroppedWithCause
    BY DEF Init, CrowdSeen, DroppedWithCause, MissLimit
  <1>4. Beats
    BY DEF Init, Beats, MissLimit
  <1> QED
    BY <1>1, <1>2, <1>3, <1>4 DEF IndInv

LEMMA NextInv == IndInv /\ [Next]_vars => IndInv'
  <1> SUFFICES ASSUME IndInv, [Next]_vars PROVE IndInv'
    OBVIOUS
  <1> USE DEF IndInv
  <1>1. CASE UNCHANGED vars
    BY <1>1 DEF vars, TypeOK, OverlapKnown, Abortable, Running, Beats, CrowdSeen,
       DroppedWithCause, Outstanding, Conveyor, Pongs
  <1>2. CASE Next
    <2>1. OverlapKnown' /\ Abortable'
      BY <1>2, AbortableKept
    <2>2. TypeOK'
      <3>1. CASE Client
        BY <3>1, ClientType
      <3>2. CASE Receive
        BY <3>2, DataType DEF Receive
      <3>3. CASE Heartbeat
        BY <3>3, HeartbeatType DEF Beats
      <3>4. ASSUME NEW c \in Chat, Progress(c) PROVE TypeOK'
        BY <3>4, ProgressType
      <3> QED
        BY <1>2, <3>1, <3>2, <3>3, <3>4 DEF Next
    <2>3. (Beats /\ CrowdSeen /\ DroppedWithCause)'
      <3>1. CASE Client
        BY <3>1, ClientBeats
      <3>2. CASE Receive
        BY <3>2, DataBeats DEF Receive
      <3>3. CASE Heartbeat
        BY <3>3, HeartbeatBeats
      <3>4. ASSUME NEW c \in Chat, Progress(c)
            PROVE  (Beats /\ CrowdSeen /\ DroppedWithCause)'
        BY <3>4, ProgressBeats
      <3> QED
        BY <1>2, <3>1, <3>2, <3>3, <3>4 DEF Next
    <2> QED
      BY <2>1, <2>2, <2>3
  <1> QED
    BY <1>1, <1>2

(* Controllers, beats and pongs agree in every reachable state.            *)
THEOREM Invariance == Spec => []IndInv
  <1>1. Init => IndInv BY InitInv
  <1>2. IndInv /\ [Next]_vars => IndInv' BY NextInv
  <1> QED BY <1>1, <1>2, PTL DEF Spec

------------------------------------------------------------------------------
(* The results.                                                            *)

(* Every variable of the socket keeps its type.                            *)
THEOREM TypeCorrect == Spec => []TypeOK
  <1>1. IndInv => TypeOK BY DEF IndInv
  <1> QED BY <1>1, Invariance, PTL

(* A chat that had the socket to itself has the active controller, or has  *)
(* been aborted.                                                           *)
THEOREM ChatIsAbortable == Spec => []Abortable
  <1>1. IndInv => Abortable BY DEF IndInv
  <1> QED BY <1>1, Invariance, PTL

(* The heartbeat drops a client that answers every ping within a beat only *)
(* if three frames had piled up in the receive buffer.                     *)
THEOREM DropHasCause == Spec => []DroppedWithCause
  <1>1. IndInv => DroppedWithCause BY DEF IndInv
  <1> QED BY <1>1, Invariance, PTL
==============================================================================
