------------------------ MODULE TelegramChannel_proofs ------------------------
(***************************************************************************)
(* The safety of the Telegram channel for any number of updates and of     *)
(* processes.  The offset of a process is the key: what lies behind it has *)
(* been handled, unless the handler is at it right now, and what lies at   *)
(* it or beyond this process has not given to the agent.                   *)
(***************************************************************************)
EXTENDS TelegramChannel, TLAPS

\* The poll loop is at an update of its batch.
InBatch == {"handler", "send", "sendError"}

\* A process that has polled or is about to.
Polling == At \ {"off", "init", "failed"}

Handled(u) == u \in Ignored \cup done

\* The offset of a new process says nothing; any other is beyond what the
\* Bot API has forgotten.
OffsetAhead == offset = 0 \/ offset > confirmed

\* Where the loop over the batch stands relative to the offset.
Cursor ==
  /\ at \in {"reply", "next"} => offset <= cur /\ confirmed < cur /\ cur <= upto + 1
  /\ at \in InBatch => offset = cur + 1 /\ cur <= upto

BehindCursor ==
  at \in {"reply", "next"} \cup InBatch => \A u \in Update : u < cur => Handled(u)

BehindOffset ==
  at \in Polling \ {"handler"} => \A u \in Update : u < offset => Handled(u)

CurrentDone == at \in {"send", "sendError"} => cur \in done

NotBegun == at # "off" => \A u \in Update : u >= offset => began[u] = 0

FreshOffset == at = "init" => offset = 0

IndInv ==
  /\ TypeOK
  /\ OffsetAhead
  /\ Cursor
  /\ BehindCursor
  /\ BehindOffset
  /\ CurrentDone
  /\ NotBegun
  /\ FreshOffset
  /\ ConfirmedIsDone
  /\ OncePerLife

(* A process that is not at all running has handled nothing.               *)
LEMMA InitInv == Init => IndInv
  <1> SUFFICES ASSUME Init PROVE IndInv
    OBVIOUS
  <1> USE DEF Init
  <1>1. TypeOK
    <2>1. running \in BOOLEAN
      OBVIOUS
    <2> QED
      BY <2>1, LastUpdateAssumption DEF TypeOK, At, Update
  <1>2. OffsetAhead /\ Cursor /\ BehindCursor /\ BehindOffset /\ CurrentDone
    BY DEF OffsetAhead, Cursor, BehindCursor, BehindOffset, CurrentDone, InBatch, Polling
  <1>3. NotBegun /\ FreshOffset /\ OncePerLife
    BY DEF NotBegun, FreshOffset, OncePerLife
  <1>4. ConfirmedIsDone
    BY LastUpdateAssumption DEF ConfirmedIsDone, Update
  <1> QED
    BY <1>1, <1>2, <1>3, <1>4 DEF IndInv

(* What only moves the await of the poll loop, outside the batch.          *)
LEMMA MovesInv ==
  ASSUME IndInv,
         StopAll \/ Exit \/ InitReturns \/ InitThrows \/ PollReturns
           \/ PollThrows \/ PollAborted \/ BatchDone \/ SendThrows
           \/ ErrorSendThrows \/ BackoffEnds
  PROVE  IndInv'
  <1> USE DEF IndInv, server, batch
  <1>1. ASSUME StopAll \/ Exit PROVE IndInv'
    BY <1>1 DEF StopAll, Exit, TypeOK, OffsetAhead, Cursor, BehindCursor,
       BehindOffset, CurrentDone, NotBegun, FreshOffset, ConfirmedIsDone,
       OncePerLife, InBatch, Polling, Handled, At
  <1>2. ASSUME InitReturns \/ InitThrows PROVE IndInv'
    <2>1. offset = 0
      BY <1>2 DEF FreshOffset, InitReturns, InitThrows
    <2>2. BehindOffset'
      BY <1>2, <2>1 DEF BehindOffset, InitReturns, InitThrows, Update
    <2> QED
      BY <1>2, <2>2 DEF InitReturns, InitThrows, TypeOK, OffsetAhead, Cursor,
         BehindCursor, CurrentDone, NotBegun, FreshOffset, ConfirmedIsDone,
         OncePerLife, InBatch, Handled, At
  <1>3. ASSUME PollReturns \/ PollThrows \/ PollAborted \/ SendThrows
                 \/ ErrorSendThrows \/ BackoffEnds
        PROVE  IndInv'
    BY <1>3 DEF PollReturns, PollThrows, PollAborted, SendThrows,
       ErrorSendThrows, BackoffEnds, Again, TypeOK, OffsetAhead, Cursor,
       BehindCursor, BehindOffset, CurrentDone, NotBegun, FreshOffset,
       ConfirmedIsDone, OncePerLife, InBatch, Polling, Handled, At
  <1>4. ASSUME BatchDone PROVE IndInv'
    BY <1>4 DEF BatchDone, Again, TypeOK, OffsetAhead, Cursor, BehindCursor,
       BehindOffset, CurrentDone, NotBegun, FreshOffset, ConfirmedIsDone,
       OncePerLife, InBatch, Polling, Handled, At
  <1> QED
    BY <1>1, <1>2, <1>3, <1>4

LEMMA ArriveInv == IndInv /\ Arrive => IndInv'
  BY LastUpdateAssumption DEF Arrive, IndInv, TypeOK, OffsetAhead, Cursor,
     BehindCursor, BehindOffset, CurrentDone, NotBegun, FreshOffset,
     ConfirmedIsDone, OncePerLife, InBatch, Polling, Handled

(* A new process has begun nothing.                                        *)
LEMMA StartAllInv == IndInv /\ StartAll => IndInv'
  <1> SUFFICES ASSUME IndInv, StartAll PROVE IndInv'
    OBVIOUS
  <1> USE DEF IndInv, StartAll, server
  <1>1. (TypeOK /\ OffsetAhead /\ Cursor /\ FreshOffset)'
    <2>1. running' \in BOOLEAN
      OBVIOUS
    <2> QED
      BY <2>1, LastUpdateAssumption
         DEF TypeOK, OffsetAhead, Cursor, FreshOffset, InBatch, At
  <1>2. (BehindCursor /\ BehindOffset /\ CurrentDone)'
    BY DEF BehindCursor, BehindOffset, CurrentDone, InBatch, Polling
  <1>3. (NotBegun /\ ConfirmedIsDone /\ OncePerLife)'
    BY DEF NotBegun, ConfirmedIsDone, OncePerLife
  <1> QED
    BY <1>1, <1>2, <1>3

(* What the poll makes the Bot API forget is behind the offset, and the    *)
(* batch begins right after it.                                            *)
LEMMA GetUpdatesInv == IndInv /\ GetUpdates => IndInv'
  <1> SUFFICES ASSUME IndInv, GetUpdates PROVE IndInv'
    OBVIOUS
  <1> USE DEF IndInv, GetUpdates
  <1>1. /\ confirmed' \in 0 .. arrived
        /\ confirmed <= confirmed'
        /\ offset <= confirmed' + 1
        /\ offset = 0 \/ offset > confirmed'
        /\ confirmed' = confirmed \/ confirmed' = offset - 1
    BY DEF TypeOK, OffsetAhead
  <1>2. \A u \in Update : u <= confirmed' => Handled(u)
    BY <1>1 DEF TypeOK, ConfirmedIsDone, BehindOffset, Polling, At, Handled, Update
  <1>3. cur' = confirmed' + 1 /\ upto' \in confirmed' .. arrived
    BY <1>1 DEF TypeOK
  <1>4. TypeOK'
    BY <1>1, <1>3 DEF TypeOK, At, Update
  <1>5. (OffsetAhead /\ Cursor /\ CurrentDone /\ FreshOffset)'
    <2>1. OffsetAhead' /\ CurrentDone' /\ FreshOffset'
      BY <1>1 DEF OffsetAhead, CurrentDone, FreshOffset
    <2>2. offset' <= cur'
      BY <1>1, <1>3
    <2>3. confirmed' \in Nat /\ arrived \in Nat
      BY <1>1, LastUpdateAssumption DEF TypeOK
    <2>4. confirmed' < cur' /\ cur' <= upto' + 1
      BY <2>3, <1>3
    <2>5. Cursor'
      BY <2>2, <2>4 DEF Cursor, InBatch
    <2> QED
      BY <2>1, <2>5
  <1>6. (BehindCursor /\ ConfirmedIsDone)'
    BY <1>1, <1>2, <1>3 DEF TypeOK, BehindCursor, ConfirmedIsDone, Handled, InBatch, Update
  <1>7. (BehindOffset /\ NotBegun /\ OncePerLife)'
    BY DEF BehindOffset, NotBegun, OncePerLife, Polling, Handled, At
  <1> QED
    BY <1>4, <1>5, <1>6, <1>7

(* An update that is taken is at the offset or beyond, so it is new to     *)
(* this process; all before it have been handled.                          *)
LEMMA TakeInv == IndInv /\ Take => IndInv'
  <1> SUFFICES ASSUME IndInv, Take PROVE IndInv'
    OBVIOUS
  <1> USE DEF IndInv, Take, server
  <1>1. cur \in Update /\ cur <= arrived /\ offset <= cur /\ began[cur] = 0
    BY LastUpdateAssumption DEF TypeOK, Cursor, NotBegun, Update
  <1>2. CASE cur \in Ignored
    <2>1. /\ cur' = cur + 1 /\ offset' = cur + 1 /\ at' = "next"
          /\ UNCHANGED <<arrived, confirmed, life, running, began, upto, done>>
      BY <1>2
    <2>2. \A u \in Update : u < cur + 1 => Handled(u)
      BY <1>1, <1>2 DEF TypeOK, BehindCursor, Handled, Update
    <2>3. TypeOK'
      BY <1>1, <2>1 DEF TypeOK, At
    <2>4. (OffsetAhead /\ Cursor /\ CurrentDone /\ FreshOffset)'
      BY <1>1, <2>1 DEF TypeOK, OffsetAhead, Cursor, CurrentDone, FreshOffset, InBatch
    <2>5. (BehindCursor /\ BehindOffset /\ ConfirmedIsDone)'
      BY <2>1, <2>2 DEF BehindCursor, BehindOffset, ConfirmedIsDone, Handled, Update
    <2>6. (NotBegun /\ OncePerLife)'
      BY <1>1, <2>1 DEF TypeOK, NotBegun, OncePerLife, Update
    <2> QED
      BY <2>3, <2>4, <2>5, <2>6
  <1>3. CASE cur \notin Ignored
    <2>1. /\ cur' = cur /\ offset' = cur + 1 /\ at' = "handler"
          /\ began' = [began EXCEPT ![cur] = @ + 1]
          /\ UNCHANGED <<arrived, confirmed, life, running, upto, done>>
      BY <1>3
    <2>2. TypeOK'
      BY <1>1, <2>1 DEF TypeOK, At
    <2>3. (OffsetAhead /\ Cursor /\ CurrentDone /\ FreshOffset)'
      BY <1>1, <2>1 DEF TypeOK, OffsetAhead, Cursor, CurrentDone, FreshOffset, InBatch
    <2>4. (BehindCursor /\ BehindOffset /\ ConfirmedIsDone)'
      BY <2>1 DEF BehindCursor, BehindOffset, ConfirmedIsDone, Handled, Update, Polling, InBatch
    <2>5. (NotBegun /\ OncePerLife)'
      BY <1>1, <2>1 DEF TypeOK, NotBegun, OncePerLife, Update
    <2> QED
      BY <2>2, <2>3, <2>4, <2>5
  <1> QED
    BY <1>2, <1>3

LEMMA HandlerReturnsInv == IndInv /\ HandlerReturns => IndInv'
  <1> SUFFICES ASSUME IndInv, HandlerReturns PROVE IndInv'
    OBVIOUS
  <1> USE DEF IndInv, HandlerReturns, server, batch
  <1>1. cur \in Update /\ offset = cur + 1 /\ cur <= upto
    BY LastUpdateAssumption DEF TypeOK, Cursor, InBatch, Update
  <1>2. (TypeOK /\ OffsetAhead /\ Cursor /\ CurrentDone /\ FreshOffset)'
    BY <1>1 DEF TypeOK, OffsetAhead, Cursor, CurrentDone, FreshOffset, InBatch, At
  <1>3. (BehindCursor /\ BehindOffset)'
    BY <1>1 DEF TypeOK, BehindCursor, BehindOffset, Handled, Update, InBatch
  <1>4. (NotBegun /\ ConfirmedIsDone /\ OncePerLife)'
    BY DEF NotBegun, ConfirmedIsDone, OncePerLife
  <1> QED
    BY <1>2, <1>3, <1>4

LEMMA SendReturnsInv == IndInv /\ SendReturns => IndInv'
  <1> SUFFICES ASSUME IndInv, SendReturns PROVE IndInv'
    OBVIOUS
  <1> USE DEF IndInv, SendReturns, server
  <1>1. offset = cur + 1 /\ cur <= upto /\ cur \in done
    BY DEF Cursor, CurrentDone, InBatch
  <1>2. (TypeOK /\ OffsetAhead /\ Cursor /\ CurrentDone /\ FreshOffset)'
    BY <1>1 DEF TypeOK, OffsetAhead, Cursor, CurrentDone, FreshOffset, InBatch, At
  <1>3. (BehindCursor /\ BehindOffset)'
    BY <1>1 DEF TypeOK, BehindCursor, BehindOffset, Handled, Update, InBatch, Polling, At
  <1>4. (NotBegun /\ ConfirmedIsDone /\ OncePerLife)'
    BY DEF NotBegun, ConfirmedIsDone, OncePerLife
  <1> QED
    BY <1>2, <1>3, <1>4

LEMMA NextInv == IndInv /\ [Next]_vars => IndInv'
  <1> SUFFICES ASSUME IndInv, [Next]_vars PROVE IndInv'
    OBVIOUS
  <1>1. CASE Arrive BY <1>1, ArriveInv
  <1>2. CASE StartAll BY <1>2, StartAllInv
  <1>3. CASE GetUpdates BY <1>3, GetUpdatesInv
  <1>4. CASE Take BY <1>4, TakeInv
  <1>5. CASE HandlerReturns BY <1>5, HandlerReturnsInv
  <1>6. CASE SendReturns BY <1>6, SendReturnsInv
  <1>7. CASE \/ StopAll \/ Exit \/ InitReturns \/ InitThrows \/ PollReturns
             \/ PollThrows \/ PollAborted \/ BatchDone \/ SendThrows
             \/ ErrorSendThrows \/ BackoffEnds
    BY <1>7, MovesInv
  <1>8. CASE UNCHANGED vars
    BY <1>8 DEF vars, IndInv, TypeOK, OffsetAhead, Cursor, BehindCursor,
                BehindOffset, CurrentDone, NotBegun, FreshOffset,
                ConfirmedIsDone, OncePerLife, InBatch, Polling, Handled
  <1> QED
    BY <1>1, <1>2, <1>3, <1>4, <1>5, <1>6, <1>7, <1>8 DEF Next, Loop

(* The offset, the cursor and the record of what was begun agree in every  *)
(* reachable state.                                                        *)
THEOREM Invariance == Spec => []IndInv
  <1>1. Init => IndInv BY InitInv
  <1>2. IndInv /\ [Next]_vars => IndInv' BY NextInv
  <1> QED BY <1>1, <1>2, PTL DEF Spec

(* Every variable of the channel keeps its type.                           *)
THEOREM TypeCorrect == Spec => []TypeOK
  <1>1. IndInv => TypeOK BY DEF IndInv
  <1> QED BY <1>1, Invariance, PTL

(* No failure, no crash and no order of polls makes the Bot API forget an  *)
(* update the agent has not finished with.                                 *)
THEOREM NothingIsForgotten == Spec => []ConfirmedIsDone
  <1>1. IndInv => ConfirmedIsDone BY DEF IndInv
  <1> QED BY <1>1, Invariance, PTL

(* A batch that is fetched again is not handled again by this process.     *)
THEOREM NothingIsRepeated == Spec => []OncePerLife
  <1>1. IndInv => OncePerLife BY DEF IndInv
  <1> QED BY <1>1, Invariance, PTL
==============================================================================
