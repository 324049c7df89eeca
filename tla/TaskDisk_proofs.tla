--------------------------- MODULE TaskDisk_proofs ---------------------------
(***************************************************************************)
(* Proofs about TaskDisk: its types, that metadata never claims an end     *)
(* that has not happened, and that metadata can always be read back.       *)
(*                                                                         *)
(* NoFalseEnd is not inductive: a write in flight may carry a terminal     *)
(* status to the disk later.  The invariant adds what such a write knows   *)
(* (WritesAreTrue), that it carries a status at all (WritesAreWhole), and  *)
(* that only existing tasks of a running server are being written          *)
(* (WritersExist).                                                         *)
(***************************************************************************)
EXTENDS TaskDisk, TLAPS

WritesAreTrue ==
  \A t \in Task, k \in Slot :
    write[t][k].st \in Terminal => status[t] = write[t][k].st

WritesAreWhole ==
  \A t \in Task, k \in Slot :
    write[t][k].at \in {"tmp", "rename"} => write[t][k].st \in TaskStatus

WritersExist ==
  \A t \in Task : ~up \/ status[t] = Absent => \A k \in Slot : write[t][k] = Idle

IndInv == /\ TypeOK
          /\ NoFalseEnd
          /\ LoadSucceeds
          /\ WritesAreTrue
          /\ WritesAreWhole
          /\ WritersExist

USE DEF Slot, Idle, Absent, None, Torn, TaskStatus, Terminal

\* Nothing leaves completed or failed (VALID_TRANSITIONS).
LEMMA TerminalIsFinal ==
  ASSUME NEW from \in TaskStatus \cup {Absent}, NEW to, CanTransition(from, to)
  PROVE  from \notin Terminal /\ from # Absent
BY DEF CanTransition, VALID_TRANSITIONS

\* The invariant holds when the first server starts.
LEMMA InitInv == Init => IndInv
BY MaxStopsAssumption DEF Init, IndInv, TypeOK, NoFalseEnd, LoadSucceeds,
   WritesAreTrue, WritesAreWhole, WritersExist, Write

\* persistState only adds a write that carries no status yet.
LEMMA PersistStateFacts ==
  ASSUME TypeOK, NEW t \in Task, PersistState(t)
  PROVE  /\ write' \in [Task -> [Slot -> Write]]
         /\ \A u \in Task, k \in Slot :
              \/ write'[u][k] = write[u][k]
              \/ u = t /\ write'[u][k] = [at |-> "append", st |-> None]
BY DEF TypeOK, PersistState, IsFree, Write

\* A task that is created is on its way to disk as pending.
LEMMA CreateTaskInv ==
  ASSUME IndInv, NEW t \in Task, CreateTask(t) PROVE IndInv'
<1> USE DEF IndInv
<1>1. /\ write' \in [Task -> [Slot -> Write]]
      /\ \A u \in Task, k \in Slot :
           \/ write'[u][k] = write[u][k]
           \/ u = t /\ write'[u][k] = [at |-> "user", st |-> None]
           \/ u = t /\ write'[u][k] = [at |-> "tmp", st |-> "pending"]
  <2>1. 1 \in Slot /\ 2 \in Slot
    BY MaxWritesAssumption
  <2> QED BY <2>1 DEF CreateTask, TypeOK, Write
<1>2. TypeOK'
  BY <1>1 DEF CreateTask, TypeOK
<1>3. NoFalseEnd' /\ LoadSucceeds'
  BY DEF CreateTask, TypeOK, NoFalseEnd, LoadSucceeds
<1>4. ASSUME NEW u \in Task, NEW k \in Slot
      PROVE  /\ write'[u][k].st \in Terminal => status'[u] = write'[u][k].st
             /\ write'[u][k].at \in {"tmp", "rename"} => write'[u][k].st \in TaskStatus
  <2>1. u # t => status'[u] = status[u]
    BY DEF CreateTask, TypeOK
  <2>2. u = t => write[u][k] = Idle
    BY DEF CreateTask, WritersExist
  <2>3. CASE write'[u][k] = write[u][k]
    BY <2>1, <2>2, <2>3 DEF WritesAreTrue, WritesAreWhole
  <2>4. CASE write'[u][k] # write[u][k]
    BY <1>1, <2>4
  <2> QED BY <2>3, <2>4
<1>5. WritersExist'
  BY <1>1 DEF CreateTask, TypeOK, WritersExist
<1> QED BY <1>2, <1>3, <1>4, <1>5 DEF WritesAreTrue, WritesAreWhole

\* A move of a task that has not ended, persisted or not, keeps the invariant.
LEMMA MoveInv ==
  ASSUME IndInv, NEW t \in Task, NEW to \in TaskStatus,
         up, up' = up, meta' = meta, stops' = stops,
         transcript' = transcript,
         status[t] # Absent,
         status[t] \in Terminal => to = status[t],
         status' = [status EXCEPT ![t] = to],
         PersistState(t) \/ UNCHANGED write
  PROVE  IndInv'
<1> USE DEF IndInv
<1>1. /\ write' \in [Task -> [Slot -> Write]]
      /\ \A u \in Task, k \in Slot :
           \/ write'[u][k] = write[u][k]
           \/ u = t /\ write'[u][k] = [at |-> "append", st |-> None]
  BY PersistStateFacts DEF TypeOK
<1>2. TypeOK'
  BY <1>1 DEF TypeOK
<1>3. NoFalseEnd' /\ LoadSucceeds'
  BY DEF TypeOK, NoFalseEnd, LoadSucceeds
<1>4. ASSUME NEW u \in Task, NEW k \in Slot
      PROVE  /\ write'[u][k].st \in Terminal => status'[u] = write'[u][k].st
             /\ write'[u][k].at \in {"tmp", "rename"} => write'[u][k].st \in TaskStatus
  <2>1. status[u] \in Terminal => status'[u] = status[u]
    BY DEF TypeOK
  <2>2. CASE write'[u][k] = write[u][k]
    BY <2>1, <2>2 DEF WritesAreTrue, WritesAreWhole
  <2>3. CASE write'[u][k] # write[u][k]
    BY <1>1, <2>3
  <2> QED BY <2>2, <2>3
<1>5. WritersExist'
  BY <1>1 DEF TypeOK, WritersExist
<1> QED BY <1>2, <1>3, <1>4, <1>5 DEF WritesAreTrue, WritesAreWhole

\* Every operation of the dual loop keeps the invariant.
LEMMA LoopInv ==
  ASSUME IndInv, NEW t \in Task, Loop(t) PROVE IndInv'
<1> USE DEF IndInv
<1>0. status[t] \in TaskStatus \cup {Absent}
  BY DEF TypeOK
<1>1. CASE CreateTask(t)
  BY <1>1, CreateTaskInv
<1>2. CASE Plan(t)
  BY <1>2, <1>0, TerminalIsFinal, MoveInv DEF Plan
<1>3. CASE Execute(t)
  BY <1>3, <1>0, MoveInv DEF Execute
<1>4. CASE Resume(t)
  BY <1>4, <1>0, MoveInv DEF Resume
<1>5. CASE Complete(t)
  BY <1>5, <1>0, TerminalIsFinal, MoveInv DEF Complete
<1>6. CASE Fail(t)
  <2>1. /\ FailOrKeep(status[t]) \in TaskStatus
        /\ status[t] \in Terminal => FailOrKeep(status[t]) = status[t]
    BY <1>6, <1>0, TerminalIsFinal DEF Fail, FailOrKeep
  <2>2. status' = [status EXCEPT ![t] = FailOrKeep(status[t])]
    BY <1>6 DEF Fail
  <2> QED BY <1>6, <1>0, <2>1, <2>2, MoveInv DEF Fail
<1> QED BY <1>1, <1>2, <1>3, <1>4, <1>5, <1>6 DEF Loop

\* A background write that advances carries the status the task has now.
LEMMA BackgroundInv ==
  ASSUME IndInv, NEW t \in Task, NEW k \in Slot, Background(t, k) PROVE IndInv'
<1> USE DEF IndInv
<1>0. /\ write[t][k] \in Write
      /\ write[t][k] # Idle => up /\ status[t] \in TaskStatus
  BY DEF TypeOK, WritersExist
<1>1. CASE UserAppended(t, k)
  <2>1. TypeOK'
    BY <1>1 DEF UserAppended, TypeOK, Write
  <2>2. /\ NoFalseEnd' /\ LoadSucceeds' /\ WritesAreTrue'
        /\ WritesAreWhole' /\ WritersExist'
    BY <1>1 DEF UserAppended, TypeOK, NoFalseEnd, LoadSucceeds,
       WritesAreTrue, WritesAreWhole, WritersExist
  <2> QED BY <2>1, <2>2
<1>2. CASE StatusAppended(t, k)
  <2>0. up /\ status[t] \in TaskStatus
    BY <1>0, <1>2 DEF StatusAppended
  <2>1. TypeOK'
    BY <1>2, <2>0 DEF StatusAppended, TypeOK, Write
  <2>2. /\ NoFalseEnd' /\ LoadSucceeds' /\ WritesAreTrue'
        /\ WritesAreWhole' /\ WritersExist'
    BY <1>2, <2>0 DEF StatusAppended, TypeOK, NoFalseEnd, LoadSucceeds,
       WritesAreTrue, WritesAreWhole, WritersExist
  <2> QED BY <2>1, <2>2
<1>3. CASE TmpWritten(t, k)
  <2>0. up /\ status[t] \in TaskStatus
    BY <1>0, <1>3 DEF TmpWritten
  <2>1. TypeOK'
    BY <1>3, <1>0 DEF TmpWritten, TypeOK, Write
  <2>2. /\ NoFalseEnd' /\ LoadSucceeds' /\ WritesAreTrue'
        /\ WritesAreWhole' /\ WritersExist'
    BY <1>3, <1>0, <2>0 DEF TmpWritten, TypeOK, Write, NoFalseEnd, LoadSucceeds,
       WritesAreTrue, WritesAreWhole, WritersExist
  <2> QED BY <2>1, <2>2
<1>4. CASE Renamed(t, k)
  <2>0. /\ up /\ status[t] \in TaskStatus
        /\ write[t][k].st \in TaskStatus
        /\ write[t][k].st \in Terminal => status[t] = write[t][k].st
    BY <1>0, <1>4 DEF Renamed, WritesAreTrue, WritesAreWhole
  <2>1. TypeOK'
    BY <1>4, <2>0 DEF Renamed, TypeOK, Write
  <2>2. NoFalseEnd' /\ LoadSucceeds'
    BY <1>4, <2>0 DEF Renamed, TypeOK, NoFalseEnd, LoadSucceeds
  <2>3. WritesAreTrue' /\ WritesAreWhole' /\ WritersExist'
    BY <1>4, <2>0 DEF Renamed, TypeOK, WritesAreTrue, WritesAreWhole, WritersExist
  <2> QED BY <2>1, <2>2, <2>3
<1>5. CASE WriteFailed(t, k)
  <2>0. Idle \in Write
    BY DEF Write
  <2>1. TypeOK'
    <3>1. write' \in [Task -> [Slot -> Write]]
      BY <1>5, <2>0 DEF WriteFailed, TypeOK
    <3>2. transcript' \in [Task -> SUBSET {"user", "status", Torn}]
      BY <1>5 DEF WriteFailed, TypeOK
    <3>3. QED
      BY <1>5, <3>1, <3>2 DEF WriteFailed, TypeOK
  <2>2. /\ NoFalseEnd' /\ LoadSucceeds' /\ WritesAreTrue'
        /\ WritesAreWhole' /\ WritersExist'
    BY <1>5 DEF WriteFailed, TypeOK, NoFalseEnd, LoadSucceeds,
       WritesAreTrue, WritesAreWhole, WritersExist
  <2> QED BY <2>1, <2>2
<1> QED BY <1>1, <1>2, <1>3, <1>4, <1>5 DEF Background

\* A stop forgets the writes in flight and all tasks.
LEMMA StopInv ==
  ASSUME IndInv, NEW T \in SUBSET Task, Stop(T) PROVE IndInv'
<1> USE DEF IndInv
<1>1. TypeOK'
  <2>1. /\ up' \in BOOLEAN
        /\ status' \in [Task -> TaskStatus \cup {Absent}]
        /\ meta' \in [Task -> TaskStatus \cup {None, Torn}]
        /\ write' \in [Task -> [Slot -> Write]]
    BY DEF Stop, TypeOK, Write
  <2>2. transcript' \in [Task -> SUBSET {"user", "status", Torn}]
    BY DEF Stop, TypeOK
  <2>3. stops' \in 0 .. MaxStops
    BY MaxStopsAssumption DEF Stop, TypeOK
  <2> QED BY <2>1, <2>2, <2>3 DEF TypeOK
<1>2. /\ NoFalseEnd' /\ LoadSucceeds' /\ WritesAreTrue'
      /\ WritesAreWhole' /\ WritersExist'
  BY DEF Stop, TypeOK, NoFalseEnd, LoadSucceeds,
     WritesAreTrue, WritesAreWhole, WritersExist
<1> QED BY <1>1, <1>2

\* A start believes the metadata, except that unfinished means interrupted.
LEMMA StartInv ==
  ASSUME IndInv, Start PROVE IndInv'
<1> USE DEF IndInv
<1>1. \A t \in Task : /\ Restored(meta[t]) \in TaskStatus \cup {Absent}
                      /\ meta[t] \in Terminal => Restored(meta[t]) = meta[t]
  BY DEF Start, Restored, Unfinished, TypeOK
<1>2. TypeOK' /\ NoFalseEnd' /\ LoadSucceeds'
  BY <1>1 DEF Start, TypeOK, NoFalseEnd, LoadSucceeds
<1>3. WritesAreTrue' /\ WritesAreWhole' /\ WritersExist'
  BY DEF Start, TypeOK, WritesAreTrue, WritesAreWhole, WritersExist
<1> QED BY <1>2, <1>3

\* Every step of persistence, a restart included, keeps the invariant.
THEOREM Invariance == Spec => []IndInv
<1>1. IndInv /\ [Next]_vars => IndInv'
  <2> SUFFICES ASSUME IndInv, [Next]_vars PROVE IndInv'
    OBVIOUS
  <2>1. CASE \E t \in Task : Loop(t)
    BY <2>1, LoopInv
  <2>2. CASE \E t \in Task, k \in Slot : Background(t, k)
    BY <2>2, BackgroundInv
  <2>3. CASE \E T \in SUBSET Task : Stop(T)
    BY <2>3, StopInv
  <2>4. CASE Start
    BY <2>4, StartInv
  <2>5. CASE UNCHANGED vars
    BY <2>5 DEF vars, IndInv, TypeOK, NoFalseEnd, LoadSucceeds,
       WritesAreTrue, WritesAreWhole, WritersExist
  <2> QED BY <2>1, <2>2, <2>3, <2>4, <2>5 DEF Next
<1> QED BY <1>1, InitInv, PTL DEF Spec

\* Every variable keeps its type: metadata is a status, absent or torn.
THEOREM TypeCorrect == Spec => []TypeOK
BY Invariance, PTL DEF IndInv

\* However background writes overlap, fail and finish out of order, and
\* wherever the process stops, metadata never says completed or failed of a
\* task that has not ended so.
THEOREM DiskIsNotAhead == Spec => []NoFalseEnd
BY Invariance, PTL DEF IndInv

\* The next server can always read the metadata the last one left.
THEOREM ServerComesUp == Spec => []LoadSucceeds
BY Invariance, PTL DEF IndInv
==============================================================================
