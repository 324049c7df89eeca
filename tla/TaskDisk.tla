------------------------------ MODULE TaskDisk -------------------------------
(***************************************************************************)
(* Persistence of tasks: src/task/disk.ts, and persistState,               *)
(* loadPersistedTasks and the initial writes of processMessage in          *)
(* src/loop/dual.ts.                                                       *)
(*                                                                         *)
(* A task has a transcript (lines appended to a .jsonl file) and a         *)
(* metadata file (written to a temporary name, then renamed).  Nobody      *)
(* waits for the writes, so those of one task overlap.  In memory a task   *)
(* moves along VALID_TRANSITIONS, which DualLoop is shown to respect; the  *)
(* moves the code persists start a persistState here.  The process may     *)
(* stop at any point, and the next one reads the metadata back.            *)
(***************************************************************************)
EXTENDS TaskMachine, Naturals

CONSTANTS
  Task,      \* task ids
  MaxWrites, \* bound: background writes in flight for one task
  MaxStops,  \* bound: how often the process stops
  Faults     \* may the file system refuse or truncate a write?

ASSUME MaxWritesAssumption == MaxWrites \in Nat \ {0, 1}
ASSUME MaxStopsAssumption == MaxStops \in Nat
ASSUME FaultsAssumption == Faults \in BOOLEAN

VARIABLES
  up,         \* the server accepts requests
  status,     \* status of each Task object, "absent" if there is none
  meta,       \* status in the metadata file; "none" without a file
  transcript, \* what the transcript of each task holds
  write,      \* background writes in flight
  stops       \* how often the process has stopped

vars == <<up, status, meta, transcript, write, stops>>

Absent == "absent"
None == "none"
Torn == "torn"

Slot == 1 .. MaxWrites

\* A background write stands at an await of
\*   user    appendTurn of the instruction
\*   append  appendTurn of a status turn, in persistState
\*   tmp     writeFile of the temporary metadata file
\*   rename  rename over the metadata file
\* and the last two carry the status the metadata was built with.
Idle == [at |-> "idle", st |-> None]
Write == [at : {"idle", "user", "append", "tmp", "rename"},
          st : TaskStatus \cup {None}]

Appending(w) == w.at \in {"user", "append"}

Init ==
  /\ up = TRUE
  /\ status = [t \in Task |-> Absent]
  /\ meta = [t \in Task |-> None]
  /\ transcript = [t \in Task |-> {}]
  /\ write = [t \in Task |-> [k \in Slot |-> Idle]]
  /\ stops = 0

------------------------------------------------------------------------------
(* What the dual loop does to a task, and the writes it starts.            *)

\* The slot the next write of t takes.
IsFree(t, k) == /\ write[t][k] = Idle
                /\ \A j \in Slot : write[t][j] = Idle => k <= j

\* persistState(task) up to its first await.
PersistState(t) ==
  \E k \in Slot :
    /\ IsFree(t, k)
    /\ write' = [write EXCEPT ![t][k] = [at |-> "append", st |-> None]]

\* processMessage creates the task under an id nothing on disk has: the
\* metadata and the instruction are written concurrently.
CreateTask(t) ==
  /\ up
  /\ status[t] = Absent
  /\ meta[t] = None
  /\ transcript[t] = {}
  /\ status' = [status EXCEPT ![t] = "pending"]
  /\ write' = [write EXCEPT ![t][1] = [at |-> "tmp", st |-> "pending"],
                            ![t][2] = [at |-> "user", st |-> None]]
  /\ UNCHANGED <<up, meta, transcript, stops>>

\* runInnerLoop starts planning; this move is not persisted.
Plan(t) ==
  /\ up
  /\ CanTransition(status[t], "planning")
  /\ status' = [status EXCEPT ![t] = "planning"]
  /\ UNCHANGED <<up, meta, transcript, write, stops>>

\* Planning is over.
Execute(t) ==
  /\ up
  /\ status[t] = "planning"
  /\ status' = [status EXCEPT ![t] = "executing"]
  /\ PersistState(t)
  /\ UNCHANGED <<up, meta, transcript, stops>>

\* resumeTask; readTranscript throws on a torn line.
Resume(t) ==
  /\ up
  /\ status[t] = "interrupted"
  /\ Torn \notin transcript[t]
  /\ status' = [status EXCEPT ![t] = "executing"]
  /\ PersistState(t)
  /\ UNCHANGED <<up, meta, transcript, stops>>

\* The agent returned.
Complete(t) ==
  /\ up
  /\ CanTransition(status[t], "completed")
  /\ status' = [status EXCEPT ![t] = "completed"]
  /\ PersistState(t)
  /\ UNCHANGED <<up, meta, transcript, stops>>

\* Mutant: the metadata of a failure is written before the task has failed.
FailEarly(t) ==
  /\ up
  /\ status[t] \notin {Absent, "interrupted", "completed"}
  /\ \E k \in Slot :
       /\ IsFree(t, k)
       /\ write' = [write EXCEPT ![t][k] = [at |-> "tmp", st |-> "failed"]]
  /\ UNCHANGED <<up, status, meta, transcript, stops>>

\* cancel, or a catch block: the state is persisted whether or not fail was
\* refused, so a task cancelled while it runs is persisted twice.
Fail(t) ==
  /\ up
  /\ status[t] \notin {Absent, "interrupted"}
  /\ status' = [status EXCEPT ![t] = FailOrKeep(@)]
  /\ PersistState(t)
  /\ UNCHANGED <<up, meta, transcript, stops>>

------------------------------------------------------------------------------
(* The background writes.                                                  *)

\* appendFile wrote the instruction.
UserAppended(t, k) ==
  /\ write[t][k].at = "user"
  /\ transcript' = [transcript EXCEPT ![t] = @ \cup {"user"}]
  /\ write' = [write EXCEPT ![t][k] = Idle]
  /\ UNCHANGED <<up, status, meta, stops>>

\* appendFile wrote the status turn: persistState builds the metadata from
\* the status the task has now.
StatusAppended(t, k) ==
  /\ write[t][k].at = "append"
  /\ transcript' = [transcript EXCEPT ![t] = @ \cup {"status"}]
  /\ write' = [write EXCEPT ![t][k] = [at |-> "tmp", st |-> status[t]]]
  /\ UNCHANGED <<up, status, meta, stops>>

\* Mutant: the metadata file is written in place.
TmpInPlace(t, k) ==
  /\ write[t][k].at = "tmp"
  /\ write' = [write EXCEPT ![t][k].at = "rename"]
  /\ meta' = [meta EXCEPT ![t] = Torn]
  /\ UNCHANGED <<up, status, transcript, stops>>

\* The temporary file is written.
TmpWritten(t, k) ==
  /\ write[t][k].at = "tmp"
  /\ write' = [write EXCEPT ![t][k].at = "rename"]
  /\ UNCHANGED <<up, status, meta, transcript, stops>>

\* The rename is done.
Renamed(t, k) ==
  /\ write[t][k].at = "rename"
  /\ meta' = [meta EXCEPT ![t] = write[t][k].st]
  /\ write' = [write EXCEPT ![t][k] = Idle]
  /\ UNCHANGED <<up, status, transcript, stops>>

\* A write is refused, an append perhaps after part of the line.  The error
\* is logged; persistState goes no further.
WriteFailed(t, k) ==
  /\ Faults
  /\ write[t][k] # Idle
  /\ \/ UNCHANGED transcript
     \/ /\ Appending(write[t][k])
        /\ transcript' = [transcript EXCEPT ![t] = @ \cup {Torn}]
  /\ write' = [write EXCEPT ![t][k] = Idle]
  /\ UNCHANGED <<up, status, meta, stops>>

------------------------------------------------------------------------------
(* The process stops and starts.                                           *)

\* A crash, or process.exit before the writes have settled.  Appends in
\* progress may have written part of their line.
Stop(T) ==
  /\ up
  /\ stops < MaxStops
  /\ \A t \in T : Faults /\ \E k \in Slot : Appending(write[t][k])
  /\ transcript' = [t \in Task |-> IF t \in T THEN transcript[t] \cup {Torn}
                                               ELSE transcript[t]]
  /\ stops' = stops + 1
  /\ up' = FALSE
  /\ status' = [t \in Task |-> Absent]
  /\ write' = [t \in Task |-> [k \in Slot |-> Idle]]
  /\ UNCHANGED meta

\* The statuses loadPersistedTasks takes for an unfinished task.
Unfinished == {"executing", "paused", "planning", "pending"}

\* The status a task is restored with.
Restored(st) == CASE st = None -> Absent
                  [] st \in Unfinished -> "interrupted"
                  [] OTHER -> st

\* startServer awaits loadPersistedTasks before it listens.  readMeta throws
\* on a torn file and the server does not start.
Start ==
  /\ ~up
  /\ \A t \in Task : meta[t] # Torn
  /\ status' = [t \in Task |-> Restored(meta[t])]
  /\ up' = TRUE
  /\ UNCHANGED <<meta, transcript, write, stops>>

------------------------------------------------------------------------------
Loop(t) ==
  \/ CreateTask(t)
  \/ Plan(t)
  \/ Execute(t)
  \/ Resume(t)
  \/ Complete(t)
  \/ Fail(t)

Background(t, k) ==
  \/ UserAppended(t, k)
  \/ StatusAppended(t, k)
  \/ TmpWritten(t, k)
  \/ Renamed(t, k)
  \/ WriteFailed(t, k)

Next ==
  \/ \E t \in Task : Loop(t)
  \/ \E t \in Task, k \in Slot : Background(t, k)
  \/ \E T \in SUBSET Task : Stop(T)
  \/ Start

Spec == Init /\ [][Next]_vars

------------------------------------------------------------------------------
(* Properties.                                                             *)

TypeOK ==
  /\ up \in BOOLEAN
  /\ status \in [Task -> TaskStatus \cup {Absent}]
  /\ meta \in [Task -> TaskStatus \cup {None, Torn}]
  /\ transcript \in [Task -> SUBSET {"user", "status", Torn}]
  /\ write \in [Task -> [Slot -> Write]]
  /\ stops \in 0 .. MaxStops

(* The disk never runs ahead of memory: a task whose metadata says it has  *)
(* ended has ended, so that a restart never turns a running task into a    *)
(* completed or failed one.  It holds although writes overlap and end in   *)
(* any order, because metadata is built from the status of that moment and *)
(* terminal statuses are final.                                            *)
NoFalseEnd ==
  up => \A t \in Task : meta[t] \in Terminal => status[t] = meta[t]

(* Whatever writes a stop cut short, the metadata files can be read, so    *)
(* the server comes up again (one torn file would keep it down).           *)
LoadSucceeds == \A t \in Task : meta[t] # Torn
==============================================================================
