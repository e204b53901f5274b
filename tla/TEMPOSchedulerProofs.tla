------------------------- MODULE TEMPOSchedulerProofs -------------------------
(***************************************************************************)
(* What TLAPS proves about TEMPOScheduler: for any checkpoints, collectives *)
(* and queue bound, any number of chunks and any number of failures.       *)
(***************************************************************************)
EXTENDS TEMPOScheduler, FiniteSetTheorems, SequenceTheorems, TLAPS

-------------------------------------------------------------------------------
(* The monitor: types and the Event.                                       *)

\* The Event is changed before the phase: while set_phase() holds the lock the
\* Event belongs to the phase that is coming.
EventInv ==
    /\ EventFollowsPhase
    /\ ~LockFree => (io_allowed <=> target # "NCCL_COMM")

MonitorInv == MonitorTypeOK /\ EventInv

CollType == [Collectives -> {"new", "launch", "inflight", "done", "failed"}]

LEMMA BeginKeepsMonitor ==
    ASSUME MonitorInv, coll' \in CollType,
           NEW who \in {"trainer"} \cup Collectives, NEW new \in TrainingPhase,
           BeginSetPhase(who, new)
    PROVE  MonitorInv'
<1> USE CollectivesAssumption
    DEF MonitorInv, EventInv, EventFollowsPhase, MonitorTypeOK, CollType, LockFree,
        BeginSetPhase, Resumes, SetEvent, ClearEvent
<1>1. CASE phase = new
  BY <1>1
<1>2. CASE phase # new /\ phase = "NCCL_COMM"
  BY <1>2
<1>3. CASE phase # new /\ new = "NCCL_COMM"
  BY <1>3
<1>4. CASE phase # new /\ phase # "NCCL_COMM" /\ new # "NCCL_COMM"
  BY <1>4
<1>5. QED
  BY <1>1, <1>2, <1>3, <1>4

LEMMA MonitorStep == MonitorInv /\ [Next]_vars => MonitorInv'
<1> SUFFICES ASSUME MonitorInv, [Next]_vars PROVE MonitorInv'
  OBVIOUS
<1>a. coll \in CollType
  BY DEF MonitorInv, MonitorTypeOK, CollType
<1>b. {"IDLE", "COMPUTE", "NCCL_COMM", "CHECKPOINT"} \subseteq TrainingPhase
  BY DEF TrainingPhase
<1>1. ASSUME UNCHANGED monitorVars
      PROVE  MonitorInv'
  BY <1>1 DEF monitorVars, MonitorInv, MonitorTypeOK, EventInv, EventFollowsPhase, LockFree
<1>2. ASSUME NEW new \in TrainingPhase, BeginSetPhase("trainer", new), UNCHANGED coll
      PROVE  MonitorInv'
  BY <1>2, <1>a, BeginKeepsMonitor
<1>3. CASE PhaseIsSet
  BY <1>3 DEF PhaseIsSet, EndSetPhase, MonitorInv, MonitorTypeOK, EventInv,
              EventFollowsPhase, LockFree
<1>4. ASSUME NEW c \in Collectives, Launch(c) \/ FailLaunch(c)
      PROVE  MonitorInv'
  BY <1>4 DEF Launch, HookLaunch, FailLaunch, HookFails, MonitorInv, MonitorTypeOK,
              EventInv, EventFollowsPhase, LockFree
<1>5. ASSUME NEW c \in Collectives, RunHook(c)
      PROVE  MonitorInv'
  <2>1. BeginSetPhase("trainer", "NCCL_COMM") /\ coll' \in CollType
    BY <1>5, <1>a DEF RunHook, HookEnter, CollType
  <2>2. QED
    BY <2>1, <1>b, BeginKeepsMonitor
<1>6. ASSUME NEW c \in Collectives, Callback(c)
      PROVE  MonitorInv'
  <2>1. BeginSetPhase(c, "COMPUTE") /\ coll' \in CollType
    BY <1>6, <1>a DEF Callback, MarkDone, CollType
  <2>2. QED
    BY <2>1, <1>b, BeginKeepsMonitor
<1>7. CASE LeaveCompute
  <2>1. BeginSetPhase("trainer", "IDLE") /\ coll' \in CollType
    BY <1>7 DEF LeaveCompute, Drained, CollType
  <2>2. QED
    BY <2>1, <1>b, BeginKeepsMonitor
<1>8. CASE LeaveBackward
  BY <1>8 DEF LeaveBackward, Drained, MonitorInv, MonitorTypeOK, EventInv,
              EventFollowsPhase, LockFree
<1>9. CASE EnterCompute \/ EnterNccl \/ LeaveNccl \/ RaiseInCompute
  BY <1>9, <1>2, <1>b DEF EnterCompute, EnterNccl, LeaveNccl, RaiseInCompute, SetPhase
<1>10. CASE LeaveCheckpoint \/ \E s \in Steps : Checkpoint(s)
  BY <1>10, <1>2, <1>b DEF LeaveCheckpoint, Checkpoint
<1>11. CASE WorkerStep
  <2> USE DEF WorkerStep
  <2>1. CASE Gate
    BY <2>1 DEF Gate, GateDecision, MonitorInv, MonitorTypeOK, EventInv,
                EventFollowsPhase, LockFree
  <2>2. CASE Block
    BY <2>2 DEF Block, CallWait, WaitTimesOut, MonitorInv, MonitorTypeOK, EventInv,
                EventFollowsPhase, LockFree
  <2>3. CASE BlockTimedOut \/ BlockEnds
    BY <2>3 DEF BlockTimedOut, BlockEnds, MonitorInv, MonitorTypeOK, EventInv,
                EventFollowsPhase, LockFree
  <2>4. CASE LoopTest \/ GetJob \/ OpenTmp \/ WriteChunk \/ EndOfFile \/ Rename
    BY <2>4, <1>1 DEF LoopTest, GetJob, OpenTmp, WriteChunk, EndOfFile, Rename
  <2>5. CASE CountFlush \/ RemoveLocal \/ TaskDone
    BY <2>5, <1>1 DEF CountFlush, RemoveLocal, TaskDone
  <2>6. QED
    BY <1>11, <2>1, <2>2, <2>3, <2>4, <2>5 DEF Worker
<1>12. CASE Create \/ Write \/ WriteFails \/ Put \/ Drop \/ Count
  BY <1>12, <1>1 DEF Create, Write, WriteFails, Put, Drop, Count
<1>13. CASE Join \/ JoinReturn \/ GoOn \/ ThreadJoined \/ ShutDown \/ EnterBackward
            \/ RaiseInBackward
  BY <1>13, <1>1 DEF Join, JoinReturn, GoOn, ThreadJoined, ShutDown, EnterBackward,
                     RaiseInBackward, Stay
<1>14. CASE FlushFails \/ UNCHANGED vars
  BY <1>14, <1>1 DEF FlushFails, vars
<1>15. QED
  BY <1>3, <1>4, <1>5, <1>6, <1>7, <1>8, <1>9, <1>10, <1>11, <1>12, <1>13, <1>14
     DEF Next, InCall, BackwardStarts, BackwardEnds, BackwardRaises

\* set_phase() keeps the Event and the phase together, whoever calls it.
THEOREM EventIsRight == Spec => []EventFollowsPhase
<1>1. Init => MonitorInv
  BY DEF Init, MonitorInit, MonitorInv, MonitorTypeOK, EventInv, EventFollowsPhase,
         LockFree, TrainingPhase
<1>2. MonitorInv => EventFollowsPhase
  BY DEF MonitorInv, EventInv
<1>3. QED
  BY <1>1, <1>2, MonitorStep, PTL DEF Spec

-------------------------------------------------------------------------------
(* The gate: at most one chunk in one NCCL phase.                          *)

\* A flush thread that has the permission for a chunk in an NCCL phase got it
\* before the phase was set, so it has written none since; a wait that has
\* succeeded with the lock free succeeded before the Event was cleared.
GateInv ==
    /\ leaked \in {0, 1}
    /\ wpc # "block" => waiter = "out"
    /\ (phase = "NCCL_COMM" /\ wpc = "chunk") => leaked = 0
    /\ (phase = "NCCL_COMM" /\ waiter = "true" /\ LockFree) => leaked = 0

LEMMA BeginKeepsGate ==
    ASSUME MonitorInv, GateInv, UNCHANGED <<leaked, wpc>>,
           NEW who \in {"trainer"} \cup Collectives, NEW new, BeginSetPhase(who, new)
    PROVE  GateInv'
  BY CollectivesAssumption
  DEF GateInv, MonitorInv, EventInv, EventFollowsPhase, LockFree, BeginSetPhase, Resumes,
      SetEvent, ClearEvent

LEMMA GateStep == MonitorInv /\ GateInv /\ [Next]_vars => GateInv'
<1> SUFFICES ASSUME MonitorInv, GateInv, [Next]_vars PROVE GateInv'
  OBVIOUS
<1> USE DEF workerVars, managerVars, fileVars, queueVars
<1>1. ASSUME UNCHANGED <<phase, holder, waiter, wpc, leaked>>
      PROVE  GateInv'
  BY <1>1 DEF GateInv, LockFree
<1>2. ASSUME NEW who \in {"trainer"} \cup Collectives, NEW new, BeginSetPhase(who, new),
             UNCHANGED managerVars
      PROVE  GateInv'
  BY <1>2, BeginKeepsGate
<1>3. CASE PhaseIsSet
  BY <1>3 DEF PhaseIsSet, EndSetPhase, GateInv
<1>4. ASSUME NEW c \in Collectives, Launch(c) \/ FailLaunch(c)
      PROVE  GateInv'
  BY <1>4, <1>1 DEF Launch, HookLaunch, FailLaunch, HookFails
<1>5. ASSUME NEW c \in Collectives, RunHook(c) \/ Callback(c)
      PROVE  GateInv'
  BY <1>5, <1>2 DEF RunHook, HookEnter, Callback, MarkDone
<1>6. CASE LeaveCompute \/ EnterCompute \/ EnterNccl \/ LeaveNccl \/ RaiseInCompute
  BY <1>6, <1>2 DEF LeaveCompute, EnterCompute, EnterNccl, LeaveNccl, RaiseInCompute,
                    SetPhase
<1>7. CASE LeaveCheckpoint \/ \E s \in Steps : Checkpoint(s)
  BY <1>7, <1>2 DEF LeaveCheckpoint, Checkpoint
<1>8. CASE WorkerStep
  <2> USE DEF Goto, GateInv, LockFree
  <2>1. CASE Gate
    BY <2>1 DEF Gate, GateDecision, ZeroRate
  <2>2. CASE Block
    BY <2>2 DEF Block, CallWait, WaitTimesOut, MonitorInv, EventInv, EventFollowsPhase
  <2>3. CASE BlockTimedOut \/ BlockEnds
    BY <2>3 DEF BlockTimedOut, BlockEnds
  <2>4. CASE WriteChunk
    BY <2>4 DEF WriteChunk, monitorVars
  <2>5. CASE LoopTest \/ GetJob \/ OpenTmp \/ EndOfFile \/ Rename
    BY <2>5 DEF LoopTest, GetJob, OpenTmp, EndOfFile, Rename, monitorVars
  <2>6. CASE CountFlush \/ RemoveLocal \/ TaskDone
    BY <2>6 DEF CountFlush, RemoveLocal, TaskDone, monitorVars
  <2>7. QED
    BY <1>8, <2>1, <2>2, <2>3, <2>4, <2>5, <2>6 DEF WorkerStep, Worker
<1>9. CASE FlushFails
  BY <1>9 DEF FlushFails, AfterFailure, Goto, GateInv, LockFree, monitorVars
<1>10. CASE Create \/ Write \/ WriteFails \/ Put \/ Drop \/ Count
  BY <1>10, <1>1 DEF Create, Write, WriteFails, Put, Drop, Count, OpenLocal, WriteLocal,
                     FailLocal, PutJob, DropJob, CountJob, monitorVars
<1>11. CASE Join \/ JoinReturn \/ GoOn \/ ThreadJoined \/ ShutDown
  BY <1>11, <1>1 DEF Join, JoinReturn, GoOn, ThreadJoined, ShutDown, SetStop, Stay,
                     monitorVars
<1>12. CASE LeaveBackward \/ EnterBackward \/ RaiseInBackward \/ UNCHANGED vars
  BY <1>12, <1>1 DEF LeaveBackward, EnterBackward, RaiseInBackward, vars, monitorVars
<1>13. QED
  BY <1>3, <1>4, <1>5, <1>6, <1>7, <1>8, <1>9, <1>10, <1>11, <1>12
     DEF Next, InCall, BackwardStarts, BackwardEnds, BackwardRaises

LEMMA MonitorStart == Init => MonitorInv /\ GateInv
  BY DEF Init, MonitorInit, ManagerInit, MonitorInv, MonitorTypeOK, EventInv,
         EventFollowsPhase, LockFree, TrainingPhase, GateInv

\* _do_flush() writes at most one chunk in one NCCL phase, however set_phase()
\* interleaves with its gate, its wait and its write.
THEOREM OneChunkPerPhase == Spec => []AtMostOneChunk
<1>1. GateInv => AtMostOneChunk
  BY DEF GateInv, AtMostOneChunk
<1>2. QED
  BY <1>1, MonitorStart, MonitorStep, GateStep, PTL DEF Spec

-------------------------------------------------------------------------------
(* The files.                                                              *)

\* The flush thread has a job; it has its .tmp file open.
Busy == wpc \notin {"loop", "get", "exited"}
Copying == wpc \in {"gate", "block", "chunk", "rename"}

\* What the argument about files needs to know of types.
FileTypes ==
    /\ local \in [Steps -> File] /\ tmp \in [Steps -> File] /\ remote \in [Steps -> File]
    /\ queue \in Seq(Steps)
    /\ Busy => job \in Steps
    /\ Copying => tmp[job] \in 0 .. Chunks
    /\ tpc \in {"create", "write", "put", "count"} => step \in Steps

\* rename() comes after the last chunk and unlink() after rename(), and a step
\* whose file is being created has not been saved.
FileInv ==
    /\ FileTypes
    /\ RemoteIsComplete
    /\ SavedIsKept
    /\ wpc = "rename" => tmp[job] = Chunks
    /\ wpc \in {"stats", "unlink"} => remote[job] = Chunks
    /\ tpc = "create" => step \notin saved

LEMMA FileStep == FileInv /\ [Next]_vars => FileInv'
<1> SUFFICES ASSUME FileInv, [Next]_vars PROVE FileInv'
  OBVIOUS
<1> USE CheckpointAssumption
    DEF workerVars, managerVars, fileVars, queueVars, trainerVars, Goto, Move
<1>1. ASSUME UNCHANGED <<fileVars, queue, wpc, job, step>>,
             tpc' \in {"create", "write", "put", "count"} => tpc' = tpc
      PROVE  FileInv'
  BY <1>1 DEF FileInv, FileTypes, RemoteIsComplete, SavedIsKept,
              Busy, Copying
<1>2. CASE PhaseIsSet \/ \E c \in Collectives : Launch(c) \/ FailLaunch(c) \/ RunHook(c)
                                                \/ Callback(c)
  BY <1>2, <1>1 DEF PhaseIsSet, Launch, FailLaunch, RunHook, Callback
<1>3. CASE EnterCompute \/ EnterNccl \/ LeaveNccl \/ RaiseInCompute
  BY <1>3, <1>1 DEF EnterCompute, EnterNccl, LeaveNccl, RaiseInCompute, SetPhase
<1>4. CASE LeaveCompute \/ LeaveBackward \/ EnterBackward \/ RaiseInBackward
  BY <1>4, <1>1 DEF LeaveCompute, LeaveBackward, EnterBackward, RaiseInBackward
<1>5. CASE Join \/ JoinReturn \/ GoOn \/ ThreadJoined \/ ShutDown
  BY <1>5, <1>1 DEF Join, JoinReturn, GoOn, ThreadJoined, ShutDown, SetStop, Stay
<1>6. CASE UNCHANGED vars
  BY <1>6, <1>1 DEF vars
<1>7. CASE LeaveCheckpoint \/ \E s \in Steps : Checkpoint(s)
  BY <1>7 DEF LeaveCheckpoint, Checkpoint, FileInv, FileTypes, RemoteIsComplete,
              SavedIsKept, Busy, Copying
<1>8. CASE Create
  BY <1>8 DEF Create, OpenLocal, FileInv, FileTypes, File, RemoteIsComplete, SavedIsKept,
              Busy, Copying
<1>9. CASE Write
  BY <1>9 DEF Write, WriteLocal, FileInv, FileTypes, File, RemoteIsComplete, SavedIsKept,
              Busy, Copying
<1>10. CASE WriteFails \/ Drop \/ Count
  BY <1>10 DEF WriteFails, FailLocal, Drop, DropJob, Count, CountJob, FileInv, FileTypes,
               RemoteIsComplete, SavedIsKept, Busy, Copying
<1>11. CASE Put
  <2>1. queue' \in Seq(Steps)
    BY <1>11 DEF Put, PutJob, FileInv, FileTypes
  <2>2. QED
    BY <1>11, <2>1 DEF Put, PutJob, FileInv, FileTypes, RemoteIsComplete, SavedIsKept,
              Busy, Copying
<1>12. CASE WorkerStep
  <2> UNCHANGED trainerVars
    BY <1>12 DEF WorkerStep
  <2> USE DEF FileInv, FileTypes, RemoteIsComplete, SavedIsKept, Busy, Copying
  <2>1. CASE GetJob
    <3>1. queue # <<>> => Head(queue) \in Steps /\ Tail(queue) \in Seq(Steps)
      OBVIOUS
    <3>2. QED
      BY <2>1, <3>1 DEF GetJob
  <2>2. CASE LoopTest \/ Gate \/ Block
    BY <2>2 DEF LoopTest, Gate, GateDecision, Block
  <2>3. CASE BlockTimedOut \/ BlockEnds
    BY <2>3 DEF BlockTimedOut, BlockEnds
  <2>4. CASE EndOfFile \/ CountFlush \/ TaskDone
    BY <2>4 DEF EndOfFile, AtEof, CountFlush, TaskDone
  <2>5. CASE OpenTmp
    BY <2>5 DEF OpenTmp, File
  <2>6. CASE WriteChunk
    BY <2>6 DEF WriteChunk, AtEof, File
  <2>7. CASE Rename
    BY <2>7 DEF Rename, File
  <2>8. CASE RemoveLocal
    BY <2>8 DEF RemoveLocal, File
  <2>9. QED
    BY <1>12, <2>1, <2>2, <2>3, <2>4, <2>5, <2>6, <2>7, <2>8 DEF WorkerStep, Worker
<1>13. CASE FlushFails /\ UNCHANGED trainerVars
  BY <1>13 DEF FlushFails, AfterFailure, FileInv, FileTypes, RemoteIsComplete, SavedIsKept,
               Busy, Copying
<1>14. QED
  BY <1>2, <1>3, <1>4, <1>5, <1>6, <1>7, <1>8, <1>9, <1>10, <1>11, <1>12, <1>13
     DEF Next, InCall, BackwardStarts, BackwardEnds, BackwardRaises
LEMMA FileStart == Init => FileInv
  BY DEF Init, ManagerInit, FileInv, FileTypes, File, RemoteIsComplete, SavedIsKept,
         Busy, Copying

\* A checkpoint is on Lustre under its final name only when it is whole, at
\* every instant at which the node may die.
THEOREM LustreFilesAreWhole == Spec => []RemoteIsComplete
<1>1. FileInv => RemoteIsComplete
  BY DEF FileInv
<1>2. QED
  BY <1>1, FileStart, FileStep, PTL DEF Spec

\* A saved checkpoint is whole on local storage or on Lustre, through every
\* failed, abandoned or refused flush.
THEOREM CheckpointsAreKept == Spec => []SavedIsKept
<1>1. FileInv => SavedIsKept
  BY DEF FileInv
<1>2. QED
  BY <1>1, FileStart, FileStep, PTL DEF Spec

-------------------------------------------------------------------------------
(* The joins.                                                              *)

Waiting(s) == \E i \in 1 .. Len(queue) : queue[i] = s

\* Every queued checkpoint is in the queue, at hand, flushed or given up, and
\* the count of unfinished tasks is that of the first two.
JoinInv ==
    /\ unfinished = Len(queue) + (IF Busy THEN 1 ELSE 0)
    /\ \A s \in accepted : Waiting(s) \/ (Busy /\ job = s) \/ s \in Flushed \/ s \in given_up
    /\ wpc \in {"stats", "unlink", "task_done"} => job \in Flushed \cup given_up
    /\ tpc = "joined" => queue = <<>> /\ ~Busy

LEMMA JoinStep == FileInv /\ JoinInv /\ [Next]_vars => JoinInv'
<1> SUFFICES ASSUME FileInv, JoinInv, [Next]_vars PROVE JoinInv'
  OBVIOUS
<1> USE CheckpointAssumption
    DEF workerVars, managerVars, fileVars, queueVars, trainerVars, Goto, Move, FileInv,
        FileTypes
<1>1. ASSUME UNCHANGED <<remote, queue, unfinished, accepted, given_up, wpc, job>>,
             tpc' # "joined"
      PROVE  JoinInv'
  BY <1>1 DEF JoinInv, Busy, Waiting, Flushed
<1>2. ASSUME UNCHANGED <<remote, queue, unfinished, accepted, given_up, wpc, job, tpc>>
      PROVE  JoinInv'
  BY <1>2 DEF JoinInv, Busy, Waiting, Flushed
<1>3. CASE PhaseIsSet \/ \E c \in Collectives : Launch(c) \/ FailLaunch(c) \/ RunHook(c)
                                                \/ Callback(c)
  BY <1>3, <1>2 DEF PhaseIsSet, Launch, FailLaunch, RunHook, Callback
<1>4. CASE EnterCompute \/ EnterNccl \/ LeaveNccl \/ RaiseInCompute
  BY <1>4, <1>1 DEF EnterCompute, EnterNccl, LeaveNccl, RaiseInCompute, SetPhase
<1>5. CASE LeaveCompute \/ LeaveBackward \/ EnterBackward \/ RaiseInBackward
  BY <1>5, <1>1 DEF LeaveCompute, LeaveBackward, EnterBackward, RaiseInBackward
<1>6. CASE Join \/ GoOn \/ ThreadJoined \/ ShutDown
  BY <1>6, <1>1 DEF Join, GoOn, ThreadJoined, ShutDown, SetStop, Stay
<1>7. CASE UNCHANGED vars
  BY <1>7, <1>2 DEF vars
<1>8. CASE LeaveCheckpoint \/ \E s \in Steps : Checkpoint(s)
  BY <1>8, <1>1 DEF LeaveCheckpoint, Checkpoint
<1>9. CASE Create \/ Write \/ WriteFails \/ Drop \/ Count
  BY <1>9, <1>1 DEF Create, OpenLocal, Write, WriteLocal, WriteFails, FailLocal, Drop,
                    DropJob, Count, CountJob
<1>10. CASE Put
  <2>1. queue' = Append(queue, step) /\ step \in Steps
    BY <1>10 DEF Put, PutJob
  <2>2. Len(queue') = Len(queue) + 1 /\ queue'[Len(queue) + 1] = step
        /\ \A i \in 1 .. Len(queue) : queue'[i] = queue[i]
    BY <2>1
  <2>3. QED
    BY <1>10, <2>1, <2>2 DEF Put, PutJob, JoinInv, Busy, Waiting, Flushed
\* join() returns when no task is unfinished.
<1>11. CASE JoinReturn
  <2>1. Len(queue) = 0 /\ ~Busy
    BY <1>11 DEF JoinReturn, AllTasksDone, JoinInv
  <2>2. queue = <<>>
    BY <2>1
  <2>3. QED
    BY <1>11, <2>1, <2>2 DEF JoinReturn, Stay, JoinInv, Busy, Waiting, Flushed
<1>12. CASE WorkerStep
  <2> UNCHANGED trainerVars
    BY <1>12 DEF WorkerStep
  <2> USE DEF JoinInv, Busy, Waiting, Flushed
  <2>1. CASE GetJob /\ queue # <<>>
    <3>1. /\ Len(Tail(queue)) = Len(queue) - 1
          /\ \A i \in 1 .. Len(queue) - 1 : Tail(queue)[i] = queue[i + 1]
          /\ Head(queue) = queue[1]
      BY <2>1
    <3>2. ASSUME NEW s \in Steps, Waiting(s)
          PROVE  Waiting(s)' \/ job' = s
      <4>1. PICK i \in 1 .. Len(queue) : queue[i] = s
        BY <3>2
      <4>2. CASE i = 1
        BY <4>1, <4>2, <3>1, <2>1 DEF GetJob
      <4>3. CASE i > 1
        <5>1. i - 1 \in 1 .. Len(queue) - 1 /\ Tail(queue)[i - 1] = s
          BY <4>1, <4>3, <3>1
        <5>2. QED
          BY <5>1, <3>1, <2>1 DEF GetJob
      <4>4. QED
        BY <4>2, <4>3
    <3>3. \A s : Waiting(s) => s \in Steps
      OBVIOUS
    <3>4. QED
      BY <2>1, <3>1, <3>2, <3>3 DEF GetJob
  <2>2. CASE LoopTest \/ (GetJob /\ queue = <<>>) \/ OpenTmp
    BY <2>2 DEF LoopTest, GetJob, OpenTmp
  <2>3. CASE Gate \/ Block
    BY <2>3 DEF Gate, GateDecision, Block
  <2>4. CASE BlockTimedOut \/ BlockEnds
    BY <2>4 DEF BlockTimedOut, BlockEnds
  <2>5. CASE WriteChunk \/ EndOfFile \/ CountFlush \/ RemoveLocal
    BY <2>5 DEF WriteChunk, EndOfFile, CountFlush, RemoveLocal
  <2>6. CASE Rename
    BY <2>6 DEF Rename, File
  <2>7. CASE TaskDone
    BY <2>7 DEF TaskDone
  <2>8. QED
    BY <1>12, <2>1, <2>2, <2>3, <2>4, <2>5, <2>6, <2>7 DEF WorkerStep, Worker
<1>13. CASE FlushFails /\ UNCHANGED trainerVars
  BY <1>13 DEF FlushFails, AfterFailure, JoinInv, Busy, Waiting, Flushed
<1>14. QED
  BY <1>3, <1>4, <1>5, <1>6, <1>7, <1>8, <1>9, <1>10, <1>11, <1>12, <1>13
     DEF Next, InCall, BackwardStarts, BackwardEnds, BackwardRaises

\* When wait_for_flushes() returns, every queued checkpoint is on Lustre or its
\* flush has raised or been abandoned.
THEOREM JoinIsRight == Spec => []JoinMeansFlushed
<1>1. Init => JoinInv
  BY DEF Init, ManagerInit, JoinInv, Busy, Waiting
<1>2. JoinInv => JoinMeansFlushed
  BY DEF JoinInv, JoinMeansFlushed, Waiting
<1>3. QED
  BY <1>1, <1>2, FileStart, FileStep, JoinStep, PTL DEF Spec

-------------------------------------------------------------------------------
(* The cause of an NCCL phase.                                             *)

Unreturned == \E c \in Collectives : coll[c] \in {"launch", "inflight", "failed"}

\* Inside set_phase(NCCL_COMM) the cause is the training thread's place; the
\* callbacks set COMPUTE only.
CauseInv ==
    /\ NcclPhaseHasCause
    /\ ~LockFree /\ target = "NCCL_COMM" => tpc = "nccl" \/ Unreturned

LEMMA CauseStep == MonitorInv /\ CauseInv /\ [Next]_vars => CauseInv'
<1> SUFFICES ASSUME MonitorInv, CauseInv, [Next]_vars PROVE CauseInv'
  OBVIOUS
<1> USE CollectivesAssumption
    DEF CauseInv, NcclPhaseHasCause, Unreturned, LockFree, Move
<1>1. ASSUME UNCHANGED <<phase, holder, target, coll>>, tpc = "nccl" => tpc' = "nccl"
      PROVE  CauseInv'
  BY <1>1
<1>2. ASSUME NEW who \in {"trainer"} \cup Collectives, NEW new, BeginSetPhase(who, new),
             new # "NCCL_COMM"
      PROVE  CauseInv'
  BY <1>2 DEF BeginSetPhase
<1>3. CASE PhaseIsSet
  BY <1>3 DEF PhaseIsSet, EndSetPhase, trainerVars
<1>4. ASSUME NEW c \in Collectives, Launch(c) \/ FailLaunch(c)
      PROVE  CauseInv'
  BY <1>4 DEF Launch, HookLaunch, FailLaunch, HookFails, trainerVars, MonitorInv,
              MonitorTypeOK
<1>5. ASSUME NEW c \in Collectives, RunHook(c)
      PROVE  CauseInv'
  BY <1>5 DEF RunHook, HookEnter, BeginSetPhase, MonitorInv, MonitorTypeOK
<1>6. ASSUME NEW c \in Collectives, Callback(c)
      PROVE  CauseInv'
  BY <1>6, <1>2 DEF Callback, MarkDone
<1>7. CASE EnterNccl
  BY <1>7 DEF EnterNccl, SetPhase, BeginSetPhase
<1>8. CASE EnterCompute \/ LeaveNccl \/ RaiseInCompute \/ LeaveCompute
  BY <1>8, <1>2 DEF EnterCompute, LeaveNccl, RaiseInCompute, LeaveCompute, SetPhase
<1>9. CASE LeaveCheckpoint \/ \E s \in Steps : Checkpoint(s)
  BY <1>9, <1>2 DEF LeaveCheckpoint, Checkpoint
<1>10. CASE LeaveBackward
  BY <1>10 DEF LeaveBackward, Drained
<1>11. CASE EnterBackward \/ RaiseInBackward
  BY <1>11, <1>1 DEF EnterBackward, RaiseInBackward, monitorVars
<1>12. CASE WorkerStep
  <2>1. UNCHANGED <<phase, holder, target, coll>>
    BY <1>12 DEF WorkerStep, Worker, LoopTest, GetJob, OpenTmp, Gate, Block, CallWait,
                 WaitTimesOut, BlockTimedOut, BlockEnds, WriteChunk, EndOfFile, Rename,
                 CountFlush, RemoveLocal, TaskDone, monitorVars
  <2>2. QED
    BY <1>12, <2>1, <1>1 DEF WorkerStep, trainerVars
<1>13. CASE FlushFails /\ UNCHANGED trainerVars
  BY <1>13, <1>1 DEF FlushFails, monitorVars, trainerVars
<1>14. CASE Create \/ Write \/ WriteFails \/ Put \/ Drop \/ Count
  BY <1>14, <1>1 DEF Create, Write, WriteFails, Put, Drop, Count, monitorVars
<1>15. CASE Join \/ JoinReturn \/ GoOn \/ ThreadJoined \/ ShutDown
  BY <1>15, <1>1 DEF Join, JoinReturn, GoOn, ThreadJoined, ShutDown, Stay, monitorVars
<1>16. CASE UNCHANGED vars
  BY <1>16, <1>1 DEF vars, monitorVars, trainerVars
<1>17. QED
  BY <1>3, <1>4, <1>5, <1>6, <1>7, <1>8, <1>9, <1>10, <1>11, <1>12, <1>13, <1>14, <1>15,
     <1>16 DEF Next, InCall, BackwardStarts, BackwardEnds, BackwardRaises

\* The gate of the flush thread is closed only while something is there to open
\* it, in whatever order the callbacks of overlapping collectives run, or after
\* a launch has failed.
THEOREM NcclPhaseIsCaused == Spec => []NcclPhaseHasCause
<1>1. Init => CauseInv
  BY DEF Init, MonitorInit, CauseInv, NcclPhaseHasCause, LockFree
<1>2. CauseInv => NcclPhaseHasCause
  BY DEF CauseInv
<1>3. QED
  BY <1>1, <1>2, MonitorStart, MonitorStep, CauseStep, PTL DEF Spec

-------------------------------------------------------------------------------
(* The bytes pending.                                                      *)

Left == accepted \ Flushed

\* Every queued job is counted once: a step is queued after it is saved and never
\* again, and it is flushed only from the hands of the flush thread.
QueueInv ==
    /\ accepted \subseteq saved /\ saved \subseteq Steps
    /\ tpc \in {"create", "write"} => step \notin saved
    /\ tpc = "put" => step \in saved \ accepted
    /\ Flushed \subseteq accepted
    /\ \A i \in 1..Len(queue) : queue[i] \in Left
    /\ \A i, j \in 1..Len(queue) : i # j => queue[i] # queue[j]
    /\ wpc = "open" \/ Copying => job \in Left /\ ~Waiting(job)

LEMMA QueueStep == FileInv /\ QueueInv /\ [Next]_vars => QueueInv'
<1> SUFFICES ASSUME FileInv, QueueInv, [Next]_vars PROVE QueueInv'
  OBVIOUS
<1> USE CheckpointAssumption
    DEF workerVars, managerVars, fileVars, queueVars, trainerVars, Goto, Move, FileInv,
        FileTypes
<1>1. ASSUME UNCHANGED <<remote, saved, queue, accepted, wpc, job, step>>,
             tpc' \in {"create", "write", "put"} => tpc' = tpc
      PROVE  QueueInv'
  BY <1>1 DEF QueueInv, Left, Flushed, Waiting, Copying
<1>2. CASE PhaseIsSet \/ \E c \in Collectives : Launch(c) \/ FailLaunch(c) \/ RunHook(c)
                                                \/ Callback(c)
  BY <1>2, <1>1 DEF PhaseIsSet, Launch, FailLaunch, RunHook, Callback
<1>3. CASE EnterCompute \/ EnterNccl \/ LeaveNccl \/ RaiseInCompute
  BY <1>3, <1>1 DEF EnterCompute, EnterNccl, LeaveNccl, RaiseInCompute, SetPhase
<1>4. CASE LeaveCompute \/ LeaveBackward \/ EnterBackward \/ RaiseInBackward
  BY <1>4, <1>1 DEF LeaveCompute, LeaveBackward, EnterBackward, RaiseInBackward
<1>5. CASE Join \/ JoinReturn \/ GoOn \/ ThreadJoined \/ ShutDown
  BY <1>5, <1>1 DEF Join, JoinReturn, GoOn, ThreadJoined, ShutDown, SetStop, Stay
<1>6. CASE UNCHANGED vars
  BY <1>6, <1>1 DEF vars
<1>7. CASE LeaveCheckpoint \/ \E s \in Steps : Checkpoint(s)
  BY <1>7 DEF LeaveCheckpoint, Checkpoint, QueueInv, Left, Flushed, Waiting, Copying
<1>8. CASE Create
  BY <1>8 DEF Create, OpenLocal, QueueInv, Left, Flushed, Waiting, Copying
<1>9. CASE Write
  BY <1>9 DEF Write, WriteLocal, QueueInv, Left, Flushed, Waiting, Copying
<1>10. CASE WriteFails \/ Drop \/ Count
  BY <1>10, <1>1 DEF WriteFails, FailLocal, Drop, DropJob, Count, CountJob
<1>11. CASE Put
  <2>1. queue' = Append(queue, step) /\ step \in Steps /\ step \in saved \ accepted
    BY <1>11 DEF Put, PutJob, QueueInv
  <2>2. Len(queue') = Len(queue) + 1 /\ queue'[Len(queue) + 1] = step
        /\ \A i \in 1 .. Len(queue) : queue'[i] = queue[i]
    BY <2>1
  <2>3. QED
    BY <1>11, <2>1, <2>2 DEF Put, PutJob, QueueInv, Left, Flushed, Waiting, Copying
<1>12. CASE WorkerStep
  <2> UNCHANGED trainerVars
    BY <1>12 DEF WorkerStep
  <2> USE DEF QueueInv, Left, Flushed, Waiting, Copying
  <2>1. CASE GetJob /\ queue # <<>>
    <3>1. /\ Len(Tail(queue)) = Len(queue) - 1 /\ Len(queue) > 0
          /\ \A i \in 1 .. Len(queue) - 1 : Tail(queue)[i] = queue[i + 1]
          /\ Head(queue) = queue[1]
      BY <2>1
    <3>2. \A i \in 1 .. Len(queue) - 1 : i + 1 \in 1 .. Len(queue) /\ i + 1 # 1
      BY <3>1
    <3>3. /\ job' = queue[1] /\ Len(queue') = Len(queue) - 1 /\ wpc' = "open"
          /\ \A i \in 1..Len(queue') : queue'[i] = queue[i + 1]
          /\ UNCHANGED <<remote, accepted, saved>>
      BY <2>1, <3>1 DEF GetJob
    <3>4. job' \in Left' /\ Left' = Left /\ Flushed' = Flushed
      BY <3>1, <3>3
    <3>5. \A i \in 1..Len(queue') : queue'[i] \in Left' /\ queue'[i] # job'
      BY <3>1, <3>2, <3>3
    <3>6. \A i, j \in 1..Len(queue') : i # j => queue'[i] # queue'[j]
      BY <3>1, <3>2, <3>3
    <3>7. QED
      BY <3>3, <3>4, <3>5, <3>6
  <2>2. CASE LoopTest \/ (GetJob /\ queue = <<>>) \/ OpenTmp
    BY <2>2 DEF LoopTest, GetJob, OpenTmp
  <2>3. CASE Gate \/ Block
    BY <2>3 DEF Gate, GateDecision, Block
  <2>4. CASE BlockTimedOut \/ BlockEnds
    BY <2>4 DEF BlockTimedOut, BlockEnds
  <2>5. CASE WriteChunk \/ EndOfFile \/ CountFlush \/ RemoveLocal \/ TaskDone
    BY <2>5 DEF WriteChunk, EndOfFile, CountFlush, RemoveLocal, TaskDone
  <2>6. CASE Rename
    <3>1. job \in Left /\ ~Waiting(job) /\ Flushed' = Flushed \cup {job}
      BY <2>6 DEF Rename, File
    <3>2. \A i \in 1..Len(queue) : queue[i] \in Left \ {job}
      BY <3>1
    <3>3. accepted \in SUBSET saved /\ Left' = Left \ {job} /\ Flushed' \subseteq accepted
      BY <2>6, <3>1 DEF Rename
    <3>4. QED
      BY <2>6, <3>2, <3>3 DEF Rename
  <2>8. QED
    BY <1>12, <2>1, <2>2, <2>3, <2>4, <2>5, <2>6 DEF WorkerStep, Worker
<1>13. CASE FlushFails /\ UNCHANGED trainerVars
  BY <1>13 DEF FlushFails, AfterFailure, QueueInv, Left, Flushed, Waiting, Copying
<1>14. QED
  BY <1>2, <1>3, <1>4, <1>5, <1>6, <1>7, <1>8, <1>9, <1>10, <1>11, <1>12, <1>13
     DEF Next, InCall, BackwardStarts, BackwardEnds, BackwardRaises

PendingInv == PendingIsWhatIsLeft /\ IsFiniteSet(Left)

LEMMA PendingStep == FileInv /\ QueueInv /\ PendingInv /\ [Next]_vars => PendingInv'
<1> SUFFICES ASSUME FileInv, QueueInv, PendingInv, [Next]_vars PROVE PendingInv'
  OBVIOUS
<1> USE CheckpointAssumption
    DEF workerVars, managerVars, fileVars, queueVars, trainerVars, Goto, Move
<1>a. IsFiniteSet(Left) /\ Cardinality(Left) \in Nat /\ pending \in Int
      /\ pending = Cardinality(Left) - (IF tpc = "count" THEN 1 ELSE 0)
                                     + (IF wpc = "stats" THEN 1 ELSE 0)
  BY FS_CardinalityType DEF PendingInv, PendingIsWhatIsLeft, Left
<1>1. ASSUME UNCHANGED <<remote, accepted, pending>>,
             (tpc' = "count") <=> (tpc = "count"), (wpc' = "stats") <=> (wpc = "stats")
      PROVE  PendingInv'
  BY <1>1 DEF PendingInv, PendingIsWhatIsLeft, Left, Flushed
<1>2. CASE PhaseIsSet \/ \E c \in Collectives : Launch(c) \/ FailLaunch(c) \/ RunHook(c)
                                                \/ Callback(c)
  BY <1>2, <1>1 DEF PhaseIsSet, Launch, FailLaunch, RunHook, Callback
<1>3. CASE EnterCompute \/ EnterNccl \/ LeaveNccl \/ RaiseInCompute
  BY <1>3, <1>1 DEF EnterCompute, EnterNccl, LeaveNccl, RaiseInCompute, SetPhase
<1>4. CASE LeaveCompute \/ LeaveBackward \/ EnterBackward \/ RaiseInBackward
  BY <1>4, <1>1 DEF LeaveCompute, LeaveBackward, EnterBackward, RaiseInBackward
<1>5. CASE Join \/ JoinReturn \/ GoOn \/ ThreadJoined \/ ShutDown
  BY <1>5, <1>1 DEF Join, JoinReturn, GoOn, ThreadJoined, ShutDown, SetStop, Stay
<1>6. CASE UNCHANGED vars
  BY <1>6, <1>1 DEF vars
<1>7. CASE LeaveCheckpoint \/ \E s \in Steps : Checkpoint(s)
  BY <1>7, <1>1 DEF LeaveCheckpoint, Checkpoint
<1>8. CASE Create \/ Write \/ WriteFails \/ Drop
  BY <1>8, <1>1 DEF Create, OpenLocal, Write, WriteLocal, WriteFails, FailLocal, Drop, DropJob
<1>9. CASE Count
  <2>1. Left' = Left /\ tpc = "count" /\ tpc' = "leave" /\ pending' = pending + 1 /\ wpc' = wpc
    BY <1>9 DEF Count, CountJob, Left, Flushed
  <2>2. IsFiniteSet(Left') /\ Cardinality(Left') = Cardinality(Left)
    BY <2>1, <1>a
  <2>3. QED
    BY <2>1, <2>2, <1>a DEF PendingInv, PendingIsWhatIsLeft, Left
<1>10. CASE Put
  <2>1. Left' = Left \cup {step} /\ step \notin Left
    BY <1>10 DEF Put, PutJob, QueueInv, Left, Flushed
  <2>2. IsFiniteSet(Left') /\ Cardinality(Left') = Cardinality(Left) + 1
    BY <2>1, <1>a, FS_AddElement
  <2>3. tpc = "put" /\ tpc' = "count" /\ pending' = pending /\ wpc' = wpc
    BY <1>10 DEF Put, PutJob
  <2>4. QED
    BY <2>2, <2>3, <1>a DEF PendingInv, PendingIsWhatIsLeft, Left
<1>11. CASE WorkerStep
  <2> UNCHANGED trainerVars
    BY <1>11 DEF WorkerStep
  <2>1. CASE LoopTest \/ GetJob \/ OpenTmp \/ Gate \/ Block
    BY <2>1, <1>1 DEF LoopTest, GetJob, OpenTmp, Gate, GateDecision, Block
  <2>2. CASE BlockTimedOut \/ BlockEnds \/ WriteChunk \/ EndOfFile \/ RemoveLocal \/ TaskDone
    BY <2>2, <1>1 DEF BlockTimedOut, BlockEnds, WriteChunk, EndOfFile, RemoveLocal, TaskDone
  <2>3. CASE Rename
    <3>1. Left' = Left \ {job} /\ job \in Left
      BY <2>3 DEF Rename, QueueInv, FileInv, FileTypes, Copying, Left, Flushed
    <3>2. IsFiniteSet(Left') /\ Cardinality(Left') = Cardinality(Left) - 1
      BY <3>1, <1>a, FS_RemoveElement
    <3>3. wpc = "rename" /\ wpc' = "stats" /\ pending' = pending /\ tpc' = tpc
      BY <2>3 DEF Rename
    <3>4. QED
      BY <3>2, <3>3, <1>a DEF PendingInv, PendingIsWhatIsLeft, Left
  <2>4. CASE CountFlush
    <3>1. Left' = Left /\ wpc = "stats" /\ wpc' = "unlink" /\ pending' = pending - 1 /\ tpc' = tpc
      BY <2>4 DEF CountFlush, Left, Flushed
    <3>2. IsFiniteSet(Left') /\ Cardinality(Left') = Cardinality(Left)
      BY <3>1, <1>a
    <3>3. QED
      BY <3>1, <3>2, <1>a DEF PendingInv, PendingIsWhatIsLeft, Left
  <2>5. QED
    BY <1>11, <2>1, <2>2, <2>3, <2>4 DEF WorkerStep, Worker
<1>12. CASE FlushFails /\ UNCHANGED trainerVars
  BY <1>12, <1>1 DEF FlushFails, AfterFailure, PendingAfterFailure
<1>13. QED
  BY <1>2, <1>3, <1>4, <1>5, <1>6, <1>7, <1>8, <1>9, <1>10, <1>11, <1>12
     DEF Next, InCall, BackwardStarts, BackwardEnds, BackwardRaises

LEMMA PendingStart == Init => QueueInv /\ PendingInv
<1>1. Init => accepted = {} /\ Flushed = {} /\ pending = 0 /\ tpc = "idle" /\ wpc = "loop"
  BY CheckpointAssumption DEF Init, ManagerInit, Flushed
<1>2. IsFiniteSet({}) /\ Cardinality({}) = 0
  BY FS_EmptySet
<1>3. Init => Left = {}
  BY <1>1 DEF Left
<1>4. Init => PendingInv
  BY <1>1, <1>2, <1>3 DEF PendingInv, PendingIsWhatIsLeft, Left
<1>5. QED
  BY <1>1, <1>4 DEF Init, ManagerInit, QueueInv, Copying, Waiting

\* _bytes_pending counts the queued checkpoints that are not on Lustre, though it
\* is written by two threads after the events that it counts: it may dip below,
\* and rise above, by the one job between its event and its statistics.
THEOREM PendingIsRight == Spec => []PendingIsWhatIsLeft
<1>1. PendingInv => PendingIsWhatIsLeft
  BY DEF PendingInv
<1>2. QED
  BY <1>1, FileStart, FileStep, PendingStart, QueueStep, PendingStep, PTL DEF Spec

-------------------------------------------------------------------------------
(* The store of checkpoints.                                               *)

\* What the refinement needs beyond the files and the queue: who is whole on local
\* storage was saved, and a flush that is over has a checkpoint in one place.
StoreInv ==
    /\ Kept \subseteq saved
    /\ wpc \in {"loop", "get", "exited"} => job = NoStep
    /\ wpc \in {"stats", "unlink"} => job \in Kept
    /\ wpc = "task_done" => job \in (Kept \ Flushed) \cup (Flushed \ Kept)

\* The state of the store does not change.
SameStore == UNCHANGED <<Kept, Flushed, accepted, queue, job>>

LEMMA StoreSame ==
    ASSUME SameStore
    PROVE  UNCHANGED Store!storeVars
  BY DEF SameStore, Store!storeVars

\* Every step of V1 is a step of the store or none, and keeps StoreInv.
LEMMA StoreStep ==
    FileInv /\ QueueInv /\ StoreInv /\ [Next]_vars
        => StoreInv' /\ [Store!Next]_(Store!storeVars)
<1> SUFFICES ASSUME FileInv, QueueInv, StoreInv, [Next]_vars
             PROVE  StoreInv' /\ [Store!Next]_(Store!storeVars)
  OBVIOUS
<1> USE CheckpointAssumption
    DEF workerVars, managerVars, fileVars, queueVars, trainerVars, Goto, Move
<1>1. ASSUME UNCHANGED <<local, remote, saved, accepted, queue, wpc, job>>
      PROVE  StoreInv' /\ [Store!Next]_(Store!storeVars)
  <2>1. SameStore /\ StoreInv'
    BY <1>1 DEF SameStore, StoreInv, Kept, Flushed
  <2>2. QED
    BY <2>1, StoreSame
<1>2. CASE PhaseIsSet \/ \E c \in Collectives : Launch(c) \/ FailLaunch(c) \/ RunHook(c)
                                                \/ Callback(c)
  BY <1>2, <1>1 DEF PhaseIsSet, Launch, FailLaunch, RunHook, Callback
<1>3. CASE EnterCompute \/ EnterNccl \/ LeaveNccl \/ RaiseInCompute
  BY <1>3, <1>1 DEF EnterCompute, EnterNccl, LeaveNccl, RaiseInCompute, SetPhase
<1>4. CASE LeaveCompute \/ LeaveBackward \/ EnterBackward \/ RaiseInBackward
  BY <1>4, <1>1 DEF LeaveCompute, LeaveBackward, EnterBackward, RaiseInBackward
<1>5. CASE Join \/ JoinReturn \/ GoOn \/ ThreadJoined \/ ShutDown
  BY <1>5, <1>1 DEF Join, JoinReturn, GoOn, ThreadJoined, ShutDown, SetStop, Stay
<1>6. CASE UNCHANGED vars
  BY <1>6, <1>1 DEF vars
<1>7. CASE LeaveCheckpoint \/ \E s \in Steps : Checkpoint(s)
  BY <1>7, <1>1 DEF LeaveCheckpoint, Checkpoint
<1>8. CASE WriteFails \/ Drop \/ Count
  BY <1>8, <1>1 DEF WriteFails, FailLocal, Drop, DropJob, Count, CountJob
<1>9. CASE Create
  <2>1. /\ local' = [local EXCEPT ![step] = 0] /\ step \notin saved /\ tpc = "create"
        /\ UNCHANGED <<remote, saved, accepted, queue, wpc, job>>
    BY <1>9 DEF Create, OpenLocal, QueueInv
  <2>2. step \notin Kept /\ local \in [Steps -> File] /\ 0 # Chunks
    BY <2>1 DEF StoreInv, FileInv, FileTypes
  <2>3. Kept' = Kept /\ Flushed' = Flushed
    BY <2>1, <2>2 DEF Kept, Flushed
  <2>4. StoreInv' /\ SameStore
    BY <2>1, <2>3 DEF StoreInv, SameStore
  <2>5. QED
    BY <2>4, StoreSame
<1>10. CASE Write
  <2>1. /\ local' = [local EXCEPT ![step] = Chunks] /\ saved' = saved \cup {step}
        /\ step \in Steps /\ step \notin saved
        /\ UNCHANGED <<remote, accepted, queue, wpc, job>>
    BY <1>10 DEF Write, WriteLocal, QueueInv, FileInv, FileTypes
  <2>2. Kept' = Kept \cup {step} /\ Flushed' = Flushed
    BY <2>1 DEF Kept, Flushed, FileInv, FileTypes
  <2>3. step \notin Kept \cup Flushed /\ Flushed \subseteq saved
    BY <2>1 DEF StoreInv, QueueInv
  <2>4. StoreInv'
    BY <2>1, <2>2, <2>3 DEF StoreInv
  <2>5. Store!Save(step)
    BY <2>1, <2>2, <2>3 DEF Store!Save
  <2>6. QED
    BY <2>1, <2>4, <2>5 DEF Store!Next
<1>11. CASE Put
  <2>1. /\ queue' = Append(queue, step) /\ Len(queue) < MaxPending
        /\ accepted' = accepted \cup {step}
        /\ step \in Steps /\ step \in saved \ accepted
        /\ UNCHANGED <<local, remote, saved, wpc, job>>
    BY <1>11 DEF Put, PutJob, HasRoom, QueueInv, FileInv, FileTypes
  <2>2. Kept' = Kept /\ Flushed' = Flushed
    BY <2>1 DEF Kept, Flushed
  <2>3. step \in Kept \ (Flushed \cup accepted)
    BY <2>1 DEF QueueInv, FileInv, SavedIsKept, Kept, Flushed
  <2>4. Store!Accept(step) /\ StoreInv'
    BY <2>1, <2>2, <2>3 DEF Store!Accept, StoreInv
  <2>5. QED
    BY <2>1, <2>4 DEF Store!Next
<1>12. CASE WorkerStep
  <2> UNCHANGED trainerVars
    BY <1>12 DEF WorkerStep
  <2>1. ASSUME UNCHANGED <<local, remote, saved, accepted, queue, job>>,
               wpc' \in {"open", "gate", "block", "chunk", "rename"}
               \/ (wpc \in {"loop", "get"} /\ wpc' \in {"loop", "get", "exited"})
               \/ (wpc = "stats" /\ wpc' = "unlink")
        PROVE  StoreInv' /\ SameStore
    BY <2>1 DEF SameStore, StoreInv, Kept, Flushed
  <2>2. CASE LoopTest \/ (GetJob /\ queue = <<>>) \/ OpenTmp \/ WriteChunk \/ EndOfFile \/ CountFlush
    <3>1. StoreInv' /\ SameStore
      BY <2>1, <2>2 DEF LoopTest, GetJob, OpenTmp, WriteChunk, EndOfFile, CountFlush
    <3>2. QED
      BY <3>1, StoreSame
  <2>3. CASE Gate \/ Block \/ BlockEnds \/ (BlockTimedOut /\ WaitAgain)
    <3>1. StoreInv' /\ SameStore
      BY <2>1, <2>3 DEF Gate, GateDecision, Block, BlockEnds, BlockTimedOut
    <3>2. QED
      BY <3>1, StoreSame
  <2>4. CASE GetJob /\ queue # <<>>
    <3>1. /\ job' = Head(queue) /\ queue' = Tail(queue) /\ wpc = "get" /\ wpc' = "open"
          /\ UNCHANGED <<local, remote, saved, accepted>>
      BY <2>4 DEF GetJob
    <3>2. Kept' = Kept /\ Flushed' = Flushed /\ job = NoStep
      BY <3>1 DEF Kept, Flushed, StoreInv
    <3>3. Store!Begin /\ StoreInv'
      BY <2>4, <3>1, <3>2 DEF Store!Begin, StoreInv
    <3>4. QED
      BY <3>3 DEF Store!Next
  <2>5. CASE BlockTimedOut /\ ~WaitAgain
    <3>1. /\ wpc = "block" /\ wpc' = "task_done"
          /\ UNCHANGED <<local, remote, saved, accepted, queue, job>>
      BY <2>5 DEF BlockTimedOut
    <3>2. job \in Kept \ Flushed
      BY <3>1 DEF QueueInv, Copying, Left, FileInv, FileTypes, Busy, SavedIsKept, Kept, Flushed
    <3>3. SameStore /\ Kept' = Kept /\ Flushed' = Flushed
      BY <3>1 DEF SameStore, Kept, Flushed
    <3>4. StoreInv'
      BY <3>1, <3>2, <3>3 DEF StoreInv
    <3>5. QED
      BY <3>3, <3>4, StoreSame
  <2>6. CASE Rename
    <3>1. /\ remote' = [remote EXCEPT ![job] = tmp[job]] /\ wpc = "rename" /\ wpc' = "stats"
          /\ UNCHANGED <<local, saved, accepted, queue, job>>
      BY <2>6 DEF Rename
    <3>2. job \in Kept \ Flushed
      BY <3>1 DEF QueueInv, Copying, Left, FileInv, FileTypes, Busy, SavedIsKept, Kept, Flushed
    <3>3. Flushed' = Flushed \cup {job} /\ Kept' = Kept
      BY <3>1, <3>2 DEF Flushed, Kept, FileInv, FileTypes
    <3>4. Store!Publish /\ StoreInv'
      BY <3>1, <3>2, <3>3 DEF Store!Publish, StoreInv
    <3>5. QED
      BY <3>4 DEF Store!Next
  <2>7. CASE RemoveLocal
    <3>1. /\ local' = [local EXCEPT ![job] = NoFile] /\ wpc = "unlink" /\ wpc' = "task_done"
          /\ UNCHANGED <<remote, saved, accepted, queue, job>>
      BY <2>7 DEF RemoveLocal
    <3>2. job \in Kept /\ job \in Flushed
      BY <3>1 DEF StoreInv, FileInv, FileTypes, Busy, Kept, Flushed
    <3>3. Kept' = Kept \ {job} /\ Flushed' = Flushed
      BY <3>1 DEF Flushed, Kept, FileInv, FileTypes
    <3>4. Store!Release /\ StoreInv'
      BY <3>1, <3>2, <3>3 DEF Store!Release, StoreInv
    <3>5. QED
      BY <3>4 DEF Store!Next
  <2>8. CASE TaskDone
    <3>1. /\ job' = NoStep /\ wpc = "task_done" /\ wpc' = "loop"
          /\ UNCHANGED <<local, remote, saved, accepted, queue>>
      BY <2>8 DEF TaskDone
    <3>2. Kept' = Kept /\ Flushed' = Flushed
      BY <3>1 DEF Kept, Flushed
    <3>3. Store!End /\ StoreInv'
      BY <3>1, <3>2 DEF Store!End, StoreInv
    <3>4. QED
      BY <3>3 DEF Store!Next
  <2>9. QED
    BY <1>12, <2>2, <2>3, <2>4, <2>5, <2>6, <2>7, <2>8 DEF WorkerStep, Worker
<1>13. CASE FlushFails /\ UNCHANGED trainerVars
  <2>1. /\ wpc \in {"open", "chunk", "rename"} /\ wpc' = "task_done"
        /\ UNCHANGED <<local, remote, saved, accepted, queue, job>>
    BY <1>13 DEF FlushFails, AfterFailure
  <2>2. job \in Kept \ Flushed
    BY <2>1 DEF QueueInv, Copying, Left, FileInv, FileTypes, Busy, SavedIsKept, Kept, Flushed
  <2>3. SameStore /\ Kept' = Kept /\ Flushed' = Flushed
    BY <2>1 DEF SameStore, Kept, Flushed
  <2>4. StoreInv'
    BY <2>1, <2>2, <2>3 DEF StoreInv
  <2>5. QED
    BY <2>3, <2>4, StoreSame
<1>14. QED
  BY <1>2, <1>3, <1>4, <1>5, <1>6, <1>7, <1>8, <1>9, <1>10, <1>11, <1>12, <1>13
     DEF Next, InCall, BackwardStarts, BackwardEnds, BackwardRaises

\* V1 implements the store of checkpoints, for any checkpoints, queue bound, number
\* of chunks and failures: writing is saving, rename() publishes, unlink() releases,
\* and phases, gates, chunks and the training thread are stuttering.
THEOREM CheckpointsAreStored == Spec => ImplementsStore
<1>1. Init => StoreInv /\ Store!Init
  <2> SUFFICES ASSUME Init PROVE StoreInv /\ Store!Init
    OBVIOUS
  <2>1. Kept = {} /\ Flushed = {}
    BY CheckpointAssumption DEF Init, ManagerInit, Kept, Flushed
  <2>2. QED
    BY <2>1 DEF Init, ManagerInit, StoreInv, Store!Init
<1>2. QED
  BY <1>1, FileStart, FileStep, PendingStart, QueueStep, StoreStep, PTL
     DEF Spec, ImplementsStore, Store!Spec

-------------------------------------------------------------------------------
(* The types.                                                              *)

TrainerPlaces == {"idle", "compute", "backward", "nccl", "create", "write", "put", "count",
                  "leave", "join", "joined", "thread", "done"}
WorkerPlaces == {"loop", "get", "open", "gate", "block", "chunk", "rename", "stats",
                 "unlink", "task_done", "exited"}

\* What the other invariants do not say of the types.
TypeInv ==
    /\ tpc \in TrainerPlaces /\ step \in Steps \cup {NoStep}
    /\ wpc \in WorkerPlaces /\ job \in Steps \cup {NoStep}
    /\ given_up \subseteq Steps /\ Len(queue) <= MaxPending
    /\ failures \in 0 .. MaxFailures

LEMMA TypeStep == FileInv /\ TypeInv /\ [Next]_vars => TypeInv'
<1> SUFFICES ASSUME FileInv, TypeInv, [Next]_vars PROVE TypeInv'
  OBVIOUS
<1> USE CheckpointAssumption
    DEF workerVars, managerVars, fileVars, queueVars, trainerVars, Goto, Move, TypeInv,
        TrainerPlaces, WorkerPlaces
<1>a. queue \in Seq(Steps) /\ (Busy => job \in Steps)
  BY DEF FileInv, FileTypes
<1>1. CASE PhaseIsSet \/ \E c \in Collectives : Launch(c) \/ FailLaunch(c) \/ RunHook(c)
                                                \/ Callback(c)
  BY <1>1 DEF PhaseIsSet, Launch, FailLaunch, Fail, RunHook, Callback
<1>2. CASE EnterCompute \/ EnterNccl \/ LeaveNccl \/ RaiseInCompute
  BY <1>2 DEF EnterCompute, EnterNccl, LeaveNccl, RaiseInCompute, SetPhase
<1>3. CASE LeaveCompute \/ LeaveBackward \/ EnterBackward \/ RaiseInBackward
  BY <1>3 DEF LeaveCompute, LeaveBackward, EnterBackward, RaiseInBackward
<1>4. CASE Join \/ JoinReturn \/ GoOn \/ ThreadJoined \/ ShutDown
  BY <1>4 DEF Join, JoinReturn, GoOn, ThreadJoined, ShutDown, SetStop, Stay
<1>5. CASE LeaveCheckpoint \/ \E s \in Steps : Checkpoint(s)
  BY <1>5 DEF LeaveCheckpoint, Checkpoint
<1>6. CASE Create \/ Write \/ WriteFails \/ Drop \/ Count
  BY <1>6 DEF Create, OpenLocal, Write, WriteLocal, WriteFails, FailLocal, Fail, Drop, DropJob,
              Count, CountJob
<1>7. CASE Put
  <2>1. Len(Append(queue, step)) = Len(queue) + 1 /\ Len(queue) \in Nat
    BY <1>7, <1>a DEF Put, FileInv, FileTypes
  <2>2. QED
    BY <1>7, <2>1 DEF Put, PutJob, HasRoom
<1>8. CASE WorkerStep
  <2> UNCHANGED trainerVars
    BY <1>8 DEF WorkerStep
  <2>1. CASE GetJob
    <3>1. queue # <<>> => /\ Head(queue) \in Steps /\ Len(Tail(queue)) = Len(queue) - 1
                          /\ Len(queue) \in Nat
      BY <1>a
    <3>2. QED
      BY <2>1, <3>1 DEF GetJob
  <2>2. CASE LoopTest \/ OpenTmp \/ Gate \/ Block
    BY <2>2 DEF LoopTest, OpenTmp, Gate, GateDecision, Block
  <2>3. CASE BlockTimedOut \/ BlockEnds
    BY <2>3, <1>a DEF BlockTimedOut, BlockEnds, Busy
  <2>4. CASE WriteChunk \/ EndOfFile \/ Rename \/ CountFlush \/ RemoveLocal \/ TaskDone
    BY <2>4 DEF WriteChunk, EndOfFile, Rename, CountFlush, RemoveLocal, TaskDone
  <2>5. QED
    BY <1>8, <2>1, <2>2, <2>3, <2>4 DEF WorkerStep, Worker
<1>9. CASE FlushFails /\ UNCHANGED trainerVars
  BY <1>9, <1>a DEF FlushFails, AfterFailure, Fail, Busy
<1>10. CASE UNCHANGED vars
  BY <1>10 DEF vars
<1>11. QED
  BY <1>1, <1>2, <1>3, <1>4, <1>5, <1>6, <1>7, <1>8, <1>9, <1>10
     DEF Next, InCall, BackwardStarts, BackwardEnds, BackwardRaises

\* Nothing clears _stop, and nothing but shutdown() sets it.
StopInv == stop \in BOOLEAN

LEMMA StopStep == StopInv /\ [Next]_vars => StopInv'
<1> SUFFICES ASSUME StopInv, [Next]_vars PROVE StopInv'
  OBVIOUS
<1>1. stop' = stop \/ stop' = TRUE
  BY DEF Next, InCall, PhaseIsSet, Launch, Create, OpenLocal, Write, WriteLocal, Put, PutJob,
         Drop, DropJob, Count, CountJob, LeaveCheckpoint, JoinReturn, ThreadJoined,
         BackwardStarts, EnterCompute, EnterBackward, BackwardEnds, LeaveCompute,
         LeaveBackward, BackwardRaises, RaiseInCompute, RaiseInBackward, SetPhase, RunHook,
         FailLaunch, Callback, EnterNccl, LeaveNccl, Checkpoint, WriteFails, FailLocal, Join,
         GoOn, ShutDown, SetStop, Stay, WorkerStep, Worker, LoopTest, GetJob, OpenTmp, Gate,
         Block, BlockTimedOut, BlockEnds, WriteChunk, EndOfFile, Rename, CountFlush,
         RemoveLocal, TaskDone, FlushFails, vars, managerVars
<1>2. QED
  BY <1>1 DEF StopInv

\* Every variable of V1 keeps its type: the queue holds at most max_pending jobs,
\* and the statistics do not leave their range.
THEOREM TypesAreKept == Spec => []TypeOK
<1>0. Init => TypeInv
  BY CheckpointAssumption DEF Init, ManagerInit, TypeInv, TrainerPlaces, WorkerPlaces
<1>1. Init => StopInv
  BY DEF Init, ManagerInit, StopInv
<1>2. Init => JoinInv
  BY DEF Init, ManagerInit, JoinInv, Busy, Waiting
<1>3. QueueInv => saved \subseteq Steps /\ accepted \subseteq Steps
  BY DEF QueueInv
<1>4. MonitorInv /\ GateInv /\ FileInv /\ JoinInv /\ QueueInv /\ PendingInv /\ TypeInv
      /\ StopInv => TypeOK
  <2> SUFFICES ASSUME MonitorInv, GateInv, FileInv, JoinInv, QueueInv, PendingInv, TypeInv,
                      StopInv
               PROVE  TypeOK
    OBVIOUS
  <2>1. unfinished \in Nat /\ leaked \in Nat
    BY DEF JoinInv, GateInv, FileInv, FileTypes
  <2>2. pending \in Int
    BY FS_CardinalityType DEF PendingInv, PendingIsWhatIsLeft, Left
  <2>3. QED
    BY <1>3, <2>1, <2>2
       DEF TypeOK, StopInv, MonitorInv, ManagerTypeOK, FileInv, FileTypes, TypeInv, TrainerPlaces,
           WorkerPlaces
<1>5. QED
  BY <1>0, <1>1, <1>2, <1>4, MonitorStart, MonitorStep, GateStep, FileStart, FileStep, JoinStep,
     PendingStart, QueueStep, PendingStep, TypeStep, StopStep, PTL DEF Spec
===============================================================================
