---------------------------- MODULE TEMPOScheduler ----------------------------
(***************************************************************************)
(* tempo/scheduler.py, TEMPOScheduler in "tempo" mode: the training thread *)
(* that drives PhaseMonitor and CheckpointManager, with the callbacks of   *)
(* the collectives and the flush thread.  compute_phase() is optional, as  *)
(* the comm hooks do without it.                                           *)
(***************************************************************************)
EXTENDS CheckpointManager

VARIABLES tpc,    \* where the training thread stands
          step    \* the step it is saving

trainerVars == <<tpc, step>>
vars == <<monitorVars, managerVars, trainerVars>>

Init == MonitorInit /\ ManagerInit /\ tpc = "idle" /\ step = NoStep

\* The training thread is at one place, outside set_phase() and the launch
\* of an all-reduce, and goes to another.
Move(from, to) ==
    /\ tpc = from /\ holder # "trainer"
    /\ \A c \in Collectives : coll[c] # "launch"
    /\ tpc' = to

\* A move whose only effect is a set_phase().
SetPhase(from, to, new) ==
    /\ Move(from, to)
    /\ BeginSetPhase("trainer", new)
    /\ UNCHANGED <<managerVars, step, coll>>

\* The lock is released; leaked counts from the start of the phase.
PhaseIsSet ==
    /\ EndSetPhase
    /\ leaked' = 0
    /\ UNCHANGED <<fileVars, queueVars, wpc, job, given_up, stop, failures, trainerVars>>

-------------------------------------------------------------------------------
(* The training step                                                       *)

EnterCompute == SetPhase("idle", "compute", "COMPUTE")

EnterBackward ==
    /\ Move("idle", "backward")
    /\ UNCHANGED <<monitorVars, managerVars, step>>

\* backward() returns when the futures of all its buckets are done.  The
\* buckets of the next backward pass are new ones.
Drained ==
    /\ LockFree /\ \A c \in Collectives : coll[c] \in {"new", "done"}
    /\ coll' = [c \in Collectives |-> "new"]

LeaveCompute ==
    /\ Move("compute", "idle")
    /\ Drained
    /\ BeginSetPhase("trainer", "IDLE")
    /\ UNCHANGED <<managerVars, step>>

LeaveBackward ==
    /\ Move("backward", "idle")
    /\ Drained
    /\ UNCHANGED <<phase, io_allowed, holder, target, no_budget, waiter, managerVars, step>>

\* A failed launch ends backward() with an exception.
RaiseInCompute ==
    /\ \E c \in Collectives : coll[c] = "failed"
    /\ SetPhase("compute", "idle", "IDLE")

RaiseInBackward ==
    /\ \E c \in Collectives : coll[c] = "failed"
    /\ Move("backward", "idle")
    /\ UNCHANGED <<monitorVars, managerVars, step>>

BackwardStarts == EnterCompute \/ EnterBackward
BackwardEnds == LeaveCompute \/ LeaveBackward
BackwardRaises == RaiseInCompute \/ RaiseInBackward

RunHook(c) ==
    /\ tpc \in {"compute", "backward"} /\ Move(tpc, tpc)
    /\ \A d \in Collectives : coll[d] # "failed"
    /\ HookEnter(c)
    /\ UNCHANGED <<managerVars, step>>

Launch(c) ==
    /\ holder # "trainer"
    /\ HookLaunch(c)
    /\ UNCHANGED <<managerVars, trainerVars>>

FailLaunch(c) ==
    /\ holder # "trainer"
    /\ HookFails(c)
    /\ Fail
    /\ UNCHANGED <<fileVars, queueVars, workerVars, stop, trainerVars>>

Callback(c) ==
    /\ MarkDone(c)
    /\ UNCHANGED <<managerVars, trainerVars>>

EnterNccl == SetPhase("idle", "nccl", "NCCL_COMM")
LeaveNccl == SetPhase("nccl", "idle", "COMPUTE")

-------------------------------------------------------------------------------
(* checkpoint(): save_async() inside checkpoint_phase()                    *)

Checkpoint(s) ==
    /\ local[s] = NoFile /\ s \notin saved
    /\ Move("idle", "create")
    /\ step' = s
    /\ BeginSetPhase("trainer", "CHECKPOINT")
    /\ UNCHANGED <<managerVars, coll>>

Create == Move("create", "write") /\ OpenLocal(step) /\ UNCHANGED <<monitorVars, step>>
Write  == Move("write", "put") /\ WriteLocal(step) /\ UNCHANGED <<monitorVars, step>>
WriteFails == Move("write", "leave") /\ FailLocal /\ UNCHANGED <<monitorVars, step>>
Put    == Move("put", "count") /\ PutJob(step) /\ UNCHANGED <<monitorVars, step>>
Drop   == Move("put", "leave") /\ DropJob /\ UNCHANGED <<monitorVars, step>>
Count  == Move("count", "leave") /\ CountJob /\ UNCHANGED <<monitorVars, step>>

LeaveCheckpoint ==
    /\ Move("leave", "idle")
    /\ step' = NoStep
    /\ BeginSetPhase("trainer", "IDLE")
    /\ UNCHANGED <<managerVars, coll>>

-------------------------------------------------------------------------------
(* wait_for_flushes() and shutdown()                                       *)

Stay == UNCHANGED <<monitorVars, managerVars, step>>

Join == Move("idle", "join") /\ Stay
JoinReturn == AllTasksDone /\ Move("join", "joined") /\ Stay
GoOn == Move("joined", "idle") /\ Stay

\* shutdown(wait=True) once its wait_for_all_flushes() has returned, and
\* shutdown(wait=False).
ShutDown ==
    /\ Move("joined", "thread") \/ Move("idle", "done")
    /\ SetStop
    /\ UNCHANGED <<monitorVars, step>>

\* The thread is joined, or the 30 s are over.
ThreadJoined == Move("thread", "done") /\ Stay

-------------------------------------------------------------------------------
\* What the training thread does inside a call of TEMPO.
InCall ==
    \/ PhaseIsSet
    \/ \E c \in Collectives : Launch(c)
    \/ Create \/ Write \/ Put \/ Drop \/ Count \/ LeaveCheckpoint
    \/ JoinReturn \/ ThreadJoined

WorkerStep == Worker /\ UNCHANGED trainerVars

Next ==
    \/ InCall
    \/ BackwardStarts \/ BackwardEnds \/ BackwardRaises
    \/ \E c \in Collectives : RunHook(c) \/ FailLaunch(c) \/ Callback(c)
    \/ EnterNccl \/ LeaveNccl
    \/ \E s \in Steps : Checkpoint(s)
    \/ WriteFails \/ Join \/ GoOn \/ ShutDown
    \/ WorkerStep
    \/ FlushFails /\ UNCHANGED trainerVars

Spec == Init /\ [][Next]_vars

\* The flush thread and the body of a call keep running; a collective may hang,
\* and nothing obliges the program to train, to save or to shut down.  The lock
\* is held for microseconds, a few times per training step: a flush thread that
\* finds it free again and again takes it in the end.
TakesLock == (Gate \/ BlockEnds) /\ UNCHANGED trainerVars

FairSpec == Spec /\ WF_vars(WorkerStep) /\ WF_vars(InCall) /\ SF_vars(TakesLock)

-------------------------------------------------------------------------------
TypeOK ==
    /\ MonitorTypeOK /\ ManagerTypeOK
    /\ tpc \in {"idle", "compute", "backward", "nccl", "create", "write", "put", "count",
                "leave", "join", "joined", "thread", "done"}
    /\ step \in Steps \cup {NoStep}

\* Whatever the order of hooks and callbacks, the phase is NCCL_COMM only while
\* something is there to end it, or after all_reduce() raised in a hook: the
\* gate of the flush thread is not left closed by a collective that ended.
NcclPhaseHasCause ==
    LockFree /\ phase = "NCCL_COMM" =>
        tpc = "nccl" \/ \E c \in Collectives : coll[c] \in {"launch", "inflight", "failed"}

\* _bytes_pending is "queued but not yet flushed" at every instant, but for the
\* two windows between the event and its statistics: a failed or abandoned
\* flush stays in it.
PendingIsWhatIsLeft ==
    pending = Cardinality(accepted \ Flushed)
                - (IF tpc = "count" THEN 1 ELSE 0) + (IF wpc = "stats" THEN 1 ELSE 0)

\* The checkpoints that are whole on local storage.
Kept == {s \in Steps : local[s] = Chunks}

Store == INSTANCE CheckpointStore
             WITH kept <- Kept, durable <- Flushed, waiting <- queue, current <- job

\* save_async() and the flush thread implement the store: whatever fails or is
\* abandoned, a checkpoint is never lost from both places, is published whole, once
\* and in its turn, and loses its local copy only after that.
ImplementsStore == Store!Spec

\* When wait_for_flushes() has returned, every queued checkpoint is on Lustre,
\* but for those whose flush raised.
JoinMeansFlushed == tpc = "joined" => accepted \subseteq Flushed \cup given_up

\* shutdown() ends, and so does the flush thread, even one that is blocked in
\* an NCCL phase that never ends.
StopEnds == stop ~> (wpc = "exited" /\ tpc = "done")

\* Once no NCCL phase is entered any more, what is queued is flushed or given
\* up, unless the manager is stopped: no lost wakeup, no job forgotten.
FlushesEnd ==
    <>[](phase # "NCCL_COMM") =>
        \A s \in Steps : s \in accepted ~> s \in Flushed \cup given_up \/ stop

\* wait_for_flushes() returns once no NCCL phase is entered any more, also
\* when flushes fail.
JoinReturns == <>[](phase # "NCCL_COMM") => (tpc = "join" ~> tpc # "join")

\* phase_monitor.py:7 and :276: the flush is paused during the local write.
\* No chunk is permitted in a CHECKPOINT phase.
CheckpointPausesFlush ==
    [][wpc = "gate" /\ wpc' = "chunk" => phase # "CHECKPOINT"]_vars

\* phase_monitor.py:103: is_nccl_active() is true while a collective is in
\* flight.
ActiveWhileInFlight == LockFree /\ InFlight # {} => phase = "NCCL_COMM"
===============================================================================
