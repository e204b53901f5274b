-------------------------- MODULE CheckpointManager --------------------------
(***************************************************************************)
(* tempo/checkpoint_manager.py: save_async() writes a checkpoint to local  *)
(* storage and queues it; the flush thread copies it to Lustre chunk by    *)
(* chunk through the gate of PhaseMonitor, renames the finished copy and   *)
(* removes the local file.  A file is the number of its chunks written so  *)
(* far.  Every step is saved at most once, and nobody else removes local   *)
(* files, so _do_flush() always finds its source.                          *)
(***************************************************************************)
EXTENDS PhaseMonitor, Sequences

CONSTANTS Steps,        \* the steps that are checkpointed
          Chunks,       \* the chunks of a checkpoint
          MaxPending,   \* max_pending
          MaxFailures,  \* bound: failing writes, local or to Lustre
          NoFile,       \* a file that does not exist
          NoStep        \* no step at hand

ASSUME CheckpointAssumption ==
    /\ Chunks \in Nat \ {0} /\ MaxPending \in Nat \ {0} /\ MaxFailures \in Nat
    /\ NoFile \notin 0 .. Chunks /\ NoStep \notin Steps

VARIABLES
    local,        \* the checkpoints on local storage
    tmp,          \* the .tmp files on Lustre
    remote,       \* the final files on Lustre
    saved,        \* history: the steps whose local write completed
    accepted,     \* history: the steps that were queued
    given_up,     \* history: the steps whose flush failed or was abandoned
    queue,        \* _queue
    unfinished,   \* its count of unfinished tasks
    pending,      \* _bytes_pending, in checkpoints
    stop,         \* _stop
    failures,     \* how many writes and launches failed
    wpc, job,     \* where the flush thread stands, and its job
    leaked        \* history: chunks written in this NCCL phase

fileVars == <<local, tmp, remote, saved>>
queueVars == <<queue, unfinished, pending, accepted>>
workerVars == <<wpc, job, leaked, given_up>>
managerVars == <<fileVars, queueVars, workerVars, stop, failures>>

File == 0 .. Chunks \cup {NoFile}

ManagerInit ==
    /\ local = [s \in Steps |-> NoFile]
    /\ tmp = [s \in Steps |-> NoFile]
    /\ remote = [s \in Steps |-> NoFile]
    /\ saved = {} /\ accepted = {} /\ given_up = {}
    /\ queue = <<>> /\ unfinished = 0 /\ pending = 0
    /\ stop = FALSE /\ failures = 0
    /\ wpc = "loop" /\ job = NoStep /\ leaked = 0

Goto(there) == wpc' = there

Fail ==
    /\ failures < MaxFailures
    /\ failures' = failures + 1

-------------------------------------------------------------------------------
(* save_async(), one operator per step of the caller.                      *)

\* torch.save() has created the file and not finished it.
OpenLocal(s) ==
    /\ local' = [local EXCEPT ![s] = 0]
    /\ UNCHANGED <<tmp, remote, saved, queueVars, workerVars, stop, failures>>

WriteLocal(s) ==
    /\ local' = [local EXCEPT ![s] = Chunks]
    /\ saved' = saved \cup {s}
    /\ UNCHANGED <<tmp, remote, queueVars, workerVars, stop, failures>>

FailLocal ==
    /\ Fail
    /\ UNCHANGED <<fileVars, queueVars, workerVars, stop>>

HasRoom == Len(queue) < MaxPending

\* put_nowait(), when the queue has room ...
PutJob(s) ==
    /\ HasRoom
    /\ queue' = Append(queue, s)
    /\ unfinished' = unfinished + 1
    /\ accepted' = accepted \cup {s}
    /\ UNCHANGED <<fileVars, pending, workerVars, stop, failures>>

\* ... and the statistics after it; a full queue drops the job.
CountJob ==
    /\ pending' = pending + 1
    /\ UNCHANGED <<fileVars, queue, unfinished, accepted, workerVars, stop, failures>>

DropJob ==
    /\ ~HasRoom
    /\ UNCHANGED managerVars

-------------------------------------------------------------------------------
(* _flush_worker() and _do_flush(): the flush thread.                      *)

\* The test of _stop, once per turn of the loop.
LoopTest ==
    /\ wpc = "loop"
    /\ Goto(IF stop THEN "exited" ELSE "get")
    /\ UNCHANGED <<monitorVars, fileVars, queueVars, job, leaked, given_up, stop, failures>>

\* get(timeout): the head of the queue, or queue.Empty.
GetJob ==
    /\ wpc = "get"
    /\ IF queue # <<>>
       THEN job' = Head(queue) /\ queue' = Tail(queue) /\ Goto("open")
       ELSE UNCHANGED <<job, queue>> /\ Goto("loop")
    /\ UNCHANGED <<monitorVars, fileVars, unfinished, pending, accepted, leaked, given_up,
                   stop, failures>>

OpenTmp ==
    /\ wpc = "open"
    /\ tmp' = [tmp EXCEPT ![job] = 0]
    /\ Goto("gate")
    /\ UNCHANGED <<monitorVars, local, remote, saved, queueVars, job, leaked, given_up, stop,
                   failures>>

\* Seeded fault: a gate that only looks at the estimate and not at the phase.
GateDecision_Open == IF no_budget THEN "block" ELSE "chunk"
GateDecision == IF ZeroRate THEN "block" ELSE "chunk"

\* The rate for the next chunk: zero is a hard block, a low one a short sleep.
Gate ==
    /\ wpc = "gate" /\ LockFree
    /\ Goto(GateDecision)
    /\ waiter' = IF GateDecision = "block" THEN "call" ELSE waiter
    /\ UNCHANGED <<phase, io_allowed, holder, target, no_budget, coll,
                   fileVars, queueVars, job, leaked, given_up, stop, failures>>

\* One wait_for_io_allowed(timeout=0.02).
Block ==
    /\ wpc = "block"
    /\ CallWait \/ WaitTimesOut
    /\ UNCHANGED managerVars

\* Seeded fault: the wait is repeated without a look at _stop.
WaitAgain_Always == TRUE
WaitAgain == ~stop

\* The wait timed out: wait on, or abandon the job when the manager stops.
BlockTimedOut ==
    /\ wpc = "block" /\ waiter = "false"
    /\ IF WaitAgain
       THEN waiter' = "call" /\ UNCHANGED <<wpc, given_up>>
       ELSE waiter' = "out" /\ Goto("task_done") /\ given_up' = given_up \cup {job}
    /\ UNCHANGED <<phase, io_allowed, holder, target, no_budget, coll,
                   fileVars, queueVars, job, leaked, stop, failures>>

\* The wait succeeded; the rate is computed again, under the lock, and the
\* chunk is written whatever it is.
BlockEnds ==
    /\ wpc = "block" /\ waiter = "true" /\ LockFree
    /\ waiter' = "out"
    /\ Goto("chunk")
    /\ UNCHANGED <<phase, io_allowed, holder, target, no_budget, coll,
                   fileVars, queueVars, job, leaked, given_up, stop, failures>>

\* Seeded fault: the copy ends one chunk early.
AtEof_OneEarly == tmp[job] >= Chunks - 1
AtEof == tmp[job] = Chunks

\* read() and write() of one chunk.
WriteChunk ==
    /\ wpc = "chunk" /\ ~AtEof
    /\ tmp' = [tmp EXCEPT ![job] = @ + 1]
    /\ leaked' = IF phase = "NCCL_COMM" THEN leaked + 1 ELSE leaked
    /\ Goto("gate")
    /\ UNCHANGED <<monitorVars, local, remote, saved, queueVars, job, given_up, stop, failures>>

EndOfFile ==
    /\ wpc = "chunk" /\ AtEof
    /\ Goto("rename")
    /\ UNCHANGED <<monitorVars, fileVars, queueVars, job, leaked, given_up, stop, failures>>

Rename ==
    /\ wpc = "rename"
    /\ remote' = [remote EXCEPT ![job] = tmp[job]]
    /\ tmp' = [tmp EXCEPT ![job] = NoFile]
    /\ Goto("stats")
    /\ UNCHANGED <<monitorVars, local, saved, queueVars, job, leaked, given_up, stop, failures>>

CountFlush ==
    /\ wpc = "stats"
    /\ pending' = pending - 1
    /\ Goto("unlink")
    /\ UNCHANGED <<monitorVars, fileVars, queue, unfinished, accepted, job, leaked, given_up,
                   stop, failures>>

RemoveLocal ==
    /\ wpc = "unlink"
    /\ local' = [local EXCEPT ![job] = NoFile]
    /\ Goto("task_done")
    /\ UNCHANGED <<monitorVars, tmp, remote, saved, queueVars, job, leaked, given_up, stop,
                   failures>>

\* open(), write() or rename() raises: the worker logs it and goes on with the
\* next job.  What was written stays, and so does the job in _bytes_pending.
\* Seeded faults: the handler forgets task_done(), or cleans up too much.
AfterFailure_NoTaskDone == "loop"
AfterFailure_Unlinks == "unlink"
AfterFailure == "task_done"
PendingAfterFailure_Less == pending - 1
PendingAfterFailure == pending

FlushFails ==
    /\ wpc \in {"open", "chunk", "rename"} /\ Fail
    /\ given_up' = given_up \cup {job}
    /\ pending' = PendingAfterFailure
    /\ Goto(AfterFailure)
    /\ UNCHANGED <<monitorVars, fileVars, queue, unfinished, accepted, job, leaked, stop>>

TaskDone ==
    /\ wpc = "task_done"
    /\ unfinished' = unfinished - 1
    /\ job' = NoStep
    /\ Goto("loop")
    /\ UNCHANGED <<monitorVars, fileVars, queue, pending, accepted, leaked, given_up, stop,
                   failures>>

\* What the flush thread does of itself, and what may go wrong in it.
Worker ==
    \/ LoopTest \/ GetJob \/ OpenTmp
    \/ Gate \/ Block \/ BlockTimedOut \/ BlockEnds
    \/ WriteChunk \/ EndOfFile \/ Rename \/ CountFlush \/ RemoveLocal \/ TaskDone

-------------------------------------------------------------------------------
(* wait_for_all_flushes() and shutdown().                                  *)

\* Seeded fault: join() that looks at the queue, not at the tasks.
AllTasksDone_QueueEmpty == queue = <<>>
AllTasksDone == unfinished = 0

SetStop ==
    /\ stop' = TRUE
    /\ UNCHANGED <<fileVars, queueVars, workerVars, failures>>

-------------------------------------------------------------------------------
ManagerTypeOK ==
    /\ local \in [Steps -> File] /\ tmp \in [Steps -> File] /\ remote \in [Steps -> File]
    /\ saved \subseteq Steps /\ accepted \subseteq Steps /\ given_up \subseteq Steps
    /\ queue \in Seq(Steps) /\ Len(queue) <= MaxPending
    /\ unfinished \in Nat /\ pending \in Int
    /\ stop \in BOOLEAN /\ failures \in 0 .. MaxFailures
    /\ wpc \in {"loop", "get", "open", "gate", "block", "chunk", "rename", "stats",
                "unlink", "task_done", "exited"}
    /\ job \in Steps \cup {NoStep} /\ leaked \in Nat

\* A checkpoint on Lustre under its final name is whole, whenever the node
\* dies: chunks go to the .tmp file and rename() comes after the last one.
RemoteIsComplete == \A s \in Steps : remote[s] \in {NoFile, Chunks}

\* A checkpoint whose save succeeded is whole somewhere, through every failed,
\* abandoned and refused flush: unlink() comes after rename().
SavedIsKept == \A s \in saved : Chunks \in {local[s], remote[s]}

\* However the permission to write and the start of a collective interleave,
\* at most one chunk is written in one NCCL phase: the one already permitted.
AtMostOneChunk == leaked <= 1

Flushed == {s \in Steps : remote[s] = Chunks}
===============================================================================
