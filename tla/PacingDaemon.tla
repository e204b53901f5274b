----------------------------- MODULE PacingDaemon -----------------------------
(***************************************************************************)
(* The C++ engine behind tempo_create_engine(): producers offer KV blocks, *)
(* the daemon thread of src/pacing_daemon takes them from the ring while   *)
(* the GPU is not in an attention phase, paces them with the token bucket  *)
(* and hands them to io_uring, and tempo_destroy_engine() stops it.        *)
(*                                                                         *)
(* The ring is the queue of BoundedFifo, which SpikeAbsorber implements;   *)
(* its counters are left out.  drain() may also find nothing in a ring     *)
(* that holds blocks, when the producer at its head has not published yet. *)
(* io_uring is external: a submission hands over every prepared entry or   *)
(* fails (at most MaxSubmitErrors times), and a write in flight settles:   *)
(* it completes, or is cancelled once its ring is closed.                  *)
(***************************************************************************)
EXTENDS AttentionMonitor, Sequences

CONSTANTS Blocks,           \* the KV blocks offered, each once
          NoBlock,          \* the daemon holds no block
          Capacity,         \* CAPACITY of the ring
          StrictGate,       \* strict_gate
          BlockBytes,       \* size_bytes, the same for every block
          Burst,            \* burst_bytes
          UringDepth,       \* uring_depth
          MaxSubmitErrors   \* bound: failing io_uring_submit() calls

ASSUME PacingAssumption ==
    /\ NoBlock \notin Blocks
    /\ StrictGate \in BOOLEAN
    /\ Capacity \in Nat \ {0} /\ BlockBytes \in Nat \ {0}
    /\ Burst \in Nat \ {0} /\ UringDepth \in Nat \ {0}
    /\ MaxSubmitErrors \in Nat

VARIABLES
    queue,       \* the blocks in the ring
    accepted,    \* history: the blocks tempo_absorb() returned 1 for
    running,     \* running_
    dpc,         \* where the daemon thread stands in run_loop()
    held,        \* the block it took from the ring
    tokens,      \* the bucket, refilled up to now
    overdrawn,   \* history: a block was flushed on less than its size in tokens
    sq, inflight, cq,   \* io_uring: prepared, in flight, completed
    settled,     \* history: the blocks whose write is no longer in flight
    errors,      \* how often io_uring_submit() failed
    leaked,      \* history: blocks flushed in this attention window
    epc          \* where tempo_destroy_engine() stands

ringVars == <<queue, accepted>>
bucketVars == <<tokens, overdrawn>>
uringVars == <<sq, inflight, cq, settled, errors>>
vars == <<monitorVars, ringVars, running, dpc, held, bucketVars, uringVars, leaked, epc>>

\* tempo_create_engine() returned a handle: the callbacks are installed and
\* the daemon thread has started.
Init ==
    /\ MonitorInit
    /\ queue = <<>> /\ accepted = {}
    /\ running = TRUE /\ dpc = "open" /\ held = NoBlock
    /\ tokens = Burst /\ overdrawn = FALSE
    /\ sq = {} /\ inflight = {} /\ cq = {} /\ settled = {} /\ errors = 0
    /\ leaked = 0
    /\ epc = "live"

-------------------------------------------------------------------------------
(* The kernel launches and the producers.                                  *)

\* cupti_callback(); a new attention window starts counting afresh.
Launch(l, p) ==
    /\ epc # "destroyed"
    /\ SetPhase(l, p)
    /\ leaked' = IF p = "ATTENTION" /\ ~is_attention THEN 0 ELSE leaked
    /\ UNCHANGED <<ringVars, running, dpc, held, bucketVars, uringVars, epc>>

LaunchNotify(l) ==
    /\ Notify(l)
    /\ UNCHANGED <<ringVars, running, dpc, held, bucketVars, uringVars, leaked, epc>>

\* tempo_absorb() returning 1; a caller told 0 keeps its block.  No caller
\* uses the handle once it has asked for its destruction.
Absorb(b) ==
    /\ epc = "live" /\ b \notin accepted
    /\ Len(queue) < Capacity
    /\ queue' = Append(queue, b)
    /\ accepted' = accepted \cup {b}
    /\ UNCHANGED <<monitorVars, running, dpc, held, bucketVars, uringVars, leaked, epc>>

\* Time passes: refill() adds what the elapsed time is worth, up to burst_.
Refill ==
    /\ tokens < Burst
    /\ tokens' = tokens + 1
    /\ UNCHANGED <<monitorVars, ringVars, running, dpc, held, overdrawn, uringVars,
                   leaked, epc>>

-------------------------------------------------------------------------------
(* run_loop(): the daemon thread.                                          *)

Goto(there) == dpc' = there

OpenLustre ==
    /\ dpc = "open"
    /\ Goto("loop")
    /\ UNCHANGED <<monitorVars, ringVars, running, held, bucketVars, uringVars, leaked, epc>>

\* open_lustre() throws: the thread clears running_ itself and ends.
OpenFails ==
    /\ dpc = "open"
    /\ running' = FALSE
    /\ Goto("failed")
    /\ UNCHANGED <<monitorVars, ringVars, held, bucketVars, uringVars, leaked, epc>>

\* Seeded fault: a loop that never looks at running_.
KeepsRunning_Always == TRUE
KeepsRunning == running

LoopTest ==
    /\ dpc = "loop"
    /\ Goto(IF KeepsRunning THEN "gate" ELSE "reap")
    /\ UNCHANGED <<monitorVars, ringVars, running, held, bucketVars, uringVars, leaked, epc>>

\* Seeded fault: only an FFN phase opens the gate.
GateClosed_UnlessFfn == StrictGate /\ ~is_ffn
GateClosed == StrictGate /\ is_attention

\* The phase gate: in an attention phase the thread calls wait_for_ffn() ...
Gate ==
    /\ dpc = "gate"
    /\ IF GateClosed
       THEN Goto("ffn") /\ wpc' = "call"
       ELSE Goto("drain") /\ UNCHANGED wpc
    /\ UNCHANGED <<phase, lpc, ringVars, running, held, bucketVars, uringVars, leaked, epc>>

GateWait ==
    /\ dpc = "ffn"
    /\ WaitForFfn
    /\ UNCHANGED <<ringVars, running, dpc, held, bucketVars, uringVars, leaked, epc>>

\* ... and goes round the loop again when no window came.
\* Seeded fault: the result of wait_for_ffn() is ignored.
AfterWait_Ignored == "drain"
AfterWait == IF wpc = "true" THEN "drain" ELSE "loop"

GateReturn ==
    /\ dpc = "ffn" /\ wpc \in {"true", "false"}
    /\ wpc' = "out"
    /\ Goto(AfterWait)
    /\ UNCHANGED <<phase, lpc, ringVars, running, held, bucketVars, uringVars, leaked, epc>>

DrainBlock ==
    /\ dpc = "drain" /\ queue # <<>>
    /\ held' = Head(queue)
    /\ queue' = Tail(queue)
    /\ Goto("bucket")
    /\ UNCHANGED <<monitorVars, accepted, running, bucketVars, uringVars, leaked, epc>>

DrainNothing ==
    /\ dpc = "drain"
    /\ Goto("pause")
    /\ UNCHANGED <<monitorVars, ringVars, running, held, bucketVars, uringVars, leaked, epc>>

\* try_consume(): a partial grant is a grant, and the block goes out whole.
Consume ==
    /\ dpc = "bucket" /\ tokens > 0
    /\ LET grant == IF BlockBytes <= tokens THEN BlockBytes ELSE tokens
       IN  /\ tokens' = tokens - grant
           /\ overdrawn' = (overdrawn \/ grant < BlockBytes)
    /\ Goto("flush")
    /\ UNCHANGED <<monitorVars, ringVars, running, held, uringVars, leaked, epc>>

\* absorb() of the held block, its result ignored.
Requeue == queue' = IF Len(queue) < Capacity THEN Append(queue, held) ELSE queue

\* Seeded fault: no "continue" after the block was put back.
PutBack_ThenFlush ==
    /\ dpc = "bucket" /\ tokens = 0
    /\ Requeue
    /\ Goto("flush")
    /\ UNCHANGED <<monitorVars, accepted, running, held, bucketVars, uringVars, leaked, epc>>

\* A zero grant: the block goes back to the tail of the ring.
PutBack ==
    /\ dpc = "bucket" /\ tokens = 0
    /\ Requeue
    /\ held' = NoBlock
    /\ Goto("pause")
    /\ UNCHANGED <<monitorVars, accepted, running, bucketVars, uringVars, leaked, epc>>

\* io_uring_wait_cqe_timeout(), after an empty ring or an empty bucket: it
\* takes one completion, if one is there before the time is up.
Pause ==
    /\ dpc = "pause"
    /\ IF cq = {} THEN UNCHANGED cq ELSE \E b \in cq : cq' = cq \ {b}
    /\ Goto("loop")
    /\ UNCHANGED <<monitorVars, ringVars, running, held, bucketVars, sq, inflight, settled,
                   errors, leaked, epc>>

-------------------------------------------------------------------------------
(* flush_block() and the completions.                                      *)

\* io_uring_submit() of the prepared entries.
Submit(prepared) ==
    \/ /\ inflight' = inflight \cup prepared
       /\ sq' = {}
       /\ UNCHANGED errors
    \/ /\ errors < MaxSubmitErrors
       /\ errors' = errors + 1
       /\ sq' = prepared
       /\ UNCHANGED inflight

\* Seeded fault: one entry more than the submission queue has.
HasSqe_OneMore == Cardinality(sq) <= UringDepth
HasSqe == Cardinality(sq) < UringDepth

\* An entry is free: prepare the write and submit it.
FlushBlock ==
    /\ dpc \in {"flush", "again"} /\ HasSqe
    /\ Submit(sq \cup {held})
    /\ held' = NoBlock
    /\ leaked' = leaked + (IF is_attention THEN 1 ELSE 0)
    /\ Goto("collect")
    /\ UNCHANGED <<monitorVars, ringVars, running, bucketVars, cq, settled, epc>>

\* No entry is free: submit, and wait for one completion without a timeout.
FlushFull ==
    /\ dpc = "flush" /\ ~HasSqe
    /\ Submit(sq)
    /\ Goto("waitcqe")
    /\ UNCHANGED <<monitorVars, ringVars, running, held, bucketVars, cq, settled, leaked, epc>>

FlushWaitCqe ==
    /\ dpc = "waitcqe"
    /\ \E b \in cq : cq' = cq \ {b}
    /\ Goto("again")
    /\ UNCHANGED <<monitorVars, ringVars, running, held, bucketVars, sq, inflight, settled,
                   errors, leaked, epc>>

\* Still no entry: the block is given up.
FlushGiveUp ==
    /\ dpc = "again" /\ ~HasSqe
    /\ held' = NoBlock
    /\ Goto("collect")
    /\ UNCHANGED <<monitorVars, ringVars, running, bucketVars, uringVars, leaked, epc>>

Collect ==
    /\ dpc = "collect"
    /\ cq' = {}
    /\ Goto("loop")
    /\ UNCHANGED <<monitorVars, ringVars, running, held, bucketVars, sq, inflight, settled,
                   errors, leaked, epc>>

\* The loop has ended: take the completions that are there and close the file.
Reap ==
    /\ dpc = "reap"
    /\ cq' = {}
    /\ Goto("done")
    /\ UNCHANGED <<monitorVars, ringVars, running, held, bucketVars, sq, inflight, settled,
                   errors, leaked, epc>>

Daemon ==
    \/ OpenLustre \/ OpenFails \/ LoopTest \/ Gate \/ GateWait \/ GateReturn
    \/ DrainBlock \/ DrainNothing \/ Consume \/ PutBack \/ Pause
    \/ FlushBlock \/ FlushFull \/ FlushWaitCqe \/ FlushGiveUp \/ Collect \/ Reap

\* The kernel: a write completes, well or with an error nobody looks at ...
Complete(b) ==
    /\ b \in inflight
    /\ inflight' = inflight \ {b}
    /\ settled' = settled \cup {b}
    /\ cq' = IF epc \in {"live", "stopping"} THEN cq \cup {b} ELSE cq
    /\ UNCHANGED <<monitorVars, ringVars, running, dpc, held, bucketVars, sq, errors,
                   leaked, epc>>

-------------------------------------------------------------------------------
(* tempo_destroy_engine(): ~TEMPOEngine and PacingDaemon::stop().          *)

WasRunning == running

\* running_.exchange(false).  When the thread cleared it before, stop()
\* returns without a join, and so does the one in ~PacingDaemon: destroying
\* the joinable std::thread then ends the process.
StopCall ==
    /\ epc = "live"
    /\ running' = FALSE
    /\ epc' = IF WasRunning THEN "stopping" ELSE "terminated"
    /\ UNCHANGED <<monitorVars, ringVars, dpc, held, bucketVars, uringVars, leaked>>

ThreadEnded == dpc \in {"done", "failed"}

\* Seeded fault: the ring is closed without joining the thread.
CanClose_NoJoin == TRUE
CanClose == ThreadEnded

\* join() returns; io_uring_queue_exit() and the unsubscription follow.
\* Nothing waits for the writes in flight.
StopJoined ==
    /\ epc = "stopping" /\ CanClose
    /\ epc' = "destroyed"
    /\ cq' = {}
    /\ UNCHANGED <<monitorVars, ringVars, running, dpc, held, bucketVars, sq, inflight,
                   settled, errors, leaked>>

-------------------------------------------------------------------------------
Next ==
    \/ \E l \in Launchers : (\E p \in {"ATTENTION", "FFN"} : Launch(l, p)) \/ LaunchNotify(l)
    \/ \E b \in Blocks : Absorb(b) \/ Complete(b)
    \/ Refill
    \/ Daemon
    \/ StopCall \/ StopJoined

Spec == Init /\ [][Next]_vars

\* The daemon and destroying threads run, time passes (the deadline of
\* wait_for_ffn() is absolute, so no number of wake-ups puts it off), the
\* kernel finishes its writes, and drain() does not find the head unpublished
\* for ever (ClaimedIsDrained of SpikeAbsorber).
Fairness ==
    /\ WF_vars(Daemon) /\ SF_vars(DrainBlock)
    /\ SF_vars(GateWait /\ wpc' = "late")
    /\ WF_vars(Refill)
    /\ \A b \in Blocks : WF_vars(Complete(b))
    /\ WF_vars(StopJoined)

FairSpec == Spec /\ Fairness

-------------------------------------------------------------------------------
(* Properties.                                                             *)

DState == {"open", "failed", "loop", "gate", "ffn", "drain", "bucket", "pause", "flush",
           "waitcqe", "again", "collect", "reap", "done"}

TypeOK ==
    /\ MonitorTypeOK
    /\ queue \in Seq(Blocks) /\ Len(queue) <= Capacity
    /\ accepted \subseteq Blocks
    /\ running \in BOOLEAN /\ dpc \in DState
    /\ held \in Blocks \cup {NoBlock}
    /\ tokens \in 0 .. Burst /\ overdrawn \in BOOLEAN
    /\ sq \subseteq Blocks /\ Cardinality(sq) <= UringDepth
    /\ inflight \subseteq Blocks /\ cq \subseteq Blocks /\ settled \subseteq Blocks
    /\ errors \in 0 .. MaxSubmitErrors
    /\ leaked \in Nat
    /\ epc \in {"live", "stopping", "destroyed", "terminated"}

\* The gate is tested before a block is drained, so a phase that turns to
\* attention behind its back lets one block through, and no more than one in
\* any attention window, whatever the time-outs and wake-ups of the wait.
AtMostOnePerWindow == StrictGate => leaked <= 1

Queued(b) == \E i \in DOMAIN queue : queue[i] = b
Holding(b) == held = b
Flushed(b) == b \in sq \cup inflight \cup settled

\* A block is in one place: put back after an empty bucket it is not also
\* flushed, and a block flushed is not queued again.
OnePlace ==
    /\ \A i, j \in DOMAIN queue : i # j => queue[i] # queue[j]
    /\ \A b \in Blocks :
          /\ ~(Queued(b) /\ Holding(b))
          /\ ~(Flushed(b) /\ (Queued(b) \/ Holding(b)))
          /\ ~(b \in sq /\ b \in inflight \cup settled)

\* The thread does not touch the ring, the file or the monitor after the
\* engine that owns them is gone, and destroying the engine ends the process
\* only when the target file could not be opened.
TeardownAfterThread ==
    /\ epc = "destroyed" => ThreadEnded
    /\ epc = "terminated" => dpc = "failed"

\* The wait in flush_block() that nothing will end: no entry could be
\* submitted and no write is left to complete.
Hung == dpc = "waitcqe" /\ inflight = {} /\ cq = {}

\* stop() returns, unless the daemon thread hangs in that wait.
StopReturns == epc = "stopping" ~> (epc = "destroyed" \/ Hung)

\* If the attention phases cease, every block the ring accepted reaches
\* io_uring, unless it is dropped on the way: put back into a full ring or
\* given up for want of an entry.  An empty bucket only delays it.
Gone(b) == b \in accepted /\ ~Queued(b) /\ ~Holding(b)
BlocksAreFlushed ==
    <>[](phase # "ATTENTION") =>
        \A b \in Blocks : b \in accepted ~> (Gone(b) \/ ~running \/ Hung)

\* (Violated.)  Every byte handed to io_uring was granted by the bucket, so
\* that no more than burst_bytes and the refill of the elapsed time go out.
RateCeiling == ~overdrawn

\* (Violated.)  When the engine is destroyed no write is in flight.
DestroyWaitsForIo == epc = "destroyed" => inflight = {}
===============================================================================
