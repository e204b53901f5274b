# TLA+ verification of TEMPO

TEMPO paces background I/O (KV-cache blocks, checkpoints) around the phases of
GPU work that need the PCIe bus and the network.  The repository holds a C++
engine (`src/src`, loaded by the Python side through a C API) and Python
schedulers (`src/tempo`).  This directory models the parts whose correctness
depends on interleavings, failures and order, checks them with TLC, and proves
the central invariants with TLAPS.

## 1. Inventory

Paths are relative to `src/`.  "Hard" names what a test hardly reaches.

| Component | State | Operations | Interacts with | Hard |
|---|---|---|---|---|
| **SpikeAbsorber** `src/spike_absorber` | ring of 2^14 slots with sequence numbers, two positions, counters | `absorb` (any thread), `drain` (one thread), `size_approx` | called by the C API and PacingDaemon | lock-free claims, late publication, laps, stale loads |
| **AttentionPhaseMonitor** `src/attention_monitor` | atomic phase, mutex, condition variable | kernel-launch callback, `wait_for_ffn`, `is_attention` | CUPTI threads write, PacingDaemon waits | phase stored outside the mutex, time-outs, spurious wake-ups |
| **TokenBucket** `src/pacing_daemon/token_bucket.hpp` | tokens, last refill | `try_consume`, `refill`, `reset` (no caller) | PacingDaemon | partial grants, truncation |
| **PacingDaemon** `src/pacing_daemon` | `running_`, io_uring, thread | `start`, `run_loop`, `flush_block`, `stop` | all of the above | gate sampled early, full submission queue, failing open, teardown |
| **C API** `src/c_api/tempo_c_api.cpp` | the engine object | create, absorb, destroy, statistics | owns the four above | order of destruction |
| **Cassini counters** `src/c_api/cassini_counters.c` | global table of descriptors | open, read, close | NetworkMonitor's counter thread | shared file offset, close against read |
| **PhaseMonitor** `tempo/phase_monitor.py` | phase, Event, duration estimates | `set_phase`, context managers, comm hooks, `wait_for_io_allowed`, `get_dynamic_flush_rate` | training thread, collective callbacks, flush thread | overlapping collectives, Event without lock and phase with lock |
| **CheckpointManager** `tempo/checkpoint_manager.py` | files, queue, pending bytes, stop flag | `save_async`, flush thread, `wait_for_all_flushes`, `shutdown` | PhaseMonitor | node dies mid-flush, failing writes, stop while blocked |
| **TEMPOScheduler V1** `tempo/scheduler.py` | owns the two above | `compute_phase`, `nccl_phase`, `checkpoint`, `wait_for_flushes`, `shutdown` | training loop | order of phases and saves |
| **TEMPOScheduler V2-V6** `tempo/scheduler.py` | adds the components below | overridden `checkpoint`, callbacks | everything | defer/skip decisions, tokens of saves that never happened |
| **NetworkMonitor** `tempo/network_monitor.py` | congestion state, Event, poll thread | `start`, `stop`, `wait_for_bw_headroom` | counters, V2+ | stop against a poll under way |
| **InterleavingEngine** `tempo/interleaving_engine.py` | I/O window, deadline timer | `on_compute_start/end`, `wait_for_io_window` | PhaseMonitor's Event | stale timers |
| **ServiceGainScheduler, PCIePressurePredictor** `tempo/service_gain.py` | job heap, last checkpointed step, token bucket | `submit_job`, `route_decision` | V2+ | state advanced before it is used |
| **NexusCoordinator** `tempo/nexus_coordinator.py` | windows per rank, layer gates | `compute_window`, `wait_layer_gate` | V5+ | ranks that disagree, time-outs |
| **P2PCacheStore** `tempo/p2p_cache.py` | hash ring, DRAM and NVMe tiers | `put`, `get`, eviction | V4+ | byte accounting, stale copies |
| **LMCache connector, vLLM hook** | pending writes, background writer | `put`, `get`, `remove`, `close` | C engine | late writes against reads and deletes |
| **GpuDrivenEndpoint/Pool** `tempo/gpu_driven.py` | registered buffers, triggers, completions | `trigger`, `wait_completion` | libfabric | completions taken by another waiter |
| **NanoOverlapController** `tempo/nano_overlap.py` | buffer pool, CPU I/O queue | `begin_step`, `on_layer_compute_end`, `end_step` | V4+ | drain that returns early |
| **Routing and QoS** `nvlink_router`, `libfabric_qos`, `qos_mapper`, `topology_router` | NIC loads, traffic classes, peer groups | choices of path and class | V3+ | boundaries of the decision tables |
| **SparseTransferFilter** `tempo/sparse_transfer.py` | statistics | selection of hot tokens | V4+ | caps and minima that conflict |
| **TraceLoader**, `eval/`, `scripts/`, `tests/` | - | trace parsing, training drivers, plots | use the above | none of its own |

What makes each of the modelled parts correct:

- the ring delivers every accepted block once and in order; at most one block leaks
  into an attention window; `stop` and `destroy` end and leave nothing running;
- a Lustre file under its final name is whole, and a saved checkpoint is always whole
  somewhere; the gate is neither stuck closed nor leaks more than one chunk; joins
  mean what they say;
- no path opens an I/O window inside an NCCL phase, no timer thread is leaked, and
  every window is closed;
- a checkpoint is given up for recomputation only when its own step began in
  congestion, and one whose save raised is tried again;
- what the KV connector accepts reaches the store; the cache answers the newer of two
  copies and keeps its budgets; chunks are called back in order and with their own data;
- ranks that agree write in windows that do not overlap; a layer gate that lets a
  flush through means that the layer's gradients are reduced;
- a transfer reported done was sent; a flush leaves through a NIC of its class; every
  hardware event is counted once.

`PROJECT.json` lists every hazard at its line with the properties that cover it.

## 2. Modules

| Module | Models | Notes |
|---|---|---|
| `BoundedFifo` | what the ring promises | abstract: a queue of at most `Capacity` blocks, refusals only when full |
| `SpikeAbsorber` | `absorber.cpp`, one action per access to shared memory | refines `BoundedFifo` (`ImplementsFifo`) |
| `SpikeAbsorberProofs` | | TLAPS |
| `AttentionMonitor` | `monitor.cu`: phase, mutex, condition variable, one waiter | used by `PacingDaemon` |
| `PacingDaemon` | the engine: producers, gate, bucket, `flush_block`, io_uring, `stop` | the ring is `BoundedFifo`'s queue, as `SpikeAbsorber` implements it |
| `PacingDaemonProofs` | | TLAPS |
| `PhaseMonitor` | `phase_monitor.py`: `set_phase` in two steps, hooks, Event | |
| `CheckpointStore` | what V1 promises for the checkpoints it is given | abstract: kept locally, queued, durable from one instant on, released only after that |
| `CheckpointManager` | `checkpoint_manager.py`: `save_async` step by step, the flush thread | extends `PhaseMonitor` |
| `TEMPOScheduler` | V1: the training thread and the whole system's `Next` | extends `CheckpointManager`, refines `CheckpointStore` (`ImplementsStore`) |
| `TEMPOSchedulerProofs` | | TLAPS |
| `InterleavingEngine` | `interleaving_engine.py` as V2 hooks it into the Event: windows and deadline timers | extends `PhaseMonitor` |
| `NetworkMonitor` | the polling thread of `network_monitor.py`, its gate, `stop()` and the simulation mode | |
| `CheckpointDecision` | the chain of `checkpoint()` overrides of V4, V3, V2, V1, with `service_gain.py` and the placement of `topology_router.py` | extends `NetworkMonitor` |
| `CongestionProofs` | | TLAPS, about `InterleavingEngine` and `CheckpointDecision` |
| `LMCacheConnector` | `lmcache_connector.py` behind `vllm_hook.py`: queue, flush thread, C path, delete, close | |
| `P2PCacheStore` | `p2p_cache.py` on one rank: hash ring, DRAM and NVMe tiers, spill, promotion, failing files | |
| `NanoOverlap` | `nano_overlap.py` as V4 wires it: CPU worker, and CUDA stream with pinned buffers and callback threads | |
| `NanoOverlapProofs` | | TLAPS |
| `NexusCoordinator` | gossip and windows of `nexus_coordinator.py`, with an all-reduce that fails on some ranks | |
| `LayerMicroGate` | its per-layer gates, without CUDA streams | |
| `GpuDriven` | `gpu_driven.py`: registration, triggers, completion queue, close; libfabric external | |
| `EgressRouting` | V6's path: `libfabric_qos.py`, `nvlink_router.py` with its polling thread, `qos_mapper.py` | |
| `NetworkProofs` | | TLAPS, about the four above |
| `CassiniCounters` | `CassiniHWCounters`, the thread that polls the NIC counters | |
| `ServiceProofs` | | TLAPS, about `LMCacheConnector`, `P2PCacheStore` and `CassiniCounters` |
| `SparseTransfer` | `sparse_transfer.py`: selection, filter and reconstruction as operators | |
| `TraceLoader` | `trace_loader.py`: loading, drawn traces, statistics and `write_csv` as operators | |
| `DataProofs` | | TLAPS, about `SparseTransfer` and `TraceLoader`; induction, sums and sorting, which `ServiceProofs` uses too |
| `MC*` | the instances TLC checks | `MCServices` runs eight modules |

### From the code to the models

*SpikeAbsorber.*  `ppc[p]` is a producer's place in `absorb()`: `LoadEnqueuePos`,
`PeekFree`/`PeekFull`/`PeekStale` (the comparison of `slot.seq` with the
position), `ClaimWon`/`ClaimLost` (the CAS), `Write`, `Publish`, `AbsorbReturn`.
A relaxed load of `enqueue_pos_` returns any value not older than the last one
its thread saw.  `cpc` is the consumer's place in `drain()`.  `claimed` is a
history variable: the block of each claimed position.

*PacingDaemon.*  `dpc` is the daemon's place in `run_loop()` and `flush_block()`,
one action per branch; `epc` the caller's in `tempo_destroy_engine()`.  `tokens`
is the bucket in units of a fraction of a block, `Refill` the passing of time.
io_uring is external: `sq` prepared, `inflight` and `cq` completed entries.
Counters, statistics, the eventfd and file offsets are left out.

*Checkpoints.*  A file is the number of chunks written to it.  `set_phase()` is
`BeginSetPhase` (lock taken, Event changed) and `EndSetPhase` (phase assigned,
lock released), because `wait_for_io_allowed()` reads the Event without the lock.
`no_budget` stands for the smoothed NCCL duration being so short that
`get_dynamic_flush_rate()` is zero outside NCCL phases.  `wpc` is the flush
thread's place, from the loop test through gate, chunk, `rename`, statistics and
`unlink` to `task_done`; `tpc` is the training thread's.  Comm hooks are run from
backward passes with (`EnterCompute`) or without (`EnterBackward`) a
`compute_phase()`; a backward pass returns when its buckets are done, or raises
when a launch failed.

*I/O windows (V2).*  V2 replaces `set()` and `clear()` of the Event by functions
that first call `on_compute_start()` and `on_compute_end()`; `HookedSetPhase` does
both.  `timer[w]` is the `threading.Timer` of window `w`: `armed`, then `firing` once
its delay is over (`cancel()` comes too late), then `fired` when it gets the engine's
lock.  `long` says that the predicted window is long enough to be opened.

*Decisions (V2 to V4).*  `tpc` is the place in the chain of `checkpoint()` overrides:
the P2P cache (`AskCache`), placement (`Place`), PCIe route (`Route`), gain (`Gain`),
save (`Save`, `SaveRaises`), token (`Register`).  Polls of the network monitor fall
between any two.  Milliseconds and percentages are kept as the comparisons the code
makes: `RecomputeFallback` and `RouteDecision` are computed with scaled thresholds.
Averages of NIC load are the side of the threshold they are on.

*KV connector.*  A tensor is the number of its `put()`.  `worker` is the flush thread's
place: it takes a tensor, waits in the token bucket, writes; a write may raise, and the
thread then ends.  With `using_c`, blocks go to the C++ engine.

*P2P cache.*  The lock makes each operation one step, so `Put` and `GetPromotes` carry
the whole cascade: eviction of the least recently used, spill to NVMe if the budget allows
and the file can be written, promotion back; a file may fail to open or be torn.  The loops
are functions of the number of turns.  `SpilledByPut` and `SpilledByGet` are the keys whose
failing write makes a difference to the operation.  Byte counts are kept as the code keeps
them, which is not always what is there.  With `Simulation` one process stands for every
owner, so a value is inserted once for each.

*Sparse transfer and traces* have no state of their own to check: `SelectHot` is the set of
selections that the unspecified order of `argpartition()` allows, and sorted order is given
by rank, the number of elements that come before.  A slice `[-0:]` is everything, so a
filter with `min_tokens = 0` sends every token (`Recent`).

*Nano-overlap.*  A chunk is its number, and the content of a tensor or of a pinned
buffer is the number of the chunk last written there.  `io_stream` is the CUDA stream,
`callbacks` the threads that wait for an event of it.

*Nexus.*  A rank enters the all-reduce with a load (`EnterGossip`), leaves it with all
loads (`Gossip`) or alone (`GossipFails`), flushes and updates its moving average.

*GPU transfers and egress.*  `posted` is what the NIC owes, `cq` its completion queue,
`overlapped` the history that two transfers were out at once.  In `EgressRouting`,
`vpc` is V6's place; the router's thread changes one load at a time between the reads
of `select_egress_gpu()`.

## 3. Runs

| Run | Expect | Shows |
|---|---|---|
| `absorber` | pass | 3 producers with 2 calls each on a ring of 2 slots: the inductive ring invariant, order, no payload race, occupancy, refinement of `BoundedFifo`, and that every claim is drained |
| `pacing` | pass | the engine with 3 blocks, ring of 2, a bucket of 1 block, 1 submission entry, 2 failing submissions: at most one block per attention window, no lost wake-up, a block in one place, teardown after the thread, `stop` returns, blocks are flushed |
| `pacing_rate` | violation | a partial grant flushes the whole block |
| `pacing_destroy` | violation | the engine is destroyed with a write in flight |
| `checkpoint` | pass | V1 with 2 checkpoints of 2 chunks, a queue of 1, 2 collectives, 1 failing operation: refinement of `CheckpointStore`, files, bookkeeping, gate, joins, stop |
| `checkpoint_gate` | violation | a chunk is granted in a CHECKPOINT phase |
| `checkpoint_hooks` | violation | the first callback of two overlapping collectives reopens the gate |
| `windows` | pass | 2 overlapping collectives, 3 I/O windows: none is open in an NCCL phase, at most one timer is armed, every window closes |
| `decision` | pass | 2 rails, 2 steps with 2 attempts each, polls at every point: recomputation is justified, a save that raised is retried |
| `decision_hit` | violation | a skipped checkpoint is found in the cache at the next attempt and never saved |
| `services` | pass | eight independent services, one in each behaviour: connector, P2P cache, nano-overlap, window rounds, layer gates, GPU transfers, egress, NIC counters; the pure operators of the modules as ASSUMEs |
| `gpu_done` | violation | a wait takes the completion of another transfer for its own |

**Bounds.**  `absorber`: producers outnumber slots and six blocks go through two
slots, so that refusals, lost CASes, stale positions and second laps all happen;
one slot is excluded by the code's own scheme (`CapacityAssumption`).  `pacing`:
three blocks overfill the ring of two, so that a block that is put back can be
refused; the bucket grants 2, 1 or 0 of a block's 2 tokens; one submission entry
and two failing submissions reach the wait for a completion that never comes.
`checkpoint`: two checkpoints and a queue of one reach "one being flushed, one
queued" and the dropped job; two chunks distinguish partial from whole files;
two collectives overlap in every order and are reused in later backward passes;
one failure may be a local write, a flush at any point, or a launch.
`windows` (some 58,000 states): three windows are the current one, one whose timer has
fired and one whose timer is firing late; more windows only repeat these.
`decision` (some 5 million states): two rails may disagree and be sampled in different
polls; two steps, of which one is a milestone and only one is owned by this rank; two
attempts are what a hit takes.  The code's thresholds are scaled so that both sides of
each comparison occur: 3 for 47 steps of low progress, 4 and 2 for the SLO and the
milestone.
`services`: `part` names the service that a behaviour is about, and the others keep one
initial state, because nothing connects them that their properties depend on.  Sizes are
chosen so that the interesting case occurs: three keys of which one fills the DRAM tier,
a key placed on the ring past its end, three chunks over two layers (a layer is written
twice), two ranks and two rounds with equal and different loads, three gate steps (a
flush is two behind), three transfers of which one is injected, four checkpoint steps on
the sides of V6's gain thresholds.
ASSUMEs of `MCServices` check the pure operators over bounded inputs: hot-token selection
over all 3^5 score vectors against what may be left out, and the rows that the receiver
reconstructs (`SparseCheck`); the fabric and the socket class of a transfer
against each other on 101 x 101 scores (`MarksCheck`); every trace file of three rows
(`LoadCheck`); peak rate against the best second for all gaps of five requests
(`PeakCheck`).
`CHECK_DEADLOCK FALSE` is set where the system stops for good: after destruction,
shutdown, or the last step that a bound allows.

**Fairness.**  Threads that can run do run (weak fairness of the daemon, of the
flush thread, of a producer inside `absorb()` and of the body of a call).  The
kernel finishes writes; the absolute deadline of `wait_for_ffn()` passes (strong
fairness of the late wake-up); the bucket refills; a lock that is free again and
again is taken (strong fairness of the flush thread's two uses of the PhaseMonitor
lock, which is held for microseconds a few times in a training step).  Nothing is
assumed of collectives, of the program's wish to train, save, launch or shut down:
a collective may hang, and `StopEnds` holds then too.

In `windows` timers expire and their threads get the engine's lock, which is held for
microseconds, and who is in `set_phase()` leaves it.  In `services` only the connector's
flush thread is assumed to run.  `decision` states safety only.

**Liveness with conditions.**  `StopReturns` excepts the state `Hung`, in which
`flush_block()` waits without a timeout for a completion while nothing is in
flight (`pacing_daemon.cpp:156`); TLC reaches it.  `FlushesEnd` and `JoinReturns`
assume that NCCL phases cease.  `BlocksAreFlushed` excepts blocks dropped on the
two paths the code has for that (`:159`, `:234`).  `PutsLand` excepts what is queued
when the connector is closed or after its thread has ended by a failing write: the code
loses both.

## 4. Findings

1. `pacing_rate`: `run_loop()` treats any nonzero grant as a grant of the block.
2. `pacing_destroy`: `stop()` reaps what is ready and closes the ring; the docs
   promise to wait for in-flight I/O.
3. `checkpoint_gate`: the docs pause the flush in CHECKPOINT phases; neither the
   Event nor the rate does.
4. `checkpoint_hooks`: `mark_done` sets COMPUTE while other collectives are in
   flight.
5. `decision_hit`: V4 registers a checkpoint in the P2P cache also when V3 or V2 did not
   save it, and takes the token for a saved checkpoint at the next attempt.
6. `gpu_done`: `wait_completion()` takes any completion entry for its own.  `services`
   shows the other side: with one transfer at a time, as the usage example has it, what
   is done was sent (`OneAtATimeIsSafe`).

## 5. Proofs

Each theorem follows one argument: an inductive invariant, the initial states, one
step per action, and a last temporal step.

**`SpikeAbsorberProofs`** (any number of producers, any `Capacity >= 2`).
`RingCorrect` proves `RingInv`: live positions lie in a window of one lap; the slot
of each is free, claimed by exactly one producer, or published with the block that
claimed it; a producer whose CAS can still succeed looks at a free slot.  The last
part is what makes it inductive: the CAS compares the position only, and it is the
monotone position that keeps the earlier look at `slot.seq` valid.  From `RingInv`
and `TypeCorrect` follow `DrainsInClaimOrder`, `NoPayloadRace` and
`OccupancyBound`.  `RingIsFifo` proves the refinement of `BoundedFifo`: a won CAS maps to
`Accept`, freeing a slot to `Deliver`, a refusal to `Refuse`, all else to stuttering.  The
hard step is the refusal (`RefusedWhenFull`): every slot is that of one position of the
window (`SlotOfEach`), so a slot that is behind the position asked for puts that position
a whole lap beyond the oldest block held.  Assumed: `CapacityAssumption`,
`MaxCallsAssumption`.

**`PacingDaemonProofs`** (any launchers, blocks, ring, bucket, submission queue).
`WakeupsArrive`: `NoLostWakeup` is not inductive, as the daemon may be between the
predicate and the sleep; `WakeInv` covers that place too, and the mutex keeps
`notify_all()` out of it.  `OneBlockPerWindow`: `GateInv` adds that a daemon past
the gate in an attention phase passed it before the phase began, so it has flushed
nothing in this window.  `DestroyedAfterThread`: `TeardownInv` says that who clears
`running_` other than `stop()` is a thread that has ended.  `BlockInOnePlace`:
`PlaceInv` says where each place of the daemon may have a block at hand, and that no
block is twice in the ring.  `EngineTypes` needs `SqInv`, that the submission queue is
finite and within its depth.  Assumed: `PacingAssumption`.

**`TEMPOSchedulerProofs`** (any checkpoints, chunks, collectives, queue bound and
failures).  `EventIsRight`: the Event is changed before the phase, so inside
`set_phase()` it belongs to the phase that is coming (`EventInv`).
`OneChunkPerPhase`: `GateInv` says a flush thread that may write in an NCCL phase
got the permission before it began; it rests on `EventInv`.  `LustreFilesAreWhole`
and `CheckpointsAreKept` share `FileInv` (rename after the last chunk, unlink after
rename, a step being created is not saved yet).  `CheckpointsAreStored` proves the
refinement of `CheckpointStore`: the last local chunk of a save maps to `Save`, `put()` to
`Accept`, taking a job to `Begin`, the rename to `Publish`, the unlink to `Release`, the end
of a flush to `End`, and phases, gates and chunks to stuttering.  Its `StoreInv` says that a
step at hand between rename and `task_done` is still kept, or gone from local storage only
because it is durable; that a checkpoint is never lost follows from it.  `JoinIsRight`: `JoinInv` counts
the unfinished tasks and places every queued checkpoint.  Assumed:
`CollectivesAssumption`, `CheckpointAssumption`.  `NcclPhaseIsCaused` needs `CauseInv`,
which counts a training thread inside `set_phase(NCCL_COMM)` as a cause.
`PendingIsRight`: `QueueInv` says that a step is queued once and flushed only from the
hands of the flush thread, so the two threads' updates of the pending count are each
owed to one event.  `TypesAreKept` proves the full `TypeOK` of V1; it is not repeated in
the run.

**`CongestionProofs`**, windows (any collectives, any number of windows).
`WindowInv` joins both properties with the fact that the Event follows the phase: only
leaving an NCCL phase opens a window, and in one the deadline stands and no timer is
armed, so a new window never finds an old timer.

Decisions (any rails, steps and attempts): `CallInv`: a call works
on the current step; `TokenInv`: a token is registered after the outcome of the same
call, which began without one; `FlagInv`: the congestion flag is what was seen as the
step began.  Assumed: `DecisionAssumption`.

**`NetworkProofs`**, Nexus (any number of ranks, loads, rounds).  `WindowsAreStaggered`: positions
in the order of loads are distinct, as ties are broken by rank, and the loads of a round
that is complete never change (`SlotInv`, `RoundInv`), so ranks that compute their windows
at different times agree.  `GatesPassInTime`: `OpenInv` says that an open gate was opened in
the step being trained, and shards are not of a later one.  Assumed: `NexusAssumption`.

Transfers and egress: `SerialTransfersAreSafe` (any transfers): while no two transfers were
out at once, a completion on the queue is that of the only transfer triggered.
`EgressIsMarked` (any GPUs, loads and steps): `ClassInv` follows the class from the home
NIC to the chosen one.  Assumed: `GpuAssumption`, `EgressAssumption`.

**`NanoOverlapProofs`** (any layers, chunks, steps).  `ChunksGoInOrder`: called back, at
hand and queued chunks follow each other (`OrderInv`).  `CallbacksReadNothingOlder`:
`CopyInv` says that once a chunk's copy is done, its buffer holds that chunk or a later one
of the layer while the callback is due.  Assumed: `NanoAssumption`.

**`ServiceProofs`**, connector (any keys, tensors and failures).  `AbsorberKeepsAll`: by
`ConnectorInv`, what is pending of a key is exactly the tensors after the newest one in the
store, each once and in the order of their `put()` (`InOrder`).  That is stronger than
`PendingIsTheRest`, which only counts what is missing; appending and taking from the front
keep it (`AppendInOrder`, `TailInOrder`).

P2P cache (any keys, sizes, budgets, ring, replicas, failures, with or without
`Simulation`): `P2PInv` joins both properties, as neither is inductive alone.  `Good` says
that the recency list has each resident key once (`Lists`), that the counts are no less than
what is there, that nothing is newer than the last `put()`, and that a DRAM copy is newer
than its file (`Newer`; equal to it only in a simulation, where a second owner inserts the
value that the first has spilled).  `Roomy` says that DRAM is within its budget or holds one
entry; it is broken inside an operation and restored by its eviction loop, whose turns each
shorten the list (`EvictLoop`).  Replicas are a loop too (`PutOnOwnersKeeps`).  Assumed:
`StoreAssumption`.

Counters (any NICs): `CassiniInv` says that the sum counted is that of the last readings
less that of the first, of which one reading changes one summand (`TotalChanges`).
Assumed: `CassiniAssumption`.

**`DataProofs`** is about operators, for all arguments.  `SelectionIsSound` and
`HotRowsArrive` (any length, threshold, cap, scores, K and V): what `SparseCheck` evaluates
on one cache.  `TracesLoadTheEarliest` (any rows, number and start): `LoadedIs` says that
`load()` sorts the first n good rows, which are in the file at the places that all the good
rows have (`FirstOnesTaken`), and sorting leaves a list in order as it is
(`SortedPermutes`).  `PeakIsHalfOfTheBest` (any requests in
order) and `LoadedPeakIsHalfRight` (those of any file): no window of a second has more
requests than the one that begins with its first request (`BestWindow`), and the best second
is covered by two of those that `statistics()` looks at.  Assumed: `SparseAssumption`,
`TraceAssumption`.

Induction is by the least counterexample: `LeastNat` follows from the well-foundedness of
the numbers, and from it what loops (`TurnsExist`, `EachTurn`), sums over finite sets
(`TotalIs`, from the definition of the library's fold) and ranks (`RanksAreTaken`) compute.
The provers know nothing of `SortSeq`, so sorted orders are stated by rank where they are
proved about.

**Model-checked only.**  Liveness is out of TLAPS's reach: `ClaimedIsDrained`,
`StopReturns`, `BlocksAreFlushed`, `StopEnds`, `FlushesEnd`, `JoinReturns`, `WindowCloses`,
`PutsLand`.  Every invariant and every action property of the passing runs is stated by a
theorem.  Of the ASSUMEs of `MCServices`, `MarksCheck` covers the whole domain of scores
and needs no proof; which ranks the hash ring names is left to TLC's instance, as no property
depends on it.

## 6. Not modelled

- *Statistics, logging, durations* of every component, and simulated network delays.
- *Checkpoints*: the baseline mode (`save_sync_lustre` writes straight to the final
  name), saving one step twice, and use after shutdown.  Nothing in the code reads
  checkpoints back, so a crash is covered by invariants that hold in every state.
- *What no code calls*: `mark_committed`, `on_nccl_end`, `io_deadline_reached`,
  `wait_for_io_window`, `wait_for_bw_headroom`, `predict_congestion_ms`,
  `record_flush_bytes`, the Python `TokenBucket`, `TokenBucket::reset()`, staging buffers
  of the GPU endpoint; the heap of jobs, which is filled and never read.
- *What cannot happen as the code is wired*: remote P2P transfers (no peer address is
  ever set), V3's `hw_congested` (its patch is never applied and the router never
  started), V4's sparse filter (never called), V5's loads (they are read from an attribute
  that does not exist, so all are zero), placement on local Lustre.  The
  V5 and V6 `checkpoint()` raise `TypeError` where they call V4's; the modules stop there
  (`FlushRaises`, `V6Ends`).
- *Two readers of one Cassini descriptor*: the code has one thread, though the C
  functions would race on the shared offset.
- *The kernel classification* of the attention monitor, rail selection for sockets,
  NVLink copies, socket options, and the distributions of synthetic traces: decision tables
  and I/O without state.
- *Moving averages of different ranks*: `SlotsDisjoint` is about ranks that expect
  equally long flushes.  The averages are local, so windows of unequal length may overlap.
- *Evaluation, figures, tests and environment checks*: drivers and plots.
