------------------------------ MODULE NanoOverlap ------------------------------
(***************************************************************************)
(* tempo/nano_overlap.py as TEMPOSchedulerV4 wires it: the end of a layer   *)
(* queues the layer's KV chunk, for a worker thread or, with CUDA, for the  *)
(* I/O stream; checkpoint() calls begin_step() and end_step() around the    *)
(* save, not around the layers.  A chunk is its number; the contents of a   *)
(* tensor or a buffer are the number of the chunk last written there, and   *)
(* those of a chunk of the CPU path are 0: on_layer_event() passes the      *)
(* bytes in the place of the tensor, and zeros are queued instead.          *)
(***************************************************************************)
EXTENDS Integers, Sequences, FiniteSets, SequencesExt

CONSTANTS Layers,       \* n_layers
          MaxChunks,    \* bound: layer ends
          MaxNanoSteps  \* bound: checkpoints

ASSUME NanoAssumption == MaxChunks \in Nat

VARIABLES
    use_cuda,     \* _use_cuda
    pinned,       \* _pinned_pool is not None
    nano_step,    \* _step, which names the chunks in the P2P cache
    begun,        \* _layer_timings has been filled
    timings,      \* the layers whose LayerTiming has a compute_end
    metrics,      \* n_layers of the last StepMetrics
    chunks,       \* history: the layer of each chunk queued
    cpu_queue,    \* _cpu_queue
    cpu_hand,     \* what the worker has taken: <<>> or <<chunk>>
    cpu_stop,     \* _cpu_stop
    cpu_worker,   \* "none", "test", "hold", "ended"
    trainer,      \* "loop", "save", "drain", "wait", "join", "down"
    tensor,       \* the KV tensor of each layer on the GPU
    buffer,       \* the host memory that the copies write
    io_stream,    \* copies queued on the I/O stream
    io_events,    \* _io_events: the layers whose event is kept
    callbacks,    \* chunks whose callback thread has not called back
    awaited,      \* the copy that the compute stream waits for, or 0
    delivered     \* history: what io_callback was given: [chunk, data, filed]

cpuVars == <<cpu_queue, cpu_hand, cpu_stop, cpu_worker>>
cudaVars == <<tensor, buffer, io_stream, io_events, callbacks, awaited>>
stepVars == <<use_cuda, pinned, nano_step, begun, timings, metrics>>
nanoVars == <<stepVars, chunks, cpuVars, trainer, cudaVars, delivered>>

\* PinnedBufferPool(): a buffer for each layer, or, when that cannot be had, none.
PinnedBufferPool(cuda) == IF cuda THEN BOOLEAN ELSE {FALSE}

\* PinnedBufferPool.get(); without a pool every copy has memory of its own.
PooledBuffers == {"pool"} \X Layers
OwnBuffers == {"own"} \X (1..MaxChunks)
BufferOf(l, n) == IF pinned THEN <<"pool", l>> ELSE <<"own", n>>

\* __init__(), with its callback.
NanoInit ==
    /\ use_cuda \in BOOLEAN /\ pinned \in PinnedBufferPool(use_cuda)
    /\ nano_step = -1 /\ begun = FALSE /\ timings = {} /\ metrics = 0 /\ chunks = <<>>
    /\ cpu_queue = <<>> /\ cpu_hand = <<>> /\ cpu_stop = FALSE
    /\ cpu_worker = IF use_cuda THEN "none" ELSE "test"
    /\ trainer = "loop"
    /\ tensor = [l \in Layers |-> 0] /\ buffer = [b \in PooledBuffers \cup OwnBuffers |-> 0]
    /\ io_stream = <<>> /\ io_events = {} /\ callbacks = {} /\ awaited = 0
    /\ delivered = <<>>

\* _nano_io_callback(): the key has the step at the time of the call.
IoCallback(chunk, data) ==
    delivered' = Append(delivered, [chunk |-> chunk, data |-> data, filed |-> nano_step])

-------------------------------------------------------------------------------
(* on_layer_event(): begun steps only, as _layer_timings[layer_id] raises   *)
(* an IndexError before the first begin_step().                            *)

\* _enqueue_cuda_io(): the copy waits for the kernel that wrote the tensor,
\* and the kernel for the copy that the compute stream was told to wait for.
EnqueueCudaIo(l, n) ==
    /\ awaited = 0
    /\ tensor' = [tensor EXCEPT ![l] = n]
    /\ io_stream' = Append(io_stream, n)
    /\ io_events' = io_events \cup {l}
    /\ callbacks' = callbacks \cup {n}
    /\ UNCHANGED <<buffer, awaited, cpu_queue>>

\* on_layer_compute_end(): without a tensor the chunk goes to the queue of the
\* worker, which there is none of with CUDA.
OnLayerComputeEnd(l) ==
    /\ chunks' = Append(chunks, l)
    /\ timings' = timings \cup {l}
    /\ LET n == Len(chunks) + 1
       IN  \/ use_cuda /\ EnqueueCudaIo(l, n)
           \/ cpu_queue' = Append(cpu_queue, n) /\ UNCHANGED cudaVars
    /\ UNCHANGED <<use_cuda, pinned, nano_step, begun, metrics, cpu_hand, cpu_stop, cpu_worker,
                   trainer, delivered>>

\* on_layer_event(), of the training loop; "start" only sets a clock.
OnLayerEvent(l) == trainer = "loop" /\ begun /\ Len(chunks) < MaxChunks /\ OnLayerComputeEnd(l)

-------------------------------------------------------------------------------
(* begin_step() and end_step(), called by checkpoint()                     *)

BeginStep ==
    /\ trainer = "loop" /\ nano_step < MaxNanoSteps - 1
    /\ nano_step' = nano_step + 1
    /\ begun' = TRUE /\ timings' = {} /\ io_events' = {}
    /\ trainer' = "save"
    /\ UNCHANGED <<use_cuda, pinned, metrics, chunks, cpuVars, tensor, buffer, io_stream, callbacks,
                   awaited, delivered>>

\* The copy of the highest layer whose event is kept: its last one.
LastCopy == tensor[CHOOSE l \in io_events : \A k \in io_events : k <= l]

\* _sync_cuda_io(): the compute stream waits for that copy.
SyncCudaIo ==
    awaited' = IF io_events # {} /\ LastCopy \in ToSet(io_stream) THEN LastCopy ELSE awaited

\* _compute_step_metrics(): of the layers that ended since begin_step(), or of no
\* layer by the name of all.
ComputeStepMetrics == metrics' = Cardinality(IF timings = {} THEN Layers ELSE timings)

EndStep ==
    /\ trainer = "save"
    /\ IF use_cuda
       THEN trainer' = "loop" /\ SyncCudaIo /\ ComputeStepMetrics
       ELSE trainer' = "drain" /\ UNCHANGED <<awaited, metrics>>
    /\ UNCHANGED <<use_cuda, pinned, nano_step, begun, timings, chunks, cpuVars, tensor, buffer,
                   io_stream, io_events, callbacks, delivered>>

\* _drain_cpu_queue(): the queue is empty, whatever the worker holds, or two
\* seconds are over.
Drained == cpu_queue = <<>>
DrainReturns ==
    /\ trainer = "drain" /\ (Drained \/ cpu_worker = "hold")
    /\ trainer' = "loop" /\ ComputeStepMetrics
    /\ UNCHANGED <<use_cuda, pinned, nano_step, begun, timings, chunks, cpuVars, cudaVars, delivered>>

-------------------------------------------------------------------------------
(* _cpu_io_worker()                                                        *)

CpuTest ==
    /\ cpu_worker = "test"
    /\ IF cpu_stop THEN cpu_worker' = "ended" /\ UNCHANGED <<cpu_queue, cpu_hand>>
       ELSE /\ cpu_queue # <<>>
            /\ cpu_hand' = <<Head(cpu_queue)>> /\ cpu_queue' = Tail(cpu_queue)
            /\ cpu_worker' = "hold"
    /\ UNCHANGED <<stepVars, chunks, cpu_stop, trainer, cudaVars,
                   delivered>>

\* Seeded fault: the item is put back when its callback raises, at the end.
CpuWrite_Requeues ==
    /\ cpu_worker = "hold"
    /\ IoCallback(cpu_hand[1], 0) \/ UNCHANGED delivered
    /\ cpu_queue' = IF delivered' = delivered THEN Append(cpu_queue, cpu_hand[1]) ELSE cpu_queue
    /\ cpu_hand' = <<>> /\ cpu_worker' = "test"
    /\ UNCHANGED <<stepVars, chunks, cpu_stop, trainer, cudaVars>>

CpuWrite ==
    /\ cpu_worker = "hold"
    /\ IoCallback(cpu_hand[1], 0)
    /\ cpu_hand' = <<>> /\ cpu_worker' = "test"
    /\ UNCHANGED <<stepVars, chunks, cpu_queue, cpu_stop, trainer,
                   cudaVars>>

-------------------------------------------------------------------------------
(* The I/O stream and the callback threads                                 *)

\* The copy at the head of the stream is done, and its event with it.
CopyDone ==
    /\ io_stream # <<>>
    /\ LET n == Head(io_stream)
           l == chunks[n]
       IN  /\ buffer' = [buffer EXCEPT ![BufferOf(l, n)] = tensor[l]]
           /\ awaited' = IF awaited = n THEN 0 ELSE awaited
    /\ io_stream' = Tail(io_stream)
    /\ UNCHANGED <<stepVars, chunks, cpuVars, trainer, tensor,
                   io_events, callbacks, delivered>>

\* Seeded fault: the callback does not wait for the event of the copy.
DeferredCb_NoWait(n) ==
    /\ n \in callbacks
    /\ callbacks' = callbacks \ {n}
    /\ IoCallback(n, buffer[BufferOf(chunks[n], n)])
    /\ UNCHANGED <<stepVars, chunks, cpuVars, trainer, tensor,
                   buffer, io_stream, io_events, awaited>>

\* _deferred_cb(): after io_done.synchronize() it reads the pinned buffer.
DeferredCb(n) ==
    /\ n \in callbacks /\ n \notin ToSet(io_stream)
    /\ callbacks' = callbacks \ {n}
    /\ IoCallback(n, buffer[BufferOf(chunks[n], n)])
    /\ UNCHANGED <<stepVars, chunks, cpuVars, trainer, tensor,
                   buffer, io_stream, io_events, awaited>>

-------------------------------------------------------------------------------
(* shutdown()                                                              *)

NanoShutdown ==
    /\ trainer = "loop" /\ io_stream = <<>>
    /\ cpu_stop' = TRUE
    /\ trainer' = "join"
    /\ UNCHANGED <<stepVars, chunks, cpu_queue, cpu_hand, cpu_worker,
                   cudaVars, delivered>>

\* The worker is joined, or held in a callback for three seconds.
NanoJoined ==
    /\ trainer = "join" /\ cpu_worker \in {"none", "ended", "hold"}
    /\ trainer' = "down"
    /\ UNCHANGED <<stepVars, chunks, cpuVars, cudaVars, delivered>>

NanoNext ==
    \/ \E l \in Layers : OnLayerEvent(l)
    \/ BeginStep \/ EndStep \/ DrainReturns
    \/ CpuTest \/ CpuWrite
    \/ CopyDone \/ (\E n \in callbacks : DeferredCb(n))
    \/ NanoShutdown \/ NanoJoined

NanoSpec == NanoInit /\ [][NanoNext]_nanoVars

-------------------------------------------------------------------------------
Chunk(d) == d.chunk

\* On the CPU path every chunk is called back once and in the order of the
\* layers, across steps, drains that time out and shutdown(): what is not
\* called back is in the worker's hand or in the queue.
ChunksInOrder ==
    ~use_cuda => [i \in DOMAIN delivered |-> Chunk(delivered[i])] \o cpu_hand \o cpu_queue
                    = [n \in DOMAIN chunks |-> n]

\* With CUDA a callback thread may be late and find its buffer or its tensor
\* written again, but it never reads what was there before its own chunk, nor
\* the chunk of another layer, with the pinned buffers and without.
NeverOlder ==
    use_cuda => \A i \in DOMAIN delivered :
        LET d == delivered[i]
        IN  d.data >= d.chunk /\ chunks[d.data] = chunks[d.chunk]
===============================================================================
