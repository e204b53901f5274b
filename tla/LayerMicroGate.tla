----------------------------- MODULE LayerMicroGate -----------------------------
(***************************************************************************)
(* The per-layer gates of tempo/nexus_coordinator.py, without CUDA streams: *)
(* the training thread resets them as a step begins and opens each when the *)
(* layer's AllReduce is done; a flush thread waits at them in turn before   *)
(* it writes the shards of a step.  With a CUDA stream wait() only enqueues *)
(* a wait for an event, which passes at once when nothing was recorded.     *)
(***************************************************************************)
EXTENDS Integers

CONSTANTS GateLayers,     \* n_layers
          MaxGateSteps    \* bound: training steps

VARIABLES
    cpu_gate,      \* the flag of each _cpu_gate
    reduced,       \* history: the last step in which the layer was reduced
    train_step,    \* the step that the training thread is in
    shard,         \* the step whose shards the flush thread writes
    waiting,       \* the layer it waits for, or 0 when it is idle
    passed         \* history: [layer, step] of the shards whose wait was not in vain

gateLayerVars == <<cpu_gate, reduced, train_step, shard, waiting, passed>>

LayerGateInit ==
    /\ cpu_gate = [l \in GateLayers |-> FALSE]
    /\ reduced = [l \in GateLayers |-> 0]
    /\ train_step = 0
    /\ shard = 0 /\ waiting = 0 /\ passed = {}

\* reset() of every gate, and record() of one.
ResetGates == [l \in GateLayers |-> FALSE]
OpenGate(l) == [cpu_gate EXCEPT ![l] = TRUE]

\* Seeded fault: the gates are not reset.
BeginGateStep_NoReset ==
    /\ train_step < MaxGateSteps /\ train_step' = train_step + 1
    /\ UNCHANGED <<cpu_gate, reduced, shard, waiting, passed>>

\* on_step_begin() of TEMPOSchedulerV5: begin_step().
BeginGateStep ==
    /\ train_step < MaxGateSteps /\ train_step' = train_step + 1
    /\ cpu_gate' = ResetGates
    /\ UNCHANGED <<reduced, shard, waiting, passed>>

\* on_layer_ar_done() of TEMPOSchedulerV5, in the middle of a step.
OnLayerArDone(l) ==
    /\ train_step > 0
    /\ cpu_gate' = OpenGate(l)
    /\ reduced' = [reduced EXCEPT ![l] = train_step]
    /\ UNCHANGED <<train_step, shard, waiting, passed>>

\* The flush thread turns to a layer of the step that is being trained, or of
\* the one that it is writing.
TurnsTo(l) ==
    /\ waiting = 0 /\ train_step > 0
    /\ waiting' = l
    /\ shard' \in {shard, train_step} \ {0}
    /\ UNCHANGED <<cpu_gate, reduced, train_step, passed>>

\* wait_layer_gate(): the gate was open, or is opened.
WaitPasses ==
    /\ waiting # 0 /\ cpu_gate[waiting]
    /\ passed' = passed \cup {[layer |-> waiting, step |-> shard]}
    /\ waiting' = 0
    /\ UNCHANGED <<cpu_gate, reduced, train_step, shard>>

\* wait() gives up after five seconds and returns all the same.
WaitTimesOut ==
    /\ waiting # 0 /\ ~cpu_gate[waiting]
    /\ waiting' = 0
    /\ UNCHANGED <<cpu_gate, reduced, train_step, shard, passed>>

LayerGateNext ==
    \/ BeginGateStep
    \/ \E l \in GateLayers : OnLayerArDone(l) \/ TurnsTo(l)
    \/ WaitPasses \/ WaitTimesOut

LayerGateSpec == LayerGateInit /\ [][LayerGateNext]_gateLayerVars

-------------------------------------------------------------------------------
\* The flush thread that passes a gate, and does not run into the timeout, has
\* the gradients of its step or a later one: the AllReduce of an earlier step
\* never lets it through, however far training runs ahead of the flush.
PassMeansReduced == \A p \in passed : reduced[p.layer] >= p.step
===============================================================================
