------------------------------ MODULE EgressRouting ------------------------------
(***************************************************************************)
(* What checkpoint() of TEMPOSchedulerV6 does before it calls V5: the       *)
(* traffic class of the gain on the local NIC (tempo/libfabric_qos.py), the *)
(* choice of a GPU whose NIC has room (tempo/nvlink_router.py), the class   *)
(* on that NIC, and the note to the checkpoint manager.  The router's       *)
(* thread updates one NIC at a time meanwhile.  Loads are in levels; what   *)
(* the smoothing makes of a reading is left open.                           *)
(***************************************************************************)
EXTENDS Integers, FiniteSets

CONSTANTS NodeGpus,        \* the GPUs of the node, each with its NIC
          HomeGpu,         \* rank % n_gpus_per_node
          LinkLevel,       \* the level of _LINK_BPS, 100 %
          TopLevel,        \* bound: the highest level of ema_tx_bps
          SaturatedLevel,  \* saturation_threshold
          RerouteMargin,   \* 5 %
          CkptSteps,       \* the training steps that may be saved
          MaxEgressSteps   \* bound: checkpoints

ASSUME EgressAssumption ==
    /\ NodeGpus \subseteq Nat /\ HomeGpu \in NodeGpus /\ CkptSteps \subseteq Nat \ {0}
    /\ LinkLevel \in Nat /\ TopLevel \in Nat /\ SaturatedLevel \in Nat
    /\ RerouteMargin \in Nat /\ MaxEgressSteps \in Nat

VARIABLES
    tx,             \* ema_tx_bps of each NIC
    router,         \* the polling thread of the router: "polls", "stopped"
    dry_run,        \* of the CXIEndpointQoS objects
    class,          \* _current of each
    vpc,            \* where checkpoint() is
    vsteps, gain,   \* checkpoints so far, the gain of this one
    primary_util,   \* what select_egress_gpu() has read
    best,           \* ranked[0]
    egress          \* the GPU chosen

qosVars == <<dry_run, class>>
selectVars == <<primary_util, best, egress>>
egressVars == <<tx, router, qosVars, vpc, vsteps, gain, selectVars>>

\* TEMPOSchedulerV6.compute_gain(), in hundredths: nothing sets _last_ckpt_step.
\* The training loop passes it, or leaves it at 0.40.
V6ComputeGain(at) ==
    LET urgency == IF at < 100 THEN at ELSE 100
        recency == IF at < 10000 THEN at ELSE 10000
    IN  (urgency * (10000 + recency)) \div 20000

Gains == {V6ComputeGain(at) : at \in CkptSteps} \cup {40}

\* start(): its readings are the first, of which nothing can be said.
RouterStart == router = "polls"

\* stop(): the thread is joined, or has a read under way for two seconds.
RouterStop == router' \in {"stopped", "polls"}

\* NVLinkRouter()
RouterInit == tx = [g \in NodeGpus |-> 0] /\ RouterStart /\ primary_util = 0 /\ best = HomeGpu

\* CXIEndpointQoS(): the class is noted even if it cannot be applied.
DefaultTc == "STORAGE"
NewEndpointQos == DefaultTc

\* attach_pool(): int(_ep) raises for an open endpoint, so there is none here.
QosInit ==
    /\ dry_run \in BOOLEAN
    /\ class = [g \in NodeGpus |-> NewEndpointQos]

\* TEMPOSchedulerV6()
EgressInit ==
    /\ RouterInit /\ QosInit
    /\ vpc = "idle" /\ vsteps = 0 /\ gain \in Gains
    /\ egress = HomeGpu

-------------------------------------------------------------------------------
(* libfabric_qos.py                                                        *)

GainToCxiTc(score) ==
    CASE score >= 70 -> "LOW_LATENCY"
      [] score >= 40 /\ score < 70 -> "BULK"
      [] score >= 15 /\ score < 40 -> "STORAGE"
      [] OTHER -> "BEST_EFFORT"

\* QoSMapper.classify(), that the code calls the mirror of it: urgency, in
\* hundredths, lifts the gain by up to 0.08.
EffectiveGain(score, urgency) ==
    IF 100 * score + 8 * urgency > 10000 THEN 10000 ELSE 100 * score + 8 * urgency

Classify(traffic, score, urgency) ==
    LET eff == EffectiveGain(score, urgency)
    IN  CASE traffic = "nccl" -> 3
          [] traffic = "bg_io" -> 0
          [] traffic \notin {"nccl", "bg_io"} /\ eff >= 7000 -> 3
          [] traffic \notin {"nccl", "bg_io"} /\ eff >= 4000 /\ eff < 7000 -> 2
          [] traffic \notin {"nccl", "bg_io"} /\ eff >= 1500 /\ eff < 4000 -> 1
          [] OTHER -> 0

\* cxi_tc_to_socket_tc(), for marking a transfer both ways.
CxiTcToSocketTc(tc) ==
    CASE tc = "LOW_LATENCY" -> 3 [] tc = "BULK" -> 2 [] tc = "STORAGE" -> 1 [] OTHER -> 0

\* The two classifications agree on a transfer that nothing is urgent about; an
\* urgent one is marked one class higher on its socket at most, and never lower.
MarksAgree(score, urgency) ==
    LET fabric_tc == CxiTcToSocketTc(GainToCxiTc(score))
        socket_tc == Classify("kv_cache", score, urgency)
    IN  socket_tc \in {fabric_tc, fabric_tc + 1} /\ (urgency = 0 => socket_tc = fabric_tc)

\* _apply(): without an endpoint fi_setopt() is not called, but in a dry run the
\* answer is that it was.
Applies == dry_run

\* CXIEndpointQoS.set_tc()
SetTc(g, tc) == class' = IF Applies THEN [class EXCEPT ![g] = tc] ELSE class

\* FabricQoSManager.apply_for_gain()
ApplyForGain(g) == SetTc(g, GainToCxiTc(gain))

-------------------------------------------------------------------------------
(* nvlink_router.py                                                        *)

UtilFraction(g) == IF tx[g] > LinkLevel THEN LinkLevel ELSE tx[g]

\* _read_nic(), of a NIC whose counter can be read.
ReadNic(g) ==
    /\ router = "polls"
    /\ \E level \in 0..TopLevel : tx' = [tx EXCEPT ![g] = level]
    /\ UNCHANGED <<router, qosVars, vpc, vsteps, gain, selectVars>>

\* select_egress_gpu(), in the order in which it takes the lock: the primary,
SelectPrimary ==
    /\ vpc = "primary"
    /\ primary_util' = UtilFraction(HomeGpu)
    /\ IF UtilFraction(HomeGpu) <= SaturatedLevel
       THEN egress' = HomeGpu /\ vpc' = "relay" ELSE vpc' = "rank" /\ UNCHANGED egress
    /\ UNCHANGED <<tx, router, qosVars, vsteps, gain, best>>

\* then the ranking, of which the first counts (sorted() is stable),
SelectRank ==
    /\ vpc = "rank"
    /\ best' \in {g \in NodeGpus : \A h \in NodeGpus : tx[g] < tx[h] \/ (tx[g] = tx[h] /\ g <= h)}
    /\ vpc' = "compare"
    /\ UNCHANGED <<tx, router, qosVars, vsteps, gain, primary_util, egress>>

\* then, without it, what that one has now.
SelectCompare ==
    /\ vpc = "compare"
    /\ egress' = IF UtilFraction(best) < primary_util - RerouteMargin THEN best ELSE HomeGpu
    /\ vpc' = "relay"
    /\ UNCHANGED <<tx, router, qosVars, vsteps, gain, primary_util, best>>

-------------------------------------------------------------------------------
(* TEMPOSchedulerV6.checkpoint()                                           *)

V6Checkpoint ==
    /\ vpc = "idle" /\ vsteps < MaxEgressSteps
    /\ vsteps' = vsteps + 1
    /\ ApplyForGain(HomeGpu)
    /\ vpc' = "primary"
    /\ UNCHANGED <<tx, router, dry_run, gain, selectVars>>

\* Seeded fault: the class stays on the local NIC.
V6Relay_LocalOnly ==
    /\ vpc = "relay"
    /\ vpc' = "flush"
    /\ UNCHANGED <<tx, router, qosVars, vsteps, gain, selectVars>>

\* A relay has the class applied to the egress NIC too; the checkpoint manager
\* is told the NIC.
V6Relay ==
    /\ vpc = "relay"
    /\ IF egress # HomeGpu THEN ApplyForGain(egress) ELSE UNCHANGED class
    /\ vpc' = "flush"
    /\ UNCHANGED <<tx, router, dry_run, vsteps, gain, selectVars>>

\* V5.checkpoint() returns or raises; the next call has a gain of its own.
V6Ends ==
    /\ vpc = "flush" /\ vpc' = "idle"
    /\ gain' \in Gains
    /\ UNCHANGED <<tx, router, qosVars, vsteps, selectVars>>

\* shutdown()
V6Shutdown ==
    /\ vpc = "idle" /\ vpc' = "down"
    /\ RouterStop
    /\ UNCHANGED <<tx, qosVars, vsteps, gain, selectVars>>

EgressNext ==
    \/ \E g \in NodeGpus : ReadNic(g)
    \/ V6Checkpoint \/ SelectPrimary \/ SelectRank \/ SelectCompare
    \/ V6Relay \/ V6Ends \/ V6Shutdown

EgressSpec == EgressInit /\ [][EgressNext]_egressVars

-------------------------------------------------------------------------------
\* When the flush begins, the NIC it goes through has the class of its gain,
\* whatever classes earlier checkpoints left on it and whatever the polls
\* changed while the NIC was chosen.
EgressHasClass == dry_run /\ vpc = "flush" => class[egress] = GainToCxiTc(gain)
===============================================================================
