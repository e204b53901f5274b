------------------------------- MODULE MCServices -------------------------------
(***************************************************************************)
(* The services around the checkpoint path.  No code connects them in a way *)
(* that their properties depend on, so a behaviour is of one of them, which *)
(* `part` names, and the others stay in one initial state.                  *)
(***************************************************************************)
EXTENDS LMCacheConnector, P2PCacheStore, NanoOverlap, NexusCoordinator, LayerMicroGate,
        GpuDriven, EgressRouting, CassiniCounters, SparseTransfer,
        TraceLoader

CONSTANTS k1, k2, k3

VARIABLE part

\* A value of k2 fills the DRAM tier.
MCSize == [k \in {k1, k2, k3} |-> IF k = k2 THEN 2 ELSE 1]

\* The walk of k2 meets rank 2 twice before rank 1; that of k3 goes round.
MCHash == [k \in {k1, k2, k3} |-> CASE k = k1 -> 1 [] k = k2 -> 3 [] k = k3 -> 9]
MCPoints == <<{2, 7}, {4, 6}, {8}>>

\* Three levels of attention on every cache of SeqLen tokens, whose rows differ.
ASSUME SparseCheck ==
    \A scores \in AttentionProbe :
        /\ OmittedIsCold(scores) /\ RecentAreKept(scores)
        /\ RowsArrive([t \in Tokens |-> t], [t \in Tokens |-> 10 + t], 0, scores)

ASSUME MarksCheck == \A score \in 0..100, urgency \in 0..100 : MarksAgree(score, urgency)

\* Every file of three rows within two seconds, in halves of a second.
MCRow == [ts : 0..4, timed : BOOLEAN, tokens : BOOLEAN, input : {0}, output : {0}]

ASSUME LoadCheck ==
    /\ \A rows \in [1..3 -> MCRow], n \in 1..3, start \in {0, 1} : LoadsTheEarliest(rows, n, start)
    /\ WrittenCannotBeLoaded

\* Every trace of five requests, by the gaps between them.
ASSUME PeakCheck ==
    \A gaps \in [1..5 -> 0..2] :
        LET shapes == [i \in 1..5 |-> [human |-> 1, gpt |-> 0]]
            drawn  == Load(Source(FALSE, FALSE, "burstgpt"), <<>>,
                           [gaps |-> gaps, shapes |-> shapes], 5, 0)
        IN  PeakIsHalfRight(drawn)

Parts == {"connector", "p2p", "nano", "nexus", "gates", "gpu", "egress", "cassini"}

\* The initial state of a part that is not run.
Idle ==
    /\ part = "connector" \/ ~using_c
    /\ part = "nano" \/ ~use_cuda
    /\ part = "egress" \/ (dry_run /\ gain = 40)
    /\ part = "cassini" \/ (c_lib /\ hw = [n \in CxiNics |-> 0])

ServicesInit ==
    /\ part \in Parts
    /\ ConnectorInit /\ P2PInit /\ NanoInit /\ NexusInit /\ LayerGateInit
    /\ GpuInit /\ EgressInit /\ CassiniInit
    /\ Idle

vars == <<connectorVars, p2pVars, nanoVars, nexusVars, gateLayerVars, gpuVars,
          egressVars, cassiniVars>>

ConnectorPart ==
    /\ part = "connector" /\ ConnectorNext
    /\ UNCHANGED <<part, p2pVars, nanoVars, nexusVars, gateLayerVars, gpuVars, egressVars,
                   cassiniVars>>
WorkerPart ==
    /\ part = "connector" /\ WorkerStep
    /\ UNCHANGED <<part, p2pVars, nanoVars, nexusVars, gateLayerVars, gpuVars, egressVars,
                   cassiniVars>>
P2PPart ==
    /\ part = "p2p" /\ P2PNext
    /\ UNCHANGED <<part, connectorVars, nanoVars, nexusVars, gateLayerVars, gpuVars,
                   egressVars, cassiniVars>>
NanoPart ==
    /\ part = "nano" /\ NanoNext
    /\ UNCHANGED <<part, connectorVars, p2pVars, nexusVars, gateLayerVars, gpuVars,
                   egressVars, cassiniVars>>
NexusPart ==
    /\ part = "nexus" /\ NexusNext
    /\ UNCHANGED <<part, connectorVars, p2pVars, nanoVars, gateLayerVars, gpuVars,
                   egressVars, cassiniVars>>
GatesPart ==
    /\ part = "gates" /\ LayerGateNext
    /\ UNCHANGED <<part, connectorVars, p2pVars, nanoVars, nexusVars, gpuVars, egressVars,
                   cassiniVars>>
GpuPart ==
    /\ part = "gpu" /\ GpuNext
    /\ UNCHANGED <<part, connectorVars, p2pVars, nanoVars, nexusVars, gateLayerVars,
                   egressVars, cassiniVars>>
EgressPart ==
    /\ part = "egress" /\ EgressNext
    /\ UNCHANGED <<part, connectorVars, p2pVars, nanoVars, nexusVars, gateLayerVars, gpuVars,
                   cassiniVars>>
CassiniPart ==
    /\ part = "cassini" /\ CassiniNext
    /\ UNCHANGED <<part, connectorVars, p2pVars, nanoVars, nexusVars, gateLayerVars, gpuVars,
                   egressVars>>

ServicesNext ==
    \/ ConnectorPart \/ P2PPart \/ NanoPart \/ NexusPart \/ GatesPart \/ GpuPart
    \/ EgressPart \/ CassiniPart

ServicesSpec == ServicesInit /\ [][ServicesNext]_<<part, vars>> /\ WF_<<part, vars>>(WorkerPart)
===============================================================================
