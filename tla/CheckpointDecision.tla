-------------------------- MODULE CheckpointDecision --------------------------
(***************************************************************************)
(* tempo/scheduler.py, checkpoint() of TEMPOSchedulerV4 down to the one of  *)
(* TEMPOScheduler: who decides whether a checkpoint is saved at all.  V4    *)
(* asks the P2P cache and shrinks the size, V3 the topology router, V2 the  *)
(* PCIe prediction and the service gain, V1 saves (module TEMPOScheduler).  *)
(* The network monitor polls meanwhile.  A size is the bandwidth that it    *)
(* takes to flush it in the flush window.                                   *)
(***************************************************************************)
EXTENDS NetworkMonitor

CONSTANTS
    Modes,            \* "tempo", "baseline"
    MaxStep,          \* bound: training steps
    MaxTries,         \* bound: calls of checkpoint() for a step
    Milestone,        \* milestone_interval
    LowProgress,      \* steps since a commit that leave the gain below 0.15
    SloSteps,         \* slo_deadline_steps; at a quarter of it left the urgency
                      \* alone is worth 0.15
    FullSize,         \* size of a whole checkpoint
    PcieCeiling,      \* PCIE_CEILING_BPS
    NcclLevels,       \* what the phase monitor may estimate for NCCL
    OtherRanks,       \* the other ranks, those of the local group among them
    Owned             \* steps whose cache key this rank owns in the P2P ring

Steps == 1..MaxStep

ASSUME DecisionAssumption ==
    /\ Modes \subseteq {"tempo", "baseline"} /\ Owned \subseteq Steps
    /\ MaxStep \in Nat \ {0} /\ MaxTries \in Nat /\ FullSize \in Nat
    /\ Milestone \in Nat \ {0} /\ LowProgress \in Nat /\ SloSteps \in Nat \ {0}
    /\ PcieCeiling \in Nat \ {0} /\ NcclLevels \subseteq Nat /\ OtherRanks \subseteq Nat

VARIABLES
    mode,             \* of the scheduler
    now,              \* svc_gain._current_step
    flagged,          \* svc_gain._congested
    last_ckpt,        \* svc_gain._last_ckpt_step
    saturated,        \* topo_router._global_link_saturated
    local_peers,      \* topo_router._local_peers
    size,             \* metadata["size_bytes"] of the call
    shaped,           \* metadata gives the shape of the model
    tokens,           \* steps whose token is in the P2P cache
    tpc, step,        \* where the training thread stands, and the step it saves
    tries,            \* history: calls of checkpoint() by step
    outcome,          \* history: how the last one ended
    saves,            \* history: how often the step was saved
    seen              \* history: was the gate closed as the step began?

svcVars == <<now, flagged, last_ckpt>>
routeVars == <<saturated, local_peers>>
callVars == <<size, shaped, step>>
histVars == <<tries, outcome, saves, seen>>
decisionVars == <<netVars, svcVars, routeVars, callVars, histVars, mode, tokens, tpc>>

\* ServiceGainScheduler()
SvcInit == now = 0 /\ flagged = FALSE /\ last_ckpt = 0

\* TopologyRouter(): nothing starts its hardware counters, which so never say
\* that the fabric is congested.
TopoInit == saturated = FALSE /\ local_peers = {}

\* TEMPOSchedulerV2(), V3() and V4(), with everything enabled.
V2Init == mode \in Modes /\ NetInit /\ NetStarted /\ SvcInit
V3Init == V2Init /\ TopoInit
V4Init == V3Init /\ tokens = {}

DecisionInit ==
    /\ V4Init
    /\ size = FullSize /\ shaped = FALSE /\ step = 1 /\ tpc = "idle"
    /\ tries = [s \in Steps |-> 0] /\ saves = [s \in Steps |-> 0]
    /\ outcome = [s \in Steps |-> "none"] /\ seen = [s \in Steps |-> FALSE]

-------------------------------------------------------------------------------
(* ServiceGainScheduler                                                    *)

UpdateStep(s) == now' = s
SetCongested(flag) == flagged' = flag

\* compute_gain(): is the gain of s below half of _DEFERRAL_THRESH?  Nothing
\* calls mark_committed(), so the last committed step is 0.
ComputeGainIsLow(s, ckpt) ==
    LET left == SloSteps - (s - ckpt)
        urgent == 4 * left <= SloSteps
    IN  s % Milestone # 0 /\ s < LowProgress /\ ~urgent

\* submit_job(): the last checkpointed step is s itself by the time of
\* compute_gain().
SubmitJob(s) == last_ckpt' = s

\* Seeded fault: the milestone override is lost.
RecomputeFallback_NoMilestone(s) == flagged /\ s < LowProgress

RecomputeFallback(s) == flagged /\ ComputeGainIsLow(s, s)

-------------------------------------------------------------------------------
(* PCIePressurePredictor                                                   *)

\* predict_kv_bytes(), of the model that the metadata gives the shape of.
PredictKvBytes == FullSize

\* pcie_pressure(), as a multiple of a tenth: is it below n?
PciePressureBelow(n, flush, nccl) == 10 * (flush + nccl) < n * PcieCeiling

\* route_decision()
RouteDecision(flush, nccl, n_idle) ==
    LET headroom == (PcieCeiling - nccl) * (IF n_idle > 1 THEN n_idle ELSE 1)
    IN  IF PciePressureBelow(9, flush, nccl) THEN "proceed"
        ELSE IF n_idle > 0 /\ flush <= headroom THEN "rate_limit"
        ELSE IF PciePressureBelow(15, flush, nccl) THEN "micro_delay"
        ELSE "defer"

-------------------------------------------------------------------------------
(* TopologyRouter                                                          *)

\* set_global_link_saturated() and register_peer_groups(): for the program to
\* call, no code here does.
SetGlobalLinkSaturated ==
    /\ tpc = "idle" /\ saturated' = ~saturated
    /\ UNCHANGED <<netVars, svcVars, callVars, histVars, mode, local_peers, tokens, tpc>>

RegisterPeerGroups ==
    /\ tpc = "idle" /\ local_peers' \in SUBSET OtherRanks
    /\ UNCHANGED <<netVars, svcVars, callVars, histVars, mode, saturated, tokens, tpc>>

\* route_kv_placement(), with less than 4 ms left of the safe window or more.
RouteKvPlacement(closing) ==
    IF local_peers # {} THEN "LOCAL_PEER"
    ELSE IF saturated /\ closing THEN "DEFERRED"
    ELSE "LUSTRE_REMOTE"

-------------------------------------------------------------------------------
(* The training loop                                                       *)

\* on_step_begin()
OnStepBegin ==
    /\ tpc = "idle" /\ now < MaxStep
    /\ UpdateStep(now + 1)
    /\ SetCongested(IsCongested)
    /\ seen' = [seen EXCEPT ![now + 1] = IsCongested]
    /\ UNCHANGED <<netVars, routeVars, callVars, mode, last_ckpt, tokens, tpc, tries,
                   outcome, saves>>

-------------------------------------------------------------------------------
(* checkpoint()                                                            *)

\* avg_hot of a filter that nothing was given to filter: 0.05.
Shrunk(bytes) == bytes \div 20

\* V4, with a fresh metadata or the one of the call before, which it changed.
CallCheckpoint(given) ==
    /\ tpc = "idle" /\ now > 0 /\ tries[now] < MaxTries
    /\ step' = now
    /\ tries' = [tries EXCEPT ![now] = @ + 1]
    /\ size' = Shrunk(given)
    /\ shaped' \in BOOLEAN
    /\ tpc' = "get"
    /\ UNCHANGED <<netVars, svcVars, routeVars, mode, tokens, outcome, saves, seen>>

Ends(how) == outcome' = [outcome EXCEPT ![step] = how]

\* V4: p2p_cache.get(), and return on a hit; else begin_step().
AskCache ==
    /\ tpc = "get"
    /\ IF step \in tokens
       THEN tpc' = "idle" /\ Ends("hit") ELSE tpc' = "place" /\ UNCHANGED outcome
    /\ UNCHANGED <<netVars, svcVars, routeVars, callVars, mode, tokens, tries, saves, seen>>

\* V3: submit_job() and the placement.
Place(closing) ==
    /\ tpc = "place"
    /\ SubmitJob(step)
    /\ IF RouteKvPlacement(closing) = "DEFERRED"
       THEN tpc' = "register" /\ Ends("placement")
       ELSE tpc' = "route" /\ UNCHANGED outcome
    /\ UNCHANGED <<netVars, now, flagged, routeVars, callVars, mode, tokens, tries,
                   saves, seen>>

\* V2: update_step() and, in tempo mode, the look-ahead, which submits a job
\* that it defers.
Route(nccl) ==
    /\ tpc = "route"
    /\ UpdateStep(step)
    /\ LET bytes == IF shaped THEN PredictKvBytes ELSE size
           deferred == mode = "tempo" /\ RouteDecision(bytes, nccl, CountIdleRails) = "defer"
       IN  \/ /\ mode = "baseline" /\ tpc' = "save"
              /\ UNCHANGED <<outcome, last_ckpt>>
           \/ /\ deferred /\ tpc' = "register"
              /\ Ends("deferred") /\ SubmitJob(step)
           \/ /\ mode # "baseline" /\ ~deferred /\ tpc' = "gain"
              /\ UNCHANGED <<outcome, last_ckpt>>
    /\ UNCHANGED <<netVars, flagged, routeVars, callVars, mode, tokens, tries, saves, seen>>

\* V2: submit_job() once more, after the delay if there is one.
Gain ==
    /\ tpc = "gain"
    /\ SubmitJob(step)
    /\ IF RecomputeFallback(step)
       THEN tpc' = "register" /\ Ends("recompute")
       ELSE tpc' = "save" /\ UNCHANGED outcome
    /\ UNCHANGED <<netVars, now, flagged, routeVars, callVars, mode, tokens, tries,
                   saves, seen>>

\* V1: save_async() or save_sync_lustre().
Save ==
    /\ tpc = "save"
    /\ tpc' = "register" /\ Ends("saved")
    /\ saves' = [saves EXCEPT ![step] = @ + 1]
    /\ UNCHANGED <<netVars, svcVars, routeVars, callVars, mode, tokens, tries, seen>>

\* Seeded fault: the token is registered in a finally clause.
SaveRaises_Finally ==
    /\ tpc = "save"
    /\ tpc' = "register" /\ Ends("raised")
    /\ UNCHANGED <<netVars, svcVars, routeVars, callVars, mode, tokens, tries, saves, seen>>

\* The local write raises, through the whole chain.
SaveRaises ==
    /\ tpc = "save"
    /\ tpc' = "idle" /\ Ends("raised")
    /\ UNCHANGED <<netVars, svcVars, routeVars, callVars, mode, tokens, tries, saves, seen>>

\* V4: the token is put, whatever V3 did, if this rank owns its key; end_step().
Register ==
    /\ tpc = "register"
    /\ tokens' = IF step \in Owned THEN tokens \cup {step} ELSE tokens
    /\ tpc' = "idle"
    /\ UNCHANGED <<netVars, svcVars, routeVars, callVars, mode, histVars>>

\* The P2P cache runs out of room in both tiers (module P2PCacheStore), perhaps
\* by a chunk that the nano-overlap thread puts there.
DropToken(s) ==
    /\ s \in tokens
    /\ tokens' = tokens \ {s}
    /\ UNCHANGED <<netVars, svcVars, routeVars, callVars, mode, histVars, tpc>>

\* V2.shutdown(), after the one of V1.
Shutdown ==
    /\ tpc = "idle" /\ tpc' = "down"
    /\ NetStop
    /\ UNCHANGED <<svcVars, routeVars, callVars, mode, histVars, tokens>>

-------------------------------------------------------------------------------
MonitorStep == (PollTest \/ Poll \/ \E over \in BOOLEAN : SetSimulatedBps(over))
    /\ UNCHANGED <<svcVars, routeVars, callVars, mode, histVars, tokens, tpc>>

DecisionNext ==
    \/ MonitorStep
    \/ OnStepBegin \/ SetGlobalLinkSaturated \/ RegisterPeerGroups
    \/ \E given \in {FullSize, size} : CallCheckpoint(given)
    \/ AskCache \/ (\E closing \in BOOLEAN : Place(closing))
    \/ (\E nccl \in NcclLevels : Route(nccl)) \/ Gain
    \/ Save \/ SaveRaises \/ Register
    \/ \E s \in Steps : DropToken(s)
    \/ Shutdown

DecisionSpec == DecisionInit /\ [][DecisionNext]_decisionVars

-------------------------------------------------------------------------------
\* A checkpoint is given up for recomputation only if the network was congested
\* as its training step began, not before and not since, and never at a
\* milestone, however the polls fall between on_step_begin() and checkpoint().
RecomputeJustified ==
    \A s \in Steps : outcome[s] = "recompute" => seen[s] /\ s % Milestone # 0

\* A checkpoint whose save raised leaves no token behind: a retry saves it.
RaisedIsRetried ==
    \A s \in Steps : outcome[s] = "raised" /\ tpc = "idle" => s \notin tokens

\* scheduler.py:942, of a hit: "Already stored in P2P, skip Lustre overhead".  V4
\* registers a checkpoint that V2 or V3 skipped, and does not try it again.
HitMeansSaved == \A s \in Steps : outcome[s] = "hit" => saves[s] > 0
===============================================================================
