----------------------------- MODULE CongestionProofs -----------------------------
(***************************************************************************)
(* What TLAPS proves about the two parts that act on congestion:            *)
(* InterleavingEngine, for any collectives and any number of windows, each  *)
(* with a timer of its own, and CheckpointDecision, for any rails and steps. *)
(***************************************************************************)
EXTENDS InterleavingEngine, CheckpointDecision, TLAPS

-------------------------------------------------------------------------------
(* InterleavingEngine                                                      *)

\* The Event belongs to the phase, or to the one that set_phase() is coming to.
GateFollowsPhase ==
    io_allowed <=> (IF LockFree THEN phase ELSE target) # "NCCL_COMM"

\* A window that is opened anew finds no timer armed: set_phase() opens windows
\* on leaving an NCCL phase only, and none is open in one.
WindowInv ==
    /\ GateFollowsPhase
    /\ NoWindowInNccl
    /\ DOMAIN timer = Windows
    /\ OneArmedTimer

\* Cancelling the timer of the current window leaves none armed.
LEMMA CancelledLeavesNone ==
    ASSUME DOMAIN timer = Windows, OneArmedTimer, NEW w \in Windows
    PROVE  DOMAIN Cancelled(current) = Windows /\ Cancelled(current)[w] # "armed"
<1>1. CASE current \in Windows /\ timer[current] = "armed"
  <2>1. Cancelled(current) = [timer EXCEPT ![current] = "cancelled"]
    BY <1>1 DEF Cancelled
  <2>2. CASE w = current
    BY <2>1, <2>2
  <2>3. CASE w # current
    BY <2>1, <2>3 DEF OneArmedTimer
  <2>4. QED
    BY <2>1, <2>2, <2>3
<1>2. CASE ~(current \in Windows /\ timer[current] = "armed")
  <2>1. Cancelled(current) = timer
    BY <1>2 DEF Cancelled
  <2>2. QED
    BY <1>2, <2>1 DEF OneArmedTimer
<1>3. QED
  BY <1>1, <1>2

\* The hook of V2 and the Event change together, so no timer outlives its window.
LEMMA HookedSetPhaseKeeps ==
    ASSUME WindowInv, NEW who \in {"trainer"} \cup Collectives, NEW new,
           HookedSetPhase(who, new)
    PROVE  WindowInv'
<1>1. who # "nobody" /\ LockFree
  BY CollectivesAssumption DEF HookedSetPhase, BeginSetPhase
<1>2. CASE phase = new
  BY <1>1, <1>2 DEF HookedSetPhase, BeginSetPhase, WindowInv, GateFollowsPhase, LockFree,
                    NoWindowInNccl, OneArmedTimer, engineVars
<1>3. CASE phase # new /\ phase # "NCCL_COMM" /\ new # "NCCL_COMM"
  BY <1>1, <1>3 DEF HookedSetPhase, BeginSetPhase, Resumes, WindowInv, GateFollowsPhase,
                    LockFree, NoWindowInNccl, OneArmedTimer, engineVars
<1>4. CASE phase # new /\ phase = "NCCL_COMM"
  <2>1. OnComputeStart /\ io_allowed' = TRUE /\ GateFollowsPhase'
    BY <1>1, <1>4 DEF HookedSetPhase, BeginSetPhase, Resumes, SetEvent, GateFollowsPhase,
                      LockFree
  <2>2. ~in_compute
    BY <1>1, <1>4 DEF WindowInv, GateFollowsPhase, NoWindowInNccl
  <2>3. \A w \in Windows : timer[w] # "armed"
    BY <2>2 DEF WindowInv, OneArmedTimer
  <2>4. (DOMAIN timer = Windows)' /\ OneArmedTimer'
    <3>1. CASE Predict
      <4>1. /\ timer' = [Cancelled(current) EXCEPT ![window + 1] = "armed"]
            /\ current' = window + 1 /\ window' = window + 1 /\ in_compute' = TRUE
        BY <2>1, <3>1 DEF OnComputeStart
      <4>2. \A w \in Windows : /\ DOMAIN Cancelled(current) = Windows
                               /\ Cancelled(current)[w] # "armed"
        BY CancelledLeavesNone DEF WindowInv
      <4>3. DOMAIN Cancelled(current) = Windows
        BY DEF Cancelled, WindowInv
      <4>4. QED
        BY <4>1, <4>2, <4>3 DEF OneArmedTimer, Windows
    <3>2. CASE ~Predict
      <4>1. timer' = timer
        BY <2>1, <3>2 DEF OnComputeStart
      <4>2. QED
        BY <4>1, <2>3 DEF WindowInv, OneArmedTimer, Windows
    <3>3. QED
      BY <3>1, <3>2
  <2>5. QED
    BY <2>1, <2>4 DEF WindowInv, NoWindowInNccl
<1>5. CASE phase # "NCCL_COMM" /\ new = "NCCL_COMM"
  <2>1. OnComputeEnd /\ GateFollowsPhase'
    BY <1>1, <1>5 DEF HookedSetPhase, BeginSetPhase, Resumes, ClearEvent, GateFollowsPhase,
                      LockFree
  <2>2. (DOMAIN timer = Windows)' /\ \A w \in Windows : timer'[w] # "armed"
    <3>1. timer' = Cancelled(current)
      BY <2>1 DEF OnComputeEnd
    <3>2. DOMAIN Cancelled(current) = Windows
      BY DEF Cancelled, WindowInv
    <3>3. \A w \in Windows : Cancelled(current)[w] # "armed"
      BY CancelledLeavesNone DEF WindowInv
    <3>4. QED
      BY <3>1, <3>2, <3>3 DEF Windows
  <2>3. deadline' = TRUE /\ in_compute' = FALSE
    BY <2>1 DEF OnComputeEnd
  <2>4. QED
    BY <2>1, <2>2, <2>3 DEF WindowInv, NoWindowInNccl, OneArmedTimer, Windows
<1>6. QED
  BY <1>2, <1>3, <1>4, <1>5

\* A timer that expires or fires is not armed any more, and fires by closing.
LEMMA TimerStepKeeps ==
    ASSUME WindowInv, TimerStep PROVE WindowInv'
<1>1. PICK w \in Windows : TimerExpires(w) \/ FireDeadline(w)
  BY DEF TimerStep
<1>2. /\ UNCHANGED <<monitorVars, in_compute, window, current>>
      /\ deadline' = TRUE \/ UNCHANGED deadline
  BY <1>1 DEF TimerExpires, FireDeadline
<1>3. PICK how \in {"firing", "fired"} : timer' = [timer EXCEPT ![w] = how]
  BY <1>1 DEF TimerExpires, FireDeadline
<1>4. (DOMAIN timer = Windows)' /\ OneArmedTimer'
  BY <1>2, <1>3 DEF WindowInv, OneArmedTimer, Windows
<1>5. GateFollowsPhase' /\ NoWindowInNccl'
  BY <1>2 DEF WindowInv, GateFollowsPhase, NoWindowInNccl, LockFree, monitorVars
<1>6. QED
  BY <1>4, <1>5 DEF WindowInv

LEMMA WindowStep == WindowInv /\ [GateNext]_gateVars => WindowInv'
<1> SUFFICES ASSUME WindowInv, [GateNext]_gateVars PROVE WindowInv'
  OBVIOUS
<1>1. CASE TrainerSetsPhase
  BY <1>1, HookedSetPhaseKeeps DEF TrainerSetsPhase
<1>2. ASSUME NEW c \in Collectives, HookedEnter(c) \/ HookedMarkDone(c)
      PROVE  WindowInv'
  BY <1>2, HookedSetPhaseKeeps DEF HookedEnter, HookedMarkDone
<1>3. ASSUME NEW c \in Collectives, HookedLaunch(c)
      PROVE  WindowInv'
  BY <1>3 DEF HookedLaunch, HookLaunch, HookFails, WindowInv, GateFollowsPhase, LockFree,
              NoWindowInNccl, OneArmedTimer, engineVars
<1>4. CASE HookedEndSetPhase
  BY <1>4 DEF HookedEndSetPhase, EndSetPhase, WindowInv, GateFollowsPhase, LockFree,
              NoWindowInNccl, OneArmedTimer, engineVars
<1>5. CASE TimerStep
  BY <1>5, TimerStepKeeps
<1>6. CASE UNCHANGED gateVars
  BY <1>6 DEF gateVars, monitorVars, engineVars, WindowInv, GateFollowsPhase, LockFree,
              NoWindowInNccl, OneArmedTimer
<1>7. QED
  BY <1>1, <1>2, <1>3, <1>4, <1>5, <1>6 DEF GateNext

LEMMA WindowHolds == GateSpec => []WindowInv
<1>1. GateInit => WindowInv
  BY DEF GateInit, MonitorInit, EngineInit, WindowInv, GateFollowsPhase, LockFree,
         NoWindowInNccl, OneArmedTimer
<1>2. QED
  BY <1>1, WindowStep, PTL DEF GateSpec

\* No path opens an I/O window inside an NCCL phase: not the callbacks of
\* collectives that overlap, nor a timer that fires late.
THEOREM WindowsStayOutOfNccl == GateSpec => []NoWindowInNccl
<1>1. WindowInv => NoWindowInNccl
  BY DEF WindowInv
<1>2. QED
  BY <1>1, WindowHolds, PTL

\* The engine never has two timers pending, whatever phases follow each other.
THEOREM TimersAreNotLeaked == GateSpec => []OneArmedTimer
<1>1. WindowInv => OneArmedTimer
  BY DEF WindowInv
<1>2. QED
  BY <1>1, WindowHolds, PTL

-------------------------------------------------------------------------------
(* CheckpointDecision                                                      *)

\* What a call works on is the current step.
CallInv ==
    /\ DOMAIN outcome = Steps /\ DOMAIN seen = Steps
    /\ now \in 0..MaxStep /\ step \in Steps
    /\ tpc \notin {"idle", "down"} => now = step

\* A token is registered only after the outcome of its step was decided in the
\* same call, which began without a token.
TokenInv ==
    /\ \A s \in Steps : outcome[s] = "raised" => s \notin tokens
    /\ tpc = "register" => outcome[step] # "raised"
    /\ tpc \in {"place", "route", "gain", "save"} => step \notin tokens

\* The congestion flag is what was seen as the current step began, and nothing
\* is decided about a step before it begins.
FlagInv ==
    /\ RecomputeJustified
    /\ flagged => now \in Steps /\ seen[now]
    /\ \A s \in Steps : outcome[s] # "none" => s <= now

DecisionInv == CallInv /\ TokenInv /\ FlagInv

LEMMA DecisionStep == DecisionInv /\ [DecisionNext]_decisionVars => DecisionInv'
<1> SUFFICES ASSUME DecisionInv, [DecisionNext]_decisionVars PROVE DecisionInv'
  OBVIOUS
<1> USE DecisionAssumption DEF DecisionInv, CallInv, TokenInv, FlagInv, RecomputeJustified,
        Steps
<1>1. ASSUME UNCHANGED <<now, flagged, step, outcome, seen, tokens, tpc>>
      PROVE  DecisionInv'
  BY <1>1
<1>2. CASE MonitorStep
  BY <1>1, <1>2 DEF MonitorStep, svcVars, callVars, histVars
<1>3. CASE SetGlobalLinkSaturated \/ RegisterPeerGroups \/ UNCHANGED decisionVars
  BY <1>1, <1>3 DEF SetGlobalLinkSaturated, RegisterPeerGroups, svcVars, callVars,
                    histVars, decisionVars
<1>4. CASE OnStepBegin
  <2>1. /\ tpc = "idle" /\ now' = now + 1 /\ now < MaxStep
        /\ flagged' = IsCongested /\ seen' = [seen EXCEPT ![now + 1] = IsCongested]
        /\ UNCHANGED <<step, outcome, tokens, tpc>>
    BY <1>4 DEF OnStepBegin, UpdateStep, SetCongested, callVars
  <2>2. CallInv' /\ TokenInv'
    BY <2>1
  <2>3. FlagInv'
    BY <2>1
  <2>4. QED
    BY <2>2, <2>3
<1>5. ASSUME NEW given, CallCheckpoint(given)
      PROVE  DecisionInv'
  BY <1>5 DEF CallCheckpoint, svcVars
<1>6. CASE AskCache
  BY <1>6 DEF AskCache, Ends, svcVars, callVars
<1>7. ASSUME NEW closing, Place(closing)
      PROVE  DecisionInv'
  BY <1>7 DEF Place, Ends, SubmitJob, callVars
<1>8. ASSUME NEW nccl, Route(nccl)
      PROVE  DecisionInv'
  <2>1. /\ tpc = "route" /\ now' = step /\ tpc' \in {"save", "register", "gain"}
        /\ \/ tpc' # "register" /\ UNCHANGED outcome
           \/ tpc' = "register" /\ Ends("deferred")
        /\ UNCHANGED <<step, flagged, seen, tokens>>
    BY <1>8 DEF Route, UpdateStep, callVars
  <2>2. QED
    BY <2>1 DEF Ends
<1>9. CASE Gain
  <2>1. /\ tpc = "gain" /\ UNCHANGED <<now, flagged, step, seen, tokens>>
        /\ \/ tpc' = "register" /\ Ends("recompute") /\ flagged /\ step % Milestone # 0
           \/ tpc' = "save" /\ UNCHANGED outcome
    BY <1>9 DEF Gain, RecomputeFallback, ComputeGainIsLow, callVars
  <2>2. QED
    BY <2>1 DEF Ends
<1>10. CASE Save \/ SaveRaises
  BY <1>10 DEF Save, SaveRaises, Ends, svcVars, callVars
<1>11. CASE Register
  BY <1>11 DEF Register, svcVars, callVars, histVars
<1>12. ASSUME NEW s \in Steps, DropToken(s)
       PROVE  DecisionInv'
  BY <1>12 DEF DropToken, svcVars, callVars, histVars
<1>13. CASE Shutdown
  BY <1>13 DEF Shutdown, svcVars, callVars, histVars
<1>14. QED
  BY <1>2, <1>3, <1>4, <1>5, <1>6, <1>7, <1>8, <1>9, <1>10, <1>11, <1>12, <1>13
     DEF DecisionNext

LEMMA DecisionHolds == DecisionSpec => []DecisionInv
<1>1. DecisionInit => DecisionInv
  BY DecisionAssumption
     DEF DecisionInit, V4Init, V3Init, V2Init, SvcInit, DecisionInv, CallInv, TokenInv,
         FlagInv, RecomputeJustified, Steps
<1>2. QED
  BY <1>1, DecisionStep, PTL DEF DecisionSpec

\* A checkpoint is given up for recomputation only if its own step began in
\* congestion, and never at a milestone.
THEOREM RecomputationIsJustified == DecisionSpec => []RecomputeJustified
<1>1. DecisionInv => RecomputeJustified
  BY DEF DecisionInv, FlagInv
<1>2. QED
  BY <1>1, DecisionHolds, PTL

\* A checkpoint whose save raised has no token in the cache, so it is tried again.
THEOREM FailedSavesAreRetried == DecisionSpec => []RaisedIsRetried
<1>1. DecisionInv => RaisedIsRetried
  BY DEF DecisionInv, TokenInv, RaisedIsRetried
<1>2. QED
  BY <1>1, DecisionHolds, PTL
===============================================================================
