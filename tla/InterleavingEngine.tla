--------------------------- MODULE InterleavingEngine ---------------------------
(***************************************************************************)
(* tempo/interleaving_engine.py as TEMPOSchedulerV2 wires it: the set() and *)
(* clear() of the PhaseMonitor's Event first call on_compute_start() and    *)
(* on_compute_end().  Each opened window may arm a threading.Timer.  A      *)
(* timer that has begun to fire cannot be cancelled any more: its callback  *)
(* waits for the engine's lock and runs whenever it gets it.  Nothing reads *)
(* both flags at once, so hook and Event change in one step.  Durations are *)
(* abstracted to whether the predicted window is long enough.               *)
(***************************************************************************)
EXTENDS PhaseMonitor

CONSTANT MaxWindows       \* bound: windows opened

VARIABLES
    in_compute,           \* _in_compute
    deadline,             \* the flag of _deadline_event
    long,                 \* the average compute phase, less the safety margin,
                          \* makes a window worth opening
    window,               \* windows opened so far (io_windows_opened)
    timer,                \* the Timer of each window: "none", "armed",
                          \* "firing" (callback started), "fired", "cancelled"
    current               \* the window whose Timer _deadline_timer is, or 0

engineVars == <<in_compute, deadline, long, window, timer, current>>
gateVars == <<monitorVars, engineVars>>

Windows == 1..MaxWindows

\* PhaseDurationPredictor(): 50 ms to begin with.
PredictorInit == long = TRUE

\* InterleavingEngine()
EngineInit ==
    /\ PredictorInit
    /\ in_compute = FALSE /\ deadline = FALSE
    /\ window = 0 /\ current = 0
    /\ timer = [w \in Windows |-> "none"]

\* Timer.cancel(): without effect on a timer whose callback has started.
Cancelled(w) ==
    IF w \in Windows /\ timer[w] = "armed"
    THEN [timer EXCEPT ![w] = "cancelled"] ELSE timer

\* predict(): is the safe window at least _MIN_IO_WINDOW_MS long?  Nothing calls
\* on_nccl_end(), so the margin stays what it is.
Predict == long

\* update_compute(): where a measured phase takes the average.
UpdateCompute == long' \in BOOLEAN

\* on_compute_start()
OnComputeStart ==
    /\ window < MaxWindows
    /\ window' = window + 1
    /\ in_compute' = TRUE
    /\ deadline' = ~Predict
    /\ IF Predict
       THEN /\ timer' = [Cancelled(current) EXCEPT ![window + 1] = "armed"]
            /\ current' = window + 1
       ELSE UNCHANGED <<timer, current>>
    /\ UNCHANGED long

\* Seeded fault: the deadline is left to the timer, which is cancelled.
OnComputeEnd_TrustsTimer ==
    /\ timer' = Cancelled(current) /\ current' = 0
    /\ IF in_compute THEN UpdateCompute ELSE UNCHANGED long
    /\ in_compute' = FALSE
    /\ UNCHANGED <<deadline, window>>

\* Seeded fault: the timer is forgotten but not cancelled.
OnComputeEnd_NoCancel ==
    /\ current' = 0
    /\ IF in_compute THEN UpdateCompute ELSE UNCHANGED long
    /\ in_compute' = FALSE
    /\ deadline' = TRUE
    /\ UNCHANGED <<window, timer>>

\* on_compute_end()
OnComputeEnd ==
    /\ timer' = Cancelled(current) /\ current' = 0
    /\ IF in_compute THEN UpdateCompute ELSE UNCHANGED long
    /\ in_compute' = FALSE
    /\ deadline' = TRUE
    /\ UNCHANGED window

-------------------------------------------------------------------------------
\* set_phase() with the hooks of V2 (_compute_enter_hook, _nccl_enter_hook).
HookedSetPhase(who, new) ==
    /\ BeginSetPhase(who, new)
    /\ IF phase = new \/ (phase # "NCCL_COMM" /\ new # "NCCL_COMM")
       THEN UNCHANGED engineVars
       ELSE IF phase = "NCCL_COMM"
            THEN OnComputeStart ELSE OnComputeEnd

\* The training thread is in a comm hook, between set_phase() and the launch.
InHook == \E c \in Collectives : coll[c] = "launch"

\* The training thread enters or leaves a phase: compute_phase(), nccl_phase(),
\* checkpoint_phase(), on_step_begin().
TrainerSetsPhase ==
    /\ ~InHook
    /\ \E new \in TrainingPhase : HookedSetPhase("trainer", new)
    /\ UNCHANGED coll

\* The comm hooks of PhaseMonitor with the wired Event.
HookedEnter(c) ==
    /\ coll[c] = "new" /\ ~InHook
    /\ HookedSetPhase("trainer", "NCCL_COMM")
    /\ coll' = [coll EXCEPT ![c] = "launch"]

HookedLaunch(c) ==
    /\ holder # "trainer"
    /\ HookLaunch(c) \/ HookFails(c)
    /\ UNCHANGED engineVars

HookedMarkDone(c) ==
    /\ coll[c] = "inflight"
    /\ HookedSetPhase(c, "COMPUTE")
    /\ coll' = [coll EXCEPT ![c] = "done"]

HookedEndSetPhase == EndSetPhase /\ UNCHANGED engineVars

-------------------------------------------------------------------------------
\* The delay of an armed timer is over: its thread enters _fire_deadline().
TimerExpires(w) ==
    /\ timer[w] = "armed"
    /\ timer' = [timer EXCEPT ![w] = "firing"]
    /\ UNCHANGED <<monitorVars, in_compute, deadline, long, window, current>>

\* Seeded fault: the callback only counts the early cut.
FireDeadline_CountsOnly(w) ==
    /\ timer[w] = "firing"
    /\ timer' = [timer EXCEPT ![w] = "fired"]
    /\ UNCHANGED <<monitorVars, in_compute, deadline, long, window, current>>

\* _fire_deadline() gets the lock.
FireDeadline(w) ==
    /\ timer[w] = "firing"
    /\ timer' = [timer EXCEPT ![w] = "fired"]
    /\ deadline' = TRUE
    /\ UNCHANGED <<monitorVars, in_compute, long, window, current>>

TimerStep == \E w \in Windows : TimerExpires(w) \/ FireDeadline(w)

-------------------------------------------------------------------------------
GateInit == MonitorInit /\ EngineInit

GateNext ==
    \/ TrainerSetsPhase
    \/ HookedEndSetPhase
    \/ \E c \in Collectives : HookedEnter(c) \/ HookedLaunch(c) \/ HookedMarkDone(c)
    \/ TimerStep

\* Timers expire and their threads get the lock, which is held for
\* microseconds; who is in set_phase() leaves it.
GateFairness ==
    /\ WF_gateVars(HookedEndSetPhase)
    /\ \A w \in Windows : WF_gateVars(TimerExpires(w)) /\ WF_gateVars(FireDeadline(w))

GateSpec == GateInit /\ [][GateNext]_gateVars /\ GateFairness

-------------------------------------------------------------------------------
\* While the Event is clear the deadline stands: whatever collectives,
\* callbacks and stale timers do, no path opens an I/O window inside an NCCL
\* phase.
NoWindowInNccl == ~io_allowed => deadline /\ ~in_compute

\* At most one timer is pending, it is the newest window's, and none is
\* pending outside a compute window: the engine leaks no timer thread.
OneArmedTimer ==
    \A w \in Windows : timer[w] = "armed" => w = current /\ w = window /\ in_compute

\* Every opened window is closed, though the compute phase may never end.
WindowCloses == (window > 0 /\ ~deadline) ~> deadline
===============================================================================
