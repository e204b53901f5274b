----------------------------- MODULE PhaseMonitor -----------------------------
(***************************************************************************)
(* tempo/phase_monitor.py: the training phase, set by the training thread  *)
(* and by the callbacks of asynchronous collectives, and the Event that    *)
(* gates the flush thread.  set_phase() runs under the lock in two steps,  *)
(* because the Event is read without the lock; the phase and the rate are  *)
(* read under it.  Clocks are abstracted to the one question the flush     *)
(* rate asks of them: is the smoothed length of the NCCL phases so short   *)
(* that nothing is left of the PCIe ceiling?                               *)
(***************************************************************************)
EXTENDS Integers, FiniteSets

CONSTANT Collectives   \* the asynchronous all-reduces of the comm hooks

ASSUME CollectivesAssumption == Collectives \cap {"nobody", "trainer"} = {}

VARIABLES
    phase,        \* _phase
    io_allowed,   \* the flag of _io_allowed
    holder,       \* who is inside set_phase(): "nobody", "trainer", a collective
    target,       \* the phase it is setting
    no_budget,    \* _ema_nccl_ms leaves no bandwidth
    coll,         \* each collective: "new", "launch", "inflight", "done",
                  \* or "failed" to launch
    waiter        \* where the flush thread stands in wait_for_io_allowed()

monitorVars == <<phase, io_allowed, holder, target, no_budget, coll, waiter>>

TrainingPhase == {"IDLE", "COMPUTE", "NCCL_COMM", "CHECKPOINT"}

MonitorInit ==
    /\ phase = "IDLE" /\ io_allowed = TRUE
    /\ holder = "nobody" /\ target = "IDLE"
    /\ no_budget = FALSE
    /\ coll = [c \in Collectives |-> "new"]
    /\ waiter = "out"

LockFree == holder = "nobody"

-------------------------------------------------------------------------------
(* set_phase()                                                             *)

\* Setting the Event wakes its waiter for good: wait() returns True even if
\* the flag is cleared again before the waiter runs.
SetEvent ==
    /\ io_allowed' = TRUE
    /\ waiter' = IF waiter = "waiting" THEN "true" ELSE waiter

ClearEvent ==
    /\ io_allowed' = FALSE
    /\ UNCHANGED waiter

\* Seeded fault: the Event is set on the way back to COMPUTE only.
Resumes_OnCompute(new) == phase = "NCCL_COMM" /\ new = "COMPUTE"
Resumes(new) == phase = "NCCL_COMM"

\* The lock is taken and the Event set or cleared; a phase set again returns
\* at once.
BeginSetPhase(who, new) ==
    /\ LockFree
    /\ IF phase = new
       THEN UNCHANGED <<io_allowed, waiter, holder, target, no_budget>>
       ELSE /\ holder' = who /\ target' = new
            /\ IF Resumes(new) THEN SetEvent /\ no_budget' \in BOOLEAN
               ELSE IF new = "NCCL_COMM" THEN ClearEvent /\ UNCHANGED no_budget
               ELSE UNCHANGED <<io_allowed, waiter, no_budget>>
    /\ UNCHANGED phase

\* _phase is assigned and the lock released.
EndSetPhase ==
    /\ ~LockFree
    /\ phase' = target
    /\ holder' = "nobody"
    /\ UNCHANGED <<io_allowed, target, no_budget, coll, waiter>>

-------------------------------------------------------------------------------
(* fsdp_comm_hook() and the hook of make_ddp_comm_hook(): the phase is set,*)
(* the all-reduce is launched, and a callback sets the phase when it ends. *)

HookEnter(c) ==
    /\ coll[c] = "new"
    /\ BeginSetPhase("trainer", "NCCL_COMM")
    /\ coll' = [coll EXCEPT ![c] = "launch"]

HookLaunch(c) ==
    /\ coll[c] = "launch"
    /\ coll' = [coll EXCEPT ![c] = "inflight"]
    /\ UNCHANGED <<phase, io_allowed, holder, target, no_budget, waiter>>

\* all_reduce() raises: no callback will set the phase back.
HookFails(c) ==
    /\ coll[c] = "launch"
    /\ coll' = [coll EXCEPT ![c] = "failed"]
    /\ UNCHANGED <<phase, io_allowed, holder, target, no_budget, waiter>>

InFlight == {c \in Collectives : coll[c] = "inflight"}

\* Seeded fault: only the last callback sets the phase, and it counts itself
\* among those in flight.
MarkDone_CountsItself(c) ==
    /\ coll[c] = "inflight"
    /\ IF InFlight = {}
       THEN BeginSetPhase(c, "COMPUTE")
       ELSE UNCHANGED <<phase, io_allowed, waiter, holder, target, no_budget>>
    /\ coll' = [coll EXCEPT ![c] = "done"]

\* The all-reduce has ended, or failed, and its callback calls set_phase(COMPUTE).
MarkDone(c) ==
    /\ coll[c] = "inflight"
    /\ BeginSetPhase(c, "COMPUTE")
    /\ coll' = [coll EXCEPT ![c] = "done"]

-------------------------------------------------------------------------------
(* wait_for_io_allowed()                                                   *)

CallWait ==
    /\ waiter = "call"
    /\ waiter' = IF io_allowed THEN "true" ELSE "waiting"
    /\ UNCHANGED <<phase, io_allowed, holder, target, no_budget, coll>>

WaitTimesOut ==
    /\ waiter = "waiting"
    /\ waiter' = "false"
    /\ UNCHANGED <<phase, io_allowed, holder, target, no_budget, coll>>

\* get_dynamic_flush_rate() is zero.
ZeroRate == phase = "NCCL_COMM" \/ no_budget

-------------------------------------------------------------------------------
MonitorTypeOK ==
    /\ phase \in TrainingPhase /\ target \in TrainingPhase
    /\ io_allowed \in BOOLEAN /\ no_budget \in BOOLEAN
    /\ holder \in {"nobody", "trainer"} \cup Collectives
    /\ coll \in [Collectives -> {"new", "launch", "inflight", "done", "failed"}]
    /\ waiter \in {"out", "call", "waiting", "true", "false"}

\* The Event is clear in NCCL phases and in no other, but for the two steps
\* of set_phase(): the flush thread is not left waiting on an Event that no
\* transition will set.
EventFollowsPhase ==
    /\ LockFree => (io_allowed <=> phase # "NCCL_COMM")
    /\ waiter = "waiting" => ~io_allowed
===============================================================================
