--------------------------- MODULE AttentionMonitor ---------------------------
(***************************************************************************)
(* src/attention_monitor: the GPU phase, set by the CUPTI callback on the  *)
(* threads that launch kernels, and wait_for_ffn(), called by the one      *)
(* daemon thread.  A launch whose kernel classifies as neither attention   *)
(* nor FFN leaves the phase alone and is left out, as are the two launch   *)
(* counters.                                                               *)
(***************************************************************************)
EXTENDS Integers, FiniteSets

CONSTANT Launchers   \* the threads that launch kernels

VARIABLES phase,     \* phase_
          lpc,       \* where each launcher stands in _set_phase()
          wpc        \* where the daemon stands in wait_for_ffn()

monitorVars == <<phase, lpc, wpc>>

Phase == {"UNKNOWN", "ATTENTION", "FFN"}

\* "out": not in the call; "call": at the fast path; "lock", "pred": before
\* and after taking cv_mtx_; "wait": in the wait set; "woken", "late": out of
\* it by a notification or by the deadline, cv_mtx_ not yet retaken;
\* "lastpred": the deadline passed and cv_mtx_ retaken; "true", "false": the
\* value returned.
WState == {"out", "call", "lock", "pred", "block", "wait", "woken", "late", "lastpred",
           "true", "false"}

MonitorInit ==
    /\ phase = "UNKNOWN"
    /\ lpc = [l \in Launchers |-> "idle"]
    /\ wpc = "out"

is_attention == phase = "ATTENTION"
is_ffn == phase = "FFN"

\* The daemon holds cv_mtx_ while it evaluates the predicate, and until it sleeps.
MutexHeld == wpc \in {"pred", "block", "lastpred"}

-------------------------------------------------------------------------------
(* _set_phase()                                                            *)

\* The exchange.  Only a change to FFN goes on to notify.
SetPhase(l, p) ==
    /\ lpc[l] = "idle"
    /\ phase' = p
    /\ lpc' = IF p = "FFN" /\ phase # p THEN [lpc EXCEPT ![l] = "notify"] ELSE lpc
    /\ UNCHANGED wpc

\* Seeded fault: notify_all() without the lock_guard.
CanNotify_Unlocked == TRUE
CanNotify == ~MutexHeld

\* lock_guard and notify_all().
Notify(l) ==
    /\ lpc[l] = "notify" /\ CanNotify
    /\ wpc' = IF wpc = "wait" THEN "woken" ELSE wpc
    /\ lpc' = [lpc EXCEPT ![l] = "idle"]
    /\ UNCHANGED phase

-------------------------------------------------------------------------------
(* wait_for_ffn()                                                          *)

WaitStep(here, there) ==
    /\ wpc = here
    /\ wpc' = there
    /\ UNCHANGED <<phase, lpc>>

WaitFast == WaitStep("call", IF is_ffn THEN "true" ELSE "lock")

WaitLock == WaitStep("lock", "pred")

WaitPred == WaitStep("pred", IF is_ffn THEN "true" ELSE "block")

\* Waiting releases cv_mtx_ and enters the wait set in one step.
WaitBlock == WaitStep("block", "wait")

\* The deadline, which ends the wait, or a spurious wake-up, which does not.
WaitTimeout == WaitStep("wait", "late")
WaitSpurious == WaitStep("wait", "woken")

WaitRelock == WaitStep("woken", "pred")
WaitRelockLate == WaitStep("late", "lastpred")

\* wait_until() with a predicate returns the predicate's last value.
WaitLastPred == WaitStep("lastpred", IF is_ffn THEN "true" ELSE "false")

WaitForFfn ==
    \/ WaitFast \/ WaitLock \/ WaitPred \/ WaitBlock \/ WaitTimeout
    \/ WaitSpurious \/ WaitRelock \/ WaitRelockLate \/ WaitLastPred

-------------------------------------------------------------------------------
MonitorTypeOK ==
    /\ phase \in Phase
    /\ lpc \in [Launchers -> {"idle", "notify"}]
    /\ wpc \in WState

\* No wake-up is lost: the daemon sleeps through an FFN window only while the
\* launcher that opened it is still on its way to notify_all().
NoLostWakeup ==
    (wpc = "wait" /\ is_ffn) => \E l \in Launchers : lpc[l] = "notify"
===============================================================================
