---------------------------- MODULE NetworkMonitor ----------------------------
(***************************************************************************)
(* tempo/network_monitor.py, NetworkMonitor: a thread polls the counters of *)
(* the Slingshot NICs and opens or closes a gate by their average load.     *)
(* Averages are abstracted to the side of congestion_threshold they are on: *)
(* those of the rails, and that of their sum, which lags and may differ.    *)
(***************************************************************************)
EXTENDS Integers, FiniteSets

CONSTANT Rails     \* the NICs that a node may have

VARIABLES
    nics,          \* _nics; none is simulation mode
    sampled,       \* the rails with a sample to compare with
    busy,          \* the rails whose average is not below the threshold
    sim,           \* the side of _sim_bps
    congested,     \* the side of _total_bps_ema at the last poll
    gate,          \* the flag of _io_allowed_event
    net_stop,      \* _stop
    poller         \* the polling thread: "test", "poll", "ended"

netVars == <<nics, sampled, busy, sim, congested, gate, net_stop, poller>>

\* The hsn interfaces of the node, or none.
DiscoverSlingshotNics == {{}, Rails}

\* __init__()
NetInit ==
    /\ nics \in DiscoverSlingshotNics
    /\ sampled = {} /\ busy = {} /\ sim = FALSE /\ congested = FALSE /\ gate = TRUE

\* start()
NetStarted == net_stop = FALSE /\ poller = "test"

\* while not self._stop.is_set()
PollTest ==
    /\ poller = "test"
    /\ poller' = IF net_stop THEN "ended" ELSE "poll"
    /\ UNCHANGED <<nics, sampled, busy, sim, congested, gate, net_stop>>

\* _update_congestion_state(): closed or opened when the side has changed.
UpdateCongestionState(over) ==
    gate' = IF over /\ gate THEN FALSE ELSE IF ~over /\ ~gate THEN TRUE ELSE gate

\* _read_nic_bytes(): which rails have counters that can be read this time.
ReadNicBytes == SUBSET nics

\* _poll_one_nic(): the sides its average may be on.  A rail that cannot be read
\* keeps it, and the first sample of a rail says that it is idle.
PollOneNic(nic, readable) ==
    IF nic \notin readable THEN {nic \in busy}
    ELSE IF nic \in sampled THEN BOOLEAN ELSE {FALSE}

\* One turn of _poll_loop(), under the lock.
Poll ==
    /\ poller = "poll"
    /\ \E readable \in ReadNicBytes :
        /\ \E side \in [nics -> BOOLEAN] :
            /\ \A nic \in nics : side[nic] \in PollOneNic(nic, readable)
            /\ busy' = {nic \in nics : side[nic]}
        /\ sampled' = sampled \cup readable
    /\ congested' \in IF nics = {} THEN {congested, sim} ELSE BOOLEAN
    /\ UpdateCongestionState(congested')
    /\ poller' = "test"
    /\ UNCHANGED <<nics, sim, net_stop>>

\* set_simulated_bps(), which is for nodes in simulation mode.
SetSimulatedBps(over) ==
    /\ nics = {}
    /\ sim' = over
    /\ UpdateCongestionState(over)
    /\ UNCHANGED <<nics, sampled, busy, congested, net_stop, poller>>

\* stop() opens the gate, and joins the thread for one second.
NetStop ==
    /\ net_stop' = TRUE /\ gate' = TRUE
    /\ UNCHANGED <<nics, sampled, busy, sim, congested, poller>>

IsCongested == ~gate

\* per_rail_util(): the side of each rail.
PerRailUtil == [nic \in nics |-> nic \in busy]

\* count_idle_rails()
CountIdleRails ==
    IF nics = {} THEN 1 ELSE Cardinality({nic \in nics : ~PerRailUtil[nic]})
===============================================================================
