---------------------------- MODULE NexusCoordinator ----------------------------
(***************************************************************************)
(* tempo/nexus_coordinator.py: before a checkpoint the ranks exchange their *)
(* NIC load in one all-reduce and each takes the window that its place in   *)
(* the order of the loads gives it.  The all-reduce may raise on a rank,    *)
(* which goes on with what it knows itself.  Milliseconds are integers; the *)
(* windows do not overlap (overlap_fraction = 0, the default).              *)
(***************************************************************************)
EXTENDS Integers, Sequences, FiniteSets

CONSTANTS WorldSize,      \* world_size
          Loads,          \* GB/s that current_gbps() may report
          BaseWindow,     \* base_window_ms
          FlushTimes,     \* ms that the caller may measure
          MaxWindowRounds \* bound: checkpoints

ASSUME NexusAssumption ==
    /\ WorldSize \in Nat \ {0} /\ Loads \subseteq Nat /\ 0 \in Loads
    /\ BaseWindow \in Nat \ {0} /\ FlushTimes \subseteq Nat
    /\ MaxWindowRounds \in Nat

WorldRanks == 0..(WorldSize - 1)

VARIABLES
    monitor,   \* _nm was given
    given,     \* the load each rank gave to its all-reduces, in order
    ema,       \* _window_ms_ema
    rpc,       \* "idle", "gossip", "flush": where the rank is in checkpoint()
    win        \* history: the window of each rank and round

nexusVars == <<monitor, given, ema, rpc, win>>

CoordinatorInit(has_monitor) ==
    /\ monitor = has_monitor
    /\ given = [r \in WorldRanks |-> <<>>]
    /\ ema = [r \in WorldRanks |-> BaseWindow]
    /\ rpc = [r \in WorldRanks |-> "idle"]
    /\ win = [r \in WorldRanks |-> <<>>]

\* TEMPOSchedulerV5(): the attribute network_monitor that it hands over is one
\* that no scheduler has, so its ranks take their loads to be zero.
V5Init == CoordinatorInit(FALSE)

NexusInit == V5Init \/ CoordinatorInit(TRUE)

\* The gossip tensor of a rank: its own slot, or, after the MAX, everybody's.
Alone(r, k) == [q \in WorldRanks |-> IF q = r THEN given[r][k] ELSE 0]
Gossiped(k) == [q \in WorldRanks |-> given[q][k]]

\* Seeded fault: the place is the number of lower loads.
Position_Ties(r, loads) == Cardinality({q \in WorldRanks : loads[q] < loads[r]})

\* sorted() is stable: equal loads stay in the order of their ranks.
Before(q, r, loads) == loads[q] < loads[r] \/ (loads[q] = loads[r] /\ q < r)
Position(r, loads) == Cardinality({q \in WorldRanks : Before(q, r, loads)})

Window(r, loads, all) ==
    [delay |-> Position(r, loads) * ema[r], length |-> ema[r], agreed |-> all]

-------------------------------------------------------------------------------
\* compute_window(): measure, write the own slot, call all_reduce().
EnterGossip(r) ==
    /\ rpc[r] = "idle" /\ Len(given[r]) < MaxWindowRounds
    /\ \E load \in IF monitor THEN Loads ELSE {0} :
           given' = [given EXCEPT ![r] = Append(@, load)]
    /\ rpc' = [rpc EXCEPT ![r] = "gossip"]
    /\ UNCHANGED <<monitor, ema, win>>

\* all_reduce() returns: every rank has given its load of this round.
Gossip(r) ==
    LET k == Len(given[r])
    IN  /\ rpc[r] = "gossip" /\ \A q \in WorldRanks : Len(given[q]) >= k
        /\ win' = [win EXCEPT ![r] = Append(@, Window(r, Gossiped(k), TRUE))]
        /\ rpc' = [rpc EXCEPT ![r] = "flush"]
        /\ UNCHANGED <<monitor, given, ema>>

\* all_reduce() raises on this rank, or torch.distributed is not there.
GossipFails(r) ==
    /\ rpc[r] = "gossip"
    /\ win' = [win EXCEPT ![r] = Append(@, Window(r, Alone(r, Len(given[r])), FALSE))]
    /\ rpc' = [rpc EXCEPT ![r] = "flush"]
    /\ UNCHANGED <<monitor, given, ema>>

Clamp(ms) == IF ms < 50 THEN 50 ELSE IF ms > 2000 THEN 2000 ELSE ms

\* wait_for_window() has slept, the flush is done: record_flush_time().
RecordFlushTime(r) ==
    /\ rpc[r] = "flush"
    /\ \E ms \in FlushTimes : ema' = [ema EXCEPT ![r] = (Clamp(ms) + 3 * @) \div 4]
    /\ rpc' = [rpc EXCEPT ![r] = "idle"]
    /\ UNCHANGED <<monitor, given, win>>

\* The flush raises, as V4.checkpoint() does when V5 calls it: nothing is recorded.
FlushRaises(r) ==
    /\ rpc[r] = "flush"
    /\ rpc' = [rpc EXCEPT ![r] = "idle"]
    /\ UNCHANGED <<monitor, given, ema, win>>

NexusNext == \E r \in WorldRanks :
    EnterGossip(r) \/ Gossip(r) \/ GossipFails(r) \/ RecordFlushTime(r) \/ FlushRaises(r)

NexusSpec == NexusInit /\ [][NexusNext]_nexusVars

-------------------------------------------------------------------------------
Disjoint(v, w) == v.delay + v.length <= w.delay \/ w.delay + w.length <= v.delay

\* Two ranks whose all-reduce of a round succeeded have disjoint windows, if
\* they expect a flush to take equally long: equal loads, ranks that compute
\* their window rounds later and a failure elsewhere do not bring them together.
SlotsDisjoint ==
    \A q, r \in WorldRanks : \A k \in DOMAIN win[q] \cap DOMAIN win[r] :
        LET v == win[q][k]
            w == win[r][k]
        IN  q # r /\ v.agreed /\ w.agreed /\ v.length = w.length => Disjoint(v, w)
===============================================================================
