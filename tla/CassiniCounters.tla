----------------------------- MODULE CassiniCounters -----------------------------
(***************************************************************************)
(* The congestion counters of the Cassini NICs: CassiniHWCounters of        *)
(* tempo/network_monitor.py polls them in a thread, through the C library   *)
(* of src/c_api/cassini_counters.c when it is there.  One counter per NIC   *)
(* stands for the four; they only grow.                                     *)
(***************************************************************************)
EXTENDS Integers, FiniteSets, Functions

CONSTANTS CxiNics,       \* n_nics, not zero
          MaxEvents       \* bound: the events of a counter

ASSUME CassiniAssumption == IsFiniteSet(CxiNics) /\ MaxEvents \in Nat

VARIABLES
    hw,             \* the counters
    c_lib,          \* _CASSINI_C_LIB was loaded
    fds,            \* its descriptors: "closed", "open"
    hw_stop,        \* _stop_evt
    hw_thread,      \* "none", "init", "test", "read", "ended"
    todo,           \* the NICs that this turn has still to read
    hw_prev,        \* _prev
    hw_total,       \* _total_retx
    flits,          \* the events of this turn
    hw_congested,   \* _congested
    base,           \* history: the value each counter was first compared with
    hw_owner        \* the thread that starts and stops it: "new", "up", "join", "down"

\* _load_cassini_c_lib(): the library is found and loads, or not.
LoadCassiniCLib == BOOLEAN

\* _detect_cxi_count(), and _available.
DetectCxiCount == Cardinality(CxiNics)
Available == DetectCxiCount > 0

cassiniVars == <<hw, c_lib, fds, hw_stop, hw_thread, todo, hw_prev, hw_total, flits,
                 hw_congested, base, hw_owner>>

CassiniInit ==
    /\ hw \in [CxiNics -> 0..MaxEvents] /\ c_lib \in LoadCassiniCLib
    /\ fds = "closed" /\ hw_stop = FALSE /\ hw_thread = "none" /\ todo = {}
    /\ hw_prev = [n \in CxiNics |-> 0] /\ base = [n \in CxiNics |-> 0]
    /\ hw_total = 0 /\ flits = 0 /\ hw_congested = FALSE /\ hw_owner = "new"

\* The NIC counts.
Count(n) ==
    /\ hw[n] < MaxEvents
    /\ hw' = [hw EXCEPT ![n] = @ + 1]
    /\ UNCHANGED <<c_lib, fds, hw_stop, hw_thread, todo, hw_prev, hw_total, flits,
                   hw_congested, base, hw_owner>>

\* start(): cassini_open_nic() for every NIC, then the thread.
HwStart ==
    /\ hw_owner = "new" /\ hw_owner' = "up" /\ Available
    /\ fds' = IF c_lib THEN "open" ELSE "closed"
    /\ hw_thread' = "init" /\ todo' = CxiNics
    /\ UNCHANGED <<hw, c_lib, hw_stop, hw_prev, hw_total, flits, hw_congested, base>>

-------------------------------------------------------------------------------
\* _read_cassini_counter(): a read fails when cassini_close_all() has closed the
\* descriptor, and may fail with or without the library.
NoReading == -1
ReadCassiniCounter(n) == IF c_lib /\ fds = "closed" THEN {NoReading} ELSE {hw[n], NoReading}

\* Seeded fault: a counter that cannot be read is zero.
Readings_Zero(n) == {IF val = NoReading THEN 0 ELSE val : val \in ReadCassiniCounter(n)}

\* _read_nic_counters(): a counter that cannot be read has its last value.
Readings(n) == {IF val = NoReading THEN hw_prev[n] ELSE val : val \in ReadCassiniCounter(n)}

\* _poll_loop(), the values to begin with.
PollInit(n) ==
    /\ hw_thread = "init" /\ n \in todo
    /\ \E val \in Readings(n) :
        /\ hw_prev' = [hw_prev EXCEPT ![n] = val]
        /\ base' = [base EXCEPT ![n] = val]
    /\ todo' = todo \ {n}
    /\ hw_thread' = IF todo' = {} THEN "test" ELSE "init"
    /\ UNCHANGED <<hw, c_lib, fds, hw_stop, hw_total, flits, hw_congested, hw_owner>>

PollLoopTest ==
    /\ hw_thread = "test"
    /\ hw_thread' = IF hw_stop THEN "ended" ELSE "read"
    /\ todo' = IF hw_stop THEN {} ELSE CxiNics
    /\ flits' = 0
    /\ UNCHANGED <<hw, c_lib, fds, hw_stop, hw_prev, hw_total, hw_congested, base, hw_owner>>

\* One NIC of a turn, under the lock; the last one settles the flag.
PollNic(n) ==
    /\ hw_thread = "read" /\ n \in todo
    /\ todo' = todo \ {n}
    /\ \E curr \in Readings(n) :
        LET delta == IF curr > hw_prev[n] THEN curr - hw_prev[n] ELSE 0
        IN  /\ hw_prev' = [hw_prev EXCEPT ![n] = curr]
            /\ hw_total' = hw_total + delta
            /\ flits' = flits + delta
            /\ hw_congested' = IF todo' = {} THEN flits + delta > 0 ELSE hw_congested
    /\ hw_thread' = IF todo' = {} THEN "test" ELSE "read"
    /\ UNCHANGED <<hw, c_lib, fds, hw_stop, base, hw_owner>>

-------------------------------------------------------------------------------
\* stop(), whose join() gives up after two seconds, and cassini_close_all().
HwStop ==
    /\ hw_owner = "up" /\ hw_owner' = "join"
    /\ hw_stop' = TRUE
    /\ UNCHANGED <<hw, c_lib, fds, hw_thread, todo, hw_prev, hw_total, flits, hw_congested, base>>

HwClose ==
    /\ hw_owner = "join" /\ hw_owner' = "down"
    /\ fds' = "closed"
    /\ UNCHANGED <<hw, c_lib, hw_stop, hw_thread, todo, hw_prev, hw_total, flits,
                   hw_congested, base>>

CassiniNext ==
    \/ HwStart \/ PollLoopTest \/ HwStop \/ HwClose
    \/ \E n \in CxiNics : Count(n) \/ PollInit(n) \/ PollNic(n)

CassiniSpec == CassiniInit /\ [][CassiniNext]_cassiniVars

-------------------------------------------------------------------------------
SumOver(f) == SumFunctionOnSet(f, CxiNics)

\* Every retransmission is counted once, whatever reads fail, and though the
\* library closes its descriptors under a late poll: the total is the way that
\* the counters have come since the thread began.
EventsCountedOnce ==
    hw_thread \notin {"none", "init"} => hw_total = SumOver(hw_prev) - SumOver(base)
===============================================================================
