-------------------------- MODULE PacingDaemonProofs --------------------------
(***************************************************************************)
(* What TLAPS proves about the pacing engine, for any number of launching  *)
(* threads and blocks and every ring, bucket and submission queue.         *)
(***************************************************************************)
EXTENDS PacingDaemon, FiniteSetTheorems, TLAPS

\* What the two arguments need to know of types.
GateTypes ==
    /\ lpc \in [Launchers -> {"idle", "notify"}]
    /\ leaked \in Nat

\* The daemon has passed the gate and has not yet flushed a block.
PastGate == dpc \in {"drain", "bucket", "flush", "waitcqe", "again"}

\* Who is past the gate in an attention phase passed it before the phase
\* began, and nothing has been flushed since.  The wait that has seen an FFN
\* phase is past the gate as well; the daemon waits nowhere but at the gate.
GateInv ==
    StrictGate =>
        /\ leaked <= 1
        /\ wpc # "out" => dpc = "ffn"
        /\ (is_attention /\ (PastGate \/ wpc = "true")) => leaked = 0

LEMMA GateTypesHold == Spec => []GateTypes
<1>1. Init => GateTypes
  BY DEF Init, MonitorInit, GateTypes
<1>2. GateTypes /\ [Next]_vars => GateTypes'
  <2> SUFFICES ASSUME GateTypes, [Next]_vars PROVE GateTypes'
    OBVIOUS
  <2> USE DEF GateTypes, monitorVars
  <2>1. ASSUME NEW l \in Launchers, NEW p \in {"ATTENTION", "FFN"}, Launch(l, p)
        PROVE  GateTypes'
    BY <2>1 DEF Launch, SetPhase
  <2>2. ASSUME NEW l \in Launchers, LaunchNotify(l)
        PROVE  GateTypes'
    BY <2>2 DEF LaunchNotify, Notify
  <2>3. ASSUME NEW b \in Blocks, Absorb(b) \/ Complete(b)
        PROVE  GateTypes'
    BY <2>3 DEF Absorb, Complete
  <2>4. CASE Refill \/ StopCall \/ StopJoined
    BY <2>4 DEF Refill, StopCall, StopJoined
  <2>5. CASE Daemon
    <3>1. CASE GateWait
      BY <3>1 DEF GateWait, WaitForFfn, WaitFast, WaitLock, WaitPred, WaitBlock, WaitTimeout,
                  WaitSpurious, WaitRelock, WaitRelockLate, WaitLastPred, WaitStep
    <3>2. CASE FlushBlock
      BY <3>2 DEF FlushBlock
    <3>3. CASE OpenLustre \/ OpenFails \/ LoopTest \/ Gate \/ GateReturn
      BY <3>3 DEF OpenLustre, OpenFails, LoopTest, Gate, GateReturn
    <3>4. CASE DrainBlock \/ DrainNothing \/ Consume \/ PutBack \/ Pause
      BY <3>4 DEF DrainBlock, DrainNothing, Consume, PutBack, Pause
    <3>5. CASE FlushFull \/ FlushWaitCqe \/ FlushGiveUp \/ Collect \/ Reap
      BY <3>5 DEF FlushFull, FlushWaitCqe, FlushGiveUp, Collect, Reap
    <3>6. QED
      BY <2>5, <3>1, <3>2, <3>3, <3>4, <3>5 DEF Daemon
  <2>6. CASE UNCHANGED vars
    BY <2>6 DEF vars
  <2>7. QED
    BY <2>1, <2>2, <2>3, <2>4, <2>5, <2>6 DEF Next
<1>3. QED
  BY <1>1, <1>2, PTL DEF Spec

\* The daemon that found no FFN phase holds cv_mtx_ until it sleeps: from then
\* on, who opens an FFN window has yet to notify.
WakeInv ==
    (wpc \in {"block", "wait"} /\ is_ffn) => \E l \in Launchers : lpc[l] = "notify"

\* A wake-up is never lost between _set_phase() and wait_for_ffn(): the
\* daemon enters the wait set only on a predicate found false under cv_mtx_,
\* and a launcher that changes the phase behind it notifies later.
THEOREM WakeupsArrive == Spec => []NoLostWakeup
<1>1. Init => WakeInv
  BY DEF Init, MonitorInit, WakeInv
<1>2. GateTypes /\ WakeInv /\ [Next]_vars => WakeInv'
  <2> SUFFICES ASSUME GateTypes, WakeInv, [Next]_vars PROVE WakeInv'
    OBVIOUS
  <2> USE DEF WakeInv, is_ffn, GateTypes
  <2>1. ASSUME NEW l \in Launchers, NEW p \in {"ATTENTION", "FFN"}, Launch(l, p)
        PROVE  WakeInv'
    BY <2>1 DEF Launch, SetPhase
  <2>2. ASSUME NEW l \in Launchers, LaunchNotify(l)
        PROVE  WakeInv'
    BY <2>2 DEF LaunchNotify, Notify, CanNotify, MutexHeld
  <2>3. CASE GateWait
    BY <2>3 DEF GateWait, WaitForFfn, WaitFast, WaitLock, WaitPred, WaitBlock, WaitTimeout,
                WaitSpurious, WaitRelock, WaitRelockLate, WaitLastPred, WaitStep
  <2>4. CASE Gate \/ GateReturn
    BY <2>4 DEF Gate, GateReturn
  <2>5. ASSUME UNCHANGED monitorVars
        PROVE  WakeInv'
    BY <2>5 DEF monitorVars
  <2>6. ASSUME NEW b \in Blocks, Absorb(b) \/ Complete(b)
        PROVE  UNCHANGED monitorVars
    BY <2>6 DEF Absorb, Complete
  <2>7. CASE Refill \/ StopCall \/ StopJoined
    BY <2>7, <2>5 DEF Refill, StopCall, StopJoined
  <2>8. CASE OpenLustre \/ OpenFails \/ LoopTest \/ DrainBlock \/ DrainNothing \/ Consume
             \/ PutBack \/ Pause
    BY <2>8, <2>5 DEF OpenLustre, OpenFails, LoopTest, DrainBlock, DrainNothing, Consume,
                      PutBack, Pause
  <2>9. CASE FlushBlock \/ FlushFull \/ FlushWaitCqe \/ FlushGiveUp \/ Collect \/ Reap
    BY <2>9, <2>5 DEF FlushBlock, FlushFull, FlushWaitCqe, FlushGiveUp, Collect, Reap
  <2>10. CASE UNCHANGED vars
    BY <2>10, <2>5 DEF vars
  <2>11. QED
    BY <2>1, <2>2, <2>3, <2>4, <2>5, <2>6, <2>7, <2>8, <2>9, <2>10 DEF Next, Daemon
<1>3. WakeInv => NoLostWakeup
  BY DEF WakeInv, NoLostWakeup
<1>4. QED
  BY <1>1, <1>2, <1>3, GateTypesHold, PTL DEF Spec

\* Under the strict gate run_loop() flushes at most one block in any
\* attention window, however the launches interleave with it.
THEOREM OneBlockPerWindow == Spec => []AtMostOnePerWindow
<1>1. Init => GateInv
  BY DEF Init, MonitorInit, GateInv, PastGate
<1>2. GateTypes /\ GateInv /\ [Next]_vars => GateInv'
  <2> SUFFICES ASSUME GateTypes, GateInv, [Next]_vars, StrictGate
               PROVE  GateInv'
    BY DEF GateInv, GateTypes
  <2> USE DEF GateInv, PastGate, is_attention, is_ffn, GateTypes, Goto
  <2>1. ASSUME NEW l \in Launchers, NEW p \in {"ATTENTION", "FFN"}, Launch(l, p)
        PROVE  GateInv'
    BY <2>1 DEF Launch, SetPhase
  <2>2. ASSUME NEW l \in Launchers, LaunchNotify(l)
        PROVE  GateInv'
    BY <2>2 DEF LaunchNotify, Notify
  <2>3. CASE GateWait
    BY <2>3 DEF GateWait, WaitForFfn, WaitFast, WaitLock, WaitPred, WaitBlock, WaitTimeout,
                WaitSpurious, WaitRelock, WaitRelockLate, WaitLastPred, WaitStep
  <2>4. CASE Gate
    BY <2>4 DEF Gate, GateClosed
  <2>5. CASE GateReturn
    BY <2>5 DEF GateReturn, AfterWait
  <2>6. CASE FlushBlock
    BY <2>6 DEF FlushBlock, monitorVars
  <2>7. ASSUME UNCHANGED monitorVars, UNCHANGED leaked, PastGate' => PastGate,
               dpc = "ffn" => dpc' = "ffn"
        PROVE  GateInv'
    BY <2>7 DEF monitorVars
  <2>8. ASSUME NEW b \in Blocks, Absorb(b) \/ Complete(b)
        PROVE  UNCHANGED monitorVars /\ UNCHANGED leaked /\ UNCHANGED dpc
    BY <2>8 DEF Absorb, Complete
  <2>9. CASE Refill \/ StopCall \/ StopJoined
    BY <2>9, <2>7 DEF Refill, StopCall, StopJoined
  <2>10. CASE OpenLustre \/ OpenFails \/ LoopTest
    BY <2>10, <2>7 DEF OpenLustre, OpenFails, LoopTest
  <2>11. CASE DrainBlock \/ DrainNothing \/ Consume \/ PutBack \/ Pause
    BY <2>11, <2>7 DEF DrainBlock, DrainNothing, Consume, PutBack, Pause
  <2>12. CASE FlushFull \/ FlushWaitCqe \/ FlushGiveUp \/ Collect \/ Reap
    BY <2>12, <2>7 DEF FlushFull, FlushWaitCqe, FlushGiveUp, Collect, Reap
  <2>13. CASE UNCHANGED vars
    BY <2>13, <2>7 DEF vars
  <2>14. QED
    BY <2>1, <2>2, <2>3, <2>4, <2>5, <2>6, <2>7, <2>8, <2>9, <2>10, <2>11, <2>12,
       <2>13 DEF Next, Daemon
<1>3. GateInv => AtMostOnePerWindow
  BY DEF GateInv, AtMostOnePerWindow
<1>4. QED
  BY <1>1, <1>2, <1>3, GateTypesHold, PTL DEF Spec

\* The thread that clears running_ itself has ended, and only that one makes
\* stop() skip the join.
TeardownInv ==
    /\ running \in BOOLEAN
    /\ epc = "live" /\ ~running => dpc = "failed"
    /\ epc = "destroyed" => dpc \in {"done", "failed"}
    /\ epc = "terminated" => dpc = "failed"

\* ~TEMPOEngine() frees nothing that the daemon thread still uses, and
\* destroys a joinable thread only after open_lustre() threw, however stop()
\* falls into the loop.
THEOREM DestroyedAfterThread == Spec => []TeardownAfterThread
<1>1. Init => TeardownInv
  BY DEF Init, TeardownInv
<1>2. TeardownInv /\ [Next]_vars => TeardownInv'
  <2> SUFFICES ASSUME TeardownInv, [Next]_vars PROVE TeardownInv'
    OBVIOUS
  <2> USE DEF TeardownInv, Goto
  <2>1. CASE StopCall
    BY <2>1 DEF StopCall, WasRunning
  <2>2. CASE StopJoined
    BY <2>2 DEF StopJoined, CanClose, ThreadEnded
  <2>3. ASSUME NEW l \in Launchers, NEW p \in {"ATTENTION", "FFN"},
               Launch(l, p) \/ LaunchNotify(l)
        PROVE  TeardownInv'
    BY <2>3 DEF Launch, LaunchNotify
  <2>4. ASSUME NEW b \in Blocks, Absorb(b) \/ Complete(b)
        PROVE  TeardownInv'
    BY <2>4 DEF Absorb, Complete
  <2>5. CASE OpenLustre \/ OpenFails \/ LoopTest
    BY <2>5 DEF OpenLustre, OpenFails, LoopTest
  <2>6. CASE Gate \/ GateWait \/ GateReturn \/ Refill
    BY <2>6 DEF Gate, GateWait, GateReturn, Refill
  <2>7. CASE DrainBlock \/ DrainNothing \/ Consume \/ PutBack \/ Pause
    BY <2>7 DEF DrainBlock, DrainNothing, Consume, PutBack, Pause
  <2>8. CASE FlushBlock \/ FlushFull \/ FlushWaitCqe \/ FlushGiveUp \/ Collect \/ Reap
    BY <2>8 DEF FlushBlock, FlushFull, FlushWaitCqe, FlushGiveUp, Collect, Reap
  <2>9. CASE UNCHANGED vars
    BY <2>9 DEF vars
  <2>10. QED
    BY <2>1, <2>2, <2>3, <2>4, <2>5, <2>6, <2>7, <2>8, <2>9 DEF Next, Daemon
<1>3. TeardownInv => TeardownAfterThread
  BY DEF TeardownInv, TeardownAfterThread, ThreadEnded
<1>4. QED
  BY <1>1, <1>2, <1>3, PTL DEF Spec

\* What OnePlace needs to be inductive: the daemon has a block from drain() to
\* flush_block() and none elsewhere, and only accepted blocks are anywhere.
Distinct(q) == \A i, j \in DOMAIN q : i # j => q[i] # q[j]
In(b, q) == \E i \in DOMAIN q : q[i] = b

PlaceInv ==
    /\ queue \in Seq(Blocks) /\ Distinct(queue)
    /\ held \in Blocks \cup {NoBlock}
    /\ (held # NoBlock) <=> (dpc \in {"bucket", "flush", "waitcqe", "again"})
    /\ \A b \in Blocks : In(b, queue) \/ held = b \/ Flushed(b) => b \in accepted
    /\ \A b \in Blocks : In(b, queue) => held # b /\ ~Flushed(b)
    /\ \A b \in Blocks : held = b => ~Flushed(b)
    /\ \A b \in Blocks : b \in sq => b \notin inflight \cup settled

LEMMA AppendedBlock ==
    ASSUME NEW S, NEW q \in Seq(S), NEW b \in S, Distinct(q), ~In(b, q)
    PROVE  /\ Append(q, b) \in Seq(S) /\ Distinct(Append(q, b))
           /\ \A c : In(c, Append(q, b)) <=> (In(c, q) \/ c = b)
  BY DEF Distinct, In

LEMMA TakenBlock ==
    ASSUME NEW S, NEW q \in Seq(S), q # <<>>, Distinct(q)
    PROVE  /\ Tail(q) \in Seq(S) /\ Distinct(Tail(q)) /\ Head(q) \in S
           /\ ~In(Head(q), Tail(q)) /\ In(Head(q), q)
           /\ \A c : In(c, Tail(q)) => In(c, q)
<1>1. /\ Tail(q) \in Seq(S) /\ Head(q) \in S /\ Len(q) \in Nat \ {0} /\ DOMAIN q = 1..Len(q)
      /\ DOMAIN Tail(q) = 1..(Len(q) - 1) /\ Head(q) = q[1]
      /\ \A i \in DOMAIN Tail(q) : Tail(q)[i] = q[i + 1]
  OBVIOUS
<1>2. \A i \in DOMAIN Tail(q) : i + 1 \in DOMAIN q /\ i + 1 # 1 /\ 1 \in DOMAIN q
  BY <1>1
<1>3. Distinct(Tail(q))
  BY <1>1, <1>2 DEF Distinct
<1>4. ~In(Head(q), Tail(q)) /\ In(Head(q), q)
  BY <1>1, <1>2 DEF Distinct, In
<1>5. \A c : In(c, Tail(q)) => In(c, q)
  BY <1>1, <1>2 DEF In
<1>6. QED
  BY <1>1, <1>3, <1>4, <1>5

LEMMA PlaceHolds == Spec => []PlaceInv
<1>1. Init => PlaceInv
  BY PacingAssumption DEF Init, PlaceInv, Distinct, In, Flushed
<1>2. PlaceInv /\ [Next]_vars => PlaceInv'
  <2> SUFFICES ASSUME PlaceInv, [Next]_vars PROVE PlaceInv'
    OBVIOUS
  <2> USE PacingAssumption DEF Goto
  <2>1. ASSUME NEW b \in Blocks, Absorb(b)
        PROVE  PlaceInv'
    <3>1. ~In(b, queue) /\ held # b /\ ~Flushed(b)
      BY <2>1 DEF Absorb, PlaceInv
    <3>2. /\ queue' \in Seq(Blocks) /\ Distinct(queue')
          /\ \A c \in Blocks : In(c, queue') <=> (In(c, queue) \/ c = b)
      BY <2>1, <3>1, AppendedBlock DEF Absorb, PlaceInv
    <3>3. QED
      BY <2>1, <3>1, <3>2 DEF Absorb, PlaceInv, Flushed, uringVars
  <2>2. ASSUME NEW b \in Blocks, Complete(b)
        PROVE  PlaceInv'
    BY <2>2 DEF Complete, PlaceInv, Flushed, ringVars
  <2>3. CASE DrainBlock
    <3>1. /\ queue' \in Seq(Blocks) /\ Distinct(queue') /\ held' \in Blocks
          /\ ~In(held', queue') /\ In(held', queue)
          /\ \A c \in Blocks : In(c, queue') => In(c, queue)
      BY <2>3, TakenBlock DEF DrainBlock, PlaceInv
    <3>2. QED
      BY <2>3, <3>1 DEF DrainBlock, PlaceInv, Flushed, uringVars
  <2>4. CASE PutBack
    <3>1. held \in Blocks /\ ~In(held, queue) /\ ~Flushed(held)
      BY <2>4 DEF PutBack, PlaceInv
    <3>2. CASE queue' = queue
      BY <2>4, <3>1, <3>2 DEF PutBack, PlaceInv, Flushed, uringVars
    <3>3. CASE queue' = Append(queue, held)
      <4>1. /\ queue' \in Seq(Blocks) /\ Distinct(queue')
            /\ \A c \in Blocks : In(c, queue') <=> (In(c, queue) \/ c = held)
        BY <3>1, <3>3, AppendedBlock DEF PlaceInv
      <4>2. QED
        BY <2>4, <3>1, <4>1 DEF PutBack, PlaceInv, Flushed, uringVars
    <3>4. QED
      BY <2>4, <3>2, <3>3 DEF PutBack, Requeue
  <2>5. CASE FlushBlock
    <3>1. held \in Blocks /\ ~In(held, queue) /\ ~Flushed(held)
      BY <2>5 DEF FlushBlock, PlaceInv
    <3>2. QED
      BY <2>5, <3>1 DEF FlushBlock, Submit, PlaceInv, Flushed, ringVars
  <2>6. CASE FlushFull
    BY <2>6 DEF FlushFull, Submit, PlaceInv, Flushed, ringVars
  <2>7. CASE FlushGiveUp
    BY <2>7 DEF FlushGiveUp, PlaceInv, Flushed, ringVars, uringVars
  <2>8. ASSUME UNCHANGED <<queue, accepted, held, sq, inflight, settled>>,
               (dpc' \in {"bucket", "flush", "waitcqe", "again"})
                  <=> (dpc \in {"bucket", "flush", "waitcqe", "again"})
        PROVE  PlaceInv'
    BY <2>8 DEF PlaceInv, Flushed
  <2>9. ASSUME NEW l \in Launchers, NEW p \in {"ATTENTION", "FFN"},
               Launch(l, p) \/ LaunchNotify(l)
        PROVE  PlaceInv'
    BY <2>8, <2>9 DEF Launch, LaunchNotify, ringVars, uringVars
  <2>10. CASE Refill \/ StopCall \/ StopJoined
    BY <2>8, <2>10 DEF Refill, StopCall, StopJoined, ringVars, uringVars
  <2>11. CASE OpenLustre \/ OpenFails \/ LoopTest
    BY <2>8, <2>11 DEF OpenLustre, OpenFails, LoopTest, ringVars, uringVars
  <2>12. CASE Gate \/ GateWait \/ GateReturn
    BY <2>8, <2>12 DEF Gate, GateWait, GateReturn, AfterWait, ringVars, uringVars
  <2>13. CASE DrainNothing \/ Consume \/ Pause
    BY <2>8, <2>13 DEF DrainNothing, Consume, Pause, ringVars, uringVars
  <2>14. CASE FlushWaitCqe \/ Collect \/ Reap
    BY <2>8, <2>14 DEF FlushWaitCqe, Collect, Reap, ringVars, uringVars
  <2>15. CASE UNCHANGED vars
    BY <2>8, <2>15 DEF vars, ringVars, uringVars
  <2>16. QED
    BY <2>1, <2>2, <2>3, <2>4, <2>5, <2>6, <2>7, <2>9, <2>10, <2>11, <2>12, <2>13, <2>14,
       <2>15 DEF Next, Daemon
<1>3. QED
  BY <1>1, <1>2, PTL DEF Spec

\* A block is in the ring, with the daemon or with io_uring, and in one of them
\* only, though a refused block goes back to the ring and submissions fail.
THEOREM BlockInOnePlace == Spec => []OnePlace
<1>1. PlaceInv => OnePlace
  BY DEF PlaceInv, OnePlace, Distinct, In, Queued, Holding, Flushed
<1>2. QED
  BY <1>1, PlaceHolds, PTL

\* The entries prepared are counted, so they must be finitely many.
SqInv == IsFiniteSet(sq) /\ Cardinality(sq) <= UringDepth

LEMMA SqHolds == Spec => []SqInv
<1>1. IsFiniteSet({}) /\ Cardinality({}) = 0
  BY FS_EmptySet
<1>2. Init => SqInv
  BY <1>1, PacingAssumption DEF Init, SqInv
<1>3. SqInv /\ [Next]_vars => SqInv'
  <2> SUFFICES ASSUME SqInv, [Next]_vars PROVE SqInv'
    OBVIOUS
  <2>1. CASE UNCHANGED sq \/ sq' = {}
    BY <2>1, <1>1, PacingAssumption DEF SqInv
  <2>2. CASE FlushBlock
    <3>1. IsFiniteSet(sq \cup {held}) /\ Cardinality(sq \cup {held}) <= Cardinality(sq) + 1
      <4>1. IsFiniteSet(sq) /\ Cardinality(sq) \in Nat
        BY FS_CardinalityType DEF SqInv
      <4>2. /\ IsFiniteSet(sq \cup {held})
            /\ Cardinality(sq \cup {held}) = IF held \in sq THEN Cardinality(sq) ELSE Cardinality(sq) + 1
        BY <4>1, FS_AddElement
      <4>3. QED
        BY <4>1, <4>2
    <3>2. Cardinality(sq \cup {held}) <= UringDepth
      BY <2>2, <3>1, FS_CardinalityType, PacingAssumption DEF FlushBlock, HasSqe, SqInv
    <3>3. sq' = {} \/ sq' = sq \cup {held}
      BY <2>2 DEF FlushBlock, Submit
    <3>4. QED
      BY <2>1, <3>1, <3>2, <3>3 DEF SqInv
  <2>3. CASE FlushFull
    BY <2>1, <2>3 DEF FlushFull, Submit
  <2>4. CASE ~FlushBlock /\ ~FlushFull
    <3>1. UNCHANGED sq
      BY <2>4 DEF Next, Daemon, vars, uringVars, Launch, LaunchNotify, Absorb, Complete,
                  Refill, StopCall, StopJoined, OpenLustre, OpenFails, LoopTest, Gate,
                  GateWait, GateReturn, DrainBlock, DrainNothing, Consume, PutBack, Pause,
                  FlushWaitCqe, FlushGiveUp, Collect, Reap
    <3>2. QED
      BY <2>1, <3>1
  <2>5. QED
    BY <2>2, <2>3, <2>4
<1>4. QED
  BY <1>2, <1>3, PTL DEF Spec

\* What is left of TypeOK.
TypeInv ==
    /\ MonitorTypeOK
    /\ queue \in Seq(Blocks) /\ Len(queue) <= Capacity
    /\ accepted \subseteq Blocks
    /\ running \in BOOLEAN /\ dpc \in DState
    /\ held \in Blocks \cup {NoBlock}
    /\ tokens \in 0 .. Burst /\ overdrawn \in BOOLEAN
    /\ sq \subseteq Blocks
    /\ inflight \subseteq Blocks /\ cq \subseteq Blocks /\ settled \subseteq Blocks
    /\ errors \in 0 .. MaxSubmitErrors
    /\ leaked \in Nat
    /\ epc \in {"live", "stopping", "destroyed", "terminated"}

\* The engine keeps its types; the ring holds no more than its capacity, and the
\* submission queue no more entries than its depth when submissions fail.
THEOREM EngineTypes == Spec => []TypeOK
<1>1. Init => TypeInv
  <2>1. Init => MonitorTypeOK
    BY DEF Init, MonitorInit, MonitorTypeOK, Phase, WState
  <2>2. Init => queue \in Seq(Blocks) /\ Len(queue) <= Capacity
    BY PacingAssumption DEF Init
  <2>3. Init => tokens \in 0..Burst /\ errors \in 0..MaxSubmitErrors
    BY PacingAssumption DEF Init
  <2>4. Init => /\ accepted \subseteq Blocks /\ sq \subseteq Blocks /\ cq \subseteq Blocks
                /\ inflight \subseteq Blocks /\ settled \subseteq Blocks
    BY DEF Init
  <2>5. Init => /\ dpc \in DState /\ held \in Blocks \cup {NoBlock}
                /\ leaked \in Nat /\ epc \in {"live", "stopping", "destroyed", "terminated"}
    BY DEF Init, DState
  <2>6. Init => running \in BOOLEAN /\ overdrawn \in BOOLEAN
    BY Zenon DEF Init
  <2>7. QED
    BY <2>1, <2>2, <2>3, <2>4, <2>5, <2>6 DEF TypeInv
<1>2. TypeInv /\ PlaceInv /\ [Next]_vars => TypeInv'
  <2> SUFFICES ASSUME TypeInv, PlaceInv, [Next]_vars PROVE TypeInv'
    OBVIOUS
  <2> USE PacingAssumption DEF TypeInv, MonitorTypeOK, Goto, DState
  <2>1. ASSUME NEW l \in Launchers, NEW p \in {"ATTENTION", "FFN"}, Launch(l, p)
        PROVE  TypeInv'
    BY <2>1 DEF Launch, SetPhase, Phase, ringVars, bucketVars, uringVars
  <2>2. ASSUME NEW l \in Launchers, LaunchNotify(l)
        PROVE  TypeInv'
    BY <2>2 DEF LaunchNotify, Notify, WState, ringVars, bucketVars, uringVars
  <2>3. ASSUME NEW b \in Blocks, Absorb(b)
        PROVE  TypeInv'
    BY <2>3 DEF Absorb, monitorVars, bucketVars, uringVars
  <2>4. ASSUME NEW b \in Blocks, Complete(b)
        PROVE  TypeInv'
    BY <2>4 DEF Complete, monitorVars, ringVars, bucketVars
  <2>5. CASE Refill
    BY <2>5 DEF Refill, monitorVars, ringVars, uringVars
  <2>18. CASE StopCall
    BY <2>18 DEF StopCall, monitorVars, ringVars, bucketVars, uringVars
  <2>19. CASE StopJoined
    BY <2>19 DEF StopJoined, monitorVars, ringVars, bucketVars
  <2>6. CASE OpenLustre \/ OpenFails \/ LoopTest
    BY <2>6 DEF OpenLustre, OpenFails, LoopTest, monitorVars, ringVars, bucketVars, uringVars
  <2>7. CASE Gate \/ GateReturn
    BY <2>7 DEF Gate, GateReturn, AfterWait, WState, ringVars, bucketVars, uringVars
  <2>8. CASE GateWait
    <3>1. wpc' \in WState /\ UNCHANGED <<phase, lpc>>
      BY <2>8 DEF GateWait, WaitForFfn, WaitFast, WaitLock, WaitPred, WaitBlock, WaitTimeout,
                  WaitSpurious, WaitRelock, WaitRelockLate, WaitLastPred, WaitStep, WState
    <3>2. QED
      BY <2>8, <3>1 DEF GateWait, ringVars, bucketVars, uringVars
  <2>9. CASE DrainBlock
    <3>1. queue' \in Seq(Blocks) /\ Len(queue') <= Capacity /\ held' \in Blocks
      BY <2>9 DEF DrainBlock
    <3>2. QED
      BY <2>9, <3>1 DEF DrainBlock, monitorVars, bucketVars, uringVars
  <2>10. CASE DrainNothing \/ Pause
    BY <2>10 DEF DrainNothing, Pause, monitorVars, ringVars, bucketVars, uringVars
  <2>11. CASE Consume
    BY <2>11 DEF Consume, monitorVars, ringVars, uringVars
  <2>12. CASE PutBack
    <3>1. held \in Blocks
      BY <2>12 DEF PutBack, PlaceInv
    <3>2. queue' \in Seq(Blocks) /\ Len(queue') <= Capacity
      BY <2>12, <3>1 DEF PutBack, Requeue
    <3>3. QED
      BY <2>12, <3>2 DEF PutBack, monitorVars, bucketVars, uringVars
  <2>13. CASE FlushBlock
    <3>1. held \in Blocks
      BY <2>13 DEF FlushBlock, PlaceInv
    <3>2. /\ inflight' \subseteq Blocks /\ sq' \subseteq Blocks
          /\ errors' \in 0..MaxSubmitErrors
      BY <2>13, <3>1 DEF FlushBlock, Submit
    <3>3. QED
      BY <2>13, <3>2 DEF FlushBlock, monitorVars, ringVars, bucketVars
  <2>14. CASE FlushFull
    BY <2>14 DEF FlushFull, Submit, monitorVars, ringVars, bucketVars
  <2>15. CASE FlushWaitCqe \/ FlushGiveUp \/ Collect \/ Reap
    BY <2>15 DEF FlushWaitCqe, FlushGiveUp, Collect, Reap, monitorVars, ringVars, bucketVars,
                 uringVars
  <2>16. CASE UNCHANGED vars
    BY <2>16 DEF vars, monitorVars, ringVars, bucketVars, uringVars
  <2>17. QED
    BY <2>1, <2>2, <2>3, <2>4, <2>5, <2>6, <2>7, <2>8, <2>9, <2>10, <2>11, <2>12, <2>13, <2>14,
       <2>15, <2>16, <2>18, <2>19 DEF Next, Daemon
<1>3. TypeInv /\ SqInv => TypeOK
  BY DEF TypeInv, SqInv, TypeOK
<1>4. QED
  BY <1>1, <1>2, <1>3, PlaceHolds, SqHolds, PTL DEF Spec
===============================================================================
