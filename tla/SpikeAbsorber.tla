---------------------------- MODULE SpikeAbsorber ----------------------------
(***************************************************************************)
(* The lock-free ring of src/spike_absorber: any number of producers call  *)
(* absorb(), one consumer thread calls drain().  Every action is one       *)
(* access to shared memory (or one run of accesses that no other thread    *)
(* can tell apart).                                                        *)
(*                                                                         *)
(* Memory order.  enqueue_pos_ is read relaxed, so a load may return any   *)
(* value not older than the last one its thread saw; pos[p] keeps that     *)
(* last value across calls.  slot.seq is written with release and read     *)
(* with acquire and is modelled as one coherent cell.  The 64-bit          *)
(* positions do not wrap within MaxCalls calls.  The eventfd that absorb() *)
(* writes is left out: drain() and the daemon never read it.               *)
(***************************************************************************)
EXTENDS Integers, Sequences

CONSTANTS Producers,  \* the threads that call absorb()
          Capacity,   \* CAPACITY, 2^14 in the code
          MaxCalls,   \* bound: calls of absorb() by one producer
          NoBlock     \* the content of a slot never written

\* One slot is not enough: "published for position q" and "free for position
\* q + Capacity" would be the same sequence number.
ASSUME CapacityAssumption == Capacity \in Nat /\ Capacity >= 2
ASSUME MaxCallsAssumption == MaxCalls \in Nat

VARIABLES
    enqueue_pos,     \* enqueue_pos_
    dequeue_pos,     \* dequeue_pos_
    seq,             \* ring_[i].seq
    blk,             \* ring_[i].blk
    absorbed_total, drained_total, overflow_drops,
    ppc,             \* where each producer stands in absorb()
    pos,             \* its local pos: the last enqueue_pos_ it saw
    calls,           \* how many calls it has made: names the block
    cpc,             \* where the consumer stands in drain()
    out,             \* drain()'s out parameter
    claimed          \* history: the block of every claimed position

ringVars == <<enqueue_pos, dequeue_pos, seq, blk>>
statVars == <<absorbed_total, drained_total, overflow_drops>>
prodVars == <<ppc, pos, calls>>
consVars == <<cpc, out>>
vars == <<ringVars, statVars, prodVars, consVars, claimed>>

-------------------------------------------------------------------------------
Slots == 0 .. Capacity - 1

Block == Producers \X (1 .. MaxCalls)

\* pos & MASK.
Index(q) == q % Capacity

\* The block of the call producer p is in.
Current(p) == <<p, calls[p]>>

Init ==
    /\ enqueue_pos = 0 /\ dequeue_pos = 0
    /\ seq = [i \in Slots |-> i]
    /\ blk = [i \in Slots |-> NoBlock]
    /\ absorbed_total = 0 /\ drained_total = 0 /\ overflow_drops = 0
    /\ ppc = [p \in Producers |-> "idle"]
    /\ pos = [p \in Producers |-> 0]
    /\ calls = [p \in Producers |-> 0]
    /\ cpc = "idle" /\ out = NoBlock
    /\ claimed = <<>>

-------------------------------------------------------------------------------
(* absorb(): the producer.                                                 *)

Goto(p, there) == ppc' = [ppc EXCEPT ![p] = there]

\* A relaxed load of enqueue_pos_ by p.
LoadEnqueuePos(p) ==
    \E v \in pos[p] .. enqueue_pos : pos' = [pos EXCEPT ![p] = v]

AbsorbCall(p) ==
    /\ ppc[p] = "idle" /\ calls[p] < MaxCalls
    /\ calls' = [calls EXCEPT ![p] = @ + 1]
    /\ LoadEnqueuePos(p)
    /\ Goto(p, "peek")
    /\ UNCHANGED <<ringVars, statVars, consVars, claimed>>

\* diff = slot.seq - pos: zero when the slot is free for position pos,
\* negative when the block a lap before it has not been drained.
Diff(p) == seq[Index(pos[p])] - pos[p]

\* Seeded fault: a slot whose block is not drained yet passes as free.
SlotIsFree_AnyLap(p) == Diff(p) <= 0
SlotIsFree(p) == Diff(p) = 0

PeekFree(p) ==
    /\ ppc[p] = "peek" /\ SlotIsFree(p)
    /\ Goto(p, "claim")
    /\ UNCHANGED <<ringVars, statVars, pos, calls, consVars, claimed>>

\* Seeded fault: a stale pos counts as a full ring.
SlotIsFull_OrStale(p) == Diff(p) # 0
SlotIsFull(p) == Diff(p) < 0

PeekFull(p) ==
    /\ ppc[p] = "peek" /\ SlotIsFull(p)
    /\ overflow_drops' = overflow_drops + 1
    /\ Goto(p, "idle")
    /\ UNCHANGED <<ringVars, absorbed_total, drained_total, pos, calls, consVars, claimed>>

PeekStale(p) ==
    /\ ppc[p] = "peek" /\ Diff(p) > 0
    /\ Goto(p, "reload")
    /\ UNCHANGED <<ringVars, statVars, pos, calls, consVars, claimed>>

Reload(p) ==
    /\ ppc[p] = "reload"
    /\ LoadEnqueuePos(p)
    /\ Goto(p, "peek")
    /\ UNCHANGED <<ringVars, statVars, calls, consVars, claimed>>

\* Seeded fault: a plain store in place of the compare-exchange.
CasMatches_Always(p) == TRUE
CasMatches(p) == enqueue_pos = pos[p]

\* The compare-exchange wins the position ...
ClaimWon(p) ==
    /\ ppc[p] = "claim" /\ CasMatches(p)
    /\ enqueue_pos' = pos[p] + 1
    /\ claimed' = Append(claimed, Current(p))
    /\ Goto(p, "write")
    /\ UNCHANGED <<dequeue_pos, seq, blk, statVars, pos, calls, consVars>>

\* ... or fails, spuriously or because another producer was first, and
\* leaves in pos the value it read.
ClaimLost(p) ==
    /\ ppc[p] = "claim"
    /\ \E v \in pos[p] .. enqueue_pos :
          /\ v = pos[p] <=> enqueue_pos = pos[p]
          /\ pos' = [pos EXCEPT ![p] = v]
    /\ Goto(p, "peek")
    /\ UNCHANGED <<ringVars, statVars, calls, consVars, claimed>>

Write(p) ==
    /\ ppc[p] = "write"
    /\ blk' = [blk EXCEPT ![Index(pos[p])] = Current(p)]
    /\ Goto(p, "publish")
    /\ UNCHANGED <<enqueue_pos, dequeue_pos, seq, statVars, pos, calls, consVars, claimed>>

\* Seeded fault: the sequence number of the free slot is stored again.
PublishedSeq_Free(q) == q
\* The sequence number that hands position q to the consumer.
PublishedSeq(q) == q + 1

Publish(p) ==
    /\ ppc[p] = "publish"
    /\ seq' = [seq EXCEPT ![Index(pos[p])] = PublishedSeq(pos[p])]
    /\ Goto(p, "count")
    /\ UNCHANGED <<enqueue_pos, dequeue_pos, blk, statVars, pos, calls, consVars, claimed>>

\* p itself made enqueue_pos_ pos + 1, the oldest value it can see next.
AbsorbReturn(p) ==
    /\ ppc[p] = "count"
    /\ absorbed_total' = absorbed_total + 1
    /\ pos' = [pos EXCEPT ![p] = @ + 1]
    /\ Goto(p, "idle")
    /\ UNCHANGED <<ringVars, drained_total, overflow_drops, calls, consVars, claimed>>

Absorb(p) ==
    \/ AbsorbCall(p) \/ PeekFree(p) \/ PeekFull(p) \/ PeekStale(p) \/ Reload(p)
    \/ ClaimWon(p) \/ ClaimLost(p) \/ Write(p) \/ Publish(p) \/ AbsorbReturn(p)

-------------------------------------------------------------------------------
(* drain(): the consumer, the only writer of dequeue_pos_.                 *)

\* Seeded fault: a claimed position passes as a published one.
HeadPublished_OrClaimed == seq[Index(dequeue_pos)] >= dequeue_pos
HeadPublished == seq[Index(dequeue_pos)] = dequeue_pos + 1

\* drain() returns false: the ring is empty, or the position at its head is
\* claimed and not yet published.
DrainEmpty ==
    /\ cpc = "idle" /\ ~HeadPublished
    /\ UNCHANGED vars

DrainPeek ==
    /\ cpc = "idle" /\ HeadPublished
    /\ cpc' = "copy"
    /\ UNCHANGED <<ringVars, statVars, prodVars, out, claimed>>

DrainCopy ==
    /\ cpc = "copy"
    /\ out' = blk[Index(dequeue_pos)]
    /\ cpc' = "free"
    /\ UNCHANGED <<ringVars, statVars, prodVars, claimed>>

\* Seeded fault: a lap back instead of a lap on.
FreedSeq_LapBack(q) == q - Capacity
\* The sequence number that frees the slot of position q for the next lap.
FreedSeq(q) == q + Capacity

DrainFree ==
    /\ cpc = "free"
    /\ seq' = [seq EXCEPT ![Index(dequeue_pos)] = FreedSeq(dequeue_pos)]
    /\ cpc' = "advance"
    /\ UNCHANGED <<enqueue_pos, dequeue_pos, blk, statVars, prodVars, out, claimed>>

\* dequeue_pos_ and drained_total_ are two stores of the same thread that
\* only metrics read.
DrainAdvance ==
    /\ cpc = "advance"
    /\ dequeue_pos' = dequeue_pos + 1
    /\ drained_total' = drained_total + 1
    /\ cpc' = "idle"
    /\ UNCHANGED <<enqueue_pos, seq, blk, absorbed_total, overflow_drops, prodVars, out, claimed>>

Drain == DrainPeek \/ DrainCopy \/ DrainFree \/ DrainAdvance

Next == (\E p \in Producers : Absorb(p)) \/ Drain \/ DrainEmpty

Spec == Init /\ [][Next]_vars

\* A producer inside absorb() and the daemon thread are not preempted for
\* ever.  Nothing obliges a producer to call.
Fairness ==
    /\ \A p \in Producers : WF_vars(Write(p)) /\ WF_vars(Publish(p))
    /\ WF_vars(Drain)

FairSpec == Spec /\ Fairness

-------------------------------------------------------------------------------
(* Properties.                                                             *)

PState == {"idle", "peek", "claim", "reload", "write", "publish", "count"}
CState == {"idle", "copy", "free", "advance"}

\* The type invariant; a producer inside absorb() is in a numbered call.
TypeOK ==
    /\ enqueue_pos \in Nat /\ dequeue_pos \in Nat
    /\ seq \in [Slots -> Nat]
    /\ blk \in [Slots -> Block \cup {NoBlock}]
    /\ absorbed_total \in Nat /\ drained_total \in Nat /\ overflow_drops \in Nat
    /\ ppc \in [Producers -> PState]
    /\ pos \in [Producers -> Nat]
    /\ calls \in [Producers -> 0 .. MaxCalls]
    /\ \A p \in Producers : ppc[p] # "idle" => calls[p] >= 1
    /\ cpc \in CState /\ out \in Block \cup {NoBlock}
    /\ claimed \in Seq(Block)

\* The number of positions whose slot the consumer has given back.
Freed == dequeue_pos + (IF cpc = "advance" THEN 1 ELSE 0)

Holds(p) == ppc[p] \in {"write", "publish"}

\* The inductive invariant.  Every live position lies in a window of one lap
\* that starts at the oldest slot not given back ...
Window ==
    /\ Len(claimed) = enqueue_pos
    /\ Freed <= enqueue_pos
    /\ enqueue_pos <= Freed + Capacity

\* ... where the slot of each position is free, claimed, or published with
\* the block that claimed it.
SlotOf(q) ==
    \/ seq[Index(q)] = q
    \/ /\ q < enqueue_pos
       /\ seq[Index(q)] = q + 1
       /\ blk[Index(q)] = claimed[q + 1]

SlotStates == \A q \in Freed .. Freed + Capacity - 1 : SlotOf(q)

\* A producer past its claim owns an unpublished position of the window.
ProducerState(p) ==
    /\ pos[p] <= enqueue_pos
    /\ (ppc[p] = "claim" /\ pos[p] = enqueue_pos) => seq[Index(pos[p])] = pos[p]
    /\ ppc[p] = "count" => pos[p] < enqueue_pos
    /\ Holds(p) => /\ Freed <= pos[p] /\ pos[p] < enqueue_pos
                   /\ seq[Index(pos[p])] = pos[p]
                   /\ claimed[pos[p] + 1] = Current(p)
    /\ ppc[p] = "publish" => blk[Index(pos[p])] = Current(p)

DistinctClaims ==
    \A p, q \in Producers : (p # q /\ Holds(p) /\ Holds(q)) => pos[p] # pos[q]

ConsumerState ==
    /\ cpc \in {"copy", "free"} =>
          dequeue_pos < enqueue_pos /\ seq[Index(dequeue_pos)] = dequeue_pos + 1
    /\ cpc \in {"free", "advance"} => out = claimed[dequeue_pos + 1]

RingInv ==
    /\ Window
    /\ SlotStates
    /\ \A p \in Producers : ProducerState(p)
    /\ DistinctClaims
    /\ ConsumerState

\* drain() hands over the block that claimed the position it stands at, so
\* every accepted block is delivered exactly once and in claim order,
\* whatever order the producers publish in.
DeliversInClaimOrder ==
    cpc \in {"free", "advance"} =>
        /\ dequeue_pos < Len(claimed)
        /\ out = claimed[dequeue_pos + 1]

\* The payload of a slot is plain memory: no two threads touch the same slot
\* at once (two producers a lap apart, or a producer and the consumer).
NoSlotRace ==
    /\ \A p, q \in Producers :
          (p # q /\ ppc[p] = "write" /\ ppc[q] = "write")
              => Index(pos[p]) # Index(pos[q])
    /\ \A p \in Producers :
          (ppc[p] = "write" /\ cpc = "copy") => Index(pos[p]) # Index(dequeue_pos)

\* The distance between the two positions, which size_approx() reports, can
\* exceed CAPACITY, but only by the one slot that drain() has given back
\* before it advances dequeue_pos_.
SizeApproxBound ==
    /\ dequeue_pos <= enqueue_pos
    /\ enqueue_pos - dequeue_pos <= Capacity + (IF cpc = "advance" THEN 1 ELSE 0)

\* The blocks accepted and not yet handed over, as BoundedFifo has them.
InRing == SubSeq(claimed, Freed + 1, Len(claimed))

Fifo == INSTANCE BoundedFifo
            WITH queue <- InRing, delivered <- Freed, refused <- overflow_drops

\* The ring implements the bounded queue: a claim is the acceptance, freeing
\* the slot is the delivery, and a block is refused only at an instant when
\* Capacity accepted blocks are still held.
ImplementsFifo == Fifo!Spec

\* A claimed position is drained in the end: a producer that publishes late
\* holds the consumer up, and does not make it skip the position or stop.
ClaimedIsDrained ==
    \A n \in 1 .. Capacity + 1 : Len(claimed) >= n ~> dequeue_pos >= n
===============================================================================
