------------------------- MODULE SpikeAbsorberProofs -------------------------
(***************************************************************************)
(* What TLAPS proves about the ring, for every set of producers, every     *)
(* capacity of at least two slots and every number of calls.               *)
(***************************************************************************)
EXTENDS SpikeAbsorber, SequenceTheorems, TLAPS

-------------------------------------------------------------------------------
(* Arithmetic of the slot index.                                           *)

LEMMA MultipleGap ==
    ASSUME NEW C \in Nat \ {0}, NEW x \in Int, NEW y \in Int, x > y
    PROVE  C * x >= C * y + C
<1>1. PICK d \in Nat : x = y + 1 + d
  <2>1. WITNESS x - y - 1 \in Nat
  <2>2. QED OBVIOUS
<1>2. C * x = C * y + C + C * d
  BY <1>1
<1>3. C * d >= 0
  OBVIOUS
<1>4. QED
  BY <1>2, <1>3

\* Two positions that share a slot are at least a lap apart.
LEMMA SameSlot ==
    ASSUME NEW C \in Nat \ {0}, NEW a \in Nat, NEW b \in Nat,
           a % C = b % C, a < b
    PROVE  b >= a + C
<1>1. a = C * (a \div C) + (a % C) /\ b = C * (b \div C) + (b % C)
  OBVIOUS
<1>2. a \div C \in Int /\ b \div C \in Int
  OBVIOUS
<1>3. b \div C > a \div C
  <2>1. SUFFICES ASSUME b \div C <= a \div C PROVE FALSE
    BY <1>2
  <2>2. CASE b \div C = a \div C
    BY <2>2, <1>1
  <2>3. CASE b \div C < a \div C
    <3>1. C * (a \div C) >= C * (b \div C) + C
      BY <2>3, <1>2, MultipleGap
    <3>2. QED
      BY <3>1, <1>1
  <2>4. QED
    BY <2>1, <2>2, <2>3, <1>2
<1>4. C * (b \div C) >= C * (a \div C) + C
  BY <1>3, <1>2, MultipleGap
<1>5. QED
  BY <1>1, <1>4

\* A lap later is the same slot.
LEMMA NextLap ==
    ASSUME NEW C \in Nat \ {0}, NEW a \in Nat
    PROVE  (a + C) % C = a % C
<1> DEFINE r == a % C
           s == (a + C) % C
           u == a \div C
           v == (a + C) \div C
<1>1. r \in 0 .. C - 1 /\ s \in 0 .. C - 1 /\ u \in Int /\ v \in Int
  OBVIOUS
<1>2. a = C * u + r /\ a + C = C * v + s
  OBVIOUS
<1> HIDE DEF r, s, u, v
<1>3. C * (u + 1) = C * u + C
  BY <1>1
<1>4. CASE v > u + 1
  <2>1. C * v >= C * (u + 1) + C
    BY <1>4, <1>1, MultipleGap
  <2>2. QED
    BY <2>1, <1>1, <1>2, <1>3
<1>5. CASE v < u + 1
  <2>1. C * (u + 1) >= C * v + C
    BY <1>5, <1>1, MultipleGap
  <2>2. QED
    BY <2>1, <1>1, <1>2, <1>3
<1>6. CASE v = u + 1
  BY <1>6, <1>1, <1>2, <1>3 DEF r, s
<1>7. QED
  BY <1>4, <1>5, <1>6, <1>1

\* The index of a position is a slot, is the position's own for the first
\* lap, and tells the positions of one lap apart.
LEMMA IndexFacts ==
    /\ \A q \in Nat : Index(q) \in Slots
    /\ \A q \in Slots : Index(q) = q
    /\ \A q \in Nat : Index(q + Capacity) = Index(q)
    /\ \A a, b \in Nat : (Index(a) = Index(b) /\ a < b) => b >= a + Capacity
<1> USE CapacityAssumption DEF Index, Slots
<1>1. Capacity \in Nat \ {0}
  OBVIOUS
<1>2. \A q \in Nat : Index(q) \in Slots
  OBVIOUS
<1>3. \A q \in Slots : Index(q) = q
  OBVIOUS
<1>4. \A q \in Nat : Index(q + Capacity) = Index(q)
  BY <1>1, NextLap
<1>5. \A a, b \in Nat : (Index(a) = Index(b) /\ a < b) => b >= a + Capacity
  BY <1>1, SameSlot
<1>6. QED
  BY <1>2, <1>3, <1>4, <1>5

-------------------------------------------------------------------------------
(* Types.                                                                  *)

\* The block of a call a producer is in is a block.
LEMMA CurrentIsBlock ==
    ASSUME TypeOK, NEW p \in Producers, calls[p] >= 1
    PROVE  Current(p) \in Block
  BY MaxCallsAssumption DEF TypeOK, Current, Block

\* Every variable of the ring keeps its type: positions and sequence numbers
\* stay natural numbers and slots hold blocks or nothing.
THEOREM TypeCorrect == Spec => []TypeOK
<1>1. Init => TypeOK
  BY CapacityAssumption, MaxCallsAssumption
     DEF Init, TypeOK, Slots, PState, CState
<1>2. TypeOK /\ [Next]_vars => TypeOK'
  <2> SUFFICES ASSUME TypeOK, [Next]_vars
               PROVE  TypeOK'
    OBVIOUS
  <2> USE DEF TypeOK, ringVars, statVars, prodVars, consVars,
              Goto, PState, CState
  <2>1. ASSUME NEW p \in Producers, AbsorbCall(p)
        PROVE  TypeOK'
    BY <2>1, MaxCallsAssumption DEF AbsorbCall, LoadEnqueuePos
  <2>2. ASSUME NEW p \in Producers, PeekFree(p)
        PROVE  TypeOK'
    BY <2>2 DEF PeekFree
  <2>3. ASSUME NEW p \in Producers, PeekFull(p)
        PROVE  TypeOK'
    BY <2>3 DEF PeekFull
  <2>4. ASSUME NEW p \in Producers, PeekStale(p)
        PROVE  TypeOK'
    BY <2>4 DEF PeekStale
  <2>5. ASSUME NEW p \in Producers, Reload(p)
        PROVE  TypeOK'
    BY <2>5 DEF Reload, LoadEnqueuePos
  <2>6. ASSUME NEW p \in Producers, ClaimWon(p)
        PROVE  TypeOK'
    <3>1. Current(p) \in Block
      BY <2>6, CurrentIsBlock DEF ClaimWon
    <3>2. QED
      BY <2>6, <3>1 DEF ClaimWon
  <2>7. ASSUME NEW p \in Producers, ClaimLost(p)
        PROVE  TypeOK'
    BY <2>7 DEF ClaimLost
  <2>8. ASSUME NEW p \in Producers, Write(p)
        PROVE  TypeOK'
    <3>1. Current(p) \in Block
      BY <2>8, CurrentIsBlock DEF Write
    <3>2. QED
      BY <2>8, <3>1 DEF Write
  <2>9. ASSUME NEW p \in Producers, Publish(p)
        PROVE  TypeOK'
    <3>1. pos[p] + 1 \in Nat /\ Index(pos[p]) \in Slots
      BY IndexFacts
    <3>2. seq' \in [Slots -> Nat]
      BY <2>9, <3>1 DEF Publish, PublishedSeq
    <3>3. QED
      BY <2>9, <3>2 DEF Publish
  <2>10. ASSUME NEW p \in Producers, AbsorbReturn(p)
         PROVE  TypeOK'
    BY <2>10 DEF AbsorbReturn
  <2>11. CASE DrainPeek
    BY <2>11 DEF DrainPeek
  <2>12. CASE DrainCopy
    BY <2>12, IndexFacts DEF DrainCopy
  <2>13. CASE DrainFree
    <3>1. FreedSeq(dequeue_pos) \in Nat /\ Index(dequeue_pos) \in Slots
      BY IndexFacts, CapacityAssumption DEF FreedSeq
    <3>2. seq' \in [Slots -> Nat]
      BY <2>13, <3>1 DEF DrainFree
    <3>3. QED
      BY <2>13, <3>2 DEF DrainFree
  <2>14. CASE DrainAdvance
    BY <2>14 DEF DrainAdvance
  <2>15. CASE UNCHANGED vars
    BY <2>15 DEF vars
  <2>16. QED
    BY <2>1, <2>2, <2>3, <2>4, <2>5, <2>6, <2>7, <2>8, <2>9, <2>10, <2>11,
       <2>12, <2>13, <2>14, <2>15
       DEF Next, Absorb, Drain, DrainEmpty
<1>3. QED
  BY <1>1, <1>2, PTL DEF Spec
-------------------------------------------------------------------------------
(* The inductive invariant.                                                *)

IInv == TypeOK /\ RingInv

LEMMA RingInit == Init => RingInv
<1> SUFFICES ASSUME Init PROVE RingInv
  OBVIOUS
<1> USE CapacityAssumption DEF Init
<1>1. Freed = 0
  BY DEF Freed
<1>2. Window
  BY <1>1 DEF Window
<1>3. SlotStates
  <2> SUFFICES ASSUME NEW q \in Freed .. Freed + Capacity - 1
               PROVE  SlotOf(q)
    BY DEF SlotStates
  <2>1. q \in Slots
    BY <1>1 DEF Slots
  <2>2. Index(q) = q /\ seq[q] = q
    BY <2>1, IndexFacts
  <2>3. QED
    BY <2>2 DEF SlotOf
<1>4. ASSUME NEW p \in Producers
      PROVE  ProducerState(p)
  <2>1. ppc[p] = "idle" /\ pos[p] = 0 /\ enqueue_pos = 0
    OBVIOUS
  <2>2. QED
    BY <2>1 DEF ProducerState, Holds
<1>5. DistinctClaims /\ ConsumerState
  BY DEF DistinctClaims, ConsumerState, Holds
<1>6. QED
  BY <1>2, <1>3, <1>4, <1>5 DEF RingInv

\* Two live positions, those of one window, that share a slot are the same.
LEMMA WindowSlot ==
    ASSUME NEW f \in Nat, NEW a \in f .. f + Capacity - 1,
           NEW b \in f .. f + Capacity - 1, Index(a) = Index(b)
    PROVE  a = b
  BY IndexFacts, CapacityAssumption

\* Where the producers and the consumer stand, in a form the steps use.
LEMMA LivePositions ==
    ASSUME IInv
    PROVE  /\ Freed \in Nat
           /\ Freed \in dequeue_pos .. dequeue_pos + 1
           /\ \A p \in Producers : Holds(p) => pos[p] \in Freed .. Freed + Capacity - 1
           /\ cpc \in {"copy", "free"} => dequeue_pos = Freed
<1> USE CapacityAssumption DEF IInv, TypeOK, RingInv
<1>1. Freed \in Nat /\ Freed \in dequeue_pos .. dequeue_pos + 1
  BY DEF Freed
<1>2. \A p \in Producers : Holds(p) => pos[p] \in Freed .. Freed + Capacity - 1
  BY <1>1 DEF ProducerState, Window
<1>3. cpc \in {"copy", "free"} => dequeue_pos = Freed
  BY DEF Freed
<1>4. QED
  BY <1>1, <1>2, <1>3

\* A step that changes neither the slots nor the two ends of the window
\* keeps what the invariant says of them.
LEMMA RingUnchanged ==
    ASSUME RingInv, UNCHANGED <<enqueue_pos, seq, blk, claimed>>, Freed' = Freed
    PROVE  Window' /\ SlotStates'
<1>1. Window'
  BY DEF RingInv, Window
<1>2. SlotStates'
  BY DEF RingInv, SlotStates, SlotOf
<1>3. QED
  BY <1>1, <1>2

\* Steps inside absorb() that touch nothing shared: the caller neither
\* gains nor loses a position.
LEMMA QuietProducerStep ==
    ASSUME IInv, TypeOK', NEW p \in Producers,
           UNCHANGED <<ringVars, consVars, claimed>>,
           \A r \in Producers \ {p} :
               ppc'[r] = ppc[r] /\ pos'[r] = pos[r] /\ calls'[r] = calls[r],
           ~Holds(p)', ppc'[p] # "count", pos'[p] <= enqueue_pos,
           (ppc'[p] = "claim" /\ pos'[p] = enqueue_pos) => seq[Index(pos'[p])] = pos'[p]
    PROVE  RingInv'
<1> USE DEF ringVars, consVars
<1>1. Freed' = Freed
  BY DEF Freed
<1>2. Window' /\ SlotStates'
  BY <1>1, RingUnchanged DEF IInv
<1>3. ProducerState(p)'
  BY DEF ProducerState, Holds
<1>4. ASSUME NEW r \in Producers \ {p}
      PROVE  ProducerState(r)'
  BY <1>1, <1>4 DEF IInv, RingInv, ProducerState, Holds, Current
<1>5. DistinctClaims'
  BY DEF IInv, RingInv, DistinctClaims, Holds
<1>6. ConsumerState'
  BY DEF IInv, RingInv, ConsumerState
<1>7. QED
  BY <1>2, <1>3, <1>4, <1>5, <1>6 DEF RingInv

\* The compare-exchange takes the position at the end of the window, whose
\* slot it saw free: with two slots or more, the window is not full.
LEMMA ClaimWonKeeps ==
    ASSUME IInv, TypeOK', NEW p \in Producers, ClaimWon(p)
    PROVE  RingInv'
<1> DEFINE e == enqueue_pos
<1> USE CapacityAssumption DEF IInv, ClaimWon, CasMatches, Goto, statVars, consVars
<1>1. /\ e \in Nat /\ Freed \in Nat /\ Freed' = Freed
      /\ pos[p] = e /\ enqueue_pos' = e + 1 /\ Len(claimed) = e
      /\ claimed \in Seq(Block) /\ Current(p) \in Block
  BY CurrentIsBlock, LivePositions DEF Freed, TypeOK, RingInv, Window
<1>2. seq[Index(e)] = e
  BY <1>1 DEF RingInv, ProducerState
<1>3. Freed <= e /\ e <= Freed + Capacity /\ e \in Nat /\ Freed \in Nat
  BY <1>1 DEF RingInv, Window
<1>4. e < Freed + Capacity
  <2> HIDE DEF e, ClaimWon, IInv
  <2>1. SUFFICES ASSUME ~(e < Freed + Capacity) PROVE FALSE
    OBVIOUS
  <2>2. e = Freed + Capacity
    BY <2>1, <1>3
  <2>3. Index(e) = Index(Freed)
    <3>1. Index(Freed + Capacity) = Index(Freed)
      BY <1>3, IndexFacts
    <3>2. QED
      BY <3>1, <2>2
  <2>4. SlotOf(Freed)
    BY <1>1 DEF IInv, RingInv, SlotStates
  <2>5. QED
    BY <2>2, <2>3, <2>4, <1>1, <1>2 DEF SlotOf
<1>5. /\ claimed' = Append(claimed, Current(p)) /\ Len(claimed') = e + 1
      /\ claimed'[e + 1] = Current(p)
      /\ \A i \in 1 .. e : claimed'[i] = claimed[i]
  BY <1>1
<1>6. Window'
  BY <1>1, <1>4, <1>5 DEF RingInv, Window
<1>7. SlotStates'
  <2> SUFFICES ASSUME NEW q \in Freed .. Freed + Capacity - 1
               PROVE  SlotOf(q)'
    BY <1>1 DEF SlotStates
  <2>1. SlotOf(q)
    BY DEF RingInv, SlotStates
  <2>2. CASE seq[Index(q)] = q
    BY <2>2 DEF SlotOf
  <2>3. CASE seq[Index(q)] = q + 1 /\ q < e /\ blk[Index(q)] = claimed[q + 1]
    BY <2>3, <1>1, <1>5 DEF SlotOf
  <2>4. QED
    BY <2>1, <2>2, <2>3 DEF SlotOf
<1>8. ASSUME NEW r \in Producers
      PROVE  ProducerState(r)'
  <2>1. CASE r = p
    <3>1. ppc'[p] = "write" /\ pos'[p] = e /\ calls' = calls
      BY <1>1 DEF TypeOK
    <3>2. Freed <= e
      BY DEF RingInv, Window
    <3>3. QED
      BY <2>1, <3>1, <3>2, <1>1, <1>2, <1>5 DEF ProducerState, Holds, Current
  <2>2. CASE r # p
    <3>1. ppc'[r] = ppc[r] /\ pos'[r] = pos[r] /\ calls' = calls /\ pos[r] \in Nat
      BY <2>2 DEF TypeOK
    <3>2. ProducerState(r)
      BY DEF RingInv
    <3>3. pos[r] <= e /\ (Holds(r) => claimed'[pos[r] + 1] = claimed[pos[r] + 1])
      BY <3>1, <3>2, <1>1, <1>5 DEF ProducerState
    <3>4. QED
      BY <3>1, <3>2, <3>3, <1>1 DEF ProducerState, Holds, Current
  <2>3. QED
    BY <2>1, <2>2
<1>9. DistinctClaims'
  <2> SUFFICES ASSUME NEW a \in Producers, NEW b \in Producers, a # b,
                      Holds(a)', Holds(b)'
               PROVE  pos[a] # pos[b]
    BY DEF DistinctClaims
  <2>1. \A r \in Producers : (r # p /\ Holds(r)') => Holds(r) /\ pos[r] < e
    BY DEF Holds, TypeOK, RingInv, ProducerState
  <2>2. QED
    BY <2>1, <1>1 DEF RingInv, DistinctClaims, TypeOK
<1>10. ConsumerState'
  <2>1. cpc \in {"free", "advance"} => dequeue_pos < e
    BY DEF RingInv, ConsumerState, Window, Freed, TypeOK
  <2>2. dequeue_pos \in Nat
    BY DEF TypeOK
  <2>3. QED
    BY <2>1, <2>2, <1>1, <1>5 DEF RingInv, ConsumerState
<1>11. QED
  BY <1>6, <1>7, <1>8, <1>9, <1>10 DEF RingInv

\* Writing a payload touches no slot but the writer's own, unpublished one.
LEMMA WriteKeeps ==
    ASSUME IInv, TypeOK', NEW p \in Producers, Write(p)
    PROVE  RingInv'
<1> USE CapacityAssumption DEF Write, Goto, statVars, consVars
<1>1. Freed' = Freed /\ Freed \in Nat
  BY LivePositions DEF Freed
<1>2. Holds(p) /\ pos[p] \in Freed .. Freed + Capacity - 1 /\ seq[Index(pos[p])] = pos[p]
  BY LivePositions DEF Holds, IInv, RingInv, ProducerState
<1>3. /\ Index(pos[p]) \in Slots
      /\ blk'[Index(pos[p])] = Current(p)
      /\ \A i \in Slots : i # Index(pos[p]) => blk'[i] = blk[i]
  BY IndexFacts DEF IInv, TypeOK
<1>4. Window'
  BY <1>1 DEF IInv, RingInv, Window
<1>5. SlotStates'
  <2> SUFFICES ASSUME NEW q \in Freed .. Freed + Capacity - 1
               PROVE  SlotOf(q)'
    BY <1>1 DEF SlotStates
  <2>1. SlotOf(q) /\ q \in Nat /\ Index(q) \in Slots
    BY <1>1, IndexFacts DEF IInv, RingInv, SlotStates
  <2>2. CASE q = pos[p]
    BY <2>2, <1>2 DEF SlotOf
  <2>3. CASE q # pos[p]
    <3>1. Index(q) # Index(pos[p])
      BY <2>3, <1>1, <1>2, WindowSlot
    <3>2. QED
      BY <3>1, <2>1, <1>3 DEF SlotOf
  <2>4. QED
    BY <2>2, <2>3
<1>6. ASSUME NEW r \in Producers
      PROVE  ProducerState(r)'
  <2>1. CASE r = p
    <3>1. ppc'[p] = "publish" /\ ppc[p] = "write"
      BY DEF IInv, TypeOK
    <3>2. QED
      BY <2>1, <3>1, <1>1, <1>3 DEF IInv, RingInv, ProducerState, Holds, Current
  <2>2. CASE r # p
    <3>1. ppc'[r] = ppc[r] /\ ProducerState(r)
      BY <2>2 DEF IInv, TypeOK, RingInv
    <3>2. ppc[r] = "publish" => blk'[Index(pos[r])] = blk[Index(pos[r])]
      <4> SUFFICES ASSUME ppc[r] = "publish"
                   PROVE  Index(pos[r]) # Index(pos[p]) /\ Index(pos[r]) \in Slots
        BY <1>3
      <4>1. pos[r] # pos[p] /\ pos[r] \in Freed .. Freed + Capacity - 1
        BY <2>2, <1>2, LivePositions DEF Holds, IInv, RingInv, DistinctClaims
      <4>2. QED
        BY <4>1, <1>1, <1>2, WindowSlot, IndexFacts
    <3>3. QED
      BY <3>1, <3>2, <1>1 DEF ProducerState, Holds, Current
  <2>3. QED
    BY <2>1, <2>2
<1>7. DistinctClaims'
  <2>1. \A r \in Producers : Holds(r)' => Holds(r)
    BY <1>2 DEF Holds, IInv, TypeOK
  <2>2. QED
    BY <2>1 DEF IInv, RingInv, DistinctClaims
<1>8. ConsumerState'
  BY DEF IInv, RingInv, ConsumerState
<1>9. QED
  BY <1>4, <1>5, <1>6, <1>7, <1>8 DEF RingInv

\* Publishing turns the writer's own slot over to the consumer; no other
\* live position shares that slot.
LEMMA PublishKeeps ==
    ASSUME IInv, TypeOK', NEW p \in Producers, Publish(p)
    PROVE  RingInv'
<1> USE CapacityAssumption DEF Publish, PublishedSeq, Goto, statVars, consVars
<1>1. Freed' = Freed /\ Freed \in Nat
  BY LivePositions DEF Freed
<1>2. /\ pos[p] \in Freed .. Freed + Capacity - 1 /\ pos[p] < enqueue_pos
      /\ seq[Index(pos[p])] = pos[p] /\ pos[p] \in Nat /\ enqueue_pos \in Nat
      /\ blk[Index(pos[p])] = claimed[pos[p] + 1]
  BY LivePositions DEF Holds, IInv, TypeOK, RingInv, ProducerState
<1>3. /\ Index(pos[p]) \in Slots
      /\ seq'[Index(pos[p])] = pos[p] + 1
      /\ \A i \in Slots : i # Index(pos[p]) => seq'[i] = seq[i]
  BY <1>2, IndexFacts DEF IInv, TypeOK
<1>4. \A q \in Freed .. Freed + Capacity - 1 :
         q # pos[p] => seq'[Index(q)] = seq[Index(q)]
  BY <1>1, <1>2, <1>3, WindowSlot, IndexFacts
<1>5. Window'
  BY <1>1 DEF IInv, RingInv, Window
<1>6. SlotStates'
  <2> SUFFICES ASSUME NEW q \in Freed .. Freed + Capacity - 1
               PROVE  SlotOf(q)'
    BY <1>1 DEF SlotStates
  <2>1. CASE q = pos[p]
    BY <2>1, <1>2, <1>3 DEF SlotOf
  <2>2. CASE q # pos[p]
    <3>1. SlotOf(q)
      BY DEF IInv, RingInv, SlotStates
    <3>2. QED
      BY <2>2, <3>1, <1>4 DEF SlotOf
  <2>3. QED
    BY <2>1, <2>2
<1>7. ASSUME NEW r \in Producers
      PROVE  ProducerState(r)'
  <2>1. CASE r = p
    <3>1. ppc'[p] = "count"
      BY DEF IInv, TypeOK
    <3>2. QED
      BY <2>1, <3>1, <1>2 DEF ProducerState, Holds
  <2>2. CASE r # p
    <3>1. ppc'[r] = ppc[r] /\ ProducerState(r) /\ pos[r] \in Nat
      BY <2>2 DEF IInv, TypeOK, RingInv
    <3>2. Holds(r) => seq'[Index(pos[r])] = seq[Index(pos[r])]
      BY <2>2, <1>4, LivePositions DEF Holds, IInv, RingInv, DistinctClaims
    <3>3. (ppc[r] = "claim" /\ pos[r] = enqueue_pos)
             => seq'[Index(pos[r])] = seq[Index(pos[r])]
      BY <3>1, <1>2, <1>3, IndexFacts DEF ProducerState
    <3>4. QED
      BY <3>1, <3>2, <3>3, <1>1 DEF ProducerState, Holds, Current
  <2>3. QED
    BY <2>1, <2>2
<1>8. DistinctClaims'
  <2>1. \A r \in Producers : Holds(r)' => Holds(r)
    BY DEF Holds, IInv, TypeOK
  <2>2. QED
    BY <2>1 DEF IInv, RingInv, DistinctClaims
<1>9. ConsumerState'
  <2>1. cpc \in {"copy", "free"} => dequeue_pos # pos[p] /\ dequeue_pos = Freed
    BY <1>2, LivePositions DEF IInv, RingInv, ConsumerState
  <2>2. cpc \in {"copy", "free"} => seq'[Index(dequeue_pos)] = seq[Index(dequeue_pos)]
    BY <2>1, <1>1, <1>4
  <2>3. QED
    BY <2>2 DEF IInv, RingInv, ConsumerState
<1>10. QED
  BY <1>5, <1>6, <1>7, <1>8, <1>9 DEF RingInv

LEMMA AbsorbReturnKeeps ==
    ASSUME IInv, TypeOK', NEW p \in Producers, AbsorbReturn(p)
    PROVE  RingInv'
<1> USE DEF AbsorbReturn, Goto
<1>1. pos'[p] <= enqueue_pos /\ ppc'[p] = "idle"
  BY DEF IInv, TypeOK, RingInv, ProducerState
<1>2. UNCHANGED <<ringVars, consVars, claimed>>
  BY DEF ringVars, consVars
<1>3. \A r \in Producers \ {p} :
         ppc'[r] = ppc[r] /\ pos'[r] = pos[r] /\ calls'[r] = calls[r]
  BY DEF IInv, TypeOK
<1>4. QED
  BY <1>1, <1>2, <1>3, QuietProducerStep DEF Holds

-------------------------------------------------------------------------------
(* The consumer.                                                           *)

\* A published head is a claimed position: had nobody claimed it, its slot
\* would still carry the position itself.
LEMMA DrainPeekKeeps ==
    ASSUME IInv, TypeOK', DrainPeek
    PROVE  RingInv'
<1> USE CapacityAssumption DEF DrainPeek, ringVars, prodVars
<1>1. Freed' = Freed /\ Freed = dequeue_pos /\ dequeue_pos \in Nat
  BY DEF Freed, IInv, TypeOK
<1>2. Window' /\ SlotStates'
  BY <1>1, RingUnchanged DEF IInv
<1>3. \A r \in Producers : ProducerState(r)'
  BY <1>1 DEF IInv, RingInv, ProducerState, Holds, Current
<1>4. DistinctClaims'
  BY DEF IInv, RingInv, DistinctClaims, Holds
<1>5. dequeue_pos < enqueue_pos
  <2>1. SlotOf(dequeue_pos)
    BY <1>1 DEF IInv, RingInv, SlotStates
  <2>2. QED
    BY <2>1, <1>1 DEF SlotOf, HeadPublished
<1>6. ConsumerState'
  BY <1>5 DEF ConsumerState, HeadPublished
<1>7. QED
  BY <1>2, <1>3, <1>4, <1>6 DEF RingInv

\* What is copied is the block that claimed the position.
LEMMA DrainCopyKeeps ==
    ASSUME IInv, TypeOK', DrainCopy
    PROVE  RingInv'
<1> USE CapacityAssumption DEF DrainCopy, ringVars, prodVars
<1>1. Freed' = Freed /\ Freed = dequeue_pos /\ dequeue_pos \in Nat
  BY DEF Freed, IInv, TypeOK
<1>2. Window' /\ SlotStates'
  BY <1>1, RingUnchanged DEF IInv
<1>3. \A r \in Producers : ProducerState(r)'
  BY <1>1 DEF IInv, RingInv, ProducerState, Holds, Current
<1>4. DistinctClaims'
  BY DEF IInv, RingInv, DistinctClaims, Holds
<1>5. blk[Index(dequeue_pos)] = claimed[dequeue_pos + 1]
  <2>1. SlotOf(dequeue_pos)
    BY <1>1 DEF IInv, RingInv, SlotStates
  <2>2. seq[Index(dequeue_pos)] = dequeue_pos + 1
    BY DEF IInv, RingInv, ConsumerState
  <2>3. QED
    BY <2>1, <2>2, <1>1 DEF SlotOf
<1>6. ConsumerState'
  BY <1>5 DEF IInv, RingInv, ConsumerState
<1>7. QED
  BY <1>2, <1>3, <1>4, <1>6 DEF RingInv

\* Giving the slot back moves the window one position on: the slot that
\* leaves it at the old end is the slot that enters it at the new one.
LEMMA DrainFreeKeeps ==
    ASSUME IInv, TypeOK', DrainFree
    PROVE  RingInv'
<1> DEFINE d == dequeue_pos
<1> USE CapacityAssumption DEF DrainFree, FreedSeq, statVars, prodVars
<1>1. d \in Nat /\ Freed = d /\ Freed' = d + 1 /\ enqueue_pos \in Nat
  BY DEF Freed, IInv, TypeOK
<1>2. d < enqueue_pos /\ seq[Index(d)] = d + 1 /\ out = claimed[d + 1]
  BY DEF IInv, RingInv, ConsumerState
<1>3. /\ Index(d) \in Slots
      /\ seq'[Index(d)] = d + Capacity
      /\ \A i \in Slots : i # Index(d) => seq'[i] = seq[i]
  BY <1>1, IndexFacts DEF IInv, TypeOK
<1>4. \A q \in d + 1 .. d + Capacity - 1 :
         q \in Nat /\ Index(q) # Index(d) /\ seq'[Index(q)] = seq[Index(q)]
  BY <1>1, <1>3, IndexFacts
<1>5. Window'
  BY <1>1, <1>2 DEF IInv, RingInv, Window
<1>6. SlotStates'
  <2> SUFFICES ASSUME NEW q \in d + 1 .. d + Capacity
               PROVE  SlotOf(q)'
    BY <1>1 DEF SlotStates
  <2>1. CASE q = d + Capacity
    <3>1. Index(q) = Index(d)
      BY <2>1, <1>1, IndexFacts
    <3>2. QED
      BY <2>1, <3>1, <1>3 DEF SlotOf
  <2>2. CASE q # d + Capacity
    <3>1. q \in d + 1 .. d + Capacity - 1
      BY <2>2, <1>1
    <3>2. SlotOf(q)
      BY <3>1, <1>1 DEF IInv, RingInv, SlotStates
    <3>3. QED
      BY <3>1, <3>2, <1>4 DEF SlotOf
  <2>3. QED
    BY <2>1, <2>2
<1>7. ASSUME NEW r \in Producers
      PROVE  ProducerState(r)'
  <2>1. ProducerState(r) /\ pos[r] \in Nat
    BY DEF IInv, TypeOK, RingInv
  <2>2. Holds(r) => pos[r] \in d + 1 .. d + Capacity - 1
    BY <2>1, <1>1, <1>2, LivePositions DEF ProducerState
  <2>3. (ppc[r] = "claim" /\ pos[r] = enqueue_pos)
           => seq'[Index(pos[r])] = seq[Index(pos[r])]
    <3> SUFFICES ASSUME ppc[r] = "claim", pos[r] = enqueue_pos
                 PROVE  Index(pos[r]) # Index(d) /\ Index(pos[r]) \in Slots
      BY <1>3
    <3>1. seq[Index(pos[r])] = pos[r]
      BY <2>1 DEF ProducerState
    <3>2. pos[r] >= d + Capacity \/ Index(pos[r]) # Index(d)
      BY <2>1, <1>1, <1>2, IndexFacts
    <3>3. QED
      BY <3>1, <3>2, <2>1, <1>1, <1>2, IndexFacts
  <2>4. QED
    BY <2>1, <2>2, <2>3, <1>1, <1>4 DEF ProducerState, Holds, Current
<1>8. DistinctClaims'
  BY DEF IInv, RingInv, DistinctClaims, Holds
<1>9. ConsumerState'
  BY <1>2 DEF ConsumerState
<1>10. QED
  BY <1>5, <1>6, <1>7, <1>8, <1>9 DEF RingInv

LEMMA DrainAdvanceKeeps ==
    ASSUME IInv, TypeOK', DrainAdvance
    PROVE  RingInv'
<1> USE DEF DrainAdvance, prodVars
<1>1. Freed' = Freed /\ Freed \in Nat
  BY DEF Freed, IInv, TypeOK
<1>2. Window' /\ SlotStates'
  BY <1>1, RingUnchanged DEF IInv
<1>3. \A r \in Producers : ProducerState(r)'
  BY <1>1 DEF IInv, RingInv, ProducerState, Holds, Current
<1>4. DistinctClaims'
  BY DEF IInv, RingInv, DistinctClaims, Holds
<1>5. ConsumerState'
  BY DEF ConsumerState
<1>6. QED
  BY <1>2, <1>3, <1>4, <1>5 DEF RingInv

-------------------------------------------------------------------------------
(* The theorems.                                                           *)

\* The ring's invariant: in every reachable state each live position has its
\* own slot, which is free, claimed by one producer, or published with the
\* block that claimed it (absorb() and drain() of absorber.cpp together).
THEOREM RingCorrect == Spec => []RingInv
<1>1. Init => RingInv
  BY RingInit
<1>2. TypeOK /\ TypeOK' /\ RingInv /\ [Next]_vars => RingInv'
  <2> SUFFICES ASSUME TypeOK, TypeOK', RingInv, [Next]_vars
               PROVE  RingInv'
    OBVIOUS
  <2>1. IInv
    BY DEF IInv
  <2>2. ASSUME NEW p \in Producers,
               AbsorbCall(p) \/ PeekFree(p) \/ PeekFull(p) \/ PeekStale(p)
                  \/ Reload(p) \/ ClaimLost(p)
        PROVE  RingInv'
    <3>1. UNCHANGED <<ringVars, consVars, claimed>>
      BY <2>2 DEF AbsorbCall, PeekFree, PeekFull, PeekStale, Reload, ClaimLost,
                  ringVars, consVars
    <3>2. /\ \A r \in Producers \ {p} :
                ppc'[r] = ppc[r] /\ pos'[r] = pos[r] /\ calls'[r] = calls[r]
          /\ ppc'[p] \in {"peek", "claim", "idle", "reload"}
          /\ pos'[p] \in pos[p] .. enqueue_pos
          /\ ppc'[p] = "claim" => seq[Index(pos'[p])] = pos'[p]
      <4>1. pos[p] \in Nat /\ enqueue_pos \in Nat /\ pos[p] <= enqueue_pos
        BY DEF TypeOK, RingInv, ProducerState
      <4> USE <4>1 DEF TypeOK, Goto, LoadEnqueuePos
      <4>2. CASE AbsorbCall(p)
        BY <4>2 DEF AbsorbCall
      <4>3. CASE PeekFree(p)
        <5>1. seq[Index(pos[p])] \in Nat
          BY IndexFacts
        <5>2. seq[Index(pos[p])] - pos[p] = 0
          BY <4>3 DEF PeekFree, SlotIsFree, Diff
        <5>3. seq[Index(pos[p])] = pos[p]
          BY <5>1, <5>2
        <5>4. QED
          BY <4>3, <5>3 DEF PeekFree
      <4>4. CASE PeekFull(p)
        BY <4>4 DEF PeekFull
      <4>5. CASE PeekStale(p)
        BY <4>5 DEF PeekStale
      <4>6. CASE Reload(p)
        BY <4>6 DEF Reload
      <4>7. CASE ClaimLost(p)
        BY <4>7 DEF ClaimLost
      <4>8. QED
        BY <2>2, <4>2, <4>3, <4>4, <4>5, <4>6, <4>7
    <3>3. ~Holds(p)' /\ ppc'[p] # "count" /\ pos'[p] <= enqueue_pos
      BY <3>2 DEF Holds, TypeOK
    <3>4. QED
      BY <2>1, <3>1, <3>2, <3>3, QuietProducerStep
  <2>3. ASSUME NEW p \in Producers, ClaimWon(p)
        PROVE  RingInv'
    BY <2>1, <2>3, ClaimWonKeeps
  <2>4. ASSUME NEW p \in Producers, Write(p)
        PROVE  RingInv'
    BY <2>1, <2>4, WriteKeeps
  <2>5. ASSUME NEW p \in Producers, Publish(p)
        PROVE  RingInv'
    BY <2>1, <2>5, PublishKeeps
  <2>6. ASSUME NEW p \in Producers, AbsorbReturn(p)
        PROVE  RingInv'
    BY <2>1, <2>6, AbsorbReturnKeeps
  <2>7. CASE Drain
    BY <2>1, <2>7, DrainPeekKeeps, DrainCopyKeeps, DrainFreeKeeps, DrainAdvanceKeeps
       DEF Drain
  <2>8. CASE UNCHANGED vars
    BY <2>8 DEF vars, ringVars, statVars, prodVars, consVars, RingInv, Window,
                SlotStates, SlotOf, ProducerState, DistinctClaims, ConsumerState,
                Freed, Holds, Current
  <2>9. QED
    BY <2>2, <2>3, <2>4, <2>5, <2>6, <2>7, <2>8 DEF Next, Absorb, DrainEmpty
<1>3. QED
  BY <1>1, <1>2, TypeCorrect, PTL DEF Spec

\* drain() returns the blocks in the order in which absorb() claimed their
\* positions, none twice and none skipped.
THEOREM DrainsInClaimOrder == Spec => []DeliversInClaimOrder
<1>1. TypeOK /\ RingInv => DeliversInClaimOrder
  <2> SUFFICES ASSUME TypeOK, RingInv, cpc \in {"free", "advance"}
               PROVE  DeliversInClaimOrder
    BY DEF DeliversInClaimOrder
  <2>1. dequeue_pos < enqueue_pos
    BY DEF TypeOK, RingInv, ConsumerState, Window, Freed
  <2>2. QED
    BY <2>1 DEF RingInv, ConsumerState, Window, DeliversInClaimOrder
<1>2. QED
  BY <1>1, TypeCorrect, RingCorrect, PTL

\* The plain copy of a payload into or out of a slot is never concurrent
\* with another thread's copy into that slot.
THEOREM NoPayloadRace == Spec => []NoSlotRace
<1>1. TypeOK /\ RingInv => NoSlotRace
  <2> SUFFICES ASSUME TypeOK, RingInv PROVE NoSlotRace
    OBVIOUS
  <2>1. IInv
    BY DEF IInv
  <2>2. ASSUME NEW p \in Producers, NEW q \in Producers, p # q,
               ppc[p] = "write", ppc[q] = "write"
        PROVE  Index(pos[p]) # Index(pos[q])
    <3>1. Holds(p) /\ Holds(q)
      BY <2>2 DEF Holds
    <3>2. pos[p] # pos[q]
      BY <2>2, <3>1 DEF RingInv, DistinctClaims
    <3>3. QED
      BY <2>1, <3>1, <3>2, LivePositions, WindowSlot
  <2>3. ASSUME NEW p \in Producers, ppc[p] = "write", cpc = "copy"
        PROVE  Index(pos[p]) # Index(dequeue_pos)
    <3>1. seq[Index(pos[p])] = pos[p] /\ seq[Index(dequeue_pos)] = dequeue_pos + 1
      BY <2>3 DEF Holds, RingInv, ProducerState, ConsumerState
    <3>2. /\ dequeue_pos \in Nat /\ dequeue_pos = Freed
          /\ pos[p] \in Freed .. Freed + Capacity - 1
      BY <2>1, <2>3, LivePositions DEF Holds, TypeOK
    <3>3. dequeue_pos \in Freed .. Freed + Capacity - 1
      BY <3>2, CapacityAssumption
    <3>4. dequeue_pos # pos[p]
      BY <3>1, <3>2
    <3>5. QED
      BY <3>2, <3>3, <3>4, WindowSlot
  <2>4. QED
    BY <2>2, <2>3 DEF NoSlotRace
<1>2. QED
  BY <1>1, TypeCorrect, RingCorrect, PTL

\* The occupancy that size_approx() computes from the two positions exceeds
\* CAPACITY by at most one.
THEOREM OccupancyBound == Spec => []SizeApproxBound
<1>1. TypeOK /\ RingInv => SizeApproxBound
  BY CapacityAssumption DEF TypeOK, RingInv, Window, Freed, SizeApproxBound
<1>2. QED
  BY <1>1, TypeCorrect, RingCorrect, PTL

-------------------------------------------------------------------------------
(* The refinement of BoundedFifo.                                          *)

InRingOK ==
    /\ claimed \in Seq(Block) /\ Len(claimed) = enqueue_pos
    /\ Freed \in Nat /\ enqueue_pos \in Nat
    /\ Freed <= enqueue_pos /\ enqueue_pos <= Freed + Capacity
    /\ InRing \in Seq(Block) /\ Len(InRing) = enqueue_pos - Freed
    /\ \A i \in 1 .. Len(InRing) : InRing[i] = claimed[Freed + i]

LEMMA InRingFacts == IInv => InRingOK
<1> SUFFICES ASSUME IInv PROVE InRingOK
  OBVIOUS
<1>1. /\ claimed \in Seq(Block) /\ Len(claimed) = enqueue_pos
      /\ Freed \in Nat /\ enqueue_pos \in Nat
      /\ Freed <= enqueue_pos /\ enqueue_pos <= Freed + Capacity
  BY LivePositions DEF IInv, TypeOK, RingInv, Window
<1>2. \A i \in Freed + 1 .. Len(claimed) : claimed[i] \in Block
  BY <1>1
<1>3. /\ SubSeq(claimed, Freed + 1, Len(claimed)) \in Seq(Block)
      /\ Len(SubSeq(claimed, Freed + 1, Len(claimed)))
            = IF Freed + 1 <= Len(claimed) THEN Len(claimed) - (Freed + 1) + 1 ELSE 0
      /\ \A i \in 1 .. Len(claimed) - (Freed + 1) + 1 :
            SubSeq(claimed, Freed + 1, Len(claimed))[i] = claimed[(Freed + 1) + i - 1]
  BY <1>1, <1>2, SubSeqProperties
<1>4. QED
  BY <1>1, <1>3 DEF InRing, InRingOK

\* The remainder of a multiple and less.
LEMMA MultipleAndRest ==
    ASSUME NEW C \in Nat \ {0}, NEW a \in Nat, NEW r \in 0 .. C - 1, C * a + r \in Nat
    PROVE  (C * a + r) % C = r
<1> DEFINE x == C * a + r
           s == x % C
           v == x \div C
<1>1. s \in 0 .. C - 1 /\ v \in Int /\ x = C * v + s
  OBVIOUS
<1>2. x = C * a + r
  OBVIOUS
<1> HIDE DEF x, s, v
<1>3. CASE v > a
  BY <1>3, <1>1, <1>2, MultipleGap
<1>4. CASE v < a
  BY <1>4, <1>1, <1>2, MultipleGap
<1>5. CASE v = a
  BY <1>5, <1>1, <1>2 DEF x, s
<1>6. QED
  BY <1>3, <1>4, <1>5, <1>1

\* Every slot is the slot of a position of the window.
LEMMA SlotOfEach ==
    ASSUME NEW f \in Nat, NEW x \in Nat
    PROVE  \E q \in f .. f + Capacity - 1 : Index(q) = Index(x)
<1> DEFINE C == Capacity
           r == x % C
           t == f % C
           a == f \div C
<1>1. C \in Nat \ {0}
  BY CapacityAssumption
<1>2. r \in 0 .. C - 1 /\ t \in 0 .. C - 1 /\ a \in Nat /\ f = C * a + t
  BY <1>1
<1>3. Index(x) = r
  BY DEF Index
<1> HIDE DEF r, t, a
<1>4. CASE r >= t
  <2>1. C * a + r \in f .. f + C - 1
    BY <1>1, <1>2, <1>4
  <2>2. (C * a + r) % C = r
    BY <1>1, <1>2, <2>1, MultipleAndRest
  <2>3. Index(C * a + r) = r
    BY <2>2 DEF Index
  <2>4. QED
    BY <1>3, <2>1, <2>3
<1>5. CASE r < t
  <2>1. C * (a + 1) = C * a + C /\ a + 1 \in Nat
    BY <1>1, <1>2
  <2>2. C * (a + 1) + r \in f .. f + C - 1
    BY <1>1, <1>2, <1>5, <2>1
  <2>3. (C * (a + 1) + r) % C = r
    BY <1>1, <1>2, <2>1, <2>2, MultipleAndRest
  <2>4. Index(C * (a + 1) + r) = r
    BY <2>3 DEF Index
  <2>5. QED
    BY <1>3, <2>2, <2>4
<1>6. QED
  BY <1>2, <1>4, <1>5

\* absorb() refuses a block only while the ring is full: a slot that is behind
\* the position asked for belongs to the lap before, and a stale position
\* finds a slot that is ahead.
LEMMA RefusedWhenFull ==
    ASSUME IInv, NEW p \in Producers, PeekFull(p)
    PROVE  enqueue_pos = Freed + Capacity
<1>1. /\ pos[p] \in Nat /\ enqueue_pos \in Nat /\ Freed \in Nat /\ pos[p] <= enqueue_pos
      /\ enqueue_pos <= Freed + Capacity
  BY LivePositions DEF IInv, TypeOK, RingInv, Window, ProducerState
<1>2. seq[Index(pos[p])] \in Nat /\ seq[Index(pos[p])] < pos[p]
  BY <1>1, IndexFacts DEF IInv, TypeOK, PeekFull, SlotIsFull, Diff
<1>3. ASSUME NEW q \in Freed .. Freed + Capacity - 1, Index(q) = Index(pos[p])
      PROVE  q < pos[p]
  <2>1. SlotOf(q)
    BY DEF IInv, RingInv, SlotStates
  <2>2. seq[Index(pos[p])] \in {q, q + 1}
    BY <1>3, <2>1 DEF SlotOf
  <2>3. QED
    BY <1>1, <1>2, <2>2, CapacityAssumption
<1>4. \E q \in Freed .. Freed + Capacity - 1 : Index(q) = Index(pos[p])
  BY <1>1, CapacityAssumption, SlotOfEach
<1>5. QED
  BY <1>1, <1>3, <1>4, CapacityAssumption

\* The ring implements the bounded queue of BoundedFifo: its claims are the
\* acceptances, its frees the deliveries, its refusals the refusals.
THEOREM RingIsFifo == Spec => ImplementsFifo
<1>1. Init => Fifo!Init
  BY SubSeqEmpty DEF Init, Fifo!Init, InRing, Freed
<1>2. IInv /\ InRingOK /\ InRingOK' /\ [Next]_vars => [Fifo!Next]_(Fifo!fifoVars)
  <2> SUFFICES ASSUME IInv, InRingOK, InRingOK', [Next]_vars PROVE [Fifo!Next]_(Fifo!fifoVars)
    OBVIOUS
  <2>0. ASSUME UNCHANGED <<claimed, Freed, overflow_drops>>
        PROVE  UNCHANGED Fifo!fifoVars
    BY <2>0 DEF InRing, Fifo!fifoVars
  <2>1. ASSUME NEW p \in Producers, AbsorbCall(p) \/ PeekFree(p) \/ PeekStale(p) \/ Reload(p)
                                    \/ ClaimLost(p)
        PROVE  UNCHANGED Fifo!fifoVars
    BY <2>0, <2>1 DEF AbsorbCall, PeekFree, PeekStale, Reload, ClaimLost, statVars, ringVars,
                      consVars, Freed
  <2>2. ASSUME NEW p \in Producers, Write(p) \/ Publish(p) \/ AbsorbReturn(p)
        PROVE  UNCHANGED Fifo!fifoVars
    BY <2>0, <2>2 DEF Write, Publish, AbsorbReturn, statVars, ringVars, consVars, Freed
  <2>3. ASSUME NEW p \in Producers, PeekFull(p)
        PROVE  Fifo!Refuse
    <3>1. Len(InRing) = Capacity
      BY <2>3, RefusedWhenFull, CapacityAssumption DEF InRingOK
    <3>2. overflow_drops' = overflow_drops + 1 /\ Freed' = Freed /\ InRing' = InRing
      BY <2>3 DEF PeekFull, ringVars, consVars, Freed, InRing
    <3>3. QED
      BY <3>1, <3>2 DEF Fifo!Refuse
  <2>4. ASSUME NEW p \in Producers, ClaimWon(p)
        PROVE  Fifo!Accept(Current(p)) /\ Current(p) \in Block
    <3>1. /\ claimed' = Append(claimed, Current(p)) /\ Freed' = Freed
          /\ overflow_drops' = overflow_drops /\ enqueue_pos' = enqueue_pos + 1
      BY <2>4 DEF ClaimWon, CasMatches, statVars, consVars, Freed
    <3>2. Current(p) \in Block
      BY <2>4, CurrentIsBlock DEF IInv, TypeOK, ClaimWon
    <3>3. Len(InRing) < Capacity /\ Len(InRing') = Len(InRing) + 1
      BY <3>1, CapacityAssumption DEF InRingOK
    <3>4. InRing' = Append(InRing, Current(p))
      <4>1. InRing' \in Seq(Block) /\ Append(InRing, Current(p)) \in Seq(Block)
        BY <3>2, AppendProperties DEF InRingOK
      <4>2. ASSUME NEW i \in 1 .. Len(InRing')
            PROVE  InRing'[i] = Append(InRing, Current(p))[i]
        <5>1. InRing'[i] = claimed'[Freed + i]
          BY <3>1 DEF InRingOK
        <5>2. InRing'[i] = Append(claimed, Current(p))[Freed + i]
          BY <3>1, <5>1
        <5>3. /\ Len(InRing) \in Nat /\ Len(claimed) = Freed + Len(InRing) /\ Freed \in Nat
              /\ claimed \in Seq(Block) /\ InRing \in Seq(Block)
              /\ i \in 1 .. Len(InRing) + 1
          <6>1. /\ claimed \in Seq(Block) /\ InRing \in Seq(Block)
                /\ Len(claimed) = enqueue_pos /\ Len(InRing) = enqueue_pos - Freed
                /\ Freed \in Nat /\ enqueue_pos \in Nat
            BY DEF InRingOK
          <6>2. Len(InRing) \in Nat
            BY <6>1, LenProperties
          <6>3. i \in 1 .. Len(InRing) + 1
            BY <3>3
          <6>4. Len(claimed) = Freed + Len(InRing)
            BY ONLY <6>1
          <6>5. QED
            BY ONLY <6>1, <6>2, <6>3, <6>4
        <5>4. CASE i = Len(InRing) + 1
          <6>1. Freed + i = Len(claimed) + 1
            BY <5>3, <5>4
          <6>2. /\ Append(claimed, Current(p))[Len(claimed) + 1] = Current(p)
                /\ Append(InRing, Current(p))[Len(InRing) + 1] = Current(p)
            BY <3>2, <5>3, AppendProperties
          <6>3. QED
            BY <5>2, <5>4, <6>1, <6>2
        <5>5. CASE i \in 1 .. Len(InRing)
          <6>1. Freed + i \in 1 .. Len(claimed)
            BY <5>3, <5>5
          <6>2. Append(claimed, Current(p))[Freed + i] = claimed[Freed + i]
            BY <3>2, <5>3, <6>1, AppendProperties
          <6>3. Append(InRing, Current(p))[i] = InRing[i]
            BY <3>2, <5>3, <5>5, AppendProperties
          <6>4. InRing[i] = claimed[Freed + i]
            BY <5>5 DEF InRingOK
          <6>5. QED
            BY <5>2, <6>2, <6>3, <6>4
        <5>6. QED
          BY <5>3, <5>4, <5>5
      <4>3. QED
        BY <3>2, <3>3, <4>1, <4>2, AppendProperties, SeqEqual DEF InRingOK
    <3>5. QED
      BY <3>1, <3>2, <3>3, <3>4 DEF Fifo!Accept
  <2>5. CASE DrainPeek \/ DrainCopy \/ DrainAdvance
    <3>1. dequeue_pos \in Nat
      BY DEF IInv, TypeOK
    <3>2. QED
      BY <2>0, <2>5, <3>1 DEF DrainPeek, DrainCopy, DrainAdvance, statVars, ringVars, Freed
  <2>6. ASSUME DrainFree
        PROVE  Fifo!Deliver
    <3>1. /\ claimed' = claimed /\ overflow_drops' = overflow_drops
          /\ Freed = dequeue_pos /\ Freed' = Freed + 1 /\ Freed < enqueue_pos
      <4>1. cpc = "free" /\ cpc' = "advance" /\ dequeue_pos' = dequeue_pos
            /\ claimed' = claimed /\ overflow_drops' = overflow_drops
        BY <2>6 DEF DrainFree, statVars
      <4>2. dequeue_pos \in Nat /\ dequeue_pos < enqueue_pos
        BY <4>1 DEF IInv, TypeOK, RingInv, ConsumerState
      <4>3. QED
        BY <4>1, <4>2 DEF Freed
    <3>2. Freed + 1 \in 1 .. Len(claimed) /\ Len(claimed) \in Freed + 1 .. Len(claimed)
      BY <3>1 DEF InRingOK
    <3>3. Tail(InRing) = SubSeq(claimed, Freed + 1 + 1, Len(claimed))
      BY <3>2, HeadTailOfSubSeq DEF InRing, InRingOK
    <3>4. InRing' = Tail(InRing)
      BY <3>1, <3>3 DEF InRing
    <3>5. InRing # <<>>
      BY <3>1 DEF InRingOK
    <3>6. QED
      BY <3>1, <3>4, <3>5 DEF Fifo!Deliver
  <2>7. CASE UNCHANGED vars
    BY <2>0, <2>7 DEF vars, ringVars, consVars, statVars, Freed
  <2>8. QED
    BY <2>1, <2>2, <2>3, <2>4, <2>5, <2>6, <2>7
       DEF Next, Absorb, Drain, DrainEmpty, Fifo!Next
<1>3. QED
  BY <1>1, <1>2, InRingFacts, TypeCorrect, RingCorrect, PTL
     DEF Spec, ImplementsFifo, Fifo!Spec, IInv
===============================================================================
