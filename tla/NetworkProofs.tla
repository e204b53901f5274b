----------------------------- MODULE NetworkProofs -----------------------------
(***************************************************************************)
(* What TLAPS proves about when and where flushes leave a node: the windows *)
(* and layer gates of tempo/nexus_coordinator.py, for any number of ranks,  *)
(* loads, layers and steps; the transfers of GpuDriven, for any number of   *)
(* them; and EgressRouting, for any GPUs and loads.                         *)
(***************************************************************************)
EXTENDS NexusCoordinator, LayerMicroGate, GpuDriven, EgressRouting,
        FiniteSetTheorems, SequenceTheorems, TLAPS

-------------------------------------------------------------------------------
(* The order of the ranks                                                  *)

LoadOf == [WorldRanks -> Nat]

LEMMA BeforeIsTotal ==
    ASSUME NEW loads \in LoadOf, NEW q \in WorldRanks, NEW r \in WorldRanks, q # r
    PROVE  Before(q, r, loads) \/ Before(r, q, loads)
BY NexusAssumption DEF LoadOf, WorldRanks, Before

LEMMA BeforeIsStrict ==
    ASSUME NEW loads \in LoadOf, NEW p \in WorldRanks, NEW q \in WorldRanks,
           NEW r \in WorldRanks, Before(p, q, loads), Before(q, r, loads)
    PROVE  Before(p, r, loads) /\ ~Before(q, q, loads)
BY NexusAssumption DEF LoadOf, WorldRanks, Before

LEMMA PositionIsNat ==
    ASSUME NEW loads, NEW r \in WorldRanks
    PROVE  /\ IsFiniteSet({q \in WorldRanks : Before(q, r, loads)})
           /\ Position(r, loads) \in Nat
<1>1. IsFiniteSet(WorldRanks)
  BY FS_Interval, NexusAssumption DEF WorldRanks
<1>2. IsFiniteSet({q \in WorldRanks : Before(q, r, loads)})
  BY <1>1, FS_Subset
<1>3. QED
  BY <1>2, FS_CardinalityType DEF Position

\* Who comes before has a smaller place: equal loads have different places.
LEMMA PositionsDiffer ==
    ASSUME NEW loads \in LoadOf, NEW q \in WorldRanks, NEW r \in WorldRanks,
           Before(q, r, loads)
    PROVE  Position(q, loads) < Position(r, loads)
<1> DEFINE Earlier(p) == {x \in WorldRanks : Before(x, p, loads)}
<1>1. IsFiniteSet(Earlier(r)) /\ Position(r, loads) \in Nat /\ Position(q, loads) \in Nat
  BY PositionIsNat
<1>2. Earlier(q) \in SUBSET Earlier(r)
  BY BeforeIsStrict
<1>3. q \in Earlier(r) /\ q \notin Earlier(q)
  BY BeforeIsStrict
<1>4. Cardinality(Earlier(q)) <= Cardinality(Earlier(r))
      /\ Cardinality(Earlier(q)) # Cardinality(Earlier(r))
  BY <1>1, <1>2, <1>3, FS_Subset
<1>5. QED
  BY <1>1, <1>4 DEF Position

LEMMA SlotsInOrder ==
    ASSUME NEW i \in Nat, NEW j \in Nat, NEW len \in Nat, i < j
    PROVE  i * len + len <= j * len
<1>1. PICK d \in Nat : j = i + 1 + d
  <2>1. j - i - 1 \in Nat /\ j = i + 1 + (j - i - 1)
    OBVIOUS
  <2>2. QED
    BY <2>1
<1>2. j * len = i * len + len + d * len
  BY <1>1
<1>3. d * len \in Nat /\ i * len \in Nat
  BY <1>1
<1>4. QED
  BY <1>2, <1>3

-------------------------------------------------------------------------------
(* The windows                                                             *)

WindowType == [delay : Nat, length : Nat, agreed : BOOLEAN]

NexusTypes ==
    /\ given \in [WorldRanks -> Seq(Nat)]
    /\ ema \in [WorldRanks -> Nat]
    /\ win \in [WorldRanks -> Seq(WindowType)]

\* A window that was agreed on rests on loads that every rank has given, and that
\* no rank can change any more.
Agreed(r, k) ==
    /\ \A q \in WorldRanks : k <= Len(given[q])
    /\ win[r][k].delay = Position(r, Gossiped(k)) * win[r][k].length

SlotInv ==
    /\ NexusTypes
    /\ \A r \in WorldRanks : \A k \in DOMAIN win[r] : win[r][k].agreed => Agreed(r, k)

\* Loads of a round that is complete stay what they are.
LEMMA GossipedIsStable ==
    ASSUME NexusTypes, NEW r \in WorldRanks, NEW load \in Nat,
           given' = [given EXCEPT ![r] = Append(@, load)],
           NEW k \in Nat \ {0}, \A q \in WorldRanks : k <= Len(given[q])
    PROVE  Gossiped(k)' = Gossiped(k) /\ \A q \in WorldRanks : k <= Len(given'[q])
<1>1. ASSUME NEW q \in WorldRanks
      PROVE  given'[q][k] = given[q][k] /\ k <= Len(given'[q])
  <2>1. given[q] \in Seq(Nat)
    BY DEF NexusTypes
  <2>2. given'[q] = IF q = r THEN Append(given[q], load) ELSE given[q]
    BY DEF NexusTypes
  <2>3. QED
    BY <2>1, <2>2
<1>2. QED
  BY <1>1 DEF Gossiped, WorldRanks

LEMMA WindowIsTyped ==
    ASSUME NexusTypes, NEW r \in WorldRanks, NEW loads, NEW all \in BOOLEAN
    PROVE  Window(r, loads, all) \in WindowType
<1>1. Position(r, loads) \in Nat /\ ema[r] \in Nat
  BY PositionIsNat DEF NexusTypes
<1>2. Position(r, loads) * ema[r] \in Nat
  BY <1>1
<1>3. QED
  BY <1>1, <1>2 DEF Window, WindowType

\* A rank appends a window: agreed, or computed alone.
LEMMA AppendedWindow ==
    ASSUME SlotInv, NEW r \in WorldRanks, NEW w \in WindowType,
           win' = [win EXCEPT ![r] = Append(@, w)], UNCHANGED <<given, ema>>,
           w.agreed => \E k \in Nat :
               /\ k = Len(win[r]) + 1
               /\ \A q \in WorldRanks : k <= Len(given[q])
               /\ w.delay = Position(r, Gossiped(k)) * w.length
    PROVE  SlotInv'
<1>1. win[r] \in Seq(WindowType)
  BY DEF SlotInv, NexusTypes
<1>2. NexusTypes'
  BY <1>1 DEF SlotInv, NexusTypes
<1>3. ASSUME NEW q \in WorldRanks, NEW k \in DOMAIN win'[q], win'[q][k].agreed
      PROVE  Agreed(q, k)'
  <2>1. Gossiped(k)' = Gossiped(k)
    BY DEF Gossiped
  <2>2. CASE q = r /\ k = Len(win[r]) + 1
    <3>1. win'[q][k] = w
      BY <1>1, <2>2 DEF SlotInv, NexusTypes
    <3>2. QED
      BY <1>3, <2>1, <2>2, <3>1 DEF Agreed, Position
  <2>3. CASE ~(q = r /\ k = Len(win[r]) + 1)
    <3>1. k \in DOMAIN win[q] /\ win'[q][k] = win[q][k]
      BY <1>1, <1>3, <2>3 DEF SlotInv, NexusTypes
    <3>2. Agreed(q, k)
      BY <1>3, <3>1 DEF SlotInv
    <3>3. QED
      BY <2>1, <3>1, <3>2 DEF Agreed, Position
  <2>4. QED
    BY <2>2, <2>3
<1>4. QED
  BY <1>2, <1>3 DEF SlotInv

\* A rank that is in the all-reduce has given a load more than it has windows.
RoundInv ==
    /\ DOMAIN rpc = WorldRanks
    /\ \A r \in WorldRanks :
        Len(given[r]) = IF rpc[r] = "gossip" THEN Len(win[r]) + 1 ELSE Len(win[r])

LEMMA RoundStep ==
    NexusTypes /\ RoundInv /\ [NexusNext]_nexusVars => RoundInv'
<1> SUFFICES ASSUME NexusTypes, RoundInv, [NexusNext]_nexusVars PROVE RoundInv'
  OBVIOUS
<1>1. \A r \in WorldRanks : /\ given[r] \in Seq(Nat) /\ win[r] \in Seq(WindowType)
                            /\ Len(given[r]) \in Nat /\ Len(win[r]) \in Nat
  BY DEF NexusTypes
<1>2. ASSUME NEW r \in WorldRanks, EnterGossip(r)
      PROVE  RoundInv'
  <2>1. PICK load \in Nat : given' = [given EXCEPT ![r] = Append(@, load)]
    BY <1>2, NexusAssumption DEF EnterGossip
  <2>2. Len(given'[r]) = Len(given[r]) + 1 /\ rpc[r] = "idle"
        /\ rpc' = [rpc EXCEPT ![r] = "gossip"] /\ win' = win
    BY <1>1, <1>2, <2>1 DEF EnterGossip, NexusTypes
  <2>3. QED
    BY <1>1, <2>1, <2>2 DEF RoundInv, NexusTypes
<1>3. ASSUME NEW r \in WorldRanks, Gossip(r) \/ GossipFails(r)
      PROVE  RoundInv'
  <2>1. PICK w : win' = [win EXCEPT ![r] = Append(@, w)]
    BY <1>3 DEF Gossip, GossipFails
  <2>2. Len(win'[r]) = Len(win[r]) + 1 /\ rpc[r] = "gossip"
        /\ rpc' = [rpc EXCEPT ![r] = "flush"] /\ given' = given
    BY <1>1, <1>3, <2>1 DEF Gossip, GossipFails, NexusTypes
  <2>3. QED
    BY <1>1, <2>1, <2>2 DEF RoundInv, NexusTypes
<1>4. ASSUME NEW r \in WorldRanks, RecordFlushTime(r) \/ FlushRaises(r)
      PROVE  RoundInv'
  BY <1>4 DEF RecordFlushTime, FlushRaises, RoundInv
<1>5. CASE UNCHANGED nexusVars
  BY <1>5 DEF nexusVars, RoundInv
<1>6. QED
  BY <1>2, <1>3, <1>4, <1>5 DEF NexusNext

LEMMA SlotStep == SlotInv /\ RoundInv /\ [NexusNext]_nexusVars => SlotInv'
<1> SUFFICES ASSUME SlotInv, RoundInv, [NexusNext]_nexusVars PROVE SlotInv'
  OBVIOUS
<1>1. ASSUME UNCHANGED <<given, win>>, ema' \in [WorldRanks -> Nat]
      PROVE  SlotInv'
  <2>1. NexusTypes' /\ \A k : Gossiped(k)' = Gossiped(k)
    BY <1>1 DEF SlotInv, NexusTypes, Gossiped
  <2>2. QED
    BY <1>1, <2>1 DEF SlotInv, Agreed, Position
<1>2. ASSUME NEW r \in WorldRanks, EnterGossip(r)
      PROVE  SlotInv'
  <2>1. PICK load \in Nat : given' = [given EXCEPT ![r] = Append(@, load)]
    BY <1>2, NexusAssumption DEF EnterGossip
  <2>2. UNCHANGED <<ema, win>>
    BY <1>2 DEF EnterGossip
  <2>3. NexusTypes'
    BY <2>1, <2>2 DEF SlotInv, NexusTypes
  <2>4. ASSUME NEW q \in WorldRanks, NEW k \in DOMAIN win[q], win[q][k].agreed
        PROVE  Agreed(q, k)'
    <3>1. Agreed(q, k) /\ k \in Nat \ {0}
      BY <2>4 DEF SlotInv, NexusTypes
    <3>2. Gossiped(k)' = Gossiped(k) /\ \A p \in WorldRanks : k <= Len(given'[p])
      BY <2>1, <3>1, GossipedIsStable DEF SlotInv, Agreed
    <3>3. QED
      BY <2>2, <3>1, <3>2 DEF Agreed, Position
  <2>5. QED
    BY <2>2, <2>3, <2>4 DEF SlotInv
<1>3. ASSUME NEW r \in WorldRanks, GossipFails(r)
      PROVE  SlotInv'
  <2> DEFINE w == Window(r, Alone(r, Len(given[r])), FALSE)
  <2>1. w \in WindowType /\ w.agreed = FALSE
    BY WindowIsTyped DEF SlotInv, Window
  <2>2. win' = [win EXCEPT ![r] = Append(@, w)] /\ UNCHANGED <<given, ema>>
    BY <1>3 DEF GossipFails
  <2> HIDE DEF w
  <2>3. QED
    BY <2>1, <2>2, AppendedWindow
<1>4. ASSUME NEW r \in WorldRanks, Gossip(r)
      PROVE  SlotInv'
  <2> DEFINE k == Len(given[r])
             w == Window(r, Gossiped(k), TRUE)
  <2>1. w \in WindowType /\ w.delay = Position(r, Gossiped(k)) * w.length
    BY WindowIsTyped DEF SlotInv, Window
  <2>2. win' = [win EXCEPT ![r] = Append(@, w)] /\ UNCHANGED <<given, ema>>
    BY <1>4 DEF Gossip
  <2>3. k \in Nat /\ \A q \in WorldRanks : k <= Len(given[q])
    BY <1>4 DEF Gossip, SlotInv, NexusTypes
  <2>4. k = Len(win[r]) + 1
    BY <1>4 DEF Gossip, RoundInv
  <2> HIDE DEF k, w
  <2>5. QED
    BY <2>1, <2>2, <2>3, <2>4, AppendedWindow
<1>5. ASSUME NEW r \in WorldRanks, RecordFlushTime(r)
      PROVE  SlotInv'
  <2>1. PICK ms \in FlushTimes : ema' = [ema EXCEPT ![r] = (Clamp(ms) + 3 * @) \div 4]
    BY <1>5 DEF RecordFlushTime
  <2>2. Clamp(ms) \in Nat /\ ema[r] \in Nat
    BY NexusAssumption DEF Clamp, SlotInv, NexusTypes
  <2>3. (Clamp(ms) + 3 * ema[r]) \div 4 \in Nat
    BY <2>2
  <2>4. ema' \in [WorldRanks -> Nat]
    BY <2>1, <2>3 DEF SlotInv, NexusTypes
  <2>5. QED
    BY <1>1, <1>5, <2>4 DEF RecordFlushTime
<1>6. ASSUME NEW r \in WorldRanks, FlushRaises(r)
      PROVE  SlotInv'
  BY <1>1, <1>6 DEF FlushRaises, SlotInv, NexusTypes
<1>7. CASE UNCHANGED nexusVars
  BY <1>1, <1>7 DEF nexusVars, SlotInv, NexusTypes
<1>8. QED
  BY <1>2, <1>3, <1>4, <1>5, <1>6, <1>7 DEF NexusNext

LEMMA SlotHolds == NexusSpec => [](SlotInv /\ RoundInv)
<1>1. NexusInit => SlotInv /\ RoundInv
  <2> SUFFICES ASSUME NexusInit PROVE SlotInv /\ RoundInv
    OBVIOUS
  <2>1. /\ given = [r \in WorldRanks |-> <<>>] /\ win = [r \in WorldRanks |-> <<>>]
        /\ ema = [r \in WorldRanks |-> BaseWindow]
        /\ rpc = [r \in WorldRanks |-> "idle"]
    BY DEF NexusInit, V5Init, CoordinatorInit
  <2>2. NexusTypes
    BY <2>1, NexusAssumption DEF NexusTypes
  <2>3. \A r \in WorldRanks : DOMAIN win[r] = {} /\ Len(win[r]) = 0 /\ Len(given[r]) = 0
    BY <2>1
  <2>4. QED
    BY <2>1, <2>2, <2>3 DEF SlotInv, RoundInv
<1>2. SlotInv /\ RoundInv /\ [NexusNext]_nexusVars => (SlotInv /\ RoundInv)'
  BY SlotStep, RoundStep DEF SlotInv
<1>3. QED
  BY <1>1, <1>2, PTL DEF NexusSpec

\* One rank of two comes first in the loads of the round, so its window ends
\* before the other's begins.
LEMMA AgreedAreDisjoint ==
    ASSUME SlotInv, NEW q \in WorldRanks, NEW r \in WorldRanks, q # r,
           NEW k \in DOMAIN win[q], k \in DOMAIN win[r],
           win[q][k].agreed, win[r][k].agreed, win[q][k].length = win[r][k].length
    PROVE  Disjoint(win[q][k], win[r][k])
<1> DEFINE loads == Gossiped(k)
           len   == win[q][k].length
<1>1. Agreed(q, k) /\ Agreed(r, k)
  BY DEF SlotInv
<1>2. win[q][k] \in WindowType /\ win[r][k] \in WindowType /\ k \in Nat \ {0}
  BY DEF SlotInv, NexusTypes
<1>3. loads \in LoadOf
  <2>1. \A p \in WorldRanks : given[p] \in Seq(Nat) /\ k \in 1..Len(given[p])
    BY <1>1, <1>2 DEF SlotInv, NexusTypes, Agreed
  <2>2. \A p \in WorldRanks : given[p][k] \in Nat
    BY <2>1
  <2>3. QED
    BY <2>2 DEF Gossiped, LoadOf
<1>4. Position(q, loads) \in Nat /\ Position(r, loads) \in Nat /\ len \in Nat
  BY <1>2, PositionIsNat DEF WindowType
<1>5. /\ win[q][k].delay = Position(q, loads) * len
      /\ win[r][k].delay = Position(r, loads) * len
  BY <1>1 DEF Agreed
<1> HIDE DEF loads, len
<1>6. Position(q, loads) < Position(r, loads) \/ Position(r, loads) < Position(q, loads)
  BY <1>3, BeforeIsTotal, PositionsDiffer
<1>7. \/ win[q][k].delay + len <= win[r][k].delay
      \/ win[r][k].delay + len <= win[q][k].delay
  BY <1>4, <1>5, <1>6, SlotsInOrder
<1>8. QED
  BY <1>7 DEF Disjoint, len

\* The ranks that agree on a round write in windows that do not overlap.
THEOREM WindowsAreStaggered == NexusSpec => []SlotsDisjoint
<1>1. SlotInv => SlotsDisjoint
  BY AgreedAreDisjoint DEF SlotsDisjoint
<1>2. QED
  BY <1>1, SlotHolds, PTL

-------------------------------------------------------------------------------
(* The gates of the layers                                                 *)

\* An open gate was opened in the step that is being trained, and the shards
\* being written are not of a later one.
OpenInv ==
    /\ train_step \in Nat /\ shard \in 0..train_step
    /\ reduced \in [GateLayers -> Nat] /\ DOMAIN cpu_gate = GateLayers
    /\ \A l \in GateLayers : /\ reduced[l] <= train_step
                             /\ cpu_gate[l] => reduced[l] = train_step
    /\ waiting # 0 => waiting \in GateLayers
    /\ passed \subseteq [layer : GateLayers, step : Nat]
    /\ PassMeansReduced

LEMMA OpenStep == OpenInv /\ [LayerGateNext]_gateLayerVars => OpenInv'
<1> SUFFICES ASSUME OpenInv, [LayerGateNext]_gateLayerVars PROVE OpenInv'
  OBVIOUS
<1> USE DEF OpenInv, PassMeansReduced
<1>1. CASE BeginGateStep
  BY <1>1 DEF BeginGateStep, ResetGates
<1>2. ASSUME NEW l \in GateLayers, OnLayerArDone(l)
      PROVE  OpenInv'
  <2>1. /\ reduced' = [reduced EXCEPT ![l] = train_step]
        /\ cpu_gate' = [cpu_gate EXCEPT ![l] = TRUE]
        /\ UNCHANGED <<train_step, shard, waiting, passed>>
    BY <1>2 DEF OnLayerArDone, OpenGate
  <2>2. \A m \in GateLayers : reduced[m] <= reduced'[m]
    BY <2>1
  <2>3. PassMeansReduced'
    BY <2>1, <2>2
  <2>4. QED
    BY <2>1, <2>3
<1>3. ASSUME NEW l \in GateLayers, TurnsTo(l)
      PROVE  OpenInv'
  BY <1>3 DEF TurnsTo
<1>4. CASE WaitPasses
  BY <1>4 DEF WaitPasses
<1>5. CASE WaitTimesOut
  BY <1>5 DEF WaitTimesOut
<1>6. CASE UNCHANGED gateLayerVars
  BY <1>6 DEF gateLayerVars
<1>7. QED
  BY <1>1, <1>2, <1>3, <1>4, <1>5, <1>6 DEF LayerGateNext

\* The reset of every step makes an open gate mean this step's gradients.
THEOREM GatesPassInTime == LayerGateSpec => []PassMeansReduced
<1>1. LayerGateInit => OpenInv
  BY DEF LayerGateInit, OpenInv, PassMeansReduced
<1>2. OpenInv => PassMeansReduced
  BY DEF OpenInv
<1>3. QED
  BY <1>1, <1>2, OpenStep, PTL DEF LayerGateSpec

-------------------------------------------------------------------------------
(* GpuDriven: one transfer at a time                                       *)

\* What the NIC still owes, and what nobody has been told of yet.
Live == posted \cup cq \cup Unfinished

\* Without overlap all that is live is one transfer, so the completion that a
\* wait finds can only be its own.
OneLive ==
    /\ next_handles \cap (tried \cup descriptors) = {}
    /\ fabric = "new" => tried = {} /\ finished = {} /\ posted = {} /\ cq = {}
    /\ ~overlapped /\ fabric \in {"cpu", "doorbell"} =>
          /\ \A a, b \in Live : a = b
          /\ cq \subseteq sent
          /\ finished \subseteq sent

LEMMA LiveStep == OneLive /\ [GpuNext]_gpuVars => OneLive'
<1> SUFFICES ASSUME OneLive, [GpuNext]_gpuVars PROVE OneLive'
  OBVIOUS
<1> USE DEF OneLive, Live, Unfinished
<1>1. CASE Open
  BY <1>1 DEF Open, MapDoorbell
<1>2. CASE ClosePool
  BY <1>2 DEF ClosePool
<1>3. ASSUME NEW h \in Transfers, RegisterTransfer(h)
      PROVE  OneLive'
  <2>1. h \notin tried
    BY <1>3 DEF RegisterTransfer
  <2>2. QED
    BY <1>3, <2>1 DEF RegisterTransfer
<1>4. ASSUME NEW h \in Transfers, Trigger(h)
      PROVE  OneLive'
  <2>1. CASE fabric = "none"
    BY <1>4, <2>1 DEF Trigger, TriggerFromCpu, DoorbellTrigger
  <2>2. CASE fabric = "cpu"
    BY <1>4, <2>2 DEF Trigger, TriggerFromCpu, DoorbellTrigger, Over
  <2>3. CASE fabric = "doorbell"
    BY <1>4, <2>3 DEF Trigger, TriggerFromCpu, DoorbellTrigger, Over
  <2>4. QED
    BY <1>4, <2>1, <2>2, <2>3 DEF Trigger, TriggerFromCpu, DoorbellTrigger
<1>5. ASSUME NEW h \in Transfers, NicSends(h)
      PROVE  OneLive'
  BY <1>5 DEF NicSends
<1>6. ASSUME NEW h \in Transfers, WaitSimulated(h)
      PROVE  OneLive'
  BY <1>6 DEF WaitSimulated
<1>7. ASSUME NEW h \in Transfers, WaitCompletes(h)
      PROVE  OneLive'
  <2>1. PICK taken \in (SUBSET cq) \ {{}} : cq' = cq \ taken
    BY <1>7 DEF WaitCompletes
  <2>2. PICK c : c \in taken
    BY <2>1
  <2>3. /\ c \in cq /\ h \in Unfinished
        /\ finished' = finished \cup {h}
        /\ UNCHANGED <<fabric, descriptors, tried, posted, sent, overlapped>>
    BY <1>7, <2>1, <2>2 DEF WaitCompletes
  <2>4. ~overlapped /\ fabric \in {"cpu", "doorbell"} => h \in sent
    BY <2>3
  <2>5. Live' \subseteq Live
    BY <2>1, <2>3
  <2>6. ~overlapped /\ fabric \in {"cpu", "doorbell"} =>
            cq' \subseteq sent /\ finished' \subseteq sent
    BY <2>1, <2>3, <2>4
  <2>7. next_handles' = next_handles /\ fabric # "new"
    BY <1>7 DEF WaitCompletes
  <2>8. QED
    BY <2>3, <2>5, <2>6, <2>7
<1>8. ASSUME NEW h \in Transfers, Deregister(h)
      PROVE  OneLive'
  BY <1>8 DEF Deregister
<1>9. CASE UNCHANGED gpuVars
  BY <1>9 DEF gpuVars
<1>10. QED
  BY <1>1, <1>2, <1>3, <1>4, <1>5, <1>6, <1>7, <1>8, <1>9 DEF GpuNext

\* One transfer after the other, a wait is answered only when the NIC has sent
\* what it is about.
THEOREM SerialTransfersAreSafe == GpuSpec => []OneAtATimeIsSafe
<1>1. GpuInit => OneLive
  BY DEF GpuInit, OneLive, Live, Unfinished
<1>2. OneLive => OneAtATimeIsSafe
  BY DEF OneLive, OneAtATimeIsSafe, DoneMeansSent
<1>3. QED
  BY <1>1, <1>2, LiveStep, PTL DEF GpuSpec

-------------------------------------------------------------------------------
(* EgressRouting                                                           *)

\* The class is applied at home before the choice, and on the chosen NIC after
\* it; nothing else changes a class while the gain is what it is.
ClassInv ==
    /\ DOMAIN class = NodeGpus /\ egress \in NodeGpus /\ best \in NodeGpus
    /\ dry_run /\ vpc \in {"primary", "rank", "compare", "relay"} =>
          class[HomeGpu] = GainToCxiTc(gain)
    /\ EgressHasClass

LEMMA ClassStep == ClassInv /\ [EgressNext]_egressVars => ClassInv'
<1> SUFFICES ASSUME ClassInv, [EgressNext]_egressVars PROVE ClassInv'
  OBVIOUS
<1> USE EgressAssumption DEF ClassInv, EgressHasClass
<1>1. ASSUME NEW g \in NodeGpus, ReadNic(g)
      PROVE  ClassInv'
  BY <1>1 DEF ReadNic, qosVars, selectVars
<1>2. CASE V6Checkpoint
  <2>1. /\ class' = IF dry_run THEN [class EXCEPT ![HomeGpu] = GainToCxiTc(gain)] ELSE class
        /\ vpc' = "primary" /\ UNCHANGED <<dry_run, gain, best, egress>>
    BY <1>2 DEF V6Checkpoint, ApplyForGain, SetTc, Applies, selectVars
  <2>2. QED
    BY <2>1
<1>3. CASE SelectPrimary \/ SelectRank \/ SelectCompare
  <2>1. /\ vpc \in {"primary", "rank", "compare"} /\ vpc' \in {"rank", "compare", "relay"}
        /\ egress' \in {egress, HomeGpu, best} /\ best' \in NodeGpus
        /\ UNCHANGED <<dry_run, class, gain>>
    BY <1>3 DEF SelectPrimary, SelectRank, SelectCompare, qosVars
  <2>2. QED
    BY <2>1
<1>4. CASE V6Relay
  <2>1. CASE egress = HomeGpu
    BY <1>4, <2>1 DEF V6Relay, selectVars
  <2>2. CASE egress # HomeGpu
    <3>1. /\ class' = IF dry_run THEN [class EXCEPT ![egress] = GainToCxiTc(gain)] ELSE class
          /\ vpc' = "flush" /\ UNCHANGED <<dry_run, gain, best, egress>>
      BY <1>4, <2>2 DEF V6Relay, ApplyForGain, SetTc, Applies, selectVars
    <3>2. QED
      BY <3>1
  <2>3. QED
    BY <2>1, <2>2
<1>5. CASE V6Ends \/ V6Shutdown
  BY <1>5 DEF V6Ends, V6Shutdown, qosVars, selectVars
<1>6. CASE UNCHANGED egressVars
  BY <1>6 DEF egressVars, qosVars, selectVars
<1>7. QED
  BY <1>1, <1>2, <1>3, <1>4, <1>5, <1>6 DEF EgressNext

\* The NIC a flush leaves through has the class of its gain, whichever it is.
THEOREM EgressIsMarked == EgressSpec => []EgressHasClass
<1>1. EgressInit => ClassInv
  BY EgressAssumption DEF EgressInit, RouterInit, QosInit, ClassInv, EgressHasClass
<1>2. ClassInv => EgressHasClass
  BY DEF ClassInv
<1>3. QED
  BY <1>1, <1>2, ClassStep, PTL DEF EgressSpec
===============================================================================
