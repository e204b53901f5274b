----------------------------- MODULE ServiceProofs -----------------------------
(***************************************************************************)
(* What TLAPS proves about the services around the checkpoint path: the KV  *)
(* connector, the P2P cache store and the NIC counters.  Their models fold  *)
(* and iterate over data; the lemmas for that are those of DataProofs.      *)
(***************************************************************************)
EXTENDS LMCacheConnector, P2PCacheStore, CassiniCounters, DataProofs

-------------------------------------------------------------------------------
(* CassiniCounters                                                         *)

CassiniTypes ==
    /\ hw \in [CxiNics -> 0..MaxEvents]
    /\ hw_prev \in [CxiNics -> Nat] /\ base \in [CxiNics -> Nat]
    /\ hw_total \in Nat /\ flits \in Nat
    /\ todo \in SUBSET CxiNics

\* No reading is below the last one, because the counters only grow and a
\* failed read repeats the last value.
CassiniInv ==
    /\ CassiniTypes
    /\ \A n \in CxiNics : hw_prev[n] <= hw[n]
    /\ hw_owner = "new" => hw_thread = "none"
    /\ hw_thread \in {"none", "init"} => hw_prev = base /\ hw_total = 0
    /\ hw_total = SumFunctionOnSet(hw_prev, CxiNics) - SumFunctionOnSet(base, CxiNics)

LEMMA ReadingsGrow ==
    ASSUME CassiniInv, NEW n \in CxiNics, NEW val \in Readings(n)
    PROVE  val \in Nat /\ hw_prev[n] <= val /\ val <= hw[n]
<1>1. hw[n] \in Nat /\ hw_prev[n] \in Nat /\ hw_prev[n] <= hw[n]
  BY CassiniAssumption DEF CassiniInv, CassiniTypes
<1>2. val = hw_prev[n] \/ val = hw[n]
  BY <1>1 DEF Readings, ReadCassiniCounter, NoReading
<1>3. QED
  BY <1>1, <1>2

LEMMA CassiniStep == CassiniInv /\ [CassiniNext]_cassiniVars => CassiniInv'
<1> SUFFICES ASSUME CassiniInv, [CassiniNext]_cassiniVars PROVE CassiniInv'
  OBVIOUS
<1>1. ASSUME NEW n \in CxiNics, Count(n)
      PROVE  CassiniInv'
  BY <1>1, CassiniAssumption DEF Count, CassiniInv, CassiniTypes
<1>2. CASE HwStart
  <2>1. hw_thread' = "init" /\ todo' = CxiNics
    BY <1>2 DEF HwStart
  <2>2. QED
    BY <1>2, <2>1 DEF HwStart, CassiniInv, CassiniTypes
<1>3. ASSUME NEW n \in CxiNics, PollInit(n)
      PROVE  CassiniInv'
  <2>1. PICK val \in Readings(n) :
            /\ hw_prev' = [hw_prev EXCEPT ![n] = val]
            /\ base' = [base EXCEPT ![n] = val]
    BY <1>3 DEF PollInit
  <2>2. val \in Nat /\ val <= hw[n]
    BY <2>1, ReadingsGrow
  <2>3. hw_prev' = base' /\ hw_total' = 0 /\ CassiniTypes'
    BY <1>3, <2>1, <2>2 DEF PollInit, CassiniInv, CassiniTypes
  <2>4. \A m \in CxiNics : hw_prev'[m] <= hw'[m]
    BY <1>3, <2>1, <2>2 DEF PollInit, CassiniInv, CassiniTypes
  <2>5. SumFunctionOnSet(hw_prev', CxiNics) - SumFunctionOnSet(base', CxiNics) = 0
    <3>1. SumFunctionOnSet(base', CxiNics) \in Int
      BY <2>3, CassiniAssumption, TotalType DEF CassiniTypes
    <3>2. QED
      BY <2>3, <3>1
  <2>6. QED
    BY <1>3, <2>3, <2>4, <2>5 DEF PollInit, CassiniInv
<1>4. CASE PollLoopTest
  BY <1>4 DEF PollLoopTest, CassiniInv, CassiniTypes
<1>5. ASSUME NEW n \in CxiNics, PollNic(n)
      PROVE  CassiniInv'
  <2>1. PICK curr \in Readings(n) :
            /\ hw_prev' = [hw_prev EXCEPT ![n] = curr]
            /\ hw_total' = hw_total + (IF curr > hw_prev[n] THEN curr - hw_prev[n] ELSE 0)
            /\ flits' = flits + (IF curr > hw_prev[n] THEN curr - hw_prev[n] ELSE 0)
    BY <1>5 DEF PollNic
  <2>2. curr \in Nat /\ hw_prev[n] \in Nat /\ hw_prev[n] <= curr /\ curr <= hw[n]
    BY <2>1, ReadingsGrow DEF CassiniInv, CassiniTypes
  <2>3. hw_total' = hw_total + (curr - hw_prev[n]) /\ flits' = flits + (curr - hw_prev[n])
    BY <2>1, <2>2 DEF CassiniInv, CassiniTypes
  <2>4. /\ CassiniTypes' /\ base' = base /\ hw' = hw
        /\ hw_owner' # "new" /\ hw_thread' \notin {"none", "init"}
    <3>1. hw_thread' \in {"test", "read"} /\ hw_owner' = hw_owner /\ hw_owner # "new"
      BY <1>5 DEF PollNic, CassiniInv
    <3>2. hw_total' \in Nat /\ flits' \in Nat
      BY <2>2, <2>3 DEF CassiniInv, CassiniTypes
    <3>3. hw_prev' \in [CxiNics -> Nat]
      BY <2>1, <2>2 DEF CassiniInv, CassiniTypes
    <3>4. todo' \in SUBSET CxiNics /\ base' = base /\ hw' = hw
      BY <1>5 DEF PollNic, CassiniInv, CassiniTypes
    <3>5. QED
      BY <3>1, <3>2, <3>3, <3>4 DEF CassiniInv, CassiniTypes
  <2>5. \A m \in CxiNics : hw_prev'[m] <= hw'[m]
    BY <2>1, <2>2, <2>4 DEF CassiniInv, CassiniTypes
  <2>6. SumFunctionOnSet(hw_prev', CxiNics) = SumFunctionOnSet(hw_prev, CxiNics) + (curr - hw_prev[n])
    <3>1. /\ hw_prev \in [CxiNics -> Int] /\ hw_prev' \in [CxiNics -> Int]
          /\ hw_prev'[n] = curr
          /\ \A m \in CxiNics : m # n => hw_prev'[m] = hw_prev[m]
      BY <2>1, <2>4 DEF CassiniInv, CassiniTypes
    <3>2. QED
      BY <3>1, CassiniAssumption, TotalChanges
  <2>7. SumFunctionOnSet(hw_prev, CxiNics) \in Int /\ SumFunctionOnSet(base, CxiNics) \in Int
    BY CassiniAssumption, TotalType DEF CassiniInv, CassiniTypes
  <2>8. hw_total' = SumFunctionOnSet(hw_prev', CxiNics) - SumFunctionOnSet(base', CxiNics)
    BY <2>2, <2>3, <2>4, <2>6, <2>7 DEF CassiniInv
  <2>9. QED
    BY <2>4, <2>5, <2>8 DEF CassiniInv
<1>6. CASE HwStop
  BY <1>6 DEF HwStop, CassiniInv, CassiniTypes
<1>7. CASE HwClose
  BY <1>7 DEF HwClose, CassiniInv, CassiniTypes
<1>8. CASE UNCHANGED cassiniVars
  BY <1>8 DEF cassiniVars, CassiniInv, CassiniTypes
<1>9. QED
  BY <1>1, <1>2, <1>3, <1>4, <1>5, <1>6, <1>7, <1>8 DEF CassiniNext

\* Whatever reads fail, and whenever the library closes its descriptors under a
\* late poll, CassiniHWCounters counts every event of every NIC once.
THEOREM CountersAreExact == CassiniSpec => []EventsCountedOnce
<1>1. CassiniInit => CassiniInv
  <2> SUFFICES ASSUME CassiniInit PROVE CassiniInv
    OBVIOUS
  <2>1. CassiniTypes /\ (\A n \in CxiNics : hw_prev[n] <= hw[n]) /\ hw_prev = base /\ hw_total = 0
    BY CassiniAssumption DEF CassiniInit, CassiniTypes
  <2>2. SumFunctionOnSet(base, CxiNics) \in Int
    BY <2>1, CassiniAssumption, TotalType DEF CassiniTypes
  <2>3. QED
    BY <2>1, <2>2 DEF CassiniInv, CassiniInit
<1>2. CassiniInv => EventsCountedOnce
  <2>1. SumOver(hw_prev) = SumFunctionOnSet(hw_prev, CxiNics) /\ SumOver(base) = SumFunctionOnSet(base, CxiNics)
    BY DEF SumOver
  <2>2. QED
    BY <2>1 DEF CassiniInv, EventsCountedOnce
<1>3. QED
  BY <1>1, <1>2, CassiniStep, PTL DEF CassiniSpec

-------------------------------------------------------------------------------
(* LMCacheConnector                                                        *)

Items == [key : KvKeys, tensor : Nat]

ConnectorTypes ==
    /\ tensors \in [KvKeys -> Nat] /\ newest \in [KvKeys -> Nat]
    /\ queue \in Seq(Items) /\ hand \in Seq(Items) /\ Len(hand) <= 1
    /\ worker \in {"none", "test", "wait", "hold", "done", "raised"}
    /\ Len(hand) = 1 <=> worker \in {"hold", "raised"}
    /\ wrapped \in BOOLEAN /\ (~wrapped => worker = "none")

\* The same, of any sequence: all between `from` and `to`, once, in order.
InOrder(q, k, from, to) ==
    /\ \A i \in DOMAIN q : q[i].key = k => from < q[i].tensor /\ q[i].tensor <= to
    /\ \A i, j \in DOMAIN q : q[i].key = k /\ q[j].key = k /\ i < j => q[i].tensor < q[j].tensor
    /\ \A n \in (from + 1)..to : \E i \in DOMAIN q : q[i].key = k /\ q[i].tensor = n

ConnectorInv ==
    /\ ConnectorTypes
    /\ ~using_c => \A k \in KvKeys : /\ newest[k] <= tensors[k]
                                     /\ InOrder(Pending, k, newest[k], tensors[k])

LEMMA TensorsAreNumbers ==
    ASSUME NEW q \in Seq(Items)
    PROVE  \A i \in DOMAIN q : q[i] \in Items /\ q[i].tensor \in Nat
<1>1. \A i \in DOMAIN q : q[i] \in Items
  OBVIOUS
<1>2. \A x \in Items : x.tensor \in Nat
  BY DEF Items
<1>3. QED
  BY <1>1, <1>2

\* put() brings the next tensor of its key.
LEMMA AppendInOrder ==
    ASSUME NEW q \in Seq(Items), NEW k \in KvKeys, NEW m \in KvKeys, NEW n \in Nat,
           NEW from \in Nat, NEW to \in Nat, InOrder(q, m, from, to),
           from <= to, m = k => n = to + 1
    PROVE  InOrder(Append(q, Item(k, n)), m, from, IF m = k THEN to + 1 ELSE to)
<1> DEFINE r == Append(q, Item(k, n))
           up == IF m = k THEN to + 1 ELSE to
<1>1. /\ DOMAIN q = 1..Len(q) /\ DOMAIN r = 1..(Len(q) + 1) /\ Len(q) \in Nat
      /\ \A i \in 1..Len(q) : r[i] = q[i]
      /\ r[Len(q) + 1] = Item(k, n)
  OBVIOUS
<1>2. \A i \in DOMAIN q : q[i].tensor \in Nat
  BY TensorsAreNumbers
<1>3. Item(k, n).key = k /\ Item(k, n).tensor = n
  BY DEF Item
<1> HIDE DEF r
<1>4. ASSUME NEW i \in DOMAIN r, r[i].key = m
      PROVE  from < r[i].tensor /\ r[i].tensor <= up
  BY <1>1, <1>2, <1>3, <1>4 DEF InOrder
<1>5. ASSUME NEW i \in DOMAIN r, NEW j \in DOMAIN r, r[i].key = m, r[j].key = m, i < j
      PROVE  r[i].tensor < r[j].tensor
  <2>1. i \in 1..Len(q)
    BY <1>1, <1>5
  <2>2. CASE j \in 1..Len(q)
    BY <1>1, <1>5, <2>1, <2>2 DEF InOrder
  <2>3. CASE j = Len(q) + 1
    BY <1>1, <1>2, <1>3, <1>5, <2>1, <2>3 DEF InOrder
  <2>4. QED
    BY <1>1, <2>2, <2>3
<1>6. ASSUME NEW t \in (from + 1)..up
      PROVE  \E i \in DOMAIN r : r[i].key = m /\ r[i].tensor = t
  <2>1. CASE t \in (from + 1)..to
    BY <1>1, <2>1 DEF InOrder
  <2>2. CASE m = k /\ t = to + 1
    BY <1>1, <1>3, <2>2
  <2>3. QED
    BY <2>1, <2>2
<1>7. QED
  BY <1>4, <1>5, <1>6 DEF InOrder, r

\* A write takes the oldest tensor of its key: the next after the newest written.
LEMMA TailInOrder ==
    ASSUME NEW q \in Seq(Items), q # <<>>, NEW m \in KvKeys,
           NEW from \in Nat, NEW to \in Nat, InOrder(q, m, from, to)
    PROVE  InOrder(Tail(q), m, IF m = Head(q).key THEN Head(q).tensor ELSE from, to)
<1> DEFINE r == Tail(q)
           low == IF m = Head(q).key THEN Head(q).tensor ELSE from
<1>1. /\ Len(q) \in Nat \ {0} /\ DOMAIN q = 1..Len(q) /\ DOMAIN r = 1..(Len(q) - 1)
      /\ \A i \in 1..(Len(q) - 1) : r[i] = q[i + 1]
      /\ Head(q) = q[1]
  OBVIOUS
<1>2. \A i \in DOMAIN q : q[i].tensor \in Nat
  BY TensorsAreNumbers
<1> HIDE DEF r
<1>3. ASSUME NEW i \in DOMAIN r, r[i].key = m
      PROVE  low < r[i].tensor /\ r[i].tensor <= to
  <2>1. i + 1 \in DOMAIN q /\ r[i] = q[i + 1] /\ 1 \in DOMAIN q /\ 1 < i + 1
    BY <1>1
  <2>2. from < q[i + 1].tensor /\ q[i + 1].tensor <= to
    BY <1>3, <2>1 DEF InOrder
  <2>3. m = q[1].key => q[1].tensor < q[i + 1].tensor
    BY <1>3, <2>1 DEF InOrder
  <2>4. QED
    BY <1>1, <2>1, <2>2, <2>3
<1>4. ASSUME NEW i \in DOMAIN r, NEW j \in DOMAIN r, r[i].key = m, r[j].key = m, i < j
      PROVE  r[i].tensor < r[j].tensor
  <2>1. i + 1 \in DOMAIN q /\ j + 1 \in DOMAIN q /\ i + 1 < j + 1
    BY <1>1, <1>4
  <2>2. r[i] = q[i + 1] /\ r[j] = q[j + 1]
    BY <1>1
  <2>3. QED
    BY <1>4, <2>1, <2>2 DEF InOrder
<1>5. ASSUME NEW t \in (low + 1)..to
      PROVE  \E i \in DOMAIN r : r[i].key = m /\ r[i].tensor = t
  <2>1. 1 \in DOMAIN q /\ q[1].tensor \in Nat /\ t \in (from + 1)..to
    BY <1>1, <1>2 DEF InOrder
  <2>2. PICK i \in DOMAIN q : q[i].key = m /\ q[i].tensor = t
    BY <2>1 DEF InOrder
  <2>3. i # 1
    BY <1>1, <2>1, <2>2
  <2>4. i - 1 \in DOMAIN r /\ r[i - 1] = q[i]
    BY <1>1, <2>3
  <2>5. QED
    BY <2>2, <2>4
<1>6. QED
  BY <1>3, <1>4, <1>5 DEF InOrder, r

\* What is in the thread's hand goes before what is in the queue.
LEMMA PendingIs ==
    ASSUME ConnectorTypes
    PROVE  /\ Pending \in Seq(Items)
           /\ hand = <<>> => Pending = queue
           /\ hand # <<>> => /\ hand[1] \in Items /\ Pending # <<>>
                             /\ Head(Pending) = hand[1] /\ Tail(Pending) = queue
<1>1. hand \in Seq(Items) /\ queue \in Seq(Items) /\ Len(hand) <= 1
  BY DEF ConnectorTypes
<1>2. CASE hand = <<>>
  BY <1>1, <1>2 DEF Pending
<1>3. CASE hand # <<>>
  <2>1. Len(hand) = 1 /\ hand[1] \in Items
    <3>1. Len(hand) \in Nat /\ (Len(hand) = 0 => hand = <<>>)
      BY <1>1, EmptySeq, LenProperties
    <3>2. Len(hand) # 0 /\ Len(hand) <= 1
      BY <1>1, <1>3, <3>1
    <3>3. Len(hand) = 1
      <4>1. \A n \in Nat : n # 0 /\ n <= 1 => n = 1
        OBVIOUS
      <4>2. QED
        BY <3>1, <3>2, <4>1, Zenon
    <3>4. QED
      BY <1>1, <3>3
  <2>2. hand = <<hand[1]>>
    BY <1>1, <2>1
  <2>3. \A x \in Items : /\ <<x>> \o queue \in Seq(Items) /\ <<x>> \o queue # <<>>
                         /\ Head(<<x>> \o queue) = x /\ Tail(<<x>> \o queue) = queue
    BY <1>1
  <2>4. QED
    BY <1>3, <2>1, <2>2, <2>3 DEF Pending
<1>4. QED
  BY <1>2, <1>3

\* A step that leaves what is pending alone, and the numbers with it.
LEMMA PendingStays ==
    ASSUME ConnectorInv, ConnectorTypes', Pending' = Pending,
           newest' = newest, tensors' = tensors, using_c' = using_c
    PROVE  ConnectorInv'
<1>1. ASSUME ~using_c', NEW k \in KvKeys
      PROVE  newest'[k] <= tensors'[k] /\ InOrder(Pending', k, newest'[k], tensors'[k])
  BY <1>1 DEF ConnectorInv
<1>2. QED
  BY <1>1 DEF ConnectorInv

LEMMA StoreKvCacheKeeps ==
    ASSUME ConnectorInv, NEW k \in KvKeys, StoreKvCache(k)
    PROVE  ConnectorInv'
<1> DEFINE item == Item(k, tensors[k] + 1)
<1>1. /\ item \in Items /\ using_c' = using_c /\ tensors[k] + 1 \in Nat
      /\ tensors' = [tensors EXCEPT ![k] = @ + 1] /\ tensors' \in [KvKeys -> Nat]
  BY DEF StoreKvCache, ConnectorInv, ConnectorTypes, Item, Items
<1>2. CASE using_c
  <2>1. /\ worker' = worker /\ queue' = queue /\ hand' = hand
        /\ wrapped' = wrapped \/ wrapped' = TRUE
    BY <1>2 DEF StoreKvCache, Wrap, CAbsorb
  <2>2. newest' \in [KvKeys -> Nat]
    <3>1. item.tensor \in Nat
      BY <1>1 DEF Items
    <3>2. newest' = newest \/ newest' = [newest EXCEPT ![item.key] = item.tensor]
      BY <1>2 DEF StoreKvCache, CAbsorb, WriteBacking
    <3> HIDE DEF item
    <3>3. QED
      BY <3>1, <3>2 DEF ConnectorInv, ConnectorTypes
  <2>3. QED
    BY <1>1, <1>2, <2>1, <2>2 DEF ConnectorInv, ConnectorTypes
<1>3. CASE ~using_c
  <2>1. /\ queue' = Append(queue, item) /\ hand' = hand /\ newest' = newest
        /\ wrapped' = TRUE
        /\ worker' = IF ~wrapped THEN "test" ELSE worker
    BY <1>3 DEF StoreKvCache, Wrap, Absorb, EngineFails
  <2>2. ConnectorTypes'
    <3>1. queue' \in Seq(Items)
      BY <1>1, <2>1 DEF ConnectorInv, ConnectorTypes
    <3>2. Len(hand') = 1 <=> worker' \in {"hold", "raised"}
      BY <2>1 DEF ConnectorInv, ConnectorTypes
    <3>3. QED
      BY <1>1, <2>1, <3>1, <3>2 DEF ConnectorInv, ConnectorTypes
  <2>3. Pending' = Append(Pending, item)
    <3>1. hand \in Seq(Items) /\ queue \in Seq(Items)
      BY DEF ConnectorInv, ConnectorTypes
    <3>2. hand \o Append(queue, item) = Append(hand \o queue, item)
      BY <1>1, <3>1
    <3>3. QED
      BY <2>1, <3>2 DEF Pending
  <2>4. ASSUME NEW m \in KvKeys
        PROVE  newest'[m] <= tensors'[m] /\ InOrder(Pending', m, newest'[m], tensors'[m])
    <3>1. /\ newest[m] \in Nat /\ tensors[m] \in Nat /\ newest[m] <= tensors[m]
          /\ InOrder(Pending, m, newest[m], tensors[m])
      BY <1>3 DEF ConnectorInv, ConnectorTypes
    <3>2. tensors'[m] = IF m = k THEN tensors[m] + 1 ELSE tensors[m]
      BY <1>1 DEF ConnectorInv, ConnectorTypes
    <3>3. Pending \in Seq(Items)
      BY PendingIs DEF ConnectorInv
    <3>4. InOrder(Append(Pending, Item(k, tensors[k] + 1)), m, newest[m],
                  IF m = k THEN tensors[m] + 1 ELSE tensors[m])
      BY <1>1, <3>1, <3>3, AppendInOrder
    <3>5. QED
      BY <2>1, <2>3, <3>1, <3>2, <3>4
  <2>5. QED
    BY <1>1, <2>2, <2>4 DEF ConnectorInv
<1>4. QED
  BY <1>2, <1>3

LEMMA WorkerWriteKeeps ==
    ASSUME ConnectorInv, WorkerWrite
    PROVE  ConnectorInv'
<1>1. /\ worker = "hold" /\ hand # <<>> /\ hand' = <<>> /\ queue' = queue /\ worker' = "test"
      /\ newest' = [newest EXCEPT ![hand[1].key] = hand[1].tensor]
      /\ tensors' = tensors /\ using_c' = using_c /\ wrapped' = wrapped
  <2>1. worker = "hold" /\ Len(hand) = 1 /\ Len(<<>>) = 0
    BY DEF WorkerWrite, ConnectorInv, ConnectorTypes
  <2>2. hand # <<>>
    BY <2>1
  <2>3. QED
    BY <2>1, <2>2 DEF WorkerWrite, WriteBacking
<1>2. /\ Pending \in Seq(Items) /\ Pending # <<>> /\ hand[1] \in Items
      /\ Head(Pending) = hand[1] /\ Tail(Pending) = queue
  BY <1>1, PendingIs DEF ConnectorInv
<1>3. hand[1].key \in KvKeys /\ hand[1].tensor \in Nat
  BY <1>2 DEF Items
<1>4. ConnectorTypes'
  BY <1>1, <1>3 DEF ConnectorInv, ConnectorTypes
<1>5. Pending' = Tail(Pending)
  BY <1>1, <1>2, <1>4, PendingIs DEF Pending, ConnectorTypes
<1>6. ASSUME ~using_c, NEW m \in KvKeys
      PROVE  newest'[m] <= tensors'[m] /\ InOrder(Pending', m, newest'[m], tensors'[m])
  <2>1. /\ newest[m] \in Nat /\ tensors[m] \in Nat /\ newest[m] <= tensors[m]
        /\ InOrder(Pending, m, newest[m], tensors[m])
    BY <1>6 DEF ConnectorInv, ConnectorTypes
  <2>2. newest'[m] = IF m = hand[1].key THEN hand[1].tensor ELSE newest[m]
    BY <1>1 DEF ConnectorInv, ConnectorTypes
  <2>3. InOrder(Tail(Pending), m, IF m = Head(Pending).key THEN Head(Pending).tensor ELSE newest[m],
                tensors[m])
    BY <1>2, <2>1, TailInOrder
  <2>4. m = hand[1].key => hand[1].tensor <= tensors[m]
    <3>1. 1 \in DOMAIN Pending /\ Pending[1] = hand[1]
      BY <1>2
    <3>2. QED
      BY <2>1, <3>1 DEF InOrder
  <2>5. QED
    BY <1>1, <1>2, <1>5, <2>1, <2>2, <2>3, <2>4
<1>7. QED
  BY <1>1, <1>4, <1>6 DEF ConnectorInv

LEMMA ConnectorStep == ConnectorInv /\ [ConnectorNext]_connectorVars => ConnectorInv'
<1> SUFFICES ASSUME ConnectorInv, [ConnectorNext]_connectorVars PROVE ConnectorInv'
  OBVIOUS
<1>1. ASSUME NEW k \in KvKeys, StoreKvCache(k)
      PROVE  ConnectorInv'
  BY <1>1, StoreKvCacheKeeps
<1>2. ASSUME NEW k \in KvKeys, Delete(k)
      PROVE  ConnectorInv'
  BY <1>2, PendingStays DEF Delete, ConnectorInv, ConnectorTypes, Pending
<1>3. CASE WorkerTest
  BY <1>3, PendingStays DEF WorkerTest, ConnectorInv, ConnectorTypes, Pending
<1>4. CASE WorkerTake
  <2>1. /\ queue \in Seq(Items) /\ queue # <<>> /\ hand = <<>>
        /\ hand' = <<Head(queue)>> /\ queue' = Tail(queue) /\ worker' = "hold" /\ wrapped
    BY <1>4 DEF WorkerTake, ConnectorInv, ConnectorTypes
  <2>2. Head(queue) \in Items /\ Tail(queue) \in Seq(Items) /\ <<Head(queue)>> \o Tail(queue) = queue
    BY <2>1
  <2>3. Len(hand') = 1 /\ hand' \in Seq(Items)
    BY <2>1, <2>2
  <2>4. ConnectorTypes'
    BY <1>4, <2>1, <2>2, <2>3 DEF WorkerTake, ConnectorInv, ConnectorTypes
  <2>5. Pending' = Pending
    BY <2>1, <2>2, PendingIs DEF Pending, ConnectorInv
  <2>6. QED
    BY <1>4, <2>4, <2>5, PendingStays DEF WorkerTake
<1>5. CASE WorkerQuits
  BY <1>5, PendingStays DEF WorkerQuits, ConnectorInv, ConnectorTypes, Pending
<1>6. CASE WorkerWrite
  BY <1>6, WorkerWriteKeeps
<1>7. CASE WorkerFails
  BY <1>7, PendingStays DEF WorkerFails, ConnectorInv, ConnectorTypes, Pending
<1>8. CASE Close
  BY <1>8, PendingStays DEF Close, ConnectorInv, ConnectorTypes, Pending
<1>9. CASE CloseReturns
  BY <1>9, PendingStays DEF CloseReturns, ConnectorInv, ConnectorTypes, Pending
<1>10. CASE UNCHANGED connectorVars
  BY <1>10, PendingStays DEF connectorVars, ConnectorInv, ConnectorTypes, Pending
<1>11. QED
  BY <1>1, <1>2, <1>3, <1>4, <1>5, <1>6, <1>7, <1>8, <1>9, <1>10 DEF ConnectorNext, WorkerStep

\* The soft absorber loses nothing, doubles nothing and keeps the order of each
\* key, up to a close() and past a write that raises.
THEOREM AbsorberKeepsAll == ConnectorSpec => []PendingIsTheRest
<1>1. ConnectorInit => ConnectorInv
  <2> SUFFICES ASSUME ConnectorInit PROVE ConnectorInv
    OBVIOUS
  <2>1. ConnectorTypes /\ Pending = <<>> /\ \A k \in KvKeys : newest[k] = 0 /\ tensors[k] = 0
    <3>1. ConnectorTypes
      <4>1. /\ tensors \in [KvKeys -> Nat] /\ newest \in [KvKeys -> Nat]
            /\ wrapped = FALSE /\ worker = "none" /\ hand = <<>> /\ queue = <<>>
        BY DEF ConnectorInit
      <4>2. <<>> \in Seq(Items) /\ Len(<<>>) = 0
        OBVIOUS
      <4>3. hand \in Seq(Items) /\ queue \in Seq(Items) /\ Len(hand) = 0
        BY <4>1, <4>2
      <4>4. Len(hand) <= 1 /\ Len(hand) # 1
        BY <4>3
      <4>5. wrapped \in BOOLEAN /\ (~wrapped => worker = "none")
        BY <4>1
      <4>6. worker \in {"none", "test", "wait", "hold", "done", "raised"}
            /\ worker \notin {"hold", "raised"}
        BY <4>1
      <4>7. QED
        BY <4>1, <4>3, <4>4, <4>5, <4>6 DEF ConnectorTypes
    <3>2. Pending = <<>>
      BY <3>1, PendingIs DEF ConnectorInit
    <3>3. QED
      BY <3>1, <3>2 DEF ConnectorInit
  <2>2. QED
    BY <2>1 DEF ConnectorInv, InOrder
<1>2. ConnectorInv => PendingIsTheRest
  <2> SUFFICES ASSUME ConnectorInv, ~using_c, NEW k \in KvKeys
               PROVE  /\ {Pending[i].tensor : i \in Mine(k)} = (newest[k] + 1)..tensors[k]
                      /\ \A i, j \in Mine(k) : i < j => Pending[i].tensor < Pending[j].tensor
    BY DEF PendingIsTheRest
  <2>1. /\ newest[k] \in Nat /\ tensors[k] \in Nat
        /\ InOrder(Pending, k, newest[k], tensors[k])
    BY DEF ConnectorInv, ConnectorTypes
  <2>2. Pending \in Seq(Items)
    BY PendingIs DEF ConnectorInv
  <2>3. {Pending[i].tensor : i \in Mine(k)} = (newest[k] + 1)..tensors[k]
    <3>1. ASSUME NEW i \in Mine(k)
          PROVE  Pending[i].tensor \in (newest[k] + 1)..tensors[k]
      <4>1. i \in DOMAIN Pending /\ Pending[i].key = k
        BY DEF Mine
      <4>2. /\ Pending[i].tensor \in Nat
            /\ newest[k] < Pending[i].tensor /\ Pending[i].tensor <= tensors[k]
        BY <2>1, <2>2, <4>1, TensorsAreNumbers DEF InOrder
      <4>3. QED
        BY <2>1, <4>2
    <3>2. ASSUME NEW n \in (newest[k] + 1)..tensors[k]
          PROVE  \E i \in Mine(k) : Pending[i].tensor = n
      BY <2>1 DEF InOrder, Mine
    <3>3. QED
      BY <3>1, <3>2
  <2>4. QED
    BY <2>1, <2>3 DEF InOrder, Mine
<1>3. QED
  BY <1>1, <1>2, ConnectorStep, PTL DEF ConnectorSpec

-------------------------------------------------------------------------------
(* P2PCacheStore: the list of the keys in DRAM                             *)

\* q names the keys of D, each once.
Lists(q, D) ==
    /\ q \in Seq(Keys)
    /\ \A i, j \in 1..Len(q) : q[i] = q[j] => i = j
    /\ D = {q[i] : i \in 1..Len(q)}

LEMMA ListsRemoveAt ==
    ASSUME NEW D, NEW q, Lists(q, D), NEW i \in 1..Len(q)
    PROVE  Lists(RemoveAt(q, i), D \ {q[i]}) /\ Len(RemoveAt(q, i)) = Len(q) - 1
<1> DEFINE a == SubSeq(q, 1, i - 1)
           b == SubSeq(q, i + 1, Len(q))
           r == RemoveAt(q, i)
<1>1. q \in Seq(Keys) /\ Len(q) \in Nat /\ \A j \in 1..Len(q) : q[j] \in Keys
  BY DEF Lists
<1>2. /\ a \in Seq(Keys) /\ Len(a) = i - 1
      /\ \A j \in 1..(i - 1) : a[j] = q[j]
  BY <1>1, SubSeqProperties
<1>3. /\ b \in Seq(Keys) /\ Len(b) = Len(q) - i
      /\ \A j \in 1..(Len(q) - i) : b[j] = q[i + j]
  BY <1>1, SubSeqProperties
<1>4. /\ r \in Seq(Keys) /\ Len(r) = Len(q) - 1
      /\ \A j \in 1..(Len(q) - 1) : r[j] = IF j < i THEN q[j] ELSE q[j + 1]
  <2> HIDE DEF a, b
  <2>1. r = a \o b
    BY DEF RemoveAt, a, b
  <2>2. /\ a \o b \in Seq(Keys) /\ Len(a \o b) = Len(q) - 1
        /\ \A j \in 1..(Len(q) - 1) :
              (a \o b)[j] = IF j <= i - 1 THEN a[j] ELSE b[j - (i - 1)]
    <3>1. /\ a \o b \in Seq(Keys) /\ Len(a \o b) = Len(a) + Len(b)
          /\ \A j \in 1..(Len(a) + Len(b)) :
                (a \o b)[j] = IF j <= Len(a) THEN a[j] ELSE b[j - Len(a)]
      BY <1>2, <1>3, ConcatProperties, Zenon
    <3>2. Len(a) = i - 1 /\ Len(a) + Len(b) = Len(q) - 1
      BY <1>1, <1>2, <1>3
    <3>3. QED
      BY <3>1, <3>2, Zenon
  <2> HIDE DEF r
  <2>3. ASSUME NEW j \in 1..(Len(q) - 1)
        PROVE  r[j] = IF j < i THEN q[j] ELSE q[j + 1]
    <3>1. CASE j < i
      BY <1>1, <1>2, <2>1, <2>2, <3>1
    <3>2. CASE ~(j < i)
      <4>1. r[j] = b[j - (i - 1)] /\ j - (i - 1) \in 1..(Len(q) - i)
        BY <1>1, <2>1, <2>2, <3>2
      <4>2. i + (j - (i - 1)) = j + 1
        OBVIOUS
      <4>3. QED
        BY <1>3, <3>2, <4>1, <4>2
    <3>3. QED
      BY <3>1, <3>2
  <2>4. QED
    BY <1>1, <2>1, <2>2, <2>3
<1> HIDE DEF r
<1>5. ASSUME NEW j \in 1..Len(r), NEW m \in 1..Len(r), r[j] = r[m]
      PROVE  j = m
  <2> DEFINE f(n) == IF n < i THEN n ELSE n + 1
  <2>1. /\ i \in Int /\ j \in Int /\ m \in Int
        /\ f(j) \in 1..Len(q) /\ f(m) \in 1..Len(q)
    BY <1>1, <1>4
  <2>2. r[j] = q[f(j)] /\ r[m] = q[f(m)]
    BY <1>4
  <2>3. f(j) = f(m) => j = m
    BY <2>1
  <2> HIDE DEF f
  <2>4. QED
    BY <1>5, <2>1, <2>2, <2>3 DEF Lists
<1>6. ASSUME NEW j \in 1..Len(r)
      PROVE  r[j] \in D \ {q[i]}
  <2> DEFINE n == IF j < i THEN j ELSE j + 1
  <2>1. n \in 1..Len(q) /\ n # i /\ r[j] = q[n]
    BY <1>1, <1>4
  <2> HIDE DEF n
  <2>2. QED
    BY <2>1 DEF Lists
<1>7. ASSUME NEW x \in D \ {q[i]}
      PROVE  \E j \in 1..Len(r) : r[j] = x
  <2>1. PICK m \in 1..Len(q) : q[m] = x /\ m # i
    BY DEF Lists
  <2>2. CASE m < i
    BY <1>1, <1>4, <2>1, <2>2
  <2>3. CASE i < m
    <3>1. m - 1 \in 1..Len(r) /\ r[m - 1] = q[m]
      BY <1>1, <1>4, <2>1, <2>3
    <3>2. QED
      BY <2>1, <3>1
  <2>4. QED
    BY <2>1, <2>2, <2>3
<1>8. D \ {q[i]} = {r[j] : j \in 1..Len(r)}
  BY <1>6, <1>7
<1>9. Lists(r, D \ {q[i]})
  BY <1>4, <1>5, <1>8 DEF Lists
<1>10. QED
  BY <1>4, <1>9 DEF r

LEMMA ListsRemove ==
    ASSUME NEW D, NEW q, Lists(q, D), NEW k
    PROVE  /\ Lists(RemoveFirst(q, k), D \ {k})
           /\ Len(RemoveFirst(q, k)) = IF k \in D THEN Len(q) - 1 ELSE Len(q)
<1>1. CASE k \in D
  <2>1. PICK i \in 1..Len(q) : q[i] = k
    BY <1>1 DEF Lists
  <2>2. {j \in 1..Len(q) : q[j] = k} = {i}
    BY <2>1 DEF Lists
  <2>3. Min({i}) = i
    BY <2>1 DEF Min
  <2>4. SelectInSeq(q, LAMBDA v : v = k) = i
    BY <2>2, <2>3 DEF SelectInSeq
  <2>5. RemoveFirst(q, k) = RemoveAt(q, i)
    BY <2>1, <2>4 DEF RemoveFirst
  <2>6. Lists(RemoveAt(q, i), D \ {q[i]}) /\ Len(RemoveAt(q, i)) = Len(q) - 1
    BY <2>1, ListsRemoveAt
  <2>7. QED
    BY <1>1, <2>1, <2>5, <2>6
<1>2. CASE k \notin D
  <2>1. RemoveFirst(q, k) = q
    BY <1>2 DEF Lists, RemoveFirst
  <2>2. D \ {k} = D
    BY <1>2
  <2>3. QED
    BY <1>2, <2>1, <2>2
<1>3. QED
  BY <1>1, <1>2

LEMMA ListsAppend ==
    ASSUME NEW D, NEW q, Lists(q, D), NEW k \in Keys, k \notin D
    PROVE  Lists(Append(q, k), D \cup {k}) /\ Len(Append(q, k)) = Len(q) + 1
<1> DEFINE r == Append(q, k)
<1>1. /\ q \in Seq(Keys) /\ Len(q) \in Nat /\ r \in Seq(Keys) /\ Len(r) = Len(q) + 1
      /\ \A j \in 1..Len(q) : r[j] = q[j]
      /\ r[Len(q) + 1] = k
  BY DEF Lists
<1> HIDE DEF r
<1>2. \A j \in 1..Len(q) : q[j] # k
  BY DEF Lists
<1>3. ASSUME NEW j \in 1..Len(r), NEW m \in 1..Len(r), r[j] = r[m]
      PROVE  j = m
  <2>1. CASE j \in 1..Len(q) /\ m \in 1..Len(q)
    BY <1>1, <1>3, <2>1 DEF Lists
  <2>2. CASE j = Len(q) + 1 \/ m = Len(q) + 1
    BY <1>1, <1>2, <1>3, <2>2
  <2>3. QED
    BY <1>1, <2>1, <2>2
<1>4. {r[j] : j \in 1..Len(r)} = D \cup {k}
  <2>1. \A j \in 1..Len(r) : r[j] \in D \cup {k}
    BY <1>1 DEF Lists
  <2>2. \A x \in D : \E j \in 1..Len(r) : r[j] = x
    BY <1>1 DEF Lists
  <2>3. Len(q) + 1 \in 1..Len(r)
    BY <1>1
  <2>4. QED
    BY <1>1, <2>1, <2>2, <2>3
<1>5. QED
  BY <1>1, <1>3, <1>4 DEF Lists, r

-------------------------------------------------------------------------------
(* P2PCacheStore: what every operation keeps                               *)

Entries == [value : Int, size : Nat]

Stores == [dram : [Keys -> Entries], recent : Seq(Keys), dram_bytes : Int,
           nvme : [Keys -> Entries], nvme_bytes : Int, file : [Keys -> Entries]]

Resident(s) == {k \in Keys : s.dram[k] # NoEntry}

\* The copy in DRAM, e, against what may be on NVMe.
Newer(e, s, k) ==
    s.nvme[k] # NoEntry /\ s.file[k] # NoEntry =>
        \/ e.value > s.file[k].value
        \/ Simulation /\ e.value = s.file[k].value

\* With p the latest value put under each key.
Good(s, p) ==
    /\ s \in Stores
    /\ Lists(s.recent, Resident(s))
    /\ SizeIn(s.dram) <= s.dram_bytes
    /\ SizeIn(s.nvme) <= s.nvme_bytes /\ s.nvme_bytes <= NvmeLimit
    /\ \A k \in Keys : s.dram[k].value <= p[k] /\ s.file[k].value <= p[k]
    /\ \A k \in Keys : s.dram[k] # NoEntry => Newer(s.dram[k], s, k)

\* The DRAM budget.
Roomy(s) == SizeIn(s.dram) <= DramLimit \/ Len(s.recent) = 1

LEMMA EntriesAre ==
    /\ NoEntry \in Entries /\ TornFile \in Entries
    /\ NoEntry.size = 0 /\ NoEntry.value = 0 /\ TornFile.value = -1
    /\ \A e \in Entries : e.value \in Int /\ e.size \in Nat
BY DEF Entries, NoEntry, TornFile

LEMMA SizeInType ==
    ASSUME NEW tier \in [Keys -> Entries]
    PROVE  SizeIn(tier) \in Int
<1> DEFINE w == [k \in Keys |-> tier[k].size]
<1>1. w \in [Keys -> Int]
  BY EntriesAre
<1> HIDE DEF w
<1>2. SumFunctionOnSet(w, Keys) \in Int
  BY <1>1, StoreAssumption, TotalType
<1>3. QED
  BY <1>2 DEF SizeIn, w

LEMMA SizeInChanges ==
    ASSUME NEW tier \in [Keys -> Entries], NEW k \in Keys, NEW e \in Entries
    PROVE  /\ [tier EXCEPT ![k] = e] \in [Keys -> Entries]
           /\ SizeIn([tier EXCEPT ![k] = e]) = SizeIn(tier) + (e.size - tier[k].size)
<1> DEFINE new == [tier EXCEPT ![k] = e]
           v == [x \in Keys |-> tier[x].size]
           w == [x \in Keys |-> new[x].size]
<1>1. new \in [Keys -> Entries]
  OBVIOUS
<1>2. v \in [Keys -> Int] /\ w \in [Keys -> Int]
  BY <1>1, EntriesAre
<1>3. v[k] = tier[k].size /\ w[k] = e.size /\ \A x \in Keys : x # k => w[x] = v[x]
  OBVIOUS
<1> HIDE DEF v, w
<1>4. SumFunctionOnSet(w, Keys) = SumFunctionOnSet(v, Keys) + (w[k] - v[k])
  BY <1>2, <1>3, StoreAssumption, TotalChanges
<1>5. SizeIn(tier) = SumFunctionOnSet(v, Keys) /\ SizeIn(new) = SumFunctionOnSet(w, Keys)
  BY DEF SizeIn, v, w
<1>6. QED
  BY <1>1, <1>3, <1>4, <1>5

LEMMA SizeInEmpty ==
    ASSUME NEW tier \in [Keys -> Entries], \A k \in Keys : tier[k] = NoEntry
    PROVE  SizeIn(tier) = 0
<1> DEFINE w == [k \in Keys |-> tier[k].size]
<1>1. w \in [Keys -> Int] /\ \A k \in Keys : w[k] = 0
  BY EntriesAre
<1> HIDE DEF w
<1>2. SumFunctionOnSet(w, Keys) = 0
  BY <1>1, StoreAssumption, TotalOfNothing
<1>3. QED
  BY <1>2 DEF SizeIn, w

LEMMA GoodTypes ==
    ASSUME NEW s, NEW p, Good(s, p)
    PROVE  /\ s.dram \in [Keys -> Entries] /\ s.nvme \in [Keys -> Entries]
           /\ s.file \in [Keys -> Entries]
           /\ s.recent \in Seq(Keys) /\ s.dram_bytes \in Int /\ s.nvme_bytes \in Int
BY DEF Good, Stores

\* An entry joins the tier in DRAM.
LEMMA InsertedKeeps ==
    ASSUME NEW s, NEW p \in [Keys -> Nat], NEW q \in [Keys -> Nat], NEW k \in Keys,
           NEW e \in Entries, Good(s, p), e # NoEntry,
           \A m \in Keys : p[m] <= q[m], e.value <= q[k], Newer(e, s, k)
    PROVE  LET r == Inserted(s, k, e)
           IN  /\ Good(r, q)
               /\ r.nvme = s.nvme /\ r.nvme_bytes = s.nvme_bytes /\ r.file = s.file
               /\ Fits(s, e.size) => Roomy(r)
<1> DEFINE r == Inserted(s, k, e)
<1>1. /\ s.dram \in [Keys -> Entries] /\ s.nvme \in [Keys -> Entries]
      /\ s.file \in [Keys -> Entries]
      /\ s.recent \in Seq(Keys) /\ s.dram_bytes \in Int /\ s.nvme_bytes \in Int
  BY GoodTypes
<1>2. /\ r.dram = [s.dram EXCEPT ![k] = e] /\ r.recent = Append(RemoveFirst(s.recent, k), k)
      /\ r.dram_bytes = s.dram_bytes + e.size
      /\ r.nvme = s.nvme /\ r.nvme_bytes = s.nvme_bytes /\ r.file = s.file
  BY DEF Inserted, Good, Stores
<1> HIDE DEF r
<1>3. /\ Lists(r.recent, Resident(r))
      /\ s.recent = <<>> => Len(r.recent) = 1
  <2>1. /\ Lists(RemoveFirst(s.recent, k), Resident(s) \ {k})
        /\ Len(RemoveFirst(s.recent, k)) = IF k \in Resident(s) THEN Len(s.recent) - 1
                                           ELSE Len(s.recent)
    BY ListsRemove DEF Good
  <2>2. /\ Lists(r.recent, (Resident(s) \ {k}) \cup {k})
        /\ Len(r.recent) = Len(RemoveFirst(s.recent, k)) + 1
    <3> DEFINE D == Resident(s) \ {k}
               u == RemoveFirst(s.recent, k)
    <3>1. Lists(u, D) /\ k \notin D
      BY <2>1
    <3> HIDE DEF D, u
    <3>2. Lists(Append(u, k), D \cup {k}) /\ Len(Append(u, k)) = Len(u) + 1
      BY <3>1, ListsAppend
    <3>3. QED
      BY <1>2, <3>2 DEF D, u
  <2>3. (Resident(s) \ {k}) \cup {k} = Resident(r)
    BY <1>1, <1>2 DEF Resident
  <2>4. s.recent = <<>> => k \notin Resident(s) /\ Len(s.recent) = 0
    BY DEF Good, Lists
  <2>5. s.recent = <<>> => Len(r.recent) = 0 + 1
    BY <2>1, <2>2, <2>4, Zenon
  <2>6. Lists(r.recent, Resident(r))
    BY <2>2, <2>3, Zenon
  <2>7. QED
    BY <2>5, <2>6
<1>4. r \in Stores
  <2>1. r.recent \in Seq(Keys)
    BY <1>3 DEF Lists
  <2>2. r.dram \in [Keys -> Entries] /\ r.dram_bytes \in Int
    BY <1>1, <1>2, EntriesAre
  <2>3. QED
    BY <1>1, <1>2, <2>1, <2>2 DEF r, Inserted, Good, Stores
<1>5. /\ SizeIn(s.dram) \in Int /\ SizeIn(s.dram) <= s.dram_bytes
      /\ SizeIn(r.dram) = SizeIn(s.dram) + (e.size - s.dram[k].size)
      /\ e.size \in Nat /\ s.dram[k].size \in Nat
  <2>1. SizeIn(s.dram) \in Int /\ SizeIn(s.dram) <= s.dram_bytes
    BY <1>1, SizeInType DEF Good
  <2>2. SizeIn(r.dram) = SizeIn(s.dram) + (e.size - s.dram[k].size)
    <3>1. \A tier \in [Keys -> Entries] :
              SizeIn([tier EXCEPT ![k] = e]) = SizeIn(tier) + (e.size - tier[k].size)
      BY SizeInChanges
    <3>2. QED
      BY <1>1, <1>2, <3>1
  <2>3. e.size \in Nat /\ s.dram[k].size \in Nat
    BY <1>1, EntriesAre
  <2>4. QED
    BY <2>1, <2>2, <2>3
<1>6. SizeIn(r.dram) <= r.dram_bytes
  BY <1>1, <1>2, <1>5
<1>7. Fits(s, e.size) => Roomy(r)
  <2>1. s.dram_bytes + e.size <= DramLimit => SizeIn(r.dram) <= DramLimit
    BY <1>1, <1>5, StoreAssumption
  <2>2. QED
    BY <1>3, <2>1 DEF Fits, Roomy
<1>8. ASSUME NEW m \in Keys
      PROVE  /\ r.dram[m].value <= q[m] /\ r.file[m].value <= q[m]
             /\ r.dram[m] # NoEntry => Newer(r.dram[m], r, m)
  <2>1. /\ s.dram[m].value \in Int /\ s.file[m].value \in Int
        /\ s.dram[m].value <= p[m] /\ s.file[m].value <= p[m]
        /\ s.dram[m] # NoEntry => Newer(s.dram[m], s, m)
    BY <1>1, EntriesAre DEF Good
  <2>2. p[m] \in Nat /\ q[m] \in Nat /\ p[m] <= q[m]
    OBVIOUS
  <2>3. r.dram[m] = IF m = k THEN e ELSE s.dram[m]
    BY <1>1, <1>2
  <2>4. Newer(r.dram[m], r, m) <=> Newer(r.dram[m], s, m)
    BY <1>2 DEF Newer
  <2>5. QED
    BY <1>2, <2>1, <2>2, <2>3, <2>4
<1>9. SizeIn(r.nvme) <= r.nvme_bytes /\ r.nvme_bytes <= NvmeLimit
  BY <1>2 DEF Good
<1>10. Good(r, q)
  BY <1>3, <1>4, <1>6, <1>8, <1>9 DEF Good
<1>11. QED
  BY <1>2, <1>7, <1>10 DEF r

\* An entry leaves DRAM, and b bytes are counted from then on.
Popped(s, k, b) == [s EXCEPT !.dram[k] = NoEntry, !.recent = RemoveFirst(@, k), !.dram_bytes = b]

LEMMA PoppedKeeps ==
    ASSUME NEW s, NEW p \in [Keys -> Nat], NEW k \in Keys, NEW b \in Int, Good(s, p),
           s.dram_bytes - s.dram[k].size <= b
    PROVE  LET r == Popped(s, k, b)
           IN  /\ Good(r, p)
               /\ r.dram = [s.dram EXCEPT ![k] = NoEntry]
               /\ r.nvme = s.nvme /\ r.nvme_bytes = s.nvme_bytes /\ r.file = s.file
               /\ Len(r.recent) = IF k \in Resident(s) THEN Len(s.recent) - 1 ELSE Len(s.recent)
               /\ SizeIn(r.dram) <= SizeIn(s.dram)
<1> DEFINE r == Popped(s, k, b)
<1>1. /\ s.dram \in [Keys -> Entries] /\ s.nvme \in [Keys -> Entries]
      /\ s.file \in [Keys -> Entries]
      /\ s.recent \in Seq(Keys) /\ s.dram_bytes \in Int /\ s.nvme_bytes \in Int
  BY GoodTypes
<1>2. /\ r.dram = [s.dram EXCEPT ![k] = NoEntry] /\ r.recent = RemoveFirst(s.recent, k)
      /\ r.dram_bytes = b
      /\ r.nvme = s.nvme /\ r.nvme_bytes = s.nvme_bytes /\ r.file = s.file
  BY DEF Popped, Good, Stores
<1> HIDE DEF r
<1>3. /\ Lists(r.recent, Resident(r))
      /\ Len(r.recent) = IF k \in Resident(s) THEN Len(s.recent) - 1 ELSE Len(s.recent)
  <2>1. /\ Lists(r.recent, Resident(s) \ {k})
        /\ Len(r.recent) = IF k \in Resident(s) THEN Len(s.recent) - 1 ELSE Len(s.recent)
    <3>1. /\ Lists(RemoveFirst(s.recent, k), Resident(s) \ {k})
          /\ Len(RemoveFirst(s.recent, k)) = IF k \in Resident(s) THEN Len(s.recent) - 1
                                             ELSE Len(s.recent)
      BY ListsRemove DEF Good
    <3>2. QED
      BY <1>2, <3>1, Zenon
  <2>2. Resident(s) \ {k} = Resident(r)
    BY <1>1, <1>2 DEF Resident
  <2>3. QED
    BY <2>1, <2>2, Zenon
<1>4. r \in Stores
  <2>1. r.recent \in Seq(Keys)
    BY <1>3 DEF Lists
  <2>2. r.dram \in [Keys -> Entries]
    BY <1>1, <1>2, EntriesAre
  <2>3. QED
    BY <1>1, <1>2, <2>1, <2>2 DEF r, Popped, Good, Stores
<1>5. /\ SizeIn(s.dram) \in Int /\ SizeIn(s.dram) <= s.dram_bytes
      /\ SizeIn(r.dram) = SizeIn(s.dram) + (0 - s.dram[k].size)
      /\ s.dram[k].size \in Nat
  <2>1. SizeIn(s.dram) \in Int /\ SizeIn(s.dram) <= s.dram_bytes
    BY <1>1, SizeInType DEF Good
  <2>2. SizeIn(r.dram) = SizeIn(s.dram) + (0 - s.dram[k].size)
    <3>1. \A tier \in [Keys -> Entries] :
              SizeIn([tier EXCEPT ![k] = NoEntry]) = SizeIn(tier) + (NoEntry.size - tier[k].size)
      BY SizeInChanges, EntriesAre
    <3>2. NoEntry.size = 0
      BY EntriesAre
    <3>3. QED
      BY <1>1, <1>2, <3>1, <3>2
  <2>3. s.dram[k].size \in Nat
    BY <1>1, EntriesAre
  <2>4. QED
    BY <2>1, <2>2, <2>3
<1>6. SizeIn(r.dram) <= r.dram_bytes /\ SizeIn(r.dram) <= SizeIn(s.dram)
  BY <1>1, <1>2, <1>5
<1>7. ASSUME NEW m \in Keys
      PROVE  /\ r.dram[m].value <= p[m] /\ r.file[m].value <= p[m]
             /\ r.dram[m] # NoEntry => Newer(r.dram[m], r, m)
  <2>1. r.dram[m] = IF m = k THEN NoEntry ELSE s.dram[m]
    BY <1>1, <1>2
  <2>2. 0 <= p[m] /\ NoEntry.value = 0
    BY EntriesAre
  <2>3. Newer(r.dram[m], r, m) <=> Newer(r.dram[m], s, m)
    BY <1>2 DEF Newer
  <2>4. QED
    BY <1>2, <2>1, <2>2, <2>3 DEF Good
<1>8. SizeIn(r.nvme) <= r.nvme_bytes /\ r.nvme_bytes <= NvmeLimit
  BY <1>2 DEF Good
<1>9. Good(r, p)
  BY <1>3, <1>4, <1>6, <1>7, <1>8 DEF Good
<1>10. QED
  BY <1>2, <1>3, <1>6, <1>9 DEF r

\* A key that is not in DRAM enters or leaves the NVMe index, with e or nothing,
\* and its file becomes f.
Indexed(s, k, e, b, f) == [s EXCEPT !.nvme[k] = e, !.nvme_bytes = b, !.file[k] = f]

LEMMA IndexedKeeps ==
    ASSUME NEW s, NEW p \in [Keys -> Nat], NEW k \in Keys, NEW e \in Entries, NEW f \in Entries,
           NEW b \in Int, Good(s, p), f.value <= p[k], b <= NvmeLimit,
           s.nvme_bytes + (e.size - s.nvme[k].size) <= b,
           s.dram[k] = NoEntry \/ e = NoEntry
    PROVE  LET r == Indexed(s, k, e, b, f)
           IN  /\ Good(r, p)
               /\ r.dram = s.dram /\ r.recent = s.recent /\ r.dram_bytes = s.dram_bytes
               /\ r.nvme = [s.nvme EXCEPT ![k] = e] /\ r.file = [s.file EXCEPT ![k] = f]
<1> DEFINE r == Indexed(s, k, e, b, f)
<1>1. /\ s.dram \in [Keys -> Entries] /\ s.nvme \in [Keys -> Entries]
      /\ s.file \in [Keys -> Entries]
      /\ s.recent \in Seq(Keys) /\ s.dram_bytes \in Int /\ s.nvme_bytes \in Int
  BY GoodTypes
<1>2. /\ r.dram = s.dram /\ r.recent = s.recent /\ r.dram_bytes = s.dram_bytes
      /\ r.nvme = [s.nvme EXCEPT ![k] = e] /\ r.nvme_bytes = b
      /\ r.file = [s.file EXCEPT ![k] = f]
  BY DEF Indexed, Good, Stores
<1>3. r \in Stores
  BY <1>1 DEF Indexed, Good, Stores
<1> HIDE DEF r
<1>4. Lists(r.recent, Resident(r))
  BY <1>2 DEF Good, Resident
<1>5. SizeIn(r.nvme) <= r.nvme_bytes
  <2>1. SizeIn(s.nvme) \in Int /\ SizeIn(s.nvme) <= s.nvme_bytes
    BY <1>1, SizeInType DEF Good
  <2>2. SizeIn(r.nvme) = SizeIn(s.nvme) + (e.size - s.nvme[k].size)
    <3>1. \A tier \in [Keys -> Entries] :
              SizeIn([tier EXCEPT ![k] = e]) = SizeIn(tier) + (e.size - tier[k].size)
      BY SizeInChanges
    <3>2. QED
      BY <1>1, <1>2, <3>1
  <2>3. e.size \in Nat /\ s.nvme[k].size \in Nat
    BY <1>1, EntriesAre
  <2>4. QED
    BY <1>1, <1>2, <2>1, <2>2, <2>3
<1>6. ASSUME NEW m \in Keys
      PROVE  /\ r.dram[m].value <= p[m] /\ r.file[m].value <= p[m]
             /\ r.dram[m] # NoEntry => Newer(r.dram[m], r, m)
  <2>1. CASE m = k
    <3>1. r.file[m] = f /\ r.nvme[m] = e /\ r.dram[m] = s.dram[m]
      BY <1>1, <1>2, <2>1
    <3>2. QED
      BY <2>1, <3>1 DEF Good, Newer
  <2>2. CASE m # k
    <3>1. r.file[m] = s.file[m] /\ r.nvme[m] = s.nvme[m] /\ r.dram[m] = s.dram[m]
      BY <1>1, <1>2, <2>2
    <3>2. Newer(r.dram[m], r, m) <=> Newer(s.dram[m], s, m)
      BY <3>1 DEF Newer
    <3>3. QED
      BY <3>1, <3>2 DEF Good
  <2>3. QED
    BY <2>1, <2>2
<1>7. SizeIn(r.dram) <= r.dram_bytes /\ r.nvme_bytes <= NvmeLimit
  BY <1>2 DEF Good
<1>8. Good(r, p)
  BY <1>3, <1>4, <1>5, <1>6, <1>7 DEF Good
<1>9. QED
  BY <1>2, <1>8 DEF r

Outcomes == {"written", "unopened", "torn"}

LEMMA SpillKeeps ==
    ASSUME NEW s, NEW p \in [Keys -> Nat], NEW outcome \in Outcomes, Good(s, p), s.recent # <<>>
    PROVE  LET k == Head(s.recent)
               r == Spill(s, k, outcome)
           IN  /\ Good(r, p)
               /\ Len(r.recent) = Len(s.recent) - 1
               /\ k \in Resident(s)
               /\ \A m \in Keys : m # k => /\ r.dram[m] = s.dram[m]
                                           /\ r.nvme[m] = s.nvme[m] /\ r.file[m] = s.file[m]
<1> DEFINE k == Head(s.recent)
           e == s.dram[k]
           b == s.dram_bytes - e.size
           t == Popped(s, k, b)
           f == Written(s, k, outcome)
           u == Indexed(t, k, e, t.nvme_bytes + e.size, f)
           r == Spill(s, k, outcome)
<1>1. /\ s.dram \in [Keys -> Entries] /\ s.nvme \in [Keys -> Entries]
      /\ s.file \in [Keys -> Entries]
      /\ s.recent \in Seq(Keys) /\ s.dram_bytes \in Int /\ s.nvme_bytes \in Int
  BY GoodTypes
<1>2. k \in Keys /\ k \in Resident(s)
  <2>1. Len(s.recent) \in Nat /\ 1 \in 1..Len(s.recent) /\ k = s.recent[1]
    BY <1>1
  <2>2. QED
    BY <2>1 DEF Good, Lists, Resident
<1>3. e \in Entries /\ e.size \in Nat /\ b \in Int
  BY <1>1, <1>2, EntriesAre
<1>4. /\ Good(t, p) /\ t.dram = [s.dram EXCEPT ![k] = NoEntry]
      /\ t.nvme = s.nvme /\ t.nvme_bytes = s.nvme_bytes /\ t.file = s.file
      /\ Len(t.recent) = Len(s.recent) - 1
  <2> HIDE DEF k, b
  <2>1. s.dram_bytes - s.dram[k].size <= b
    BY <1>1, <1>3 DEF b
  <2>2. QED
    BY <1>2, <1>3, <2>1, PoppedKeeps
<1>5. r = t \/ (s.nvme_bytes + e.size <= NvmeLimit /\ r = u)
  <2>1. t = [s EXCEPT !.dram[k] = NoEntry, !.recent = RemoveFirst(@, k),
                      !.dram_bytes = @ - e.size]
    BY DEF Popped, Good, Stores
  <2>2. CASE s.nvme_bytes + e.size > NvmeLimit
    BY <2>1, <2>2 DEF Spill
  <2>3. CASE ~(s.nvme_bytes + e.size > NvmeLimit)
    <3>1. r = [t EXCEPT !.nvme[k] = e, !.nvme_bytes = @ + e.size, !.file[k] = f]
      BY <2>1, <2>3 DEF Spill
    <3>2. [t EXCEPT !.nvme[k] = e, !.nvme_bytes = @ + e.size, !.file[k] = f] = u
      <4> HIDE DEF t, e, f, k
      <4>1. t \in Stores
        BY <1>4 DEF Good
      <4>2. QED
        BY <4>1 DEF Indexed, Stores
    <3>3. s.nvme_bytes + e.size <= NvmeLimit
      <4>1. s.nvme_bytes + e.size \in Int /\ NvmeLimit \in Int
        BY <1>1, <1>3, StoreAssumption
      <4> HIDE DEF e
      <4>2. QED
        BY <2>3, <4>1
    <3>4. QED
      BY <3>1, <3>2, <3>3
  <2>4. QED
    BY <2>2, <2>3
<1>6. f \in Entries /\ f.value <= p[k]
  <2>1. outcome = "written" \/ outcome = "unopened" \/ outcome = "torn"
    BY DEF Outcomes
  <2>2. f = e \/ f = s.file[k] \/ f = TornFile
    BY <2>1 DEF Written
  <2>3. e.value <= p[k] /\ s.file[k].value <= p[k] /\ -1 <= p[k]
    BY <1>2 DEF Good
  <2>4. QED
    BY <1>1, <1>2, <1>3, <2>2, <2>3, EntriesAre
<1>7. s.nvme_bytes + e.size <= NvmeLimit =>
        /\ Good(u, p)
        /\ u.dram = t.dram /\ u.recent = t.recent
        /\ u.nvme = [t.nvme EXCEPT ![k] = e] /\ u.file = [t.file EXCEPT ![k] = f]
  <2> HIDE DEF t, e, f, k
  <2>1. t.nvme[k].size \in Nat /\ t.nvme_bytes \in Int /\ t.dram[k] = NoEntry
    BY <1>1, <1>2, <1>4, EntriesAre
  <2>2. t.nvme_bytes + (e.size - t.nvme[k].size) <= t.nvme_bytes + e.size
    BY <1>3, <2>1
  <2> DEFINE c == t.nvme_bytes + e.size
  <2>3. ASSUME c <= NvmeLimit
        PROVE  /\ Good(u, p)
               /\ u.dram = t.dram /\ u.recent = t.recent
               /\ u.nvme = [t.nvme EXCEPT ![k] = e] /\ u.file = [t.file EXCEPT ![k] = f]
    <3>1. c \in Int
      BY <1>3, <2>1
    <3> HIDE DEF c
    <3>2. LET x == Indexed(t, k, e, c, f)
          IN  /\ Good(x, p) /\ x.dram = t.dram /\ x.recent = t.recent
              /\ x.nvme = [t.nvme EXCEPT ![k] = e] /\ x.file = [t.file EXCEPT ![k] = f]
      <4>1. t.nvme_bytes + (e.size - t.nvme[k].size) <= c
        BY <2>2 DEF c
      <4>2. QED
        <5>1. /\ Good(t, p) /\ k \in Keys /\ e \in Entries /\ f \in Entries
              /\ f.value <= p[k] /\ c <= NvmeLimit /\ t.dram[k] = NoEntry
          BY <1>2, <1>3, <1>4, <1>6, <2>1, <2>3
        <5>2. QED
          BY ONLY p \in [Keys -> Nat], <3>1, <4>1, <5>1, IndexedKeeps
    <3>3. QED
      BY <3>2 DEF c
  <2>4. t.nvme_bytes = s.nvme_bytes
    BY <1>4
  <2>5. QED
    BY <2>3, <2>4
<1> HIDE DEF r, u, t, f, e, b, k
<1>8. Good(r, p) /\ Len(r.recent) = Len(s.recent) - 1
  BY <1>4, <1>5, <1>7
<1>9. ASSUME NEW m \in Keys, m # k
      PROVE  r.dram[m] = s.dram[m] /\ r.nvme[m] = s.nvme[m] /\ r.file[m] = s.file[m]
  BY <1>1, <1>4, <1>5, <1>7, <1>9
<1>10. QED
  BY <1>2, <1>8, <1>9 DEF r, k

\* The loop of _evict_dram_if_needed() stays within X, if a turn does, and ends
\* when the bytes fit: a turn takes one key out of DRAM, and there are as many
\* turns as keys.
LEMMA EvictLoop ==
    ASSUME NEW needed, NEW bad, NEW how, NEW X, NEW st \in X,
           \A s \in X : s.recent \in Seq(Keys),
           \A s \in X : EvictTurn(s, needed, bad, how) \in X,
           \A s \in X : ~Fits(s, needed) =>
              Len(EvictTurn(s, needed, bad, how).recent) = Len(s.recent) - 1
    PROVE  LET r == EvictDramIfNeeded(st, needed, bad, how)
           IN  r \in X /\ Fits(r, needed)
<1> DEFINE N == Len(st.recent)
           F == [s \in X |-> EvictTurn(s, needed, bad, how)]
           G == [n \in 1..N |-> F]
           Eqn(f) == [n \in 0..N |-> IF n = 0 THEN st
                                     ELSE EvictTurn(f[n - 1], needed, bad, how)]
           after == CHOOSE f : f = Eqn(f)
<1>1. N \in Nat
  BY LenProperties
<1>2. \E h : h = Eqn(h)
  <2>1. F \in [X -> X]
    OBVIOUS
  <2>2. PICK h : Turns(h, X, N, st, G)
    <3> HIDE DEF F, N
    <3>1. QED
      BY <1>1, <2>1, TurnsExist
  <2>3. \A n \in 1..N : n - 1 \in 0..N /\ h[n - 1] \in X
    BY <1>1, <2>2 DEF Turns
  <2>4. \A n \in 1..N : h[n] = EvictTurn(h[n - 1], needed, bad, how)
    BY <2>2, <2>3 DEF Turns
  <2>5. h = [n \in 0..N |-> h[n]] /\ h[0] = st
    BY <2>2 DEF Turns
  <2> HIDE DEF N
  <2>6. h = Eqn(h)
    <3>1. \A n \in 0..N : n # 0 => n \in 1..N
      BY <1>1
    <3>2. QED
      BY <2>4, <2>5, <3>1
  <2>7. QED
    BY <2>6
<1>3. after = Eqn(after)
  <2> HIDE DEF Eqn
  <2>1. QED
    BY <1>2
<1>4. EvictDramIfNeeded(st, needed, bad, how) = after[N]
  BY DEF EvictDramIfNeeded
<1> HIDE DEF after
<1> DEFINE Done(n) == /\ after[n] \in X
                      /\ Fits(after[n], needed) \/ Len(after[n].recent) = N - n
           T == {n \in 0..N : Done(n)}
<1>5. 0 \in T
  BY <1>1, <1>3
<1>6. ASSUME NEW n \in T, n < N
      PROVE  n + 1 \in T
  <2>1. n + 1 \in 0..N /\ after[n + 1] = EvictTurn(after[n], needed, bad, how)
    <3>1. n + 1 \in 0..N /\ n + 1 # 0 /\ (n + 1) - 1 = n
      BY <1>1, <1>6
    <3>2. QED
      BY <1>3, <3>1
  <2>2. CASE Fits(after[n], needed)
    <3>1. after[n + 1] = after[n]
      BY <2>1, <2>2 DEF EvictTurn
    <3>2. QED
      BY <2>1, <2>2, <3>1
  <2>3. CASE ~Fits(after[n], needed)
    <3>1. after[n] \in X /\ Len(after[n].recent) = N - n
      BY <2>3
    <3>2. after[n + 1] \in X /\ Len(after[n + 1].recent) = (N - n) - 1
      BY <2>1, <2>3, <3>1
    <3>3. n \in Int /\ N \in Int
      BY <1>1
    <3> HIDE DEF N
    <3>4. (N - n) - 1 = N - (n + 1)
      BY <3>3
    <3>5. QED
      BY <2>1, <3>2, <3>4
  <2>4. QED
    BY <2>2, <2>3
<1>7. N \in T
  <2>1. T \in SUBSET (0..N)
    OBVIOUS
  <2> HIDE DEF T, N
  <2>2. T = 0..N
    BY <1>1, <1>5, <1>6, <2>1, EachTurn
  <2>3. QED
    BY <1>1, <2>2
<1>8. after[N] \in X /\ Fits(after[N], needed)
  <2>1. Len(after[N].recent) = 0 => after[N].recent = <<>>
    BY <1>7, EmptySeq
  <2>2. QED
    BY <1>1, <1>7, <2>1 DEF Fits
<1>9. QED
  BY <1>4, <1>8

\* Evicting keeps the store good, and passes by a key that is not in DRAM.
LEMMA EvictKeeps ==
    ASSUME NEW st, NEW p \in [Keys -> Nat], Good(st, p), NEW needed, NEW bad,
           NEW how \in {"unopened", "torn"}, NEW k \in Keys
    PROVE  LET r == EvictDramIfNeeded(st, needed, bad, how)
           IN  /\ Good(r, p) /\ Fits(r, needed)
               /\ st.dram[k] = NoEntry =>
                    /\ r.dram[k] = NoEntry
                    /\ r.nvme[k] = st.nvme[k] /\ r.file[k] = st.file[k]
<1> DEFINE Same(s) == st.dram[k] = NoEntry =>
                        /\ s.dram[k] = NoEntry
                        /\ s.nvme[k] = st.nvme[k] /\ s.file[k] = st.file[k]
           X == {s \in Stores : Good(s, p) /\ Same(s)}
           r == EvictDramIfNeeded(st, needed, bad, how)
<1>1. st \in X
  BY DEF Good
<1>2. \A s \in X : s.recent \in Seq(Keys)
  BY GoodTypes
<1>3. ASSUME NEW s \in X, ~Fits(s, needed)
      PROVE  /\ EvictTurn(s, needed, bad, how) \in X
             /\ Len(EvictTurn(s, needed, bad, how).recent) = Len(s.recent) - 1
  <2> DEFINE victim == Head(s.recent)
             outcome == IF victim \in bad THEN how ELSE "written"
             t == Spill(s, victim, outcome)
  <2>1. EvictTurn(s, needed, bad, how) = t
    BY <1>3 DEF EvictTurn
  <2>2. outcome \in Outcomes /\ s.recent # <<>> /\ Good(s, p)
    BY <1>3 DEF Outcomes, Fits
  <2> HIDE DEF outcome
  <2>3. /\ Good(t, p) /\ Len(t.recent) = Len(s.recent) - 1 /\ victim \in Resident(s)
        /\ \A m \in Keys : m # victim => /\ t.dram[m] = s.dram[m]
                                         /\ t.nvme[m] = s.nvme[m] /\ t.file[m] = s.file[m]
    BY <2>2, SpillKeeps
  <2> HIDE DEF t, victim
  <2>4. Same(t)
    BY <2>3 DEF Resident
  <2>5. t \in X
    BY <2>3, <2>4 DEF Good
  <2>6. QED
    BY <2>1, <2>3, <2>5
<1>4. \A s \in X : EvictTurn(s, needed, bad, how) \in X
  <2>1. \A s \in X : Fits(s, needed) => EvictTurn(s, needed, bad, how) = s
    BY DEF EvictTurn
  <2> HIDE DEF X
  <2>2. QED
    BY <1>3, <2>1
<1>5. r \in X /\ Fits(r, needed)
  <2> HIDE DEF X
  <2>1. QED
    BY <1>1, <1>2, <1>3, <1>4, EvictLoop
<1>6. QED
  BY <1>5

\* With q the values put once this put() is done.
LEMMA LocalPutKeeps ==
    ASSUME NEW s, NEW p \in [Keys -> Nat], NEW q \in [Keys -> Nat], NEW k \in Keys,
           NEW bad, NEW how \in {"unopened", "torn"}, Good(s, p),
           \A m \in Keys : p[m] <= q[m], p[k] < q[k] \/ Simulation
    PROVE  LET r == LocalPut(s, k, q[k], bad, how) IN Good(r, q) /\ Roomy(r)
<1> DEFINE e == Entry(q[k], Size[k])
           room == EvictDramIfNeeded(s, Size[k], bad, how)
           r == LocalPut(s, k, q[k], bad, how)
<1>1. /\ e \in Entries /\ e # NoEntry /\ e.value = q[k] /\ e.size = Size[k]
  BY StoreAssumption DEF Entry, Entries, NoEntry
<1> HIDE DEF e
<1>2. Good(room, p) /\ Fits(room, Size[k])
  BY EvictKeeps
<1> HIDE DEF room
<1>3. Newer(e, room, k)
  <2>1. room.file[k].value \in Int /\ room.file[k].value <= p[k]
    BY <1>2, GoodTypes, EntriesAre DEF Good
  <2>2. p[k] \in Nat /\ q[k] \in Nat /\ p[k] <= q[k]
    OBVIOUS
  <2>3. room.file[k].value < q[k] \/ (Simulation /\ room.file[k].value = q[k])
    BY <2>1, <2>2
  <2>4. QED
    BY <1>1, <2>1, <2>2, <2>3 DEF Newer
<1>4. r = Inserted(room, k, e)
  BY DEF LocalPut, e, room
<1>5. e.value <= q[k]
  BY <1>1
<1>6. LET x == Inserted(room, k, e)
      IN  Good(x, q) /\ (Fits(room, e.size) => Roomy(x))
  BY <1>1, <1>2, <1>3, <1>5, InsertedKeeps
<1>7. QED
  BY <1>1, <1>2, <1>4, <1>6

LEMMA PutOnOwnersKeeps ==
    ASSUME NEW st, NEW p \in [Keys -> Nat], NEW q \in [Keys -> Nat], NEW k \in Keys,
           NEW bad, NEW how \in {"unopened", "torn"}, Good(st, p), Roomy(st),
           q = [p EXCEPT ![k] = @ + 1]
    PROVE  LET r == PutOnOwners(st, k, q[k], bad, how) IN Good(r, q) /\ Roomy(r)
<1> DEFINE N == Cardinality(LocalOwners(k))
           Eqn(f) == [i \in 0..N |-> IF i = 0 THEN st
                                     ELSE LocalPut(f[i - 1], k, q[k], bad, how)]
           after == CHOOSE f : f = Eqn(f)
           X == {s \in Stores : Good(s, q) /\ Roomy(s)}
<1>1. N \in Nat /\ (~Simulation => N <= 1)
  <2>1. IsFiniteSet(LocalOwners(k)) /\ LocalOwners(k) \in SUBSET Ranks
    BY StoreAssumption, FS_Subset DEF LocalOwners
  <2>2. ~Simulation => LocalOwners(k) \in SUBSET {Me}
    BY DEF LocalOwners, IsLocal
  <2>3. IsFiniteSet({Me}) /\ Cardinality({Me}) = 1
    BY FS_Singleton
  <2>4. N \in Nat
    BY <2>1, FS_CardinalityType
  <2>5. ASSUME ~Simulation
        PROVE  N <= 1
    BY <2>2, <2>3, <2>5, FS_Subset
  <2>6. QED
    BY <2>4, <2>5
<1>2. PutOnOwners(st, k, q[k], bad, how) = after[N]
  BY DEF PutOnOwners
<1>3. (\A m \in Keys : p[m] <= q[m]) /\ p[k] < q[k]
  OBVIOUS
<1>4. Good(LocalPut(st, k, q[k], bad, how), q) /\ Roomy(LocalPut(st, k, q[k], bad, how))
  BY <1>3, LocalPutKeeps
<1>5. Good(st, q)
  <2>1. \A m \in Keys : st.dram[m].value <= q[m] /\ st.file[m].value <= q[m]
    <3>1. \A m \in Keys : /\ st.dram[m].value \in Int /\ st.file[m].value \in Int
                          /\ st.dram[m].value <= p[m] /\ st.file[m].value <= p[m]
      BY GoodTypes, EntriesAre DEF Good
    <3>2. \A m \in Keys : p[m] \in Int /\ q[m] \in Int
      OBVIOUS
    <3>3. QED
      BY <1>3, <3>1, <3>2
  <2>2. QED
    BY <2>1 DEF Good
<1> HIDE DEF N
<1>6. CASE ~Simulation /\ N = 0
  <2> DEFINE h == [i \in 0..0 |-> st]
  <2>1. h = Eqn(h)
    BY <1>6
  <2> HIDE DEF Eqn, h
  <2>2. after = Eqn(after)
    BY <2>1
  <2> HIDE DEF after
  <2>3. after[N] = st
    BY <1>6, <2>2 DEF Eqn
  <2>4. QED
    BY <1>2, <1>5, <2>3
<1>7. CASE ~Simulation /\ N = 1
  <2> DEFINE h == [i \in 0..1 |-> IF i = 0 THEN st ELSE LocalPut(st, k, q[k], bad, how)]
  <2>1. h = Eqn(h)
    BY <1>7
  <2> HIDE DEF Eqn, h
  <2>2. after = Eqn(after)
    BY <2>1
  <2> HIDE DEF after
  <2>3. after[0] = st /\ after[N] = LocalPut(after[0], k, q[k], bad, how)
    BY <1>7, <2>2 DEF Eqn
  <2>4. QED
    BY <1>2, <1>4, <2>3
<1>8. CASE Simulation
  <2>1. \A s \in X : LocalPut(s, k, q[k], bad, how) \in X
    <3>1. ASSUME NEW s, Good(s, q)
          PROVE  Good(LocalPut(s, k, q[k], bad, how), q) /\ Roomy(LocalPut(s, k, q[k], bad, how))
      <4>1. \A m \in Keys : q[m] <= q[m]
        OBVIOUS
      <4>2. QED
        BY <1>8, <3>1, <4>1, LocalPutKeeps
    <3>2. QED
      BY <3>1 DEF Good
  <2>2. st \in X
    BY <1>5 DEF Good
  <2> DEFINE F == [s \in X |-> LocalPut(s, k, q[k], bad, how)]
             G == [i \in 1..N |-> F]
  <2>3. F \in [X -> X]
    BY <2>1
  <2>4. PICK h : Turns(h, X, N, st, G)
    <3> HIDE DEF F, X
    <3>1. QED
      BY <1>1, <2>2, <2>3, TurnsExist
  <2>5. h = Eqn(h)
    <3>1. \A i \in 1..N : i - 1 \in 0..N /\ h[i - 1] \in X
      <4>1. \A i \in 1..N : i - 1 \in 0..N
        BY <1>1
      <4>2. h \in [0..N -> X]
        BY <2>4 DEF Turns
      <4> HIDE DEF X
      <4>3. QED
        BY <4>1, <4>2
    <3> HIDE DEF X
    <3>2. \A i \in 1..N : h[i] = LocalPut(h[i - 1], k, q[k], bad, how)
      BY <2>4, <3>1 DEF Turns
    <3>3. h = [i \in 0..N |-> h[i]] /\ h[0] = st
      BY <2>4 DEF Turns
    <3>4. \A i \in 0..N : i # 0 => i \in 1..N
      BY <1>1
    <3>5. QED
      BY <3>2, <3>3, <3>4
  <2>6. after = Eqn(after)
    <3> HIDE DEF Eqn
    <3>1. QED
      BY <2>5
  <2> HIDE DEF after
  <2> DEFINE T == {i \in 0..N : after[i] \in X}
  <2>7. 0 \in T
    BY <1>1, <2>2, <2>6
  <2>8. ASSUME NEW i \in T, i < N
        PROVE  i + 1 \in T
    <3>1. i + 1 \in 0..N /\ i + 1 # 0 /\ (i + 1) - 1 = i
      BY <1>1, <2>8
    <3>2. after[i + 1] = LocalPut(after[i], k, q[k], bad, how)
      BY <2>6, <3>1
    <3>3. QED
      BY <2>1, <3>1, <3>2
  <2>9. after[N] \in X
    <3>1. T \in SUBSET (0..N)
      OBVIOUS
    <3> HIDE DEF T
    <3>2. T = 0..N
      BY <1>1, <2>7, <2>8, <3>1, EachTurn
    <3>3. N \in T
      BY <1>1, <3>2
    <3>4. QED
      BY <3>3 DEF T
  <2>10. QED
    BY <1>2, <2>9
<1>9. QED
  BY <1>1, <1>6, <1>7, <1>8

P2PInv ==
    /\ puts \in [Keys -> Nat]
    /\ Good(store, puts) /\ Roomy(store)

LEMMA GetPromotesKeeps ==
    ASSUME P2PInv, NEW k \in Keys, GetPromotes(k)
    PROVE  P2PInv'
<1> DEFINE data == store.file[k]
<1>1. /\ ~InDram(k) /\ InNvme(k) /\ puts' = puts
  BY DEF GetPromotes
<1>2. PICK bad \in SUBSET SpilledByGet(k), how \in {"unopened", "torn"} :
          store' = Promoted(store, k, bad, how)
  BY DEF GetPromotes
<1> DEFINE room == EvictDramIfNeeded(store, data.size, bad, how)
           b == room.nvme_bytes - room.nvme[k].size
           cleared == Indexed(room, k, NoEntry, b, room.file[k])
<1>3. puts \in [Keys -> Nat] /\ Good(store, puts)
  BY DEF P2PInv
<1>4. /\ Good(room, puts) /\ Fits(room, data.size)
      /\ room.dram[k] = NoEntry
      /\ room.nvme[k] = store.nvme[k] /\ room.file[k] = data
  <2>1. store.dram[k] = NoEntry
    BY <1>1 DEF InDram
  <2>2. QED
    BY <1>2, <1>3, <2>1, EvictKeeps
<1>5. data \in Entries /\ data # NoEntry /\ data.value <= puts[k]
  BY <1>1, <1>3, GoodTypes DEF InNvme, Good
<1>6. \A m \in Keys : puts[m] <= puts[m]
  BY <1>3
<1> HIDE DEF room, data
<1>7. /\ room.nvme \in [Keys -> Entries] /\ room.file \in [Keys -> Entries]
      /\ room.nvme_bytes \in Int /\ room.nvme[k].size \in Nat
      /\ room.nvme_bytes <= NvmeLimit /\ room.file[k].value <= puts[k]
  BY <1>4, GoodTypes, EntriesAre DEF Good
<1>8. /\ Good(cleared, puts)
      /\ cleared.dram = room.dram /\ cleared.recent = room.recent
      /\ cleared.dram_bytes = room.dram_bytes
      /\ cleared.nvme = [room.nvme EXCEPT ![k] = NoEntry]
      /\ cleared.file = [room.file EXCEPT ![k] = room.file[k]]
  <2>1. /\ b \in Int /\ b <= NvmeLimit
        /\ room.nvme_bytes + (NoEntry.size - room.nvme[k].size) <= b
    BY <1>7, EntriesAre, StoreAssumption
  <2>2. room.file[k] \in Entries /\ NoEntry \in Entries
    BY <1>7, EntriesAre
  <2> HIDE DEF b
  <2>3. QED
    BY <1>3, <1>4, <1>7, <2>1, <2>2, IndexedKeeps
<1>9. store' = Inserted(cleared, k, data)
  <2>1. store' = [Inserted(room, k, data) EXCEPT !.nvme[k] = NoEntry,
                                                 !.nvme_bytes = @ - store.nvme[k].size]
    BY <1>2 DEF Promoted, room, data
  <2>2. room \in Stores
    BY <1>4 DEF Good
  <2>3. room.file = [room.file EXCEPT ![k] = room.file[k]]
    BY <1>7
  <2>4. [Inserted(room, k, data) EXCEPT !.nvme[k] = NoEntry,
                                        !.nvme_bytes = @ - room.nvme[k].size]
        = Inserted(Indexed(room, k, NoEntry, b, room.file[k]), k, data)
    BY <2>2, <2>3 DEF Inserted, Indexed, Stores
  <2>5. QED
    BY <1>4, <2>1, <2>4
<1> HIDE DEF cleared, b
<1>10. Newer(data, cleared, k)
  BY <1>7, <1>8 DEF Newer
<1>11. Fits(cleared, data.size)
  BY <1>4, <1>8 DEF Fits
<1>12. Good(store', puts) /\ Roomy(store')
  <2>1. LET x == Inserted(cleared, k, data)
        IN  Good(x, puts) /\ (Fits(cleared, data.size) => Roomy(x))
    BY <1>3, <1>5, <1>6, <1>8, <1>10, InsertedKeeps
  <2>2. QED
    BY <1>9, <1>11, <2>1
<1>13. QED
  BY <1>1, <1>3, <1>12 DEF P2PInv

LEMMA P2PStep == P2PInv /\ [P2PNext]_p2pVars => P2PInv'
<1> SUFFICES ASSUME P2PInv, [P2PNext]_p2pVars PROVE P2PInv'
  OBVIOUS
<1>1. puts \in [Keys -> Nat] /\ Good(store, puts) /\ Roomy(store)
  BY DEF P2PInv
<1>2. ASSUME NEW k \in Keys, Put(k)
      PROVE  P2PInv'
  <2>1. PICK bad \in SUBSET SpilledByPut(k), how \in {"unopened", "torn"} :
            store' = PutOnOwners(store, k, puts[k] + 1, bad, how)
    BY <1>2 DEF Put
  <2>2. puts' = [puts EXCEPT ![k] = @ + 1]
    BY <1>2 DEF Put
  <2>3. puts' \in [Keys -> Nat] /\ puts'[k] = puts[k] + 1
    BY <1>1, <2>2
  <2>4. LET r == PutOnOwners(store, k, puts'[k], bad, how) IN Good(r, puts') /\ Roomy(r)
    BY <1>1, <2>2, <2>3, PutOnOwnersKeeps
  <2>5. Good(store', puts') /\ Roomy(store')
    BY <2>1, <2>3, <2>4
  <2>6. QED
    BY <2>3, <2>5 DEF P2PInv
<1>3. ASSUME NEW k \in Keys, GetHit(k)
      PROVE  P2PInv'
  <2>1. /\ k \in Resident(store) /\ puts' = puts
        /\ store' = [store EXCEPT !.recent = Append(RemoveFirst(@, k), k)]
    BY <1>3 DEF GetHit, InDram, Touched, Resident
  <2>2. /\ store'.dram = store.dram /\ store'.dram_bytes = store.dram_bytes
        /\ store'.nvme = store.nvme /\ store'.nvme_bytes = store.nvme_bytes
        /\ store'.file = store.file
        /\ store'.recent = Append(RemoveFirst(store.recent, k), k)
    BY <1>1, <2>1 DEF Good, Stores
  <2>3. /\ Lists(store'.recent, Resident(store)) /\ Len(store'.recent) = Len(store.recent)
    <3> DEFINE D == Resident(store) \ {k}
               u == RemoveFirst(store.recent, k)
    <3>1. Lists(u, D) /\ k \notin D
      BY <1>1, ListsRemove DEF Good
    <3>2. Len(u) = Len(store.recent) - 1
      BY <1>1, <2>1, ListsRemove DEF Good
    <3>3. D \cup {k} = Resident(store)
      BY <2>1
    <3> HIDE DEF D, u
    <3>4. Lists(Append(u, k), D \cup {k}) /\ Len(Append(u, k)) = Len(u) + 1
      BY <3>1, ListsAppend
    <3>5. Len(store.recent) \in Nat
      BY <1>1, LenProperties DEF Good, Stores
    <3>6. store'.recent = Append(u, k)
      BY <2>2 DEF u
    <3>7. Len(store'.recent) = Len(store.recent)
      BY <3>2, <3>4, <3>5, <3>6
    <3>8. QED
      BY <3>3, <3>4, <3>6, <3>7, Zenon
  <2>4. Lists(store'.recent, Resident(store'))
    BY <2>2, <2>3 DEF Resident
  <2>5. store' \in Stores
    <3>1. store'.recent \in Seq(Keys)
      BY <2>3 DEF Lists
    <3>2. QED
      BY <1>1, <2>1, <2>2, <3>1 DEF Good, Stores
  <2>6. Good(store', puts)
    BY <1>1, <2>2, <2>4, <2>5 DEF Good, Newer
  <2>7. Roomy(store')
    BY <1>1, <2>2, <2>3 DEF Roomy
  <2>8. QED
    BY <1>1, <2>1, <2>6, <2>7 DEF P2PInv
<1>4. ASSUME NEW k \in Keys, GetPromotes(k)
      PROVE  P2PInv'
  BY <1>4, GetPromotesKeeps
<1>5. ASSUME NEW k \in Keys, Evict(k)
      PROVE  P2PInv'
  <2> DEFINE b == store.dram_bytes
             r == Popped(store, k, b)
  <2>1. k \in Resident(store) /\ puts' = puts
    BY <1>5 DEF Evict, InDram, Resident
  <2>2. store' = r
    <3>1. store' = [store EXCEPT !.dram[k] = NoEntry, !.recent = RemoveFirst(@, k)]
      BY <1>5 DEF Evict
    <3>2. QED
      BY <1>1, <3>1 DEF Popped, Good, Stores
  <2>3. /\ Good(r, puts) /\ r.dram = [store.dram EXCEPT ![k] = NoEntry]
        /\ Len(r.recent) = Len(store.recent) - 1
        /\ SizeIn(r.dram) <= SizeIn(store.dram)
    <3>1. b \in Int /\ store.dram[k].size \in Nat
      BY <1>1, GoodTypes, EntriesAre
    <3>2. store.dram_bytes - store.dram[k].size <= b
      BY <3>1
    <3> HIDE DEF b
    <3>3. QED
      BY <1>1, <2>1, <3>1, <3>2, PoppedKeeps
  <2> HIDE DEF r
  <2>4. Roomy(r)
    <3>1. CASE SizeIn(store.dram) <= DramLimit
      <4>1. SizeIn(store.dram) \in Int /\ SizeIn(r.dram) \in Int
        BY <1>1, <2>3, GoodTypes, SizeInType
      <4>2. SizeIn(r.dram) <= DramLimit
        BY <2>3, <3>1, <4>1, StoreAssumption
      <4>3. QED
        BY <4>2 DEF Roomy
    <3>2. CASE Len(store.recent) = 1
      <4>1. Len(r.recent) = 0
        BY <2>3, <3>2
      <4>2. Lists(r.recent, Resident(r)) /\ r.dram \in [Keys -> Entries]
        BY <2>3, GoodTypes DEF Good
      <4>3. Resident(r) = {}
        BY <4>1, <4>2 DEF Lists
      <4>4. \A m \in Keys : r.dram[m] = NoEntry
        BY <4>3 DEF Resident
      <4>5. SizeIn(r.dram) = 0
        BY <4>2, <4>4, SizeInEmpty
      <4>6. QED
        BY <4>5, StoreAssumption DEF Roomy
    <3>3. QED
      BY <1>1, <3>1, <3>2 DEF Roomy
  <2>5. QED
    BY <1>1, <2>1, <2>2, <2>3, <2>4 DEF P2PInv
<1>6. CASE UNCHANGED p2pVars
  BY <1>6 DEF p2pVars, P2PInv
<1>7. QED
  BY <1>2, <1>3, <1>4, <1>5, <1>6 DEF P2PNext

LEMMA P2PHolds == P2PSpec => []P2PInv
<1>1. P2PInit => P2PInv
  <2> SUFFICES ASSUME P2PInit PROVE P2PInv
    OBVIOUS
  <2>1. puts = [k \in Keys |-> 0] /\ store = EmptyStore
    BY DEF P2PInit
  <2> DEFINE none == [k \in Keys |-> NoEntry]
  <2>2. none \in [Keys -> Entries] /\ \A k \in Keys : none[k] = NoEntry
    BY EntriesAre
  <2>3. /\ store.dram = none /\ store.recent = <<>> /\ store.dram_bytes = 0
        /\ store.nvme = none /\ store.nvme_bytes = 0 /\ store.file = none
    BY <2>1 DEF EmptyStore
  <2>4. store \in Stores
    BY <2>1, <2>2 DEF EmptyStore, Stores
  <2> HIDE DEF none
  <2>5. SizeIn(none) = 0
    BY <2>2, SizeInEmpty
  <2>6. Lists(store.recent, Resident(store))
    <3>1. Resident(store) = {} /\ store.recent = <<>>
      BY <2>2, <2>3 DEF Resident
    <3>2. Lists(<<>>, {})
      BY DEF Lists
    <3>3. QED
      BY <3>1, <3>2
  <2>7. \A k \in Keys : store.dram[k].value <= puts[k] /\ store.file[k].value <= puts[k]
    BY <2>1, <2>2, <2>3, EntriesAre
  <2>8. \A k \in Keys : store.dram[k] = NoEntry
    BY <2>2, <2>3
  <2>9. Good(store, puts)
    BY <2>3, <2>4, <2>5, <2>6, <2>7, <2>8, StoreAssumption DEF Good
  <2>10. Roomy(store) /\ puts \in [Keys -> Nat]
    BY <2>1, <2>3, <2>5, StoreAssumption DEF Roomy
  <2>11. QED
    BY <2>9, <2>10 DEF P2PInv
<1>2. QED
  BY <1>1, P2PStep, PTL DEF P2PSpec

\* Whatever is spilled, promoted, evicted or lost to failing writes, and however
\* many replicas are local, get() answers from the newer copy.
THEOREM DramCopyIsNewer == P2PSpec => []DramShadowsOlder
<1>1. P2PInv => DramShadowsOlder
  <2> SUFFICES ASSUME P2PInv, NEW k \in Keys, InDram(k), InNvme(k)
               PROVE  \/ store.dram[k].value > store.file[k].value
                      \/ Simulation /\ store.dram[k].value = store.file[k].value
    BY DEF DramShadowsOlder
  <2>1. QED
    BY DEF P2PInv, Good, Newer, InDram, InNvme
<1>2. QED
  BY <1>1, P2PHolds, PTL

\* Both tiers stay within their budgets, although the counts drift.
THEOREM TiersStayInBudget == P2PSpec => []BudgetsHold
<1>1. P2PInv => BudgetsHold
  BY DEF P2PInv, Good, Roomy, BudgetsHold
<1>2. QED
  BY <1>1, P2PHolds, PTL
===============================================================================
