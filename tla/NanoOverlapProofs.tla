---------------------------- MODULE NanoOverlapProofs ----------------------------
(***************************************************************************)
(* What TLAPS proves about NanoOverlap: for any layers, and any number of   *)
(* layer ends and checkpoints.                                              *)
(***************************************************************************)
EXTENDS NanoOverlap, SequenceTheorems, TLAPS

Queued == 1..Len(chunks)

NanoTypes ==
    /\ use_cuda \in BOOLEAN
    /\ chunks \in Seq(Layers) /\ Len(chunks) <= MaxChunks
    /\ cpu_queue \in Seq(Nat) /\ cpu_hand \in Seq(Nat) /\ io_stream \in Seq(Nat)
    /\ delivered \in Seq([chunk : Nat, data : Nat, filed : Int])
    /\ nano_step \in Int

-------------------------------------------------------------------------------
(* The CPU path                                                            *)

\* Chunks are numbered as they are queued: those called back, the one in the
\* worker's hand and those in the queue follow each other.
OrderInv ==
    LET done == Len(delivered)
        held == Len(cpu_hand)
    IN  /\ done + held + Len(cpu_queue) = Len(chunks)
        /\ \A i \in 1..done : delivered[i].chunk = i
        /\ cpu_hand \in {<<>>, <<done + 1>>}
        /\ cpu_worker = "hold" <=> cpu_hand # <<>>
        /\ \A j \in 1..Len(cpu_queue) : cpu_queue[j] = done + held + j

\* A sequence that counts on where another one stops.
LEMMA CountsOn ==
    ASSUME NEW s \in Seq(Nat), NEW t \in Seq(Nat),
           \A i \in 1..Len(s) : s[i] = i, \A j \in 1..Len(t) : t[j] = Len(s) + j
    PROVE  /\ s \o t \in Seq(Nat) /\ Len(s \o t) = Len(s) + Len(t)
           /\ \A i \in 1..Len(s \o t) : (s \o t)[i] = i
<1>1. Len(s) \in Nat /\ Len(t) \in Nat
  OBVIOUS
<1>2. /\ s \o t \in Seq(Nat) /\ Len(s \o t) = Len(s) + Len(t)
      /\ \A i \in 1..(Len(s) + Len(t)) :
            (s \o t)[i] = IF i <= Len(s) THEN s[i] ELSE t[i - Len(s)]
  BY ConcatProperties
<1>3. ASSUME NEW i \in 1..(Len(s) + Len(t)), i > Len(s)
      PROVE  t[i - Len(s)] = i
  <2>1. i - Len(s) \in 1..Len(t)
    BY <1>1, <1>3
  <2>2. QED
    BY <1>1, <2>1
<1>4. ASSUME NEW i \in 1..(Len(s) + Len(t))
      PROVE  (s \o t)[i] = i
  BY <1>1, <1>2, <1>3
<1>5. QED
  BY <1>2, <1>4

LEMMA OrderedConcat ==
    ASSUME NanoTypes, OrderInv
    PROVE  [i \in DOMAIN delivered |-> Chunk(delivered[i])] \o cpu_hand \o cpu_queue
              = [n \in DOMAIN chunks |-> n]
<1> DEFINE called == [i \in DOMAIN delivered |-> Chunk(delivered[i])]
           order  == [n \in DOMAIN chunks |-> n]
<1>1. /\ DOMAIN delivered = 1..Len(delivered) /\ DOMAIN chunks = 1..Len(chunks)
      /\ Len(delivered) \in Nat /\ Len(chunks) \in Nat
      /\ cpu_hand \in Seq(Nat) /\ cpu_queue \in Seq(Nat)
  BY DEF NanoTypes
<1>2. called \in Seq(Nat) /\ Len(called) = Len(delivered)
      /\ \A i \in 1..Len(called) : called[i] = i
  <2>1. called = [i \in 1..Len(delivered) |-> i]
    BY <1>1 DEF OrderInv, Chunk
  <2>2. called \in Seq(Nat) /\ Len(called) = Len(delivered)
    BY <1>1, <2>1
  <2>3. QED
    BY <2>1, <2>2
<1>3. order \in Seq(Nat) /\ Len(order) = Len(chunks)
      /\ \A i \in 1..Len(order) : order[i] = i
  BY <1>1
<1>4. \A i \in 1..Len(cpu_hand) : cpu_hand[i] = Len(delivered) + i
  BY <1>1 DEF OrderInv
<1>5. /\ \A j \in 1..Len(cpu_queue) : cpu_queue[j] = Len(delivered) + Len(cpu_hand) + j
      /\ Len(delivered) + Len(cpu_hand) + Len(cpu_queue) = Len(chunks)
  BY DEF OrderInv
<1> HIDE DEF called, order
<1> DEFINE first == called \o cpu_hand
<1>6. first \in Seq(Nat) /\ Len(first) = Len(delivered) + Len(cpu_hand)
      /\ \A i \in 1..Len(first) : first[i] = i
  BY <1>1, <1>2, <1>4, CountsOn
<1> HIDE DEF first
<1>7. /\ first \o cpu_queue \in Seq(Nat) /\ Len(first \o cpu_queue) = Len(chunks)
      /\ \A i \in 1..Len(first \o cpu_queue) : (first \o cpu_queue)[i] = i
  BY <1>1, <1>5, <1>6, CountsOn
<1>8. first \o cpu_queue = order
  BY <1>3, <1>7, SeqEqual
<1>9. QED
  BY <1>8 DEF first, called, order

LEMMA CountsOneMore ==
    ASSUME NEW s \in Seq(Nat), NEW n \in Nat, \A j \in 1..Len(s) : s[j] = n + j,
           NEW t, t = Append(s, n + Len(s) + 1)
    PROVE  Len(t) = Len(s) + 1 /\ \A j \in 1..Len(t) : t[j] = n + j
<1>1. /\ Len(s) \in Nat /\ Len(t) = Len(s) + 1
      /\ \A j \in 1..Len(s) : t[j] = s[j]
      /\ t[Len(s) + 1] = n + Len(s) + 1
  OBVIOUS
<1>2. \A j \in 1..Len(t) : j \in 1..Len(s) \/ j = Len(s) + 1
  BY <1>1
<1>3. ASSUME NEW j \in 1..Len(t)
      PROVE  t[j] = n + j
  <2>1. CASE j \in 1..Len(s)
    BY <1>1, <2>1
  <2>2. CASE j = Len(s) + 1
    <3>1. t[j] = n + Len(s) + 1
      BY <1>1, <2>2
    <3>2. n + Len(s) + 1 = n + j
      BY <1>1, <2>2
    <3>3. QED
      BY <3>1, <3>2
  <2>3. QED
    BY <1>2, <2>1, <2>2
<1>4. QED
  BY <1>1, <1>3

\* A layer end makes the next chunk the last of the queue.
LEMMA OrderAppend ==
    ASSUME NanoTypes, OrderInv, NEW l \in Layers,
           chunks' = Append(chunks, l), cpu_queue' = Append(cpu_queue, Len(chunks) + 1),
           UNCHANGED <<cpu_hand, cpu_worker, delivered>>
    PROVE  OrderInv'
<1> DEFINE n == Len(delivered) + Len(cpu_hand)
<1>1. n \in Nat /\ cpu_queue \in Seq(Nat) /\ Len(chunks') = Len(chunks) + 1
  BY DEF NanoTypes
<1>2. /\ n + Len(cpu_queue) = Len(chunks)
      /\ \A j \in 1..Len(cpu_queue) : cpu_queue[j] = n + j
  BY DEF OrderInv
<1>3. cpu_queue' = Append(cpu_queue, n + Len(cpu_queue) + 1)
  BY <1>2
<1> HIDE DEF n
<1>4. /\ Len(cpu_queue') = Len(cpu_queue) + 1
      /\ \A j \in 1..Len(cpu_queue') : cpu_queue'[j] = n + j
  BY <1>1, <1>2, <1>3, CountsOneMore
<1>5. n + Len(cpu_queue') = Len(chunks')
  <2>1. Len(cpu_queue) \in Nat
    BY <1>1
  <2>2. QED
    BY <1>1, <1>2, <1>4, <2>1
<1>6. QED
  BY <1>4, <1>5 DEF OrderInv, n

LEMMA OrderTake ==
    ASSUME NanoTypes, OrderInv, CpuTest PROVE OrderInv'
<1>1. CASE cpu_stop
  BY <1>1 DEF CpuTest, OrderInv
<1>2. CASE ~cpu_stop
  <2>1. /\ cpu_worker = "test" /\ cpu_queue # <<>> /\ cpu_hand' = <<Head(cpu_queue)>>
        /\ cpu_queue' = Tail(cpu_queue) /\ cpu_worker' = "hold"
        /\ UNCHANGED <<chunks, delivered>>
    BY <1>2 DEF CpuTest
  <2>2. cpu_hand = <<>> /\ Len(cpu_hand) = 0 /\ Len(cpu_hand') = 1
    BY <2>1 DEF OrderInv
  <2>3. /\ Len(cpu_queue) \in Nat \ {0} /\ Len(delivered) \in Nat
        /\ Len(cpu_queue') = Len(cpu_queue) - 1 /\ Head(cpu_queue) = cpu_queue[1]
        /\ \A j \in 1..Len(cpu_queue') : cpu_queue'[j] = cpu_queue[j + 1]
    BY <2>1, HeadTailProperties, EmptySeq DEF NanoTypes
  <2>4. Head(cpu_queue) = Len(delivered) + 1
    BY <2>2, <2>3 DEF OrderInv
  <2>5. QED
    BY <2>1, <2>2, <2>3, <2>4 DEF OrderInv
<1>3. QED
  BY <1>1, <1>2

LEMMA OrderWrite ==
    ASSUME NanoTypes, OrderInv, CpuWrite PROVE OrderInv'
<1> DEFINE entry == [chunk |-> cpu_hand[1], data |-> 0, filed |-> nano_step]
<1>1. /\ cpu_worker = "hold" /\ delivered' = Append(delivered, entry)
      /\ cpu_hand' = <<>> /\ cpu_worker' = "test" /\ UNCHANGED <<chunks, cpu_queue>>
  BY DEF CpuWrite, IoCallback
<1>2. cpu_hand = <<Len(delivered) + 1>> /\ Len(cpu_hand) = 1 /\ Len(cpu_hand') = 0
  BY <1>1 DEF OrderInv
<1>3. entry.chunk = Len(delivered) + 1
  BY <1>2
<1> HIDE DEF entry
<1>4. /\ Len(delivered) \in Nat /\ Len(delivered') = Len(delivered) + 1
      /\ \A i \in 1..Len(delivered) : delivered'[i] = delivered[i]
      /\ delivered'[Len(delivered) + 1] = entry
  BY <1>1 DEF NanoTypes
<1>5. \A i \in 1..Len(delivered') : delivered'[i].chunk = i
  BY <1>3, <1>4 DEF OrderInv
<1>6. Len(cpu_queue) \in Nat
  BY DEF NanoTypes
<1>7. QED
  BY <1>1, <1>2, <1>4, <1>5, <1>6 DEF OrderInv

-------------------------------------------------------------------------------
(* The I/O stream                                                          *)

\* d is a chunk of the layer of chunk n, and not an older one.
Holds(d, n) == d \in Queued /\ n \in Queued /\ d >= n /\ chunks[d] = chunks[n]

\* A tensor is written again by chunks of its own layer only, and a buffer is
\* written from the tensor: once the copy of a chunk is done, its buffer holds
\* that chunk or a later one of the layer, for as long as the callback is due.
CopyInv ==
    /\ DOMAIN tensor = Layers /\ DOMAIN buffer = PooledBuffers \cup OwnBuffers
    /\ \A n \in callbacks \cup ToSet(io_stream) : Holds(tensor[chunks[n]], n)
    /\ \A n \in callbacks \ ToSet(io_stream) : Holds(buffer[BufferOf(chunks[n], n)], n)
    /\ use_cuda => \A i \in 1..Len(delivered) :
                        Holds(delivered[i].data, delivered[i].chunk)

LEMMA HoldsOn ==
    ASSUME NanoTypes, NEW l \in Layers, chunks' = Append(chunks, l), NEW d, NEW n, Holds(d, n)
    PROVE  Holds(d, n)' /\ chunks'[n] = chunks[n]
BY DEF NanoTypes, Holds, Queued

LEMMA AppendedIsMember ==
    ASSUME NEW s \in Seq(Nat), NEW e \in Nat
    PROVE  ToSet(Append(s, e)) = ToSet(s) \cup {e}
<1> DEFINE t == Append(s, e)
<1>1. /\ DOMAIN s = 1..Len(s) /\ DOMAIN t = 1..(Len(s) + 1) /\ Len(s) \in Nat
      /\ t[Len(s) + 1] = e /\ \A i \in 1..Len(s) : t[i] = s[i]
  OBVIOUS
<1> HIDE DEF t
<1>2. \A i \in DOMAIN t : i \in DOMAIN s \/ i = Len(s) + 1
  BY <1>1
<1>3. DOMAIN s \subseteq DOMAIN t /\ Len(s) + 1 \in DOMAIN t
  BY <1>1
<1>4. ToSet(t) = ToSet(s) \cup {e}
  BY <1>1, <1>2, <1>3, Zenon DEF ToSet
<1>5. QED
  BY <1>4 DEF t

LEMMA HeadLeaves ==
    ASSUME NEW s \in Seq(Nat), s # <<>>
    PROVE  ToSet(Tail(s)) \subseteq ToSet(s) /\ ToSet(s) \subseteq ToSet(Tail(s)) \cup {Head(s)}
           /\ Head(s) \in ToSet(s)
<1> DEFINE t == Tail(s)
<1>1. /\ DOMAIN s = 1..Len(s) /\ Len(s) \in Nat \ {0} /\ t \in Seq(Nat)
      /\ DOMAIN t = 1..(Len(s) - 1) /\ Head(s) = s[1]
      /\ \A i \in 1..(Len(s) - 1) : t[i] = s[i + 1]
  BY HeadTailProperties, EmptySeq
<1> HIDE DEF t
<1>2. \A i \in DOMAIN t : i + 1 \in DOMAIN s /\ t[i] = s[i + 1]
  BY <1>1
<1>3. \A i \in DOMAIN s : i = 1 \/ (i - 1 \in DOMAIN t /\ t[i - 1] = s[i])
  BY <1>1
<1>4. 1 \in DOMAIN s
  BY <1>1
<1>5. ToSet(t) \subseteq ToSet(s)
  BY <1>2 DEF ToSet
<1>6. ToSet(s) \subseteq ToSet(t) \cup {Head(s)}
  BY <1>1, <1>3 DEF ToSet
<1>7. Head(s) \in ToSet(s)
  BY <1>1, <1>4 DEF ToSet
<1>8. QED
  BY <1>5, <1>6, <1>7 DEF t

LEMMA CopyQueued ==
    ASSUME NanoTypes, CopyInv, NEW l \in Layers, OnLayerComputeEnd(l)
    PROVE  CopyInv'
<1> DEFINE n == Len(chunks) + 1
<1>1. chunks' = Append(chunks, l) /\ UNCHANGED <<use_cuda, pinned, delivered>>
  BY DEF OnLayerComputeEnd
<1>2. Len(delivered) \in Nat /\ Len(chunks) \in Nat /\ io_stream \in Seq(Nat) /\ n \in Nat
  BY DEF NanoTypes
<1>3. (use_cuda => \A i \in 1..Len(delivered) :
                        Holds(delivered[i].data, delivered[i].chunk))'
  BY <1>1, HoldsOn DEF CopyInv
<1>4. CASE UNCHANGED cudaVars
  <2>1. UNCHANGED <<tensor, buffer, io_stream, callbacks>>
    BY <1>4 DEF cudaVars
  <2>2. ASSUME NEW m \in callbacks \cup ToSet(io_stream)
        PROVE  Holds(tensor[chunks[m]], m)'
    BY <1>1, <2>1, HoldsOn DEF CopyInv
  <2>3. ASSUME NEW m \in callbacks \ ToSet(io_stream)
        PROVE  Holds(buffer[BufferOf(chunks[m], m)], m)'
    BY <1>1, <2>1, HoldsOn DEF CopyInv, BufferOf
  <2>4. QED
    BY <1>3, <2>1, <2>2, <2>3 DEF CopyInv
<1>5. CASE EnqueueCudaIo(l, n)
  <2>1. /\ tensor' = [tensor EXCEPT ![l] = n] /\ buffer' = buffer
        /\ io_stream' = Append(io_stream, n) /\ callbacks' = callbacks \cup {n}
    BY <1>5 DEF EnqueueCudaIo
  <2>2. ToSet(io_stream') = ToSet(io_stream) \cup {n}
    BY <1>2, <2>1, AppendedIsMember
  <2>3. chunks'[n] = l /\ n \in Queued' /\ \A m \in Queued : m \in Queued' /\ m <= n
    BY <1>1, <1>2 DEF Queued, NanoTypes
  <2>4. ASSUME NEW m \in (callbacks \cup ToSet(io_stream))'
        PROVE  Holds(tensor[chunks[m]], m)'
    <3>1. CASE m = n
      <4>1. tensor'[chunks'[n]] = n
        BY <2>1, <2>3 DEF CopyInv
      <4>2. QED
        BY <1>2, <2>3, <3>1, <4>1 DEF Holds
    <3>2. CASE m # n
      <4>1. Holds(tensor[chunks[m]], m) /\ m \in Queued
        BY <2>1, <2>2, <2>4, <3>2 DEF CopyInv, Holds
      <4>2. chunks'[m] = chunks[m] /\ chunks[m] \in Layers
        BY <1>1, <4>1, HoldsOn DEF NanoTypes, Queued
      <4>3. CASE chunks[m] = l
        <5>1. tensor'[chunks'[m]] = n /\ chunks'[n] = chunks'[m]
          BY <2>1, <2>3, <4>2, <4>3 DEF CopyInv
        <5>2. m \in Queued' /\ n >= m
          BY <1>2, <2>3, <4>1
        <5>3. QED
          BY <2>3, <5>1, <5>2 DEF Holds
      <4>4. CASE chunks[m] # l
        <5>1. tensor'[chunks'[m]] = tensor[chunks[m]]
          BY <2>1, <4>2, <4>4 DEF CopyInv
        <5>2. QED
          BY <1>1, <4>1, <5>1, HoldsOn
      <4>5. QED
        BY <4>3, <4>4
    <3>3. QED
      BY <3>1, <3>2
  <2>5. ASSUME NEW m \in (callbacks \ ToSet(io_stream))'
        PROVE  Holds(buffer[BufferOf(chunks[m], m)], m)'
    <3>1. Holds(buffer[BufferOf(chunks[m], m)], m)
      BY <2>1, <2>2, <2>5 DEF CopyInv
    <3>2. QED
      BY <1>1, <2>1, <3>1, HoldsOn DEF BufferOf
  <2>6. QED
    BY <1>3, <2>1, <2>4, <2>5 DEF CopyInv
<1>6. QED
  BY <1>4, <1>5 DEF OnLayerComputeEnd

LEMMA CopyIsDone ==
    ASSUME NanoTypes, CopyInv, CopyDone PROVE CopyInv'
<1> DEFINE n == Head(io_stream)
           l == chunks[n]
<1>1. /\ io_stream # <<>> /\ io_stream' = Tail(io_stream)
      /\ buffer' = [buffer EXCEPT ![BufferOf(l, n)] = tensor[l]]
      /\ UNCHANGED <<use_cuda, pinned, chunks, tensor, callbacks, delivered>>
  BY DEF CopyDone, stepVars
<1>2. /\ ToSet(io_stream') \subseteq ToSet(io_stream)
      /\ ToSet(io_stream) \subseteq ToSet(io_stream') \cup {n} /\ n \in ToSet(io_stream)
  BY <1>1, HeadLeaves DEF NanoTypes
<1>3. Holds(tensor[l], n) /\ \A d, m : Holds(d, m)' = Holds(d, m)
  BY <1>1, <1>2 DEF CopyInv, Holds, Queued
<1>4. BufferOf(l, n) \in DOMAIN buffer
  <2>1. n \in 1..MaxChunks /\ l \in Layers
    BY <1>3, NanoAssumption DEF Holds, Queued, NanoTypes
  <2>2. QED
    BY <2>1 DEF CopyInv, BufferOf, PooledBuffers, OwnBuffers
<1>5. ASSUME NEW m \in callbacks \ ToSet(io_stream')
      PROVE  Holds(buffer'[BufferOf(chunks[m], m)], m)
  <2>1. Holds(tensor[chunks[m]], m)
    BY <1>5 DEF CopyInv
  <2>2. CASE BufferOf(chunks[m], m) = BufferOf(l, n)
    <3>1. chunks[m] = l
      BY <2>2 DEF BufferOf
    <3>2. QED
      BY <1>1, <1>4, <2>1, <2>2, <3>1
  <2>3. CASE BufferOf(chunks[m], m) # BufferOf(l, n)
    <3>1. m \notin ToSet(io_stream)
      BY <1>2, <1>5, <2>3
    <3>2. buffer'[BufferOf(chunks[m], m)] = buffer[BufferOf(chunks[m], m)]
      <4>1. BufferOf(chunks[m], m) \in DOMAIN buffer
        <5>1. m \in 1..MaxChunks /\ chunks[m] \in Layers
          BY <2>1, NanoAssumption DEF Holds, Queued, NanoTypes
        <5>2. QED
          BY <5>1 DEF CopyInv, BufferOf, PooledBuffers, OwnBuffers
      <4>2. QED
        BY <1>1, <2>3, <4>1
    <3>3. QED
      BY <1>5, <3>1, <3>2 DEF CopyInv
  <2>4. QED
    BY <2>2, <2>3
<1>6. \A m \in callbacks \cup ToSet(io_stream') : Holds(tensor[chunks[m]], m)
  BY <1>2 DEF CopyInv
<1>7. QED
  BY <1>1, <1>3, <1>5, <1>6 DEF CopyInv, BufferOf

LEMMA CallbackReads ==
    ASSUME NanoTypes, CopyInv, NEW n \in callbacks, DeferredCb(n) PROVE CopyInv' /\ NanoTypes'
<1> DEFINE data  == buffer[BufferOf(chunks[n], n)]
           entry == [chunk |-> n, data |-> data, filed |-> nano_step]
<1>1. /\ callbacks' = callbacks \ {n} /\ n \notin ToSet(io_stream)
      /\ delivered' = Append(delivered, entry)
      /\ UNCHANGED <<use_cuda, pinned, nano_step, chunks, cpu_queue, cpu_hand, tensor, buffer,
                     io_stream>>
  BY DEF DeferredCb, IoCallback, stepVars, cpuVars
<1>2. Holds(data, n)
  BY <1>1 DEF CopyInv
<1>3. entry \in [chunk : Nat, data : Nat, filed : Int]
      /\ entry.chunk = n /\ entry.data = data
  BY <1>2 DEF Holds, Queued, NanoTypes
<1> HIDE DEF data, entry
<1>4. NanoTypes'
  BY <1>1, <1>3 DEF NanoTypes
<1>5. \A d, m : Holds(d, m)' = Holds(d, m)
  BY <1>1 DEF Holds, Queued
<1>6. /\ Len(delivered) \in Nat /\ Len(delivered') = Len(delivered) + 1
      /\ \A i \in 1..Len(delivered) : delivered'[i] = delivered[i]
      /\ delivered'[Len(delivered) + 1] = entry
  BY <1>1, <1>3 DEF NanoTypes
<1>7. ASSUME use_cuda, NEW i \in 1..Len(delivered')
      PROVE  Holds(delivered'[i].data, delivered'[i].chunk)
  <2>1. CASE i \in 1..Len(delivered)
    BY <1>6, <1>7, <2>1 DEF CopyInv
  <2>2. CASE i = Len(delivered) + 1
    BY <1>2, <1>3, <1>6, <2>2
  <2>3. QED
    BY <1>6, <2>1, <2>2
<1>8. \A m \in callbacks' \ ToSet(io_stream) : Holds(buffer[BufferOf(chunks[m], m)], m)
  BY <1>1 DEF CopyInv
<1>9. \A m \in callbacks' \cup ToSet(io_stream) : Holds(tensor[chunks[m]], m)
  BY <1>1 DEF CopyInv
<1>10. CopyInv'
  BY <1>1, <1>5, <1>7, <1>8, <1>9 DEF CopyInv, BufferOf
<1>11. QED
  BY <1>4, <1>10

-------------------------------------------------------------------------------
(* The two paths together                                                  *)

\* With CUDA there is no worker, and without it no callback thread.
NanoInv ==
    /\ NanoTypes /\ CopyInv
    /\ IF use_cuda THEN cpu_worker = "none" ELSE OrderInv /\ callbacks = {}

LEMMA LayerEndKeeps ==
    ASSUME NanoInv, NEW l \in Layers, OnLayerEvent(l) PROVE NanoInv'
<1>1. /\ chunks' = Append(chunks, l) /\ Len(chunks) < MaxChunks /\ OnLayerComputeEnd(l)
      /\ UNCHANGED <<use_cuda, nano_step, cpu_hand, cpu_worker, delivered>>
  BY DEF OnLayerEvent, OnLayerComputeEnd
<1>2. CopyInv'
  BY <1>1, CopyQueued DEF NanoInv
<1>3. NanoTypes'
  <2>1. Len(chunks) + 1 \in Nat /\ cpu_queue \in Seq(Nat) /\ io_stream \in Seq(Nat)
    BY DEF NanoInv, NanoTypes
  <2>2. /\ cpu_queue' \in {cpu_queue, Append(cpu_queue, Len(chunks) + 1)}
        /\ io_stream' \in {io_stream, Append(io_stream, Len(chunks) + 1)}
    BY <1>1 DEF OnLayerComputeEnd, EnqueueCudaIo, cudaVars
  <2>3. cpu_queue' \in Seq(Nat) /\ io_stream' \in Seq(Nat)
    <3>1. Append(cpu_queue, Len(chunks) + 1) \in Seq(Nat)
      BY <2>1
    <3>2. Append(io_stream, Len(chunks) + 1) \in Seq(Nat)
      BY <2>1
    <3>3. QED
      BY <2>1, <2>2, <3>1, <3>2, Zenon
  <2>4. chunks' \in Seq(Layers) /\ Len(chunks') = Len(chunks) + 1 /\ Len(chunks) \in Nat
    BY <1>1 DEF NanoInv, NanoTypes
  <2>5. QED
    BY <1>1, <2>3, <2>4, NanoAssumption DEF NanoInv, NanoTypes
<1>4. CASE use_cuda
  BY <1>1, <1>2, <1>3, <1>4 DEF NanoInv
<1>5. CASE ~use_cuda
  <2>1. cpu_queue' = Append(cpu_queue, Len(chunks) + 1) /\ callbacks' = callbacks
    BY <1>1, <1>5 DEF OnLayerComputeEnd, cudaVars
  <2>2. OrderInv'
    BY <1>1, <1>5, <2>1, OrderAppend DEF NanoInv
  <2>3. QED
    BY <1>1, <1>2, <1>3, <1>5, <2>1, <2>2 DEF NanoInv
<1>6. QED
  BY <1>4, <1>5

LEMMA WorkerKeeps ==
    ASSUME NanoInv, CpuTest \/ CpuWrite PROVE NanoInv'
<1>1. ~use_cuda /\ OrderInv /\ NanoTypes /\ callbacks = {}
  BY DEF NanoInv, CpuTest, CpuWrite
<1>2. OrderInv'
  BY <1>1, OrderTake, OrderWrite
<1>3. UNCHANGED <<use_cuda, pinned, chunks, nano_step, tensor, buffer, io_stream, callbacks>>
  BY DEF CpuTest, CpuWrite, stepVars, cudaVars
<1>4. CopyInv'
  BY <1>1, <1>3 DEF NanoInv, CopyInv, Holds, Queued, BufferOf
<1>5. CASE CpuTest
  <2>1. delivered' = delivered
    BY <1>5 DEF CpuTest
  <2>2. CASE cpu_stop
    <3>1. UNCHANGED <<cpu_queue, cpu_hand>>
      BY <1>5, <2>2 DEF CpuTest
    <3>2. NanoTypes'
      BY <1>1, <1>3, <2>1, <3>1 DEF NanoTypes
    <3>3. QED
      BY <1>1, <1>2, <1>3, <1>4, <3>2 DEF NanoInv
  <2>3. CASE ~cpu_stop
    <3>1. /\ cpu_queue # <<>> /\ cpu_hand' = <<Head(cpu_queue)>>
          /\ cpu_queue' = Tail(cpu_queue)
      BY <1>5, <2>3 DEF CpuTest
    <3>2. Head(cpu_queue) \in Nat /\ Tail(cpu_queue) \in Seq(Nat)
      BY <1>1, <3>1, HeadTailProperties DEF NanoTypes
    <3>3. NanoTypes'
      BY <1>1, <1>3, <2>1, <3>1, <3>2 DEF NanoTypes
    <3>4. QED
      BY <1>1, <1>2, <1>3, <1>4, <3>3 DEF NanoInv
  <2>4. QED
    BY <2>2, <2>3
<1>6. CASE CpuWrite
  <2>1. cpu_hand = <<Len(delivered) + 1>> /\ Len(delivered) \in Nat
    BY <1>1, <1>6 DEF CpuWrite, OrderInv, NanoTypes
  <2>2. [chunk |-> cpu_hand[1], data |-> 0, filed |-> nano_step]
            \in [chunk : Nat, data : Nat, filed : Int]
    BY <1>1, <2>1 DEF NanoTypes
  <2>3. /\ delivered' = Append(delivered, [chunk |-> cpu_hand[1], data |-> 0, filed |-> nano_step])
        /\ cpu_hand' = <<>> /\ cpu_queue' = cpu_queue
    BY <1>6 DEF CpuWrite, IoCallback
  <2>4. delivered' \in Seq([chunk : Nat, data : Nat, filed : Int]) /\ cpu_hand' \in Seq(Nat)
    BY <1>1, <2>2, <2>3 DEF NanoTypes
  <2>5. NanoTypes'
    BY <1>1, <1>3, <2>3, <2>4 DEF NanoTypes
  <2>6. QED
    BY <1>1, <1>2, <1>3, <1>4, <2>5 DEF NanoInv
<1>7. QED
  BY <1>5, <1>6

LEMMA NanoStep == NanoInv /\ [NanoNext]_nanoVars => NanoInv'
<1> SUFFICES ASSUME NanoInv, [NanoNext]_nanoVars PROVE NanoInv'
  OBVIOUS
<1>1. ASSUME UNCHANGED <<use_cuda, pinned, chunks, cpu_queue, cpu_hand, cpu_worker, tensor,
                         buffer, io_stream, callbacks, delivered>>, nano_step' \in Int
      PROVE  NanoInv'
  BY <1>1 DEF NanoInv, NanoTypes, OrderInv, CopyInv, Holds, Queued, BufferOf
<1>2. ASSUME NEW l \in Layers, OnLayerEvent(l)
      PROVE  NanoInv'
  BY <1>2, LayerEndKeeps
<1>3. CASE BeginStep
  BY <1>1, <1>3 DEF BeginStep, cpuVars, NanoInv, NanoTypes
<1>4. CASE EndStep \/ DrainReturns \/ NanoShutdown \/ NanoJoined \/ UNCHANGED nanoVars
  BY <1>1, <1>4 DEF EndStep, DrainReturns, NanoShutdown, NanoJoined, nanoVars, stepVars,
                    cpuVars, cudaVars, NanoInv, NanoTypes
<1>5. CASE CpuTest \/ CpuWrite
  BY <1>5, WorkerKeeps
<1>6. CASE CopyDone
  <2>1. /\ io_stream # <<>> /\ io_stream' = Tail(io_stream)
        /\ UNCHANGED <<use_cuda, chunks, cpu_queue, cpu_hand, cpu_worker, nano_step, callbacks,
                       delivered>>
    BY <1>6 DEF CopyDone, stepVars, cpuVars
  <2>2. Tail(io_stream) \in Seq(Nat)
    BY <2>1, HeadTailProperties DEF NanoInv, NanoTypes
  <2>3. QED
    BY <1>6, <2>1, <2>2, CopyIsDone DEF NanoInv, NanoTypes, OrderInv
<1>7. ASSUME NEW n \in callbacks, DeferredCb(n)
      PROVE  NanoInv'
  <2>1. use_cuda /\ UNCHANGED <<use_cuda, cpu_worker>>
    BY <1>7 DEF NanoInv, DeferredCb, stepVars, cpuVars
  <2>2. QED
    BY <1>7, <2>1, CallbackReads DEF NanoInv
<1>8. QED
  BY <1>2, <1>3, <1>4, <1>5, <1>6, <1>7 DEF NanoNext

LEMMA NanoHolds == NanoSpec => []NanoInv
<1>1. NanoInit => NanoInv
  <2> SUFFICES ASSUME NanoInit PROVE NanoInv
    OBVIOUS
  <2>1. /\ chunks = <<>> /\ cpu_queue = <<>> /\ cpu_hand = <<>> /\ io_stream = <<>>
        /\ delivered = <<>> /\ callbacks = {} /\ nano_step = -1 /\ use_cuda \in BOOLEAN
        /\ cpu_worker = IF use_cuda THEN "none" ELSE "test"
        /\ tensor = [l \in Layers |-> 0]
        /\ buffer = [b \in PooledBuffers \cup OwnBuffers |-> 0]
    BY DEF NanoInit
  <2>2. Len(chunks) = 0 /\ Len(cpu_queue) = 0 /\ Len(cpu_hand) = 0 /\ Len(delivered) = 0
    BY <2>1
  <2>3. NanoTypes
    BY <2>1, <2>2, NanoAssumption DEF NanoTypes
  <2>4. ToSet(io_stream) = {}
    BY <2>1 DEF ToSet
  <2>5. CopyInv
    BY <2>1, <2>2, <2>4 DEF CopyInv
  <2>6. OrderInv \/ use_cuda
    BY <2>1, <2>2 DEF OrderInv
  <2>7. QED
    BY <2>1, <2>3, <2>5, <2>6 DEF NanoInv
<1>2. QED
  BY <1>1, NanoStep, PTL DEF NanoSpec

\* Without CUDA no chunk is lost, repeated or overtaken on its way to io_callback.
THEOREM ChunksGoInOrder == NanoSpec => []ChunksInOrder
<1>1. NanoInv => ChunksInOrder
  BY OrderedConcat DEF NanoInv, ChunksInOrder
<1>2. QED
  BY <1>1, NanoHolds, PTL

\* With CUDA a callback, however late, reads its own chunk or a later one of its layer.
THEOREM CallbacksReadNothingOlder == NanoSpec => []NeverOlder
<1>1. NanoInv => NeverOlder
  <2> SUFFICES ASSUME NanoInv, use_cuda, NEW i \in DOMAIN delivered
               PROVE  /\ delivered[i].data >= delivered[i].chunk
                      /\ chunks[delivered[i].data] = chunks[delivered[i].chunk]
    BY DEF NeverOlder
  <2>1. i \in 1..Len(delivered)
    BY DEF NanoInv, NanoTypes
  <2>2. QED
    BY <2>1 DEF NanoInv, CopyInv, Holds
<1>2. QED
  BY <1>1, NanoHolds, PTL
===============================================================================
