--------------------------- MODULE LMCacheConnector ---------------------------
(***************************************************************************)
(* tempo/lmcache_connector.py behind the hook of tempo/vllm_hook.py: KV     *)
(* tensors evicted by vLLM are queued and written to the backing store by   *)
(* one thread (_SoftAbsorber), or handed to the C++ engine when libtempo.so *)
(* is found.  A tensor is the number of the put() that brought it.  The     *)
(* token bucket only delays the thread, between taking and writing.         *)
(***************************************************************************)
EXTENDS Integers, Sequences, SequencesExt

CONSTANTS KvKeys,
          MaxTensors,      \* bound: tensors put per key
          MaxBackingFails  \* bound: backing.put() calls that raise

VARIABLES
    using_c,      \* _using_c: libtempo.so was found
    wrapped,      \* the hook has made its TEMPOStorageBackend
    tensors,      \* tensors put so far, by key
    backing,      \* the backing store: the tensor under each key, 0 for none
    newest,       \* history: the newest tensor ever written, by key
    engine,       \* tensors the C++ engine accepted
    queue,        \* _queue
    worker,       \* flush thread: "none", "test", "wait", "hold", "done", "raised"
    hand,         \* what it took from the queue: <<>> or <<item>>
    stop,         \* _stop
    closer,       \* close(): "open", "join", "closed"
    fails         \* backing.put() calls that raised

connectorVars == <<using_c, wrapped, tensors, backing, newest, engine, queue,
                   worker, hand, stop, closer, fails>>

Item(k, n) == [key |-> k, tensor |-> n]

ConnectorInit ==
    /\ using_c \in BOOLEAN
    /\ wrapped = FALSE
    /\ tensors = [k \in KvKeys |-> 0]
    /\ backing = [k \in KvKeys |-> 0] /\ newest = [k \in KvKeys |-> 0]
    /\ engine = {} /\ queue = <<>>
    /\ worker = "none" /\ hand = <<>>
    /\ stop = FALSE /\ closer = "open"
    /\ fails = 0

WriteBacking(item) ==
    /\ backing' = [backing EXCEPT ![item.key] = item.tensor]
    /\ newest' = [newest EXCEPT ![item.key] = item.tensor]

-------------------------------------------------------------------------------
(* tempo_store_kv_cache() and TEMPOStorageBackend.put()                    *)

\* _init_c_absorber(): the engine is there, or tempo_create_engine() returned NULL.
InitCAbsorber == BOOLEAN

\* The first call wraps the connector's store; the soft absorber starts its
\* thread.
Wrap ==
    /\ wrapped' = TRUE
    /\ worker' = IF ~wrapped /\ ~using_c THEN "test" ELSE worker

\* _SoftAbsorber.absorb()
Absorb(item) ==
    /\ queue' = Append(queue, item)
    /\ UNCHANGED <<backing, newest, engine>>

\* _c_absorb(): the ring takes the block, or is full and the block goes
\* straight to the backing store.
CAbsorb(item) ==
    /\ \/ /\ engine' = engine \cup {item}
          /\ UNCHANGED <<backing, newest>>
       \/ /\ WriteBacking(item)
          /\ UNCHANGED engine
    /\ UNCHANGED queue

\* The first call raises, and the tensor is not stored: the next call tries again.
EngineFails == using_c /\ ~wrapped /\ \E made \in InitCAbsorber : ~made

StoreKvCache(k) ==
    /\ closer = "open" /\ tensors[k] < MaxTensors
    /\ tensors' = [tensors EXCEPT ![k] = @ + 1]
    /\ \/ /\ Wrap
          /\ IF using_c THEN CAbsorb(Item(k, tensors[k] + 1)) ELSE Absorb(Item(k, tensors[k] + 1))
       \/ /\ EngineFails
          /\ UNCHANGED <<wrapped, worker, backing, newest, engine, queue>>
    /\ UNCHANGED <<using_c, hand, stop, closer, fails>>

\* TEMPOStorageBackend.delete(): the backing store only.
Delete(k) ==
    /\ closer = "open" /\ wrapped /\ backing[k] # 0
    /\ backing' = [backing EXCEPT ![k] = 0]
    /\ UNCHANGED <<using_c, wrapped, tensors, newest, engine, queue, worker, hand,
                   stop, closer, fails>>

-------------------------------------------------------------------------------
(* _flush_worker()                                                         *)

\* while not self._stop.is_set()
WorkerTest ==
    /\ worker = "test"
    /\ worker' = IF stop THEN "done" ELSE "wait"
    /\ UNCHANGED <<using_c, wrapped, tensors, backing, newest, engine, queue, hand,
                   stop, closer, fails>>

\* Seeded fault: pop() for pop(0).
WorkerTake_Last ==
    /\ worker = "wait" /\ queue # <<>>
    /\ hand' = <<Last(queue)>> /\ queue' = Front(queue)
    /\ worker' = "hold"
    /\ UNCHANGED <<using_c, wrapped, tensors, backing, newest, engine, stop, closer, fails>>

\* Under the condition's lock, with something in the queue: a stop that came
\* after the test does not prevent this.
WorkerTake ==
    /\ worker = "wait" /\ queue # <<>>
    /\ hand' = <<Head(queue)>> /\ queue' = Tail(queue)
    /\ worker' = "hold"
    /\ UNCHANGED <<using_c, wrapped, tensors, backing, newest, engine, stop, closer, fails>>

\* With nothing in the queue: until a stop, wait().
WorkerQuits ==
    /\ worker = "wait" /\ queue = <<>> /\ stop
    /\ worker' = "done"
    /\ UNCHANGED <<using_c, wrapped, tensors, backing, newest, engine, queue, hand,
                   stop, closer, fails>>

\* Seeded fault: a put that raises is skipped and the loop goes on.
WorkerFails_Skips ==
    /\ worker = "hold" /\ fails < MaxBackingFails
    /\ fails' = fails + 1
    /\ worker' = "test" /\ hand' = <<>>
    /\ UNCHANGED <<using_c, wrapped, tensors, backing, newest, engine, queue, stop, closer>>

\* backing.put() raises and ends the thread.
WorkerFails ==
    /\ worker = "hold" /\ fails < MaxBackingFails
    /\ fails' = fails + 1
    /\ worker' = "raised"
    /\ UNCHANGED <<using_c, wrapped, tensors, backing, newest, engine, queue, hand,
                   stop, closer>>

\* The bucket is full enough: backing.put().
WorkerWrite ==
    /\ worker = "hold"
    /\ WriteBacking(hand[1])
    /\ hand' = <<>> /\ worker' = "test"
    /\ UNCHANGED <<using_c, wrapped, tensors, engine, queue, stop, closer, fails>>

-------------------------------------------------------------------------------
(* close() and _SoftAbsorber.shutdown()                                    *)

Close ==
    /\ closer = "open" /\ wrapped
    /\ IF using_c THEN closer' = "closed" /\ UNCHANGED stop
       ELSE closer' = "join" /\ stop' = TRUE
    /\ UNCHANGED <<using_c, wrapped, tensors, backing, newest, engine, queue, worker,
                   hand, fails>>

\* join(timeout=5.0): over when the thread is, or after a write that takes too long.
CloseReturns ==
    /\ closer = "join"
    /\ worker \in {"done", "raised", "hold"}
    /\ closer' = "closed"
    /\ UNCHANGED <<using_c, wrapped, tensors, backing, newest, engine, queue, worker,
                   hand, stop, fails>>

-------------------------------------------------------------------------------
WorkerStep == WorkerTest \/ WorkerTake \/ WorkerQuits \/ WorkerWrite

ConnectorNext ==
    \/ \E k \in KvKeys : StoreKvCache(k) \/ Delete(k)
    \/ WorkerStep \/ WorkerFails
    \/ Close \/ CloseReturns

ConnectorSpec == ConnectorInit /\ [][ConnectorNext]_connectorVars /\ WF_connectorVars(WorkerStep)

-------------------------------------------------------------------------------
\* The tensors on their way to the backing store, in order.
Pending == hand \o queue

Mine(k) == {i \in DOMAIN Pending : Pending[i].key = k}

\* Nothing is lost on the way through the soft absorber: what was put and not
\* yet written is on its way, each once, and in order, until the end.
PendingIsTheRest ==
    ~using_c => \A k \in KvKeys :
        /\ {Pending[i].tensor : i \in Mine(k)} = (newest[k] + 1)..tensors[k]
        /\ \A i, j \in Mine(k) : i < j => Pending[i].tensor < Pending[j].tensor

\* A queued tensor is written unless the store is closed or a write raised.
PutsLand ==
    \A k \in KvKeys : (~using_c /\ tensors[k] > newest[k])
        ~> (tensors[k] = newest[k] \/ stop \/ worker = "raised")
===============================================================================
