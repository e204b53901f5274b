----------------------------- MODULE P2PCacheStore -----------------------------
(***************************************************************************)
(* tempo/p2p_cache.py on one rank: the consistent hash ring, and the local  *)
(* DRAM and NVMe tiers with their byte counts.  A value is the number of    *)
(* the put() that brought it.  The store's lock makes each operation one    *)
(* step.  No code fills _peer_addrs, so every remote operation fails.       *)
(***************************************************************************)
EXTENDS Integers, Sequences, FiniteSets, SequencesExt

CONSTANTS
    Keys, Ranks, Me,
    Size,                  \* bytes of a key's values
    Points, Hash,          \* the ring: hash points of a rank, hash of a key
    Replication,           \* replicas per key
    Simulation,            \* TRUE: every owner is this process
    DramLimit, NvmeLimit,  \* byte budgets
    MaxPuts,               \* bound: put() calls per key
    MaxIOErrors            \* bound: NVMe writes that fail

ASSUME StoreAssumption ==
    /\ IsFiniteSet(Keys) /\ IsFiniteSet(Ranks)
    /\ Me \in Ranks /\ Simulation \in BOOLEAN
    /\ Size \in [Keys -> Nat \ {0}]
    /\ Points \in [Ranks -> SUBSET Nat] /\ Hash \in [Keys -> Nat]
    /\ Replication \in Nat /\ DramLimit \in Nat /\ NvmeLimit \in Nat

VARIABLES
    puts,       \* values put so far, by key
    store,      \* the _LocalTierStore
    io_errors   \* NVMe writes that failed

p2pVars == <<puts, store, io_errors>>

NoEntry == [value |-> 0, size |-> 0]
Entry(n, s) == [value |-> n, size |-> s]
TornFile == [value |-> -1, size |-> 0]   \* truncated, not written

-------------------------------------------------------------------------------
(* _ConsistentHashRing                                                     *)

\* _sorted_keys, once every rank has been added.
RingPoints == UNION {Points[r] : r \in Ranks}
SortedKeys == SetToSortSeq(RingPoints, <)

\* _bisect(): the index of the first point not below h, round the ring.
Bisect(h) ==
    LET below == Cardinality({p \in RingPoints : p < h})
    IN  IF below = Len(SortedKeys) THEN 1 ELSE below + 1

\* get_nodes(): the first n different ranks round the ring from the key's hash.
GetNodes(key, n) ==
    LET from == Bisect(Hash[key])
        At(i) == SortedKeys[1 + ((from - 1 + i) % Len(SortedKeys))]
        Node(p) == CHOOSE r \in Ranks : p \in Points[r]
        Walk(owners, i) ==
            IF Len(owners) >= n \/ Contains(owners, Node(At(i))) THEN owners
            ELSE Append(owners, Node(At(i)))
    IN  FoldLeft(Walk, <<>>, [i \in 1..Len(SortedKeys) |-> i - 1])

Owners(key) == GetNodes(key, Replication)
IsLocal(owner) == owner = Me \/ Simulation

\* The owners of a key that are this process.
LocalOwners(key) == {r \in Ranks : IsLocal(r) /\ Contains(Owners(key), r)}

-------------------------------------------------------------------------------
(* _LocalTierStore.  recent lists the keys in DRAM, least recently used     *)
(* first; an index entry and a file may disagree when a write failed.       *)

EmptyStore ==
    [dram |-> [k \in Keys |-> NoEntry], recent |-> <<>>, dram_bytes |-> 0,
     nvme |-> [k \in Keys |-> NoEntry], nvme_bytes |-> 0,
     file |-> [k \in Keys |-> NoEntry]]

\* _nvme_write(): written, not opened, or truncated and not written.
Written(st, k, outcome) ==
    CASE outcome = "written"  -> st.dram[k]
      [] outcome = "unopened" -> st.file[k]
      [] outcome = "torn"     -> TornFile

\* Seeded fault: the NVMe budget is compared without the victim's size.
Spill_Late(st, k, outcome) ==
    LET e == st.dram[k]
        popped == [st EXCEPT !.dram[k] = NoEntry, !.recent = RemoveFirst(@, k),
                             !.dram_bytes = @ - e.size]
    IN  IF st.nvme_bytes > NvmeLimit THEN popped
        ELSE [popped EXCEPT !.nvme[k] = e, !.nvme_bytes = @ + e.size,
                            !.file[k] = Written(st, k, outcome)]

\* One turn of the loop of _evict_dram_if_needed(): the victim is spilled to
\* NVMe, or dropped when that is full.
Spill(st, k, outcome) ==
    LET e == st.dram[k]
        popped == [st EXCEPT !.dram[k] = NoEntry, !.recent = RemoveFirst(@, k),
                             !.dram_bytes = @ - e.size]
    IN  IF st.nvme_bytes + e.size > NvmeLimit THEN popped
        ELSE [popped EXCEPT !.nvme[k] = e, !.nvme_bytes = @ + e.size,
                            !.file[k] = Written(st, k, outcome)]

\* The test of that loop: the bytes fit, or there is nothing left to evict.
Fits(st, needed) == st.dram_bytes + needed <= DramLimit \/ st.recent = <<>>

EvictTurn(st, needed, bad, how) ==
    LET victim == Head(st.recent)
    IN  IF Fits(st, needed) THEN st
        ELSE Spill(st, victim, IF victim \in bad THEN how ELSE "written")

\* _evict_dram_if_needed(), least recently used first: `bad` are the victims
\* whose write fails.
EvictDramIfNeeded(st, needed, bad, how) ==
    LET after[n \in 0..Len(st.recent)] ==
            IF n = 0 THEN st ELSE EvictTurn(after[n - 1], needed, bad, how)
    IN  after[Len(st.recent)]

Inserted(st, k, e) ==
    [st EXCEPT !.dram[k] = e, !.recent = Append(RemoveFirst(@, k), k),
               !.dram_bytes = @ + e.size]

\* _LocalTierStore.put(): a key put again is counted again.
LocalPut(st, k, n, bad, how) ==
    Inserted(EvictDramIfNeeded(st, Size[k], bad, how), k, Entry(n, Size[k]))

\* get(), in DRAM: the entry becomes the most recently used.
Touched(st, k) == [st EXCEPT !.recent = Append(RemoveFirst(@, k), k)]

\* Seeded fault: the promoted key stays in the NVMe index.
Promoted_KeepsIndex(st, k, bad, how) ==
    LET data == st.file[k]
        room == EvictDramIfNeeded(st, data.size, bad, how)
    IN  [Inserted(room, k, data) EXCEPT !.nvme_bytes = @ - st.nvme[k].size]

\* get(), in NVMe: promoted to DRAM, by the size of the data that was read.
Promoted(st, k, bad, how) ==
    LET data == st.file[k]
        room == EvictDramIfNeeded(st, data.size, bad, how)
    IN  [Inserted(room, k, data) EXCEPT !.nvme[k] = NoEntry,
                                        !.nvme_bytes = @ - st.nvme[k].size]

-------------------------------------------------------------------------------
(* P2PCacheStore                                                           *)

P2PInit ==
    /\ puts = [k \in Keys |-> 0]
    /\ store = EmptyStore
    /\ io_errors = 0

\* Which NVMe writes of an operation fail, and how.
IOOutcome(bad) ==
    /\ io_errors + Cardinality(bad) <= MaxIOErrors
    /\ io_errors' = io_errors + Cardinality(bad)

\* The loop of put(): once for each owner that is this process.
PutOnOwners(st, k, n, bad, how) ==
    LET copies == Cardinality(LocalOwners(k))
        after[i \in 0..copies] ==
            IF i = 0 THEN st ELSE LocalPut(after[i - 1], k, n, bad, how)
    IN  after[copies]

\* The keys that put(k) and get(k) write to NVMe: a failure makes a difference.
SpilledByPut(k) ==
    {v \in Keys : PutOnOwners(store, k, puts[k] + 1, {v}, "torn")
                 # PutOnOwners(store, k, puts[k] + 1, {}, "torn")}
SpilledByGet(k) ==
    {v \in Keys : Promoted(store, k, {v}, "torn") # Promoted(store, k, {}, "torn")}

Put(k) ==
    /\ puts[k] < MaxPuts
    /\ puts' = [puts EXCEPT ![k] = @ + 1]
    /\ \E bad \in SUBSET SpilledByPut(k), how \in {"unopened", "torn"} :
        /\ IOOutcome(bad)
        /\ store' = PutOnOwners(store, k, puts[k] + 1, bad, how)

InDram(k) == store.dram[k] # NoEntry
InNvme(k) == store.nvme[k] # NoEntry /\ store.file[k] # NoEntry
LocallyOwned(k) == LocalOwners(k) # {}

\* get(); a miss changes nothing but statistics.
GetHit(k) ==
    /\ LocallyOwned(k) /\ InDram(k)
    /\ store' = Touched(store, k)
    /\ UNCHANGED <<puts, io_errors>>

GetPromotes(k) ==
    /\ LocallyOwned(k) /\ ~InDram(k) /\ InNvme(k)
    /\ \E bad \in SUBSET SpilledByGet(k), how \in {"unopened", "torn"} :
        /\ IOOutcome(bad)
        /\ store' = Promoted(store, k, bad, how)
    /\ UNCHANGED puts

\* evict(): out of DRAM only, and not out of the count.
Evict(k) ==
    /\ LocallyOwned(k) /\ InDram(k)
    /\ store' = [store EXCEPT !.dram[k] = NoEntry, !.recent = RemoveFirst(@, k)]
    /\ UNCHANGED <<puts, io_errors>>

P2PNext == \E k \in Keys : Put(k) \/ GetHit(k) \/ GetPromotes(k) \/ Evict(k)

P2PSpec == P2PInit /\ [][P2PNext]_p2pVars

-------------------------------------------------------------------------------
\* A key put again, or spilled and put, may have an old copy in NVMe: the copy
\* in DRAM, the one that get() answers, is always the newer of the two.  No value
\* is in both tiers, except where one process is every replica: a second copy may
\* evict the first.
DramShadowsOlder ==
    \A k \in Keys : InDram(k) /\ InNvme(k) =>
        \/ store.dram[k].value > store.file[k].value
        \/ Simulation /\ store.dram[k].value = store.file[k].value

SizeIn(tier) == SumFunctionOnSet([k \in Keys |-> tier[k].size], Keys)

\* The byte counts drift, by replaced and evicted keys, but never below what is
\* there: neither tier outgrows its budget, one large value excepted.
BudgetsHold ==
    /\ SizeIn(store.dram) <= store.dram_bytes
    /\ SizeIn(store.nvme) <= store.nvme_bytes /\ store.nvme_bytes <= NvmeLimit
    /\ SizeIn(store.dram) <= DramLimit \/ Len(store.recent) = 1
===============================================================================
