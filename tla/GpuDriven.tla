-------------------------------- MODULE GpuDriven --------------------------------
(***************************************************************************)
(* tempo/gpu_driven.py: one GpuDrivenEndpoint of a GpuDrivenPool, which     *)
(* only looks its endpoint up.  Transfers are registered, triggered by the  *)
(* GPU's doorbell or by the CPU, and waited for on one completion queue.    *)
(* libfabric and the NIC are external: a queued send is done some time, in  *)
(* any order, and its completion is put on the queue; an injected one sends *)
(* without.  The callers may be several threads.                            *)
(***************************************************************************)
EXTENDS Integers, FiniteSets

CONSTANTS Transfers,     \* bound: the handles given out
          SmallTransfers \* those of at most INJECT_THRESHOLD bytes

ASSUME GpuAssumption == SmallTransfers \subseteq Transfers

VARIABLES
    fabric,        \* the endpoint: "none" (no _ep), "cpu" (no doorbell),
                   \* "doorbell"; "new", "closed"
    descriptors,   \* _descriptors: the handles registered
    next_handles,  \* the handles not given out yet
    finished,      \* the descriptors with _done
    tried,         \* history: the handles triggered
    posted,        \* those still with the NIC that will complete
    cq,            \* completion entries, by the handle they are about
    sent,          \* history: the transfers the NIC has sent
    overlapped     \* history: one was triggered before another was over

gpuVars == <<fabric, descriptors, next_handles, finished, tried, posted, cq, sent, overlapped>>

GpuInit ==
    /\ fabric = "new"
    /\ descriptors = {} /\ next_handles = Transfers /\ finished = {}
    /\ tried = {} /\ posted = {} /\ cq = {} /\ sent = {} /\ overlapped = FALSE

\* _open_libfabric() gets to an enabled endpoint, or raises before.
OpenLibfabric == BOOLEAN

\* _map_doorbell(): each step of it may fail, which it logs, or raise; the page
\* is mapped when the last one is done.
MapDoorbell == {"cpu", "doorbell"}

\* open(): an error, or no libfabric at all, leaves no endpoint; one after that
\* leaves the endpoint without a doorbell.
Open ==
    /\ fabric = "new"
    /\ \E bound \in OpenLibfabric : fabric' \in IF bound THEN MapDoorbell ELSE {"none"}
    /\ UNCHANGED <<descriptors, next_handles, finished, tried, posted, cq, sent, overlapped>>

RegisterTransfer(h) ==
    /\ fabric \notin {"new", "closed"} /\ h \in next_handles
    /\ next_handles' = next_handles \ {h}
    /\ descriptors' = descriptors \cup {h}
    /\ UNCHANGED <<fabric, finished, tried, posted, cq, sent, overlapped>>

-------------------------------------------------------------------------------
(* Triggering                                                              *)

\* A transfer is over when its wait was answered, or when it was given up and
\* the NIC owes no completion for it.
Unfinished == (tried \cap descriptors) \ finished
Over == Unfinished = {} /\ posted = {} /\ cq = {}

\* trigger_from_cpu(): done at once in simulation; fi_inject(), which has no
\* completion, or fi_send(); an error of either is logged.
TriggerFromCpu(h) ==
    \/ /\ fabric = "none"
       /\ finished' = finished \cup {h} /\ UNCHANGED <<posted, sent>>
    \/ /\ fabric = "cpu" /\ h \in SmallTransfers
       /\ sent' = sent \cup {h} /\ UNCHANGED <<finished, posted>>
    \/ /\ fabric = "cpu" /\ h \notin SmallTransfers
       /\ posted' = posted \cup {h} /\ UNCHANGED <<finished, sent>>
    \/ fabric = "cpu" /\ UNCHANGED <<finished, posted, sent>>

\* _doorbell_trigger(): cudaMemcpyAsync() gives the doorbell the token of the
\* transfer, or returns an error.
DoorbellTrigger(h) ==
    /\ fabric = "doorbell"
    /\ posted' \in {posted, posted \cup {h}}
    /\ UNCHANGED <<finished, sent>>

\* trigger_from_gpu().  A caller triggers each transfer once.
Trigger(h) ==
    /\ h \in descriptors \ tried
    /\ TriggerFromCpu(h) \/ DoorbellTrigger(h)
    /\ tried' = tried \cup {h}
    /\ overlapped' = (overlapped \/ ~Over)
    /\ UNCHANGED <<fabric, descriptors, next_handles, cq>>

\* The NIC is done with a transfer.
NicSends(h) ==
    /\ h \in posted
    /\ posted' = posted \ {h}
    /\ cq' = cq \cup {h} /\ sent' = sent \cup {h}
    /\ UNCHANGED <<fabric, descriptors, next_handles, finished, tried, overlapped>>

-------------------------------------------------------------------------------
(* wait_completion(); without a completion queue it sets _done itself      *)

WaitSimulated(h) ==
    /\ fabric = "none" /\ h \in descriptors
    /\ finished' = finished \cup {h}
    /\ UNCHANGED <<fabric, descriptors, next_handles, tried, posted, cq, sent, overlapped>>

\* Seeded fault: any answer of fi_cq_read() but EAGAIN is taken for a completion.
WaitCompletes_AnyReturn(h) ==
    /\ fabric \in {"cpu", "doorbell"} /\ h \in (tried \cap descriptors) \ finished
    /\ finished' = finished \cup {h}
    /\ cq' = {}
    /\ UNCHANGED <<fabric, descriptors, next_handles, tried, posted, sent, overlapped>>

\* fi_cq_read() takes up to eight entries: whosever they are, one is enough.
WaitCompletes(h) ==
    /\ fabric \in {"cpu", "doorbell"} /\ h \in (tried \cap descriptors) \ finished
    /\ finished' = finished \cup {h}
    /\ \E taken \in (SUBSET cq) \ {{}} :
        /\ (taken = cq /\ Cardinality(cq) <= 8) \/ Cardinality(taken) = 8
        /\ cq' = cq \ taken
    /\ UNCHANGED <<fabric, descriptors, next_handles, tried, posted, sent, overlapped>>

\* deregister(), of a transfer that was waited for or timed out.
Deregister(h) ==
    /\ h \in descriptors
    /\ descriptors' = descriptors \ {h}
    /\ UNCHANGED <<fabric, next_handles, finished, tried, posted, cq, sent, overlapped>>

ClosePool ==
    /\ fabric \notin {"new", "closed"}
    /\ fabric' = "closed"
    /\ posted' = {} /\ cq' = {}
    /\ UNCHANGED <<descriptors, next_handles, finished, tried, sent, overlapped>>

GpuNext ==
    \/ Open \/ ClosePool
    \/ \E h \in Transfers :
        \/ RegisterTransfer(h) \/ Trigger(h) \/ NicSends(h)
        \/ WaitSimulated(h) \/ WaitCompletes(h) \/ Deregister(h)

GpuSpec == GpuInit /\ [][GpuNext]_gpuVars

-------------------------------------------------------------------------------
\* gpu_driven.py:435, "Spin-poll the libfabric completion queue until
\* descriptor completes": on an endpoint, what is done was sent.
DoneMeansSent == fabric \in {"cpu", "doorbell"} => finished \subseteq sent

\* As the usage example has it, one transfer after the other, this is so: when none
\* is triggered before the NIC owes nothing for the last, the completion that a
\* wait finds is that of its own, whatever is injected, fails or is given up.
OneAtATimeIsSafe == ~overlapped => DoneMeansSent
===============================================================================
