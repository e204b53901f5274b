---------------------------- MODULE CheckpointStore ----------------------------
(***************************************************************************)
(* What TEMPOScheduler promises for the checkpoints it is given, with       *)
(* phases, gates, chunks and temporary files left out.  A checkpoint is     *)
(* kept on local storage, waits in a bounded queue for the flush thread,    *)
(* and is durable on Lustre from one instant on.  Its local copy goes only  *)
(* after that, and a flush that fails leaves it.                            *)
(***************************************************************************)
EXTENDS Integers, Sequences

CONSTANTS Steps,       \* the steps that are checkpointed
          MaxPending,  \* how many checkpoints may wait
          NoStep       \* no step at hand

VARIABLES kept,      \* the steps whose checkpoint is whole on local storage
          durable,   \* those whose checkpoint is whole on Lustre
          accepted,  \* those that were ever queued
          waiting,   \* those that wait for the flush thread, oldest first
          current    \* the one that it flushes

storeVars == <<kept, durable, accepted, waiting, current>>

Init ==
    /\ kept = {} /\ durable = {} /\ accepted = {}
    /\ waiting = <<>> /\ current = NoStep

\* A step is saved once.
Save(s) ==
    /\ s \notin kept \cup durable
    /\ kept' = kept \cup {s}
    /\ UNCHANGED <<durable, accepted, waiting, current>>

\* What is queued is saved, and queued once; a checkpoint that finds the queue full
\* stays local, of which nothing is seen here.
Accept(s) ==
    /\ s \in kept \ (durable \cup accepted) /\ Len(waiting) < MaxPending
    /\ accepted' = accepted \cup {s}
    /\ waiting' = Append(waiting, s)
    /\ UNCHANGED <<kept, durable, current>>

\* One flush at a time, in the order in which they were queued.
Begin ==
    /\ current = NoStep /\ waiting # <<>>
    /\ current' = Head(waiting) /\ waiting' = Tail(waiting)
    /\ UNCHANGED <<kept, durable, accepted>>

Publish ==
    /\ current \in kept \ durable
    /\ durable' = durable \cup {current}
    /\ UNCHANGED <<kept, accepted, waiting, current>>

Release ==
    /\ current \in kept \cap durable
    /\ kept' = kept \ {current}
    /\ UNCHANGED <<durable, accepted, waiting, current>>

\* The flush has succeeded, or it failed and the checkpoint is still here.
End ==
    /\ current \in (kept \ durable) \cup (durable \ kept)
    /\ current' = NoStep
    /\ UNCHANGED <<kept, durable, accepted, waiting>>

Next ==
    \/ \E s \in Steps : Save(s) \/ Accept(s)
    \/ Begin \/ Publish \/ Release \/ End

Spec == Init /\ [][Next]_storeVars
===============================================================================
