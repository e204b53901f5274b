----------------------------- MODULE BoundedFifo -----------------------------
(***************************************************************************)
(* What the spike absorber promises its callers, with the ring, the slot   *)
(* sequence numbers and the two positions left out: a queue of at most     *)
(* Capacity blocks that hands every accepted block to its consumer exactly *)
(* once and in the order of acceptance, and refuses a block only while it  *)
(* holds Capacity of them.                                                 *)
(***************************************************************************)
EXTENDS Integers, Sequences

CONSTANTS Block,     \* the blocks that can be offered
          Capacity   \* the number of blocks the queue holds

VARIABLES queue,      \* accepted and not yet handed over, oldest first
          delivered,  \* how many blocks were handed to the consumer
          refused     \* how many blocks were refused

fifoVars == <<queue, delivered, refused>>

Init == queue = <<>> /\ delivered = 0 /\ refused = 0

Accept(b) ==
    /\ Len(queue) < Capacity
    /\ queue' = Append(queue, b)
    /\ UNCHANGED <<delivered, refused>>

Refuse ==
    /\ Len(queue) = Capacity
    /\ refused' = refused + 1
    /\ UNCHANGED <<queue, delivered>>

Deliver ==
    /\ queue # <<>>
    /\ queue' = Tail(queue)
    /\ delivered' = delivered + 1
    /\ UNCHANGED refused

Next == (\E b \in Block : Accept(b)) \/ Refuse \/ Deliver

Spec == Init /\ [][Next]_fifoVars
===============================================================================
