---------------------------- MODULE BoundedFifo ----------------------------
(***************************************************************************)
(* What a request queue promises its two sides, with every mutex, index    *)
(* and condition variable gone: requests come out in the order they went   *)
(* in, each at most once, nothing enters once the queue is closed, and     *)
(* what is inside at that moment still comes out.                          *)
(***************************************************************************)
EXTENDS Sequences, Naturals

CONSTANTS Items, Capacity

VARIABLES waiting, closed, delivered

fifoVars == <<waiting, closed, delivered>>

FifoInit == waiting = <<>> /\ closed = FALSE /\ delivered = <<>>

Enqueue(x) ==
    /\ ~closed
    /\ Len(waiting) < Capacity
    /\ waiting' = Append(waiting, x)
    /\ UNCHANGED <<closed, delivered>>

Dequeue ==
    /\ waiting # <<>>
    /\ delivered' = Append(delivered, Head(waiting))
    /\ waiting' = Tail(waiting)
    /\ UNCHANGED closed

Close ==
    /\ closed' = TRUE
    /\ UNCHANGED <<waiting, delivered>>

FifoNext == (\E x \in Items : Enqueue(x)) \/ Dequeue \/ Close

FifoSpec == FifoInit /\ [][FifoNext]_fifoVars
=============================================================================
