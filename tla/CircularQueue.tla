--------------------------- MODULE CircularQueue ---------------------------
(***************************************************************************)
(* circular_queue<T> of request_queue.hpp: a ring of max slots with a head *)
(* and a tail index that are both -1 while it is empty.                    *)
(***************************************************************************)
EXTENDS Integers, Sequences

CONSTANTS
    max,              \* capacity, the constructor's argument
    Default           \* T(), what the constructor fills the slots with

ASSUME CapacityAssumption == max \in Nat \ {0}

EmptyRing == [head |-> -1, tail |-> -1, arr |-> [i \in 0..(max - 1) |-> Default]]

isEmpty(q) == q.head = -1 /\ q.tail = -1

isFull(q) == (q.tail + 1) % max = q.head

(* push() returns false and changes nothing when the ring is full. *)
Pushed(q, x) ==
    LET tail == (q.tail + 1) % max
    IN  IF isFull(q) THEN q
        ELSE [head |-> IF q.head = -1 THEN 0 ELSE q.head,
              tail |-> tail,
              arr  |-> [q.arr EXCEPT ![tail] = x]]

(* Mutant: the ring never becomes empty again. *)
PoppedKeepingHead(q) ==
    IF q.head = -1 THEN q ELSE [q EXCEPT !.head = (@ + 1) % max]

(* Mutant: only one of the indexes is reset. *)
PoppedHalfReset(q) ==
    IF q.head = -1 THEN q
    ELSE IF q.head = q.tail THEN [q EXCEPT !.head = -1]
    ELSE [q EXCEPT !.head = (@ + 1) % max]

(* pop() removes the front element; the last one resets both indexes. *)
Popped(q) ==
    IF q.head = -1 THEN q
    ELSE IF q.head = q.tail THEN [q EXCEPT !.head = -1, !.tail = -1]
    ELSE [q EXCEPT !.head = (@ + 1) % max]

(* front() of a ring that is not empty. *)
front(q) == q.arr[q.head]

-----------------------------------------------------------------------------
(* The sequence a ring stands for. *)
Size(q) == IF q.head = -1 THEN 0 ELSE ((q.tail - q.head + max) % max) + 1

Contents(q) == [i \in 1..Size(q) |-> q.arr[(q.head + i - 1) % max]]
=============================================================================
