---------------------------- MODULE RequestQueue ----------------------------
(***************************************************************************)
(* RequestQueue<T>: the monitor between the WebSocket controllers and the  *)
(* worker threads of WorkerPool.  Every method runs under mutex_, which    *)
(* only pthread_cond_wait gives up in between, so that a method is one     *)
(* step except where it waits.  A thread that was signalled has to take    *)
(* the mutex again before it looks at the queue: others may come first,    *)
(* and it may wake without being signalled.                                *)
(***************************************************************************)
EXTENDS CircularQueue, FiniteSets, Functions

CONSTANTS
    Items,            \* requests the controllers push, each once
    Consumers         \* worker threads

ASSUME ItemsAssumption == Default \notin Items /\ IsFiniteSet(Items)

ASSUME ConsumersAssumption == IsFiniteSet(Consumers)

VARIABLES
    queue_, shuttingDown_,
    wpc,             \* where a worker is in its loop around pop()
    sent,            \* requests push() was called for
    accepted,        \* requests push() returned true for
    delivered        \* requests pop() handed out, in that order

queueVars == <<queue_, shuttingDown_>>
rqVars == <<queueVars, wpc, sent, accepted, delivered>>

Waiting == {c \in Consumers : wpc[c] = "waiting"}

RQInit ==
    /\ queue_ = EmptyRing
    /\ shuttingDown_ = FALSE
    /\ wpc = [c \in Consumers |-> "enter"]
    /\ sent = {}
    /\ accepted = {}
    /\ delivered = <<>>

(* pthread_cond_signal: one of the waiting threads, if there is any. *)
Signal ==
    IF Waiting # {} THEN \E c \in Waiting : wpc' = [wpc EXCEPT ![c] = "woken"]
                    ELSE UNCHANGED wpc

Broadcast == wpc' = [c \in Consumers |-> IF wpc[c] = "waiting" THEN "woken"
                                                               ELSE wpc[c]]

(* Mutant: the waiters are told about the first request only. *)
PushSignallingOnFirst(x) ==
    /\ x \notin sent
    /\ sent' = sent \union {x}
    /\ \/ /\ shuttingDown_
          /\ UNCHANGED <<queue_, wpc, accepted>>
       \/ /\ ~shuttingDown_
          /\ queue_' = Pushed(queue_, x)
          /\ IF isEmpty(queue_) THEN Signal ELSE UNCHANGED wpc
          /\ accepted' = accepted \union {x}
    /\ UNCHANGED <<shuttingDown_, delivered>>

(* push() refuses after shutdown() and otherwise returns true, whatever    *)
(* the ring made of the request.                                           *)
Push(x) ==
    /\ x \notin sent
    /\ sent' = sent \union {x}
    /\ \/ /\ shuttingDown_
          /\ UNCHANGED <<queue_, wpc, accepted>>
       \/ /\ ~shuttingDown_
          /\ queue_' = Pushed(queue_, x)
          /\ Signal
          /\ accepted' = accepted \union {x}
    /\ UNCHANGED <<shuttingDown_, delivered>>

(* Mutant: a worker leaves as soon as the queue is shut down. *)
PopUnlessShutDown(c) ==
    /\ wpc[c] \in {"enter", "woken"}
    /\ wpc' = [wpc EXCEPT ![c] =
                 IF shuttingDown_ THEN "exited"
                 ELSE IF isEmpty(queue_) THEN "waiting" ELSE "busy"]
    /\ IF shuttingDown_ \/ isEmpty(queue_) THEN UNCHANGED <<queue_, delivered>>
       ELSE /\ delivered' = Append(delivered, front(queue_))
            /\ queue_' = Popped(queue_)
    /\ UNCHANGED <<shuttingDown_, sent, accepted>>

(* Mutant: the condition is tested with `if` instead of `while`. *)
PopWithoutRetest(c) ==
    /\ \/ wpc[c] = "enter" /\ isEmpty(queue_) /\ ~shuttingDown_
          /\ wpc' = [wpc EXCEPT ![c] = "waiting"]
          /\ UNCHANGED <<queue_, delivered>>
       \/ /\ wpc[c] = "woken" \/ ~isEmpty(queue_) \/ shuttingDown_
          /\ wpc[c] \in {"enter", "woken"}
          /\ wpc' = [wpc EXCEPT ![c] = IF isEmpty(queue_) THEN "exited"
                                                          ELSE "busy"]
          /\ delivered' = IF isEmpty(queue_) THEN delivered
                          ELSE Append(delivered, front(queue_))
          /\ queue_' = Popped(queue_)
    /\ UNCHANGED <<shuttingDown_, sent, accepted>>

(* pop(), from taking the mutex (at the start, or when pthread_cond_wait   *)
(* returns) to giving it up: wait, return false, or take the front.        *)
Pop(c) ==
    /\ wpc[c] \in {"enter", "woken"}
    /\ \/ /\ isEmpty(queue_) /\ ~shuttingDown_
          /\ wpc' = [wpc EXCEPT ![c] = "waiting"]
          /\ UNCHANGED <<queue_, delivered>>
       \/ /\ isEmpty(queue_) /\ shuttingDown_
          /\ wpc' = [wpc EXCEPT ![c] = "exited"]
          /\ UNCHANGED <<queue_, delivered>>
       \/ /\ ~isEmpty(queue_)
          /\ delivered' = Append(delivered, front(queue_))
          /\ queue_' = Popped(queue_)
          /\ wpc' = [wpc EXCEPT ![c] = "busy"]
    /\ UNCHANGED <<shuttingDown_, sent, accepted>>

(* The worker has dealt with its request and calls pop() again. *)
Finish(c) ==
    /\ wpc[c] = "busy"
    /\ wpc' = [wpc EXCEPT ![c] = "enter"]
    /\ UNCHANGED <<queueVars, sent, accepted, delivered>>

(* pthread_cond_wait may return by itself. *)
SpuriousWakeup(c) ==
    /\ wpc[c] = "waiting"
    /\ wpc' = [wpc EXCEPT ![c] = "woken"]
    /\ UNCHANGED <<queueVars, sent, accepted, delivered>>

(* Mutant: shutdown() wakes one worker. *)
ShutdownSignalling ==
    /\ shuttingDown_' = TRUE
    /\ Signal
    /\ UNCHANGED <<queue_, sent, accepted, delivered>>

(* shutdown(), called by the destructor of WorkerPool. *)
Shutdown ==
    /\ shuttingDown_' = TRUE
    /\ Broadcast
    /\ UNCHANGED <<queue_, sent, accepted, delivered>>

(* notifyAll(), which nothing in the repository calls. *)
NotifyAll ==
    /\ Broadcast
    /\ UNCHANGED <<queueVars, sent, accepted, delivered>>

-----------------------------------------------------------------------------
RQTypeOK ==
    /\ queue_ \in [head : -1..(max - 1), tail : -1..(max - 1),
                   arr : [0..(max - 1) -> Items \union {Default}]]
    /\ queue_.head = -1 <=> queue_.tail = -1
    /\ shuttingDown_ \in BOOLEAN
    /\ wpc \in [Consumers -> {"enter", "waiting", "woken", "busy", "exited"}]
    /\ accepted \subseteq sent
    /\ sent \subseteq Items
    /\ delivered \in Seq(Items)

(* As long as some worker sleeps, there is a worker awake for every queued *)
(* request: one pthread_cond_signal per push, without looking at what the  *)
(* queue held before, loses no wakeup, although a signalled worker may     *)
(* find that another one has been faster.                                  *)
NoLostWakeup ==
    Waiting # {} =>
        Size(queue_) <= Cardinality({c \in Consumers :
                                       wpc[c] \notin {"waiting", "exited"}})

(* A worker's loop ends only when the queue is shut down and drained, and  *)
(* nothing comes in afterwards.                                            *)
DrainedBeforeExit ==
    (\E c \in Consumers : wpc[c] = "exited") =>
        shuttingDown_ /\ isEmpty(queue_)

(* The ring, the mutex and the condition variable implement a closable     *)
(* bounded FIFO.                                                           *)
Fifo == INSTANCE BoundedFifo
          WITH Capacity <- max, waiting <- Contents(queue_),
               closed <- shuttingDown_

RefinesFifo == Fifo!FifoSpec

(* A queued request is handed to a worker, also during a shutdown. *)
QueuedIsDelivered ==
    \A x \in Items : x \in Range(Contents(queue_)) ~> x \in Range(delivered)

(* The pthread_joins after shutdown() return. *)
ShutdownEnds ==
    shuttingDown_ ~> \A c \in Consumers : wpc[c] = "exited"

(* Requests push() took and the ring threw away. *)
Dropped == accepted \ (Range(Contents(queue_)) \union Range(delivered))

(* push() returning true means the request is queued: the callers take     *)
(* false for "request dropped, queue full".                                *)
AcceptedIsKept == Dropped = {}
=============================================================================
