------------------------------ MODULE Pipeline ------------------------------
(***************************************************************************)
(* The whole pipeline of the worker pool: requests come through            *)
(* RequestQueue, transaction workers answer each of them into              *)
(* ResponseQueue.  Two programs are built around it.  bank_server never    *)
(* looks at the responses and destroys the pool whenever its event loop    *)
(* ends.  stress_test pushes its requests from producer threads, joins     *)
(* them, and then takes one response per submitted request from the        *)
(* response queue, as its way to wait until all work is done, before it    *)
(* destroys the pool.                                                      *)
(*                                                                         *)
(* What a response says is not modelled, so that a std::queue of them is   *)
(* a number.  ResponseQueue::shutdown has no caller, so that its pop()     *)
(* never returns false.                                                    *)
(***************************************************************************)
EXTENDS RequestQueue

VARIABLES
    program,         \* "server" or "stress"
    responses,       \* length of ResponseQueue::queue_
    main,            \* stress_test's main thread
    drained          \* responses it has popped: i in its loop

mainVars == <<program, responses, main, drained>>
pVars == <<rqVars, mainVars>>

PInit ==
    /\ RQInit
    /\ program \in {"server", "stress"}
    /\ responses = 0
    /\ main = IF program = "stress" THEN "joining" ELSE "event loop"
    /\ drained = 0

(* Mutant: ResponseQueue::push does not signal. *)
PushResponseQuietly ==
    /\ responses' = responses + 1
    /\ UNCHANGED <<program, main, drained>>

(* ResponseQueue::push and its pthread_cond_signal: main is the only       *)
(* thread that ever waits there.                                           *)
PushResponse ==
    /\ responses' = responses + 1
    /\ main' = IF main = "waiting" THEN "woken" ELSE main
    /\ UNCHANGED <<program, drained>>

Take(c) == Pop(c) /\ UNCHANGED mainVars

(* db_.transaction and getBalance have returned; the response is pushed    *)
(* whatever came of them.                                                  *)
Respond(c) == Finish(c) /\ PushResponse

(* The producers have been joined. *)
ProducersJoined ==
    /\ main = "joining" /\ sent = Items
    /\ main' = "draining"
    /\ UNCHANGED <<rqVars, program, responses, drained>>

(* Mutant: ResponseQueue::pop tests its condition with `if`. *)
DrainWithoutRetest ==
    /\ \/ /\ main = "draining" /\ responses = 0
          /\ main' = "waiting"
          /\ UNCHANGED <<responses, drained>>
       \/ /\ \/ main = "woken"
             \/ main = "draining" /\ responses > 0
          /\ responses' = IF responses > 0 THEN responses - 1 ELSE 0
          /\ drained' = drained + 1
          /\ main' = IF drained' = Cardinality(Items) THEN "done"
                                                      ELSE "draining"
    /\ UNCHANGED <<rqVars, program>>

(* One turn of main's loop: ResponseQueue::pop from taking the mutex to    *)
(* giving it up.  After the last response main compares the balances and   *)
(* returns.                                                                *)
Drain ==
    /\ main \in {"draining", "woken"}
    /\ \/ /\ responses = 0
          /\ main' = "waiting"
          /\ UNCHANGED <<responses, drained>>
       \/ /\ responses > 0
          /\ responses' = responses - 1
          /\ drained' = drained + 1
          /\ main' = IF drained' = Cardinality(Items) THEN "done"
                                                      ELSE "draining"
    /\ UNCHANGED <<rqVars, program>>

MainWakesUnsignalled ==
    /\ main = "waiting"
    /\ main' = "woken"
    /\ UNCHANGED <<rqVars, program, responses, drained>>

(* ~WorkerPool: at the end of stress_test's main, and whenever the event   *)
(* loop of bank_server ends.  The controllers may call push() even then.   *)
DestroyPool ==
    /\ main \in {"done", "event loop"}
    /\ Shutdown
    /\ UNCHANGED mainVars

Submit(x) == Push(x) /\ UNCHANGED mainVars

PNext ==
    \/ \E x \in Items : Submit(x)
    \/ \E c \in Consumers :
         \/ Take(c) \/ Respond(c)
         \/ SpuriousWakeup(c) /\ UNCHANGED mainVars
    \/ ProducersJoined
    \/ Drain
    \/ MainWakesUnsignalled
    \/ DestroyPool
    \/ NotifyAll /\ UNCHANGED mainVars

PSpec == PInit /\ [][PNext]_pVars

(* Worker threads run, and so do stress_test's producers and its main      *)
(* thread.  Whether clients of the server send anything, a thread wakes by *)
(* itself or the event loop ends is left open.                             *)
PFairness ==
    /\ \A c \in Consumers : WF_pVars(Take(c) \/ Respond(c))
    /\ WF_pVars(program = "stress" /\ \E x \in Items : Submit(x))
    /\ WF_pVars(ProducersJoined \/ Drain)
    /\ WF_pVars(program = "stress" /\ DestroyPool)

FairPSpec == PSpec /\ PFairness

-----------------------------------------------------------------------------
PTypeOK ==
    /\ RQTypeOK
    /\ program \in {"server", "stress"}
    /\ main \in IF program = "server" THEN {"event loop"}
                ELSE {"joining", "draining", "waiting", "woken", "done"}
    /\ responses \in 0..Cardinality(Items)
    /\ drained \in 0..Cardinality(Items)

(* When stress_test has taken its last response, every request has been    *)
(* processed: none is queued or in a worker's hands, so that the balances  *)
(* it sums up next are final.                                              *)
DrainedMeansProcessed ==
    main = "done" =>
        /\ Range(delivered) = Items
        /\ isEmpty(queue_)
        /\ \A c \in Consumers : wpc[c] # "busy"

(* stress_test ends, its workers included, unless a full ring dropped one  *)
(* of its requests.                                                        *)
StressTestEnds ==
    program = "stress" ~>
        Dropped # {} \/ (\A c \in Consumers : wpc[c] = "exited")
=============================================================================
