----------------------------- MODULE BankServer -----------------------------
(***************************************************************************)
(* The transaction workers together with what they share in memory: the    *)
(* Account objects that mirror Account_Table, one mutex in each, and the   *)
(* login worker that replaces a User and its Accounts by fresh ones.       *)
(*                                                                         *)
(* DbTransaction gives the database half.  Its apply step is taken apart   *)
(* here into the steps of Bank::applyMemoryUpdate and its respond step     *)
(* into those of Bank::getBalance; both run after the commit, outside any  *)
(* database lock, so that updates reach memory in any order.               *)
(*                                                                         *)
(* An Account object is named <<account id, generation>>: store_users()    *)
(* builds the next generation of a user's accounts and leaves the one      *)
(* before it to whoever still holds a shared_ptr to it.                    *)
(***************************************************************************)
EXTENDS DbTransaction, FiniteSets

CONSTANTS
    Users,
    Owner,            \* [Accounts -> Users]
    NoObject,         \* an empty shared_ptr<Account>
    NotLoaded,        \* no such account when the user's rows were read
    MaxLogins         \* bound: login and refresh requests

ASSUME OwnerAssumption == Owner \in [Accounts -> Users]

ASSUME FiniteWorkers == IsFiniteSet(Workers)

ASSUME LoginsAssumption == MaxLogins \in Nat

Generations == 0..(MaxLogins + 1)

Objects == Accounts \X Generations

ASSUME ObjectAssumption == NoObject \notin Objects

ASSUME NotLoadedAssumption == NotLoaded \notin Int

VARIABLES
    gen,             \* generation of the User object in bank_db, 0 for none
    mem,             \* available_balance of every Account object
    mutex,           \* holder of every Account's mutex_
    mpc,             \* where a worker is in applyMemoryUpdate or getBalance
    acc, to,         \* the Account objects a worker has found
    login,           \* the login that holds connectionMutex_
    logins           \* number of logins begun

memory  == <<gen, mem, mutex>>
finds   == <<mpc, acc, to>>
session == <<login, logins>>
bankVars == <<vars, memory, finds, session>>

-----------------------------------------------------------------------------
(* accountIdToUserId_, filled once by the constructor of Bank. *)
Index == DOMAIN InitialBalance

(* Bank::findAccount. *)
Find(a) ==
    LET o == <<a, gen[Owner[a]]>>
    IN  IF a \in Index /\ mem[o] # NotLoaded THEN o ELSE NoObject

(* Mutant: the payer is always locked first. *)
PayerAlwaysFirst(w) == TRUE

(* Lock ordering by account id. *)
PayerFirst(w) == req[w].account_id < req[w].to_account

First(w) == IF PayerFirst(w) THEN acc[w] ELSE to[w]

Second(w) == IF PayerFirst(w) THEN to[w] ELSE acc[w]

(* Account's methods refuse such an amount with an exception. *)
Refused(w) == req[w].amount <= 0

(* Mutant: the balance is not compared with the amount. *)
AfterAnyWithdraw(balanceCents, amount) == balanceCents - amount

(* The effect of withdrawUnlocked, which returns false and changes nothing *)
(* when the object's balance is too small.                                 *)
AfterWithdraw(balanceCents, amount) ==
    IF amount > balanceCents THEN balanceCents ELSE balanceCents - amount

InitMemory ==
    /\ gen = [u \in Users |-> IF \E a \in Index : Owner[a] = u THEN 1 ELSE 0]
    /\ mem = [o \in Objects |-> IF o[1] \in Index /\ o[2] = 1
                                THEN InitialBalance[o[1]] ELSE NotLoaded]
    /\ mutex = [o \in Objects |-> NoWorker]
    /\ mpc = [w \in Workers |-> "start"]
    /\ acc = [w \in Workers |-> NoObject]
    /\ to = [w \in Workers |-> NoObject]
    /\ login = [pc |-> "idle"]
    /\ logins = 0

-----------------------------------------------------------------------------
(* applyMemoryUpdate, after the commit. *)

(* findAccount(t.account_id); nothing is applied when it finds none. *)
FindAccount(w) ==
    /\ pc[w] = "apply" /\ mpc[w] = "start"
    /\ LET o == Find(req[w].account_id)
       IN  \/ /\ o = NoObject
              /\ Mirror(w, FALSE)
              /\ UNCHANGED finds
           \/ /\ o # NoObject
              /\ acc' = [acc EXCEPT ![w] = o]
              /\ mpc' = [mpc EXCEPT ![w] = IF req[w].type = "TRANSFER"
                                           THEN "findTo" ELSE "lock"]
              /\ UNCHANGED <<vars, to>>
    /\ UNCHANGED <<memory, session>>

(* Mutant: payer and recipient are swapped. *)
FindSwapped(w) ==
    /\ pc[w] = "apply" /\ mpc[w] = "findTo"
    /\ to' = [to EXCEPT ![w] = Find(req[w].account_id)]
    /\ acc' = [acc EXCEPT ![w] = Find(req[w].to_account)]
    /\ mpc' = [mpc EXCEPT ![w] = "first"]
    /\ UNCHANGED <<vars, memory, session>>

(* findAccount(t.to_account.value()) of a transfer. *)
FindRecipient(w) ==
    /\ pc[w] = "apply" /\ mpc[w] = "findTo"
    /\ LET o == Find(req[w].to_account)
       IN  \/ /\ o = NoObject
              /\ Mirror(w, FALSE)
              /\ mpc' = [mpc EXCEPT ![w] = "start"]
              /\ UNCHANGED <<acc, to>>
           \/ /\ o # NoObject
              /\ to' = [to EXCEPT ![w] = o]
              /\ mpc' = [mpc EXCEPT ![w] = "first"]
              /\ UNCHANGED <<vars, acc>>
    /\ UNCHANGED <<memory, session>>

(* The critical section of a deposit or a withdrawal.  MutexGuard unlocks  *)
(* on the way out, by return or by exception.                              *)
ApplyOne(w) ==
    /\ mpc[w] = "lock"
    /\ mutex[acc[w]] = NoWorker
    /\ IF Refused(w) THEN UNCHANGED mem
       ELSE mem' = [mem EXCEPT ![acc[w]] =
                      IF req[w].type = "DEPOSIT" THEN @ + req[w].amount
                      ELSE AfterWithdraw(@, req[w].amount)]
    /\ Mirror(w, Refused(w))
    /\ mpc' = [mpc EXCEPT ![w] = "start"]
    /\ UNCHANGED <<gen, mutex, acc, to, session>>

(* pthread_mutex_lock; a thread that asks again for its own mutex waits.   *)
Acquire(w, o) ==
    /\ mutex[o] = NoWorker
    /\ mutex' = [mutex EXCEPT ![o] = w]

LockFirst(w) ==
    /\ mpc[w] = "first"
    /\ Acquire(w, First(w))
    /\ mpc' = [mpc EXCEPT ![w] = "second"]
    /\ UNCHANGED <<vars, gen, mem, acc, to, session>>

LockSecond(w) ==
    /\ mpc[w] = "second"
    /\ Acquire(w, Second(w))
    /\ mpc' = [mpc EXCEPT ![w] = "both"]
    /\ UNCHANGED <<vars, gen, mem, acc, to, session>>

(* Mutant: the recipient's mutex is not unlocked. *)
ApplyTransferLeakingLock(w) ==
    /\ mpc[w] = "both"
    /\ mem' = [mem EXCEPT ![acc[w]] = AfterWithdraw(@, req[w].amount),
                          ![to[w]] = @ + req[w].amount]
    /\ mutex' = [mutex EXCEPT ![acc[w]] = NoWorker]
    /\ Mirror(w, FALSE)
    /\ mpc' = [mpc EXCEPT ![w] = "start"]
    /\ UNCHANGED <<gen, acc, to, session>>

(* Mutant: the recipient is paid only if the payer's object had the money. *)
ApplyTransferIfCovered(w) ==
    /\ mpc[w] = "both"
    /\ mem' = IF req[w].amount > mem[acc[w]] THEN mem
              ELSE [mem EXCEPT ![acc[w]] = @ - req[w].amount,
                               ![to[w]] = @ + req[w].amount]
    /\ mutex' = [mutex EXCEPT ![acc[w]] = NoWorker, ![to[w]] = NoWorker]
    /\ Mirror(w, FALSE)
    /\ mpc' = [mpc EXCEPT ![w] = "start"]
    /\ UNCHANGED <<gen, acc, to, session>>

(* Both mutexes are held: move the money and unlock.  The exception for a  *)
(* refused amount leaves the two mutexes locked, there is no guard here.   *)
ApplyTransfer(w) ==
    /\ mpc[w] = "both"
    /\ IF Refused(w) THEN UNCHANGED <<mem, mutex>>
       ELSE /\ LET paid == [mem EXCEPT ![acc[w]] = AfterWithdraw(@, req[w].amount)]
               IN  mem' = [paid EXCEPT ![to[w]] = @ + req[w].amount]
            /\ mutex' = [mutex EXCEPT ![acc[w]] = NoWorker,
                                      ![to[w]] = NoWorker]
    /\ Mirror(w, Refused(w))
    /\ mpc' = [mpc EXCEPT ![w] = "start"]
    /\ UNCHANGED <<gen, acc, to, session>>

-----------------------------------------------------------------------------
(* getBalance(req.account_id) for the TransactionResponse. *)

FindForBalance(w) ==
    /\ pc[w] = "respond" /\ mpc[w] = "start"
    /\ LET o == Find(req[w].account_id)
       IN  \/ /\ o = NoObject
              /\ Respond(w)
              /\ UNCHANGED finds
           \/ /\ o # NoObject
              /\ acc' = [acc EXCEPT ![w] = o]
              /\ mpc' = [mpc EXCEPT ![w] = "balance"]
              /\ UNCHANGED <<vars, to>>
    /\ UNCHANGED <<memory, session>>

(* get_actual_balance() takes the object's mutex. *)
ReadBalance(w) ==
    /\ mpc[w] = "balance"
    /\ mutex[acc[w]] = NoWorker
    /\ Respond(w)
    /\ mpc' = [mpc EXCEPT ![w] = "start"]
    /\ UNCHANGED <<memory, acc, to, session>>

-----------------------------------------------------------------------------
(* Load_DB::login.  It holds connectionMutex_ from beginning to end, so    *)
(* that one login runs at a time however many login workers there are.     *)

Accts(u) == {a \in Accounts : Owner[a] = u}

Loaded(u) == gen[u] > 0

(* Is there a row of User_Table?  create_account() commits it together     *)
(* with the user's first account.                                          *)
Exists(u) == Loaded(u) \/ Accts(u) \intersect rows # {}

(* A refresh only checks that the user exists, a login verifies the        *)
(* password; both read the tables again unless the user is cached and did  *)
(* not ask for it.                                                         *)
LoginStart(u) ==
    /\ login.pc = "idle"
    /\ logins < MaxLogins
    /\ logins' = logins + 1
    /\ \E is_refresh, verified \in BOOLEAN :
         login' = IF ~Exists(u) \/ ~(is_refresh \/ verified)
                  THEN [pc |-> "idle"]
                  ELSE [user |-> u,
                        pc |-> IF ~Loaded(u) \/ is_refresh THEN "read"
                                                           ELSE "reply"]
    /\ UNCHANGED <<vars, memory, finds>>

(* The SELECT sees the committed rows. *)
LoginRead ==
    /\ login.pc = "read"
    /\ login' = [pc |-> "store", user |-> login.user,
                 res |-> [a \in Accts(login.user) |->
                            IF a \in rows THEN balance[a] ELSE NotLoaded]]
    /\ UNCHANGED <<vars, memory, finds, logins>>

(* The SELECT throws: the catch block answers ERROR. *)
LoginError ==
    /\ login.pc = "read"
    /\ login' = [pc |-> "idle"]
    /\ UNCHANGED <<vars, memory, finds, logins>>

(* store_users() puts a new User with new Accounts into bank_db. *)
LoginStore ==
    /\ login.pc = "store"
    /\ LET u == login.user
       IN  /\ gen' = [gen EXCEPT ![u] = @ + 1]
           /\ mem' = [o \in Objects |->
                        IF o[1] \in Accts(u) /\ o[2] = gen[u] + 1
                        THEN login.res[o[1]] ELSE mem[o]]
           /\ login' = [pc |-> "reply", user |-> u]
    /\ UNCHANGED <<vars, mutex, finds, logins>>

(* The answer carries the balance of the first account getAll() returns,   *)
(* in the order of its 16 buckets, read under that account's mutex.        *)
LoginReply ==
    /\ login.pc = "reply"
    /\ LET loaded == {a \in Accts(login.user) :
                        mem[<<a, gen[login.user]>>] # NotLoaded}
       IN  \/ loaded = {}
           \/ \E a \in loaded :
                /\ \A b \in loaded : a % 16 <= b % 16
                /\ mutex[<<a, gen[login.user]>>] = NoWorker
    /\ login' = [pc |-> "idle"]
    /\ UNCHANGED <<vars, memory, finds, logins>>

-----------------------------------------------------------------------------
(* The database half of a worker's step leaves memory alone. *)
DbStep(w) ==
    /\ ExecWithdraw(w) \/ ExecDeposit(w) \/ Reject(w) \/ Commit(w)
    /\ UNCHANGED <<memory, finds, session>>

MemoryStep(w) ==
    \/ FindAccount(w)
    \/ FindRecipient(w)
    \/ ApplyOne(w)
    \/ LockFirst(w)
    \/ LockSecond(w)
    \/ ApplyTransfer(w)
    \/ FindForBalance(w)
    \/ ReadBalance(w)

Environment ==
    /\ \/ \E w \in Workers : \/ Begin(w)
                             \/ CommitInDoubt(w)
                             \/ LoseConnection(w)
                             \/ LoseIdleConnection(w)
       \/ \E a \in Accounts : InsertAccount(a)
       \/ login.pc = "idle" /\ Exhausted
    /\ UNCHANGED <<memory, finds, session>>

LoginStep == LoginRead \/ LoginError \/ LoginStore \/ LoginReply

BankNext ==
    \/ Environment
    \/ \E w \in Workers : DbStep(w) \/ MemoryStep(w)
    \/ \E u \in Users : LoginStart(u)
    \/ LoginStep

BankInit == Init /\ InitMemory

BankSpec == BankInit /\ [][BankNext]_bankVars

(* Worker and login threads that can run do run. *)
BankFairness ==
    /\ \A w \in Workers : WF_bankVars(DbStep(w) \/ MemoryStep(w))
    /\ WF_bankVars(LoginStep)

FairBankSpec == BankSpec /\ BankFairness
-----------------------------------------------------------------------------
(* Of the Accounts loaded when the server starts none is overdrawn by what *)
(* applyMemoryUpdate does to it; a later login may load a negative balance *)
(* from the table.                                                         *)
BankTypeOK ==
    /\ TypeOK
    /\ gen \in [Users -> Generations]
    /\ mem \in [Objects -> Int \union {NotLoaded}]
    /\ \A a \in Index : mem[<<a, 1>>] \in Nat
    /\ mutex \in [Objects -> Workers \union {NoWorker}]
    /\ mpc \in [Workers -> {"start", "findTo", "lock", "first", "second",
                            "both", "balance"}]
    /\ acc \in [Workers -> Objects \union {NoObject}]
    /\ to \in [Workers -> Objects \union {NoObject}]
    /\ login.pc \in {"idle", "read", "store", "reply"}
    /\ logins \in 0..MaxLogins

(* Worker w is blocked on the mutex of object o. *)
BlockedOn(w, o) ==
    /\ \/ mpc[w] \in {"lock", "balance"} /\ o = acc[w]
       \/ mpc[w] = "first" /\ o = First(w)
       \/ mpc[w] = "second" /\ o = Second(w)
    /\ mutex[o] # NoWorker

(* No set of workers waits for mutexes its own members hold: locking the   *)
(* two Accounts of a transfer in the order of their ids is enough, also    *)
(* when a refresh puts new Account objects under the workers' feet.  It    *)
(* holds of transfers of a positive amount between different accounts; one *)
(* of either other kind stops its worker for good.                         *)
NoMutexDeadlock ==
    \A S \in (SUBSET Workers) \ {{}} :
        \E w \in S : \A o \in Objects : BlockedOn(w, o) => mutex[o] \notin S

(* A transfer of nothing, or of less, is recorded for account a. *)
RefusedTransfer(a) ==
    \E i \in DOMAIN ledger :
        /\ ledger[i].account_id = a
        /\ ledger[i].type = "TRANSFER"
        /\ ledger[i].amount <= 0

(* Every locked mutex is accounted for: its holder stands between the two  *)
(* pthread_mutex_lock calls of a transfer, or past them with the transfer  *)
(* still to be made.  A worker goes back to the queue with a lock only     *)
(* after a transfer of a non-positive amount, whose exception jumps over   *)
(* the unlocks, and only with the locks of the two accounts it names.      *)
LocksAccountedFor ==
    \A o \in Objects, w \in Workers :
        mutex[o] = w => \/ mpc[w] = "second" /\ o = First(w)
                        \/ mpc[w] = "both" /\ o \in {acc[w], to[w]}
                        \/ RefusedTransfer(o[1])

(* What is committed for account a and has not reached memory yet. *)
OnItsWay(w, a) == IF pc[w] = "apply" THEN Effect(req[w], a) ELSE 0

Pending(a) == SumFunction([w \in Workers |-> OnItsWay(w, a)])

Mirrored(a) == mem[<<a, gen[Owner[a]]>>] + Pending(a)

(* Account a can pay for all the requests together. *)
NeverShort(a) == \A r \in Requests : InitialBalance[a] >= MaxRequests * r.amount

(* The mirror of an account that is never short is the committed balance   *)
(* minus the updates still on their way: none is lost, applied twice or    *)
(* applied to the wrong account, in whatever order the workers get to      *)
(* applyMemoryUpdate and whatever it makes of the account on the other     *)
(* side of a transfer.  Amounts are not negative here and below: Account   *)
(* refuses the others, which the tables do not.                            *)
MirrorInStep ==
    \A a \in Index : NeverShort(a) => Mirrored(a) = balance[a]

(* Of an account that may be short, withdrawUnlocked refuses withdrawals   *)
(* the database accepted: memory can show too much, but never too little.  *)
MirrorNeverUnderstates == \A a \in Index : Mirrored(a) >= balance[a]

AtRest == login.pc = "idle" /\ \A w \in Workers : pc[w] = "idle"

(* README: "in-memory state is a synchronized mirror" of PostgreSQL; the   *)
(* stress test compares the two when the workers have stopped.             *)
MirrorAtRest ==
    AtRest => \A a \in Index : mem[<<a, gen[Owner[a]]>>] = balance[a]

(* Every login and refresh is answered. *)
EveryLoginAnswered == login.pc # "idle" ~> login.pc = "idle"
=============================================================================
