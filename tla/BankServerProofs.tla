-------------------------- MODULE BankServerProofs --------------------------
(***************************************************************************)
(* Proofs about BankServer, for any number of workers, accounts, requests  *)
(* and logins.                                                             *)
(***************************************************************************)
EXTENDS BankServer, DbTransactionProofs, FiniteSetTheorems

-----------------------------------------------------------------------------
(* The database half of every step of the server is a step of             *)
(* DbTransaction or leaves its variables alone.                            *)
LEMMA StepRefinesDb == [BankNext]_bankVars => [Next]_vars
<1> SUFFICES ASSUME [BankNext]_bankVars
             PROVE  Next \/ UNCHANGED vars
  OBVIOUS
<1>1. ASSUME NEW w \in Workers, DbStep(w)
      PROVE  Next
  BY <1>1 DEF DbStep, Next, Step
<1>2. ASSUME NEW w \in Workers, NEW throws \in BOOLEAN, Mirror(w, throws)
      PROVE  Next
  BY <1>2 DEF Next, Step
<1>3. ASSUME NEW w \in Workers, Respond(w)
      PROVE  Next
  BY <1>3 DEF Next, Step
<1>4. ASSUME NEW w \in Workers, MemoryStep(w)
      PROVE  Next \/ UNCHANGED vars
  <2>1. CASE FindAccount(w) \/ FindRecipient(w)
    BY <1>2, <2>1 DEF FindAccount, FindRecipient
  <2>2. CASE ApplyOne(w) \/ ApplyTransfer(w)
    <3>1. Mirror(w, Refused(w)) /\ Refused(w) \in BOOLEAN
      BY <2>2 DEF ApplyOne, ApplyTransfer, Refused
    <3> QED
      BY <1>2, <3>1
  <2>3. CASE LockFirst(w) \/ LockSecond(w)
    BY <2>3 DEF LockFirst, LockSecond
  <2>4. CASE FindForBalance(w) \/ ReadBalance(w)
    BY <1>3, <2>4 DEF FindForBalance, ReadBalance
  <2> QED
    BY <1>4, <2>1, <2>2, <2>3, <2>4 DEF MemoryStep
<1>5. CASE Environment
  BY <1>5 DEF Environment, Next
<1>6. CASE (\E u \in Users : LoginStart(u)) \/ LoginStep
  BY <1>6 DEF LoginStart, LoginStep, LoginRead, LoginError, LoginStore, LoginReply
<1>7. CASE UNCHANGED bankVars
  BY <1>7 DEF bankVars
<1> QED
  BY <1>1, <1>4, <1>5, <1>6, <1>7 DEF BankNext

(* BankServer only adds to DbTransaction: what is proved of                *)
(* Load_DB::transaction on its own holds of it in the running server.      *)
THEOREM ServerRefinesTransactions == BankSpec => Spec
BY StepRefinesDb, PTL DEF BankSpec, BankInit, Spec

(* In the running server too nobody overdraws an account by paying from it *)
(* and no update is lost; the answers are true, the blocks wait in         *)
(* ascending order and post whole requests one at a time.                  *)
THEOREM TablesOfTheServer ==
    BankSpec => /\ [](DbInv /\ WaitChainAscends /\ AnswerIsTrue)
                /\ RefinesAtomicBank
BY ServerRefinesTransactions, AlwaysDbInv, NoRowDeadlock, AnswersAreTrue,
   BlocksAreAtomic, PTL

-----------------------------------------------------------------------------
Balances == Int \union {NotLoaded}

MemoryPlaces == {"start", "findTo", "lock", "first", "second", "both", "balance"}

MemTypeOK ==
    /\ gen \in [Users -> Generations]
    /\ mem \in [Objects -> Balances]
    /\ mutex \in [Objects -> Workers \union {NoWorker}]
    /\ mpc \in [Workers -> MemoryPlaces]
    /\ acc \in [Workers -> Objects \union {NoObject}]
    /\ to \in [Workers -> Objects \union {NoObject}]

(* Every login that is stored has been counted, so that generations do not *)
(* run out; what it has read are balances of the user's accounts.          *)
LoginOK ==
    /\ login.pc \in {"idle", "read", "store", "reply"}
    /\ logins \in 0..MaxLogins
    /\ login.pc # "idle" => login.user \in Users
    /\ \A u \in Users : gen[u] <= logins + 1
    /\ login.pc \in {"read", "store"} => \A u \in Users : gen[u] <= logins
    /\ login.pc = "store" => login.res \in [Accts(login.user) -> Balances]

(* An object of account a that was in bank_db once: a later login replaces *)
(* it there but leaves its balance alone.                                  *)
Live(o, a) ==
    /\ o \in Objects /\ a \in Accounts /\ o[1] = a
    /\ mem[o] \in Int
    /\ o[2] <= gen[Owner[a]]

(* Where a worker is, in the database half and in memory, and which        *)
(* objects it has found for its request.                                   *)
WorkerOK(w) ==
    /\ pc[w] # "idle" => req[w] \in Requests
    /\ mpc[w] \in {"findTo", "lock", "first", "second", "both"} => pc[w] = "apply"
    /\ mpc[w] = "balance" => pc[w] = "respond"
    /\ mpc[w] # "start" => Live(acc[w], req[w].account_id)
    /\ mpc[w] \in {"findTo", "first", "second", "both"} => req[w].type = "TRANSFER"
    /\ mpc[w] \in {"first", "second", "both"} => Live(to[w], req[w].to_account)

(* The objects the constructor of Bank loads stay solvent. *)
Solvent == \A a \in Index : gen[Owner[a]] >= 1 /\ mem[<<a, 1>>] \in Nat

BankInv == MemTypeOK /\ LoginOK /\ Solvent /\ \A w \in Workers : WorkerOK(w)

LEMMA FirstObject ==
    ASSUME NEW a \in Index
    PROVE  a \in Accounts /\ Owner[a] \in Users /\ <<a, 1>> \in Objects
BY BalanceAssumption, OwnerAssumption, LoginsAssumption
   DEF Index, Objects, Generations

LEMMA InitBankInv == BankInit => BankInv
<1> SUFFICES ASSUME BankInit
             PROVE  BankInv
  OBVIOUS
<1> USE DEF BankInit, InitMemory
<1>1. 0 \in Generations /\ 1 \in Generations
  BY LoginsAssumption DEF Generations
<1>2. gen \in [Users -> Generations] /\ \A u \in Users : gen[u] <= 1
  BY <1>1
<1>3. mem \in [Objects -> Balances]
  BY BalanceAssumption DEF Index, Balances
<1>4. MemTypeOK
  BY <1>2, <1>3 DEF MemTypeOK, MemoryPlaces
<1>5. LoginOK
  BY <1>2, LoginsAssumption DEF LoginOK
<1>6. \A w \in Workers : WorkerOK(w)
  BY DEF WorkerOK, Init
<1>7. ASSUME NEW a \in Index
      PROVE  gen[Owner[a]] >= 1 /\ mem[<<a, 1>>] \in Nat
  <2>1. Owner[a] \in Users /\ <<a, 1>> \in Objects
    BY FirstObject
  <2>2. gen[Owner[a]] = 1 /\ mem[<<a, 1>>] = InitialBalance[a]
    BY <2>1
  <2> QED
    BY <2>2, BalanceAssumption DEF Index
<1> QED
  BY <1>4, <1>5, <1>6, <1>7 DEF BankInv, Solvent

(* Bank::findAccount returns an object that is there. *)
LEMMA FoundIsLive ==
    ASSUME BankInv, NEW a, Find(a) # NoObject
    PROVE  Live(Find(a), a)
<1> DEFINE o == <<a, gen[Owner[a]]>>
<1>1. a \in Index /\ mem[o] # NotLoaded /\ Find(a) = o
  BY DEF Find
<1>2. a \in Accounts
  BY <1>1, BalanceAssumption DEF Index
<1>3. gen[Owner[a]] \in Generations
  BY <1>2, OwnerAssumption DEF BankInv, MemTypeOK
<1>4. o \in Objects /\ o[1] = a /\ o[2] = gen[Owner[a]]
  BY <1>2, <1>3 DEF Objects
<1>5. mem[o] \in Int
  BY <1>1, <1>4 DEF BankInv, MemTypeOK, Balances
<1>6. o[2] <= gen[Owner[a]]
  BY <1>3, <1>4, LoginsAssumption DEF Generations
<1> QED
  BY <1>1, <1>2, <1>4, <1>5, <1>6 DEF Live

(* A worker's request does not change between the commit and the answer,   *)
(* whatever the database half of the others does.                          *)
LEMMA DbStepOfWorkers ==
    ASSUME TypeOK, NEW v \in Workers,
           \/ ExecWithdraw(v) \/ ExecDeposit(v) \/ Reject(v) \/ Commit(v)
           \/ Begin(v) \/ CommitInDoubt(v) \/ LoseConnection(v)
           \/ LoseIdleConnection(v),
           NEW w \in Workers, WorkerOK(w)
    PROVE  /\ pc'[w] # "idle" => req'[w] \in Requests
           /\ pc[w] \in {"apply", "respond"} => pc'[w] = pc[w] /\ req'[w] = req[w]
<1> USE DEF TypeOK
<1>1. CASE ExecWithdraw(v)
  <2>1. /\ pc[v] = "withdraw" /\ req' = req
        /\ pc' = [pc EXCEPT ![v] = IF req[v].type = "TRANSFER" /\ WithdrawsFirst(req[v])
                                   THEN "deposit" ELSE "decide"]
    BY <1>1 DEF ExecWithdraw
  <2> QED
    BY <2>1 DEF WorkerOK
<1>2. CASE ExecDeposit(v)
  <2>1. /\ pc[v] = "deposit" /\ req' = req
        /\ pc' = [pc EXCEPT ![v] = IF req[v].type = "TRANSFER" /\ ~WithdrawsFirst(req[v])
                                   THEN "withdraw" ELSE "decide"]
    BY <1>2 DEF ExecDeposit
  <2> QED
    BY <2>1 DEF WorkerOK
<1>3. CASE Reject(v) \/ Commit(v) \/ CommitInDoubt(v) \/ LoseConnection(v)
  <2>1. /\ pc[v] \in {"withdraw", "deposit", "decide"} /\ req' = req
        /\ \/ pc' = [pc EXCEPT ![v] = "respond"]
           \/ pc' = [pc EXCEPT ![v] = "apply"]
    BY <1>3 DEF Reject, Commit, CommitInDoubt, LoseConnection, Install, locals
  <2> QED
    BY <2>1 DEF WorkerOK
<1>4. CASE Begin(v)
  <2>1. PICK r \in Requests, p \in {"respond", "withdraw", "deposit"} :
            /\ req' = [req EXCEPT ![v] = r]
            /\ pc' = [pc EXCEPT ![v] = p]
    BY <1>4 DEF Begin
  <2>2. pc[v] = "idle"
    BY <1>4 DEF Begin
  <2> QED
    BY <2>1, <2>2 DEF WorkerOK
<1>5. CASE LoseIdleConnection(v)
  BY <1>5 DEF LoseIdleConnection, locals, WorkerOK
<1> QED
  BY <1>1, <1>2, <1>3, <1>4, <1>5

(* The database half alone. *)
LEMMA DbStepKeepsBankInv ==
    ASSUME DbInv, BankInv, UNCHANGED <<memory, finds, session>>,
           \/ \E w \in Workers : DbStep(w)
           \/ Environment
    PROVE  BankInv'
<1>1. UNCHANGED <<gen, mem, mutex, mpc, acc, to, login, logins>>
  BY DEF memory, finds, session
<1>2. MemTypeOK' /\ LoginOK' /\ Solvent'
  BY <1>1 DEF BankInv, MemTypeOK, LoginOK, Solvent
<1>3. ASSUME NEW w \in Workers
      PROVE  WorkerOK(w)'
  <2>1. WorkerOK(w)
    BY DEF BankInv
  <2>2. /\ pc'[w] # "idle" => req'[w] \in Requests
        /\ pc[w] \in {"apply", "respond"} => pc'[w] = pc[w] /\ req'[w] = req[w]
    <3>1. CASE \E v \in Workers :
                 \/ ExecWithdraw(v) \/ ExecDeposit(v) \/ Reject(v) \/ Commit(v)
                 \/ Begin(v) \/ CommitInDoubt(v) \/ LoseConnection(v)
                 \/ LoseIdleConnection(v)
      BY <2>1, <3>1, DbStepOfWorkers DEF DbInv
    <3>2. CASE (\E a \in Accounts : InsertAccount(a)) \/ Exhausted
      BY <2>1, <3>2 DEF InsertAccount, Exhausted, vars, locals, WorkerOK
    <3> QED
      BY <3>1, <3>2 DEF DbStep, Environment
  <2>3. \A o, a : Live(o, a) <=> Live(o, a)'
    BY <1>1 DEF Live
  <2> QED
    BY <1>1, <2>1, <2>2, <2>3 DEF WorkerOK, MemTypeOK, BankInv, MemoryPlaces
<1> QED
  BY <1>2, <1>3 DEF BankInv

(* What a worker's step in memory leaves alone: the other workers, the     *)
(* logins, and whether an object has a balance.                            *)
OwnStep(w) ==
    /\ UNCHANGED <<gen, login, logins, req>>
    /\ \A v \in Workers \ {w} : /\ pc'[v] = pc[v] /\ mpc'[v] = mpc[v]
                                /\ acc'[v] = acc[v] /\ to'[v] = to[v]
    /\ \A o \in Objects : /\ mem[o] \in Int => mem'[o] \in Int
                          /\ mem[o] \in Nat => mem'[o] \in Nat

LEMMA OwnStepKeepsBankInv ==
    ASSUME BankInv, NEW w \in Workers, OwnStep(w), MemTypeOK', WorkerOK(w)'
    PROVE  BankInv'
<1>1. LoginOK'
  BY DEF OwnStep, BankInv, LoginOK
<1>4. Solvent'
  BY FirstObject DEF OwnStep, BankInv, Solvent
<1>2. \A o, a : Live(o, a) => Live(o, a)'
  BY DEF OwnStep, Live
<1>3. ASSUME NEW v \in Workers \ {w}
      PROVE  WorkerOK(v)'
  <2>1. WorkerOK(v)
    BY DEF BankInv
  <2> QED
    BY <1>2, <2>1 DEF OwnStep, WorkerOK
<1> QED
  BY <1>1, <1>3, <1>4 DEF BankInv

(* The answer to a request ends the worker's business in memory. *)
LEMMA ReturnKeepsBankInv ==
    ASSUME TypeOK, BankInv, NEW w \in Workers,
           Respond(w) \/ \E throws \in BOOLEAN : Mirror(w, throws),
           mpc' = [mpc EXCEPT ![w] = "start"],
           UNCHANGED <<gen, acc, to, login, logins>>,
           mutex' \in [Objects -> Workers \union {NoWorker}],
           mem' \in [Objects -> Balances],
           \A o \in Objects : /\ mem[o] \in Int => mem'[o] \in Int
                              /\ mem[o] \in Nat => mem'[o] \in Nat
    PROVE  BankInv'
<1>1. /\ req' = req /\ pc[w] \in {"apply", "respond"}
      /\ \/ pc' = [pc EXCEPT ![w] = "idle"]
         \/ pc' = [pc EXCEPT ![w] = "respond"]
  BY DEF Respond, Mirror, locals
<1>2. MemTypeOK /\ WorkerOK(w)
  BY DEF BankInv
<1>3. mpc' \in [Workers -> MemoryPlaces] /\ mpc'[w] = "start"
      /\ \A v \in Workers \ {w} : mpc'[v] = mpc[v]
  BY <1>2 DEF MemTypeOK, MemoryPlaces
<1>4. MemTypeOK'
  BY <1>2, <1>3 DEF MemTypeOK
<1>5. OwnStep(w)
  BY <1>1, <1>3 DEF OwnStep, TypeOK
<1>6. WorkerOK(w)'
  BY <1>1, <1>2, <1>3 DEF WorkerOK, TypeOK
<1> QED
  BY <1>4, <1>5, <1>6, OwnStepKeepsBankInv


(* A worker goes on, with the objects it has and one it may just have      *)
(* found.                                                                  *)
LEMMA GoOnKeepsBankInv ==
    ASSUME BankInv, NEW w \in Workers, NEW place \in MemoryPlaces \ {"start"},
           UNCHANGED <<gen, mem, login, logins, pc, req>>,
           mpc' = [mpc EXCEPT ![w] = place],
           mutex' \in [Objects -> Workers \union {NoWorker}],
           NEW o, Live(o, req[w].account_id), acc' = [acc EXCEPT ![w] = o],
           NEW p \in Objects \union {NoObject}, to' = [to EXCEPT ![w] = p],
           place \in {"first", "second", "both"} => Live(p, req[w].to_account),
           pc[w] = IF place = "balance" THEN "respond" ELSE "apply",
           place \in {"findTo", "first", "second", "both"} => req[w].type = "TRANSFER"
    PROVE  BankInv'
<1>1. MemTypeOK /\ WorkerOK(w)
  BY DEF BankInv
<1>2. /\ mpc' \in [Workers -> MemoryPlaces] /\ mpc'[w] = place
      /\ acc' \in [Workers -> Objects \union {NoObject}] /\ acc'[w] = o
      /\ to' \in [Workers -> Objects \union {NoObject}] /\ to'[w] = p
      /\ \A v \in Workers \ {w} : mpc'[v] = mpc[v] /\ acc'[v] = acc[v] /\ to'[v] = to[v]
  BY <1>1 DEF MemTypeOK, Live
<1>3. MemTypeOK'
  BY <1>1, <1>2 DEF MemTypeOK
<1>4. OwnStep(w)
  BY <1>2 DEF OwnStep
<1>5. Live(o, req[w].account_id)' /\ (place \in {"first", "second", "both"} =>
                                        Live(p, req[w].to_account)')
  BY DEF Live
<1>6. WorkerOK(w)'
  BY <1>1, <1>2, <1>5 DEF WorkerOK, MemoryPlaces
<1> QED
  BY <1>3, <1>4, <1>6, OwnStepKeepsBankInv

(* Every step of a worker in memory. *)
LEMMA MemoryStepKeepsBankInv ==
    ASSUME TypeOK, BankInv, NEW w \in Workers, MemoryStep(w)
    PROVE  BankInv'
<1> USE DEF memory, finds, session, vars, locals
<1>0. /\ MemTypeOK /\ WorkerOK(w)
      /\ mpc \in [Workers -> MemoryPlaces]
      /\ acc \in [Workers -> Objects \union {NoObject}]
      /\ to \in [Workers -> Objects \union {NoObject}]
      /\ mutex \in [Objects -> Workers \union {NoWorker}]
      /\ mem \in [Objects -> Balances]
      /\ acc = [acc EXCEPT ![w] = acc[w]] /\ to = [to EXCEPT ![w] = to[w]]
      /\ acc[w] \in Objects \union {NoObject} /\ to[w] \in Objects \union {NoObject}
  BY DEF BankInv, MemTypeOK
<1>1. CASE FindAccount(w)
  <2> DEFINE o == Find(req[w].account_id)
  <2>0. pc[w] = "apply" /\ mpc[w] = "start" /\ UNCHANGED <<gen, mem, mutex, login, logins>>
    BY <1>1 DEF FindAccount
  <2>1. CASE Mirror(w, FALSE) /\ UNCHANGED finds
    <3>1. mpc' = [mpc EXCEPT ![w] = "start"]
      BY <1>0, <2>0, <2>1
    <3> QED
      BY <1>0, <2>0, <2>1, <3>1, ReturnKeepsBankInv
  <2>2. CASE /\ o # NoObject /\ acc' = [acc EXCEPT ![w] = o]
             /\ mpc' = [mpc EXCEPT ![w] = IF req[w].type = "TRANSFER"
                                          THEN "findTo" ELSE "lock"]
             /\ UNCHANGED <<vars, to>>
    <3>1. Live(o, req[w].account_id)
      BY <2>2, FoundIsLive
    <3> DEFINE place == IF req[w].type = "TRANSFER" THEN "findTo" ELSE "lock"
    <3>2. /\ place \in MemoryPlaces \ {"start"} /\ mpc' = [mpc EXCEPT ![w] = place]
          /\ place \notin {"first", "second", "both", "balance"}
          /\ place = "findTo" => req[w].type = "TRANSFER"
      BY <2>2 DEF MemoryPlaces
    <3> HIDE DEF place, o
    <3>3. UNCHANGED <<gen, mem, login, logins, pc, req>> /\ acc' = [acc EXCEPT ![w] = o]
          /\ to' = [to EXCEPT ![w] = to[w]]
          /\ mutex' \in [Objects -> Workers \union {NoWorker}]
      BY <1>0, <2>0, <2>2
    <3> QED
      BY <1>0, <2>0, <3>1, <3>2, <3>3, GoOnKeepsBankInv
  <2> QED
    BY <1>1, <2>1, <2>2 DEF FindAccount
<1>2. CASE FindRecipient(w)
  <2> DEFINE o == Find(req[w].to_account)
  <2>0. pc[w] = "apply" /\ mpc[w] = "findTo" /\ UNCHANGED <<gen, mem, mutex, login, logins>>
    BY <1>2 DEF FindRecipient
  <2>1. CASE /\ Mirror(w, FALSE) /\ mpc' = [mpc EXCEPT ![w] = "start"]
             /\ UNCHANGED <<acc, to>>
    BY <1>0, <2>0, <2>1, ReturnKeepsBankInv
  <2>2. CASE /\ o # NoObject /\ to' = [to EXCEPT ![w] = o]
             /\ mpc' = [mpc EXCEPT ![w] = "first"]
             /\ UNCHANGED <<vars, acc>>
    <3>1. Live(o, req[w].to_account) /\ o \in Objects
      BY <2>2, FoundIsLive DEF Live
    <3> HIDE DEF o
    <3>2. /\ Live(acc[w], req[w].account_id) /\ req[w].type = "TRANSFER"
          /\ acc' = [acc EXCEPT ![w] = acc[w]]
          /\ "first" \in MemoryPlaces \ {"start"}
          /\ UNCHANGED <<gen, mem, login, logins, pc, req>>
          /\ mutex' \in [Objects -> Workers \union {NoWorker}]
      BY <1>0, <2>0, <2>2 DEF WorkerOK, MemoryPlaces
    <3>3. pc[w] = IF "first" = "balance" THEN "respond" ELSE "apply"
      BY <2>0
    <3>4. to' = [to EXCEPT ![w] = o] /\ mpc' = [mpc EXCEPT ![w] = "first"]
      BY <2>2
    <3> QED
      BY <3>1, <3>2, <3>3, <3>4, GoOnKeepsBankInv
  <2> QED
    BY <1>2, <2>1, <2>2 DEF FindRecipient
<1>3. CASE ApplyOne(w)
  <2>0. /\ mpc[w] = "lock" /\ Mirror(w, Refused(w)) /\ Refused(w) \in BOOLEAN
        /\ mpc' = [mpc EXCEPT ![w] = "start"]
        /\ UNCHANGED <<gen, mutex, acc, to, login, logins>>
    BY <1>3 DEF ApplyOne, Refused
  <2>1. req[w] \in Request /\ Live(acc[w], req[w].account_id)
    BY <1>0, <2>0, RequestsAssumption DEF WorkerOK
  <2>2. mem[acc[w]] \in Int /\ acc[w] \in Objects /\ req[w].amount \in Int
    BY <2>1 DEF Live, Request
  <2>3. CASE UNCHANGED mem
    BY <1>0, <2>0, <2>3, ReturnKeepsBankInv
  <2>4. CASE /\ ~Refused(w)
             /\ mem' = [mem EXCEPT ![acc[w]] =
                          IF req[w].type = "DEPOSIT" THEN @ + req[w].amount
                          ELSE AfterWithdraw(@, req[w].amount)]
    <3> DEFINE b == IF req[w].type = "DEPOSIT" THEN mem[acc[w]] + req[w].amount
                    ELSE AfterWithdraw(mem[acc[w]], req[w].amount)
    <3>1. b \in Int /\ (mem[acc[w]] \in Nat => b \in Nat)
      BY <2>2, <2>4 DEF AfterWithdraw, Refused
    <3>2. mem' = [mem EXCEPT ![acc[w]] = b]
      BY <2>4
    <3> HIDE DEF b
    <3>3. /\ mem' \in [Objects -> Balances]
          /\ \A o \in Objects : /\ mem[o] \in Int => mem'[o] \in Int
                                /\ mem[o] \in Nat => mem'[o] \in Nat
      BY <1>0, <2>2, <3>1, <3>2 DEF Balances
    <3> QED
      BY <1>0, <2>0, <3>3, ReturnKeepsBankInv
  <2> QED
    BY <1>3, <2>3, <2>4 DEF ApplyOne
<1>4. CASE LockFirst(w) \/ LockSecond(w)
  <2>1. PICK place \in {"second", "both"}, o \in {First(w), Second(w)} :
          /\ mpc[w] \in {"first", "second"}
          /\ mpc' = [mpc EXCEPT ![w] = place]
          /\ mutex' = [mutex EXCEPT ![o] = w]
          /\ UNCHANGED <<gen, mem, login, logins, pc, req, acc, to>>
    BY <1>4 DEF LockFirst, LockSecond, Acquire
  <2>2. mutex' \in [Objects -> Workers \union {NoWorker}]
    BY <1>0, <2>1
  <2>3. /\ Live(acc[w], req[w].account_id) /\ Live(to[w], req[w].to_account)
        /\ req[w].type = "TRANSFER" /\ pc[w] = "apply"
        /\ place \in MemoryPlaces \ {"start"} /\ place # "balance"
    BY <1>0, <2>1 DEF WorkerOK, MemoryPlaces
  <2>4. acc' = [acc EXCEPT ![w] = acc[w]] /\ to' = [to EXCEPT ![w] = to[w]]
    BY <1>0, <2>1
  <2> QED
    BY <1>0, <2>1, <2>2, <2>3, <2>4, GoOnKeepsBankInv
<1>5. CASE ApplyTransfer(w)
  <2>0. /\ mpc[w] = "both" /\ Mirror(w, Refused(w)) /\ Refused(w) \in BOOLEAN
        /\ mpc' = [mpc EXCEPT ![w] = "start"]
        /\ UNCHANGED <<gen, acc, to, login, logins>>
    BY <1>5 DEF ApplyTransfer, Refused
  <2>1. /\ req[w] \in Request /\ Live(acc[w], req[w].account_id)
        /\ Live(to[w], req[w].to_account)
    BY <1>0, <2>0, RequestsAssumption DEF WorkerOK
  <2>2. /\ mem[acc[w]] \in Int /\ acc[w] \in Objects /\ req[w].amount \in Int
        /\ mem[to[w]] \in Int /\ to[w] \in Objects
    BY <2>1 DEF Live, Request
  <2>3. CASE UNCHANGED <<mem, mutex>>
    BY <1>0, <2>0, <2>3, ReturnKeepsBankInv
  <2> DEFINE b == AfterWithdraw(mem[acc[w]], req[w].amount)
             paid == [mem EXCEPT ![acc[w]] = b]
  <2>4. CASE /\ ~Refused(w)
             /\ mem' = [paid EXCEPT ![to[w]] = @ + req[w].amount]
             /\ mutex' = [mutex EXCEPT ![acc[w]] = NoWorker, ![to[w]] = NoWorker]
    <3>1. b \in Int /\ (mem[acc[w]] \in Nat => b \in Nat)
      BY <2>2, <2>4 DEF AfterWithdraw, Refused
    <3> HIDE DEF b
    <3>2. /\ paid \in [Objects -> Balances] /\ paid[to[w]] \in Int
          /\ \A o \in Objects : /\ mem[o] \in Int => paid[o] \in Int
                                /\ mem[o] \in Nat => paid[o] \in Nat
      BY <1>0, <2>2, <3>1 DEF Balances
    <3>3. /\ paid[to[w]] + req[w].amount \in Int
          /\ mem[to[w]] \in Nat => paid[to[w]] + req[w].amount \in Nat
      BY <2>2, <2>4, <3>2 DEF Refused
    <3> HIDE DEF paid
    <3>4. /\ mem' \in [Objects -> Balances]
          /\ \A o \in Objects : /\ mem[o] \in Int => mem'[o] \in Int
                                /\ mem[o] \in Nat => mem'[o] \in Nat
      BY <1>0, <2>2, <2>4, <3>2, <3>3 DEF Balances
    <3>5. mutex' \in [Objects -> Workers \union {NoWorker}]
      BY <1>0, <2>4
    <3> QED
      BY <1>0, <2>0, <3>4, <3>5, ReturnKeepsBankInv
  <2> QED
    BY <1>5, <2>3, <2>4 DEF ApplyTransfer
<1>6. CASE FindForBalance(w)
  <2> DEFINE o == Find(req[w].account_id)
  <2>0. pc[w] = "respond" /\ mpc[w] = "start" /\ UNCHANGED <<gen, mem, mutex, login, logins>>
    BY <1>6 DEF FindForBalance
  <2>1. CASE Respond(w) /\ UNCHANGED finds
    <3>1. mpc' = [mpc EXCEPT ![w] = "start"]
      BY <1>0, <2>0, <2>1
    <3> QED
      BY <1>0, <2>0, <2>1, <3>1, ReturnKeepsBankInv
  <2>2. CASE /\ o # NoObject /\ acc' = [acc EXCEPT ![w] = o]
             /\ mpc' = [mpc EXCEPT ![w] = "balance"]
             /\ UNCHANGED <<vars, to>>
    <3>1. Live(o, req[w].account_id)
      BY <2>2, FoundIsLive
    <3> HIDE DEF o
    <3>3. /\ UNCHANGED <<gen, mem, login, logins, pc, req>>
          /\ to' = [to EXCEPT ![w] = to[w]] /\ "balance" \in MemoryPlaces \ {"start"}
          /\ mutex' \in [Objects -> Workers \union {NoWorker}]
      BY <1>0, <2>0, <2>2 DEF MemoryPlaces
    <3> QED
      BY <1>0, <2>0, <2>2, <3>1, <3>3, GoOnKeepsBankInv
  <2> QED
    BY <1>6, <2>1, <2>2 DEF FindForBalance
<1>7. CASE ReadBalance(w)
  BY <1>0, <1>7, ReturnKeepsBankInv DEF ReadBalance
<1> QED
  BY <1>1, <1>2, <1>3, <1>4, <1>5, <1>6, <1>7 DEF MemoryStep

(* A login that leaves bank_db as it is. *)
LEMMA LoginMoveKeepsBankInv ==
    ASSUME BankInv, UNCHANGED <<vars, memory, finds>>, LoginOK'
    PROVE  BankInv'
<1>1. UNCHANGED <<gen, mem, mutex, mpc, acc, to, pc, req>>
  BY DEF vars, memory, finds, locals
<1>2. MemTypeOK'
  BY <1>1 DEF BankInv, MemTypeOK
<1>3. \A o, a : Live(o, a) <=> Live(o, a)'
  BY <1>1 DEF Live
<1>4. \A w \in Workers : WorkerOK(w)'
  BY <1>1, <1>3 DEF BankInv, WorkerOK
<1>5. Solvent'
  BY <1>1 DEF BankInv, Solvent
<1> QED
  BY <1>2, <1>4, <1>5 DEF BankInv

LEMMA LoginStartKeepsBankInv ==
    ASSUME BankInv, NEW u \in Users, LoginStart(u)
    PROVE  BankInv'
<1>1. /\ logins < MaxLogins /\ logins' = logins + 1
      /\ UNCHANGED <<vars, memory, finds>>
  BY DEF LoginStart
<1>2. \/ login' = [pc |-> "idle"]
      \/ login' = [user |-> u, pc |-> "read"]
      \/ login' = [user |-> u, pc |-> "reply"]
  BY DEF LoginStart
<1>3. /\ login'.pc \in {"idle", "read", "reply"}
      /\ login'.pc # "idle" => login'.user = u
  BY <1>2
<1>4. gen' = gen /\ gen \in [Users -> Generations]
  BY <1>1 DEF memory, BankInv, MemTypeOK
<1>5. LoginOK
  BY DEF BankInv
<1>6. logins' \in 0..MaxLogins /\ \A v \in Users : gen'[v] <= logins'
  BY <1>1, <1>4, <1>5, LoginsAssumption DEF LoginOK
<1>7. \A v \in Users : gen'[v] <= logins' + 1
  BY <1>4, <1>6, LoginsAssumption DEF Generations
<1>8. LoginOK'
  BY <1>3, <1>6, <1>7 DEF LoginOK
<1> QED
  BY <1>1, <1>8, LoginMoveKeepsBankInv

(* LoginRead: what a login reads are balances, or that there is no row. *)
LEMMA LoginReadKeepsBankInv ==
    ASSUME DbInv, BankInv, LoginRead
    PROVE  BankInv'
<1> DEFINE res == [a \in Accts(login.user) |->
                     IF a \in rows THEN balance[a] ELSE NotLoaded]
<1>1. /\ login.pc = "read" /\ UNCHANGED <<vars, memory, finds, logins>>
      /\ login' = [pc |-> "store", user |-> login.user, res |-> res]
  BY DEF LoginRead
<1>2. \A a \in Accounts : balance[a] \in Int
  BY DEF DbInv, TypeOK
<1>3. res \in [Accts(login.user) -> Balances]
  BY <1>2 DEF Accts, Balances
<1> HIDE DEF res
<1>4. login'.pc = "store" /\ login'.user = login.user /\ login'.res = res
  BY <1>1
<1>5. gen' = gen /\ logins' = logins
  BY <1>1 DEF memory
<1>6. LoginOK'
  BY <1>1, <1>3, <1>4, <1>5 DEF BankInv, LoginOK, Accts
<1> QED
  BY <1>1, <1>6, LoginMoveKeepsBankInv

(* store_users(): objects that workers hold are of an earlier generation   *)
(* than those the login builds.                                            *)
LEMMA LoginStoreKeepsBankInv ==
    ASSUME BankInv, LoginStore
    PROVE  BankInv'
<1> DEFINE u == login.user
<1>1. /\ login.pc = "store" /\ gen' = [gen EXCEPT ![u] = @ + 1]
      /\ mem' = [o \in Objects |-> IF o[1] \in Accts(u) /\ o[2] = gen[u] + 1
                                   THEN login.res[o[1]] ELSE mem[o]]
      /\ login' = [pc |-> "reply", user |-> u]
      /\ UNCHANGED <<mutex, mpc, acc, to, pc, req, logins>>
  BY DEF LoginStore, finds, vars, locals
<1>2. /\ MemTypeOK /\ LoginOK /\ u \in Users /\ login.res \in [Accts(u) -> Balances]
      /\ logins \in 0..MaxLogins
      /\ \A v \in Users : gen[v] <= logins
  BY <1>1 DEF BankInv, LoginOK
<1> HIDE DEF u
<1>3. gen \in [Users -> Nat]
  BY <1>2, LoginsAssumption DEF MemTypeOK, Generations
<1>4. /\ gen' \in [Users -> Nat] /\ gen'[u] = gen[u] + 1
      /\ \A v \in Users \ {u} : gen'[v] = gen[v]
      /\ \A v \in Users : gen[v] <= gen'[v] /\ gen'[v] <= logins + 1
  BY <1>1, <1>2, <1>3
<1>5. gen' \in [Users -> Generations]
  BY <1>2, <1>4, LoginsAssumption DEF Generations
<1>6. mem' \in [Objects -> Balances]
  BY <1>1, <1>2 DEF MemTypeOK
<1>7. MemTypeOK'
  BY <1>1, <1>2, <1>5, <1>6 DEF MemTypeOK
<1>8. LoginOK'
  <2>1. login'.pc = "reply" /\ login'.user = u
    BY <1>1
  <2> QED
    BY <1>1, <1>2, <1>4, <2>1 DEF LoginOK
<1>9. ASSUME NEW o, NEW a, Live(o, a)
      PROVE  Live(o, a)'
  <2>1. o \in Objects /\ a \in Accounts /\ o[1] = a /\ mem[o] \in Int
        /\ o[2] <= gen[Owner[a]] /\ Owner[a] \in Users /\ o[2] \in Nat
    BY <1>9, OwnerAssumption, LoginsAssumption DEF Live, Objects, Generations
  <2>2. ~(o[1] \in Accts(u) /\ o[2] = gen[u] + 1)
    BY <1>2, <1>3, <2>1 DEF Accts
  <2>3. mem'[o] = mem[o]
    BY <1>1, <2>1, <2>2
  <2>4. o[2] <= gen'[Owner[a]]
    BY <1>3, <1>4, <2>1
  <2> QED
    BY <2>1, <2>3, <2>4 DEF Live
<1>10. \A w \in Workers : WorkerOK(w)'
  BY <1>1, <1>9 DEF BankInv, WorkerOK
<1>11. ASSUME NEW a \in Index
       PROVE  gen'[Owner[a]] >= 1 /\ mem'[<<a, 1>>] \in Nat
  <2>1. Owner[a] \in Users /\ <<a, 1>> \in Objects
    BY FirstObject
  <2>2. gen[Owner[a]] >= 1 /\ mem[<<a, 1>>] \in Nat
    BY DEF BankInv, Solvent
  <2>3. gen'[Owner[a]] >= 1
    BY <1>3, <1>4, <2>1, <2>2
  <2>4. ~(a \in Accts(u) /\ 1 = gen[u] + 1)
    BY <1>2, <1>3, <2>2 DEF Accts
  <2>5. mem'[<<a, 1>>] = mem[<<a, 1>>]
    BY <1>1, <2>1, <2>4
  <2> QED
    BY <2>2, <2>3, <2>5
<1> QED
  BY <1>7, <1>8, <1>10, <1>11 DEF BankInv, Solvent

(* Every step of the server keeps the invariant, given that of the         *)
(* database half.                                                          *)
LEMMA NextBankInv == DbInv /\ BankInv /\ [BankNext]_bankVars => BankInv'
<1> SUFFICES ASSUME DbInv, BankInv, [BankNext]_bankVars
             PROVE  BankInv'
  OBVIOUS
<1>1. CASE Environment
  <2>1. UNCHANGED <<memory, finds, session>>
    BY <1>1 DEF Environment
  <2> QED
    BY <1>1, <2>1, DbStepKeepsBankInv
<1>2. ASSUME NEW w \in Workers, DbStep(w)
      PROVE  BankInv'
  <2>1. UNCHANGED <<memory, finds, session>>
    BY <1>2 DEF DbStep
  <2> QED
    BY <1>2, <2>1, DbStepKeepsBankInv
<1>3. ASSUME NEW w \in Workers, MemoryStep(w)
      PROVE  BankInv'
  BY <1>3, MemoryStepKeepsBankInv DEF DbInv
<1>4. ASSUME NEW u \in Users, LoginStart(u)
      PROVE  BankInv'
  BY <1>4, LoginStartKeepsBankInv
<1>5. CASE LoginRead
  BY <1>5, LoginReadKeepsBankInv
<1>6. CASE LoginStore
  BY <1>6, LoginStoreKeepsBankInv
<1>7. CASE LoginError \/ LoginReply
  <2>1. /\ login' = [pc |-> "idle"] /\ UNCHANGED <<vars, memory, finds, logins>>
    BY <1>7 DEF LoginError, LoginReply
  <2>2. login'.pc = "idle" /\ gen' = gen /\ logins' = logins
    BY <2>1 DEF memory
  <2>3. LoginOK'
    BY <2>2 DEF BankInv, LoginOK
  <2> QED
    BY <2>1, <2>3, LoginMoveKeepsBankInv
<1>8. CASE UNCHANGED bankVars
  <2>1. UNCHANGED <<vars, memory, finds>> /\ UNCHANGED <<gen, login, logins>>
    BY <1>8 DEF bankVars, memory, session
  <2>2. LoginOK'
    BY <2>1 DEF BankInv, LoginOK
  <2> QED
    BY <2>1, <2>2, LoginMoveKeepsBankInv
<1> QED
  BY <1>1, <1>2, <1>3, <1>4, <1>5, <1>6, <1>7, <1>8 DEF BankNext, LoginStep

(* The invariants of the tables and of memory hold in every reachable      *)
(* state of the server.                                                    *)
THEOREM BankInvHolds == BankSpec => [](DbInv /\ BankInv)
BY InitBankInv, NextBankInv, TablesOfTheServer, PTL DEF BankSpec

(* Memory keeps its types: an Account a worker has found never loses its   *)
(* balance under the worker's feet, however many logins replace it in      *)
(* bank_db, and none of those loaded at the start becomes negative.        *)
THEOREM ServerTypes == BankSpec => []BankTypeOK
<1>1. DbInv /\ BankInv => BankTypeOK
  BY DEF DbInv, BankInv, MemTypeOK, LoginOK, Solvent, MemoryPlaces, Balances,
         BankTypeOK
<1> QED
  BY <1>1, BankInvHolds, PTL

-----------------------------------------------------------------------------
(* What the pages of the client see to, and the server does not check: a   *)
(* transfer of nothing leaves two mutexes locked, and one from an account  *)
(* to itself waits for its own.                                            *)
PositiveTransfers == \A r \in Requests : r.type = "TRANSFER" => r.amount > 0

DistinctParties ==
    \A r \in Requests : r.type = "TRANSFER" => r.account_id # r.to_account

(* Transaction_Table knows of every transfer that is being applied. *)
TransfersRecorded ==
    \A w \in Workers :
        pc[w] = "apply" /\ req[w].type = "TRANSFER" /\ req[w].amount <= 0 =>
            \A a \in {req[w].account_id, req[w].to_account} : RefusedTransfer(a)

(* The history only grows; a commit adds the rows of its request. *)
LEMMA HistoryGrows ==
    ASSUME DbInv, [Next]_vars
    PROVE  \/ ledger' = ledger
           \/ \E w \in Workers : Install(w) /\ (Commit(w) \/ CommitInDoubt(w))
BY DEF Next, Step, Exhausted, Begin, ExecWithdraw, ExecDeposit, Reject, Mirror,
       Respond, Commit, CommitInDoubt, LoseConnection, LoseIdleConnection,
       InsertAccount, vars, tables

(* What a commit adds to Transaction_Table. *)
LEMMA InstallRecords ==
    ASSUME DbInv, NEW w \in Workers, Install(w)
    PROVE  /\ req[w] \in Requests
           /\ \A i \in DOMAIN ledger : i \in DOMAIN ledger' /\ ledger'[i] = ledger[i]
           /\ \A i \in DOMAIN ledger' \ DOMAIN ledger :
                 ledger'[i].type = req[w].type /\ ledger'[i].amount = req[w].amount
           /\ req[w].type = "TRANSFER" =>
                 \A a : a = req[w].account_id \/ a = req[w].to_account =>
                    \E i \in DOMAIN ledger' :
                        /\ ledger'[i].account_id = a /\ ledger'[i].type = "TRANSFER"
                        /\ ledger'[i].amount = req[w].amount
<1> DEFINE L == ledger
           M == ledger'
           r == req[w]
           payer == [account_id |-> r.account_id, type |-> r.type,
                     amount |-> r.amount, from_account |-> NoAccount,
                     to_account |-> IF r.type = "TRANSFER" THEN r.to_account
                                                           ELSE NoAccount]
           payee == [account_id |-> r.to_account, type |-> r.type,
                     amount |-> r.amount, to_account |-> NoAccount,
                     from_account |-> r.account_id]
           n == Len(L)
<1>1. L \in Seq(LedgerRow) /\ r \in Requests /\ M = L \o LedgerRows(r)
  <2>1. ledger \in Seq(LedgerRow)
    BY DEF DbInv, TypeOK
  <2> QED
    BY <2>1, InstallEffect
<1> HIDE DEF L, M, r
<1>2. n \in Nat /\ DOMAIN L = 1..n
  BY <1>1
<1>3. CASE r.type = "TRANSFER"
  <2>1. LedgerRows(r) = <<payer, payee>>
    BY <1>3 DEF LedgerRows
  <2>2. /\ DOMAIN M = 1..(n + 2) /\ M[n + 1] = payer /\ M[n + 2] = payee
        /\ \A i \in 1..n : M[i] = L[i]
    <3> HIDE DEF payer, payee
    <3> QED
      BY <1>1, <2>1
  <2>3. /\ DOMAIN M \ DOMAIN L = {n + 1, n + 2}
        /\ n + 1 \in DOMAIN M /\ n + 2 \in DOMAIN M
        /\ \A i \in DOMAIN L : i \in DOMAIN M /\ M[i] = L[i]
    BY <1>2, <2>2
  <2>4. /\ M[n + 1].account_id = r.account_id /\ M[n + 2].account_id = r.to_account
        /\ \A i \in {n + 1, n + 2} : M[i].type = r.type /\ M[i].amount = r.amount
    BY <2>2
  <2> HIDE DEF n, payer, payee
  <2>5. ASSUME NEW a, a = r.account_id \/ a = r.to_account
        PROVE  \E i \in DOMAIN M : /\ M[i].account_id = a /\ M[i].type = "TRANSFER"
                                   /\ M[i].amount = r.amount
    BY <1>3, <2>3, <2>4, <2>5
  <2> QED
    BY <1>1, <2>3, <2>4, <2>5 DEF L, M, r
<1>4. CASE r.type # "TRANSFER"
  <2>1. LedgerRows(r) = <<payer>>
    BY <1>4 DEF LedgerRows
  <2>2. /\ DOMAIN M = 1..(n + 1) /\ M[n + 1] = payer
        /\ \A i \in 1..n : M[i] = L[i]
    <3> HIDE DEF payer, payee
    <3> QED
      BY <1>1, <2>1
  <2>3. DOMAIN M \ DOMAIN L = {n + 1}
    BY <1>2, <2>2
  <2>4. M[n + 1].type = r.type /\ M[n + 1].amount = r.amount
    BY <2>2
  <2>5. \A i \in DOMAIN L : i \in DOMAIN M /\ M[i] = L[i]
    BY <1>2, <2>2
  <2> HIDE DEF n, payer, payee
  <2> QED
    BY <1>1, <1>4, <2>3, <2>4, <2>5 DEF L, M, r
<1> QED
  BY <1>3, <1>4

LEMMA RefusedStays ==
    ASSUME DbInv, [Next]_vars, NEW a, RefusedTransfer(a)
    PROVE  RefusedTransfer(a)'
<1>1. CASE ledger' = ledger
  BY <1>1 DEF RefusedTransfer
<1>2. ASSUME NEW w \in Workers, Install(w)
      PROVE  RefusedTransfer(a)'
  <2>1. \A i \in DOMAIN ledger : i \in DOMAIN ledger' /\ ledger'[i] = ledger[i]
    BY <1>2, InstallRecords
  <2> QED
    BY <2>1 DEF RefusedTransfer
<1> QED
  BY <1>1, <1>2, HistoryGrows

LEMMA NextRecorded ==
    ASSUME DbInv, TransfersRecorded, [Next]_vars
    PROVE  TransfersRecorded'
<1> SUFFICES ASSUME NEW w \in Workers, pc'[w] = "apply",
                    req'[w].type = "TRANSFER", req'[w].amount <= 0,
                    NEW a \in {req'[w].account_id, req'[w].to_account}
             PROVE  RefusedTransfer(a)'
  BY DEF TransfersRecorded
<1>1. CASE Commit(w)
  <2>1. Install(w) /\ req' = req
    BY <1>1 DEF Commit, Install, locals
  <2>2. PICK i \in DOMAIN ledger' :
           /\ ledger'[i].account_id = a /\ ledger'[i].type = "TRANSFER"
           /\ ledger'[i].amount = req[w].amount
    BY <2>1, InstallRecords
  <2> QED
    BY <2>1, <2>2 DEF RefusedTransfer
<1>2. CASE ~Commit(w)
  <2>1. pc[w] = "apply" /\ req'[w] = req[w]
    <3> USE DEF DbInv, TypeOK, locals
    <3>1. ASSUME NEW v \in Workers, Begin(v)
          PROVE  pc[w] = "apply" /\ req'[w] = req[w]
      BY <3>1 DEF Begin
    <3>2. ASSUME NEW v \in Workers, ExecWithdraw(v) \/ ExecDeposit(v)
          PROVE  pc[w] = "apply" /\ req'[w] = req[w]
      BY <3>2 DEF ExecWithdraw, ExecDeposit
    <3>3. ASSUME NEW v \in Workers,
                 Reject(v) \/ Commit(v) \/ CommitInDoubt(v) \/ LoseConnection(v)
          PROVE  pc[w] = "apply" /\ req'[w] = req[w]
      BY <1>2, <3>3 DEF Reject, Commit, CommitInDoubt, LoseConnection, Install
    <3>4. ASSUME NEW v \in Workers,
                 \/ LoseIdleConnection(v) \/ Respond(v)
                 \/ \E throws \in BOOLEAN : Mirror(v, throws)
          PROVE  pc[w] = "apply" /\ req'[w] = req[w]
      BY <3>4 DEF LoseIdleConnection, Respond, Mirror
    <3>5. CASE (\E b \in Accounts : InsertAccount(b)) \/ UNCHANGED vars
      BY <3>5 DEF InsertAccount, vars
    <3> QED
      BY <3>1, <3>2, <3>3, <3>4, <3>5 DEF Next, Step, Exhausted
  <2>2. RefusedTransfer(a)
    BY <2>1 DEF TransfersRecorded
  <2> QED
    BY <2>2, RefusedStays
<1> QED
  BY <1>1, <1>2

(* Steps that leave the mutexes and their holders alone. *)
LEMMA HoldersStay ==
    ASSUME DbInv, LocksAccountedFor, [Next]_vars, mutex' = mutex,
           \A v \in Workers : mpc[v] \in {"second", "both"} =>
               /\ mpc'[v] = mpc[v] /\ acc'[v] = acc[v] /\ to'[v] = to[v]
               /\ req'[v] = req[v]
    PROVE  LocksAccountedFor'
<1> SUFFICES ASSUME NEW o \in Objects, NEW w \in Workers, mutex'[o] = w
             PROVE  \/ mpc'[w] = "second" /\ o = First(w)'
                    \/ mpc'[w] = "both" /\ o \in {acc'[w], to'[w]}
                    \/ RefusedTransfer(o[1])'
  BY DEF LocksAccountedFor
<1>1. \/ mpc[w] = "second" /\ o = First(w)
      \/ mpc[w] = "both" /\ o \in {acc[w], to[w]}
      \/ RefusedTransfer(o[1])
  BY DEF LocksAccountedFor
<1>2. RefusedTransfer(o[1]) => RefusedTransfer(o[1])'
  BY RefusedStays
<1> QED
  BY <1>1, <1>2 DEF First, PayerFirst

(* pthread_mutex_lock, twice in a row, and the unlocks after the transfer, *)
(* or the exception that jumps over them.                                  *)
LEMMA LockingKeepsHolders ==
    ASSUME DbInv, BankInv, TransfersRecorded, LocksAccountedFor, [Next]_vars,
           NEW w \in Workers, LockFirst(w) \/ LockSecond(w) \/ ApplyTransfer(w)
    PROVE  LocksAccountedFor'
<1>0. /\ mpc \in [Workers -> MemoryPlaces]
      /\ mutex \in [Objects -> Workers \union {NoWorker}]
      /\ WorkerOK(w) /\ NoWorker \notin Workers
  BY WorkersAssumption DEF BankInv, MemTypeOK
<1> SUFFICES ASSUME NEW o \in Objects, NEW v \in Workers, mutex'[o] = v
             PROVE  \/ mpc'[v] = "second" /\ o = First(v)'
                    \/ mpc'[v] = "both" /\ o \in {acc'[v], to'[v]}
                    \/ RefusedTransfer(o[1])'
  BY DEF LocksAccountedFor
<1>1. UNCHANGED <<req, acc, to>> /\ First(v)' = First(v)
  BY DEF LockFirst, LockSecond, ApplyTransfer, Mirror, vars, locals, First, PayerFirst
<1> SUFFICES ASSUME ~RefusedTransfer(o[1])
             PROVE  \/ mpc'[v] = "second" /\ o = First(v)'
                    \/ mpc'[v] = "both" /\ o \in {acc'[v], to'[v]}
  BY RefusedStays
<1>2. mutex[o] = v => \/ mpc[v] = "second" /\ o = First(v)
                      \/ mpc[v] = "both" /\ o \in {acc[v], to[v]}
  BY DEF LocksAccountedFor
<1>3. CASE LockFirst(w)
  <2>1. /\ mpc[w] = "first" /\ mutex' = [mutex EXCEPT ![First(w)] = w]
        /\ mpc' = [mpc EXCEPT ![w] = "second"]
    BY <1>3 DEF LockFirst, Acquire
  <2>2. CASE o = First(w)
    <3>1. v = w
      BY <1>0, <2>1, <2>2
    <3> QED
      BY <1>0, <1>1, <2>1, <2>2, <3>1
  <2>3. CASE o # First(w)
    <3>1. mutex[o] = v
      BY <1>0, <2>1, <2>3
    <3>2. v # w
      BY <1>2, <2>1, <3>1
    <3> QED
      BY <1>0, <1>1, <1>2, <2>1, <3>1, <3>2
  <2> QED
    BY <2>2, <2>3
<1>4. CASE LockSecond(w)
  <2>1. /\ mpc[w] = "second" /\ mutex' = [mutex EXCEPT ![Second(w)] = w]
        /\ mpc' = [mpc EXCEPT ![w] = "both"]
    BY <1>4 DEF LockSecond, Acquire
  <2>2. CASE v = w
    <3>1. o \in {First(w), Second(w)}
      BY <1>0, <1>2, <2>1, <2>2
    <3>2. o \in {acc[w], to[w]}
      BY <3>1 DEF First, Second
    <3> QED
      BY <1>0, <1>1, <2>1, <2>2, <3>2
  <2>3. CASE v # w
    <3>1. mutex[o] = v
      BY <1>0, <2>1, <2>3
    <3> QED
      BY <1>0, <1>1, <1>2, <2>1, <2>3, <3>1
  <2> QED
    BY <2>2, <2>3
<1>5. CASE ApplyTransfer(w)
  <2>0. mpc[w] = "both" /\ mpc' = [mpc EXCEPT ![w] = "start"]
    BY <1>5 DEF ApplyTransfer
  <2>1. CASE Refused(w)
    <3>1. mutex' = mutex
      BY <1>5, <2>1 DEF ApplyTransfer
    <3>2. CASE v = w
      <4>1. o \in {acc[w], to[w]}
        BY <1>2, <2>0, <3>1, <3>2
      <4>2. /\ req[w].type = "TRANSFER" /\ pc[w] = "apply"
            /\ acc[w][1] = req[w].account_id /\ to[w][1] = req[w].to_account
        BY <1>0, <2>0 DEF WorkerOK, Live
      <4>3. RefusedTransfer(o[1])
        BY <2>1, <4>1, <4>2 DEF TransfersRecorded, Refused
      <4> QED
        BY <4>3
    <3>3. CASE v # w
      BY <1>0, <1>1, <1>2, <2>0, <3>1, <3>3
    <3> QED
      BY <3>2, <3>3
  <2>2. CASE ~Refused(w)
    <3>1. mutex' = [mutex EXCEPT ![acc[w]] = NoWorker, ![to[w]] = NoWorker]
      BY <1>5, <2>2 DEF ApplyTransfer
    <3>2. o \notin {acc[w], to[w]} /\ mutex[o] = v
      BY <1>0, <3>1
    <3>3. v # w
      BY <1>2, <2>0, <3>2
    <3> QED
      BY <1>0, <1>1, <1>2, <2>0, <3>2, <3>3
  <2> QED
    BY <2>1, <2>2
<1> QED
  BY <1>3, <1>4, <1>5

LEMMA NextLocks ==
    ASSUME DbInv, BankInv, TransfersRecorded, LocksAccountedFor,
           [BankNext]_bankVars
    PROVE  LocksAccountedFor'
<1> USE DEF memory, finds, session
<1>0. /\ \A v \in Workers : WorkerOK(v)
      /\ mpc \in [Workers -> MemoryPlaces]
      /\ acc \in [Workers -> Objects \union {NoObject}]
      /\ to \in [Workers -> Objects \union {NoObject}]
      /\ [Next]_vars
  BY StepRefinesDb DEF BankInv, MemTypeOK
<1>1. CASE Environment \/ \E w \in Workers : DbStep(w)
  <2>1. UNCHANGED <<mutex, mpc, acc, to>>
    BY <1>1 DEF Environment, DbStep
  <2>2. ASSUME NEW v \in Workers, mpc[v] \in {"second", "both"}
        PROVE  req'[v] = req[v]
    <3>1. WorkerOK(v) /\ pc[v] = "apply"
      BY <1>0, <2>2 DEF WorkerOK
    <3>2. CASE \E w \in Workers :
                 \/ ExecWithdraw(w) \/ ExecDeposit(w) \/ Reject(w) \/ Commit(w)
                 \/ Begin(w) \/ CommitInDoubt(w) \/ LoseConnection(w)
                 \/ LoseIdleConnection(w)
      BY <3>1, <3>2, DbStepOfWorkers DEF DbInv
    <3>3. CASE (\E a \in Accounts : InsertAccount(a)) \/ Exhausted
      BY <3>3 DEF InsertAccount, Exhausted, vars, locals
    <3> QED
      BY <1>1, <3>2, <3>3 DEF DbStep, Environment
  <2> QED
    BY <1>0, <2>1, <2>2, HoldersStay
<1>2. ASSUME NEW w \in Workers,
             \/ FindAccount(w) \/ FindRecipient(w) \/ ApplyOne(w)
             \/ FindForBalance(w) \/ ReadBalance(w)
      PROVE  LocksAccountedFor'
  <2>1. mutex' = mutex /\ req' = req /\ mpc[w] \notin {"second", "both"}
    BY <1>2 DEF FindAccount, FindRecipient, ApplyOne, FindForBalance, ReadBalance,
           Mirror, Respond, vars, locals
  <2>2. \A v \in Workers \ {w} : mpc'[v] = mpc[v] /\ acc'[v] = acc[v] /\ to'[v] = to[v]
    BY <1>0, <1>2 DEF FindAccount, FindRecipient, ApplyOne, FindForBalance, ReadBalance
  <2> QED
    BY <1>0, <2>1, <2>2, HoldersStay
<1>3. ASSUME NEW w \in Workers, LockFirst(w) \/ LockSecond(w) \/ ApplyTransfer(w)
      PROVE  LocksAccountedFor'
  BY <1>0, <1>3, LockingKeepsHolders
<1>4. CASE \/ (\E u \in Users : LoginStart(u)) \/ LoginStep
           \/ UNCHANGED bankVars
  <2>1. UNCHANGED <<mutex, mpc, acc, to, req>>
    BY <1>4 DEF LoginStart, LoginStep, LoginRead, LoginError, LoginStore, LoginReply,
           bankVars, vars, locals
  <2> QED
    BY <1>0, <2>1, HoldersStay
<1> QED
  BY <1>1, <1>2, <1>3, <1>4 DEF BankNext, MemoryStep

(* Whatever the requests, a locked Account belongs to a transfer that      *)
(* stands between its pthread_mutex_lock calls or past them, or it is one  *)
(* that a recorded transfer of a non-positive amount names.                *)
THEOREM LocksAreExplained == BankSpec => []LocksAccountedFor
<1>1. BankInit => TransfersRecorded /\ LocksAccountedFor
  BY WorkersAssumption
     DEF BankInit, InitMemory, Init, LocksAccountedFor, TransfersRecorded
<1>2. /\ DbInv /\ BankInv /\ TransfersRecorded /\ LocksAccountedFor
      /\ [BankNext]_bankVars
      => TransfersRecorded' /\ LocksAccountedFor'
  BY NextLocks, NextRecorded, StepRefinesDb
<1> QED
  BY <1>1, <1>2, BankInvHolds, PTL DEF BankSpec

(* If no request is such a transfer, none is recorded. *)
NothingRefused == \A a : ~RefusedTransfer(a)

LEMMA NothingIsRefused ==
    ASSUME PositiveTransfers
    PROVE  BankSpec => []NothingRefused
<1>1. BankInit => NothingRefused
  <2> SUFFICES ASSUME BankInit
               PROVE  NothingRefused
    OBVIOUS
  <2>1. DOMAIN ledger = {}
    BY DEF BankInit, Init
  <2> QED
    BY <2>1 DEF NothingRefused, RefusedTransfer
<1>2. DbInv /\ NothingRefused /\ [BankNext]_bankVars => NothingRefused'
  <2> SUFFICES ASSUME DbInv, NothingRefused, [BankNext]_bankVars, NEW a,
                      RefusedTransfer(a)'
               PROVE  FALSE
    BY DEF NothingRefused
  <2>1. CASE ledger' = ledger
    BY <2>1 DEF NothingRefused, RefusedTransfer
  <2>2. ASSUME NEW w \in Workers, Install(w)
        PROVE  FALSE
    <3>1. req[w] \in Requests /\ req[w].amount \in Int
      BY <2>2, InstallRecords, RequestsAssumption DEF Request
    <3>2. PICK i \in DOMAIN ledger' :
             /\ ledger'[i].account_id = a /\ ledger'[i].type = "TRANSFER"
             /\ ledger'[i].amount <= 0
      BY DEF RefusedTransfer
    <3>3. /\ \A k \in DOMAIN ledger : ledger'[k] = ledger[k]
          /\ \A k \in DOMAIN ledger' \ DOMAIN ledger :
                /\ ledger'[k].type = req[w].type
                /\ ledger'[k].amount = req[w].amount
      BY <2>2, InstallRecords
    <3>4. CASE i \in DOMAIN ledger
      BY <3>2, <3>3, <3>4 DEF NothingRefused, RefusedTransfer
    <3>5. CASE i \notin DOMAIN ledger
      BY <3>1, <3>2, <3>3, <3>5 DEF PositiveTransfers
    <3> QED
      BY <3>4, <3>5
  <2> QED
    BY <2>1, <2>2, HistoryGrows, StepRefinesDb
<1> QED
  BY <1>1, <1>2, BankInvHolds, PTL DEF BankSpec

-----------------------------------------------------------------------------
Id(o) == o[1]

(* The two Accounts of a transfer are locked in the order of their ids.    *)
LEMMA LockOrder ==
    ASSUME DistinctParties, BankInv, NEW w \in Workers, mpc[w] = "second"
    PROVE  /\ Id(First(w)) \in Nat /\ Id(Second(w)) \in Nat
           /\ Id(First(w)) < Id(Second(w))
<1>1. WorkerOK(w)
  BY DEF BankInv
<1>2. /\ Live(acc[w], req[w].account_id) /\ Live(to[w], req[w].to_account)
      /\ req[w] \in Requests /\ req[w].type = "TRANSFER"
  BY <1>1 DEF WorkerOK
<1>3. /\ Id(acc[w]) = req[w].account_id /\ Id(to[w]) = req[w].to_account
      /\ req[w].account_id \in Nat /\ req[w].to_account \in Nat
      /\ req[w].account_id # req[w].to_account
  BY <1>2, AccountsAssumption DEF Live, Id, DistinctParties
<1> QED
  BY <1>3 DEF First, Second, PayerFirst

(* In a set of workers that wait for one another, each waits for one that  *)
(* waits for an Account of a higher id.                                    *)
LEMMA ChainAscends ==
    ASSUME DistinctParties, BankInv, LocksAccountedFor, NothingRefused,
           NEW S \in SUBSET Workers,
           \A w \in S : \E o \in Objects : BlockedOn(w, o) /\ mutex[o] \in S,
           NEW w \in S, NEW o \in Objects, BlockedOn(w, o), mutex[o] \in S
    PROVE  /\ mpc[mutex[o]] = "second" /\ First(mutex[o]) = o
<1> DEFINE v == mutex[o]
<1>1. v \in Workers /\ v \in S
  OBVIOUS
<1>2. \/ mpc[v] = "second" /\ o = First(v)
      \/ mpc[v] = "both" /\ o \in {acc[v], to[v]}
  BY <1>1 DEF LocksAccountedFor, NothingRefused
<1>3. PICK p \in Objects : BlockedOn(v, p)
  BY <1>1
<1>4. mpc[v] # "both"
  BY <1>3 DEF BlockedOn
<1> QED
  BY <1>2, <1>4

(* A finite set of workers has one whose number no other one exceeds. *)
LEMMA HighestExists ==
    ASSUME NEW H \in SUBSET Workers, H # {}, NEW f \in [H -> Nat]
    PROVE  \E v \in H : \A u \in H : ~(f[v] < f[u])
<1> DEFINE U(v) == {u \in H : f[v] < f[u]}
           T == {U(v) : v \in H}
<1>1. IsFiniteSet(H)
  BY FiniteWorkers, FS_Subset
<1>2. IsWellFoundedOn(StrictSubsetOrdering(H), SUBSET H)
  BY <1>1, FS_StrictSubsetOrderingWellFounded, FS_FiniteSubsetsOfFinite
<1>3. T \subseteq SUBSET H /\ T # {}
  <2>1. \A v \in H : U(v) \in SUBSET H
    OBVIOUS
  <2>2. PICK v \in H : TRUE
    OBVIOUS
  <2>3. U(v) \in T
    OBVIOUS
  <2> HIDE DEF U
  <2> QED
    BY <2>1, <2>3
<1>4. PICK x \in T : \A y \in T : <<y, x>> \notin StrictSubsetOrdering(H)
  <2> HIDE DEF T
  <2> QED
    BY <1>2, <1>3, WFMin
<1>5. PICK v \in H : x = U(v)
  BY <1>4
<1>6. ASSUME NEW u \in H, f[v] < f[u]
      PROVE  FALSE
  <2>1. U(u) \subseteq U(v)
    BY <1>6
  <2>2. u \in U(v) /\ u \notin U(u)
    BY <1>6
  <2>3. <<U(u), U(v)>> \in StrictSubsetOrdering(H)
    <3>1. U(u) \in SUBSET H /\ U(v) \in SUBSET H
      OBVIOUS
    <3>2. U(u) # U(v)
      BY <2>2
    <3> HIDE DEF U
    <3> QED
      BY <2>1, <3>1, <3>2 DEF StrictSubsetOrdering
  <2>4. U(u) \in T
    OBVIOUS
  <2> HIDE DEF U, T
  <2> QED
    BY <1>4, <1>5, <2>3, <2>4
<1> QED
  BY <1>6

(* The lock order of applyMemoryUpdate is enough: of workers that wait for *)
(* one another, the one that waits for the highest id waits for nobody     *)
(* among them.                                                             *)
LEMMA OrderPreventsDeadlock ==
    ASSUME DistinctParties, BankInv, LocksAccountedFor, NothingRefused
    PROVE  NoMutexDeadlock
<1> SUFFICES ASSUME NEW S \in SUBSET Workers, S # {},
                    \A w \in S : \E o \in Objects : BlockedOn(w, o) /\ mutex[o] \in S
             PROVE  FALSE
  <2>1. ASSUME NEW S \in SUBSET Workers, S # {}
        PROVE  \E w \in S : \A o \in Objects : BlockedOn(w, o) => mutex[o] \notin S
    BY <2>1
  <2> QED
    BY <2>1 DEF NoMutexDeadlock
<1> DEFINE H == {v \in S : mpc[v] = "second"}
           f == [v \in H |-> Id(Second(v))]
<1>1. H # {}
  <2>1. PICK w \in S : TRUE
    OBVIOUS
  <2>2. PICK o \in Objects : BlockedOn(w, o) /\ mutex[o] \in S
    BY <2>1
  <2> QED
    BY <2>2, ChainAscends
<1>2. H \in SUBSET Workers /\ f \in [H -> Nat]
  BY LockOrder
<1>3. PICK v \in H : \A u \in H : ~(f[v] < f[u])
  <2> HIDE DEF H, f
  <2> QED
    BY <1>1, <1>2, HighestExists
<1>4. PICK o \in Objects : BlockedOn(v, o) /\ mutex[o] \in S
  BY <1>3
<1>5. o = Second(v)
  BY <1>3, <1>4 DEF BlockedOn
<1>6. mutex[o] \in H /\ First(mutex[o]) = o
  BY <1>3, <1>4, ChainAscends
<1>7. f[v] < f[mutex[o]]
  <2>1. Id(First(mutex[o])) < Id(Second(mutex[o]))
    BY <1>6, LockOrder
  <2> QED
    BY <1>3, <1>5, <1>6, <2>1
<1> QED
  BY <1>3, <1>6, <1>7

(* Provided that every transfer moves money between two different          *)
(* accounts, no workers wait for one another's mutexes in a circle,        *)
(* however the logins replace the Account objects meanwhile.               *)
THEOREM MutexesDoNotDeadlock ==
    ASSUME PositiveTransfers, DistinctParties
    PROVE  BankSpec => []NoMutexDeadlock
<1>1. BankInv /\ LocksAccountedFor /\ NothingRefused => NoMutexDeadlock
  BY OrderPreventsDeadlock
<1> QED
  BY <1>1, BankInvHolds, LocksAreExplained, NothingIsRefused, PTL

-----------------------------------------------------------------------------
(* When the mirror is in step: nobody logs in or refreshes, no connection  *)
(* breaks, and the requests are about accounts that were there when the    *)
(* server started.  Of a later account findAccount knows nothing, a broken *)
(* connection leaves a commit in doubt, a refresh may count an update      *)
(* twice or not at all, and a negative amount is posted in the tables and  *)
(* refused in memory.                                                      *)
Undisturbed ==
    /\ MaxLogins = 0
    /\ Unreliable = {}
    /\ \A r \in Requests : /\ r.account_id \in Index
                           /\ r.to_account \in Index \union {NoAccount}
                           /\ r.amount >= 0

(* The objects the constructor loaded are the only ones. *)
FirstLoad ==
    /\ login.pc = "idle"
    /\ \A a \in Index : gen[Owner[a]] = 1 /\ mem[<<a, 1>>] \in Nat
    /\ \A a \in Accounts : mem[<<a, 0>>] = NotLoaded

(* A worker that has begun a request and not left applyMemoryUpdate. *)
Undone(w) == IF pc[w] \in {"idle", "respond"} THEN 0 ELSE 1

UndoneCount == SumFunction([w \in Workers |-> Undone(w)])

(* An amount no request exceeds. *)
Ceiling(m) == m \in Nat /\ \A r \in Requests : r.amount <= m

(* No account has lost more than the requests that are done can take. *)
Spared ==
    /\ UndoneCount <= taken
    /\ \A a \in Index, m \in Nat :
          Ceiling(m) => InitialBalance[a] <= mem[<<a, 1>>] + m * (taken - UndoneCount)

(* What is left to apply is well formed, and a transfer locks two mutexes. *)
ToApply(w) ==
    /\ pc[w] = "apply" => ~NoRecipient(req[w]) /\ req[w].type # "OTHER"
    /\ mpc[w] = "lock" => req[w].type # "TRANSFER"

MirrorInv ==
    /\ FirstLoad
    /\ \A w \in Workers : ToApply(w)
    /\ Spared
    /\ MirrorInStep
    /\ MirrorNeverUnderstates

LEMMA LiveIsFirst ==
    ASSUME Undisturbed, BankInv, FirstLoad, NEW a \in Index, NEW o, Live(o, a)
    PROVE  o = <<a, 1>>
<1>1. a \in Accounts /\ o \in Objects /\ o[1] = a /\ mem[o] \in Int /\ o[2] <= 1
  BY DEF Live, FirstLoad
<1>2. o = <<o[1], o[2]>> /\ o[2] \in {0, 1}
  BY <1>1 DEF Objects, Generations, Undisturbed
<1>3. NotLoaded \notin Int
  BY NotLoadedAssumption
<1> QED
  BY <1>1, <1>2, <1>3 DEF FirstLoad

LEMMA FirstIsFound ==
    ASSUME Undisturbed, BankInv, FirstLoad, NEW a \in Index
    PROVE  Find(a) # NoObject
<1>1. /\ a \in Accounts /\ gen[Owner[a]] = 1 /\ mem[<<a, 1>>] \in Nat
  BY BalanceAssumption DEF FirstLoad, Index
<1>2. <<a, 1>> \in Objects
  BY <1>1 DEF Objects, Generations, Undisturbed
<1> QED
  BY <1>1, <1>2, NotLoadedAssumption, ObjectAssumption DEF Find

(* Effects are integers. *)
LEMMA EffectType ==
    ASSUME Undisturbed, NEW r \in Requests
    PROVE  r.amount \in Nat /\ \A a : Effect(r, a) \in Int
<1>1. r \in Request
  BY RequestsAssumption
<1> QED
  BY <1>1 DEF Undisturbed, Request, Effect, DepositPart, WithdrawPart

(* How the two sums change when one worker moves. *)
LEMMA SumsMove ==
    ASSUME Undisturbed, TypeOK, TypeOK', BankInv, BankInv', NEW w \in Workers,
           \A v \in Workers \ {w} : pc'[v] = pc[v] /\ req'[v] = req[v]
    PROVE  /\ UndoneCount \in Int
           /\ UndoneCount' = UndoneCount - Undone(w) + Undone(w)'
           /\ \A a : /\ Pending(a) \in Int
                     /\ Pending(a)' = Pending(a) - OnItsWay(w, a) + OnItsWay(w, a)'
<1>1. /\ \A v \in Workers : pc[v] = "apply" => req[v] \in Requests
      /\ \A v \in Workers : pc'[v] = "apply" => req'[v] \in Requests
  BY DEF BankInv, WorkerOK
<1>2. /\ UndoneCount \in Int
      /\ UndoneCount' = UndoneCount - Undone(w) + Undone(w)'
  <2> DEFINE f == [v \in Workers |-> Undone(v)]
             g == [v \in Workers |-> Undone(v)']
  <2>1. f \in [Workers -> Int] /\ g \in [Workers -> Int]
    BY DEF Undone
  <2>2. \A v \in Workers \ {w} : g[v] = f[v]
    BY DEF Undone
  <2>3. f[w] = Undone(w) /\ g[w] = Undone(w)'
    OBVIOUS
  <2>4. UndoneCount = SumFunction(f) /\ UndoneCount' = SumFunction(g)
    BY DEF UndoneCount
  <2> HIDE DEF f, g
  <2> QED
    BY <2>1, <2>2, <2>3, <2>4, SumChanges, FiniteWorkers
<1>3. ASSUME NEW a
      PROVE  /\ Pending(a) \in Int
             /\ Pending(a)' = Pending(a) - OnItsWay(w, a) + OnItsWay(w, a)'
  <2> DEFINE f == [v \in Workers |-> OnItsWay(v, a)]
             g == [v \in Workers |-> OnItsWay(v, a)']
  <2>1. f \in [Workers -> Int] /\ g \in [Workers -> Int]
    BY <1>1, EffectType DEF OnItsWay
  <2>2. \A v \in Workers \ {w} : g[v] = f[v]
    BY DEF OnItsWay
  <2>3. f[w] = OnItsWay(w, a) /\ g[w] = OnItsWay(w, a)'
    OBVIOUS
  <2>4. Pending(a) = SumFunction(f) /\ Pending(a)' = SumFunction(g)
    BY DEF Pending
  <2> HIDE DEF f, g
  <2> QED
    BY <2>1, <2>2, <2>3, <2>4, SumChanges, FiniteWorkers
<1> QED
  BY <1>2, <1>3

LEMMA Products ==
    ASSUME NEW m \in Nat, NEW k \in Nat, NEW n \in Nat
    PROVE  /\ m * k \in Nat
           /\ m * (k + 1) = m * k + m
           /\ k <= n => m * k <= n * m
           /\ k + 1 <= n => m * k + m <= n * m
OBVIOUS

(* One of finitely many amounts is the greatest, if they are bounded. *)
LEMMA CeilingExists ==
    ASSUME Undisturbed, NEW n \in Nat, n > 0, NEW b \in Nat, \A r \in Requests : b >= n * r.amount
    PROVE  \E m \in Nat : Ceiling(m) /\ n * m <= b
<1> DEFINE T == {m \in Nat : Ceiling(m)}
<1>0. \A r \in Requests : r.amount \in Nat
  BY EffectType
<1>1. \A k \in Nat : k <= n * k
  <2> TAKE k \in Nat
  <2>1. n - 1 \in Nat
    OBVIOUS
  <2>2. k * (n - 1) \in Nat /\ k * ((n - 1) + 1) = k * (n - 1) + k
    BY <2>1, Products
  <2>3. (n - 1) + 1 = n /\ k * n = n * k
    OBVIOUS
  <2> QED
    BY <2>2, <2>3
<1>2. b \in T
  BY <1>0, <1>1 DEF Ceiling
<1>3. PICK m \in T : \A k \in T : m <= k
  <2>1. T \in SUBSET Nat /\ T # {}
    BY <1>2
  <2> HIDE DEF T
  <2> QED
    BY <2>1, LeastNatural
<1>4. CASE m = 0
  BY <1>3, <1>4
<1>5. CASE m # 0
  <2>1. m - 1 \in Nat /\ m - 1 \notin T
    BY <1>3, <1>5
  <2>2. PICK r \in Requests : ~(r.amount <= m - 1)
    BY <2>1 DEF Ceiling
  <2>3. r.amount = m
    BY <1>0, <1>3, <2>2 DEF Ceiling
  <2> QED
    BY <1>3, <2>3
<1> QED
  BY <1>4, <1>5

(* An account that is never short has the money when it is to pay. *)
LEMMA FundsSuffice ==
    ASSUME Undisturbed, TypeOK, Spared, NEW w \in Workers, Undone(w) = 1,
           NEW a \in Index, mem[<<a, 1>>] \in Nat, NeverShort(a)
    PROVE  \A r \in Requests : r.amount <= mem[<<a, 1>>]
<1> DEFINE f == [v \in Workers |-> Undone(v)]
<1>1. UndoneCount \in Nat /\ UndoneCount >= 1
  <2>1. \A v \in Workers : f[v] \in Nat
    BY DEF Undone
  <2>2. f[w] = 1 /\ IsFiniteSet(Workers \ {w}) /\ UndoneCount = SumFunctionOnSet(f, Workers)
    BY FiniteWorkers, FS_Subset DEF UndoneCount, SumFunction
  <2> HIDE DEF f
  <2>3. SumFunctionOnSet(f, Workers) = f[w] + SumFunctionOnSet(f, Workers \ {w})
    BY <2>1, FiniteWorkers, SumTakesOut
  <2>4. SumFunctionOnSet(f, Workers \ {w}) \in Nat
    BY <2>1, <2>2, SumNotNegative
  <2> QED
    BY <2>2, <2>3, <2>4
<1>2. /\ taken \in Nat /\ MaxRequests \in Nat /\ taken <= MaxRequests /\ MaxRequests > 0
      /\ taken - UndoneCount \in Nat /\ (taken - UndoneCount) + 1 <= MaxRequests
  BY <1>1, BoundsAssumption DEF TypeOK, Spared
<1>3. InitialBalance[a] \in Nat
  BY BalanceAssumption DEF Index
<1>4. PICK m \in Nat : Ceiling(m) /\ MaxRequests * m <= InitialBalance[a]
  BY <1>2, <1>3, CeilingExists DEF NeverShort
<1> DEFINE n == m * (taken - UndoneCount)
<1>5. InitialBalance[a] <= mem[<<a, 1>>] + n
  BY <1>4 DEF Spared
<1>6. n \in Nat /\ n + m <= MaxRequests * m
  BY <1>2, Products
<1>7. MaxRequests * m \in Nat
  BY <1>2, Products
<1> HIDE DEF n
<1>8. m <= mem[<<a, 1>>]
  BY <1>3, <1>4, <1>5, <1>6, <1>7
<1> QED
  BY <1>4, <1>8, EffectType DEF Ceiling

(* A step of worker w keeps the mirror in step if memory and what is on    *)
(* its way change by as much as the tables, and if only a request that is  *)
(* then done (d = 1) takes money from an object.                           *)
LEMMA WorkerMoves ==
    ASSUME Undisturbed, TypeOK, TypeOK', BankInv, BankInv', MirrorInv,
           NEW w \in Workers,
           \A v \in Workers \ {w} : pc'[v] = pc[v] /\ req'[v] = req[v] /\ mpc'[v] = mpc[v],
           gen' = gen, FirstLoad', ToApply(w)',
           NEW d \in {0, 1}, taken' - Undone(w)' = taken - Undone(w) + d,
           \A a \in Index :
              /\ \/ mem'[<<a, 1>>] >= mem[<<a, 1>>]
                 \/ d = 1 /\ \E r \in Requests : mem'[<<a, 1>>] >= mem[<<a, 1>>] - r.amount
              /\ mem'[<<a, 1>>] + OnItsWay(w, a)' - OnItsWay(w, a)
                    >= mem[<<a, 1>>] + balance'[a] - balance[a]
              /\ NeverShort(a) =>
                    mem'[<<a, 1>>] + OnItsWay(w, a)' - OnItsWay(w, a)
                       = mem[<<a, 1>>] + balance'[a] - balance[a]
    PROVE  MirrorInv'
<1>1. /\ UndoneCount \in Int
      /\ UndoneCount' = UndoneCount - Undone(w) + Undone(w)'
      /\ \A a : /\ Pending(a) \in Int
                /\ Pending(a)' = Pending(a) - OnItsWay(w, a) + OnItsWay(w, a)'
  BY SumsMove
<1>2. Undone(w) \in {0, 1} /\ Undone(w)' \in {0, 1} /\ taken \in Nat /\ taken' \in Nat
  BY BoundsAssumption DEF Undone, TypeOK
<1>3. /\ taken - UndoneCount \in Nat
      /\ taken' - UndoneCount' = (taken - UndoneCount) + d
      /\ UndoneCount' \in Int /\ UndoneCount' <= taken'
  BY <1>1, <1>2 DEF MirrorInv, Spared
<1>4. \A v \in Workers : ToApply(v)'
  BY DEF MirrorInv, ToApply
<1>5. ASSUME NEW a \in Index
      PROVE  /\ a \in Accounts /\ InitialBalance[a] \in Nat
             /\ balance[a] \in Int /\ balance'[a] \in Int
             /\ mem[<<a, 1>>] \in Nat /\ mem'[<<a, 1>>] \in Nat
             /\ Mirrored(a) = mem[<<a, 1>>] + Pending(a)
             /\ Mirrored(a)' = mem'[<<a, 1>>] + Pending(a)'
             /\ OnItsWay(w, a) \in Int /\ OnItsWay(w, a)' \in Int
  <2>1. a \in Accounts /\ InitialBalance[a] \in Nat
    BY BalanceAssumption DEF Index
  <2>2. balance[a] \in Int /\ balance'[a] \in Int
    BY <2>1 DEF TypeOK
  <2>3. /\ mem[<<a, 1>>] \in Nat /\ mem'[<<a, 1>>] \in Nat
        /\ Mirrored(a) = mem[<<a, 1>>] + Pending(a)
        /\ Mirrored(a)' = mem'[<<a, 1>>] + Pending(a)'
    BY DEF MirrorInv, FirstLoad, Mirrored
  <2>4. OnItsWay(w, a) \in Int /\ OnItsWay(w, a)' \in Int
    BY EffectType DEF BankInv, WorkerOK, OnItsWay
  <2> QED
    BY <2>1, <2>2, <2>3, <2>4
<1>6. ASSUME NEW a \in Index, NEW m \in Nat, Ceiling(m)
      PROVE  InitialBalance[a] <= mem'[<<a, 1>>] + m * (taken' - UndoneCount')
  <2> DEFINE n == m * (taken - UndoneCount)
  <2>1. InitialBalance[a] <= mem[<<a, 1>>] + n
    BY <1>6 DEF MirrorInv, Spared
  <2>2. n \in Nat /\ m * ((taken - UndoneCount) + 1) = n + m
    BY <1>3, Products
  <2>3. CASE d = 0
    <3>1. taken' - UndoneCount' = taken - UndoneCount
      BY <1>3, <2>3
    <3>2. mem'[<<a, 1>>] >= mem[<<a, 1>>]
      BY <2>3
    <3> QED
      BY <1>5, <2>1, <2>2, <3>1, <3>2
  <2>4. CASE d = 1
    <3>1. m * (taken' - UndoneCount') = n + m
      BY <1>3, <2>2, <2>4
    <3>2. mem'[<<a, 1>>] >= mem[<<a, 1>>] - m
      BY <1>5, <1>6, EffectType DEF Ceiling
    <3> HIDE DEF n
    <3> QED
      BY <1>5, <2>1, <2>2, <3>1, <3>2
  <2> QED
    BY <2>3, <2>4
<1>7. Spared'
  BY <1>3, <1>6 DEF Spared, Ceiling
<1>8. ASSUME NEW a \in Index
      PROVE  /\ Mirrored(a)' >= balance'[a]
             /\ NeverShort(a) => Mirrored(a)' = balance'[a]
  <2>1. /\ Mirrored(a) >= balance[a]
        /\ NeverShort(a) => Mirrored(a) = balance[a]
    BY DEF MirrorInv, MirrorInStep, MirrorNeverUnderstates
  <2>2. /\ Pending(a) \in Int
        /\ Pending(a)' = Pending(a) - OnItsWay(w, a) + OnItsWay(w, a)'
    BY <1>1
  <2>3. mem'[<<a, 1>>] + OnItsWay(w, a)' - OnItsWay(w, a)
           >= mem[<<a, 1>>] + balance'[a] - balance[a]
    OBVIOUS
  <2>4. NeverShort(a) => mem'[<<a, 1>>] + OnItsWay(w, a)' - OnItsWay(w, a)
                           = mem[<<a, 1>>] + balance'[a] - balance[a]
    OBVIOUS
  <2> QED
    BY <1>5, <2>1, <2>2, <2>3, <2>4
<1>9. MirrorInStep' /\ MirrorNeverUnderstates'
  BY <1>8 DEF MirrorInStep, MirrorNeverUnderstates, NeverShort, Index
<1> QED
  BY <1>4, <1>7, <1>9 DEF MirrorInv

(* Steps of the database half: a commit puts its effect on its way. *)
LEMMA DbKeepsMirror ==
    ASSUME Undisturbed, DbInv, TypeOK', BankInv, BankInv', MirrorInv, NEW w \in Workers,
           \/ Begin(w) \/ ExecWithdraw(w) \/ ExecDeposit(w) \/ Reject(w) \/ Commit(w)
           \/ Respond(w),
           UNCHANGED <<gen, mem, login>>,
           \A v \in Workers \ {w} : mpc'[v] = mpc[v], mpc'[w] # "lock"
    PROVE  MirrorInv'
<1> USE DEF tables, locks, locals
<1>0. /\ TypeOK /\ pc \in [Workers -> {"idle", "withdraw", "deposit", "decide", "apply",
                                       "respond"}]
      /\ req \in [Workers -> Requests \union {NoRequest}]
      /\ taken \in Nat /\ balance \in [Accounts -> Int]
  BY DEF DbInv, TypeOK
<1>1. FirstLoad'
  BY DEF MirrorInv, FirstLoad
<1>2. ASSUME NEW a \in Index
      PROVE  mem[<<a, 1>>] \in Nat /\ balance[a] \in Int /\ mem'[<<a, 1>>] = mem[<<a, 1>>]
  BY <1>0, BalanceAssumption DEF MirrorInv, FirstLoad, Index
<1>3. CASE Begin(w)
  <2>1. /\ pc[w] = "idle" /\ pc'[w] \in {"respond", "withdraw", "deposit"}
        /\ taken' = taken + 1 /\ balance' = balance
        /\ \A v \in Workers \ {w} : pc'[v] = pc[v] /\ req'[v] = req[v]
    BY <1>0, <1>3 DEF Begin
  <2>2. PICK d \in {0, 1} : taken' - Undone(w)' = taken - Undone(w) + d
    BY <1>0, <2>1 DEF Undone
  <2>3. ToApply(w)'
    BY <2>1 DEF ToApply
  <2>4. \A a : OnItsWay(w, a) = 0 /\ OnItsWay(w, a)' = 0
    BY <2>1 DEF OnItsWay
  <2> QED
    BY <1>0, <1>1, <1>2, <2>1, <2>2, <2>3, <2>4, WorkerMoves
<1>4. CASE ExecWithdraw(w) \/ ExecDeposit(w) \/ Reject(w) \/ Respond(w)
  <2>1. /\ pc[w] # "apply" /\ pc'[w] # "apply"
        /\ taken' = taken /\ balance' = balance /\ req' = req
        /\ \A v \in Workers \ {w} : pc'[v] = pc[v]
    BY <1>0, <1>4 DEF ExecWithdraw, ExecDeposit, Reject, Respond
  <2>2. PICK d \in {0, 1} : taken' - Undone(w)' = taken - Undone(w) + d
    <3>1. Undone(w)' = Undone(w) \/ (Undone(w) = 1 /\ Undone(w)' = 0)
      BY <1>0, <1>4 DEF ExecWithdraw, ExecDeposit, Reject, Respond, Undone
    <3>2. Undone(w) \in {0, 1}
      BY DEF Undone
    <3> QED
      BY <1>0, <2>1, <3>1, <3>2
  <2>3. ToApply(w)'
    BY <2>1 DEF ToApply
  <2>4. \A a : OnItsWay(w, a) = 0 /\ OnItsWay(w, a)' = 0
    BY <2>1 DEF OnItsWay
  <2> QED
    BY <1>0, <1>1, <1>2, <2>1, <2>2, <2>3, <2>4, WorkerMoves
<1>5. CASE Commit(w)
  <2>1. /\ pc[w] = "decide" /\ pc'[w] = "apply" /\ taken' = taken /\ req' = req
        /\ \A v \in Workers \ {w} : pc'[v] = pc[v]
    BY <1>0, <1>5 DEF Commit, Install
  <2>2. /\ ~NoRecipient(req[w]) /\ req[w].type # "OTHER"
        /\ \A a : Effect(req[w], a) \in Int
        /\ balance' = [a \in Accounts |-> balance[a] + Effect(req[w], a)]
    BY <1>5, InstallEffect DEF Commit
  <2>3. taken' - Undone(w)' = taken - Undone(w) + 0
    BY <1>0, <2>1 DEF Undone
  <2>4. ToApply(w)'
    BY <2>1, <2>2 DEF ToApply
  <2>5. ASSUME NEW a \in Index
        PROVE  /\ OnItsWay(w, a) = 0 /\ OnItsWay(w, a)' = Effect(req[w], a)
               /\ Effect(req[w], a) \in Int
               /\ balance'[a] = balance[a] + Effect(req[w], a)
    BY <2>1, <2>2, BalanceAssumption DEF OnItsWay, Index
  <2>6. ASSUME NEW a \in Index
        PROVE  /\ mem'[<<a, 1>>] >= mem[<<a, 1>>]
               /\ mem'[<<a, 1>>] + OnItsWay(w, a)' - OnItsWay(w, a)
                     = mem[<<a, 1>>] + balance'[a] - balance[a]
               /\ mem'[<<a, 1>>] + OnItsWay(w, a)' - OnItsWay(w, a)
                     >= mem[<<a, 1>>] + balance'[a] - balance[a]
    BY <1>2, <2>5
  <2> QED
    BY <1>0, <1>1, <2>1, <2>3, <2>4, <2>6, WorkerMoves
<1> QED
  BY <1>3, <1>4, <1>5

(* applyMemoryUpdate ends: what was on its way has arrived. *)
LEMMA ApplyKeepsMirror ==
    ASSUME Undisturbed, DbInv, TypeOK', BankInv, BankInv', MirrorInv, NEW w \in Workers,
           NEW throws \in BOOLEAN, Mirror(w, throws),
           mpc' = [mpc EXCEPT ![w] = "start"], UNCHANGED <<gen, login>>,
           \A a \in Accounts : mem'[<<a, 0>>] = mem[<<a, 0>>],
           \A a \in Index :
              /\ mem'[<<a, 1>>] \in Nat
              /\ mem'[<<a, 1>>] >= mem[<<a, 1>>] - req[w].amount
              /\ mem'[<<a, 1>>] >= mem[<<a, 1>>] + Effect(req[w], a)
              /\ req[w].amount <= mem[<<a, 1>>] =>
                    mem'[<<a, 1>>] = mem[<<a, 1>>] + Effect(req[w], a)
    PROVE  MirrorInv'
<1>0. /\ TypeOK /\ taken \in Nat /\ balance \in [Accounts -> Int]
      /\ pc \in [Workers -> {"idle", "withdraw", "deposit", "decide", "apply",
                             "respond"}]
      /\ mpc \in [Workers -> MemoryPlaces]
  BY DEF DbInv, TypeOK, BankInv, MemTypeOK
<1>1. /\ pc[w] = "apply" /\ pc'[w] = "respond" /\ mpc'[w] = "start"
      /\ taken' = taken /\ balance' = balance /\ req' = req
      /\ \A v \in Workers \ {w} : pc'[v] = pc[v] /\ mpc'[v] = mpc[v]
  BY <1>0 DEF Mirror, tables, locals
<1>2. req[w] \in Requests /\ req[w].amount \in Nat /\ \A a : Effect(req[w], a) \in Int
  BY <1>1, EffectType DEF BankInv, WorkerOK
<1>3. FirstLoad' /\ ToApply(w)'
  BY <1>1 DEF MirrorInv, FirstLoad, ToApply
<1>4. Undone(w) = 1 /\ taken' - Undone(w)' = taken - Undone(w) + 1
  BY <1>0, <1>1 DEF Undone
<1>5. ASSUME NEW a \in Index
      PROVE  /\ \E r \in Requests : mem'[<<a, 1>>] >= mem[<<a, 1>>] - r.amount
             /\ mem'[<<a, 1>>] + OnItsWay(w, a)' - OnItsWay(w, a)
                   >= mem[<<a, 1>>] + balance'[a] - balance[a]
             /\ NeverShort(a) =>
                   mem'[<<a, 1>>] + OnItsWay(w, a)' - OnItsWay(w, a)
                      = mem[<<a, 1>>] + balance'[a] - balance[a]
  <2>1. OnItsWay(w, a) = Effect(req[w], a) /\ OnItsWay(w, a)' = 0
    BY <1>1 DEF OnItsWay
  <2>2. balance[a] \in Int /\ balance'[a] = balance[a] /\ mem[<<a, 1>>] \in Nat
    BY <1>0, <1>1, BalanceAssumption DEF MirrorInv, FirstLoad, Index
  <2>3. NeverShort(a) => req[w].amount <= mem[<<a, 1>>]
    BY <1>0, <1>2, <1>4, <2>2, FundsSuffice DEF MirrorInv
  <2> QED
    BY <1>2, <2>1, <2>2, <2>3
<1> QED
  BY <1>0, <1>1, <1>3, <1>4, <1>5, WorkerMoves

LEMMA ApplyOneKeepsMirror ==
    ASSUME Undisturbed, DbInv, TypeOK', BankInv, BankInv', MirrorInv, NEW w \in Workers,
           ApplyOne(w)
    PROVE  MirrorInv'
<1> DEFINE r == req[w]
           b == r.account_id
           o == <<b, 1>>
<1>1. /\ mpc[w] = "lock" /\ pc[w] = "apply" /\ Mirror(w, Refused(w))
      /\ mpc' = [mpc EXCEPT ![w] = "start"] /\ UNCHANGED <<gen, login>>
      /\ r \in Requests /\ r.type \notin {"TRANSFER", "OTHER"} /\ Live(acc[w], b)
  BY DEF ApplyOne, session, BankInv, WorkerOK, MirrorInv, ToApply
<1>2. r \in Request /\ b \in Index /\ r.amount \in Nat /\ b \in Accounts
  BY <1>1, RequestsAssumption, BalanceAssumption DEF Undisturbed, Request, Index
<1>3. acc[w] = o /\ o \in Objects /\ mem[o] \in Nat
  BY <1>1, <1>2, LiveIsFirst DEF MirrorInv, FirstLoad, Live
<1>4. /\ r.type = "DEPOSIT" \/ r.type = "WITHDRAW"
      /\ \A a : a # b => Effect(r, a) = 0
      /\ Effect(r, b) = IF r.type = "DEPOSIT" THEN r.amount ELSE -r.amount
  BY <1>1, <1>2 DEF Request, Types, Effect, DepositPart, WithdrawPart, Deposits,
                    Withdraws, DepositRow
<1>5. mem \in [Objects -> Balances]
  BY DEF BankInv, MemTypeOK
<1>6. /\ \A x \in Objects : x # o => mem'[x] = mem[x]
      /\ mem'[o] = IF Refused(w) THEN mem[o]
                   ELSE IF r.type = "DEPOSIT" THEN mem[o] + r.amount
                   ELSE AfterWithdraw(mem[o], r.amount)
  BY <1>3, <1>5 DEF ApplyOne
<1>7. ASSUME NEW a \in Index
      PROVE  mem[<<a, 1>>] \in Nat /\ <<a, 1>> \in Objects /\ a \in Accounts
  BY BalanceAssumption DEF MirrorInv, FirstLoad, Index, Objects, Generations, Undisturbed
<1>8. \A a \in Accounts : mem'[<<a, 0>>] = mem[<<a, 0>>]
  BY <1>6 DEF Objects, Generations, Undisturbed
<1>9. ASSUME NEW a \in Index
      PROVE  /\ mem'[<<a, 1>>] \in Nat
             /\ mem'[<<a, 1>>] >= mem[<<a, 1>>] - r.amount
             /\ mem'[<<a, 1>>] >= mem[<<a, 1>>] + Effect(r, a)
             /\ r.amount <= mem[<<a, 1>>] =>
                   mem'[<<a, 1>>] = mem[<<a, 1>>] + Effect(r, a)
  <2>1. CASE a # b
    BY <1>2, <1>4, <1>6, <1>7, <2>1
  <2>2. CASE a = b
    <3> HIDE DEF r, b
    <3> QED
      BY <1>2, <1>3, <1>4, <1>6, <2>2 DEF AfterWithdraw, Refused, r
  <2> QED
    BY <2>1, <2>2
<1>10. Refused(w) \in BOOLEAN
  BY DEF Refused
<1> HIDE DEF b, o
<1> QED
  BY <1>1, <1>8, <1>9, <1>10, ApplyKeepsMirror

LEMMA ApplyTransferKeepsMirror ==
    ASSUME Undisturbed, DbInv, TypeOK', BankInv, BankInv', MirrorInv, NEW w \in Workers,
           ApplyTransfer(w)
    PROVE  MirrorInv'
<1> DEFINE r == req[w]
           b == r.account_id
           c == r.to_account
           o == <<b, 1>>
           p == <<c, 1>>
<1>1. /\ mpc[w] = "both" /\ pc[w] = "apply" /\ Mirror(w, Refused(w))
      /\ mpc' = [mpc EXCEPT ![w] = "start"] /\ UNCHANGED <<gen, login>>
      /\ r \in Requests /\ r.type = "TRANSFER" /\ ~NoRecipient(r)
      /\ Live(acc[w], b) /\ Live(to[w], c)
  BY DEF ApplyTransfer, session, BankInv, WorkerOK, MirrorInv, ToApply
<1>2. /\ r \in Request /\ b \in Index /\ c \in Index /\ r.amount \in Nat
  BY <1>1, RequestsAssumption DEF Undisturbed, Request, NoRecipient
<1>3. /\ acc[w] = o /\ o \in Objects /\ mem[o] \in Nat
      /\ to[w] = p /\ p \in Objects /\ mem[p] \in Nat
  BY <1>1, <1>2, LiveIsFirst DEF MirrorInv, FirstLoad, Live
<1>4. \A a : Effect(r, a) = (IF c = a THEN r.amount ELSE 0) - (IF b = a THEN r.amount ELSE 0)
  BY <1>1, <1>2 DEF Effect, DepositPart, WithdrawPart, Deposits, Withdraws, DepositRow
<1>5. mem \in [Objects -> Balances]
  BY DEF BankInv, MemTypeOK
<1> DEFINE paid == AfterWithdraw(mem[o], r.amount)
<1>6. CASE Refused(w)
  <2>1. mem' = mem /\ r.amount = 0
    BY <1>2, <1>6 DEF ApplyTransfer, Refused
  <2>2. ASSUME NEW a \in Index
        PROVE  /\ mem'[<<a, 1>>] \in Nat
               /\ mem'[<<a, 1>>] >= mem[<<a, 1>>] - r.amount
               /\ mem'[<<a, 1>>] >= mem[<<a, 1>>] + Effect(r, a)
               /\ mem'[<<a, 1>>] = mem[<<a, 1>>] + Effect(r, a)
    <3>1. mem[<<a, 1>>] \in Nat /\ Effect(r, a) = 0
      BY <1>4, <2>1 DEF MirrorInv, FirstLoad
    <3> QED
      BY <2>1, <3>1
  <2> QED
    BY <1>1, <1>6, <2>1, <2>2, ApplyKeepsMirror
<1>7. CASE ~Refused(w)
  <2>1. paid \in Nat /\ paid >= mem[o] - r.amount
        /\ (r.amount <= mem[o] => paid = mem[o] - r.amount)
    BY <1>2, <1>3 DEF AfterWithdraw
  <2>2. mem' = [[mem EXCEPT ![o] = paid] EXCEPT ![p] = @ + r.amount]
    BY <1>3, <1>7 DEF ApplyTransfer
  <2>3. /\ \A x \in Objects : x \notin {o, p} => mem'[x] = mem[x]
        /\ b = c => mem'[o] = paid + r.amount
        /\ b # c => mem'[o] = paid /\ mem'[p] = mem[p] + r.amount
    <3>1. (b = c => o = p) /\ (b # c => o # p)
      OBVIOUS
    <3> DEFINE m == [mem EXCEPT ![o] = paid]
    <3>2. mem' = [m EXCEPT ![p] = @ + r.amount]
      BY <2>2
    <3>3. DOMAIN m = Objects /\ m[o] = paid /\ \A x \in Objects : x # o => m[x] = mem[x]
      BY <1>3, <1>5
    <3> HIDE DEF r, b, c, o, p, m, paid
    <3>4. mem'[p] = m[p] + r.amount /\ \A x \in Objects : x # p => mem'[x] = m[x]
      BY <1>3, <3>2, <3>3
    <3> QED
      BY <1>3, <3>1, <3>3, <3>4
  <2>4. ASSUME NEW a \in Index
        PROVE  mem[<<a, 1>>] \in Nat /\ <<a, 1>> \in Objects /\ a \in Accounts
    BY BalanceAssumption DEF MirrorInv, FirstLoad, Index, Objects, Generations, Undisturbed
  <2>5. \A a \in Accounts : mem'[<<a, 0>>] = mem[<<a, 0>>]
    BY <2>3 DEF Objects, Generations, Undisturbed
  <2>6. ASSUME NEW a \in Index
        PROVE  /\ mem'[<<a, 1>>] \in Nat
               /\ mem'[<<a, 1>>] >= mem[<<a, 1>>] - r.amount
               /\ mem'[<<a, 1>>] >= mem[<<a, 1>>] + Effect(r, a)
               /\ r.amount <= mem[<<a, 1>>] =>
                     mem'[<<a, 1>>] = mem[<<a, 1>>] + Effect(r, a)
    <3>1. CASE a \notin {b, c}
      <4>1. Effect(r, a) = 0 /\ mem'[<<a, 1>>] = mem[<<a, 1>>]
        BY <1>2, <1>4, <2>3, <2>4, <3>1
      <4> QED
        BY <1>2, <2>4, <4>1
    <3>2. CASE a = b /\ b = c
      <4>1. Effect(r, a) = 0 /\ mem'[<<a, 1>>] = paid + r.amount
        BY <1>2, <1>4, <2>3, <3>2
      <4> HIDE DEF paid
      <4> QED
        BY <1>2, <1>3, <2>1, <3>2, <4>1
    <3>3. CASE a = b /\ b # c
      <4>1. Effect(r, a) = -r.amount /\ mem'[<<a, 1>>] = paid
        BY <1>2, <1>4, <2>3, <3>3
      <4> HIDE DEF paid
      <4> QED
        BY <1>2, <1>3, <2>1, <3>3, <4>1
    <3>4. CASE a = c /\ b # c
      <4>1. Effect(r, a) = r.amount /\ mem'[<<a, 1>>] = mem[<<a, 1>>] + r.amount
        BY <1>2, <1>4, <2>3, <3>4
      <4> QED
        BY <1>2, <1>3, <2>4, <3>4, <4>1
    <3> QED
      BY <3>1, <3>2, <3>3, <3>4
  <2>7. Refused(w) \in BOOLEAN
    BY DEF Refused
  <2> HIDE DEF b, c, o, p
  <2> QED
    BY <1>1, <2>5, <2>6, <2>7, ApplyKeepsMirror
<1> QED
  BY <1>6, <1>7

(* Steps that move neither money nor a request. *)
LEMMA NothingMoves ==
    ASSUME MirrorInv, UNCHANGED <<gen, mem, login, pc, req, taken>>,
           \A a \in Index : balance'[a] = balance[a], \A w \in Workers : ToApply(w)'
    PROVE  MirrorInv'
<1>1. FirstLoad'
  BY DEF MirrorInv, FirstLoad
<1>2. UndoneCount' = UndoneCount
  BY DEF UndoneCount, Undone
<1>3. Spared'
  BY <1>2 DEF MirrorInv, Spared, Ceiling
<1>4. \A a : Mirrored(a)' = Mirrored(a)
  BY DEF Mirrored, Pending, OnItsWay
<1>5. MirrorInStep' /\ MirrorNeverUnderstates'
  BY <1>4 DEF MirrorInv, MirrorInStep, MirrorNeverUnderstates, NeverShort, Index
<1> QED
  BY <1>1, <1>3, <1>5 DEF MirrorInv

LEMMA MemoryStepKeepsMirror ==
    ASSUME Undisturbed, DbInv, TypeOK', BankInv, BankInv', MirrorInv, NEW w \in Workers,
           MemoryStep(w)
    PROVE  MirrorInv'
<1> USE DEF memory, finds, session
<1>0. /\ mpc \in [Workers -> MemoryPlaces] /\ WorkerOK(w) /\ FirstLoad
      /\ \A v \in Workers : ToApply(v)
  BY DEF BankInv, MemTypeOK, MirrorInv
<1>1. ASSUME UNCHANGED <<vars, gen, mem, login>>, NEW place, place # "lock",
             mpc' = [mpc EXCEPT ![w] = place]
      PROVE  MirrorInv'
  <2>1. UNCHANGED <<pc, req, taken, balance>>
    BY <1>1 DEF vars, tables, locals
  <2>2. \A v \in Workers : ToApply(v)'
    BY <1>0, <1>1, <2>1 DEF ToApply
  <2> QED
    BY <1>1, <2>1, <2>2, NothingMoves
<1>2. CASE FindAccount(w)
  <2>1. /\ pc[w] = "apply" /\ req[w].account_id \in Index
    BY <1>0, <1>2 DEF FindAccount, WorkerOK, Undisturbed
  <2>2. Find(req[w].account_id) # NoObject
    BY <1>0, <2>1, FirstIsFound
  <2>3. /\ UNCHANGED <<vars, gen, mem, login>>
        /\ mpc' = [mpc EXCEPT ![w] = IF req[w].type = "TRANSFER" THEN "findTo" ELSE "lock"]
    BY <1>2, <2>2 DEF FindAccount
  <2>4. UNCHANGED <<pc, req, taken, balance>>
    BY <2>3 DEF vars, tables, locals
  <2>5. \A v \in Workers : ToApply(v)'
    BY <1>0, <2>3, <2>4 DEF ToApply
  <2> QED
    BY <2>3, <2>4, <2>5, NothingMoves
<1>3. CASE FindRecipient(w)
  <2>1. /\ pc[w] = "apply" /\ req[w] \in Requests /\ ~NoRecipient(req[w])
        /\ req[w].type = "TRANSFER"
    BY <1>0, <1>3 DEF FindRecipient, WorkerOK, ToApply
  <2>2. req[w].to_account \in Index
    BY <2>1 DEF Undisturbed, NoRecipient
  <2>3. Find(req[w].to_account) # NoObject
    BY <1>0, <2>2, FirstIsFound
  <2>4. UNCHANGED <<vars, gen, mem, login>> /\ mpc' = [mpc EXCEPT ![w] = "first"]
    BY <1>3, <2>3 DEF FindRecipient
  <2> QED
    BY <1>1, <2>4
<1>4. CASE LockFirst(w) \/ LockSecond(w)
  BY <1>1, <1>4 DEF LockFirst, LockSecond
<1>5. CASE FindForBalance(w) /\ UNCHANGED vars
  <2>1. mpc' = [mpc EXCEPT ![w] = "balance"] \/ mpc' = mpc
    BY <1>5 DEF FindForBalance
  <2>2. UNCHANGED <<vars, gen, mem, login>> /\ mpc[w] = "start"
    BY <1>5 DEF FindForBalance
  <2>3. mpc' = mpc => mpc' = [mpc EXCEPT ![w] = "start"]
    BY <1>0, <2>2
  <2> QED
    BY <1>1, <2>1, <2>2, <2>3
<1>6. CASE (FindForBalance(w) \/ ReadBalance(w)) /\ Respond(w)
  <2>1. /\ UNCHANGED <<gen, mem, login>> /\ mpc'[w] # "lock"
        /\ \A v \in Workers \ {w} : mpc'[v] = mpc[v]
    BY <1>0, <1>6 DEF FindForBalance, ReadBalance, Respond
  <2> QED
    BY <1>6, <2>1, DbKeepsMirror
<1>7. /\ FindForBalance(w) => Respond(w) \/ UNCHANGED vars
      /\ ReadBalance(w) => Respond(w)
  BY DEF FindForBalance, ReadBalance
<1> QED
  BY <1>2, <1>3, <1>4, <1>5, <1>6, <1>7, ApplyOneKeepsMirror, ApplyTransferKeepsMirror
     DEF MemoryStep

LEMMA NextMirror ==
    ASSUME Undisturbed, DbInv, DbInv', BankInv, BankInv', LedgerInv, MirrorInv,
           [BankNext]_bankVars
    PROVE  MirrorInv'
<1> USE DEF memory, finds, session
<1>0. TypeOK' /\ login.pc = "idle" /\ \A w \in Workers : ToApply(w)
  BY DEF DbInv, MirrorInv, FirstLoad
<1>1. CASE UNCHANGED <<vars, memory, finds, session>>
  <2>1. UNCHANGED <<gen, mem, login, mpc, pc, req, taken, balance>>
    BY <1>1 DEF vars, tables, locals
  <2> QED
    BY <1>0, <2>1, NothingMoves DEF ToApply
<1>2. CASE Environment
  <2>1. UNCHANGED <<gen, mem, login, mpc>>
    BY <1>2 DEF Environment
  <2>2. ASSUME NEW w \in Workers, Begin(w)
        PROVE  MirrorInv'
    <3>1. mpc'[w] # "lock"
      BY <2>1, <2>2 DEF Begin, BankInv, WorkerOK
    <3> QED
      BY <1>0, <2>1, <2>2, <3>1, DbKeepsMirror
  <2>3. ASSUME NEW w \in Workers,
               CommitInDoubt(w) \/ LoseConnection(w) \/ LoseIdleConnection(w)
        PROVE  FALSE
    BY <2>3 DEF CommitInDoubt, LoseConnection, LoseIdleConnection, Undisturbed
  <2>4. ASSUME NEW a \in Accounts, InsertAccount(a)
        PROVE  MirrorInv'
    <3>1. /\ UNCHANGED <<pc, req, taken>> /\ a \notin rows
          /\ balance' = [balance EXCEPT ![a] = OpeningBalance]
      BY <2>4 DEF InsertAccount, locals
    <3>2. \A b \in Index : balance'[b] = balance[b]
      BY <3>1, BalanceAssumption DEF LedgerInv, Index, DbInv, TypeOK
    <3>3. \A w \in Workers : ToApply(w)'
      BY <1>0, <2>1, <3>1 DEF ToApply
    <3> QED
      BY <2>1, <3>1, <3>2, <3>3, NothingMoves
  <2>5. Exhausted => UNCHANGED vars
    BY DEF Exhausted
  <2> QED
    BY <1>1, <1>2, <2>2, <2>3, <2>4, <2>5 DEF Environment
<1>3. ASSUME NEW w \in Workers, DbStep(w)
      PROVE  MirrorInv'
  <2>1. UNCHANGED <<gen, mem, login, mpc>>
    BY <1>3 DEF DbStep
  <2>2. mpc'[w] # "lock"
    BY <1>3, <2>1 DEF DbStep, ExecWithdraw, ExecDeposit, Reject, Commit, Install,
                      BankInv, WorkerOK
  <2> QED
    BY <1>0, <1>3, <2>1, <2>2, DbKeepsMirror DEF DbStep
<1>4. ASSUME NEW w \in Workers, MemoryStep(w)
      PROVE  MirrorInv'
  BY <1>0, <1>4, MemoryStepKeepsMirror
<1>5. ~LoginStep /\ \A u \in Users : ~LoginStart(u)
  BY <1>0 DEF LoginStep, LoginRead, LoginError, LoginStore, LoginReply, LoginStart,
              Undisturbed, BankInv, LoginOK
<1> QED
  BY <1>1, <1>2, <1>3, <1>4, <1>5 DEF BankNext, bankVars

LEMMA InitMirror ==
    ASSUME Undisturbed, BankInit
    PROVE  MirrorInv
<1> USE DEF BankInit, InitMemory, Init
<1>1. ASSUME NEW a \in Index
      PROVE  /\ gen[Owner[a]] = 1 /\ mem[<<a, 1>>] = InitialBalance[a]
             /\ InitialBalance[a] \in Nat /\ balance[a] = InitialBalance[a]
  <2>1. a \in Accounts /\ Owner[a] \in Users /\ InitialBalance[a] \in Nat
    BY BalanceAssumption, OwnerAssumption DEF Index
  <2>2. <<a, 1>> \in Objects
    BY <2>1 DEF Objects, Generations, Undisturbed
  <2> QED
    BY <2>1, <2>2 DEF Index
<1>2. ASSUME NEW a \in Accounts
      PROVE  mem[<<a, 0>>] = NotLoaded
  <2> DEFINE o == <<a, 0>>
  <2>1. o \in Objects /\ o[2] # 1
    BY DEF Objects, Generations, Undisturbed
  <2> HIDE DEF o
  <2>2. mem[o] = NotLoaded
    BY <2>1
  <2> QED
    BY <2>2 DEF o
<1>3. FirstLoad
  BY <1>1, <1>2 DEF FirstLoad
<1>4. \A w \in Workers : ToApply(w)
  BY DEF ToApply
<1>5. UndoneCount = 0 /\ \A a : Pending(a) = 0
  <2>1. /\ UndoneCount = SumFunction([w \in Workers |-> 0])
        /\ \A a : Pending(a) = SumFunction([w \in Workers |-> 0])
    BY DEF UndoneCount, Undone, Pending, OnItsWay
  <2>2. SumFunction([w \in Workers |-> 0]) = 0
    BY SumOfZeros, FiniteWorkers
  <2> QED
    BY <2>1, <2>2
<1>6. taken = 0
  OBVIOUS
<1> HIDE DEF BankInit, InitMemory, Init
<1>7. Spared
  <2>1. \A m \in Nat : m * (0 - 0) = 0
    OBVIOUS
  <2> QED
    BY <1>1, <1>5, <1>6, <2>1 DEF Spared
<1>8. ASSUME NEW a \in Index
      PROVE  Mirrored(a) = balance[a] /\ balance[a] \in Nat
  <2>1. /\ mem[<<a, gen[Owner[a]]>>] = balance[a] /\ balance[a] \in Nat
        /\ Pending(a) = 0
    BY <1>1, <1>5
  <2> QED
    BY <2>1 DEF Mirrored
<1> QED
  BY <1>3, <1>4, <1>7, <1>8 DEF MirrorInv, MirrorInStep, MirrorNeverUnderstates

LEMMA AlwaysMirrorInv ==
    ASSUME Undisturbed
    PROVE  BankSpec => []MirrorInv
<1>1. BankInit => MirrorInv
  BY InitMirror
<1>2. DbInv /\ DbInv' /\ BankInv /\ BankInv' /\ LedgerInv /\ MirrorInv
        /\ [BankNext]_bankVars => MirrorInv'
  BY NextMirror
<1>3. BankSpec => []LedgerInv
  BY ServerRefinesTransactions, AlwaysLedgerInv, PTL
<1> QED
  BY <1>1, <1>2, <1>3, BankInvHolds, PTL DEF BankSpec

(* While nobody logs in, no connection breaks, no amount is negative and   *)
(* the accounts are those the server has loaded, the mirror of an account  *)
(* that is never short is the committed balance minus what is on its way,  *)
(* whatever the order in which the workers apply their updates.            *)
THEOREM MirrorStaysInStep ==
    ASSUME Undisturbed
    PROVE  BankSpec => []MirrorInStep
BY AlwaysMirrorInv, PTL DEF MirrorInv

(* Under the same conditions memory never shows less than the tables, not  *)
(* even for an account whose withdrawals withdrawUnlocked refuses.         *)
THEOREM MemoryNeverUnderstates ==
    ASSUME Undisturbed
    PROVE  BankSpec => []MirrorNeverUnderstates
BY AlwaysMirrorInv, PTL DEF MirrorInv
=============================================================================
