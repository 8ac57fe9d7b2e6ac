# A TLA+ model of the concurrent banking system

The repository is a banking server in C++20 (`backend/`) and a Qt client
(`frontend/Premiumbank/`). This directory models the server, from the WebSocket
controllers to the tables and back to memory, and the client that talks to it. It
checks the models with TLC on small instances and proves their safety properties
(all but one) and all refinements with TLAPS, for every number of workers, accounts,
requests, users, buckets and slots. Paths below are relative to the repository; `include/` is
`backend/include/`.

## 1. The system

### Components

| Component | State | Operations |
|---|---|---|
| `Load_DB::transaction` (`backend/src/database_loader.cpp`) | rows of `Account_Table` and `Transaction_Table` (PostgreSQL), the worker's own connection | one transaction block per deposit, withdrawal or transfer: UPDATEs, check of `affected_rows()`, INSERTs, commit, then `Bank::applyMemoryUpdate` |
| `Bank`, `Account` (`include/bank.hpp`, `account.hpp`) | account index (filled once), `Account` objects with a mutex each | `findAccount`, `applyMemoryUpdate`, `getBalance` |
| `Load_DB::login`, `store_users` (`include/database_loader.hpp`) | `bank_db`: users with their accounts; `connectionMutex_` | login (verify, read if not cached), refresh (read always), replace the user's objects, reply |
| `Load_DB::create_account` | one shared connection | insert user and account, retry on a colliding account number, commit |
| `WorkerPool` (`include/worker_pool.hpp`) | threads, one connection per transaction worker | loops around `pop()`; shutdown and join |
| `RequestQueue`, `circular_queue` (`include/request_queue.hpp`) | ring, mutex, condition variable, `shuttingDown_` | `push`, `pop`, `shutdown`, `notifyAll` |
| `ResponseQueue` (`include/response_queue.hpp`) | unbounded queue, mutex, condition variable | `push`, `pop`, `shutdown`; the server never pops |
| `HashTable` (`include/hashtable.hpp`) | buckets with a mutex each, atomic count | `insert`, `find`, `remove`, `getAll`, `clear` |
| WebSocket controllers (`include/web_socket_controllers.hpp`) | pointers to the queues and the bank | parse a message, push it to a queue or call `create_account` at once, send the admin snapshot |
| `FraudDetector` (`include/fraud_detector.hpp`) | transfer graph | build the graph from loaded users, depth-first search for plausible cycles |
| `BackendClient` (`frontend/Premiumbank/BackendClient.cpp`) | three sockets, cached account and balance, account of the last request | login, refresh, logout, send/deposit/withdraw, create account |
| stress test (`backend/src/stress_test.cpp`) | five producers, response counter | push transfers, wait for as many responses, compare sums |

### How they interact

A controller pushes a parsed request into a `RequestQueue`. A worker pops it.
A transaction worker runs `transaction()` on its own connection, and, after the
commit and outside of any database lock, updates the `Account` objects in
memory, sends the answer on the request's WebSocket, reads the balance back and
pushes a `TransactionResponse`. Login workers serialise on `connectionMutex_`; a
refresh or a first login reads the tables and puts a *new* `User` with *new*
`Account` objects into `bank_db`, while transaction workers may still hold
`shared_ptr`s to the old ones. `create_account` and the admin snapshot run on the
two event loop threads, beside all of that and without `connectionMutex_`. The
client correlates replies with requests by socket and order only.

### What is hard

* Several blocks update the same rows; a transfer needs two row locks, then two
  mutexes. Lock order is by account id in both places.
* Memory is a mirror written after the commit: in any order, by any worker, into
  objects that a refresh may replace at any moment.
* Connections break: inside a block, during COMMIT, or between two blocks.
  Transaction workers never reconnect, a login opens a connection of its own, and
  `create_account` may replace one that another thread has a block on.
* Queue at its limit, wakeups of several waiting workers, shutdown with work left,
  a test that counts responses to know when all work is done.
* Replies that overtake one another, or arrive after a logout.
* Reading while others write: the join that fills memory, the bucket-by-bucket
  snapshot, the two places that hold the login status.

### What correctness means, per component

* *transaction()*: a request is posted as a whole, once, or not at all; nobody
  overdraws an account by paying from it; no update is lost; no cycle of row locks;
  the answer does not contradict the tables; the ledger explains the balances.
* *Bank*: mutexes are not left locked and never waited for in a cycle; memory
  follows the committed balances.
* *login, store_users*: always answered; memory groups accounts and transactions
  as the tables do; table and memory agree on who is on line.
* *create_account*: a user and the account are stored together or not at all; the
  answer is true; everyone is answered; no block is left behind on the connection;
  collisions are retried; an existing user may add an account.
* *RequestQueue*: a bounded FIFO; no lost wakeup; drained before workers leave.
* *stress test*: when it has its responses, all work is done; it ends.
* *HashTable*: a snapshot misses nobody who was there, and lists nobody twice.
* *FraudDetector*: flags exactly the circular flows its parameters describe.
* *BackendClient*: shows only balances the server has had in memory for its account;
  is understood by the server; hears of every message; is logged out after a logout.

## 2. Modules

| Module | Models |
|---|---|
| `TransactionRequest` | a request, the rows its statements name, what they add, the rows of `Transaction_Table` it leaves (constants `Accounts`, `Requests`) |
| `AtomicBank` | the abstract specification: whole requests posted one at a time, accounts opened |
| `DbTransaction` | `Load_DB::transaction` as run by the transaction workers, PostgreSQL below it |
| `DbTransactionProofs` | the TLAPS proofs about `DbTransaction` |
| `BankServer` | `DbTransaction` composed with `Bank`, `Account` and `login`/`store_users` |
| `BankServerProofs` | the proofs about `BankServer`, on top of those about `DbTransaction` |
| `Registry` | the abstract specification of `create_account`: users come with an account, numbers are unique |
| `CreateAccount` | `Load_DB::create_account` on threads that share one connection |
| `CreateAccountProofs` | the proofs about it |
| `CircularQueue` | the ring as pure operators |
| `CircularQueueProofs` | lemmas: the ring's operators are those of a sequence |
| `BoundedFifo` | the abstract specification of the queue |
| `RequestQueue` | the monitor around the ring and the worker loops that use it |
| `Pipeline` | `RequestQueue` composed with `ResponseQueue`, `WorkerPool`'s destructor and the two programs around them, `bank_server` and `stress_test` |
| `PipelineProofs` | the proofs about `RequestQueue` and `Pipeline` |
| `Controllers` | the parsers of the controllers as operators on JSON objects |
| `BankClient` | `BackendClient` composed with its sockets, the controllers, the rings and the workers |
| `BankClientProofs` | the proofs about `Controllers` and `BankClient` |
| `HashTable` | `insert`, `find`, `getAll` as pure operators |
| `Reload` | the joined query, `store_users`, `login`'s part in it, the admin snapshot, a restart; composed with `HashTable` and `TransactionRequest` |
| `ReloadProofs` | the proofs about `HashTable` and `Reload` |
| `FraudDetector` | `buildGraph`, `detectCycles` (recursive), and the definition of what is to be flagged |
| `FraudReport` | the detector on what `Reload` has loaded |
| `Induction` | induction over natural numbers and finite sets, and the laws of sums, for the proof modules |
| `MC...` | small instances of these for TLC |

### DbTransaction

`pc[w]` is the place of worker `w` in `transaction()`: `idle` (in `pop()`),
`withdraw`, `deposit` (the next UPDATE), `decide` (both executed), `apply`
(committed, memory not yet updated), `respond` (`transaction()` has returned).
One action per step of the code: `Begin`, `ExecWithdraw`, `ExecDeposit`,
`Reject`, `Commit`, `Mirror`, `Respond`; failures are `CommitInDoubt`,
`LoseConnection` and `LoseIdleConnection`; `InsertAccount` is what
`create_account` commits. Only `Unreliable` workers lose connections, which
bounds the failures of an instance; the proofs allow all of them.

PostgreSQL is external: `Visible`, `WriteRow` and `ReleaseRows` say what the
statements rely on. An UPDATE sees the last committed version of a row or its
own block's; if the WHERE clause holds it waits until no other block has written
the row, evaluates the clause again and locks the row until the block ends. The
new version is kept as a *value* (`version[w][a]`), not as a difference, so that
a lost update would show. `committed` is a history variable.

Abstractions: `actual_balance` and `available_balance` move together and
`hold_amount` never, so one number stands for the three; remarks and times are
left out; amounts are integers of either sign, because only two of the three client
pages insist on a positive one and the server's only check, in `Account`, comes after
the commit; 64-bit overflow of a balance is not modelled.

A deposit or a transfer of a negative amount passes the funds check of nobody and
takes money from the account it credits. `NoOverdraft` therefore says what the WHERE
clause does promise: a balance is below zero only by what such requests, by the rows
they left in `Transaction_Table`, have taken (`NegativeCredits`). Where the amounts
are positive that is `balance[a] >= 0`.

### BankServer

The `apply` step is taken apart into the steps of `applyMemoryUpdate` and the
`respond` step into those of `getBalance`, each one stretch of code between two
lock operations (`mpc[w]`). `Find` is one step:
of the three lookups `findAccount` makes, the index never changes and neither
does the set of accounts of a `User` object, so the lookup in `bank_db` alone
decides which object is found. An `Account` object is
`<<account id, generation>>`; `store_users` creates the next generation of a
user's accounts. A default pthread mutex blocks a thread that locks it twice.
Login is `LoginStart`, `LoginRead`, `LoginStore`, `LoginReply` and `LoginError`;
it holds `connectionMutex_` throughout, so one record suffices for both login
workers. A login that fails earlier, by a wrong password or by an exception,
changes nothing and ends in `LoginStart`. `login_status` and the grouping of
result rows are in `Reload`.

`ApplyTransfer` has a branch for an amount that is not positive: `withdrawUnlocked`
throws past the two unlocks, and the mutexes stay with a worker that goes on.
`LocksAccountedFor` takes that into account: a locked mutex belongs to a worker
between its locks and its unlocks, or to an account with a *recorded* transfer of a
non-positive amount. Nothing else leaves a lock behind, neither an unknown recipient
nor an object replaced by a refresh nor a worker that waits.

### CreateAccount

`cpc[t]` is the place of thread `t` in `create_account()`: `is_open` and
`recheck` (the two looks at the connection), `establish`, `work` (the
constructor of `pqxx::work`), `verify`, `register`, `insert` (one turn of the
retry loop), `commit`, and `unwind` (the catch block). `connId` tells the
connection object a block was opened on from the one `connect_database` points to
now: when they differ, the block refers to a destroyed object, which is undefined
behaviour; the model then lets the process go down or the call end in ERROR.
Two threads in the constructor at once are treated alike. A commit that fails may
have taken place. `pepper` is the environment variable without which passwords
can neither be checked nor stored. pqxx and PostgreSQL are external: one block
per connection, an aborted block fails all its later statements, a sequence is
not rolled back.

### RequestQueue and Pipeline

Every method holds `mutex_` except while it waits, so it is one action; `pop()`
is split where `pthread_cond_wait` gives the mutex up. A worker is in `enter`
(about to take the mutex), `waiting`, `woken` (must take the mutex again and
test), `busy` or `exited`. Spurious wakeups are possible at any time.

`Pipeline` adds the response a worker pushes for every request (`Respond`) and
the thread that destroys the pool. In `bank_server` (`program = "server"`) that
may happen at any time; in `stress_test`, `main` joins the producers
(`ProducersJoined`), takes one response per submitted request (`Drain`, which
waits as `ResponseQueue::pop` does) and destroys the pool. The content of a
response is left out.

### Controllers and BankClient

A JSON object is a function from member names to values with a kind, so that
`isMember`, `isInt`, `isString` and `isNull` mean what they mean in jsoncpp; the
parsers return the request in a set, or the empty set. Every message of the
client carries, beside its JSON, the request it *means* (`meant`), which only
`ClientAndServerAgree` looks at.

`cache` has the members of `BackendClient`, `session` what its pages keep
(`currentUsername`, the page, whether the login button waits); the pages are
external and taken from `LoginPage.qml`, `DashboardPage.qml`,
`SendMoneyPage.qml` and `AdminPanel.qml`. One action per operation (`login`,
`refresh`, `logout`, `createAccount`, `sendMoney`, `adminTransaction`) and one
operator per slot (`onLoginMessage`, `onTransactionMessage`,
`onAccountMessage`). `HandleOther` is a message of another program, well formed or
not. A `Flaky` socket may take its time, break or never open; nobody reopens it.

The server side is `Handle` (a controller) and the workers. A login or refresh is
`PopRequest`, `ReadAccounts`, `StoreAccounts` and `CompleteLogin`, under
`connectionMutex_`; a transaction `PopRequest`, `CommitTransaction`,
`ApplyTransaction` and `GetBalance`. An account has a balance in the database
(`balance`) and one in the `Account` object in `bank_db` (`mem`), which the commit and
the update of memory change at different times and a refresh replaces by what it has
read; a login reply carries the second, as `login()` does, and no account at all for a
user without one. `had` is the history of `mem`. A mutex is modelled only when it will
never be unlocked (`locked`): after a transfer of nothing, or when a transfer to
oneself, which `SendMoneyPage` does not exclude, waits for the mutex it has just
locked. Whoever needs such a mutex hangs (`LoginHangs`, `TransactionHangs`,
`GetBalance`); a refresh puts a fresh `Account` in its place. What `applyMemoryUpdate`
finds and locks is one step here, the interleavings inside it are `BankServer`'s.

The controllers' `SERVER_ERROR` and `SERVER_BUSY` are left out: the pointers are set
before the event loop runs, and the pool is not shut down while a client is looked at.
A clean close of the login socket, after which Qt emits `disconnected` without
`errorOccurred`, is left out, too: the server never closes a socket.

### HashTable, Reload, FraudDetector

A table is a function from buckets to sequences of entries. `insert` and `find`
hold one mutex throughout and are used inside one step; `getAll` on `bank_db` is
a step per bucket (`CopyBucket`) in the admin snapshot, and an operator where
nobody else uses the table.

`Reload` keeps the tables (`numUsers`, `owner`, `txns`, `online`) and evaluates
the query as it is written: `Joined` has the keys of the two LEFT JOINs, `OrderBy`
puts them in the order of the ORDER BY clause, `Row` reads the columns. The
constructor's query is `Query(Users)`, that of a login `Query({u})`. `store_users`
runs `StoreRow` over the result (`AfterRows[i]` is what it has after `i` rows),
including the moved-from tables it replaces. `BeginLogin`,
`ReadRows` and `FinishLogin` are the stretches of `login` between which
transactions commit, accounts are opened and snapshots are taken. A login may end in
ERROR after its commit: `LoginInDoubt` is a commit in doubt that took place,
`ReadFails` a query that throws. `grouped` and `login.saw` are history variables, what
the tables said when they were read, and so is `doubted`, the loaded users whose table
row a login in doubt has changed; a login or refresh that succeeds, and a restart,
settle the matter.

`FraudReport` is `fraud_test.cpp`: the detector on a fresh load.
`findCyclesFrom` follows the C++ search edge by edge; `SuspiciousWalks` says
without a search which walks are to be flagged. Timestamps are numbers; ratios
are compared by multiplication.

## 3. Runs

| Run | Instance | Shows |
|---|---|---|
| `db` | 2 workers (one may lose its connection), 3 accounts of which one appears later, 12 requests covering every path, amounts of 0 and -2 among them, 3 popped in all | `TypeOK`, `NoOverdraft`, `NoLostUpdate`, `WaitChainAscends`, `AnswerIsTrue`, `LedgerExplainsBalance`, and refinement of `AtomicBank` |
| `mirror` | 3 workers, 2 accounts, one that can pay for everything and one that is empty at first, a transfer to oneself and one of 0 among the requests | `MirrorInStep`: the first account's mirror is exact up to updates on their way; `MirrorNeverUnderstates`: any mirror errs upwards only; `LocksAccountedFor` |
| `bank_login` | 2 workers, a third account unknown to the index, one login or refresh, a breaking connection, a deposit of 0 | `BankTypeOK`, `NoMutexDeadlock`, `EveryRequestAnswered`, `EveryLoginAnswered` |
| `queue` | ring of 2 slots, 4 requests, 3 workers, both programs | `PTypeOK`, `NoLostWakeup`, `DrainedBeforeExit`, `DrainedMeansProcessed`, refinement of `BoundedFifo`, `QueuedIsDelivered`, `ShutdownEnds`, `StressTestEnds` |
| `create` | 2 threads, 3 requests, 3 numbers of which one is taken, 2 attempts, 2 failures | `CTypeOK`, `CreationAnswerIsTrue`, `NoAbandonedBlock`, refinement of `Registry`, `EveryCreationAnswered` |
| `client` | a user with 2 accounts and one with none, 2 login workers, 1 transaction worker, rings of 1 slot, a login socket that breaks, 3 clicks, or 2 and a foreign message | `ClientTypeOK`, `CacheWasTrue`, `ClientAndServerAgree`, `EverySentIsHeard`, `LoginButtonComesBack` |
| `load` | 3 users (one without an account), up to 3 accounts, 2 buckets, 3 transactions, logins or refreshes, logins in doubt among them, 3 detectors | `LoadedIsGrouping`, `LoginStatusAgrees`, `SnapshotIsRegular`, `FlaggedExactly` |

Five more runs end in a violation, each a statement of the repository that the
code does not keep:

| Run | Property | What happens |
|---|---|---|
| `mirror_order` | `MirrorAtRest` | a withdrawal reaches memory before the deposit that made it affordable; its refusal is ignored |
| `bank_self` | `NoMutexDeadlock` | a transfer to oneself locks one mutex twice |
| `queue_full` | `AcceptedIsKept` | `push()` answers true for a dropped request |
| `client_logout` | `LogoutSticks` | the reply to a refresh arrives after `logout()` and puts the account back |
| `fraud_planted` | `PlantedCycleFlagged` | the cycle `fraud_test.cpp` plants is missed when its first payer is not its least account |

`MirrorAtRest` is stated when all workers and the login worker are idle, which
is when the stress test compares memory with the database. The passing runs say
what remains true of the mirror: `mirror` has no login and no unknown recipient.

Further facts the models show. Where one goes against a sentence of the repository,
the entry says so:

* A refresh between a commit and its update of memory reads the new balance, and
  the amount is then applied again; or the update goes to an object nobody reads
  any more. A transfer to an account created after startup leaves the payer's
  balance in memory as it was. Both break the same sentence as `mirror_order`, and a
  login reply passes such a balance on to the client: `CacheWasTrue` says that the
  balance on display is one memory has had for the account, not one the account has
  had.
* A deposit of 0, which `AdminPanel.qml` does not exclude, is committed and
  logged, and then answered with ERROR, because `Account` refuses it. Amounts that
  are not positive are one of the two exceptions in `AnswerIsTrue`; the other is a
  lost connection.
* A deposit of a negative amount is committed and recorded as well, although `Account`
  says "Deposit amount must be positive" (`account.hpp:188`): neither `AdminPanel.qml`
  (lines 136-137) nor the parser nor the UPDATE looks at the sign. It takes money from
  the account past the funds check; `NoOverdraft` says so.
* A transfer of 0 or less leaves both mutexes locked (`bank.hpp:92` throws between lock
  and unlock), and its worker waits in `getBalance` for a mutex it holds: a second way
  to break the promise of no deadlock that `bank_self` is about. `SendMoneyPage` never
  sends one; the server accepts it. `LocksAccountedFor` says that there is no third
  way to leave a mutex behind.
* A user found in `bank_db` is never verified by `create_account`, so a user who
  is loaded cannot add an account, whatever the password, although
  `BackendClient.cpp:163-165` sends `user_id` for "an existing user adding another
  account".
* A collision of account numbers aborts the block, so the further turns of the
  retry loop fail and the request ends in "Account creation failed", although the
  comment at `database_loader.hpp:439` says "will retry".
* A login whose commit is in doubt leaves a loaded user on line in the table and off
  line in memory until the next login or refresh: the exception in
  `LoginStatusAgrees`. Its client has heard ERROR.
* A request that makes its worker hang takes the worker out of the pool for good. The
  client hears nothing of a transfer to oneself, although it is committed; a later
  transaction or login that needs the same mutex hangs as well. Server-side that is
  `bank_self`.
* Two `create_account` requests that overlap may end one of them in ERROR; a
  thread that reconnects may destroy the connection under the other's block.
* The comment at `BackendClient.cpp:360` expects the balance in every reply to a
  transaction; the server sends a plain "SUCCESS", so a transaction never changes
  the balance on display before the next refresh. `CacheWasTrue` holds because of
  that: with the balance in the reply, the account of the *last* request would be
  credited with the reply to an earlier one (its mutant shows that).
* A message the full ring drops is never answered and blocks the stress test for
  ever (the exception in `StressTestEnds`). With a worker of the pool that hangs and
  a socket that breaks it makes the exceptions in `EverySentIsHeard` and
  `LoginButtonComesBack`.

**Bounds.** `MaxRequests` (popped requests) and `MaxLogins` bound a behaviour of
`BankServer`; `Exhausted` lets the bounded system stand still, so that TLC's
deadlock check still finds workers that wait for one another. Two workers make
every pair of conflicting blocks meet; three popped requests let a worker come
back after a failure or meet a change made by two others. Longer rings of waiting
workers are covered by the theorems `NoRowDeadlock`, for rows, and
`MutexesDoNotDeadlock`, for mutexes. Balances are chosen such that each withdrawal is
affordable in some interleavings only. In `create`, two failures are what it
takes for both threads to find the connection closed and one to replace it under
the other; three requests let a thread come back to what an earlier call left; the
server makes 5 attempts, the instance 2, as all attempts after the first fail in
the same way. In `client`, three clicks suffice for login, refresh and logout
with replies under way, for a login and two transactions, or for a login and a
transfer to oneself that the next message meets; the foreign message is the one that
fills a ring or leaves a mutex locked. Balances of the two
accounts cannot be mistaken for one another within the bounds. In `load`, three
events give circles of up to three hops, and every mix of transactions and logins
between a read and its store. Bounded requests end, so `create` and `client`
have no deadlock check: standing still is what they do when everyone has been
answered, and the liveness properties exclude standing still before. Nor has
`mirror`, where workers do wait for ever.

**Fairness.** `FairBankSpec` assumes that a transaction worker that can take a
step takes one, and the same of the login thread; `PFairness` that a worker
that can run does, and so do the producers and the main thread of `stress_test`;
`CAFairness` that a thread inside `create_account()` goes on; `BCFairness` that
messages under way are delivered and threads that have work do it (one weak
fairness condition for all of them is enough, since there are finitely many
requests). These are threads of one process under a preemptive
scheduler, and TCP connections that are up. Weak fairness is enough although
workers compete for rows and mutexes, because the number of requests is bounded,
so that competition ends; an unbounded stream would need fair locks, which neither
PostgreSQL's lock queue (fair in practice) nor pthread mutexes (not fair) are
assumed to be. No client has to send anything, no connection has to break or
open, no thread has to wake by itself and the server's pool need not be
destroyed.

## 4. Proofs

Every theorem holds for all values of the constants that satisfy the named
assumptions of the modules: account and user ids are positive, the values that
stand for "none" are not members of the sets they are added to, initial balances
are natural numbers, capacities are positive, the two pools of workers are
disjoint, and threads, workers, requests in a run of the pipeline and accounts
at startup are finite in number (the counting arguments need that).

| Module | Theorem | States |
|---|---|---|
| `DbTransactionProofs` | `TypeCorrect` | `Spec => []TypeOK` |
| | `NeverOverdrawn` | `Spec => []NoOverdraft` |
| | `UpdatesAreNotLost` | `Spec => []NoLostUpdate` |
| | `NoRowDeadlock` | `Spec => []WaitChainAscends` |
| | `AnswersAreTrue` | `Spec => []AnswerIsTrue` |
| | `BlocksAreAtomic` | `Spec => RefinesAtomicBank` |
| | `HistoryExplainsBalances` | `Spec => []LedgerExplainsBalance` |
| `BankServerProofs` | `ServerRefinesTransactions` | `BankSpec => Spec` |
| | `ServerTypes` | `BankSpec => []BankTypeOK` |
| | `LocksAreExplained` | `BankSpec => []LocksAccountedFor` |
| | `MutexesDoNotDeadlock` | `BankSpec => []NoMutexDeadlock`, if `PositiveTransfers` and `DistinctParties` |
| | `MirrorStaysInStep` | `BankSpec => []MirrorInStep`, if `Undisturbed` |
| | `MemoryNeverUnderstates` | `BankSpec => []MirrorNeverUnderstates`, if `Undisturbed` |
| `PipelineProofs` | `PipelineTypes` | `PSpec => []PTypeOK` |
| | `NoWakeupIsLost` | `PSpec => []NoLostWakeup` |
| | `WorkersDrainBeforeExit` | `PSpec => []DrainedBeforeExit` |
| | `StressTestCountsRight` | `PSpec => []DrainedMeansProcessed` |
| | `QueueRefinesFifo` | `PSpec => RefinesFifo` |
| `CreateAccountProofs` | `CreateAccountTypes` | `CASpec => []CTypeOK` |
| | `BlocksAreClosed` | `CASpec => []NoAbandonedBlock` |
| | `CreationAnswers` | `CASpec => []CreationAnswerIsTrue` |
| | `CreateAccountRefinesRegistry` | `CASpec => RefinesRegistry` |
| `BankClientProofs` | `ClientTypes` | `BCSpec => []ClientTypeOK` |
| | `CacheIsTrue` | `BCSpec => []CacheWasTrue` |
| | `ProtocolAgrees` | `BCSpec => []ClientAndServerAgree` |
| `ReloadProofs` | `LoadsAreGroupings` | `RLSpec => []LoadedIsGrouping` |
| | `StatusAgrees` | `RLSpec => []LoginStatusAgrees` |
| | `SnapshotsAreRegular` | `RLSpec => []SnapshotIsRegular` |

### Induction

Several properties compare a value with a sum over workers or ledger rows, or with
what a loop has built after `i` rows. The provers cannot instantiate the library's
induction theorems, which have an operator as a parameter, so `Induction` states
induction with a *set* for the predicate: `NaturalInduction` for a set of numbers,
`SubsetInduction` for a set of subsets of a finite set, both from the
well-foundedness of finite sets. From the second follow the laws of the community
modules' `SumFunction` and `SumFunctionOnSet`: they are what their definition says
(that the recursive function in it exists has to be shown first), an element can be
taken out, changing one term changes the sum by the difference, and the order in
which the definition picks elements does not matter. The same argument shows that
`AfterRows` exists and unfolds (`AfterRowsUnfold`).

### DbTransaction

The inductive invariant is `DbInv == TypeOK /\ Control /\ NoLostUpdate /\
Funded`. `TypeOK` alone is not inductive: that an appended ledger row is
well formed needs to know that a worker inside a block has a request with a
recipient. `Control` says that, and which statement has been executed at which
place (`BlockShape`): the statement about to be executed has not been, and the
one before it was on the lower account id. `Funded` says that a version a withdraw
statement has written is not negative; what a commit installs is a version computed
earlier, and `NoLostUpdate` makes it the committed balance plus the request's effect,
since nobody else has changed the row. From `DbInv`:

* `NeverOverdrawn`: a commit that pays leaves its payer with the funded version, and
  whatever else it takes from an account is a negative credit that its ledger rows
  record (`RowsRecordDebt`, `PostKeepsSolvent`); the sum over a longer history is the
  old sum plus the new row's (`DebtAdds`). Nothing is assumed of the amounts.
* `NoRowDeadlock`: a worker that waits and holds a row has executed its first
  statement, and `BlockShape` orders the two rows;
* `AnswersAreTrue`: its own small induction over `reply`, `committed` and
  `connected`;
* `BlocksAreAtomic`: at `decide` with all rows affected, `Visible` is the
  committed balance plus `Effect` of the whole request on every row
  (`InstallPosts`), so `Commit` and `CommitInDoubt` are `Post` steps,
  `InsertAccount` is an `Open` step and everything else stutters;
* `HistoryExplainsBalances`: the rows a request leaves move exactly its `Effect` on
  each account (`RowsRecordEffect`, by cases of the request's type), so that what
  a commit installs adds the same amount to the balance and to the sum over the
  ledger. `LedgerInv` adds that an account that is not there yet has a balance of
  0, and hence a history that adds up to 0 when it is inserted.

### BankServer

Each step of the server is a step of `DbTransaction` or leaves its variables
alone, so the theorems above hold of the server as well (`TablesOfTheServer`).
`BankInv` adds which `Account` objects a worker has found for its request and
that these were loaded once (`Live`): a login replaces an object in `bank_db`, and
the worker that holds the old one must still find a balance in it. Generations do
not run out, because every stored login was counted before (`LoginOK`).

`LocksAreExplained` holds for all requests: `TransfersRecorded`, that a transfer
being applied is in `Transaction_Table`, is what turns a mutex left behind into one
the history accounts for. `NoMutexDeadlock` is false for requests the server accepts,
and the proof shows what exactly it rests on: `PositiveTransfers` (an exception jumps
over the unlocks otherwise) and `DistinctParties` (the run `bank_self`).
`SendMoneyPage` insists on the first; the instance of `bank_login`
satisfies both. Under the first nothing is ever refused (`NothingRefused`), so that a
holder is between its own locks; and of workers that wait for one another, those that hold something hold the
lower of their two accounts and wait for the higher: the one among them that waits
for the highest id waits for nobody (`OrderPreventsDeadlock`). That there is a
highest one is shown from the well-foundedness of the subsets of a finite set.

The mirror follows the tables under `Undisturbed` only, and each of its parts is
needed: a login replaces `Account` objects by what it has read, so that an update
is counted twice or never; a broken connection leaves a commit in doubt, which is
never applied to memory; an account opened after startup is not in the index, and a
transfer to it ends before the payer is debited; a negative amount is committed and
`Account` refuses it. The instance of `mirror` satisfies
`Undisturbed`. Neither `PositiveTransfers` nor `DistinctParties` is needed: a worker
that is stuck keeps its update on its way. `MirrorInv` adds to the two
properties what makes them inductive. `FirstLoad` says that the objects of the
first load are the only ones, hence that a worker has found the object everybody
reads. `ToApply` says that what remains to be applied is well formed.
`Spared` is the reason why `withdrawUnlocked` never refuses on an account that is
`NeverShort`: the balance in memory has lost at most the largest amount times the
number of requests that are through, and the request about to be applied is not
one of them (`UndoneCount`, a sum over workers). A commit moves an amount from
nowhere to "on its way" and into `balance`, an update moves it from "on its way"
into memory, and a refused withdrawal only takes a negative amount off the way,
which is why `MirrorNeverUnderstates` needs no `NeverShort`.

### The ring, RequestQueue and Pipeline

`CircularQueueProofs` has the lemmas: for every capacity, wrapped around or not,
`push`, `pop` and `front` on `head`, `tail` and the array are `Append`, `Tail` and
`Head` on `Contents`; a push on a full ring changes nothing; a ring that becomes
empty is reset. The invariant of the pipeline is `PInv`, a conjunction of

* `RQInv`: the types; `OnePlace` (a request is in the ring once or was handed out
  once); `NoLostWakeup`; `DrainedBeforeExit`. `NoLostWakeup` is inductive only
  because it counts: a push adds a request and wakes a sleeper if there is one;
  a pop removes a request and a worker that is awake stays awake; a worker goes
  to sleep only when it has found the ring empty;
* `Accounted`: requests handed out = responses taken + responses queued + busy
  workers. With `OnePlace`, a main thread that has taken as many responses as
  there are requests knows that all were handed out and nobody is busy, which is
  `DrainedMeansProcessed`.

`QueueRefinesFifo` maps `Contents(queue_)` to the abstract queue; the steps of the
monitor that only move workers stutter.

### CreateAccount

`CAInv` ties the block on the shared connection to a thread: a thread inside its
block whose connection object is still there owns the block, and `Rows` says what
the block holds at each place (nothing at `verify`, the new user after
`register`, user and account at `commit`). A thread whose connection was replaced
owns nothing and can only fail. `FreshIds` says that no two threads have drawn
the same user id; `Counters`, that the ids drawn and those still to be drawn fit
the bound, which is a cardinality argument over the threads that have not
registered yet. A commit then adds a user together with an account under a number
nobody has, which is a step of `Registry`.

### Controllers and BankClient

Four lemmas say that the parsers read back what the client writes, for every id,
amount and type (`LoginIsRead`, `RefreshIsRead`, `CreationIsRead`,
`TransactionIsRead`); `ProtocolAgrees` follows as soon as the sockets carry
nothing but such messages. `ClientInv` has the types, among them that the login
socket carries texts and login replies whose balance memory has had for the account
they name, and the other two nothing but texts. `mem[a] \in had[a]` is part of
them, so that a reply made from memory is such a reply, however far memory is from the
tables; `Truthful(cache, had)` carries it into the client's cache, which is
`CacheIsTrue`. `RepliesAreOwed` is needed for the bounds in `ClientTypeOK`: a reply carries no
number, so that a reply is expected for each one delivered is a matter of
counting. On a socket that is not down, the messages and replies on the wire, the
client's entries in the ring and its requests in workers' hands together are at
most what was sent and not answered; a socket that breaks loses what is on the
wire, and requests of a client that is gone are answered to nobody.

### HashTable and Reload

Three layers of lemmas lead to `ReloadInv`:

* The table. `IsTable`: each entry is in the bucket of its key, and no bucket has a
  key twice. `insert` keeps that and replaces or adds exactly one entry
  (`InsertsEntry`), `find` returns the value of the one entry there is
  (`FindsEntry`).
* `store_users`. Its result is right for any `Regular` sequence of rows: those of a
  user are together, so are those of an account, an account has one user and a
  transaction one content. `SoFar` says what the two tables under construction and
  `bank_db` hold after `n` rows: the transactions of the account that is still
  open, the closed accounts of the user who is still open, and, for every closed
  user, what the rows say. `RowStored` carries it from one row to the next, with
  the cases of a row that closes nothing, an account, a user, or both;
  `StoresUsers` reads it off after the last row.
* The query. The ORDER BY clause is a strict total order on the joined keys
  (`BeforeIsOrder`), so ranks are a bijection to the positions (`RanksOrder`,
  `OrderByOrders`), and a sequence sorted by user and account has them together:
  `Query` is `Regular` (`QueryIsRegular`). Its rows say of a user what the tables
  say (`QuerySees`): LEFT JOIN loses no user without accounts and no account
  without transactions.

`ReloadInv == TablesInv /\ MemoryInv /\ StatusInv /\ LoginInv /\ SnapshotInv`.
`MemoryInv` is what `LoadedIsGrouping` says of memory; it is kept by a login because
`LoginInv` remembers that the rows waiting to be stored are regular, of that user,
and say what `login.saw` has. `StatusInv` excepts the user whose password login is
under way and the `doubted` ones, the only ones whom the table may call on line alone;
a refresh of a doubted user reads "on line" from the table. Rows read by a password
login say "on line" already, because `connectionMutex_` keeps other logins out and
nothing logs out. `SnapshotInv` says that of the buckets already passed every user
present at the beginning has been copied, and every key once; it survives inserts
because these put a key into its own bucket and take none away.

### Checked by TLC only

* Liveness (`EveryRequestAnswered`, `EveryLoginAnswered`, `QueuedIsDelivered`,
  `ShutdownEnds`, `StressTestEnds`, `EveryCreationAnswered`, `EverySentIsHeard`,
  `LoginButtonComesBack`): out of the prover's reach.
* `FlaggedExactly`: the depth-first search is a RECURSIVE operator, in whose
  presence there is no SMT backend.

## 5. Plan

Done: the database half, the mirror and login, the queues and the stress test,
account creation, the controllers and the client, loading and the snapshot, all of
them with proofs; the fraud report, checked by TLC.

Next: `FlaggedExactly` for every graph. It would take the search as a recursive
function on paths, and an induction on the edges not yet used, which
`SubsetInduction` could carry.

### Not modelled

* `bcrypt.c`, `crypt_blowfish.c`, `wrapper.c`, `qrcodegen.cpp`: vendored code; a
  password matches or does not, a QR code is a picture.
* `TransactionLog`: `record()` has no caller, the log is always empty.
* `StressTestRunner`, `QrCodeHelper`: they start a process or draw a picture and
  keep no state that anything depends on.
* QML layout; the checks and handlers of the pages that matter are in
  `BankClient` and in the requests the instances enumerate.
* `HashTable::remove`, `clear` and `size`, `Account::deposit`, `withdraw` and
  `setBalances`: no caller.
* `frontend/bank` (a prototype), `main.cpp`, `test.cpp`, `thread_distributor.hpp`
  (not part of the server; they no longer fit its interfaces).
* The data race on `User::login_status` between a login and the admin snapshot:
  a reader in the middle of a write to a `std::string`.
* Memory: the server's `ResponseQueue` grows with every request, because nobody
  pops it.
