--------------------------- MODULE DbTransaction ---------------------------
(***************************************************************************)
(* Load_DB::transaction (backend/src/database_loader.cpp): the SQL half of *)
(* a deposit, withdrawal or transfer.  Every transaction worker owns one   *)
(* database connection and runs one transaction block at a time on it.     *)
(*                                                                         *)
(* PostgreSQL is external.  It is modelled by what the statements rely on: *)
(* an UPDATE sees the last committed version of a row (READ COMMITTED),    *)
(* waits while another transaction has written the row, re-evaluates its   *)
(* WHERE clause when that transaction ends, and installs its own versions  *)
(* at commit.  The version an UPDATE computes is kept as a value, not as a *)
(* difference, so that a lost update would be visible here.                *)
(***************************************************************************)
EXTENDS TransactionRequest, Functions

CONSTANTS
    Workers,          \* transaction worker threads of WorkerPool
    NoWorker,         \* "no open transaction has written this row"
    NoRequest,        \* content of req before the first pop
    InitialBalance,   \* rows of Account_Table when the server starts
    OpeningBalance,   \* column default of a freshly inserted row
    Unreliable,       \* bound: workers whose connection may break
    MaxRequests       \* bound: requests handed to workers

Replies == {"none", "SUCCESS", "FAILED", "ERROR"}

ASSUME WorkersAssumption == NoWorker \notin Workers /\ Unreliable \subseteq Workers

ASSUME NoRequestAssumption == NoRequest \notin Requests

ASSUME BalanceAssumption ==
    /\ DOMAIN InitialBalance \subseteq Accounts
    /\ \A a \in DOMAIN InitialBalance : InitialBalance[a] \in Nat
    /\ OpeningBalance \in Nat

ASSUME BoundsAssumption == MaxRequests \in Nat

VARIABLES
    rows,            \* account ids present in Account_Table
    balance,         \* committed available_balance of every row
    ledger,          \* committed rows of Transaction_Table
    rowLock,         \* transaction whose uncommitted version a row has
    version,         \* uncommitted versions: version[w][a] if rowLock[a] = w
    pc,              \* where a worker is in transaction()
    req,             \* the request a worker popped
    withdrawResult,  \* affected_rows() of the withdraw statement
    depositResult,   \* affected_rows() of the deposit statement
    reply,           \* what was sent on the request's connection
    committed,       \* history: did this request's transaction commit?
    connected,       \* is the worker's own connection usable?
    taken            \* number of requests popped so far

tables == <<rows, balance, ledger>>
locks  == <<rowLock, version>>
locals == <<req, withdrawResult, depositResult>>
vars   == <<tables, locks, pc, locals, reply, committed, connected, taken>>

-----------------------------------------------------------------------------
(* Mutant: a transfer always pays first. *)
PaysFirst(r) == Withdraws(r)

(* Lock ordering: the lower account id is updated first.  Used by a        *)
(* transfer only; the other types have a single statement.                 *)
WithdrawsFirst(r) ==
    \/ r.type = "WITHDRAW"
    \/ r.type = "TRANSFER" /\ r.account_id < r.to_account

(* The row version that worker w's statements see. *)
Visible(w, a) == IF rowLock[a] = w THEN version[w][a] ELSE balance[a]

(* Mutant: the funds are not part of the WHERE clause. *)
WithdrawMatchesUnfunded(w) == req[w].account_id \in rows

(* Does the WHERE clause select the row? *)
WithdrawMatches(w) ==
    LET a == req[w].account_id
    IN  a \in rows /\ Visible(w, a) >= req[w].amount

DepositMatches(w) == DepositRow(req[w]) \in rows

(* Mutant: only the paying side is checked. *)
PayerAffected(w) == Withdraws(req[w]) => withdrawResult[w] > 0

(* The checks of affected_rows() that guard the commit. *)
AllAffected(w) ==
    /\ Withdraws(req[w]) => withdrawResult[w] > 0
    /\ Deposits(req[w]) => depositResult[w] > 0

-----------------------------------------------------------------------------
Init ==
    /\ rows = DOMAIN InitialBalance
    /\ balance = [a \in Accounts |-> IF a \in DOMAIN InitialBalance
                                     THEN InitialBalance[a] ELSE 0]
    /\ ledger = <<>>
    /\ rowLock = [a \in Accounts |-> NoWorker]
    /\ version = [w \in Workers |-> [a \in Accounts |-> 0]]
    /\ pc = [w \in Workers |-> "idle"]
    /\ req = [w \in Workers |-> NoRequest]
    /\ withdrawResult = [w \in Workers |-> 0]
    /\ depositResult = [w \in Workers |-> 0]
    /\ reply = [w \in Workers |-> "none"]
    /\ committed = [w \in Workers |-> FALSE]
    /\ connected = [w \in Workers |-> TRUE]
    /\ taken = 0

(* The worker pops a request and calls transaction(), which opens the      *)
(* transaction block.  An unusable connection makes that constructor throw *)
(* and a transfer without to_account throws at to_account.value(): both    *)
(* end in the catch block.  An unknown type falls through to               *)
(* `return false` with nothing sent.                                       *)
Begin(w) ==
    /\ pc[w] = "idle"
    /\ taken < MaxRequests
    /\ taken' = taken + 1
    /\ \E r \in Requests :
        LET throws == ~connected[w] \/ NoRecipient(r)
        IN  /\ req' = [req EXCEPT ![w] = r]
            /\ pc' = [pc EXCEPT ![w] =
                        IF throws \/ r.type = "OTHER" THEN "respond"
                        ELSE IF WithdrawsFirst(r) THEN "withdraw"
                        ELSE "deposit"]
            /\ reply' = [reply EXCEPT ![w] =
                        IF throws THEN "ERROR" ELSE "none"]
    /\ withdrawResult' = [withdrawResult EXCEPT ![w] = 0]
    /\ depositResult' = [depositResult EXCEPT ![w] = 0]
    /\ committed' = [committed EXCEPT ![w] = FALSE]
    /\ UNCHANGED <<tables, locks, connected>>

(* Write a new version of row a; the row stays locked until the block ends.*)
WriteRow(w, a, newBalance) ==
    /\ rowLock[a] \in {NoWorker, w}
    /\ rowLock' = [rowLock EXCEPT ![a] = w]
    /\ version' = [version EXCEPT ![w] = [@ EXCEPT ![a] = newBalance]]

(* Mutant: the new balance is computed from one read before the block. *)
ExecWithdrawStale(w) ==
    /\ pc[w] = "withdraw"
    /\ LET r == req[w]
           a == r.account_id
       IN  /\ \/ /\ WithdrawMatches(w)
                 /\ WriteRow(w, a, balance[a] - r.amount)
                 /\ withdrawResult' = [withdrawResult EXCEPT ![w] = 1]
              \/ /\ ~WithdrawMatches(w)
                 /\ UNCHANGED <<locks, withdrawResult>>
           /\ pc' = [pc EXCEPT ![w] =
                       IF r.type = "TRANSFER" /\ WithdrawsFirst(r)
                       THEN "deposit" ELSE "decide"]
    /\ UNCHANGED <<tables, req, depositResult, reply, committed, connected,
                   taken>>

(* UPDATE ... SET balance - amount WHERE account_id AND balance >= amount. *)
ExecWithdraw(w) ==
    /\ pc[w] = "withdraw"
    /\ LET r == req[w]
           a == r.account_id
       IN  /\ \/ /\ WithdrawMatches(w)
                 /\ WriteRow(w, a, Visible(w, a) - r.amount)
                 /\ withdrawResult' = [withdrawResult EXCEPT ![w] = 1]
              \/ /\ ~WithdrawMatches(w)
                 /\ UNCHANGED <<locks, withdrawResult>>
           /\ pc' = [pc EXCEPT ![w] =
                       IF r.type = "TRANSFER" /\ WithdrawsFirst(r)
                       THEN "deposit" ELSE "decide"]
    /\ UNCHANGED <<tables, req, depositResult, reply, committed, connected,
                   taken>>

(* UPDATE ... SET balance + amount WHERE account_id.  In a transfer it is  *)
(* executed even when the withdraw statement affected no row.              *)
ExecDeposit(w) ==
    /\ pc[w] = "deposit"
    /\ LET r == req[w]
           a == DepositRow(r)
       IN  /\ \/ /\ DepositMatches(w)
                 /\ WriteRow(w, a, Visible(w, a) + r.amount)
                 /\ depositResult' = [depositResult EXCEPT ![w] = 1]
              \/ /\ ~DepositMatches(w)
                 /\ UNCHANGED <<locks, depositResult>>
           /\ pc' = [pc EXCEPT ![w] =
                       IF r.type = "TRANSFER" /\ ~WithdrawsFirst(r)
                       THEN "withdraw" ELSE "decide"]
    /\ UNCHANGED <<tables, req, withdrawResult, reply, committed, connected,
                   taken>>

(* The end of a transaction block drops the worker's row locks. *)
ReleaseRows(w) ==
    /\ rowLock' = [a \in Accounts |-> IF rowLock[a] = w THEN NoWorker
                                                        ELSE rowLock[a]]
    /\ version' = [version EXCEPT ![w] = [a \in Accounts |-> 0]]

(* A statement affected no row: `return false` destroys the pqxx::work,    *)
(* which rolls the block back.                                             *)
Reject(w) ==
    /\ pc[w] = "decide"
    /\ ~AllAffected(w)
    /\ ReleaseRows(w)
    /\ reply' = [reply EXCEPT ![w] = "FAILED"]
    /\ pc' = [pc EXCEPT ![w] = "respond"]
    /\ UNCHANGED <<tables, locals, committed, connected, taken>>

(* The INSERTs and COMMIT, as the server performs them. *)
Install(w) ==
    /\ pc[w] = "decide"
    /\ AllAffected(w)
    /\ balance' = [a \in Accounts |-> Visible(w, a)]
    /\ ledger' = ledger \o LedgerRows(req[w])
    /\ ReleaseRows(w)
    /\ committed' = [committed EXCEPT ![w] = TRUE]
    /\ UNCHANGED <<rows, locals, taken>>

Commit(w) ==
    /\ Install(w)
    /\ pc' = [pc EXCEPT ![w] = "apply"]
    /\ UNCHANGED <<reply, connected>>

(* Mutant: a failed COMMIT is taken for a rollback. *)
CommitDoubtRefused(w) ==
    /\ w \in Unreliable
    /\ Install(w)
    /\ connected' = [connected EXCEPT ![w] = FALSE]
    /\ reply' = [reply EXCEPT ![w] = "FAILED"]
    /\ pc' = [pc EXCEPT ![w] = "respond"]

(* The connection breaks while COMMIT is under way: the server has         *)
(* installed the block, the client only sees an exception.                 *)
CommitInDoubt(w) ==
    /\ w \in Unreliable
    /\ Install(w)
    /\ connected' = [connected EXCEPT ![w] = FALSE]
    /\ reply' = [reply EXCEPT ![w] = "ERROR"]
    /\ pc' = [pc EXCEPT ![w] = "respond"]

(* The connection breaks while the block is open: the server rolls back,   *)
(* the pending call throws and the catch block replies ERROR.              *)
LoseConnection(w) ==
    /\ w \in Unreliable
    /\ pc[w] \in {"withdraw", "deposit", "decide"}
    /\ ReleaseRows(w)
    /\ connected' = [connected EXCEPT ![w] = FALSE]
    /\ reply' = [reply EXCEPT ![w] = "ERROR"]
    /\ pc' = [pc EXCEPT ![w] = "respond"]
    /\ UNCHANGED <<tables, locals, committed, taken>>

(* The connection breaks between two blocks; nobody notices until the next *)
(* request, and nobody reconnects.                                         *)
LoseIdleConnection(w) ==
    /\ w \in Unreliable
    /\ pc[w] = "idle"
    /\ connected[w]
    /\ connected' = [connected EXCEPT ![w] = FALSE]
    /\ UNCHANGED <<tables, locks, pc, locals, reply, committed, taken>>

(* applyMemoryUpdate() after the commit.  It throws when Account refuses   *)
(* the amount, which is then answered by the catch block; what it does to  *)
(* the accounts in memory is the subject of BankServer.                    *)
Mirror(w, throws) ==
    /\ pc[w] = "apply"
    /\ throws => req[w].amount <= 0
    /\ reply' = [reply EXCEPT ![w] = IF throws THEN "ERROR" ELSE "SUCCESS"]
    /\ pc' = [pc EXCEPT ![w] = "respond"]
    /\ UNCHANGED <<tables, locks, locals, committed, connected, taken>>

(* transaction() has returned: the worker pushes its TransactionResponse   *)
(* and goes back to pop().                                                 *)
Respond(w) ==
    /\ pc[w] = "respond"
    /\ pc' = [pc EXCEPT ![w] = "idle"]
    /\ UNCHANGED <<tables, locks, locals, reply, committed, connected, taken>>

(* create_account() commits the INSERT of a new account. *)
InsertAccount(a) ==
    /\ a \notin rows
    /\ rows' = rows \union {a}
    /\ balance' = [balance EXCEPT ![a] = OpeningBalance]
    /\ UNCHANGED <<ledger, locks, pc, locals, reply, committed, connected,
                   taken>>

(* The bound on requests is used up and every worker waits in pop().       *)
Exhausted ==
    /\ taken = MaxRequests
    /\ \A w \in Workers : pc[w] = "idle"
    /\ UNCHANGED vars

-----------------------------------------------------------------------------
(* What a worker does by itself once it has popped a request. *)
Step(w) ==
    \/ ExecWithdraw(w)
    \/ ExecDeposit(w)
    \/ Reject(w)
    \/ Commit(w)
    \/ \E throws \in BOOLEAN : Mirror(w, throws)
    \/ Respond(w)

Next ==
    \/ \E w \in Workers :
        \/ Begin(w)
        \/ Step(w)
        \/ CommitInDoubt(w)
        \/ LoseConnection(w)
        \/ LoseIdleConnection(w)
    \/ \E a \in Accounts : InsertAccount(a)
    \/ Exhausted

Spec == Init /\ [][Next]_vars

-----------------------------------------------------------------------------
TypeOK ==
    /\ rows \subseteq Accounts
    /\ balance \in [Accounts -> Int]
    /\ ledger \in Seq(LedgerRow)
    /\ rowLock \in [Accounts -> Workers \union {NoWorker}]
    /\ version \in [Workers -> [Accounts -> Int]]
    /\ pc \in [Workers -> {"idle", "withdraw", "deposit", "decide", "apply",
                           "respond"}]
    /\ req \in [Workers -> Requests \union {NoRequest}]
    /\ withdrawResult \in [Workers -> {0, 1}]
    /\ depositResult \in [Workers -> {0, 1}]
    /\ reply \in [Workers -> Replies]
    /\ committed \in [Workers -> BOOLEAN]
    /\ connected \in [Workers -> BOOLEAN]
    /\ taken \in 0..MaxRequests

InBlock(w) == pc[w] \in {"withdraw", "deposit", "decide"}

(* The rows the block of w has written so far. *)
Written(w, a) ==
    \/ withdrawResult[w] = 1 /\ req[w].account_id = a
    \/ depositResult[w] = 1 /\ DepositRow(req[w]) = a

(* What the statements executed so far add to row a. *)
Executed(w, a) ==
    (IF depositResult[w] = 1 THEN DepositPart(req[w], a) ELSE 0)
      - (IF withdrawResult[w] = 1 THEN WithdrawPart(req[w], a) ELSE 0)

(* A row is locked by exactly the open block that wrote it, and its        *)
(* uncommitted version is the committed balance plus what that block's     *)
(* executed statements say: nothing another worker committed meanwhile is  *)
(* overwritten at commit, and no block ends with a row still locked.       *)
NoLostUpdate ==
    \A w \in Workers, a \in Accounts :
        /\ (rowLock[a] = w) <=> (InBlock(w) /\ Written(w, a))
        /\ rowLock[a] = w =>
              a \in rows /\ version[w][a] = balance[a] + Executed(w, a)

(* Worker w's next statement is an UPDATE of row a, locked by another.     *)
WaitsFor(w, a) ==
    /\ \/ pc[w] = "withdraw" /\ a = req[w].account_id
       \/ pc[w] = "deposit" /\ a = DepositRow(req[w])
    /\ rowLock[a] \notin {NoWorker, w}

(* Along a chain of blocks waiting for one another the awaited account ids *)
(* grow, so that no chain closes to a cycle: the lock ordering of          *)
(* transaction() leaves PostgreSQL no deadlock to break.                   *)
WaitChainAscends ==
    \A v, w \in Workers, a, b \in Accounts :
        WaitsFor(v, a) /\ rowLock[a] = w /\ WaitsFor(w, b) => a < b

(* "SUCCESS" is sent only for a committed request and a refusal only for   *)
(* one that left no trace.  "ERROR" leaves it open, but the money has      *)
(* moved in two cases only: the connection broke, or Account refused to    *)
(* mirror an amount of nothing or less that the tables had accepted.       *)
AnswerIsTrue ==
    \A w \in Workers :
        /\ reply[w] = "SUCCESS" => committed[w]
        /\ reply[w] = "FAILED" => ~committed[w]
        /\ reply[w] = "ERROR" /\ committed[w] =>
              ~connected[w] \/ req[w].amount <= 0

(* Row l of Transaction_Table is for a deposit or an incoming transfer. *)
Credits(l) == l.type = "DEPOSIT" \/ l.from_account # NoAccount

(* The amount row l moves into account a. *)
Movement(l, a) ==
    IF l.account_id # a THEN 0
    ELSE IF Credits(l) THEN l.amount ELSE -l.amount

Recorded(a) == SumFunction([i \in DOMAIN ledger |-> Movement(ledger[i], a)])

Starting(a) == IF a \in DOMAIN InitialBalance THEN InitialBalance[a]
               ELSE IF a \in rows THEN OpeningBalance ELSE 0

(* The history explains the balances: every balance is its starting value  *)
(* plus the movements Transaction_Table records for that account.          *)
LedgerExplainsBalance ==
    \A a \in Accounts : balance[a] = Starting(a) + Recorded(a)

(* What the deposits and transfers of a negative amount recorded for       *)
(* account a have taken from it.                                           *)
NegativeCredit(l, a) ==
    IF Credits(l) /\ Movement(l, a) < 0 THEN -Movement(l, a) ELSE 0

NegativeCredits(a) ==
    SumFunction([i \in DOMAIN ledger |-> NegativeCredit(ledger[i], a)])

(* Nobody overdraws an account by paying from it: withdrawals and          *)
(* transfers, however they are interleaved, find enough in the balance     *)
(* they are subtracted from, since the WHERE clause is evaluated against a *)
(* balance no other block can change before this one ends.  A balance is   *)
(* below zero only by what deposits and incoming transfers of a negative   *)
(* amount, which transaction() does not refuse, have taken.                *)
NoOverdraft ==
    \A a \in Accounts : balance[a] + NegativeCredits(a) >= 0

(* Seen through the committed tables, the interleaved blocks of all the    *)
(* workers post whole requests one at a time.                              *)
Atomic == INSTANCE AtomicBank

RefinesAtomicBank == Atomic!Spec

(* Every request a worker pops is dealt with: transaction() returns and    *)
(* the worker is back at pop().                                            *)
EveryRequestAnswered ==
    \A w \in Workers : pc[w] # "idle" ~> pc[w] = "idle"
=============================================================================
