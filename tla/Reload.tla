------------------------------- MODULE Reload -------------------------------
(***************************************************************************)
(* From the tables to memory: the joined query of Load_DB, store_users()   *)
(* that groups its rows into users, accounts and transactions, the logins  *)
(* and refreshes that call it under connectionMutex_, a restart, and the   *)
(* administrator's snapshot of bank_db that runs beside them.  Balances    *)
(* are left to BankServer, the fraud detector to FraudReport.              *)
(***************************************************************************)
EXTENDS HashTable, FiniteSets

CONSTANTS
    InitialUsers,     \* users are 1..InitialUsers at first
    InitialOwner,     \* account id -> its user, a sequence
    Planned,          \* transactions clients may send, each with a delay
    MaxAccounts,      \* bound: rows of Account_Table
    MaxEvents         \* bound: transactions, logins and refreshes

Null == 0

ASSUME TablesAssumption ==
    /\ InitialUsers \in Nat
    /\ InitialOwner \in Seq(1..InitialUsers)
    /\ MaxAccounts \in Nat /\ MaxEvents \in Nat

VARIABLES
    numUsers, owner, txns, online,   \* the tables
    bank_db,
    login,            \* the call of login() that holds connectionMutex_; saw is
                      \* history: what the tables said when it read them
    snapshot,         \* the call of buildUsersSnapshot(), and what it has got
    events,           \* number of transactions, logins and refreshes
    grouped,          \* history: user -> what was seen for what is in memory
    doubted           \* history: loaded users whose login ended in ERROR although
                      \* its UPDATE is in effect, and who were not stored since

tables == <<numUsers, owner, txns, online>>
rlVars == <<tables, bank_db, login, events, snapshot, grouped, doubted>>

Txn == INSTANCE TransactionRequest WITH Accounts <- 1..MaxAccounts, Requests <- {}

Users == 1..numUsers

-----------------------------------------------------------------------------
(* SELECT ... LEFT JOIN ... LEFT JOIN: a user without accounts and an       *)
(* account without transactions have a row, too.                           *)
LeftJoin(ids) == IF ids = {} THEN {Null} ELSE ids

AccountsOf(u) == {a \in DOMAIN owner : owner[a] = u}

TransactionsOf(a) == {i \in DOMAIN txns : txns[i].account_id = a}

Joined(users) ==
    UNION {UNION {{<<u, a, t>> : t \in LeftJoin(TransactionsOf(a))} :
                     a \in LeftJoin(AccountsOf(u))} : u \in users}

(* ORDER BY user ASC, account ASC, transaction DESC: as many keys are      *)
(* before the i-th one as i - 1.                                           *)
Before(x, y) ==
    \/ x[1] < y[1]
    \/ x[1] = y[1] /\ x[2] < y[2]
    \/ x[1] = y[1] /\ x[2] = y[2] /\ x[3] > y[3]

Rank(keys, x) == Cardinality({y \in keys : Before(y, x)})

OrderBy(keys) ==
    [i \in 1..Cardinality(keys) |-> CHOOSE x \in keys : Rank(keys, x) = i - 1]

Row(key) ==
    [user |-> key[1], login_status |-> key[1] \in online, account |-> key[2],
     txn |-> key[3], data |-> IF key[3] = Null THEN <<>> ELSE txns[key[3]]]

(* The rows (TLC evaluates a function again wherever it is applied, but a  *)
(* concatenation once).                                                    *)
Query(users) ==
    LET keys == OrderBy(Joined(users))
    IN  <<>> \o [i \in DOMAIN keys |-> Row(keys[i])]

-----------------------------------------------------------------------------
(* store_users(): a row closes its account, or its user, when the next row *)
(* has another one; the last row closes both.                              *)
EndsAccount(res, i) == i = Len(res) \/ res[i].account # res[i + 1].account

EndsUser(res, i) == i = Len(res) \/ res[i].user # res[i + 1].user

(* Mutant: the next account starts with the transactions of this one. *)
KeptTransactions(table, closed) == table

(* The table that was moved from is replaced by a fresh one. *)
NextTransactions(table, closed) == IF closed THEN EmptyTable ELSE table

(* The objects in memory, without the fields that nothing here tells apart.*)
NewTransaction(row) == row.data

NewAccount(transactions) == [transactions |-> transactions]

NewUser(row, accounts) == [login_status |-> row.login_status, accounts |-> accounts]

StoreRow(s, row, endsAccount, endsUser) ==
    LET transactions == IF row.txn = Null THEN s.transactions
                        ELSE insert(s.transactions, row.txn, NewTransaction(row))
        closed == row.account # Null /\ endsAccount
        accounts == IF closed
                    THEN insert(s.accounts, row.account, NewAccount(transactions))
                    ELSE s.accounts
    IN  [transactions |-> NextTransactions(transactions, closed \/ endsUser),
         accounts     |-> IF endsUser THEN EmptyTable ELSE accounts,
         bank_db      |-> IF endsUser
                          THEN insert(s.bank_db, row.user, NewUser(row, accounts))
                          ELSE s.bank_db]

(* The tables under construction and bank_db after the first i rows. *)
AfterRows(table, res) ==
    LET after[i \in 0..Len(res)] ==
            IF i = 0
            THEN [transactions |-> EmptyTable, accounts |-> EmptyTable, bank_db |-> table]
            ELSE StoreRow(after[i - 1], res[i], EndsAccount(res, i), EndsUser(res, i))
    IN  after

store_users(table, res) == AfterRows(table, res)[Len(res)].bank_db

(* What the constructor of Load_DB makes of the tables. *)
FreshLoad == store_users(EmptyTable, Query(Users))

-----------------------------------------------------------------------------
(* The reference: the accounts of a user with the ids of their             *)
(* transactions, from the tables and from memory.                          *)
GroupingOf(u) ==
    [a \in AccountsOf(u) |-> {<<i, txns[i]>> : i \in TransactionsOf(a)}]

ViewOf(user) ==
    [a \in Keys(user.accounts) |->
        UNION {{<<t.key, t.value>> : t \in Entries(account.transactions)} :
                 account \in find(user.accounts, a)}]

NoLogin == [stage |-> "idle", user |-> Null, is_refresh |-> FALSE, res |-> <<>>,
            saw |-> <<>>]
NoSnapshot == [stage |-> "idle", bucket |-> 0, got |-> <<>>, before |-> {}]

RLInit ==
    /\ numUsers = InitialUsers
    /\ owner = InitialOwner
    /\ txns = <<>>
    /\ online = {}
    /\ events = 0
    /\ bank_db = FreshLoad
    /\ login = NoLogin
    /\ snapshot = NoSnapshot
    /\ grouped = [u \in Users |-> GroupingOf(u)]
    /\ doubted = {}

Event == events < MaxEvents /\ events' = events + 1

(* create_account(), for a user who is there or for the next one. *)
OpenAccount ==
    /\ Len(owner) < MaxAccounts
    /\ \E u \in 1..(numUsers + 1) :
           /\ owner' = Append(owner, u)
           /\ numUsers' = IF u > numUsers THEN u ELSE numUsers
    /\ UNCHANGED <<txns, online, bank_db, login, events, snapshot, grouped, doubted>>

(* A row of Transaction_Table with its Transaction_At. *)
Stamped(row, time) ==
    [at |-> time, type |-> row.type, account_id |-> row.account_id,
     from_account |-> row.from_account, to_account |-> row.to_account,
     amount |-> row.amount]

(* transaction() commits: its rows of the history, some time after the     *)
(* last ones.                                                              *)
CommitTransaction ==
    /\ Event
    /\ \E p \in Planned :
           LET rows == Txn!LedgerRows(p.request)
               last == IF txns = <<>> THEN 0 ELSE txns[Len(txns)].at
           IN  /\ {r.account_id : r \in ToSet(rows)} \subseteq DOMAIN owner
               /\ txns' = txns \o [i \in DOMAIN rows |-> Stamped(rows[i], last + p.delay)]
    /\ UNCHANGED <<numUsers, owner, online, bank_db, login, snapshot, grouped, doubted>>

-----------------------------------------------------------------------------
Loaded(u) == u \in Keys(bank_db)

(* login() up to its commit: a password login that verifies sets           *)
(* Login_Status in the table, a refresh does not.  One that is refused     *)
(* changes nothing.                                                        *)
BeginLogin ==
    /\ login.stage = "idle"
    /\ Event
    /\ \E u \in Users, refresh \in BOOLEAN :
           /\ login' = [NoLogin EXCEPT !.stage = "verified", !.user = u,
                                       !.is_refresh = refresh]
           /\ online' = IF refresh THEN online ELSE online \union {u}
    /\ UNCHANGED <<numUsers, owner, txns, bank_db, snapshot, grouped, doubted>>

(* The commit of a password login is in doubt: the UPDATE is in effect,    *)
(* but login() ends in ERROR and leaves memory as it is.  (When it is not  *)
(* in effect, nothing has changed.)                                        *)
LoginInDoubt ==
    /\ login.stage = "idle"
    /\ Event
    /\ \E u \in Users :
           /\ online' = online \union {u}
           /\ doubted' = doubted \union ({u} \intersect Keys(bank_db))
    /\ UNCHANGED <<numUsers, owner, txns, bank_db, login, snapshot, grouped>>

(* The query for one user, whose result waits to be stored. *)
ReadRows ==
    /\ login.stage = "verified"
    /\ login.is_refresh \/ ~Loaded(login.user)
    /\ login' = [login EXCEPT !.stage = "read", !.res = Query({login.user}),
                              !.saw = GroupingOf(login.user)]
    /\ UNCHANGED <<tables, bank_db, events, snapshot, grouped, doubted>>

(* The query throws, after the commit: ERROR, too. *)
ReadFails ==
    /\ login.stage = "verified"
    /\ login.is_refresh \/ ~Loaded(login.user)
    /\ login' = NoLogin
    /\ UNCHANGED <<tables, bank_db, events, snapshot, grouped, doubted>>

(* Mutant: only the table is told who is on line. *)
SetLoginNever(table, u) == table

(* u->set_login("ONLINE") *)
SetLogin(table, u) ==
    LET user == CHOOSE x \in find(table, u) : TRUE
    IN  insert(table, u, [user EXCEPT !.login_status = TRUE])

(* store_users(), set_login() and the reply. *)
FinishLogin ==
    /\ \/ login.stage = "read"
       \/ login.stage = "verified" /\ ~login.is_refresh /\ Loaded(login.user)
    /\ LET stored == store_users(bank_db, login.res)
       IN  bank_db' = IF login.is_refresh THEN stored ELSE SetLogin(stored, login.user)
    /\ grouped' = IF login.stage = "read"
                  THEN [u \in DOMAIN grouped \union {login.user} |->
                           IF u = login.user THEN login.saw ELSE grouped[u]]
                  ELSE grouped
    /\ doubted' = doubted \ {login.user}
    /\ login' = NoLogin
    /\ UNCHANGED <<tables, events, snapshot>>

(* buildUsersSnapshot(): getAll() on bank_db, a bucket at a time. *)
BeginSnapshot ==
    /\ snapshot.stage = "idle"
    /\ snapshot' = [NoSnapshot EXCEPT !.stage = "running", !.before = Keys(bank_db)]
    /\ UNCHANGED <<tables, bank_db, login, events, grouped, doubted>>

(* Mutant: the loop stops before the last bucket. *)
CopyButLast ==
    /\ snapshot.stage = "running"
    /\ LET bucket == bank_db[snapshot.bucket]
           next == snapshot.bucket + 1
       IN  snapshot' = [snapshot EXCEPT
               !.got = @ \o [i \in DOMAIN bucket |-> bucket[i].key],
               !.bucket = next,
               !.stage = IF next + 1 = BucketCount THEN "sent" ELSE @]
    /\ UNCHANGED <<tables, bank_db, login, events, grouped, doubted>>

CopyBucket ==
    /\ snapshot.stage = "running"
    /\ LET bucket == bank_db[snapshot.bucket]
           next == snapshot.bucket + 1
       IN  snapshot' = [snapshot EXCEPT
               !.got = @ \o [i \in DOMAIN bucket |-> bucket[i].key],
               !.bucket = next,
               !.stage = IF next = BucketCount THEN "sent" ELSE @]
    /\ UNCHANGED <<tables, bank_db, login, events, grouped, doubted>>

(* The server goes down and is started again. *)
Restart ==
    /\ bank_db' = FreshLoad
    /\ grouped' = [u \in Users |-> GroupingOf(u)]
    /\ doubted' = {}
    /\ login' = NoLogin
    /\ snapshot' = NoSnapshot
    /\ UNCHANGED <<tables, events>>

RLNext ==
    \/ OpenAccount \/ CommitTransaction
    \/ BeginLogin \/ LoginInDoubt \/ ReadRows \/ ReadFails \/ FinishLogin
    \/ BeginSnapshot \/ CopyBucket
    \/ Restart

RLSpec == RLInit /\ [][RLNext]_rlVars

-----------------------------------------------------------------------------
(* store_users(): whatever the shape of the result (users without          *)
(* accounts, accounts without transactions, one user or all of them), a    *)
(* user in memory has the accounts and transactions the tables had when    *)
(* they were read, none of them lost or under another account; so has      *)
(* everyone in a program that loads the tables now.                        *)
LoadedIsGrouping ==
    /\ \A u \in Keys(bank_db) : \A user \in find(bank_db, u) : ViewOf(user) = grouped[u]
    /\ LET fresh == FreshLoad
       IN  /\ Keys(fresh) = Users
           /\ \A u \in Users : \A user \in find(fresh, u) : ViewOf(user) = GroupingOf(u)

(* login(): the UPDATE of Login_Status and set_login() are two steps, and  *)
(* either may be the last one of a call that fails.  Still, when no login  *)
(* is under way, memory never calls a user on line whom the table does     *)
(* not; and whom the table calls on line, memory does, too, except a user  *)
(* whose login came back with ERROR while its commit went through, until   *)
(* the next login or refresh of his that succeeds, or a restart.           *)
LoginStatusAgrees ==
    login.stage = "idle" =>
        \A u \in Keys(bank_db) : \A user \in find(bank_db, u) :
            /\ user.login_status => u \in online
            /\ u \in online \ doubted => user.login_status

(* getAll() locks one bucket at a time, while logins insert: the snapshot  *)
(* has every user who was loaded when it began, no stranger, and nobody    *)
(* twice.                                                                  *)
SnapshotIsRegular ==
    snapshot.stage = "sent" =>
        /\ snapshot.before \subseteq ToSet(snapshot.got)
        /\ ToSet(snapshot.got) \subseteq Keys(bank_db)
        /\ Cardinality(ToSet(snapshot.got)) = Len(snapshot.got)
=============================================================================
