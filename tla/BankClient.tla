----------------------------- MODULE BankClient -----------------------------
(***************************************************************************)
(* The desktop client (frontend/Premiumbank/BackendClient.cpp) with its    *)
(* three sockets, against the server's controllers and the two worker      *)
(* pools behind them.  A socket keeps the order of messages; the workers   *)
(* do not keep the order of requests, and nothing in a reply says which    *)
(* request it answers.                                                     *)
(*                                                                         *)
(* What the pages of the client do with its signals is taken from          *)
(* LoginPage.qml and DashboardPage.qml.  Database and memory are two       *)
(* balances per account here, and a mutex shows only when nobody will ever *)
(* unlock it; DbTransaction and BankServer have the rest.                  *)
(***************************************************************************)
EXTENDS Controllers, FiniteSets

CONSTANTS
    AccountsOf,       \* user id -> the accounts a login reply may name
    InitialBalance,   \* account -> cents
    Amount,           \* cents of a transfer, which its page wants positive
    AdminAmounts,     \* cents of deposits and withdrawals, of either sign
    LoginWorkers, TxnWorkers,
    Capacity,         \* slots of a RequestQueue's ring
    Flaky,            \* sockets that take their time to open and may break
    MaxClicks,        \* bound: operations of the client's user
    MaxOthers,        \* bound: messages of other clients
    MaxActions        \* bound: the two together

VARIABLES
    cache,            \* m_accountName, m_accountId, ... of BackendClient
    session,          \* currentUsername, the page shown, is the login button off?
    socket,           \* "opening", "up" or "down"
    toServer, toClient,
    queued,           \* login and transaction requests in the rings
    job,              \* the request a worker is busy with, in a set
    stage,            \* how far it has got
    balance,          \* in the database
    mem,              \* in the Account that bank_db holds
    locked,           \* accounts whose Account in bank_db stays locked for ever
    hung,             \* workers that wait for such a mutex
    rows,             \* what the refresh that holds connectionMutex_ has read
    had,              \* history: balances the Accounts in bank_db have had
    outstanding,      \* history: messages sent and not answered
    lost,             \* history: paths on which a full ring has swallowed one
    clicks, others

clientVars == <<cache, session, clicks>>
network == <<socket, toServer, toClient, outstanding>>
memory == <<mem, locked, had>>
server == <<queued, job, stage, balance, memory, hung, rows, lost, others>>
bcVars == <<clientVars, network, server>>

Users == DOMAIN AccountsOf
Accounts == DOMAIN InitialBalance
Paths == {"/login", "/create_account", "/transaction"}
Workers == LoginWorkers \union TxnWorkers

ASSUME ClientConstants ==
    /\ Users \subseteq Nat \ {None} /\ Accounts \subseteq Nat \ {None}
    /\ AccountsOf \in [Users -> SUBSET Accounts]
    /\ InitialBalance \in [Accounts -> Nat]
    /\ IsFiniteSet(LoginWorkers) /\ IsFiniteSet(TxnWorkers)
    /\ LoginWorkers \intersect TxnWorkers = {}
    /\ Amount \in Nat \ {0} /\ AdminAmounts \subseteq Int
    /\ Capacity \in Nat \ {0}
    /\ Flaky \subseteq Paths
    /\ MaxClicks \in Nat /\ MaxOthers \in Nat /\ MaxActions \in Nat

Txn == INSTANCE TransactionRequest WITH Requests <- {}

NoCache == [name |-> None, accountId |-> None, balanceCents |-> 0,
            infoAvailable |-> FALSE, lastTarget |-> None]

NoRows == [a \in Accounts |-> 0]

(* main() opens the sockets with connectToServer() and never again. *)
BCInit ==
    /\ cache = NoCache
    /\ session = [user |-> None, page |-> "login", waiting |-> FALSE]
    /\ socket = [p \in Paths |-> IF p \in Flaky THEN "opening" ELSE "up"]
    /\ toServer = [p \in Paths |-> <<>>]
    /\ toClient = [p \in Paths |-> <<>>]
    /\ queued = [p \in Paths |-> <<>>]
    /\ job = [w \in Workers |-> {}]
    /\ stage = [w \in Workers |-> "start"]
    /\ balance = InitialBalance
    /\ mem = InitialBalance
    /\ locked = {}
    /\ hung = {}
    /\ rows = NoRows
    /\ had = [a \in Accounts |-> {InitialBalance[a]}]
    /\ outstanding = [p \in Paths |-> 0]
    /\ lost = {}
    /\ clicks = 0
    /\ others = 0

-----------------------------------------------------------------------------
LoginRequest(u, pw, is_refresh) ==
    [user_id |-> u, is_refresh |-> is_refresh, password |-> pw]

(* The messages of BackendClient, each with the request it stands for. *)
LoginMessage(u, pw) ==
    [json  |-> [user_id |-> Num(u), password |-> Str(pw)],
     meant |-> LoginRequest(u, pw, FALSE)]

RefreshMessage(u) ==
    [json  |-> [type |-> Str("refresh"), user_id |-> Num(u)],
     meant |-> LoginRequest(u, "", TRUE)]

(* user_id is left out when the field on the form holds no number. *)
CreationMessage(u, pw) ==
    [json  |-> [f \in requiredStringFields \union (IF u = None THEN {} ELSE {"user_id"}) |->
                   CASE f = "user_id" -> Num(u)
                     [] f = "password" -> Str(pw)
                     [] OTHER -> Str("text")],
     meant |-> [user_id |-> u, password |-> pw]]

(* sendMoney(), deposit() and withdraw() *)
TransactionMessage(type, a, to, amount) ==
    [json  |-> [f \in {"account_id", "transaction_type", "transaction_amount", "remarks"}
                         \union (IF to = None THEN {} ELSE {"to_account"}) |->
                   CASE f = "account_id" -> Num(a)
                     [] f = "transaction_type" -> Str(type)
                     [] f = "transaction_amount" -> Num(amount)
                     [] f = "to_account" -> Num(to)
                     [] f = "remarks" -> Str("text")],
     meant |-> [account_id |-> a, type |-> type, amount |-> amount, to_account |-> to]]

(* The guard that starts the client's operations and sendTextMessage(). *)
SendIfUp(p, message) ==
    LET up == socket[p] = "up"
    IN  /\ toServer' = [toServer EXCEPT ![p] = IF up THEN Append(@, message) ELSE @]
        /\ outstanding' = [outstanding EXCEPT ![p] = IF up THEN @ + 1 ELSE @]
        /\ UNCHANGED <<socket, toClient>>

MayAct == clicks + others < MaxActions

Click == MayAct /\ clicks < MaxClicks /\ clicks' = clicks + 1

(* The login button.  Off line, loginResult(false) turns it on at once. *)
login ==
    /\ Click
    /\ session.page = "login" /\ ~session.waiting
    /\ \E u \in Users, pw \in {"right", "wrong"} :
           /\ SendIfUp("/login", LoginMessage(u, pw))
           /\ session' = [session EXCEPT !.user = u,
                                         !.waiting = (socket["/login"] = "up")]
    /\ UNCHANGED <<cache, server>>

(* Off line, it is answered with loginResult(false), too. *)
refresh ==
    /\ Click
    /\ session.page = "dashboard"
    /\ SendIfUp("/login", RefreshMessage(session.user))
    /\ session' = [session EXCEPT !.waiting = @ /\ socket["/login"] = "up"]
    /\ UNCHANGED <<cache, server>>

(* logout(), and the dashboard goes back to the login page. *)
logout ==
    /\ Click
    /\ session.page = "dashboard"
    /\ cache' = NoCache
    /\ session' = [session EXCEPT !.user = None, !.page = "login"]
    /\ UNCHANGED <<network, server>>

createAccount ==
    /\ Click
    /\ session.page = "login"
    /\ \E u \in Users \union {None} :
           SendIfUp("/create_account", CreationMessage(u, "right"))
    /\ UNCHANGED <<cache, session, server>>

(* The account of a transaction is remembered if it was sent. *)
Transact(type, a, to, amount) ==
    /\ Click
    /\ SendIfUp("/transaction", TransactionMessage(type, a, to, amount))
    /\ cache' = [cache EXCEPT !.lastTarget =
                     IF socket["/transaction"] = "up" THEN a ELSE @]
    /\ UNCHANGED <<session, server>>

(* SendMoneyPage wants an account to be loaded and the amount positive;    *)
(* it does not mind the account's own number.                              *)
sendMoney ==
    /\ session.page = "dashboard" /\ cache.infoAvailable /\ cache.accountId # None
    /\ \E to \in Accounts : Transact("TRANSFER", cache.accountId, to, Amount)

(* deposit() and withdraw() of AdminPanel, for any account and amount. *)
adminTransaction ==
    \E type \in {"DEPOSIT", "WITHDRAW"}, a \in Accounts, amount \in AdminAmounts :
        Transact(type, a, None, amount)

-----------------------------------------------------------------------------
(* What the server sends: a plain text, or the JSON of a login reply. *)
Text(t) == [text |-> t]

(* The Account's own balance, not the table's. *)
AccountReply(u, a) == [status |-> "success", full_name |-> u, account_id |-> a,
                       balance_cents |-> mem[a]]

NoAccountReply(u) == [status |-> "success", full_name |-> u]

Replied(conn, p, reply) ==
    toClient' = [toClient EXCEPT ![p] =
        IF conn = "client" /\ socket[p] = "up" THEN Append(@, reply) ELSE @]

(* Mutant: circular_queue::isFull() is off by one. *)
HasRoomForOneMore(p) == Len(queued[p]) <= Capacity

HasRoom(p) == Len(queued[p]) < Capacity

(* handleNewMessage() of the controllers: refuse what does not parse,      *)
(* create an account at once, queue the rest.  push() returns true even    *)
(* when a full ring has dropped the request, and nobody is told.           *)
HandleMessage(conn, p, json) ==
    LET parsed == Parse(p, json)
        room == HasRoom(p)
    IN  \/ /\ parsed = {}
           /\ Replied(conn, p, Text("BAD_STRUCTURE"))
           /\ UNCHANGED <<queued, lost>>
        \/ /\ parsed # {} /\ p = "/create_account"
           /\ \E t \in {"Success", "ERROR"} :
                  Replied(conn, p, Text(t))
           /\ UNCHANGED <<queued, lost>>
        \/ /\ p # "/create_account"
           /\ \E r \in parsed :
                  queued' = [queued EXCEPT ![p] =
                      IF room THEN Append(@, [conn |-> conn, req |-> r]) ELSE @]
           /\ lost' = IF room \/ conn # "client" THEN lost ELSE lost \union {p}
           /\ UNCHANGED toClient

Handle(p) ==
    /\ toServer[p] # <<>>
    /\ HandleMessage("client", p, Head(toServer[p]).json)
    /\ toServer' = [toServer EXCEPT ![p] = Tail(@)]
    /\ UNCHANGED <<clientVars, socket, outstanding, job, stage, balance, memory, hung,
                   rows, others>>

(* Messages of other programs, well formed or not. *)
OtherMessages(p) ==
    CASE p = "/login" -> {NotJson, LoginMessage(1, "wrong").json}
      [] p = "/create_account" -> {[CreationMessage(1, "right").json EXCEPT !["nid"] = Null]}
      [] p = "/transaction" ->
           {[TransactionMessage("TRANSFER", 1, 1, 1).json EXCEPT !["to_account"] = Str("1")]}
           \union {TransactionMessage("DEPOSIT", a, None, Amount).json : a \in Accounts}
           \union {TransactionMessage("TRANSFER", a, b, 0).json : a, b \in Accounts}

HandleOther(p) ==
    /\ MayAct /\ others < MaxOthers
    /\ others' = others + 1
    /\ \E json \in OtherMessages(p) : HandleMessage("other", p, json)
    /\ UNCHANGED <<clientVars, socket, toServer, outstanding, job, stage, balance, memory,
                   hung, rows>>

PathOf(w) == IF w \in LoginWorkers THEN "/login" ELSE "/transaction"

PopRequest(w) ==
    LET p == PathOf(w)
    IN  /\ job[w] = {} /\ queued[p] # <<>>
        /\ job' = [job EXCEPT ![w] = {Head(queued[p])}]
        /\ queued' = [queued EXCEPT ![p] = Tail(@)]
        /\ UNCHANGED <<clientVars, network, stage, balance, memory, hung, rows, lost,
                       others>>

(* login() holds connectionMutex_ from its first line to its last. *)
ConnectionFree(w) ==
    \A v \in LoginWorkers \ {w} : stage[v] = "start" /\ v \notin hung

(* The worker is at stage s with its request. *)
At(w, s) == job[w] # {} /\ stage[w] = s /\ w \notin hung

LoginStarts(w) == w \in LoginWorkers /\ At(w, "start") /\ ConnectionFree(w)

(* A refresh reads the user's rows ... *)
ReadAccounts(w) ==
    /\ LoginStarts(w)
    /\ \E j \in job[w] : j.req.is_refresh /\ j.req.user_id \in Users
    /\ stage' = [stage EXCEPT ![w] = "read"]
    /\ rows' = balance
    /\ UNCHANGED <<clientVars, network, queued, job, balance, memory, hung, lost, others>>

(* ... and store_users() puts fresh Accounts, with fresh mutexes, in the   *)
(* place of the ones in bank_db.                                           *)
StoreAccounts(w) ==
    /\ w \in LoginWorkers /\ At(w, "read")
    /\ \E j \in job[w] :
           LET mine == AccountsOf[j.req.user_id]
           IN  /\ mem' = [a \in Accounts |-> IF a \in mine THEN rows[a] ELSE mem[a]]
               /\ locked' = locked \ mine
    /\ had' = [a \in Accounts |-> had[a] \union {mem'[a]}]
    /\ rows' = NoRows
    /\ stage' = [stage EXCEPT ![w] = "stored"]
    /\ UNCHANGED <<clientVars, network, queued, job, balance, hung, lost, others>>

(* A refresh that has stored, or the right password of a user, all of whom *)
(* the server has loaded at its start.                                     *)
LoggedOn(w, r) ==
    \/ At(w, "stored")
    \/ LoginStarts(w) /\ ~r.is_refresh /\ r.password = "right" /\ r.user_id \in Users

(* The first account of getAll(), whose order is that of a hash table. *)
SuccessReplies(u) ==
    IF AccountsOf[u] = {} THEN {NoAccountReply(u)}
    ELSE {AccountReply(u, a) : a \in AccountsOf[u] \ locked}

(* The commit of a login that ends in ERROR may be in effect: Reload. *)
Refusals(r) ==
    {Text("ERROR"), IF r.user_id \notin Users THEN Text("Invalid user_id")
                                              ELSE Text("Invalid username of password")}

EndLogin(w) ==
    /\ job' = [job EXCEPT ![w] = {}]
    /\ stage' = [stage EXCEPT ![w] = "start"]
    /\ UNCHANGED <<clientVars, socket, toServer, outstanding, queued, balance, memory,
                   hung, rows, lost, others>>

(* Mutant: the catch block of login() does not answer. *)
CompleteLoginSilently(w) ==
    /\ w \in LoginWorkers
    /\ \E j \in job[w] :
           \/ LoginStarts(w) /\ UNCHANGED toClient
           \/ /\ LoggedOn(w, j.req)
              /\ \E reply \in SuccessReplies(j.req.user_id) :
                     Replied(j.conn, "/login", reply)
    /\ EndLogin(w)

CompleteLogin(w) ==
    /\ w \in LoginWorkers
    /\ \E j \in job[w] :
           \/ /\ LoginStarts(w)
              /\ \E reply \in Refusals(j.req) : Replied(j.conn, "/login", reply)
           \/ /\ LoggedOn(w, j.req)
              /\ \E reply \in SuccessReplies(j.req.user_id) :
                     Replied(j.conn, "/login", reply)
    /\ EndLogin(w)

(* get_actual_balance() waits for the Account's mutex. *)
LoginHangs(w) ==
    /\ w \in LoginWorkers
    /\ \E j \in job[w] : LoggedOn(w, j.req) /\ AccountsOf[j.req.user_id] \intersect locked # {}
    /\ hung' = hung \union {w}
    /\ UNCHANGED <<clientVars, network, queued, job, stage, balance, memory, rows, lost,
                   others>>

-----------------------------------------------------------------------------
(* transaction(): commit, or refuse, or fail; a failed commit may be in    *)
(* effect.  All refusals are one text here.                                *)
CommitTransaction(w) ==
    /\ w \in TxnWorkers /\ At(w, "start")
    /\ \E j \in job[w] :
           LET r == j.req
               funded == r.type = "DEPOSIT" \/ balance[r.account_id] >= r.amount
               after == [a \in Accounts |-> balance[a] + Txn!Effect(r, a)]
           IN  \/ /\ funded /\ balance' = after
                  /\ stage' = [stage EXCEPT ![w] = "committed"]
                  /\ UNCHANGED toClient
               \/ /\ UNCHANGED balance \/ (funded /\ balance' = after)
                  /\ stage' = [stage EXCEPT ![w] = "answered"]
                  /\ Replied(j.conn, "/transaction", Text("ERROR"))
    /\ UNCHANGED <<clientVars, socket, toServer, outstanding, queued, job, memory, hung,
                   rows, lost, others>>

(* applyMemoryUpdate(), whose finds and locks are one step: an Account     *)
(* that a refresh replaces in between is BankServer's.                     *)
Parties(r) == {r.account_id} \union (IF r.type = "TRANSFER" THEN {r.to_account} ELSE {})

FirstLocked(r) == CHOOSE a \in Parties(r) : \A b \in Parties(r) : a <= b

IsSelfTransfer(r) == r.type = "TRANSFER" /\ r.to_account = r.account_id

(* withdrawUnlocked() changes nothing when the Account has too little. *)
Applied(r, a) ==
    mem[a] + (IF r.type # "DEPOSIT" /\ a = r.account_id /\ r.amount <= mem[a]
              THEN -r.amount ELSE 0)
           + (IF a = (IF r.type = "TRANSFER" THEN r.to_account ELSE r.account_id)
                 /\ r.type # "WITHDRAW"
              THEN r.amount ELSE 0)

(* Mutant: the reply to a transaction is what the client's comment says.   *)
BalanceInReply(a) == [status |-> "success", balance_cents |-> mem'[a]]

(* The reply to a committed transaction. *)
TransactionReply(a) == Text("SUCCESS")

(* The mirror is updated and the client told; or Account has thrown at     *)
(* such an amount, and a transfer has left both mutexes locked.            *)
ApplyTransaction(w) ==
    /\ w \in TxnWorkers /\ At(w, "committed")
    /\ \E j \in job[w] :
           LET r == j.req
           IN  /\ Parties(r) \intersect locked = {} /\ ~IsSelfTransfer(r)
               /\ \/ /\ r.amount > 0
                     /\ mem' = [a \in Accounts |-> Applied(r, a)]
                     /\ had' = [a \in Accounts |-> had[a] \union {mem'[a]}]
                     /\ Replied(j.conn, "/transaction", TransactionReply(r.account_id))
                     /\ UNCHANGED locked
                  \/ /\ r.amount <= 0
                     /\ locked' = locked \union
                                  (IF r.type = "TRANSFER" THEN Parties(r) ELSE {})
                     /\ Replied(j.conn, "/transaction", Text("ERROR"))
                     /\ UNCHANGED <<mem, had>>
    /\ stage' = [stage EXCEPT ![w] = "answered"]
    /\ UNCHANGED <<clientVars, socket, toServer, outstanding, queued, job, balance, hung,
                   rows, lost, others>>

(* A worker that finds the first mutex free and waits for the second keeps *)
(* the first; in a transfer to oneself they are the same.                  *)
TransactionHangs(w) ==
    /\ w \in TxnWorkers /\ At(w, "committed")
    /\ \E j \in job[w] :
           /\ Parties(j.req) \intersect locked # {} \/ IsSelfTransfer(j.req)
           /\ locked' = locked \union {FirstLocked(j.req)}
    /\ hung' = hung \union {w}
    /\ UNCHANGED <<clientVars, network, queued, job, stage, balance, mem, had, rows, lost,
                   others>>

(* Bank::getBalance(), for a response that nobody reads. *)
GetBalance(w) ==
    /\ w \in TxnWorkers /\ At(w, "answered")
    /\ \E j \in job[w] :
           \/ /\ j.req.account_id \in locked
              /\ hung' = hung \union {w}
              /\ UNCHANGED <<job, stage>>
           \/ /\ j.req.account_id \notin locked
              /\ job' = [job EXCEPT ![w] = {}]
              /\ stage' = [stage EXCEPT ![w] = "start"]
              /\ UNCHANGED hung
    /\ UNCHANGED <<clientVars, network, queued, balance, memory, rows, lost, others>>

-----------------------------------------------------------------------------
(* The slots of the client. *)
interpretSuccess(m) ==
    IF "status" \in DOMAIN m THEN m.status = "success"
                             ELSE m.text \in {"SUCCESS", "Success"}

Member(m, field, default) == IF field \in DOMAIN m THEN m[field] ELSE default

updateAccountInfoFromLoginMessage(m) ==
    [cache EXCEPT !.name = Member(m, "full_name", @),
                  !.accountId = Member(m, "account_id", @),
                  !.balanceCents = Member(m, "balance_cents", @),
                  !.infoAvailable = @ \/ DOMAIN m \intersect
                      {"full_name", "account_id", "balance_cents"} # {}]

updateBalanceFromTransactionMessage(m) ==
    IF /\ cache.lastTarget = cache.accountId
       /\ "status" \in DOMAIN m /\ "balance_cents" \in DOMAIN m
       /\ interpretSuccess(m)
    THEN [cache EXCEPT !.balanceCents = m.balance_cents, !.infoAvailable = TRUE]
    ELSE cache

(* loginResult(success): LoginPage, which stays at the bottom of the       *)
(* stack, shows the dashboard whoever asked.                               *)
LoginResult(success) ==
    session' = [session EXCEPT !.waiting = FALSE,
                               !.page = IF success THEN "dashboard" ELSE @]

onLoginMessage(m) ==
    /\ cache' = IF interpretSuccess(m) THEN updateAccountInfoFromLoginMessage(m) ELSE cache
    /\ LoginResult(interpretSuccess(m))

onTransactionMessage(m) ==
    /\ cache' = updateBalanceFromTransactionMessage(m)
    /\ UNCHANGED session

onAccountMessage(m) == UNCHANGED <<cache, session>>

Deliver(p) ==
    /\ toClient[p] # <<>>
    /\ toClient' = [toClient EXCEPT ![p] = Tail(@)]
    /\ outstanding' = [outstanding EXCEPT ![p] = @ - 1]
    /\ LET m == Head(toClient[p])
       IN  \/ p = "/login" /\ onLoginMessage(m)
           \/ p = "/transaction" /\ onTransactionMessage(m)
           \/ p = "/create_account" /\ onAccountMessage(m)
    /\ UNCHANGED <<clicks, socket, toServer, server>>

Connected(p) ==
    /\ socket[p] = "opening"
    /\ socket' = [socket EXCEPT ![p] = "up"]
    /\ UNCHANGED <<clientVars, toServer, toClient, outstanding, server>>

(* Mutant: nobody listens to errorOccurred of the login socket. *)
ErrorIgnored(p) == UNCHANGED session

(* errorOccurred is connected for the login socket only. *)
ErrorOccurred(p) ==
    IF p = "/login" THEN LoginResult(FALSE) ELSE UNCHANGED session

(* A socket cannot be opened, or breaks with what is under way on it. *)
Disconnected(p) ==
    /\ p \in Flaky /\ socket[p] # "down"
    /\ socket' = [socket EXCEPT ![p] = "down"]
    /\ toServer' = [toServer EXCEPT ![p] = <<>>]
    /\ toClient' = [toClient EXCEPT ![p] = <<>>]
    /\ outstanding' = [outstanding EXCEPT ![p] = 0]
    /\ ErrorOccurred(p)
    /\ UNCHANGED <<cache, clicks, server>>

UserStep == login \/ refresh \/ logout \/ createAccount \/ sendMoney \/ adminTransaction

Work(w) ==
    \/ PopRequest(w)
    \/ ReadAccounts(w) \/ StoreAccounts(w) \/ CompleteLogin(w) \/ LoginHangs(w)
    \/ CommitTransaction(w) \/ ApplyTransaction(w) \/ TransactionHangs(w)
    \/ GetBalance(w)

(* Messages arrive and are dealt with. *)
SystemStep ==
    \/ \E p \in Paths : Handle(p) \/ Deliver(p)
    \/ \E w \in Workers : Work(w)

BCNext ==
    \/ UserStep
    \/ SystemStep
    \/ \E p \in Paths : HandleOther(p) \/ Connected(p) \/ Disconnected(p)

(* The network and the server's threads run; users and other programs do   *)
(* what they like.                                                         *)
BCFairness == WF_bcVars(SystemStep)

BCSpec == BCInit /\ [][BCNext]_bcVars /\ BCFairness

-----------------------------------------------------------------------------
(* The cache, the session, the sockets and the counters keep their types. *)
ClientTypeOK ==
    /\ cache \in [name : Users \union {None}, accountId : Accounts \union {None},
                  balanceCents : Int, infoAvailable : BOOLEAN,
                  lastTarget : Accounts \union {None}]
    /\ session \in [user : Users \union {None}, page : {"login", "dashboard"},
                    waiting : BOOLEAN]
    /\ socket \in [Paths -> {"opening", "up", "down"}]
    /\ \A p \in Paths : Len(queued[p]) <= Capacity /\ outstanding[p] \in 0..MaxClicks
    /\ \A w \in Workers : Cardinality(job[w]) <= 1
    /\ \A w \in Workers : job[w] = {} => stage[w] = "start" /\ w \notin hung
    /\ \A a \in Accounts : mem[a] \in had[a]

(* onTransactionMessage(), onLoginMessage(): the balance the client shows  *)
(* is one the server has had in memory for the account it shows, never     *)
(* that of another account or a failed attempt's 0, although replies       *)
(* overtake each other.  (Memory's balance need never have been the        *)
(* account's: BankServer's MirrorInStep.)                                  *)
CacheWasTrue ==
    cache.infoAvailable /\ cache.accountId # None =>
        cache.balanceCents \in had[cache.accountId]

(* Two programs, one protocol: the controllers read every message of       *)
(* BackendClient as the request its user meant.                            *)
ClientAndServerAgree ==
    \A p \in Paths : \A i \in DOMAIN toServer[p] :
        Parse(p, toServer[p][i].json) = {toServer[p][i].meant}

(* A worker of the pool behind a path waits for ever. *)
Hangs(p) == \E w \in hung : PathOf(w) = p

(* Every message the client sends is answered, by whichever of the         *)
(* controller, create_account(), login() and transaction() is the one to   *)
(* do so, unless the socket breaks, a full ring has swallowed a request,   *)
(* or a worker of the pool hangs on a mutex that a transfer to oneself or  *)
(* of nothing has left locked.                                             *)
EverySentIsHeard ==
    \A p \in Paths : outstanding[p] > 0 ~> outstanding[p] = 0 \/ p \in lost \/ Hangs(p)

(* LoginPage: the login button comes back, also when the socket breaks     *)
(* while the login is under way; with the same exceptions.                 *)
LoginButtonComesBack ==
    session.waiting ~> ~session.waiting \/ "/login" \in lost \/ Hangs("/login")

(* logout() drops back to "not logged in": without a user there is no      *)
(* account on display or to send money from.                               *)
LogoutSticks == session.user = None => ~cache.infoAvailable
=============================================================================
