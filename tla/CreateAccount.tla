--------------------------- MODULE CreateAccount ---------------------------
(***************************************************************************)
(* Load_DB::create_account (backend/include/database_loader.hpp).  The     *)
(* controller calls it on an event loop thread; the server has two, so two *)
(* calls may run at a time, on the one connection connect_database points  *)
(* to and without connectionMutex_.                                        *)
(*                                                                         *)
(* pqxx and PostgreSQL are external.  A connection has room for one        *)
(* pqxx::work, whose constructor throws when there is one already; a       *)
(* failed statement aborts the block, and every later statement of it      *)
(* fails; the sequence behind user_id is not rolled back.  A pqxx::work    *)
(* whose connection has been destroyed, or two constructors that run at    *)
(* once, are undefined: the process goes down or the call ends in ERROR.   *)
(***************************************************************************)
EXTENDS Integers, FiniteSets

CONSTANTS
    Threads,          \* event loop threads
    NoThread,         \* "no block is open"
    Numbers,          \* account numbers generateCandidate() may draw
    InitialAccounts,  \* rows of Account_Table at startup, one for each user
    MAX_RETRIES,
    MaxCreations,     \* bound: create_account requests
    MaxFailures       \* bound: times a connection breaks

NoUser == 0           \* std::nullopt of user_id
NoNumber == 0         \* the empty accountNumber

ASSUME ThreadsAssumption == NoThread \notin Threads /\ IsFiniteSet(Threads)

ASSUME InitialAssumption ==
    /\ Numbers \subseteq Nat \ {NoNumber}
    /\ InitialAccounts \subseteq [user : Nat, number : Numbers]
    /\ IsFiniteSet(InitialAccounts)
    /\ \A a, b \in InitialAccounts : a.number = b.number => a = b
    /\ {a.user : a \in InitialAccounts} = 1..Cardinality(InitialAccounts)

ASSUME CreationBounds ==
    MAX_RETRIES \in Nat /\ MaxCreations \in Nat /\ MaxFailures \in Nat

VARIABLES
    users, accounts,   \* committed rows of User_Table and Account_Table
    nextUser,          \* the sequence behind user_id
    loaded,            \* keys of bank_db
    pepper,            \* is the environment variable PEPPER set?
    isOpen, connId,    \* connect_database: is_open(), and which object it is
    block,             \* the block open on that object
    cpc,               \* where a thread is in create_account()
    creq,              \* its AccountCreationRequest
    onConn,            \* the object its pqxx::work refers to
    attempt, accountNumber,
    creply,            \* what it sent
    crashed,           \* undefined behaviour has taken the process down
    created, failures

dbTables == <<users, accounts, nextUser>>
connection == <<isOpen, connId, block>>
call == <<creq, onConn, attempt, accountNumber>>
environment == <<loaded, pepper>>
caVars == <<dbTables, environment, connection, cpc, call, creply, crashed,
            created, failures>>

UserIds == 1..(Cardinality(InitialAccounts) + MaxCreations)

NoBlock == [owner |-> NoThread, users |-> {}, accounts |-> {}, aborted |-> FALSE]

(* is_new: the request carries no user_id; the field is filled in on       *)
(* registration.  password_ok: the password is the user's own.             *)
CreationRequest == [user_id : {NoUser} \union UserIds, is_new : BOOLEAN,
                    password_ok : BOOLEAN]

NoCreation == [user_id |-> NoUser, is_new |-> FALSE, password_ok |-> FALSE]

CAInit ==
    /\ users = {a.user : a \in InitialAccounts}
    /\ accounts = InitialAccounts
    /\ nextUser = Cardinality(InitialAccounts) + 1
    /\ loaded = users
    /\ pepper \in BOOLEAN
    /\ isOpen = TRUE
    /\ connId = 0
    /\ block = NoBlock
    /\ cpc = [t \in Threads |-> "idle"]
    /\ creq = [t \in Threads |-> NoCreation]
    /\ onConn = [t \in Threads |-> 0]
    /\ attempt = [t \in Threads |-> 0]
    /\ accountNumber = [t \in Threads |-> NoNumber]
    /\ creply = [t \in Threads |-> "none"]
    /\ crashed = FALSE
    /\ created = 0
    /\ failures = 0

At(t, place) == cpc[t] = place /\ ~crashed

Goto(t, place) == cpc' = [cpc EXCEPT ![t] = place]

(* a.connection->send(...) and return. *)
Answer(t, text) ==
    /\ creply' = [creply EXCEPT ![t] = text]
    /\ Goto(t, "idle")

InBlock == {"verify", "register", "insert", "commit", "unwind"}

(* Is the object the pqxx::work of t refers to still there? *)
Mine(t) == onConn[t] = connId

-----------------------------------------------------------------------------
(* The controller calls create_account(): for a new user, for one who is   *)
(* there, or under an id nobody has.                                       *)
Receive(t) ==
    /\ At(t, "idle")
    /\ created < MaxCreations
    /\ created' = created + 1
    /\ \E u \in users \union {NoUser, nextUser}, ok \in BOOLEAN :
           /\ u \in UserIds \union {NoUser}
           /\ creq' = [creq EXCEPT ![t] =
                  [user_id |-> u, is_new |-> (u = NoUser), password_ok |-> ok]]
    /\ attempt' = [attempt EXCEPT ![t] = 0]
    /\ accountNumber' = [accountNumber EXCEPT ![t] = NoNumber]
    /\ creply' = [creply EXCEPT ![t] = "none"]
    /\ Goto(t, "is_open")
    /\ UNCHANGED <<dbTables, environment, connection, onConn, crashed, failures>>

CheckOpen(t) ==
    /\ At(t, "is_open")
    /\ Goto(t, IF isOpen THEN "work" ELSE "establish")
    /\ UNCHANGED <<dbTables, environment, connection, call, creply, crashed,
                   created, failures>>

(* establish_connection(): the new object replaces, and so destroys, the   *)
(* one another thread may have a block on, and the database rolls that     *)
(* back.  The constructor throws when the database cannot be reached.      *)
EstablishConnection(t) ==
    /\ At(t, "establish")
    /\ \/ /\ connId' = connId + 1
          /\ isOpen' = TRUE
          /\ block' = NoBlock
          /\ Goto(t, "recheck")
          /\ UNCHANGED <<creply, failures>>
       \/ /\ failures < MaxFailures
          /\ failures' = failures + 1
          /\ Answer(t, "ERROR")
          /\ UNCHANGED connection
    /\ UNCHANGED <<dbTables, environment, call, crashed, created>>

(* The second look at is_open(). *)
Recheck(t) ==
    /\ At(t, "recheck")
    /\ \/ isOpen /\ Goto(t, "work") /\ UNCHANGED creply
       \/ ~isOpen /\ Answer(t, "Couldn't connect")
    /\ UNCHANGED <<dbTables, environment, connection, call, crashed, created,
                   failures>>

(* The pqxx::work on connect_database: it throws when the connection is    *)
(* closed or has a block already.                                          *)
OpenBlock(t) ==
    /\ At(t, "work")
    /\ \/ /\ ~isOpen \/ block.owner # NoThread
          /\ Answer(t, "ERROR")
          /\ UNCHANGED <<block, onConn>>
       \/ /\ isOpen /\ block.owner = NoThread
          /\ block' = [NoBlock EXCEPT !.owner = t]
          /\ onConn' = [onConn EXCEPT ![t] = connId]
          /\ Goto(t, IF creq[t].is_new THEN "register" ELSE "verify")
          /\ UNCHANGED creply
    /\ UNCHANGED <<dbTables, environment, isOpen, connId, creq, attempt,
                   accountNumber, crashed, created, failures>>

(* Two threads are in that constructor at once. *)
RaceInConstructor(t) ==
    /\ At(t, "work") /\ isOpen
    /\ \E other \in Threads \ {t} : At(other, "work")
    /\ \/ crashed' = TRUE /\ UNCHANGED <<cpc, creply>>
       \/ Answer(t, "ERROR") /\ UNCHANGED crashed
    /\ UNCHANGED <<dbTables, environment, connection, call, created, failures>>

(* Mutant: the block outlives the call that opened it. *)
ForgetBlock == UNCHANGED block

(* The pqxx::work is destroyed without commit(). *)
RollBack == block' = NoBlock

(* Mutant: a user who is loaded needs no password. *)
CachedIsVerified(t) ==
    LET r == creq[t]
    IN  r.user_id \in loaded \/ (r.user_id \in users /\ r.password_ok /\ pepper)

(* Neither checks nor makes a hash without the environment variable. *)
verify_password(r) == r.password_ok /\ pepper

hash_password == pepper

(* A user found in bank_db is never verified, and so refused; any other    *)
(* is verified against the hash in User_Table, which needs the pepper.     *)
Verified(t) ==
    LET r == creq[t]
    IN  r.user_id \notin loaded /\ r.user_id \in users /\ verify_password(r)

Verify(t) ==
    /\ At(t, "verify") /\ Mine(t)
    /\ \/ Verified(t) /\ Goto(t, "insert") /\ UNCHANGED <<block, creply>>
       \/ ~Verified(t) /\ RollBack /\ Answer(t, "Invalid username or password")
    /\ UNCHANGED <<dbTables, environment, isOpen, connId, call, crashed,
                   created, failures>>

(* Mutant: the user is stored in a block of his own. *)
RegisterAlone(t) ==
    /\ At(t, "register") /\ Mine(t) /\ pepper
    /\ users' = users \union {nextUser}
    /\ creq' = [creq EXCEPT ![t].user_id = nextUser]
    /\ nextUser' = nextUser + 1
    /\ Goto(t, "insert")
    /\ UNCHANGED <<accounts, environment, connection, onConn, attempt,
                   accountNumber, creply, crashed, created, failures>>

(* hash_password() and INSERT INTO User_Table ... RETURNING user_id, which *)
(* the constraints of the table may refuse.                                *)
Register(t) ==
    /\ At(t, "register") /\ Mine(t)
    /\ \/ /\ hash_password
          /\ block' = [block EXCEPT !.users = {nextUser}]
          /\ creq' = [creq EXCEPT ![t].user_id = nextUser]
          /\ nextUser' = nextUser + 1
          /\ Goto(t, "insert")
          /\ UNCHANGED creply
       \/ /\ RollBack
          /\ Answer(t, IF hash_password THEN "ERROR" ELSE "Error")
          /\ UNCHANGED <<creq, nextUser>>
    /\ UNCHANGED <<users, accounts, environment, isOpen, connId, onConn, attempt,
                   accountNumber, crashed, created, failures>>

(* The numbers it may draw; nothing keeps it off numbers already taken. *)
generateCandidate == Numbers

Collides(n) == \E a \in accounts : a.number = n

(* Mutant: a failed attempt is not counted. *)
EndlessRetry(t) == UNCHANGED attempt

(* attempt++ of the for loop. *)
NextAttempt(t) == attempt' = [attempt EXCEPT ![t] = @ + 1]

(* Mutant: the loop makes one attempt too many. *)
MayRetryOnceMore(t) == attempt[t] <= MAX_RETRIES

(* attempt < MAX_RETRIES *)
MayRetry(t) == attempt[t] < MAX_RETRIES

(* One turn of the retry loop: INSERT INTO Account_Table under a candidate *)
(* number.  A collision aborts the block, and the retries fail with it.    *)
InsertAccount(t) ==
    /\ At(t, "insert") /\ Mine(t)
    /\ MayRetry(t)
    /\ \E n \in generateCandidate :
           /\ accountNumber' = [accountNumber EXCEPT ![t] = n]
           /\ \/ /\ ~block.aborted /\ ~Collides(n)
                 /\ block' = [block EXCEPT !.accounts =
                                  {[user |-> creq[t].user_id, number |-> n]}]
                 /\ Goto(t, "commit")
              \/ /\ block.aborted \/ Collides(n)
                 /\ block' = [block EXCEPT !.aborted = TRUE]
                 /\ UNCHANGED cpc
    /\ NextAttempt(t)
    /\ UNCHANGED <<dbTables, environment, isOpen, connId, creq, onConn, creply,
                   crashed, created, failures>>

(* if (!inserted) *)
GiveUp(t) ==
    /\ At(t, "insert") /\ Mine(t)
    /\ ~MayRetry(t)
    /\ RollBack
    /\ Answer(t, "Account creation failed")
    /\ UNCHANGED <<dbTables, environment, isOpen, connId, call, crashed, created,
                   failures>>

(* The rows of the block become visible. *)
Install ==
    /\ users' = users \union block.users
    /\ accounts' = accounts \union block.accounts

(* user.commit() *)
CommitBlock(t) ==
    /\ At(t, "commit") /\ Mine(t)
    /\ Install
    /\ RollBack
    /\ Answer(t, "Success")
    /\ UNCHANGED <<nextUser, environment, isOpen, connId, call, crashed, created,
                   failures>>

(* A statement or the commit fails because the connection is lost; a       *)
(* commit may have taken place all the same.                               *)
LoseConnection(t) ==
    /\ cpc[t] \in {"verify", "register", "insert", "commit"} /\ ~crashed /\ Mine(t)
    /\ failures < MaxFailures
    /\ failures' = failures + 1
    /\ isOpen' = FALSE
    /\ block' = [NoBlock EXCEPT !.owner = t]
    /\ \/ UNCHANGED <<users, accounts>>
       \/ cpc[t] = "commit" /\ Install
    /\ Goto(t, "unwind")
    /\ UNCHANGED <<nextUser, environment, connId, call, creply, crashed, created>>

(* catch (std::exception &e), after the pqxx::work has been destroyed. *)
Unwind(t) ==
    /\ At(t, "unwind") /\ Mine(t)
    /\ RollBack
    /\ Answer(t, "ERROR")
    /\ UNCHANGED <<dbTables, environment, isOpen, connId, call, crashed, created,
                   failures>>

(* The connection has been replaced under the pqxx::work of t. *)
Dangle(t) ==
    /\ cpc[t] \in InBlock /\ ~crashed /\ ~Mine(t)
    /\ \/ crashed' = TRUE /\ UNCHANGED <<cpc, creply>>
       \/ Answer(t, "ERROR") /\ UNCHANGED crashed
    /\ UNCHANGED <<dbTables, environment, connection, call, created, failures>>

(* A login puts its user into bank_db. *)
LoadUser ==
    /\ ~crashed
    /\ \E u \in users \ loaded : loaded' = loaded \union {u}
    /\ UNCHANGED <<dbTables, pepper, connection, cpc, call, creply, crashed,
                   created, failures>>

Step(t) ==
    \/ CheckOpen(t) \/ EstablishConnection(t) \/ Recheck(t) \/ OpenBlock(t)
    \/ RaceInConstructor(t) \/ Verify(t) \/ Register(t) \/ InsertAccount(t)
    \/ GiveUp(t) \/ CommitBlock(t) \/ LoseConnection(t) \/ Unwind(t) \/ Dangle(t)

CANext == (\E t \in Threads : Receive(t) \/ Step(t)) \/ LoadUser

CAFairness == \A t \in Threads : WF_caVars(Step(t))

CASpec == CAInit /\ [][CANext]_caVars /\ CAFairness

-----------------------------------------------------------------------------
Refusals == {"Couldn't connect", "Invalid username or password", "Error",
             "Account creation failed"}

(* Rows, the block, the threads and their requests keep their types. *)
CTypeOK ==
    /\ users \subseteq UserIds
    /\ accounts \subseteq [user : UserIds, number : Numbers]
    /\ nextUser \in UserIds \union {Cardinality(UserIds) + 1}
    /\ loaded \subseteq users
    /\ block \in [owner : Threads \union {NoThread}, users : SUBSET UserIds,
                  accounts : SUBSET [user : UserIds, number : Numbers],
                  aborted : BOOLEAN]
    /\ cpc \in [Threads -> {"idle", "is_open", "establish", "recheck", "work"}
                               \union InBlock]
    /\ creq \in [Threads -> CreationRequest]
    /\ \A t \in Threads : onConn[t] \in 0..connId
    /\ attempt \in [Threads -> 0..MAX_RETRIES]
    /\ creply \in [Threads -> {"none", "Success", "ERROR"} \union Refusals]

(* create_account(): "Success" means that the account is in the table and  *)
(* belongs to the user of the request, who is new or gave the password;    *)
(* any answer but "Success" and "ERROR" leaves no trace of a new user.     *)
CreationAnswerIsTrue ==
    \A t \in Threads :
        /\ creply[t] = "Success" =>
               /\ [user |-> creq[t].user_id, number |-> accountNumber[t]] \in accounts
               /\ creq[t].is_new \/ creq[t].password_ok
        /\ creply[t] \in Refusals /\ creq[t].is_new => creq[t].user_id \notin users

(* The early returns of create_account(): the block open on the shared     *)
(* connection is that of a thread still inside its block, so that a call   *)
(* that has ended never shuts out the next one.                            *)
NoAbandonedBlock ==
    block.owner # NoThread => cpc[block.owner] \in InBlock /\ Mine(block.owner)

RegistryView == INSTANCE Registry

(* Registration and the account are one block: User_Table and              *)
(* Account_Table change as the abstract registry does, whatever fails or   *)
(* is repeated in between.                                                 *)
RefinesRegistry == RegistryView!RegistrySpec

(* Every request for an account is answered, unless the process is down:   *)
(* the retry loop ends, and a connection that is lost is replaced.         *)
EveryCreationAnswered ==
    \A t \in Threads : cpc[t] # "idle" ~> cpc[t] = "idle" \/ crashed
=============================================================================
