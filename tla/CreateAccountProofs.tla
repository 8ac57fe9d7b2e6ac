------------------------ MODULE CreateAccountProofs ------------------------
(***************************************************************************)
(* Proofs about CreateAccount, for any number of threads, requests,        *)
(* retries and failures and every content of the tables at startup.        *)
(***************************************************************************)
EXTENDS CreateAccount, FiniteSetTheorems, TLAPS

K == Cardinality(InitialAccounts)

-----------------------------------------------------------------------------
(* Requests for a new user whose id has not been drawn yet. *)
Unregistered ==
    {t \in Threads : /\ cpc[t] \in {"is_open", "establish", "recheck", "work",
                                     "register"}
                     /\ creq[t].is_new}

(* The types CTypeOK leaves out, and the room UserIds has left. *)
Counters ==
    /\ isOpen \in BOOLEAN
    /\ connId \in Nat
    /\ onConn \in [Threads -> Nat]
    /\ accountNumber \in [Threads -> Numbers \union {NoNumber}]
    /\ nextUser \in Nat
    /\ created \in 0..MaxCreations
    /\ nextUser + Cardinality(Unregistered) <= K + 1 + created

(* The sequence behind user_id: an id is drawn once. *)
FreshIds ==
    /\ \A u \in users : u < nextUser
    /\ \A t \in Threads : creq[t].is_new =>
          /\ creq[t].user_id < nextUser
          /\ t \in Unregistered => creq[t].user_id = NoUser
          /\ \A s \in Threads \ {t} :
                creq[s].is_new /\ creq[s].user_id = creq[t].user_id =>
                    creq[s].user_id = NoUser

(* What the block of a thread holds at each place of create_account(). *)
Rows(t) ==
    /\ cpc[t] = "register" <=> creq[t].is_new /\ creq[t].user_id = NoUser
    /\ cpc[t] \in {"insert", "commit"} =>
          /\ block.users = IF creq[t].is_new THEN {creq[t].user_id} ELSE {}
          /\ creq[t].user_id \in UserIds
          /\ creq[t].is_new <=> creq[t].user_id \notin users
          /\ creq[t].is_new \/ creq[t].password_ok
    /\ cpc[t] = "commit" =>
          /\ accountNumber[t] \in Numbers
          /\ ~Collides(accountNumber[t])
          /\ block.accounts =
                {[user |-> creq[t].user_id, number |-> accountNumber[t]]}
    /\ cpc[t] = "verify" => ~creq[t].is_new /\ block.users = {}

(* A thread inside its block, on a connection that is still there, owns    *)
(* the block; one that has not been answered has sent nothing.             *)
BlockOf(t) ==
    /\ cpc[t] \in InBlock /\ Mine(t) =>
          block.owner = t /\ (cpc[t] # "unwind" => Rows(t))
    /\ cpc[t] # "idle" => creply[t] = "none"

Blocks == \A t \in Threads : BlockOf(t)

CAInv == /\ CTypeOK /\ Counters /\ FreshIds
         /\ NoAbandonedBlock /\ Blocks
         /\ CreationAnswerIsTrue

-----------------------------------------------------------------------------
(* The ids a user may be given are 1, 2, ... up to a bound. *)
LEMMA IdsAreNumbers ==
    /\ K \in Nat
    /\ UserIds = 1..(K + MaxCreations)
    /\ Cardinality(UserIds) = K + MaxCreations
    /\ NoUser \notin UserIds
<1>1. K \in Nat
  BY InitialAssumption, FS_CardinalityType DEF K
<1>2. UserIds = 1..(K + MaxCreations)
  BY DEF UserIds, K
<1>3. Cardinality(UserIds) = K + MaxCreations
  <2> DEFINE n == K + MaxCreations
  <2>1. n \in Nat
    BY <1>1, CreationBounds
  <2> HIDE DEF n
  <2>2. Cardinality(1..n) = IF 1 > n THEN 0 ELSE n - 1 + 1
    BY <2>1, FS_Interval
  <2>3. Cardinality(1..n) = n
    BY <2>1, <2>2
  <2> QED
    BY <1>2, <2>3 DEF n
<1> QED
  BY <1>1, <1>2, <1>3 DEF NoUser

(* At startup the tables hold InitialAccounts and nothing is under way. *)
LEMMA InitCAInv == CAInit => CAInv
<1> SUFFICES ASSUME CAInit
             PROVE  CAInv
  OBVIOUS
<1> USE DEF CAInit, NoBlock, NoCreation
<1>1. users = 1..K
  BY InitialAssumption DEF K
<1>2. CTypeOK
  <2>0. 1..K \subseteq 1..(K + MaxCreations)
    BY IdsAreNumbers, CreationBounds
  <2>1. users \subseteq UserIds
    BY <1>1, <2>0, IdsAreNumbers
  <2>2. accounts \subseteq [user : UserIds, number : Numbers]
    BY <2>1, InitialAssumption
  <2>3. nextUser \in UserIds \union {Cardinality(UserIds) + 1}
    BY IdsAreNumbers, CreationBounds DEF K
  <2>4. NoCreation \in CreationRequest
    BY DEF CreationRequest
  <2>5. block \in [owner : Threads \union {NoThread}, users : SUBSET UserIds,
                  accounts : SUBSET [user : UserIds, number : Numbers],
                  aborted : BOOLEAN]
    OBVIOUS
  <2> QED
    BY <2>1, <2>2, <2>3, <2>4, <2>5, CreationBounds DEF CTypeOK, Refusals
<1>3. Counters
  <2>1. Unregistered = {}
    BY DEF Unregistered
  <2> QED
    BY <2>1, FS_EmptySet, IdsAreNumbers, CreationBounds DEF Counters, K
<1>4. FreshIds
  BY <1>1, IdsAreNumbers DEF FreshIds, K
<1>5. NoAbandonedBlock /\ Blocks /\ CreationAnswerIsTrue
  BY DEF NoAbandonedBlock, Blocks, BlockOf, InBlock, CreationAnswerIsTrue, Refusals
<1> QED
  BY <1>2, <1>3, <1>4, <1>5 DEF CAInv

(* Steps that neither begin a request nor draw an id leave UserIds as much *)
(* room as it had.                                                         *)
LEMMA RoomIsKept ==
    ASSUME CTypeOK, Counters, Unregistered' \subseteq Unregistered,
           UNCHANGED <<nextUser, created>>
    PROVE  /\ nextUser' \in Nat
           /\ created' \in 0..MaxCreations
           /\ nextUser' + Cardinality(Unregistered') <= K + 1 + created'
<1>1. IsFiniteSet(Unregistered)
  BY ThreadsAssumption, FS_Subset DEF Unregistered
<1>2. /\ Cardinality(Unregistered) \in Nat
      /\ Cardinality(Unregistered') \in Nat
      /\ Cardinality(Unregistered') <= Cardinality(Unregistered)
  BY <1>1, FS_Subset, FS_CardinalityType
<1> QED
  BY <1>2, IdsAreNumbers, CreationBounds DEF Counters

(* CreationAnswerIsTrue of one thread. *)
AnswerTrue(t) ==
    /\ creply[t] = "Success" =>
           /\ [user |-> creq[t].user_id, number |-> accountNumber[t]] \in accounts
           /\ creq[t].is_new \/ creq[t].password_ok
    /\ creply[t] \in Refusals /\ creq[t].is_new => creq[t].user_id \notin users

LEMMA AnswersOfAll == CreationAnswerIsTrue <=> \A t \in Threads : AnswerTrue(t)
BY DEF CreationAnswerIsTrue, AnswerTrue

(* A step of thread t leaves what other threads keep to themselves alone. *)
SameElsewhere(t) ==
    \A s \in Threads \ {t} :
        /\ cpc'[s] = cpc[s] /\ creq'[s] = creq[s] /\ onConn'[s] = onConn[s]
        /\ accountNumber'[s] = accountNumber[s] /\ creply'[s] = creply[s]

(* What t does to the connection, the block and the tables is no concern   *)
(* of the blocks of others: nothing is changed, or the connection is a new *)
(* one, or the block was nobody's or t's own.                              *)
NotTheirs(t) ==
    \/ UNCHANGED <<connId, block, users, accounts>>
    \/ connId' > connId
    \/ connId' = connId /\ block.owner \in {t, NoThread}

LEMMA OthersKeepBlocks ==
    ASSUME CAInv, NEW t \in Threads, SameElsewhere(t), NotTheirs(t), connId' \in Nat
    PROVE  \A s \in Threads \ {t} : BlockOf(s)'
<1> SUFFICES ASSUME NEW s \in Threads \ {t}
             PROVE  BlockOf(s)'
  OBVIOUS
<1>1. BlockOf(s)
  BY DEF CAInv, Blocks
<1>2. cpc'[s] = cpc[s] /\ creq'[s] = creq[s] /\ onConn'[s] = onConn[s]
      /\ accountNumber'[s] = accountNumber[s] /\ creply'[s] = creply[s]
  BY DEF SameElsewhere
<1>3. CASE UNCHANGED <<connId, block, users, accounts>>
  BY <1>1, <1>2, <1>3 DEF BlockOf, Rows, Mine, Collides
<1>4. CASE connId' > connId
  <2>1. onConn[s] <= connId /\ onConn[s] \in Nat /\ connId \in Nat
    BY DEF CAInv, CTypeOK, Counters
  <2>2. ~Mine(s)'
    BY <1>2, <1>4, <2>1 DEF Mine
  <2> QED
    BY <1>1, <1>2, <2>2 DEF BlockOf
<1>5. CASE connId' = connId /\ block.owner \in {t, NoThread}
  <2>1. ~(cpc[s] \in InBlock /\ Mine(s))
    BY <1>1, <1>5, ThreadsAssumption DEF BlockOf
  <2> QED
    BY <1>1, <1>2, <1>5, <2>1 DEF BlockOf, Mine
<1> QED
  BY <1>3, <1>4, <1>5 DEF NotTheirs

(* A step of t that draws no id: the invariant holds again if it holds for *)
(* t, provided that the only user t may store is the one of its request.   *)
LEMMA StepOfOne ==
    ASSUME CAInv, NEW t \in Threads, SameElsewhere(t), NotTheirs(t),
           UNCHANGED <<nextUser, created, creq>>,
           Unregistered' \subseteq Unregistered,
           CTypeOK', isOpen' \in BOOLEAN, connId' \in Nat,
           onConn' \in [Threads -> Nat],
           accountNumber' \in [Threads -> Numbers \union {NoNumber}],
           accounts \subseteq accounts',
           \A u \in users' \ users :
               creq[t].is_new /\ creq[t].user_id = u /\ u \in UserIds,
           NoAbandonedBlock', BlockOf(t)', AnswerTrue(t)'
    PROVE  CAInv'
<1>1. Counters'
  BY RoomIsKept DEF CAInv, Counters
<1>2. FreshIds'
  BY DEF CAInv, FreshIds
<1>3. Blocks'
  BY OthersKeepBlocks DEF Blocks
<1>4. ASSUME NEW s \in Threads \ {t}
      PROVE  AnswerTrue(s)'
  <2>1. AnswerTrue(s)
    BY AnswersOfAll DEF CAInv
  <2>2. creq[s].is_new /\ creq[s].user_id \in users' => creq[s].user_id \in users
    BY IdsAreNumbers DEF CAInv, FreshIds
  <2> QED
    BY <2>1, <2>2 DEF AnswerTrue, SameElsewhere
<1>5. CreationAnswerIsTrue'
  BY <1>4 DEF CreationAnswerIsTrue, AnswerTrue
<1> QED
  BY <1>1, <1>2, <1>3, <1>5 DEF CAInv

Places == {"idle", "is_open", "establish", "recheck", "work"} \union InBlock

BlockType == [owner : Threads \union {NoThread}, users : SUBSET UserIds,
              accounts : SUBSET [user : UserIds, number : Numbers],
              aborted : BOOLEAN]

LEMMA NoBlockType == NoBlock \in BlockType
BY DEF NoBlock, BlockType

(* The return of create_account() with an error or a refusal, from inside  *)
(* its block, which is rolled back, or from outside.                       *)
LEMMA AnswerKeepsInv ==
    ASSUME CAInv, NEW t \in Threads, NEW text \in {"ERROR"} \union Refusals,
           cpc[t] # "idle", Answer(t, text),
           text \in Refusals /\ creq[t].is_new => creq[t].user_id \notin users,
           UNCHANGED <<users, accounts, nextUser, created, loaded, connId,
                       isOpen, call>>,
           \/ cpc[t] \in InBlock /\ Mine(t) /\ block' = NoBlock
           \/ ~(cpc[t] \in InBlock /\ Mine(t)) /\ block' = block
    PROVE  CAInv'
<1>1. /\ cpc \in [Threads -> Places]
      /\ creply \in [Threads -> {"none", "Success", "ERROR"} \union Refusals]
      /\ block \in BlockType
  BY DEF CAInv, CTypeOK, Places, BlockType
<1>2. /\ cpc'[t] = "idle" /\ creply'[t] = text
      /\ \A s \in Threads \ {t} : cpc'[s] = cpc[s] /\ creply'[s] = creply[s]
      /\ cpc' \in [Threads -> Places]
      /\ creply' \in [Threads -> {"none", "Success", "ERROR"} \union Refusals]
  BY <1>1 DEF Answer, Goto, Places
<1>3. UNCHANGED <<creq, onConn, attempt, accountNumber, connId>>
  BY DEF call
<1>4. SameElsewhere(t)
  BY <1>2, <1>3 DEF SameElsewhere
<1>5. BlockOf(t)
  BY DEF CAInv, Blocks
<1>6. NotTheirs(t)
  BY <1>5 DEF NotTheirs, BlockOf
<1>7. Unregistered' \subseteq Unregistered
  BY <1>2, <1>3 DEF Unregistered
<1>8. block' \in BlockType
  BY <1>1, NoBlockType
<1>9. CTypeOK'
  BY <1>2, <1>3, <1>8 DEF CAInv, CTypeOK, Places, BlockType
<1>10. NoAbandonedBlock'
  <2>1. CASE block' = NoBlock
    BY <2>1 DEF NoAbandonedBlock, NoBlock
  <2>2. CASE ~(cpc[t] \in InBlock /\ Mine(t)) /\ block' = block
    <3>1. NoAbandonedBlock
      BY DEF CAInv
    <3>2. block.owner \in Threads \union {NoThread}
      BY <1>1 DEF BlockType
    <3> QED
      BY <1>2, <1>3, <2>2, <3>1, <3>2 DEF NoAbandonedBlock, Mine
  <2> QED
    BY <2>1, <2>2
<1>11. BlockOf(t)'
  BY <1>2 DEF BlockOf, InBlock
<1>12. AnswerTrue(t)'
  BY <1>2, <1>3 DEF AnswerTrue, Refusals
<1>13. /\ isOpen' \in BOOLEAN /\ connId' \in Nat /\ onConn' \in [Threads -> Nat]
       /\ accountNumber' \in [Threads -> Numbers \union {NoNumber}]
  BY <1>3 DEF CAInv, Counters
<1> QED
  BY <1>3, <1>4, <1>6, <1>7, <1>9, <1>10, <1>11, <1>12, <1>13, StepOfOne

(* A step within create_account() before the block is opened. *)
LEMMA MoveKeepsInv ==
    ASSUME CAInv, NEW t \in Threads, NEW place \in {"establish", "recheck", "work"},
           cpc[t] \in {"is_open", "establish", "recheck"}, Goto(t, place),
           UNCHANGED <<users, accounts, nextUser, created, loaded, call, creply>>,
           \/ UNCHANGED connection
           \/ connId' = connId + 1 /\ isOpen' = TRUE /\ block' = NoBlock
    PROVE  CAInv'
<1>1. /\ cpc \in [Threads -> Places]
      /\ block \in BlockType
      /\ isOpen \in BOOLEAN /\ connId \in Nat /\ onConn \in [Threads -> Nat]
      /\ \A s \in Threads : onConn[s] \in 0..connId
      /\ accountNumber \in [Threads -> Numbers \union {NoNumber}]
  BY DEF CAInv, CTypeOK, Counters, Places, BlockType
<1>2. /\ cpc'[t] = place
      /\ \A s \in Threads \ {t} : cpc'[s] = cpc[s]
      /\ cpc' \in [Threads -> Places]
  BY <1>1 DEF Goto, Places
<1>3. UNCHANGED <<creq, onConn, attempt, accountNumber, creply>>
  BY DEF call
<1>4. connId' \in Nat /\ (connId' > connId \/ UNCHANGED <<connId, block, isOpen>>)
  BY <1>1 DEF connection
<1>5. SameElsewhere(t)
  BY <1>2, <1>3 DEF SameElsewhere
<1>6. NotTheirs(t)
  BY <1>4 DEF NotTheirs
<1>7. Unregistered' \subseteq Unregistered
  BY <1>2, <1>3 DEF Unregistered
<1>8. block' \in BlockType /\ isOpen' \in BOOLEAN
  BY <1>1, NoBlockType DEF connection
<1>9. CTypeOK'
  <2>1. \A s \in Threads : onConn'[s] \in 0..connId'
    BY <1>1, <1>3, <1>4
  <2> QED
    BY <1>2, <1>3, <1>8, <2>1 DEF CAInv, CTypeOK, Places, BlockType
<1>10. NoAbandonedBlock'
  <2>1. CASE block' = NoBlock
    BY <2>1 DEF NoAbandonedBlock, NoBlock
  <2>2. CASE UNCHANGED connection
    <3>1. NoAbandonedBlock
      BY DEF CAInv
    <3>2. block.owner \in Threads \union {NoThread} /\ cpc[t] \notin InBlock
      BY <1>1 DEF BlockType, InBlock
    <3> QED
      BY <1>2, <1>3, <2>2, <3>1, <3>2 DEF NoAbandonedBlock, Mine, connection
  <2> QED
    BY <2>1, <2>2
<1>11. BlockOf(t) /\ AnswerTrue(t)
  BY AnswersOfAll DEF CAInv, Blocks
<1>12. BlockOf(t)'
  BY <1>2, <1>3, <1>11 DEF BlockOf, InBlock
<1>13. AnswerTrue(t)'
  BY <1>3, <1>11 DEF AnswerTrue
<1> QED
  BY <1>1, <1>3, <1>4, <1>5, <1>6, <1>7, <1>8, <1>9, <1>10, <1>12, <1>13, StepOfOne

(* A step that opens the block of t or goes on in it. *)
LEMMA BlockStepKeepsInv ==
    ASSUME CAInv, NEW t \in Threads, NEW place \in InBlock,
           cpc[t] \in {"work"} \union InBlock, Goto(t, place),
           place = "register" => cpc[t] = "work",
           UNCHANGED <<nextUser, created, creq, connId, creply>>,
           isOpen' \in BOOLEAN,
           block.owner \in {t, NoThread}, block' \in BlockType, block'.owner = t,
           onConn' = [onConn EXCEPT ![t] = connId],
           attempt' \in [Threads -> 0..MAX_RETRIES],
           accountNumber' \in [Threads -> Numbers \union {NoNumber}],
           \A s \in Threads \ {t} : accountNumber'[s] = accountNumber[s],
           accounts \subseteq accounts',
           accounts' \subseteq [user : UserIds, number : Numbers],
           users \subseteq users', loaded' \subseteq users',
           \A u \in users' \ users :
               creq[t].is_new /\ creq[t].user_id = u /\ u \in UserIds,
           place # "unwind" => Rows(t)'
    PROVE  CAInv'
<1>1. /\ cpc \in [Threads -> Places]
      /\ onConn \in [Threads -> Nat] /\ connId \in Nat
      /\ \A s \in Threads : onConn[s] \in 0..connId
  BY DEF CAInv, CTypeOK, Counters, Places
<1>2. /\ cpc'[t] = place
      /\ \A s \in Threads \ {t} : cpc'[s] = cpc[s]
      /\ cpc' \in [Threads -> Places]
  BY <1>1 DEF Goto, Places
<1>3. /\ onConn'[t] = connId
      /\ \A s \in Threads \ {t} : onConn'[s] = onConn[s]
      /\ onConn' \in [Threads -> Nat]
      /\ \A s \in Threads : onConn'[s] \in 0..connId'
  BY <1>1
<1>4. SameElsewhere(t)
  BY <1>2, <1>3 DEF SameElsewhere
<1>5. NotTheirs(t)
  BY DEF NotTheirs
<1>6. Unregistered' \subseteq Unregistered
  BY <1>2 DEF Unregistered, InBlock
<1>7. users' \subseteq UserIds
  BY DEF CAInv, CTypeOK
<1>8. CTypeOK'
  BY <1>2, <1>3, <1>7 DEF CAInv, CTypeOK, Places, BlockType
<1>9. NoAbandonedBlock'
  BY <1>2, <1>3 DEF NoAbandonedBlock, Mine
<1>10. BlockOf(t)
  BY DEF CAInv, Blocks
<1>11. creply'[t] = "none"
  BY <1>10 DEF BlockOf, InBlock
<1>12. BlockOf(t)'
  BY <1>2, <1>11 DEF BlockOf
<1>13. AnswerTrue(t)'
  BY <1>11 DEF AnswerTrue, Refusals
<1>14. connId' \in Nat
  BY <1>1
<1> QED
  BY <1>3, <1>4, <1>5, <1>6, <1>8, <1>9, <1>12, <1>13, <1>14, StepOfOne

-----------------------------------------------------------------------------
(* Receive: the request of t is a new one. *)
LEMMA ReceiveKeepsInv ==
    ASSUME CAInv, NEW t \in Threads, Receive(t)
    PROVE  CAInv'
<1>1. /\ cpc \in [Threads -> Places] /\ creq \in [Threads -> CreationRequest]
      /\ attempt \in [Threads -> 0..MAX_RETRIES]
      /\ accountNumber \in [Threads -> Numbers \union {NoNumber}]
      /\ creply \in [Threads -> {"none", "Success", "ERROR"} \union Refusals]
      /\ block \in BlockType
      /\ nextUser \in Nat /\ nextUser > 0 /\ created \in Nat
  BY IdsAreNumbers, CreationBounds DEF CAInv, CTypeOK, Counters, Places, BlockType
<1>2. PICK r \in CreationRequest : /\ creq' = [creq EXCEPT ![t] = r]
                                   /\ r.is_new => r.user_id = NoUser
  <2>1. PICK u \in users \union {NoUser, nextUser}, ok \in BOOLEAN :
           /\ u \in UserIds \union {NoUser}
           /\ creq' = [creq EXCEPT ![t] =
                  [user_id |-> u, is_new |-> (u = NoUser), password_ok |-> ok]]
    BY DEF Receive
  <2> DEFINE r == [user_id |-> u, is_new |-> (u = NoUser), password_ok |-> ok]
  <2>2. r \in CreationRequest
    BY <2>1 DEF CreationRequest
  <2> QED
    BY <2>1, <2>2
<1>3. /\ cpc[t] = "idle" /\ cpc'[t] = "is_open"
      /\ cpc' \in [Threads -> Places]
      /\ \A s \in Threads \ {t} : cpc'[s] = cpc[s]
  BY <1>1 DEF Receive, At, Goto, Places
<1>4. /\ creq'[t] = r /\ creq' \in [Threads -> CreationRequest]
      /\ \A s \in Threads \ {t} : creq'[s] = creq[s]
  BY <1>1, <1>2
<1>5. /\ creply'[t] = "none"
      /\ creply' \in [Threads -> {"none", "Success", "ERROR"} \union Refusals]
      /\ accountNumber' \in [Threads -> Numbers \union {NoNumber}]
      /\ attempt' \in [Threads -> 0..MAX_RETRIES]
      /\ \A s \in Threads \ {t} : /\ creply'[s] = creply[s]
                                  /\ accountNumber'[s] = accountNumber[s]
  BY <1>1, CreationBounds DEF Receive
<1>6. UNCHANGED <<users, accounts, nextUser, loaded, isOpen, connId, block, onConn>>
  BY DEF Receive, dbTables, environment, connection
<1>7. created < MaxCreations /\ created' = created + 1
  BY DEF Receive
<1>8. CTypeOK'
  BY <1>3, <1>4, <1>5, <1>6 DEF CAInv, CTypeOK, Places
<1>9. Counters'
  <2>1. t \notin Unregistered /\ Unregistered' \subseteq Unregistered \union {t}
    BY <1>3, <1>4 DEF Unregistered
  <2>2. IsFiniteSet(Unregistered)
    BY ThreadsAssumption, FS_Subset DEF Unregistered
  <2>3. /\ IsFiniteSet(Unregistered \union {t})
        /\ Cardinality(Unregistered \union {t}) = Cardinality(Unregistered) + 1
    BY <2>1, <2>2, FS_AddElement
  <2>4. /\ Cardinality(Unregistered) \in Nat /\ Cardinality(Unregistered') \in Nat
        /\ Cardinality(Unregistered') <= Cardinality(Unregistered) + 1
    BY <2>1, <2>2, <2>3, FS_Subset, FS_CardinalityType
  <2> QED
    BY <1>1, <1>5, <1>6, <1>7, <2>4, IdsAreNumbers, CreationBounds DEF CAInv, Counters
<1>10. FreshIds'
  <2>1. FreshIds
    BY DEF CAInv
  <2>2. \A s \in Threads \ {t} : s \in Unregistered' <=> s \in Unregistered
    BY <1>3, <1>4 DEF Unregistered
  <2> QED
    BY <1>1, <1>2, <1>4, <1>6, <2>1, <2>2 DEF FreshIds, NoUser
<1>11. NoAbandonedBlock'
  BY <1>1, <1>3, <1>6 DEF CAInv, NoAbandonedBlock, Mine, InBlock, BlockType
<1>12. Blocks'
  <2>1. SameElsewhere(t) /\ NotTheirs(t) /\ connId' \in Nat
    BY <1>3, <1>4, <1>5, <1>6 DEF SameElsewhere, NotTheirs, CAInv, Counters
  <2>2. BlockOf(t)'
    BY <1>3, <1>5 DEF BlockOf, InBlock
  <2> QED
    BY <2>1, <2>2, OthersKeepBlocks DEF Blocks
<1>13. CreationAnswerIsTrue'
  BY <1>4, <1>5, <1>6 DEF CAInv, CreationAnswerIsTrue, Refusals
<1> QED
  BY <1>8, <1>9, <1>10, <1>11, <1>12, <1>13 DEF CAInv

(* Register: the id of the new user is drawn from the sequence, and the    *)
(* block of t holds his row.                                               *)
LEMMA RegistrationKeepsInv ==
    ASSUME CAInv, NEW t \in Threads, At(t, "register"), Mine(t),
           block' = [block EXCEPT !.users = {nextUser}],
           creq' = [creq EXCEPT ![t].user_id = nextUser],
           nextUser' = nextUser + 1,
           Goto(t, "insert"),
           UNCHANGED <<users, accounts, loaded, isOpen, connId, onConn, attempt,
                       accountNumber, creply, created>>
    PROVE  CAInv'
<1>1. /\ cpc \in [Threads -> Places] /\ creq \in [Threads -> CreationRequest]
      /\ block \in BlockType
      /\ nextUser \in Nat /\ nextUser > 0 /\ created \in 0..MaxCreations
      /\ connId \in Nat
  BY IdsAreNumbers, CreationBounds DEF CAInv, CTypeOK, Counters, Places, BlockType
<1>2. cpc[t] = "register" /\ BlockOf(t) /\ FreshIds
  BY DEF CAInv, Blocks, At
<1>3. block.owner = t /\ Rows(t) /\ creply[t] = "none"
  BY <1>2 DEF BlockOf, InBlock
<1>4. creq[t].is_new
  BY <1>2, <1>3 DEF Rows
<1>5. t \in Unregistered
  BY <1>2, <1>4 DEF Unregistered
<1>6. /\ cpc'[t] = "insert" /\ cpc' \in [Threads -> Places]
      /\ \A s \in Threads \ {t} : cpc'[s] = cpc[s]
  BY <1>1 DEF Goto, Places, InBlock
<1>7. Unregistered' \subseteq Unregistered \ {t}
  BY <1>6 DEF Unregistered
<1>8. /\ Cardinality(Unregistered) \in Nat /\ Cardinality(Unregistered') \in Nat
      /\ Cardinality(Unregistered') <= Cardinality(Unregistered) - 1
  <2>1. IsFiniteSet(Unregistered)
    BY ThreadsAssumption, FS_Subset DEF Unregistered
  <2>2. /\ IsFiniteSet(Unregistered \ {t})
        /\ Cardinality(Unregistered \ {t}) = Cardinality(Unregistered) - 1
    BY <1>5, <2>1, FS_RemoveElement
  <2> QED
    BY <1>7, <2>1, <2>2, FS_Subset, FS_CardinalityType
<1>9. /\ nextUser \in UserIds
      /\ nextUser' \in UserIds \union {Cardinality(UserIds) + 1}
  BY <1>1, <1>8, IdsAreNumbers, CreationBounds DEF CAInv, Counters
<1>10. Counters'
  BY <1>1, <1>8, IdsAreNumbers, CreationBounds DEF CAInv, Counters
<1>11. /\ creq'[t].user_id = nextUser /\ creq'[t].is_new
       /\ creq' \in [Threads -> CreationRequest]
       /\ \A s \in Threads \ {t} : creq'[s] = creq[s]
  BY <1>1, <1>4, <1>9 DEF CreationRequest
<1>12. block' \in BlockType /\ block'.owner = t /\ block'.users = {nextUser}
  BY <1>1, <1>3, <1>9 DEF BlockType
<1>13. CTypeOK'
  BY <1>6, <1>9, <1>11, <1>12 DEF CAInv, CTypeOK, Places, BlockType
<1>14. FreshIds'
  <2>1. \A s \in Threads \ {t} : s \in Unregistered' <=> s \in Unregistered
    BY <1>6, <1>11 DEF Unregistered
  <2>2. t \notin Unregistered'
    BY <1>7
  <2>3. \A u \in users' : u < nextUser'
    BY <1>1, <1>2, IdsAreNumbers DEF FreshIds, CAInv, CTypeOK
  <2>4. \A s \in Threads : creq[s].user_id \in Nat
    BY <1>1, IdsAreNumbers, CreationBounds DEF CreationRequest, NoUser
  <2>5. \A s \in Threads \ {t} : creq'[s].is_new =>
          /\ creq'[s].user_id < nextUser
          /\ s \in Unregistered' => creq'[s].user_id = NoUser
    BY <1>2, <1>11, <2>1 DEF FreshIds
  <2>6. ASSUME NEW s \in Threads, creq'[s].is_new
        PROVE  /\ creq'[s].user_id < nextUser'
               /\ s \in Unregistered' => creq'[s].user_id = NoUser
    <3>1. CASE s = t
      BY <1>1, <1>11, <2>2, <3>1
    <3>2. CASE s # t
      BY <1>1, <1>11, <2>4, <2>5, <2>6, <3>2
    <3> QED
      BY <3>1, <3>2
  <2>7. ASSUME NEW s \in Threads, NEW q \in Threads \ {s}, creq'[s].is_new,
               creq'[q].is_new, creq'[q].user_id = creq'[s].user_id
        PROVE  creq'[q].user_id = NoUser
    <3>1. s # t /\ q # t
      BY <1>1, <1>11, <2>4, <2>5, <2>7
    <3> QED
      BY <1>2, <1>11, <2>7, <3>1 DEF FreshIds
  <2> QED
    BY <2>3, <2>6, <2>7 DEF FreshIds
<1>15. NoAbandonedBlock'
  BY <1>6, <1>12 DEF NoAbandonedBlock, Mine, InBlock
<1>16. Rows(t)'
  <2>1. nextUser \notin users
    BY <1>1, <1>2 DEF FreshIds
  <2> QED
    BY <1>6, <1>9, <1>11, <1>12, <2>1, IdsAreNumbers DEF Rows, NoUser
<1>17. Blocks'
  <2>1. SameElsewhere(t) /\ NotTheirs(t) /\ connId' \in Nat
    BY <1>1, <1>3, <1>6, <1>11 DEF SameElsewhere, NotTheirs
  <2>2. BlockOf(t)'
    BY <1>3, <1>6, <1>12, <1>16 DEF BlockOf
  <2> QED
    BY <2>1, <2>2, OthersKeepBlocks DEF Blocks
<1>18. CreationAnswerIsTrue'
  BY <1>3, <1>11 DEF CAInv, CreationAnswerIsTrue, Refusals
<1> QED
  BY <1>10, <1>13, <1>14, <1>15, <1>17, <1>18 DEF CAInv

(* What holds of a thread inside its block on a connection that is there. *)
LEMMA OwnBlock ==
    ASSUME CAInv, NEW t \in Threads, cpc[t] \in InBlock, Mine(t)
    PROVE  /\ block.owner = t /\ block \in BlockType
           /\ cpc[t] # "unwind" => Rows(t)
           /\ onConn \in [Threads -> Nat]
           /\ onConn = [onConn EXCEPT ![t] = connId]
           /\ attempt \in [Threads -> 0..MAX_RETRIES]
           /\ accountNumber \in [Threads -> Numbers \union {NoNumber}]
           /\ isOpen \in BOOLEAN
           /\ accounts \subseteq [user : UserIds, number : Numbers]
           /\ loaded \subseteq users
           /\ creq \in [Threads -> CreationRequest]
<1>1. BlockOf(t)
  BY DEF CAInv, Blocks
<1>2. onConn \in [Threads -> Nat] /\ onConn[t] = connId
  BY DEF CAInv, Counters, Mine
<1>3. onConn = [onConn EXCEPT ![t] = connId]
  BY <1>2
<1> QED
  BY <1>1, <1>2, <1>3 DEF CAInv, CTypeOK, Counters, BlockOf, BlockType

(* CheckOpen, EstablishConnection and Recheck: before the block. *)
LEMMA BeforeBlockKeepsInv ==
    ASSUME CAInv, NEW t \in Threads,
           CheckOpen(t) \/ EstablishConnection(t) \/ Recheck(t)
    PROVE  CAInv'
<1>1. CASE CheckOpen(t)
  <2> DEFINE place == IF isOpen THEN "work" ELSE "establish"
  <2>1. /\ place \in {"establish", "recheck", "work"}
        /\ cpc[t] \in {"is_open", "establish", "recheck"}
        /\ Goto(t, place)
        /\ UNCHANGED <<users, accounts, nextUser, created, loaded, call, creply>>
        /\ UNCHANGED connection
    BY <1>1 DEF CheckOpen, At, dbTables, environment
  <2> HIDE DEF place
  <2> QED
    BY <2>1, MoveKeepsInv
<1>2. CASE EstablishConnection(t)
  <2>0. /\ cpc[t] = "establish"
        /\ UNCHANGED <<users, accounts, nextUser, created, loaded, call>>
    BY <1>2 DEF EstablishConnection, At, dbTables, environment
  <2>1. CASE /\ connId' = connId + 1 /\ isOpen' = TRUE /\ block' = NoBlock
             /\ Goto(t, "recheck") /\ UNCHANGED creply
    BY <2>0, <2>1, MoveKeepsInv
  <2>2. CASE Answer(t, "ERROR") /\ UNCHANGED connection
    <3>1. cpc[t] # "idle" /\ cpc[t] \notin InBlock
      BY <2>0 DEF InBlock
    <3>2. UNCHANGED <<connId, isOpen, block>> /\ "ERROR" \notin Refusals
      BY <2>2 DEF connection, Refusals
    <3> QED
      BY <2>0, <2>2, <3>1, <3>2, AnswerKeepsInv
  <2> QED
    BY <1>2, <2>1, <2>2 DEF EstablishConnection
<1>3. CASE Recheck(t)
  <2>0. /\ cpc[t] = "recheck"
        /\ UNCHANGED <<users, accounts, nextUser, created, loaded, call, connection>>
    BY <1>3 DEF Recheck, At, dbTables, environment
  <2>1. CASE Goto(t, "work") /\ UNCHANGED creply
    BY <2>0, <2>1, MoveKeepsInv
  <2>2. CASE Answer(t, "Couldn't connect")
    <3>1. cpc[t] # "idle" /\ cpc[t] \notin InBlock
      BY <2>0 DEF InBlock
    <3>2. UNCHANGED <<connId, isOpen, block>> /\ "Couldn't connect" \in Refusals
      BY <2>0 DEF connection, Refusals
    <3>3. creq[t].is_new => creq[t].user_id \notin users
      <4>1. creq[t].is_new => t \in Unregistered
        BY <2>0 DEF Unregistered
      <4> QED
        BY <4>1, IdsAreNumbers DEF CAInv, CTypeOK, FreshIds
    <3> QED
      BY <2>0, <2>2, <3>1, <3>2, <3>3, AnswerKeepsInv
  <2> QED
    BY <1>3, <2>1, <2>2 DEF Recheck
<1> QED
  BY <1>1, <1>2, <1>3

(* The constructor of pqxx::work, on a connection that has no block. *)
LEMMA OpeningKeepsInv ==
    ASSUME CAInv, NEW t \in Threads, OpenBlock(t)
    PROVE  CAInv'
<1>0. /\ cpc[t] = "work"
      /\ UNCHANGED <<users, accounts, nextUser, created, loaded, isOpen, connId,
                     creq, attempt, accountNumber>>
  BY DEF OpenBlock, At, dbTables, environment
<1>1. CASE Answer(t, "ERROR") /\ UNCHANGED <<block, onConn>>
  <2>1. cpc[t] # "idle" /\ cpc[t] \notin InBlock /\ "ERROR" \notin Refusals
    BY <1>0 DEF InBlock, Refusals
  <2>2. UNCHANGED call
    BY <1>0, <1>1 DEF call
  <2> QED
    BY <1>0, <1>1, <2>1, <2>2, AnswerKeepsInv
<1>2. CASE /\ block.owner = NoThread
           /\ block' = [NoBlock EXCEPT !.owner = t]
           /\ onConn' = [onConn EXCEPT ![t] = connId]
           /\ Goto(t, IF creq[t].is_new THEN "register" ELSE "verify")
           /\ UNCHANGED creply
  <2> DEFINE place == IF creq[t].is_new THEN "register" ELSE "verify"
  <2>1. /\ place \in InBlock /\ Goto(t, place)
        /\ cpc[t] \in {"work"} \union InBlock
    BY <1>0, <1>2 DEF InBlock
  <2>2. block' \in BlockType /\ block'.owner = t /\ block'.users = {}
    BY <1>2 DEF BlockType, NoBlock
  <2>3. /\ accounts \subseteq [user : UserIds, number : Numbers]
        /\ isOpen \in BOOLEAN /\ loaded \subseteq users
        /\ attempt \in [Threads -> 0..MAX_RETRIES]
        /\ accountNumber \in [Threads -> Numbers \union {NoNumber}]
        /\ cpc \in [Threads -> Places]
    BY DEF CAInv, CTypeOK, Counters, Places
  <2>4. creq[t].is_new => creq[t].user_id = NoUser
    BY <1>0 DEF CAInv, FreshIds, Unregistered
  <2>5. cpc'[t] = place
    BY <2>1, <2>3 DEF Goto
  <2>6. Rows(t)'
    BY <1>0, <2>2, <2>4, <2>5 DEF Rows
  <2> HIDE DEF place
  <2> QED
    BY <1>0, <1>2, <2>1, <2>2, <2>3, <2>6, BlockStepKeepsInv
<1> QED
  BY <1>1, <1>2 DEF OpenBlock

(* Verify and Register: who the account is for. *)
LEMMA UserStepKeepsInv ==
    ASSUME CAInv, NEW t \in Threads, Verify(t) \/ Register(t)
    PROVE  CAInv'
<1>1. CASE Verify(t)
  <2>0. /\ cpc[t] = "verify" /\ Mine(t) /\ cpc[t] \in InBlock
        /\ UNCHANGED <<users, accounts, nextUser, created, loaded, isOpen, connId,
                       call>>
        /\ UNCHANGED <<creq, onConn, attempt, accountNumber>>
    BY <1>1 DEF Verify, At, InBlock, dbTables, environment, call
  <2>1. Rows(t) /\ block.owner = t
    BY <2>0, OwnBlock
  <2>2. CASE Verified(t) /\ Goto(t, "insert") /\ UNCHANGED <<block, creply>>
    <3>1. "insert" \in InBlock /\ block' \in BlockType /\ block'.owner = t
      BY <2>0, <2>1, <2>2, OwnBlock DEF InBlock
    <3>2. cpc'[t] = "insert"
      BY <2>2 DEF Goto, CAInv, CTypeOK
    <3>3. creq[t].user_id \in users /\ creq[t].password_ok /\ users \subseteq UserIds
      BY <2>2 DEF Verified, verify_password, CAInv, CTypeOK
    <3>4. Rows(t)'
      BY <2>0, <2>1, <2>2, <3>2, <3>3, IdsAreNumbers DEF Rows
    <3> QED
      BY <2>0, <2>1, <2>2, <3>1, <3>4, OwnBlock, BlockStepKeepsInv
  <2>3. CASE RollBack /\ Answer(t, "Invalid username or password")
    <3>1. "Invalid username or password" \in Refusals /\ ~creq[t].is_new
      BY <2>0, <2>1 DEF Refusals, Rows
    <3> QED
      BY <2>0, <2>3, <3>1, AnswerKeepsInv DEF RollBack
  <2> QED
    BY <1>1, <2>2, <2>3 DEF Verify
<1>2. CASE Register(t)
  <2>0. /\ At(t, "register") /\ cpc[t] = "register" /\ Mine(t) /\ cpc[t] \in InBlock
        /\ UNCHANGED <<users, accounts, created, loaded, isOpen, connId,
                       onConn, attempt, accountNumber>>
    BY <1>2 DEF Register, At, InBlock, environment
  <2>1. CASE /\ block' = [block EXCEPT !.users = {nextUser}]
             /\ creq' = [creq EXCEPT ![t].user_id = nextUser]
             /\ nextUser' = nextUser + 1
             /\ Goto(t, "insert")
             /\ UNCHANGED creply
    BY <2>0, <2>1, RegistrationKeepsInv
  <2>2. CASE /\ RollBack
             /\ Answer(t, IF hash_password THEN "ERROR" ELSE "Error")
             /\ UNCHANGED <<creq, nextUser>>
    <3> DEFINE text == IF hash_password THEN "ERROR" ELSE "Error"
    <3>1. text \in {"ERROR"} \union Refusals /\ Answer(t, text)
      BY <2>2 DEF Refusals
    <3>2. Rows(t)
      BY <2>0, OwnBlock
    <3>3. creq[t].user_id \notin users
      BY <2>0, <3>2, IdsAreNumbers DEF Rows, CAInv, CTypeOK
    <3>4. UNCHANGED call /\ block' = NoBlock
      BY <2>0, <2>2 DEF call, RollBack
    <3> HIDE DEF text
    <3> QED
      BY <2>0, <2>2, <3>1, <3>3, <3>4, AnswerKeepsInv
  <2> QED
    BY <1>2, <2>1, <2>2 DEF Register
<1> QED
  BY <1>1, <1>2

(* One turn of the retry loop. *)
LEMMA InsertKeepsInv ==
    ASSUME CAInv, NEW t \in Threads, InsertAccount(t)
    PROVE  CAInv'
<1>0. /\ cpc[t] = "insert" /\ Mine(t) /\ cpc[t] \in InBlock /\ cpc[t] # "unwind"
      /\ attempt[t] < MAX_RETRIES
      /\ attempt' = [attempt EXCEPT ![t] = @ + 1]
      /\ UNCHANGED <<users, accounts, nextUser, created, loaded, isOpen, connId,
                     creq, onConn, creply>>
  BY DEF InsertAccount, At, InBlock, MayRetry, NextAttempt, dbTables, environment
<1>1. /\ Rows(t) /\ block.owner = t /\ block \in BlockType
      /\ cpc \in [Threads -> Places]
      /\ accountNumber \in [Threads -> Numbers \union {NoNumber}]
      /\ attempt \in [Threads -> 0..MAX_RETRIES]
  BY <1>0, OwnBlock DEF CAInv, CTypeOK, Places
<1>2. PICK n \in Numbers :
           /\ accountNumber' = [accountNumber EXCEPT ![t] = n]
           /\ \/ /\ ~block.aborted /\ ~Collides(n)
                 /\ block' = [block EXCEPT !.accounts =
                                  {[user |-> creq[t].user_id, number |-> n]}]
                 /\ Goto(t, "commit")
              \/ /\ block.aborted \/ Collides(n)
                 /\ block' = [block EXCEPT !.aborted = TRUE]
                 /\ UNCHANGED cpc
  BY DEF InsertAccount, generateCandidate
<1>3. /\ accountNumber'[t] = n
      /\ accountNumber' \in [Threads -> Numbers \union {NoNumber}]
      /\ \A s \in Threads \ {t} : accountNumber'[s] = accountNumber[s]
  BY <1>1, <1>2
<1>4. attempt' \in [Threads -> 0..MAX_RETRIES]
  BY <1>0, <1>1, CreationBounds
<1>5. creq[t].user_id \in UserIds
  BY <1>0, <1>1 DEF Rows
<1>6. CASE /\ ~Collides(n)
           /\ block' = [block EXCEPT !.accounts =
                            {[user |-> creq[t].user_id, number |-> n]}]
           /\ Goto(t, "commit")
  <2>1. /\ block' \in BlockType /\ block'.owner = t /\ block'.users = block.users
        /\ block'.accounts = {[user |-> creq[t].user_id, number |-> n]}
    BY <1>1, <1>5, <1>6 DEF BlockType
  <2>2. cpc'[t] = "commit" /\ "commit" \in InBlock
    BY <1>1, <1>6 DEF Goto, InBlock
  <2>3. Rows(t)'
    BY <1>0, <1>1, <1>3, <1>5, <1>6, <2>1, <2>2 DEF Rows, Collides
  <2> QED
    BY <1>0, <1>1, <1>3, <1>4, <1>6, <2>1, <2>2, <2>3, OwnBlock, BlockStepKeepsInv
<1>7. CASE block' = [block EXCEPT !.aborted = TRUE] /\ UNCHANGED cpc
  <2>1. block' \in BlockType /\ block'.owner = t /\ block'.users = block.users
    BY <1>1, <1>7 DEF BlockType
  <2>2. Goto(t, "insert") /\ "insert" \in InBlock /\ cpc'[t] = "insert"
    BY <1>0, <1>1, <1>7 DEF Goto, InBlock
  <2>3. Rows(t)'
    BY <1>0, <1>1, <2>1, <2>2 DEF Rows
  <2> QED
    BY <1>0, <1>1, <1>3, <1>4, <1>7, <2>1, <2>2, <2>3, OwnBlock, BlockStepKeepsInv
<1> QED
  BY <1>2, <1>6, <1>7

(* GiveUp, Unwind and the two places where behaviour is undefined: the     *)
(* call ends, or the process does.                                         *)
LEMMA EndKeepsInv ==
    ASSUME CAInv, NEW t \in Threads,
           GiveUp(t) \/ Unwind(t) \/ RaceInConstructor(t) \/ Dangle(t)
    PROVE  CAInv'
<1> USE DEF dbTables, environment, connection
<1>1. CASE GiveUp(t)
  <2>0. /\ cpc[t] = "insert" /\ Mine(t) /\ cpc[t] \in InBlock /\ cpc[t] # "unwind"
        /\ Answer(t, "Account creation failed") /\ block' = NoBlock
        /\ UNCHANGED <<users, accounts, nextUser, created, loaded, connId, isOpen,
                       call>>
    BY <1>1 DEF GiveUp, At, InBlock, RollBack
  <2>1. "Account creation failed" \in Refusals
    BY DEF Refusals
  <2>2. Rows(t)
    BY <2>0, OwnBlock
  <2>3. creq[t].is_new => creq[t].user_id \notin users
    BY <2>0, <2>2 DEF Rows
  <2> QED
    BY <2>0, <2>1, <2>3, AnswerKeepsInv
<1>2. CASE Unwind(t)
  <2>0. /\ Mine(t) /\ cpc[t] \in InBlock /\ cpc[t] # "idle"
        /\ Answer(t, "ERROR") /\ block' = NoBlock /\ "ERROR" \notin Refusals
        /\ UNCHANGED <<users, accounts, nextUser, created, loaded, connId, isOpen,
                       call>>
    BY <1>2 DEF Unwind, At, InBlock, RollBack, Refusals
  <2> QED
    BY <2>0, AnswerKeepsInv
<1>3. CASE RaceInConstructor(t) \/ Dangle(t)
  <2>0. /\ ~(cpc[t] \in InBlock /\ Mine(t)) /\ cpc[t] # "idle"
        /\ UNCHANGED <<users, accounts, nextUser, created, loaded, connId, isOpen,
                       block, call>>
        /\ \/ UNCHANGED <<cpc, creply>>
           \/ Answer(t, "ERROR")
    BY <1>3 DEF RaceInConstructor, Dangle, At, InBlock
  <2>1. CASE UNCHANGED <<cpc, creply>>
    <3>1. UNCHANGED <<creq, onConn, attempt, accountNumber>>
      BY <2>0 DEF call
    <3> QED
      BY <2>0, <2>1, <3>1 DEF CAInv, CTypeOK, Counters, FreshIds, NoAbandonedBlock,
             Blocks, BlockOf, Rows, Mine, Collides, Unregistered, CreationAnswerIsTrue
  <2>2. CASE Answer(t, "ERROR")
    BY <2>0, <2>2, AnswerKeepsInv DEF Refusals
  <2> QED
    BY <2>0, <2>1, <2>2
<1> QED
  BY <1>1, <1>2, <1>3

(* The rows a commit makes visible: an account under a number that was     *)
(* free, and its user with it if the request is for a new one.             *)
LEMMA InstalledRows ==
    ASSUME CAInv, NEW t \in Threads, cpc[t] = "commit", Mine(t), Install
    PROVE  /\ accountNumber[t] \in Numbers /\ ~Collides(accountNumber[t])
           /\ creq[t].user_id \in UserIds
           /\ accounts' = accounts \union
                 {[user |-> creq[t].user_id, number |-> accountNumber[t]]}
           /\ creq[t].is_new => /\ creq[t].user_id \notin users
                                /\ users' = users \union {creq[t].user_id}
           /\ ~creq[t].is_new => creq[t].user_id \in users /\ users' = users
           /\ creq[t].is_new \/ creq[t].password_ok
           /\ accounts' \subseteq [user : UserIds, number : Numbers]
<1>1. cpc[t] \in InBlock /\ cpc[t] # "unwind"
  BY DEF InBlock
<1>2. Rows(t) /\ accounts \subseteq [user : UserIds, number : Numbers]
  BY <1>1, OwnBlock
<1> QED
  BY <1>2 DEF Rows, Install

(* user.commit() and the answer "Success". *)
LEMMA CommitKeepsInv ==
    ASSUME CAInv, NEW t \in Threads, CommitBlock(t)
    PROVE  CAInv'
<1>0. /\ cpc[t] = "commit" /\ Mine(t) /\ cpc[t] \in InBlock /\ cpc[t] # "unwind"
      /\ Install /\ block' = NoBlock /\ Answer(t, "Success")
      /\ UNCHANGED <<nextUser, created, loaded, connId, isOpen>>
      /\ UNCHANGED <<creq, onConn, attempt, accountNumber>>
  BY DEF CommitBlock, At, InBlock, RollBack, environment, call
<1>1. /\ cpc \in [Threads -> Places]
      /\ creply \in [Threads -> {"none", "Success", "ERROR"} \union Refusals]
      /\ block.owner = t
  BY <1>0, OwnBlock DEF CAInv, CTypeOK, Places
<1>2. /\ cpc'[t] = "idle" /\ creply'[t] = "Success"
      /\ \A s \in Threads \ {t} : cpc'[s] = cpc[s] /\ creply'[s] = creply[s]
      /\ cpc' \in [Threads -> Places]
      /\ creply' \in [Threads -> {"none", "Success", "ERROR"} \union Refusals]
  BY <1>0, <1>1 DEF Answer, Goto, Places
<1>3. SameElsewhere(t) /\ NotTheirs(t)
  BY <1>0, <1>1, <1>2 DEF SameElsewhere, NotTheirs
<1>4. Unregistered' \subseteq Unregistered
  BY <1>0, <1>2 DEF Unregistered
<1>5. /\ users \subseteq users' /\ users' \subseteq UserIds
      /\ accounts \subseteq accounts'
      /\ accounts' \subseteq [user : UserIds, number : Numbers]
      /\ \A u \in users' \ users :
            creq[t].is_new /\ creq[t].user_id = u /\ u \in UserIds
      /\ creq[t].is_new \/ creq[t].password_ok
      /\ [user |-> creq[t].user_id, number |-> accountNumber[t]] \in accounts'
  BY <1>0, InstalledRows DEF CAInv, CTypeOK
<1>6. CTypeOK'
  <2>1. block' \in BlockType
    BY <1>0, NoBlockType
  <2> QED
    BY <1>0, <1>2, <1>5, <2>1 DEF CAInv, CTypeOK, Places, BlockType
<1>7. NoAbandonedBlock'
  BY <1>0 DEF NoAbandonedBlock, NoBlock
<1>8. BlockOf(t)'
  BY <1>2 DEF BlockOf, InBlock
<1>9. AnswerTrue(t)'
  BY <1>0, <1>2, <1>5 DEF AnswerTrue, Refusals
<1>10. /\ isOpen' \in BOOLEAN /\ connId' \in Nat /\ onConn' \in [Threads -> Nat]
       /\ accountNumber' \in [Threads -> Numbers \union {NoNumber}]
  BY <1>0 DEF CAInv, Counters
<1> QED
  BY <1>0, <1>3, <1>4, <1>5, <1>6, <1>7, <1>8, <1>9, <1>10, StepOfOne

(* The connection breaks; a commit may have taken place all the same. *)
LEMMA LosingKeepsInv ==
    ASSUME CAInv, NEW t \in Threads, LoseConnection(t)
    PROVE  CAInv'
<1>0. /\ cpc[t] \in InBlock /\ Mine(t) /\ Goto(t, "unwind") /\ "unwind" \in InBlock
      /\ block' = [NoBlock EXCEPT !.owner = t] /\ isOpen' = FALSE
      /\ UNCHANGED <<nextUser, created, loaded, connId, creply>>
      /\ UNCHANGED <<creq, onConn, attempt, accountNumber>>
      /\ \/ UNCHANGED <<users, accounts>>
         \/ cpc[t] = "commit" /\ Install
  BY DEF LoseConnection, InBlock, environment, call
<1>1. block' \in BlockType /\ block'.owner = t
  BY <1>0 DEF BlockType, NoBlock
<1>2. /\ users \subseteq users' /\ accounts \subseteq accounts'
      /\ accounts' \subseteq [user : UserIds, number : Numbers]
      /\ \A u \in users' \ users :
            creq[t].is_new /\ creq[t].user_id = u /\ u \in UserIds
  <2>1. CASE UNCHANGED <<users, accounts>>
    BY <2>1 DEF CAInv, CTypeOK
  <2>2. CASE cpc[t] = "commit" /\ Install
    BY <1>0, <2>2, InstalledRows
  <2> QED
    BY <1>0, <2>1, <2>2
<1>3. loaded' \subseteq users'
  BY <1>0, <1>2, OwnBlock
<1> QED
  BY <1>0, <1>1, <1>2, <1>3, OwnBlock, BlockStepKeepsInv

(* Every step keeps the invariant. *)
LEMMA NextCAInv == CAInv /\ [CANext]_caVars => CAInv'
<1> SUFFICES ASSUME CAInv, [CANext]_caVars
             PROVE  CAInv'
  OBVIOUS
<1>1. ASSUME NEW t \in Threads, Receive(t)
      PROVE  CAInv'
  BY <1>1, ReceiveKeepsInv
<1>2. ASSUME NEW t \in Threads, Step(t)
      PROVE  CAInv'
  BY <1>2, BeforeBlockKeepsInv, OpeningKeepsInv, UserStepKeepsInv, InsertKeepsInv,
     EndKeepsInv, CommitKeepsInv, LosingKeepsInv DEF Step
<1>3. CASE LoadUser
  <2>1. /\ loaded' \subseteq users'
        /\ UNCHANGED <<users, accounts, nextUser, isOpen, connId, block, cpc, creq,
                       onConn, attempt, accountNumber, creply, created>>
    BY <1>3 DEF LoadUser, dbTables, connection, call, CAInv, CTypeOK
  <2> QED
    BY <2>1 DEF CAInv, CTypeOK, Counters, FreshIds, NoAbandonedBlock,
       Blocks, BlockOf, Rows, Mine, Collides, Unregistered, CreationAnswerIsTrue
<1>4. CASE UNCHANGED caVars
  <2>1. UNCHANGED <<users, accounts, nextUser, isOpen, connId, block, cpc, creq,
                    onConn, attempt, accountNumber, creply, created, loaded>>
    BY <1>4 DEF caVars, dbTables, connection, call, environment
  <2> QED
    BY <2>1 DEF CAInv, CTypeOK, Counters, FreshIds, NoAbandonedBlock,
       Blocks, BlockOf, Rows, Mine, Collides, Unregistered, CreationAnswerIsTrue
<1> QED
  BY <1>1, <1>2, <1>3, <1>4 DEF CANext

-----------------------------------------------------------------------------
(* The inductive invariant holds in every reachable state. *)
THEOREM CAInvHolds == CASpec => []CAInv
BY InitCAInv, NextCAInv, PTL DEF CASpec

(* create_account() keeps the types of its tables and of its threads; in   *)
(* particular the retry loop counts no further than MAX_RETRIES and the    *)
(* sequence behind user_id never runs out.                                 *)
THEOREM CreateAccountTypes == CASpec => []CTypeOK
<1>1. CAInv => CTypeOK
  BY DEF CAInv
<1> QED
  BY <1>1, CAInvHolds, PTL

(* No early return, exception or replaced connection leaves a block open   *)
(* that belongs to a call of create_account() that has ended.              *)
THEOREM BlocksAreClosed == CASpec => []NoAbandonedBlock
<1>1. CAInv => NoAbandonedBlock
  BY DEF CAInv
<1> QED
  BY <1>1, CAInvHolds, PTL

(* What create_account() answers is true of User_Table and Account_Table,  *)
(* then and later, whatever the other threads do.                          *)
THEOREM CreationAnswers == CASpec => []CreationAnswerIsTrue
<1>1. CAInv => CreationAnswerIsTrue
  BY DEF CAInv
<1> QED
  BY <1>1, CAInvHolds, PTL

-----------------------------------------------------------------------------
(* A commit is a step of the registry. *)
LEMMA InstallIsRegistryStep ==
    ASSUME CAInv, NEW t \in Threads, cpc[t] = "commit", Mine(t), Install
    PROVE  RegistryView!RegistryNext
<1> DEFINE u == creq[t].user_id
           n == accountNumber[t]
<1>1. /\ n \in Numbers /\ ~Collides(n) /\ u \in UserIds
      /\ accounts' = accounts \union {[user |-> u, number |-> n]}
      /\ creq[t].is_new => u \notin users /\ users' = users \union {u}
      /\ ~creq[t].is_new => u \in users /\ users' = users
  BY InstalledRows
<1> HIDE DEF u, n
<1>2. n \in RegistryView!Unused
  BY <1>1 DEF RegistryView!Unused, Collides
<1>3. RegistryView!Add(u)
  BY <1>1, <1>2 DEF RegistryView!Add
<1>4. CASE creq[t].is_new
  BY <1>1, <1>3, <1>4 DEF RegistryView!RegistryNext, RegistryView!RegisterUser
<1>5. CASE ~creq[t].is_new
  BY <1>1, <1>3, <1>5 DEF RegistryView!RegistryNext, RegistryView!AddAccount
<1> QED
  BY <1>4, <1>5

(* Every step of create_account() is a step of the registry or leaves its  *)
(* tables alone.                                                           *)
LEMMA StepRefinesRegistry ==
    CAInv /\ [CANext]_caVars => [RegistryView!RegistryNext]_<<users, accounts>>
<1> SUFFICES ASSUME CAInv, [CANext]_caVars
             PROVE  RegistryView!RegistryNext \/ UNCHANGED <<users, accounts>>
  OBVIOUS
<1> USE DEF dbTables
<1>1. ASSUME NEW t \in Threads, Receive(t)
      PROVE  UNCHANGED <<users, accounts>>
  BY <1>1 DEF Receive
<1>2. ASSUME NEW t \in Threads, CommitBlock(t)
      PROVE  RegistryView!RegistryNext
  BY <1>2, InstallIsRegistryStep DEF CommitBlock, At
<1>3. ASSUME NEW t \in Threads, LoseConnection(t)
      PROVE  RegistryView!RegistryNext \/ UNCHANGED <<users, accounts>>
  BY <1>3, InstallIsRegistryStep DEF LoseConnection
<1>4. ASSUME NEW t \in Threads,
             \/ CheckOpen(t) \/ EstablishConnection(t) \/ Recheck(t) \/ OpenBlock(t)
             \/ RaceInConstructor(t) \/ Verify(t) \/ Register(t) \/ InsertAccount(t)
             \/ GiveUp(t) \/ Unwind(t) \/ Dangle(t)
      PROVE  UNCHANGED <<users, accounts>>
  BY <1>4 DEF CheckOpen, EstablishConnection, Recheck, OpenBlock, RaceInConstructor,
         Verify, Register, InsertAccount, GiveUp, Unwind, Dangle
<1>5. CASE LoadUser
  BY <1>5 DEF LoadUser
<1>6. CASE UNCHANGED caVars
  BY <1>6 DEF caVars
<1> QED
  BY <1>1, <1>2, <1>3, <1>4, <1>5, <1>6 DEF CANext, Step

(* create_account() implements the registry: a user is never stored        *)
(* without his account, an account never without its user, and never under *)
(* a number that is taken, through every loss of the connection, repeated  *)
(* attempt and interleaving of threads.                                    *)
THEOREM CreateAccountRefinesRegistry == CASpec => RefinesRegistry
<1>1. CAInit => RegistryView!RegistryInit
  BY DEF CAInit, RegistryView!RegistryInit
<1> QED
  BY <1>1, StepRefinesRegistry, CAInvHolds, PTL
  DEF CASpec, RefinesRegistry, RegistryView!RegistrySpec

=============================================================================
