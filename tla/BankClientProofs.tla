-------------------------- MODULE BankClientProofs --------------------------
(***************************************************************************)
(* Proofs about the desktop client and the server behind its sockets, for  *)
(* any users, accounts and balances, any number of workers and any size of *)
(* the rings.                                                              *)
(***************************************************************************)
EXTENDS BankClient, FiniteSetTheorems, SequenceTheorems, TLAPS

-----------------------------------------------------------------------------
(* What the client may send on a socket. *)
Messages(p) ==
    CASE p = "/login" ->
           {LoginMessage(u, pw) : u \in Users, pw \in {"right", "wrong"}}
           \union {RefreshMessage(u) : u \in Users \union {None}}
      [] p = "/create_account" ->
           {CreationMessage(u, "right") : u \in Users \union {None}}
      [] p = "/transaction" ->
           {TransactionMessage(type, a, to, amount) :
                type \in {"TRANSFER", "DEPOSIT", "WITHDRAW"},
                a \in Accounts, to \in Accounts \union {None},
                amount \in AdminAmounts \union {Amount}}

(* The requests the controllers may read from it, or from other programs. *)
Requested(p) == (UNION {Parse(p, m.json) : m \in Messages(p)})
                \union (UNION {Parse(p, json) : json \in OtherMessages(p)})

Entry(p) == [conn : {"client", "other"}, req : Requested(p)]

(* The replies on a socket when the Accounts have had the balances h. *)
Texts == {Text(t) : t \in {"BAD_STRUCTURE", "Success", "SUCCESS", "ERROR",
                           "Invalid user_id", "Invalid username of password"}}

LoggedIn(h) ==
    {m \in [status : {"success"}, full_name : Users, account_id : Accounts,
            balance_cents : Int] : m.balance_cents \in h[m.account_id]}
    \union [status : {"success"}, full_name : Users]

Answers(p, h) == IF p = "/login" THEN Texts \union LoggedIn(h) ELSE Texts

-----------------------------------------------------------------------------
(* Where the client's requests are, once the controllers have read them. *)
Mine(q) == {i \in 1..Len(q) : q[i].conn = "client"}

AtWork(p) == {w \in Workers : /\ PathOf(w) = p /\ stage[w] # "answered"
                             /\ \E j \in job[w] : j.conn = "client"}

Size(s) == Len(s)     \* kept unexpanded where lengths are added up

UnderWay(p) == Size(toServer[p]) + Size(toClient[p])
               + Cardinality(Mine(queued[p])) + Cardinality(AtWork(p))

OnPaths(f) == f = [p \in Paths |-> f[p]]

PathTypeOK(p) ==
    /\ toServer[p] \in Seq(Messages(p))
    /\ toClient[p] \in Seq(Answers(p, had))
    /\ queued[p] \in Seq(Entry(p)) /\ Len(queued[p]) <= Capacity

JobsTypeOK ==
    /\ job \in [Workers -> SUBSET UNION {Entry(p) : p \in Paths}]
    /\ \A w \in Workers : job[w] = {} \/ \E j \in Entry(PathOf(w)) : job[w] = {j}

StagesTypeOK ==
    /\ stage \in [Workers -> {"start", "read", "stored", "committed", "answered"}]
    /\ \A w \in Workers : job[w] = {} => stage[w] = "start" /\ w \notin hung
    /\ \A w \in Workers : stage[w] \in {"read", "stored"} =>
                            \A j \in job[w] : j.req.user_id \in Users

BalancesTypeOK ==
    /\ balance \in [Accounts -> Int] /\ rows \in [Accounts -> Int]
    /\ mem \in [Accounts -> Int]
    /\ had \in [Accounts -> SUBSET Int]
    /\ \A a \in Accounts : mem[a] \in had[a]

ServerTypeOK ==
    /\ OnPaths(toServer) /\ OnPaths(toClient) /\ OnPaths(queued)
    /\ \A p \in Paths : PathTypeOK(p)
    /\ JobsTypeOK /\ StagesTypeOK /\ BalancesTypeOK

SessionTypeOK ==
    /\ cache \in [name : Users \union {None}, accountId : Accounts \union {None},
                  balanceCents : Int, infoAvailable : BOOLEAN,
                  lastTarget : Accounts \union {None}]
    /\ session \in [user : Users \union {None}, page : {"login", "dashboard"},
                    waiting : BOOLEAN]
    /\ socket \in [Paths -> {"opening", "up", "down"}]

(* Every reply is owed: what is under way on a socket that works is part   *)
(* of what was sent on it and not answered.                                *)
Owed(p) ==
    /\ outstanding[p] \in 0..clicks
    /\ socket[p] # "down" => UnderWay(p) <= outstanding[p]
    /\ socket[p] # "up" => /\ toServer[p] = <<>> /\ toClient[p] = <<>>
                           /\ outstanding[p] = 0

RepliesAreOwed ==
    /\ clicks \in 0..MaxClicks
    /\ OnPaths(outstanding)
    /\ \A p \in Paths : Owed(p)

(* Whatever the dashboard makes of it. *)
Truthful(c, h) == c.accountId # None => c.balanceCents \in h[c.accountId]

ClientInv == SessionTypeOK /\ ServerTypeOK /\ RepliesAreOwed /\ Truthful(cache, had)

-----------------------------------------------------------------------------
(* The protocol: the controllers read each message as it was meant. *)
LEMMA LoginIsRead ==
    ASSUME NEW u, NEW pw
    PROVE  ParseLogin(LoginMessage(u, pw).json) = {LoginMessage(u, pw).meant}
BY DEF LoginMessage, LoginRequest, ParseLogin, Has, isRefresh, Num, Str

LEMMA RefreshIsRead ==
    ASSUME NEW u
    PROVE  ParseLogin(RefreshMessage(u).json) = {RefreshMessage(u).meant}
BY DEF RefreshMessage, LoginRequest, ParseLogin, Has, isRefresh, Num, Str

LEMMA CreationIsRead ==
    ASSUME NEW u, NEW pw
    PROVE  ParseCreation(CreationMessage(u, pw).json) = {CreationMessage(u, pw).meant}
<1> DEFINE m == CreationMessage(u, pw)
           j == m.json
<1>1. /\ DOMAIN j = requiredStringFields \union (IF u = None THEN {} ELSE {"user_id"})
      /\ \A f \in requiredStringFields : j[f].kind = "string"
      /\ j["password"].v = pw
      /\ u # None => j["user_id"] = Num(u)
      /\ m.meant = [user_id |-> u, password |-> pw]
  BY DEF CreationMessage, requiredStringFields, Num, Str
<1> HIDE DEF m, j
<1> QED
  BY <1>1 DEF ParseCreation, OptionalIsInt, OptionalInt, Absent, Has, Num,
              requiredStringFields, m, j

LEMMA TransactionIsRead ==
    ASSUME NEW type, NEW a, NEW to, NEW amount
    PROVE  ParseTransaction(TransactionMessage(type, a, to, amount).json)
               = {TransactionMessage(type, a, to, amount).meant}
<1> DEFINE m == TransactionMessage(type, a, to, amount)
           j == m.json
<1>1. /\ DOMAIN j = {"account_id", "transaction_type", "transaction_amount", "remarks"}
                    \union (IF to = None THEN {} ELSE {"to_account"})
      /\ j["account_id"] = Num(a)
      /\ j["transaction_type"] = Str(type)
      /\ j["transaction_amount"] = Num(amount)
      /\ to # None => j["to_account"] = Num(to)
      /\ m.meant = [account_id |-> a, type |-> type, amount |-> amount, to_account |-> to]
  BY DEF TransactionMessage, Num, Str
<1> HIDE DEF m, j
<1> QED
  BY <1>1 DEF ParseTransaction, OptionalIsInt, OptionalInt, Absent, Has, Num, Str, m, j

LEMMA MessagesAreRead ==
    ASSUME NEW p \in Paths, NEW m \in Messages(p)
    PROVE  Parse(p, m.json) = {m.meant}
<1>1. CASE p = "/login"
  BY <1>1, LoginIsRead, RefreshIsRead DEF Messages, Parse
<1>2. CASE p = "/create_account"
  BY <1>2, CreationIsRead DEF Messages, Parse
<1>3. CASE p = "/transaction"
  BY <1>3, TransactionIsRead DEF Messages, Parse
<1> QED
  BY <1>1, <1>2, <1>3 DEF Paths

LEMMA AmountsAreCents ==
    ASSUME NEW r \in Requested("/transaction")
    PROVE  r.amount \in Int
<1> DEFINE p == "/transaction"
           amounts == AdminAmounts \union {Amount, 0}
<1>1. ASSUME NEW type, NEW a, NEW to, NEW amount
      PROVE  LET m == TransactionMessage(type, a, to, amount)
             IN  Parse(p, m.json) = {m.meant} /\ m.meant.amount = amount
  <2>1. TransactionMessage(type, a, to, amount).meant.amount = amount
    BY DEF TransactionMessage
  <2> QED
    BY <2>1, TransactionIsRead DEF Parse
<1>2. ASSUME NEW m \in Messages(p)
      PROVE  Parse(p, m.json) = {m.meant} /\ m.meant.amount \in amounts
  <2>1. \E type, a, to : \E amount \in amounts : m = TransactionMessage(type, a, to, amount)
    BY DEF Messages
  <2> QED
    BY <1>1, <2>1
<1>3. ASSUME NEW json \in OtherMessages(p), r \in Parse(p, json)
      PROVE  r.amount \in amounts
  <2> DEFINE bad == [TransactionMessage("TRANSFER", 1, 1, 1).json EXCEPT !["to_account"] = Str("1")]
  <2>1. ParseTransaction(bad) = {}
    <3>1. 1 # None
      BY DEF None
    <3>2. Has(bad, "to_account", "string") /\ ~Absent(bad, "to_account")
      BY <3>1 DEF TransactionMessage, Has, Str, Absent
    <3> QED
      BY <3>2 DEF ParseTransaction, OptionalIsInt, Has
  <2>2. json # bad
    BY <1>3, <2>1 DEF Parse
  <2>3. \E type, a, to : \E amount \in amounts :
            json = TransactionMessage(type, a, to, amount).json
    <3>1. \/ json = bad
          \/ \E a \in Accounts : json = TransactionMessage("DEPOSIT", a, None, Amount).json
          \/ \E a, b \in Accounts : json = TransactionMessage("TRANSFER", a, b, 0).json
      BY <1>3 DEF OtherMessages
    <3>2. Amount \in amounts /\ 0 \in amounts
      OBVIOUS
    <3> HIDE DEF bad, amounts
    <3> QED
      BY <2>2, <3>1, <3>2
  <2>4. \E m : m.meant.amount \in amounts /\ Parse(p, json) = {m.meant}
    BY <1>1, <2>3
  <2> QED
    BY <1>3, <2>4
<1>4. \/ \E m \in Messages(p) : r \in Parse(p, m.json)
      \/ \E json \in OtherMessages(p) : r \in Parse(p, json)
  BY DEF Requested
<1>5. r.amount \in amounts
  <2>1. CASE \E m \in Messages(p) : r \in Parse(p, m.json)
    BY <1>2, <2>1
  <2>2. CASE \E json \in OtherMessages(p) : r \in Parse(p, json)
    <3>1. PICK json \in OtherMessages(p) : r \in Parse(p, json)
      BY <2>2
    <3> HIDE DEF amounts
    <3> QED
      BY <1>3, <3>1
  <2> QED
    BY <1>4, <2>1, <2>2
<1>6. AdminAmounts \subseteq Int /\ Amount \in Int /\ 0 \in Int
  BY ClientConstants
<1> QED
  BY <1>5, <1>6

-----------------------------------------------------------------------------
(* Counting the client's requests in a ring. *)
LEMMA MineIsFinite ==
    ASSUME NEW S, NEW q \in Seq(S)
    PROVE  IsFiniteSet(Mine(q)) /\ Cardinality(Mine(q)) \in Nat
<1>1. Len(q) \in Nat
  BY LenProperties
<1>2. IsFiniteSet(1..Len(q))
  BY <1>1, FS_Interval
<1>3. Mine(q) \in SUBSET (1..Len(q))
  BY DEF Mine
<1>4. IsFiniteSet(Mine(q))
  BY <1>2, <1>3, FS_Subset
<1> QED
  BY <1>4, FS_CardinalityType

LEMMA MineOfAppend ==
    ASSUME NEW S, NEW q \in Seq(S), NEW e \in S
    PROVE  Cardinality(Mine(Append(q, e))) =
               Cardinality(Mine(q)) + (IF e.conn = "client" THEN 1 ELSE 0)
<1> DEFINE n == Len(q) + 1
<1>1. /\ Len(q) \in Nat /\ Len(Append(q, e)) = n
      /\ \A i \in 1..Len(q) : Append(q, e)[i] = q[i]
      /\ Append(q, e)[n] = e
  BY AppendProperties, LenProperties
<1>2. \A i : i \in 1..n <=> i \in 1..Len(q) \/ i = n
  BY <1>1
<1>3. n \notin Mine(q)
  BY <1>1 DEF Mine
<1>4. Mine(Append(q, e)) = IF e.conn = "client" THEN Mine(q) \union {n} ELSE Mine(q)
  BY <1>1, <1>2, Zenon DEF Mine
<1>5. Cardinality(Mine(q) \union {n}) = Cardinality(Mine(q)) + 1
  BY <1>3, MineIsFinite, FS_AddElement
<1> HIDE DEF n
<1> QED
  BY <1>4, <1>5, MineIsFinite

LEMMA MineOfTail ==
    ASSUME NEW S, NEW q \in Seq(S), q # <<>>
    PROVE  Cardinality(Mine(q)) =
               Cardinality(Mine(Tail(q))) + (IF Head(q).conn = "client" THEN 1 ELSE 0)
<1> DEFINE t == Tail(q)
           up == [i \in Mine(t) |-> i + 1]
           rest == Mine(q) \ {1}
<1>1. /\ t \in Seq(S) /\ Len(t) = Len(q) - 1 /\ Len(q) \in Nat \ {0}
      /\ \A i \in 1..Len(t) : t[i] = q[i + 1]
      /\ Head(q) = q[1]
  BY HeadTailProperties, LenProperties, EmptySeq
<1> HIDE DEF t
<1>2. ExistsBijection(Mine(t), rest)
  <2>1. \A i \in Mine(t) : i \in Int /\ i + 1 \in rest
    BY <1>1 DEF Mine
  <2>2. \A k \in rest : k - 1 \in Mine(t) /\ (k - 1) + 1 = k
    BY <1>1 DEF Mine
  <2>3. up \in [Mine(t) -> rest]
    BY <2>1
  <2>4. \A i, k \in Mine(t) : up[i] = up[k] => i = k
    BY <2>1
  <2>5. \A k \in rest : \E i \in Mine(t) : up[i] = k
    BY <2>2
  <2> HIDE DEF rest, up
  <2> QED
    BY <2>3, <2>4, <2>5 DEF ExistsBijection, Bijection, Injection, Surjection, IsInjective
<1>3. IsFiniteSet(Mine(t)) /\ IsFiniteSet(Mine(q))
  BY <1>1, MineIsFinite
<1>4. Cardinality(rest) = Cardinality(Mine(t))
  <2> HIDE DEF rest, up
  <2> QED
    BY <1>2, <1>3, FS_Bijection
<1>5. Cardinality(rest) = IF 1 \in Mine(q) THEN Cardinality(Mine(q)) - 1
                                           ELSE Cardinality(Mine(q))
  BY <1>3, FS_RemoveElement
<1>6. 1 \in Mine(q) <=> Head(q).conn = "client"
  BY <1>1 DEF Mine
<1>7. Cardinality(Mine(q)) \in Nat
  BY <1>3, FS_CardinalityType
<1> HIDE DEF rest
<1> QED
  BY <1>4, <1>5, <1>6, <1>7 DEF t

LEMMA Sizes ==
    ASSUME NEW S, NEW s \in Seq(S)
    PROVE  /\ Size(s) \in Nat
           /\ \A e \in S : Append(s, e) \in Seq(S) /\ Size(Append(s, e)) = Size(s) + 1
           /\ s # <<>> => /\ Tail(s) \in Seq(S) /\ Head(s) \in S
                          /\ Size(s) = Size(Tail(s)) + 1 /\ Size(Tail(s)) \in Nat
BY LenProperties, AppendProperties, HeadTailProperties, EmptySeq DEF Size

LEMMA WorkersAreFinite == IsFiniteSet(Workers)
BY ClientConstants, FS_Union DEF Workers

LEMMA AtWorkIsFinite ==
    ASSUME NEW p
    PROVE  IsFiniteSet(AtWork(p)) /\ Cardinality(AtWork(p)) \in Nat
<1>1. AtWork(p) \in SUBSET Workers
  BY DEF AtWork
<1>2. IsFiniteSet(AtWork(p))
  BY <1>1, WorkersAreFinite, FS_Subset
<1> QED
  BY <1>2, FS_CardinalityType

LEMMA CountsAreNat ==
    ASSUME NEW p, PathTypeOK(p)
    PROVE  /\ Size(toServer[p]) \in Nat /\ Size(toClient[p]) \in Nat
           /\ Cardinality(Mine(queued[p])) \in Nat /\ Cardinality(AtWork(p)) \in Nat
BY Sizes, MineIsFinite, AtWorkIsFinite DEF PathTypeOK

-----------------------------------------------------------------------------
(* What every action leaves alone. *)
LEMMA Counted ==
    ASSUME NEW p
    PROVE  /\ UnderWay(p) = Size(toServer[p]) + Size(toClient[p])
                            + Cardinality(Mine(queued[p])) + Cardinality(AtWork(p))
           /\ UnderWay(p)' = Size(toServer'[p]) + Size(toClient'[p])
                             + Cardinality(Mine(queued'[p])) + Cardinality(AtWork(p)')
BY DEF UnderWay

(* Replies that were true of the past stay so. *)
LEMMA AnswersStayTrue ==
    ASSUME NEW p, NEW h, NEW k, \A a \in Accounts : h[a] \subseteq k[a]
    PROVE  Seq(Answers(p, h)) \subseteq Seq(Answers(p, k))
<1>1. LoggedIn(h) \subseteq LoggedIn(k)
  BY DEF LoggedIn
<1>2. Answers(p, h) \subseteq Answers(p, k)
  BY <1>1, Zenon DEF Answers
<1> QED
  BY <1>2, SeqMonotonic

LEMMA PathFrame ==
    ASSUME NEW p \in Paths, PathTypeOK(p), Owed(p),
           toServer'[p] = toServer[p], toClient'[p] = toClient[p],
           queued'[p] = queued[p], outstanding'[p] = outstanding[p],
           socket'[p] = socket[p], AtWork(p)' = AtWork(p),
           clicks \in Nat, clicks' \in Nat, clicks <= clicks',
           \A a \in Accounts : had[a] \subseteq had'[a]
    PROVE  PathTypeOK(p)' /\ Owed(p)'
<1>1. Seq(Answers(p, had)) \subseteq Seq(Answers(p, had'))
  BY AnswersStayTrue
<1>2. Requested(p)' = Requested(p) /\ Entry(p)' = Entry(p) /\ Messages(p)' = Messages(p)
  BY DEF Requested, Entry, Messages
<1>3. PathTypeOK(p)'
  BY <1>1, <1>2 DEF PathTypeOK
<1>4. UnderWay(p)' = UnderWay(p)
  BY DEF UnderWay
<1>5. outstanding[p] \in 0..clicks => outstanding[p] \in 0..clicks'
  OBVIOUS
<1> QED
  BY <1>3, <1>4, <1>5 DEF Owed

LEMMA JobsFrame ==
    ASSUME job' = job
    PROVE  /\ stage' = stage => \A p : AtWork(p)' = AtWork(p)
           /\ JobsTypeOK => JobsTypeOK'
           /\ stage' = stage /\ hung' = hung /\ StagesTypeOK => StagesTypeOK'
<1>1. \A p \in Paths : Entry(p)' = Entry(p)
  BY DEF Requested, Entry, Messages
<1>2. \A w \in Workers : PathOf(w) \in Paths
  BY DEF PathOf, Paths
<1> QED
  BY <1>1, <1>2 DEF AtWork, JobsTypeOK, StagesTypeOK

-----------------------------------------------------------------------------
(* The actions, one after the other.  A message is sent: *)
LEMMA SendKeeps ==
    ASSUME ServerTypeOK, RepliesAreOwed, NEW p \in Paths, NEW m \in Messages(p),
           Click, SendIfUp(p, m), UNCHANGED server
    PROVE  ServerTypeOK' /\ RepliesAreOwed' /\ socket' = socket
<1> DEFINE up == socket[p] = "up"
<1>1. /\ clicks \in Nat /\ clicks' = clicks + 1 /\ clicks' \in 0..MaxClicks
      /\ outstanding[p] \in 0..clicks
  BY ClientConstants DEF Click, RepliesAreOwed, Owed
<1>2. /\ OnPaths(toServer') /\ OnPaths(outstanding')
      /\ toServer'[p] = IF up THEN Append(toServer[p], m) ELSE toServer[p]
      /\ outstanding'[p] = IF up THEN outstanding[p] + 1 ELSE outstanding[p]
      /\ \A q \in Paths : q # p => /\ toServer'[q] = toServer[q]
                                   /\ outstanding'[q] = outstanding[q]
  <2>1. OnPaths(toServer) /\ OnPaths(outstanding)
    BY DEF ServerTypeOK, RepliesAreOwed
  <2>2. PICK x : toServer' = [toServer EXCEPT ![p] = x]
                 /\ x = IF up THEN Append(toServer[p], m) ELSE toServer[p]
    BY DEF SendIfUp
  <2>3. PICK y : outstanding' = [outstanding EXCEPT ![p] = y]
                 /\ y = IF up THEN outstanding[p] + 1 ELSE outstanding[p]
    BY DEF SendIfUp
  <2>4. OnPaths(toServer') /\ toServer'[p] = x
        /\ \A q \in Paths : q # p => toServer'[q] = toServer[q]
    BY <2>1, <2>2 DEF OnPaths
  <2>5. OnPaths(outstanding') /\ outstanding'[p] = y
        /\ \A q \in Paths : q # p => outstanding'[q] = outstanding[q]
    BY <2>1, <2>3 DEF OnPaths
  <2> QED
    BY <2>2, <2>3, <2>4, <2>5
<1>3. /\ UNCHANGED <<socket, toClient, queued, job, stage, hung, balance, mem, rows, had>>
      /\ \A q : AtWork(q)' = AtWork(q)
  BY JobsFrame DEF SendIfUp, server, memory
<1>4. PathTypeOK(p) /\ Owed(p)
  BY DEF ServerTypeOK, RepliesAreOwed
<1>5. ASSUME NEW q \in Paths
      PROVE  PathTypeOK(q)' /\ Owed(q)'
  <2>0. PathTypeOK(q) /\ Owed(q)
    BY DEF ServerTypeOK, RepliesAreOwed
  <2>1. CASE q # p \/ ~up
    <3>1. toServer'[q] = toServer[q] /\ outstanding'[q] = outstanding[q]
      BY <1>2, <2>1
    <3>2. clicks <= clicks' /\ clicks' \in Nat
      BY <1>1
    <3> QED
      BY <1>1, <1>3, <2>0, <3>1, <3>2, PathFrame
  <2>2. CASE q = p /\ up
    <3>1. /\ toServer'[p] \in Seq(Messages(p))
          /\ Size(toServer'[p]) = Size(toServer[p]) + 1
      BY <1>2, <1>4, <2>2, Sizes DEF PathTypeOK
    <3>2. Entry(p)' = Entry(p) /\ Messages(p)' = Messages(p)
      BY DEF Requested, Entry, Messages
    <3>3. PathTypeOK(p)'
      BY <1>3, <1>4, <3>1, <3>2 DEF PathTypeOK
    <3>4. AtWork(p)' = AtWork(p) /\ toClient'[p] = toClient[p] /\ queued'[p] = queued[p]
      BY <1>3
    <3>5. UnderWay(p)' = UnderWay(p) + 1 /\ UnderWay(p) \in Nat
      BY <1>4, <3>1, <3>4, Counted, CountsAreNat
    <3>6. UnderWay(p) <= outstanding[p]
      BY <1>4, <2>2 DEF Owed
    <3> QED
      BY <1>1, <1>2, <1>3, <2>2, <3>3, <3>5, <3>6 DEF Owed
  <2> QED
    BY <2>1, <2>2
<1>6. JobsTypeOK' /\ StagesTypeOK' /\ BalancesTypeOK'
  BY <1>3, JobsFrame DEF ServerTypeOK, BalancesTypeOK
<1> QED
  BY <1>1, <1>2, <1>3, <1>5, <1>6 DEF ServerTypeOK, RepliesAreOwed

LEMMA ReplyEffects ==
    ASSUME OnPaths(toClient), NEW p \in Paths, NEW S, toClient[p] \in Seq(S),
           NEW conn, NEW reply \in S, Replied(conn, p, reply)
    PROVE  /\ OnPaths(toClient')
           /\ \A q \in Paths : q # p => toClient'[q] = toClient[q]
           /\ toClient'[p] \in Seq(S)
           /\ Size(toClient[p]) \in Nat /\ Size(toClient'[p]) \in Nat
           /\ Size(toClient'[p]) <= Size(toClient[p]) + (IF conn = "client" THEN 1 ELSE 0)
           /\ socket[p] # "up" => toClient'[p] = toClient[p]
<1> DEFINE sent == conn = "client" /\ socket[p] = "up"
<1>1. PICK x : /\ toClient' = [toClient EXCEPT ![p] = x]
               /\ x = IF sent THEN Append(toClient[p], reply) ELSE toClient[p]
  BY DEF Replied
<1>2. /\ OnPaths(toClient') /\ toClient'[p] = x
      /\ \A q \in Paths : q # p => toClient'[q] = toClient[q]
  BY <1>1 DEF OnPaths
<1>3. CASE sent
  <2>1. /\ x \in Seq(S) /\ Size(x) = Size(toClient[p]) + 1 /\ Size(toClient[p]) \in Nat
    BY <1>1, <1>3, Sizes
  <2> QED
    BY <1>2, <1>3, <2>1
<1>4. CASE ~sent
  <2>1. x = toClient[p] /\ Size(toClient[p]) \in Nat
    BY <1>1, <1>4, Sizes
  <2> QED
    BY <1>2, <2>1
<1> QED
  BY <1>3, <1>4

LEMMA TextsAreAnswers ==
    ASSUME NEW p, NEW h
    PROVE  /\ Texts \subseteq Answers(p, h)
           /\ \A t \in {"BAD_STRUCTURE", "Success", "SUCCESS", "ERROR", "Invalid user_id",
                        "Invalid username of password"} : Text(t) \in Texts
BY DEF Answers, Texts

LEMMA HandleEffects ==
    ASSUME ServerTypeOK, NEW p \in Paths, NEW conn \in {"client", "other"}, NEW json,
           Parse(p, json) \subseteq Requested(p), HandleMessage(conn, p, json)
    PROVE  /\ OnPaths(toClient') /\ OnPaths(queued')
           /\ \A q \in Paths : q # p => toClient'[q] = toClient[q] /\ queued'[q] = queued[q]
           /\ toClient'[p] \in Seq(Answers(p, had))
           /\ queued'[p] \in Seq(Entry(p)) /\ Len(queued'[p]) <= Capacity
           /\ Size(toClient'[p]) + Cardinality(Mine(queued'[p]))
                <= Size(toClient[p]) + Cardinality(Mine(queued[p]))
                   + (IF conn = "client" THEN 1 ELSE 0)
           /\ socket[p] # "up" => toClient'[p] = toClient[p]
<1> DEFINE one == IF conn = "client" THEN 1 ELSE 0
<1>1. PathTypeOK(p) /\ OnPaths(toClient) /\ OnPaths(queued)
  BY DEF ServerTypeOK
<1>2. toClient[p] \in Seq(Answers(p, had)) /\ queued[p] \in Seq(Entry(p))
  BY <1>1 DEF PathTypeOK
<1>3. Size(toClient[p]) \in Nat /\ Cardinality(Mine(queued[p])) \in Nat
  BY <1>1, CountsAreNat
<1>4. ASSUME NEW t \in {"BAD_STRUCTURE", "Success", "ERROR"},
             Replied(conn, p, Text(t)), UNCHANGED queued
      PROVE  /\ OnPaths(toClient')
             /\ \A q \in Paths : q # p => toClient'[q] = toClient[q]
             /\ toClient'[p] \in Seq(Answers(p, had))
             /\ Size(toClient'[p]) \in Nat
             /\ Size(toClient'[p]) <= Size(toClient[p]) + one
             /\ socket[p] # "up" => toClient'[p] = toClient[p]
  <2>1. Text(t) \in Answers(p, had)
    BY TextsAreAnswers
  <2> QED
    BY <1>1, <1>2, <1>4, <2>1, ReplyEffects
<1>5. CASE \E t \in {"BAD_STRUCTURE", "Success", "ERROR"} :
               Replied(conn, p, Text(t)) /\ UNCHANGED queued
  <2> HIDE DEF one
  <2>1. queued' = queued
    BY <1>5
  <2>2. one \in Nat
    BY DEF one
  <2>3. /\ OnPaths(toClient')
        /\ \A q \in Paths : q # p => toClient'[q] = toClient[q]
        /\ toClient'[p] \in Seq(Answers(p, had))
        /\ Size(toClient'[p]) \in Nat
        /\ Size(toClient'[p]) <= Size(toClient[p]) + one
        /\ socket[p] # "up" => toClient'[p] = toClient[p]
    BY <1>4, <1>5
  <2>4. Size(toClient'[p]) + Cardinality(Mine(queued'[p]))
            <= Size(toClient[p]) + Cardinality(Mine(queued[p])) + one
    BY <1>3, <2>1, <2>2, <2>3
  <2> QED
    BY <1>1, <1>2, <2>1, <2>3, <2>4 DEF PathTypeOK, one
<1>6. CASE \E r \in Parse(p, json) :
               /\ queued' = [queued EXCEPT ![p] =
                      IF HasRoom(p) THEN Append(@, [conn |-> conn, req |-> r]) ELSE @]
               /\ UNCHANGED toClient
  <2>1. PICK r \in Parse(p, json) :
               /\ queued' = [queued EXCEPT ![p] =
                      IF HasRoom(p) THEN Append(@, [conn |-> conn, req |-> r]) ELSE @]
               /\ UNCHANGED toClient
    BY <1>6
  <2> DEFINE e == [conn |-> conn, req |-> r]
  <2>2. e \in Entry(p) /\ e.conn = conn
    BY DEF Entry
  <2>3. PICK x : /\ queued' = [queued EXCEPT ![p] = x]
                 /\ x = IF HasRoom(p) THEN Append(queued[p], e) ELSE queued[p]
    BY <2>1
  <2>4. /\ OnPaths(queued') /\ queued'[p] = x
        /\ \A q \in Paths : q # p => queued'[q] = queued[q]
    BY <1>1, <2>3 DEF OnPaths
  <2>5. /\ x \in Seq(Entry(p)) /\ Len(x) <= Capacity
        /\ Cardinality(Mine(x)) <= Cardinality(Mine(queued[p])) + one
    <3> HIDE DEF e
    <3>1. CASE HasRoom(p)
      <4>1. Cardinality(Mine(x)) = Cardinality(Mine(queued[p])) + one
        BY <1>2, <2>2, <2>3, <3>1, MineOfAppend
      <4>2. x \in Seq(Entry(p)) /\ Len(x) = Len(queued[p]) + 1 /\ Len(queued[p]) \in Nat
        BY <1>2, <2>2, <2>3, <3>1, AppendProperties, LenProperties
      <4>3. Len(queued[p]) < Capacity
        BY <3>1 DEF HasRoom
      <4> QED
        BY <1>3, <4>1, <4>2, <4>3, ClientConstants
    <3>2. CASE ~HasRoom(p)
      BY <1>1, <1>3, <2>3, <3>2 DEF PathTypeOK
    <3> QED
      BY <3>1, <3>2
  <2>6. Cardinality(Mine(x)) \in Nat
    BY <2>5, MineIsFinite
  <2>7. toClient' = toClient
    BY <2>1
  <2> QED
    BY <1>1, <1>2, <1>3, <2>4, <2>5, <2>6, <2>7
<1> QED
  BY <1>5, <1>6 DEF HandleMessage

(* A path on which nothing new is sent. *)
LEMMA OwedStep ==
    ASSUME NEW p \in Paths, PathTypeOK(p), PathTypeOK(p)', Owed(p),
           socket'[p] = socket[p], clicks' = clicks,
           outstanding'[p] = outstanding[p], UnderWay(p)' <= UnderWay(p),
           socket[p] # "up" => toServer'[p] = toServer[p] /\ toClient'[p] = toClient[p]
    PROVE  Owed(p)'
<1>1. UnderWay(p) \in Nat
  BY Counted, CountsAreNat
<1>2. UnderWay(p)' \in Nat
  <2>1. /\ Size(toServer'[p]) \in Nat /\ Size(toClient'[p]) \in Nat
        /\ Cardinality(Mine(queued'[p])) \in Nat
    BY Sizes, MineIsFinite DEF PathTypeOK
  <2>2. Cardinality(AtWork(p)') \in Nat
    <3>1. AtWork(p)' \in SUBSET Workers
      BY DEF AtWork
    <3>2. IsFiniteSet(AtWork(p)')
      BY <3>1, WorkersAreFinite, FS_Subset
    <3> QED
      BY <3>2, FS_CardinalityType
  <2> QED
    BY <2>1, <2>2, Counted
<1>3. outstanding[p] \in Int
  BY DEF Owed
<1> QED
  BY <1>1, <1>2, <1>3 DEF Owed

LEMMA SetsOfEntries ==
    ASSUME NEW p
    PROVE  Entry(p)' = Entry(p) /\ Messages(p)' = Messages(p)
BY DEF Requested, Entry, Messages

(* A controller deals with a message, the client's own ... *)
LEMMA HandleKeeps ==
    ASSUME ServerTypeOK, RepliesAreOwed, NEW p \in Paths, Handle(p)
    PROVE  ServerTypeOK' /\ RepliesAreOwed'
<1> DEFINE m == Head(toServer[p])
<1>1. PathTypeOK(p) /\ Owed(p) /\ OnPaths(toServer)
  BY DEF ServerTypeOK, RepliesAreOwed
<1>2. /\ UNCHANGED <<socket, outstanding, job, stage, hung, balance, mem, rows, had, clicks>>
      /\ toServer[p] # <<>>
      /\ HandleMessage("client", p, m.json)
      /\ toServer' = [toServer EXCEPT ![p] = Tail(toServer[p])]
  BY DEF Handle, clientVars, memory
<1>3. /\ m \in Messages(p) /\ toServer'[p] \in Seq(Messages(p)) /\ OnPaths(toServer')
      /\ Size(toServer[p]) = Size(toServer'[p]) + 1 /\ Size(toServer'[p]) \in Nat
      /\ \A q \in Paths : q # p => toServer'[q] = toServer[q]
  <2>1. /\ toServer'[p] = Tail(toServer[p]) /\ OnPaths(toServer')
        /\ \A q \in Paths : q # p => toServer'[q] = toServer[q]
    BY <1>1, <1>2 DEF OnPaths
  <2> QED
    BY <1>1, <1>2, <2>1, Sizes DEF PathTypeOK
<1>4. Parse(p, m.json) \subseteq Requested(p)
  BY <1>3 DEF Requested
<1> HIDE DEF m
<1>5. /\ OnPaths(toClient') /\ OnPaths(queued')
      /\ \A q \in Paths : q # p => toClient'[q] = toClient[q] /\ queued'[q] = queued[q]
      /\ toClient'[p] \in Seq(Answers(p, had))
      /\ queued'[p] \in Seq(Entry(p)) /\ Len(queued'[p]) <= Capacity
      /\ Size(toClient'[p]) + Cardinality(Mine(queued'[p]))
           <= Size(toClient[p]) + Cardinality(Mine(queued[p])) + 1
  BY <1>2, <1>4, HandleEffects
<1>6. \A q : AtWork(q)' = AtWork(q)
  BY <1>2, JobsFrame
<1>7. PathTypeOK(p)'
  BY <1>2, <1>3, <1>5, SetsOfEntries DEF PathTypeOK
<1>8. UnderWay(p)' <= UnderWay(p)
  <2>1. Size(toClient'[p]) \in Nat /\ Cardinality(Mine(queued'[p])) \in Nat
    BY <1>5, Sizes, MineIsFinite
  <2>2. AtWork(p)' = AtWork(p)
    BY <1>6
  <2>3. Size(toClient'[p]) + Cardinality(Mine(queued'[p]))
           <= Size(toClient[p]) + Cardinality(Mine(queued[p])) + 1
    BY <1>5
  <2>4. Size(toServer[p]) = Size(toServer'[p]) + 1 /\ Size(toServer'[p]) \in Nat
    BY <1>3
  <2> QED
    BY <1>1, <2>1, <2>2, <2>3, <2>4, Counted, CountsAreNat
<1>9. socket[p] = "up"
  BY <1>1, <1>2 DEF Owed
<1>10. Owed(p)'
  BY <1>1, <1>2, <1>7, <1>8, <1>9, OwedStep
<1>11. clicks \in Nat
  BY DEF RepliesAreOwed
<1>12. ASSUME NEW q \in Paths, q # p
       PROVE  PathTypeOK(q)' /\ Owed(q)'
  <2>1. PathTypeOK(q) /\ Owed(q)
    BY DEF ServerTypeOK, RepliesAreOwed
  <2> QED
    BY <1>2, <1>3, <1>5, <1>6, <1>11, <1>12, <2>1, PathFrame
<1>13. JobsTypeOK' /\ StagesTypeOK' /\ BalancesTypeOK'
  BY <1>2, JobsFrame DEF ServerTypeOK, BalancesTypeOK
<1> QED
  BY <1>2, <1>3, <1>5, <1>7, <1>10, <1>12, <1>13 DEF ServerTypeOK, RepliesAreOwed

(* ... or another program's. *)
LEMMA HandleOtherKeeps ==
    ASSUME ServerTypeOK, RepliesAreOwed, NEW p \in Paths, HandleOther(p)
    PROVE  ServerTypeOK' /\ RepliesAreOwed'
<1>1. PathTypeOK(p) /\ Owed(p) /\ OnPaths(toServer)
  BY DEF ServerTypeOK, RepliesAreOwed
<1>2. /\ UNCHANGED <<socket, toServer, outstanding, job, stage, hung, balance, mem, rows, had, clicks>>
      /\ \E json \in OtherMessages(p) : HandleMessage("other", p, json)
  BY DEF HandleOther, clientVars, memory
<1>3. PICK json \in OtherMessages(p) : HandleMessage("other", p, json)
  BY <1>2
<1>4. Parse(p, json) \subseteq Requested(p)
  BY <1>3 DEF Requested
<1>5. /\ OnPaths(toClient') /\ OnPaths(queued')
      /\ \A q \in Paths : q # p => toClient'[q] = toClient[q] /\ queued'[q] = queued[q]
      /\ toClient'[p] \in Seq(Answers(p, had))
      /\ queued'[p] \in Seq(Entry(p)) /\ Len(queued'[p]) <= Capacity
      /\ Size(toClient'[p]) + Cardinality(Mine(queued'[p]))
           <= Size(toClient[p]) + Cardinality(Mine(queued[p])) + 0
      /\ socket[p] # "up" => toClient'[p] = toClient[p]
  BY <1>3, <1>4, HandleEffects
<1>6. \A q : AtWork(q)' = AtWork(q)
  BY <1>2, JobsFrame
<1>7. PathTypeOK(p)'
  BY <1>1, <1>2, <1>5, SetsOfEntries DEF PathTypeOK
<1>8. UnderWay(p)' <= UnderWay(p)
  <2>1. Size(toClient'[p]) \in Nat /\ Cardinality(Mine(queued'[p])) \in Nat
    BY <1>5, Sizes, MineIsFinite
  <2>2. AtWork(p)' = AtWork(p) /\ toServer'[p] = toServer[p]
    BY <1>2, <1>6
  <2>3. Size(toClient'[p]) + Cardinality(Mine(queued'[p]))
           <= Size(toClient[p]) + Cardinality(Mine(queued[p])) + 0
    BY <1>5
  <2> QED
    BY <1>1, <2>1, <2>2, <2>3, Counted, CountsAreNat
<1>9. Owed(p)'
  BY <1>1, <1>2, <1>5, <1>7, <1>8, OwedStep
<1>10. clicks \in Nat
  BY DEF RepliesAreOwed
<1>11. ASSUME NEW q \in Paths, q # p
       PROVE  PathTypeOK(q)' /\ Owed(q)'
  <2>1. PathTypeOK(q) /\ Owed(q)
    BY DEF ServerTypeOK, RepliesAreOwed
  <2> QED
    BY <1>2, <1>5, <1>6, <1>10, <1>11, <2>1, PathFrame
<1>12. JobsTypeOK' /\ StagesTypeOK' /\ BalancesTypeOK'
  BY <1>2, JobsFrame DEF ServerTypeOK, BalancesTypeOK
<1> QED
  BY <1>1, <1>2, <1>5, <1>7, <1>9, <1>11, <1>12 DEF ServerTypeOK, RepliesAreOwed

LEMMA PathsOfWorkers ==
    ASSUME NEW w \in Workers
    PROVE  PathOf(w) \in Paths
BY DEF PathOf, Paths

(* A worker goes on with the jobs J, at stage s. *)
LEMMA JobUpdate ==
    ASSUME JobsTypeOK, StagesTypeOK, NEW w \in Workers, NEW J, NEW s,
           J = {} \/ \E j \in Entry(PathOf(w)) : J = {j},
           s \in {"start", "read", "stored", "committed", "answered"},
           J = {} => s = "start" /\ w \notin hung,
           s \in {"read", "stored"} => \A j \in J : j.req.user_id \in Users,
           job' = [job EXCEPT ![w] = J], stage' = [stage EXCEPT ![w] = s],
           hung' = hung
    PROVE  /\ JobsTypeOK' /\ StagesTypeOK'
           /\ \A q : q # PathOf(w) => AtWork(q)' = AtWork(q)
           /\ AtWork(PathOf(w))' = IF s # "answered" /\ \E j \in J : j.conn = "client"
                                   THEN AtWork(PathOf(w)) \union {w}
                                   ELSE AtWork(PathOf(w)) \ {w}
<1>1. /\ job'[w] = J /\ \A v \in Workers : v # w => job'[v] = job[v]
      /\ stage'[w] = s /\ \A v \in Workers : v # w => stage'[v] = stage[v]
  BY DEF JobsTypeOK, StagesTypeOK
<1>2. \A q : AtWork(q)' = {v \in Workers : /\ PathOf(v) = q /\ stage'[v] # "answered"
                                           /\ \E j \in job'[v] : j.conn = "client"}
  BY DEF AtWork
<1>3. \A q : q # PathOf(w) => AtWork(q)' = AtWork(q)
  BY <1>1, <1>2 DEF AtWork
<1>4. AtWork(PathOf(w))' = IF s # "answered" /\ \E j \in J : j.conn = "client"
                           THEN AtWork(PathOf(w)) \union {w}
                           ELSE AtWork(PathOf(w)) \ {w}
  <2> DEFINE p == PathOf(w)
             busy == s # "answered" /\ \E j \in J : j.conn = "client"
  <2>1. \A v \in Workers : v # w => (v \in AtWork(p)' <=> v \in AtWork(p))
    BY <1>1, <1>2 DEF AtWork
  <2>2. w \in AtWork(p)' <=> busy
    BY <1>1, <1>2
  <2>3. AtWork(p)' \subseteq Workers /\ AtWork(p) \subseteq Workers
    BY <1>2 DEF AtWork
  <2> HIDE DEF p, busy
  <2>4. CASE busy
    BY <2>1, <2>2, <2>3, <2>4 DEF p, busy
  <2>5. CASE ~busy
    BY <2>1, <2>2, <2>3, <2>5 DEF p, busy
  <2> QED
    BY <2>4, <2>5
<1>5. JobsTypeOK'
  <2>1. \A q : Entry(q)' = Entry(q)
    BY SetsOfEntries
  <2>2. J \in SUBSET UNION {Entry(q) : q \in Paths}
    BY PathsOfWorkers
  <2>3. job' \in [Workers -> SUBSET UNION {Entry(q) : q \in Paths}]
    BY <2>2 DEF JobsTypeOK
  <2>4. \A v \in Workers : job'[v] = {} \/ \E j \in Entry(PathOf(v)) : job'[v] = {j}
    BY <1>1 DEF JobsTypeOK
  <2> QED
    BY <2>1, <2>3, <2>4 DEF JobsTypeOK
<1>6. StagesTypeOK'
  BY <1>1 DEF StagesTypeOK
<1> QED
  BY <1>3, <1>4, <1>5, <1>6

(* A worker takes a request out of its ring. *)
LEMMA PopKeeps ==
    ASSUME ServerTypeOK, RepliesAreOwed, NEW w \in Workers, PopRequest(w)
    PROVE  ServerTypeOK' /\ RepliesAreOwed'
<1> DEFINE p == PathOf(w)
           e == Head(queued[p])
<1>1. p \in Paths
  BY PathsOfWorkers
<1>2. PathTypeOK(p) /\ Owed(p) /\ OnPaths(queued) /\ JobsTypeOK /\ StagesTypeOK
  BY <1>1 DEF ServerTypeOK, RepliesAreOwed
<1>3. /\ UNCHANGED <<socket, toServer, toClient, outstanding, stage, hung, balance, mem, rows, had, clicks>>
      /\ job[w] = {} /\ queued[p] # <<>>
      /\ job' = [job EXCEPT ![w] = {e}]
      /\ queued' = [queued EXCEPT ![p] = Tail(queued[p])]
  BY DEF PopRequest, clientVars, network, memory
<1>4. /\ queued'[p] = Tail(queued[p]) /\ OnPaths(queued')
      /\ \A q \in Paths : q # p => queued'[q] = queued[q]
  BY <1>1, <1>2, <1>3 DEF OnPaths
<1>5. /\ e \in Entry(p) /\ queued'[p] \in Seq(Entry(p))
      /\ Size(queued[p]) = Size(queued'[p]) + 1 /\ Size(queued'[p]) \in Nat
      /\ Cardinality(Mine(queued[p])) =
             Cardinality(Mine(queued'[p])) + (IF e.conn = "client" THEN 1 ELSE 0)
  <2>1. queued[p] \in Seq(Entry(p))
    BY <1>2 DEF PathTypeOK
  <2>2. Cardinality(Mine(queued[p])) =
            Cardinality(Mine(Tail(queued[p]))) + (IF e.conn = "client" THEN 1 ELSE 0)
    BY <1>3, <2>1, MineOfTail
  <2> QED
    BY <1>3, <1>4, <2>1, <2>2, Sizes
<1> HIDE DEF e
<1>6. /\ JobsTypeOK' /\ StagesTypeOK'
      /\ \A q : q # p => AtWork(q)' = AtWork(q)
      /\ AtWork(p)' = IF e.conn = "client" THEN AtWork(p) \union {w} ELSE AtWork(p) \ {w}
  <2>1. {e} = {} \/ \E j \in Entry(PathOf(w)) : {e} = {j}
    BY <1>5
  <2>2. stage[w] = "start" /\ stage' = [stage EXCEPT ![w] = "start"] /\ hung' = hung
    BY <1>2, <1>3 DEF StagesTypeOK
  <2>3. PICK J, s : J = {e} /\ s = "start"
    OBVIOUS
  <2>4. /\ JobsTypeOK' /\ StagesTypeOK'
        /\ \A q : q # PathOf(w) => AtWork(q)' = AtWork(q)
        /\ AtWork(PathOf(w))' = IF s # "answered" /\ \E j \in J : j.conn = "client"
                                THEN AtWork(PathOf(w)) \union {w}
                                ELSE AtWork(PathOf(w)) \ {w}
    BY <1>2, <1>3, <2>1, <2>2, <2>3, JobUpdate
  <2> QED
    BY <2>3, <2>4
<1> HIDE DEF p
<1>7. /\ Cardinality(AtWork(p)') = Cardinality(AtWork(p)) + (IF e.conn = "client" THEN 1 ELSE 0)
      /\ Cardinality(AtWork(p)) \in Nat
  <2>1. w \notin AtWork(p)
    BY <1>3 DEF AtWork
  <2>2. AtWork(p) \ {w} = AtWork(p)
    BY <2>1
  <2>3. Cardinality(AtWork(p) \union {w}) = Cardinality(AtWork(p)) + 1
    BY <2>1, AtWorkIsFinite, FS_AddElement
  <2> QED
    BY <1>6, <2>2, <2>3, AtWorkIsFinite
<1>8. PathTypeOK(p)'
  <2>1. Size(queued'[p]) <= Capacity
    BY <1>2, <1>5, ClientConstants DEF PathTypeOK, Size
  <2>2. Len(queued'[p]) <= Capacity
    BY <2>1 DEF Size
  <2> QED
    BY <1>2, <1>3, <1>5, <2>2, SetsOfEntries DEF PathTypeOK
<1>9. UnderWay(p)' = UnderWay(p) /\ UnderWay(p) \in Nat
  <2>1. Cardinality(Mine(queued'[p])) \in Nat
    BY <1>5, MineIsFinite
  <2>2. toServer'[p] = toServer[p] /\ toClient'[p] = toClient[p]
    BY <1>3
  <2>3. Cardinality(Mine(queued[p])) =
            Cardinality(Mine(queued'[p])) + (IF e.conn = "client" THEN 1 ELSE 0)
    BY <1>5
  <2> QED
    BY <1>2, <1>7, <2>1, <2>2, <2>3, Counted, CountsAreNat
<1>10. Owed(p)'
  BY <1>1, <1>2, <1>3, <1>8, <1>9, OwedStep
<1>11. clicks \in Nat
  BY DEF RepliesAreOwed
<1>12. ASSUME NEW q \in Paths, q # p
       PROVE  PathTypeOK(q)' /\ Owed(q)'
  <2>1. PathTypeOK(q) /\ Owed(q)
    BY DEF ServerTypeOK, RepliesAreOwed
  <2> QED
    BY <1>3, <1>4, <1>6, <1>11, <1>12, <2>1, PathFrame
<1> QED
  BY <1>3, <1>4, <1>6, <1>8, <1>10, <1>12 DEF ServerTypeOK, RepliesAreOwed, BalancesTypeOK

(* A worker answers; with that, the request has left its hands, as far as  *)
(* the client is concerned.                                                *)
LEMMA CompleteKeeps ==
    ASSUME ServerTypeOK, RepliesAreOwed, NEW w \in Workers, NEW j \in job[w],
           NEW reply \in Answers(PathOf(w), had'), Replied(j.conn, PathOf(w), reply),
           stage[w] # "answered", NEW J, NEW s,
           \/ J = {} /\ s = "start" /\ w \notin hung
           \/ J = job[w] /\ s = "answered",
           job' = [job EXCEPT ![w] = J], stage' = [stage EXCEPT ![w] = s],
           BalancesTypeOK', \A a \in Accounts : had[a] \subseteq had'[a],
           UNCHANGED <<socket, toServer, outstanding, queued, clicks, hung>>
    PROVE  ServerTypeOK' /\ RepliesAreOwed'
<1> DEFINE p == PathOf(w)
           one == IF j.conn = "client" THEN 1 ELSE 0
<1>1. p \in Paths
  BY PathsOfWorkers
<1>2. PathTypeOK(p) /\ Owed(p) /\ OnPaths(toClient) /\ JobsTypeOK /\ StagesTypeOK
  BY <1>1 DEF ServerTypeOK, RepliesAreOwed
<1>3. toClient[p] \in Seq(Answers(p, had'))
  BY <1>2, AnswersStayTrue DEF PathTypeOK
<1>4. /\ OnPaths(toClient')
      /\ \A q \in Paths : q # p => toClient'[q] = toClient[q]
      /\ toClient'[p] \in Seq(Answers(p, had'))
      /\ Size(toClient[p]) \in Nat /\ Size(toClient'[p]) \in Nat
      /\ Size(toClient'[p]) <= Size(toClient[p]) + one
      /\ socket[p] # "up" => toClient'[p] = toClient[p]
  BY <1>1, <1>2, <1>3, ReplyEffects
<1>5. /\ JobsTypeOK' /\ StagesTypeOK'
      /\ \A q : q # p => AtWork(q)' = AtWork(q)
      /\ AtWork(p)' = AtWork(p) \ {w}
  <2>1. J = {} \/ \E i \in Entry(PathOf(w)) : J = {i}
    BY <1>2 DEF JobsTypeOK
  <2>2. J = {} => s = "start" /\ w \notin hung
    <3>1. job[w] # {}
      OBVIOUS
    <3> QED
      BY <3>1
  <2>3. /\ JobsTypeOK' /\ StagesTypeOK'
        /\ \A q : q # PathOf(w) => AtWork(q)' = AtWork(q)
        /\ AtWork(PathOf(w))' = IF s # "answered" /\ \E i \in J : i.conn = "client"
                                THEN AtWork(PathOf(w)) \union {w}
                                ELSE AtWork(PathOf(w)) \ {w}
    <3>1. s \in {"start", "read", "stored", "committed", "answered"} /\ hung' = hung
      OBVIOUS
    <3> QED
      BY <1>2, <2>1, <2>2, <3>1, JobUpdate
  <2>4. ~(s # "answered" /\ \E i \in J : i.conn = "client")
    OBVIOUS
  <2> QED
    BY <2>3, <2>4
<1>6. j.conn = "client" => w \in AtWork(p)
  BY DEF AtWork
<1> HIDE DEF p
<1>7. Cardinality(AtWork(p)') <= Cardinality(AtWork(p)) - one
  <2>1. Cardinality(AtWork(p) \ {w}) = IF w \in AtWork(p) THEN Cardinality(AtWork(p)) - 1
                                                          ELSE Cardinality(AtWork(p))
    BY AtWorkIsFinite, FS_RemoveElement
  <2> QED
    BY <1>5, <1>6, <2>1, AtWorkIsFinite
<1>8. one \in Nat /\ Cardinality(AtWork(p)) \in Nat /\ Cardinality(AtWork(p)') \in Nat
  <2>1. IsFiniteSet(AtWork(p) \ {w})
    BY AtWorkIsFinite, FS_RemoveElement
  <2> QED
    BY <1>5, <2>1, AtWorkIsFinite, FS_CardinalityType
<1> HIDE DEF one
<1>9. PathTypeOK(p)'
  BY <1>2, <1>4, SetsOfEntries DEF PathTypeOK
<1>10. UnderWay(p)' <= UnderWay(p)
  <2>1. Cardinality(Mine(queued'[p])) = Cardinality(Mine(queued[p]))
    OBVIOUS
  <2>2. Size(toServer'[p]) = Size(toServer[p])
    OBVIOUS
  <2>3. /\ Size(toClient[p]) \in Nat /\ Size(toClient'[p]) \in Nat
        /\ Size(toClient'[p]) <= Size(toClient[p]) + one
    BY <1>4
  <2> QED
    BY <1>2, <1>7, <1>8, <2>1, <2>2, <2>3, Counted, CountsAreNat
<1>11. Owed(p)'
  BY <1>1, <1>2, <1>4, <1>9, <1>10, OwedStep
<1>12. clicks \in Nat
  BY DEF RepliesAreOwed
<1>13. ASSUME NEW q \in Paths, q # p
       PROVE  PathTypeOK(q)' /\ Owed(q)'
  <2>1. PathTypeOK(q) /\ Owed(q)
    BY DEF ServerTypeOK, RepliesAreOwed
  <2> QED
    BY <1>4, <1>5, <1>12, <1>13, <2>1, PathFrame
<1> QED
  BY <1>4, <1>5, <1>9, <1>11, <1>13 DEF ServerTypeOK, RepliesAreOwed

(* Nothing is answered, and nothing leaves a worker's hands. *)
LEMMA QuietKeeps ==
    ASSUME ServerTypeOK, RepliesAreOwed, JobsTypeOK', StagesTypeOK', BalancesTypeOK',
           \A a \in Accounts : had[a] \subseteq had'[a],
           \A p \in Paths : AtWork(p)' = AtWork(p),
           UNCHANGED <<network, queued, clicks>>
    PROVE  ServerTypeOK' /\ RepliesAreOwed'
<1>1. UNCHANGED <<socket, toServer, toClient, outstanding, queued, clicks>>
  BY DEF network
<1>2. clicks \in Nat
  BY ClientConstants DEF RepliesAreOwed
<1>3. ASSUME NEW p \in Paths
      PROVE  PathTypeOK(p)' /\ Owed(p)'
  <2>1. PathTypeOK(p) /\ Owed(p)
    BY DEF ServerTypeOK, RepliesAreOwed
  <2> QED
    BY <1>1, <1>2, <2>1, PathFrame
<1>4. OnPaths(toServer)' /\ OnPaths(toClient)' /\ OnPaths(queued)' /\ OnPaths(outstanding)'
  BY <1>1 DEF ServerTypeOK, RepliesAreOwed, OnPaths
<1> QED
  BY <1>1, <1>3, <1>4 DEF ServerTypeOK, RepliesAreOwed

(* A worker goes on to stage s with the job it has. *)
LEMMA StageMoves ==
    ASSUME ServerTypeOK, NEW w \in Workers, job[w] # {}, stage[w] # "answered",
           NEW s \in {"read", "stored", "committed"},
           s \in {"read", "stored"} => \A j \in job[w] : j.req.user_id \in Users,
           stage' = [stage EXCEPT ![w] = s], UNCHANGED <<job, hung>>
    PROVE  JobsTypeOK' /\ StagesTypeOK' /\ \A p : AtWork(p)' = AtWork(p)
<1>1. JobsTypeOK /\ StagesTypeOK
  BY DEF ServerTypeOK
<1>2. /\ stage'[w] = s /\ \A v \in Workers : v # w => stage'[v] = stage[v]
      /\ stage' \in [Workers -> {"start", "read", "stored", "committed", "answered"}]
  BY <1>1 DEF StagesTypeOK
<1>3. JobsTypeOK'
  BY <1>1, JobsFrame
<1>4. StagesTypeOK'
  BY <1>1, <1>2 DEF StagesTypeOK
<1>5. ASSUME NEW p
      PROVE  AtWork(p)' = AtWork(p)
  BY <1>2 DEF AtWork
<1> QED
  BY <1>3, <1>4, <1>5

(* A worker waits for ever with the job it has. *)
LEMMA HangKeeps ==
    ASSUME ServerTypeOK, RepliesAreOwed, NEW w \in Workers, job[w] # {},
           hung' = hung \union {w},
           UNCHANGED <<network, queued, clicks, job, stage, balance, mem, had, rows>>
    PROVE  ServerTypeOK' /\ RepliesAreOwed'
<1>1. JobsTypeOK /\ StagesTypeOK /\ BalancesTypeOK
  BY DEF ServerTypeOK
<1>2. JobsTypeOK' /\ \A p : AtWork(p)' = AtWork(p)
  BY <1>1, JobsFrame
<1>3. StagesTypeOK'
  BY <1>1 DEF StagesTypeOK
<1>4. BalancesTypeOK' /\ \A a \in Accounts : had[a] \subseteq had'[a]
  BY <1>1 DEF BalancesTypeOK
<1> QED
  BY <1>2, <1>3, <1>4, QuietKeeps

-----------------------------------------------------------------------------
(* login() *)
LEMMA ReadAccountsKeeps ==
    ASSUME ServerTypeOK, RepliesAreOwed, NEW w \in Workers, ReadAccounts(w)
    PROVE  ServerTypeOK' /\ RepliesAreOwed'
<1>1. /\ UNCHANGED <<network, queued, clicks, job, hung, balance, mem, had>>
      /\ stage' = [stage EXCEPT ![w] = "read"] /\ rows' = balance
  BY DEF ReadAccounts, clientVars, memory
<1>2. JobsTypeOK /\ BalancesTypeOK
  BY DEF ServerTypeOK
<1>3. job[w] # {} /\ stage[w] # "answered"
  BY DEF ReadAccounts, LoginStarts, At
<1>4. \A j \in job[w] : j.req.user_id \in Users
  BY <1>2 DEF ReadAccounts, JobsTypeOK
<1>5. JobsTypeOK' /\ StagesTypeOK' /\ \A p : AtWork(p)' = AtWork(p)
  <2>1. PICK s : s = "read"
    OBVIOUS
  <2>2. s \in {"read", "stored", "committed"} /\ stage' = [stage EXCEPT ![w] = s]
    BY <1>1, <2>1
  <2> QED
    BY <1>1, <1>3, <1>4, <2>2, StageMoves
<1>6. BalancesTypeOK' /\ \A a \in Accounts : had[a] \subseteq had'[a]
  BY <1>1, <1>2 DEF BalancesTypeOK
<1> QED
  BY <1>1, <1>5, <1>6, QuietKeeps

(* What memory gets is a balance that memory then has had. *)
LEMMA HadGrows ==
    ASSUME BalancesTypeOK, NEW f \in [Accounts -> Int],
           mem' = f, had' = [a \in Accounts |-> had[a] \union {mem'[a]}],
           balance' \in [Accounts -> Int], rows' \in [Accounts -> Int]
    PROVE  BalancesTypeOK' /\ \A a \in Accounts : had[a] \subseteq had'[a]
BY DEF BalancesTypeOK

LEMMA StoreAccountsKeeps ==
    ASSUME ServerTypeOK, RepliesAreOwed, NEW w \in Workers, StoreAccounts(w)
    PROVE  ServerTypeOK' /\ RepliesAreOwed'
<1>1. JobsTypeOK /\ StagesTypeOK /\ BalancesTypeOK
  BY DEF ServerTypeOK
<1>2. PICK j \in job[w] :
         mem' = [a \in Accounts |-> IF a \in AccountsOf[j.req.user_id] THEN rows[a]
                                                                       ELSE mem[a]]
  BY DEF StoreAccounts
<1>3. /\ UNCHANGED <<network, queued, clicks, job, hung, balance>>
      /\ stage' = [stage EXCEPT ![w] = "stored"] /\ rows' = NoRows
      /\ had' = [a \in Accounts |-> had[a] \union {mem'[a]}]
      /\ stage[w] = "read"
  BY DEF StoreAccounts, clientVars, At
<1>4. job[w] # {} /\ \A i \in job[w] : i.req.user_id \in Users
  BY <1>1, <1>3 DEF StagesTypeOK
<1>5. JobsTypeOK' /\ StagesTypeOK' /\ \A p : AtWork(p)' = AtWork(p)
  <2>1. PICK s : s = "stored"
    OBVIOUS
  <2>2. s \in {"read", "stored", "committed"} /\ stage' = [stage EXCEPT ![w] = s]
    BY <1>3, <2>1
  <2> QED
    BY <1>3, <1>4, <2>2, StageMoves
<1>6. BalancesTypeOK' /\ \A a \in Accounts : had[a] \subseteq had'[a]
  <2>1. PICK f : f = mem'
    OBVIOUS
  <2>2. f \in [Accounts -> Int] /\ mem' = f
    BY <1>1, <1>2, <2>1 DEF BalancesTypeOK
  <2>3. balance' \in [Accounts -> Int] /\ rows' \in [Accounts -> Int]
    BY <1>1, <1>3 DEF BalancesTypeOK, NoRows
  <2> QED
    BY <1>1, <1>3, <2>2, <2>3, HadGrows
<1> QED
  BY <1>3, <1>5, <1>6, QuietKeeps

LEMMA LoginHangsKeeps ==
    ASSUME ServerTypeOK, RepliesAreOwed, NEW w \in Workers, LoginHangs(w)
    PROVE  ServerTypeOK' /\ RepliesAreOwed'
<1>1. /\ hung' = hung \union {w} /\ job[w] # {}
      /\ UNCHANGED <<network, queued, clicks, job, stage, balance, mem, had, rows>>
  BY DEF LoginHangs, clientVars, memory
<1> QED
  BY <1>1, HangKeeps

LEMMA SuccessIsLoggedIn ==
    ASSUME BalancesTypeOK, NEW u \in Users
    PROVE  SuccessReplies(u) \subseteq LoggedIn(had)
<1>1. AccountsOf[u] \subseteq Accounts
  BY ClientConstants
<1>2. ASSUME NEW a \in Accounts
      PROVE  AccountReply(u, a) \in LoggedIn(had)
  BY DEF BalancesTypeOK, AccountReply, LoggedIn
<1>3. NoAccountReply(u) \in LoggedIn(had)
  BY DEF NoAccountReply, LoggedIn
<1> QED
  BY <1>1, <1>2, <1>3 DEF SuccessReplies

LEMMA LoginKeeps ==
    ASSUME ServerTypeOK, RepliesAreOwed, NEW w \in Workers, CompleteLogin(w)
    PROVE  ServerTypeOK' /\ RepliesAreOwed'
<1>1. PathOf(w) = "/login"
  BY DEF CompleteLogin, PathOf
<1>2. PICK j \in job[w] :
         \/ /\ LoginStarts(w)
            /\ \E reply \in Refusals(j.req) : Replied(j.conn, "/login", reply)
         \/ /\ LoggedOn(w, j.req)
            /\ \E reply \in SuccessReplies(j.req.user_id) : Replied(j.conn, "/login", reply)
  BY DEF CompleteLogin
<1>3. /\ UNCHANGED <<socket, toServer, outstanding, queued, clicks, balance, mem, rows, had,
                     hung>>
      /\ job' = [job EXCEPT ![w] = {}] /\ stage' = [stage EXCEPT ![w] = "start"]
  BY DEF CompleteLogin, EndLogin, clientVars, memory
<1>4. w \notin hung /\ stage[w] # "answered"
  BY <1>2 DEF LoggedOn, LoginStarts, At
<1>5. BalancesTypeOK /\ StagesTypeOK
  BY DEF ServerTypeOK
<1>6. PICK reply \in Texts \union LoggedIn(had) : Replied(j.conn, "/login", reply)
  <2>1. Refusals(j.req) \subseteq Texts
    BY DEF Refusals, Texts
  <2>2. ASSUME LoggedOn(w, j.req)
        PROVE  SuccessReplies(j.req.user_id) \subseteq LoggedIn(had)
    <3>1. j.req.user_id \in Users
      BY <1>5, <2>2 DEF LoggedOn, At, StagesTypeOK
    <3> QED
      BY <1>5, <3>1, SuccessIsLoggedIn
  <2> QED
    BY <1>2, <2>1, <2>2
<1>7. reply \in Answers(PathOf(w), had')
  BY <1>1, <1>3, <1>6 DEF Answers
<1>8. BalancesTypeOK' /\ \A a \in Accounts : had[a] \subseteq had'[a]
  BY <1>3, <1>5 DEF BalancesTypeOK
<1>9. PICK J, s : J = {} /\ s = "start"
  OBVIOUS
<1>10. /\ job' = [job EXCEPT ![w] = J] /\ stage' = [stage EXCEPT ![w] = s]
       /\ Replied(j.conn, PathOf(w), reply)
  BY <1>1, <1>3, <1>6, <1>9
<1>11. PICK answer : answer = reply
  OBVIOUS
<1>12. answer \in Answers(PathOf(w), had') /\ Replied(j.conn, PathOf(w), answer)
  BY <1>7, <1>10, <1>11
<1>13. UNCHANGED <<socket, toServer, outstanding, queued, clicks, hung>>
  BY <1>3
<1> QED
  BY <1>4, <1>8, <1>9, <1>10, <1>12, <1>13, CompleteKeeps

-----------------------------------------------------------------------------
(* transaction() *)
LEMMA TransactionJobs ==
    ASSUME ServerTypeOK, NEW w \in TxnWorkers, NEW j \in job[w]
    PROVE  /\ PathOf(w) = "/transaction" /\ j.req.amount \in Int
           /\ \A f \in [Accounts -> Int] : \A a \in Accounts :
                  f[a] + Txn!Effect(j.req, a) \in Int
           /\ mem \in [Accounts -> Int] => \A a \in Accounts : Applied(j.req, a) \in Int
<1>1. PathOf(w) = "/transaction"
  BY ClientConstants DEF PathOf
<1>2. j.req \in Requested("/transaction")
  <2>1. w \in Workers
    BY DEF Workers
  <2>2. PICK i \in Entry(PathOf(w)) : job[w] = {i}
    BY <2>1 DEF ServerTypeOK, JobsTypeOK
  <2>3. j \in Entry("/transaction")
    BY <1>1, <2>2
  <2> QED
    BY <2>3 DEF Entry
<1>3. j.req.amount \in Int
  BY <1>2, AmountsAreCents
<1>4. \A a : Txn!Effect(j.req, a) \in Int
  BY <1>3 DEF Txn!Effect, Txn!DepositPart, Txn!WithdrawPart
<1>5. \A f \in [Accounts -> Int] : \A a \in Accounts : f[a] + Txn!Effect(j.req, a) \in Int
  BY <1>4
<1>6. ASSUME mem \in [Accounts -> Int], NEW a \in Accounts
      PROVE  Applied(j.req, a) \in Int
  BY <1>3, <1>6 DEF Applied
<1> QED
  BY <1>1, <1>3, <1>5, <1>6

(* The request is answered, and the worker still has to ask for a balance. *)
LEMMA AnsweredKeeps ==
    ASSUME ServerTypeOK, RepliesAreOwed, NEW w \in TxnWorkers, NEW j \in job[w],
           NEW t \in {"SUCCESS", "ERROR"}, Replied(j.conn, "/transaction", Text(t)),
           stage[w] # "answered", stage' = [stage EXCEPT ![w] = "answered"],
           BalancesTypeOK', \A a \in Accounts : had[a] \subseteq had'[a],
           UNCHANGED <<socket, toServer, outstanding, queued, clicks, job, hung>>
    PROVE  ServerTypeOK' /\ RepliesAreOwed'
<1>1. PathOf(w) = "/transaction" /\ w \in Workers
  BY TransactionJobs DEF Workers
<1>2. Text(t) \in Answers(PathOf(w), had')
  BY TextsAreAnswers
<1>3. PICK J, s : J = job[w] /\ s = "answered"
  OBVIOUS
<1>4. job' = [job EXCEPT ![w] = J]
  BY <1>1, <1>3 DEF ServerTypeOK, JobsTypeOK
<1>5. stage' = [stage EXCEPT ![w] = s] /\ Replied(j.conn, PathOf(w), Text(t))
  BY <1>1, <1>3
<1>6. PICK reply : reply = Text(t)
  OBVIOUS
<1>7. reply \in Answers(PathOf(w), had') /\ Replied(j.conn, PathOf(w), reply)
  BY <1>2, <1>5, <1>6
<1>8. UNCHANGED <<socket, toServer, outstanding, queued, clicks, hung>>
  OBVIOUS
<1> QED
  BY <1>1, <1>3, <1>4, <1>5, <1>7, <1>8, CompleteKeeps

LEMMA CommitKeeps ==
    ASSUME ServerTypeOK, RepliesAreOwed, NEW w \in Workers, CommitTransaction(w)
    PROVE  ServerTypeOK' /\ RepliesAreOwed'
<1> DEFINE After(r) == [a \in Accounts |-> balance[a] + Txn!Effect(r, a)]
<1>1. w \in TxnWorkers /\ stage[w] = "start"
  BY DEF CommitTransaction, At
<1>2. PICK j \in job[w] :
         \/ /\ balance' = After(j.req)
            /\ stage' = [stage EXCEPT ![w] = "committed"] /\ UNCHANGED toClient
         \/ /\ UNCHANGED balance \/ balance' = After(j.req)
            /\ stage' = [stage EXCEPT ![w] = "answered"]
            /\ Replied(j.conn, "/transaction", Text("ERROR"))
  BY DEF CommitTransaction
<1>3. UNCHANGED <<socket, toServer, outstanding, queued, clicks, job, mem, had, hung, rows>>
  BY DEF CommitTransaction, clientVars, memory
<1>4. BalancesTypeOK
  BY DEF ServerTypeOK
<1>5. balance' \in [Accounts -> Int]
  <2>1. After(j.req) \in [Accounts -> Int]
    BY <1>1, <1>4, TransactionJobs DEF BalancesTypeOK
  <2> QED
    BY <1>2, <1>4, <2>1 DEF BalancesTypeOK
<1>6. BalancesTypeOK' /\ \A a \in Accounts : had[a] \subseteq had'[a]
  BY <1>3, <1>4, <1>5 DEF BalancesTypeOK
<1> HIDE DEF After
<1>7. CASE stage' = [stage EXCEPT ![w] = "committed"] /\ UNCHANGED toClient
  <2>1. PICK s : s = "committed"
    OBVIOUS
  <2>2. s \in {"read", "stored", "committed"} /\ s \notin {"read", "stored"}
        /\ stage' = [stage EXCEPT ![w] = s]
    BY <1>7, <2>1
  <2>3. JobsTypeOK' /\ StagesTypeOK' /\ \A p : AtWork(p)' = AtWork(p)
    BY <1>1, <1>3, <2>2, StageMoves
  <2>4. UNCHANGED <<network, queued, clicks>>
    BY <1>3, <1>7 DEF network
  <2> QED
    BY <1>6, <2>3, <2>4, QuietKeeps
<1>8. CASE /\ stage' = [stage EXCEPT ![w] = "answered"]
           /\ Replied(j.conn, "/transaction", Text("ERROR"))
  <2>1. PICK t \in {"SUCCESS", "ERROR"} : t = "ERROR"
    OBVIOUS
  <2>2. Replied(j.conn, "/transaction", Text(t))
    BY <1>8, <2>1
  <2>3. UNCHANGED <<socket, toServer, outstanding, queued, clicks, job, hung>>
    BY <1>3
  <2> QED
    BY <1>1, <1>6, <1>8, <2>2, <2>3, AnsweredKeeps
<1> QED
  BY <1>2, <1>7, <1>8

LEMMA ApplyKeeps ==
    ASSUME ServerTypeOK, RepliesAreOwed, NEW w \in Workers, ApplyTransaction(w)
    PROVE  ServerTypeOK' /\ RepliesAreOwed'
<1>1. w \in TxnWorkers /\ stage[w] = "committed"
  BY DEF ApplyTransaction, At
<1>2. PICK j \in job[w] :
         \/ /\ mem' = [a \in Accounts |-> Applied(j.req, a)]
            /\ had' = [a \in Accounts |-> had[a] \union {mem'[a]}]
            /\ Replied(j.conn, "/transaction", Text("SUCCESS"))
         \/ /\ Replied(j.conn, "/transaction", Text("ERROR"))
            /\ UNCHANGED <<mem, had>>
  BY DEF ApplyTransaction, TransactionReply
<1>3. /\ UNCHANGED <<socket, toServer, outstanding, queued, clicks, job, balance, hung, rows>>
      /\ stage' = [stage EXCEPT ![w] = "answered"]
  BY DEF ApplyTransaction, clientVars
<1>4. BalancesTypeOK
  BY DEF ServerTypeOK
<1>5. BalancesTypeOK' /\ \A a \in Accounts : had[a] \subseteq had'[a]
  <2>1. CASE /\ mem' = [a \in Accounts |-> Applied(j.req, a)]
             /\ had' = [a \in Accounts |-> had[a] \union {mem'[a]}]
    <3>1. PICK f : f = mem'
      OBVIOUS
    <3>2. f \in [Accounts -> Int] /\ mem' = f
      BY <1>1, <1>4, <2>1, <3>1, TransactionJobs DEF BalancesTypeOK
    <3>3. balance' \in [Accounts -> Int] /\ rows' \in [Accounts -> Int]
      BY <1>3, <1>4 DEF BalancesTypeOK
    <3> QED
      BY <1>4, <2>1, <3>2, <3>3, HadGrows
  <2>2. CASE UNCHANGED <<mem, had>>
    BY <1>3, <1>4, <2>2 DEF BalancesTypeOK
  <2> QED
    BY <1>2, <2>1, <2>2
<1>6. PICK t \in {"SUCCESS", "ERROR"} : Replied(j.conn, "/transaction", Text(t))
  BY <1>2
<1>7. stage[w] # "answered" /\ UNCHANGED <<socket, toServer, outstanding, queued, clicks, job, hung>>
  BY <1>1, <1>3
<1> QED
  BY <1>1, <1>3, <1>5, <1>6, <1>7, AnsweredKeeps

LEMMA TransactionHangsKeeps ==
    ASSUME ServerTypeOK, RepliesAreOwed, NEW w \in Workers, TransactionHangs(w)
    PROVE  ServerTypeOK' /\ RepliesAreOwed'
<1>1. /\ hung' = hung \union {w} /\ job[w] # {}
      /\ UNCHANGED <<network, queued, clicks, job, stage, balance, mem, had, rows>>
  BY DEF TransactionHangs, clientVars
<1> QED
  BY <1>1, HangKeeps

LEMMA GetBalanceKeeps ==
    ASSUME ServerTypeOK, RepliesAreOwed, NEW w \in Workers, GetBalance(w)
    PROVE  ServerTypeOK' /\ RepliesAreOwed'
<1>1. /\ UNCHANGED <<network, queued, clicks, balance, mem, had, rows>>
      /\ job[w] # {} /\ stage[w] = "answered" /\ w \notin hung
  BY DEF GetBalance, clientVars, memory, At
<1>2. JobsTypeOK /\ StagesTypeOK /\ BalancesTypeOK
  BY DEF ServerTypeOK
<1>3. CASE hung' = hung \union {w} /\ UNCHANGED <<job, stage>>
  BY <1>1, <1>3, HangKeeps
<1>4. CASE /\ job' = [job EXCEPT ![w] = {}] /\ stage' = [stage EXCEPT ![w] = "start"]
           /\ UNCHANGED hung
  <2>1. PICK J, s : J = {} /\ s = "start"
    OBVIOUS
  <2>2. /\ JobsTypeOK' /\ StagesTypeOK'
        /\ \A q : q # PathOf(w) => AtWork(q)' = AtWork(q)
        /\ AtWork(PathOf(w))' = IF s # "answered" /\ \E j \in J : j.conn = "client"
                                THEN AtWork(PathOf(w)) \union {w}
                                ELSE AtWork(PathOf(w)) \ {w}
    <3>1. job' = [job EXCEPT ![w] = J] /\ stage' = [stage EXCEPT ![w] = s] /\ hung' = hung
      BY <1>4, <2>1
    <3>2. /\ s \in {"start", "read", "stored", "committed", "answered"}
          /\ J = {} => s = "start" /\ w \notin hung
          /\ s \in {"read", "stored"} => \A j \in J : j.req.user_id \in Users
          /\ J = {} \/ \E j \in Entry(PathOf(w)) : J = {j}
      BY <1>1, <2>1
    <3> QED
      BY <1>2, <3>1, <3>2, JobUpdate
  <2>3. w \notin AtWork(PathOf(w))
    BY <1>1 DEF AtWork
  <2>4. \A p : AtWork(p)' = AtWork(p)
    BY <2>1, <2>2, <2>3
  <2>5. BalancesTypeOK' /\ \A a \in Accounts : had[a] \subseteq had'[a]
    BY <1>1, <1>2 DEF BalancesTypeOK
  <2> QED
    BY <1>1, <2>2, <2>4, <2>5, QuietKeeps
<1> QED
  BY <1>3, <1>4 DEF GetBalance

(* A reply is read off its socket; what the client makes of it is below. *)
LEMMA DeliverKeeps ==
    ASSUME ServerTypeOK, RepliesAreOwed, NEW p \in Paths, Deliver(p)
    PROVE  ServerTypeOK' /\ RepliesAreOwed' /\ Head(toClient[p]) \in Answers(p, had)
<1>1. PathTypeOK(p) /\ Owed(p) /\ OnPaths(toClient) /\ OnPaths(outstanding)
  BY DEF ServerTypeOK, RepliesAreOwed
<1>2. /\ UNCHANGED <<socket, toServer, queued, job, stage, hung, balance, mem, rows, had, clicks>>
      /\ toClient[p] # <<>>
      /\ toClient' = [toClient EXCEPT ![p] = Tail(toClient[p])]
      /\ outstanding' = [outstanding EXCEPT ![p] = outstanding[p] - 1]
  BY DEF Deliver, server, memory
<1>3. /\ toClient'[p] = Tail(toClient[p]) /\ OnPaths(toClient')
      /\ \A q \in Paths : q # p => toClient'[q] = toClient[q]
      /\ outstanding'[p] = outstanding[p] - 1 /\ OnPaths(outstanding')
      /\ \A q \in Paths : q # p => outstanding'[q] = outstanding[q]
  BY <1>1, <1>2 DEF OnPaths
<1>4. /\ Head(toClient[p]) \in Answers(p, had) /\ toClient'[p] \in Seq(Answers(p, had))
      /\ Size(toClient[p]) = Size(toClient'[p]) + 1 /\ Size(toClient'[p]) \in Nat
  BY <1>1, <1>2, <1>3, Sizes DEF PathTypeOK
<1>5. \A q : AtWork(q)' = AtWork(q)
  BY <1>2, JobsFrame
<1>6. PathTypeOK(p)'
  BY <1>1, <1>2, <1>4, SetsOfEntries DEF PathTypeOK
<1>7. UnderWay(p)' = UnderWay(p) - 1 /\ UnderWay(p) - 1 \in Nat
  <2>1. AtWork(p)' = AtWork(p) /\ toServer'[p] = toServer[p] /\ queued'[p] = queued[p]
    BY <1>2, <1>5
  <2>2. Size(toClient[p]) = Size(toClient'[p]) + 1 /\ Size(toClient'[p]) \in Nat
    BY <1>4
  <2> QED
    BY <1>1, <2>1, <2>2, Counted, CountsAreNat
<1>8. socket[p] = "up" /\ socket'[p] = "up"
  BY <1>1, <1>2 DEF Owed
<1>9. clicks \in Nat
  BY DEF RepliesAreOwed
<1>10. Owed(p)'
  <2>1. UnderWay(p) <= outstanding[p] /\ outstanding[p] \in 0..clicks
    BY <1>1, <1>8 DEF Owed
  <2>2. outstanding'[p] \in 0..clicks' /\ UnderWay(p)' <= outstanding'[p]
    <3>1. clicks' = clicks /\ outstanding'[p] = outstanding[p] - 1
      BY <1>2, <1>3
    <3>2. UnderWay(p) \in Nat
      BY <1>1, Counted, CountsAreNat
    <3> QED
      BY <1>7, <1>9, <2>1, <3>1, <3>2
  <2> QED
    BY <1>8, <2>2 DEF Owed
<1>11. ASSUME NEW q \in Paths, q # p
       PROVE  PathTypeOK(q)' /\ Owed(q)'
  <2>1. PathTypeOK(q) /\ Owed(q)
    BY DEF ServerTypeOK, RepliesAreOwed
  <2> QED
    BY <1>2, <1>3, <1>5, <1>9, <1>11, <2>1, PathFrame
<1>12. JobsTypeOK' /\ StagesTypeOK' /\ BalancesTypeOK'
  BY <1>2, JobsFrame DEF ServerTypeOK, BalancesTypeOK
<1> QED
  BY <1>2, <1>3, <1>4, <1>6, <1>10, <1>11, <1>12 DEF ServerTypeOK, RepliesAreOwed

LEMMA ConnectedKeeps ==
    ASSUME SessionTypeOK, ServerTypeOK, RepliesAreOwed, NEW p \in Paths, Connected(p)
    PROVE  ServerTypeOK' /\ RepliesAreOwed'
<1>1. /\ UNCHANGED <<toServer, toClient, outstanding, queued, job, stage, hung, balance, mem, rows, had, clicks>>
      /\ socket[p] = "opening" /\ socket'[p] = "up"
      /\ \A q \in Paths : q # p => socket'[q] = socket[q]
  BY DEF Connected, SessionTypeOK, server, memory, clientVars
<1>2. \A q : AtWork(q)' = AtWork(q)
  BY <1>1, JobsFrame
<1>3. PathTypeOK(p) /\ Owed(p) /\ clicks \in Nat
  BY DEF ServerTypeOK, RepliesAreOwed
<1>4. PathTypeOK(p)' /\ Owed(p)'
  <2>1. AtWork(p)' = AtWork(p) /\ UNCHANGED <<toServer, toClient, queued>>
    BY <1>1, <1>2
  <2>2. UnderWay(p)' = UnderWay(p)
    BY <2>1, Counted
  <2>3. UnderWay(p) <= outstanding[p]
    BY <1>1, <1>3 DEF Owed
  <2> QED
    BY <1>1, <1>3, <2>2, <2>3, SetsOfEntries DEF Owed, PathTypeOK
<1>5. ASSUME NEW q \in Paths, q # p
      PROVE  PathTypeOK(q)' /\ Owed(q)'
  <2>1. PathTypeOK(q) /\ Owed(q)
    BY DEF ServerTypeOK, RepliesAreOwed
  <2> QED
    BY <1>1, <1>2, <1>3, <1>5, <2>1, PathFrame
<1>6. JobsTypeOK' /\ StagesTypeOK' /\ BalancesTypeOK'
  BY <1>1, JobsFrame DEF ServerTypeOK, BalancesTypeOK
<1> QED
  BY <1>1, <1>4, <1>5, <1>6 DEF ServerTypeOK, RepliesAreOwed

LEMMA DisconnectedKeeps ==
    ASSUME SessionTypeOK, ServerTypeOK, RepliesAreOwed, NEW p \in Paths, Disconnected(p)
    PROVE  ServerTypeOK' /\ RepliesAreOwed'
<1>1. /\ UNCHANGED <<queued, job, stage, hung, balance, mem, rows, had, clicks>>
      /\ toServer' = [toServer EXCEPT ![p] = <<>>]
      /\ toClient' = [toClient EXCEPT ![p] = <<>>]
      /\ outstanding' = [outstanding EXCEPT ![p] = 0]
      /\ socket'[p] = "down"
      /\ \A q \in Paths : q # p => socket'[q] = socket[q]
  BY DEF Disconnected, SessionTypeOK, server, memory
<1>2. OnPaths(toServer) /\ OnPaths(toClient) /\ OnPaths(outstanding)
  BY DEF ServerTypeOK, RepliesAreOwed
<1>3. /\ OnPaths(toServer') /\ OnPaths(toClient') /\ OnPaths(outstanding')
      /\ toServer'[p] = <<>> /\ toClient'[p] = <<>> /\ outstanding'[p] = 0
      /\ \A q \in Paths : q # p => /\ toServer'[q] = toServer[q]
                                   /\ toClient'[q] = toClient[q]
                                   /\ outstanding'[q] = outstanding[q]
  BY <1>1, <1>2 DEF OnPaths
<1>4. \A q : AtWork(q)' = AtWork(q)
  BY <1>1, JobsFrame
<1>5. PathTypeOK(p) /\ Owed(p) /\ clicks \in Nat
  BY DEF ServerTypeOK, RepliesAreOwed
<1>6. PathTypeOK(p)'
  <2>1. <<>> \in Seq(Messages(p)) /\ <<>> \in Seq(Answers(p, had))
    BY EmptySeq
  <2> QED
    BY <1>1, <1>3, <1>5, <2>1, SetsOfEntries DEF PathTypeOK
<1>7. Owed(p)'
  <2>1. 0 \in 0..clicks'
    BY <1>1, <1>5
  <2> QED
    BY <1>1, <1>3, <2>1 DEF Owed
<1>8. ASSUME NEW q \in Paths, q # p
      PROVE  PathTypeOK(q)' /\ Owed(q)'
  <2>1. PathTypeOK(q) /\ Owed(q)
    BY DEF ServerTypeOK, RepliesAreOwed
  <2> QED
    BY <1>1, <1>3, <1>4, <1>5, <1>8, <2>1, PathFrame
<1>9. JobsTypeOK' /\ StagesTypeOK' /\ BalancesTypeOK'
  BY <1>1, JobsFrame DEF ServerTypeOK, BalancesTypeOK
<1> QED
  BY <1>1, <1>3, <1>6, <1>7, <1>8, <1>9 DEF ServerTypeOK, RepliesAreOwed

(* Nothing happens to the server or on the sockets. *)
LEMMA IdleKeeps ==
    ASSUME ServerTypeOK, RepliesAreOwed, clicks' \in 0..MaxClicks, clicks <= clicks',
           UNCHANGED <<network, server>>
    PROVE  ServerTypeOK' /\ RepliesAreOwed'
<1>1. UNCHANGED <<socket, toServer, toClient, outstanding, queued, job, stage, hung, balance, mem, rows, had>>
  BY DEF network, server, memory
<1>2. \A q : AtWork(q)' = AtWork(q)
  BY <1>1, JobsFrame
<1>3. clicks \in Nat /\ clicks' \in Nat
  BY ClientConstants DEF RepliesAreOwed
<1>4. ASSUME NEW q \in Paths
      PROVE  PathTypeOK(q)' /\ Owed(q)'
  <2>1. PathTypeOK(q) /\ Owed(q)
    BY DEF ServerTypeOK, RepliesAreOwed
  <2> QED
    BY <1>1, <1>2, <1>3, <2>1, PathFrame
<1>5. JobsTypeOK' /\ StagesTypeOK' /\ BalancesTypeOK'
  BY <1>1, JobsFrame DEF ServerTypeOK, BalancesTypeOK
<1> QED
  BY <1>1, <1>4, <1>5 DEF ServerTypeOK, RepliesAreOwed

-----------------------------------------------------------------------------
(* What the client makes of a reply. *)
CacheType == [name : Users \union {None}, accountId : Accounts \union {None},
              balanceCents : Int, infoAvailable : BOOLEAN,
              lastTarget : Accounts \union {None}]

(* A text says nothing about an account. *)
LEMMA TextsAreNoNews ==
    ASSUME cache \in CacheType, NEW m \in Texts
    PROVE  /\ updateAccountInfoFromLoginMessage(m) = cache
           /\ updateBalanceFromTransactionMessage(m) = cache
<1>1. PICK t : m = [text |-> t]
  BY DEF Texts, Text
<1>2. \A f \in {"full_name", "account_id", "balance_cents", "status"} : f \notin DOMAIN m
  BY <1>1
<1> QED
  BY <1>2 DEF updateAccountInfoFromLoginMessage, updateBalanceFromTransactionMessage,
              Member, CacheType

(* A login reply replaces what the client knows by what was once true, or  *)
(* says nothing about an account.                                          *)
LEMMA LoginReplyIsTrue ==
    ASSUME cache \in CacheType, Truthful(cache, had), NEW m \in LoggedIn(had)
    PROVE  /\ updateAccountInfoFromLoginMessage(m) \in CacheType
           /\ Truthful(updateAccountInfoFromLoginMessage(m), had)
<1>1. CASE /\ m \in [status : {"success"}, full_name : Users, account_id : Accounts,
                     balance_cents : Int]
           /\ m.balance_cents \in had[m.account_id]
  <2>1. \A f \in {"full_name", "account_id", "balance_cents"} : f \in DOMAIN m
    BY <1>1
  <2>2. updateAccountInfoFromLoginMessage(m) =
            [cache EXCEPT !.name = m.full_name, !.accountId = m.account_id,
                          !.balanceCents = m.balance_cents, !.infoAvailable = TRUE]
    BY <1>1, <2>1 DEF updateAccountInfoFromLoginMessage, Member, CacheType
  <2> QED
    BY <1>1, <2>2 DEF CacheType, Truthful
<1>2. CASE m \in [status : {"success"}, full_name : Users]
  <2>1. /\ "full_name" \in DOMAIN m
        /\ "account_id" \notin DOMAIN m /\ "balance_cents" \notin DOMAIN m
    BY <1>2
  <2>2. updateAccountInfoFromLoginMessage(m) =
            [cache EXCEPT !.name = m.full_name, !.infoAvailable = TRUE]
    BY <1>2, <2>1 DEF updateAccountInfoFromLoginMessage, Member, CacheType
  <2> QED
    BY <1>2, <2>2 DEF CacheType, Truthful
<1> QED
  BY <1>1, <1>2 DEF LoggedIn

LEMMA DeliverIsTrue ==
    ASSUME SessionTypeOK, Truthful(cache, had), NEW p \in Paths, Deliver(p),
           Head(toClient[p]) \in Answers(p, had)
    PROVE  SessionTypeOK' /\ Truthful(cache, had)'
<1> DEFINE m == Head(toClient[p])
<1>1. had' = had /\ socket' = socket
  BY DEF Deliver, server, memory
<1>2. cache \in CacheType
  BY DEF SessionTypeOK, CacheType
<1>3. m \in Texts \/ (p = "/login" /\ m \in LoggedIn(had))
  BY DEF Answers
<1>4. \/ p = "/login" /\ onLoginMessage(m)
      \/ p = "/transaction" /\ onTransactionMessage(m)
      \/ p = "/create_account" /\ onAccountMessage(m)
  BY DEF Deliver
<1> HIDE DEF m
<1>5. cache' \in CacheType /\ Truthful(cache', had)
  <2>1. cache' = cache \/ /\ m \in LoggedIn(had)
                          /\ cache' = updateAccountInfoFromLoginMessage(m)
    BY <1>2, <1>3, <1>4, TextsAreNoNews
       DEF onLoginMessage, onTransactionMessage, onAccountMessage
  <2> QED
    BY <1>2, <2>1, LoginReplyIsTrue
<1>6. session' = session \/ \E success : LoginResult(success)
  BY <1>4 DEF onLoginMessage, onTransactionMessage, onAccountMessage
<1>7. session' \in [user : Users \union {None}, page : {"login", "dashboard"},
                    waiting : BOOLEAN]
  BY <1>6 DEF SessionTypeOK, LoginResult
<1> QED
  BY <1>1, <1>5, <1>7 DEF SessionTypeOK, CacheType, Truthful

-----------------------------------------------------------------------------
(* The initial state. *)
LEMMA InitIsSound == BCInit => ClientInv
<1> SUFFICES ASSUME BCInit
             PROVE  ClientInv
  OBVIOUS
<1>1. SessionTypeOK /\ Truthful(cache, had)
  BY DEF BCInit, SessionTypeOK, Truthful, NoCache, None
<1>2. /\ OnPaths(toServer) /\ OnPaths(toClient) /\ OnPaths(queued) /\ OnPaths(outstanding)
      /\ \A p \in Paths : /\ toServer[p] = <<>> /\ toClient[p] = <<>>
                          /\ queued[p] = <<>> /\ outstanding[p] = 0
  BY DEF BCInit, OnPaths
<1>3. ASSUME NEW p \in Paths
      PROVE  PathTypeOK(p)
  <2>1. \A S : <<>> \in Seq(S)
    BY EmptySeq
  <2>2. Len(queued[p]) = 0
    BY <1>2, EmptySeq
  <2>3. Len(queued[p]) <= Capacity
    BY <2>2, ClientConstants
  <2>4. /\ toServer[p] \in Seq(Messages(p)) /\ toClient[p] \in Seq(Answers(p, had))
        /\ queued[p] \in Seq(Entry(p))
    BY <1>2, <2>1
  <2> QED
    BY <2>3, <2>4 DEF PathTypeOK
<1>4. JobsTypeOK /\ StagesTypeOK
  BY DEF BCInit, JobsTypeOK, StagesTypeOK
<1>5. BalancesTypeOK
  BY ClientConstants DEF BCInit, BalancesTypeOK, NoRows
<1>6. clicks = 0
  BY DEF BCInit
<1>7. ASSUME NEW p \in Paths
      PROVE  Owed(p)
  <2>1. AtWork(p) = {}
    BY DEF BCInit, AtWork
  <2>2. Mine(queued[p]) = {}
    BY <1>2, EmptySeq DEF Mine
  <2>3. UnderWay(p) = 0
    <3>1. Size(toServer[p]) = 0 /\ Size(toClient[p]) = 0
      BY <1>2, EmptySeq DEF Size
    <3>2. Cardinality({}) = 0
      BY FS_EmptySet
    <3>3. Cardinality(Mine(queued[p])) = 0 /\ Cardinality(AtWork(p)) = 0
      BY <2>1, <2>2, <3>2
    <3> QED
      BY <3>1, <3>3, Counted
  <2> QED
    BY <1>2, <1>6, <2>3 DEF Owed
<1> QED
  BY <1>1, <1>2, <1>3, <1>4, <1>5, <1>6, <1>7, ClientConstants
     DEF ClientInv, ServerTypeOK, RepliesAreOwed

(* A step that leaves the cache alone leaves it true. *)
LEMMA CacheFrame ==
    ASSUME SessionTypeOK, Truthful(cache, had), cache'.accountId = cache.accountId,
           cache'.balanceCents = cache.balanceCents,
           \A a \in Accounts : had[a] \subseteq had'[a]
    PROVE  Truthful(cache, had)'
BY DEF Truthful, SessionTypeOK

(* The buttons of the client. *)
LEMMA UserStepKeeps ==
    ASSUME ClientInv, UserStep
    PROVE  ClientInv'
<1> USE DEF ClientInv
<1>1. CASE login
  <2>1. PICK u \in Users, pw \in {"right", "wrong"} :
            /\ SendIfUp("/login", LoginMessage(u, pw))
            /\ session' = [session EXCEPT !.user = u, !.waiting = (socket["/login"] = "up")]
    BY <1>1 DEF login
  <2>2. LoginMessage(u, pw) \in Messages("/login") /\ "/login" \in Paths
    BY DEF Messages, Paths
  <2>3. Click /\ UNCHANGED <<cache, server>>
    BY <1>1 DEF login
  <2>4. ServerTypeOK' /\ RepliesAreOwed' /\ socket' = socket
    BY <2>1, <2>2, <2>3, SendKeeps
  <2>5. SessionTypeOK'
    BY <2>1, <2>3, <2>4 DEF SessionTypeOK
  <2> QED
    BY <2>3, <2>4, <2>5 DEF Truthful, server, memory
<1>2. CASE refresh
  <2>1. /\ SendIfUp("/login", RefreshMessage(session.user))
        /\ session' = [session EXCEPT !.waiting = session.waiting /\ socket["/login"] = "up"]
        /\ Click /\ UNCHANGED <<cache, server>>
    BY <1>2 DEF refresh
  <2>2. RefreshMessage(session.user) \in Messages("/login") /\ "/login" \in Paths
    BY DEF Messages, Paths, SessionTypeOK
  <2>3. ServerTypeOK' /\ RepliesAreOwed' /\ socket' = socket
    BY <2>1, <2>2, SendKeeps
  <2>4. SessionTypeOK'
    BY <2>1, <2>3 DEF SessionTypeOK
  <2> QED
    BY <2>1, <2>3, <2>4 DEF Truthful, server, memory
<1>3. CASE logout
  <2>1. /\ cache' = NoCache /\ Click /\ UNCHANGED <<network, server>>
        /\ session' = [session EXCEPT !.user = None, !.page = "login"]
    BY <1>3 DEF logout
  <2>2. clicks' \in 0..MaxClicks /\ clicks <= clicks'
    BY <2>1, ClientConstants DEF Click, RepliesAreOwed
  <2>3. ServerTypeOK' /\ RepliesAreOwed'
    BY <2>1, <2>2, IdleKeeps
  <2>4. SessionTypeOK'
    <3>1. NoCache \in CacheType
      BY DEF NoCache, CacheType, None
    <3>2. session' \in [user : Users \union {None}, page : {"login", "dashboard"},
                        waiting : BOOLEAN]
      BY <2>1 DEF SessionTypeOK
    <3> QED
      BY <2>1, <3>1, <3>2 DEF SessionTypeOK, CacheType, network
  <2>5. Truthful(cache, had)'
    BY <2>1 DEF Truthful, NoCache, None
  <2> QED
    BY <2>3, <2>4, <2>5
<1>4. CASE createAccount
  <2>1. PICK u \in Users \union {None} :
            SendIfUp("/create_account", CreationMessage(u, "right"))
    BY <1>4 DEF createAccount
  <2>2. CreationMessage(u, "right") \in Messages("/create_account")
        /\ "/create_account" \in Paths
    BY DEF Messages, Paths
  <2>3. Click /\ UNCHANGED <<cache, session, server>>
    BY <1>4 DEF createAccount
  <2>4. ServerTypeOK' /\ RepliesAreOwed' /\ socket' = socket
    BY <2>1, <2>2, <2>3, SendKeeps
  <2> QED
    BY <2>3, <2>4 DEF Truthful, SessionTypeOK, server, memory
<1>5. ASSUME NEW type \in {"TRANSFER", "DEPOSIT", "WITHDRAW"}, NEW a \in Accounts,
             NEW to \in Accounts \union {None}, NEW amount \in AdminAmounts \union {Amount},
             Transact(type, a, to, amount)
      PROVE  ClientInv'
  <2>1. TransactionMessage(type, a, to, amount) \in Messages("/transaction")
        /\ "/transaction" \in Paths
    BY DEF Messages, Paths
  <2>2. /\ Click /\ UNCHANGED <<session, server>>
        /\ SendIfUp("/transaction", TransactionMessage(type, a, to, amount))
        /\ cache' = [cache EXCEPT !.lastTarget =
                         IF socket["/transaction"] = "up" THEN a ELSE cache.lastTarget]
    BY <1>5 DEF Transact
  <2>3. ServerTypeOK' /\ RepliesAreOwed' /\ socket' = socket
    BY <2>1, <2>2, SendKeeps
  <2>4. /\ SessionTypeOK'
        /\ cache'.accountId = cache.accountId /\ cache'.balanceCents = cache.balanceCents
    BY <2>2, <2>3 DEF SessionTypeOK
  <2>5. had' = had
    BY <2>2 DEF server, memory
  <2> QED
    BY <2>3, <2>4, <2>5, CacheFrame
<1>6. CASE sendMoney
  <2>1. cache.accountId \in Accounts
    BY <1>6 DEF sendMoney, SessionTypeOK
  <2>2. \E to \in Accounts : Transact("TRANSFER", cache.accountId, to, Amount)
    BY <1>6 DEF sendMoney
  <2> QED
    BY <1>5, <2>1, <2>2
<1>7. CASE adminTransaction
  <2>1. \E type \in {"DEPOSIT", "WITHDRAW"}, a \in Accounts, amount \in AdminAmounts :
            Transact(type, a, None, amount)
    BY <1>7 DEF adminTransaction
  <2> QED
    BY <1>5, <2>1
<1> QED
  BY <1>1, <1>2, <1>3, <1>4, <1>6, <1>7 DEF UserStep

LEMMA StepIsSound == ClientInv /\ [BCNext]_bcVars => ClientInv'
<1> SUFFICES ASSUME ClientInv, [BCNext]_bcVars
             PROVE  ClientInv'
  OBVIOUS
<1> USE DEF ClientInv
<1>1. CASE UserStep
  BY <1>1, UserStepKeeps
<1>2. ASSUME NEW p \in Paths, Handle(p) \/ HandleOther(p)
      PROVE  ClientInv'
  <2>1. UNCHANGED <<cache, session, socket, had>>
    BY <1>2 DEF Handle, HandleOther, clientVars, memory
  <2>2. SessionTypeOK' /\ Truthful(cache, had)'
    BY <2>1 DEF SessionTypeOK, Truthful
  <2> QED
    BY <1>2, <2>2, HandleKeeps, HandleOtherKeeps
<1>3. ASSUME NEW p \in Paths, Deliver(p)
      PROVE  ClientInv'
  BY <1>3, DeliverKeeps, DeliverIsTrue
<1>4. ASSUME NEW w \in Workers, Work(w)
      PROVE  ClientInv'
  <2>1. ServerTypeOK' /\ RepliesAreOwed'
    BY <1>4, PopKeeps, ReadAccountsKeeps, StoreAccountsKeeps, LoginKeeps, LoginHangsKeeps,
       CommitKeeps, ApplyKeeps, TransactionHangsKeeps, GetBalanceKeeps DEF Work
  <2>2. UNCHANGED <<cache, session, socket>>
    BY <1>4 DEF Work, PopRequest, ReadAccounts, StoreAccounts, CompleteLogin, EndLogin,
                LoginHangs, CommitTransaction, ApplyTransaction, TransactionHangs,
                GetBalance, clientVars, network
  <2>3. had' = had \/ had' = [a \in Accounts |-> had[a] \union {mem'[a]}]
    BY <1>4 DEF Work, PopRequest, ReadAccounts, StoreAccounts, CompleteLogin, EndLogin,
                LoginHangs, CommitTransaction, ApplyTransaction, TransactionHangs,
                GetBalance, memory
  <2>4. \A a \in Accounts : had[a] \subseteq had'[a]
    BY <2>3
  <2>5. SessionTypeOK' /\ Truthful(cache, had)'
    BY <2>2, <2>4, CacheFrame DEF SessionTypeOK
  <2> QED
    BY <2>1, <2>5
<1>6. ASSUME NEW p \in Paths, Connected(p)
      PROVE  ClientInv'
  <2>1. SessionTypeOK' /\ Truthful(cache, had)'
    BY <1>6 DEF Connected, SessionTypeOK, Truthful, clientVars, server, memory
  <2> QED
    BY <1>6, <2>1, ConnectedKeeps
<1>7. ASSUME NEW p \in Paths, Disconnected(p)
      PROVE  ClientInv'
  <2>1. UNCHANGED <<cache, had>> /\ socket' = [socket EXCEPT ![p] = "down"]
    BY <1>7 DEF Disconnected, server, memory
  <2>2. session' = session \/ LoginResult(FALSE)
    BY <1>7 DEF Disconnected, ErrorOccurred
  <2>3. SessionTypeOK' /\ Truthful(cache, had)'
    BY <2>1, <2>2 DEF SessionTypeOK, Truthful, LoginResult
  <2> QED
    BY <1>7, <2>3, DisconnectedKeeps
<1>8. CASE UNCHANGED bcVars
  <2>1. UNCHANGED <<cache, session, clicks, network, server>>
    BY <1>8 DEF bcVars, clientVars
  <2>2. SessionTypeOK' /\ Truthful(cache, had)'
    BY <2>1 DEF SessionTypeOK, Truthful, network, server, memory
  <2>3. clicks' \in 0..MaxClicks /\ clicks <= clicks'
    BY <2>1, ClientConstants DEF RepliesAreOwed
  <2> QED
    BY <2>1, <2>2, <2>3, IdleKeeps
<1> QED
  BY <1>1, <1>2, <1>3, <1>4, <1>6, <1>7, <1>8 DEF BCNext, SystemStep

-----------------------------------------------------------------------------
(* The inductive invariant of the client and the server behind it. *)
THEOREM ClientInvHolds == BCSpec => []ClientInv
BY InitIsSound, StepIsSound, PTL DEF BCSpec

(* Types, for any number of users, workers and clicks; above all, replies  *)
(* are never more than the messages they answer (outstanding never falls   *)
(* below zero), also across a broken socket and full rings, although the   *)
(* server keeps working on requests of a client that is gone.              *)
THEOREM ClientTypes == BCSpec => []ClientTypeOK
<1>1. ClientInv => ClientTypeOK
  <2> SUFFICES ASSUME ClientInv
               PROVE  ClientTypeOK
    OBVIOUS
  <2>1. \A p \in Paths : Len(queued[p]) <= Capacity /\ outstanding[p] \in 0..MaxClicks
    <3> SUFFICES ASSUME NEW p \in Paths
                 PROVE  Len(queued[p]) <= Capacity /\ outstanding[p] \in 0..MaxClicks
      OBVIOUS
    <3>1. clicks \in 0..MaxClicks /\ outstanding[p] \in 0..clicks
      BY DEF ClientInv, RepliesAreOwed, Owed
    <3> QED
      BY <3>1, ClientConstants DEF ClientInv, ServerTypeOK, PathTypeOK
  <2>2. \A w \in Workers : Cardinality(job[w]) <= 1
    <3> SUFFICES ASSUME NEW w \in Workers
                 PROVE  Cardinality(job[w]) <= 1
      OBVIOUS
    <3>1. job[w] = {} \/ \E j : job[w] = {j}
      BY DEF ClientInv, ServerTypeOK, JobsTypeOK
    <3>2. Cardinality(job[w]) = 0 \/ Cardinality(job[w]) = 1
      BY <3>1, FS_EmptySet, FS_Singleton
    <3> QED
      BY <3>2
  <2> QED
    BY <2>1, <2>2 DEF ClientInv, SessionTypeOK, ServerTypeOK, StagesTypeOK, BalancesTypeOK,
                      ClientTypeOK
<1> QED
  BY <1>1, ClientInvHolds, PTL

(* The balance on display is one that memory has had for the account on    *)
(* display, whatever order the workers answer in and refreshes replace the *)
(* Accounts in.                                                            *)
THEOREM CacheIsTrue == BCSpec => []CacheWasTrue
<1>1. ClientInv => CacheWasTrue
  BY DEF ClientInv, Truthful, CacheWasTrue
<1> QED
  BY <1>1, ClientInvHolds, PTL

(* Whatever the client sends is read by the controllers as it was meant. *)
THEOREM ProtocolAgrees == BCSpec => []ClientAndServerAgree
<1>1. ClientInv => ClientAndServerAgree
  <2> SUFFICES ASSUME ClientInv, NEW p \in Paths, NEW i \in DOMAIN toServer[p]
               PROVE  Parse(p, toServer[p][i].json) = {toServer[p][i].meant}
    BY DEF ClientAndServerAgree
  <2>1. toServer[p] \in Seq(Messages(p))
    BY DEF ClientInv, ServerTypeOK, PathTypeOK
  <2>2. toServer[p][i] \in Messages(p)
    BY <2>1, LenProperties, ElementOfSeq
  <2> QED
    BY <2>2, MessagesAreRead
<1> QED
  BY <1>1, ClientInvHolds, PTL
=============================================================================
