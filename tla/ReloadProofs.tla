---------------------------- MODULE ReloadProofs ----------------------------
(***************************************************************************)
(* Theorems about Reload: what HashTable's operations do to the entries of *)
(* a table, what ORDER BY makes of a set of keys, what store_users() makes *)
(* of a result in that order, and the invariants of logins, refreshes,     *)
(* restarts and snapshots that rest on them.                               *)
(***************************************************************************)
EXTENDS Reload, Induction, SequenceTheorems, TLAPS

(* A table whose entries are in the bucket of their key, one per key. *)
IsEntry(entry) == entry = [key |-> entry.key, value |-> entry.value] /\ entry.key \in Nat

IsBucket(bucket, b) ==
    /\ bucket \in Seq(ToSet(bucket))
    /\ \A i \in DOMAIN bucket : IsEntry(bucket[i]) /\ bucketIndex(bucket[i].key) = b
    /\ \A i, j \in DOMAIN bucket : bucket[i].key = bucket[j].key => i = j

IsTable(table) ==
    /\ table = [b \in Buckets |-> table[b]]
    /\ \A b \in Buckets : IsBucket(table[b], b)

-----------------------------------------------------------------------------
(* Sequences as HashTable uses them.                                       *)
LEMMA SeqOfItsElements ==
    ASSUME NEW S, NEW s \in Seq(S)
    PROVE  s \in Seq(ToSet(s))
BY DEF ToSet

LEMMA LongerSeq ==
    ASSUME NEW s, s \in Seq(ToSet(s)), NEW e
    PROVE  /\ Append(s, e) \in Seq(ToSet(Append(s, e)))
           /\ DOMAIN s = 1..Len(s) /\ Len(s) \in Nat
           /\ DOMAIN Append(s, e) = 1..(Len(s) + 1)
           /\ \A i \in 1..Len(s) : Append(s, e)[i] = s[i]
           /\ Append(s, e)[Len(s) + 1] = e
<1> DEFINE S == ToSet(s) \union {e}
<1>1. s \in Seq(S)
  BY DEF ToSet
<1> HIDE DEF S
<1>2. Append(s, e) \in Seq(S)
  BY <1>1 DEF S
<1>3. Append(s, e) \in Seq(ToSet(Append(s, e)))
  BY <1>2, SeqOfItsElements
<1> QED
  BY <1>1, <1>2, <1>3 DEF S

LEMMA BucketOfKey ==
    ASSUME NEW k \in Nat
    PROVE  bucketIndex(k) \in Buckets
BY BucketsAssumption DEF bucketIndex, Buckets

LEMMA EmptyIsTable ==
    /\ IsTable(EmptyTable)
    /\ Entries(EmptyTable) = {}
<1>1. <<>> \in Seq(ToSet(<<>>)) /\ ToSet(<<>>) = {} /\ DOMAIN <<>> = {}
  BY DEF ToSet
<1> QED
  BY <1>1 DEF IsTable, IsBucket, EmptyTable, Entries

(* An entry is in the bucket of its key. *)
LEMMA EntryPlace ==
    ASSUME NEW table, IsTable(table), NEW e \in Entries(table)
    PROVE  /\ IsEntry(e) /\ bucketIndex(e.key) \in Buckets
           /\ e \in ToSet(table[bucketIndex(e.key)])
<1>1. PICK b \in Buckets : e \in ToSet(table[b])
  BY DEF Entries
<1>2. PICK i \in DOMAIN table[b] : e = table[b][i]
  BY <1>1 DEF ToSet
<1>3. IsEntry(e) /\ bucketIndex(e.key) = b
  BY <1>2 DEF IsTable, IsBucket
<1> QED
  BY <1>1, <1>3

(* A key has one entry. *)
LEMMA OneEntryPerKey ==
    ASSUME NEW table, IsTable(table), NEW e \in Entries(table), NEW f \in Entries(table),
           e.key = f.key
    PROVE  e = f
<1> DEFINE b == bucketIndex(e.key)
<1>1. b \in Buckets /\ e \in ToSet(table[b]) /\ f \in ToSet(table[b])
  BY EntryPlace
<1> HIDE DEF b
<1>2. PICK i \in DOMAIN table[b] : e = table[b][i]
  BY <1>1 DEF ToSet
<1>3. PICK j \in DOMAIN table[b] : f = table[b][j]
  BY <1>1 DEF ToSet
<1>4. i = j
  BY <1>1, <1>2, <1>3 DEF IsTable, IsBucket
<1> QED
  BY <1>2, <1>3, <1>4

(* find() returns the value of the key's entry. *)
LEMMA FindsEntry ==
    ASSUME NEW table, IsTable(table), NEW k \in Nat
    PROVE  find(table, k) = {e.value : e \in {f \in Entries(table) : f.key = k}}
<1> DEFINE b == bucketIndex(k)
           at == Position(table[b], k)
<1>1. b \in Buckets
  BY BucketOfKey
<1>2. IsBucket(table[b], b)
  BY <1>1 DEF IsTable
<1>3. CASE at = {}
  <2>1. find(table, k) = {}
    BY <1>3 DEF find
  <2>2. \A f \in Entries(table) : f.key # k
    BY <1>3, EntryPlace DEF ToSet, Position
  <2> QED
    BY <2>1, <2>2
<1>4. CASE at # {}
  <2>1. PICK i \in at : TRUE
    BY <1>4
  <2>2. at = {i} /\ i \in DOMAIN table[b] /\ table[b][i].key = k
    BY <1>2, <2>1 DEF IsBucket, Position
  <2>3. i \in Nat
    BY <1>2, <2>2 DEF IsBucket
  <2>4. (CHOOSE m \in at : \A j \in at : m <= j) = i
    <3> HIDE DEF at
    <3> QED
      BY <2>2, <2>3
  <2>5. find(table, k) = {table[b][i].value}
    BY <1>4, <2>4 DEF find
  <2>6. table[b][i] \in Entries(table)
    BY <1>1, <2>2 DEF Entries, ToSet
  <2> HIDE DEF b, at
  <2>7. {f \in Entries(table) : f.key = k} = {table[b][i]}
    BY <2>2, <2>6, OneEntryPerKey
  <2> QED
    BY <2>5, <2>7
<1> QED
  BY <1>3, <1>4

(* What insert() leaves in the key's bucket. *)
Overwritten(bucket, at, entry) ==
    IF at = {} THEN Append(bucket, entry)
    ELSE [i \in DOMAIN bucket |-> IF i \in at THEN entry ELSE bucket[i]]

LEMMA OverwrittenBucket ==
    ASSUME NEW bucket, NEW k \in Nat, NEW v, IsBucket(bucket, bucketIndex(k))
    PROVE  LET new == Overwritten(bucket, Position(bucket, k), [key |-> k, value |-> v])
           IN  /\ IsBucket(new, bucketIndex(k))
               /\ ToSet(new) = {e \in ToSet(bucket) : e.key # k}
                               \union {[key |-> k, value |-> v]}
<1> DEFINE at == Position(bucket, k)
           entry == [key |-> k, value |-> v]
           new == Overwritten(bucket, at, entry)
<1>0. IsEntry(entry) /\ entry.key = k
  BY DEF IsEntry
<1>b. bucket \in Seq(ToSet(bucket)) /\ Len(bucket) \in Nat /\ DOMAIN bucket = 1..Len(bucket)
  BY DEF IsBucket
<1>1. CASE at = {}
  <2>1. new = Append(bucket, entry)
    BY <1>1 DEF Overwritten
  <2>2. \A i \in DOMAIN bucket : bucket[i].key # k
    BY <1>1 DEF Position
  <2> HIDE DEF entry, at, new
  <2>3. /\ new \in Seq(ToSet(new))
        /\ DOMAIN new = 1..(Len(bucket) + 1)
        /\ \A i \in 1..Len(bucket) : new[i] = bucket[i]
        /\ new[Len(bucket) + 1] = entry
    <3> DEFINE longer == Append(bucket, entry)
    <3>1. /\ longer \in Seq(ToSet(longer))
          /\ DOMAIN longer = 1..(Len(bucket) + 1)
          /\ \A i \in 1..Len(bucket) : longer[i] = bucket[i]
          /\ longer[Len(bucket) + 1] = entry
      BY <1>b, LongerSeq
    <3> HIDE DEF longer
    <3>2. new = longer
      BY <2>1 DEF longer
    <3> QED
      BY <3>1, <3>2
  <2>4. ASSUME NEW i \in DOMAIN new
        PROVE  IsEntry(new[i]) /\ bucketIndex(new[i].key) = bucketIndex(k)
    BY <1>0, <1>b, <2>3, <2>4 DEF IsBucket
  <2>5. ASSUME NEW i \in DOMAIN new, NEW j \in DOMAIN new, new[i].key = new[j].key
        PROVE  i = j
    BY <1>0, <1>b, <2>2, <2>3, <2>5 DEF IsBucket
  <2>6. ToSet(new) = ToSet(bucket) \union {entry}
    <3>1. \A e \in ToSet(new) : e \in ToSet(bucket) \union {entry}
      BY <1>b, <2>3 DEF ToSet
    <3>2. \A e \in ToSet(bucket) : e \in ToSet(new)
      BY <1>b, <2>3 DEF ToSet
    <3>3. entry \in ToSet(new)
      BY <1>b, <2>3 DEF ToSet
    <3> QED
      BY <3>1, <3>2, <3>3
  <2>7. {e \in ToSet(bucket) : e.key # k} = ToSet(bucket)
    BY <2>2 DEF ToSet
  <2>8. IsBucket(new, bucketIndex(k))
    BY <2>3, <2>4, <2>5 DEF IsBucket
  <2> QED
    BY <2>6, <2>7, <2>8 DEF entry, at, new
<1>2. CASE at # {}
  <2>1. new = [i \in DOMAIN bucket |-> IF i \in at THEN entry ELSE bucket[i]]
    BY <1>2 DEF Overwritten
  <2>2. PICK m \in at : TRUE
    BY <1>2
  <2>3. at = {m} /\ m \in DOMAIN bucket /\ bucket[m].key = k
    BY <2>2 DEF IsBucket, Position
  <2>4. \A i \in DOMAIN bucket : i \notin at => bucket[i].key # k
    BY DEF Position
  <2> HIDE DEF entry, at, new
  <2>5. DOMAIN new = DOMAIN bucket /\ new[m] = entry
        /\ \A i \in DOMAIN bucket : i # m => new[i] = bucket[i]
    BY <2>1, <2>3
  <2>6. new \in Seq(ToSet(bucket) \union {entry})
    <3> DEFINE S == ToSet(bucket) \union {entry}
    <3>1. \A i \in 1..Len(bucket) : new[i] \in S
      BY <1>b, <2>5 DEF ToSet
    <3> HIDE DEF S
    <3>2. new \in [1..Len(bucket) -> S]
      BY <1>b, <2>1, <3>1
    <3> QED
      BY <1>b, <3>2, SeqDef DEF S
  <2>7. new \in Seq(ToSet(new))
    BY <2>6, SeqOfItsElements
  <2>8. ASSUME NEW i \in DOMAIN new
        PROVE  IsEntry(new[i]) /\ bucketIndex(new[i].key) = bucketIndex(k)
    BY <1>0, <2>5, <2>8 DEF IsBucket
  <2>9. ASSUME NEW i \in DOMAIN new, NEW j \in DOMAIN new, new[i].key = new[j].key
        PROVE  i = j
    <3>1. \A n \in DOMAIN new : new[n].key = bucket[n].key
      BY <1>0, <2>3, <2>5
    <3> QED
      BY <2>5, <2>9, <3>1 DEF IsBucket
  <2>10. ToSet(new) = {e \in ToSet(bucket) : e.key # k} \union {entry}
    <3>1. \A e \in ToSet(new) : e \in {f \in ToSet(bucket) : f.key # k} \union {entry}
      BY <1>0, <2>3, <2>4, <2>5 DEF ToSet
    <3>2. \A e \in ToSet(bucket) : e.key # k => e \in ToSet(new)
      BY <1>0, <2>3, <2>4, <2>5 DEF ToSet
    <3>3. entry \in ToSet(new)
      BY <2>3, <2>5 DEF ToSet
    <3> QED
      BY <3>1, <3>2, <3>3
  <2>11. IsBucket(new, bucketIndex(k))
    BY <2>7, <2>8, <2>9 DEF IsBucket
  <2> QED
    BY <2>10, <2>11 DEF entry, at, new
<1> QED
  BY <1>1, <1>2

(* insert() replaces the entry of its key, or adds one. *)
LEMMA InsertsEntry ==
    ASSUME NEW table, IsTable(table), NEW k \in Nat, NEW v
    PROVE  /\ IsTable(insert(table, k, v))
           /\ Entries(insert(table, k, v)) =
                  {e \in Entries(table) : e.key # k} \union {[key |-> k, value |-> v]}
<1> DEFINE b == bucketIndex(k)
           at == Position(table[b], k)
           entry == [key |-> k, value |-> v]
           new == Overwritten(table[b], at, entry)
           result == insert(table, k, v)
<1>1. b \in Buckets
  BY BucketOfKey
<1>2. IsBucket(table[b], b)
  BY <1>1 DEF IsTable
<1>3. result = [table EXCEPT ![b] = new]
  BY DEF insert, Overwritten
<1>4. /\ IsBucket(new, b)
      /\ ToSet(new) = {e \in ToSet(table[b]) : e.key # k} \union {entry}
  BY <1>2, OverwrittenBucket
<1> HIDE DEF new, b, result
<1>5. /\ result = [c \in Buckets |-> result[c]]
      /\ result[b] = new
      /\ \A c \in Buckets : c # b => result[c] = table[c]
  BY <1>1, <1>3 DEF IsTable
<1>6. IsTable(result)
  BY <1>4, <1>5 DEF IsTable
<1>7. ASSUME NEW e \in Entries(result)
      PROVE  e \in {f \in Entries(table) : f.key # k} \union {entry}
  <2>1. PICK c \in Buckets : e \in ToSet(result[c])
    BY <1>7 DEF Entries
  <2>2. CASE c = b
    BY <1>1, <1>4, <1>5, <2>1, <2>2 DEF Entries
  <2>3. CASE c # b
    <3>1. e \in ToSet(table[c]) /\ e \in Entries(table)
      BY <1>5, <2>1, <2>3 DEF Entries
    <3>2. bucketIndex(e.key) = c
      <4>1. PICK i \in DOMAIN table[c] : e = table[c][i]
        BY <3>1 DEF ToSet
      <4> QED
        BY <4>1 DEF IsTable, IsBucket
    <3> QED
      BY <2>3, <3>1, <3>2 DEF b
  <2> QED
    BY <2>2, <2>3
<1>8. ASSUME NEW e \in Entries(table), e.key # k
      PROVE  e \in Entries(result)
  <2>1. PICK c \in Buckets : e \in ToSet(table[c])
    BY <1>8 DEF Entries
  <2> QED
    BY <1>4, <1>5, <1>8, <2>1 DEF Entries
<1>9. entry \in Entries(result)
  BY <1>1, <1>4, <1>5 DEF Entries
<1> QED
  BY <1>6, <1>7, <1>8, <1>9 DEF result

-----------------------------------------------------------------------------
(* store_users() goes through the rows one by one.                         *)
BeforeRows(table) ==
    [transactions |-> EmptyTable, accounts |-> EmptyTable, bank_db |-> table]

AfterRow(g, table, res, i) ==
    IF i = 0 THEN BeforeRows(table)
    ELSE StoreRow(g[i - 1], res[i], EndsAccount(res, i), EndsUser(res, i))

LEMMA AfterRowsUnfold ==
    ASSUME NEW table, NEW res, Len(res) \in Nat
    PROVE  /\ AfterRows(table, res)[0] = BeforeRows(table)
           /\ \A i \in 1..Len(res) :
                  AfterRows(table, res)[i] =
                      StoreRow(AfterRows(table, res)[i - 1], res[i],
                               EndsAccount(res, i), EndsUser(res, i))
<1> DEFINE Fits(g, n) == g = [i \in 0..n |-> AfterRow(g, table, res, i)]
           N == {n \in Nat : \E g : Fits(g, n)}
<1>1. 0 \in N
  <2> DEFINE g == [i \in 0..0 |-> BeforeRows(table)]
  <2>1. \A i \in 0..0 : AfterRow(g, table, res, i) = BeforeRows(table)
    BY DEF AfterRow
  <2>2. Fits(g, 0)
    BY <2>1
  <2> QED
    BY <2>2
<1>2. ASSUME NEW n \in Nat, n \in N
      PROVE  n + 1 \in N
  <2>1. PICK g : Fits(g, n)
    BY <1>2
  <2> DEFINE h == [i \in 0..(n + 1) |-> AfterRow(g, table, res, i)]
  <2>2. \A i \in 0..n : h[i] = g[i]
    BY <2>1
  <2>3. ASSUME NEW i \in 0..(n + 1)
        PROVE  AfterRow(h, table, res, i) = AfterRow(g, table, res, i)
    <3>1. CASE i = 0
      BY <3>1 DEF AfterRow
    <3>2. CASE i # 0
      <4>1. h[i - 1] = g[i - 1]
        BY <2>2, <3>2
      <4> HIDE DEF h
      <4> QED
        BY <3>2, <4>1 DEF AfterRow
    <3> QED
      BY <3>1, <3>2
  <2>4. Fits(h, n + 1)
    BY <2>3
  <2> HIDE DEF h
  <2> QED
    BY <2>4
<1>3. PICK g : Fits(g, Len(res))
  <2>1. Nat \subseteq N
    <3> HIDE DEF N
    <3> QED
      BY <1>1, <1>2, NaturalInduction
  <2> QED
    BY <2>1
<1> DEFINE after == AfterRows(table, res)
<1>4. after = CHOOSE f : Fits(f, Len(res))
  BY Zenon DEF AfterRows, AfterRow, BeforeRows
<1>5. Fits(after, Len(res))
  BY <1>3, <1>4, Zenon
<1> HIDE DEF after
<1>6. after[0] = AfterRow(after, table, res, 0)
      /\ \A i \in 1..Len(res) : after[i] = AfterRow(after, table, res, i)
  BY <1>5
<1>7. after[0] = BeforeRows(table)
  BY <1>6 DEF AfterRow
<1>8. ASSUME NEW i \in 1..Len(res)
      PROVE  after[i] = StoreRow(after[i - 1], res[i], EndsAccount(res, i), EndsUser(res, i))
  BY <1>6 DEF AfterRow
<1> QED
  BY <1>7, <1>8 DEF after

-----------------------------------------------------------------------------
(* A result as the query returns it: the rows of a user are together, and  *)
(* so are those of an account; an account has one user, a transaction one  *)
(* content.                                                                *)
Together(res) ==
    \A i, j, k \in DOMAIN res : i <= j /\ j <= k =>
        /\ res[i].user = res[k].user => res[j].user = res[i].user
        /\ res[i].account = res[k].account /\ res[i].account # Null =>
               res[j].account = res[i].account

Consistent(res) ==
    \A i, j \in DOMAIN res :
        /\ res[i].account = res[j].account /\ res[i].account # Null =>
               res[i].user = res[j].user
        /\ res[i].txn = res[j].txn => res[i].data = res[j].data
        /\ res[i].txn # Null => res[i].account # Null
        /\ res[i].user = res[j].user => res[i].login_status = res[j].login_status

Regular(res) ==
    /\ res \in Seq(ToSet(res))
    /\ \A i \in DOMAIN res : res[i].user \in Nat /\ res[i].account \in Nat
                             /\ res[i].txn \in Nat
    /\ Together(res)
    /\ Consistent(res)

(* What the rows say of an account and of a user. *)
EntryOf(row) == [key |-> row.txn, value |-> NewTransaction(row)]

EntriesIn(res, a) ==
    {EntryOf(res[j]) : j \in {i \in DOMAIN res : res[i].account = a /\ res[i].txn # Null}}

AccountsIn(res, u) ==
    {res[j].account : j \in {i \in DOMAIN res : res[i].user = u /\ res[i].account # Null}}

UsersIn(res) == {res[i].user : i \in DOMAIN res}

(* Whether there are rows of it after the first n. *)
AccountOpen(res, n, a) == \E k \in (n + 1)..Len(res) : res[k].account = a

UserOpen(res, n, u) == \E k \in (n + 1)..Len(res) : res[k].user = u

(* An account, and a user, in memory as the rows say. *)
AccountAsIn(res, a, account) ==
    /\ account = NewAccount(account.transactions)
    /\ IsTable(account.transactions)
    /\ Entries(account.transactions) = EntriesIn(res, a)

AccountsAsIn(res, table) ==
    /\ IsTable(table)
    /\ \A e \in Entries(table) : AccountAsIn(res, e.key, e.value)

IsUser(user) == user = [login_status |-> user.login_status, accounts |-> user.accounts]

UserAsIn(res, u, user) ==
    /\ IsUser(user)
    /\ AccountsAsIn(res, user.accounts)
    /\ Keys(user.accounts) = AccountsIn(res, u)
    /\ \A i \in DOMAIN res : res[i].user = u => user.login_status = res[i].login_status

(* The tables after n rows. *)
TransactionsSoFar(res, n, table) ==
    /\ IsTable(table)
    /\ Entries(table) =
           {EntryOf(res[j]) : j \in {i \in 1..n : res[i].txn # Null
                                                  /\ AccountOpen(res, n, res[i].account)}}

AccountsSoFar(res, n, table) ==
    /\ AccountsAsIn(res, table)
    /\ Keys(table) =
           {res[j].account : j \in {i \in 1..n : /\ res[i].account # Null
                                                 /\ ~AccountOpen(res, n, res[i].account)
                                                 /\ UserOpen(res, n, res[i].user)}}

UsersSoFar(res, n) == {res[j].user : j \in {i \in 1..n : ~UserOpen(res, n, res[i].user)}}

BankSoFar(res, n, before, table) ==
    /\ IsTable(table)
    /\ Keys(table) = Keys(before) \union UsersSoFar(res, n)
    /\ \A e \in Entries(table) :
           IF e.key \in UsersSoFar(res, n) THEN UserAsIn(res, e.key, e.value)
           ELSE e \in Entries(before)

SoFar(res, n, before, s) ==
    /\ TransactionsSoFar(res, n, s.transactions)
    /\ AccountsSoFar(res, n, s.accounts)
    /\ BankSoFar(res, n, before, s.bank_db)

-----------------------------------------------------------------------------
(* What is open before and after row n + 1.                                *)
LEMMA NowOpen ==
    ASSUME NEW res, Regular(res), NEW n \in Nat, n < Len(res)
    PROVE  /\ n + 1 \in DOMAIN res /\ Len(res) \in Nat /\ DOMAIN res = 1..Len(res)
           /\ \A a : AccountOpen(res, n, a) <=> a = res[n + 1].account
                                                \/ AccountOpen(res, n + 1, a)
           /\ \A u : UserOpen(res, n, u) <=> u = res[n + 1].user
                                             \/ UserOpen(res, n + 1, u)
<1>1. Len(res) \in Nat /\ DOMAIN res = 1..Len(res)
  BY DEF Regular
<1> QED
  BY <1>1 DEF AccountOpen, UserOpen

(* An account with rows on both sides is the account of the row between,   *)
(* and so is a user.                                                       *)
LEMMA OneOpen ==
    ASSUME NEW res, Regular(res), NEW n \in Nat, n < Len(res), NEW j \in 1..(n + 1)
    PROVE  /\ res[j].account # Null => 
                  (AccountOpen(res, n, res[j].account)
                   \/ AccountOpen(res, n + 1, res[j].account)
                      => res[j].account = res[n + 1].account)
           /\ UserOpen(res, n, res[j].user) \/ UserOpen(res, n + 1, res[j].user)
                  => res[j].user = res[n + 1].user
<1>1. Len(res) \in Nat /\ DOMAIN res = 1..Len(res)
  BY DEF Regular
<1>2. ASSUME NEW k \in (n + 1)..Len(res)
      PROVE  /\ res[k].account = res[j].account /\ res[j].account # Null =>
                    res[n + 1].account = res[j].account
             /\ res[k].user = res[j].user => res[n + 1].user = res[j].user
  <2>1. /\ j \in DOMAIN res /\ n + 1 \in DOMAIN res /\ k \in DOMAIN res
        /\ j <= n + 1 /\ n + 1 <= k
    BY <1>1
  <2> QED
    BY <2>1 DEF Regular, Together
<1> QED
  BY <1>1, <1>2 DEF AccountOpen, UserOpen

(* EndsAccount() and EndsUser(), which compare two rows, tell whether any  *)
(* row is left.                                                            *)
LEMMA EndsClose ==
    ASSUME NEW res, Regular(res), NEW n \in Nat, n < Len(res)
    PROVE  LET x == res[n + 1]
           IN  /\ x.account # Null =>
                      (EndsAccount(res, n + 1) <=> ~AccountOpen(res, n + 1, x.account))
               /\ EndsUser(res, n + 1) <=> ~UserOpen(res, n + 1, x.user)
               /\ x.account # Null /\ EndsUser(res, n + 1) => EndsAccount(res, n + 1)
<1> DEFINE x == res[n + 1]
<1>1. Len(res) \in Nat /\ DOMAIN res = 1..Len(res)
  BY DEF Regular
<1>2. CASE n + 1 = Len(res)
  <2>1. EndsAccount(res, n + 1) /\ EndsUser(res, n + 1)
    BY <1>2 DEF EndsAccount, EndsUser
  <2>2. \A k \in ((n + 1) + 1)..Len(res) : FALSE
    BY <1>1, <1>2
  <2>3. ~AccountOpen(res, n + 1, x.account) /\ ~UserOpen(res, n + 1, x.user)
    BY <2>2 DEF AccountOpen, UserOpen
  <2> QED
    BY <2>1, <2>3
<1>3. CASE n + 1 # Len(res)
  <2>0. n + 2 \in 1..Len(res) /\ n + 1 \in 1..Len(res) /\ (n + 1) + 1 = n + 2
    <3> DEFINE len == Len(res)
    <3>1. len \in Nat /\ n < len /\ n + 1 # len
      BY <1>1, <1>3
    <3> HIDE DEF len
    <3>2. n + 2 \in 1..len /\ n + 1 \in 1..len
      BY <3>1
    <3> QED
      BY <3>2 DEF len
  <2>1. n + 2 \in (n + 2)..Len(res) /\ n + 2 \in DOMAIN res /\ n + 1 \in DOMAIN res
        /\ (n + 1) + 1 = n + 2
    BY <1>1, <2>0
  <2>2. ASSUME NEW k \in (n + 2)..Len(res)
        PROVE  /\ x.account # Null /\ res[k].account = x.account =>
                      res[n + 2].account = x.account
               /\ res[k].user = x.user => res[n + 2].user = x.user
    <3>1. k \in DOMAIN res /\ n + 1 <= n + 2 /\ n + 2 <= k
      BY <1>1
    <3> QED
      BY <2>1, <3>1 DEF Regular, Together
  <2>3. EndsAccount(res, n + 1) <=> x.account # res[n + 2].account
    BY <1>3, <2>1 DEF EndsAccount
  <2>4. EndsUser(res, n + 1) <=> x.user # res[n + 2].user
    BY <1>3, <2>1 DEF EndsUser
  <2>5. \A a : AccountOpen(res, n + 1, a) <=> \E k \in (n + 2)..Len(res) : res[k].account = a
    BY <2>1 DEF AccountOpen
  <2>6. \A u : UserOpen(res, n + 1, u) <=> \E k \in (n + 2)..Len(res) : res[k].user = u
    BY <2>1 DEF UserOpen
  <2>7. x.account # Null /\ x.user # res[n + 2].user => x.account # res[n + 2].account
    BY <2>1 DEF Regular, Consistent
  <2> HIDE DEF x
  <2>8. x.account # Null =>
            (EndsAccount(res, n + 1) <=> ~AccountOpen(res, n + 1, x.account))
    BY <2>1, <2>2, <2>3, <2>5
  <2>9. EndsUser(res, n + 1) <=> ~UserOpen(res, n + 1, x.user)
    BY <2>1, <2>2, <2>4, <2>6
  <2> QED
    BY <2>3, <2>4, <2>7, <2>8, <2>9 DEF x
<1> QED
  BY <1>2, <1>3

(* The transactions of the open account, with those of row n + 1. *)
WithTransaction(table, row) ==
    IF row.txn = Null THEN table ELSE insert(table, row.txn, NewTransaction(row))

EntriesUpTo(res, n, a) ==
    {EntryOf(res[j]) : j \in {i \in 1..n : res[i].account = a /\ res[i].txn # Null}}

LEMMA RowAddsTransaction ==
    ASSUME NEW res, Regular(res), NEW n \in Nat, n < Len(res), NEW table,
           TransactionsSoFar(res, n, table)
    PROVE  LET x == res[n + 1]
               with == WithTransaction(table, x)
           IN  /\ IsTable(with)
               /\ Entries(with) = EntriesUpTo(res, n + 1, x.account)
<1> DEFINE x == res[n + 1]
           with == WithTransaction(table, x)
           old == Entries(table)
<1>1. Len(res) \in Nat /\ DOMAIN res = 1..Len(res) /\ n + 1 \in DOMAIN res
  BY NowOpen
<1>2. \A i \in 1..(n + 1) : i \in DOMAIN res
  BY <1>1
<1>3. x.txn \in Nat /\ (x.txn # Null => x.account # Null)
  BY <1>1 DEF Regular, Consistent
<1>4. old = EntriesUpTo(res, n, x.account)
  <2>1. ASSUME NEW i \in 1..n, res[i].txn # Null
        PROVE  AccountOpen(res, n, res[i].account) <=> res[i].account = x.account
    <3>1. res[i].account # Null /\ i \in 1..(n + 1)
      BY <1>2, <2>1 DEF Regular, Consistent
    <3>2. AccountOpen(res, n, res[i].account) => res[i].account = x.account
      BY <3>1, OneOpen
    <3>3. AccountOpen(res, n, x.account)
      BY NowOpen
    <3> QED
      BY <3>2, <3>3
  <2>2. {i \in 1..n : res[i].txn # Null /\ AccountOpen(res, n, res[i].account)}
        = {i \in 1..n : res[i].account = x.account /\ res[i].txn # Null}
    BY <2>1
  <2> QED
    BY <2>2, Zenon DEF TransactionsSoFar, EntriesUpTo
<1>5. \A i \in 1..(n + 1) : i \in 1..n \/ i = n + 1
  OBVIOUS
<1>6. CASE x.txn = Null
  <2>1. with = table
    BY <1>6 DEF WithTransaction
  <2>2. {i \in 1..(n + 1) : res[i].account = x.account /\ res[i].txn # Null}
        = {i \in 1..n : res[i].account = x.account /\ res[i].txn # Null}
    BY <1>5, <1>6
  <2>3. EntriesUpTo(res, n + 1, x.account) = EntriesUpTo(res, n, x.account)
    BY <2>2, Zenon DEF EntriesUpTo
  <2> QED
    BY <1>4, <2>1, <2>3 DEF TransactionsSoFar
<1>7. CASE x.txn # Null
  <2>1. with = insert(table, x.txn, NewTransaction(x)) /\ IsTable(table)
    BY <1>7 DEF WithTransaction, TransactionsSoFar
  <2>2. EntryOf(x) = [key |-> x.txn, value |-> NewTransaction(x)]
    BY DEF EntryOf
  <2> HIDE DEF x
  <2>3. IsTable(with) /\ Entries(with) = {e \in old : e.key # x.txn} \union {EntryOf(x)}
    BY <1>3, <2>1, <2>2, InsertsEntry
  <2> HIDE DEF with
  <2>4. ASSUME NEW e \in Entries(with)
        PROVE  e \in EntriesUpTo(res, n + 1, x.account)
    <3>1. CASE e = EntryOf(x)
      BY <3>1, <1>7 DEF x, EntriesUpTo
    <3>2. CASE e \in old
      <4>1. PICK i \in 1..n : /\ res[i].account = x.account /\ res[i].txn # Null
                              /\ e = EntryOf(res[i])
        BY <1>4, <3>2 DEF EntriesUpTo
      <4> QED
        BY <4>1 DEF EntriesUpTo
    <3> QED
      BY <2>3, <3>1, <3>2
  <2>5. ASSUME NEW e \in EntriesUpTo(res, n + 1, x.account)
        PROVE  e \in Entries(with)
    <3>1. PICK i \in 1..(n + 1) : /\ res[i].account = x.account /\ res[i].txn # Null
                                  /\ e = EntryOf(res[i])
      BY DEF EntriesUpTo
    <3>2. e.key = res[i].txn
      BY <3>1 DEF EntryOf
    <3>3. CASE res[i].txn = x.txn
      <4>1. res[i].data = x.data
        BY <1>1, <1>2, <3>3 DEF x, Regular, Consistent
      <4>2. e = EntryOf(x)
        BY <3>1, <3>3, <4>1 DEF EntryOf, NewTransaction
      <4> QED
        BY <2>3, <4>2
    <3>4. CASE res[i].txn # x.txn
      <4>1. i \in 1..n
        BY <1>5, <3>4 DEF x
      <4>2. e \in old
        BY <1>4, <3>1, <4>1 DEF EntriesUpTo
      <4> QED
        BY <2>3, <3>2, <3>4, <4>2
    <3> QED
      BY <3>3, <3>4
  <2>6. Entries(with) = EntriesUpTo(res, n + 1, x.account)
    BY <2>4, <2>5
  <2> QED
    BY <2>3, <2>6 DEF x, with
<1> QED
  BY <1>6, <1>7

(* At the end of an account they are all there, and then none. *)
LEMMA RowKeepsTransactions ==
    ASSUME NEW res, Regular(res), NEW n \in Nat, n < Len(res), NEW table,
           IsTable(table), Entries(table) = EntriesUpTo(res, n + 1, res[n + 1].account)
    PROVE  LET x == res[n + 1]
               closed == x.account # Null /\ EndsAccount(res, n + 1)
           IN  /\ closed => Entries(table) = EntriesIn(res, x.account)
               /\ TransactionsSoFar(res, n + 1,
                      NextTransactions(table, closed \/ EndsUser(res, n + 1)))
<1> DEFINE x == res[n + 1]
           closed == x.account # Null /\ EndsAccount(res, n + 1)
           next == NextTransactions(table, closed \/ EndsUser(res, n + 1))
           Left == {i \in 1..(n + 1) : res[i].txn # Null
                                       /\ AccountOpen(res, n + 1, res[i].account)}
<1>1. Len(res) \in Nat /\ DOMAIN res = 1..Len(res) /\ n + 1 \in DOMAIN res
  BY NowOpen
<1>2. \A i \in 1..(n + 1) : i \in DOMAIN res
  BY <1>1
<1>3. ASSUME NEW i \in 1..(n + 1), res[i].txn # Null, AccountOpen(res, n + 1, res[i].account)
      PROVE  res[i].account = x.account /\ x.account # Null
  <2>1. res[i].account # Null
    BY <1>2, <1>3 DEF Regular, Consistent
  <2> QED
    BY <1>3, <2>1, OneOpen
<1>4. CASE closed
  <2>1. ~AccountOpen(res, n + 1, x.account) /\ x.account # Null
    BY <1>4, EndsClose
  <2>2. \A i \in DOMAIN res : res[i].account = x.account => i \in 1..(n + 1)
    BY <1>1, <2>1 DEF AccountOpen
  <2>3. {i \in DOMAIN res : res[i].account = x.account /\ res[i].txn # Null}
        = {i \in 1..(n + 1) : res[i].account = x.account /\ res[i].txn # Null}
    BY <1>2, <2>2
  <2>4. EntriesIn(res, x.account) = EntriesUpTo(res, n + 1, x.account)
    BY <2>3, Zenon DEF EntriesIn, EntriesUpTo
  <2>5. Left = {}
    BY <1>3, <2>1
  <2>6. next = EmptyTable
    BY <1>4 DEF NextTransactions
  <2> HIDE DEF Left
  <2>7. {EntryOf(res[j]) : j \in Left} = {}
    BY <2>5
  <2>8. TransactionsSoFar(res, n + 1, next)
    BY <2>6, <2>7, EmptyIsTable DEF TransactionsSoFar, Left
  <2> QED
    BY <2>4, <2>8
<1>5. CASE ~closed
  <2>1. CASE EndsUser(res, n + 1)
    <3>1. x.account = Null
      BY <1>5, <2>1, EndsClose
    <3>2. Left = {}
      BY <1>3, <3>1
    <3>3. next = EmptyTable
      BY <2>1 DEF NextTransactions
    <3> HIDE DEF Left
    <3>4. {EntryOf(res[j]) : j \in Left} = {}
      BY <3>2
    <3>5. TransactionsSoFar(res, n + 1, next)
      BY <3>3, <3>4, EmptyIsTable DEF TransactionsSoFar, Left
    <3> QED
      BY <1>5, <3>5
  <2>2. CASE ~EndsUser(res, n + 1)
    <3>1. next = table
      BY <1>5, <2>2 DEF NextTransactions
    <3>2. x.account # Null => AccountOpen(res, n + 1, x.account)
      BY <1>5, EndsClose
    <3>3. \A i \in 1..(n + 1) : res[i].txn # Null => res[i].account # Null
      BY <1>2 DEF Regular, Consistent
    <3>4. Left = {i \in 1..(n + 1) : res[i].account = x.account /\ res[i].txn # Null}
      BY <1>3, <3>2, <3>3
    <3>5. {EntryOf(res[j]) : j \in Left} = EntriesUpTo(res, n + 1, x.account)
      <4> HIDE DEF Left
      <4> QED
        BY <3>4, Zenon DEF EntriesUpTo
    <3>6. TransactionsSoFar(res, n + 1, next)
      BY <3>1, <3>5, Zenon DEF TransactionsSoFar
    <3> QED
      BY <1>5, <3>6
  <2> QED
    BY <2>1, <2>2
<1> QED
  BY <1>4, <1>5

LEMMA InsertsKey ==
    ASSUME NEW table, IsTable(table), NEW k \in Nat, NEW v
    PROVE  Keys(insert(table, k, v)) = Keys(table) \union {k}
<1>1. Entries(insert(table, k, v)) =
          {e \in Entries(table) : e.key # k} \union {[key |-> k, value |-> v]}
  BY InsertsEntry
<1> DEFINE new == insert(table, k, v)
           entry == [key |-> k, value |-> v]
<1>2. entry.key = k
  OBVIOUS
<1> HIDE DEF new, entry
<1>3. Entries(new) = {e \in Entries(table) : e.key # k} \union {entry}
  BY <1>1 DEF new, entry
<1>4. \A m \in Keys(new) : m \in Keys(table) \union {k}
  BY <1>2, <1>3 DEF Keys
<1>5. \A m \in Keys(table) : m \in Keys(new)
  BY <1>2, <1>3 DEF Keys
<1>6. k \in Keys(new)
  BY <1>2, <1>3 DEF Keys
<1> QED
  BY <1>4, <1>5, <1>6 DEF new

LEMMA EmptyHasNoKeys == Keys(EmptyTable) = {}
BY EmptyIsTable DEF Keys

(* The closed accounts of the open user, with that of row n + 1. *)
WithAccount(table, row, closed, transactions) ==
    IF closed THEN insert(table, row.account, NewAccount(transactions)) ELSE table

ClosedUpTo(res, n, u) ==
    {res[j].account : j \in {i \in 1..n : /\ res[i].account # Null
                                          /\ ~AccountOpen(res, n, res[i].account)
                                          /\ res[i].user = u}}

LEMMA RowAddsAccount ==
    ASSUME NEW res, Regular(res), NEW n \in Nat, n < Len(res), NEW table,
           AccountsSoFar(res, n, table), NEW transactions, IsTable(transactions),
           NEW closed, closed = (res[n + 1].account # Null /\ EndsAccount(res, n + 1)),
           closed => Entries(transactions) = EntriesIn(res, res[n + 1].account)
    PROVE  LET x == res[n + 1]
               with == WithAccount(table, x, closed, transactions)
           IN  /\ AccountsAsIn(res, with)
               /\ Keys(with) = ClosedUpTo(res, n + 1, x.user)
<1> DEFINE x == res[n + 1]
           with == WithAccount(table, x, closed, transactions)
           account == NewAccount(transactions)
<1>1. Len(res) \in Nat /\ DOMAIN res = 1..Len(res) /\ n + 1 \in DOMAIN res
  BY NowOpen
<1>2. \A i \in 1..(n + 1) : i \in DOMAIN res /\ (i \in 1..n \/ i = n + 1)
  BY <1>1
<1>3. x.account \in Nat /\ IsTable(table)
  BY <1>1 DEF Regular, AccountsSoFar, AccountsAsIn
<1>4. closed => AccountAsIn(res, x.account, account)
  BY DEF AccountAsIn, NewAccount
<1>5. AccountsAsIn(res, with) /\ Keys(with) = Keys(table) \union (IF closed THEN {x.account} ELSE {})
  <2>1. CASE closed
    <3>1. with = insert(table, x.account, account)
      BY <2>1 DEF WithAccount
    <3> HIDE DEF with, account
    <3>2. /\ IsTable(with)
          /\ Entries(with) = {e \in Entries(table) : e.key # x.account}
                             \union {[key |-> x.account, value |-> account]}
          /\ Keys(with) = Keys(table) \union {x.account}
      BY <1>3, <3>1, InsertsEntry, InsertsKey
    <3>3. \A e \in Entries(table) : AccountAsIn(res, e.key, e.value)
      BY DEF AccountsSoFar, AccountsAsIn
    <3>4. \A e \in Entries(with) : AccountAsIn(res, e.key, e.value)
      BY <1>4, <2>1, <3>2, <3>3
    <3> QED
      BY <2>1, <3>2, <3>4 DEF AccountsAsIn
  <2>2. CASE ~closed
    BY <2>2 DEF WithAccount, AccountsSoFar
  <2> QED
    BY <2>1, <2>2
<1>6. closed <=> x.account # Null /\ ~AccountOpen(res, n + 1, x.account)
  BY EndsClose
<1>7. \A a : AccountOpen(res, n, a) <=> a = x.account \/ AccountOpen(res, n + 1, a)
  BY NowOpen
<1>8. \A i \in 1..n : UserOpen(res, n, res[i].user) <=> res[i].user = x.user
  BY NowOpen, OneOpen
<1> HIDE DEF x, with
<1>9. ASSUME NEW a \in Keys(with)
      PROVE  a \in ClosedUpTo(res, n + 1, x.user)
  <2>1. CASE closed /\ a = x.account
    BY <1>6, <2>1 DEF x, ClosedUpTo
  <2>2. CASE a \in Keys(table)
    <3>1. PICK i \in 1..n : /\ res[i].account # Null
                            /\ ~AccountOpen(res, n, res[i].account)
                            /\ UserOpen(res, n, res[i].user)
                            /\ a = res[i].account
      BY <2>2 DEF AccountsSoFar
    <3>2. i \in 1..(n + 1) /\ res[i].user = x.user /\ ~AccountOpen(res, n + 1, res[i].account)
      BY <1>7, <1>8, <3>1
    <3> QED
      BY <3>1, <3>2 DEF ClosedUpTo
  <2> QED
    BY <1>5, <2>1, <2>2
<1>10. ASSUME NEW a \in ClosedUpTo(res, n + 1, x.user)
       PROVE  a \in Keys(with)
  <2>1. PICK i \in 1..(n + 1) : /\ res[i].account # Null
                                /\ ~AccountOpen(res, n + 1, res[i].account)
                                /\ res[i].user = x.user
                                /\ a = res[i].account
    BY DEF ClosedUpTo
  <2>2. CASE a = x.account
    BY <1>5, <1>6, <2>1, <2>2
  <2>3. CASE a # x.account
    <3>1. i \in 1..n /\ ~AccountOpen(res, n, res[i].account) /\ UserOpen(res, n, res[i].user)
      BY <1>2, <1>7, <1>8, <2>1, <2>3 DEF x
    <3>2. a \in Keys(table)
      BY <2>1, <3>1 DEF AccountsSoFar
    <3> QED
      BY <1>5, <3>2
  <2> QED
    BY <2>2, <2>3
<1> QED
  BY <1>5, <1>9, <1>10 DEF x, with

(* At the end of a user they are all there, and then none. *)
LEMMA RowKeepsAccounts ==
    ASSUME NEW res, Regular(res), NEW n \in Nat, n < Len(res), NEW table,
           AccountsAsIn(res, table), Keys(table) = ClosedUpTo(res, n + 1, res[n + 1].user)
    PROVE  LET x == res[n + 1]
               ends == EndsUser(res, n + 1)
           IN  /\ ends => Keys(table) = AccountsIn(res, x.user)
               /\ AccountsSoFar(res, n + 1, IF ends THEN EmptyTable ELSE table)
<1> DEFINE x == res[n + 1]
           ends == EndsUser(res, n + 1)
           Left == {i \in 1..(n + 1) : /\ res[i].account # Null
                                       /\ ~AccountOpen(res, n + 1, res[i].account)
                                       /\ UserOpen(res, n + 1, res[i].user)}
           Closed == {i \in 1..(n + 1) : /\ res[i].account # Null
                                         /\ ~AccountOpen(res, n + 1, res[i].account)
                                         /\ res[i].user = x.user}
<1>1. Len(res) \in Nat /\ DOMAIN res = 1..Len(res) /\ n + 1 \in DOMAIN res
  BY NowOpen
<1>2. \A i \in 1..(n + 1) : i \in DOMAIN res
  BY <1>1
<1>3. \A i \in 1..(n + 1) : UserOpen(res, n + 1, res[i].user) => res[i].user = x.user
  BY OneOpen
<1>4. CASE ends
  <2>1. ~UserOpen(res, n + 1, x.user)
    BY <1>4, EndsClose
  <2>2. \A i \in DOMAIN res : res[i].user = x.user => i \in 1..(n + 1)
    BY <1>1, <2>1 DEF UserOpen
  <2>3. ASSUME NEW i \in 1..(n + 1), res[i].account # Null, res[i].user = x.user
        PROVE  ~AccountOpen(res, n + 1, res[i].account)
    <3> SUFFICES ASSUME AccountOpen(res, n + 1, res[i].account)
                 PROVE  FALSE
      OBVIOUS
    <3>1. PICK k \in ((n + 1) + 1)..Len(res) : res[k].account = res[i].account
      BY DEF AccountOpen
    <3>2. k \in DOMAIN res /\ i \in DOMAIN res
      BY <1>1, <1>2
    <3>3. res[k].user = x.user
      BY <2>3, <3>1, <3>2 DEF Regular, Consistent
    <3> QED
      BY <2>1, <3>1, <3>3 DEF UserOpen
  <2>4. Closed = {i \in DOMAIN res : res[i].user = x.user /\ res[i].account # Null}
    BY <1>2, <2>2, <2>3
  <2>5. AccountsIn(res, x.user) = ClosedUpTo(res, n + 1, x.user)
    BY <2>4, Zenon DEF AccountsIn, ClosedUpTo
  <2>6. Left = {}
    BY <1>3, <2>1
  <2> HIDE DEF Left
  <2>7. {res[j].account : j \in Left} = {}
    BY <2>6
  <2>8. AccountsSoFar(res, n + 1, EmptyTable)
    <3>1. AccountsAsIn(res, EmptyTable)
      BY EmptyIsTable DEF AccountsAsIn
    <3> QED
      BY <2>7, <3>1, EmptyHasNoKeys DEF AccountsSoFar, Left
  <2> QED
    BY <1>4, <2>5, <2>8
<1>5. CASE ~ends
  <2>1. UserOpen(res, n + 1, x.user)
    BY <1>5, EndsClose
  <2>2. Left = Closed
    BY <1>3, <2>1
  <2>3. {res[j].account : j \in Left} = ClosedUpTo(res, n + 1, x.user)
    <3> HIDE DEF Left
    <3> QED
      BY <2>2, Zenon DEF ClosedUpTo
  <2>4. AccountsSoFar(res, n + 1, table)
    BY <2>3, Zenon DEF AccountsSoFar
  <2> QED
    BY <1>5, <2>4
<1> QED
  BY <1>4, <1>5

(* bank_db gets the user of row n + 1 when that is the last row of his. *)
LEMMA RowKeepsBank ==
    ASSUME NEW res, Regular(res), NEW n \in Nat, n < Len(res), NEW before, NEW table,
           BankSoFar(res, n, before, table), NEW accounts, AccountsAsIn(res, accounts),
           EndsUser(res, n + 1) => Keys(accounts) = AccountsIn(res, res[n + 1].user)
    PROVE  LET x == res[n + 1]
           IN  BankSoFar(res, n + 1, before,
                         IF EndsUser(res, n + 1)
                         THEN insert(table, x.user, NewUser(x, accounts)) ELSE table)
<1> DEFINE x == res[n + 1]
           user == NewUser(x, accounts)
<1>1. Len(res) \in Nat /\ DOMAIN res = 1..Len(res) /\ n + 1 \in DOMAIN res
  BY NowOpen
<1>2. \A i \in 1..(n + 1) : i \in DOMAIN res /\ (i \in 1..n \/ i = n + 1)
  BY <1>1
<1>3. x.user \in Nat /\ IsTable(table)
  BY <1>1 DEF Regular, BankSoFar
<1>4. EndsUser(res, n + 1) <=> ~UserOpen(res, n + 1, x.user)
  BY EndsClose
<1>5. \A u : UserOpen(res, n, u) <=> u = x.user \/ UserOpen(res, n + 1, u)
  BY NowOpen
<1>6. \A i \in 1..(n + 1) : UserOpen(res, n + 1, res[i].user) => res[i].user = x.user
  BY OneOpen
<1>7. UsersSoFar(res, n + 1) =
          UsersSoFar(res, n) \union (IF EndsUser(res, n + 1) THEN {x.user} ELSE {})
  <2>1. ASSUME NEW u \in UsersSoFar(res, n)
        PROVE  u \in UsersSoFar(res, n + 1)
    <3>1. PICK i \in 1..n : u = res[i].user /\ ~UserOpen(res, n, res[i].user)
      BY DEF UsersSoFar
    <3>2. i \in 1..(n + 1) /\ ~UserOpen(res, n + 1, res[i].user)
      BY <1>5, <3>1
    <3> QED
      BY <3>1, <3>2 DEF UsersSoFar
  <2>2. EndsUser(res, n + 1) => x.user \in UsersSoFar(res, n + 1)
    BY <1>4 DEF UsersSoFar
  <2>3. ASSUME NEW u \in UsersSoFar(res, n + 1), u \notin UsersSoFar(res, n)
        PROVE  EndsUser(res, n + 1) /\ u = x.user
    <3>1. PICK i \in 1..(n + 1) : u = res[i].user /\ ~UserOpen(res, n + 1, res[i].user)
      BY DEF UsersSoFar
    <3>2. CASE u = x.user
      BY <1>4, <3>1, <3>2
    <3>3. CASE u # x.user
      <4>1. i \in 1..n /\ ~UserOpen(res, n, res[i].user)
        BY <1>2, <1>5, <3>1, <3>3
      <4> QED
        BY <2>3, <3>1, <4>1 DEF UsersSoFar
    <3> QED
      BY <3>2, <3>3
  <2> QED
    BY <2>1, <2>2, <2>3
<1>8. CASE EndsUser(res, n + 1)
  <2> DEFINE new == insert(table, x.user, user)
  <2>1. UserAsIn(res, x.user, user)
    <3>1. user = [login_status |-> user.login_status, accounts |-> user.accounts]
          /\ user.accounts = accounts /\ user.login_status = x.login_status
      BY DEF NewUser
    <3>2. \A i \in DOMAIN res : res[i].user = x.user => x.login_status = res[i].login_status
      BY <1>1 DEF Regular, Consistent
    <3> HIDE DEF user
    <3> QED
      BY <1>8, <3>1, <3>2 DEF UserAsIn, IsUser
  <2> HIDE DEF user
  <2>2. /\ IsTable(new)
        /\ Entries(new) = {e \in Entries(table) : e.key # x.user}
                          \union {[key |-> x.user, value |-> user]}
        /\ Keys(new) = Keys(table) \union {x.user}
    BY <1>3, InsertsEntry, InsertsKey
  <2> HIDE DEF new, x
  <2>3. Keys(new) = Keys(before) \union UsersSoFar(res, n + 1)
    BY <1>7, <1>8, <2>2 DEF BankSoFar
  <2>4. ASSUME NEW e \in Entries(new)
        PROVE  IF e.key \in UsersSoFar(res, n + 1) THEN UserAsIn(res, e.key, e.value)
               ELSE e \in Entries(before)
    <3>1. CASE e = [key |-> x.user, value |-> user]
      BY <1>7, <1>8, <2>1, <3>1
    <3>2. CASE e \in Entries(table) /\ e.key # x.user
      BY <1>7, <3>2 DEF BankSoFar
    <3> QED
      BY <2>2, <3>1, <3>2
  <2>5. BankSoFar(res, n + 1, before, new)
    BY <2>2, <2>3, <2>4 DEF BankSoFar
  <2> QED
    BY <1>8, <2>5 DEF new, x, user
<1>9. CASE ~EndsUser(res, n + 1)
  <2>1. UsersSoFar(res, n + 1) = UsersSoFar(res, n)
    BY <1>7, <1>9
  <2>2. BankSoFar(res, n + 1, before, table)
    BY <2>1 DEF BankSoFar
  <2> QED
    BY <1>9, <2>2
<1> QED
  BY <1>8, <1>9

(* One row. *)
LEMMA RowStored ==
    ASSUME NEW res, Regular(res), NEW n \in Nat, n < Len(res), NEW before, NEW s,
           SoFar(res, n, before, s)
    PROVE  SoFar(res, n + 1, before,
                 StoreRow(s, res[n + 1], EndsAccount(res, n + 1), EndsUser(res, n + 1)))
<1> DEFINE x == res[n + 1]
           ends == EndsUser(res, n + 1)
           closed == x.account # Null /\ EndsAccount(res, n + 1)
           transactions == WithTransaction(s.transactions, x)
           accounts == WithAccount(s.accounts, x, closed, transactions)
           nextT == NextTransactions(transactions, closed \/ ends)
           nextA == IF ends THEN EmptyTable ELSE accounts
           nextB == IF ends THEN insert(s.bank_db, x.user, NewUser(x, accounts))
                    ELSE s.bank_db
<1>1. StoreRow(s, x, EndsAccount(res, n + 1), ends)
      = [transactions |-> nextT, accounts |-> nextA, bank_db |-> nextB]
  BY DEF StoreRow, WithTransaction, WithAccount
<1>2. IsTable(transactions) /\ Entries(transactions) = EntriesUpTo(res, n + 1, x.account)
  BY RowAddsTransaction DEF SoFar
<1>3. (closed => Entries(transactions) = EntriesIn(res, x.account))
      /\ TransactionsSoFar(res, n + 1, nextT)
  <2> HIDE DEF transactions
  <2> QED
    BY <1>2, RowKeepsTransactions
<1>4. AccountsAsIn(res, accounts) /\ Keys(accounts) = ClosedUpTo(res, n + 1, x.user)
  <2> HIDE DEF transactions
  <2>1. AccountsSoFar(res, n, s.accounts)
    BY DEF SoFar
  <2> QED
    BY <1>2, <1>3, <2>1, RowAddsAccount
<1> HIDE DEF accounts
<1>5. (ends => Keys(accounts) = AccountsIn(res, x.user)) /\ AccountsSoFar(res, n + 1, nextA)
  BY <1>4, RowKeepsAccounts
<1>6. BankSoFar(res, n + 1, before, nextB)
  <2>1. BankSoFar(res, n, before, s.bank_db)
    BY DEF SoFar
  <2> QED
    BY <1>4, <1>5, <2>1, RowKeepsBank
<1> HIDE DEF nextT, nextA, nextB
<1> QED
  BY <1>1, <1>3, <1>5, <1>6 DEF SoFar

(* Before the first row. *)
LEMMA NothingStored ==
    ASSUME NEW res, NEW before, IsTable(before)
    PROVE  SoFar(res, 0, before, BeforeRows(before))
<1>1. {i \in 1..0 : TRUE} = {} /\ \A i \in 1..0 : FALSE
  OBVIOUS
<1>2. TransactionsSoFar(res, 0, EmptyTable)
  <2>1. {i \in 1..0 : res[i].txn # Null /\ AccountOpen(res, 0, res[i].account)} = {}
    BY <1>1
  <2> QED
    BY <2>1, EmptyIsTable DEF TransactionsSoFar
<1>3. AccountsSoFar(res, 0, EmptyTable)
  <2>1. {i \in 1..0 : /\ res[i].account # Null
                      /\ ~AccountOpen(res, 0, res[i].account)
                      /\ UserOpen(res, 0, res[i].user)} = {}
    BY <1>1
  <2> QED
    BY <2>1, EmptyIsTable, EmptyHasNoKeys DEF AccountsSoFar, AccountsAsIn
<1>4. BankSoFar(res, 0, before, before)
  <2>1. UsersSoFar(res, 0) = {}
    BY <1>1 DEF UsersSoFar
  <2> QED
    BY <2>1 DEF BankSoFar
<1> QED
  BY <1>2, <1>3, <1>4 DEF SoFar, BeforeRows

(* store_users(): the users of the result are in memory as their rows say, *)
(* everyone else as before.                                                *)
Stored(res, before, table) ==
    /\ IsTable(table)
    /\ Keys(table) = Keys(before) \union UsersIn(res)
    /\ \A e \in Entries(table) :
           IF e.key \in UsersIn(res) THEN UserAsIn(res, e.key, e.value)
           ELSE e \in Entries(before)

LEMMA StoresUsers ==
    ASSUME NEW res, Regular(res), NEW before, IsTable(before)
    PROVE  Stored(res, before, store_users(before, res))
<1> DEFINE after == AfterRows(before, res)
           N == {n \in Nat : n <= Len(res) => SoFar(res, n, before, after[n])}
<1>1. Len(res) \in Nat /\ DOMAIN res = 1..Len(res)
  BY DEF Regular
<1>2. /\ after[0] = BeforeRows(before)
      /\ \A i \in 1..Len(res) :
             after[i] = StoreRow(after[i - 1], res[i], EndsAccount(res, i), EndsUser(res, i))
  BY <1>1, AfterRowsUnfold
<1> HIDE DEF after
<1>3. 0 \in N
  BY <1>2, NothingStored
<1>4. ASSUME NEW n \in Nat, n \in N
      PROVE  n + 1 \in N
  <2> SUFFICES ASSUME n + 1 <= Len(res)
               PROVE  SoFar(res, n + 1, before, after[n + 1])
    BY <1>4
  <2>1. SoFar(res, n, before, after[n]) /\ n < Len(res)
    BY <1>1, <1>4
  <2>2. n + 1 \in 1..Len(res) /\ (n + 1) - 1 = n
    BY <1>1
  <2>3. after[n + 1] = StoreRow(after[n], res[n + 1], EndsAccount(res, n + 1),
                                EndsUser(res, n + 1))
    BY <1>2, <2>2
  <2> QED
    BY <2>1, <2>3, RowStored
<1>5. SoFar(res, Len(res), before, after[Len(res)])
  <2>1. Nat \subseteq N
    <3> HIDE DEF N
    <3> QED
      BY <1>3, <1>4, NaturalInduction
  <2> QED
    BY <1>1, <2>1
<1>6. UsersSoFar(res, Len(res)) = UsersIn(res)
  <2>1. \A u : ~UserOpen(res, Len(res), u)
    BY <1>1 DEF UserOpen
  <2> QED
    BY <1>1, <2>1 DEF UsersSoFar, UsersIn
<1>7. store_users(before, res) = after[Len(res)].bank_db
  BY DEF store_users, after
<1> QED
  BY <1>5, <1>6, <1>7 DEF SoFar, BankSoFar, Stored

(* What the rows say of a user, as the reports see it. *)
SeenIn(res, u) ==
    [a \in AccountsIn(res, u) |-> {<<e.key, e.value>> : e \in EntriesIn(res, a)}]

LEMMA ViewAsIn ==
    ASSUME NEW res, Regular(res), NEW u, NEW user, UserAsIn(res, u, user)
    PROVE  ViewOf(user) = SeenIn(res, u)
<1>1. IsTable(user.accounts) /\ Keys(user.accounts) = AccountsIn(res, u)
  BY DEF UserAsIn, AccountsAsIn
<1>2. ASSUME NEW a \in AccountsIn(res, u)
      PROVE  UNION {{<<t.key, t.value>> : t \in Entries(account.transactions)} :
                       account \in find(user.accounts, a)}
             = {<<e.key, e.value>> : e \in EntriesIn(res, a)}
  <2>1. a \in Nat
    BY DEF AccountsIn, Regular
  <2>2. PICK e \in Entries(user.accounts) : e.key = a
    BY <1>1 DEF Keys
  <2>3. {f \in Entries(user.accounts) : f.key = a} = {e}
    BY <1>1, <2>2, OneEntryPerKey
  <2>4. find(user.accounts, a) = {e.value}
    <3>1. find(user.accounts, a) = {f.value : f \in {g \in Entries(user.accounts) : g.key = a}}
      BY <1>1, <2>1, FindsEntry
    <3> QED
      BY <2>3, <3>1
  <2>5. Entries(e.value.transactions) = EntriesIn(res, a)
    BY <2>2 DEF UserAsIn, AccountsAsIn, AccountAsIn
  <2>6. UNION {{<<t.key, t.value>> : t \in Entries(account.transactions)} :
                  account \in {e.value}}
        = {<<t.key, t.value>> : t \in Entries(e.value.transactions)}
    OBVIOUS
  <2> QED
    BY <2>4, <2>5, <2>6, Zenon
<1> QED
  BY <1>1, <1>2 DEF ViewOf, SeenIn

-----------------------------------------------------------------------------
(* ORDER BY: Before is a strict order, so that every key has a place of    *)
(* its own.                                                                *)
Triples == Nat \X Nat \X Nat

LEMMA BeforeIsOrder ==
    /\ \A x \in Triples : ~Before(x, x)
    /\ \A x, y \in Triples : x # y => Before(x, y) \/ Before(y, x)
    /\ \A x, y, z \in Triples : Before(x, y) /\ Before(y, z) => Before(x, z)
<1>1. \A x \in Triples : x[1] \in Nat /\ x[2] \in Nat /\ x[3] \in Nat
                         /\ x = <<x[1], x[2], x[3]>>
  BY DEF Triples
<1>2. \A x \in Triples : ~Before(x, x)
  BY <1>1 DEF Before
<1>3. ASSUME NEW x \in Triples, NEW y \in Triples, ~Before(x, y), ~Before(y, x)
      PROVE  x = y
  <2>1. x[1] = y[1] /\ x[2] = y[2] /\ x[3] = y[3]
    BY <1>1, <1>3 DEF Before
  <2> QED
    BY <1>1, <2>1
<1>4. ASSUME NEW x \in Triples, NEW y \in Triples, NEW z \in Triples,
             Before(x, y), Before(y, z)
      PROVE  Before(x, z)
  BY <1>1, <1>4 DEF Before
<1> QED
  BY <1>2, <1>3, <1>4

LEMMA RanksOrder ==
    ASSUME NEW keys \in SUBSET Triples, IsFiniteSet(keys)
    PROVE  /\ \A x \in keys : Rank(keys, x) \in 0..(Cardinality(keys) - 1)
           /\ \A x, y \in keys : Before(x, y) => Rank(keys, x) < Rank(keys, y)
<1> DEFINE Below(x) == {y \in keys : Before(y, x)}
<1>0. Cardinality(keys) \in Nat
  BY FS_CardinalityType
<1>1. ASSUME NEW x \in keys
      PROVE  /\ IsFiniteSet(Below(x)) /\ Cardinality(Below(x)) \in Nat
             /\ Rank(keys, x) = Cardinality(Below(x))
  BY FS_Subset, FS_CardinalityType DEF Rank
<1>2. ASSUME NEW x \in keys
      PROVE  Rank(keys, x) \in 0..(Cardinality(keys) - 1)
  <2>1. Below(x) \in SUBSET (keys \ {x})
    BY BeforeIsOrder
  <2>2. IsFiniteSet(keys \ {x}) /\ Cardinality(keys \ {x}) = Cardinality(keys) - 1
    BY FS_RemoveElement
  <2> HIDE DEF Below
  <2>3. Cardinality(Below(x)) <= Cardinality(keys) - 1
    BY <2>1, <2>2, FS_Subset
  <2> QED
    BY <1>0, <1>1, <2>3
<1>3. ASSUME NEW x \in keys, NEW y \in keys, Before(x, y)
      PROVE  Rank(keys, x) < Rank(keys, y)
  <2>1. Below(x) \in SUBSET (Below(y) \ {x}) /\ x \in Below(y)
    BY <1>3, BeforeIsOrder
  <2> HIDE DEF Below
  <2>2. IsFiniteSet(Below(y) \ {x})
        /\ Cardinality(Below(y) \ {x}) = Cardinality(Below(y)) - 1
    BY <1>1, <2>1, FS_RemoveElement
  <2>3. Cardinality(Below(x)) <= Cardinality(Below(y)) - 1
    BY <2>1, <2>2, FS_Subset
  <2> QED
    BY <1>1, <2>3
<1> QED
  BY <1>2, <1>3

(* OrderBy returns every key once, in order. *)
LEMMA OrderByOrders ==
    ASSUME NEW keys \in SUBSET Triples, IsFiniteSet(keys)
    PROVE  LET n == Cardinality(keys)
               ordered == OrderBy(keys)
           IN  /\ n \in Nat /\ DOMAIN ordered = 1..n
               /\ \A i \in 1..n : ordered[i] \in keys
               /\ \A x \in keys : \E i \in 1..n : ordered[i] = x
               /\ \A i, j \in 1..n : i < j => Before(ordered[i], ordered[j])
<1> DEFINE n == Cardinality(keys)
           ordered == OrderBy(keys)
           place == [x \in keys |-> Rank(keys, x) + 1]
<1>1. n \in Nat
  BY FS_CardinalityType
<1>2. /\ \A x \in keys : Rank(keys, x) \in 0..(n - 1)
      /\ \A x, y \in keys : Before(x, y) => Rank(keys, x) < Rank(keys, y)
  BY RanksOrder
<1> HIDE DEF n
<1>3. ASSUME NEW x \in keys, NEW y \in keys, Rank(keys, x) = Rank(keys, y)
      PROVE  x = y
  BY <1>1, <1>2, <1>3, BeforeIsOrder
<1>4. place \in Injection(keys, 1..n)
  <2>1. \A x \in keys : place[x] \in 1..n
    BY <1>1, <1>2
  <2>2. \A x, y \in keys : place[x] = place[y] => x = y
    BY <1>1, <1>2, <1>3
  <2>3. place \in [keys -> 1..n]
    BY <2>1
  <2> HIDE DEF place
  <2> QED
    BY <2>2, <2>3 DEF Injection, IsInjective
<1>5. place \in Surjection(keys, 1..n)
  <2>1. IsFiniteSet(1..n) /\ Cardinality(1..n) = n
    BY <1>1, FS_Interval
  <2> HIDE DEF place
  <2> QED
    BY <1>4, <2>1, FS_Injection DEF n
<1>6. ASSUME NEW i \in 1..n
      PROVE  ordered[i] \in keys /\ Rank(keys, ordered[i]) = i - 1
  <2>1. PICK x \in keys : place[x] = i
    BY <1>5 DEF Surjection
  <2>2. Rank(keys, x) = i - 1
    BY <1>1, <1>2, <2>1
  <2>3. ordered[i] = CHOOSE y \in keys : Rank(keys, y) = i - 1
    BY DEF OrderBy, n
  <2> QED
    BY <2>2, <2>3
<1>7. DOMAIN ordered = 1..n
  BY DEF OrderBy, n
<1> HIDE DEF ordered
<1>8. ASSUME NEW x \in keys
      PROVE  \E i \in 1..n : ordered[i] = x
  <2>1. Rank(keys, x) + 1 \in 1..n
    BY <1>1, <1>2
  <2>2. Rank(keys, ordered[Rank(keys, x) + 1]) = Rank(keys, x)
    BY <1>1, <1>2, <1>6, <2>1
  <2>3. ordered[Rank(keys, x) + 1] = x
    BY <1>3, <1>6, <2>1, <2>2
  <2> QED
    BY <2>1, <2>3
<1>9. ASSUME NEW i \in 1..n, NEW j \in 1..n, i < j
      PROVE  Before(ordered[i], ordered[j])
  <2> DEFINE x == ordered[i]
             y == ordered[j]
  <2>1. x \in keys /\ y \in keys /\ Rank(keys, x) < Rank(keys, y)
    BY <1>1, <1>6, <1>9
  <2> HIDE DEF x, y
  <2>2. x # y /\ ~Before(y, x)
    BY <1>1, <1>2, <2>1
  <2>3. Before(x, y)
    BY <2>1, <2>2, BeforeIsOrder
  <2> QED
    BY <2>3 DEF x, y
<1> QED
  BY <1>1, <1>6, <1>7, <1>8, <1>9 DEF n, ordered

-----------------------------------------------------------------------------
(* The tables' rows name rows that are there. *)
TablesInv ==
    /\ numUsers \in Nat
    /\ owner \in Seq(1..numUsers)
    /\ txns \in Seq(ToSet(txns))
    /\ \A i \in DOMAIN txns : txns[i].account_id \in DOMAIN owner
    /\ online \in SUBSET Users

(* What is in memory is what was read. *)
MemoryInv ==
    /\ IsTable(bank_db)
    /\ Keys(bank_db) \subseteq Users /\ Keys(bank_db) \subseteq DOMAIN grouped
    /\ \A e \in Entries(bank_db) : IsUser(e.value) /\ ViewOf(e.value) = grouped[e.key]

(* Only the user who is logging in, and one whose last login's commit was  *)
(* in doubt, may be on line in the table alone.                            *)
StatusInv ==
    \A e \in Entries(bank_db) :
        /\ e.value.login_status => e.key \in online
        /\ e.key # login.user \/ login.is_refresh =>
              (e.key \in online \ doubted => e.value.login_status)

LoginInv ==
    /\ login \in [stage : {"idle", "verified", "read"}, user : Nat, is_refresh : BOOLEAN,
                  res : {login.res}, saw : {login.saw}]
    /\ login.stage = "idle" => login = NoLogin
    /\ login.stage # "idle" => /\ login.user \in Users
                               /\ login.is_refresh \/ login.user \in online
    /\ login.stage = "verified" => login.res = <<>>
    /\ login.stage = "read" =>
           /\ Regular(login.res)
           /\ UsersIn(login.res) = {login.user}
           /\ \A i \in DOMAIN login.res :
                  login.res[i].login_status = (login.user \in online)
           /\ login.saw = SeenIn(login.res, login.user)

(* What a snapshot has got from the buckets it has passed. *)
SnapshotInv ==
    LET got == snapshot.got
    IN  /\ snapshot \in [stage : {"idle", "running", "sent"}, bucket : Nat,
                         got : Seq(Nat), before : SUBSET Nat]
        /\ snapshot.stage = "running" => snapshot.bucket \in Buckets
        /\ snapshot.stage = "sent" => snapshot.bucket = BucketCount
        /\ snapshot.before \subseteq Keys(bank_db)
        /\ \A k \in snapshot.before : bucketIndex(k) < snapshot.bucket => k \in ToSet(got)
        /\ \A i \in DOMAIN got : got[i] \in Keys(bank_db)
                                 /\ bucketIndex(got[i]) < snapshot.bucket
        /\ \A i, j \in DOMAIN got : got[i] = got[j] => i = j

ReloadInv == TablesInv /\ MemoryInv /\ StatusInv /\ LoginInv /\ SnapshotInv

-----------------------------------------------------------------------------
(* The query.                                                              *)
LEMMA FiniteTriples ==
    ASSUME NEW A, NEW B, NEW C, IsFiniteSet(A), IsFiniteSet(B), IsFiniteSet(C)
    PROVE  IsFiniteSet(A \X B \X C)
<1> DEFINE P == (A \X B) \X C
           T == A \X B \X C
           f == [p \in P |-> <<p[1][1], p[1][2], p[2]>>]
<1>1. IsFiniteSet(P)
  BY FS_Product
<1>2. f \in [P -> T]
  OBVIOUS
<1>3. ASSUME NEW t \in T
      PROVE  \E p \in P : f[p] = t
  <2>1. <<<<t[1], t[2]>>, t[3]>> \in P
    OBVIOUS
  <2>2. f[<<<<t[1], t[2]>>, t[3]>>] = t
    BY <2>1
  <2> QED
    BY <2>1, <2>2
<1> HIDE DEF f, P, T
<1>4. f \in Surjection(P, T)
  BY <1>2, <1>3 DEF Surjection
<1>5. IsFiniteSet(T)
  BY <1>1, <1>4, FS_Surjection
<1> QED
  BY <1>5 DEF T

LEMMA JoinedKeys ==
    ASSUME TablesInv, NEW users \in SUBSET Users
    PROVE  /\ Joined(users) \in SUBSET Triples
           /\ IsFiniteSet(Joined(users))
           /\ \A u \in users : \A a \in LeftJoin(AccountsOf(u)) :
                  \A t \in LeftJoin(TransactionsOf(a)) : <<u, a, t>> \in Joined(users)
           /\ \A x \in Joined(users) :
                  /\ x[1] \in users
                  /\ x[2] # Null => x[2] \in AccountsOf(x[1])
                  /\ x[3] # Null => x[3] \in TransactionsOf(x[2]) /\ x[2] # Null
<1> DEFINE A == 0..Len(owner)
           T == 0..Len(txns)
<1>1. Len(owner) \in Nat /\ DOMAIN owner = 1..Len(owner) /\ Len(txns) \in Nat
      /\ DOMAIN txns = 1..Len(txns)
  BY DEF TablesInv
<1>2. ASSUME NEW x \in Joined(users)
      PROVE  \E u \in users : \E a \in LeftJoin(AccountsOf(u)) :
                 \E t \in LeftJoin(TransactionsOf(a)) : x = <<u, a, t>>
  BY DEF Joined
<1>3. \A u \in users : \A a \in LeftJoin(AccountsOf(u)) :
          \A t \in LeftJoin(TransactionsOf(a)) : <<u, a, t>> \in Joined(users)
  BY DEF Joined
<1>4. \A u : \A a \in LeftJoin(AccountsOf(u)) : a \in A /\ (a # Null => a \in AccountsOf(u))
  BY <1>1 DEF LeftJoin, AccountsOf, Null
<1>5. \A a : \A t \in LeftJoin(TransactionsOf(a)) :
          t \in T /\ (t # Null => t \in TransactionsOf(a) /\ a # Null)
  <2>1. \A a : TransactionsOf(a) \subseteq T
    BY <1>1 DEF TransactionsOf
  <2>2. \A t \in TransactionsOf(Null) : FALSE
    BY <1>1 DEF TransactionsOf, Null, TablesInv
  <2>3. Null \in T
    BY <1>1 DEF Null
  <2> HIDE DEF T
  <2> QED
    BY <2>1, <2>2, <2>3 DEF LeftJoin
<1>6. ASSUME NEW x \in Joined(users)
      PROVE  /\ x \in Users \X A \X T
             /\ x[1] \in users
             /\ x[2] # Null => x[2] \in AccountsOf(x[1])
             /\ x[3] # Null => x[3] \in TransactionsOf(x[2]) /\ x[2] # Null
  <2>1. PICK u \in users : \E a \in LeftJoin(AccountsOf(u)) :
            \E t \in LeftJoin(TransactionsOf(a)) : x = <<u, a, t>>
    BY <1>2
  <2>2. PICK a \in LeftJoin(AccountsOf(u)) :
            \E t \in LeftJoin(TransactionsOf(a)) : x = <<u, a, t>>
    BY <2>1
  <2>3. PICK t \in LeftJoin(TransactionsOf(a)) : x = <<u, a, t>>
    BY <2>2
  <2> HIDE DEF A, T
  <2>4. a \in A /\ t \in T /\ u \in Users /\ x[1] = u /\ x[2] = a /\ x[3] = t
    BY <1>4, <1>5, <2>3
  <2> QED
    BY <1>4, <1>5, <2>3, <2>4
<1>7. IsFiniteSet(Users \X A \X T)
  <2>1. IsFiniteSet(Users) /\ IsFiniteSet(A) /\ IsFiniteSet(T)
    BY <1>1, FS_Interval DEF Users, TablesInv
  <2> HIDE DEF A, T
  <2> QED
    BY <2>1, FiniteTriples
<1>8. Users \subseteq Nat /\ A \subseteq Nat /\ T \subseteq Nat
  BY <1>1 DEF Users, TablesInv
<1> HIDE DEF A, T
<1>9. Joined(users) \in SUBSET (Users \X A \X T)
  BY <1>6
<1>10. IsFiniteSet(Joined(users))
  BY <1>7, <1>9, FS_Subset
<1>11. \A x \in Users \X A \X T : x \in Triples
  BY <1>8 DEF Triples
<1> QED
  BY <1>3, <1>6, <1>9, <1>10, <1>11

(* Its rows, in terms of the ordered keys. *)
LEMMA QueryRows ==
    ASSUME TablesInv, NEW users \in SUBSET Users
    PROVE  LET keys == Joined(users)
               ordered == OrderBy(keys)
               n == Cardinality(keys)
               res == Query(users)
           IN  /\ res \in Seq(ToSet(res)) /\ Len(res) = n /\ DOMAIN res = 1..n
               /\ \A i \in 1..n : res[i] = Row(ordered[i])
<1> DEFINE keys == Joined(users)
           ordered == OrderBy(keys)
           n == Cardinality(keys)
           rows == [i \in DOMAIN ordered |-> Row(ordered[i])]
           S == {Row(x) : x \in keys}
<1>1. n \in Nat /\ DOMAIN ordered = 1..n /\ \A i \in 1..n : ordered[i] \in keys
  BY JoinedKeys, OrderByOrders
<1>2. Query(users) = <<>> \o rows
  BY DEF Query
<1> HIDE DEF keys, ordered, n
<1>3. rows \in [1..n -> S]
  BY <1>1
<1>4. rows \in Seq(S)
  <2> HIDE DEF rows, S
  <2> QED
    BY <1>1, <1>3, SeqDef
<1>5. \A i \in 1..n : rows[i] = Row(ordered[i])
  BY <1>1
<1> HIDE DEF rows, S
<1>6. Query(users) = rows
  BY <1>2, <1>4, ConcatEmptySeq
<1>7. DOMAIN rows = 1..n /\ Len(rows) = n
  BY <1>1, <1>3, <1>4
<1>8. rows \in Seq(ToSet(rows))
  BY <1>4, SeqOfItsElements
<1> QED
  BY <1>5, <1>6, <1>7, <1>8 DEF keys, ordered, n

LEMMA QueryIsRegular ==
    ASSUME TablesInv, NEW users \in SUBSET Users
    PROVE  Regular(Query(users))
<1> DEFINE keys == Joined(users)
           ordered == OrderBy(keys)
           n == Cardinality(keys)
           res == Query(users)
<1>1. /\ keys \in SUBSET Triples
      /\ \A x \in keys : /\ x[2] # Null => x[2] \in AccountsOf(x[1])
                         /\ x[3] # Null => x[3] \in TransactionsOf(x[2]) /\ x[2] # Null
  BY JoinedKeys
<1>2. /\ n \in Nat /\ \A i \in 1..n : ordered[i] \in keys
      /\ \A i, j \in 1..n : i < j => Before(ordered[i], ordered[j])
  BY JoinedKeys, OrderByOrders
<1>3. /\ res \in Seq(ToSet(res)) /\ Len(res) = n /\ DOMAIN res = 1..n
      /\ \A i \in 1..n : res[i] = Row(ordered[i])
  BY QueryRows
<1> HIDE DEF keys, ordered, n, res
<1>4. ASSUME NEW i \in DOMAIN res
      PROVE  /\ ordered[i] \in keys
             /\ res[i].user = ordered[i][1] /\ res[i].account = ordered[i][2]
             /\ res[i].txn = ordered[i][3]
             /\ res[i].login_status = (ordered[i][1] \in online)
             /\ res[i].data = IF ordered[i][3] = Null THEN <<>> ELSE txns[ordered[i][3]]
             /\ res[i].user \in Nat /\ res[i].account \in Nat /\ res[i].txn \in Nat
  <2>1. ordered[i] \in keys /\ res[i] = Row(ordered[i]) /\ ordered[i] \in Triples
    BY <1>1, <1>2, <1>3
  <2>2. ordered[i][1] \in Nat /\ ordered[i][2] \in Nat /\ ordered[i][3] \in Nat
    BY <2>1 DEF Triples
  <2> QED
    BY <2>1, <2>2 DEF Row
<1>5. ASSUME NEW i \in DOMAIN res, NEW j \in DOMAIN res, i <= j
      PROVE  /\ res[i].user <= res[j].user
             /\ res[i].user = res[j].user => res[i].account <= res[j].account
  <2>1. CASE i = j
    BY <1>4, <2>1
  <2>2. CASE i < j
    <3>1. Before(ordered[i], ordered[j])
      BY <1>2, <1>3, <2>2
    <3> QED
      BY <1>4, <3>1 DEF Before
  <2> QED
    BY <1>3, <1>5, <2>1, <2>2
<1>6. Consistent(res)
  <2> SUFFICES ASSUME NEW i \in DOMAIN res, NEW j \in DOMAIN res
               PROVE  /\ res[i].account = res[j].account /\ res[i].account # Null =>
                             res[i].user = res[j].user
                      /\ res[i].txn = res[j].txn => res[i].data = res[j].data
                      /\ res[i].txn # Null => res[i].account # Null
                      /\ res[i].user = res[j].user => res[i].login_status = res[j].login_status
    BY DEF Consistent
  <2>1. \A k \in DOMAIN res : res[k].account # Null => owner[res[k].account] = res[k].user
    BY <1>1, <1>4 DEF AccountsOf
  <2>2. res[i].account = res[j].account /\ res[i].account # Null => res[i].user = res[j].user
    BY <2>1
  <2>3. res[i].txn # Null => res[i].account # Null
    BY <1>1, <1>4
  <2>4. res[i].txn = res[j].txn => res[i].data = res[j].data
    BY <1>4
  <2>5. res[i].user = res[j].user => res[i].login_status = res[j].login_status
    BY <1>4
  <2> QED
    BY <2>2, <2>3, <2>4, <2>5
<1>7. Together(res)
  <2> SUFFICES ASSUME NEW i \in DOMAIN res, NEW j \in DOMAIN res, NEW k \in DOMAIN res,
                      i <= j, j <= k
               PROVE  /\ res[i].user = res[k].user => res[j].user = res[i].user
                      /\ res[i].account = res[k].account /\ res[i].account # Null =>
                             res[j].account = res[i].account
    BY DEF Together
  <2>1. /\ res[i].user \in Nat /\ res[j].user \in Nat /\ res[k].user \in Nat
        /\ res[i].account \in Nat /\ res[j].account \in Nat /\ res[k].account \in Nat
    BY <1>4
  <2>2. /\ res[i].user <= res[j].user /\ res[j].user <= res[k].user
        /\ res[i].user = res[j].user => res[i].account <= res[j].account
        /\ res[j].user = res[k].user => res[j].account <= res[k].account
    BY <1>5
  <2>3. res[i].user = res[k].user => res[j].user = res[i].user
    BY <2>1, <2>2
  <2>4. res[i].account = res[k].account /\ res[i].account # Null => res[i].user = res[k].user
    BY <1>6 DEF Consistent
  <2>5. res[i].account = res[k].account /\ res[i].account # Null =>
            res[j].account = res[i].account
    BY <2>1, <2>2, <2>3, <2>4
  <2> QED
    BY <2>3, <2>5
<1>8. Regular(res)
  BY <1>3, <1>4, <1>6, <1>7 DEF Regular
<1> QED
  BY <1>8 DEF res

(* It says of its users what the tables say. *)
LEMMA QuerySees ==
    ASSUME TablesInv, NEW users \in SUBSET Users
    PROVE  /\ UsersIn(Query(users)) = users
           /\ \A i \in DOMAIN Query(users) :
                  Query(users)[i].login_status = (Query(users)[i].user \in online)
           /\ \A u \in users : SeenIn(Query(users), u) = GroupingOf(u)
<1> DEFINE keys == Joined(users)
           ordered == OrderBy(keys)
           n == Cardinality(keys)
           res == Query(users)
<1>1. /\ keys \in SUBSET Triples
      /\ \A u \in users : \A a \in LeftJoin(AccountsOf(u)) :
             \A t \in LeftJoin(TransactionsOf(a)) : <<u, a, t>> \in keys
      /\ \A x \in keys : /\ x[1] \in users
                         /\ x[2] # Null => x[2] \in AccountsOf(x[1])
                         /\ x[3] # Null => x[3] \in TransactionsOf(x[2]) /\ x[2] # Null
  BY JoinedKeys
<1>2. /\ n \in Nat /\ \A i \in 1..n : ordered[i] \in keys
      /\ \A x \in keys : \E i \in 1..n : ordered[i] = x
  BY JoinedKeys, OrderByOrders
<1>3. DOMAIN res = 1..n /\ \A i \in 1..n : res[i] = Row(ordered[i])
  BY QueryRows
<1> HIDE DEF keys, ordered, n, res
<1>4. ASSUME NEW i \in DOMAIN res
      PROVE  /\ ordered[i] \in keys
             /\ res[i].user = ordered[i][1] /\ res[i].account = ordered[i][2]
             /\ res[i].txn = ordered[i][3]
             /\ res[i].login_status = (ordered[i][1] \in online)
             /\ res[i].data = IF ordered[i][3] = Null THEN <<>> ELSE txns[ordered[i][3]]
  <2>1. ordered[i] \in keys /\ res[i] = Row(ordered[i])
    BY <1>2, <1>3
  <2> QED
    BY <2>1 DEF Row
<1>5. \A ids : \E m : m \in LeftJoin(ids)
  BY DEF LeftJoin
<1>6. ASSUME NEW u \in users, NEW a \in LeftJoin(AccountsOf(u)),
             NEW t \in LeftJoin(TransactionsOf(a))
      PROVE  \E i \in DOMAIN res : res[i].user = u /\ res[i].account = a /\ res[i].txn = t
  <2>1. <<u, a, t>> \in keys
    BY <1>1
  <2>2. PICK i \in 1..n : ordered[i] = <<u, a, t>>
    BY <1>2, <2>1
  <2> QED
    BY <1>3, <1>4, <2>2
<1>7. UsersIn(res) = users
  <2>1. \A u \in UsersIn(res) : u \in users
    BY <1>1, <1>4 DEF UsersIn
  <2>2. ASSUME NEW u \in users
        PROVE  u \in UsersIn(res)
    <3>1. PICK a : a \in LeftJoin(AccountsOf(u))
      BY <1>5
    <3>2. PICK t : t \in LeftJoin(TransactionsOf(a))
      BY <1>5
    <3>3. \E i \in DOMAIN res : res[i].user = u
      BY <1>6, <3>1, <3>2
    <3> QED
      BY <3>3 DEF UsersIn
  <2> QED
    BY <2>1, <2>2
<1>8. ASSUME NEW u \in users
      PROVE  SeenIn(res, u) = GroupingOf(u)
  <2>1. ASSUME NEW a \in AccountsOf(u)
        PROVE  a \in LeftJoin(AccountsOf(u)) /\ a # Null /\ owner[a] = u
    BY DEF LeftJoin, AccountsOf, TablesInv, Null
  <2>2. ASSUME NEW a \in AccountsOf(u)
        PROVE  a \in AccountsIn(res, u)
    <3>1. PICK t : t \in LeftJoin(TransactionsOf(a))
      BY <1>5
    <3>2. \E i \in DOMAIN res : res[i].user = u /\ res[i].account = a
      BY <1>6, <2>1, <3>1
    <3> QED
      BY <2>1, <3>2 DEF AccountsIn
  <2>3. ASSUME NEW a \in AccountsIn(res, u)
        PROVE  a \in AccountsOf(u)
    BY <1>1, <1>4 DEF AccountsIn
  <2>4. ASSUME NEW a \in AccountsOf(u)
        PROVE  {<<e.key, e.value>> : e \in EntriesIn(res, a)}
               = {<<i, txns[i]>> : i \in TransactionsOf(a)}
    <3>1. ASSUME NEW e \in EntriesIn(res, a)
          PROVE  e.key \in TransactionsOf(a) /\ e.value = txns[e.key]
      <4>1. PICK i \in DOMAIN res : /\ res[i].account = a /\ res[i].txn # Null
                                    /\ e = EntryOf(res[i])
        BY DEF EntriesIn
      <4>2. e.key = res[i].txn /\ e.value = res[i].data
        BY <4>1 DEF EntryOf, NewTransaction
      <4>3. res[i].txn \in TransactionsOf(a) /\ res[i].data = txns[res[i].txn]
        BY <1>1, <1>4, <4>1
      <4> QED
        BY <4>2, <4>3
    <3>2. ASSUME NEW t \in TransactionsOf(a)
          PROVE  \E e \in EntriesIn(res, a) : e.key = t /\ e.value = txns[t]
      <4>1. t \in LeftJoin(TransactionsOf(a)) /\ t # Null
        BY DEF LeftJoin, TransactionsOf, TablesInv, Null
      <4>2. PICK i \in DOMAIN res : res[i].user = u /\ res[i].account = a /\ res[i].txn = t
        BY <1>6, <2>1, <4>1
      <4>3. EntryOf(res[i]) \in EntriesIn(res, a)
        BY <4>1, <4>2 DEF EntriesIn
      <4>4. EntryOf(res[i]).key = t /\ EntryOf(res[i]).value = txns[t]
        BY <1>4, <4>1, <4>2 DEF EntryOf, NewTransaction
      <4> QED
        BY <4>3, <4>4
    <3>3. \A p \in {<<e.key, e.value>> : e \in EntriesIn(res, a)} :
              p \in {<<i, txns[i]>> : i \in TransactionsOf(a)}
      BY <3>1
    <3>4. \A p \in {<<i, txns[i]>> : i \in TransactionsOf(a)} :
              p \in {<<e.key, e.value>> : e \in EntriesIn(res, a)}
      BY <3>2
    <3> QED
      BY <3>3, <3>4
  <2>5. AccountsIn(res, u) = AccountsOf(u)
    BY <2>2, <2>3
  <2> QED
    BY <2>4, <2>5 DEF SeenIn, GroupingOf
<1> QED
  BY <1>4, <1>7, <1>8 DEF res

-----------------------------------------------------------------------------
(* The constructor of Load_DB, and what a login stores.                    *)
LEMMA FoundIsEntry ==
    ASSUME NEW table, IsTable(table), NEW k \in Nat, NEW v \in find(table, k)
    PROVE  \E e \in Entries(table) : e.key = k /\ e.value = v
BY FindsEntry

LEMMA KeysAreNaturals ==
    ASSUME NEW table, IsTable(table)
    PROVE  Keys(table) \subseteq Nat
BY EntryPlace DEF Keys, IsEntry

LEMMA FreshLoadIsGrouping ==
    ASSUME TablesInv
    PROVE  /\ IsTable(FreshLoad)
           /\ Keys(FreshLoad) = Users
           /\ \A e \in Entries(FreshLoad) :
                  /\ e.key \in Users
                  /\ IsUser(e.value)
                  /\ ViewOf(e.value) = GroupingOf(e.key)
                  /\ e.value.login_status = (e.key \in online)
<1> DEFINE res == Query(Users)
           fresh == store_users(EmptyTable, res)
<1>1. Regular(res)
  BY QueryIsRegular
<1>2. /\ UsersIn(res) = Users
      /\ \A i \in DOMAIN res : res[i].login_status = (res[i].user \in online)
      /\ \A u \in Users : SeenIn(res, u) = GroupingOf(u)
  BY QuerySees
<1> HIDE DEF res
<1>3. Stored(res, EmptyTable, fresh)
  BY <1>1, StoresUsers, EmptyIsTable
<1>4. FreshLoad = fresh
  BY DEF FreshLoad, res
<1> HIDE DEF fresh
<1>5. IsTable(fresh) /\ Keys(fresh) = Users
  BY <1>2, <1>3, EmptyHasNoKeys DEF Stored
<1>6. ASSUME NEW e \in Entries(fresh)
      PROVE  /\ e.key \in Users
             /\ IsUser(e.value)
             /\ ViewOf(e.value) = GroupingOf(e.key)
             /\ e.value.login_status = (e.key \in online)
  <2>1. e.key \in Users
    BY <1>5 DEF Keys
  <2>2. UserAsIn(res, e.key, e.value)
    BY <1>2, <1>3, <2>1 DEF Stored
  <2>3. ViewOf(e.value) = GroupingOf(e.key)
    BY <1>1, <1>2, <2>1, <2>2, ViewAsIn
  <2>4. PICK i \in DOMAIN res : res[i].user = e.key
    BY <1>2, <2>1 DEF UsersIn
  <2> QED
    BY <1>2, <2>1, <2>2, <2>3, <2>4 DEF UserAsIn
<1> QED
  BY <1>4, <1>5, <1>6

LEMMA NoRows ==
    Regular(<<>>) /\ UsersIn(<<>>) = {}
<1>1. <<>> \in Seq(ToSet(<<>>)) /\ DOMAIN <<>> = {}
  BY DEF ToSet
<1> QED
  BY <1>1 DEF Regular, Together, Consistent, UsersIn

LEMMA StatusSet ==
    ASSUME NEW user, NEW status, NEW accounts,
           user = [login_status |-> status, accounts |-> accounts]
    PROVE  [user EXCEPT !.login_status = TRUE] = [login_status |-> TRUE, accounts |-> accounts]
<1> DEFINE new == [user EXCEPT !.login_status = TRUE]
<1>1. user \in [login_status : {status}, accounts : {accounts}]
  OBVIOUS
<1>2. new \in [login_status : {TRUE}, accounts : {accounts}]
  BY <1>1
<1> HIDE DEF new
<1>3. new = [login_status |-> new.login_status, accounts |-> new.accounts]
  BY <1>2
<1>4. new.login_status = TRUE /\ new.accounts = accounts
  BY <1>2
<1>5. new = [login_status |-> TRUE, accounts |-> accounts]
  BY <1>3, <1>4, Zenon
<1> QED
  BY <1>5 DEF new

(* set_login() changes the status of one user and nothing else. *)
LEMMA SetsLogin ==
    ASSUME NEW table, IsTable(table), NEW u \in Keys(table),
           \A e \in Entries(table) : IsUser(e.value)
    PROVE  /\ IsTable(SetLogin(table, u))
           /\ Keys(SetLogin(table, u)) = Keys(table)
           /\ \A e \in Entries(SetLogin(table, u)) :
                  /\ IsUser(e.value)
                  /\ e.key = u => e.value.login_status = TRUE
                  /\ e.key # u => e \in Entries(table)
                  /\ \E f \in Entries(table) : /\ f.key = e.key
                                               /\ ViewOf(f.value) = ViewOf(e.value)
<1>1. u \in Nat
  BY KeysAreNaturals
<1>2. PICK f \in Entries(table) : f.key = u
  BY DEF Keys
<1>3. {g \in Entries(table) : g.key = u} = {f}
  BY <1>2, OneEntryPerKey
<1>4. find(table, u) = {f.value}
  <2>1. find(table, u) = {g.value : g \in {h \in Entries(table) : h.key = u}}
    BY <1>1, FindsEntry
  <2> QED
    BY <1>3, <2>1
<1> DEFINE user == [f.value EXCEPT !.login_status = TRUE]
           new == SetLogin(table, u)
<1>5. new = insert(table, u, user)
  <2>1. (CHOOSE x \in {f.value} : TRUE) = f.value
    OBVIOUS
  <2> QED
    BY <1>4, <2>1 DEF SetLogin
<1>6. IsUser(user) /\ user.login_status = TRUE /\ user.accounts = f.value.accounts
  <2> DEFINE status == f.value.login_status
             accounts == f.value.accounts
  <2>1. f.value = [login_status |-> status, accounts |-> accounts]
    BY DEF IsUser
  <2> HIDE DEF status, accounts
  <2>2. user = [login_status |-> TRUE, accounts |-> accounts]
    BY <2>1, StatusSet
  <2> HIDE DEF user
  <2> QED
    BY <2>2 DEF IsUser, accounts
<1>7. ViewOf(user) = ViewOf(f.value)
  <2> HIDE DEF user
  <2> QED
    BY <1>6 DEF ViewOf
<1> HIDE DEF user, new
<1>8. /\ IsTable(new)
      /\ Entries(new) = {e \in Entries(table) : e.key # u}
                        \union {[key |-> u, value |-> user]}
      /\ Keys(new) = Keys(table)
  <2>1. Keys(new) = Keys(table) \union {u}
    BY <1>1, <1>5, InsertsKey
  <2>2. Keys(new) = Keys(table)
    BY <2>1
  <2> QED
    BY <1>1, <1>5, <2>2, InsertsEntry
<1>9. ASSUME NEW e \in Entries(new)
      PROVE  /\ IsUser(e.value)
             /\ e.key = u => e.value.login_status = TRUE
             /\ e.key # u => e \in Entries(table)
             /\ \E g \in Entries(table) : /\ g.key = e.key
                                          /\ ViewOf(g.value) = ViewOf(e.value)
  <2>1. CASE e = [key |-> u, value |-> user]
    BY <1>2, <1>6, <1>7, <2>1
  <2>2. CASE e \in Entries(table) /\ e.key # u
    BY <2>2
  <2> QED
    BY <1>8, <2>1, <2>2
<1> QED
  BY <1>8, <1>9 DEF new

-----------------------------------------------------------------------------
(* The invariant, action by action.                                        *)

(* When the program has just loaded the tables. *)
LEMMA LoadedMemory ==
    ASSUME TablesInv, NEW table, table = FreshLoad,
           NEW seen, seen = [u \in Users |-> GroupingOf(u)]
    PROVE  /\ IsTable(table)
           /\ Keys(table) = Users /\ Keys(table) \subseteq DOMAIN seen
           /\ \A e \in Entries(table) : /\ IsUser(e.value) /\ ViewOf(e.value) = seen[e.key]
                                        /\ e.value.login_status = (e.key \in online)
<1> DEFINE fresh == FreshLoad
<1>1. /\ IsTable(fresh) /\ Keys(fresh) = Users
      /\ \A e \in Entries(fresh) : /\ e.key \in Users /\ IsUser(e.value)
                                   /\ ViewOf(e.value) = GroupingOf(e.key)
                                   /\ e.value.login_status = (e.key \in online)
  BY FreshLoadIsGrouping
<1>2. table = fresh
  OBVIOUS
<1> HIDE DEF fresh
<1> QED
  BY <1>1, <1>2

LEMMA IdleLogin ==
    /\ NoLogin \in [stage : {"idle", "verified", "read"}, user : Nat, is_refresh : BOOLEAN,
                    res : {<<>>}, saw : {<<>>}]
    /\ NoLogin.stage = "idle" /\ NoLogin.user = 0 /\ NoLogin.is_refresh = FALSE
    /\ NoLogin.res = <<>> /\ NoLogin.saw = <<>>
BY DEF NoLogin, Null

LEMMA IdleSnapshot ==
    /\ NoSnapshot \in [stage : {"idle", "running", "sent"}, bucket : Nat,
                       got : Seq(Nat), before : SUBSET Nat]
    /\ NoSnapshot.stage = "idle" /\ NoSnapshot.bucket = 0 /\ NoSnapshot.got = <<>>
    /\ NoSnapshot.before = {}
BY DEF NoSnapshot

LEMMA IdleInvs ==
    /\ login = NoLogin => LoginInv
    /\ snapshot = NoSnapshot => SnapshotInv
<1>1. ASSUME login = NoLogin
      PROVE  LoginInv
  BY <1>1, IdleLogin DEF LoginInv
<1>2. ASSUME snapshot = NoSnapshot
      PROVE  SnapshotInv
  <2>1. \A i \in DOMAIN <<>> : FALSE
    OBVIOUS
  <2> QED
    BY <1>2, <2>1, IdleSnapshot DEF SnapshotInv
<1> QED
  BY <1>1, <1>2

LEMMA InitReload == RLInit => ReloadInv
<1> SUFFICES ASSUME RLInit
             PROVE  ReloadInv
  OBVIOUS
<1>1. TablesInv
  <2>1. txns \in Seq(ToSet(txns)) /\ \A i \in DOMAIN txns : FALSE
    BY DEF RLInit, ToSet
  <2> QED
    BY <2>1, TablesAssumption DEF RLInit, TablesInv
<1>2. LoginInv /\ SnapshotInv
  BY IdleInvs DEF RLInit
<1>3. /\ IsTable(bank_db)
      /\ Keys(bank_db) = Users /\ Keys(bank_db) \subseteq DOMAIN grouped
      /\ \A e \in Entries(bank_db) : /\ IsUser(e.value) /\ ViewOf(e.value) = grouped[e.key]
                                     /\ e.value.login_status = (e.key \in online)
  BY <1>1, LoadedMemory DEF RLInit
<1>4. MemoryInv /\ StatusInv
  BY <1>3 DEF MemoryInv, StatusInv
<1> QED
  BY <1>1, <1>2, <1>4 DEF ReloadInv

(* Tables that grow leave the rest alone. *)
LEMMA GrownTables ==
    ASSUME ReloadInv, TablesInv', Users \subseteq Users',
           UNCHANGED <<online, bank_db, login, snapshot, grouped, doubted>>
    PROVE  ReloadInv'
<1>1. MemoryInv'
  BY DEF ReloadInv, MemoryInv
<1>2. StatusInv'
  BY DEF ReloadInv, StatusInv
<1>3. LoginInv'
  BY DEF ReloadInv, LoginInv
<1>4. SnapshotInv'
  BY DEF ReloadInv, SnapshotInv
<1> QED
  BY <1>1, <1>2, <1>3, <1>4 DEF ReloadInv

LEMMA OpenKeepsReload == ReloadInv /\ OpenAccount => ReloadInv'
<1> SUFFICES ASSUME ReloadInv, OpenAccount
             PROVE  ReloadInv'
  OBVIOUS
<1>1. PICK u \in 1..(numUsers + 1) :
          /\ owner' = Append(owner, u)
          /\ numUsers' = IF u > numUsers THEN u ELSE numUsers
  BY DEF OpenAccount
<1>2. numUsers \in Nat /\ owner \in Seq(1..numUsers) /\ TablesInv
  BY DEF ReloadInv, TablesInv
<1>3. numUsers' \in Nat /\ numUsers <= numUsers' /\ u \in 1..numUsers'
  BY <1>1, <1>2
<1>4. owner \in Seq(1..numUsers')
  BY <1>2, <1>3
<1>5. owner' \in Seq(1..numUsers') /\ DOMAIN owner \subseteq DOMAIN owner'
  BY <1>1, <1>3, <1>4
<1>6. Users \subseteq Users'
  BY <1>2, <1>3 DEF Users
<1>7. txns' = txns /\ online' = online
  BY DEF OpenAccount
<1>8. TablesInv'
  BY <1>2, <1>3, <1>5, <1>6, <1>7 DEF TablesInv
<1> QED
  BY <1>6, <1>8, GrownTables DEF OpenAccount

LEMMA CommitKeepsReload == ReloadInv /\ CommitTransaction => ReloadInv'
<1> SUFFICES ASSUME ReloadInv, CommitTransaction
             PROVE  ReloadInv'
  OBVIOUS
<1>1. PICK p \in Planned :
          LET rows == Txn!LedgerRows(p.request)
              last == IF txns = <<>> THEN 0 ELSE txns[Len(txns)].at
          IN  /\ {r.account_id : r \in ToSet(rows)} \subseteq DOMAIN owner
              /\ txns' = txns \o [i \in DOMAIN rows |-> Stamped(rows[i], last + p.delay)]
  BY DEF CommitTransaction
<1> DEFINE rows == Txn!LedgerRows(p.request)
           last == IF txns = <<>> THEN 0 ELSE txns[Len(txns)].at
           added == [i \in DOMAIN rows |-> Stamped(rows[i], last + p.delay)]
<1>2. rows \in Seq(ToSet(rows))
  <2>1. \E x, y : rows = <<x>> \/ rows = <<x, y>>
    BY Zenon DEF Txn!LedgerRows
  <2>2. PICK x, y : rows = <<x>> \/ rows = <<x, y>>
    BY <2>1
  <2> HIDE DEF rows
  <2>3. rows \in Seq({x, y})
    <3>1. <<x>> \in Seq({x, y}) /\ <<x, y>> \in Seq({x, y})
      OBVIOUS
    <3> QED
      BY <2>2, <3>1, Zenon
  <2> QED
    BY <2>3, SeqOfItsElements
<1>3. txns' = txns \o added /\ \A i \in DOMAIN rows : rows[i].account_id \in DOMAIN owner
  BY <1>1 DEF ToSet
<1> HIDE DEF rows
<1>4. Len(rows) \in Nat /\ DOMAIN rows = 1..Len(rows)
  BY <1>2
<1>5. \A i \in DOMAIN rows : added[i].account_id \in DOMAIN owner
  BY <1>3 DEF Stamped
<1>6. added \in Seq(ToSet(added)) /\ DOMAIN added = DOMAIN rows
  <2>1. added \in [1..Len(rows) -> ToSet(added)]
    BY <1>4 DEF ToSet
  <2>2. DOMAIN added = DOMAIN rows
    OBVIOUS
  <2> HIDE DEF added
  <2> QED
    BY <1>4, <2>1, <2>2, SeqDef
<1> HIDE DEF added
<1>7. TablesInv /\ txns \in Seq(ToSet(txns))
  BY DEF ReloadInv, TablesInv
<1> DEFINE S == ToSet(txns) \union ToSet(added)
<1>8. txns \in Seq(S) /\ added \in Seq(S)
  BY <1>6, <1>7
<1> HIDE DEF S
<1>9. /\ txns' \in Seq(S)
      /\ \A i \in DOMAIN txns' : \/ i \in DOMAIN txns /\ txns'[i] = txns[i]
                                 \/ \E j \in DOMAIN added : txns'[i] = added[j]
  <2>1. txns' \in Seq(S) /\ Len(txns') = Len(txns) + Len(added)
    BY <1>3, <1>8
  <2>2. ASSUME NEW i \in DOMAIN txns'
        PROVE  \/ i \in DOMAIN txns /\ txns'[i] = txns[i]
               \/ \E j \in DOMAIN added : txns'[i] = added[j]
    <3>1. CASE i <= Len(txns)
      BY <1>3, <1>8, <2>1, <3>1
    <3>2. CASE i > Len(txns)
      <4>1. i - Len(txns) \in DOMAIN added /\ txns'[i] = added[i - Len(txns)]
        BY <1>3, <1>8, <2>1, <3>2
      <4> QED
        BY <4>1
    <3> QED
      BY <1>8, <2>1, <3>1, <3>2
  <2> QED
    BY <2>1, <2>2
<1>10. numUsers' = numUsers /\ owner' = owner /\ online' = online /\ Users' = Users
  BY DEF CommitTransaction, Users
<1>11. txns' \in Seq(ToSet(txns'))
  BY <1>9, SeqOfItsElements
<1>12. \A i \in DOMAIN txns' : txns'[i].account_id \in DOMAIN owner
  BY <1>5, <1>6, <1>7, <1>9 DEF TablesInv
<1>13. TablesInv'
  BY <1>7, <1>10, <1>11, <1>12 DEF TablesInv
<1> QED
  BY <1>10, <1>13, GrownTables DEF CommitTransaction

LEMMA BeginKeepsReload == ReloadInv /\ BeginLogin => ReloadInv'
<1> SUFFICES ASSUME ReloadInv, BeginLogin
             PROVE  ReloadInv'
  OBVIOUS
<1>1. PICK u \in Users, refresh \in BOOLEAN :
          /\ login' = [NoLogin EXCEPT !.stage = "verified", !.user = u,
                                      !.is_refresh = refresh]
          /\ online' = IF refresh THEN online ELSE online \union {u}
  BY DEF BeginLogin
<1>2. login = NoLogin /\ login.user = 0
  BY IdleLogin DEF BeginLogin, ReloadInv, LoginInv
<1>3. TablesInv /\ Users \subseteq Nat \ {0}
  BY DEF ReloadInv, TablesInv, Users
<1>4. /\ login' \in [stage : {"idle", "verified", "read"}, user : Nat,
                     is_refresh : BOOLEAN, res : {<<>>}, saw : {<<>>}]
      /\ login'.stage = "verified" /\ login'.user = u /\ login'.is_refresh = refresh
      /\ login'.res = <<>> /\ login'.saw = <<>>
  BY <1>1, <1>3, IdleLogin
<1>5. Users' = Users /\ numUsers' = numUsers /\ owner' = owner /\ txns' = txns
      /\ bank_db' = bank_db /\ grouped' = grouped /\ snapshot' = snapshot
      /\ doubted' = doubted
  BY DEF BeginLogin, Users
<1>6. online' \in SUBSET Users' /\ (refresh \/ u \in online')
  BY <1>1, <1>3, <1>5 DEF TablesInv
<1>7. TablesInv'
  BY <1>3, <1>5, <1>6 DEF TablesInv
<1>8. LoginInv'
  BY <1>4, <1>5, <1>6 DEF LoginInv
<1>9. MemoryInv'
  BY <1>5 DEF ReloadInv, MemoryInv
<1>10. SnapshotInv'
  BY <1>5 DEF ReloadInv, SnapshotInv
<1>11. StatusInv'
  <2> SUFFICES ASSUME NEW e \in Entries(bank_db)
               PROVE  /\ e.value.login_status => e.key \in online'
                      /\ e.key # u \/ refresh =>
                            (e.key \in online' \ doubted => e.value.login_status)
    BY <1>4, <1>5 DEF StatusInv
  <2>1. e.key \in Users
    BY DEF ReloadInv, MemoryInv, Keys
  <2>2. /\ e.value.login_status => e.key \in online
        /\ e.key \in online \ doubted => e.value.login_status
    BY <1>2, <1>3, <2>1 DEF ReloadInv, StatusInv
  <2>3. /\ online \subseteq online'
        /\ e.key # u \/ refresh => (e.key \in online' => e.key \in online)
    BY <1>1
  <2> QED
    BY <2>2, <2>3
<1> QED
  BY <1>7, <1>8, <1>9, <1>10, <1>11 DEF ReloadInv

LEMMA DoubtKeepsReload == ReloadInv /\ LoginInDoubt => ReloadInv'
<1> SUFFICES ASSUME ReloadInv, LoginInDoubt
             PROVE  ReloadInv'
  OBVIOUS
<1>1. PICK u \in Users :
          /\ online' = online \union {u}
          /\ doubted' = doubted \union ({u} \intersect Keys(bank_db))
  BY DEF LoginInDoubt
<1>2. UNCHANGED <<numUsers, owner, txns, bank_db, login, snapshot, grouped>> /\ Users' = Users
  BY DEF LoginInDoubt, Users
<1>3. TablesInv'
  BY <1>1, <1>2 DEF ReloadInv, TablesInv
<1>4. login.stage = "idle" /\ LoginInv'
  BY <1>2 DEF ReloadInv, LoginInv, LoginInDoubt, NoLogin
<1>5. MemoryInv' /\ SnapshotInv'
  BY <1>2 DEF ReloadInv, MemoryInv, SnapshotInv
<1>6. StatusInv'
  <2> SUFFICES ASSUME NEW e \in Entries(bank_db)
               PROVE  /\ e.value.login_status => e.key \in online'
                      /\ e.key # login.user \/ login.is_refresh =>
                            (e.key \in online' \ doubted' => e.value.login_status)
    BY <1>2 DEF StatusInv
  <2>1. e.key \in Keys(bank_db)
    BY DEF Keys
  <2> QED
    BY <1>1, <2>1 DEF ReloadInv, StatusInv
<1> QED
  BY <1>3, <1>4, <1>5, <1>6 DEF ReloadInv

LEMMA ReadFailsKeepsReload == ReloadInv /\ ReadFails => ReloadInv'
<1> SUFFICES ASSUME ReloadInv, ReadFails
             PROVE  ReloadInv'
  OBVIOUS
<1>1. /\ UNCHANGED <<numUsers, owner, txns, online, bank_db, snapshot, grouped, doubted>>
      /\ Users' = Users /\ login' = NoLogin
      /\ login.is_refresh \/ login.user \notin Keys(bank_db)
  BY DEF ReadFails, tables, Users, Loaded
<1>2. TablesInv' /\ MemoryInv' /\ SnapshotInv'
  BY <1>1 DEF ReloadInv, TablesInv, MemoryInv, SnapshotInv
<1>3. LoginInv'
  BY <1>1, IdleLogin DEF LoginInv
<1>4. StatusInv'
  <2> SUFFICES ASSUME NEW e \in Entries(bank_db)
               PROVE  /\ e.value.login_status => e.key \in online
                      /\ e.key \in online \ doubted => e.value.login_status
    BY <1>1 DEF StatusInv
  <2>1. e.key \in Keys(bank_db)
    BY DEF Keys
  <2> QED
    BY <1>1, <2>1 DEF ReloadInv, StatusInv
<1> QED
  BY <1>2, <1>3, <1>4 DEF ReloadInv

LEMMA ReadKeepsReload == ReloadInv /\ ReadRows => ReloadInv'
<1> SUFFICES ASSUME ReloadInv, ReadRows
             PROVE  ReloadInv'
  OBVIOUS
<1> DEFINE u == login.user
           res == Query({u})
           seen == GroupingOf(u)
<1>1. TablesInv /\ LoginInv /\ login.stage = "verified" /\ u \in Users
  BY DEF ReloadInv, LoginInv, ReadRows
<1>2. {u} \in SUBSET Users
  BY <1>1
<1>3. Regular(res)
  BY <1>1, <1>2, QueryIsRegular
<1>4. /\ UsersIn(res) = {u}
      /\ \A i \in DOMAIN res : res[i].login_status = (res[i].user \in online)
      /\ SeenIn(res, u) = seen
  BY <1>1, <1>2, QuerySees
<1>5. login' = [login EXCEPT !.stage = "read", !.res = res, !.saw = seen]
  BY DEF ReadRows
<1> HIDE DEF res, seen
<1>6. /\ login' \in [stage : {"idle", "verified", "read"}, user : Nat,
                     is_refresh : BOOLEAN, res : {res}, saw : {seen}]
      /\ login'.stage = "read" /\ login'.user = u /\ login'.is_refresh = login.is_refresh
      /\ login'.res = res /\ login'.saw = seen
  BY <1>1, <1>5 DEF LoginInv
<1>7. \A i \in DOMAIN res : res[i].login_status = (u \in online)
  <2>1. \A i \in DOMAIN res : res[i].user = u
    BY <1>4 DEF UsersIn
  <2> QED
    BY <1>4, <2>1
<1>8. UNCHANGED <<numUsers, owner, txns, online, bank_db, snapshot, grouped, doubted>>
      /\ Users' = Users
  BY DEF ReadRows, tables, Users
<1>9. LoginInv'
  BY <1>1, <1>3, <1>4, <1>6, <1>7, <1>8 DEF LoginInv
<1>10. TablesInv'
  BY <1>1, <1>8 DEF TablesInv
<1>11. MemoryInv' /\ SnapshotInv'
  BY <1>8 DEF ReloadInv, MemoryInv, SnapshotInv
<1>12. StatusInv'
  BY <1>6, <1>8 DEF ReloadInv, StatusInv
<1> QED
  BY <1>9, <1>10, <1>11, <1>12 DEF ReloadInv

LEMMA FinishKeepsReload == ReloadInv /\ FinishLogin => ReloadInv'
<1> SUFFICES ASSUME ReloadInv, FinishLogin
             PROVE  ReloadInv'
  OBVIOUS
<1> DEFINE u == login.user
           res == login.res
           stored == store_users(bank_db, res)
<1>0. TablesInv /\ MemoryInv /\ StatusInv /\ LoginInv /\ SnapshotInv
  BY DEF ReloadInv
<1>1. /\ login.stage \in {"verified", "read"} /\ u \in Users /\ u \in Nat
      /\ login.is_refresh \/ u \in online
      /\ login.stage = "verified" => ~login.is_refresh /\ u \in Keys(bank_db)
  BY <1>0 DEF FinishLogin, LoginInv, Loaded
<1>2. /\ Regular(res)
      /\ UsersIn(res) = IF login.stage = "read" THEN {u} ELSE {}
  BY <1>0, <1>1, NoRows DEF LoginInv
<1>3. Stored(res, bank_db, stored)
  <2> HIDE DEF res
  <2> QED
    BY <1>0, <1>2, StoresUsers DEF MemoryInv
<1>4. /\ bank_db' = IF login.is_refresh THEN stored ELSE SetLogin(stored, u)
      /\ grouped' = IF login.stage = "read"
                    THEN [v \in DOMAIN grouped \union {u} |->
                             IF v = u THEN login.saw ELSE grouped[v]]
                    ELSE grouped
      /\ login' = NoLogin
      /\ doubted' = doubted \ {u}
      /\ UNCHANGED <<numUsers, owner, txns, online, snapshot>> /\ Users' = Users
  BY DEF FinishLogin, tables, Users
<1> HIDE DEF stored
<1>5. /\ IsTable(stored)
      /\ Keys(stored) = Keys(bank_db) \union {u} /\ Keys(bank_db) \subseteq Keys(stored)
      /\ Keys(stored) \subseteq Users /\ Keys(stored) \subseteq DOMAIN grouped'
  <2>1. IsTable(stored) /\ Keys(stored) = Keys(bank_db) \union UsersIn(res)
    BY <1>3 DEF Stored
  <2>2. Keys(stored) = Keys(bank_db) \union {u}
    BY <1>1, <1>2, <2>1
  <2>3. Keys(bank_db) \subseteq Users /\ Keys(bank_db) \subseteq DOMAIN grouped
    BY <1>0 DEF MemoryInv
  <2>4. DOMAIN grouped \subseteq DOMAIN grouped' /\ (login.stage = "read" => u \in DOMAIN grouped')
    BY <1>4
  <2>5. u \in DOMAIN grouped'
    BY <1>1, <2>3, <2>4
  <2> QED
    BY <1>1, <2>1, <2>2, <2>3, <2>4, <2>5
<1>6. ASSUME NEW e \in Entries(stored)
      PROVE  /\ e.key \in Keys(stored) /\ IsUser(e.value) /\ ViewOf(e.value) = grouped'[e.key]
             /\ e.value.login_status => e.key \in online
             /\ e.key # u => (e.key \in online \ doubted => e.value.login_status)
             /\ e.key = u /\ login.is_refresh => e.value.login_status = (u \in online)
  <2>0. e.key \in Keys(stored)
    BY DEF Keys
  <2>1. CASE e.key \in UsersIn(res)
    <3>1. login.stage = "read" /\ e.key = u /\ UserAsIn(res, u, e.value)
      BY <1>2, <1>3, <2>1 DEF Stored
    <3>2. ViewOf(e.value) = login.saw
      BY <1>0, <1>2, <3>1, ViewAsIn DEF LoginInv
    <3>3. grouped'[u] = login.saw
      BY <1>4, <3>1
    <3>4. PICK i \in DOMAIN res : res[i].user = u
      BY <2>1, <3>1 DEF UsersIn
    <3>5. e.value.login_status = (u \in online)
      BY <1>0, <3>1, <3>4 DEF LoginInv, UserAsIn
    <3> QED
      BY <2>0, <3>1, <3>2, <3>3, <3>5 DEF UserAsIn
  <2>2. CASE e.key \notin UsersIn(res)
    <3>1. e \in Entries(bank_db)
      BY <1>3, <2>2 DEF Stored
    <3>2. e.key \in DOMAIN grouped
      BY <1>0, <3>1 DEF MemoryInv, Keys
    <3>3. grouped'[e.key] = grouped[e.key]
      BY <1>2, <1>4, <2>2, <3>2
    <3>4. e.key = u => ~login.is_refresh
      BY <1>1, <1>2, <2>2
    <3> QED
      BY <1>0, <2>0, <3>1, <3>3, <3>4 DEF MemoryInv, StatusInv
  <2> QED
    BY <2>1, <2>2
<1>7. /\ IsTable(bank_db')
      /\ Keys(bank_db') = Keys(stored)
      /\ \A e \in Entries(bank_db') : /\ IsUser(e.value) /\ ViewOf(e.value) = grouped'[e.key]
                                      /\ e.value.login_status => e.key \in online
                                      /\ e.key \in online \ doubted' => e.value.login_status
  <2>1. CASE login.is_refresh
    BY <1>4, <1>5, <1>6, <2>1
  <2>2. CASE ~login.is_refresh
    <3> DEFINE new == SetLogin(stored, u)
    <3>1. /\ IsTable(new) /\ Keys(new) = Keys(stored)
          /\ \A e \in Entries(new) :
                 /\ IsUser(e.value)
                 /\ e.key = u => e.value.login_status = TRUE
                 /\ e.key # u => e \in Entries(stored)
                 /\ \E f \in Entries(stored) : /\ f.key = e.key
                                               /\ ViewOf(f.value) = ViewOf(e.value)
      BY <1>5, <1>6, SetsLogin
    <3>2. bank_db' = new
      BY <1>4, <2>2
    <3> HIDE DEF new
    <3>3. ASSUME NEW e \in Entries(new)
          PROVE  ViewOf(e.value) = grouped'[e.key]
      <4>1. PICK f \in Entries(stored) : f.key = e.key /\ ViewOf(f.value) = ViewOf(e.value)
        BY <3>1
      <4> QED
        BY <1>6, <4>1
    <3>4. ASSUME NEW e \in Entries(new)
          PROVE  /\ e.value.login_status => e.key \in online
                 /\ e.key \in online \ doubted' => e.value.login_status
      BY <1>1, <1>4, <1>6, <2>2, <3>1
    <3> QED
      BY <3>1, <3>2, <3>3, <3>4
  <2> QED
    BY <1>0, <2>1, <2>2 DEF LoginInv
<1>8. MemoryInv'
  BY <1>4, <1>5, <1>7 DEF MemoryInv
<1>9. StatusInv'
  BY <1>4, <1>7, IdleLogin DEF StatusInv
<1>10. LoginInv'
  BY <1>4, IdleLogin DEF LoginInv
<1>11. TablesInv'
  BY <1>0, <1>4 DEF TablesInv
<1>12. SnapshotInv'
  <2>1. Keys(bank_db) \subseteq Keys(bank_db')
    BY <1>5, <1>7
  <2> QED
    BY <1>0, <1>4, <2>1 DEF SnapshotInv
<1> QED
  BY <1>8, <1>9, <1>10, <1>11, <1>12 DEF ReloadInv

LEMMA RestartKeepsReload == ReloadInv /\ Restart => ReloadInv'
<1> SUFFICES ASSUME ReloadInv, Restart
             PROVE  ReloadInv'
  OBVIOUS
<1>1. TablesInv
  BY DEF ReloadInv
<1>2. UNCHANGED <<numUsers, owner, txns, online>> /\ Users' = Users
  BY DEF Restart, tables, Users
<1>3. TablesInv'
  BY <1>1, <1>2 DEF TablesInv
<1>4. /\ IsTable(bank_db')
      /\ Keys(bank_db') = Users /\ Keys(bank_db') \subseteq DOMAIN grouped'
      /\ \A e \in Entries(bank_db') : /\ IsUser(e.value) /\ ViewOf(e.value) = grouped'[e.key]
                                      /\ e.value.login_status = (e.key \in online)
  <2>1. bank_db' = FreshLoad /\ grouped' = [v \in Users |-> GroupingOf(v)]
    BY DEF Restart
  <2> QED
    BY <1>1, <2>1, LoadedMemory
<1>5. MemoryInv' /\ StatusInv'
  BY <1>2, <1>4 DEF MemoryInv, StatusInv
<1>6. LoginInv'
  BY IdleLogin DEF Restart, LoginInv
<1>7. SnapshotInv'
  <2>1. \A i \in DOMAIN <<>> : FALSE
    OBVIOUS
  <2> QED
    BY <2>1, IdleSnapshot DEF Restart, SnapshotInv
<1> QED
  BY <1>3, <1>5, <1>6, <1>7 DEF ReloadInv

LEMMA BeginSnapshotKeepsReload == ReloadInv /\ BeginSnapshot => ReloadInv'
<1> SUFFICES ASSUME ReloadInv, BeginSnapshot
             PROVE  ReloadInv'
  OBVIOUS
<1>1. UNCHANGED <<numUsers, owner, txns, online, bank_db, login, grouped, doubted>>
      /\ Users' = Users
  BY DEF BeginSnapshot, tables, Users
<1>2. TablesInv' /\ MemoryInv' /\ StatusInv' /\ LoginInv'
  BY <1>1 DEF ReloadInv, TablesInv, MemoryInv, StatusInv, LoginInv
<1>3. Keys(bank_db) \in SUBSET Nat
  BY KeysAreNaturals DEF ReloadInv, MemoryInv
<1>4. /\ snapshot' \in [stage : {"idle", "running", "sent"}, bucket : Nat,
                        got : Seq(Nat), before : SUBSET Nat]
      /\ snapshot'.stage = "running" /\ snapshot'.bucket = 0 /\ snapshot'.got = <<>>
      /\ snapshot'.before = Keys(bank_db)
  <2> DEFINE keys == Keys(bank_db)
  <2>1. snapshot' = [NoSnapshot EXCEPT !.stage = "running", !.before = keys]
    BY DEF BeginSnapshot
  <2> HIDE DEF keys
  <2> QED
    BY <1>3, <2>1, IdleSnapshot DEF keys
<1>5. 0 \in Buckets /\ \A k \in Nat : ~(bucketIndex(k) < 0)
  BY BucketsAssumption DEF Buckets, bucketIndex
<1>6. SnapshotInv'
  <2>1. \A i \in DOMAIN <<>> : FALSE
    OBVIOUS
  <2> QED
    BY <1>1, <1>3, <1>4, <1>5, <2>1 DEF SnapshotInv
<1> QED
  BY <1>2, <1>6 DEF ReloadInv

(* The keys of a bucket are those of the table that belong there. *)
BucketKeys(bucket) == [i \in DOMAIN bucket |-> bucket[i].key]

LEMMA KeysOfBucket ==
    ASSUME NEW table, IsTable(table), NEW b \in Buckets
    PROVE  LET keys == BucketKeys(table[b])
           IN  /\ keys \in Seq(Nat)
               /\ \A i \in DOMAIN keys : keys[i] \in Keys(table) /\ bucketIndex(keys[i]) = b
               /\ \A i, j \in DOMAIN keys : keys[i] = keys[j] => i = j
               /\ \A k \in Keys(table) : bucketIndex(k) = b => \E i \in DOMAIN keys : keys[i] = k
<1> DEFINE bucket == table[b]
           keys == BucketKeys(bucket)
<1>1. IsBucket(bucket, b)
  BY DEF IsTable
<1>2. Len(bucket) \in Nat /\ DOMAIN bucket = 1..Len(bucket)
  BY <1>1 DEF IsBucket
<1>3. ASSUME NEW i \in DOMAIN bucket
      PROVE  /\ bucket[i] \in Entries(table) /\ bucket[i].key \in Nat
             /\ bucketIndex(bucket[i].key) = b
  <2>1. bucket[i].key \in Nat /\ bucketIndex(bucket[i].key) = b
    BY <1>1 DEF IsBucket, IsEntry
  <2>2. bucket[i] \in ToSet(bucket)
    <3> HIDE DEF bucket
    <3> QED
      BY DEF ToSet
  <2>3. bucket[i] \in Entries(table)
    BY <2>2 DEF Entries
  <2> QED
    BY <2>1, <2>3
<1>4. ASSUME NEW k \in Keys(table), bucketIndex(k) = b
      PROVE  \E i \in DOMAIN bucket : bucket[i].key = k
  <2>1. PICK e \in Entries(table) : e.key = k
    BY DEF Keys
  <2>2. e \in ToSet(bucket)
    BY <1>4, <2>1, EntryPlace
  <2> QED
    BY <2>1, <2>2 DEF ToSet
<1> HIDE DEF bucket
<1>5. keys \in [1..Len(bucket) -> Nat] /\ DOMAIN keys = DOMAIN bucket
  BY <1>2, <1>3 DEF BucketKeys
<1>6. keys \in Seq(Nat)
  <2> HIDE DEF keys
  <2> QED
    BY <1>2, <1>5, SeqDef
<1>7. \A i \in DOMAIN bucket : keys[i] = bucket[i].key
  BY DEF BucketKeys
<1> HIDE DEF keys
<1>8. \A i \in DOMAIN keys : keys[i] \in Keys(table) /\ bucketIndex(keys[i]) = b
  BY <1>3, <1>5, <1>7 DEF Keys
<1>9. \A i, j \in DOMAIN keys : keys[i] = keys[j] => i = j
  BY <1>1, <1>5, <1>7 DEF IsBucket
<1> QED
  BY <1>4, <1>5, <1>6, <1>7, <1>8, <1>9 DEF keys, bucket

LEMMA CopyKeepsReload == ReloadInv /\ CopyBucket => ReloadInv'
<1> SUFFICES ASSUME ReloadInv, CopyBucket
             PROVE  ReloadInv'
  OBVIOUS
<1> DEFINE b == snapshot.bucket
           got == snapshot.got
           keys == BucketKeys(bank_db[b])
           new == got \o keys
           stage == IF b + 1 = BucketCount THEN "sent" ELSE "running"
<1>1. UNCHANGED <<numUsers, owner, txns, online, bank_db, login, grouped, doubted>>
      /\ Users' = Users
  BY DEF CopyBucket, tables, Users
<1>2. TablesInv' /\ MemoryInv' /\ StatusInv' /\ LoginInv'
  BY <1>1 DEF ReloadInv, TablesInv, MemoryInv, StatusInv, LoginInv
<1>3. /\ snapshot \in [stage : {"idle", "running", "sent"}, bucket : Nat,
                       got : Seq(Nat), before : SUBSET Nat]
      /\ snapshot.stage = "running" /\ b \in Buckets
      /\ got \in Seq(Nat) /\ snapshot.before \subseteq Keys(bank_db)
      /\ \A k \in snapshot.before : bucketIndex(k) < b => k \in ToSet(got)
      /\ \A i \in DOMAIN got : got[i] \in Keys(bank_db) /\ bucketIndex(got[i]) < b
      /\ \A i, j \in DOMAIN got : got[i] = got[j] => i = j
  BY DEF ReloadInv, SnapshotInv, CopyBucket
<1>4. /\ keys \in Seq(Nat)
      /\ \A i \in DOMAIN keys : keys[i] \in Keys(bank_db) /\ bucketIndex(keys[i]) = b
      /\ \A i, j \in DOMAIN keys : keys[i] = keys[j] => i = j
      /\ \A k \in Keys(bank_db) : bucketIndex(k) = b => \E i \in DOMAIN keys : keys[i] = k
  <2>1. IsTable(bank_db) /\ b \in Buckets
    BY <1>3 DEF ReloadInv, MemoryInv
  <2> HIDE DEF b
  <2> QED
    BY <2>1, KeysOfBucket
<1>5. snapshot' = [snapshot EXCEPT !.got = new, !.bucket = b + 1, !.stage = stage]
  BY <1>3 DEF CopyBucket, BucketKeys
<1> HIDE DEF keys
<1>6. /\ new \in Seq(Nat)
      /\ \A i \in DOMAIN new : \/ i \in DOMAIN got /\ new[i] = got[i]
                               \/ i - Len(got) \in DOMAIN keys /\ new[i] = keys[i - Len(got)]
      /\ \A i \in DOMAIN got : i \in DOMAIN new /\ new[i] = got[i]
      /\ \A i \in DOMAIN keys : i + Len(got) \in DOMAIN new /\ new[i + Len(got)] = keys[i]
      /\ Len(got) \in Nat /\ DOMAIN new \subseteq Nat
  BY <1>3, <1>4
<1>7. b \in Nat /\ BucketCount \in Nat /\ b + 1 <= BucketCount
      /\ \A k \in Nat : bucketIndex(k) \in Nat
  BY <1>3, BucketsAssumption DEF Buckets, bucketIndex
<1> HIDE DEF new
<1>8. /\ snapshot' \in [stage : {"idle", "running", "sent"}, bucket : Nat,
                        got : Seq(Nat), before : SUBSET Nat]
      /\ snapshot'.stage = stage /\ snapshot'.bucket = b + 1 /\ snapshot'.got = new
      /\ snapshot'.before = snapshot.before
  <2>1. stage \in {"idle", "running", "sent"}
    OBVIOUS
  <2> DEFINE next == b + 1
  <2>2. next \in Nat
    BY <1>7
  <2>3. snapshot' = [snapshot EXCEPT !.got = new, !.bucket = next, !.stage = stage]
    BY <1>5
  <2>4. snapshot.before \in SUBSET Nat
    BY <1>3
  <2> HIDE DEF stage, next, b, got
  <2>5. /\ snapshot' \in [stage : {"idle", "running", "sent"}, bucket : Nat,
                          got : Seq(Nat), before : SUBSET Nat]
        /\ snapshot'.stage = stage /\ snapshot'.bucket = next /\ snapshot'.got = new
        /\ snapshot'.before = snapshot.before
    BY <1>3, <1>6, <2>1, <2>2, <2>3
  <2> QED
    BY <2>5 DEF next
<1>9. /\ stage = "running" => b + 1 \in Buckets
      /\ stage = "sent" => b + 1 = BucketCount
      /\ stage # "idle"
  BY <1>7 DEF Buckets
<1>10. Keys(bank_db) \subseteq Nat
  BY KeysAreNaturals DEF ReloadInv, MemoryInv
<1>11. ASSUME NEW k \in snapshot.before, bucketIndex(k) < b + 1
       PROVE  k \in ToSet(new)
  <2>1. k \in Keys(bank_db) /\ bucketIndex(k) \in Nat
    BY <1>3, <1>7, <1>10
  <2>2. CASE bucketIndex(k) < b
    <3>1. PICK i \in DOMAIN got : got[i] = k
      BY <1>3, <2>2 DEF ToSet
    <3> QED
      BY <1>6, <3>1 DEF ToSet
  <2>3. CASE bucketIndex(k) = b
    <3>1. PICK i \in DOMAIN keys : keys[i] = k
      BY <1>4, <2>1, <2>3
    <3> QED
      BY <1>6, <3>1 DEF ToSet
  <2> QED
    BY <1>7, <1>11, <2>1, <2>2, <2>3
<1>12. ASSUME NEW i \in DOMAIN new
       PROVE  new[i] \in Keys(bank_db) /\ bucketIndex(new[i]) < b + 1
  <2>1. CASE i \in DOMAIN got /\ new[i] = got[i]
    <3>1. got[i] \in Keys(bank_db) /\ bucketIndex(got[i]) < b
      BY <1>3, <2>1
    <3>2. bucketIndex(got[i]) \in Nat
      BY <1>7, <1>10, <3>1
    <3> HIDE DEF b, got
    <3>3. bucketIndex(got[i]) < b + 1
      BY <1>7, <3>1, <3>2
    <3> QED
      BY <2>1, <3>1, <3>3
  <2>2. CASE i - Len(got) \in DOMAIN keys /\ new[i] = keys[i - Len(got)]
    <3>1. new[i] \in Keys(bank_db) /\ bucketIndex(new[i]) = b
      BY <1>4, <2>2
    <3> QED
      BY <1>7, <3>1
  <2> QED
    BY <1>6, <2>1, <2>2
<1>13. ASSUME NEW i \in DOMAIN new, NEW j \in DOMAIN new, new[i] = new[j]
       PROVE  i = j
  <2>1. \A m \in DOMAIN got : bucketIndex(got[m]) < b
    BY <1>3
  <2>2. \A m \in DOMAIN keys : bucketIndex(keys[m]) = b
    BY <1>4
  <2>3. i \in Nat /\ j \in Nat /\ Len(got) \in Nat /\ b \in Nat
    BY <1>6, <1>7
  <2> HIDE DEF b, got
  <2>4. CASE i \in DOMAIN got /\ new[i] = got[i] /\ j \in DOMAIN got /\ new[j] = got[j]
    BY <1>3, <1>13, <2>4 DEF got
  <2>5. CASE /\ i - Len(got) \in DOMAIN keys /\ new[i] = keys[i - Len(got)]
             /\ j - Len(got) \in DOMAIN keys /\ new[j] = keys[j - Len(got)]
    <3>1. i - Len(got) = j - Len(got)
      BY <1>4, <1>13, <2>5
    <3> QED
      BY <2>3, <3>1
  <2>6. CASE /\ i \in DOMAIN got /\ new[i] = got[i]
             /\ j - Len(got) \in DOMAIN keys /\ new[j] = keys[j - Len(got)]
    <3>1. bucketIndex(new[i]) < b /\ bucketIndex(new[j]) = b
      BY <2>1, <2>2, <2>6
    <3> QED
      BY <1>13, <2>3, <3>1
  <2>7. CASE /\ j \in DOMAIN got /\ new[j] = got[j]
             /\ i - Len(got) \in DOMAIN keys /\ new[i] = keys[i - Len(got)]
    <3>1. bucketIndex(new[j]) < b /\ bucketIndex(new[i]) = b
      BY <2>1, <2>2, <2>7
    <3> QED
      BY <1>13, <2>3, <3>1
  <2> QED
    BY <1>6, <2>4, <2>5, <2>6, <2>7 DEF got
<1>14. SnapshotInv'
  <2> HIDE DEF b, stage, got
  <2> QED
    BY <1>1, <1>3, <1>8, <1>9, <1>11, <1>12, <1>13 DEF SnapshotInv
<1> QED
  BY <1>2, <1>14 DEF ReloadInv

LEMMA NextKeepsReload == ReloadInv /\ [RLNext]_rlVars => ReloadInv'
<1> SUFFICES ASSUME ReloadInv, [RLNext]_rlVars
             PROVE  ReloadInv'
  OBVIOUS
<1>1. CASE OpenAccount
  BY <1>1, OpenKeepsReload
<1>2. CASE CommitTransaction
  BY <1>2, CommitKeepsReload
<1>3. CASE BeginLogin
  BY <1>3, BeginKeepsReload
<1>4. CASE ReadRows
  BY <1>4, ReadKeepsReload
<1>5. CASE FinishLogin
  BY <1>5, FinishKeepsReload
<1>6. CASE BeginSnapshot
  BY <1>6, BeginSnapshotKeepsReload
<1>7. CASE CopyBucket
  BY <1>7, CopyKeepsReload
<1>8. CASE Restart
  BY <1>8, RestartKeepsReload
<1>10. CASE LoginInDoubt
  BY <1>10, DoubtKeepsReload
<1>11. CASE ReadFails
  BY <1>11, ReadFailsKeepsReload
<1>9. CASE UNCHANGED rlVars
  <2>1. UNCHANGED <<numUsers, owner, txns, online, bank_db, login, snapshot, grouped,
                    doubted>>
        /\ Users' = Users
    BY <1>9 DEF rlVars, tables, Users
  <2> QED
    BY <2>1 DEF ReloadInv, TablesInv, MemoryInv, StatusInv, LoginInv, SnapshotInv
<1> QED
  BY <1>1, <1>2, <1>3, <1>4, <1>5, <1>6, <1>7, <1>8, <1>9, <1>10, <1>11
     DEF RLNext

LEMMA AlwaysReloadInv == RLSpec => []ReloadInv
BY InitReload, NextKeepsReload, PTL DEF RLSpec

-----------------------------------------------------------------------------
(* store_users(): in every state, for any tables and any number of         *)
(* buckets, what is in memory of a user is what the query read of him, and *)
(* a program that loads the tables now has every user with exactly his     *)
(* accounts and their transactions.                                        *)
THEOREM LoadsAreGroupings == RLSpec => []LoadedIsGrouping
<1>1. ReloadInv => LoadedIsGrouping
  <2> SUFFICES ASSUME ReloadInv
               PROVE  LoadedIsGrouping
    OBVIOUS
  <2>1. ASSUME NEW u \in Keys(bank_db), NEW user \in find(bank_db, u)
        PROVE  ViewOf(user) = grouped[u]
    <3>1. IsTable(bank_db) /\ u \in Nat
      BY KeysAreNaturals DEF ReloadInv, MemoryInv
    <3>2. PICK e \in Entries(bank_db) : e.key = u /\ e.value = user
      BY <3>1, FoundIsEntry
    <3> QED
      BY <3>2 DEF ReloadInv, MemoryInv
  <2> DEFINE fresh == FreshLoad
  <2>2. /\ IsTable(fresh) /\ Keys(fresh) = Users
        /\ \A e \in Entries(fresh) : ViewOf(e.value) = GroupingOf(e.key)
    BY FreshLoadIsGrouping DEF ReloadInv
  <2> HIDE DEF fresh
  <2>3. ASSUME NEW u \in Users, NEW user \in find(fresh, u)
        PROVE  ViewOf(user) = GroupingOf(u)
    <3>1. u \in Nat
      BY <2>2, KeysAreNaturals
    <3>2. PICK e \in Entries(fresh) : e.key = u /\ e.value = user
      BY <2>2, <3>1, FoundIsEntry
    <3> QED
      BY <2>2, <3>2
  <2> QED
    BY <2>1, <2>2, <2>3 DEF LoadedIsGrouping, fresh
<1> QED
  BY <1>1, AlwaysReloadInv, PTL

(* login(): memory and User_Table agree on who is on line whenever no      *)
(* login is under way, whatever logins, refreshes, failures and restarts   *)
(* there were, but for users whose last login went through and said ERROR. *)
THEOREM StatusAgrees == RLSpec => []LoginStatusAgrees
<1>1. ReloadInv => LoginStatusAgrees
  <2> SUFFICES ASSUME ReloadInv, login.stage = "idle",
                      NEW u \in Keys(bank_db), NEW user \in find(bank_db, u)
               PROVE  /\ user.login_status => u \in online
                      /\ u \in online \ doubted => user.login_status
    BY DEF LoginStatusAgrees
  <2>1. IsTable(bank_db) /\ u \in Nat /\ u \in Users
    BY KeysAreNaturals DEF ReloadInv, MemoryInv
  <2>2. PICK e \in Entries(bank_db) : e.key = u /\ e.value = user
    BY <2>1, FoundIsEntry
  <2>3. login.user = 0
    BY IdleLogin DEF ReloadInv, LoginInv
  <2>4. e.key # login.user
    BY <2>1, <2>2, <2>3 DEF Users
  <2> QED
    BY <2>2, <2>4 DEF ReloadInv, StatusInv
<1> QED
  BY <1>1, AlwaysReloadInv, PTL

(* getAll() bucket by bucket beside inserts: a snapshot that was sent has  *)
(* every user who was loaded when it began, no one who is not loaded, and  *)
(* no one twice.                                                           *)
THEOREM SnapshotsAreRegular == RLSpec => []SnapshotIsRegular
<1>1. ReloadInv => SnapshotIsRegular
  <2> SUFFICES ASSUME ReloadInv, snapshot.stage = "sent"
               PROVE  /\ snapshot.before \subseteq ToSet(snapshot.got)
                      /\ ToSet(snapshot.got) \subseteq Keys(bank_db)
                      /\ Cardinality(ToSet(snapshot.got)) = Len(snapshot.got)
    BY DEF SnapshotIsRegular
  <2> DEFINE got == snapshot.got
  <2>1. /\ got \in Seq(Nat) /\ snapshot.bucket = BucketCount /\ snapshot.before \subseteq Nat
        /\ \A k \in snapshot.before : bucketIndex(k) < snapshot.bucket => k \in ToSet(got)
        /\ \A i \in DOMAIN got : got[i] \in Keys(bank_db)
        /\ \A i, j \in DOMAIN got : got[i] = got[j] => i = j
    BY DEF ReloadInv, SnapshotInv
  <2>2. \A k \in Nat : bucketIndex(k) < BucketCount
    BY BucketsAssumption DEF bucketIndex
  <2>3. snapshot.before \subseteq ToSet(got)
    BY <2>1, <2>2
  <2>4. ToSet(got) \subseteq Keys(bank_db)
    BY <2>1 DEF ToSet
  <2>5. Cardinality(ToSet(got)) = Len(got)
    <3> HIDE DEF got
    <3>1. Len(got) \in Nat /\ DOMAIN got = 1..Len(got)
      BY <2>1
    <3>2. got \in Bijection(1..Len(got), ToSet(got))
      <4>1. got \in [1..Len(got) -> ToSet(got)]
        BY <2>1, <3>1 DEF ToSet
      <4>2. got \in Injection(1..Len(got), ToSet(got))
        BY <2>1, <3>1, <4>1 DEF Injection, IsInjective
      <4>3. got \in Surjection(1..Len(got), ToSet(got))
        BY <3>1, <4>1 DEF Surjection, ToSet
      <4> QED
        BY <4>2, <4>3 DEF Bijection
    <3>3. ExistsBijection(1..Len(got), ToSet(got))
      BY <3>2 DEF ExistsBijection
    <3>4. IsFiniteSet(1..Len(got)) /\ Cardinality(1..Len(got)) = Len(got)
      <4> DEFINE n == Len(got)
      <4>1. n \in Nat
        BY <3>1
      <4> HIDE DEF n
      <4>2. IsFiniteSet(1..n) /\ Cardinality(1..n) = n
        BY <4>1, FS_Interval
      <4> QED
        BY <4>2 DEF n
    <3> QED
      BY <3>3, <3>4, FS_Bijection
  <2> QED
    BY <2>3, <2>4, <2>5
<1> QED
  BY <1>1, AlwaysReloadInv, PTL
=============================================================================
