------------------------ MODULE DbTransactionProofs ------------------------
(***************************************************************************)
(* Proofs about DbTransaction, for every set of workers, accounts and      *)
(* requests and without any bound on their number.                         *)
(***************************************************************************)
EXTENDS DbTransaction, Induction, TLAPS

(* What the statements of a request with a recipient name and add. *)
LEMMA RequestParts ==
    ASSUME NEW r \in Requests, ~NoRecipient(r)
    PROVE  /\ r.account_id \in Accounts
           /\ DepositRow(r) \in Accounts
           /\ r.amount \in Int
           /\ \A a : DepositPart(r, a) \in Int /\ WithdrawPart(r, a) \in Int
<1>1. r \in Request
  BY RequestsAssumption
<1>2. DepositRow(r) \in Accounts
  BY <1>1 DEF NoRecipient, Request, DepositRow
<1> QED
  BY <1>1, <1>2 DEF Request, DepositPart, WithdrawPart

(* A row of Transaction_Table is well formed whatever request it is for.   *)
LEMMA LedgerRowsType ==
    ASSUME NEW r \in Requests, ~NoRecipient(r)
    PROVE  LedgerRows(r) \in Seq(LedgerRow)
<1>1. r \in Request
  BY RequestsAssumption
<1>2. CASE r.type = "TRANSFER"
  <2>1. r.to_account \in Accounts
    BY <1>1, <1>2 DEF NoRecipient, Request
  <2> QED
    BY <1>1, <1>2, <2>1 DEF LedgerRows, LedgerRow, Request, NoAccount
<1>3. CASE r.type # "TRANSFER"
  BY <1>1, <1>3 DEF LedgerRows, LedgerRow, Request, NoAccount
<1> QED
  BY <1>2, <1>3

-----------------------------------------------------------------------------
(* What the control state of a worker says about its open block: the       *)
(* request is one transaction() has statements for, the statement about to *)
(* be executed has not been executed yet, and the one before it was the    *)
(* one on the lower account id.                                            *)
BlockShape(w) ==
    /\ req[w] \in Requests
    /\ ~NoRecipient(req[w])
    /\ req[w].type # "OTHER"
    /\ withdrawResult[w] = 1 => Withdraws(req[w])
    /\ depositResult[w] = 1 => Deposits(req[w])
    /\ pc[w] = "withdraw" =>
          /\ Withdraws(req[w])
          /\ withdrawResult[w] = 0
          /\ depositResult[w] = 1 => ~WithdrawsFirst(req[w])
    /\ pc[w] = "deposit" =>
          /\ Deposits(req[w])
          /\ depositResult[w] = 0
          /\ withdrawResult[w] = 1 => WithdrawsFirst(req[w])
    /\ ~committed[w]
    /\ reply[w] = "none"

(* Inductive together with TypeOK. *)
Control ==
    \A w \in Workers : /\ InBlock(w) => BlockShape(w)
                       /\ pc[w] = "apply" => committed[w]

(* No block is open and nothing is locked when the server starts.          *)
LEMMA InitControl == Init => TypeOK /\ Control
<1> SUFFICES ASSUME Init
             PROVE  TypeOK /\ Control
  OBVIOUS
<1> USE DEF Init
<1>1. \A w \in Workers : pc[w] = "idle"
  OBVIOUS
<1>2. Control
  BY <1>1 DEF Control, InBlock
<1>3. rows \subseteq Accounts /\ balance \in [Accounts -> Int]
  BY BalanceAssumption
<1>4. taken \in 0..MaxRequests
  BY BoundsAssumption
<1>5. ledger \in Seq(LedgerRow)
  OBVIOUS
<1>6. TypeOK
  BY <1>3, <1>4, <1>5 DEF TypeOK, Replies
<1> QED
  BY <1>2, <1>6


(* What WriteRow does, row by row. *)
LEMMA WriteRowEffect ==
    ASSUME TypeOK, NEW w \in Workers, NEW a \in Accounts, NEW n \in Int,
           WriteRow(w, a, n)
    PROVE  /\ rowLock' \in [Accounts -> Workers \union {NoWorker}]
           /\ version' \in [Workers -> [Accounts -> Int]]
           /\ \A b \in Accounts : rowLock'[b] = IF b = a THEN w ELSE rowLock[b]
           /\ \A v \in Workers, b \in Accounts :
                 version'[v][b] = IF v = w /\ b = a THEN n ELSE version[v][b]
<1>1. /\ rowLock' \in [Accounts -> Workers \union {NoWorker}]
      /\ \A b \in Accounts : rowLock'[b] = IF b = a THEN w ELSE rowLock[b]
  BY DEF WriteRow, TypeOK
<1>2. version[w] \in [Accounts -> Int]
  BY DEF TypeOK
<1>3. version'[w] = [version[w] EXCEPT ![a] = n]
  BY DEF WriteRow, TypeOK
<1>4. \A v \in Workers : v # w => version'[v] = version[v]
  BY DEF WriteRow, TypeOK
<1>5. version' \in [Workers -> [Accounts -> Int]]
  BY <1>2 DEF WriteRow, TypeOK
<1>6. \A v \in Workers, b \in Accounts :
        version'[v][b] = IF v = w /\ b = a THEN n ELSE version[v][b]
  BY <1>2, <1>3, <1>4
<1> QED
  BY <1>1, <1>5, <1>6

(* Every step of transaction() keeps the types and the shape of every      *)
(* worker's block: one case per action.                                    *)
LEMMA NextControl == TypeOK /\ Control /\ [Next]_vars => TypeOK' /\ Control'
<1> SUFFICES ASSUME TypeOK, Control, [Next]_vars
             PROVE  TypeOK' /\ Control'
  OBVIOUS
<1> USE DEF tables, locks, locals
<1>1. ASSUME NEW w \in Workers, Begin(w)
      PROVE  TypeOK' /\ Control'
  <2>0. PICK r \in Requests :
           LET throws == ~connected[w] \/ NoRecipient(r)
           IN  /\ req' = [req EXCEPT ![w] = r]
               /\ pc' = [pc EXCEPT ![w] =
                           IF throws \/ r.type = "OTHER" THEN "respond"
                           ELSE IF WithdrawsFirst(r) THEN "withdraw"
                           ELSE "deposit"]
               /\ reply' = [reply EXCEPT ![w] =
                           IF throws THEN "ERROR" ELSE "none"]
    BY <1>1 DEF Begin
  <2>1. TypeOK'
    <3>1. pc' \in [Workers -> {"idle", "withdraw", "deposit", "decide",
                               "apply", "respond"}]
      BY <1>1 DEF Begin, TypeOK
    <3>2. reply' \in [Workers -> Replies]
      BY <1>1 DEF Begin, TypeOK, Replies
    <3>3. taken' \in 0..MaxRequests
      BY <1>1, BoundsAssumption DEF Begin, TypeOK
    <3> QED
      BY <1>1, <3>1, <3>2, <3>3 DEF Begin, TypeOK
  <2>2. Control'
    <3>1. r \in Request
      BY RequestsAssumption
    <3>2. InBlock(w)' => BlockShape(w)'
      BY <1>1, <2>0, <3>1
         DEF Begin, TypeOK, InBlock, BlockShape, Request, Types, Withdraws,
             Deposits, WithdrawsFirst
    <3>3. pc'[w] # "apply"
      BY <2>0 DEF TypeOK
    <3>4. ASSUME NEW v \in Workers, v # w
          PROVE  /\ InBlock(v)' => BlockShape(v)'
                 /\ pc'[v] = "apply" => committed'[v]
      BY <1>1, <2>0, <3>4 DEF Begin, TypeOK, Control, InBlock, BlockShape
    <3> QED
      BY <3>2, <3>3, <3>4 DEF Control
  <2> QED
    BY <2>1, <2>2
<1>2. ASSUME NEW w \in Workers, ExecWithdraw(w)
      PROVE  TypeOK' /\ Control'
  <2>1. BlockShape(w)
    BY <1>2 DEF ExecWithdraw, Control, InBlock
  <2>2. TypeOK'
    <3>1. req[w].account_id \in Accounts /\ req[w].amount \in Int
      BY <2>1, RequestParts DEF BlockShape
    <3>2. Visible(w, req[w].account_id) \in Int
      BY <3>1 DEF Visible, TypeOK
    <3>3. /\ rowLock' \in [Accounts -> Workers \union {NoWorker}]
          /\ version' \in [Workers -> [Accounts -> Int]]
      <4>1. CASE WithdrawMatches(w)
        BY <1>2, <3>1, <3>2, <4>1, WriteRowEffect DEF ExecWithdraw
      <4>2. CASE ~WithdrawMatches(w)
        BY <1>2, <4>2 DEF ExecWithdraw, TypeOK
      <4> QED
        BY <4>1, <4>2
    <3> QED
      BY <1>2, <3>3 DEF ExecWithdraw, TypeOK
  <2>3. Control'
    BY <1>2, <2>1 DEF ExecWithdraw, TypeOK, Control, InBlock, BlockShape,
                      WithdrawsFirst, Withdraws, Deposits
  <2> QED
    BY <2>2, <2>3
<1>3. ASSUME NEW w \in Workers, ExecDeposit(w)
      PROVE  TypeOK' /\ Control'
  <2>1. BlockShape(w)
    BY <1>3 DEF ExecDeposit, Control, InBlock
  <2>2. TypeOK'
    <3>1. DepositRow(req[w]) \in Accounts /\ req[w].amount \in Int
      BY <2>1, RequestParts DEF BlockShape
    <3>2. Visible(w, DepositRow(req[w])) \in Int
      BY <3>1 DEF Visible, TypeOK
    <3>3. /\ rowLock' \in [Accounts -> Workers \union {NoWorker}]
          /\ version' \in [Workers -> [Accounts -> Int]]
      <4>1. CASE DepositMatches(w)
        BY <1>3, <3>1, <3>2, <4>1, WriteRowEffect DEF ExecDeposit
      <4>2. CASE ~DepositMatches(w)
        BY <1>3, <4>2 DEF ExecDeposit, TypeOK
      <4> QED
        BY <4>1, <4>2
    <3> QED
      BY <1>3, <3>3 DEF ExecDeposit, TypeOK
  <2>3. Control'
    BY <1>3, <2>1 DEF ExecDeposit, TypeOK, Control, InBlock, BlockShape,
                      WithdrawsFirst, Withdraws, Deposits
  <2> QED
    BY <2>2, <2>3

<1>4. ASSUME NEW w \in Workers, Reject(w)
      PROVE  TypeOK' /\ Control'
  <2>1. TypeOK'
    BY <1>4 DEF Reject, ReleaseRows, TypeOK, Replies
  <2>2. Control'
    BY <1>4 DEF Reject, TypeOK, Control, InBlock, BlockShape
  <2> QED
    BY <2>1, <2>2
<1>5. ASSUME NEW w \in Workers, Install(w)
      PROVE  /\ rows' \subseteq Accounts
             /\ balance' \in [Accounts -> Int]
             /\ ledger' \in Seq(LedgerRow)
             /\ rowLock' \in [Accounts -> Workers \union {NoWorker}]
             /\ version' \in [Workers -> [Accounts -> Int]]
  <2>1. BlockShape(w)
    BY <1>5 DEF Install, Control, InBlock
  <2>2. LedgerRows(req[w]) \in Seq(LedgerRow)
    BY <2>1, LedgerRowsType DEF BlockShape
  <2>3. ledger' \in Seq(LedgerRow)
    BY <1>5, <2>2 DEF Install, TypeOK
  <2>4. balance' \in [Accounts -> Int]
    BY <1>5 DEF Install, Visible, TypeOK
  <2> QED
    BY <1>5, <2>3, <2>4 DEF Install, ReleaseRows, TypeOK
<1>6. ASSUME NEW w \in Workers, Commit(w)
      PROVE  TypeOK' /\ Control'
  <2>1. TypeOK'
    BY <1>5, <1>6 DEF Commit, Install, TypeOK
  <2>2. Control'
    BY <1>6 DEF Commit, Install, TypeOK, Control, InBlock, BlockShape
  <2> QED
    BY <2>1, <2>2
<1>7. ASSUME NEW w \in Workers, CommitInDoubt(w)
      PROVE  TypeOK' /\ Control'
  <2>1. TypeOK'
    BY <1>5, <1>7 DEF CommitInDoubt, Install, TypeOK, Replies
  <2>2. Control'
    BY <1>7 DEF CommitInDoubt, Install, TypeOK, Control, InBlock, BlockShape
  <2> QED
    BY <2>1, <2>2
<1>8. ASSUME NEW w \in Workers, LoseConnection(w)
      PROVE  TypeOK' /\ Control'
  <2>1. TypeOK'
    BY <1>8 DEF LoseConnection, ReleaseRows, TypeOK, Replies
  <2>2. Control'
    BY <1>8 DEF LoseConnection, TypeOK, Control, InBlock, BlockShape
  <2> QED
    BY <2>1, <2>2
<1>9. ASSUME NEW w \in Workers, LoseIdleConnection(w)
      PROVE  TypeOK' /\ Control'
  BY <1>9 DEF LoseIdleConnection, TypeOK, Control, InBlock, BlockShape
<1>10. ASSUME NEW w \in Workers, NEW throws \in BOOLEAN, Mirror(w, throws)
       PROVE  TypeOK' /\ Control'
  <2>1. TypeOK'
    BY <1>10 DEF Mirror, TypeOK, Replies
  <2>2. Control'
    BY <1>10 DEF Mirror, TypeOK, Control, InBlock, BlockShape
  <2> QED
    BY <2>1, <2>2
<1>11. ASSUME NEW w \in Workers, Respond(w)
       PROVE  TypeOK' /\ Control'
  BY <1>11 DEF Respond, TypeOK, Control, InBlock, BlockShape
<1>12. ASSUME NEW a \in Accounts, InsertAccount(a)
       PROVE  TypeOK' /\ Control'
  BY <1>12, BalanceAssumption
     DEF InsertAccount, TypeOK, Control, InBlock, BlockShape
<1>13. CASE UNCHANGED vars
  BY <1>13 DEF vars, TypeOK, Control, InBlock, BlockShape
<1> QED
  BY <1>1, <1>2, <1>3, <1>4, <1>6, <1>7, <1>8, <1>9, <1>10, <1>11, <1>12, <1>13
     DEF Next, Step, Exhausted

(* Every variable keeps its type, in particular every row ever appended to *)
(* Transaction_Table by Load_DB::transaction is well formed.               *)
THEOREM TypeCorrect == Spec => []TypeOK
<1>1. Spec => [](TypeOK /\ Control)
  BY InitControl, NextControl, PTL DEF Spec
<1> QED
  BY <1>1, PTL


-----------------------------------------------------------------------------
(* What a block that pays leaves in the payer's row is not negative.       *)
Funded ==
    \A w \in Workers :
        InBlock(w) /\ withdrawResult[w] = 1 =>
            version[w][req[w].account_id] >= 0

(* The inductive invariant behind the safety theorems. *)
DbInv == TypeOK /\ Control /\ NoLostUpdate /\ Funded

(* The state of a worker in the middle of nothing is not touched. *)
SameWorker(v) ==
    /\ pc'[v] = pc[v]
    /\ req'[v] = req[v]
    /\ withdrawResult'[v] = withdrawResult[v]
    /\ depositResult'[v] = depositResult[v]

(* A step that touches neither tables nor locks and no worker but w, who   *)
(* is outside a block before and has written nothing after it.             *)
LEMMA OutsideBlock ==
    ASSUME DbInv, TypeOK', NEW w \in Workers, ~InBlock(w),
           (withdrawResult'[w] = 0 /\ depositResult'[w] = 0) \/ ~InBlock(w)',
           UNCHANGED <<tables, locks>>,
           \A v \in Workers \ {w} : SameWorker(v)
    PROVE  NoLostUpdate'
<1> USE DEF tables, locks
<1>2. ASSUME NEW v \in Workers, NEW a \in Accounts
      PROVE  /\ (rowLock'[a] = v) <=> (InBlock(v)' /\ Written(v, a)')
             /\ rowLock'[a] = v =>
                   a \in rows' /\ version'[v][a] = balance'[a] + Executed(v, a)'
  <2>1. CASE v = w
    BY <2>1 DEF DbInv, NoLostUpdate, Written
  <2>2. CASE v # w
    BY <2>2 DEF DbInv, NoLostUpdate, Written, Executed, InBlock, SameWorker
  <2> QED
    BY <2>1, <2>2
<1> QED
  BY <1>2 DEF NoLostUpdate

(* A block ends: its rows are unlocked and its versions are either         *)
(* installed or forgotten.                                                 *)
LEMMA BlockEnds ==
    ASSUME DbInv, TypeOK', NEW w \in Workers, ReleaseRows(w), ~InBlock(w)',
           rows' = rows,
           \/ balance' = balance
           \/ balance' = [a \in Accounts |-> Visible(w, a)],
           \A v \in Workers \ {w} : SameWorker(v)
    PROVE  NoLostUpdate'
<1>1. \A a \in Accounts : /\ rowLock'[a] = IF rowLock[a] = w THEN NoWorker
                                                           ELSE rowLock[a]
                          /\ rowLock[a] # w => balance'[a] = balance[a]
  BY DEF DbInv, TypeOK, ReleaseRows, Visible
<1>2. \A v \in Workers \ {w}, a \in Accounts : version'[v][a] = version[v][a]
  BY DEF DbInv, TypeOK, ReleaseRows
<1>4. ASSUME NEW v \in Workers, NEW a \in Accounts
      PROVE  /\ (rowLock'[a] = v) <=> (InBlock(v)' /\ Written(v, a)')
             /\ rowLock'[a] = v =>
                   a \in rows' /\ version'[v][a] = balance'[a] + Executed(v, a)'
  <2>1. CASE v = w
    BY <1>1, <2>1, WorkersAssumption
  <2>2. CASE v # w
    <3>1. rowLock'[a] = v <=> rowLock[a] = v
      BY <1>1, <2>2, WorkersAssumption
    <3>2. /\ InBlock(v)' <=> InBlock(v)
          /\ Written(v, a)' <=> Written(v, a)
          /\ Executed(v, a)' = Executed(v, a)
      BY <2>2 DEF InBlock, Written, Executed, SameWorker
    <3> QED
      BY <1>1, <1>2, <2>2, <3>1, <3>2 DEF DbInv, NoLostUpdate
  <2> QED
    BY <2>1, <2>2
<1> QED
  BY <1>4 DEF NoLostUpdate

(* A statement of the block of w writes row a: the new version is what the *)
(* block saw plus d, which is what the statement adds.                     *)
LEMMA StatementWrites ==
    ASSUME DbInv, TypeOK', NEW w \in Workers, NEW a \in Accounts, NEW d \in Int,
           InBlock(w), InBlock(w)', a \in rows,
           WriteRow(w, a, Visible(w, a) + d),
           UNCHANGED tables,
           \A b \in Accounts : Written(w, b)' <=> (b = a \/ Written(w, b)),
           \A b \in Accounts : Executed(w, b) \in Int /\
             Executed(w, b)' = IF b = a THEN Executed(w, b) + d
                                        ELSE Executed(w, b),
           ~Written(w, a) => Executed(w, a) = 0,
           \A v \in Workers \ {w} : SameWorker(v)
    PROVE  NoLostUpdate'
<1> USE DEF tables
<1>1. Visible(w, a) \in Int
  BY DEF DbInv, TypeOK, Visible
<1>2. /\ \A b \in Accounts : rowLock'[b] = IF b = a THEN w ELSE rowLock[b]
      /\ \A v \in Workers, b \in Accounts :
            version'[v][b] = IF v = w /\ b = a THEN Visible(w, a) + d
                                               ELSE version[v][b]
  BY <1>1, WriteRowEffect DEF DbInv
<1>3. rowLock[a] \in {NoWorker, w}
  BY DEF WriteRow
<1>6. Visible(w, a) = balance[a] + Executed(w, a)
  BY DEF DbInv, NoLostUpdate, TypeOK, Visible
<1>7. ASSUME NEW v \in Workers, NEW b \in Accounts
      PROVE  /\ (rowLock'[b] = v) <=> (InBlock(v)' /\ Written(v, b)')
             /\ rowLock'[b] = v =>
                   b \in rows' /\ version'[v][b] = balance'[b] + Executed(v, b)'
  <2>1. CASE v = w /\ b = a
    BY <1>2, <1>6, <2>1 DEF DbInv, TypeOK
  <2>2. CASE v = w /\ b # a
    BY <1>2, <2>2 DEF DbInv, NoLostUpdate
  <2>3. CASE v # w
    <3>1. /\ InBlock(v)' <=> InBlock(v)
          /\ Written(v, b)' <=> Written(v, b)
          /\ Executed(v, b)' = Executed(v, b)
      BY <2>3 DEF InBlock, Written, Executed, SameWorker
    <3>2. rowLock'[b] = v <=> rowLock[b] = v
      BY <1>2, <1>3, <2>3, WorkersAssumption
    <3> QED
      BY <1>2, <2>3, <3>1, <3>2 DEF DbInv, NoLostUpdate
  <2> QED
    BY <2>1, <2>2, <2>3
<1> QED
  BY <1>7 DEF NoLostUpdate

(* A statement that affects no row leaves everything but pc alone. *)
LEMMA StatementMisses ==
    ASSUME DbInv, NEW w \in Workers, InBlock(w), InBlock(w)',
           UNCHANGED <<tables, locks, locals>>,
           \A v \in Workers \ {w} : pc'[v] = pc[v]
    PROVE  NoLostUpdate'
<1> USE DEF tables, locks, locals
<1>2. \A v \in Workers : InBlock(v)' <=> InBlock(v)
  BY DEF InBlock
<1>3. \A v \in Workers, a \in Accounts : /\ Written(v, a)' <=> Written(v, a)
                                        /\ Executed(v, a)' = Executed(v, a)
  BY DEF Written, Executed
<1> QED
  BY <1>2, <1>3 DEF DbInv, NoLostUpdate

(* The withdraw statement of transaction() writes the payer's row from the *)
(* balance the block sees, or nothing: the versions stay explained by the  *)
(* committed balances.                                                     *)
LEMMA WithdrawPreserves ==
    ASSUME DbInv, TypeOK', NEW w \in Workers, ExecWithdraw(w)
    PROVE  NoLostUpdate'
<1> USE DEF tables, locks, locals
<1>1. BlockShape(w) /\ InBlock(w)
  BY DEF ExecWithdraw, DbInv, Control, InBlock
<1>2. InBlock(w)'
  BY DEF ExecWithdraw, DbInv, TypeOK, InBlock
<1>3. CASE ~WithdrawMatches(w)
  BY <1>1, <1>2, <1>3, StatementMisses DEF ExecWithdraw, DbInv, TypeOK
<1>4. CASE WithdrawMatches(w)
  <2> DEFINE a == req[w].account_id
             d == -req[w].amount
  <2>1. /\ a \in Accounts
        /\ d \in Int
        /\ \A b : WithdrawPart(req[w], b) \in Int /\ DepositPart(req[w], b) \in Int
    BY <1>1, RequestParts DEF BlockShape
  <2>2. Visible(w, a) \in Int
    BY <2>1 DEF DbInv, TypeOK, Visible
  <2>3. /\ a \in rows
        /\ WriteRow(w, a, Visible(w, a) + d)
    <3>1. Visible(w, a) - req[w].amount = Visible(w, a) + d
      BY <1>1, <2>2, RequestParts DEF BlockShape
    <3> QED
      BY <1>1, <1>4, <2>2, <3>1, RequestParts
         DEF ExecWithdraw, WithdrawMatches, BlockShape
  <2>4. /\ withdrawResult[w] = 0 /\ withdrawResult'[w] = 1
        /\ depositResult'[w] = depositResult[w]
        /\ req' = req
        /\ UNCHANGED tables
    BY <1>1, <1>4 DEF ExecWithdraw, BlockShape, DbInv, TypeOK
  <2>5. \A b \in Accounts : Written(w, b)' <=> (b = a \/ Written(w, b))
    BY <2>4 DEF Written
  <2>6. \A b \in Accounts : Executed(w, b) \in Int /\
          Executed(w, b)' = IF b = a THEN Executed(w, b) + d
                                     ELSE Executed(w, b)
    <3>1. ASSUME NEW b \in Accounts
          PROVE  WithdrawPart(req[w], b) = IF b = a THEN req[w].amount ELSE 0
      BY <1>1, <1>4 DEF ExecWithdraw, BlockShape, WithdrawPart
    <3> QED
      BY <1>1, <2>1, <2>4, <3>1, RequestParts DEF Executed, BlockShape
  <2>7. ~Written(w, a) => Executed(w, a) = 0
    BY <2>1, <2>4 DEF Written, Executed, DepositPart
  <2>8. \A v \in Workers \ {w} : SameWorker(v)
    BY <1>4 DEF ExecWithdraw, SameWorker, DbInv, TypeOK
  <2> HIDE DEF a, d
  <2> QED
    BY <1>1, <1>2, <2>1, <2>3, <2>4, <2>5, <2>6, <2>7, <2>8, StatementWrites
<1> QED
  BY <1>3, <1>4

(* The same of the deposit statement. *)
LEMMA DepositPreserves ==
    ASSUME DbInv, TypeOK', NEW w \in Workers, ExecDeposit(w)
    PROVE  NoLostUpdate'
<1> USE DEF tables, locks, locals
<1>1. BlockShape(w) /\ InBlock(w)
  BY DEF ExecDeposit, DbInv, Control, InBlock
<1>2. InBlock(w)'
  BY DEF ExecDeposit, DbInv, TypeOK, InBlock
<1>3. CASE ~DepositMatches(w)
  BY <1>1, <1>2, <1>3, StatementMisses DEF ExecDeposit, DbInv, TypeOK
<1>4. CASE DepositMatches(w)
  <2> DEFINE a == DepositRow(req[w])
             d == req[w].amount
  <2>1. /\ a \in Accounts
        /\ d \in Int
        /\ \A b : WithdrawPart(req[w], b) \in Int /\ DepositPart(req[w], b) \in Int
    BY <1>1, RequestParts DEF BlockShape
  <2>2. Visible(w, a) \in Int
    BY <2>1 DEF DbInv, TypeOK, Visible
  <2>3. /\ a \in rows
        /\ WriteRow(w, a, Visible(w, a) + d)
    BY <1>4, <2>1, <2>2 DEF ExecDeposit, DepositMatches
  <2>4. /\ depositResult[w] = 0 /\ depositResult'[w] = 1
        /\ withdrawResult'[w] = withdrawResult[w]
        /\ req' = req
        /\ UNCHANGED tables
    BY <1>1, <1>4 DEF ExecDeposit, BlockShape, DbInv, TypeOK
  <2>5. \A b \in Accounts : Written(w, b)' <=> (b = a \/ Written(w, b))
    BY <2>4 DEF Written
  <2>6. \A b \in Accounts : Executed(w, b) \in Int /\
          Executed(w, b)' = IF b = a THEN Executed(w, b) + d
                                     ELSE Executed(w, b)
    <3>1. ASSUME NEW b \in Accounts
          PROVE  DepositPart(req[w], b) = IF b = a THEN d ELSE 0
      BY <1>1, <1>4 DEF ExecDeposit, BlockShape, DepositPart
    <3> QED
      BY <2>1, <2>4, <3>1 DEF Executed
  <2>7. ~Written(w, a) => Executed(w, a) = 0
    BY <2>1, <2>4 DEF Written, Executed, WithdrawPart
  <2>8. \A v \in Workers \ {w} : SameWorker(v)
    BY <1>4 DEF ExecDeposit, SameWorker, DbInv, TypeOK
  <2>9. d \in Int
    BY <2>1
  <2> HIDE DEF a, d
  <2> QED
    BY <1>1, <1>2, <2>1, <2>3, <2>4, <2>5, <2>6, <2>7, <2>8, <2>9,
       StatementWrites
<1> QED
  BY <1>3, <1>4

(* The balances the server starts with satisfy the inductive invariant.    *)
LEMMA InitDbInv == Init => DbInv
<1> SUFFICES ASSUME Init
             PROVE  DbInv
  OBVIOUS
<1>1. TypeOK /\ Control
  BY InitControl
<1>2. \A w \in Workers : ~InBlock(w)
  BY DEF Init, InBlock
<1>3. ASSUME NEW a \in Accounts
      PROVE  rowLock[a] = NoWorker
  BY DEF Init
<1>4. Funded
  BY <1>2 DEF Funded
<1>5. NoLostUpdate
  BY <1>2, <1>3, WorkersAssumption DEF NoLostUpdate
<1> QED
  BY <1>1, <1>4, <1>5 DEF DbInv

(* The WHERE clause of the withdraw statement leaves no version below      *)
(* zero, and a deposit of the same block is on another row then.           *)
LEMMA NextFunded == DbInv /\ [Next]_vars => Funded'
<1> SUFFICES ASSUME DbInv, [Next]_vars
             PROVE  Funded'
  OBVIOUS
<1> USE DEF tables, locks, locals
<1>1. ASSUME NEW w \in Workers, ExecWithdraw(w)
      PROVE  Funded'
  <2>1. BlockShape(w)
    BY <1>1 DEF ExecWithdraw, DbInv, Control, InBlock
  <2> DEFINE a == req[w].account_id
             n == Visible(w, a) - req[w].amount
  <2>2. a \in Accounts /\ req[w].amount \in Int
    BY <2>1, RequestParts DEF BlockShape
  <2>3. Visible(w, a) \in Int /\ n \in Int
    BY <2>2 DEF Visible, DbInv, TypeOK
  <2>4. /\ req' = req
        /\ \A v \in Workers \ {w} : SameWorker(v)
    BY <1>1 DEF ExecWithdraw, SameWorker, DbInv, TypeOK
  <2>5. CASE WithdrawMatches(w)
    <3>1. n >= 0 /\ WriteRow(w, a, n)
      BY <1>1, <2>2, <2>3, <2>5 DEF ExecWithdraw, WithdrawMatches
    <3>2. \A v \in Workers, b \in Accounts :
             version'[v][b] = IF v = w /\ b = a THEN n ELSE version[v][b]
      <4> HIDE DEF a, n
      <4> QED
        BY <2>2, <2>3, <3>1, WriteRowEffect DEF DbInv
    <3>3. version'[w][req'[w].account_id] >= 0
      BY <2>2, <2>4, <3>1, <3>2
    <3>4. ASSUME NEW v \in Workers, v # w, InBlock(v)', withdrawResult'[v] = 1
          PROVE  version'[v][req'[v].account_id] >= 0
      <4>1. InBlock(v) /\ withdrawResult[v] = 1
        BY <2>4, <3>4 DEF InBlock, SameWorker
      <4>2. BlockShape(v)
        BY <4>1 DEF DbInv, Control
      <4>3. req[v].account_id \in Accounts
        BY <4>2, RequestParts DEF BlockShape
      <4>4. version'[v][req[v].account_id] = version[v][req[v].account_id]
        BY <3>2, <3>4, <4>3
      <4> QED
        BY <2>4, <4>1, <4>4 DEF DbInv, Funded
    <3> QED
      BY <3>3, <3>4 DEF Funded
  <2>6. CASE ~WithdrawMatches(w)
    <3>1. withdrawResult'[w] = 0 /\ version' = version
      BY <1>1, <2>1, <2>6 DEF ExecWithdraw, BlockShape
    <3> QED
      BY <2>4, <3>1 DEF Funded, DbInv, InBlock, SameWorker
  <2> QED
    BY <2>5, <2>6
<1>2. ASSUME NEW w \in Workers, ExecDeposit(w)
      PROVE  Funded'
  <2>1. BlockShape(w) /\ InBlock(w) /\ pc[w] = "deposit"
    BY <1>2 DEF ExecDeposit, DbInv, Control, InBlock
  <2> DEFINE a == DepositRow(req[w])
             n == Visible(w, a) + req[w].amount
  <2>2. a \in Accounts /\ req[w].amount \in Int
    BY <2>1, RequestParts DEF BlockShape
  <2>3. n \in Int
    BY <2>2 DEF Visible, DbInv, TypeOK
  <2>4. /\ req' = req /\ withdrawResult' = withdrawResult
        /\ \A v \in Workers \ {w} : SameWorker(v)
    BY <1>2 DEF ExecDeposit, SameWorker, DbInv, TypeOK
  <2>5. CASE DepositMatches(w)
    <3>1. WriteRow(w, a, n)
      BY <1>2, <2>5 DEF ExecDeposit, DepositMatches
    <3>2. \A v \in Workers, b \in Accounts :
             version'[v][b] = IF v = w /\ b = a THEN n ELSE version[v][b]
      <4> HIDE DEF a, n
      <4> QED
        BY <2>2, <2>3, <3>1, WriteRowEffect DEF DbInv
    <3>3. ASSUME NEW v \in Workers, InBlock(v)', withdrawResult'[v] = 1
          PROVE  version'[v][req'[v].account_id] >= 0
      <4>1. InBlock(v) /\ withdrawResult[v] = 1
        BY <2>1, <2>4, <3>3 DEF InBlock, SameWorker
      <4>2. BlockShape(v)
        BY <4>1 DEF DbInv, Control
      <4>3. req[v].account_id \in Accounts
        BY <4>2, RequestParts DEF BlockShape
      <4>4. ~(v = w /\ req[v].account_id = a)
        <5> SUFFICES ASSUME v = w
                     PROVE  req[w].account_id # a
          OBVIOUS
        <5>1. WithdrawsFirst(req[w]) /\ Deposits(req[w])
          BY <2>1, <4>1 DEF BlockShape
        <5>2. req[w].type = "TRANSFER" /\ req[w].account_id < req[w].to_account
          BY <5>1 DEF WithdrawsFirst, Deposits
        <5>3. a = req[w].to_account /\ a \in Nat /\ req[w].account_id \in Nat
          BY <2>2, <4>3, <5>2, AccountsAssumption DEF DepositRow
        <5> HIDE DEF a
        <5> QED
          BY <5>2, <5>3
      <4>5. version'[v][req[v].account_id] = version[v][req[v].account_id]
        BY <3>2, <4>3, <4>4
      <4> QED
        BY <2>4, <4>1, <4>5 DEF DbInv, Funded
    <3> QED
      BY <3>3 DEF Funded
  <2>6. CASE ~DepositMatches(w)
    <3>1. version' = version
      BY <1>2, <2>6 DEF ExecDeposit
    <3> QED
      BY <2>1, <2>4, <3>1 DEF Funded, DbInv, InBlock, SameWorker
  <2> QED
    BY <2>5, <2>6
<1>3. ASSUME NEW w \in Workers, Begin(w)
      PROVE  Funded'
  <2>1. /\ withdrawResult'[w] = 0
        /\ \A v \in Workers \ {w} : SameWorker(v) /\ version'[v] = version[v]
    BY <1>3 DEF Begin, SameWorker, DbInv, TypeOK
  <2> QED
    BY <2>1 DEF Funded, DbInv, InBlock, SameWorker
<1>4. ASSUME NEW w \in Workers,
             \/ Reject(w)
             \/ Commit(w)
             \/ CommitInDoubt(w)
             \/ LoseConnection(w)
             \/ LoseIdleConnection(w)
             \/ \E throws \in BOOLEAN : Mirror(w, throws)
             \/ Respond(w)
      PROVE  Funded'
  <2>1. ~InBlock(w)'
    BY <1>4 DEF Reject, Commit, CommitInDoubt, LoseConnection,
                LoseIdleConnection, Mirror, Respond, InBlock, DbInv, TypeOK
  <2>2. \A v \in Workers \ {w} : SameWorker(v)
    BY <1>4 DEF Reject, Commit, CommitInDoubt, LoseConnection, Install,
                LoseIdleConnection, Mirror, Respond, SameWorker, DbInv, TypeOK
  <2>3. \A v \in Workers \ {w} : version'[v] = version[v]
    BY <1>4 DEF Reject, Commit, CommitInDoubt, LoseConnection, Install,
                LoseIdleConnection, Mirror, Respond, ReleaseRows, DbInv, TypeOK
  <2> QED
    BY <2>1, <2>2, <2>3 DEF Funded, DbInv, InBlock, SameWorker
<1>5. ASSUME NEW a \in Accounts, InsertAccount(a)
      PROVE  Funded'
  BY <1>5 DEF InsertAccount, Funded, DbInv, InBlock
<1>6. CASE UNCHANGED vars
  BY <1>6 DEF vars, Funded, DbInv, InBlock
<1> QED
  BY <1>1, <1>2, <1>3, <1>4, <1>5, <1>6 DEF Next, Step, Exhausted

(* The inductive step: one case per kind of step of a worker, and the      *)
(* insertion of an account.                                                *)
LEMMA NextDbInv == DbInv /\ [Next]_vars => DbInv'
<1> SUFFICES ASSUME DbInv, [Next]_vars
             PROVE  DbInv'
  OBVIOUS
<1> USE DEF tables, locks, locals
<1>0. TypeOK' /\ Control'
  BY NextControl DEF DbInv
<1> SUFFICES NoLostUpdate'
  BY <1>0, NextFunded DEF DbInv
<1>1. ASSUME NEW w \in Workers, Begin(w)
      PROVE  NoLostUpdate'
  <2>1. ~InBlock(w)
    BY <1>1 DEF Begin, InBlock
  <2>2. withdrawResult'[w] = 0 /\ depositResult'[w] = 0
    BY <1>1 DEF Begin, DbInv, TypeOK
  <2>3. \A v \in Workers \ {w} : SameWorker(v)
    BY <1>1 DEF Begin, SameWorker, DbInv, TypeOK
  <2>4. UNCHANGED <<tables, locks>>
    BY <1>1 DEF Begin
  <2> QED
    BY <1>0, <2>1, <2>2, <2>3, <2>4, OutsideBlock
<1>2. ASSUME NEW w \in Workers, ExecWithdraw(w)
      PROVE  NoLostUpdate'
  BY <1>0, <1>2, WithdrawPreserves
<1>3. ASSUME NEW w \in Workers, ExecDeposit(w)
      PROVE  NoLostUpdate'
  BY <1>0, <1>3, DepositPreserves
<1>4. ASSUME NEW w \in Workers,
             Reject(w) \/ Commit(w) \/ CommitInDoubt(w) \/ LoseConnection(w)
      PROVE  NoLostUpdate'
  <2>1. ReleaseRows(w) /\ rows' = rows
    BY <1>4 DEF Reject, Commit, CommitInDoubt, LoseConnection, Install
  <2>2. \/ balance' = balance
        \/ balance' = [a \in Accounts |-> Visible(w, a)]
    BY <1>4 DEF Reject, Commit, CommitInDoubt, LoseConnection, Install
  <2>3. ~InBlock(w)'
    BY <1>4 DEF Reject, Commit, CommitInDoubt, LoseConnection, InBlock, DbInv,
                TypeOK
  <2>4. \A v \in Workers \ {w} : SameWorker(v)
    BY <1>4 DEF Reject, Commit, CommitInDoubt, LoseConnection, Install,
                SameWorker, DbInv, TypeOK
  <2> QED
    BY <1>0, <2>1, <2>2, <2>3, <2>4, BlockEnds
<1>5. ASSUME NEW w \in Workers,
             \/ LoseIdleConnection(w)
             \/ \E throws \in BOOLEAN : Mirror(w, throws)
             \/ Respond(w)
      PROVE  NoLostUpdate'
  <2>1. ~InBlock(w) /\ ~InBlock(w)'
    BY <1>5 DEF LoseIdleConnection, Mirror, Respond, InBlock, DbInv, TypeOK
  <2>2. \A v \in Workers \ {w} : SameWorker(v)
    BY <1>5 DEF LoseIdleConnection, Mirror, Respond, SameWorker, DbInv, TypeOK
  <2>3. UNCHANGED <<tables, locks>>
    BY <1>5 DEF LoseIdleConnection, Mirror, Respond
  <2> QED
    BY <1>0, <2>1, <2>2, <2>3, OutsideBlock
<1>6. ASSUME NEW a \in Accounts, InsertAccount(a)
      PROVE  NoLostUpdate'
  <2>1. \A b \in Accounts : b # a => balance'[b] = balance[b]
    BY <1>6 DEF InsertAccount, DbInv, TypeOK
  <2>2. rowLock' = rowLock /\ version' = version
    BY <1>6 DEF InsertAccount
  <2>3. \A w \in Workers : rowLock[a] # w
    BY <1>6 DEF InsertAccount, DbInv, NoLostUpdate
  <2> QED
    BY <1>6, <2>1, <2>2, <2>3
       DEF InsertAccount, DbInv, NoLostUpdate, InBlock, Written, Executed
<1>7. CASE UNCHANGED vars
  BY <1>7 DEF vars, DbInv, NoLostUpdate, InBlock, Written, Executed
<1> QED
  BY <1>1, <1>2, <1>3, <1>4, <1>5, <1>6, <1>7 DEF Next, Step, Exhausted

(* The inductive invariant holds throughout. *)
LEMMA AlwaysDbInv == Spec => []DbInv
  BY InitDbInv, NextDbInv, PTL DEF Spec

(* Blocks never overwrite one another's updates. *)
THEOREM UpdatesAreNotLost == Spec => []NoLostUpdate
  BY AlwaysDbInv, PTL DEF DbInv

(* The lock ordering of transaction() leaves no cycle of blocks that wait  *)
(* for one another's rows.                                                 *)
THEOREM NoRowDeadlock == Spec => []WaitChainAscends
<1>1. ASSUME DbInv
      PROVE  WaitChainAscends
  <2> SUFFICES ASSUME NEW v \in Workers, NEW w \in Workers,
                      NEW a \in Accounts, NEW b \in Accounts,
                      rowLock[a] = w, WaitsFor(w, b)
               PROVE  a < b
    BY DEF WaitChainAscends
  <2>1. BlockShape(w) /\ Written(w, a)
    BY <1>1 DEF DbInv, Control, NoLostUpdate
  <2>2. a # b
    BY DEF WaitsFor
  <2>3. a \in Nat /\ b \in Nat
    BY AccountsAssumption
  <2>4. req[w] \in Request
    BY <2>1, RequestsAssumption DEF BlockShape
  <2>5. CASE pc[w] = "withdraw"
    <3>1. /\ b = req[w].account_id
          /\ a = DepositRow(req[w])
          /\ ~WithdrawsFirst(req[w])
          /\ Withdraws(req[w]) /\ Deposits(req[w])
      BY <2>1, <2>5 DEF WaitsFor, Written, BlockShape
    <3> QED
      BY <2>2, <2>3, <2>4, <3>1
         DEF WithdrawsFirst, Withdraws, Deposits, DepositRow
  <2>6. CASE pc[w] = "deposit"
    <3>1. /\ b = DepositRow(req[w])
          /\ a = req[w].account_id
          /\ WithdrawsFirst(req[w])
          /\ Withdraws(req[w]) /\ Deposits(req[w])
      BY <2>1, <2>6 DEF WaitsFor, Written, BlockShape
    <3> QED
      BY <2>3, <2>4, <3>1 DEF WithdrawsFirst, Withdraws, Deposits, DepositRow
  <2> QED
    BY <2>5, <2>6 DEF WaitsFor
<1> QED
  BY <1>1, AlwaysDbInv, PTL

(* The answer a client gets is never the opposite of what the tables say,  *)
(* and an ERROR for a committed request has one of two causes.             *)
THEOREM AnswersAreTrue == Spec => []AnswerIsTrue
<1>1. Init => AnswerIsTrue
  BY DEF Init, AnswerIsTrue
<1>2. DbInv /\ AnswerIsTrue /\ [Next]_vars => AnswerIsTrue'
  <2> SUFFICES ASSUME DbInv, AnswerIsTrue, [Next]_vars
               PROVE  AnswerIsTrue'
    OBVIOUS
  <2> USE DEF AnswerIsTrue, DbInv, TypeOK
  <2>1. ASSUME NEW w \in Workers, Begin(w)
        PROVE  AnswerIsTrue'
    BY <2>1 DEF Begin
  <2>2. ASSUME NEW w \in Workers, ExecWithdraw(w) \/ ExecDeposit(w)
        PROVE  AnswerIsTrue'
    BY <2>2 DEF ExecWithdraw, ExecDeposit
  <2>3. ASSUME NEW w \in Workers, Reject(w) \/ LoseConnection(w)
        PROVE  AnswerIsTrue'
    <3>1. ~committed[w]
      BY <2>3 DEF Reject, LoseConnection, Control, InBlock, BlockShape
    <3> QED
      BY <2>3, <3>1 DEF Reject, LoseConnection, locals
  <2>4. ASSUME NEW w \in Workers, Commit(w) \/ CommitInDoubt(w)
        PROVE  AnswerIsTrue'
    <3>1. reply[w] = "none"
      BY <2>4 DEF Commit, CommitInDoubt, Install, Control, InBlock, BlockShape
    <3> QED
      BY <2>4, <3>1 DEF Commit, CommitInDoubt, Install, locals
  <2>5. ASSUME NEW w \in Workers, NEW throws \in BOOLEAN, Mirror(w, throws)
        PROVE  AnswerIsTrue'
    <3>1. committed[w]
      BY <2>5 DEF Mirror, Control
    <3> QED
      BY <2>5, <3>1 DEF Mirror, locals
  <2>6. ASSUME NEW w \in Workers, Respond(w) \/ LoseIdleConnection(w)
        PROVE  AnswerIsTrue'
    BY <2>6 DEF Respond, LoseIdleConnection, locals
  <2>7. ASSUME NEW a \in Accounts, InsertAccount(a)
        PROVE  AnswerIsTrue'
    BY <2>7 DEF InsertAccount, locals
  <2>8. CASE UNCHANGED vars
    BY <2>8 DEF vars, locals
  <2> QED
    BY <2>1, <2>2, <2>3, <2>4, <2>5, <2>6, <2>7, <2>8 DEF Next, Step, Exhausted
<1> QED
  BY <1>1, <1>2, AlwaysDbInv, PTL DEF Spec

-----------------------------------------------------------------------------
(* At the commit, what the block of w sees is what the request as a whole  *)
(* does to every row: all of its statements have taken effect, on versions *)
(* nobody else has changed.                                                *)
LEMMA InstallEffect ==
    ASSUME DbInv, NEW w \in Workers, Install(w), NEW r, r = req[w]
    PROVE  /\ r \in Requests /\ ~NoRecipient(r) /\ r.type # "OTHER"
           /\ \A a : Effect(r, a) \in Int
           /\ balance' = [a \in Accounts |-> balance[a] + Effect(r, a)]
           /\ Withdraws(r) => r.account_id \in rows
           /\ Deposits(r) => DepositRow(r) \in rows
           /\ Withdraws(r) =>
                 balance[r.account_id] + Effect(r, r.account_id) >= 0
           /\ ledger' = ledger \o LedgerRows(r) /\ rows' = rows
<1>1. BlockShape(w) /\ InBlock(w) /\ pc[w] = "decide"
  BY DEF Install, DbInv, Control, InBlock
<1>2. r \in Requests /\ ~NoRecipient(r) /\ r.type # "OTHER" /\ r \in Request
  BY <1>1, RequestsAssumption DEF BlockShape
<1>3. /\ r.account_id \in Accounts
      /\ DepositRow(r) \in Accounts
      /\ \A a : DepositPart(r, a) \in Int /\ WithdrawPart(r, a) \in Int
  BY <1>2, RequestParts
<1>4. /\ withdrawResult[w] = 1 <=> Withdraws(r)
      /\ depositResult[w] = 1 <=> Deposits(r)
  BY <1>1 DEF Install, AllAffected, BlockShape, DbInv, TypeOK
<1>5. \A a : Executed(w, a) = Effect(r, a) /\ Effect(r, a) \in Int
  BY <1>3, <1>4 DEF Executed, Effect, DepositPart, WithdrawPart
<1>6. ASSUME NEW a \in Accounts
      PROVE  Visible(w, a) = balance[a] + Effect(r, a)
  <2>1. CASE rowLock[a] = w
    BY <1>5, <2>1 DEF DbInv, NoLostUpdate, Visible
  <2>2. CASE rowLock[a] # w
    <3>1. ~Written(w, a)
      BY <1>1, <2>2 DEF DbInv, NoLostUpdate
    <3>2. Effect(r, a) = 0
      BY <1>3, <1>4, <3>1 DEF Written, Effect, DepositPart, WithdrawPart
    <3> QED
      BY <2>2, <3>2 DEF Visible, DbInv, TypeOK
  <2> QED
    BY <2>1, <2>2
<1>7. balance' = [a \in Accounts |-> balance[a] + Effect(r, a)]
  BY <1>6 DEF Install
<1>8. /\ Withdraws(r) => r.account_id \in rows
      /\ Deposits(r) => DepositRow(r) \in rows
  BY <1>1, <1>3, <1>4 DEF DbInv, NoLostUpdate, Written
<1>9. ASSUME Withdraws(r)
      PROVE  balance[r.account_id] + Effect(r, r.account_id) >= 0
  <2>1. rowLock[r.account_id] = w
    BY <1>1, <1>3, <1>4, <1>9 DEF DbInv, NoLostUpdate, Written
  <2>2. version[w][r.account_id] >= 0
    BY <1>1, <1>4, <1>9 DEF DbInv, Funded
  <2> QED
    BY <1>3, <1>6, <2>1, <2>2 DEF Visible
<1>10. ledger' = ledger \o LedgerRows(r) /\ rows' = rows
  BY DEF Install
<1> QED
  BY <1>2, <1>5, <1>7, <1>8, <1>9, <1>10

LEMMA InstallPosts ==
    ASSUME DbInv, NEW w \in Workers, Install(w)
    PROVE  \E r \in Requests : Atomic!Post(r)
<1> DEFINE r == req[w]
<1>1. r \in Requests /\ Atomic!Post(r)
  BY InstallEffect
     DEF Atomic!Post, Atomic!Covered, Atomic!Withdraws, Atomic!Deposits,
         Atomic!DepositRow, Atomic!Effect, Atomic!DepositPart,
         Atomic!WithdrawPart, Atomic!LedgerRows, Atomic!NoAccount, Withdraws,
         Deposits, DepositRow, Effect, DepositPart, WithdrawPart, LedgerRows,
         NoAccount
<1> QED
  BY <1>1

(* The interleaved blocks implement AtomicBank: whatever the workers, the  *)
(* connections and the other blocks do, a request changes the committed    *)
(* tables as a whole, once, or not at all.                                 *)
THEOREM BlocksAreAtomic == Spec => RefinesAtomicBank
<1>1. Init => Atomic!Init
  BY DEF Init, Atomic!Init
<1>2. DbInv /\ [Next]_vars => [Atomic!Next]_(Atomic!tables)
  <2> SUFFICES ASSUME DbInv, [Next]_vars
               PROVE  Atomic!Next \/ UNCHANGED tables
    BY DEF Atomic!tables, tables
  <2>1. ASSUME NEW w \in Workers, Commit(w) \/ CommitInDoubt(w)
        PROVE  Atomic!Next
    <3>1. Install(w)
      BY <2>1 DEF Commit, CommitInDoubt
    <3> QED
      BY <3>1, InstallPosts DEF Atomic!Next
  <2>2. ASSUME NEW a \in Accounts, InsertAccount(a)
        PROVE  Atomic!Next
    BY <2>2 DEF InsertAccount, Atomic!Next, Atomic!Open
  <2>3. ASSUME NEW w \in Workers,
               \/ Begin(w)
               \/ ExecWithdraw(w)
               \/ ExecDeposit(w)
               \/ Reject(w)
               \/ \E throws \in BOOLEAN : Mirror(w, throws)
               \/ Respond(w)
               \/ LoseConnection(w)
               \/ LoseIdleConnection(w)
        PROVE  UNCHANGED tables
    BY <2>3 DEF Begin, ExecWithdraw, ExecDeposit, Reject, Mirror, Respond,
                LoseConnection, LoseIdleConnection
  <2>4. CASE UNCHANGED vars
    BY <2>4 DEF vars
  <2> QED
    BY <2>1, <2>2, <2>3, <2>4 DEF Next, Step, Exhausted
<1> QED
  BY <1>1, <1>2, AlwaysDbInv, PTL DEF Spec, RefinesAtomicBank, Atomic!Spec

-----------------------------------------------------------------------------
Total(L, a) == SumFunction([i \in DOMAIN L |-> Movement(L[i], a)])

(* Transaction_Table grows at its end. *)
LEMMA MovementsAdd ==
    ASSUME NEW L \in Seq(LedgerRow), NEW l \in LedgerRow, NEW a \in Accounts,
           NEW M, M = Append(L, l)
    PROVE  Total(L, a) \in Int /\ Total(M, a) = Total(L, a) + Movement(l, a)
<1> DEFINE f == [i \in DOMAIN L |-> Movement(L[i], a)]
           g == [i \in DOMAIN M |-> Movement(M[i], a)]
           n == Len(L)
<1>1. \A k \in LedgerRow : Movement(k, a) \in Int
  BY DEF Movement, Credits, LedgerRow
<1>2. /\ n \in Nat /\ DOMAIN L = 1..n /\ DOMAIN M = 1..(n + 1)
      /\ \A i \in 1..n : M[i] = L[i] /\ L[i] \in LedgerRow
      /\ M[n + 1] = l
  OBVIOUS
<1>3. f \in [1..n -> Int] /\ g \in [1..(n + 1) -> Int]
  BY <1>1, <1>2
<1>4. (\A i \in 1..n : g[i] = f[i]) /\ g[n + 1] = Movement(l, a)
  BY <1>2
<1> HIDE DEF f, g, n
<1>5. SumFunction(f) \in Int /\ SumFunction(g) = SumFunction(f) + Movement(l, a)
  BY <1>2, <1>3, <1>4, SumExtends
<1> QED
  BY <1>5 DEF f, g, Total

LEMMA MovementsTotal ==
    ASSUME NEW L \in Seq(LedgerRow), NEW a \in Accounts
    PROVE  Total(L, a) \in Int
<1> DEFINE f == [i \in DOMAIN L |-> Movement(L[i], a)]
<1>1. \A i \in 1..Len(L) : f[i] \in Int
  <2>1. \A l \in LedgerRow : Movement(l, a) \in Int
    BY DEF Movement, Credits, LedgerRow
  <2> QED
    BY <2>1
<1>2. DOMAIN f = 1..Len(L) /\ IsFiniteSet(1..Len(L))
  BY FS_Interval
<1> HIDE DEF f
<1>3. SumFunction(f) \in Int
  BY <1>1, <1>2, SumType DEF SumFunction
<1> QED
  BY <1>3 DEF f, Total

(* The rows recorded for a request say what the request does. *)
LEMMA RowsRecordEffect ==
    ASSUME NEW L \in Seq(LedgerRow), NEW r \in Requests, ~NoRecipient(r),
           r.type # "OTHER", NEW a \in Accounts, NEW M, M = L \o LedgerRows(r)
    PROVE  Total(M, a) = Total(L, a) + Effect(r, a)
<1>1. r \in Request /\ r.account_id # NoAccount
  BY RequestsAssumption, AccountsAssumption DEF Request
<1> DEFINE payer == [account_id |-> r.account_id, type |-> r.type,
                     amount |-> r.amount, from_account |-> NoAccount,
                     to_account |-> IF r.type = "TRANSFER" THEN r.to_account
                                                           ELSE NoAccount]
           payee == [account_id |-> r.to_account, type |-> r.type,
                     amount |-> r.amount, to_account |-> NoAccount,
                     from_account |-> r.account_id]
<1>2. payer \in LedgerRow
  BY <1>1 DEF LedgerRow, Request
<1>3. /\ Append(L, payer) \in Seq(LedgerRow) /\ Total(L, a) \in Int
      /\ Total(Append(L, payer), a) = Total(L, a) + Movement(payer, a)
  <2> HIDE DEF payer
  <2>1. Append(L, payer) \in Seq(LedgerRow)
    BY <1>2
  <2>2. /\ Total(L, a) \in Int
        /\ Total(Append(L, payer), a) = Total(L, a) + Movement(payer, a)
    BY <1>2, MovementsAdd, Zenon
  <2> QED
    BY <2>1, <2>2
<1>4. CASE r.type = "TRANSFER"
  <2>1. payee \in LedgerRow
    BY <1>1, <1>4 DEF LedgerRow, Request, NoRecipient
  <2>2. M = Append(Append(L, payer), payee)
    BY <1>2, <1>4, <2>1 DEF LedgerRows
  <2>3. Total(M, a) = Total(Append(L, payer), a) + Movement(payee, a)
    BY <1>3, <2>1, <2>2, MovementsAdd
  <2>4. Movement(payer, a) + Movement(payee, a) = Effect(r, a)
    <3>1. Movement(payer, a) = -WithdrawPart(r, a)
      BY <1>1, <1>4 DEF Movement, Credits, WithdrawPart, Withdraws, Request
    <3>2. Movement(payee, a) = DepositPart(r, a)
      BY <1>1, <1>4 DEF Movement, Credits, DepositPart, Deposits, DepositRow, Request
    <3> QED
      BY <3>1, <3>2, RequestParts DEF Effect
  <2>5. Movement(payer, a) \in Int /\ Movement(payee, a) \in Int
    BY <1>1 DEF Movement, Credits, Request
  <2> HIDE DEF payer, payee
  <2> QED
    BY <1>3, <2>3, <2>4, <2>5
<1>5. CASE r.type # "TRANSFER"
  <2>1. M = Append(L, payer)
    BY <1>2, <1>5 DEF LedgerRows
  <2>2. Movement(payer, a) = Effect(r, a)
    <3>1. r.type \in {"DEPOSIT", "WITHDRAW"}
      BY <1>1, <1>5 DEF Request, Types
    <3>2. Movement(payer, a) = DepositPart(r, a) - WithdrawPart(r, a)
      BY <1>1, <3>1 DEF Movement, Credits, DepositPart, WithdrawPart, Deposits, Withdraws,
                        DepositRow, Request
    <3> QED
      BY <3>2 DEF Effect
  <2> HIDE DEF payer
  <2> QED
    BY <1>3, <2>1, <2>2
<1> QED
  BY <1>4, <1>5

(* An account that is not there yet has no money and no history. *)
LedgerInv ==
    /\ DOMAIN InitialBalance \subseteq rows
    /\ \A a \in Accounts \ rows : balance[a] = 0
    /\ LedgerExplainsBalance

LEMMA PostKeepsLedger ==
    ASSUME DbInv, LedgerInv, NEW w \in Workers, Install(w)
    PROVE  LedgerInv'
<1> DEFINE r == req[w]
<1>1. /\ r \in Requests /\ ~NoRecipient(r) /\ r.type # "OTHER"
      /\ \A a : Effect(r, a) \in Int
      /\ balance' = [a \in Accounts |-> balance[a] + Effect(r, a)]
      /\ Withdraws(r) => r.account_id \in rows
      /\ Deposits(r) => DepositRow(r) \in rows
      /\ ledger' = ledger \o LedgerRows(r) /\ rows' = rows
  BY InstallEffect
<1> HIDE DEF r
<1>2. ledger \in Seq(LedgerRow) /\ balance \in [Accounts -> Int]
  BY DEF DbInv, TypeOK
<1>3. ASSUME NEW a \in Accounts \ rows
      PROVE  balance'[a] = 0
  <2>1. Effect(r, a) = 0
    BY <1>1 DEF Effect, DepositPart, WithdrawPart
  <2> QED
    BY <1>1, <1>2, <2>1 DEF LedgerInv
<1>4. ASSUME NEW a \in Accounts
      PROVE  balance'[a] = Starting(a)' + Recorded(a)'
  <2>1. Total(ledger', a) = Total(ledger, a) + Effect(r, a)
    BY <1>1, <1>2, RowsRecordEffect
  <2>2. Total(ledger, a) \in Int
    BY <1>2, MovementsTotal
  <2>3. Recorded(a) = Total(ledger, a) /\ Recorded(a)' = Total(ledger', a)
    BY DEF Recorded, Total
  <2>4. Starting(a)' = Starting(a) /\ Starting(a) \in Int
    BY <1>1, BalanceAssumption DEF Starting
  <2>5. balance[a] = Starting(a) + Recorded(a)
    BY DEF LedgerInv, LedgerExplainsBalance
  <2>6. balance'[a] = balance[a] + Effect(r, a) /\ Effect(r, a) \in Int
    BY <1>1
  <2> QED
    BY <2>1, <2>2, <2>3, <2>4, <2>5, <2>6
<1> QED
  BY <1>1, <1>3, <1>4 DEF LedgerInv, LedgerExplainsBalance

LEMMA OpenKeepsLedger ==
    ASSUME DbInv, LedgerInv, NEW b \in Accounts, InsertAccount(b)
    PROVE  LedgerInv'
<1>1. /\ b \notin rows /\ rows' = rows \union {b} /\ ledger' = ledger
      /\ balance' = [balance EXCEPT ![b] = OpeningBalance]
  BY DEF InsertAccount
<1>2. ledger \in Seq(LedgerRow) /\ balance \in [Accounts -> Int]
  BY DEF DbInv, TypeOK
<1>3. ASSUME NEW a \in Accounts
      PROVE  balance'[a] = Starting(a)' + Recorded(a)'
  <2>1. balance[a] = Starting(a) + Recorded(a)
    BY DEF LedgerInv, LedgerExplainsBalance
  <2>2. Recorded(a) \in Int
    BY <1>2, MovementsTotal DEF Recorded, Total
  <2>3. Recorded(a)' = Recorded(a)
    BY <1>1 DEF Recorded
  <2>4. CASE a = b
    <3>1. Starting(a) = 0 /\ balance[a] = 0 /\ Starting(a)' = OpeningBalance
      BY <1>1, <2>4 DEF Starting, LedgerInv
    <3> QED
      BY <1>1, <1>2, <2>1, <2>2, <2>3, <2>4, <3>1, BalanceAssumption
  <2>5. CASE a # b
    <3>1. balance'[a] = balance[a] /\ Starting(a)' = Starting(a)
      BY <1>1, <1>2, <2>5 DEF Starting
    <3> QED
      BY <2>1, <2>3, <3>1
  <2> QED
    BY <2>4, <2>5
<1> QED
  BY <1>1, <1>2, <1>3 DEF LedgerInv, LedgerExplainsBalance

LEMMA AlwaysLedgerInv == Spec => []LedgerInv
<1>1. Init => LedgerInv
  <2> SUFFICES ASSUME Init
               PROVE  LedgerInv
    OBVIOUS
  <2>1. ASSUME NEW a \in Accounts
        PROVE  balance[a] = Starting(a) + Recorded(a)
    <3> DEFINE f == [i \in DOMAIN ledger |-> Movement(ledger[i], a)]
    <3>1. DOMAIN f = {}
      BY DEF Init
    <3> HIDE DEF f
    <3>2. SumFunction(f) = SumFunctionOnSet(f, {})
      BY <3>1, Zenon DEF SumFunction
    <3>3. SumFunction(f) = 0
      BY <3>2, SumOverNothing
    <3>4. balance[a] = Starting(a) /\ balance[a] \in Int
      BY BalanceAssumption DEF Init, Starting
    <3>5. balance[a] = Starting(a) + SumFunction(f)
      BY <3>3, <3>4
    <3> QED
      BY <3>5 DEF f, Recorded
  <2> QED
    BY <2>1 DEF Init, LedgerInv, LedgerExplainsBalance
<1>2. DbInv /\ LedgerInv /\ [Next]_vars => LedgerInv'
  <2> SUFFICES ASSUME DbInv, LedgerInv, [Next]_vars
               PROVE  LedgerInv'
    OBVIOUS
  <2>1. ASSUME NEW w \in Workers, Commit(w) \/ CommitInDoubt(w)
        PROVE  LedgerInv'
    <3>1. Install(w)
      BY <2>1 DEF Commit, CommitInDoubt
    <3> QED
      BY <3>1, PostKeepsLedger
  <2>2. CASE UNCHANGED tables
    BY <2>2 DEF tables, LedgerInv, LedgerExplainsBalance, Starting, Recorded
  <2>3. ASSUME NEW w \in Workers,
               \/ Begin(w)
               \/ ExecWithdraw(w)
               \/ ExecDeposit(w)
               \/ Reject(w)
               \/ \E throws \in BOOLEAN : Mirror(w, throws)
               \/ Respond(w)
               \/ LoseConnection(w)
               \/ LoseIdleConnection(w)
        PROVE  UNCHANGED tables
    BY <2>3 DEF Begin, ExecWithdraw, ExecDeposit, Reject, Mirror, Respond,
                LoseConnection, LoseIdleConnection
  <2>4. UNCHANGED vars => UNCHANGED tables
    BY DEF vars
  <2> QED
    BY <2>1, <2>2, <2>3, <2>4, OpenKeepsLedger DEF Next, Step, Exhausted
<1> QED
  BY <1>1, <1>2, AlwaysDbInv, PTL DEF Spec

(* Whatever the workers, the connections and create_account() do, every    *)
(* balance is its starting value plus what Transaction_Table records.      *)
THEOREM HistoryExplainsBalances == Spec => []LedgerExplainsBalance
  BY AlwaysLedgerInv, PTL DEF LedgerInv

-----------------------------------------------------------------------------
Debt(L, a) == SumFunction([i \in DOMAIN L |-> NegativeCredit(L[i], a)])

LEMMA DebtAdds ==
    ASSUME NEW L \in Seq(LedgerRow), NEW l \in LedgerRow, NEW a \in Accounts,
           NEW M, M = Append(L, l)
    PROVE  Debt(L, a) \in Int /\ Debt(M, a) = Debt(L, a) + NegativeCredit(l, a)
<1> DEFINE f == [i \in DOMAIN L |-> NegativeCredit(L[i], a)]
           g == [i \in DOMAIN M |-> NegativeCredit(M[i], a)]
           n == Len(L)
<1>1. \A k \in LedgerRow : NegativeCredit(k, a) \in Int
  BY DEF NegativeCredit, Movement, LedgerRow
<1>2. /\ n \in Nat /\ DOMAIN L = 1..n /\ DOMAIN M = 1..(n + 1)
      /\ \A i \in 1..n : M[i] = L[i] /\ L[i] \in LedgerRow
      /\ M[n + 1] = l
  OBVIOUS
<1>3. f \in [1..n -> Int] /\ g \in [1..(n + 1) -> Int]
  BY <1>1, <1>2
<1>4. (\A i \in 1..n : g[i] = f[i]) /\ g[n + 1] = NegativeCredit(l, a)
  BY <1>2
<1> HIDE DEF f, g, n
<1>5. /\ SumFunction(f) \in Int
      /\ SumFunction(g) = SumFunction(f) + NegativeCredit(l, a)
  BY <1>2, <1>3, <1>4, SumExtends
<1> QED
  BY <1>5 DEF f, g, Debt

LEMMA DebtIsNatural ==
    ASSUME NEW L \in Seq(LedgerRow), NEW a \in Accounts
    PROVE  Debt(L, a) \in Nat
<1> DEFINE f == [i \in DOMAIN L |-> NegativeCredit(L[i], a)]
<1>1. \A i \in 1..Len(L) : f[i] \in Nat
  <2>1. \A l \in LedgerRow : NegativeCredit(l, a) \in Nat
    BY DEF NegativeCredit, Movement, LedgerRow
  <2> QED
    BY <2>1
<1>2. DOMAIN f = 1..Len(L) /\ IsFiniteSet(1..Len(L))
  BY FS_Interval
<1> HIDE DEF f
<1>3. SumFunction(f) \in Nat
  BY <1>1, <1>2, SumNotNegative DEF SumFunction
<1> QED
  BY <1>3 DEF f, Debt

(* The rows recorded for a request own up to what its deposit takes. *)
LEMMA RowsRecordDebt ==
    ASSUME NEW L \in Seq(LedgerRow), NEW r \in Requests, ~NoRecipient(r),
           r.type # "OTHER", NEW a \in Accounts, NEW M, M = L \o LedgerRows(r)
    PROVE  /\ M \in Seq(LedgerRow)
           /\ Debt(M, a) + DepositPart(r, a) >= Debt(L, a)
<1>1. r \in Request /\ r.account_id # NoAccount
  BY RequestsAssumption, AccountsAssumption DEF Request
<1> DEFINE payer == [account_id |-> r.account_id, type |-> r.type,
                     amount |-> r.amount, from_account |-> NoAccount,
                     to_account |-> IF r.type = "TRANSFER" THEN r.to_account
                                                           ELSE NoAccount]
           payee == [account_id |-> r.to_account, type |-> r.type,
                     amount |-> r.amount, to_account |-> NoAccount,
                     from_account |-> r.account_id]
<1>2. payer \in LedgerRow
  BY <1>1 DEF LedgerRow, Request
<1>3. \A l \in LedgerRow : NegativeCredit(l, a) \in Nat
  BY DEF NegativeCredit, Movement, LedgerRow
<1>4. M \in Seq(LedgerRow) /\ DepositPart(r, a) \in Int
  BY LedgerRowsType, RequestParts
<1>5. /\ Append(L, payer) \in Seq(LedgerRow) /\ Debt(L, a) \in Int
      /\ Debt(Append(L, payer), a) = Debt(L, a) + NegativeCredit(payer, a)
  <2> HIDE DEF payer
  <2>1. Append(L, payer) \in Seq(LedgerRow)
    BY <1>2
  <2>2. /\ Debt(L, a) \in Int
        /\ Debt(Append(L, payer), a) = Debt(L, a) + NegativeCredit(payer, a)
    BY <1>2, DebtAdds, Zenon
  <2> QED
    BY <2>1, <2>2
<1>6. CASE r.type = "TRANSFER"
  <2>1. payee \in LedgerRow
    BY <1>1, <1>6 DEF LedgerRow, Request, NoRecipient
  <2>2. M = Append(Append(L, payer), payee)
    BY <1>2, <1>6, <2>1 DEF LedgerRows
  <2>3. Debt(M, a) = Debt(Append(L, payer), a) + NegativeCredit(payee, a)
    BY <1>5, <2>1, <2>2, DebtAdds
  <2>4. NegativeCredit(payee, a) + DepositPart(r, a) >= 0
    BY <1>1, <1>6 DEF NegativeCredit, Movement, Credits, DepositPart, Deposits,
                      DepositRow, Request
  <2>5. NegativeCredit(payer, a) \in Nat /\ NegativeCredit(payee, a) \in Nat
    BY <1>2, <1>3, <2>1
  <2> HIDE DEF payer, payee
  <2> QED
    BY <1>4, <1>5, <2>3, <2>4, <2>5
<1>7. CASE r.type # "TRANSFER"
  <2>1. M = Append(L, payer)
    BY <1>2, <1>7 DEF LedgerRows
  <2>2. NegativeCredit(payer, a) + DepositPart(r, a) >= 0
    BY <1>1, <1>7 DEF NegativeCredit, Movement, Credits, DepositPart, Deposits,
                      DepositRow, Request
  <2>3. NegativeCredit(payer, a) \in Nat
    BY <1>2, <1>3
  <2> HIDE DEF payer
  <2> QED
    BY <1>4, <1>5, <2>1, <2>2, <2>3
<1> QED
  BY <1>6, <1>7

(* A committed request that pays leaves its payer with what the WHERE      *)
(* clause made sure of; anything else it takes from an account is recorded *)
(* as a negative credit.                                                   *)
LEMMA PostKeepsSolvent ==
    ASSUME DbInv, NoOverdraft, NEW w \in Workers, Install(w)
    PROVE  NoOverdraft'
<1> DEFINE r == req[w]
<1>1. /\ r \in Requests /\ ~NoRecipient(r) /\ r.type # "OTHER"
      /\ balance' = [a \in Accounts |-> balance[a] + Effect(r, a)]
      /\ Withdraws(r) =>
            balance[r.account_id] + Effect(r, r.account_id) >= 0
      /\ ledger' = ledger \o LedgerRows(r)
  BY InstallEffect
<1> HIDE DEF r
<1>2. ledger \in Seq(LedgerRow) /\ balance \in [Accounts -> Int]
  BY DEF DbInv, TypeOK
<1>3. ASSUME NEW a \in Accounts
      PROVE  balance'[a] + NegativeCredits(a)' >= 0
  <2>1. /\ ledger' \in Seq(LedgerRow)
        /\ Debt(ledger', a) + DepositPart(r, a) >= Debt(ledger, a)
    BY <1>1, <1>2, RowsRecordDebt
  <2>2. Debt(ledger, a) \in Nat /\ Debt(ledger', a) \in Nat
    BY <1>2, <2>1, DebtIsNatural
  <2>3. /\ NegativeCredits(a) = Debt(ledger, a)
        /\ NegativeCredits(a)' = Debt(ledger', a)
    BY DEF NegativeCredits, Debt
  <2>4. /\ DepositPart(r, a) \in Int /\ WithdrawPart(r, a) \in Int
        /\ balance[a] \in Int /\ balance'[a] = balance[a] + Effect(r, a)
    BY <1>1, <1>2, RequestParts
  <2>5. CASE Withdraws(r) /\ r.account_id = a
    BY <1>1, <2>2, <2>3, <2>4, <2>5 DEF Effect
  <2>6. CASE ~(Withdraws(r) /\ r.account_id = a)
    <3>1. Effect(r, a) = DepositPart(r, a)
      BY <2>4, <2>6 DEF Effect, WithdrawPart
    <3>2. balance[a] + Debt(ledger, a) >= 0
      BY <2>3 DEF NoOverdraft
    <3> QED
      BY <2>1, <2>2, <2>3, <2>4, <3>1, <3>2
  <2> QED
    BY <2>5, <2>6
<1> QED
  BY <1>3 DEF NoOverdraft

(* The WHERE clauses of transaction() are enough, without any lock of the  *)
(* program's own: whatever the requests, the amounts of either sign, the   *)
(* connections and the other blocks, no account is overdrawn by paying.    *)
THEOREM NeverOverdrawn == Spec => []NoOverdraft
<1>0. ASSUME NEW a \in Accounts, TypeOK
      PROVE  NegativeCredits(a) \in Nat
  BY <1>0, DebtIsNatural DEF NegativeCredits, Debt, TypeOK
<1>1. Init => NoOverdraft
  <2> SUFFICES ASSUME Init, NEW a \in Accounts
               PROVE  balance[a] + NegativeCredits(a) >= 0
    BY DEF NoOverdraft
  <2>1. balance[a] \in Nat
    BY BalanceAssumption DEF Init
  <2>2. NegativeCredits(a) \in Nat
    BY <1>0, InitControl
  <2> QED
    BY <2>1, <2>2
<1>2. DbInv /\ NoOverdraft /\ [Next]_vars => NoOverdraft'
  <2> SUFFICES ASSUME DbInv, NoOverdraft, [Next]_vars
               PROVE  NoOverdraft'
    OBVIOUS
  <2>1. ASSUME NEW w \in Workers, Commit(w) \/ CommitInDoubt(w)
        PROVE  NoOverdraft'
    <3>1. Install(w)
      BY <2>1 DEF Commit, CommitInDoubt
    <3> QED
      BY <3>1, PostKeepsSolvent
  <2>2. ASSUME NEW b \in Accounts, InsertAccount(b)
        PROVE  NoOverdraft'
    <3> SUFFICES ASSUME NEW a \in Accounts
                 PROVE  balance'[a] + NegativeCredits(a)' >= 0
      BY DEF NoOverdraft
    <3>1. NegativeCredits(a)' = NegativeCredits(a)
      BY <2>2 DEF InsertAccount, NegativeCredits
    <3>2. NegativeCredits(a) \in Nat
      BY <1>0 DEF DbInv
    <3>3. balance'[a] = balance[a] \/ balance'[a] \in Nat
      BY <2>2, BalanceAssumption DEF InsertAccount, DbInv, TypeOK
    <3>4. balance[a] + NegativeCredits(a) >= 0
      BY DEF NoOverdraft
    <3> QED
      BY <3>1, <3>2, <3>3, <3>4
  <2>3. CASE UNCHANGED tables
    BY <2>3 DEF tables, NoOverdraft, NegativeCredits
  <2>4. ASSUME NEW w \in Workers,
               \/ Begin(w)
               \/ ExecWithdraw(w)
               \/ ExecDeposit(w)
               \/ Reject(w)
               \/ \E throws \in BOOLEAN : Mirror(w, throws)
               \/ Respond(w)
               \/ LoseConnection(w)
               \/ LoseIdleConnection(w)
        PROVE  UNCHANGED tables
    BY <2>4 DEF Begin, ExecWithdraw, ExecDeposit, Reject, Mirror, Respond,
                LoseConnection, LoseIdleConnection
  <2>5. UNCHANGED vars => UNCHANGED tables
    BY DEF vars
  <2> QED
    BY <2>1, <2>2, <2>3, <2>4, <2>5 DEF Next, Step, Exhausted
<1> QED
  BY <1>1, <1>2, AlwaysDbInv, PTL DEF Spec
=============================================================================
