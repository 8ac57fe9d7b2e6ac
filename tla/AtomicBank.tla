----------------------------- MODULE AtomicBank -----------------------------
(***************************************************************************)
(* What the database half of the bank promises: a request is posted in one *)
(* step, on both of its accounts and in the transaction history, and only  *)
(* when every account it names exists and a paying account covers it.      *)
(* Everything else a transaction worker does is invisible here.            *)
(***************************************************************************)
EXTENDS TransactionRequest

CONSTANTS
    InitialBalance,   \* rows of Account_Table when the server starts
    OpeningBalance    \* balance of a freshly opened account

VARIABLES rows, balance, ledger

tables == <<rows, balance, ledger>>

Init ==
    /\ rows = DOMAIN InitialBalance
    /\ balance = [a \in Accounts |-> IF a \in DOMAIN InitialBalance
                                     THEN InitialBalance[a] ELSE 0]
    /\ ledger = <<>>

(* A transfer to oneself moves nothing: it is covered unless the account   *)
(* is overdrawn already.  Nothing is asked of a deposit, not even that its *)
(* amount is positive.                                                     *)
Covered(r) ==
    /\ Withdraws(r) => /\ r.account_id \in rows
                       /\ balance[r.account_id] + Effect(r, r.account_id) >= 0
    /\ Deposits(r) => DepositRow(r) \in rows

Post(r) ==
    /\ r.type # "OTHER"
    /\ Covered(r)
    /\ balance' = [a \in Accounts |-> balance[a] + Effect(r, a)]
    /\ ledger' = ledger \o LedgerRows(r)
    /\ UNCHANGED rows

Open(a) ==
    /\ a \notin rows
    /\ rows' = rows \union {a}
    /\ balance' = [balance EXCEPT ![a] = OpeningBalance]
    /\ UNCHANGED ledger

Next ==
    \/ \E r \in Requests : Post(r)
    \/ \E a \in Accounts : Open(a)

Spec == Init /\ [][Next]_tables
=============================================================================
