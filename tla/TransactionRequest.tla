------------------------- MODULE TransactionRequest -------------------------
(***************************************************************************)
(* TransactionRequest and the statements Load_DB::transaction issues for   *)
(* one: which rows are written, by how much, and what is recorded.         *)
(*                                                                         *)
(* actual_balance and available_balance change by the same amount in every *)
(* statement and hold_amount in none, so one number per row, the available *)
(* balance, stands for the three.  Amounts are cents.                      *)
(***************************************************************************)
EXTENDS Integers, Sequences

CONSTANTS
    Accounts,         \* account ids a request may name
    Requests          \* TransactionRequests the clients may send

NoAccount == 0        \* std::nullopt of to_account / from_account

(* "OTHER" stands for every string that is not one of the three.           *)
Types == {"WITHDRAW", "DEPOSIT", "TRANSFER", "OTHER"}

(* The amount is an int64_t of either sign.  Only SendMoneyPage and        *)
(* DepositPage of the client insist on a positive one: AdminPanel does     *)
(* not, the parser of the server does not, and Account's check comes after *)
(* the commit.                                                             *)
Request == [type : Types, account_id : Accounts,
            to_account : Accounts \union {NoAccount}, amount : Int]

ASSUME AccountsAssumption == Accounts \subseteq Nat \ {NoAccount}

ASSUME RequestsAssumption == Requests \subseteq Request

-----------------------------------------------------------------------------
Withdraws(r) == r.type \in {"WITHDRAW", "TRANSFER"}

Deposits(r) == r.type \in {"DEPOSIT", "TRANSFER"}

(* The row the deposit statement names. *)
DepositRow(r) == IF r.type = "TRANSFER" THEN r.to_account ELSE r.account_id

(* to_account.value() throws on a transfer that names no recipient. *)
NoRecipient(r) == r.type = "TRANSFER" /\ r.to_account = NoAccount

(* What the deposit and the withdraw statement add to row a. *)
DepositPart(r, a) ==
    IF Deposits(r) /\ DepositRow(r) = a THEN r.amount ELSE 0

WithdrawPart(r, a) ==
    IF Withdraws(r) /\ r.account_id = a THEN r.amount ELSE 0

(* What a committed request does to the balance of row a. *)
Effect(r, a) == DepositPart(r, a) - WithdrawPart(r, a)

(* Mutant: the parameters of the INSERT are bound in the wrong order. *)
LedgerRowsMisbound(r) ==
    <<[account_id |-> r.to_account, type |-> r.type, amount |-> r.amount,
       from_account |-> r.account_id, to_account |-> r.account_id]>>

(* The INSERTs into Transaction_Table: one row, or one for either side of  *)
(* a transfer.                                                             *)
LedgerRows(r) ==
    LET payer == [account_id |-> r.account_id, type |-> r.type,
                  amount |-> r.amount, from_account |-> NoAccount,
                  to_account |-> IF r.type = "TRANSFER" THEN r.to_account
                                                        ELSE NoAccount]
        payee == [account_id |-> r.to_account, type |-> r.type,
                  amount |-> r.amount, to_account |-> NoAccount,
                  from_account |-> r.account_id]
    IN IF r.type = "TRANSFER" THEN <<payer, payee>> ELSE <<payer>>

(* A row of Transaction_Table. *)
LedgerRow == [account_id : Accounts, type : Types, amount : Int,
              to_account : Accounts \union {NoAccount},
              from_account : Accounts \union {NoAccount}]
=============================================================================
