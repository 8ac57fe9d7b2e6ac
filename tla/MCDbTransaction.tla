-------------------------- MODULE MCDbTransaction --------------------------
(***************************************************************************)
(* Small instances of DbTransaction.  Accounts 1 and 2 exist and 3 may be  *)
(* created while requests that name it are under way.  The balances are    *)
(* such that every withdrawal is affordable in some interleavings only.    *)
(***************************************************************************)
EXTENDS DbTransaction

CONSTANTS w1, w2

MCAccounts == {1, 2, 3}

MCInitialBalance == [a \in {1, 2} |-> a]

R(type, from, to, amount) ==
    [type |-> type, account_id |-> from, to_account |-> to, amount |-> amount]

(* Every path of transaction(): opposite transfers, a transfer to oneself, *)
(* to a missing account, without recipient, of nothing, of less than       *)
(* nothing, an unknown type.                                               *)
AllRequests ==
    { R("DEPOSIT", 1, NoAccount, 1),  R("WITHDRAW", 2, NoAccount, 2),
      R("TRANSFER", 1, 2, 1),         R("TRANSFER", 2, 1, 2),
      R("TRANSFER", 1, 1, 2),         R("TRANSFER", 1, 3, 1),
      R("TRANSFER", 2, NoAccount, 1), R("DEPOSIT", 2, NoAccount, 0),
      R("DEPOSIT", 3, NoAccount, 1),  R("OTHER", 1, NoAccount, 1),
      R("DEPOSIT", 1, NoAccount, -2), R("TRANSFER", 2, 1, -2) }
=============================================================================
