---------------------------- MODULE MCBankClient ----------------------------
(***************************************************************************)
(* A user with two accounts, whose balances cannot be mistaken for one     *)
(* another within the bounds, and a user without any.                      *)
(***************************************************************************)
EXTENDS BankClient, TLC

mc_AccountsOf == (1 :> {11, 12}) @@ (2 :> {})

mc_AdminAmounts == {1}

mc_InitialBalance == (11 :> 0) @@ (12 :> 10)
=============================================================================
