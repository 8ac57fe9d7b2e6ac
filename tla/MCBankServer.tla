---------------------------- MODULE MCBankServer ----------------------------
(***************************************************************************)
(* Small instances of BankServer: accounts 1 and 2 of two users are there  *)
(* from the start, account 3 of a third user may be created.               *)
(***************************************************************************)
EXTENDS BankServer, TLC

CONSTANTS w1, w2, w3

MCAccounts == {1, 2, 3}

TwoAccounts == {1, 2}

(* The users are named after their first account. *)
OwnUser == [a \in Accounts |-> a]

ScarceBalance == (1 :> 0) @@ (2 :> 1)

MixedBalance == (1 :> 0) @@ (2 :> 9)

AmpleBalance == (1 :> 9) @@ (2 :> 9)

R(type, from, t, amount) ==
    [type |-> type, account_id |-> from, to_account |-> t, amount |-> amount]

(* The requests that the clients' pages let through, between two accounts. *)
TwoAccountRequests ==
    { R("DEPOSIT", 1, NoAccount, 1), R("WITHDRAW", 2, NoAccount, 1),
      R("TRANSFER", 1, 2, 1),        R("TRANSFER", 2, 1, 1) }

SelfTransfer == { R("TRANSFER", 1, 1, 1) }

(* A transfer that waits for itself and one of nothing, which jumps over    *)
(* the unlocks, beside the ordinary ones between the same accounts.        *)
MirrorRequests ==
    TwoAccountRequests \union { R("TRANSFER", 2, 2, 1), R("TRANSFER", 2, 1, 0) }

(* Opposite transfers, one to an account that Bank's index may not know,   *)
(* a withdrawal from it, and a deposit of nothing, which AdminPanel lets   *)
(* through.                                                                *)
MixedRequests ==
    { R("TRANSFER", 1, 2, 1), R("TRANSFER", 2, 1, 1), R("TRANSFER", 2, 3, 1),
      R("WITHDRAW", 3, NoAccount, 1), R("DEPOSIT", 1, NoAccount, 0) }
=============================================================================
