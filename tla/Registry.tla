------------------------------ MODULE Registry ------------------------------
(***************************************************************************)
(* What create_account() promises of User_Table and Account_Table: a new   *)
(* user appears together with an account, a further account is added only  *)
(* to a user who is there, and no two accounts share a number.             *)
(***************************************************************************)
CONSTANTS
    UserIds,          \* ids a user may be given
    Numbers,          \* account numbers
    InitialAccounts   \* [user, number] rows stored before the server starts

VARIABLES
    users,            \* ids in User_Table
    accounts          \* rows of Account_Table

RegistryInit ==
    /\ users = {a.user : a \in InitialAccounts}
    /\ accounts = InitialAccounts

Unused == {n \in Numbers : \A a \in accounts : a.number # n}

Add(u) == \E n \in Unused : accounts' = accounts \union {[user |-> u, number |-> n]}

RegisterUser == \E u \in UserIds \ users : Add(u) /\ users' = users \union {u}

AddAccount == \E u \in users : Add(u) /\ UNCHANGED users

RegistryNext == RegisterUser \/ AddAccount

RegistrySpec == RegistryInit /\ [][RegistryNext]_<<users, accounts>>
=============================================================================
