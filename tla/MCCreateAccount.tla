-------------------------- MODULE MCCreateAccount --------------------------
(***************************************************************************)
(* create_account() on the server's two event loop threads.                *)
(***************************************************************************)
EXTENDS CreateAccount

(* One user is there; his number may be drawn again. *)
mc_InitialAccounts == {[user |-> 1, number |-> 101]}

mc_Numbers == {101, 102, 103}
=============================================================================
