---------------------------- MODULE FraudReport ----------------------------
(***************************************************************************)
(* The fraud detector on what Reload loads: fraud_test.cpp makes a Load_DB *)
(* and runs detectCycles() on its bank_db.                                 *)
(***************************************************************************)
EXTENDS Reload, FraudDetector

CONSTANT Detectors    \* arguments of FraudDetector's constructor

TransfersOf(rows) ==
    LET paid == SelectSeq(rows, LAMBDA t : t.type = "TRANSFER" /\ t.to_account # Null)
    IN  [i \in DOMAIN paid |-> [from |-> paid[i].account_id, to |-> paid[i].to_account,
                                amount |-> paid[i].amount, timestamp |-> paid[i].at]]

(* detectCycles() on a fresh load flags exactly the circular flows there   *)
(* are in Transaction_Table, each as often as there are ways to go round.  *)
FlaggedExactly ==
    LET loaded == FreshLoad
        transfers == TransfersOf(txns)
    IN  \A d \in Detectors :
            LET flagged == detectCycles(d, loaded)
                walks == SuspiciousWalks(d, transfers)
            IN  /\ ToSet(flagged) = {NodesOf(w, transfers) : w \in walks}
                /\ Len(flagged) = Cardinality(walks)
=============================================================================
