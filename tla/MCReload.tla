------------------------------ MODULE MCReload ------------------------------
(***************************************************************************)
(* Three users, the second without an account, and room for one account    *)
(* more, of theirs or of a fourth user; two buckets, so that users share   *)
(* one.                                                                    *)
(***************************************************************************)
EXTENDS FraudReport

mc_InitialOwner == <<1, 3>>

Transaction(type, a, to, amount, delay) ==
    [request |-> [type |-> type, account_id |-> a, to_account |-> to,
                  amount |-> amount], delay |-> delay]

(* Circles of one, two and three hops, an amount that shrinks, one that    *)
(* grows and one below the threshold.                                      *)
mc_Planned ==
    {Transaction("TRANSFER", 1, 2, 100, 0), Transaction("TRANSFER", 2, 1, 97, 1),
     Transaction("TRANSFER", 2, 3, 97, 1),  Transaction("TRANSFER", 3, 1, 97, 0),
     Transaction("TRANSFER", 2, 1, 100, 0), Transaction("TRANSFER", 2, 2, 90, 0),
     Transaction("DEPOSIT", 1, 0, 100, 0)}

Detector(min, window, length) ==
    [minAmountThreshold |-> min, amountTolerance |-> 5, maxWindowSeconds |-> window,
     maxCycleLength |-> length]

mc_Detectors == {Detector(95, 1, 2), Detector(0, 0, 3), Detector(95, 9, 12)}

(* The transfers fraud_test.cpp plants, in units of 500 cents, between     *)
(* accounts in any order, and the detector it uses.                        *)
mc_PlantedTransfers ==
    {Transaction("TRANSFER", p[1], p[2], 200, 0) : p \in {<<1, 2>>, <<2, 1>>}}
    \union {Transaction("TRANSFER", p[1], p[2], 196, 0) : p \in {<<2, 3>>, <<1, 3>>}}
    \union {Transaction("TRANSFER", 3, a, 193, 0) : a \in {1, 2}}

mc_PlantedOwner == <<1, 2, 3>>

mc_TestDetector == {Detector(20, 604800, 12)}

(* The planted cycle A -> B -> C -> A is flagged. *)
PlantedCycleFlagged ==
    \A a, b, c \in DOMAIN owner :
        LET paid == TransfersOf(txns)
            Done(from, to, amount) ==
                \E i \in DOMAIN paid :
                    paid[i].from = from /\ paid[i].to = to /\ paid[i].amount = amount
        IN  Done(a, b, 200) /\ Done(b, c, 196) /\ Done(c, a, 193) /\ a # c =>
                \A d \in Detectors : detectCycles(d, FreshLoad) # <<>>
=============================================================================
