------------------------- MODULE MCTransactionOrders -------------------------
(* TransactionOrders on small instances: two request bodies. *)
EXTENDS TransactionOrders, TLC

(* A small order that executes itself, and a high-value dry run. *)
autoBuy == [amount |-> 1, currency |-> "MXN", sensitive |-> FALSE,
            dry |-> FALSE, auto |-> TRUE]
highDry == [amount |-> 2, currency |-> "MXN", sensitive |-> FALSE,
            dry |-> TRUE, auto |-> FALSE]

TwoBodies == {autoBuy, highDry}
OneBody == {autoBuy}

(* A limit in the currency of the orders, and one that is not compared. *)
TwoCurrencies == [daily |-> "MXN", monthly |-> "USD"]
TwoMaxima == [daily |-> 2, monthly |-> 1]

(* The handlers are interchangeable. *)
TaskSymmetry == Permutations(Tasks)
=============================================================================
