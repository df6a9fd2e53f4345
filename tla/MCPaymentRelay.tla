--------------------------- MODULE MCPaymentRelay ---------------------------
(* PaymentRelay on small instances: a dead letter for each delivery. *)
EXTENDS PaymentRelay

Deliveries == Envelopes \X Consumers
=============================================================================
