--------------------------- MODULE MCCircuitBreaker ---------------------------
(* An instance of CircuitBreaker for TLC. *)
EXTENDS CircuitBreaker, TLC

CONSTANTS c1, c2, r1, r2

OneEach == c1 :> r1 @@ c2 :> r2
=============================================================================
