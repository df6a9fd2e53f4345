----------------------------- MODULE MCEstateWills -----------------------------
(* An instance of EstateWills for TLC.  No property singles out a will or a  *)
(* request, and none is about liveness, so both may be permuted.             *)
EXTENDS EstateWills, TLC

CONSTANTS w1, w2, r1, r2

Symmetric == Permutations(Will) \cup Permutations(Request)
=============================================================================
