-------------------------- MODULE MCReferralRewards --------------------------
(* ReferralRewards on small instances. *)
EXTENDS ReferralRewards, TLC

(* Every delivery carries the one code. *)
OneCode == [d \in Deliveries |-> CHOOSE c \in Codes : TRUE]

AnyReferrer == [c \in Codes |-> CHOOSE u \in Users : TRUE]

(* The referred user is not the referrer. *)
AnyReferred == [c \in Codes |-> CHOOSE u \in Users : u # AnyReferrer[c]]

OneOfEach == {"extension", "referredCredit"}

(* Deliveries of one code are interchangeable. *)
DeliverySymmetry == Permutations(Deliveries)
=============================================================================
