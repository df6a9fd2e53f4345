------------------------ MODULE MCSubscriptionBilling ------------------------
(* An instance of SubscriptionBilling for TLC. *)
EXTENDS SubscriptionBilling

CONSTANTS s1, s2, s3, s4, r1, r2

TwoOfEach == [s \in Sub |-> IF s \in {s1, s2} THEN "stripe" ELSE "janua"]
EachDoor  == [s \in Sub |-> CASE s = s1 -> "upgrade"
                              [] s = s3 -> "direct"
                              [] OTHER  -> "federated"]

\* s1 is essentials_yearly, a name the check of the tier takes for "pro".
SomeRanks == [s \in Sub |-> IF s = s1 THEN 2 ELSE 1]
SomeTiers == [s \in Sub |-> IF s = s3 THEN 2 ELSE 1]

Registered == [stripe |-> {"checkout", "created", "deleted"},
               janua |-> {"created", "paid", "deleted"}]
Fewer == [Registered EXCEPT !["janua"] = {"created", "deleted"}]
=============================================================================
