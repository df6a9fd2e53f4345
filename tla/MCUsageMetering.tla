--------------------------- MODULE MCUsageMetering ---------------------------
(* UsageMetering on small instances. *)
EXTENDS UsageMetering

CONSTANTS free, pro \* tiers

OneOrg == [k \in Keys |-> CHOOSE o \in Orgs : TRUE]
Allowance == [s \in Tiers |-> 1]
Smallest == [s \in Tiers |-> 2]

(* One report makes an overage that is invoiced, another one that is not. *)
LargeAndSmall == LET large == CHOOSE k \in Keys : TRUE
                 IN  [k \in Keys |-> IF k = large THEN 3 ELSE 1]
=============================================================================
