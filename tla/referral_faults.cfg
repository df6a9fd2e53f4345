SPECIFICATION FairSpec
CONSTANTS
  Deliveries = {d1}
  Codes = {c1}
  CodeOf <- OneCode
  Users = {u1, u2}
  ReferrerOf <- AnyReferrer
  ReferredOf <- AnyReferred
  Specs <- OneOfEach
  Workers = {w1}
  Sweeps = {s1}
  MaxAttempts = 2
  Batch = 2
  MaxFaults = 2
  NoReward = NoReward
INVARIANTS
  AppliedWasGiven
PROPERTIES
  RewardsAreApplied
CHECK_DEADLOCK FALSE
