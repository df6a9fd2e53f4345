SPECIFICATION Spec
CONSTANTS
  Deliveries = {d1, d2}
  Codes = {c1}
  CodeOf <- OneCode
  Users = {u1, u2}
  ReferrerOf <- AnyReferrer
  ReferredOf <- AnyReferred
  Specs <- OneOfEach
  Workers = {w1}
  Sweeps = {s1}
  MaxAttempts = 2
  Batch = 2
  MaxFaults = 0
  NoReward = NoReward
SYMMETRY DeliverySymmetry
INVARIANTS
  GivenTwiceOnlyIfExposed
  RewardedTwiceOnlyIfRaced
CHECK_DEADLOCK FALSE
