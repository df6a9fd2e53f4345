\* Two checkouts of one user at either provider, through every door, no trial.
CONSTANTS
    s1 = s1
    s2 = s2
    s3 = s3
    s4 = s4
    r1 = r1
    r2 = r2
    Sub = {s1, s2, s3, s4}
    NoOne = NoOne
    ProviderOf <- TwoOfEach
    DoorOf <- EachDoor
    RankOf <- SomeRanks
    TierOf <- SomeTiers
    DefaultTier = 2
    TopTier = 2
    TrialTiers = {1}
    Sends <- Fewer
    Replica = {r1}
    MaxFailures = 1
    MaxTrials = 0
    MaxCheckouts = 2
    MaxInFlight = 2
SPECIFICATION Spec
CHECK_DEADLOCK FALSE
INVARIANTS AcknowledgedIsApplied UnmatchedOnlyIfCustomerReplaced
    UnservedOnlyIfOverwritten EndedGivesNothingUnlessLate
