\* One subscription, of Stripe or of Janua, and a trial.
CONSTANTS
    s1 = s1
    s2 = s2
    s3 = s3
    s4 = s4
    r1 = r1
    r2 = r2
    Sub = {s1, s3}
    NoOne = NoOne
    ProviderOf <- TwoOfEach
    DoorOf <- EachDoor
    RankOf <- SomeRanks
    TierOf <- SomeTiers
    DefaultTier = 2
    TopTier = 2
    TrialTiers = {1}
    Sends <- Registered
    Replica = {r1}
    MaxFailures = 1
    MaxTrials = 1
    MaxCheckouts = 1
    MaxInFlight = 1
SPECIFICATION Spec
CHECK_DEADLOCK FALSE
INVARIANT AcknowledgedIsApplied
PROPERTY BillingSettles
