\* Two replicas with one call each.
CONSTANTS
    c1 = c1
    c2 = c2
    r1 = r1
    r2 = r2
    Replica = {r1, r2}
    Call = {c1, c2}
    ReplicaOf <- OneEach
    FailureThreshold = 3
    SuccessThreshold = 2
    MaxFailures = 3
    MaxFaults = 1
    MaxSuccesses = 5
SPECIFICATION Spec
INVARIANTS ClosesEarlyOnlyIfStrayed TripsUnlessDisturbed
PROPERTIES OpensOnlyAfterFailures RecoveredProviderCloses
