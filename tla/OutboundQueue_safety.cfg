CONSTANTS
    m1 = m1
    m2 = m2
    r1 = r1
    r2 = r2
    NoMessage = NoMessage
    Messages = {m1, m2}
    Senders = {"s1", "s2"}
    Recipients = {r1, r2}
    Groups <- OneDomain
    MaxAttempts = 2
    Delays <- ShortDelays
    BatchLimit = 2
    MaxMx = 2
    Failures <- AllFailures
    PartialAcceptance = FALSE
    DomainModes = {"direct", "relay"}
    RetryTargets = {"deferred", "failed"}
    PurgeTargets = {"sent", "failed"}
    MaxOps = 1
    MaxFaults = 1
    MaxLag = 1
SPECIFICATION Spec
CHECK_DEADLOCK FALSE
INVARIANTS
    ClaimIsExclusive
    NeverDeliveredTwice
    SentMeansDelivered
    PermanentIsNotRetried
    RetriesAreBounded
PROPERTIES
    SettledIsFinal
    KeepsThePromise
