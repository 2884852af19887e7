CONSTANTS
    m1 = m1
    m2 = m2
    r1 = r1
    r2 = r2
    NoMessage = NoMessage
    Messages = {m1, m2}
    Senders = {"s1"}
    Recipients = {r1, r2}
    Groups <- TwoDomains
    MaxAttempts = 2
    Delays <- ShortDelays
    BatchLimit = 1
    MaxMx = 2
    Failures <- LiveFailures
    PartialAcceptance = FALSE
    DomainModes = {"direct"}
    RetryTargets = {"deferred", "failed"}
    PurgeTargets = {"sent", "failed", "sending"}
    MaxOps = 1
    MaxFaults = 0
    MaxLag = 1
SPECIFICATION FairSpec
CHECK_DEADLOCK FALSE
PROPERTIES
    EventuallySettled
