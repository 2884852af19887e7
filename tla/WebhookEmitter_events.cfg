SPECIFICATION FairSpec
CONSTANTS
    e1 = e1
    e2 = e2
    h1 = h1
    receive = receive
    Events = {e1, e2}
    MaxConcurrent = 1
    MaxRotations = 1
    MaxFaults = 1
    Hooks = {h1}
    Emitters = {receive}
    Owner <- OneEmitter
    Configured <- AnyHooks
    Subscribed <- EveryHookWantsAll
    Answers = {"accepted", "broken", "raised"}
    MaxOps = 2
INVARIANTS
    ConnectionsAreCapped
    FailureCountMatchesLog
    ReceivedIsLogged
    CleanStopLosesNothing
PROPERTIES
    EventuallyOver
