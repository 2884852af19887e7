SPECIFICATION Spec
CONSTANTS
    ann = ann
    sales = sales
    team = team
    x = x
    y = y
    k1 = k1
    k2 = k2
    m1 = m1
    m2 = m2
    NullSender = NullSender
    NoAlias = NoAlias
    NoToken = NoToken
    NoEnvelope = NoEnvelope
    NoLogin = NoLogin
    Mailboxes = {ann, sales, team}
    Tokens = {k1, k2}
    Remote = {x, y}
    MaxDepth = 3
    Mails = {m1, m2}
    Envelopes <- Conversation
    Directories <- AllDirectories
    TagPolicy = {sales}
    MaxRecipients = 2
    AccountEdits <- AnnEdits
    AliasEdits <- SalesEdits
    MayDelete = TRUE
    MaxTries <- OnlyM1Retries
    MaxOps = 1
    MaxFaults = 1
INVARIANTS
    RoutingIsReachability
    RelayIsEarned
    SuccessIsEarned
    EveryRecipientIsAccountedFor
CHECK_DEADLOCK FALSE
