CONSTANTS
    ldap = ldap
    oidc = oidc
    domain_webhook = domain_webhook
    Rows = {ldap, oidc}
    Legacy = domain_webhook
    Logins = {"l1"}
    Doors = {"imap", "api"}
    Timeout <- Times
    Patience = 2
    StartRows <- Tables
    StartAccount <- Accounts
    StartWebhook <- Webhooks
    StartDirectory <- Directories
    MaxEdits = 1
    MaxTurns = 2
SPECIFICATION FairSpec
CHECK_DEADLOCK FALSE
INVARIANTS
    EntryIsVouched
    RightIsNotCalledWrong
PROPERTIES
    EveryLoginEnds
