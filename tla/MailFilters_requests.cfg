CONSTANTS
    Accounts = {"ann", "ben"}
    TagPolicy = {"ben"}
    Ids <- MCIds
    Jobs = {"r1", "r2", "cmd"}
    Key <- MCKey
    MaxRules = 2
    Mail <- MCMail
    Scenarios <- MCScenarios
    MaxFaults = 1
    AddressZones = {"zen"}
    DomainZones = {"dbl"}
    JunkThreshold = 40
    SpamEnabled = TRUE
    NoRule = NoRule
    NoScript = NoScript
    NoMail = NoMail
SPECIFICATION FiltersSpec
INVARIANTS
    ScriptFollowsTable
    EditsAreKept
    SpamIsFiled
    
CHECK_DEADLOCK FALSE
