SPECIFICATION Spec
CONSTANTS
    Requests = {r1, r2}
    Operations = {"flag", "move", "delete", "purge", "empty", "draft", "send"}
    Destinations = {"Trash", "INBOX", "nowhere"}
    Servers = {TRUE, FALSE}
    Initial <- const_Initial
    MaxUid = 5
    MaxFaults = 1
    MaxApp = 1
SYMMETRY Symmetry
INVARIANTS
    NothingVanishes
PROPERTIES
    SuccessIsWhole
CHECK_DEADLOCK FALSE
