SPECIFICATION Spec
CONSTANTS
    old = old
    new = new
    Requests = {r1, r2, r3}
    Devices = {phone}
    Addresses = {home, away}
    OtherNames = {local}
    Passwords = {old, new}
    DirectoryPassword = new
    Drivers = {"postgres"}
    Accounts <- Local
    ExternalId = TRUE
    Operations = {"sign in", "change", "edit", "passwd", "look up"}
    Edits = {"touch", "disable", "enable"}
    Budget = 1
    MaxRefills = 1
SYMMETRY Symmetry
CHECK_DEADLOCK FALSE
INVARIANTS
    SignInIsEarned
    GuessesAreCapped
    ChangeIsComplete
