SPECIFICATION FairSpec
CONSTANTS
    Sockets = {s1, s2}
    MaxSockets = 1
    Window = 2
    Folders = {"INBOX", "Sent"}
    Initial <- FullInbox
    MaxUid = 3
    MaxChanges = 2
INVARIANTS
    SlotsMatchSockets
    PictureIsTheWindow
PROPERTIES
    SlotsComeBack
CHECK_DEADLOCK FALSE
