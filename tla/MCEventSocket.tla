---------------------------- MODULE MCEventSocket ----------------------------
EXTENDS EventSocket

\* A folder whose window is full, and an empty one to turn to.
FullInbox == [f \in Folders |-> IF f = "INBOX" THEN Window ELSE 0]
=============================================================================
