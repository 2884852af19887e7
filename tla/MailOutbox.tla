----------------------------- MODULE MailOutbox -----------------------------
(***************************************************************************)
(* What the outbound queue promises the people whose mail it takes, with   *)
(* no senders, attempts or clock: a message is delivered to everyone it is *)
(* addressed to exactly once and then called sent, or delivered to nobody  *)
(* and then called failed.  Only the operator reopens a failed message.    *)
(***************************************************************************)
EXTENDS Naturals

CONSTANTS Messages, Recipients, Envelope

VARIABLES fate, copies

Init ==
    /\ fate = [m \in Messages |-> "absent"]
    /\ copies = [m \in Messages |-> [r \in Recipients |-> 0]]

Become(S, f) == fate' = [m \in Messages |-> IF m \in S THEN f ELSE fate[m]]

Accept(m) ==
    /\ fate[m] = "absent"
    /\ Become({m}, "accepted")
    /\ UNCHANGED copies

Deliver(m) ==
    /\ fate[m] = "accepted"
    /\ \A r \in Envelope[m] : copies[m][r] = 0
    /\ copies' = [copies EXCEPT ![m] = [r \in Recipients |->
                    IF r \in Envelope[m] THEN 1 ELSE @[r]]]
    /\ UNCHANGED fate

Confirm(m) ==
    /\ fate[m] = "accepted"
    /\ \A r \in Envelope[m] : copies[m][r] = 1
    /\ Become({m}, "sent")
    /\ UNCHANGED copies

GiveUp(m) ==
    /\ fate[m] = "accepted"
    /\ \A r \in Envelope[m] : copies[m][r] = 0
    /\ Become({m}, "failed")
    /\ UNCHANGED copies

Reopen(S) ==
    /\ \A m \in S : fate[m] = "failed"
    /\ Become(S, "accepted")
    /\ UNCHANGED copies

Forget(S) ==
    /\ \A m \in S : fate[m] \in {"sent", "failed"}
    /\ Become(S, "purged")
    /\ UNCHANGED copies

Next ==
    \/ \E m \in Messages : Accept(m) \/ Deliver(m) \/ Confirm(m) \/ GiveUp(m)
    \/ \E S \in SUBSET Messages : Reopen(S) \/ Forget(S)

Spec == Init /\ [][Next]_<<fate, copies>>

=============================================================================
