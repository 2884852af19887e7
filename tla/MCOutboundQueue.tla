-------------------------- MODULE MCOutboundQueue --------------------------
(***************************************************************************)
(* Values of the constants of OutboundQueue for the model checker.         *)
(***************************************************************************)
EXTENDS OutboundQueue

CONSTANTS m1, m2, r1, r2

\* A message to two people of one domain; a message to two domains.
OneDomain    == [m \in Messages |-> <<{r1, r2}>>]
TwoDomains   == [m \in Messages |-> <<{r1}, {r2}>>]

ShortDelays == <<1, 2>>

\* A remote that says "not now", one that says "never", and no answer at all.
NotNow  == [says |-> 451, carried |-> TRUE, taken |-> FALSE]
Never   == [says |-> 550, carried |-> TRUE, taken |-> FALSE]
\* A reply that is neither.
OddCode == [says |-> 354, carried |-> TRUE, taken |-> FALSE]

\* No host, or no connection.
NetworkError == [says |-> 0, carried |-> FALSE, taken |-> FALSE]

\* A 550 to every recipient at RCPT, whose exception has no code.
Refused == [says |-> 550, carried |-> FALSE, taken |-> FALSE]

LiveFailures  == {NotNow, Never}
AllFailures   == {NotNow, Never, Refused, OddCode, NetworkError}
=============================================================================
