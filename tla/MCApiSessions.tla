---------------------------- MODULE MCApiSessions ----------------------------
(* Instances of ApiSessions for TLC. *)
EXTENDS ApiSessions, TLC

CONSTANTS old, new

\* The account signs in locally with the old password.
Local == {[mode |-> "native", hash |-> old, by |-> None]}

Symmetry == Permutations(Requests) \cup Permutations(Addresses)

=============================================================================
