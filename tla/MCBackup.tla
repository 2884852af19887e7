------------------------------ MODULE MCBackup ------------------------------
(* Small instances of Backup. *)
EXTENDS Backup, TLC

CONSTANTS d1, d2, a1, a2

Symmetry == Permutations(Domains) \cup Permutations(Accounts)
=============================================================================
