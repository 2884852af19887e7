-------------------------- MODULE MCDovecotInstall --------------------------
(* Small instances of DovecotInstall. *)
EXTENDS DovecotInstall

const_Settings == {"good", "rejected", "invalid"}
const_Rejected == {"rejected"}
const_Invalid  == {"invalid"}
=============================================================================
