---------------------------- MODULE MCDrupalCheck ----------------------------
(* Small instances of DrupalCheck. *)
EXTENDS DrupalCheck
==============================================================================
