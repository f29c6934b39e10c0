---------------------------- MODULE MCFeedsImport ----------------------------
(* FeedsImport on a small instance. *)
EXTENDS FeedsImport

CONSTANTS c1, form, clean

==============================================================================
