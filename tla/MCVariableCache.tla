--------------------------- MODULE MCVariableCache ---------------------------
(* VariableCache on a small instance. *)
EXTENDS VariableCache

CONSTANTS r1, r2, r3

==============================================================================
