------------------------------- MODULE MCBatch -------------------------------
(* Batch on a small instance. *)
EXTENDS Batch, TLC

CONSTANTS q1, q2

(* Three sets; the second has no operations. *)
MCOps == <<2, 0, 1>>

==============================================================================
