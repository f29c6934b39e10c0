---------------------------- MODULE MCSystemQueue ----------------------------
(* SystemQueue on small instances. *)
EXTENDS SystemQueue

CONSTANTS w1, w2, p1, p2
==============================================================================
