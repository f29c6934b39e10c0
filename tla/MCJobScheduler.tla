--------------------------- MODULE MCJobScheduler ----------------------------
(* JobScheduler on a small instance. *)
EXTENDS JobScheduler

CONSTANTS c1, c2

==============================================================================
