----------------------------- MODULE MCSemaphore -----------------------------
(* Semaphore on a small instance. *)
EXTENDS Semaphore

CONSTANTS r1, r2, cron

==============================================================================
