------------------------------ MODULE LeaseLock ------------------------------
(* What docroot/includes/lock.inc promises to its callers: an advisory lock    *)
(* per name, given to at most one request at a time, for a lease.  A lock      *)
(* leaves its holder only by the holder's own act, and then the holder knows,  *)
(* or once its lease has run out.  Nothing is said of how requests find out    *)
(* about each other.                                                           *)
EXTENDS Integers

CONSTANTS
  Request,   \* the requests (PHP processes) that share the database
  Name,      \* the lock names in use
  Timeout,   \* the lease lengths callers ask for
  Nobody     \* the holder of a free lock

VARIABLES
  now,       \* the clock
  holder,    \* holder[n]: the request that has lock n, or Nobody
  until,     \* until[n]: the last instant of the lease of lock n, 0 when free
  trust      \* trust[r][n]: the last instant r counts on lock n for, 0 when not

vars == <<now, holder, until, trust>>

Init ==
  /\ now \in Nat
  /\ holder = [n \in Name |-> Nobody]
  /\ until = [n \in Name |-> 0]
  /\ trust = [r \in Request |-> [n \in Name |-> 0]]

(* A free lock is given to r, or r, which has it, gets a new lease even if the *)
(* old one has run out unnoticed.  The lease is counted from the call, which   *)
(* may be well before the grant.                                               *)
Grant(r, n) ==
  /\ holder[n] \in {Nobody, r}
  /\ holder' = [holder EXCEPT ![n] = r]
  /\ \E called \in 0..now, t \in Timeout :
       /\ until' = [until EXCEPT ![n] = called + t]
       /\ trust' = [trust EXCEPT ![r][n] = called + t]
  /\ UNCHANGED now

(* A request stops counting on some locks, and frees some of those it has. *)
GiveUp(r, names, freed) ==
  /\ freed \subseteq names
  /\ \A n \in freed : holder[n] = r
  /\ holder' = [n \in Name |-> IF n \in freed THEN Nobody ELSE holder[n]]
  /\ until' = [n \in Name |-> IF n \in freed THEN 0 ELSE until[n]]
  /\ trust' = [trust EXCEPT ![r] = [n \in Name |-> IF n \in names THEN 0 ELSE trust[r][n]]]
  /\ UNCHANGED now

(* Anybody may break a lock whose lease has run out; its holder is not told. *)
Break(n) ==
  /\ holder[n] # Nobody
  /\ now > until[n]
  /\ holder' = [holder EXCEPT ![n] = Nobody]
  /\ until' = [until EXCEPT ![n] = 0]
  /\ UNCHANGED <<now, trust>>

Tick == now' > now /\ UNCHANGED <<holder, until, trust>>

Next ==
  \/ \E r \in Request, n \in Name : Grant(r, n)
  \/ \E r \in Request, names \in SUBSET Name, freed \in SUBSET Name : GiveUp(r, names, freed)
  \/ \E n \in Name : Break(n)
  \/ Tick

Spec == Init /\ [][Next]_vars
==============================================================================
