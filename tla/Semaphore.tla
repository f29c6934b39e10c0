------------------------------ MODULE Semaphore ------------------------------
(* The locking framework of docroot/includes/lock.inc: requests that share the *)
(* {semaphore} table, whose primary key is the lock name.  Every SQL statement *)
(* is one atomic step; between two of them any other request may run.          *)
(*                                                                             *)
(* Time is in ticks.  The code's 0.0001 s slack on the DELETE only repairs the *)
(* conversion of a float to a string, so it is an exact <= here.               *)
EXTENDS Integers

CONSTANTS
  Request,   \* the requests (PHP processes), each with its own _lock_id()
  Name,      \* the lock names in use
  Timeout,   \* the timeouts callers pass to lock_acquire(), in ticks
  MaxPolls,  \* bound: the most polls one lock_wait() makes
  MaxTime,   \* bound: the clock stops here
  None       \* no row; the local variables of a request in no lock function

Row == [value : Request, expire : Nat]

(* The local variables of a request inside a lock function; op is the function *)
(* that called lock_may_be_available(), seen the row its SELECT returned.      *)
Call == [op : {"acquire", "wait"}, name : Name, expire : Nat, retry : BOOLEAN,
         polls : 0..MaxPolls, seen : Row \cup {None}]

ASSUME SemaphoreAssumption ==
  /\ Timeout \subseteq Nat \ {0}
  /\ MaxPolls \in Nat \ {0}
  /\ MaxTime \in Nat
  /\ None \notin Request \cup Row \cup Call

VARIABLES
  now,        \* microtime(TRUE)
  semaphore,  \* the table: semaphore[n] is the row named n, or None
  locks,      \* locks[r][n]: 0 when $locks of request r has no n, else the
              \* expire time of r's last success on n (the code keeps a TRUE)
  pc,         \* pc[r]: the statement r executes next
  call        \* call[r]: the local variables of the lock function r is in

vars == <<now, semaphore, locks, pc, call>>

(* "idle": in no lock function; "gone": the process has ended. *)
PC == {"idle", "update", "insert", "select", "test", "break", "sleep", "gone"}

TypeOK ==
  /\ now \in Nat
  /\ semaphore \in [Name -> Row \cup {None}]
  /\ locks \in [Request -> [Name -> Nat]]
  /\ pc \in [Request -> PC]
  /\ call \in [Request -> Call \cup {None}]

Goto(r, label) == pc' = [pc EXCEPT ![r] = label]

Return(r) == Goto(r, "idle") /\ call' = [call EXCEPT ![r] = None]

Enters(r, label, locals) ==
  /\ pc[r] = "idle"
  /\ Goto(r, label)
  /\ call' = [call EXCEPT ![r] = locals]

(* The row of the lock r is asking for. *)
Wanted(r) == semaphore[call[r].name]

OwnRow(r, n) == semaphore[n] # None /\ semaphore[n].value = r

Init ==
  /\ now = 0
  /\ semaphore = [n \in Name |-> None]
  /\ locks = [r \in Request |-> [n \in Name |-> 0]]
  /\ pc = [r \in Request |-> "idle"]
  /\ call = [r \in Request |-> None]

-----------------------------------------------------------------------------
(* lock_acquire($name, $timeout): $expire is computed once, before the loop.   *)
Acquire(r, n, t) ==
  /\ Enters(r, IF locks[r][n] # 0 THEN "update" ELSE "insert",
            [op |-> "acquire", name |-> n, expire |-> now + t, retry |-> FALSE,
             polls |-> 0, seen |-> None])
  /\ UNCHANGED <<now, semaphore, locks>>

(* Database::RETURN_AFFECTED of the MySQL driver counts the rows an UPDATE has *)
(* changed: a row that already has this expire counts as none.  An expire time *)
(* reaches the database with the precision of a float cast to a string, so two *)
(* renewals in one tick write the same value.                                  *)
UpdateChanges(r) ==
  OwnRow(r, call[r].name) /\ Wanted(r).expire # call[r].expire

(* The row gets a new expire time, and r relies on it from now on. *)
WriteRow(r) ==
  LET n == call[r].name IN
  /\ semaphore' = [semaphore EXCEPT ![n] = [value |-> r, expire |-> call[r].expire]]
  /\ locks' = [locks EXCEPT ![r][n] = call[r].expire]

Renew(r) ==
  /\ pc[r] = "update"
  /\ UpdateChanges(r)
  /\ WriteRow(r)
  /\ Return(r)
  /\ UNCHANGED now

(* No row changed: the lock counts as broken. *)
RenewFails(r) ==
  /\ pc[r] = "update"
  /\ ~UpdateChanges(r)
  /\ locks' = [locks EXCEPT ![r][call[r].name] = 0]
  /\ Return(r)
  /\ UNCHANGED <<now, semaphore>>

Insert(r) ==
  /\ pc[r] = "insert"
  /\ Wanted(r) = None
  /\ WriteRow(r)
  /\ Return(r)
  /\ UNCHANGED now

(* Mutation: the failed retry asks again, as `while (TRUE)` would. *)
InsertFails_RetriesForever(r) ==
  /\ pc[r] = "insert"
  /\ Wanted(r) # None
  /\ Goto(r, "select")
  /\ UNCHANGED <<now, semaphore, locks, call>>

(* The INSERT hits the primary key.  A second failure is final, the first one  *)
(* leads to lock_may_be_available().                                           *)
InsertFails(r) ==
  /\ pc[r] = "insert"
  /\ Wanted(r) # None
  /\ IF call[r].retry THEN Return(r) ELSE Goto(r, "select") /\ UNCHANGED call
  /\ UNCHANGED <<now, semaphore, locks>>

-----------------------------------------------------------------------------
(* What the callers of lock_may_be_available() do with TRUE and with FALSE. *)
Available(r) ==
  IF call[r].op = "acquire"
  THEN Goto(r, "insert") /\ call' = [call EXCEPT ![r].retry = TRUE]
  ELSE Return(r)

Unavailable(r) ==
  IF call[r].op = "wait" /\ call[r].polls > 0
  THEN Goto(r, "sleep") /\ UNCHANGED call
  ELSE Return(r)

(* lock_may_be_available(): the SELECT. *)
SelectFree(r) ==
  /\ pc[r] = "select"
  /\ Wanted(r) = None
  /\ Available(r)
  /\ UNCHANGED <<now, semaphore, locks>>

SelectRow(r) ==
  /\ pc[r] = "select"
  /\ Wanted(r) # None
  /\ call' = [call EXCEPT ![r].seen = Wanted(r)]
  /\ Goto(r, "test")
  /\ UNCHANGED <<now, semaphore, locks>>

(* Mutation: >= for >. *)
TestExpired_AtExpiry(r) ==
  /\ pc[r] = "test"
  /\ IF now >= call[r].seen.expire
     THEN Goto(r, "break") /\ UNCHANGED call
     ELSE Unavailable(r)
  /\ UNCHANGED <<now, semaphore, locks>>

(* The clock is read after the SELECT. *)
TestExpired(r) ==
  /\ pc[r] = "test"
  /\ IF now > call[r].seen.expire
     THEN Goto(r, "break") /\ UNCHANGED call
     ELSE Unavailable(r)
  /\ UNCHANGED <<now, semaphore, locks>>

(* Mutation: the DELETE without its third condition. *)
StillExpired_AnyLease(r) ==
  Wanted(r) # None /\ Wanted(r).value = call[r].seen.value

(* The conditions of the DELETE: still the row that was read, not renewed. *)
StillExpired(r) ==
  /\ Wanted(r) # None
  /\ Wanted(r).value = call[r].seen.value
  /\ Wanted(r).expire <= call[r].seen.expire

Break(r) ==
  /\ pc[r] = "break"
  /\ StillExpired(r)
  /\ semaphore' = [semaphore EXCEPT ![call[r].name] = None]
  /\ Available(r)
  /\ UNCHANGED <<now, locks>>

BreakNothing(r) ==
  /\ pc[r] = "break"
  /\ ~StillExpired(r)
  /\ Unavailable(r)
  /\ UNCHANGED <<now, semaphore, locks>>

-----------------------------------------------------------------------------
(* lock_wait($name, $delay): sleeps before every poll; the growing sleeps only *)
(* decide how many polls fit into $delay.                                      *)
Wait(r, n, polls) ==
  /\ Enters(r, "sleep", [op |-> "wait", name |-> n, expire |-> 0, retry |-> FALSE,
                         polls |-> polls, seen |-> None])
  /\ UNCHANGED <<now, semaphore, locks>>

Sleep(r) ==
  /\ pc[r] = "sleep"
  /\ call' = [call EXCEPT ![r].polls = @ - 1]
  /\ Goto(r, "select")
  /\ UNCHANGED <<now, semaphore, locks>>

-----------------------------------------------------------------------------
(* lock_release($name): a DELETE that only matches the caller's own row. *)
Release(r, n) ==
  /\ pc[r] = "idle"
  /\ locks' = [locks EXCEPT ![r][n] = 0]
  /\ semaphore' = [semaphore EXCEPT ![n] = IF OwnRow(r, n) THEN None ELSE @]
  /\ UNCHANGED <<now, pc, call>>

(* lock_release_all($lock_id): the shutdown function, which may cut a lock     *)
(* function short (a fatal error, the time limit).  Code that runs after it,   *)
(* destructors for one, may still take locks.                                  *)
ReleaseAll(r) ==
  /\ pc[r] # "gone"
  /\ locks' = [locks EXCEPT ![r] = [n \in Name |-> 0]]
  /\ semaphore' = [n \in Name |-> IF OwnRow(r, n) THEN None ELSE semaphore[n]]
  /\ Return(r)
  /\ UNCHANGED now

(* The process ends.  A killed one has not run its shutdown function. *)
Vanish(r) ==
  /\ pc[r] # "gone"
  /\ Goto(r, "gone")
  /\ call' = [call EXCEPT ![r] = None]
  /\ locks' = [locks EXCEPT ![r] = [n \in Name |-> 0]]
  /\ UNCHANGED <<now, semaphore>>

Tick ==
  /\ now < MaxTime
  /\ now' = now + 1
  /\ UNCHANGED <<semaphore, locks, pc, call>>

-----------------------------------------------------------------------------
(* The steps of a lock function already entered. *)
Continue(r) ==
  \/ Renew(r) \/ RenewFails(r) \/ Insert(r) \/ InsertFails(r)
  \/ SelectFree(r) \/ SelectRow(r) \/ TestExpired(r) \/ Break(r) \/ BreakNothing(r)
  \/ Sleep(r)

Enter(r) ==
  \E n \in Name :
    \/ \E t \in Timeout : Acquire(r, n, t)
    \/ \E polls \in 1..MaxPolls : Wait(r, n, polls)
    \/ Release(r, n)

Next ==
  \/ \E r \in Request : Enter(r) \/ Continue(r) \/ ReleaseAll(r) \/ Vanish(r)
  \/ Tick

(* A running process finishes the function it is in; nothing makes a request   *)
(* call one.                                                                   *)
Spec == Init /\ [][Next]_vars /\ \A r \in Request : WF_vars(Continue(r))

-----------------------------------------------------------------------------
(* A request relies on a lock from its last success to the end of the lease.   *)
Relies(r, n) == locks[r][n] # 0 /\ now <= locks[r][n]

(* Two requests never rely on the same lock: neither a break racing a renewal, *)
(* nor two breaks of one expired row, nor a late release of a lost lock lets a *)
(* second request in before the lease is over (the race the comment in         *)
(* lock_may_be_available() is about).                                          *)
LeaseExclusion ==
  \A r1, r2 \in Request, n \in Name : Relies(r1, n) /\ Relies(r2, n) => r1 = r2

(* Why LeaseExclusion holds: the table agrees with everyone who still relies   *)
(* on a lock, and a request about to DELETE has seen an expired row.           *)
LeaseRecorded ==
  \A r \in Request, n \in Name :
    Relies(r, n) => OwnRow(r, n) /\ semaphore[n].expire = locks[r][n]

BreaksExpired ==
  \A r \in Request : pc[r] = "break" => call[r].seen.expire < now

(* A request has local variables exactly while it is in a lock function. *)
LocalsInScope ==
  \A r \in Request :
    /\ call[r] = None <=> pc[r] \in {"idle", "gone"}
    /\ pc[r] \in {"test", "break"} => call[r].seen # None
    /\ pc[r] = "sleep" => call[r].polls > 0

(* $expire is what the caller asked for: now at some earlier instant, plus its *)
(* timeout.  Only lock_acquire() writes rows.                                  *)
LeaseAsked ==
  \A r \in Request :
    /\ pc[r] \in {"update", "insert"} => call[r].op = "acquire"
    /\ pc[r] \notin {"idle", "gone"} /\ call[r].op = "acquire" =>
         \E called \in 0..now, t \in Timeout : call[r].expire = called + t

IInv == TypeOK /\ LocalsInScope /\ LeaseRecorded /\ BreaksExpired /\ LeaseAsked

(* Every lock function returns: the retry of lock_acquire() is not a loop, and *)
(* lock_wait() gives up, whatever the other requests keep doing.               *)
CallsReturn == \A r \in Request : pc[r] \notin {"idle", "gone"} ~> pc[r] \in {"idle", "gone"}

(* The table implements the lock service that callers are promised. *)
Holder == [n \in Name |-> IF semaphore[n] = None THEN None ELSE semaphore[n].value]
Until == [n \in Name |-> IF semaphore[n] = None THEN 0 ELSE semaphore[n].expire]

Lease == INSTANCE LeaseLock
  WITH Nobody <- None, holder <- Holder, until <- Until, trust <- locks

LeaseSpec == Lease!Spec
==============================================================================
