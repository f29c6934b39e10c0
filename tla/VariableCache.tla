---------------------------- MODULE VariableCache ----------------------------
(* The persistent variables of docroot/includes/bootstrap.inc: the table       *)
(* {variable}, the copy of all of it in {cache_bootstrap}, from which every    *)
(* request starts, and the lock under which the copy is made.  The lock is     *)
(* taken for what LeaseLock promises.                                          *)
(*                                                                             *)
(* Every variable_set() and variable_del() makes a version of the table; the   *)
(* versions are numbered.  A SELECT of all rows reads one version.             *)
EXTENDS Integers

CONSTANTS
  Request,    \* PHP processes; each serves one page request after the other
  MaxSets,    \* bound: versions of the table
  MaxFaults,  \* bound: deaths of processes, copies that cannot be stored, and
              \* leases that are over too early
  None,       \* nothing in the cache; no holder; no $conf
  Dead        \* the holder of a lock whose process has been killed

ASSUME VariableAssumption ==
  /\ MaxSets \in Nat /\ MaxFaults \in Nat
  /\ None # Dead /\ {None, Dead} \cap Request = {} /\ None \notin Nat

VARIABLES
  table,      \* the version of {variable}
  cache,      \* the version in {cache_bootstrap}, or None
  lock,       \* the holder of the lock variable_init
  pc,         \* pc[r]: the statement r executes next
  conf,       \* conf[r]: the version r has loaded into $conf, or None
  mine,       \* mine[r]: the version r has made and not announced, or 0
  confirmed,  \* the newest version whose variable_set() has returned
  faults,     \* how many faults there have been
  outlived,   \* the lease of somebody who was copying was over
  raced,      \* the table has changed under a copy that may still be stored,
              \* or has been
  unannounced \* somebody died between the two statements of variable_set()

request == <<pc, conf, mine>>
history == <<confirmed, faults, outlived, raced, unannounced>>
vars == <<table, cache, lock, request, history>>

Version == 0..MaxSets

PC == {"idle", "get", "lock", "select", "store", "unlock", "load", "run", "clear"}

(* What the tables, the lock and the requests hold; nothing runs without $conf. *)
TypeOK ==
  /\ table \in Version /\ cache \in Version \cup {None}
  /\ lock \in Request \cup {None, Dead}
  /\ pc \in [Request -> PC]
  /\ conf \in [Request -> Version \cup {None}]
  /\ mine \in [Request -> Version]
  /\ confirmed \in Version /\ faults \in 0..MaxFaults
  /\ outlived \in BOOLEAN /\ raced \in BOOLEAN /\ unannounced \in BOOLEAN
  /\ \A r \in Request : pc[r] \in {"store", "unlock", "run", "clear"} => conf[r] # None

Init ==
  /\ table = 0 /\ cache = None
  /\ lock = None
  /\ pc = [r \in Request |-> "idle"]
  /\ conf = [r \in Request |-> None]
  /\ mine = [r \in Request |-> 0]
  /\ confirmed = 0 /\ faults = 0
  /\ outlived = FALSE /\ raced = FALSE /\ unannounced = FALSE

Goto(r, label) == pc' = [pc EXCEPT ![r] = label]

-----------------------------------------------------------------------------
Start(r) ==
  /\ pc[r] = "idle"
  /\ Goto(r, "get")
  /\ UNCHANGED <<table, cache, lock, conf, mine, history>>

(* variable_initialize(): cache_get(). *)
Get(r) ==
  /\ pc[r] = "get"
  /\ IF cache = None
     THEN Goto(r, "lock") /\ UNCHANGED conf
     ELSE Goto(r, "run") /\ conf' = [conf EXCEPT ![r] = cache]
  /\ UNCHANGED <<table, cache, lock, mine, history>>

AcquireLock(r) ==
  /\ pc[r] = "lock" /\ lock = None
  /\ lock' = r
  /\ Goto(r, "select")
  /\ UNCHANGED <<table, cache, conf, mine, history>>

(* Mutation: the answer of lock_acquire() is ignored. *)
LockRefused_Ignored(r) ==
  /\ pc[r] = "lock" /\ lock # None
  /\ Goto(r, "select")
  /\ UNCHANGED <<table, cache, lock, conf, mine, history>>

(* The setting variable_initialize_wait_for_lock is off. *)
LockRefused(r) ==
  /\ pc[r] = "lock" /\ lock # None
  /\ Goto(r, "load")
  /\ UNCHANGED <<table, cache, lock, conf, mine, history>>

(* SELECT name, value FROM {variable}, with the lock and without. *)
Select(r) ==
  /\ pc[r] \in {"select", "load"}
  /\ conf' = [conf EXCEPT ![r] = table]
  /\ Goto(r, IF pc[r] = "select" THEN "store" ELSE "run")
  /\ UNCHANGED <<table, cache, lock, mine, history>>

(* Mutation: cache_set() updates a row and inserts none. *)
Store_IfPresent(r) ==
  /\ pc[r] = "store"
  /\ cache' = IF cache = None THEN None ELSE conf[r]
  /\ Goto(r, "unlock")
  /\ UNCHANGED <<table, lock, conf, mine, history>>

(* cache_set(): whatever has happened since the SELECT. *)
Store(r) ==
  /\ pc[r] = "store"
  /\ cache' = conf[r]
  /\ Goto(r, "unlock")
  /\ UNCHANGED <<table, lock, conf, mine, history>>

(* The db_merge() of cache_set() throws: the exception is swallowed, and the   *)
(* cache stays as it was.                                                      *)
StoreFails(r) ==
  /\ pc[r] = "store" /\ faults < MaxFaults
  /\ faults' = faults + 1
  /\ Goto(r, "unlock")
  /\ UNCHANGED <<table, cache, lock, conf, mine, confirmed, outlived, raced, unannounced>>

Free(r) == lock' = IF lock = r THEN None ELSE lock

Unlock(r) ==
  /\ pc[r] = "unlock"
  /\ Free(r)
  /\ Goto(r, "run")
  /\ UNCHANGED <<table, cache, conf, mine, history>>

-----------------------------------------------------------------------------
Copying(r) == pc[r] = "store"

(* variable_set(): db_merge() into {variable}; variable_del(): a DELETE. *)
Merge(r) ==
  /\ pc[r] = "run" /\ table < MaxSets
  /\ table' = table + 1
  /\ mine' = [mine EXCEPT ![r] = table + 1]
  /\ Goto(r, "clear")
  /\ raced' = (raced \/ \E q \in Request : Copying(q))
  /\ UNCHANGED <<cache, lock, conf, confirmed, faults, outlived, unannounced>>

(* The copy is gone, but not one that is being made. *)
Empty ==
  /\ cache' = None
  /\ raced' = (\E q \in Request : Copying(q) /\ conf[q] # table)
  /\ unannounced' = FALSE

Announce(r) ==
  /\ confirmed' = IF mine[r] > confirmed THEN mine[r] ELSE confirmed
  /\ mine' = [mine EXCEPT ![r] = 0]
  /\ Goto(r, "run")

(* Mutation: variable_del() without its second statement. *)
Clear_Forgotten(r) ==
  /\ pc[r] = "clear"
  /\ Announce(r)
  /\ UNCHANGED <<table, cache, lock, conf, faults, outlived, raced, unannounced>>

(* cache_clear_all(), and variable_set() returns. *)
Clear(r) ==
  /\ pc[r] = "clear"
  /\ Empty /\ Announce(r)
  /\ UNCHANGED <<table, lock, conf, faults, outlived>>

(* Somebody clears all caches. *)
Flush ==
  /\ cache # None
  /\ Empty
  /\ UNCHANGED <<table, lock, request, confirmed, faults, outlived>>

-----------------------------------------------------------------------------
Leave(r) ==
  /\ Goto(r, "idle")
  /\ conf' = [conf EXCEPT ![r] = None]
  /\ mine' = [mine EXCEPT ![r] = 0]

End(r) ==
  /\ pc[r] = "run"
  /\ Leave(r) /\ Free(r)
  /\ UNCHANGED <<table, cache, history>>

(* A process is killed; its lock lasts until it expires. *)
Die(r) ==
  /\ pc[r] # "idle" /\ faults < MaxFaults
  /\ faults' = faults + 1
  /\ Leave(r)
  /\ lock' = IF lock = r THEN Dead ELSE lock
  /\ unannounced' = (unannounced \/ pc[r] = "clear")
  /\ UNCHANGED <<table, cache, confirmed, outlived, raced>>

Expire ==
  /\ lock = Dead
  /\ lock' = None
  /\ UNCHANGED <<table, cache, request, history>>

(* The lease of one second is over before its holder is done. *)
Outlive(r) ==
  /\ lock = r /\ faults < MaxFaults
  /\ faults' = faults + 1
  /\ lock' = None
  /\ outlived' = TRUE
  /\ UNCHANGED <<table, cache, request, confirmed, raced, unannounced>>

-----------------------------------------------------------------------------
Bootstrap(r) ==
  \/ Get(r) \/ AcquireLock(r) \/ LockRefused(r) \/ Select(r) \/ Store(r) \/ Unlock(r)

Continue(r) == Start(r) \/ Bootstrap(r) \/ Clear(r) \/ End(r)

Next ==
  \/ \E r \in Request : Continue(r) \/ Merge(r) \/ StoreFails(r) \/ Die(r) \/ Outlive(r)
  \/ Flush \/ Expire

(* Visitors keep coming, processes run on, and time passes. *)
Fairness == (\A r \in Request : WF_vars(Continue(r))) /\ WF_vars(Expire)

Spec == Init /\ [][Next]_vars /\ Fairness

-----------------------------------------------------------------------------
(* The copy in the cache differs from the table only while a variable_set() is *)
(* between its two statements, after one has died there, or when the table was *)
(* changed under a copy: the lock is one among those who copy, variable_set()  *)
(* does not take it.  The next variable_set() repairs each of these.           *)
StaleHasReason ==
  cache \notin {None, table} =>
    raced \/ unannounced \/ \E r \in Request : pc[r] = "clear"

(* Once a variable_set() has returned, no request starts from an older table,  *)
(* whoever sets, copies, dies or clears at the same time, unless the table was *)
(* changed under a copy.                                                       *)
ConfirmedIsSeen ==
  [][\A r \in Request : conf'[r] \notin {None, conf[r]} => conf'[r] >= confirmed \/ raced]_vars

(* "Avoid a stampede by acquiring a lock" (bootstrap.inc:1242): one request at *)
(* a time copies the table into the cache, unless its second is over.          *)
OneCopies ==
  \A q, r \in Request :
    pc[q] \in {"select", "store"} /\ pc[r] \in {"select", "store"} => q = r \/ outlived

(* What each of these rests on. *)
CopyIsRecent ==
  \A r \in Request : Copying(r) /\ conf[r] # table => raced
CacheIsConfirmed == cache # None => cache >= confirmed \/ raced
VersionsOrdered ==
  /\ confirmed <= table
  /\ cache # None => cache <= table
  /\ \A r \in Request :
       /\ mine[r] <= table /\ (conf[r] # None => conf[r] <= table)
CopiersLock == \A r \in Request : pc[r] \in {"select", "store"} => lock = r \/ outlived

IInv ==
  /\ TypeOK /\ VersionsOrdered /\ CopiersLock
  /\ CopyIsRecent /\ StaleHasReason /\ CacheIsConfirmed

(* The cache is filled again and again: a lock that is left behind, a death    *)
(* and a flush do not leave the site without its copy for ever.                *)
CacheIsFilled == []<>(cache # None)
==============================================================================
