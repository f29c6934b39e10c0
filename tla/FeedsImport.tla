----------------------------- MODULE FeedsImport -----------------------------
(* The source of the planet: a feed node, its row of {feeds_source} and the    *)
(* nodes made of its entries, as the worker of the queue feeds_source_import,  *)
(* the forms of the feed and the batches they start work on them.  When a job  *)
(* comes to the queue is the subject of JobScheduler; a worker may start here  *)
(* at any moment.  The lock of the source is taken for what LeaseLock promises.*)
EXTENDS Integers

CONSTANTS
  Worker,     \* PHP processes that run drupal_cron_run()
  Importer,   \* PHP processes that run the batch of the form Import
  Cleaner,    \* PHP processes that run the batch of the form Delete items, and
              \*   those that the form Unlock is submitted to
  MaxEdits,   \* bound: how often the address of the feed is edited
  MaxFaults,  \* bound: deaths of processes, and leases that are over too early
  None,       \* no row; no holder; no object
  NoRow,      \* what an object knows that has found no row
  Dead        \* the holder of a lock whose process has been killed

Process == Worker \cup Importer \cup Cleaner

(* Addresses are numbered as they are entered; 0 is the default configuration, *)
(* which an object has that has found no row.                                  *)
Url == 0..(MaxEdits + 1)

ASSUME FeedsAssumption ==
  /\ MaxEdits \in Nat /\ MaxFaults \in Nat
  /\ None # Dead /\ {None, Dead} \cap Process = {} 
  /\ None # NoRow /\ {None, NoRow} \cap Url = {}
  /\ Worker \cap (Importer \cup Cleaner) = {} /\ Importer \cap Cleaner = {}

VARIABLES
  feed,      \* the feed node exists
  url,       \* the address last entered in its form
  source,    \* its row of {feeds_source}: the address in it, or None
  nodes,     \* how many nodes there are of the one entry of the feed
  lock,      \* the holder of the lock of the source
  pc,        \* pc[p]: what p does next
  loaded,    \* loaded[p]: the address in p's FeedsSource object, or None
  faults,    \* how many faults there have been
  outlived,  \* a lease was over between the lookup and the insert it protects
  under,     \* the feed was deleted while a request had its source in hand
  overtaken  \* the address was edited while a request had the source in hand

tables == <<feed, url, source, nodes>>
history == <<faults, outlived, under, overtaken>>
vars == <<tables, lock, pc, loaded, history>>

PC == {"idle", "load", "open", "lock", "lookup", "insert", "clear", "clearunlock",
       "probe", "update", "restore", "unlock", "next"}

(* What the tables, the lock and the requests hold. *)
TypeOK ==
  /\ feed \in BOOLEAN /\ url \in Url /\ source \in Url \cup {None}
  /\ nodes \in Nat
  /\ lock \in Process \cup {None, Dead}
  /\ pc \in [Process -> PC]
  /\ loaded \in [Process -> Url \cup {None, NoRow}]
  /\ faults \in 0..MaxFaults
  /\ outlived \in BOOLEAN /\ under \in BOOLEAN /\ overtaken \in BOOLEAN

(* As feeds_node_insert() leaves it. *)
Init ==
  /\ feed = TRUE /\ url = 1 /\ source = 1
  /\ nodes = 0
  /\ lock = None
  /\ pc = [p \in Process |-> "idle"]
  /\ loaded = [p \in Process |-> None]
  /\ faults = 0 /\ outlived = FALSE /\ under = FALSE /\ overtaken = FALSE

Goto(p, label) == pc' = [pc EXCEPT ![p] = label]

-----------------------------------------------------------------------------
(* A worker has claimed an item of the queue; the item may be older than the   *)
(* deletion of the feed.                                                       *)
StartWorker(p) ==
  /\ p \in Worker /\ pc[p] = "idle"
  /\ Goto(p, "load")
  /\ UNCHANGED <<tables, lock, loaded, history>>

(* A form of the feed has set a batch; a later request runs it. *)
StartBatch(p) ==
  /\ p \notin Worker /\ pc[p] = "idle" /\ feed
  /\ Goto(p, "load")
  /\ UNCHANGED <<tables, lock, loaded, history>>

(* The form Unlock of a source whose last import or deletion was not finished. *)
StartUnlock(p) ==
  /\ p \in Cleaner /\ pc[p] = "idle" /\ feed
  /\ Goto(p, "open")
  /\ UNCHANGED <<tables, lock, loaded, history>>

(* Mutation: the worker does not ask for existing(). *)
Load_Anyway(p) ==
  /\ pc[p] = "load"
  /\ loaded' = [loaded EXCEPT ![p] = IF source = None THEN NoRow ELSE source]
  /\ Goto(p, "lock")
  /\ UNCHANGED <<tables, lock, history>>

(* FeedsSource::instance(): a request reads the row once.  The worker of the   *)
(* queue calls existing(), which refuses an object without a row, feeds_batch()*)
(* does not.                                                                   *)
Load(p) ==
  /\ pc[p] = "load"
  /\ loaded' = [loaded EXCEPT ![p] = IF source = None THEN NoRow ELSE source]
  /\ Goto(p, IF source = None /\ p \in Worker THEN "next" ELSE "lock")
  /\ UNCHANGED <<tables, lock, history>>

(* FeedsSource::unlock(), like feeds_batch(), does not ask for existing().  It  *)
(* saves without having asked for the lock, and its lock_release() finds none   *)
(* of its own lock id to delete: it frees nobody else's.                        *)
Open(p) ==
  /\ pc[p] = "open"
  /\ loaded' = [loaded EXCEPT ![p] = IF source = None THEN NoRow ELSE source]
  /\ Goto(p, "probe")
  /\ UNCHANGED <<tables, lock, history>>

(* Mutation: the answer of lock_acquire() is ignored. *)
LockRefused_Ignored(p) ==
  /\ pc[p] = "lock" /\ lock # p
  /\ Goto(p, IF p \in Cleaner THEN "clear" ELSE "lookup")
  /\ UNCHANGED <<tables, lock, loaded, history>>

AcquireLock(p) ==
  /\ pc[p] = "lock" /\ lock \in {None, p}
  /\ lock' = p
  /\ Goto(p, IF p \in Cleaner THEN "clear" ELSE "lookup")
  /\ UNCHANGED <<tables, loaded, history>>

(* FeedsLockException.  lock_acquire() may fail for a free lock, too, so for   *)
(* one a request left behind and lost.                                         *)
LockRefused(p) ==
  /\ pc[p] = "lock" /\ lock # p
  /\ Goto(p, "next")
  /\ UNCHANGED <<tables, lock, loaded, history>>

(* The feed cannot be fetched or parsed; the exception is thrown after save(). *)
FetchFails(p) ==
  /\ pc[p] = "lookup"
  /\ Goto(p, "probe")
  /\ UNCHANGED <<tables, lock, loaded, history>>

(* FeedsProcessor::process(): existingEntityId(), and a new node if there is   *)
(* none.  The planet does not update the nodes it has.                         *)
Lookup(p) ==
  /\ pc[p] = "lookup"
  /\ Goto(p, IF nodes = 0 THEN "insert" ELSE "probe")
  /\ UNCHANGED <<tables, lock, loaded, history>>

(* node_save(), and the row of {feeds_item}, which has no unique guid. *)
InsertNode(p) ==
  /\ pc[p] = "insert"
  /\ nodes' = nodes + 1
  /\ Goto(p, "probe")
  /\ UNCHANGED <<feed, url, source, lock, loaded, history>>

(* clear(): the nodes go under the lock, *)
ClearNodes(p) ==
  /\ pc[p] = "clear"
  /\ nodes' = 0
  /\ Goto(p, "clearunlock")
  /\ UNCHANGED <<feed, url, source, lock, loaded, history>>

Free(p) == lock' = IF lock = p THEN None ELSE lock

(* save() follows without it. *)
ClearUnlock(p) ==
  /\ pc[p] = "clearunlock"
  /\ Free(p)
  /\ Goto(p, "probe")
  /\ UNCHANGED <<tables, loaded, history>>

(* save(): a SELECT decides between an UPDATE and an INSERT of all columns. *)
Probe(p) ==
  /\ pc[p] = "probe"
  /\ Goto(p, IF source = None THEN "restore" ELSE "update")
  /\ UNCHANGED <<tables, lock, loaded, history>>

Config(p) == IF loaded[p] = NoRow THEN 0 ELSE loaded[p]

AfterSave(p) == IF p \in Cleaner THEN "next" ELSE "unlock"

(* Mutation: save() writes the configuration it was made with. *)
SaveUpdate_Form(p) ==
  /\ pc[p] = "update"
  /\ source' = IF source = None THEN None ELSE 1
  /\ Goto(p, AfterSave(p))
  /\ UNCHANGED <<feed, url, nodes, lock, loaded, history>>

SaveUpdate(p) ==
  /\ pc[p] = "update"
  /\ source' = IF source = None THEN None ELSE Config(p)
  /\ Goto(p, AfterSave(p))
  /\ UNCHANGED <<feed, url, nodes, lock, loaded, history>>

SaveInsert(p) ==
  /\ pc[p] = "restore" /\ source = None
  /\ source' = Config(p)
  /\ Goto(p, AfterSave(p))
  /\ UNCHANGED <<feed, url, nodes, lock, loaded, history>>

(* A duplicate key is an exception that import() does not catch: its lock      *)
(* stays to the end of the request.                                            *)
SaveFails(p) ==
  /\ pc[p] = "restore" /\ source # None
  /\ Goto(p, "next")
  /\ UNCHANGED <<tables, lock, loaded, history>>

Unlock(p) ==
  /\ pc[p] = "unlock"
  /\ Free(p)
  /\ Goto(p, "next")
  /\ UNCHANGED <<tables, loaded, history>>

(* The worker goes on with another item of this feed, and the object it has. *)
NextItem(p) ==
  /\ p \in Worker /\ pc[p] = "next" /\ loaded[p] # NoRow
  /\ Goto(p, "lock")
  /\ UNCHANGED <<tables, lock, loaded, history>>

(* Mutation: no lock_release_all() at the end of a request. *)
End_KeepsLock(p) ==
  /\ pc[p] = "next"
  /\ Goto(p, "idle")
  /\ loaded' = [loaded EXCEPT ![p] = None]
  /\ UNCHANGED <<tables, lock, history>>

End(p) ==
  /\ pc[p] = "next"
  /\ Free(p)
  /\ Goto(p, "idle")
  /\ loaded' = [loaded EXCEPT ![p] = None]
  /\ UNCHANGED <<tables, history>>

-----------------------------------------------------------------------------
(* The requests that will write the source they have read, and the batches,    *)
(* which write one whether they find a row or not.                             *)
InHand(p) == loaded[p] \notin {None, NoRow} \/ (p \notin Worker /\ pc[p] # "idle")

(* feeds_node_update(), in the transaction of node_save(). *)
Edit ==
  /\ feed /\ url <= MaxEdits
  /\ url' = url + 1
  /\ source' = url + 1
  /\ overtaken' = (overtaken \/ \E p \in Process : InHand(p))
  /\ UNCHANGED <<feed, nodes, lock, pc, loaded, faults, outlived, under>>

(* feeds_node_delete(), in the transaction of node_delete_multiple(). *)
DeleteFeed ==
  /\ feed
  /\ feed' = FALSE /\ source' = None
  /\ under' = \E p \in Process : InHand(p)
  /\ UNCHANGED <<url, nodes, lock, pc, loaded, faults, outlived, overtaken>>

(* A process is killed; its lock lasts until it expires. *)
Die(p) ==
  /\ pc[p] # "idle" /\ faults < MaxFaults
  /\ faults' = faults + 1
  /\ Goto(p, "idle")
  /\ loaded' = [loaded EXCEPT ![p] = None]
  /\ lock' = IF lock = p THEN Dead ELSE lock
  /\ UNCHANGED <<tables, outlived, under, overtaken>>

Expire ==
  /\ lock = Dead
  /\ lock' = None
  /\ UNCHANGED <<tables, pc, loaded, history>>

(* The 60 seconds are over before their holder is done. *)
Outlive(p) ==
  /\ lock = p /\ faults < MaxFaults
  /\ faults' = faults + 1
  /\ lock' = None
  /\ outlived' = (outlived \/ pc[p] \in {"lookup", "insert"})
  /\ UNCHANGED <<tables, pc, loaded, under, overtaken>>

-----------------------------------------------------------------------------
Start(p) == StartWorker(p) \/ StartBatch(p) \/ StartUnlock(p)

Continue(p) ==
  \/ Load(p) \/ Open(p) \/ AcquireLock(p) \/ LockRefused(p) \/ FetchFails(p) \/ Lookup(p)
  \/ InsertNode(p) \/ ClearNodes(p) \/ ClearUnlock(p) \/ Probe(p) \/ SaveUpdate(p)
  \/ SaveInsert(p) \/ SaveFails(p) \/ Unlock(p) \/ NextItem(p) \/ End(p)

Next ==
  \/ \E p \in Process : Start(p) \/ Continue(p) \/ Die(p) \/ Outlive(p)
  \/ Edit \/ DeleteFeed \/ Expire

(* Processes run on, and time passes. *)
Fairness == (\A p \in Process : WF_vars(Continue(p))) /\ WF_vars(Expire)

Spec == Init /\ [][Next]_vars /\ Fairness

-----------------------------------------------------------------------------
(* {feeds_item} has no unique key on the guid: between existingEntityId() and  *)
(* node_save() only the lock of the source keeps the cron runs and the batches *)
(* apart, and an exception, a killed request and a refused lock must not       *)
(* change that.  An entry becomes two nodes only behind the back of a request  *)
(* that outlived its lock there.                                               *)
ImportedOnce == nodes > 1 => outlived

(* A source without its feed node was written back by a request that had it in *)
(* hand when the node was deleted (feeds.module:801): an item of the queue     *)
(* that is older than the deletion must not do that.                           *)
OrphansWereInHand == ~feed /\ source # None => under

(* The address entered in the form is the one that is fetched from then on,    *)
(* unless a request that had read the old one was running: its save() writes   *)
(* all columns back, and clear() calls it without the lock.                    *)
EditsStay == feed /\ source # url => overtaken

(* The strengthening the proofs use: what each request may rely on at each     *)
(* statement, as long as no lease was too short, and no edit and no deletion   *)
(* came in between.                                                            *)
Locked == \A p \in Process : pc[p] \in {"lookup", "insert"} => lock = p \/ outlived
InsertsFirst == \A p \in Process : pc[p] = "insert" => nodes = 0 \/ outlived
Bare ==
  \A p \in Process :
    /\ loaded[p] = None => pc[p] \in {"idle", "load", "open"}
    /\ loaded[p] = NoRow /\ p \in Worker => pc[p] = "next"
    /\ pc[p] = "open" => p \in Cleaner
Fresh ==
  feed /\ ~overtaken =>
    /\ source = url
    /\ \A p \in Process : loaded[p] \in {None, url}
Gone ==
  ~feed /\ ~under =>
    /\ source = None
    /\ \A p \in Process : loaded[p] \in {None, NoRow} /\ (p \notin Worker => pc[p] = "idle")

IInv ==
  /\ TypeOK /\ url >= 1
  /\ Locked /\ InsertsFirst /\ ImportedOnce
  /\ Bare /\ Fresh /\ Gone

(* Whatever save() throws and whoever dies, the lock of the source is free     *)
(* again and again: imports do not stop for ever.                              *)
LockComesBack == []<>(lock = None)
==============================================================================
