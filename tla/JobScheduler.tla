---------------------------- MODULE JobScheduler ----------------------------
(* The hourly import of a feed as Job Scheduler, drupal_cron_run() and the     *)
(* queue feeds_source_import drive it: which of several cron runs works on the *)
(* job of the feed, and that somebody does again and again.  What an import    *)
(* does is the subject of FeedsImport.  The queue is taken for what            *)
(* ReliableQueue promises, the lock cron for what LeaseLock promises.          *)
(*                                                                             *)
(* There is no clock: what waits for one (a job that is due, a lease that is   *)
(* over) may see it pass at any moment.                                        *)
(*                                                                             *)
(* Cron drives DrupalCheck, too, and CronProofs extends both modules: where    *)
(* both need a name, it begins with Job or job here.                           *)
EXTENDS Integers, FiniteSets

CONSTANTS
  Process,    \* PHP processes that run drupal_cron_run() again and again
  MaxRows,    \* bound: rows of {job_schedule} at a time
  MaxItems,   \* bound: items of the queue at a time
  MaxFaults,  \* bound: deaths of processes, and statements of theirs that throw
  Nobody,     \* no process; no object
  Dead        \* the holder of a lock whose process has been killed

ASSUME JobAssumption ==
  /\ MaxRows \in Nat \ {0} /\ MaxItems \in Nat \ {0} /\ MaxFaults \in Nat
  /\ {Nobody, Dead} \cap (Process \cup BOOLEAN) = {} /\ Nobody # Dead

VARIABLES
  feed,      \* the feed node exists
  source,    \* its row of {feeds_source} exists
  jobs,      \* jobs[i]: the row i of {job_schedule}
  queue,     \* queue[i]: the item i of the queue
  cronLock,  \* the holder of the lock cron
  pc,        \* pc[p]: the statement p executes next
  exists,    \* exists[p]: doesExist() of p's FeedsSource object, or Nobody
  item,      \* item[p]: the item p works on, or 0
  todo,      \* todo[p]: jobs p has selected and not dispatched
  faults,    \* how many processes have died and how many statements have thrown
  lost       \* history: a set() ended between its DELETE and its INSERT, or the
             \* job was removed because dispatch() threw, and no row came since

jobTables == <<feed, source, jobs, queue>>
locals == <<exists, item, todo>>
jobVars == <<jobTables, cronLock, pc, locals, faults, lost>>

Row == 1..MaxRows
Item == 1..MaxItems

(* scheduled = 0, and next is ahead or has passed; scheduled, for less than an *)
(* hour or for more.                                                           *)
RowState == {"none", "waiting", "due", "reserved", "stuck"}
ItemState == {"none", "free", "leased", "over"}
PC == {"idle", "unstick", "select", "create", "reserve", "catch", "reset", "claim",
       "drop", "import", "remove", "add", "delete"}

(* What the tables and the processes hold; a cron run has as many jobs in hand *)
(* as there were rows due.                                                     *)
JobTypeOK ==
  /\ feed \in BOOLEAN /\ source \in BOOLEAN
  /\ jobs \in [Row -> RowState]
  /\ queue \in [Item -> ItemState]
  /\ cronLock \in Process \cup {Nobody, Dead}
  /\ pc \in [Process -> PC]
  /\ exists \in [Process -> BOOLEAN \cup {Nobody}]
  /\ item \in [Process -> Item \cup {0}]
  /\ todo \in [Process -> 0..MaxRows]
  /\ faults \in 0..MaxFaults
  /\ lost \in BOOLEAN
  /\ \A p \in Process : pc[p] \in {"create", "reserve", "catch"} => todo[p] > 0

(* As feeds_node_insert() leaves it: a source with a job that is not due. *)
JobInit ==
  /\ feed = TRUE /\ source = TRUE
  /\ jobs = [r \in Row |-> IF r = 1 THEN "waiting" ELSE "none"]
  /\ queue = [i \in Item |-> "none"]
  /\ cronLock = Nobody
  /\ pc = [p \in Process |-> "idle"]
  /\ exists = [p \in Process |-> Nobody]
  /\ item = [p \in Process |-> 0]
  /\ todo = [p \in Process |-> 0]
  /\ faults = 0 /\ lost = FALSE

Goto(p, label) == pc' = [pc EXCEPT ![p] = label]

NoJob == \A r \in Row : jobs[r] = "none"

(* An INSERT into {job_schedule}, which has no unique key but its own id. *)
AddRow ==
  /\ \E r \in Row :
       /\ jobs[r] = "none" /\ \A q \in 1..(r - 1) : jobs[q] # "none"
       /\ jobs' = [jobs EXCEPT ![r] = "waiting"]
  /\ lost' = FALSE

(* JobScheduler::remove(): a DELETE by name, type and id. *)
RemoveRows == jobs' = [r \in Row |-> "none"]

-----------------------------------------------------------------------------
(* drupal_cron_run(): the hooks run under the lock cron; a run that does not   *)
(* get it still works on the queues.                                           *)
CronBegins(p) ==
  /\ pc[p] = "idle"
  /\ IF cronLock = Nobody
     THEN cronLock' = p /\ Goto(p, "unstick")
     ELSE UNCHANGED cronLock /\ Goto(p, "claim")
  /\ UNCHANGED <<jobTables, locals, faults, lost>>

(* Mutation: reserved jobs wait for their worker, however long. *)
Unstick_Never(p) ==
  /\ pc[p] = "unstick"
  /\ Goto(p, "select")
  /\ UNCHANGED <<jobTables, cronLock, locals, faults, lost>>

(* job_scheduler_cron(): jobs reserved more than an hour ago.  Their period of *)
(* an hour is over as well.                                                    *)
Unstick(p) ==
  /\ pc[p] = "unstick"
  /\ jobs' = [r \in Row |-> IF jobs[r] = "stuck" THEN "due" ELSE jobs[r]]
  /\ Goto(p, "select")
  /\ UNCHANGED <<feed, source, queue, cronLock, locals, faults, lost>>

(* The loop is entered with the jobs that are due and not dispatched. *)
SelectJobs(p) ==
  /\ pc[p] = "select"
  /\ LET due == Cardinality({r \in Row : jobs[r] = "due"}) IN
     /\ todo' = [todo EXCEPT ![p] = due]
     /\ Goto(p, IF due = 0 THEN "reset" ELSE "create")
  /\ UNCHANGED <<jobTables, cronLock, exists, item, faults, lost>>

(* JobScheduler::dispatch(): createItem(), then reserve().  With MaxItems items *)
(* in the queue it waits, which is a bound of the model.                       *)
CreateItem(p) ==
  /\ pc[p] = "create"
  /\ \E i \in Item :
       /\ queue[i] = "none" /\ \A q \in Process : item[q] # i
       /\ queue' = [queue EXCEPT ![i] = "free"]
  /\ Goto(p, "reserve")
  /\ UNCHANGED <<feed, source, jobs, cronLock, locals, faults, lost>>

NextJob(p) ==
  /\ todo' = [todo EXCEPT ![p] = @ - 1]
  /\ Goto(p, IF todo[p] = 1 THEN "reset" ELSE "create")

(* The UPDATE goes by name, type and id: it may meet a row that another cron   *)
(* run inserted after the SELECT, or none.                                     *)
Reserve(p) ==
  /\ pc[p] = "reserve"
  /\ jobs' = [r \in Row |-> IF jobs[r] = "none" THEN "none" ELSE "reserved"]
  /\ NextJob(p)
  /\ UNCHANGED <<feed, source, queue, cronLock, exists, item, faults, lost>>

Fault == faults < MaxFaults /\ faults' = faults + 1

(* createItem() or reserve() throws; neither returns FALSE here. *)
DispatchFails(p) ==
  /\ pc[p] \in {"create", "reserve"}
  /\ Fault
  /\ Goto(p, "catch")
  /\ UNCHANGED <<jobTables, cronLock, locals, lost>>

(* "Drop jobs that have caused exceptions", all rows of theirs. *)
Catch(p) ==
  /\ pc[p] = "catch"
  /\ RemoveRows
  /\ lost' = TRUE
  /\ NextJob(p)
  /\ UNCHANGED <<feed, source, queue, cronLock, exists, item, faults>>

(* A statement of job_scheduler_cron() outside its try block throws.           *)
HookFails(p) ==
  /\ pc[p] \in {"unstick", "select", "catch"}
  /\ Fault
  /\ todo' = [todo EXCEPT ![p] = 0]
  /\ Goto(p, "reset")
  /\ UNCHANGED <<jobTables, cronLock, exists, item, lost>>

(* system_cron() takes back the leases that are over; then the lock goes. *)
ResetLeases(p) ==
  /\ pc[p] = "reset"
  /\ queue' = [i \in Item |-> IF queue[i] = "over" THEN "free" ELSE queue[i]]
  /\ cronLock' = Nobody
  /\ Goto(p, "claim")
  /\ UNCHANGED <<feed, source, jobs, locals, faults, lost>>

(* system_cron() throws. *)
ResetFails(p) ==
  /\ pc[p] = "reset"
  /\ Fault
  /\ cronLock' = Nobody
  /\ Goto(p, "claim")
  /\ UNCHANGED <<jobTables, locals, lost>>

-----------------------------------------------------------------------------
(* The loop over the items, outside the lock, and the first lines of the       *)
(* worker: FeedsSource::instance() reads the row for the first item and keeps  *)
(* the object for all that follow, and existing() refuses one without a row.   *)
Claim(p) ==
  /\ pc[p] = "claim"
  /\ \E i \in Item :
       /\ queue[i] = "free"
       /\ queue' = [queue EXCEPT ![i] = "leased"]
       /\ item' = [item EXCEPT ![p] = i]
  /\ LET known == IF exists[p] = Nobody THEN source ELSE exists[p] IN
     /\ exists' = [exists EXCEPT ![p] = known]
     /\ Goto(p, IF known THEN "import" ELSE "drop")
  /\ UNCHANGED <<feed, source, jobs, cronLock, todo, faults, lost>>

(* No item is left, or the time for the queue is over, which it is not before  *)
(* the first item.                                                             *)
Finish(p) ==
  /\ pc[p] = "claim"
  /\ exists[p] # Nobody \/ \A i \in Item : queue[i] # "free"
  /\ exists' = [exists EXCEPT ![p] = Nobody]
  /\ Goto(p, "idle")
  /\ UNCHANGED <<jobTables, cronLock, item, todo, faults, lost>>

(* Mutation: the worker only logs that its source is gone. *)
Drop_KeepsJob(p) ==
  /\ pc[p] = "drop"
  /\ Goto(p, "delete")
  /\ UNCHANGED <<jobTables, cronLock, locals, faults, lost>>

(* FeedsNotExistingException: the worker removes the job. *)
Drop(p) ==
  /\ pc[p] = "drop"
  /\ RemoveRows
  /\ Goto(p, "delete")
  /\ UNCHANGED <<feed, source, queue, cronLock, locals, faults, lost>>

(* import(), whose save() inserts a row of {feeds_source} that is missing. *)
Import(p) ==
  /\ pc[p] = "import"
  /\ source' = TRUE
  /\ Goto(p, "remove")
  /\ UNCHANGED <<feed, jobs, queue, cronLock, locals, faults, lost>>

(* Mutation: every exception of import() is taken for a source that is gone. *)
ImportLocked_Drops(p) ==
  /\ pc[p] = "import"
  /\ Goto(p, "drop")
  /\ UNCHANGED <<jobTables, cronLock, locals, faults, lost>>

(* import() throws before save(): the lock of the source is taken. *)
ImportLocked(p) ==
  /\ pc[p] = "import"
  /\ Goto(p, "remove")
  /\ UNCHANGED <<jobTables, cronLock, locals, faults, lost>>

(* scheduleImport() after every import: JobScheduler::set(), first a DELETE, *)
RemoveJob(p) ==
  /\ pc[p] = "remove"
  /\ RemoveRows
  /\ Goto(p, "add")
  /\ UNCHANGED <<feed, source, queue, cronLock, locals, faults, lost>>

(* then an INSERT. *)
AddJob(p) ==
  /\ pc[p] = "add"
  /\ AddRow
  /\ Goto(p, "delete")
  /\ UNCHANGED <<feed, source, queue, cronLock, locals, faults>>

DeleteItem(p) ==
  /\ pc[p] = "delete"
  /\ queue' = [queue EXCEPT ![item[p]] = "none"]
  /\ item' = [item EXCEPT ![p] = 0]
  /\ Goto(p, "claim")
  /\ UNCHANGED <<feed, source, jobs, cronLock, exists, todo, faults, lost>>

(* A statement of the worker outside import(), or the DELETE of the item,      *)
(* throws: the item keeps its lease, which will end.                           *)
WorkerFails(p) ==
  /\ pc[p] \in {"drop", "remove", "add", "delete"}
  /\ Fault
  /\ item' = [item EXCEPT ![p] = 0]
  /\ Goto(p, "claim")
  /\ lost' = (lost \/ (pc[p] = "add" /\ NoJob))
  /\ UNCHANGED <<jobTables, cronLock, exists, todo>>

-----------------------------------------------------------------------------
(* feeds_node_update(), in the transaction of node_save(): ensureSchedule()    *)
(* adds a missing job, and reschedules the first row of one that is reserved.  *)
SaveForm ==
  /\ feed
  /\ IF NoJob
     THEN AddRow
     ELSE /\ \E r \in Row :
               /\ jobs[r] \in {"reserved", "stuck"}
               /\ jobs' = [jobs EXCEPT ![r] = IF @ = "stuck" THEN "due" ELSE "waiting"]
          /\ UNCHANGED lost
  /\ UNCHANGED <<feed, source, queue, cronLock, pc, locals, faults>>

(* feeds_node_delete(), in the transaction of node_delete_multiple(): the      *)
(* source and its job go, an item of the queue stays.                          *)
DeleteFeed ==
  /\ feed
  /\ feed' = FALSE /\ source' = FALSE
  /\ RemoveRows
  /\ UNCHANGED <<queue, cronLock, pc, locals, faults, lost>>

(* A process dies.  If it was killed, its lock lasts until it expires. *)
Die(p) ==
  /\ pc[p] # "idle"
  /\ Fault
  /\ Goto(p, "idle")
  /\ exists' = [exists EXCEPT ![p] = Nobody]
  /\ item' = [item EXCEPT ![p] = 0]
  /\ todo' = [todo EXCEPT ![p] = 0]
  /\ cronLock' = IF cronLock = p THEN Dead ELSE cronLock
  /\ lost' = (lost \/ (pc[p] = "add" /\ NoJob))
  /\ UNCHANGED jobTables

LockTime ==
  /\ cronLock = Dead
  /\ cronLock' = Nobody
  /\ UNCHANGED <<jobTables, pc, locals, faults, lost>>

JobTime(r) ==
  /\ jobs[r] \in {"waiting", "reserved"}
  /\ jobs' = [jobs EXCEPT ![r] = IF @ = "waiting" THEN "due" ELSE "stuck"]
  /\ UNCHANGED <<feed, source, queue, cronLock, pc, locals, faults, lost>>

LeaseTime(i) ==
  /\ queue[i] = "leased"
  /\ queue' = [queue EXCEPT ![i] = "over"]
  /\ UNCHANGED <<feed, source, jobs, cronLock, pc, locals, faults, lost>>

-----------------------------------------------------------------------------
Continue(p) ==
  \/ Unstick(p) \/ SelectJobs(p) \/ CreateItem(p) \/ Reserve(p) \/ Catch(p)
  \/ ResetLeases(p) \/ Claim(p) \/ Finish(p) \/ Drop(p) \/ Import(p) \/ ImportLocked(p)
  \/ RemoveJob(p) \/ AddJob(p) \/ DeleteItem(p)

TimePasses == LockTime \/ (\E r \in Row : JobTime(r)) \/ (\E i \in Item : LeaseTime(i))

Fail(p) == DispatchFails(p) \/ HookFails(p) \/ ResetFails(p) \/ WorkerFails(p) \/ Die(p)

JobNext ==
  \/ \E p \in Process : CronBegins(p) \/ Continue(p) \/ Fail(p)
  \/ SaveForm \/ DeleteFeed \/ TimePasses

(* A crontab starts cron again and again, processes run on, and time passes. *)
Fairness ==
  /\ \A p \in Process : WF_jobVars(CronBegins(p) \/ Continue(p))
  /\ WF_jobVars(LockTime)
  /\ \A r \in Row : WF_jobVars(JobTime(r))
  /\ \A i \in Item : WF_jobVars(LeaseTime(i))

JobSpec == JobInit /\ [][JobNext]_jobVars /\ Fairness

-----------------------------------------------------------------------------
(* The job of a feed is in {job_schedule} or about to be inserted, whichever   *)
(* cron runs take it from each other, whatever an import throws, and even if   *)
(* an item is left over.  Two things can lose it, and with it all further      *)
(* imports: a set() that ends between its DELETE and its INSERT, and a         *)
(* dispatch() that throws, after which job_scheduler_cron() drops the job.     *)
JobKept == feed /\ NoJob /\ (\A p \in Process : pc[p] # "add") => lost

(* What it rests on: no worker takes a feed that exists for one without a      *)
(* source, although it asks once for all of its items.                         *)
SourceOfFeed == feed => source
KnownIsTrue == feed => \A p \in Process : exists[p] # FALSE /\ pc[p] # "drop"
JobIInv == JobTypeOK /\ SourceOfFeed /\ KnownIsTrue /\ JobKept

(* "the scheduler will keep periodically invoking the callback()"              *)
(* (JobScheduler.inc:78): whatever else dies or overtakes it, a feed is        *)
(* imported again and again.                                                   *)
KeepsImporting == []<>(~feed \/ lost \/ \E p \in Process : pc[p] = "import")

(* "Eventually remove the job from job scheduler" (feeds.module:212): the job  *)
(* that a running import sets for a source deleted meanwhile does not stay.    *)
JobsOfGoneSourcesGo == (~feed /\ ~source) ~> (NoJob \/ source)
==============================================================================
