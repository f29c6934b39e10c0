---------------------------- MODULE SystemQueue ----------------------------
(* One queue of the {queue} table: SystemQueue of                              *)
(* docroot/modules/system/system.queue.inc, the reset of expired leases in     *)
(* system_cron(), and the consumers, which work as the loop at the end of      *)
(* drupal_cron_run() does.  Every SQL statement is one atomic step.            *)
(*                                                                             *)
(* Time is kept as distances, so that it needs no end: an expire time is the   *)
(* number of seconds that are left until it, negative once it is past.  Of the *)
(* column created only the order matters: it is read from a clock that stands  *)
(* still unless somebody has read it.                                          *)
EXTENDS Integers, FiniteSets

CONSTANTS
  Worker,        \* the processes that consume the queue
  Producer,      \* the processes that create items
  MaxItems,      \* bound: the calls of createItem()
  LeaseTime,     \* $lease_time of claimItem()
  MaxLag,        \* bound: the age of REQUEST_TIME when system_cron() uses it
  MaxFaults,     \* bound: exceptions, deaths and releases of workers
  LateRelease    \* whether consumers release an item after their lease, too

ASSUME SystemQueueAssumption ==
  /\ MaxItems \in Nat
  /\ LeaseTime \in Nat
  /\ MaxLag \in Nat
  /\ MaxFaults \in Nat
  /\ LateRelease \in BOOLEAN

Item == 1..MaxItems

(* Past this age an expire time is no longer told apart from an older one. *)
Forgotten == -(MaxLag + 1)

Left == Forgotten..LeaseTime

NoTime == -1

VARIABLES
  queue,     \* the item_ids in the table
  last,      \* the last item_id given out
  created,   \* created[i]: the column created of item i
  leased,    \* the items whose expire is not 0
  left,      \* left[i]: the seconds to the expire time of a leased item
  now,       \* time(), as far as its order tells
  stamp,     \* stamp[p]: what time() said to a createItem() of p before its
             \*   INSERT, or NoTime
  pc,        \* pc[w]: where consumer w is in its loop
  item,      \* item[w]: $item of consumer w, 0 when it has none
  mine,      \* mine[w]: the seconds left of the lease w was given
  seen,      \* history: seen[p]: the last item_id when p called time()
  since,     \* history: since[i]: the last item_id when time() was called for i
  handed,    \* history: the items claimed at least once
  done,      \* history: the items executed to the end at least once
  twice,     \* history: the items executed to the end more than once
  late,      \* history: the items handed out again behind their worker's back
  faults     \* the faults so far

table == <<queue, last, created, leased, left>>
clock == <<now, stamp, seen, since>>
history == <<handed, done, twice, late, faults>>
vars == <<table, clock, pc, item, mine, history>>

(* "idle": between two calls; "update": in claimItem(), between its SELECT and *)
(* its UPDATE; "work": in the worker callback; "delete": the callback has      *)
(* returned.                                                                   *)
TypeOK ==
  /\ queue \subseteq Item /\ leased \subseteq queue
  /\ last \in 0..MaxItems /\ created \in [Item -> Nat]
  /\ left \in [Item -> Left]
  /\ now \in Nat /\ stamp \in [Producer -> Nat \cup {NoTime}]
  /\ seen \in [Producer -> 0..MaxItems] /\ since \in [Item -> 0..MaxItems]
  /\ pc \in [Worker -> {"idle", "update", "work", "delete"}]
  /\ item \in [Worker -> 0..MaxItems]
  /\ mine \in [Worker -> Left]
  /\ \A w \in Worker : pc[w] = "idle" <=> item[w] = 0
  /\ handed \subseteq Item /\ done \subseteq Item /\ twice \subseteq done
  /\ late \subseteq Item
  /\ faults \in 0..MaxFaults

Init ==
  /\ queue = {} /\ last = 0 /\ leased = {}
  /\ created = [i \in Item |-> 0]
  /\ left = [i \in Item |-> 0]
  /\ now = 1 /\ stamp = [p \in Producer |-> NoTime]
  /\ seen = [p \in Producer |-> 0] /\ since = [i \in Item |-> 0]
  /\ pc = [w \in Worker |-> "idle"]
  /\ item = [w \in Worker |-> 0]
  /\ mine = [w \in Worker |-> 0]
  /\ handed = {} /\ done = {} /\ twice = {} /\ late = {}
  /\ faults = 0

Goto(w, label) == pc' = [pc EXCEPT ![w] = label]

Idle(w) == Goto(w, "idle") /\ item' = [item EXCEPT ![w] = 0]

-----------------------------------------------------------------------------
(* The calls of createItem() that are under way; with the rows they are bounded *)
(* by MaxItems.                                                                *)
Calls == Cardinality({p \in Producer : stamp[p] # NoTime})

(* time() is called by createItem() in the process p and says time. *)
Stamped(p, time) ==
  /\ stamp[p] = NoTime
  /\ last + Calls < MaxItems
  /\ stamp' = [stamp EXCEPT ![p] = time]
  /\ seen' = [seen EXCEPT ![p] = last]
  /\ UNCHANGED <<table, now, since, pc, item, mine, history>>

(* Mutation: REQUEST_TIME, which may be as old as the request. *)
ReadTime_Request(p) == \E time \in 0..now : Stamped(p, time)

(* createItem(): time() is called for the column created.  The clock is one for *)
(* all processes and does not go back.                                         *)
ReadTime(p) == Stamped(p, now)

(* createItem(): the INSERT, which gives the item_id.  A process that dies      *)
(* before it never comes here.                                                 *)
CreateItem(p) ==
  /\ stamp[p] # NoTime
  /\ last < MaxItems
  /\ last' = last + 1
  /\ queue' = queue \cup {last + 1}
  /\ created' = [created EXCEPT ![last + 1] = stamp[p]]
  /\ since' = [since EXCEPT ![last + 1] = seen[p]]
  /\ stamp' = [stamp EXCEPT ![p] = NoTime]
  /\ seen' = [seen EXCEPT ![p] = 0]
  /\ UNCHANGED <<leased, left, now, pc, item, mine, history>>

(* ORDER BY created, item_id *)
Before(i, j) == created[i] < created[j] \/ (created[i] = created[j] /\ i < j)

(* claimItem(): the SELECT of the first item with expire = 0.                  *)
Select(w) ==
  /\ pc[w] = "idle"
  /\ \E i \in queue \ leased :
       /\ \A j \in queue \ leased : j # i => Before(i, j)
       /\ item' = [item EXCEPT ![w] = i]
  /\ Goto(w, "update")
  /\ UNCHANGED <<table, clock, mine, history>>

(* What a successful UPDATE of claimItem() does. *)
Take(w) ==
  /\ leased' = leased \cup {item[w]}
  /\ left' = [left EXCEPT ![item[w]] = LeaseTime]
  /\ mine' = [mine EXCEPT ![w] = LeaseTime]
  /\ handed' = handed \cup {item[w]}
  /\ Goto(w, "work")
  /\ UNCHANGED <<queue, last, created, clock, item, done, twice, late, faults>>

(* Mutation: the UPDATE without expire = 0. *)
Claim_AnyLease(w) == pc[w] = "update" /\ item[w] \in queue /\ Take(w)

(* claimItem(): the UPDATE, which finds the row only if it is still free. *)
Claim(w) == pc[w] = "update" /\ item[w] \in queue \ leased /\ Take(w)

(* Another consumer was faster: claimItem() looks for an item again. *)
ClaimLost(w) ==
  /\ pc[w] = "update"
  /\ item[w] \notin queue \ leased
  /\ Idle(w)
  /\ UNCHANGED <<table, clock, mine, history>>

(* The worker callback returns. *)
Execute(w) ==
  /\ pc[w] = "work"
  /\ done' = done \cup {item[w]}
  /\ twice' = IF item[w] \in done THEN twice \cup {item[w]} ELSE twice
  /\ Goto(w, "delete")
  /\ UNCHANGED <<table, clock, item, mine, handed, late, faults>>

(* deleteItem(): by item_id, whoever holds the lease by now. *)
Delete(w) ==
  /\ pc[w] = "delete"
  /\ queue' = queue \ {item[w]}
  /\ leased' = leased \ {item[w]}
  /\ Idle(w)
  /\ UNCHANGED <<last, created, left, clock, mine, history>>

(* releaseItem(): by item_id, too.  The cron loop never calls it. *)
Release(w) ==
  /\ pc[w] = "work"
  /\ LateRelease \/ mine[w] >= 0
  /\ faults < MaxFaults
  /\ faults' = faults + 1
  /\ leased' = leased \ {item[w]}
  /\ Idle(w)
  /\ UNCHANGED <<queue, last, created, left, clock, mine, handed, done, twice, late>>

(* The callback throws, or the process dies before the DELETE: the row keeps   *)
(* its lease.                                                                  *)
Fail(w) ==
  /\ pc[w] \in {"work", "delete"}
  /\ faults < MaxFaults
  /\ faults' = faults + 1
  /\ late' = IF pc[w] = "delete" THEN late \cup {item[w]} ELSE late
  /\ Idle(w)
  /\ UNCHANGED <<table, clock, mine, handed, done, twice>>

(* An item is taken from whoever still works on it with an expired lease. *)
Free(items) ==
  /\ items # {}
  /\ leased' = leased \ items
  /\ late' = late \cup {i \in items :
       \E w \in Worker : pc[w] \in {"work", "delete"} /\ item[w] = i /\ mine[w] < 0}
  /\ UNCHANGED <<queue, last, created, left, clock, pc, item, mine, handed, done, twice, faults>>

(* Mutation: > for <. *)
Reset_Running(lag) == Free({i \in leased : left[i] > -lag})

(* Mutation: no condition on expire but <> 0. *)
Reset_All(lag) == Free(leased)

(* system_cron(): UPDATE ... WHERE expire <> 0 AND expire < REQUEST_TIME, in a *)
(* request that started lag seconds ago.                                       *)
Reset(lag) == Free({i \in leased : left[i] < -lag})

(* deleteQueue() *)
DeleteQueue ==
  /\ queue # {}
  /\ queue' = {} /\ leased' = {}
  /\ UNCHANGED <<last, created, left, clock, pc, item, mine, history>>

Later(seconds) == IF seconds = Forgotten THEN seconds ELSE seconds - 1

(* The present second has been read. *)
Read == (\E p \in Producer : stamp[p] = now) \/ (\E i \in 1..last : created[i] = now)

Tick ==
  /\ left' = [i \in Item |-> Later(left[i])]
  /\ mine' = [w \in Worker |-> Later(mine[w])]
  /\ now' = IF Read THEN now + 1 ELSE now
  /\ UNCHANGED <<queue, last, created, leased, stamp, seen, since, pc, item, history>>

-----------------------------------------------------------------------------
Consume(w) == Select(w) \/ Claim(w) \/ ClaimLost(w) \/ Execute(w) \/ Delete(w)

Next ==
  \/ \E p \in Producer : ReadTime(p) \/ CreateItem(p)
  \/ \E w \in Worker : Consume(w) \/ Release(w) \/ Fail(w)
  \/ \E lag \in 0..MaxLag : Reset(lag)
  \/ DeleteQueue
  \/ Tick

Spec == Init /\ [][Next]_vars

(* Cron is started again and again by the crontab: so items are looked for and *)
(* leases are reset; a callback that does not throw returns; time passes.      *)
FairSpec ==
  /\ Spec
  /\ \A w \in Worker : WF_vars(Consume(w))
  /\ WF_vars(Reset(0))
  /\ WF_vars(Tick)

-----------------------------------------------------------------------------
HasLease(w) == pc[w] \in {"work", "delete"} /\ mine[w] >= 0

(* Two consumers never hold leases for one item that are both running, however *)
(* SELECTs, UPDATEs, resets and late deletes interleave.                       *)
LeaseExclusion ==
  \A v, w \in Worker : HasLease(v) /\ HasLease(w) /\ item[v] = item[w] => v = w

(* An item is executed twice only if its worker outlived the lease or died     *)
(* between the callback and the DELETE, the two cases system.queue.inc:53-55   *)
(* warns of.                                                                   *)
TwiceOnlyWhenLate == twice \subseteq late

(* An item is first handed out after all the items that were in the table when *)
(* its createItem() began, whatever fails and overlaps: what is left of        *)
(* "preserves the order of messages".  Of two items whose createItem() overlap *)
(* either may come first, as created is read before item_id is given.          *)
FirstHandedInOrder == \A i \in handed, j \in queue : j <= since[i] => j \in handed

(* Item ids are given out once and known only to those who saw the row.        *)
IdsGrow ==
  /\ queue \cup handed \subseteq 1..last
  /\ leased \cup done \subseteq handed
  /\ \A w \in Worker :
       /\ item[w] <= last
       /\ pc[w] \in {"work", "delete"} => item[w] \in handed
       /\ pc[w] = "delete" => item[w] \in done

(* No time is later than now, and the items that were there when a time was    *)
(* read have times that are no later.                                          *)
TimesGrow ==
  /\ \A i \in 1..last :
       /\ created[i] <= now /\ since[i] < i
       /\ \A j \in 1..since[i] : created[j] <= created[i]
  /\ \A p \in Producer : stamp[p] # NoTime =>
       /\ stamp[p] <= now /\ seen[p] <= last
       /\ \A j \in 1..seen[p] : created[j] <= stamp[p]

(* The item a SELECT returned has no item that was never handed out among      *)
(* those that were in the table when its creation began.                       *)
SelectedOldest ==
  \A w \in Worker, j \in queue :
    pc[w] = "update" /\ j <= since[item[w]] => j \in handed

(* The table knows of every lease that is running. *)
LeaseKnown ==
  \A w \in Worker :
    HasLease(w) /\ item[w] \in queue => item[w] \in leased /\ left[item[w]] = mine[w]

Busy(w, i) == pc[w] \in {"work", "delete"} /\ item[w] = i

(* An item that was never handed out behind a worker's back has one worker at  *)
(* most, its row is leased while it has, and it is not claimed again once it   *)
(* has been executed.                                                          *)
SoleWorker ==
  \A i \in Item \ late :
    /\ \A v, w \in Worker : Busy(v, i) /\ Busy(w, i) => v = w
    /\ \A w \in Worker : Busy(w, i) /\ i \in queue => i \in leased
    /\ i \in done \cap queue => \E w \in Worker : Busy(w, i) /\ pc[w] = "delete"
    /\ \A w \in Worker : Busy(w, i) /\ pc[w] = "work" => i \notin done

IInv ==
  /\ TypeOK /\ IdsGrow /\ TimesGrow /\ SelectedOldest /\ FirstHandedInOrder
  /\ ~LateRelease => LeaseKnown /\ LeaseExclusion /\ SoleWorker /\ TwiceOnlyWhenLate

Reliable == INSTANCE ReliableQueue WITH pending <- queue

(* Whatever fails, every item is executed at least once before it leaves the   *)
(* queue, and it is executed in the end.                                       *)
ReliableSpec == Reliable!Spec

(* The part of it that is about single steps. *)
ReliableSafety == Reliable!Init /\ [][Reliable!Next]_(Reliable!vars)
==============================================================================
