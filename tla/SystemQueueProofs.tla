-------------------------- MODULE SystemQueueProofs --------------------------
(* Theorems about SystemQueue for any number of consumers, items and faults,   *)
(* any lease time and any age of a cron request.                               *)
EXTENDS SystemQueue, TLAPS

LEMMA InitIInv == Init => IInv
<1> SUFFICES ASSUME Init PROVE IInv
  OBVIOUS
<1> USE SystemQueueAssumption DEF Init
<1>1. TypeOK
  BY DEF TypeOK, Item, Left, Forgotten, NoTime
<1>2. IdsGrow /\ TimesGrow
  BY DEF IdsGrow, TimesGrow, NoTime
<1>3. SelectedOldest /\ FirstHandedInOrder
  BY DEF SelectedOldest, FirstHandedInOrder
<1>4. LeaseKnown /\ LeaseExclusion
  BY DEF LeaseKnown, LeaseExclusion, HasLease
<1>5. SoleWorker /\ TwiceOnlyWhenLate
  BY DEF SoleWorker, TwiceOnlyWhenLate, Busy
<1> QED
  BY <1>1, <1>2, <1>3, <1>4, <1>5 DEF IInv

(* A consumer past its SELECT has an item of the table's history. *)
LEMMA HasItem ==
  ASSUME TypeOK, NEW w \in Worker, pc[w] # "idle"
  PROVE  item[w] \in Item
BY SystemQueueAssumption DEF TypeOK, Item

LEMMA LaterType ==
  ASSUME NEW x \in Left
  PROVE  Later(x) \in Left /\ (Later(x) >= 0 => x >= 0)
BY SystemQueueAssumption DEF Left, Later, Forgotten

LEMMA TypeStep == TypeOK /\ [Next]_vars => TypeOK'
<1> SUFFICES ASSUME TypeOK, [Next]_vars PROVE TypeOK'
  OBVIOUS
<1> USE SystemQueueAssumption
<1>1. ASSUME NEW p \in Producer, CreateItem(p) PROVE TypeOK'
  <2>1. last + 1 \in Item /\ stamp[p] \in Nat /\ seen[p] \in 0..MaxItems
    BY <1>1 DEF CreateItem, TypeOK, Item
  <2>2. created' \in [Item -> Nat] /\ since' \in [Item -> 0..MaxItems]
    BY <1>1, <2>1 DEF CreateItem, TypeOK
  <2>3. stamp' \in [Producer -> Nat \cup {NoTime}] /\ seen' \in [Producer -> 0..MaxItems]
    BY <1>1 DEF CreateItem, TypeOK
  <2>4. queue' \subseteq Item /\ leased' \subseteq queue' /\ last' \in 0..MaxItems
    BY <1>1, <2>1 DEF CreateItem, TypeOK, Item
  <2> QED
    BY <1>1, <2>2, <2>3, <2>4 DEF CreateItem, TypeOK, clock, history
<1>0. ASSUME NEW p \in Producer, ReadTime(p) PROVE TypeOK'
  <2>1. stamp' \in [Producer -> Nat \cup {NoTime}] /\ seen' \in [Producer -> 0..MaxItems]
    BY <1>0 DEF ReadTime, Stamped, TypeOK
  <2> QED
    BY <1>0, <2>1 DEF ReadTime, Stamped, TypeOK, table, clock, history
<1>2. ASSUME NEW w \in Worker, Select(w) PROVE TypeOK'
  <2>1. PICK i \in queue \ leased : item' = [item EXCEPT ![w] = i]
    BY <1>2 DEF Select
  <2>2. i \in 0..MaxItems /\ i # 0
    BY <2>1 DEF TypeOK, Item
  <2> QED
    BY <1>2, <2>1, <2>2 DEF Select, Goto, TypeOK, table, clock, history
<1>3. ASSUME NEW w \in Worker, Claim(w) PROVE TypeOK'
  <2>1. LeaseTime \in Left /\ item[w] \in queue /\ item[w] \in Item
    BY <1>3 DEF Claim, Left, Forgotten, TypeOK
  <2>2. /\ leased' \subseteq queue' /\ queue' \subseteq Item /\ handed' \subseteq Item
        /\ left' \in [Item -> Left] /\ mine' \in [Worker -> Left]
    BY <1>3, <2>1 DEF Claim, Take, TypeOK
  <2> QED
    BY <1>3, <2>2 DEF Claim, Take, Goto, TypeOK, clock
<1>4. ASSUME NEW w \in Worker, ClaimLost(w) PROVE TypeOK'
  BY <1>4 DEF ClaimLost, Idle, Goto, TypeOK, table, clock, history
<1>5. ASSUME NEW w \in Worker, Execute(w) PROVE TypeOK'
  <2>1. item[w] \in Item
    BY <1>5, HasItem DEF Execute
  <2>2. done' \subseteq Item /\ twice' \subseteq done'
    BY <1>5, <2>1 DEF Execute, TypeOK
  <2> QED
    BY <1>5, <2>2 DEF Execute, Goto, TypeOK, table, clock
<1>6. ASSUME NEW w \in Worker, Delete(w) PROVE TypeOK'
  <2>1. leased' \subseteq queue' /\ queue' \subseteq Item
    BY <1>6 DEF Delete, TypeOK
  <2> QED
    BY <1>6, <2>1 DEF Delete, Idle, Goto, TypeOK, clock, history
<1>7. ASSUME NEW w \in Worker, Release(w) PROVE TypeOK'
  BY <1>7 DEF Release, Idle, Goto, TypeOK, clock
<1>8. ASSUME NEW w \in Worker, Fail(w) PROVE TypeOK'
  <2>1. item[w] \in Item
    BY <1>8, HasItem DEF Fail
  <2>2. late' \subseteq Item /\ faults' \in 0..MaxFaults
    BY <1>8, <2>1 DEF Fail, TypeOK
  <2> QED
    BY <1>8, <2>2 DEF Fail, Idle, Goto, TypeOK, table, clock
<1>9. ASSUME NEW lag \in 0..MaxLag, Reset(lag) PROVE TypeOK'
  <2>1. late' \subseteq Item /\ leased' \subseteq queue
    BY <1>9 DEF Reset, Free, TypeOK
  <2> QED
    BY <1>9, <2>1 DEF Reset, Free, TypeOK, clock
<1>10. CASE DeleteQueue
  BY <1>10 DEF DeleteQueue, TypeOK, clock, history
<1>11. CASE Tick
  <2>1. left' \in [Item -> Left] /\ mine' \in [Worker -> Left]
    BY <1>11, LaterType DEF Tick, TypeOK
  <2>2. now' \in Nat
    BY <1>11 DEF Tick, TypeOK
  <2> QED
    BY <1>11, <2>1, <2>2 DEF Tick, TypeOK, history
<1>12. CASE UNCHANGED vars
  BY <1>12 DEF vars, table, clock, history, TypeOK
<1> QED
  BY <1>0, <1>1, <1>2, <1>3, <1>4, <1>5, <1>6, <1>7, <1>8, <1>9, <1>10, <1>11, <1>12
     DEF Next, Consume

(* Times are read from a clock that does not go back.                          *)
LEMMA TimesStep == TypeOK /\ TimesGrow /\ [Next]_vars => TimesGrow'
<1> SUFFICES ASSUME TypeOK, TimesGrow, [Next]_vars PROVE TimesGrow'
  OBVIOUS
<1>0. /\ last \in 0..MaxItems /\ MaxItems \in Nat /\ now \in Nat /\ NoTime \notin Nat
      /\ created \in [Item -> Nat] /\ since \in [Item -> 0..MaxItems]
      /\ stamp \in [Producer -> Nat \cup {NoTime}] /\ seen \in [Producer -> 0..MaxItems]
      /\ Item = 1..MaxItems
  BY SystemQueueAssumption DEF TypeOK, Item, NoTime
<1>1. ASSUME NEW p \in Producer, ReadTime(p) PROVE TimesGrow'
  <2>1. /\ stamp' = [stamp EXCEPT ![p] = now] /\ seen' = [seen EXCEPT ![p] = last]
        /\ UNCHANGED <<last, created, now, since>>
    BY <1>1 DEF ReadTime, Stamped, table
  <2>2. \A j \in 1..last : created[j] <= now
    BY DEF TimesGrow
  <2>3. \A q \in Producer : stamp'[q] # NoTime =>
          /\ stamp'[q] <= now /\ seen'[q] <= last
          /\ \A j \in 1..seen'[q] : created[j] <= stamp'[q]
    <3> SUFFICES ASSUME NEW q \in Producer, stamp'[q] # NoTime
                 PROVE  /\ stamp'[q] <= now /\ seen'[q] <= last
                        /\ \A j \in 1..seen'[q] : created[j] <= stamp'[q]
      OBVIOUS
    <3>1. CASE q = p
      <4>1. stamp'[q] = now /\ seen'[q] = last
        BY <1>0, <2>1, <3>1
      <4> QED
        BY <1>0, <2>2, <4>1
    <3>2. CASE q # p
      <4>1. stamp'[q] = stamp[q] /\ seen'[q] = seen[q]
        BY <1>0, <2>1, <3>2
      <4> QED
        BY <4>1 DEF TimesGrow
    <3> QED
      BY <3>1, <3>2
  <2> QED
    BY <2>1, <2>3 DEF TimesGrow
<1>2. ASSUME NEW p \in Producer, CreateItem(p) PROVE TimesGrow'
  <2> DEFINE n == last + 1
  <2>1. /\ last' = n /\ n \in Item /\ stamp[p] \in Nat /\ now' = now
        /\ created' = [created EXCEPT ![n] = stamp[p]]
        /\ since' = [since EXCEPT ![n] = seen[p]]
        /\ stamp' = [stamp EXCEPT ![p] = NoTime] /\ seen' = [seen EXCEPT ![p] = 0]
    BY <1>0, <1>2 DEF CreateItem
  <2>2. \A i \in 1..last : created'[i] = created[i] /\ since'[i] = since[i]
    BY <1>0, <2>1
  <2>3. created'[n] = stamp[p] /\ since'[n] = seen[p] /\ seen[p] <= last /\ stamp[p] <= now
    BY <1>0, <2>1 DEF TimesGrow
  <2>4. \A j \in 1..seen[p] : created'[j] <= stamp[p]
    <3>1. \A j \in 1..seen[p] : created[j] <= stamp[p]
      BY <1>0, <2>1 DEF TimesGrow
    <3>2. seen[p] \in Int /\ last \in Int
      BY <1>0
    <3>3. \A j \in 1..seen[p] : j \in 1..last
      BY <2>3, <3>2
    <3> QED
      BY <2>2, <3>1, <3>3
  <2>5. ASSUME NEW i \in 1..n
        PROVE  /\ created'[i] <= now /\ since'[i] < i
               /\ \A j \in 1..since'[i] : created'[j] <= created'[i]
    <3>1. CASE i = n
      <4>1. seen[p] \in Int /\ last \in Int /\ seen[p] < n
        BY <1>0, <2>3
      <4> QED
        BY <2>3, <2>4, <3>1, <4>1
    <3>2. CASE i # n
      <4>1. i \in 1..last
        BY <1>0, <3>2
      <4>2. since[i] < i /\ created[i] <= now /\ \A j \in 1..since[i] : created[j] <= created[i]
        BY <4>1 DEF TimesGrow
      <4>3. since[i] \in 0..MaxItems
        BY <1>0, <4>1
      <4>4. \A j \in 1..since[i] : j \in 1..last
        BY <1>0, <4>1, <4>2, <4>3
      <4> QED
        BY <2>2, <4>1, <4>2, <4>4
    <3> QED
      BY <3>1, <3>2
  <2>6. ASSUME NEW q \in Producer, stamp'[q] # NoTime
        PROVE  /\ stamp'[q] <= now /\ seen'[q] <= n
               /\ \A j \in 1..seen'[q] : created'[j] <= stamp'[q]
    <3>1. q # p /\ stamp'[q] = stamp[q] /\ seen'[q] = seen[q]
      BY <1>0, <2>1, <2>6
    <3>2. stamp[q] <= now /\ seen[q] <= last /\ \A j \in 1..seen[q] : created[j] <= stamp[q]
      BY <2>6, <3>1 DEF TimesGrow
    <3>3. seen[q] \in 0..MaxItems
      BY <1>0
    <3>4. seen[q] <= n /\ \A j \in 1..seen[q] : j \in 1..last
      BY <1>0, <3>2, <3>3
    <3> QED
      BY <2>2, <3>1, <3>2, <3>4
  <2> QED
    BY <2>1, <2>5, <2>6 DEF TimesGrow
<1>3. ASSUME now' \in Nat, now <= now', UNCHANGED <<last, created, stamp, seen, since>>
      PROVE  TimesGrow'
  <2>1. \A i \in 1..last : created[i] \in Nat
    BY <1>0
  <2>2. \A i \in 1..last : created[i] <= now'
    BY <1>0, <1>3, <2>1 DEF TimesGrow
  <2>3. \A q \in Producer : stamp[q] # NoTime => stamp[q] <= now'
    BY <1>0, <1>3 DEF TimesGrow
  <2> QED
    BY <1>3, <2>2, <2>3 DEF TimesGrow
<1>4. CASE Tick
  BY <1>0, <1>3, <1>4 DEF Tick
<1>5. ASSUME NEW w \in Worker, Consume(w) \/ Release(w) \/ Fail(w) PROVE TimesGrow'
  BY <1>0, <1>3, <1>5 DEF Consume, Select, Claim, Take, ClaimLost, Execute, Delete, Release,
                          Fail, table, clock
<1>6. CASE (\E lag \in 0..MaxLag : Reset(lag)) \/ DeleteQueue \/ UNCHANGED vars
  BY <1>0, <1>3, <1>6 DEF Reset, Free, DeleteQueue, vars, table, clock
<1> QED
  BY <1>1, <1>2, <1>4, <1>5, <1>6 DEF Next

(* What holds whatever the consumers release.                                  *)
Order == IdsGrow /\ TimesGrow /\ SelectedOldest /\ FirstHandedInOrder

LEMMA OrderStep == TypeOK /\ Order /\ [Next]_vars => Order'
<1> SUFFICES ASSUME TypeOK, Order, [Next]_vars PROVE IdsGrow' /\ SelectedOldest' /\ FirstHandedInOrder'
  BY TimesStep DEF Order
<1> USE DEF Order
<1>0. /\ last \in Nat /\ queue \subseteq Item /\ handed \subseteq Item /\ Item \subseteq Int
      /\ \A w \in Worker : item[w] \in Int
      /\ \A i \in Item : since[i] \in Int /\ created[i] \in Int
  BY SystemQueueAssumption DEF TypeOK, Item
<1>1. ASSUME NEW p \in Producer, CreateItem(p)
      PROVE  IdsGrow' /\ SelectedOldest' /\ FirstHandedInOrder'
  <2> DEFINE n == last + 1
  <2>1. last' = n /\ queue' = queue \cup {n} /\ since' = [since EXCEPT ![n] = seen[p]]
    BY <1>1 DEF CreateItem
  <2>2. UNCHANGED <<leased, pc, item, handed, done>>
    BY <1>1 DEF CreateItem, history
  <2>3. IdsGrow'
    BY <1>0, <2>1, <2>2 DEF IdsGrow
  <2>4. \A i \in handed : i # n /\ i \in 1..last /\ since'[i] = since[i] /\ since[i] < n
    <3>1. \A i \in handed : i \in 1..last /\ i \in Item /\ i # n
      BY <1>0 DEF IdsGrow
    <3>2. \A i \in handed : since'[i] = since[i] /\ since[i] \in Int
      BY <1>0, <2>1, <3>1 DEF TypeOK
    <3>3. \A i \in 1..last : since[i] < i
      BY DEF TimesGrow
    <3> QED
      BY <1>0, <3>1, <3>2, <3>3
  <2>5. SelectedOldest'
    <3> SUFFICES ASSUME NEW w \in Worker, NEW j \in queue \cup {n}, pc[w] = "update",
                        j <= since'[item[w]]
                 PROVE  j \in handed
      BY <2>1, <2>2 DEF SelectedOldest
    <3>1. item[w] \in Item /\ item[w] \in 1..last /\ item[w] # n
      BY <1>0, HasItem DEF IdsGrow, Item
    <3>2. since'[item[w]] = since[item[w]] /\ since[item[w]] < item[w]
      BY <2>1, <3>1 DEF TypeOK, TimesGrow
    <3>3. since[item[w]] < n
      BY <1>0, <3>1, <3>2
    <3>4. j # n
      BY <1>0, <3>1, <3>2, <3>3
    <3> QED
      BY <3>2, <3>4 DEF SelectedOldest
  <2>6. FirstHandedInOrder'
    <3> SUFFICES ASSUME NEW i \in handed, NEW j \in queue \cup {n}, j <= since'[i]
                 PROVE  j \in handed
      BY <2>1, <2>2 DEF FirstHandedInOrder
    <3>1. since'[i] = since[i] /\ since[i] < n /\ since[i] \in Int
      BY <1>0, <2>4
    <3>2. j # n
      BY <1>0, <3>1
    <3> QED
      BY <3>1, <3>2 DEF FirstHandedInOrder
  <2> QED
    BY <2>3, <2>5, <2>6
<1>2. ASSUME NEW w \in Worker, Select(w)
      PROVE  IdsGrow' /\ SelectedOldest' /\ FirstHandedInOrder'
  <2>1. PICK i \in queue \ leased :
          item' = [item EXCEPT ![w] = i] /\ \A j \in queue \ leased : j # i => Before(i, j)
    BY <1>2 DEF Select
  <2>2. /\ UNCHANGED <<queue, last, since, leased, handed, done>>
        /\ pc' = [pc EXCEPT ![w] = "update"]
    BY <1>2 DEF Select, Goto, table, clock, history
  <2>3. IdsGrow'
    BY <1>0, <2>1, <2>2 DEF IdsGrow, TypeOK
  <2>4. \A j \in queue : j <= since[i] => j \in handed
    <3> SUFFICES ASSUME NEW j \in queue, j <= since[i], j \notin handed PROVE FALSE
      OBVIOUS
    <3>1. i \in 1..last /\ i \in Item /\ j \in 1..last /\ j \in Item /\ j \notin leased
      BY <1>0 DEF IdsGrow
    <3>2. since[i] < i /\ created[j] <= created[i]
      BY <1>0, <3>1 DEF TimesGrow
    <3>3. j < i
      BY <1>0, <3>1, <3>2
    <3>4. Before(i, j)
      BY <1>0, <2>1, <3>1, <3>3
    <3> QED
      BY <1>0, <3>1, <3>2, <3>3, <3>4 DEF Before
  <2>5. SelectedOldest'
    BY <2>1, <2>2, <2>4 DEF SelectedOldest, TypeOK
  <2>6. FirstHandedInOrder'
    BY <2>2 DEF FirstHandedInOrder
  <2> QED
    BY <2>3, <2>5, <2>6
<1>3. ASSUME NEW w \in Worker, Claim(w)
      PROVE  IdsGrow' /\ SelectedOldest' /\ FirstHandedInOrder'
  <2>1. /\ pc[w] = "update" /\ item[w] \in queue
        /\ leased' = leased \cup {item[w]} /\ handed' = handed \cup {item[w]}
        /\ pc' = [pc EXCEPT ![w] = "work"] /\ UNCHANGED <<queue, last, since, item, done>>
    BY <1>3 DEF Claim, Take, Goto, clock
  <2>2. IdsGrow'
    BY <2>1 DEF IdsGrow, TypeOK
  <2>3. SelectedOldest'
    BY <2>1 DEF SelectedOldest, TypeOK
  <2>4. FirstHandedInOrder'
    BY <2>1 DEF FirstHandedInOrder, SelectedOldest
  <2> QED
    BY <2>2, <2>3, <2>4
<1>4. ASSUME NEW w \in Worker,
             pc' = [pc EXCEPT ![w] = "idle"], item' = [item EXCEPT ![w] = 0],
             queue' \subseteq queue, leased' \subseteq leased,
             UNCHANGED <<last, since, handed, done>>
      PROVE  IdsGrow' /\ SelectedOldest' /\ FirstHandedInOrder'
  <2>1. IdsGrow'
    BY <1>0, <1>4 DEF IdsGrow, TypeOK
  <2>2. SelectedOldest'
    BY <1>4 DEF SelectedOldest, TypeOK
  <2>3. FirstHandedInOrder'
    BY <1>4 DEF FirstHandedInOrder
  <2> QED
    BY <2>1, <2>2, <2>3
<1>5. ASSUME NEW w \in Worker, ClaimLost(w) \/ Delete(w) \/ Release(w) \/ Fail(w)
      PROVE  IdsGrow' /\ SelectedOldest' /\ FirstHandedInOrder'
  BY <1>4, <1>5 DEF ClaimLost, Delete, Release, Fail, Idle, Goto, table, clock, history
<1>6. ASSUME NEW w \in Worker, Execute(w)
      PROVE  IdsGrow' /\ SelectedOldest' /\ FirstHandedInOrder'
  <2>1. /\ done' = done \cup {item[w]} /\ pc[w] = "work" /\ pc' = [pc EXCEPT ![w] = "delete"]
        /\ UNCHANGED <<queue, last, since, leased, item, handed>>
    BY <1>6 DEF Execute, Goto, table, clock
  <2>2. IdsGrow'
    BY <2>1 DEF IdsGrow, TypeOK
  <2>3. SelectedOldest' /\ FirstHandedInOrder'
    BY <2>1 DEF SelectedOldest, FirstHandedInOrder, TypeOK
  <2> QED
    BY <2>2, <2>3
<1>7. ASSUME queue' \subseteq queue, leased' \subseteq leased,
             UNCHANGED <<last, since, pc, item, handed, done>>
      PROVE  IdsGrow' /\ SelectedOldest' /\ FirstHandedInOrder'
  <2>1. IdsGrow'
    BY <1>7 DEF IdsGrow
  <2>2. SelectedOldest' /\ FirstHandedInOrder'
    BY <1>7 DEF SelectedOldest, FirstHandedInOrder
  <2> QED
    BY <2>1, <2>2
<1>8. ASSUME NEW lag \in 0..MaxLag, Reset(lag)
      PROVE  IdsGrow' /\ SelectedOldest' /\ FirstHandedInOrder'
  BY <1>7, <1>8 DEF Reset, Free, clock
<1>9. CASE DeleteQueue
  BY <1>7, <1>9 DEF DeleteQueue, clock, history
<1>10. CASE (\E p \in Producer : ReadTime(p)) \/ Tick \/ UNCHANGED vars
  BY <1>7, <1>10 DEF ReadTime, Stamped, Tick, table, clock, history, vars
<1> QED
  BY <1>1, <1>2, <1>3, <1>5, <1>6, <1>8, <1>9, <1>10 DEF Next, Consume

-----------------------------------------------------------------------------
(* What holds if nobody releases an item after the end of the lease.           *)
Leases == LeaseKnown /\ LeaseExclusion /\ SoleWorker /\ TwiceOnlyWhenLate

LEMMA LeaseStep ==
  ASSUME ~LateRelease, TypeOK, Order, Leases, [Next]_vars
  PROVE  Leases'
<1> USE SystemQueueAssumption DEF Order, Leases
<1>0. /\ last \in Nat /\ LeaseTime \in Nat
      /\ \A w \in Worker : mine[w] \in Left /\ item[w] \in Int
      /\ \A i \in Item : left[i] \in Left
      /\ Left \subseteq Int
  BY DEF TypeOK, Left, Forgotten
(* Steps that touch no worker in a callback, no lease and no item. *)
<1>1. ASSUME \A w \in Worker : /\ mine'[w] = mine[w]
                             /\ \/ pc'[w] \notin {"work", "delete"} /\ pc[w] \notin {"work", "delete"}
                                \/ pc'[w] = pc[w] /\ item'[w] = item[w],
             queue \cap 1..last = queue' \cap 1..last,
             UNCHANGED <<leased, left, done, twice, late>>
      PROVE  Leases'
  <2>1. \A w \in Worker : item[w] \in handed /\ pc[w] \in {"work", "delete"} =>
          (item[w] \in queue <=> item[w] \in queue')
    BY <1>1 DEF IdsGrow
  <2>2. LeaseKnown'
    BY <1>1, <2>1 DEF LeaseKnown, HasLease, IdsGrow
  <2>3. LeaseExclusion'
    BY <1>1 DEF LeaseExclusion, HasLease
  <2>4. ASSUME NEW i \in Item \ late
        PROVE  /\ \A v, w \in Worker : Busy(v, i)' /\ Busy(w, i)' => v = w
               /\ \A w \in Worker : Busy(w, i)' /\ i \in queue' => i \in leased
               /\ i \in done \cap queue' => \E w \in Worker : Busy(w, i)' /\ pc'[w] = "delete"
               /\ \A w \in Worker : Busy(w, i)' /\ pc'[w] = "work" => i \notin done
    <3>1. \A w \in Worker : Busy(w, i)' <=> Busy(w, i)
      BY <1>1 DEF Busy
    <3>2. \A w \in Worker : Busy(w, i) => (i \in queue <=> i \in queue')
      BY <2>1 DEF Busy, IdsGrow
    <3>3. i \in done => (i \in queue <=> i \in queue')
      BY <1>1 DEF IdsGrow
    <3> QED
      BY <1>1, <3>1, <3>2, <3>3 DEF SoleWorker, Busy
  <2>5. SoleWorker' /\ TwiceOnlyWhenLate'
    BY <1>1, <2>4 DEF SoleWorker, TwiceOnlyWhenLate
  <2> QED
    BY <2>2, <2>3, <2>5
<1>2. ASSUME NEW p \in Producer, CreateItem(p) \/ ReadTime(p) PROVE Leases'
  <2>1. queue \cap 1..last = queue' \cap 1..last
    BY <1>0, <1>2 DEF CreateItem, ReadTime, Stamped, IdsGrow, table
  <2>2. UNCHANGED <<pc, item, mine, leased, left, done, twice, late>>
    BY <1>2 DEF CreateItem, ReadTime, Stamped, table, history
  <2> QED
    BY <1>1, <2>1, <2>2
<1>3. ASSUME NEW w \in Worker, Select(w) \/ ClaimLost(w) PROVE Leases'
  <2>1. /\ UNCHANGED <<queue, last, mine, leased, left, done, twice, late>>
        /\ pc[w] \in {"idle", "update"} /\ pc'[w] \in {"idle", "update"}
        /\ \A v \in Worker \ {w} : pc'[v] = pc[v] /\ item'[v] = item[v]
    BY <1>3 DEF Select, ClaimLost, Idle, Goto, TypeOK, table, history
  <2> QED
    BY <1>1, <2>1
<1>4. ASSUME NEW w \in Worker, Claim(w) PROVE Leases'
  <2> DEFINE k == item[w]
  <2>1. /\ pc[w] = "update" /\ k \in queue \ leased /\ k \in Item
        /\ leased' = leased \cup {k} /\ left' = [left EXCEPT ![k] = LeaseTime]
        /\ mine' = [mine EXCEPT ![w] = LeaseTime] /\ pc' = [pc EXCEPT ![w] = "work"]
        /\ UNCHANGED <<queue, item, done, twice, late>>
    BY <1>4 DEF Claim, Take, Goto, TypeOK
  <2>2. \A v \in Worker : HasLease(v) => item[v] # k
    BY <2>1 DEF LeaseKnown
  <2>3. LeaseKnown'
    <3>1. ASSUME NEW v \in Worker \ {w}, HasLease(v)', item[v] \in queue
          PROVE  item[v] \in leased' /\ left'[item[v]] = mine'[v]
      BY <2>1, <2>2, <3>1 DEF LeaseKnown, HasLease, TypeOK
    <3>2. left'[k] = mine'[w] /\ k \in leased'
      BY <2>1 DEF TypeOK
    <3> QED
      BY <2>1, <3>1, <3>2 DEF LeaseKnown, HasLease
  <2>4. LeaseExclusion'
    BY <2>1, <2>2 DEF LeaseExclusion, HasLease, TypeOK
  <2>5. ASSUME k \notin late
        PROVE  k \notin done /\ \A v \in Worker : ~Busy(v, k)
    BY <2>1, <2>5 DEF SoleWorker
  <2>6. ASSUME NEW i \in Item \ late
        PROVE  /\ \A u, v \in Worker : Busy(u, i)' /\ Busy(v, i)' => u = v
               /\ \A v \in Worker : Busy(v, i)' /\ i \in queue' => i \in leased'
               /\ i \in done \cap queue => \E v \in Worker : Busy(v, i)' /\ pc'[v] = "delete"
               /\ \A v \in Worker : Busy(v, i)' /\ pc'[v] = "work" => i \notin done
    <3>1. \A v \in Worker \ {w} : Busy(v, i)' <=> Busy(v, i)
      BY <2>1 DEF Busy, TypeOK
    <3>2. Busy(w, i)' <=> i = k
      BY <2>1 DEF Busy, TypeOK
    <3>3. CASE i = k
      BY <2>1, <2>5, <3>1, <3>2, <3>3
    <3>4. CASE i # k
      <4>1. \A v \in Worker : Busy(v, i)' => v # w /\ pc'[v] = pc[v] /\ Busy(v, i)
        BY <2>1, <3>1, <3>2, <3>4 DEF TypeOK
      <4>2. \A v \in Worker : Busy(v, i) => v # w /\ pc'[v] = pc[v] /\ Busy(v, i)'
        BY <2>1, <3>1 DEF Busy, TypeOK
      <4> QED
        BY <2>1, <4>1, <4>2 DEF SoleWorker
    <3> QED
      BY <3>3, <3>4
  <2>7. SoleWorker' /\ TwiceOnlyWhenLate'
    BY <2>1, <2>6 DEF SoleWorker, TwiceOnlyWhenLate
  <2> QED
    BY <2>3, <2>4, <2>7
<1>5. ASSUME NEW w \in Worker, Execute(w) PROVE Leases'
  <2> DEFINE k == item[w]
  <2>1. /\ pc[w] = "work" /\ pc' = [pc EXCEPT ![w] = "delete"] /\ k \in Item
        /\ done' = done \cup {k}
        /\ twice' = (IF k \in done THEN twice \cup {k} ELSE twice)
        /\ UNCHANGED <<queue, leased, left, item, mine, late>>
    BY <1>5, HasItem DEF Execute, Goto, table
  <2>2. LeaseKnown' /\ LeaseExclusion'
    BY <2>1 DEF LeaseKnown, LeaseExclusion, HasLease, TypeOK
  <2>3. \A v \in Worker, i \in Item : Busy(v, i)' <=> Busy(v, i)
    BY <2>1 DEF Busy, TypeOK
  <2>4. Busy(w, k)' /\ pc'[w] = "delete"
    BY <2>1 DEF Busy, TypeOK
  <2>5. \A v \in Worker : pc'[v] = "work" => v # w /\ pc[v] = "work"
    BY <2>1 DEF TypeOK
  <2>6. \A v \in Worker : pc[v] = "delete" => pc'[v] = "delete"
    BY <2>1 DEF TypeOK
  <2>7. SoleWorker'
    <3> SUFFICES ASSUME NEW i \in Item \ late
        PROVE  /\ \A u, v \in Worker : Busy(u, i)' /\ Busy(v, i)' => u = v
               /\ \A v \in Worker : Busy(v, i)' /\ i \in queue' => i \in leased'
               /\ i \in done' \cap queue' => \E v \in Worker : Busy(v, i)' /\ pc'[v] = "delete"
               /\ \A v \in Worker : Busy(v, i)' /\ pc'[v] = "work" => i \notin done'
      BY <2>1 DEF SoleWorker
    <3>1. i \in done' \cap queue' => \E v \in Worker : Busy(v, i)' /\ pc'[v] = "delete"
      BY <2>1, <2>3, <2>4, <2>6 DEF SoleWorker
    <3>2. \A v \in Worker : Busy(v, i)' /\ pc'[v] = "work" => i \notin done'
      BY <2>1, <2>3, <2>4, <2>5 DEF SoleWorker
    <3> QED
      BY <2>1, <2>3, <3>1, <3>2 DEF SoleWorker
  <2>8. TwiceOnlyWhenLate'
    <3>1. k \in done => k \in late
      BY <2>1 DEF SoleWorker, Busy
    <3> QED
      BY <2>1, <3>1 DEF TwiceOnlyWhenLate
  <2> QED
    BY <2>2, <2>7, <2>8
(* Steps after which w has no item any more. *)
<1>6. ASSUME NEW w \in Worker, pc[w] \in {"work", "delete"},
             pc' = [pc EXCEPT ![w] = "idle"], item' = [item EXCEPT ![w] = 0],
             queue' \in {queue, queue \ {item[w]}},
             leased' \in {leased, leased \ {item[w]}}, late \subseteq late',
             leased' # leased => item[w] \notin queue' \/ (pc[w] = "work" /\ mine[w] >= 0),
             pc[w] = "delete" => item[w] \in late' \/ item[w] \notin queue',
             UNCHANGED <<left, mine, done, twice>>
      PROVE  Leases'
  <2> DEFINE k == item[w]
  <2>1. k \in Item /\ k # 0
    BY <1>6, HasItem DEF Item
  <2>2. \A v \in Worker \ {w} : pc'[v] = pc[v] /\ item'[v] = item[v]
    BY <1>6 DEF TypeOK
  <2>3. pc'[w] = "idle"
    BY <1>6 DEF TypeOK
  <2>4. \A v \in Worker, i \in Item : Busy(v, i)' => v # w /\ Busy(v, i) /\ pc'[v] = pc[v]
    BY <2>2, <2>3 DEF Busy
  <2>5. \A v \in Worker, i \in Item : v # w /\ Busy(v, i) => Busy(v, i)' /\ pc'[v] = pc[v]
    BY <2>2 DEF Busy
  <2>6. LeaseExclusion'
    BY <1>6, <2>2, <2>3 DEF LeaseExclusion, HasLease
  <2>7. LeaseKnown'
    <3> SUFFICES ASSUME NEW v \in Worker, HasLease(v)', item'[v] \in queue'
                 PROVE  item'[v] \in leased' /\ left[item'[v]] = mine[v]
      BY <1>6 DEF LeaseKnown
    <3>1. v # w /\ HasLease(v) /\ item'[v] = item[v] /\ item[v] \in queue
      BY <1>6, <2>2, <2>3 DEF HasLease
    <3>2. item[v] \in leased /\ left[item[v]] = mine[v]
      BY <3>1 DEF LeaseKnown
    <3>3. CASE item[v] # k \/ leased' = leased
      BY <1>6, <3>1, <3>2, <3>3
    <3>4. CASE item[v] = k /\ leased' # leased
      <4>1. HasLease(w)
        BY <1>6, <3>1, <3>4 DEF HasLease
      <4> QED
        BY <3>1, <3>4, <4>1 DEF LeaseExclusion
    <3> QED
      BY <3>3, <3>4
  <2>8. SoleWorker'
    <3> SUFFICES ASSUME NEW i \in Item \ late'
        PROVE  /\ \A u, v \in Worker : Busy(u, i)' /\ Busy(v, i)' => u = v
               /\ \A v \in Worker : Busy(v, i)' /\ i \in queue' => i \in leased'
               /\ i \in done \cap queue' => \E v \in Worker : Busy(v, i)' /\ pc'[v] = "delete"
               /\ \A v \in Worker : Busy(v, i)' /\ pc'[v] = "work" => i \notin done
      BY <1>6 DEF SoleWorker
    <3>1. i \in Item \ late
      BY <1>6
    <3>2. \A u, v \in Worker : Busy(u, i)' /\ Busy(v, i)' => u = v
      BY <2>4, <3>1 DEF SoleWorker
    <3>3. ASSUME NEW v \in Worker, Busy(v, i)', i \in queue' PROVE i \in leased'
      <4>1. v # w /\ Busy(v, i) /\ i \in leased
        BY <1>6, <2>4, <3>1, <3>3 DEF SoleWorker
      <4>2. CASE i # k \/ leased' = leased
        BY <1>6, <4>1, <4>2
      <4>3. CASE i = k /\ leased' # leased
        <5>1. Busy(w, i)
          BY <1>6, <3>3, <4>3 DEF Busy
        <5> QED
          BY <3>1, <4>1, <5>1 DEF SoleWorker
      <4> QED
        BY <4>2, <4>3
    <3>4. ASSUME i \in done \cap queue' PROVE \E v \in Worker : Busy(v, i)' /\ pc'[v] = "delete"
      <4>1. PICK v \in Worker : Busy(v, i) /\ pc[v] = "delete"
        BY <1>6, <3>1, <3>4 DEF SoleWorker
      <4>2. v # w
        BY <1>6, <3>4, <4>1 DEF Busy
      <4> QED
        BY <2>5, <3>1, <4>1, <4>2
    <3>5. \A v \in Worker : Busy(v, i)' /\ pc'[v] = "work" => i \notin done
      BY <2>4, <3>1 DEF SoleWorker
    <3> QED
      BY <3>2, <3>3, <3>4, <3>5
  <2>9. TwiceOnlyWhenLate'
    BY <1>6 DEF TwiceOnlyWhenLate
  <2> QED
    BY <2>6, <2>7, <2>8, <2>9
<1>7. ASSUME NEW w \in Worker, Delete(w) \/ Release(w) \/ Fail(w) PROVE Leases'
  <2>1. CASE Delete(w)
    BY <1>6, <2>1 DEF Delete, Idle, Goto, history
  <2>2. CASE Release(w)
    BY <1>6, <2>2 DEF Release, Idle, Goto
  <2>3. CASE Fail(w)
    BY <1>6, <2>3 DEF Fail, Idle, Goto, table
  <2> QED
    BY <1>7, <2>1, <2>2, <2>3
<1>8. ASSUME NEW lag \in 0..MaxLag, Reset(lag) PROVE Leases'
  <2> DEFINE expired == {i \in leased : left[i] < -lag}
  <2>1. /\ leased' = leased \ expired
        /\ late' = late \cup {i \in expired : \E w \in Worker :
                     pc[w] \in {"work", "delete"} /\ item[w] = i /\ mine[w] < 0}
        /\ UNCHANGED <<queue, left, pc, item, mine, done, twice>>
    BY <1>8 DEF Reset, Free
  <2>2. \A i \in expired : i \in Item /\ left[i] < 0
    <3>1. \A x \in Left : x < -lag => x < 0
      BY <1>0
    <3>2. \A i \in expired : i \in Item /\ left[i] \in Left
      BY DEF TypeOK
    <3> QED
      BY <3>1, <3>2
  <2> HIDE DEF expired
  <2>3. LeaseKnown'
    <3> SUFFICES ASSUME NEW w \in Worker, HasLease(w), item[w] \in queue
                 PROVE  item[w] \in leased' /\ left[item[w]] = mine[w]
      BY <2>1 DEF LeaseKnown, HasLease
    <3>1. item[w] \in leased /\ left[item[w]] = mine[w] /\ mine[w] >= 0 /\ mine[w] \in Int
      BY <1>0 DEF LeaseKnown, HasLease
    <3>2. item[w] \notin expired
      BY <2>2, <3>1
    <3> QED
      BY <2>1, <3>1, <3>2
  <2>4. LeaseExclusion'
    BY <2>1 DEF LeaseExclusion, HasLease
  <2>5. ASSUME NEW w \in Worker, NEW i \in Item \ late', Busy(w, i), i \in queue
        PROVE  i \in leased'
    <3>1. i \in leased
      BY <2>1, <2>5 DEF SoleWorker
    <3>2. i \in expired => ~(mine[w] < 0)
      BY <2>1, <2>5 DEF Busy
    <3>3. mine[w] \in Int
      BY <1>0
    <3>4. ASSUME i \in expired PROVE FALSE
      <4>1. HasLease(w) /\ item[w] = i
        BY <2>5, <3>2, <3>3, <3>4 DEF HasLease, Busy
      <4>2. left[i] = mine[w]
        BY <2>5, <4>1 DEF LeaseKnown
      <4> QED
        BY <2>2, <3>2, <3>4, <4>2
    <3> QED
      BY <2>1, <3>1, <3>4
  <2>6. SoleWorker'
    <3>1. \A w \in Worker, i \in Item : Busy(w, i)' <=> Busy(w, i)
      BY <2>1 DEF Busy
    <3>2. Item \ late' \subseteq Item \ late
      BY <2>1
    <3> QED
      BY <2>1, <2>5, <3>1, <3>2 DEF SoleWorker
  <2>7. TwiceOnlyWhenLate'
    BY <2>1 DEF TwiceOnlyWhenLate
  <2> QED
    BY <2>3, <2>4, <2>6, <2>7
<1>9. CASE DeleteQueue
  <2>1. queue' = {} /\ leased' = {} /\ UNCHANGED <<left, pc, item, mine, done, twice, late>>
    BY <1>9 DEF DeleteQueue, history
  <2>2. LeaseKnown' /\ LeaseExclusion' /\ TwiceOnlyWhenLate'
    BY <2>1 DEF LeaseKnown, LeaseExclusion, HasLease, TwiceOnlyWhenLate
  <2>3. SoleWorker'
    BY <2>1 DEF SoleWorker, Busy
  <2> QED
    BY <2>2, <2>3
<1>10. CASE Tick
  <2>1. /\ left' = [i \in Item |-> Later(left[i])] /\ mine' = [w \in Worker |-> Later(mine[w])]
        /\ UNCHANGED <<queue, leased, pc, item, done, twice, late>>
    BY <1>10 DEF Tick, history
  <2>2. \A w \in Worker : HasLease(w)' => HasLease(w)
    BY <1>0, <2>1, LaterType DEF HasLease
  <2>3. LeaseKnown'
    <3> SUFFICES ASSUME NEW w \in Worker, HasLease(w)', item[w] \in queue
                 PROVE  item[w] \in leased /\ left'[item[w]] = mine'[w]
      BY <2>1 DEF LeaseKnown
    <3>1. item[w] \in leased /\ left[item[w]] = mine[w] /\ item[w] \in Item
      BY <2>2, HasItem DEF LeaseKnown, HasLease
    <3> QED
      BY <2>1, <3>1
  <2>4. LeaseExclusion'
    BY <2>1, <2>2 DEF LeaseExclusion
  <2>5. SoleWorker' /\ TwiceOnlyWhenLate'
    BY <2>1 DEF SoleWorker, TwiceOnlyWhenLate, Busy
  <2> QED
    BY <2>3, <2>4, <2>5
<1>11. CASE UNCHANGED vars
  BY <1>1, <1>11 DEF vars, table, history
<1> QED
  BY <1>2, <1>3, <1>4, <1>5, <1>7, <1>8, <1>9, <1>10, <1>11 DEF Next, Consume

(* IInv is inductive.                                                          *)
THEOREM InductiveInvariant == Spec => []IInv
<1>1. IInv /\ [Next]_vars => IInv'
  <2> SUFFICES ASSUME IInv, [Next]_vars PROVE IInv'
    OBVIOUS
  <2>1. TypeOK' /\ Order'
    BY TypeStep, OrderStep DEF IInv, Order
  <2>2. ~LateRelease => Leases'
    BY LeaseStep DEF IInv, Order, Leases
  <2> QED
    BY <2>1, <2>2 DEF IInv, Order, Leases
<1> QED
  BY InitIInv, <1>1, PTL DEF Spec

(* The state has its types: a leased row is in the table, and a consumer has   *)
(* an item exactly while it works on one.                                      *)
THEOREM TypeCorrect == Spec => []TypeOK
<1>1. IInv => TypeOK
  BY DEF IInv
<1> QED
  BY InductiveInvariant, <1>1, PTL

(* No two consumers hold running leases for one item, if none of them releases *)
(* an item whose lease is over.                                                *)
THEOREM LeasesExclude == ASSUME ~LateRelease PROVE Spec => []LeaseExclusion
<1>1. IInv => LeaseExclusion
  BY DEF IInv
<1> QED
  BY InductiveInvariant, <1>1, PTL

(* An item is executed twice only after its worker outlived the lease or died  *)
(* before the DELETE.                                                          *)
THEOREM NoNeedlessRepeat == ASSUME ~LateRelease PROVE Spec => []TwiceOnlyWhenLate
<1>1. IInv => TwiceOnlyWhenLate
  BY DEF IInv
<1> QED
  BY InductiveInvariant, <1>1, PTL

(* An item is first handed out after those that were in the table when its     *)
(* creation began, whatever fails.                                             *)
THEOREM InOrder == Spec => []FirstHandedInOrder
<1>1. IInv => FirstHandedInOrder
  BY DEF IInv
<1> QED
  BY InductiveInvariant, <1>1, PTL

(* An item leaves the queue only after it has been executed to the end: the    *)
(* table implements the steps of ReliableQueue.                                *)
THEOREM ImplementsReliableQueue == Spec => ReliableSafety
<1>1. Init => Reliable!Init
  BY DEF Init, Reliable!Init
<1>2. IInv /\ [Next]_vars => [Reliable!Next]_(Reliable!vars)
  <2> SUFFICES ASSUME IInv, [Next]_vars PROVE [Reliable!Next]_(Reliable!vars)
    OBVIOUS
  <2> USE DEF IInv, Reliable!vars
  <2>1. ASSUME NEW p \in Producer, CreateItem(p) PROVE Reliable!Next
    <3>1. last + 1 \in Item /\ last + 1 \notin queue \cup done
      BY <2>1, SystemQueueAssumption DEF CreateItem, TypeOK, Item, IdsGrow
    <3>2. Reliable!Put(last + 1)
      BY <2>1, <3>1 DEF CreateItem, history, Reliable!Put
    <3> QED
      BY <3>1, <3>2 DEF Reliable!Next
  <2>2. ASSUME NEW w \in Worker, Execute(w) PROVE Reliable!Next
    <3>1. item[w] \in Item
      BY <2>2, HasItem DEF Execute
    <3>2. Reliable!Execute(item[w])
      BY <2>2 DEF Execute, table, Reliable!Execute
    <3> QED
      BY <3>1, <3>2 DEF Reliable!Next
  <2>3. ASSUME NEW w \in Worker, Delete(w) PROVE Reliable!Next
    <3>1. item[w] \in Item
      BY <2>3, HasItem DEF Delete
    <3>2. Reliable!Remove(item[w])
      BY <2>3 DEF Delete, history, IdsGrow, Reliable!Remove
    <3> QED
      BY <3>1, <3>2 DEF Reliable!Next
  <2>4. CASE DeleteQueue
    BY <2>4 DEF DeleteQueue, history, Reliable!Purge, Reliable!Next
  <2>5. ASSUME NEW w \in Worker,
               Select(w) \/ Claim(w) \/ ClaimLost(w) \/ Release(w) \/ Fail(w)
        PROVE  UNCHANGED <<queue, done>>
    BY <2>5 DEF Select, Claim, Take, ClaimLost, Release, Fail, table, history
  <2>6. ASSUME NEW lag \in 0..MaxLag, Reset(lag) PROVE UNCHANGED <<queue, done>>
    BY <2>6 DEF Reset, Free
  <2>7. CASE (\E p \in Producer : ReadTime(p)) \/ Tick \/ UNCHANGED vars
    BY <2>7 DEF ReadTime, Stamped, Tick, vars, table, history
  <2> QED
    BY <2>1, <2>2, <2>3, <2>4, <2>5, <2>6, <2>7 DEF Next, Consume
<1> QED
  BY <1>1, <1>2, InductiveInvariant, PTL DEF Spec, ReliableSafety
==============================================================================
