--------------------------- MODULE SemaphoreProofs ---------------------------
(* Theorems about docroot/includes/lock.inc for any number of requests, locks, *)
(* timeouts and polls.                                                         *)
EXTENDS Semaphore, TLAPS

LEMMA InitIInv == Init => IInv
<1> SUFFICES ASSUME Init PROVE IInv
  OBVIOUS
<1>1. TypeOK
  BY SemaphoreAssumption DEF Init, TypeOK, PC
<1>2. LocalsInScope
  BY DEF Init, LocalsInScope
<1>3. LeaseRecorded
  BY DEF Init, LeaseRecorded, Relies
<1>4. BreaksExpired
  BY DEF Init, BreaksExpired
<1>5. LeaseAsked
  BY DEF Init, LeaseAsked
<1> QED
  BY <1>1, <1>2, <1>3, <1>4, <1>5 DEF IInv

(* A request inside a lock function has local variables of the right types. *)
LEMMA InCall ==
  ASSUME TypeOK, LocalsInScope, NEW r \in Request, pc[r] \notin {"idle", "gone"}
  PROVE  /\ call[r] \in Call
         /\ call[r].name \in Name /\ call[r].expire \in Nat
         /\ call[r].polls \in 0..MaxPolls
         /\ Wanted(r) \in Row \cup {None}
         /\ pc[r] \in {"test", "break"} => call[r].seen \in Row
<1>1. call[r] \in Call
  BY DEF TypeOK, LocalsInScope
<1> QED
  BY <1>1 DEF TypeOK, LocalsInScope, Call, Wanted

(* Every action keeps the types of the state and the scope of the locals. *)
LEMMA TypeStep == TypeOK /\ LocalsInScope /\ [Next]_vars => TypeOK' /\ LocalsInScope'
<1> SUFFICES ASSUME TypeOK, LocalsInScope, [Next]_vars PROVE TypeOK' /\ LocalsInScope'
  OBVIOUS
<1> USE SemaphoreAssumption
<1>1. ASSUME NEW r \in Request, NEW n \in Name, NEW t \in Timeout, Acquire(r, n, t)
      PROVE  TypeOK' /\ LocalsInScope'
  <2> DEFINE locals == [op |-> "acquire", name |-> n, expire |-> now + t, retry |-> FALSE,
                        polls |-> 0, seen |-> None]
  <2>1. locals \in Call
    <3>1. now + t \in Nat /\ 0 \in 0..MaxPolls
      BY DEF TypeOK
    <3> QED
      BY <3>1 DEF Call
  <2>2. locals # None
    BY <2>1
  <2>3. /\ \E label \in {"update", "insert"} : pc' = [pc EXCEPT ![r] = label]
        /\ call' = [call EXCEPT ![r] = locals] /\ UNCHANGED <<now, semaphore, locks>>
    BY <1>1 DEF Acquire, Enters, Goto
  <2> HIDE DEF locals
  <2>4. TypeOK'
    BY <2>1, <2>3 DEF TypeOK, PC
  <2>5. LocalsInScope'
    BY <2>2, <2>3 DEF TypeOK, LocalsInScope
  <2> QED
    BY <2>4, <2>5
<1>2. ASSUME NEW r \in Request, Renew(r) \/ Insert(r)
      PROVE  TypeOK' /\ LocalsInScope'
  <2>1. call[r].name \in Name /\ call[r].expire \in Nat
    BY <1>2, InCall DEF Renew, Insert
  <2>2. [value |-> r, expire |-> call[r].expire] \in Row
    BY <2>1 DEF Row
  <2>3. WriteRow(r) /\ Return(r) /\ now' = now /\ pc[r] \in {"update", "insert"}
    BY <1>2 DEF Renew, Insert
  <2>4. semaphore' \in [Name -> Row \cup {None}] /\ locks' \in [Request -> [Name -> Nat]]
    BY <2>1, <2>2, <2>3 DEF WriteRow, TypeOK
  <2> QED
    BY <2>3, <2>4 DEF Return, Goto, TypeOK, LocalsInScope, PC
<1>3. ASSUME NEW r \in Request, RenewFails(r)
      PROVE  TypeOK' /\ LocalsInScope'
  <2>1. locks' \in [Request -> [Name -> Nat]]
    BY <1>3 DEF RenewFails, TypeOK
  <2>2. pc' \in [Request -> PC] /\ UNCHANGED <<now, semaphore>>
    BY <1>3 DEF RenewFails, Return, Goto, TypeOK, PC
  <2>3. call' \in [Request -> Call \cup {None}]
    BY <1>3 DEF RenewFails, Return, Goto, TypeOK
  <2>4. LocalsInScope'
    BY <1>3 DEF RenewFails, Return, Goto, TypeOK, LocalsInScope
  <2> QED
    BY <2>1, <2>2, <2>3, <2>4 DEF TypeOK
<1>4. ASSUME NEW r \in Request, InsertFails(r)
      PROVE  TypeOK' /\ LocalsInScope'
  <2>1. TypeOK'
    BY <1>4 DEF InsertFails, Return, Goto, TypeOK, PC
  <2>2. LocalsInScope'
    BY <1>4 DEF InsertFails, Return, Goto, TypeOK, LocalsInScope
  <2> QED
    BY <2>1, <2>2
<1>5. ASSUME NEW r \in Request, pc[r] \in {"select", "break"}, Available(r),
             semaphore' \in [Name -> Row \cup {None}], UNCHANGED <<now, locks>>
      PROVE  TypeOK' /\ LocalsInScope'
  <2>1. call[r] \in Call
    BY <1>5, InCall
  <2>2. [call[r] EXCEPT !.retry = TRUE] \in Call
    BY <2>1 DEF Call
  <2>3. [call[r] EXCEPT !.retry = TRUE] # None
    BY <2>2
  <2>4. CASE call[r].op = "acquire"
    <3> DEFINE locals == [call[r] EXCEPT !.retry = TRUE]
    <3>1. pc' = [pc EXCEPT ![r] = "insert"] /\ call' = [call EXCEPT ![r] = locals]
      BY <1>5, <2>4 DEF Available, Goto
    <3> HIDE DEF locals
    <3> QED
      BY <1>5, <2>2, <2>3, <3>1 DEF TypeOK, LocalsInScope, PC, locals
  <2>5. CASE call[r].op # "acquire"
    BY <1>5, <2>5 DEF Available, Return, Goto, TypeOK, LocalsInScope, PC
  <2> QED
    BY <2>4, <2>5
<1>6. ASSUME NEW r \in Request, pc[r] \in {"test", "break"}, Unavailable(r),
             UNCHANGED <<now, semaphore, locks>>
      PROVE  TypeOK' /\ LocalsInScope'
  <2>1. call[r] \in Call
    BY <1>6, InCall
  <2>2. CASE Return(r)
    <3>1. TypeOK'
      BY <1>6, <2>2 DEF Return, Goto, TypeOK, PC
    <3>2. LocalsInScope'
      BY <1>6, <2>2 DEF Return, Goto, TypeOK, LocalsInScope
    <3> QED
      BY <3>1, <3>2
  <2>3. CASE ~Return(r)
    <3>1. pc' = [pc EXCEPT ![r] = "sleep"] /\ UNCHANGED call /\ call[r].polls > 0
      BY <1>6, <2>3 DEF Unavailable, Goto
    <3> QED
      BY <1>6, <3>1 DEF TypeOK, LocalsInScope, PC
  <2> QED
    BY <2>2, <2>3
<1>7. ASSUME NEW r \in Request, SelectRow(r)
      PROVE  TypeOK' /\ LocalsInScope'
  <2>1. call[r] \in Call /\ Wanted(r) \in Row
    BY <1>7, InCall DEF SelectRow
  <2>2. [call[r] EXCEPT !.seen = Wanted(r)] \in Call
    BY <2>1 DEF Call
  <2>3. [call[r] EXCEPT !.seen = Wanted(r)] # None
    BY <2>2
  <2>4. [call[r] EXCEPT !.seen = Wanted(r)].seen # None
    BY <2>1 DEF Call
  <2> QED
    BY <1>7, <2>2, <2>3, <2>4 DEF SelectRow, Goto, TypeOK, LocalsInScope, PC
<1>8. ASSUME NEW r \in Request, TestExpired(r)
      PROVE  TypeOK' /\ LocalsInScope'
  <2>1. CASE now > call[r].seen.expire
    BY <1>8, <2>1 DEF TestExpired, Goto, TypeOK, LocalsInScope, PC
  <2>2. CASE ~(now > call[r].seen.expire)
    BY <1>6, <1>8, <2>2 DEF TestExpired
  <2> QED
    BY <2>1, <2>2
<1>9. ASSUME NEW r \in Request, Break(r)
      PROVE  TypeOK' /\ LocalsInScope'
  <2>1. semaphore' \in [Name -> Row \cup {None}]
    BY <1>9 DEF Break, TypeOK
  <2> QED
    BY <1>5, <1>9, <2>1 DEF Break
<1>10. ASSUME NEW r \in Request, NEW n \in Name, NEW polls \in 1..MaxPolls, Wait(r, n, polls)
      PROVE  TypeOK' /\ LocalsInScope'
  <2> DEFINE locals == [op |-> "wait", name |-> n, expire |-> 0, retry |-> FALSE,
                        polls |-> polls, seen |-> None]
  <2>1. locals \in Call /\ locals.polls > 0
    BY DEF Call
  <2>2. locals # None
    BY <2>1
  <2> QED
    BY <1>10, <2>1, <2>2 DEF Wait, Enters, Goto, TypeOK, LocalsInScope, PC
<1>11. ASSUME NEW r \in Request, Sleep(r)
      PROVE  TypeOK' /\ LocalsInScope'
  <2>1. call[r] \in Call /\ call[r].polls \in 1..MaxPolls
    BY <1>11, InCall DEF Sleep, LocalsInScope
  <2>2. [call[r] EXCEPT !.polls = @ - 1] \in Call
    BY <2>1 DEF Call
  <2>3. [call[r] EXCEPT !.polls = @ - 1] # None
    BY <2>2
  <2> QED
    BY <1>11, <2>2, <2>3 DEF Sleep, Goto, TypeOK, LocalsInScope, PC
<1>12. ASSUME NEW r \in Request, NEW n \in Name, Release(r, n)
      PROVE  TypeOK' /\ LocalsInScope'
  BY <1>12 DEF Release, TypeOK, LocalsInScope
<1>13. ASSUME NEW r \in Request, ReleaseAll(r) \/ Vanish(r)
      PROVE  TypeOK' /\ LocalsInScope'
  <2>1. semaphore' \in [Name -> Row \cup {None}]
    BY <1>13 DEF ReleaseAll, Vanish, TypeOK
  <2>2. locks' \in [Request -> [Name -> Nat]]
    BY <1>13 DEF ReleaseAll, Vanish, TypeOK
  <2>3. /\ pc' \in [Request -> PC]
        /\ \E label \in {"idle", "gone"} : pc' = [pc EXCEPT ![r] = label]
        /\ call' = [call EXCEPT ![r] = None] /\ now' = now
    BY <1>13 DEF ReleaseAll, Vanish, Return, Goto, TypeOK, PC
  <2> QED
    BY <2>1, <2>2, <2>3 DEF TypeOK, LocalsInScope
<1>14. CASE Tick
  BY <1>14 DEF Tick, TypeOK, LocalsInScope
<1>15. CASE UNCHANGED vars
  BY <1>15 DEF vars, TypeOK, LocalsInScope
<1>16. ASSUME NEW r \in Request, SelectFree(r)
      PROVE  TypeOK' /\ LocalsInScope'
  BY <1>5, <1>16 DEF SelectFree, TypeOK
<1>17. ASSUME NEW r \in Request, BreakNothing(r)
      PROVE  TypeOK' /\ LocalsInScope'
  BY <1>6, <1>17 DEF BreakNothing
<1> QED
  BY <1>1, <1>2, <1>3, <1>4, <1>7, <1>8, <1>9, <1>10, <1>11, <1>12, <1>13, <1>14,
     <1>15, <1>16, <1>17 DEF Next, Enter, Continue

-----------------------------------------------------------------------------
(* A row that leaves the table or changes its owner was its owner's to give up *)
(* or had expired: nobody who relies on the lock loses the row.                *)
LEMMA LeaseStep == IInv /\ [Next]_vars => LeaseRecorded'
<1> SUFFICES ASSUME IInv, [Next]_vars,
                    NEW q \in Request, NEW m \in Name, Relies(q, m)'
             PROVE  (OwnRow(q, m) /\ semaphore[m].expire = locks[q][m])'
  BY DEF LeaseRecorded
<1> USE DEF IInv
<1>1. locks[q][m] \in Nat /\ now \in Nat
  BY DEF TypeOK
<1>2. ASSUME semaphore'[m] = semaphore[m], locks'[q][m] = locks[q][m], now <= now'
      PROVE  (OwnRow(q, m) /\ semaphore[m].expire = locks[q][m])'
  <2>1. now' \in Nat
    BY TypeStep DEF TypeOK
  <2>2. Relies(q, m)
    BY <1>1, <1>2, <2>1 DEF Relies
  <2> QED
    BY <1>2, <2>2 DEF LeaseRecorded, OwnRow
<1>3. ASSUME NEW r \in Request, Renew(r) \/ Insert(r)
      PROVE  (OwnRow(q, m) /\ semaphore[m].expire = locks[q][m])'
  <2> DEFINE n == call[r].name
             row == [value |-> r, expire |-> call[r].expire]
  <2>1. n \in Name /\ call[r].expire \in Nat
    BY <1>3, InCall DEF Renew, Insert
  <2>2. /\ semaphore' = [semaphore EXCEPT ![n] = row]
        /\ locks' = [locks EXCEPT ![r][n] = call[r].expire] /\ now' = now
    BY <1>3 DEF Renew, Insert, WriteRow
  <2>3. CASE m # n
    BY <1>1, <1>2, <2>1, <2>2, <2>3 DEF TypeOK
  <2>4. CASE m = n /\ q = r
    <3>1. semaphore'[m] = row /\ row # None /\ locks'[q][m] = row.expire
      BY <2>1, <2>2, <2>4, SemaphoreAssumption DEF TypeOK, Row
    <3> QED
      BY <2>4, <3>1 DEF OwnRow
  <2>5. CASE m = n /\ q # r
    <3>1. Relies(q, m)
      BY <2>1, <2>2, <2>5 DEF Relies, TypeOK
    <3>2. OwnRow(q, m)
      BY <3>1 DEF LeaseRecorded
    <3> QED
      BY <1>3, <2>5, <3>2 DEF Renew, Insert, UpdateChanges, Wanted, OwnRow
  <2> QED
    BY <2>3, <2>4, <2>5
<1>4. ASSUME NEW r \in Request, Break(r)
      PROVE  (OwnRow(q, m) /\ semaphore[m].expire = locks[q][m])'
  <2>1. /\ semaphore' = [semaphore EXCEPT ![call[r].name] = None]
        /\ UNCHANGED <<now, locks>>
    BY <1>4 DEF Break
  <2>2. Relies(q, m)
    BY <2>1 DEF Relies
  <2>3. m # call[r].name
    <3> SUFFICES ASSUME m = call[r].name PROVE FALSE
      OBVIOUS
    <3>1. /\ Wanted(r).expire <= call[r].seen.expire /\ Wanted(r) \in Row
          /\ call[r].seen \in Row
      BY <1>4, InCall DEF Break, StillExpired
    <3>2. call[r].seen.expire < now
      BY <1>4 DEF Break, BreaksExpired
    <3>3. Wanted(r).expire = locks[q][m] /\ now <= locks[q][m]
      BY <2>2 DEF LeaseRecorded, Wanted, Relies
    <3>4. Wanted(r).expire \in Nat /\ call[r].seen.expire \in Nat
      BY <3>1 DEF Row
    <3> QED
      BY <1>1, <3>1, <3>2, <3>3, <3>4
  <2> QED
    BY <1>1, <1>2, <2>1, <2>3 DEF TypeOK
<1>5. ASSUME NEW r \in Request, RenewFails(r)
      PROVE  (OwnRow(q, m) /\ semaphore[m].expire = locks[q][m])'
  <2>1. /\ UNCHANGED <<now, semaphore>> /\ call[r].name \in Name
        /\ locks' = [locks EXCEPT ![r][call[r].name] = 0]
    BY <1>5, InCall DEF RenewFails
  <2>2. locks'[q][m] = locks[q][m]
    BY <2>1 DEF Relies, TypeOK
  <2> QED
    BY <1>1, <1>2, <2>1, <2>2
<1>6. ASSUME NEW r \in Request, NEW n \in Name, Release(r, n)
      PROVE  (OwnRow(q, m) /\ semaphore[m].expire = locks[q][m])'
  <2>1. ~(q = r /\ m = n)
    BY <1>6 DEF Release, Relies, TypeOK
  <2>2. locks'[q][m] = locks[q][m] /\ now' = now
    BY <1>6, <2>1 DEF Release, TypeOK
  <2>3. OwnRow(q, m)
    BY <2>2 DEF LeaseRecorded, Relies
  <2>4. semaphore'[m] = semaphore[m]
    BY <1>6, <2>1, <2>3 DEF Release, OwnRow, TypeOK
  <2> QED
    BY <1>1, <1>2, <2>2, <2>4
<1>7. ASSUME NEW r \in Request, ReleaseAll(r) \/ Vanish(r)
      PROVE  (OwnRow(q, m) /\ semaphore[m].expire = locks[q][m])'
  <2>1. locks' = [locks EXCEPT ![r] = [n \in Name |-> 0]] /\ now' = now
    BY <1>7 DEF ReleaseAll, Vanish
  <2>2. q # r
    BY <2>1 DEF Relies, TypeOK
  <2>3. locks'[q][m] = locks[q][m]
    BY <2>1, <2>2 DEF TypeOK
  <2>4. OwnRow(q, m)
    BY <2>1, <2>3 DEF LeaseRecorded, Relies
  <2>5. semaphore'[m] = semaphore[m]
    BY <1>7, <2>2, <2>4 DEF ReleaseAll, Vanish, OwnRow, TypeOK
  <2> QED
    BY <1>1, <1>2, <2>1, <2>3, <2>5
<1>8. CASE Tick
  BY <1>1, <1>2, <1>8 DEF Tick
<1>9. CASE UNCHANGED vars
  BY <1>1, <1>2, <1>9 DEF vars
<1>10. ASSUME UNCHANGED <<now, semaphore, locks>>
      PROVE  (OwnRow(q, m) /\ semaphore[m].expire = locks[q][m])'
  BY <1>1, <1>2, <1>10
<1> QED
  BY <1>3, <1>4, <1>5, <1>6, <1>7, <1>8, <1>9, <1>10
     DEF Next, Enter, Continue, Acquire, InsertFails, SelectFree, SelectRow,
         TestExpired, BreakNothing, Wait, Sleep

(* Nobody reaches the DELETE without having compared the clock with the row.   *)
LEMMA BreakStep == IInv /\ [Next]_vars => BreaksExpired'
<1> SUFFICES ASSUME IInv, [Next]_vars, NEW q \in Request, pc'[q] = "break"
             PROVE  call'[q].seen.expire < now'
  BY DEF BreaksExpired
<1> USE DEF IInv
<1>1. ASSUME pc'[q] = pc[q], call'[q] = call[q], now <= now'
      PROVE  call'[q].seen.expire < now'
  <2>1. now \in Nat /\ now' \in Nat
    BY TypeStep DEF TypeOK
  <2>2. call[q].seen \in Row /\ call[q].seen.expire < now
    BY <1>1, InCall DEF BreaksExpired
  <2> QED
    BY <1>1, <2>1, <2>2 DEF Row
<1>2. ASSUME NEW r \in Request, TestExpired(r)
      PROVE  call'[q].seen.expire < now'
  <2>1. CASE now > call[r].seen.expire
    <3>1. CASE q = r
      BY <1>2, <2>1, <3>1 DEF TestExpired
    <3>2. CASE q # r
      BY <1>1, <1>2, <2>1, <3>2 DEF TestExpired, Goto, TypeOK
    <3> QED
      BY <3>1, <3>2
  <2>2. CASE ~(now > call[r].seen.expire)
    <3>1. q # r
      BY <1>2, <2>2 DEF TestExpired, Unavailable, Return, Goto, TypeOK
    <3> QED
      BY <1>1, <1>2, <2>2, <3>1 DEF TestExpired, Unavailable, Return, Goto, TypeOK
  <2> QED
    BY <2>1, <2>2
<1>3. ASSUME NEW r \in Request, now' = now, pc'[r] # "break",
             \A s \in Request \ {r} : pc'[s] = pc[s] /\ call'[s] = call[s]
      PROVE  call'[q].seen.expire < now'
  <2>1. q # r
    BY <1>3
  <2> QED
    BY <1>1, <1>3, <2>1 DEF TypeOK
<1>4. ASSUME NEW r \in Request,
             Renew(r) \/ RenewFails(r) \/ Insert(r) \/ InsertFails(r) \/ Sleep(r)
             \/ SelectRow(r) \/ ReleaseAll(r) \/ Vanish(r)
      PROVE  call'[q].seen.expire < now'
  BY <1>3, <1>4 DEF Renew, RenewFails, Insert, InsertFails, Sleep, SelectRow, ReleaseAll,
     Vanish, Return, Goto, TypeOK
<1>5. ASSUME NEW r \in Request, SelectFree(r) \/ Break(r) \/ BreakNothing(r)
      PROVE  call'[q].seen.expire < now'
  BY <1>3, <1>5 DEF SelectFree, Break, BreakNothing, Available, Unavailable, Return,
     Goto, TypeOK
<1>6. ASSUME NEW r \in Request, NEW n \in Name,
             \/ \E t \in Timeout : Acquire(r, n, t)
             \/ \E polls \in 1..MaxPolls : Wait(r, n, polls)
      PROVE  call'[q].seen.expire < now'
  BY <1>3, <1>6 DEF Acquire, Wait, Enters, Goto, TypeOK
<1>7. ASSUME NEW r \in Request, NEW n \in Name, Release(r, n)
      PROVE  call'[q].seen.expire < now'
  <2>1. now \in Nat
    BY DEF TypeOK
  <2> QED
    BY <1>1, <1>7, <2>1 DEF Release
<1>8. CASE Tick
  <2>1. now \in Nat
    BY DEF TypeOK
  <2> QED
    BY <1>1, <1>8, <2>1 DEF Tick
<1>9. CASE UNCHANGED vars
  <2>1. now \in Nat
    BY DEF TypeOK
  <2> QED
    BY <1>1, <1>9, <2>1 DEF vars
<1> QED
  BY <1>2, <1>4, <1>5, <1>6, <1>7, <1>8, <1>9 DEF Next, Enter, Continue

(* The expire time of a call is fixed when lock_acquire() is entered.          *)
LEMMA AskedStep == IInv /\ [Next]_vars => LeaseAsked'
<1> DEFINE Asked(e) == \E called \in 0..now, t \in Timeout : e = called + t
           AskedNext(e) == \E called \in 0..now', t \in Timeout : e = called + t
<1> SUFFICES ASSUME IInv, [Next]_vars, NEW q \in Request
             PROVE  /\ pc'[q] \in {"update", "insert"} => call'[q].op = "acquire"
                    /\ pc'[q] \notin {"idle", "gone"} /\ call'[q].op = "acquire" =>
                         AskedNext(call'[q].expire)
  BY DEF LeaseAsked
<1> DEFINE Goal == /\ pc'[q] \in {"update", "insert"} => call'[q].op = "acquire"
                   /\ pc'[q] \notin {"idle", "gone"} /\ call'[q].op = "acquire" =>
                         AskedNext(call'[q].expire)
<1> USE DEF IInv
<1>1. now \in Nat /\ now' \in Nat /\ now <= now'
  <2>1. now \in Nat /\ now' \in Nat
    BY TypeStep DEF TypeOK
  <2>2. now' = now \/ now' = now + 1
    BY DEF Next, Enter, Continue, Acquire, Wait, Release, Renew, RenewFails, Insert,
       InsertFails, SelectFree, SelectRow, TestExpired, Break, BreakNothing, Sleep,
       ReleaseAll, Vanish, Tick, vars
  <2> QED
    BY <2>1, <2>2
<1>2. ASSUME NEW e, Asked(e) PROVE AskedNext(e)
  BY <1>1, <1>2
<1>3. ASSUME pc'[q] \in {"update", "insert"} => pc[q] \in {"update", "insert"},
             pc'[q] \in {"idle", "gone"} \/ pc[q] \notin {"idle", "gone"},
             pc'[q] \notin {"idle", "gone"} =>
               call'[q].op = call[q].op /\ call'[q].expire = call[q].expire
      PROVE  Goal
  BY <1>2, <1>3 DEF LeaseAsked
<1>4. ASSUME NEW r \in Request, pc[r] \in {"select", "break"}, Available(r)
      PROVE  Goal
  <2>1. CASE q = r /\ call[r].op = "acquire"
    <3>1. call[r] \in Call
      BY <1>4, InCall
    <3>2. call'[q].op = call[q].op /\ call'[q].expire = call[q].expire
      BY <1>4, <2>1, <3>1 DEF Available, Call, TypeOK
    <3> QED
      BY <1>2, <1>4, <2>1, <3>2 DEF LeaseAsked
  <2>2. CASE q = r /\ call[r].op # "acquire"
    BY <1>4, <2>2 DEF Available, Return, Goto, TypeOK
  <2>3. CASE q # r
    BY <1>3, <1>4, <2>3 DEF Available, Return, Goto, TypeOK
  <2> QED
    BY <2>1, <2>2, <2>3
<1>5. ASSUME NEW r \in Request, pc[r] \in {"test", "break"}, Unavailable(r)
      PROVE  Goal
  BY <1>3, <1>5 DEF Unavailable, Return, Goto, TypeOK
<1>6. ASSUME NEW r \in Request, NEW n \in Name, NEW t \in Timeout, Acquire(r, n, t)
      PROVE  Goal
  <2>1. CASE q = r
    <3>1. call'[q].op = "acquire" /\ call'[q].expire = now + t
      BY <1>6, <2>1 DEF Acquire, Enters, TypeOK
    <3>2. Asked(now + t)
      BY <1>1
    <3> QED
      BY <1>2, <3>1, <3>2
  <2>2. CASE q # r
    BY <1>3, <1>6, <2>2 DEF Acquire, Enters, Goto, TypeOK
  <2> QED
    BY <2>1, <2>2
<1>7. ASSUME NEW r \in Request, NEW n \in Name, NEW polls \in 1..MaxPolls, Wait(r, n, polls)
      PROVE  Goal
  BY <1>3, <1>7 DEF Wait, Enters, Goto, TypeOK
<1>8. ASSUME NEW r \in Request,
             Renew(r) \/ RenewFails(r) \/ Insert(r) \/ InsertFails(r)
             \/ ReleaseAll(r) \/ Vanish(r)
      PROVE  Goal
  BY <1>3, <1>8 DEF Renew, RenewFails, Insert, InsertFails, ReleaseAll, Vanish, Return,
     Goto, TypeOK
<1>9. ASSUME NEW r \in Request, SelectRow(r) \/ Sleep(r)
      PROVE  Goal
  <2>1. call[r] \in Call /\ pc[r] \in {"select", "sleep"}
    BY <1>9, InCall DEF SelectRow, Sleep
  <2>2. call'[q].op = call[q].op /\ call'[q].expire = call[q].expire
    <3>1. CASE q # r
      BY <1>9, <3>1 DEF SelectRow, Sleep, TypeOK
    <3>2. CASE q = r /\ SelectRow(r)
      BY <2>1, <3>2 DEF SelectRow, Call, TypeOK
    <3>3. CASE q = r /\ Sleep(r)
      BY <2>1, <3>3 DEF Sleep, Call, TypeOK
    <3> QED
      BY <1>9, <3>1, <3>2, <3>3
  <2>3. pc'[q] = pc[q] \/ (q = r /\ pc'[q] \in {"test", "select"})
    BY <1>9 DEF SelectRow, Sleep, Goto, TypeOK
  <2> QED
    BY <1>3, <2>1, <2>2, <2>3
<1>10. ASSUME NEW r \in Request, TestExpired(r)
      PROVE  Goal
  BY <1>3, <1>5, <1>10 DEF TestExpired, Goto, TypeOK
<1>11. ASSUME UNCHANGED <<pc, call>>
      PROVE  Goal
  BY <1>3, <1>11
<1>12. ASSUME NEW r \in Request, SelectFree(r) \/ Break(r) \/ BreakNothing(r)
      PROVE  Goal
  BY <1>4, <1>5, <1>12 DEF SelectFree, Break, BreakNothing
<1> QED
  BY <1>6, <1>7, <1>8, <1>9, <1>10, <1>11, <1>12 DEF Next, Enter, Continue, Release, Tick, vars

(* IInv is inductive.  LeaseRecorded is what LeaseExclusion lacks: that two    *)
(* requests do not rely on one lock now says nothing of the next INSERT, that  *)
(* the row names the one who relies on it does.                                *)
THEOREM InductiveInvariant == Spec => []IInv
<1>1. IInv /\ [Next]_vars => IInv'
  BY TypeStep, LeaseStep, BreakStep, AskedStep DEF IInv
<1> QED
  BY InitIInv, <1>1, PTL DEF Spec

(* The state has its types: in particular lock_wait() stops polling when its   *)
(* delay is used up and no local variable is read before it is set.            *)
THEOREM TypeCorrect == Spec => []TypeOK
<1>1. IInv => TypeOK
  BY DEF IInv
<1> QED
  BY InductiveInvariant, <1>1, PTL

(* Mutual exclusion among the requests whose lease is not over.                *)
THEOREM LockIsExclusive == Spec => []LeaseExclusion
<1>1. IInv => LeaseExclusion
  <2> SUFFICES ASSUME IInv, NEW r1 \in Request, NEW r2 \in Request, NEW n \in Name,
                      Relies(r1, n), Relies(r2, n)
               PROVE  r1 = r2
    BY DEF LeaseExclusion
  <2> QED
    BY DEF IInv, LeaseRecorded, OwnRow
<1> QED
  BY InductiveInvariant, <1>1, PTL

-----------------------------------------------------------------------------
(* A step of a lock function is a step of the lock service or unseen by it:    *)
(* the table grants a lock only when it is free, and takes it from its holder  *)
(* only by the holder's own act or after the end of the lease.                 *)
LEMMA RefinementStep == IInv /\ [Next]_vars => [Lease!Next]_(Lease!vars)
<1> SUFFICES ASSUME IInv, [Next]_vars PROVE [Lease!Next]_(Lease!vars)
  OBVIOUS
<1> USE DEF IInv
<1>1. /\ now \in Nat /\ semaphore \in [Name -> Row \cup {None}]
      /\ \A n \in Name : semaphore[n] # None =>
           semaphore[n].value \in Request /\ semaphore[n].value # None
  BY SemaphoreAssumption DEF TypeOK, Row
<1>2. ASSUME UNCHANGED <<now, semaphore, locks>>
      PROVE  UNCHANGED Lease!vars
  BY <1>2 DEF Lease!vars, Holder, Until
<1>3. ASSUME NEW r \in Request, Renew(r) \/ Insert(r)
      PROVE  Lease!Next
  <2> DEFINE n == call[r].name
             e == call[r].expire
             row == [value |-> r, expire |-> e]
  <2>1. n \in Name /\ e \in Nat /\ pc[r] \in {"update", "insert"}
    BY <1>3, InCall DEF Renew, Insert
  <2>2. /\ semaphore' = [semaphore EXCEPT ![n] = row] /\ now' = now
        /\ locks' = [locks EXCEPT ![r][n] = e]
    BY <1>3 DEF Renew, Insert, WriteRow
  <2>3. row # None /\ row.value = r /\ row.expire = e
    BY <2>1, SemaphoreAssumption DEF Row
  <2>4. Holder' = [Holder EXCEPT ![n] = r] /\ Until' = [Until EXCEPT ![n] = e]
    BY <1>1, <2>1, <2>2, <2>3 DEF Holder, Until
  <2>5. PICK called \in 0..now, t \in Timeout : e = called + t
    BY <2>1 DEF LeaseAsked
  <2>6. Holder[n] \in {None, r}
    BY <1>1, <1>3, <2>1 DEF Insert, Renew, UpdateChanges, OwnRow, Wanted, Holder
  <2>7. Lease!Grant(r, n)
    BY <2>2, <2>4, <2>5, <2>6 DEF Lease!Grant
  <2> QED
    BY <2>1, <2>7 DEF Lease!Next
<1>4. ASSUME NEW r \in Request, Break(r)
      PROVE  Lease!Next
  <2> DEFINE n == call[r].name
  <2>1. n \in Name /\ semaphore[n] \in Row /\ call[r].seen \in Row
    BY <1>4, InCall DEF Break, StillExpired, Wanted
  <2>2. /\ semaphore' = [semaphore EXCEPT ![n] = None] /\ UNCHANGED <<now, locks>>
        /\ semaphore[n] # None
    BY <1>4 DEF Break, StillExpired, Wanted
  <2>3. Holder' = [Holder EXCEPT ![n] = None] /\ Until' = [Until EXCEPT ![n] = 0]
    BY <1>1, <2>1, <2>2 DEF Holder, Until
  <2>4. Holder[n] # None /\ Until[n] = semaphore[n].expire
    BY <1>1, <2>1, <2>2 DEF Holder, Until
  <2>5. /\ call[r].seen.expire < now /\ semaphore[n].expire <= call[r].seen.expire
        /\ call[r].seen.expire \in Nat /\ semaphore[n].expire \in Nat
    BY <1>4, <2>1 DEF Break, StillExpired, BreaksExpired, Wanted, Row
  <2>6. Lease!Break(n)
    BY <1>1, <2>2, <2>3, <2>4, <2>5 DEF Lease!Break
  <2> QED
    BY <2>1, <2>6 DEF Lease!Next
<1>5. ASSUME NEW r \in Request, NEW names \in SUBSET Name, NEW freed \in SUBSET names,
             now' = now, \A n \in freed : OwnRow(r, n),
             semaphore' = [n \in Name |-> IF n \in freed THEN None ELSE semaphore[n]],
             locks' = [locks EXCEPT ![r] =
               [n \in Name |-> IF n \in names THEN 0 ELSE locks[r][n]]]
      PROVE  Lease!Next
  <2>1. \A n \in freed : Holder[n] = r
    BY <1>5 DEF Holder, OwnRow
  <2>2. /\ Holder' = [n \in Name |-> IF n \in freed THEN None ELSE Holder[n]]
        /\ Until' = [n \in Name |-> IF n \in freed THEN 0 ELSE Until[n]]
    BY <1>5 DEF Holder, Until
  <2>3. Lease!GiveUp(r, names, freed)
    BY <1>5, <2>1, <2>2 DEF Lease!GiveUp
  <2> QED
    BY <2>3 DEF Lease!Next
<1>6. ASSUME NEW r \in Request, NEW n \in Name, Release(r, n)
      PROVE  Lease!Next
  <2> DEFINE freed == IF OwnRow(r, n) THEN {n} ELSE {}
  <2>1. /\ now' = now /\ {n} \in SUBSET Name /\ freed \in SUBSET {n}
        /\ \A m \in freed : OwnRow(r, m)
        /\ semaphore' = [m \in Name |-> IF m \in freed THEN None ELSE semaphore[m]]
    BY <1>1, <1>6 DEF Release
  <2>2. locks' = [locks EXCEPT ![r] = [m \in Name |-> IF m \in {n} THEN 0 ELSE locks[r][m]]]
    BY <1>6 DEF Release, TypeOK
  <2> HIDE DEF freed
  <2> QED
    BY <1>5, <2>1, <2>2
<1>7. ASSUME NEW r \in Request, RenewFails(r)
      PROVE  Lease!Next
  <2> DEFINE n == call[r].name
             freed == {}
  <2>1. /\ UNCHANGED <<now, semaphore>> /\ n \in Name
        /\ locks' = [locks EXCEPT ![r][n] = 0]
    BY <1>7, InCall DEF RenewFails
  <2>2. /\ semaphore' = [m \in Name |-> IF m \in freed THEN None ELSE semaphore[m]]
        /\ locks' = [locks EXCEPT ![r] = [m \in Name |-> IF m \in {n} THEN 0 ELSE locks[r][m]]]
    BY <1>1, <2>1 DEF TypeOK
  <2>3. {n} \in SUBSET Name /\ freed \in SUBSET {n} /\ \A m \in freed : OwnRow(r, m)
    BY <2>1
  <2> HIDE DEF freed
  <2> QED
    BY <1>5, <2>1, <2>2, <2>3
<1>8. ASSUME NEW r \in Request, ReleaseAll(r) \/ Vanish(r)
      PROVE  Lease!Next
  <2> DEFINE freed == IF ReleaseAll(r) THEN {n \in Name : OwnRow(r, n)} ELSE {}
  <2>1. /\ now' = now /\ freed \in SUBSET Name /\ \A n \in freed : OwnRow(r, n)
        /\ locks' = [locks EXCEPT ![r] = [n \in Name |-> 0]]
    BY <1>8 DEF ReleaseAll, Vanish
  <2>4. [n \in Name |-> IF n \in Name THEN 0 ELSE locks[r][n]] = [n \in Name |-> 0]
    OBVIOUS
  <2>5. locks' = [locks EXCEPT ![r] = [n \in Name |-> IF n \in Name THEN 0 ELSE locks[r][n]]]
    BY <2>1, <2>4
  <2>2. semaphore' = [n \in Name |-> IF n \in freed THEN None ELSE semaphore[n]]
    <3>1. CASE ReleaseAll(r)
      BY <3>1 DEF ReleaseAll
    <3>2. CASE ~ReleaseAll(r)
      BY <1>1, <1>8, <3>2 DEF Vanish
    <3> QED
      BY <3>1, <3>2
  <2>3. Name \in SUBSET Name
    OBVIOUS
  <2> HIDE DEF freed
  <2> QED
    BY <1>5, <2>1, <2>2, <2>3, <2>5
<1>9. CASE Tick
  <2>1. now' > now /\ UNCHANGED <<Holder, Until, locks>>
    BY <1>1, <1>9 DEF Tick, Holder, Until
  <2> QED
    BY <2>1 DEF Lease!Next, Lease!Tick
<1>10. ASSUME NEW r \in Request,
             InsertFails(r) \/ SelectFree(r) \/ SelectRow(r)
             \/ TestExpired(r) \/ BreakNothing(r) \/ Sleep(r)
      PROVE  UNCHANGED <<now, semaphore, locks>>
  BY <1>10 DEF InsertFails, SelectFree, SelectRow, TestExpired, BreakNothing, Sleep
<1>11. ASSUME NEW r \in Request, NEW n \in Name,
              \/ \E t \in Timeout : Acquire(r, n, t)
              \/ \E polls \in 1..MaxPolls : Wait(r, n, polls)
      PROVE  UNCHANGED <<now, semaphore, locks>>
  BY <1>11 DEF Acquire, Wait
<1>12. CASE UNCHANGED vars
  BY <1>2, <1>12 DEF vars
<1> QED
  BY <1>2, <1>3, <1>4, <1>6, <1>7, <1>8, <1>9, <1>10, <1>11, <1>12 DEF Next, Enter, Continue

(* lock.inc implements the lock service of LeaseLock.                          *)
THEOREM ImplementsLeaseLock == Spec => LeaseSpec
<1>1. Init => Lease!Init
  BY DEF Init, Lease!Init, Holder, Until
<1> QED
  BY <1>1, RefinementStep, InductiveInvariant, PTL DEF Spec, LeaseSpec, Lease!Spec
==============================================================================
