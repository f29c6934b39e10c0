------------------------- MODULE VariableCacheProofs -------------------------
(* Theorems about VariableCache for any number of requests, versions and       *)
(* faults.                                                                     *)
EXTENDS VariableCache, TLAPS

LEMMA InitIInv == Init => IInv
<1> SUFFICES ASSUME Init PROVE IInv
  OBVIOUS
<1> USE VariableAssumption
<1>1. TypeOK
  <2>1. 0 \in Version /\ 0 \in 0..MaxFaults
    BY DEF Version
  <2>2. table \in Version /\ confirmed \in Version /\ faults \in 0..MaxFaults
    BY <2>1 DEF Init
  <2>3. cache = None /\ lock = None
    BY DEF Init
  <2>4. pc \in [Request -> PC] /\ \A r \in Request : pc[r] = "idle"
    BY DEF Init, PC
  <2>5. conf \in [Request -> Version \cup {None}]
    BY DEF Init
  <2>6. mine \in [Request -> Version]
    BY <2>1 DEF Init
  <2>7. outlived \in BOOLEAN /\ raced \in BOOLEAN /\ unannounced \in BOOLEAN
    BY DEF Init
  <2> QED
    BY <2>2, <2>3, <2>4, <2>5, <2>6, <2>7 DEF TypeOK
<1>2. VersionsOrdered /\ CopiersLock
  BY DEF Init, VersionsOrdered, CopiersLock
<1>3. CopyIsRecent /\ StaleHasReason /\ CacheIsConfirmed
  BY DEF Init, CopyIsRecent, Copying, StaleHasReason, CacheIsConfirmed
<1> QED
  BY <1>1, <1>2, <1>3 DEF IInv

LEMMA TypeStep == TypeOK /\ [Next]_vars => TypeOK'
<1> SUFFICES ASSUME TypeOK, [Next]_vars PROVE TypeOK'
  OBVIOUS
<1> USE VariableAssumption DEF request, history, Goto, Free, Leave, Announce, Empty, TypeOK, PC, Version
<1>1. ASSUME NEW r \in Request, Start(r) PROVE TypeOK'
  BY <1>1 DEF Start
<1>2. ASSUME NEW r \in Request, Get(r) PROVE TypeOK'
  BY <1>2 DEF Get
<1>3. ASSUME NEW r \in Request, AcquireLock(r) PROVE TypeOK'
  BY <1>3 DEF AcquireLock
<1>4. ASSUME NEW r \in Request, LockRefused(r) PROVE TypeOK'
  BY <1>4 DEF LockRefused
<1>5. ASSUME NEW r \in Request, Select(r) PROVE TypeOK'
  BY <1>5 DEF Select
<1>6. ASSUME NEW r \in Request, Store(r) \/ StoreFails(r) PROVE TypeOK'
  BY <1>6 DEF Store, StoreFails
<1>7. ASSUME NEW r \in Request, Unlock(r) PROVE TypeOK'
  BY <1>7 DEF Unlock
<1>8. ASSUME NEW r \in Request, Clear(r) PROVE TypeOK'
  <2>1. table' = table /\ cache' = None /\ lock' = lock /\ conf' = conf
        /\ faults' = faults /\ outlived' = outlived /\ unannounced' = FALSE
    BY <1>8 DEF Clear
  <2>2. raced' \in BOOLEAN
    BY <1>8, Zenon DEF Clear
  <2>3. confirmed' \in Version
    BY <1>8 DEF Clear
  <2>4. mine' \in [Request -> Version] /\ pc' \in [Request -> PC]
    BY <1>8 DEF Clear
  <2>5. \A q \in Request : pc'[q] \in {"store", "unlock", "run", "clear"} => conf'[q] # None
    BY <1>8, <2>1 DEF Clear
  <2> QED
    BY <2>1, <2>2, <2>3, <2>4, <2>5
<1>9. ASSUME NEW r \in Request, End(r) PROVE TypeOK'
  BY <1>9 DEF End
<1>10. ASSUME NEW r \in Request, Merge(r) PROVE TypeOK'
  BY <1>10 DEF Merge
<1>11. ASSUME NEW r \in Request, Die(r) PROVE TypeOK'
  BY <1>11 DEF Die
<1>12. ASSUME NEW r \in Request, Outlive(r) PROVE TypeOK'
  BY <1>12 DEF Outlive
<1>13. CASE Flush
  BY <1>13 DEF Flush
<1>14. CASE Expire
  BY <1>14 DEF Expire
<1>15. CASE UNCHANGED vars
  BY <1>15 DEF vars
<1> QED
  BY <1>1, <1>2, <1>3, <1>4, <1>5, <1>6, <1>7, <1>8, <1>9, <1>10, <1>11, <1>12, <1>13, <1>14, <1>15 DEF Next, Continue, Bootstrap

(* A version is announced after it was made. *)
LEMMA OrderStep == TypeOK /\ VersionsOrdered /\ [Next]_vars => VersionsOrdered'
<1> SUFFICES ASSUME TypeOK, VersionsOrdered, [Next]_vars PROVE VersionsOrdered'
  OBVIOUS
<1> USE VariableAssumption DEF request, history, Goto, Free, Leave, Announce, Empty, TypeOK, Version, VersionsOrdered
<1>1. ASSUME NEW r \in Request, Start(r) PROVE VersionsOrdered'
  BY <1>1 DEF Start
<1>2. ASSUME NEW r \in Request, Get(r) PROVE VersionsOrdered'
  BY <1>2 DEF Get
<1>3. ASSUME NEW r \in Request, AcquireLock(r) PROVE VersionsOrdered'
  BY <1>3 DEF AcquireLock
<1>4. ASSUME NEW r \in Request, LockRefused(r) PROVE VersionsOrdered'
  BY <1>4 DEF LockRefused
<1>5. ASSUME NEW r \in Request, Select(r) PROVE VersionsOrdered'
  BY <1>5 DEF Select
<1>6. ASSUME NEW r \in Request, Store(r) \/ StoreFails(r) PROVE VersionsOrdered'
  BY <1>6 DEF Store, StoreFails
<1>7. ASSUME NEW r \in Request, Unlock(r) PROVE VersionsOrdered'
  BY <1>7 DEF Unlock
<1>8. ASSUME NEW r \in Request, Clear(r) PROVE VersionsOrdered'
  BY <1>8 DEF Clear
<1>9. ASSUME NEW r \in Request, End(r) PROVE VersionsOrdered'
  BY <1>9 DEF End
<1>10. ASSUME NEW r \in Request, Merge(r) PROVE VersionsOrdered'
  BY <1>10 DEF Merge
<1>11. ASSUME NEW r \in Request, Die(r) PROVE VersionsOrdered'
  BY <1>11 DEF Die
<1>12. ASSUME NEW r \in Request, Outlive(r) PROVE VersionsOrdered'
  BY <1>12 DEF Outlive
<1>13. CASE Flush
  BY <1>13 DEF Flush
<1>14. CASE Expire
  BY <1>14 DEF Expire
<1>15. CASE UNCHANGED vars
  BY <1>15 DEF vars
<1> QED
  BY <1>1, <1>2, <1>3, <1>4, <1>5, <1>6, <1>7, <1>8, <1>9, <1>10, <1>11, <1>12, <1>13, <1>14, <1>15 DEF Next, Continue, Bootstrap

(* Whoever copies has the lock. *)
LEMMA LockStep == TypeOK /\ CopiersLock /\ [Next]_vars => CopiersLock'
<1> SUFFICES ASSUME TypeOK, CopiersLock, [Next]_vars PROVE CopiersLock'
  OBVIOUS
<1> USE VariableAssumption DEF request, history, Goto, Free, Leave, Announce, Empty, TypeOK, CopiersLock
<1>1. ASSUME NEW r \in Request, Start(r) PROVE CopiersLock'
  BY <1>1 DEF Start
<1>2. ASSUME NEW r \in Request, Get(r) PROVE CopiersLock'
  BY <1>2 DEF Get
<1>3. ASSUME NEW r \in Request, AcquireLock(r) PROVE CopiersLock'
  BY <1>3 DEF AcquireLock
<1>4. ASSUME NEW r \in Request, LockRefused(r) PROVE CopiersLock'
  BY <1>4 DEF LockRefused
<1>5. ASSUME NEW r \in Request, Select(r) PROVE CopiersLock'
  BY <1>5 DEF Select
<1>6. ASSUME NEW r \in Request, Store(r) \/ StoreFails(r) PROVE CopiersLock'
  BY <1>6 DEF Store, StoreFails
<1>7. ASSUME NEW r \in Request, Unlock(r) PROVE CopiersLock'
  BY <1>7 DEF Unlock
<1>8. ASSUME NEW r \in Request, Clear(r) PROVE CopiersLock'
  BY <1>8 DEF Clear
<1>9. ASSUME NEW r \in Request, End(r) PROVE CopiersLock'
  BY <1>9 DEF End
<1>10. ASSUME NEW r \in Request, Merge(r) PROVE CopiersLock'
  BY <1>10 DEF Merge
<1>11. ASSUME NEW r \in Request, Die(r) PROVE CopiersLock'
  BY <1>11 DEF Die
<1>12. ASSUME NEW r \in Request, Outlive(r) PROVE CopiersLock'
  BY <1>12 DEF Outlive
<1>13. CASE Flush
  BY <1>13 DEF Flush
<1>14. CASE Expire
  BY <1>14 DEF Expire
<1>15. CASE UNCHANGED vars
  BY <1>15 DEF vars
<1> QED
  BY <1>1, <1>2, <1>3, <1>4, <1>5, <1>6, <1>7, <1>8, <1>9, <1>10, <1>11, <1>12, <1>13, <1>14, <1>15 DEF Next, Continue, Bootstrap

(* A copy that is about to be stored is the table, unless a merge came in. *)
LEMMA CopyStep == TypeOK /\ CopyIsRecent /\ [Next]_vars => CopyIsRecent'
<1> SUFFICES ASSUME TypeOK, CopyIsRecent, [Next]_vars PROVE CopyIsRecent'
  OBVIOUS
<1> USE VariableAssumption DEF request, history, Goto, Free, Leave, Announce, Empty, TypeOK, Copying, CopyIsRecent
<1>1. ASSUME NEW r \in Request, Start(r) PROVE CopyIsRecent'
  BY <1>1 DEF Start
<1>2. ASSUME NEW r \in Request, Get(r) PROVE CopyIsRecent'
  BY <1>2 DEF Get
<1>3. ASSUME NEW r \in Request, AcquireLock(r) PROVE CopyIsRecent'
  BY <1>3 DEF AcquireLock
<1>4. ASSUME NEW r \in Request, LockRefused(r) PROVE CopyIsRecent'
  BY <1>4 DEF LockRefused
<1>5. ASSUME NEW r \in Request, Select(r) PROVE CopyIsRecent'
  BY <1>5 DEF Select
<1>6. ASSUME NEW r \in Request, Store(r) \/ StoreFails(r) PROVE CopyIsRecent'
  BY <1>6 DEF Store, StoreFails
<1>7. ASSUME NEW r \in Request, Unlock(r) PROVE CopyIsRecent'
  BY <1>7 DEF Unlock
<1>8. ASSUME NEW r \in Request, Clear(r) PROVE CopyIsRecent'
  BY <1>8 DEF Clear
<1>9. ASSUME NEW r \in Request, End(r) PROVE CopyIsRecent'
  BY <1>9 DEF End
<1>10. ASSUME NEW r \in Request, Merge(r) PROVE CopyIsRecent'
  BY <1>10 DEF Merge
<1>11. ASSUME NEW r \in Request, Die(r) PROVE CopyIsRecent'
  BY <1>11 DEF Die
<1>12. ASSUME NEW r \in Request, Outlive(r) PROVE CopyIsRecent'
  BY <1>12 DEF Outlive
<1>13. CASE Flush
  BY <1>13 DEF Flush
<1>14. CASE Expire
  BY <1>14 DEF Expire
<1>15. CASE UNCHANGED vars
  BY <1>15 DEF vars
<1> QED
  BY <1>1, <1>2, <1>3, <1>4, <1>5, <1>6, <1>7, <1>8, <1>9, <1>10, <1>11, <1>12, <1>13, <1>14, <1>15 DEF Next, Continue, Bootstrap

(* So what is stored is the table as well. *)
LEMMA StaleStep == TypeOK /\ CopyIsRecent /\ StaleHasReason /\ [Next]_vars => StaleHasReason'
<1> SUFFICES ASSUME TypeOK, CopyIsRecent, StaleHasReason, [Next]_vars PROVE StaleHasReason'
  OBVIOUS
<1> USE VariableAssumption DEF request, history, Goto, Free, Leave, Announce, Empty, TypeOK, Copying, CopyIsRecent, StaleHasReason
<1>1. ASSUME NEW r \in Request, Start(r) PROVE StaleHasReason'
  BY <1>1 DEF Start
<1>2. ASSUME NEW r \in Request, Get(r) PROVE StaleHasReason'
  BY <1>2 DEF Get
<1>3. ASSUME NEW r \in Request, AcquireLock(r) PROVE StaleHasReason'
  BY <1>3 DEF AcquireLock
<1>4. ASSUME NEW r \in Request, LockRefused(r) PROVE StaleHasReason'
  BY <1>4 DEF LockRefused
<1>5. ASSUME NEW r \in Request, Select(r) PROVE StaleHasReason'
  BY <1>5 DEF Select
<1>6. ASSUME NEW r \in Request, Store(r) \/ StoreFails(r) PROVE StaleHasReason'
  BY <1>6 DEF Store, StoreFails
<1>7. ASSUME NEW r \in Request, Unlock(r) PROVE StaleHasReason'
  BY <1>7 DEF Unlock
<1>8. ASSUME NEW r \in Request, Clear(r) PROVE StaleHasReason'
  BY <1>8 DEF Clear
<1>9. ASSUME NEW r \in Request, End(r) PROVE StaleHasReason'
  BY <1>9 DEF End
<1>10. ASSUME NEW r \in Request, Merge(r) PROVE StaleHasReason'
  BY <1>10 DEF Merge
<1>11. ASSUME NEW r \in Request, Die(r) PROVE StaleHasReason'
  BY <1>11 DEF Die
<1>12. ASSUME NEW r \in Request, Outlive(r) PROVE StaleHasReason'
  BY <1>12 DEF Outlive
<1>13. CASE Flush
  BY <1>13 DEF Flush
<1>14. CASE Expire
  BY <1>14 DEF Expire
<1>15. CASE UNCHANGED vars
  BY <1>15 DEF vars
<1> QED
  BY <1>1, <1>2, <1>3, <1>4, <1>5, <1>6, <1>7, <1>8, <1>9, <1>10, <1>11, <1>12, <1>13, <1>14, <1>15 DEF Next, Continue, Bootstrap

(* And the table has every version that was announced. *)
LEMMA ConfirmedStep == TypeOK /\ VersionsOrdered /\ CopyIsRecent /\ CacheIsConfirmed /\ [Next]_vars => CacheIsConfirmed'
<1> SUFFICES ASSUME TypeOK, VersionsOrdered, CopyIsRecent, CacheIsConfirmed, [Next]_vars PROVE CacheIsConfirmed'
  OBVIOUS
<1> USE VariableAssumption DEF request, history, Goto, Free, Leave, Announce, Empty, TypeOK, Version, Copying, VersionsOrdered, CopyIsRecent, CacheIsConfirmed
<1>1. ASSUME NEW r \in Request, Start(r) PROVE CacheIsConfirmed'
  BY <1>1 DEF Start
<1>2. ASSUME NEW r \in Request, Get(r) PROVE CacheIsConfirmed'
  BY <1>2 DEF Get
<1>3. ASSUME NEW r \in Request, AcquireLock(r) PROVE CacheIsConfirmed'
  BY <1>3 DEF AcquireLock
<1>4. ASSUME NEW r \in Request, LockRefused(r) PROVE CacheIsConfirmed'
  BY <1>4 DEF LockRefused
<1>5. ASSUME NEW r \in Request, Select(r) PROVE CacheIsConfirmed'
  BY <1>5 DEF Select
<1>6. ASSUME NEW r \in Request, Store(r) \/ StoreFails(r) PROVE CacheIsConfirmed'
  BY <1>6 DEF Store, StoreFails
<1>7. ASSUME NEW r \in Request, Unlock(r) PROVE CacheIsConfirmed'
  BY <1>7 DEF Unlock
<1>8. ASSUME NEW r \in Request, Clear(r) PROVE CacheIsConfirmed'
  BY <1>8 DEF Clear
<1>9. ASSUME NEW r \in Request, End(r) PROVE CacheIsConfirmed'
  BY <1>9 DEF End
<1>10. ASSUME NEW r \in Request, Merge(r) PROVE CacheIsConfirmed'
  BY <1>10 DEF Merge
<1>11. ASSUME NEW r \in Request, Die(r) PROVE CacheIsConfirmed'
  BY <1>11 DEF Die
<1>12. ASSUME NEW r \in Request, Outlive(r) PROVE CacheIsConfirmed'
  BY <1>12 DEF Outlive
<1>13. CASE Flush
  BY <1>13 DEF Flush
<1>14. CASE Expire
  BY <1>14 DEF Expire
<1>15. CASE UNCHANGED vars
  BY <1>15 DEF vars
<1> QED
  BY <1>1, <1>2, <1>3, <1>4, <1>5, <1>6, <1>7, <1>8, <1>9, <1>10, <1>11, <1>12, <1>13, <1>14, <1>15 DEF Next, Continue, Bootstrap

LEMMA StepIInv == IInv /\ [Next]_vars => IInv'
BY TypeStep, OrderStep, LockStep, CopyStep, StaleStep, ConfirmedStep DEF IInv

(* The variables of bootstrap.inc and their cache: what every statement may    *)
(* rely on, whoever sets, copies, dies or clears in between.                   *)
THEOREM InductiveInvariant == Spec => []IInv
<1>1. Init => IInv
  BY InitIInv
<1>2. IInv /\ [Next]_vars => IInv'
  BY StepIInv
<1> QED
  BY <1>1, <1>2, PTL DEF Spec

(* The tables and the requests have their types, and no request runs without   *)
(* its variables.                                                              *)
THEOREM TypeCorrect == Spec => []TypeOK
<1>1. IInv => TypeOK
  BY DEF IInv
<1> QED
  BY <1>1, InductiveInvariant, PTL

(* The copy in {cache_bootstrap} is outdated only for the three reasons that   *)
(* variable_set() and variable_initialize() leave open.                        *)
THEOREM StalenessHasReason == Spec => []StaleHasReason
<1>1. IInv => StaleHasReason
  BY DEF IInv
<1> QED
  BY <1>1, InductiveInvariant, PTL

(* The lock variable_init lets one request at a time copy the table. *)
THEOREM NoStampede == Spec => []OneCopies
<1>1. IInv => OneCopies
  BY DEF IInv, CopiersLock, OneCopies
<1> QED
  BY <1>1, InductiveInvariant, PTL

(* A variable_set() that has returned is seen by every request that starts     *)
(* later, unless it raced a copy.                                              *)
THEOREM SetsAreSeen == Spec => ConfirmedIsSeen
<1> DEFINE Seen == \A r \in Request : conf'[r] \notin {None, conf[r]} => conf'[r] >= confirmed \/ raced
<1>1. IInv /\ [Next]_vars => [Seen]_vars
  <2> SUFFICES ASSUME IInv, Next PROVE Seen
    BY DEF vars
  <2> USE VariableAssumption DEF request, history, Goto, Leave, IInv, TypeOK, Version, VersionsOrdered, CacheIsConfirmed
  <2>1. ASSUME NEW r \in Request, Start(r) PROVE Seen
    BY <2>1 DEF Start
  <2>2. ASSUME NEW r \in Request, Get(r) PROVE Seen
    BY <2>2 DEF Get
  <2>3. ASSUME NEW r \in Request, AcquireLock(r) PROVE Seen
    BY <2>3 DEF AcquireLock
  <2>4. ASSUME NEW r \in Request, LockRefused(r) PROVE Seen
    BY <2>4 DEF LockRefused
  <2>5. ASSUME NEW r \in Request, Select(r) PROVE Seen
    BY <2>5 DEF Select
  <2>6. ASSUME NEW r \in Request, Store(r) \/ StoreFails(r) PROVE Seen
    BY <2>6 DEF Store, StoreFails
  <2>7. ASSUME NEW r \in Request, Unlock(r) PROVE Seen
    BY <2>7 DEF Unlock
  <2>8. ASSUME NEW r \in Request, Clear(r) PROVE Seen
    BY <2>8 DEF Clear, Announce
  <2>9. ASSUME NEW r \in Request, End(r) PROVE Seen
    BY <2>9 DEF End
  <2>10. ASSUME NEW r \in Request, Merge(r) PROVE Seen
    BY <2>10 DEF Merge
  <2>11. ASSUME NEW r \in Request, Die(r) PROVE Seen
    BY <2>11 DEF Die
  <2>12. ASSUME NEW r \in Request, Outlive(r) PROVE Seen
    BY <2>12 DEF Outlive
  <2>13. CASE Flush
    BY <2>13 DEF Flush
  <2>14. CASE Expire
    BY <2>14 DEF Expire
  <2> QED
    BY <2>1, <2>2, <2>3, <2>4, <2>5, <2>6, <2>7, <2>8, <2>9, <2>10, <2>11, <2>12, <2>13, <2>14 DEF Next, Continue, Bootstrap
<1>2. Spec => [][Next]_vars
  BY DEF Spec
<1> QED
  BY <1>1, <1>2, InductiveInvariant, PTL DEF ConfirmedIsSeen
==============================================================================
