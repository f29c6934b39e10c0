-------------------------- MODULE FeedsImportProofs --------------------------
(* Theorems about FeedsImport for any number of workers, batches, edits and    *)
(* faults.                                                                     *)
EXTENDS FeedsImport, TLAPS

LEMMA InitIInv == Init => IInv
<1> SUFFICES ASSUME Init PROVE IInv
  OBVIOUS
<1> USE FeedsAssumption
<1>1. TypeOK /\ url >= 1
  <2>1. feed \in BOOLEAN /\ url \in Url /\ source \in Url /\ nodes \in Nat /\ lock = None
    BY DEF Init, Url
  <2>2. pc \in [Process -> PC]
    BY DEF Init, PC
  <2>3. loaded \in [Process -> Url \cup {None, NoRow}]
    BY DEF Init
  <2>4. faults \in 0..MaxFaults /\ url >= 1
    BY DEF Init
  <2>5. outlived \in BOOLEAN /\ under \in BOOLEAN /\ overtaken \in BOOLEAN
    BY DEF Init
  <2> QED
    BY <2>1, <2>2, <2>3, <2>4, <2>5 DEF TypeOK
<1>2. Locked /\ InsertsFirst /\ ImportedOnce
  BY DEF Init, Locked, InsertsFirst, ImportedOnce
<1>3. Bare /\ Fresh /\ Gone
  BY DEF Init, Bare, Fresh, Gone
<1> QED
  BY <1>1, <1>2, <1>3 DEF IInv

LEMMA ConfigType == ASSUME TypeOK, NEW p \in Process PROVE Config(p) \in Url \cup {None}
BY FeedsAssumption DEF TypeOK, Config, Url

LEMMA TypeStep == TypeOK /\ [Next]_vars => TypeOK'
<1> SUFFICES ASSUME TypeOK, [Next]_vars PROVE TypeOK'
  OBVIOUS
<1> USE FeedsAssumption DEF tables, history, Goto, Free, TypeOK, PC
<1>1. ASSUME NEW p \in Process, StartWorker(p) PROVE TypeOK'
  BY <1>1 DEF StartWorker
<1>2. ASSUME NEW p \in Process, StartBatch(p) \/ StartUnlock(p) PROVE TypeOK'
  BY <1>2 DEF StartBatch, StartUnlock
<1>3. ASSUME NEW p \in Process, Load(p) \/ Open(p) PROVE TypeOK'
  BY <1>3 DEF Load, Open, Url
<1>4. ASSUME NEW p \in Process, AcquireLock(p) PROVE TypeOK'
  BY <1>4 DEF AcquireLock
<1>5. ASSUME NEW p \in Process, LockRefused(p) PROVE TypeOK'
  BY <1>5 DEF LockRefused
<1>6. ASSUME NEW p \in Process, FetchFails(p) PROVE TypeOK'
  BY <1>6 DEF FetchFails
<1>7. ASSUME NEW p \in Process, Lookup(p) PROVE TypeOK'
  BY <1>7 DEF Lookup
<1>8. ASSUME NEW p \in Process, InsertNode(p) PROVE TypeOK'
  BY <1>8 DEF InsertNode
<1>9. ASSUME NEW p \in Process, ClearNodes(p) PROVE TypeOK'
  BY <1>9 DEF ClearNodes
<1>10. ASSUME NEW p \in Process, ClearUnlock(p) PROVE TypeOK'
  BY <1>10 DEF ClearUnlock
<1>11. ASSUME NEW p \in Process, Probe(p) PROVE TypeOK'
  BY <1>11 DEF Probe
<1>12. ASSUME NEW p \in Process, SaveUpdate(p) PROVE TypeOK'
  BY <1>12, ConfigType DEF SaveUpdate, AfterSave
<1>13. ASSUME NEW p \in Process, SaveInsert(p) PROVE TypeOK'
  BY <1>13, ConfigType DEF SaveInsert, AfterSave
<1>14. ASSUME NEW p \in Process, SaveFails(p) PROVE TypeOK'
  BY <1>14 DEF SaveFails
<1>15. ASSUME NEW p \in Process, Unlock(p) PROVE TypeOK'
  BY <1>15 DEF Unlock
<1>16. ASSUME NEW p \in Process, NextItem(p) PROVE TypeOK'
  BY <1>16 DEF NextItem
<1>17. ASSUME NEW p \in Process, End(p) PROVE TypeOK'
  BY <1>17 DEF End
<1>18. ASSUME NEW p \in Process, Die(p) PROVE TypeOK'
  BY <1>18 DEF Die
<1>19. ASSUME NEW p \in Process, Outlive(p) PROVE TypeOK'
  BY <1>19 DEF Outlive
<1>20. CASE Edit
  BY <1>20 DEF Edit, Url
<1>21. CASE DeleteFeed
  BY <1>21 DEF DeleteFeed
<1>22. CASE Expire
  BY <1>22 DEF Expire
<1>23. CASE UNCHANGED vars
  BY <1>23 DEF vars
<1> QED
  BY <1>1, <1>2, <1>3, <1>4, <1>5, <1>6, <1>7, <1>8, <1>9, <1>10, <1>11, <1>12, <1>13, <1>14, <1>15, <1>16, <1>17, <1>18, <1>19, <1>20, <1>21, <1>22, <1>23 DEF Next, Start, Continue

LEMMA UrlStep == TypeOK /\ url >= 1 /\ [Next]_vars => (url >= 1)'
<1> SUFFICES ASSUME TypeOK, url >= 1, [Next]_vars PROVE (url >= 1)'
  OBVIOUS
<1> USE FeedsAssumption DEF tables, history, Goto, Free, Config
<1>1. ASSUME NEW p \in Process, StartWorker(p) PROVE (url >= 1)'
  BY <1>1 DEF StartWorker
<1>2. ASSUME NEW p \in Process, StartBatch(p) \/ StartUnlock(p) PROVE (url >= 1)'
  BY <1>2 DEF StartBatch, StartUnlock
<1>3. ASSUME NEW p \in Process, Load(p) \/ Open(p) PROVE (url >= 1)'
  BY <1>3 DEF Load, Open
<1>4. ASSUME NEW p \in Process, AcquireLock(p) PROVE (url >= 1)'
  BY <1>4 DEF AcquireLock
<1>5. ASSUME NEW p \in Process, LockRefused(p) PROVE (url >= 1)'
  BY <1>5 DEF LockRefused
<1>6. ASSUME NEW p \in Process, FetchFails(p) PROVE (url >= 1)'
  BY <1>6 DEF FetchFails
<1>7. ASSUME NEW p \in Process, Lookup(p) PROVE (url >= 1)'
  BY <1>7 DEF Lookup
<1>8. ASSUME NEW p \in Process, InsertNode(p) PROVE (url >= 1)'
  BY <1>8 DEF InsertNode
<1>9. ASSUME NEW p \in Process, ClearNodes(p) PROVE (url >= 1)'
  BY <1>9 DEF ClearNodes
<1>10. ASSUME NEW p \in Process, ClearUnlock(p) PROVE (url >= 1)'
  BY <1>10 DEF ClearUnlock
<1>11. ASSUME NEW p \in Process, Probe(p) PROVE (url >= 1)'
  BY <1>11 DEF Probe
<1>12. ASSUME NEW p \in Process, SaveUpdate(p) PROVE (url >= 1)'
  BY <1>12 DEF SaveUpdate
<1>13. ASSUME NEW p \in Process, SaveInsert(p) PROVE (url >= 1)'
  BY <1>13 DEF SaveInsert
<1>14. ASSUME NEW p \in Process, SaveFails(p) PROVE (url >= 1)'
  BY <1>14 DEF SaveFails
<1>15. ASSUME NEW p \in Process, Unlock(p) PROVE (url >= 1)'
  BY <1>15 DEF Unlock
<1>16. ASSUME NEW p \in Process, NextItem(p) PROVE (url >= 1)'
  BY <1>16 DEF NextItem
<1>17. ASSUME NEW p \in Process, End(p) PROVE (url >= 1)'
  BY <1>17 DEF End
<1>18. ASSUME NEW p \in Process, Die(p) PROVE (url >= 1)'
  BY <1>18 DEF Die
<1>19. ASSUME NEW p \in Process, Outlive(p) PROVE (url >= 1)'
  BY <1>19 DEF Outlive
<1>20. CASE Edit
  BY <1>20 DEF Edit, TypeOK, Url
<1>21. CASE DeleteFeed
  BY <1>21 DEF DeleteFeed
<1>22. CASE Expire
  BY <1>22 DEF Expire
<1>23. CASE UNCHANGED vars
  BY <1>23 DEF vars
<1> QED
  BY <1>1, <1>2, <1>3, <1>4, <1>5, <1>6, <1>7, <1>8, <1>9, <1>10, <1>11, <1>12, <1>13, <1>14, <1>15, <1>16, <1>17, <1>18, <1>19, <1>20, <1>21, <1>22, <1>23 DEF Next, Start, Continue

(* A lookup and its insert are alone between two answers of lock_acquire(). *)
LEMMA ImportStep == TypeOK /\ Locked /\ InsertsFirst /\ ImportedOnce /\ [Next]_vars => (Locked /\ InsertsFirst /\ ImportedOnce)'
<1> SUFFICES ASSUME TypeOK, Locked, InsertsFirst, ImportedOnce, [Next]_vars PROVE (Locked /\ InsertsFirst /\ ImportedOnce)'
  OBVIOUS
<1> USE FeedsAssumption DEF tables, history, Goto, Free, Config, TypeOK, Locked, InsertsFirst, ImportedOnce
<1>1. ASSUME NEW p \in Process, StartWorker(p) PROVE (Locked /\ InsertsFirst /\ ImportedOnce)'
  BY <1>1 DEF StartWorker
<1>2. ASSUME NEW p \in Process, StartBatch(p) \/ StartUnlock(p) PROVE (Locked /\ InsertsFirst /\ ImportedOnce)'
  BY <1>2 DEF StartBatch, StartUnlock
<1>3. ASSUME NEW p \in Process, Load(p) \/ Open(p) PROVE (Locked /\ InsertsFirst /\ ImportedOnce)'
  BY <1>3 DEF Load, Open
<1>4. ASSUME NEW p \in Process, AcquireLock(p) PROVE (Locked /\ InsertsFirst /\ ImportedOnce)'
  BY <1>4 DEF AcquireLock
<1>5. ASSUME NEW p \in Process, LockRefused(p) PROVE (Locked /\ InsertsFirst /\ ImportedOnce)'
  BY <1>5 DEF LockRefused
<1>6. ASSUME NEW p \in Process, FetchFails(p) PROVE (Locked /\ InsertsFirst /\ ImportedOnce)'
  BY <1>6 DEF FetchFails
<1>7. ASSUME NEW p \in Process, Lookup(p) PROVE (Locked /\ InsertsFirst /\ ImportedOnce)'
  BY <1>7 DEF Lookup
<1>8. ASSUME NEW p \in Process, InsertNode(p) PROVE (Locked /\ InsertsFirst /\ ImportedOnce)'
  BY <1>8 DEF InsertNode
<1>9. ASSUME NEW p \in Process, ClearNodes(p) PROVE (Locked /\ InsertsFirst /\ ImportedOnce)'
  BY <1>9 DEF ClearNodes
<1>10. ASSUME NEW p \in Process, ClearUnlock(p) PROVE (Locked /\ InsertsFirst /\ ImportedOnce)'
  BY <1>10 DEF ClearUnlock
<1>11. ASSUME NEW p \in Process, Probe(p) PROVE (Locked /\ InsertsFirst /\ ImportedOnce)'
  BY <1>11 DEF Probe
<1>12. ASSUME NEW p \in Process, SaveUpdate(p) PROVE (Locked /\ InsertsFirst /\ ImportedOnce)'
  BY <1>12 DEF SaveUpdate, AfterSave
<1>13. ASSUME NEW p \in Process, SaveInsert(p) PROVE (Locked /\ InsertsFirst /\ ImportedOnce)'
  BY <1>13 DEF SaveInsert, AfterSave
<1>14. ASSUME NEW p \in Process, SaveFails(p) PROVE (Locked /\ InsertsFirst /\ ImportedOnce)'
  BY <1>14 DEF SaveFails
<1>15. ASSUME NEW p \in Process, Unlock(p) PROVE (Locked /\ InsertsFirst /\ ImportedOnce)'
  BY <1>15 DEF Unlock
<1>16. ASSUME NEW p \in Process, NextItem(p) PROVE (Locked /\ InsertsFirst /\ ImportedOnce)'
  BY <1>16 DEF NextItem
<1>17. ASSUME NEW p \in Process, End(p) PROVE (Locked /\ InsertsFirst /\ ImportedOnce)'
  BY <1>17 DEF End
<1>18. ASSUME NEW p \in Process, Die(p) PROVE (Locked /\ InsertsFirst /\ ImportedOnce)'
  BY <1>18 DEF Die
<1>19. ASSUME NEW p \in Process, Outlive(p) PROVE (Locked /\ InsertsFirst /\ ImportedOnce)'
  BY <1>19 DEF Outlive
<1>20. CASE Edit
  BY <1>20 DEF Edit
<1>21. CASE DeleteFeed
  BY <1>21 DEF DeleteFeed
<1>22. CASE Expire
  BY <1>22 DEF Expire
<1>23. CASE UNCHANGED vars
  BY <1>23 DEF vars
<1> QED
  BY <1>1, <1>2, <1>3, <1>4, <1>5, <1>6, <1>7, <1>8, <1>9, <1>10, <1>11, <1>12, <1>13, <1>14, <1>15, <1>16, <1>17, <1>18, <1>19, <1>20, <1>21, <1>22, <1>23 DEF Next, Start, Continue

LEMMA BareStep == TypeOK /\ Bare /\ [Next]_vars => Bare'
<1> SUFFICES ASSUME TypeOK, Bare, [Next]_vars PROVE Bare'
  OBVIOUS
<1> USE FeedsAssumption DEF tables, history, Goto, Free, Config, TypeOK, Bare
<1>1. ASSUME NEW p \in Process, StartWorker(p) PROVE Bare'
  BY <1>1 DEF StartWorker
<1>2. ASSUME NEW p \in Process, StartBatch(p) \/ StartUnlock(p) PROVE Bare'
  BY <1>2 DEF StartBatch, StartUnlock
<1>3. ASSUME NEW p \in Process, Load(p) \/ Open(p) PROVE Bare'
  <2>1. CASE Load(p)
    BY <2>1 DEF Load, Url
  <2>2. CASE Open(p)
    BY <2>2 DEF Open, Url
  <2> QED
    BY <1>3, <2>1, <2>2
<1>4. ASSUME NEW p \in Process, AcquireLock(p) PROVE Bare'
  BY <1>4 DEF AcquireLock
<1>5. ASSUME NEW p \in Process, LockRefused(p) PROVE Bare'
  BY <1>5 DEF LockRefused
<1>6. ASSUME NEW p \in Process, FetchFails(p) PROVE Bare'
  BY <1>6 DEF FetchFails
<1>7. ASSUME NEW p \in Process, Lookup(p) PROVE Bare'
  BY <1>7 DEF Lookup
<1>8. ASSUME NEW p \in Process, InsertNode(p) PROVE Bare'
  BY <1>8 DEF InsertNode
<1>9. ASSUME NEW p \in Process, ClearNodes(p) PROVE Bare'
  BY <1>9 DEF ClearNodes
<1>10. ASSUME NEW p \in Process, ClearUnlock(p) PROVE Bare'
  BY <1>10 DEF ClearUnlock
<1>11. ASSUME NEW p \in Process, Probe(p) PROVE Bare'
  BY <1>11 DEF Probe
<1>12. ASSUME NEW p \in Process, SaveUpdate(p) PROVE Bare'
  BY <1>12 DEF SaveUpdate, AfterSave
<1>13. ASSUME NEW p \in Process, SaveInsert(p) PROVE Bare'
  BY <1>13 DEF SaveInsert, AfterSave
<1>14. ASSUME NEW p \in Process, SaveFails(p) PROVE Bare'
  BY <1>14 DEF SaveFails
<1>15. ASSUME NEW p \in Process, Unlock(p) PROVE Bare'
  BY <1>15 DEF Unlock
<1>16. ASSUME NEW p \in Process, NextItem(p) PROVE Bare'
  BY <1>16 DEF NextItem
<1>17. ASSUME NEW p \in Process, End(p) PROVE Bare'
  BY <1>17 DEF End
<1>18. ASSUME NEW p \in Process, Die(p) PROVE Bare'
  BY <1>18 DEF Die
<1>19. ASSUME NEW p \in Process, Outlive(p) PROVE Bare'
  BY <1>19 DEF Outlive
<1>20. CASE Edit
  BY <1>20 DEF Edit
<1>21. CASE DeleteFeed
  BY <1>21 DEF DeleteFeed
<1>22. CASE Expire
  BY <1>22 DEF Expire
<1>23. CASE UNCHANGED vars
  BY <1>23 DEF vars
<1> QED
  BY <1>1, <1>2, <1>3, <1>4, <1>5, <1>6, <1>7, <1>8, <1>9, <1>10, <1>11, <1>12, <1>13, <1>14, <1>15, <1>16, <1>17, <1>18, <1>19, <1>20, <1>21, <1>22, <1>23 DEF Next, Start, Continue

(* A request that reads and writes the source between two edits writes the     *)
(* address of the first.                                                       *)
LEMMA FreshStep == TypeOK /\ url >= 1 /\ Bare /\ Fresh /\ [Next]_vars => Fresh'
<1> SUFFICES ASSUME TypeOK, url >= 1, Bare, Fresh, [Next]_vars PROVE Fresh'
  OBVIOUS
<1> USE FeedsAssumption DEF tables, history, Goto, Free, Config, TypeOK, Fresh
<1>1. ASSUME NEW p \in Process, StartWorker(p) PROVE Fresh'
  BY <1>1 DEF StartWorker
<1>2. ASSUME NEW p \in Process, StartBatch(p) \/ StartUnlock(p) PROVE Fresh'
  BY <1>2 DEF StartBatch, StartUnlock
<1>3. ASSUME NEW p \in Process, Load(p) \/ Open(p) PROVE Fresh'
  <2>1. feed /\ ~overtaken => source # None
    OBVIOUS
  <2>2. loaded' = [loaded EXCEPT ![p] = IF source = None THEN NoRow ELSE source]
    BY <1>3 DEF Load, Open
  <2>3. UNCHANGED <<feed, source, url, overtaken>>
    BY <1>3 DEF Load, Open
  <2> QED
    BY <2>1, <2>2, <2>3
<1>4. ASSUME NEW p \in Process, AcquireLock(p) PROVE Fresh'
  BY <1>4 DEF AcquireLock
<1>5. ASSUME NEW p \in Process, LockRefused(p) PROVE Fresh'
  BY <1>5 DEF LockRefused
<1>6. ASSUME NEW p \in Process, FetchFails(p) PROVE Fresh'
  BY <1>6 DEF FetchFails
<1>7. ASSUME NEW p \in Process, Lookup(p) PROVE Fresh'
  BY <1>7 DEF Lookup
<1>8. ASSUME NEW p \in Process, InsertNode(p) PROVE Fresh'
  BY <1>8 DEF InsertNode
<1>9. ASSUME NEW p \in Process, ClearNodes(p) PROVE Fresh'
  BY <1>9 DEF ClearNodes
<1>10. ASSUME NEW p \in Process, ClearUnlock(p) PROVE Fresh'
  BY <1>10 DEF ClearUnlock
<1>11. ASSUME NEW p \in Process, Probe(p) PROVE Fresh'
  BY <1>11 DEF Probe
<1>12. ASSUME NEW p \in Process, SaveUpdate(p) PROVE Fresh'
  BY <1>12 DEF SaveUpdate, AfterSave, Bare
<1>13. ASSUME NEW p \in Process, SaveInsert(p) PROVE Fresh'
  BY <1>13 DEF SaveInsert, AfterSave, Url
<1>14. ASSUME NEW p \in Process, SaveFails(p) PROVE Fresh'
  BY <1>14 DEF SaveFails
<1>15. ASSUME NEW p \in Process, Unlock(p) PROVE Fresh'
  BY <1>15 DEF Unlock
<1>16. ASSUME NEW p \in Process, NextItem(p) PROVE Fresh'
  BY <1>16 DEF NextItem
<1>17. ASSUME NEW p \in Process, End(p) PROVE Fresh'
  BY <1>17 DEF End
<1>18. ASSUME NEW p \in Process, Die(p) PROVE Fresh'
  BY <1>18 DEF Die
<1>19. ASSUME NEW p \in Process, Outlive(p) PROVE Fresh'
  BY <1>19 DEF Outlive
<1>20. CASE Edit
  BY <1>20 DEF Edit, InHand, Bare
<1>21. CASE DeleteFeed
  BY <1>21 DEF DeleteFeed
<1>22. CASE Expire
  BY <1>22 DEF Expire
<1>23. CASE UNCHANGED vars
  BY <1>23 DEF vars
<1> QED
  BY <1>1, <1>2, <1>3, <1>4, <1>5, <1>6, <1>7, <1>8, <1>9, <1>10, <1>11, <1>12, <1>13, <1>14, <1>15, <1>16, <1>17, <1>18, <1>19, <1>20, <1>21, <1>22, <1>23 DEF Next, Start, Continue

(* existing() keeps every request that comes after the deletion from save().   *)
LEMMA GoneStep == TypeOK /\ Bare /\ Gone /\ [Next]_vars => Gone'
<1> SUFFICES ASSUME TypeOK, Bare, Gone, [Next]_vars PROVE Gone'
  OBVIOUS
<1> USE FeedsAssumption DEF tables, history, Goto, Free, Config, TypeOK, Gone
<1>1. ASSUME NEW p \in Process, StartWorker(p) PROVE Gone'
  BY <1>1 DEF StartWorker
<1>2. ASSUME NEW p \in Process, StartBatch(p) \/ StartUnlock(p) PROVE Gone'
  BY <1>2 DEF StartBatch, StartUnlock
<1>3. ASSUME NEW p \in Process, Load(p) \/ Open(p) PROVE Gone'
  BY <1>3 DEF Load, Open
<1>4. ASSUME NEW p \in Process, AcquireLock(p) PROVE Gone'
  BY <1>4 DEF AcquireLock
<1>5. ASSUME NEW p \in Process, LockRefused(p) PROVE Gone'
  BY <1>5 DEF LockRefused
<1>6. ASSUME NEW p \in Process, FetchFails(p) PROVE Gone'
  BY <1>6 DEF FetchFails
<1>7. ASSUME NEW p \in Process, Lookup(p) PROVE Gone'
  BY <1>7 DEF Lookup
<1>8. ASSUME NEW p \in Process, InsertNode(p) PROVE Gone'
  BY <1>8 DEF InsertNode
<1>9. ASSUME NEW p \in Process, ClearNodes(p) PROVE Gone'
  BY <1>9 DEF ClearNodes
<1>10. ASSUME NEW p \in Process, ClearUnlock(p) PROVE Gone'
  BY <1>10 DEF ClearUnlock
<1>11. ASSUME NEW p \in Process, Probe(p) PROVE Gone'
  BY <1>11 DEF Probe
<1>12. ASSUME NEW p \in Process, SaveUpdate(p) PROVE Gone'
  BY <1>12 DEF SaveUpdate, AfterSave
<1>13. ASSUME NEW p \in Process, SaveInsert(p) PROVE Gone'
  BY <1>13 DEF SaveInsert, AfterSave, Bare
<1>14. ASSUME NEW p \in Process, SaveFails(p) PROVE Gone'
  BY <1>14 DEF SaveFails
<1>15. ASSUME NEW p \in Process, Unlock(p) PROVE Gone'
  BY <1>15 DEF Unlock
<1>16. ASSUME NEW p \in Process, NextItem(p) PROVE Gone'
  BY <1>16 DEF NextItem, Bare
<1>17. ASSUME NEW p \in Process, End(p) PROVE Gone'
  BY <1>17 DEF End
<1>18. ASSUME NEW p \in Process, Die(p) PROVE Gone'
  BY <1>18 DEF Die
<1>19. ASSUME NEW p \in Process, Outlive(p) PROVE Gone'
  BY <1>19 DEF Outlive
<1>20. CASE Edit
  BY <1>20 DEF Edit
<1>21. CASE DeleteFeed
  BY <1>21 DEF DeleteFeed, InHand, Bare
<1>22. CASE Expire
  BY <1>22 DEF Expire
<1>23. CASE UNCHANGED vars
  BY <1>23 DEF vars
<1> QED
  BY <1>1, <1>2, <1>3, <1>4, <1>5, <1>6, <1>7, <1>8, <1>9, <1>10, <1>11, <1>12, <1>13, <1>14, <1>15, <1>16, <1>17, <1>18, <1>19, <1>20, <1>21, <1>22, <1>23 DEF Next, Start, Continue

LEMMA StepIInv == IInv /\ [Next]_vars => IInv'
<1> SUFFICES ASSUME IInv, [Next]_vars PROVE IInv'
  OBVIOUS
<1>1. TypeOK /\ url >= 1 /\ Locked /\ InsertsFirst /\ ImportedOnce /\ Bare /\ Fresh /\ Gone
  BY DEF IInv
<1>2. TypeOK' /\ (url >= 1)'
  BY <1>1, TypeStep, UrlStep
<1>3. (Locked /\ InsertsFirst /\ ImportedOnce)'
  BY <1>1, ImportStep
<1>4. Bare' /\ Fresh' /\ Gone'
  BY <1>1, BareStep, FreshStep, GoneStep
<1> QED
  BY <1>2, <1>3, <1>4 DEF IInv

(* What each request may rely on at each statement holds in every state. *)
THEOREM InductiveInvariant == Spec => []IInv
<1> QED
  BY InitIInv, StepIInv, PTL DEF Spec

(* The tables, the lock and the requests of feeds have their types. *)
THEOREM TypeCorrect == Spec => []TypeOK
<1>1. IInv => TypeOK
  BY DEF IInv
<1> QED
  BY <1>1, InductiveInvariant, PTL

(* FeedsProcessor::process() makes two nodes of one entry only behind the back *)
(* of a request that outlived the lock of the source, however many there are.  *)
THEOREM EntriesImportedOnce == Spec => []ImportedOnce
<1>1. IInv => ImportedOnce
  BY DEF IInv
<1> QED
  BY <1>1, InductiveInvariant, PTL

(* A source left without its feed node was written back by a request that had  *)
(* it in hand when feeds_node_delete() ran.                                    *)
THEOREM OrphansComeFromSaves == Spec => []OrphansWereInHand
<1>1. IInv => OrphansWereInHand
  BY DEF IInv, Gone, OrphansWereInHand
<1> QED
  BY <1>1, InductiveInvariant, PTL

(* Only a request that had read the old address undoes feeds_node_update().    *)
THEOREM EditsAreKept == Spec => []EditsStay
<1>1. IInv => EditsStay
  BY DEF IInv, Fresh, EditsStay
<1> QED
  BY <1>1, InductiveInvariant, PTL

==============================================================================
