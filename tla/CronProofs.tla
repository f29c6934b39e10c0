------------------------------ MODULE CronProofs ------------------------------
(* Theorems about two components that cron drives, which share nothing else:   *)
(* about DrupalCheck, for any number of nodes, users, sites per run and        *)
(* deaths, and about JobScheduler, for any number of processes, rows, items. *)
EXTENDS DrupalCheck, JobScheduler, FiniteSetTheorems, TLAPS

-----------------------------------------------------------------------------
(* DrupalCheck *)

LEMMA NoRunTyped == cron = NoRun => RunTyped
<1> SUFFICES ASSUME cron = NoRun PROVE RunTyped
  OBVIOUS
<1>1. 1 \in Time /\ <<>> \in Seq(Node) /\ Len(<<>>) = 0
  BY DrupalCheckAssumption DEF Time
<1>2. cron.pc = "idle" /\ cron.todo = <<>> /\ cron.url = None
  BY DEF NoRun
<1>3. cron \in Run
  BY <1>1 DEF NoRun, Run
<1> QED
  BY <1>1, <1>2, <1>3, DrupalCheckAssumption DEF RunTyped

LEMMA PrimedNoRun == cron' = NoRun => RunTyped'
<1> SUFFICES ASSUME cron' = NoRun PROVE RunTyped'
  OBVIOUS
<1>1. 1 \in Time /\ <<>> \in Seq(Node) /\ Len(<<>>) = 0
  BY DrupalCheckAssumption DEF Time
<1>2. cron'.pc = "idle" /\ cron'.todo = <<>> /\ cron'.url = None
  BY DEF NoRun
<1>3. cron' \in Run
  BY <1>1 DEF NoRun, Run
<1> QED
  BY <1>1, <1>2, <1>3, DrupalCheckAssumption DEF RunTyped

LEMMA LoadingTyped ==
  ASSUME NEW s \in Seq(Node), Len(s) <= MaxSites, s # <<>>, NEW time \in Time,
         cron' = [pc |-> "load", time |-> time, todo |-> s, url |-> None]
  PROVE  RunTyped'
<1>1. cron' \in Run
  BY DEF Run
<1>2. cron'.pc = "load" /\ cron'.todo = s /\ cron'.url = None
  OBVIOUS
<1> QED
  BY <1>1, <1>2 DEF RunTyped

(* What the steps of a user are known by. *)
LEMMA RequestKinds ==
  ASSUME NEW r \in Request
  PROVE  /\ r.pc = "form" => r \in FormRow
         /\ r.pc = "store" => r \in StoreRow
BY DEF Request, IdleRow, FormRow, StoreRow

LEMMA SavedTyped ==
  ASSUME TablesTyped, NEW n \in Node, NEW status \in {0, 1}, NEW url \in Url, NEW time \in Time
  PROVE  Saved(n, status, url, time) \in [Node -> NodeRow \cup {None}]
<1>1. [status |-> status, url |-> url, changed |-> time] \in NodeRow
  BY DEF NodeRow
<1> QED
  BY <1>1 DEF Saved, TablesTyped

LEMMA OutdatedTyped ==
  ASSUME editor \in [Editor -> Request], NEW n \in Node
  PROVE  Outdated(n) \in [Editor -> Request]
<1> SUFFICES ASSUME NEW u \in Editor, editor[u].pc = "form"
             PROVE  [editor[u] EXCEPT !.fresh = FALSE] \in Request
  BY DEF Outdated
<1>1. editor[u] \in FormRow
  BY RequestKinds
<1>2. [editor[u] EXCEPT !.fresh = FALSE] \in FormRow
  BY <1>1 DEF FormRow
<1> QED
  BY <1>2 DEF Request

LEMMA InitIInv == Init => IInv
<1> SUFFICES ASSUME Init PROVE IInv
  OBVIOUS
<1> USE DrupalCheckAssumption, NoRowAssumption
<1>1. TypeOK
  <2>1. /\ now \in Time /\ lastid \in 0..MaxNodes /\ 1 \in Time
        /\ 0 \in 0..MaxDeaths /\ 0 \in 0..MaxEdits
    BY DEF Init, Time
  <2>2. node \in [Node -> NodeRow \cup {None}]
    BY <2>1 DEF Init, NodeRow
  <2>3. /\ check \in [Node -> CheckRow \cup {None}]
        /\ given \in [Node -> Url \cup {None}] /\ passed \in [Node -> Url \cup {None}]
        /\ unjudged \subseteq Node /\ disturbed \in BOOLEAN
    BY DEF Init
  <2>4. RunTyped
    BY NoRunTyped DEF Init
  <2>5. editor \in [Editor -> Request]
    BY DEF Init, Request, IdleRow, Idle
  <2>6. late \subseteq Node /\ deaths \in 0..MaxDeaths /\ edits \in 0..MaxEdits
    BY <2>1 DEF Init
  <2> QED
    BY <2>1, <2>2, <2>3, <2>4, <2>5, <2>6 DEF TypeOK, TablesTyped
<1>2. KnownNodes /\ LoadedIsTrue
  BY DEF Init, KnownNodes, LoadedIsTrue, InHand, NoRun
<1>3. LinksAsJudged
  <2>1. \A n \in Node : node[n] # None =>
           node[n] = [status |-> 1, url |-> OldUrl, changed |-> 1] /\ given[n] = OldUrl
    BY DEF Init
  <2>2. unjudged = Node
    BY DEF Init
  <2> QED
    BY <2>1, <2>2 DEF LinksAsJudged, EditsStand, PublishedAsFound
<1>4. GoneInHand /\ OrphansWereInHand
  BY DEF Init, GoneInHand, InHand, NoRun, OrphansWereInHand
<1> QED
  BY <1>1, <1>2, <1>3, <1>4 DEF IInv

LEMMA TablesStep == TypeOK /\ [Next]_vars => TablesTyped'
<1> SUFFICES ASSUME TypeOK, [Next]_vars PROVE TablesTyped'
  OBVIOUS
<1> USE DrupalCheckAssumption, NoRowAssumption DEF tables, history, judgement, bounds, Counted, TypeOK, TablesTyped
<1>1. CASE CronStart
  BY <1>1 DEF CronStart, NoRun
<1>2. CASE CronLoad
  BY <1>2 DEF CronLoad, Loaded
<1>3. CASE CronLoadsNothing
  BY <1>3 DEF CronLoadsNothing, NoRun
<1>4. CASE CronSave
  <2> DEFINE n == Head(cron.todo)
  <2>1. n \in Node /\ cron.url \in Url /\ cron.time \in Time
    BY <1>4 DEF CronSave, RunTyped, Run
  <2>2. node' \in [Node -> NodeRow \cup {None}]
    BY <1>4, <2>1, SavedTyped DEF CronSave
  <2>3. given' \in [Node -> Url \cup {None}]
    BY <1>4, <2>1 DEF CronSave
  <2> QED
    BY <1>4, <2>2, <2>3 DEF CronSave
<1>0. CASE CronSaveFails
  BY <1>0 DEF CronSaveFails, NoRun
<1>5. CASE CronMerge
  <2>1. cron.time \in CheckRow /\ cron.url \in Url \cup {None}
    BY DEF RunTyped, Run, CheckRow
  <2>2. passed' \in [Node -> Url \cup {None}] /\ unjudged' \subseteq Node /\ disturbed' \in BOOLEAN
    BY <1>5, <2>1 DEF CronMerge, Judged
  <2> QED
    BY <1>5, <2>1, <2>2 DEF CronMerge
<1>6. ASSUME NEW isdrupal \in {0, 1}, CronRequest(isdrupal) PROVE TablesTyped'
  BY <1>6 DEF CronRequest
<1>7. CASE CronDies
  BY <1>7 DEF CronDies, NoRun
<1>8. ASSUME NEW url \in Url, Create(url) PROVE TablesTyped'
  <2>1. lastid' \in 0..MaxNodes /\ lastid' \in Node
    BY <1>8 DEF Create, Node
  <2>2. [status |-> 1, url |-> url, changed |-> now] \in NodeRow
    BY DEF NodeRow
  <2>3. /\ node' \in [Node -> NodeRow \cup {None}] /\ check' \in [Node -> CheckRow \cup {None}]
        /\ given' \in [Node -> Url \cup {None}]
    BY <1>8, <2>1, <2>2 DEF Create, CheckRow
  <2> QED
    BY <1>8, <2>1, <2>3 DEF Create
<1>9. ASSUME NEW u \in Editor, NEW n \in Node, Open(u, n) PROVE TablesTyped'
  BY <1>9 DEF Open, Idle
<1>10. ASSUME NEW u \in Editor, NEW n \in Node, Unpublish(u, n) PROVE TablesTyped'
  BY <1>10 DEF Unpublish, Idle
<1>11. ASSUME NEW u \in Editor, NEW url \in Url, NEW status \in {0, 1}, Submit(u, url, status) PROVE TablesTyped'
  BY <1>11 DEF Submit
<1>12. ASSUME NEW u \in Editor, Abandon(u) PROVE TablesTyped'
  BY <1>12 DEF Abandon, Idle
<1>13. ASSUME NEW u \in Editor, Store(u) PROVE TablesTyped'
  <2>1. editor[u] \in StoreRow
    BY <1>13, RequestKinds DEF Store
  <2>2. node' \in [Node -> NodeRow \cup {None}]
    BY <1>13, <2>1, SavedTyped DEF Store, StoreRow
  <2>3. /\ given' \in [Node -> Url \cup {None}] /\ passed' \in [Node -> Url \cup {None}]
        /\ unjudged' \subseteq Node /\ disturbed' \in BOOLEAN
    BY <1>13, <2>1 DEF Store, StoreRow
  <2> QED
    BY <1>13, <2>2, <2>3 DEF Store
<1>14. ASSUME NEW n \in Node, Delete(n) PROVE TablesTyped'
  BY <1>14 DEF Delete, InHand
<1>15. CASE Tick
  <2>1. now' \in Time
    BY <1>15 DEF Tick, Time
  <2> QED
    BY <1>15, <2>1 DEF Tick
<1>16. CASE UNCHANGED vars
  BY <1>16 DEF vars
<1> QED
  BY <1>0, <1>1, <1>2, <1>3, <1>4, <1>5, <1>6, <1>7, <1>8, <1>9, <1>10, <1>11, <1>12, <1>13, <1>14, <1>15, <1>16 DEF Next, CronStep

LEMMA RunStep == TypeOK /\ [Next]_vars => RunTyped'
<1> SUFFICES ASSUME TypeOK, [Next]_vars PROVE RunTyped'
  OBVIOUS
<1> USE DrupalCheckAssumption, NoRowAssumption DEF tables, history, judgement, bounds, Counted, TypeOK, RunTyped
<1>1. CASE CronStart
  <2> SUFFICES ASSUME NEW s \in SeqOf(Node, MaxSites), s # <<>>,
                       cron' = [NoRun EXCEPT !.pc = "load", !.time = now, !.todo = s]
               PROVE  RunTyped'
    BY <1>1 DEF CronStart
  <2>1. s \in Seq(Node) /\ Len(s) <= MaxSites
    BY DEF SeqOf
  <2>2. cron' = [pc |-> "load", time |-> now, todo |-> s, url |-> None]
    BY DEF NoRun
  <2> QED
    BY <2>1, <2>2, LoadingTyped DEF TablesTyped
<1>2. CASE CronLoad
  <2> DEFINE n == Head(cron.todo)
  <2>1. n \in Node /\ node[n] # None
    BY <1>2 DEF CronLoad, Run
  <2>2. node[n].url \in Url /\ node[n].url # None
    BY <2>1 DEF TablesTyped, NodeRow
  <2>3. cron' \in Run
    BY <1>2, <2>2 DEF CronLoad, Loaded, Run
  <2>4. cron'.pc = "request" /\ cron'.url # None /\ cron'.todo = cron.todo
    BY <1>2, <2>2 DEF CronLoad, Loaded, Run
  <2> QED
    BY <1>2, <2>3, <2>4 DEF CronLoad
<1>0. CASE CronSaveFails
  BY <1>0, PrimedNoRun DEF CronSaveFails
<1>3. CASE CronLoadsNothing
  BY <1>3, PrimedNoRun DEF CronLoadsNothing
<1>4. CASE CronSave
  <2>1. cron' \in Run /\ cron'.todo = cron.todo /\ cron'.pc = "merge" /\ cron'.url = None
    BY <1>4 DEF CronSave, Run
  <2> QED
    BY <1>4, <2>1 DEF CronSave
<1>5. CASE CronMerge
  <2> DEFINE rest == Tail(cron.todo)
  <2>1. rest \in Seq(Node) /\ Len(rest) <= MaxSites
    BY <1>5 DEF CronMerge, Run
  <2>2. CASE rest = <<>>
    <3>1. cron' = NoRun
      BY <1>5, <2>2 DEF CronMerge, Advance
    <3> QED
      BY <3>1, PrimedNoRun
  <2>3. CASE rest # <<>>
    <3>1. cron' = [pc |-> "load", time |-> cron.time, todo |-> rest, url |-> None]
      BY <1>5, <2>3 DEF CronMerge, Advance, NoRun
    <3> QED
      BY <2>1, <2>3, <3>1, LoadingTyped DEF Run
  <2> QED
    BY <2>2, <2>3
<1>6. ASSUME NEW isdrupal \in {0, 1}, CronRequest(isdrupal) PROVE RunTyped'
  <2>1. cron' \in Run /\ cron'.todo = cron.todo
    BY <1>6 DEF CronRequest, Run
  <2>2. cron'.pc \in {"merge", "save"} /\ cron'.url = cron.url
    BY <1>6 DEF CronRequest, Run
  <2> QED
    BY <1>6, <2>1, <2>2 DEF CronRequest
<1>7. CASE CronDies
  BY <1>7, PrimedNoRun DEF CronDies
<1>8. ASSUME NEW url \in Url, Create(url) PROVE RunTyped'
  BY <1>8 DEF Create
<1>9. ASSUME NEW u \in Editor, NEW n \in Node, Open(u, n) PROVE RunTyped'
  BY <1>9 DEF Open, Idle
<1>10. ASSUME NEW u \in Editor, NEW n \in Node, Unpublish(u, n) PROVE RunTyped'
  BY <1>10 DEF Unpublish, Idle
<1>11. ASSUME NEW u \in Editor, NEW url \in Url, NEW status \in {0, 1}, Submit(u, url, status) PROVE RunTyped'
  BY <1>11 DEF Submit
<1>12. ASSUME NEW u \in Editor, Abandon(u) PROVE RunTyped'
  BY <1>12 DEF Abandon, Idle
<1>13. ASSUME NEW u \in Editor, Store(u) PROVE RunTyped'
  BY <1>13 DEF Store, Idle, Saved, Outdated
<1>14. ASSUME NEW n \in Node, Delete(n) PROVE RunTyped'
  BY <1>14 DEF Delete, InHand
<1>15. CASE Tick
  BY <1>15 DEF Tick
<1>16. CASE UNCHANGED vars
  BY <1>16 DEF vars
<1> QED
  BY <1>0, <1>1, <1>2, <1>3, <1>4, <1>5, <1>6, <1>7, <1>8, <1>9, <1>10, <1>11, <1>12, <1>13, <1>14, <1>15, <1>16 DEF Next, CronStep

LEMMA FormsStep == TypeOK /\ [Next]_vars => editor' \in [Editor -> Request]
<1> SUFFICES ASSUME TypeOK, [Next]_vars PROVE editor' \in [Editor -> Request]
  OBVIOUS
<1> USE DrupalCheckAssumption, NoRowAssumption DEF tables, history, judgement, bounds, Counted, TypeOK
<1>0. Idle \in Request
  BY DEF Idle, Request, IdleRow
<1>1. CASE CronStart
  BY <1>1 DEF CronStart, NoRun
<1>2. CASE CronLoad
  BY <1>2 DEF CronLoad, Loaded
<1>3. CASE CronLoadsNothing
  BY <1>3 DEF CronLoadsNothing, NoRun
<1>4. CASE CronSave
  <2>1. Head(cron.todo) \in Node
    BY <1>4 DEF CronSave, RunTyped, Run
  <2> QED
    BY <1>4, <2>1, OutdatedTyped DEF CronSave
<1>5. CASE CronMerge
  BY <1>5 DEF CronMerge, Judged, Advance, NoRun
<1>17. CASE CronSaveFails
  BY <1>17 DEF CronSaveFails
<1>6. ASSUME NEW isdrupal \in {0, 1}, CronRequest(isdrupal) PROVE editor' \in [Editor -> Request]
  BY <1>6 DEF CronRequest
<1>7. CASE CronDies
  BY <1>7 DEF CronDies, NoRun
<1>8. ASSUME NEW url \in Url, Create(url) PROVE editor' \in [Editor -> Request]
  BY <1>8 DEF Create
<1>9. ASSUME NEW u \in Editor, NEW n \in Node, Open(u, n) PROVE editor' \in [Editor -> Request]
  <2>1. node[n].changed \in Time
    BY <1>9 DEF Open, TablesTyped, NodeRow
  <2>2. [pc |-> "form", nid |-> n, changed |-> node[n].changed, time |-> now, fresh |-> TRUE] \in FormRow
    BY <2>1 DEF FormRow, TablesTyped
  <2> QED
    BY <1>9, <2>2 DEF Open, Request
<1>10. ASSUME NEW u \in Editor, NEW n \in Node, Unpublish(u, n) PROVE editor' \in [Editor -> Request]
  <2>1. node[n].url \in Url
    BY <1>10 DEF Unpublish, TablesTyped, NodeRow
  <2>2. [pc |-> "store", nid |-> n, status |-> 0, url |-> node[n].url, time |-> now] \in StoreRow
    BY <2>1 DEF StoreRow, TablesTyped
  <2> QED
    BY <1>10, <2>2 DEF Unpublish, Request
<1>11. ASSUME NEW u \in Editor, NEW url \in Url, NEW status \in {0, 1}, Submit(u, url, status) PROVE editor' \in [Editor -> Request]
  <2>1. editor[u].nid \in Node
    BY <1>11, RequestKinds DEF Submit, FormRow
  <2>2. [pc |-> "store", nid |-> editor[u].nid, status |-> status, url |-> url, time |-> now] \in StoreRow
    BY <2>1 DEF StoreRow, TablesTyped
  <2> QED
    BY <1>11, <2>2 DEF Submit, Request
<1>12. ASSUME NEW u \in Editor, Abandon(u) PROVE editor' \in [Editor -> Request]
  BY <1>0, <1>12 DEF Abandon
<1>13. ASSUME NEW u \in Editor, Store(u) PROVE editor' \in [Editor -> Request]
  <2>1. editor[u].nid \in Node
    BY <1>13, RequestKinds DEF Store, StoreRow
  <2>2. Outdated(editor[u].nid) \in [Editor -> Request]
    BY <2>1, OutdatedTyped
  <2> QED
    BY <1>0, <1>13, <2>2 DEF Store
<1>14. ASSUME NEW n \in Node, Delete(n) PROVE editor' \in [Editor -> Request]
  BY <1>14 DEF Delete, InHand
<1>15. CASE Tick
  BY <1>15 DEF Tick
<1>16. CASE UNCHANGED vars
  BY <1>16 DEF vars
<1> QED
  BY <1>1, <1>2, <1>3, <1>4, <1>5, <1>6, <1>7, <1>8, <1>9, <1>10, <1>11, <1>12, <1>13, <1>14, <1>15, <1>16, <1>17 DEF Next, CronStep

LEMMA TypeStep == TypeOK /\ [Next]_vars => TypeOK'
BY TablesStep, RunStep, FormsStep DEF TypeOK

(* Of the three conjuncts that speak of judgements, what they look at. *)
LEMMA NodesRest ==
  ASSUME KnownNodes, LoadedIsTrue, LinksAsJudged, cron' \in {cron, NoRun},
         UNCHANGED <<lastid, node, judgement>>
  PROVE  KnownNodes' /\ LoadedIsTrue' /\ LinksAsJudged'
BY DEF KnownNodes, LoadedIsTrue, LinksAsJudged, EditsStand, PublishedAsFound, InHand, NoRun, judgement

(* What a save leaves in the table. *)
LEMMA SavedRow ==
  ASSUME TablesTyped, NEW n \in Node, NEW status \in {0, 1}, NEW url \in Url, NEW time \in Time,
         node' = Saved(n, status, url, time)
  PROVE  /\ \A m \in Node : m # n => node'[m] = node[m]
         /\ \A m \in Node : node'[m] # None <=> node[m] # None
         /\ node'[n] # None => node'[n].status = status /\ node'[n].url = url
<1> DEFINE row == [status |-> status, url |-> url, changed |-> time]
<1>1. row \in NodeRow /\ row.status = status /\ row.url = url
  BY DEF NodeRow
<1>2. row # None
  BY <1>1, NoRowAssumption
<1> HIDE DEF row
<1>3. node' = IF node[n] = None THEN node ELSE [node EXCEPT ![n] = row]
  BY DEF Saved, row
<1> QED
  BY <1>1, <1>2, <1>3 DEF TablesTyped

(* What a check knows of a node, and what it leaves behind, stays true under   *)
(* the users' saves.                                                           *)
LEMMA JudgedStep ==
  TypeOK /\ KnownNodes /\ LoadedIsTrue /\ LinksAsJudged /\ [Next]_vars
    => KnownNodes' /\ LoadedIsTrue' /\ LinksAsJudged'
<1> SUFFICES ASSUME TypeOK, KnownNodes, LoadedIsTrue, LinksAsJudged, [Next]_vars
             PROVE  KnownNodes' /\ LoadedIsTrue' /\ LinksAsJudged'
  OBVIOUS
<1> USE DrupalCheckAssumption, NoRowAssumption DEF TypeOK
<1>0. \A n \in Node : n \in Int
  BY DEF Node
<1>1. CASE CronStart
  <2>1. cron'.pc = "load" /\ UNCHANGED <<lastid, node, judgement>>
    BY <1>1 DEF CronStart, NoRun, tables, history
  <2> QED
    BY <2>1 DEF KnownNodes, LoadedIsTrue, LinksAsJudged, EditsStand, PublishedAsFound, InHand, judgement
<1>2. CASE CronLoad
  <2> DEFINE n == Head(cron.todo)
  <2>1. /\ node[n] # None /\ cron'.pc = "request" /\ cron'.todo = cron.todo
        /\ cron'.url = node[n].url
    BY <1>2 DEF CronLoad, Loaded, RunTyped, Run
  <2>2. UNCHANGED <<lastid, node, given, passed, unjudged>>
    BY <1>2 DEF CronLoad, Loaded, tables
  <2>3. \A m \in Node : InHand(m)' => m = n
    BY <2>1 DEF InHand
  <2> QED
    BY <2>1, <2>2, <2>3 DEF KnownNodes, LoadedIsTrue, LinksAsJudged, EditsStand, PublishedAsFound
<1>3. CASE CronLoadsNothing \/ CronSaveFails \/ CronDies
  BY <1>3, NodesRest DEF CronLoadsNothing, CronSaveFails, CronDies, tables, history
<1>4. CASE CronSave
  <2> DEFINE n == Head(cron.todo)
  <2>1. n \in Node /\ cron.url \in Url /\ cron.time \in Time
    BY <1>4 DEF CronSave, RunTyped, Run
  <2>2. /\ \A m \in Node : m # n => node'[m] = node[m]
        /\ \A m \in Node : node'[m] # None <=> node[m] # None
        /\ node'[n] # None => node'[n].status = 0 /\ node'[n].url = cron.url
    BY <1>4, <2>1, SavedRow DEF CronSave
  <2>3. /\ cron'.pc = "merge" /\ cron'.todo = cron.todo /\ cron'.url = None /\ cron.pc = "save"
        /\ UNCHANGED <<lastid, passed, unjudged, disturbed>>
    BY <1>4 DEF CronSave, RunTyped, Run
  <2>4. \A m \in Node : InHand(m)' => m = n /\ InHand(m)
    BY <2>3 DEF InHand
  <2>5. KnownNodes'
    BY <2>2, <2>3, <2>4 DEF KnownNodes
  <2>6. LoadedIsTrue'
    BY <2>2, <2>3, <2>4 DEF LoadedIsTrue
  <2>7. EditsStand'
    <3>1. CASE disturbed
      <4>1. given' = [given EXCEPT ![n] = None]
        BY <1>4, <3>1 DEF CronSave
      <4>2. given'[n] = None /\ \A m \in Node : m # n => given'[m] = given[m]
        BY <2>1, <4>1 DEF TablesTyped
      <4> QED
        BY <2>2, <4>2 DEF LinksAsJudged, EditsStand
    <3>2. CASE ~disturbed
      <4>1. given' = given
        BY <1>4, <3>2 DEF CronSave
      <4>2. node[n] # None => node[n].url = cron.url
        BY <2>1, <2>3, <3>2 DEF LoadedIsTrue, InHand
      <4> QED
        BY <2>1, <2>2, <4>1, <4>2 DEF LinksAsJudged, EditsStand
    <3> QED
      BY <3>1, <3>2
  <2>8. PublishedAsFound'
    BY <2>1, <2>2, <2>3 DEF LinksAsJudged, PublishedAsFound
  <2> QED
    BY <2>5, <2>6, <2>7, <2>8 DEF LinksAsJudged
<1>5. CASE CronMerge
  <2> DEFINE n == Head(cron.todo)
  <2>1. n \in Node /\ InHand(n) /\ cron.pc = "merge"
    BY <1>5 DEF CronMerge, RunTyped, Run, InHand
  <2>2. /\ UNCHANGED <<lastid, node, given>>
        /\ passed' = IF disturbed THEN passed ELSE [passed EXCEPT ![n] = cron.url]
        /\ unjudged' = IF disturbed THEN unjudged ELSE unjudged \ {n}
    BY <1>5 DEF CronMerge, Judged
  <2>3. cron'.pc \in {"idle", "load"}
    BY <1>5 DEF CronMerge, Advance, NoRun
  <2>4. \A m \in Node : ~InHand(m)'
    BY <2>3 DEF InHand
  <2>5. KnownNodes'
    BY <2>1, <2>2, <2>4 DEF KnownNodes
  <2>6. EditsStand' /\ LoadedIsTrue'
    BY <2>2, <2>4 DEF LinksAsJudged, EditsStand, LoadedIsTrue
  <2>7. PublishedAsFound'
    <3>1. CASE disturbed
      BY <2>2, <3>1 DEF LinksAsJudged, PublishedAsFound
    <3>2. CASE ~disturbed
      <4>1. passed'[n] = cron.url /\ \A m \in Node : m # n => passed'[m] = passed[m]
        BY <2>1, <2>2, <3>2 DEF TablesTyped
      <4>2. node[n] # None => node[n].status = 0 \/ node[n].url = cron.url
        BY <2>1, <3>2 DEF LoadedIsTrue
      <4> QED
        BY <2>2, <3>2, <4>1, <4>2 DEF LinksAsJudged, PublishedAsFound
    <3> QED
      BY <3>1, <3>2
  <2> QED
    BY <2>5, <2>6, <2>7 DEF LinksAsJudged
<1>6. ASSUME NEW isdrupal \in {0, 1}, CronRequest(isdrupal)
      PROVE  KnownNodes' /\ LoadedIsTrue' /\ LinksAsJudged'
  <2>1. /\ cron.pc = "request" /\ cron'.pc \in {"merge", "save"} /\ cron'.url = cron.url
        /\ cron'.todo = cron.todo /\ cron.url # None /\ UNCHANGED <<lastid, node, judgement>>
    BY <1>6 DEF CronRequest, RunTyped, Run, tables, history
  <2>2. \A m \in Node : InHand(m)' => InHand(m)
    BY <2>1 DEF InHand
  <2> QED
    BY <2>1, <2>2 DEF KnownNodes, LoadedIsTrue, LinksAsJudged, EditsStand, PublishedAsFound, judgement
<1>7. ASSUME NEW url \in Url, Create(url) PROVE KnownNodes' /\ LoadedIsTrue' /\ LinksAsJudged'
  <2> DEFINE row == [status |-> 1, url |-> url, changed |-> now]
                k == lastid + 1
  <2>1. row # None /\ row.url = url
    BY DEF NodeRow, TablesTyped
  <2>2. lastid' = k /\ k \in Node /\ lastid \in Int
    BY <1>7 DEF Create, Node, TablesTyped
  <2> HIDE DEF row
  <2>3. /\ \A m \in Node : m # k => node'[m] = node[m] /\ given'[m] = given[m]
        /\ node'[k] = row /\ given'[k] = url
    BY <1>7, <2>2 DEF Create, TablesTyped, row
  <2>4. UNCHANGED <<cron, passed, unjudged, disturbed>>
    BY <1>7 DEF Create
  <2>5. k \in unjudged /\ ~InHand(k)
    BY <2>2 DEF KnownNodes
  <2>6. \A m \in Node : InHand(m)' <=> InHand(m)
    BY <2>4 DEF InHand
  <2>7. KnownNodes'
    BY <1>0, <2>2, <2>3, <2>4, <2>6 DEF KnownNodes
  <2>8. LoadedIsTrue'
    BY <2>3, <2>4, <2>5, <2>6 DEF LoadedIsTrue
  <2>9. EditsStand'
    BY <2>1, <2>3 DEF LinksAsJudged, EditsStand
  <2>10. PublishedAsFound'
    BY <2>3, <2>4, <2>5 DEF LinksAsJudged, PublishedAsFound
  <2> QED
    BY <2>7, <2>8, <2>9, <2>10 DEF LinksAsJudged
<1>8. ASSUME NEW u \in Editor, Store(u) PROVE KnownNodes' /\ LoadedIsTrue' /\ LinksAsJudged'
  <2> DEFINE n == editor[u].nid
                url == editor[u].url
  <2>1. editor[u] \in StoreRow
    BY <1>8, RequestKinds DEF Store
  <2>2. n \in Node /\ url \in Url
    BY <2>1 DEF StoreRow
  <2>3. /\ \A m \in Node : m # n => node'[m] = node[m]
        /\ \A m \in Node : node'[m] # None <=> node[m] # None
        /\ node'[n] # None => node'[n].url = url
    BY <1>8, <2>1, <2>2, SavedRow DEF Store, StoreRow
  <2>4. /\ given' = [given EXCEPT ![n] = url] /\ passed' = [passed EXCEPT ![n] = None]
        /\ unjudged' = unjudged \cup {n} /\ disturbed' = (disturbed \/ InHand(n))
        /\ UNCHANGED <<cron, lastid>>
    BY <1>8 DEF Store
  <2> HIDE DEF n, url
  <2>5. /\ given'[n] = url /\ \A m \in Node : m # n => given'[m] = given[m]
        /\ \A m \in Node : m # n => passed'[m] = passed[m]
    BY <2>2, <2>4 DEF TablesTyped
  <2>6. \A m \in Node : InHand(m)' <=> InHand(m)
    BY <2>4 DEF InHand
  <2>7. KnownNodes'
    BY <2>3, <2>4, <2>6 DEF KnownNodes
  <2>8. LoadedIsTrue'
    <3>1. ASSUME NEW m \in Node, InHand(m), ~disturbed', node'[m] # None
          PROVE  m # n /\ ~disturbed /\ node'[m] = node[m]
      BY <2>2, <2>3, <2>4, <3>1 DEF TablesTyped
    <3> QED
      BY <2>4, <2>6, <3>1 DEF LoadedIsTrue
  <2>9. EditsStand'
    BY <2>3, <2>5 DEF LinksAsJudged, EditsStand
  <2>10. PublishedAsFound'
    BY <2>3, <2>4, <2>5 DEF LinksAsJudged, PublishedAsFound
  <2> QED
    BY <2>7, <2>8, <2>9, <2>10 DEF LinksAsJudged
<1>9. ASSUME NEW k \in Node, Delete(k) PROVE KnownNodes' /\ LoadedIsTrue' /\ LinksAsJudged'
  <2>1. /\ \A m \in Node : m # k => node'[m] = node[m]
        /\ node'[k] = None /\ UNCHANGED <<lastid, cron, judgement>>
    BY <1>9 DEF Delete, TablesTyped
  <2>2. \A m \in Node : InHand(m)' <=> InHand(m)
    BY <2>1 DEF InHand
  <2> QED
    BY <2>1, <2>2 DEF KnownNodes, LoadedIsTrue, LinksAsJudged, EditsStand, PublishedAsFound, judgement
<1>10. ASSUME NEW u \in Editor, Abandon(u) PROVE KnownNodes' /\ LoadedIsTrue' /\ LinksAsJudged'
  BY <1>10, NodesRest DEF Abandon, tables, history
<1>11. ASSUME NEW u \in Editor, NEW n \in Node, Open(u, n) \/ Unpublish(u, n)
       PROVE  KnownNodes' /\ LoadedIsTrue' /\ LinksAsJudged'
  BY <1>11, NodesRest DEF Open, Unpublish, tables, history
<1>12. ASSUME NEW u \in Editor, NEW url \in Url, NEW status \in {0, 1}, Submit(u, url, status)
       PROVE  KnownNodes' /\ LoadedIsTrue' /\ LinksAsJudged'
  BY <1>12, NodesRest DEF Submit, tables, history
<1>13. CASE Tick \/ UNCHANGED vars
  BY <1>13, NodesRest DEF Tick, vars, tables, history
<1> QED
  BY <1>1, <1>2, <1>3, <1>4, <1>5, <1>6, <1>7, <1>8, <1>9, <1>10, <1>11, <1>12, <1>13
     DEF Next, CronStep

(* A check has a node in hand that was there, or was deleted since. *)
LEMMA OrphanStep ==
  TypeOK /\ GoneInHand /\ OrphansWereInHand /\ [Next]_vars
    => GoneInHand' /\ OrphansWereInHand'
<1> SUFFICES ASSUME TypeOK, GoneInHand, OrphansWereInHand, [Next]_vars
             PROVE  (GoneInHand /\ OrphansWereInHand)'
  OBVIOUS
<1> USE DrupalCheckAssumption, NoRowAssumption DEF tables, history, judgement, bounds, Counted, TypeOK, TablesTyped, GoneInHand, InHand, OrphansWereInHand
<1>0. \A n \in Node : n \in Int
  BY DEF Node
<1>1. CASE CronStart
  BY <1>1 DEF CronStart, NoRun
<1>2. CASE CronLoad
  BY <1>2 DEF CronLoad, Loaded
<1>3. CASE CronLoadsNothing
  BY <1>3 DEF CronLoadsNothing, NoRun
<1>4. CASE CronSave
  <2> DEFINE n == Head(cron.todo)
                row == [status |-> 0, url |-> cron.url, changed |-> cron.time]
  <2>1. n \in Node /\ cron.url \in Url /\ cron.time \in Time
    BY <1>4 DEF CronSave, RunTyped, Run
  <2>2. row # None
    BY <2>1 DEF NodeRow
  <2>3. \A m \in Node : node'[m] = None => node[m] = None
    BY <1>4, <2>1, <2>2 DEF CronSave, Saved
  <2>4. \A m \in Node : InHand(m)' => InHand(m)
    BY <1>4 DEF CronSave, RunTyped, Run
  <2> QED
    BY <1>4, <2>3, <2>4 DEF CronSave
<1>5. CASE CronMerge
  BY <1>5 DEF CronMerge, Judged, Advance, NoRun
<1>17. CASE CronSaveFails
  BY <1>17 DEF CronSaveFails, NoRun
<1>6. ASSUME NEW isdrupal \in {0, 1}, CronRequest(isdrupal) PROVE (GoneInHand /\ OrphansWereInHand)'
  BY <1>6 DEF CronRequest
<1>7. CASE CronDies
  BY <1>7 DEF CronDies, NoRun
<1>8. ASSUME NEW url \in Url, Create(url) PROVE (GoneInHand /\ OrphansWereInHand)'
  <2>1. lastid' = lastid + 1 /\ lastid' \in Node
    BY <1>8 DEF Create, Node
  <2>2. [status |-> 1, url |-> url, changed |-> now] # None
    BY DEF NodeRow
  <2>3. \A m \in Node : m # lastid' => node'[m] = node[m] /\ check'[m] = check[m]
    BY <1>8, <2>1 DEF Create
  <2>4. node'[lastid'] # None
    BY <1>8, <2>1, <2>2 DEF Create
  <2> QED
    BY <1>0, <1>8, <2>1, <2>3, <2>4 DEF Create
<1>9. ASSUME NEW u \in Editor, NEW n \in Node, Open(u, n) PROVE (GoneInHand /\ OrphansWereInHand)'
  BY <1>9 DEF Open, Idle
<1>10. ASSUME NEW u \in Editor, NEW n \in Node, Unpublish(u, n) PROVE (GoneInHand /\ OrphansWereInHand)'
  BY <1>10 DEF Unpublish, Idle
<1>11. ASSUME NEW u \in Editor, NEW url \in Url, NEW status \in {0, 1}, Submit(u, url, status) PROVE (GoneInHand /\ OrphansWereInHand)'
  BY <1>11 DEF Submit
<1>12. ASSUME NEW u \in Editor, Abandon(u) PROVE (GoneInHand /\ OrphansWereInHand)'
  BY <1>12 DEF Abandon, Idle
<1>13. ASSUME NEW u \in Editor, Store(u) PROVE (GoneInHand /\ OrphansWereInHand)'
  <2> DEFINE n == editor[u].nid
                row == [status |-> editor[u].status, url |-> editor[u].url, changed |-> editor[u].time]
  <2>1. editor[u] \in StoreRow
    BY <1>13, RequestKinds DEF Store
  <2>2. n \in Node /\ row # None
    BY <2>1 DEF StoreRow, NodeRow
  <2>3. \A m \in Node : node'[m] = None => node[m] = None
    BY <1>13, <2>2 DEF Store, Saved
  <2> QED
    BY <1>13, <2>3 DEF Store
<1>14. ASSUME NEW n \in Node, Delete(n) PROVE (GoneInHand /\ OrphansWereInHand)'
  <2>1. \A m \in Node : m # n => node'[m] = node[m] /\ check'[m] = check[m]
    BY <1>14 DEF Delete
  <2>2. check'[n] = None /\ (InHand(n) => n \in late') /\ late \subseteq late'
    BY <1>14 DEF Delete
  <2> QED
    BY <1>14, <2>1, <2>2 DEF Delete
<1>15. CASE Tick
  BY <1>15 DEF Tick
<1>16. CASE UNCHANGED vars
  BY <1>16 DEF vars
<1> QED
  BY <1>1, <1>2, <1>3, <1>4, <1>5, <1>6, <1>7, <1>8, <1>9, <1>10, <1>11, <1>12, <1>13, <1>14, <1>15, <1>16, <1>17 DEF Next, CronStep

LEMMA StepIInv == IInv /\ [Next]_vars => IInv'
BY TypeStep, JudgedStep, OrphanStep DEF IInv

(* The site checker next to its users: what every step may rely on. *)
THEOREM InductiveInvariant == Spec => []IInv
<1>1. Init => IInv
  BY InitIInv
<1>2. IInv /\ [Next]_vars => IInv'
  BY StepIInv
<1> QED
  BY <1>1, <1>2, PTL DEF Spec

(* The tables, the cron run and the forms have their types. *)
THEOREM TypeCorrect == Spec => []TypeOK
<1>1. IInv => TypeOK
  BY DEF IInv
<1> QED
  BY <1>1, InductiveInvariant, PTL

(* A link keeps its users' URL unless cron had it in hand when that was stored, *)
(* and is published only with the URL its last complete check found to run on  *)
(* Drupal, unless a user has saved it since.                                   *)
THEOREM LinksStandAsJudged == Spec => []LinksAsJudged
<1>1. IInv => LinksAsJudged
  BY DEF IInv
<1> QED
  BY <1>1, InductiveInvariant, PTL

(* Rows of {drupalcheck} without a node come from one race only. *)
THEOREM OrphansHaveOneCause == Spec => []OrphansWereInHand
<1>1. IInv => OrphansWereInHand
  BY DEF IInv
<1> QED
  BY <1>1, InductiveInvariant, PTL

-----------------------------------------------------------------------------
(* JobScheduler *)

LEMMA JobsBegin == JobInit => JobIInv
<1> SUFFICES ASSUME JobInit PROVE JobIInv
  OBVIOUS
<1> USE JobAssumption
<1>1. 1 \in Row /\ 0 \in 0..MaxRows /\ 0 \in 0..MaxFaults
  BY DEF Row
<1>2. JobTypeOK
  <2>1. feed \in BOOLEAN /\ source \in BOOLEAN /\ lost \in BOOLEAN
    BY DEF JobInit
  <2>2. jobs \in [Row -> RowState] /\ queue \in [Item -> ItemState]
    BY DEF JobInit, RowState, ItemState
  <2>3. cronLock \in Process \cup {Nobody, Dead}
    BY DEF JobInit
  <2>4. pc \in [Process -> PC] /\ exists \in [Process -> BOOLEAN \cup {Nobody}]
    BY DEF JobInit, PC
  <2>5. item \in [Process -> Item \cup {0}] /\ todo \in [Process -> 0..MaxRows]
    BY <1>1 DEF JobInit
  <2>6. faults \in 0..MaxFaults
    BY <1>1 DEF JobInit
  <2>7. \A p \in Process : pc[p] \notin {"create", "reserve", "catch"}
    BY DEF JobInit
  <2> QED
    BY <2>1, <2>2, <2>3, <2>4, <2>5, <2>6, <2>7 DEF JobTypeOK
<1>3. SourceOfFeed /\ KnownIsTrue
  BY DEF JobInit, SourceOfFeed, KnownIsTrue
<1>4. JobKept
  BY <1>1 DEF JobInit, JobKept, NoJob
<1> QED
  BY <1>2, <1>3, <1>4 DEF JobIInv

(* A cron run has no more jobs in hand than {job_schedule} has rows. *)
LEMMA DueIsBounded ==
  ASSUME JobTypeOK
  PROVE  Cardinality({r \in Row : jobs[r] = "due"}) \in 0..MaxRows
<1> DEFINE DueRows == {r \in Row : jobs[r] = "due"}
<1>1. IsFiniteSet(Row) /\ Cardinality(Row) = MaxRows
  BY JobAssumption, FS_Interval DEF Row
<1>2. DueRows \subseteq Row
  OBVIOUS
<1>3. IsFiniteSet(DueRows) /\ Cardinality(DueRows) <= MaxRows
  BY <1>1, <1>2, FS_Subset
<1>4. Cardinality(DueRows) \in Nat
  BY <1>3, FS_CardinalityType
<1> QED
  BY <1>3, <1>4, JobAssumption

LEMMA JobTypeStep == JobTypeOK /\ [JobNext]_jobVars => JobTypeOK'
<1> SUFFICES ASSUME JobTypeOK, [JobNext]_jobVars PROVE JobTypeOK'
  OBVIOUS
<1> USE JobAssumption DEF jobTables, locals, Goto, AddRow, RemoveRows, NextJob, JobTypeOK,
        RowState, ItemState, PC
<1>1. ASSUME NEW p \in Process, Unstick(p) PROVE JobTypeOK'
  BY <1>1 DEF Unstick
<1>2. ASSUME NEW p \in Process, SelectJobs(p) PROVE JobTypeOK'
  <2> DEFINE due == Cardinality({r \in Row : jobs[r] = "due"})
  <2>1. due \in 0..MaxRows
    BY DueIsBounded
  <2>2. /\ todo' = [todo EXCEPT ![p] = due]
        /\ pc' = [pc EXCEPT ![p] = IF due = 0 THEN "reset" ELSE "create"]
        /\ UNCHANGED <<jobTables, cronLock, exists, item, faults, lost>>
    BY <1>2 DEF SelectJobs
  <2> HIDE DEF due
  <2> QED
    BY <2>1, <2>2
<1>3. ASSUME NEW p \in Process, CreateItem(p) PROVE JobTypeOK'
  BY <1>3 DEF CreateItem
<1>4. ASSUME NEW p \in Process, Catch(p) PROVE JobTypeOK'
  BY <1>4 DEF Catch
<1>5. ASSUME NEW p \in Process, Reserve(p) PROVE JobTypeOK'
  BY <1>5 DEF Reserve
<1>6. ASSUME NEW p \in Process, ResetLeases(p) PROVE JobTypeOK'
  BY <1>6 DEF ResetLeases
<1>7. ASSUME NEW p \in Process, Claim(p) PROVE JobTypeOK'
  BY <1>7 DEF Claim
<1>8. ASSUME NEW p \in Process, Finish(p) PROVE JobTypeOK'
  BY <1>8 DEF Finish
<1>9. ASSUME NEW p \in Process, Drop(p) PROVE JobTypeOK'
  BY <1>9 DEF Drop
<1>10. ASSUME NEW p \in Process, Import(p) PROVE JobTypeOK'
  BY <1>10 DEF Import
<1>11. ASSUME NEW p \in Process, ImportLocked(p) PROVE JobTypeOK'
  BY <1>11 DEF ImportLocked
<1>12. ASSUME NEW p \in Process, RemoveJob(p) PROVE JobTypeOK'
  BY <1>12 DEF RemoveJob
<1>13. ASSUME NEW p \in Process, AddJob(p) PROVE JobTypeOK'
  BY <1>13 DEF AddJob
<1>14. ASSUME NEW p \in Process, DeleteItem(p) PROVE JobTypeOK'
  BY <1>14 DEF DeleteItem
<1>15. ASSUME NEW p \in Process, CronBegins(p) PROVE JobTypeOK'
  BY <1>15 DEF CronBegins
<1>16. ASSUME NEW p \in Process, Die(p) PROVE JobTypeOK'
  BY <1>16 DEF Die, Fault
<1>17. ASSUME NEW p \in Process, DispatchFails(p) PROVE JobTypeOK'
  BY <1>17 DEF DispatchFails, Fault
<1>18. ASSUME NEW p \in Process, HookFails(p) PROVE JobTypeOK'
  BY <1>18 DEF HookFails, Fault
<1>19. ASSUME NEW p \in Process, ResetFails(p) PROVE JobTypeOK'
  BY <1>19 DEF ResetFails, Fault
<1>20. ASSUME NEW p \in Process, WorkerFails(p) PROVE JobTypeOK'
  BY <1>20 DEF WorkerFails, Fault
<1>21. CASE SaveForm
  BY <1>21 DEF SaveForm
<1>22. CASE DeleteFeed
  BY <1>22 DEF DeleteFeed
<1>23. CASE LockTime
  BY <1>23 DEF LockTime
<1>24. ASSUME NEW r \in Row, JobTime(r) PROVE JobTypeOK'
  BY <1>24 DEF JobTime
<1>25. ASSUME NEW i \in Item, LeaseTime(i) PROVE JobTypeOK'
  BY <1>25 DEF LeaseTime
<1>26. CASE UNCHANGED jobVars
  BY <1>26 DEF jobVars
<1> QED
  BY <1>1, <1>2, <1>3, <1>4, <1>5, <1>6, <1>7, <1>8, <1>9, <1>10, <1>11,
     <1>12, <1>13, <1>14, <1>15, <1>16, <1>17, <1>18, <1>19, <1>20, <1>21,
     <1>22, <1>23, <1>24, <1>25, <1>26
     DEF JobNext, Continue, Fail, TimePasses

LEMMA SourceStep == SourceOfFeed /\ [JobNext]_jobVars => SourceOfFeed'
<1> SUFFICES ASSUME SourceOfFeed, [JobNext]_jobVars PROVE SourceOfFeed'
  OBVIOUS
<1> USE DEF jobTables, SourceOfFeed
<1>1. ASSUME NEW p \in Process, Unstick(p) PROVE SourceOfFeed'
  BY <1>1 DEF Unstick
<1>2. ASSUME NEW p \in Process, SelectJobs(p) PROVE SourceOfFeed'
  BY <1>2 DEF SelectJobs
<1>3. ASSUME NEW p \in Process, CreateItem(p) PROVE SourceOfFeed'
  BY <1>3 DEF CreateItem
<1>4. ASSUME NEW p \in Process, Catch(p) PROVE SourceOfFeed'
  BY <1>4 DEF Catch
<1>5. ASSUME NEW p \in Process, Reserve(p) PROVE SourceOfFeed'
  BY <1>5 DEF Reserve
<1>6. ASSUME NEW p \in Process, ResetLeases(p) PROVE SourceOfFeed'
  BY <1>6 DEF ResetLeases
<1>7. ASSUME NEW p \in Process, Claim(p) PROVE SourceOfFeed'
  BY <1>7 DEF Claim
<1>8. ASSUME NEW p \in Process, Finish(p) PROVE SourceOfFeed'
  BY <1>8 DEF Finish
<1>9. ASSUME NEW p \in Process, Drop(p) PROVE SourceOfFeed'
  BY <1>9 DEF Drop
<1>10. ASSUME NEW p \in Process, Import(p) PROVE SourceOfFeed'
  BY <1>10 DEF Import
<1>11. ASSUME NEW p \in Process, ImportLocked(p) PROVE SourceOfFeed'
  BY <1>11 DEF ImportLocked
<1>12. ASSUME NEW p \in Process, RemoveJob(p) PROVE SourceOfFeed'
  BY <1>12 DEF RemoveJob
<1>13. ASSUME NEW p \in Process, AddJob(p) PROVE SourceOfFeed'
  BY <1>13 DEF AddJob
<1>14. ASSUME NEW p \in Process, DeleteItem(p) PROVE SourceOfFeed'
  BY <1>14 DEF DeleteItem
<1>15. ASSUME NEW p \in Process, CronBegins(p) PROVE SourceOfFeed'
  BY <1>15 DEF CronBegins
<1>16. ASSUME NEW p \in Process, Die(p) PROVE SourceOfFeed'
  BY <1>16 DEF Die, Fault
<1>17. ASSUME NEW p \in Process, DispatchFails(p) PROVE SourceOfFeed'
  BY <1>17 DEF DispatchFails, Fault
<1>18. ASSUME NEW p \in Process, HookFails(p) PROVE SourceOfFeed'
  BY <1>18 DEF HookFails, Fault
<1>19. ASSUME NEW p \in Process, ResetFails(p) PROVE SourceOfFeed'
  BY <1>19 DEF ResetFails, Fault
<1>20. ASSUME NEW p \in Process, WorkerFails(p) PROVE SourceOfFeed'
  BY <1>20 DEF WorkerFails, Fault
<1>21. CASE SaveForm
  BY <1>21 DEF SaveForm
<1>22. CASE DeleteFeed
  BY <1>22 DEF DeleteFeed
<1>23. CASE LockTime
  BY <1>23 DEF LockTime
<1>24. ASSUME NEW r \in Row, JobTime(r) PROVE SourceOfFeed'
  BY <1>24 DEF JobTime
<1>25. ASSUME NEW i \in Item, LeaseTime(i) PROVE SourceOfFeed'
  BY <1>25 DEF LeaseTime
<1>26. CASE UNCHANGED jobVars
  BY <1>26 DEF jobVars
<1> QED
  BY <1>1, <1>2, <1>3, <1>4, <1>5, <1>6, <1>7, <1>8, <1>9, <1>10, <1>11,
     <1>12, <1>13, <1>14, <1>15, <1>16, <1>17, <1>18, <1>19, <1>20, <1>21,
     <1>22, <1>23, <1>24, <1>25, <1>26
     DEF JobNext, Continue, Fail, TimePasses

(* exists[p] is read from {feeds_source} while p has no object. *)
LEMMA KnownStep ==
  JobTypeOK /\ SourceOfFeed /\ KnownIsTrue /\ [JobNext]_jobVars => KnownIsTrue'
<1> SUFFICES ASSUME JobTypeOK, SourceOfFeed, KnownIsTrue, [JobNext]_jobVars PROVE KnownIsTrue'
  OBVIOUS
<1> USE JobAssumption DEF jobTables, locals, Goto, NextJob, JobTypeOK, SourceOfFeed, KnownIsTrue
<1>1. ASSUME NEW p \in Process, Unstick(p) PROVE KnownIsTrue'
  BY <1>1 DEF Unstick
<1>2. ASSUME NEW p \in Process, SelectJobs(p) PROVE KnownIsTrue'
  BY <1>2 DEF SelectJobs
<1>3. ASSUME NEW p \in Process, CreateItem(p) PROVE KnownIsTrue'
  BY <1>3 DEF CreateItem
<1>4. ASSUME NEW p \in Process, Catch(p) PROVE KnownIsTrue'
  BY <1>4 DEF Catch
<1>5. ASSUME NEW p \in Process, Reserve(p) PROVE KnownIsTrue'
  BY <1>5 DEF Reserve
<1>6. ASSUME NEW p \in Process, ResetLeases(p) PROVE KnownIsTrue'
  BY <1>6 DEF ResetLeases
<1>7. ASSUME NEW p \in Process, Claim(p) PROVE KnownIsTrue'
  BY <1>7 DEF Claim
<1>8. ASSUME NEW p \in Process, Finish(p) PROVE KnownIsTrue'
  BY <1>8 DEF Finish
<1>9. ASSUME NEW p \in Process, Drop(p) PROVE KnownIsTrue'
  BY <1>9 DEF Drop
<1>10. ASSUME NEW p \in Process, Import(p) PROVE KnownIsTrue'
  BY <1>10 DEF Import
<1>11. ASSUME NEW p \in Process, ImportLocked(p) PROVE KnownIsTrue'
  BY <1>11 DEF ImportLocked
<1>12. ASSUME NEW p \in Process, RemoveJob(p) PROVE KnownIsTrue'
  BY <1>12 DEF RemoveJob
<1>13. ASSUME NEW p \in Process, AddJob(p) PROVE KnownIsTrue'
  BY <1>13 DEF AddJob
<1>14. ASSUME NEW p \in Process, DeleteItem(p) PROVE KnownIsTrue'
  BY <1>14 DEF DeleteItem
<1>15. ASSUME NEW p \in Process, CronBegins(p) PROVE KnownIsTrue'
  BY <1>15 DEF CronBegins
<1>16. ASSUME NEW p \in Process, Die(p) PROVE KnownIsTrue'
  BY <1>16 DEF Die, Fault
<1>17. ASSUME NEW p \in Process, DispatchFails(p) PROVE KnownIsTrue'
  BY <1>17 DEF DispatchFails, Fault
<1>18. ASSUME NEW p \in Process, HookFails(p) PROVE KnownIsTrue'
  BY <1>18 DEF HookFails, Fault
<1>19. ASSUME NEW p \in Process, ResetFails(p) PROVE KnownIsTrue'
  BY <1>19 DEF ResetFails, Fault
<1>20. ASSUME NEW p \in Process, WorkerFails(p) PROVE KnownIsTrue'
  BY <1>20 DEF WorkerFails, Fault
<1>21. CASE SaveForm
  BY <1>21 DEF SaveForm
<1>22. CASE DeleteFeed
  BY <1>22 DEF DeleteFeed
<1>23. CASE LockTime
  BY <1>23 DEF LockTime
<1>24. ASSUME NEW r \in Row, JobTime(r) PROVE KnownIsTrue'
  BY <1>24 DEF JobTime
<1>25. ASSUME NEW i \in Item, LeaseTime(i) PROVE KnownIsTrue'
  BY <1>25 DEF LeaseTime
<1>26. CASE UNCHANGED jobVars
  BY <1>26 DEF jobVars
<1> QED
  BY <1>1, <1>2, <1>3, <1>4, <1>5, <1>6, <1>7, <1>8, <1>9, <1>10, <1>11,
     <1>12, <1>13, <1>14, <1>15, <1>16, <1>17, <1>18, <1>19, <1>20, <1>21,
     <1>22, <1>23, <1>24, <1>25, <1>26
     DEF JobNext, Continue, Fail, TimePasses

(* Only set() deletes the job of a feed that exists, and then it adds one. *)
LEMMA KeptStep == JobTypeOK /\ KnownIsTrue /\ JobKept /\ [JobNext]_jobVars => JobKept'
<1> SUFFICES ASSUME JobTypeOK, KnownIsTrue, JobKept, [JobNext]_jobVars PROVE JobKept'
  OBVIOUS
<1> USE JobAssumption DEF jobTables, locals, Goto, AddRow, RemoveRows, NextJob, JobTypeOK,
        KnownIsTrue, JobKept, NoJob
<1>1. ASSUME NEW p \in Process, Unstick(p) PROVE JobKept'
  BY <1>1 DEF Unstick
<1>2. ASSUME NEW p \in Process, SelectJobs(p) PROVE JobKept'
  BY <1>2 DEF SelectJobs
<1>3. ASSUME NEW p \in Process, CreateItem(p) PROVE JobKept'
  BY <1>3 DEF CreateItem
<1>4. ASSUME NEW p \in Process, Catch(p) PROVE JobKept'
  BY <1>4 DEF Catch
<1>5. ASSUME NEW p \in Process, Reserve(p) PROVE JobKept'
  BY <1>5 DEF Reserve
<1>6. ASSUME NEW p \in Process, ResetLeases(p) PROVE JobKept'
  BY <1>6 DEF ResetLeases
<1>7. ASSUME NEW p \in Process, Claim(p) PROVE JobKept'
  BY <1>7 DEF Claim
<1>8. ASSUME NEW p \in Process, Finish(p) PROVE JobKept'
  BY <1>8 DEF Finish
<1>9. ASSUME NEW p \in Process, Drop(p) PROVE JobKept'
  BY <1>9 DEF Drop
<1>10. ASSUME NEW p \in Process, Import(p) PROVE JobKept'
  BY <1>10 DEF Import
<1>11. ASSUME NEW p \in Process, ImportLocked(p) PROVE JobKept'
  BY <1>11 DEF ImportLocked
<1>12. ASSUME NEW p \in Process, RemoveJob(p) PROVE JobKept'
  BY <1>12 DEF RemoveJob
<1>13. ASSUME NEW p \in Process, AddJob(p) PROVE JobKept'
  BY <1>13 DEF AddJob
<1>14. ASSUME NEW p \in Process, DeleteItem(p) PROVE JobKept'
  BY <1>14 DEF DeleteItem
<1>15. ASSUME NEW p \in Process, CronBegins(p) PROVE JobKept'
  BY <1>15 DEF CronBegins
<1>16. ASSUME NEW p \in Process, Die(p) PROVE JobKept'
  BY <1>16 DEF Die, Fault
<1>17. ASSUME NEW p \in Process, DispatchFails(p) PROVE JobKept'
  BY <1>17 DEF DispatchFails, Fault
<1>18. ASSUME NEW p \in Process, HookFails(p) PROVE JobKept'
  BY <1>18 DEF HookFails, Fault
<1>19. ASSUME NEW p \in Process, ResetFails(p) PROVE JobKept'
  BY <1>19 DEF ResetFails, Fault
<1>20. ASSUME NEW p \in Process, WorkerFails(p) PROVE JobKept'
  BY <1>20 DEF WorkerFails, Fault
<1>21. CASE SaveForm
  BY <1>21 DEF SaveForm
<1>22. CASE DeleteFeed
  BY <1>22 DEF DeleteFeed
<1>23. CASE LockTime
  BY <1>23 DEF LockTime
<1>24. ASSUME NEW r \in Row, JobTime(r) PROVE JobKept'
  BY <1>24 DEF JobTime
<1>25. ASSUME NEW i \in Item, LeaseTime(i) PROVE JobKept'
  BY <1>25 DEF LeaseTime
<1>26. CASE UNCHANGED jobVars
  BY <1>26 DEF jobVars
<1> QED
  BY <1>1, <1>2, <1>3, <1>4, <1>5, <1>6, <1>7, <1>8, <1>9, <1>10, <1>11,
     <1>12, <1>13, <1>14, <1>15, <1>16, <1>17, <1>18, <1>19, <1>20, <1>21,
     <1>22, <1>23, <1>24, <1>25, <1>26
     DEF JobNext, Continue, Fail, TimePasses

LEMMA JobStep == JobIInv /\ [JobNext]_jobVars => JobIInv'
BY JobTypeStep, SourceStep, KnownStep, KeptStep DEF JobIInv

(* What every statement of a cron run and of the worker may rely on. *)
THEOREM JobInvariant == JobSpec => []JobIInv
<1>1. JobInit => JobIInv
  BY JobsBegin
<1>2. JobIInv /\ [JobNext]_jobVars => JobIInv'
  BY JobStep
<1> QED
  BY <1>1, <1>2, PTL DEF JobSpec

(* The tables and the processes have their types. *)
THEOREM JobTypeCorrect == JobSpec => []JobTypeOK
<1>1. JobIInv => JobTypeOK
  BY DEF JobIInv
<1> QED
  BY <1>1, JobInvariant, PTL

(* The job of a feed that exists is not lost, whichever cron runs and workers  *)
(* overtake each other, except by a set() that ends in its middle and by a      *)
(* dispatch() that throws.                                                     *)
THEOREM JobIsKept == JobSpec => []JobKept
<1>1. JobIInv => JobKept
  BY DEF JobIInv
<1> QED
  BY <1>1, JobInvariant, PTL
==============================================================================
