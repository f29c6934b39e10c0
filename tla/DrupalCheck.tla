----------------------------- MODULE DrupalCheck -----------------------------
(* The site checker dhu_drupalcheck.module: cron asks the sites of link nodes  *)
(* whether they run on Drupal and unpublishes those that do not, while users   *)
(* write, edit, unpublish and delete the nodes.  Between the node_load() and   *)
(* the node_save() of a check lies an HTTP request of up to 30 seconds.        *)
EXTENDS Integers, Sequences, SequencesExt

CONSTANTS
  MaxNodes,   \* bound: the link nodes there ever are
  OldNodes,   \* the link nodes that are there when the module is installed
  Url,        \* the values of field_link
  OldUrl,     \* the URL of the links that are there when the module is installed
  Editor,     \* the users, each with one form at a time
  None,       \* no row, no node
  Interval,   \* 14 days
  MaxSites,   \* $max_sites
  MaxTime,    \* bound: the clock
  MaxEdits,   \* bound: the edits and deletions that are begun
  MaxDeaths   \* bound: the cron runs that are killed

ASSUME DrupalCheckAssumption ==
  /\ Interval \in Nat
  /\ MaxNodes \in Nat /\ OldNodes \in 0..MaxNodes /\ OldUrl \in Url
  /\ MaxSites \in Nat \ {0}
  /\ MaxTime \in Nat \ {0} /\ MaxEdits \in Nat /\ MaxDeaths \in Nat

VARIABLES
  now,      \* time()
  lastid,   \* the serial number of {node}
  node,     \* node[n]: the row in {node} with its field_link
  check,    \* check[n]: lastcheck in the row in {drupalcheck}; isdrupal is only listed
  cron,     \* the cron run
  editor,   \* editor[u]: the request or the open form of user u
  given,    \* history: given[n]: the URL a user has stored last, None once cron
            \*   has overwritten it
  passed,   \* history: passed[n]: the URL that the last complete check of n found
            \*   to run on Drupal
  unjudged, \* history: the nodes that had no complete check since a user saved them
  disturbed,  \* history: a user has saved the node cron has in hand
  late,     \* history: the nodes deleted while cron had them in hand
  edits,    \* the edits and deletions that were begun
  deaths    \* the cron runs that were killed

tables == <<now, lastid, node, check>>
bounds == <<edits, deaths>>
judgement == <<given, passed, unjudged, disturbed>>
history == <<judgement, late>>
vars == <<tables, cron, editor, history, bounds>>

Time == 1..MaxTime
Node == 1..MaxNodes
NodeRow == [status : {0, 1}, url : Url, changed : Time]
CheckRow == Time
IdleRow == [pc : {"idle"}]
FormRow == [pc : {"form"}, nid : Node, changed : Time, time : Time, fresh : BOOLEAN]
StoreRow == [pc : {"store"}, nid : Node, status : {0, 1}, url : Url, time : Time]
Request == IdleRow \cup FormRow \cup StoreRow

ASSUME NoRowAssumption == None \notin NodeRow \cup CheckRow \cup Url

(* A cron run: its REQUEST_TIME, the nodes it has selected, the URL of the one *)
(* it has loaded (what else it has loaded is overwritten before it is saved),  *)
(* until that is refused.                                                      *)
Run ==
  [pc : {"idle", "load", "request", "save", "merge"}, time : Time, todo : Seq(Node),
   url : Url \cup {None}]

NoRun == [pc |-> "idle", time |-> 1, todo |-> <<>>, url |-> None]

Idle == [pc |-> "idle"]

TablesTyped ==
  /\ now \in Time /\ lastid \in 0..MaxNodes
  /\ node \in [Node -> NodeRow \cup {None}]
  /\ check \in [Node -> CheckRow \cup {None}]
  /\ given \in [Node -> Url \cup {None}] /\ passed \in [Node -> Url \cup {None}]
  /\ unjudged \subseteq Node /\ disturbed \in BOOLEAN
  /\ late \subseteq Node /\ edits \in 0..MaxEdits /\ deaths \in 0..MaxDeaths

RunTyped ==
  /\ cron \in Run
  /\ Len(cron.todo) <= MaxSites
  /\ cron.pc = "idle" <=> cron.todo = <<>>
  /\ cron.pc \in {"request", "save"} => cron.url # None
  /\ cron.pc \in {"idle", "load"} => cron.url = None

TypeOK == TablesTyped /\ RunTyped /\ editor \in [Editor -> Request]

(* The module is installed on a site that may have links already.              *)
Init ==
  /\ now = 1 /\ lastid = OldNodes
  /\ node = [n \in Node |->
       IF n <= OldNodes THEN [status |-> 1, url |-> OldUrl, changed |-> 1] ELSE None]
  /\ given = [n \in Node |-> IF n <= OldNodes THEN OldUrl ELSE None]
  /\ check = [n \in Node |-> None]
  /\ cron = NoRun
  /\ editor = [u \in Editor |-> Idle]
  /\ passed = [n \in Node |-> None]
  /\ unjudged = Node /\ disturbed = FALSE /\ late = {}
  /\ edits = 0 /\ deaths = 0

-----------------------------------------------------------------------------
(* Nodes are written, edited, unpublished and deleted.                         *)

(* The node form and dhu_drupalcheck_node_insert(); the validation of the URL  *)
(* only shows a message.                                                       *)
Create(url) ==
  /\ lastid < MaxNodes
  /\ lastid' = lastid + 1
  /\ node' = [node EXCEPT ![lastid'] = [status |-> 1, url |-> url, changed |-> now]]
  /\ check' = [check EXCEPT ![lastid'] = now]
  /\ given' = [given EXCEPT ![lastid'] = url]
  /\ UNCHANGED <<now, cron, editor, passed, unjudged, disturbed, late, bounds>>

Counted == edits < MaxEdits /\ edits' = edits + 1

(* The edit form is opened. *)
Open(u, n) ==
  /\ editor[u] = Idle /\ node[n] # None
  /\ editor' = [editor EXCEPT ![u] =
       [pc |-> "form", nid |-> n, changed |-> node[n].changed, time |-> now, fresh |-> TRUE]]
  /\ Counted
  /\ UNCHANGED <<tables, cron, history, deaths>>

(* The form is submitted and passes node_validate(). *)
Submit(u, url, status) ==
  /\ editor[u].pc = "form"
  /\ LET form == editor[u] IN
     /\ node[form.nid] # None
     /\ ~(node[form.nid].changed > form.changed)
     /\ editor' = [editor EXCEPT ![u] =
          [pc |-> "store", nid |-> form.nid, status |-> status, url |-> url, time |-> now]]
  /\ UNCHANGED <<tables, cron, history, bounds>>

(* The form is given up, it is refused, or its node is gone. *)
Abandon(u) ==
  /\ editor[u].pc = "form"
  /\ editor' = [editor EXCEPT ![u] = Idle]
  /\ UNCHANGED <<tables, cron, history, bounds>>

(* dhu_drupalcheck_page_unpublish(): the node is loaded ... *)
Unpublish(u, n) ==
  /\ editor[u] = Idle /\ node[n] # None
  /\ editor' = [editor EXCEPT ![u] =
       [pc |-> "store", nid |-> n, status |-> 0, url |-> node[n].url, time |-> now]]
  /\ Counted
  /\ UNCHANGED <<tables, cron, history, deaths>>

(* node_save() writes the whole node and stamps it with REQUEST_TIME; it       *)
(* updates no row of {node} when the node is gone.                             *)
Saved(n, status, url, time) ==
  IF node[n] = None THEN node
  ELSE [node EXCEPT ![n] = [status |-> status, url |-> url, changed |-> time]]

(* The forms of n that were opened in an earlier second. *)
Outdated(n) ==
  [u \in Editor |->
     IF editor[u].pc = "form" /\ editor[u].nid = n /\ editor[u].time < now
     THEN [editor[u] EXCEPT !.fresh = FALSE] ELSE editor[u]]

InHand(n) == cron.pc \in {"request", "save", "merge"} /\ Head(cron.todo) = n

(* ... and saved, as an edited node is. *)
Store(u) ==
  /\ editor[u].pc = "store"
  /\ LET n == editor[u].nid IN
     /\ node' = Saved(n, editor[u].status, editor[u].url, editor[u].time)
     /\ editor' = [Outdated(n) EXCEPT ![u] = Idle]
     /\ given' = [given EXCEPT ![n] = editor[u].url]
     /\ passed' = [passed EXCEPT ![n] = None]
     /\ unjudged' = unjudged \cup {n}
     /\ disturbed' = (disturbed \/ InHand(n))
  /\ UNCHANGED <<now, lastid, check, cron, late, bounds>>

(* Mutation: the hook that deletes the row of {drupalcheck} is missing. *)
Delete_NoHook(n) ==
  /\ node[n] # None
  /\ node' = [node EXCEPT ![n] = None]
  /\ late' = IF InHand(n) THEN late \cup {n} ELSE late
  /\ Counted
  /\ UNCHANGED <<now, lastid, check, cron, editor, judgement, deaths>>

(* node_delete() and dhu_drupalcheck_node_delete(), in one transaction. *)
Delete(n) ==
  /\ node[n] # None
  /\ node' = [node EXCEPT ![n] = None]
  /\ check' = [check EXCEPT ![n] = None]
  /\ late' = IF InHand(n) THEN late \cup {n} ELSE late
  /\ Counted
  /\ UNCHANGED <<now, lastid, cron, editor, judgement, deaths>>

-----------------------------------------------------------------------------
(* dhu_drupalcheck_cron().                                                     *)

Due(n) ==
  /\ node[n] # None
  /\ check[n] # None => check[n] < now - Interval

(* ORDER BY dc.lastcheck: nodes without a row come first. *)
NotAfter(m, n) ==
  check[m] # None => check[n] # None /\ check[m] <= check[n]

(* The first MaxSites of the nodes that are due, in one of their orders. *)
Select(s) ==
  LET due == {n \in Node : Due(n)}
  IN  /\ \A i, j \in 1..Len(s) : i < j => s[i] # s[j] /\ NotAfter(s[i], s[j])
      /\ ToSet(s) \subseteq due
      /\ \A n \in due \ ToSet(s) :
           Len(s) = MaxSites /\ \A i \in 1..Len(s) : NotAfter(s[i], n)

CronStart ==
  /\ cron.pc = "idle"
  /\ \E s \in SeqOf(Node, MaxSites) :
       /\ s # <<>> /\ Select(s)
       /\ cron' = [NoRun EXCEPT !.pc = "load", !.time = now, !.todo = s]
  /\ UNCHANGED <<tables, editor, history, bounds>>

(* The node cron has loaded for the check of the next link. *)
Loaded(url) ==
  /\ cron' = [cron EXCEPT !.pc = "request", !.url = url]
  /\ disturbed' = FALSE
  /\ UNCHANGED <<tables, editor, given, passed, unjudged, late, bounds>>

(* Mutation: the node comes from a static cache that was filled before. *)
CronLoad_Cached ==
  /\ cron.pc = "load" /\ node[Head(cron.todo)] # None
  /\ \E url \in Url : Loaded(url)

CronLoad ==
  /\ cron.pc = "load" /\ node[Head(cron.todo)] # None
  /\ Loaded(node[Head(cron.todo)].url)

(* node_load() returns FALSE for a node that has been deleted: nothing is      *)
(* requested, and node_save() throws at an object without a type.  cron.php    *)
(* goes on with the next module; this run is over.                             *)
CronLoadsNothing ==
  /\ cron.pc = "load" /\ node[Head(cron.todo)] = None
  /\ cron' = NoRun
  /\ UNCHANGED <<tables, editor, history, bounds>>

(* dhu_drupalcheck_check(): the site sends Drupal's expiry date or anything    *)
(* else, nothing included.                                                     *)
CronRequest(isdrupal) ==
  /\ cron.pc = "request"
  /\ cron' = [cron EXCEPT !.pc = IF isdrupal = 1 THEN "merge" ELSE "save"]
  /\ UNCHANGED <<tables, editor, history, bounds>>

(* node_save() of the node as it was loaded, with status 0. *)
CronSave ==
  /\ cron.pc = "save"
  /\ LET n == Head(cron.todo) IN
     /\ node' = Saved(n, 0, cron.url, cron.time)
     /\ editor' = Outdated(n)
     /\ given' = IF disturbed THEN [given EXCEPT ![n] = None] ELSE given
  /\ cron' = [cron EXCEPT !.pc = "merge", !.url = None]
  /\ UNCHANGED <<now, lastid, check, passed, unjudged, disturbed, late, bounds>>

(* node_save() rolls back and throws, which ends the run before db_merge().    *)
CronSaveFails ==
  /\ cron.pc = "save"
  /\ cron' = NoRun
  /\ UNCHANGED <<tables, editor, history, bounds>>

(* The next node, or the end of the run. *)
Advance ==
  LET rest == Tail(cron.todo)
  IN  cron' = IF rest = <<>> THEN NoRun
              ELSE [NoRun EXCEPT !.pc = "load", !.time = cron.time, !.todo = rest]

(* The check of n is complete: it says something of n if no user came between. *)
Judged(n) ==
  /\ passed' = IF disturbed THEN passed ELSE [passed EXCEPT ![n] = cron.url]
  /\ unjudged' = IF disturbed THEN unjudged ELSE unjudged \ {n}
  /\ disturbed' = FALSE

(* Mutation: the row is written for nodes that are published only. *)
CronMerge_Published ==
  /\ cron.pc = "merge"
  /\ LET n == Head(cron.todo) IN
     check' = IF node[n] # None /\ node[n].status = 0 THEN check
              ELSE [check EXCEPT ![n] = cron.time]
  /\ Judged(Head(cron.todo))
  /\ Advance
  /\ UNCHANGED <<now, lastid, node, editor, given, late, bounds>>

(* db_merge() inserts the row if there is none, be there a node or not. *)
CronMerge ==
  /\ cron.pc = "merge"
  /\ check' = [check EXCEPT ![Head(cron.todo)] = cron.time]
  /\ Judged(Head(cron.todo))
  /\ Advance
  /\ UNCHANGED <<now, lastid, node, editor, given, late, bounds>>

(* The run hits PHP's time limit or is killed. *)
CronDies ==
  /\ cron.pc # "idle" /\ deaths < MaxDeaths
  /\ cron' = NoRun
  /\ deaths' = deaths + 1
  /\ UNCHANGED <<tables, editor, history, edits>>

Tick ==
  /\ now < MaxTime
  /\ now' = now + 1
  /\ UNCHANGED <<lastid, node, check, cron, editor, history, bounds>>

CronStep ==
  \/ CronStart \/ CronLoad \/ CronLoadsNothing \/ CronSave \/ CronSaveFails \/ CronMerge
  \/ \E isdrupal \in {0, 1} : CronRequest(isdrupal)

Next ==
  \/ CronStep \/ CronDies
  \/ \E url \in Url : Create(url)
  \/ \E u \in Editor, n \in Node : Open(u, n) \/ Unpublish(u, n)
  \/ \E u \in Editor, url \in Url, status \in {0, 1} : Submit(u, url, status)
  \/ \E u \in Editor : Abandon(u) \/ Store(u)
  \/ \E n \in Node : Delete(n)
  \/ Tick

Spec == Init /\ [][Next]_vars

(* The crontab starts cron again and again, and HTTP requests time out. *)
FairSpec == Spec /\ WF_vars(CronStep)

-----------------------------------------------------------------------------
(* A link has the URL that a user gave it last, unless cron, which saves the   *)
(* node as it has loaded it, had it in hand when that was stored.              *)
EditsStand ==
  \A n \in Node : node[n] # None /\ given[n] # None => node[n].url = given[n]

(* A published link has a URL that its last complete check found to run on     *)
(* Drupal, unless a user saved it after that check had loaded it.              *)
PublishedAsFound ==
  \A n \in Node :
    node[n] # None /\ n \notin unjudged => node[n].status = 0 \/ node[n].url = passed[n]

(* What a check may rely on and leaves behind, whatever users do during the    *)
(* HTTP request: who edits then is overwritten or judged by another URL's      *)
(* answer, and nobody else is.                                                 *)
LinksAsJudged == EditsStand /\ PublishedAsFound

(* A row of {drupalcheck} outlives its node only if the node was deleted while *)
(* cron had it in hand, between node_load() and db_merge().                    *)
OrphansWereInHand ==
  \A n \in Node : check[n] # None /\ node[n] = None => n \in late

(* What the two rest on: a node that has no id yet is in nobody's hands, a      *)
(* check that no user has disturbed knows the node as it is, and a node that   *)
(* goes away under a check is remembered.                                      *)
KnownNodes ==
  \A n \in Node : node[n] # None \/ InHand(n) \/ n \notin unjudged => n <= lastid
LoadedIsTrue ==
  \A n \in Node : InHand(n) /\ ~disturbed /\ node[n] # None =>
    /\ cron.url # None => cron.url = node[n].url
    /\ cron.pc = "merge" /\ cron.url = None => node[n].status = 0
GoneInHand == \A n \in Node : InHand(n) /\ node[n] = None => n \in late
IInv ==
  /\ TypeOK /\ KnownNodes /\ LoadedIsTrue /\ LinksAsJudged
  /\ GoneInHand /\ OrphansWereInHand

(* node_save() throws for a link that is in front of n or is n itself. *)
ThrowsBefore(n) == CronSaveFails /\ NotAfter(Head(cron.todo), n)

(* A link that is due is checked in the end or goes away, whatever happens to  *)
(* the nodes before it (a deletion that ends the run, a refusal, a killed run) *)
(* and however many there are, unless node_save() throws again and again for   *)
(* links in front of it: those come first in every run, and end it.            *)
(* ("All sites will be checked", dhu_drupalcheck.module:10.)                   *)
DueLinksChecked ==
  \A n \in Node : (Due(n) ~> ~Due(n)) \/ []<><<ThrowsBefore(n)>>_vars

(* The edit form is not accepted when the node was saved by somebody else in a *)
(* later second than the one it was opened in: node.module:1013 says "The      *)
(* content on this page has either been modified by another user, or you have  *)
(* already submitted modifications using this form.  As a result, your changes *)
(* cannot be saved".                                                           *)
OutdatedFormRefused ==
  [][\A u \in Editor :
       editor[u].pc = "form" /\ editor'[u].pc = "store" => editor[u].fresh]_vars
==============================================================================
