------------------------------- MODULE Voting -------------------------------
(* Votes on entities and their cached results: votingapi.module and the pages  *)
(* of Vote Up/Down that cast and reset votes.  A request makes one call, one   *)
(* SQL statement after the other and without a lock or a transaction, while    *)
(* other requests do the same; only the deletion of an entity runs in one      *)
(* transaction.  One tag and one value type ("points") are modelled.           *)
EXTENDS Integers, FiniteSets, FiniteSetsExt

CONSTANTS
  Request,     \* bound: the requests there ever are; each makes one call
  User,        \* users and, for anonymous visitors, IP address hashes
  Window,      \* votingapi_user_window or votingapi_anonymous_window of a user
  Entity,      \* the entity ids that can be voted on
  Revision,    \* the revision id of each entity
  Value,       \* the values in vote links
  Operation,   \* the calls requests make, of those in OperationKind
  Schedule,    \* votingapi_calculation_schedule
  MaxTime,     \* bound: the clock
  MaxFaults    \* bound: the requests that die

OperationKind == {"vote", "reset", "delete", "cron"}

ASSUME VotingAssumption ==
  /\ IsFiniteSet(Request)
  /\ Window \in [User -> Int]
  /\ Entity \subseteq Nat \ {0}
  /\ Revision \in [Entity -> Nat]
  /\ Value \subseteq Int
  /\ Operation \subseteq OperationKind
  /\ Schedule \in {"immediate", "cron", "manual"}
  /\ MaxTime \in Nat \ {0} /\ MaxFaults \in Nat

VARIABLES
  now,        \* time()
  votes,      \* {votingapi_vote}; a request adds one row at most and names it
  results,    \* {votingapi_cache}
  last,       \* the variable votingapi_last_cron
  pc,         \* pc[r]: the statement request r is about to make
  call,       \* call[r]: what r was asked to do; beside is history: the other
              \*   votes of the user that were under way when r began
  selected,   \* selected[r]: the vote rows r has read in order to delete them
  rows,       \* rows[r]: the result rows r is about to delete or to write
  todo,       \* todo[r]: the entities a cron run has yet to recalculate
  alone       \* history: the requests no other one has run next to so far

stored == <<now, votes, results, last>>
vars == <<now, votes, results, last, pc, call, selected, rows, todo, alone>>

(* Only two of the five result functions are told apart: "sum" is read by the  *)
(* query of votingapi_votingapi_storage_standard_results(), as are count and   *)
(* average; "positives" by a later one of vud_votingapi_results_alter(), as    *)
(* are the negatives.                                                          *)
ResultFunction == {"sum", "positives"}

Idle == [op |-> "none", user |-> "none", entity |-> 0, value |-> 0, time |-> 0,
         beside |-> {}]

Vote == [by : Request, entity : Entity, user : User, value : {-1, 1}, time : 1..MaxTime]

MostPoints == Cardinality(Request)

Result == [by : Request, entity : Entity, function : ResultFunction,
           value : -MostPoints..MostPoints]

Active(r) == pc[r] \notin {"new", "done", "dead"}

TypeOK ==
  /\ now \in 1..MaxTime /\ last \in 0..MaxTime
  /\ votes \subseteq Vote /\ results \subseteq Result
  /\ pc \in [Request -> {"new", "check", "select", "drop", "insert", "snapshot",
                         "commit", "due", "wipe", "tally", "split", "save",
                         "done", "dead"}]
  /\ \A r \in Request : call[r] = Idle <=> pc[r] = "new"
  /\ \A r \in Request : selected[r] \subseteq Request /\ todo[r] \subseteq Entity
  /\ \A r \in Request : rows[r] \subseteq Result
  /\ alone \subseteq Request
  /\ \A v, w \in votes : v.by = w.by => v = w

Init ==
  /\ now = 1 /\ last = 0 /\ votes = {} /\ results = {}
  /\ pc = [r \in Request |-> "new"]
  /\ call = [r \in Request |-> Idle]
  /\ selected = [r \in Request |-> {}]
  /\ rows = [r \in Request |-> {}]
  /\ todo = [r \in Request |-> {}]
  /\ alone = {}

-----------------------------------------------------------------------------
(* The value of a vote link, as vud_vote() clamps it. *)
Clamp_Not(value) == value
Clamp(value) == IF value > 0 THEN 1 ELSE IF value < 0 THEN -1 ELSE 0

(* The requests of u to vote that are under way. *)
VotesUnderWay(u) == {s \in Request : Active(s) /\ call[s].op = "vote" /\ call[s].user = u}

(* The calls that start now: a vote or a reset by a user, the deletion of an   *)
(* entity, or a cron run.                                                      *)
Calls ==
  LET Called(op, u, e, v, others) ==
        [op |-> op, user |-> u, entity |-> e, value |-> v, time |-> now, beside |-> others]
  IN  UNION {
        {Called("vote", u, e, Clamp(v), VotesUnderWay(u)) : u \in User, e \in Entity, v \in Value},
        {Called("reset", u, e, 0, {}) : u \in User, e \in Entity},
        {Called("delete", "none", e, 0, {}) : e \in Entity},
        {Called("cron", "none", 0, 0, {})}}

FirstStatement ==
  [op \in OperationKind |->
     CASE op = "vote" -> "check" [] op = "reset" -> "select"
       [] op = "delete" -> "snapshot" [] op = "cron" -> "due"]

Goto(r, label) == pc' = [pc EXCEPT ![r] = label]

(* A request arrives.  Cron runs exclude each other (the lock "cron").         *)
Begin(r, c) ==
  /\ pc[r] = "new" /\ c.op \in Operation
  /\ c.op = "cron" => \A s \in Request : Active(s) => call[s].op # "cron"
  /\ call' = [call EXCEPT ![r] = c]
  /\ alone' = IF \E s \in Request : Active(s) THEN {} ELSE {r}
  /\ Goto(r, FirstStatement[c.op])
  /\ UNCHANGED <<stored, selected, rows, todo>>

(* Mutation: the window compared the other way round. *)
OwnVotes_BeforeWindow(c) ==
  {v \in votes : /\ v.entity = c.entity /\ v.user = c.user
                 /\ Window[c.user] >= 0 => v.time < c.time - Window[c.user]}

(* Mutation: the criteria of the SELECT without the user. *)
OwnVotes_Anyones(c) == {v \in votes : v.entity = c.entity}

(* votingapi_select_votes() with the criteria of the current user: a vote that *)
(* is older than the window is not among them.                                 *)
OwnVotes(c) ==
  {v \in votes : /\ v.entity = c.entity /\ v.user = c.user
                 /\ Window[c.user] >= 0 => v.time > c.time - Window[c.user]}

(* vud_vote() looks at one of the votes already cast and turns a vote in the   *)
(* same direction down.                                                        *)
Check(r) ==
  /\ pc[r] = "check"
  /\ LET cast == OwnVotes(call[r]) IN
     \/ /\ \/ cast = {}
           \/ \E v \in cast : v.value # call[r].value
        /\ call[r].value # 0
        /\ Goto(r, "select")
     \/ /\ \/ \E v \in cast : v.value = call[r].value
           \/ call[r].value = 0
        /\ Goto(r, "done")
  /\ UNCHANGED <<stored, call, selected, rows, todo, alone>>

(* Where a call goes once the old votes are gone. *)
AfterDrop(r) ==
  IF call[r].op = "vote" THEN "insert"
  ELSE IF Schedule = "cron" THEN "done" ELSE "wipe"

(* The votes to clear out are selected ... *)
SelectOwn(r) ==
  /\ pc[r] = "select"
  /\ selected' = [selected EXCEPT ![r] = {v.by : v \in OwnVotes(call[r])}]
  /\ Goto(r, IF selected'[r] = {} THEN AfterDrop(r) ELSE "drop")
  /\ UNCHANGED <<stored, call, rows, todo, alone>>

(* ... and deleted by their ids. *)
Drop(r) ==
  /\ pc[r] = "drop"
  /\ votes' = {v \in votes : v.by \notin selected[r]}
  /\ selected' = [selected EXCEPT ![r] = {}]
  /\ Goto(r, AfterDrop(r))
  /\ UNCHANGED <<now, results, last, call, rows, todo, alone>>

(* votingapi_set_votes(): the results follow at once unless cron makes them.   *)
AfterInsert == IF Schedule = "cron" THEN "done" ELSE "wipe"

Insert(r) ==
  /\ pc[r] = "insert"
  /\ votes' = votes \cup {[by |-> r, entity |-> call[r].entity, user |-> call[r].user,
                           value |-> call[r].value, time |-> call[r].time]}
  /\ Goto(r, AfterInsert)
  /\ UNCHANGED <<now, results, last, call, selected, rows, todo, alone>>

-----------------------------------------------------------------------------
(* votingapi_recalculate_results() for the entity of call[r].                  *)

ResultsOf(e) == {w \in results : w.entity = e}

(* Mutation: the old results are kept. *)
Wipe_Nothing(r) ==
  /\ pc[r] = "wipe"
  /\ Goto(r, "tally")
  /\ UNCHANGED <<stored, call, selected, rows, todo, alone>>

Wipe(r) ==
  /\ pc[r] = "wipe"
  /\ results' = results \ ResultsOf(call[r].entity)
  /\ Goto(r, "tally")
  /\ UNCHANGED <<now, votes, last, call, selected, rows, todo, alone>>

(* The value a result function has for entity e, if it has a row at all: the   *)
(* sums of SQL have no row when no vote counts.                                *)
Counted(e, function) ==
  {v \in votes : v.entity = e /\ (function = "positives" => v.value > 0)}

(* SUM(v.value) *)
Points(counted) == MapThenSumSet(LAMBDA v : v.value, counted)

Total(e, function) == Points(Counted(e, function))

ResultRow(r, e, function) ==
  [by |-> r, entity |-> e, function |-> function, value |-> Total(e, function)]

Tallied(r, e, function) ==
  {ResultRow(r, e, f) : f \in {g \in {function} : Counted(e, g) # {}}}

(* The query of votingapi_votingapi_storage_standard_results(). *)
Tally(r) ==
  /\ pc[r] = "tally"
  /\ rows' = [rows EXCEPT ![r] = Tallied(r, call[r].entity, "sum")]
  /\ Goto(r, "split")
  /\ UNCHANGED <<stored, call, selected, todo, alone>>

(* The query of vud_votingapi_results_alter(). *)
Split(r) ==
  /\ pc[r] = "split"
  /\ rows' = [rows EXCEPT ![r] = @ \cup Tallied(r, call[r].entity, "positives")]
  /\ Goto(r, "save")
  /\ UNCHANGED <<stored, call, selected, todo, alone>>

First(s) == CHOOSE w \in s : w.function = "sum" \/ \A x \in s : x.function # "sum"

(* Mutation: a result that is there is not written again. *)
Save_IfMissing(r) ==
  /\ pc[r] = "save" /\ rows[r] # {}
  /\ LET row == First(rows[r]) IN
     /\ results' = IF \E w \in ResultsOf(row.entity) : w.function = row.function
                   THEN results ELSE results \cup {row}
     /\ rows' = [rows EXCEPT ![r] = @ \ {row}]
  /\ UNCHANGED <<now, votes, last, pc, call, selected, todo, alone>>

(* votingapi_add_results(): one INSERT after the other. *)
Save(r) ==
  /\ pc[r] = "save" /\ rows[r] # {}
  /\ LET row == First(rows[r]) IN
     /\ results' = results \cup {row}
     /\ rows' = [rows EXCEPT ![r] = @ \ {row}]
  /\ UNCHANGED <<now, votes, last, pc, call, selected, todo, alone>>

(* The recalculation is over, and with it the call of a user. *)
Return(r) ==
  /\ pc[r] = "save" /\ rows[r] = {} /\ call[r].op # "cron"
  /\ Goto(r, "done")
  /\ UNCHANGED <<stored, call, selected, rows, todo, alone>>

-----------------------------------------------------------------------------
(* votingapi_cron(): a run reads which entities were voted on since the last   *)
(* one ...                                                                     *)
Due(r) ==
  /\ pc[r] = "due"
  /\ todo' = [todo EXCEPT ![r] =
       IF Schedule = "cron" THEN {v.entity : v \in {w \in votes : w.time > last}} ELSE {}]
  /\ Goto(r, "save")
  /\ UNCHANGED <<stored, call, selected, rows, alone>>

(* ... recalculates them one after the other ... *)
CronNext(r) ==
  /\ pc[r] = "save" /\ rows[r] = {} /\ call[r].op = "cron"
  /\ \E e \in todo[r] :
       /\ todo' = [todo EXCEPT ![r] = @ \ {e}]
       /\ call' = [call EXCEPT ![r].entity = e]
  /\ Goto(r, "wipe")
  /\ UNCHANGED <<stored, selected, rows, alone>>

CronEnds(r) ==
  /\ pc[r] = "save" /\ rows[r] = {} /\ call[r].op = "cron" /\ todo[r] = {}
  /\ Goto(r, "done")
  /\ UNCHANGED <<now, votes, results, call, selected, rows, todo, alone>>

(* Mutation: time() at the end of the run. *)
CronReturn_AtEnd(r) == CronEnds(r) /\ last' = IF Schedule = "cron" THEN now ELSE last

(* ... and notes when it started. *)
CronReturn(r) == CronEnds(r) /\ last' = IF Schedule = "cron" THEN call[r].time ELSE last

-----------------------------------------------------------------------------
(* votingapi_entity_delete() takes the entity id and the revision id. *)
Ids(e) == {e, Revision[e]}

(* It runs in the transaction of node_delete_multiple(): what it deletes is    *)
(* what its snapshot of the tables shows ...                                   *)
Snapshot(r) ==
  /\ pc[r] = "snapshot"
  /\ LET ids == Ids(call[r].entity) IN
     /\ selected' = [selected EXCEPT ![r] = {v.by : v \in {w \in votes : w.entity \in ids}}]
     /\ rows' = [rows EXCEPT ![r] = {w \in results : w.entity \in ids}]
  /\ Goto(r, "commit")
  /\ UNCHANGED <<stored, call, todo, alone>>

(* ... and all of it goes at once. *)
Commit(r) ==
  /\ pc[r] = "commit"
  /\ votes' = {v \in votes : v.by \notin selected[r]}
  /\ results' = results \ rows[r]
  /\ selected' = [selected EXCEPT ![r] = {}]
  /\ rows' = [rows EXCEPT ![r] = {}]
  /\ Goto(r, "done")
  /\ UNCHANGED <<now, last, call, todo, alone>>

(* The process is killed; a transaction it was in is rolled back. *)
Die(r) ==
  /\ Active(r)
  /\ Cardinality({s \in Request : pc[s] = "dead"}) < MaxFaults
  /\ Goto(r, "dead")
  /\ UNCHANGED <<stored, call, selected, rows, todo, alone>>

Tick ==
  /\ now < MaxTime
  /\ now' = now + 1
  /\ UNCHANGED <<votes, results, last, pc, call, selected, rows, todo, alone>>

Step(r) ==
  \/ Check(r) \/ SelectOwn(r) \/ Drop(r) \/ Insert(r)
  \/ Wipe(r) \/ Tally(r) \/ Split(r) \/ Save(r) \/ Return(r)
  \/ Due(r) \/ CronNext(r) \/ CronReturn(r)
  \/ Snapshot(r) \/ Commit(r)

Next ==
  \/ \E r \in Request : \E c \in Calls : Begin(r, c)
  \/ \E r \in Request : Step(r) \/ Die(r)
  \/ Tick

Spec == Init /\ [][Next]_vars

-----------------------------------------------------------------------------
(* The results as they should be for the votes there are, without their names. *)
Expected(e) ==
  {[function |-> f, value |-> Total(e, f)] :
     f \in {g \in ResultFunction : Counted(e, g) # {}}}

Cached(e) == {[function |-> w.function, value |-> w.value] : w \in ResultsOf(e)}

Touches(r, e) == call[r].entity = e \/ e \in todo[r]

(* No request is working on e, none died while it did, and none deleted it or  *)
(* took its id for a revision id.                                              *)
Settled(e) ==
  \A r \in Request :
    /\ Touches(r, e) => ~Active(r) /\ pc[r] # "dead"
    /\ call[r].op = "delete" => e \notin Ids(call[r].entity)

(* When votes are tallied at once, the right results are among the cached ones *)
(* as soon as nobody works on the entity, however the recalculations of        *)
(* several voters were interleaved: the last one to change a vote tallies      *)
(* after it, and whoever wipes its rows tallies later still.                   *)
RightResultsCached ==
  Schedule = "immediate" => \A e \in Entity : Settled(e) => Expected(e) \subseteq Cached(e)

Ends(r) == pc[r] # "done" /\ pc'[r] = "done"

(* A request that had the database to itself leaves its entity as it should    *)
(* be, whatever a race or a death left there before: exact results after a     *)
(* vote or a reset, and nothing at all after a deletion.                       *)
UndisturbedRepairs ==
  [][\A r \in alone : Ends(r) =>
       LET e == call[r].entity IN
       /\ call[r].op \in {"vote", "reset"} /\ pc[r] # "check" /\ Schedule # "cron" =>
            (Cached(e) = Expected(e))'
       /\ call[r].op = "delete" =>
            \A v \in votes', w \in results' : v.entity # e /\ w.entity # e]_vars

(* A vote goes away only when its own user votes again on the entity or resets *)
(* the vote, or when the entity itself is deleted ("Delete all votes and cache *)
(* entries for the deleted entities", votingapi.module:681).                   *)
OthersVotesStay ==
  [][\A v \in votes \ votes' :
       \E r \in Request :
         /\ Active(r) /\ call[r].entity = v.entity
         /\ call[r].user = v.user \/ call[r].op = "delete"]_vars

(* A user has two votes on an entity only if the window of the first one was   *)
(* over when the second one was cast, or if the requests that cast them were   *)
(* under way at the same time: a request that has ended or died in whatever    *)
(* step leaves no vote that a later one does not find.                         *)
Overlap(r, s) == r \in call[s].beside \/ s \in call[r].beside

VotesAreUnique ==
  \A v, w \in votes :
    v.entity = w.entity /\ v.user = w.user /\ v # w /\ ~Overlap(v.by, w.by) =>
      /\ Window[v.user] >= 0
      /\ v.time - w.time >= Window[v.user] \/ w.time - v.time >= Window[v.user]

(* What the two rest on.  A request casts one vote, so that nobody has selected *)
(* one that is still to come, and what it has selected is its user's.          *)
Uncast(r) == pc[r] \in {"new", "check", "select", "drop", "insert"}

CastOnce ==
  /\ \A v, w \in votes : v.by = w.by => v = w
  /\ \A v \in votes : ~Uncast(v.by)
  /\ \A r \in Request : \A s \in selected[r] : ~Uncast(s)

OpFitsStep ==
  \A r \in Request :
    /\ pc[r] \in {"check", "insert"} => call[r].op = "vote"
    /\ pc[r] \in {"select", "drop"} => call[r].op \in {"vote", "reset"}
    /\ call[r].op \in {"vote", "reset"} => call[r].user \in User
    /\ call[r].op \in {"vote", "reset", "delete"} => call[r].entity \in Entity
    /\ pc[r] \in {"snapshot", "commit"} => call[r].op = "delete"

SelectedOwn ==
  \A r \in Request, v \in votes :
    v.by \in selected[r] =>
      /\ pc[r] = "drop" => v.entity = call[r].entity /\ v.user = call[r].user
      /\ pc[r] = "commit" => v.entity \in Ids(call[r].entity)

(* But for those of overlapping requests, a user's votes of the window are      *)
(* selected before the DELETE and gone before the INSERT.                      *)
OverlapsKnown ==
  \A r, s \in Request :
    call[r].op = "vote" /\ s \in VotesUnderWay(call[r].user) /\ Active(r) =>
      r = s \/ Overlap(r, s)

Older(v, c) == Window[v.user] >= 0 /\ v.time <= c.time - Window[v.user]

OthersOlder ==
  \A r \in Request, v \in votes :
    (/\ call[r].op = "vote" /\ v.entity = call[r].entity /\ v.user = call[r].user
     /\ ~Overlap(r, v.by)) =>
      /\ pc[r] = "insert" => Older(v, call[r])
      /\ pc[r] = "drop" => v.by \in selected[r] \/ Older(v, call[r])

VotesIInv == CastOnce /\ OpFitsStep /\ SelectedOwn
UniqueIInv == OverlapsKnown /\ OthersOlder /\ VotesAreUnique

(* A vote cast in a later second than the start of every cron run before: the  *)
(* ones of the same second are missed by "timestamp > :timestamp".             *)
CastSince(v, c) ==
  \A d \in Request : d # c /\ call[d].op = "cron" /\ pc[d] = "done" => v.time > call[d].time

(* A cron run with the database to itself gives the right results to every     *)
(* entity that was voted on since the start of the run before it.              *)
CronTalliesNewVotes ==
  [][Schedule = "cron" =>
       \A r \in alone : Ends(r) /\ call[r].op = "cron" =>
         \A v \in votes : CastSince(v, r) =>
           (Cached(v.entity) = Expected(v.entity))']_vars

==============================================================================
