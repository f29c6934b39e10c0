----------------------------- MODULE VotingProofs -----------------------------
(* Theorems about Voting for any number of requests, users, entities and       *)
(* values: whose votes go away, that votes are unique, that the right results   *)
(* are cached once nobody works on an entity, what a request leaves behind that *)
(* had the database to itself, and that the sums stay in range.                *)
EXTENDS Voting, TLAPS, FiniteSetTheorems, WellFoundedInduction

CallRow ==
  [op : OperationKind \cup {"none"}, user : User \cup {"none"}, entity : Nat,
   value : Int, time : Int, beside : SUBSET Request]

VoteRow == [by : Request, entity : Entity, user : User, value : Int, time : Int]

Statement ==
  {"new", "check", "select", "drop", "insert", "snapshot", "commit", "due", "wipe",
   "tally", "split", "save", "done", "dead"}

Typed ==
  /\ now \in Int /\ votes \subseteq VoteRow
  /\ pc \in [Request -> Statement] /\ call \in [Request -> CallRow]
  /\ selected \in [Request -> SUBSET Request] /\ todo \in [Request -> SUBSET Nat]

LEMMA CallsTyped ==
  ASSUME now \in Int, NEW c \in Calls
  PROVE  /\ c \in CallRow /\ c.op \in OperationKind
         /\ c.op \in {"vote", "reset"} => c.user \in User
         /\ c.op \in {"vote", "reset", "delete"} => c.entity \in Entity
         /\ FirstStatement[c.op] \in {"check", "select", "snapshot", "due"}
         /\ FirstStatement[c.op] = "check" => c.op = "vote"
         /\ FirstStatement[c.op] = "select" => c.op = "reset"
         /\ FirstStatement[c.op] = "snapshot" => c.op = "delete"
         /\ c.op = "vote" => c.beside = VotesUnderWay(c.user)
<1>1. c \in CallRow /\ c.op \in OperationKind /\ (c.op \in {"vote", "reset"} => c.user \in User)
      /\ (c.op \in {"vote", "reset", "delete"} => c.entity \in Entity)
  <2>1. \A u \in User : VotesUnderWay(u) \in SUBSET Request
    BY DEF VotesUnderWay
  <2> QED
    BY <2>1, VotingAssumption DEF Calls, CallRow, OperationKind, Clamp
<1>3. c.op = "vote" => c.beside = VotesUnderWay(c.user)
  BY DEF Calls
<1>2. FirstStatement["vote"] = "check" /\ FirstStatement["reset"] = "select"
      /\ FirstStatement["delete"] = "snapshot" /\ FirstStatement["cron"] = "due"
  BY DEF FirstStatement, OperationKind
<1> QED
  BY <1>1, <1>2, <1>3 DEF OperationKind

LEMMA InitInvariants == Init => Typed /\ VotesIInv /\ UniqueIInv
<1> SUFFICES ASSUME Init PROVE Typed /\ VotesIInv /\ UniqueIInv
  OBVIOUS
<1>1. Typed
  <2>1. Idle \in CallRow
    BY DEF Idle, CallRow
  <2> QED
    BY <2>1 DEF Init, Typed, Statement
<1>2. VotesIInv
  BY DEF Init, VotesIInv, CastOnce, OpFitsStep, SelectedOwn, Idle
<1>3. UniqueIInv
  <2>1. \A r \in Request : ~Active(r)
    BY DEF Init, Active
  <2>2. votes = {}
    BY DEF Init
  <2>3. OverlapsKnown
    BY <2>1 DEF OverlapsKnown, VotesUnderWay
  <2>4. OthersOlder
    BY <2>2 DEF OthersOlder
  <2>5. VotesAreUnique
    BY <2>2 DEF VotesAreUnique
  <2> QED
    BY <2>3, <2>4, <2>5 DEF UniqueIInv
<1> QED
  BY <1>1, <1>2, <1>3

LEMMA TypedStep == Typed /\ OpFitsStep /\ [Next]_vars => Typed'
<1> SUFFICES ASSUME Typed, OpFitsStep, [Next]_vars PROVE Typed'
  OBVIOUS
<1> USE DEF stored, Goto, AfterDrop, AfterInsert, Typed, Statement
<1>1. ASSUME NEW r \in Request, NEW c \in Calls, Begin(r, c) PROVE Typed'
  <2>1. c \in CallRow /\ FirstStatement[c.op] \in Statement
    BY CallsTyped
  <2> QED
    BY <1>1, <2>1 DEF Begin
<1>2. ASSUME NEW r \in Request, Check(r) PROVE Typed'
  BY <1>2 DEF Check
<1>3. ASSUME NEW r \in Request, SelectOwn(r) PROVE Typed'
  <2>1. {v.by : v \in OwnVotes(call[r])} \in SUBSET Request
    BY DEF OwnVotes, VoteRow
  <2> QED
    BY <1>3, <2>1 DEF SelectOwn
<1>4. ASSUME NEW r \in Request, Drop(r) PROVE Typed'
  BY <1>4 DEF Drop
<1>5. ASSUME NEW r \in Request, Insert(r) PROVE Typed'
  <2> DEFINE v == [by |-> r, entity |-> call[r].entity, user |-> call[r].user,
                  value |-> call[r].value, time |-> call[r].time]
  <2>1. call[r].user \in User /\ call[r].entity \in Entity
    BY <1>5 DEF Insert, OpFitsStep
  <2>2. v \in VoteRow
    BY <2>1 DEF VoteRow, CallRow
  <2> QED
    BY <1>5, <2>2 DEF Insert
<1>6. ASSUME NEW r \in Request, Wipe(r) PROVE Typed'
  BY <1>6 DEF Wipe
<1>7. ASSUME NEW r \in Request, Tally(r) PROVE Typed'
  BY <1>7 DEF Tally
<1>8. ASSUME NEW r \in Request, Split(r) PROVE Typed'
  BY <1>8 DEF Split
<1>9. ASSUME NEW r \in Request, Save(r) PROVE Typed'
  BY <1>9 DEF Save
<1>10. ASSUME NEW r \in Request, Return(r) PROVE Typed'
  BY <1>10 DEF Return
<1>11. ASSUME NEW r \in Request, Due(r) PROVE Typed'
  <2>1. \A s \in SUBSET votes : {v.entity : v \in s} \in SUBSET Nat
    <3>1. \A v \in VoteRow : v.entity \in Entity
      BY DEF VoteRow
    <3>2. \A v \in votes : v.entity \in Nat
      BY <3>1, VotingAssumption
    <3> QED
      BY <3>2
  <2>2. todo' \in [Request -> SUBSET Nat]
    BY <1>11, <2>1 DEF Due
  <2> QED
    BY <1>11, <2>2 DEF Due
<1>12. ASSUME NEW r \in Request, CronNext(r) PROVE Typed'
  <2>1. \A e \in todo[r] : [call[r] EXCEPT !.entity = e] \in CallRow
    BY DEF CallRow
  <2>2. call' \in [Request -> CallRow]
    BY <1>12, <2>1 DEF CronNext
  <2>3. \A e \in todo[r] : todo[r] \ {e} \in SUBSET Nat
    OBVIOUS
  <2>4. todo' \in [Request -> SUBSET Nat]
    BY <1>12, <2>3 DEF CronNext
  <2> QED
    BY <1>12, <2>2, <2>4 DEF CronNext
<1>13. ASSUME NEW r \in Request, CronReturn(r) PROVE Typed'
  BY <1>13 DEF CronReturn, CronEnds
<1>14. ASSUME NEW r \in Request, Snapshot(r) PROVE Typed'
  <2>1. \A s \in SUBSET votes : {v.by : v \in s} \in SUBSET Request
    BY DEF VoteRow
  <2>2. selected' \in [Request -> SUBSET Request]
    BY <1>14, <2>1 DEF Snapshot
  <2> QED
    BY <1>14, <2>2 DEF Snapshot
<1>15. ASSUME NEW r \in Request, Commit(r) PROVE Typed'
  <2>1. votes' \subseteq VoteRow /\ selected' \in [Request -> SUBSET Request]
    BY <1>15 DEF Commit
  <2> QED
    BY <1>15, <2>1 DEF Commit
<1>16. ASSUME NEW r \in Request, Die(r) PROVE Typed'
  BY <1>16 DEF Die
<1>17. CASE Tick
  BY <1>17, VotingAssumption DEF Tick
<1>18. CASE UNCHANGED vars
  BY <1>18 DEF vars
<1> QED
  BY <1>1, <1>2, <1>3, <1>4, <1>5, <1>6, <1>7, <1>8, <1>9, <1>10, <1>11, <1>12, <1>13, <1>14, <1>15, <1>16, <1>17, <1>18 DEF Next, Step

(* A call takes the statements of its kind. *)
LEMMA OpStep == Typed /\ OpFitsStep /\ [Next]_vars => OpFitsStep'
<1> SUFFICES ASSUME Typed, OpFitsStep, [Next]_vars PROVE OpFitsStep'
  OBVIOUS
<1> USE DEF stored, Goto, AfterDrop, AfterInsert, Typed, OpFitsStep
<1>1. ASSUME NEW r \in Request, NEW c \in Calls, Begin(r, c) PROVE OpFitsStep'
  BY <1>1, CallsTyped DEF Begin
<1>2. ASSUME NEW r \in Request, Check(r) PROVE OpFitsStep'
  BY <1>2 DEF Check
<1>3. ASSUME NEW r \in Request, SelectOwn(r) PROVE OpFitsStep'
  BY <1>3 DEF SelectOwn
<1>4. ASSUME NEW r \in Request, Drop(r) PROVE OpFitsStep'
  BY <1>4 DEF Drop
<1>5. ASSUME NEW r \in Request, Insert(r) PROVE OpFitsStep'
  BY <1>5 DEF Insert
<1>6. ASSUME NEW r \in Request, Wipe(r) PROVE OpFitsStep'
  BY <1>6 DEF Wipe
<1>7. ASSUME NEW r \in Request, Tally(r) PROVE OpFitsStep'
  BY <1>7 DEF Tally
<1>8. ASSUME NEW r \in Request, Split(r) PROVE OpFitsStep'
  BY <1>8 DEF Split
<1>9. ASSUME NEW r \in Request, Save(r) PROVE OpFitsStep'
  BY <1>9 DEF Save
<1>10. ASSUME NEW r \in Request, Return(r) PROVE OpFitsStep'
  BY <1>10 DEF Return
<1>11. ASSUME NEW r \in Request, Due(r) PROVE OpFitsStep'
  BY <1>11 DEF Due
<1>12. ASSUME NEW r \in Request, CronNext(r) PROVE OpFitsStep'
  <2> SUFFICES ASSUME NEW e \in todo[r], call' = [call EXCEPT ![r].entity = e]
               PROVE  OpFitsStep'
    BY <1>12 DEF CronNext
  <2>1. \A s \in Request : call'[s].op = call[s].op /\ call'[s].user = call[s].user
    BY DEF CallRow
  <2>2. \A s \in Request : s # r => call'[s] = call[s]
    OBVIOUS
  <2>3. call[r].op = "cron"
    BY <1>12 DEF CronNext
  <2> QED
    BY <1>12, <2>1, <2>2, <2>3 DEF CronNext
<1>13. ASSUME NEW r \in Request, CronReturn(r) PROVE OpFitsStep'
  BY <1>13 DEF CronReturn, CronEnds
<1>14. ASSUME NEW r \in Request, Snapshot(r) PROVE OpFitsStep'
  BY <1>14 DEF Snapshot
<1>15. ASSUME NEW r \in Request, Commit(r) PROVE OpFitsStep'
  BY <1>15 DEF Commit
<1>16. ASSUME NEW r \in Request, Die(r) PROVE OpFitsStep'
  BY <1>16 DEF Die
<1>17. CASE Tick
  BY <1>17 DEF Tick
<1>18. CASE UNCHANGED vars
  BY <1>18 DEF vars
<1> QED
  BY <1>1, <1>2, <1>3, <1>4, <1>5, <1>6, <1>7, <1>8, <1>9, <1>10, <1>11, <1>12, <1>13, <1>14, <1>15, <1>16, <1>17, <1>18 DEF Next, Step

(* The vote of a request is there after its INSERT, not before. *)
LEMMA CastStep == Typed /\ CastOnce /\ [Next]_vars => CastOnce'
<1> SUFFICES ASSUME Typed, CastOnce, [Next]_vars PROVE CastOnce'
  OBVIOUS
<1> USE DEF stored, Goto, AfterDrop, AfterInsert, Typed, VoteRow, CastOnce, Uncast
<1>1. ASSUME NEW r \in Request, NEW c \in Calls, Begin(r, c) PROVE CastOnce'
  <2>1. FirstStatement[c.op] \in {"check", "select", "snapshot", "due"}
    BY CallsTyped
  <2> QED
    BY <1>1, <2>1 DEF Begin
<1>2. ASSUME NEW r \in Request, Check(r) PROVE CastOnce'
  BY <1>2 DEF Check
<1>3. ASSUME NEW r \in Request, SelectOwn(r) PROVE CastOnce'
  <2>1. \A s \in OwnVotes(call[r]) : ~Uncast(s.by) /\ s.by # r
    BY <1>3 DEF SelectOwn, OwnVotes
  <2>2. \A s \in selected'[r] : ~Uncast(s) /\ s # r
    BY <1>3, <2>1 DEF SelectOwn
  <2> QED
    BY <1>3, <2>2 DEF SelectOwn
<1>4. ASSUME NEW r \in Request, Drop(r) PROVE CastOnce'
  BY <1>4 DEF Drop
<1>5. ASSUME NEW r \in Request, Insert(r) PROVE CastOnce'
  BY <1>5 DEF Insert
<1>6. ASSUME NEW r \in Request, Wipe(r) PROVE CastOnce'
  BY <1>6 DEF Wipe
<1>7. ASSUME NEW r \in Request, Tally(r) PROVE CastOnce'
  BY <1>7 DEF Tally
<1>8. ASSUME NEW r \in Request, Split(r) PROVE CastOnce'
  BY <1>8 DEF Split
<1>9. ASSUME NEW r \in Request, Save(r) PROVE CastOnce'
  BY <1>9 DEF Save
<1>10. ASSUME NEW r \in Request, Return(r) PROVE CastOnce'
  BY <1>10 DEF Return
<1>11. ASSUME NEW r \in Request, Due(r) PROVE CastOnce'
  BY <1>11 DEF Due
<1>12. ASSUME NEW r \in Request, CronNext(r) PROVE CastOnce'
  BY <1>12 DEF CronNext
<1>13. ASSUME NEW r \in Request, CronReturn(r) PROVE CastOnce'
  BY <1>13 DEF CronReturn, CronEnds
<1>14. ASSUME NEW r \in Request, Snapshot(r) PROVE CastOnce'
  BY <1>14 DEF Snapshot
<1>15. ASSUME NEW r \in Request, Commit(r) PROVE CastOnce'
  BY <1>15 DEF Commit
<1>16. ASSUME NEW r \in Request, Die(r) PROVE CastOnce'
  BY <1>16 DEF Die
<1>17. CASE Tick
  BY <1>17 DEF Tick
<1>18. CASE UNCHANGED vars
  BY <1>18 DEF vars
<1> QED
  BY <1>1, <1>2, <1>3, <1>4, <1>5, <1>6, <1>7, <1>8, <1>9, <1>10, <1>11, <1>12, <1>13, <1>14, <1>15, <1>16, <1>17, <1>18 DEF Next, Step

(* What a request has selected stays what its user cast. *)
LEMMA OwnStep ==
  Typed /\ CastOnce /\ SelectedOwn /\ [Next]_vars => SelectedOwn'
<1> SUFFICES ASSUME Typed, CastOnce, SelectedOwn, [Next]_vars PROVE SelectedOwn'
  OBVIOUS
<1> USE DEF stored, Goto, AfterDrop, AfterInsert, Typed, VoteRow, CastOnce, Uncast, SelectedOwn
<1>1. ASSUME NEW r \in Request, NEW c \in Calls, Begin(r, c) PROVE SelectedOwn'
  <2>1. FirstStatement[c.op] \notin {"drop", "commit"}
    BY CallsTyped
  <2>2. \A s \in Request : s # r => call'[s] = call[s] /\ pc'[s] = pc[s]
    BY <1>1 DEF Begin
  <2>3. pc'[r] \notin {"drop", "commit"}
    BY <1>1, <2>1 DEF Begin
  <2> QED
    BY <1>1, <2>2, <2>3 DEF Begin
<1>2. ASSUME NEW r \in Request, Check(r) PROVE SelectedOwn'
  BY <1>2 DEF Check
<1>3. ASSUME NEW r \in Request, SelectOwn(r) PROVE SelectedOwn'
  <2>1. \A v \in votes : v.by \in selected'[r] => v \in OwnVotes(call[r])
    BY <1>3 DEF SelectOwn, OwnVotes
  <2>2. \A v \in OwnVotes(call[r]) : v.entity = call[r].entity /\ v.user = call[r].user
    BY DEF OwnVotes
  <2>3. pc'[r] # "commit"
    BY <1>3 DEF SelectOwn
  <2> QED
    BY <1>3, <2>1, <2>2, <2>3 DEF SelectOwn
<1>4. ASSUME NEW r \in Request, Drop(r) PROVE SelectedOwn'
  BY <1>4 DEF Drop
<1>5. ASSUME NEW r \in Request, Insert(r) PROVE SelectedOwn'
  BY <1>5 DEF Insert
<1>6. ASSUME NEW r \in Request, Wipe(r) PROVE SelectedOwn'
  BY <1>6 DEF Wipe
<1>7. ASSUME NEW r \in Request, Tally(r) PROVE SelectedOwn'
  BY <1>7 DEF Tally
<1>8. ASSUME NEW r \in Request, Split(r) PROVE SelectedOwn'
  BY <1>8 DEF Split
<1>9. ASSUME NEW r \in Request, Save(r) PROVE SelectedOwn'
  BY <1>9 DEF Save
<1>10. ASSUME NEW r \in Request, Return(r) PROVE SelectedOwn'
  BY <1>10 DEF Return
<1>11. ASSUME NEW r \in Request, Due(r) PROVE SelectedOwn'
  BY <1>11 DEF Due
<1>12. ASSUME NEW r \in Request, CronNext(r) PROVE SelectedOwn'
  BY <1>12 DEF CronNext
<1>13. ASSUME NEW r \in Request, CronReturn(r) PROVE SelectedOwn'
  BY <1>13 DEF CronReturn, CronEnds
<1>14. ASSUME NEW r \in Request, Snapshot(r) PROVE SelectedOwn'
  <2>1. \A v \in votes : v.by \in selected'[r] => v.entity \in Ids(call[r].entity)
    BY <1>14 DEF Snapshot
  <2>2. pc'[r] = "commit"
    BY <1>14 DEF Snapshot
  <2> QED
    BY <1>14, <2>1, <2>2 DEF Snapshot
<1>15. ASSUME NEW r \in Request, Commit(r) PROVE SelectedOwn'
  BY <1>15 DEF Commit
<1>16. ASSUME NEW r \in Request, Die(r) PROVE SelectedOwn'
  BY <1>16 DEF Die
<1>17. CASE Tick
  BY <1>17 DEF Tick
<1>18. CASE UNCHANGED vars
  BY <1>18 DEF vars
<1> QED
  BY <1>1, <1>2, <1>3, <1>4, <1>5, <1>6, <1>7, <1>8, <1>9, <1>10, <1>11, <1>12, <1>13, <1>14, <1>15, <1>16, <1>17, <1>18 DEF Next, Step

(* A call keeps the votes it began beside, whatever cron does with it. *)
LEMMA BesideKept ==
  ASSUME Typed, OpFitsStep, NEW r \in Request, CronNext(r)
  PROVE  /\ \A s \in Request : call'[s].beside = call[s].beside
         /\ \A s \in Request : call'[s].op = call[s].op /\ call'[s].user = call[s].user
         /\ \A s \in Request : s # r => call'[s] = call[s]
         /\ call'[r].op = "cron"
<1> SUFFICES ASSUME NEW e \in todo[r], call' = [call EXCEPT ![r].entity = e],
                    call[r].op = "cron"
             PROVE  /\ \A s \in Request : call'[s].beside = call[s].beside
                    /\ \A s \in Request : call'[s].op = call[s].op /\ call'[s].user = call[s].user
                    /\ \A s \in Request : s # r => call'[s] = call[s]
                    /\ call'[r].op = "cron"
  BY DEF CronNext
<1>1. call \in [Request -> CallRow]
  BY DEF Typed
<1> QED
  BY <1>1 DEF CallRow

(* A vote that begins notes the other votes of its user that are under way. *)
LEMMA OverlapsStep == Typed /\ OpFitsStep /\ OverlapsKnown /\ [Next]_vars => OverlapsKnown'
<1> SUFFICES ASSUME Typed, OpFitsStep, OverlapsKnown, [Next]_vars PROVE OverlapsKnown'
  OBVIOUS
<1> DEFINE Voting(s) == Active(s) /\ call[s].op = "vote"
<1>1. ASSUME NEW r \in Request, NEW c \in Calls, Begin(r, c) PROVE OverlapsKnown'
  <2>1. call'[r] = c /\ \A s \in Request : s # r => call'[s] = call[s] /\ pc'[s] = pc[s]
    BY <1>1 DEF Begin, Goto, Typed
  <2>2. c.op = "vote" => c.beside = VotesUnderWay(c.user)
    BY CallsTyped DEF Typed
  <2>3. \A s \in Request : s # r => call'[s] = call[s] /\ (Voting(s)' <=> Voting(s))
    BY <2>1 DEF Active
  <2>4. \A s \in Request : s # r /\ Voting(s) /\ c.op = "vote" /\ call[s].user = c.user
                            => s \in c.beside
    BY <2>2 DEF VotesUnderWay
  <2>5. Voting(r)' => c.op = "vote"
    BY <2>1
  <2>6. ASSUME NEW s \in Request, NEW q \in Request, s # q, Voting(s)', Voting(q)',
               (call[s].user = call[q].user)'
        PROVE  Overlap(s, q)'
    <3>1. CASE s # r /\ q # r
      BY <2>3, <2>6, <3>1 DEF OverlapsKnown, VotesUnderWay, Overlap
    <3>2. CASE s = r
      <4>1. q # r /\ call'[q] = call[q] /\ Voting(q) /\ c.op = "vote" /\ call[q].user = c.user
        BY <2>1, <2>3, <2>5, <2>6, <3>2
      <4>2. q \in call'[r].beside
        BY <2>1, <2>4, <4>1
      <4> QED
        BY <3>2, <4>2 DEF Overlap
    <3>3. CASE q = r
      <4>1. s # r /\ call'[s] = call[s] /\ Voting(s) /\ c.op = "vote" /\ call[s].user = c.user
        BY <2>1, <2>3, <2>5, <2>6, <3>3
      <4>2. s \in call'[r].beside
        BY <2>1, <2>4, <4>1
      <4> QED
        BY <3>3, <4>2 DEF Overlap
    <3> QED
      BY <3>1, <3>2, <3>3
  <2> QED
    BY <2>6 DEF OverlapsKnown, VotesUnderWay
<1>2. ASSUME call' = call, \A s \in Request : Active(s)' => Active(s) PROVE OverlapsKnown'
  <2>1. \A s, q \in Request : Overlap(s, q)' <=> Overlap(s, q)
    BY <1>2 DEF Overlap
  <2> QED
    BY <1>2, <2>1 DEF OverlapsKnown, VotesUnderWay
<1>3. ASSUME NEW r \in Request, CronNext(r) PROVE OverlapsKnown'
  <2>1. \A s \in Request : Active(s)' => Active(s)
    BY <1>3 DEF CronNext, Goto, Typed, Active
  <2> QED
    BY <1>3, <2>1, BesideKept DEF OverlapsKnown, VotesUnderWay, Overlap
<1>4. ASSUME NEW r \in Request, Step(r) \/ Die(r), ~CronNext(r)
      PROVE  call' = call /\ \A s \in Request : Active(s)' => Active(s)
  BY <1>4 DEF Step, Check, SelectOwn, Drop, Insert, Wipe, Tally, Split, Save, Return, Due,
     CronReturn, CronEnds, Snapshot, Commit, Die, Goto, stored, Typed, Active
<1>5. Tick \/ UNCHANGED vars => call' = call /\ pc' = pc
  BY DEF Tick, vars
<1> QED
  BY <1>1, <1>2, <1>3, <1>4, <1>5 DEF Next, Active

(* Only an overlapping request adds a vote of this user between the SELECT and *)
(* the INSERT.                                                                 *)
LEMMA OlderStep ==
  Typed /\ OpFitsStep /\ CastOnce /\ OverlapsKnown /\ OthersOlder /\ [Next]_vars
    => OthersOlder'
<1> SUFFICES ASSUME Typed, OpFitsStep, CastOnce, OverlapsKnown, OthersOlder, [Next]_vars
             PROVE  OthersOlder'
  OBVIOUS
<1> USE VotingAssumption DEF stored, Goto, AfterDrop, AfterInsert, Typed, OthersOlder, Older, Overlap
<1>1. ASSUME NEW r \in Request, NEW c \in Calls, Begin(r, c) PROVE OthersOlder'
  <2>1. FirstStatement[c.op] \notin {"drop", "insert"}
    BY CallsTyped
  <2>2. \A s \in Request : s # r => call'[s] = call[s] /\ pc'[s] = pc[s]
    BY <1>1 DEF Begin
  <2>3. pc'[r] \notin {"drop", "insert"}
    BY <1>1, <2>1 DEF Begin
  <2>4. \A v \in votes : v.by # r /\ v.by \in Request
    BY <1>1 DEF Begin, CastOnce, Uncast, VoteRow
  <2>5. votes' = votes /\ selected' = selected
    BY <1>1 DEF Begin
  <2> SUFFICES ASSUME NEW s \in Request, NEW v \in votes',
                      (/\ call[s].op = "vote" /\ v.entity = call[s].entity
                       /\ v.user = call[s].user /\ ~Overlap(s, v.by))'
               PROVE  (/\ pc[s] = "insert" => Older(v, call[s])
                       /\ pc[s] = "drop" => v.by \in selected[s] \/ Older(v, call[s]))'
    OBVIOUS
  <2>6. CASE s = r
    BY <2>3, <2>6
  <2>7. CASE s # r
    <3>1. call'[s] = call[s] /\ pc'[s] = pc[s] /\ call'[v.by] = call[v.by] /\ v \in votes
      BY <2>2, <2>4, <2>5, <2>7
    <3> QED
      BY <2>5, <3>1
  <2> QED
    BY <2>6, <2>7
<1>2. ASSUME NEW r \in Request, Check(r) PROVE OthersOlder'
  BY <1>2 DEF Check
<1>3. ASSUME NEW r \in Request, SelectOwn(r) PROVE OthersOlder'
  <2>1. \A v \in votes : v.entity = call[r].entity /\ v.user = call[r].user =>
          v \in OwnVotes(call[r]) \/ Older(v, call[r])
    BY DEF OwnVotes, VoteRow, CallRow
  <2>2. \A v \in OwnVotes(call[r]) : v.by \in selected'[r]
    BY <1>3 DEF SelectOwn
  <2>3. pc'[r] = "insert" => selected'[r] = {}
    BY <1>3 DEF SelectOwn
  <2>4. \A s \in Request : s # r => selected'[s] = selected[s] /\ pc'[s] = pc[s]
    BY <1>3 DEF SelectOwn
  <2>5. votes' = votes /\ call' = call
    BY <1>3 DEF SelectOwn
  <2> QED
    BY <2>1, <2>2, <2>3, <2>4, <2>5
<1>4. ASSUME NEW r \in Request, Drop(r) PROVE OthersOlder'
  BY <1>4 DEF Drop
<1>5. ASSUME NEW r \in Request, Insert(r) PROVE OthersOlder'
  <2> DEFINE v == [by |-> r, entity |-> call[r].entity, user |-> call[r].user,
                  value |-> call[r].value, time |-> call[r].time]
  <2>1. votes' = votes \cup {v} /\ call' = call /\ selected' = selected
    BY <1>5 DEF Insert
  <2>2. pc'[r] \notin {"insert", "drop"} /\ \A s \in Request : s # r => pc'[s] = pc[s]
    BY <1>5 DEF Insert
  <2>3. call[r].op = "vote" /\ Active(r)
    BY <1>5 DEF Insert, OpFitsStep, Active
  <2>4. \A s \in Request : /\ s # r /\ pc[s] \in {"insert", "drop"}
                            /\ call[s].op = "vote" /\ call[s].user = v.user => Overlap(s, v.by)
    BY <2>3 DEF OverlapsKnown, VotesUnderWay, Active, Overlap
  <2>5. v.by = r
    OBVIOUS
  <2> HIDE DEF v
  <2> SUFFICES ASSUME NEW s \in Request, NEW w \in votes',
                      (/\ call[s].op = "vote" /\ w.entity = call[s].entity
                       /\ w.user = call[s].user /\ ~Overlap(s, w.by))'
               PROVE  (/\ pc[s] = "insert" => Older(w, call[s])
                       /\ pc[s] = "drop" => w.by \in selected[s] \/ Older(w, call[s]))'
    OBVIOUS
  <2>6. CASE s = r
    BY <2>2, <2>6
  <2>7. CASE s # r /\ w \in votes
    BY <2>1, <2>2, <2>7
  <2>8. CASE s # r /\ w = v
    BY <2>1, <2>2, <2>4, <2>8
  <2> QED
    BY <2>1, <2>6, <2>7, <2>8
<1>6. ASSUME NEW r \in Request, Wipe(r) PROVE OthersOlder'
  BY <1>6 DEF Wipe
<1>7. ASSUME NEW r \in Request, Tally(r) PROVE OthersOlder'
  BY <1>7 DEF Tally
<1>8. ASSUME NEW r \in Request, Split(r) PROVE OthersOlder'
  BY <1>8 DEF Split
<1>9. ASSUME NEW r \in Request, Save(r) PROVE OthersOlder'
  BY <1>9 DEF Save
<1>10. ASSUME NEW r \in Request, Return(r) PROVE OthersOlder'
  BY <1>10 DEF Return
<1>11. ASSUME NEW r \in Request, Due(r) PROVE OthersOlder'
  BY <1>11 DEF Due
<1>12. ASSUME NEW r \in Request, CronNext(r) PROVE OthersOlder'
  <2>1. votes' = votes /\ selected' = selected /\ \A s \in Request : s # r => pc'[s] = pc[s]
    BY <1>12 DEF CronNext, stored
  <2>2. \A v \in votes : v.by \in Request
    BY DEF VoteRow
  <2> QED
    BY <1>12, <2>1, <2>2, BesideKept
<1>13. ASSUME NEW r \in Request, CronReturn(r) PROVE OthersOlder'
  BY <1>13 DEF CronReturn, CronEnds
<1>14. ASSUME NEW r \in Request, Snapshot(r) PROVE OthersOlder'
  BY <1>14 DEF Snapshot
<1>15. ASSUME NEW r \in Request, Commit(r) PROVE OthersOlder'
  BY <1>15 DEF Commit
<1>16. ASSUME NEW r \in Request, Die(r) PROVE OthersOlder'
  BY <1>16 DEF Die
<1>17. CASE Tick
  BY <1>17 DEF Tick
<1>18. CASE UNCHANGED vars
  BY <1>18 DEF vars
<1> QED
  BY <1>1, <1>2, <1>3, <1>4, <1>5, <1>6, <1>7, <1>8, <1>9, <1>10, <1>11, <1>12, <1>13, <1>14, <1>15, <1>16, <1>17, <1>18 DEF Next, Step

(* So a vote is added when those of its window are gone. *)
LEMMA UniqueStep ==
  Typed /\ OpFitsStep /\ CastOnce /\ OthersOlder /\ VotesAreUnique /\ [Next]_vars
    => VotesAreUnique'
<1> SUFFICES ASSUME Typed, OpFitsStep, CastOnce, OthersOlder, VotesAreUnique, [Next]_vars
             PROVE  VotesAreUnique'
  OBVIOUS
<1> USE VotingAssumption DEF stored, Typed, OthersOlder, Older, VotesAreUnique, Overlap
<1>1. ASSUME NEW r \in Request, NEW c \in Calls, Begin(r, c) PROVE VotesAreUnique'
  <2>1. votes' = votes /\ \A s \in Request : s # r => call'[s] = call[s]
    BY <1>1 DEF Begin
  <2>2. \A v \in votes : v.by # r /\ v.by \in Request
    BY <1>1 DEF Begin, CastOnce, Uncast, VoteRow
  <2> QED
    BY <2>1, <2>2
<1>2. ASSUME NEW r \in Request, Check(r) PROVE VotesAreUnique'
  BY <1>2 DEF Check
<1>3. ASSUME NEW r \in Request, SelectOwn(r) PROVE VotesAreUnique'
  BY <1>3 DEF SelectOwn
<1>4. ASSUME NEW r \in Request, Drop(r) PROVE VotesAreUnique'
  BY <1>4 DEF Drop
<1>5. ASSUME NEW r \in Request, Insert(r) PROVE VotesAreUnique'
  <2> DEFINE n == [by |-> r, entity |-> call[r].entity, user |-> call[r].user,
                  value |-> call[r].value, time |-> call[r].time]
  <2>1. votes' = votes \cup {n} /\ call' = call
    BY <1>5 DEF Insert
  <2>2. \A v \in votes : v.entity = n.entity /\ v.user = n.user /\ ~Overlap(r, v.by)
                          => Older(v, call[r])
    BY <1>5 DEF Insert, OpFitsStep
  <2>3. call[r].user \in User /\ call[r].time \in Int
    BY <1>5 DEF Insert, OpFitsStep, CallRow
  <2>4. \A v \in votes : v.entity = n.entity /\ v.user = n.user /\ ~Overlap(n.by, v.by) =>
          Window[v.user] >= 0 /\ n.time - v.time >= Window[v.user]
    BY <2>2, <2>3 DEF VoteRow
  <2>5. n.user = call[r].user
    OBVIOUS
  <2> HIDE DEF n
  <2> QED
    BY <2>1, <2>4, <2>5
<1>6. ASSUME NEW r \in Request, Wipe(r) PROVE VotesAreUnique'
  BY <1>6 DEF Wipe
<1>7. ASSUME NEW r \in Request, Tally(r) PROVE VotesAreUnique'
  BY <1>7 DEF Tally
<1>8. ASSUME NEW r \in Request, Split(r) PROVE VotesAreUnique'
  BY <1>8 DEF Split
<1>9. ASSUME NEW r \in Request, Save(r) PROVE VotesAreUnique'
  BY <1>9 DEF Save
<1>10. ASSUME NEW r \in Request, Return(r) PROVE VotesAreUnique'
  BY <1>10 DEF Return
<1>11. ASSUME NEW r \in Request, Due(r) PROVE VotesAreUnique'
  BY <1>11 DEF Due
<1>12. ASSUME NEW r \in Request, CronNext(r) PROVE VotesAreUnique'
  <2>1. votes' = votes
    BY <1>12 DEF CronNext, stored
  <2>2. \A v \in votes : v.by \in Request
    BY DEF VoteRow
  <2> QED
    BY <1>12, <2>1, <2>2, BesideKept
<1>13. ASSUME NEW r \in Request, CronReturn(r) PROVE VotesAreUnique'
  BY <1>13 DEF CronReturn, CronEnds
<1>14. ASSUME NEW r \in Request, Snapshot(r) PROVE VotesAreUnique'
  BY <1>14 DEF Snapshot
<1>15. ASSUME NEW r \in Request, Commit(r) PROVE VotesAreUnique'
  BY <1>15 DEF Commit
<1>16. ASSUME NEW r \in Request, Die(r) PROVE VotesAreUnique'
  BY <1>16 DEF Die
<1>17. CASE Tick
  BY <1>17 DEF Tick
<1>18. CASE UNCHANGED vars
  BY <1>18 DEF vars
<1> QED
  BY <1>1, <1>2, <1>3, <1>4, <1>5, <1>6, <1>7, <1>8, <1>9, <1>10, <1>11, <1>12, <1>13, <1>14, <1>15, <1>16, <1>17, <1>18 DEF Next, Step

(* What every request may rely on at each of its statements. *)
THEOREM InductiveInvariant == Spec => [](Typed /\ VotesIInv)
<1>1. Init => Typed /\ VotesIInv
  BY InitInvariants
<1>2. Typed /\ VotesIInv /\ [Next]_vars => Typed' /\ VotesIInv'
  BY TypedStep, OpStep, CastStep, OwnStep DEF VotesIInv
<1> QED
  BY <1>1, <1>2, PTL DEF Spec

(* votingapi_set_votes() leaves one vote per window of a user and entity but    *)
(* for votes of requests that were under way at the same time, whatever else   *)
(* runs, dies or is deleted in between.                                        *)
THEOREM OneVotePerWindow == Spec => []VotesAreUnique
<1>1. Init => UniqueIInv
  BY InitInvariants
<1>2. Typed /\ VotesIInv /\ UniqueIInv /\ [Next]_vars => UniqueIInv'
  BY OverlapsStep, OlderStep, UniqueStep DEF VotesIInv, UniqueIInv
<1>3. UniqueIInv => VotesAreUnique
  BY DEF UniqueIInv, VotesAreUnique
<1> QED
  BY <1>1, <1>2, <1>3, InductiveInvariant, PTL DEF Spec

(* A vote goes away only when its own user votes again or resets, or when a    *)
(* node is deleted that has the vote's entity for its id or its revision id:   *)
(* what votingapi_entity_delete() takes away is bounded by its two ids, however *)
(* many other requests vote between its snapshot and its commit.               *)
ByOwnOrByIds ==
  \A v \in votes \ votes' :
    \E r \in Request :
      /\ Active(r)
      /\ \/ call[r].op \in {"vote", "reset"} /\ call[r].entity = v.entity /\ call[r].user = v.user
         \/ call[r].op = "delete" /\ v.entity \in Ids(call[r].entity)

THEOREM VotesGoByTheirIds == Spec => [][ByOwnOrByIds]_vars
<1>1. Typed /\ VotesIInv /\ [Next]_vars => [ByOwnOrByIds]_vars
  <2> SUFFICES ASSUME Typed, VotesIInv, Next PROVE ByOwnOrByIds
    BY DEF vars
  <2> USE DEF stored, VotesIInv, Typed, ByOwnOrByIds
  <2>1. ASSUME NEW r \in Request, Drop(r) PROVE ByOwnOrByIds
    <3>1. Active(r) /\ call[r].op \in {"vote", "reset"}
      BY <2>1 DEF Drop, OpFitsStep, Active
    <3>2. \A v \in votes \ votes' : v.entity = call[r].entity /\ v.user = call[r].user
      BY <2>1 DEF Drop, SelectedOwn
    <3> QED
      BY <3>1, <3>2
  <2>2. ASSUME NEW r \in Request, Commit(r) PROVE ByOwnOrByIds
    <3>1. call[r].op = "delete" /\ Active(r)
      BY <2>2 DEF Commit, OpFitsStep, Active
    <3>2. \A v \in votes \ votes' : v.entity \in Ids(call[r].entity)
      BY <2>2 DEF Commit, SelectedOwn
    <3> QED
      BY <3>1, <3>2
  <2>3. ASSUME NEW r \in Request, Insert(r) PROVE ByOwnOrByIds
    BY <2>3 DEF Insert
  <2>4. ASSUME votes' = votes PROVE ByOwnOrByIds
    BY <2>4
  <2> QED
    BY <2>1, <2>2, <2>3, <2>4 DEF Next, Step, Begin, Check, SelectOwn, Wipe, Tally, Split, Save,
       Return, Due, CronNext, CronReturn, CronEnds, Snapshot, Die, Tick
<1>2. Spec => [][Next]_vars
  BY DEF Spec
<1> QED
  BY <1>1, <1>2, InductiveInvariant, PTL

-----------------------------------------------------------------------------
(* The rows a request holds are those of its entity; cron has none at first.   *)
RowsFit ==
  /\ rows = [r \in Request |-> rows[r]]
  /\ \A w \in results : w.entity \in Entity
  /\ \A r \in Request :
       /\ todo[r] \subseteq Entity
       /\ pc[r] \in {"wipe", "tally", "split"} => call[r].entity \in Entity
       /\ pc[r] \in {"new", "due"} => rows[r] = {}
       /\ pc[r] = "due" => call[r].op = "cron" /\ call[r].entity = 0
       /\ call[r].op = "delete" => pc[r] \in {"snapshot", "commit", "done", "dead"}
       /\ \A w \in rows[r] :
            /\ w.entity \in Entity
            /\ pc[r] \in {"split", "save"} => w.entity = call[r].entity
            /\ pc[r] = "commit" => w.entity \in Ids(call[r].entity)
       /\ Schedule = "immediate" => todo[r] = {}

Others(r) ==
  \A s \in Request \ {r} :
    /\ pc'[s] = pc[s] /\ call'[s] = call[s] /\ selected'[s] = selected[s]
    /\ rows'[s] = rows[s] /\ todo'[s] = todo[s]

(* A step of a request changes nothing of another one, and of its call at most *)
(* the entity, when cron takes the next one.                                   *)
LEMMA OwnOnly ==
  ASSUME Typed, RowsFit, NEW r \in Request, Step(r) \/ Die(r)
  PROVE  /\ Active(r) /\ pc'[r] # "new" /\ Others(r)
         /\ alone' = alone /\ now' = now /\ rows' = [s \in Request |-> rows'[s]]
         /\ call'[r].op = call[r].op /\ call'[r].user = call[r].user
         /\ call'[r].time = call[r].time
         /\ pc[r] # "save" => call'[r] = call[r]
<1> USE DEF Active, Others, Typed, RowsFit, Goto, stored, AfterDrop, AfterInsert
<1>1. CASE Check(r)
  BY <1>1 DEF Check
<1>2. CASE SelectOwn(r)
  BY <1>2 DEF SelectOwn
<1>3. CASE Drop(r)
  BY <1>3 DEF Drop
<1>4. CASE Insert(r)
  BY <1>4 DEF Insert
<1>5. CASE Wipe(r)
  BY <1>5 DEF Wipe
<1>6. CASE Tally(r)
  BY <1>6 DEF Tally
<1>7. CASE Split(r)
  BY <1>7 DEF Split
<1>8. CASE Save(r)
  BY <1>8 DEF Save
<1>9. CASE Return(r)
  BY <1>9 DEF Return
<1>10. CASE Due(r)
  BY <1>10 DEF Due
<1>11. CASE CronNext(r)
  <2> SUFFICES ASSUME NEW e \in todo[r], call' = [call EXCEPT ![r].entity = e],
                      todo' = [todo EXCEPT ![r] = @ \ {e}]
               PROVE  /\ call'[r].op = call[r].op /\ call'[r].user = call[r].user
                      /\ call'[r].time = call[r].time
                      /\ \A s \in Request \ {r} : call'[s] = call[s] /\ todo'[s] = todo[s]
    BY <1>11 DEF CronNext
  <2>1. call[r] \in CallRow
    OBVIOUS
  <2> QED
    BY <2>1 DEF CallRow
<1>12. CASE CronReturn(r)
  BY <1>12 DEF CronReturn, CronEnds
<1>13. CASE Snapshot(r)
  BY <1>13 DEF Snapshot
<1>14. CASE Commit(r)
  BY <1>14 DEF Commit
<1>15. CASE Die(r)
  BY <1>15 DEF Die
<1> QED
  BY <1>1, <1>2, <1>3, <1>4, <1>5, <1>6, <1>7, <1>8, <1>9, <1>10, <1>11, <1>12, <1>13, <1>14, <1>15 DEF Step

(* The right row for a result function is the one with the total of the votes   *)
(* there are.                                                                  *)
IsRight(w, e, f) == w.entity = e /\ w.function = f /\ w.value = Total(e, f)

HasRight(ws, e, f) == \E w \in ws : IsRight(w, e, f)

(* A request on the entity that has yet to read the votes brings the right row, *)
(* and so does one that has read them and not written the row.                 *)
Brings(r, e, f) ==
  \/ pc[r] \in {"select", "drop", "insert", "wipe", "tally"}
  \/ pc[r] = "split" /\ (f = "positives" \/ HasRight(rows[r], e, f))
  \/ pc[r] = "save" /\ HasRight(rows[r], e, f)

(* No request died on the entity, and none takes its id for one of those of a  *)
(* node it deletes.                                                            *)
Intact(e) ==
  \A r \in Request :
    /\ call[r].entity = e => pc[r] # "dead"
    /\ call[r].op = "delete" => e \notin Ids(call[r].entity)

Supplied(e, f) ==
  Counted(e, f) # {} =>
    \/ HasRight(results, e, f)
    \/ \E r \in Request : call[r].entity = e /\ Brings(r, e, f)

(* Each row that is due is cached, or a request on the entity brings it.        *)
RightComes ==
  Schedule = "immediate" =>
    \A e \in Entity, f \in ResultFunction : Intact(e) => Supplied(e, f)

LEMMA FirstIsOne == \A s : s # {} => First(s) \in s
<1> SUFFICES ASSUME NEW s, s # {} PROVE First(s) \in s
  OBVIOUS
<1>1. \E w \in s : w.function = "sum" \/ \A x \in s : x.function # "sum"
  OBVIOUS
<1> QED
  BY <1>1 DEF First

LEMMA TalliedIsOwn ==
  ASSUME NEW r, NEW e, NEW f, NEW w \in Tallied(r, e, f)
  PROVE  w.entity = e /\ w.function = f /\ w.value = Total(e, f) /\ Counted(e, f) # {}
BY DEF Tallied, ResultRow

LEMMA TalliedHas ==
  ASSUME NEW r, NEW e, NEW f, Counted(e, f) # {}
  PROVE  HasRight(Tallied(r, e, f), e, f)
<1>1. ResultRow(r, e, f) \in Tallied(r, e, f)
  BY DEF Tallied
<1>2. IsRight(ResultRow(r, e, f), e, f)
  BY DEF ResultRow, IsRight
<1> QED
  BY <1>1, <1>2 DEF HasRight

LEMMA RowsStep == Typed /\ OpFitsStep /\ RowsFit /\ [Next]_vars => RowsFit'
<1> SUFFICES ASSUME Typed, OpFitsStep, RowsFit, [Next]_vars PROVE RowsFit'
  OBVIOUS
<1> DEFINE Fits(r) ==
      /\ todo[r] \subseteq Entity
      /\ pc[r] \in {"wipe", "tally", "split"} => call[r].entity \in Entity
      /\ pc[r] \in {"new", "due"} => rows[r] = {}
      /\ pc[r] = "due" => call[r].op = "cron" /\ call[r].entity = 0
      /\ call[r].op = "delete" => pc[r] \in {"snapshot", "commit", "done", "dead"}
      /\ \A w \in rows[r] :
           /\ w.entity \in Entity
           /\ pc[r] \in {"split", "save"} => w.entity = call[r].entity
           /\ pc[r] = "commit" => w.entity \in Ids(call[r].entity)
      /\ Schedule = "immediate" => todo[r] = {}
<1> USE DEF Typed, stored, Goto, AfterDrop, AfterInsert
<1>0. RowsFit <=> rows = [r \in Request |-> rows[r]] /\ (\A w \in results : w.entity \in Entity)
                  /\ \A r \in Request : Fits(r)
  BY DEF RowsFit
<1>1. ASSUME NEW r \in Request, NEW c \in Calls, Begin(r, c) PROVE RowsFit'
  <2>1. /\ FirstStatement["vote"] = "check" /\ FirstStatement["reset"] = "select"
        /\ FirstStatement["delete"] = "snapshot" /\ FirstStatement["cron"] = "due"
    BY DEF FirstStatement, OperationKind
  <2>2. c.op \in OperationKind /\ (c.op = "cron" => c.entity = 0)
    BY DEF Calls, OperationKind
  <2>3. \A s \in Request : rows'[s] = rows[s] /\ todo'[s] = todo[s]
    BY <1>1 DEF Begin
  <2>4. \A s \in Request \ {r} : pc'[s] = pc[s] /\ call'[s] = call[s]
    BY <1>1 DEF Begin
  <2>5. call'[r] = c /\ pc'[r] = FirstStatement[c.op] /\ rows[r] = {} /\ pc[r] = "new"
    BY <1>1 DEF Begin, RowsFit
  <2>6. \A s \in Request \ {r} : Fits(s)'
    BY <1>0, <2>3, <2>4 DEF Ids
  <2>7. Fits(r)'
    BY <1>0, <2>1, <2>2, <2>3, <2>5 DEF OperationKind
  <2> QED
    BY <1>0, <1>1, <2>6, <2>7 DEF Begin, RowsFit
<1>2. ASSUME NEW r \in Request, Step(r) \/ Die(r) PROVE RowsFit'
  <2>1. Active(r) /\ Others(r) /\ rows' = [s \in Request |-> rows'[s]]
    BY <1>2, OwnOnly
  <2>2. \A s \in Request \ {r} : Fits(s)'
    BY <1>0, <2>1 DEF Others, Ids
  <2>3. SUFFICES Fits(r)' /\ \A w \in results' : w.entity \in Entity
    BY <2>1, <2>2 DEF RowsFit
  <2>4. Fits(r) /\ (\A w \in results : w.entity \in Entity)
    BY <1>0
  <2> HIDE DEF Fits
  <2> DEFINE Goal == Fits(r)' /\ \A w \in results' : w.entity \in Entity
  <2> SUFFICES Goal
    OBVIOUS
  <2>5. CASE Check(r)
    BY <2>4, <2>5 DEF Check, Fits
  <2>6. CASE SelectOwn(r)
    BY <2>4, <2>6 DEF SelectOwn, OpFitsStep, Fits
  <2>7. CASE Drop(r)
    BY <2>4, <2>7 DEF Drop, OpFitsStep, Fits
  <2>8. CASE Insert(r)
    BY <2>4, <2>8 DEF Insert, OpFitsStep, Fits
  <2>9. CASE Wipe(r)
    BY <2>4, <2>9 DEF Wipe, Fits
  <2>10. CASE Tally(r)
    <3>1. \A w \in Tallied(r, call[r].entity, "sum") : w.entity = call[r].entity
      BY TalliedIsOwn
    <3>2. rows'[r] = Tallied(r, call[r].entity, "sum")
      BY <2>10 DEF Tally, RowsFit
    <3> QED
      BY <2>4, <2>10, <3>1, <3>2 DEF Tally, Fits
  <2>11. CASE Split(r)
    <3>1. \A w \in Tallied(r, call[r].entity, "positives") : w.entity = call[r].entity
      BY TalliedIsOwn
    <3>2. rows'[r] = rows[r] \cup Tallied(r, call[r].entity, "positives")
      BY <2>11 DEF Split, RowsFit
    <3> QED
      BY <2>4, <2>11, <3>1, <3>2 DEF Split, Fits
  <2>12. CASE Save(r)
    <3>1. First(rows[r]) \in rows[r]
      BY <2>12, FirstIsOne DEF Save
    <3>2. rows'[r] = rows[r] \ {First(rows[r])} /\ results' = results \cup {First(rows[r])}
      BY <2>12 DEF Save, RowsFit
    <3> QED
      BY <2>4, <2>12, <3>1, <3>2 DEF Save, Fits
  <2>13. CASE Return(r)
    BY <2>4, <2>13 DEF Return, Fits
  <2>14. CASE Due(r)
    <3>1. \A s \in SUBSET votes : {v.entity : v \in s} \subseteq Entity
      BY DEF VoteRow
    <3>2. todo'[r] \subseteq Entity /\ (Schedule = "immediate" => todo'[r] = {})
      BY <2>14, <3>1 DEF Due
    <3> QED
      BY <2>4, <2>14, <3>2 DEF Due, Fits
  <2>15. CASE CronNext(r)
    <3>1. PICK e \in todo[r] : todo' = [todo EXCEPT ![r] = @ \ {e}] /\ call' = [call EXCEPT ![r].entity = e]
      BY <2>15 DEF CronNext
    <3>2. call[r] \in CallRow
      OBVIOUS
    <3>3. call'[r].entity = e /\ call'[r].op = "cron" /\ todo'[r] = todo[r] \ {e}
      BY <2>15, <3>1, <3>2 DEF CronNext, CallRow
    <3> QED
      BY <2>4, <2>15, <3>3 DEF CronNext, Fits
  <2>16. CASE CronReturn(r)
    BY <2>4, <2>16 DEF CronReturn, CronEnds, Fits
  <2>17. CASE Snapshot(r)
    <3>1. rows'[r] = {w \in results : w.entity \in Ids(call[r].entity)}
      BY <2>17 DEF Snapshot, RowsFit
    <3> QED
      BY <2>4, <2>17, <3>1 DEF Snapshot, Ids, Fits
  <2>18. CASE Commit(r)
    <3>1. rows'[r] = {}
      BY <2>18 DEF Commit, RowsFit
    <3> QED
      BY <2>4, <2>18, <3>1 DEF Commit, Fits
  <2>19. CASE Die(r)
    BY <2>4, <2>19 DEF Die, Fits
  <2> QED
    BY <1>2, <2>5, <2>6, <2>7, <2>8, <2>9, <2>10, <2>11, <2>12, <2>13, <2>14, <2>15, <2>16, <2>17, <2>18, <2>19 DEF Step
<1>3. CASE Tick \/ UNCHANGED vars
  <2>1. UNCHANGED <<pc, call, rows, todo, results>>
    BY <1>3 DEF Tick, vars
  <2> QED
    BY <2>1 DEF RowsFit, Ids
<1> QED
  BY <1>1, <1>2, <1>3 DEF Next

LEMMA RightKept ==
  ASSUME NEW e, NEW f, Counted(e, f)' = Counted(e, f)
  PROVE  \A w : IsRight(w, e, f)' <=> IsRight(w, e, f)
<1>1. Total(e, f)' = Total(e, f)
  BY DEF Total
<1> QED
  BY <1>1 DEF IsRight

LEMMA CountedKept ==
  ASSUME NEW e, \A v : v \in votes' /\ v.entity = e <=> v \in votes /\ v.entity = e
  PROVE  \A f : Counted(e, f)' = Counted(e, f)
BY DEF Counted

(* What one request does to the supply of a result that is due.                *)
LEMMA SupplyRests ==
  ASSUME NEW r \in Request, NEW e, NEW f, Others(r), Supplied(e, f),
         Counted(e, f)' = Counted(e, f),
         HasRight(results, e, f) => HasRight(results, e, f)',
         call[r].entity = e /\ Brings(r, e, f) =>
           (HasRight(results, e, f) \/ (call[r].entity = e /\ Brings(r, e, f)))'
  PROVE  Supplied(e, f)'
<1>1. \A w : IsRight(w, e, f)' <=> IsRight(w, e, f)
  BY RightKept
<1>2. \A s \in Request \ {r} : call[s].entity = e /\ Brings(s, e, f)
                                 => (call[s].entity = e /\ Brings(s, e, f))'
  BY <1>1 DEF Others, Brings, HasRight
<1> QED
  BY <1>2 DEF Supplied

LEMMA SupplyComes ==
  ASSUME NEW r \in Request, NEW e, NEW f, (call[r].entity = e /\ Brings(r, e, f))'
  PROVE  Supplied(e, f)'
BY DEF Supplied

(* A request that works on the entity: whoever changes a vote tallies after it, *)
(* and whoever wipes the rows writes new ones.                                 *)
LEMMA OwnSupply ==
  ASSUME Typed, OpFitsStep, RowsFit, Schedule = "immediate",
         NEW e \in Entity, NEW f \in ResultFunction, Intact(e), Supplied(e, f),
         NEW r \in Request, call[r].entity = e, Step(r)
  PROVE  Supplied(e, f)'
<1>1. Others(r) /\ (pc[r] # "save" => call'[r] = call[r]) /\ call[r].op # "delete"
  BY OwnOnly DEF Intact, Ids
<1> DEFINE Mine == call[r].entity = e /\ Brings(r, e, f)
<1>2. votes' = votes => Counted(e, f)' = Counted(e, f) /\ \A w : IsRight(w, e, f)' <=> IsRight(w, e, f)
  BY RightKept DEF Counted
<1> USE DEF Goto, stored, AfterDrop, AfterInsert, Typed
<1>3. pc[r] \in {"select", "drop", "insert", "wipe"} => Mine'
  BY <1>1 DEF Step, Check, SelectOwn, Drop, Insert, Wipe, Tally, Split, Save, Return, Due, CronNext,
       CronReturn, CronEnds, Snapshot, Commit, Brings, OpFitsStep
<1>4. CASE Check(r) \/ Due(r)
  <2>1. UNCHANGED <<votes, results>> /\ ~Mine
    BY <1>4 DEF Check, Due, Brings
  <2> QED
    BY <1>1, <1>2, <2>1, SupplyRests DEF HasRight
<1>5. CASE Tally(r)
  <2>1. rows'[r] = Tallied(r, e, "sum") /\ pc'[r] = "split" /\ votes' = votes /\ call'[r].entity = e
        /\ results' = results
    BY <1>1, <1>5 DEF Tally, RowsFit
  <2>2. CASE Counted(e, f) = {}
    BY <1>2, <2>1, <2>2 DEF Supplied
  <2>3. CASE f = "sum" /\ Counted(e, f) # {}
    <3>1. HasRight(Tallied(r, e, f), e, f)
      BY <2>3, TalliedHas
    <3>2. HasRight(rows[r], e, f)'
      BY <1>2, <2>1, <2>3, <3>1 DEF HasRight
    <3> QED
      BY <2>1, <3>2, SupplyComes DEF Brings
  <2>4. CASE f = "positives"
    BY <2>1, <2>4, SupplyComes DEF Brings
  <2> QED
    BY <2>2, <2>3, <2>4 DEF ResultFunction
<1>6. CASE Split(r)
  <2>1. rows'[r] = rows[r] \cup Tallied(r, e, "positives") /\ pc'[r] = "save" /\ votes' = votes
        /\ call'[r].entity = e /\ results' = results
    BY <1>1, <1>6 DEF Split, RowsFit
  <2>2. CASE Counted(e, f) = {}
    BY <1>2, <2>1, <2>2 DEF Supplied
  <2>3. CASE f = "positives" /\ Counted(e, f) # {}
    <3>1. HasRight(Tallied(r, e, f), e, f)
      BY <2>3, TalliedHas
    <3>2. HasRight(rows[r], e, f)'
      BY <1>2, <2>1, <2>3, <3>1 DEF HasRight
    <3> QED
      BY <2>1, <3>2, SupplyComes DEF Brings
  <2>4. CASE f # "positives"
    <3>1. Mine => Mine'
      BY <1>2, <1>6, <2>1, <2>4 DEF Split, Brings, HasRight
    <3>2. HasRight(results, e, f) => HasRight(results, e, f)'
      BY <1>2, <2>1 DEF HasRight
    <3> QED
      BY <1>1, <1>2, <2>1, <3>1, <3>2, SupplyRests
  <2> QED
    BY <2>2, <2>3, <2>4
<1>7. CASE Save(r)
  <2>1. First(rows[r]) \in rows[r]
    BY <1>7, FirstIsOne DEF Save
  <2>2. /\ rows'[r] = rows[r] \ {First(rows[r])} /\ results' = results \cup {First(rows[r])}
        /\ pc[r] = "save" /\ pc' = pc /\ votes' = votes /\ call' = call
    BY <1>7 DEF Save, RowsFit
  <2>3. Mine => HasRight(results, e, f)' \/ Mine'
    BY <1>2, <2>1, <2>2 DEF Brings, HasRight
  <2>4. HasRight(results, e, f) => HasRight(results, e, f)'
    BY <1>2, <2>2 DEF HasRight
  <2> QED
    BY <1>1, <1>2, <2>2, <2>3, <2>4, SupplyRests
<1>8. CASE Return(r) \/ CronReturn(r)
  <2>1. UNCHANGED <<votes, results>> /\ pc[r] = "save" /\ rows[r] = {}
    BY <1>8 DEF Return, CronReturn, CronEnds
  <2>2. ~Mine
    BY <2>1 DEF Brings, HasRight
  <2> QED
    BY <1>1, <1>2, <2>1, <2>2, SupplyRests DEF HasRight
<1>9. ~CronNext(r)
  BY DEF CronNext, RowsFit
<1>10. ~Snapshot(r) /\ ~Commit(r)
  BY <1>1 DEF Snapshot, Commit, OpFitsStep
<1>11. CASE SelectOwn(r) \/ Drop(r) \/ Insert(r) \/ Wipe(r)
  <2>1. Mine'
    BY <1>3, <1>11 DEF SelectOwn, Drop, Insert, Wipe
  <2> QED
    BY <2>1, SupplyComes
<1> QED
  BY <1>4, <1>5, <1>6, <1>7, <1>8, <1>9, <1>10, <1>11 DEF Step

(* A request that works on another entity leaves its votes and rows alone.     *)
LEMMA OtherSupply ==
  ASSUME Typed, OpFitsStep, SelectedOwn, RowsFit, Schedule = "immediate",
         NEW e \in Entity, NEW f, Intact(e), Supplied(e, f),
         NEW r \in Request, call[r].entity # e, Step(r) \/ Die(r)
  PROVE  Supplied(e, f)'
<1>1. Others(r) /\ (pc[r] # "save" => call'[r] = call[r])
  BY OwnOnly
<1> DEFINE Keeps == /\ \A v : v \in votes' /\ v.entity = e <=> v \in votes /\ v.entity = e
                    /\ \A w \in results : w.entity = e => w \in results'
<1>2. Keeps /\ call'[r].entity # e
  <2> USE DEF Goto, stored, AfterDrop, AfterInsert, Typed
  <2>1. CASE Drop(r)
    BY <2>1, <1>1 DEF SelectedOwn, Drop
  <2>2. CASE Insert(r)
    BY <2>2, <1>1 DEF Insert
  <2>3. CASE Wipe(r)
    BY <2>3, <1>1 DEF Wipe, ResultsOf
  <2>4. CASE Save(r)
    BY <2>4 DEF Save
  <2>5. CASE Commit(r)
    <3>1. call[r].op = "delete"
      BY <2>5 DEF Commit, OpFitsStep
    <3>2. e \notin Ids(call[r].entity)
      BY <3>1 DEF Intact
    <3>3. \A v \in votes : v.by \in selected[r] => v.entity # e
      BY <2>5, <3>2 DEF Commit, SelectedOwn
    <3>4. \A w \in rows[r] : w.entity # e
      BY <2>5, <3>2 DEF Commit, RowsFit
    <3> QED
      BY <2>5, <1>1, <3>3, <3>4 DEF Commit
  <2>6. ~CronNext(r)
    BY DEF CronNext, RowsFit
  <2>7. CASE Check(r) \/ SelectOwn(r) \/ Tally(r) \/ Split(r) \/ Return(r) \/ Due(r)
             \/ CronReturn(r) \/ Snapshot(r) \/ Die(r)
    BY <2>7 DEF Check, SelectOwn, Tally, Split, Return, Due, CronReturn, CronEnds, Snapshot, Die
  <2> QED
    BY <2>1, <2>2, <2>3, <2>4, <2>5, <2>6, <2>7 DEF Step
<1>3. Counted(e, f)' = Counted(e, f)
  BY <1>2, CountedKept
<1>4. HasRight(results, e, f) => HasRight(results, e, f)'
  BY <1>2, <1>3, RightKept DEF HasRight, IsRight
<1> QED
  BY <1>1, <1>3, <1>4, SupplyRests

LEMMA RightStep ==
  Typed /\ OpFitsStep /\ SelectedOwn /\ RowsFit /\ RightComes /\ [Next]_vars
    => RightComes'
<1> SUFFICES ASSUME Typed, OpFitsStep, SelectedOwn, RowsFit, RightComes, [Next]_vars,
                    Schedule = "immediate", NEW e \in Entity, NEW f \in ResultFunction, Intact(e)'
             PROVE  Supplied(e, f)'
  BY DEF RightComes
<1>1. ASSUME NEW r \in Request, NEW c \in Calls, Begin(r, c) PROVE Supplied(e, f)'
  <2>1. \A s \in Request \ {r} : pc'[s] = pc[s] /\ call'[s] = call[s]
    BY <1>1 DEF Begin, Goto, Typed
  <2>2. pc[r] = "new" /\ UNCHANGED <<votes, results, rows, selected, todo>>
    BY <1>1 DEF Begin, stored
  <2>3. call[r].op # "delete"
    BY <2>2 DEF RowsFit
  <2>4. Intact(e)
    BY <2>1, <2>2, <2>3 DEF Intact, Ids
  <2>5. Counted(e, f)' = Counted(e, f)
    BY <2>2 DEF Counted
  <2>6. HasRight(results, e, f) => HasRight(results, e, f)'
    BY <2>2, <2>5, RightKept DEF HasRight
  <2>7. Others(r) /\ ~Brings(r, e, f)
    BY <2>1, <2>2 DEF Others, Brings
  <2> QED
    BY <2>4, <2>5, <2>6, <2>7, SupplyRests DEF RightComes
<1>2. ASSUME NEW r \in Request, Step(r) \/ Die(r) PROVE Supplied(e, f)'
  <2>1. /\ Active(r) /\ Others(r) /\ call'[r].op = call[r].op
        /\ pc[r] # "save" => call'[r] = call[r]
    BY <1>2, OwnOnly
  <2>2. call'[r].entity = call[r].entity
    BY <1>2 DEF Step, Check, SelectOwn, Drop, Insert, Wipe, Tally, Split, Save, Return, Due, CronNext,
         CronReturn, CronEnds, Snapshot, Commit, Die, RowsFit
  <2>3. Intact(e) /\ (call[r].entity = e => pc'[r] # "dead")
    BY <2>1, <2>2 DEF Intact, Ids, Others, Active
  <2>4. Supplied(e, f)
    BY <2>3 DEF RightComes
  <2>5. CASE call[r].entity = e
    <3>1. ~Die(r)
      BY <2>3, <2>5 DEF Die, Goto, Typed
    <3> QED
      BY <1>2, <2>3, <2>4, <2>5, <3>1, OwnSupply
  <2>6. CASE call[r].entity # e
    BY <1>2, <2>3, <2>4, <2>6, OtherSupply
  <2> QED
    BY <2>5, <2>6
<1>3. CASE Tick \/ UNCHANGED vars
  <2>1. UNCHANGED <<pc, call, rows, votes, results>>
    BY <1>3 DEF Tick, vars
  <2>2. Intact(e)
    BY <2>1 DEF Intact, Ids
  <2>3. Counted(e, f)' = Counted(e, f)
    BY <2>1 DEF Counted
  <2>4. \A w : IsRight(w, e, f)' <=> IsRight(w, e, f)
    BY <2>3, RightKept
  <2>5. Supplied(e, f)
    BY <2>2 DEF RightComes
  <2> QED
    BY <2>1, <2>3, <2>4, <2>5 DEF Supplied, HasRight, Brings
<1> QED
  BY <1>1, <1>2, <1>3 DEF Next

(* When nobody is left at work on the entity, the right rows are there.        *)
LEMMA RightAtRest == Typed /\ RowsFit /\ RightComes => RightResultsCached
<1> SUFFICES ASSUME Typed, RowsFit, RightComes, Schedule = "immediate",
                    NEW e \in Entity, Settled(e), NEW x \in Expected(e)
             PROVE  x \in Cached(e)
  BY DEF RightResultsCached
<1>1. Intact(e) /\ \A r \in Request : call[r].entity = e => ~Active(r)
  BY DEF Settled, Intact, Touches
<1>2. PICK f \in ResultFunction : Counted(e, f) # {} /\ x = [function |-> f, value |-> Total(e, f)]
  BY DEF Expected
<1>3. \A r \in Request : call[r].entity = e => ~Brings(r, e, f)
  BY <1>1 DEF Brings, Active
<1>4. HasRight(results, e, f)
  BY <1>1, <1>2, <1>3 DEF RightComes, Supplied
<1>5. PICK w \in results : w.entity = e /\ w.function = f /\ w.value = Total(e, f)
  BY <1>4 DEF HasRight, IsRight
<1> QED
  BY <1>2, <1>5 DEF Cached, ResultsOf

LEMMA InitRight == Init => RowsFit /\ RightComes
<1> SUFFICES ASSUME Init PROVE RowsFit /\ RightComes
  OBVIOUS
<1>1. RowsFit
  BY DEF Init, RowsFit, Idle
<1>2. RightComes
  BY DEF Init, RightComes, Supplied, Counted
<1> QED
  BY <1>1, <1>2

THEOREM RowsAreOwn == Spec => []RowsFit
<1>1. Typed /\ VotesIInv /\ RowsFit /\ [Next]_vars => RowsFit'
  BY RowsStep DEF VotesIInv
<1> QED
  BY <1>1, InitRight, InductiveInvariant, PTL DEF Spec

(* However the recalculations of several voters are interleaved, the right     *)
(* results are cached as soon as nobody works on the entity.                   *)
THEOREM RightResultsAreCached == Spec => []RightResultsCached
<1>1. Typed /\ VotesIInv /\ RowsFit /\ RightComes /\ [Next]_vars => RightComes'
  BY RightStep DEF VotesIInv
<1> QED
  BY <1>1, InitRight, RightAtRest, RowsAreOwn, InductiveInvariant, PTL DEF Spec

-----------------------------------------------------------------------------
(* Nobody is at work next to a request that began alone and was not joined.    *)
AloneIsAlone ==
  alone \subseteq Request /\
  \A r \in alone : pc[r] # "new" /\ \A s \in Request : s # r => ~Active(s)

Named(ws, e) == {[function |-> w.function, value |-> w.value] : w \in {x \in ws : x.entity = e}}

(* What such a request has redone of its entity by each statement.             *)
Redone(r) ==
  LET e == call[r].entity IN
  /\ pc[r] \in {"tally", "split"} => ResultsOf(e) = {}
  /\ pc[r] = "split" => rows[r] = Tallied(r, e, "sum")
  /\ pc[r] = "save" /\ e \in Entity => Cached(e) \cup Named(rows[r], e) = Expected(e)
  /\ pc[r] = "commit" => /\ \A v \in votes : v.entity = e => v.by \in selected[r]
                         /\ ResultsOf(e) \subseteq rows[r]

(* An entity voted on since the last cron run is still to do, in work or right. *)
Covered(r, e) ==
  e \in todo[r] \/ e = call[r].entity \/ Cached(e) = Expected(e)

CronCovers(r) ==
  Schedule = "cron" /\ call[r].op = "cron" /\ pc[r] \in {"save", "wipe", "tally", "split"} =>
    \A v \in votes : v.time > last => Covered(r, v.entity)

RepairIInv == AloneIsAlone /\ \A r \in alone : Redone(r) /\ CronCovers(r)

(* The variable votingapi_last_cron is the start of a run that has ended.      *)
Times ==
  /\ now >= 1
  /\ \A r \in Request : pc[r] # "new" => call[r].time >= 1
  /\ \A v \in votes : v.time >= 1
  /\ last = 0 \/ \E d \in Request : call[d].op = "cron" /\ pc[d] = "done" /\ call[d].time = last

LEMMA TalliedKept ==
  votes' = votes => /\ \A e, f : Counted(e, f)' = Counted(e, f) /\ Total(e, f)' = Total(e, f)
                    /\ \A r, e, f : Tallied(r, e, f)' = Tallied(r, e, f)
                    /\ \A e : Expected(e)' = Expected(e)
<1> SUFFICES ASSUME votes' = votes
             PROVE  /\ \A e, f : Counted(e, f)' = Counted(e, f) /\ Total(e, f)' = Total(e, f)
                    /\ \A r, e, f : Tallied(r, e, f)' = Tallied(r, e, f)
                    /\ \A e : Expected(e)' = Expected(e)
  OBVIOUS
<1>1. \A e, f : Counted(e, f)' = Counted(e, f)
  BY DEF Counted
<1>2. \A e, f : Total(e, f)' = Total(e, f)
  BY <1>1 DEF Total
<1> QED
  BY <1>1, <1>2 DEF Tallied, ResultRow, Expected

LEMMA CachedKept ==
  ASSUME NEW e, \A w : w \in results' /\ w.entity = e <=> w \in results /\ w.entity = e
  PROVE  Cached(e)' = Cached(e)
BY DEF Cached, ResultsOf

(* The two queries together make the rows that are expected. *)
LEMMA TalliedBoth ==
  ASSUME NEW r, NEW e
  PROVE  Named(Tallied(r, e, "sum") \cup Tallied(r, e, "positives"), e) = Expected(e)
<1> DEFINE both == Tallied(r, e, "sum") \cup Tallied(r, e, "positives")
<1>1. ASSUME NEW x \in Named(both, e) PROVE x \in Expected(e)
  <2>1. PICK w \in both : x = [function |-> w.function, value |-> w.value]
    BY <1>1 DEF Named
  <2>2. w.function \in ResultFunction /\ w.value = Total(e, w.function) /\ Counted(e, w.function) # {}
    BY <2>1, TalliedIsOwn DEF ResultFunction
  <2> QED
    BY <2>1, <2>2 DEF Expected
<1>2. ASSUME NEW x \in Expected(e) PROVE x \in Named(both, e)
  <2>1. PICK f \in ResultFunction : Counted(e, f) # {} /\ x = [function |-> f, value |-> Total(e, f)]
    BY <1>2 DEF Expected
  <2>2. ResultRow(r, e, f) \in both
    BY <2>1 DEF Tallied, ResultFunction
  <2>3. /\ ResultRow(r, e, f).entity = e /\ ResultRow(r, e, f).function = f
        /\ ResultRow(r, e, f).value = Total(e, f)
    BY DEF ResultRow
  <2> QED
    BY <2>1, <2>2, <2>3 DEF Named
<1> QED
  BY <1>1, <1>2

(* An INSERT moves a row from those of the request to those of the table. *)
LEMMA MovedRow ==
  ASSUME NEW e, NEW ws, NEW row \in ws, results' = results \cup {row}
  PROVE  Cached(e)' \cup Named(ws \ {row}, e) = Cached(e) \cup Named(ws, e)
<1>1. Cached(e)' = Named(results \cup {row}, e) /\ Cached(e) = Named(results, e)
  BY DEF Cached, ResultsOf, Named
<1>2. Named(results \cup {row}, e) = Named(results, e) \cup Named({row}, e)
  BY DEF Named
<1>3. Named(ws, e) = Named(ws \ {row}, e) \cup Named({row}, e)
  BY DEF Named
<1> QED
  BY <1>1, <1>2, <1>3

(* What a request has redone of its entity at each statement, undisturbed. *)
LEMMA RedoneStep ==
  ASSUME Typed, OpFitsStep, RowsFit, NEW r \in Request, Redone(r), Step(r) \/ Die(r)
  PROVE  Redone(r)'
<1> DEFINE e == call[r].entity
<1>1. pc[r] # "save" => call'[r] = call[r]
  BY OwnOnly
<1> USE DEF Goto, stored, AfterDrop, AfterInsert, Typed
<1>2. CASE Wipe(r)
  BY <1>1, <1>2 DEF Wipe, Redone, ResultsOf
<1>3. CASE Tally(r)
  <2>1. /\ pc'[r] = "split" /\ rows'[r] = Tallied(r, e, "sum") /\ call' = call /\ votes' = votes
        /\ results' = results /\ ResultsOf(e) = {}
    BY <1>3 DEF Tally, RowsFit, Redone
  <2>2. rows'[r] = Tallied(r, e, "sum")'
    BY <2>1, TalliedKept DEF Tallied, ResultRow
  <2> QED
    BY <2>1, <2>2 DEF Redone, ResultsOf
<1>4. CASE Split(r)
  <2>1. /\ pc'[r] = "save" /\ rows'[r] = rows[r] \cup Tallied(r, e, "positives") /\ call' = call
        /\ votes' = votes /\ results' = results
        /\ ResultsOf(e) = {} /\ rows[r] = Tallied(r, e, "sum")
    BY <1>4 DEF Split, RowsFit, Redone
  <2>2. Named(rows'[r], e) = Expected(e)
    BY <2>1, TalliedBoth
  <2>3. Cached(e) = {}
    BY <2>1 DEF Cached
  <2>4. Cached(e) \cup Named(rows'[r], e) = Expected(e)
    BY <2>2, <2>3
  <2>5. \A d : Cached(d)' = Cached(d) /\ Expected(d)' = Expected(d)
    BY <2>1, TalliedKept DEF Cached, ResultsOf
  <2>6. Cached(e)' \cup Named(rows'[r], e) = Expected(e)'
    BY <2>1, <2>4, <2>5
  <2> QED
    BY <2>1, <2>6 DEF Redone
<1>5. CASE Save(r)
  <2>1. First(rows[r]) \in rows[r]
    BY <1>5, FirstIsOne DEF Save
  <2>2. /\ rows'[r] = rows[r] \ {First(rows[r])} /\ results' = results \cup {First(rows[r])}
        /\ pc[r] = "save" /\ pc' = pc /\ votes' = votes /\ call' = call
    BY <1>5 DEF Save, RowsFit
  <2>3. \A d : Cached(d)' \cup Named(rows'[r], d) = Cached(d) \cup Named(rows[r], d)
    BY <2>1, <2>2, MovedRow
  <2>4. \A d : Expected(d)' = Expected(d)
    BY <2>2, TalliedKept
  <2>5. call[r].entity \in Entity => Cached(e)' \cup Named(rows'[r], e) = Expected(e)'
    BY <2>2, <2>3, <2>4 DEF Redone
  <2> QED
    BY <2>2, <2>5 DEF Redone
<1>6. CASE Due(r)
  <2>1. call'[r].entity \notin Entity /\ pc'[r] = "save"
    BY <1>6, VotingAssumption DEF Due, RowsFit
  <2> QED
    BY <2>1 DEF Redone
<1>7. CASE Snapshot(r)
  <2>1. /\ selected'[r] = {v.by : v \in {w \in votes : w.entity \in Ids(e)}}
        /\ rows'[r] = {w \in results : w.entity \in Ids(e)}
        /\ pc'[r] = "commit" /\ votes' = votes /\ results' = results /\ call' = call
    BY <1>7 DEF Snapshot, RowsFit
  <2>2. e \in Ids(e)
    BY DEF Ids
  <2>3. \A v \in votes : v.entity = e => v.by \in selected'[r]
    BY <2>1, <2>2
  <2>4. \A w \in results : w.entity = e => w \in rows'[r]
    BY <2>1, <2>2
  <2> QED
    BY <2>1, <2>3, <2>4 DEF Redone, ResultsOf
<1>8. CASE \/ Check(r) \/ SelectOwn(r) \/ Drop(r) \/ Insert(r) \/ Return(r) \/ CronNext(r)
           \/ CronReturn(r) \/ Commit(r) \/ Die(r)
  <2>1. pc'[r] \in {"select", "drop", "insert", "wipe", "done", "dead"}
    BY <1>8 DEF Check, SelectOwn, Drop, Insert, Return, CronNext, CronReturn, CronEnds, Commit, Die
  <2> QED
    BY <2>1 DEF Redone
<1> QED
  BY <1>2, <1>3, <1>4, <1>5, <1>6, <1>7, <1>8 DEF Step

(* A cron run has every entity voted on since the last one still to do, in      *)
(* work, or right.                                                             *)
LEMMA CoversStep ==
  ASSUME Typed, OpFitsStep, RowsFit, NEW r \in Request, Redone(r), CronCovers(r), Step(r) \/ Die(r)
  PROVE  CronCovers(r)'
<1> SUFFICES ASSUME Schedule = "cron", call'[r].op = "cron",
                    pc'[r] \in {"save", "wipe", "tally", "split"},
                    NEW v \in votes', v.time > last'
             PROVE  Covered(r, v.entity)'
  BY DEF CronCovers
<1>1. call[r].op = "cron" /\ (pc[r] # "save" => call'[r] = call[r])
  BY OwnOnly
<1> USE DEF Goto, stored, AfterDrop, AfterInsert, Typed
<1>2. votes' = votes /\ last' = last
  BY <1>1 DEF Step, Check, SelectOwn, Drop, Insert, Wipe, Tally, Split, Save, Return, Due, CronNext,
       CronReturn, CronEnds, Snapshot, Commit, Die, OpFitsStep
<1>3. v \in votes /\ v.entity \in Entity /\ Expected(v.entity)' = Expected(v.entity)
  BY <1>2, TalliedKept DEF VoteRow
<1>4. pc[r] \in {"save", "wipe", "tally", "split"} => Covered(r, v.entity)
  BY <1>1, <1>2 DEF CronCovers
<1>5. CASE Due(r)
  BY <1>2, <1>5 DEF Due, Covered
<1>6. CASE CronNext(r)
  <2>1. PICK d \in todo[r] : todo' = [todo EXCEPT ![r] = @ \ {d}] /\ call' = [call EXCEPT ![r].entity = d]
    BY <1>6 DEF CronNext
  <2>2. call[r] \in CallRow
    OBVIOUS
  <2>3. call'[r].entity = d /\ todo'[r] = todo[r] \ {d} /\ results' = results /\ pc[r] = "save"
        /\ rows[r] = {}
    BY <1>6, <2>1, <2>2 DEF CronNext, CallRow
  <2>4. v.entity = call[r].entity => Cached(v.entity) = Expected(v.entity)
    <3>1. Named(rows[r], v.entity) = {}
      BY <2>3 DEF Named
    <3> QED
      BY <1>3, <2>3, <3>1 DEF Redone
  <2>5. Cached(v.entity)' = Cached(v.entity)
    BY <2>3, CachedKept
  <2> QED
    BY <1>3, <1>4, <2>3, <2>4, <2>5 DEF Covered
<1>7. CASE Wipe(r) \/ Tally(r) \/ Split(r) \/ Save(r)
  <2>1. /\ pc[r] \in {"save", "wipe", "tally", "split"} /\ todo' = todo /\ call' = call
    BY <1>7 DEF Wipe, Tally, Split, Save
  <2>2. v.entity # call[r].entity => Cached(v.entity)' = Cached(v.entity)
    <3>1. CASE Wipe(r)
      BY <3>1, CachedKept DEF Wipe, ResultsOf
    <3>2. CASE Tally(r) \/ Split(r)
      BY <3>2, CachedKept DEF Tally, Split
    <3>3. CASE Save(r)
      <4>1. First(rows[r]) \in rows[r] /\ results' = results \cup {First(rows[r])} /\ pc[r] = "save"
        BY <3>3, FirstIsOne DEF Save
      <4>2. First(rows[r]).entity = call[r].entity
        BY <4>1 DEF RowsFit
      <4> QED
        BY <4>1, <4>2, CachedKept
    <3> QED
      BY <1>7, <3>1, <3>2, <3>3
  <2> QED
    BY <1>3, <1>4, <2>1, <2>2 DEF Covered
<1>8. CASE \/ Check(r) \/ SelectOwn(r) \/ Drop(r) \/ Insert(r) \/ Return(r) \/ CronReturn(r)
           \/ Snapshot(r) \/ Commit(r) \/ Die(r)
  BY <1>1, <1>8 DEF Check, SelectOwn, Drop, Insert, Return, CronReturn, CronEnds, Snapshot, Commit, Die,
     OpFitsStep
<1> QED
  BY <1>5, <1>6, <1>7, <1>8 DEF Step

LEMMA RepairStep ==
  Typed /\ OpFitsStep /\ RowsFit /\ RepairIInv /\ [Next]_vars => RepairIInv'
<1> SUFFICES ASSUME Typed, OpFitsStep, RowsFit, RepairIInv, [Next]_vars PROVE RepairIInv'
  OBVIOUS
<1>1. ASSUME NEW r \in Request, NEW c \in Calls, Begin(r, c) PROVE RepairIInv'
  <2>1. FirstStatement[c.op] \in {"check", "select", "snapshot", "due"}
    BY CallsTyped DEF Typed
  <2>2. /\ pc'[r] = FirstStatement[c.op] /\ \A s \in Request \ {r} : pc'[s] = pc[s]
        /\ alone' = IF \E s \in Request : Active(s) THEN {} ELSE {r}
    BY <1>1 DEF Begin, Goto, Typed
  <2>3. AloneIsAlone'
    BY <2>1, <2>2 DEF AloneIsAlone, Active
  <2>4. (Redone(r) /\ CronCovers(r))'
    BY <2>1, <2>2 DEF Redone, CronCovers
  <2> QED
    BY <2>2, <2>3, <2>4 DEF RepairIInv
<1>2. ASSUME NEW r \in Request, Step(r) \/ Die(r) PROVE RepairIInv'
  <2>1. Active(r) /\ pc'[r] # "new" /\ Others(r) /\ alone' = alone
    BY <1>2, OwnOnly
  <2>2. alone \subseteq {r}
    BY <2>1 DEF RepairIInv, AloneIsAlone
  <2>3. AloneIsAlone'
    BY <2>1, <2>2 DEF RepairIInv, AloneIsAlone, Others, Active
  <2>4. r \in alone => (Redone(r) /\ CronCovers(r))'
    BY <1>2, RedoneStep, CoversStep DEF RepairIInv
  <2> QED
    BY <2>1, <2>2, <2>3, <2>4 DEF RepairIInv
<1>3. CASE Tick \/ UNCHANGED vars
  <2>1. UNCHANGED <<pc, call, rows, selected, todo, votes, results, last, alone>>
    BY <1>3 DEF Tick, vars
  <2>2. \A r \in Request : Redone(r)' <=> Redone(r)
    <3>1. /\ \A r, e, f : Tallied(r, e, f)' = Tallied(r, e, f)
          /\ \A e : Expected(e)' = Expected(e) /\ Cached(e)' = Cached(e)
          /\ \A e : ResultsOf(e)' = ResultsOf(e)
      BY <2>1, TalliedKept DEF Cached, ResultsOf
    <3>2. \A r \in Request : /\ pc'[r] = pc[r] /\ call'[r] = call[r] /\ rows'[r] = rows[r]
                            /\ selected'[r] = selected[r]
      BY <2>1
    <3> QED
      BY <2>1, <3>1, <3>2 DEF Redone
  <2>3. \A r \in Request : CronCovers(r)' <=> CronCovers(r)
    BY <2>1 DEF CronCovers, Covered, Cached, ResultsOf, Expected, Counted, Total
  <2> QED
    BY <2>1, <2>2, <2>3 DEF RepairIInv, AloneIsAlone, Active
<1> QED
  BY <1>1, <1>2, <1>3 DEF Next

LEMMA InitRepair == Init => RepairIInv /\ Times
BY DEF Init, RepairIInv, AloneIsAlone, Times

LEMMA TimesStep == Typed /\ RowsFit /\ Times /\ [Next]_vars => Times'
<1> SUFFICES ASSUME Typed, RowsFit, Times, [Next]_vars PROVE Times'
  OBVIOUS
<1> DEFINE Noted(d) == call[d].op = "cron" /\ pc[d] = "done" /\ call[d].time = last
<1>0. now \in Int /\ now >= 1 /\ (last = 0 \/ \E d \in Request : Noted(d))
  BY DEF Times, Typed
<1>1. ASSUME NEW r \in Request, NEW c \in Calls, Begin(r, c) PROVE Times'
  <2>1. c.time = now
    BY DEF Calls
  <2>2. /\ pc[r] = "new" /\ call'[r] = c /\ UNCHANGED <<now, votes, last>>
        /\ \A s \in Request \ {r} : pc'[s] = pc[s] /\ call'[s] = call[s]
    BY <1>1 DEF Begin, Goto, stored, Typed
  <2>3. \A d \in Request : Noted(d) => Noted(d)'
    BY <2>2
  <2>4. \A s \in Request : pc'[s] # "new" => call'[s].time >= 1
    BY <1>0, <2>1, <2>2 DEF Times
  <2> QED
    BY <1>0, <2>2, <2>3, <2>4 DEF Times
<1>2. ASSUME NEW r \in Request, Step(r) \/ Die(r) PROVE Times'
  <2>1. /\ Active(r) /\ pc'[r] # "new" /\ Others(r) /\ now' = now
        /\ call'[r].op = call[r].op /\ call'[r].time = call[r].time
    BY <1>2, OwnOnly
  <2>2. \A s \in Request : pc'[s] # "new" => call'[s].time >= 1
    BY <2>1 DEF Times, Others, Active
  <2>3. \A v \in votes' : v.time >= 1
    <3>1. CASE Insert(r)
      BY <3>1, <2>1 DEF Insert, Times, Active
    <3>2. CASE votes' \subseteq votes
      BY <3>2 DEF Times
    <3> QED
      BY <1>2, <3>1, <3>2 DEF Step, Check, SelectOwn, Drop, Wipe, Tally, Split, Save, Return, Due,
         CronNext, CronReturn, CronEnds, Snapshot, Commit, Die, stored
  <2>4. last' = 0 \/ \E d \in Request : Noted(d)'
    <3>1. CASE last' = last
      <4>1. \A d \in Request : Noted(d) => Noted(d)'
        BY <2>1, <3>1 DEF Others, Active
      <4> QED
        BY <1>0, <3>1, <4>1
    <3>2. CASE CronReturn(r) /\ last' # last
      <4>1. Noted(r)'
        BY <2>1, <3>2 DEF CronReturn, CronEnds, Goto, Typed
      <4> QED
        BY <4>1
    <3> QED
      BY <1>2, <3>1, <3>2 DEF Step, Check, SelectOwn, Drop, Insert, Wipe, Tally, Split, Save, Return,
         Due, CronNext, Snapshot, Commit, Die, stored
  <2> QED
    BY <1>0, <2>1, <2>2, <2>3, <2>4 DEF Times
<1>3. CASE Tick \/ UNCHANGED vars
  <2>1. UNCHANGED <<pc, call, votes, last>> /\ now' >= 1
    BY <1>0, <1>3 DEF Tick, vars
  <2> QED
    BY <2>1 DEF Times
<1> QED
  BY <1>1, <1>2, <1>3 DEF Next

(* What a request that has the database to itself may rely on. *)
THEOREM AloneRepairs == Spec => [](RepairIInv /\ Times)
<1>1. Typed /\ VotesIInv /\ RowsFit /\ RepairIInv /\ Times /\ [Next]_vars => RepairIInv' /\ Times'
  BY RepairStep, TimesStep DEF VotesIInv
<1> QED
  BY <1>1, InitRepair, RowsAreOwn, InductiveInvariant, PTL DEF Spec

LEMMA EndIsStep ==
  ASSUME Typed, RowsFit, AloneIsAlone, Next, NEW r \in alone, Ends(r)
  PROVE  r \in Request /\ Step(r)
<1>1. r \in Request
  BY DEF AloneIsAlone
<1>2. ASSUME NEW s \in Request, NEW c \in Calls, Begin(s, c) PROVE FALSE
  BY <1>1, <1>2, CallsTyped DEF Begin, Goto, Ends, Typed
<1>3. ASSUME NEW s \in Request, Step(s) \/ Die(s) PROVE s = r /\ Step(r)
  <2>1. s = r
    BY <1>1, <1>3, OwnOnly DEF AloneIsAlone
  <2>2. ~Die(r)
    BY <1>1 DEF Die, Goto, Ends, Typed
  <2> QED
    BY <1>3, <2>1, <2>2
<1>4. ~Tick
  BY DEF Tick, Ends
<1> QED
  BY <1>1, <1>2, <1>3, <1>4 DEF Next

(* A request that had the database to itself leaves the exact results of its    *)
(* entity, whatever a race or a death left there, and a deletion leaves nothing. *)
THEOREM UndisturbedRequestRepairs == Spec => UndisturbedRepairs
<1> DEFINE Repairs ==
      \A r \in alone : Ends(r) =>
        LET e == call[r].entity IN
        /\ call[r].op \in {"vote", "reset"} /\ pc[r] # "check" /\ Schedule # "cron" =>
             (Cached(e) = Expected(e))'
        /\ call[r].op = "delete" =>
             \A v \in votes', w \in results' : v.entity # e /\ w.entity # e
<1>1. Typed /\ VotesIInv /\ RowsFit /\ RepairIInv /\ [Next]_vars => [Repairs]_vars
  <2> DEFINE Nothing(r) == \A v \in votes', w \in results' :
                             v.entity # call[r].entity /\ w.entity # call[r].entity
  <2> SUFFICES ASSUME Typed, VotesIInv, RowsFit, RepairIInv, Next, NEW r \in alone, Ends(r)
               PROVE  /\ call[r].op \in {"vote", "reset"} /\ pc[r] # "check" /\ Schedule # "cron" =>
                           (Cached(call[r].entity) = Expected(call[r].entity))'
                      /\ call[r].op = "delete" => Nothing(r)
    BY DEF vars
  <2>1. r \in Request /\ Step(r) /\ Redone(r)
    BY EndIsStep DEF RepairIInv
  <2> USE DEF Goto, stored, AfterDrop, AfterInsert, Typed, VotesIInv
  <2>2. ASSUME call[r].op \in {"vote", "reset"}, pc[r] # "check", Schedule # "cron"
        PROVE  (Cached(call[r].entity) = Expected(call[r].entity))'
    <3>1. Return(r)
      BY <2>1, <2>2 DEF Step, Ends, Check, SelectOwn, Drop, Insert, Wipe, Tally, Split, Save, Due,
         CronNext, CronReturn, CronEnds, Snapshot, Commit, OpFitsStep
    <3>2. /\ pc[r] = "save" /\ rows[r] = {} /\ call[r].entity \in Entity
          /\ UNCHANGED <<votes, results, call>>
      BY <2>1, <2>2, <3>1 DEF Return, OpFitsStep
    <3>3. Named(rows[r], call[r].entity) = {}
      BY <3>2 DEF Named
    <3>4. Cached(call[r].entity) = Expected(call[r].entity)
      BY <2>1, <3>2, <3>3 DEF Redone
    <3>5. \A d : Cached(d)' = Cached(d) /\ Expected(d)' = Expected(d)
      BY <3>2, TalliedKept DEF Cached, ResultsOf
    <3> QED
      BY <3>2, <3>4, <3>5
  <2>3. ASSUME call[r].op = "delete" PROVE Nothing(r)
    <3>1. Commit(r)
      BY <2>1, <2>3 DEF Step, Ends, Check, SelectOwn, Drop, Insert, Wipe, Tally, Split, Save, Return,
         Due, CronNext, CronReturn, CronEnds, Snapshot, OpFitsStep, RowsFit
    <3> QED
      BY <2>1, <3>1 DEF Commit, Redone, ResultsOf
  <2> QED
    BY <2>2, <2>3
<1>2. UndisturbedRepairs <=> [][Repairs]_vars
  BY PTL DEF UndisturbedRepairs
<1> HIDE DEF Repairs
<1> QED
  BY <1>1, <1>2, RowsAreOwn, AloneRepairs, InductiveInvariant, PTL DEF Spec

(* A cron run with the database to itself gives the right results to every      *)
(* entity voted on since the start of the run before.                          *)
THEOREM CronMissesNoVote == Spec => CronTalliesNewVotes
<1> DEFINE Tallies == Schedule = "cron" =>
             \A r \in alone : Ends(r) /\ call[r].op = "cron" =>
               \A v \in votes : CastSince(v, r) => (Cached(v.entity) = Expected(v.entity))'
<1>1. Typed /\ VotesIInv /\ RowsFit /\ RepairIInv /\ Times /\ [Next]_vars => [Tallies]_vars
  <2> SUFFICES ASSUME Typed, VotesIInv, RowsFit, RepairIInv, Times, Next, Schedule = "cron",
                      NEW r \in alone, Ends(r), call[r].op = "cron",
                      NEW v \in votes, CastSince(v, r)
               PROVE  (Cached(v.entity) = Expected(v.entity))'
    BY DEF vars
  <2>1. r \in Request /\ Step(r) /\ Redone(r) /\ CronCovers(r)
    BY EndIsStep DEF RepairIInv
  <2> USE DEF Goto, stored, AfterDrop, AfterInsert, Typed, VotesIInv
  <2>2. CronReturn(r)
    BY <2>1 DEF Step, Ends, Check, SelectOwn, Drop, Insert, Wipe, Tally, Split, Save, Return, Due,
       CronNext, Snapshot, Commit, OpFitsStep
  <2>3. pc[r] = "save" /\ rows[r] = {} /\ todo[r] = {} /\ UNCHANGED <<votes, results>>
    BY <2>2 DEF CronReturn, CronEnds
  <2>4. v.time > last
    <3>1. v.time >= 1 /\ v.time \in Int
      BY DEF Times, VoteRow
    <3>2. CASE last = 0
      BY <3>1, <3>2
    <3>3. CASE \E d \in Request : call[d].op = "cron" /\ pc[d] = "done" /\ call[d].time = last
      BY <2>3, <3>3 DEF CastSince
    <3> QED
      BY <3>2, <3>3 DEF Times
  <2>5. v.entity \in Entity /\ Covered(r, v.entity)
    BY <2>1, <2>3, <2>4 DEF CronCovers, VoteRow
  <2>6. Named(rows[r], v.entity) = {}
    BY <2>3 DEF Named
  <2>7. Cached(v.entity) = Expected(v.entity)
    BY <2>1, <2>3, <2>5, <2>6 DEF Covered, Redone
  <2>8. \A d : Cached(d)' = Cached(d) /\ Expected(d)' = Expected(d)
    BY <2>3, TalliedKept DEF Cached, ResultsOf
  <2> QED
    BY <2>7, <2>8
<1>2. CronTalliesNewVotes <=> [][Tallies]_vars
  BY PTL DEF CronTalliesNewVotes
<1> HIDE DEF Tallies
<1> QED
  BY <1>1, <1>2, RowsAreOwn, AloneRepairs, InductiveInvariant, PTL DEF Spec

-----------------------------------------------------------------------------
(* The sum over a set, which the community modules define by recursion over the *)
(* subsets of the set, exists for every finite set and lies where it should.   *)

Any(s) == CHOOSE x \in s : TRUE

Summed(g, s) == IF s = {} THEN 0 ELSE Any(s).value + g[s \ {Any(s)}]

LEMMA PointsDef == \A S : Points(S) = (CHOOSE g : g = [s \in SUBSET S |-> Summed(g, s)])[S]
BY DEF Points, MapThenSumSet, MapThenFoldSet, Summed, Any

LEMMA LeastOf ==
  ASSUME NEW T \in SUBSET Nat, T # {}
  PROVE  \E m \in T : \A n \in T : m <= n
<1> DEFINE R == {p \in Nat \X Nat : p[1] < p[2]}
<1>1. IsWellFoundedOn(R, Nat)
  BY NatLessThanWellFounded DEF OpToRel
<1> HIDE DEF R
<1>2. PICK m \in T : \A n \in T : ~(<<n, m>> \in R)
  BY <1>1, WFMin
<1>3. \A n \in T : ~(n < m)
  BY <1>2 DEF R
<1> QED
  BY <1>3

LEMMA LessOne ==
  ASSUME NEW S, IsFiniteSet(S), NEW s \in SUBSET S, s # {}
  PROVE  /\ Any(s) \in s /\ s \ {Any(s)} \in SUBSET S
         /\ Cardinality(s) \in Nat \ {0} /\ Cardinality(s) <= Cardinality(S)
         /\ Cardinality(s \ {Any(s)}) = Cardinality(s) - 1
<1>1. Any(s) \in s
  BY DEF Any
<1>2. IsFiniteSet(s) /\ Cardinality(s) <= Cardinality(S)
  BY FS_Subset
<1>3. Cardinality(s) \in Nat /\ Cardinality(s) # 0
  BY <1>2, FS_CardinalityType, FS_EmptySet
<1>4. Cardinality(s \ {Any(s)}) = Cardinality(s) - 1
  BY <1>1, <1>2, FS_RemoveElement
<1> QED
  BY <1>1, <1>2, <1>3, <1>4

LEMMA SumExists ==
  ASSUME NEW S, IsFiniteSet(S)
  PROVE  \E g : g = [s \in SUBSET S |-> Summed(g, s)]
<1> DEFINE Level(n) == {s \in SUBSET S : Cardinality(s) <= n}
           Good(h, n) == h = [s \in Level(n) |-> Summed(h, s)]
           Bad == {n \in Nat : ~ \E h : Good(h, n)}
<1>1. Bad = {}
  <2> SUFFICES ASSUME Bad # {} PROVE FALSE
    OBVIOUS
  <2>1. PICK m \in Bad : \A n \in Bad : m <= n
    BY LeastOf
  <2>2. CASE m = 0
    <3> DEFINE h == [s \in Level(m) |-> 0]
    <3>1. \A s \in Level(m) : s = {}
      <4> SUFFICES ASSUME NEW s \in SUBSET S, Cardinality(s) <= 0, s # {} PROVE FALSE
        BY <2>2
      <4>1. Cardinality(s) \in Nat \ {0}
        BY LessOne
      <4> QED
        BY <4>1
    <3>2. Good(h, m)
      BY <3>1 DEF Summed
    <3> QED
      BY <3>2
  <2>3. CASE m # 0
    <3>1. m - 1 \in Nat /\ m - 1 \notin Bad
      <4> HIDE DEF Bad
      <4>1. m \in Nat
        BY <2>1 DEF Bad
      <4> QED
        BY <2>1, <2>3, <4>1
    <3>2. PICK h : Good(h, m - 1)
      BY <3>1
    <3> DEFINE g == [s \in Level(m) |-> Summed(h, s)]
    <3>3. \A t \in Level(m - 1) : t \in Level(m) /\ h[t] = g[t]
      <4> TAKE t \in Level(m - 1)
      <4>1. Cardinality(t) \in Nat
        BY FS_Subset, FS_CardinalityType
      <4>2. t \in Level(m)
        BY <4>1
      <4> QED
        BY <3>2, <4>2
    <3>4. \A s \in Level(m) : Summed(h, s) = Summed(g, s)
      <4> SUFFICES ASSUME NEW s \in Level(m), s # {} PROVE Summed(h, s) = Summed(g, s)
        BY DEF Summed
      <4>1. s \ {Any(s)} \in Level(m - 1)
        BY LessOne
      <4> HIDE DEF g, Level
      <4> QED
        BY <3>3, <4>1 DEF Summed
    <3>5. Good(g, m)
      BY <3>4
    <3> QED
      BY <3>5
  <2> QED
    BY <2>2, <2>3
<1>2. Cardinality(S) \in Nat
  BY FS_CardinalityType
<1>3. PICK h : Good(h, Cardinality(S))
  BY <1>1, <1>2
<1>4. Level(Cardinality(S)) = SUBSET S
  BY FS_Subset
<1> QED
  BY <1>3, <1>4

LEMMA PointsInRange ==
  ASSUME NEW S, IsFiniteSet(S), \A v \in S : v.value \in {-1, 1}
  PROVE  Points(S) \in -Cardinality(S)..Cardinality(S)
<1> DEFINE g == CHOOSE f : f = [s \in SUBSET S |-> Summed(f, s)]
           Bound(s) == g[s] \in -Cardinality(s)..Cardinality(s)
           Bad == {Cardinality(s) : s \in {t \in SUBSET S : ~Bound(t)}}
<1>1. g = [s \in SUBSET S |-> Summed(g, s)] /\ Points(S) = g[S]
  BY SumExists, PointsDef
<1>2. \A s \in SUBSET S : Cardinality(s) \in Nat
  BY FS_Subset, FS_CardinalityType
<1> HIDE DEF g
<1>3. Bad = {}
  <2> SUFFICES ASSUME Bad # {} PROVE FALSE
    OBVIOUS
  <2>1. PICK m \in Bad : \A n \in Bad : m <= n
    BY <1>2, LeastOf
  <2>2. PICK s \in SUBSET S : m = Cardinality(s) /\ ~Bound(s)
    BY <2>1
  <2>3. s # {}
    <3> SUFFICES ASSUME s = {} PROVE FALSE
      OBVIOUS
    <3>1. g[s] = 0 /\ Cardinality(s) = 0
      BY <1>1, FS_EmptySet DEF Summed
    <3> QED
      BY <2>2, <3>1
  <2> DEFINE t == s \ {Any(s)}
  <2>4. /\ Any(s) \in S /\ t \in SUBSET S /\ Cardinality(t) = Cardinality(s) - 1
        /\ Cardinality(s) \in Nat \ {0}
    BY <2>3, LessOne
  <2>5. g[s] = Any(s).value + g[t] /\ Any(s).value \in {-1, 1}
    BY <1>1, <2>3, <2>4 DEF Summed
  <2> HIDE DEF t
  <2>6. Bound(t)
    <3> SUFFICES ASSUME ~Bound(t) PROVE FALSE
      OBVIOUS
    <3>1. Cardinality(t) \in Bad
      BY <2>4
    <3> QED
      BY <2>1, <2>2, <2>4, <3>1
  <2>7. Bound(s)
    BY <2>4, <2>5, <2>6
  <2> QED
    BY <2>2, <2>7
<1>4. Bound(S)
  BY <1>3
<1> QED
  BY <1>1, <1>4

(* The ranges of Voting.TypeOK. *)
Ranged ==
  /\ now \in 1..MaxTime /\ last \in 0..MaxTime
  /\ votes \subseteq Vote /\ results \subseteq Result
  /\ \A r \in Request :
       /\ rows[r] \subseteq Result
       /\ call[r] = Idle <=> pc[r] = "new"
       /\ pc[r] # "new" => call[r].time \in 1..MaxTime
       /\ call[r].op = "vote" => call[r].value \in {-1, 0, 1}
       /\ call[r].op = "vote" /\ pc[r] \in {"select", "drop", "insert"} => call[r].value # 0

LEMMA TalliedInRange ==
  ASSUME CastOnce, Ranged, NEW r \in Request, NEW e \in Entity, NEW f \in ResultFunction
  PROVE  Tallied(r, e, f) \subseteq Result
<1>1. Counted(e, f) \subseteq votes /\ \A v \in Counted(e, f) : v.by \in Request /\ v.value \in {-1, 1}
  BY DEF Counted, Ranged, Vote
<1> DEFINE by == [v \in Counted(e, f) |-> v.by]
<1>2. by \in Injection(Counted(e, f), Request)
  BY <1>1 DEF CastOnce, Injection, IsInjective
<1>3. IsFiniteSet(Counted(e, f)) /\ Cardinality(Counted(e, f)) <= MostPoints
  BY <1>2, FS_Injection, VotingAssumption DEF MostPoints
<1>4. Points(Counted(e, f)) \in -Cardinality(Counted(e, f))..Cardinality(Counted(e, f))
  BY <1>1, <1>3, PointsInRange
<1>5. MostPoints \in Nat /\ Cardinality(Counted(e, f)) \in Nat
  BY <1>3, FS_CardinalityType, VotingAssumption DEF MostPoints
<1>6. Total(e, f) \in -MostPoints..MostPoints
  BY <1>3, <1>4, <1>5 DEF Total
<1>7. ResultRow(r, e, f) \in Result
  BY <1>6 DEF ResultRow, Result
<1> QED
  BY <1>7 DEF Tallied

LEMMA RangedStep ==
  Typed /\ OpFitsStep /\ CastOnce /\ RowsFit /\ Ranged /\ [Next]_vars => Ranged'
<1> SUFFICES ASSUME Typed, OpFitsStep, CastOnce, RowsFit, Ranged, [Next]_vars PROVE Ranged'
  OBVIOUS
<1> DEFINE Fit(r) ==
      /\ rows[r] \subseteq Result
      /\ call[r] = Idle <=> pc[r] = "new"
      /\ pc[r] # "new" => call[r].time \in 1..MaxTime
      /\ call[r].op = "vote" => call[r].value \in {-1, 0, 1}
      /\ call[r].op = "vote" /\ pc[r] \in {"select", "drop", "insert"} => call[r].value # 0
<1>0. /\ now \in 1..MaxTime /\ last \in 0..MaxTime /\ MaxTime \in Nat
      /\ votes \subseteq Vote /\ results \subseteq Result /\ \A r \in Request : Fit(r)
  BY VotingAssumption DEF Ranged
<1> USE DEF stored, Goto, AfterDrop, AfterInsert, Typed
<1>1. ASSUME NEW r \in Request, NEW c \in Calls, Begin(r, c) PROVE Ranged'
  <2>1. c.time = now /\ c # Idle /\ (c.op = "vote" => c.value \in {-1, 0, 1})
        /\ (c.op = "vote" => FirstStatement[c.op] = "check")
        /\ FirstStatement[c.op] \in {"check", "select", "snapshot", "due"}
    <3>1. c.time = now /\ c.op # "none" /\ (c.op = "vote" => c.value \in {-1, 0, 1})
      BY DEF Calls, Clamp
    <3>2. FirstStatement["vote"] = "check"
      BY DEF FirstStatement, OperationKind
    <3> QED
      BY <3>1, <3>2, CallsTyped DEF Idle
  <2>2. /\ pc[r] = "new" /\ call'[r] = c /\ pc'[r] = FirstStatement[c.op] /\ rows' = rows
        /\ UNCHANGED <<now, last, votes, results>>
        /\ \A s \in Request \ {r} : pc'[s] = pc[s] /\ call'[s] = call[s]
    BY <1>1 DEF Begin
  <2>3. Fit(r)'
    BY <1>0, <2>1, <2>2
  <2>4. \A s \in Request \ {r} : Fit(s)'
    BY <1>0, <2>2
  <2> HIDE DEF Fit
  <2>5. \A s \in Request : Fit(s)'
    BY <2>3, <2>4
  <2> QED
    BY <1>0, <2>2, <2>5 DEF Ranged, Fit, Result, ResultFunction, Vote
<1>2. ASSUME NEW r \in Request, Step(r) \/ Die(r) PROVE Ranged'
  <2>1. /\ Active(r) /\ pc'[r] # "new" /\ Others(r) /\ now' = now
        /\ call'[r].op = call[r].op /\ call'[r].time = call[r].time
        /\ pc[r] # "save" => call'[r] = call[r]
    BY <1>2, OwnOnly
  <2>2. call'[r].value = call[r].value /\ call'[r] # Idle
    <3>1. CASE CronNext(r)
      <4>1. PICK e \in todo[r] : call' = [call EXCEPT ![r].entity = e]
        BY <3>1 DEF CronNext
      <4>2. call[r] \in CallRow /\ call[r].op = "cron"
        BY <3>1 DEF CronNext
      <4> QED
        BY <4>1, <4>2 DEF CallRow, Idle
    <3>2. CASE call' = call
      BY <1>0, <2>1, <3>2 DEF Active
    <3> QED
      BY <1>2, <3>1, <3>2 DEF Step, Check, SelectOwn, Drop, Insert, Wipe, Tally, Split, Save, Return,
         Due, CronReturn, CronEnds, Snapshot, Commit, Die
  <2>3. \A s \in Request \ {r} : Fit(s)'
    BY <1>0, <2>1 DEF Others
  <2>4. votes' \subseteq Vote
    <3>1. CASE Insert(r)
      <4>1. /\ call[r].value \in {-1, 1} /\ call[r].time \in 1..MaxTime
            /\ call[r].user \in User /\ call[r].entity \in Entity
        BY <1>0, <3>1 DEF Insert, OpFitsStep
      <4> QED
        BY <1>0, <3>1, <4>1 DEF Insert, Vote
    <3>2. CASE votes' \subseteq votes
      BY <1>0, <3>2
    <3> QED
      BY <1>2, <3>1, <3>2 DEF Step, Check, SelectOwn, Drop, Wipe, Tally, Split, Save, Return, Due,
         CronNext, CronReturn, CronEnds, Snapshot, Commit, Die
  <2>5. results' \subseteq Result /\ rows'[r] \subseteq Result
    <3>0. results \subseteq Result /\ rows[r] \subseteq Result
      BY <1>0
    <3>1. CASE Tally(r) \/ Split(r)
      <4>1. call[r].entity \in Entity
        BY <3>1 DEF Tally, Split, RowsFit
      <4>2. \A f \in ResultFunction : Tallied(r, call[r].entity, f) \subseteq Result
        BY <4>1, TalliedInRange
      <4> HIDE DEF Result
      <4> QED
        BY <3>0, <3>1, <4>2 DEF Tally, Split, ResultFunction, RowsFit
    <3>2. CASE Save(r)
      <4>1. First(rows[r]) \in rows[r]
        BY <3>2, FirstIsOne DEF Save
      <4> HIDE DEF Result
      <4> QED
        BY <3>0, <3>2, <4>1 DEF Save, RowsFit
    <3>3. CASE Wipe(r) \/ Snapshot(r) \/ Commit(r)
      BY <3>0, <3>3 DEF Wipe, Snapshot, Commit, RowsFit
    <3>4. CASE UNCHANGED <<results, rows>>
      BY <3>0, <3>4
    <3> QED
      BY <1>2, <3>1, <3>2, <3>3, <3>4 DEF Step, Check, SelectOwn, Drop, Insert, Return, Due, CronNext,
         CronReturn, CronEnds, Die
  <2>6. last' \in 0..MaxTime
    <3>1. CASE CronReturn(r)
      BY <1>0, <2>1, <3>1 DEF CronReturn, CronEnds, Active
    <3>2. CASE last' = last
      BY <1>0, <3>2
    <3> QED
      BY <1>2, <3>1, <3>2 DEF Step, Check, SelectOwn, Drop, Insert, Wipe, Tally, Split, Save, Return,
         Due, CronNext, Snapshot, Commit, Die
  <2>7. call[r].op = "vote" /\ pc'[r] \in {"select", "drop", "insert"} => call[r].value # 0
    BY <1>0, <1>2 DEF Step, Check, SelectOwn, Drop, Insert, Wipe, Tally, Split, Save, Return, Due,
       CronNext, CronReturn, CronEnds, Snapshot, Commit, Die
  <2>8. Fit(r)'
    BY <1>0, <2>1, <2>2, <2>5, <2>7 DEF Active
  <2> HIDE DEF Fit
  <2>9. \A s \in Request : Fit(s)'
    BY <2>3, <2>8
  <2> QED
    BY <1>0, <2>1, <2>4, <2>5, <2>6, <2>9 DEF Ranged, Fit
<1>3. CASE Tick \/ UNCHANGED vars
  <2>1. UNCHANGED <<last, pc, call, rows, votes, results>> /\ now' \in 1..MaxTime
    BY <1>0, <1>3 DEF Tick, vars
  <2> QED
    BY <2>1 DEF Ranged, Vote, Result
<1> QED
  BY <1>1, <1>2, <1>3 DEF Next

LEMMA InitRanged == Init => Ranged
BY VotingAssumption DEF Init, Ranged, Idle

THEOREM TypesAreKept == Spec => []TypeOK
<1>1. Typed /\ VotesIInv /\ RowsFit /\ Ranged /\ [Next]_vars => Ranged'
  BY RangedStep DEF VotesIInv
<1>2. Typed /\ VotesIInv /\ RowsFit /\ Ranged /\ RepairIInv => TypeOK
  BY DEF TypeOK, Typed, Statement, VotesIInv, CastOnce, RowsFit, Ranged, RepairIInv, AloneIsAlone
<1> QED
  BY <1>1, <1>2, InitRanged, RowsAreOwn, AloneRepairs, InductiveInvariant, PTL DEF Spec
=============================================================================
