-------------------------------- MODULE Batch --------------------------------
(* A progressive batch: the page that asks for progress (progress.js,          *)
(* batch.js), the requests that work on it (batch.inc), the row of {batch}     *)
(* they load at their start and write back at their end, and the queue of its  *)
(* operations.  A browser that reloads the page, or gives up on an answer,     *)
(* leaves the request it made running.                                         *)
EXTENDS Naturals, Sequences, FiniteSets

CONSTANTS
  Request,    \* PHP processes that serve the page of the batch
  Ops,        \* Ops[s]: how many operations the set s of the batch has
  MaxReloads, \* bound: reloads, and answers the browser does not wait for
  MaxFaults,  \* bound: requests that are killed or end in a fatal error
  None

ASSUME BatchAssumption ==
  /\ Ops \in Seq(Nat) /\ Ops # <<>>
  /\ MaxReloads \in Nat /\ MaxFaults \in Nat
  /\ None \notin Request

Sets == 1..Len(Ops)

(* The operations; a queue per set hands them out in their order. *)
Op == UNION {{s} \X (1..Ops[s]) : s \in Sets}

ASSUME NoOperation == None \notin Op

VARIABLES
  row,     \* the row of {batch}, or None
  queue,   \* the items of all the queues of the batch
  pc,      \* pc[q]: what the request q does next
  op,      \* op[q]: the value of op in q's URL
  copy,    \* copy[q]: $batch in q, or None
  item,    \* item[q]: the operation q has completed and not deleted, or None
  fin,     \* fin[q]: $finished as _batch_process() leaves it
  page,    \* what the page does
  want,    \* the op of its next request
  asked,   \* the request it waits for, or None
  ran,     \* ran[o]: how often the operation o was completed
  told,    \* the sets the finished callbacks were told to be successful, or None
  calls,   \* how often the finished callbacks were called
  reloads, faults,
  hurt     \* what came in between, see Load, FinishFails and Die

request == <<pc, op, copy, item, fin>>
browser == <<page, want, asked, reloads>>
results == <<ran, told, calls>>
vars == <<row, queue, request, browser, results, faults, hurt>>

(* $finished between 0 and 1, and an error instead of it. *)
Part == 2
Failed == 3

PC == {"idle", "load", "claim", "delete", "save", "finish", "purge", "purgequeue", "answer"}

(* What is left of a batch: the current set, its count of operations, the      *)
(* sandbox, as the operation that filled it, and whether the last set is done. *)
Batch ==
  [set : Sets, count : Nat, box : Op \cup {None}, over : BOOLEAN, running : BOOLEAN]

ASSUME NoBatch == None \notin Batch

(* What the tables, the requests and the page hold; no count falls below zero. *)
TypeOK ==
  /\ row \in Batch \cup {None} /\ queue \subseteq Op
  /\ pc \in [Request -> PC]
  /\ op \in [Request -> {"start", "do", "finished"}]
  /\ copy \in [Request -> Batch \cup {None}]
  /\ item \in [Request -> Op \cup {None}]
  /\ fin \in [Request -> {0, 1, Part, Failed}]
  /\ page \in {"send", "wait", "error", "done"}
  /\ want \in {"start", "do", "finished"}
  /\ asked \in Request \cup {None}
  /\ ran \in [Op -> Nat] /\ told \in (SUBSET Sets) \cup {None} /\ calls \in Nat
  /\ reloads \in 0..MaxReloads /\ faults \in 0..MaxFaults
  /\ hurt \subseteq {"overlap", "loss", "redo"}

(* batch_process() has stored the batch and redirects to op=start. *)
Init ==
  /\ row = [set |-> 1, count |-> Ops[1], box |-> None, over |-> FALSE, running |-> FALSE]
  /\ queue = Op
  /\ pc = [q \in Request |-> "idle"] /\ op = [q \in Request |-> "do"]
  /\ copy = [q \in Request |-> None] /\ item = [q \in Request |-> None]
  /\ fin = [q \in Request |-> 0]
  /\ page = "send" /\ want = "start" /\ asked = None
  /\ ran = [o \in Op |-> 0] /\ told = None /\ calls = 0
  /\ reloads = 0 /\ faults = 0 /\ hurt = {}

Goto(q, label) == pc' = [pc EXCEPT ![q] = label]

(* More operations, or the second of progressive mode is over. *)
LoopOrSave(q) == \E label \in {"claim", "save"} : Goto(q, label)

-----------------------------------------------------------------------------
Working(q) == pc[q] \notin {"idle", "load", "answer"}

(* _batch_page(): batch_load(), and the choice by op.  The first page only     *)
(* marks the batch as running.                                                 *)
Load(q) ==
  /\ pc[q] = "load"
  /\ copy' = [copy EXCEPT ![q] =
       IF row # None /\ op[q] = "start" THEN [row EXCEPT !.running = TRUE] ELSE row]
  /\ fin' = [fin EXCEPT ![q] = 0]
  /\ Goto(q, CASE row = None -> "answer"
               [] op[q] = "finished" /\ row # None -> "finish"
               [] op[q] = "start" /\ row # None /\ ~row.running -> "save"
               [] OTHER -> "claim")
  /\ hurt' = IF \E r \in Request : Working(r) THEN hurt \cup {"overlap"} ELSE hurt
  /\ UNCHANGED <<row, queue, op, item, browser, results, faults>>

(* Mutation: a set without operations ends the loop. *)
Advance_Stops(b) == IF b.count = 0 THEN [b EXCEPT !.over = TRUE] ELSE b

(* Mutation: current_set is counted on before the next set is looked for. *)
Advance_Overruns(b) ==
  IF b.count # 0 THEN b
  ELSE IF \A s \in (b.set + 1)..Len(Ops) : Ops[s] = 0
       THEN [b EXCEPT !.set = Len(Ops) + 1, !.over = TRUE]
       ELSE [b EXCEPT !.set = Len(Ops), !.count = Ops[Len(Ops)]]

(* _batch_next_set(), past all sets that have no operations. *)
Advance(b) ==
  IF b.count # 0 THEN b
  ELSE IF \A s \in (b.set + 1)..Len(Ops) : Ops[s] = 0
       THEN [b EXCEPT !.set = Len(Ops), !.over = TRUE]
       ELSE LET s == CHOOSE s \in (b.set + 1)..Len(Ops) :
                       Ops[s] # 0 /\ \A t \in (b.set + 1)..(s - 1) : Ops[t] = 0
            IN [b EXCEPT !.set = s, !.count = Ops[s]]

(* BatchQueue::claimItem(): the first item there is, claimed or not. *)
IsFirst(q, o) ==
  /\ o \in queue /\ o[1] = copy[q].set
  /\ \A i \in 1..(o[2] - 1) : <<o[1], i>> \notin queue

NoItem(q) == \A o \in queue : o[1] # copy[q].set

(* Mutation: $finished has its default of 1 before the loop. *)
AlreadyOver_One(q) ==
  /\ pc[q] = "claim" /\ copy[q].over
  /\ fin' = [fin EXCEPT ![q] = 1]
  /\ Goto(q, "save")
  /\ UNCHANGED <<row, queue, op, copy, item, browser, results, faults, hurt>>

(* _batch_process() of a batch that is done: the loop is not entered. *)
AlreadyOver(q) ==
  /\ pc[q] = "claim" /\ copy[q].over
  /\ Goto(q, "save")
  /\ UNCHANGED <<row, queue, op, copy, item, fin, browser, results, faults, hurt>>

(* An operation that returns with finished < 1: its sandbox is all it keeps.   *)
(* The bound on its passes is two.                                             *)
Pass(q) ==
  /\ pc[q] = "claim" /\ ~copy[q].over
  /\ \E o \in Op :
       /\ IsFirst(q, o) /\ copy[q].box = None
       /\ copy' = [copy EXCEPT ![q].box = o]
  /\ fin' = [fin EXCEPT ![q] = Part]
  /\ LoopOrSave(q)
  /\ UNCHANGED <<row, queue, op, item, browser, results, faults, hurt>>

Complete(q) ==
  /\ pc[q] = "claim" /\ ~copy[q].over
  /\ \E o \in Op :
       /\ IsFirst(q, o)
       /\ item' = [item EXCEPT ![q] = o]
       /\ ran' = [ran EXCEPT ![o] = @ + 1]
  /\ Goto(q, "delete")
  /\ UNCHANGED <<row, queue, op, copy, fin, browser, told, calls, faults, hurt>>

(* Mutation: the sandbox is left to the next operation. *)
Delete_KeepsSandbox(q) ==
  /\ pc[q] = "delete"
  /\ queue' = queue \ {item[q]}
  /\ item' = [item EXCEPT ![q] = None]
  /\ fin' = [fin EXCEPT ![q] = 0]
  /\ copy' = [copy EXCEPT ![q] = Advance([copy[q] EXCEPT !.count = @ - 1])]
  /\ LoopOrSave(q)
  /\ UNCHANGED <<row, op, browser, results, faults, hurt>>

(* Mutation: no "Make sure this step is not counted twice". *)
Delete_CountsTwice(q) ==
  /\ pc[q] = "delete"
  /\ queue' = queue \ {item[q]}
  /\ item' = [item EXCEPT ![q] = None]
  /\ fin' = [fin EXCEPT ![q] = 1]
  /\ copy' = [copy EXCEPT ![q] = Advance([copy[q] EXCEPT !.count = @ - 1, !.box = None])]
  /\ LoopOrSave(q)
  /\ UNCHANGED <<row, op, browser, results, faults, hurt>>

(* Mutation: the item stays in the queue. *)
Delete_Releases(q) ==
  /\ pc[q] = "delete"
  /\ item' = [item EXCEPT ![q] = None]
  /\ fin' = [fin EXCEPT ![q] = 0]
  /\ copy' = [copy EXCEPT ![q] = Advance([copy[q] EXCEPT !.count = @ - 1, !.box = None])]
  /\ LoopOrSave(q)
  /\ UNCHANGED <<row, queue, op, browser, results, faults, hurt>>

Delete(q) ==
  /\ pc[q] = "delete"
  /\ queue' = queue \ {item[q]}
  /\ item' = [item EXCEPT ![q] = None]
  /\ fin' = [fin EXCEPT ![q] = 0]
  /\ copy' = [copy EXCEPT ![q] = Advance([copy[q] EXCEPT !.count = @ - 1, !.box = None])]
  /\ LoopOrSave(q)
  /\ UNCHANGED <<row, op, browser, results, faults, hurt>>

(* No item in the queue of the current set: $finished keeps its default of 1,  *)
(* and the loop goes on to the end of the second if operations are counted.    *)
Missing(q) ==
  /\ pc[q] = "claim" /\ ~copy[q].over /\ NoItem(q)
  /\ copy' = [copy EXCEPT ![q] = Advance(@)]
  /\ fin' = [fin EXCEPT ![q] = 1]
  /\ LoopOrSave(q)
  /\ UNCHANGED <<row, queue, op, item, browser, results, faults, hurt>>

(* Mutation: a request that ends in an error does not come to its last line. *)
Save_NotOnError(q) ==
  /\ pc[q] = "save"
  /\ row' = IF row = None \/ fin[q] = Failed THEN row ELSE copy[q]
  /\ Goto(q, "answer")
  /\ UNCHANGED <<queue, op, copy, item, fin, browser, results, faults, hurt>>

(* _batch_shutdown(), and the answer is on its way. *)
Save(q) ==
  /\ pc[q] = "save"
  /\ row' = IF row = None THEN None ELSE copy[q]
  /\ Goto(q, "answer")
  /\ UNCHANGED <<queue, op, copy, item, fin, browser, results, faults, hurt>>

(* _batch_finished(): the callbacks are told the success of their sets, *)
Finish(q) ==
  /\ pc[q] = "finish"
  /\ told' = {s \in Sets : s < copy[q].set \/ copy[q].over}
  /\ calls' = calls + 1
  /\ Goto(q, "purge")
  /\ UNCHANGED <<row, queue, op, copy, item, fin, browser, ran, faults, hurt>>

(* A callback throws, or ends in a fatal error: the row stays, and the callbacks *)
(* called so far, of which told' names all there may be, are called again when  *)
(* the page is reloaded.                                                       *)
FinishFails(q) ==
  /\ pc[q] = "finish" /\ faults < MaxFaults
  /\ faults' = faults + 1
  /\ told' = {s \in Sets : s < copy[q].set \/ copy[q].over}
  /\ calls' = calls + 1
  /\ fin' = [fin EXCEPT ![q] = Failed]
  /\ Goto(q, "save")
  /\ hurt' = hurt \cup {"redo"}
  /\ UNCHANGED <<row, queue, op, copy, item, browser, ran>>

(* then the row goes, and nothing is written back, *)
Purge(q) ==
  /\ pc[q] = "purge"
  /\ row' = None
  /\ Goto(q, "purgequeue")
  /\ UNCHANGED <<queue, op, copy, item, fin, browser, results, faults, hurt>>

(* then the queues. *)
PurgeQueue(q) ==
  /\ pc[q] = "purgequeue"
  /\ queue' = {}
  /\ Goto(q, "answer")
  /\ UNCHANGED <<row, op, copy, item, fin, browser, results, faults, hurt>>

(* An operation ends in a fatal error or an exception: shutdown functions run. *)
Fatal(q) ==
  /\ pc[q] = "claim" /\ ~copy[q].over /\ ~NoItem(q) /\ faults < MaxFaults
  /\ faults' = faults + 1
  /\ fin' = [fin EXCEPT ![q] = Failed]
  /\ Goto(q, "save")
  /\ UNCHANGED <<row, queue, op, copy, item, browser, results, hurt>>

(* The process is killed.  Operations it has deleted are still counted in the  *)
(* row, one it has not yet deleted will be executed again, and so will         *)
(* callbacks whose batch is still there.                                       *)
Die(q) ==
  /\ Working(q) /\ faults < MaxFaults
  /\ faults' = faults + 1
  /\ fin' = [fin EXCEPT ![q] = Failed] /\ item' = [item EXCEPT ![q] = None]
  /\ Goto(q, "answer")
  /\ hurt' = hurt \cup (IF row # None /\ <<row.set, row.count>> # <<copy[q].set, copy[q].count>>
                        THEN {"loss"} ELSE {})
                  \cup (IF pc[q] \in {"delete", "purge"} THEN {"redo"} ELSE {})
  /\ UNCHANGED <<row, queue, op, copy, browser, results>>

-----------------------------------------------------------------------------
Send ==
  /\ page = "send"
  /\ \E q \in Request :
       /\ pc[q] = "idle"
       /\ Goto(q, "load")
       /\ op' = [op EXCEPT ![q] = want]
       /\ asked' = q
  /\ page' = "wait"
  /\ UNCHANGED <<row, queue, copy, item, fin, want, reloads, results, faults, hurt>>

(* _batch_api_percentage() of what is left of the set at the end of a request. *)
Hundred(q) ==
  /\ copy[q] # None
  /\ Ops[copy[q].set] = 0 \/ (fin[q] \in {0, 1} /\ copy[q].count = fin[q])

(* The copy and the verdict of a request go with it. *)
Reset(q) ==
  /\ Goto(q, "idle")
  /\ copy' = [copy EXCEPT ![q] = None]
  /\ fin' = [fin EXCEPT ![q] = 0]
  /\ op' = [op EXCEPT ![q] = "do"]

(* What the page does with an answer: a percentage of 100 is followed by       *)
(* op=finished, an error by a link to it; without a batch there is no JSON.    *)
React(q) ==
  CASE fin[q] = Failed -> page' = "error" /\ want' = want
    [] op[q] = "finished" /\ fin[q] # Failed -> page' = "done" /\ want' = want
    [] op[q] = "start" /\ fin[q] # Failed ->
         /\ page' = IF copy[q] = None THEN "done" ELSE "send"
         /\ want' = "do"
    [] op[q] = "do" /\ fin[q] # Failed ->
         /\ page' = IF copy[q] = None THEN "error" ELSE "send"
         /\ want' = IF Hundred(q) THEN "finished" ELSE "do"

Receive ==
  /\ page = "wait"
  /\ pc[asked] = "answer"
  /\ React(asked) /\ Reset(asked)
  /\ asked' = None
  /\ UNCHANGED <<row, queue, item, reloads, results, faults, hurt>>

(* An answer nobody waits for. *)
Discard(q) ==
  /\ pc[q] = "answer" /\ q # asked
  /\ Reset(q)
  /\ UNCHANGED <<row, queue, item, browser, results, faults, hurt>>

(* A reload asks for op=start, which by then works on the batch. *)
Reload ==
  /\ page \in {"wait", "error"} /\ reloads < MaxReloads
  /\ reloads' = reloads + 1
  /\ page' = "send" /\ want' = "start" /\ asked' = None
  /\ UNCHANGED <<row, queue, request, results, faults, hurt>>

(* The connection fails or times out; the server does not notice. *)
LoseAnswer ==
  /\ page = "wait" /\ reloads < MaxReloads
  /\ reloads' = reloads + 1
  /\ page' = "error"
  /\ asked' = None
  /\ UNCHANGED <<row, queue, request, want, results, faults, hurt>>

(* "Please continue to the error page", or a reload of that page. *)
ErrorLink ==
  /\ page = "error"
  /\ page' = "send" /\ want' = "finished"
  /\ UNCHANGED <<row, queue, request, asked, reloads, results, faults, hurt>>

-----------------------------------------------------------------------------
Serve(q) ==
  \/ Load(q) \/ AlreadyOver(q) \/ Pass(q) \/ Complete(q) \/ Delete(q) \/ Missing(q)
  \/ Save(q) \/ Finish(q) \/ Purge(q) \/ PurgeQueue(q) \/ Discard(q)

Next ==
  \/ \E q \in Request : Serve(q) \/ Fatal(q) \/ FinishFails(q) \/ Die(q)
  \/ Send \/ Receive \/ Reload \/ LoseAnswer \/ ErrorLink

(* Requests and the page's script run on; nobody has to click. *)
Fairness == (\A q \in Request : WF_vars(Serve(q))) /\ WF_vars(Send) /\ WF_vars(Receive)

Spec == Init /\ [][Next]_vars /\ Fairness

-----------------------------------------------------------------------------
(* A set is reported successful to its callback only if all its operations     *)
(* were completed: reloads, lost answers, errors and killed requests make the  *)
(* count of a batch too large, never too small.                                *)
SuccessIsTrue ==
  told # None => \A o \in Op : o[1] \in told => ran[o] > 0

(* What it rests on: a batch counts, for its current set, at least what has    *)
(* not run, what is queued and what its request is about to delete, and it has *)
(* left a set behind only when all of it had run.                              *)
Remaining(s, o, times, items) ==
  {k \in 1..Ops[s] : times[<<s, k>>] = 0 \/ <<s, k>> \in items \/ <<s, k>> = o}

Enough(b, o, times, items) ==
  /\ Cardinality(Remaining(b.set, o, times, items)) <= b.count
  /\ \A p \in Op : p[1] < b.set \/ b.over => times[p] > 0

CountsSuffice ==
  /\ row # None => Enough(row, None, ran, queue)
  /\ \A q \in Request : copy[q] # None => Enough(copy[q], item[q], ran, queue)

InHand ==
  \A q \in Request :
    /\ pc[q] = "delete" <=> item[q] # None
    /\ item[q] # None => item[q][1] = copy[q].set /\ ran[item[q]] > 0
    /\ pc[q] \in {"claim", "delete", "save", "finish"} => copy[q] # None

SuccessIInv == CountsSuffice /\ InHand /\ SuccessIsTrue

(* A set with operations is reported as failed only if some are left, unless *)
(* two requests worked at once or one was killed behind a deleteItem().        *)
FailureIsTrue ==
  [][calls' # calls /\ hurt \cap {"overlap", "loss"} = {} =>
       \A s \in Sets \ told' : Ops[s] # 0 => \E o \in queue : o[1] = s]_vars

(* "we never print "100%" until we are finished" (batch.inc:343): the page     *)
(* leaves for op=finished when it reads 100, unless requests have overlapped   *)
(* or one was killed behind a deleteItem().  A first set without operations    *)
(* reads 100 at once.                                                          *)
HundredIsLast ==
  \A q \in Request :
    pc[q] = "answer" /\ op[q] = "do" /\ Hundred(q) /\ Ops[1] # 0 =>
      copy[q].over \/ hurt \cap {"overlap", "loss"} # {}

(* An operation never sees the sandbox of another one, unless two requests     *)
(* worked at once or one was killed behind a deleteItem().                     *)
SandboxIsOwn ==
  hurt \cap {"overlap", "loss"} = {} =>
    \A q \in Request :
      pc[q] = "claim" /\ copy[q].box # None => IsFirst(q, copy[q].box)

(* Operations are completed, and callbacks called, once each: an answer that   *)
(* is lost, a reload and the fatal error of an operation repeat nothing, unless *)
(* two requests overlap, one is killed before it has noted what it did, or a   *)
(* callback throws.                                                            *)
OnceEach ==
  hurt \cap {"overlap", "redo"} = {} => calls <= 1 /\ \A o \in Op : ran[o] <= 1

(* The page comes to an end, or shows an error, by itself. *)
PageEnds == page \in {"send", "wait"} ~> (page \in {"done", "error"} \/ hurt # {})
==============================================================================
