------------------------------ MODULE BatchProofs ------------------------------
(* Theorems about Batch for any number of requests, sets, operations, reloads  *)
(* and faults: a set that is reported successful was completed, one that is     *)
(* reported failed was not, 100% is the end, no operation sees a foreign        *)
(* sandbox, and nothing is done twice, each unless what it names came between.  *)
EXTENDS Batch, FiniteSetTheorems, WellFoundedInduction, TLAPS

Typed ==
  /\ row \in Batch \cup {None} /\ queue \subseteq Op
  /\ pc \in [Request -> PC]
  /\ copy \in [Request -> Batch \cup {None}]
  /\ item \in [Request -> Op \cup {None}]
  /\ ran \in [Op -> Nat]

-----------------------------------------------------------------------------
LEMMA OpsFacts ==
  /\ Len(Ops) \in Nat /\ Len(Ops) >= 1 /\ Len(Ops) \in Sets
  /\ \A s \in Sets : Ops[s] \in Nat /\ s \in Nat
BY BatchAssumption DEF Sets

LEMMA OpFacts ==
  /\ \A o \in Op : o[1] \in Sets /\ o[2] \in 1..Ops[o[1]] /\ o = <<o[1], o[2]>>
  /\ \A s \in Sets : \A k \in 1..Ops[s] : <<s, k>> \in Op
BY DEF Op

(* What remains of a set is finite. *)
LEMMA RemainingFinite ==
  ASSUME NEW s \in Sets, NEW o, NEW times, NEW items
  PROVE  /\ IsFiniteSet(Remaining(s, o, times, items))
         /\ Cardinality(Remaining(s, o, times, items)) \in Nat
         /\ Cardinality(Remaining(s, o, times, items)) <= Ops[s]
<1> DEFINE R == Remaining(s, o, times, items)
<1>1. Ops[s] \in Nat
  BY OpsFacts
<1>2. IsFiniteSet(1..Ops[s]) /\ Cardinality(1..Ops[s]) = Ops[s]
  BY <1>1, FS_Interval
<1>3. R \in SUBSET (1..Ops[s])
  BY DEF Remaining
<1> QED
  BY <1>2, <1>3, FS_Subset, FS_CardinalityType

(* A count stays sufficient while less remains and more has run. *)
LEMMA EnoughStays ==
  ASSUME NEW b \in Batch, NEW c \in Batch,
         b.set = c.set, b.count = c.count, b.over = c.over,
         NEW o, NEW times, NEW items, NEW o2, NEW times2, NEW items2,
         Remaining(b.set, o2, times2, items2) \subseteq Remaining(b.set, o, times, items),
         \A p \in Op : times[p] > 0 => times2[p] > 0,
         Enough(b, o, times, items)
  PROVE  Enough(c, o2, times2, items2)
<1> DEFINE R == Remaining(b.set, o, times, items)
           S == Remaining(b.set, o2, times2, items2)
<1>1. b.set \in Sets /\ b.count \in Nat
  BY DEF Batch
<1>2. IsFiniteSet(R) /\ Cardinality(R) \in Nat /\ Cardinality(S) \in Nat
  BY <1>1, RemainingFinite
<1>3. Cardinality(S) <= Cardinality(R)
  BY <1>2, FS_Subset
<1>4. Cardinality(R) <= b.count
  BY DEF Enough
<1>5. Cardinality(Remaining(c.set, o2, times2, items2)) <= c.count
  BY <1>1, <1>2, <1>3, <1>4
<1>6. \A p \in Op : p[1] < c.set \/ c.over => times2[p] > 0
  BY DEF Enough
<1> QED
  BY <1>5, <1>6 DEF Enough

(* More has run and less is queued: every count that sufficed still does. *)
LEMMA EnoughOnward ==
  ASSUME NEW b \in Batch, NEW o,
         NEW times \in [Op -> Nat], NEW items, NEW times2 \in [Op -> Nat], NEW items2,
         items2 \subseteq items, \A p \in Op : times[p] > 0 => times2[p] > 0,
         Enough(b, o, times, items)
  PROVE  Enough(b, o, times2, items2)
<1>1. b.set \in Sets
  BY DEF Batch
<1>2. \A k \in 1..Ops[b.set] : times2[<<b.set, k>>] = 0 => times[<<b.set, k>>] = 0
  <2> SUFFICES ASSUME NEW k \in 1..Ops[b.set], times2[<<b.set, k>>] = 0
               PROVE  times[<<b.set, k>>] = 0
    OBVIOUS
  <2>1. <<b.set, k>> \in Op
    BY <1>1, OpFacts
  <2>2. times[<<b.set, k>>] \in Nat /\ times2[<<b.set, k>>] \in Nat
    BY <2>1
  <2>3. ~(times2[<<b.set, k>>] > 0)
    BY <2>2
  <2> QED
    BY <2>1, <2>2, <2>3
<1>3. Remaining(b.set, o, times2, items2) \subseteq Remaining(b.set, o, times, items)
  BY <1>2 DEF Remaining
<1> QED
  BY <1>3, EnoughStays

-----------------------------------------------------------------------------
(* Among the sets behind b.set that have operations there is a first one. *)
LEMMA NextSet ==
  ASSUME NEW n \in Nat, \E s \in (n + 1)..Len(Ops) : Ops[s] # 0, n >= 1
  PROVE  \E s \in (n + 1)..Len(Ops) :
           Ops[s] # 0 /\ \A t \in (n + 1)..(s - 1) : Ops[t] = 0
<1> DEFINE T == {s \in (n + 1)..Len(Ops) : Ops[s] # 0}
           R == {p \in Nat \X Nat : p[1] < p[2]}
<1>1. T \subseteq Nat /\ T # {}
  BY OpsFacts
<1>2. PICK s \in T : \A t \in T : ~(<<t, s>> \in R)
  <2>1. IsWellFoundedOn(R, Nat)
    BY NatLessThanWellFounded DEF OpToRel
  <2> HIDE DEF T, R
  <2> QED
    BY <1>1, <2>1, WFMin
<1>3. \A t \in T : ~(t < s)
  BY <1>1, <1>2
<1>4. \A t \in (n + 1)..(s - 1) : Ops[t] = 0
  BY <1>3, OpsFacts
<1> QED
  BY <1>4

(* When the count of a set is used up, all that ran before and all of this set *)
(* have run: the next set starts with all its operations counted.              *)
LEMMA AdvanceSuffices ==
  ASSUME NEW b \in Batch, NEW times \in [Op -> Nat], NEW items \in SUBSET Op,
         Enough(b, None, times, items)
  PROVE  Advance(b) \in Batch /\ Enough(Advance(b), None, times, items)
<1>1. /\ b.set \in Sets /\ b.count \in Nat /\ b.over \in BOOLEAN
      /\ b.set \in Nat /\ b.set >= 1 /\ Len(Ops) \in Nat /\ Len(Ops) \in Sets
  BY OpsFacts DEF Batch, Sets
<1>2. CASE b.count # 0
  BY <1>2 DEF Advance
<1>3. CASE b.count = 0
  <2>1. Remaining(b.set, None, times, items) = {}
    <3>1. Cardinality(Remaining(b.set, None, times, items)) <= 0
      BY <1>3 DEF Enough
    <3> QED
      BY <1>1, <3>1, RemainingFinite, FS_EmptySet
  <2>2. \A o \in Op : o[1] = b.set => times[o] > 0 /\ o \notin items
    <3> SUFFICES ASSUME NEW o \in Op, o[1] = b.set
                 PROVE  times[o] > 0 /\ o \notin items
      OBVIOUS
    <3>1. o[2] \in 1..Ops[b.set] /\ o = <<b.set, o[2]>> /\ times[o] \in Nat
      BY OpFacts
    <3>2. times[o] # 0 /\ o \notin items
      BY <2>1, <3>1 DEF Remaining
    <3> QED
      BY <3>1, <3>2
  <2>3. \A o \in Op : o[1] <= b.set => times[o] > 0
    <3>1. \A o \in Op : o[1] < b.set => times[o] > 0
      BY DEF Enough
    <3> SUFFICES ASSUME NEW o \in Op, o[1] <= b.set PROVE times[o] > 0
      OBVIOUS
    <3>2. o[1] \in Nat
      BY OpFacts, OpsFacts
    <3>3. o[1] < b.set \/ o[1] = b.set
      BY <1>1, <3>2
    <3> QED
      BY <2>2, <3>1, <3>3
  <2>4. \A o \in Op : o[1] \in Nat /\ o[1] <= Len(Ops) /\ Ops[o[1]] # 0
    BY OpFacts, OpsFacts DEF Sets
  <2>5. CASE \A s \in (b.set + 1)..Len(Ops) : Ops[s] = 0
    <3> DEFINE c == [b EXCEPT !.set = Len(Ops), !.over = TRUE]
    <3>1. Advance(b) = c
      BY <1>3, <2>5 DEF Advance
    <3>2. c \in Batch /\ c.set = Len(Ops) /\ c.count = 0 /\ c.over
      BY <1>1, <1>3 DEF Batch
    <3>3. \A o \in Op : times[o] > 0
      <4> SUFFICES ASSUME NEW o \in Op PROVE times[o] > 0
        OBVIOUS
      <4>1. ~(o[1] \in (b.set + 1)..Len(Ops))
        BY <2>4, <2>5
      <4>2. o[1] <= b.set
        BY <1>1, <2>4, <4>1
      <4> QED
        BY <2>3, <4>2
    <3>4. Remaining(Len(Ops), None, times, items) = {}
      <4>1. CASE Len(Ops) = b.set
        BY <2>1, <4>1
      <4>2. CASE Len(Ops) # b.set
        <5>1. Ops[Len(Ops)] = 0
          BY <1>1, <2>5, <4>2 DEF Sets
        <5> QED
          BY <5>1 DEF Remaining
      <4> QED
        BY <4>1, <4>2
    <3>5. Cardinality(Remaining(c.set, None, times, items)) <= c.count
      <4> HIDE DEF c
      <4>1. Remaining(c.set, None, times, items) = {}
        BY <3>2, <3>4
      <4>2. Cardinality(Remaining(c.set, None, times, items)) = 0
        BY <4>1, FS_EmptySet
      <4> QED
        BY <3>2, <4>2
    <3> HIDE DEF c
    <3> QED
      BY <3>1, <3>2, <3>3, <3>5 DEF Enough
  <2>6. CASE \E s \in (b.set + 1)..Len(Ops) : Ops[s] # 0
    <3> DEFINE IsNext(s) == Ops[s] # 0 /\ \A t \in (b.set + 1)..(s - 1) : Ops[t] = 0
               s == CHOOSE x \in (b.set + 1)..Len(Ops) : IsNext(x)
               c == [b EXCEPT !.set = s, !.count = Ops[s]]
    <3>1. Advance(b) = c
      BY <1>3, <2>6 DEF Advance
    <3>2. s \in (b.set + 1)..Len(Ops) /\ IsNext(s)
      <4>1. \E x \in (b.set + 1)..Len(Ops) : IsNext(x)
        BY <1>1, <2>6, NextSet
      <4> HIDE DEF IsNext
      <4> QED
        BY <4>1
    <3>3. s \in Sets /\ s \in Nat /\ Ops[s] \in Nat /\ s > b.set
      BY <1>1, <3>2, OpsFacts DEF Sets
    <3> HIDE DEF s
    <3>4. c \in Batch /\ c.set = s /\ c.count = Ops[s] /\ c.over = b.over
      BY <1>1, <3>3 DEF Batch
    <3>5. Cardinality(Remaining(c.set, None, times, items)) <= c.count
      BY <3>3, <3>4, RemainingFinite
    <3>6. \A o \in Op : o[1] < s => times[o] > 0
      <4> SUFFICES ASSUME NEW o \in Op, o[1] < s PROVE times[o] > 0
        OBVIOUS
      <4>1. ~(o[1] \in (b.set + 1)..(s - 1))
        BY <2>4, <3>2
      <4>2. o[1] <= b.set
        BY <1>1, <2>4, <3>3, <4>1
      <4> QED
        BY <2>3, <4>2
    <3>7. b.over => \A o \in Op : times[o] > 0
      BY DEF Enough
    <3> HIDE DEF c
    <3> QED
      BY <3>1, <3>4, <3>5, <3>6, <3>7 DEF Enough
  <2> QED
    BY <2>5, <2>6
<1> QED
  BY <1>2, <1>3

LEMMA RemoveOne ==
  ASSUME NEW R, IsFiniteSet(R), NEW x \in R
  PROVE  IsFiniteSet(R \ {x}) /\ Cardinality(R \ {x}) = Cardinality(R) - 1
BY FS_RemoveElement

(* An operation that has run is deleted, and counted off: what remains is one  *)
(* less as well.                                                               *)
LEMMA DeleteSuffices ==
  ASSUME NEW b \in Batch, NEW times \in [Op -> Nat], NEW items \in SUBSET Op,
         NEW o \in Op, o[1] = b.set, times[o] > 0,
         Enough(b, o, times, items)
  PROVE  LET c == [b EXCEPT !.count = @ - 1, !.box = None]
         IN c \in Batch /\ Enough(c, None, times, items \ {o})
<1> DEFINE c == [b EXCEPT !.count = @ - 1, !.box = None]
           R == Remaining(b.set, o, times, items)
           S == Remaining(b.set, None, times, items \ {o})
<1>1. b.set \in Sets /\ b.count \in Nat
  BY DEF Batch
<1>2. o[2] \in 1..Ops[b.set] /\ o = <<b.set, o[2]>> /\ times[o] \in Nat
  BY OpFacts
<1>3. o[2] \in R
  BY <1>2 DEF Remaining
<1>4. S \subseteq R \ {o[2]}
  <2>1. \A k \in S : k \in R
    <3> SUFFICES ASSUME NEW k \in S PROVE k \in R
      OBVIOUS
    <3>1. k \in 1..Ops[b.set] /\ <<b.set, k>> \in Op
      BY <1>1, OpFacts DEF Remaining
    <3>2. <<b.set, k>> # None
      BY <3>1, NoOperation
    <3> QED
      BY <3>1, <3>2 DEF Remaining
  <2>2. o[2] \notin S
    <3>1. times[<<b.set, o[2]>>] # 0 /\ <<b.set, o[2]>> \notin items \ {o}
      BY <1>2
    <3>2. <<b.set, o[2]>> # None
      BY <1>2, NoOperation
    <3> QED
      BY <3>1, <3>2 DEF Remaining
  <2> QED
    BY <2>1, <2>2
<1>5. IsFiniteSet(R) /\ Cardinality(R) \in Nat /\ Cardinality(S) \in Nat
  BY <1>1, RemainingFinite
<1>6. IsFiniteSet(R \ {o[2]}) /\ Cardinality(R \ {o[2]}) = Cardinality(R) - 1
  <2> HIDE DEF R
  <2> QED
    BY <1>3, <1>5, RemoveOne
<1>7. Cardinality(S) <= Cardinality(R) - 1
  <2> HIDE DEF R, S
  <2> QED
    BY <1>4, <1>6, FS_Subset
<1>8. Cardinality(R) <= b.count
  BY DEF Enough
<1>9. c \in Batch /\ c.set = b.set /\ c.count = b.count - 1 /\ c.over = b.over
  <2>1. b.count - 1 \in Nat
    BY <1>1, <1>5, <1>7, <1>8
  <2> QED
    BY <2>1 DEF Batch
<1>10. Cardinality(Remaining(c.set, None, times, items \ {o})) <= c.count
  <2>1. Cardinality(S) <= b.count - 1
    <3> HIDE DEF R, S
    <3> QED
      BY <1>1, <1>5, <1>7, <1>8
  <2> QED
    BY <1>9, <2>1
<1>11. \A p \in Op : p[1] < c.set \/ c.over => times[p] > 0
  BY <1>9 DEF Enough
<1> HIDE DEF c
<1> QED
  BY <1>9, <1>10, <1>11 DEF Enough, c

-----------------------------------------------------------------------------
Holding == {"claim", "delete", "save", "finish"}

InHandOf(q) ==
  /\ pc[q] = "delete" <=> item[q] # None
  /\ item[q] # None => item[q][1] = copy[q].set /\ ran[item[q]] > 0
  /\ pc[q] \in Holding => copy[q] # None

(* A step of the request q keeps the counts sufficient if it only completes    *)
(* operations and empties queues, and the row and its own copy suffice.        *)
LEMMA StepKeeps ==
  ASSUME Typed, Typed', SuccessIInv, NEW q \in Request,
         queue' \subseteq queue, \A p \in Op : ran[p] > 0 => ran'[p] > 0,
         row' = row \/ row' = None \/ Enough(row', None, ran', queue'),
         \A r \in Request \ {q} : pc'[r] = pc[r] /\ copy'[r] = copy[r] /\ item'[r] = item[r],
         \/ copy'[q] = None
         \/ copy'[q] = copy[q] /\ item'[q] = item[q]
         \/ Enough(copy'[q], item'[q], ran', queue'),
         InHandOf(q)',
         told' = told \/ SuccessIsTrue'
  PROVE  SuccessIInv'
<1>1. \A b \in Batch : \A o \in Op \cup {None} :
        Enough(b, o, ran, queue) => Enough(b, o, ran', queue')
  BY EnoughOnward DEF Typed
<1>2. CountsSuffice'
  <2>1. row' # None => Enough(row', None, ran', queue')
    <3>1. row # None => row \in Batch /\ Enough(row, None, ran, queue)
      BY DEF Typed, SuccessIInv, CountsSuffice
    <3> QED
      BY <1>1, <3>1
  <2>2. ASSUME NEW r \in Request, copy'[r] # None
        PROVE  Enough(copy'[r], item'[r], ran', queue')
    <3>1. copy[r] # None => Enough(copy[r], item[r], ran, queue)
      BY DEF SuccessIInv, CountsSuffice
    <3>2. copy[r] # None => copy[r] \in Batch
      BY DEF Typed
    <3>3. item[r] \in Op \cup {None}
      BY DEF Typed
    <3>4. copy[r] # None => Enough(copy[r], item[r], ran', queue')
      BY <1>1, <3>1, <3>2, <3>3
    <3> QED
      BY <2>2, <3>4
  <2> QED
    BY <2>1, <2>2 DEF CountsSuffice
<1>3. InHand'
  <2>1. ASSUME NEW r \in Request
        PROVE  /\ pc'[r] = "delete" <=> item'[r] # None
               /\ item'[r] # None => item'[r][1] = copy'[r].set /\ ran'[item'[r]] > 0
               /\ pc'[r] \in {"claim", "delete", "save", "finish"} => copy'[r] # None
    <3>1. CASE r = q
      BY <3>1 DEF InHandOf, Holding
    <3>2. CASE r # q
      <4>1. pc'[r] = pc[r] /\ copy'[r] = copy[r] /\ item'[r] = item[r]
        BY <3>2
      <4>2. /\ pc[r] = "delete" <=> item[r] # None
            /\ item[r] # None => item[r][1] = copy[r].set /\ ran[item[r]] > 0
            /\ pc[r] \in {"claim", "delete", "save", "finish"} => copy[r] # None
        BY DEF SuccessIInv, InHand
      <4>3. item[r] # None => item[r] \in Op
        BY DEF Typed
      <4>4. item[r] # None => ran'[item[r]] > 0
        BY <4>2, <4>3
      <4> QED
        BY <4>1, <4>2, <4>4
    <3> QED
      BY <3>1, <3>2
  <2> QED
    BY <2>1 DEF InHand
<1>4. SuccessIsTrue'
  BY DEF SuccessIInv, SuccessIsTrue
<1> QED
  BY <1>2, <1>3, <1>4 DEF SuccessIInv

(* A step that leaves the tables, the copies and the items, and moves no       *)
(* request into or out of those statements that need them.                     *)
LEMMA QuietStep ==
  ASSUME Typed, SuccessIInv, NEW q \in Request, NEW label \in PC \ {"delete"},
         pc[q] # "delete", label \in Holding => copy[q] # None,
         Goto(q, label), UNCHANGED <<row, queue, copy, item, ran, told>>
  PROVE  Typed' /\ SuccessIInv'
<1>1. Typed'
  BY DEF Typed, Goto
<1>2. InHandOf(q)'
  BY DEF InHandOf, SuccessIInv, InHand, Goto, Typed, Holding
<1>3. \A r \in Request \ {q} : pc'[r] = pc[r]
  BY DEF Goto, Typed
<1> QED
  BY <1>1, <1>2, <1>3, StepKeeps

LEMMA InitHolds == Init => Typed /\ SuccessIInv
<1> SUFFICES ASSUME Init PROVE Typed /\ SuccessIInv
  OBVIOUS
<1>1. 1 \in Sets /\ Ops[1] \in Nat
  BY OpsFacts DEF Sets
<1>2. row \in Batch /\ row.set = 1 /\ row.count = Ops[1] /\ ~row.over
  BY <1>1 DEF Init, Batch
<1>3. Typed
  BY <1>2 DEF Init, Typed, PC
<1>4. Enough(row, None, ran, queue)
  <2>1. Cardinality(Remaining(row.set, None, ran, queue)) <= row.count
    BY <1>1, <1>2, RemainingFinite
  <2>2. \A p \in Op : ~(p[1] < row.set \/ row.over)
    BY <1>2, OpFacts DEF Sets
  <2> QED
    BY <2>1, <2>2 DEF Enough
<1>5. CountsSuffice
  BY <1>4 DEF Init, CountsSuffice
<1>6. InHand /\ SuccessIsTrue
  BY DEF Init, InHand, SuccessIsTrue
<1> QED
  BY <1>3, <1>5, <1>6 DEF SuccessIInv

LEMMA LoadKeeps ==
  ASSUME Typed, SuccessIInv, NEW q \in Request, Load(q)
  PROVE  Typed' /\ SuccessIInv'
<1>1. /\ pc[q] = "load" /\ item[q] = None
      /\ UNCHANGED <<row, queue, item, ran, told>>
  BY DEF Load, results, SuccessIInv, InHand
<1> DEFINE b == IF row # None /\ op[q] = "start" THEN [row EXCEPT !.running = TRUE] ELSE row
<1>2. copy' = [copy EXCEPT ![q] = b] /\ copy'[q] = b
  BY DEF Load, Typed
<1>3. b \in Batch \cup {None} /\ (row # None => b \in Batch)
  BY DEF Typed, Batch
<1>4. row # None => b.set = row.set /\ b.count = row.count /\ b.over = row.over /\ row \in Batch
  BY DEF Typed, Batch
<1>5. PICK label \in PC \ {"delete"} :
        Goto(q, label) /\ (label \in Holding => row # None)
  <2>1. Goto(q, CASE row = None -> "answer"
                  [] op[q] = "finished" /\ row # None -> "finish"
                  [] op[q] = "start" /\ row # None /\ ~row.running -> "save"
                  [] OTHER -> "claim")
    BY DEF Load
  <2>2. CASE row = None
    <3>1. Goto(q, "answer")
      BY <2>1, <2>2
    <3> QED
      BY <2>2, <3>1 DEF PC, Holding
  <2>3. CASE row # None
    <3>1. Goto(q, "finish") \/ Goto(q, "save") \/ Goto(q, "claim")
      BY <2>1, <2>3
    <3> QED
      BY <2>3, <3>1 DEF PC
  <2> QED
    BY <2>2, <2>3
<1> HIDE DEF b
<1>6. Typed'
  BY <1>1, <1>2, <1>3, <1>5 DEF Typed, Goto
<1>7. pc'[q] = label /\ \A r \in Request \ {q} : pc'[r] = pc[r] /\ copy'[r] = copy[r]
  BY <1>2, <1>5 DEF Goto, Typed
<1>8. row # None => Enough(b, None, ran, queue)
  BY <1>3, <1>4, EnoughStays DEF SuccessIInv, CountsSuffice
<1>9. copy'[q] = None \/ Enough(copy'[q], item'[q], ran', queue')
  <2>1. row = None => b = None
    BY DEF b
  <2> QED
    BY <1>1, <1>2, <1>8, <2>1
<1>10. InHandOf(q)'
  BY <1>1, <1>2, <1>3, <1>5, <1>7, NoBatch DEF InHandOf
<1> QED
  BY <1>1, <1>6, <1>7, <1>9, <1>10, StepKeeps

LEMMA PassKeeps ==
  ASSUME Typed, SuccessIInv, NEW q \in Request, Pass(q)
  PROVE  Typed' /\ SuccessIInv'
<1>1. PICK o \in Op : copy' = [copy EXCEPT ![q].box = o]
  BY DEF Pass
<1>2. /\ pc[q] = "claim" /\ item[q] = None
      /\ copy[q] \in Batch /\ Enough(copy[q], None, ran, queue)
      /\ UNCHANGED <<row, queue, item, ran, told>>
  BY DEF Pass, results, SuccessIInv, InHand, CountsSuffice, Typed
<1> DEFINE b == [copy[q] EXCEPT !.box = o]
<1>3. copy'[q] = b /\ copy' = [copy EXCEPT ![q] = b]
  BY <1>1 DEF Typed
<1>4. b \in Batch /\ b.set = copy[q].set /\ b.count = copy[q].count /\ b.over = copy[q].over
  BY <1>2 DEF Batch
<1> HIDE DEF b
<1>5. Enough(b, None, ran, queue)
  BY <1>2, <1>4, EnoughStays
<1>6. PICK label \in {"claim", "save"} : Goto(q, label)
  BY DEF Pass, LoopOrSave
<1>7. Typed'
  BY <1>2, <1>3, <1>4, <1>6 DEF Typed, Goto, PC
<1>8. pc'[q] = label /\ \A r \in Request \ {q} : pc'[r] = pc[r] /\ copy'[r] = copy[r]
  BY <1>3, <1>6 DEF Goto, Typed
<1>9. InHandOf(q)'
  BY <1>2, <1>3, <1>4, <1>8, NoBatch DEF InHandOf
<1> QED
  BY <1>2, <1>3, <1>5, <1>7, <1>8, <1>9, StepKeeps

LEMMA CompleteKeeps ==
  ASSUME Typed, SuccessIInv, NEW q \in Request, Complete(q)
  PROVE  Typed' /\ SuccessIInv'
<1>1. PICK o \in Op : /\ IsFirst(q, o)
                      /\ item' = [item EXCEPT ![q] = o]
                      /\ ran' = [ran EXCEPT ![o] = @ + 1]
  BY DEF Complete
<1>2. /\ pc[q] = "claim" /\ item[q] = None /\ Goto(q, "delete")
      /\ copy[q] \in Batch /\ Enough(copy[q], None, ran, queue)
      /\ UNCHANGED <<row, queue, copy, told>>
  BY DEF Complete, SuccessIInv, InHand, CountsSuffice, Typed
<1>3. Typed'
  BY <1>1, <1>2 DEF Typed, Goto, PC
<1>4. ran'[o] > 0 /\ \A p \in Op : ran[p] > 0 => ran'[p] > 0
  BY <1>1 DEF Typed
<1>5. o \in queue /\ o[1] = copy[q].set
  BY <1>1 DEF IsFirst
<1>6. /\ item'[q] = o /\ pc'[q] = "delete"
      /\ \A r \in Request \ {q} : pc'[r] = pc[r] /\ item'[r] = item[r]
  BY <1>1, <1>2 DEF Goto, Typed
<1>7. Enough(copy[q], None, ran', queue)
  BY <1>2, <1>3, <1>4, EnoughOnward DEF Typed
<1>8. Enough(copy[q], o, ran', queue)
  <2>1. Remaining(copy[q].set, o, ran', queue) \subseteq Remaining(copy[q].set, None, ran', queue)
    BY <1>5 DEF Remaining
  <2> QED
    BY <1>2, <1>7, <2>1, EnoughStays
<1>9. InHandOf(q)'
  BY <1>2, <1>4, <1>5, <1>6, NoOperation, NoBatch DEF InHandOf
<1> QED
  BY <1>2, <1>3, <1>4, <1>6, <1>8, <1>9, StepKeeps

LEMMA DeleteKeeps ==
  ASSUME Typed, SuccessIInv, NEW q \in Request, Delete(q)
  PROVE  Typed' /\ SuccessIInv'
<1> DEFINE o == item[q]
           c == [copy[q] EXCEPT !.count = @ - 1, !.box = None]
           b == Advance(c)
<1>1. /\ pc[q] = "delete" /\ queue' = queue \ {o}
      /\ item' = [item EXCEPT ![q] = None]
      /\ copy' = [copy EXCEPT ![q] = b]
      /\ UNCHANGED <<row, ran, told>>
  BY DEF Delete, results
<1>2. o \in Op /\ o[1] = copy[q].set /\ ran[o] > 0
  BY <1>1 DEF SuccessIInv, InHand, Typed
<1>3. copy[q] \in Batch /\ Enough(copy[q], o, ran, queue)
  BY <1>1 DEF SuccessIInv, InHand, CountsSuffice, Typed
<1>4. ran \in [Op -> Nat] /\ queue \in SUBSET Op
  BY DEF Typed
<1> HIDE DEF o
<1>5. c \in Batch /\ Enough(c, None, ran, queue \ {o})
  BY <1>2, <1>3, <1>4, DeleteSuffices
<1> HIDE DEF c
<1>6. b \in Batch /\ Enough(b, None, ran, queue \ {o})
  BY <1>4, <1>5, AdvanceSuffices
<1> HIDE DEF b
<1>7. PICK label \in {"claim", "save"} : Goto(q, label)
  BY DEF Delete, LoopOrSave
<1>8. Typed'
  BY <1>1, <1>6, <1>7 DEF Typed, Goto, PC
<1>9. /\ pc'[q] = label /\ copy'[q] = b /\ item'[q] = None
      /\ \A r \in Request \ {q} : pc'[r] = pc[r] /\ copy'[r] = copy[r] /\ item'[r] = item[r]
  BY <1>1, <1>7 DEF Goto, Typed
<1>10. InHandOf(q)'
  BY <1>6, <1>9, NoBatch DEF InHandOf
<1> QED
  BY <1>1, <1>6, <1>8, <1>9, <1>10, StepKeeps

LEMMA MissingKeeps ==
  ASSUME Typed, SuccessIInv, NEW q \in Request, Missing(q)
  PROVE  Typed' /\ SuccessIInv'
<1> DEFINE b == Advance(copy[q])
<1>1. /\ pc[q] = "claim" /\ item[q] = None /\ copy' = [copy EXCEPT ![q] = b]
      /\ copy[q] \in Batch /\ Enough(copy[q], None, ran, queue)
      /\ UNCHANGED <<row, queue, item, ran, told>>
  BY DEF Missing, results, SuccessIInv, InHand, CountsSuffice, Typed
<1>2. b \in Batch /\ Enough(b, None, ran, queue)
  BY <1>1, AdvanceSuffices DEF Typed
<1> HIDE DEF b
<1>3. PICK label \in {"claim", "save"} : Goto(q, label)
  BY DEF Missing, LoopOrSave
<1>4. Typed'
  BY <1>1, <1>2, <1>3 DEF Typed, Goto, PC
<1>5. /\ pc'[q] = label /\ copy'[q] = b
      /\ \A r \in Request \ {q} : pc'[r] = pc[r] /\ copy'[r] = copy[r]
  BY <1>1, <1>3 DEF Goto, Typed
<1>6. InHandOf(q)'
  BY <1>1, <1>2, <1>5, NoBatch DEF InHandOf
<1> QED
  BY <1>1, <1>2, <1>4, <1>5, <1>6, StepKeeps

LEMMA SaveKeeps ==
  ASSUME Typed, SuccessIInv, NEW q \in Request, Save(q)
  PROVE  Typed' /\ SuccessIInv'
<1>1. /\ pc[q] = "save" /\ item[q] = None /\ Goto(q, "answer")
      /\ row' = row \/ row' = copy[q]
      /\ copy[q] \in Batch /\ Enough(copy[q], None, ran, queue)
      /\ UNCHANGED <<queue, copy, item, ran, told>>
  BY DEF Save, results, SuccessIInv, InHand, CountsSuffice, Typed
<1>2. Typed'
  BY <1>1 DEF Typed, Goto, PC
<1>3. pc'[q] = "answer" /\ \A r \in Request \ {q} : pc'[r] = pc[r]
  BY <1>1 DEF Goto, Typed
<1>4. InHandOf(q)'
  BY <1>1, <1>3 DEF InHandOf, Holding
<1> QED
  BY <1>1, <1>2, <1>3, <1>4, StepKeeps

LEMMA FinishKeeps ==
  ASSUME Typed, SuccessIInv, NEW q \in Request, Finish(q) \/ FinishFails(q)
  PROVE  Typed' /\ SuccessIInv'
<1>0. PICK label \in {"purge", "save"} : Goto(q, label)
  BY DEF Finish, FinishFails
<1>1. /\ pc[q] = "finish" /\ item[q] = None
      /\ told' = {s \in Sets : s < copy[q].set \/ copy[q].over}
      /\ copy[q] # None /\ Enough(copy[q], None, ran, queue)
      /\ UNCHANGED <<row, queue, copy, item, ran>>
  BY DEF Finish, FinishFails, SuccessIInv, InHand, CountsSuffice
<1>2. Typed'
  BY <1>0, <1>1 DEF Typed, Goto, PC
<1>3. pc'[q] = label /\ \A r \in Request \ {q} : pc'[r] = pc[r]
  BY <1>0 DEF Goto, Typed
<1>4. InHandOf(q)'
  BY <1>1, <1>3 DEF InHandOf, Holding
<1>5. SuccessIsTrue'
  <2>1. \A o \in Op : o[1] \in told' => ran[o] > 0
    BY <1>1 DEF Enough
  <2> QED
    BY <1>1, <2>1 DEF SuccessIsTrue
<1> QED
  BY <1>1, <1>2, <1>3, <1>4, <1>5, StepKeeps

(* Die: the operation that was not deleted is forgotten, and stays queued. *)
LEMMA DieKeeps ==
  ASSUME Typed, SuccessIInv, NEW q \in Request, Die(q)
  PROVE  Typed' /\ SuccessIInv'
<1>1. /\ item' = [item EXCEPT ![q] = None] /\ Goto(q, "answer")
      /\ UNCHANGED <<row, queue, copy, ran, told>>
  BY DEF Die, results
<1>2. Typed'
  BY <1>1 DEF Typed, Goto, PC
<1>3. /\ pc'[q] = "answer" /\ item'[q] = None
      /\ \A r \in Request \ {q} : pc'[r] = pc[r] /\ item'[r] = item[r]
  BY <1>1 DEF Goto, Typed
<1>4. copy[q] # None => Enough(copy[q], None, ran, queue)
  <2> SUFFICES ASSUME copy[q] # None PROVE Enough(copy[q], None, ran, queue)
    OBVIOUS
  <2>1. copy[q] \in Batch /\ Enough(copy[q], item[q], ran, queue)
    BY DEF SuccessIInv, CountsSuffice, Typed
  <2>2. copy[q].set \in Sets
    BY <2>1 DEF Batch
  <2>3. Remaining(copy[q].set, None, ran, queue) \subseteq Remaining(copy[q].set, item[q], ran, queue)
    <3> SUFFICES ASSUME NEW k \in 1..Ops[copy[q].set]
                 PROVE  <<copy[q].set, k>> # None
      BY DEF Remaining
    <3> QED
      BY <2>2, OpFacts, NoOperation
  <2> QED
    BY <2>1, <2>3, EnoughStays
<1>5. InHandOf(q)'
  BY <1>3 DEF InHandOf, Holding
<1> QED
  BY <1>1, <1>2, <1>3, <1>4, <1>5, StepKeeps

(* The last two statements of _batch_finished(). *)
LEMMA PurgeKeeps ==
  ASSUME Typed, SuccessIInv, NEW q \in Request, Purge(q) \/ PurgeQueue(q)
  PROVE  Typed' /\ SuccessIInv'
<1>1. PICK label \in {"purgequeue", "answer"} : Goto(q, label)
  BY DEF Purge, PurgeQueue
<1>2. /\ item[q] = None /\ UNCHANGED <<copy, item, ran, told>>
      /\ row' = row \/ row' = None
      /\ queue' \subseteq queue
  BY DEF Purge, PurgeQueue, results, SuccessIInv, InHand
<1>3. Typed'
  BY <1>1, <1>2 DEF Typed, Goto, PC
<1>4. pc'[q] = label /\ \A r \in Request \ {q} : pc'[r] = pc[r]
  BY <1>1 DEF Goto, Typed
<1>5. InHandOf(q)'
  BY <1>2, <1>4 DEF InHandOf, Holding
<1> QED
  BY <1>2, <1>3, <1>4, <1>5, StepKeeps

(* Receive and Discard: the copy of a request goes with it. *)
LEMMA ResetKeeps ==
  ASSUME Typed, SuccessIInv, NEW q \in Request, pc[q] = "answer", Reset(q),
         UNCHANGED <<row, queue, item, ran, told>>
  PROVE  Typed' /\ SuccessIInv'
<1>1. /\ item[q] = None /\ Goto(q, "idle") /\ copy' = [copy EXCEPT ![q] = None]
  BY DEF Reset, SuccessIInv, InHand
<1>2. Typed'
  BY <1>1 DEF Typed, Goto, PC
<1>3. /\ pc'[q] = "idle" /\ copy'[q] = None
      /\ \A r \in Request \ {q} : pc'[r] = pc[r] /\ copy'[r] = copy[r]
  BY <1>1 DEF Goto, Typed
<1>4. InHandOf(q)'
  BY <1>1, <1>3 DEF InHandOf, Holding
<1> QED
  BY <1>1, <1>2, <1>3, <1>4, StepKeeps

(* Nothing the invariant is about changes. *)
LEMMA UnchangedKeeps ==
  ASSUME Typed, SuccessIInv, UNCHANGED <<row, queue, pc, copy, item, ran, told>>
  PROVE  Typed' /\ SuccessIInv'
BY DEF Typed, SuccessIInv, CountsSuffice, InHand, SuccessIsTrue

LEMMA NextKeeps ==
  ASSUME Typed, SuccessIInv, [Next]_vars
  PROVE  Typed' /\ SuccessIInv'
<1>1. ASSUME NEW q \in Request, AlreadyOver(q)
      PROVE  Typed' /\ SuccessIInv'
  BY <1>1, QuietStep DEF AlreadyOver, results, PC, Holding, SuccessIInv, InHand
<1>2. ASSUME NEW q \in Request, Fatal(q)
      PROVE  Typed' /\ SuccessIInv'
  BY <1>2, QuietStep DEF Fatal, results, PC, Holding, SuccessIInv, InHand
<1>3. ASSUME NEW q \in Request, Discard(q)
      PROVE  Typed' /\ SuccessIInv'
  BY <1>3, ResetKeeps DEF Discard, results
<1>4. CASE Send
  <2>1. PICK q \in Request : pc[q] = "idle" /\ Goto(q, "load")
    BY <1>4 DEF Send
  <2> QED
    BY <1>4, <2>1, QuietStep DEF Send, results, PC, Holding
<1>5. CASE Receive
  <2>1. /\ pc[asked] = "answer" /\ Reset(asked)
        /\ UNCHANGED <<row, queue, item, ran, told>>
    BY <1>5 DEF Receive, results
  <2>2. CASE asked \in Request
    BY <2>1, <2>2, ResetKeeps
  <2>3. CASE asked \notin Request
    <3>1. pc' = pc /\ copy' = copy
      BY <2>1, <2>3 DEF Reset, Goto, Typed
    <3> QED
      BY <2>1, <3>1, UnchangedKeeps
  <2> QED
    BY <2>2, <2>3
<1>6. CASE Reload \/ LoseAnswer \/ ErrorLink
  BY <1>6, UnchangedKeeps DEF Reload, LoseAnswer, ErrorLink, request, results
<1>7. CASE UNCHANGED vars
  BY <1>7, UnchangedKeeps DEF vars, request, results
<1> QED
  BY <1>1, <1>2, <1>3, <1>4, <1>5, <1>6, <1>7, LoadKeeps, PassKeeps, CompleteKeeps,
     DeleteKeeps, MissingKeeps, SaveKeeps, FinishKeeps, PurgeKeeps, DieKeeps
  DEF Next, Serve

-----------------------------------------------------------------------------
(* The counts of the row and of every request's copy suffice for what is left  *)
(* of their sets, whoever reloads, overlaps or dies in between.                *)
THEOREM InductiveInvariant == Spec => [](Typed /\ SuccessIInv)
BY InitHolds, NextKeeps, PTL DEF Spec

(* A set is reported successful only if all its operations were completed. *)
THEOREM SuccessIsNeverClaimed == Spec => []SuccessIsTrue
<1>1. Typed /\ SuccessIInv => SuccessIsTrue
  BY DEF SuccessIInv
<1> QED
  BY <1>1, InductiveInvariant, PTL
-----------------------------------------------------------------------------
(* What TypeOK says beyond Typed, and whom the page waits for. *)
Control ==
  /\ op \in [Request -> {"start", "do", "finished"}]
  /\ fin \in [Request -> {0, 1, Part, Failed}]
  /\ page \in {"send", "wait", "error", "done"}
  /\ want \in {"start", "do", "finished"}
  /\ asked \in Request \cup {None} /\ (page = "wait" => asked \in Request)

Tally ==
  /\ told \in (SUBSET Sets) \cup {None} /\ calls \in Nat
  /\ reloads \in 0..MaxReloads /\ faults \in 0..MaxFaults
  /\ hurt \subseteq {"overlap", "loss", "redo"}

LEMMA ControlInit == Init => Control /\ Tally
BY BatchAssumption DEF Init, Control, Tally

(* React takes one of its four branches. *)
LEMMA ReactKeeps ==
  ASSUME Control, page = "wait", React(asked)
  PROVE  page' \in {"send", "error", "done"} /\ want' \in {"start", "do", "finished"}
<1>1. op[asked] \in {"start", "do", "finished"}
  BY DEF Control
<1>2. CASE fin[asked] = Failed
  <2>1. page' = "error" /\ want' = want
    BY <1>2 DEF React
  <2> QED
    BY <2>1 DEF Control
<1>3. CASE fin[asked] # Failed /\ op[asked] = "finished"
  <2>1. page' = "done" /\ want' = want
    BY <1>3 DEF React
  <2> QED
    BY <2>1 DEF Control
<1>4. CASE fin[asked] # Failed /\ op[asked] = "start"
  <2>1. page' = (IF copy[asked] = None THEN "done" ELSE "send") /\ want' = "do"
    BY <1>4 DEF React
  <2> QED
    BY <2>1
<1>5. CASE fin[asked] # Failed /\ op[asked] = "do"
  <2>1. /\ page' = IF copy[asked] = None THEN "error" ELSE "send"
        /\ want' = IF Hundred(asked) THEN "finished" ELSE "do"
    BY <1>5 DEF React
  <2> QED
    BY <2>1
<1> QED
  BY <1>1, <1>2, <1>3, <1>4, <1>5

LEMMA ControlStep ==
  ASSUME Control, [Next]_vars
  PROVE  Control'
<1>1. ASSUME NEW q \in Request,
             Load(q) \/ AlreadyOver(q) \/ Pass(q) \/ Complete(q) \/ Delete(q) \/ Missing(q)
      PROVE  Control'
  <2>1. UNCHANGED <<op, page, want, asked>>
    BY <1>1 DEF Load, AlreadyOver, Pass, Complete, Delete, Missing, browser
  <2>2. fin' = fin \/ fin' = [fin EXCEPT ![q] = 0] \/ fin' = [fin EXCEPT ![q] = Part]
        \/ fin' = [fin EXCEPT ![q] = 1]
    BY <1>1 DEF Load, AlreadyOver, Pass, Complete, Delete, Missing
  <2> QED
    BY <2>1, <2>2 DEF Control
<1>2. ASSUME NEW q \in Request,
             Save(q) \/ Finish(q) \/ FinishFails(q) \/ Purge(q) \/ PurgeQueue(q) \/ Fatal(q) \/ Die(q)
      PROVE  Control'
  <2>1. UNCHANGED <<op, page, want, asked>>
    BY <1>2 DEF Save, Finish, FinishFails, Purge, PurgeQueue, Fatal, Die, browser
  <2>2. fin' = fin \/ fin' = [fin EXCEPT ![q] = Failed]
    BY <1>2 DEF Save, Finish, FinishFails, Purge, PurgeQueue, Fatal, Die
  <2> QED
    BY <2>1, <2>2 DEF Control
<1>3. ASSUME NEW q \in Request, Discard(q)
      PROVE  Control'
  BY <1>3 DEF Discard, Reset, browser, Control
<1>4. CASE Send
  BY <1>4 DEF Send, Control
<1>5. CASE Receive
  <2>1. page' \in {"send", "error", "done"} /\ want' \in {"start", "do", "finished"}
    BY <1>5, ReactKeeps DEF Receive
  <2>2. /\ asked' = None /\ fin' = [fin EXCEPT ![asked] = 0] /\ op' = [op EXCEPT ![asked] = "do"]
    BY <1>5 DEF Receive, Reset
  <2> QED
    BY <2>1, <2>2 DEF Control
<1>6. CASE Reload \/ LoseAnswer \/ ErrorLink
  BY <1>6 DEF Reload, LoseAnswer, ErrorLink, request, Control
<1>7. CASE UNCHANGED vars
  BY <1>7 DEF vars, request, browser, Control
<1> QED
  BY <1>1, <1>2, <1>3, <1>4, <1>5, <1>6, <1>7 DEF Next, Serve

LEMMA TallyStep ==
  ASSUME Tally, [Next]_vars
  PROVE  Tally'
<1>1. \/ told' = told /\ calls' = calls
      \/ \E q \in Request : Finish(q) \/ FinishFails(q)
  BY DEF Next, Serve, Load, AlreadyOver, Pass, Complete, Delete, Missing, Save, Purge, PurgeQueue,
         Discard, Fatal, Die, Send, Receive, Reload, LoseAnswer, ErrorLink, results, vars
<1>2. told' \in (SUBSET Sets) \cup {None} /\ calls' \in Nat
  BY <1>1 DEF Finish, FinishFails, Tally
<1>3. \/ faults' = faults
      \/ faults < MaxFaults /\ faults' = faults + 1
  BY DEF Next, Serve, Load, AlreadyOver, Pass, Complete, Delete, Missing, Save, Finish, FinishFails, Purge,
         PurgeQueue, Discard, Fatal, Die, Send, Receive, Reload, LoseAnswer, ErrorLink, vars
<1>4. \/ reloads' = reloads
      \/ reloads < MaxReloads /\ reloads' = reloads + 1
  BY DEF Next, Serve, Load, AlreadyOver, Pass, Complete, Delete, Missing, Save, Finish, FinishFails, Purge,
         PurgeQueue, Discard, Fatal, Die, Send, Receive, Reload, LoseAnswer, ErrorLink, browser, vars
<1>5. faults' \in 0..MaxFaults /\ reloads' \in 0..MaxReloads
  BY <1>3, <1>4, BatchAssumption DEF Tally
<1>6. hurt' = hurt \/ \E q \in Request : Load(q) \/ FinishFails(q) \/ Die(q)
  BY DEF Next, Serve, AlreadyOver, Pass, Complete, Delete, Missing, Save, Finish, Purge,
         PurgeQueue, Discard, Fatal, Send, Receive, Reload, LoseAnswer, ErrorLink, vars
<1>7. hurt' \subseteq {"overlap", "loss", "redo"}
  BY <1>6 DEF Load, FinishFails, Die, Tally
<1> QED
  BY <1>2, <1>5, <1>7 DEF Tally

(* The tables, the requests and the page hold what TypeOK says: no count falls *)
(* below zero, and the page that waits for an answer waits for a request.      *)
THEOREM TypeIsKept == Spec => []TypeOK
<1>1. Control /\ Tally /\ [Next]_vars => Control' /\ Tally'
  BY ControlStep, TallyStep
<1>2. Typed /\ Control /\ Tally => TypeOK
  BY DEF Typed, Control, Tally, TypeOK
<1> QED
  BY <1>1, <1>2, ControlInit, InductiveInvariant, PTL DEF Spec

(* Requests work one at a time unless an overlap is noted. *)
Alone == "overlap" \notin hurt => \A q, r \in Request : Working(q) /\ Working(r) => q = r

(* What the step of one request does to the others: nothing, except that a     *)
(* request that starts to work while another one does is noted.                *)
Serves(q) ==
  /\ \A r \in Request \ {q} : pc'[r] = pc[r] /\ copy'[r] = copy[r] /\ item'[r] = item[r]
  /\ hurt \subseteq hurt'
  /\ Working(q) \/ "overlap" \in hurt' \/ \A r \in Request : ~Working(r)

LEMMA LoadServes ==
  ASSUME Typed, NEW q \in Request, Load(q) PROVE Serves(q)
<1>1. /\ \A r \in Request \ {q} : pc'[r] = pc[r] /\ copy'[r] = copy[r]
      /\ item' = item
  BY DEF Load, Goto, Typed
<1>2. hurt' = IF \E r \in Request : Working(r) THEN hurt \cup {"overlap"} ELSE hurt
  BY DEF Load
<1> QED
  BY <1>1, <1>2 DEF Serves

LEMMA WorkServes ==
  ASSUME Typed, NEW q \in Request,
         \/ AlreadyOver(q) \/ Pass(q) \/ Complete(q) \/ Delete(q) \/ Missing(q)
         \/ Save(q) \/ Finish(q) \/ FinishFails(q) \/ Purge(q) \/ PurgeQueue(q) \/ Fatal(q) \/ Die(q)
  PROVE  Working(q) /\ Serves(q)
<1>1. Working(q)
  BY DEF Working, AlreadyOver, Pass, Complete, Delete, Missing, Save, Finish, FinishFails, Purge, PurgeQueue,
         Fatal, Die
<1>2. \A r \in Request \ {q} : pc'[r] = pc[r]
  <2>1. \E label \in PC : Goto(q, label)
    BY DEF AlreadyOver, Pass, Complete, Delete, Missing, Save, Finish, FinishFails, Purge, PurgeQueue,
           Fatal, Die, LoopOrSave, PC
  <2> QED
    BY <2>1 DEF Goto, Typed
<1>3. \A r \in Request \ {q} : copy'[r] = copy[r]
  BY DEF AlreadyOver, Pass, Complete, Delete, Missing, Save, Finish, FinishFails, Purge, PurgeQueue,
         Fatal, Die, Typed
<1>4. \A r \in Request \ {q} : item'[r] = item[r]
  BY DEF AlreadyOver, Pass, Complete, Delete, Missing, Save, Finish, FinishFails, Purge, PurgeQueue,
         Fatal, Die, Typed
<1>5. hurt \subseteq hurt'
  BY DEF AlreadyOver, Pass, Complete, Delete, Missing, Save, Finish, FinishFails, Purge, PurgeQueue,
         Fatal, Die
<1> QED
  BY <1>1, <1>2, <1>3, <1>4, <1>5 DEF Serves

(* Steps of the page, and of a request that is not at work. *)
Rests ==
  /\ UNCHANGED <<row, queue, item, ran, told, calls, hurt>>
  /\ \A r \in Request : Working(r)' <=> Working(r)
  /\ \A r \in Request : Working(r) => pc'[r] = pc[r]
  /\ \A r \in Request :
       (copy'[r] = copy[r] /\ fin'[r] = fin[r]) \/ (copy'[r] = None /\ fin'[r] = 0)
  /\ \A r \in Request : Working(r) => copy'[r] = copy[r]

LEMMA PageRests ==
  ASSUME Typed, Control,
         \/ Send \/ Receive \/ Reload \/ LoseAnswer \/ ErrorLink
         \/ UNCHANGED vars \/ \E q \in Request : Discard(q)
  PROVE  Rests
<1>1. CASE Reload \/ LoseAnswer \/ ErrorLink \/ UNCHANGED vars
  BY <1>1 DEF Reload, LoseAnswer, ErrorLink, vars, request, results, Rests, Working
<1>2. CASE Send
  <2>1. PICK q \in Request : pc[q] = "idle" /\ Goto(q, "load")
    BY <1>2 DEF Send
  <2>2. pc'[q] = "load" /\ \A r \in Request \ {q} : pc'[r] = pc[r]
    BY <2>1 DEF Goto, Typed
  <2>3. UNCHANGED <<row, queue, copy, fin, item, ran, told, calls, hurt>>
    BY <1>2 DEF Send, results
  <2> QED
    BY <2>1, <2>2, <2>3 DEF Rests, Working
<1>3. ASSUME NEW q \in Request, pc[q] = "answer", Reset(q),
             UNCHANGED <<row, queue, item, ran, told, calls, hurt>>
      PROVE  Rests
  <2>1. /\ pc'[q] = "idle" /\ copy'[q] = None /\ fin'[q] = 0
        /\ \A r \in Request \ {q} : pc'[r] = pc[r] /\ copy'[r] = copy[r] /\ fin'[r] = fin[r]
    BY <1>3 DEF Reset, Goto, Typed, Control
  <2> QED
    BY <1>3, <2>1 DEF Rests, Working
<1>4. ASSUME NEW q \in Request, Discard(q)
      PROVE  Rests
  BY <1>3, <1>4 DEF Discard, results
<1>5. CASE Receive
  BY <1>3, <1>5 DEF Receive, results, Control
<1> QED
  BY <1>1, <1>2, <1>4, <1>5

LEMMA AloneStep ==
  ASSUME Typed, Control, Alone, [Next]_vars
  PROVE  Alone'
<1>1. ASSUME NEW q \in Request, Serves(q)
      PROVE  Alone'
  <2>1. \A r \in Request \ {q} : Working(r)' <=> Working(r)
    BY <1>1 DEF Serves, Working
  <2>2. "overlap" \notin hurt' => "overlap" \notin hurt
    BY <1>1 DEF Serves
  <2>3. "overlap" \notin hurt' => \A r \in Request \ {q} : ~Working(r)
    BY <1>1, <2>2 DEF Serves, Alone
  <2> QED
    BY <2>1, <2>2, <2>3 DEF Alone
<1>2. CASE Rests
  BY <1>2 DEF Rests, Alone
<1>3. (\E q \in Request : Serves(q)) \/ Rests
  BY LoadServes, WorkServes, PageRests DEF Next, Serve
<1> QED
  BY <1>1, <1>2, <1>3

-----------------------------------------------------------------------------
(* The operations of a set that are queued. *)
Queued(s, items) == {k \in 1..Ops[s] : <<s, k>> \in items}

(* A batch counts, for its current set, just what is queued; nothing is queued *)
(* of the sets before it, everything of the sets behind it.                    *)
Counts(b, items) ==
  /\ Cardinality(Queued(b.set, items)) = b.count
  /\ \A o \in Op : /\ o[1] < b.set \/ b.over => o \notin items
                   /\ o[1] > b.set => o \in items

FirstOf(o, s, items) ==
  o \in items /\ o[1] = s /\ \A i \in 1..(o[2] - 1) : <<o[1], i>> \notin items

(* Such a batch is over when nothing is left, and its sandbox was filled by    *)
(* the operation that is claimed next.                                         *)
Fits(b, items) ==
  /\ Counts(b, items)
  /\ b.count = 0 /\ Ops[b.set] # 0 => b.over
  /\ b.box # None => FirstOf(b.box, b.set, items)

(* A request has counted on from the row it loaded.  *)
Ahead(b, c) == b.set < c.set \/ (b.set = c.set /\ c.count <= b.count)
Same(b, c) == b.set = c.set /\ b.count = c.count

WholeOf(q) ==
  /\ pc[q] \in Holding => Fits(copy[q], queue)
  /\ pc[q] = "delete" => item[q] \in queue
  /\ Working(q) /\ row # None =>
       /\ copy[q] # None /\ Ahead(row, copy[q])
       /\ Same(row, copy[q]) => Fits(row, queue)

(* Without overlaps and losses: the copy of the request at work fits the queue *)
(* at every moment; the row does when no request is at work, and as long as    *)
(* the one at work has not counted on.                                         *)
Whole ==
  hurt \cap {"overlap", "loss"} = {} =>
    /\ \A q \in Request : WholeOf(q)
    /\ row # None /\ (\A q \in Request : ~Working(q)) => Fits(row, queue)

LEMMA QueuedFinite ==
  ASSUME NEW s \in Sets, NEW items
  PROVE  /\ IsFiniteSet(Queued(s, items)) /\ Cardinality(Queued(s, items)) \in Nat
         /\ (Cardinality(Queued(s, items)) = 0 <=> Queued(s, items) = {})
<1> DEFINE Q == Queued(s, items)
<1>1. IsFiniteSet(1..Ops[s])
  <2>1. Ops[s] \in Nat
    BY OpsFacts
  <2> QED
    BY <2>1, FS_Interval
<1>2. Q \subseteq 1..Ops[s]
  BY DEF Queued
<1>3. IsFiniteSet(Q)
  BY <1>1, <1>2, FS_Subset
<1> HIDE DEF Q
<1>4. Cardinality(Q) \in Nat /\ (Cardinality(Q) = 0 <=> Q = {})
  BY <1>3, FS_CardinalityType, FS_EmptySet
<1> QED
  BY <1>3, <1>4 DEF Q

(* Advance takes a batch that counts right, with an empty sandbox, to one that *)
(* fits the queue.                                                             *)
LEMMA AdvanceFits ==
  ASSUME NEW b \in Batch, NEW items \in SUBSET Op, Counts(b, items), b.box = None
  PROVE  Advance(b) \in Batch /\ Fits(Advance(b), items)
<1>1. /\ b.set \in Sets /\ b.count \in Nat /\ b.over \in BOOLEAN
      /\ b.set \in Nat /\ b.set >= 1 /\ Len(Ops) \in Nat /\ Len(Ops) \in Sets
  BY OpsFacts DEF Batch, Sets
<1>2. CASE b.count # 0
  <2>1. Advance(b) = b
    BY <1>2 DEF Advance
  <2>2. Fits(b, items)
    BY <1>2 DEF Fits
  <2> QED
    BY <2>1, <2>2
<1>3. CASE b.count = 0
  <2>1. Queued(b.set, items) = {}
    BY <1>1, <1>3, QueuedFinite DEF Counts
  <2>2. \A o \in Op : o[1] = b.set => o \notin items
    <3> SUFFICES ASSUME NEW o \in Op, o[1] = b.set PROVE o \notin items
      OBVIOUS
    <3>1. o[2] \in 1..Ops[b.set] /\ o = <<b.set, o[2]>>
      BY OpFacts
    <3> QED
      BY <2>1, <3>1 DEF Queued
  <2>3. \A o \in Op : o[1] \in Nat /\ o[1] <= Len(Ops) /\ Ops[o[1]] # 0
    BY OpFacts, OpsFacts DEF Sets
  <2>4. \A o \in Op : o[1] <= b.set => o \notin items
    <3> SUFFICES ASSUME NEW o \in Op, o[1] <= b.set PROVE o \notin items
      OBVIOUS
    <3>1. o[1] < b.set \/ o[1] = b.set
      BY <1>1, <2>3
    <3> QED
      BY <2>2, <3>1 DEF Counts
  <2>5. CASE \A s \in (b.set + 1)..Len(Ops) : Ops[s] = 0
    <3> DEFINE c == [b EXCEPT !.set = Len(Ops), !.over = TRUE]
    <3>1. Advance(b) = c
      BY <1>3, <2>5 DEF Advance
    <3>2. c \in Batch /\ c.set = Len(Ops) /\ c.count = 0 /\ c.over = TRUE /\ c.box = None
      BY <1>1, <1>3 DEF Batch
    <3> HIDE DEF c
    <3>3. \A o \in Op : o \notin items
      <4> SUFFICES ASSUME NEW o \in Op PROVE o \notin items
        OBVIOUS
      <4>1. ~(o[1] \in (b.set + 1)..Len(Ops))
        BY <2>3, <2>5
      <4>2. o[1] <= b.set
        BY <1>1, <2>3, <4>1
      <4> QED
        BY <2>4, <4>2
    <3>4. Queued(Len(Ops), items) = {}
      BY <1>1, <3>3, OpFacts DEF Queued
    <3>5. Cardinality(Queued(c.set, items)) = c.count
      BY <3>2, <3>4, FS_EmptySet
    <3>6. \A o \in Op : ~(o[1] > c.set)
      BY <1>1, <2>3, <3>2
    <3>7. Counts(c, items)
      BY <3>3, <3>5, <3>6 DEF Counts
    <3> QED
      BY <3>1, <3>2, <3>7 DEF Fits
  <2>6. CASE \E s \in (b.set + 1)..Len(Ops) : Ops[s] # 0
    <3> DEFINE IsNext(s) == Ops[s] # 0 /\ \A t \in (b.set + 1)..(s - 1) : Ops[t] = 0
               s == CHOOSE x \in (b.set + 1)..Len(Ops) : IsNext(x)
               c == [b EXCEPT !.set = s, !.count = Ops[s]]
    <3>1. Advance(b) = c
      BY <1>3, <2>6 DEF Advance
    <3>2. s \in (b.set + 1)..Len(Ops) /\ IsNext(s)
      <4>1. \E x \in (b.set + 1)..Len(Ops) : IsNext(x)
        BY <1>1, <2>6, NextSet
      <4> HIDE DEF IsNext
      <4> QED
        BY <4>1
    <3>3. s \in Sets /\ s \in Nat /\ Ops[s] \in Nat /\ s > b.set /\ Ops[s] # 0
      BY <1>1, <3>2, OpsFacts DEF Sets
    <3> HIDE DEF s
    <3>4. c \in Batch /\ c.set = s /\ c.count = Ops[s] /\ c.over = b.over /\ c.box = None
      BY <1>1, <3>3 DEF Batch
    <3> HIDE DEF c
    <3>5. Queued(s, items) = 1..Ops[s]
      <4>1. \A k \in 1..Ops[s] : <<s, k>> \in Op
        BY <3>3, OpFacts
      <4>2. \A k \in 1..Ops[s] : <<s, k>> \in items
        BY <3>3, <4>1 DEF Counts
      <4> QED
        BY <4>2 DEF Queued
    <3>6. Cardinality(Queued(c.set, items)) = c.count
      BY <3>3, <3>4, <3>5, FS_Interval
    <3>7. \A o \in Op : o[1] < s => o \notin items
      <4> SUFFICES ASSUME NEW o \in Op, o[1] < s PROVE o \notin items
        OBVIOUS
      <4>1. ~(o[1] \in (b.set + 1)..(s - 1))
        BY <2>3, <3>2
      <4>2. o[1] <= b.set
        BY <1>1, <2>3, <3>3, <4>1
      <4> QED
        BY <2>4, <4>2
    <3>8. \A o \in Op : o[1] > s => o \in items
      <4> SUFFICES ASSUME NEW o \in Op, o[1] > s PROVE o \in items
        OBVIOUS
      <4>1. o[1] > b.set
        BY <1>1, <2>3, <3>3
      <4> QED
        BY <4>1 DEF Counts
    <3>9. c.over => \A o \in Op : o \notin items
      BY <3>4 DEF Counts
    <3>10. Counts(c, items)
      BY <3>4, <3>6, <3>7, <3>8, <3>9 DEF Counts
    <3> QED
      BY <3>1, <3>3, <3>4, <3>10 DEF Fits
  <2> QED
    BY <2>5, <2>6
<1> QED
  BY <1>2, <1>3

(* The operation in hand is deleted and counted off. *)
LEMMA DeleteCounts ==
  ASSUME NEW b \in Batch, NEW items \in SUBSET Op, Counts(b, items),
         NEW o \in items, o[1] = b.set
  PROVE  LET c == [b EXCEPT !.count = @ - 1, !.box = None]
         IN c \in Batch /\ c.box = None /\ Counts(c, items \ {o})
<1> DEFINE c == [b EXCEPT !.count = @ - 1, !.box = None]
           Q == Queued(b.set, items)
<1>1. b.set \in Sets /\ b.count \in Nat
  BY DEF Batch
<1>2. o \in Op /\ o[2] \in 1..Ops[b.set] /\ o = <<b.set, o[2]>>
  BY OpFacts
<1>3. o[2] \in Q
  BY <1>2 DEF Queued
<1>4. Queued(b.set, items \ {o}) = Q \ {o[2]}
  <2>1. \A k : <<b.set, k>> = o <=> k = o[2]
    BY <1>2
  <2> QED
    BY <2>1 DEF Queued
<1>5. IsFiniteSet(Q) /\ Cardinality(Q) \in Nat /\ Cardinality(Q) = b.count /\ Cardinality(Q) # 0
  BY <1>1, <1>3, QueuedFinite DEF Counts
<1>6. Cardinality(Q \ {o[2]}) = b.count - 1
  <2> HIDE DEF Q
  <2> QED
    BY <1>3, <1>5, RemoveOne
<1>7. c \in Batch /\ c.set = b.set /\ c.count = b.count - 1 /\ c.over = b.over /\ c.box = None
  <2>1. b.count - 1 \in Nat
    BY <1>1, <1>5
  <2> QED
    BY <2>1 DEF Batch
<1> HIDE DEF c, Q
<1>8. Cardinality(Queued(c.set, items \ {o})) = c.count
  BY <1>4, <1>6, <1>7
<1>9. ~b.over
  BY <1>2 DEF Counts
<1>10. \A p \in Op : /\ p[1] < c.set \/ c.over => p \notin items \ {o}
                     /\ p[1] > c.set => p \in items \ {o}
  <2> SUFFICES ASSUME NEW p \in Op
               PROVE  /\ p[1] < c.set \/ c.over => p \notin items \ {o}
                      /\ p[1] > c.set => p \in items \ {o}
    OBVIOUS
  <2>1. p[1] < b.set \/ b.over => p \notin items
    BY DEF Counts
  <2>2. p[1] > b.set => p \in items /\ p # o
    <3>1. p[1] > b.set => p[1] # o[1]
      BY <1>1, OpsFacts
    <3> QED
      BY <3>1 DEF Counts
  <2> QED
    BY <1>7, <2>1, <2>2
<1> QED
  BY <1>7, <1>8, <1>10 DEF c, Counts

(* Only the fields that count matter. *)
LEMMA FitsSame ==
  ASSUME NEW b, NEW c, NEW items, b.set = c.set, b.count = c.count, b.over = c.over,
         b.box = c.box, Fits(b, items)
  PROVE  Fits(c, items)
<1>1. Counts(c, items)
  BY DEF Fits, Counts
<1> QED
  BY <1>1 DEF Fits

(* Advance stays at a set with its count, or moves on. *)
LEMMA AdvanceMoves ==
  ASSUME NEW b \in Batch
  PROVE  b.set < Advance(b).set \/ (Advance(b).set = b.set /\ Advance(b).count = b.count)
<1>1. b.set \in Nat /\ b.set >= 1 /\ b.set <= Len(Ops) /\ Len(Ops) \in Nat
  BY OpsFacts DEF Batch, Sets
<1>2. CASE b.count # 0
  BY <1>2 DEF Advance
<1>3. CASE b.count = 0 /\ \A s \in (b.set + 1)..Len(Ops) : Ops[s] = 0
  <2>1. Advance(b) = [b EXCEPT !.set = Len(Ops), !.over = TRUE]
    BY <1>3 DEF Advance
  <2>2. Advance(b).set = Len(Ops) /\ Advance(b).count = b.count
    BY <2>1 DEF Batch
  <2> QED
    BY <1>1, <2>2
<1>4. CASE b.count = 0 /\ \E s \in (b.set + 1)..Len(Ops) : Ops[s] # 0
  <2> DEFINE IsNext(s) == Ops[s] # 0 /\ \A t \in (b.set + 1)..(s - 1) : Ops[t] = 0
             s == CHOOSE x \in (b.set + 1)..Len(Ops) : IsNext(x)
  <2>1. Advance(b) = [b EXCEPT !.set = s, !.count = Ops[s]]
    BY <1>4 DEF Advance
  <2>2. s \in (b.set + 1)..Len(Ops)
    <3>1. \E x \in (b.set + 1)..Len(Ops) : IsNext(x)
      BY <1>1, <1>4, NextSet
    <3> HIDE DEF IsNext
    <3> QED
      BY <3>1
  <2> HIDE DEF s
  <2>3. Advance(b).set = s
    BY <2>1 DEF Batch
  <2> QED
    BY <1>1, <2>2, <2>3
<1> QED
  BY <1>2, <1>3, <1>4

-----------------------------------------------------------------------------
(* The row is gone before the queues are. *)
Gone == \A q \in Request : pc[q] = "purgequeue" => row = None

Unhurt(h) == h \cap {"overlap", "loss"} = {}

LEMMA GoneStep ==
  ASSUME Typed, Control, Gone, [Next]_vars
  PROVE  Gone'
<1>1. row = None => row' = None
  BY DEF Next, Serve, Load, AlreadyOver, Pass, Complete, Delete, Missing, Save, Finish, FinishFails, Purge,
         PurgeQueue, Discard, Fatal, Die, Send, Receive, Reload, LoseAnswer, ErrorLink, vars
<1>2. CASE \E q \in Request : Purge(q)
  BY <1>2 DEF Purge, Gone
<1>3. ASSUME NEW r \in Request, ~\E q \in Request : Purge(q), pc'[r] = "purgequeue"
      PROVE  pc[r] = "purgequeue"
  <2>1. ASSUME NEW q \in Request, Load(q)
        PROVE  pc[r] = "purgequeue"
    <3>1. \E label \in {"answer", "finish", "save", "claim"} : Goto(q, label)
      BY <2>1 DEF Load
    <3> QED
      BY <1>3, <3>1 DEF Goto, Typed
  <2>2. ASSUME NEW q \in Request,
               \/ AlreadyOver(q) \/ Pass(q) \/ Complete(q) \/ Delete(q) \/ Missing(q)
               \/ Save(q) \/ Finish(q) \/ FinishFails(q) \/ PurgeQueue(q) \/ Fatal(q) \/ Die(q)
        PROVE  pc[r] = "purgequeue"
    <3>1. \E label \in PC \ {"purgequeue"} : Goto(q, label)
      BY <2>2 DEF AlreadyOver, Pass, Complete, Delete, Missing, Save, Finish, FinishFails, PurgeQueue,
                  Fatal, Die, LoopOrSave, PC
    <3> QED
      BY <1>3, <3>1 DEF Goto, Typed
  <2>3. CASE Rests
    BY <1>3, <2>3 DEF Rests, Working
  <2> QED
    BY <1>3, <2>1, <2>2, <2>3, PageRests DEF Next, Serve
<1> QED
  BY <1>1, <1>2, <1>3 DEF Gone

-----------------------------------------------------------------------------
(* What a step of the request q has to establish. *)
LEMMA ServedWhole ==
  ASSUME Typed, Alone, Whole, NEW q \in Request, Serves(q),
         Unhurt(hurt') =>
           WholeOf(q)' /\ (Working(q)' \/ row' = None \/ Fits(row', queue'))
  PROVE  Whole'
<1> SUFFICES ASSUME Unhurt(hurt')
             PROVE  /\ \A r \in Request : WholeOf(r)'
                    /\ row' # None /\ (\A r \in Request : ~Working(r)') => Fits(row', queue')
  BY DEF Whole, Unhurt
<1>1. \A r \in Request \ {q} : ~Working(r)
  BY DEF Serves, Alone, Unhurt
<1>2. \A r \in Request \ {q} : ~Working(r)' /\ pc'[r] \notin Holding /\ pc'[r] # "delete"
  BY <1>1 DEF Serves, Working, Holding
<1>3. \A r \in Request : WholeOf(r)'
  BY <1>2 DEF WholeOf
<1> QED
  BY <1>3

LEMMA RestsWhole ==
  ASSUME Typed, Whole, Rests
  PROVE  Whole'
<1> SUFFICES ASSUME Unhurt(hurt)
             PROVE  /\ \A r \in Request : WholeOf(r)'
                    /\ row' # None /\ (\A r \in Request : ~Working(r)') => Fits(row', queue')
  BY DEF Whole, Unhurt, Rests
<1>1. ASSUME NEW r \in Request PROVE WholeOf(r)'
  <2>1. CASE Working(r)
    <3>1. /\ pc'[r] = pc[r] /\ copy'[r] = copy[r]
          /\ UNCHANGED <<row, queue, item>> /\ (Working(r)' <=> Working(r))
      BY <2>1 DEF Rests
    <3>2. WholeOf(r)
      BY DEF Whole, Unhurt
    <3> QED
      BY <3>1, <3>2 DEF WholeOf
  <2>2. CASE ~Working(r)
    <3>1. ~Working(r)'
      BY <2>2 DEF Rests
    <3>2. pc'[r] \notin Holding /\ pc'[r] # "delete"
      BY <3>1 DEF Working, Holding
    <3> QED
      BY <3>1, <3>2 DEF WholeOf
  <2> QED
    BY <2>1, <2>2
<1>2. row' # None /\ (\A r \in Request : ~Working(r)') => Fits(row', queue')
  BY DEF Rests, Whole, Unhurt
<1> QED
  BY <1>1, <1>2

LEMMA LoadWhole ==
  ASSUME Typed, Alone, Whole, NEW q \in Request, Load(q)
  PROVE  Whole'
<1> DEFINE b == IF row # None /\ op[q] = "start" THEN [row EXCEPT !.running = TRUE] ELSE row
<1>1. copy' = [copy EXCEPT ![q] = b] /\ copy'[q] = b /\ UNCHANGED <<row, queue>>
  BY DEF Load, Typed
<1>2. row # None => /\ b \in Batch /\ row \in Batch /\ b.set = row.set
                    /\ b.count = row.count /\ b.over = row.over /\ b.box = row.box
  BY DEF Typed, Batch
<1>3. row = None => b = None
  OBVIOUS
<1> HIDE DEF b
<1>4. row = None => pc'[q] = "answer"
  BY DEF Load, Goto, Typed
<1>5. pc'[q] # "delete"
  <2>1. \E label \in {"answer", "finish", "save", "claim"} : Goto(q, label)
    BY DEF Load
  <2> QED
    BY <2>1 DEF Goto, Typed
<1>6. ASSUME Unhurt(hurt')
      PROVE  WholeOf(q)' /\ (Working(q)' \/ row' = None \/ Fits(row', queue'))
  <2>1. hurt' = hurt /\ \A r \in Request : ~Working(r)
    BY <1>6 DEF Load, Unhurt
  <2>2. row # None => Fits(row, queue)
    BY <1>6, <2>1 DEF Whole, Unhurt
  <2>3. row # None => Fits(b, queue)
    BY <1>2, <2>2, FitsSame
  <2>4. row # None => Ahead(row, b)
    BY <1>2, OpsFacts DEF Ahead, Batch
  <2>5. pc'[q] \in Holding => row # None
    BY <1>4 DEF Holding
  <2>6. WholeOf(q)'
    BY <1>1, <1>2, <1>5, <2>2, <2>3, <2>4, <2>5, NoBatch DEF WholeOf
  <2> QED
    BY <1>1, <2>2, <2>6
<1> QED
  BY <1>6, LoadServes, ServedWhole

(* The facts a request at work starts from. *)
LEMMA AtWork ==
  ASSUME Typed, SuccessIInv, Whole, NEW q \in Request, Working(q), Unhurt(hurt)
  PROVE  /\ WholeOf(q)
         /\ pc[q] \in Holding => copy[q] \in Batch /\ Fits(copy[q], queue)
         /\ row # None => row \in Batch /\ copy[q] \in Batch /\ Ahead(row, copy[q])
<1>1. WholeOf(q)
  BY DEF Whole, Unhurt
<1>2. copy[q] # None => copy[q] \in Batch
  BY DEF Typed
<1>3. pc[q] \in Holding => copy[q] # None
  BY DEF SuccessIInv, InHand, Holding
<1> QED
  BY <1>1, <1>2, <1>3 DEF WholeOf, Typed

(* Steps that move a request to "save", "answer" or on, and keep its copy. *)
LEMMA StayWhole ==
  ASSUME Typed, SuccessIInv, Alone, Whole, NEW q \in Request,
         AlreadyOver(q) \/ Complete(q) \/ Fatal(q) \/ Finish(q) \/ FinishFails(q)
  PROVE  Whole'
<1>1. UNCHANGED <<row, queue, copy>> /\ hurt \subseteq hurt' /\ pc[q] \in Holding
  BY DEF AlreadyOver, Complete, Fatal, Finish, FinishFails, Holding
<1>2. Working(q)
  BY WorkServes
<1>3. PICK label \in {"save", "delete", "purge"} : Goto(q, label)
  BY DEF AlreadyOver, Complete, Fatal, Finish, FinishFails
<1>4. pc'[q] = label /\ Working(q)'
  BY <1>3 DEF Goto, Typed, Working
<1>5. label = "delete" => item'[q] \in queue
  <2>1. ASSUME Complete(q) PROVE item'[q] \in queue
    BY <2>1 DEF Complete, IsFirst, Typed
  <2>2. ASSUME AlreadyOver(q) \/ Fatal(q) \/ Finish(q) \/ FinishFails(q) PROVE pc'[q] # "delete"
    BY <2>2 DEF AlreadyOver, Fatal, Finish, FinishFails, Goto, Typed
  <2> QED
    BY <1>4, <2>1, <2>2
<1>6. ASSUME Unhurt(hurt') PROVE WholeOf(q)'
  <2>1. WholeOf(q) /\ Fits(copy[q], queue)
    BY <1>1, <1>2, <1>6, AtWork DEF Unhurt
  <2> QED
    BY <1>1, <1>2, <1>4, <1>5, <2>1 DEF WholeOf
<1> QED
  BY <1>4, <1>6, WorkServes, ServedWhole

LEMMA PassWhole ==
  ASSUME Typed, SuccessIInv, Alone, Whole, NEW q \in Request, Pass(q)
  PROVE  Whole'
<1>1. PICK o \in Op : IsFirst(q, o) /\ copy' = [copy EXCEPT ![q].box = o]
  BY DEF Pass
<1>2. /\ pc[q] = "claim" /\ Working(q) /\ copy[q] \in Batch
      /\ UNCHANGED <<row, queue, hurt>>
  BY DEF Pass, Working, SuccessIInv, InHand, Typed
<1> DEFINE b == [copy[q] EXCEPT !.box = o]
<1>3. copy'[q] = b
  BY <1>1 DEF Typed
<1>4. /\ b \in Batch /\ b.set = copy[q].set /\ b.count = copy[q].count
      /\ b.over = copy[q].over /\ b.box = o
  BY <1>2 DEF Batch
<1> HIDE DEF b
<1>5. PICK label \in {"claim", "save"} : Goto(q, label)
  BY DEF Pass, LoopOrSave
<1>6. pc'[q] = label /\ Working(q)'
  BY <1>5 DEF Goto, Typed, Working
<1>7. ASSUME Unhurt(hurt') PROVE WholeOf(q)'
  <2>1. WholeOf(q) /\ Fits(copy[q], queue)
    BY <1>2, <1>7, AtWork DEF Holding
  <2>2. FirstOf(o, b.set, queue)
    BY <1>1, <1>4 DEF IsFirst, FirstOf
  <2>3. Counts(b, queue)
    BY <1>4, <2>1 DEF Fits, Counts
  <2>4. Fits(b, queue)
    BY <1>4, <2>1, <2>2, <2>3 DEF Fits
  <2>5. row # None => b # None /\ Ahead(row, b) /\ (Same(row, b) => Fits(row, queue))
    BY <1>2, <1>4, <2>1, NoBatch DEF WholeOf, Ahead, Same
  <2> QED
    BY <1>2, <1>3, <1>6, <2>4, <2>5 DEF WholeOf
<1> QED
  BY <1>6, <1>7, WorkServes, ServedWhole

LEMMA DeleteWhole ==
  ASSUME Typed, SuccessIInv, Alone, Whole, NEW q \in Request, Delete(q)
  PROVE  Whole'
<1> DEFINE o == item[q]
           c == [copy[q] EXCEPT !.count = @ - 1, !.box = None]
           b == Advance(c)
<1>1. /\ pc[q] = "delete" /\ queue' = queue \ {o} /\ copy' = [copy EXCEPT ![q] = b]
      /\ UNCHANGED <<row, hurt>>
  BY DEF Delete
<1>2. Working(q) /\ copy[q] \in Batch /\ o[1] = copy[q].set /\ queue \in SUBSET Op
  BY <1>1 DEF Working, SuccessIInv, InHand, Typed
<1>3. copy'[q] = b
  BY <1>1 DEF Typed
<1>4. PICK label \in {"claim", "save"} : Goto(q, label)
  BY DEF Delete, LoopOrSave
<1>5. pc'[q] = label /\ Working(q)'
  BY <1>4 DEF Goto, Typed, Working
<1>6. c.set = copy[q].set /\ c.count = copy[q].count - 1
  BY <1>2 DEF Batch
<1> HIDE DEF o
<1>7. ASSUME Unhurt(hurt') PROVE WholeOf(q)'
  <2>1. /\ WholeOf(q) /\ Counts(copy[q], queue)
        /\ row # None => row \in Batch /\ Ahead(row, copy[q])
    BY <1>1, <1>2, <1>7, AtWork DEF Holding, Fits
  <2>2. o \in queue
    BY <1>1, <2>1 DEF WholeOf, o
  <2>3. c \in Batch /\ c.box = None /\ Counts(c, queue \ {o})
    BY <1>2, <2>1, <2>2, DeleteCounts
  <2> HIDE DEF c
  <2>4. b \in Batch /\ Fits(b, queue \ {o})
    BY <1>2, <2>3, AdvanceFits
  <2>5. c.set < b.set \/ (b.set = c.set /\ b.count = c.count)
    BY <2>3, AdvanceMoves
  <2> HIDE DEF b
  <2>6. row # None => Ahead(row, b) /\ ~Same(row, b)
    <3> SUFFICES ASSUME row # None PROVE Ahead(row, b) /\ ~Same(row, b)
      OBVIOUS
    <3>1. /\ row.set \in Nat /\ copy[q].set \in Nat /\ b.set \in Nat
          /\ row.count \in Nat /\ copy[q].count \in Nat /\ b.count \in Nat
      BY <1>2, <2>1, <2>4, OpsFacts DEF Batch
    <3> QED
      BY <1>6, <2>1, <2>5, <3>1 DEF Ahead, Same
  <2>7. pc'[q] # "delete"
    BY <1>5
  <2> QED
    BY <1>1, <1>3, <2>4, <2>6, <2>7, NoBatch DEF WholeOf
<1> QED
  BY <1>5, <1>7, WorkServes, ServedWhole

LEMMA MissingWhole ==
  ASSUME Typed, SuccessIInv, Alone, Whole, NEW q \in Request, Missing(q)
  PROVE  Whole'
<1> DEFINE b == Advance(copy[q])
<1>1. /\ pc[q] = "claim" /\ NoItem(q) /\ copy' = [copy EXCEPT ![q] = b]
      /\ UNCHANGED <<row, queue, hurt>>
  BY DEF Missing
<1>2. Working(q) /\ copy[q] \in Batch /\ queue \in SUBSET Op
  BY <1>1 DEF Working, SuccessIInv, InHand, Typed
<1>3. copy'[q] = b
  BY <1>1 DEF Typed
<1>4. PICK label \in {"claim", "save"} : Goto(q, label)
  BY DEF Missing, LoopOrSave
<1>5. pc'[q] = label /\ Working(q)'
  BY <1>4 DEF Goto, Typed, Working
<1>6. ASSUME Unhurt(hurt') PROVE WholeOf(q)'
  <2>1. /\ WholeOf(q) /\ Fits(copy[q], queue)
        /\ row # None => row \in Batch /\ Ahead(row, copy[q])
    BY <1>1, <1>2, <1>6, AtWork DEF Holding
  <2>2. copy[q].box = None
    BY <1>1, <2>1 DEF Fits, FirstOf, NoItem
  <2>3. b \in Batch /\ Fits(b, queue)
    BY <1>2, <2>1, <2>2, AdvanceFits DEF Fits
  <2>4. copy[q].set < b.set \/ (b.set = copy[q].set /\ b.count = copy[q].count)
    BY <1>2, AdvanceMoves
  <2> HIDE DEF b
  <2>5. row # None => Ahead(row, b) /\ (Same(row, b) => Same(row, copy[q]))
    <3> SUFFICES ASSUME row # None
                 PROVE  Ahead(row, b) /\ (Same(row, b) => Same(row, copy[q]))
      OBVIOUS
    <3>1. /\ row.set \in Nat /\ copy[q].set \in Nat /\ b.set \in Nat
          /\ row.count \in Nat /\ copy[q].count \in Nat /\ b.count \in Nat
      BY <1>2, <2>1, <2>3, OpsFacts DEF Batch
    <3> QED
      BY <2>1, <2>4, <3>1 DEF Ahead, Same
  <2>6. row # None => b # None /\ Ahead(row, b) /\ (Same(row, b) => Fits(row, queue))
    BY <1>2, <2>1, <2>3, <2>5, NoBatch DEF WholeOf
  <2> QED
    BY <1>1, <1>3, <1>5, <2>3, <2>6 DEF WholeOf
<1> QED
  BY <1>5, <1>6, WorkServes, ServedWhole

LEMMA SaveWhole ==
  ASSUME Typed, SuccessIInv, Alone, Whole, NEW q \in Request, Save(q)
  PROVE  Whole'
<1>1. /\ pc[q] = "save" /\ Goto(q, "answer") /\ UNCHANGED <<queue, hurt>>
      /\ row' = None \/ row' = copy[q]
  BY DEF Save
<1>2. pc'[q] = "answer" /\ ~Working(q)' /\ Working(q)
  BY <1>1 DEF Goto, Typed, Working
<1>3. ASSUME Unhurt(hurt') PROVE WholeOf(q)' /\ (row' = None \/ Fits(row', queue'))
  <2>1. Fits(copy[q], queue)
    BY <1>1, <1>2, <1>3, AtWork DEF Holding
  <2> QED
    BY <1>1, <1>2, <2>1 DEF WholeOf, Holding
<1> QED
  BY <1>3, WorkServes, ServedWhole

LEMMA PurgeWhole ==
  ASSUME Typed, Alone, Whole, Gone, NEW q \in Request, Purge(q) \/ PurgeQueue(q)
  PROVE  Whole'
<1>1. row' = None
  BY DEF Purge, PurgeQueue, Gone
<1>2. pc'[q] \notin Holding /\ pc'[q] # "delete"
  BY DEF Purge, PurgeQueue, Goto, Typed, Holding
<1>3. WholeOf(q)'
  BY <1>1, <1>2 DEF WholeOf
<1> QED
  BY <1>1, <1>3, WorkServes, ServedWhole

(* Die: the loss that is not noted is none. *)
LEMMA DieWhole ==
  ASSUME Typed, SuccessIInv, Alone, Whole, NEW q \in Request, Die(q)
  PROVE  Whole'
<1>1. Working(q) /\ Goto(q, "answer") /\ UNCHANGED <<row, queue, copy>>
  BY DEF Die
<1>2. pc'[q] = "answer" /\ ~Working(q)'
  BY <1>1 DEF Goto, Typed, Working
<1>3. ASSUME Unhurt(hurt') PROVE WholeOf(q)' /\ (row' = None \/ Fits(row', queue'))
  <2>1. Unhurt(hurt) /\ (row # None => <<row.set, row.count>> = <<copy[q].set, copy[q].count>>)
    BY <1>3 DEF Die, Unhurt
  <2>2. row # None => Fits(row, queue)
    BY <1>1, <2>1, AtWork DEF WholeOf, Same
  <2> QED
    BY <1>1, <1>2, <2>2 DEF WholeOf, Holding
<1> QED
  BY <1>3, WorkServes, ServedWhole

LEMMA WholeStep ==
  ASSUME Typed, SuccessIInv, Control, Alone, Gone, Whole, [Next]_vars
  PROVE  Whole'
BY LoadWhole, StayWhole, PassWhole, DeleteWhole, MissingWhole, SaveWhole, PurgeWhole, DieWhole,
   PageRests, RestsWhole
DEF Next, Serve

LEMMA WholeInit == Init => Alone /\ Gone /\ Whole
<1> SUFFICES ASSUME Init PROVE Alone /\ Gone /\ Whole
  OBVIOUS
<1>1. /\ row.set = 1 /\ row.count = Ops[1] /\ row.box = None /\ row.over = FALSE
      /\ queue = Op /\ 1 \in Sets
  BY OpsFacts DEF Init, Sets
<1>2. \A q \in Request : pc[q] = "idle"
  BY DEF Init
<1>3. Queued(1, Op) = 1..Ops[1]
  BY <1>1, OpFacts DEF Queued
<1>4. Cardinality(Queued(1, Op)) = Ops[1]
  <2>1. Ops[1] \in Nat
    BY <1>1, OpsFacts
  <2> QED
    BY <1>3, <2>1, FS_Interval
<1>5. \A o \in Op : ~(o[1] < 1)
  BY OpFacts DEF Sets
<1>6. Fits(row, queue)
  BY <1>1, <1>4, <1>5 DEF Fits, Counts
<1> QED
  BY <1>2, <1>6 DEF Alone, Gone, Whole, WholeOf, Working, Holding

THEOREM WholeInvariant == Spec => [](Alone /\ Gone /\ Whole)
<1> DEFINE J == Typed /\ SuccessIInv /\ Control
           W == Alone /\ Gone /\ Whole
<1>1. Control /\ [Next]_vars => Control'
  BY ControlStep
<1>2. J /\ W /\ [Next]_vars => W'
  BY AloneStep, GoneStep, WholeStep
<1>3. Init => Control /\ W
  BY ControlInit, WholeInit
<1> QED
  BY <1>1, <1>2, <1>3, InductiveInvariant, PTL DEF Spec, J


(* An operation never sees the sandbox of another one unless two requests      *)
(* worked at once or one was killed behind a deleteItem().                     *)
THEOREM SandboxStaysOwn == Spec => []SandboxIsOwn
<1>1. SuccessIInv /\ Whole => SandboxIsOwn
  <2> SUFFICES ASSUME SuccessIInv, Whole, Unhurt(hurt),
                      NEW q \in Request, pc[q] = "claim", copy[q].box # None
               PROVE  IsFirst(q, copy[q].box)
    BY DEF SandboxIsOwn, Unhurt
  <2>1. Fits(copy[q], queue)
    BY DEF Whole, WholeOf, Unhurt, Holding
  <2> QED
    BY <2>1 DEF Fits, FirstOf, IsFirst
<1> QED
  BY <1>1, InductiveInvariant, WholeInvariant, PTL

LEMMA FinishIsTrue ==
  ASSUME Typed, SuccessIInv, Whole, NEW q \in Request, Finish(q) \/ FinishFails(q), Unhurt(hurt),
         NEW s \in Sets \ told', Ops[s] # 0
  PROVE  \E o \in queue : o[1] = s
<1>1. /\ pc[q] = "finish" /\ told' = {t \in Sets : t < copy[q].set \/ copy[q].over}
      /\ Working(q)
  BY DEF Finish, FinishFails, Working
<1>2. copy[q] \in Batch /\ Fits(copy[q], queue)
  BY <1>1, AtWork DEF Holding
<1>3. ~copy[q].over /\ ~(s < copy[q].set)
  BY <1>1
<1>4. copy[q].set \in Sets /\ copy[q].set \in Nat /\ copy[q].count \in Nat /\ s \in Nat
  BY <1>2, OpsFacts DEF Batch
<1>5. CASE s = copy[q].set
  <2>1. Cardinality(Queued(s, queue)) # 0
    BY <1>2, <1>3, <1>5 DEF Fits, Counts
  <2>2. Queued(s, queue) # {}
    BY <2>1, FS_EmptySet
  <2>3. PICK k \in 1..Ops[s] : <<s, k>> \in queue
    BY <2>2 DEF Queued
  <2> QED
    BY <2>3
<1>6. CASE s # copy[q].set
  <2>1. s > copy[q].set
    BY <1>3, <1>4, <1>6
  <2>2. <<s, 1>> \in Op
    <3>1. Ops[s] \in Nat
      BY OpsFacts
    <3>2. 1 \in 1..Ops[s]
      BY <3>1
    <3> QED
      BY <3>2, OpFacts
  <2>3. <<s, 1>> \in queue
    BY <1>2, <2>1, <2>2 DEF Fits, Counts
  <2> QED
    BY <2>3
<1> QED
  BY <1>5, <1>6

(* A set with operations is reported as failed only if some are left.          *)
THEOREM FailureIsNeverClaimed == Spec => FailureIsTrue
<1> DEFINE J == Typed /\ SuccessIInv /\ Whole
           P == calls' # calls /\ hurt \cap {"overlap", "loss"} = {} =>
                  \A s \in Sets \ told' : Ops[s] # 0 => \E o \in queue : o[1] = s
<1>1. J /\ [Next]_vars => [P]_vars
  <2> SUFFICES ASSUME J, [Next]_vars, calls' # calls, Unhurt(hurt),
                      NEW s \in Sets \ told', Ops[s] # 0
               PROVE  \E o \in queue : o[1] = s
    BY DEF Unhurt
  <2>1. \E q \in Request : Finish(q) \/ FinishFails(q)
    BY DEF Next, Serve, Load, AlreadyOver, Pass, Complete, Delete, Missing, Save, Purge, PurgeQueue,
           Discard, Fatal, Die, Send, Receive, Reload, LoseAnswer, ErrorLink, results, vars
  <2> QED
    BY <2>1, FinishIsTrue
<1>2. FailureIsTrue <=> [][P]_vars
  BY PTL DEF FailureIsTrue
<1> HIDE DEF P
<1> QED
  BY <1>1, <1>2, InductiveInvariant, WholeInvariant, PTL DEF Spec

-----------------------------------------------------------------------------
(* Unless requests overlap, or one is killed between the completion of an      *)
(* operation and its deletion or between the callbacks and the deletion of the *)
(* row: what is queued has not run, except the operation in hand; and once the *)
(* callbacks were called the row is about to go.                               *)
Once ==
  hurt \cap {"overlap", "redo"} = {} =>
    /\ calls <= 1
    /\ calls = 1 /\ row # None => \E q \in Request : pc[q] = "purge"
    /\ \A q \in Request : pc[q] = "finish" => calls = 0
    /\ \A o \in Op : ran[o] <= 1 /\ (o \in queue /\ ran[o] = 1 => \E q \in Request : item[q] = o)

Unrepeated(h) == h \cap {"overlap", "redo"} = {}

LEMMA RestsOnce ==
  ASSUME Once, Rests
  PROVE  Once'
<1> SUFFICES ASSUME Unrepeated(hurt)
             PROVE  /\ calls <= 1
                    /\ calls = 1 /\ row # None => \E q \in Request : pc'[q] = "purge"
                    /\ \A q \in Request : pc'[q] = "finish" => calls = 0
                    /\ \A o \in Op : /\ ran[o] <= 1
                                     /\ o \in queue /\ ran[o] = 1 => \E q \in Request : item[q] = o
  BY DEF Rests, Once, Unrepeated
<1>1. \A q \in Request : (pc'[q] = "purge" <=> pc[q] = "purge") /\ (pc'[q] = "finish" <=> pc[q] = "finish")
  BY DEF Rests, Working
<1> QED
  BY <1>1 DEF Once, Unrepeated

LEMMA LoadOnce ==
  ASSUME Typed, Tally, Once, NEW q \in Request, Load(q)
  PROVE  Once'
<1>1. UNCHANGED <<row, queue, item, ran, calls>>
  BY DEF Load, results
<1>2. row = None => pc'[q] = "answer"
  BY DEF Load, Goto, Typed
<1>3. \A r \in Request \ {q} : pc'[r] = pc[r]
  BY DEF Load, Goto, Typed
<1> SUFFICES ASSUME Unrepeated(hurt')
             PROVE  /\ calls <= 1
                    /\ calls = 1 /\ row # None => \E r \in Request : pc'[r] = "purge"
                    /\ \A r \in Request : pc'[r] = "finish" => calls = 0
                    /\ \A o \in Op : /\ ran[o] <= 1
                                     /\ o \in queue /\ ran[o] = 1 => \E r \in Request : item[r] = o
  BY <1>1 DEF Once, Unrepeated
<1>4. Unrepeated(hurt) /\ \A r \in Request : ~Working(r)
  BY DEF Load, Unrepeated
<1>5. \A r \in Request : pc[r] # "purge" /\ pc[r] # "finish"
  BY <1>4 DEF Working
<1>6. row # None => calls # 1
  BY <1>4, <1>5 DEF Once, Unrepeated
<1>7. calls <= 1 /\ calls \in Nat
  BY <1>4 DEF Once, Unrepeated, Tally
<1>8. row # None => calls = 0
  BY <1>6, <1>7
<1>9. \A o \in Op : ran[o] <= 1 /\ (o \in queue /\ ran[o] = 1 => \E r \in Request : item[r] = o)
  BY <1>4 DEF Once, Unrepeated
<1>10. \A r \in Request : pc'[r] = "finish" => calls = 0
  BY <1>2, <1>3, <1>5, <1>8
<1> QED
  BY <1>6, <1>7, <1>9, <1>10

(* Steps that run nothing and call nothing. *)
LEMMA QuietOnce ==
  ASSUME Typed, SuccessIInv, Once, NEW q \in Request,
         \/ AlreadyOver(q) \/ Pass(q) \/ Delete(q) \/ Missing(q) \/ Save(q) \/ Fatal(q) \/ Die(q)
  PROVE  Once'
<1>1. UNCHANGED <<ran, calls>> /\ queue' \subseteq queue /\ hurt \subseteq hurt'
  BY DEF AlreadyOver, Pass, Delete, Missing, Save, Fatal, Die, results
<1>2. row' # None => row # None
  BY DEF AlreadyOver, Pass, Delete, Missing, Save, Fatal, Die
<1>3. \A r \in Request \ {q} : pc'[r] = pc[r] /\ item'[r] = item[r]
  BY WorkServes DEF Serves
<1>4. pc'[q] \notin {"finish", "purge"}
  <2>1. \E label \in PC \ {"finish", "purge"} : Goto(q, label)
    BY DEF AlreadyOver, Pass, Delete, Missing, Save, Fatal, Die, LoopOrSave, PC
  <2> QED
    BY <2>1 DEF Goto, Typed
<1> SUFFICES ASSUME Unrepeated(hurt')
             PROVE  /\ calls <= 1
                    /\ calls = 1 /\ row' # None => \E r \in Request : pc'[r] = "purge"
                    /\ \A r \in Request : pc'[r] = "finish" => calls = 0
                    /\ \A o \in Op : /\ ran[o] <= 1
                                     /\ o \in queue' /\ ran[o] = 1 => \E r \in Request : item'[r] = o
  BY <1>1 DEF Once, Unrepeated
<1>5. Unrepeated(hurt)
  BY <1>1 DEF Unrepeated
<1>6. pc[q] # "purge"
  <2>1. CASE Die(q)
    BY <2>1 DEF Die, Unrepeated
  <2>2. CASE AlreadyOver(q) \/ Pass(q) \/ Delete(q) \/ Missing(q) \/ Save(q) \/ Fatal(q)
    BY <2>2 DEF AlreadyOver, Pass, Delete, Missing, Save, Fatal
  <2> QED
    BY <2>1, <2>2
<1>7. calls = 1 /\ row' # None => \E r \in Request : pc'[r] = "purge"
  BY <1>2, <1>3, <1>5, <1>6 DEF Once, Unrepeated
<1>8. \A r \in Request : pc'[r] = "finish" => calls = 0
  BY <1>3, <1>4, <1>5 DEF Once, Unrepeated
<1>9. item'[q] = item[q] \/ (Delete(q) /\ item[q] \notin queue')
  <2>1. CASE Delete(q)
    BY <2>1 DEF Delete
  <2>2. CASE Die(q)
    <3>1. pc[q] # "delete"
      BY <2>2 DEF Die, Unrepeated
    <3>2. item[q] = None
      BY <3>1 DEF SuccessIInv, InHand
    <3> QED
      BY <2>2, <3>2 DEF Die, Typed
  <2>3. CASE AlreadyOver(q) \/ Pass(q) \/ Missing(q) \/ Save(q) \/ Fatal(q)
    BY <2>3 DEF AlreadyOver, Pass, Missing, Save, Fatal
  <2> QED
    BY <2>1, <2>2, <2>3
<1>10. ASSUME NEW o \in Op
       PROVE  ran[o] <= 1 /\ (o \in queue' /\ ran[o] = 1 => \E r \in Request : item'[r] = o)
  <2>1. ran[o] <= 1 /\ (o \in queue /\ ran[o] = 1 => \E r \in Request : item[r] = o)
    BY <1>5 DEF Once, Unrepeated
  <2> QED
    BY <1>1, <1>3, <1>9, <2>1
<1> QED
  BY <1>5, <1>7, <1>8, <1>10 DEF Once, Unrepeated

LEMMA CompleteOnce ==
  ASSUME Typed, SuccessIInv, Alone, Once, NEW q \in Request, Complete(q)
  PROVE  Once'
<1>1. PICK o \in Op : /\ IsFirst(q, o) /\ item' = [item EXCEPT ![q] = o]
                      /\ ran' = [ran EXCEPT ![o] = @ + 1]
  BY DEF Complete
<1>2. /\ pc[q] = "claim" /\ Goto(q, "delete") /\ UNCHANGED <<row, queue, calls, hurt>>
  BY DEF Complete
<1>3. /\ pc'[q] = "delete" /\ item'[q] = o /\ item[q] = None
      /\ \A r \in Request \ {q} : pc'[r] = pc[r] /\ item'[r] = item[r]
  BY <1>1, <1>2 DEF Goto, Typed, SuccessIInv, InHand
<1>4. /\ ran'[o] = ran[o] + 1 /\ ran[o] \in Nat
      /\ \A p \in Op \ {o} : ran'[p] = ran[p]
  BY <1>1 DEF Typed
<1> SUFFICES ASSUME Unrepeated(hurt)
             PROVE  /\ calls <= 1
                    /\ calls = 1 /\ row # None => \E r \in Request : pc'[r] = "purge"
                    /\ \A r \in Request : pc'[r] = "finish" => calls = 0
                    /\ \A p \in Op : /\ ran'[p] <= 1
                                     /\ p \in queue /\ ran'[p] = 1 => \E r \in Request : item'[r] = p
  BY <1>2 DEF Once, Unrepeated
<1>5. /\ calls <= 1
      /\ calls = 1 /\ row # None => \E r \in Request : pc[r] = "purge"
      /\ \A r \in Request : pc[r] = "finish" => calls = 0
      /\ \A p \in Op : ran[p] <= 1 /\ (p \in queue /\ ran[p] = 1 => \E r \in Request : item[r] = p)
  BY DEF Once, Unrepeated
<1>6. calls = 1 /\ row # None => \E r \in Request : pc'[r] = "purge"
  BY <1>2, <1>3, <1>5
<1>7. \A r \in Request : pc'[r] = "finish" => calls = 0
  BY <1>3, <1>5
<1>8. o \in queue /\ o # None
  BY <1>1, NoOperation DEF IsFirst
<1>9. \A r \in Request : item[r] # o
  <2> SUFFICES ASSUME NEW r \in Request, item[r] = o PROVE FALSE
    OBVIOUS
  <2>1. pc[r] = "delete"
    BY <1>8 DEF SuccessIInv, InHand
  <2>2. Working(r) /\ Working(q)
    BY <1>2, <2>1 DEF Working
  <2>3. r = q
    BY <2>2 DEF Alone, Unrepeated
  <2> QED
    BY <1>2, <2>1, <2>3
<1>10. ran[o] # 1 /\ ran[o] <= 1
  BY <1>5, <1>8, <1>9
<1>11. ran'[o] = 1
  BY <1>4, <1>10
<1>12. ASSUME NEW p \in Op
       PROVE  ran'[p] <= 1 /\ (p \in queue /\ ran'[p] = 1 => \E r \in Request : item'[r] = p)
  <2>1. CASE p = o
    BY <1>3, <1>11, <2>1
  <2>2. CASE p # o
    <3>1. ran'[p] = ran[p] /\ p # None
      BY <1>4, <2>2, NoOperation
    <3>2. ran[p] <= 1 /\ (p \in queue /\ ran[p] = 1 => \E r \in Request : item[r] = p)
      BY <1>5
    <3>3. \A r \in Request : item[r] = p => item'[r] = p
      BY <1>3, <3>1
    <3> QED
      BY <3>1, <3>2, <3>3
  <2> QED
    BY <2>1, <2>2
<1> QED
  BY <1>5, <1>6, <1>7, <1>12

LEMMA FailsOnce ==
  ASSUME NEW q \in Request, FinishFails(q)
  PROVE  Once'
<1>1. "redo" \in hurt'
  BY DEF FinishFails
<1> QED
  BY <1>1 DEF Once, Unrepeated

LEMMA FinishOnce ==
  ASSUME Typed, Alone, Gone, Once, NEW q \in Request,
         Finish(q) \/ Purge(q) \/ PurgeQueue(q)
  PROVE  Once'
<1>1. UNCHANGED <<ran, item, hurt>> /\ queue' \subseteq queue
  BY DEF Finish, Purge, PurgeQueue, results
<1>2. \A r \in Request \ {q} : pc'[r] = pc[r]
  BY WorkServes DEF Serves
<1> SUFFICES ASSUME Unrepeated(hurt)
             PROVE  /\ calls' <= 1
                    /\ calls' = 1 /\ row' # None => \E r \in Request : pc'[r] = "purge"
                    /\ \A r \in Request : pc'[r] = "finish" => calls' = 0
                    /\ \A p \in Op : /\ ran[p] <= 1
                                     /\ p \in queue' /\ ran[p] = 1 => \E r \in Request : item[r] = p
  BY <1>1 DEF Once, Unrepeated
<1>3. \A p \in Op : ran[p] <= 1 /\ (p \in queue' /\ ran[p] = 1 => \E r \in Request : item[r] = p)
  BY <1>1 DEF Once, Unrepeated
<1>4. /\ calls <= 1 /\ \A r \in Request : pc[r] = "finish" => calls = 0
  BY DEF Once, Unrepeated
<1>5. \A r \in Request \ {q} : pc[r] # "finish"
  BY WorkServes DEF Alone, Unrepeated, Working
<1>6. CASE Finish(q)
  <2>1. calls' = 1
    BY <1>4, <1>6 DEF Finish
  <2>2. pc'[q] = "purge"
    BY <1>6 DEF Finish, Goto, Typed
  <2> QED
    BY <1>2, <1>3, <1>5, <2>1, <2>2
<1>7. CASE Purge(q) \/ PurgeQueue(q)
  <2>1. row' = None /\ calls' = calls
    BY <1>7 DEF Purge, PurgeQueue, Gone, results
  <2>2. pc'[q] # "finish"
    BY <1>7 DEF Purge, PurgeQueue, Goto, Typed
  <2> QED
    BY <1>2, <1>3, <1>4, <1>5, <2>1, <2>2
<1> QED
  BY <1>6, <1>7

LEMMA OnceStep ==
  ASSUME Typed, SuccessIInv, Control, Tally, Alone, Gone, Once, [Next]_vars
  PROVE  Once'
BY LoadOnce, QuietOnce, CompleteOnce, FinishOnce, FailsOnce, PageRests, RestsOnce DEF Next, Serve

(* Operations are completed, and callbacks called, once each, unless requests  *)
(* overlap or one is killed between a deed and its note.                       *)
THEOREM OnceEachHolds == Spec => []OnceEach
<1> DEFINE J == Typed /\ SuccessIInv
           K == Control /\ Tally
           W == Alone /\ Gone /\ Whole
<1>1. Init => K /\ Once
  <2>1. Init => Once
    BY DEF Init, Once
  <2> QED
    BY <2>1, ControlInit
<1>2. J /\ K /\ W /\ Once /\ [Next]_vars => K' /\ Once'
  BY ControlStep, TallyStep, OnceStep
<1>3. Once => OnceEach
  BY DEF Once, OnceEach
<1> HIDE DEF K
<1> QED
  BY <1>1, <1>2, <1>3, InductiveInvariant, WholeInvariant, PTL DEF Spec

-----------------------------------------------------------------------------
(* A batch whose first set has operations: no request finds a set without any, *)
(* a set whose operations are used up is the last, and $finished is never 1.   *)
Settled(b) == b.count = 0 \/ Ops[b.set] = 0 => b.over

Onward ==
  Unhurt(hurt) /\ Ops[1] # 0 =>
    /\ row # None => Settled(row)
    /\ \A q \in Request : (copy[q] # None => Settled(copy[q])) /\ fin[q] # 1

LEMMA AdvanceSettles ==
  ASSUME NEW b \in Batch, Ops[b.set] # 0
  PROVE  Settled(Advance(b))
<1>1. b.set \in Nat /\ b.set >= 1 /\ b.set <= Len(Ops) /\ Len(Ops) \in Nat
  BY OpsFacts DEF Batch, Sets
<1>2. CASE b.count # 0
  BY <1>2 DEF Advance, Settled
<1>3. CASE b.count = 0 /\ \A s \in (b.set + 1)..Len(Ops) : Ops[s] = 0
  <2>1. Advance(b) = [b EXCEPT !.set = Len(Ops), !.over = TRUE]
    BY <1>3 DEF Advance
  <2>2. Advance(b).over = TRUE
    BY <2>1 DEF Batch
  <2> QED
    BY <2>2 DEF Settled
<1>4. CASE b.count = 0 /\ \E s \in (b.set + 1)..Len(Ops) : Ops[s] # 0
  <2> DEFINE IsNext(s) == Ops[s] # 0 /\ \A t \in (b.set + 1)..(s - 1) : Ops[t] = 0
             s == CHOOSE x \in (b.set + 1)..Len(Ops) : IsNext(x)
  <2>1. Advance(b) = [b EXCEPT !.set = s, !.count = Ops[s]]
    BY <1>4 DEF Advance
  <2>2. Ops[s] # 0
    <3>1. \E x \in (b.set + 1)..Len(Ops) : IsNext(x)
      BY <1>1, <1>4, NextSet
    <3>2. IsNext(s)
      <4> HIDE DEF IsNext
      <4> QED
        BY <3>1
    <3> QED
      BY <3>2
  <2> HIDE DEF s
  <2>3. Advance(b).set = s /\ Advance(b).count = Ops[s]
    BY <2>1 DEF Batch
  <2> QED
    BY <2>2, <2>3 DEF Settled
<1> QED
  BY <1>2, <1>3, <1>4

(* With settled copies, a request at work finds an item or is over. *)
LEMMA NothingMissing ==
  ASSUME Typed, SuccessIInv, Whole, Onward, NEW q \in Request, Missing(q), Unhurt(hurt), Ops[1] # 0
  PROVE  FALSE
<1>1. pc[q] = "claim" /\ ~copy[q].over /\ NoItem(q) /\ Working(q)
  BY DEF Missing, Working
<1>2. copy[q] \in Batch /\ Counts(copy[q], queue)
  BY <1>1, AtWork DEF Holding, Fits
<1>3. copy[q].set \in Sets
  BY <1>2 DEF Batch
<1>4. Queued(copy[q].set, queue) = {}
  BY <1>1 DEF Queued, NoItem
<1>5. copy[q].count = 0
  BY <1>2, <1>4, FS_EmptySet DEF Counts
<1>6. copy[q] # None
  BY <1>2, NoBatch
<1> QED
  BY <1>1, <1>5, <1>6 DEF Onward, Settled

LEMMA OnwardStep ==
  ASSUME Typed, SuccessIInv, Control, Alone, Whole, Onward, [Next]_vars
  PROVE  Onward'
<1> SUFFICES ASSUME Unhurt(hurt'), Ops[1] # 0
             PROVE  /\ row' # None => Settled(row')
                    /\ \A r \in Request : (copy'[r] # None => Settled(copy'[r])) /\ fin'[r] # 1
  BY DEF Onward
<1>1. CASE Rests
  BY <1>1 DEF Rests, Onward
<1>2. ASSUME NEW q \in Request, hurt \subseteq hurt',
             \A r \in Request \ {q} : copy'[r] = copy[r] /\ fin'[r] = fin[r],
             row' = row \/ row' = None \/ row' = copy[q],
             copy'[q] # None => copy'[q] = copy[q] \/ copy'[q] = row \/ Settled(copy'[q]), fin'[q] # 1
      PROVE  /\ row' # None => Settled(row')
             /\ \A r \in Request : (copy'[r] # None => Settled(copy'[r])) /\ fin'[r] # 1
  <2>1. /\ row # None => Settled(row)
        /\ \A r \in Request : (copy[r] # None => Settled(copy[r])) /\ fin[r] # 1
    BY <1>2 DEF Unhurt, Onward
  <2> QED
    BY <1>2, <2>1
<1>3. ASSUME NEW q \in Request,
             \/ Load(q) \/ AlreadyOver(q) \/ Pass(q) \/ Complete(q) \/ Delete(q)
             \/ Save(q) \/ Finish(q) \/ FinishFails(q) \/ Purge(q) \/ PurgeQueue(q) \/ Fatal(q) \/ Die(q)
      PROVE  /\ hurt \subseteq hurt'
             /\ \A r \in Request \ {q} : copy'[r] = copy[r] /\ fin'[r] = fin[r]
             /\ row' = row \/ row' = None \/ row' = copy[q]
  <2>1. hurt \subseteq hurt' /\ \A r \in Request \ {q} : copy'[r] = copy[r]
    BY <1>3, LoadServes, WorkServes DEF Serves
  <2>2. \A r \in Request \ {q} : fin'[r] = fin[r]
    BY <1>3 DEF Load, AlreadyOver, Pass, Complete, Delete, Save, Finish, FinishFails, Purge, PurgeQueue,
                Fatal, Die, Control
  <2>3. row' = row \/ row' = None \/ row' = copy[q]
    BY <1>3 DEF Load, AlreadyOver, Pass, Complete, Delete, Save, Finish, FinishFails, Purge, PurgeQueue,
                Fatal, Die
  <2> QED
    BY <2>1, <2>2, <2>3
<1>4. ASSUME NEW q \in Request,
             \/ AlreadyOver(q) \/ Complete(q) \/ Save(q) \/ Finish(q) \/ FinishFails(q) \/ Purge(q) \/ PurgeQueue(q)
             \/ Fatal(q) \/ Die(q)
      PROVE  copy'[q] = copy[q] /\ fin'[q] # 1
  <2>1. copy' = copy /\ (fin' = fin \/ fin' = [fin EXCEPT ![q] = Failed])
    BY <1>4 DEF AlreadyOver, Complete, Save, Finish, FinishFails, Purge, PurgeQueue, Fatal, Die
  <2>2. Unhurt(hurt)
    BY <1>3, <1>4 DEF Unhurt
  <2>3. fin[q] # 1
    BY <2>2 DEF Onward
  <2> QED
    BY <2>1, <2>3 DEF Failed, Control
<1>5. ASSUME NEW q \in Request, Load(q)
      PROVE  (copy'[q] # None => copy'[q] = row \/ Settled(copy'[q])) /\ fin'[q] # 1
  <2> DEFINE b == IF row # None /\ op[q] = "start" THEN [row EXCEPT !.running = TRUE] ELSE row
  <2>1. copy'[q] = b /\ fin'[q] = 0
    BY <1>5 DEF Load, Typed, Control
  <2>2. CASE row # None /\ op[q] = "start"
    <3>1. b.set = row.set /\ b.count = row.count /\ b.over = row.over
      BY <2>2 DEF Typed, Batch
    <3>2. Settled(row)
      BY <1>3, <1>5, <2>2 DEF Onward, Unhurt
    <3> HIDE DEF b
    <3>3. Settled(b)
      BY <3>1, <3>2 DEF Settled
    <3> QED
      BY <2>1, <3>3
  <2>3. CASE ~(row # None /\ op[q] = "start")
    BY <2>1, <2>3
  <2> QED
    BY <2>2, <2>3
<1>6. ASSUME NEW q \in Request, Pass(q)
      PROVE  Settled(copy'[q]) /\ fin'[q] # 1
  <2>1. PICK o \in Op : copy' = [copy EXCEPT ![q].box = o]
    BY <1>6 DEF Pass
  <2>2. copy[q] \in Batch /\ copy[q] # None
    BY <1>6, NoBatch DEF Pass, SuccessIInv, InHand, Typed
  <2>3. fin'[q] = Part
    BY <1>6 DEF Pass, Control
  <2>4. Settled(copy[q])
    BY <1>3, <1>6, <2>2 DEF Onward, Unhurt
  <2>5. /\ copy'[q].set = copy[q].set /\ copy'[q].count = copy[q].count
        /\ copy'[q].over = copy[q].over
    BY <2>1, <2>2 DEF Typed, Batch
  <2> QED
    BY <2>3, <2>4, <2>5 DEF Settled, Part
<1>7. ASSUME NEW q \in Request, Delete(q)
      PROVE  Settled(copy'[q]) /\ fin'[q] # 1
  <2> DEFINE c == [copy[q] EXCEPT !.count = @ - 1, !.box = None]
  <2>1. copy'[q] = Advance(c) /\ fin'[q] = 0 /\ pc[q] = "delete" /\ Working(q)
    BY <1>7 DEF Delete, Typed, Control, Working
  <2>2. /\ copy[q] \in Batch /\ item[q] \in Op /\ item[q][1] = copy[q].set
        /\ ran[item[q]] > 0
    BY <2>1 DEF SuccessIInv, InHand, Typed
  <2>3. Ops[copy[q].set] # 0
    BY <2>2, OpFacts
  <2>4. Enough(copy[q], item[q], ran, queue) /\ ran \in [Op -> Nat] /\ queue \in SUBSET Op
    BY <2>1, <2>2, NoBatch DEF SuccessIInv, CountsSuffice, Typed
  <2>5. c \in Batch
    BY <2>2, <2>4, DeleteSuffices
  <2>6. c.set = copy[q].set
    BY <2>2 DEF Batch
  <2> HIDE DEF c
  <2>7. Settled(Advance(c))
    BY <2>3, <2>5, <2>6, AdvanceSettles
  <2> QED
    BY <2>1, <2>7
<1>8. ASSUME NEW q \in Request, Missing(q)
      PROVE  FALSE
  <2>1. Unhurt(hurt)
    BY <1>8 DEF Missing, Unhurt
  <2> QED
    BY <1>8, <2>1, NothingMissing
<1>9. \/ Rests
      \/ \E q \in Request :
           \/ Load(q) \/ Pass(q) \/ Delete(q) \/ Missing(q)
           \/ AlreadyOver(q) \/ Complete(q) \/ Save(q) \/ Finish(q) \/ FinishFails(q) \/ Purge(q) \/ PurgeQueue(q)
           \/ Fatal(q) \/ Die(q)
  BY PageRests DEF Next, Serve
<1>10. ASSUME NEW q \in Request,
              \/ Load(q) \/ Pass(q) \/ Delete(q)
              \/ AlreadyOver(q) \/ Complete(q) \/ Save(q) \/ Finish(q) \/ FinishFails(q) \/ Purge(q) \/ PurgeQueue(q)
              \/ Fatal(q) \/ Die(q)
       PROVE  /\ row' # None => Settled(row')
              /\ \A r \in Request : (copy'[r] # None => Settled(copy'[r])) /\ fin'[r] # 1
  <2>1. /\ copy'[q] # None => copy'[q] = copy[q] \/ copy'[q] = row \/ Settled(copy'[q])
        /\ fin'[q] # 1
    BY <1>4, <1>5, <1>6, <1>7, <1>10
  <2> QED
    BY <1>2, <1>3, <1>10, <2>1
<1> QED
  BY <1>1, <1>8, <1>9, <1>10

(* The page reads 100% only when the batch is over, unless requests overlapped *)
(* or one was killed behind a deleteItem(), if the first set has operations.   *)
THEOREM HundredIsTheEnd == Spec => []HundredIsLast
<1> DEFINE J == Typed /\ SuccessIInv
           W == Alone /\ Gone /\ Whole
<1>1. Init => Control /\ Onward
  <2>1. Init => Onward
    BY DEF Init, Onward, Settled
  <2> QED
    BY <2>1, ControlInit
<1>2. J /\ W /\ Control /\ Onward /\ [Next]_vars => Control' /\ Onward'
  BY ControlStep, OnwardStep
<1>3. Control /\ Onward => HundredIsLast
  BY DEF Onward, Control, HundredIsLast, Hundred, Settled, Unhurt
<1> QED
  BY <1>1, <1>2, <1>3, InductiveInvariant, WholeInvariant, PTL DEF Spec
==============================================================================
