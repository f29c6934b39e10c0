---------------------------- MODULE ReliableQueue ----------------------------
(* What DrupalReliableQueueInterface (docroot/modules/system/system.queue.inc) *)
(* promises: "guarantees that every item will be executed at least once".      *)
CONSTANT Item

VARIABLES
  pending,   \* the items in the queue
  done       \* the items some consumer has executed to the end

vars == <<pending, done>>

Init == pending = {} /\ done = {}

Put(i) ==
  /\ i \notin pending \cup done
  /\ pending' = pending \cup {i}
  /\ UNCHANGED done

Execute(i) ==
  /\ done' = done \cup {i}
  /\ UNCHANGED pending

(* Only an executed item leaves the queue by itself. *)
Remove(i) ==
  /\ i \in done
  /\ pending' = pending \ {i}
  /\ UNCHANGED done

Purge == pending' = {} /\ UNCHANGED done

Next ==
  \/ \E i \in Item : Put(i) \/ Execute(i) \/ Remove(i)
  \/ Purge

EveryItemExecuted == \A i \in Item : i \in pending ~> i \in done \/ pending = {}

Spec == Init /\ [][Next]_vars /\ EveryItemExecuted
==============================================================================
