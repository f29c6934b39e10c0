------------------------------ MODULE MCVoting ------------------------------
(* Small instances of Voting. *)
EXTENDS Voting, TLC

(* A registered user's vote counts for ever, an anonymous one for one tick.    *)
MCWindow == [u \in User |-> IF u = "anonymous" THEN 1 ELSE -1]

(* Two nodes of which neither has the other's id for its revision ... *)
MCRevision == [e \in Entity |-> e + 10]

(* ... and two where node 1 has been edited once since node 2 was written.     *)
MCRevisionClash == [e \in Entity |-> IF e = 1 THEN 2 ELSE 12]

MCValue == {-2, 1}

Symmetry == Permutations(Request)

(* Users whose windows are the same can be exchanged, too. *)
UserSymmetry == Symmetry \cup Permutations(User)
==============================================================================
