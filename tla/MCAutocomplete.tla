--------------------------- MODULE MCAutocomplete ---------------------------
(* Autocomplete on a small instance. *)
EXTENDS Autocomplete, TLC

MCText == {"", "a", "ab", "a ", "a ../", "a,"}

MCTrimmed ==
  [s \in MCText |-> CASE s = "a " -> "a" [] s = "a ../" -> "a " [] OTHER -> s]

(* Nothing begins with ab. *)
MCMatches == [s \in {"a", "a ", "ab"} |-> IF s = "ab" THEN {} ELSE {"a,"}]

==============================================================================
