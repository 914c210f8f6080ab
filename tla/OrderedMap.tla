------------------------------- MODULE OrderedMap -------------------------------
(***************************************************************************)
(* What a skip list promises (engine/tsm/skip_list.h): a finite map from   *)
(* time stamps to values in which the first value of a time stamp stays,   *)
(* and a count of its entries.                                             *)
(***************************************************************************)
EXTENDS Naturals, FiniteSets

CONSTANTS Keys, Values

VARIABLES map, count

Init == map = <<>> /\ count = 0

Put(key, value) ==
  /\ key \notin DOMAIN map
  /\ map' = [k \in DOMAIN map \cup {key} |-> IF k = key THEN value ELSE map[k]]
  /\ count' = Cardinality(DOMAIN map) + 1

Del(key) ==
  /\ key \in DOMAIN map
  /\ map' = [k \in DOMAIN map \ {key} |-> map[k]]
  /\ count' = Cardinality(DOMAIN map) - 1

Clear == map' = <<>> /\ count' = 0

Next == (\E key \in Keys : (\E value \in Values : Put(key, value)) \/ Del(key)) \/ Clear

Spec == Init /\ [][Next]_<<map, count>>

=============================================================================
