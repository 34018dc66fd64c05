------------------------------ MODULE MCItems ------------------------------
(* Instances of Items for TLC. *)
EXTENDS Items

(* `items` runs two at a time, `clips` one by one. *)
Two2One == [s \in Iter |-> IF s = "items" THEN 2 ELSE 1]
=============================================================================
