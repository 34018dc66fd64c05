----------------------------- MODULE Settlement -----------------------------
(***************************************************************************)
(* What the ledger promises of the money set aside for one attempt: it is   *)
(* held once, before anything is paid, and settled at most once, for good,  *)
(* whoever settles it - the attempt, a cancellation or the sweep.           *)
(***************************************************************************)
CONSTANT Attempt
VARIABLE account   \* [Attempt -> Account]

(* freed    : nothing is charged.                                            *)
(* paid     : the cost the provider reported is charged.                     *)
(* presumed : nobody knows what was charged, so the ceiling counts as spent. *)
Settled == {"freed", "paid", "presumed"}
Account == {"none", "held"} \cup Settled

Init == account = [a \in Attempt |-> "none"]

Hold(a) ==
  /\ account[a] = "none"
  /\ account' = [account EXCEPT ![a] = "held"]

Settle(a) ==
  /\ account[a] = "held"
  /\ \E s \in Settled : account' = [account EXCEPT ![a] = s]

Next == \E a \in Attempt : Hold(a) \/ Settle(a)

Spec == Init /\ [][Next]_account
=============================================================================
