--------------------------- MODULE MCDraftRenders ---------------------------
(* Small instances of DraftRenders for TLC. *)
EXTENDS DraftRenders

CONSTANTS r1, r2

TwoRenders  == 1..2

Mix(n, c, s) == [renders |-> n, cancels |-> c, restarts |-> s]

\* One render replaces another; a render meets two cancels and a restart.
Replaced  == {Mix(2, 0, 0)}
Cancelled == {Mix(1, 2, 1)}
OneCancel == {Mix(1, 1, 0)}
Mixed     == Replaced \cup Cancelled
=============================================================================
