---------------------------- MODULE MCAssistant ----------------------------
(* Instances of Assistant for TLC: mixes of what may happen. *)
EXTENDS Assistant

Mix(s, c, n, r, o, a) ==
  [starts |-> s, calls |-> c, notes |-> n, restarts |-> r, ops |-> o, answers |-> a]

\* Two turns and two calls of tools; two calls of one turn with a restart, or with
\* two answers at once, or an operation of the user; two updates and two restarts;
\* an update between two turns and an operation.
CardsAndWakes ==
  {Mix(2, 2, 0, 0, 0, 1), Mix(1, 2, 0, 1, 0, 1), Mix(1, 2, 0, 0, 0, 2), Mix(1, 2, 0, 0, 1, 1),
   Mix(1, 0, 2, 2, 0, 1), Mix(2, 0, 1, 0, 1, 1)}

\* One turn that asks once.
OneCard == {Mix(1, 1, 0, 0, 0, 1)}
=============================================================================
