---------------------------- MODULE MCRunControl ----------------------------
(* Small runs for TLC: the graphs of stages the configurations choose from. *)
EXTENDS RunControl

CONSTANTS script, voice, video

Two == {script, voice}
Three == {script, voice, video}

\* voice needs script
Chain == [s \in Two |-> IF s = voice THEN {script} ELSE {}]
\* stages side by side
Branches == [s \in Two |-> {}]
ThreeBranches == [s \in Three |-> {}]
\* script feeds two branches
Fork == [s \in Three |-> IF s = script THEN {} ELSE {script}]
=============================================================================
