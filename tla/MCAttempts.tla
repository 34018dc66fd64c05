----------------------------- MODULE MCAttempts -----------------------------
(* Small instances of Attempts for TLC. *)
EXTENDS Attempts, TLC

CONSTANTS a1, a2, voice

All(x) == [a \in Attempt |-> x]
TwoDollars   == All(2)
OneDollar    == All({1})
SecondFree   == a1 :> {1, 2} @@ a2 :> {0}
Free         == All({0})
AllQueue     == All("queue")
AllMemory    == All("memory")
QueueMemory  == a1 :> "queue" @@ a2 :> "memory"
DirectQueue  == a1 :> "direct" @@ a2 :> "queue"
FirstQueue   == a1 :> "queue" @@ a2 :> "direct"
CapOfTwo     == [s \in Stage |-> 2]
CapOfThree   == [s \in Stage |-> 3]
NoStageCap   == [s \in Stage |-> NoCap]
OfOneStage   == a1 :> voice @@ a2 :> voice
WholeStages  == All(0)
TwoItems     == a1 :> 1 @@ a2 :> 2
Together     == a1 :> {} @@ a2 :> {}
OneByOne     == a1 :> {} @@ a2 :> {a1}
=============================================================================
