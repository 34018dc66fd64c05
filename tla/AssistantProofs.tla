-------------------------- MODULE AssistantProofs --------------------------
(* Theorems about Assistant: any number of turns, calls, cards and updates, *)
(* any operations in any order.                                             *)
EXTENDS Assistant, TLAPS

-----------------------------------------------------------------------------
(* Type correctness, with what TypeOK leaves open: the watch service's chain *)
(* and the updates still to come.                                            *)

TurnRecord ==
  [phase : {"none", "reading", "opening", "running", "ending", "closing", "done"},
   by : {"user", "wake"}, text : Texts \cup {None}, mode : AllModes,
   pre : BOOLEAN, planned : BOOLEAN, sees : BOOLEAN, aborted : BOOLEAN]
CallRecord ==
  [step : {"none", "asked", "waiting", "expired", "over"},
   turn : {0} \cup Turns, kind : AllKinds,
   card : {"none", "pending", "approved", "denied", "expired"},
   answer : AllAnswers \cup {"none", "expired"}, went : BOOLEAN,
   by : {"none", "auto", "pre", "card"}]

ChatType ==
  /\ chat \in [mode : AllModes, status : {"idle", "running"}, there : {"yes", "leaving", "no"}]
  /\ status \in [Turns -> {"none", "running", "over"}]
  /\ plan \in {"none", "pending", "approved", "revised", "dismissed"}
  /\ planning \in [step : {"none", "read", "written", "switched"},
                   decision : {"auto", "manual", "revise"}]
TurnType ==
  /\ active \in {0} \cup Turns /\ context \in {0} \cup Turns
  /\ turn \in [Turns -> TurnRecord]
CallType ==
  /\ call \in [Calls -> CallRecord]
  /\ deciding \subseteq [call : Calls, answer : AllAnswers, step : {"read", "written"}]
  /\ consent \in [Turns -> SUBSET Grants]
WakeType ==
  /\ watch \in [open : BOOLEAN, last : 0..MaxNotes, count : Nat]
  /\ notes \in Seq({"wakes", "final"})
  /\ chain \in Seq({Replay} \cup Notes)
  /\ wake \in [Texts -> {"none", "due", "ready", "queued", "turn", "lost"}]
  /\ serving \in Texts \cup {None}
  /\ queue \in Seq(Texts)
  /\ early \subseteq Notes /\ told \in [Texts -> Nat]
LeftType ==
  /\ left \in [starts : Nat, calls : Nat, notes : Nat, restarts : Nat, ops : Nat,
               answers : Nat]
  /\ Len(notes) + left.notes <= MaxNotes

Typed == ChatType /\ TurnType /\ CallType /\ WakeType /\ LeftType

LEMMA TypedIsTypeOK == Typed => TypeOK
<1> SUFFICES ASSUME Typed PROVE TypeOK
  OBVIOUS
<1>1. Len(notes) <= MaxNotes /\ \A n \in 1..Len(notes) : notes[n] \in {"wakes", "final"}
  BY AssistantAssumption DEF Typed, WakeType, LeftType
<1> QED
  BY <1>1 DEF TypeOK, Typed, ChatType, TurnType, CallType, WakeType, TurnRecord, CallRecord

LEMMA NoTurnTyped == NoTurn \in TurnRecord /\ Ended \in TurnRecord
BY DEF NoTurn, Ended, TurnRecord, AllModes

LEMMA TypedInit == Init => Typed
<1> SUFFICES ASSUME Init PROVE Typed
  OBVIOUS
<1>1. ChatType
  BY AssistantAssumption DEF Init, ChatType, AllModes
<1>2. TurnType
  BY NoTurnTyped DEF Init, TurnType
<1>3. CallType
  BY DEF Init, CallType, NoCall, CallRecord, AllKinds
<1>4. WakeType
  BY AssistantAssumption DEF Init, WakeType
<1>5. LeftType
  <2>1. left \in Budget
    BY AssistantAssumption DEF Init
  <2>2. Len(notes) = 0
    BY DEF Init
  <2> QED
    BY <2>1, <2>2, AssistantAssumption DEF LeftType, Budget
<1> QED
  BY <1>1, <1>2, <1>3, <1>4, <1>5 DEF Typed

(* The slot is given to a turn that has not begun. *)
LEMMA ReserveTyped ==
  ASSUME Typed, NEW by \in {"user", "wake"}, NEW text \in Texts \cup {None}, Reserve(by, text)
  PROVE  active' \in Turns /\ turn' \in [Turns -> TurnRecord]
<1>1. [NoTurn EXCEPT !.phase = "reading", !.by = by, !.text = text] \in TurnRecord
  BY DEF NoTurn, TurnRecord, AllModes
<1> QED
  BY <1>1 DEF Reserve, Typed, TurnType

(* The cards that expire are calls of their own. *)
LEMMA ExpireTyped ==
  ASSUME Typed, NEW cs, ExpireIn(cs)
  PROVE  call' \in [Calls -> CallRecord]
BY DEF ExpireIn, Typed, CallType, CallRecord

LEMMA HeadTailTyped ==
  ASSUME NEW S, NEW s \in Seq(S), s # <<>>
  PROVE  Head(s) \in S /\ Tail(s) \in Seq(S)
OBVIOUS

(* One of what the bounds leave is spent. *)
LEMMA SpendTyped ==
  ASSUME Typed, NEW what \in {"starts", "calls", "notes", "restarts", "ops"},
         left[what] > 0, Spend(what)
  PROVE  /\ left' \in [starts : Nat, calls : Nat, notes : Nat, restarts : Nat, ops : Nat,
                       answers : Nat]
         /\ left'.notes = IF what = "notes" THEN left.notes - 1 ELSE left.notes
<1>1. /\ left \in [starts : Nat, calls : Nat, notes : Nat, restarts : Nat, ops : Nat,
                   answers : Nat]
      /\ left' = [left EXCEPT ![what] = @ - 1]
  BY DEF Spend, Typed, LeftType
<1> QED
  BY <1>1

LEMMA WidenedTyped ==
  ASSUME NEW r \in TurnRecord
  PROVE  /\ \A mode \in AllModes : [r EXCEPT !.mode = mode] \in TurnRecord
         /\ [r EXCEPT !.pre = TRUE] \in TurnRecord
BY DEF TurnRecord

LEMMA AnsweredTyped ==
  ASSUME NEW r \in CallRecord, NEW answer \in AllAnswers, NEW went \in BOOLEAN
  PROVE  [r EXCEPT !.step = "over", !.answer = answer, !.by = "card", !.went = went] \in CallRecord
BY DEF CallRecord

(* What a turn may do without a card is noted in Grants only. *)
LEMMA GrantTyped ==
  ASSUME Typed
  PROVE  /\ \A mode \in AllModes : Switched(mode) => consent' \in [Turns -> SUBSET Grants]
         /\ \A d \in deciding :
              GrantRest(d) \/ DecideApply(d) => consent' \in [Turns -> SUBSET Grants]
<1>1. consent \in [Turns -> SUBSET Grants] /\ {"rest", "stray", "missed"} \subseteq Grants
  BY DEF Typed, CallType, Grants
<1>2. \A t \in Turns, g \in Grants : [consent EXCEPT ![t] = @ \cup {g}] \in [Turns -> SUBSET Grants]
  BY <1>1
<1>3. ASSUME NEW mode \in AllModes, Switched(mode)
      PROVE  consent' \in [Turns -> SUBSET Grants]
  <2>1. consent' = [t \in Turns |-> IF t # context /\ turn[t].mode = "auto" /\ mode # "auto"
                                     THEN consent[t] \cup {"missed"} ELSE consent[t]]
    BY <1>3 DEF Switched
  <2> QED
    BY <1>1, <2>1
<1>4. ASSUME NEW d \in deciding, GrantRest(d)
      PROVE  consent' \in [Turns -> SUBSET Grants]
  <2>1. \/ consent' = consent
        \/ consent' = [consent EXCEPT ![call[d.call].turn] = @ \cup {"rest"}]
    BY <1>4 DEF GrantRest
  <2> QED
    BY <1>1, <1>2, <2>1
<1>5. ASSUME NEW d \in deciding, DecideApply(d)
      PROVE  consent' \in [Turns -> SUBSET Grants]
  <2>1. consent' = consent \/ consent' = [consent EXCEPT ![context] = @ \cup {"stray"}]
    BY <1>5 DEF DecideApply
  <2> QED
    BY <1>1, <1>2, <2>1
<1> QED
  BY <1>3, <1>4, <1>5

LEMMA TypedNext == Typed /\ [Next]_vars => Typed'
<1> SUFFICES ASSUME Typed, [Next]_vars PROVE Typed'
  OBVIOUS
<1> USE AssistantAssumption, NoTurnTyped
<1>1. CASE StartTurn
  <2>1. TurnType'
    BY <1>1, ReserveTyped DEF StartTurn, Spend, Typed, TurnType, TurnRecord, chatVars, cardVars, wakeVars
  <2>2. LeftType'
    BY <1>1, SpendTyped DEF StartTurn, Typed, LeftType, chatVars, cardVars, wakeVars
  <2> QED
    BY <1>1, <2>1, <2>2 DEF StartTurn, Spend, Typed, ChatType, CallType, WakeType, chatVars, cardVars, wakeVars
<1>2. CASE Interrupt
  <2>1. TurnType'
    BY <1>2 DEF Interrupt, Abort, Spend, Typed, TurnType, TurnRecord, chatVars, cardVars, wakeVars
  <2>2. CallType'
    BY <1>2, ExpireTyped DEF Interrupt, Abort, Spend, Typed, CallType, CallRecord, chatVars, cardVars, wakeVars
  <2>3. LeftType'
    BY <1>2, SpendTyped DEF Interrupt, Abort, Typed, LeftType, chatVars, cardVars, wakeVars
  <2> QED
    BY <1>2, <2>1, <2>2, <2>3 DEF Interrupt, Abort, Spend, Typed, ChatType, WakeType, chatVars, cardVars, wakeVars
<1>3. CASE Watch
  <2>1. WakeType'
    <3>1. Len(notes) \in 0..MaxNotes
      BY DEF Typed, WakeType, LeftType
    <3>2. watch' \in [open : BOOLEAN, last : 0..MaxNotes, count : Nat]
      BY <1>3, <3>1 DEF Watch
    <3> QED
      BY <1>3, <3>2 DEF Watch, Typed, WakeType
  <2>2. LeftType'
    BY <1>3, SpendTyped DEF Watch, Typed, LeftType, chatVars, cardVars, wakeVars
  <2> QED
    BY <1>3, <2>1, <2>2 DEF Watch, Spend, Typed, ChatType, TurnType, CallType, chatVars, cardVars, wakeVars
<1>4. CASE Unwatch
  <2>1. WakeType'
    BY <1>4 DEF Unwatch, Spend, Typed, WakeType, chatVars, cardVars, wakeVars
  <2>2. LeftType'
    BY <1>4, SpendTyped DEF Unwatch, Typed, LeftType, chatVars, cardVars, wakeVars
  <2> QED
    BY <1>4, <2>1, <2>2 DEF Unwatch, Spend, Typed, ChatType, TurnType, CallType, chatVars, cardVars, wakeVars
<1>5. CASE DeleteBegin
  <2>1. ChatType'
    BY <1>5 DEF DeleteBegin, Spend, Typed, ChatType, chatVars, cardVars, wakeVars
  <2>2. TurnType'
    BY <1>5 DEF DeleteBegin, Spend, Typed, TurnType, TurnRecord, chatVars, cardVars, wakeVars
  <2>3. CallType'
    BY <1>5, ExpireTyped DEF DeleteBegin, Spend, Typed, CallType, CallRecord, chatVars, cardVars, wakeVars
  <2>4. LeftType'
    BY <1>5, SpendTyped DEF DeleteBegin, Typed, LeftType, chatVars, cardVars, wakeVars
  <2> QED
    BY <1>5, <2>1, <2>2, <2>3, <2>4 DEF DeleteBegin, Spend, Typed, WakeType, chatVars, cardVars, wakeVars
<1>6. ASSUME NEW mode \in Modes, SetMode(mode)
      PROVE  Typed'
  <2>1. ChatType'
    BY <1>6 DEF SetMode, Switched, Spend, Typed, ChatType, chatVars, cardVars, wakeVars
  <2>2. TurnType'
    <3>1. context # 0 => [turn[context] EXCEPT !.mode = mode] \in TurnRecord
      BY <1>6, WidenedTyped, AssistantAssumption DEF Typed, TurnType
    <3> QED
      BY <1>6, <3>1 DEF SetMode, Switched, Typed, TurnType
  <2>3. LeftType'
    BY <1>6, SpendTyped DEF SetMode, Switched, Typed, LeftType, chatVars, cardVars, wakeVars
  <2>4. CallType'
    BY <1>6, GrantTyped DEF SetMode, Typed, CallType
  <2> QED
    BY <1>6, <2>1, <2>2, <2>3, <2>4 DEF SetMode, Spend, Typed, WakeType, chatVars, cardVars, wakeVars
<1>7. ASSUME NEW c \in Calls, NEW answer \in Answers, DecideRead(c, answer)
      PROVE  Typed'
  <2>1. CallType'
    BY <1>7 DEF DecideRead, Typed, CallType, chatVars, cardVars, wakeVars
  <2> QED
    BY <1>7, <2>1 DEF DecideRead, Typed, ChatType, TurnType, WakeType, LeftType, chatVars, cardVars, wakeVars
<1>8. ASSUME NEW decision \in {"auto", "manual", "revise"}, PlanRead(decision)
      PROVE  Typed'
  <2>1. ChatType'
    BY <1>8 DEF PlanRead, Spend, Typed, ChatType, chatVars, chatVars, cardVars, wakeVars
  <2>2. LeftType'
    BY <1>8, SpendTyped DEF PlanRead, Typed, LeftType, chatVars, cardVars, wakeVars
  <2> QED
    BY <1>8, <2>1, <2>2 DEF PlanRead, Spend, Typed, TurnType, CallType, WakeType, chatVars, cardVars, wakeVars
<1>9. ASSUME NEW t \in Turns, ReadChat(t)
      PROVE  Typed'
  <2>1. TurnType'
    BY <1>9 DEF ReadChat, Refuse, There, Typed, TurnType, TurnRecord, chatVars, cardVars, wakeVars
  <2>2. WakeType'
    BY <1>9 DEF ReadChat, Refuse, There, Typed, WakeType, chatVars, cardVars, wakeVars
  <2> QED
    BY <1>9, <2>1, <2>2 DEF ReadChat, Refuse, There, Typed, ChatType, CallType, LeftType, chatVars, cardVars, wakeVars
<1>10. ASSUME NEW t \in Turns, OpenTurn(t)
      PROVE  Typed'
  <2>1. ChatType'
    BY <1>10 DEF OpenTurn, Refuse, There, Typed, ChatType, chatVars, cardVars, wakeVars
  <2>2. TurnType'
    BY <1>10 DEF OpenTurn, Refuse, There, Typed, TurnType, TurnRecord, chatVars, cardVars, wakeVars
  <2>3. WakeType'
    <3>1. told' \in [Texts -> Nat]
      <4>1. told \in [Texts -> Nat] /\ turn[t].text \in Texts \cup {None}
        BY DEF Typed, WakeType, TurnType, TurnRecord
      <4>2. told' = told \/ told' = [told EXCEPT ![turn[t].text] = @ + 1]
        BY <1>10 DEF OpenTurn, Refuse
      <4> QED
        BY <4>1, <4>2
    <3> QED
      BY <1>10, <3>1 DEF OpenTurn, Refuse, There, Typed, WakeType, chatVars, cardVars, wakeVars
  <2> QED
    BY <1>10, <2>1, <2>2, <2>3 DEF OpenTurn, Refuse, There, Typed, CallType, LeftType, chatVars, cardVars, wakeVars
<1>11. ASSUME NEW t \in Turns, Release(t)
      PROVE  Typed'
  <2>1. TurnType'
    BY <1>11 DEF Release, Typed, TurnType, TurnRecord, chatVars, cardVars, wakeVars
  <2>2. WakeType'
    <3>1. CASE queue = <<>>
      BY <1>11, <3>1 DEF Release, Typed, WakeType
    <3>2. CASE queue # <<>>
      <4>1. Head(queue) \in Texts /\ Tail(queue) \in Seq(Texts)
        BY <3>2, HeadTailTyped DEF Typed, WakeType
      <4> QED
        BY <1>11, <3>2, <4>1 DEF Release, Typed, WakeType
    <3> QED
      BY <3>1, <3>2
  <2> QED
    BY <1>11, <2>1, <2>2 DEF Release, Typed, ChatType, CallType, LeftType, chatVars, cardVars, wakeVars
<1>12. ASSUME NEW t \in Turns, CloseTurn(t)
      PROVE  Typed'
  <2>1. ChatType'
    BY <1>12 DEF CloseTurn, There, Typed, ChatType, chatVars, cardVars, wakeVars
  <2>2. TurnType'
    BY <1>12 DEF CloseTurn, There, Typed, TurnType, TurnRecord, chatVars, cardVars, wakeVars
  <2> QED
    BY <1>12, <2>1, <2>2 DEF CloseTurn, There, Typed, CallType, WakeType, LeftType, chatVars, cardVars, wakeVars
<1>13. ASSUME NEW t \in Turns, TimeOut(t)
      PROVE  Typed'
  <2>1. TurnType'
    BY <1>13 DEF TimeOut, Abort, Typed, TurnType, TurnRecord, chatVars, cardVars, wakeVars
  <2>2. CallType'
    BY <1>13, ExpireTyped DEF TimeOut, Abort, Typed, CallType, CallRecord, chatVars, cardVars, wakeVars
  <2> QED
    BY <1>13, <2>1, <2>2 DEF TimeOut, Abort, Typed, ChatType, WakeType, LeftType, chatVars, cardVars, wakeVars
<1>14. ASSUME NEW t \in Turns, EndTurn(t)
      PROVE  Typed'
  <2>1. TurnType'
    BY <1>14 DEF EndTurn, Typed, TurnType, TurnRecord, chatVars, cardVars, wakeVars
  <2>2. CallType'
    BY <1>14, ExpireTyped DEF EndTurn, Typed, CallType, CallRecord, chatVars, cardVars, wakeVars
  <2> QED
    BY <1>14, <2>1, <2>2 DEF EndTurn, Typed, ChatType, WakeType, LeftType, chatVars, cardVars, wakeVars
<1>15. ASSUME NEW c \in Calls, CardWritten(c)
      PROVE  Typed'
  <2>1. CallType'
    <3>1. call[c] \in CallRecord
      BY DEF Typed, CallType
    <3>2. call'[c] \in CallRecord
      BY <1>15, <3>1 DEF CardWritten, CallRecord, Typed, CallType
    <3> QED
      BY <1>15, <3>2 DEF CardWritten, Typed, CallType
  <2> QED
    BY <1>15, <2>1 DEF CardWritten, Typed, ChatType, TurnType, WakeType, LeftType, chatVars, cardVars, wakeVars
<1>16. ASSUME NEW c \in Calls, RowExpired(c)
      PROVE  Typed'
  <2>1. CallType'
    <3>1. call[c] \in CallRecord
      BY DEF Typed, CallType
    <3>2. call'[c] \in CallRecord
      BY <1>16, <3>1 DEF RowExpired, CallRecord, Typed, CallType
    <3> QED
      BY <1>16, <3>2 DEF RowExpired, Typed, CallType
  <2> QED
    BY <1>16, <2>1 DEF RowExpired, Typed, ChatType, TurnType, WakeType, LeftType, chatVars, cardVars, wakeVars
<1>17. ASSUME NEW c \in Calls, ExpireCard(c)
      PROVE  Typed'
  <2>1. CallType'
    BY <1>17, ExpireTyped DEF ExpireCard, Typed, CallType, CallRecord, chatVars, cardVars, wakeVars
  <2> QED
    BY <1>17, <2>1 DEF ExpireCard, Typed, ChatType, TurnType, WakeType, LeftType, chatVars, cardVars, wakeVars
<1>18. ASSUME NEW d \in deciding, DecideWrite(d)
      PROVE  Typed'
  <2>1. CallType'
    <3>1. consent' \in [Turns -> SUBSET Grants]
      BY <1>18, GrantTyped DEF DecideWrite, Typed, CallType
    <3> QED
      BY <1>18, <3>1 DEF DecideWrite, Typed, CallType, CallRecord, AllAnswers, chatVars, cardVars, wakeVars
  <2> QED
    BY <1>18, <2>1 DEF DecideWrite, Typed, ChatType, TurnType, WakeType, LeftType, chatVars, cardVars, wakeVars
<1>19. ASSUME NEW d \in deciding, DecideApply(d)
      PROVE  Typed'
  <2>1. ChatType'
    BY <1>19 DEF DecideApply, Typed, ChatType, AllModes, chatVars, cardVars, wakeVars
  <2>2. TurnType'
    <3>1. context # 0 => /\ [turn[context] EXCEPT !.mode = "auto"] \in TurnRecord
                         /\ [turn[context] EXCEPT !.pre = TRUE] \in TurnRecord
      BY WidenedTyped DEF Typed, TurnType, AllModes
    <3> QED
      BY <1>19, <3>1 DEF DecideApply, Typed, TurnType
  <2>3. CallType'
    <3>1. d.call \in Calls /\ d.answer \in AllAnswers /\ call[d.call] \in CallRecord
      BY DEF Typed, CallType
    <3>2. GoesAhead(d.answer) \in BOOLEAN
      BY DEF GoesAhead
    <3>3. [call[d.call] EXCEPT !.step = "over", !.answer = d.answer, !.by = "card",
                               !.went = GoesAhead(d.answer)] \in CallRecord
      BY <3>1, <3>2, AnsweredTyped
    <3>4. consent' \in [Turns -> SUBSET Grants]
      BY <1>19, GrantTyped
    <3> QED
      BY <1>19, <3>1, <3>3, <3>4 DEF DecideApply, Typed, CallType
  <2> QED
    BY <1>19, <2>1, <2>2, <2>3 DEF DecideApply, Typed, WakeType, LeftType, chatVars, cardVars, wakeVars
<1>20. CASE PlanWrite
  <2>1. ChatType'
    BY <1>20 DEF PlanWrite, Typed, ChatType, chatVars, cardVars, wakeVars
  <2> QED
    BY <1>20, <2>1 DEF PlanWrite, Typed, TurnType, CallType, WakeType, LeftType, chatVars, cardVars, wakeVars
<1>21. CASE PlanSwitch
  <2>1. ChatType'
    BY <1>21 DEF PlanSwitch, Switched, Typed, ChatType, AllModes, chatVars, cardVars, wakeVars
  <2>2. TurnType'
    <3>1. planning.decision # "revise" => planning.decision \in AllModes
      BY DEF Typed, ChatType, AllModes
    <3>2. context # 0 /\ planning.decision # "revise" =>
            [turn[context] EXCEPT !.mode = planning.decision] \in TurnRecord
      BY <3>1, WidenedTyped DEF Typed, TurnType
    <3> QED
      BY <1>21, <3>2 DEF PlanSwitch, Switched, Typed, TurnType
  <2>3. CallType'
    <3>1. planning.decision # "revise" => planning.decision \in AllModes
      BY DEF Typed, ChatType, AllModes
    <3> QED
      BY <1>21, <3>1, GrantTyped DEF PlanSwitch, Typed, CallType
  <2> QED
    BY <1>21, <2>1, <2>2, <2>3 DEF PlanSwitch, Typed, WakeType, LeftType, chatVars, cardVars, wakeVars
<1>22. CASE PlanStart
  <2>1. ChatType'
    BY <1>22 DEF PlanStart, Typed, ChatType, chatVars, cardVars, wakeVars
  <2>2. TurnType'
    BY <1>22, ReserveTyped DEF PlanStart, Typed, TurnType, TurnRecord, chatVars, cardVars, wakeVars
  <2> QED
    BY <1>22, <2>1, <2>2 DEF PlanStart, Typed, CallType, WakeType, LeftType, chatVars, cardVars, wakeVars
<1>23. CASE Handle
  <2>1. WakeType'
    <3>1. Head(chain) \in {Replay} \cup Notes /\ Tail(chain) \in Seq({Replay} \cup Notes)
      BY <1>23, HeadTailTyped DEF Handle, Typed, WakeType
    <3>2. Len(notes) \in 0..MaxNotes
      BY DEF Typed, WakeType, LeftType
    <3>3. ASSUME NEW x \in Texts, WakeOne(x)
          PROVE  /\ watch' \in [open : BOOLEAN, last : 0..MaxNotes, count : Nat]
                 /\ wake' \in [Texts -> {"none", "due", "ready", "queued", "turn", "lost"}]
                 /\ serving' \in Texts \cup {None}
      BY <3>3 DEF WakeOne, LastWake, Typed, WakeType, Texts, Notes
    <3>4. CASE ~ watch.open \/ (Head(chain) = Replay /\ Len(notes) <= watch.last)
      BY <1>23, <3>1, <3>4 DEF Handle, Typed, WakeType
    <3>5. CASE watch.open /\ Head(chain) = Replay /\ Len(notes) > watch.last
      <4>1. <<Len(notes), "replay">> \in Texts
        BY <3>2, <3>5 DEF Texts, Notes, Typed, WakeType
      <4>2. WakeOne(<<Len(notes), "replay">>)
        BY <1>23, <3>5, <3>2 DEF Handle, Typed, WakeType
      <4> QED
        BY <1>23, <3>1, <3>3, <4>1, <4>2 DEF Handle, Typed, WakeType
    <3>6. CASE watch.open /\ Head(chain) # Replay
      <4>1. <<Head(chain), "live">> \in Texts
        BY <3>1, <3>6 DEF Texts
      <4>2. WakeOne(<<Head(chain), "live">>)
        BY <1>23, <3>6 DEF Handle
      <4> QED
        BY <1>23, <3>1, <3>3, <4>1, <4>2 DEF Handle, Typed, WakeType
    <3> QED
      BY <3>2, <3>4, <3>5, <3>6 DEF Typed, WakeType
  <2> QED
    BY <1>23, <2>1 DEF Handle, Typed, ChatType, TurnType, CallType, LeftType, chatVars, cardVars, wakeVars
<1>24. ASSUME NEW x \in Texts, WakeCheck(x)
      PROVE  Typed'
  <2>1. WakeType'
    <3>1. queue' \in Seq(Texts)
      <4>1. queue' = queue \/ queue' = Append(queue, x)
        BY <1>24 DEF WakeCheck
      <4>2. queue \in Seq(Texts)
        BY DEF Typed, WakeType
      <4> QED
        BY <1>24, <4>1, <4>2
    <3>2. wake' \in [Texts -> {"none", "due", "ready", "queued", "turn", "lost"}]
      BY <1>24 DEF WakeCheck, Typed, WakeType
    <3>3. serving' \in Texts \cup {None}
      BY <1>24 DEF WakeCheck, Typed, WakeType
    <3> QED
      BY <1>24, <3>1, <3>2, <3>3 DEF WakeCheck, Typed, WakeType
  <2> QED
    BY <1>24, <2>1 DEF WakeCheck, Typed, ChatType, TurnType, CallType, LeftType, chatVars, cardVars, wakeVars
<1>25. ASSUME NEW x \in Texts, WakeStart(x)
      PROVE  Typed'
  <2>1. TurnType'
    BY <1>25, ReserveTyped DEF WakeStart, Typed, TurnType, TurnRecord, chatVars, cardVars, wakeVars
  <2>2. WakeType'
    BY <1>25 DEF WakeStart, Typed, WakeType, chatVars, cardVars, wakeVars
  <2> QED
    BY <1>25, <2>1, <2>2 DEF WakeStart, Typed, ChatType, CallType, LeftType, chatVars, cardVars, wakeVars
<1>26. CASE DeleteEnd
  <2>1. ChatType'
    BY <1>26 DEF DeleteEnd, Typed, ChatType, chatVars, cardVars, wakeVars
  <2>2. CallType'
    BY <1>26 DEF DeleteEnd, Typed, CallType, CallRecord, chatVars, cardVars, wakeVars
  <2>3. WakeType'
    <3>1. wake' \in [Texts -> {"none", "due", "ready", "queued", "turn", "lost"}]
      BY <1>26 DEF DeleteEnd, Typed, WakeType
    <3>2. watch' \in [open : BOOLEAN, last : 0..MaxNotes, count : Nat] /\ queue' = <<>>
      BY <1>26 DEF DeleteEnd, Typed, WakeType
    <3>3. queue' \in Seq(Texts)
      BY <3>2
    <3> QED
      BY <1>26, <3>1, <3>2, <3>3 DEF DeleteEnd, Typed, WakeType
  <2> QED
    BY <1>26, <2>1, <2>2, <2>3 DEF DeleteEnd, Typed, TurnType, LeftType, chatVars, cardVars, wakeVars
<1>27. ASSUME NEW t \in Turns, RefuseTurn(t)
      PROVE  Typed'
  <2>1. TurnType'
    BY <1>27 DEF RefuseTurn, Refuse, Typed, TurnType, TurnRecord, chatVars, cardVars, wakeVars
  <2> QED
    BY <1>27, <2>1 DEF RefuseTurn, Refuse, Typed, ChatType, CallType, WakeType, LeftType, chatVars, cardVars, wakeVars
<1>28. ASSUME NEW t \in Turns, PresentPlan(t)
      PROVE  Typed'
  <2>1. ChatType'
    BY <1>28 DEF PresentPlan, Typed, ChatType, chatVars, cardVars, wakeVars
  <2>2. TurnType'
    BY <1>28 DEF PresentPlan, Typed, TurnType, TurnRecord, chatVars, cardVars, wakeVars
  <2> QED
    BY <1>28, <2>1, <2>2 DEF PresentPlan, Typed, CallType, WakeType, LeftType, chatVars, cardVars, wakeVars
<1>29. ASSUME NEW t \in Turns, NEW c \in Calls, NEW kind \in Kinds, CallTool(t, c, kind)
      PROVE  Typed'
  <2>1. CallType'
    BY <1>29 DEF CallTool, Spend, Typed, CallType, CallRecord, NoCall, Right, GoesAhead, AllKinds, chatVars, cardVars, wakeVars
  <2>2. LeftType'
    BY <1>29, SpendTyped DEF CallTool, Typed, LeftType, chatVars, cardVars, wakeVars
  <2> QED
    BY <1>29, <2>1, <2>2 DEF CallTool, Spend, Typed, ChatType, TurnType, WakeType, chatVars, cardVars, wakeVars
<1>30. ASSUME NEW kind \in {"wakes", "final"}, Notify(kind)
      PROVE  Typed'
  <2>1. WakeType'
    <3>1. notes' \in Seq({"wakes", "final"}) /\ Len(notes') = Len(notes) + 1
      BY <1>30 DEF Notify, Typed, WakeType
    <3>2. Len(notes') \in Notes
      BY <1>30, <3>1 DEF Notify, Typed, WakeType, LeftType, Notes
    <3>3. chain' \in Seq({Replay} \cup Notes)
      BY <1>30, <3>2 DEF Notify, Typed, WakeType
    <3>4. early' \subseteq Notes
      BY <1>30, <3>2 DEF Notify, Typed, WakeType
    <3> QED
      BY <1>30, <3>1, <3>3, <3>4 DEF Notify, Typed, WakeType
  <2>2. LeftType'
    <3>1. Len(notes') = Len(notes) + 1
      BY <1>30 DEF Notify, Typed, WakeType
    <3>2. left' \in [starts : Nat, calls : Nat, notes : Nat, restarts : Nat, ops : Nat,
                     answers : Nat]
          /\ left'.notes = left.notes - 1
      BY <1>30, SpendTyped DEF Notify
    <3> QED
      BY <1>30, <3>1, <3>2 DEF Typed, LeftType, WakeType
  <2> QED
    BY <1>30, <2>1, <2>2 DEF Notify, Spend, Typed, ChatType, TurnType, CallType, chatVars, cardVars, wakeVars
<1>31. CASE Restart
  <2>1. ChatType'
    BY <1>31 DEF Restart, Spend, Typed, ChatType, chatVars, cardVars, wakeVars
  <2>2. TurnType'
    BY <1>31 DEF Restart, Spend, Typed, TurnType, chatVars, cardVars, wakeVars
  <2>3. CallType'
    <3>1. ASSUME NEW r \in CallRecord
          PROVE  [r EXCEPT !.step = "over",
                           !.card = IF r.card = "pending" THEN "expired" ELSE r.card] \in CallRecord
      BY DEF CallRecord
    <3>2. call' \in [Calls -> CallRecord]
      BY <1>31, <3>1 DEF Restart, Typed, CallType
    <3>3. deciding' = {} /\ consent' = consent
      BY <1>31 DEF Restart
    <3> QED
      BY <3>2, <3>3 DEF Typed, CallType
  <2>4. WakeType'
    <3>1. chain' = <<Replay>> /\ queue' = <<>>
      BY <1>31 DEF Restart
    <3>4. chain' \in Seq({Replay} \cup Notes) /\ queue' \in Seq(Texts)
      BY <3>1
    <3>2. wake' \in [Texts -> {"none", "due", "ready", "queued", "turn", "lost"}]
      BY <1>31 DEF Restart, Typed, WakeType
    <3> QED
      BY <1>31, <3>4, <3>2 DEF Restart, Typed, WakeType
  <2>5. LeftType'
    BY <1>31, SpendTyped DEF Restart, Typed, LeftType, chatVars, cardVars, wakeVars
  <2> QED
    BY <1>31, <2>1, <2>2, <2>3, <2>4, <2>5 DEF Restart, Spend, Typed, chatVars, cardVars, wakeVars
<1>32. CASE UNCHANGED vars
  BY <1>32 DEF Typed, ChatType, TurnType, CallType, WakeType, LeftType, vars, chatVars, cardVars, wakeVars
<1> QED
  BY <1>1, <1>2, <1>3, <1>4, <1>5, <1>6, <1>7, <1>8, <1>9, <1>10, <1>11, <1>12, <1>13, <1>14, <1>15, <1>16, <1>17, <1>18, <1>19, <1>20, <1>21, <1>22, <1>23, <1>24, <1>25, <1>26, <1>27, <1>28, <1>29, <1>30, <1>31, <1>32
  DEF Next, User, Internal, Outside, Turning, Stopping, Carding, Waking

(* Everything keeps its type, and the chain holds notes there are.          *)
THEOREM TypeCorrect == Spec => []TypeOK
<1>1. Init => Typed
  BY TypedInit
<1>2. Typed /\ [Next]_vars => Typed'
  BY TypedNext
<1>3. Typed => TypeOK
  BY TypedIsTypeOK
<1> QED
  BY <1>1, <1>2, <1>3, PTL DEF Spec

-----------------------------------------------------------------------------
(* What the steps that several actions share do to the turns and the calls. *)
LEMMA ReserveGives ==
  ASSUME Typed, NEW by \in {"user", "wake"}, NEW text \in Texts \cup {None}, Reserve(by, text)
  PROVE  \E t \in Turns :
           /\ turn[t].phase = "none" /\ active' = t
           /\ turn'[t].phase = "reading" /\ turn'[t].mode = "manual"
           /\ ~ turn'[t].pre /\ ~ turn'[t].aborted /\ turn'[t].text = text
           /\ \A u \in Turns : u # t => turn'[u] = turn[u]
<1>1. PICK t \in Turns :
        /\ turn[t].phase = "none" /\ active' = t
        /\ turn' = [turn EXCEPT ![t] =
             [NoTurn EXCEPT !.phase = "reading", !.by = by, !.text = text]]
  BY DEF Reserve
<1>2. turn'[t] = [NoTurn EXCEPT !.phase = "reading", !.by = by, !.text = text]
  BY <1>1 DEF Typed, TurnType
<1>3. /\ turn'[t].phase = "reading" /\ turn'[t].mode = "manual"
      /\ ~ turn'[t].pre /\ ~ turn'[t].aborted /\ turn'[t].text = text
  BY <1>2 DEF NoTurn
<1>4. \A u \in Turns : u # t => turn'[u] = turn[u]
  BY <1>1 DEF Typed, TurnType
<1> QED
  BY <1>1, <1>3, <1>4

LEMMA SwitchedGives ==
  ASSUME Typed, NEW mode \in AllModes, Switched(mode)
  PROVE  /\ chat'.mode = mode
         /\ chat'.there = chat.there /\ chat'.status = chat.status
         /\ \A t \in Turns :
              /\ turn'[t].phase = turn[t].phase /\ turn'[t].pre = turn[t].pre
              /\ turn'[t].aborted = turn[t].aborted /\ turn'[t].text = turn[t].text
              /\ turn'[t].mode \in {turn[t].mode, mode}
<1>1. /\ chat'.mode = mode
      /\ chat'.there = chat.there /\ chat'.status = chat.status
  BY DEF Switched, Typed, ChatType
<1>2. ASSUME NEW t \in Turns
      PROVE  /\ turn'[t].phase = turn[t].phase /\ turn'[t].pre = turn[t].pre
             /\ turn'[t].aborted = turn[t].aborted /\ turn'[t].text = turn[t].text
             /\ turn'[t].mode \in {turn[t].mode, mode}
  <2>1. turn[t] \in TurnRecord
    BY DEF Typed, TurnType
  <2>2. turn'[t] = turn[t] \/ turn'[t] = [turn[t] EXCEPT !.mode = mode]
    BY DEF Switched, Typed, TurnType
  <2> QED
    BY <2>1, <2>2 DEF TurnRecord
<1> QED
  BY <1>1, <1>2

LEMMA ApplyGives ==
  ASSUME Typed, NEW d \in deciding, DecideApply(d)
  PROVE  /\ chat'.there = chat.there /\ chat'.status = chat.status
         /\ chat'.mode = chat.mode \/ (d.answer = "yes_auto" /\ chat'.mode = "auto")
         /\ \A t \in Turns :
              /\ turn'[t].phase = turn[t].phase
              /\ turn'[t].aborted = turn[t].aborted /\ turn'[t].text = turn[t].text
              /\ turn'[t].mode = turn[t].mode \/ (d.answer = "yes_auto" /\ turn'[t].mode = "auto")
              /\ turn'[t].pre = turn[t].pre \/ d.answer = "yes_turn"
<1>1. /\ chat'.there = chat.there /\ chat'.status = chat.status
      /\ chat'.mode = chat.mode \/ (d.answer = "yes_auto" /\ chat'.mode = "auto")
  BY DEF DecideApply, Typed, ChatType
<1>2. ASSUME NEW t \in Turns
      PROVE  /\ turn'[t].phase = turn[t].phase
             /\ turn'[t].aborted = turn[t].aborted /\ turn'[t].text = turn[t].text
             /\ turn'[t].mode = turn[t].mode \/ (d.answer = "yes_auto" /\ turn'[t].mode = "auto")
             /\ turn'[t].pre = turn[t].pre \/ d.answer = "yes_turn"
  <2>1. turn[t] \in TurnRecord /\ "auto" \in AllModes
    BY DEF Typed, TurnType, AllModes
  <2>2. \/ turn'[t] = turn[t]
        \/ d.answer = "yes_auto" /\ turn'[t] = [turn[t] EXCEPT !.mode = "auto"]
        \/ d.answer = "yes_turn" /\ turn'[t] = [turn[t] EXCEPT !.pre = TRUE]
    BY DEF DecideApply, Typed, TurnType
  <2> QED
    BY <2>1, <2>2 DEF TurnRecord
<1> QED
  BY <1>1, <1>2

LEMMA RestartGives ==
  ASSUME Typed, Restart
  PROVE  /\ \A t \in Turns : /\ turn'[t].phase \in {"none", "done"} /\ turn'[t].mode = "manual"
                             /\ ~ turn'[t].pre /\ ~ turn'[t].aborted
         /\ \A c \in Calls :
              /\ call'[c].step = IF call[c].step = "none" THEN "none" ELSE "over"
              /\ call'[c].turn = call[c].turn /\ call'[c].kind = call[c].kind
              /\ call'[c].went = call[c].went /\ call'[c].by = call[c].by
              /\ call'[c].answer = call[c].answer
              /\ call[c].step # "none" => call'[c].card # "pending"
              /\ call[c].step = "none" => call'[c].card = call[c].card
<1>1. ASSUME NEW t \in Turns
      PROVE  /\ turn'[t].phase \in {"none", "done"} /\ turn'[t].mode = "manual"
             /\ ~ turn'[t].pre /\ ~ turn'[t].aborted
  BY DEF Restart, NoTurn, Ended
<1>2. ASSUME NEW c \in Calls
      PROVE  /\ call'[c].step = IF call[c].step = "none" THEN "none" ELSE "over"
             /\ call'[c].turn = call[c].turn /\ call'[c].kind = call[c].kind
             /\ call'[c].went = call[c].went /\ call'[c].by = call[c].by
             /\ call'[c].answer = call[c].answer
             /\ call[c].step # "none" => call'[c].card # "pending"
             /\ call[c].step = "none" => call'[c].card = call[c].card
  <2>1. call[c] \in CallRecord
    BY DEF Typed, CallType
  <2>2. call'[c] = IF call[c].step = "none" THEN call[c]
                   ELSE [call[c] EXCEPT !.step = "over",
                           !.card = IF call[c].card = "pending" THEN "expired" ELSE call[c].card]
    BY DEF Restart
  <2> QED
    BY <2>1, <2>2 DEF CallRecord
<1> QED
  BY <1>1, <1>2

LEMMA SwitchGives ==
  ASSUME Typed, PlanSwitch
  PROVE  /\ UNCHANGED <<chat, turn, consent>> \/ \E mode \in AllModes : Switched(mode)
         /\ chat'.there = chat.there /\ chat'.status = chat.status
         /\ \A t \in Turns :
              /\ turn'[t].phase = turn[t].phase /\ turn'[t].pre = turn[t].pre
              /\ turn'[t].aborted = turn[t].aborted /\ turn'[t].text = turn[t].text
<1>1. CASE UNCHANGED <<chat, turn, consent>>
  BY <1>1
<1>2. CASE planning.decision # "revise" /\ Switched(planning.decision)
  <2>1. planning.decision \in AllModes
    BY <1>2 DEF Typed, ChatType, AllModes
  <2> QED
    BY <1>2, <2>1, SwitchedGives
<1> QED
  BY <1>1, <1>2 DEF PlanSwitch

-----------------------------------------------------------------------------
(* One turn at a time: what is checked is inductive as it stands.           *)
LEMMA OneTurnNext ==
  ASSUME Typed, OneTurn, [Next]_vars
  PROVE  OneTurn'
<1>1. CASE StartTurn
  <2>1. OneTurn'
    BY <1>1, ReserveGives DEF StartTurn, Spend, Busy, Typed, ChatType, TurnType, Turns, OneTurn, chatVars, cardVars, wakeVars
  <2> QED
    BY <2>1 DEF OneTurn
<1>2. CASE Interrupt
  <2>1. OneTurn'
    BY <1>2 DEF Interrupt, Abort, Spend, Busy, Ended, NoTurn, Typed, ChatType, TurnType, TurnRecord, Turns, OneTurn, chatVars, cardVars, wakeVars
  <2> QED
    BY <2>1 DEF OneTurn
<1>3. CASE DeleteBegin
  <2>1. OneTurn'
    BY <1>3 DEF DeleteBegin, Spend, Busy, Ended, NoTurn, Typed, ChatType, TurnType, TurnRecord, Turns, OneTurn, chatVars, cardVars, wakeVars
  <2> QED
    BY <2>1 DEF OneTurn
<1>4. ASSUME NEW mode \in Modes, SetMode(mode)
      PROVE  OneTurn'
  <2>1. OneTurn'
    BY <1>4, SwitchedGives, AssistantAssumption DEF SetMode, Busy, OneTurn
  <2> QED
    BY <2>1 DEF OneTurn
<1>5. ASSUME NEW t \in Turns, ReadChat(t)
      PROVE  OneTurn'
  <2>1. OneTurn'
    BY <1>5 DEF ReadChat, Refuse, There, Busy, Ended, NoTurn, Typed, ChatType, TurnType, TurnRecord, Turns, OneTurn, chatVars, cardVars, wakeVars
  <2> QED
    BY <2>1 DEF OneTurn
<1>6. ASSUME NEW t \in Turns, OpenTurn(t)
      PROVE  OneTurn'
  <2>1. OneTurn'
    BY <1>6 DEF OpenTurn, Refuse, There, Busy, Ended, NoTurn, Typed, ChatType, TurnType, TurnRecord, Turns, OneTurn, chatVars, cardVars, wakeVars
  <2> QED
    BY <2>1 DEF OneTurn
<1>7. ASSUME NEW t \in Turns, Release(t)
      PROVE  OneTurn'
  <2>1. OneTurn'
    BY <1>7 DEF Release, Busy, Ended, NoTurn, Typed, ChatType, TurnType, TurnRecord, Turns, OneTurn, chatVars, cardVars, wakeVars
  <2> QED
    BY <2>1 DEF OneTurn
<1>8. ASSUME NEW t \in Turns, CloseTurn(t)
      PROVE  OneTurn'
  <2>1. OneTurn'
    BY <1>8 DEF CloseTurn, There, Busy, Ended, NoTurn, Typed, ChatType, TurnType, TurnRecord, Turns, OneTurn, chatVars, cardVars, wakeVars
  <2> QED
    BY <2>1 DEF OneTurn
<1>9. ASSUME NEW t \in Turns, TimeOut(t)
      PROVE  OneTurn'
  <2>1. OneTurn'
    BY <1>9 DEF TimeOut, Abort, Busy, Ended, NoTurn, Typed, ChatType, TurnType, TurnRecord, Turns, OneTurn, chatVars, cardVars, wakeVars
  <2> QED
    BY <2>1 DEF OneTurn
<1>10. ASSUME NEW t \in Turns, EndTurn(t)
      PROVE  OneTurn'
  <2>1. OneTurn'
    BY <1>10 DEF EndTurn, Busy, Ended, NoTurn, Typed, ChatType, TurnType, TurnRecord, Turns, OneTurn, chatVars, cardVars, wakeVars
  <2> QED
    BY <2>1 DEF OneTurn
<1>11. ASSUME NEW d \in deciding, DecideApply(d)
      PROVE  OneTurn'
  <2>1. OneTurn'
    BY <1>11, ApplyGives DEF DecideApply, Busy, There, Waiting, Typed, ChatType, TurnType, Turns, OneTurn, chatVars, cardVars, wakeVars
  <2> QED
    BY <2>1 DEF OneTurn
<1>12. CASE PlanSwitch
  <2>1. OneTurn'
    BY <1>12, SwitchGives DEF PlanSwitch, Busy, OneTurn
  <2> QED
    BY <2>1 DEF OneTurn
<1>13. CASE PlanStart
  <2>1. OneTurn'
    <3>1. CASE active = 0
      <4>1. Reserve("user", None)
        BY <1>13, <3>1 DEF PlanStart
      <4>2. chat.there = "yes" => Busy = {}
        BY <3>1 DEF OneTurn, Busy, Turns
      <4> QED
        BY <1>13, <4>1, <4>2, ReserveGives DEF PlanStart, Busy, OneTurn
    <3>2. CASE active # 0
      BY <1>13, <3>2 DEF PlanStart, Busy, OneTurn
    <3> QED
      BY <3>1, <3>2
  <2> QED
    BY <2>1 DEF OneTurn
<1>14. ASSUME NEW x \in Texts, WakeStart(x)
      PROVE  OneTurn'
  <2>1. OneTurn'
    <3>1. CASE active = 0
      <4>1. Reserve("wake", x)
        BY <1>14, <3>1 DEF WakeStart
      <4>2. chat.there = "yes" => Busy = {}
        BY <3>1 DEF OneTurn, Busy, Turns
      <4> QED
        BY <1>14, <4>1, <4>2, ReserveGives DEF WakeStart, Busy, OneTurn
    <3>2. CASE active # 0
      BY <1>14, <3>2 DEF WakeStart, Busy, OneTurn
    <3> QED
      BY <3>1, <3>2
  <2> QED
    BY <2>1 DEF OneTurn
<1>15. CASE DeleteEnd
  <2>1. OneTurn'
    BY <1>15 DEF DeleteEnd, Busy, Typed, ChatType, TurnType, TurnRecord, Turns, OneTurn, chatVars, cardVars, wakeVars
  <2> QED
    BY <2>1 DEF OneTurn
<1>16. ASSUME NEW t \in Turns, RefuseTurn(t)
      PROVE  OneTurn'
  <2>1. OneTurn'
    BY <1>16 DEF RefuseTurn, Refuse, Busy, Ended, NoTurn, Typed, ChatType, TurnType, TurnRecord, Turns, OneTurn, chatVars, cardVars, wakeVars
  <2> QED
    BY <2>1 DEF OneTurn
<1>17. ASSUME NEW t \in Turns, PresentPlan(t)
      PROVE  OneTurn'
  <2>1. OneTurn'
    BY <1>17 DEF PresentPlan, Busy, Ended, NoTurn, Typed, ChatType, TurnType, TurnRecord, Turns, OneTurn, chatVars, cardVars, wakeVars
  <2> QED
    BY <2>1 DEF OneTurn
<1>18. CASE Restart
  <2>1. OneTurn'
    BY <1>18, RestartGives DEF Restart, Spend, Busy, Typed, ChatType, TurnType, Turns, OneTurn, chatVars, cardVars, wakeVars
  <2> QED
    BY <2>1 DEF OneTurn
<1>19. CASE Watch
  BY <1>19 DEF Watch, Spend, OneTurn, chatVars, cardVars, wakeVars, Busy
<1>20. CASE Unwatch
  BY <1>20 DEF Unwatch, Spend, OneTurn, chatVars, cardVars, wakeVars, Busy
<1>21. ASSUME NEW c \in Calls, NEW answer \in Answers, DecideRead(c, answer)
      PROVE  OneTurn'
  BY <1>21 DEF DecideRead, OneTurn, chatVars, cardVars, wakeVars, Busy
<1>22. ASSUME NEW decision \in {"auto", "manual", "revise"}, PlanRead(decision)
      PROVE  OneTurn'
  BY <1>22 DEF PlanRead, Spend, OneTurn, chatVars, cardVars, wakeVars, Busy
<1>23. ASSUME NEW c \in Calls, CardWritten(c)
      PROVE  OneTurn'
  BY <1>23 DEF CardWritten, OneTurn, chatVars, cardVars, wakeVars, Busy
<1>24. ASSUME NEW c \in Calls, RowExpired(c)
      PROVE  OneTurn'
  BY <1>24 DEF RowExpired, OneTurn, chatVars, cardVars, wakeVars, Busy
<1>25. ASSUME NEW c \in Calls, ExpireCard(c)
      PROVE  OneTurn'
  BY <1>25 DEF ExpireCard, OneTurn, chatVars, cardVars, wakeVars, Busy
<1>26. ASSUME NEW d \in deciding, DecideWrite(d)
      PROVE  OneTurn'
  BY <1>26 DEF DecideWrite, OneTurn, chatVars, cardVars, wakeVars, Busy
<1>27. CASE PlanWrite
  BY <1>27 DEF PlanWrite, OneTurn, chatVars, cardVars, wakeVars, Busy
<1>28. CASE Handle
  BY <1>28 DEF Handle, OneTurn, chatVars, cardVars, wakeVars, Busy
<1>29. ASSUME NEW x \in Texts, WakeCheck(x)
      PROVE  OneTurn'
  BY <1>29 DEF WakeCheck, OneTurn, chatVars, cardVars, wakeVars, Busy
<1>30. ASSUME NEW t \in Turns, NEW c \in Calls, NEW kind \in Kinds, CallTool(t, c, kind)
      PROVE  OneTurn'
  BY <1>30 DEF CallTool, Spend, OneTurn, chatVars, cardVars, wakeVars, Busy
<1>31. ASSUME NEW kind \in {"wakes", "final"}, Notify(kind)
      PROVE  OneTurn'
  BY <1>31 DEF Notify, Spend, OneTurn, chatVars, cardVars, wakeVars, Busy
<1>32. CASE UNCHANGED vars
  BY <1>32 DEF OneTurn, vars, chatVars, cardVars, wakeVars, Busy
<1> QED
  BY <1>1, <1>2, <1>3, <1>4, <1>5, <1>6, <1>7, <1>8, <1>9, <1>10, <1>11, <1>12, <1>13, <1>14, <1>15, <1>16, <1>17, <1>18, <1>19, <1>20, <1>21, <1>22, <1>23, <1>24, <1>25, <1>26, <1>27, <1>28, <1>29, <1>30, <1>31, <1>32
  DEF Next, User, Internal, Outside, Turning, Stopping, Carding, Waking

LEMMA OneTurnInit == Init => OneTurn
BY DEF Init, OneTurn, Busy, NoTurn

(* While the chat is there, every turn under way is the one that holds the   *)
(* slot: messages, decided plans and wakes never make two.                  *)
THEOREM OneTurnAlways == Spec => []OneTurn
<1>1. Init => Typed /\ OneTurn
  BY TypedInit, OneTurnInit
<1>2. Typed /\ OneTurn /\ [Next]_vars => (Typed /\ OneTurn)'
  BY TypedNext, OneTurnNext
<1>3. OneTurn => OneTurn
  OBVIOUS
<1> QED
  BY <1>1, <1>2, <1>3, PTL DEF Spec

-----------------------------------------------------------------------------
(* Consent: a change without a card of its own goes by the mode or the yes  *)
(* of its turn.  So a turn in Auto is one of a chat in Auto, or one that     *)
(* missed the switch; a turn that need not ask was told so on a card, its    *)
(* own or an earlier turn's; and an answer on its way to the turn has been   *)
(* noted for the turn it was given in, whose call it still finds.            *)
ModeAgreed == \A t \in Turns : turn[t].mode = "auto" => InAuto(t)
TurnAgreed == \A t \in Turns : turn[t].pre => ForItsRest(t)
CallsHaveTurns == \A c \in Calls : call[c].step # "none" => call[c].turn \in Turns
AnswerAgreed ==
  \A d \in deciding :
    /\ call[d.call].step # "none"
    /\ call[d.call].kind = "uncertain" => d.answer \in {"yes", "no"}
    /\ d.step = "written" /\ d.answer = "yes_turn" => "rest" \in consent[call[d.call].turn]

Agreed == ModeAgreed /\ TurnAgreed /\ CallsHaveTurns /\ AnswerAgreed

(* What most steps leave as it is: the calls but for their cards, what the   *)
(* turns may do, and what has been agreed to.                                *)
CallsKept ==
  \A c \in Calls :
    /\ call'[c].turn = call[c].turn /\ call'[c].kind = call[c].kind
    /\ call'[c].went = call[c].went
    /\ call'[c].step = "none" <=> call[c].step = "none"
Grows == \A t \in Turns : consent[t] \subseteq consent'[t]
Quiet == CallsKept /\ deciding' \subseteq deciding /\ Grows
ModesKept ==
  /\ chat'.mode = chat.mode
  /\ \A t \in Turns :
       /\ turn'[t].mode = "auto" => turn[t].mode = "auto" \/ chat.mode = "auto"
       /\ turn'[t].pre => turn[t].pre

LEMMA ExpiredKept ==
  ASSUME Typed, NEW cs, cs \subseteq Waiting, ExpireIn(cs)
  PROVE  CallsKept
<1>1. ASSUME NEW c \in Calls
      PROVE  /\ call'[c].turn = call[c].turn /\ call'[c].kind = call[c].kind
             /\ call'[c].went = call[c].went
             /\ call'[c].step = "none" <=> call[c].step = "none"
  <2>1. call[c] \in CallRecord
    BY DEF Typed, CallType
  <2>2. \/ call'[c] = call[c]
        \/ call'[c] = [call[c] EXCEPT !.step = "expired"] /\ call[c].step = "waiting"
    BY DEF ExpireIn, Waiting
  <2> QED
    BY <2>1, <2>2 DEF CallRecord
<1> QED
  BY <1>1 DEF CallsKept

LEMMA SwitchedGrows ==
  ASSUME Typed, NEW mode \in AllModes, Switched(mode)
  PROVE  Grows
BY DEF Switched, Grows, Typed, CallType

(* No step forgets what was agreed to. *)
LEMMA GrantGrows ==
  ASSUME Typed, NEW d \in deciding, GrantRest(d) \/ DecideApply(d)
  PROVE  Grows
<1>1. consent \in [Turns -> SUBSET Grants]
  BY DEF Typed, CallType
<1>2. CASE GrantRest(d)
  BY <1>1, <1>2 DEF GrantRest, Grows
<1>3. CASE DecideApply(d)
  BY <1>1, <1>3 DEF DecideApply, Grows
<1> QED
  BY <1>2, <1>3

LEMMA CardsNext ==
  ASSUME Typed, [Next]_vars
  PROVE  \/ Quiet
         \/ \E c \in Calls, answer \in Answers : DecideRead(c, answer)
         \/ \E d \in deciding : DecideWrite(d) \/ DecideApply(d)
         \/ \E t \in Turns, c \in Calls, kind \in Kinds : CallTool(t, c, kind)
<1>1. CASE StartTurn
  BY <1>1 DEF StartTurn, Quiet, Grows, CallsKept, cardVars
<1>2. CASE Watch
  BY <1>2 DEF Watch, Quiet, Grows, CallsKept, cardVars
<1>3. CASE Unwatch
  BY <1>3 DEF Unwatch, Quiet, Grows, CallsKept, cardVars
<1>4. ASSUME NEW decision \in {"auto", "manual", "revise"}, PlanRead(decision)
      PROVE  Quiet
  BY <1>4 DEF PlanRead, Quiet, Grows, CallsKept, cardVars
<1>5. ASSUME NEW t \in Turns, ReadChat(t)
      PROVE  Quiet
  BY <1>5 DEF ReadChat, Quiet, Grows, CallsKept, cardVars
<1>6. ASSUME NEW t \in Turns, OpenTurn(t)
      PROVE  Quiet
  BY <1>6 DEF OpenTurn, Quiet, Grows, CallsKept, cardVars
<1>7. ASSUME NEW t \in Turns, Release(t)
      PROVE  Quiet
  BY <1>7 DEF Release, Quiet, Grows, CallsKept, cardVars
<1>8. ASSUME NEW t \in Turns, CloseTurn(t)
      PROVE  Quiet
  BY <1>8 DEF CloseTurn, Quiet, Grows, CallsKept, cardVars
<1>9. ASSUME NEW t \in Turns, RefuseTurn(t)
      PROVE  Quiet
  BY <1>9 DEF RefuseTurn, Quiet, Grows, CallsKept, cardVars
<1>10. ASSUME NEW t \in Turns, PresentPlan(t)
      PROVE  Quiet
  BY <1>10 DEF PresentPlan, Quiet, Grows, CallsKept, cardVars
<1>11. CASE PlanWrite
  BY <1>11 DEF PlanWrite, Quiet, Grows, CallsKept, cardVars
<1>12. CASE PlanStart
  BY <1>12 DEF PlanStart, Quiet, Grows, CallsKept, cardVars
<1>13. CASE Handle
  BY <1>13 DEF Handle, Quiet, Grows, CallsKept, cardVars
<1>14. ASSUME NEW x \in Texts, WakeCheck(x)
      PROVE  Quiet
  BY <1>14 DEF WakeCheck, Quiet, Grows, CallsKept, cardVars
<1>15. ASSUME NEW x \in Texts, WakeStart(x)
      PROVE  Quiet
  BY <1>15 DEF WakeStart, Quiet, Grows, CallsKept, cardVars
<1>16. ASSUME NEW kind \in {"wakes", "final"}, Notify(kind)
      PROVE  Quiet
  BY <1>16 DEF Notify, Quiet, Grows, CallsKept, cardVars
<1>17. CASE Interrupt
  BY <1>17, ExpiredKept DEF Interrupt, Abort, Quiet, Grows, Waiting
<1>18. CASE DeleteBegin
  BY <1>18, ExpiredKept DEF DeleteBegin, Quiet, Grows, Waiting
<1>19. ASSUME NEW t \in Turns, TimeOut(t)
      PROVE  Quiet
  BY <1>19, ExpiredKept DEF TimeOut, Abort, Quiet, Grows, Waiting
<1>20. ASSUME NEW t \in Turns, EndTurn(t)
      PROVE  Quiet
  BY <1>20, ExpiredKept DEF EndTurn, Quiet, Grows, Waiting
<1>21. ASSUME NEW c \in Calls, ExpireCard(c)
      PROVE  Quiet
  BY <1>21, ExpiredKept DEF ExpireCard, Quiet, Grows, Waiting
<1>22. ASSUME NEW mode \in Modes, SetMode(mode)
      PROVE  Quiet
  BY <1>22, SwitchedGrows, AssistantAssumption DEF SetMode, Quiet, Grows, CallsKept
<1>23. CASE PlanSwitch
  BY <1>23, SwitchGives, SwitchedGrows DEF PlanSwitch, Quiet, Grows, CallsKept
<1>24. ASSUME NEW c \in Calls, CardWritten(c)
      PROVE  Quiet
  <2>1. call[c] \in CallRecord /\ call'[c] = [call[c] EXCEPT !.step = call'[c].step, !.answer = call'[c].answer,
                                                         !.card = call'[c].card]
    BY <1>24 DEF CardWritten, Typed, CallType, CallRecord
  <2>2. \A e \in Calls : e # c => call'[e] = call[e]
    BY <1>24 DEF CardWritten, Typed, CallType
  <2>3. call[c].step # "none" /\ call'[c].step # "none"
    BY <1>24 DEF CardWritten, Typed, CallType, CallRecord
  <2> QED
    BY <1>24, <2>1, <2>2, <2>3 DEF CardWritten, Quiet, Grows, CallsKept, CallRecord
<1>25. ASSUME NEW c \in Calls, RowExpired(c)
      PROVE  Quiet
  <2>1. call[c] \in CallRecord /\ call'[c] = [call[c] EXCEPT !.step = call'[c].step, !.answer = call'[c].answer,
                                                         !.card = call'[c].card]
    BY <1>25 DEF RowExpired, Typed, CallType, CallRecord
  <2>2. \A e \in Calls : e # c => call'[e] = call[e]
    BY <1>25 DEF RowExpired, Typed, CallType
  <2>3. call[c].step # "none" /\ call'[c].step # "none"
    BY <1>25 DEF RowExpired, Typed, CallType, CallRecord
  <2> QED
    BY <1>25, <2>1, <2>2, <2>3 DEF RowExpired, Quiet, Grows, CallsKept, CallRecord
<1>26. CASE DeleteEnd
  <2>1. ASSUME NEW c \in Calls
        PROVE  call[c] \in CallRecord /\ call'[c] = [call[c] EXCEPT !.card = "none"]
    BY <1>26 DEF DeleteEnd, Typed, CallType
  <2> QED
    BY <1>26, <2>1 DEF DeleteEnd, Quiet, Grows, CallsKept, CallRecord
<1>27. CASE Restart
  <2>1. CallsKept
    BY <1>27, RestartGives DEF CallsKept
  <2>2. deciding' = {} /\ consent' = consent
    BY <1>27 DEF Restart
  <2> QED
    BY <2>1, <2>2 DEF Quiet, Grows
<1>28. CASE UNCHANGED vars
  BY <1>28 DEF vars, Quiet, Grows, CallsKept, cardVars
<1> QED
  BY <1>1, <1>2, <1>3, <1>4, <1>5, <1>6, <1>7, <1>8, <1>9, <1>10, <1>11, <1>12, <1>13, <1>14, <1>15, <1>16, <1>17, <1>18, <1>19, <1>20, <1>21, <1>22, <1>23, <1>24, <1>25, <1>26, <1>27, <1>28
  DEF Next, User, Internal, Outside, Turning, Stopping, Carding, Waking

LEMMA ModesNext ==
  ASSUME Typed, [Next]_vars
  PROVE  \/ ModesKept
         \/ \E mode \in AllModes : Switched(mode)
         \/ \E d \in deciding : DecideApply(d)
<1>1. CASE StartTurn
  <2>1. chat' = chat /\ (turn' = turn \/ \E by \in {"user", "wake"}, text \in Texts \cup {None} : Reserve(by, text))
    BY <1>1 DEF StartTurn
  <2> QED
    BY <2>1, ReserveGives DEF ModesKept
<1>2. CASE PlanStart
  <2>1. chat' = chat /\ (turn' = turn \/ \E by \in {"user", "wake"}, text \in Texts \cup {None} : Reserve(by, text))
    BY <1>2 DEF PlanStart
  <2> QED
    BY <2>1, ReserveGives DEF ModesKept
<1>3. ASSUME NEW x \in Texts, WakeStart(x)
      PROVE  ModesKept
  <2>1. chat' = chat /\ (turn' = turn \/ \E by \in {"user", "wake"}, text \in Texts \cup {None} : Reserve(by, text))
    BY <1>3 DEF WakeStart
  <2> QED
    BY <2>1, ReserveGives DEF ModesKept
<1>4. CASE Interrupt
  BY <1>4 DEF Interrupt, Abort, ModesKept, Ended, NoTurn, Typed, ChatType, TurnType, TurnRecord
<1>5. CASE DeleteBegin
  BY <1>5 DEF DeleteBegin, ModesKept, Ended, NoTurn, Typed, ChatType, TurnType, TurnRecord
<1>6. ASSUME NEW t \in Turns, TimeOut(t)
      PROVE  ModesKept
  BY <1>6 DEF TimeOut, Abort, ModesKept, Ended, NoTurn, Typed, ChatType, TurnType, TurnRecord
<1>7. ASSUME NEW t \in Turns, EndTurn(t)
      PROVE  ModesKept
  BY <1>7 DEF EndTurn, ModesKept, Ended, NoTurn, Typed, ChatType, TurnType, TurnRecord
<1>8. ASSUME NEW t \in Turns, ReadChat(t)
      PROVE  ModesKept
  BY <1>8 DEF ReadChat, Refuse, There, ModesKept, Ended, NoTurn, Typed, ChatType, TurnType, TurnRecord
<1>9. ASSUME NEW t \in Turns, OpenTurn(t)
      PROVE  ModesKept
  BY <1>9 DEF OpenTurn, Refuse, There, ModesKept, Ended, NoTurn, Typed, ChatType, TurnType, TurnRecord
<1>10. ASSUME NEW t \in Turns, RefuseTurn(t)
      PROVE  ModesKept
  BY <1>10 DEF RefuseTurn, Refuse, There, ModesKept, Ended, NoTurn, Typed, ChatType, TurnType, TurnRecord
<1>11. ASSUME NEW t \in Turns, Release(t)
      PROVE  ModesKept
  BY <1>11 DEF Release, ModesKept, Ended, NoTurn, Typed, ChatType, TurnType, TurnRecord
<1>12. ASSUME NEW t \in Turns, CloseTurn(t)
      PROVE  ModesKept
  BY <1>12 DEF CloseTurn, Refuse, There, ModesKept, Ended, NoTurn, Typed, ChatType, TurnType, TurnRecord
<1>13. ASSUME NEW t \in Turns, PresentPlan(t)
      PROVE  ModesKept
  BY <1>13 DEF PresentPlan, ModesKept, Ended, NoTurn, Typed, ChatType, TurnType, TurnRecord
<1>14. CASE DeleteEnd
  BY <1>14 DEF DeleteEnd, ModesKept, Typed, ChatType
<1>15. CASE Restart
  BY <1>15, RestartGives DEF Restart, ModesKept, Typed, ChatType
<1>16. ASSUME NEW mode \in Modes, SetMode(mode)
      PROVE  \E m \in AllModes : Switched(m)
  BY <1>16, AssistantAssumption DEF SetMode
<1>17. ASSUME PlanSwitch
      PROVE  ModesKept \/ \E m \in AllModes : Switched(m)
  BY <1>17, SwitchGives DEF ModesKept
<1>18. CASE Watch
  BY <1>18 DEF Watch, ModesKept, chatVars
<1>19. CASE Unwatch
  BY <1>19 DEF Unwatch, ModesKept, chatVars
<1>20. ASSUME NEW decision \in {"auto", "manual", "revise"}, PlanRead(decision)
      PROVE  ModesKept
  BY <1>20 DEF PlanRead, ModesKept, chatVars
<1>21. ASSUME NEW c \in Calls, NEW answer \in Answers, DecideRead(c, answer)
      PROVE  ModesKept
  BY <1>21 DEF DecideRead, ModesKept, chatVars
<1>22. ASSUME NEW c \in Calls, CardWritten(c)
      PROVE  ModesKept
  BY <1>22 DEF CardWritten, ModesKept, chatVars
<1>23. ASSUME NEW c \in Calls, RowExpired(c)
      PROVE  ModesKept
  BY <1>23 DEF RowExpired, ModesKept, chatVars
<1>24. ASSUME NEW c \in Calls, ExpireCard(c)
      PROVE  ModesKept
  BY <1>24 DEF ExpireCard, ModesKept, chatVars
<1>25. ASSUME NEW d \in deciding, DecideWrite(d)
      PROVE  ModesKept
  BY <1>25 DEF DecideWrite, ModesKept, chatVars
<1>26. CASE PlanWrite
  BY <1>26 DEF PlanWrite, ModesKept, chatVars
<1>27. CASE Handle
  BY <1>27 DEF Handle, ModesKept, chatVars
<1>28. ASSUME NEW x \in Texts, WakeCheck(x)
      PROVE  ModesKept
  BY <1>28 DEF WakeCheck, ModesKept, chatVars
<1>29. ASSUME NEW t \in Turns, NEW c \in Calls, NEW kind \in Kinds, CallTool(t, c, kind)
      PROVE  ModesKept
  BY <1>29 DEF CallTool, ModesKept, chatVars
<1>30. ASSUME NEW kind \in {"wakes", "final"}, Notify(kind)
      PROVE  ModesKept
  BY <1>30 DEF Notify, ModesKept, chatVars
<1>31. CASE UNCHANGED vars
  BY <1>31 DEF vars, ModesKept, chatVars
<1> QED
  BY <1>1, <1>2, <1>3, <1>4, <1>5, <1>6, <1>7, <1>8, <1>9, <1>10, <1>11, <1>12, <1>13, <1>14, <1>15, <1>16, <1>17, <1>18, <1>19, <1>20, <1>21, <1>22, <1>23, <1>24, <1>25, <1>26, <1>27, <1>28, <1>29, <1>30, <1>31
  DEF Next, User, Internal, Outside, Turning, Stopping, Carding, Waking

LEMMA GrowsNext ==
  ASSUME Typed, [Next]_vars
  PROVE  Grows
<1>1. CASE Quiet
  BY <1>1 DEF Quiet
<1>2. ASSUME NEW c \in Calls, NEW answer \in Answers, DecideRead(c, answer)
      PROVE  Grows
  BY <1>2 DEF DecideRead, Grows
<1>3. ASSUME NEW d \in deciding, DecideWrite(d)
      PROVE  Grows
  BY <1>3, GrantGrows DEF DecideWrite, Grows
<1>4. ASSUME NEW d \in deciding, DecideApply(d)
      PROVE  Grows
  BY <1>4, GrantGrows
<1>5. ASSUME NEW t \in Turns, NEW c \in Calls, NEW kind \in Kinds, CallTool(t, c, kind)
      PROVE  Grows
  BY <1>5 DEF CallTool, Grows
<1> QED
  BY <1>1, <1>2, <1>3, <1>4, <1>5, CardsNext

(* The call of a tool is the one step that makes a call, and of those that  *)
(* are there it changes nothing.                                            *)
LEMMA CallGives ==
  ASSUME Typed, NEW t \in Turns, NEW c \in Calls, NEW kind \in Kinds, CallTool(t, c, kind)
  PROVE  /\ call[c].step = "none" /\ call'[c].step # "none"
         /\ call'[c].turn = t /\ call'[c].kind = kind
         /\ call'[c].went => Right(t, kind) # "none"
         /\ \A e \in Calls : e # c => call'[e] = call[e]
<1>1. call[c].step = "none"
  BY DEF CallTool
<1>2. \A e \in Calls : e # c => call'[e] = call[e]
  BY DEF CallTool, Typed, CallType
<1>3. /\ call'[c].step # "none" /\ call'[c].turn = t /\ call'[c].kind = kind
      /\ call'[c].went => Right(t, kind) # "none"
  BY DEF CallTool, NoCall, Typed, CallType
<1> QED
  BY <1>1, <1>2, <1>3

(* An answer that arrives changes the call it was given to, and makes the   *)
(* change of a card still waited on.                                        *)
LEMMA AnswerGives ==
  ASSUME Typed, NEW d \in deciding, DecideApply(d)
  PROVE  /\ \A c \in Calls :
              /\ call'[c].turn = call[c].turn /\ call'[c].kind = call[c].kind
              /\ call'[c].step = "none" <=> call[c].step = "none"
              /\ ~ call[c].went /\ call'[c].went =>
                   c = d.call /\ c \in Waiting /\ GoesAhead(d.answer)
         /\ d.step = "written" /\ deciding' = deciding \ {d}
<1>1. ASSUME NEW c \in Calls
      PROVE  /\ call'[c].turn = call[c].turn /\ call'[c].kind = call[c].kind
             /\ call'[c].step = "none" <=> call[c].step = "none"
             /\ ~ call[c].went /\ call'[c].went =>
                  c = d.call /\ c \in Waiting /\ GoesAhead(d.answer)
  <2>1. call[c] \in CallRecord
    BY DEF Typed, CallType
  <2>2. \/ call'[c] = call[c]
        \/ /\ c = d.call /\ c \in Waiting
           /\ call'[c] = [call[c] EXCEPT !.step = "over", !.answer = d.answer, !.by = "card",
                                         !.went = GoesAhead(d.answer)]
    BY DEF DecideApply, Typed, CallType
  <2> QED
    BY <2>1, <2>2 DEF CallRecord, Waiting
<1> QED
  BY <1>1 DEF DecideApply

(* An answer that is stored is noted for the turn of its card. *)
LEMMA WriteGives ==
  ASSUME Typed, NEW d \in deciding, DecideWrite(d)
  PROVE  /\ CallsKept
         /\ \A e \in deciding' :
              \/ e \in deciding
              \/ /\ e.call = d.call /\ e.answer = d.answer
                 /\ GrantRest(d)
<1>1. ASSUME NEW c \in Calls
      PROVE  /\ call'[c].turn = call[c].turn /\ call'[c].kind = call[c].kind
             /\ call'[c].went = call[c].went /\ call'[c].step = call[c].step
  <2>1. call[c] \in CallRecord
    BY DEF Typed, CallType
  <2>2. call'[c] = call[c] \/ call'[c] = [call[c] EXCEPT !.card = call'[c].card]
    BY DEF DecideWrite, Typed, CallType, CallRecord
  <2> QED
    BY <2>1, <2>2 DEF CallRecord
<1>2. ASSUME NEW e \in deciding'
      PROVE  e \in deciding \/ (e.call = d.call /\ e.answer = d.answer /\ GrantRest(d))
  <2>1. d \in [call : Calls, answer : AllAnswers, step : {"read", "written"}]
    BY DEF Typed, CallType
  <2>2. e \in deciding \/ (e = [d EXCEPT !.step = "written"] /\ GrantRest(d))
    BY DEF DecideWrite
  <2> QED
    BY <2>1, <2>2
<1> QED
  BY <1>1, <1>2 DEF CallsKept

LEMMA AgreedNext ==
  ASSUME Typed, Agreed, [Next]_vars
  PROVE  Agreed'
<1> USE GrowsNext
<1>1. /\ \A d \in deciding : d.call \in Calls
      /\ consent \in [Turns -> SUBSET Grants] /\ consent' \in [Turns -> SUBSET Grants]
  BY TypedNext DEF Typed, CallType
<1>2. ModeAgreed' /\ TurnAgreed'
  <2>1. CASE ModesKept
    BY <2>1 DEF ModesKept, Grows, Agreed, ModeAgreed, TurnAgreed, InAuto, ForItsRest
  <2>2. ASSUME NEW mode \in AllModes, Switched(mode)
        PROVE  ModeAgreed' /\ TurnAgreed'
    <3>1. TurnAgreed'
      BY <2>2, SwitchedGives DEF Grows, Agreed, TurnAgreed, ForItsRest
    <3>2. CASE mode = "auto"
      BY <2>2, <3>1, <3>2, SwitchedGives DEF ModeAgreed, InAuto
    <3>3. CASE mode # "auto"
      <4>1. ASSUME NEW t \in Turns, turn'[t].mode = "auto"
            PROVE  InAuto(t)'
        <5>1. context \in {0} \cup Turns /\ 0 \notin Turns /\ turn \in [Turns -> TurnRecord]
          BY DEF Typed, TurnType, Turns
        <5>2. t = context => turn'[t].mode = mode
          BY <2>2, <5>1 DEF Switched, TurnRecord
        <5>3. t # context => turn'[t] = turn[t]
          BY <2>2, <5>1 DEF Switched
        <5>4. "missed" \in consent'[t]
          BY <2>2, <3>3, <4>1, <5>2, <5>3 DEF Switched
        <5> QED
          BY <5>4 DEF InAuto
      <4> QED
        BY <3>1, <4>1 DEF ModeAgreed
    <3> QED
      BY <3>2, <3>3
  <2>3. ASSUME NEW d \in deciding, DecideApply(d)
        PROVE  ModeAgreed' /\ TurnAgreed'
    <3>1. ModeAgreed'
      <4>1. \A t \in Turns : turn'[t].mode = turn[t].mode \/ chat'.mode = "auto"
        BY <2>3 DEF DecideApply, Typed, TurnType, TurnRecord, ChatType
      <4> QED
        BY <2>3, <4>1, ApplyGives DEF Grows, Agreed, ModeAgreed, InAuto
    <3>2. ASSUME NEW t \in Turns, turn'[t].pre
          PROVE  ForItsRest(t)'
      <4>1. CASE turn[t].pre
        BY <4>1 DEF Grows, Agreed, TurnAgreed, ForItsRest
      <4>2. CASE ~ turn[t].pre
        <5>1. d.answer = "yes_turn" /\ t = context /\ d.step = "written"
          BY <2>3, <3>2, <4>2 DEF DecideApply, Typed, TurnType, TurnRecord
        <5>2. CASE context = call[d.call].turn
          BY <5>1, <5>2 DEF Grows, Agreed, AnswerAgreed, ForItsRest
        <5>3. CASE context # call[d.call].turn
          <6>1. consent' = [consent EXCEPT ![context] = @ \cup {"stray"}]
            BY <2>3, <5>1, <5>3 DEF DecideApply, Turns
          <6> QED
            BY <1>1, <5>1, <6>1 DEF ForItsRest
        <5> QED
          BY <5>2, <5>3
      <4> QED
        BY <4>1, <4>2
    <3> QED
      BY <3>1, <3>2 DEF TurnAgreed
  <2> QED
    BY <2>1, <2>2, <2>3, ModesNext
<1>3. CallsHaveTurns' /\ AnswerAgreed'
  <2>1. CASE Quiet
    BY <1>1, <2>1 DEF Quiet, CallsKept, Grows, Agreed, CallsHaveTurns, AnswerAgreed
  <2>2. ASSUME NEW c \in Calls, NEW answer \in Answers, DecideRead(c, answer)
        PROVE  CallsHaveTurns' /\ AnswerAgreed'
    BY <1>1, <2>2 DEF DecideRead, Waiting, Agreed, CallsHaveTurns, AnswerAgreed
  <2>3. ASSUME NEW d \in deciding, DecideWrite(d)
        PROVE  CallsHaveTurns' /\ AnswerAgreed'
    <3>1. CallsHaveTurns'
      BY <2>3, WriteGives DEF CallsKept, Agreed, CallsHaveTurns
    <3>2. GrantRest(d) /\ d.answer = "yes_turn" => "rest" \in consent'[call[d.call].turn]
      <4>1. call[d.call].turn \in Turns
        BY <1>1 DEF Agreed, CallsHaveTurns, AnswerAgreed
      <4> QED
        BY <1>1, <4>1 DEF GrantRest
    <3>3. ASSUME NEW e \in deciding'
          PROVE  /\ call'[e.call].step # "none"
                 /\ call'[e.call].kind = "uncertain" => e.answer \in {"yes", "no"}
                 /\ e.step = "written" /\ e.answer = "yes_turn" =>
                      "rest" \in consent'[call'[e.call].turn]
      <4>1. CASE e \in deciding
        BY <1>1, <2>3, <4>1, WriteGives DEF CallsKept, Grows, Agreed, CallsHaveTurns, AnswerAgreed
      <4>2. CASE e.call = d.call /\ e.answer = d.answer /\ GrantRest(d)
        BY <1>1, <2>3, <3>2, <4>2, WriteGives DEF CallsKept, Agreed, AnswerAgreed
      <4> QED
        BY <2>3, <4>1, <4>2, WriteGives
    <3> QED
      BY <3>1, <3>3 DEF AnswerAgreed
  <2>4. ASSUME NEW d \in deciding, DecideApply(d)
        PROVE  CallsHaveTurns' /\ AnswerAgreed'
    BY <1>1, <2>4, AnswerGives DEF Grows, Agreed, CallsHaveTurns, AnswerAgreed
  <2>5. ASSUME NEW t \in Turns, NEW c \in Calls, NEW kind \in Kinds, CallTool(t, c, kind)
        PROVE  CallsHaveTurns' /\ AnswerAgreed'
    <3>1. deciding' = deciding
      BY <2>5 DEF CallTool
    <3> QED
      BY <1>1, <2>5, <3>1, CallGives DEF Grows, Agreed, CallsHaveTurns, AnswerAgreed
  <2> QED
    BY <2>1, <2>2, <2>3, <2>4, <2>5, CardsNext
<1> QED
  BY <1>2, <1>3 DEF Agreed

LEMMA AgreedInit == Init => Agreed
BY DEF Init, Agreed, ModeAgreed, TurnAgreed, CallsHaveTurns, AnswerAgreed, NoTurn, NoCall

(* A change that is made is one the user agreed to. *)
LEMMA MadeAgreed ==
  ASSUME Typed, Agreed, [Next]_vars, NEW c \in Calls, ~ call[c].went, call'[c].went
  PROVE  \/ OnItsCard(c)
         \/ call'[c].kind # "uncertain" /\ InAuto(call'[c].turn)
         \/ call'[c].kind = "change" /\ ForItsRest(call'[c].turn)
<1>1. CASE Quiet
  BY <1>1 DEF Quiet, CallsKept
<1>2. ASSUME NEW e \in Calls, NEW answer \in Answers, DecideRead(e, answer)
      PROVE  FALSE
  BY <1>2 DEF DecideRead
<1>3. ASSUME NEW d \in deciding, DecideWrite(d)
      PROVE  FALSE
  BY <1>3, WriteGives DEF CallsKept
<1>4. ASSUME NEW d \in deciding, DecideApply(d)
      PROVE  OnItsCard(c)
  <2>1. c = d.call /\ c \in Waiting /\ GoesAhead(d.answer) /\ d.step = "written"
        /\ deciding' = deciding \ {d}
    BY <1>4, AnswerGives
  <2>2. call[c].kind = "uncertain" => d.answer = "yes"
    BY <2>1 DEF Agreed, AnswerAgreed, GoesAhead
  <2> QED
    BY <2>1, <2>2 DEF OnItsCard
<1>5. ASSUME NEW t \in Turns, NEW e \in Calls, NEW kind \in Kinds, CallTool(t, e, kind)
      PROVE  \/ call'[c].kind # "uncertain" /\ InAuto(call'[c].turn)
             \/ call'[c].kind = "change" /\ ForItsRest(call'[c].turn)
  <2>1. c = e /\ call'[c].turn = t /\ call'[c].kind = kind /\ Right(t, kind) # "none"
    BY <1>5, CallGives
  <2> QED
    BY <2>1 DEF Right, Agreed, ModeAgreed, TurnAgreed
<1> QED
  BY <1>1, <1>2, <1>3, <1>4, <1>5, CardsNext

(* What the chat changes, the user agrees to: on a card that is waited on,  *)
(* by a chat in Auto at that moment, or by a yes to the rest of that turn,  *)
(* each with the kinds of change it covers.                                 *)
THEOREM ConsentBeforeChange == Spec => ConsentFirst
<1>1. Init => Typed /\ Agreed
  BY TypedInit, AgreedInit
<1>2. Typed /\ Agreed /\ [Next]_vars => (Typed /\ Agreed)'
  BY TypedNext, AgreedNext
<1>3. Typed /\ Agreed /\ [Next]_vars =>
        [\A c \in Calls : ~ call[c].went /\ call'[c].went =>
           \/ OnItsCard(c)
           \/ call'[c].kind # "uncertain" /\ InAuto(call'[c].turn)
           \/ call'[c].kind = "change" /\ ForItsRest(call'[c].turn)]_vars
  BY MadeAgreed
<1> QED
  BY <1>1, <1>2, <1>3, PTL DEF Spec, ConsentFirst

-----------------------------------------------------------------------------
(* Nothing stranded: of the four parts, those about cards lean on what an   *)
(* answer under way still finds, and all of them on a deleted chat having   *)
(* left nothing behind that a late step could revive.                       *)
Going == {"running", "ending", "closing"}

RunningIsHeld == \A t \in Turns : status[t] = "running" => turn[t].phase \in Going
ShownIsHeld   == chat.status = "running" => \E t \in Turns : turn[t].phase \in Going
PendingIsHeld == \A c \in Calls : call[c].card = "pending" => call[c].step \in {"waiting", "expired"}
StoppedIsAsked == \A c \in Calls : call[c].step = "waiting" => ~ turn[call[c].turn].aborted
GoneIsQuiet ==
  chat.there = "no" =>
    /\ \A t \in Turns : status[t] # "running"
    /\ chat.status # "running"
    /\ \A c \in Calls : call[c].card # "pending"
AnswersAreLate ==
  \A d \in deciding :
    /\ call[d.call].step \notin {"none", "asked"}
    /\ d.step = "written" => call[d.call].card # "pending"

Held ==
  /\ RunningIsHeld /\ ShownIsHeld /\ PendingIsHeld /\ StoppedIsAsked
  /\ GoneIsQuiet /\ AnswersAreLate /\ CallsHaveTurns

LEMMA HeldNext ==
  ASSUME Typed, Held, [Next]_vars
  PROVE  Held'
<1>1. CASE StartTurn
  <2>1. RunningIsHeld'
    BY <1>1, ReserveGives DEF StartTurn, Spend, Going, Typed, ChatType, TurnType, Held, RunningIsHeld, chatVars, cardVars, wakeVars
  <2>2. ShownIsHeld'
    BY <1>1, ReserveGives DEF StartTurn, Spend, Going, Typed, ChatType, TurnType, Held, ShownIsHeld, chatVars, cardVars, wakeVars
  <2>3. StoppedIsAsked'
    BY <1>1, ReserveGives DEF StartTurn, Spend, CallsHaveTurns, Typed, TurnType, CallType, CallRecord, Held, StoppedIsAsked, chatVars, cardVars, wakeVars
  <2> QED
    BY <1>1, <2>1, <2>2, <2>3 DEF StartTurn, Spend, Held, PendingIsHeld, GoneIsQuiet, AnswersAreLate, CallsHaveTurns, chatVars, cardVars, wakeVars
<1>2. CASE Interrupt
  <2>1. RunningIsHeld'
    BY <1>2 DEF Interrupt, Abort, Spend, Ended, Going, NoTurn, Typed, ChatType, TurnType, TurnRecord, Held, RunningIsHeld, chatVars, cardVars, wakeVars
  <2>2. ShownIsHeld'
    BY <1>2 DEF Interrupt, Abort, Spend, Ended, Going, NoTurn, Typed, ChatType, TurnType, TurnRecord, Held, ShownIsHeld, chatVars, cardVars, wakeVars
  <2>3. PendingIsHeld'
    BY <1>2 DEF Interrupt, Abort, Spend, ExpireIn, Waiting, Typed, CallType, CallRecord, Held, PendingIsHeld, chatVars, cardVars, wakeVars
  <2>4. StoppedIsAsked'
    BY <1>2 DEF Interrupt, Abort, Spend, CallsHaveTurns, Ended, ExpireIn, NoTurn, Waiting, Typed, TurnType, TurnRecord, CallType, CallRecord, Held, StoppedIsAsked, chatVars, cardVars, wakeVars
  <2>5. GoneIsQuiet'
    BY <1>2 DEF Interrupt, Abort, Spend, ExpireIn, Waiting, Typed, ChatType, CallType, CallRecord, Held, GoneIsQuiet, chatVars, cardVars, wakeVars
  <2>6. AnswersAreLate'
    BY <1>2 DEF Interrupt, Abort, Spend, ExpireIn, Waiting, Typed, CallType, CallRecord, Held, AnswersAreLate, chatVars, cardVars, wakeVars
  <2>7. CallsHaveTurns'
    BY <1>2 DEF Interrupt, Abort, Spend, ExpireIn, Waiting, Typed, CallType, CallRecord, Held, CallsHaveTurns, chatVars, cardVars, wakeVars
  <2> QED
    BY <2>1, <2>2, <2>3, <2>4, <2>5, <2>6, <2>7 DEF Held
<1>3. CASE DeleteBegin
  <2>1. RunningIsHeld'
    BY <1>3 DEF DeleteBegin, Spend, Ended, Going, NoTurn, Typed, ChatType, TurnType, TurnRecord, Held, RunningIsHeld, chatVars, cardVars, wakeVars
  <2>2. ShownIsHeld'
    BY <1>3 DEF DeleteBegin, Spend, Ended, Going, NoTurn, Typed, ChatType, TurnType, TurnRecord, Held, ShownIsHeld, chatVars, cardVars, wakeVars
  <2>3. PendingIsHeld'
    BY <1>3 DEF DeleteBegin, Spend, ExpireIn, Waiting, Typed, CallType, CallRecord, Held, PendingIsHeld, chatVars, cardVars, wakeVars
  <2>4. StoppedIsAsked'
    BY <1>3 DEF DeleteBegin, Spend, CallsHaveTurns, Ended, ExpireIn, NoTurn, Waiting, Typed, TurnType, TurnRecord, CallType, CallRecord, Held, StoppedIsAsked, chatVars, cardVars, wakeVars
  <2>5. GoneIsQuiet'
    BY <1>3 DEF DeleteBegin, Spend, ExpireIn, Waiting, Typed, ChatType, CallType, CallRecord, Held, GoneIsQuiet, chatVars, cardVars, wakeVars
  <2>6. AnswersAreLate'
    BY <1>3 DEF DeleteBegin, Spend, ExpireIn, Waiting, Typed, CallType, CallRecord, Held, AnswersAreLate, chatVars, cardVars, wakeVars
  <2>7. CallsHaveTurns'
    BY <1>3 DEF DeleteBegin, Spend, ExpireIn, Waiting, Typed, CallType, CallRecord, Held, CallsHaveTurns, chatVars, cardVars, wakeVars
  <2> QED
    BY <2>1, <2>2, <2>3, <2>4, <2>5, <2>6, <2>7 DEF Held
<1>4. ASSUME NEW mode \in Modes, SetMode(mode)
      PROVE  Held'
  <2>1. RunningIsHeld'
    BY <1>4, SwitchedGives, AssistantAssumption DEF SetMode, Going, Held, RunningIsHeld
  <2>2. ShownIsHeld'
    BY <1>4, SwitchedGives, AssistantAssumption DEF SetMode, Going, Held, ShownIsHeld
  <2>3. StoppedIsAsked'
    BY <1>4, SwitchedGives, AssistantAssumption DEF SetMode, CallsHaveTurns, Held, StoppedIsAsked
  <2>4. GoneIsQuiet'
    BY <1>4 DEF SetMode, Switched, Spend, There, Typed, ChatType, CallType, CallRecord, Held, GoneIsQuiet, chatVars, cardVars, wakeVars
  <2> QED
    BY <1>4, <2>1, <2>2, <2>3, <2>4 DEF SetMode, Switched, Spend, Held, PendingIsHeld, AnswersAreLate, CallsHaveTurns, chatVars, cardVars, wakeVars
<1>5. ASSUME NEW c \in Calls, NEW answer \in Answers, DecideRead(c, answer)
      PROVE  Held'
  <2>1. AnswersAreLate'
    BY <1>5 DEF DecideRead, Waiting, Typed, CallType, CallRecord, Held, AnswersAreLate, chatVars, cardVars, wakeVars
  <2> QED
    BY <1>5, <2>1 DEF DecideRead, Held, RunningIsHeld, ShownIsHeld, PendingIsHeld, StoppedIsAsked, GoneIsQuiet, CallsHaveTurns, chatVars, cardVars, wakeVars
<1>6. ASSUME NEW t \in Turns, ReadChat(t)
      PROVE  Held'
  <2>1. RunningIsHeld'
    BY <1>6 DEF ReadChat, Refuse, There, Ended, Going, NoTurn, Typed, ChatType, TurnType, TurnRecord, Held, RunningIsHeld, chatVars, cardVars, wakeVars
  <2>2. ShownIsHeld'
    BY <1>6 DEF ReadChat, Refuse, There, Ended, Going, NoTurn, Typed, ChatType, TurnType, TurnRecord, Held, ShownIsHeld, chatVars, cardVars, wakeVars
  <2>3. StoppedIsAsked'
    <3>1. call' = call /\ \A u \in Turns : turn'[u].aborted => turn[u].aborted
      BY <1>6 DEF ReadChat, Refuse, Ended, NoTurn, Typed, TurnType, TurnRecord, chatVars, cardVars, wakeVars
    <3> QED
      BY <3>1 DEF Held, StoppedIsAsked, CallsHaveTurns
  <2> QED
    BY <1>6, <2>1, <2>2, <2>3 DEF ReadChat, Refuse, There, Held, PendingIsHeld, GoneIsQuiet, AnswersAreLate, CallsHaveTurns, chatVars, cardVars, wakeVars
<1>7. ASSUME NEW t \in Turns, OpenTurn(t)
      PROVE  Held'
  <2>1. RunningIsHeld'
    BY <1>7 DEF OpenTurn, Refuse, There, Ended, Going, NoTurn, Typed, ChatType, TurnType, TurnRecord, Held, RunningIsHeld, chatVars, cardVars, wakeVars
  <2>2. ShownIsHeld'
    BY <1>7 DEF OpenTurn, Refuse, There, Ended, Going, NoTurn, Typed, ChatType, TurnType, TurnRecord, Held, ShownIsHeld, chatVars, cardVars, wakeVars
  <2>3. StoppedIsAsked'
    BY <1>7 DEF OpenTurn, Refuse, There, CallsHaveTurns, Ended, NoTurn, Typed, TurnType, TurnRecord, CallType, CallRecord, Held, StoppedIsAsked, chatVars, cardVars, wakeVars
  <2>4. GoneIsQuiet'
    BY <1>7 DEF OpenTurn, Refuse, There, Typed, ChatType, CallType, CallRecord, Held, GoneIsQuiet, chatVars, cardVars, wakeVars
  <2> QED
    BY <1>7, <2>1, <2>2, <2>3, <2>4 DEF OpenTurn, Refuse, There, Held, PendingIsHeld, AnswersAreLate, CallsHaveTurns, chatVars, cardVars, wakeVars
<1>8. ASSUME NEW t \in Turns, Release(t)
      PROVE  Held'
  <2>1. RunningIsHeld'
    BY <1>8 DEF Release, Ended, Going, NoTurn, Typed, ChatType, TurnType, TurnRecord, Held, RunningIsHeld, chatVars, cardVars, wakeVars
  <2>2. ShownIsHeld'
    BY <1>8 DEF Release, Ended, Going, NoTurn, Typed, ChatType, TurnType, TurnRecord, Held, ShownIsHeld, chatVars, cardVars, wakeVars
  <2>3. StoppedIsAsked'
    BY <1>8 DEF Release, CallsHaveTurns, Ended, NoTurn, Typed, TurnType, TurnRecord, CallType, CallRecord, Held, StoppedIsAsked, chatVars, cardVars, wakeVars
  <2> QED
    BY <1>8, <2>1, <2>2, <2>3 DEF Release, Held, PendingIsHeld, GoneIsQuiet, AnswersAreLate, CallsHaveTurns, chatVars, cardVars, wakeVars
<1>9. ASSUME NEW t \in Turns, CloseTurn(t)
      PROVE  Held'
  <2>1. RunningIsHeld'
    BY <1>9 DEF CloseTurn, There, Ended, Going, NoTurn, Typed, ChatType, TurnType, TurnRecord, GoneIsQuiet, Held, RunningIsHeld, chatVars, cardVars, wakeVars
  <2>2. ShownIsHeld'
    BY <1>9 DEF CloseTurn, There, Ended, Going, NoTurn, Typed, ChatType, TurnType, TurnRecord, GoneIsQuiet, Held, ShownIsHeld, chatVars, cardVars, wakeVars
  <2>3. StoppedIsAsked'
    BY <1>9 DEF CloseTurn, There, CallsHaveTurns, Ended, NoTurn, Typed, TurnType, TurnRecord, CallType, CallRecord, Held, StoppedIsAsked, chatVars, cardVars, wakeVars
  <2>4. GoneIsQuiet'
    BY <1>9 DEF CloseTurn, There, Typed, ChatType, CallType, CallRecord, Held, GoneIsQuiet, chatVars, cardVars, wakeVars
  <2> QED
    BY <1>9, <2>1, <2>2, <2>3, <2>4 DEF CloseTurn, There, Held, PendingIsHeld, AnswersAreLate, CallsHaveTurns, chatVars, cardVars, wakeVars
<1>10. ASSUME NEW t \in Turns, TimeOut(t)
      PROVE  Held'
  <2>1. RunningIsHeld'
    BY <1>10 DEF TimeOut, Abort, Ended, Going, NoTurn, Typed, ChatType, TurnType, TurnRecord, Held, RunningIsHeld, chatVars, cardVars, wakeVars
  <2>2. ShownIsHeld'
    BY <1>10 DEF TimeOut, Abort, Ended, Going, NoTurn, Typed, ChatType, TurnType, TurnRecord, Held, ShownIsHeld, chatVars, cardVars, wakeVars
  <2>3. PendingIsHeld'
    BY <1>10 DEF TimeOut, Abort, ExpireIn, Waiting, Typed, CallType, CallRecord, Held, PendingIsHeld, chatVars, cardVars, wakeVars
  <2>4. StoppedIsAsked'
    BY <1>10 DEF TimeOut, Abort, CallsHaveTurns, Ended, ExpireIn, NoTurn, Waiting, Typed, TurnType, TurnRecord, CallType, CallRecord, Held, StoppedIsAsked, chatVars, cardVars, wakeVars
  <2>5. GoneIsQuiet'
    BY <1>10 DEF TimeOut, Abort, ExpireIn, Waiting, Typed, ChatType, CallType, CallRecord, Held, GoneIsQuiet, chatVars, cardVars, wakeVars
  <2>6. AnswersAreLate'
    BY <1>10 DEF TimeOut, Abort, ExpireIn, Waiting, Typed, CallType, CallRecord, Held, AnswersAreLate, chatVars, cardVars, wakeVars
  <2>7. CallsHaveTurns'
    BY <1>10 DEF TimeOut, Abort, ExpireIn, Waiting, Typed, CallType, CallRecord, Held, CallsHaveTurns, chatVars, cardVars, wakeVars
  <2> QED
    BY <2>1, <2>2, <2>3, <2>4, <2>5, <2>6, <2>7 DEF Held
<1>11. ASSUME NEW t \in Turns, EndTurn(t)
      PROVE  Held'
  <2>1. RunningIsHeld'
    BY <1>11 DEF EndTurn, Ended, Going, NoTurn, Typed, ChatType, TurnType, TurnRecord, Held, RunningIsHeld, chatVars, cardVars, wakeVars
  <2>2. ShownIsHeld'
    BY <1>11 DEF EndTurn, Ended, Going, NoTurn, Typed, ChatType, TurnType, TurnRecord, Held, ShownIsHeld, chatVars, cardVars, wakeVars
  <2>3. PendingIsHeld'
    BY <1>11 DEF EndTurn, ExpireIn, Waiting, Typed, CallType, CallRecord, Held, PendingIsHeld, chatVars, cardVars, wakeVars
  <2>4. StoppedIsAsked'
    BY <1>11 DEF EndTurn, CallsHaveTurns, Ended, ExpireIn, NoTurn, Waiting, Typed, TurnType, TurnRecord, CallType, CallRecord, Held, StoppedIsAsked, chatVars, cardVars, wakeVars
  <2>5. GoneIsQuiet'
    BY <1>11 DEF EndTurn, ExpireIn, Waiting, Typed, ChatType, CallType, CallRecord, Held, GoneIsQuiet, chatVars, cardVars, wakeVars
  <2>6. AnswersAreLate'
    BY <1>11 DEF EndTurn, ExpireIn, Waiting, Typed, CallType, CallRecord, Held, AnswersAreLate, chatVars, cardVars, wakeVars
  <2>7. CallsHaveTurns'
    BY <1>11 DEF EndTurn, ExpireIn, Waiting, Typed, CallType, CallRecord, Held, CallsHaveTurns, chatVars, cardVars, wakeVars
  <2> QED
    BY <2>1, <2>2, <2>3, <2>4, <2>5, <2>6, <2>7 DEF Held
<1>12. ASSUME NEW c \in Calls, CardWritten(c)
      PROVE  Held'
  <2>1. PendingIsHeld'
    BY <1>12 DEF CardWritten, There, Typed, CallType, CallRecord, Held, PendingIsHeld, chatVars, cardVars, wakeVars
  <2>2. StoppedIsAsked'
    BY <1>12 DEF CardWritten, CallsHaveTurns, There, Typed, TurnType, TurnRecord, CallType, CallRecord, Held, StoppedIsAsked, chatVars, cardVars, wakeVars
  <2>3. GoneIsQuiet'
    BY <1>12 DEF CardWritten, There, Typed, ChatType, CallType, CallRecord, Held, GoneIsQuiet, chatVars, cardVars, wakeVars
  <2>4. AnswersAreLate'
    BY <1>12 DEF CardWritten, There, Typed, CallType, CallRecord, Held, AnswersAreLate, chatVars, cardVars, wakeVars
  <2>5. CallsHaveTurns'
    BY <1>12 DEF CardWritten, There, Typed, CallType, CallRecord, Held, CallsHaveTurns, chatVars, cardVars, wakeVars
  <2> QED
    BY <1>12, <2>1, <2>2, <2>3, <2>4, <2>5 DEF CardWritten, Held, RunningIsHeld, ShownIsHeld, chatVars, cardVars, wakeVars
<1>13. ASSUME NEW c \in Calls, RowExpired(c)
      PROVE  Held'
  <2>1. PendingIsHeld'
    BY <1>13 DEF RowExpired, There, Typed, CallType, CallRecord, Held, PendingIsHeld, chatVars, cardVars, wakeVars
  <2>2. StoppedIsAsked'
    BY <1>13 DEF RowExpired, CallsHaveTurns, There, Typed, TurnType, TurnRecord, CallType, CallRecord, Held, StoppedIsAsked, chatVars, cardVars, wakeVars
  <2>3. GoneIsQuiet'
    BY <1>13 DEF RowExpired, There, Typed, ChatType, CallType, CallRecord, Held, GoneIsQuiet, chatVars, cardVars, wakeVars
  <2>4. AnswersAreLate'
    BY <1>13 DEF RowExpired, There, Typed, CallType, CallRecord, Held, AnswersAreLate, chatVars, cardVars, wakeVars
  <2>5. CallsHaveTurns'
    BY <1>13 DEF RowExpired, There, Typed, CallType, CallRecord, Held, CallsHaveTurns, chatVars, cardVars, wakeVars
  <2> QED
    BY <1>13, <2>1, <2>2, <2>3, <2>4, <2>5 DEF RowExpired, Held, RunningIsHeld, ShownIsHeld, chatVars, cardVars, wakeVars
<1>14. ASSUME NEW c \in Calls, ExpireCard(c)
      PROVE  Held'
  <2>1. PendingIsHeld'
    BY <1>14 DEF ExpireCard, ExpireIn, Waiting, Typed, CallType, CallRecord, Held, PendingIsHeld, chatVars, cardVars, wakeVars
  <2>2. StoppedIsAsked'
    BY <1>14 DEF ExpireCard, CallsHaveTurns, ExpireIn, Waiting, Typed, TurnType, TurnRecord, CallType, CallRecord, Held, StoppedIsAsked, chatVars, cardVars, wakeVars
  <2>3. GoneIsQuiet'
    BY <1>14 DEF ExpireCard, ExpireIn, Waiting, Typed, ChatType, CallType, CallRecord, Held, GoneIsQuiet, chatVars, cardVars, wakeVars
  <2>4. AnswersAreLate'
    BY <1>14 DEF ExpireCard, ExpireIn, Waiting, Typed, CallType, CallRecord, Held, AnswersAreLate, chatVars, cardVars, wakeVars
  <2>5. CallsHaveTurns'
    BY <1>14 DEF ExpireCard, ExpireIn, Waiting, Typed, CallType, CallRecord, Held, CallsHaveTurns, chatVars, cardVars, wakeVars
  <2> QED
    BY <1>14, <2>1, <2>2, <2>3, <2>4, <2>5 DEF ExpireCard, Held, RunningIsHeld, ShownIsHeld, chatVars, cardVars, wakeVars
<1>15. ASSUME NEW d \in deciding, DecideWrite(d)
      PROVE  Held'
  <2>1. PendingIsHeld'
    BY <1>15 DEF DecideWrite, There, Typed, CallType, CallRecord, Held, PendingIsHeld, chatVars, cardVars, wakeVars
  <2>2. StoppedIsAsked'
    BY <1>15 DEF DecideWrite, CallsHaveTurns, There, Typed, TurnType, TurnRecord, CallType, CallRecord, Held, StoppedIsAsked, chatVars, cardVars, wakeVars
  <2>3. GoneIsQuiet'
    BY <1>15 DEF DecideWrite, There, Typed, ChatType, CallType, CallRecord, Held, GoneIsQuiet, chatVars, cardVars, wakeVars
  <2>4. AnswersAreLate'
    BY <1>15 DEF DecideWrite, There, Typed, CallType, CallRecord, Held, AnswersAreLate, chatVars, cardVars, wakeVars
  <2>5. CallsHaveTurns'
    BY <1>15 DEF DecideWrite, There, Typed, CallType, CallRecord, Held, CallsHaveTurns, chatVars, cardVars, wakeVars
  <2> QED
    BY <1>15, <2>1, <2>2, <2>3, <2>4, <2>5 DEF DecideWrite, Held, RunningIsHeld, ShownIsHeld, chatVars, cardVars, wakeVars
<1>16. ASSUME NEW d \in deciding, DecideApply(d)
      PROVE  Held'
  <2>1. RunningIsHeld'
    BY <1>16, ApplyGives DEF DecideApply, Going, There, Waiting, Typed, ChatType, TurnType, Held, RunningIsHeld, chatVars, cardVars, wakeVars
  <2>2. ShownIsHeld'
    BY <1>16, ApplyGives DEF DecideApply, Going, There, Waiting, Typed, ChatType, TurnType, Held, ShownIsHeld, chatVars, cardVars, wakeVars
  <2>3. PendingIsHeld'
    BY <1>16 DEF DecideApply, AnswersAreLate, There, Waiting, Typed, CallType, CallRecord, Held, PendingIsHeld, chatVars, cardVars, wakeVars
  <2>4. StoppedIsAsked'
    <3>1. \A e \in Calls : call'[e].step = "waiting" => call[e] = call'[e]
      BY <1>16 DEF DecideApply, Waiting, Typed, CallType, CallRecord
    <3> QED
      BY <1>16, <3>1, ApplyGives DEF CallsHaveTurns, Held, StoppedIsAsked
  <2>5. GoneIsQuiet'
    BY <1>16 DEF DecideApply, There, Waiting, Typed, ChatType, CallType, CallRecord, Held, GoneIsQuiet, chatVars, cardVars, wakeVars
  <2>6. AnswersAreLate'
    BY <1>16 DEF DecideApply, There, Waiting, Typed, CallType, CallRecord, Held, AnswersAreLate, chatVars, cardVars, wakeVars
  <2>7. CallsHaveTurns'
    BY <1>16 DEF DecideApply, There, Waiting, Typed, CallType, CallRecord, Held, CallsHaveTurns, chatVars, cardVars, wakeVars
  <2> QED
    BY <2>1, <2>2, <2>3, <2>4, <2>5, <2>6, <2>7 DEF Held
<1>17. CASE PlanSwitch
  <2>1. RunningIsHeld'
    BY <1>17, SwitchGives DEF PlanSwitch, Going, Held, RunningIsHeld
  <2>2. ShownIsHeld'
    BY <1>17, SwitchGives DEF PlanSwitch, Going, Held, ShownIsHeld
  <2>3. StoppedIsAsked'
    BY <1>17, SwitchGives DEF PlanSwitch, CallsHaveTurns, Held, StoppedIsAsked
  <2>4. GoneIsQuiet'
    BY <1>17 DEF PlanSwitch, Switched, There, Typed, ChatType, CallType, CallRecord, Held, GoneIsQuiet, chatVars, cardVars, wakeVars
  <2> QED
    BY <1>17, <2>1, <2>2, <2>3, <2>4 DEF PlanSwitch, Switched, Held, PendingIsHeld, AnswersAreLate, CallsHaveTurns, chatVars, cardVars, wakeVars
<1>18. CASE PlanStart
  <2>1. RunningIsHeld'
    BY <1>18, ReserveGives DEF PlanStart, Going, Typed, ChatType, TurnType, Held, RunningIsHeld, chatVars, cardVars, wakeVars
  <2>2. ShownIsHeld'
    BY <1>18, ReserveGives DEF PlanStart, Going, Typed, ChatType, TurnType, Held, ShownIsHeld, chatVars, cardVars, wakeVars
  <2>3. StoppedIsAsked'
    BY <1>18, ReserveGives DEF PlanStart, CallsHaveTurns, Typed, TurnType, CallType, CallRecord, Held, StoppedIsAsked, chatVars, cardVars, wakeVars
  <2> QED
    BY <1>18, <2>1, <2>2, <2>3 DEF PlanStart, Held, PendingIsHeld, GoneIsQuiet, AnswersAreLate, CallsHaveTurns, chatVars, cardVars, wakeVars
<1>19. ASSUME NEW x \in Texts, WakeStart(x)
      PROVE  Held'
  <2>1. RunningIsHeld'
    BY <1>19, ReserveGives DEF WakeStart, Going, Typed, ChatType, TurnType, Held, RunningIsHeld, chatVars, cardVars, wakeVars
  <2>2. ShownIsHeld'
    BY <1>19, ReserveGives DEF WakeStart, Going, Typed, ChatType, TurnType, Held, ShownIsHeld, chatVars, cardVars, wakeVars
  <2>3. StoppedIsAsked'
    BY <1>19, ReserveGives DEF WakeStart, CallsHaveTurns, Typed, TurnType, CallType, CallRecord, Held, StoppedIsAsked, chatVars, cardVars, wakeVars
  <2> QED
    BY <1>19, <2>1, <2>2, <2>3 DEF WakeStart, Held, PendingIsHeld, GoneIsQuiet, AnswersAreLate, CallsHaveTurns, chatVars, cardVars, wakeVars
<1>20. CASE DeleteEnd
  <2>1. RunningIsHeld'
    BY <1>20 DEF DeleteEnd, Going, Typed, ChatType, TurnType, TurnRecord, Held, RunningIsHeld, chatVars, cardVars, wakeVars
  <2>2. ShownIsHeld'
    BY <1>20 DEF DeleteEnd, Going, Typed, ChatType, TurnType, TurnRecord, Held, ShownIsHeld, chatVars, cardVars, wakeVars
  <2>3. PendingIsHeld'
    BY <1>20 DEF DeleteEnd, Typed, CallType, CallRecord, Held, PendingIsHeld, chatVars, cardVars, wakeVars
  <2>4. StoppedIsAsked'
    BY <1>20 DEF DeleteEnd, CallsHaveTurns, Typed, TurnType, TurnRecord, CallType, CallRecord, Held, StoppedIsAsked, chatVars, cardVars, wakeVars
  <2>5. GoneIsQuiet'
    BY <1>20 DEF DeleteEnd, Typed, ChatType, CallType, CallRecord, Held, GoneIsQuiet, chatVars, cardVars, wakeVars
  <2>6. AnswersAreLate'
    BY <1>20 DEF DeleteEnd, Typed, CallType, CallRecord, Held, AnswersAreLate, chatVars, cardVars, wakeVars
  <2>7. CallsHaveTurns'
    BY <1>20 DEF DeleteEnd, Typed, CallType, CallRecord, Held, CallsHaveTurns, chatVars, cardVars, wakeVars
  <2> QED
    BY <2>1, <2>2, <2>3, <2>4, <2>5, <2>6, <2>7 DEF Held
<1>21. ASSUME NEW t \in Turns, RefuseTurn(t)
      PROVE  Held'
  <2>1. RunningIsHeld'
    BY <1>21 DEF RefuseTurn, Refuse, Ended, Going, NoTurn, Typed, ChatType, TurnType, TurnRecord, Held, RunningIsHeld, chatVars, cardVars, wakeVars
  <2>2. ShownIsHeld'
    BY <1>21 DEF RefuseTurn, Refuse, Ended, Going, NoTurn, Typed, ChatType, TurnType, TurnRecord, Held, ShownIsHeld, chatVars, cardVars, wakeVars
  <2>3. StoppedIsAsked'
    BY <1>21 DEF RefuseTurn, Refuse, CallsHaveTurns, Ended, NoTurn, Typed, TurnType, TurnRecord, CallType, CallRecord, Held, StoppedIsAsked, chatVars, cardVars, wakeVars
  <2> QED
    BY <1>21, <2>1, <2>2, <2>3 DEF RefuseTurn, Refuse, Held, PendingIsHeld, GoneIsQuiet, AnswersAreLate, CallsHaveTurns, chatVars, cardVars, wakeVars
<1>22. ASSUME NEW t \in Turns, PresentPlan(t)
      PROVE  Held'
  <2>1. RunningIsHeld'
    BY <1>22 DEF PresentPlan, Ended, Going, NoTurn, Typed, ChatType, TurnType, TurnRecord, Held, RunningIsHeld, chatVars, cardVars, wakeVars
  <2>2. ShownIsHeld'
    BY <1>22 DEF PresentPlan, Ended, Going, NoTurn, Typed, ChatType, TurnType, TurnRecord, Held, ShownIsHeld, chatVars, cardVars, wakeVars
  <2>3. StoppedIsAsked'
    BY <1>22 DEF PresentPlan, CallsHaveTurns, Ended, NoTurn, Typed, TurnType, TurnRecord, CallType, CallRecord, Held, StoppedIsAsked, chatVars, cardVars, wakeVars
  <2> QED
    BY <1>22, <2>1, <2>2, <2>3 DEF PresentPlan, Held, PendingIsHeld, GoneIsQuiet, AnswersAreLate, CallsHaveTurns, chatVars, cardVars, wakeVars
<1>23. ASSUME NEW t \in Turns, NEW c \in Calls, NEW kind \in Kinds, CallTool(t, c, kind)
      PROVE  Held'
  <2>1. PendingIsHeld'
    BY <1>23 DEF CallTool, Spend, NoCall, Right, Typed, CallType, CallRecord, Held, PendingIsHeld, chatVars, cardVars, wakeVars
  <2>2. StoppedIsAsked'
    BY <1>23 DEF CallTool, Spend, CallsHaveTurns, NoCall, Right, Typed, TurnType, TurnRecord, CallType, CallRecord, Held, StoppedIsAsked, chatVars, cardVars, wakeVars
  <2>3. GoneIsQuiet'
    BY <1>23 DEF CallTool, Spend, NoCall, Right, Typed, ChatType, CallType, CallRecord, Held, GoneIsQuiet, chatVars, cardVars, wakeVars
  <2>4. AnswersAreLate'
    BY <1>23 DEF CallTool, Spend, NoCall, Right, Typed, CallType, CallRecord, Held, AnswersAreLate, chatVars, cardVars, wakeVars
  <2>5. CallsHaveTurns'
    BY <1>23 DEF CallTool, Spend, NoCall, Right, Typed, CallType, CallRecord, Held, CallsHaveTurns, chatVars, cardVars, wakeVars
  <2> QED
    BY <1>23, <2>1, <2>2, <2>3, <2>4, <2>5 DEF CallTool, Spend, Held, RunningIsHeld, ShownIsHeld, chatVars, cardVars, wakeVars
<1>24. CASE Restart
  <2>1. RunningIsHeld'
    BY <1>24, RestartGives DEF Restart, Spend, Going, Typed, ChatType, TurnType, Held, RunningIsHeld, chatVars, cardVars, wakeVars
  <2>2. ShownIsHeld'
    BY <1>24, RestartGives DEF Restart, Spend, Going, Typed, ChatType, TurnType, Held, ShownIsHeld, chatVars, cardVars, wakeVars
  <2>3. PendingIsHeld'
    BY <1>24, RestartGives DEF Restart, Spend, Typed, CallType, Held, PendingIsHeld, chatVars, cardVars, wakeVars
  <2>4. StoppedIsAsked'
    BY <1>24, RestartGives DEF Restart, Spend, CallsHaveTurns, Typed, TurnType, CallType, Held, StoppedIsAsked, chatVars, cardVars, wakeVars
  <2>5. GoneIsQuiet'
    BY <1>24, RestartGives DEF Restart, Spend, PendingIsHeld, There, Typed, ChatType, CallType, Held, GoneIsQuiet, chatVars, cardVars, wakeVars
  <2>6. AnswersAreLate'
    BY <1>24, RestartGives DEF Restart, Spend, Typed, CallType, Held, AnswersAreLate, chatVars, cardVars, wakeVars
  <2>7. CallsHaveTurns'
    BY <1>24, RestartGives DEF Restart, Spend, Typed, CallType, Held, CallsHaveTurns, chatVars, cardVars, wakeVars
  <2> QED
    BY <2>1, <2>2, <2>3, <2>4, <2>5, <2>6, <2>7 DEF Held
<1>25. CASE Watch
  BY <1>25 DEF Watch, Spend, Held, RunningIsHeld, ShownIsHeld, PendingIsHeld, StoppedIsAsked, GoneIsQuiet, AnswersAreLate, CallsHaveTurns, chatVars, cardVars, wakeVars
<1>26. CASE Unwatch
  BY <1>26 DEF Unwatch, Spend, Held, RunningIsHeld, ShownIsHeld, PendingIsHeld, StoppedIsAsked, GoneIsQuiet, AnswersAreLate, CallsHaveTurns, chatVars, cardVars, wakeVars
<1>27. ASSUME NEW decision \in {"auto", "manual", "revise"}, PlanRead(decision)
      PROVE  Held'
  BY <1>27 DEF PlanRead, Spend, Held, RunningIsHeld, ShownIsHeld, PendingIsHeld, StoppedIsAsked, GoneIsQuiet, AnswersAreLate, CallsHaveTurns, chatVars, cardVars, wakeVars
<1>28. CASE PlanWrite
  BY <1>28 DEF PlanWrite, Held, RunningIsHeld, ShownIsHeld, PendingIsHeld, StoppedIsAsked, GoneIsQuiet, AnswersAreLate, CallsHaveTurns, chatVars, cardVars, wakeVars
<1>29. CASE Handle
  BY <1>29 DEF Handle, Held, RunningIsHeld, ShownIsHeld, PendingIsHeld, StoppedIsAsked, GoneIsQuiet, AnswersAreLate, CallsHaveTurns, chatVars, cardVars, wakeVars
<1>30. ASSUME NEW x \in Texts, WakeCheck(x)
      PROVE  Held'
  BY <1>30 DEF WakeCheck, Held, RunningIsHeld, ShownIsHeld, PendingIsHeld, StoppedIsAsked, GoneIsQuiet, AnswersAreLate, CallsHaveTurns, chatVars, cardVars, wakeVars
<1>31. ASSUME NEW kind \in {"wakes", "final"}, Notify(kind)
      PROVE  Held'
  BY <1>31 DEF Notify, Spend, Held, RunningIsHeld, ShownIsHeld, PendingIsHeld, StoppedIsAsked, GoneIsQuiet, AnswersAreLate, CallsHaveTurns, chatVars, cardVars, wakeVars
<1>32. CASE UNCHANGED vars
  BY <1>32 DEF Held, RunningIsHeld, ShownIsHeld, PendingIsHeld, StoppedIsAsked, GoneIsQuiet, AnswersAreLate, CallsHaveTurns, vars, chatVars, cardVars, wakeVars
<1> QED
  BY <1>1, <1>2, <1>3, <1>4, <1>5, <1>6, <1>7, <1>8, <1>9, <1>10, <1>11, <1>12, <1>13, <1>14, <1>15, <1>16, <1>17, <1>18, <1>19, <1>20, <1>21, <1>22, <1>23, <1>24, <1>25, <1>26, <1>27, <1>28, <1>29, <1>30, <1>31, <1>32
  DEF Next, User, Internal, Outside, Turning, Stopping, Carding, Waking

LEMMA HeldInit == Init => Held
BY DEF Init, Held, RunningIsHeld, ShownIsHeld, PendingIsHeld, StoppedIsAsked, GoneIsQuiet, AnswersAreLate, CallsHaveTurns, NoTurn, NoCall

(* What the rows show as under way, something in the process will end: after *)
(* a restart, a deletion, a stop or an answer from another tab.             *)
THEOREM NothingStranded == Spec => []NothingIsStranded
<1>1. Init => Typed /\ Held
  BY TypedInit, HeldInit
<1>2. Typed /\ Held /\ [Next]_vars => (Typed /\ Held)'
  BY TypedNext, HeldNext
<1>3. Held => NothingIsStranded
  BY DEF Held, RunningIsHeld, ShownIsHeld, PendingIsHeld, StoppedIsAsked, Going, Waiting, NothingIsStranded
<1> QED
  BY <1>1, <1>2, <1>3, PTL DEF Spec

-----------------------------------------------------------------------------
(* Told once: an update is in one place at a time, which "wake" names: not   *)
(* handed on while its note is to come or in the chain, then with the chat,  *)
(* once in the queue, or with the one turn that comes with it.  The replay   *)
(* hands on only what no live note was handed on for, and none still will:   *)
(* but for the notes announced before it, the watch is past all of these.    *)
Live(n)  == <<n, "live">>
Again(n) == <<n, "replay">>
\* The ways to be told that are taken at most once.
Single(x) == x[2] = "live" \/ x[1] \notin early
Heard(n)  == wake[Live(n)] # "none" \/ wake[Again(n)] # "none"
\* A turn that has not been opened with its text yet.
Coming(t) == turn[t].phase \in {"reading", "opening"}

ChainClimbs ==
  /\ \A i \in 1..Len(chain) : chain[i] <= Len(notes)
  /\ \A i, j \in 1..Len(chain) : i < j => chain[i] < chain[j]
UnheardIsNew ==
  \A n \in Notes :
    /\ n > Len(notes) \/ (\E i \in 1..Len(chain) : chain[i] = n) => wake[Live(n)] = "none"
    /\ n > Len(notes) => wake[Again(n)] = "none"
HeardIsPast ==
  \A n \in Notes : n \notin early /\ Heard(n) =>
    /\ \A i \in 1..Len(chain) : chain[i] # Replay => n < chain[i]
    /\ watch.open => n <= watch.last
HeardOneWay ==
  \A n \in Notes : n \notin early => wake[Live(n)] = "none" \/ wake[Again(n)] = "none"
ReplayIsEarly ==
  \A i, j \in 1..Len(chain) : chain[i] = Replay /\ chain[j] # Replay =>
    \A m \in Notes : chain[j] <= m /\ m <= Len(notes) => m \in early
Order == ChainClimbs /\ UnheardIsNew /\ HeardIsPast /\ HeardOneWay /\ ReplayIsEarly

QueuedOnce ==
  /\ \A i \in 1..Len(queue) : wake[queue[i]] # "none"
  /\ \A i \in 1..Len(queue) : Single(queue[i]) => wake[queue[i]] = "queued"
  /\ \A i, j \in 1..Len(queue) : queue[i] = queue[j] /\ Single(queue[i]) => i = j
ComingOnce ==
  \A x \in Texts, t \in Turns : Single(x) /\ Coming(t) /\ turn[t].text = x =>
    /\ wake[x] = "turn" /\ told[x] = 0
    /\ \A u \in Turns : Coming(u) /\ turn[u].text = x => u = t
ToldIsDone ==
  \A x \in Texts : Single(x) => (told[x] > 0 => wake[x] = "turn") /\ told[x] <= 1

Counted == Order /\ QueuedOnce /\ ComingOnce /\ ToldIsDone

LEMMA TextsOf ==
  /\ \A n \in Notes : Live(n) \in Texts /\ Again(n) \in Texts
  /\ \A n \in Notes : Single(Live(n)) /\ (Single(Again(n)) <=> n \notin early)
  /\ \A x \in Texts : x # None /\ x[1] \in Notes /\ (x = Live(x[1]) \/ x = Again(x[1]))
  /\ \A m \in Notes, n \in Notes :
       (Live(m) = Live(n) => m = n) /\ (Again(m) = Again(n) => m = n) /\ Live(m) # Again(n)
BY DEF Live, Again, Single, Texts, None

LEMMA CountedIsToldOnce == Typed /\ Counted => ToldOnce
<1> SUFFICES ASSUME Typed, Counted, NEW n \in Notes
             PROVE  /\ told[Live(n)] <= 1
                    /\ n \notin early => told[Live(n)] + told[Again(n)] <= 1
  BY DEF ToldOnce, Live, Again
<1>1. told[Live(n)] \in Nat /\ told[Again(n)] \in Nat
  BY TextsOf DEF Typed, WakeType
<1>2. told[Live(n)] <= 1
  BY TextsOf DEF Counted, ToldIsDone
<1>3. n \notin early => told[Live(n)] = 0 \/ told[Again(n)] = 0
  BY <1>1, TextsOf DEF Counted, ToldIsDone, Order, HeardOneWay
<1>4. n \notin early => told[Again(n)] <= 1
  BY TextsOf DEF Counted, ToldIsDone
<1> QED
  BY <1>1, <1>2, <1>3, <1>4

(* What the updates that were not handed on, and those that were, keep.     *)
HeardKept   == \A x \in Texts : wake'[x] = "none" <=> wake[x] = "none"
WakeSettled ==
  \A x \in Texts : Single(x) /\ wake[x] \in {"none", "turn"} => wake'[x] = wake[x]
\* A watch that is open was open before, or begins with the newest note.
WatchKept ==
  watch'.open => (watch.open /\ watch'.last = watch.last) \/ watch'.last = Len(notes)
\* A turn that comes with an update came with it before.
ComesAsBefore ==
  \A t \in Turns : turn'[t].phase \in {"reading", "opening"} =>
    \/ turn[t].phase \in {"reading", "opening"} /\ turn'[t].text = turn[t].text
    \/ turn'[t].text = None

LEMMA OrderKept ==
  ASSUME Typed, Counted, UNCHANGED <<notes, chain, early>>, HeardKept, WatchKept
  PROVE  Order'
<1>1. ChainClimbs' /\ ReplayIsEarly'
  BY DEF Counted, Order, ChainClimbs, ReplayIsEarly
<1>2. UnheardIsNew' /\ HeardOneWay'
  BY TextsOf DEF Counted, Order, UnheardIsNew, HeardOneWay, HeardKept
<1>3. ASSUME NEW n \in Notes, n \notin early', Heard(n)'
      PROVE  /\ \A i \in 1..Len(chain') : chain'[i] # Replay => n < chain'[i]
             /\ watch'.open => n <= watch'.last
  <2>1. n \notin early /\ Heard(n)
    BY <1>3, TextsOf DEF Heard, HeardKept
  <2>2. n <= Len(notes)
    <3>1. n \in Nat /\ Len(notes) \in Nat
      BY AssistantAssumption DEF Notes, Typed, WakeType
    <3> QED
      BY <2>1, <3>1 DEF Counted, Order, UnheardIsNew, Heard
  <2> QED
    BY <2>1, <2>2 DEF Counted, Order, HeardIsPast, WatchKept
<1>4. HeardIsPast'
  BY <1>3 DEF HeardIsPast
<1> QED
  BY <1>1, <1>2, <1>4 DEF Order

LEMMA TellingsKept ==
  ASSUME Counted, UNCHANGED <<told, early>>, WakeSettled, ComesAsBefore
  PROVE  ComingOnce' /\ ToldIsDone'
<1>1. \A x \in Texts : Single(x)' = Single(x)
  BY DEF Single
<1>2. ToldIsDone'
  BY <1>1 DEF Counted, ToldIsDone, WakeSettled
<1>3. \A x \in Texts, t \in Turns : Coming(t)' /\ turn'[t].text = x => Coming(t) /\ turn[t].text = x
  BY TextsOf DEF Coming, ComesAsBefore
<1>4. ComingOnce'
  BY <1>1, <1>3 DEF Counted, ComingOnce, WakeSettled
<1> QED
  BY <1>2, <1>4

(* Most steps have nothing to do with the updates. *)
LEMMA CalmKeeps ==
  ASSUME Typed, Counted, UNCHANGED <<wake, told, notes, chain, early, queue>>,
         WatchKept, ComesAsBefore
  PROVE  Counted'
<1>1. Order'
  BY OrderKept DEF HeardKept
<1>2. ComingOnce' /\ ToldIsDone'
  BY TellingsKept DEF WakeSettled
<1>3. QueuedOnce'
  BY DEF Counted, QueuedOnce, Single
<1> QED
  BY <1>1, <1>2, <1>3 DEF Counted

(* The update at the head of the queue is there no more. *)
LEMMA ReleaseKeeps ==
  ASSUME Typed, Counted, NEW t \in Turns, Release(t)
  PROVE  Counted'
<1>1. UNCHANGED <<told, notes, chain, early, watch>>
  BY DEF Release
<1>2. ComesAsBefore
  BY DEF Release, NoTurn, ComesAsBefore, Typed, TurnType, TurnRecord
<1>3. CASE queue = <<>>
  <2>1. UNCHANGED <<wake, queue>>
    BY <1>3 DEF Release
  <2> QED
    BY <1>1, <1>2, <2>1, CalmKeeps DEF WatchKept
<1>4. CASE queue # <<>>
  <2>1. /\ queue' = Tail(queue) /\ wake' = [wake EXCEPT ![Head(queue)] = "due"]
        /\ Head(queue) = queue[1] /\ Head(queue) \in Texts
    BY <1>4 DEF Release, Typed, WakeType
  <2>2. /\ Len(queue') = Len(queue) - 1 /\ 1 \in 1..Len(queue)
        /\ \A i \in 1..Len(queue') : queue'[i] = queue[i + 1] /\ i + 1 \in 1..Len(queue)
    BY <1>4, <2>1 DEF Typed, WakeType
  <2>3. /\ \A x \in Texts : Single(x)' = Single(x)
        /\ Len(queue) \in Nat /\ \A i \in 1..Len(queue) : queue[i] \in Texts
    BY <1>1 DEF Single, Typed, WakeType
  <2>4. ASSUME NEW i \in 1..Len(queue'), Single(queue[i])'
        PROVE  wake'[queue'[i]] = "queued"
    <3>1. queue'[i] = queue[i + 1] /\ i + 1 \in 1..Len(queue) /\ i + 1 # 1 /\ queue'[i] \in Texts
      BY <2>2, <2>3
    <3>2. Single(queue[i + 1])
      BY <1>1, <2>4, <3>1 DEF Single
    <3>3. wake[queue[i + 1]] = "queued"
      BY <3>1, <3>2 DEF Counted, QueuedOnce
    <3>4. queue[i + 1] # queue[1]
      BY <2>2, <3>1, <3>2 DEF Counted, QueuedOnce
    <3> QED
      BY <2>1, <3>1, <3>3, <3>4 DEF Typed, WakeType
  <2>5. ASSUME NEW i \in 1..Len(queue'), NEW j \in 1..Len(queue'),
               queue'[i] = queue'[j], Single(queue[i])'
        PROVE  i = j
    <3>1. /\ queue'[i] = queue[i + 1] /\ i + 1 \in 1..Len(queue)
          /\ queue'[j] = queue[j + 1] /\ j + 1 \in 1..Len(queue)
      BY <2>2
    <3>2. Single(queue[i + 1])
      BY <1>1, <2>5, <3>1 DEF Single
    <3>3. i + 1 = j + 1
      BY <2>5, <3>1, <3>2 DEF Counted, QueuedOnce
    <3> QED
      BY <3>3
  <2>6. QueuedOnce'
    <3>1. ASSUME NEW i \in 1..Len(queue')
          PROVE  wake'[queue'[i]] # "none"
      <4>1. queue'[i] \in Texts /\ wake[queue'[i]] # "none"
        BY <2>2, <2>3 DEF Counted, QueuedOnce
      <4> QED
        BY <2>1, <4>1 DEF Typed, WakeType
    <3> QED
      BY <2>4, <2>5, <3>1 DEF QueuedOnce
  <2>7. Single(Head(queue)) => wake[Head(queue)] = "queued"
    BY <2>1, <2>2 DEF Counted, QueuedOnce
  <2>8. WakeSettled
    BY <2>1, <2>7 DEF WakeSettled, Typed, WakeType
  <2>9. HeardKept
    <3>1. wake[Head(queue)] # "none"
      BY <2>1, <2>2 DEF Counted, QueuedOnce
    <3> QED
      BY <2>1, <3>1 DEF HeardKept, Typed, WakeType
  <2> QED
    BY <1>1, <1>2, <2>6, <2>8, <2>9, OrderKept, TellingsKept DEF Counted, WatchKept
<1> QED
  BY <1>3, <1>4

(* An update is queued, or about to get its turn, or lost.                  *)
LEMMA CheckKeeps ==
  ASSUME Typed, Counted, NEW x \in Texts, WakeCheck(x)
  PROVE  Counted'
<1>1. /\ wake[x] = "due" /\ \E w \in {"queued", "ready", "lost"} : wake' = [wake EXCEPT ![x] = w]
      /\ UNCHANGED <<told, notes, chain, early, watch, turn>>
  BY DEF WakeCheck, chatVars
<1>2. WakeSettled /\ HeardKept /\ WatchKept /\ ComesAsBefore
  BY <1>1 DEF WakeSettled, HeardKept, WatchKept, ComesAsBefore, Typed, WakeType
<1>3. \A y \in Texts : Single(y)' = Single(y)
  BY <1>1 DEF Single
<1>4. \A i \in 1..Len(queue) :
        queue[i] \in Texts /\ wake'[queue[i]] # "none" /\ (Single(queue[i]) => queue[i] # x)
  BY <1>1 DEF Counted, QueuedOnce, Typed, WakeType
<1>5. \A i \in 1..Len(queue) : Single(queue[i]) => wake'[queue[i]] = "queued"
  BY <1>1, <1>4 DEF Counted, QueuedOnce, Typed, WakeType
<1>6. QueuedOnce'
  <2>1. CASE queue' = queue
    BY <1>3, <1>4, <1>5, <2>1 DEF Counted, QueuedOnce
  <2>2. CASE queue' = Append(queue, x) /\ wake' = [wake EXCEPT ![x] = "queued"]
    <3>1. /\ Len(queue') = Len(queue) + 1 /\ queue'[Len(queue) + 1] = x
          /\ \A i \in 1..Len(queue) : queue'[i] = queue[i]
      BY <2>2 DEF Typed, WakeType
    <3>2. \A i \in 1..Len(queue') : i \in 1..Len(queue) \/ i = Len(queue) + 1
      BY <3>1 DEF Typed, WakeType
    <3>3. wake'[x] = "queued"
      BY <2>2 DEF Typed, WakeType
    <3>4. ASSUME NEW i \in 1..Len(queue')
          PROVE  wake'[queue'[i]] # "none"
      <4>1. CASE i \in 1..Len(queue)
        BY <1>4, <3>1, <4>1
      <4>2. CASE i = Len(queue) + 1
        BY <3>1, <3>3, <4>2
      <4> QED
        BY <3>2, <4>1, <4>2
    <3>5. \A i \in 1..Len(queue') : Single(queue[i])' => wake'[queue'[i]] = "queued"
      BY <1>1, <1>4, <1>5, <3>1, <3>2, <3>3 DEF Single
    <3>6. ASSUME NEW i \in 1..Len(queue'), NEW j \in 1..Len(queue'),
                 queue'[i] = queue'[j], Single(queue[i])'
          PROVE  i = j
      <4>1. \A k \in 1..Len(queue) : Single(queue[k]) => queue'[k] # x
        BY <1>4, <3>1
      <4>2. i \in 1..Len(queue) => Single(queue[i])
        BY <1>1, <3>1, <3>6 DEF Single
      <4>3. j \in 1..Len(queue) => Single(queue[j])
        BY <1>1, <3>1, <3>6 DEF Single
      <4>4. CASE i \in 1..Len(queue) /\ j \in 1..Len(queue)
        BY <3>1, <3>6, <4>2, <4>4 DEF Counted, QueuedOnce
      <4>5. CASE i = Len(queue) + 1 /\ j \in 1..Len(queue)
        BY <3>1, <3>6, <4>1, <4>3, <4>5
      <4>6. CASE i \in 1..Len(queue) /\ j = Len(queue) + 1
        BY <3>1, <3>6, <4>1, <4>2, <4>6
      <4> QED
        BY <3>2, <4>4, <4>5, <4>6
    <3> QED
      BY <3>4, <3>5, <3>6 DEF QueuedOnce
  <2> QED
    BY <2>1, <2>2 DEF WakeCheck
<1> QED
  BY <1>1, <1>2, <1>6, OrderKept, TellingsKept DEF Counted

(* The turn that comes with an update is the only one that does.            *)
LEMMA StartKeeps ==
  ASSUME Typed, Counted, NEW x \in Texts, WakeStart(x)
  PROVE  Counted'
<1>1. /\ wake[x] = "ready" /\ UNCHANGED <<notes, chain, early, watch, queue, told>>
      /\ \E w \in {"turn", "lost"} : wake' = [wake EXCEPT ![x] = w]
  BY DEF WakeStart
<1>2. WakeSettled /\ HeardKept /\ WatchKept
  BY <1>1 DEF WakeSettled, HeardKept, WatchKept, Typed, WakeType
<1>3. \A y \in Texts : Single(y)' = Single(y)
  BY <1>1 DEF Single
<1>4. Order'
  BY <1>1, <1>2, OrderKept
<1>5. QueuedOnce'
  <2>1. \A i \in 1..Len(queue) :
          /\ queue[i] \in Texts /\ wake'[queue[i]] # "none"
          /\ Single(queue[i]) => queue[i] # x /\ wake[queue[i]] = "queued"
    BY <1>1 DEF Counted, QueuedOnce, Typed, WakeType
  <2>2. \A i \in 1..Len(queue) : Single(queue[i]) => wake'[queue[i]] = "queued"
    BY <1>1, <2>1 DEF Typed, WakeType
  <2> QED
    BY <1>1, <1>3, <2>1, <2>2 DEF Counted, QueuedOnce
<1>6. CASE active # 0
  <2>1. ComesAsBefore
    BY <1>6 DEF WakeStart, ComesAsBefore
  <2> QED
    BY <1>1, <1>2, <1>4, <1>5, <2>1, TellingsKept DEF Counted
<1>7. CASE active = 0
  <2>1. Reserve("wake", x) /\ wake' = [wake EXCEPT ![x] = "turn"]
    BY <1>7 DEF WakeStart
  <2>2. PICK s \in Turns :
          /\ turn'[s].phase = "reading" /\ turn'[s].text = x
          /\ \A u \in Turns : u # s => turn'[u] = turn[u]
    BY <2>1, ReserveGives
  <2>3. \A y \in Texts, u \in Turns : Single(y) /\ Coming(u) /\ turn[u].text = y => y # x
    BY <1>1 DEF Counted, ComingOnce
  <2>4. Single(x) => wake'[x] = "turn" /\ told'[x] = 0
    <3>1. told[x] \in Nat /\ wake'[x] = "turn"
      BY <2>1 DEF Typed, WakeType
    <3> QED
      BY <3>1, <1>1 DEF Counted, ToldIsDone
  <2>5. ASSUME NEW y \in Texts, NEW u \in Turns, Single(y), Coming(u)', turn'[u].text = y
        PROVE  \/ u = s /\ y = x
               \/ u # s /\ Coming(u) /\ turn[u].text = y /\ y # x
    BY <2>2, <2>3, <2>5 DEF Coming
  <2>6. ComingOnce'
    <3> SUFFICES ASSUME NEW y \in Texts, NEW u \in Turns, Single(y), Coming(u)', turn'[u].text = y
                 PROVE  /\ wake'[y] = "turn" /\ told'[y] = 0
                        /\ \A v \in Turns : Coming(v)' /\ turn'[v].text = y => v = u
      BY <1>3 DEF ComingOnce
    <3>1. CASE u = s /\ y = x
      BY <2>4, <2>5, <3>1
    <3>2. CASE u # s /\ Coming(u) /\ turn[u].text = y /\ y # x
      <4>1. /\ wake[y] = "turn" /\ told[y] = 0
            /\ \A v \in Turns : Coming(v) /\ turn[v].text = y => v = u
        BY <3>2 DEF Counted, ComingOnce
      <4> QED
        BY <1>1, <1>2, <2>5, <3>2, <4>1 DEF WakeSettled
    <3> QED
      BY <2>5, <3>1, <3>2
  <2>7. ToldIsDone'
    BY <1>1, <1>2, <1>3 DEF Counted, ToldIsDone, WakeSettled
  <2> QED
    BY <1>4, <1>5, <2>6, <2>7 DEF Counted
<1> QED
  BY <1>6, <1>7

(* A turn that opens with an update opens with it for the first time.       *)
LEMMA OpenKeeps ==
  ASSUME Typed, Counted, NEW t \in Turns, OpenTurn(t)
  PROVE  Counted'
<1>1. /\ UNCHANGED <<wake, notes, chain, early, watch, queue>> /\ turn[t].phase = "opening"
      /\ turn'[t].phase \in {"running", "done"}
      /\ \A u \in Turns : u # t => turn'[u] = turn[u]
  <2>1. \/ turn' = [turn EXCEPT ![t].phase = "running"]
        \/ turn' = [turn EXCEPT ![t] = Ended]
    BY DEF OpenTurn, Refuse
  <2>2. UNCHANGED <<wake, notes, chain, early, watch, queue>> /\ turn[t].phase = "opening"
    BY DEF OpenTurn
  <2>3. turn[t] \in TurnRecord /\ Ended.phase = "done"
    BY DEF Typed, TurnType, Ended, NoTurn
  <2>4. turn'[t].phase \in {"running", "done"}
    BY <2>1, <2>3 DEF Typed, TurnType, TurnRecord
  <2> QED
    BY <2>1, <2>2, <2>4 DEF Typed, TurnType
<1>2. told' = told \/ (turn[t].text \in Texts /\ told' = [told EXCEPT ![turn[t].text] = @ + 1])
  BY DEF OpenTurn, Refuse, Typed, TurnType, TurnRecord
<1>3. ASSUME NEW x \in Texts
      PROVE  \/ told'[x] = told[x]
             \/ turn[t].text = x /\ told'[x] = told[x] + 1
  BY <1>2 DEF Typed, WakeType
<1>4. \A x \in Texts : Single(x) /\ turn[t].text = x => wake[x] = "turn" /\ told[x] = 0
  BY <1>1 DEF Counted, ComingOnce, Coming
<1>5. \A x \in Texts : Single(x)' = Single(x)
  BY <1>1 DEF Single
<1>6. Order' /\ QueuedOnce'
  <2>1. Order'
    BY <1>1, OrderKept DEF HeardKept, WatchKept
  <2>2. QueuedOnce'
    BY <1>1 DEF Counted, QueuedOnce, Single
  <2> QED
    BY <2>1, <2>2
<1>7. ToldIsDone'
  <2>1. ASSUME NEW x \in Texts, Single(x)
        PROVE  (told'[x] > 0 => wake'[x] = "turn") /\ told'[x] <= 1
    <3>1. (told[x] > 0 => wake[x] = "turn") /\ told[x] <= 1
      BY <2>1 DEF Counted, ToldIsDone
    <3> QED
      BY <1>1, <1>3, <1>4, <2>1, <3>1
  <2> QED
    BY <1>5, <2>1 DEF ToldIsDone
<1>8. ComingOnce'
  <2>1. \A u \in Turns : Coming(u)' => u # t /\ Coming(u) /\ turn'[u] = turn[u]
    BY <1>1 DEF Coming
  <2> SUFFICES ASSUME NEW x \in Texts, NEW u \in Turns, Single(x), Coming(u)', turn'[u].text = x
               PROVE  /\ wake'[x] = "turn" /\ told'[x] = 0
                      /\ \A v \in Turns : Coming(v)' /\ turn'[v].text = x => v = u
    BY <1>5 DEF ComingOnce
  <2>2. u # t /\ Coming(u) /\ turn[u].text = x
    BY <2>1
  <2>3. /\ wake[x] = "turn" /\ told[x] = 0
        /\ \A v \in Turns : Coming(v) /\ turn[v].text = x => v = u
    BY <2>2 DEF Counted, ComingOnce
  <2>4. turn[t].text # x
    BY <1>1, <2>2, <2>3 DEF Coming
  <2> QED
    BY <1>1, <1>3, <2>1, <2>3, <2>4
<1> QED
  BY <1>6, <1>7, <1>8 DEF Counted

(* What a deletion leaves has no queue and no watch. *)
LEMMA DeleteKeeps ==
  ASSUME Typed, Counted, DeleteEnd
  PROVE  Counted'
<1>1. /\ UNCHANGED <<told, notes, chain, early, turn>> /\ queue' = <<>> /\ ~ watch'.open
      /\ wake' = [x \in Texts |-> IF wake[x] = "queued" THEN "lost" ELSE wake[x]]
  BY DEF DeleteEnd, Typed, WakeType
<1>2. WakeSettled /\ HeardKept /\ WatchKept /\ ComesAsBefore
  BY <1>1 DEF WakeSettled, HeardKept, WatchKept, ComesAsBefore
<1>3. QueuedOnce'
  BY <1>1 DEF QueuedOnce
<1> QED
  BY <1>1, <1>2, <1>3, OrderKept, TellingsKept DEF Counted

(* A restart loses what was on its way, and has the replay to come.         *)
LEMMA RestartKeeps ==
  ASSUME Typed, Counted, Restart
  PROVE  Counted'
<1>1. /\ chain' = <<Replay>> /\ queue' = <<>> /\ UNCHANGED <<notes, told, early, watch>>
      /\ wake' = [x \in Texts |-> IF wake[x] \in {"due", "ready", "queued"} THEN "lost" ELSE wake[x]]
  BY DEF Restart
<1>2. WakeSettled /\ HeardKept
  BY <1>1 DEF WakeSettled, HeardKept
<1>3. ComesAsBefore
  BY RestartGives DEF ComesAsBefore
<1>4. QueuedOnce'
  BY <1>1 DEF QueuedOnce
<1>5. Len(chain') = 1 /\ chain'[1] = Replay /\ Len(notes) \in Nat /\ \A n \in Notes : n # Replay
  BY <1>1 DEF Typed, WakeType, Notes, Replay
<1>6. ChainClimbs' /\ ReplayIsEarly'
  BY <1>1, <1>5 DEF ChainClimbs, ReplayIsEarly, Replay
<1>7. UnheardIsNew' /\ HeardOneWay'
  BY <1>1, <1>2, <1>5, TextsOf DEF Counted, Order, UnheardIsNew, HeardOneWay, HeardKept
<1>8. HeardIsPast'
  BY <1>1, <1>2, <1>5, TextsOf DEF Counted, Order, HeardIsPast, Heard, HeardKept
<1> QED
  BY <1>1, <1>2, <1>3, <1>4, <1>6, <1>7, <1>8, TellingsKept DEF Counted, Order

(* The next note is a new one, and early if the replay is still to come.    *)
LEMMA NotifyKeeps ==
  ASSUME Typed, Counted, NEW kind \in {"wakes", "final"}, Notify(kind)
  PROVE  Counted'
<1>1. /\ notes' = Append(notes, kind) /\ chain' = Append(chain, Len(notes'))
      /\ UNCHANGED <<wake, told, queue, watch, turn>> /\ early \subseteq early'
  BY DEF Notify, chatVars
<1>2. /\ Len(notes') = Len(notes) + 1 /\ Len(notes) \in Nat
      /\ Len(chain') = Len(chain) + 1 /\ Len(chain) \in Nat
      /\ chain'[Len(chain) + 1] = Len(notes) + 1
      /\ \A i \in 1..Len(chain) : chain'[i] = chain[i]
  BY <1>1 DEF Typed, WakeType
<1>3. /\ \A i \in 1..Len(chain') : i \in 1..Len(chain) \/ i = Len(chain) + 1
      /\ \A i \in 1..Len(chain) : chain[i] <= Len(notes) /\ chain[i] \in Nat
      /\ \A n \in Notes : n \in Nat
  BY <1>2, AssistantAssumption DEF Counted, Order, ChainClimbs, Typed, WakeType, Notes, Replay
<1>4. ChainClimbs'
  <2>1. \A i \in 1..Len(chain') : chain'[i] <= Len(notes')
    BY <1>2, <1>3
  <2>2. \A i, j \in 1..Len(chain') : i < j => chain'[i] < chain'[j]
    BY <1>2, <1>3 DEF Counted, Order, ChainClimbs
  <2> QED
    BY <2>1, <2>2 DEF ChainClimbs
<1>5. UnheardIsNew'
  <2>1. ASSUME NEW n \in Notes
        PROVE  /\ n > Len(notes') => n > Len(notes)
               /\ (\E i \in 1..Len(chain') : chain'[i] = n) =>
                    n > Len(notes) \/ \E i \in 1..Len(chain) : chain[i] = n
    BY <1>2, <1>3
  <2> QED
    BY <1>1, <2>1 DEF Counted, Order, UnheardIsNew
<1>6. HeardOneWay'
  BY <1>1 DEF Counted, Order, HeardOneWay
<1>7. HeardIsPast'
  <2>1. ASSUME NEW n \in Notes, n \notin early', Heard(n)'
        PROVE  /\ \A i \in 1..Len(chain') : chain'[i] # Replay => n < chain'[i]
               /\ watch'.open => n <= watch'.last
    <3>1. n \notin early /\ Heard(n)
      BY <1>1, <2>1 DEF Heard
    <3>2. n <= Len(notes)
      BY <1>2, <1>3, <3>1 DEF Counted, Order, UnheardIsNew, Heard
    <3> QED
      BY <1>1, <1>2, <1>3, <3>1, <3>2 DEF Counted, Order, HeardIsPast
  <2> QED
    BY <2>1 DEF HeardIsPast
<1>8. ReplayIsEarly'
  <2>1. ASSUME NEW i \in 1..Len(chain'), NEW j \in 1..Len(chain'), NEW m \in Notes,
               chain'[i] = Replay, chain'[j] # Replay, chain'[j] <= m, m <= Len(notes')
        PROVE  m \in early'
    <3>1. i \in 1..Len(chain) /\ chain[i] = Replay
      BY <1>2, <1>3, <2>1 DEF Replay
    <3>2. early' = early \cup {Len(notes')}
      <4>1. i \in DOMAIN chain
        BY <3>1 DEF Typed, WakeType
      <4> QED
        BY <3>1, <4>1 DEF Notify
    <3>3. CASE m = Len(notes')
      BY <3>2, <3>3
    <3>4. CASE m <= Len(notes)
      <4>1. j \in 1..Len(chain) /\ chain[j] = chain'[j]
        BY <1>2, <1>3, <2>1, <3>4
      <4> QED
        BY <1>1, <2>1, <3>1, <3>4, <4>1 DEF Counted, Order, ReplayIsEarly
    <3> QED
      BY <1>2, <1>3, <2>1, <3>3, <3>4
  <2> QED
    BY <2>1 DEF ReplayIsEarly
<1>9. \A x \in Texts : Single(x)' => Single(x)
  BY <1>1 DEF Single
<1>10. ComingOnce' /\ ToldIsDone'
  BY <1>1, <1>9 DEF Counted, ComingOnce, ToldIsDone, Coming
<1>11. QueuedOnce'
  <2>1. \A i \in 1..Len(queue) : queue[i] \in Texts
    BY DEF Typed, WakeType
  <2> QED
    BY <1>1, <1>9, <2>1 DEF Counted, QueuedOnce
<1> QED
  BY <1>4, <1>5, <1>6, <1>7, <1>8, <1>10, <1>11 DEF Counted, Order

(* What an update that is handed on leaves as it was. *)
LEMMA HandedKeeps ==
  ASSUME Typed, Counted, UNCHANGED <<told, early, queue, turn>>, NEW x \in Texts,
         wake' = wake \/ (wake' = [wake EXCEPT ![x] = "due"] /\ (Single(x) => wake[x] = "none"))
  PROVE  QueuedOnce' /\ ComingOnce' /\ ToldIsDone'
<1>1. \A y \in Texts : /\ wake[y] # "none" => wake'[y] # "none"
                       /\ Single(y) /\ wake[y] # "none" => wake'[y] = wake[y]
                       /\ Single(y)' = Single(y)
  BY DEF Typed, WakeType, Single
<1>2. \A i \in 1..Len(queue) : queue[i] \in Texts
  BY DEF Typed, WakeType
<1>3. QueuedOnce'
  BY <1>1, <1>2 DEF Counted, QueuedOnce
<1>4. ComingOnce'
  BY <1>1 DEF Counted, ComingOnce, Coming
<1>5. ToldIsDone'
  BY <1>1 DEF Counted, ToldIsDone
<1> QED
  BY <1>3, <1>4, <1>5

(* A note leaves the chain as its update is handed to the chat, and the     *)
(* replay hands on the newest that was not.                                 *)
LEMMA HandleKeeps ==
  ASSUME Typed, Counted, Handle
  PROVE  Counted'
<1>1. /\ chain # <<>> /\ chain' = Tail(chain) /\ UNCHANGED <<notes, early, queue, told, turn>>
  BY DEF Handle, chatVars
<1>2. /\ Len(chain') = Len(chain) - 1 /\ 1 \in 1..Len(chain) /\ Head(chain) = chain[1]
      /\ \A i \in 1..Len(chain') : chain'[i] = chain[i + 1] /\ i + 1 \in 1..Len(chain) /\ 1 < i + 1
  BY <1>1 DEF Typed, WakeType
<1>3. /\ \A i \in 1..Len(chain) : chain[i] \in {Replay} \cup Notes
      /\ Len(notes) \in Nat /\ \A n \in Notes : n \in Nat /\ n # Replay
      /\ \A i \in 1..Len(chain') : chain[1] < chain'[i]
  <2>1. /\ \A i \in 1..Len(chain) : chain[i] \in {Replay} \cup Notes
        /\ Len(notes) \in Nat
    BY DEF Typed, WakeType
  <2>2. \A n \in Notes : n \in Nat /\ n # Replay
    BY AssistantAssumption DEF Notes, Replay
  <2>3. \A i \in 1..Len(chain') : chain[1] < chain'[i]
    BY <1>2 DEF Counted, Order, ChainClimbs
  <2> QED
    BY <2>1, <2>2, <2>3
<1>4. ChainClimbs'
  <2>1. \A i \in 1..Len(chain') : chain'[i] <= Len(notes')
    BY <1>1, <1>2 DEF Counted, Order, ChainClimbs
  <2>2. ASSUME NEW i \in 1..Len(chain'), NEW j \in 1..Len(chain'), i < j
        PROVE  chain'[i] < chain'[j]
    <3>1. i + 1 < j + 1
      BY <2>2
    <3> QED
      BY <1>2, <3>1 DEF Counted, Order, ChainClimbs
  <2> QED
    BY <2>1, <2>2 DEF ChainClimbs
<1>5. ReplayIsEarly'
  BY <1>1, <1>2 DEF Counted, Order, ReplayIsEarly
<1>6. \A n \in Notes : Heard(n) => n <= Len(notes)
  BY <1>3 DEF Counted, Order, UnheardIsNew, Heard
<1>7. CASE UNCHANGED <<watch, wake>>
  <2>1. UnheardIsNew' /\ HeardOneWay'
    BY <1>1, <1>2, <1>7 DEF Counted, Order, UnheardIsNew, HeardOneWay
  <2>2. HeardIsPast'
    BY <1>1, <1>2, <1>7 DEF Counted, Order, HeardIsPast, Heard
  <2>3. QueuedOnce' /\ ComingOnce' /\ ToldIsDone'
    BY <1>1, <1>7 DEF Counted, QueuedOnce, ComingOnce, ToldIsDone, Single, Coming
  <2> QED
    BY <1>4, <1>5, <2>1, <2>2, <2>3 DEF Counted, Order
<1>8. ASSUME NEW n \in Notes, watch.open, chain[1] = n, WakeOne(Live(n))
      PROVE  Counted'
  <2>1. watch'.last = n /\ wake' = [wake EXCEPT ![Live(n)] = "due"]
    BY <1>8 DEF WakeOne, Live
  <2>2. wake[Live(n)] = "none" /\ n <= Len(notes)
    BY <1>2, <1>8 DEF Counted, Order, UnheardIsNew, ChainClimbs
  <2>3. \A m \in Notes : /\ wake'[Again(m)] = wake[Again(m)]
                         /\ m # n => wake'[Live(m)] = wake[Live(m)]
    BY <2>1, TextsOf DEF Typed, WakeType
  <2>4. \A m \in Notes : m \notin early /\ Heard(m) => m < n
    BY <1>2, <1>3, <1>8 DEF Counted, Order, HeardIsPast
  <2>5. n \notin early => wake[Again(n)] = "none"
    BY <1>3, <2>4 DEF Heard
  <2>6. \A m \in Notes : m > Len(notes) \/ (\E i \in 1..Len(chain') : chain'[i] = m) => m # n
    BY <1>3, <1>8, <2>2
  <2>7. UnheardIsNew'
    <3>1. ASSUME NEW m \in Notes, m > Len(notes') \/ \E i \in 1..Len(chain') : chain'[i] = m
          PROVE  wake'[Live(m)] = "none"
      <4>1. wake[Live(m)] = "none"
        BY <1>1, <1>2, <3>1 DEF Counted, Order, UnheardIsNew
      <4> QED
        BY <1>1, <2>3, <2>6, <3>1, <4>1
    <3>2. \A m \in Notes : m > Len(notes') => wake'[Again(m)] = "none"
      BY <1>1, <2>3 DEF Counted, Order, UnheardIsNew
    <3> QED
      BY <3>1, <3>2 DEF UnheardIsNew
  <2>8. HeardOneWay'
    BY <1>1, <2>3, <2>5 DEF Counted, Order, HeardOneWay
  <2>9. HeardIsPast'
    <3>1. ASSUME NEW m \in Notes, m \notin early', Heard(m)'
          PROVE  /\ \A i \in 1..Len(chain') : chain'[i] # Replay => m < chain'[i]
                 /\ watch'.open => m <= watch'.last
      <4>1. m = n \/ Heard(m)
        BY <2>3, <3>1 DEF Heard
      <4>2. m = n \/ m < n
        BY <1>1, <2>4, <3>1, <4>1
      <4>3. \A i \in 1..Len(chain') : chain'[i] \in Nat
        BY <1>2, <1>3 DEF Replay
      <4> QED
        BY <1>3, <1>8, <2>1, <4>2, <4>3
    <3> QED
      BY <3>1 DEF HeardIsPast
  <2>10. QueuedOnce' /\ ComingOnce' /\ ToldIsDone'
    BY <1>1, <2>1, <2>2, TextsOf, HandedKeeps
  <2> QED
    BY <1>4, <1>5, <2>7, <2>8, <2>9, <2>10 DEF Counted, Order
<1>9. ASSUME NEW n \in Notes, watch.open, chain[1] = Replay, n = Len(notes), n > watch.last,
             WakeOne(Again(n))
      PROVE  Counted'
  <2>1. watch'.last = n /\ wake' = [wake EXCEPT ![Again(n)] = "due"]
    BY <1>9 DEF WakeOne, Again
  <2>2. n \notin early => ~ Heard(n)
    BY <1>3, <1>9 DEF Counted, Order, HeardIsPast, Typed, WakeType
  <2>3. \A m \in Notes : /\ wake'[Live(m)] = wake[Live(m)]
                         /\ m # n => wake'[Again(m)] = wake[Again(m)]
    BY <2>1, TextsOf DEF Typed, WakeType
  <2>4. UnheardIsNew'
    <3>1. ASSUME NEW m \in Notes, m > Len(notes') \/ \E i \in 1..Len(chain') : chain'[i] = m
          PROVE  wake'[Live(m)] = "none"
      <4>1. wake[Live(m)] = "none"
        BY <1>1, <1>2, <3>1 DEF Counted, Order, UnheardIsNew
      <4> QED
        BY <2>3, <4>1
    <3>2. ASSUME NEW m \in Notes, m > Len(notes')
          PROVE  wake'[Again(m)] = "none"
      <4>1. m # n
        BY <1>1, <1>3, <1>9, <3>2
      <4> QED
        BY <1>1, <2>3, <3>2, <4>1 DEF Counted, Order, UnheardIsNew
    <3> QED
      BY <3>1, <3>2 DEF UnheardIsNew
  <2>5. HeardOneWay'
    BY <1>1, <2>2, <2>3 DEF Counted, Order, HeardOneWay, Heard
  <2>6. HeardIsPast'
    <3>1. ASSUME NEW m \in Notes, m \notin early', Heard(m)'
          PROVE  /\ \A i \in 1..Len(chain') : chain'[i] # Replay => m < chain'[i]
                 /\ watch'.open => m <= watch'.last
      <4>1. m = n \/ Heard(m)
        BY <2>3, <3>1 DEF Heard
      <4>2. m <= n
        BY <1>3, <1>6, <1>9, <4>1
      <4>3. ASSUME NEW i \in 1..Len(chain'), chain'[i] # Replay
            PROVE  m < chain'[i]
        <5>1. chain'[i] = chain[i + 1] /\ i + 1 \in 1..Len(chain)
          BY <1>2
        <5>2. chain'[i] \in Nat
          BY <1>3, <5>1 DEF Replay
        <5>3. CASE m = n
          <6>1. chain[i + 1] <= n => n \in early
            BY <1>2, <1>3, <1>9, <4>3, <5>1 DEF Counted, Order, ReplayIsEarly
          <6> QED
            BY <1>1, <1>3, <3>1, <5>1, <5>2, <5>3, <6>1
        <5>4. CASE Heard(m)
          BY <1>1, <3>1, <4>3, <5>1, <5>4 DEF Counted, Order, HeardIsPast
        <5> QED
          BY <4>1, <5>3, <5>4
      <4> QED
        BY <2>1, <4>2, <4>3
    <3> QED
      BY <3>1 DEF HeardIsPast
  <2>7. QueuedOnce' /\ ComingOnce' /\ ToldIsDone'
    <3>1. Single(Again(n)) => wake[Again(n)] = "none"
      BY <2>2, TextsOf DEF Heard
    <3> QED
      BY <1>1, <2>1, <3>1, TextsOf, HandedKeeps
  <2> QED
    BY <1>4, <1>5, <2>4, <2>5, <2>6, <2>7 DEF Counted, Order
<1>10. \/ UNCHANGED <<watch, wake>>
       \/ \E n \in Notes : watch.open /\ chain[1] = n /\ WakeOne(Live(n))
       \/ /\ watch.open /\ chain[1] = Replay /\ Len(notes) > watch.last
          /\ Len(notes) \in Notes /\ WakeOne(Again(Len(notes)))
  <2>1. chain[1] = Replay \/ chain[1] \in Notes
    BY <1>2, <1>3
  <2>2. CASE ~ watch.open \/ (chain[1] = Replay /\ Len(notes) <= watch.last)
    BY <1>2, <2>2 DEF Handle
  <2>3. CASE watch.open /\ chain[1] = Replay /\ Len(notes) > watch.last
    <3>1. Len(notes) \in Notes
      <4>1. watch.last \in Nat /\ Len(notes) <= MaxNotes /\ MaxNotes \in Nat
        BY <1>3, AssistantAssumption DEF Typed, WakeType, LeftType
      <4> QED
        BY <1>3, <2>3, <4>1 DEF Notes
    <3>2. ~ (Len(notes) <= watch.last)
      BY <2>3, <1>3 DEF Typed, WakeType
    <3> QED
      BY <1>2, <2>3, <3>1, <3>2 DEF Handle, Again
  <2>4. CASE watch.open /\ chain[1] \in Notes
    BY <1>2, <1>3, <2>4 DEF Handle, Live
  <2> QED
    BY <1>3, <2>1, <2>2, <2>3, <2>4 DEF Typed, WakeType
<1> QED
  BY <1>7, <1>8, <1>9, <1>10

LEMMA CountedNext ==
  ASSUME Typed, Counted, [Next]_vars
  PROVE  Counted'
<1>1. CASE StartTurn
  <2>1. ComesAsBefore
    BY <1>1, ReserveGives DEF StartTurn, ComesAsBefore
  <2>2. UNCHANGED wakeVars \/ UNCHANGED <<wake, told, notes, chain, early, queue, watch>>
    BY <1>1 DEF StartTurn
  <2> QED
    BY <2>1, <2>2, CalmKeeps DEF WatchKept, wakeVars
<1>2. CASE Interrupt
  <2>1. ComesAsBefore
    BY <1>2 DEF Interrupt, ComesAsBefore, Abort, Typed, TurnType, TurnRecord
  <2>2. UNCHANGED wakeVars \/ UNCHANGED <<wake, told, notes, chain, early, queue, watch>>
    BY <1>2 DEF Interrupt, Abort
  <2> QED
    BY <2>1, <2>2, CalmKeeps DEF WatchKept, wakeVars
<1>3. CASE DeleteBegin
  <2>1. ComesAsBefore
    BY <1>3 DEF DeleteBegin, ComesAsBefore, Typed, TurnType, TurnRecord
  <2>2. UNCHANGED wakeVars \/ UNCHANGED <<wake, told, notes, chain, early, queue, watch>>
    BY <1>3 DEF DeleteBegin
  <2> QED
    BY <2>1, <2>2, CalmKeeps DEF WatchKept, wakeVars
<1>4. ASSUME NEW mode \in Modes, SetMode(mode)
      PROVE  Counted'
  <2>1. ComesAsBefore
    BY <1>4, SwitchedGives, AssistantAssumption DEF SetMode, ComesAsBefore
  <2>2. UNCHANGED wakeVars \/ UNCHANGED <<wake, told, notes, chain, early, queue, watch>>
    BY <1>4 DEF SetMode
  <2> QED
    BY <2>1, <2>2, CalmKeeps DEF WatchKept, wakeVars
<1>5. ASSUME NEW t \in Turns, ReadChat(t)
      PROVE  Counted'
  <2>1. ComesAsBefore
    BY <1>5 DEF ReadChat, ComesAsBefore, Refuse, Ended, NoTurn, Typed, TurnType, TurnRecord
  <2>2. UNCHANGED wakeVars \/ UNCHANGED <<wake, told, notes, chain, early, queue, watch>>
    BY <1>5 DEF ReadChat, Refuse
  <2> QED
    BY <2>1, <2>2, CalmKeeps DEF WatchKept, wakeVars
<1>6. ASSUME NEW t \in Turns, CloseTurn(t)
      PROVE  Counted'
  <2>1. ComesAsBefore
    BY <1>6 DEF CloseTurn, ComesAsBefore, Ended, NoTurn, Typed, TurnType, TurnRecord
  <2>2. UNCHANGED wakeVars \/ UNCHANGED <<wake, told, notes, chain, early, queue, watch>>
    BY <1>6 DEF CloseTurn
  <2> QED
    BY <2>1, <2>2, CalmKeeps DEF WatchKept, wakeVars
<1>7. ASSUME NEW t \in Turns, TimeOut(t)
      PROVE  Counted'
  <2>1. ComesAsBefore
    BY <1>7 DEF TimeOut, ComesAsBefore, Abort, Typed, TurnType, TurnRecord
  <2>2. UNCHANGED wakeVars \/ UNCHANGED <<wake, told, notes, chain, early, queue, watch>>
    BY <1>7 DEF TimeOut, Abort
  <2> QED
    BY <2>1, <2>2, CalmKeeps DEF WatchKept, wakeVars
<1>8. ASSUME NEW t \in Turns, EndTurn(t)
      PROVE  Counted'
  <2>1. ComesAsBefore
    BY <1>8 DEF EndTurn, ComesAsBefore, Typed, TurnType, TurnRecord
  <2>2. UNCHANGED wakeVars \/ UNCHANGED <<wake, told, notes, chain, early, queue, watch>>
    BY <1>8 DEF EndTurn
  <2> QED
    BY <2>1, <2>2, CalmKeeps DEF WatchKept, wakeVars
<1>9. ASSUME NEW d \in deciding, DecideApply(d)
      PROVE  Counted'
  <2>1. ComesAsBefore
    BY <1>9, ApplyGives DEF DecideApply, ComesAsBefore
  <2>2. UNCHANGED wakeVars \/ UNCHANGED <<wake, told, notes, chain, early, queue, watch>>
    BY <1>9 DEF DecideApply
  <2> QED
    BY <2>1, <2>2, CalmKeeps DEF WatchKept, wakeVars
<1>10. CASE PlanSwitch
  <2>1. ComesAsBefore
    BY <1>10, SwitchGives DEF PlanSwitch, ComesAsBefore
  <2>2. UNCHANGED wakeVars \/ UNCHANGED <<wake, told, notes, chain, early, queue, watch>>
    BY <1>10 DEF PlanSwitch
  <2> QED
    BY <2>1, <2>2, CalmKeeps DEF WatchKept, wakeVars
<1>11. CASE PlanStart
  <2>1. ComesAsBefore
    BY <1>11, ReserveGives DEF PlanStart, ComesAsBefore
  <2>2. UNCHANGED wakeVars \/ UNCHANGED <<wake, told, notes, chain, early, queue, watch>>
    BY <1>11 DEF PlanStart
  <2> QED
    BY <2>1, <2>2, CalmKeeps DEF WatchKept, wakeVars
<1>12. ASSUME NEW t \in Turns, RefuseTurn(t)
      PROVE  Counted'
  <2>1. ComesAsBefore
    BY <1>12 DEF RefuseTurn, ComesAsBefore, Refuse, Ended, NoTurn, Typed, TurnType, TurnRecord
  <2>2. UNCHANGED wakeVars \/ UNCHANGED <<wake, told, notes, chain, early, queue, watch>>
    BY <1>12 DEF RefuseTurn, Refuse
  <2> QED
    BY <2>1, <2>2, CalmKeeps DEF WatchKept, wakeVars
<1>13. ASSUME NEW t \in Turns, PresentPlan(t)
      PROVE  Counted'
  <2>1. ComesAsBefore
    BY <1>13 DEF PresentPlan, ComesAsBefore, Typed, TurnType, TurnRecord
  <2>2. UNCHANGED wakeVars \/ UNCHANGED <<wake, told, notes, chain, early, queue, watch>>
    BY <1>13 DEF PresentPlan
  <2> QED
    BY <2>1, <2>2, CalmKeeps DEF WatchKept, wakeVars
<1>14. ASSUME NEW t \in Turns, Release(t)
      PROVE  Counted'
  BY <1>14, ReleaseKeeps
<1>15. ASSUME NEW t \in Turns, OpenTurn(t)
      PROVE  Counted'
  BY <1>15, OpenKeeps
<1>16. ASSUME NEW x \in Texts, WakeCheck(x)
      PROVE  Counted'
  BY <1>16, CheckKeeps
<1>17. ASSUME NEW x \in Texts, WakeStart(x)
      PROVE  Counted'
  BY <1>17, StartKeeps
<1>18. CASE Handle
  BY <1>18, HandleKeeps
<1>19. CASE DeleteEnd
  BY <1>19, DeleteKeeps
<1>20. CASE Restart
  BY <1>20, RestartKeeps
<1>21. ASSUME NEW kind \in {"wakes", "final"}, Notify(kind)
      PROVE  Counted'
  BY <1>21, NotifyKeeps
<1>22. CASE Watch
  <2>1. watch'.last = Len(notes)
    BY <1>22 DEF Watch
  <2> QED
    BY <1>22, <2>1, CalmKeeps DEF Watch, WatchKept, ComesAsBefore, chatVars
<1>23. CASE Unwatch
  <2>1. ~ watch'.open
    BY <1>23 DEF Unwatch, Typed, WakeType
  <2> QED
    BY <1>23, <2>1, CalmKeeps DEF Unwatch, WatchKept, ComesAsBefore, chatVars
<1>24. ASSUME NEW c \in Calls, NEW answer \in Answers, DecideRead(c, answer)
      PROVE  Counted'
  BY <1>24, CalmKeeps DEF DecideRead, WatchKept, ComesAsBefore, chatVars, wakeVars
<1>25. ASSUME NEW decision \in {"auto", "manual", "revise"}, PlanRead(decision)
      PROVE  Counted'
  BY <1>25, CalmKeeps DEF PlanRead, WatchKept, ComesAsBefore, chatVars, wakeVars
<1>26. ASSUME NEW c \in Calls, CardWritten(c)
      PROVE  Counted'
  BY <1>26, CalmKeeps DEF CardWritten, WatchKept, ComesAsBefore, chatVars, wakeVars
<1>27. ASSUME NEW c \in Calls, RowExpired(c)
      PROVE  Counted'
  BY <1>27, CalmKeeps DEF RowExpired, WatchKept, ComesAsBefore, chatVars, wakeVars
<1>28. ASSUME NEW c \in Calls, ExpireCard(c)
      PROVE  Counted'
  BY <1>28, CalmKeeps DEF ExpireCard, WatchKept, ComesAsBefore, chatVars, wakeVars
<1>29. ASSUME NEW d \in deciding, DecideWrite(d)
      PROVE  Counted'
  BY <1>29, CalmKeeps DEF DecideWrite, WatchKept, ComesAsBefore, chatVars, wakeVars
<1>30. CASE PlanWrite
  BY <1>30, CalmKeeps DEF PlanWrite, WatchKept, ComesAsBefore, chatVars, wakeVars
<1>31. ASSUME NEW t \in Turns, NEW c \in Calls, NEW kind \in Kinds, CallTool(t, c, kind)
      PROVE  Counted'
  BY <1>31, CalmKeeps DEF CallTool, WatchKept, ComesAsBefore, chatVars, wakeVars
<1>32. CASE UNCHANGED vars
  BY <1>32, CalmKeeps DEF vars, WatchKept, ComesAsBefore, chatVars, wakeVars
<1> QED
  BY <1>1, <1>2, <1>3, <1>4, <1>5, <1>6, <1>7, <1>8, <1>9, <1>10, <1>11, <1>12, <1>13, <1>14, <1>15, <1>16, <1>17, <1>18, <1>19, <1>20, <1>21, <1>22, <1>23, <1>24, <1>25, <1>26, <1>27, <1>28, <1>29, <1>30, <1>31, <1>32
  DEF Next, User, Internal, Outside, Turning, Stopping, Carding, Waking

LEMMA CountedInit == Init => Counted
<1> SUFFICES ASSUME Init PROVE Counted
  OBVIOUS
<1>1. notes = <<>> /\ chain = <<>> /\ queue = <<>> /\ \A x \in Texts : wake[x] = "none" /\ told[x] = 0
  BY DEF Init
<1>2. \A t \in Turns : ~ Coming(t)
  BY DEF Init, Coming, NoTurn
<1>3. Order
  BY <1>1, TextsOf DEF Order, ChainClimbs, UnheardIsNew, HeardIsPast, Heard, HeardOneWay, ReplayIsEarly
<1> QED
  BY <1>1, <1>2, <1>3 DEF Counted, QueuedOnce, ComingOnce, ToldIsDone

(* An update the run announces opens at most one turn, whichever of the ways *)
(* through the queue, the restarts and their replays it takes; one that came *)
(* before the replay of a boot was over at most one live.                   *)
THEOREM ToldAtMostOnce == Spec => []ToldOnce
<1>1. Init => Typed /\ Counted
  BY TypedInit, CountedInit
<1>2. Typed /\ Counted /\ [Next]_vars => (Typed /\ Counted)'
  BY TypedNext, CountedNext
<1>3. Typed /\ Counted => ToldOnce
  BY CountedIsToldOnce
<1> QED
  BY <1>1, <1>2, <1>3, PTL DEF Spec

=============================================================================
