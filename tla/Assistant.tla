----------------------------- MODULE Assistant -----------------------------
(***************************************************************************)
(* One chat of the assistant: the turns it runs in this process (one at a  *)
(* time), the cards on which a turn asks before it changes something, the  *)
(* plan it proposes, and the run it watches, whose notifications wake it.  *)
(* What is in memory (the slot, the context of the running turn, the cards *)
(* waited on, the queued updates) a restart loses; the rows it finds again.*)
(***************************************************************************)
EXTENDS Integers, FiniteSets, Sequences

CONSTANTS
  MaxTurns,   \* bound: turns, those of a wake included
  MaxCalls,   \* bound: calls of tools that change something
  MaxNotes,   \* bound: notifications of the watched run
  Budgets,    \* bounds: how often each thing may happen, in each of several mixes
  WakeLimit,  \* settings: maxWakesPerRun
  Modes,      \* the modes the chat may be put in
  Kinds,      \* kinds of change the model asks for
  Answers,    \* what the user may answer on a card
  Ops         \* the operations offered in this instance

AllModes   == {"manual", "auto", "plan"}
AllKinds   == {"change", "destroy", "uncertain"}
AllAnswers == {"yes", "yes_auto", "yes_turn", "no"}
AllOps     == {"refused", "interrupt", "mode", "plan", "watch", "unwatch", "delete"}
\* messages and decided plans, tool calls, notifications, restarts, operations;
\* and how many answers to cards may be under way at once
Budget     == [starts : Nat, calls : 0..MaxCalls, notes : 0..MaxNotes, restarts : Nat,
               ops : Nat, answers : Nat]

ASSUME AssistantAssumption ==
  /\ {MaxTurns, MaxCalls, MaxNotes} \subseteq Nat
  /\ WakeLimit \in Nat \ {0}
  /\ Budgets \subseteq Budget
  /\ \A b \in Budgets : b.starts + 2 * b.notes <= MaxTurns
  /\ Modes \subseteq AllModes
  /\ Kinds \subseteq AllKinds
  /\ Answers \subseteq AllAnswers
  /\ Ops \subseteq AllOps

VARIABLES
  \* rows
  chat,      \* assistant_session: its mode, its status, whether it is there
  status,    \* the turn_status item of each turn
  plan,      \* the state of the last plan item
  watch,     \* assistant_watch: open, the newest note acted on, wakes counted
  notes,     \* the run's notifications: how final each of them is
  \* memory of the process
  active,    \* the turn that holds the chat's slot, 0 for none
  context,   \* the turn whose tools a mode change reaches, 0 for none
  turn,      \* [Turns -> record], the calls of startTurn under way
  call,      \* [Calls -> record], tool calls, with the card of each
  deciding,  \* calls of decideApproval under way
  planning,  \* the call of decidePlan under way
  chain,     \* what the watch service still handles: notes, or Replay
  serving,   \* the text whose wake the chain waits for
  wake,      \* [Texts -> step], where each update is on its way to the chat
  queue,     \* pendingWakes
  \* ghosts, and what is left of the bounds
  consent,   \* [Turns -> SUBSET Grants], why a turn may go on without a card
  early,     \* notes announced while a boot's replay was still to come
  told,      \* [Texts -> Nat], how many turns opened with it
  left

chatVars == <<chat, status, plan, active, context, turn>>
cardVars == <<call, deciding, consent>>
wakeVars == <<watch, notes, early, chain, serving, wake, queue, told>>
vars == <<chatVars, cardVars, wakeVars, planning, left>>

Turns == 1..MaxTurns
Calls == 1..MaxCalls
Notes == 1..MaxNotes
\* What a note comes to the chat as: live, or found again at boot.
Texts  == Notes \X {"live", "replay"}
None   == <<0, "none">>
Replay == 0

Busy    == {t \in Turns : turn[t].phase \in {"reading", "opening", "running", "ending"}}
There   == chat.there # "no"
Waiting == {c \in Calls : call[c].step = "waiting"}

\* "rest": the user answered "yes_turn" on a card of this turn.  "stray": such an
\* answer, given in an earlier turn, reached this one.  "missed": it was in Auto
\* when the chat left Auto, and was not told.
Grants == {"rest", "stray", "missed"}

Spend(what) == left' = [left EXCEPT ![what] = @ - 1]

(* ------------------------------- turns ---------------------------------- *)

NoTurn == [phase |-> "none", by |-> "user", text |-> None, mode |-> "manual",
           pre |-> FALSE, planned |-> FALSE, sees |-> FALSE, aborted |-> FALSE]
Ended  == [NoTurn EXCEPT !.phase = "done"]

(* The slot is taken before anything is awaited. *)
Reserve(by, text) ==
  \E t \in Turns :
    /\ turn[t].phase = "none"
    /\ \A j \in Turns : j < t => turn[j].phase # "none"
    /\ active' = t
    /\ turn' = [turn EXCEPT ![t] =
         [NoTurn EXCEPT !.phase = "reading", !.by = by, !.text = text]]

(* startTurn from the user; with a turn running it is refused. *)
StartTurn ==
  /\ left.starts > 0
  /\ active = 0
  /\ Reserve("user", None)
  /\ Spend("starts")
  /\ UNCHANGED <<chat, status, plan, context, cardVars, wakeVars, planning>>

(* A chat that is gone: prepareTurn throws, and the slot is let go, whoever *)
(* holds it.                                                                *)
Refuse(t) ==
  /\ active' = 0
  /\ turn' = [turn EXCEPT ![t] = Ended]
  /\ UNCHANGED <<chat, status, plan, context, told>>

(* prepareTurn up to its first write: the chat and its open cards are read. *)
ReadChat(t) ==
  /\ turn[t].phase = "reading"
  /\ IF There
     THEN /\ turn' = [turn EXCEPT ![t].phase = "opening",
                                  ![t].mode = chat.mode,
                                  ![t].sees = plan = "pending"]
          /\ UNCHANGED <<chat, status, plan, active, context, serving, told>>
     ELSE /\ Refuse(t)
          /\ serving' = IF serving = turn[t].text THEN None ELSE serving
  /\ UNCHANGED <<cardVars, watch, notes, early, chain, wake, queue, planning, left>>

(* prepareTurn refuses what the message brings: an attachment, or an answer *)
(* to a question that is no longer open.                                    *)
RefuseTurn(t) ==
  /\ "refused" \in Ops
  /\ turn[t].phase = "reading" /\ turn[t].by = "user"
  /\ Refuse(t)
  /\ UNCHANGED <<cardVars, watch, notes, early, chain, serving, wake, queue, planning, left>>

(* The rest of prepareTurn and the head of runTurn: the plan it saw open is *)
(* dismissed when the user moved on, its items are written, and its context *)
(* (with the mode read before) is what the tools and a mode change see.     *)
OpenTurn(t) ==
  /\ turn[t].phase = "opening"
  /\ serving' = IF serving = turn[t].text THEN None ELSE serving
  /\ IF There
     THEN /\ plan' = IF turn[t].by = "user" /\ turn[t].sees THEN "dismissed" ELSE plan
          /\ status' = [status EXCEPT ![t] = "running"]
          /\ chat' = [chat EXCEPT !.status = "running"]
          /\ context' = t
          /\ turn' = [turn EXCEPT ![t].phase = "running"]
          /\ told' = IF turn[t].text = None THEN told
                     ELSE [told EXCEPT ![turn[t].text] = @ + 1]
          /\ UNCHANGED active
     ELSE Refuse(t)
  /\ UNCHANGED <<cardVars, watch, notes, early, chain, wake, queue, planning, left>>

(* Cards waited on are answered "expired" at once; their rows follow. *)
ExpireIn(cs) ==
  call' = [c \in Calls |-> IF c \in cs THEN [call[c] EXCEPT !.step = "expired"] ELSE call[c]]

Abort(t) ==
  /\ turn' = [turn EXCEPT ![t].aborted = TRUE]
  /\ ExpireIn({c \in Waiting : call[c].turn = t})

Interrupt ==
  /\ "interrupt" \in Ops /\ left.ops > 0
  /\ There
  /\ active # 0
  /\ Abort(active)
  /\ Spend("ops")
  /\ UNCHANGED <<chat, status, plan, active, context, deciding, consent, wakeVars, planning>>

(* Mutant: a card that expires does not start the clock again.              *)
TimeOutUnresumed(t) ==
  /\ turn[t].phase = "running"
  /\ ~ turn[t].aborted
  /\ \A c \in Calls : call[c].turn = t => call[c].step \notin {"waiting", "expired"} /\ call[c].answer # "expired"
  /\ Abort(t)
  /\ UNCHANGED <<chat, status, plan, active, context, deciding, consent, wakeVars, planning, left>>

(* TurnTimer: its clock stands still while a card is waited on. *)
TimeOut(t) ==
  /\ turn[t].phase = "running"
  /\ ~ turn[t].aborted
  /\ \A c \in Calls : call[c].turn = t => call[c].step \notin {"waiting", "expired"}
  /\ Abort(t)
  /\ UNCHANGED <<chat, status, plan, active, context, deciding, consent, wakeVars, planning, left>>

(* agent.runTurn returns or throws: the cards of the chat expire. *)
EndTurn(t) ==
  /\ turn[t].phase = "running"
  /\ turn' = [turn EXCEPT ![t].phase = "ending"]
  /\ ExpireIn(Waiting)
  /\ UNCHANGED <<chat, status, plan, active, context, deciding, consent, wakeVars, planning, left>>

(* Mutant: the update that is woken stays at the head of the queue.         *)
ReleaseLeavingHead(t) ==
  /\ turn[t].phase = "ending"
  /\ turn' = [turn EXCEPT ![t] = [NoTurn EXCEPT !.phase = "closing"]]
  /\ active' = 0
  /\ context' = 0
  /\ IF queue = <<>>
     THEN UNCHANGED <<queue, wake>>
     ELSE /\ queue' = queue
          /\ wake' = [wake EXCEPT ![Head(queue)] = "due"]
  /\ UNCHANGED <<chat, status, plan, cardVars, watch, notes, early, chain, serving, told, planning, left>>

(* The slot and the context are let go, and one queued update goes to wake. *)
Release(t) ==
  /\ turn[t].phase = "ending"
  /\ turn' = [turn EXCEPT ![t] = [NoTurn EXCEPT !.phase = "closing"]]
  /\ active' = 0
  /\ context' = 0
  /\ IF queue = <<>>
     THEN UNCHANGED <<queue, wake>>
     ELSE /\ queue' = Tail(queue)
          /\ wake' = [wake EXCEPT ![Head(queue)] = "due"]
  /\ UNCHANGED <<chat, status, plan, cardVars, watch, notes, early, chain, serving, told, planning, left>>

(* Its result is stored, unless the chat has been deleted meanwhile. *)
CloseTurn(t) ==
  /\ turn[t].phase = "closing"
  /\ turn' = [turn EXCEPT ![t] = Ended]
  /\ IF There
     THEN /\ status' = [status EXCEPT ![t] = "over"]
          /\ chat' = [chat EXCEPT !.status = "idle"]
     ELSE UNCHANGED <<status, chat>>
  /\ UNCHANGED <<plan, active, context, cardVars, wakeVars, planning, left>>

(* ------------------------- tool calls and cards ------------------------- *)

NoCall == [step |-> "none", turn |-> 0, kind |-> "change", card |-> "none",
           answer |-> "none", went |-> FALSE, by |-> "none"]

\* confirmChange: the answers on which the change is made.
GoesAhead(answer) == answer \in {"yes", "yes_auto"}

(* Mutant: Auto covers the restart of an uncertain request as well. *)
RightToAll(t, kind) ==
  IF turn[t].mode = "auto" THEN "auto"
  ELSE IF kind = "change" /\ turn[t].pre THEN "pre"
  ELSE "none"

(* Mutant: a yes to the rest of the turn covers its deletions as well.      *)
RightToDestroy(t, kind) ==
  IF kind # "uncertain" /\ turn[t].mode = "auto" THEN "auto"
  ELSE IF kind # "uncertain" /\ turn[t].pre THEN "pre"
  ELSE "none"

(* confirm: what goes ahead without a card of its own, and by what right.   *)
Right(t, kind) ==
  IF kind # "uncertain" /\ turn[t].mode = "auto" THEN "auto"
  ELSE IF kind = "change" /\ turn[t].pre THEN "pre"
  ELSE "none"

(* callTool for a tool that changes something.  Plan mode and a plan shown  *)
(* refuse it; then confirm lets it through, gives up, or writes a card.     *)
CallTool(t, c, kind) ==
  /\ left.calls > 0
  /\ Spend("calls")
  /\ turn[t].phase = "running"
  /\ call[c].step = "none"
  /\ \A d \in Calls : d < c => call[d].step # "none"
  /\ LET new     == [NoCall EXCEPT !.turn = t, !.kind = kind]
         refused == turn[t].mode = "plan" \/ turn[t].planned
         right   == Right(t, kind)
     IN call' = [call EXCEPT ![c] =
          IF refused THEN [new EXCEPT !.step = "over"]
          ELSE IF right # "none" THEN [new EXCEPT !.step = "over", !.went = TRUE, !.by = right]
          ELSE IF turn[t].aborted THEN [new EXCEPT !.step = "over", !.answer = "expired"]
          ELSE [new EXCEPT !.step = "asked"]]
  /\ UNCHANGED <<chatVars, deciding, consent, wakeVars, planning>>

(* Mutant: the signal is not looked at again once the card is written.      *)
CardWrittenUnchecked(c) ==
  /\ call[c].step = "asked"
  /\ call' = [call EXCEPT ![c] =
       IF ~ There THEN [@ EXCEPT !.step = "over"]
       ELSE [@ EXCEPT !.card = "pending",
                      !.step = "waiting"]]
  /\ UNCHANGED <<chatVars, deciding, consent, wakeVars, planning, left>>

(* The card is stored, and waited on unless the turn has been stopped.      *)
CardWritten(c) ==
  /\ call[c].step = "asked"
  /\ call' = [call EXCEPT ![c] =
       IF ~ There THEN [@ EXCEPT !.step = "over"]
       ELSE [@ EXCEPT !.card = "pending",
                      !.step = IF turn[call[c].turn].aborted THEN "expired" ELSE "waiting"]]
  /\ UNCHANGED <<chatVars, deciding, consent, wakeVars, planning, left>>

(* Nobody answers for APPROVAL_WAIT_MS. *)
ExpireCard(c) ==
  /\ c \in Waiting
  /\ ExpireIn({c})
  /\ UNCHANGED <<chatVars, deciding, consent, wakeVars, planning, left>>

RowExpired(c) ==
  /\ call[c].step = "expired"
  /\ call' = [call EXCEPT ![c] = [@ EXCEPT !.step = "over", !.answer = "expired",
                                           !.card = IF There THEN "expired" ELSE "none"]]
  /\ UNCHANGED <<chatVars, deciding, consent, wakeVars, planning, left>>

(* decideApproval, from two tabs perhaps: it checks, ... *)
DecideRead(c, answer) ==
  /\ Cardinality(deciding) < left.answers
  /\ There
  /\ call[c].card = "pending" /\ c \in Waiting
  /\ call[c].kind = "uncertain" => answer \in {"yes", "no"}
  /\ deciding' = deciding \cup {[call |-> c, answer |-> answer, step |-> "read"]}
  /\ UNCHANGED <<chatVars, call, consent, wakeVars, planning, left>>

GrantRest(d) ==
  consent' = IF d.answer = "yes_turn"
             THEN [consent EXCEPT ![call[d.call].turn] = @ \cup {"rest"}] ELSE consent

(* Mutant: the answer is stored as the state of the card.                   *)
DecideWriteAnswer(d) ==
  /\ d \in deciding /\ d.step = "read"
  /\ IF There
     THEN /\ call' = [call EXCEPT ![d.call].card =
                        d.answer]
          /\ deciding' = (deciding \ {d}) \cup {[d EXCEPT !.step = "written"]}
          /\ GrantRest(d)
     ELSE /\ deciding' = deciding \ {d}
          /\ UNCHANGED <<call, consent>>
  /\ UNCHANGED <<chatVars, wakeVars, planning, left>>

(* ... stores the answer, ... *)
DecideWrite(d) ==
  /\ d \in deciding /\ d.step = "read"
  /\ IF There
     THEN /\ call' = [call EXCEPT ![d.call].card =
                        IF d.answer = "no" THEN "denied" ELSE "approved"]
          /\ deciding' = (deciding \ {d}) \cup {[d EXCEPT !.step = "written"]}
          /\ GrantRest(d)
     ELSE /\ deciding' = deciding \ {d}
          /\ UNCHANGED <<call, consent>>
  /\ UNCHANGED <<chatVars, wakeVars, planning, left>>

(* ... widens what the turn that runs by now may do, and lets the tool call *)
(* go on.                                                                   *)
DecideApply(d) ==
  /\ d \in deciding /\ d.step = "written"
  /\ deciding' = deciding \ {d}
  /\ LET widened == IF context = 0 THEN turn
                    ELSE IF d.answer = "yes_auto"
                         THEN [turn EXCEPT ![context].mode = "auto"]
                    ELSE IF d.answer = "yes_turn"
                         THEN [turn EXCEPT ![context].pre = TRUE]
                    ELSE turn
     IN turn' = IF d.answer = "yes_auto" /\ ~ There THEN turn ELSE widened
  /\ chat' = IF d.answer = "yes_auto" /\ There THEN [chat EXCEPT !.mode = "auto"] ELSE chat
  /\ call' = IF d.call \in Waiting /\ (d.answer = "yes_auto" => There)
             THEN [call EXCEPT ![d.call] =
                     [@ EXCEPT !.step = "over", !.answer = d.answer, !.by = "card",
                               !.went = GoesAhead(d.answer)]]
             ELSE call
  /\ consent' = IF d.answer = "yes_turn" /\ context \notin {0, call[d.call].turn}
                THEN [consent EXCEPT ![context] = @ \cup {"stray"}] ELSE consent
  /\ UNCHANGED <<status, plan, active, context, wakeVars, planning, left>>

(* --------------------------- modes and plans ---------------------------- *)

(* Mutant: the running turn keeps the mode it began in.                     *)
SwitchedChatOnly(mode) ==
  /\ chat' = [chat EXCEPT !.mode = mode]
  /\ UNCHANGED turn
  /\ consent' = [t \in Turns |->
       IF t # context /\ turn[t].mode = "auto" /\ mode # "auto"
       THEN consent[t] \cup {"missed"} ELSE consent[t]]

(* updateSession: the chat's mode, and the running turn's.  A turn that has *)
(* read the mode and has no context yet is not told.                        *)
Switched(mode) ==
  /\ chat' = [chat EXCEPT !.mode = mode]
  /\ turn' = IF context = 0 THEN turn ELSE [turn EXCEPT ![context].mode = mode]
  /\ consent' = [t \in Turns |->
       IF t # context /\ turn[t].mode = "auto" /\ mode # "auto"
       THEN consent[t] \cup {"missed"} ELSE consent[t]]

SetMode(mode) ==
  /\ "mode" \in Ops /\ left.ops > 0
  /\ There /\ chat.mode # mode
  /\ Switched(mode)
  /\ Spend("ops")
  /\ UNCHANGED <<status, plan, active, context, call, deciding, wakeVars, planning>>

(* present_plan, in a turn in Plan mode. *)
PresentPlan(t) ==
  /\ "plan" \in Ops
  /\ turn[t].phase = "running" /\ turn[t].mode = "plan"
  /\ There
  /\ plan' = "pending"
  /\ turn' = [turn EXCEPT ![t].planned = TRUE]
  /\ UNCHANGED <<chat, status, active, context, cardVars, wakeVars, planning, left>>

(* decidePlan checks the plan and the slot, without taking it, ... *)
PlanRead(decision) ==
  /\ left.starts > 0
  /\ planning.step = "none"
  /\ There
  /\ plan = "pending" /\ active = 0
  /\ planning' = [step |-> "read", decision |-> decision]
  /\ Spend("starts")
  /\ UNCHANGED <<chatVars, cardVars, wakeVars>>

PlanWrite ==
  /\ planning.step = "read"
  /\ IF There
     THEN /\ plan' = IF planning.decision = "revise" THEN "revised" ELSE "approved"
          /\ planning' = [planning EXCEPT !.step = "written"]
     ELSE planning' = [planning EXCEPT !.step = "none"] /\ UNCHANGED plan
  /\ UNCHANGED <<chat, status, active, context, turn, cardVars, wakeVars, left>>

(* ... switches the chat to the mode the plan is carried out in, ... *)
PlanSwitch ==
  /\ planning.step = "written"
  /\ IF ~ There \/ planning.decision = "revise"
     THEN UNCHANGED <<chat, turn, consent>>
     ELSE Switched(planning.decision)
  /\ planning' = [planning EXCEPT !.step =
                    IF There \/ planning.decision = "revise" THEN "switched" ELSE "none"]
  /\ UNCHANGED <<status, plan, active, context, call, deciding, wakeVars, left>>

(* ... and starts the turn; one that has begun meanwhile refuses it.        *)
PlanStart ==
  /\ planning.step = "switched"
  /\ planning' = [planning EXCEPT !.step = "none"]
  /\ IF active = 0 THEN Reserve("user", None) ELSE UNCHANGED <<active, turn>>
  /\ UNCHANGED <<chat, status, plan, context, cardVars, wakeVars, left>>

(* ---------------------------- the watched run --------------------------- *)

(* The run's notification is stored, then announced to the watch service.   *)
Notify(kind) ==
  /\ left.notes > 0
  /\ Spend("notes")
  /\ notes' = Append(notes, kind)
  /\ chain' = Append(chain, Len(notes'))
  /\ early' = IF \E i \in DOMAIN chain : chain[i] = Replay THEN early \cup {Len(notes')} ELSE early
  /\ UNCHANGED <<chatVars, cardVars, watch, serving, wake, queue, told, planning>>

Watch ==
  /\ "watch" \in Ops /\ left.ops > 0
  /\ There /\ ~ watch.open
  /\ watch' = [open |-> TRUE, last |-> Len(notes), count |-> 0]
  /\ Spend("ops")
  /\ UNCHANGED <<chatVars, cardVars, notes, early, chain, serving, wake, queue, told, planning>>

Unwatch ==
  /\ "unwatch" \in Ops /\ left.ops > 0
  /\ watch.open
  /\ watch' = [watch EXCEPT !.open = FALSE]
  /\ Spend("ops")
  /\ UNCHANGED <<chatVars, cardVars, notes, early, chain, serving, wake, queue, told, planning>>

\* After this wake the watch is over: the run ended, or the limit is reached.
LastWake(n, count) == notes[n] = "final" \/ count >= WakeLimit

(* wakeOne: the watch moves past the note first, then the chat is woken.    *)
(* Its guard against an older note never holds for a live one: it compares  *)
(* the note's ISO time with the text PostgreSQL gives for the stored one.   *)
WakeOne(x) ==
  /\ watch' = [open  |-> ~ LastWake(x[1], watch.count + 1),
               last  |-> x[1],
               count |-> watch.count + 1]
  /\ wake' = [wake EXCEPT ![x] = "due"]
  /\ serving' = x

(* The watch service takes the next of its chain: a live note, or the       *)
(* replay, which tells an open watch the newest note it has not acted on.   *)
Handle ==
  /\ chain # <<>> /\ serving = None
  /\ chain' = Tail(chain)
  /\ LET head   == Head(chain)
         newest == Len(notes)
     IN IF ~ watch.open \/ (head = Replay /\ newest <= watch.last)
        THEN UNCHANGED <<watch, wake, serving>>
        ELSE IF head = Replay THEN WakeOne(<<newest, "replay">>)
        ELSE WakeOne(<<head, "live">>)
  /\ UNCHANGED <<chatVars, cardVars, notes, early, queue, told, planning, left>>

(* wake: told after the running turn, if there is one; else the chat is     *)
(* read, and its model and goals, ...                                       *)
WakeCheck(x) ==
  /\ wake[x] = "due"
  /\ IF active # 0
     THEN /\ queue' = Append(queue, x)
          /\ wake' = [wake EXCEPT ![x] = "queued"]
     ELSE /\ wake' = [wake EXCEPT ![x] = IF There THEN "ready" ELSE "lost"]
          /\ UNCHANGED queue
  /\ serving' = IF serving = x /\ wake'[x] # "ready" THEN None ELSE serving
  /\ UNCHANGED <<chatVars, cardVars, watch, notes, early, chain, told, planning, left>>

(* Mutant: a wake starts its turn without asking for the slot again. *)
WakeStartAnyway(x) ==
  /\ wake[x] = "ready"
  /\ Reserve("wake", x) /\ wake' = [wake EXCEPT ![x] = "turn"] /\ UNCHANGED serving
  /\ UNCHANGED <<chat, status, plan, context, cardVars, watch, notes, early, chain, queue, told,
                 planning, left>>

(* ... and a turn is started; a conflict is only logged. *)
WakeStart(x) ==
  /\ wake[x] = "ready"
  /\ IF active = 0
     THEN Reserve("wake", x) /\ wake' = [wake EXCEPT ![x] = "turn"] /\ UNCHANGED serving
     ELSE /\ wake' = [wake EXCEPT ![x] = "lost"]
          /\ serving' = IF serving = x THEN None ELSE serving
          /\ UNCHANGED <<active, turn>>
  /\ UNCHANGED <<chat, status, plan, context, cardVars, watch, notes, early, chain, queue, told,
                 planning, left>>

(* ------------------------- deletion and restart ------------------------- *)

(* deleteSession stops the turn and lets its slot go, ... *)
DeleteBegin ==
  /\ "delete" \in Ops /\ left.ops > 0
  /\ Spend("ops")
  /\ chat.there = "yes"
  /\ chat' = [chat EXCEPT !.there = "leaving"]
  /\ ExpireIn(Waiting)
  /\ turn' = IF active = 0 THEN turn ELSE [turn EXCEPT ![active].aborted = TRUE]
  /\ active' = 0
  /\ UNCHANGED <<status, plan, context, deciding, consent, wakeVars, planning>>

(* ... and once the provider's session is gone, removes the rows.           *)
DeleteEnd ==
  /\ chat.there = "leaving"
  /\ chat' = [chat EXCEPT !.there = "no", !.status = "idle"]
  /\ status' = [t \in Turns |-> "none"]
  /\ plan' = "none"
  /\ call' = [c \in Calls |-> [call[c] EXCEPT !.card = "none"]]
  /\ watch' = [watch EXCEPT !.open = FALSE]
  /\ queue' = <<>>
  /\ wake' = [x \in Texts |-> IF wake[x] = "queued" THEN "lost" ELSE wake[x]]
  /\ UNCHANGED <<active, context, turn, deciding, consent, notes, early, chain, serving, told, planning, left>>

(* Mutant: the boot recovery leaves the turns it finds running.             *)
RestartForgetting ==
  /\ left.restarts > 0
  /\ Spend("restarts")
  /\ active' = 0 /\ context' = 0
  /\ turn' = [t \in Turns |-> IF turn[t].phase = "none" THEN NoTurn ELSE Ended]
  /\ status' = [t \in Turns |-> status[t]]
  /\ call' = [c \in Calls |->
       IF call[c].step = "none" THEN call[c]
       ELSE [call[c] EXCEPT !.step = "over",
                            !.card = IF @ = "pending" THEN "expired" ELSE @]]
  /\ chat' = [chat EXCEPT !.status = "idle", !.there = IF There THEN "yes" ELSE "no"]
  /\ deciding' = {}
  /\ planning' = [planning EXCEPT !.step = "none"]
  /\ chain' = <<Replay>> /\ serving' = None /\ queue' = <<>>
  /\ wake' = [x \in Texts |-> IF wake[x] \in {"due", "ready", "queued"} THEN "lost" ELSE wake[x]]
  /\ UNCHANGED <<plan, watch, notes, early, told, consent>>

(* The process stops anywhere; onModuleInit closes what it finds running,   *)
(* and only then may the watches be replayed.                               *)
Restart ==
  /\ left.restarts > 0
  /\ Spend("restarts")
  /\ active' = 0 /\ context' = 0
  /\ turn' = [t \in Turns |-> IF turn[t].phase = "none" THEN NoTurn ELSE Ended]
  /\ status' = [t \in Turns |-> IF status[t] = "running" THEN "over" ELSE status[t]]
  /\ call' = [c \in Calls |->
       IF call[c].step = "none" THEN call[c]
       ELSE [call[c] EXCEPT !.step = "over",
                            !.card = IF @ = "pending" THEN "expired" ELSE @]]
  /\ chat' = [chat EXCEPT !.status = "idle", !.there = IF There THEN "yes" ELSE "no"]
  /\ deciding' = {}
  /\ planning' = [planning EXCEPT !.step = "none"]
  /\ chain' = <<Replay>> /\ serving' = None /\ queue' = <<>>
  /\ wake' = [x \in Texts |-> IF wake[x] \in {"due", "ready", "queued"} THEN "lost" ELSE wake[x]]
  /\ UNCHANGED <<plan, watch, notes, early, told, consent>>

(* ------------------------------ the system ------------------------------ *)

Init ==
  /\ \E mode \in Modes : chat = [mode |-> mode, status |-> "idle", there |-> "yes"]
  /\ consent = [t \in Turns |-> {}]
  /\ status = [t \in Turns |-> "none"]
  /\ plan = "none"
  /\ watch = [open |-> TRUE, last |-> 0, count |-> 0]
  /\ notes = <<>>
  /\ early = {}
  /\ active = 0 /\ context = 0
  /\ turn = [t \in Turns |-> NoTurn]
  /\ call = [c \in Calls |-> NoCall]
  /\ deciding = {}
  /\ planning = [step |-> "none", decision |-> "revise"]
  /\ chain = <<>> /\ serving = None
  /\ wake = [x \in Texts |-> "none"]
  /\ queue = <<>>
  /\ told = [x \in Texts |-> 0]
  /\ left \in Budgets

Turning(t) == ReadChat(t) \/ OpenTurn(t) \/ Release(t) \/ CloseTurn(t)
Stopping(t) == turn[t].aborted /\ EndTurn(t)
Carding(c) == CardWritten(c) \/ RowExpired(c)
Waking(x)  == WakeCheck(x) \/ WakeStart(x)

User ==
  \/ StartTurn \/ Interrupt \/ Watch \/ Unwatch \/ DeleteBegin
  \/ \E mode \in Modes : SetMode(mode)
  \/ \E c \in Calls, answer \in Answers : DecideRead(c, answer)
  \/ \E decision \in {"auto", "manual", "revise"} : PlanRead(decision)

(* What the process does by itself, its timers included. *)
Internal ==
  \/ \E t \in Turns : Turning(t) \/ TimeOut(t) \/ Stopping(t)
  \/ \E c \in Calls : Carding(c) \/ ExpireCard(c)
  \/ \E d \in deciding : DecideWrite(d) \/ DecideApply(d)
  \/ PlanWrite \/ PlanSwitch \/ PlanStart
  \/ Handle
  \/ \E x \in Texts : Waking(x)
  \/ DeleteEnd

(* The model, the run that is watched, and the machine. *)
Outside ==
  \/ \E t \in Turns : RefuseTurn(t) \/ EndTurn(t) \/ PresentPlan(t)
  \/ \E t \in Turns, c \in Calls, kind \in Kinds : CallTool(t, c, kind)
  \/ \E kind \in {"wakes", "final"} : Notify(kind)
  \/ Restart

Next == User \/ Internal \/ Outside

Spec == Init /\ [][Next]_vars

(* As long as the process has something to do, it does some of it; the model *)
(* may talk on, and nobody has to answer.                                    *)
FairSpec == Spec /\ WF_vars(Internal)

(* ------------------------------ properties ------------------------------ *)

TypeOK ==
  /\ chat \in [mode : AllModes, status : {"idle", "running"}, there : {"yes", "leaving", "no"}]
  /\ status \in [Turns -> {"none", "running", "over"}]
  /\ plan \in {"none", "pending", "approved", "revised", "dismissed"}
  /\ watch \in [open : BOOLEAN, last : 0..MaxNotes, count : Nat]
  /\ Len(notes) <= MaxNotes /\ \A n \in 1..Len(notes) : notes[n] \in {"wakes", "final"}
  /\ active \in {0} \cup Turns /\ context \in {0} \cup Turns
  /\ turn \in [Turns -> [phase : {"none", "reading", "opening", "running", "ending", "closing",
                                  "done"},
                         by : {"user", "wake"}, text : Texts \cup {None}, mode : AllModes,
                         pre : BOOLEAN, planned : BOOLEAN, sees : BOOLEAN, aborted : BOOLEAN]]
  /\ call \in [Calls -> [step : {"none", "asked", "waiting", "expired", "over"},
                         turn : {0} \cup Turns, kind : AllKinds,
                         card : {"none", "pending", "approved", "denied", "expired"},
                         answer : AllAnswers \cup {"none", "expired"}, went : BOOLEAN,
                         by : {"none", "auto", "pre", "card"}]]
  /\ deciding \subseteq [call : Calls, answer : AllAnswers, step : {"read", "written"}]
  /\ planning \in [step : {"none", "read", "written", "switched"},
                   decision : {"auto", "manual", "revise"}]
  /\ wake \in [Texts -> {"none", "due", "ready", "queued", "turn", "lost"}]
  /\ serving \in Texts \cup {None}
  /\ consent \in [Turns -> SUBSET Grants]
  /\ early \subseteq Notes /\ told \in [Texts -> Nat]

(* "reserve the slot before any await so two requests can't both start a    *)
(* turn": messages, decided plans and wakes meet in startTurn, and while    *)
(* the chat is there every turn under way is the one that holds the slot,   *)
(* so it is also the only one.                                              *)
OneTurn == chat.there = "yes" => \A t \in Busy : active = t

(* What the chat changes, the user agrees to, whatever the turns, tabs and   *)
(* mode switches in between.  A change is made on a yes to its own card that *)
(* is still waited on, and for the restart of an uncertain request on a      *)
(* plain yes only; or in a chat that is in Auto at that moment, which never  *)
(* covers such a restart; or after a yes to the whole turn on a card of this *)
(* very turn, which covers neither that nor a deletion.  Two gaps of the     *)
(* code are told apart (Grants): a switch that does not reach a turn being   *)
(* prepared (SwitchReaches) and a late answer that reaches the next turn     *)
(* (RestIsOneTurn).                                                          *)
OnItsCard(c) ==
  /\ c \in Waiting
  /\ \E d \in deciding \ deciding' :
       /\ d.call = c /\ d.step = "written" /\ GoesAhead(d.answer)
       /\ call[c].kind = "uncertain" => d.answer = "yes"
InAuto(t)    == chat.mode = "auto" \/ "missed" \in consent[t]
ForItsRest(t) == consent[t] \cap {"rest", "stray"} # {}
ConsentFirst ==
  [][\A c \in Calls : ~ call[c].went /\ call'[c].went =>
       \/ OnItsCard(c)
       \/ call'[c].kind # "uncertain" /\ InAuto(call'[c].turn)
       \/ call'[c].kind = "change" /\ ForItsRest(call'[c].turn)]_vars

(* Nothing the rows show as under way is without something in this process  *)
(* that will end it, after a restart least of all: a turn shown running is  *)
(* on its way to its end, a card shown pending has a call behind it, and a  *)
(* stopped turn leaves no card to wait on, even one being written as it was *)
(* stopped ("its abort listener would never fire").                         *)
NothingIsStranded ==
  /\ \A t \in Turns :
       status[t] = "running" => turn[t].phase \in {"running", "ending", "closing"}
  /\ chat.status = "running" =>
       \E t \in Turns : turn[t].phase \in {"running", "ending", "closing"}
  /\ \A c \in Calls : call[c].card = "pending" => call[c].step \in {"waiting", "expired"}
  /\ \A c \in Waiting : ~ turn[call[c].turn].aborted

(* An update of the run opens at most one turn, whatever way it takes there: *)
(* started at once, queued behind a turn, handed on by one turn and queued   *)
(* again behind another, or found again by the replay after a restart that   *)
(* lost it.  One that is announced before the replay of a boot has run may   *)
(* be told by both (ToldAgain), and by the live one once.                     *)
ToldOnce ==
  \A n \in Notes :
    /\ told[<<n, "live">>] <= 1
    /\ n \notin early => told[<<n, "live">>] + told[<<n, "replay">>] <= 1

(* Every turn ends, with nobody answering and a model that never stops:     *)
(* cards expire, the clock runs on, the abort reaches the agent.            *)
TurnsEnd == []<>(\A t \in Turns : turn[t].phase \in {"none", "done"})

(* "Run updates that arrived while the chat was busy: told once the turn    *)
(* ends" (assistant.service.ts): an update that waits is told.              *)
UpdatesAreTold ==
  \A x \in Texts : wake[x] = "queued" ~> (wake[x] = "turn" \/ chat.there # "yes")

(* "yes to this and every other change in the rest of the turn"             *)
(* (assistant.dto.ts): the change whose card was answered so is made.       *)
YesTurnIsYes == \A c \in Calls : call[c].answer = "yes_turn" => call[c].went

(* "in the rest of the turn" (assistant.dto.ts): the answer covers no turn  *)
(* but the one its card was asked in.                                       *)
RestIsOneTurn == \A t \in Turns : turn[t].pre => "rest" \in consent[t]

(* "so a mode change reaches it" (assistant.service.ts): no turn works in   *)
(* Auto in a chat that has left it.                                         *)
SwitchReaches ==
  \A t \in Turns : turn[t].phase = "running" /\ turn[t].mode = "auto" => chat.mode = "auto"

(* "notifications newer than a watch last acted on are replayed"            *)
(* (assistant-watch.service.ts), and wakeOne means to skip the others: no   *)
(* update opens two turns, the replay's included.                           *)
ToldAgain == \A n \in Notes : told[<<n, "live">>] + told[<<n, "replay">>] <= 1
=============================================================================
