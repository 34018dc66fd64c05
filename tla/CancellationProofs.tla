------------------------- MODULE CancellationProofs -------------------------
(* Theorems about what becomes of attempts that nobody works on any more and *)
(* of those whose row several parties write: what a cancelled run has        *)
(* settled, which outcomes stay, and what is released although the provider  *)
(* charges for it.                                                           *)
EXTENDS BudgetProofs

-----------------------------------------------------------------------------
(* Cancellation: what a reconciler that finishes has covered.                *)

Retired(a) == pc[a] # "idle" /\ epochOf[a] < epoch
(* Nothing is set aside for the attempt, and nothing will be. *)
Done(a) == Settled(a) \/ (~HasReservation(a) /\ Retired(a))

LEMMA EpochStep ==
  ASSUME Typed, [Next]_vars
  PROVE  /\ epoch \in Nat /\ epoch' \in Nat
         /\ \/ epoch' = epoch + 1 /\ state' \in {"RUNNING", "CANCELLING"}
            \/ /\ epoch' = epoch
               /\ \/ state' = state
                  \/ state \in {"RUNNING", "PAUSING"} /\ state' # "CANCELLED"
                  \/ /\ state = "CANCELLING" /\ state' = "CANCELLED"
                     /\ \E r \in Reconciler : ReconcileDone(r)
<1>0. epoch \in Nat
  BY LimitsAssumption DEF Typed, RunRowType
<1>1. CASE Run
  BY <1>0, <1>1 DEF Run, Pause, Halt, Resume, Cancel, Raise, runRow
<1>2. CASE Sweeping
  BY <1>0, <1>2 DEF Sweeping, SweepSelect, SweepStops, SweepSettle, SweepMark, runRow
<1>3. ASSUME NEW r \in Reconciler, Reconciling(r), ~ReconcileDone(r) PROVE UNCHANGED runRow
  BY <1>3 DEF Reconciling, ReconcileSelect, ReconcileStops, ReconcileAsk, ReconcileBook,
     ReconcileMark
<1>4. ASSUME NEW r \in Reconciler, ReconcileDone(r)
      PROVE  epoch' = epoch /\ (state' = state \/ (state = "CANCELLING" /\ state' = "CANCELLED"))
  BY <1>4 DEF ReconcileDone
<1>5. ASSUME NEW a \in Attempt, Own(a) PROVE UNCHANGED runRow
  BY <1>5 DEF Own, Loop, Submitting, Polling, Finishing, BeginAttempt, RefuseBudget,
     ReserveBudget, MarkReserved, Admit, SubmitJob, SubmitRejected, SubmitThrows, MarkSubmitted,
     StoreHandle, PollDone, PollFailed, PollPending, PollExhausted, PollThrows, StopJob,
     StartFetch, FetchAnswers, FetchThrows, SettleAttempt, RecordOutput, RecordEnd,
     RecordRefusal, StopIfRunNotRunning, RecordFailedPoll, RecordError, JudgeCheckFailed,
     DeferQc, PayForVerdict, JudgeQcFailed, Finalize, FinishAttempt, Replay, Kill, JobRuns,
     Expire
<1>6. UNCHANGED vars => UNCHANGED runRow
  BY DEF vars
<1> QED
  BY <1>0, <1>1, <1>2, <1>3, <1>4, <1>5, <1>6, StepKinds DEF runRow

LEMMA IdleStep ==
  ASSUME Typed, [Next]_vars, NEW a \in Attempt
  PROVE  \/ BeginAttempt(a)
         \/ (pc'[a] = "idle" <=> pc[a] = "idle") /\ epochOf'[a] = epochOf[a]
<1>1. CASE Own(a)
  <2>1. Go(a, StartOf(a)) => (pc'[a] = "idle" <=> pc[a] = "idle")
    BY AgainPlaces DEF InSubmit, InFetch, InTimeout, InVerdict, Settling
  <2>2. CASE Replay(a)
    BY <2>1, <2>2 DEF Replay, StepAgain, row
  <2> QED
    BY <1>1, <2>1, <2>2 DEF Own, Loop, Submitting, Polling, Finishing, RefuseBudget,
       ReserveBudget, MarkReserved, Admit, SubmitJob, SubmitRejected, SubmitThrows,
       MarkSubmitted, StoreHandle, PollDone, PollFailed, PollPending,
       PollExhausted, PollThrows, StopJob, StartFetch, FetchAnswers, FetchThrows,
       SettleAttempt, RecordOutput, RecordEnd, RecordRefusal, StopIfRunNotRunning,
       RecordFailedPoll, RecordError, RecordDiscarded, JudgeCheckFailed, DeferQc,
       PayForVerdict, JudgeQcFailed, Finalize, FinishAttempt, Judged, Deliver, Close, Settling,
       Kill, Boundary, JobRuns, Expire, StepEnds, StepAgain, Go, Typed, EngineType, engine, row
<1>2. CASE ~Own(a)
  BY <1>2, OwnOrKept DEF Kept, Alone
<1> QED
  BY <1>1, <1>2

LEMMA RetiredStays ==
  ASSUME Typed, [Next]_vars, NEW a \in Attempt
  PROVE  /\ Retired(a) => Retired(a)'
         /\ Retired(a)' /\ epoch' = epoch => Retired(a)
<1>1. epochOf[a] \in Nat /\ epochOf'[a] \in Nat
  BY TypedNext, LimitsAssumption DEF Typed, RowType
<1>2. epoch' \in Nat /\ epoch \in Nat /\ epoch <= epoch'
  BY EpochStep
<1>3. BeginAttempt(a) => pc[a] = "idle" /\ epochOf'[a] = epoch
  BY DEF BeginAttempt, Typed, RowType
<1> QED
  BY <1>1, <1>2, <1>3, IdleStep DEF Retired

LEMMA SettledStays ==
  ASSUME Typed, SetAside, [Next]_vars, NEW a \in Attempt, Settled(a)
  PROVE  Settled(a)'
<1>1. ASSUME NEW b \in Attempt, Reserve(b) PROVE Settled(a)'
  BY <1>1, ReserveEffect
<1>2. ASSUME NEW b \in Attempt, NEW c \in Nat, HasReservation(b), SettlesNow(b, c)
      PROVE  Settled(a)'
  BY <1>2, SettleEffect
<1> QED
  BY <1>1, <1>2, LedgerStep, UnchangedLedger

LEMMA ReservedBySelf ==
  ASSUME Typed, SetAside, [Next]_vars, NEW a \in Attempt, HasReservation(a)', ~HasReservation(a)
  PROVE  ReserveBudget(a) /\ epochOf[a] = epoch /\ pc[a] = "reserve"
<1>1. CASE UNCHANGED books
  BY <1>1, UnchangedLedger DEF books
<1>2. ASSUME NEW b \in Attempt, ReserveBudget(b), b # a PROVE FALSE
  <2>1. UNCHANGED Account(a)
    BY <1>2, ReserveEffect DEF ReserveBudget
  <2>2. Account(a) = "none" /\ Account(a)' # "none"
    BY DEF Account
  <2> QED
    BY <2>1, <2>2
<1>3. ASSUME NEW q \in Nat, RecordActual(q) PROVE FALSE
  BY <1>3, UnchangedLedger DEF RecordActual
<1>4. ASSUME NEW b \in Attempt, HasReservation(b), SettlesNow(b, cost[b]) PROVE FALSE
  <2>1. cost[b] \in Nat
    BY DEF Typed, EngineType
  <2> QED
    BY <1>4, <2>1, SettleEffect
<1>5. ReserveBudget(a) => epochOf[a] = epoch /\ pc[a] = "reserve"
  BY DEF ReserveBudget, Refusal
<1> QED
  BY <1>1, <1>2, <1>3, <1>4, <1>5, BooksStep

LEMMA DoneStays ==
  ASSUME Typed, SetAside, [Next]_vars, NEW a \in Attempt, Done(a)
  PROVE  Done(a)'
<1>1. CASE Settled(a)
  BY <1>1, SettledStays DEF Done
<1>2. CASE ~HasReservation(a) /\ Retired(a)
  <2>1. epochOf[a] # epoch
    BY <1>2, EpochStep, LimitsAssumption DEF Retired, Typed, RowType
  <2> QED
    BY <1>2, <2>1, ReservedBySelf, RetiredStays DEF Done
<1> QED
  BY <1>1, <1>2 DEF Done

Begun ==
  \A a \in Attempt :
    /\ epochOf[a] <= epoch
    /\ pc[a] = "idle" <=> phase[a] = "none"
    /\ pc[a] = "idle" => ~HasReservation(a)
(* Whoever marks an attempt settled has settled its money first. *)
Afterwards == {"record", "failing", "check", "judge", "judged", "committed"}
Booked ==
  /\ \A a \in Attempt : pc[a] \in Afterwards => Settled(a)
  /\ \A t \in sweeping : Settled(t[1])
  /\ \A a \in Attempt : phase[a] = "settled" /\ a \notin closed => Done(a)
  /\ \A a \in stopped : Done(a)
(* A reconciler works on retired attempts, one at a time. *)
Careful ==
  \A r \in Reconciler :
    /\ \A t \in recon[r].todo : Retired(t.attempt) /\ (t.stopped => Done(t.attempt))
    /\ \A t \in recon[r].now :
         Retired(t.attempt) /\ (t.booked \/ t.stopped => Done(t.attempt))
    /\ \A t \in recon[r].now : \A u \in recon[r].now : t = u

LEMMA PhaseStep ==
  ASSUME Typed, [Next]_vars, NEW a \in Attempt, ~Own(a)
  PROVE  \/ phase'[a] = phase[a] /\ outcome'[a] = outcome[a] /\ (a \in stopped' <=> a \in stopped)
         \/ /\ phase'[a] = "settled"
            /\ a \in stopped' <=> a \in stopped
            /\ \E t \in sweeping : t[1] = a /\ SweepMark(t)
         \/ /\ phase'[a] = "settled"
            /\ a \in stopped => a \in stopped'
            /\ \E r \in Reconciler : \E t \in recon[r].now :
                 t.attempt = a /\ t.booked /\ ReconcileMark(r, t)
<1>1. ASSUME NEW b \in Attempt, Own(b)
      PROVE  phase'[a] = phase[a] /\ outcome'[a] = outcome[a] /\ (a \in stopped' <=> a \in stopped)
  BY <1>1, OthersKeep
<1>2. CASE Run \/ UNCHANGED vars
  BY <1>2 DEF Run, Pause, Halt, Resume, Cancel, Raise, row, vars
<1>3. CASE SweepSelect \/ SweepStops \/ \E t \in sweep : SweepSettle(t)
  BY <1>3 DEF SweepSelect, SweepStops, SweepSettle, row
<1>4. ASSUME NEW t \in sweeping, SweepMark(t)
      PROVE  \/ phase'[a] = phase[a] /\ outcome'[a] = outcome[a]
             \/ phase'[a] = "settled" /\ t[1] = a
  BY <1>4 DEF SweepMark, Phased, Typed, RowType
<1>5. ASSUME NEW t \in sweeping, SweepMark(t) PROVE UNCHANGED stopped
  BY <1>5 DEF SweepMark
<1>6. ASSUME NEW r \in Reconciler,
             \/ ReconcileSelect(r) \/ ReconcileDone(r) \/ ReconcileStops(r)
             \/ \E t \in recon[r].todo : ReconcileAsk(r, t)
             \/ \E t \in recon[r].now : ReconcileBook(r, t)
      PROVE  UNCHANGED row
  BY <1>6 DEF ReconcileSelect, ReconcileDone, ReconcileStops, ReconcileAsk, ReconcileBook
<1>7. ASSUME NEW r \in Reconciler, NEW t \in recon[r].now, ReconcileMark(r, t)
      PROVE  /\ t.booked
             /\ a \in stopped => a \in stopped'
             /\ \/ /\ phase'[a] = phase[a] /\ outcome'[a] = outcome[a]
                   /\ a \in stopped' <=> a \in stopped
                \/ phase'[a] = "settled" /\ t.attempt = a
  BY <1>7 DEF ReconcileMark, KeepConfirmed, Phased, Typed, RowType
<1> QED
  BY <1>1, <1>2, <1>3, <1>4, <1>5, <1>6, <1>7, StepKinds DEF Sweeping, Reconciling, row

LEMMA OwnPhase ==
  ASSUME Typed, NEW a \in Attempt, Own(a)
  PROVE  /\ phase'[a] = phase[a] \/ (phase'[a] # "none" /\ (pc[a] # "idle" \/ BeginAttempt(a)))
         /\ phase'[a] = "settled" /\ a \notin closed'
              => phase[a] = "settled" \/ pc[a] \in Afterwards
         /\ UNCHANGED stopped
         /\ closed \subseteq closed'
         /\ pc'[a] \in Afterwards => SettleAttempt(a) \/ pc[a] \in Afterwards
         /\ BeginAttempt(a) => phase'[a] # "none" /\ pc'[a] = "reserve"
<1>0. Go(a, StartOf(a)) /\ pc'[a] \in Afterwards => pc[a] \in Afterwards
  BY AgainPlaces DEF Afterwards, InVerdict
<1>1. CASE BeginAttempt(a) \/ MarkReserved(a) \/ Admit(a) \/ RecordOutput(a)
  BY <1>1 DEF BeginAttempt, MarkReserved, Admit, RecordOutput, Phased, Go, Typed, RowType,
     EngineType, Afterwards
<1>2. CASE \/ SubmitJob(a) \/ SubmitRejected(a) \/ SubmitThrows(a)
           \/ PollDone(a) \/ PollFailed(a) \/ PollExhausted(a) \/ PollThrows(a) \/ StopJob(a)
           \/ StartFetch(a) \/ Kill(a)
  BY <1>2 DEF SubmitJob, SubmitRejected, SubmitThrows, PollDone, PollFailed, PollExhausted,
     PollThrows, StopJob, StartFetch, Kill, BeginAttempt, Go, Typed, RowType, EngineType, row,
     Afterwards
<1>3. CASE \/ RefuseBudget(a) \/ StoreHandle(a) \/ RecordEnd(a) \/ RecordRefusal(a)
           \/ RecordFailedPoll(a) \/ RecordError(a) \/ JudgeCheckFailed(a) \/ DeferQc(a)
           \/ JudgeQcFailed(a) \/ FinishAttempt(a) \/ Replay(a)
  <2>1. pc[a] # "idle"
    BY <1>3, ReplayPlaces DEF RefuseBudget, StoreHandle, RecordEnd, RecordRefusal,
       RecordFailedPoll, RecordError, JudgeCheckFailed, DeferQc, JudgeQcFailed, FinishAttempt
  <2>2. \/ Go(a, StartOf(a)) \/ Go(a, "ended")
        \/ Go(a, "stored") \/ (Go(a, "judge") /\ pc[a] = "check")
    BY <1>3 DEF RefuseBudget, StoreHandle, RecordEnd, RecordRefusal, RecordFailedPoll,
       RecordError, JudgeCheckFailed, DeferQc, JudgeQcFailed, FinishAttempt, Replay, StepEnds,
       StepAgain
  <2>3. pc'[a] \in Afterwards => pc[a] \in Afterwards
    BY <1>0, <2>2 DEF Go, Typed, EngineType, Afterwards
  <2>4. /\ phase'[a] = phase[a] \/ phase'[a] # "none"
        /\ phase'[a] = "settled" /\ a \notin closed'
             => phase[a] = "settled" \/ pc[a] \in Afterwards
        /\ UNCHANGED stopped
        /\ closed \subseteq closed'
    BY <1>3 DEF RefuseBudget, StoreHandle, RecordEnd, RecordRefusal, RecordFailedPoll,
       RecordDiscarded, RecordError, JudgeCheckFailed, DeferQc, JudgeQcFailed, FinishAttempt,
       Replay, Close, Phased, Typed, RowType, row, Afterwards
  <2> QED
    BY <2>1, <2>3, <2>4 DEF BeginAttempt
<1>4. CASE \/ ReserveBudget(a) \/ MarkSubmitted(a) \/ PollPending(a) \/ FetchAnswers(a)
           \/ FetchThrows(a) \/ PayForVerdict(a) \/ JobRuns(a) \/ Expire(a)
           \/ SettleAttempt(a)
  BY <1>4 DEF ReserveBudget, MarkSubmitted, PollPending, FetchAnswers, SettleAttempt,
     FetchThrows, PayForVerdict, JobRuns, Expire, BeginAttempt,
     Go, Typed, RowType, EngineType, row, engine, Afterwards
<1>5. CASE StopIfRunNotRunning(a) \/ Finalize(a)
  BY <1>5 DEF StopIfRunNotRunning, Finalize, Judged, Deliver, RecordDiscarded, BeginAttempt,
     Phased, Go, Typed, RowType, EngineType, row, Afterwards
<1> QED
  BY <1>1, <1>2, <1>3, <1>4, <1>5 DEF Own, Loop, Submitting, Polling, Finishing

LEMMA BegunInit == Init => Begun /\ Booked /\ Careful
<1> SUFFICES ASSUME Init PROVE Begun /\ Booked /\ Careful
  OBVIOUS
<1>1. Begun
  BY DEF Init, NoMoney, Begun, HasReservation, Rows
<1>2. Booked /\ Careful
  BY DEF Init, Booked, Careful, NoWork, Afterwards
<1> QED
  BY <1>1, <1>2

LEMMA BegunNext == Typed /\ SetAside /\ Begun /\ Booked /\ Careful /\ [Next]_vars => Begun'
<1> SUFFICES ASSUME Typed, SetAside, Begun, Booked, Careful, [Next]_vars,
                    NEW a \in Attempt
             PROVE  /\ epochOf'[a] <= epoch'
                    /\ pc'[a] = "idle" <=> phase'[a] = "none"
                    /\ pc'[a] = "idle" => ~HasReservation(a)'
  BY DEF Begun
<1>1. epochOf'[a] <= epoch'
  <2>1. epochOf[a] \in Nat /\ epochOf[a] <= epoch
    BY LimitsAssumption DEF Typed, RowType, Begun
  <2>2. epochOf'[a] = epochOf[a] \/ epochOf'[a] = epoch
    BY IdleStep DEF BeginAttempt, Typed, RowType
  <2>3. epoch \in Nat /\ epoch' \in Nat /\ epoch <= epoch'
    BY EpochStep
  <2> QED
    BY <2>1, <2>2, <2>3
<1>2. pc'[a] = "idle" <=> phase'[a] = "none"
  <2>1. CASE Own(a)
    BY <2>1, OwnPhase, IdleStep DEF Begun
  <2>2. CASE ~Own(a)
    <3>1. pc'[a] = pc[a]
      BY <2>2, OwnOrKept DEF Kept, Alone
    <3>2. CASE phase'[a] = phase[a]
      BY <3>1, <3>2 DEF Begun
    <3>3. CASE \E t \in sweeping : t[1] = a
      BY <2>2, <3>1, <3>3, PhaseStep DEF Begun, Booked, SetAside
    <3>4. CASE \E r \in Reconciler : \E t \in recon[r].now : t.attempt = a
      BY <2>2, <3>1, <3>4, PhaseStep DEF Begun, Careful, Retired
    <3> QED
      BY <2>2, <3>2, <3>3, <3>4, PhaseStep
  <2> QED
    BY <2>1, <2>2
<1>3. pc'[a] = "idle" => ~HasReservation(a)'
  BY ReservedBySelf, IdleStep DEF Begun, BeginAttempt, Go, Typed, EngineType
<1> QED
  BY <1>1, <1>2, <1>3

LEMMA BookedNext == Typed /\ SetAside /\ Begun /\ Booked /\ Careful /\ [Next]_vars => Booked'
<1> SUFFICES ASSUME Typed, SetAside, Begun, Booked, Careful, [Next]_vars PROVE Booked'
  OBVIOUS
<1>1. ASSUME NEW a \in Attempt, pc'[a] \in Afterwards
      PROVE  Settled(a)'
  <2>1. CASE SettleAttempt(a)
    <3>1. HasReservation(a) /\ cost[a] \in Nat /\ SettlesNow(a, cost[a])
      BY <2>1 DEF SettleAttempt, SettlesNow, SetAside, Holding, Place, Typed, EngineType
    <3> QED
      BY <3>1, SettleEffect
  <2>2. CASE ~SettleAttempt(a)
    BY <1>1, <2>2, OwnPhase, OwnOrKept, SettledStays DEF Booked, Kept, Alone
  <2> QED
    BY <2>1, <2>2
<1>2. ASSUME NEW t \in sweeping' PROVE Settled(t[1])'
  <2>1. t \in sweeping \/ (t \in sweep /\ SweepSettle(t))
    BY StepKinds, OwnScope DEF Run, Pause, Halt, Resume, Cancel, Raise, Sweeping, SweepSelect,
       SweepStops, SweepSettle, SweepMark, Reconciling, ReconcileSelect, ReconcileDone,
       ReconcileStops, ReconcileAsk, ReconcileBook, ReconcileMark, cleanup, vars
  <2>2. t[1] \in Attempt
    BY <2>1 DEF Typed, CleanupType
  <2>3. CASE t \in sweeping
    BY <2>2, <2>3, SettledStays DEF Booked
  <2>4. CASE t \in sweep /\ SweepSettle(t)
    <3>1. HasReservation(t[1]) /\ SettlesNow(t[1], 0)
      BY <2>4 DEF SetAside, SweepSettle, SettlesNow
    <3> QED
      BY <2>2, <3>1, SettleEffect
  <2> QED
    BY <2>1, <2>3, <2>4
<1>3. ASSUME NEW a \in Attempt PROVE phase'[a] = "settled" /\ a \notin closed' => Done(a)'
  <2>1. (phase[a] = "settled" /\ a \notin closed) \/ pc[a] \in Afterwards => Done(a)
    BY DEF Booked, Done
  <2>2. CASE Own(a)
    BY <2>1, <2>2, OwnPhase, DoneStays
  <2>3. CASE ~Own(a)
    <3>1. a \in closed' <=> a \in closed
      BY <2>3, OwnOrKept DEF Kept
    <3>2. (\E t \in sweeping : t[1] = a) => Done(a)
      BY DEF Booked, Done
    <3>3. (\E r \in Reconciler : \E t \in recon[r].now : t.attempt = a /\ t.booked) => Done(a)
      BY DEF Careful
    <3> QED
      BY <2>1, <2>3, <3>1, <3>2, <3>3, PhaseStep, DoneStays
  <2> QED
    BY <2>2, <2>3
<1>4. ASSUME NEW a \in Attempt, a \in stopped' PROVE Done(a)'
  <2>1. CASE a \in stopped
    BY <2>1, DoneStays DEF Booked
  <2>2. CASE a \notin stopped
    <3>1. ~Own(a)
      BY <1>4, <2>2, OwnPhase
    <3>2. \E r \in Reconciler : \E t \in recon[r].now : t.attempt = a /\ t.booked
      BY <1>4, <2>2, <3>1, PhaseStep
    <3> QED
      BY <3>2, DoneStays DEF Careful
  <2> QED
    BY <2>1, <2>2
<1>5. stopped' \subseteq Attempt
  BY TypedNext DEF Typed, RowType
<1> QED
  BY <1>1, <1>2, <1>3, <1>4, <1>5 DEF Booked

LEMMA ReconStep ==
  ASSUME Typed, [Next]_vars, NEW r \in Reconciler
  PROVE  recon'[r] = recon[r] \/ Reconciling(r)
<1>1. ASSUME NEW q \in Reconciler, Reconciling(q), q # r PROVE recon'[r] = recon[r]
  BY <1>1 DEF Reconciling, ReconcileSelect, ReconcileDone, ReconcileStops, ReconcileAsk,
     ReconcileBook, ReconcileMark, Typed, CleanupType
<1> QED
  BY <1>1, StepKinds, OwnScope DEF Run, Pause, Halt, Resume, Cancel, Raise, Sweeping,
     SweepSelect, SweepStops, SweepSettle, SweepMark, cleanup, vars

Found ==
  {[attempt |-> a, phase |-> phase[a], handled |-> a \in handled, stopped |-> a \in stopped] :
     a \in {b \in Attempt : epochOf[b] < epoch /\ (phase[b] \in Unsettled \/ Interrupted(b))}}

(* What each step makes of what a reconciler is doing. *)
LEMMA ReconEffect ==
  ASSUME Typed, NEW r \in Reconciler, Reconciling(r)
  PROVE  \/ /\ ReconcileSelect(r) /\ state = "CANCELLING" /\ UNCHANGED <<runRow, row, money>>
            /\ recon'[r] = [doing |-> TRUE, epoch |-> epoch, now |-> {}, todo |-> Found]
         \/ recon'[r] = NoWork
         \/ \E t \in recon[r].todo, confirmed, billed \in BOOLEAN :
              /\ recon[r].now = {} /\ UNCHANGED <<row, money>>
              /\ Ask(t, confirmed, billed)
              /\ recon'[r] = Asked(recon[r], t, confirmed, billed)
         \/ \E t \in recon[r].now :
              /\ ReconcileBook(r, t) /\ ~t.booked
              /\ recon'[r] = [recon[r] EXCEPT !.now = {[t EXCEPT !.booked = TRUE]}]
         \/ \E t \in recon[r].now :
              /\ ReconcileMark(r, t) /\ t.booked
              /\ recon'[r] = [recon[r] EXCEPT !.now = {}]
<1>0. recon \in [Reconciler -> Work]
  BY DEF Typed, CleanupType
<1>1. CASE ReconcileSelect(r)
  BY <1>0, <1>1 DEF ReconcileSelect, Found
<1>2. CASE ReconcileDone(r) \/ ReconcileStops(r)
  BY <1>0, <1>2 DEF ReconcileDone, ReconcileStops
<1>3. ASSUME NEW t \in recon[r].todo, ReconcileAsk(r, t)
      PROVE  \E confirmed, billed \in BOOLEAN :
               /\ recon[r].now = {} /\ UNCHANGED <<row, money>>
               /\ Ask(t, confirmed, billed)
               /\ recon'[r] = Asked(recon[r], t, confirmed, billed)
  <2>1. PICK confirmed \in BOOLEAN, billed \in BOOLEAN :
          /\ Ask(t, confirmed, billed)
          /\ recon' = [recon EXCEPT ![r] = Asked(recon[r], t, confirmed, billed)]
    BY <1>3 DEF ReconcileAsk
  <2>2. recon'[r] = Asked(recon[r], t, confirmed, billed)
    BY <1>0, <2>1
  <2>3. recon[r].now = {} /\ UNCHANGED <<row, money>>
    BY <1>3 DEF ReconcileAsk
  <2> QED
    BY <2>1, <2>2, <2>3
<1>4. ASSUME NEW t \in recon[r].now, ReconcileBook(r, t)
      PROVE  ~t.booked /\ recon'[r] = [recon[r] EXCEPT !.now = {[t EXCEPT !.booked = TRUE]}]
  BY <1>0, <1>4 DEF ReconcileBook
<1>5. ASSUME NEW t \in recon[r].now, ReconcileMark(r, t)
      PROVE  t.booked /\ recon'[r] = [recon[r] EXCEPT !.now = {}]
  BY <1>0, <1>5 DEF ReconcileMark
<1> QED
  BY <1>1, <1>2, <1>3, <1>4, <1>5 DEF Reconciling

LEMMA Asking ==
  ASSUME NEW work \in Work, NEW t \in Candidate, NEW confirmed, NEW billed
  PROVE  LET asked == Asked(work, t, confirmed, billed)
             told  == [attempt |-> t.attempt, stopped |-> t.stopped, booked |-> FALSE,
                       confirmed |-> confirmed, billed |-> billed]
         IN  /\ asked.todo = work.todo \ {t} /\ asked.now = {told}
             /\ asked.doing = work.doing /\ asked.epoch = work.epoch
             /\ told.attempt = t.attempt /\ told.stopped = t.stopped /\ told.booked = FALSE
             /\ told.confirmed = confirmed /\ told.billed = billed
BY DEF Asked, Work

(* Once a reconciler has settled what it holds, nothing is left to settle. *)
LEMMA BookingSettles ==
  ASSUME Typed, SetAside, [Next]_vars, Careful, NEW r \in Reconciler, NEW t \in recon[r].now,
         ReconcileBook(r, t)
  PROVE  Done(t.attempt)'
<1>1. t.attempt \in Attempt /\ Retired(t.attempt)
  BY DEF Typed, CleanupType, Work, Answer, Careful
<1>2. CASE t.stopped \/ ~HasReservation(t.attempt)
  BY <1>1, <1>2, DoneStays DEF Careful, Done
<1>3. CASE ~t.stopped /\ HasReservation(t.attempt)
  <2>1. SettlesNow(t.attempt, 0)
    BY <1>3 DEF ReconcileBook, SettlesNow
  <2> QED
    BY <1>1, <1>3, <2>1, SettleEffect DEF Done
<1> QED
  BY <1>2, <1>3

LEMMA FoundFields ==
  ASSUME Typed, Begun, Booked, NEW t \in Found
  PROVE  /\ t \in Candidate /\ t.attempt \in Attempt /\ Retired(t.attempt)
         /\ t.phase = phase[t.attempt]
         /\ t.handled <=> t.attempt \in handled
         /\ t.stopped <=> t.attempt \in stopped
         /\ t.stopped => Done(t.attempt)
         /\ t.phase \in Unsettled \/ Interrupted(t.attempt)
<1>1. PICK a \in Attempt :
        /\ epochOf[a] < epoch /\ (phase[a] \in Unsettled \/ Interrupted(a))
        /\ t = [attempt |-> a, phase |-> phase[a], handled |-> a \in handled,
                stopped |-> a \in stopped]
  BY DEF Found
<1>2. t.attempt = a /\ t.phase = phase[a] /\ t.handled = (a \in handled)
      /\ t.stopped = (a \in stopped)
  BY <1>1
<1>3. pc[a] # "idle"
  BY <1>1 DEF Begun, Unsettled, Interrupted
<1>4. (a \in handled) \in BOOLEAN /\ (a \in stopped) \in BOOLEAN /\ phase[a] \in Phase
  BY DEF Typed, RowType
<1>5. t \in Candidate
  BY <1>1, <1>4 DEF Candidate
<1> QED
  BY <1>1, <1>2, <1>3, <1>5 DEF Retired, Booked

LEMMA CarefulNext == Typed /\ SetAside /\ Begun /\ Booked /\ Careful /\ [Next]_vars => Careful'
<1> SUFFICES ASSUME Typed, SetAside, Begun, Booked, Careful, [Next]_vars, NEW r \in Reconciler
             PROVE  /\ \A t \in recon'[r].todo :
                         Retired(t.attempt)' /\ (t.stopped => Done(t.attempt)')
                    /\ \A t \in recon'[r].now :
                         Retired(t.attempt)' /\ (t.booked \/ t.stopped => Done(t.attempt)')
                    /\ \A t \in recon'[r].now : \A u \in recon'[r].now : t = u
  BY DEF Careful
<1>0. /\ recon[r] \in Work
      /\ \A t \in recon[r].todo : t \in Candidate /\ t.attempt \in Attempt
      /\ \A t \in recon[r].now : t \in Answer /\ t.attempt \in Attempt
  BY DEF Typed, CleanupType, Work, Candidate, Answer
<1>1. /\ \A t \in recon[r].todo : Retired(t.attempt)' /\ (t.stopped => Done(t.attempt)')
      /\ \A t \in recon[r].now :
           Retired(t.attempt)' /\ (t.booked \/ t.stopped => Done(t.attempt)')
      /\ \A t \in recon[r].now : \A u \in recon[r].now : t = u
  BY <1>0, RetiredStays, DoneStays DEF Careful
<1>2. CASE recon'[r] = recon[r]
  BY <1>1, <1>2
<1>3. CASE recon'[r] = NoWork
  BY <1>3 DEF NoWork
<1>4. CASE recon'[r] = [doing |-> TRUE, epoch |-> epoch, now |-> {}, todo |-> Found]
  BY <1>4, FoundFields, RetiredStays, DoneStays
<1>5. ASSUME NEW t \in recon[r].todo, NEW confirmed \in BOOLEAN, NEW billed \in BOOLEAN,
             recon'[r] = Asked(recon[r], t, confirmed, billed)
      PROVE  /\ \A u \in recon'[r].todo : u \in recon[r].todo
             /\ \A u \in recon'[r].now :
                  u.attempt = t.attempt /\ u.stopped = t.stopped /\ ~u.booked
             /\ \A u \in recon'[r].now : \A w \in recon'[r].now : u = w
  <2>1. t \in Candidate /\ recon[r] \in Work
    BY <1>0
  <2> DEFINE told == [attempt |-> t.attempt, stopped |-> t.stopped, booked |-> FALSE,
                      confirmed |-> confirmed, billed |-> billed]
  <2>2. /\ recon'[r].todo = recon[r].todo \ {t} /\ recon'[r].now = {told}
        /\ told.attempt = t.attempt /\ told.stopped = t.stopped /\ ~told.booked
    BY <1>5, <2>1, Asking
  <2> HIDE DEF told
  <2> QED
    BY <2>2
<1>6. ASSUME NEW t \in recon[r].now, ReconcileBook(r, t),
             recon'[r] = [recon[r] EXCEPT !.now = {[t EXCEPT !.booked = TRUE]}]
      PROVE  /\ recon'[r].todo = recon[r].todo
             /\ \A u \in recon'[r].now : u.attempt = t.attempt
             /\ \A u \in recon'[r].now : \A w \in recon'[r].now : u = w
             /\ Done(t.attempt)'
  <2>1. Done(t.attempt)'
    BY <1>6, BookingSettles
  <2>2. [t EXCEPT !.booked = TRUE].attempt = t.attempt
    BY <1>0 DEF Answer
  <2> QED
    BY <1>0, <1>6, <2>1, <2>2 DEF Work
<1>7. ASSUME NEW t \in recon[r].now, recon'[r] = [recon[r] EXCEPT !.now = {}]
      PROVE  recon'[r].todo = recon[r].todo /\ recon'[r].now = {}
  BY <1>0, <1>7 DEF Work
<1> QED
  BY <1>1, <1>2, <1>3, <1>4, <1>5, <1>6, <1>7, ReconStep, ReconEffect

(* Money of a retired attempt that its own function will not settle any more, *)
(* and the reconciler that has yet to.                                        *)
Unbooked(a) == Retired(a) /\ Open(a) /\ a \notin closed
Covering(r, a) ==
  \/ \E t \in recon[r].todo : t.attempt = a
  \/ \E t \in recon[r].now : t.attempt = a /\ ~t.booked
Reconciled ==
  /\ \A r \in Reconciler : recon[r].doing =>
       /\ recon[r].epoch \in Nat /\ recon[r].epoch <= epoch
       /\ recon[r].epoch = epoch =>
            /\ state \in {"CANCELLING", "CANCELLED"}
            /\ \A a \in Attempt : Unbooked(a) => Covering(r, a)
  /\ state = "CANCELLED" => \A a \in Attempt : ~Unbooked(a)

LEMMA UnbookedBefore ==
  ASSUME Typed, SetAside, [Next]_vars, NEW a \in Attempt, Unbooked(a)', epoch' = epoch
  PROVE  Unbooked(a)
<1>1. Retired(a) /\ epochOf[a] # epoch
  BY RetiredStays, LimitsAssumption DEF Unbooked, Retired, Typed, RowType, RunRowType
<1>2. HasReservation(a)
  BY <1>1, ReservedBySelf DEF Unbooked, Open
<1>3. ~Settled(a)
  BY SettledStays DEF Unbooked, Open
<1>4. a \notin closed
  BY OwnPhase, OwnOrKept DEF Unbooked, Kept
<1> QED
  BY <1>1, <1>2, <1>3, <1>4 DEF Unbooked, Open

(* What a reconciler finds when it starts is all there is to settle. *)
LEMMA UnbookedFound ==
  ASSUME Typed, Begun, Booked, NEW a \in Attempt, Unbooked(a)
  PROVE  \E t \in Found : t.attempt = a
<1> DEFINE t == [attempt |-> a, phase |-> phase[a], handled |-> a \in handled,
                 stopped |-> a \in stopped]
<1>1. phase[a] \in Phase /\ phase[a] # "none"
  BY DEF Unbooked, Retired, Begun, Typed, RowType
<1>2. phase[a] # "settled"
  BY DEF Unbooked, Booked, Done, Open
<1>3. epochOf[a] < epoch /\ phase[a] \in Unsettled
  BY <1>1, <1>2 DEF Unbooked, Retired, Phase, Unsettled
<1>4. t \in Found /\ t.attempt = a
  BY <1>3 DEF Found
<1> QED
  BY <1>4

LEMMA ReconciledInit == Init => Reconciled
BY DEF Init, Reconciled, NoWork

LEMMA CoveringStep ==
  ASSUME Typed, SetAside, Begun, Booked, Careful, Reconciled, [Next]_vars,
         NEW r \in Reconciler, recon'[r].doing
  PROVE  /\ recon'[r].epoch \in Nat /\ recon'[r].epoch <= epoch'
         /\ recon'[r].epoch = epoch' =>
              /\ state' \in {"CANCELLING", "CANCELLED"}
              /\ \A a \in Attempt : Unbooked(a)' => Covering(r, a)'
<1>0. recon[r] \in Work /\ epoch \in Nat
  BY LimitsAssumption DEF Typed, CleanupType, RunRowType
<1>1. CASE /\ recon[r].doing /\ recon'[r].epoch = recon[r].epoch
           /\ \A a \in Attempt : Unbooked(a)' /\ Covering(r, a) => Covering(r, a)'
  <2>1. /\ recon[r].epoch \in Nat /\ recon[r].epoch <= epoch
        /\ recon[r].epoch = epoch =>
             /\ state \in {"CANCELLING", "CANCELLED"}
             /\ \A a \in Attempt : Unbooked(a) => Covering(r, a)
    BY <1>1 DEF Reconciled
  <2> QED
    BY <1>0, <1>1, <2>1, EpochStep, UnbookedBefore
<1>2. CASE recon'[r] = recon[r]
  BY <1>1, <1>2 DEF Covering
<1>3. CASE recon'[r] = NoWork
  BY <1>3 DEF NoWork
<1>4. CASE /\ state = "CANCELLING" /\ UNCHANGED <<runRow, row, money>>
           /\ recon'[r] = [doing |-> TRUE, epoch |-> epoch, now |-> {}, todo |-> Found]
  <2>1. recon'[r].epoch = epoch /\ recon'[r].todo = Found
    BY <1>4
  <2>2. epoch' = epoch /\ state' = "CANCELLING"
    BY <1>4 DEF runRow
  <2>3. ASSUME NEW a \in Attempt, Unbooked(a)' PROVE Covering(r, a)'
    BY <2>1, <2>2, <2>3, UnbookedBefore, UnbookedFound DEF Covering
  <2> QED
    BY <1>0, <2>1, <2>2, <2>3
<1>5. ASSUME NEW t \in recon[r].todo, NEW confirmed \in BOOLEAN, NEW billed \in BOOLEAN,
             recon[r].now = {}, recon'[r] = Asked(recon[r], t, confirmed, billed)
      PROVE  /\ recon'[r].doing = recon[r].doing /\ recon'[r].epoch = recon[r].epoch
             /\ \A a \in Attempt : Covering(r, a) => Covering(r, a)'
  <2>1. t \in Candidate /\ recon[r] \in Work
    BY <1>0 DEF Work
  <2> DEFINE told == [attempt |-> t.attempt, stopped |-> t.stopped, booked |-> FALSE,
                      confirmed |-> confirmed, billed |-> billed]
  <2>2. /\ recon'[r].todo = recon[r].todo \ {t} /\ recon'[r].now = {told}
        /\ told.attempt = t.attempt /\ ~told.booked
    BY <1>5, <2>1, Asking
  <2>3. recon'[r].doing = recon[r].doing /\ recon'[r].epoch = recon[r].epoch
    BY <1>5, <2>1 DEF Asked, Work
  <2> HIDE DEF told
  <2> QED
    BY <1>5, <2>2, <2>3 DEF Covering
<1>6. ASSUME NEW t \in recon[r].now, ReconcileBook(r, t), ~t.booked,
             recon'[r] = [recon[r] EXCEPT !.now = {[t EXCEPT !.booked = TRUE]}]
      PROVE  /\ recon'[r].doing = recon[r].doing /\ recon'[r].epoch = recon[r].epoch
             /\ \A a \in Attempt : Unbooked(a)' /\ Covering(r, a) => Covering(r, a)'
  <2>1. ~Unbooked(t.attempt)'
    BY <1>6, BookingSettles DEF Done, Unbooked, Open
  <2>2. \A u \in recon[r].now : u = t
    BY DEF Careful
  <2>3. /\ recon'[r].doing = recon[r].doing /\ recon'[r].epoch = recon[r].epoch
        /\ recon'[r].todo = recon[r].todo
    BY <1>0, <1>6 DEF Work
  <2> QED
    BY <2>1, <2>2, <2>3 DEF Covering
<1>7. ASSUME NEW t \in recon[r].now, t.booked, recon'[r] = [recon[r] EXCEPT !.now = {}]
      PROVE  /\ recon'[r].doing = recon[r].doing /\ recon'[r].epoch = recon[r].epoch
             /\ \A a \in Attempt : Covering(r, a) => Covering(r, a)'
  <2>1. \A u \in recon[r].now : u = t
    BY DEF Careful
  <2>2. /\ recon'[r].doing = recon[r].doing /\ recon'[r].epoch = recon[r].epoch
        /\ recon'[r].todo = recon[r].todo
    BY <1>0, <1>7 DEF Work
  <2> QED
    BY <1>7, <2>1, <2>2 DEF Covering
<1> QED
  BY <1>1, <1>2, <1>3, <1>4, <1>5, <1>6, <1>7, ReconStep, ReconEffect

LEMMA ReconciledNext ==
  Typed /\ SetAside /\ Begun /\ Booked /\ Careful /\ Reconciled /\ [Next]_vars => Reconciled'
<1> SUFFICES ASSUME Typed, SetAside, Begun, Booked, Careful, Reconciled, [Next]_vars
             PROVE  Reconciled'
  OBVIOUS
<1>1. ASSUME state' = "CANCELLED", NEW a \in Attempt PROVE ~Unbooked(a)'
  <2>1. epoch' = epoch
    BY <1>1, EpochStep
  <2>2. CASE state = "CANCELLED"
    BY <2>1, <2>2, UnbookedBefore DEF Reconciled
  <2>3. ASSUME state = "CANCELLING", NEW r \in Reconciler, ReconcileDone(r)
        PROVE  ~Unbooked(a)'
    <3>1. /\ recon[r].doing /\ recon[r].epoch = epoch
          /\ recon[r].todo = {} /\ recon[r].now = {}
      BY <1>1, <2>3 DEF ReconcileDone
    <3> QED
      BY <2>1, <3>1, UnbookedBefore DEF Reconciled, Covering
  <2> QED
    BY <1>1, <2>2, <2>3, EpochStep
<1> QED
  BY <1>1, CoveringStep DEF Reconciled

(* What a closed attempt may still hold.  A refusal can only come upon a     *)
(* reservation of its own when the submit step ran before.                   *)
Refused == {"budget_blocked", "cancelled"}
Holds(a) ==
  /\ pc[a] = "reserve" /\ HasReservation(a) => tries[a] > 0
  /\ a \in closed /\ ~Settled(a) =>
       \/ outcome[a] = "provider_error" /\ pc[a] \in {"error", "ended"}
       \/ outcome[a] \in Refused /\ tries[a] > 0
       \/ outcome[a] \in Refused /\ pc[a] = "ended" /\ ~HasReservation(a)
Given == \A a \in Attempt : Holds(a)

LEMMA GivenInit == Init => Given
BY DEF Init, NoMoney, Given, Holds, HasReservation, Rows

LEMMA TriesStep ==
  ASSUME Typed, NEW a \in Attempt, Own(a)
  PROVE  /\ tries[a] \in Nat /\ tries'[a] \in Nat /\ tries[a] <= tries'[a]
         /\ pc'[a] = "reserve" => \/ pc[a] = "reserve" /\ UNCHANGED tries
                                  \/ BeginAttempt(a) \/ tries'[a] > 0
<1>0. tries[a] \in Nat
  BY LimitsAssumption DEF Typed, EngineType
<1>1. CASE StepAgain(a)
  BY <1>0, <1>1 DEF StepAgain, Typed, EngineType
<1>2. CASE ~StepAgain(a)
  <2>1. UNCHANGED tries
    BY <1>2 DEF Own, Loop, Submitting, Polling, Finishing, BeginAttempt, RefuseBudget,
       ReserveBudget, MarkReserved, Admit, SubmitJob, SubmitRejected, SubmitThrows,
       MarkSubmitted, StoreHandle, PollDone, PollFailed, PollPending, PollExhausted,
       PollThrows, StopJob, StartFetch, FetchAnswers, FetchThrows, SettleAttempt,
       RecordOutput, RecordEnd, RecordRefusal, StopIfRunNotRunning, RecordFailedPoll,
       RecordError, JudgeCheckFailed, DeferQc, PayForVerdict, JudgeQcFailed, Finalize,
       FinishAttempt, Replay, Kill, JobRuns, Expire, StepEnds, engine
  <2>2. BeginAttempt(a) \/ pc'[a] # "reserve" \/ UNCHANGED pc
    BY <1>2 DEF Own, Loop, Submitting, Polling, Finishing, RefuseBudget,
       ReserveBudget, MarkReserved, Admit, SubmitJob, SubmitRejected, SubmitThrows,
       MarkSubmitted, StoreHandle, PollDone, PollFailed, PollPending, PollExhausted,
       PollThrows, StopJob, StartFetch, FetchAnswers, FetchThrows, SettleAttempt,
       RecordOutput, RecordEnd, RecordRefusal, StopIfRunNotRunning, RecordFailedPoll,
       RecordError, JudgeCheckFailed, DeferQc, PayForVerdict, JudgeQcFailed, Finalize,
       FinishAttempt, Replay, Kill, JobRuns, Expire, StepEnds, Go, Typed, EngineType, engine
  <2> QED
    BY <1>0, <2>1, <2>2
<1> QED
  BY <1>1, <1>2

(* An attempt's own function closes it after its money is settled, after an  *)
(* error, or because the cap refuses it.                                     *)
LEMMA ClosingStep ==
  ASSUME Typed, NEW a \in Attempt, Own(a), a \in closed', pc[a] \notin Afterwards
  PROVE  \/ /\ a \in closed /\ UNCHANGED outcome
            /\ (pc'[a] = pc[a] \/ pc[a] # "ended")
            /\ (pc[a] = "error" => pc'[a] \in {"error", "ended"})
         \/ RecordError(a) /\ outcome'[a] = "provider_error" /\ pc'[a] \in {"error", "ended"}
         \/ /\ RefuseBudget(a) /\ outcome'[a] \in Refused /\ pc[a] = "reserve"
            /\ UNCHANGED ledger
            /\ ((pc'[a] = "ended" /\ UNCHANGED tries) \/ tries'[a] > 0)
<1>1. CASE RefuseBudget(a)
  <2>1. outcome'[a] \in Refused /\ pc[a] = "reserve" /\ UNCHANGED ledger
    BY <1>1 DEF RefuseBudget, Refused, Typed, RowType, money
  <2>2. StepAgain(a) \/ (Go(a, "ended") /\ UNCHANGED tries)
    BY <1>1 DEF RefuseBudget, StepEnds
  <2>3. StepAgain(a) => tries'[a] > 0
    BY LimitsAssumption DEF StepAgain, Typed, EngineType
  <2> QED
    BY <1>1, <2>1, <2>2, <2>3 DEF Go, Typed, EngineType
<1>2. CASE RecordError(a)
  <2>1. outcome'[a] = "provider_error" /\ pc[a] = "error"
    BY <1>2 DEF RecordError, Close, Typed, RowType
  <2>2. Go(a, "ended") \/ Go(a, StartOf(a))
    BY <1>2 DEF RecordError, StepEnds, StepAgain
  <2>3. Go(a, StartOf(a)) => pc'[a] = "error"
    BY <2>1, AgainPlaces DEF InSubmit, InFetch, InTimeout, InVerdict, Settling
  <2> QED
    BY <1>2, <2>1, <2>2, <2>3 DEF Go, Typed, EngineType
<1>3. CASE StoreHandle(a) \/ Replay(a)
  <2>1. pc[a] # "ended" /\ pc[a] # "error" /\ closed' = closed /\ outcome' = outcome
    BY <1>3, ReplayPlaces, StartPlaces DEF StoreHandle, Replay, row, InSubmit, InFetch,
       InTimeout, InVerdict, Settling
  <2> QED
    BY <2>1
<1>4. CASE \/ BeginAttempt(a) \/ ReserveBudget(a) \/ MarkReserved(a) \/ Admit(a)
           \/ SubmitJob(a) \/ SubmitRejected(a) \/ SubmitThrows(a) \/ MarkSubmitted(a)
           \/ Polling(a) \/ StartFetch(a) \/ FetchAnswers(a) \/ FetchThrows(a)
           \/ SettleAttempt(a) \/ PayForVerdict(a) \/ Kill(a) \/ JobRuns(a) \/ Expire(a)
  BY <1>4 DEF BeginAttempt, ReserveBudget, MarkReserved, Admit, SubmitJob, SubmitRejected,
     SubmitThrows, MarkSubmitted, Polling, PollDone, PollFailed, PollPending, PollExhausted,
     PollThrows, StopJob, StartFetch, FetchAnswers, FetchThrows, SettleAttempt, PayForVerdict,
     Kill, Boundary, Settling, JobRuns, Expire, Go, Typed, EngineType, row, engine
<1>5. ~\/ RecordOutput(a) \/ RecordEnd(a) \/ RecordRefusal(a) \/ StopIfRunNotRunning(a)
       \/ RecordFailedPoll(a) \/ JudgeCheckFailed(a) \/ DeferQc(a) \/ JudgeQcFailed(a)
       \/ Finalize(a) \/ FinishAttempt(a)
  BY DEF Afterwards, RecordOutput, RecordEnd, RecordRefusal, StopIfRunNotRunning,
     RecordFailedPoll, JudgeCheckFailed, DeferQc, JudgeQcFailed, Finalize, Judged,
     FinishAttempt
<1> QED
  BY <1>1, <1>2, <1>3, <1>4, <1>5 DEF Own, Loop, Submitting, Finishing

LEMMA GivenNext ==
  Typed /\ SetAside /\ Begun /\ Booked /\ Careful /\ Given /\ [Next]_vars => Given'
<1> SUFFICES ASSUME Typed, SetAside, Begun, Booked, Careful, Given, [Next]_vars,
                    NEW a \in Attempt
             PROVE  Holds(a)'
  BY DEF Given
<1>0. Holds(a)
  BY DEF Given
<1>1. ~Settled(a)' => ~Settled(a) /\ pc[a] \notin Afterwards
  BY SettledStays DEF Booked
<1>2. HasReservation(a)' /\ ~HasReservation(a) =>
        ReserveBudget(a) /\ epochOf[a] = epoch /\ pc[a] = "reserve"
  BY ReservedBySelf
<1>3. CASE Own(a)
  <2>1. pc'[a] = "reserve" /\ HasReservation(a)' => tries'[a] > 0
    <3>1. CASE BeginAttempt(a)
      <4>1. ~HasReservation(a) /\ pc[a] = "idle"
        BY <3>1 DEF Begun, BeginAttempt
      <4> QED
        BY <1>2, <4>1
    <3>2. CASE pc[a] = "reserve" /\ UNCHANGED tries
      <4>1. ReserveBudget(a) => pc'[a] # "reserve"
        BY DEF ReserveBudget, Go, Typed, EngineType
      <4> QED
        BY <1>0, <1>2, <3>2, <4>1 DEF Holds
    <3> QED
      BY <1>3, <3>1, <3>2, TriesStep
  <2>2. ASSUME a \in closed', ~Settled(a)'
        PROVE  \/ outcome'[a] = "provider_error" /\ pc'[a] \in {"error", "ended"}
               \/ outcome'[a] \in Refused /\ tries'[a] > 0
               \/ outcome'[a] \in Refused /\ pc'[a] = "ended" /\ ~HasReservation(a)'
    <3>1. tries[a] \in Nat /\ tries'[a] \in Nat /\ tries[a] <= tries'[a]
      BY <1>3, TriesStep
    <3>2. CASE /\ a \in closed /\ UNCHANGED outcome
               /\ (pc'[a] = pc[a] \/ pc[a] # "ended")
               /\ (pc[a] = "error" => pc'[a] \in {"error", "ended"})
      BY <1>0, <1>1, <1>2, <2>2, <3>1, <3>2 DEF Holds
    <3>3. CASE /\ RefuseBudget(a) /\ outcome'[a] \in Refused /\ pc[a] = "reserve"
               /\ UNCHANGED ledger
               /\ ((pc'[a] = "ended" /\ UNCHANGED tries) \/ tries'[a] > 0)
      BY <1>0, <3>3, UnchangedLedger DEF Holds
    <3> QED
      BY <1>1, <1>3, <2>2, <3>2, <3>3, ClosingStep
  <2> QED
    BY <2>1, <2>2 DEF Holds
<1>4. CASE ~Own(a)
  <2>1. /\ pc'[a] = pc[a] /\ tries'[a] = tries[a] /\ (a \in closed' <=> a \in closed)
    BY <1>4, OwnOrKept DEF Kept, Alone
  <2>2. HasReservation(a)' <=> HasReservation(a)
    BY <1>2, <1>4, ReservationsStay DEF Own, Loop, Submitting
  <2>3. CASE outcome'[a] = outcome[a]
    BY <1>0, <1>1, <2>1, <2>2, <2>3 DEF Holds
  <2>4. CASE \E t \in sweeping : t[1] = a
    BY <1>0, <1>1, <2>1, <2>2, <2>4 DEF Holds, Booked
  <2>5. ASSUME NEW r \in Reconciler, NEW t \in recon[r].now, t.attempt = a, t.booked,
               ReconcileMark(r, t)
        PROVE  Holds(a)'
    <3>1. outcome'[a] = "cancelled"
      BY <2>5 DEF ReconcileMark, Typed, RowType
    <3>2. Done(a)
      BY <2>5 DEF Careful
    <3>3. pc[a] \in {"error"} => HasReservation(a)
      BY DEF SetAside, Holding, Place
    <3>4. tries[a] \in Nat
      BY LimitsAssumption DEF Typed, EngineType
    <3> QED
      BY <1>0, <1>1, <2>1, <2>2, <3>1, <3>2, <3>3, <3>4 DEF Holds, Done, Refused
  <2> QED
    BY <1>4, <2>3, <2>4, <2>5, PhaseStep
<1> QED
  BY <1>3, <1>4

(* A run that reached CANCELLED has settled the money of every attempt its   *)
(* own function left behind, those apart that it closed after an error or by *)
(* refusing them once more, however requests, events, sweeps and the         *)
(* attempts' own steps interleave, whatever a reconciler that died had read  *)
(* (RunCancellationService.settleOutstanding).                               *)
THEOREM CancelledBooked == Spec => []CancelledIsBooked
<1>1. Typed /\ SetAside /\ Reconciled /\ Given => CancelledIsBooked
  <2> SUFFICES ASSUME Typed, Reconciled, Given, state = "CANCELLED", NEW a \in Attempt,
                      epochOf[a] < epoch, pc[a] = "ended", Open(a)
               PROVE  GivenUp(a)
    BY DEF CancelledIsBooked
  <2>1. a \in closed
    BY DEF Reconciled, Unbooked, Retired
  <2>2. ~Settled(a) /\ HasReservation(a)
    BY DEF Open
  <2> QED
    BY <2>1, <2>2 DEF Given, Holds, GivenUp, Refused
<1> QED
  BY <1>1, TypedInit, TypedNext, SetAsideInit, SetAsideNext, BegunInit, BegunNext,
     BookedNext, CarefulNext, ReconciledInit, ReconciledNext, GivenInit, GivenNext, PTL DEF Spec

-----------------------------------------------------------------------------
(* Outcomes: a delivered success is overwritten for an item only, and by a   *)
(* reconciler only, as long as no reservation expires under an attempt still *)
(* at work (its expiry is moved when its job is submitted and while it is    *)
(* polled).                                                                  *)

(* Where an attempt may be once it has delivered: a step that ran again may  *)
(* fetch, check and judge it once more, and never submits it.                *)
Delivering == {"fetch", "fetching", "settle", "record", "check", "judge", "judged",
               "committed", "error", "ended"}
Written(a) ==
  /\ phase[a] = "settled" /\ Settled(a)
  /\ pc[a] \in Delivering
  /\ pc[a] \in {"settle", "record"} => verdict[a] \in Success
Stored ==
  /\ \A a \in delivered : Written(a)
  /\ \A a \in Attempt : pc[a] \in {"check", "judge", "judged", "committed"} =>
       phase[a] = "settled"
(* A reconciler takes up no whole stage that has delivered. *)
Cleared ==
  \A r \in Reconciler : \A t \in recon[r].todo \cup recon[r].now :
    t.attempt \in delivered => ItemOf[t.attempt] # 0
(* The sweep only takes up attempts whose function has ended. *)
Behind ==
  /\ \A a \in expired : pc[a] = "ended"
  /\ \A t \in sweep \cup sweeping : pc[t[1]] = "ended"
SweptFailed == \A t \in sweep \cup sweeping : t[1] \notin delivered

(* Nobody but its provider and the clock moves an attempt that has ended. *)
LEMMA EndedStep ==
  ASSUME Typed, NEW a \in Attempt, Own(a), pc[a] = "ended"
  PROVE  UNCHANGED <<row, engine, ledger>>
<1>1. ~Loop(a) /\ ~Replay(a) /\ ~Kill(a)
  BY ReplayPlaces DEF Loop, Submitting, Polling, Finishing, BeginAttempt, RefuseBudget,
     ReserveBudget, MarkReserved, Admit, SubmitJob, SubmitRejected, SubmitThrows,
     MarkSubmitted, StoreHandle, PollDone, PollFailed, PollPending, PollExhausted, PollThrows,
     StopJob, StartFetch, FetchAnswers, FetchThrows, SettleAttempt, RecordOutput, RecordEnd,
     RecordRefusal, StopIfRunNotRunning, RecordFailedPoll, RecordError, JudgeCheckFailed,
     DeferQc, PayForVerdict, JudgeQcFailed, Finalize, FinishAttempt, Judged, Settling, Kill,
     Boundary
<1>2. JobRuns(a) \/ Expire(a)
  BY <1>1 DEF Own
<1> QED
  BY <1>2 DEF JobRuns, Expire, money

LEMMA EndedStays ==
  ASSUME Typed, [Next]_vars, NEW a \in Attempt, pc[a] = "ended"
  PROVE  pc'[a] = "ended"
BY EndedStep, OwnOrKept DEF Kept, Alone, engine

LEMMA ExpiryStep ==
  ASSUME Typed, [Next]_vars, NEW a \in Attempt, a \in expired', a \notin expired
  PROVE  Expire(a)
<1>1. CASE Sweeping
  BY <1>1 DEF Sweeping, SweepSelect, SweepStops, SweepSettle, SweepMark, SettleRelease,
     SettleProvisional, Settle, money
<1>2. ASSUME NEW r \in Reconciler, Reconciling(r) PROVE UNCHANGED expired
  BY <1>2 DEF Reconciling, ReconcileSelect, ReconcileDone, ReconcileStops, ReconcileAsk,
     ReconcileBook, ReconcileMark, SettleRelease, SettleProvisional, Settle, money
<1>3. Own(a) /\ ~Expire(a) => expired' \subseteq expired
  BY DEF Own, Loop, Submitting, Polling, Finishing, BeginAttempt, RefuseBudget, ReserveBudget,
     Reserve, MarkReserved, Admit, SubmitJob, SubmitRejected, SubmitThrows, MarkSubmitted,
     MoveExpiry, StoreHandle, PollDone, PollFailed, PollPending, PollExhausted, PollThrows,
     StopJob, StartFetch, FetchAnswers, FetchThrows, SettleAttempt, SettleSuccess,
     SettleProvisional, SettleRelease, Settle, RecordOutput, RecordEnd, RecordRefusal,
     StopIfRunNotRunning, RecordFailedPoll, RecordError, JudgeCheckFailed, DeferQc,
     PayForVerdict, RecordActual, JudgeQcFailed, Finalize, FinishAttempt, Replay, Kill, JobRuns,
     money
<1>4. ASSUME NEW b \in Attempt, Own(b), b # a PROVE a \in expired' <=> a \in expired
  BY <1>4, OthersKeep
<1>5. CASE Run \/ UNCHANGED vars
  BY <1>5 DEF Run, Pause, Halt, Resume, Cancel, Raise, RaiseBudget, RaiseStageCap, money, vars
<1> QED
  BY <1>1, <1>2, <1>3, <1>4, <1>5, StepKinds

LEMMA SweepStep ==
  ASSUME Typed, [Next]_vars, NEW t \in sweep' \cup sweeping'
  PROVE  \/ t \in sweep \cup sweeping /\ (t \in sweep' => t \in sweep)
         \/ \E a \in Attempt : t = <<a, phase[a]>> /\ a \in expired /\ Open(a)
                               /\ UNCHANGED <<money, row, engine, provider>>
<1>1. CASE SweepSelect
  BY <1>1 DEF SweepSelect, Typed, MoneyType
<1>2. CASE SweepStops \/ (\E u \in sweep : SweepSettle(u)) \/ \E u \in sweeping : SweepMark(u)
  BY <1>2 DEF SweepStops, SweepSettle, SweepMark
<1>3. ASSUME NEW r \in Reconciler, Reconciling(r) PROVE UNCHANGED <<sweep, sweeping>>
  BY <1>3 DEF Reconciling, ReconcileSelect, ReconcileDone, ReconcileStops, ReconcileAsk,
     ReconcileBook, ReconcileMark
<1>4. Run \/ UNCHANGED vars => UNCHANGED <<sweep, sweeping>>
  BY DEF Run, Pause, Halt, Resume, Cancel, Raise, cleanup, vars
<1> QED
  BY <1>1, <1>2, <1>3, <1>4, StepKinds, OwnScope DEF Sweeping, cleanup

LEMMA SweptTyped ==
  ASSUME Typed, NEW t \in sweep \cup sweeping
  PROVE  t[1] \in Attempt /\ t[2] \in Phase
BY DEF Typed, CleanupType

LEMMA BehindInit == Init => Behind
BY DEF Init, NoMoney, Behind

LEMMA BehindNext == ~Late /\ Typed /\ Behind /\ [Next]_vars => Behind'
<1> SUFFICES ASSUME ~Late, Typed, Behind, [Next]_vars PROVE Behind'
  OBVIOUS
<1>0. Typed'
  BY TypedNext
<1>1. ASSUME NEW a \in expired' PROVE pc'[a] = "ended"
  <2>1. a \in Attempt
    BY <1>0 DEF Typed, MoneyType
  <2>2. pc[a] = "ended"
    BY <2>1, ExpiryStep DEF Behind, Expire
  <2> QED
    BY <2>1, <2>2, EndedStays
<1>2. ASSUME NEW t \in sweep' \cup sweeping' PROVE pc'[t[1]] = "ended"
  <2>1. CASE t \in sweep \cup sweeping
    BY <2>1, EndedStays, SweptTyped DEF Behind
  <2>2. ASSUME NEW a \in Attempt, t = <<a, phase[a]>>, a \in expired PROVE pc'[t[1]] = "ended"
    BY <2>2, EndedStays DEF Behind
  <2> QED
    BY <2>1, <2>2, SweepStep
<1> QED
  BY <1>1, <1>2 DEF Behind

(* Only the finalizing transaction of the current epoch delivers. *)
LEMMA DeliveredStep ==
  ASSUME Typed, [Next]_vars, NEW a \in Attempt, a \in delivered', a \notin delivered
  PROVE  /\ Finalize(a) /\ Deliver(a) /\ ~Retired(a) /\ Own(a)
         /\ pc[a] \in {"check", "judged"} /\ pc'[a] = "committed"
<1>1. Own(a)
  BY OwnOrKept DEF Kept
<1>2. Finalize(a)
  BY <1>1 DEF Own, Loop, Submitting, Polling, Finishing, BeginAttempt, RefuseBudget,
     ReserveBudget, MarkReserved, Admit, SubmitJob, SubmitRejected, SubmitThrows,
     MarkSubmitted, StoreHandle, PollDone, PollFailed, PollPending, PollExhausted, PollThrows,
     StopJob, StartFetch, FetchAnswers, FetchThrows, SettleAttempt, RecordOutput, RecordEnd,
     RecordRefusal, StopIfRunNotRunning, RecordFailedPoll, RecordError, RecordDiscarded,
     JudgeCheckFailed, DeferQc, PayForVerdict, JudgeQcFailed, FinishAttempt, Close, Replay,
     Kill, JobRuns, Expire, row
<1>3. Deliver(a) /\ epochOf[a] = epoch
  BY <1>2 DEF Finalize, RecordDiscarded, Current
<1>4. epoch \in Nat
  BY EpochStep
<1> QED
  BY <1>1, <1>2, <1>3, <1>4 DEF Retired, Finalize, Judged, Go, Typed, EngineType

(* What the function of an attempt that has delivered does to its row. *)
LEMMA WrittenStep ==
  ASSUME Typed, SetAside, Booked, Stored, [Next]_vars, NEW a \in Attempt, Own(a),
         a \in delivered
  PROVE  /\ Written(a)'
         /\ pc[a] \in {"committed", "ended"} => outcome'[a] = outcome[a]
<1>0. Written(a)
  BY DEF Stored
<1>1. Settled(a)'
  BY <1>0, SettledStays DEF Written
<1>2. CASE /\ phase'[a] \in {phase[a], "settled"}
           /\ pc'[a] \in Delivering
           /\ pc'[a] \in {"settle", "record"} => verdict'[a] \in Success
           /\ pc[a] \in {"committed", "ended"} => outcome'[a] = outcome[a]
  BY <1>0, <1>1, <1>2 DEF Written
<1>3. Go(a, StartOf(a)) => pc'[a] \in {pc[a], "fetch", "judge"}
  <2>1. ~InSubmit(a) /\ ~InTimeout(a)
    BY <1>0 DEF Written, Delivering, InSubmit, InTimeout, Settling, Success, Provisional
  <2> QED
    BY <2>1, AgainPlaces
<1>4. CASE \/ RecordEnd(a) \/ RecordError(a) \/ JudgeCheckFailed(a) \/ DeferQc(a)
           \/ JudgeQcFailed(a) \/ FinishAttempt(a) \/ Replay(a)
  <2>1. Go(a, StartOf(a)) \/ Go(a, "ended") \/ Go(a, "judge")
    BY <1>4 DEF RecordEnd, RecordError, JudgeCheckFailed, DeferQc, JudgeQcFailed,
       FinishAttempt, Replay, StepEnds, StepAgain
  <2>2. pc'[a] \in {pc[a], "fetch", "judge", "ended"}
    BY <1>3, <2>1 DEF Go, Typed, EngineType
  <2>3. pc'[a] \in {"settle", "record"} => verdict'[a] = verdict[a]
    BY <1>4, <2>2 DEF RecordEnd, RecordError, JudgeCheckFailed, DeferQc, JudgeQcFailed,
       FinishAttempt, Replay, Typed, EngineType
  <2>4. phase'[a] \in {phase[a], "settled"}
    BY <1>4 DEF RecordEnd, RecordError, JudgeCheckFailed, DeferQc, JudgeQcFailed,
       FinishAttempt, Replay, Close, Phased, Typed, RowType, row
  <2>5. pc[a] \in {"committed", "ended"} => outcome'[a] = outcome[a]
    BY <1>4, ReplayPlaces DEF RecordEnd, RecordError, JudgeCheckFailed, DeferQc, JudgeQcFailed,
       FinishAttempt, Replay, Close, Typed, RowType, row
  <2> QED
    BY <1>0, <1>2, <2>2, <2>3, <2>4, <2>5 DEF Written, Delivering
<1>5. CASE \/ StartFetch(a) \/ FetchAnswers(a) \/ FetchThrows(a) \/ SettleAttempt(a)
           \/ RecordOutput(a) \/ PayForVerdict(a) \/ Finalize(a) \/ Kill(a)
           \/ JobRuns(a) \/ Expire(a)
  <2>1. /\ phase'[a] \in {phase[a], "settled"}
        /\ pc[a] \in {"committed", "ended"} => outcome'[a] = outcome[a]
    BY <1>5 DEF StartFetch, FetchAnswers, FetchThrows, SettleAttempt, RecordOutput,
       PayForVerdict, Finalize, Judged, Deliver, RecordDiscarded, Kill, JobRuns, Expire,
       Phased, Typed, RowType, row
  <2>2. /\ pc'[a] \in Delivering
        /\ pc'[a] \in {"settle", "record"} => verdict'[a] \in Success
    BY <1>0, <1>5 DEF Written, Delivering, StartFetch, FetchAnswers, FetchThrows,
       SettleAttempt, RecordOutput, PayForVerdict, Finalize, Kill, JobRuns, Expire, Go,
       Typed, EngineType, engine
  <2> QED
    BY <1>2, <2>1, <2>2
<1>6. ~\/ BeginAttempt(a) \/ Submitting(a) \/ Polling(a)
  BY <1>0 DEF Written, Delivering, BeginAttempt, Submitting, RefuseBudget, ReserveBudget,
     MarkReserved, Admit, SubmitJob, SubmitRejected, SubmitThrows, MarkSubmitted, StoreHandle,
     Polling, PollDone, PollFailed, PollPending, PollExhausted, PollThrows, StopJob
<1>7. ~\/ RecordRefusal(a) \/ StopIfRunNotRunning(a) \/ RecordFailedPoll(a)
  BY <1>0 DEF Written, Delivering, RecordRefusal, StopIfRunNotRunning, RecordFailedPoll,
     Success, FailedPoll
<1> QED
  BY <1>4, <1>5, <1>6, <1>7 DEF Own, Loop, Finishing

LEMMA StoredInit == Init => Stored
BY DEF Init, Stored

LEMMA StoredNext == Typed /\ SetAside /\ Booked /\ Stored /\ [Next]_vars => Stored'
<1> SUFFICES ASSUME Typed, SetAside, Booked, Stored, [Next]_vars PROVE Stored'
  OBVIOUS
<1> DEFINE Judging == {"check", "judge", "judged", "committed"}
<1>0. Typed'
  BY TypedNext
<1>1. ASSUME NEW a \in Attempt, pc'[a] \in Judging PROVE phase'[a] = "settled"
  <2>1. CASE ~Own(a)
    <3>1. pc'[a] = pc[a]
      BY <2>1, OwnOrKept DEF Kept, Alone
    <3> QED
      BY <1>1, <2>1, <3>1, PhaseStep DEF Stored
  <2>2. CASE Own(a) /\ pc[a] \in Judging
    <3>1. phase[a] = "settled"
      BY <2>2 DEF Stored
    <3>2. ~\/ BeginAttempt(a) \/ Submitting(a)
      BY <2>2 DEF BeginAttempt, Submitting, RefuseBudget, ReserveBudget, MarkReserved, Admit,
         SubmitJob, SubmitRejected, SubmitThrows, MarkSubmitted, StoreHandle
    <3> QED
      BY <2>2, <3>1, <3>2 DEF Own, Loop, Polling, Finishing, PollDone, PollFailed, PollPending,
         PollExhausted, PollThrows, StopJob, StartFetch, FetchAnswers, FetchThrows,
         SettleAttempt, RecordOutput, RecordEnd, RecordRefusal, StopIfRunNotRunning,
         RecordFailedPoll, RecordError, RecordDiscarded, JudgeCheckFailed, DeferQc,
         PayForVerdict, JudgeQcFailed, Finalize, Deliver, FinishAttempt, Close, Replay, Kill,
         JobRuns, Expire, Phased, Typed, RowType, row
  <2>3. CASE Own(a) /\ pc[a] \notin Judging
    <3>1. Go(a, StartOf(a)) => pc'[a] \notin Judging
      BY <2>3, AgainPlaces DEF InVerdict
    <3>2. RecordOutput(a)
      BY <1>1, <2>3, <3>1 DEF Own, Loop, Submitting, Polling, Finishing, BeginAttempt,
         RefuseBudget, ReserveBudget, MarkReserved, Admit, SubmitJob, SubmitRejected,
         SubmitThrows, MarkSubmitted, StoreHandle, PollDone, PollFailed, PollPending,
         PollExhausted, PollThrows, StopJob, StartFetch, FetchAnswers, FetchThrows,
         SettleAttempt, RecordEnd, RecordRefusal, StopIfRunNotRunning, RecordFailedPoll,
         RecordError, JudgeCheckFailed, DeferQc, PayForVerdict, JudgeQcFailed, Finalize, Judged,
         FinishAttempt, Replay, Kill, JobRuns, Expire, StepEnds, StepAgain, Go, Typed,
         EngineType, engine
    <3> QED
      BY <3>2 DEF RecordOutput, Phased, Typed, RowType
  <2> QED
    BY <2>1, <2>2, <2>3
<1>2. ASSUME NEW a \in delivered' PROVE Written(a)'
  <2>0. a \in Attempt
    BY <1>0 DEF Typed, RowType
  <2>1. CASE a \notin delivered
    <3>1. pc[a] \in Afterwards /\ pc'[a] = "committed"
      BY <2>0, <2>1, DeliveredStep DEF Afterwards
    <3>2. Settled(a)' /\ phase'[a] = "settled"
      BY <2>0, <3>1, <1>1, SettledStays DEF Booked
    <3> QED
      BY <3>1, <3>2 DEF Written, Delivering
  <2>2. CASE a \in delivered /\ Own(a)
    BY <2>0, <2>2, WrittenStep
  <2>3. CASE a \in delivered /\ ~Own(a)
    <3>1. Written(a)
      BY <2>3 DEF Stored
    <3>2. pc'[a] = pc[a] /\ verdict'[a] = verdict[a]
      BY <2>0, <2>3, OwnOrKept DEF Kept, Alone
    <3>3. phase'[a] = "settled" /\ Settled(a)'
      BY <2>0, <2>3, <3>1, PhaseStep, SettledStays DEF Written
    <3> QED
      BY <3>1, <3>2, <3>3 DEF Written
  <2> QED
    BY <2>1, <2>2, <2>3
<1> QED
  BY <1>1, <1>2 DEF Stored

LEMMA ReconTyped ==
  ASSUME Typed, NEW r \in Reconciler
  PROVE  /\ recon[r] \in Work
         /\ \A t \in recon[r].todo : t \in Candidate /\ t.attempt \in Attempt
         /\ \A t \in recon[r].now : t \in Answer /\ t.attempt \in Attempt
BY DEF Typed, CleanupType, Work, Candidate, Answer

(* What a reconciler works on it had read before, or reads now. *)
LEMMA ReconWorkStep ==
  ASSUME Typed, [Next]_vars, NEW r \in Reconciler,
         NEW t \in recon'[r].todo \cup recon'[r].now
  PROVE  \/ \E u \in recon[r].todo \cup recon[r].now : t.attempt = u.attempt
         \/ t \in Found /\ UNCHANGED <<row, money>> /\ t \in recon'[r].todo
<1>0. /\ recon[r] \in Work
      /\ \A u \in recon[r].todo : u \in Candidate
      /\ \A u \in recon[r].now : u \in Answer
  BY ReconTyped
<1>1. CASE recon'[r] = recon[r]
  BY <1>1
<1>2. CASE recon'[r] = NoWork
  BY <1>2 DEF NoWork
<1>3. CASE /\ recon'[r] = [doing |-> TRUE, epoch |-> epoch, now |-> {}, todo |-> Found]
           /\ UNCHANGED <<runRow, row, money>>
  BY <1>3
<1>4. ASSUME NEW u \in recon[r].todo, NEW confirmed \in BOOLEAN, NEW billed \in BOOLEAN,
             recon'[r] = Asked(recon[r], u, confirmed, billed)
      PROVE  \E w \in recon[r].todo \cup recon[r].now : t.attempt = w.attempt
  <2>1. u \in Candidate /\ recon[r] \in Work
    BY <1>0
  <2> DEFINE told == [attempt |-> u.attempt, stopped |-> u.stopped, booked |-> FALSE,
                      confirmed |-> confirmed, billed |-> billed]
  <2>2. /\ recon'[r].todo = recon[r].todo \ {u} /\ recon'[r].now = {told}
        /\ told.attempt = u.attempt
    BY <1>4, <2>1, Asking
  <2> HIDE DEF told
  <2> QED
    BY <2>2
<1>5. ASSUME NEW u \in recon[r].now,
             recon'[r] = [recon[r] EXCEPT !.now = {[u EXCEPT !.booked = TRUE]}]
      PROVE  \E w \in recon[r].todo \cup recon[r].now : t.attempt = w.attempt
  <2>1. [u EXCEPT !.booked = TRUE].attempt = u.attempt
    BY <1>0 DEF Answer
  <2> QED
    BY <1>0, <1>5, <2>1 DEF Work
<1>6. ASSUME recon'[r] = [recon[r] EXCEPT !.now = {}]
      PROVE  \E w \in recon[r].todo \cup recon[r].now : t.attempt = w.attempt
  BY <1>0, <1>6 DEF Work
<1> QED
  BY <1>1, <1>2, <1>3, <1>4, <1>5, <1>6, ReconStep, ReconEffect

LEMMA SweptFailedInit == Init => SweptFailed /\ Cleared
BY DEF Init, SweptFailed, Cleared, NoWork

LEMMA SweptFailedNext ==
  ASSUME Typed, Stored, Behind, SweptFailed, [Next]_vars
  PROVE  SweptFailed'
<1> SUFFICES ASSUME NEW t \in sweep' \cup sweeping' PROVE t[1] \notin delivered'
  BY DEF SweptFailed
<1>1. ASSUME NEW a \in Attempt, pc[a] = "ended", a \notin delivered PROVE a \notin delivered'
  BY <1>1, DeliveredStep
<1>2. CASE t \in sweep \cup sweeping
  BY <1>1, <1>2, SweptTyped DEF Behind, SweptFailed
<1>3. ASSUME NEW a \in Attempt, t = <<a, phase[a]>>, a \in expired, Open(a)
      PROVE  t[1] \notin delivered'
  BY <1>1, <1>3 DEF Behind, Stored, Written, Open
<1> QED
  BY <1>2, <1>3, SweepStep

LEMMA ClearedNext ==
  ASSUME Typed, SetAside, Begun, Booked, Careful, Stored, Cleared, [Next]_vars
  PROVE  Cleared'
<1> SUFFICES ASSUME NEW r \in Reconciler, NEW t \in recon'[r].todo \cup recon'[r].now,
                    t.attempt \in delivered'
             PROVE  ItemOf[t.attempt] # 0
  BY DEF Cleared
<1>1. ASSUME NEW a \in Attempt, Retired(a), a \in delivered' PROVE a \in delivered
  BY <1>1, DeliveredStep
<1>2. ASSUME NEW u \in recon[r].todo \cup recon[r].now, t.attempt = u.attempt
      PROVE  ItemOf[t.attempt] # 0
  <2>1. u.attempt \in Attempt /\ Retired(u.attempt)
    BY ReconTyped DEF Careful
  <2> QED
    BY <1>1, <1>2, <2>1 DEF Cleared
<1>3. CASE t \in Found
  <2> DEFINE a == t.attempt
  <2>1. a \in Attempt /\ Retired(a) /\ (phase[a] \in Unsettled \/ Interrupted(a))
    BY <1>3, FoundFields
  <2>2. a \in delivered
    BY <1>1, <2>1
  <2>3. phase[a] = "settled"
    BY <2>2 DEF Stored, Written
  <2>4. Interrupted(a)
    BY <2>1, <2>3 DEF Unsettled
  <2>5. ASSUME ItemOf[a] = 0 PROVE FALSE
    <3>1. ~Passed(StageOf[a])
      BY <2>4, <2>5 DEF Interrupted, StageCancelled
    <3>2. PICK b \in Attempt :
            /\ StageOf[b] = StageOf[a]
            /\ ~\E c \in delivered : StageOf[c] = StageOf[a] /\ ItemOf[c] = ItemOf[b]
      BY <3>1 DEF Passed
    <3>3. ItemOf[b] = 0
      BY <2>1, <2>5, <3>2, LoopAssumption
    <3> QED
      BY <2>2, <2>5, <3>2, <3>3
  <2> QED
    BY <2>5
<1> QED
  BY <1>2, <1>3, ReconWorkStep

(* What became of an attempt is not undone: a confirmed cancellation stays   *)
(* confirmed whatever overlapping reconcilers had read before (finishSettled *)
(* keeps the flag), and as long as no reservation expires under an attempt   *)
(* at work, only a reconciler that took an item for interrupted overwrites a *)
(* delivered success whose step is not running again.                        *)
THEOREM OutcomesStay ==
  ASSUME ~Late
  PROVE  Spec => OutcomeStays
<1> DEFINE Lost(a) == \E r \in Reconciler : \E t \in recon[r].now : t.attempt = a
           Final == /\ stopped \subseteq stopped'
                    /\ \A a \in delivered :
                         outcome[a] = "success" /\ outcome'[a] # "success"
                           /\ pc[a] \in {"committed", "ended"} => ItemOf[a] # 0 /\ Lost(a)
<1>1. Typed /\ Behind /\ [Next]_vars => Behind'
  BY BehindNext
<1>2. Typed /\ SetAside /\ Begun /\ Booked /\ Careful /\ Stored /\ Behind /\ Cleared
        /\ SweptFailed /\ [Next]_vars => Cleared' /\ SweptFailed'
  BY ClearedNext, SweptFailedNext
<1>3. ASSUME Typed, SetAside, Booked, Stored, Cleared, SweptFailed, [Next]_vars
      PROVE  Final
  <2>1. ASSUME NEW a \in stopped PROVE a \in stopped'
    <3>1. a \in Attempt
      BY <1>3 DEF Typed, RowType
    <3> QED
      BY <1>3, <3>1, PhaseStep, OwnPhase
  <2>2. ASSUME NEW a \in delivered, outcome[a] = "success", outcome'[a] # "success",
               pc[a] \in {"committed", "ended"}
        PROVE  ItemOf[a] # 0 /\ Lost(a)
    <3>1. a \in Attempt
      BY <1>3 DEF Typed, RowType
    <3>2. ~Own(a)
      BY <1>3, <2>2, <3>1, WrittenStep
    <3>3. ~\E t \in sweeping : t[1] = a
      BY <1>3 DEF SweptFailed
    <3>4. Lost(a)
      BY <1>3, <2>2, <3>1, <3>2, <3>3, PhaseStep
    <3> QED
      BY <1>3, <3>4 DEF Cleared
  <2> QED
    BY <2>1, <2>2
<1>4. Typed /\ SetAside /\ Booked /\ Stored /\ Cleared /\ SweptFailed /\ [Next]_vars => Final
  BY <1>3
<1> QED
  BY <1>1, <1>2, <1>4, TypedInit, TypedNext, SetAsideInit, SetAsideNext, BegunInit,
     BegunNext, BookedNext, CarefulNext, BehindInit, StoredInit, StoredNext, SweptFailedInit,
     PTL
  DEF Spec, OutcomeStays
=============================================================================
