--------------------------- MODULE AttemptsProofs ---------------------------
(* Theorems about Attempts for every run: any attempts, providers, costs,   *)
(* caps, number of replays and number of reconcilers.                       *)
EXTENDS Attempts, TLAPS

-----------------------------------------------------------------------------
(* Type correctness: first what the ledger's methods write, then the run,   *)
(* the attempt loop in three parts, the sweep and the reconcilers.          *)

MoneyType ==
  /\ cap \in Nat
  /\ stageCap \in [Stage -> Nat \cup {NoCap}]
  /\ reserved \in Int /\ spent \in Int /\ judged \in Nat
  /\ ledger \subseteq Entry
  /\ expired \subseteq Attempt
RowType ==
  /\ epochOf \in [Attempt -> 0..MaxEpoch]
  /\ phase \in [Attempt -> Phase]
  /\ outcome \in [Attempt -> Outcome]
  /\ closed \subseteq Attempt /\ delivered \subseteq Attempt
  /\ handled \subseteq Attempt /\ stopped \subseteq Attempt
EngineType ==
  /\ pc \in [Attempt -> Place]
  /\ verdict \in [Attempt -> Verdict]
  /\ limit \in [Attempt -> Nat \cup {NoCap}]
  /\ cost \in [Attempt -> Nat]
  /\ tries \in [Attempt -> 0..MaxReplays]
ProviderType ==
  /\ job \in [Attempt -> JobState]
  /\ bill \in [Attempt -> Nat]
CleanupType ==
  /\ sweep \subseteq Attempt \X Phase /\ sweeping \subseteq Attempt \X Phase
  /\ recon \in [Reconciler -> Work]

LEMMA RowTyped ==
  ASSUME NEW a \in Attempt, NEW kind \in {"reservation", "actual", "release"},
         NEW amount \in Nat, NEW confirmed \in BOOLEAN
  PROVE  Row(a, kind, amount, confirmed) \in Entry
BY DEF Row, Entry

LEMMA ReserveType ==
  ASSUME MoneyType, NEW a \in Attempt, Reserve(a)
  PROVE  MoneyType'
<1>0. Ceiling[a] \in Nat
  BY AttemptsAssumption
<1>1. Row(a, "reservation", Ceiling[a], TRUE) \in Entry
  BY <1>0, RowTyped
<1>2. \/ UNCHANGED <<ledger, reserved>>
      \/ /\ ledger' = ledger \cup {Row(a, "reservation", Ceiling[a], TRUE)}
         /\ reserved' = reserved + Ceiling[a]
  BY DEF Reserve
<1>3. ledger' \subseteq Entry
  BY <1>1, <1>2 DEF MoneyType
<1>4. reserved' \in Int
  <2>1. UNCHANGED reserved \/ reserved' = reserved + Ceiling[a]
    BY <1>2
  <2> QED
    BY <1>0, <2>1 DEF MoneyType
<1> QED
  BY <1>3, <1>4 DEF MoneyType, Reserve

LEMMA SettleType ==
  ASSUME MoneyType, NEW a \in Attempt, NEW rows \in SUBSET Entry, NEW c \in Nat,
         Settle(a, rows, c)
  PROVE  MoneyType'
BY AttemptsAssumption DEF MoneyType, Settle

LEMMA SettlementType ==
  ASSUME MoneyType, NEW a \in Attempt, NEW c \in Nat,
         SettleSuccess(a, c) \/ SettleProvisional(a) \/ SettleRelease(a)
  PROVE  MoneyType'
<1>1. Ceiling[a] \in Nat
  BY AttemptsAssumption
<1>2. /\ {Row(a, "actual", c, TRUE), Row(a, "release", Ceiling[a], TRUE)} \in SUBSET Entry
      /\ {Row(a, "actual", Ceiling[a], FALSE)} \in SUBSET Entry
      /\ {Row(a, "release", Ceiling[a], TRUE)} \in SUBSET Entry
  BY <1>1, RowTyped
<1>3. CASE SettleSuccess(a, c)
  BY <1>2, <1>3, SettleType DEF SettleSuccess
<1>4. CASE SettleProvisional(a)
  BY <1>1, <1>2, <1>4, SettleType DEF SettleProvisional
<1>5. CASE SettleRelease(a)
  BY <1>2, <1>5, SettleType DEF SettleRelease
<1> QED
  BY <1>3, <1>4, <1>5

LEMMA OtherMoneyType ==
  ASSUME MoneyType, NEW a \in Attempt, NEW q \in Nat, RecordActual(q) \/ MoveExpiry(a)
  PROVE  MoneyType'
BY DEF MoneyType, RecordActual, MoveExpiry

RunRowType ==
  /\ state \in {"RUNNING", "PAUSING", "PAUSED_MANUAL", "PAUSED_BUDGET", "FAILED",
               "COMPLETED", "CANCELLING", "CANCELLED"}
  /\ epoch \in 0..MaxEpoch
Typed == RunRowType /\ MoneyType /\ RowType /\ EngineType /\ ProviderType /\ CleanupType

LEMMA TypeSplit == TypeOK <=> Typed
BY DEF TypeOK, Typed, RunRowType, MoneyType, RowType, EngineType, ProviderType, CleanupType

LEMMA UnchangedType ==
  /\ RunRowType /\ UNCHANGED runRow => RunRowType'
  /\ MoneyType /\ UNCHANGED money => MoneyType'
  /\ RowType /\ UNCHANGED row => RowType'
  /\ EngineType /\ UNCHANGED engine => EngineType'
  /\ ProviderType /\ UNCHANGED provider => ProviderType'
  /\ CleanupType /\ UNCHANGED cleanup => CleanupType'
BY DEF RunRowType, MoneyType, RowType, EngineType, ProviderType, CleanupType,
   runRow, money, row, engine, provider, cleanup

LEMMA RunType ==
  ASSUME Typed, Run
  PROVE  Typed'
<1>1. CASE Raise
  <2>1. MoneyType'
    BY <1>1, ChargesAssumption DEF Typed, Raise, MoneyType, RaiseBudget, RaiseStageCap
  <2>2. UNCHANGED <<runRow, row, engine, provider, cleanup>>
    BY <1>1 DEF Raise
  <2> QED
    BY <2>1, <2>2, UnchangedType DEF Typed
<1>2. CASE Pause \/ Halt \/ Resume \/ Cancel
  <2>1. RunRowType'
    BY <1>2, LimitsAssumption DEF Pause, Halt, Resume, Cancel, Typed, RunRowType
  <2>2. UNCHANGED <<money, row, engine, provider, cleanup>>
    BY <1>2 DEF Pause, Halt, Resume, Cancel
  <2> QED
    BY <2>1, <2>2, UnchangedType DEF Typed
<1> QED
  BY <1>1, <1>2 DEF Run

LEMMA BeginAttemptType ==
  ASSUME Typed, NEW a \in Attempt, BeginAttempt(a)
  PROVE  Typed'
<1> DEFINE sooner == {b \in After[a] : epochOf[b] = epoch}
<1>1. sooner \subseteq Attempt
  BY LoopAssumption
<1>2. sooner # {} => (CHOOSE b \in sooner : TRUE) \in Attempt
  BY <1>1
<1>3. stageCap[StageOf[a]] \in Nat \cup {NoCap}
  BY AttemptsAssumption DEF Typed, MoneyType
<1>4. (IF sooner = {} THEN stageCap[StageOf[a]] ELSE limit[CHOOSE b \in sooner : TRUE])
         \in Nat \cup {NoCap}
  BY <1>2, <1>3 DEF Typed, EngineType
<1>5. limit' = [limit EXCEPT ![a] =
        IF sooner = {} THEN stageCap[StageOf[a]] ELSE limit[CHOOSE b \in sooner : TRUE]]
  BY DEF BeginAttempt
<1>6. limit' \in [Attempt -> Nat \cup {NoCap}]
  BY <1>4, <1>5 DEF Typed, EngineType
<1>7. EngineType'
  BY <1>6 DEF BeginAttempt, Typed, EngineType, Go, Place
<1>8. RowType'
  BY DEF BeginAttempt, Typed, RowType, RunRowType, Phased, Phase
<1> QED
  BY <1>7, <1>8, UnchangedType DEF BeginAttempt, Typed

(* A step that runs again goes back to where it started. *)
LEMMA StartPlaces ==
  ASSUME NEW a
  PROVE  \/ StartOf(a) = "reserve" /\ InSubmit(a)
         \/ StartOf(a) = "fetch" /\ InFetch(a)
         \/ StartOf(a) = "stop" /\ InTimeout(a)
         \/ StartOf(a) = "judge" /\ InVerdict(a)
         \/ StartOf(a) = pc[a]
BY DEF StartOf

LEMMA AgainPlaces ==
  ASSUME Typed, NEW a \in Attempt, Go(a, StartOf(a))
  PROVE  \/ pc'[a] = pc[a]
         \/ pc'[a] = "reserve" /\ InSubmit(a)
         \/ pc'[a] = "fetch" /\ InFetch(a)
         \/ pc'[a] = "stop" /\ InTimeout(a)
         \/ pc'[a] = "judge" /\ InVerdict(a)
BY StartPlaces DEF Go, Typed, EngineType

LEMMA ReplayPlaces ==
  ASSUME NEW a, Replay(a)
  PROVE  pc[a] \notin {"idle", "ended"}
BY StartPlaces DEF Replay, InSubmit, InFetch, InTimeout, InVerdict, Settling

LEMMA AgainType ==
  ASSUME Typed, NEW a \in Attempt, StepAgain(a)
  PROVE  /\ pc' \in [Attempt -> Place]
         /\ tries' \in [Attempt -> 0..MaxReplays]
<1>1. StartOf(a) \in Place
  BY StartPlaces DEF Typed, EngineType, Place
<1> QED
  BY <1>1, LimitsAssumption DEF StepAgain, Go, Typed, EngineType

LEMMA EndsType ==
  ASSUME Typed, NEW a \in Attempt, NEW place \in Place, StepEnds(a, place)
  PROVE  /\ pc' \in [Attempt -> Place]
         /\ tries' \in [Attempt -> 0..MaxReplays]
BY AgainType DEF StepEnds, Go, Typed, EngineType

(* Actions that move no money. *)
LEMMA QuietType ==
  ASSUME Typed, NEW a \in Attempt,
         \/ RefuseBudget(a) \/ MarkReserved(a) \/ Admit(a) \/ SubmitJob(a)
         \/ SubmitRejected(a) \/ SubmitThrows(a) \/ StoreHandle(a)
         \/ PollDone(a) \/ PollFailed(a) \/ PollExhausted(a) \/ PollThrows(a) \/ StopJob(a)
         \/ StartFetch(a) \/ RecordOutput(a) \/ RecordEnd(a) \/ RecordRefusal(a)
         \/ StopIfRunNotRunning(a) \/ RecordFailedPoll(a) \/ RecordError(a) \/ JudgeCheckFailed(a)
         \/ DeferQc(a) \/ JudgeQcFailed(a) \/ Finalize(a) \/ FinishAttempt(a)
         \/ Replay(a) \/ Kill(a)
  PROVE  Typed'
<1>1. UNCHANGED <<runRow, money, cleanup>>
  BY DEF RefuseBudget, MarkReserved, Admit, SubmitJob, SubmitRejected, SubmitThrows,
     StoreHandle, PollDone, PollFailed, PollExhausted, PollThrows, StopJob, StartFetch,
     RecordOutput, RecordEnd, RecordRefusal, StopIfRunNotRunning, RecordFailedPoll, RecordError,
     JudgeCheckFailed, DeferQc, JudgeQcFailed, Finalize, FinishAttempt, Replay, Kill, row,
     provider, engine, StepEnds, StepAgain, Deliver
<1>2. ProviderType'
  BY DEF Typed, ProviderType, JobState, RefuseBudget, MarkReserved, Admit, SubmitJob,
     SubmitRejected, SubmitThrows, StoreHandle, PollDone, PollFailed, PollExhausted, PollThrows,
     StopJob, StartFetch, RecordOutput, RecordEnd, RecordRefusal, StopIfRunNotRunning,
     RecordFailedPoll, RecordError, JudgeCheckFailed, DeferQc, JudgeQcFailed, Finalize,
     FinishAttempt, Replay, Kill, provider, Starts, Drop, CancelAnswer
<1>3. EngineType'
  <2>1. CASE \/ RefuseBudget(a) \/ StoreHandle(a) \/ RecordEnd(a) \/ RecordRefusal(a)
             \/ RecordFailedPoll(a) \/ RecordError(a) \/ JudgeCheckFailed(a)
             \/ JudgeQcFailed(a) \/ FinishAttempt(a) \/ Replay(a)
    <3>1. pc' \in [Attempt -> Place] /\ tries' \in [Attempt -> 0..MaxReplays]
      <4>1. "ended" \in Place /\ "stored" \in Place
        BY DEF Place
      <4> QED
        BY <2>1, <4>1, EndsType, AgainType DEF RefuseBudget, StoreHandle, RecordEnd,
           RecordRefusal, RecordFailedPoll, RecordError, JudgeCheckFailed, JudgeQcFailed,
           FinishAttempt, Replay
    <3>2. UNCHANGED <<verdict, limit, cost>>
      BY <2>1 DEF RefuseBudget, StoreHandle, RecordEnd,
         RecordRefusal, RecordFailedPoll, RecordError, JudgeCheckFailed, JudgeQcFailed,
         FinishAttempt, Replay
    <3> QED
      BY <3>1, <3>2 DEF Typed, EngineType
  <2>2. CASE DeferQc(a)
    <3>1. pc' \in [Attempt -> Place] /\ tries' \in [Attempt -> 0..MaxReplays]
      BY <2>2, EndsType DEF DeferQc, Place
    <3> QED
      BY <2>2, <3>1 DEF DeferQc, Typed, EngineType, Verdict, Success
  <2>3. CASE \/ MarkReserved(a) \/ Admit(a) \/ SubmitJob(a) \/ SubmitRejected(a)
             \/ SubmitThrows(a) \/ PollDone(a) \/ PollFailed(a) \/ PollExhausted(a)
             \/ PollThrows(a) \/ StopJob(a) \/ StartFetch(a) \/ RecordOutput(a)
             \/ StopIfRunNotRunning(a) \/ Finalize(a) \/ Kill(a)
    BY <2>3 DEF Typed, EngineType, Place, Verdict, Success, Provisional, Release,
       FailedPoll, MarkReserved, Admit, SubmitJob, SubmitRejected, SubmitThrows,
       PollDone, PollFailed, PollExhausted, PollThrows, StopJob, StartFetch,
       RecordOutput, StopIfRunNotRunning, Finalize, Kill, Go
  <2> QED
    BY <2>1, <2>2, <2>3
<1>4. RowType'
  <2>1. CASE RefuseBudget(a) \/ MarkReserved(a) \/ Admit(a) \/ StoreHandle(a) \/ RecordOutput(a)
    BY <2>1 DEF Typed, RowType, Phase, Outcome, Phased, RefuseBudget, MarkReserved, Admit,
       StoreHandle, RecordOutput
  <2>2. CASE \/ RecordEnd(a) \/ RecordError(a)
             \/ JudgeCheckFailed(a) \/ JudgeQcFailed(a) \/ FinishAttempt(a)
    BY <2>2 DEF Typed, RowType, Phase, Outcome, Phased, RecordEnd, RecordError,
       JudgeCheckFailed, JudgeQcFailed, FinishAttempt, Close, OutcomeOf, Provisional
  <2>3. CASE RecordRefusal(a) \/ StopIfRunNotRunning(a) \/ Finalize(a)
    BY <2>3 DEF Typed, RowType, Phase, Outcome, Phased, RecordRefusal, StopIfRunNotRunning,
       Finalize, Deliver, RecordDiscarded, row
  <2>5. CASE RecordFailedPoll(a)
    <3>1. CASE UNCHANGED row
      BY <3>1, UnchangedType DEF Typed
    <3>2. CASE verdict[a] # "user_action" /\ Close(a, OutcomeOf[verdict[a]])
      <4>1. OutcomeOf[verdict[a]] \in Outcome
        BY <2>5, <3>2 DEF RecordFailedPoll, OutcomeOf, Outcome, FailedPoll
      <4> QED
        BY <3>2, <4>1 DEF Typed, RowType, Phase, Phased, Close
    <3> QED
      BY <2>5, <3>1, <3>2 DEF RecordFailedPoll
  <2>4. CASE \/ SubmitJob(a) \/ SubmitRejected(a) \/ SubmitThrows(a)
             \/ PollDone(a) \/ PollFailed(a) \/ PollExhausted(a) \/ PollThrows(a) \/ StopJob(a)
             \/ StartFetch(a) \/ DeferQc(a) \/ Replay(a) \/ Kill(a)
    BY <2>4, UnchangedType DEF Typed, SubmitJob, SubmitRejected, SubmitThrows, PollDone,
       PollFailed, PollExhausted, PollThrows, StopJob, StartFetch, DeferQc, Replay,
       Kill
  <2> QED
    BY <2>1, <2>2, <2>3, <2>4, <2>5
<1> QED
  BY <1>1, <1>2, <1>3, <1>4, UnchangedType DEF Typed

(* Actions that move money, or ask the provider for what it charges. *)
LEMMA MoneyActionType ==
  ASSUME Typed, NEW a \in Attempt,
         \/ ReserveBudget(a) \/ MarkSubmitted(a) \/ PollPending(a) \/ FetchAnswers(a)
         \/ FetchThrows(a) \/ SettleAttempt(a) \/ PayForVerdict(a)
         \/ JobRuns(a) \/ Expire(a)
  PROVE  Typed'
<1>1. CASE ReserveBudget(a)
  <2>1. MoneyType'
    BY <1>1, ReserveType DEF ReserveBudget, Typed
  <2>2. EngineType'
    BY <1>1 DEF ReserveBudget, Typed, EngineType, Go, Place
  <2> QED
    BY <1>1, <2>1, <2>2, UnchangedType DEF ReserveBudget, Typed
<1>2. CASE MarkSubmitted(a) \/ PollPending(a)
  <2>1. MoneyType'
    BY <1>2 DEF MarkSubmitted, PollPending, MoveExpiry, Typed, MoneyType
  <2>2. EngineType'
    BY <1>2, UnchangedType DEF MarkSubmitted, PollPending, Typed, EngineType, Go, Place, engine
  <2> QED
    BY <1>2, <2>1, <2>2, UnchangedType DEF MarkSubmitted, PollPending, Typed
<1>3. CASE FetchAnswers(a) \/ FetchThrows(a)
  <2>1. \A c \in Costs[a] \cup {0} : c \in Nat
    BY LoopAssumption
  <2>2. bill' \in [Attempt -> Nat]
    BY <1>3, <2>1 DEF FetchAnswers, FetchThrows, Charge, Typed, ProviderType
  <2>3. EngineType'
    BY <1>3, <2>1 DEF FetchAnswers, FetchThrows, Typed, EngineType, Go, Place, Verdict, Success
  <2>4. ProviderType'
    BY <1>3, <2>2 DEF FetchAnswers, FetchThrows, Typed, ProviderType
  <2> QED
    BY <1>3, <2>3, <2>4, UnchangedType DEF FetchAnswers, FetchThrows, Typed
<1>4. CASE SettleAttempt(a)
  <2>1. cost[a] \in Nat
    BY DEF Typed, EngineType
  <2>2. MoneyType'
    BY <1>4, <2>1, SettlementType DEF SettleAttempt, Typed
  <2>3. EngineType'
    BY <1>4 DEF SettleAttempt, Typed, EngineType, Go, Place
  <2> QED
    BY <1>4, <2>2, <2>3, UnchangedType DEF SettleAttempt, Typed
<1>5. CASE PayForVerdict(a)
  <2>1. MoneyType'
    BY <1>5, ChargesAssumption, OtherMoneyType DEF PayForVerdict, Typed
  <2>2. EngineType'
    BY <1>5 DEF PayForVerdict, Go, Typed, EngineType, Place
  <2> QED
    BY <1>5, <2>1, <2>2, UnchangedType DEF PayForVerdict, Typed
<1>6. CASE JobRuns(a)
  <2>1. \A c \in Costs[a] : c \in Nat
    BY LoopAssumption
  <2>2. ProviderType'
    BY <1>6, <2>1 DEF JobRuns, Charge, Typed, ProviderType, JobState
  <2> QED
    BY <1>6, <2>2, UnchangedType DEF JobRuns, Typed
<1>7. CASE Expire(a)
  <2>1. MoneyType'
    BY <1>7 DEF Expire, Typed, MoneyType
  <2> QED
    BY <1>7, <2>1, UnchangedType DEF Expire, Typed, runRow
<1> QED
  BY <1>1, <1>2, <1>3, <1>4, <1>5, <1>6, <1>7

LEMMA SweepingType ==
  ASSUME Typed, Sweeping
  PROVE  Typed'
<1>1. CASE SweepSelect \/ SweepStops
  <2>1. CleanupType'
    BY <1>1 DEF SweepSelect, SweepStops, Typed, CleanupType, RowType, MoneyType
  <2> QED
    BY <1>1, <2>1, UnchangedType DEF SweepSelect, SweepStops, Typed
<1>2. ASSUME NEW t \in sweep, SweepSettle(t) PROVE Typed'
  <2>1. t \in Attempt \X Phase /\ t[1] \in Attempt
    BY DEF Typed, CleanupType
  <2>2. MoneyType'
    BY <1>2, <2>1, SettlementType DEF SweepSettle, Typed
  <2>3. CleanupType'
    BY <1>2, <2>1 DEF SweepSettle, Typed, CleanupType
  <2> QED
    BY <1>2, <2>2, <2>3, UnchangedType DEF SweepSettle, Typed
<1>3. ASSUME NEW t \in sweeping, SweepMark(t) PROVE Typed'
  <2>1. t \in Attempt \X Phase /\ t[1] \in Attempt
    BY DEF Typed, CleanupType
  <2>2. RowType'
    BY <1>3, <2>1 DEF SweepMark, Typed, RowType, Phased, Phase, Outcome
  <2>3. CleanupType'
    BY <1>3 DEF SweepMark, Typed, CleanupType
  <2> QED
    BY <1>3, <2>2, <2>3, UnchangedType DEF SweepMark, Typed
<1> QED
  BY <1>1, <1>2, <1>3 DEF Sweeping

LEMMA ReconcilingType ==
  ASSUME Typed, NEW r \in Reconciler, Reconciling(r)
  PROVE  Typed'
<1>0. recon \in [Reconciler -> Work] /\ recon[r] \in Work
  BY DEF Typed, CleanupType
<1>1. CASE ReconcileSelect(r)
  <2> DEFINE found == {[attempt |-> a, phase |-> phase[a], handled |-> a \in handled,
                        stopped |-> a \in stopped] :
                       a \in {b \in Attempt : /\ epochOf[b] < epoch
                                              /\ phase[b] \in Unsettled \/ Interrupted(b)}}
  <2>1. found \subseteq Candidate
    <3>1. ASSUME NEW a \in Attempt, NEW h \in BOOLEAN, NEW x \in BOOLEAN
          PROVE  [attempt |-> a, phase |-> phase[a], handled |-> h, stopped |-> x] \in Candidate
      BY DEF Typed, RowType, Candidate
    <3>2. \A a \in Attempt : (a \in handled) \in BOOLEAN /\ (a \in stopped) \in BOOLEAN
      OBVIOUS
    <3>3. \A a \in Attempt : [attempt |-> a, phase |-> phase[a], handled |-> a \in handled,
                               stopped |-> a \in stopped] \in Candidate
      BY <3>1, <3>2, Zenon
    <3> QED
      BY <3>3
  <2>2. epoch \in Nat
    BY LimitsAssumption DEF Typed, RunRowType
  <2>3. [doing |-> TRUE, epoch |-> epoch, now |-> {}, todo |-> found] \in Work
    BY <2>1, <2>2 DEF Work
  <2>4. recon' = [recon EXCEPT ![r] =
                    [doing |-> TRUE, epoch |-> epoch, now |-> {}, todo |-> found]]
    BY <1>1 DEF ReconcileSelect
  <2>5. CleanupType'
    BY <1>0, <1>1, <2>3, <2>4 DEF ReconcileSelect, Typed, CleanupType
  <2> QED
    BY <1>1, <2>5, UnchangedType DEF ReconcileSelect, Typed
<1>2. ASSUME NEW t \in recon[r].todo, ReconcileAsk(r, t) PROVE Typed'
  <2>1. t \in Candidate /\ t.attempt \in Attempt
    BY <1>0 DEF Work, Candidate
  <2>2. PICK confirmed \in BOOLEAN, billed \in BOOLEAN :
          /\ Ask(t, confirmed, billed)
          /\ recon' = [recon EXCEPT ![r] = Asked(recon[r], t, confirmed, billed)]
    BY <1>2 DEF ReconcileAsk
  <2>3. Asked(recon[r], t, confirmed, billed) \in Work
    <3>1. [attempt |-> t.attempt, stopped |-> t.stopped, booked |-> FALSE,
           confirmed |-> confirmed, billed |-> billed] \in Answer
      BY <2>1 DEF Candidate, Answer
    <3> QED
      BY <1>0, <3>1 DEF Work, Asked
  <2>4. recon' \in [Reconciler -> Work]
    BY <1>0, <2>2, <2>3
  <2>5. job' \in [Attempt -> JobState]
    BY <2>1, <2>2 DEF Ask, CancelAnswer, Drop, Typed, ProviderType, JobState
  <2>6. CleanupType' /\ ProviderType'
    BY <1>2, <2>4, <2>5 DEF ReconcileAsk, Typed, CleanupType, ProviderType
  <2> QED
    BY <1>2, <2>6, UnchangedType DEF ReconcileAsk, Typed
<1>3. ASSUME NEW t \in recon[r].now, ReconcileBook(r, t) PROVE Typed'
  <2>1. t \in Answer /\ t.attempt \in Attempt
    BY <1>0 DEF Work, Answer
  <2>2. MoneyType'
    BY <1>3, <2>1, SettlementType, UnchangedType DEF ReconcileBook, Typed
  <2>3. [t EXCEPT !.booked = TRUE] \in Answer
    BY <2>1 DEF Answer
  <2>4. recon' \in [Reconciler -> Work]
    BY <1>0, <1>3, <2>3 DEF ReconcileBook, Work
  <2>5. CleanupType'
    BY <1>3, <2>4 DEF ReconcileBook, Typed, CleanupType
  <2> QED
    BY <1>3, <2>2, <2>5, UnchangedType DEF ReconcileBook, Typed
<1>4. ASSUME NEW t \in recon[r].now, ReconcileMark(r, t) PROVE Typed'
  <2>1. t.attempt \in Attempt
    BY <1>0 DEF Work, Answer
  <2>2. RowType'
    BY <1>4, <2>1 DEF ReconcileMark, KeepConfirmed, Phased, Typed, RowType, Phase, Outcome
  <2>3. recon' \in [Reconciler -> Work]
    BY <1>0, <1>4 DEF ReconcileMark, Work
  <2>4. CleanupType'
    BY <1>4, <2>3 DEF ReconcileMark, Typed, CleanupType
  <2> QED
    BY <1>4, <2>2, <2>4, UnchangedType DEF ReconcileMark, Typed
<1>5. CASE ReconcileDone(r) \/ ReconcileStops(r)
  <2>1. NoWork \in Work
    BY DEF NoWork, Work
  <2>2. CleanupType'
    BY <1>0, <1>5, <2>1 DEF ReconcileDone, ReconcileStops, Typed, CleanupType
  <2>3. RunRowType'
    BY <1>5 DEF ReconcileDone, ReconcileStops, runRow, Typed, RunRowType
  <2> QED
    BY <1>5, <2>2, <2>3, UnchangedType DEF ReconcileDone, ReconcileStops, Typed
<1> QED
  BY <1>1, <1>2, <1>3, <1>4, <1>5 DEF Reconciling

LEMMA TypedInit == Init => Typed
<1> SUFFICES ASSUME Init PROVE Typed
  OBVIOUS
<1>1. RunRowType /\ ProviderType
  BY LimitsAssumption DEF Init, RunRowType, ProviderType, JobState
<1>2. MoneyType
  BY CapsAssumption DEF Init, NoMoney, MoneyType
<1>3. RowType
  BY LimitsAssumption DEF Init, RowType, Phase, Outcome
<1>4. EngineType
  BY LimitsAssumption DEF Init, EngineType, Place, Verdict, Success
<1>5. CleanupType
  BY DEF Init, CleanupType, NoWork, Work
<1> QED
  BY <1>1, <1>2, <1>3, <1>4, <1>5 DEF Typed

LEMMA TypedNext == Typed /\ [Next]_vars => Typed'
<1> SUFFICES ASSUME Typed, [Next]_vars PROVE Typed'
  OBVIOUS
<1>1. CASE UNCHANGED vars
  BY <1>1, UnchangedType DEF Typed, vars
<1>2. CASE Run
  BY <1>2, RunType
<1>3. CASE Sweeping
  BY <1>3, SweepingType
<1>4. ASSUME NEW r \in Reconciler, Reconciling(r) PROVE Typed'
  BY <1>4, ReconcilingType
<1>5. ASSUME NEW a \in Attempt, Loop(a) \/ Replay(a) \/ Kill(a) \/ JobRuns(a) \/ Expire(a)
      PROVE  Typed'
  BY <1>5, BeginAttemptType, QuietType, MoneyActionType
  DEF Loop, Submitting, Polling, Finishing
<1> QED
  BY <1>1, <1>2, <1>3, <1>4, <1>5 DEF Next

(* Every step of the attempts, the sweep and the reconcilers writes values  *)
(* of the columns' types, for any attempts and any providers.               *)
THEOREM TypeCorrect == Spec => []TypeOK
<1>1. Typed => TypeOK
  BY TypeSplit
<1> QED
  BY <1>1, TypedInit, TypedNext, PTL DEF Spec

-----------------------------------------------------------------------------
(* The ledger implements Settlement.  A step needs to know that whoever      *)
(* settles an attempt's money does so after it was set aside: nobody else    *)
(* looks, and a settlement without a reservation would be a second one.      *)

Holding == Place \ {"idle", "reserve", "ended"}
SetAside ==
  /\ \A a \in Attempt : Settled(a) => HasReservation(a)
  /\ \A a \in Attempt : pc[a] \in Holding => HasReservation(a)
  /\ \A t \in sweep : HasReservation(t[1])

SettlesNow(a, c) == SettleSuccess(a, c) \/ SettleProvisional(a) \/ SettleRelease(a)

(* The books of the run are written in these ways only. *)
books == <<reserved, spent, ledger, judged>>
LEMMA BooksStep ==
  ASSUME Typed, SetAside, [Next]_vars
  PROVE  \/ UNCHANGED books
         \/ \E a \in Attempt : ReserveBudget(a)
         \/ \E q \in Nat : RecordActual(q)
         \/ \E a \in Attempt : HasReservation(a) /\ SettlesNow(a, cost[a])
<1>1. CASE UNCHANGED vars
  BY <1>1 DEF vars, money, books
<1>2. CASE Run
  BY <1>2 DEF Run, Pause, Halt, Resume, Cancel, Raise, RaiseBudget, RaiseStageCap, money, books
<1>3. CASE Sweeping
  <2>1. ASSUME NEW t \in sweep, SweepSettle(t)
        PROVE  \E a \in Attempt : HasReservation(a) /\ SettlesNow(a, cost[a])
    <3>1. t[1] \in Attempt /\ HasReservation(t[1])
      BY DEF Typed, CleanupType, SetAside
    <3>2. SettlesNow(t[1], cost[t[1]])
      BY <2>1 DEF SweepSettle, SettlesNow
    <3> QED
      BY <3>1, <3>2
  <2>2. CASE SweepSelect \/ SweepStops \/ \E t \in sweeping : SweepMark(t)
    BY <2>2 DEF SweepSelect, SweepStops, SweepMark, money, books
  <2> QED
    BY <1>3, <2>1, <2>2 DEF Sweeping
<1>4. ASSUME NEW r \in Reconciler, Reconciling(r)
      PROVE  \/ UNCHANGED books
             \/ \E a \in Attempt : HasReservation(a) /\ SettlesNow(a, cost[a])
  <2>1. ASSUME NEW t \in recon[r].now, ReconcileBook(r, t)
        PROVE  \/ UNCHANGED books
               \/ \E a \in Attempt : HasReservation(a) /\ SettlesNow(a, cost[a])
    <3>1. t.attempt \in Attempt
      BY DEF Typed, CleanupType, Work, Answer
    <3>2. \/ UNCHANGED money
          \/ HasReservation(t.attempt) /\ SettlesNow(t.attempt, cost[t.attempt])
      BY <2>1 DEF ReconcileBook, SettlesNow
    <3> QED
      BY <3>1, <3>2 DEF money, books
  <2>2. CASE \/ ReconcileSelect(r) \/ ReconcileDone(r) \/ ReconcileStops(r)
             \/ \E t \in recon[r].todo : ReconcileAsk(r, t)
             \/ \E t \in recon[r].now : ReconcileMark(r, t)
    BY <2>2 DEF ReconcileSelect, ReconcileDone, ReconcileStops, ReconcileAsk, ReconcileMark,
       money, books
  <2> QED
    BY <1>4, <2>1, <2>2 DEF Reconciling
<1>5. ASSUME NEW a \in Attempt, Loop(a) \/ Replay(a) \/ Kill(a) \/ JobRuns(a) \/ Expire(a)
      PROVE  \/ UNCHANGED books
             \/ ReserveBudget(a)
             \/ \E q \in Nat : RecordActual(q)
             \/ HasReservation(a) /\ SettlesNow(a, cost[a])
  <2>1. CASE SettleAttempt(a)
    <3>1. HasReservation(a)
      BY <2>1 DEF SettleAttempt, SetAside, Holding, Place, Typed, EngineType
    <3>2. SettlesNow(a, cost[a])
      BY <2>1 DEF SettleAttempt, SettlesNow
    <3> QED
      BY <3>1, <3>2
  <2>2. CASE ReserveBudget(a)
    BY <2>2
  <2>3. CASE MarkSubmitted(a) \/ PollPending(a) \/ PayForVerdict(a) \/ Expire(a)
    BY <2>3, ChargesAssumption DEF MarkSubmitted, PollPending, PayForVerdict, Expire, MoveExpiry, books
  <2>4. CASE BeginAttempt(a) \/ FetchAnswers(a) \/ FetchThrows(a) \/ JobRuns(a)
    BY <2>4 DEF BeginAttempt, FetchAnswers, FetchThrows, JobRuns, money, books
  <2>5. CASE \/ RefuseBudget(a) \/ MarkReserved(a) \/ Admit(a) \/ SubmitJob(a)
             \/ SubmitRejected(a) \/ SubmitThrows(a) \/ StoreHandle(a)
             \/ PollDone(a) \/ PollFailed(a) \/ PollExhausted(a) \/ PollThrows(a)
             \/ StopJob(a) \/ StartFetch(a) \/ RecordOutput(a) \/ RecordEnd(a)
             \/ RecordRefusal(a) \/ StopIfRunNotRunning(a) \/ RecordFailedPoll(a) \/ RecordError(a)
             \/ JudgeCheckFailed(a) \/ DeferQc(a) \/ JudgeQcFailed(a) \/ Finalize(a) \/ FinishAttempt(a)
             \/ Replay(a) \/ Kill(a)
    BY <2>5 DEF RefuseBudget, MarkReserved, Admit, SubmitJob, SubmitRejected, SubmitThrows,
       StoreHandle, PollDone, PollFailed, PollExhausted, PollThrows, StopJob, StartFetch,
       RecordOutput, RecordEnd, RecordRefusal, StopIfRunNotRunning, RecordFailedPoll,
       RecordError, JudgeCheckFailed, DeferQc, JudgeQcFailed, Finalize, FinishAttempt, Replay,
       Kill, money, books
  <2> QED
    BY <1>5, <2>1, <2>2, <2>3, <2>4, <2>5 DEF Loop, Submitting, Polling, Finishing
<1> QED
  BY <1>1, <1>2, <1>3, <1>4, <1>5 DEF Next

(* Money changes hands in these three ways only. *)
LEMMA LedgerStep ==
  ASSUME Typed, SetAside, [Next]_vars
  PROVE  \/ UNCHANGED ledger
         \/ \E a \in Attempt : Reserve(a)
         \/ \E a \in Attempt, c \in Nat : HasReservation(a) /\ SettlesNow(a, c)
<1>1. \A a \in Attempt : cost[a] \in Nat
  BY DEF Typed, EngineType
<1> QED
  BY <1>1, BooksStep DEF books, ReserveBudget, RecordActual

(* What each of them does to where an attempt's money stands. *)
LEMMA UnchangedLedger ==
  ASSUME UNCHANGED ledger, NEW a \in Attempt
  PROVE  UNCHANGED <<Account(a), HasReservation(a), Settled(a)>>
BY DEF Account, HasReservation, Settled, Rows

LEMMA ReserveEffect ==
  ASSUME NEW a \in Attempt, Reserve(a), NEW b \in Attempt
  PROVE  /\ HasReservation(a)'
         /\ HasReservation(b) => HasReservation(b)'
         /\ Settled(b)' = Settled(b)
         /\ b # a => UNCHANGED Account(b)
         /\ (~HasReservation(a) /\ ~Settled(a)) => (Account(a) = "none" /\ Account(a)' = "held")
         /\ HasReservation(a) => UNCHANGED Account(a)
<1>1. CASE HasReservation(a)
  BY <1>1, UnchangedLedger DEF Reserve
<1>2. CASE ~HasReservation(a)
  <2> DEFINE new == Row(a, "reservation", Ceiling[a], TRUE)
  <2>1. ledger' = ledger \cup {new}
    BY <1>2 DEF Reserve
  <2>2. new.attempt = a /\ new.kind = "reservation"
    BY DEF Row
  <2> HIDE DEF new
  <2>3. /\ Rows(b, "actual")' = Rows(b, "actual")
        /\ Rows(b, "release")' = Rows(b, "release")
        /\ Rows(a, "actual")' = Rows(a, "actual")
        /\ Rows(a, "release")' = Rows(a, "release")
    BY <2>1, <2>2 DEF Rows
  <2>4. Rows(a, "reservation")' # {} /\ Rows(b, "reservation") \subseteq Rows(b, "reservation")'
    BY <2>1, <2>2 DEF Rows
  <2>5. b # a => Rows(b, "reservation")' = Rows(b, "reservation")
    BY <2>1, <2>2 DEF Rows
  <2> QED
    BY <1>2, <2>3, <2>4, <2>5 DEF Account, HasReservation, Settled
<1> QED
  BY <1>1, <1>2

LEMMA SettleRowsEffect ==
  ASSUME NEW a \in Attempt, NEW c, NEW b \in Attempt, HasReservation(a),
         NEW rows, rows # {},
         \A r \in rows : r.attempt = a /\ r.kind \in {"actual", "release"},
         Settle(a, rows, c)
  PROVE  /\ HasReservation(b)' = HasReservation(b)
         /\ Settled(a)'
         /\ b # a => UNCHANGED <<Account(b), Settled(b)>>
         /\ Settled(b) => Settled(b)'
         /\ Settled(a) => UNCHANGED Account(a)
         /\ ~Settled(a) => Account(a) = "held" /\ Account(a)' \in {"freed", "paid", "presumed"}
<1>1. CASE Settled(a)
  BY <1>1, UnchangedLedger DEF Settle
<1>2. CASE ~Settled(a)
  <2>1. ledger' = ledger \cup rows
    BY <1>2 DEF Settle
  <2>2. /\ Rows(a, "reservation")' = Rows(a, "reservation")
        /\ Rows(b, "reservation")' = Rows(b, "reservation")
    BY <2>1 DEF Rows
  <2>3. Rows(a, "actual")' \cup Rows(a, "release")' # {}
    <3>1. PICK r \in rows : r.attempt = a /\ r.kind \in {"actual", "release"}
      OBVIOUS
    <3>2. r \in ledger'
      BY <2>1
    <3> QED
      BY <3>1, <3>2 DEF Rows
  <2>4. /\ Rows(b, "actual") \subseteq Rows(b, "actual")'
        /\ Rows(b, "release") \subseteq Rows(b, "release")'
    BY <2>1 DEF Rows
  <2>5. b # a => /\ Rows(b, "actual")' = Rows(b, "actual")
                 /\ Rows(b, "release")' = Rows(b, "release")
    BY <2>1 DEF Rows
  <2>6. HasReservation(a)' /\ Settled(a)'
    BY <2>2, <2>3 DEF HasReservation, Settled
  <2>7. Account(a) = "held" /\ Account(a)' \in {"freed", "paid", "presumed"}
    BY <1>2, <2>6 DEF Account
  <2> QED
    BY <1>2, <2>2, <2>4, <2>5, <2>6, <2>7 DEF Account, HasReservation, Settled
<1> QED
  BY <1>1, <1>2

LEMMA SettleEffect ==
  ASSUME NEW a \in Attempt, NEW c \in Nat, NEW b \in Attempt, HasReservation(a),
         SettlesNow(a, c)
  PROVE  /\ HasReservation(b)' = HasReservation(b)
         /\ Settled(a)'
         /\ b # a => UNCHANGED <<Account(b), Settled(b)>>
         /\ Settled(b) => Settled(b)'
         /\ Settled(a) => UNCHANGED Account(a)
         /\ ~Settled(a) => Account(a) = "held" /\ Account(a)' \in {"freed", "paid", "presumed"}
<1> DEFINE actual   == Row(a, "actual", c, TRUE)
           presumed == Row(a, "actual", Ceiling[a], FALSE)
           release  == Row(a, "release", Ceiling[a], TRUE)
<1>1. /\ actual.attempt = a /\ actual.kind = "actual"
      /\ presumed.attempt = a /\ presumed.kind = "actual"
      /\ release.attempt = a /\ release.kind = "release"
  BY DEF Row
<1>2. \/ Settle(a, {actual, release}, c)
      \/ Settle(a, {presumed}, Ceiling[a])
      \/ Settle(a, {release}, 0)
  BY DEF SettlesNow, SettleSuccess, SettleProvisional, SettleRelease
<1> HIDE DEF actual, presumed, release
<1>3. CASE Settle(a, {actual, release}, c)
  BY <1>1, <1>3, SettleRowsEffect
<1>4. CASE Settle(a, {presumed}, Ceiling[a])
  BY <1>1, <1>4, SettleRowsEffect
<1>5. CASE Settle(a, {release}, 0)
  BY <1>1, <1>5, SettleRowsEffect
<1> QED
  BY <1>2, <1>3, <1>4, <1>5

LEMMA SetAsideInit == Init => SetAside
<1> SUFFICES ASSUME Init PROVE SetAside
  OBVIOUS
<1>1. \A a \in Attempt : ~Settled(a)
  BY DEF Init, NoMoney, Settled, Rows
<1>2. \A a \in Attempt : pc[a] \notin Holding
  BY DEF Init, Holding
<1>3. sweep = {}
  BY DEF Init
<1> QED
  BY <1>1, <1>2, <1>3 DEF SetAside

(* A reservation never disappears, and none is settled that was never made. *)
LEMMA ReservationsStay ==
  ASSUME Typed, SetAside, [Next]_vars, NEW a \in Attempt
  PROVE  /\ HasReservation(a) => HasReservation(a)'
         /\ Settled(a)' => HasReservation(a)'
<1>1. CASE UNCHANGED ledger
  BY <1>1, UnchangedLedger DEF SetAside
<1>2. ASSUME NEW b \in Attempt, Reserve(b)
      PROVE  /\ HasReservation(a) => HasReservation(a)'
             /\ Settled(a)' => HasReservation(a)'
  BY <1>2, ReserveEffect DEF SetAside
<1>3. ASSUME NEW b \in Attempt, NEW c \in Nat, HasReservation(b), SettlesNow(b, c)
      PROVE  /\ HasReservation(a) => HasReservation(a)'
             /\ Settled(a)' => HasReservation(a)'
  BY <1>3, SettleEffect DEF SetAside
<1> QED
  BY <1>1, <1>2, <1>3, LedgerStep

(* An attempt comes to hold only where its reservation is made. *)
LEMMA HoldingStep ==
  ASSUME Typed, SetAside, [Next]_vars, NEW a \in Attempt,
         pc'[a] \in Holding, pc[a] \notin Holding
  PROVE  HasReservation(a)'
<1>1. ASSUME NEW b \in Attempt, ReserveBudget(b) PROVE HasReservation(a)'
  <2>1. a = b
    BY <1>1 DEF ReserveBudget, Go, Typed, EngineType
  <2> QED
    BY <1>1, <2>1, ReserveEffect DEF ReserveBudget
<1>2. ASSUME NEW b \in Attempt, Loop(b) \/ Replay(b) \/ Kill(b) \/ JobRuns(b) \/ Expire(b),
             ~ReserveBudget(b)
      PROVE  FALSE
  <2>1. CASE BeginAttempt(b)
    BY <2>1 DEF BeginAttempt, Go, Holding, Place, Typed, EngineType
  <2>2. CASE \/ MarkReserved(b) \/ Admit(b) \/ SubmitJob(b) \/ SubmitRejected(b)
             \/ SubmitThrows(b) \/ MarkSubmitted(b)
    BY <2>2 DEF MarkReserved, Admit, SubmitJob, SubmitRejected, SubmitThrows,
       MarkSubmitted, Go, Holding, Place, Typed, EngineType
  <2>3. CASE Polling(b)
    BY <2>3 DEF Polling, PollDone, PollFailed, PollPending, PollExhausted, PollThrows, StopJob,
       Go, Holding, Place, Typed, EngineType, engine
  <2>4. CASE \/ RecordEnd(b) \/ RecordRefusal(b) \/ RecordFailedPoll(b) \/ RecordError(b)
             \/ JudgeCheckFailed(b) \/ DeferQc(b) \/ JudgeQcFailed(b) \/ FinishAttempt(b)
             \/ RefuseBudget(b) \/ StoreHandle(b) \/ Replay(b)
    <3>1. \/ Go(b, "ended") \/ \E p \in Place : Go(b, p) /\ pc[b] \in Holding
          \/ Go(b, StartOf(b)) /\ (StartOf(b) = pc[b] \/ StartOf(b) = "reserve"
                                     \/ pc[b] \in Holding)
      <4>1. \/ StartOf(b) = "reserve" \/ StartOf(b) = pc[b] \/ pc[b] \in Holding
        BY StartPlaces DEF InFetch, InTimeout, InVerdict, Settling, Holding, Place
      <4> QED
        BY <2>4, <4>1 DEF RecordEnd, RecordRefusal, RecordFailedPoll, RecordError,
           JudgeCheckFailed, DeferQc, JudgeQcFailed, FinishAttempt, RefuseBudget, StoreHandle,
           Replay, StepEnds, StepAgain, Holding, Place
    <3> QED
      BY <1>2, <3>1 DEF Go, Holding, Typed, EngineType
  <2>5. CASE \/ StartFetch(b) \/ FetchAnswers(b) \/ FetchThrows(b) \/ SettleAttempt(b)
             \/ RecordOutput(b) \/ StopIfRunNotRunning(b) \/ PayForVerdict(b) \/ Finalize(b)
             \/ Kill(b) \/ JobRuns(b) \/ Expire(b)
    BY <2>5 DEF StartFetch, FetchAnswers, FetchThrows, SettleAttempt, RecordOutput,
       StopIfRunNotRunning, PayForVerdict, Finalize, Judged, Kill, JobRuns, Expire, Go, Holding,
       Place, Typed, EngineType, engine
  <2> QED
    BY <1>2, <2>1, <2>2, <2>3, <2>4, <2>5 DEF Loop, Submitting, Finishing
<1>3. Run \/ Sweeping \/ UNCHANGED vars \/ (\E r \in Reconciler : Reconciling(r))
        => UNCHANGED pc
  BY DEF Run, Pause, Halt, Resume, Cancel, Raise, Sweeping, SweepSelect, SweepStops,
     SweepSettle, SweepMark, Reconciling, ReconcileSelect, ReconcileDone, ReconcileStops,
     ReconcileAsk, ReconcileBook, ReconcileMark, engine, vars
<1> QED
  BY <1>1, <1>2, <1>3 DEF Next

LEMMA SetAsideNext == Typed /\ SetAside /\ [Next]_vars => SetAside'
<1> SUFFICES ASSUME Typed, SetAside, [Next]_vars PROVE SetAside'
  OBVIOUS
<1>1. \A a \in Attempt : Settled(a)' => HasReservation(a)'
  BY ReservationsStay
<1>2. \A a \in Attempt : pc'[a] \in Holding => HasReservation(a)'
  BY ReservationsStay, HoldingStep DEF SetAside
<1>3. \A t \in sweep' : HasReservation(t[1])'
  <2>1. ASSUME NEW t \in sweep' PROVE t[1] \in Attempt /\ HasReservation(t[1])
    <3>1. CASE t \in sweep
      BY <3>1 DEF SetAside, Typed, CleanupType
    <3>2. CASE t \notin sweep
      <4>1. SweepSelect
        BY <3>2 DEF Next, Run, Pause, Halt, Resume, Cancel, Raise, Sweeping, SweepStops,
           SweepSettle, SweepMark, Reconciling, ReconcileSelect, ReconcileDone, ReconcileStops,
           ReconcileAsk, ReconcileBook, ReconcileMark, cleanup, vars, Loop, Submitting, Polling,
           Finishing, BeginAttempt, RefuseBudget, ReserveBudget, MarkReserved, Admit, SubmitJob,
           SubmitRejected, SubmitThrows, MarkSubmitted, StoreHandle, PollDone, PollFailed,
           PollPending, PollExhausted, PollThrows, StopJob, StartFetch, FetchAnswers,
           FetchThrows, SettleAttempt, RecordOutput, RecordEnd, RecordRefusal,
           StopIfRunNotRunning, RecordFailedPoll, RecordError, JudgeCheckFailed, DeferQc,
           PayForVerdict, JudgeQcFailed, Finalize, FinishAttempt, Replay, Kill, JobRuns, Expire
      <4>2. \E a \in Attempt : t = <<a, phase[a]>> /\ Open(a)
        BY <4>1 DEF SweepSelect, Typed, MoneyType
      <4> QED
        BY <4>2 DEF Open
    <3> QED
      BY <3>1, <3>2
  <2> QED
    BY <2>1, ReservationsStay
<1> QED
  BY <1>1, <1>2, <1>3 DEF SetAside

(* Whoever gets to it first - the attempt, a replay of one of its steps, a   *)
(* reconciler or the sweep - an attempt's money is held before it is settled *)
(* and settled once and for all (class comment of LedgerService).            *)
THEOREM SettlesOnce == Spec => SettledOnce
<1>1. Init => Money!Init
  <2> SUFFICES ASSUME Init PROVE \A a \in Attempt : Account(a) = "none"
    BY DEF Money!Init
  <2> QED
    BY DEF Init, NoMoney, Account, HasReservation, Rows
<1>2. ASSUME Typed, SetAside, [Next]_vars
      PROVE  [Money!Next]_[a \in Attempt |-> Account(a)]
  <2> DEFINE account == [a \in Attempt |-> Account(a)]
  <2>1. CASE \A b \in Attempt : UNCHANGED Account(b)
    BY <2>1
  <2>2. ASSUME NEW a \in Attempt,
               \A b \in Attempt : b # a => UNCHANGED Account(b),
               \/ Account(a) = "none" /\ Account(a)' = "held"
               \/ Account(a) = "held" /\ Account(a)' \in {"freed", "paid", "presumed"}
        PROVE  Money!Next
    <3>1. account' = [account EXCEPT ![a] = Account(a)']
      BY <2>2
    <3> QED
      BY <2>2, <3>1 DEF Money!Next, Money!Hold, Money!Settle, Money!Settled
  <2>3. ASSUME NEW a \in Attempt, Reserve(a)
        PROVE  [Money!Next]_account
    <3>1. CASE HasReservation(a)
      BY <2>1, <2>3, <3>1, ReserveEffect
    <3>2. CASE ~HasReservation(a)
      <4>1. ~Settled(a)
        BY <1>2, <3>2 DEF SetAside
      <4> QED
        BY <2>2, <2>3, <3>2, <4>1, ReserveEffect
    <3> QED
      BY <3>1, <3>2
  <2>4. ASSUME NEW a \in Attempt, NEW c \in Nat, HasReservation(a), SettlesNow(a, c)
        PROVE  [Money!Next]_account
    <3>1. CASE Settled(a)
      BY <2>1, <2>4, <3>1, SettleEffect
    <3>2. CASE ~Settled(a)
      BY <2>2, <2>4, <3>2, SettleEffect
    <3> QED
      BY <3>1, <3>2
  <2>5. CASE UNCHANGED ledger
    BY <2>1, <2>5, UnchangedLedger
  <2> QED
    BY <1>2, <2>3, <2>4, <2>5, LedgerStep
<1> QED
  BY <1>1, <1>2, TypedInit, TypedNext, SetAsideInit, SetAsideNext, PTL
  DEF Spec, SettledOnce, Money!Spec

-----------------------------------------------------------------------------
(* However late a provider answers, the finalizing transaction of a retired  *)
(* execution, or of a run that is cancelled, delivers nothing.               *)
THEOREM RetiredDelivers == Spec => RetiredDeliversNothing
<1>1. ASSUME Typed, [Next]_vars, NEW a \in Attempt, a \in delivered' \ delivered
      PROVE  epochOf[a] = epoch /\ state \in Draining
  <2>1. Run \/ Sweeping \/ UNCHANGED vars \/ (\E r \in Reconciler : Reconciling(r))
          => UNCHANGED delivered
    BY DEF Run, Pause, Halt, Resume, Cancel, Raise, Sweeping, SweepSelect, SweepStops,
       SweepSettle, SweepMark, Reconciling, ReconcileSelect, ReconcileDone, ReconcileStops,
       ReconcileAsk, ReconcileBook, ReconcileMark, row, vars
  <2>2. PICK b \in Attempt : Loop(b) \/ Replay(b) \/ Kill(b) \/ JobRuns(b) \/ Expire(b)
    BY <1>1, <2>1 DEF Next
  <2>3. CASE Finalize(b)
    <3>1. Deliver(b) /\ Current(b, Draining)
      BY <1>1, <2>3 DEF Finalize, RecordDiscarded
    <3>2. a = b
      BY <1>1, <3>1 DEF Deliver
    <3> QED
      BY <3>1, <3>2 DEF Current
  <2>4. CASE ~Finalize(b)
    <3>1. UNCHANGED delivered
      BY <2>2, <2>4 DEF Loop, Submitting, Polling, Finishing, BeginAttempt, RefuseBudget,
         ReserveBudget, MarkReserved, Admit, SubmitJob, SubmitRejected, SubmitThrows,
         MarkSubmitted, StoreHandle, PollDone, PollFailed, PollPending, PollExhausted,
         PollThrows, StopJob, StartFetch, FetchAnswers, FetchThrows, SettleAttempt,
         RecordOutput, RecordEnd, RecordRefusal, StopIfRunNotRunning, RecordFailedPoll,
         RecordError, RecordDiscarded, JudgeCheckFailed, DeferQc, PayForVerdict,
         JudgeQcFailed, FinishAttempt, Close, Replay, Kill, JobRuns, Expire, row
    <3> QED
      BY <1>1, <3>1
  <2> QED
    BY <2>3, <2>4
<1>2. Typed /\ [Next]_vars =>
        \A a \in delivered' \ delivered : epochOf[a] = epoch /\ state \in Draining
  <2> SUFFICES ASSUME Typed, [Next]_vars, NEW a \in delivered' \ delivered
               PROVE  epochOf[a] = epoch /\ state \in Draining
    OBVIOUS
  <2>1. a \in Attempt
    BY TypedNext DEF Typed, RowType
  <2> QED
    BY <1>1, <2>1
<1> QED
  BY <1>2, TypedInit, TypedNext, PTL DEF Spec, RetiredDeliversNothing
=============================================================================
