------------------------------- MODULE Ledger -------------------------------
(***************************************************************************)
(* The budget of one run: LedgerService over the `ledger_entry` rows, the   *)
(* three money columns of the `run` row and the stage caps.  Every operator *)
(* with a prime is the whole of one method, which holds the run's row lock. *)
(* Amounts are natural numbers (the columns keep four decimals of a dollar).   *)
(***************************************************************************)
EXTENDS Integers, FiniteSetsExt

CONSTANTS
  Attempt,     \* the stage attempts of the run
  Stage,       \* its stages
  StageOf,     \* [Attempt -> Stage]
  Ceiling,     \* [Attempt -> Nat], the worst case capability.estimateCost gives
  InitialCap,  \* run.budget_cap_usd at the start; 0 means no limit
  InitialStageCap  \* [Stage -> Nat or NoCap]

NoCap == -1   \* stageCapUsd is undefined

ASSUME AttemptsAssumption ==
  /\ StageOf \in [Attempt -> Stage]
  /\ Ceiling \in [Attempt -> Nat]
ASSUME CapsAssumption ==
  /\ InitialCap \in Nat
  /\ InitialStageCap \in [Stage -> Nat \cup {NoCap}]

VARIABLES
  state,     \* run.state
  epoch,     \* run.execution_epoch
  epochOf,   \* [Attempt -> Nat], stage_attempt.execution_epoch
  cap,       \* run.budget_cap_usd
  stageCap,  \* [Stage -> cap], budget.stageCapUsd with the run's overrides
  reserved,  \* run.reserved_usd
  spent,     \* run.spent_usd
  ledger,    \* the stage_output rows of ledger_entry
  judged,    \* the sum of its qc rows, which belong to no reservation
  expired    \* attempts whose reservation's expires_at has passed

money == <<cap, stageCap, reserved, spent, ledger, judged, expired>>

(* The rows of one attempt differ in kind, and an attempt settled twice is   *)
(* told by the counters, so a row is identified by what it says.             *)
Entry == [attempt   : Attempt,
          kind      : {"reservation", "actual", "release"},
          amount    : Nat,
          confirmed : BOOLEAN]

Row(a, kind, amount, confirmed) ==
  [attempt |-> a, kind |-> kind, amount |-> amount, confirmed |-> confirmed]

Rows(a, kind) == {r \in ledger : r.attempt = a /\ r.kind = kind}
Total(rows)   == MapThenSumSet(LAMBDA r : r.amount, rows)

HasReservation(a) == Rows(a, "reservation") # {}
Settled(a) == Rows(a, "actual") \cup Rows(a, "release") # {}
Open(a)    == HasReservation(a) /\ ~Settled(a)

(* Where the money of an attempt stands (the words are Settlement's). *)
Account(a) ==
  IF ~HasReservation(a)                              THEN "none"
  ELSE IF ~Settled(a)                                THEN "held"
  ELSE IF Rows(a, "actual") = {}                     THEN "freed"
  ELSE IF \A r \in Rows(a, "actual") : r.confirmed THEN "paid"
  ELSE "presumed"

NoMoney ==
  /\ cap = InitialCap
  /\ stageCap = InitialStageCap
  /\ reserved = 0
  /\ spent = 0
  /\ ledger = {}
  /\ judged = 0
  /\ expired = {}

-----------------------------------------------------------------------------
(* The two caps.                                                             *)

OpenCeilings(s) ==
  Total({r \in ledger : r.kind = "reservation" /\ StageOf[r.attempt] = s /\ Open(r.attempt)})
ConfirmedActuals(s) ==
  Total({r \in ledger : r.kind = "actual" /\ StageOf[r.attempt] = s /\ r.confirmed})
StageCommitted(s) == OpenCeilings(s) + ConfirmedActuals(s)

FitsBeforeHolds(a) == cap = 0 \/ Ceiling[a] <= cap - spent   \* mutant
FitsRun(a) == cap = 0 \/ Ceiling[a] <= cap - reserved - spent
FitsStageAlone(a, limit) == limit = NoCap \/ Ceiling[a] <= limit   \* mutant
FitsStage(a, limit) == limit = NoCap \/ Ceiling[a] <= limit - StageCommitted(StageOf[a])

(* Why reserve() turns the attempt down, given the stage cap it was called   *)
(* with.  The existing reservation of a replayed call is looked for only     *)
(* after all of this.                                                        *)
Refusal(a, limit) ==
  IF state # "RUNNING" \/ epoch # epochOf[a] THEN "run_not_running"
  ELSE IF ~FitsRun(a)          THEN "run_cap_exceeded"
  ELSE IF ~FitsStage(a, limit) THEN "stage_cap_exceeded"
  ELSE "none"

Reserve(a) ==
  /\ IF HasReservation(a)
       THEN UNCHANGED <<ledger, reserved>>
       ELSE /\ ledger' = ledger \cup {Row(a, "reservation", Ceiling[a], TRUE)}
            /\ reserved' = reserved + Ceiling[a]
  /\ UNCHANGED <<cap, stageCap, spent, judged, expired>>

-----------------------------------------------------------------------------
(* Settlement.  `Settle` is what the three settle methods share: nothing     *)
(* happens to a reservation that some row already settles.                   *)

SettleAgain(a, rows, cost) ==   \* mutant
  /\ ledger' = ledger \cup rows
  /\ reserved' = reserved - Ceiling[a]
  /\ spent' = spent + cost
  /\ UNCHANGED <<cap, stageCap, judged, expired>>
Settle(a, rows, cost) ==
  /\ IF Settled(a)
       THEN UNCHANGED <<ledger, reserved, spent>>
       ELSE /\ ledger' = ledger \cup rows
            /\ reserved' = reserved - Ceiling[a]
            /\ spent' = spent + cost
  /\ UNCHANGED <<cap, stageCap, judged, expired>>

SettleSuccess(a, cost) ==
  Settle(a, {Row(a, "actual", cost, TRUE), Row(a, "release", Ceiling[a], TRUE)}, cost)
SettleProvisional(a) == Settle(a, {Row(a, "actual", Ceiling[a], FALSE)}, Ceiling[a])
SettleRelease(a)     == Settle(a, {Row(a, "release", Ceiling[a], TRUE)}, 0)

(* recordActual: what quality control spent, without a reservation. *)
RecordActual(amount) ==
  /\ judged' = judged + amount
  /\ spent' = spent + amount
  /\ UNCHANGED <<cap, stageCap, reserved, ledger, expired>>

(* markSubmitted and extendReservation move the expiry into the future. *)
MoveExpiry(a) ==
  /\ expired' = expired \ {a}
  /\ UNCHANGED <<cap, stageCap, reserved, spent, ledger, judged>>

-----------------------------------------------------------------------------
(* Raising a cap, on a run in any state but these two.                       *)

CapRaisable == state \notin {"COMPLETED", "CANCELLED"}

RaiseBudget(newCap) ==
  /\ CapRaisable
  /\ newCap > cap
  /\ cap' = newCap
  /\ UNCHANGED <<stageCap, reserved, spent, ledger, judged, expired>>

RaiseStageCap(s, newCap) ==
  /\ CapRaisable
  /\ stageCap[s] = NoCap \/ newCap > stageCap[s]
  /\ stageCap' = [stageCap EXCEPT ![s] = newCap]
  /\ UNCHANGED <<cap, reserved, spent, ledger, judged, expired>>
=============================================================================
