# Verification of Reelcraft's runs

Reelcraft makes a video by running the stages of a *blueprint* (script, voice, images, ...) on
external providers, with people approving, correcting and paying along the way, by hand or through an
assistant. This project models the parts of the program that decide *what may happen next*, checks them
with TLC and proves their central facts with TLAPS: the control plane of a run (`RunControl`), the items of
its iterating stages (`Items`), the attempts that call providers together with the ledger that pays for
them (`Attempts` over `Ledger`), the chats that act on runs for a user (`Assistant`), and the draft renders
of a timeline editor with the detached processes that make them (`DraftRenders` over `ComputeJobs`). Paths
below are relative to `src/apps/api/src/` unless they start with `src/`.

| file | what it is |
| --- | --- |
| `RunControl.tla` | the control plane of one run: specification and properties |
| `MCRunControl.tla` | the small graphs of stages the configurations choose from |
| `Ledger.tla` | the budget of one run: caps, reservations, settlements |
| `Attempts.tla` | the steps of attempts, the sweep and the reconcilers over that ledger: specification and properties |
| `Settlement.tla` | what is promised of the money set aside for one attempt: the abstraction `Attempts` implements |
| `MCAttempts.tla` | the small instances of `Attempts` |
| `Items.tla`, `MCItems.tla` | the items of iterating stages: batches, reviews, failures, invalidation, re-runs |
| `Assistant.tla`, `MCAssistant.tla` | one chat of the assistant: turns, cards, plans, watches of a run |
| `ComputeJobs.tla` | compute jobs: a directory, a supervisor and its command per job |
| `DraftRenders.tla`, `MCDraftRenders.tla` | the draft renders of one editor stage, over those jobs |
| `RunControl*.cfg`, `Attempts*.cfg`, `Items.cfg`, `Assistant.cfg`, `DraftRenders.cfg` | runs that pass |
| `UserActionFailure.cfg`, `YesTurnRefused.cfg`, `CancelStops.cfg` | runs that show a divergence between the code and its documentation |
| `RunControlProofs.tla` | theorems about `RunControl`, for every graph of stages and every bound |
| `AttemptsProofs.tla` | theorems about `Attempts` and its refinement of `Settlement`, for any providers, costs and bounds |
| `BudgetProofs.tla` | theorems about sums over the rows of the ledger and the caps, for any number of attempts and rows |
| `CancellationProofs.tla` | theorems about what a cancellation settles and which outcomes stay |
| `BillingProofs.tla` | theorems about what providers charge against what is booked and released |
| `AssistantProofs.tla` | theorems about `Assistant`, for any number of turns, calls, updates and operations |
| `ItemsProofs.tla` | theorems about `Items`, for lists of any length, any batches and any number of operations |
| `DraftRendersProofs.tla` | theorems about `DraftRenders`, for any number of renders, requests, cancels and restarts |
| `PROJECT.json` | components, runs, mutants, hazards, findings, theorems, and the source lines of every definition |

## 1. Inventory

### The components of a run

| component | state it keeps | operations | what makes it correct |
| --- | --- | --- | --- |
| Operator actions (`run/run.service.ts`, `run-action*`, `run-stage-plan`, `run-mutation`) | `run.state`, `revision`, `execution_epoch`, `execution_scope` | start, pause, continue, stop, retry, plan, overrides, settings, caps | each is refused where it makes no sense, and what it asks for happens |
| Wakeup outbox (`run-wakeup-*`) | `run_wakeup` rows | insert, dispatch, sweep, claim | a wakeup survives a crash, starts at most one execution, and only the one it was queued for |
| Orchestrator (`orchestration/functions/run-orchestrate.fn.ts`, `run-state.service.ts`) | its own copy of the stage rows; the end of the run | load, admit a wave, skip, invoke, collect, finish | dependencies respected, branches independent, the run ends in the state that says why |
| Stage execution (`stage-execute.fn.ts`, `stage-attempt-loop.ts`, `stage-runner.service.ts`) | `stage_execution`, `stage_attempt` | begin an attempt, submit, poll, fetch, judge, finalize, hand off, fail | an output is paid once, judged before it is used, and discarded when the run has moved on |
| Human waits (`human-wait`, `human-action`) | `human_wait` rows | open, approve, reject, retry quality control, fill in, close | whoever is asked can answer, and the run goes on after the last answer |
| Cancellation (`run-cancellation`) | run, stages, attempts, reservations | stop, reconcile | nothing stays running, nothing is charged blindly |
| Invalidation (`invalidation*`) | stage and item states, waits | preview, apply | what depends on a changed output is made again, and only that |
| Budget ledger (`budget/ledger.service.ts`) | `ledger_entry` rows, caps | reserve, settle, release, provisional, sweep | spending stays within the caps, each attempt settles once |
| Inputs, artifact edits, seeds | inputs, artifacts | replace, edit | an edit invalidates what was made from the old value |
| Draft renders (`run/timeline-preview.service.ts`) | `timeline_preview_render`; in memory: the renders being finished | start, status, cancel | a video is stored once, what was shown stays, a render ends |
| Compute jobs (`storage/compute-job.service.ts`, `compute-supervisor.ts`) | a directory per job; two processes | spawn, poll, collect, cancel, clean up, reap | a job survives the API, and its directory tells how it ended |
| Reminders, notifications | `human_reminder`, `notification` | remind, deliver | one message per cause |
| Assistant (`assistant/`) | `assistant_session`, `assistant_item`, `assistant_watch`; in memory: the slot, the running turn's context, the cards waited on, the queued updates | message, stop, decide a card or a plan, change the mode, watch, wake, delete | one turn at a time, no change without consent, nothing left hanging, each update told once |

They share one database. An API request, an Inngest function and a cron sweep all take the run's row
with `SELECT ... FOR UPDATE` before they write. What lies *between* two transactions is not protected:
an orchestrator reads the run, decides, and writes several durable steps later. Two counters fence
this. `revision` rises with every operator mutation; a queued wakeup carries the revision it was made
for and is dropped when it no longer matches. `execution_epoch` rises whenever a new execution is
queued or the current one is cancelled; every write of a function carries its epoch. Inngest delivers
events at least once, replays a function from its memoised steps after a crash, and cancels functions
by an event that names their epoch.

The assistant runs in the API's own process, one turn per chat, and acts on runs through the services
above. What it holds in memory a restart loses; its rows are put right at boot, and only then are the
notifications of watched runs replayed to it.

A draft render is a compute job: a supervisor process and its command, both detached, which report through
files in the job's directory. Nothing in the API works on it between requests; it is finished by whichever
request asks about it next.

The rest of the repository (providers and capabilities, quality control and checks, packages and
blueprints, stored objects, settings, the web app, the render worker, the speech
service) is listed in `PROJECT.json` with the reason it is not modelled.

### What is hard

* **Stale reads.** The orchestrator admits work from a read without the lock and from a copy of the
  stage rows that is as old as the execution.
* **Delivery.** Wakeups are delayed, repeated, delivered after the run has moved on, or overtaken by a
  cancellation that races with the claim.
* **Crashes.** Between a commit and the memo of its step, between a cancellation's commit and its
  reconciliation, between a provider's charge and its record.
* **People.** Answers arrive while other branches work, after the run has failed or been cancelled, and
  in any order.
* **Time.** Quota resumes, provider timeouts, sweeps, cards nobody answers.
* **Parts.** An iterating stage ends with some items accepted, some failed, some waiting; the list it
  iterates over is made again meanwhile, longer or shorter.
* **Memory and rows.** A chat's slot and cards live in memory, its items in the database; every await
  between the two lets a stop, a deletion or another tab in.

* **Processes and files.** A job goes on while the API restarts; its status file, its directory and its process
  are read one after the other, and two requests start, stop and finish renders at the same time.

Each one is a row of `hazards` in `PROJECT.json`, at its line, with the property that would notice.

## 2. The model `RunControl`

One run; every action is one database transaction or one durable step.

| variables | in the code |
| --- | --- |
| `state`, `revision`, `epoch`, `scope` | columns of `run` |
| `outbox`, `sent`, `claimed`, `rejected` | `run_wakeup` rows; dispatched; claimed; delivered in vain |
| `orch[e]` | the `run.orchestrate` function of epoch `e`: where it is and its own copy of the rows (`done`, `waiting`, `spent`), the invocations in flight, why it must stop |
| `inv[e][s]` | the `stage.execute` invocation of stage `s` in epoch `e`, and its result until it is collected |
| `leftover` | attempts whose function is gone and whose `phase` was never settled |
| `exec[s]`, `wait[s]`, `held` | `stage_execution.state`; its open `human_wait`; stages whose newest attempt is to be judged again |

**Operators** (`Start` ... `UpdateExecutionSettings`). `Mutation` is `withLockedRunMaybeWake`: check the
policy (`AllowedStates` is the table of `run-action-policy.ts`), raise the revision, open an epoch for
work that will resume, insert the wakeup. `Answer` is `settleAnswer`. A `human_wait` of kind approval
whose attempt ended in a quality-control error is written `qc_error`; timeline edits are inputs.

**Delivery.** `Dispatch` (request or sweep), `Claim`, `ClaimThenRestart` (the claim commits and the
process dies before Inngest stores the step), `IgnoreWakeup`, `KillEpoch` (Inngest's `cancelOn`) and
`ReconcileOnEvent`. Events are not consumed: a wakeup stays deliverable until it is claimed or ignored.

**Orchestrator.** `Load`, `Admit` (the unlocked read and the decision), `Skip`, `InvokeStage`, `Collect`
and one action for each way to end. `Ready` is `planWave` over the copy.

**Stage.** `BeginAttempt` to a result is one step of work with any of the `Outcomes`; the writes check
the epoch and the state the code checks (`Current`). The two steps of an input stage (admission, then
opening the wait) are apart because a pause can fall between them.

Bounds: `MaxRevision` operator mutations, `MaxEpoch` executions. A mutation at a bound is refused, so a
bounded run is a prefix of a real one. `Concurrency` is `run.concurrent_branches`.

Abstractions: an attempt's submit, polls, fetch and retries are one step (they are the subject of
`Attempts`); items are the subject of `Items`; money, artifacts and notifications are left out; the order in
which a wave starts its stages is arbitrary where the code follows the blueprint.

## 3. The models `Ledger` and `Attempts`

`Ledger` is `LedgerService`: the rows of `ledger_entry` as a set of records, the money columns of `run`
as three integers, each public method as one operator, because each holds the lock of the run's row.
A settlement does nothing when some row settles the reservation already; a reservation is looked for
only after the caps were compared, as in `reserve`. The expiry of a reservation is one bit, `expired`.

`Attempts` puts at work on those rows everyone the code lets write to them:

| actions | in the code |
| --- | --- |
| `BeginAttempt` ... `StoreHandle` | `beginAttempt` and `reserveAndSubmit`, one action per transaction, statement or provider call |
| `PollDone` ... `StopJob` | the polling loop of `stage-attempt-loop.ts`; a job past its window or its own deadline is cancelled |
| `StartFetch` ... `RecordError` | `fetchAndFinalize` and the loop's way out: call, settle, write the row; after a failed poll first `stopIfRunNotRunning`, then, in a step of its own, the failure |
| `JudgeCheckFailed` ... `FinishAttempt` | `judgeAndFinalize`: checks, a verdict that is paid for, the finalizing transaction (`Finalize`) and, in a statement of its own, `finishAttempt` |
| `Replay`, `StepEnds`, `Kill` | a durable step that runs again from its start (`StartOf`), broken off before its end or, after its last write, with its memo lost; `cancelOn`, which stops a function between two steps |
| `JobRuns`, `Expire` | the provider's queue (external); the passing of `expires_at` |
| `SweepSelect`, `SweepSettle`, `SweepMark` | `budget.sweep`: phases read first, then each reservation settled, then its attempt marked |
| `Reconcile*` | `settleOutstanding`: candidates read first, then for each one the provider asked, the money booked, the row marked; by the request that cancels and by the event that follows it up |
| `Pause`, `Halt`, `Resume`, `Cancel`, `Raise` | what the attempts see of the run; `RunControl` has it in full |

The variables are the columns of `stage_attempt` (`phase`, `outcome`, `closed` for `duration_ms`,
`handled` for `job_handle`, `stopped` for `cancellation_confirmed`; `delivered` for an artifact and a memory of its own), where each function is (`pc`,
`verdict`, `limit`, `cost`), the provider's side (`job`, `bill`) and what sweep and reconcilers have
read (`sweep`, `sweeping`, `recon`). `bill` is a ghost: what providers charged, known to nobody.

Adapters come in three kinds, by where the paid call is and what a cancellation can learn. `queue`: the
job runs from `submit` on (fal, the browser and CLI providers) and `fetch` reports a cost of zero.
`direct`: the paid call is `fetch`, a cancellation is never confirmed (ElevenLabs, Deepgram). `memory`:
the paid call is `fetch`, from a request kept in memory; a cancellation is always confirmed and never
billed (OpenRouter). `ItemOf` says whether an attempt makes a whole stage (0) or an item of an iterating one: a whole stage has
passed when its output is finalized, a stage of items only after its last one, and by that `StageCancelled`, the stage's part of
what a reconciler takes for interrupted, tells the two apart.

Abstractions: amounts are small naturals; retry limits are the set of attempts; the stop of a stage
after its last attempt is `RunControl`'s; the hold for quality control, quality control's own cap and approval
gates are not in `Attempts`, and items only as far as `ItemOf` goes; a failed stage is not told from a cancelled one;
attempts are the engine's, none is a person's edit; `RecordError` is one action for two steps (drop the job, write the
row); exceptions of the database that outlast a step's retries are left out.

`Settlement` says what all of this must amount to for one attempt's money: *none*, then *held*, then
for good *freed*, *paid* (what the provider reported) or *presumed* (the ceiling). `Attempts` has the
refinement mapping (`Account` of `Ledger`) and the property `SettledOnce`.

## 4. The model `Items`

Three stages: `source` makes a list, `items` iterates over it and may be reviewed (item by item or as a
whole), `clips` iterates over it too and reads, for each element, the item of `items` at the same place.
They are the smallest graph in which an item has a reader of its own and a list has two.

| variables | in the code |
| --- | --- |
| `state`, `scope` | `run.state`, `run.execution_scope` |
| `source`, `version`, `size` | the source's `stage_execution.state`, its newest output and how many elements that has |
| `exec[s]`, `count[s]`, `item[s][i]` | `stage_execution.state`, `item_count`; `stage_item.state` |
| `print[s][i]`, `read[s][i]` | `input_fingerprint`; the provenance of the item's newest attempt |
| `wait` | open approval waits on `items`, of an item or of the whole stage |
| `orch`, `fn` | `run.orchestrate` with its copy of the rows; `stage.execute` of an iterating stage |
| `from[s][i]` | ghost: the list the accepted output was made of |

| actions | in the code |
| --- | --- |
| `Load` ... `Finish` | `run.orchestrate` as far as items matter: rows that passed but hold items to make, waves, collection, the order in which a run's end is decided |
| `Resolve`, `Ensure` | `resolveIterateCount` and `ensureStageItems`: the count of the stage read item by item (`Misaligned`), fingerprints (`Mismatched`), a changed count, rows of a longer list left behind |
| `StartBatch` ... `FinishStage` | the batches of `stage.execute`, the items' functions, `STOP_PRIORITY`, `finishIteratingStage` |
| `Approve*`, `Reject*` | `HumanActionService` for an item or for the whole stage |
| `Continue`, `Keep`, `Rerun*` | the plans of `RunStagePlanService` |
| `RetryFailed`, `RetrySource`, `EditSource` | `RunActionService`, `ArtifactEditService` |
| `Pause`, `Stop` | as in `RunControl`, with the items' rows |

`Closure` is `computeInvalidationClosure` on this graph, `Apply` is `InvalidationService.apply`.

Abstractions: the source's attempt is one step, which always succeeds; an item's attempts are one step
(`Attempts` has them); executions do not overlap (`RunControl` has epochs and wakeups), so a wake starts the
next one at once and a stop takes the functions with it; every list has other elements than the one before.
A crash of one item ends the batch in the model only after the others have settled, as `Promise.allSettled`
makes it. Bounds: `MaxItems`, `MaxVersion` lists, `MaxOps` operations (approvals are not counted).

## 5. The model `Assistant`

One chat of `AssistantService` and the run it watches.

| variables | in the code |
| --- | --- |
| `chat`, `status`, `plan` | `assistant_session`; the `turn_status` and plan items |
| `watch`, `notes` | `assistant_watch`; the run's `notification` rows |
| `active`, `context` | the maps `active` and `turnContexts` for this chat |
| `turn[t]` | the call of `startTurn` and `runTurn` that is turn `t`: where it is, its mode, `preApproved`, its abort signal |
| `call[c]` | a call of a tool that changes something, with the state of its approval item |
| `deciding`, `planning` | calls of `decideApproval` and `decidePlan` between two awaits |
| `chain`, `serving`, `wake`, `queue` | the watch service's promise chain and the wake it awaits; each update's way; `pendingWakes` |
| `consent[t]` | ghost: why turn `t` may change things without a card: `rest`, a yes to the rest of it; `stray`, such a yes that was given in the turn before; `missed`, a switch away from Auto that did not reach it |
| `told`, `early` | ghosts: how often an update opened a turn, by its live note and by a replay; the notes announced while a boot's replay was still to come |

An action is the code between two awaits that let another request in. `StartTurn`, `ReadChat`, `OpenTurn`,
`EndTurn`, `Release`, `CloseTurn` are a turn; `CallTool` ... `RowExpired` are `callTool` with `confirm`;
`Decide*` and `Plan*` the two decisions, each in the steps its awaits make of it; `Handle`, `WakeCheck`,
`WakeStart` an update from the watch service to its turn; `DeleteBegin`, `DeleteEnd`, `Restart` what they
say. `Restart` includes the boot recovery, because no request is served before `onModuleInit` is over.

Abstractions: what the model says and which tool it calls is free (`CallTool`, `EndTurn`); reading tools,
attachments, memory, goals and usage are left out; the writes of one step to several items are one. Rows
are removed with the chat in one transaction (`DeleteEnd`). Bounds: each kind of event has a budget, answers under way at
once another, and `MCAssistant` checks six mixes of budgets rather than their product.

## 6. The models `ComputeJobs` and `DraftRenders`

`ComputeJobs` is `ComputeJobService` and `compute-supervisor.ts`: for each job the `files` in its directory,
`status` (`status.json`), `sup` (the supervisor, found by the handle's pid) and `command` (what it started). Its
operators are what one method does between two awaits; its actions are those of the two processes: the supervisor
reports, starts the command, sees it end or stops it at its time limit, writes how it ended, exits. What it
cannot write, because somebody removed the directory, ends it. `Terminate` signals the supervisor's process group
and not the command, which leads a group of its own.

`DraftRenders` is `TimelinePreviewService` for one editor stage.

| variables | in the code |
| --- | --- |
| `row`, `handled`, `video` | `timeline_preview_render`: its state, whether it has a `job_handle`, its `blob_id` |
| `settling` | the service's map of renders being finished |
| `req[r]` | a request between two awaits: the rows it read, the renders still to stop, the job it works on, the status it read |
| `blobs`, `made` | the stored videos; ghost: how many of a render were ever stored |
| `restarts`, `budget` | bounds |

| actions | in the code |
| --- | --- |
| `Begin` | `TimelinePreviewController`: a request to start, to ask or to cancel |
| `Select`, `StopJob`, `CleanStopped`, `DeleteRows` | `discardAll`: rows read, then each job stopped and its directory removed, then rows and videos deleted |
| `Select`, `StopJob`, `CleanStopped`, `MarkCancelled` | `cancel`, which ends by asking (`Look`) |
| `Insert`, `Spawn`, `SaveHandle` | the rest of `start`: the row, the steps of `spawn` (any may fail, or find the directory gone), the handle |
| `Look`, `Settle` | `current`: the latest row, the map |
| `PollReads`, `PollAnswers`, `Collect`, `Persist`, `MarkDone`, `MarkFailed`, `Tidy` | `finish`: the status file, then the process; the file, its storing, the row, the directory |
| `Process`, `Sweep` | the two processes; the reaper of directories a day old |
| `Restart` | the API starts again: requests and the map are gone, the processes live on or end with the machine |

Abstractions: resolving the draft, before anything is written, is left out; `spawn.lock` matters only when one job
is submitted twice, which this service never does; a pid given to another process is left out; the service's other
callers (tools that look at the latest video) are requests that ask; the reaper takes a directory only when no
request is at work in it and its supervisor is gone, because a day is far longer than either lasts.

## 7. Runs

### RunControl

| run | instance | shows |
| --- | --- | --- |
| `RunControlChain` | two stages in a chain, the first reviewed; 5 mutations, 5 epochs; failures, crashes, unsettled attempts, restarts; nearly every operation | `TypeOK`, `OneClaimPerEpoch`, `WorksOnAccepted`, `CompletedMeansDone`, `CancelledIsSettled`, `StaleIsRegenerated`, `RetiredWritesNothing` |
| `RunControlBranches` | two stages side by side, one reviewed and one filled in; failures, budget stops, quality-control errors; 5 mutations, 5 epochs; `FairSpec` | `ParkedHasWayOut`, `WorkMatchesState`, `PauseIsKept`, `WorkSettles` |
| `RunControlQuota` | a fork of three stages, one disabled, quota running out, under `FairSpec` | `QuotaResumes` |

Why the bounds are enough: the properties relate one execution to the next, so three epochs (the one
that is left, the one that replaces it, a later one) and the mutations that lead from one to the other
are what a violation needs; every mutant below is found well inside the bounds. Two stages give both a
dependency and a pair of branches; `RunControlQuota` adds a skipped stage and a fork. Deadlock is not
checked because a run really stops: it waits for a person.

Each property of a passing run has a mutant in `PROJECT.json`: a plausible bug in one definition
(written beside it, marked `mutant`) that TLC finds with that property.

### Attempts

Two attempts of one stage, a ceiling of 2; calls cost 1, or 1 or 2, or nothing.

| run | instance | shows |
| --- | --- | --- |
| `AttemptsCancel` | a queued job and a direct call for two items at once, which cost 1; run cap 3 and stage cap 2, either raised to 5; pause and stop at any point, results of every kind, failed verdicts included; one reconciler | `WithinCaps`, `ReleasedIsUnbilled`, `CancelledIsBooked`, `RetiredDeliversNothing` |
| `AttemptsReplay` | a direct call that costs 1 or 2, then a queued job that costs nothing, each of a whole stage; one replay per attempt, two overlapping reconcilers that may die; run and stage cap 3; rejections, timeouts, lost answers, failed verdicts | `TypeOK`, `BilledIsBooked`, `Balanced`, `OutcomeStays` |
| `AttemptsSweep` | a queued job, then a call from memory, which cost nothing; reservations that expire under attempts still at work, attempts that stop for good; stage cap raised from 3 to 5; `FairSpec` | `SettledOnce`, `ReservationsSettle` |

Why the bounds are enough: two attempts are what a race for a cap, a retry and an overlap need; with a
ceiling of 2 a cap of 2 or 3 takes one reservation and not the second until the first settles below its
ceiling or the cap is raised, and a cap of 5 takes both; the stage's cap is below the run's until it is raised and above it
until the run's is, so each of them is the one that refuses. One replay takes a step through its start twice, after any of its
writes, the last included; epoch 2 is reached by a stop after a resume. In the passing
runs a call never costs more than its ceiling: nothing in the code stops a provider that charges more.
`CancelledIsBooked` names what a cancelled run may still hold (`GivenUp`): `recordAttemptError` closes an attempt without settling
anything, and a closed attempt is none of the reconciler's (`stage-runner.service.ts:2310`), so that money waits for the
sweep, as does that of an attempt refused by the cap or the stop when its submit step ran again.
`OutcomeStays` has two exceptions, the two rows of `OnlySuccessesWrite` under *Divergences*.

### Items, Assistant and DraftRenders

| run | instance | shows |
| --- | --- | --- |
| `Items` | lists of one or two elements, made at most twice; every approval mode; `items` two at a time, `clips` one by one; 3 operations of any kind; `FairSpec` | `OneIdentity`: no stage mixes the outputs of two lists; `CompletedHasAll`, `WaitsMatch`: nothing is stranded, nobody is asked in vain; `AcceptedIsKept`, `RecordedReadersGoStale`, `FailureIsShown`: what may happen to an item, to its readers, to the stage; `ExecutionEnds` |
| `Assistant` | up to two messages and two updates, two calls that ask to change, to delete or to restart an uncertain request, one operation, two restarts, two answers under way at once as from two tabs; `FairSpec` | `TypeOK`, `OneTurn`, `ConsentFirst`: each change has a yes that is in force for it and covers its kind, `NothingIsStranded`, `ToldOnce`, `TurnsEnd` |
| `DraftRenders` | two requests at once; either two renders, of which one replaces the other, or one render with two cancels and a restart; `FairSpec` | `TypeOK`, `StoredOnce`: two requests do not store one video twice; `ShownIsKept`: what a person was shown is not changed by a request that read the row earlier, nor its video removed under it; `RenderSettles`: a render whose job is known ends by being asked about |

Two elements are a batch with a sibling, a list that shrinks and one that grows; two versions are an old
and a new list; three operations are a change, its repair and one in between. `BindsPrev` is empty in the
run: the chain of items of one stage only adds to what an invalidation takes. In `Assistant` every race
has two parties: two turns, a turn and an update, a card and a stop; the mixes pair them all, and a limit of two
wakes is reached. A card answered with no ends its call without a change, as one that expires does, so that no is not among
the answers. In `DraftRenders` too a race has two parties, and the two mixes hold a replacement against a finish
and a cancel against a finish, a cancel and a restart. The number of times somebody asks is not bounded.

### Divergences

Three runs end in a violation of something the documentation says, quoted in `PROJECT.json`:

| run | what happens |
| --- | --- |
| `UserActionFailure` | a failure the user must fix leaves its attempt open: the failed run stays busy and refuses Continue |
| `YesTurnRefused` | "Yes to everything this turn" on a card refuses the change the card is about, and lets the later ones through |
| `CancelStops` | a cancelled draft render: its supervisor is stopped, the command it started renders on, and nobody is left to stop it at its time limit |

The models show these too, when the constants of a passing run let them happen (the passing runs leave
the operation or the result in question out, so that the property is checked on everything else):

| property | with | what happens |
| --- | --- | --- |
| `WorkSettles` | `deferred` in `RunControlBranches` | a pause accepted between the orchestrator's last look and its quota pause is never completed: the run stays PAUSING (`run-state.service.ts:143`; `src/apps/docs/docs/runs/pause-resume-cancel.md:11` says it "becomes **Paused Manual**") |
| `QuotaResumes` | `settings`, or an answer, in `RunControlQuota` | it raises the revision the queued resume is bound to: the resume is dropped and the run stays in PAUSED_QUOTA (`run.service.ts:1016`; the same page, line 42, says it "continues by itself once provider quota resets") |
| `WorkMatchesState` | `Restarts = TRUE` in `RunControlBranches` | a restart between the claim and its memo: the run says RUNNING, nobody runs it |
| `WorkMatchesState` | `deferred` in `RunControlBranches` | the pause that meets the quota pause, again: the run says PAUSING, and its orchestrator has ended |
| `ParkedHasWayOut` | `patch_overrides` in `RunControlBranches` | overrides saved just after the last answer drop the wakeup: the run waits with nothing to answer |
| `StaleIsRegenerated` | `Fork`, `qc_error`, `retry_qc` in `RunControlChain` | an output held for quality control goes stale and is judged again instead of being made again |
| `WorksOnAccepted` | `qc_error`, `retry_qc` in `RunControlChain` | a stop while a held output is judged again: the judge that was left marks the attempt ended while the next execution judges it, so that execution works on a stage not marked running |
| `BilledIsBooked` | `AllQueue` in `AttemptsReplay` | a paid fal job that succeeds is booked at nothing (`fal.adapter.ts:143`) and its reservation released |
| `BilledIsBooked` | `AllMemory` in `AttemptsReplay` | a cancellation settles a call kept in memory at nothing while it is being paid for |
| `ReleasedIsUnbilled` | `AllMemory` in `AttemptsCancel` | stopping a run while OpenRouter's call is in flight releases the money of a call that is billed |
| `ReleasedIsUnbilled` | `AllQueue`, no stage cap and a run cap of 5 in `AttemptsReplay` | a submit step that runs again while the run is stopped releases the money of the first submission |
| `OutcomeStays` | `Late = TRUE` in `AttemptsReplay` | the sweep marks an attempt timed out that settled and delivered in the meantime |
| `OnlySuccessesWrite` | `AttemptsCancel` as it is | a reconciler reads an item's attempt between its finalizing transaction and `finishAttempt`, takes it for interrupted and marks the delivered success cancelled (`run-cancellation.service.ts:240`); its memory stays written (`src/docs/ai-video-engine-design-spec-v6.md:720` says "Failed, rejected, and cancelled attempts never write memory") |
| `OnlySuccessesWrite` | `AttemptsReplay` as it is | a step that finalized an output loses its memo and runs again (`stage-execute.fn.ts:50`); the output it judges now fails, or comes too late, and the attempt whose first output is current is called failed or cancelled (`stage-runner.service.ts:1634`, `1826`) |
| `NotBlockedByItself` | `AttemptsReplay` as it is | a submit step that runs again near the cap is blocked by its own reservation: `reserve` compares the ceiling with what is left before it looks for that reservation (`ledger.service.ts:79`; its comment at line 48 says it is idempotent) |
| `ReadersGoStale` | `Items` as it is | keeping an outdated clip drops its provenance; when its item is made again later the clip stays accepted (`run-stage-plan.service.ts:602`; `src/apps/docs/docs/runs/retries.md:15` says "stages that used the item become stale") |
| `ReviewIsAnswerable` | `Items` as it is | after a list became shorter, an orphan row of the longer one refuses the approval of the whole stage (`human-action.service.ts:122`, unlike `run-action.service.ts:268`) |
| `RestIsOneTurn` | `Assistant` as it is | a yes to the rest of a turn that overlaps the turn's end pre-approves the changes of the next one (`assistant.service.ts:1331`; `src/packages/shared/src/dto/assistant.dto.ts:168` says "in the rest of the turn") |
| `SwitchReaches` | `Assistant` as it is | a switch away from Auto while a turn is being prepared changes the chat and not that turn, which goes on in Auto (`assistant.service.ts:695`; line 144 says "so a mode change reaches it") |
| `ToldAgain` | `Assistant` as it is | an update announced between a boot and the end of its replay opens two turns: the guard compares an ISO time with the text PostgreSQL gives for one, so a live note never counts as old (`assistant-watch.service.ts:147`) |
| `UpdatesAreTold` | `Assistant` as it is | a turn refused in `prepareTurn` lets the slot go without handing on a queued update, which waits for the next turn's end (`assistant.service.ts:586`; line 148 says "told once the turn ends") |

`NotBlockedByItself`, `OnlySuccessesWrite` and the last six are stated in the modules and not part of a run.

More that the models show and that need no property of their own. In `Items`: a retry of the source that
changes the count while some clip is left out of it makes `ensureStageItems` throw, and the stage crashes;
`needsItemWork` counts the orphan rows too, so a stage with orphans is entered again on every execution. In `Assistant`: the
*idle* of a turn that ends may be written after the *running* of the next one; a card may say approved
while its call was told that it expired; a plan may be approved and its turn refused; a turn that ends after its chat
was deleted frees the slot of whoever holds it; a restart loses the queued updates, which the watch has already counted; an
early note handled live after the replay sets the watch back, and the next boot may tell an update again.

In `DraftRenders`: a cancel between the row and its handle marks the row and leaves the process that is being
started alone; two starts at once each keep a row, where `timeline-preview.service.ts:25` says a stage "keeps only
its latest"; a poll that reads the status file just before the supervisor writes *succeeded* and exits calls the
render failed (`compute-job.service.ts:143`); a restart before the handle is saved leaves the row rendering until
the next start or cancel (`RenderSettles` is about renders with a handle); a video stored for a render that
was cancelled or replaced meanwhile is named by no row.

More about money. A fetch step that runs again makes a paid call again, and one of the two is booked:
`BilledIsBooked` allows for one ceiling per replay; a judge's verdict is paid for and booked again. `StageCommitted` leaves out what a timeout booked provisionally, so
a retry may take the stage past its cap (`ledger.service.ts:686`). `SubmitJob` is enabled again after a
`Replay` from *accepted*: a second job for the same attempt, unless the provider tells the two apart by the
idempotency key it is given.

### Fairness

`RunControl`'s `FairSpec`: weak fairness of dispatch (the sweep runs every minute), claim or rejection of
what was sent (Inngest runs and retries functions), the end of cancelled functions, the reconciliation
by event, every orchestrator and every stage invocation. No fairness of people, nor of the inline
reconciliation of the request that cancels: that process may die. Weak fairness is enough because no
other action disables one of these for good without achieving what it was for.

`Attempts`' `FairSpec`: weak fairness of the steps of `budget.sweep`, which is a cron function and so
runs again and again; of time, which lets every reservation expire; and of the end of the polling window,
which is finite (without it a job that polls for ever could push its expiry out for ever). Nothing is
assumed of the attempts' own functions: `ReservationsSettle` holds even when all of them are dead.
No sweep dies in that run; deadlock is not checked because a run ends.

`Items`' `FairSpec`: weak fairness of the orchestrator and of the stage's function, which Inngest runs and
retries; none of people. An item's function comes to some result because its polling window is finite.

`Assistant`'s `FairSpec`: weak fairness of what the process does by itself, as one action: its promises go
on and its timers fire. The model on the other side may talk on for ever, and nobody has to answer. `TurnsEnd`
then rests on the turn's clock and on the expiry of cards. An aborted turn ends because the agent is handed the
signal; that it obeys is an assumption about the agents (`Stopping`).

`DraftRenders`' `FairSpec`: weak fairness of every request under way, whose awaits end; of the supervisor, which is
a loop with a time limit of its own; and of asking, because the editor asks every moment or two while it shows a
render (`src/apps/web/src/components/timeline-editor/use-draft-render.ts:47`). None of the command, which may hang,
of the reaper, or of people. Asking is disabled while both requests are busy, but each of them ends, and a request
that asks may find the render in the map, whose finisher goes on.

## 8. Proofs

`RunControlProofs` proves, for any finite or infinite set of stages, any dependencies, any bounds and
any choice of outcomes and operations (the assumptions are the typing of the constants in `RunControl`):

| theorem | statement | hypotheses | argument |
| --- | --- | --- | --- |
| `TypeCorrect` | `Spec => []TypeOK` | | inductive as it stands; one lemma per group of actions |
| `ClaimedOncePerEpoch` | `Spec => []OneClaimPerEpoch` | | `WakeupInv`, below |
| `PauseKept` | `Spec => PauseIsKept` | | `QueuedFromRest`: no start or resume is queued from a run at work, so no claim finds a run PAUSING |
| `CancelledSettled` | `Spec => []CancelledIsSettled` | | inductive: writes of functions need RUNNING or PAUSING, answers in CANCELLED only queue work |
| `RetiredSilent` | `Spec => RetiredWritesNothing` | | every write of a function compares its epoch with the run's |
| `StoppedIsQuiet` | a run that stopped has no orchestrator and no invocation at work | | `EngineInv` |
| `WorkMatches` | `Spec => []WorkMatchesState` | `~Restarts`, no quota runs out | `EngineInv`, `Driven` |
| `BuildsOnSettled` | an attempt at work is over no accepted or waiting output and builds on settled stages | | `RowsInv` |
| `WorksOnlyOnAccepted` | `Spec => []WorksOnAccepted` | `JudgedOnce` | `RowsInv`, `NothingHeld`, `RunsMarked` |
| `StaleRegenerated` | `Spec => StaleIsRegenerated` | `JudgedOnce` | the same |
| `CompletedDone` | `Spec => []CompletedMeansDone` | | `EngineAtRest`, `RowsInv`, `MutationWakes` |
| `WayOutKept` | `Spec => []ParkedHasWayOut` | no overrides are saved | `TimedIsQuota`, `AnswerLeavesWayOut`, `OrchestrateLeavesWayOut` |

`OneClaimPerEpoch` is not inductive: nothing in it says that two *unclaimed* wakeups of one epoch
cannot both be claimed. `WakeupInv` adds what the outbox looks like: no wakeup carries an epoch higher
than the run's; starts carry epoch 0 and the source state CREATED, and in CREATED none was claimed;
every resume carries an epoch of its own, above 0. A new resume opens the epoch it carries
(`InsertKeepsWakeupInv`), which is the heart of it.

The rest of the table needs to know who works for a run, which takes the copy of the rows an orchestrator decides on,
the invocations it started and the rows themselves, all of which change at different times:

* `EngineInv` is about the functions alone. `CopiesDrawn`: a stage is started only when the copy has the stages before it
  for done, once in an execution, and what was started is collected before the orchestrator ends. `CallsActive`: an
  invocation that is not collected is one its orchestrator waits for. `RestIsFree`: a run at rest has an orchestrator that
  has not begun or has ended, so it has no invocation. `NoneAhead` and `CancelsBehind`: nobody works for an
  execution to come, and a cancellation that is still to be delivered is about one that was left.
* `Driven` is the converse of `RestIsFree`, a run that works has an orchestrator. It is where the hypotheses of `WorkMatches`
  come in: a restart between claim and memo and a quota pause that meets a pause leave the run without one.
* `RowsInv` relates the copy to the rows. While an execution works, what its copy has for done is settled, what waits or
  is settled has been seen as such, and what it claims is neither (`RowsKnown`); the open waits are those of the stages that
  wait (`WaitsMatch`). It holds because only the invocations of that execution, which are not done, and an approval, which
  settles, write rows meanwhile: `OperatorAtWork` says what operators may do to a run at work.
* `JudgedOnce` says that no held output is judged a second time: either quality control never fails or nobody asks for
  it again. Then no attempt is held at all (`NothingHeld`), and an invocation at work has marked its stage (`RunsMarked`).
* `CompletedDone` is an argument about two moments: at the end of an execution the copy has every stage for done
  (`AllDoneAreDone`) and the rows agree; afterwards, what takes a stage of a run at rest back queues a wakeup in the same
  step (`MutationWakes`). `planWave` is a recursion over the dependencies, for which there is no induction here;
  `DoneUnfolds` proves that it unfolds, on any graph and with cycles too, from the function that has a stage for done when it
  is in a set of settled stages closed under dependencies.
* `WayOutKept` follows the wakeup an answer queues: it can be claimed in the state the run is parked in and is dropped
  only for a later one, unless overrides are saved, which move the revision it is bound to.

The hypotheses are those the table of variations in *Divergences* shows to be needed, and no more: each theorem with one
has a row there in which the property fails without it.

`AttemptsProofs` proves, for any sets of attempts, stages and reconcilers, any adapters, ceilings, costs,
results, caps and bounds (the assumptions are the typing of the constants of `Ledger` and `Attempts`):

| theorem | statement | argument |
| --- | --- | --- |
| `TypeCorrect` | `Spec => []TypeOK` | inductive; one lemma per group of actions over `Typed`, which is `TypeOK` in parts |
| `SettlesOnce` | `Spec => SettledOnce` | refinement of `Settlement` with the invariant `SetAside` |
| `RetiredDelivers` | `Spec => RetiredDeliversNothing` | only the finalizing transaction delivers, and it compares the epoch |

`SettlesOnce` needs `SetAside` because a settlement does not ask whether there is a reservation: an attempt
at a place past its reservation has one, the sweep's candidates have one, and a settled attempt had one.
With it, each step either leaves the ledger alone, or writes the one reservation of an attempt that has none
(*none* to *held*), or settles a reservation nobody settled (*held* to one of the three ends); replayed
reservations and settlements stutter.

`BudgetProofs`, `CancellationProofs` and `BillingProofs` prove the other safety properties of `Attempts`, with the
same generality but for the hypotheses named:

| theorem | statement | hypotheses | argument |
| --- | --- | --- | --- |
| `BooksBalance` | `Spec => []Balanced` | | `InBooks` |
| `CapsAreKept` | `Spec => []WithinCaps` | `CostsFit`, `StageCapsStand` | `LimitsHold`, then `RunFits`, `StageFits` |
| `CancelledBooked` | `Spec => []CancelledIsBooked` | | `Begun`, `Booked`, `Careful`, then `Reconciled` and `Given` |
| `OutcomesStay` | `Spec => OutcomeStays` | `~Late` | `Begun`, `Booked`, `Careful`, with `Stored`, `Cleared`, `Behind`, `SweptFailed` |
| `ReleasesAreUnbilled` | `Spec => []ReleasedIsUnbilled` | `~Late`; every attempt `Costless`, `Direct` or `QueuedOnce` | `MeteredAll`, `Released` |
| `BilledBooked` | `Spec => []BilledIsBooked` | `~Late`, `CostsFit`; every attempt `Costless` or `Direct` | `PaidAll` |

Sums over the rows of the ledger are folds, `Sums` over the set of rows. No induction theorem over an operator is
needed for them: the fold exists because a set of rows on which it fails would have a smallest
subset on which it fails (`SmallestSet`, from the library's theorem that strict inclusion of finite sets is
well founded), and the same argument gives what a row more adds (`SumsAt` and what follows it). From then on a step is
three cases: it leaves the ledger alone, writes one reservation, or settles one (`BooksStep`), and
a sum over any set of attempts changes by that row's amount. `BooksBalance` takes all attempts, `CapsAreKept` those of
a stage.

* `InBooks` says that `reserved` and `spent` are those sums, and that every attempt has at most one reservation, of
  its ceiling (`WellKept`). `RunFits` and `StageFits` are the caps over those sums. `LimitsHold` is needed because an attempt
  compares with the stage cap its invocation loaded: that copy is never above the row's cap, since caps only rise.
* `Reconciled` says that while a reconciler that began in this execution is at work, every attempt that still
  has money set aside and whose function has been left behind is on its list or was settled by it. `Begun`, `Booked` and
  `Careful` relate rows and functions: who marks an attempt settled has settled its money first, and a reconciler works
  on attempts of executions that were left.
* `Given` says what a closed attempt may still hold, which is what `CancelledIsBooked` exempts: it was given up after an
  error, or it was refused, and then it has a reservation only if its submit step ran before.
* `Stored` says where an attempt may be once it has delivered: settled, paid for, and at one of the places a step that
  runs again passes; it never submits again. `Cleared`: a reconciler takes up a delivered attempt only as an item's, because a whole
  stage passes in the transaction that delivers. `SweptFailed` and `Behind`: the sweep has no delivered attempt on its list, since
  it only takes up attempts whose function has ended, which is what `~Late` comes to.
* `Sent` and `Metered` say for each place of a function what may have been charged so far, `Released` that an attempt whose
  money came back is charged nothing and will not be. `Paid` bounds the bill by what is booked or still held, plus one
  ceiling for each time the steps ran again (`Redone`): before a call there is room for it (`Room`), and between two
  replays there is one call.

The hypotheses leave out what the table of variations in *Divergences* shows to fail: a reservation that
expires under an attempt at work (`Late`), queued jobs, whose fetch reports no cost or which are submitted
twice, and calls kept in memory that a cancellation drops. Two are about the money itself. `CostsFit`, a call costs at most what was
reserved for it, is what prices and worst cases are meant for and nothing checks (`ledger.service.ts:250`).
`StageCapsStand`, a cap is raised only where there is one, is what the dialog asks for
(`src/apps/web/src/components/runs/raise-budget-dialog.tsx:40`); the service also takes a first cap, which may be below what the stage
has spent. `Attempts` needs one assumption for the caps: the attempts that follow each other are of one stage, since a loop is
one stage's (`LoopAssumption`).

`AssistantProofs` proves every safety property of `Assistant`, for any number of turns, calls, updates,
answers under way and operations (the assumptions are the typing of the constants of `Assistant`):

| theorem | statement | argument |
| --- | --- | --- |
| `TypeCorrect` | `Spec => []TypeOK` | inductive with `Typed`, which adds what the chain and the queue hold |
| `OneTurnAlways` | `Spec => []OneTurn` | inductive as it stands: the slot is given only when free, and a chat that is gone comes back only with a restart |
| `ConsentBeforeChange` | `Spec => ConsentFirst` | `Agreed`, below |
| `NothingStranded` | `Spec => []NothingIsStranded` | `Held`, below |
| `ToldAtMostOnce` | `Spec => []ToldOnce` | `Counted`, below |

`ConsentFirst` is about the moment of a change: its own card, still waited on, is answered with a yes, or the turn is in Auto and so is
the chat, or the rest of the turn was agreed to, each for the kinds it covers. The last two are read from the turn's context, which an
answer or a switch reaches only later, so `Agreed` says that every turn in Auto is one of a chat in Auto or one that missed the
switch (`ModeAgreed`), that every turn that need not ask was told so by a yes of its own or by one that strayed
(`TurnAgreed`), and that an answer stored and not yet applied is already noted for the turn of its card (`AnswerAgreed`,
`CallsHaveTurns`). The two gaps, `stray` and `missed`, are what `RestIsOneTurn` and `SwitchReaches` deny and *Divergences* shows.

`Held` says what late steps find: an answer under way belongs to a call past its card's writing, a stored answer to a card no
longer pending, and a chat that is gone shows nothing running.

`ToldOnce` counts the turns an update opened by its live note and by a replay together, except for notes that were announced
while the replay of a boot was to come (`early`), which both may tell (`ToldAgain` in *Divergences*). `Counted` has four parts. `Order`
is about who may still hand an update on: the chain holds live notes in the order they came (`ChainClimbs`), none of which was handed on
(`UnheardIsNew`), the watch and the rest of the chain are past what was (`HeardIsPast`), a note is handed on live or by a
replay (`HeardOneWay`), and what stands behind a replay in the chain is early (`ReplayIsEarly`). Then an update that was handed on is in
one place: in the queue once (`QueuedOnce`), with the one turn that comes with it and has told nothing yet (`ComingOnce`), or
told (`ToldIsDone`).

`ItemsProofs` proves the properties of `Items` but its liveness, for lists of any length, any concurrency of the stages,
any modes of approval, outcomes and number of operations (the assumptions are the typing of the constants of
`Items`). One inductive invariant, `IInv`, carries them all (`Inductive`), with `Identity` on top of it for the last:

| theorem | statement | what `IInv` adds for it |
| --- | --- | --- |
| `TypeCorrect` | `Spec => []TypeOK` | `WorkTyped`: what the orchestrator and the stage's function hold |
| `WaitsAlwaysMatch` | `Spec => []WaitsMatch` | `AskedAlone`: no function works on a stage that is reviewed as a whole |
| `AcceptedAlwaysKept` | `Spec => AcceptedIsKept` | `BatchSound`: what a batch has still to begin is not accepted, what it began is running |
| `FailureAlwaysShown` | `Spec => FailureIsShown` | `FailureKnown`: a failure the orchestrator knows of is on a row it will not start again |
| `CompletedIsComplete` | `Spec => []CompletedHasAll` | `BatchesDone`, `SettledSound`: what the copy takes for settled is, and the batches behind the loop have all their items |
| `RecordedReadersAlwaysGoStale` | `Spec => RecordedReadersGoStale` | `RowsKnown`: a row past the count is stale, so a stage made stale as a whole has all its accepted items in the closure |
| `OneIdentityAlways` | `Spec => []OneIdentity` | `Identity`, below |

`Engaged` ties them together: a run is live exactly while its orchestrator works, so whatever an operator does
to a run that rests (`Planned`) meets no function, and only pauses, stops and approvals have to be looked at
against a batch under way.

`OneIdentity` is about the past, which list each accepted output came from, and the code never compares that: it compares
what a row stands for (`input_fingerprint`), and only of what is accepted (`resolveIterateCount`), although rows get a new
fingerprint before their outputs are made again, an outdated output may be kept as it is, and a review may be under way.
`Identity` closes these gaps:

* `OneList`: what is accepted or waits came from the list its row stands for, and all such rows of a stage stand for one.
* `AskedCurrent`: nobody is asked about an output of an earlier list, so that what `resolveIterateCount` does not look at
  needs no look. Whatever replaces the list stales its recorded readers, and what waits has recorded what it read.
* `StageWhole`: in an accepted stage even the outdated items come from one list, which is why they may be kept. If that list
  is no longer the source's, the stage has an item that is not reached by any closure (`Anchor`): one that was
  kept, so that it is recorded as nobody's reader, the first of all where items read the one before. It stays accepted, so the stage is
  refused before any of its items is made from the newer list. That it exists is `ClosureLeaves`: a closure that misses no item
  takes the stage with it (`Cardinality(hit) >= count`).
* `WorkCurrent`: a function past `resolveIterateCount` works on the newest list, since lists change only in runs at rest.

`DraftRendersProofs` proves the two safety properties of `DraftRenders` and its typing, for any finite number of renders, any
requests, cancels and restarts (the assumptions are the typing of the constants of `DraftRenders`):

| theorem | statement | argument |
| --- | --- | --- |
| `TypeCorrect` | `Spec => []TypeOK` | inductive with `Typed`: a request at work is at work on a render |
| `OneVideo` | `Spec => []StoredOnce` | `Alone` and `Once` |
| `ShownStays` | `Spec => ShownIsKept` | `Alone` and `Kept` |

`Alone` is why the map suffices although nothing is locked: a render is started by one request, finished by at most
one, which entered it in the map, and by none while it is being started; a render not yet inserted has no handle,
no video and nobody at work. `Once` counts: when a render has as many videos as the restarts so far
allow, either the request that stored the last is not yet through with its directory, or the directory is empty, and a
finish that finds no output stores nothing. `Kept` says that a row that is done names a video that is there,
and that the one its finisher is about to name is there as long as the row is still rendering.

Every safety property a run checks is proved, under the hypotheses named above. Only model-checked: liveness (`WorkSettles`,
`QuotaResumes`, `ReservationsSettle`, `ExecutionEnds`, `TurnsEnd`, `RenderSettles`), which is out of the prover's reach, and the
runs that end in a violation.

## 9. What is not modelled, and why

The models cover what decides over a run and its money and what several actors write at once. That is a
small part of the lines of the repository: most of it is the web application, editors and their forms,
prompts, provider requests and their formats, and services that read and write single rows in one transaction,
where a model would say what the code says.

Inside the modelled parts:

* `RunControl`: plans up to a chosen stage, `replace_input`, raised caps (`Attempts` has the raise itself),
  seeding a run from another, the order in which a wave starts its stages.
* `Attempts`: the hold for quality control, the approval gates of attempts, the delays between polls and
  retries; what a provider does between `submit` and its result.
* `Items`: edits of single items, waits for a supplied item, provenance by field, overlapping executions
  (`RunControl` has them).
* `Assistant`: several chats at once, what the tools do, questions to the user, usage, memory, goals.
* `ComputeJobs`, `DraftRenders`: `spawn.lock`, pids given to other processes, deletion with the run, the other users
  of compute jobs, which are adapters (`Attempts`).
* Waves and invalidation are modelled on the graphs of the instances and not checked as algorithms
  against a reference on arbitrary graphs.

Components left out:

* Human reminders and notifications: they are told about waits and endings and write only their own rows.
  `Assistant` has the notification of a run as far as a watch needs it.
* The timeline itself, its operations and their validation, and previews of motion: sequential code over data. The
  editor's completion is the `submit_input` of a stage; its draft renders are modelled.
* Checks and quality control: what a check computes is data; when it runs and what its verdict does is in
  `Attempts` and `RunControl`.
* Artifacts and blobs: content addressing and the collection of stored objects (`artifact/blob.service.ts`,
  `artifact/storage-orphans.ts`), which no decision of a run waits for. It would be the next module.
* Blueprints, packages, settings, channels, library, trash, sandbox: validation and editing of documents.
* Live updates, web application, render worker, speech service, release scripts: input and output.
