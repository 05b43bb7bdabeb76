# HyperCopy: TLA+ specifications

HyperCopy mirrors the positions of a *master* Hyperliquid account onto the
accounts of *followers*. Orders are real money, every component may crash or be
redeployed at any moment, and the exchange answers late, partly or not at all.
These specifications state what the code promises in that setting, check it with
TLC on small instances and prove the most important parts with TLAPS for every
value of the constants.

Python paths below are relative to `backend/app/` of the repository.

## 1. Inventory

### Components, their state and their operations

| component | code | durable state | operations |
|---|---|---|---|
| Master watcher | `workers/watcher.py`, `db/lease.py`, `services/copy.py` | `watcher_lease`, `master_events`, checkpoint row, `global_pause` | acquire/renew/release lease, replay history by pages, follow the websocket, persist a fill with its EVENT jobs, move the checkpoint, pause on an unproven gap |
| Job queue | `services/queue.py` | `copy_jobs`, Redis stream of hints | publish, coalesce strategy intents, expire stale strategy jobs, repair the stream, release stale claims |
| Execution worker | `workers/execution_worker.py`, `services/execution.py` | `copy_jobs`, `executions`, `position_ledger` | claim, lock, plan, insert the execution, submit, resolve, apply the fill, finish or retry |
| Position ledger and user lock | `db/position_ledger_lock.py` | `position_ledger`, PostgreSQL advisory lock | serialise all ledger writers of a user |
| Resolver | `services/execution_resolution.py` | `executions`, `position_ledger`, incidents | query the cloid, synchronise from a snapshot, settle, quarantine |
| Reconciler | `services/reconcile.py` | `position_ledger`, `risk_states`, RECONCILE jobs | order + master read, follower snapshot, ledger replacement, new target |
| Strategy intents | `services/strategy_intents.py` | causal order in the job context | coalesce, authorise before submission |
| Sizing and risk | `engine/sizing.py`, `engine/risk.py`, `services/effective_risk.py` | none | plan the delta, split a reversal, deny, allow, trim |
| State tables | `engine/states.py` | none | guard state changes of jobs and executions |
| Hyperliquid adapter | `adapters/hyperliquid.py` | signer cadence | `place_ioc`, order status, snapshots, websocket |
| Rate limiters | `adapters/ratelimit.py`, `adapters/address_ratelimit.py`, `db/signer_action_lock.py` | Redis sorted sets, slot and mode keys per address, advisory lock per signer | reserve, settle, back off, reserve a slot, serialise a signer |
| Copy control | `api/user.py`, `api/activation.py` | `users.copy_state`, trading account | link, unlink, activate, pause, shadow, resume, close all |
| Execution destination | `services/execution_destination.py`, `services/destination_switch.py`, `services/networking.py` | destination epochs | bind jobs, block, verify and complete a switch |
| RISEx window | `services/risex_execution_window.py`, `services/risex_execution_control.py`, `workers/execution_worker.py` | control rows; the window itself is process-local | ARM, DISARM, poll, readiness, fence, expire |
| RISEx execution | `services/risex_copy_execution.py`, `services/risex_execution_*.py`, `adapters/risex*.py`, `security/risex_*.py` | executions, nonces, credential generations | prepare, claim the first POST, post, classify, settle, resolve |
| AI profit exit | `services/ai_profit_exit*.py`, `services/execution.py` | decisions, their jobs and executions | prove the cycle, decide, exit, forbid reopening |
| AI intelligence | `services/ai_intelligence.py`, `services/ai_mode.py` | reports, mode | advisory factor on risk |
| Leverage recovery | `services/master_leverage_cache.py`, `services/queue.py` | Redis marker and repair keys, `repair_pending` in the job | register missing leverage, publish a repair, replay it |
| Admin commands | `api/admin.py`, `services/admin_leverage_sync.py`, `workers/execution_worker.py` | ADMIN_* jobs | diagnose, enqueue, sign once, quarantine, answer |
| Authentication, credentials, billing, analytics, frontend | `api/`, `core/`, frontend and landing pages | sessions, subscriptions | rotate refresh tokens, webhooks, reads |

### How they interact

The watcher writes `MasterEvent` and EVENT jobs in one transaction that reads the
lease row `FOR SHARE`. Redis carries only hints; PostgreSQL is the truth, and a
database fallback serves the same rows. A worker claims a job with a lease,
takes the user's advisory lock (held on a *separate* connection), re-reads its
claim, plans from the ledger row, commits `Execution(SUBMITTING)` and only then
calls the exchange. Resolver and reconciler run in the maintenance loop of the
elected worker and take the same lock. `close_positions` writes jobs from the API
process without the lock.

A job is bound to the user's active execution epoch when it is published; the
binding is read again under the user lock and right before the order. A RISEx
order runs only in the one worker process whose window an operator has opened
through a control row; its consume loop and its maintenance loop (which holds
the resolver) share the submission lock of that process. The profit-exit
evaluator writes a decision and its job in one transaction, and every planner of
strategy jobs reads the decisions of the current master cycle. All replicas share
the Redis limiter; all signed actions of an address share its advisory lock and
slot. The admin API enqueues jobs and waits for their rows to end.

### What is hard

* A crash, cancellation or redeploy between any two commits of the submission
  (`execution.py:1150-1168`), and a job lease that runs out while its worker is
  still running (`execution.py:174-184`): the order must leave at most once.
* An ambiguous answer: the position has moved or not, the ledger does not know,
  and a snapshot, a retry and the resolver all may learn of the fill first.
* The in-memory job and ledger rows are read once (`expire_on_commit=False`) and
  used until the job ends.
* The advisory lock's connection may drop while its holder continues.
* Two watcher replicas during a deploy overlap; a stalled leader that wakes up.
* History pages with a hard ceiling and millisecond cursors.
* A DISARM committed while the readiness probe of an older ARM is still running,
  or while an order is between its last check and its POST.
* A RISEx order that was posted and not answered, a provider history that shows it
  late, and absolute position snapshots that must be attributed to one order.
* A profit exit whose order is ambiguous while EVENT and RECONCILE jobs of the same
  master cycle are planned from events that are missing or persisted late.
* A switch of the destination between the publication and the order of a job.
* Reservations stamped by clocks that disagree, and sent later than they were made.
* Marks and repairs of a missing leverage that reach Redis late, twice or never.
* A one-shot signature by a worker whose lease has run out.

The list with lines is in `PROJECT.json` under `hazards`.

### What makes each component correct

* *Execution*: one submission per execution row, and only after the row is
  durable; every fill approaches its job's target; a reversal opens only from a
  flat position; every job ends.
* *Ledger*: it contains every fill at most once, loses none, and differs from the
  exchange by exactly the fills it has not seen.
* *Resolver*: outcomes are final; quarantine only for jobs that have ended; every
  ambiguous execution is settled.
* *Reconciler*: it never stacks a second order on an unresolved one so that the
  exposure exceeds what master or follower may hold.
* *RISEx window*: an applied DISARM is final for every older ARM; only the newest
  request opens a window; a DISARM is applied.
* *RISEx execution*: one POST per job over all retries and crashes; one unresolved
  execution per user and asset; a settlement agrees with the provider and never
  goes back to an older observation; every order the provider handled is settled.
* *Profit exit*: exposure does not grow again in a cycle an exit has left; one live
  exit per cycle; a failed exit is really over; decisions do not stay pending.
* *Controls and destination*: nothing stays at a destination the user has left; a
  pause stops new exposure; a close-all ends.
* *Limiter*: the exchange never charges more than the budget, and a lane within its
  allowance always finds room. *Signer*: one action at a time and per slot.
* *Leverage recovery*: the marker is there exactly while an intent is newer than
  every repair. *Admin*: a synchronisation is signed once, and never
  beyond what its sources allow after the claim and the administrator was shown.
* *Watcher*: no write by a fenced-out leader; the checkpoint never passes a fill
  that is not recorded; a finished replay is complete; every fill is recorded.

## 2. Modules

| module | models | role |
|---|---|---|
| `CopyExecution` | queue, worker, lock, ledger, resolver, reconciler, intents, `close_positions`, exchange | specification and properties; composes the components that share one follower's ledger row |
| `MCCopyExecution` | | instances for TLC |
| `CopyExecutionProofs` | | `TypeCorrect`, `SubmittedOnce`; `OutcomeIsFinal`, `LedgerRemembers`, `QuarantineIsTerminal`; `LedgerIsExplained`; `OpensOnlyWith`, `FillsApproach`; `AppliedCountedOnce`; `ExposureStaysBounded` |
| `MasterWatcher` | watcher, lease, event log, checkpoint | specification and properties |
| `MCMasterWatcher` | | instances for TLC |
| `MasterWatcherProofs` | | `TypeCorrect`, `StaleWriterFenced`, `NothingBehindCheckpoint`, `ReplayIsComplete` |
| `RisexWindow` | ARM/DISARM requests, window controller, readiness task, checks of an order up to its POST | specification and properties |
| `SubmissionJournal` | what a write-ahead order journal promises | abstract specification |
| `RisexExecution` | RISEx orders of a user on an asset, from job to settlement | specification, properties, refinement of `SubmissionJournal` |
| `ProfitExit` | cycles, decisions, exits and the jobs they race with | specification and properties |
| `DestinationSwitch` | copy controls, epochs, binding, switch | specification and properties |
| `RateLimiter` | weighted limiter shared through Redis | specification and properties |
| `SignerCadence` | signer lock, slot and sustained mode of an address | specification and properties |
| `LeverageRecovery` | markers and repairs of missing leverage, stream and fallback | specification, properties and their inductive invariant |
| `AdminCommands` | administrative jobs from request to answer | specification and properties |
| `MCPlatform` | | one instance of each of these eight for TLC |
| `RisexWindowProofs`, `RisexExecutionProofs`, `ProfitExitProofs`, `DestinationSwitchProofs`, `AdminCommandsProofs` | | inductive invariant and theorems of one component each |
| `MCPlatformProofs` | | these theorems for the properties of `MCPlatform`; the invariants of `RateLimiter`, `SignerCadence` and `LeverageRecovery`; `PlatformTyped` |

### CopyExecution

One follower and one market: the lock, the ledger row and the ambiguity guards are
per user (and market), so followers do not interact. Sizes are whole signed lots.
The follower's target is the master position in follower lots, because sizing
keeps the sign and every decision downstream compares target and current size.

| variable | code |
|---|---|
| `jobState`, `jobOwner`, `jobAttempts`, `intent`, `hinted` | `CopyJob.state/owner/attempt_count/context`, stream entries and database fallback |
| `execState`, `execLeg`, `execFill`, `execApplied` | `Execution.state`, its sizes and the `hf007` journal, `filled_size`, `ledger_applied_at` |
| `ledger` | `PositionLedger.size`, `last_execution_id`; `verified` = the executions whose `resolved_at` is not later than `exchange_verified_at` |
| `lock` | `pg_advisory_xact_lock` of the user |
| `pc`, `wk` | where each `handle_job_id` is, and the rows it keeps in memory |
| `res`, `rec` | one pass of `resolve_ambiguous_executions` and of `reconcile_user` |
| `pos`, `order`, `xfill`, `sent` | the exchange: position, fate and fill of each order, times it was sent |
| `master`, `moved`, `causal`, `paused` | master position, a fill not yet persisted, the causal counter, `copy_state = PAUSED` |
| `counted` | ghost: how often the ledger size contains each fill |

Each action is one stretch between two awaits at which another actor can be seen:
a commit, an exchange call, a lock acquisition. `Claim`, `AcquireLock`/`ClaimLost`,
`Plan`/`Decline`, `LegFresh`/`LegStored`/`LegResolve`, `InsertExecution`/
`InsertConflict`, `Authorize`/`PreSubmitCancel`, `Submit`, `Response`/
`SubmitAmbiguous`, `ApplyFill`/`ApplyDeferred` and `Finish` are the worker;
`Resolve*` and `Quarantine` the resolver; `Reconcile*` the reconciler;
`MasterFill`, `ClosePositions`, `CloseNothing`, `Publish`, `ExpireStrategyJob`,
`ReleaseStale` the rows' other writers; `Crash` and `LoseLock` the faults;
`MasterMove`, `Fill`, `NotFilled`, `ManualTrade` the outside world.

What is nondeterministic: risk decisions (deny, allow, trim: `Decline`, `Trimmed`),
leverage updates and gates (`Decline`), all ages and leases (a timeout may fire
whenever its guard holds), the outcome of every exchange read (it may always
answer UNKNOWN). The minimum notional is a reason for `Decline`.

### MasterWatcher

Fills are numbered in exchange order and `times[i]` is the millisecond of fill
`i`, so a page of `userFillsByTime` is an interval. `events[i]` is the fencing token
of the `MasterEvent` of fill `i`. The fence check and the event's insert are one
step, because the row lock keeps `try_acquire` out until the commit. The
checkpoint is a step of its own and not fenced. Renewal is a concurrent task: it
may come at any time, also late.

### RisexWindow

One process incarnation after the other (`boot`). `ctl` are the control rows of the
boot, `win` the controller with its `last` generation and invalidation `epoch`,
`arm` the readiness task, `poll` the two loops that call
`_poll_risex_control_once`, `job` the order attempt of the consume loop, `peer` a
second worker with a fresh heartbeat. `AdminArm`/`AdminDisarm` are the endpoints,
`PollClaim`..`PollLaunch` one poll, `ReadinessFails`/`ArmFence`/`ArmDecide`/
`ArmCommit` the ARM task with `arm_finalization_fence`, `MaintainWindow` and
`Heartbeat` the maintenance loop, `JobStart`..`JobPost` an order. A task is
interrupted only where the code awaits.

### RisexExecution and SubmissionJournal

`job`, `row` and `ledger` are the tables, `ord`, `indexed` and `ext` the provider,
`cw`, `rs` and `ac` the consume loop, the resolver and `resume_copy_immediate` with
the snapshot they hold. `Claim`/`Recover`/`Prepare`/`Persist`/`ClaimFirstPost`/
`Post`/`Response`/`Truth*`/`FinishJob` follow `_run_risex_copy_job`, `Resolve*` the
resolver; `Rotate`, `Unlink`, `ActivateObserve`, `ActivateCommit` the user's
requests. A position is the set of fills it contains plus the user's own trades, so
that *which* orders an absolute snapshot has seen is visible; `dirty` says that the
ledger row was written after a task read it as the baseline of its snapshot, which
the settlement compares under the ledger lock.

`SubmissionJournal` is the promise: an order is recorded before it may leave,
released durably before it leaves, leaves at most once and is settled only with the
venue's result. The mapping takes `phase` from the row's `submission_status`, `left`
from the POST counter and `result` from the provider's order.

### ProfitExit

`moves` are the master's position changes and `log` those persisted, in causal
order: a move may be missing or late, so the cycle that `resolve_current_source_cycle`
proves from the log may differ from the true one. `dec` carries decision, job,
execution and order; `EvRead`/`EvCommit` is the evaluator, `Claim`..`FinishExit` the
exit job with recovery and ledger application, `EventJob`, `RcCommit`, `RcJob` the
strategy jobs (their order is one step, `CopyExecution` has the detail).
Expiry and the economics of a decision are reasons of `Refuse` and
`RevalidateFails`. A failed final revalidation and the writer fence (`WriterFenced`) are
local cancellations by `place_ioc`: the row is CANCELED, the order was never sent, the
decision ends FAILED and the job SKIPPED. Any other exception before the request is out
(`SubmitFails`) is taken for a lost answer: row UNKNOWN, decision AMBIGUOUS, job retried.
`entry` remembers, for the property only, in which cycle and after
which exits exposure last grew.

### DestinationSwitch

`user`, `epochs` and `jobs` are rows; `pos` has one position per destination. The
worker is `Claim`/`Plan`/`InsertRow`/`Authorize`/`Post`/`Answer`; `FanRead` and
`FanInsert` are apart because users are read before their jobs are inserted; the
switch holds the user row from `SwitchBegin` to `SwitchCommit` or `SwitchAbort`, with
the provider read in between. A job that ends without an order, whatever the
reason, is SKIPPED here. Orders of a RISEx destination are in `RisexExecution`.

### RateLimiter and SignerCadence

The windows `glob` and `lane` are sets of entries with the score of the replica that
wrote them; `skew` is how far a replica's clock is ahead; `served` is what the
exchange charged, in true time. `TryReserve` is one evaluation of the script that
finds room, `Refused` one that does not: it has trimmed both windows all the same.
`Observe` is `used`, which `snapshot` and `headroom` call for one window at a time, so
the two windows of an entry may be trimmed by different clocks.
In `SignerCadence` time is the remaining life of the slot and mode keys.
An administrative action renews its slot after its reads; a strategy order does not,
so two requests may be closer than a slot by the time its authorization reads took.

### LeverageRecovery

Jobs are named by their causal order. `marks` are the Redis keys the three scripts
work on, `pend` the repair-pending column of the job, `up` whether Redis
answers. `enqueued_at` only delays the next publication of a queued job, by the stale
cutoff; time is not modelled here, so it may be published again at any time. `PublishJob`/`PublishLost` differ in whether the answer of the script came
back; `Consume` is the stream, `Fallback` the database.

### AdminCommands

`job` is named by the request that created it, since a request may join the job of
another. `Prepare`/`Refresh`/`Sign`/`Acknowledge` is `_run_admin_leverage_sync`;
`maint` alternates the two sweeps (`QuarantineStale` first, then `ReleaseStale`);
`LeaseExpires` makes a running worker's claim stale, and it goes on, with the attempt
number of its own claim.

A configuration is a leverage with a margin mode; `Meet` is the lower leverage, and cross
only where both have it. `config.source` holds, oldest first, what master, market (its
limit and whether it is isolated only) and risk profile showed. A job carries the
limits of the diagnostic (`Shown`); `Refresh` meets them with master and market of the
moment (`FreshConfig`), `Sign` with the risk profile of the final query (`Authorized`). A
closed master position and a withdrawn permission end the job SKIPPED, any other
failure before the signature DEAD (`PrepareFails`, `AuthorizeFails`).

### MCPlatform

Each of these eight modules is complete by itself: it has the rows, keys and tasks its
protocol works on, and what other parts of the system do to them is an action of its
own or a choice (EVENT and RECONCILE jobs in `ProfitExit`, `SetPermit` in
`AdminCommands`, the window in `RisexExecution`, open or closed at any time). They are
checked side by side and not composed, so one behaviour follows one of them: `focus` is chosen in `Init` and never changes, and the components are instantiated
on the same slots `v1`..`v13`. The state graph is the disjoint union of the eight
graphs, and a property of a component holds in the union exactly if it holds in
the component.

### Assumptions about code outside the repository

* A `filled` order status means completely filled; a partly filled IOC whose rest
  was cancelled has a terminal cancel status; the answer to the order itself
  carries the real `totalSz`.
* A reduce-only order never passes zero. An order leaves the wire by its
  `expiresAfter` (15 s), far before `UNKNOWN_EXECUTION_SLA_SECONDS` (600 s), so an
  aged order is no longer on its way.
* `userFillsByTime` returns the oldest fills at or after the cursor. The
  websocket's first message repeats recent fills, oldest first, from the end of
  the last history page at the latest.
* The first start looks back five minutes; the model lets the master's history begin
  there.
* RISEx handles a posted order at most once (or never gets it), shows in its history
  every order it has handled, sooner or later; one it does not show may still be on its
  way.
* Redis runs a script atomically; its data survive its outages.
* `HL_REPLAY_MAX_FILLS` is reached after the five pages of the loop, not before.

## 3. Runs

| run | instance | checks | shows |
|---|---|---|---|
| `CopyLedger` | 1 job of any origin, 2 workers, positions -2..2, 2 attempts | `AppliedIsContained`, `LedgerExplained` | however the outcome is learned (answer, retry, resolver, snapshot), an applied fill is in the ledger exactly once; the difference to the exchange is exactly what it has not seen |
| `CopyReversal` | 1 EVENT job, +2 to +1 or -1, partial fills, crashes, a lost lock | `TypeOK`, `AtMostOneSubmission`, `NeverOpensAgainstPosition`, `FillsApproachTarget` | no fault submits an execution twice; the open leg waits for a flat position; every fill goes towards the target |
| `CopyTwoJobs` | 2 jobs of any origins, 2 workers | `ExecutionOutcomeFinal`, `LedgerNeverForgets`, `QuarantineOnlyTerminal` | what the user lock is for |
| `CopyReconcile` | 2 RECONCILE jobs, positions 0..2, a manual trade | `ExposureBounded` | the ambiguity guards are enough when only the reconciler makes jobs |
| `CopyLiveness` | 1 job, 2 workers, `FairSpec` | `JobsTerminate`, `ExecutionsSettle` | nothing stays open for ever |
| `WatcherSafety` | 2 replicas, faults, several pages of distinct milliseconds | `TypeOK`, `CheckpointCoversAll`, `ReplayComplete`, `TokensNeverRegress` | the fence; the checkpoint stays behind the log; a replay that ends is complete |
| `WatcherLiveness` | 2 replicas, faults, `FairSpec` | `FillsPersisted` | every fill is recorded |
| `Platform` | the eight protocols of `MCPlatform` | `PlatformTypeOK`; `NoPostAfterDisarm`, `NewestArmOpens`; `AtMostOnePost`, `OneUnresolved`, `SettlementConverges`; `NoReopen`, `OneLiveExit`, `FailedIsOver`; `NothingLeftBehind`, `PauseStops`; `ServerWithinBudget`, `LaneGuaranteed`; `CadenceKept`; `MarkerExact`; `SignedOnceAndFresh` | their safety under crashes, lost answers, late events and races |
| `PlatformLiveness` | six of them, smaller, `FairSpec` | `ImplementsJournal`, `DisarmTakesEffect`, `LandedSettles`, `DecisionSettles`, `CloseAllEnds`, `RepairAccounted`, `CommandsEnd` | the refinement, and what must finally happen |
| `CopyDoubleCount` | 2 EVENT jobs, 2 attempts | `NoFillCountedTwice` violated | finding 1 |
| `CopyAmbiguity` | 2 jobs | `AmbiguityResolvedFirst` violated | finding 2 |
| `WatcherPageBoundary` | fills in one millisecond | `ReplayComplete` violated | finding 3 |

`CHECK_DEADLOCK FALSE`: the counters of master moves, jobs and orders are
bounds of the instance, and with all jobs ended the system rests.

### Bounds and why they are enough

`MaxJobs` 1 or 2: the races are between two holders of the same row or two jobs of
the same market; a third adds no new pair. Two workers: one that still runs and
one that took over. `MaxAttempts` 2 (1 with two jobs): one retry, and the end of
the retries. Two lots are the smallest position with a partial fill. One lost
lock and one manual trade: every place where they can fall is explored. `MaxOrder`
bounds the causal counter for the reconciler. Two fills per page and two pages are the smallest
paging with a full page, a short one and the ceiling. Workers and replicas are
interchangeable, as are administrators and their workers in `Platform`, hence `SYMMETRY` in
the safety runs; the liveness runs do not use it.

`Platform`: three control rows (an ARM, the DISARM that crosses it, a newer ARM) and
two boots; two RISEx jobs, because attribution and the one-unresolved rule are about
a pair, and one disturbance at any place; two master moves and two decisions (a
cycle left and entered again, a second exit of one cycle), positions -1, 0, 1, 2 so
that a reversal, a change within a cycle and a partial fill exist; three epochs and three requests (away and
back, or a switch that meets a pause and a resume) with two jobs; two replicas with
weights that fill a lane in one call, two lanes of two that with a reserve of one fill the
total of five, a window of four ticks, clocks one tick apart, one tick from reservation to
request, two attempts;
two processes on one signer; three causal orders (intent, repair, newer intent) with
one fault; two administrators and two workers on one asset, two sources that follow each
other in either order (high limits everywhere, tight ones), one crash, failed read, lost
answer or withdrawn permission. `PlatformLiveness` is smaller by one in most
counts, but has two disturbances of RISEx (an activation and a rotation that meet), and a master
that may close its position during one administrator's command; the refinement is checked with one RISEx job there,
`AtMostOnePost` and `SettlementConverges` with two in `Platform`.

Two branches never fire in any instance: the second existence check when a RISEx row
is persisted and the already-claimed answer of the first-POST claim. One process
handles one RISEx job at a time, so the check before them already implies them: they
are defensive.

### Fairness

`CopyExecution`: worker loops and maintenance keep running (WF on `WorkerStep`,
`Publish`, `ReleaseStale`). PostgreSQL queues the waiters of an advisory lock, so a
worker that waits while the lock is released again and again gets it (SF on
`AcquireLock`/`ClaimLost`, and on `ResolveQuery`, which the resolver repeats for
every unresolved row, oldest first). Every exchange read has a timeout (WF on
`ResolveSkip`, `ReconcileCommit`/`ReconcileAbort`), and reads of the resolver may
fail, but not for ever (SF). An order leaves the wire by `expiresAfter` (WF).
Nothing is assumed of crashes, fills, masters or new reconciliation rounds; a
crash is bounded by the attempts a job has.

`MasterWatcher`: each replica's loop runs (WF); time passes, so a lease whose
holder is gone runs out (WF on `Expire` without a fault). Renewal is not fair.

`RisexWindow`: loops run for ever, calls have timeouts, and the submission lock is
first come, first served (SF on `Poll`). `RisexExecution`: consume loop and
resolver run (WF), the provider indexes what it handled (WF). `ProfitExit`: the worker
consumes and stale leases are released (WF). `DestinationSwitch`: worker, stream repair
and exchange (WF); the worker's lock queue is fair against repeated switches (SF); a switch
ends because its reads have a timeout. `LeverageRecovery`: maintenance replays owed
repairs, an outage of Redis ends. `AdminCommands`: workers and maintenance run, a
durable job is offered again until claimed (SF on `Claim`), leases run out. No
request, no master move, no fault is assumed to happen or to stop.

### Limits of what the properties say

* `ServerWithinBudget` holds for the window less the delay from a reservation to its
  request and the clock skew: an entry is trimmed by the clock of whoever reads it,
  one window after it was written, not after it was charged.
* `LaneGuaranteed` does not count entries that are over by the fastest clock. A snapshot of a
  replica whose clock is ahead trims a lane alone; until the global window is trimmed by
  that clock too, the entry is gone from the lane and still counted globally, so a lane
  within its allowance may wait for at most the skew.
* `CadenceKept` grants a strategy order the time of its authorization reads.
* `NoReopen` does not know an exit whose partial fill was reported as a cancel after a
  lost answer: such a decision is FAILED and forgotten (`execution.py:1201`).
* `DecisionSettles` lets a decision stay PENDING when its job died of crashes.
* `NothingLeftBehind` excepts an epoch closed by linking the account again, and
  `PauseStops` one increase that was already decided on when the pause was committed.

## 4. Proofs

Every theorem holds for all values of the constants that satisfy the named
assumptions: the `ASSUME`s of the specifications (distinct actors, types of the
bounds), which TLC evaluates in every run, and the hypotheses named below. The
properties of `Platform` are proved once in the component's own module and lifted
by `MCPlatformProofs`: `focus` never changes, so an invariant of the component is
the invariant `focus = "..." => Inv` of the union, and `...Bounded` derives the
component's hypothesis `Bounds` (the bounds are numbers, at least one job where
`Init` needs one) from the `...Sizes` assumption of `MCPlatform`.

| theorem | property of a run | the inductive invariant |
|---|---|---|
| `CopyExecutionProofs!TypeCorrect` | `TypeOK` | itself |
| `CopyExecutionProofs!SubmittedOnce` | `AtMostOneSubmission` | `SubmissionInv` |
| `CopyExecutionProofs!OutcomeIsFinal` | `ExecutionOutcomeFinal` | `LockedInv`, if `MaxLockLoss = 0` |
| `CopyExecutionProofs!LedgerRemembers` | `LedgerNeverForgets` | `LockedInv`, if `MaxLockLoss = 0` |
| `CopyExecutionProofs!QuarantineIsTerminal` | `QuarantineOnlyTerminal` | `LockedInv`, if `MaxLockLoss = 0` |
| `CopyExecutionProofs!LedgerIsExplained` | `LedgerExplained` | `LockedInv`, `FillInv`, `LedgerInv`, if `MaxLockLoss = 0` and `MaxManual = 0` |
| `CopyExecutionProofs!OpensOnlyWith` | `NeverOpensAgainstPosition` | `FillInv`, `RowInv`, `SingleInv`, if `MaxJobs = 1` and `MaxManual = 0` |
| `CopyExecutionProofs!FillsApproach` | `FillsApproachTarget` | `FillInv`, `RowInv`, `SingleInv`, if `MaxJobs = 1` and `MaxManual = 0` |
| `CopyExecutionProofs!AppliedCountedOnce` | `AppliedIsContained` | all of these and `MarkInv`, `SeenInv`, `OnceInv`, if `MaxJobs = 1`, `MaxLockLoss = 0` and `MaxManual = 0` |
| `CopyExecutionProofs!ExposureStaysBounded` | `ExposureBounded` | `LockedInv`, `FillInv`, `RowInv`, `CopyInv` and `QueueInv`, `WireInv`, `LegInv`, `AloneInv`, `SpaceInv`, if `MaxLockLoss = 0` and `Origins` holds `RECONCILE` at most |
| `MasterWatcherProofs!StaleWriterFenced` | `TokensNeverRegress` | `TokenInv` |
| `MasterWatcherProofs!TypeCorrect` | `TypeOK` | `ReplayInv` |
| `MasterWatcherProofs!NothingBehindCheckpoint` | `CheckpointCoversAll` | `ReplayInv`, if `WholePages` |
| `MasterWatcherProofs!ReplayIsComplete` | `ReplayComplete` | `ReplayInv`, if `WholePages` |
| `MCPlatformProofs!WindowDisarmFinal` | `NoPostAfterDisarm` | `RisexWindowProofs!Inv` |
| `MCPlatformProofs!WindowNewestArmOpens` | `NewestArmOpens` | `RisexWindowProofs!Inv` |
| `MCPlatformProofs!RisexPostedOnce` | `AtMostOnePost` | `RisexExecutionProofs!Inv` |
| `MCPlatformProofs!RisexOneUnresolved` | `OneUnresolved` | `RisexExecutionProofs!Inv` |
| `MCPlatformProofs!RisexSettlementSound` | `SettlementConverges` | `RisexExecutionProofs!Inv` |
| `MCPlatformProofs!RisexImplementsJournal` | `ImplementsJournal` | `RisexExecutionProofs!Inv` |
| `MCPlatformProofs!ExitNotReopened` | `NoReopen` | `ProfitExitProofs!Inv` |
| `MCPlatformProofs!ExitAlone` | `OneLiveExit` | `ProfitExitProofs!Inv` |
| `MCPlatformProofs!ExitFailedOver` | `FailedIsOver` | `ProfitExitProofs!Inv` |
| `MCPlatformProofs!SwitchLeavesNothing` | `NothingLeftBehind` | `DestinationSwitchProofs!Inv` |
| `MCPlatformProofs!SwitchPauseStops` | `PauseStops` | `DestinationSwitchProofs!Inv` |
| `MCPlatformProofs!LimiterWithinBudget` | `ServerWithinBudget` | `LimiterState` |
| `MCPlatformProofs!LimiterLanesKept` | `LaneGuaranteed` | `LimiterState` |
| `MCPlatformProofs!SignerCadenceKept` | `CadenceKept` | `LockHeld`, `Reserved`, `Covered` of `SignerCadence` |
| `MCPlatformProofs!LeverageMarkerExact` | `MarkerExact` | `LeverageRecovery!Inv` |
| `MCPlatformProofs!AdminSignedOnce` | `SignedOnceAndFresh` | `AdminCommandsProofs!Inv` |
| `MCPlatformProofs!PlatformTyped` | `PlatformTypeOK` | all of these |

The component modules also prove type correctness (`TypeCorrect`) of the window, the
RISEx orders, the profit exits, the switch and the administrative jobs, and
`JournalImplemented`, the refinement under the component's own specification. Every
inductive invariant was checked by TLC on the instance of its component's run before it was
proved.

### The arguments

*Execution.* That an order was not sent before is known only from where the workers
are. `SubmissionInv` says: an order that was sent has a durable row; a worker between
insert and submission has a row nobody has sent; no two workers are there with the
same row. The last part rests on the unique key (`InsertExecution` needs `NoRow`) and
*not* on the user lock: `SubmittedOnce` includes lost locks, crashes and expired leases.

*The user lock.* `LockedInv` says what the lock is for: whoever is past it holds it;
the row a worker or the resolver is about to settle is not settled; a job the resolver
read as terminal is terminal; only what the exchange filled is recorded, counted or
seen; and a snapshot about to replace the ledger contains all the ledger contains. Each
part is about values read before an await and used after it. `MaxLockLoss = 0` is the
hypothesis that no database connection drops while it holds the lock: the code keeps the lock on
a connection of its own and does not notice when that one drops, and with one drop TLC
violates each of these three properties (the last one as soon as a job has two
attempts). Crashes, expired leases and released claims are included.

*The ledger.* `FillInv` says, with or without the lock, that a recorded size is nothing
or what the exchange filled. `LedgerInv` says what is true wherever the
code keeps a size across an await: the row misses exactly the fills it has not counted (or has
counted twice), the copy a worker plans and writes from is the row (`CopyInv`),
and a snapshot about to replace the row misses exactly the fills it has not seen. The
sums are folds over finite sets; what a fold does when one summand changes
(`SumChange`) is proved from the least set of naturals closed under successor
(`AllNaturals`), since the library's induction takes an operator. Any
number of jobs and fills; a manual trade would be a difference no execution explains.

*One job.* `SingleInv` says where the position is while one job runs: at `Base` before the close leg,
at `Closed` between the legs, so that the leg a row was inserted with, whatever
ledger it was planned from, fits the position it will fill at. The lock plays no part:
`OpensOnlyWith` and `FillsApproach` include lost locks. The hypothesis is one job, because two jobs
of different origins plan from one ledger (finding 2), and no manual trade.

*Counted once.* `MarkInv` says that each mark the code takes for "the ledger contains
this fill" (`ledger_applied_at`, the last execution of the row, a snapshot newer than the
outcome) is right, and `SeenInv` that a snapshot on its way has seen what the marks
will claim. That the fill is then added at most once (`OnceInv`) rests on the ledger
never returning to the size a leg started from, which is true of one job and false of
two: finding 1 is the counterexample, so `MaxJobs = 1` is the hypothesis.

*Exposure.* `ExposureBounded` says nothing about the jobs that move the position. What bounds it:
jobs are made under the lock and only while none is active, so at most one is current, that is
active or in the hands of the lock's holder (`QueueInv`). A job that may open is made
while nothing is unresolved, and one made beside something unresolved only reduces; so an
opening order is alone among all unresolved ones (`AloneInv`), and an order on the wire always has an
unresolved row (`WireInv`). `SpaceInv` carries the sizes: the opening order, the leg about
to become one, and the plan the current job can still make from the ledger or from a
snapshot under way lead to a size in range from wherever the position is *now*. Fills of orders that only
reduce and manual trades keep that: the former move between the position and zero, the
latter widen the range by one. The position need not be known: partial fills, late fills
and trades by hand between snapshot and order are all included, as are any number of
jobs, workers, retries and crashes. `Origins` is the hypothesis that matters: with EVENT jobs
a second opening order is sent beside an unresolved one (finding 2).

*Watcher.* `TokenInv` bounds every recorded token by the token of the lease row; since a
write needs the lease's own token, it carries at least every token before it. The
expiry plays no part, so `StaleWriterFenced` holds for any clock. The checkpoint is not fenced:
a leader that lost its lease may still move it, so `ReplayInv` speaks of every replica
and not only of the leader. What a replica owes at its place (all fills up to its
place in the page, all fills older than its cursor, all fills its page did not
reach) has been done by somebody, and no step takes events away. `WholePages`
(`SameMs = FALSE \/ MaxFills < PageSize`) is the hypothesis that no page ends inside a
millisecond; `WatcherPageBoundary` (finding 3) shows that it is needed.

*RISEx window.* The heartbeat keeps an operator from asking for a second ARM while a
window is taken, so an open window, or an ARM task past its fence, is that of the newest ARM
(`WindowNewest`, `ArmNewest`); the epoch a job carries identifies the window it has seen
(`EpochIdentifies`), because every end of an authorization increments it; hence a
job that holds the submission lock is never older than an applied DISARM (`DisarmFinal`).

*RISEx execution.* `RowTruth` ties the row's state and `submission_status` to the POST
counter and to the provider's order, for every job; `WorkerKnows` and `ResolverKnows`
say what a task that was interrupted by an await may still rely on; `FreshEnough` says that a
snapshot about to be settled holds the fill it settles and, unless `dirty`, all the
ledger holds. The refinement maps each step to one of the journal's or to a stutter. Its
proof showed that two guards of `Phase` overlapped, so that the `CASE` was
ambiguous; they are disjoint now.

*Profit exit.* The log may be incomplete, so the cycle proved from it may be an older one
than the true one, never a newer one; the cycle of a new decision is at least that of every earlier
decision. Hence the anti-reopen fence, which looks for a decision of the
cycle proved from its own evidence, meets every exit it must meet (`RunInv`, `PlaceInv`), and a second exit
is decided only after all exits of its cycle are over (`EvalInv`, `AloneInv`): a row that is
CANCELED belongs to an order that was never sent or that the exchange is done with. That the newest
start exists (`HasMax`) is the well-foundedness of the numbers up to a bound.

*Destination.* A row is inserted while the user row is locked, and a switch holds the user row
from its blockers to its commit; so between them no order of the epoch it leaves is
unresolved and none can appear (`SwitchInv`), and every order sent or past its last check belongs to the
newest epoch or to one closed by linking again (`OrdersInv`). `DecidedInv` says that
after the one late increase nothing that increases is decided on.

*Limiter.* What the exchange charged is compared with the global window entry by entry:
a served request younger than the window less delay and skew still has its entry,
whatever clock trimmed, and the entry weighs at least as much (`ServedInv`, `CallsInv`,
the latter about calls between reservation and answer); an identifier names one entry in
all windows (`EntriesInv`). So the charges weigh no more than the entries, which are
capped by the last reservation that found room (`CapsInv`). For the lanes the entries of the
global window that are not over by the fastest clock are grouped by their lane; each
group is part of its lane's window, and `validate` adds up the allowances. Sums of
weights are folds over finite sets; a fold that takes one element out, adds one or runs
over groups is `WeightRemove`, `WeightAdd`, `WeightByGroups`, from an induction over the
subsets of a set written with the library's well-founded theorems. `LimiterSizes` is the
assumption: finite lanes and replicas, the validated budget, and a request that leaves
before its entry expires (`Delay + MaxSkew < Window`). The proof found the model wrong: trims
of a refused reservation and of a snapshot were missing, and with them `LaneGuaranteed`
holds only as it is stated now.

*Signer.* The lock has one holder from the account step to the classified answer
(`LockHeld`), the reservation of the caller under way covers what its request will demand
(`Reserved`), and the running slot covers what the last request still demands (`Covered`).
`SignerReads <= SignerSlot` is the assumption that authorization reads end within a slot.

*Leverage.* `MarkInv` says that without a marker the newest open intent is forgotten too,
which makes the three scripts agree whatever order they run in.

*Admin.* The signature is taken by the first attempt only. Attempts of a job are numbered
apart, so at most one worker ever holds number one, however late it wakes up (`WorkInv`),
and nothing is signed before it does (`SignInv`). What it has read lies within a source
that is not older than the claim and within the limits of the job (`FreshInv`); meeting it
with the risk profile at the signature only tightens it (`MeetWithin`, `WithinAgain`), and
later sources do not take it back (`StillFresh`).

### Only model-checked, and why

* Liveness under fairness: beyond the prover.
* `ExposureBounded` with EVENT or CLOSE_ALL jobs: not claimed (finding 2).
* `NeverOpensAgainstPosition`, `FillsApproachTarget` and `AppliedIsContained` for more than
  one job: not claimed, and the last is false (finding 1).
* `NoFillCountedTwice`, `AmbiguityResolvedFirst`: false, see the findings.

## 5. Findings

1. *A fill counted twice* (`execution.py:1335`). A fill that lands while its outcome is
   UNKNOWN is already in the ledger after the next snapshot. The late retry finds
   `resolved_at` newer than `exchange_verified_at`; if another market move has
   brought the ledger back to `ledger_size_before_submit` without changing
   `last_execution_id` (a reconciler snapshot does not), the fill is added again.
   The next snapshot repairs the size.
2. *Ambiguity is not resolved before further action* (`execution.py:1017`, `README.md:53`). Only
   the reconciler looks for unresolved executions; an EVENT job does not. In an
   instance with both origins `ExposureBounded` fails too: a RECONCILE order is on the wire, its
   worker dies, the EVENT job of the same master move plans from the ledger that
   misses it, and both fill.
3. *A page that ends inside a millisecond* (`watcher.py:290`). The cursor goes to the next
   millisecond; the remaining fills of the old one are skipped, although the replay
   ends normally.

### Differences from the design documents met while modelling

The models follow the code in each of these; no run is about them.

* *Expiry outside the lock*: `telemetry()` of the RISEx window expires the window without
  the submission lock that ADR-0004 (line 468) gives every change of authorization. An
  expiry only ends an authorization, so `NoPostAfterDisarm` is not touched.
* *Unlink closes an epoch unseen*: `DELETE /trading-account` (`api/user.py:656-669`) closes
  the active epoch without looking at unresolved executions, and `link_risex` then
  checks only the blockers of the active epoch, while ADR-0004 (line 1001) wants them
  resolved first. This is the exception of `NothingLeftBehind`.
* *Deferral*: ADR-0004 (line 488) describes a job that meets a disabled write as deferred;
  after the first-POST claim it stays PROCESSING with its row POST_IN_FLIGHT until lease
  and resolver take it over.
* *Close-positions on RISEx* (`docs/API.md:34`): the CLOSE_ALL job carries no provider
  evidence, so the binding refuses it and it ends SKIPPED.
* *Job transitions*: a worker whose claim was released writes its end from its own copy of
  the row (`execution.py:1373`); the guard of `engine/states.py:71-74` compares with that copy.
* *Activation* (`api/activation.py`, around line 394) reads the RISEx position before it takes
  the ledger lock; `ActivateCommit` therefore writes that observation, however old, unless
  the epoch was rotated.
* *Admin jobs*: the search for a running job takes no lock, so two requests may create
  two jobs; each is signed at most once, and `SignedOnceAndFresh` is about one job. What
  is signed may be exactly what the administrator was shown, even if the master has
  since widened its configuration: the limits of the diagnostic bound the fresh values. A
  worker that stalls before its signature may sign after the quarantine has declared the
  job DEAD.
* *Duplicate delivery*: a second delivery with a stale binding marks a PROCESSING job SKIPPED
  while its first delivery is still running.
* *Same state seen again*: the evaluator compares the decision's facts again at the commit
  (`ai_profit_exit.py`, around 330-345) by value; a position that left and came back is taken
  for the same one.

## 6. Not modelled

* Authentication, sessions and encryption at rest, billing, analytics, public API,
  frontend, landing pages: no state shared with the order path except flags that are
  nondeterministic here. AI intelligence: a language model's text; its factor is a risk
  choice.
* Decimal sizing, minimum notionals, risk caps and exposure ceilings: choices in
  `Decline`, `Trimmed` and `PlanFails`. Prices, encodings and bitmaps of the RISEx signer:
  pure functions that pass or refuse.
* Several markets of one follower and their shared exposure reservation; leverage-only
  jobs; unversioned intents; a user that was never activated; the periodic RISEx
  reconciliation.
* The profit-exit economics collector (a reason to abstain), the observability refresh
  and metrics.

## 7. Plan

Done: the order path (`CopyExecution`), the watcher, and the protocols around them;
theorems for 31 of the 40 properties, among them the refinement; the other nine are liveness. Left:

1. A pure module of `engine/sizing.py` and `engine/risk.py` over bounded integers against a
   reference definition.

To run: `tlc -config CopyLedger.cfg MCCopyExecution` (the cfg of each run is
`<run>.cfg`; `Copy*` belong to `MCCopyExecution`, `Watcher*` to `MCMasterWatcher`,
`Platform*` to `MCPlatform`), `tlapm CopyExecutionProofs.tla` and likewise the other
`*Proofs` modules.
