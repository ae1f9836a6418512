# Verification of the CompanyOS runtime

TLA+ models of `src/companyos_runtime`, model-checked with TLC on small
instances, and whose safety properties are proved with TLAPS for all.
CompanyOS is a governed execution kernel: goals are compiled into runs and
tasks, workers claim tasks under fenced leases, external effects go through an
outbox under capability grants, and a run is delivered only on persisted
evidence. All state is in one SQLite database;
every command is one `BEGIN IMMEDIATE` transaction (`store.py`, `transaction`),
so a command is one atomic action of a model and a command that raises rolls
back and is a disabled action. The exceptions are split in the models at the
point where the code lets go: `DurableWorkflow.dispatch` is several
transactions; `record_eval`, `MemoryRegistry.promote` and the `record` of an
observation read the clock before their transaction; and `append_event` reads
it again after a session, or the approval of a promotion, has been checked.

## Inventory

| component | state it keeps | operations | correct when |
|---|---|---|---|
| lifecycle tables (`state_machine.py`) | none | `apply_loop_event`, `require_transition` | everything that moves a run or a task takes an edge of the tables |
| leases (`leases.py`) | `leases`: holder, task, fence, expiry | `acquire`, `renew`, `release` | a row never changes hands or revives under an old fence |
| scheduler (`scheduler.py`) | `tasks`, `attempts`, `negative_results` | `claim_next`, `start`, `complete`, `fail`, `promote_due_retries`, `reap_expired` | one open attempt per claimed task; bounded retries; late workers change nothing; dead workers' tasks come back |
| kernel (`kernel.py`) | goals, runs, tasks | `create_*`, `add_task`, `advance_loop`, `accept_task_evidence`, `confirm_task_delivery`, `control_task` | a run is delivered only with all its facts; delivered runs are sealed |
| guard resolver (`gates.py`) | none, reads facts | `resolve` | a guard is true only on live, independent facts |
| workflow (`workflow.py`) | `outbox`, `workflow_steps`, `effect_receipts` | `enqueue`, `dispatch`, `recover_pending` | one external effect per step; one unchanging receipt; nothing stays pending |
| provider (`fake_provider.py`, `adapters.py`) | its own ledger | `execute`, `lookup` | idempotent by project and key |
| policy (`policy.py`) | `approvals`, `capability_grants`, `capability_usage` | `record_approval`, `issue_grant`, `revoke_grant`, `consume` | uses within limits, counted once, re-checked at each use |
| identity (`identity.py`) | principals, roles, sessions | bootstrap, authenticate, roles, disable, enable, rotate, revoke | a session that died stays dead; an enabled owner is left |
| event store (`store.py`, `schema.py`) | `events`, `idempotency_records` | `append_event`, idempotent results, chain check | the history can be replayed and verified for ever; a command is applied once |
| evidence (`evidence.py`) | artifacts, claims | `register_artifact`, `record_claim` | nobody verifies what they made |
| observations (`observations.py`) | `runtime_observations` | `record` | delivery rests on what the newest observation says |
| integration (`integration.py`) | `integration_items` | `create`, `advance`, `require_task_satisfied` | the items of delivered work stay final |
| replay (`replay.py`) | the projections | `replay`, `repair` | rebuilt equals live, and forgets nothing |
| evaluation (`evaluation.py`) | eval runs, proposals, custody, promotion records | `record_eval`, `propose`, `attach_eval`, `record_sealed_custody_attestation`, `promote`, read-back | four principals, three datasets, a record that can be rebuilt |
| memory (`memory.py`) | `memory_items` | `create_candidate`, `promote` | active only after a second evaluation on other data |
| backup (`backup.py`) | files | online backup, restore | a restored file is a verified one |
| context (`context.py`) | context items and assemblies | register, import, assemble | selection within the budget |
| authority, compilers, domain packs, scope, validation | adopted documents | compile, narrow, validate | a task never exceeds its goal |
| operator, CLI, demo, installers | none | read, print, copy | not a matter of state |

How they interact: the scheduler, the kernel and the lease manager share the
`tasks`, `attempts`, `leases` and `negative_results` tables; the workflow calls
the policy engine for authority and the provider for the effect; the policy
engine reads tasks, runs, leases and principals; the guard resolver reads
everything on behalf of `advance_loop`. Nothing is called back: all
concurrency is between processes that share the database, and in the gaps
between transactions. What is hard is listed, line by line, as `hazards` in
`PROJECT.json`: late workers after a lease is taken over, the three
comparisons with `max_attempts`, crashes between the transactions of
`dispatch`, duplicate recovery processes, authority that goes away between its
consumption and the provider call, grants at their last use and budgets across
re-issued grants, observations that arrive late or contradict each other,
sessions and approvals that end while a command runs, projection rows that are behind their
history, and evaluations that race the promotion they are meant to follow.

## Modules

| module | models | state and actions |
|---|---|---|
| `Lifecycle` | `state_machine.py` | constant tables, no state |
| `Scheduler` | `scheduler.py`, `leases.py`, `control_task` and the task moves of `kernel.py`, the operational cross-check of `replay.py` | variables are the tables; one action per method, plus the clock (`Tick`) and worker death (`Crash`, `Restart`) |
| `SchedulerProofs` | - | theorems about `Scheduler` |
| `EffectContract` | - | what the workflow promises, per declared step |
| `Outbox` | `workflow.py`, `fake_provider.py`, the uses of a grant in `policy.py` | tables of both databases, and for each process the transaction of `dispatch` it takes next |
| `OutboxProofs` | - | theorems about `Outbox`, and that it implements `EffectContract` |
| `Evidence` | the rules of `evidence.py` | who may produce and verify what; no state |
| `Delivery` | `kernel.py` (`add_task`, `advance_loop`, `accept_task_evidence`, `confirm_task_delivery`), `gates.py`, `evidence.py`, `integration.py`, `observations.py` | the run, its tasks, claims, artifacts, items, observations and gates |
| `DeliveryProofs` | - | theorems about `Delivery` |
| `Identity` | `identity.py` | principals and sessions |
| `Grants` | `policy.py` on top of `Identity` | approvals, grants, usage |
| `GrantsProofs` | - | theorems about `Grants` and `Identity` |
| `Ledger` | `store.py`, `replay.py`, the creating commands of `kernel.py` | events, idempotency records, projection rows, sessions and the clock |
| `LedgerProofs` | - | theorems about `Ledger` |
| `Promotion` | `evaluation.py`, `memory.py`, and the approvals they need | evaluations, proposals, custody, records, memories |
| `PromotionProofs` | - | theorems about `Promotion` |
| `MCScheduler`, `MCOutbox`, `MCDelivery`, `MCGrants`, `MCLedger`, `MCPromotion` | - | constants of the runs |

`Delivery` composes `Lifecycle` and `Evidence`, `Grants` composes `Identity`
and `Lifecycle`, `Scheduler` and `Ledger` use `Lifecycle`, and `Outbox` is
shown to implement `EffectContract`. Loop and task states are named by the
members of the enums in `types.py`, in lower case; the wire values differ in
places.

**Scheduler.** Time is what remains of it: `left` of a lease and `due` of a
task count down in `Tick`. The code asks of a lease row only whether it is
unreleased and unexpired, so both ends are `left = 0`. The key `task://t` is
`t`. An attempt row carries the fence of the `TaskClaim` that was handed out
with it, because the worker keeps that object and presents it later. Two
queries order by time stamps that the model does not keep: which rows a
limited sweep takes, and which of several tasks with an elapsed backoff
`claim_next` takes first, is left open. `VerifyOperational` has the checks of
replay that compare what different operations write; those of columns that one
transaction writes together (`last_error_fingerprint`, the `failure_id` of an
attempt that did not fail, the owner of a negative result, `due_at` after
`ended_at`) are left out. `claim_next` returning `None` because
the first eligible task's lease is live is kept. Evidence, evaluator,
integration and approval facts, and the circuit breaker of `task_started`, are
inputs. An acquire by the holder of a live lease, and every idempotent replay,
change nothing and are stuttering.

**Outbox.** The processes in `Callers` call `dispatch`, those in `Recoverers`
call `recover_pending`; each holds only its `pc`, its effect and the rest of
its scan, and loses them in `Crash`. `bind`, `consume`, `lookup`, `mark`,
`execute`, `checkpoint` and `deny` are the separate transactions of the code.
An `IntegrityError` ends a whole scan (`Raise`); an `AuthorizationError` ends a
caller's dispatch and turns a recovery's into a denial. A receipt `denied` is
the row with status `failed` and a NULL provider receipt. The provider decides
the status of an effect when it performs it. The supervision of the task is
the scheduler's, reduced to the task's state and the holder of its live lease.
Grants that are revoked, expired or at a lost fence are `void`: for the fence
this is sound because a fence never becomes current again, which is the
theorem `TakeoverCorrect`. Decision gates, cost limits and scope checks of a
grant are not in this module.

**Delivery.** One goal, one run, every fact its guards read. The work of the
scheduler, the owner and the outbox on a task is reduced to moves of its state
(`Move`) and of its step (`EnqueueStep`, `SettleStep`), bounded by `WorkMoves`.
Times are relative to the clock: an observation has an `age` (negative when it
is future-dated) and what is `left` of it. What a probe reports, with target,
status and digest, is one signature. `record` checks an observation and stamps
`recorded_at` before its transaction: `waited` is how much older the row is
when it gets there, and `rank` its place among the rows that were stamped
before and after it. A step that fails is retained in `negative_results`
(`SettleStep`), which the guard `repair_route_selected` reads. The guards
`lease_valid`, `capability_available` and `improvement_routed` are inputs that
are taken to hold: the loop moves here at least as freely as in the code. The
first is a fact of `Scheduler`, the last one of `Promotion`. The loop's `approval_valid` guard is the
live approval of a task; a decision gate is the approval its authority binds
it to. `GuardResolver` resolves in the transaction of `advance_loop`, so the
guards are conjuncts of the action. The circuit breaker counts `task_started`
events since the last evidence.

**Identity and Grants.** A credential is its version number. A session row
that has expired can never verify, so its id is used again. Approvals and
grants count down what is left of them. A request stands for an exact
(capability, action, resource, digest) within the task's scope; `Contracts`
are those that are a decision gate of their task. A use through the outbox is
the key `"effect"`, which is checked against the principal's live roles and
not against a session. Only the provider-cost capability has budgets. The sums
the code takes over rows (`SUM(max_cost)`, `SUM(max_uses)`, `SUM(cost)`) are
cardinalities of sets of numbered units, one per unit of a row (`CostUnits`,
`CallUnits`, `SpentUnits`): the same numbers, about which the provers know that
adding a row adds its units.

**Ledger.** A command looks its key up, appends at the version its row
carries, and writes row and key, in one action; `late` is the time that passes
between the check of the session and the stamp of the event. The chain of
hashes is the order of the events, which the store never rewrites. The fault
model is the one `repair` is written for: a row that is stale (`StaleRow`),
lost (`LoseRow`) or planted without events (`PlantRow`). `Repair` replays and
verifies the history, refuses what `_require_safe_missing_task_rebuild`
refuses, and rebuilds. The history of an aggregate is the set of positions of
its events in the table, and `Replay` a recursive function that gives the rows
after each event, so that a stale row is the row after an earlier event of its
own. A planted row is a task's first state at version 1. A
planted run row, or a row in a wrong state at the version of its head, is left
out: a command that decides on one appends an event that replay then refuses,
which the version check cannot detect.

**Promotion.** `record_eval` is two actions, `BeginEval` (it stamps
`created_at`) and `RecordEval` (its transaction). The order of events, by which
the code compares time stamps and sequence numbers, is kept as what the later
one found: `after` of an evaluation, `seen` and `dated` of an approval,
`before` of a promotion record. The score of an evaluation is one clean bit.
The source of a proposal is one run and task that is delivered, reopened for
improvement, delivered again, or retired, as `Delivery` has it.
`LimitedVerifies` and `ActiveAssembles` are the read-back, which the code runs
inside the next promotion as well. The promotion of a rule compares the
approval's expiry with the clock and has its event stamped by a later reading:
`late` says that the approval expired in between, and `timely` of the record
that it did not, which the read-back asks for (`evaluation.py:2042-2064`). The
promotion of a memory reads the clock before its transaction: `BeginPromotion`
keeps which approvals had lapsed by then, and `PromoteMemory` or
`RefusePromotion` ends the call.

## Runs

| run | question | bounds |
|---|---|---|
| `scheduler` | do the tables stay consistent, superseded claims superseded, and replayable? | 2 tasks with 1 and 2 attempts, 2 workers and the system as lease holders, leases of one tick, backoff of one tick, acquired fences up to 2, suspend, resume and block |
| `scheduler_live` | does a dead worker's task come back? | 1 task with 2 attempts, 2 workers that may die, leases up to 2 ticks, backoff 1 then 2, all controls, five loop states, a second lease key |
| `scheduler_resume` | does resume need the exact claim? (it does not) | 1 task, 2 workers |
| `outbox` | are effects performed once, rows in agreement, uses and failures counted once, and does the protocol implement `EffectContract`? | 3 effects, 2 of them for one step, 1 caller, 1 recovery process, 1 crash, a suspended task, a voidable grant, max_uses 1, one direct use |
| `outbox_live` | is every enqueued effect settled? | 2 effects, 1 caller, 1 recovery process, 1 crash, the task failing and being retried, the run moving on to evidence, a principal switched off and on |
| `outbox_denial` | is a denial always of an effect that did not happen? (no) | 1 effect, 1 recovery process, 1 crash |
| `outbox_stale` | is the task executable whenever the provider acts? (no) | 1 effect, 1 caller, 1 recovery process |
| `delivery` | does what was delivered stay proved, independently checked and sealed? | 2 tasks, one with evaluator, step and integration items, 2 items, 2 principals of whom one is maker and evaluator, one claim per task, the loop up to improvement and back |
| `delivery_fresh` | is nothing delivered on a surface that is not healthy now? | 1 task with a merge gate, 1 surface, 2 observations up to one tick in the future, waiting for their transaction as long as they last, TTL 2, an observer whose trust changes, the repair loop |
| `grants` | does authority stay within approval, budget and session? | 2 principals, 2 sessions, 2 approvals, 2 grants of one call each, a bound and an unbound task, budgets of one |
| `ledger` | is the history replayable, verifiable and applied once, whatever happens to the rows? | 1 task, 6 events, 2 sessions of which one expires, 2 keys, 1 fault |
| `promotion` | is what is promoted checked by others, on data kept apart, once, and can its record be rebuilt? | 1 proposal or memory, 4 evaluations on 3 datasets, 2 approvals that lapse at any time, 4 principals with overlapping roles, 2 deliveries of the source |

Why the bounds are enough. The scheduler's rows are independent by task except
in `claim_next` and the limited sweeps, for which two tasks and a limit of one
give both orders; two attempts are the fewest with a superseded claim, a last
attempt and a retry; one tick lets a lease expire between any two calls. In the outbox,
two processes are what every race in the code needs; one crash is enough to
leave every intermediate state behind, and later recovery starts from it. In
`delivery`, the second task is there for the guards that quantify over tasks,
and the second item for a later item that would undo an earlier one; two
observations are the fewest that can be late, contradict or shadow each other.
In `grants`, two owners are the fewest that can remove each other, and two
grants of one call against a budget of one the fewest that compete. In
`ledger`, six events take a task through a claim, a failed attempt and a
retry, or a fault, its repair and a command after it. In `promotion`, the four
evaluations are the three a rule needs and one that competes with them. The
safety properties of all passing runs are also proved, without any of these
bounds; for them the runs show that the invariants are not vacuous, and
the mutants that they depend on the code.
Deadlock is not checked: a finished project stops.

Fairness. `scheduler.py` says it provides "supervision primitives, not an
always-on daemon", to be driven by an external supervisor: `FairSpec` of the
scheduler assumes only that time passes and that the two sweeps keep being
called, and nothing of workers and owners. `FairSpec` of the outbox assumes
that a process inside `dispatch` goes on unless it dies, and that recovery is
run while anything is pending (`docs/operations-runbook.md`, "Restart
Recovery"); deaths are finitely many. The other modules state no fairness:
every one of their commands waits for a person or a worker to call it.

What the runs show:

- `ReplayVerifies`, `AttemptLedger`, `ClaimsFenced`, `RetryBudget`,
  `SettledBySuccess`, `AttemptOutcomeFinal`, `TakeoverFenced`: no order of
  claims, failures, sweeps and controls leaves the scheduler's tables in a
  state that its own replay would refuse, or lets a late worker settle a task.
- `DeliveredTaskStands`, `SealedRun`, `MakerIsNotChecker`: the facts a task was
  delivered on are checked once and can be touched by four other components;
  none of them undoes them.
- `FreshDelivery`: stated over all rows of a surface and independent of the
  order in which the resolver reads them. The newest row hides older ones,
  so a future-dated row, healthy or not, suspends delivery until its time
  comes; it never allows one.
- `OwnerRemains`, `DeadSessionsStayDead`, `GrantsWithinApproval`,
  `GoalReservation`, `TaskNeverOverspends`: the goal's budget bounds what the
  live grants reserve, and only a task with a compiled authority is bounded in
  what it has ever spent.
- `LedgerReplays`, `AttemptsNotForgotten`, `HistoryVerifies`,
  `AnswersApplied`: a stale or planted row costs commands, which are refused,
  and never the history. `HistoryVerifies` speaks of events stamped while
  their session stood: an event whose session expires between its check and
  its stamp is accepted and does not verify (hazard at `store.py:608`).
- `FourEyes`, `ActiveOnFreshData`: no order of evaluations, promotions and
  approvals lets a maker pass their own work, or a rule or memory become active
  on data it had been confirmed on before.
- `RecordsReadBack`: stated for sources that stand, because a source that is
  delivered twice or retired no longer verifies and takes the records with it
  (hazard at `evaluation.py:1383`), and for events stamped before their
  approval expired: if it expires between its check and the stamp, the rule is
  promoted and its record never reads back (hazard at `evaluation.py:2848`). A
  limited rule in that position stays limited: the property also says that the
  limited record behind an active rule reads back, without exception.
- `LimitedOnce`: a failing evaluation rejects a rule in any state, and a clean
  held-in evaluation takes a candidate out of rejected again, but never one
  that has been limited.

The three runs that end in a violation are disagreements between the code and
its documentation; `PROJECT.json` quotes the lines. In short: `resume` of a
suspended task looks for any live lease on the task's key rather than the
claim the task was suspended under; recovery re-validates authority before it
asks the provider, so an effect that happened before a crash may be recorded
as denied; and authority is not held between its consumption and the provider
call.

Every property of a passing run has a mutant: a plausible bug, written next to
the definition it replaces (`GrantSameFence`, `MarkedAlways`, `AddTaskLate`,
`AppendsBlindly`, `FreshEvalId`, ...), under which the property fails.

## Proofs

Each theorem holds for every value of the constants that satisfies the named
assumption of its module (`SchedulerAssumption`, `OutboxAssumption`,
`IdentityAssumption` and `GrantsAssumption`, `DeliveryAssumption`,
`LedgerAssumption`, `PromotionAssumption`): any number of tasks, workers, processes, principals,
grants, events, faults, evaluations and so on. The assumptions say that constants have their
types, that bounds are naturals, and that markers such as `"none"` are not the
name of a row. Two say more. `WorkMoves` in `Delivery`, which stands for the
moves other components make on a task, never ends in `delivered`: only
`confirm_task_delivery` does (`kernel.py:1227`). The voidable grants and the
principals that may be switched off in `Outbox` are grants and principals of
the model.

Every proof has the same form: an inductive invariant `Inv`, a conjunction of
named parts; one lemma per action, or per kind of action, that it keeps `Inv`;
`InvHolds`, that `Spec` implies `[]Inv`; and each theorem from it.

**Scheduler** (`SchedulerProofs`).

| theorem | says | rests on |
|---|---|---|
| `TypeCorrect` | `[]TypeOK`, with `attempt_count <= max_attempts` | itself inductive |
| `LedgerCorrect` | `[]AttemptLedger` | `TypeOK`; inductive with it |
| `SettledCorrect` | `[]SettledBySuccess` | the ledger: a task that completes has exactly its newest attempt open |
| `BudgetCorrect` | `[]RetryBudget` | `TypeOK` |
| `TakeoverCorrect` | `TakeoverFenced` | `TypeOK` |
| `FencedCorrect` | `[]ClaimsFenced` | `TakeoverFenced` step by step: an old claim's fence can only be left behind |
| `ExclusiveFence` | at most one claim of a task matches its lease row's fence | `ClaimsFenced` |
| `OutcomeCorrect` | `AttemptOutcomeFinal` | the ledger: an ended attempt is not open, and only open ones are written |
| `ReplayCorrect` | `[]ReplayVerifies`, the checks that are in `VerifyOperational` | the ledger, the retry budget and `Recoverable` |

The ledger is what makes the others go through: `complete` and `fail` write an
attempt by the number in the claim, and only the ledger says that an open
attempt is the newest one. `Recoverable` says what `ReplayVerifies` presupposes
of a task: once claimed it has an attempt, every failed attempt is retained,
a task that waits or has failed has a newest attempt that failed, and a backoff
runs only behind a failure. The effect lemmas (`ClaimEffect`, `SettleEffect`,
`ReapEffect`, `ControlEffect`, `QuietEffect`) say once what each kind of step
does to the tables, and `NextCases` splits a step into those kinds. That the
backoff 2^n is a natural number, which takes induction, is had from counting:
2^n is the number of subsets of a set of n elements (`PowerType`).

**Outbox** (`OutboxProofs`).

| theorem | says | rests on |
|---|---|---|
| `TypeCorrect` | `[]TypeOK` | `AllInFlight` |
| `RowsCorrect` | `[]RowsAgree` | `AllInFlight`, `Bindings` |
| `EffectOnceCorrect` | `[]EffectOnce` | `Bindings`, `ProviderRows` |
| `UsesCorrect` | `[]UsesCounted` | `Finite` |
| `FailuresCorrect` | `[]FailuresRetained` | `RowsAgree` |
| `OutboxImplementsContract` | `ImplementsContract`: every step of the protocol is a step of `EffectContract` or changes nothing in it | all of them |

The tables alone are not inductive, since a process acts on what an earlier
transaction of its own has read. `AllInFlight` says, for each `pc`, what a
process may still rely on when it gets there: the effect it holds was enqueued
and, from `lookup` on, has a recorded use; what it has from the provider is in
the provider's ledger. It survives every step of every other process because
uses, receipts and provider rows are never removed. `Bindings` (a bound step
names an enqueued effect of its own) and `ProviderRows` (at most one row per
effect, and only for an effect whose use is recorded) together give one effect
per step. The refinement mapping is the one the `outbox` run checks: what a
step has requested, had authorized, performed and as its outcome is read off
the step, the use of its grant, the provider's ledger and the receipt. The
proof goes action by action.

**Identity and Grants** (`GrantsProofs`).

| theorem | says | rests on |
|---|---|---|
| `TypeCorrect` | `[]TypeOK`, with each grant's `used_count` equal to the number of its usage rows, and uses and cost within its limits | `Counters` |
| `OwnerCorrect` | `[]OwnerRemains` | itself, and types |
| `SessionsCorrect` | `DeadSessionsStayDead` | `UnrevokedIsCurrent`: an unrevoked session carries its principal's current version, so a rotation cannot make an old one current |
| `WithinApprovalCorrect` | `[]GrantsWithinApproval` | `ApprovalBehind`: the same of every grant, live or not, with the requester of the approval as its principal |
| `GoalCorrect` | `[]GoalReservation` | itself, and that the sets of units are finite |
| `TaskCorrect` | `[]TaskNeverOverspends` | itself, `Counters`, and that the sets of units are finite |

The arithmetic is in three lemmas about sets of units: the units of a row
(`UnitsOfRow`), of a table with a row added (`UnitsAdd`), and of one with rows
removed (`UnitsShrink`).

**Delivery** (`DeliveryProofs`).

| theorem | says | rests on |
|---|---|---|
| `TypeCorrect` | `[]TypeOK` | `DeliveryType` |
| `DeliveryCorrect` | `[]DeliveredTaskStands` | `Standing`, `ClosedOnClaim` |
| `CheckerCorrect` | `[]MakerIsNotChecker` | `ClaimsChecked`: every recorded verdict was given by somebody who made none of its artifacts |
| `SealCorrect` | `[]SealedRun` | itself, `WorkMoves` |
| `FreshCorrect` | `FreshDelivery`, an action property | the resolver reads the newest row; the property speaks of all rows |

`DeliveredTaskStands` looks at the facts behind a delivered task, and can be
disturbed by every component that writes them. `Standing` says it in the words
of the guards of `confirm_task_delivery`; it is inductive together with
`ItemsRefer` (items name recorded claims only) and `ClosedOnClaim` (whatever
item of a task is final had a claim that passes the task). For `FreshCorrect`, that a non-empty set of rows has a
newest one is `SmallestExists`, from the well-foundedness of the naturals.

**Promotion** (`PromotionProofs`).

| theorem | says | rests on |
|---|---|---|
| `TypeCorrect` | `[]TypeOK`, with the columns of a proposal as its state says | `Columns` |
| `FourEyesCorrect` | `[]FourEyes` | `Gates`, `LimitedInv`, `ActiveInv` |
| `FreshDataCorrect` | `[]ActiveOnFreshData` | `EvalsInv`, `ActiveInv`, `MemoryInv` |
| `ReadBackCorrect` | `[]RecordsReadBack` | all of them |
| `LimitedOnceCorrect` | `LimitedOnce`, an action property | `Columns`, `Gates` |

Two facts carry these proofs. A proposal that has been limited keeps its
held-in evaluation, and with it never leaves limited but for active or
rejected, nor rejected for anything: so there is one limited record for each,
and what it counted stays what it was (`Columns`, `Gates`, `LimitedOnce`). And an evaluation that has seen a rule as
limited is none of those recorded before the limited promotion (`EvalsInv`),
which makes the sealed evaluation a later one whatever its time stamp says.

**Ledger** (`LedgerProofs`).

| theorem | says | rests on |
|---|---|---|
| `TypeCorrect` | `[]TypeOK`, with versions without gaps and time stamps in order | `LedgerType`, `Versions`, `Stamps` |
| `LedgerReplaysAlways` | `[]LedgerReplays` | `Replays`, `RowsStand` |
| `AttemptsRemembered` | `[]AttemptsNotForgotten` | `AttemptsCount`, `RowsStand`: a row that is behind cannot be written by a command, only by a repair |
| `HistoryKeepsVerifying` | `[]HistoryVerifies` | `Stamps`: no event is stamped after its session was revoked |
| `AnswersAreApplied` | `[]AnswersApplied` | itself, and that the keys are finitely many |

A command decides on a row and appends to a history, and the proof is about
what connects the two. `RowsStand` says that a row is the row the history
stands for, or was planted on an empty history, or is behind: never ahead. A
command that gets past the version check of `append_event` has therefore
decided on the replayed row (`UpToDate`), and its event is one that replay
follows (`GrownReplay`). `Replays` says of every prefix of the history that it
replays, to the version of its last event; the faults need the prefixes.
`AttemptsCount` is what `repair` relies on without reading it: the rows of
attempts count the claims as long as the task's row is there, and a task
without claims has none. The commands with a key are one lemma (`OneEvent`),
as are the faults (`DamageKeeps`). What a recursive function computes takes
induction over the history, which is had from a least counterexample
(`LeastExists`, from the well-foundedness of the naturals): that a replay
exists (`ReplayExists`) and that appending leaves what was replayed as it was
(`ReplayExtends`).

Only model-checked: the liveness properties `CrashedWorkReturns` and
`PendingSettles`, because fairness and `ENABLED` are beyond the prover.

## Plan

The modules are complete as far as the system is modelled, and every safety
property, action property and refinement the passing runs check is proved.
What is left is to carry results across modules: that the task moves
`Scheduler` makes are the scheduler paths `Ledger` appends, and those
`Delivery` allows as `WorkMoves`.

## Not modelled

String and path handling (`scope.py`), JSON contract validation, hashing (a
digest stands for what it is a digest of), the opaque capability tokens that
tie a service object to the store, the schema and its migrations, the
operator's read-only views, the CLI, the demo, installers, templates and
documents. Context assembly is a pure selection over texts, whose rows no
other part reads. Authority compilation happens before there is a run; its
products (targets, gates, budgets, workflow steps) are the constants of
`Delivery`, `Grants` and `Outbox`. Backup and restore are sequences of file
operations by one process into targets it creates itself; what they require
of the database is the chain verification in `Ledger`. Of the modelled
components, `PROJECT.json` names what is left out of each.
