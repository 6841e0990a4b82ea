# Specification and proofs of the daily paper-trading system

TLA+ modules, TLC configurations and TLAPS proofs about `src/quant_agent`: a
daily quantitative research and paper-trading assistant.  One command a day
takes a data snapshot through research, planning, risk assessment, human
approval and execution on a paper account, and publishes the completed run.
Beside that chain stand the data directories it and its successors read, and the
second generation of the risk checks, a service over shared state files.

Paths below are relative to `src/quant_agent/`.

## 1. Inventory

| Component | State | Operations | Hard behaviour |
|---|---|---|---|
| Portfolio ledger, `execution/ledger.py` | SQLite tables `accounts`, `position_lots`, `orders`, `trades`, `fees`, `nav`, `execution_sessions` | `ensure_account`, `seed_lot`, `begin_execution_session`, `execute_order`, `record_nav`, `complete_execution_session` | several processes on one file; reads outside the writing transaction; repeats after a death |
| Paper executor, `execution/paper.py` | locals of one call | `execute` | a death between any two ledger calls; kill switch read before, acted on after |
| Order planner, `execution/planning.py` | none (reads ledger and snapshot) | `build`, `make_planned_order`, `replace_plan_orders` | a plan that is stale when executed; rounding to lots; sells fund buys |
| Plan risk engine, `risk/plan_engine.py` | none | `evaluate` | adjusting single orders after the rules passed |
| Run manifest store, `common/run_store.py` | `runs/<run>/manifest.json` | `create`, `start_stage`, `complete_stage`, `fail_stage`, `mark_awaiting_approval`, `terminate_run`, `complete_run`, `verify_artifacts` | order of stages, retries, a stage left RUNNING |
| Daily workflow, `workflow/daily.py` | artifacts of a run | `start`, `resume`, `grant_approval`, `execute`, the loop `_continue` | deaths between two durable writes, commands in any order |
| Approval registry, `risk/approval.py` | `approvals/<run>/*.json`, `latest.json` | `grant`, `latest`, `validate` | expiry against execution and retry; renewal |
| Latest-run index, `common/run_index.py` | `latest.json` | `publish_completed`, `read` | publishing out of calendar order, twice, or not at all |
| Kill switch file, `risk/rules/kill_switch.py` | the file `KILL_SWITCH` | `check_kill_switch` | read at four places, changed at any time |
| Data snapshot store, `data/snapshots.py` with `data/quality.py` | a directory per version, its manifest, a pointer per date | `synchronize`, `load_dataset` | rivals on one version; death between directory, datasets, manifest and pointer; rules that raise |
| Snapshot builder, `data/snapshot.py` | point-in-time snapshots, published by rename | `build_daily_bars`, `_verify_existing` | what was known when; two builders of one snapshot |
| Snapshot research, `research/snapshot_runner.py` | backtests, published by rename | `run` | look-ahead; bars read after they were verified; accounts that do not add up |
| Shadow runner, `execution/shadow.py` | captures of a broker's account, published by rename | `run` | comparison with what is there |
| Locked stores, `risk/kill_switch_store.py`, `risk/approval_store.py` | a JSON state and a lock file each | `set`, `issue`, `revoke`, `read` | lost updates; a lock left behind; stamps out of order |
| Risk v2 engine, `risk/v2_engine.py` | none | `evaluate` | limits that interact, rounding; refusals; decisions that must be reproducible |
| Risk v2 service, `risk/v2_service.py` | directories of decisions, published by rename | `evaluate_files` | two states read apart without a lock; reuse of a published decision |
| Other research runners, reports, providers, adapters, converters, CLI, evals | artifacts and data frames | — | numeric work and I/O |

How they interact.  `DailyWorkflow` calls the manifest store around every
stage; the PLAN stage reads the ledger through the planner; the RISK stage reads
the plan artifact and the ledger's last NAV; APPROVAL is a separate command that
writes to the approval registry; the EXECUTION stage drives the ledger through
the paper executor; the last turn of the loop completes the manifest and then
publishes the index.  The manifest, the registry, the index and the ledger are
separate durable stores: nothing makes a write to two of them atomic, so what
holds between them must survive a death between any two writes.

The data directories and the decisions of the risk service are shared by processes
that take no lock at all: what protects them is that a name says what the directory
is to hold (a hash of its content and of what it was made from), `mkdir` or `rename`
onto a name succeeds once, and whoever reuses a directory verifies it first.  A
backtest reads a snapshot by its name; a risk decision reads the two locked stores,
one after the other, and keeps copies of both beside its answer.

What makes each of them correct is stated by the properties of section 4; the
places where it is easy to get wrong are the `hazards` of `PROJECT.json`.

## 2. Modules

| Module | Models |
|---|---|
| `TradingRules` | fee schedule, slippage, tradability (pure operators, no variables) |
| `PortfolioLedger` | the tables as variables, one operator per transaction |
| `PaperExecution` | `execute` by a set of processes that may die, over `PortfolioLedger` |
| `PaperSettling` | `PaperExecution` with the plans whose process died and the fairness of the operator: is an opened date ever settled? |
| `DailySettlement` | abstract specification: what executing plans on the ledger promises |
| `OrderPlanner` | the planner's arithmetic: target volumes, what is sold and bought, what is affordable (pure operators) |
| `PlanRiskEngine` | the rules of the plan risk engine and the cut of large orders (pure operators) |
| `TradingDays` | several days of planning, assessing and executing: both of the above over `PaperExecution` |
| `RunStore` | the run manifest as a value, the store's operations on it |
| `DailyWorkflow` | the operator's commands, over `RunStore`, `DailySettlement`, the registry, the index and the kill switch |
| `RiskModels` | the documents the v2 stores and the engine share |
| `RiskControls` | abstract specification: two atomic registries, of switches that move forward in time and of approvals issued once and revoked for good |
| `ControlStores` | the two state files under lock files, step by step |
| `RiskEngineV2` | the v2 engine: refusals, floors, ceilings, scaling (pure operators) |
| `RiskService` | evaluations that read both files, decide and publish, over `ControlStores` and `RiskEngineV2` |
| `DataQuality` | the rules of the canonical datasets and of point-in-time bars (pure operators) |
| `SnapshotStore` | `synchronize` by rival processes, over `DataQuality` |
| `SnapshotResearch` | the backtest: features, ranks, portfolios, returns, costs (pure operators) |
| `PitPublication` | snapshots, backtests and captures published by renaming |
| `DataPublication` | both kinds of data directories, with their common properties |
| `MCPaperExecution`, `MCPaperSettling`, `MCTradingDays`, `MCDailyWorkflow`, `MCRiskService`, `MCDataPublication` | small instances for TLC |
| `PaperExecution_proofs`, `TradingDays_proofs`, `TradingBooks_proofs`, `DailyWorkflow_proofs`, `RiskService_proofs`, `SnapshotResearch_proofs`, `DataPublication_proofs` | proofs |
| `SumTheorems` | lemmas on sums over finite sets that the proofs share |

`PaperExecution` EXTENDS `PortfolioLedger` EXTENDS `TradingRules`.  It
implements `DailySettlement` under the mapping `Settles` (an owned date is one
with a session row, an applied order one with an `orders` row, a valued date one
with a `nav` row, a closed date one whose session is COMPLETED).
`DailyWorkflow` EXTENDS `DailySettlement`: its EXECUTION stage takes the abstract
steps `Open`, `Apply`, `Value`, `Close`, so the workflow is checked against any
ledger that keeps that promise, and the refinement shows that this one does.

`TradingDays` EXTENDS `PlanRiskEngine` EXTENDS `OrderPlanner` EXTENDS
`TradingRules`, and INSTANCEs `PaperExecution` with every possible plan in place
of a given set: the plans are what the planner builds from the books that earlier
executions left.  `DailyWorkflow` is about the same chain seen from its files: it
takes a plan as given and asks which commands reach the ledger; `TradingDays` takes
the commands as given and asks what the amounts do.

`RiskService` EXTENDS `ControlStores` and `RiskEngineV2`, both over `RiskModels`:
the writers of the stores and the evaluators interleave, and an evaluator uses what
it read after it has been replaced.  `ControlStores` INSTANCEs `RiskControls` with its
own variables: the refinement mapping is the identity on the content of the two
files, and every lock file, waiting process and unfinished read is a stutter.

`SnapshotStore` EXTENDS `DataQuality`; `PitPublication` EXTENDS `DataQuality` (what is
visible, what blocks) and `SnapshotResearch` (what a backtest makes of the bars it
read).  `DataPublication` puts the two beside each other.  They share no file, so a
behaviour takes the steps of one of them: interleaving them would multiply the states
and show nothing.

### How state and actions correspond to the code

*Ledger.*  `cash` is `accounts.cash`; `lots` is `position_lots` in `lot_id`
order; `orders` maps a `client_order_id` to its row with its trade and fee (the
same transaction writes all three); `sessions` maps a date to its
`execution_sessions` row; `nav` is the set of NAV rows.  A NAV row keeps the two
numbers `daily_return` and `drawdown` are computed from (`previous`, `peak`)
instead of the quotients.  Amounts are integers in the smallest unit the code's
six-digit rounding keeps, and rounding is truncation; the properties do not depend
on the direction.  Every order names its plan, which stands for the run id, the
plan checksum and the date.

*Executor.*  `pc` is the ledger call a process makes next: `validating` (the
calendar order, on a connection of its own), `opening` (the transaction that
begins the session), `trading` (one `execute_order` per step), `pricing` (the
second of the two reads of `portfolio_snapshot`), `recording` (the NAV is
computed and compared with the day's row), `inserting`, `closing`.  `Crash`
forgets a process's locals, and what was committed stays.

*Planner.*  `sheet` holds the locals of `build`: `BeginPlan` opens the account and
takes the portfolio snapshot, `PlanSell` and `PlanBuy` are one turn of the two
loops, `StorePlan` writes `order_plan.json`, `LosePlan` is a death before that, and
`RaiseInPlan` a refused date or an unpriced symbol, both found after the account
was opened.  Weights are percentages and quotients are compared by cross
multiplication.  What research picked is chosen from `Picks`; the weight of a pick
is `min(1/n, max_position_weight)`, as `_build_targets` computes it.

*Risk engine.*  `Approve`, `Adjust` and `Reject` are the three outcomes of
`evaluate`.  The rules on the kill switch and on the data manifest are in
`DailyWorkflow`.  A checksum is the sequence of the plan's order ids, and an order
id stands for the run and the order's content, so a cut order has a new id.

*Manifest.*  The status of the run and of each stage, and whether `error` starts
with `RISK_REJECTED`; a stage's last attempt is RUNNING exactly when the stage
is, so attempts need no variable.

*Workflow.*  Commands run one at a time, as `docs/known_limitations.md` asks.
`call` says which command is running and where it stands between two durable
writes; `manifest`, `planned` (order_plan.json, as the books it was built on),
`verdict` and `assessed` (risk_assessment.json, as its decision and what its rules
observed: the kill switch and the days with a NAV), `approval`, `results`
(execution_result.json) and `latest` are the files; `killSwitch`, `damaged` and
expiry belong to the environment.  The plan and the assessment are written once:
`MakePlan` and `Assess` repeated on other books or another NAV series raise.
`Crash` ends the command between two writes; `Raise` is an exception inside a stage,
which the handler of `_run_stage` records (DATA_SYNC has none).  `Raising` says which
stages of a run raise on its data at every attempt; `RaiseAgain` is such an attempt.

*Risk stores.*  `switches`, `approvals` and `revoked` are the content of the two JSON
files, `lock` says who made each lock file (`Orphan` once its maker died), `seen` is
what a writer loaded under its lock.  A writer waits for the lock and gives up when
its time is over, which can happen as long as the lock is there; it reads the whole
file, checks its update (`changed_at` later than the recorded one, an unused approval
id, a known one to revoke) and replaces the file with what it *read*, changed: that a
writer without a lock would lose an update is part of the model.  `clock` stamps a
switch before its command waits for the lock, as `set` of the store does.

*Risk engine v2.*  `Refusal` has the checks of `evaluate` in their order, as far as
`Allocate`, which has the floors and ceilings of single instruments and the two
scalings.  Weights are whole numbers of the quantum, so ROUND_DOWN is `\div`.  The
code divides in decimals of 28 digits before it rounds down: a product that is a whole
number of quanta may come out one quantum lower, which moves a weight towards its
floor and is not modelled.

*Risk service.*  `epc` is where an evaluation stands: the switches read, the approvals
read, decided, the directory built; `saw` is the controls it read and `began`, a history
variable, the ones that held when it began.  A directory is named by everything its
decision rests on, so `artifacts` maps the controls that were read to a decision.
`Reuse` verifies what is there by evaluating again on the stored inputs; `Publish`
renames.  The switches and the approvals of one decision may never have been in force
together (v2_service.py:81): the properties say what holds of each of the two.

*Data snapshot store.*  A version is a date and the hash of its datasets; `dirs` are
the directories, `manifests` the manifests with their verdict, `pointer` the file of
the date.  `MakeDir`, `WriteDatasets` (which judges them), `WriteManifest` and
`WritePointer` are the durable steps of `synchronize`; `DieSyncing` ends a command
between two of them, as a death or a failed write.  `Content` is the table that
gives a hash its datasets back.  The prices of a bar, and its volume and amount, are
sound, missing (NaN), wrong or no number at all: `validate_daily_bar` compares, which is
false of what is missing and raises on what is no number.

*Published directories.*  `published` maps a name to what the directory holds now and
`by` who filed it (for `retrieved_at` or `created_at`, which no rival may replace).  A
command goes from its inputs to a name (`BeginSnapshot`, `BeginShadow`,
`BeginResearch` with `ReadBars`), and finds the directory (`ReuseDirectory`) or builds
one apart and renames it.  On Linux renaming onto a directory that is not empty raises
ENOTEMPTY, so the handlers of FileExistsError in `snapshot.py`, `snapshot_runner.py`
and `shadow.py` never run, and the loser of a race fails; the model does that.

*Backtest.*  Symbols are numbers in their order, returns thousandths, weights amounts
of the account's currency.  `Back` is `shift`, `Between` counts the rows it passes,
`RankOf` is `rank(method="first")` on rows in the order of the symbols.  Ties are
exact: two floats that differ by rounding only are taken to be equal.

## 3. Runs

| Run | Instance | Result |
|---|---|---|
| `ledger_rivals` | 2 processes, 2 dates, 4 plans (3 rivals for the first date, two of the same run sharing an order id), 1 death | passes |
| `ledger_serial` | 1 process, 3 dates, 5 plans (2 rivals for the first date and 2 for the last), 2 deaths or passing failures, fair | passes |
| `trading_days` | 4 runs on 3 dates (2 rivals for the second), 2 symbols, up to 2 selections per run, 1 death | passes |
| `adjustment` | 2 runs on 2 dates, 2 symbols, no death | violates `AdjustedPlansPass` |
| `workflow_safety` | 3 runs (2 rivals for a date), 2 upsets out of death, expiry, kill switch | passes |
| `workflow_liveness` | 2 runs on 2 dates, the execution of one raises for good, 2 upsets of any kind, fair | passes |
| `workflow_partial` | 1 run that breaks a risk rule, no upset | violates `NoPartialRunPublished` |
| `workflow_kill_switch` | 1 run, the kill switch once | violates `KillSwitchOnlyDelays` |
| `workflow_resume` | 1 run, 1 death, fair and diligent operator | violates `IncompleteRunsResume` |
| `risk_service` | 2 writers, 1 approval, 2 evaluations by 2 (interchangeable) evaluators, 1 fault (a death or a changed file), clock up to 1; 152 portfolios on 3 instruments of 2 industries, the account worth 8 quanta | passes |
| `data_publication` | 260 payloads of one date, 2 syncers, 2 commands, 1 restatement, 1 fault; 6 feeds of daily bars, 2 times, 4 captures, 2 workers, 3 commands, 1 fault | passes |
| `sync_unmarked` | 1 syncer, 3 payloads (one of each outcome), no fault | violates `InvalidIsMarked` |

Why these bounds.  Rivalry for a date needs two plans and two processes, reuse of an
order id two plans of one run, overtaking two dates, a NAV series with a rise and a fall
three.  The markets are chosen so that the branches happen: a price at its limit, a
suspended symbol, a symbol without a price, a purchase the cash does not cover, a sale
of lots of two dates, a sale whose minimum fee exceeds value plus cash, a holding that
has no price on the second date.  One death
between any two calls of one execution and a second one in its repeat reach every
partial state a sequence of deaths leaves, because a repeat starts from the first call.
Those two faults are enough for settling too: one call raises and is repeated, the
other's process dies.  In the workflow two upsets are a failure and one during its
recovery.  The exceptions of a stage, which leave it FAILED and open to a retry, are in
`workflow_liveness`, where the stages and the settled day are checked too; rivalry for a
date is in `workflow_safety`, with the deaths.  `MaxCrashes` and `MaxUpsets` bound these environment counters; nothing else
is bounded.

The account of `trading_days` is small (1000, prices near 50, lots of two) and its
three days are chosen so that the rules bite: a position bought on the first day
rises and is locked at its lower limit on the second, the other one falls far
enough to break the drawdown limit; a second run waits for the same date; sales fund
purchases, a purchase is reduced for cash, a sale is cut to the order-value limit, and
gross exposure, single weight, turnover and drawdown each reject some plan.  Two
rules never fail on their own there: cash (the planner's own budget keeps it, which
is `PurchasesAreFunded`) and an order of which not even one lot fits the limit.
`adjustment` has markets and limits of its own, chosen so that the sale alone is above
the order-value limit: the purchase it makes room for stays as it was.
`trading_days` and `adjustment` switch the deadlock check off: when every run is
rejected or executed and the deaths are used up nothing is left to do.

In `risk_service` one switch set twice, with different stamps and severities, and one
approval issued and revoked are the smallest content on which an update can be lost, a
stale stamp undone, an id rebound and a revocation overtaken; one fault leaves an
orphaned lock or a damaged decision, which the commands after it meet.  The quantum is
an eighth of the account: limits of half and five eighths, floors of what cannot be
sold and ceilings of liquidity collide there, and almost every division rounds.  Each
refusal has a request of its own.

In `data_publication` the payloads differ from a good one in the days of their bars, the
calendar, the universe, the limits, in repeated, contradictory or jumping bars, prices or
volumes that are missing or no number, and missing, repeated or wrong factors, alone and
together: each rule decides some payload, 14 of them make the rules raise and 10 are
valid, three of these with a value missing.  A rise of 34 % passes and one of 35 % does
not; a universe of twenty stands on both sides of the 95 % coverage.  The feeds bring a
correction, a late row, an unstamped and an unsound one, and too few symbols; three
symbols over six days give windows of two bars, ties, a change of the portfolio and
costs on both sides.  The run switches the deadlock check off: commands are bounded and
nothing is left when they are used up; so does `sync_unmarked`, for the same reason.

## 4. Properties

*Ledger under rivals.*  `OnePlanPerDay`: every recorded order belongs to the plan
that owns its date.  `BooksBalance`: cash and shares are what the filled orders,
each counted once, make of the opening balance.  `NoSameDaySale` (T+1 over the
history), and `SettlesDaily`, the refinement of `DailySettlement`.

*Ledger, one process.*  `OldestLotFirst`, `DaysInOrder`, `NavIsClosingBalance`,
`NavSeriesSound`, `NavRetryAgrees`, `OpenedDaysSettle`.  They are stated for executions
that do not overlap, because two checks are outside the transactions they are for.  The
calendar check of `begin_execution_session` runs on a connection of its own: an
execution overtaken between it and the transaction opens its date after a later one, and
buys a lot older than one that was drawn on already (three dates are needed to see it).
And the reads of `record_nav` come before its INSERT: with two processes on one date a
NAV may mix the cash before an order with the lots after it.  The documentation restricts
the ledger to one serial user, and that is what these properties need.
`OpenedDaysSettle` has four exceptions, each of which happens in its run: a later date
began; the process died (start_stage refuses the stage it left RUNNING, so the plan is
never executed again); a holding has no price on the date; or the next order is a sale
whose fee the account cannot pay.  The last two raise at every repeat.

*Trading days.*  `PurchasesAreFunded`: a plan with a purchase never spends more than
the cash and the proceeds of its sales.  `OrdersAreCapped`: no recorded order exceeds
the order-value limit.  `BoardLots`: holdings and orders are whole lots, whatever was
cut, locked or left unfilled before.  `ClosesAsPlanned`: an approved plan executed
on the books it was built on is executed to the letter: no order is left unfilled and
the day closes with the projected cash and market value.  It may still raise on a sale
whose fee exceeds its value and the cash, if a later sale of the plan would have paid for
it: CASH_SUFFICIENCY looks at the sum of the plan, the ledger at each order.  No
other exception is needed.
`ClosesWithinLimits`: the
day then closes within the exposure and turnover limits, measured in the ledger.
`DrawdownHalts`: a breach of the drawdown limit stops trading on later dates.
The last three are about a *fresh* plan, one no other run was executed after.
That condition is needed: risk is assessed once, in the RISK stage, and neither the
approval nor the executor compares the plan's account with the ledger.  A plan that
waits while another run is executed, or while the NAV that breaks the drawdown limit
is stored, is executed on books no rule has seen - with unfilled orders at best.
The design asks for risk checks "at every execution boundary" (design.md:19); what is
repeated there is the kill switch, the binding and the approval, not the rules.
`ClosesAsPlanned` and `ClosesWithinLimits` also exclude plans whose sales were cut,
which is the fourth finding below.

*Workflow.*  `ExecutedOnlyIfApproved`, `ExecutionIsSettled`, `StagesInOrder`,
`PublishedIsCompleted`, `IndexNeverRegresses`, `CompletedIsFinal`, `RunsFinish`.
`RunsFinish` names the ways a run may stay unfinished, each of which happens in its run
(but for a date taken, which needs the rivals of `workflow_safety`):
stranded in a RUNNING stage; its date taken or overtaken by another run; a damaged
artifact; a stage that raises on the run's data for good; a plan that was written before
PLAN failed, on books another run changed since; an assessment that was written before
RISK failed, with the kill switch active or on an NAV series that has grown since.  They
are all there are in the model.  What it leaves out - a configuration changed under a
run, two commands at once, a full disk - may add others.

*Risk stores.*  `StoresAreAtomic`, the refinement of `RiskControls`: no update is lost
or applied to a state that changed since it was checked, a switch never moves back in
time, an approval id is never rebound and never comes back from being revoked, whoever
waits, times out or dies.

*Risk decisions.*  `StandingSwitchesHold`: a switch that stands from the beginning of an
evaluation on is obeyed, though switches and approvals are read apart and without a
lock.  `RevokedNeverApproves`.  `AnswersReplay`: every answer, computed or found
published, is the engine's on the inputs and the controls it names.
`TradableWithinLimits`, `AdjustmentIsStable`, `OnlyImpossibleRefused`: what the engine
approves can be traded to and keeps every limit however shares were rounded; asked for
it again, it approves it unchanged; and it refuses for want of room only when no
portfolio at all would do.

*Data.*  `ValidSnapshotsAreComplete`: what the rules call valid has unique bars, one
factor for each, no closed day, the last trading day, 95 % of its universe, and no value
that is wrong.  Missing values it may have: see section 6.
`StuckOnlyByFault`: a version without a manifest is being made, died half made, or its
rules raised.  `PublishedStays`: no rival replaces, judges again or removes what is
published.  `AnswersAreIntact`: what is returned holds what its name says.
`HonestBacktests`: a snapshot holds what was known at its time, once; a backtest chooses
each day's portfolio on earlier bars alone, fits the account, accounts for every change
of its positions, and is the one of the snapshot it names - unless the file was changed
between being verified and being read, which the code does not exclude.

*What the documents say and the code does not do* (the findings of
`PROJECT.json`):

1. `NoPartialRunPublished`.  A risk rejection marks the stages after it SKIPPED;
   repeating `run daily` does not notice the rejection, finds nothing left to do,
   completes the run and publishes it.
2. `IncompleteRunsResume`.  A stage whose process died stays RUNNING and cannot be
   started again.
3. `KillSwitchOnlyDelays`.  A kill switch met by the RISK stage rejects the run
   for good; the runbook expects a resume after the file is removed.
4. `AdjustedPlansPass`.  The order-value limit cuts orders after the other rules
   passed.  When it cuts a sale and keeps the purchase the sale made room for, the
   approved plan leads to an exposure above the limit, and nobody looks again.  In the
   run the sale of 6 is cut to 2, the purchase of 8 is below the limit and stays, and
   the market value is 52 % of the equity where 50 % is allowed.
5. `InvalidIsMarked`.  Bars that repeat a key, with factors that do not, make the
   continuity rule raise before the manifest is written: the payload is not recorded as
   invalid, and its version can never be synchronized again.  A price or volume that is
   no number does the same: the comparison raises TypeError, and only ValueError is
   caught.

### Fairness

`PaperSettling!SettlingSpec`: every call of a running process returns or raises (weak
fairness of `Step`), and the command of a run whose execution began is repeated as long
as the run accepts it (strong fairness of `Submit` while `Repeatable`): the executor has
no timer of its own, the operator or the scheduler repeats it.  After a death nothing is
repeated, because start_stage refuses.  `DailyWorkflow!FairSpec`: a running command goes
on, the kill switch is removed in the end (the runbook's drill), `run daily` is
scheduled again and the operator grants when it is possible.  `DiligentSpec` adds an
operator who resumes and executes every run.  Nothing is assumed about deaths,
exceptions, expiry or damage but the bound on their number.

The runs on the risk service and the data directories assume no fairness: their
properties are about what is read, written and answered.  Nothing there is bound to
happen: a lock left behind blocks its file for good, and a version whose process died
is never completed.

## 5. Proofs

`PaperExecution_proofs` holds for any sets of processes, plans, dates, symbols
and order ids and any number of deaths, under the named assumptions on the
constants (`PlansAssumption`, `FeesAssumption`, `DatesAssumption`, `MarketAssumption`,
`AccountAssumption`, `AbsentAssumption`, `MaxCrashesAssumption`).  The theorems on the
order of days and on the NAV assume `OneAtATime` besides - executions do not overlap -
as the runs that check them do.

* `CoreTypeCorrect`: the tables and locals keep their types.  The content is in the
  CHECK constraints: `cash \in Nat` and `remaining \in Nat` hold because a
  purchase is covered and a sale draws at most what a lot has.  The strengthening
  is `AccountOpen`: a process past the session's opening knows that the account
  row exists.
* `OnePlanPerDayHolds`, from the inductive invariant `SettlementInv`: sessions are
  filed under their plan's date, a run has one session, a process at work owns the
  session of its date and has recorded the orders before its cursor, and a
  completed session has all its orders and its NAV.  Without `WorkerOwns` the
  invariant is not inductive: `execute_order` itself does not look at the
  session.
* `SettlesDailyHolds`: every step of the executor is a step of `DailySettlement`
  or leaves its state alone.  `begin_execution_session` opens the date or finds
  its own row; `execute_order` applies an order - and the date is not closed,
  since a completed session has no order left to record; `record_nav` values;
  `complete_execution_session` closes, or closes again.
* `BooksBalanceHolds` and `NoSameDaySaleHolds`, from the inductive invariant `BooksInv`,
  for any number of processes.  `BooksBalance` relates what is left of the lots to the
  filled orders; the invariant keeps apart what the lots acquired on a set of dates once
  held (seeded and bought) and what was drawn from them (sold).  T+1 is then one more
  conjunct: the sales up to a date are at most the draws on lots acquired before it,
  which holds whatever order the processes work the dates in.
* `TypesHold`: the NAV rows and what is read for them are amounts.  The previous NAV and
  the peak are maxima, which exist because the rows are finitely many.
* `OldestLotFirstHolds`, `DaysInOrderHolds`, `NavSeriesSoundHolds`,
  `NavIsClosingBalanceHolds` and `NavRetryAgreesHolds`, under `OneAtATime`, from the
  inductive invariant `SerialInv`.  `WorksOnLatest` - no later date is opened than the one
  the process works on - is what the calendar check outside the opening transaction is
  worth when nobody else runs; from it, a NAV row is later than all rows there are, a
  purchase is younger than every lot drawn on (`DrawnBefore`), and an order that takes
  effect finds no NAV of its date (`NothingValuedYet`).  So the NAV of the latest date
  stays the value of the books (`LatestIsCurrent`) until a later date is opened, and a
  repeated execution computes the row that is stored.

`TradingDays_proofs` and `TradingBooks_proofs` hold for any symbols, market, fees, limits,
lot size, runs, selections, processes and deaths, under `DatesAssumption`,
`FeesAssumption`, `MarketAssumption` (the prices that are there are positive, which the
quality rules see to; one that is missing in its row counts as absent),
`PlannerAssumption` (finitely many symbols, of distinct ranks),
`LimitsAssumption`, `RunsAssumption` and `AbsentAssumption` (the mark of a missing row is
none of the rows there are).  Theorems that name `OrderIdsDiffer` assume besides
that a `client_order_id`, the run id followed by a hash of what is ordered, is that of one
order only: the hash is taken for its content.  TLC evaluates the corresponding
`MCIdsDiffer` for the ids of the instance.  `TradingDays_proofs` is about plans:

* `PurchasesAreFundedHolds` and `OrdersAreCappedHolds`, from the inductive invariant
  `PlansInv`.  `SalesFirst` is the strengthening the planner needs: while a symbol is
  left to sell no purchase is planned, so a purchase is only ever checked against cash
  that every sale has already entered - a sale whose fee exceeds its value could
  otherwise take back what a purchase has spent.  `ListsCapped` follows the limit
  from the assessment through the executor's locals to the ledger; `CutFits` is the
  arithmetic of the cut, and `ExecutorStep` what a call of the executor can do
  to the state the other modules see.
* `DrawdownHaltsHolds`, from `DrawdownInv`: the dates a plan has seen stay valued, a
  run is planned once, and as long as no earlier date was valued since, the series the
  rule judged is the series now.
* `BoardLotsHolds`, `TypeOKHolds` and `CutPurchasesPassHolds`, from `FilesInv`.  It says
  of the lots that what is left of each is a whole number of board lots; of the sheet,
  that its orders so far are those of the symbols no longer on its lists, one a symbol,
  sales first, and that its cash is the account's after them; of a plan and an
  assessment, that they are made of such a list (`OrdersOf`), that an approved one
  passed every rule on its own account and that the bound plan is the original or its
  cut (`VerdictShape`); and of a job, a recorded order and a session, that its plan is
  an approved one.  The last part makes it inductive: what the executor does to the lots
  is known to be whole lots only because it never works on anything but a judged list.
  `CutPasses` is the arithmetic of `CutPurchasesPassHolds`: cutting a purchase lowers
  exposure, the weight of its symbol and turnover and, since fees grow with the value,
  leaves cash - so the fourth finding, a cut sale, is the only way an adjusted plan
  breaks a rule that passed.

`TradingBooks_proofs` is about what the ledger makes of the plans.  The argument is a
chain of inductive invariants, each using the ones before it:

* `CourseInv`: while one process is at work nothing else is, its date is not
  overtaken, the session of the date is its own, the orders before its cursor are
  recorded, and what it read for the NAV is still so; a recorded order belongs to the
  session of its date, a valued date has all its orders.
* `BooksInv`: as long as no order of another run was recorded since a plan was built
  (`Untouched`), the books are the plan's account moved by those of its orders that are
  recorded (`PlanBooks`), and these are a prefix of the list.  The step is
  `TradeFills`: an order of such a plan can be traded, because its tradability was judged
  on the same market; a sale finds its shares, because the planner counted what was
  sellable and sells a symbol once; a purchase finds its cash, because sales come
  first, so the orders still to come are purchases, and the cash after all of them is not
  negative (`CashCovers`).
* `CloseInv`: what is recorded of a fresh plan was filled, and the NAV row of its date
  holds the cash and the market value that follow from the account and the orders; later
  days do not change it.
* `ClosesAsPlannedHolds` and `ClosesWithinLimitsHolds` follow: the projected figures are
  the ones the rules judged.  `DayTrades` renames the sum over the day's fills into the
  sum over the plan's list, one to one by `OrderIdsDiffer`; `CutPasses` covers adjusted
  plans.
* `TradingDaysSettle`: the composed chain refines `DailySettlement`, with the plans the
  planner makes in place of a given set: every `Begin`, `Trade`, `StoreNav` and `Finish`
  maps to `Open`, `Apply`, `Value` or `Close` or to a stutter, and every other step to a
  stutter. It needs `ClosingInv`: who is about to close has the NAV of the date on file,
  and a completed session too.  The workflow uses this promise, so it is shown both for
  any given plans (`SettlesDailyHolds`) and for the plans there are.
* `LedgerIsApprovedHolds`: everything the ledger holds is an order of the plan bound by
  the assessment that is on file for its run, under that plan's session.

`DailyWorkflow_proofs` holds for any runs, plans, dates and kinds and numbers of
upsets, under `RunsAssumption`, `AbsentRowsAssumption`, `UpsetsAssumption` and
`DatesAssumption`; it proves every safety and action property of the workflow.

* `WorkflowTypeCorrect`: the files and the command keep their types.
* `RunsAreSound`, the inductive invariant `RunInv`.  `OrderSound` is
  `StagesInOrder` strengthened: nothing before APPROVAL is ever skipped, and a
  completed run is done.  `GateSound` ties the manifest to the files the stages
  wrote: as long as the assessment is not an approval, the stages from APPROVAL on
  are all pending or all skipped, and a completed RISK, APPROVAL or EXECUTION stage
  has its file.  `CallSound` is what the command has already passed: its stage is
  RUNNING and everything before it is done - without it `FinishStage` could
  complete any stage.  Each store operation has a lemma that it keeps `Sound`
  (`BeginSound`, `CompleteSound`, `FailSound`, `RejectSound`, `StatusSound`), and
  `RunStep` also yields what no step takes back (`Lasting`), from which
  `CompletedIsFinalHolds` follows.
* `StagesInOrderHolds`, `PublishedIsCompletedHolds`, `IndexNeverRegressesHolds`.
* `LedgerIsSound`, the inductive invariant `LedgerInv`: an open session belongs to
  a run that risk and the operator let through - `ExecutionIsApproved` derives
  that from the stages alone, for the EXECUTION stage does not read the
  assessment -, and a result is on file only for a settled day.
  `ExecutedOnlyIfApprovedHolds` and `ExecutionIsSettledHolds` are its consequences.

`RiskService_proofs` holds for any instruments, industries,
quantum, policy, requests, switches, approvals, commands, processes and faults, under
`PolicyAssumption` (`validate_limits`), `StoresAssumption` and `ServiceAssumption`.

* `TradableWithinLimitsHolds`, `AdjustmentIsStableHolds`, `OnlyImpossibleRefusedHolds`
  are about pure operators.  A scaled group keeps its limit because the shares rounded
  down sum to no more than what they were shares of, and keeps its floors because only
  what lies above them is scaled (`SigmaScale`, `SigmaLeq`); scaling the total afterwards
  only lowers every industry.  A portfolio within the limits is its own scaling.  If the
  floors of a group exceed its limit, so does every portfolio above the floors.
* `StoresAreAtomicHolds`, from the inductive invariant `StoreInv`: `LocksHeld` (a lock
  file has at most one owner, and who is past acquiring it is that owner) and
  `ReadsCurrent` (what was loaded under the lock is what the file holds), without which
  replacing the file would be no step of the abstract registries.
* `StandingSwitchesHoldHolds`, `RevokedNeverApprovesHolds`, `AnswersReplayHolds`, from
  `EvalInv` (decisions on file are the engine's on their name, or damaged) and
  `FollowInv` (since an evaluation began its switches have only moved forward in time,
  revocations have only been added, and a bound id kept its document).
* `ServiceTypeCorrect`: the state files, lock files and evaluators keep their types.

`SnapshotResearch_proofs` and `DataPublication_proofs` hold for any payloads, feeds,
times, captures, processes, bounds and research parameters, under `SnapshotAssumption`
(payloads are canonical tables), `PitAssumption` (feeds are tables of daily bars),
`ResearchAssumption` and `ChangeAssumption` (changing a file changes what it holds).

* `StuckOnlyByFaultHolds`, from the inductive invariant `SyncInv`: `MakersAlone` says that
  whoever fills a directory made it, alone, because `mkdir` fails for everybody else.
  `ValidSnapshotsAreCompleteHolds` adds what the rules imply about any canonical payload,
  values that are missing, wrong or no number included.
* `PublishedStaysHolds`, `AnswersAreIntactHolds`, from `PitInv` and `SyncInv`.
* `HonestBacktestsHold`, from the inductive invariant `MadeInv`: every name in use is that
  of a feed that was not blocked, or of a backtest of bars that a snapshot's directory
  held; a snapshot that was changed never becomes intact again, so a backtest of changed
  bars stays excused.  The rest is about operators: `LaggedHolds` (tables that agree on
  the earlier bars agree, step by step, on what lies back from a day, the features and
  the selection), `FewSelected` (of those with fewer than TopK better ones there are at
  most TopK), `PortfolioIs` (equal parts of the account, rounded down to lots, fit it)
  and `TradesLead` (what is bought and sold, symbol by symbol, is the difference of the
  two portfolios).
* `DataTypeCorrect`: versions, pointers, directories and processes keep their types.

`SumTheorems` has what these proofs need of sums over finite sets.  The library's
induction theorems take an operator as a parameter and cannot be used; each lemma here
is instead a smallest counterexample: the subsets of a finite set on which a sum is
wrong, if there were any, would have a smallest one (`SmallestSet`, from the
well-foundedness of strict inclusion), and taking an element out of it gives a smaller
one.

Only model-checked: the findings, each a counterexample on its instance, and the liveness
properties `OpenedDaysSettle` and `RunsFinish`, which rest on ENABLED.  Every invariant,
action property and refinement of the passing runs is proved.

## 6. Not modelled

Reports, vendor providers, adapters and price adjustment, Qlib conversion, the legacy
order path, the command line and the evaluation harness: numeric work on data frames or
pure I/O whose only effect on the control is that a stage completes or raises, which
`Produce` and `Raise` stand for.  Of research, `snapshot_runner.py` is modelled but for
its annualized metrics and report; the other runners produce one immutable artifact in a
stage of the workflow.  `DataSnapshotStore.latest` only reads and nothing calls it.  Two
commands on one run at the same time: the manifest is replaced without a lock and the
documentation excludes it.  The text of reports and the checksums themselves: a checksum
is a plan's, a snapshot's or a decision's identity.

Worth knowing, though no property is about it: no comparison of `validate_daily_bar`
holds of a missing value, so a valid snapshot may have bars without prices or volumes,
and the planner raises when it is to make a volume of such a price; a published version
is not verified when it is returned by the command that made it, only when it is used
again; a death between manifest and pointer leaves a valid version no pointer names
until it is synchronized again; and of two rivals that synchronize one version at the
same time the loser fails with FileExistsError and succeeds when it is repeated.

## 7. Plan

Done: the ledger and its executor with the settlement promise; planner, risk rules and
trading days; manifest store and workflow; the locked stores, the v2 engine and service;
the data versions, the directories published by renaming and the backtests; proofs for
each of them.

What is left:

1. The composition one level up: that `DailyWorkflow`, which takes the steps of
   `DailySettlement`, keeps its guarantees when the plans and assessments it files are
   the ones `TradingDays` makes (shown so far for each side of that interface).
2. Lemmas that tie `OrderIdsDiffer` to the content an id is a hash of, should
   `make_planned_order` come to leave a part of an order out.
