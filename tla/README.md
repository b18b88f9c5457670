# strategy-lab in TLA+

This directory holds TLA+ models of strategy-lab (`lab/`, `strategies/`, `console/`), the TLC
configurations that check them on small instances, and theorems about them that TLAPS proves for
every value of the constants. `PROJECT.json` lists components, runs, mutants, the definition-to-code
map, findings, hazards and theorems; this file explains them.

Check a run with `tlc -config MCLiveRunner_accounting.cfg MCLiveRunner`, a proof with
`tlapm LiveRunnerProofs.tla`.

## 1. Inventory

strategy-lab runs one strategy file unchanged in a backtest and against a broker. What follows are its
parts: the state each keeps, what it does, what it talks to, what is hard in it, and what makes it
correct.

| part | state | operations | talks to | hard | correct when |
|---|---|---|---|---|---|
| Live runner (`lab/live/runner.py`) | the book, watermark and seen fills, idempotency cache, `blocked`/`paused`/error count | start, step, submit_orders, settle, stop, pause/resume | broker, registry, kill switch, gate | the process dies anywhere, fills arrive any time, reads of the registry fail, other processes pause and kill | book and account agree; one order per decision; nothing sent while blocked, paused or killed (except reductions) |
| Reconciliation (`lab/live/reconcile.py`) | none | diff the book with the account, adopt | broker, book | two broker calls that are not one snapshot | it refuses whenever trading on would double an exposure |
| Kill switch (`lab/live/killswitch.py`) | sentinel file, environment flag | engage, release, engaged | every process | engaged between two reads | no new exposure after it |
| Alpaca broker (`lab/engine/broker_alpaca.py`) | none (the account is remote) | submit, cancel, positions, open_orders, poll_fills | Alpaca | lost replies, duplicate ids, fills reported once an order closes | an idem_key is one order |
| SimBroker (`lab/engine/broker_sim.py`, `lab/backtest/fills.py`) | working orders | submit, cancel, process | portfolio, fill model | partial fills, limit prices | an order fills at most its quantity |
| Risk gate (`lab/risk/gate.py`) | day-start equity, order budget, cooldowns, breaker | evaluate, note_orders, roll_day, trip, reset | portfolio, kill switch | intents of one batch compete for one budget; clips; the breaker across days | limits hold for the batch as a whole, exits are let through |
| Portfolio (`lab/engine/portfolio.py`) | cash, positions, trades | apply_fill, reconcile, target_to_delta_shares | runner, broker | crossing zero, partial exits | cost basis and trades add up |
| Backtest runner (`lab/backtest/runner.py`) | run loop | run_backtest | context, gate, broker, registry | look-ahead, ordering within a bar | a decision at t reads nothing after t and fills no earlier than the next bar |
| Data view and context (`lab/engine/context.py`) | asof, tape | reads up to `now` | store, strategy | look-ahead | the barrier holds for every source |
| Wall clock and daily task (`lab/engine/clock.py`, `lab/timeutil.py`, the script `paper schedule` writes) | when it started, the last fire; bars stored | next fire; pull, then decide once | runner, store, the machine's task scheduler | holidays, weekends, a machine that is off, a vendor that is late | no session missed, no bar read that was still running |
| Store (`lab/store`) | raw answers of each day, parquet partitions | save an answer, merge a batch, read | adapters | two writers, a death between unlink and rename, a torn gzip member | a rewrite loses no row; one row per fact |
| Adapters (`lab/adapters`, chiefly `govgreed.py`) | requests sent, `last_pull` | three list calls and look-ups, each tried a few times; replay from the raw answers | network, store | rate limits, quota gone in the middle, a refused key | requests within the budget, the archive replays to what the pull gave |
| Registry runs/db (`lab/registry/runs.py`, `db.py`) | SQLite tables, artifact directories | create with its attempt, finish, delete, counts | everything | processes that race for an attempt, files rewritten between load and archive, death mid-run | every run is a look; a finished run leads to the code that ran |
| Journal (`lab/registry/journal.py`) | event table with a cursor | append, tail | runner, WebSocket | events between query and cursor | a reader misses none and sees none twice |
| Promotion and findings (`promote.py`, `findings.py`) | the library's files with their headers, the findings table | promote, record, supersede, update | registry | edited archives, two clients on one finding | promoted code is what was run; a claim's history is kept |
| Agent research and author loops (`lab/agent/research.py`, `author_loop.py`, `in_loop_strategy.py`) | session.json, workspace files, lineage, budget | sittings, turns, experiments, finish; proposals; one call a session | providers, registry, gate | a crash between a step and its save, failed calls, a fragile pick sent back | calls and spend bounded, every look known, lineage is what ran, the model is walled in |
| Providers (`lab/agent/providers.py`) | none | resolve, call | network | six ways an answer may come | what is read and charged |
| Indicators (`lab/indicators`) | files under their keys | compute, get, put, clear | store | two threads, restatements, kills | a cached series equals a computed one |
| Analysis, metrics, sweep, walk-forward (`lab/analysis`, `lab/backtest`, the validating tools of `lab/mcp`) | a pool of processes | windows, halves, periods, grids, neighbourhoods, resampling, digests | registry | leakage between windows, a pool that dies, ties and missing scores | nothing is tested twice or where it was trained |
| MCP server, tools (`lab/mcp`) | none | tools | everything | none of their own | same as the layer they call |
| MCP job queue (`lab/mcp/jobs.py`) | job records on disk, queue, live processes | submit, pump, reap, cancel, status | child processes, several servers | unlocked read-modify-write of records by parent and child, restarts | at most `cap` run, a finished job stays finished, a queued one runs |
| API and WebSocket (`lab/api`) | cursor per socket | read routes, pause, cancel, kill | registry, kill switch | requests nobody serves, polling | a control reaches the runner |
| Console (`console/`) | event list per screen | live event hook, time lock | API | reconnect, duplicates | the list is the journal |
| CLI, config, loader, strategies, scripts | none | commands | everything | none of their own | |

## 2. Plan

In this order; what says *done* is in this directory.

1. *done* `LiveRunner`: runner, reconciliation, account, registry, kill switch and operator in one
   module, because what goes wrong there goes wrong between them. `Decisions` is its abstract
   specification: a decision becomes an order at most once.
2. *done* `JobQueue`: the MCP server, its job records and its detached workers.
3. *done* `GateRules` and `RiskGate`: the rules as operators, and the gate's state across the bars,
   sessions and restarts of a runner.
4. *done* `Portfolio`: `apply_fill`, the trade booked on an exit and `reconcile`, as operators on a book.
5. *done* `Backtest`: the loop of `lab/backtest/runner.py` with `SimBroker` over `Portfolio`; it implements
   `Decisions` too. Left: the gate's caps over working orders (gate.py:375), with `GateRules`.
6. *done* `EventTape`: the journal, the WebSocket's cursor and the console's event list.
7. *done* `GovGreed` and `Store`: the vendor's client, its pull and its archive, and the event table with
   two writers; composed, so that what a pull wrote is what a query returns.
8. *done* `RunRegistry`, `Findings`, `Rerun`, `Trials`: the life of a run and of its code, the claims
   made about it, its repetition, the number of looks it answers for.
9. *done* `ModelCall`, `Research`, `AuthorLoop`, `InLoop`, `Tuning`: the three places where a model is asked.
10. *done* `PointInTime`, `IndicatorCache`, `WallClock` and `DailyTask` over `Calendar`: what is read, and when.
11. *done* `Sweep`, `WalkForward`, `Evaluate`, `Neighbourhood`, `Resampling`, `Digest`, `PaperAudit`: how
    results are judged.
12. *done* Proofs about the machines of `search` and `stores`: `SearchProofs` (author loop, trading loop, research,
    paper audit, tests for luck, walk-forward windows and halves, sweeps), `RegistryProofs` (runs, reruns, findings, trials, quota, journal),
    `StoresProofs` (indicator cache, tape, point-in-time reads, the vendor's data and its table); `CapHolds` and `OverStays` of the job queue;
    `NoFillLostOrDoubled` and `PositionIsItsFills`, over `Sums`; the calendar, the clock and the daily task
    (`RegistryProofs`), the digest, the tuning rows and the neighbourhood (`SearchProofs`). What the proofs need of
    sums, orders, division and curves alone is in `CommonProofs`.
13. Left: `ControlPlane`, the API beside a runner and two runners on one account (`stop()` cancels the other's orders); the gate's caps over working orders
    (gate.py:375).

## 3. What is modelled

In every module an action is one handler, cut where another process can act; an operator named
`...Mutant` beside another is the same operator with a plausible bug, used to show that a property can
fail. Actions keep the order of the code's tests and writes.

### LiveRunner

| model | code |
|---|---|
| `pc` in `restore`, `positions`, `orders` | `start`, `restore_book`, the two broker calls of `reconcile` |
| `idle`, `poll`, `book`, `pause`, `decide` | `step`: stale guard, `_poll_fills`, marking, `_is_paused`, `on_bar` with the gate |
| `check`, `send` | `submit_orders`: before the loop, one order, after the loop |
| `save` | the error counter and `_save_book` after a step |
| `settle`, `settlebook`, `settlelast`, `sync`, `exit` | `settle`, `sync_book_from_broker`, `stop(cancel_open=False)` |
| `stop`, `cancel` | `stop`: open orders, then one cancel at a time |
| `rows`, `saved`, `row`, `paused` | tables `orders` and `live_strategies` |
| `ord`, `pos`, `log` | the account: orders, positions, closed orders with something filled |
| `seenKeys`, `loaded` | `_idem_by_session`, one set for all sessions and the sessions read |
| `wm`, `raw`, `seenFills` | `_last_fill_poll`, what a poll returned, `_seen_fills` |

`World` is everything the process does not decide: fills (whole and partial), expiry, another trader,
crash, restart with `once` and `adopt` either way, the operator's kill switch, pause and interrupt,
and the next session. `Crash` loses the process variables and keeps the rest.

Two abstractions matter. Time is a position in the log of closed orders, `poll_fills`'s docstring read as it stands: an
order comes back when its fills landed since the watermark (`LandedSince`). The code hands the watermark to the account as `after`,
and should the account go by the time of submission, a poll returns less than that, and what `accounting`
shows hangs on the reading; that a poll returns closed orders, once and with their whole filled quantity, is
read from the docstring and the code of `AlpacaBroker.poll_fills`, the account itself is external.
A position is a number of shares: cash, prices and weights are left out, "the book is worth nothing" is
a choice (`ruin`), and the strategy with the gate is "some orders, none under the kill switch".

What the fills of a ticker come to is a `Total` (`Sums`): the sum of a function over a finite set, as what it has above
zero less what it has below, counted unit by unit, so that no fold stands between a property and its proof.

### JobQueue

`Submit`, `Status`, `Cancel` begin a tool call; `Reap`, `Launch`, `ReadLaunched`, `RecordLaunched`,
`PumpEnds` are `_pump`; `Check` and `LookForWorker` are the rest of `status`, `Kill` and `KillPid` of
`cancel`; `Finish`, `Raise`, `ReadOwn`, `WriteOwn` are `_child`. `_patch` is two actions, a read and a
write, on both sides: that is where records get lost. `Restart` is the server's death at any point and
its return with nothing in memory. Tool calls do not overlap, which is how FastMCP runs them.

### GateRules and RiskGate

`GateRules` is `_evaluate_one` as operators: `Clipped` is the chain of clips, `Verdict` the rules in
their order. `RiskGate` has `roll_day` (`RollOnly` and in `Evaluate`), one `Judge` per intent, so that
what a batch has come to is a state, `NoteOrders` on any subset of the orders built (the runner charges
what was sent), `trip` and `reset` (a human's: nothing in the tree calls them), and a live runner's
restart, which builds a gate with no state. History variables (`entries`, `opening`, `lossSeen`,
`halted`, `sold`) keep what happened to this gate, so that a property does not ask the gate's memory
about itself. Orders are taken at the approved weight: `_build_orders` rounds to whole shares, which
brings them nearer to nothing.

### Portfolio and Backtest

| model | code |
|---|---|
| `qty`, `cost`, `last` | `Position`: `qty`, `cost_basis` (the code keeps `avg_price`), `last_price` |
| `flow`, `ledger`, `lot` | what fills added to `_cash`, the pnl of `_trades`, `_open_trade`, each per ticker |
| `ApplyFill`, `BookedPnl`, `LotAfter` | `apply_fill` with its five cases, `_book_exit`, the open trade they leave |
| `Residual` | `reconcile` |
| `orders`, `pending`, `todo` | `_all_orders`, `_pending`, and what the loop of `process` has still to look at |
| `NextBar`, `KeepOrder`, `FillOrder`, `MarkBar` | a bar up to `roll_day`: `process`, one order at a time, `mark` |
| `Decide`, `Submit`, `NoteOrders`, `SkipBar` | `on_bar` to `_build_orders`, `broker.submit`, `note_orders`, the warm-up |
| `pc = "late"`, `MarkLate` | `same_close`: `process` and `mark` after the decision |

`Portfolio` is operators over its variables and `Backtest` the state machine, so that a live runner over
the simulated broker could use the same book. Money is in whole cents and kept per ticker; that the cash of
the portfolio is the sum over tickers is in the shape of `apply_fill`, which touches one. An average price
would not be a whole number where its product with the quantity is, so the cost is kept; a pro-rata share
is taken whole when everything is closed and rounded otherwise, and no property depends on the rounding. The
strategy, the gate and `target_to_delta_shares` come to "at most one order for each ticker that has a
price"; slippage, volume and limits come to "some price, some part, or nothing". `crossed`, `accepted`
and `held` are history.

### The agents: ModelCall, Research, AuthorLoop, InLoop, Tuning

`ModelCall` is `call_tool` over a backend: `Resolve` chooses it, `ToolCall` says for each body a service may
send what the loops get and what it costs. The three loops use its `Calls`.

| model | code |
|---|---|
| `Research`: `pc` in `top`, `ask`, `answered`, `ran`, `judge`, `close` | a turn of `ResearchSession`: limits, the call, its handling, the experiment recorded, the neighbourhood of a pick, the end of the sitting |
| `s`, `disk` | the session in memory and session.json; a `Crash` keeps the second |
| `AuthorLoop`: `at`, `n`, `prev`, `lineage`, `book` | `run_author_loop`: baseline, proposal, trial; what the next proposal builds on |
| `InLoop`: `OnBar`, `NoClient`, `NextSession`, `Restart` | `AgentStrategy.on_bar` with the validation of its targets, and a runner that starts again |
| `Tuning`: `Try` | an experiment added, with the three readings `_tuning_pressure`, `_catalog`, `_situation` beside |

A code is the number of what wrote it; a proposal is what the validation leaves of it. Time passes while a
model answers.

### The judges: Sweep, WalkForward, Evaluate, Neighbourhood, Resampling, Digest, PaperAudit

| model | code |
|---|---|
| `Sweep`: `Select`, `Submit`, `Take`, `Ends`, `Break`, `Collect`, `RunSerial`, `Rank` | `run_sweep`: `_select`, the pool of `_execute` with its workers, the serial loop, `_rank_rows` and `_walk_forward_table` |
| `WalkForward`: `CutWindows`, `Score` | blocks and windows, then masks, pooled halves and trades of one run |
| `Evaluate`: `SplitPoint`, `Run`, `Measure` | the holdout fixed, a backtest, its halves, benchmark and periods, for the five tools that call it |
| `Neighbourhood`: `TryNext` | one run of the plan, with `neighbourhood_report` over those so far |
| `Resampling`: `Resample`, `Score`, `Refuse`, `SerialRaise` | the block bootstrap, the paired one, the permutation test |
| `Digest`: `Bar`, `TradeCloses`, `Line`, `Tear` | a run as metrics.py and review.py read it: bar by bar, trade by trade, line by line |
| `PaperAudit`: `Decide`, `Wait`, `ThrowBook`, `Audit` | paper trading, and `live_vs_backtest` |

These are mostly pure functions. Where one is, its definition is given by quantifiers over a state that grows
one input at a time, and the properties compare it with what it should mean. A bar stands for itself: a
curve is the set of moves it kept, so that "measured over the same bars" is an equation. Sums are `Total` of `Sums`
and a sort is what comes before what (`BestFirst`, `At`), so that both can be proved about. In `Neighbourhood` a whole
number 0 or 1 is a switch, as `is_flag` has it, and a fraction is counted in units of which a tenth of it is whole.

### The stores: GovGreed, Store, RunRegistry, Findings, Rerun, Trials, EventTape

| model | code |
|---|---|
| `GovGreed`: `todo`, `attempt`, `calls`, `raw`, `last` | the requests of a pull and the attempts of one, the raw archive, `last_pull` |
| `Lost`, `Server`, `Throttled`, `Refused`, `QuotaGone`, `KeyRefused`, `Answered` | the answers `_request` tells apart |
| `Store`: `at` in `read`, `list`, `swap` | `write_table` of one partition: merge, list, unlink and replace; `Die` between any two |
| `RunRegistry`: `Import`, `ReadSource`, `Register`, `ArchiveConfig`, `ArchiveSource`, `FinishOk`, `LoopRaises`, `Lose` | a backtest from `load_strategy` to `finish`, and the process that dies |
| `Rewrite`, `Clean`, `Delete`, `EditArchive`, `Promote`, `StrategyWrite` | everybody else |
| `Findings`: `Record`, `ReadRow`, `WriteRow` | `record` with its supersession in one transaction, `update` in two steps |
| `Rerun`: `SweepStale`, `SkipRun`, `StartRun`, `RunEnds`, `RunFails`, `RerunOne` | `runs rerun`, with rows deleted and files rewritten meanwhile |
| `Trials`: `Deflate` | `deflated_sharpe`'s count of trials |
| `EventTape`: `Tell`, `Connect`, `Poll`, `Receive`, `Drop`, `SeedRows`, `SeedHead` | an append that may fail, the socket's loop, the console's seed and its ring |

Versions of a file are numbers, rows are sets of what tells them apart. Auxiliary variables (`ran`, `raced`,
`edited`, `deleted`, `kept`, `hurt`, `late`, `skipped`) say what happened to a record, so that a property
can name the one case in which the code promises nothing.

### What is read, and when: PointInTime, IndicatorCache, Calendar, WallClock, DailyTask

`PointInTime` is a frame of bars with stamps and knowledge times, `SetNow`, and `Ask` of an indicator with
`_visible`, the slice of the full series and the causality check. `IndicatorCache` cuts `get` and `put` at the file
system's steps, with a temporary file per process and key. `Calendar` is timeutil.py, Easter included.
`WallClock` is `next_fire` and the loop; `DailyTask` is the installed script with triggers, outages, failed
pulls and the limit on stale sessions. A run of it takes an hour at most (cli.py:1344) and may outlive one time of the day
(`Survivors`): one that pulled in the session may decide after the close, one under way at the trigger takes its place. An intraday bar longer than a session ends in none: `_next_intraday_fire` raises
(`Raises`, the 400 minutes of the run), and the clock fires no more. Times are minutes of Eastern time without daylight saving.

### MCSearch and MCStores

Each composes eleven machines over one `Next`: a variable (`loop`, `half`) chosen at the start says which
one moves. `GovGreed` and `Store` move together in `half = "feed"`. `SessionIsKept`, `WindowsAreApart` and the other
properties of these modules are conjunctions of the named properties of the machines, each of which is stated
and commented in its own module; every conjunct but the types has a mutant of its own.

## 4. Runs

| run | question | answer |
|---|---|---|
| `accounting` | are closed orders booked once, and at last? | yes between startup and the way out: `NoFillLostOrDoubled`, `FillsGetBooked` |
| `controls` | do kill switch and pause stop what they say? | yes with a registry that answers; no placed order is sent again and no foreign order is traded beside |
| `idempotency` | one order per decision when crashes, registry failures and lost replies come together? | yes, by the broker's `client_order_id`: the table alone does not do it; the runner implements `Decisions`; once blocked it sends nothing but the rest of the batch that found the order table unreadable |
| `unreadable_table` | does a blocked runner send nothing, that batch included? | it is sent whole: the runner blocks itself inside `submit_orders` and goes on with an empty key set |
| `jobs_all` | with every interference, is a job run once, its end true, its result there? | yes |
| `jobs_steady` | with one server and no cancellation, does a queued job end, a finished one stay, the cap bound the workers? | yes |
| `jobs_restart_lost` | does a finished job survive a restart of the server? | no: `status` may write `lost` over `done` |
| `gate` | do the limits hold for batches, sessions, breaker and cooldown? | yes |
| `gate_adds` | does an intent that is not an exit keep its position? | no: with the sector full it is clipped to nothing, which sells it |
| `backtest` | do lots, ledger, fills, budget and decisions stay together over the bars of a run? | yes; the residual is the commission of reversals |
| `search` | is what agents, sweeps, windows, tests and reports say of their runs what the runs were? | yes, in the cases the properties name; the disagreements met are listed below |
| `stores` | do pull, table, registry, findings, journal, cache, clock and daily task keep what they are given, across deaths, races and late readers? | yes, but for the cases the auxiliary variables name |

Types are invariants of the runs `search` and `stores` only; in the other modules they are theorems (section 5).

The violations are described under `findings` in `PROJECT.json`, with the lines they contradict. Met
while modelling and not given a run: a runner that exits with an order half filled takes that half into the book
(runner.py:1178), and should the account then return the order to `poll_fills(since=watermark)`, whose whole
`filled_qty` is booked, the half is booked twice. Whether it does hangs on what the account filters `after` by
(broker_alpaca.py:315), the order's submission or its end; that is not in the repository. Under either reading an order
of the last process that fills between reconcile's `positions()` and the watermark (runner.py:296) is in neither the book nor
any later poll, where runner.py:286-293 says every fill behind the book "has already been counted" and a missed one "is caught
by reconciliation". Nothing saves a `GateState`, so that a live runner
started again has the day's budget and a clear breaker (runner.py:214, gate.py:196); a limit order of a
backtest works until the run ends, since nothing calls `expire_pending` (broker_sim.py:120), and the next
session orders the same target again beside it; the second order of a session for one ticker and side is
dropped as a repetition although it is charged and listed in the decision (runner.py:394-398); a pause flag that cannot be read is answered from the memory of a
process that may never have seen it (runner.py:1278, beside 1269); queued jobs are forgotten by a
restart (jobs.py:127), and workers of the earlier server are not counted in the cap; a worker quicker
than the server's own record of its launch is written back to `running` and then to `failed`
(jobs.py:177); the gate stops exits too under the kill switch (gate.py:470), where runner.py:24-27 lets
them through; a decision the account rejected may be tried again (runner.py:851) but
`client_order_id` gives back the rejected order; a reversing fill's commission is charged to two trades (portfolio.py:156,
beside 230-231). `_patch` has one `.tmp` name for both its writers (jobs.py:115).

Agents: the STOP file is never removed, so the "resumable" session stops again (routes_research.py:234);
`max_minutes` is called a ceiling "for this sitting" but time adds up over sittings (research.py:251-252); a
failed call sets the session's billing to "api" (schemas.py:760-763); budgets are checked against the
session's own counters and not the ledger (schemas.py:1122-1125), so that a crash adds what it made the session forget; a call is let through whatever it
will cost (research.py:1458), though "the session never overshoots a budget it was given" (1453-1454): `SpendBounded` allows
for a part of the last call, and the bounds of `search` let it happen; a finish on a run id the model made up is
accepted without a neighbourhood; a neighbourhood runs the file of that name, rewritten or not; a failed
`claude -p` call drops the cost it reported; the in-loop budget starts again with the process; negative
parameters are counted as not tested by the report but never moved by the plan (neighbourhood.py:49-52).

Judging: the backtest beside a paper run ends a day after the last paper decision, so that a session more may be in its
totals (tools_live.py:149), though it is "over exactly the window the paper run has traded" (4-5); a reset is looked for in the
equity of the compared points (218), so that a fresh book that decides twice on one date reads as "tracks", where 67-70 says
the only things that can differ are those a backtest cannot model; an unreadable benchmark raises `NameError` where the comment says "never a failed loop"
(windows.py:152); "a failed shuffle is not a failed test" (tools_validate.py:344), but in the serial test it is;
`submit` on a pool that broke runs registered points again (sweep.py:494-498), which is `early` in `Sweep`; "beats
the benchmark at every cost level" is said when there is no benchmark (tools_experiment.py:243-253);
`MIN_BLOCK_UNITS` does not bind when the count is one; a trade that spans windows may be in both pooled
halves; `live_vs_backtest`'s "the strategy file has changed" cannot fire, since it reads a field the result
lacks (tools_live.py:226-227); equity exactly at the starting cash is taken for a reset; a torn line of
decisions.jsonl drops the gate section of a digest.

Stores: the files of a partition are unlinked before the merged one is moved in (parquet_io.py:208), so that a writer killed
between loses its rows, under the name of "atomic rewrites" (77); of two writers on one partition the second loses the rows of the first, or both leave a file with the same
facts (parquet_io.py:193, 211), where a re-pull should restate "without growing a second copy" (20-21); a torn gzip member hides the answers after it (raw.py:80-81); the
regular-hours filter takes a stamp for a bar's end where the adapters stamp its start (context.py:85-87);
the strict causality check is skipped while fewer than two rows are visible (context.py:528-531); rows stay
"running" when `on_start` or the writing of artifacts raises, though "a failed run is still a run; record it"
(runner.py:436); permutation tests use the file at the recorded path where the comment says "not whatever file
is on disk" (tools_validate.py:245-246); an update of a finding made from a stale read may undo
"superseded"; `runs rerun --stale` lists the same originals again; 20 and 20.0 are two cache keys.

Tape and clock: a run of the daily task that pulls in the session and decides after the close takes a part of a bar for the
"latest *knowable* close" (runner.py:742; alpaca.py:221 dates it known at the close, cli.py:1344 gives the run an hour); the console's seed reads the oldest rows and then notes the newest seq, so what is between
is never shown (useLiveEvents.ts:111-116, beside "a silent gap" at 6-9); socket frames are parsed as events
though they wrap one; nobody reads the journal's `cancel_orders`; `paper start --once` by hand, without a pull, reads a
bar pulled in its session as final on the next day (alpaca.py:216-224; the script always pulls); a late trigger before the open and the one at 09:35 decide twice in "one session"; bars of a timeframe
that does not divide the session never fire for the last part of it.

### Bounds

They are the constants of the `.cfg` files, and every bound is a guard named after its constant.

- `accounting`: one ticker, orders of up to two shares, one own order and one foreign trade (two entries
  in the log, enough for two polls that overlap), partial fills, one crash or failed call, both modes,
  adopting and not, `MaxErrors` 2 so that an error may be followed by a good step.
- `controls`: two sessions (a cached key set and one that must be read), two orders, positions that
  can be flipped (orders of two shares), one crash. `MaxErrors` 1; no adopting, since an adopted order
  is not one's own.
- `idempotency`: two faults, so that a lost reply may be followed by a failed write or a crash; what blocks a runner (the
  registry, stale data, a book worth nothing) is among them, over two sessions.
- `unreadable_table`: what blocks a runner, alone.
- `jobs_all`, `jobs_steady`: three jobs for two slots, one restart (a second meets nothing the first
  did not: a new server remembers nothing of the one before). Symmetry in the jobs only where no liveness is checked.
- `gate`: three tickers, two in one sector and one of no known sector; three sessions, as long as a cooldown
  of two days and the roll after it; equity in quarters; four portfolios, empty, long, long and short,
  and beyond every cap; a target for an exit, a short and a long; at most three orders charged in a session
  against a budget of two, so that exits overrun it; one restart.
- `backtest`: one ticker (nothing in a fill or a key relates two), two sessions of two bars so that a key is
  repeated within a session and free in the next, a warm-up of one, both places of `process` in the loop,
  three orders of up to two shares (open, reverse and close, or add, trim and close), two prices on either
  side of a gain, a commission of one an order.
- `search`: two runs in a research session and one crash, so that a run may be lost to the session and resumed
  over; four iterations of the author loop under a budget of five; three sessions and a restart in the trading
  loop; ranges of up to 14 slots with blocks of at least three; three grid points, all or two of them run, on a pool that
  dies once, with two scores and none (ties, missing and better); six bars of three levels; three days of
  paper trading in two runs with one book thrown away, so that a reset is followed by a second decision on its date. A
  research session's budget of three is no multiple of the price of two, so that the last call passes it.
- `stores`: two writers on two partitions and one death; a pull of two days with retries of two; two processes,
  two runs, two versions of a file, a deletion and an edit; three findings and three updates by two clients; five events, two
  broken sockets, a ring of three; a window of three bars; six days with one outage and one failed pull around a holiday;
  timeframes that divide the session, that do not, and a daily one.

### Fairness

`LiveRunner!FairSpec` is weak fairness of what the process does by itself: `start` is one loop that
waits for nobody, and a call that fails is one of its actions. Nothing is assumed of the account or
the operator. `JobQueue!FairSpec` is weak fairness of the server within a tool call and of each worker's
tool, and strong fairness of `Status(j)`: the queue is pumped by tool calls only, so that a job ends
only if somebody keeps asking; that is an assumption about clients, and without it `JobsEnd` is false.
It is strong because another call may be in progress whenever this one could begin. `RiskGate`, `Backtest` and the
machines of `search` and `stores` have no fairness: what is checked of them is safety.

Deadlock is checked everywhere: an idle server may always be asked, a stopped runner started, a gate
reset; a backtest that has seen its last bar stays there (`Finished`). Not in `search` and `stores`, whose
machines come to an end: a sweep is ranked, a session closed, a test answered.

## 5. Proofs

Every theorem is for all values of the constants under the assumptions the modules name
(`ConstantsAssumption`, `QueueAssumption`, `RulesAssumption`, `GateAssumption`, `BookAssumption`,
`BacktestAssumption`: finite sets of jobs and tickers, positive sizes and caps; `SearchAssumption` and
`StoresAssumption`: those of the machines they compose, and a partition for every ticker the vendor names), and under the hypotheses it states. Each invariant is split
into parts, each part has a lemma with one case per action, and a theorem puts them together.

**LiveRunner** (`LiveRunnerProofs`). `TypeCorrect` goes by `TypeInv`: `TypeOK` and
`ErrorsBelowMax`, the error count below its limit wherever the loop goes on, without which one more error
would leave its range. A type that is less than obvious: an order cut down under the kill switch still
has a size, because only a held position is reduced (`ClampedQty`). The rest:

| theorem | invariant | needs |
|---|---|---|
| `OneOrderPerDecision` | `OnePerKey` itself, over a lemma that says what each step does to the orders | a broker that refuses a used id |
| `ImplementsDecisions` | `OnePerKey`; each step of the account maps to one `Place`, `Refuse`, `End` or a stutter | the same |
| `KillSwitchStopsEntries` | `KillRead`: in the batch, what was read still holds unless the switch came later | nothing |
| `BlockedRunnerSendsNoMore` | `BlockedIsOut`: a blocked runner is not inside a step, or in the one batch whose reading of the table failed | nothing |
| `PauseStopsOrders` | `PauseRead`: past the reading, a pause is a later one; no row, no pause | registry answers |
| `PlacedOrdersAreNotResent` | `CacheHoldsTable`: the cached keys cover the table's for the sessions loaded, and the batch's own | registry answers |
| `TradesBesideOwnOrdersOnly` | `KnownIsStored`: what reconcile compares with are ids of the table | registry answers, no reply lost |
| `NoFillIsLostOrDoubled` | `PollInv`: the watermark is never ahead of the log nor of the time a poll is made at, what was booked is in the log, and nothing is in hand between two polls | nothing |

`NoFillIsLostOrDoubled` needs what each step does to two sums, of the fills to be booked and of what has filled of working
orders. `CommonProofs` has that for any function: taking one value out leaves the sum of the others (`TotalSplit`), from
the library's facts about finite sets. `LogGrows`, `PartsClosed` and `CloseShifts` say that an order that ends moves what
had filled of it from the one sum to the other, `FetchKeeps` that a poll, although it returns fills that the next one may
return again, changes neither.

The hypotheses are not conveniences: with a registry that fails, TLC violates `NoRefire` and `PauseHolds`, and `client_order_id` is what `OnePerKey` rests on (its mutant drops it).

**JobQueue** (`JobQueueProofs`). `QueueInv` joins the types, `RoomKept` (a launch in progress has a slot),
`Waiting` (a job in the queue is there once, its record says queued, and it has no worker), `Busy`
(what the server is in the middle of: a launched or killed job has had a worker, one whose worker is
looked for has left the queue), `Workers` (a worker belongs to a submitted job, and is done only when its
result is stored) and the two properties themselves. `DoneHasResult` and `OverMeansOver` hold although a
record read before a crossing write is written back, because whoever writes back sets a status of its
own, and only a worker that is done sets `done`.

Two more are about one server (`MaxRestarts = 0`), because a new one knows nothing of the workers it finds.
`CapBoundsWorkers`: by `OwnWorkers` every living worker is in `_running`, or is being launched (`RoomKept`: there
was room) or killed (it just left). `OverForGood` needs more: nobody cancels, and no worker is done before its launch
is recorded (`SlowStart`). Then `Steady` holds: a job being launched has a record nobody wrote since it was queued, a
record that says running has its process in `_running`, so that no worker is looked for, and a job that is over
has no worker left. Without one of the three TLC breaks `OverStays` (`jobs_restart_lost` for the restart).

**RiskGate** (`RiskGateProofs`). Gross exposure is a sum; it is written as the cardinality of a set of units,
so that `GrossSplit` and `GrossStep` follow from the library's facts about finite sets instead of an
induction. `BatchInv` says that the weights a verdict sees are the portfolio with the orders built so
far, so a fact about weights is one about orders; `ClippedFits` says what the clips leave, `ExposureKept` and
`PositionsKept` that no intent takes the batch out of its caps further than the bar found it. `BudgetInv` relates
the orders charged, the entries sent and what the batch may still spend; `BreakerInv` ties the gate's
baseline to the equity the session really began with; `CooldownInv` says a sale the gate has forgotten
is one that no longer matters.

**Backtest** (`BacktestProofs`). The book's invariant `BookInv` is about any fill at any time: types,
`LotsMatchPositions`, no cost without a position, and `Explained`, which is `reconcile` with the value of the
position taken from both sides (`ResidualIsBooked`), so that no product is left in it. `FillLots` and
`FillExplained` have one case for each of `apply_fill`'s: opening, adding, reducing or closing, crossing. They need each
other: the commission of a closed lot cancels only if the lot is the position's. About the loop:
`QueueIsPast` (what `process` looks at was submitted at an earlier bar) gives `NoLookAhead`, `QueueIsSettled`
(what has been looked at and still waits is untraded, limited or held up; with `same_close` the queue was
looked at where its tickers were quoted) gives `DecidesOnSettledBook`, `ChargeCovers` (what is still to submit
stands for what is still to charge) gives `EveryOrderIsCharged`, and `OneOrderPerKey` the refinement of
`Decisions`. `PositionsAreTheirFills` is inductive as it stands: an order the broker takes has moved nothing, a fill moves
its ticker by what it fills (`FillingFills`, by `CommonProofs`). Nothing is assumed but the types of the constants.

`LedgerAgreesWithPositions` and, for the gate, `BatchCapped` put parts together into the properties the runs check.

**The machines of `search` and `stores`.** These runs choose one machine and leave the others as they are, so every
proof starts with a lemma that a step of the run is a step of the machine or leaves it alone (`AuthorSteps`,
`RegistrySteps`, ...), and goes on in the machine's own terms. What the properties say is a conjunction
of what the machine's module states; each conjunct is a lemma from the invariant.

- `LineageMatchesRegistry` (`SearchProofs`): the lineage is not inductive by itself, since the next proposal builds on `prev`
  and not on the lineage. `LoopInv` adds that `prev` is a run of the registry with that code and those
  parameters (or none yet), and what the proposal in hand may be.
- `WalledIn`: `TradeInv` says what the agent has in hand is what its session's call brought, that a session is asked
  once, and that what was paid is at most the calls made times the dearest price (`OneMoreTime`).
  `ValidatedIsWalled` and `ExitsOfValidated` are about the validation: whatever was answered, what is left names
  the universe only, within the caps, and an exit is never dropped.
- `SessionKept`: `SessionInv` relates what is in memory to what session.json last saved. `CallsKept` and `SpendKept`
  bound calls and spend through a crash, after which what was saved is less than what was spent (`ForgottenMore`);
  `LooksKept` says every run of the session is counted as a look, in memory or when it is resumed. The bounds have the
  slack the code has: without a crash calls and looks are exact and spend may pass the budget within its last call;
  each crash adds at most what can be unsaved at once, `LostPerCrash` calls with their price, and one run.
- `AuditsOneBook`: the verdict names the points, the window and the cash it was computed on (`CompareSays`),
  over minima and maxima of sets of days (`MinOf`, `MaxOf`, `LastIsLast`). It says what `live_vs_backtest` does: returns
  over the same sessions, no bar from before the first one, the first decision of a fresh book never a later compared
  point of a run that tracks. What its documentation says beyond that does not hold (section 4).
- `LuckIsAlwaysTested`: `DrawsFill` needs that enough blocks are drawn for every row of the run and that no block runs
  past the end (`BlocksFill`, Euclid's division); `PValueIsCounted` keeps the count of beaten shuffles below the count
  of scored ones.
- `WindowsStayApart`: a block is at least the floor because the number of blocks was cut down until it is (`KMax`) and an
  edge is a rounded product (`BlocksKeepFloor`, by Euclid's division); `Apart` says that the edges grow, that a
  training window ends an embargo before its test begins, and that a slot has one label, so that what is pooled, held
  out or traded belongs to one window. About the halves of a run, `MeasureInv` says of each row what was in hand when it
  was measured (`InHand`, `HeldOut`, `RowSays`): the cut is the one fixed before the run, and the market's
  first bar is the run's.
- `SweepStaysWhole`: `SweepInv` says which points may have a future or a result (only chosen ones), that a point the pool has not
  taken is not registered, and that outside `early` what the serial loop runs was never started. The ranking is a sort
  given by how many rows come before one; that it is a bijection of rows and ranks is `PlacesTaken`, for any strict linear
  order: fewer come before what comes before (`FewerAhead`), so that places differ, and by the pigeonhole principle each is
  taken. `RowsSorted` and `PickSays` follow from it.
- `RegistryIsAlwaysKept` (`RegistryProofs`): `CodeInv` says for every process how far it is and what it has loaded, read and
  written, so that the archive's hash and source are what was executed, but for runs whose file changed
  between execution and reading back; from it `OkRunsHaveTheirCode`, `GoneCodeIsInTheArchive`, `PromotedCodeIsWhatRan`.
  `CountInv` is about cardinalities: rows and deleted ids together are the runs started, and the attempts of a file are one to
  their number while nothing was deleted (`LooksAreCounted`, `AttemptsAreInTurn`); `CloseCounts` carries both
  over the closing of a row. `SweepInv`: what a sweep of reruns has done and has still to do is
  what it was asked. `FindingInv`: a claim's history is what its updates made it.
- `RecordsOnlyEverGrow`: `RecordInv` joins those to `TrialInv` (the trials a claim answers for are the looks at its data)
  and to what is known of the quota and of the journal; the rest is a fact about each step.
- `CachesAreTrue` (`StoresProofs`): `CacheInv` says every file, under its own name or a temporary one, holds the series its name
  stands for (`Held`), and a caller that is done has the series of its key (`Given`). A file renamed or unlinked by
  another thread keeps that, because both write the series of one key.
- `TapesAreWhole`: `TapeInv` says what is before the cursor was shown, skipped by the seed or filtered out, and that
  what is in hand comes after it in order; `BrakeStep` keeps the breaker on the screen.
- `ReadsAreTimely`: what is read at `now` is a prefix of the frame by the bars' order, so that the window ends before the first
  row not yet known (`WindowOfKnown`, `WindowIsRead`), a mean that looks back is the same over it (`SliceIsKept`), and an
  aligned series holds a newest signal known by its bar (`AlignedIsLast`).
- `DataStaysKept`: `FeedInv` is one half about the pull, one about the table. `GovInv` says that the calls made and those that
  may still come, a look-up for each ticker the first list may name included, fit the budget (`Budgeted`: every attempt
  counts against the request it is made for, `BudgetStep`), and that what is in hand is what the day's files give, refused
  answers giving nothing (`Pulled`, `OthersToo`); days to come have no file (`Blank`), or a new pull would find more than it
  asked for. `StoreInv` says what a row may be wherever it is (`Table`, `Hands`: a fact of its partition, and without
  half-written files one that a saved answer gives) and, for each partition until a writer dies in the middle of it or
  meets another there (`hurt`), `Calm`: it has one file at most with one row for a fact, and who rewrites it is alone,
  has all of it in hand and will remove just that. A hurt partition is exempt from then on, which is the rows a
  killed writer takes with it; that the others go on losing nothing is what the theorem adds. `NothingLost` and `OneRowPerFact` are not inductive without it: the files found at the read are
  removed after the list, and only `Covers` says they are still the same. A partition's name is part of the identity
  (`FactIs`), so that two partitions never hold the same fact.

- `DecisionsAreOnTimeAlways` (`RegistryProofs`): the clock's next fire is the next moment due (`NextDailyIsNext`,
  `NextIntradayIsNext`: a session comes within a week of any day, `SessionAfter`), because the table of a year's holidays is the rule
  applied to a day (`HolidaysOfYear`, `HolidaysApart`) and every day is in one year (`DayHasYear`). That Easter is the Sunday after
  the first full moon of spring (`EasterByTheMoon`) is proved of the computus for every year: the epact is that of the moon's age,
  with the two corrections a century brings (`LunarCorrection`, `SolarCorrection`), and the Sunday is the first after it
  (`SundayOfMoon`). `DailyInv` says that a bar that was still running when it was pulled is of the session under way, in the hands of a run
  that began in it (`RunIsShort`), so that only that run can decide on it, after the close (`RunningCrosses`); that few
  sessions are missing from what a decision reads (`FewAreMissing`); and that a machine that is on has begun a run since the
  newest trigger or had one under way at it.
- `DigestIsTrueAlways` (`SearchProofs`), four invariants of machines that never touch each other. `CurveInv`: the loop's
  `since`, `high` and `longest` are those of the curve so far (`KeptRight`); a bar is below the high, at it, or ends a stretch (`BarBelow`,
  `BarKeeps`, `BarEndsLongest`), so that the duration is the longest (`DurationRight`) and the deepest episode is first
  (`EpisodesExplain`). `LedgerInv` and `LinesInv` carry types only: expectancy and attribution are sums of one function
  over sets that partition the trades (`TotalParts`: `ExpectancyRight`, `AttributionRight`), and a gate section
  counts lines by verdict (`GateRight`). `TestsInv`: the runs of all rows, numbered off, are different looks (`VariantsAreLooks`, an
  injection), and what is told of a row is bounded by the extremes of its scores (`ReadingsRight`, `NoiseRight`).
- `ReportIsEarnedAlways` (`SearchProofs`): `NearInv` says that what was tried is the plan as far as it went. `PlanIs` reads the
  plan as numbers: first every move down, then every one up, each parameter once in a pass (`NumberIs`), so that no move is made
  twice (`NoneTwice`) and, with nothing below zero, the runs asked for are all there are (`PlanRight`). `CoverageNeeds` counts the
  other way: a run of every parameter and another, up, of every one that is no switch. A median is below the line when most
  scores are, and only when half of them are (`MedianOfMajority`, from the kth value of finitely many, `NthExists`).

Only model-checked: `FillsGetBooked` and `JobsEnd` (liveness, which the prover cannot do); and what is violated:
`BlockedSendsNothing`, `FinishedSurvives`, `EntriesKeepPositions`.

## 6. What is not modelled

- In LiveRunner: prices, cash and equity; alerts and the journal; `acknowledge`, which nothing in the
  tree calls; the SimBroker path of `_poll_fills`; a second runner on the account; `on_start`, which is not
  tried again when it raises.
- In JobQueue: the shared `.tmp` file of `_patch`, so that a half-written record is never seen; a pid the
  system gives away again; the arguments and the messages of a job.
- In RiskGate: the set of order ids that keeps a resubmitted order from being charged twice (the loop
  builds each order once); a restored `GateState` (tests only); float tolerance and share rounding; rule names and
  wording; orders that work at the broker and are not filled (left in step 5 of the plan).
- In Portfolio and Backtest: slippage, returns in percent, bars held, turnover and exposure; what
  `on_start` and `on_fill` ask for, which `reset_bar` throws away; an exception in a hook, which ends the run;
  `cancel`, `cancel_all` and `expire_pending`, which nothing in a backtest calls; the journal, the metrics and
  the artifacts of a run; fractional shares.
- In Research, AuthorLoop and InLoop: prompts, the text of hypotheses, the refusal of a contaminated pick (no experiment
  with a run is); the refusal of a seed; the smoke test of a model's file.
- In GovGreed and Store: how a record's fields are parsed, paging; columns and types of a frame.
- In RunRegistry: metrics and hashes of configs; a run id is its number, so two runs in one second do not meet.
- In Sweep and the judges: the arithmetic of scores (a score is a choice), the coarse screen's own backtest
  (its order is a choice), what standard error a score has.
- In EventTape: rendering; more than one console. In WallClock and DailyTask: daylight saving, half days, the
  Windows scheduler but for what it may do to a trigger.
- Parts with no state of their own (reading routes, configuration, indicators' arithmetic, most tools) and pure
  I/O are listed in `PROJECT.json` with the reason.
