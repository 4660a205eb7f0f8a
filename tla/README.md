# A TLA+ model of the stock-trading operator

This directory holds a formal model of this repository: the order journal, the
operator that trades through it, the ledger of executions, the background
supervisor, the live pilot's loss limits, the move of the runtime directory, the
prospective evidence, the session's schedule and the backtest engines. TLC checks
the modules on small instances; TLAPS proves the theorems for every value of the
constants. `PROJECT.json` lists the components, the runs, the mutants that show each
property can fail, the source lines of every definition, the finding, the hazards
and the theorems.

## 1. Inventory: the system

| Component | State it keeps | Operations | Hard parts | What makes it correct |
|---|---|---|---|---|
| Order journal (`journal.py`) | `bot_state.json`: keys, intents, authorizations, tracked stops, halt; `fills.csv`: executions with broker cursors | reserve, record, mark, retry, latch, reset, each under an OS file lock | crashes between two files; keys written by two parties | no order without a durable intent; the daily cap; one chain of exit attempts; the halt never released |
| Operator (`live.py`) | positions of the last refresh, the plan in progress | `run_once` (signals), `run_risk_once`, revalidation, submission | state read before a broker call and used after it; errors that end a cycle half way | never more shares on offer than held; no entry after a halt or a pause |
| Broker adapter (`alpaca_integration.py`) | last account view | submit, cancel, replace, look up, list | unanswered, lost and late requests; asynchronous cancellation | one broker order per client order id; a retry only after the attempt before it is dead |
| Synchronization (`reconcile.py`) | none | import executions, compare holdings | lagging lists, partial fills, orders replaced at the broker, several processes | every execution booked once; a mismatch stops trading |
| Protective stops (`cli.py`) | tracked stop of each symbol | `_alpaca_protect` | two reads of the account; GTC stops that outlive the day; rounding to cents | a held symbol is covered, and by one sell order only |
| Session loop (`cli.py`) | timers, date, error count | risk, protect and signal cycles, bounded retry, waiting | cycles that fail at any point; buffers at open and close | one signal pass a date; protection keeps up |
| Portfolio (`portfolio.py`, `risk.py`) | none | plan and size orders | rounding, caps, gaps | limits of a plan |
| Supervisor (`paper_app.py`, `runtime.py`) | `control.json`, `supervisor.json`, STOP | Start, Stop, Resume, status, worker restarts | several processes, stale files, kills | a user stop wins; one manager, one worker |
| Live pilot (`live_trading.py`, `fx_budget.py`) | `live-risk.json`, the cached reference rate | start, loss baseline in EUR, entry gates | cash flows, corrections, day changes, a failing rate feed | losses beyond the policy latch the halt; no entry on an unverified account |
| Runtime directory (`runtime_paths.py`, `atomic_storage.py`) | checkpoint, copies, redirect | migrate, resolve, lock | a kill in the middle of a copy; commands beside it | one authoritative journal, no record lost |
| Simulation (`engine.py`, `research_accounting.py`, `broker.py`) | cash, positions, pending orders | backtest, plain and with corporate actions | gaps, splits of positions that are on sale, order of exits and entries | limits at the opening marks; splits and dividends are neutral |
| Evidence (`evidence_*.py`) | registration, revisions, HEAD | register, extend, status | revised history, kills between files | a committed past never changes |
| Research, strategies, data, desktop, reports | files they write | offline analysis, display | none that is concurrent | numerical |

How they interact: the supervisor starts one worker process; the worker runs the
session loop, and each cycle builds a broker adapter and a `TradeJournal`,
synchronizes the broker's orders into the journal, reconciles holdings, and then
plans and submits. All durable state is files; processes meet only there, under
OS locks, and at the broker. The live pilot runs the same session loop on a journal
and locks of its own.

## 2. Modules

    OrderJournal <--EXTENDS-- Execution --INSTANCE--> ShareCustody
                                  ^
                     ExecutionProofs, MCExecution <-- MCExits

    FillLedger --INSTANCE--> ExactlyOnceLedger      Supervisor
         ^                                               ^
    FillLedgerProofs, MCFillLedger              SupervisorProofs, MCSupervisor

    PaperAccount <--EXTENDS-- TradingEngine
         ^                        ^ INSTANCE
         '------EXTENDS------ ResearchEngine <-- MCResearchEngine,
                                                 ResearchEngineProofs

    LiveRisk <-- MCLiveRisk, LiveRiskProofs
    RuntimeMigration <-- MCRuntimeMigration, RuntimeMigrationProofs
    EvidenceTrial <-- MCEvidenceTrial, EvidenceTrialProofs
    Session <-- SessionProofs

Each describes one component on its own; what another component does appears in it
only as far as the two meet. `Session` has one position and leaves orders to
`Execution`; `Execution` has one cursor per order and one synchronization at a time
and leaves the rows and the concurrency of synchronizations to `FillLedger`;
`Supervisor` has a trading worker as a lock holder and leaves its cycles to `Session`.

### The journal and the operator

**OrderJournal** is the journal alone. Each action is one locked method of
`TradeJournal`, or one iteration of `sync_broker_orders`; what the broker reports
is an input, consistent with its history or not. An order key `date:symbol:side`
is a triple, a client order id a key and an attempt, so `bot-2026-01-05-spy-sell`
and its `-retry-2` are attempts 1 and 2 of one key. `fills.csv` is one cumulative
cursor per order. `record_broker_order` and its callers write `fills.csv`
first and the state file after it; `InterruptedSync` is a crash in between, and
`InterruptedReset` a crash between the renames of `reset_for_account`.

**Execution** puts one operator process and the broker around it. The variable `pc`
names the next step of the command in progress; a step is one broker round trip or
one journal method, so that fills, cancellations, expiries, pauses and crashes fall
between any two of them. The correspondence is:

| Code | Actions |
|---|---|
| `sync_broker_orders` | `SyncOrder`, `SyncDone`, and `FinishOrder` after an archive |
| `reconcile_positions` | `Reconcile` (against `Ledger`) |
| `run_once`, `run_risk_once` up to the plan | `Assess`, `CancelBuys`, `BuysCanceled`, `BuysUnconfirmed`, `HaltSynced`, `Plan` |
| duplicate filter and `_prepare_risk_exit_retry` | `Filter` (`PrepareRetry`, `DropDuplicate`, `KeepOrder`) |
| `_submit_order`, sell part | `BeginSell`, `SellsCanceled`, `SellsUnconfirmed` |
| `_revalidate_buy`, `_buy_control_rejection` | `BeginBuy`, `Revalidate`, `BuyControl` |
| `reserve_order`, `broker.submit`, record | `Reserve`, `Lookup`, `Send`, `RecordSubmission` |
| `_alpaca_protect` | `ReadPositions`, `ReadOpenOrders`, `KeepStop`, `ReplaceStop`, `ChooseStop`, `SendStop` |
| an exception, the end of a cycle | `Leave` |
| `_reset_state` | `ResetReadsPositions`, `ResetReadsOrders`, `ArchiveJournal` |
| the broker, the calendar, the user | `Fill`, `EndOrder`, `Arrive`, `NextDay`, `SetPaused`, `Crash` |

`Faults` selects what the environment may do besides filling and cancelling:
`crash`, `lost_request`, `lost_response` (accepted, and both the answer and the
lookup after it fail), `late_request` (arrives after the lookup answered 404),
`list_lag` (closed orders missing from the list), `fill_between_reads` (a sell order
executes between the two reads of `_alpaca_protect`), `busy_reset` (below).
`Commands` selects what the session or the user starts.
Quantities are whole shares; prices, signals, quotes and equity are choices; the
active statuses the code treats alike are one value, and so are the retryable ones.

`reset-state` is a process of its own: without `--submit` it takes neither execution
lock (`cli.py` 401-403). It reads the positions, then the open orders, then archives
(`reset` is how far it has come), and a cycle, a fill or a crash may come between any
two of these. With `busy_reset` it runs at any moment of a cycle and while a request is
on its way, so that what the cycle has read of the old journal meets the new one:
`Overtaken` says what that is, a synchronization that has visited some of its orders or
made the first of its writes about one (`archived`), or an order found to be a duplicate
whose retry then finds no attempt to follow. Without `busy_reset` a user resets only
between commands and with no request on its way (`Quiet`).

**ShareCustody** is what the operator promises about the shares it holds, without
journal, cycles or retries: one sell order per symbol, for no more than is held.
`Execution` implements it under the mapping `Custody` (holdings are the broker's,
offers are the sell orders that are live or on their way).

### The ledger of executions

**FillLedger** is synchronization in detail: the requests of `sync_broker_orders`,
then one locked method at a time for every order, with the rows of `fills.csv`, and
any number of processes that do it at once. The worker synchronizes under the
execution lock, but `PaperApplication.refresh_broker` (the desktop's Refresh, Start
and the manager) does so without it, so each process (`Readers`) has its own list of
orders, of its own age. `StartSync` reads the journal, `ListClosed`, `ListOpen` and
`Lookup` are the three requests, and for each order `RecordOrder` (or `Refuse`, an
error), `MarkSubmitted`, `UpdateOrderStatus` and `MarkSynced` are the locked writes.
`Crash` ends a process between two of them, `InterruptedRecord` inside the first.
The broker keeps for each order the cumulative value after its first, second, ...
share, so a report is a position in that sequence; `Correct` is a bust or a repricing
of the last share. Rows without an order id, written by the version without cursors,
are `legacy`.

`Replace` is a stop that the broker replaced by an order with an id of its own
(`Successors`, `links`); whether the journal already tracks that id when a process
starts is a choice, since the worker may have died before `mark_protective_order`.
`BeginImport` keeps the orders that `Owned` finds to be the operator's, by name,
tracked id or link, and `RefuseHistory` is the error for a replaced order that had
executed. The broker of the model changes neither symbol nor side of a chain and
hands no executions on to the successor, so the error for those is left out.

**ExactlyOnceLedger** is what the ledger promises: it books the executions of an order
in order and once each.

### The supervisor and the session

**Supervisor** has application, manager and worker processes, the two files and the
STOP file they talk through, and the four locks (`control`, `manager`, `execution` of
the directory, `paper-execution` of the user), which a dead process loses. `app`,
`manager` and `worker` say where each process is.

| Code | Actions |
|---|---|
| `start` | `StartCheck`, `StartLock`, `StartPreflight`, `StartClear`, `StartEnable`, `StartLaunch` |
| `resume` | `ResumeCheck`, `ResumeLock`, `ResumeLaunch` |
| `stop` | `StopDisable`, `StopTouch` |
| `status` (tries the locks for a moment) | `ProbeManager`, `ProbeWorker`, `ProbeEnd` |
| `supervise` | `ManagerBoot`, `ManagerCheck`, `ManagerSpawn`, `ManagerPoll`, `ManagerClassify`, `ManagerRetry`, `ManagerRaises` |
| `_fail` | `ManagerFail`, `ManagerDisable` |
| the worker, from `alpaca-session` to its STOP check | `WorkerBoot`, `WorkerTop`, `WorkerCycle` |
| kills, time | `AppKilled`, `ManagerKilled`, `WorkerKilled`, `Tick`, `Expire` |

**Session** is `_run_alpaca_session_loop` on a clock: `ReadClock` (with waiting for the
open), `RiskCycle`, `ProtectStops`, `SignalDue`, `SignalPass`, `FallAsleep`, `Sleep`,
each of which takes time, may fail and is retried up to `MaxErrors` times. Of what
the operations do it keeps one position and when it lost its stop, and the price of
that stop: what `_alpaca_protect` wants, in tenths of a cent, and what the broker has,
in cents.

### The live pilot

**LiveRisk** is one refresh of `AlpacaLiveBroker` request by request (`ListBefore`,
`ReadAnchor`, `ListAfter` for the first one, `List` and the account read in
`Evaluate` for the others), the observation of the risk (`Observed`, `Marked`,
`LimitReached`), the three separate writes (the halt latch, `WriteBaseline`,
`MarkInitialized`), and the entry that follows if `BuyRejected` finds nothing
(`Reserve`, `SubmitEntry`, `ProtectionUnconfirmed`). `Start`, `Preflight` and
`StartBlocked` are `live_trading run` up to its session. The broker's account is
external: `Market` moves the assets, `Book` and `Correct` the activities; both act
only before a request that would see it, since a change that nobody reads before
the next one is the same as no change. A STOP request, too, comes only before a
moment that reads the file. The reference rate is one per date; the feed may fail and
leave the cached one.

### The runtime directory

**RuntimeMigration** is `ensure_runtime` as the application calls it: `Lock`, `Inspect`
(the conflict checks), `WriteCheckpoint`, `CopyFile` for one file at a time, `Verify`,
`Commit` (the redirect), and `Abort` at any of them; beside it run submitting commands
(`StartCommand`, `CommandWrites`), which hold the locks of the journal they resolved,
reports that write without them, and a person who creates STOP files. A file is the
set of records in it. Acquiring the state lock of a journal is one step with what is
done under it, since nothing else happens while it is held.

### The evidence

**EvidenceTrial** is `ForwardTrial`: `Register`, `BeginUpdate` with any replay prefix
(`Prefixes`), which `Extends`, `CalendarExtends` and `Readable` accept or refuse, and the
three files `WriteJson`, `WriteCsv`, `ReplaceHead`, with kills between them (`Between`)
and within them (`Tear`). A digest is what it digests. The collection that
`evidence_update` does before is an input: an update may bring any prefix.

### The backtest

**PaperAccount** is `broker.py` and the planning of `portfolio.py` as operators on an
account; **TradingEngine** and **ResearchEngine** are the loops of `engine.py` and
`research_accounting.py`, one phase of a day per action (`Dividends`, `Splits`,
`ExecuteOrders`, `BarStops`, `Assess`). Money is in whole ticks; percentages are
compared exactly. Which symbols the strategy buys or sells is a choice of a day. The
class comment of the research engine says "Same strategy/risk planning as
TradingEngine": `SameAsTradingEngine` is that as a refinement.

## 3. Runs

Passing runs:

| Run | Question | Instance |
|---|---|---|
| `exits` | can an entry, an exit, its retries and a stop sell the same share twice; does the journal trail the broker; is every step one of `ShareCustody`? | one holding of 2, crash, lost requests and answers, lagging list; resets at any moment of a cycle, apart from the stops (`MCExits`) |
| `entries` | does the cap hold at the broker, what is sent after a halt, has every live order an intent, does a pause bound entries; is every step one of the journal (`JournalDiscipline`)? | two symbols, one held, cap 1, pause, resets between commands, crash, lost, unanswered and late requests |
| `liquidation` | can a retry run beside a live attempt, do all attempts of one exit stay within the first, does a latched halt liquidate? | one symbol, up to 3 shares, two dates, fair scheduling |
| `positions` | is a synchronized journal equal to the holdings; are corrections of booked executions noticed? | a stop of 2 shares that the broker may replace, an entry and a stop of the version without cursors, one process, crash, corrections |
| `catch_up` | what do concurrent synchronizations book, is an intent closed before its shares are booked, does a refused synchronization catch up? | an entry of 2 shares and its exit, two fair processes, crash, lagging list |
| `supervisor` | one manager and one worker, a stop that lasts and that ends the trading | two each of applications, managers and workers; one kill or exception |
| `live_risk` | does a loss halt, do flows count once, what do entries go out on? | two asset values, two rates, one cash flow, two days, one crash or deletion |
| `migration` | is a record lost, does every path resolve, can an interrupted copy be resumed? | three directories, applications in three directions, a command, a report, STOP files, two records |
| `evidence` | does a committed past change, is every committed revision whole? | two sessions, two cohorts, three revisions, one kill |
| `backtest` | are a halt's holdings sold, do opening buys keep the limits, are corporate actions neutral, do the two engines agree? | two symbols, five sessions, two corporate actions |
| `session` | one signal pass a date; how long is a position without a stop? | two dates, an early and a late start, one failure |

One run shows a disagreement between the code and what it says:

* `one_cent`. `_alpaca_protect` replaces a live stop only when the wanted price is
  more than a cent above it, and otherwise has it confirmed against the wanted price
  rounded to a cent. A wanted stop between half a cent and a cent above the live one is
  neither raised nor accepted; the error is repeated with the same prices and ends the
  session, although no request failed.

### What the properties leave out

Some behaviours are reachable that a reader may expect the properties to exclude. They
are hazards of `PROJECT.json` with a note, and the instances or the properties are
stated so that they do not hide in them:

* *A stop for shares that are gone.* `_alpaca_protect` sizes a stop by the holdings of
  one refresh and decides that no sell order is open by a later list. A sell order that
  executes in between leaves a stop for shares no longer held: `submit` refreshes the
  holding before a sell, `submit_protective_stop` does not. `Execution` has it as the
  fault `fill_between_reads`; no passing run includes that fault, and
  `ExitsWithinHoldings` is claimed without it.
* *A stop withholds the exit of its day.* Synchronization marks the key
  `date:symbol:sell` for a stop that was submitted that day. When the halt latches later
  that day, the exit of the symbol is dropped as a duplicate. `HaltLiquidates` is
  checked without stops placed the same day; and without crashes, since an
  entry that was reserved and never sent makes the halt's cancellation raise until a
  person reconciles.
* *A reset beside a cycle.* `reset-state` takes no execution lock. When it archives the
  journal after a synchronization and before the duplicate filter and the count of BUY
  keys, a second entry of the date goes out in spite of the cap; when it archives between
  `reserve_order` and `submit`, an order is live without an intent; and when a request of
  before it arrives later still, a second entry is outstanding, also after a halt. TLC
  refutes `EntryCapAtBroker`, `LiveOrdersHaveIntents` and, with `late_request`,
  `HaltedSubmissions` and `TypeOK` when `busy_reset` is added. They are
  stated, checked and proved for resets that disturb no cycle; what holds in spite of
  `busy_reset` is in `exits` and in the theorems under `NoStraggler`. When the archive
  falls between the writes about a filled stop, the new journal marks it as synchronized
  without its execution and skips it from then on, which `list_lag` stands for.
  `FillLedger` has one journal from beginning to end.
* *A correction seen by two processes.* `CorrectionsNoticed` is checked with one: a
  second one with a list from before the correction may book it again, and only the
  next synchronization notices. A bust of everything that an order had executed is a
  report without executions, which is skipped like that of any order that never
  executed (`WhollyBusted`); the properties are about reports that still have shares.
* *An error that is not one.* A process with an older list than the one that booked
  before it raises "Broker fill quantity regressed", although the broker reported
  nothing less than before: the worker retries, but the manager stops and waits for a
  person. `CatchesUp` shows that retries get past it.
* *A partly executed stop that was replaced.* Every synchronization that lists both
  orders refuses. `CatchesUp` exempts it.
* *The application after an interrupted migration.* `ensure_runtime_if_needed` takes
  the checkpoint for completion although the redirect is written last. After a kill in
  between, the application works in the partial copy and the commands in the old
  directory. `AppUsesAuthority` states the opposite and is no invariant: TLC refutes it
  when it is added to `migration`.
* *STOP in a directory that has moved.* The session looks for STOP in the directory it
  resolved before the locks.
* *An exit that works without a stop.* In `Session` an exit attempt leaves the position
  protected, exposed or sold. An accepted exit that is still working while its stop is
  gone, for which the stop synchronization skips the symbol (`cli.py` 953-964), counts as
  one of these. Failures are RuntimeErrors, the only ones `_session_retry` repeats
  (`cli.py` 786); any other exception ends the session at once.
* *Live trading without a baseline.* A journal that was used and lost `live-risk.json`
  is refused by two guards (`MayInitialize`, `Preflight`). No property restates them,
  and `LossHalts` begins its history again with a new baseline.
* *The close of the market.* A market that closes between the clock of a cycle and its
  risk check makes every attempt fail: the session ends as failed (`error = "closed"`).
* *A late STOP at the broker.* A stop request that arrives after its lookup answered 404
  is live beside a second one; `late_request` is in `entries`, which places no stops.

### Bounds

`exits`, `entries`, `liquidation`: one or two symbols are enough because the code
treats symbols independently except for the daily cap and the cancellation of entries,
and the run about those (`entries`) has two. One share lets an order fill or not; two
let it fill partly; three let two successive attempts fill partly (`liquidation`).
Attempts are bounded by the code itself (3 exits, 4 stops a day). A cap of 1 makes the
second entry compete with the first. `pausedBuys` is the only counter and is
bounded by the orders of the instance. Two dates give an exit of a new day beside the
spent attempts of the day before; the three-day cooldown spans both. A GTC stop that
outlives its day is in no run with partial fills on two dates: that instance is too
large.

`exits` has stops and resets at any moment of a cycle, but apart from each other, since
both together are more states than a run can have: the state constraint of `MCExits`
lets the journal be reset beside risk and signal cycles, before the first stop and with
at most three orders at the broker (an entry, an exit and its retry), and lets a
protection run while the journal knows every order the broker has. Every other step is
free, and the theorems have no such bound.

`positions`, `catch_up`: one symbol, since positions are sums per symbol; two shares
for partial fills, two prices for corrections. `supervisor`: two processes of a kind
for every exclusion, one tick of the restart window and a budget of two for the
budget's end; one fault is a kill or an exception at any step. `live_risk`: the values
are chosen so that one move of the assets reaches the daily limit, a move with a rate
change the total one, and a flow would reach it if it counted as a loss; `Scale` is a
multiple of every rate, so that nothing is rounded. `migration`: the three applications copy along a chain and back, which is
what could close a cycle; one ledger file and STOP are two files, the least to be
interrupted between. `evidence`: three revisions are a chain with a parent that has a
parent. `backtest`: a warm-up day and four on which a plan, a gap, a halt and a split
follow each other; prices divide by the ratios of the splits, except where the fraction
is the case. `session`: a day is 18 units long with the market open for 16, a failure in
each operation, and starts in and outside the opening and closing buffers.

Deadlock is not checked in any run: each instance ends when its attempts, days,
revisions or records are used up, or when a session or a supervisor has ended.

`TypeOK` is checked by `exits` and `catch_up`; TLC finds that of every other module to
hold, too, when it is added to the run of that module.

### Fairness

`liquidation` assumes that a cycle in progress goes on (`WF` of `CycleStep`: the
process runs and every request returns or times out), that the session starts risk
cycles again and again (`SF` of `BeginCycle("risk")`: the loop of
`_run_alpaca_session_loop` begins every round with one, and other commands only
delay it), and that the broker ends every DAY or IOC order and every order whose
cancellation it accepted (`WF` of `Ends`). No fairness is assumed of signals,
pauses or of the execution of a stop.

`catch_up` assumes that a synchronization that has begun goes on and that its caller
begins another (`WF` of `SyncStep`): the session retries a failed cycle and starts the
next one on a schedule. `CatchesUp` has the hypothesis that crashes end.

`supervisor` assumes that managers and workers that are not killed go on (`WF` of
`ManagerStep` and `WorkerStep`: their loops wait for bounded sleeps, bounded retries and
each other only) and nothing of applications: a user need not finish anything.

## 4. Proofs

The theorems hold for every value of the constants that satisfies the assumptions of
the modules, and nothing else is assumed:

* `JournalAssumption`: finitely many symbols, dates are numbers, the cap and the
  largest quantity are positive. `ExecutionAssumption`: besides the kinds of faults and
  commands, opening holdings of at most the largest quantity and at least one date
  (without one the broker has no date to be on);
* `LedgerAssumption`: order sizes and prices are positive numbers, successors are stops;
* `SupervisorAssumption`: the kinds of processes are disjoint, the window and the
  budget are positive;
* `LiveRiskAssumption`: a valid policy, positive rates that divide `Scale`;
* `MigrationAssumption`: no application moves a directory onto itself, names differ;
* `TrialAssumption`: cohorts are dates, there is at least one;
* `AccountAssumption`, `ActionsAssumption`, `MarketAssumption`: what `BotConfig.validate`,
  `SplitEvent`, `DividendEvent` and `validate_market_data` enforce, and finitely many
  symbols;
* `SessionAssumption`: what `_validate_runtime_args` enforces, opening hours within the
  day, and that operations have a longest duration.

A theorem that needs more says so as a hypothesis, and for each hypothesis TLC finds a
violation of the property on the same module without it. These are facts about the code
as much as about the proof:

| Hypothesis | Theorems | What happens without it |
|---|---|---|
| `NoCorrection` (the broker corrects no execution) | `BookedIsReported`, `RowsAreChained`, `LedgerBooksOnce`, `TerminalIntentsAreBooked` | a bust takes back what was booked |
| `NoLag`; `OneProcess` or no corrections | `CorrectionsAreNoticed`, `PositionsAreSynced` | a closed order that the list omits is not asked for; a second process with an older list books a correction again |
| `LegacyKeysApart` (an order without cursors shares its key with no other) | `PositionsAreSynced` | its rows pass for those of the other order |
| `CountsAll`: `NoReset`, or `NoLag` and `ResetsApart` | `EntryCapHolds` | the new journal does not learn of an entry that the list of closed orders omits, or the cycle synchronized into the old one, and counts one less |
| `Undisturbed`: `NoReset` or `ResetsApart` (nobody resets while a cycle or a request is on its way) | `LiveOrdersAreKnown` | the journal is archived between the reservation and the request |
| `NoStraggler`: `NoLate` or `Undisturbed` | the other theorems about `Execution` | a request of before the archive arrives after it, and the new journal has no intent that stops a second entry, before or after the halt |
| `NoReset` | `ChainNeverOversells` | the new journal knows no earlier attempt and starts the exit anew |
| `NoLate` and `NoRace` | `ExitsAreHeld`, `CustodyIsKept` | a late STOP is live beside a second one; a stop is placed for shares sold between the two reads |
| `IntervalSpansSession`: `SignalInterval` and the opening buffer are as long as the session and an operation | `OnePass` | the next pass comes due again before the close |
| `NightOutlastsRetries`: all attempts at an operation take less than a night | `OnePass` | a risk check that was begun on one date succeeds on the next, and the pass is made with the clock of the day before |
| at most five directories | `FiveDirectoriesResolve` | six can form a chain of five redirects; `resolve_journal_directory` follows four |

### The journal

The first part of `ExecutionProofs`, for any symbols, dates, cap and quantities:

* `JournalTypeCorrect`: types are inductive as they stand.
* `ExitChainHolds`: `ExitChain` alone is not inductive, since an authorization lets
  `reserve_order` skip the check of the key. Together with `AuthorizationSound`
  (an authorization points just behind the end of its chain and for no more shares)
  it is. The lemmas `ChainUnderReserve`, `ChainUnderAuthorization` and
  `ChainUnderStatus` are the three ways a step touches a chain.
* `DailyBuyCapHolds`: the code compares the number of submitted keys with the cap, the
  property counts intents. `CapInv` adds `IntentsHaveKeys`, so that keys bound
  intents (`ReservedBuysCounted`); `AuthorizationSound` excludes a BUY that would
  pass without a new key.
* `JournalDurable`: an action property; one case per action, with types as the only
  invariant.

### The operator and the broker

The rest of `ExecutionProofs` is about the composed system, with all seven faults, pauses and
resets unless a hypothesis excludes one. Its base is `ExecInv`, which joins the
journal's invariants with six parts about the composition:

* `MemoryInv`: what the operator has in hand at each `pc`, and for which date;
* `BrokerInv`: what an order of each status may have executed;
* `KnownInv`: an order that is live or under way has an intent, unless a reset disturbed
  its cycle, and one about to be sent is not at the broker yet;
* `RestInv`: a reset that disturbs nobody finds no cycle and, when it archives the
  journal, no order that may become live any more;
* `BuyInv`: at most one entry is outstanding. `TypeOK` alone is not inductive without
  it: a holding stays within `MaxQuantity` only because a second entry is never sent
  while one can still execute;
* `JournalTrailsBroker` itself.

`OrderMoves` and `JournalMoves` say once what any step may do to an order of the broker
and to the journal (a table of kinds of moves); `StepSplit` sorts the steps of the
operator. `ExecInductive` follows part by part, and from it:

* `ExecutionTypeCorrect`, `JournalTrails`, `LiveOrdersAreKnown`: parts of `ExecInv`;
* `OperatorKeepsJournal`: `Spec => JournalSpec`. Each step that changes the journal is
  one of its actions, so the theorems about the journal hold of the composed
  system; `JournalIsDisciplined` adds that it is applied to the order at hand or to a
  report that the broker can give;
* `RetriesFollowDeadAttempts`: from the chain of the journal and `JournalTrailsBroker`;
* `PauseBounds`, by `PauseInv`: an entry at `reserve` passed its check, and no entry has
  been counted since the pause;
* `HaltBlocksEntries`, by `HaltInv`: at every step of a latched halt that has exits in
  hand no entry is outstanding. The case that needs work is
  the cancellation, which waits for the entries that the broker shows: it raises when the
  journal has an unresolved entry that the broker does not show, and since every entry
  under way has an intent (`KnownInv`) or is live at the broker (`NoLate`), all that are
  left are live and are waited for
  (`CancellationSeesAll`, `BuysShrink`);
* `EntryCapHolds`, by `SentInv`: outside of a synchronization every order sent has its
  key in the journal, so that keys bound what the broker received;
* `ChainNeverOversells`, by `LeftInv`: a retry is for no more than its predecessor left
  unsold when it was canceled. The sum over the attempts is a sum over a set of three;
* `ExitsAreHeld` and `CustodyIsKept`, by `CustodyInv`: at most one sell order of a symbol
  is open and it is covered; what is about to be sold is on no other order; what the
  protection read is still held unless the order it read has executed. The second is the
  refinement of `ShareCustody`: every step moves at most one symbol's offers in one of
  its ways (`OffersMove`, `OffersImplemented`), the shares on offer being a sum that
  has at most one term (`LeftTotal`).

`CustodyIsSafe` says what the refinement is worth, of the abstract specification alone:
no holding and no order of it is ever oversold. With `CustodyIsKept` the same follows of
the operator (`OneOfferAtATime`).

### The ledger

`FillLedgerProofs`, for any orders, replacements, sizes, prices and number of processes:

* `LedgerTypeCorrect`: types are inductive, corrections included.
* `BookedIsReported`: what is booked of an order is a prefix of its executions, at
  their value. It is inductive only together with `ViewsAreReports`: a list may be
  old, but everything on it was reported once, and reports only grow
  (`StepReportsGrow`).
* `RowsAreChained`: a step leaves the rows of an order alone or appends one row that
  is worth something (`RowsOfStep`), and the appended row continues the chain from the
  cursor.
* `LedgerBooksOnce`: the refinement, by the same case split: a stutter or `Execute`,
  `Book`.
* `TerminalIntentsAreBooked`: a process stores the status of the report in its hand,
  however old. `TerminalInv` adds that the report of an ended order is its last one
  (`ClosedAreFinal`) and that the order being recorded is booked at least up to the
  report in hand (`Recorded`); an older list then has an older, active status.
* `CorrectionsAreNoticed` and `PositionsAreSynced`: `SyncInv` follows an undisturbed
  synchronization order by order (`InSync`). Which orders were executed before the
  process started, are on its lists, or are remembered as synced are three ways of
  being accounted for (`Known`), and the rows of synced orders must exist
  (`SyncedHaveRows`), which a crash between the two files threatens. Positions and
  holdings are sums over the same orders (`Sums`, `Folds`), equal term by term.

### The supervisor

`SupervisorProofs`, for any numbers of applications, managers and workers, any budget
and any number of kills: `OperatorInv` says which lock each process holds where
(`ManagerHolds`, `WorkerHolds`, `StarterHolds`, `StopperHolds`) and that a start that is
past the clearing of STOP finds no completed stop (`StartClears`). It is inductive, one
lemma per kind of process; `OneOperator` follows since a lock has one owner, `StopLasts`
since `StopWins` is its last conjunct. `StopWins` alone is not inductive: a start that is
about to enable the operator must not find a stop completed meanwhile.

### The live pilot

`LiveRiskProofs`, for any values, rates, policy, numbers of activities, days and faults:

* `RiskTypeCorrect`: with `QuoteLoaded` (a rate exists wherever one is divided by).
* `CashCountedOnce`: `FlowsInv`, that flows plus what preceded the baseline are the
  booked cash of the recorded activities, holds of the stored baseline and of the one
  being computed. The step from `list` to `evaluate` is an induction over the rows.
* `LossesHalt`: `LossInv` relates the baseline to a history of the highest observed
  marks: the recorded peaks are at least those observed since the last reset of the
  baseline (`Dominates`), and a baseline that is computed and not yet written already dominates
  them (`Evaluated`). An earlier form of that history was wrong where two faults meet,
  one more than the run has: the proof failed, TLC with two faults showed why, and the
  history was corrected.
* `EntriesAreVerified`, by `EntryInv`: at each step before the submission the rate, the
  activities and the halt were checked after they last changed.

### The session

`SessionProofs`, for any opening hours, intervals, buffers, durations and numbers of
failures. `StepKinds` sorts the steps by what they do to the schedule; `TimeInv` orders
the times that are recorded. The multiplication of durations is in three lemmas on
`Cost`, the time that a number of operations and the failures so far can have taken.

* `ProtectionIsTimely`: `GapInv` gives, for each step of the cycle, how long a position
  can have been without its stop there. The run once had four operations in the bound;
  the proof needs three, and a bound that is one minute less fails in TLC. An exit must
  find the market open: `_run_alpaca_risk_once` reads the clock before any exit, a guard
  that the model had left out.
* `OnePass`, first half: `PassInv` says that after its pass a date's next one is due only
  behind the last risk check that it can have.
* `OnePass`, second half: `EntryInv` bounds, while the pass is to come, the time of each
  step from the first cycle of the date; by `InTime` the market is open throughout and
  not near its close. Two cycles count, the one that is deferred and the one that passes,
  each with the retries of a refused stop, which are no failures of the broker: the
  bound has `4 + 2 * MaxErrors` operations, and the four it had before were too few.

Both hypotheses hold for the defaults of the command line (390 minutes, an opening buffer
of 10, five attempts) as long as an operation takes at most ten minutes. The command line
accepts values for which they do not.

### The runtime directory

`RuntimeMigrationProofs`, for any directories, applications, commands and files:

* `MigrationInv` says what holds from lock to lock: who is in which phase holds which
  lock (`LocksHeld`), neither of a migration's directories redirects
  (`Canonical`), the checkpoint in hand is the one on disk (`Checkpointed`), a verified
  copy has all of the inventory, and the inventory all that was written through any
  path to the source (`Copied`), a command's journal is still on the way of its path
  (`CommandPaths`), a target that nobody else wrote to has whole files of the checkpoint
  only (`Resumable`). `RecordsSurvive` and `CopyResumes` follow.
* `NoRedirectCycle`: `Ranked`, there is a ranking of the directories under which every
  redirect leads downwards. The target of a new redirect redirects nowhere, so it
  can take the lowest rank below all others.
* `FiveDirectoriesResolve`: a refused path is a chain of six different directories.

### The evidence

`EvidenceTrialProofs`, for any sessions, variants, revisions and kills: `HistoryInv` says
that every whole file extends its parent and HEAD is a whole file (`FilesLinked`,
`HeadSound`), that the update in work extends HEAD as it is (`UpdateSound`), and that only
what is not referenced is torn (`TornApart`). `HistoryIsRetrievable` and `PastIsSettled`
follow; `TrialTypeCorrect` is the type invariant.

### The backtest

`ResearchEngineProofs`, for any symbols, bars, signals, limits, dividends and splits. The
engine works through lists: the orders of an open, the candidates of a plan, the
positions that a split touches. Every such fold is read as a chain of states, one for
every prefix of its list (`Together`); one lemma per fold says what the chain keeps
(`OnlyChain`, `PlanChain`, `SplitChain`, `ExecuteChain`, `StopChain`), and the rest of the
proof only sees the ends of the chains.

* `TypeCorrect`, by `EngineInv`: types, and what the phases pass on to each other: a plan
  has its sells first, a close is reached without orders and with marks, a dividend is
  owed once. Cash stays a natural number because `Submit` refuses what the account
  cannot pay, commissions of sells included.
* `HaltedHoldingsStayOnSale`: inductive beside `EngineInv`. A split multiplies the
  holding and the order that sells it by the same ratio and rounds both down alike; an
  order whose quantity becomes zero belongs to a holding that does too.
* `OpeningBuysStayWithinLimits`: the property is about the account before and after an
  open, its proof about every order in between. `Prudent` says what must be carried from
  one order to the next: no fill makes the account worth more at the opening marks, and
  what was bought so far is within the limits. Since a plan has its sells first, only
  purchases follow a purchase, and each leaves the reserve by its own sizing.
* `CorporateActionsNeutral`: equity is a sum over positions plus one over unpaid
  dividends, and a split changes one term of the first. The proof
  showed that the property, as first stated, held because the instance's prices divide by
  the ratios of its splits: in whole ticks a mark that does not (3 ticks, 2 for 1) takes
  the rest of the division from equity. `WholeTicks` says so; the code has floats, where
  there is no such rest. That each mark loses less than a tick per share holds without it.
* `RefinesTradingEngine`: until the first corporate action every step is one of
  `TradingEngine` or a stutter. The plain engine's operators are instances of their own,
  equal to these by their bodies; the two loops whose bodies differ, over the orders
  of an open and over the stops, are compared state by state along their chains
  (`PlainFillChain`, `PlainStopChain`).

### Induction and sums

The induction theorems of the library take an operator as a parameter, which the provers
cannot instantiate. Where an argument needs induction (the rows of an activity list, the
sums over orders, a chain of redirects), it is made in the form of a least counterexample:
the set of the indices, or of the subsets, for which the claim fails has a minimal
element, which the lemma refutes. Sums (`MapThenSumSet`, `SumFunction`, `FoldLeft` over
activities) are recursive functions on the library's side; their defining equation is made an operator (`Sums`, `Folds`,
`FilledTotal`, `LeftTotal`) and unfolded. A fold over a list is the same recursive function
over the sets of its indices; `FoldExists` turns it into a chain of states.

### What is only model-checked

* Liveness and everything else under fairness (`HaltLiquidates`, `CatchesUp`, `StopEnds`
  of the supervisor): beyond the proof system.
* `OwnStopAccepted`, which is violated (`one_cent`).

## 5. Plan

1. Fractional and missing holdings in `Execution`.
2. Orders of the live broker with `LiveRisk`, resets during a synchronization in
   `FillLedger`, an exit that works without a stop in `Session`.

## 6. Not modelled

Research, studies and statistics, strategies, advisor and market data are numerical
and share no state with trading; every signal is a choice in `Execution` and in the
backtest. The desktop window and the reports present files that others write.

Of the modelled components: the broker's own rejection of orders beyond the holding is
not assumed. Fractional and short holdings stop the operator in the code and do not
arise in the model. An unreadable `bot_state.json` stops the process. Registration at
sign-in, sleep inhibition and monitoring are I/O of the platform. `replace_file` is
atomic by the operating system; its retries of Windows errors are left out. The live
broker's own orders (limits of an entry's size, confirmation of its protection, the
emergency exit) and the parsing of the
rate feed are left out of `LiveRisk`. In `FillLedger` an order fills on the date it was
submitted (one key). The collection of market data and the statistics of the
evidence are numerical. `min_confidence`, invalid inputs and the calculation of
indicators are left out of the backtest; the session's shadow strategies, `--cycles` and
observations are left out of `Session`.
