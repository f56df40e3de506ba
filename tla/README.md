# tradabot in TLA+

TLA+ models of the parts of tradabot whose correctness depends on order, time
and failure: the forward paper-trading service with its broker, the monitoring
passes with the publisher that delivers their findings, the simulated portfolio
the scanner drives, the scan cycles with the notifications they send, the paid
calls of the AI synthesis, the incremental research ingestion, the historical
backtest, and the import of market history. TLC checks small instances; TLAPS proves safety for every
instance. Paths below are relative to `app/` in the repository.

## 1. The system

tradabot is a research and paper-trading program for daily US equities: one
Python package (`app/`), a SQL database, JSON files beside it, and command-line
passes started by a scheduler or by hand. The Alpaca paper accounts aside,
nothing trades.

| Component | State | Operations | Talks to | What is hard |
|---|---|---|---|---|
| Forward paper service (`paper/forward_service.py`, `paper/lifecycle.py`) | slot state, clean count (memory) | `prepare_entry`, `close_on_expiry`, `reconcile` | broker reads, order boundary, repository | stops filling during a close, lost answers, restarts, retries under one key |
| Order boundary (`broker/paper_orders.py`, `paper_accounts.py`) | none | `submit_entry`, `submit_exit`, `reconcile`, gates | Alpaca | a vocabulary of statuses wider than the enum |
| Forward repository (`paper/forward_repository.py`, `db/session.py`) | `paper_broker_orders`, evaluations, candidates, events | record intent, apply reconciliation, queries | SQL session of the caller | flush versus commit |
| Fan-out, execution window, risk gate (`paper/fanout.py`, ...) | none | decide per account | service | pure |
| Monitoring (`monitoring/`) | baseline, one JSON file per scope; journal | `run`, `flush` | price database, publisher | hysteresis, cooldowns, passes sharing the baseline |
| Publisher (`publishing/`) | delivery ledger (JSON) | `publish_events`, `publish_message`, `reconcile`, `flush` | Discord | read once, written once; retries, pruning, outage |
| Simulated paper engine (`paper/engine.py`, `broker.py`, `portfolio.py`, ...) | cash, positions, orders, trades, halts | open, close, process a bar | scanner, database | replayed decisions, double settlement, sell and buy in one transaction |
| Scanner (`scanner/`) | run rows with leases, tracked signals | cycle, lifecycle, expire | market data, paper engine, notifications | lease expiry, overlapping cycles, death in the middle |
| Notifications (`notifications/`) | phase, score and time announced per signal; health | `notify_signal`, health events | Discord | read, deliver and save in three transactions |
| AI synthesis (`synthesis/`) | ledger, cache | one guarded paid call | OpenAI | spending cap across processes, charges of lost answers |
| Research intelligence (`research_intelligence/`) | events, documents, facts, checkpoints, accession states, run rows | `run`, `collect` | EDGAR, launchd | death between store calls, backoff, partial collections, the cursor |
| Backtesting (`backtesting/`) | run row, observations, outcomes | replay, walk | database | counts against rolled-back slices, order of exits |
| Imports (`market_data/`, `history/`, `instruments/`, `corporate_actions/`) | candles, actions | `HistoricalBackfill.run`, `sync_market_data`, upserts | vendors | gaps left by failures and late bars; resuming without a checkpoint; two writers |
| Features, signals, research, fundamentals, advisor, fit, API, bot | derived tables or none | pure computation, read-only surfaces | - | numeric, no control to check |

What makes the modelled components correct:

* *Forward service*: the account never goes short and never sells more than it
  holds; rows never claim what the broker does not have; a candidate is bought
  at most once; a frozen slot opens only after two clean reconciliations; the
  exit of a position past its horizon is carried out in the end.
* *Monitoring and publisher*: a finding is posted at most once per cooldown and
  never again once settled; no failure is forgotten before it was delivered or
  summarised; every finding taken by a pass that lives is accounted for; a
  regime is announced when, and only when, it has held.
* *Simulated portfolio*: cash and open positions hold exactly what was put in
  and realised; a decision buys at most once and a lot is sold at most once;
  settling a bar again changes nothing; a drawdown halt stays.
* *Scan cycles*: a lease that was taken keeps later cycles away; a dead cycle
  locks nobody out; an identity has no more active signals than there were cycles
  at once; what the policy remembers is what the reader was told; unseen signals
  expire.
* *Synthesis*: the cap is overshot by a bounded amount; the ledger is below what
  the provider charges only by what no answer told it.
* *Ingestion*: no state is ahead of the data it stands for; finished work is
  read and stays finished; unfinished work is finished in the end.
* *Imports*: a gap behind the newest bar is one the next synchronisation asks
  for; a backfill that reports no failure left nothing out; started again and
  again, it fills the range.
* *Backtest*: a run reports what it stored; a profile has all outcomes or none;
  limits bind; the equity curve could have happened.

## 2. Modules

| Module | What it is |
|---|---|
| `PaperLedger` | abstract specification: shares bought up to one order's size, never sold beyond what was bought |
| `ForwardPaper` | the service, its database transaction and its broker |
| `MonitorPublish` | monitoring passes, baseline files, publisher, delivery ledger, Discord |
| `PaperAccount` | abstract specification: lots bought once, sold once, money moving only with a lot |
| `PaperEngine` | one simulated portfolio and the transaction of a scanned symbol |
| `Scanner` | scan cycles, leases, tracked signals, the announcement policy |
| `SynthesisBudget` | the paid call with its budget guard, ledger and cache |
| `ResearchIngest` | one incremental ingestion run after another over the event store |
| `Backtest` | the historical replay and the walk of every portfolio over it |
| `Backfill` | the backfill of history and the synchronisation of new bars |
| `MC*` | the instances of each module for TLC |
| `*_proofs` | the theorems about each module |

### ForwardPaper

`slotState`, `clean`, `enabled` are the fields of a `ForwardPaperService`;
`call` is the local state of the call in progress; `tx` and `db` are the rows
of `paper_broker_orders` seen by the open session and committed; `orders` and
`legs` are the broker's orders and stop orders; `net` holds submissions sent
and not yet received. `agreed` is a history variable.

One action stands for the code between two points where the broker can be
reached:

| Code | Actions |
|---|---|
| `prepare_entry` | `StartEntry`, then `LookupFound`/`LookupFails`/`LookupMisses`, `SubmitEntry`, `Answer` or `Raise`, `Commit` |
| `close_on_expiry` | `StartClose` or `ClockUnknown`, `FirstRead`, `FirstProtectionRead`, `CancelProtection`, `SecondRead`, `SecondProtectionRead`, the lookup, `SubmitExit`, `Answer` or `Raise`, `Commit` |
| `plan_protected_exit` raising | `ReadFails`, the failing disjunct of `CancelProtection` |
| `reconcile`, `reconcile_slot` | `Reconcile` with `Verdict` and `Judge` |
| session scope | `Commit` on return, rollback in `Raise` and `Crash` |
| new process | `Restart`: memory has its defaults |
| broker and operator (external) | `Land`, `Fill`, `Expire`, `CancelOrder`, `CancelConfirm`, `Hold`, `Resume`, `Protect`, `StopFills`, `StopCancelled`, `StopStays` |

`Env` says which faults an instance has, so that a run can ask about one of
them. Assumptions on the outside: the broker accepts one order per
`client_order_id` and any sell whatever the position is (it is the service that
must not go short); a stop is placed on unreserved shares and not while a close
of the same shares runs; one service object works on an account at a time; a
candidate stands for its symbol (`fanout.py` refuses a symbol already held or
ordered). The gates of `assert_may_submit` are one nondeterministic refusal,
except the one on the idempotency key. Prices, capital and account verification
are left out.

### MonitorPublish

A process of the command line runs `Observe` (the whole of
`MonitoringEngine.run` up to its flush: regime hysteresis, level findings,
cooldown filter), `FlushEmitted` and `FlushMarket` (one file per scope, in
alphabetical order), `Publish` (quiet pass, baseline of a new channel, or the
queue), `Send` (one alert, or one digest), `Save`, `Reconcile` and `SaveNotice`.
`SendOneOff` is `publish_message`. `Crash` ends a process anywhere. A day is a
tick; a session is what the bars reach up to. `emitted`, `market`, `ledger` are
the files; `posted`, `lastPost`, `noticed`, `since` are history. Company,
portfolio and health findings run through the same filter and ledger as the
level findings do and are not told apart; the journal is output only.

### PaperEngine

`db` is the portfolio as committed: cash, realised gain, peak, halt, session and
its opening equity, positions, orders and trades. `bar` and `range` are the
newest stored bar of each symbol and the lookback its support and resistance
come from; `now` counts the bars the market printed.

| Code | Definitions |
|---|---|
| `scanner/service.py _persist` (one transaction per symbol) | `Scan`, `ScanAndEnter`, `Commit` |
| `engine.process_bar`, `_apply_risk_halt`, `_roll_session` | `ProcessBar`, `Halted` |
| `exits.evaluate_exit`, `broker.close_position` | `Exit`, `Closed` |
| `sizing.size_position`, `broker._gate_entry`, `submit`, `_fill`, `reject` | `Sized`, `GateRefuses`, `Submit`, `Filled`, `Refused` |
| `engine._rejected_entry` meeting a taken key | `Collides`: the transaction rolls back |
| `service.close_on_signal_reversal` (no caller in `app/`) | `CloseOnReversal` |

A decision is a symbol and the bar it was taken on. Prices are small integers,
spread, slippage and fee constants; the risk-based size comes in as `Units`.
`deep` and a position's `level` are history. Splits of held positions,
pyramiding, the command line's own bar clock and snapshots are left out.

### Scanner

Every scheduled invocation is a process. The database reads what is committed
(the default of Postgres) and constrains neither run rows nor the identity of a
signal, so a transaction that reads and then writes is two steps, and every step
of another process may come between them:

| Code | Actions |
|---|---|
| `acquire_lease` | `Look` sees no lease held; `Claim` marks expired runs failed and inserts its own, as of when it looked |
| `_scan_symbol`, `_advance_lifecycle` | `Find` reads the active row of the identity and decides, `Write` commits; `Skip` is the symbol that fails or has no direction |
| `notify_signal` | `Consult`, `Deliver` or `Drop`, `Save` |
| the end of a cycle | `Expire`, `Complete` |
| an error outside a symbol's transaction, the death of the process | `CycleFails`, `Crash` |

A row is written by its key and only in the columns that changed, as SQLAlchemy
does it: a changed state goes over whatever another cycle made of the row, an
unchanged one is not written. Times are ages, so there is no clock to bound.
`heard` and `crowd` are history, and `calm` says of them and of `faults` that
nothing failed and no cycles overlapped. The policy key has no direction or
setup, so setups of one symbol share a state, as in the code.

### SynthesisBudget

`Miss`, `Approve`/`Refuse`, `Dispatch`, the provider's answer, `Put`/`Discard`
and `Settle` are the steps of `SynthesisService.synthesise`; each connection to
the ledger is a transaction of its own. The ledger is the sum per month of its
rows; `bill` is what the provider charged, at most `Excess` above the estimate of
a call. `Billed` has the three cases of `_billed`: the usage an answer reports
(`Answered`), nothing for a failure that counts as rejected before inference
(`RejectedBeforeInference`, and `Breach`, a charged answer without a usage whose
content breaks the contract), and else the estimate (`Unanswered`,
`Unreported`). `blind` and `free` count the charged calls whose row does not know
what they used, and those whose row says nothing.

### ResearchIngest

One action for each store call that something follows. `Start` is discovery
from the daily index (`_pending_days`, `_from_index`, `_with_unfinished_work`),
`Sweep` an operator's run over chosen companies; then company by company
`BackedOff`, `Unreachable`, `UpToDate` or `Consult`, and filing by filing
`NoEvent`, or `StoreEvents`, `MarkStored`, `NothingToRead`, or `Collect`,
`ReadDocument`, `StoreFacts`, `Enriched`. `Uncollected`, `Breaks` and `Crash`
are what may go wrong. The lock makes one run at a time; the clock moves between
runs. Dry runs, `--since`, `--limit` and the cap of 25 retried companies are
left out. Two branches cannot be reached from `app/` and are not modelled: an
ingestor without an evidence service (the only one that is built, in `cli.py`,
always has one), and `CHANGED_SOURCE_CONTENT`, which needs a document retrieved
again, that is `refresh=True`, which no caller passes.

### Backtest

`ReplaySlice`, `UnknownSlice` and `SliceFails` are the iterations of
`HistoricalReplay._replay`, `Complete` and `GridFails` its two ends; `Settle`,
`Execute`, `Refuse` and `Commit` are the walk of one profile, whose outcomes are
one transaction; `Stop` is the death of the job. What an evaluation finds, and
what a position gains, are inputs. Cash and equity move together in the walk and
are one number.

### Backfill

`bars` are the committed bars, a bar being its symbol and session; `run` and
`sync` are the local state of the backfill and the synchronisation under way. A
day is a tick. The vendor (external) answers with bars it has printed, and one
may come up to `Delay` days late.

| Code | Actions |
|---|---|
| `market_data/backfill.py run`, `_stored_sessions` | `StartRun`: what is stored is read once |
| `chunk_windows`, `_covered` | `Plan`: a window is skipped or asked for |
| `_chunk`, `import_service.import_batch` | `Import`, `ImportFails` with `After`: an attempt, another one, or a chunk given up |
| the end of `run` | `Finish` |
| `scanner/service.py sync_market_data`, `import_service.sync_symbol` | `StartSync`, then for each symbol `ReadNewest` and `StoreSync`, `RefuseSync` or `FailSync` |
| `cli.py market-data sync`, `import_service._sync_batched` | `ReadBatch`: one request as wide as the symbol furthest behind needs |
| the process dies | `RunDies`, `SyncDies` |

One synchronisation runs at a time, beside one backfill: the lease of the
synchronisation keeps scheduled ones apart unless two are invoked at the same
time (see `Scanner`), which is left out here. `down`, `since` and `lost` are
history. When the commit itself fails, the import has already returned a report
of rows that are not stored: that is `lost`.

## 3. Runs

| Run | Instance | Question |
|---|---|---|
| `ForwardSafety` | one candidate, 2 shares; crashes, failing reads and lookups, cancelled orders, stops, closes asked for less or more than is held | `TypeOK`, `NeverShort`, `RowsNeverAhead`, implements `PaperLedger` |
| `ForwardSlot` | one candidate, 1 share; every fault but a wrong belief | `UnfreezeNeedsTwoClean`, `BuysOnlyNewKeys` |
| `ForwardLive` | one candidate, 1 or 2 shares; crashes, stops, lost answers; fairness | `OverdueSold` |
| `ForwardExitExpires` | DAY orders may expire, 2 shares | `OverdueClosed` is violated |
| `PublishPass` | one process at a time, 2 days, every command but `publish portfolio`; crashes, failures, lost answers | `CooldownKept`, `FailuresKept`, `SettledNeverSent`, `KeptAccounted` |
| `PaperBooks` | two symbols, two sessions of one bar, a bar up and a bar through the stop | `MoneyConserved`, `TradesAreCloses`, `EntriesAreSingle`, `SettlingTwiceIsOnce`, `DrawdownHaltSticks`, implements `PaperAccount` |
| `ScanPass` | two invocations, one symbol and setup, scores below, at and above the thresholds, one fault | `LeaseProtects`, `DuplicatesBounded`, `PolicyKnowsReader`, `OverWasLive`, `RepeatsApart` |
| `ScanLive` | the same with two scores and a cycle of at most one tick; fairness | `CyclesComplete`, `UnseenExpire` |
| `BudgetPass` | two invocations, a packet whose call costs less or more than its estimate, one charged answer taken for a rejection, two months | `TypeOK`, `OvershootBounded`, `LedgerNearBill`, `RunBounded` |
| `IngestPass` | two companies; filings with two documents, an unreadable one and none; three days, one holiday; two faults of any kind; fairness | `RecordedIsStored`, `CompleteWasRead`, `FinishedStays`, `UnfinishedDrains` |
| `BacktestBooks` | three symbols (one stopped trading, one unknown), two slices, two profiles | `CountsAgree`, `AllOrNothing`, `HeldWithinLimit`, `CurveInOrder`, `EquityAccounts` |
| `BackfillPass` | a known and an unknown symbol, seven days, two windows, bars up to two days late, two faults of any kind, the synchronisation beside the backfill; fairness | `GapsAreAskedFor`, `FinishedIsWhole`, `HistoryFills` |

What three properties say exactly:

* `OverdueSold` is about a broker whose orders fill in the end, and calls an
  exit carried out when the position is closed or its one sell has filled whole.
  The two differ where a stop's cancellation was still pending: the sell is then
  smaller than the position, its key is spent and the rest is never sold
  (`OverdueClosed`, `ForwardRemainder.cfg`).
* `CountsAgree` counts the rows of the symbols a replay did not give up, and
  bounds the qualified ones from below; the first slices of a symbol that was
  given up stay in the table uncounted.
* `FinishedIsWhole` leaves out runs in which a commit was lost (§5).

Where the type invariant is a theorem, the run leaves it out (`ForwardSafety` and
`BudgetPass` keep it). `PublishModes.cfg` is a further instance that holds, with
every command and channels that may be unconfigured, without other faults.

Bounds.

* *Forward*: `MaxQty` 2 is the least quantity with partial fills on both sides
  of a stop; one candidate is enough because neither the service nor the broker
  relates two candidates except through the slot, and the proofs hold for any
  number. `CleanCap` 2: the code only asks for "two or more". `ForwardLive` has
  both quantities, since only with two can a stop reserve part of a position.
* *Publish*: `LastDay` bounds the clock (the runs stop there, so deadlock is not
  checked); two days let a cooldown of one begin, silence and end. `Retain`,
  `BurstThreshold` and `RecoveryThreshold` stand for 20000, 5 and 10 and are
  small so that pruning, digests and recovery notices happen.
* *PaperBooks*: two bars let an entry be settled, halted and followed by another
  in the next session; two symbols let one lag behind the other. `DrawdownHalts`
  needs four bars and one symbol (`PaperHalt.cfg`).
* *Scan*: two invocations are the least that overlap; two `Slot` rows are what
  two cycles may create; one fault is enough to leave a lease behind. `Late`
  equal to the lease lets a cycle outlive it. `Pause`, the ticks between looking
  for a lease and taking it, is zero: both may still happen on either side of
  another process's steps; the theorems have any `Pause`.
* *BudgetPass*: the cap is one and a half calls, so the two invocations can
  overshoot; two months let a call straddle the change.
* *IngestPass*: `CatchUp` 2 with three days leaves a day for the next run;
  `MaxFaults` 2 lets a retry fail again.
* *BacktestBooks*: the grid of three instants in slices of two has a full and a
  partial slice; limits of two and one bind. The job ends, so deadlock is not
  checked.
* *BackfillPass*: the range is two windows (`Chunk` 2) because the boundary
  session belongs to both counts; `Percent` 60 lets a window miss one session and
  still be skipped; two faults use up both attempts at a window; seven days are
  the least in which a late bar could fall behind by more than the overlap.

Fairness. In `ForwardPaper`, the service's own steps are weakly fair (it is a
sequential program), delivery and fills of a market order weakly fair, a close
that is due is started again and again by the runner (strong fairness: crashes
disable it), a cancellation asked for again and again is at last accepted and
confirmed, and crashes and new stops end. That market orders fill is what
`ForwardExitExpires` takes away. In `Scanner`, the scheduler invokes
the scanner again and again (`Look`), a process that is not killed goes on
(`Step`), and time passes. In `ResearchIngest`, launchd starts a run every four
hours (`Start`), a started run goes on (`Work`), and time passes between runs
(strong fairness: a run disables it). In `Backfill`, a backfill that was started
goes on (`Work`), an operator starts it again for every known symbol, and time
passes; of the synchronisation nothing is asked. No safety property assumes any of this.

## 4. What is proved

Every theorem holds for all values of the constants that satisfy the named
assumptions of its module; TLC evaluates those assumptions in the runs.

**ForwardPaper.** `Invariance`: `Spec => []IInv`, from which `TypeCorrect`,
`NeverShortHolds`, `RowsNeverAheadHolds`; the action properties
`UnfreezeNeedsTwoCleanHolds` and `BuysOnlyNewKeysHolds`; the refinement
`ImplementsLedgerHolds`. `NeverShort` is not inductive: a sell already sent
lands later, against a position that has changed. The strengthening says that
every sell on its way (`PendingFits`), and every sell the call has decided on
(`PlanFits`), still fits beside the stop for as long as the broker has no order
under that exit key (`Free`). It is kept by two facts about steps: most of them
change a candidate's books only in a `Kinder` way (more unreserved shares, not
fewer), and `Protect` cannot happen while a sell is planned or on its way.
`UnfreezeNeedsTwoClean` needs `CountOK`: the code's counter and the history of
verdicts agree, because every freeze resets both.

**MonitorPublish.** `TypeCorrect` and `Accounted` hold however passes overlap:
`Books` says that a row is marked delivered only when it was, and that whatever a
sending pass kept is either still to be sent or recorded. `CooldownHolds`,
`SettledIsOver` and `FailuresHold` are theorems under `"overlap" \notin Env`,
because two overlapping passes violate them (`PublishTwice.cfg` shows one case).
Their invariant `Solo` follows a finding through its pass: what was kept is a
cooldown away from its last post (`Due`) until the baseline file carries today's
mark, and the pass's copy of the ledger still has every failure of the file
(`Unforgotten`), which the flush at the end relies on.

**PaperEngine.** A transaction is a composition of operators on the portfolio's
rows, so the proof goes operator by operator: each of `Closed`, `Marked`,
`Halted`, `Filled`, `Refused` maps sound rows (`Sound`) to sound rows, and the
transaction is what they compose to, or a rollback. From the invariant follow
`TypeCorrect`, `TradesAreClosesHolds`, `EntriesAreSingleHolds`,
`HaltedOpensNothingHolds`, `DrawdownHaltSticksHolds` and the refinement of
`PaperAccount` (`ImplementsAccountHolds`), where a settlement is a sale or a
stutter, an entry a purchase or a stutter, and `SellThenBuy` their composition.
`AccountAddsUp` is a fact about the abstract account alone, by the same sums: its
cash is the capital, less what every lot cost, plus what the sold ones brought.
`PortfolioAddsUp` carries it over to the portfolio through the refinement.
`MoneyConservedHolds` has its own conjunct of `Sound` (`Balanced`): a close takes
one term from the sum of what open positions cost and adds one to the sum of the
trade log, an entry adds a term to the first, a mark or a halt changes neither.
`SettlingTwiceIsOnceHolds` is two facts: the bar's exits, applied to the positions
they left, do nothing (`SettledAgain`: what was closed is no longer open, because a
symbol has one open position, and an exit does not depend on the mark), and the
halts, applied to the same equity in the same session, are the same halts
(`HaltedTwice`).

**Scanner.** `LeaseProtectsHolds` rests on the process that has seen no lease and
has not taken its own (`Leases`): every cycle within its lease was invoked at most
`Pause` before it, or took its lease in the meantime. `DuplicatesBoundedHolds`
counts, for an identity, the rows that are active or that an evaluation in hand
will be written to, and the evaluations that will add one (`Counted`): an
evaluation adds only when it found none, so then every such row and draft belongs
to a cycle of its own, and the sum is at most the number of cycles there were at
once. `PolicyKnowsReader` and `OverWasLive` relate the note in hand of a process
to the state it read and the message it delivered. For `RepeatsApartHolds` the
invariant also ties two ages of a symbol together (`Ages`): while cycles do not
overlap, what the policy remembers of the last announcement is no older than
what the reader heard, in the store and in the copy a process decides on, so a
repeat that waited out the policy's cooldown waited out the reader's.

**SynthesisBudget.** No theorem assumes that an estimate is a worst case.
`OvershootBoundedHolds` follows from `Room`: the month's spend, an excess for every
invocation whose row may still grow, and an estimate for every approved call but
one that still fits its own view of the cap, stay within the bound. An approval
starts such a view, a dispatch moves its estimate into the ledger, a settlement
uses up its excess. `RunBounded` relates the guard's count to the calls that
reached the provider. For `LedgerNearBillHolds` every invocation and month has
weights (what its row holds, and what of that no charge has used), and the slack
between ledger and bill is covered by what is still reserved (`Backed`,
`Covered`), except for an excess for each charged call whose usage the row does not
know, yet or ever, and the price of an answer taken for a rejection. The weights
are added up as the cardinality of a set of pairs.

**ResearchIngest.** The invariant says at each `pc` what the filing in hand, the
documents read so far and the verdict stand for. `FinishedStays` follows because
a filing is taken up only from `Pending`, which excludes terminal ones, and
nothing but the filing in hand changes state.

**Backtest.** `HeldWithinLimit` is about the positions outcomes report at a bar;
the strengthening says that all of them that exit after the walk's present
instant are still in the book. `CurveInOrder` needs that whatever was settled
exited before every observation still queued. `EquityAccountsHolds` rests on
`Booked`: equity is the initial capital and the net of the trades that have left
the book. `CountsAgreeHolds` rests on `Counting`: while the replay runs, its counts
in memory are those of the rows behind the place it has reached, less the symbols
it gave up, whose first slices stay. Proving it showed that an earlier form of
`CountsAgree` was false when there is no bar to replay: the replay then completes
without counting a symbol (`backtesting/engine.py`, `if not grid`), and the property
now says so.

**Sums.** The sums of `PaperEngine` and `Backtest` are `SumFunctionOnSet` of the
community modules, a fold over a finite set. `SumFacts` says all that the proofs
use of it: it is an integer, zero over the empty set, the sum without any one
element and that element's value, and depends only on the values over the set. It
comes from `SumsExist` and `SumIs`, and those from `SetInduction`, which is not an
induction rule with a predicate parameter but the library's theorem that strict
inclusion is well founded on the finite subsets of a set: the parts of the set
outside a given set of parts have a smallest element.

**Backfill.** `GapsAreAskedFor` rests on `Read`: between reading the newest bar
and storing the answer, what the request leaves out is behind a stored bar by
more than the overlap, even if the backfill writes in between; and it rests on
the assumption `Delay <= Overlap + 1`, which the synchronisation needs of the
vendor. `FinishedIsWhole` rests on `Behind`: every window the run has passed
lacks no more than the tolerance, since bars are never removed and a chunk
counts as done only on the report of its own last import, unless a commit was
lost.

Only model-checked: liveness (`OverdueSold`, `CyclesComplete`, `UnseenExpire`,
`UnfinishedDrains`, `HistoryFills`), which is out of the prover's reach. Every
other property of the passing runs is stated by a theorem.

## 5. Where the code does not do what the repository says

`ForwardExitExpires` is a listed run: a due position is never closed once its
exit order died unfilled, because the key stays and the dead order is
"recovered" for ever. `ForwardRemainder.cfg` violates the same property where every
order fills: the close sells what a pending cancellation leaves free, and the rest
stays under the spent key.

The others are stated as properties at the end of their modules, each with an
instance that violates it; they document known behaviour, so no listed run
repeats them (`tlc -config X.cfg MCModule`).

| Property and cfg | What the code does |
|---|---|
| `KeyUsedMeansSent`, `ForwardKeyUsed.cfg` | an entry recorded but never sent can never be sent: its key counts as used |
| `NoUnknownOrder`, `ForwardUnknownOrder.cfg` | the intent "written first on purpose" is not committed before the order is sent, so a crash leaves an order nobody knows of |
| `FreezeKeepsProtection`, `ForwardStripped.cfg` | a close that fails after cancelling the stop freezes an unprotected position |
| `PostedOnce`, `PublishTwice.cfg` | overlapping passes post the same alert twice |
| `ConfirmedIsAnnounced`, `PublishRegime.cfg` | a regime change silenced by its cooldown is confirmed unannounced |
| `HeldForSessions`, `PublishHold.cfg` | passes are counted as sessions |
| `ExitInsideItsBar`, `PaperRange.cfg` | the scanner gives the engine support and resistance as the bar's low and high, so exits fill at levels the bar never reached |
| `DrawdownHalts`, `PaperHalt.cfg` | a drawdown breach while the daily halt is set is never recorded |
| `ReplayIsNoOp`, `PaperReplay.cfg` | replaying a decision refused before the broker violates the unique key and rolls the symbol's transaction back |
| `SecondReturns`, `ScanTwice.cfg` | `docs/operations.md` says that "the database lease makes a second one return immediately"; two invocations at one time may both see no lease and both take it |
| `DropIsRetried`, `ScanDropped.cfg` | an alert that was not delivered is not tried again: the tracked signal has already changed |
| `CapHolds`, `BudgetEstimate.cfg` | the estimate is no ceiling (a quarter of the characters of part of the request), so one invocation can pass the cap |
| `NothingBilled`, `BudgetBreach.cfg` | an answer that reports no usage and breaks the contract counts as rejected "before inference" and is billed at nothing, though the provider generated and charged it |
| `NothingSkipped`, `IngestCursor.cfg` | a run with no past day to read stores a null cursor and a later run starts at yesterday: filings in between are never read |
| `CommitsWhatItHas`, `BacktestFunds.cfg` | the walk sizes every entry from all of the cash, so open positions together cost more than the account has |
| `GivenUpIsRecorded`, `BackfillLost.cfg` | a chunk whose commits all failed is recorded as done: the report of the rolled-back import is still in hand |
| `StoredIsSkipped`, `BackfillRerun.cfg` | `sessions_between` includes both ends, so a window that is stored completely may be asked for again because of the session after it |
| `FailureIsCounted`, `BackfillCounted.cfg` | `sync_symbol` returns a provider's refusal as a report, and the pass counts the symbol as synchronised |

Seen while modelling and not stated as a property: a restart opens a frozen
slot; a row claims protection for a plain market order; the first `--dry-run`
writes and keeps baseline rows; `publish portfolio` and `monitor run` consume
market findings nobody publishes; `complete` overwrites "lease expired; presumed
crashed"; a flip of direction or an expiry leaves an announced signal never
closed; a death between `update_document` and `upsert_facts` loses the facts;
several failing documents are reported by the last one, so a failed fetch may
end as a permanent refusal; a degraded run's failed company, backed off in the
next run, lets the cursor pass its day; the backtest realises a result at the
opening of the exit bar; an unknown symbol in a backfill makes each of its
windows fail and be retried; a gap between the end of the backfilled range and
the first synchronised bar is not asked for by anyone; the introduction of
`market_data/backfill.py` says that resuming uses the newest stored bar, the code
uses the stored sessions of each window.

## 6. Not modelled

* Of the imports: splits and the rewriting of prices, which is arithmetic; the
  identity of instruments, quotes and the vendors' HTTP clients; the conversion
  of bars; a synchronisation started by hand, without a lease, beside a scheduled
  one; a stale symbol widening a batch until the provider times out.
* Features, signals, fundamentals, forecasting, advisor and portfolio fit:
  numeric computation over data frames, without control for a model checker.
* Rendering, the API and the bot: read-only surfaces.
* Configuration, logging, heartbeats, migrations.
* Inside the modelled components: gates other than those named above are one
  refusal; prompts, extraction and scoring are data. Outside the scanner's
  tables, where two processes write the same rows, a transaction is one step.
