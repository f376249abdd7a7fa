# CYBERTRADE: TLA+ models, model checking and proofs

CYBERTRADE is a Python terminal that trades binary options at one venue. A
decision loop turns candles into signals, a survivor and a risk governor veto
them, an order manager (OMS) debits a ledger and sends orders over a websocket,
and a checkpoint written around every mutation lets the process stop rather
than guess after a crash. This directory specifies that system in TLA+, checks
it with TLC and proves its safety properties with TLAPS. All paths below are
relative to `src/cybertrade/`; a doc is named with its path under `src/`.

## 1. Inventory

| Component | State | Operations | Meets | What is hard |
|---|---|---|---|---|
| OMS `execution/oms.py` | orders, fills, trades; one re-entrant lock | `submit`, `pump`, `close_position`, `transaction` | ledger, governor, adapter, continuity; called by loop, consoles, watchdog | several steps under one lock, each may raise; callbacks under the lock |
| Ledger `execution/ledger.py` | balance, entries | `stake`, `deposit`, `settle` | OMS | refund or no refund, adopted contracts |
| Continuity `continuity.py` | fault, in-flight marker, checkpoint file | `begin`, `commit`, `abort`, `restore`, `_fail` | every mutation | crash between the two records, spurious or forgotten holds |
| Risk governor `risk/manager.py` | exposure counters, quotas, locks, streak, peak, kill | `authorize`, `on_open`, `on_close`, `engage_kill`, `restore_state` | OMS, continuity, clock | midnight, backward clocks, restarts, long sequences |
| Venue adapter `brokers/quotex/adapter.py` | position book, queue of salvages | `connect`, `submit`, `settle_due`, `close_position`, `_reconcile` | OMS; the venue's reader thread | result event against local expiry and sell-back |
| Engine `bot/engine.py` | state, running, thread | `boot`, `arm`, `disarm`, `kill`, `clear_kill`, `shutdown`, loop | everything | unlocked flags written by many threads |
| Survivor `bot/survivor.py` | manual lockdown, news blackout | `evaluate`, `engage_lockdown` | engine | check then act, lifeboat |
| Watchdog, health, alerts, calendar `bot/` | beats, anomalies, windows | `sweep`, `note` | may call `engine.kill` from its own thread | timeouts against late beats |
| State files `statestore.py` | checkpoint, operator file, lease, heartbeat | atomic replace, `flock` | continuity, CLI | writers racing, lease order |
| Web console `web/server.py`, pairing `web/pairing.py` | pairing phase | commands, one thread per request | engine | concurrent commands, cancel against worker |
| CLI `cli.py` | queue of re-pairs, engine in service | rebuild, reseat | pairing, engine, lease | build-first while the lease is held |
| Venue client `brokers/quotex/client.py`, `api.py` | link and authorization | connect, reconnect, read loop | adapter, transport | two healers, reordered replies |
| Pacing, sync `brokers/quotex/ghost.py`, `sync.py` | sliding window | `acquire`, backfill | API | limits at the window's edge |
| Event bus `events.py`, tape `data/tape.py` | subscribers, history; the day's open file | subscribe, publish; write, detach | everything that publishes | delivery outside the lock, midnight, a delivery after detach |
| Transport `network/` | websocket and Socket.IO sessions, supervisor | send, ping, sweep | client | timeouts and backoff |
| Market data `data/` | candle series, live feed | tick, merge, subscribe | engine, client | out-of-order bars, double subscription |
| Pricing, sizing, calibration `quant/`, `risk/` | reliability cells, correlation labels | sizing chain, edge gate, union-find | engine, governor | rounding at a band's edge, labels that change under open orders |
| Signals `indicators/ regime/ strategies/` | loop accumulators, ensemble scores | one update per bar, votes, blend | engine | floating point; warm-up values; what a loop carries over a long tape |
| Desktop console `gui/` | stage, pairing worker, connections | boot gate, LINK pane, settings, quit | engine, adapter, CLI | a connection replaced under a live engine |
| Configuration, constants, logging | - | - | - | static data, not modelled |

What makes each part correct:

- **OMS, ledger, adapter, continuity** (money path): cash is conserved over
  refusal, refund, salvage, expiry and adoption; no contract is booked twice;
  the four books agree at every transaction boundary; a crash anywhere leaves
  evidence on disk; a runtime never trades beside contracts it does not know;
  caps bound what is really out at the venue; nothing is sent under a kill;
  exposure is always released while the loop runs.
- **Governor**: budgets cannot be replenished by clock steps or restarts; the
  loss limits bound what can be lost even with several contracts open; a lock,
  a cooldown and a breach last as long as they were decreed.
- **Engine**: one loop; a kill stops it for good; lockdown sells the book;
  commands return; what operators decide survives restarts.
- **Terminal** (CLI, pairing, lease): one writer per state file; a re-pair ends
  with a serving engine; a cancelled worker changes nothing.
- **Venue link**: one owner of the wire; the stream is restored with it; a
  rejected login is raised; events arrive once, whole and in order; a wire
  always comes back or is given up; pacing never exceeds its window; a sweep
  pushes no bar twice.
- **Account**: a book is never traded under an owner it is not bound to.
- **Desk** (bus, tape, watchdog, alerts, clusters, consoles, pairing): events of
  one topic in order where the code promises it, bounded files, caps per label,
  whole commands, one pairing, one session written.
- **Playbook and learning**: a harder tape is never traded more freely; what
  a strategy is judged by is what the journal holds.
- **Signals**: a loop keeps its reading inside what it has seen; a mirrored
  market gives the mirrored vote.

`PROJECT.json` lists the components, the hazards with their lines, the runs,
the seeded faults, the theorems, and the source lines behind every definition.

## 2. Plan and state

| Part | Modules | Run | Proofs |
|---|---|---|---|
| money path, crash and restart | `TradeBook`; abstract: `ContractLife` | `trade_book`, `_live`, `_venue` | `TradeBook_proofs` |
| clocked limits | `RiskGovernor` | `governor` | `RiskGovernor_proofs` |
| engine threads and latches | `EngineLifecycle` | `lifecycle` | `EngineLifecycle_proofs` |
| browser terminal, re-pair, lease | `Terminal` | `terminal`, `terminal_rebuild` | `Terminal_proofs` |
| wire to the venue and its healers | `VenueLink` | `venue_link` | `Venue_proofs` |
| frames, attachments, authorization | `WireStream` | `desk` | `Venue_proofs` |
| candles, sweeps, backfill | `CandleBook` | `candles` | `Venue_proofs` |
| account a book is bound to | `AccountSeat` | `desk` | `Venue_proofs` |
| request pacing | `Pacekeeper`; abstract: `Throttle` | `pace` | `Pacekeeper_proofs` |
| bus, tape, clusters, consoles, pairing | `EventBus`, `TapeRecorder`, `Clusters`, `WebDesk`, `Desktop`, `BrowserSession`; composed: `DeskWorks` | `desk` | `Desk_proofs` |
| watchdog, alerts, calendar | `Watchdog`, `Alerts`, `Almanac` | none | `Desk_proofs` |
| playbook and learning loop | `Playbook`, `EdgeLoop` | `edge` | `Readings_proofs` |
| votes, patterns, pivots, indicator loops | `Signals`, `Patterns`, `Divergence`, `Indicators` | none | `Readings_proofs` |

Every module planned at the start is written and every safety property that a
passing run checks is proved. Left to do: the calendar gate inside `EdgeLoop`;
the wire's reader of `WireStream` as the reader of `VenueLink`, so that the two
are one specification; the refuted definitions of section 6 as theorems'
counterparts (what weaker statement does hold); the arithmetic listed in
section 7.

The split follows who shares state. `TradeBook` has what the limits count
(exposure, cash, kill) without time, `RiskGovernor` has time without
identities. `EngineLifecycle` abstracts a whole OMS transaction to lock, one
book bit and two outcomes, because `TradeBook` shows what happens inside it.
`Terminal` reduces everything other threads do to an engine to what
`_needs_rebuild` asks. `VenueLink` says which wire lives, `WireStream` what its
bytes become, `CandleBook` what is kept of them, `AccountSeat` whose they are.

## 3. The modules

### TradeBook and ContractLife

State is the state of the code under the code's names: `orders` is
`oms.orders`, `positions` the adapter's book, `cash` the ledger, `riskCash`,
`openCount`, `stakeSum` and `openAssets` the governor, `disk` the checkpoint,
`kill` and `fault` the latches. The OMS lock is `op` (which transaction holds
it) and `step` (where in its body it is): a transaction is `Begin...` (the
BEFORE record), body steps and `Commit` (the AFTER record), and at each of them
the process may crash, the venue may resolve a contract (`VenueResult`, which
takes no lock, like the reader thread), the operator may press kill
(`PressKill` is the unlocked half) and writes may fail: `save_state` replaces the
file before it syncs the directory, so a write that is reported as failed may or
may not have replaced the checkpoint (`FailedWrite`). `OperatorReview` is the
offline reconciliation `docs/RECOVERY.md` prescribes after a hold.

`stop` is where `engine.shutdown` is. It waits three seconds for the loop. If
the loop has ended it commits once more under the OMS lock and frees the lease;
if not, it calls `_fail` without that lock (`JoinTimesOut`), so the hold and the
latched kill may strike in the middle of a transaction, and the lease is kept.
`past` says that a thread went through `assert_ready` just before it would have
raised and has not written yet: such a thread still begins or commits a
transaction in a hold.

| Code | Actions |
|---|---|
| `OrderManager.submit` | `BeginSubmit`, `Veto`/`Authorize`, `Send`/`SendBroken`/`Refuse`, `Register`, `Commit` |
| `OrderManager.pump` | `BeginPump`, `Collect` (any due subset), `Book`, `BookDone`, `Commit` |
| `close_position` | `BeginClose`, `CloseGone`, `Sell`, `Mark`/`MarkUnpriced`, then as pump |
| `kill`, `clear_kill` | `PressKill`, `BeginKill`/`KillMoot`, `EngageKill`; `BeginClear`, `ReleaseKill` |
| `boot`, `arm`, the loop's end | `Connect`, `Restore`, `Arm`, `LoopExit` |
| `shutdown` | `StopLoop`, `JoinEnds`/`JoinTimesOut`, `ShutdownCommit`, `FreeLease`, `Exit` |

All contracts have one stake, profit and salvage; amounts are whole units, so
rounding is not modelled; expiry is "may be due at any time".

`ContractLife` is what the money path promises of contracts and has no line of
code: a contract is opened at most once and only within the caps, stays
unresolved until it is booked, is booked at most once, and is given up only
when nothing is open at the venue any more. `KeepsContracts` is `TradeBook`'s
refinement of it.

### RiskGovernor

`gov` is `risk.state`. A call reads the clock, rolls the windows and decides,
so `Authorize`, `Reject`, `Close` start from `Rolled(gov, clock)`. An order is
two steps (`Authorize`, then `Open` or `Refuse`), because pacing and sending
take time between them. `clock` moves forward to any instant, and back at most
`MaxSteps` times. `Restart` is `continuity.restore`: the saved governor, rolled,
with the cash the venue reports; a checkpoint from the future is accepted within
`FutureTolerance` (the code's 60 seconds). Stakes are the maximal one, fractions are
percentages in integers.

### EngineLifecycle

Threads are loop generations (`Loops`) and callers of the engine (`Consoles`:
request threads, the desktop, the watchdog). `at[t]` is the point a thread has
reached; each unlocked read or write of `state`, `_running`, the latches or the
survivor's flag is a step. `engineLock` is the lock of `arm`, `owner` the OMS
lock. Both are contended, and every wait is a place a thread stays at: an arm
waits for the engine lock at `arm_lock` and, holding it, at `arm_join` for a
loop that may itself be waiting for the OMS lock. That join has a timeout in the
code (`ArmTimesOut`); it may strike, but no fairness makes it, so that
`CommandsReturn` says that nothing needs it. `Begin` and `Commit` carry the hold a failing checkpoint causes. What the
code does with `StateError` is kept: a cycle that raises starts over, a kill
that raises in the loop's own handler ends the thread. `Save` always succeeds:
a failed write of the operator file is reported by a return value nobody reads,
and would only add ways to lose the file. Left out: `rewarm`, which holds the
engine lock for two assignments; a cycle that dies on an exception other than
`StateError` before it reaches the lifeboat; `shutdown`, which is in `TradeBook`.

### Terminal

Three kinds of threads meet without a common lock. Requests (`Start`, `Cancel`)
are single sections of the controller's lock. `at[a]` is where the worker of
attempt `a` is in `_done` and in `_run_web`'s `_on_ready`: it asks for its epoch
once (`Land`) and then writes the session, the purse and the queue one after the
other. `serve` is where the serving thread is: `TakeUp` pops a cookie and
chooses, `Reseat` is `_reseat_session`, and `BuildPurse` to `Boot` are
`_build_engine`, which reads the configuration while workers may be writing it.
`lease` is the lock on the checkpoint file; it belongs to an open file, so two
engines of one process exclude each other too. `durable` is whether
`continuity_path` is set. `EngineRuns` is everything other threads may do to the
engine meanwhile. Session and cookie jar are one value; `error` says who
refused, not in which words. An engine that fails to boot
behind a swapped one still reports (`Boot` may note an error). An interrupt of
the terminal is not modelled, nor a first boot that fails for another reason
than its session: the process ends.

### VenueLink

A `QuotexSocket` object is a wire; `link[w]` holds its two threads (`reads`,
and `heal`, where its pumper is in the reconnect loop), its flags (`run`,
`shown` = connected, `was`, `beat`), its connection `net`, its session and `fed`,
whether the subscriptions have been sent on it. `service` is `api.socket`.
`Callers` are the two threads that call `api.connect()`, the engine loop through
`ReconnectSupervisor.sweep` (`SweepUp`, `SweepDown`, `BackoffOver`) and the
serving thread through `_reseat_session` (`Reseat`); `at[c]` walks through
connect: close and forget the old socket, dial each host, shake hands,
authorize, adopt, replay. `api.connect()` takes no lock, so callers interleave
with each other and with every socket that is still alive. `Cut` is the network,
`SessionDies` the venue; both are bounded or happen once. `overlap` is a history
variable: two connects were under way at once.

### WireStream

`stream` is what the venue sent on this connection and is not read yet, in
frames; `sent` and `events` are histories of what was sent and dispatched. A
frame is read in two reads, `ReadHeader` and `ReadPayload`, and a read may time
out before, between or inside them (`ReadTimesOut`); after a timeout inside a
frame the reader takes payload for a header (`Misread`). `parts` are the
fragments `recv_message` collects, `mark` and `got` the placeholder and its
attachments, `authorized` and `faulted` the flags that the reader writes and
`authorize()` polls on another thread. `login` is where that thread is: the
reader runs while it is still `dialling`, `AuthorizeBegins` clears the rejection
flag and sends the session frame, and the two flags are polled one after the
other. `first` is what the reader handled first since that frame, and `early`
that the wire counted as authorized before it. When a connection is replaced the
old reader is taken to have finished the message it was at.

### Pacekeeper and Throttle

Each sender takes the gate's lock, computes how long it has to wait, sleeps
while it holds the lock, stamps (`last`, `orders`) and lets go; the frame leaves
after that (`Leave`), when it gets to. `orders` with the index `popped` is the
deque `_order_ts`; `wire` holds, for the property only, who sent an order how
long ago within the last window. `Throttle` is the promise without locks and
sleeps: frames of a class a gap apart, and at most `MaxOrders` in any sliding
window. It has no line of code.

### CandleBook

`book` is the candle series, `cache` the api's venue candles. Writers are the
wire's reader (`Quote`, `Generated`, `History`); the `Healer`, which is whoever
owns the reconnect lock, reader or pumper, and runs every registered listener's
backfill before it lets the lock go (`again`); one refresher per arm that started
the feed (`Start`, `handlers`); and the `Warmers`, the engine's retries of a dry
warmup and the adoption of an asset. A reconnect by the supervisor runs no
listener. A sweep asks, waits, and pushes what is `left` candle by candle;
`step[t]` is where it is and `raced[t]` whether something else was pushed since
it computed what to push. The series starts full or empty: boot only fails when
every asset together has nothing. A candle is its bucket.

### AccountSeat

A session cookie is worth an account that the code only learns when a push names
it. `apiSeat` is what the api believes (cookie, user, purse), `wireOf` whose
session the wire really carries, `pushed` what the last balance said, `owner`
what the continuity object pinned, `bookFile` the checkpoint. The boot is
`LiveApi`, `VerifyData`, `EnsurePurse`, `ReproveData`, `ReadCash`, `Restore`,
`FirstCommit`; an order is `BeginOrder`, `SendOrder`, `CommitOrder` under the
scope check of `continuity._scope`; a re-seat is `SetSsid`, `CloseWire`,
`OpenWire`; the desktop's is `Relink`. `Push` and `VenueData` may come between
any two steps.

### EventBus, TapeRecorder, Watchdog, Alerts, Almanac, Clusters

- `EventBus`: a publication takes a snapshot (`Publish`), then `Deliver`s to one
  handler after the other with no lock, then returns. `Serial` topics are those
  published under the OMS lock. Handlers are told apart by what they heard last.
- `TapeRecorder`: `Write` is the whole locked method: choose the day's file,
  open the next part when it is full, append or count as dropped. A delivery in
  flight (`inflight`) may still write after `DetachTape`.
- `Watchdog`: a `Sweep` collects anomalies under the lock and `Note`s them one
  by one; the engine loop and the watchdog threads sweep alike. `Start` is
  `arm`'s call, `Stop` joins the last thread only.
- `Alerts`: one step per rule handler.
- `Almanac`: the estimated calendar and its two questions as operators on
  weekdays and windows.
- `Clusters`: a run of `clusters()` is `Recluster`, a `Compare` per pair and
  `Label`; `Ask`, `Open` and `Close` are the governor's counters under the label
  an order was asked with.

### WebDesk, Desktop, BrowserSession, DeskWorks

- `WebDesk`: one handler thread per connection: a command reads `hub.engine`
  once and makes its `calls`; a state answer reads it several times; a stream
  has a bounded queue which `Put` fills and the handler drains; `Adopt` replaces
  the engine in between. `stray` is what an unread body leaves on the connection.
- `Desktop`: `stage` goes from the flags and prompts through the gate to the
  window; a pairing worker's report is `due`; the LINK pane is `LinkApi` to
  `LinkOms` and replaces the connection part by part while `Command`,
  `LoopOrders` and `SupervisorSweeps` go on.
- `BrowserSession`: one pairing poll by poll, with the time each call may take;
  the operator (`LogIn`, `BrowseTo`, `QuitChrome`) acts between any two.
- `DeskWorks` is the conjunction of `TapeSpec`, `WebSpec`, `DesktopSpec` and
  `BrowserSpec`, which share no variable; `DeskKeeps` is what it promises.

### Playbook and EdgeLoop

`Playbook` is pure: regime, posture, vetoes, session and slippage tables, the
sizing chain and the edge gate, in whole numbers with the code's roundings.
`EdgeLoop` is the loop around it: `Candle` asks the members and blends, `Execute`
judges the plan (ward, playbook, edge) and opens, `InjectSignal` is a console's
order, `Settle` teaches calibrator, journal, ward and scores, and `Boot`,
`Release`, `PersistCalibration` and `Crash` are the life of the calibration file.

`Settle` ends in `_check_decay`, which swallows what it raises: `CheckDecay`
brings ward and voter skip in step, or dies on the way with some of the speaking
names judged and the skip untouched (any subset of them: the code's order is
worst first, so this allows more than it does). `checked` is whether the last
one came to its end. A shutdown frees the lease (`Release`) before it saves what
the session learned (`PersistCalibration`): those books are `late`, and a boot
in between has read the old file (`overlap`). The same order is taken by a
rebuild without a `continuity_path`, which boots the fresh engine before it
retires the old one; there the old session is taken to learn nothing more once
the fresh one has booted, and a save that a shutdown never reaches is a late book
that is never written. A boot may adopt contracts it did not place; the journal
calls them `unknown` and the calibrator `manual`. `RegimeCal` is
`risk.regime_cal`.

### Signals, Patterns, Divergence, Indicators

`Signals` and `Patterns` are the strategies' votes and the candle patterns as
operators on what they read, `Divergence` the pivots, events and their ages,
`Indicators` a state machine whose step is one closed bar (`ReadingNext`) and
whose fields are the accumulators the indicator loops carry. Prices are whole
ticks and averages exact fractions.

## 4. What the runs show

| Run | Instance | Checks | Shows |
|---|---|---|---|
| `trade_book` | 2 orders on 2 assets, cap 2, 2 processes that crash or are shut down and a last one, venue balances 6 and 16 at a stake of 4 | `BooksBalance`, `CrashSafe`, `NoStrangers`, `AgreeAtRest`, `NoOrderUnderKill`, `HoldKeepsEvidence`, `KillPersists` | money, evidence and kill over all interleavings |
| `trade_book_live` | 2 orders, cap 1, 1 process that ends and a last one, fair loop | `ExposureReleased`, `KeepsContracts` | exposure is released; the money path implements `ContractLife` |
| `trade_book_venue` | 2 orders, cap 2, 1 process that ends | `VenueResultBooked` | violated: a venue result is never booked (finding) |
| `governor` | days of 3 instants, hours of 1, 1 order an hour, 2 a day, loss 20 %, drawdown 40 %, cooldown 2, clock 3..7, 1 step back, 1 restart, tolerance 1 | `Quotas`, `Floors`, `LockHolds`, `CooldownServed`, `DrawdownStops` | limits over midnights, restarts, a clock that goes back |
| `lifecycle` | 1 console with all 7 commands and 1 that arms, 2 loop generations, fair threads | `OneLoop`, `KillStops`, `LifeboatSails`, `CommandsReturn` | one loop; a kill stops it; the book is sold; nothing deadlocks |
| `terminal` | 2 attempts, 1 purse, fair workers and serving thread | `WaitingIsServed`, `LeaseServes`, `LiveBookKept`, `WaitingEnds`, `CookiesTakenUp` | the veil is answered, cookies are taken up, one writer, no live book is orphaned |
| `terminal_rebuild` | 2 attempts, 2 purses | `RebuildServes` | violated: a rebuild cannot boot beside the engine it replaces (finding) |
| `venue_link` | 5 wires, 1 host, 1 heal, 2 supervisor attempts, 1 fault, 1 re-seat, fair threads | `OneOwner`, `StreamRestored`, `LinkHeals` | who owns the wire, what is restored with it, that it comes back or is given up |
| `desk` | eight parts, one moves in a behaviour (below) | `Faithful`, `CapPerLabel`, `DeskKeeps`, `RejectHeard`, `SerialInOrder`, `AccountHeld` | events once, whole and in order; caps per label; tape, consoles and pairing; the account |
| `pace` | 2 threads, window 3, 2 orders a window, time 0..6 | `WireBurst`, `Throttled` | `Pacekeeper` implements `Throttle`; what the wire sees of it |
| `candles` | a healer, 1 warmer, 1 refresher, buckets 0..3, replies, series and cache of 2, 2 drops, 2 starts, fair threads | `SweepsDoNotDouble`, `CatchesUp`, `HealsAgain` | no bar pushed twice; a series that has had a bar catches up; the healing thread never waits for itself |
| `edge` | 2 members and a console, 3 tapes, 2 places, 2 open at once, 3 trades, 2 boots | `WardFollowsJournal`, `TapeHeeded`, `LessonsKept` | the ward over checks that die, the playbook, and what is learned across the ends of processes |

**Bounds.** *Money path.* Two orders are every race of two contracts; in
`trade_book` both fit the cap and in `trade_book_live` one of them is too many.
Two orders on one asset, and larger sets, are left to the theorems. Every end of
a process counts, so `MaxEnds` 2 gives three processes: the second meets what a
crash, a clean or an abandoned shutdown left (file, exposure, marker), and the
third what the second made of it. The two balances allow one stake and four, so
cash runs out before the cap does, and a restart can meet a deposit or a
withdrawal. In the live run a contract pays and salvages nothing, which the two
properties do not look at.
*Governor.* Three-instant days with the clock at 3..7 span two midnights, hour
windows inside a day, a cooldown across midnight and a step back over it; the
daily limit trips after one loss and the drawdown after two, so lock, cooldown
and kill happen in every order; one instant of tolerance is the step back the
clock can make. *Lifecycle.* A console against a loop slow to stop, the next
generation armed meanwhile, and a second thread that arms too, so that both locks
and the join are waited for. *Terminal.* Two attempts are a
late worker and a newer one; the properties do not look at purses. *Link.* Five
wires are one in service, one for each caller and one for each that an earlier
connect left behind; with fewer, `Retired` would be disabled and hide
behaviour. One fault hits at any step, and healers, supervisor and re-seat race
on it. *Pace.* Six units are two windows. *Candles.* Healer, warmer and
refresher are one thread of each kind that sweeps; four buckets fill the series
and the cache beyond their limits, two starts make the healer run two listeners,
and the second drop comes while it does. *Edge.* Two trades bench a member or put
a name in the ward, a third, which the console only watches, shows what follows;
two boots are one end of the process and what comes after it, with the save of
the first before, between or after.
*Desk.* The eight parts share no state, and what one does cannot change what
another can do: a behaviour of their composition is a shuffle of one behaviour
of each. `mover` picks the one that moves, which leaves out no behaviour of any
part. Bounds there: 3 events on 2 connections; 2 publishers, 2 handlers, one of
them one-shot; 2 days of tape with 2 parts; 3 assets in 2 currencies, cap 1; 1
browser connection, 2 publishing threads, 2 engines; 6 sets of flags, 2 links
and 1 open contract; a wait of 1 with time passing in the exchange with Chrome;
2 accounts and 1 re-seat.
`SYMMETRY` is used in `pace` only (threads), for safety properties.

Every property is paired in `PROJECT.json` with a seeded fault, an alternative
definition in the module (marked "Seeded fault") under which TLC finds the
property violated.

**Deadlock.** `terminal`, `terminal_rebuild`, `pace`, `candles`, `venue_link`,
`desk` and `edge` may stop: operators run out of attempts, clocks, faults,
events, trades and boots reach their bounds. All other runs check it.

**Fairness.** `trade_book_live`: a transaction that runs goes on (`WF` on the
steps under the lock: they are sequential code), the loop pumps again and again
(`SF(BeginPump)`: it sleeps a bounded time and then takes the lock), and a
contract collected again and again is due at some time (`expiry` is finite).
None for crashes, the operator, the venue or a shutdown; one that has freed its
lease (`stop = "leaving"`) may still let a transaction through that asked before,
and nobody books it in that process. `lifecycle`: `SF` on each thread's
next step. The lock is contended, so weak fairness would not give it to a
thread; Python's lock is not formally fair, but holders release it after bounded
work and sleep between cycles. A join is passed when its loop has ended, never by
its timeout. The last conjunct says that a sell-back repeated
for ever meets a quote at some time: the loop retries it every cycle. A recovery
hold ends the lifeboat's promise, since no transaction runs in one. `terminal`:
`WF` on each worker (Chrome's wait has a timeout) and on the serving thread (one
thread, whose venue calls have deadlines); none for the operator or the engine.
`venue_link`: `WF` on each caller inside `connect` (every step has a deadline),
on the three branches of the supervisor's sweep and on reader, pumper and healer
of each socket; none for faults, re-seats, the venue's acceptance or a send that
fails. `candles`: `WF` on the sweeps (a request has a deadline) and on the refreshes,
on the venue's reply to a history request, on the reconnect and on the feed's
start; none for quotes, warmups, the clock and drops.

## 5. What is proved

The theorems hold for every value of the constants under the assumptions named
in the modules (or, where a module states none, in the `ASSUME` of the theorem:
limits are positive numbers, sentinels are not members). `PROJECT.json` lists the
main ones; the modules prove more, type invariants and mirror images of votes
among them.

### TradeBook_proofs

`MoneyConserved`, `NeverBookedTwice`, `CrashEvidence`, `NoUnknownContracts`,
`SnapshotsAgree`, `KillSurvives`, `CapHolds`, `AssetCapHolds`, `KillIsFinal`,
`EvidenceSurvives` and `ContractsKept`, for any finite set of orders, any assets
and amounts, any cap and any number of processes, all from
`Invariance`, `Spec => []IInv`. `KillIsFinal` excepts a shutdown that gave up on
the loop, and `EvidenceSurvives` says who may still write in a hold and that what
is then written tells the book: section 6 has the stronger statements the
documents make, which are false.

None of the properties is inductive alone. Money is kept only if a settlement is
booked once, which needs to know that it sits in exactly one of position book,
queue, running batch and trade records (`FlowOK`); caps at the venue hold across
restarts only because the file names what is out (`CrashSafe`) and a restart
with exposure holds (`AllKnown`, `DiskOK`); and authorization bounds the venue
only if the governor counts exactly what is exposed (`CountersOK`, `CapOK`).
Since a hold may strike inside a transaction, those statements are not asked of
healthy states but of every state in which something may still be written or
booked (`Writable`, `Sound`); `WritableSince` and `SoundSince` carry them over a
step.
There is one lemma per conjunct, with one step per action. `ContractsKept` is
the refinement: initial states map to initial states and each action to one of
`ContractLife` or a stutter, with `IInv` and its primed form at hand.

### RiskGovernor_proofs

`QuotasKept`, `FloorsKept`, `LockKept`, `CooldownKept`, `DrawdownKept`, for all
limits, stakes, lengths of hour and day, restarts and steps of the clock. The
idea of `IInv` is that each part is asked of the running governor *and* of the
one on disk, since a restart exchanges the second for the first and an
authorization rolls the clock without saving it. `Budgets` ties the counters of
the window a governor believes in to what has been let out since the first
instant; `Peaks` and `DayFloors` bound the losses that open contracts may still
bring; `Locks` and `Cooldowns` carry the verdicts as history. The arithmetic of
`\div` and of percentages is in lemmas of its own.

### EngineLifecycle_proofs

`SingleLoop` and `KillIsEffective`, for any consoles, commands and loop
generations, from
`IInv == TypeOK /\ LocksOK /\ LoopsOK /\ Racing /\ KillStops`.

- `LocksOK`: a thread inside a transaction or inside arm is the holder of that
  lock, and no one works inside a transaction during a hold.
- `LoopsOK`: the only thread that may be alive is the one the engine remembers,
  and an arm past its join finds none alive. `OneLoop` alone is not inductive:
  `ArmStart` would add a second loop in a state where a forgotten one lives.
- `Racing`: whenever an arm is past its gates while a kill is latched or on its
  way, or the engine shows KILL and its loop may go on, the overlap is on
  record in `raced`, or a `clear_kill` is in progress. `_enter_kill` leaves
  `_running` alone when the state is KILL already, so `KillStops` depends on
  that state never standing beside a running loop by itself. `raced` is a
  history variable: no step reads it but to update it.

### Terminal_proofs

`VeilServed`, `OneWriter` and `BookStaysServed`, for any attempts and purses,
from `IInv == TypeOK /\ WaitingIsServed /\ LeaseServes`. The last theorem says
why the invariant is worth having: between the check of `_needs_rebuild` and the
swap an engine may come to life, and the only thing that keeps its book from
being orphaned is that the lease of the engine in service excludes an engine
that boots. A repair of the rebuild path has to keep that. Without a checkpoint
file nothing excludes it, and the theorem says nothing.

### Pacekeeper_proofs

`PaceThrottles` (the refinement of `Throttle`), `SleepsEnd` (a sleep lasts at
most the larger of gap and window) and `BurstIsBounded`, for any senders, gaps,
window and limit. `IInv` says that what a sleeper computed before its sleep is
still right when it wakes, because it holds the lock (`SleepInv`), and that what
was popped from the deque has left the window (`DequeInv`). `BurstIsBounded` is
about the frames themselves, which leave after the lock is released: a window of
the wire holds at most the limit and one more order per other thread. The proof
keeps the orders of the last window as records of number, thread and age, shows
that a thread delays one order at a time, and counts numbers and threads by
injections.

### Venue_proofs

- *Link.* `OneOwnerHolds` and `StreamIsRestored`, for any wires, hosts, limits,
  faults and re-seats, from
  `LinkInv == TypeOK /\ Hands /\ FedSoon /\ (overlap \/ Ownership)`.
  A socket is held exactly where connect has built one (`Hands`); a wire in
  service that runs and is up has its subscriptions or some connect is about to
  replay them (`FedSoon`); and while connects do not overlap, the connect in
  progress has taken the old socket out of service before it dials, so every
  live socket is in service or in its hands, with the session of this moment
  (`Ownership`). With an overlap `Ownership` fails, which is `OneWire` of
  section 6.
- *Sweeps.* `SweepsMergeOnce`: what a sweep has left to push is sorted, without
  duplicates and beyond the series unless somebody wrote meanwhile. Sorting by
  `SetToSortSeq` needs that a finite set of numbers can be sorted at all
  (`SortedExists`), proved by counting the smaller elements.
- *Frames.* `StreamIsFaithful` and `RejectsAreHeard`. `WireInv` is the grammar of
  an unread stream: whole messages, but for what has been read of the first
  (`Pending`), in the order they were sent, after everything that was dispatched.
  It holds until a read times out inside a message, after which only what the
  history says of it is kept. `RejectsAreHeard` counts from the session frame: a
  rejection that is the first thing handled after it is never looked past, unless
  the wire was authorized before.
- *Account.* `AccountIsHeld`: while an engine boots, wire and api have one
  session and what was pushed is its account's (`BootsOnOne`); once it is up
  without a hold its owner is pinned and the file is his (`Bound`).

### Desk_proofs

For the bus `HistoryIsKept`, `OnceHolds`, `SerialEventsStayInOrder` (one
delivery of a serial topic at a time, and no handler ahead of it); for the tape
`TapesAreBounded`, `LinesAreAccounted`; `WatchdogNeverKills` (with the detectors
that nobody feeds, no sweep is ever fatal: the watchdog's kill is dead code in
this program); `AlertsRingOnce`; `LabelsAreCapped` with the union-find's
invariant (every asset points at or below itself and roots at themselves), and
`LabelsAreSmallest`, `TiedAssetsShareALabel`; for the calendar
`PayrollsInFirstWeek`, `ActiveIsListed`, `BlackoutCoversVeto`. `ConsoleIsOrderly`
follows the casts of each thread through queue and stream and each command
through its calls; `DesktopIsOrderly` keeps wires as they were picked, closed
before they are replaced, and accounted for; `PairingIsOrderly` bounds the wait
step by step. `DeskIsKept` composes the four for `DeskSpec`.

### Readings_proofs

- *Votes.* Signals and patterns turn with the market (`PatternsTurn` and one
  theorem per family); `EmaCrossNeverFires`; `BlendNeverMints`: the ensemble is
  never surer than its winners' average; `WeightsStayNarrow`; for divergences,
  `EventsSettle` and `ConfirmedTooEarly`.
- *Indicator loops*, for any tape and any period of two or more: averages stay
  among the prices, volume lines within the volume (`AveragesStay`), the stop and
  the trend line keep off the bars and only come closer (`StopStaysClear`,
  `TrendLineHolds`), and two defects as theorems: `PhantomPull`, `FrozenIndex`.
- *Playbook and loop.* `StakeBand`, `HarderTimesHeeded` (monotonicity of the
  whole chain from tape to stake; it needs `crisis_stake_scale <= 1`, which the
  configuration does not enforce), `CrisisStandsDown`,
  `EdgeGateRaisesToTheMinimum` (a thin edge brings every stake below the venue's
  minimum to exactly that minimum, and raises no other); of `EdgeLoop` the three
  properties its run checks, `WardInStep` (whatever earlier checks left half
  done, one that ends puts it right), `TapeIsHeeded` and `LessonsAreKept`. The
  last excepts boots that could not read the file or that came before an earlier
  session had saved. It rests on `LessonsInv`: a session that could read the file
  knows at least what the file holds, so does a book that is still to be saved,
  and a process that was refused knows nothing, so that its save leaves the file
  alone. The count is kept beside the fold over the voters
  (`ObserveVotes`), one lesson each; what the fold computes for each cell needs
  induction over data and is only model-checked.

## 6. Only model-checked, and refuted

Only checked by TLC: liveness, which is outside the proof system's reach
(`ExposureReleased`, `LifeboatSails`, `CommandsReturn`, `WaitingEnds`,
`CookiesTakenUp`, `LinkHeals`, `CatchesUp`, `HealsAgain`); the two violated
properties. `GuardsEnd` of `Watchdog` was checked on a small
instance and has no run. `Watchdog`, `Alerts`, `Almanac`, `Signals`, `Patterns`,
`Divergence` and `Indicators` have theorems and no run.

Two disagreements between code and documents are findings with a run
(`brokers/quotex/adapter.py:276`, `cli.py:522`). The modules hold more
definitions that state what a document says and that the model refutes. Each can
be reproduced by adding its name to the cfg of the module's run (an MC module of
the same shape, where the module has none).

| Definition | Module | What the source says | What happens |
|---|---|---|---|
| `KillIsAbsolute` | `TradeBook` | `docs/ARCHITECTURE.md:52` "kill switch \| no trades" | a shutdown whose join times out latches the kill without the OMS lock; the order inside is sent |
| `FilePreserved` | `TradeBook` | `continuity.py:149` "state file preserved"; `docs/RECOVERY.md:100-101` "The original file is preserved, even on shutdown" | a thread past `assert_ready` writes after the hold has struck, and so does the shutdown's commit that waits for the lock |
| `ArmRespectsKill` | `EngineLifecycle` | `README.md:202` "backend gates enforce it regardless of UI" | an arm past its gate goes LIVE over a kill latched meanwhile |
| `OperatorStateSaved` | `EngineLifecycle` | `README.md:336-337` lockdown, unlock and `clear_kill`'s unlock "all persist" | two saves at once: the older dict may be written last (a second console with posture commands) |
| `LockLastsTheDay` | `RiskGovernor` | `risk/manager.py:607` "Only a genuine later UTC day resets daily limits" | a lock tripped after a step back over midnight ends on its own day (`DayLength` 4) |
| `OneWire` | `VenueLink` | `brokers/quotex/api.py:313` "never leave a ghost socket behind"; `README.md:273` "no ghost wires" | two connects at once leave two live sockets |
| `NoMasquerade` | `VenueLink` | `brokers/quotex/client.py:229-231` raises "instead of masquerading as a live login" | a stopped socket is still shown as connected |
| `QuietIsHarmless` | `WireStream` | `client.py:300` "Quiet wire, not a dead one — keep waiting" | a timeout inside a frame loses its place, events are lost or misread |
| `NeverMasquerades` | `WireStream` | `client.py:226-231` a session fault raises "instead of masquerading as a live login" | the reader runs before `authorize` clears the rejection flag: one heard by then is forgotten, and a quiet wire is a login |
| `NeverBlind` | `CandleBook` | `data/livefeed.py:12` "a blind trader is worse than a stopped one" | one asset without a candle boots with the others, and no backfill fills an empty series |
| `HolesAreFilled` | `CandleBook` | `data/livefeed.py:16-17` "a dropped wire never leaves stale bars in the books" | bars older than the series' tail are never asked for |
| `LearningSurvives` | `EdgeLoop` | `bot/engine.py:394` "so learning survives process death" | a session that boots between another's release and its save writes fewer lessons over more |
| `VoterSkipInLockstep` | `EdgeLoop` | `bot/engine.py:358` "keep the ensemble's voter skip in lockstep with the ward" | a check that dies after the first name leaves the ensemble with the old ward |
| `Once` | `EventBus` | `events.py:114` "Subscribe to a single occurrence" | two overlapping publications both call it |
| `AlwaysInOrder`, `QuietAfterUnsubscribe` | `EventBus` | what subscribers assume | snapshots overtake each other; a snapshot outlives `unsubscribe` |
| `RecordingBounded`, `LinesOnTheirDay` | `TapeRecorder` | `data/tape.py:5-6` "Recording is bounded (bytes per file, files per day)" | the file open at midnight is written on, without a limit |
| `DetachedIsClosed` | `TapeRecorder` | `detach` closes the file | a delivery under way opens one again |
| `OneGuard` | `Watchdog` | `stop` joins the thread | each arm after a disarm adds a watchdog thread |
| `CapPerCluster` | `Clusters` | `README.md:135` "correlation-cluster caps" | orders asked before and after a run count under different labels |
| `ClearOfBoth` | `Almanac` | a news blackout for the asset | a release of the base currency stops nothing |
| `StreamsEnd`, `KeepAliveInStep` | `WebDesk` | what an HTTP server does | a client that hangs up before the headers stays listed; an unread body is read as the next request |
| `OneEngineShown`, `CommandsReachService` | `WebDesk` | the console shows and commands the engine in service | `hub.engine` is read several times and replaced between; a kill reaches a retired engine and is answered ok |
| `BookKept` | `Desktop` | `cli.py:222` "a rebuild must never orphan a live book" | the LINK pane replaces the connection of a live engine |
| `OneWireUp`, `FeedFollows` | `Desktop` | `README.md:305` a re-pair "re-arms on the new cookie" | the supervisor revives the closed connection; the feed stays on it |
| `WiresAlike`, `SettingsValid` | `Desktop` | the configured pacing; a validated configuration | the gate's and LINK's connections are untuned; `_save_config` assigns before it validates |
| `LoginLands`, `TradePageToken` | `BrowserSession` | `brokers/quotex/pairing.py:367` "Poll Chrome until the human's login lands"; `:313` "Read the trade page's session token" | an old cookie of the profile is taken at once; another page's token is taken |
| `OrderOnOwner` | `AccountSeat` | `docs/RECOVERY.md:46` "an in-process account switch is a safety hold" | until the new session's first balance the old one answers for it |
| `BootsOnCash` | `AccountSeat` | `docs/RECOVERY.md:110` "Cash always comes from the venue" | the first balance may land between the read of the cash and the pin of the owner |
| `SwitchProven` | `AccountSeat` | `api.py:530` "then proves data STILL flows" | what was on its way before the switch proves it |

Defects of the indicators, visible in `Indicators` and `Signals` and in part
proved: the EMA cross never fires; a late line's signal averages the zeros of
its warm-up; the strength index freezes on a dead tape; the flat window of the
stochastic reads the middle; the vigor index falls back on a doubled close;
crossovers latch over bars without a reading; on a reversal the parabolic stop
may lie inside the bar; SuperTrend's bands can cross; the cloud is not
displaced.

## 7. Not modelled

Floating-point rounding; rendering, encoding, argument parsing and logging; the
configuration. Kelly and fixed sizing, martingale, realized volatility, the
pricing formulas and Monte Carlo; the adaptive expiry; the calendar gate inside
`EdgeLoop`; the ensemble's best-vote mode and its limit on votes; indicators
that carry no state; trade analytics and health counters; the catalog search,
header parity, TLS and proxies. The governor's payout and per-strategy limits
are a veto that may happen at any time. `ContractLife` and `Throttle` are
abstract specifications and stand for no code; modules named `MC...` are
instances.
