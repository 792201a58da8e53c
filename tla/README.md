# LOB-X: models, checks and proofs

LOB-X is a limit order book and market-making laboratory: a C++ matching
engine, a collector that rebuilds Binance's book from its public streams, and a
paper exchange on which quoting strategies trade, live or on recorded data. This
directory holds TLA+ modules translated from that code, the TLC configurations
that check them and TLAPS proofs about them. `PROJECT.json` lists components,
runs, mutants (deliberate mistakes each property must catch), the source lines
of every definition, findings, hazards and theorems.

Paths below are relative to the repository; `lobx/` stands for
`backend/python/lobx/` and `cpp/` for `backend/cpp/`.

## 1. Inventory

| Component | State | Operations | Talks to |
|---|---|---|---|
| C++ order book, `cpp/src/order_book.cpp`, `cpp/include/lobx/` | two price maps of FIFO levels with cached totals; `order_index_` from id to (price, side, list iterator) | `add_limit_order` (FOK pre-check, match, rest), `cancel`, queries | called by the engine, the API and the mirror |
| Matching engine, `cpp/src/matching_engine.cpp` | a book, five counters, a trade callback | `submit`, `cancel`, `on_trade` | calls the book; calls user code once per trade |
| REST API, `lobx/api/` | one cached book, one lock | submit, cancel, snapshot, stream | threads share the book under `book_lock` |
| WebSocket client, `lobx/market_data/binance_ws_client.py` | connection, back-off delay, stop flag | `run` (receive loop, reconnect), `stop`, `force_disconnect` | awaits `on_message`, `on_disconnect` |
| Depth synchronisation, `lobx/market_data/depth_stream_manager.py` | `_state` (synced, syncing, cursor, buffer), book, generation | `handle_event`, `mark_desynced`, background `_sync` tasks | REST snapshots; the collector awaits it |
| Collector, `lobx/market_data/collector.py` | generations written / mirrored, callbacks, writers | message routing, baseline, heartbeat, close | depth sync, writers, mirror, callbacks |
| Engine mirror, `lobx/market_data/engine_mirror.py` | a C++ book of synthetic orders, `_levels` | `load_snapshot`, `apply_depth_event` | the C++ book |
| Writers, `lobx/storage/` | row buffers, current file / pool, lock | `write`, flush, rotate, close | called per event; Postgres flushes in tasks |
| Paper exchange, `lobx/execution/simulator.py`, `queue_model.py` | per account: pending and live orders, the working quote per side, last send times, position, halted | book event, trade, decision, sample, finish | features, strategies, fees |
| Features, `lobx/strategy/features.py` | top of book, decaying Hawkes intensities, kept events, volatility | `on_book`, `on_trade`, `set_hawkes` | fed by the paper exchange, the runner and the terminal |
| Live session, `lobx/live/` | runner status, warm-up records, recorder | calibrate (worker thread), refit, feed callbacks, close | collector, paper exchange |
| Backtest, `lobx/backtest/` | market data, recorded sessions | load a capture or a session, replay, split, merge the streams | paper exchange, files of the writers and the recorder |
| Terminal, `lobx/terminal/` | candle buckets, signal accumulators, tape, clock | trade and book callbacks, refit, rendering | collector, features |
| Strategies' formulas, models, analytics, fees, scripts | numeric state | formulas | paper exchange |

What is hard in it, and where tests hardly reach:

* **The C++ book** is sequential, but correct only over long call sequences:
  iterators kept in an index, levels that appear and vanish, cached unsigned
  totals, ids chosen by clients.
* **Depth synchronisation** is concurrent in the asyncio way: every `_sync` task
  can be overtaken at its awaits by events, gaps, disconnects and other tasks.
* **The paper exchange** simulates latency: an order and its cancel reach the
  exchange a round trip later, and fills, rejects and new decisions come between.
* **The engine** runs user code in the middle of a submit: a callback may throw,
  or submit and cancel through the engine that is still counting its trades.
* **Writers, collector, live session** run callbacks, tasks and threads against
  each other and must not lose or misplace rows on rotation, failure and close.
* **The terminal** gets trades late and twice, and keeps the same facts in several
  places: totals, intensities, a tape, candles, a picture.

`PROJECT.json` names each hazard at its line, with the properties that would
catch it going wrong; one without a property carries a note that says why.

## 2. Plan

The project was written in this order, the most important behaviour first:

1. `LimitOrderBook` (the promise), `OrderBook` (refines it), and its proofs, now in
   `MatchingEngineProofs`.
2. `DepthSync`, `DepthSyncProofs`.
3. `Simulator`, `SimulatorProofs`.
4. `ParquetWriter` and `PostgresWriter`, composed in `TradeStorage`;
   `TradeStorageProofs`.
5. `EngineMirror` and `WsClient`, composed in `Collector`; `CollectorProofs`.
6. `Features`, under `LiveSession`, under `LiveBacktest`.
7. `Candles`, `Signals` and `Drawing`, composed in `Terminal`.
8. `MatchingEngine` around `OrderBook`; `MatchingEngineProofs`.
9. `FoldLemmas`: what folds compute, for proofs; with it the totals, the
   fill-or-kill, the refinement of step 1 and the balance of lots, in
   `MatchingEngineProofs`, and `BookMatchesCursor` and `PositionBounded` in the
   proofs of their modules.
10. `Selection`, a filter and an overlay that can be unfolded in a proof;
    `LiveProofs`, and `TerminalProofs`: statistics, candles and pictures.

Who uses whom (`->` is EXTENDS, `=>` is INSTANCE with a refinement mapping):

```
MatchingEngine -> OrderBook => LimitOrderBook
DepthSync        (taken at its interface by Collector)
Simulator        (taken at its interface by LiveSession)
TradeStorage   -> ParquetWriter, PostgresWriter
Collector      -> EngineMirror, WsClient
LiveBacktest   -> LiveSession -> Features
Terminal       -> Signals -> Features;  Terminal -> Drawing -> Candles
DepthSync, Features, Candles -> Selection
MatchingEngineProofs, DepthSyncProofs, SimulatorProofs, LiveProofs,
TerminalProofs -> FoldLemmas -> Selection
```

The plan is done: every safety property a run checks is also proved, and liveness
is checked (end of section 5). What is not modelled at all is listed in section 6
with the reason.

## 3. The modules

### OrderBook and LimitOrderBook

`OrderBook` keeps `levels[side]`, a function from price to
`[orders_, total_qty_]` (the two `std::map`s of `PriceLevel`), and
`order_index_`, a function from id to `[price, side, it]`. A `std::list` iterator
is a natural number handed out when a node is allocated, so a dangling one can
be seen. `Quantity` is unsigned 64-bit: level totals and the fillable sum are
taken modulo `Width`.

Callers see a call as atomic, but the matching loop is one action per iteration:
`AddLimitOrder`, `Match`*, then `Finish` or `RestOrder`; `KillFok` is the refused
fill-or-kill, `Cancel` a cancel that finds its id. So invariants also hold
between two trades of a sweep, which is where a trade callback would look.

`MatchingEngine` puts `submit`, `cancel`, `record_trades` and the statistics
around it. A trade callback runs inside `record_trades`, so the state has
`frames`, the stack of `record_trades` calls; while the innermost is `calling`,
the callback may submit (which pushes a frame), cancel, return or throw, which
pops every frame it passes through. Two ghosts count lots: those accepted, and
those of trades a throw left uncounted.

`LimitOrderBook` has no data structure: a set of resting orders with arrival
ranks, of which an incoming order always executes against the first by price,
then rank. `OrderBook` maps its nodes to that set and is checked to implement it.

### DepthSync

The exchange applies numbered updates, each setting or removing one level. The
stream batches them into events `[U, u]`; events and connections can be lost, and
`REST` snapshots may trail the exchange by `MaxLag` updates. `handle_event`,
`mark_desynced`, and `_sync` after its last await contain no await, so asyncio
runs each without interruption and each is one action (`BufferEvent`,
`ApplyEvent`, `MarkDesynced` inside `Disconnect` and `ConnectFails`,
`MissSyncPoint`, `CompleteSync`). Between those points a task waits in `tasks`:
`Answered`, `FetchFails` and `GiveUp` are what its requests can do. A book is
represented by the id of the update that set each level, which tells any two
books apart. Two ghosts: `lost` in a task (connections lost when its snapshot was
taken) and `trusted` (the last repair started without a cursor, replayed without
a gap, and no event was missed between it and the first event applied).

### Simulator

`SimAccount` is a record, and each of its methods a function from account to
account (`Advance`, `BookFills`, `TradeFills`, `Kill`, `Decide`, `CancelAll`...).
`OnBook`, `OnTrade` and `Finish` compose them in the order in which
`MarketSimulator` calls them, each one action: the simulator is synchronous.
Interleaving comes from latency, so time is explicit: an event carries a time,
not before the last one's. Accounts do not affect each other or the market, so
one account stands for all.

What the strategy, the drawdown test and the queue estimate compute is left
open: any pair of passive quotes (`passive_pair`), a breach at any sample after
a first fill, any queue position between zero and the smaller of the old one and
the displayed size. `traded`, `now` and `fills` are ghosts.

### ParquetWriter, PostgresWriter, TradeStorage

A row is the number of its trade. A `ParquetWriter` is a record (buffer, open
file, date, the files of every day) and its methods are functions of it and of
where the disk fails the call (`Faults`): at a row group, at the footer, when the
file is opened, or at its first bytes, once it is truncated. A file becomes
readable when it is closed, and never when its footer failed, since pyarrow does
not write a second one. The date is set before the file is opened, so a
failed open is not repeated that day: the day's rows stay in the buffer. The ghost
`unopened` has these days. `PostgresWriter` has one action per stretch
between awaits: flush tasks that are ready, a lock with its waiters in order, the
batch a task has taken and whether it waits for a connection or for its insert,
and `close`, which waits for the lock when the buffer is not empty and then for
the pool. `TradeStorage` feeds both from `Collector._handle_trade`, with the
heartbeat, midnights, disk errors, `Stop` and `CloseAsync` in the order of
`run_collector.py`, a kill at any instant (`Die`), and a process started later.

### EngineMirror, WsClient, Collector

`WsClient` is the receive loop: connect, deliver, break or end cleanly, back off,
stop. `EngineMirror` turns an event into cancels and submits of synthetic orders:
per side it removes levels, then those a new level crosses, then submits the
rest; a submit that crosses would trade, and `trades` would count it.
`Collector` composes them over the interface of the depth manager: `SyncCompletes`
between any two messages, also beside a live book, `EventLost`, and a `cursor`
that the next event follows, does not follow (a gap), or that is not there. As
`DepthSync` shows, a completed repair need not leave the exchange's book: it
applies events over a snapshot that may have them already, unchecked at first, or
puts an older snapshot in the place of a live book. So `SyncCompletes` leaves any
sizes that the levels have had (`Repaired`), a crossed book too, and any cursor.
An event is written (after a baseline when the generation moved), then mirrored
(after a reload when the generation moved); a writer that raises skips the rest
and is taken for a lost connection. Ghosts are `recorded` (the last baseline and
the rows since), `captured` (what `load_capture` makes of all rows), `seen` (the
sizes each level has had), `fresh`, and `clean` (the local book has not been
crossed after an event since the mirror was loaded).

### Features, LiveSession, LiveBacktest

`FeatureEngine` computes real numbers from what it is fed, so its state here is
the sequence of what it was fed: two states that were fed the same are the same,
and a replay is exact when it feeds the same. `LiveSession` is the runner: the
callbacks `BookEvent` and `TradeEvent`, `StartCalibration` / `StartTrading` /
`CalibrationFails` (the thread's work lies between the first and one of the others,
and the feed goes on meanwhile), `StartRefit` / `EndRefit` (refits overlap and may
end in any order), `Close` and `Kill`. A kill leaves any prefix of the log in
`file`. The paper exchange is a function of its features: a decision notes what it
was based on and every trade fills it, so a fill tells apart any two histories.
At a sample the account is marked: which positions at which tops lose
`max_drawdown` is a constant (`Drawdowns`), and at a loss the quotes are cancelled
for a round trip later and a taker fill closes the position. `Close` writes the
summary of `reports`, which is empty before the first sample and counts the fills
of a maker after it.
`LiveBacktest` adds what reads the log: `load_session` and `market_data` with its
slices, `split`, the merge of `run_backtest`, and `FirstMismatch`, the place where
`compare_fills` finds that a replay parts from what was recorded.

These modules and those of the terminal filter sequences with `Select` of
`Selection`, a recursive function, where the library has `SelectSeq`, and lay one
function over another with `Over`, where TLC has `@@`: they give the same, and the
provers can unfold them.

### Candles, Signals, Drawing, Terminal

`Candles` is the history that `AdaptiveTerminalChart` keeps and `Drawing` what it
renders of one; `Signals` is the session statistics with the queue and set of seen
ids and the `Snapshot` that the panels read. All are functions. A chart has a time window and a price
scale, whose bounds are rounded outward to a clean step; on it, candles in half
rows, the Bresenham line in dots, the guide row of the last price, the labels of
both axes and the volume bars, whose square root is there when one bucket dwarfs
the others. Prices are in cents and the bounds of a scale in hundredths of one.
`Steps` bounds the clean steps at 50 dollars. While no trade has come, the
pictures of a set of given histories (`Sketches`) are drawn instead of the empty one.
`Terminal` is `LiveDashboard`: trades delivered in any order, also twice, books
with or without a time, the clock anchored at the exchange's times, refits in a
thread, the end. `delivered` is a ghost from which the properties compute what
the session should say.

## 4. What the runs show

| Run | Shows |
|---|---|
| `book` | `NeverCrossed`, also between the trades of a sweep. `QueuesInOrder`: time priority, no empty level, no filled order. `IndexSound`: `cancel` never follows a dangling iterator, whatever ids clients reuse. `UniqueOrdersCancellable`. `CachedTotals`, with wrap-around. `FokFillsOrKills`: an accepted fill-or-kill order is filled, even when totals wrap. `PriceTimePriority`: refinement of `LimitOrderBook`. |
| `engine` | `LotsConserved`: every lot accepted rests, is in flight, was withdrawn, or is on one side of a trade that `total_volume` has once, whatever callbacks submit, cancel and throw. |
| `depth` | `NoStuckSync`: a raised `syncing` flag has a task behind it. `BookMatchesCursor`: a trusted book is the exchange's at its cursor. `RepairEnds`: `syncing` is always released. |
| `depth_stale_snapshot` (violation) | A task started before a disconnect completes on the state of the next connection. |
| `depth_lost_event` (violation) | After a sync with nothing left to replay, a gap before the first event is not noticed. |
| `simulator` | `WorkingQuotes`: an open order not being cancelled is the working quote of its side, so none is forgotten. `HaltedWithdraws`. `FillsInLife`: no fill before arrival or after the cancel took effect. `OneOrderPerSide`: a replacement never rests beside the order it replaces. `RestsPassively`. |
| `simulator_overshoot` | `PositionBounded`: fills of orders being cancelled pass the limit by at most one order per requote interval of a round trip. The limit is that of the position or one order, whichever is larger. |
| `storage` | `RowsOnTheirDay`: a file has the rows of its day, in order, and else only those of a day whose own file could not be opened. `CleanCloseKeepsAll`. `ReadableRowsStay`: only a later process of the same day takes rows from a readable file. `BatchesInOrder`: no batch overtakes or repeats another. `ClosedPoolLeavesNothing`: after the pool is closed, only a batch still waiting for a connection is neither inserted nor given up. `CloseEnds`. |
| `collector` | `EngineTwin`: the mirror never trades. `MirrorExact`: each of its levels is empty or has the size of the local book, in ticks and lots, and it is the local book unless that has crossed after an event since the mirror was loaded. `RecordedRebuildsBook`: the last baseline and the rows after it give the local book. `CursorOfConnection`: no synced book outlives its connection. `StoppedClientEnds`. |
| `collector_capture` (violation) | `load_capture` keeps levels that disappeared while the stream was being repaired. |
| `live` | `ReplayExact`: the log, replayed, gives the live features, quotes and fills at every moment. `KilledSessionReplays`: so does any prefix a kill leaves, up to its end; the comparison reports the first fill that the log has lost, and no other difference; the end line of a closed session counts the maker fills that are in its log. `RefitKeepsExcitation`: the orders an intensity counts are the last market orders of the log, each once, and go back as far as the orders kept for refits. `BacktestOrder`: slices, merge and split of a session keep every event once and in time order. |
| `terminal` | `SessionExact`: candles, tape, totals and intensities tell of the same trades, each once, and no intensity is evaluated before one of its orders. `ChartExact`: the newest buckets, each with all of its trades. `PictureExact`: what is drawn can be read back: bodies, wicks, a connected line, prices that fall from row to row, volume bars that keep their order and fill the pane, labels that do not touch. |

The violations are findings: each quotes the sentence of the repository that the
code does not keep. The runs also settled, or came upon, these facts:

* An order that rests under an id already resting hides the earlier one from
  `cancel`; `UniqueOrdersCancellable` says what is left of the promise.
* A gap met during a replay starts a second repair, and the first still ends
  synced (`docs/system_guide.md:166` has it aborted).
* The position limit is not hard: a replaced order and its replacement may both
  fill, by as much as `PositionBounded` allows. After the kill switch has sold
  the position, an order whose cancel is in flight may fill and reopen it
  (`docs/system_guide.md:296-297` has the account flat).
* The depth file that a rotation opens has no baseline: `RecordedRebuildsBook`
  speaks of the rows, across files.
* A session killed between an event and its fills replays to one fill more than
  was recorded, and `compare_fills` then reports a mismatch although nothing
  changed in the code (`session.py:6-8`). `KilledSessionReplays` says prefix, not
  equality, for that reason.
* Refits that overlap may apply the older fit last. The replay is still exact.
* A repair can leave a local book that is crossed, with no event lost. The bridge
  takes the levels that a new one crosses for stale (`engine_mirror.py:62-78`), so
  the mirror then has fewer levels than the local book that it follows
  (`engine_mirror.py:3-5`) until it is loaded anew; `MirrorExact` says how far they
  can part.
* The `fills` of the end line are not the fill lines of the log: a fill that the
  kill switch takes to close the position is a line, but `account_report` counts
  it apart (`performance.py:61-66`), and a session without a sample has no summary
  at all (`quote_loop.py:207-209`).
* `LiveMarketSignals` never calls `features.on_book`, so `last_ts` stays 0 and a
  refit replays all kept orders.
* `signals.py:126` says that distinct trades of equal time excite the intensity,
  but `features.py:105-110` counts those of one millisecond and side once;
  `MarketOrders` in `Terminal` follows the latter.
* When the file of a day cannot be opened, `_current_date` is already that day
  (`parquet_writer.py:183`): later rows of the day are buffered without a file and
  the next rotation puts them into the next day's file; a close loses them.
* `_exchange_now_ms` can step back when the clock is anchored anew
  (`dashboard.py:107`); the clamps of the evaluation keep the signals right.

### Bounds

* `book`: two ids (so an id can be reused while resting, and two orders queue),
  three prices (a sweep over two levels with one left), quantities 1 and 3 with
  `Width = 4` (full and partial fills; two orders of one level wrap its total),
  three allocated nodes (so rest, cancel and rest again). Ids are symmetric.
* `engine`: two prices, sizes 1 and 2 (an order trades with two others), four
  nodes and four calls, callbacks two deep: an outer frame with trades left while
  an inner one submits, cancels or throws. `Width` is 32: `book` has the wrapping.
* `depth`: two levels and five updates, a level set twice in a row and removed
  once; two attempts; three tasks; two events in flight; two lost events and one
  lost connection, which with `MaxLag = 1` reaches stale snapshots, overlapping
  repairs and gaps during replay. The exchange stops after the last update, so
  the deadlock check is off; `RepairEnds` covers what must not stop.
* `simulator`: three ticks, orders and trades of two lots, a round trip of two
  time units, a requote interval of one, four event times, three orders: enough
  for a requote to race a fill, for the kill switch to find one order at the
  exchange and another on its way, and for a cancel to be sent twice.
  `simulator_overshoot` quotes one side with a longer round trip, over eight
  event times and four orders, so that two late fills precede a replacement.
* `storage`: row groups and batches of two, so four trades fill two of each; two
  flush tasks ready at once beside the one that holds the lock; three days, so a
  rotation with rows buffered can follow a day whose file was not opened; two disk
  errors, one restart. 874 thousand states.
* `collector`: two prices and one size, of less than one lot, which becomes one;
  four events that change up to two levels, so a side can move through the other's
  old level; two repairs, each of which may leave one level otherwise than the
  exchange has it (`MaxDrift`), enough to cross the book; one lost event, a back-off
  that doubles once. 0.7 million states. That a level changes its size is left to the
  proofs, which have every size. `collector_capture` has two sizes, three events and
  repairs that leave the exchange's book.
* `live`: three tops of the book, one crossed, the two others symmetric; slow and
  fast parameters that differ in which orders they still count; two kept orders,
  so one is dropped; four market events over two times (equal times matter in the
  merge); two refits, which can overlap; one failing calibration; a sample at every
  unit of time, cancels that take one, and a drawdown whenever the account is not
  short, so it can halt long (with a taker fill), flat (without), and not at all.
  1.2 million states.
* `terminal`: six trades over three buckets, of which two are kept; late ones, two
  of one time and side, one of another symbol; four deliveries with two ids
  remembered, so an id can be forgotten; one top, not crossed (crossed books are in
  the `live` run; here one only hides the top, as a book event without a time also
  does). Charts of 12 rows, where the volume pane has two, and three
  buckets, so two kept buckets can be drawn with a hole between them; labels of two
  and four cells. The sketches have four buckets, so the oldest is out of view, and
  is the highest or the largest at times; they are a quiet market and a moving one,
  at 40 000 dollars (where the floor of the scale holds) and at a few cents (where
  it would go below zero), with volumes that need the square root and that do not.
  `PictureIsExact` is proved for every size. 91 thousand states.

All but `book` have counters that stop them or an action that ends them (`finish`,
a process that exits, a client that is stopped), so their deadlock check is off.

### Fairness

* `DepthSync`: weak fairness of a task step. asyncio runs every ready task, and
  each request ends because the HTTP client has a timeout. Nothing is assumed of
  the exchange or the stream: `RepairEnds` holds if no event ever comes again.
* `TradeStorage`: a flush task that can go on does (statements end by
  `command_timeout`, 30 s), the pool closes when nothing uses it, and the loop
  that awaits the close resumes. No fairness of trades, heartbeat or connect.
* `Collector`: a sleep ends, and a connect ends one way or the other
  (`open_timeout`, 15 s). Nothing makes a connection break, so
  `StoppedClientEnds` also admits that the client opens the connection it was
  waiting for.

The other components are driven by their callers and promise nothing about time.

## 5. What is proved

Each proof holds for every value of the constants that the named assumptions of
the component's modules allow (`BookAssumption`, `DepthAssumption`,
`SimulatorAssumption`, `MirrorAssumption`, `BackoffAssumption`,
`StorageAssumption` and so on, which TLC evaluates in the runs). Bounds such as
`MaxTrades` are constants too: the theorems hold for all of them.

* `MatchingEngineProofs`, of the book: `TypeCorrect`, `BookNeverCrossed`, `TimePriority`,
  `NoDanglingIterator`, `UniqueIdsCancellable`. The invariant is the conjunction
  of the five. `IndexSound` needs `QueuesInOrder`, because a node is found by its
  iterator, and each index fact needs the other when an entry is removed. Every
  way a level shrinks (partial fill, full fill, cancel) satisfies one predicate,
  `Keeps`: what stays stays in order, what leaves is exactly the named nodes. One
  lemma carries the invariant over any `Keeps`, another over resting an order.
* `FoldLemmas` has what the proofs need of the library's folds, which are defined by
  `CHOOSE` of a recursive function on sets of places. The induction theorems of the
  library take an operator, so each induction here is over a set instead: a least
  subset without the property (`SubsetInduction`, from the well-foundedness of the
  strict subset order), or a least number. From these, that the recursion has
  exactly one solution, what it gives for the empty sequence and for `Append`, and
  the sums built on it: of a sequence when an element is appended, replaced or
  removed (`Weight...`), of a set of numbers by name (`SetWeight...`), and both
  modulo `Width` (`Mod...`). `Select...` says the same of `Select`.
* `MatchingEngineProofs`, of the book's totals: `TotalsExact`, `FokFillsOrDies` and
  `BookIsPriceTime`, that every step of the book is a step or a stutter of
  `LimitOrderBook`. `SumsInv` joins the totals with `FokCovered`: what is left of
  an accepted fill-or-kill order never exceeds the lots that rest within its
  limit. The pre-check establishes it although its sum wraps
  (`PreCheckNotOptimistic`: a wrapped sum is smaller than the true one), and a trade
  takes as much from one side as from the other. In the refinement, the best order
  of the abstract book is the front of the queue of the best price; that needs
  queues in order of their iterators, which are the ranks. A call changes one
  level, and `LevelChange` turns that into the change of the set of resting orders.
* `MatchingEngineProofs`, of the engine: `NoLotLost`. The invariant says that
  `Balance`, lots accepted less those held, in flight, withdrawn, counted,
  thrown away, or waiting in some frame of the stack, is zero modulo `Width`; one
  lemma per action of the engine, and a change of one level moves `Held` by the
  change of its queue (`HeldChange`). `EngineImplementsBook` (the engine's steps
  are steps of the book or leave it alone) carries every theorem about the book
  over; `EngineNeverCrossed` and `EngineIndexSound` are two of them.
* `DepthSyncProofs`: `TypeCorrect`, `SyncNeverStuck`, `BookFollowsExchange`. An
  update sets the levels it names and no other (`Untouched`), so an event that
  continues the cursor takes the exchange's book at the cursor to that at its end,
  also when it overlaps what the book has (`EventTracks`). A replay is a fold with
  the whole machine as its accumulator; its invariant (`ReplayFollows`) is that it
  met a gap or has followed the exchange so far. The invariant of the system adds
  that no snapshot is of the exchange's future.
* `SimulatorProofs`: `TypeCorrect`, `PositionLimited`, `QuotesKnown`, `KillSwitchWithdraws`, `FilledWithinLife`,
  `RestingPassive`, `NeverTwoOrders`. The handlers are compositions, so the invariant is a
  predicate of an account (`Sound`) with a time (`Arrived`, `AllInForce`,
  `FillsOK`) and a market (`Passive`), with one lemma per function. `WorkingQuotes`
  needs the types: open orders have something left, pending and live are
  disjoint, ids are never reused. `AllInForce` holds only between `Advance` and
  the fills; that is what makes `FillsInLife` true of them. `OneOrderPerSide` rests
  on `Relieved`: of two open orders of a side the earlier one is gone when the
  later one arrives, since no cancel is on its way longer than a round trip.
  `PositionBounded` is not inductive: fills come from orders that were sent earlier.
  Its strengthening `Safe` bounds the exposure of each side, the position if every
  order of that side that still can be filled were, and none of the other. A decision
  sends an order only while the position leaves room for it, and then the orders of
  that side besides it are being cancelled and arrived at least a requote interval
  apart (`Paced`), so no more of them than a round trip holds are in force
  (`Crowd`, `FewThreats`).
* `CollectorProofs`: `TypeCorrect`, `MirrorNeverTrades`, `MirrorIsLocalBook`,
  `RowsRebuildBook`, `CursorNeverOutlives`. The invariant joins the five with
  one fact: no generation noted is ahead of the manager's, so a new sync is always
  seen as one. `MirrorExact` comes from what one event does (`ApplyWithin`): where
  each level of the mirror was empty or had the local size, so it is afterwards,
  whatever crosses and is removed; and where the mirror was the local book and the
  event leaves it uncrossed, no level is removed as stale (`ApplyExact`). Nothing is
  assumed of the exchange's book or of what a repair leaves.
* `TradeStorageProofs`: `TypeCorrect`, `RowsFiledByDay`, `CleanCloseComplete`,
  `BatchesOrdered`, `ClosedPoolAccounted`, `OnlyRestartTruncates`. The invariant has
  three parts. `FilesInv` says that files and buffer hold rows of their day
  or of an unopened one (`Filed`), that a collecting writer without a file could
  not open it (`Tracked`), that days to come are untouched (`Fresh`) and that without faults
  nothing is missing (`Complete`), with one lemma per method of the writer.
  `LockInv` says who may hold the asyncio lock and what is then in flight.
  `RowsInv` orders table, batch and buffer and needs `LockInv` for a batch to have
  one owner.
* `LiveProofs`: `LogReplaysExactly`, `CutSessionReplays`, `ExcitationSurvivesRefit`,
  `BacktestInOrder`. The log and the engines are related by `Logged`: replaying the log
  gives the engines up to the Hawkes parameters and heat, which a failed
  calibration changes and the log does not know of, and exactly once trading has
  started (`Agree`); and the fills recorded so far are a prefix of those the
  replay gives, for every prefix of the log (`Faithful`), which is what a kill can
  cut anywhere. Where two such lists part is `PrefixMismatch`. For
  refits, of any instant that still counts, the kept orders since then end those
  the intensity has, which end the market orders of the log (`Excited`). That an order is
  counted once needs `Counted`: the engine's last order is the last trade of the log
  (`LastTraded`), by which both tell a further print from a new order. For the backtest, the merge's output is a `Woven` of the two streams:
  both of them in their order, and no event before one that must precede it. Of two
  ordered streams there is only one weaving (`WeaveUnique`), the recorded order is
  one, and the halves of a split, woven one after the other, are one as well.
  `Clocked` says that each stream of the log is in the order of its times.

* `TerminalProofs`: `SessionIsExact`, `ChartIsExact`, `PictureIsExact`. The first two
  compare what the code keeps, one trade at a time, with a definition over all
  accepted trades at once. For each figure a lemma says what its definition gives for
  `Append(trades, t)` (`AddedAppend` for totals, `CandleGrows` and `HistoryGrows` for
  the chart, `OrdersAppend` for the market orders, `NewestAppend` for the tape,
  `AcceptedAppend` for what counts as delivered before). With these `IInv`, that every
  variable is its figure of the accepted trades (`SignalsRight`, `ChartRight`,
  `TapeRight`, `ClockRight`), is inductive. The chart needs that the newest buckets
  after a trade are those before, and the trade's, less the oldest (`LatestGrows`,
  `LatestReplaces`): a bucket once dropped never has to come back. For the deque of
  seen ids, its set and its order agree (`RecallStep`). A refit replays the kept
  orders, which are still the newest (`ExcitedFit`).
  `PictureExact` is a fact about every chart: of whatever candles are plausible at
  whole buckets (`IsChart`, which every history of the terminal is, `HistoryCharted`).
  Its five parts are lemmas: `BodiesAreExact` and `BarsAreExact`, where candles and
  bars are layers that do not overlap and so a cell shows the one that has it
  (`PaintingIs`); `LabelsFall`, from rounding that is off by at most half a row;
  `AxisIsReadable`, by induction over the labels placed; and `LineIsExact`, where the
  accumulated error of Bresenham's algorithm is the distance from the line (`PenAt`):
  each round adds one dot, one further in the longer direction and at most half a dot
  off (`NearStep`), so the rounds the model counts reach the end, and what follows
  changes nothing. The scale is never empty (`ScaleIs`), and bars keep the order of
  the volumes through both roundings, also that of the square root (`RootGrows`).

The assumptions are as weak as the code: `OrderQtys` has a size (a strategy with no
size to quote sends nothing, and `PositionBounded` has nothing to bound by), a
history keeps at least one order, `None` is not a value of anything it stands beside.

Model-checked only: liveness (`RepairEnds`, `CloseEnds`, `StoppedClientEnds`), which
needs fairness and `ENABLED`. Also, the operators that compute by `FoldLeft` are
proved through what `FoldLemmas` says of it, never by an induction theorem of the
library, which takes an operator.

## 6. Not modelled

* Within modelled components: read-only queries of the book; a trade callback
  replaced while it runs (undefined in C++); the 1000-level limit
  of a REST snapshot, socket details of the stream; cash, fees and marks of an
  account, and the strategies' arithmetic. Event times of the paper exchange do
  not go back: the merge of a backtest guarantees it (`BacktestOrder`), the live
  streams do not. The mirror's prices lie on the bridge's grid. A full disk
  inside the session recorder, which would raise in a listener and leave the
  paper exchange in the middle of an event. The terminal's panels, their wording
  and staleness texts; for one update after a reconnect they may show the
  signals of the book before beside the new book (`dashboard.py:198`).
* REST API (`lobx/api/`): every route holds `book_lock` around one call, so its
  concurrency is that of the atomic calls of `OrderBook`. The one exception, two
  first requests that each build a book inside `lru_cache`, is listed as a hazard.
* Strategies' formulas, models, analytics, fees: floating-point functions without
  state of their own, out of TLC's reach. `Simulator` takes any pair of quotes,
  `LiveSession` any fitted parameters.
* Of the backtest, the capital sizing, tuning and reports; bindings, command
  lines and benchmarks: sequential computation, input and output.
