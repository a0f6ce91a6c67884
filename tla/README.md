# QuantEdge execution: a TLA+ verification project

QuantEdge trades perpetual futures on Delta Exchange, one trade at a time per
account: a Python engine collects candles, finds order blocks, decides on a setup
and runs the live trade; a Java backend persists orders, fills and locks. The code
that must not be wrong is the path from a candle to a closed trade: an order whose
fate is unknown, a fill nobody noticed, a stop loss that does not exist, a gate that
lets a second trade in. This project models that path, model-checks it with TLC and
proves its central invariants with TLAPS.

Abbreviations: `E/` is `engine/src/quantedge/`, `TL` is
`E/execution/trade_lifecycle.py`.

## 1. Inventory

| Component | State it keeps | Operations | What makes it correct |
|---|---|---|---|
| Trade lifecycle manager (`TL`) | `_active_trades`, a record per setup (state, filled, protected size, order ids), reconciliation alerts, a `threading.Lock` | execute, fill/order/position/integrity handlers, protection, expiry, closure, kill switch, reconciliation | one live trade, always under the lock; a fill is never missed, doubled or lost; protection that is claimed exists; "unfilled" verdicts are true |
| Single-trade lock | owner per account | acquire, release | released only when the trade is confirmed gone |
| Private WebSocket (`private_websocket.py`) | per-channel sequence numbers, health, processed fill ids | connect, authenticate, dispatch, resynchronise, reconnect | no event is lost silently, an older frame does not undo a snapshot, no execution is seen twice |
| Account synchronizer and reconciliation | `LocalStateStore`, discrepancies | compare with REST, infer from absence, release an orphaned lock | absence from a list is not a cancellation; a judgement is not used when it is stale |
| Execution engine, multi-user orchestrator, validation and sizing | in-flight and executed ids, order store, sessions | submit, reconcile an unknown outcome, size, validate, place a bracket | idempotent submission, true verdicts, orders that can be afforded |
| Manual SMC strategy | order-block pool, active trade, portfolio lock, watermark, sizing, snapshot | one closed candle, save, restore | one trade, no look-ahead, entries inside their window, gates that agree |
| Manual SMC runtime, market orchestrator | feed tasks, ready decisions | feed callback, submit, cancel expired entries, resume | no entry rests at the exchange for a setup that died |
| Market data ingestion and WebSocket | CSV file, metadata JSON and their temporary files, last processed hour | frames, backfill, upsert, scheduled ingestion | a file without silent gaps, the engine fed from it in order |
| SMC structure engine | parsed series, detectors, order blocks | initialise, process a candle | blocks live as long as price lets them; a restart finds the same structure |
| Java persistence, order execution, startup reconciliation | order rows, fills, lock table | state transitions, deduplication, restart | monotone order states, a lock per account |
| The rest (confidence, liquidity, AI research, history, auth, news, web apps) | numeric, batch or CRUD | | tested as functions; no protocol |

`PROJECT.json` lists every component with its source files and status, and the
hazards at their lines with the properties that watch them.

**Interactions.** `delta_websocket.py` persists a closed candle, hands it to the
structure engine and to the runtime's callback. The strategy works the candle
through in one step; its report becomes an asyncio task, which cancels the entries of
dead order blocks and offers the first ready decision. The orchestrator calls the
lifecycle manager, which owns the trade from then on: the private WebSocket's consumer
delivers its events, expiry and reconciliation ask for their own reads, an operator's
call flips the kill switch. Coroutines of one loop interleave exactly at `await`, and
nearly every `await` is a request to an exchange which also moves by itself.

**Hard behaviours.** Answers that are lost, late or stale; cancel against fill;
frames that are replayed or older than the snapshot; protection resized while the
fill grows; a verdict from two reads of different moments; candles repeated, missing,
corrected, in a burst after a reconnect; a handler that raises half-way; a process
resumed from a snapshot; two processes that write one file; prices rounded after they
were judged.

## 2. Modules

| Module | Models | Built on |
|---|---|---|
| `TradeLifecycle` | `TL` with the single-trade lock and the exchange | |
| `TradeRecovery` | the lifecycle manager behind the private stream: when its handlers are given an event and when reconciliation is called | extends `TradeLifecycle` |
| `TradeSlot` | the abstract promise of the lock: claimed when free, something live only for its holder, given back only when nothing is live | implemented by `TradeLifecycle` |
| `AccountSync` | `LocalStateStore` and the pass of `synchronizer.py` over it, with the exchange | |
| `PrivateStream` | `private_websocket.py`: sessions, sequence numbers, resynchronisation, reconnection | extends `AccountSync` |
| `OrderPaths` | `execution_engine.py`, `multi_user_orchestrator.py`, `reconciliation.py`, `capital_allocator.py`, `validation.py` and `models.py` on the way of an order | |
| `OBBracket` | geometry, leverage and price-grid rounding of an order block's bracket | |
| `ManualSMC` | lifecycle, portfolio lock, strategy, adapter and snapshot of the Manual SMC strategy | extends `OBBracket` |
| `SMCSubmission` | `manual_smc_runtime.py` with its tasks, the orchestrator and a reduced lifecycle manager | extends `ManualSMC`; implements it (proved) |
| `SMCEngine` | `smc/structure.py`, `order_blocks.py`, `volatility.py`, `incremental_engine.py` as operators on a value | |
| `MarketFeed` | `delta_websocket.py` and `ingestion.py`: feed, file, metadata, backfill, and a second process that writes through the same temporary files | extends `SMCEngine` |
| `TradeLifecycleProofs`, `TradeFillsProofs`, `TradeProtectionProofs` | theorems about `TradeLifecycle`: types and tracked exposure; fills, verdicts and the slot; protective orders and the reconciliation pass | each extends the one before |
| `OrderPathsProofs` | theorems about `OrderPaths` and its sizing formulas | |
| `PrivateStreamProofs` | theorems about `PrivateStream` and the store of `AccountSync` | |
| `ManualSMCProofs`, `SMCSubmissionProofs` | theorems about the strategy; about the entries its runtime sends | the second extends the first |
| `MarketFeedProofs` | theorems about `MarketFeed` | |
| `MC*` | what the runs instantiate | |

### `TradeLifecycle`

*State.* `active` is the key set of `_active_trades`; `rec[s]` the record of setup
`s` (kept after archiving, as the code's other coroutines keep theirs); `owner` the
lock's holder; `alerts` whether `_reconciliation_alerts` is non-empty, which
blocks entries; `killSwitch` the account's flag; `mutex` the coroutine suspended
inside a `with self._lock` block; `hung` that another coroutine then blocked the
loop's thread on it. `survey` holds the local variables of the reconciliation pass.
`ex[s]` is the exchange's entry order and position, `leg[i]` its protective orders.

*Concurrency.* `frame[t]` is task `t`'s suspended call: the program point `pc`,
the setup, and what the exchange answered. An *answer* action (`AcceptEntry`,
`CancelLeg`, `ReadEntry`, ...) does the exchange's part and fills in the reply; a
*Resume* action continues the coroutine up to its next await, as one step. Between
the two the answer may become stale. `Overlap = FALSE` forbids starting a call while
another is suspended. Points where the code goes on without a request are `LoopPcs`;
while a task is at one nobody else runs.

*Helpers* keep the code's structure: `ApplyEntry` is `_apply_entry_order_state`,
`OnFill` the pair of fill handlers; `BeginProtection`, `LegGone`, `AdoptOrPlace` and the
`Resume` actions after them are `_ensure_bracket_protection` with its callees;
`Finalize` is `_archive_and_release`.

*The exchange* is external: it answers a POST by acceptance, rejection or - by
`Network` - not at all; it refuses to cancel what is not open and to place a
reduce-only order without a position. `"reliable"`: every request is answered
truthfully; `"failing"`: it may fail without effect; `"lossy"`: the effect may take
place and the answer be lost. Prices, fees and P&L disappear; a setup id is admitted
once; EXPIRED and REJECTED behave as CANCELLED.

### `TradeRecovery`

In `TradeLifecycle` any event and any reconciliation may come at any time, which is what
safety asks for. What must *eventually* happen depends on who calls: nothing schedules
`ManualSMCRuntime.reconcile`, it is one of the hooks of the private stream's `run()`.
`up` is the session, `owed` that the hook is due - after a (re)connection
(`private_websocket.py:1651`) or a proven gap (`:1478`), never otherwise - and `unread`
the setups with an announcement on the wire. `Disconnect`, at any time and as often as it
likes, loses some of them; `GapProven` finds a frame missing; `LastFrame` is the last
frame about an order and carries its final word, `EarlierFrame` any before it. Frames are
handled by the same coroutine, one at a time, once the hook has returned.

### `AccountSync` and `PrivateStream`

`xo`, `xp` are the exchange's orders and position, `so`, `sp` what `LocalStateStore`
holds; the account's `lock` names the one entry that may be live. An execution is known
by its order and the quantity filled so far. Each REST read of a pass is a step of its own (`SyncPositions`, `SyncOrders`),
so a pass compares two moments. `wire` holds the frames not yet handled, each numbered
per channel; `sequence` is `_sequence_state`, `run` the coroutine `run()` with the
stage of its resynchronisation, `processed` the deduplicated fill ids, `observed` how
often the observers were told of a fill, `blocked` the integrity alert the lifecycle
manager keeps. A frame is handled by the action of its outcome: not JSON
(`UnreadableFrame`), unknown (`UnknownFrame`), refused by the validator
(`RejectedFrame`), applied (`OrderEvent`, `PositionEvent`, `FillEvent`), each with the
check of its sequence number. The server may lose, garble and repeat frames, end a
session and fail a read; authentication may be refused, which counts as a fault. A
handled frame sets `health` back to HEALTHY (`HealthAfter`), and `Connect` sets `running`,
which undoes a `close()` that came while it waited for the socket.

### `OrderPaths`

An account is traded through one of two paths (`path`). `task[t]` is a call of
`execute_order` / `execute_from_strategy_decision` (service) or of
`UserExecutionSession.execute_trade` (session) at its await; `ex[t]` is what it put at
the exchange: a request is *sent*, may be *taken* at any later time, and its answer is
a separate choice. `flying`, `ids`, `store`, `executed` are the in-memory registries;
`audit` is `reconcile_account(auto_resolve)` between its reads and its release.
Requests and decisions carry numbers: `Validate`, `RequiredDecimal`, `Allocation` and
the sizing of a decision are computed as the code computes them, in integers, and the
allocation is compared with its definition by an assumption of `MCOrderPaths`. An order
rests *pending* (a stop not triggered), *open* or with a *partial* execution, and
`Stated` is what a status may say of it: the query after an unknown outcome turns every
status but OPEN into FILLED (`FoundVerdict`).

### `OBBracket`, `ManualSMC`, `SMCSubmission`

Bars are hours, so a bar index and a timestamp are one number. A candle is one step
(`ClosedCandle`): `ProcessCandle` is `ManualSMCLifecycle.process_candle` (resolve the
trade, sweep the pool, admit what the scanner emits), `HandleEvents` the strategy's
handlers in the order of the events, where the first that raises ends the candle with
the lifecycle moved and the watermark not (`Evaluate`), and `Decisions` the adapter's
verdicts. Prices of a candle are abstracted to how deep the wick went into each block
and which exit it reached; the scanner's search is a free choice of what it may emit.
The prices of a block are exact: `OBBracket` computes the raw legs, the leverage and
the rounded legs in 4000ths. `Resume` is `save_state`, a crash at any later time and
`load_state`; since what the process did after the snapshot is lost with it, its
memory is the snapshot's again. `SMCSubmission` adds the tasks (`tasks`) and the
lifecycle manager reduced to the one entry it may run (`entry`). A report carries both
lists of the code: `dead`, the setups `expired_setup_ids` cancels, and `cancel`, the
withdrawals of `cancel_ob_ids`, which no task reads; an entry on the second alone is
`Superseded`. `left` are the orders an earlier process had at the exchange.

### `SMCEngine`, `MarketFeed`

The structure engine is a value: `Initialize` builds it from a series, `ProcessNew`
from one more candle. The ATR enters as the flag `wild` of a candle (its range is at
least the multiple of the ATR), the only thing the engine reads of it. In `MarketFeed`
`tape` is what the exchange publishes, `csv` and `meta` the two files, `upsert[w]` the
call of `upsert_closed_candles` each of the two processes is in, split at the
opening of the temporary file, its renaming over the CSV, and the same for the metadata;
`job` the candles the client is
working through, `client` its phase, watermark and processed hours. Both processes open the
*same* temporary files: a second `Open` truncates what the first wrote, a renaming or the
deletion after a failure takes the file from the other, and what is published by a call
whose file was shared is some mix of the two (`Left`) or does not parse (`legible`);
`holes.mixed` records it. A correction (`Amend`) replaces the prices of the newest hour;
the file takes them over when the hour is delivered again, the engine does not. One pair:
pairs have separate files and watermarks.

## 3. Runs

| Run | Instance | Shows |
|---|---|---|
| `overlap` | 2 setups, runtime and stream overlapping at every await, lossy network, 1 contract | nothing is ever live on the exchange that is not tracked under the lock; an entry declared dead has not filled and cannot; fills never regress under replayed frames; the manager is a `TradeSlot` |
| `brackets` | 1 setup of 2 contracts, every call but reconciliation, one at a time, failing network, plain or attached brackets | PROTECTED_POSITION is only said of an SL and a TP of the protected size; no order the engine placed is lost from sight through resize, retry, adoption |
| `recovery` | 1 setup, the runtime and `run()` of the stream, a session that breaks at will, reconciliation only from the stream's hook, requests that are answered, fairness | every position is eventually protected or gone, however its fill was announced or lost; a pass that clears the alerts has seen nothing unprotected; claimed protection is real |
| `halt` | runtime, stream with its reconciliation, and an operator's kill switch, three calls overlapping | the lock and the verdicts with the kill switch awaiting inside its loop and the loop's lock held across awaits |
| `stream` | one entry and one stop of 1 contract, reads that fail, faults on the wire | once the stream has settled its store is the exchange's; an order is never finished locally that is live; no execution is observed twice; every outage ends |
| `smc` | 2 pairs, 3 order blocks, 5 hours, both activation modes, resumption between any two candles, tasks | the three views of the trade slot are one; both gates refuse the same; entries inside their window, never in the hour of a close; no limit of the first-touch mode outlives its window; offers are sound; an entry of this process rests for a block that is wanted, but for three named holes |
| `orders` | 3 overlapping calls, 2 setups, 2 client ids, either path | one trade at a time and the lock names it; no stranded lock; EXECUTED is protected; one order per setup; verdicts that are so; orders that can be afforded |
| `feed` | 4 markets of at most 7 hours, 1 or 2 faults, corrections that move the close, a second writer of the same temporary files | the file's gaps, metadata and rows until two calls mix their files; the engine follows the file; blocks live as long as the candles taken let them; a restart rebuilds the structure, order blocks aside |
| `duplicate_stop`, `stop_out`, `kill_in_flight`, `smc_resume` | the smallest instance of each finding | section 5 |

Deadlock is not checked (`CHECK_DEADLOCK FALSE`): each system really does stop - every
setup has been traded, the bound on legs, hours or faults is used up, `run()` has given
up, the market is over, or the loop is hung on its own lock.

**Bounds.**
`overlap`, `brackets`, `recovery`, `halt`: two setups suffice for the lock, whose hazards
are one setup releasing or taking over what another holds; two contracts give the
partial fill, the resize and the leg of a stale size, one is enough elsewhere. `MaxLegs`
counts the protective orders ever placed: 5 is two pairs and a retry, 6 lets a pass
place two pairs and still answer later requests; with 2 a third placement stays
unanswered like any outstanding request.
`stream`: with `MaxAttempts` 1 an outage can end in a new session or, when the next
attempt fails too, in OFFLINE, and the count is set back in between; one fault and four
frames on the wire (`MaxWire`) give a gap behind a frame older than the snapshot; the
executions are the entry's fill and the stop's.
`smc`: `Window` and `Hold` of 2 have a first, a last and a following bar; two blocks of
one pair contend, one of another pair meets the shared slot; five hours hold a block, a
touch, a trade, a close and a re-entry. `MCZone` has blocks near 1000 with grids of 2
and 4, of which the coarser leaves no sendable bracket. `Traded` bounds the blocks that
appear while an orchestrator is bound (the pool itself is checked with all three), and
`MaxTasks` 2 is enough for one task to overtake another.
`orders`: two calls share a setup and two share a client id; `MCRequests` has a sound
order of each side and one failing each check, a stop, and two reduce-only orders. `Followed` stops a session account at
a state in which it has met a named hole.
`feed`: `PageSize` 2 makes a backfill need several pages; the markets are two long
histories whose swing breaks live, one with more faults and one with more hours, a short
one, and an empty file with an unreadable candle and the turn of the year. `MCCorrections`
puts a wild candle that closes elsewhere in the place of the newest. `Followed` stops at a
state with a mix of two files: every mix is looked at and none is followed, since after it
the properties of the file claim nothing. Legs of 1 and 2 candles and an ATR period of 2 let structure
form within seven.

**Fairness.** `recovery` (`RecoverySpec`): weak fairness of `Proceeds`, since the asyncio
loop runs a coroutine whose await has completed, and of `Answers`, since requests
have time-outs in `delta_client.py`; strong fairness of `RunStep`, the steps of the
coroutine `run()`: it connects when the session is down, calls the hook that is due and
reads the next frame. It must be strong because the session may break and a suspended
submission may hold the account between any two of them; it is granted because after every
break `run()` connects again. No fairness is given to reconciliation itself: on a
connection that holds and loses nothing it is called once. That the reconnection succeeds
is assumed, so the end after `max_attempts` failures, an outage for the operator, is not
in this run. `stream` (`Spec`): weak fairness of `RunSteps`, the steps of the coroutine
`run()`, whose sleeps and reads have time-outs, and of `HeartbeatTimeout` in a session
that is not authenticated, where no frame can keep the watchdog quiet. A server that
refuses the key for ever is excluded by `MaxFaults` and reconnected to for ever (section
5). Nothing is assumed of fills, frames, faults or operators, and no fairness of the
other modules.

**What is excluded by name.** Where a property holds but for holes of the
design, the module keeps a history variable and the property names them:

* `ExposureHoldsLock` is checked with one contract. With two, closing the position of a
  *partly filled* entry archives the trade while the rest of the entry still rests
  (`close_position` cancels the bracket, not the entry); `TrackedExposureHoldsLock` holds
  for every quantity.
* `CleanPassSeesProtection` is checked, and proved, on a network that answers and without
  the kill switch. A POST, an expiry or a kill verification whose outcome stays unknown
  leaves a record that is not resting and holds no observed fill; a pass claims its
  setup, refreshes nothing, and can then end clean over an unprotected position.
* `stream`: `unseen`, a loss no sequence number can reveal: of a frame of a channel that
  has no baseline in this session yet, or of one whose number was read and whose body could
  not be used; and a stop that ended while the store holds it PENDING, which inference
  from absence skips. A frame with an unknown action is refused before its number is
  tracked, although the comment at `E/execution/private_websocket.py:1582-1585` says that
  continuity is independent of applying it: as the first of its channel it sets no baseline.
* `orders`: `unread`, an entry answer that could not be parsed and is taken for a
  refusal; `early`, an audit that releases by a judgement gone stale; and the calls whose
  one query after an unknown outcome could not see their order, or found it pending or
  partially filled and called it filled (section 5). With an equity of zero
  `PostedOrdersAreSound` claims no risk limit: `validate` compares with the limit only
  when it is positive. It claims nothing of a reduce-only order, for which `validate`
  skips the stop and target, their geometry, reward, risk and margin
  (`validation.py:484`, `:546`).
* `smc`, `RestingEntriesAreWanted`: `late`, a cancellation that came and went before the
  entry it was meant for was sent; an entry still resting when the strategy's own trade on
  the block is over, which no event reports; a *superseded* entry, whose withdrawal the
  report names and nothing executes (section 5); and the orders in `left`, which a
  restarted process has forgotten. `WindowsClose` speaks of the first-touch mode only;
  in the other a limit rests without end.
* `feed`: hours that were `cut` (on a page that failed), `jumped` (between a backfill's
  reach and a live candle), `lost` (overwritten by the other process), `unfed` (on
  file and passed over by the engine, because the ingestion wrote them, they came late, a
  callback raised, or their call failed at the metadata), `amended` (corrected by the
  exchange: the engine keeps the candle it took), metadata `torn` by a crash between the
  two writes, and a CSV `mixed` by two calls with one temporary file, after which
  `DiskIsSound` and `EngineFollowsFile` claim nothing. `RestartRebuildsStructure` leaves
  out the order blocks (section 5).

## 4. Proofs

Every theorem holds for all values of the constants that satisfy the ASSUMEs of the
modules, which TLC evaluates on every run. They say that bounds are numbers, that model
values are distinct, and: `Assets # {}`; a bracket request belongs to an order
(`OrderAssumption`); what is on file at the start passed the checks of a row, a candle
that passes them, and a correction, closes between its low and its high
(`validate_candle_ohlcv`), and the calendar year of the file ends once (`FeedAssumption`). Each inductive invariant was
checked by TLC on the instances of the runs before it was proved.

**`TradeLifecycleProofs`**, with and without overlap, on every network: `TypeCorrect`
(`TypeOK`) and `TrackedExposureIsLocked` (`TrackedExposureHoldsLock`).

`TypeOK` is not inductive: a fill would leave `0..Qty`, and the read of a leg could
return `"free"`. `TypeInv` adds that an open entry has room to fill (`GoodOrders`), that
bracket ids in records and frames were given out by the exchange (`Placed`), and that
a call suspended at a setup's point names a setup (`GoodFrames`). `LockInv` adds what
a submission in flight relies on: a setup never executed has nothing on the exchange; a
submitting call holds the lock while its trade is tracked and is the only one for
its setup; until the exchange accepts there is nothing of the entry. `Managed` says what
a step of the manager does to record, frames and slot; nearly every action is shown
to be `Managed` once, `Exchanged` does the same for the exchange, and the remaining
actions are treated one by one.

**`TradeFillsProofs`** is about knowledge that may be old when it is used. The exchange
tells a suspended call or the snapshot of a reconciliation, and by the time this reaches a
record more may have filled. `TruthInv` says that every copy - in a record, in a frame,
in `survey` - is still a lower bound of what has filled, that a protected size was
recorded before, and that a death a copy reports is final, because nothing fills after it.
From it: `FillsReal` (`FillsAreReal`), `UnfilledVerdictTrue` (`UnfilledVerdictIsTrue`),
`FillsNeverForgotten` (`FillsNeverRegress`), and `LiveTradesStayOnTheBooks`: only a closure
or the kill switch drops a trade that is not dead and unfilled. For entries of one
contract and without the kill switch, `SlotInv` adds that what is untracked is over, and
gives `ExposureIsLocked` (`ExposureHoldsLock`) and the refinement `SlotImplemented`
(`ImplementsSlot`). Both conditions are necessary: with two contracts the closure of a
partly filled entry, and with the kill switch the archiving of a trade whose POST is
still out (`kill_in_flight`), leave something live under no lock.

**`TradeProtectionProofs`**, for any number of setups, contracts and protective orders,
when no call is suspended inside another (`Overlap = FALSE`; two overlapping calls that
protect one record overwrite each other's ids): `ProtectionReal` (`ProtectionIsReal`), on
every network and with reconciliation running, and `EngineLegsSeen`
(`EngineLegsTracked`), under `Sure`: no answer is lost and no reconciliation
runs. Both parts of `Sure` are needed: a lost answer to a placement leaves an order whose
id nobody knows, and a reconciliation compares with a snapshot and forgets an id
placed since, which is the finding of `duplicate_stop`. Neither property is inductive,
because in the middle of `_ensure_bracket_protection` the record names one new order, an
old one, or none. `ShieldInv` says what is true at each point: at most one call is at work
and it works on one setup, every other record `Rests`, and the record at work `Fits`
the frame of its call - which of the two ids are set, which order has been confirmed dead,
whose answer is still to be written down, what the snapshot in hand may be adopted from.
Every step of the manager replaces one such pair by another (`Served`) and every step
of the exchange moves the orders under it (`Keeps`); the exchange cancels an
order by itself only when the position is flat, and `TruthInv` says that something was
filled before it was called protected. The new ids of a bracket are distinct from
each other and from those in use because ids are given out in ascending order
(`IdsAscend`).

`CleanPassSees` (`CleanPassSeesProtection`) needs moreover that every request is answered
and the kill switch is left alone (`Reliable`; section 3 says why). What a pass saw must
still be true when it ends, many requests later and with fills arriving in between.
`PassInv` has three parts. `RecordsHeeded`: a record that holds no fill and is not resting
belongs to an entry that is over, so only resting entries have to be read back.
`CallsInformed`: an expiry reads the order after it has stopped resting, so the fill it is
told is the last. `PassSweeps`: what the pass has to visit is active, what it has visited
it has claimed, and, unless it is already dirty, every claimed record agrees with the
*snapshot* in both ids and in size; only the record at work may differ, and the frame
tells by how much. The later fills do not matter to the property because the sizes are
compared with the snapshot; that the snapshot is never more than has filled
(`SurveyTrue`, of `TruthInv`) is why a refresh leaves no smaller size behind.

**`OrderPathsProofs`**, for any number of calls, setups and client ids, on either path:
`TypeCorrect` and the six safety properties of `orders`. Each action is
translated once into what it does to the call that takes it (`ExchangeStep`,
`ServiceStep`, `SessionStep`, `AuditStep`). `StageInv` ties the place of a call to its
exposure (what it waits for has been sent, what it reports was taken); `ServiceInv` keeps
every posted setup registered in flight and gives every verdict its order; `HolderInv`
gives the lock to a session that runs, not only to one that is exposed, without which a
second session could start between the lock and the POST; `OwnerInv` keeps the lock free
while the service trades. The formulas are proved apart: `AllocationIsGreatest`
(`calculate_100_percent_allocation` is the greatest affordable quantity and the check
after it never fires), `NearestIsNearest`, `DecisionNearBudget`.

**`PrivateStreamProofs`**, for any number of faults, attempts and frames on the wire:
`TypeCorrect`, `FillsObservedOnce` (`FillObservedOnce`), `FinishedHaveEnded`
(`FinishedOrdersHaveEnded`) and `SettledStoreTrue` (`SettledStoreIsTrue`). The types rest
on one trade following another (`OneTradeAtATime`). `HistoryInv` adds that every frame
on the wire was true once: it names an order that was sent, and a frame that says
finished is true for good, so that neither a stale frame nor an inference can finish a live
order. `SettledInv` is why a settled store is true although frames are lost, repeated and
older than the snapshot they follow. Frames are on the wire in the order of their numbers
(`WireOrdered`); the last position frame tells the position (`PositionTrue`); and while the
client relies on its store it agrees about an order, or a frame about it is on the way,
or there is a hole in the numbers that a later frame will reveal (`OrdersTrue`). Once
nothing is on the wire and no number is outstanding, only agreement is left.

**`ManualSMCProofs`**, for every price of a block and tick size, both modes and any number
of resumptions: `TypeCorrect`; `SlotSafety`, `GatesSafety`, `ReentrySafety`, `EntrySafety`,
`WindowSafety`, `ExitSafety`, `OfferSafety` (the properties `SlotMirrorsTrade`, `GatesAgree`,
`NoReentryWithinACandle`, `EntriesInsideWindow`, `WindowsClose`, `NoExitOnFillCandle`,
`OffersAreSound` of `smc`); `AdmissionsAgreeUnlessResumed`, so the disagreement of
`smc_resume` needs a resumption; and `SubmissionRunsTheStrategy`: `SubmitSpec => Spec`, so
all of them hold of the process with its tasks too.

`CandleInv` strengthens them by three facts. The lock never knows of a later close
than the lifecycle (`LockKnowsNoMore`; equality until a resumption), or a fill the
lifecycle admits could find the lock refusing. A trade was filled on a candle its
pair has processed and after the last close (`FilledOnProcessedCandle`), which makes
every later close later than the fill. A live block was made by a processed candle, or
by one that raised, and then no later than the last close (`MadeBefore`): a candle that
raises keeps its block but not its watermark and may be offered again, and without this
the block could be entered on the candle that made it. `CandleOutcome` shows that a
candle closes the trade, fills one or leaves the slot alone, with the books to match, and
that it raises only in the last case and no later than the last close; `PoolOutcome`
says what it does to the blocks; the conjuncts follow case by case. `ClockInv` adds that
the portfolio's clock is the newest watermark of any pair and that only a resumed process
raises (`ClockInvariance`). `OfferSafety` rests on `SendableKeepsBudget`: at the leverage
computed from the raw legs, the rounded legs lose no more of the entry than the budget,
since the stop is rounded toward the entry and the entry away from profit.

**`SMCSubmissionProofs`**: `RestingIsWanted` (`RestingEntriesAreWanted`), for any number of
waiting tasks and restarts, with the holes of section 3 named in its statement. A block
stops being wanted in one of two ways. It dies on a candle, which reports it to a task -
unless the candle raises, and then the report is lost. `DeskInv` excludes that: a candle
raises only in the hour of the last close, and the pair of every block that was ever
offered has passed that hour (`OfferedAfterClose`). Or another block takes the slot, and
then the entry is superseded.

**`MarketFeedProofs`**, for every tape, page size, limit of attempts and number of faults:
`TypeCorrect`, `DiskSound` (`DiskIsSound`), `EngineFollows` (`EngineFollowsFile`),
`RestartRebuilds` (`RestartRebuildsStructure`), `BlocksFollowTaken` (`BlocksFollowCandles`).
That no
hour is silently missing says nothing inductive about a file that two processes overwrite.
`FeedInv` says it of everything pending as well. Some of it holds always: the types, what
is on the temporary files, that rows on file, in calls, in handlers and in the engine are
what the exchange published for their hour, in a mix of two files too (`FilesAreGenuine`),
and that the engine ascends. The rest (`FileInv`) holds until `holes.mixed`. A call that
had its temporary file to itself puts exactly its own file in place (`CleanReplace`), so a
row once on file stays there or is known to be lost (`Keeps`), and an hour accounted for
stays so; every hour below one that was
stored is accounted for; the file a backfill or the ingestion is about to put in place
leaves out no unaccounted hour below its newest; and up to `holes.covered` there is
nothing a live candle could skip (`HoursAreAccounted`). What was
handed on was stored before (`HandedOnAfterStored`); and the engine has taken, passed
over or is about to see every row (`RowsAreTaken`). The rows of a file are shown to
exist and ascend by counting (`NthExists`, `RowsFacts`).

What the engine makes of its candles rests on three more parts. `Initialize` computes the
structure with folds over a whole series, the running engine one candle at a time.
`DetectAllAppend` shows that a run over a series and one candle more is the run over the
series and one step of the detector, so that `StructureFollows` is kept: what is parsed
and both detectors are those of a run over all the candles (`Rebuilt`), unless the engine
began on too short a history. `BlocksFollow` follows a block from its break on: live, it
is active exactly if no candle taken after `brk` closed through it; that such a candle
is the published one, unless the hour was corrected, comes from `FilesAreGenuine`. A block is aged by the
candles whose position is beyond its break's, and the candle that breaks the structure
ages the block it has just left. In an engine that began on a whole history the two
positions are equal and the test is skipped. In one that began on too short a history
`parsed` lags behind `candles`, the break's position is the smaller, and the block stays
active only because that candle cannot close through it: it closes beyond a pivot, and
the block spans the extreme bar from that pivot on (`BreakClears`). This needs the pivot
to be the price of a bar the detector was shown, and every bar to have its parsed prices
between its low and its high (`PivotsAre`, `Ordered`), which `ShortSound` says of such engines.

The theorems of the library that do induction take an operator as a parameter, which the
provers cannot instantiate. Where one is needed, over the length of a fold, the parts of a
flattened sequence or the bars of a leg, it is done by the least counterexample, a set of
numbers (`LeastExists`, from `WFMin`).

**Only model-checked:** the two liveness properties (`recovery`, `stream`), since fairness
and ENABLED are outside the proof system. Every other property of a passing run is a
theorem.

With the kill switch, or with entries that fill in parts, `ExposureHoldsLock` and the
refinement do not hold; tracked exposure, verdicts and fills are proved there too.

## 5. Disagreements between the code and what is said of it

* `duplicate_stop`: a reconciliation pass that itself discovers a fill protects it and
  then, comparing the new bracket ids with the open orders read *before*, forgets
  them and places a second pair. Two live stops, which the comment at
  `TL:850-851` calls forbidden.
* `stop_out`: the exchange executes the stop loss or the take profit; closing the
  trade then tries to cancel the executed leg, reads FILLED, and does not count that
  as resolved. The trade stays active and the lock held, where
  `test_e02_...` (`engine/tests/test_task_m_execution_event_loop.py:853-865`) asserts
  POSITION_CLOSED with an exchange that accepts cancelling an executed order.
* `kill_in_flight`: the kill switch archives a trade whose POST has not returned; the
  docstring (`TL:2692-2694`) says that only a confirmed terminal state counts.
* `smc_resume`: `from_state` (`E/strategy/manual_smc/strategy.py:1033`) takes the portfolio
  lock again for an open trade but never restores the hour of the last close, which the
  lifecycle does restore. `E/strategy/manual_smc/portfolio.py:185-186` says that the two gates "can never disagree
  about admissibility" and `E/runtime/manual_smc_runtime.py:758` promises "a runtime that
  behaves exactly like one that never stopped"; after a resumption in the hour of a
  close, the other pair's candle of that hour raises `PortfolioLockDesyncError`.

The models contain these as well; each is visible as a named hole, an excluded case or an
outcome of the model, and none has a run of its own:

* **An unknown outcome found.** `E/execution/execution_engine.py:519` reports an order that
  the query finds PENDING or PARTIALLY_FILLED as FILLED (`FoundVerdict`);
  `VerdictIsTrue` excludes exactly these calls.
* **A refused key.** The comment at `E/execution/private_websocket.py:1355-1358` says that
  the run loop treats it as a failed attempt. Nothing reads `_authenticated`, and `run()`
  sets the count back when the socket opens (`:1650`): a session that was refused counts as
  a success, stays until the watchdog or the server ends it, and is followed by another,
  for ever if the server refuses for ever.
* **`close()` during `connect()`.** `private_websocket.py:1012` sets `_running` after the
  socket is there, which undoes a `close()` that came meanwhile.
* **Expiry of a resting entry.** The adapter publishes, with every decision, the approved
  policy NO_TIME_BASED_EXPIRY (`E/strategy/manual_smc/adapter.py:178-186`, `:445`;
  `engine/tests/test_manual_smc_adapter.py:393-395`, and
  `test_manual_smc_first_touch_window.py:1454` in the first-touch mode itself), and
  `docs/MANUAL_SMC_STRATEGY.md` knows no entry window. In that mode
  the lifecycle ends a limit after its window
  (`E/strategy/manual_smc/lifecycle.py:734-770`). `WindowsClose` states what the lifecycle
  does, against the published policy.
* **Withdrawals nobody executes.** `E/strategy/manual_smc/strategy.py:398-400` says that the
  other resting orders "must be withdrawn now that the slot is taken"; `cancel_ob_ids`
  carries them (`:887-904`, `adapter.py:740-757`, `:884-904`), and the runtime cancels only
  what is INVALIDATED (`E/runtime/manual_smc_runtime.py:393-419`).
* **"Atomic write"** (`E/market_data/ingestion.py:390`): the temporary path is derived from
  the file's name alone (`:392`, metadata `:134`), so two writers share it, and the
  clean-up of one (`:409-410`) removes the file of the other.
* **Corrected candles.** `upsert_closed_candles` writes a correction to the file
  (`ingestion.py:351-364`, `test_revised_candle_is_update` in
  `engine/tests/test_phase3f5_persistence.py:273`); the engine skips every hour it has seen
  (`E/market_data/incremental_engine.py:470`), and may keep a block active, or dead, against
  the close on file until it is restarted.
* **Order blocks of a restart.** An engine built from the file registers the blocks it
  finds without ageing them by the candles that followed (`incremental_engine.py:352-361`);
  the running one has touched or invalidated them. The header of
  `engine/tests/test_phase3f2_incremental_equivalence.py:4-7` ("exactly the same final
  SMC/OB state") and `test_incremental_equals_full_replay` (`test_phase3f6_continuous_live_validation.py:692-728`)
  say they are the same. `RestartRebuildsStructure` therefore claims the bars, legs, trends
  and pivots only.

## 6. Not modelled

* **AI research and inference** (`E/ai`, the backend's `ai`), the largest part of the
  unmapped lines: offline research, replays and statistics over recorded candles.
* **SMC analysis beyond structure** (confidence, liquidity, fair value gaps, equal
  levels, risk scores): functions of a finished window; what they decide enters the models
  as a free choice. **Historical data, instruments, backtest**: batch tools and tables.
* **Java backend**: its persistence, order execution and startup reconciliation are
  transactions whose interleavings are decided by a database isolation level that
  `src/` does not configure; the live trade is run by the Python engine. The hazard of
  `TradePersistenceService.java:324` is listed without a property for this reason.
  The other Java layers and the web applications are CRUD and presentation.
* **Restart of the lifecycle manager**, whose lock and records are in memory: a new
  manager knows nothing, and every property of tracked trades would hold of the empty
  record. `SMCSubmission` has the restart of the whole process.
* **A setup id executed twice**: frames would have to name records instead of setups,
  and no caller in `src/` does so on purpose.
* `run()` of the private stream is not called again once it has stopped.
* Signing, HTTP, rate limits, logs, status output, fees, P&L and settlement arithmetic.

## 7. Running

    tlc -workers 2 -config MCOverlap.cfg MCTradeLifecycle.tla
    tlc -workers 2 -config MCRecovery.cfg MCTradeRecovery.tla
    tlc -workers 2 -config MCSMC.cfg MCSMCSubmission.tla
    tlapm TradeLifecycleProofs.tla
    tlapm TradeFillsProofs.tla
    tlapm TradeProtectionProofs.tla
    tlapm OrderPathsProofs.tla
    tlapm PrivateStreamProofs.tla
    tlapm ManualSMCProofs.tla
    tlapm SMCSubmissionProofs.tla
    tlapm MarketFeedProofs.tla

`PROJECT.json` names the module and configuration of every run.
