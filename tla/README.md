# TLA+ models of crypto-trading-agent

The repository is a TypeScript agent that trades Binance USD-M futures (live, paper, or through a remote paper
broker) and buys options. This directory holds TLA+ models of the parts of it whose correctness depends on the
order in which things happen: the code that sends orders, keeps positions protected, reconciles its own books with
a venue, and survives restarts. Paths below are relative to the directory that contains `src/`.

## 1. Inventory

| Component | Source | State it keeps | Operations | Why it is hard |
|---|---|---|---|---|
| Live entry tracker | `src/src/binance/liveEntry.ts`, `client.ts` 383-491, 705-729, 815-882 | the single entry slot; per entry: legs, their size, stale legs, cancel sent | submitLiveEntry, reserve/release/track, step, syncLegs, cancelStale | every line awaits the venue; fills, cancels, lost answers in between |
| Live position book | `liveBook.ts`, `stopRules.ts` | a record per symbol and its file, last snapshot, per-symbol lock | recordEntry, refresh, reduce, updateStops, replaceStop, auditProtection | cancel-then-place, snapshots older than a record, ambiguous placements |
| Trading loop | `runtime/Orchestrator.ts`, `agents/RiskAgent.ts`, `client.ts` 325-361, 533-653, `liveProtection.ts`, `ops/killSwitch.ts` | halt flag, peak, entry blocks, cooldowns, refusals, ages of journal and brackets | loop, guards, gate, execute, reconcileLive, cancelEntryOrders | the cycle, the tracker, the operator and the market interleave; decisions use a context read earlier |
| Position manager | `src/src/position/*` | per position: phase, reduced quantity, partials done, stop, and their file | advance, manage, step, apply, revertReduce | tick and cycle passes overlap; a failed order after the state moved on |
| Remote broker | `remoteBroker.ts`, `remoteOrders.ts`, `remoteState.ts`, `remoteReconcile.ts`, `remoteFunding.ts` | cached positions, metas, exit jobs, expected opens, journal, order epoch | open, close, reduce, markAll, updateStops, sync, reconcile | stale views, exits queued and retried, closes journaled once |
| Paper account | `paperEngine.ts`, `risk/equityHwm.ts`, `risk/hwmReset.ts`, `client.ts` 701-798 | positions, balance, trades, funding slot, equity peak, and their files | openPosition, reduce, markAll, accrueFunding, persist, flushSync, observe, reset, migration | conservation of cash, what a restart forgets, a second process writing the file |
| Options desk | `src/src/options/*` | slot per underlying: state, pending entry, position, unresolved exit | start/reconcile, cycle/step, enter, exit | a crash between persist, send and reply; orders with unknown outcome |
| Local order book | `microstructure/LocalOrderBook.ts`, `MicrostructureFeed.ts` | book, buffer, update ids, status, resyncs in flight | onDiff, loadSnapshot, reset, resync, connect | snapshots racing the diff stream, gaps, reconnects |
| Live journal and owners | `liveJournal.ts` | cursors, open legs, trades | sync, load, ownerAt | paging, a failed save |
| User data stream | `userDataStream.ts`, `wsRoutes.ts` | state, generation, listen key, timers | start, stop, connect, renewKey, reconnect | callbacks of superseded sockets |
| SMC-ML runner | `src/src/strategies/smc-ml/*` | fingerprints of executed setups, per-symbol runs in flight, trade lifecycles | run, execute, registerLifecycle | an order path beside the orchestrator; nothing but tests starts it, its entries are paused by default |
| Decision, market, learning, research, strategies, LLM, briefs, playbooks, UI | the other directories of `src/src/` | mostly pure functions over candles, and journals | scoring, sizing, classification, rendering | numeric heuristics; little concurrency |

How they interact: the orchestrator's cycle reads a context, runs the guards, gates signals and calls `BinanceService`
(`client.ts`), a facade over one of three venues. In live mode an entry passes the live guards and goes to the entry
tracker; once the tracker has placed protection it records the entry in the live position book, which then owns the
stops. The position manager drives either venue on every tick and cycle. The friction gate asks the local order book
about every futures entry. The user data stream only wakes the tracker. In remote mode the broker keeps stops itself
and fires them on marks. In paper mode the engine is the venue, and a one-time migration moves its book to the remote.

What makes each component correct is stated in section 4, property by property; the hazards behind them are listed with their
lines in `PROJECT.json`.

## 2. Plan

Done: every module below with its run, the refinement of the live book, and the proofs of section 5. What is left:
`LiveJournal` (fills to trades against a reference definition), `UserDataStream`; the SMC-ML trade lifecycle should the
program come to use it.

## 3. Modules

Common conventions. A module that models code with awaits has a program counter (`pc`, `opener.pc`, `xpc`,
`job[t].pc`); an action runs from one await to the next. A venue call is split into what the venue does and what the
caller sees, so a call may take effect although its caller got an error. What the environment may do beyond the
ordinary is a set of named kinds. Except in `LiveEntry`, they are part of `world`, a variable that `Init` chooses from
`Worlds` and that never changes: one run covers several environments with bounds of their own. Operators whose comment
starts with "Mutant:" are deliberately wrong variants of the next definition; no specification uses them.

### LiveEntry

One call of `submitLiveEntry` per element of `Entries`. `caller[e]` follows the call (idle, preparing, submitting,
done); `slot` and `tracked` are `LiveEntryTracker.holder`; `legs`, `legsQty`, `stale`, `cancelSent` are the
`EntryContext`; `seen`, `held`, `pair`, `todo` are the locals of one pass of `step`. At the venue there are the entry
orders (`order`, `exec`), the positions (`pos`) and the resting legs (`stops`, `tps`).

| Code | Actions |
|---|---|
| reserve, leverage and filters, submit, its answer, its timeout | `Reserve`, `PrepareFails`, `Submit`, `SubmitAnswered`, `SubmitRefused`, `SubmitTimesOut` |
| `step`: order state, position | `ReadOrder`, `ReadPosition`, `ReadFails` |
| `syncLegs`, `placeLegs`, the emergency close | `PlaceStop`, `PlaceTp`, their `...Fails`, `EmergencyClose`, `CancelAllOpen`, `Flatten` |
| `cancelStale`, the end of a pass | `CancelStale`, `StaleDone`, `Resolve`, `NotResolved`, `CancelEntry`, `Wake` |
| venue, operator, clock | `Arrive`, `Fill`, `EntryCancelled`, `Trigger`, `OperatorClose`, `OperatorCancelAll`, `Expire` |

A leg pair is one identity: legs are closePosition orders, so their price and size do not matter here. Identities
come from a pool and may be reused once nothing refers to them. Sizes are lots.

### LiveBook and ProtectedPosition

One symbol in mode "on". `pos` and `orders` are the venue; `meta` and `file` the record in memory and on disk; `raw` the
last position snapshot; `lock` and `job[t]` the per-symbol lock and what its holder does (`t` is the audit or the
driver); `refresh` the cycle's snapshot and audit; `tracker` an abstract entry tracker (places legs, records the
entry, cancels what it replaced, or flattens). Prices are ticks in the direction of the position. `excuse` names the last
fault that may leave the position bare, `floor` the tightest stop it has had since an emergency close. A world also says
how many stop prices there are.

| Code | Actions |
|---|---|
| entry tracker (see `LiveEntry`), `recordEntry` | `Fill`, `TrackerPlaces`, `TrackerFlattens`, `recordEntry`, `TrackerCancelsStale`, `TrackerDone` |
| `refresh` | `RefreshAsk`, `RefreshFails`, `RefreshApply`, `RefreshTurn` |
| `auditProtection` | `AuditStarts`, `AuditAdopts`, `AuditConfirms`, `AuditConfirmed` |
| `updateStops`, `replaceStop`, `dropTarget`, `reduce` | `DriverMoves`, `UpdateStarts`, `CancelStop`, `DropTarget`, `Dropped`, `DriverReduces`, `ReduceStarts`, `Reduced` |
| `placeWithRetry`, `emergencyClose` | `placeWithRetry`, `Placed`, `EmergencyRead`, `EmergencyReduce` |

`ProtectedPosition` is the promise without the machinery: flat, covered, being worked on, or exposed for a known reason;
work ends, and a managed position that is exposed is worked on again. `LiveBook` implements it (`Promise`, `PromiseKept`)
under the mapping `status <- Status`, `managed <- meta # None`, `reason <- excuse`.

### TradingCycle

`pc` walks through `runCycle`: refresh of live state, startup reconciliation (orders read, then positions), context,
emergency guard, drawdown guard with cancels and closes, signals one by one (skip, gate, veto, execute, reserve, submit,
portfolio refresh). Beside it run the tracker (`TrackerProtects`, `TrackerExpires`, `TrackerResolves`), the operator's
toggle and its cancels (`CancelRead`, `CancelOne`), fills and stops at the venue, equity and circuit (`MarketMoves`) and
restarts. `ctx` is the context a decision uses, `suppressed` the refusal suppressor, `peakFile` and `haltFile` what
survives a restart. The gate (`refusal`) keeps the order of `RiskAgent.gate`'s checks that depend on shared state:
kill switch, safety block of the symbol, drawdown, missing journal or brackets, circuit, position limit. Sizing and
approval by score are a free choice.

### PositionManager

One position, two kinds of passes (`tick`, `cycle`) that share `busy`. `store` and `file` are the saved state, `pass[p]` what a
pass has read and planned, `qty`, `stop`, `target` the venue. `raw` is what the venue object shows: `LiveBook.raw`, which the live book
lowers by its own partials, or `RemoteBroker.positions`; `fetch` is a refresh of the live book under way, `job` the partial
that `RemoteExits` has queued. History: `taken` (the lots each take-profit took of the entry) and `misses` (of this entry, the fills
that the driver or the broker was not told of). Prices are levels relative to the entry.

| Code | Actions |
|---|---|
| `manage`, `busy`, `step` with `advance`, the end of a pass | `Manage`, `Skip`, `Step`, `Done` |
| `apply` REDUCE on the live book, on the remote broker, its answer | `Reduce` (`reduceLive`, `reduceRemote`), `Answered` (`settle`, `shown`) |
| `apply` MOVE_STOP | `Move` (`venueStop`, `venueTarget`) |
| `refresh`, `sync`, `retryPending` | `Fetch`, `Refresh`, `RetryExit` |
| market, strategy, process | `MarkMoves`, `Enter`, `Crash` |

A partial on the live book is filled, filled in part or refused, or it is filled and its answer lost. On the remote
broker it is refused beside a queued one, filled, refused by the venue, filled too late for its caller, or queued in an
outage, landed or not; the sync that follows a fill may fail. `Crash` also stands for the time before the first refresh: the live
book shows no positions until then.

### PaperAccount

`book` and `file` are the engine's state in memory and on disk, with integer prices and fees; `timer` the pending debounced
save. Each position carries the history it needs for the accounting (`born`, `charged`, `scaled`), the book the cash of all
its fills (`cash`). `hwm` and `hwmFile` are the equity peak, `baseline` and `seen` say what a reset has to forget.

The move to a remote venue: `venue` is its progress (`StartRemote`, `InitVenue`, `MoveOne`, `MoveDone`), `todo` the positions still to
look at, `remote` what the venue holds and `cache` what `RemoteBroker.positions` shows of it. `missingRemote` asks the
cache, as the code does. `InitVenue` may leave it empty, since `init` swallows a failed sync; `open` syncs by itself, adds to what it
finds there, and throws what the caller swallows. History: `blind` counts the starts whose first sync failed, `again` the
opens of what the venue already held. An order of the move that arrives only after the next start has synced is not modelled.

### RemoteBroker

One symbol. A position of the exchange has an *episode* number, which stands for the entry price that the code
stores in its sidecar and journal: it tells one position from the next one on the same side. `cache` is what the
broker believes, `meta` and `journal` are the sidecar file, `expected` the opens it waits to see, `job`/`xpc` the
exit job and its driver, `opener` the `open()` call, `queue`/`sync` the chain of syncs. A world also fixes the sides the
agent opens on (`sides`): some properties hold only for an agent that keeps to one.

The order epoch only ever says whether an order finished after a snapshot was requested, so it is one flag of the
running sync (`sync.stale`). Code that runs in the microtask after an await (the next sync of the chain, `open()`
after its sync or its flip) runs before any other event: such work makes `Urgent` true and other actions wait for
`Quiet`. `checkStops` may fire whenever there is a stop, because prices are left out. `reduce` always asks for less
than the position, as its caller `PositionManager.partialQty` guarantees.

### OptionsEngine

`slot[u]` is one `UnderlyingSlot`; `disk` is the state file and `diskVenue` the local venue's book inside it. `pc`
and `cur` say in which await of whose step the cycle is. Order ids are records: entry number and, for an exit, its
`-x` number. The fields `adopted`, `booked`, `writtenOff` are history: they count lots for the accounting property.

| Code | Actions |
|---|---|
| `start`, `reconcile`, a failed start | `StartPositions`, `StartReconcile`, `StartFails` |
| `cycle`, the positions read once per cycle | `Positions`, `PositionsUnavailable` |
| `tryEntry`, `enterFromSignal` | `NothingToDo`, `Signal`, `Reject`, `Submit`, `buyToOpen`, `EntryAnswer`, `EntryUnknown` |
| `resolvePendingEntry` | `ResolveEntry`, `EntryUnresolved` |
| `detectExternalClose` | `GoneByExit`, `GoneWrittenOff`, `GoneUnknown` |
| `manage`, `executeExit`, `closeOut` | `Hold`, `NoQuote`, `Manage`, `sellToClose`, `ExitAnswer`, `ExitUnknown`, `Reset` |
| venue, clock, process | `Execute`, `Drop`, `Settle`, `TimeUp`, `Crash` |

Left open: contract choice, sizing, governors, veto, kill switch (an entry may be refused at any of them),
price exits (an exit may trigger at any time), cooldowns, the order in which a cycle visits the underlyings, and
whether a quote or a bid exists. One contract per underlying, always listed. `SIGNAL_DETECTED` is never saved (the
whole pipeline runs inside one step, and the step saves at its end), so the branches that recover from it on disk
are unreachable and left out, as is the branch for a pending entry without its record. The venue remembers all
orders; the code looks through five pages of them, the local venue keeps 500.

### OrderBook

`hist` is the exchange's book after each update, `cut` the last update that went into a diff, `chan` the diffs on the
stream. `book` is `LocalOrderBook` with `onDiff`, `apply` and `loadSnapshot` as functions of it; `resync` the single
rebuild in flight; `feed` the progress of `connect` seen from one symbol (before it, at later symbols, done, failed). A
level is present or not. Snapshots hold the best `Depth` levels, so the coverage matters. Left out: sampling, recording
and views, which only read; the age after which a silent book counts as stale.

## 4. Runs

| Run | Instance | Checks |
|---|---|---|
| `live_entry` | two entries, one symbol, 3 lots, 4 leg identities, lost placements | TypeOK, ResolvedProtected, SingleExposure, NeverUncovered |
| `live_entry_liveness` | one entry without take-profit; triggers, operator, failing cleanups; fairness | NoLegLeftBehind, SlotFreed |
| `remote_broker` | five worlds: crashes; liquidations with lost answers; outages, late and asynchronous fills and an outsider; lost answers with restarts of an agent that keeps to one side; failed syncs with crashes | TypeOK, NoOverJournal, AgentKept, NoOrdersTogether |
| `remote_broker_liveness` | one open, one exit, lost answers, crashes, fairness | EndedJournaled |
| `options_engine` | four worlds (`Tolerated`), 2 lots, cap 1, two entries, one crash, fairness | TypeOK, NothingUntracked, ExposureCapped, LotsAccounted, TimeExits, EntryResolved |
| `trading_cycle` | eight worlds: halts (also with failing cancels), the position limit, the circuit, drawdown, failing and lost calls, failed saves, restarts | TypeOK, HaltLetsOneThrough, EntriesBounded, SkipSound, HaltAndPeakKept |
| `trading_cycle_liveness` | two worlds: a drawdown that flattens; losses with crashes and failing calls; fairness | UnprotectedFlagged, FlattenCompletes |
| `live_book` | five worlds: refusals with scale-ins and partials, targets, both sides, lost answers, restarts with failed saves | TypeOK; NeverLoosened in the first two (it leaves out two sides, lost answers, failed saves and crashes) |
| `live_book_liveness` | two worlds: refusals; lost answers and a crash; fairness | PromiseKept (refinement of ProtectedPosition), RecordHealed |
| `position_manager` | nine worlds. Live: refused and short fills, lost answers, halves with crashes and failed saves, delayed passes, overlapping refreshes. Remote: scale-ins with refusals, outages with queued partials, late fills, restarts | TypeOK, PartialsBounded, StoreAgrees, Ratchet |
| `paper_account` | seven worlds: accounting, exits, two symbols, crashes, shutdowns, resets, moves with refusals, outages and crashes | TypeOK, EquityIsCash, FundingOnce, ResetForgets, MovedOnce |
| `order_book` | four worlds: drops with failing snapshots, lost and malformed messages, failing subscriptions, a stop | TypeOK, LiveIsExact, SomebodyRebuilds |

**Bounds.** Two entries suffice for a race between entries: the slot has one holder. Three lots matter: an emergency
close, a failed cancel-all and a later fill need three sizes to tell apart. A pair can be current, under
construction or stale, so three or four identities never run out of roles. For the broker, two opens give a flip or a
scale-in, three exits a partial exit, its retry and a close. For the options desk two lots allow a partial fill, a cap of one
with two underlyings makes them compete, and two entries put an old order id beside a new one; `maxFailures` bounds the
exits of one position that sell nothing. In `TradingCycle` three symbols against a limit of one show how far it is
exceeded, two toggles end a halt and start another, equities of 8 to 10 with a limit of 10 % are on, above and below the
breach. In `LiveBook` two lots and two fills give a scale-in, two stop prices a move that is tighter for one
side and looser for the other, three (where calls are refused) a stop that is looser than one price and tighter than
another, and nine order ids are more than any behaviour of the worlds uses. In `PositionManager`
six lots at 35 % and 30 % leave a runner, halves leave one that is too small, and a second entry (in the worlds with "again") makes the saved state
stale; two faults give a partial that is missed twice, or missed once beside a crash. The two passes are
interchangeable, so its states are taken up to their permutation (2.4 million of them). In `PaperAccount` two positions and two faults let
a blind start meet one that is cut off. Three fills at three prices open, add, flip and close; four ticks of the clock cross two
funding boundaries. In `OrderBook` five update ids and a buffer of two diffs cover a snapshot in front of, inside and
behind the buffer and an overflow; with one level per snapshot the coverage is smaller than the book.

**Fairness.** *LiveEntry*: the loop never stops by itself and started calls go on (weak). Reads, placements and
cancels that are made again and again succeed at some time (strong): the code retries for ever and can do no more.
*RemoteBroker*: microtasks run (weak); the loop keeps asking for syncs and retrying exits, and both get answers
in the end (strong, since other events come in between). *OptionsEngine*: the desk's timer runs the process and
the venue executes or loses a request (weak); positions and the lookup of a pending order, which every cycle reads
again, succeed at some time (strong). *TradingCycle*: the interval timer starts cycles and their steps go on, the tracker
polls (weak); the refresh, the reconciliation and closes, which every cycle tries again, succeed at some time
(strong). *LiveBook*: the audit and the driver finish what they started (weak); the cycle's refresh and the tracker are
answered although driver ticks come in between (strong); the faults of a world are bounded in number. No fairness is
put on fills, triggers, quotes, exits, signals or on what the operator or the driver wants.

**Where the code and its comments part.** The instances above keep to what the code tolerates. The following
behaviours contradict a sentence of the code; each is reached by TLC when the named world or kind is added.

- *A stop move that changes sides* (`liveBook.ts:268`; lines 19-20: "a stop is never loosened"). A stop move waits for the
  lock, the long is stopped out, a short is filled and recorded; the move is compared with the long's side and
  replaces the short's stop by a looser one. `StopKept` with `Worlds <- Flips`.
- *A refill between two polls* (`liveEntry.ts:175`; line 95: "Protection follows the venue position size"). A leg closes the
  position and a later fill restores the old size; the consumed legs count as protection and the entry resolves without
  a stop. `ResolvedProtected` with "trigger" in `Env`.
- *A flip whose refreshes both fail* (`remoteBroker.ts:297`, `remoteReconcile.ts:73-76`; `remoteBroker.ts:258`). The cache keeps
  the old side, and the next sync journals a close and adopts the agent's own new position as an outsider's, without a
  stop. `OwnerKept` with `Worlds <- FlipWorlds`.
- *An open on a discarded view* (`remoteBroker.ts:297`, `remoteOrders.ts:226`; `remoteBroker.ts:131`). A sync whose snapshot was
  discarded still counts as fresh for `open()`, which flips a position that is gone; the exit job outlives the flip
  and runs against the new entry. A liquidation gets there, and so do lost, late or asynchronous answers, and failed syncs (two partials
  on a cache that was not refreshed between them close the position, a flip follows). `NoOrdersTogether`
  therefore says two things: the only exit that is ever on its way together with an entry is the one a flip queued, and
  where only crashes and expired expectations happen there is none. `OrdersApart` with `Worlds <- StaleOpenWorlds`.
- *A reused exit id* (`OptionsBuyingEngine.ts:408`, `OptionPositionMachine.ts:12`; `docs/OPTIONS_BUYING.md:109`). An exit's id is
  not saved before it is sent. After a crash the quantity is corrected from the venue, the id is reused, the replayed fill
  is subtracted again, and the slot closes with contracts left. `ClosedIsFlat` with `Worlds <- CrashThin`.
- *A refusal that could have changed* (`refusalSuppressor.ts:13`; line 25: "can only repeat"). Halt and peak are not part of the
  signature, so a signal the gate would now approve is skipped until book, circuit or equity bucket change.
  `SkipRepeatsRefusal` in the worlds with halts or moving equity.
- *A pass under way across two positions* (`PositionDriver.ts:109-113`). A pass between two of its orders when the position
  closes and a smaller one is opened sends the partials it planned for the old one, which may use the new one up.
  `RunnerLeft` leaves out worlds with "scale".
- *Passes that wait in line* (`PositionDriver.ts:60-66`, 79-83). A pass that read its positions before another one took a partial
  takes the old quantity for a scale-in, rebuilds the state and takes the first partial again. A refresh of the live book that was
  asked before a partial and answered after it does the same. `PartialOnce` in the worlds `Delays` and `Overlaps`.
- *A partial whose answer is lost* (`liveBook.ts:245`; `PositionDriver.ts:127`: "not sent; will retry"). The order was executed, the
  driver reverts its state and sends the same partial again under a new id. The live book does not subtract it either until it
  refreshes. `PartialOnce` without `misses`, `RunnerLeft` and `LotsAgree` without `misses = 0`, in the world `Lost`.
- *A partial that is queued* (`remoteOrders.ts:176-188`: "this call returns as if sent", so that re-deciding cannot "reduce twice";
  `PositionDriver.ts:113-123`). The driver counts it as done while the venue still shows the lots, so the next pass takes the position
  for added to and rebuilds the state. Further partials are refused while the job is queued; once it has filled, the first
  one is taken again. A sync that fails after a partial has the same effect. `PartialOnce` and `LotsAgree`, as above, in the world `Outages`.
  A remote order that fills after its caller was told it had not is repeated like one on the live book (world `Late`).
- *A tick before the first refresh* (`liveBook.ts:199-201`, `PositionDriver.ts:59`). After a restart the live book shows no position
  until it has refreshed; a pass that comes first drops the saved states, and a partial they had counted is taken
  again. `PartialOnce` without its exception for "crash", in a live world with crashes whose breakeven waits for TP2.
- *A start that could not see the venue* (`remoteBroker.ts:84-90`, 188-194; `client.ts:787`). A move that was cut off starts
  again, its first sync fails without a word, and every position it has moved looks missing. The first one that is opened is added to,
  since `open` syncs for itself and finds a position of the same strategy on the same side; its sync then shows the others.
  `MovedOnce` counts these (`again <= blind`); `again = 0` fails in the world `Moves`.
- *Funding after an orderly shutdown* (`paperEngine.ts:357`; 110-111: "a boundary crossed while the process was down is charged on
  the next call"). `flushSync` writes the file without the funding slot, so those boundaries are lost. The same happens to a
  position whose rate is missing at a boundary. `FundingOnce` without its exceptions.
- *A reset beside a running agent* (`hwmReset.ts:57`: "or wait for the next cycle"). The agent keeps its peak in memory until it is
  restarted, and its next save overwrites the reset's time stamp, so that peaks in the journal count again. `ResetForgets` therefore
  speaks of the stored peak, after a restart; no property speaks of the stamp.

**Other limits of what the code tolerates**, listed so that nobody widens an instance by accident:

- *LiveEntry*: an operator's close during an entry, or a cleanup whose failure hides that it took effect, breaks
  ResolvedProtected; a submit that lands after its timeout breaks SingleExposure. NoLegLeftBehind breaks when a placement
  is reported lost but rests; when a take-profit cannot be placed and the cancel-all of the emergency close fails too (the
  pair's stop stays, and no context remembers it); and when a second entry on the same symbol puts its own pair beside the first one's.
- *LiveBook*: a refresh that was asked before an entry was recorded deletes the new record (`liveBook.ts` 174-183): the
  position keeps its stop but is no longer managed. An emergency close takes its size from the cache when the read
  fails, closes less than is held and reports success. A crash between cancel and place leaves the position bare until the
  next audit. `PromiseKept` names these as reasons. When the new stop, the old price and the emergency close are all refused
after a scale-in, the looser stop of the scale-in is what is left: `NeverLoosened` counts from the last emergency close
(the proof asked for this, and three stop prices show it).
- *PositionManager*: a refused second take-profit restores the target in the state, but the same pass has dropped it at
  the live book, which cannot place one again (`PositionManager.ts` 59-60). Partials that are taken again after missed fills
  can use up the runner. A missed fill makes the state expect more lots than are held, which hides a partial that a crash
  cuts off, or one that is queued and then refused: `TakenOrRetried` allows one missed fill, and none beside a crash.
- *PaperAccount*: a position the remote venue refuses during the move, or that an outage keeps from it, is dropped with the rest
  (`client.ts` 794-797).
- *TradingCycle*: an entry whose answer was lost does not refresh the context and lets one more pass the limit; a halt
  whose file could not be written is forgotten by a restart.
- *RemoteBroker*: NoOverJournal fails when a flip follows a lost answer (the exit it leaves behind meets the new entry, and
  an entry recorded after that exit is booked twice), when a partial exit is followed by a liquidation or a failed sync before
  the refresh, and with late or asynchronous fills. A position that has ended is not journaled when an open with a discarded view takes
  the next one for it and scales in (`EndedJournaled` excepts it); an entry of unknown outcome that is closed with a lost
  answer is never journaled; `close()` during a running partial exit joins it and resolves while the rest is open.
- *OptionsEngine*: EntryResolved fails when an unresolved entry's position is gone before it is priced; NoPhantomSale
  fails when the venue closes the rest after a partly filled exit whose answer was lost; NothingUntracked fails with
  requests that execute after they were given up; LotsConserved fails with a crash after a partial exit on
  paper_exchange. The kill switch is read before the awaits of an options entry and not again.
- *OrderBook*: nothing bounds how often a snapshot falls exactly between two events and has to be fetched again.

## 5. Proofs

All theorems hold for every value of the constants that satisfies the named assumption of the module
(`EntryAssumption`, `OptionsAssumption`, `BookAssumption`, `CycleAssumption`, `RemoteAssumption`, `PaperAssumption`,
`ManagerAssumption`; the live book has one of its own under the name `BookAssumption`): any sizes, prices, fees, percentages, limits and numbers of faults, finite or infinite sets of
entries and underlyings. The assumptions are what the code relies on: the paper account's prices are positive and not below
the slippage, so that a fill price is not negative; an entry of the position manager is at least the minimum lot
(`ExecutorAgent.ts:69-71` refuses a smaller one).

Each proof module has the same layout: the parts of the inductive invariant as named definitions, lemmas about the
model's operators, one lemma per part (one step per action), initialisation, the invariant, and the properties as
corollaries.

`LiveEntryProofs`. `TypeCorrect` has no condition on the environment. `TypeOK` alone is not inductive: `PlaceTp` adds
the pair under construction to the venue's legs, so `TypeInv` adds that there is one. `SingleExposureHolds` assumes no
late submit. Its invariant `SlotInv` says who holds the slot in each phase of the call, that an order can fill only
while its entry holds the slot, and that the status a pass has read is still true if it was final. Without the last
part `Resolve` could release the slot on an old answer. `ResolvedProtectedHolds` and `NeverUncoveredHolds` assume that
only placements lose their answers. They rest on `LegsInv`: what the tracker believes of its legs is true at the
venue (`Covered`), the size it read bounds the position once the order is final, and a position that no tracker is
responsible for has a stop. The condition is needed: TLC refutes `ResolvedProtected` once
triggers, operator closes or cleanups that fail after taking effect are allowed (section 4). `NoLegLeftBehindHolds` assumes
entries on different symbols, no take-profit, and placements that are lost when they are reported lost; it has no condition
on the rest. Its invariant `LeftInv` says that every stop on the symbol under way is the current pair or listed as stale, and that a
symbol whose entry has not been submitted has none.

`OptionsEngineProofs`. `TypeCorrect` holds in every world, so the engine never meets `IllegalTransitionError`. The
strengthening `StepInv` says that a slot is still in the state in which its step left it before an await, and that an
exit of unknown outcome exists only in EXIT_PENDING, in memory and on disk; the second part is what makes the events
fired by `detectExternalClose` legal after a restart. One lemma per slot operation, then one step per action.

The accounting theorems (`NothingUntrackedHolds`, `ClosedIsFlatHolds`, `LotsAccountedHolds`, `ExposureCappedHolds`) share one
inductive invariant, `Books`. Its core, `Fits`, relates one slot to the venue: a slot without a position has nothing at the
venue and its counters add up; one with a position holds at most its quantity, and every exit at the venue that it
has not applied yet (`Current`) can still be applied and leave it right (`Pays`); one with a pending entry fits once the recorded answer is
applied. `Agrees` says so of the slots in memory, `Backed` of the slots in the file and the venue a restart would find, `Trails` says how far
the file may lag behind, `CycleSees` and `StartSees` what is still true of positions that were read before an await, and `Awaits` that a request
on its way is for what both copies of the slot expect. None of these is inductive alone: a crash turns `Backed` into `Agrees`, an executed
request must fit the slot in memory and the one in the file, and a reconcile is harmless only because it reads what the file already says. The
slot lemmas (`ExitApplied`, `ExitFailedFits`, `WrittenOffFits`, `BookedFits`, `SoldFits`, `BoughtFits`, `SettleFits`) are about one slot and one venue; the
lemmas that follow lift them to one step of the process, the venue or the environment. `CapInv` adds that at most `MaxOpen` slots are busy, in memory
and in the file, with room for one more while a signal is being worked on.

The worlds they speak of are `Sound`: no request executes after it was given up, and a process that may die beside partly filled
orders has the local venue, whose book is saved with the slots, and gets its answers. Otherwise a reused exit id replays an old fill (section 4). `LotsAccountedHolds`
also asks for `Exact` worlds: an exit found by its id explains everything that is gone only if it cannot have sold a part with its answer lost before
the venue closed the rest. The worlds of the run satisfy both. Crashes, lost answers, failed saves, closes by the venue and thin books are otherwise free to
combine.

`OrderBookProofs`. `BookInv` says that a book with a snapshot equals the exchange's at the update it stands for (within
its coverage), that diffs on the stream and in the buffer describe what happened, and who is rebuilding. `LiveExact`
and `Rebuilding` follow. That a replay of the buffer ends at the right update is an induction over its length, that
skipped diffs changed nothing an induction over updates: both look at the least counterexample (`LeastNatural`, from
the library's `WFMin`), which needs no operator parameter.

`TradingCycleProofs`. `CycleInv` has a part per question: `Slot` (who answers for what rests at the venue), `PastGate` (the
one signal a halt may still let through), `Saved` (the files are what the process holds), `Room` (held plus resting symbols against the
number the gate counted, with cardinalities of finite sets), `Standing` (a remembered refusal is one the gate would
repeat). None is inductive without `Types` and `Slot`: an entry that is past the gate must be the only one.

`RemoteBrokerProofs`. `BrokerInv` adds to the shapes which sync an open waits for (`Chain`), what a flip waits for (`Flipping`), what
the exit driver works on (`Driven`) and what an open may find queued once it has decided (`Apart`). `OrdersMeetOnlyInFlips`
is the half of `NoOrdersTogether` that speaks of every world. `NothingBookedTwice` (`NoOverJournal`) and `EntriesAndExitsApart` (all of
`NoOrdersTogether`) need to know what the cache says at the time, which `TameInv` describes in the worlds called `Tame`: crashes, expired
expectations, and lost answers where the agent keeps to one side. Its parts go round in a circle. The cache is the position unless
an order just changed it or an exit's answer was lost (`View`), because the refresh after an order is never discarded (`Epoch`) and an exit's
comes before an entry's (`Turns`); so an open that decides to enter has no exit job beside it (`Alone`) and does not run against the position
(`Onward`), and a driver that found nothing to close leaves nothing to flip (`Dropped`); so a full exit leaves nothing and a partial one a
remainder (`JobShape`, `JobEnd`, `Asked`), and what is journaled, held and still to be journaled by the driver adds up to no more than the episode's
size (`Booked`), while a snapshot that may yet be booked as vanished is of the position or not booked (`Claims`). The attempt to prove the
three properties for wider worlds failed for a reason each time, and larger instances then gave TLC the counterexamples listed in section 4.

`IdsUsedOnce` holds in every world: an order on its way has no fill yet, no two fills share an id, and a driver or an open
that has not sent has nothing of its own at the exchange (`Numbered`). `AgentKeepsItsOwn` (`AgentKept`) rests on it and on
`PrivateInv`, for the worlds called `Private`, whose condition is that of the property: answers are lost and positions liquidated,
at any moment and any number of times. The property itself is `Known`: the sidecar owns the position or the expectation
recognises it, also when the sidecar is still the old one's and the cache shows the other side. What may break that is a sync or an order that acts on an older view, so
the other parts say how far the views can differ. `Matching`: cache, sidecar and position agree on the side, and a position that
the cache does not show was just opened by the open that is still to record it, or a refresh of it is queued ahead of
whoever decides next (`Fresh`, `ExitFirst`). `Moment`: a snapshot without the position is applied only while there is none or its entry is
still to be recorded. `Facing`: an entry runs against neither the position nor the cache. `Line`: a driver that waits stands in the
queue. `Leaving`: a full exit that executed left nothing, and the job a flip leaves behind sends nothing before the
entry has executed. `Sized`: orders on their way ask for what job and open ask for. Before the proof TLC checked `PrivateInv` over all
2.06 million states of the run's world of this kind.

`PaperAccountProofs`. `PaperInv` says of the book in memory and of the one on disk that wallet and cash differ by the
stakes of the positions (`Balanced`), that the equity is the wallet plus their results (`Refreshed`, `Synced`), and that
what a position was charged is what the boundaries it was open through cost (`Dated`). `Peaks` carries the reset, `Moves` the move: as
long as a position of the list is held by the venue and not shown by the broker, one blind start has not been used yet. Sums and folds over symbols are recursive functions on subsets: the proof shows that they
have a solution (`FoldExists`) and goes by induction over the size of the subset, so `markAll` and `accrueFunding` are proved for
any finite set of symbols.

`PositionManagerProofs`. `advance` and the two sides of an order, what the venue does (`Filled`: it tells the truth, or a fill is missed) and
what the driver makes of its answer (`Settled`), are lemmas of their own: at most the two partials, each its share, never below the
minimum, a stop that is no worse; what was not filled is given back. `ManagerInv`: `Working` (busy admits one pass; it holds a plan no
larger than what its state has counted), `Seeing` (a prompt pass acts on what is shown), `Showing` (what is shown is what is held while no fill was
missed, and at least that without crashes), `Agreeing` (the store is the pass's state, or the position it was about is gone; while no fill was missed, lots
counted as gone are those that left plus those the pass still means to take), `Once` and `Remainder`. `Once` bounds the partials by the number of missed fills:
neither has taken more than one share more than fills were missed; one whose flag is down, or that a pass still has in its plan,
or that a rebuilt state is going to take again (`Higher`: more is shown than the state counts on), has a share to spare. A miss adds the share that a repetition
uses up. What is queued counts as taken. The conditions on the world are those of the properties; TLC shows that each is needed (section 4).

`LiveBookProofs`. `BookInv`: `Linked` (the record, its file, the copies that audit and driver took before an await and
the tracker's legs name only orders of the kind and side they mean, so a cancel never hits somebody else's order),
`Guarded` (an open position without an excuse has a stop that the tracker is not about to cancel, or the tracker or a
task is at work on it) and `Kept` (the tightest stop so far rests, or is what a task is about to place).
`Guarded` is not inductive without `Linked`: recordEntry and the refresh run between the awaits of whoever holds the lock.
`StopsNeverLoosened` follows from `Kept`, and `PromiseKeptSafely`, the refinement of `ProtectedPosition` without its
fairness, from `Guarded`, one step per action.

Only model-checked: liveness (`SlotFreed`, `EndedJournaled`, `TimeExits`, `EntryResolved`, `UnprotectedFlagged`,
`FlattenCompletes`, `RecordHealed`), since the prover has no rules for fairness; the fairness that
the refinement `PromiseKept` contains; and `TakenOrRetried`, the half of `StoreAgrees` that is
not true for every percentage and number of faults (a second partial that is too small after a short fill of the first, or
several saves lost in a row before a crash, leave a flag up with nothing taken): it is a statement about the worlds of the run.

## 6. Not modelled

The models cover the code that sends orders, protects positions and keeps books, which is a small part of the
program's lines. Most of the rest is numeric code over market data (decision, indicators, sizing, strategies, backtests,
research), prompts and parsing around language models, reports, read-only views and scripts: it has little state that
outlives a call, and its correctness is a matter of values that a model would have to leave out. `PROJECT.json` lists every such component
with its reason. Two stateful parts are left out for want of room, not because they could not be modelled:
`LiveJournal` and `UserDataStream` (started once and never stopped by the program; it only wakes the tracker,
and its connection state is only shown). The SMC-ML runner and its trade lifecycles are exported but started only by
tests, and the trailing engine under `src/src/trailing/` is not imported by the rest of the program.

Within the modelled components: quantities of the order book and its staleness; prices, fees and cash outside
`PaperAccount`; the geometry of trailing candidates (a free choice of levels in `PositionManager`); shadow mode of the live
book; journals kept for audit only; account creation; and of the options desk the risk book, the monitor-only venue
and a change of the configured underlyings between two starts.
