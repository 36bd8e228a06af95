---------------------------- MODULE PaperAccount ----------------------------
(***************************************************************************)
(* The paper account:                                                      *)
(*   PaperEngine      the simulated book, its fees, funding and saved file *)
(*   EquityHwmStore   the peak of the account's equity and its file        *)
(*   hwmReset         the operator's reset, another process                *)
(*   reconcilePaperToRemote  moving the book to a remote venue at start    *)
(*                                                                         *)
(* The book is changed in one piece by every call and saved 250 ms later;  *)
(* a crash goes back to the file.  Money is in whole units: a rate is a    *)
(* divisor and slippage a distance.  A position holds its cost (entry      *)
(* times quantity) instead of its average entry price.                     *)
(***************************************************************************)
EXTENDS Integers, FiniteSets, FiniteSetsExt, Functions

CONSTANTS
  None,
  Symbols, Prices,
  Initial,            \* INITIAL_EQUITY
  Slip,               \* slippage of a fill
  FeeDiv, FundingDiv, \* one over takerFeeRate and over the funding rate
  LiqPct,             \* distance of the liquidation price, in percent of the entry
  Interval,           \* FUNDING_INTERVAL_MS, in ticks of the clock
  MaxTrades,          \* MAX_TRADES
  MaxClock, MaxFills, MaxFaults,  \* bounds
  Worlds

(* A world fixes the symbols, prices and quantities that are traded, the   *)
(* number of fills (a bound), and which of these may happen or are looked  *)
(* at:                                                                     *)
(*   "clock"   time passes and funding is paid                             *)
(*   "file"    the book is saved                                           *)
(*   "levels"  stops and targets are set                                   *)
(*   "crash"   the process stops and starts again                          *)
(*   "shut"    it is shut down and started again                           *)
(*   "disk"    a file is not written                                       *)
(*   "norate"  the funding rate of a symbol is missing                     *)
(*   "reset"   equity is observed and the operator resets the baseline     *)
(*   "move"    the process is started again with a remote venue            *)
(*   "reject"  the remote venue refuses an order                           *)
(*   "outage"  a sync with the remote venue fails                          *)
Kinds ==
  {"clock", "file", "levels", "crash", "shut", "disk", "norate", "reset", "move", "reject", "outage"}

Positions ==
  [dir : {1, -1}, qty : Nat \ {0}, cost : Nat, mark : Nat, fee : Nat, funding : Int, upnl : Int,
   opened : 0 .. MaxClock, stop : Prices \cup {None}, target : Prices \cup {None},
   born : 0 .. MaxClock, charged : Nat, scaled : BOOLEAN]

ASSUME PaperAssumption ==
  /\ {Initial, Slip, MaxClock, MaxFills, MaxFaults, LiqPct} \subseteq Nat
  /\ {FeeDiv, FundingDiv, Interval, MaxTrades} \subseteq Nat \ {0}
  /\ \A p \in Prices : p \in Nat \ {0} /\ p >= Slip
  /\ IsFiniteSet(Symbols) /\ None \notin Positions
  /\ Worlds \subseteq [symbols : SUBSET Symbols, prices : SUBSET Prices, qtys : SUBSET (Nat \ {0}),
                       dirs : SUBSET {1, -1}, fills : 0 .. MaxFills, kinds : SUBSET Kinds]

VARIABLES
  world,
  book,          \* PaperEngine: positions, startEquity, equity, trades, fundingSlot
  file, timer,   \* paper-state.json, and saveTimer
  last,          \* lastPrices
  clock,
  hwm, hwmFile,  \* EquityHwmStore: the snapshot and its file
  venue, todo,   \* "paper", "starting", "moving" with the positions still to move, or "remote"
  remote, cache, \* symbols held at the remote venue, and those RemoteBroker.positions shows
  fills, faults, \* bounds
  seen, baseline, \* history: highest equity observed since the reset; "kept", "reset", "loaded"
  blind, again   \* history: moves begun without a view of the venue; opens of what it held

engineVars == <<book, file, timer, last>>
hwmVars == <<hwm, hwmFile, seen, baseline>>
moveVars == <<venue, todo, remote, cache, blind, again>>
vars == <<world, engineVars, hwmVars, moveVars, clock, fills, faults>>

May(kind) == kind \in world.kinds
Fault(kind) == May(kind) /\ faults < MaxFaults /\ faults' = faults + 1
slotOf(t) == t \div Interval
Held(b) == {s \in Symbols : b.pos[s] # None}

----------------------------------------------------------------------------
(* PaperEngine: the book.  Two fields are history: cash, the money that     *)
(* every fill, fee and funding payment moved, and start, the slot at which  *)
(* the funding clock was first set; so are a position's born and charged,   *)
(* the time of its first lot and the boundaries it was charged for.         *)

fillPrice(dir, price, opening) == price + (IF opening THEN dir ELSE -dir) * Slip
feeOf(notional) == notional \div FeeDiv

refreshMetrics(p) == [p EXCEPT !.upnl = (p.mark * p.qty - p.cost) * p.dir - p.fee + p.funding]

\* Mutant: the unrealized profit is not recomputed after a partial.
remainingStale(p) == IF p.qty = 0 THEN None ELSE p

\* Mutant: a position that is closed stays in the book.
remainingEmpty(p) == IF p.qty < 0 THEN None ELSE refreshMetrics(p)

\* What is left after a reduction.
remaining(p) == IF p.qty = 0 THEN None ELSE refreshMetrics(p)

\* Every position's unrealized profit counts.
Upnl(p) == IF p = None THEN 0 ELSE p.upnl
syncEquity(b) == [b EXCEPT !.equity = b.wallet + SumFunction([s \in Symbols |-> Upnl(b.pos[s])])]

\* The closed part's share of the cost, of the open fee and of the funding.
share(total, n, qty) == (total * n) \div qty

reduce(b, s, n, raw) ==
  LET p == b.pos[s]
      k == Min({p.qty, n})
      price == fillPrice(p.dir, raw, FALSE)
      cost == share(p.cost, k, p.qty)
      fee == share(p.fee, k, p.qty)
      funding == share(p.funding, k, p.qty)
      rest == [p EXCEPT !.qty = @ - k, !.cost = @ - cost, !.fee = @ - fee, !.funding = @ - funding] IN
  [b EXCEPT !.wallet = @ + (price * k - cost) * p.dir - fee - feeOf(price * k) + funding,
            !.trades = Min({@ + 1, MaxTrades}),
            !.cash = @ + p.dir * price * k - feeOf(price * k),
            !.pos[s] = remaining(rest)]

createPosition(b, s, dir, n, price, stop, target) ==
  [b EXCEPT !.cash = @ - dir * price * n - feeOf(price * n),
            !.pos[s] = refreshMetrics(
               [dir |-> dir, qty |-> n, cost |-> price * n, mark |-> price, fee |-> feeOf(price * n), funding |-> 0,
                upnl |-> 0, opened |-> clock, stop |-> stop, target |-> target,
                born |-> clock, charged |-> 0, scaled |-> FALSE])]

\* The newest signal's levels replace the old ones; the time of opening is averaged.
scaleIn(b, s, n, price, stop, target) ==
  LET p == b.pos[s]
      q == [p EXCEPT !.qty = @ + n, !.cost = @ + price * n, !.mark = price, !.fee = @ + feeOf(price * n),
                     !.opened = (@ * p.qty + clock * n) \div (p.qty + n),
                     !.stop = IF stop = None THEN @ ELSE stop,
                     !.target = IF target = None THEN @ ELSE target,
                     !.scaled = TRUE] IN
  [b EXCEPT !.cash = @ - p.dir * price * n - feeOf(price * n), !.pos[s] = refreshMetrics(q)]

\* Liquidation first, then the stop at the mark, then the target at its level.
findExit(p) ==
  LET liq == (p.cost * (100 - p.dir * LiqPct)) \div (100 * p.qty) IN
  IF (p.mark * p.qty * 100 - p.cost * (100 - p.dir * LiqPct)) * p.dir <= 0 THEN liq
  ELSE IF p.stop # None /\ (p.mark - p.stop) * p.dir <= 0 THEN p.mark
  ELSE IF p.target # None /\ (p.mark - p.target) * p.dir >= 0 THEN p.target
  ELSE None

markOne(b, s, price) ==
  LET p == [b.pos[s] EXCEPT !.mark = price]
      b1 == [b EXCEPT !.pos[s] = p] IN
  IF findExit(p) = None THEN [b EXCEPT !.pos[s] = refreshMetrics(p)]
  ELSE reduce(b1, s, p.qty, findExit(p))

\* Mutant: the boundary of the last accrual is charged again.
firstDueAgain(b, p) == Max({b.slot, slotOf(p.opened)})

\* The first boundary a position still owes.
firstDue(b, p) == Max({b.slot, slotOf(p.opened)}) + 1

accrueOne(b, s) ==
  LET p == b.pos[s]
      crossed == slotOf(clock) - firstDue(b, p) + 1
      paid == (p.qty * p.mark * crossed * p.dir) \div FundingDiv
      q == [p EXCEPT !.funding = @ - paid, !.charged = @ + crossed] IN
  IF crossed <= 0 THEN b ELSE [b EXCEPT !.cash = @ - paid, !.pos[s] = refreshMetrics(q)]

----------------------------------------------------------------------------
(* PaperEngine: the calls *)

Trading == venue = "paper"
\* Every call ends by syncing the equity and starting the save timer.
Commit(b) == book' = syncEquity(b) /\ timer' = May("file") /\ UNCHANGED file
Levels == IF May("levels") THEN world.prices \cup {None} ELSE {None}

\* openPosition: opens, adds to the position, or flips it.
openPosition(s, dir, n, price, stop, target) ==
  LET p == book.pos[s]
      fill == fillPrice(dir, price, TRUE) IN
  IF p = None THEN createPosition(book, s, dir, n, fill, stop, target)
  ELSE IF p.dir = dir THEN scaleIn(book, s, n, fill, stop, target)
  ELSE createPosition(reduce(book, s, p.qty, price), s, dir, n, fill, stop, target)

Open ==
  /\ Trading /\ fills < world.fills
  /\ \E s \in world.symbols, dir \in world.dirs, n \in world.qtys, stop \in Levels, target \in Levels :
       \E price \in (IF last[s] = None THEN world.prices ELSE {last[s]}) :
         Commit(openPosition(s, dir, n, price, stop, target))
  /\ fills' = fills + 1
  /\ UNCHANGED <<world, last, clock, hwmVars, moveVars, faults>>

\* openPosition with reduceOnly: a partial or a close, at the last price or the saved mark.
Reduce ==
  /\ Trading /\ fills < world.fills
  /\ \E s \in Held(book) : \E n \in 1 .. book.pos[s].qty :
       Commit(reduce(book, s, n, IF last[s] = None THEN book.pos[s].mark ELSE last[s]))
  /\ fills' = fills + 1
  /\ UNCHANGED <<world, last, clock, hwmVars, moveVars, faults>>

updateStops ==
  /\ Trading /\ May("levels")
  /\ \E s \in Held(book), stop \in world.prices, target \in world.prices \cup {None} :
       /\ book' = [book EXCEPT !.pos[s].stop = stop, !.pos[s].target = target]
       /\ book' # book
  /\ timer' = May("file")
  /\ UNCHANGED <<world, file, last, clock, hwmVars, moveVars, fills, faults>>

\* markAll: the prices that are known move every position, and close some.
markAll ==
  /\ Trading
  /\ \E prices \in [world.symbols -> world.prices] :
       /\ last' = [s \in Symbols |-> IF s \in world.symbols THEN prices[s] ELSE None]
       /\ Commit(FoldSet(LAMBDA s, b : markOne(b, s, prices[s]), book, Held(book)))
  /\ UNCHANGED <<world, clock, hwmVars, moveVars, fills, faults>>

\* accrueFunding: the first call sets the clock and saves nothing.
accrueFunding ==
  /\ Trading /\ May("clock")
  /\ \/ /\ book.slot = -1
        /\ book' = [book EXCEPT !.slot = slotOf(clock), !.start = IF @ = -1 THEN slotOf(clock) ELSE @]
        /\ UNCHANGED <<file, timer>>
     \/ /\ book.slot >= 0 /\ slotOf(clock) > book.slot
        /\ \E rated \in SUBSET Held(book) :
             /\ ~May("norate") => rated = Held(book)
             /\ Commit([FoldSet(LAMBDA s, b : accrueOne(b, s), book, rated) EXCEPT !.slot = slotOf(clock)])
  /\ UNCHANGED <<world, last, clock, hwmVars, moveVars, fills, faults>>

\* The save timer fires: the whole book, with the funding clock.
persist ==
  /\ May("file") /\ timer
  /\ timer' = FALSE
  /\ \/ file' = book /\ UNCHANGED faults
     \/ Fault("disk") /\ UNCHANGED file
  /\ UNCHANGED <<world, book, last, clock, hwmVars, moveVars, fills>>

----------------------------------------------------------------------------
(* EquityHwmStore and hwmReset *)

\* observe: a new peak is kept and the snapshot written.
observe ==
  /\ Trading /\ May("reset") /\ book.equity > 0
  /\ book.equity > hwm.peak \/ book.equity > seen
  /\ seen' = Max({seen, book.equity})
  /\ IF book.equity > hwm.peak
       THEN /\ hwm' = [hwm EXCEPT !.peak = book.equity]
            /\ \/ hwmFile' = hwm' /\ UNCHANGED faults
               \/ Fault("disk") /\ UNCHANGED hwmFile
       ELSE UNCHANGED <<hwm, hwmFile, faults>>
  /\ UNCHANGED <<world, engineVars, moveVars, clock, baseline, fills>>

\* Mutant: the reset stamps its time and keeps the peak.
resetSnapshotKeepsPeak(snapshot) == [snapshot EXCEPT !.reset = @ + 1]

\* resetDrawdown: the peak is forgotten and the time of the reset stamped.
resetSnapshot(snapshot) == [peak |-> 0, reset |-> snapshot.reset + 1]

\* resetRiskBaseline, in a process of its own that reads the file and writes it.
resetRiskBaseline ==
  /\ May("reset") /\ baseline = "kept"
  /\ hwmFile' = resetSnapshot(hwmFile)
  /\ seen' = 0 /\ baseline' = "reset"
  /\ UNCHANGED <<world, engineVars, moveVars, clock, hwm, fills, faults>>

----------------------------------------------------------------------------
(* Restarts *)

\* loadState and loadSnapshot.
Load(saved) ==
  /\ book' = saved
  /\ timer' = FALSE
  /\ last' = [s \in Symbols |-> None]
  /\ hwm' = hwmFile /\ baseline' = IF baseline = "reset" THEN "loaded" ELSE baseline

Crash ==
  /\ Fault("crash")
  /\ Load(file)
  /\ venue' = IF venue = "paper" THEN "paper" ELSE "starting"
  /\ todo' = {} /\ cache' = {}
  /\ UNCHANGED <<world, file, clock, hwmFile, seen, remote, blind, again, fills>>

\* flushSync: the book is written at once, without the funding clock.
flushed == [book EXCEPT !.slot = -1]

Shutdown ==
  /\ Fault("shut") /\ Trading
  /\ file' = flushed
  /\ Load(flushed)
  /\ UNCHANGED <<world, clock, hwmFile, seen, moveVars, fills>>

\* dropUnlistedSymbols: the positions go, and nothing is booked.
dropSymbols(b, gone) ==
  LET stake(p) == IF p = None THEN 0 ELSE p.dir * p.cost + p.fee - p.funding IN
  [b EXCEPT !.pos = [s \in Symbols |-> IF s \in gone THEN None ELSE @[s]],
            !.cash = @ + SumFunction([s \in Symbols |-> IF s \in gone THEN stake(b.pos[s]) ELSE 0])]

\* At start, before any price is known, the positions outside SYMBOLS.
dropUnlistedSymbols ==
  /\ Trading /\ fills < world.fills /\ \A s \in Symbols : last[s] = None
  /\ \E s \in Held(book) : Commit(dropSymbols(book, {s}))
  /\ fills' = world.fills
  /\ UNCHANGED <<world, last, clock, hwmVars, moveVars, faults>>

----------------------------------------------------------------------------
(* initVenue and reconcilePaperToRemote: a start with a remote venue *)

StartRemote ==
  /\ May("move") /\ Trading
  /\ venue' = "starting"
  /\ Load(file)
  /\ UNCHANGED <<world, file, clock, hwmFile, seen, todo, remote, cache, blind, again, fills, faults>>

\* The broker's init: its first sync may fail without a word.  (Without an
\* account it throws, and the next loop starts it again.)
InitVenue ==
  /\ venue = "starting"
  /\ venue' = "moving" /\ todo' = Held(book)
  /\ \/ cache' = remote /\ UNCHANGED <<blind, faults>>
     \/ Fault("outage") /\ cache' = {} /\ blind' = blind + 1
  /\ UNCHANGED <<world, engineVars, hwmVars, clock, remote, again, fills>>

\* Mutant: what the venue already holds is opened again.
missingRemoteAll(s) == TRUE

\* A position the broker does not show is opened at the venue.
missingRemote(s) == s \notin cache

\* RemoteBroker.open: it syncs first, sends the order, or adds to what it then
\* finds there, and syncs again.  What it throws is swallowed.
open(s) ==
  \/ /\ remote' = remote \cup {s}
     /\ again' = IF s \in remote THEN again + 1 ELSE again
     /\ \/ cache' = remote' /\ UNCHANGED faults
        \/ Fault("outage") /\ cache' = remote
  \/ /\ Fault("reject") /\ cache' = remote
     /\ UNCHANGED <<remote, again>>
  \/ /\ Fault("outage")
     /\ UNCHANGED <<remote, cache, again>>

\* One position of the list.
MoveOne ==
  /\ venue = "moving"
  /\ \E s \in todo :
       /\ todo' = todo \ {s}
       /\ IF missingRemote(s) THEN open(s) ELSE UNCHANGED <<remote, cache, again, faults>>
  /\ UNCHANGED <<world, engineVars, hwmVars, clock, venue, blind, fills>>

\* When the list is through the whole paper book is dropped.
MoveDone ==
  /\ venue = "moving" /\ todo = {}
  /\ venue' = "remote"
  /\ Commit(dropSymbols(book, Symbols))
  /\ UNCHANGED <<world, last, clock, hwmVars, todo, remote, cache, blind, again, fills, faults>>

\* A stop or a target closes a position at the remote venue.
RemoteCloses ==
  /\ \E s \in remote : remote' = remote \ {s}
  /\ UNCHANGED <<world, engineVars, hwmVars, clock, venue, todo, cache, blind, again, fills, faults>>

----------------------------------------------------------------------------

Tick ==
  /\ May("clock") /\ clock < MaxClock /\ clock' = clock + 1
  /\ UNCHANGED <<world, engineVars, hwmVars, moveVars, fills, faults>>

\* The book has been moved and everything is saved.
Moved == venue = "remote" /\ remote = {} /\ ~timer /\ UNCHANGED vars

EmptyBook ==
  [pos |-> [s \in Symbols |-> None], wallet |-> Initial, equity |-> Initial, trades |-> 0, slot |-> -1,
   cash |-> Initial, start |-> -1]

Init ==
  /\ world \in Worlds
  /\ book = EmptyBook /\ file = EmptyBook /\ timer = FALSE
  /\ last = [s \in Symbols |-> None] /\ clock = 0
  /\ hwm = [peak |-> 0, reset |-> 0] /\ hwmFile = [peak |-> 0, reset |-> 0]
  /\ seen = 0 /\ baseline = "kept"
  /\ venue = "paper" /\ todo = {} /\ remote = {} /\ cache = {} /\ blind = 0 /\ again = 0
  /\ fills = 0 /\ faults = 0

Next ==
  \/ Open \/ Reduce \/ updateStops \/ markAll \/ accrueFunding \/ persist
  \/ observe \/ resetRiskBaseline
  \/ Crash \/ Shutdown \/ dropUnlistedSymbols
  \/ StartRemote \/ InitVenue \/ MoveOne \/ MoveDone \/ RemoteCloses
  \/ Tick \/ Moved

Spec == Init /\ [][Next]_vars

----------------------------------------------------------------------------
(* Properties *)

\* Types; a position in the book or in its file is never empty.
TypeOK ==
  /\ world \in Worlds
  /\ \A b \in {book, file} :
       /\ \A s \in Symbols : b.pos[s] \in Positions \cup {None}
       /\ {b.wallet, b.equity, b.cash} \subseteq Int
       /\ b.trades \in 0 .. MaxTrades /\ {b.slot, b.start} \subseteq -1 .. slotOf(MaxClock)
  /\ timer \in BOOLEAN /\ last \in [Symbols -> Prices \cup {None}] /\ clock \in 0 .. MaxClock
  /\ {hwm, hwmFile} \subseteq [peak : Nat, reset : 0 .. 1] /\ seen \in Nat /\ baseline \in {"kept", "reset", "loaded"}
  /\ venue \in {"paper", "starting", "moving", "remote"} /\ todo \subseteq Symbols
  /\ {remote, cache} \subseteq SUBSET Symbols /\ {blind, again} \subseteq Nat /\ fills \in 0 .. MaxFills /\ faults \in 0 .. MaxFaults

\* reduce's comment: "the journal's PnL is the account's net result".  The
\* equity that is reported, and that drawdown is measured on, is the cash that
\* all fills, fees and funding have left plus the value of what is held, through
\* partials, additions, flips, liquidations and restarts.
EquityIsCash ==
  LET value(p) == IF p = None THEN 0 ELSE p.dir * p.qty * p.mark IN
  \A b \in {book, file} : b.equity = b.cash + SumFunction([s \in Symbols |-> value(b.pos[s])])

\* accrueFunding's comment: "a boundary crossed while the process was down is
\* charged on the next call".  A position is never charged for more boundaries
\* than it was open through since the clock was set, and for all of them up to
\* the last accrual, across crashes, unless it was added to, a rate was missing,
\* or the process was shut down in an orderly way, which does not save the clock.
FundingOnce ==
  \A s \in Held(book) :
    LET p == book.pos[s]
        due == Max({0, book.slot - Max({slotOf(p.born), book.start})}) IN
    /\ p.charged <= slotOf(clock) - slotOf(p.born)
    /\ book.slot >= 0 /\ ~p.scaled /\ world.kinds \cap {"shut", "norate"} = {} => p.charged = due

\* hwmReset.ts: "The next equity reading becomes the new peak".  Once the agent
\* has been started again after a reset, no reading from before it is in the
\* stored peak, even when the running agent wrote its own snapshot over the
\* reset one.  (The stamp of the reset may be lost by that write.)
ResetForgets == baseline = "loaded" => hwm.peak <= seen

\* A move opens what the remote venue already holds only when the broker cannot
\* see it: however often a move is cut off by a crash and started again, it does
\* so at most once for every start whose first sync failed, because the sync of
\* the first open shows the rest.
MovedOnce == again <= blind
=============================================================================
