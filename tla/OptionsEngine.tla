--------------------------- MODULE OptionsEngine ---------------------------
(***************************************************************************)
(* The long-only options desk:                                             *)
(*   OptionsBuyingEngine, OptionPositionMachine, OptionsStateStore,        *)
(*   LocalOptionsPaperVenue, PaperExchangeOptionsVenue                     *)
(*                                                src/src/options/         *)
(*                                                                         *)
(* One slot per underlying, kept in memory and in a state file; a venue    *)
(* that holds the contracts.  start() and cycle() are sequential code with *)
(* awaits: pc says which await the process is in, cur whose step it is in. *)
(* Between two awaits a request may execute, a contract may be settled,    *)
(* and the process may die: what it had not saved is then gone.            *)
(*                                                                         *)
(* Abstractions: one contract per underlying; a quantity is a number of    *)
(* lots; prices, the direction read, the selection, the sizing, the veto   *)
(* and the governors are left open, so they may refuse any entry and       *)
(* trigger any exit.  Cooldowns may elapse at any time.                    *)
(***************************************************************************)
EXTENDS Naturals, FiniteSets

CONSTANTS
  Underlyings,
  Qty,           \* the size of an entry order, in lots
  MaxOpen,       \* cfg.risk.maxOpenPositions
  Worlds,        \* the configurations and environments a behaviour may be in
  MaxEntries,    \* bound: entries submitted, by all underlyings
  MaxCrashes,    \* bound
  NoU, NoSnap

(* A world says which underlyings are configured, and which of EnvKinds    *)
(* may happen beyond refused orders and failed reads:                      *)
(*   "crash"      the process dies and is started again                     *)
(*   "lost"       a request or its answer is lost: the call throws          *)
(*   "late"       a request may execute after its caller stopped waiting    *)
(*   "thin"       a book holds fewer lots than wanted                       *)
(*   "external"   the venue closes a position itself (expiry, by hand)      *)
(*   "save_fail"  the state file cannot be written                          *)
(*   "local"      the venue is LocalOptionsPaperVenue: its book is in this  *)
(*                process and is saved with the slots                       *)
EnvKinds == {"crash", "lost", "late", "thin", "external", "save_fail", "local"}

\* maxFailures bounds the exit attempts of a position that sell nothing.
World == [underlyings : SUBSET Underlyings, kinds : SUBSET EnvKinds, maxFailures : Nat]

ASSUME OptionsAssumption ==
  /\ Qty \in Nat \ {0} /\ MaxOpen \in Nat \ {0}
  /\ Worlds \subseteq World
  /\ MaxEntries \in Nat /\ MaxCrashes \in Nat
  /\ NoU \notin Underlyings
  /\ NoSnap \notin [Underlyings -> Nat]

VARIABLES
  world,      \* the world of this behaviour
  slot,       \* OptionsBuyingEngine.state.slots
  disk,       \* the slots in the state file
  venue,      \* the venue: lots held, orders recorded; bought and sold count its fills
  diskVenue,  \* state.localVenue in the state file (local venue)
  requests,   \* orders on their way to the venue
  pc,         \* the await the process is in
  cur,        \* the underlying whose step is running
  todo,       \* the underlyings this cycle still has to step
  snap,       \* cycle's and reconcile's `venuePositions`
  lastId,     \* number of the newest entry or adoption: newId()
  due,        \* due[u]: u's contract is inside its pre-expiry window
  crashes

vars == <<world, slot, disk, venue, diskVenue, requests, pc, cur, todo, snap, lastId, due, crashes>>

States == {"IDLE", "SIGNAL_DETECTED", "ENTRY_PENDING", "POSITION_OPEN", "EXIT_PENDING",
           "POSITION_CLOSED"}
Points == {"down", "start", "cycle", "signal", "buy", "sell", "answer"}

(* A slot: st its state; pending the id of pendingEntry (0: none); the     *)
(* position's qty, entry id, exitAttempts and unresolvedExitId (0: none).  *)
(* adopted, booked and writtenOff count, over the whole life of the slot,  *)
(* lots adopted at startup, lots closed at a fill price, and lots closed   *)
(* at the worst case.                                                      *)
emptySlot == [st |-> "IDLE", pending |-> 0, qty |-> 0, entry |-> 0, attempts |-> 0,
              unresolved |-> 0, adopted |-> 0, booked |-> 0, writtenOff |-> 0]

Slots == [st : States, pending : Nat, qty : Nat, entry : Nat, attempts : Nat,
          unresolved : Nat, adopted : Nat, booked : Nat, writtenOff : Nat]

\* A client order id: exit number k of entry e, or the entry itself (k = 0).
Ids == [u : Underlyings, e : Nat, k : Nat]
Requests == [id : Ids, qty : Nat]
Orders == [id : Ids, filled : Nat]
Venues == [held : [Underlyings -> Nat], orders : SUBSET Orders,
           bought : [Underlyings -> Nat], sold : [Underlyings -> Nat]]

EntryId(u, s) == [u |-> u, e |-> s.pending, k |-> 0]
ExitId(u, s) == [u |-> u, e |-> s.entry,
                 k |-> IF s.unresolved # 0 THEN s.unresolved ELSE s.attempts + 1]

\* The most lots a slot can hold: what was there at first and every entry.
MaxLots == (MaxEntries + 1) * Qty

Can(kind) == kind \in world.kinds
Local == Can("local")

Least(a, b) == IF a < b THEN a ELSE b

----------------------------------------------------------------------------
(* OptionPositionMachine *)

TRANSITIONS == {
  <<"IDLE", "SIGNAL", "SIGNAL_DETECTED">>,         <<"IDLE", "ADOPT", "POSITION_OPEN">>,
  <<"SIGNAL_DETECTED", "REJECT", "IDLE">>,         <<"SIGNAL_DETECTED", "SUBMIT", "ENTRY_PENDING">>,
  <<"ENTRY_PENDING", "FILL", "POSITION_OPEN">>,    <<"ENTRY_PENDING", "NO_FILL", "IDLE">>,
  <<"POSITION_OPEN", "EXIT_TRIGGER", "EXIT_PENDING">>,
  <<"POSITION_OPEN", "EXTERNAL_CLOSE", "POSITION_CLOSED">>,
  <<"EXIT_PENDING", "PARTIAL_EXIT", "EXIT_PENDING">>, <<"EXIT_PENDING", "EXIT_RETRY", "EXIT_PENDING">>,
  <<"EXIT_PENDING", "EXIT_FILL", "POSITION_CLOSED">>, <<"EXIT_PENDING", "EXTERNAL_CLOSE", "POSITION_CLOSED">>,
  <<"POSITION_CLOSED", "RESET", "IDLE">>}

\* A pair that is not in the table throws; "ILLEGAL" stands for that.
transition(from, event) ==
  IF \E to \in States : <<from, event, to>> \in TRANSITIONS
  THEN CHOOSE to \in States : <<from, event, to>> \in TRANSITIONS
  ELSE "ILLEGAL"

fire(s, event) == [s EXCEPT !.st = transition(s.st, event)]

----------------------------------------------------------------------------
(* What the engine does with an answer *)

\* applyEntryResult with nothing filled, and the ENTRY_NOT_FOUND branch.
NoFill(s) == [fire(s, "NO_FILL") EXCEPT !.pending = 0]

Fill(s, filled) ==
  [fire(s, "FILL") EXCEPT !.pending = 0, !.qty = filled, !.entry = s.pending, !.attempts = 0, !.unresolved = 0]

applyEntryResult(s, filled) == IF filled = 0 THEN NoFill(s) ELSE Fill(s, filled)

\* slot.position = undefined.
WithoutPosition(s) == [s EXCEPT !.qty = 0, !.entry = 0, !.attempts = 0, !.unresolved = 0]

closeOut(s, event) == WithoutPosition(fire(s, event))

\* Mutant: the id of an exit whose outcome became known is used again.
applyExitKeepingId(s, filled) ==
  LET f == Least(filled, s.qty)
      t == [s EXCEPT !.attempts = @ + 1, !.booked = @ + f, !.qty = @ - f]
  IN CASE filled = 0 -> fire(t, "EXIT_RETRY")
       [] filled # 0 /\ t.qty > 0 -> fire(t, "PARTIAL_EXIT")
       [] OTHER -> closeOut(t, "EXIT_FILL")

applyExitResult(s, filled) ==
  LET f == Least(filled, s.qty)
      t == [s EXCEPT !.unresolved = 0, !.attempts = @ + 1, !.booked = @ + f, !.qty = @ - f]
  IN CASE filled = 0 -> fire(t, "EXIT_RETRY")
       [] filled # 0 /\ t.qty > 0 -> fire(t, "PARTIAL_EXIT")
       [] OTHER -> closeOut(t, "EXIT_FILL")

\* The call threw: the id is kept, and attempts keep counting.
exitFailed(s) == fire([s EXCEPT !.attempts = @ + 1], "EXIT_RETRY")

\* Mutant: the trigger is fired on every pass.
TriggeredAgain(s) == fire(s, "EXIT_TRIGGER")

Triggered(s) == IF s.st = "POSITION_OPEN" THEN fire(s, "EXIT_TRIGGER") ELSE s

\* Mutant: an entry whose outcome is unknown is not counted.
OpenPositionsFilled == Cardinality({u \in Underlyings : slot[u].qty > 0})

\* exposure().openPositions.
OpenPositions == Cardinality({u \in Underlyings : slot[u].qty > 0 \/ slot[u].pending # 0})

----------------------------------------------------------------------------
(* The state file *)

\* persist(); the venue does not move in a step that saves.
Saved ==
  /\ disk' = slot'
  /\ diskVenue' = IF Local THEN venue ELSE diskVenue

SaveFails == Can("save_fail") /\ UNCHANGED <<disk, diskVenue>>

(* A step of cycle() ends, normally or by throwing: its slot becomes s and *)
(* the finally clause saves.  A save that fails ends the whole cycle.      *)
EndStep(u, s) ==
  /\ slot' = [slot EXCEPT ![u] = s]
  /\ \/ Saved /\ todo' = todo \ {u}
     \/ SaveFails /\ todo' = {}
  /\ snap' = IF todo' = {} THEN NoSnap ELSE snap
  /\ pc' = "cycle" /\ cur' = NoU

----------------------------------------------------------------------------
Init ==
  /\ world \in Worlds
  /\ slot = [u \in Underlyings |-> emptySlot] /\ disk = slot
  /\ \E had \in {{}} \cup {{u} : u \in world.underlyings} :   \* what an earlier installation left behind
       /\ had # {} => ~Local
       /\ LET lots == [u \in Underlyings |-> IF u \in had THEN Qty ELSE 0]
              none == [u \in Underlyings |-> 0]
          IN venue = [held |-> lots, orders |-> {}, bought |-> none, sold |-> none]
  /\ diskVenue = venue
  /\ requests = {} /\ pc = "down" /\ cur = NoU /\ todo = {} /\ snap = NoSnap
  /\ lastId = 0
  /\ due = [u \in Underlyings |-> FALSE]
  /\ crashes = 0

----------------------------------------------------------------------------
(* start() *)

\* load(), then reconcile's venue.positions(); a call that fails is tried again next tick.
StartPositions ==
  /\ pc = "down"
  /\ requests = {} \/ Can("late")
  /\ snap' = venue.held /\ pc' = "start"
  /\ UNCHANGED <<world, slot, disk, venue, diskVenue, requests, cur, todo, lastId, due, crashes>>

adopted(u) == [fire(disk[u], "ADOPT") EXCEPT !.qty = snap[u], !.entry = lastId + 1,
                                                  !.adopted = @ + snap[u]]

Adopts(u) == disk[u].st = "IDLE" /\ snap[u] > 0

\* Mutant: a tracked position the venue does not hold is dropped at startup.
reconciledGone(u) ==
  CASE disk[u].st \in {"POSITION_OPEN", "EXIT_PENDING"} -> [disk[u] EXCEPT !.qty = snap[u]]
    [] Adopts(u) -> adopted(u)
    [] OTHER -> disk[u]

reconciled(u) ==
  CASE disk[u].st \in {"POSITION_OPEN", "EXIT_PENDING"} /\ snap[u] > 0 -> [disk[u] EXCEPT !.qty = snap[u]]
    [] Adopts(u) -> adopted(u)
    [] OTHER -> disk[u]

\* The rest of reconcile, the save, and started = true.
StartReconcile ==
  /\ pc = "start"
  /\ slot' = [u \in Underlyings |-> reconciled(u)]
  /\ lastId' = IF \E u \in Underlyings : Adopts(u) THEN lastId + 1 ELSE lastId
  /\ UNCHANGED venue /\ Saved
  /\ pc' = "cycle" /\ snap' = NoSnap
  /\ UNCHANGED <<world, requests, cur, todo, due, crashes>>

\* A listing cannot be read, or the save fails: the desk builds a new engine next tick.
StartFails ==
  /\ pc = "start" /\ pc' = "down" /\ snap' = NoSnap
  /\ UNCHANGED <<world, slot, disk, venue, diskVenue, requests, cur, todo, lastId, due, crashes>>

----------------------------------------------------------------------------
(* cycle() *)

\* The bound on failures: a position whose exit has failed so often gets its answers.
MayFail(s) == s.attempts < world.maxFailures

BeginCycle(answer) ==
  /\ pc = "cycle" /\ todo = {}
  /\ todo' = world.underlyings
  /\ snap' = answer
  /\ UNCHANGED <<world, slot, disk, venue, diskVenue, requests, pc, cur, lastId, due, crashes>>

Positions == BeginCycle(venue.held)
PositionsUnavailable == (\A u \in Underlyings : MayFail(slot[u])) /\ BeginCycle(NoSnap)

Stepping(u) == pc = "cycle" /\ u \in todo

\* The step of u ends in slot s; venue and orders are not involved.
StepTo(u, s) ==
  /\ EndStep(u, s)
  /\ UNCHANGED <<world, venue, requests, lastId, due, crashes>>

\* IDLE: cooldown, equity, kill switch, governors, stale context, no direction.  CLOSED: cooldown.
NothingToDo(u) ==
  /\ Stepping(u) /\ slot[u].st \in {"IDLE", "POSITION_CLOSED"}
  /\ StepTo(u, slot[u])

Reset(u) ==
  /\ Stepping(u) /\ slot[u].st = "POSITION_CLOSED"
  /\ StepTo(u, fire(slot[u], "RESET"))

----------------------------------------------------------------------------
(* Entries: tryEntry, enterFromSignal, resolvePendingEntry *)

Signal(u) ==
  /\ Stepping(u) /\ slot[u].st = "IDLE"
  /\ OpenPositions < MaxOpen
  /\ lastId < MaxEntries
  /\ slot' = [slot EXCEPT ![u] = fire(@, "SIGNAL")]
  /\ pc' = "signal" /\ cur' = u
  /\ UNCHANGED <<world, disk, venue, diskVenue, requests, todo, snap, lastId, due, crashes>>

\* Selection, economics, sizing, the veto or the re-read ask refuses, or a read throws.
Reject ==
  /\ pc = "signal"
  /\ StepTo(cur, fire(slot[cur], "REJECT"))

submitted(u) == fire([slot[u] EXCEPT !.pending = lastId + 1], "SUBMIT")

\* The id is saved before the order is sent; if it cannot be saved nothing is sent.
Submit ==
  /\ pc = "signal"
  /\ lastId' = lastId + 1
  /\ due' = [due EXCEPT ![cur] = FALSE]     \* a contract is chosen outside its pre-expiry window
  /\ UNCHANGED <<world, venue, requests, crashes>>
  /\ \/ /\ slot' = [slot EXCEPT ![cur] = submitted(cur)]
        /\ Saved /\ pc' = "buy"
        /\ UNCHANGED <<cur, todo, snap>>
     \/ Can("save_fail") /\ EndStep(cur, submitted(cur))

\* The quantity walkBook finds for `wanted` lots.
walkBook(wanted) == IF Can("thin") THEN 0..wanted ELSE {wanted}

(* PaperExchangeOptionsVenue.submit answers "nothing filled" without the   *)
(* venue having recorded an order: it sends none when the book has nothing *)
(* within the limit, and a 4xx is a refusal.                               *)
Refusable == ~Local

\* It sends the walked quantity; the local venue records an empty fill too.
Sendable(w) == w > 0 \/ Local

buyToOpen(w) ==
  /\ pc = "buy" /\ w \in walkBook(Qty)
  /\ \/ /\ Refusable
        /\ StepTo(cur, NoFill(slot[cur]))
     \/ /\ Sendable(w)
        /\ requests' = requests \cup {[id |-> EntryId(cur, slot[cur]), qty |-> w]}
        /\ pc' = "answer"
        /\ UNCHANGED <<world, slot, disk, venue, diskVenue, cur, todo, snap, lastId, due, crashes>>

\* The call in progress: its id, and what the venue recorded for it.
Awaited == IF slot[cur].st = "ENTRY_PENDING" THEN EntryId(cur, slot[cur]) ELSE ExitId(cur, slot[cur])

OnWay(id) == \E r \in requests : r.id = id

findOrder(id) == {o \in venue.orders : o.id = id}

EntryAnswer ==
  /\ pc = "answer" /\ slot[cur].st = "ENTRY_PENDING"
  /\ ~OnWay(Awaited)
  /\ \E o \in findOrder(Awaited) : StepTo(cur, applyEntryResult(slot[cur], o.filled))

\* The call may throw once its request has executed or is lost, or earlier if it can still execute.
MayThrow == Can("lost") /\ (~OnWay(Awaited) \/ Can("late"))

\* ENTRY_UNKNOWN: the slot stays ENTRY_PENDING.
EntryUnknown ==
  /\ pc = "answer" /\ slot[cur].st = "ENTRY_PENDING"
  /\ MayThrow
  /\ StepTo(cur, slot[cur])

\* Whether applyEntryResult can price the fill: the local venue knows it, otherwise the positions do.
Priced(u) == \/ Local
             \/ snap # NoSnap /\ snap[u] > 0
             \/ snap = NoSnap /\ venue.held[u] > 0

\* Mutant: an order the venue does not know is asked for again, for ever.
resolvedEntryKept(u) ==
  LET s == slot[u] found == findOrder(EntryId(u, s))
  IN IF found # {}
     THEN {applyEntryResult(s, o.filled) : o \in {f \in found : f.filled = 0 \/ Priced(u)}}
     ELSE IF snap = NoSnap \/ snap[u] = 0 THEN {} ELSE {Fill(s, snap[u])}

(* What resolvePendingEntry makes of findOrder's answer: the slots it may  *)
(* end in.  None: the outcome stays unknown (no positions, or no price).   *)
resolvedEntry(u) ==
  LET s == slot[u] found == findOrder(EntryId(u, s))
  IN IF found # {}
     THEN {applyEntryResult(s, o.filled) : o \in {f \in found : f.filled = 0 \/ Priced(u)}}
     ELSE IF snap = NoSnap THEN {}
     ELSE {IF snap[u] > 0 THEN Fill(s, snap[u]) ELSE NoFill(s)}

ResolveEntry(u) ==
  /\ Stepping(u) /\ slot[u].st = "ENTRY_PENDING"
  /\ \E s \in resolvedEntry(u) : StepTo(u, s)

\* Mutant: a findOrder that fails is taken for an order the venue never saw.
EntryUnresolvedDropped(u) ==
  /\ Stepping(u) /\ slot[u].st = "ENTRY_PENDING"
  /\ StepTo(u, NoFill(slot[u]))

\* findOrder or positions() throws, or nothing can be concluded.
EntryUnresolved(u) ==
  /\ Stepping(u) /\ slot[u].st = "ENTRY_PENDING"
  /\ StepTo(u, slot[u])

----------------------------------------------------------------------------
(* Exits: detectExternalClose, manage, executeExit *)

Holding(u) == slot[u].st \in {"POSITION_OPEN", "EXIT_PENDING"}

\* detectExternalClose's test: the positions were read and u's contract is not among them.
Gone(u) == snap # NoSnap /\ snap[u] = 0

ExitFound(u) == \E o \in findOrder(ExitId(u, slot[u])) : o.filled > 0

\* An exit of unknown outcome is found by its id: it closed everything that was left.
GoneByExit(u) ==
  /\ Stepping(u) /\ Holding(u) /\ Gone(u)
  /\ slot[u].unresolved # 0 /\ ExitFound(u)
  /\ StepTo(u, applyExitResult(slot[u], slot[u].qty))

\* Anything else is written off at the worst case.
GoneWrittenOff(u) ==
  /\ Stepping(u) /\ Holding(u) /\ Gone(u)
  /\ slot[u].unresolved = 0 \/ ~ExitFound(u)
  /\ StepTo(u, closeOut([slot[u] EXCEPT !.writtenOff = @ + slot[u].qty], "EXTERNAL_CLOSE"))

\* findOrder throws: STEP_ERROR, tried again next cycle.
GoneUnknown(u) ==
  /\ Stepping(u) /\ Holding(u) /\ Gone(u) /\ slot[u].unresolved # 0
  /\ StepTo(u, slot[u])

\* evaluateExit holds, or has no fresh quote; neither when the time is up.
Hold(u) ==
  /\ Stepping(u) /\ slot[u].st = "POSITION_OPEN" /\ ~Gone(u)
  /\ ~due[u]
  /\ StepTo(u, slot[u])

\* An exit is due but there is no quote, no bid, or the quote has gone stale.
NoQuote(u) ==
  /\ Stepping(u) /\ Holding(u) /\ ~Gone(u)
  /\ MayFail(slot[u])
  /\ StepTo(u, exitFailed(Triggered(slot[u])))

\* Mutant: an exit of unknown outcome is left alone until it is found.
ManageWaiting(u) ==
  /\ Stepping(u) /\ Holding(u) /\ ~Gone(u)
  /\ \/ /\ slot[u].unresolved # 0 /\ StepTo(u, slot[u])
     \/ /\ slot[u].unresolved = 0
        /\ slot' = [slot EXCEPT ![u] = Triggered(@)]
        /\ pc' = "sell" /\ cur' = u
        /\ UNCHANGED <<world, disk, venue, diskVenue, requests, todo, snap, lastId, due, crashes>>

\* An exit triggers or is pending, and there is a bid.  Nothing is saved before the order is sent.
Manage(u) ==
  /\ Stepping(u) /\ Holding(u) /\ ~Gone(u)
  /\ slot' = [slot EXCEPT ![u] = Triggered(@)]
  /\ pc' = "sell" /\ cur' = u
  /\ UNCHANGED <<world, disk, venue, diskVenue, requests, todo, snap, lastId, due, crashes>>

sellToClose(w) ==
  /\ pc = "sell" /\ w \in walkBook(slot[cur].qty)
  /\ \/ /\ Refusable /\ MayFail(slot[cur])
        /\ StepTo(cur, applyExitResult(slot[cur], 0))
     \/ /\ Sendable(w) /\ (w = 0 => MayFail(slot[cur]))
        /\ requests' = requests \cup {[id |-> ExitId(cur, slot[cur]), qty |-> w]}
        /\ pc' = "answer"
        /\ UNCHANGED <<world, slot, disk, venue, diskVenue, cur, todo, snap, lastId, due, crashes>>

ExitAnswer ==
  /\ pc = "answer" /\ slot[cur].st = "EXIT_PENDING"
  /\ ~OnWay(Awaited)
  /\ \E o \in findOrder(Awaited) : StepTo(cur, applyExitResult(slot[cur], o.filled))

ExitUnknown ==
  /\ pc = "answer" /\ slot[cur].st = "EXIT_PENDING"
  /\ MayThrow /\ MayFail(slot[cur])
  /\ StepTo(cur, exitFailed([slot[cur] EXCEPT !.unresolved = Awaited.k]))

----------------------------------------------------------------------------
(* The venue and the environment *)

\* A buy is filled or refused; a sell is reduce-only.  An id seen before is answered as before.
Executed(r, filled) ==
  IF findOrder(r.id) # {} THEN venue
  ELSE [held |-> [venue.held EXCEPT ![r.id.u] = IF r.id.k = 0 THEN @ + filled ELSE @ - filled],
        orders |-> venue.orders \cup {[id |-> r.id, filled |-> filled]},
        bought |-> [venue.bought EXCEPT ![r.id.u] = IF r.id.k = 0 THEN @ + filled ELSE @],
        sold |-> [venue.sold EXCEPT ![r.id.u] = IF r.id.k = 0 THEN @ ELSE @ + filled]]

Fillable(r) == IF r.id.k = 0 THEN r.qty ELSE Least(r.qty, venue.held[r.id.u])

\* Buys are refused (cash, margin); a sell is refused when there is nothing to close.
Execute(r) ==
  /\ r \in requests
  /\ requests' = requests \ {r}
  /\ \E filled \in {Fillable(r)} \cup (IF r.id.k = 0 THEN {0} ELSE {}) :
       venue' = Executed(r, filled)
  /\ UNCHANGED <<world, slot, disk, diskVenue, pc, cur, todo, snap, lastId, due, crashes>>

\* A request never reaches the venue: its call throws, or its process is gone.
Drop(r) ==
  /\ r \in requests /\ ~Local
  /\ pc = "down" \/ (Can("lost") /\ (r.id.k # 0 => r.id.u = cur /\ MayFail(slot[cur])))
  /\ requests' = requests \ {r}
  /\ UNCHANGED <<world, slot, disk, venue, diskVenue, pc, cur, todo, snap, lastId, due, crashes>>

Settle(u) ==
  /\ Can("external") /\ venue.held[u] > 0
  /\ venue' = [venue EXCEPT !.held[u] = 0]
  /\ UNCHANGED <<world, slot, disk, diskVenue, requests, pc, cur, todo, snap, lastId, due, crashes>>

\* The pre-expiry window of u's contract begins.
TimeUp(u) ==
  /\ slot[u].st \in {"ENTRY_PENDING", "POSITION_OPEN", "EXIT_PENDING"}
  /\ ~due[u] /\ due' = [due EXCEPT ![u] = TRUE]
  /\ UNCHANGED <<world, slot, disk, venue, diskVenue, requests, pc, cur, todo, snap, lastId, crashes>>

\* The process dies.  What it had not saved is lost, the local venue's book included.
Crash ==
  /\ Can("crash") /\ crashes < MaxCrashes /\ pc # "down"
  /\ crashes' = crashes + 1
  /\ slot' = disk
  /\ pc' = "down" /\ cur' = NoU /\ todo' = {} /\ snap' = NoSnap
  /\ IF Local THEN venue' = diskVenue /\ requests' = {} ELSE UNCHANGED <<venue, requests>>
  /\ UNCHANGED <<world, disk, diskVenue, lastId, due>>

Next ==
  \/ StartPositions \/ StartReconcile \/ StartFails
  \/ Positions \/ PositionsUnavailable
  \/ \E u \in Underlyings :
       \/ NothingToDo(u) \/ Reset(u) \/ Signal(u)
       \/ ResolveEntry(u) \/ EntryUnresolved(u)
       \/ GoneByExit(u) \/ GoneWrittenOff(u) \/ GoneUnknown(u)
       \/ Hold(u) \/ NoQuote(u) \/ Manage(u)
       \/ Settle(u) \/ TimeUp(u)
  \/ Reject \/ Submit \/ EntryAnswer \/ EntryUnknown \/ ExitAnswer \/ ExitUnknown
  \/ \E w \in 0..MaxLots : buyToOpen(w) \/ sellToClose(w)
  \/ \E r \in requests : Execute(r) \/ Drop(r)
  \/ Crash

Spec == Init /\ [][Next]_vars


----------------------------------------------------------------------------
(* Safety *)

\* Every variable has its type; in particular no step fires an illegal transition.
TypeOK ==
  /\ world \in Worlds
  /\ slot \in [Underlyings -> Slots] /\ disk \in [Underlyings -> Slots]
  /\ venue \in Venues /\ diskVenue \in Venues
  /\ requests \subseteq Requests
  /\ pc \in Points /\ cur \in Underlyings \cup {NoU} /\ todo \subseteq Underlyings
  /\ snap \in [Underlyings -> Nat] \cup {NoSnap}
  /\ lastId \in Nat /\ due \in [Underlyings -> BOOLEAN] /\ crashes \in Nat

Running == pc \notin {"down", "start"}
Settled(u) == slot[u].st # "ENTRY_PENDING"

(* The engine never tracks fewer lots than the venue holds for it: nothing *)
(* it bought is left without its stop, target and time exits               *)
(* (applyEntryResult, resolvePendingEntry, applyExitResult, reconcile).    *)
NothingUntracked ==
  Running => \A u \in Underlyings : Settled(u) => venue.held[u] <= slot[u].qty

(* POSITION_CLOSED means flat: "EXIT_PENDING -> POSITION_CLOSED: flat"     *)
(* (OptionPositionMachine.ts).                                             *)
ClosedIsFlat ==
  \A u \in Underlyings : Running /\ slot[u].st = "POSITION_CLOSED" => venue.held[u] = 0

(* Exposure, counted at the venue, never exceeds maxOpenPositions          *)
(* contracts, orders on their way included (exposure(), tryEntry).         *)
ExposureCapped ==
  Cardinality({u \in Underlyings : venue.held[u] > 0 \/ \E r \in requests : r.id.u = u /\ r.id.k = 0})
    <= MaxOpen

(* A sale is booked at a price only if it happened: proceeds never exceed  *)
(* what the exits sold, whatever is replayed or retried (applyExitResult,  *)
(* detectExternalClose).                                                   *)
NoPhantomSale == \A u \in Underlyings : slot[u].booked <= venue.sold[u]

(* Every lot bought or adopted is tracked, booked as sold or written off:  *)
(* the governors see the cost of all of them (closeOut,                    *)
(* detectExternalClose).                                                   *)
LotsConserved ==
  Running => \A u \in Underlyings :
    Settled(u) => venue.bought[u] + slot[u].adopted
                    = slot[u].qty + slot[u].booked + slot[u].writtenOff

(* Both together: a lot is booked as sold once and only if the venue sold  *)
(* it, through replayed exits, lost answers and restarts.                  *)
LotsAccounted == NoPhantomSale /\ LotsConserved

----------------------------------------------------------------------------
(* Liveness *)

Process ==
  \/ StartPositions \/ StartReconcile \/ Positions \/ PositionsUnavailable
  \/ \E u \in Underlyings :
       \/ NothingToDo(u) \/ Reset(u) \/ Signal(u) \/ ResolveEntry(u) \/ EntryUnresolved(u)
       \/ GoneByExit(u) \/ GoneWrittenOff(u) \/ GoneUnknown(u) \/ Hold(u) \/ NoQuote(u) \/ Manage(u)
  \/ Reject \/ Submit \/ EntryAnswer \/ EntryUnknown \/ ExitAnswer \/ ExitUnknown
  \/ \E w \in 0..MaxLots : buyToOpen(w) \/ sellToClose(w)

(* The desk's timer runs the process; reads that are repeated every tick   *)
(* succeed in the end; the venue executes a request or it is lost.         *)
Fairness ==
  /\ WF_vars(Process)
  /\ SF_vars(StartReconcile \/ Positions)
  /\ \A u \in Underlyings : SF_vars(ResolveEntry(u))
  /\ WF_vars(\E r \in requests : Execute(r) \/ Drop(r))

LiveSpec == Spec /\ Fairness

(* A contract inside its pre-expiry window does not stay at the venue,     *)
(* through failed, partial and lost exits and restarts (evaluateExit,      *)
(* executeExit, start).                                                    *)
TimeExits == \A u \in Underlyings : due[u] /\ venue.held[u] > 0 ~> venue.held[u] = 0

(* An entry whose outcome is unknown does not stay so                      *)
(* (resolvePendingEntry).                                                  *)
EntryResolved ==
  \A u \in Underlyings : slot[u].st = "ENTRY_PENDING" ~> slot[u].st # "ENTRY_PENDING"

=============================================================================
