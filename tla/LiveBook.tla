------------------------------ MODULE LiveBook ------------------------------
(***************************************************************************)
(* The live side of the position manager: what LiveBook (mode "on") does   *)
(* for one symbol.  It reads the venue's positions once per cycle, forgets *)
(* the entries whose position is gone, audits that the others still have   *)
(* their stop, and for the position driver takes partials and replaces     *)
(* stops.                                                                  *)
(*                                                                         *)
(* A symbol's lock is held by the audit of a refresh or by one call of the *)
(* driver.  recordEntry and the first half of refresh do not take it: they *)
(* run between the awaits of whoever holds it.  An action is what happens  *)
(* from one await to the next, and a call takes effect at the venue in the *)
(* action that makes it; its answer is handled by a later one.             *)
(*                                                                         *)
(* The entry tracker appears as what LiveEntry shows of it: it protects    *)
(* what has been filled, then records it, then cancels the legs it         *)
(* replaced.  A price is a tick; Tighter compares two for a side.          *)
(***************************************************************************)
EXTENDS Integers, FiniteSets

CONSTANTS
  None,        \* no record
  MaxQty,      \* bound: lots of a position
  MaxTick,     \* bound: stop prices are at most 1 .. MaxTick
  MaxOrders,   \* bound: orders known at one time
  MaxLeftovers,  \* bound: orders of a closed position still resting at the next entry
  placeAttempts,  \* LiveBookOptions.placeAttempts
  MaxFills,    \* bound: fills of one behaviour
  Worlds       \* the worlds to check

(* A world fixes for a whole behaviour the sides that are traded, the stop *)
(* prices, how many faults there are at most, and which of these happen:   *)
(*   "scale"    an entry of the held side adds to the position             *)
(*   "partial"  the driver takes partials                                  *)
(*   "target"   entries have a take-profit order                           *)
(*   "reject"   the venue refuses a call, or it fails without effect       *)
(*   "lost"     a call takes effect and its answer is lost                 *)
(*   "disk"     the state file is not written                              *)
(*   "crash"    the process stops and starts again                         *)
Kinds == {"scale", "partial", "target", "reject", "lost", "disk", "crash"}
Sides == {-1, 1}

ASSUME BookAssumption ==
  /\ MaxQty \in Nat \ {0} /\ MaxTick \in Nat \ {0}
  /\ MaxOrders \in Nat /\ MaxLeftovers \in Nat /\ placeAttempts \in Nat \ {0} /\ MaxFills \in Nat
  /\ Worlds \subseteq [sides : SUBSET Sides, kinds : SUBSET Kinds, faults : Nat, ticks : 1 .. MaxTick]

VARIABLES
  world,        \* the world of this behaviour
  pos, orders,  \* venue: signed lots, resting protective orders
  meta, file,   \* LiveStateStore: the symbol's LiveMeta, and its state file
  raw,          \* LiveBook.raw: the position as last read
  lock,         \* who runs under the symbol's lock
  job,          \* the audit and the driver's call
  refresh,      \* the refresh of this cycle
  tracker,      \* the entry tracker's legs of the running entry
  faults, fills,  \* bounds: faults and fills so far
  excuse,       \* history: the last fault since a stop was placed for the position
  floor         \* history: the tightest stop the position has had since an emergency close, or 0

vars == <<world, pos, orders, meta, file, raw, lock, job, refresh, tracker, faults, fills, excuse, floor>>
venueVars == <<pos, orders, excuse, floor>>
storeVars == <<meta, file>>

Tasks == {"audit", "driver"}
Ids == 1 .. MaxOrders
Ticks == 1 .. MaxTick
Metas == [side : Sides, stop : Ticks, id : Ids, tp : Ids \cup {0}]
Steps == {"idle", "wait", "place", "placed", "emergency", "reduce", "drop", "dropped", "reduced",
          "orders", "confirm"}
Excuses == {"none", "lost", "crash", "emergency"}
NoJob == [pc |-> "idle", side |-> 1, price |-> 0, drop |-> FALSE, qty |-> 0, meta |-> None,
          tries |-> 0, id |-> 0]
NoRefresh == [pc |-> "idle", seen |-> 0]
NoEntry == [pc |-> "idle", side |-> 1, stop |-> 0, id |-> 0, tp |-> 0, stale |-> {}]

May(kind) == kind \in world.kinds
Acquire(t) == job[t].pc = "wait" /\ lock = None

\* Whoever waits for a free lock runs before anything else does: the lock is a
\* chain of promises, and promises go before timers and answers.
Calm == \A t \in Tasks : ~Acquire(t)

Fault(kind) == May(kind) /\ faults < world.faults /\ faults' = faults + 1

----------------------------------------------------------------------------
(* Helpers *)

sideOfAmount(amt) == IF amt > 0 THEN 1 ELSE IF amt < 0 THEN -1 ELSE 0
Size(amt) == IF amt < 0 THEN -amt ELSE amt
Tighter(side, a, b) == (a - b) * side > 0

StopsOf(side, book) == {o \in book : o.kind = "stop" /\ o.side = side}
Covered(p, book) == StopsOf(sideOfAmount(p), book) # {}

\* Ids are given to orders once; one that nobody remembers may be given again.
UsedIds == {o.id : o \in orders} \cup {tracker.id, tracker.tp} \cup tracker.stale
           \cup (IF meta = None THEN {} ELSE {meta.id, meta.tp})
           \cup (IF file = None THEN {} ELSE {file.id, file.tp})
           \cup UNION {{job[t].id} \cup (IF job[t].meta = None THEN {} ELSE {job[t].meta.id, job[t].meta.tp})
                       : t \in Tasks}
FreshIds == Ids \ UsedIds
Lowest(ids) == {i \in ids : \A j \in ids : i <= j}

Order(id, kind, side, price) == [id |-> id, kind |-> kind, side |-> side, price |-> price]

NoOrder == Order(0, "stop", 1, 0)

\* What a step leaves at the venue, and what the histories make of it.
Venue(p, book, why) ==
  /\ pos' = p /\ orders' = book
  /\ excuse' = IF p = 0 \/ StopsOf(sideOfAmount(p), book \ orders) # {} THEN "none"
               ELSE IF why # "none" THEN why ELSE excuse
  /\ floor' = IF p = 0 \/ why = "emergency" THEN 0 ELSE floor

\* A stop is on record: it counts for the histories if it rests.
Raise(id, stop) ==
  floor' = IF /\ Order(id, "stop", sideOfAmount(pos), stop) \in orders
              /\ floor = 0 \/ Tighter(sideOfAmount(pos), stop, floor)
           THEN stop ELSE floor

\* What is left of the position after a reduce-only order: rejected when it is
\* on the wrong side or too large.
ReduceOnlyAccepted(side, qty) == sideOfAmount(pos) = side /\ qty <= Size(pos)

\* LiveStateStore.set and delete: memory first, then the file (best effort).
Save(m) ==
  /\ meta' = m
  /\ \/ file' = m /\ UNCHANGED faults
     \/ Fault("disk") /\ file' = file

----------------------------------------------------------------------------
(* The entry tracker and recordEntry *)

Fill ==
  /\ Calm
  /\ tracker.pc \in {"idle", "recorded"}
  /\ Size(pos) < MaxQty /\ fills < MaxFills
  /\ pos = 0 => Cardinality(orders) <= MaxLeftovers
  /\ \E side \in world.sides, stop \in 1 .. world.ticks :
       /\ pos # 0 => side = sideOfAmount(pos) /\ May("scale")
       /\ tracker.pc = "recorded" => tracker.side = side /\ tracker.stop = stop
       /\ tracker' = [tracker EXCEPT !.pc = "legs", !.side = side, !.stop = stop]
       /\ Venue(pos + side, orders, "none")
  /\ fills' = fills + 1
  /\ UNCHANGED <<world, storeVars, raw, lock, job, refresh, faults>>

TrackerPlaces ==
  /\ Calm
  /\ tracker.pc = "legs"
  /\ \E id \in Lowest(FreshIds) :
       \E tp \in IF May("target") THEN Lowest(FreshIds \ {id}) ELSE {0} :
         /\ tracker' = [tracker EXCEPT !.pc = "placed", !.id = id, !.tp = tp,
                                       !.stale = @ \cup ({tracker.id, tracker.tp} \ {0})]
         /\ Venue(pos, orders \cup {Order(id, "stop", tracker.side, tracker.stop)}
                       \cup (IF tp = 0 THEN {} ELSE {Order(tp, "target", tracker.side, 0)}), "none")
  /\ UNCHANGED <<world, fills, storeVars, raw, lock, job, refresh, faults>>

\* The legs could not be placed: every order is cancelled, the position closed.
TrackerFlattens ==
  /\ Calm
  /\ tracker.pc = "legs"
  /\ Fault("reject")
  /\ Venue(0, {}, "none")
  /\ tracker' = NoEntry
  /\ UNCHANGED <<world, fills, storeVars, raw, lock, job, refresh>>

recordEntry ==
  /\ Calm
  /\ tracker.pc = "placed"
  /\ Save([side |-> tracker.side, stop |-> tracker.stop, id |-> tracker.id, tp |-> tracker.tp])
  /\ tracker' = [tracker EXCEPT !.pc = IF tracker.stale = {} THEN "recorded" ELSE "stale"]
  /\ Raise(tracker.id, tracker.stop)
  /\ UNCHANGED <<world, fills, pos, orders, raw, lock, job, refresh, excuse>>

\* The legs a later fill replaced are cancelled.
TrackerCancelsStale ==
  /\ Calm
  /\ tracker.pc = "stale"
  /\ Venue(pos, {o \in orders : o.id \notin tracker.stale}, "none")
  /\ tracker' = [tracker EXCEPT !.pc = "recorded", !.stale = {}]
  /\ UNCHANGED <<world, fills, storeVars, raw, lock, job, refresh, faults>>

\* The entry order is done; its legs stay.
TrackerDone ==
  /\ Calm
  /\ tracker.pc = "recorded"
  /\ tracker' = NoEntry
  /\ UNCHANGED <<world, fills, venueVars, storeVars, raw, lock, job, refresh, faults>>

----------------------------------------------------------------------------
(* The venue *)

\* A resting order triggers and closes the position.
OrderFires ==
  /\ Calm
  /\ \E o \in orders : o.side = sideOfAmount(pos) /\ Venue(0, orders \ {o}, "none")
  /\ UNCHANGED <<world, fills, storeVars, raw, lock, job, refresh, tracker, faults>>

\* Startup reconciliation cancels what protects nothing.
LeftoversCancelled ==
  /\ Calm
  /\ pos = 0 /\ orders # {} /\ tracker.pc = "idle"
  /\ Venue(0, {}, "none")
  /\ UNCHANGED <<world, fills, storeVars, raw, lock, job, refresh, tracker, faults>>

----------------------------------------------------------------------------
(* refresh: once per cycle *)

\* fetchPositions is sent; the answer describes the venue as it is now.
RefreshAsk ==
  /\ Calm
  /\ refresh.pc = "idle"
  /\ refresh' = [pc |-> "asked", seen |-> pos]
  /\ UNCHANGED <<world, fills, venueVars, storeVars, raw, lock, job, tracker, faults>>

RefreshFails ==
  /\ Calm
  /\ refresh.pc = "asked"
  /\ Fault("reject")
  /\ refresh' = NoRefresh
  /\ UNCHANGED <<world, fills, venueVars, storeVars, raw, lock, job, tracker>>

\* The answer replaces raw; the loop then goes over the symbols recorded now.
RefreshApply ==
  /\ Calm
  /\ refresh.pc = "asked"
  /\ raw' = refresh.seen
  /\ refresh' = IF meta = None THEN NoRefresh ELSE [refresh EXCEPT !.pc = "turn"]
  /\ UNCHANGED <<world, fills, venueVars, storeVars, lock, job, tracker, faults>>

\* refresh, auditProtection: the position of this record no longer exists.
isGone(p, m) == sideOfAmount(p) # m.side

\* The symbol's turn in the loop, after the audits of the symbols before it.
RefreshTurn ==
  /\ Calm
  /\ refresh.pc = "turn"
  /\ \/ /\ meta = None
        /\ refresh' = NoRefresh
        /\ UNCHANGED <<storeVars, job, faults>>
     \/ /\ meta # None /\ isGone(raw, meta)
        /\ Save(None)
        /\ refresh' = NoRefresh
        /\ UNCHANGED job
     \/ /\ meta # None /\ ~isGone(raw, meta)
        /\ refresh' = [refresh EXCEPT !.pc = "audit"]
        /\ job' = [job EXCEPT !["audit"].pc = "wait"]
        /\ UNCHANGED <<storeVars, faults>>
  /\ UNCHANGED <<world, fills, venueVars, raw, lock, tracker>>

----------------------------------------------------------------------------
(* What both tasks do under the lock *)

Goto(t, j) == job' = [job EXCEPT ![t] = j]

\* The task ends and releases the lock; the audit was the rest of the refresh.
Finish(t) ==
  /\ job' = [job EXCEPT ![t] = NoJob]
  /\ lock' = None
  /\ refresh' = IF t = "audit" THEN NoRefresh ELSE refresh

\* Mutant: when every attempt failed the position is left as it is.
fallbackNone(j) == [j EXCEPT !.pc = "drop", !.tries = 0]

\* placeWithRetry gave up: the previous stop is next, then the emergency close.
fallback(j) ==
  IF j.price # j.meta.stop THEN [j EXCEPT !.price = j.meta.stop, !.tries = 0]
  ELSE [j EXCEPT !.pc = "emergency", !.tries = 0]

\* Mutant: placement is retried without end.
attemptFailedForever(j) == [j EXCEPT !.tries = @ + 1]

attemptFailed(j) == IF j.tries + 1 < placeAttempts THEN [j EXCEPT !.tries = @ + 1] ELSE fallback(j)

placeWithRetry(t) ==
  /\ job[t].pc = "place"
  /\ \E id \in Lowest(FreshIds) :
       LET book == orders \cup {Order(id, "stop", job[t].meta.side, job[t].price)} IN
       \/ /\ Goto(t, [job[t] EXCEPT !.pc = "placed", !.id = id])
          /\ Venue(pos, book, "none")
          /\ UNCHANGED faults
       \/ /\ Fault("reject")
          /\ Goto(t, attemptFailed(job[t]))
          /\ UNCHANGED venueVars
       \/ /\ Fault("lost")
          /\ Goto(t, attemptFailed(job[t]))
          /\ Venue(pos, book, "none")
  /\ UNCHANGED <<world, fills, storeVars, raw, lock, refresh, tracker>>

\* Mutant: the record keeps the id of the stop that was replaced.
placedMetaOld(j) == [j.meta EXCEPT !.stop = j.price]

\* The record written when a stop is in place: the one read before the awaits.
placedMeta(j) == [j.meta EXCEPT !.stop = j.price, !.id = j.id]

Placed(t) ==
  /\ job[t].pc = "placed"
  /\ Save(placedMeta(job[t]))
  /\ Raise(job[t].id, job[t].price)
  /\ IF t = "driver"
       THEN Goto(t, [job[t] EXCEPT !.pc = "drop", !.price = 0, !.tries = 0, !.id = 0]) /\ UNCHANGED <<lock, refresh>>
       ELSE Finish(t)
  /\ UNCHANGED <<world, fills, pos, orders, raw, tracker, excuse>>

\* emergencyClose: size from the venue, or from raw when that read fails.
EmergencyRead(t) ==
  /\ job[t].pc = "emergency"
  /\ \/ raw' = pos /\ UNCHANGED faults
     \/ Fault("reject") /\ raw' = raw
  /\ IF raw' = 0
       THEN /\ IF t = "driver"
                 THEN Goto(t, [job[t] EXCEPT !.pc = "drop", !.price = 0]) /\ UNCHANGED <<lock, refresh>>
                 ELSE Finish(t)
            /\ Venue(pos, orders, "emergency")
       ELSE Goto(t, [job[t] EXCEPT !.pc = "reduce", !.qty = Size(raw')]) /\ UNCHANGED <<lock, refresh, venueVars>>
  /\ UNCHANGED <<world, fills, storeVars, tracker>>

EmergencyReduce(t) ==
  /\ job[t].pc = "reduce"
  /\ \/ /\ ReduceOnlyAccepted(job[t].meta.side, job[t].qty)
        /\ \/ Venue(pos - job[t].meta.side * job[t].qty, orders, "emergency") /\ UNCHANGED faults
           \/ Fault("lost") /\ Venue(pos - job[t].meta.side * job[t].qty, orders, "emergency")
           \/ Fault("reject") /\ Venue(pos, orders, "emergency")
     \/ /\ ~ReduceOnlyAccepted(job[t].meta.side, job[t].qty)
        /\ Venue(pos, orders, "emergency")
        /\ UNCHANGED faults
  /\ IF t = "driver"
       THEN Goto(t, [job[t] EXCEPT !.pc = "drop", !.price = 0, !.qty = 0]) /\ UNCHANGED <<lock, refresh>>
       ELSE Finish(t)
  /\ UNCHANGED <<world, fills, storeVars, raw, tracker>>

----------------------------------------------------------------------------
(* auditProtection *)

\* The open orders are read; the first stop among them counts, whichever it is.
AuditStarts ==
  /\ Acquire("audit")
  /\ \/ /\ meta = None
        /\ Finish("audit")
        /\ UNCHANGED faults
     \/ /\ meta # None /\ Fault("reject")
        /\ Finish("audit")
     \/ /\ meta # None
        /\ \E o \in IF StopsOf(meta.side, orders) = {} THEN {NoOrder} ELSE StopsOf(meta.side, orders) :
             Goto("audit", [job["audit"] EXCEPT !.pc = "orders", !.meta = meta, !.id = o.id, !.price = o.price])
        /\ lock' = "audit"
        /\ UNCHANGED <<refresh, faults>>
  /\ UNCHANGED <<world, fills, venueVars, storeVars, raw, tracker>>

\* A stop rests: it is adopted, whatever its price, over the record read before.
AuditAdopts ==
  /\ job["audit"].pc = "orders" /\ job["audit"].id # 0
  /\ IF placedMeta(job["audit"]) = job["audit"].meta
       THEN UNCHANGED <<storeVars, faults>>
       ELSE Save(placedMeta(job["audit"]))
  /\ Finish("audit")
  /\ UNCHANGED <<world, fills, venueVars, raw, tracker>>

\* No stop rests: the positions are read again, after the orders.
AuditConfirms ==
  /\ job["audit"].pc = "orders" /\ job["audit"].id = 0
  /\ \/ /\ Goto("audit", [job["audit"] EXCEPT !.pc = "confirm", !.qty = pos])
        /\ UNCHANGED <<lock, refresh, faults>>
     \/ Fault("reject") /\ Finish("audit")
  /\ UNCHANGED <<world, fills, venueVars, storeVars, raw, tracker>>

AuditConfirmed ==
  /\ job["audit"].pc = "confirm"
  /\ raw' = job["audit"].qty
  /\ \/ /\ isGone(job["audit"].qty, job["audit"].meta)
        /\ Save(None)
        /\ Finish("audit")
     \/ /\ ~isGone(job["audit"].qty, job["audit"].meta)
        /\ Goto("audit", [job["audit"] EXCEPT !.pc = "place", !.price = job["audit"].meta.stop, !.qty = 0])
        /\ UNCHANGED <<storeVars, lock, refresh, faults>>
  /\ UNCHANGED <<world, fills, venueVars, tracker>>

----------------------------------------------------------------------------
(* The driver's calls: reduce and updateStops *)

\* The driver read positions() and wants the stop tighter, the target dropped.
DriverMoves ==
  /\ Calm
  /\ job["driver"].pc = "idle"
  /\ raw # 0 /\ meta # None
  /\ \E price \in 1 .. world.ticks, drop \in BOOLEAN :
       /\ drop => meta.tp # 0
       /\ Tighter(meta.side, price, meta.stop) \/ (drop /\ price = meta.stop)
       /\ Goto("driver", [NoJob EXCEPT !.pc = "wait", !.side = meta.side, !.price = price, !.drop = drop])
  /\ UNCHANGED <<world, fills, venueVars, storeVars, raw, lock, refresh, tracker, faults>>

\* The driver takes a partial of the position it read.
DriverReduces ==
  /\ Calm
  /\ May("partial")
  /\ job["driver"].pc = "idle"
  /\ raw # 0 /\ meta # None
  /\ \E qty \in 1 .. Size(raw) - 1 :
       Goto("driver", [NoJob EXCEPT !.pc = "wait", !.side = meta.side, !.qty = qty])
  /\ UNCHANGED <<world, fills, venueVars, storeVars, raw, lock, refresh, tracker, faults>>

ReduceStarts ==
  /\ Acquire("driver") /\ job["driver"].qty > 0
  /\ \/ /\ ReduceOnlyAccepted(job["driver"].side, job["driver"].qty)
        /\ \E executed \in 1 .. job["driver"].qty :
             /\ Venue(pos - job["driver"].side * executed, orders, "none")
             /\ \/ /\ Goto("driver", [job["driver"] EXCEPT !.pc = "reduced", !.qty = executed])
                   /\ lock' = "driver"
                   /\ UNCHANGED <<refresh, faults>>
                \/ Fault("lost") /\ Finish("driver")
     \/ /\ \/ ~ReduceOnlyAccepted(job["driver"].side, job["driver"].qty) /\ UNCHANGED faults
           \/ Fault("reject")
        /\ Finish("driver")
        /\ UNCHANGED venueVars
  /\ UNCHANGED <<world, fills, storeVars, raw, tracker>>

\* The cached position shrinks by what was executed.
Reduced ==
  /\ job["driver"].pc = "reduced"
  /\ raw' = raw - sideOfAmount(raw) * job["driver"].qty
  /\ Finish("driver")
  /\ UNCHANGED <<world, fills, venueVars, storeVars, tracker, faults>>

\* Mutant: the driver's call replaces the stop whether it is tighter or not.
tightensAlways(j, m) == j.price # m.stop

\* updateStops, under the lock: the record is read again, the side is the caller's.
tightens(j, m) == Tighter(j.side, j.price, m.stop)

UpdateStarts ==
  /\ Acquire("driver") /\ job["driver"].qty = 0
  /\ ~(meta # None /\ tightens(job["driver"], meta))
  /\ IF meta = None
       THEN Finish("driver")
       ELSE /\ lock' = "driver"
            /\ Goto("driver", [job["driver"] EXCEPT !.pc = "drop", !.meta = meta, !.price = 0])
            /\ UNCHANGED refresh
  /\ UNCHANGED <<world, fills, venueVars, storeVars, raw, tracker, faults>>

\* replaceStop cancels the old stop.  A refused or lost cancel keeps the record.
CancelStop ==
  /\ Acquire("driver") /\ job["driver"].qty = 0
  /\ meta # None /\ tightens(job["driver"], meta)
  /\ lock' = "driver"
  /\ LET left == {o \in orders : o.id # meta.id}
         kept == [job["driver"] EXCEPT !.pc = "drop", !.meta = meta, !.price = 0] IN
     \/ /\ left # orders
        /\ Goto("driver", [job["driver"] EXCEPT !.pc = "place", !.meta = meta])
        /\ Venue(pos, left, "none")
        /\ UNCHANGED faults
     \/ /\ left = orders
        /\ Goto("driver", kept)
        /\ UNCHANGED <<venueVars, faults>>
     \/ /\ left # orders
        /\ Fault("reject")
        /\ Goto("driver", kept)
        /\ UNCHANGED venueVars
     \/ /\ left # orders
        /\ Fault("lost")
        /\ Goto("driver", kept)
        /\ Venue(pos, left, "lost")
  /\ UNCHANGED <<world, fills, storeVars, raw, refresh, tracker>>

\* dropTarget, for the record of now or else the one read at the start.
DropTarget ==
  /\ job["driver"].pc = "drop"
  /\ IF ~job["driver"].drop \/ job["driver"].meta.tp = 0
       THEN Finish("driver") /\ UNCHANGED <<venueVars, faults>>
       ELSE LET m == IF meta = None THEN job["driver"].meta ELSE meta
                left == {o \in orders : o.id # m.tp} IN
            \/ /\ m.tp = 0 \/ left # orders
               /\ Goto("driver", [job["driver"] EXCEPT !.pc = "dropped", !.meta = m])
               /\ Venue(pos, left, "none")
               /\ UNCHANGED <<lock, refresh, faults>>
            \/ /\ m.tp # 0 /\ left = orders
               /\ Finish("driver")
               /\ UNCHANGED <<venueVars, faults>>
            \/ /\ m.tp # 0 /\ left # orders
               /\ Fault("reject")
               /\ Finish("driver")
               /\ UNCHANGED venueVars
  /\ UNCHANGED <<world, fills, storeVars, raw, tracker>>

Dropped ==
  /\ job["driver"].pc = "dropped"
  /\ Save([job["driver"].meta EXCEPT !.tp = 0])
  /\ Finish("driver")
  /\ UNCHANGED <<world, fills, venueVars, raw, tracker>>

----------------------------------------------------------------------------
(* Restart *)

\* Everything in memory is lost; the store is read from its file.
Crash ==
  /\ Calm
  /\ Fault("crash")
  /\ meta' = file
  /\ raw' = 0
  /\ lock' = None
  /\ job' = [t \in Tasks |-> NoJob]
  /\ refresh' = NoRefresh
  /\ tracker' = NoEntry
  /\ excuse' = IF pos = 0 THEN "none" ELSE "crash"
  /\ UNCHANGED <<world, fills, pos, orders, floor, file>>

----------------------------------------------------------------------------

Init ==
  /\ world \in Worlds
  /\ pos = 0 /\ orders = {} /\ excuse = "none" /\ floor = 0
  /\ meta = None /\ file = None /\ raw = 0 /\ lock = None
  /\ job = [t \in Tasks |-> NoJob]
  /\ refresh = NoRefresh
  /\ tracker = NoEntry
  /\ faults = 0 /\ fills = 0

Next ==
  \/ Fill \/ TrackerPlaces \/ TrackerFlattens \/ recordEntry \/ TrackerCancelsStale \/ TrackerDone
  \/ OrderFires \/ LeftoversCancelled
  \/ RefreshAsk \/ RefreshFails \/ RefreshApply \/ RefreshTurn
  \/ \E t \in Tasks : placeWithRetry(t)
  \/ \E t \in Tasks : Placed(t)
  \/ \E t \in Tasks : EmergencyRead(t)
  \/ \E t \in Tasks : EmergencyReduce(t)
  \/ AuditStarts \/ AuditAdopts \/ AuditConfirms \/ AuditConfirmed
  \/ DriverMoves \/ DriverReduces \/ ReduceStarts \/ Reduced
  \/ UpdateStarts \/ CancelStop \/ DropTarget \/ Dropped
  \/ Crash

Spec == Init /\ [][Next]_vars

RefreshSteps == RefreshAsk \/ RefreshApply \/ RefreshTurn
TrackerSteps == TrackerPlaces \/ recordEntry \/ TrackerCancelsStale
UnderLock(t) == placeWithRetry(t) \/ Placed(t) \/ EmergencyRead(t) \/ EmergencyReduce(t)
AuditSteps == AuditStarts \/ AuditAdopts \/ AuditConfirms \/ AuditConfirmed \/ UnderLock("audit")
DriverSteps == ReduceStarts \/ Reduced \/ UpdateStarts \/ CancelStop \/ DropTarget \/ Dropped \/ UnderLock("driver")

(* Cycles go on, a call is answered or fails, and the number of faults is  *)
(* bounded.  The driver's ticks, which go first whenever the lock is free, *)
(* are 250 ms apart and do not keep the answers from being handled: hence  *)
(* strong fairness.  Nothing says that the driver wants anything, that an  *)
(* entry is filled or that a stop triggers.                                *)
Fairness ==
  /\ SF_vars(RefreshSteps)
  /\ SF_vars(TrackerSteps)
  /\ WF_vars(AuditSteps)
  /\ WF_vars(DriverSteps)

LiveSpec == Spec /\ Fairness

----------------------------------------------------------------------------
(* Properties *)

\* Somebody is about to place a stop for the position or to close it.
Working ==
  \/ tracker.pc = "legs"
  \/ \E t \in Tasks : job[t].pc \in {"place", "emergency", "reduce"}

Status ==
  CASE pos = 0 -> "flat"
    [] pos # 0 /\ Covered(pos, orders) -> "covered"
    [] pos # 0 /\ ~Covered(pos, orders) /\ Working -> "working"
    [] OTHER -> "exposed"

\* The types of the state.  The ids of orders and records are within MaxOrders
\* and the cached position never exceeds what can be held.
TypeOK ==
  /\ world \in Worlds
  /\ pos \in -MaxQty .. MaxQty
  /\ orders \subseteq [id : Ids, kind : {"stop", "target"}, side : Sides, price : 0 .. MaxTick]
  /\ meta \in Metas \cup {None} /\ file \in Metas \cup {None}
  /\ raw \in -MaxQty .. MaxQty
  /\ lock \in Tasks \cup {None}
  /\ job \in [Tasks -> [pc : Steps, side : Sides, price : 0 .. MaxTick, drop : BOOLEAN,
                       qty : -MaxQty .. MaxQty, meta : Metas \cup {None},
                       tries : 0 .. placeAttempts, id : Ids \cup {0}]]
  /\ refresh \in [pc : {"idle", "asked", "turn", "audit"}, seen : -MaxQty .. MaxQty]
  /\ tracker \in [pc : {"idle", "legs", "placed", "recorded", "stale"}, side : Sides,
                  stop : 0 .. MaxTick, id : Ids \cup {0}, tp : Ids \cup {0}, stale : SUBSET Ids]
  /\ faults \in 0 .. world.faults /\ fills \in 0 .. MaxFills
  /\ excuse \in Excuses /\ floor \in 0 .. MaxTick

\* liveBook.ts: "a stop is never loosened".  Whatever the driver, the audit and
\* the tracker did to the orders in between, while nobody works on the position
\* a stop rests that is at least as tight as every stop it had since the last
\* emergency close.  Faults that lose an answer, the process or the file are
\* excepted.
StopKept ==
  /\ world.kinds \cap {"lost", "crash", "disk"} = {}
  /\ ~Working /\ floor # 0
  => \E o \in StopsOf(sideOfAmount(pos), orders) : ~Tighter(o.side, floor, o.price)

\* The same as long as the symbol is traded on one side: updateStops compares
\* prices with the side its caller saw, so a position that changed sides while
\* the call waited for the lock is the exception.
NeverLoosened == Cardinality(world.sides) = 1 => StopKept

\* The promise of the fail-safe rules, stated by ProtectedPosition: without a
\* stop only while a task of the book or the tracker works on it or after a
\* fault (lost cancel, crash, emergency close that did not close), and a managed
\* position is always worked on again.  The cached size, a scale-in between two
\* awaits and legs the tracker is about to cancel are what makes it hard.
Promise == INSTANCE ProtectedPosition WITH
  Reasons <- Excuses \ {"none"}, status <- Status, managed <- meta # None, reason <- excuse
PromiseKept == Promise!Spec

\* The audit heals the record: a record that names no resting stop of the
\* position (a reply lost, a record overwritten by one read before an await, a
\* crash) does not stay like that.
RecordHealed ==
  (meta # None /\ pos # 0 /\ meta.id \notin {o.id : o \in StopsOf(meta.side, orders)})
    ~> (meta = None \/ pos = 0 \/ meta.id \in {o.id : o \in StopsOf(meta.side, orders)})
=============================================================================
