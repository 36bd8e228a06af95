--------------------------- MODULE LiveBookProofs ---------------------------
(***************************************************************************)
(* Proofs about LiveBook, for every size, number of stop prices, orders,   *)
(* attempts, fills and faults, and for every world.                        *)
(***************************************************************************)
EXTENDS LiveBook, FiniteSetTheorems, TLAPS

(* The steps of a task in which it carries the record it has read.         *)
Active == {"place", "placed", "emergency", "reduce", "orders", "confirm", "drop", "dropped"}

JobSet == [pc : Steps, side : Sides, price : 0 .. MaxTick, drop : BOOLEAN, qty : -MaxQty .. MaxQty,
           meta : Metas \cup {None}, tries : 0 .. placeAttempts - 1, id : Ids \cup {0}]

(* What a task holds at each of its steps: a record once it is under way,  *)
(* a price before it places a stop, an id once it has placed or found one. *)
Shape(j) ==
  /\ j \in JobSet
  /\ j.pc \in Active => j.meta \in Metas /\ j.meta # None
  /\ j.pc \in {"place", "placed"} => j.price \in Ticks
  /\ j.pc = "placed" => j.id \in Ids
  /\ j.pc = "orders" /\ j.id # 0 => j.price \in Ticks
  /\ j.pc \in {"reduce", "reduced"} => j.qty > 0

Book == [id : Ids, kind : {"stop", "target"}, side : Sides, price : 0 .. MaxTick]
Entries == [pc : {"idle", "legs", "placed", "recorded", "stale"}, side : Sides,
            stop : 0 .. MaxTick, id : Ids \cup {0}, tp : Ids \cup {0}, stale : SUBSET Ids]

VenueTypes ==
  /\ pos \in -MaxQty .. MaxQty
  /\ orders \subseteq Book
  /\ \A o \in orders : o.kind = "stop" => o.price \in Ticks
  /\ excuse \in Excuses /\ floor \in 0 .. MaxTick

StoreTypes == meta \in Metas \cup {None} /\ file \in Metas \cup {None}

JobTypes ==
  /\ job \in [Tasks -> JobSet]
  /\ \A t \in Tasks : Shape(job[t])
  /\ job["driver"].pc = "wait" /\ job["driver"].qty = 0 => job["driver"].price \in Ticks

TrackerTypes ==
  /\ tracker \in Entries
  /\ tracker.pc # "idle" => tracker.stop \in Ticks
  /\ tracker.pc \in {"placed", "recorded", "stale"} => tracker.id \in Ids

RestTypes ==
  /\ world \in [sides : SUBSET Sides, kinds : SUBSET Kinds, faults : Nat, ticks : 1 .. MaxTick]
  /\ world \in Worlds
  /\ raw \in -MaxQty .. MaxQty
  /\ lock \in Tasks \cup {None}
  /\ refresh \in [pc : {"idle", "asked", "turn", "audit"}, seen : -MaxQty .. MaxQty]
  /\ faults \in 0 .. world.faults /\ fills \in 0 .. MaxFills

Types == VenueTypes /\ StoreTypes /\ JobTypes /\ TrackerTypes /\ RestTypes

(* The orders that rest under the ids of a record are the ones it means:   *)
(* its stop at its price, its target.                                      *)
Names(m, book, sides) ==
  /\ m.side \in sides
  /\ \A o \in book : o.id = m.id => o.kind = "stop" /\ o.side = m.side /\ o.price = m.stop
  /\ \A o \in book : o.id = m.tp => o.kind = "target"

(* The task has the id of a stop in hand, as placed or as found.           *)
Carries(j) == j.pc = "placed" \/ (j.pc = "orders" /\ j.id # 0)

(* Everything that names orders names the right ones: the record, its      *)
(* file, the copies the tasks carry across awaits, and the tracker.        *)
StoreLinks == (meta # None => Names(meta, orders, world.sides)) /\ (file # None => Names(file, orders, world.sides))

JobLink(j, book, sides, tr) ==
  /\ j.pc \in Active => Names(j.meta, book, sides)
  /\ Carries(j) => Names(placedMeta(j), book, sides)
  /\ j.pc = "placed" => j.id # tr.id /\ j.id # tr.tp /\ j.id \notin tr.stale

JobLinks == \A t \in Tasks : JobLink(job[t], orders, world.sides, tracker)

TrackerLinks ==
  /\ tracker.pc # "idle" => Names(tracker, orders, world.sides)
  /\ tracker.pc = "idle" => tracker.id = 0 /\ tracker.tp = 0
  /\ tracker.id \notin tracker.stale

(* Ids are unique, and positions have the sides that are traded.           *)
SideLinks ==
  /\ \A o, p \in orders : o.id = p.id => o = p
  /\ job["driver"].pc # "idle" => job["driver"].side \in world.sides
  /\ pos # 0 => sideOfAmount(pos) \in world.sides
  /\ pos # 0 /\ tracker.pc # "idle" => tracker.side = sideOfAmount(pos)

Linked == StoreLinks /\ JobLinks /\ TrackerLinks /\ SideLinks

(* A stop of the position that the tracker is not about to cancel.         *)
Lasting(o) == o \in StopsOf(sideOfAmount(pos), orders) /\ o.id \notin tracker.stale

(* The driver has taken the stop away and is about to give one back.       *)
Replacing == job["driver"].pc = "place" /\ job["driver"].meta.side = sideOfAmount(pos)
Closing == job["driver"].pc \in {"emergency", "reduce"}

(* A position without a lasting stop is being worked on, or there is an    *)
(* excuse.                                                                 *)
Guarded ==
  /\ pos = 0 => excuse = "none"
  /\ pos # 0 /\ excuse = "none" => tracker.pc = "legs" \/ Replacing \/ Closing \/ \E o \in orders : Lasting(o)

(* Where NeverLoosened speaks: one side, and no fault that loses an answer,*)
(* the process or the file.                                                *)
Steady == world.kinds \cap {"lost", "crash", "disk"} = {} /\ Cardinality(world.sides) = 1

(* What replaces a stop is as tight as any the position has had.           *)
Kept ==
  /\ pos = 0 => floor = 0
  /\ Steady /\ floor # 0 =>
       \/ Closing
       \/ /\ Replacing
          /\ ~Tighter(sideOfAmount(pos), floor, job["driver"].price)
          /\ ~Tighter(sideOfAmount(pos), floor, job["driver"].meta.stop)
       \/ \E o \in orders : Lasting(o) /\ ~Tighter(sideOfAmount(pos), floor, o.price)

BookInv == Types /\ Linked /\ Guarded /\ Kept

----------------------------------------------------------------------------
(* Operators of the model *)

LEMMA SideValues ==
  ASSUME NEW n \in Int
  PROVE /\ sideOfAmount(n) \in {-1, 0, 1} /\ Size(n) \in Nat
        /\ n = 0 <=> sideOfAmount(n) = 0
        /\ n = 0 <=> Size(n) = 0
        /\ n # 0 => sideOfAmount(n) \in Sides
        /\ sideOfAmount(n) = 1 => Size(n) = n
        /\ sideOfAmount(n) = -1 => Size(n) = -n
  BY DEF sideOfAmount, Size, Sides

(* A reduce-only order brings the position towards zero, never across.     *)
LEMMA ReduceLeaves ==
  ASSUME NEW n \in Int, NEW m \in Nat, n \in -m .. m, NEW side \in Sides, NEW k \in Nat,
         sideOfAmount(n) = side, k <= Size(n)
  PROVE /\ n - side * k \in -m .. m
        /\ n - side * k # 0 => sideOfAmount(n - side * k) = side
<1>1. CASE side = 1
  <2>1. n - side * k = n - k
    BY <1>1
  <2>2. n > 0 /\ k <= n
    BY <1>1 DEF sideOfAmount, Size
  <2>3. QED
    BY <1>1, <2>1, <2>2 DEF sideOfAmount
<1>2. CASE side = -1
  <2>1. n - side * k = n + k
    BY <1>2
  <2>2. n < 0 /\ k <= -n
    BY <1>2 DEF sideOfAmount, Size
  <2>3. QED
    BY <1>2, <2>1, <2>2 DEF sideOfAmount
<1>3. QED
  BY <1>1, <1>2 DEF Sides

(* What a fresh id differs from. *)
LEMMA FreshId ==
  ASSUME NEW i \in FreshIds
  PROVE /\ i \in Ids
        /\ \A o \in orders : o.id # i
        /\ i # tracker.id /\ i # tracker.tp /\ i \notin tracker.stale
        /\ meta # None => i # meta.id /\ i # meta.tp
        /\ file # None => i # file.id /\ i # file.tp
        /\ \A t \in Tasks : i # job[t].id
        /\ \A t \in Tasks : job[t].meta # None => i # job[t].meta.id /\ i # job[t].meta.tp
<1>1. i \in Ids /\ i \notin UsedIds
  BY DEF FreshIds
<1>2. /\ i \notin {o.id : o \in orders} /\ i \notin {tracker.id, tracker.tp} /\ i \notin tracker.stale
      /\ i \notin (IF meta = None THEN {} ELSE {meta.id, meta.tp})
      /\ i \notin (IF file = None THEN {} ELSE {file.id, file.tp})
      /\ i \notin UNION {{job[t].id} \cup (IF job[t].meta = None THEN {} ELSE {job[t].meta.id, job[t].meta.tp})
                       : t \in Tasks}
  BY <1>1 DEF UsedIds
<1>3. \A t \in Tasks : i \notin {job[t].id} \cup (IF job[t].meta = None THEN {} ELSE {job[t].meta.id, job[t].meta.tp})
  BY <1>2
<1>4. QED
  BY <1>1, <1>2, <1>3

(* The lowest number of a set is one of its numbers. *)
LEMMA LowestIn == ASSUME NEW S, NEW i \in Lowest(S) PROVE i \in S
  BY DEF Lowest

(* Venue keeps the venue's types. *)
LEMMA VenueKeeps ==
  ASSUME VenueTypes, BookAssumption,
         NEW p \in -MaxQty .. MaxQty, NEW book \in SUBSET Book, NEW why \in Excuses,
         \A o \in book : o.kind = "stop" => o.price \in Ticks,
         Venue(p, book, why)
  PROVE VenueTypes'
  BY DEF VenueTypes, Venue, BookAssumption, Excuses

(* Save keeps the store's types and counts its fault. *)
LEMMA SaveKeeps ==
  ASSUME StoreTypes, RestTypes, NEW m \in Metas \cup {None}, Save(m)
  PROVE StoreTypes' /\ faults' \in 0 .. world.faults
  BY DEF StoreTypes, RestTypes, Save, Fault

(* A failing call is counted, and the count stays within the world's bound. *)
LEMMA FaultCounts ==
  ASSUME RestTypes, NEW kind, Fault(kind)
  PROVE faults' \in 0 .. world.faults
  BY DEF RestTypes, Fault

(* Moving a task to a well-shaped step keeps the jobs typed. *)
LEMMA GotoKeeps ==
  ASSUME JobTypes, NEW t \in Tasks, NEW j, Shape(j), Goto(t, j),
         t = "driver" /\ j.pc = "wait" /\ j.qty = 0 => j.price \in Ticks
  PROVE JobTypes'
<1>1. j \in JobSet
  BY DEF Shape
<1>2. job' = [job EXCEPT ![t] = j]
  BY DEF Goto
<1>3. job' \in [Tasks -> JobSet]
  BY <1>1, <1>2 DEF JobTypes
<1>4. job'[t] = j /\ \A u \in Tasks : u # t => job'[u] = job[u]
  BY <1>2 DEF JobTypes
<1>5. \A u \in Tasks : Shape(job'[u])
  BY <1>4 DEF JobTypes
<1>6. job'["driver"].pc = "wait" /\ job'["driver"].qty = 0 => job'["driver"].price \in Ticks
  BY <1>4 DEF JobTypes, Tasks
<1>7. QED
  BY <1>3, <1>5, <1>6 DEF JobTypes, Shape, JobSet

(* The idle job is well shaped. *)
LEMMA NoJobShape == BookAssumption => Shape(NoJob)
  BY DEF BookAssumption, Shape, NoJob, JobSet, Steps, Sides, Active

(* A task that finishes leaves typed jobs, a typed lock and a typed refresh. *)
LEMMA FinishKeeps ==
  ASSUME JobTypes, RestTypes, BookAssumption, NEW t \in Tasks, Finish(t)
  PROVE /\ JobTypes' /\ lock' \in Tasks \cup {None}
        /\ refresh' \in [pc : {"idle", "asked", "turn", "audit"}, seen : -MaxQty .. MaxQty]
<1>1. Goto(t, NoJob)
  BY DEF Finish, Goto
<1>2. JobTypes'
  BY <1>1, NoJobShape, GotoKeeps DEF NoJob
<1>3. QED
  BY <1>2 DEF Finish, RestTypes, NoRefresh, BookAssumption
----------------------------------------------------------------------------
(* Types *)

LEMMA TypesInit == Init => Types
<1> USE BookAssumption
<1> SUFFICES ASSUME Init PROVE Types
  OBVIOUS
<1>1. VenueTypes
  BY DEF Init, VenueTypes, BookAssumption, Excuses
<1>2. StoreTypes
  BY DEF Init, StoreTypes
<1>3. JobTypes
  <2>1. \A t \in Tasks : job[t] = NoJob
    BY DEF Init
  <2>2. NoJob \in JobSet
    BY NoJobShape DEF Shape
  <2>3. job \in [Tasks -> JobSet]
    BY <2>2 DEF Init
  <2>4. QED
    <3>1. \A t \in Tasks : Shape(job[t])
      BY <2>1, NoJobShape
    <3>2. job["driver"].pc = "idle"
      BY <2>1 DEF NoJob, Tasks
    <3>3. QED
      BY <2>3, <3>1, <3>2 DEF JobTypes
<1>4. TrackerTypes
  BY DEF Init, TrackerTypes, Entries, NoEntry, Sides, BookAssumption
<1>5. RestTypes
  <2>1. world \in Worlds
    BY DEF Init
  <2>2. world \in [sides : SUBSET Sides, kinds : SUBSET Kinds, faults : Nat, ticks : 1 .. MaxTick]
    BY <2>1 DEF BookAssumption
  <2>3. QED
    BY <2>1, <2>2 DEF Init, RestTypes, NoRefresh, BookAssumption
<1>6. QED
  BY <1>1, <1>2, <1>3, <1>4, <1>5 DEF Types

(* The tracker's steps and the venue's. *)
LEMMA TrackerTypesStep ==
  ASSUME Types, BookAssumption,
         \/ Fill \/ TrackerPlaces \/ TrackerFlattens \/ recordEntry \/ TrackerCancelsStale \/ TrackerDone
         \/ OrderFires \/ LeftoversCancelled
  PROVE Types'
<1> USE DEF Types
<1>1. CASE Fill
  <2>1. PICK side \in world.sides, stop \in 1 .. world.ticks :
          /\ pos # 0 => side = sideOfAmount(pos)
          /\ tracker' = [tracker EXCEPT !.pc = "legs", !.side = side, !.stop = stop]
          /\ Venue(pos + side, orders, "none")
    BY <1>1 DEF Fill
  <2>2. side \in Sides /\ stop \in Ticks
    BY <2>1 DEF RestTypes, Ticks, BookAssumption
  <2>3. pos + side \in -MaxQty .. MaxQty
    <3>1. Size(pos) < MaxQty
      BY <1>1 DEF Fill
    <3>2. pos \in Int /\ MaxQty \in Nat /\ MaxQty > 0
      BY DEF VenueTypes, BookAssumption
    <3>3. QED
      BY <2>1, <2>2, <3>1, <3>2 DEF Size, sideOfAmount, Sides, VenueTypes
  <2>4. VenueTypes'
    BY <2>1, <2>3, VenueKeeps DEF VenueTypes, Excuses
  <2>5. TrackerTypes'
    <3>1. stop \in 0 .. MaxTick
      BY <2>2 DEF Ticks, BookAssumption
    <3>2. tracker' = [tracker EXCEPT !.pc = "legs", !.side = side, !.stop = stop]
      BY <2>1
    <3>3. tracker \in Entries
      BY DEF TrackerTypes
    <3>4. tracker' \in Entries /\ tracker'.pc = "legs" /\ tracker'.stop = stop
      BY <2>2, <3>1, <3>2, <3>3 DEF Entries
    <3>5. QED
      BY <2>2, <3>4 DEF TrackerTypes
  <2>6. fills' \in 0 .. MaxFills
    <3>1. fills < MaxFills /\ fills' = fills + 1
      BY <1>1 DEF Fill
    <3>2. QED
      BY <3>1 DEF RestTypes, BookAssumption
  <2>7. QED
    BY <1>1, <2>4, <2>5, <2>6 DEF Fill, storeVars, StoreTypes, JobTypes, RestTypes
<1>2. CASE TrackerPlaces
  <2>a. PICK id \in Lowest(FreshIds) :
         \E tp \in IF May("target") THEN Lowest(FreshIds \ {id}) ELSE {0} :
         /\ tracker' = [tracker EXCEPT !.pc = "placed", !.id = id, !.tp = tp,
                                       !.stale = @ \cup ({tracker.id, tracker.tp} \ {0})]
         /\ Venue(pos, orders \cup {Order(id, "stop", tracker.side, tracker.stop)}
                       \cup (IF tp = 0 THEN {} ELSE {Order(tp, "target", tracker.side, 0)}), "none")
    BY <1>2 DEF TrackerPlaces
  <2>1. PICK tp \in IF May("target") THEN Lowest(FreshIds \ {id}) ELSE {0} :
         /\ tracker' = [tracker EXCEPT !.pc = "placed", !.id = id, !.tp = tp,
                                       !.stale = @ \cup ({tracker.id, tracker.tp} \ {0})]
         /\ Venue(pos, orders \cup {Order(id, "stop", tracker.side, tracker.stop)}
                       \cup (IF tp = 0 THEN {} ELSE {Order(tp, "target", tracker.side, 0)}), "none")
    BY <2>a
  <2>2. id \in Ids /\ tp \in Ids \cup {0}
    BY LowestIn DEF FreshIds
  <2>3. tracker.stop \in Ticks /\ tracker.side \in Sides
    BY <1>2 DEF TrackerPlaces, TrackerTypes, Entries
  <2>4. Order(id, "stop", tracker.side, tracker.stop) \in Book
    BY <2>2, <2>3 DEF Order, Book, Ticks, BookAssumption
  <2>5. tp # 0 => Order(tp, "target", tracker.side, 0) \in Book
    BY <2>2, <2>3 DEF Order, Book, BookAssumption
  <2> DEFINE book == orders \cup {Order(id, "stop", tracker.side, tracker.stop)}
                       \cup (IF tp = 0 THEN {} ELSE {Order(tp, "target", tracker.side, 0)})
  <2>6. book \in SUBSET Book
    BY <2>4, <2>5 DEF VenueTypes
  <2>7. \A o \in book : o.kind = "stop" => o.price \in Ticks
    BY <2>3 DEF VenueTypes, Order
  <2> HIDE DEF book
  <2>8. VenueTypes'
    BY <2>1, <2>6, <2>7, VenueKeeps DEF VenueTypes, Excuses, book
  <2>9. TrackerTypes'
    BY <2>1, <2>2, <2>3 DEF TrackerTypes, Entries
  <2>10. QED
    BY <1>2, <2>8, <2>9 DEF TrackerPlaces, storeVars, StoreTypes, JobTypes, RestTypes
<1>3. CASE TrackerFlattens
  <2>1. VenueTypes'
    BY <1>3, VenueKeeps DEF TrackerFlattens, VenueTypes, Excuses, BookAssumption
  <2>2. TrackerTypes'
    BY <1>3 DEF TrackerFlattens, TrackerTypes, Entries, NoEntry, Sides, BookAssumption
  <2>3. faults' \in 0 .. world.faults
    BY <1>3, FaultCounts DEF TrackerFlattens
  <2>4. QED
    BY <1>3, <2>1, <2>2, <2>3 DEF TrackerFlattens, storeVars, StoreTypes, JobTypes, RestTypes
<1>4. CASE recordEntry
  <2> DEFINE m == [side |-> tracker.side, stop |-> tracker.stop, id |-> tracker.id, tp |-> tracker.tp]
  <2>1. tracker.stop \in Ticks /\ tracker.id \in Ids
    BY <1>4 DEF recordEntry, TrackerTypes
  <2>2. m \in Metas
    BY <2>1 DEF TrackerTypes, Entries, Metas
  <2>3. StoreTypes' /\ faults' \in 0 .. world.faults
    BY <1>4, <2>2, SaveKeeps DEF recordEntry
  <2>4. VenueTypes'
    BY <1>4, <2>1 DEF recordEntry, Raise, VenueTypes, Ticks, BookAssumption
  <2>5. TrackerTypes'
    BY <1>4, <2>1 DEF recordEntry, TrackerTypes, Entries
  <2>6. QED
    BY <1>4, <2>3, <2>4, <2>5 DEF recordEntry, JobTypes, RestTypes
<1>5. CASE TrackerCancelsStale
  <2>1. VenueTypes'
    BY <1>5, VenueKeeps DEF TrackerCancelsStale, VenueTypes, Excuses
  <2>2. TrackerTypes'
    BY <1>5 DEF TrackerCancelsStale, TrackerTypes, Entries
  <2>3. QED
    BY <1>5, <2>1, <2>2 DEF TrackerCancelsStale, storeVars, StoreTypes, JobTypes, RestTypes
<1>6. CASE TrackerDone
  <2>1. TrackerTypes'
    BY <1>6 DEF TrackerDone, TrackerTypes, Entries, NoEntry, Sides, BookAssumption
  <2>2. QED
    BY <1>6, <2>1 DEF TrackerDone, venueVars, storeVars, VenueTypes, StoreTypes, JobTypes, RestTypes
<1>7. CASE OrderFires
  <2>1. PICK o \in orders : Venue(0, orders \ {o}, "none")
    BY <1>7 DEF OrderFires
  <2>2. VenueTypes'
    BY <2>1, VenueKeeps DEF VenueTypes, Excuses, BookAssumption
  <2>3. QED
    BY <1>7, <2>2 DEF OrderFires, storeVars, StoreTypes, JobTypes, RestTypes, TrackerTypes
<1>8. CASE LeftoversCancelled
  <2>1. VenueTypes'
    BY <1>8, VenueKeeps DEF LeftoversCancelled, VenueTypes, Excuses, BookAssumption
  <2>2. QED
    BY <1>8, <2>1 DEF LeftoversCancelled, storeVars, StoreTypes, JobTypes, RestTypes, TrackerTypes
<1>9. QED
  BY <1>1, <1>2, <1>3, <1>4, <1>5, <1>6, <1>7, <1>8

(* The steps of a refresh, and the crash. *)
LEMMA RefreshTypesStep ==
  ASSUME Types, BookAssumption, RefreshAsk \/ RefreshFails \/ RefreshApply \/ RefreshTurn \/ Crash
  PROVE Types'
<1> USE DEF Types
<1>1. CASE RefreshAsk
  BY <1>1 DEF RefreshAsk, venueVars, storeVars, VenueTypes, StoreTypes, JobTypes, RestTypes, TrackerTypes
<1>2. CASE RefreshFails
  <2>1. faults' \in 0 .. world.faults
    BY <1>2, FaultCounts DEF RefreshFails
  <2>2. refresh' \in [pc : {"idle", "asked", "turn", "audit"}, seen : -MaxQty .. MaxQty]
    BY <1>2 DEF RefreshFails, NoRefresh, BookAssumption
  <2>3. QED
    BY <1>2, <2>1, <2>2 DEF RefreshFails, venueVars, storeVars, VenueTypes, StoreTypes, JobTypes, RestTypes, TrackerTypes
<1>3. CASE RefreshApply
  <2>1. refresh' \in [pc : {"idle", "asked", "turn", "audit"}, seen : -MaxQty .. MaxQty]
    BY <1>3 DEF RefreshApply, NoRefresh, RestTypes, BookAssumption
  <2>2. QED
    BY <1>3, <2>1 DEF RefreshApply, venueVars, storeVars, VenueTypes, StoreTypes, JobTypes, RestTypes, TrackerTypes
<1>4. CASE RefreshTurn
  <2>1. StoreTypes' /\ faults' \in 0 .. world.faults
    BY <1>4, SaveKeeps DEF RefreshTurn, storeVars, StoreTypes, RestTypes
  <2>2. refresh' \in [pc : {"idle", "asked", "turn", "audit"}, seen : -MaxQty .. MaxQty]
    BY <1>4 DEF RefreshTurn, NoRefresh, RestTypes, BookAssumption
  <2>3. JobTypes'
    <3>1. CASE UNCHANGED job
      BY <3>1 DEF JobTypes
    <3>2. CASE job' = [job EXCEPT !["audit"].pc = "wait"]
      <4>1. Goto("audit", [job["audit"] EXCEPT !.pc = "wait"])
        BY <3>2 DEF Goto
      <4>2. Shape(job["audit"]) /\ job["audit"] \in JobSet
        BY DEF JobTypes, Tasks
      <4>3. Shape([job["audit"] EXCEPT !.pc = "wait"])
        BY <4>2 DEF Shape, JobSet, Steps, Active
      <4>4. QED
        BY <4>1, <4>3, GotoKeeps DEF Tasks
    <3>3. QED
      BY <1>4, <3>1, <3>2 DEF RefreshTurn
  <2>4. QED
    BY <1>4, <2>1, <2>2, <2>3 DEF RefreshTurn, venueVars, VenueTypes, RestTypes, TrackerTypes
<1>5. CASE Crash
  <2>1. JobTypes'
    <3>1. \A t \in Tasks : job'[t] = NoJob
      BY <1>5 DEF Crash
    <3>2. job' \in [Tasks -> JobSet]
      BY <1>5, NoJobShape DEF Crash, Shape
    <3>3. QED
      BY <3>1, <3>2, NoJobShape DEF JobTypes, NoJob, Tasks, Shape, JobSet
  <2>2. TrackerTypes'
    BY <1>5 DEF Crash, TrackerTypes, Entries, NoEntry, Sides, BookAssumption
  <2>3. VenueTypes'
    BY <1>5 DEF Crash, VenueTypes, Excuses
  <2>4. StoreTypes'
    BY <1>5 DEF Crash, StoreTypes
  <2>5. faults' \in 0 .. world.faults
    BY <1>5, FaultCounts DEF Crash
  <2>6. RestTypes'
    BY <1>5, <2>5 DEF Crash, RestTypes, NoRefresh, BookAssumption
  <2>7. QED
    BY <2>1, <2>2, <2>3, <2>4, <2>6
<1>6. QED
  BY <1>1, <1>2, <1>3, <1>4, <1>5

(* A failed attempt is retried, falls back to the record's price or gives  *)
(* up for the emergency close: the job keeps its shape.                    *)
LEMMA AttemptResult ==
  ASSUME BookAssumption, NEW j, Shape(j), j.pc = "place"
  PROVE /\ Shape(attemptFailed(j))
        /\ attemptFailed(j).pc \in {"place", "emergency"}
        /\ attemptFailed(j).meta = j.meta /\ attemptFailed(j).id = j.id /\ attemptFailed(j).side = j.side
        /\ attemptFailed(j).price \in {j.price, j.meta.stop}
<1>1. /\ j \in JobSet /\ j.meta \in Metas /\ j.meta # None /\ j.price \in Ticks
  BY DEF Shape, Active
<1>2. j.meta.stop \in Ticks
  BY <1>1 DEF Metas
<1>3. /\ placeAttempts \in Nat /\ 0 \in 0 .. placeAttempts - 1
      /\ j.price \in 0 .. MaxTick /\ j.meta.stop \in 0 .. MaxTick
  BY <1>1, <1>2 DEF BookAssumption, Ticks
<1>4. CASE j.tries + 1 < placeAttempts
  <2>1. attemptFailed(j) = [j EXCEPT !.tries = @ + 1]
    BY <1>4 DEF attemptFailed
  <2>2. [j EXCEPT !.tries = @ + 1] \in JobSet
    BY <1>1, <1>3, <1>4 DEF JobSet
  <2>3. QED
    BY <1>1, <2>1, <2>2 DEF Shape, Active, JobSet
<1>5. CASE ~(j.tries + 1 < placeAttempts) /\ j.price # j.meta.stop
  <2>1. attemptFailed(j) = [j EXCEPT !.price = j.meta.stop, !.tries = 0]
    BY <1>5 DEF attemptFailed, fallback
  <2>2. [j EXCEPT !.price = j.meta.stop, !.tries = 0] \in JobSet
    BY <1>1, <1>2, <1>3 DEF JobSet
  <2>3. QED
    BY <1>1, <1>2, <2>1, <2>2 DEF Shape, Active, JobSet
<1>6. CASE ~(j.tries + 1 < placeAttempts) /\ j.price = j.meta.stop
  <2>1. attemptFailed(j) = [j EXCEPT !.pc = "emergency", !.tries = 0]
    BY <1>6 DEF attemptFailed, fallback
  <2>2. [j EXCEPT !.pc = "emergency", !.tries = 0] \in JobSet
    BY <1>1, <1>3 DEF JobSet, Steps
  <2>3. QED
    BY <1>1, <2>1, <2>2 DEF Shape, Active, JobSet
<1>7. QED
  BY <1>4, <1>5, <1>6

(* The record a task writes once its stop is in place.                     *)
LEMMA PlacedMetaType ==
  ASSUME NEW j, j \in JobSet, j.meta \in Metas, j.price \in Ticks, j.id \in Ids
  PROVE /\ placedMeta(j) \in Metas
        /\ placedMeta(j).stop = j.price /\ placedMeta(j).id = j.id
        /\ placedMeta(j).side = j.meta.side /\ placedMeta(j).tp = j.meta.tp
  BY DEF placedMeta, Metas

(* The steps that both tasks take under the lock.                          *)
LEMMA UnderLockTypesStep ==
  ASSUME Types, BookAssumption, NEW t \in Tasks,
         placeWithRetry(t) \/ Placed(t) \/ EmergencyRead(t) \/ EmergencyReduce(t)
  PROVE Types'
<1> USE DEF Types
<1>a. Shape(job[t]) /\ job[t] \in JobSet
  BY DEF JobTypes
<1>b. /\ Ticks \subseteq 0 .. MaxTick /\ MaxQty \in Nat
      /\ 0 \in 0 .. placeAttempts - 1 /\ 0 \in 0 .. MaxTick /\ 0 \in -MaxQty .. MaxQty
  BY DEF BookAssumption, Ticks
<1>1. CASE placeWithRetry(t)
  <2>1. job[t].pc = "place"
    BY <1>1 DEF placeWithRetry
  <2>2. job[t].meta \in Metas /\ job[t].meta # None /\ job[t].price \in Ticks /\ job[t].meta.side \in Sides
    BY <1>a, <2>1 DEF Shape, Active, Metas
  <2>3. PICK id \in Lowest(FreshIds) :
       LET book == orders \cup {Order(id, "stop", job[t].meta.side, job[t].price)} IN
       \/ /\ Goto(t, [job[t] EXCEPT !.pc = "placed", !.id = id])
          /\ Venue(pos, book, "none")
          /\ UNCHANGED faults
       \/ /\ Fault("reject")
          /\ Goto(t, attemptFailed(job[t]))
          /\ UNCHANGED venueVars
       \/ /\ Fault("lost")
          /\ Goto(t, attemptFailed(job[t]))
          /\ Venue(pos, book, "none")
    BY <1>1 DEF placeWithRetry
  <2> DEFINE book == orders \cup {Order(id, "stop", job[t].meta.side, job[t].price)}
  <2>4. id \in Ids
    BY LowestIn DEF FreshIds
  <2>5. book \in SUBSET Book /\ \A o \in book : o.kind = "stop" => o.price \in Ticks
    <3>1. Order(id, "stop", job[t].meta.side, job[t].price) \in Book
      BY <1>b, <2>2, <2>4 DEF Book, Order
    <3>2. QED
      BY <2>2, <3>1 DEF Order, VenueTypes
  <2>6. Venue(pos, book, "none") => VenueTypes'
    BY <2>5, VenueKeeps DEF VenueTypes, Excuses
  <2>7. Shape([job[t] EXCEPT !.pc = "placed", !.id = id])
    BY <1>a, <2>2, <2>4 DEF Shape, JobSet, Steps, Active
  <2>8. Shape(attemptFailed(job[t])) /\ attemptFailed(job[t]).pc # "wait"
    BY <1>a, <2>1, AttemptResult
  <2>9. [job[t] EXCEPT !.pc = "placed", !.id = id].pc = "placed"
    BY <1>a DEF JobSet
  <2> HIDE DEF book
  <2>10. JobTypes' /\ VenueTypes' /\ faults' \in 0 .. world.faults
    <3>1. CASE Goto(t, [job[t] EXCEPT !.pc = "placed", !.id = id]) /\ Venue(pos, book, "none") /\ UNCHANGED faults
      BY <2>6, <2>7, <2>9, <3>1, GotoKeeps DEF RestTypes
    <3>2. CASE Fault("reject") /\ Goto(t, attemptFailed(job[t])) /\ UNCHANGED venueVars
      <4>1. JobTypes'
        BY <2>8, <3>2, GotoKeeps
      <4>2. VenueTypes'
        BY <3>2 DEF venueVars, VenueTypes
      <4>3. QED
        BY <3>2, <4>1, <4>2, FaultCounts
    <3>3. CASE Fault("lost") /\ Goto(t, attemptFailed(job[t])) /\ Venue(pos, book, "none")
      BY <2>6, <2>8, <3>3, GotoKeeps, FaultCounts
    <3>4. QED
      BY <2>3, <3>1, <3>2, <3>3 DEF book
  <2>11. QED
    BY <1>1, <2>10 DEF placeWithRetry, storeVars, StoreTypes, RestTypes, TrackerTypes
<1>2. CASE Placed(t)
  <2>1. job[t].pc = "placed"
    BY <1>2 DEF Placed
  <2>2. /\ job[t].meta \in Metas /\ job[t].meta # None /\ job[t].price \in Ticks /\ job[t].id \in Ids
    BY <1>a, <2>1 DEF Shape, Active
  <2>3. placedMeta(job[t]) \in Metas
    BY <1>a, <2>2, PlacedMetaType
  <2>4. StoreTypes' /\ faults' \in 0 .. world.faults
    BY <1>2, <2>3, SaveKeeps DEF Placed
  <2>5. VenueTypes'
    BY <1>b, <1>2, <2>2 DEF Placed, Raise, VenueTypes
  <2> DEFINE j == [job[t] EXCEPT !.pc = "drop", !.price = 0, !.tries = 0, !.id = 0]
  <2>6. Shape(j) /\ j.pc = "drop"
    BY <1>a, <1>b, <2>2 DEF Shape, JobSet, Steps, Active
  <2> HIDE DEF j
  <2>7. /\ JobTypes' /\ lock' \in Tasks \cup {None}
        /\ refresh' \in [pc : {"idle", "asked", "turn", "audit"}, seen : -MaxQty .. MaxQty]
    <3>1. CASE t = "driver"
      <4>1. Goto(t, j) /\ UNCHANGED <<lock, refresh>>
        BY <1>2, <3>1 DEF Placed, j
      <4>2. QED
        BY <2>6, <4>1, GotoKeeps DEF RestTypes
    <3>2. CASE t # "driver"
      BY <1>2, <3>2, FinishKeeps DEF Placed
    <3>3. QED
      BY <3>1, <3>2
  <2>8. QED
    BY <1>2, <2>4, <2>5, <2>7 DEF Placed, TrackerTypes, RestTypes
<1>3. CASE EmergencyRead(t)
  <2>1. job[t].pc = "emergency"
    BY <1>3 DEF EmergencyRead
  <2>2. job[t].meta \in Metas /\ job[t].meta # None
    BY <1>a, <2>1 DEF Shape, Active
  <2>3. raw' \in -MaxQty .. MaxQty /\ faults' \in 0 .. world.faults
    <3>1. CASE raw' = pos /\ UNCHANGED faults
      BY <3>1 DEF VenueTypes, RestTypes
    <3>2. CASE Fault("reject") /\ raw' = raw
      BY <3>2, FaultCounts DEF RestTypes
    <3>3. QED
      BY <1>3, <3>1, <3>2 DEF EmergencyRead
  <2> DEFINE j == [job[t] EXCEPT !.pc = "drop", !.price = 0]
             k == [job[t] EXCEPT !.pc = "reduce", !.qty = Size(raw')]
  <2>4. Size(raw') \in -MaxQty .. MaxQty /\ (raw' # 0 => Size(raw') > 0)
    <3>1. \A n \in -MaxQty .. MaxQty : Size(n) \in -MaxQty .. MaxQty /\ (n # 0 => Size(n) > 0)
      BY <1>b DEF Size
    <3>2. QED
      BY <2>3, <3>1
  <2>5. Shape(j) /\ j.pc = "drop"
    BY <1>a, <1>b, <2>2 DEF Shape, JobSet, Steps, Active
  <2>6. raw' # 0 => Shape(k) /\ k.pc = "reduce"
    BY <1>a, <2>2, <2>4 DEF Shape, JobSet, Steps, Active
  <2> HIDE DEF j, k
  <2>7. /\ JobTypes' /\ lock' \in Tasks \cup {None}
        /\ refresh' \in [pc : {"idle", "asked", "turn", "audit"}, seen : -MaxQty .. MaxQty]
    <3>1. CASE raw' = 0 /\ t = "driver"
      <4>1. Goto(t, j) /\ UNCHANGED <<lock, refresh>>
        BY <1>3, <3>1 DEF EmergencyRead, j
      <4>2. QED
        BY <2>5, <4>1, GotoKeeps DEF RestTypes
    <3>2. CASE raw' = 0 /\ t # "driver"
      BY <1>3, <3>2, FinishKeeps DEF EmergencyRead
    <3>3. CASE raw' # 0
      <4>1. Goto(t, k) /\ UNCHANGED <<lock, refresh>>
        BY <1>3, <3>3 DEF EmergencyRead, k
      <4>2. QED
        BY <2>6, <3>3, <4>1, GotoKeeps DEF RestTypes
    <3>4. QED
      BY <3>1, <3>2, <3>3
  <2>8. VenueTypes'
    <3>1. CASE raw' = 0
      <4>1. Venue(pos, orders, "emergency")
        BY <1>3, <3>1 DEF EmergencyRead
      <4>2. QED
        BY <4>1, VenueKeeps DEF VenueTypes, Excuses
    <3>2. CASE raw' # 0
      BY <1>3, <3>2 DEF EmergencyRead, venueVars, VenueTypes
    <3>3. QED
      BY <3>1, <3>2
  <2>9. QED
    BY <1>3, <2>3, <2>7, <2>8 DEF EmergencyRead, storeVars, StoreTypes, TrackerTypes, RestTypes
<1>4. CASE EmergencyReduce(t)
  <2>1. job[t].pc = "reduce"
    BY <1>4 DEF EmergencyReduce
  <2>2. job[t].meta \in Metas /\ job[t].meta # None /\ job[t].meta.side \in Sides /\ job[t].qty \in -MaxQty .. MaxQty
    BY <1>a, <2>1 DEF Shape, Active, Metas, JobSet
  <2>3. faults' \in 0 .. world.faults
    BY <1>4, FaultCounts DEF EmergencyReduce, RestTypes
  <2>4. PICK p \in {pos, pos - job[t].meta.side * job[t].qty} :
          /\ p # pos => ReduceOnlyAccepted(job[t].meta.side, job[t].qty)
          /\ Venue(p, orders, "emergency")
    BY <1>4 DEF EmergencyReduce
  <2>5. p \in -MaxQty .. MaxQty
    <3>1. CASE p = pos
      BY <3>1 DEF VenueTypes
    <3>2. CASE p # pos
      <4>1. sideOfAmount(pos) = job[t].meta.side /\ job[t].qty <= Size(pos)
        BY <2>4, <3>2 DEF ReduceOnlyAccepted
      <4>2. job[t].qty \in Nat /\ pos \in Int
        BY <1>a, <1>b, <2>1, <2>2 DEF Shape, VenueTypes
      <4>3. QED
        BY <1>b, <2>2, <2>4, <3>2, <4>1, <4>2, ReduceLeaves DEF VenueTypes
    <3>3. QED
      BY <3>1, <3>2
  <2>6. VenueTypes'
    BY <2>4, <2>5, VenueKeeps DEF VenueTypes, Excuses
  <2> DEFINE j == [job[t] EXCEPT !.pc = "drop", !.price = 0, !.qty = 0]
  <2>7. Shape(j) /\ j.pc = "drop"
    BY <1>a, <1>b, <2>2 DEF Shape, JobSet, Steps, Active
  <2> HIDE DEF j
  <2>8. /\ JobTypes' /\ lock' \in Tasks \cup {None}
        /\ refresh' \in [pc : {"idle", "asked", "turn", "audit"}, seen : -MaxQty .. MaxQty]
    <3>1. CASE t = "driver"
      <4>1. Goto(t, j) /\ UNCHANGED <<lock, refresh>>
        BY <1>4, <3>1 DEF EmergencyReduce, j
      <4>2. QED
        BY <2>7, <4>1, GotoKeeps DEF RestTypes
    <3>2. CASE t # "driver"
      BY <1>4, <3>2, FinishKeeps DEF EmergencyReduce
    <3>3. QED
      BY <3>1, <3>2
  <2>9. QED
    BY <1>4, <2>3, <2>6, <2>8 DEF EmergencyReduce, storeVars, StoreTypes, TrackerTypes, RestTypes
<1>5. QED
  BY <1>1, <1>2, <1>3, <1>4

(* The audit's own steps. *)
LEMMA AuditTypesStep ==
  ASSUME Types, BookAssumption, AuditStarts \/ AuditAdopts \/ AuditConfirms \/ AuditConfirmed
  PROVE Types'
<1> USE DEF Types
<1>a. Shape(job["audit"]) /\ job["audit"] \in JobSet /\ "audit" \in Tasks
  BY DEF JobTypes, Tasks
<1>b. /\ Ticks \subseteq 0 .. MaxTick /\ MaxQty \in Nat
      /\ 0 \in 0 .. placeAttempts - 1 /\ 0 \in 0 .. MaxTick /\ 0 \in -MaxQty .. MaxQty
  BY DEF BookAssumption, Ticks
<1>1. CASE AuditStarts
  <2>1. CASE meta = None /\ Finish("audit") /\ UNCHANGED faults
    <3>1. /\ JobTypes' /\ lock' \in Tasks \cup {None} /\ faults' \in 0 .. world.faults
          /\ refresh' \in [pc : {"idle", "asked", "turn", "audit"}, seen : -MaxQty .. MaxQty]
      BY <1>a, <2>1, FinishKeeps DEF RestTypes
    <3>2. QED
      BY <1>1, <3>1 DEF AuditStarts, venueVars, storeVars, VenueTypes, StoreTypes, RestTypes, TrackerTypes
  <2>2. CASE meta # None /\ Fault("reject") /\ Finish("audit")
    <3>1. /\ JobTypes' /\ lock' \in Tasks \cup {None} /\ faults' \in 0 .. world.faults
          /\ refresh' \in [pc : {"idle", "asked", "turn", "audit"}, seen : -MaxQty .. MaxQty]
      BY <1>a, <2>2, FinishKeeps, FaultCounts
    <3>2. QED
      BY <1>1, <3>1 DEF AuditStarts, venueVars, storeVars, VenueTypes, StoreTypes, RestTypes, TrackerTypes
  <2>3. ASSUME meta # None,
               NEW o \in IF StopsOf(meta.side, orders) = {} THEN {NoOrder} ELSE StopsOf(meta.side, orders),
               Goto("audit", [job["audit"] EXCEPT !.pc = "orders", !.meta = meta, !.id = o.id, !.price = o.price]),
               lock' = "audit", UNCHANGED <<refresh, faults>>
        PROVE Types'
    <3>1. o = NoOrder \/ (o \in orders /\ o.kind = "stop")
      BY <2>3 DEF StopsOf
    <3>2. o.id \in Ids \cup {0} /\ o.price \in 0 .. MaxTick /\ (o.id # 0 => o.price \in Ticks)
      <4>1. CASE o = NoOrder
        BY <1>b, <4>1 DEF NoOrder, Order
      <4>2. CASE o \in orders /\ o.kind = "stop"
        BY <4>2 DEF VenueTypes, Book
      <4>3. QED
        BY <3>1, <4>1, <4>2
    <3> DEFINE j == [job["audit"] EXCEPT !.pc = "orders", !.meta = meta, !.id = o.id, !.price = o.price]
    <3>3. meta \in Metas
      BY <2>3 DEF StoreTypes
    <3>4. Shape(j) /\ j.pc = "orders"
      BY <1>a, <2>3, <3>2, <3>3 DEF Shape, JobSet, Steps, Active
    <3> HIDE DEF j
    <3>5. JobTypes'
      BY <1>a, <2>3, <3>4, GotoKeeps DEF j
    <3>6. QED
      BY <1>1, <1>a, <2>3, <3>5 DEF AuditStarts, venueVars, storeVars, VenueTypes, StoreTypes, RestTypes, TrackerTypes
  <2>4. QED
    BY <1>1, <2>1, <2>2, <2>3 DEF AuditStarts
<1>2. CASE AuditAdopts
  <2>1. Finish("audit") /\ job["audit"].pc = "orders" /\ job["audit"].id # 0
    BY <1>2 DEF AuditAdopts
  <2>2. job["audit"].meta \in Metas /\ job["audit"].price \in Ticks /\ job["audit"].id \in Ids
    BY <1>a, <2>1 DEF Shape, Active, JobSet
  <2>3. placedMeta(job["audit"]) \in Metas
    BY <1>a, <2>2, PlacedMetaType
  <2>4. StoreTypes' /\ faults' \in 0 .. world.faults
    <3>1. CASE UNCHANGED <<storeVars, faults>>
      BY <3>1 DEF storeVars, StoreTypes, RestTypes
    <3>2. CASE Save(placedMeta(job["audit"]))
      BY <2>3, <3>2, SaveKeeps
    <3>3. QED
      BY <1>2, <3>1, <3>2 DEF AuditAdopts
  <2>5. /\ JobTypes' /\ lock' \in Tasks \cup {None}
        /\ refresh' \in [pc : {"idle", "asked", "turn", "audit"}, seen : -MaxQty .. MaxQty]
    BY <1>a, <2>1, FinishKeeps
  <2>6. QED
    BY <1>2, <2>4, <2>5 DEF AuditAdopts, venueVars, VenueTypes, RestTypes, TrackerTypes
<1>3. CASE AuditConfirms
  <2> DEFINE j == [job["audit"] EXCEPT !.pc = "confirm", !.qty = pos]
  <2>1. Shape(j) /\ j.pc = "confirm"
    BY <1>a, <1>3 DEF AuditConfirms, Shape, JobSet, Steps, Active, VenueTypes
  <2> HIDE DEF j
  <2>2. /\ JobTypes' /\ lock' \in Tasks \cup {None} /\ faults' \in 0 .. world.faults
        /\ refresh' \in [pc : {"idle", "asked", "turn", "audit"}, seen : -MaxQty .. MaxQty]
    <3>1. CASE Goto("audit", j) /\ UNCHANGED <<lock, refresh, faults>>
      BY <1>a, <2>1, <3>1, GotoKeeps DEF RestTypes
    <3>2. CASE Fault("reject") /\ Finish("audit")
      BY <1>a, <3>2, FinishKeeps, FaultCounts
    <3>3. QED
      BY <1>3, <3>1, <3>2 DEF AuditConfirms, j
  <2>3. QED
    BY <1>3, <2>2 DEF AuditConfirms, venueVars, storeVars, VenueTypes, StoreTypes, RestTypes, TrackerTypes
<1>4. CASE AuditConfirmed
  <2>1. job["audit"].pc = "confirm" /\ raw' = job["audit"].qty
    BY <1>4 DEF AuditConfirmed
  <2>2. job["audit"].meta \in Metas /\ job["audit"].meta # None
    BY <1>a, <2>1 DEF Shape, Active
  <2>3. raw' \in -MaxQty .. MaxQty
    BY <1>a, <2>1 DEF JobSet
  <2> DEFINE j == [job["audit"] EXCEPT !.pc = "place", !.price = job["audit"].meta.stop, !.qty = 0]
  <2>4. Shape(j) /\ j.pc = "place"
    <3>1. job["audit"].meta.stop \in Ticks
      BY <2>2 DEF Metas
    <3>2. QED
      BY <1>a, <1>b, <2>2, <3>1 DEF Shape, JobSet, Steps, Active
  <2> HIDE DEF j
  <2>5. /\ JobTypes' /\ lock' \in Tasks \cup {None} /\ faults' \in 0 .. world.faults /\ StoreTypes'
        /\ refresh' \in [pc : {"idle", "asked", "turn", "audit"}, seen : -MaxQty .. MaxQty]
    <3>1. CASE Save(None) /\ Finish("audit")
      BY <1>a, <3>1, FinishKeeps, SaveKeeps
    <3>2. CASE Goto("audit", j) /\ UNCHANGED <<storeVars, lock, refresh, faults>>
      BY <1>a, <2>4, <3>2, GotoKeeps DEF RestTypes, storeVars, StoreTypes
    <3>3. QED
      BY <1>4, <3>1, <3>2 DEF AuditConfirmed, j
  <2>6. QED
    BY <1>4, <2>3, <2>5 DEF AuditConfirmed, venueVars, VenueTypes, RestTypes, TrackerTypes
<1>5. QED
  BY <1>1, <1>2, <1>3, <1>4

(* The driver's own steps. *)
LEMMA DriverTypesStep ==
  ASSUME Types, BookAssumption,
         \/ DriverMoves \/ DriverReduces \/ ReduceStarts \/ Reduced
         \/ UpdateStarts \/ CancelStop \/ DropTarget \/ Dropped
  PROVE Types'
<1> USE DEF Types
<1>a. Shape(job["driver"]) /\ job["driver"] \in JobSet /\ "driver" \in Tasks
  BY DEF JobTypes, Tasks
<1>b. /\ Ticks \subseteq 0 .. MaxTick /\ MaxQty \in Nat
      /\ 0 \in 0 .. placeAttempts - 1 /\ 0 \in 0 .. MaxTick /\ 0 \in -MaxQty .. MaxQty
  BY DEF BookAssumption, Ticks
<1>c. NoJob \in JobSet
  BY NoJobShape DEF Shape
<1>1. CASE DriverMoves
  <2>1. meta \in Metas
    BY <1>1 DEF DriverMoves, StoreTypes
  <2>2. PICK price \in 1 .. world.ticks, drop \in BOOLEAN :
          Goto("driver", [NoJob EXCEPT !.pc = "wait", !.side = meta.side, !.price = price, !.drop = drop])
    BY <1>1 DEF DriverMoves
  <2> DEFINE j == [NoJob EXCEPT !.pc = "wait", !.side = meta.side, !.price = price, !.drop = drop]
  <2>3. price \in Ticks
    BY <2>2 DEF RestTypes, Ticks, BookAssumption
  <2>4. Shape(j) /\ j.pc = "wait" /\ j.price = price
    BY <1>b, <1>c, <2>1, <2>3 DEF Shape, JobSet, Steps, Active, Metas
  <2> HIDE DEF j
  <2>5. JobTypes'
    BY <1>a, <2>2, <2>3, <2>4, GotoKeeps DEF j
  <2>6. QED
    BY <1>1, <2>5 DEF DriverMoves, venueVars, storeVars, VenueTypes, StoreTypes, RestTypes, TrackerTypes
<1>2. CASE DriverReduces
  <2>1. meta \in Metas
    BY <1>2 DEF DriverReduces, StoreTypes
  <2>2. PICK qty \in 1 .. Size(raw) - 1 :
          Goto("driver", [NoJob EXCEPT !.pc = "wait", !.side = meta.side, !.qty = qty])
    BY <1>2 DEF DriverReduces
  <2> DEFINE j == [NoJob EXCEPT !.pc = "wait", !.side = meta.side, !.qty = qty]
  <2>3. qty \in -MaxQty .. MaxQty /\ qty > 0
    BY <1>b, <2>2 DEF RestTypes, Size
  <2>4. Shape(j) /\ j.pc = "wait" /\ j.qty > 0
    BY <1>b, <1>c, <2>1, <2>3 DEF Shape, JobSet, Steps, Active, Metas
  <2> HIDE DEF j
  <2>5. JobTypes'
    <3>1. j \in JobSet /\ j.qty # 0
      BY <1>b, <2>4 DEF Shape, JobSet
    <3>2. QED
      BY <1>a, <2>2, <2>4, <3>1, GotoKeeps DEF j
  <2>6. QED
    BY <1>2, <2>5 DEF DriverReduces, venueVars, storeVars, VenueTypes, StoreTypes, RestTypes, TrackerTypes
<1>3. CASE ReduceStarts
  <2>1. job["driver"].qty > 0 /\ job["driver"].qty \in Nat /\ job["driver"].side \in Sides
        /\ pos \in Int
    <3>1. job["driver"].qty > 0
      BY <1>3 DEF ReduceStarts
    <3>2. job["driver"].qty \in -MaxQty .. MaxQty /\ job["driver"].side \in Sides
      BY <1>a DEF JobSet
    <3>3. QED
      BY <1>b, <3>1, <3>2 DEF VenueTypes
  <2>2. ASSUME ReduceOnlyAccepted(job["driver"].side, job["driver"].qty),
               NEW executed \in 1 .. job["driver"].qty,
               Venue(pos - job["driver"].side * executed, orders, "none"),
               \/ /\ Goto("driver", [job["driver"] EXCEPT !.pc = "reduced", !.qty = executed])
                  /\ lock' = "driver"
                  /\ UNCHANGED <<refresh, faults>>
               \/ Fault("lost") /\ Finish("driver")
        PROVE Types'
    <3>1. sideOfAmount(pos) = job["driver"].side /\ executed <= Size(pos) /\ executed \in Nat
      BY <2>1, <2>2, SideValues DEF ReduceOnlyAccepted
    <3>2. pos - job["driver"].side * executed \in -MaxQty .. MaxQty
      BY <1>b, <2>1, <3>1, ReduceLeaves DEF VenueTypes
    <3>3. VenueTypes'
      BY <2>2, <3>2, VenueKeeps DEF VenueTypes, Excuses
    <3> DEFINE j == [job["driver"] EXCEPT !.pc = "reduced", !.qty = executed]
    <3>4. executed \in -MaxQty .. MaxQty /\ executed > 0
      BY <1>a, <1>b, <2>1, <2>2 DEF JobSet
    <3>5. Shape(j) /\ j.pc = "reduced"
      BY <1>a, <3>4 DEF Shape, JobSet, Steps, Active
    <3> HIDE DEF j
    <3>6. /\ JobTypes' /\ lock' \in Tasks \cup {None} /\ faults' \in 0 .. world.faults
          /\ refresh' \in [pc : {"idle", "asked", "turn", "audit"}, seen : -MaxQty .. MaxQty]
      <4>1. CASE Goto("driver", j) /\ lock' = "driver" /\ UNCHANGED <<refresh, faults>>
        BY <1>a, <3>5, <4>1, GotoKeeps DEF RestTypes
      <4>2. CASE Fault("lost") /\ Finish("driver")
        BY <1>a, <4>2, FinishKeeps, FaultCounts
      <4>3. QED
        BY <2>2, <4>1, <4>2 DEF j
    <3>7. QED
      BY <1>3, <3>3, <3>6 DEF ReduceStarts, storeVars, StoreTypes, RestTypes, TrackerTypes
  <2>3. CASE /\ UNCHANGED faults \/ Fault("reject")
             /\ Finish("driver") /\ UNCHANGED venueVars
    <3>1. /\ JobTypes' /\ lock' \in Tasks \cup {None} /\ faults' \in 0 .. world.faults
          /\ refresh' \in [pc : {"idle", "asked", "turn", "audit"}, seen : -MaxQty .. MaxQty]
      BY <1>a, <2>3, FinishKeeps, FaultCounts DEF RestTypes
    <3>2. QED
      BY <1>3, <2>3, <3>1 DEF ReduceStarts, venueVars, storeVars, VenueTypes, StoreTypes, RestTypes, TrackerTypes
  <2>4. QED
    BY <1>3, <2>2, <2>3 DEF ReduceStarts
<1>4. CASE Reduced
  <2>1. Finish("driver") /\ raw' = raw - sideOfAmount(raw) * job["driver"].qty /\ job["driver"].pc = "reduced"
    BY <1>4 DEF Reduced
  <2>2. job["driver"].qty \in 1 .. MaxQty
    BY <1>a, <1>b, <2>1 DEF Shape, JobSet
  <2>3. raw' \in -MaxQty .. MaxQty
    BY <1>b, <2>1, <2>2 DEF sideOfAmount, RestTypes
  <2>4. /\ JobTypes' /\ lock' \in Tasks \cup {None}
        /\ refresh' \in [pc : {"idle", "asked", "turn", "audit"}, seen : -MaxQty .. MaxQty]
    BY <1>a, <2>1, FinishKeeps
  <2>5. QED
    BY <1>4, <2>3, <2>4 DEF Reduced, venueVars, storeVars, VenueTypes, StoreTypes, RestTypes, TrackerTypes
<1>5. CASE UpdateStarts
  <2> DEFINE j == [job["driver"] EXCEPT !.pc = "drop", !.meta = meta, !.price = 0]
  <2>1. meta # None => Shape(j) /\ j.pc = "drop"
    BY <1>a, <1>b DEF Shape, JobSet, Steps, Active, StoreTypes
  <2> HIDE DEF j
  <2>2. /\ JobTypes' /\ lock' \in Tasks \cup {None}
        /\ refresh' \in [pc : {"idle", "asked", "turn", "audit"}, seen : -MaxQty .. MaxQty]
    <3>1. CASE meta = None
      BY <1>5, <1>a, <3>1, FinishKeeps DEF UpdateStarts
    <3>2. CASE meta # None
      <4>1. Goto("driver", j) /\ lock' = "driver" /\ UNCHANGED refresh
        BY <1>5, <3>2 DEF UpdateStarts, j
      <4>2. QED
        BY <1>a, <2>1, <3>2, <4>1, GotoKeeps DEF RestTypes
    <3>3. QED
      BY <3>1, <3>2
  <2>3. QED
    BY <1>5, <2>2 DEF UpdateStarts, venueVars, storeVars, VenueTypes, StoreTypes, RestTypes, TrackerTypes
<1>6. CASE CancelStop
  <2>1. meta # None /\ meta \in Metas /\ job["driver"].pc = "wait" /\ job["driver"].price \in Ticks
    BY <1>6 DEF CancelStop, StoreTypes, Acquire, JobTypes
  <2> DEFINE left == {o \in orders : o.id # meta.id}
             kept == [job["driver"] EXCEPT !.pc = "drop", !.meta = meta, !.price = 0]
             j == [job["driver"] EXCEPT !.pc = "place", !.meta = meta]
  <2>2. Shape(j) /\ j.pc = "place"
    BY <1>a, <1>b, <2>1 DEF Shape, JobSet, Steps, Active
  <2>3. Shape(kept) /\ kept.pc = "drop"
    BY <1>a, <1>b, <2>1 DEF Shape, JobSet, Steps, Active
  <2>4. left \in SUBSET Book /\ \A o \in left : o.kind = "stop" => o.price \in Ticks
    BY DEF VenueTypes
  <2> HIDE DEF j, kept, left
  <2>5. JobTypes'
    <3>1. Goto("driver", j) \/ Goto("driver", kept)
      BY <1>6 DEF CancelStop, j, kept
    <3>2. QED
      BY <1>a, <2>2, <2>3, <3>1, GotoKeeps
  <2>6. VenueTypes' /\ faults' \in 0 .. world.faults
    <3>1. CASE Venue(pos, left, "none") /\ UNCHANGED faults
      BY <2>4, <3>1, VenueKeeps DEF VenueTypes, Excuses, RestTypes
    <3>2. CASE UNCHANGED <<venueVars, faults>>
      BY <3>2 DEF venueVars, VenueTypes, RestTypes
    <3>3. CASE Fault("reject") /\ UNCHANGED venueVars
      <4>1. VenueTypes'
        BY <3>3 DEF venueVars, VenueTypes
      <4>2. QED
        BY <3>3, <4>1, FaultCounts
    <3>4. CASE Fault("lost") /\ Venue(pos, left, "lost")
      BY <2>4, <3>4, VenueKeeps, FaultCounts DEF VenueTypes, Excuses
    <3>5. QED
      BY <1>6, <3>1, <3>2, <3>3, <3>4 DEF CancelStop, left
  <2>7. lock' = "driver"
    BY <1>6 DEF CancelStop
  <2>8. QED
    BY <1>6, <1>a, <2>5, <2>6, <2>7 DEF CancelStop, storeVars, StoreTypes, RestTypes, TrackerTypes
<1>7. CASE DropTarget
  <2>1. job["driver"].pc = "drop"
    BY <1>7 DEF DropTarget
  <2>2. job["driver"].meta \in Metas /\ job["driver"].meta # None
    BY <1>a, <2>1 DEF Shape, Active
  <2> DEFINE m == IF meta = None THEN job["driver"].meta ELSE meta
             left == {o \in orders : o.id # m.tp}
             j == [job["driver"] EXCEPT !.pc = "dropped", !.meta = m]
  <2>3. m \in Metas /\ m # None
    BY <2>2 DEF StoreTypes
  <2>4. left \in SUBSET Book /\ \A o \in left : o.kind = "stop" => o.price \in Ticks
    BY DEF VenueTypes
  <2> HIDE DEF m
  <2>5. Shape(j) /\ j.pc = "dropped"
    BY <1>a, <2>3 DEF Shape, JobSet, Steps, Active
  <2> HIDE DEF left, j
  <2>6. /\ JobTypes' /\ VenueTypes' /\ lock' \in Tasks \cup {None} /\ faults' \in 0 .. world.faults
        /\ refresh' \in [pc : {"idle", "asked", "turn", "audit"}, seen : -MaxQty .. MaxQty]
    <3>1. CASE Finish("driver") /\ UNCHANGED <<venueVars, faults>>
      <4>1. VenueTypes'
        BY <3>1 DEF venueVars, VenueTypes
      <4>2. QED
        BY <1>a, <3>1, <4>1, FinishKeeps DEF RestTypes
    <3>2. CASE Goto("driver", j) /\ Venue(pos, left, "none") /\ UNCHANGED <<lock, refresh, faults>>
      BY <1>a, <2>4, <2>5, <3>2, GotoKeeps, VenueKeeps DEF VenueTypes, Excuses, RestTypes
    <3>3. CASE Fault("reject") /\ Finish("driver") /\ UNCHANGED venueVars
      <4>1. VenueTypes'
        BY <3>3 DEF venueVars, VenueTypes
      <4>2. QED
        BY <1>a, <3>3, <4>1, FinishKeeps, FaultCounts
    <3>4. QED
      BY <1>7, <3>1, <3>2, <3>3 DEF DropTarget, m, left, j
  <2>7. QED
    BY <1>7, <2>6 DEF DropTarget, storeVars, StoreTypes, RestTypes, TrackerTypes
<1>8. CASE Dropped
  <2>1. job["driver"].meta \in Metas /\ Finish("driver") /\ Save([job["driver"].meta EXCEPT !.tp = 0])
    BY <1>8, <1>a DEF Dropped, Shape, Active
  <2>2. [job["driver"].meta EXCEPT !.tp = 0] \in Metas
    BY <2>1 DEF Metas
  <2>3. StoreTypes' /\ faults' \in 0 .. world.faults
    BY <2>1, <2>2, SaveKeeps
  <2>4. /\ JobTypes' /\ lock' \in Tasks \cup {None}
        /\ refresh' \in [pc : {"idle", "asked", "turn", "audit"}, seen : -MaxQty .. MaxQty]
    BY <1>a, <2>1, FinishKeeps
  <2>5. QED
    BY <1>8, <2>3, <2>4 DEF Dropped, venueVars, VenueTypes, RestTypes, TrackerTypes
<1>9. QED
  BY <1>1, <1>2, <1>3, <1>4, <1>5, <1>6, <1>7, <1>8

(* Every step keeps the types. *)
LEMMA TypesStep == Types /\ [Next]_vars => Types'
<1> USE BookAssumption
<1> SUFFICES ASSUME Types, [Next]_vars PROVE Types'
  OBVIOUS
<1>1. CASE UNCHANGED vars
  BY <1>1 DEF vars, Types, VenueTypes, StoreTypes, JobTypes, TrackerTypes, RestTypes
<1>2. CASE Next
  BY <1>2, TrackerTypesStep, RefreshTypesStep, UnderLockTypesStep, AuditTypesStep, DriverTypesStep DEF Next
<1>3. QED
  BY <1>1, <1>2

----------------------------------------------------------------------------
(* Names: what steps do to the records that name orders *)

LEMMA NamesShrink ==
  ASSUME NEW m, NEW book, NEW smaller \in SUBSET book, NEW sides, Names(m, book, sides)
  PROVE Names(m, smaller, sides)
  BY DEF Names

(* A new order under an id that the record does not have.                  *)
LEMMA NamesGrow ==
  ASSUME NEW m, NEW book, NEW sides, NEW o, Names(m, book, sides), o.id # m.id, o.id # m.tp
  PROVE Names(m, book \cup {o}, sides)
  BY DEF Names

(* Losing orders, and falling back to the saved or to no record, keeps the records naming live orders. *)
LEMMA StoreFrame ==
  ASSUME StoreLinks, world' = world, orders' \in SUBSET orders,
         meta' \in {meta, file, None}, file' \in {file, None}
  PROVE StoreLinks'
<1>1. meta' # None => Names(meta', orders', world'.sides)
  BY NamesShrink DEF StoreLinks
<1>2. file' # None => Names(file', orders', world'.sides)
  BY NamesShrink DEF StoreLinks
<1>3. QED
  BY <1>1, <1>2 DEF StoreLinks, Names

(* Saving a record whose names are live keeps the store linked. *)
LEMMA StoreSave ==
  ASSUME StoreLinks, world' = world, orders' = orders, NEW m, Save(m), m # None => Names(m, orders, world.sides)
  PROVE StoreLinks'
<1>1. meta' = m /\ file' \in {m, file}
  BY DEF Save
<1>2. meta' # None => Names(meta', orders', world'.sides)
  BY <1>1
<1>3. file' # None => Names(file', orders', world'.sides)
  BY <1>1 DEF StoreLinks
<1>4. QED
  BY <1>2, <1>3 DEF StoreLinks, Names

(* A job's names stay right when orders leave the book and the tracker forgets some of its own. *)
LEMMA LinkShrink ==
  ASSUME NEW j, NEW book, NEW smaller \in SUBSET book, NEW sides, NEW tr, JobLink(j, book, sides, tr),
         NEW after, after.id = tr.id \/ after.id = 0, after.tp = tr.tp \/ after.tp = 0,
         after.stale \subseteq tr.stale,
         j.pc = "placed" => j.id # 0
  PROVE JobLink(j, smaller, sides, after)
  BY NamesShrink DEF JobLink

(* The tasks when at most t moves, and orders and legs only go.            *)
LEMMA JobFrame ==
  ASSUME JobTypes, JobLinks, world' = world, orders' \in SUBSET orders, NEW t \in Tasks, NEW j, Goto(t, j),
         JobLink(j, orders', world.sides, tracker'),
         tracker'.id = tracker.id \/ tracker'.id = 0, tracker'.tp = tracker.tp \/ tracker'.tp = 0,
         tracker'.stale \subseteq tracker.stale
  PROVE JobLinks'
<1>1. job'[t] = j /\ \A u \in Tasks : u # t => job'[u] = job[u]
  BY DEF Goto, JobTypes
<1>2. \A u \in Tasks : job[u].pc = "placed" => job[u].id # 0
  BY DEF JobTypes, Shape, Ids
<1>3. \A u \in Tasks : JobLink(job[u], orders', world.sides, tracker')
  BY <1>2, LinkShrink DEF JobLinks
<1>4. \A u \in Tasks : JobLink(job'[u], orders', world'.sides, tracker')
  BY <1>1, <1>3
<1>5. QED
  BY <1>4 DEF JobLinks, JobLink, Names, Carries, placedMeta

(* No task moving: losing orders or tracker names keeps every job linked. *)
LEMMA JobKept ==
  ASSUME JobTypes, JobLinks, world' = world, orders' \in SUBSET orders, job' = job,
         tracker'.id = tracker.id \/ tracker'.id = 0, tracker'.tp = tracker.tp \/ tracker'.tp = 0,
         tracker'.stale \subseteq tracker.stale
  PROVE JobLinks'
<1>2. \A u \in Tasks : job[u].pc = "placed" => job[u].id # 0
  BY DEF JobTypes, Shape, Ids
<1>3. \A u \in Tasks : JobLink(job[u], orders', world.sides, tracker')
  BY <1>2, LinkShrink DEF JobLinks
<1>4. \A u \in Tasks : JobLink(job'[u], orders', world'.sides, tracker')
  BY <1>3
<1>5. QED
  BY <1>4 DEF JobLinks, JobLink, Names, Carries, placedMeta

(* An ended task names nothing. *)
LEMMA NoJobLink == ASSUME NEW book, NEW sides, NEW tr PROVE JobLink(NoJob, book, sides, tr)
  BY DEF JobLink, NoJob, Active, Carries

(* A task that finishes keeps every other job linked. *)
LEMMA JobFinish ==
  ASSUME JobTypes, JobLinks, world' = world, orders' \in SUBSET orders, NEW t \in Tasks, Finish(t),
         tracker' = tracker
  PROVE JobLinks'
<1>1. Goto(t, NoJob)
  BY DEF Finish, Goto
<1>2. QED
  BY <1>1, NoJobLink, JobFrame

(* Losing orders keeps the tracker's names linked. *)
LEMMA TrackerFrame ==
  ASSUME TrackerLinks, world' = world, orders' \in SUBSET orders, tracker' = tracker
  PROVE TrackerLinks'
<1>1. tracker'.pc # "idle" => Names(tracker', orders', world'.sides)
  BY NamesShrink DEF TrackerLinks
<1>2. QED
  BY <1>1 DEF TrackerLinks, Names

(* Positions and ids when orders only go, and the position stays on its    *)
(* side or is closed.                                                      *)
LEMMA SideFrame ==
  ASSUME SideLinks, world' = world, orders' \in SUBSET orders, tracker' = tracker,
         pos' # 0 => pos # 0 /\ sideOfAmount(pos') = sideOfAmount(pos),
         job'["driver"].pc # "idle" => job["driver"].pc # "idle" /\ job'["driver"].side = job["driver"].side
  PROVE SideLinks'
  BY DEF SideLinks

(* Moving a task changes that task's job and no other. *)
LEMMA GotoJob ==
  ASSUME JobTypes, NEW t \in Tasks, NEW j, Goto(t, j)
  PROVE job'[t] = j /\ \A u \in Tasks : u # t => job'[u] = job[u]
  BY DEF Goto, JobTypes

(* Finishing a task makes its job idle and changes no other. *)
LEMMA FinishJob ==
  ASSUME JobTypes, NEW t \in Tasks, Finish(t)
  PROVE /\ job'[t] = NoJob /\ job'[t].pc = "idle"
        /\ \A u \in Tasks : u # t => job'[u] = job[u]
  BY DEF Finish, JobTypes, NoJob

(* The tracker's steps and the venue's. *)
LEMMA TrackerLinkedStep ==
  ASSUME Types, Linked, BookAssumption,
         \/ Fill \/ TrackerFlattens \/ recordEntry \/ TrackerCancelsStale \/ TrackerDone
         \/ OrderFires \/ LeftoversCancelled
  PROVE Linked'
<1> USE DEF Types, Linked
<1>a. \A o \in orders : o.id # 0
  BY DEF VenueTypes, Book, Ids
<1>1. CASE Fill
  <2>1. PICK side \in world.sides, stop \in 1 .. world.ticks :
          /\ pos # 0 => side = sideOfAmount(pos)
          /\ tracker.pc = "recorded" => tracker.side = side /\ tracker.stop = stop
          /\ tracker' = [tracker EXCEPT !.pc = "legs", !.side = side, !.stop = stop]
          /\ Venue(pos + side, orders, "none")
    BY <1>1 DEF Fill
  <2>2. /\ tracker'.pc = "legs" /\ tracker'.side = side /\ tracker'.stop = stop
        /\ tracker'.id = tracker.id /\ tracker'.tp = tracker.tp /\ tracker'.stale = tracker.stale
    BY <2>1 DEF TrackerTypes, Entries
  <2>3. /\ orders' = orders /\ pos' = pos + side /\ world' = world /\ job' = job /\ UNCHANGED storeVars
        /\ tracker.pc \in {"idle", "recorded"}
    BY <1>1, <2>1 DEF Fill, Venue
  <2>4. StoreLinks'
    BY <2>3, StoreFrame DEF storeVars
  <2>5. JobLinks'
    BY <2>2, <2>3, JobKept
  <2>6. Names(tracker', orders', world'.sides)
    <3>1. CASE tracker.pc = "idle"
      BY <1>a, <2>2, <2>3, <3>1 DEF Names, TrackerLinks
    <3>2. CASE tracker.pc = "recorded"
      BY <2>1, <2>2, <2>3, <3>2 DEF Names, TrackerLinks
    <3>3. QED
      BY <2>3, <3>1, <3>2
  <2>7. TrackerLinks'
    BY <2>2, <2>6 DEF TrackerLinks, Names
  <2>8. sideOfAmount(pos') = side /\ side \in Sides
    <3>1. side \in Sides
      BY DEF RestTypes
    <3>2. pos \in Int
      BY DEF VenueTypes, BookAssumption
    <3>3. QED
      BY <2>1, <2>3, <3>1, <3>2 DEF sideOfAmount, Sides
  <2>9. SideLinks'
    BY <2>2, <2>3, <2>8 DEF SideLinks
  <2>10. QED
    BY <2>4, <2>5, <2>7, <2>9
<1>3. CASE TrackerFlattens
  <2>1. /\ orders' = {} /\ pos' = 0 /\ world' = world /\ job' = job /\ UNCHANGED storeVars /\ tracker' = NoEntry
    BY <1>3 DEF TrackerFlattens, Venue
  <2>2. tracker'.id = 0 /\ tracker'.tp = 0 /\ tracker'.stale = {} /\ tracker'.pc = "idle"
    BY <2>1 DEF NoEntry
  <2>3. StoreLinks'
    BY <2>1, StoreFrame DEF storeVars
  <2>4. JobLinks'
    BY <2>1, <2>2, JobKept
  <2>5. TrackerLinks'
    BY <2>2 DEF TrackerLinks
  <2>6. SideLinks'
    BY <2>1 DEF SideLinks
  <2>7. QED
    BY <2>3, <2>4, <2>5, <2>6
<1>4. CASE recordEntry
  <2> DEFINE m == [side |-> tracker.side, stop |-> tracker.stop, id |-> tracker.id, tp |-> tracker.tp]
  <2>1. /\ Save(m) /\ orders' = orders /\ pos' = pos /\ world' = world /\ job' = job
        /\ tracker.pc = "placed"
        /\ tracker' = [tracker EXCEPT !.pc = IF tracker.stale = {} THEN "recorded" ELSE "stale"]
    BY <1>4 DEF recordEntry
  <2>2. /\ tracker'.pc # "idle" /\ tracker'.side = tracker.side /\ tracker'.stop = tracker.stop
        /\ tracker'.id = tracker.id /\ tracker'.tp = tracker.tp /\ tracker'.stale = tracker.stale
    BY <2>1 DEF TrackerTypes, Entries
  <2>3. Names(tracker, orders, world.sides)
    BY <2>1 DEF TrackerLinks
  <2>4. Names(m, orders, world.sides)
    BY <2>3 DEF Names
  <2> HIDE DEF m
  <2>5. StoreLinks'
    BY <2>1, <2>4, StoreSave
  <2>6. JobLinks'
    BY <2>1, <2>2, JobKept
  <2>7. TrackerLinks'
    BY <2>1, <2>2, <2>3 DEF TrackerLinks, Names
  <2>8. SideLinks'
    BY <2>1, <2>2 DEF SideLinks
  <2>9. QED
    BY <2>5, <2>6, <2>7, <2>8
<1>5. CASE TrackerCancelsStale
  <2>1. /\ orders' = {o \in orders : o.id \notin tracker.stale} /\ pos' = pos /\ world' = world /\ job' = job
        /\ UNCHANGED storeVars /\ tracker.pc = "stale"
        /\ tracker' = [tracker EXCEPT !.pc = "recorded", !.stale = {}]
    BY <1>5 DEF TrackerCancelsStale, Venue
  <2>2. /\ tracker'.pc # "idle" /\ tracker'.side = tracker.side /\ tracker'.stop = tracker.stop
        /\ tracker'.id = tracker.id /\ tracker'.tp = tracker.tp /\ tracker'.stale = {}
    BY <2>1 DEF TrackerTypes, Entries
  <2>3. orders' \in SUBSET orders
    BY <2>1
  <2>4. StoreLinks'
    BY <2>1, <2>3, StoreFrame DEF storeVars
  <2>5. JobLinks'
    BY <2>1, <2>2, <2>3, JobKept
  <2>6. TrackerLinks'
    BY <2>1, <2>2, <2>3 DEF TrackerLinks, Names
  <2>7. SideLinks'
    BY <2>1, <2>2, <2>3 DEF SideLinks
  <2>8. QED
    BY <2>4, <2>5, <2>6, <2>7
<1>6. CASE TrackerDone
  <2>1. /\ orders' = orders /\ pos' = pos /\ world' = world /\ job' = job /\ UNCHANGED storeVars /\ tracker' = NoEntry
    BY <1>6 DEF TrackerDone, venueVars
  <2>2. tracker'.id = 0 /\ tracker'.tp = 0 /\ tracker'.stale = {} /\ tracker'.pc = "idle"
    BY <2>1 DEF NoEntry
  <2>3. StoreLinks'
    BY <2>1, StoreFrame DEF storeVars
  <2>4. JobLinks'
    BY <2>1, <2>2, JobKept
  <2>5. TrackerLinks'
    BY <2>2 DEF TrackerLinks
  <2>6. SideLinks'
    BY <2>1, <2>2 DEF SideLinks
  <2>7. QED
    BY <2>3, <2>4, <2>5, <2>6
<1>7. CASE OrderFires \/ LeftoversCancelled
  <2>1. /\ orders' \in SUBSET orders /\ pos' = 0 /\ world' = world /\ job' = job /\ UNCHANGED storeVars
        /\ tracker' = tracker
    BY <1>7 DEF OrderFires, LeftoversCancelled, Venue
  <2>2. StoreLinks'
    BY <2>1, StoreFrame DEF storeVars
  <2>3. JobLinks'
    BY <2>1, JobKept
  <2>4. TrackerLinks'
    BY <2>1, TrackerFrame
  <2>5. SideLinks'
    BY <2>1, SideFrame
  <2>6. QED
    BY <2>2, <2>3, <2>4, <2>5
<1>9. QED
  BY <1>1, <1>3, <1>4, <1>5, <1>6, <1>7

(* The tracker's new legs have ids that nothing else names.                *)
LEMMA LegsLinkedStep ==
  ASSUME Types, Linked, BookAssumption, TrackerPlaces
  PROVE Linked'
<1> USE DEF Types, Linked
<1>0. /\ tracker.pc = "legs" /\ pos' = pos /\ world' = world /\ job' = job /\ UNCHANGED storeVars
  BY DEF TrackerPlaces, Venue
<1>a. PICK id \in Lowest(FreshIds) :
         \E tp \in IF May("target") THEN Lowest(FreshIds \ {id}) ELSE {0} :
         /\ tracker' = [tracker EXCEPT !.pc = "placed", !.id = id, !.tp = tp,
                                       !.stale = @ \cup ({tracker.id, tracker.tp} \ {0})]
         /\ Venue(pos, orders \cup {Order(id, "stop", tracker.side, tracker.stop)}
                       \cup (IF tp = 0 THEN {} ELSE {Order(tp, "target", tracker.side, 0)}), "none")
  BY DEF TrackerPlaces
<1>1. PICK tp \in IF May("target") THEN Lowest(FreshIds \ {id}) ELSE {0} :
         /\ tracker' = [tracker EXCEPT !.pc = "placed", !.id = id, !.tp = tp,
                                       !.stale = @ \cup ({tracker.id, tracker.tp} \ {0})]
         /\ Venue(pos, orders \cup {Order(id, "stop", tracker.side, tracker.stop)}
                       \cup (IF tp = 0 THEN {} ELSE {Order(tp, "target", tracker.side, 0)}), "none")
  BY <1>a
<1> DEFINE stop == Order(id, "stop", tracker.side, tracker.stop)
           target == Order(tp, "target", tracker.side, 0)
<1>2. id \in FreshIds /\ (tp = 0 \/ (tp \in FreshIds /\ tp # id)) /\ id # 0 /\ id \in Ids
  BY LowestIn DEF FreshIds, Ids
<1>3. /\ tracker'.pc = "placed" /\ tracker'.side = tracker.side /\ tracker'.stop = tracker.stop
      /\ tracker'.id = id /\ tracker'.tp = tp
      /\ tracker'.stale = tracker.stale \cup ({tracker.id, tracker.tp} \ {0})
  BY <1>1 DEF TrackerTypes, Entries
<1>4. orders' = orders \cup {stop} \/ (tp # 0 /\ orders' = (orders \cup {stop}) \cup {target})
  BY <1>1 DEF Venue
<1>5. /\ stop.id = id /\ stop.kind = "stop" /\ stop.side = tracker.side /\ stop.price = tracker.stop
      /\ target.id = tp /\ target.kind = "target"
  BY DEF Order
<1> HIDE DEF stop, target
<1>6. ASSUME NEW m, Names(m, orders, world.sides), m.id # id, m.tp # id, tp = 0 \/ (m.id # tp /\ m.tp # tp)
      PROVE Names(m, orders', world.sides)
  <2>1. Names(m, orders \cup {stop}, world.sides)
    BY <1>5, <1>6, NamesGrow
  <2>2. tp # 0 => Names(m, (orders \cup {stop}) \cup {target}, world.sides)
    BY <1>5, <1>6, <2>1, NamesGrow
  <2>3. QED
    BY <1>4, <2>1, <2>2
<1>7. /\ \A i \in {id, tp} \ {0} : i \in FreshIds
      /\ \A o \in orders : o.id # 0
  BY <1>2 DEF VenueTypes, Book, Ids
<1>8. StoreLinks'
  <2>1. meta # None => Names(meta, orders', world.sides)
    BY <1>6, <1>2, FreshId DEF StoreLinks
  <2>2. file # None => Names(file, orders', world.sides)
    BY <1>6, <1>2, FreshId DEF StoreLinks
  <2>3. QED
    BY <1>0, <2>1, <2>2 DEF storeVars, StoreLinks, Names
<1>9. JobLinks'
  <2> SUFFICES ASSUME NEW t \in Tasks PROVE JobLink(job[t], orders', world.sides, tracker')
    BY <1>0 DEF JobLinks, JobLink, Names, Carries, placedMeta
  <2>0. JobLink(job[t], orders, world.sides, tracker) /\ Shape(job[t]) /\ job[t] \in JobSet
    BY DEF JobLinks, JobTypes
  <2>1. job[t].pc \in Active => Names(job[t].meta, orders', world.sides)
    BY <1>2, <1>6, <2>0, FreshId DEF JobLink, Shape
  <2>2. Carries(job[t]) => Names(placedMeta(job[t]), orders', world.sides)
    <3> SUFFICES ASSUME Carries(job[t]) PROVE Names(placedMeta(job[t]), orders', world.sides)
      OBVIOUS
    <3>1. /\ job[t].meta \in Metas /\ job[t].meta # None /\ job[t].price \in Ticks /\ job[t].id \in Ids
      BY <2>0 DEF Carries, Shape, Active, JobSet
    <3>2. placedMeta(job[t]).id = job[t].id /\ placedMeta(job[t]).tp = job[t].meta.tp
      BY <2>0, <3>1, PlacedMetaType
    <3>3. Names(placedMeta(job[t]), orders, world.sides)
      BY <2>0 DEF JobLink
    <3>4. /\ job[t].id # id /\ job[t].meta.tp # id
          /\ tp # 0 => job[t].id # tp /\ job[t].meta.tp # tp
      BY <1>2, <3>1, FreshId
    <3>5. QED
      BY <1>6, <3>2, <3>3, <3>4
  <2>3. job[t].pc = "placed" => job[t].id # tracker'.id /\ job[t].id # tracker'.tp /\ job[t].id \notin tracker'.stale
    <3> SUFFICES ASSUME job[t].pc = "placed"
                 PROVE job[t].id # tracker'.id /\ job[t].id # tracker'.tp /\ job[t].id \notin tracker'.stale
      OBVIOUS
    <3>1. job[t].id \in Ids /\ job[t].id # 0
      BY <2>0 DEF Shape, Ids
    <3>2. job[t].id # id /\ job[t].id # tp
      BY <1>2, <3>1, FreshId
    <3>3. QED
      BY <1>3, <2>0, <3>2 DEF JobLink
  <2>4. QED
    BY <2>1, <2>2, <2>3 DEF JobLink
<1>10. TrackerLinks'
  <2>1. tracker.side \in world.sides
    BY <1>0 DEF TrackerLinks, Names
  <2>2. \A o \in orders : o.id # id /\ (tp # 0 => o.id # tp)
    BY <1>2, FreshId
  <2>3. \A o \in orders' : o.id = id => o.kind = "stop" /\ o.side = tracker.side /\ o.price = tracker.stop
    BY <1>2, <1>4, <1>5, <2>2
  <2>4. \A o \in orders' : o.id = tp => o.kind = "target"
    BY <1>2, <1>4, <1>5, <1>7, <2>2
  <2>5. Names(tracker', orders', world.sides)
    BY <1>3, <2>1, <2>3, <2>4 DEF Names
  <2>6. tracker'.id \notin tracker'.stale
    BY <1>2, <1>3, FreshId
  <2>7. QED
    BY <1>0, <1>3, <2>5, <2>6 DEF TrackerLinks, Names
<1>11. SideLinks'
  <2>1. \A o \in orders : o.id # id /\ (tp # 0 => o.id # tp)
    BY <1>2, FreshId
  <2>2. \A o, p \in orders' : o.id = p.id => o = p
    BY <1>2, <1>4, <1>5, <2>1 DEF SideLinks
  <2>3. QED
    BY <1>0, <1>3, <2>2 DEF SideLinks
<1>12. QED
  BY <1>8, <1>9, <1>10, <1>11

(* The steps of a refresh, and the crash. *)
LEMMA RefreshLinkedStep ==
  ASSUME Types, Linked, BookAssumption, RefreshAsk \/ RefreshFails \/ RefreshApply \/ RefreshTurn \/ Crash
  PROVE Linked'
<1> USE DEF Types, Linked
<1>1. CASE RefreshAsk \/ RefreshFails \/ RefreshApply
  <2>1. UNCHANGED <<world, job, tracker, storeVars, venueVars>>
    BY <1>1 DEF RefreshAsk, RefreshFails, RefreshApply
  <2>2. StoreLinks'
    BY <2>1, StoreFrame DEF storeVars, venueVars
  <2>3. JobLinks'
    BY <2>1, JobKept DEF venueVars
  <2>4. TrackerLinks' /\ SideLinks'
    BY <2>1, TrackerFrame, SideFrame DEF venueVars
  <2>5. QED
    BY <2>2, <2>3, <2>4
<1>2. CASE RefreshTurn
  <2>1. UNCHANGED <<world, tracker, venueVars>>
    BY <1>2 DEF RefreshTurn
  <2>2. StoreLinks'
    <3>1. UNCHANGED storeVars \/ Save(None)
      BY <1>2 DEF RefreshTurn
    <3>2. QED
      BY <2>1, <3>1, StoreFrame, StoreSave DEF storeVars, venueVars
  <2>3. JobLinks' /\ (job'["driver"] = job["driver"])
    <3>1. CASE UNCHANGED job
      BY <2>1, <3>1, JobKept DEF venueVars
    <3>2. CASE job' = [job EXCEPT !["audit"].pc = "wait"]
      <4> DEFINE j == [job["audit"] EXCEPT !.pc = "wait"]
      <4>1. Goto("audit", j)
        BY <3>2 DEF Goto
      <4>2. j.pc = "wait"
        BY DEF JobTypes, JobSet, Tasks
      <4> HIDE DEF j
      <4>3. JobLink(j, orders', world.sides, tracker')
        BY <4>2 DEF JobLink, Active, Carries
      <4>4. JobLinks'
        BY <2>1, <4>1, <4>3, JobFrame DEF venueVars, Tasks
      <4>5. QED
        BY <4>1, <4>4, GotoJob DEF Tasks
    <3>3. QED
      BY <1>2, <3>1, <3>2 DEF RefreshTurn
  <2>4. TrackerLinks' /\ SideLinks'
    BY <2>1, <2>3, TrackerFrame, SideFrame DEF venueVars
  <2>5. QED
    BY <2>2, <2>3, <2>4
<1>3. CASE Crash
  <2>1. /\ orders' = orders /\ pos' = pos /\ world' = world /\ job' = [t \in Tasks |-> NoJob]
        /\ meta' = file /\ file' = file /\ tracker' = NoEntry
    BY <1>3 DEF Crash
  <2>2. tracker'.id = 0 /\ tracker'.tp = 0 /\ tracker'.stale = {} /\ tracker'.pc = "idle"
    BY <2>1 DEF NoEntry
  <2>3. StoreLinks'
    BY <2>1, StoreFrame
  <2>4. \A t \in Tasks : job'[t] = NoJob /\ job'[t].pc = "idle"
    BY <2>1 DEF NoJob
  <2>5. JobLinks'
    BY <2>4 DEF JobLinks, JobLink, Active, Carries
  <2>6. TrackerLinks'
    BY <2>2 DEF TrackerLinks
  <2>7. SideLinks'
    BY <2>1, <2>2, <2>4 DEF SideLinks, Tasks
  <2>8. QED
    BY <2>3, <2>5, <2>6, <2>7
<1>4. QED
  BY <1>1, <1>2, <1>3

(* A task that goes on keeps its side. *)
LEMMA SideGoto ==
  ASSUME JobTypes, SideLinks, world' = world, orders' \in SUBSET orders, tracker' = tracker,
         pos' # 0 => pos # 0 /\ sideOfAmount(pos') = sideOfAmount(pos),
         NEW t \in Tasks, NEW j,
         Finish(t) \/ (Goto(t, j) /\ (t = "driver" => job[t].pc # "idle" /\ j.side = job[t].side))
  PROVE SideLinks'
<1>1. job'["driver"].pc # "idle" => job["driver"].pc # "idle" /\ job'["driver"].side = job["driver"].side
  BY GotoJob, FinishJob DEF Tasks
<1>2. QED
  BY <1>1, SideFrame

(* A stop is placed: its id is new to everybody.                           *)
LEMMA GrowLinked ==
  ASSUME Types, Linked, UNCHANGED <<world, pos, tracker, storeVars>>,
         NEW id \in FreshIds, NEW o, o.id = id, orders' = orders \cup {o},
         NEW t \in Tasks, NEW j, Goto(t, j), JobLink(j, orders', world.sides, tracker),
         job[t].pc # "idle", j.side = job[t].side
  PROVE Linked'
<1> USE DEF Types, Linked
<1>1. ASSUME NEW m, Names(m, orders, world.sides), m.id # id, m.tp # id
      PROVE Names(m, orders', world.sides)
  BY <1>1, NamesGrow
<1>2. id # 0 /\ \A p \in orders : p.id # 0 /\ p.id # id
  BY FreshId DEF VenueTypes, Book, Ids
<1>3. StoreLinks'
  <2>1. meta # None => Names(meta, orders', world.sides)
    BY <1>1, FreshId DEF StoreLinks
  <2>2. file # None => Names(file, orders', world.sides)
    BY <1>1, FreshId DEF StoreLinks
  <2>3. QED
    BY <2>1, <2>2 DEF storeVars, StoreLinks, Names
<1>4. ASSUME NEW u \in Tasks PROVE JobLink(job[u], orders', world.sides, tracker)
  <2>0. JobLink(job[u], orders, world.sides, tracker) /\ Shape(job[u]) /\ job[u] \in JobSet
    BY DEF JobLinks, JobTypes
  <2>1. job[u].pc \in Active => Names(job[u].meta, orders', world.sides)
    BY <1>1, <2>0, FreshId DEF JobLink, Shape
  <2>2. Carries(job[u]) => Names(placedMeta(job[u]), orders', world.sides)
    <3> SUFFICES ASSUME Carries(job[u]) PROVE Names(placedMeta(job[u]), orders', world.sides)
      OBVIOUS
    <3>1. /\ job[u].meta \in Metas /\ job[u].meta # None /\ job[u].price \in Ticks /\ job[u].id \in Ids
      BY <2>0 DEF Carries, Shape, Active, JobSet
    <3>2. placedMeta(job[u]).id = job[u].id /\ placedMeta(job[u]).tp = job[u].meta.tp
      BY <2>0, <3>1, PlacedMetaType
    <3>3. Names(placedMeta(job[u]), orders, world.sides)
      BY <2>0 DEF JobLink
    <3>4. job[u].id # id /\ job[u].meta.tp # id
      BY <3>1, FreshId
    <3>5. QED
      BY <1>1, <3>2, <3>3, <3>4
  <2>3. QED
    BY <2>0, <2>1, <2>2 DEF JobLink
<1>5. JobLinks'
  <2>1. \A u \in Tasks : JobLink(job'[u], orders', world'.sides, tracker')
    BY <1>4, GotoJob
  <2>2. QED
    BY <2>1 DEF JobLinks, JobLink, Names, Carries, placedMeta
<1>6. TrackerLinks'
  <2>1. tracker.pc # "idle" => Names(tracker, orders', world.sides)
    BY <1>1, FreshId DEF TrackerLinks
  <2>2. QED
    BY <2>1 DEF TrackerLinks, Names
<1>7. SideLinks'
  <2>1. job'["driver"].pc # "idle" => job["driver"].pc # "idle" /\ job'["driver"].side = job["driver"].side
    BY GotoJob DEF Tasks
  <2>2. \A p, q \in orders' : p.id = q.id => p = q
    BY <1>2 DEF SideLinks
  <2>3. QED
    BY <2>1, <2>2 DEF SideLinks
<1>8. QED
  BY <1>3, <1>5, <1>6, <1>7

(* The steps that both tasks take under the lock.                          *)
LEMMA UnderLockLinkedStep ==
  ASSUME Types, Linked, BookAssumption, NEW t \in Tasks,
         placeWithRetry(t) \/ Placed(t) \/ EmergencyRead(t) \/ EmergencyReduce(t)
  PROVE Linked'
<1> USE DEF Types, Linked
<1>a. /\ Shape(job[t]) /\ job[t] \in JobSet /\ JobLink(job[t], orders, world.sides, tracker)
  BY DEF JobTypes, JobLinks
<1>b. job[t].pc \in Active /\ job[t].pc # "idle"
  BY DEF placeWithRetry, Placed, EmergencyRead, EmergencyReduce, Active
<1>c. /\ job[t].meta \in Metas /\ job[t].meta # None /\ Names(job[t].meta, orders, world.sides)
  BY <1>a, <1>b DEF Shape, JobLink
<1>1. CASE placeWithRetry(t)
  <2>1. job[t].pc = "place" /\ UNCHANGED <<world, storeVars, tracker>>
    BY <1>1 DEF placeWithRetry
  <2>2. PICK id \in Lowest(FreshIds) :
       LET book == orders \cup {Order(id, "stop", job[t].meta.side, job[t].price)} IN
       \/ /\ Goto(t, [job[t] EXCEPT !.pc = "placed", !.id = id])
          /\ Venue(pos, book, "none")
          /\ UNCHANGED faults
       \/ /\ Fault("reject")
          /\ Goto(t, attemptFailed(job[t]))
          /\ UNCHANGED venueVars
       \/ /\ Fault("lost")
          /\ Goto(t, attemptFailed(job[t]))
          /\ Venue(pos, book, "none")
    BY <1>1 DEF placeWithRetry
  <2> DEFINE o == Order(id, "stop", job[t].meta.side, job[t].price)
             j == [job[t] EXCEPT !.pc = "placed", !.id = id]
             f == attemptFailed(job[t])
  <2>3. id \in FreshIds /\ o.id = id /\ o.kind = "stop" /\ o.side = job[t].meta.side /\ o.price = job[t].price
    BY LowestIn DEF Order
  <2>4. j.pc = "placed" /\ j.id = id /\ j.meta = job[t].meta /\ j.price = job[t].price /\ j.side = job[t].side
        /\ job[t].price \in Ticks /\ id \in Ids /\ j \in JobSet
    BY <1>a, <2>1, <2>3, FreshId DEF JobSet, Shape, Steps
  <2>5. /\ f.pc \in {"place", "emergency"} /\ f.meta = job[t].meta /\ f.side = job[t].side
    BY <1>a, <2>1, AttemptResult
  <2> HIDE DEF o, j, f
  <2>6. Names(job[t].meta, orders \cup {o}, world.sides)
    BY <1>c, <2>3, NamesGrow, FreshId
  <2>7. JobLink(f, orders, world.sides, tracker) /\ JobLink(f, orders \cup {o}, world.sides, tracker)
    BY <1>c, <2>5, <2>6 DEF JobLink, Carries
  <2>8. Names(placedMeta(j), orders \cup {o}, world.sides)
    <3>1. /\ placedMeta(j).stop = job[t].price /\ placedMeta(j).id = id
          /\ placedMeta(j).side = job[t].meta.side /\ placedMeta(j).tp = job[t].meta.tp
      BY <1>c, <2>4, PlacedMetaType
    <3>2. id # job[t].meta.tp /\ \A p \in orders : p.id # id
      BY <1>c, <2>3, FreshId
    <3>3. QED
      BY <2>3, <2>6, <3>1, <3>2 DEF Names
  <2>9. JobLink(j, orders \cup {o}, world.sides, tracker)
    BY <2>3, <2>4, <2>6, <2>8, FreshId DEF JobLink
  <2>10. CASE Goto(t, j) /\ Venue(pos, orders \cup {o}, "none")
    <3>1. orders' = orders \cup {o} /\ pos' = pos
      BY <2>10 DEF Venue
    <3>2. QED
      BY <1>b, <2>1, <2>3, <2>4, <2>9, <2>10, <3>1, GrowLinked
  <2>11. CASE Goto(t, f) /\ Venue(pos, orders \cup {o}, "none")
    <3>1. orders' = orders \cup {o} /\ pos' = pos
      BY <2>11 DEF Venue
    <3>2. QED
      BY <1>b, <2>1, <2>3, <2>5, <2>7, <2>11, <3>1, GrowLinked
  <2>12. CASE Goto(t, f) /\ UNCHANGED venueVars
    <3>1. orders' = orders /\ pos' = pos
      BY <2>12 DEF venueVars
    <3>2. StoreLinks'
      BY <2>1, <3>1, StoreFrame DEF storeVars
    <3>3. JobLinks'
      BY <2>1, <2>7, <2>12, <3>1, JobFrame
    <3>4. TrackerLinks' /\ SideLinks'
      BY <1>b, <2>1, <2>5, <2>12, <3>1, TrackerFrame, SideGoto
    <3>5. QED
      BY <3>2, <3>3, <3>4
  <2>13. QED
    BY <2>2, <2>10, <2>11, <2>12 DEF o, j, f
<1>2. CASE Placed(t)
  <2>1. /\ job[t].pc = "placed" /\ UNCHANGED <<world, pos, orders, tracker>> /\ Save(placedMeta(job[t]))
    BY <1>2 DEF Placed
  <2>2. Names(placedMeta(job[t]), orders, world.sides)
    BY <1>a, <2>1 DEF JobLink, Carries
  <2>3. StoreLinks'
    BY <2>1, <2>2, StoreSave
  <2> DEFINE j == [job[t] EXCEPT !.pc = "drop", !.price = 0, !.tries = 0, !.id = 0]
  <2>4. j.pc = "drop" /\ j.meta = job[t].meta /\ j.side = job[t].side
    BY <1>a DEF JobSet
  <2>5. Goto(t, j) \/ Finish(t)
    BY <1>2 DEF Placed
  <2> HIDE DEF j
  <2>6. JobLink(j, orders, world.sides, tracker)
    BY <1>c, <2>4 DEF JobLink, Carries
  <2>7. JobLinks'
    BY <2>1, <2>5, <2>6, JobFrame, JobFinish
  <2>8. TrackerLinks' /\ SideLinks'
    BY <1>b, <2>1, <2>4, <2>5, TrackerFrame, SideGoto
  <2>9. QED
    BY <2>3, <2>7, <2>8
<1>3. CASE EmergencyRead(t) \/ EmergencyReduce(t)
  <2>1. /\ UNCHANGED <<world, storeVars, tracker>> /\ orders' = orders
    BY <1>3 DEF EmergencyRead, EmergencyReduce, Venue, venueVars
  <2>2. pos' # 0 => pos # 0 /\ sideOfAmount(pos') = sideOfAmount(pos)
    <3>1. CASE pos' = pos
      BY <3>1
    <3>2. CASE pos' # pos
      <4>1. EmergencyReduce(t) /\ ReduceOnlyAccepted(job[t].meta.side, job[t].qty)
            /\ pos' = pos - job[t].meta.side * job[t].qty /\ job[t].pc = "reduce"
        BY <1>3, <3>2 DEF EmergencyRead, EmergencyReduce, Venue, venueVars
      <4>2. /\ job[t].qty \in Nat /\ pos \in Int /\ job[t].meta.side \in Sides /\ MaxQty \in Nat
            /\ pos \in -MaxQty .. MaxQty
        BY <1>a, <1>c, <4>1 DEF Shape, VenueTypes, JobSet, Metas, BookAssumption
      <4>3. sideOfAmount(pos) = job[t].meta.side /\ job[t].qty <= Size(pos)
        BY <4>1 DEF ReduceOnlyAccepted
      <4>4. pos' # 0 => sideOfAmount(pos') = job[t].meta.side
        BY <4>1, <4>2, <4>3, ReduceLeaves
      <4>5. QED
        BY <4>2, <4>3, <4>4, SideValues DEF Sides
    <3>3. QED
      BY <3>1, <3>2
  <2>3. \/ Finish(t)
        \/ \E j : Goto(t, j) /\ j.pc \in {"drop", "reduce"} /\ j.meta = job[t].meta /\ j.side = job[t].side
    <3>1. ASSUME NEW x PROVE
            /\ [job[t] EXCEPT !.pc = "drop", !.price = 0].pc = "drop"
            /\ [job[t] EXCEPT !.pc = "drop", !.price = 0].meta = job[t].meta
            /\ [job[t] EXCEPT !.pc = "drop", !.price = 0].side = job[t].side
            /\ [job[t] EXCEPT !.pc = "reduce", !.qty = x].pc = "reduce"
            /\ [job[t] EXCEPT !.pc = "reduce", !.qty = x].meta = job[t].meta
            /\ [job[t] EXCEPT !.pc = "reduce", !.qty = x].side = job[t].side
            /\ [job[t] EXCEPT !.pc = "drop", !.price = 0, !.qty = 0].pc = "drop"
            /\ [job[t] EXCEPT !.pc = "drop", !.price = 0, !.qty = 0].meta = job[t].meta
            /\ [job[t] EXCEPT !.pc = "drop", !.price = 0, !.qty = 0].side = job[t].side
      BY <1>a DEF JobSet
    <3>2. \/ Finish(t)
          \/ Goto(t, [job[t] EXCEPT !.pc = "drop", !.price = 0])
          \/ Goto(t, [job[t] EXCEPT !.pc = "reduce", !.qty = Size(raw')])
          \/ Goto(t, [job[t] EXCEPT !.pc = "drop", !.price = 0, !.qty = 0])
      BY <1>3 DEF EmergencyRead, EmergencyReduce
    <3>3. QED
      BY <3>1, <3>2
  <2>4. StoreLinks'
    BY <2>1, StoreFrame DEF storeVars
  <2>5. JobLinks' /\ SideLinks'
    <3>1. CASE Finish(t)
      BY <2>1, <2>2, <3>1, JobFinish, SideGoto
    <3>2. ASSUME NEW j, Goto(t, j), j.pc \in {"drop", "reduce"}, j.meta = job[t].meta, j.side = job[t].side
          PROVE JobLinks' /\ SideLinks'
      <4>1. JobLink(j, orders, world.sides, tracker)
        BY <1>c, <3>2 DEF JobLink, Carries
      <4>2. QED
        BY <1>b, <2>1, <2>2, <3>2, <4>1, JobFrame, SideGoto
    <3>3. QED
      BY <2>3, <3>1, <3>2
  <2>6. TrackerLinks'
    BY <2>1, TrackerFrame
  <2>7. QED
    BY <2>4, <2>5, <2>6
<1>4. QED
  BY <1>1, <1>2, <1>3

(* The audit's own steps: it finds a stop of the record's side, and the id *)
(* it carries stays that stop's.                                           *)
LEMMA AuditLinkedStep ==
  ASSUME Types, Linked, BookAssumption, AuditStarts \/ AuditAdopts \/ AuditConfirms \/ AuditConfirmed
  PROVE Linked'
<1> USE DEF Types, Linked
<1>a. /\ Shape(job["audit"]) /\ job["audit"] \in JobSet /\ "audit" \in Tasks
      /\ JobLink(job["audit"], orders, world.sides, tracker)
  BY DEF JobTypes, JobLinks, Tasks
<1>b. UNCHANGED <<world, tracker, pos, orders>>
  BY DEF AuditStarts, AuditAdopts, AuditConfirms, AuditConfirmed, venueVars
<1>c. TrackerLinks'
  BY <1>b, TrackerFrame
<1>1. CASE AuditStarts
  <2>1. StoreLinks'
    BY <1>1, <1>b, StoreFrame DEF AuditStarts, storeVars
  <2>2. CASE Finish("audit")
    BY <1>a, <1>b, <1>c, <2>1, <2>2, JobFinish, SideGoto
  <2>3. ASSUME meta # None,
               NEW o \in IF StopsOf(meta.side, orders) = {} THEN {NoOrder} ELSE StopsOf(meta.side, orders),
               Goto("audit", [job["audit"] EXCEPT !.pc = "orders", !.meta = meta, !.id = o.id, !.price = o.price])
        PROVE Linked'
    <3> DEFINE j == [job["audit"] EXCEPT !.pc = "orders", !.meta = meta, !.id = o.id, !.price = o.price]
    <3>1. j.pc = "orders" /\ j.meta = meta /\ j.id = o.id /\ j.price = o.price
      BY <1>a DEF JobSet
    <3>2. meta \in Metas /\ Names(meta, orders, world.sides)
      BY <2>3 DEF StoreTypes, StoreLinks
    <3> HIDE DEF j
    <3>3. Carries(j) => Names(placedMeta(j), orders, world.sides)
      <4> SUFFICES ASSUME Carries(j) PROVE Names(placedMeta(j), orders, world.sides)
        OBVIOUS
      <4>1. o.id # 0
        BY <3>1 DEF Carries
      <4>2. o \in orders /\ o.kind = "stop" /\ o.side = meta.side
        BY <2>3, <4>1 DEF NoOrder, Order, StopsOf
      <4>3. /\ placedMeta(j).stop = o.price /\ placedMeta(j).id = o.id
            /\ placedMeta(j).side = meta.side /\ placedMeta(j).tp = meta.tp
        BY <3>1, <3>2 DEF placedMeta, Metas
      <4>4. QED
        BY <3>2, <4>2, <4>3 DEF Names, SideLinks
    <3>4. JobLink(j, orders, world.sides, tracker)
      BY <3>1, <3>2, <3>3 DEF JobLink
    <3>5. JobLinks'
      BY <1>a, <1>b, <2>3, <3>4, JobFrame DEF j
    <3>6. SideLinks'
      BY <1>a, <1>b, <2>3, SideGoto
    <3>7. QED
      BY <1>c, <2>1, <3>5, <3>6
  <2>4. QED
    BY <1>1, <2>2, <2>3 DEF AuditStarts
<1>2. CASE AuditAdopts
  <2>1. Finish("audit") /\ Carries(job["audit"])
    BY <1>2 DEF AuditAdopts, Carries
  <2>2. Names(placedMeta(job["audit"]), orders, world.sides)
    BY <1>a, <2>1 DEF JobLink
  <2>3. StoreLinks'
    <3>1. UNCHANGED storeVars \/ Save(placedMeta(job["audit"]))
      BY <1>2 DEF AuditAdopts
    <3>2. QED
      BY <1>b, <2>2, <3>1, StoreFrame, StoreSave DEF storeVars
  <2>4. QED
    BY <1>a, <1>b, <1>c, <2>1, <2>3, JobFinish, SideGoto
<1>3. CASE AuditConfirms \/ AuditConfirmed
  <2>1. job["audit"].pc \in {"orders", "confirm"}
    BY <1>3 DEF AuditConfirms, AuditConfirmed
  <2>2. Names(job["audit"].meta, orders, world.sides)
    BY <1>a, <2>1 DEF JobLink, Active
  <2>3. StoreLinks'
    <3>1. UNCHANGED storeVars \/ Save(None)
      BY <1>3 DEF AuditConfirms, AuditConfirmed
    <3>2. QED
      BY <1>b, <3>1, StoreFrame, StoreSave DEF storeVars
  <2>4. CASE Finish("audit")
    BY <1>a, <1>b, <1>c, <2>3, <2>4, JobFinish, SideGoto
  <2>5. ASSUME NEW j, Goto("audit", j), j.pc \in {"confirm", "place"}, j.meta = job["audit"].meta
        PROVE Linked'
    <3>1. JobLink(j, orders, world.sides, tracker)
      BY <2>2, <2>5 DEF JobLink, Carries
    <3>2. QED
      BY <1>a, <1>b, <1>c, <2>3, <2>5, <3>1, JobFrame, SideGoto
  <2>6. ASSUME NEW x PROVE
          /\ [job["audit"] EXCEPT !.pc = "confirm", !.qty = pos].pc = "confirm"
          /\ [job["audit"] EXCEPT !.pc = "confirm", !.qty = pos].meta = job["audit"].meta
          /\ [job["audit"] EXCEPT !.pc = "place", !.price = x, !.qty = 0].pc = "place"
          /\ [job["audit"] EXCEPT !.pc = "place", !.price = x, !.qty = 0].meta = job["audit"].meta
    BY <1>a DEF JobSet
  <2>7. \/ Finish("audit")
        \/ Goto("audit", [job["audit"] EXCEPT !.pc = "confirm", !.qty = pos])
        \/ Goto("audit", [job["audit"] EXCEPT !.pc = "place", !.price = job["audit"].meta.stop, !.qty = 0])
    BY <1>3 DEF AuditConfirms, AuditConfirmed
  <2>8. QED
    BY <2>4, <2>5, <2>6, <2>7
<1>4. QED
  BY <1>1, <1>2, <1>3

(* The driver's own steps. *)
LEMMA DriverLinkedStep ==
  ASSUME Types, Linked, BookAssumption,
         \/ DriverMoves \/ DriverReduces \/ ReduceStarts \/ Reduced
         \/ UpdateStarts \/ CancelStop \/ DropTarget \/ Dropped
  PROVE Linked'
<1> USE DEF Types, Linked
<1>a. /\ Shape(job["driver"]) /\ job["driver"] \in JobSet /\ "driver" \in Tasks
      /\ JobLink(job["driver"], orders, world.sides, tracker)
  BY DEF JobTypes, JobLinks, Tasks
<1>b. UNCHANGED <<world, tracker>> /\ orders' \in SUBSET orders
  BY DEF DriverMoves, DriverReduces, ReduceStarts, Reduced, UpdateStarts, CancelStop, DropTarget, Dropped,
         venueVars, Venue
<1>c. TrackerLinks'
  BY <1>b, TrackerFrame
<1>d. Dropped \/ UNCHANGED storeVars
  BY DEF DriverMoves, DriverReduces, ReduceStarts, Reduced, UpdateStarts, CancelStop, DropTarget
<1>e. UNCHANGED storeVars => StoreLinks'
  BY <1>b, StoreFrame DEF storeVars
<1>f. ReduceStarts \/ pos' = pos
  BY DEF DriverMoves, DriverReduces, Reduced, UpdateStarts, CancelStop, DropTarget, Dropped, venueVars, Venue
<1>1. CASE DriverMoves \/ DriverReduces
  <2>1. /\ meta # None /\ orders' = orders /\ pos' = pos /\ job["driver"].pc = "idle" /\ UNCHANGED storeVars
    BY <1>1 DEF DriverMoves, DriverReduces, venueVars
  <2>2. meta.side \in world.sides
    BY <2>1 DEF StoreLinks, Names
  <2>3. NoJob \in JobSet
    BY NoJobShape DEF Shape
  <2>4. PICK j : Goto("driver", j) /\ j.pc = "wait" /\ j.side = meta.side
    <3> DEFINE Move(price, drop) == [NoJob EXCEPT !.pc = "wait", !.side = meta.side, !.price = price, !.drop = drop]
               Less(qty) == [NoJob EXCEPT !.pc = "wait", !.side = meta.side, !.qty = qty]
    <3>1. \A price, drop : Move(price, drop).pc = "wait" /\ Move(price, drop).side = meta.side
      BY <2>3 DEF JobSet
    <3>2. \A qty : Less(qty).pc = "wait" /\ Less(qty).side = meta.side
      BY <2>3 DEF JobSet
    <3>3. \/ \E price, drop : Goto("driver", Move(price, drop))
          \/ \E qty : Goto("driver", Less(qty))
      BY <1>1 DEF DriverMoves, DriverReduces
    <3> HIDE DEF Move, Less
    <3>4. QED
      BY Zenon, <3>1, <3>2, <3>3
  <2>5. JobLink(j, orders', world.sides, tracker')
    BY <2>4 DEF JobLink, Active, Carries
  <2>6. JobLinks'
    BY <1>a, <1>b, <2>4, <2>5, JobFrame
  <2>7. job'["driver"] = j
    BY <1>a, <2>4, GotoJob
  <2>8. SideLinks'
    BY <1>b, <2>1, <2>2, <2>4, <2>7 DEF SideLinks
  <2>9. QED
    BY <1>c, <1>e, <2>1, <2>6, <2>8
<1>2. CASE ReduceStarts
  <2>1. job["driver"].pc = "wait" /\ UNCHANGED storeVars
    BY <1>2 DEF ReduceStarts, Acquire
  <2>2. pos' # 0 => pos # 0 /\ sideOfAmount(pos') = sideOfAmount(pos)
    <3>1. CASE pos' = pos
      BY <3>1
    <3>2. CASE pos' # pos
      <4>1. PICK executed \in 1 .. job["driver"].qty :
              /\ ReduceOnlyAccepted(job["driver"].side, job["driver"].qty)
              /\ pos' = pos - job["driver"].side * executed
        BY <1>2, <3>2 DEF ReduceStarts, Venue, venueVars
      <4>2. /\ executed \in Nat /\ pos \in Int /\ job["driver"].side \in Sides /\ MaxQty \in Nat
            /\ pos \in -MaxQty .. MaxQty /\ job["driver"].qty \in Int
        BY <1>a, <4>1 DEF VenueTypes, JobSet, BookAssumption
      <4>3. sideOfAmount(pos) = job["driver"].side /\ executed <= Size(pos)
        BY <4>1, <4>2, SideValues DEF ReduceOnlyAccepted
      <4>4. pos' # 0 => sideOfAmount(pos') = job["driver"].side
        BY <4>1, <4>2, <4>3, ReduceLeaves
      <4>5. QED
        BY <4>2, <4>3, <4>4, SideValues DEF Sides
    <3>3. QED
      BY <3>1, <3>2
  <2> DEFINE j(executed) == [job["driver"] EXCEPT !.pc = "reduced", !.qty = executed]
  <2>3. \A x : j(x).pc = "reduced" /\ j(x).side = job["driver"].side
    BY <1>a DEF JobSet
  <2>4. Finish("driver") \/ \E x : Goto("driver", j(x))
    BY <1>2 DEF ReduceStarts
  <2> HIDE DEF j
  <2>5. \A x : JobLink(j(x), orders', world.sides, tracker')
    BY <2>3 DEF JobLink, Active, Carries
  <2>6. JobLinks' /\ SideLinks'
    <3>1. CASE Finish("driver")
      BY <1>a, <1>b, <2>2, <3>1, JobFinish, SideGoto
    <3>2. ASSUME NEW x, Goto("driver", j(x)) PROVE JobLinks' /\ SideLinks'
      <4>1. JobLink(j(x), orders', world.sides, tracker') /\ j(x).side = job["driver"].side
        BY <2>3, <2>5
      <4>2. JobLinks'
        BY <1>a, <1>b, <3>2, <4>1, JobFrame
      <4>3. SideLinks'
        BY <1>a, <1>b, <2>1, <2>2, <3>2, <4>1, SideGoto
      <4>4. QED
        BY <4>2, <4>3
    <3>3. QED
      BY <2>4, <3>1, <3>2
  <2>7. QED
    BY <1>c, <1>e, <2>1, <2>6
<1>3. CASE Reduced \/ Dropped
  <2>1. Finish("driver") /\ orders' = orders /\ pos' = pos
    BY <1>3 DEF Reduced, Dropped, venueVars
  <2>2. StoreLinks'
    <3>1. CASE UNCHANGED storeVars
      BY <1>e, <3>1
    <3>2. CASE Dropped
      <4>1. /\ Save([job["driver"].meta EXCEPT !.tp = 0]) /\ job["driver"].pc = "dropped"
        BY <3>2 DEF Dropped
      <4>2. job["driver"].meta \in Metas /\ Names(job["driver"].meta, orders, world.sides)
        BY <1>a, <4>1 DEF Shape, Active, JobLink
      <4>3. \A o \in orders : o.id # 0
        BY DEF VenueTypes, Book, Ids
      <4>4. Names([job["driver"].meta EXCEPT !.tp = 0], orders, world.sides)
        BY <4>2, <4>3 DEF Names, Metas
      <4>5. QED
        BY <1>b, <2>1, <4>1, <4>4, StoreSave
    <3>3. QED
      BY <1>d, <3>1, <3>2
  <2>3. QED
    BY <1>a, <1>b, <1>c, <2>1, <2>2, JobFinish, SideGoto
<1>4. CASE UpdateStarts \/ CancelStop
  <2>1. job["driver"].pc = "wait" /\ UNCHANGED storeVars /\ pos' = pos
    BY <1>4, <1>f DEF UpdateStarts, CancelStop, Acquire, venueVars, Venue
  <2>2. ASSUME NEW x PROVE
          /\ [job["driver"] EXCEPT !.pc = "drop", !.meta = meta, !.price = 0].pc = "drop"
          /\ [job["driver"] EXCEPT !.pc = "drop", !.meta = meta, !.price = 0].meta = meta
          /\ [job["driver"] EXCEPT !.pc = "drop", !.meta = meta, !.price = 0].side = job["driver"].side
          /\ [job["driver"] EXCEPT !.pc = "place", !.meta = meta].pc = "place"
          /\ [job["driver"] EXCEPT !.pc = "place", !.meta = meta].meta = meta
          /\ [job["driver"] EXCEPT !.pc = "place", !.meta = meta].side = job["driver"].side
    BY <1>a DEF JobSet
  <2>3. \/ Finish("driver")
        \/ /\ meta # None
           /\ \/ Goto("driver", [job["driver"] EXCEPT !.pc = "drop", !.meta = meta, !.price = 0])
              \/ Goto("driver", [job["driver"] EXCEPT !.pc = "place", !.meta = meta])
    BY <1>4 DEF UpdateStarts, CancelStop
  <2>4. CASE Finish("driver")
    BY <1>a, <1>b, <1>c, <1>e, <2>1, <2>4, JobFinish, SideGoto
  <2>5. ASSUME meta # None,
               NEW j, Goto("driver", j), j.pc \in {"drop", "place"}, j.meta = meta, j.side = job["driver"].side
        PROVE Linked'
    <3>1. Names(meta, orders', world.sides)
      BY <1>b, <2>5, NamesShrink DEF StoreLinks
    <3>2. JobLink(j, orders', world.sides, tracker')
      BY <2>5, <3>1 DEF JobLink, Carries
    <3>3. JobLinks'
      BY <1>a, <1>b, <2>5, <3>2, JobFrame
    <3>4. SideLinks'
      BY <1>a, <1>b, <2>1, <2>5, SideGoto
    <3>5. QED
      BY <1>c, <1>e, <2>1, <3>3, <3>4
  <2>6. QED
    BY <2>2, <2>3, <2>4, <2>5
<1>5. CASE DropTarget
  <2>1. job["driver"].pc = "drop" /\ UNCHANGED storeVars /\ pos' = pos
    BY <1>5, <1>f DEF DropTarget, ReduceStarts, Acquire, venueVars, Venue
  <2>2. job["driver"].meta # None /\ Names(job["driver"].meta, orders, world.sides)
    BY <1>a, <2>1 DEF Shape, Active, JobLink
  <2> DEFINE m == IF meta = None THEN job["driver"].meta ELSE meta
             j == [job["driver"] EXCEPT !.pc = "dropped", !.meta = m]
  <2>3. Names(m, orders, world.sides)
    BY <2>2 DEF StoreLinks
  <2> HIDE DEF m
  <2>4. j.pc = "dropped" /\ j.meta = m /\ j.side = job["driver"].side
    BY <1>a DEF JobSet
  <2>5. Finish("driver") \/ Goto("driver", j)
    BY <1>5 DEF DropTarget, m
  <2> HIDE DEF j
  <2>6. JobLink(j, orders', world.sides, tracker')
    BY <1>b, <2>3, <2>4, NamesShrink DEF JobLink, Carries
  <2>7. JobLinks'
    BY <1>a, <1>b, <2>5, <2>6, JobFrame, JobFinish
  <2>8. SideLinks'
    BY <1>a, <1>b, <2>1, <2>4, <2>5, SideGoto
  <2>9. QED
    BY <1>c, <1>e, <2>1, <2>7, <2>8
<1>6. QED
  BY <1>1, <1>2, <1>3, <1>4, <1>5

(* Every step keeps the names right. *)
LEMMA LinkedStep == Types /\ Linked /\ [Next]_vars => Linked'
<1> USE BookAssumption
<1> SUFFICES ASSUME Types, Linked, [Next]_vars PROVE Linked'
  OBVIOUS
<1>1. CASE UNCHANGED vars
  <2>1. UNCHANGED <<world, tracker, pos, orders, job, storeVars>>
    BY <1>1 DEF vars, storeVars
  <2>2. StoreLinks' /\ JobLinks' /\ TrackerLinks' /\ SideLinks'
    BY <2>1, StoreFrame, JobKept, TrackerFrame, SideFrame DEF Types, Linked, storeVars
  <2>3. QED
    BY <2>2 DEF Linked
<1>2. CASE Next
  BY <1>2, TrackerLinkedStep, LegsLinkedStep, RefreshLinkedStep, UnderLockLinkedStep, AuditLinkedStep, DriverLinkedStep
     DEF Next
<1>3. QED
  BY <1>1, <1>2

----------------------------------------------------------------------------
(* Stops: who works on a position without one, and how tight it is *)

LEMMA TighterOrder ==
  ASSUME NEW s \in Sides, NEW a \in Int, NEW b \in Int, NEW c \in Int
  PROVE /\ ~Tighter(s, a, a)
        /\ ~Tighter(s, a, b) /\ Tighter(s, c, b) => ~Tighter(s, a, c)
<1>1. CASE s = 1
  BY <1>1 DEF Tighter
<1>2. CASE s = -1
  BY <1>2 DEF Tighter
<1>3. QED
  BY <1>1, <1>2 DEF Sides

(* On one side everything is on that side. *)
LEMMA OneSide ==
  ASSUME RestTypes, Steady, NEW a \in world.sides, NEW b \in world.sides
  PROVE a = b
<1>1. world.sides \in SUBSET Sides
  BY DEF RestTypes
<1>2. IsFiniteSet(Sides)
  <2>1. IsFiniteSet({-1}) /\ Sides = {-1} \cup {1}
    BY FS_Singleton DEF Sides
  <2>2. QED
    BY <2>1, FS_AddElement
<1>3. IsFiniteSet(world.sides)
  BY <1>1, <1>2, FS_Subset
<1>4. PICK x : world.sides = {x}
  BY <1>3, FS_Singleton DEF Steady
<1>5. QED
  BY <1>4

(* A step that leaves the position, its histories, its lasting stops, the  *)
(* tracker's duty and the driver's work as they are.                       *)
LEMMA GuardFrame ==
  ASSUME Guarded, world' = world, excuse' = excuse,
         pos' = pos \/ (pos # 0 /\ pos' # 0 /\ sideOfAmount(pos') = sideOfAmount(pos)),
         \A o \in orders : Lasting(o) => o \in orders' /\ o.id \notin tracker'.stale,
         tracker.pc = "legs" => tracker'.pc = "legs",
         job["driver"].pc \in {"place", "emergency", "reduce"} => job'["driver"] = job["driver"]
  PROVE Guarded'
<1>1. CASE pos = 0
  BY <1>1 DEF Guarded
<1>2. CASE pos # 0
  <2>1. pos' # 0 /\ sideOfAmount(pos') = sideOfAmount(pos)
    BY <1>2
  <2> SUFFICES ASSUME excuse = "none"
               PROVE tracker'.pc = "legs" \/ Replacing' \/ Closing' \/ \E o \in orders' : Lasting(o)'
    BY <2>1 DEF Guarded
  <2>2. tracker.pc = "legs" \/ Replacing \/ Closing \/ \E o \in orders : Lasting(o)
    BY <1>2 DEF Guarded
  <2>3. Replacing => Replacing'
    BY <2>1 DEF Replacing
  <2>4. Closing => Closing'
    BY DEF Closing
  <2>5. \A o \in orders : Lasting(o) => o \in orders' /\ Lasting(o)'
    BY <2>1 DEF Lasting, StopsOf
  <2>6. QED
    BY <2>2, <2>3, <2>4, <2>5
<1>3. QED
  BY <1>1, <1>2

(* The floor of the stop is kept by a step that keeps the lasting stops and the position's side. *)
LEMMA KeptFrame ==
  ASSUME Kept, world' = world, floor' = floor,
         pos' = pos \/ (pos # 0 /\ pos' # 0 /\ sideOfAmount(pos') = sideOfAmount(pos)),
         \A o \in orders : Lasting(o) => o \in orders' /\ o.id \notin tracker'.stale,
         job["driver"].pc \in {"place", "emergency", "reduce"} => job'["driver"] = job["driver"]
  PROVE Kept'
<1>1. CASE pos = 0
  BY <1>1 DEF Kept
<1>2. CASE pos # 0
  <2>1. pos' # 0 /\ sideOfAmount(pos') = sideOfAmount(pos)
    BY <1>2
  <2>2. Steady' = Steady
    BY DEF Steady
  <2>3. Replacing => Replacing' /\ job'["driver"] = job["driver"]
    BY <2>1 DEF Replacing
  <2>4. Closing => Closing'
    BY DEF Closing
  <2>5. \A o \in orders : Lasting(o) => o \in orders' /\ Lasting(o)'
    BY <2>1 DEF Lasting, StopsOf
  <2>6. QED
    BY <2>1, <2>2, <2>3, <2>4, <2>5 DEF Kept
<1>3. QED
  BY <1>1, <1>2

(* A closed position needs nothing. *)
LEMMA FlatFine ==
  ASSUME pos' = 0, excuse' = "none", floor' = 0
  PROVE Guarded' /\ Kept'
  BY DEF Guarded, Kept

(* Venue, when orders only go. *)
LEMMA VenueGoes ==
  ASSUME NEW p, NEW book \in SUBSET orders, NEW why, Venue(p, book, why)
  PROVE /\ pos' = p /\ orders' = book
        /\ p = 0 => excuse' = "none" /\ floor' = 0
        /\ p # 0 => /\ excuse' = IF why # "none" THEN why ELSE excuse
                    /\ floor' = IF why = "emergency" THEN 0 ELSE floor
<1>1. StopsOf(sideOfAmount(p), book \ orders) = {}
  BY DEF StopsOf
<1>2. QED
  BY <1>1 DEF Venue

(* After an emergency close the position is closed or there is an excuse.  *)
LEMMA EmergencyFine ==
  ASSUME NEW p, Venue(p, orders, "emergency")
  PROVE Guarded' /\ Kept'
<1>1. /\ pos' = p
      /\ p = 0 => excuse' = "none" /\ floor' = 0
      /\ p # 0 => excuse' = "emergency" /\ floor' = 0
  BY VenueGoes
<1>2. QED
  BY <1>1 DEF Guarded, Kept

(* A stop that is on record and rests raises the floor to itself.          *)
LEMMA RaiseFine ==
  ASSUME Types, Kept, BookAssumption, UNCHANGED <<world, pos, orders>>,
         NEW id, NEW stop \in Ticks, Raise(id, stop),
         id \notin tracker'.stale, tracker'.stale = tracker.stale,
         job["driver"].pc \in {"place", "emergency", "reduce"} => job'["driver"] = job["driver"]
  PROVE Kept'
<1>1. CASE floor' = floor
  BY <1>1, KeptFrame DEF Lasting, StopsOf
<1>2. CASE floor' # floor
  <2>1. PICK o \in orders : o = Order(id, "stop", sideOfAmount(pos), stop) /\ floor' = stop
    BY <1>2 DEF Raise
  <2>2. o.id = id /\ o.kind = "stop" /\ o.side = sideOfAmount(pos) /\ o.price = stop
    BY <2>1 DEF Order
  <2>3. sideOfAmount(pos) \in Sides
    BY <2>1, <2>2 DEF Types, VenueTypes, Book
  <2>4. pos # 0
    BY <2>3 DEF sideOfAmount, Sides
  <2>5. stop \in Int
    BY DEF Ticks, BookAssumption
  <2>6. ~Tighter(sideOfAmount(pos), stop, stop)
    BY <2>3, <2>5, TighterOrder
  <2>7. o \in orders' /\ o \in StopsOf(sideOfAmount(pos'), orders') /\ o.id \notin tracker'.stale
    BY <2>1, <2>2 DEF StopsOf
  <2>8. Lasting(o)'
    BY <2>7 DEF Lasting
  <2>9. ~Tighter(sideOfAmount(pos'), floor', o.price)
    BY <2>1, <2>2, <2>6
  <2>10. QED
    BY <2>4, <2>7, <2>8, <2>9 DEF Kept
<1>3. QED
  BY <1>1, <1>2

(* The tracker's steps and the venue's. *)
LEMMA TrackerStopsStep ==
  ASSUME Types, Linked, Guarded, Kept, BookAssumption,
         \/ Fill \/ TrackerPlaces \/ TrackerFlattens \/ recordEntry \/ TrackerCancelsStale \/ TrackerDone
         \/ OrderFires \/ LeftoversCancelled
  PROVE Guarded' /\ Kept'
<1>a. pos \in Int
  BY DEF Types, VenueTypes, BookAssumption
<1>1. CASE Fill
  <2>1. PICK side \in world.sides, stop \in 1 .. world.ticks :
          /\ pos # 0 => side = sideOfAmount(pos)
          /\ tracker' = [tracker EXCEPT !.pc = "legs", !.side = side, !.stop = stop]
          /\ Venue(pos + side, orders, "none")
    BY <1>1 DEF Fill
  <2>2. world' = world /\ job' = job
    BY <1>1 DEF Fill
  <2>3. side \in Sides
    BY DEF Types, RestTypes
  <2>4. pos + side # 0 /\ sideOfAmount(pos + side) = side
    BY <1>a, <2>1, <2>3 DEF sideOfAmount, Sides
  <2>5. pos' = pos + side /\ orders' = orders /\ excuse' = excuse /\ floor' = floor
    BY <2>1, <2>4, VenueGoes
  <2>6. tracker'.pc = "legs" /\ tracker'.stale = tracker.stale
    BY <2>1 DEF Types, TrackerTypes, Entries
  <2>7. Guarded'
    BY <2>4, <2>5, <2>6 DEF Guarded
  <2>8. Kept'
    <3>1. CASE pos = 0
      <4>1. floor' = 0
        BY <2>5, <3>1 DEF Kept
      <4>2. QED
        BY <4>1 DEF Kept
    <3>2. CASE pos # 0
      BY <2>1, <2>2, <2>4, <2>5, <2>6, <3>2, KeptFrame DEF Lasting
    <3>3. QED
      BY <3>1, <3>2
  <2>9. QED
    BY <2>7, <2>8
<1>2. CASE TrackerPlaces
  <2>0. tracker.pc = "legs" /\ world' = world /\ job' = job
    BY <1>2 DEF TrackerPlaces
  <2>1. PICK id \in Lowest(FreshIds) :
         \E tp \in IF May("target") THEN Lowest(FreshIds \ {id}) ELSE {0} :
         /\ tracker' = [tracker EXCEPT !.pc = "placed", !.id = id, !.tp = tp,
                                       !.stale = @ \cup ({tracker.id, tracker.tp} \ {0})]
         /\ Venue(pos, orders \cup {Order(id, "stop", tracker.side, tracker.stop)}
                       \cup (IF tp = 0 THEN {} ELSE {Order(tp, "target", tracker.side, 0)}), "none")
    BY <1>2 DEF TrackerPlaces
  <2>2. PICK o : o = Order(id, "stop", tracker.side, tracker.stop)
    OBVIOUS
  <2>3. o.id = id /\ o.kind = "stop" /\ o.side = tracker.side /\ o.price = tracker.stop
    BY <2>2 DEF Order
  <2>4. /\ pos' = pos /\ orders \subseteq orders' /\ o \in orders'
        /\ pos = 0 => excuse' = "none" /\ floor' = 0
        /\ pos # 0 => floor' = floor
    BY <2>1, <2>2 DEF Venue
  <2>5. tracker'.stale = tracker.stale \cup ({tracker.id, tracker.tp} \ {0})
    BY <2>1 DEF Types, TrackerTypes, Entries
  <2>6. CASE pos = 0
    BY <2>4, <2>6, FlatFine
  <2>7. CASE pos # 0
    <3>1. tracker.side = sideOfAmount(pos) /\ Names(tracker, orders, world.sides)
      BY <2>0, <2>7 DEF Linked, SideLinks, TrackerLinks
    <3>2. id \notin tracker'.stale
      BY <2>1, <2>5, LowestIn, FreshId
    <3>3. Lasting(o)'
      BY <2>3, <2>4, <3>1, <3>2 DEF Lasting, StopsOf
    <3>4. Guarded'
      BY <2>4, <2>7, <3>3 DEF Guarded
    <3>5. ASSUME NEW p \in orders, Lasting(p)
          PROVE \E q \in orders' : Lasting(q)' /\ q.price = p.price
      <4>0. p.kind = "stop" /\ p.side = sideOfAmount(pos) /\ p.id \notin tracker.stale
        BY <3>5 DEF Lasting, StopsOf
      <4>1. CASE p.id \notin tracker'.stale
        <5>1. p \in orders' /\ Lasting(p)'
          BY <2>4, <4>0, <4>1 DEF Lasting, StopsOf
        <5>2. QED
          BY <5>1
      <4>2. CASE p.id \in tracker'.stale
        <5>1. p.id = tracker.id \/ p.id = tracker.tp
          BY <2>5, <4>0, <4>2
        <5>2. p.id = tracker.id /\ p.price = tracker.stop
          BY <3>1, <4>0, <5>1 DEF Names
        <5>3. QED
          BY <2>3, <2>4, <3>3, <5>2
      <4>3. QED
        BY <4>1, <4>2
    <3>6. Kept'
      <4>1. (Steady' = Steady) /\ (Closing' = Closing) /\ (Replacing' = Replacing)
        BY <2>0, <2>4 DEF Steady, Closing, Replacing
      <4>2. QED
        BY <2>0, <2>4, <2>7, <3>5, <4>1 DEF Kept
    <3>7. QED
      BY <3>4, <3>6
  <2>8. QED
    BY <2>6, <2>7
<1>3. CASE TrackerFlattens \/ OrderFires \/ LeftoversCancelled
  <2>1. pos' = 0 /\ excuse' = "none" /\ floor' = 0
    BY <1>3 DEF TrackerFlattens, OrderFires, LeftoversCancelled, Venue
  <2>2. QED
    BY <2>1, FlatFine
<1>4. CASE recordEntry
  <2>1. /\ UNCHANGED <<world, pos, orders, job, excuse>> /\ tracker.pc = "placed" /\ Raise(tracker.id, tracker.stop)
        /\ tracker' = [tracker EXCEPT !.pc = IF tracker.stale = {} THEN "recorded" ELSE "stale"]
    BY <1>4 DEF recordEntry
  <2>2. tracker'.stale = tracker.stale /\ tracker.id \notin tracker.stale /\ tracker.stop \in Ticks
    BY <2>1 DEF Types, TrackerTypes, Entries, Linked, TrackerLinks
  <2>3. Guarded'
    BY <2>1, <2>2, GuardFrame DEF Lasting
  <2>4. Kept'
    BY <2>1, <2>2, RaiseFine
  <2>5. QED
    BY <2>3, <2>4
<1>5. CASE TrackerCancelsStale
  <2>1. /\ UNCHANGED <<world, job>> /\ tracker.pc = "stale"
        /\ Venue(pos, {o \in orders : o.id \notin tracker.stale}, "none")
        /\ tracker' = [tracker EXCEPT !.pc = "recorded", !.stale = {}]
    BY <1>5 DEF TrackerCancelsStale
  <2>2. tracker'.stale = {}
    BY <2>1 DEF Types, TrackerTypes, Entries
  <2>3. /\ pos' = pos /\ orders' = {o \in orders : o.id \notin tracker.stale}
        /\ pos = 0 => excuse' = "none" /\ floor' = 0
        /\ pos # 0 => excuse' = excuse /\ floor' = floor
    BY <2>1, VenueGoes
  <2>4. CASE pos = 0
    BY <2>3, <2>4, FlatFine
  <2>5. CASE pos # 0
    <3>1. \A o \in orders : Lasting(o) => o \in orders' /\ o.id \notin tracker'.stale
      BY <2>2, <2>3 DEF Lasting
    <3>2. QED
      BY <2>1, <2>3, <2>5, <3>1, GuardFrame, KeptFrame
  <2>6. QED
    BY <2>4, <2>5
<1>6. CASE TrackerDone
  <2>1. UNCHANGED <<world, job, venueVars>> /\ tracker.pc = "recorded" /\ tracker'.stale = {}
    BY <1>6 DEF TrackerDone, NoEntry
  <2>2. QED
    BY <2>1, GuardFrame, KeptFrame DEF venueVars
<1>7. QED
  BY <1>1, <1>2, <1>3, <1>4, <1>5, <1>6

(* Steps that touch neither the venue nor the driver's work.               *)
LEMMA QuietStopsStep ==
  ASSUME Types, Guarded, Kept, BookAssumption,
         \/ RefreshAsk \/ RefreshFails \/ RefreshApply \/ RefreshTurn
         \/ AuditStarts \/ AuditAdopts \/ AuditConfirms \/ AuditConfirmed
         \/ DriverMoves \/ DriverReduces \/ Reduced \/ UpdateStarts \/ Dropped
  PROVE Guarded' /\ Kept'
<1>1. UNCHANGED <<world, tracker, venueVars>>
  BY DEF RefreshAsk, RefreshFails, RefreshApply, RefreshTurn, AuditStarts, AuditAdopts, AuditConfirms, AuditConfirmed,
         DriverMoves, DriverReduces, Reduced, UpdateStarts, Dropped
<1>2. job["driver"].pc \in {"place", "emergency", "reduce"} => job'["driver"] = job["driver"]
  <2>1. CASE RefreshAsk \/ RefreshFails \/ RefreshApply
    BY <2>1 DEF RefreshAsk, RefreshFails, RefreshApply
  <2>2. CASE RefreshTurn
    BY <2>2 DEF RefreshTurn, Types, JobTypes, Tasks
  <2>3. CASE AuditStarts \/ AuditAdopts \/ AuditConfirms \/ AuditConfirmed
    <3>1. Finish("audit") \/ \E j : Goto("audit", j)
      BY <2>3 DEF AuditStarts, AuditAdopts, AuditConfirms, AuditConfirmed
    <3>2. QED
      BY <3>1, GotoJob, FinishJob DEF Types, Tasks
  <2>4. CASE DriverMoves \/ DriverReduces \/ Reduced \/ UpdateStarts \/ Dropped
    BY <2>4 DEF DriverMoves, DriverReduces, Reduced, UpdateStarts, Dropped, Acquire
  <2>5. QED
    BY <2>1, <2>2, <2>3, <2>4
<1>3. QED
  BY <1>1, <1>2, GuardFrame, KeptFrame DEF venueVars, Lasting

(* A crash is an excuse, and excepted where NeverLoosened speaks.          *)
LEMMA CrashStopsStep ==
  ASSUME Guarded, Kept, Crash
  PROVE Guarded' /\ Kept'
<1>1. /\ UNCHANGED <<world, pos, floor>> /\ excuse' = IF pos = 0 THEN "none" ELSE "crash"
      /\ "crash" \in world.kinds
  BY DEF Crash, Fault, May
<1>2. ~Steady'
  BY <1>1 DEF Steady
<1>3. QED
  BY <1>1, <1>2 DEF Guarded, Kept

(* The steps that both tasks take under the lock.                          *)
LEMMA UnderLockStopsStep ==
  ASSUME Types, Linked, Guarded, Kept, BookAssumption, NEW t \in Tasks,
         placeWithRetry(t) \/ Placed(t) \/ EmergencyRead(t) \/ EmergencyReduce(t)
  PROVE Guarded' /\ Kept'
<1>a. Shape(job[t]) /\ job[t] \in JobSet /\ JobTypes
  BY DEF Types, JobTypes
<1>1. CASE placeWithRetry(t)
  <2>1. job[t].pc = "place" /\ UNCHANGED <<world, storeVars, tracker>>
    BY <1>1 DEF placeWithRetry
  <2>2. PICK id \in Lowest(FreshIds) :
       LET book == orders \cup {Order(id, "stop", job[t].meta.side, job[t].price)} IN
       \/ /\ Goto(t, [job[t] EXCEPT !.pc = "placed", !.id = id])
          /\ Venue(pos, book, "none")
          /\ UNCHANGED faults
       \/ /\ Fault("reject")
          /\ Goto(t, attemptFailed(job[t]))
          /\ UNCHANGED venueVars
       \/ /\ Fault("lost")
          /\ Goto(t, attemptFailed(job[t]))
          /\ Venue(pos, book, "none")
    BY <1>1 DEF placeWithRetry
  <2>3. PICK o : o = Order(id, "stop", job[t].meta.side, job[t].price)
    OBVIOUS
  <2>4. o.id = id /\ o.kind = "stop" /\ o.side = job[t].meta.side /\ o.price = job[t].price
    BY <2>3 DEF Order
  <2>5. id \in FreshIds /\ o \notin orders /\ id \notin tracker.stale
    BY <2>4, LowestIn, FreshId
  <2> DEFINE f == attemptFailed(job[t])
  <2>6. /\ f.pc \in {"place", "emergency"} /\ f.meta = job[t].meta
        /\ f.price \in {job[t].price, job[t].meta.stop}
    BY <1>a, <2>1, AttemptResult
  <2>7. Venue(pos, orders \cup {o}, "none") \/ UNCHANGED venueVars
    BY <2>2, <2>3
  <2>9. t # "driver" => job'["driver"] = job["driver"]
    BY <1>a, <2>2, GotoJob DEF Tasks
  <2>10. job'["driver"] = f \/ t # "driver" \/ Venue(pos, orders \cup {o}, "none")
    BY <1>a, <2>2, <2>3, GotoJob
  <2> HIDE DEF f
  <2>12. CASE Venue(pos, orders \cup {o}, "none") /\ pos = 0
    <3>1. pos' = 0 /\ excuse' = "none" /\ floor' = 0
      BY <2>12 DEF Venue
    <3>2. QED
      BY <3>1, FlatFine
  <2>13. CASE Venue(pos, orders \cup {o}, "none") /\ pos # 0
    <3>1. pos' = pos /\ orders' = orders \cup {o} /\ floor' = floor
      BY <2>13 DEF Venue
    <3>2. o.side # sideOfAmount(pos) => excuse' = excuse
      <4>1. o.side # sideOfAmount(pos) => StopsOf(sideOfAmount(pos), (orders \cup {o}) \ orders) = {}
        BY DEF StopsOf
      <4>2. QED
        BY <2>13, <4>1 DEF Venue
    <3>3. o.side = sideOfAmount(pos) => o \in orders' /\ Lasting(o)'
      BY <2>1, <2>4, <2>5, <3>1 DEF Lasting, StopsOf
    <3>4. \A p \in orders : Lasting(p) => p \in orders' /\ p.id \notin tracker'.stale
      BY <2>1, <3>1 DEF Lasting
    <3>5. \A p \in orders : Lasting(p) => p \in orders' /\ Lasting(p)'
      BY <2>1, <3>1 DEF Lasting, StopsOf
    <3>6. Guarded'
      <4>1. CASE o.side = sideOfAmount(pos)
        BY <2>13, <3>1, <3>3, <4>1 DEF Guarded
      <4>2. CASE o.side # sideOfAmount(pos) /\ t # "driver"
        BY <2>1, <2>9, <3>1, <3>2, <3>4, <4>2, GuardFrame
      <4>3. CASE o.side # sideOfAmount(pos) /\ t = "driver"
        <5>1. ~Replacing /\ ~Closing
          BY <2>1, <2>4, <4>3 DEF Replacing, Closing
        <5>2. QED
          BY <2>1, <2>13, <3>1, <3>2, <3>5, <4>3, <5>1 DEF Guarded
      <4>4. QED
        BY <4>1, <4>2, <4>3
    <3>7. Kept'
      <4>1. CASE t # "driver"
        BY <2>1, <2>9, <3>1, <3>4, <4>1, KeptFrame
      <4>2. CASE t = "driver"
        <5>1. ~Closing
          BY <2>1, <4>2 DEF Closing
        <5>2. Steady' = Steady
          BY <2>1 DEF Steady
        <5>3. Replacing => o \in orders' /\ Lasting(o)'
          BY <2>4, <3>3, <4>2 DEF Replacing
        <5>4. job["driver"].price = o.price
          BY <2>4, <4>2
        <5>5. QED
          BY <2>13, <3>1, <3>5, <5>1, <5>2, <5>3, <5>4 DEF Kept
      <4>3. QED
        BY <4>1, <4>2
    <3>8. QED
      BY <3>6, <3>7
  <2>14. CASE UNCHANGED venueVars
    <3>1. UNCHANGED <<pos, orders, excuse, floor>>
      BY <2>14 DEF venueVars
    <3>2. CASE t # "driver"
      BY <2>1, <2>9, <3>1, <3>2, GuardFrame, KeptFrame DEF Lasting
    <3>3. CASE t = "driver" /\ job'["driver"] = f
      <4>1. Replacing => Replacing' \/ Closing'
        BY <2>6, <3>1, <3>3 DEF Replacing, Closing
      <4>2. ~Closing
        BY <2>1, <3>3 DEF Closing
      <4>3. \A p \in orders : Lasting(p) => p \in orders' /\ Lasting(p)'
        BY <2>1, <3>1 DEF Lasting, StopsOf
      <4>4. Guarded'
        BY <2>1, <3>1, <4>1, <4>2, <4>3 DEF Guarded
      <4>5. Steady' = Steady
        BY <2>1 DEF Steady
      <4>6. job'["driver"].meta = job["driver"].meta
            /\ job'["driver"].price \in {job["driver"].price, job["driver"].meta.stop}
        BY <2>6, <3>3
      <4>7. Kept'
        BY <3>1, <4>1, <4>2, <4>3, <4>5, <4>6 DEF Kept
      <4>8. QED
        BY <4>4, <4>7
    <3>4. CASE t = "driver" /\ Venue(pos, orders \cup {o}, "none")
      BY <3>4, <2>12, <2>13
    <3>5. QED
      BY <2>10, <3>2, <3>3, <3>4
  <2>15. QED
    BY <2>7, <2>12, <2>13, <2>14
<1>2. CASE Placed(t)
  <2>1. /\ job[t].pc = "placed" /\ UNCHANGED <<world, pos, orders, tracker, excuse>>
        /\ Raise(job[t].id, job[t].price)
    BY <1>2 DEF Placed
  <2>2. job[t].price \in Ticks /\ job[t].id \notin tracker.stale
    BY <1>a, <2>1 DEF Shape, Linked, JobLinks, JobLink
  <2>3. job["driver"].pc \in {"place", "emergency", "reduce"} => job'["driver"] = job["driver"]
    <3>1. Finish(t) \/ \E j : Goto(t, j)
      BY <1>2 DEF Placed
    <3>2. QED
      BY <1>a, <2>1, <3>1, GotoJob, FinishJob DEF Tasks
  <2>4. QED
    BY <2>1, <2>2, <2>3, GuardFrame, RaiseFine DEF Lasting
<1>3. CASE EmergencyRead(t)
  <2>1. UNCHANGED <<world, tracker>> /\ job[t].pc = "emergency"
    BY <1>3 DEF EmergencyRead
  <2>2. CASE raw' = 0
    BY <1>3, <2>2, EmergencyFine DEF EmergencyRead
  <2>3. CASE raw' # 0
    <3>1. UNCHANGED <<pos, orders, excuse, floor>> /\ Goto(t, [job[t] EXCEPT !.pc = "reduce", !.qty = Size(raw')])
      BY <1>3, <2>3 DEF EmergencyRead, venueVars
    <3>2. CASE t # "driver"
      <4>1. job'["driver"] = job["driver"]
        BY <1>a, <3>1, <3>2, GotoJob DEF Tasks
      <4>2. QED
        BY <2>1, <3>1, <4>1, GuardFrame, KeptFrame DEF Lasting
    <3>3. CASE t = "driver"
      <4>1. job'["driver"].pc = "reduce"
        <5>1. job'[t] = [job[t] EXCEPT !.pc = "reduce", !.qty = Size(raw')]
          BY <1>a, <3>1, GotoJob
        <5>2. QED
          BY <1>a, <3>3, <5>1 DEF JobSet
      <4>2. Closing'
        BY <4>1 DEF Closing
      <4>3. QED
        BY <3>1, <4>2 DEF Guarded, Kept
    <3>4. QED
      BY <3>2, <3>3
  <2>4. QED
    BY <2>2, <2>3
<1>4. CASE EmergencyReduce(t)
  <2>1. \E p : Venue(p, orders, "emergency")
    BY <1>4 DEF EmergencyReduce
  <2>2. QED
    BY <2>1, EmergencyFine
<1>5. QED
  BY <1>1, <1>2, <1>3, <1>4

(* The driver's steps at the venue. *)
LEMMA DriverStopsStep ==
  ASSUME Types, Linked, Guarded, Kept, BookAssumption, ReduceStarts \/ CancelStop \/ DropTarget
  PROVE Guarded' /\ Kept'
<1>a. /\ Shape(job["driver"]) /\ job["driver"] \in JobSet /\ "driver" \in Tasks /\ JobTypes
  BY DEF Types, JobTypes, Tasks
<1>b. UNCHANGED <<world, tracker>>
  BY DEF ReduceStarts, CancelStop, DropTarget
<1>c. job["driver"].pc \notin {"place", "emergency", "reduce"} /\ ~Replacing /\ ~Closing
  BY DEF ReduceStarts, CancelStop, DropTarget, Acquire, Replacing, Closing
<1>1. CASE ReduceStarts
  <2>1. CASE UNCHANGED venueVars
    BY <1>b, <1>c, <2>1, GuardFrame, KeptFrame DEF venueVars, Lasting
  <2>2. ASSUME ReduceOnlyAccepted(job["driver"].side, job["driver"].qty),
               NEW executed \in 1 .. job["driver"].qty,
               Venue(pos - job["driver"].side * executed, orders, "none")
        PROVE Guarded' /\ Kept'
    <3>1. /\ pos' = pos - job["driver"].side * executed /\ orders' = orders
          /\ pos' = 0 => excuse' = "none" /\ floor' = 0
          /\ pos' # 0 => excuse' = excuse /\ floor' = floor
      BY <2>2, VenueGoes
    <3>2. /\ executed \in Nat /\ pos \in Int /\ job["driver"].side \in Sides /\ MaxQty \in Nat
          /\ pos \in -MaxQty .. MaxQty /\ job["driver"].qty \in Int
      BY <1>a, <2>2 DEF Types, VenueTypes, JobSet, BookAssumption
    <3>3. sideOfAmount(pos) = job["driver"].side /\ executed <= Size(pos)
      BY <2>2, <3>2, SideValues DEF ReduceOnlyAccepted
    <3>4. pos' # 0 => sideOfAmount(pos') = job["driver"].side
      BY <3>1, <3>2, <3>3, ReduceLeaves
    <3>5. pos # 0
      BY <3>2, <3>3, SideValues DEF Sides
    <3>6. CASE pos' = 0
      BY <3>1, <3>6, FlatFine
    <3>7. CASE pos' # 0
      BY <1>b, <1>c, <3>1, <3>3, <3>4, <3>5, <3>7, GuardFrame, KeptFrame DEF Lasting
    <3>8. QED
      BY <3>6, <3>7
  <2>3. QED
    BY <1>1, <2>1, <2>2 DEF ReduceStarts
<1>2. CASE CancelStop
  <2>1. /\ meta # None /\ tightens(job["driver"], meta) /\ job["driver"].pc = "wait" /\ job["driver"].qty = 0
    BY <1>2 DEF CancelStop, Acquire
  <2>2. /\ meta \in Metas /\ Names(meta, orders, world.sides) /\ job["driver"].price \in Ticks
        /\ job["driver"].side \in world.sides
    BY <2>1 DEF Types, StoreTypes, Linked, StoreLinks, JobTypes, SideLinks
  <2> DEFINE left == {o \in orders : o.id # meta.id}
  <2>3. left \in SUBSET orders
    OBVIOUS
  <2>4. CASE UNCHANGED venueVars
    BY <1>b, <1>c, <2>4, GuardFrame, KeptFrame DEF venueVars, Lasting
  <2>5. CASE Fault("lost") /\ Venue(pos, left, "lost")
    <3>1. /\ pos' = pos
          /\ pos = 0 => excuse' = "none" /\ floor' = 0
          /\ pos # 0 => excuse' = "lost" /\ floor' = floor
      BY <2>5, VenueGoes
    <3>2. ~Steady'
      BY <1>b, <2>5 DEF Fault, May, Steady
    <3>3. QED
      BY <3>1, <3>2 DEF Guarded, Kept
  <2>6. CASE Goto("driver", [job["driver"] EXCEPT !.pc = "place", !.meta = meta]) /\ Venue(pos, left, "none")
    <3>1. /\ pos' = pos /\ orders' = left
          /\ pos = 0 => excuse' = "none" /\ floor' = 0
          /\ pos # 0 => excuse' = excuse /\ floor' = floor
      BY <2>6, VenueGoes
    <3>2. CASE pos = 0
      BY <3>1, <3>2, FlatFine
    <3>3. CASE pos # 0
      <4>1. job'["driver"].pc = "place" /\ job'["driver"].meta = meta /\ job'["driver"].price = job["driver"].price
        <5>1. job'["driver"] = [job["driver"] EXCEPT !.pc = "place", !.meta = meta]
          BY <1>a, <2>6, GotoJob
        <5>2. QED
          BY <1>a, <5>1 DEF JobSet
      <4>2. ASSUME NEW o \in orders, Lasting(o)
            PROVE \/ o \in orders' /\ Lasting(o)'
                  \/ Replacing' /\ o.price = meta.stop
        <5>0. o.kind = "stop" /\ o.side = sideOfAmount(pos) /\ o.id \notin tracker.stale
          BY <4>2 DEF Lasting, StopsOf
        <5>1. CASE o.id # meta.id
          BY <1>b, <3>1, <5>0, <5>1 DEF Lasting, StopsOf
        <5>2. CASE o.id = meta.id
          <6>1. o.side = meta.side /\ o.price = meta.stop
            BY <2>2, <5>2 DEF Names
          <6>2. Replacing'
            BY <3>1, <4>1, <5>0, <6>1 DEF Replacing
          <6>3. QED
            BY <6>1, <6>2
        <5>3. QED
          BY <5>1, <5>2
      <4>3. Guarded'
        BY <1>b, <1>c, <3>1, <3>3, <4>2 DEF Guarded
      <4>4. Kept'
        <5> SUFFICES ASSUME Steady', floor' # 0
                     PROVE \/ /\ Replacing'
                              /\ ~Tighter(sideOfAmount(pos'), floor', job'["driver"].price)
                              /\ ~Tighter(sideOfAmount(pos'), floor', job'["driver"].meta.stop)
                           \/ \E o \in orders' : Lasting(o)' /\ ~Tighter(sideOfAmount(pos'), floor', o.price)
          BY <3>1, <3>3 DEF Kept
        <5>1. Steady
          BY <1>b DEF Steady
        <5>2. PICK o \in orders : Lasting(o) /\ ~Tighter(sideOfAmount(pos), floor, o.price)
          BY <1>c, <3>1, <3>3, <5>1 DEF Kept
        <5>3. CASE o \in orders' /\ Lasting(o)'
          BY <3>1, <3>3, <5>2, <5>3
        <5>4. CASE Replacing' /\ o.price = meta.stop
          <6>1. sideOfAmount(pos) \in world.sides
            BY <3>3 DEF Linked, SideLinks
          <6>2. job["driver"].side = sideOfAmount(pos) /\ sideOfAmount(pos) \in Sides
            BY <2>2, <5>1, <6>1, OneSide DEF Types, RestTypes
          <6>3. Tighter(sideOfAmount(pos), job["driver"].price, meta.stop)
            BY <2>1, <6>2 DEF tightens
          <6>4. floor \in Int /\ job["driver"].price \in Int /\ meta.stop \in Int
            BY <2>2 DEF Types, VenueTypes, Ticks, Metas, BookAssumption
          <6>5. ~Tighter(sideOfAmount(pos), floor, job["driver"].price)
            BY <5>2, <5>4, <6>2, <6>3, <6>4, TighterOrder
          <6>6. QED
            BY <3>1, <3>3, <4>1, <5>2, <5>4, <6>5
        <5>5. QED
          BY <4>2, <5>2, <5>3, <5>4
      <4>5. QED
        BY <4>3, <4>4
    <3>4. QED
      BY <3>2, <3>3
  <2>7. QED
    BY <1>2, <2>4, <2>5, <2>6 DEF CancelStop
<1>3. CASE DropTarget
  <2>1. job["driver"].pc = "drop"
    BY <1>3 DEF DropTarget
  <2>2. job["driver"].meta # None /\ Names(job["driver"].meta, orders, world.sides)
    BY <1>a, <2>1 DEF Shape, Active, JobLink, Linked, JobLinks
  <2> DEFINE m == IF meta = None THEN job["driver"].meta ELSE meta
             left == {o \in orders : o.id # m.tp}
  <2>3. Names(m, orders, world.sides)
    BY <2>2 DEF Linked, StoreLinks
  <2>4. CASE UNCHANGED venueVars
    BY <1>b, <1>c, <2>4, GuardFrame, KeptFrame DEF venueVars, Lasting
  <2>5. CASE Venue(pos, left, "none")
    <3>1. left \in SUBSET orders
      OBVIOUS
    <3>2. /\ pos' = pos /\ orders' = left
          /\ pos = 0 => excuse' = "none" /\ floor' = 0
          /\ pos # 0 => excuse' = excuse /\ floor' = floor
      BY <2>5, <3>1, VenueGoes
    <3>3. \A o \in orders : o.kind = "stop" => o \in left
      BY <2>3 DEF Names
    <3> HIDE DEF left, m
    <3>4. \A o \in orders : Lasting(o) => o \in orders' /\ o.id \notin tracker'.stale
      BY <1>b, <3>2, <3>3 DEF Lasting, StopsOf
    <3>5. CASE pos = 0
      BY <3>2, <3>5, FlatFine
    <3>6. CASE pos # 0
      BY <1>b, <1>c, <3>2, <3>4, <3>6, GuardFrame, KeptFrame
    <3>7. QED
      BY <3>5, <3>6
  <2>6. QED
    BY <1>3, <2>4, <2>5 DEF DropTarget
<1>4. QED
  BY <1>1, <1>2, <1>3

----------------------------------------------------------------------------
(* The invariant and its consequences *)

LEMMA InvInit == Init => BookInv
<1> SUFFICES ASSUME Init PROVE BookInv
  OBVIOUS
<1>1. Types
  BY TypesInit
<1>2. \A t \in Tasks : job[t] = NoJob /\ job[t].pc = "idle"
  BY DEF Init, NoJob
<1>3. StoreLinks /\ JobLinks /\ TrackerLinks /\ SideLinks
  BY <1>2, NoJobLink DEF Init, StoreLinks, JobLinks, TrackerLinks, SideLinks, NoEntry, Tasks
<1>4. Guarded /\ Kept
  BY DEF Init, Guarded, Kept
<1>5. QED
  BY <1>1, <1>3, <1>4 DEF BookInv, Linked

(* Every step keeps the invariant. *)
LEMMA InvStep == BookInv /\ [Next]_vars => BookInv'
<1> USE BookAssumption
<1> SUFFICES ASSUME BookInv, [Next]_vars PROVE BookInv'
  OBVIOUS
<1>1. Types' /\ Linked'
  BY TypesStep, LinkedStep DEF BookInv
<1>2. Guarded' /\ Kept'
  <2>1. CASE UNCHANGED vars
    BY <2>1, GuardFrame, KeptFrame DEF vars, BookInv, Lasting
  <2>2. CASE Next
    BY <2>2, TrackerStopsStep, QuietStopsStep, CrashStopsStep, UnderLockStopsStep, DriverStopsStep DEF Next, BookInv
  <2>3. QED
    BY <2>1, <2>2
<1>3. QED
  BY <1>1, <1>2 DEF BookInv

(* LiveBook keeps its types, names only orders it means, and leaves no     *)
(* position without a stop unless somebody works on it or a fault excuses  *)
(* it: in every world, whatever the audit, the driver, the tracker and the *)
(* refresh do between each other's awaits.                                 *)
THEOREM BookInvariant == Spec => []BookInv
<1>1. QED
  BY InvInit, InvStep, PTL DEF Spec

(* LiveBook's state has its types: retries are bounded by placeAttempts,   *)
(* ids stay in range and neither a reduce-only order nor the cached        *)
(* position of reduce() exceeds what can be held.                          *)
THEOREM TypeCorrect == Spec => []TypeOK
<1>1. BookInv => TypeOK
  <2> SUFFICES ASSUME BookInv PROVE TypeOK
    OBVIOUS
  <2>1. VenueTypes /\ StoreTypes /\ JobTypes /\ TrackerTypes /\ RestTypes
    BY DEF BookInv, Types
  <2>2. 0 .. placeAttempts - 1 \subseteq 0 .. placeAttempts
    BY BookAssumption DEF BookAssumption
  <2>3. JobSet \subseteq [pc : Steps, side : Sides, price : 0 .. MaxTick, drop : BOOLEAN,
                       qty : -MaxQty .. MaxQty, meta : Metas \cup {None},
                       tries : 0 .. placeAttempts, id : Ids \cup {0}]
    BY <2>2 DEF JobSet
  <2>4. job \in [Tasks -> [pc : Steps, side : Sides, price : 0 .. MaxTick, drop : BOOLEAN,
                       qty : -MaxQty .. MaxQty, meta : Metas \cup {None},
                       tries : 0 .. placeAttempts, id : Ids \cup {0}]]
    BY <2>1, <2>3 DEF JobTypes
  <2>5. QED
    BY <2>1, <2>4 DEF TypeOK, VenueTypes, StoreTypes, TrackerTypes, RestTypes, Entries, Book
<1>2. QED
  BY <1>1, BookInvariant, PTL

(* liveBook.ts, "a stop is never loosened": on a symbol traded on one side *)
(* and without lost answers, crashes and failed saves, a position nobody   *)
(* works on has a stop at least as tight as any it had since the last      *)
(* emergency close.                                                        *)
THEOREM StopsNeverLoosened == Spec => []NeverLoosened
<1>1. BookInv => NeverLoosened
  <2> SUFFICES ASSUME BookInv, Cardinality(world.sides) = 1, world.kinds \cap {"lost", "crash", "disk"} = {},
                      ~Working, floor # 0
               PROVE \E o \in StopsOf(sideOfAmount(pos), orders) : ~Tighter(o.side, floor, o.price)
    BY DEF NeverLoosened, StopKept
  <2>1. Steady /\ ~Closing /\ ~Replacing
    BY DEF Steady, Working, Closing, Replacing, Tasks
  <2>2. PICK o \in orders : Lasting(o) /\ ~Tighter(sideOfAmount(pos), floor, o.price)
    BY <2>1 DEF BookInv, Kept
  <2>3. o \in StopsOf(sideOfAmount(pos), orders) /\ o.side = sideOfAmount(pos)
    BY <2>2 DEF Lasting, StopsOf
  <2>4. QED
    BY <2>2, <2>3
<1>2. QED
  BY <1>1, BookInvariant, PTL

----------------------------------------------------------------------------
(* Refinement of ProtectedPosition *)

LEMMA StatusIs ==
  /\ pos = 0 => Status = "flat"
  /\ pos # 0 /\ Covered(pos, orders) => Status = "covered"
  /\ pos # 0 /\ ~Covered(pos, orders) /\ Working => Status = "working"
  /\ pos # 0 /\ ~Covered(pos, orders) /\ ~Working => Status = "exposed"
  BY DEF Status

(* The abstract status after a step, from the position and its cover. *)
LEMMA StatusBecomes ==
  /\ pos' = 0 => Status' = "flat"
  /\ pos' # 0 /\ Covered(pos, orders)' => Status' = "covered"
  /\ pos' # 0 /\ ~Covered(pos, orders)' /\ Working' => Status' = "working"
  /\ pos' # 0 /\ ~Covered(pos, orders)' /\ ~Working' => Status' = "exposed"
  BY DEF Status

(* What a step does to a position that stays open: nothing to its orders,  *)
(* or somebody at work on it places a stop, or orders are cancelled.       *)
Still == orders' = orders /\ (excuse' = excuse \/ excuse' # "none")
Placing == Working /\ UNCHANGED storeVars /\ Venue(pos, orders', "none") /\ orders \subseteq orders'
Removing == UNCHANGED storeVars /\ orders' \subseteq orders /\ (excuse' = excuse \/ excuse' # "none")

(* What a step of the book may do to the position: never flip it, and open or close it alone. *)
LEMMA PositionMoves ==
  ASSUME Types, BookAssumption, Next
  PROVE /\ pos # 0 /\ pos' # 0 => sideOfAmount(pos') = sideOfAmount(pos)
        /\ pos # 0 /\ pos' = 0 => UNCHANGED storeVars
        /\ pos = 0 /\ pos' # 0 => UNCHANGED <<storeVars, excuse>> /\ tracker'.pc = "legs"
<1>a. pos \in Int /\ MaxQty \in Nat /\ pos \in -MaxQty .. MaxQty
  BY DEF Types, VenueTypes, BookAssumption
<1>1. CASE pos' = pos
  BY <1>1
<1>2. CASE Fill
  <2>1. PICK side \in world.sides, stop \in 1 .. world.ticks :
          /\ pos # 0 => side = sideOfAmount(pos)
          /\ tracker' = [tracker EXCEPT !.pc = "legs", !.side = side, !.stop = stop]
          /\ Venue(pos + side, orders, "none")
    BY <1>2 DEF Fill
  <2>2. side \in Sides
    BY DEF Types, RestTypes
  <2>3. pos + side # 0 /\ sideOfAmount(pos + side) = side
    BY <1>a, <2>1, <2>2 DEF sideOfAmount, Sides
  <2>4. pos' = pos + side /\ excuse' = excuse
    BY <2>1, <2>3, VenueGoes
  <2>5. tracker'.pc = "legs"
    BY <2>1 DEF Types, TrackerTypes, Entries
  <2>6. QED
    BY <1>2, <2>1, <2>3, <2>4, <2>5 DEF Fill
<1>3. CASE TrackerFlattens \/ OrderFires \/ LeftoversCancelled
  BY <1>3 DEF TrackerFlattens, OrderFires, LeftoversCancelled, Venue
<1>4. ASSUME NEW t \in Tasks, EmergencyReduce(t), pos' # pos
      PROVE UNCHANGED storeVars /\ pos # 0 /\ (pos' # 0 => sideOfAmount(pos') = sideOfAmount(pos))
  <2>1. /\ ReduceOnlyAccepted(job[t].meta.side, job[t].qty) /\ UNCHANGED storeVars
        /\ pos' = pos - job[t].meta.side * job[t].qty /\ job[t].pc = "reduce"
    BY <1>4 DEF EmergencyReduce, Venue
  <2>2. Shape(job[t])
    BY DEF Types, JobTypes
  <2>3. job[t].qty \in Nat /\ job[t].meta.side \in Sides
    BY <1>a, <2>1, <2>2 DEF Shape, JobSet, Active, Metas
  <2>4. sideOfAmount(pos) = job[t].meta.side /\ job[t].qty <= Size(pos)
    BY <2>1 DEF ReduceOnlyAccepted
  <2>5. pos' # 0 => sideOfAmount(pos') = job[t].meta.side
    BY <1>a, <2>1, <2>3, <2>4, ReduceLeaves
  <2>6. QED
    BY <1>a, <2>1, <2>3, <2>4, <2>5, SideValues DEF Sides
<1>5. ASSUME ReduceStarts, pos' # pos
      PROVE UNCHANGED storeVars /\ pos # 0 /\ (pos' # 0 => sideOfAmount(pos') = sideOfAmount(pos))
  <2>1. PICK executed \in 1 .. job["driver"].qty :
          /\ ReduceOnlyAccepted(job["driver"].side, job["driver"].qty)
          /\ pos' = pos - job["driver"].side * executed
    BY <1>5 DEF ReduceStarts, Venue, venueVars
  <2>2. job["driver"].qty \in Int /\ job["driver"].side \in Sides
    BY <1>a DEF Types, JobTypes, JobSet, Tasks
  <2>3. executed \in Nat /\ sideOfAmount(pos) = job["driver"].side /\ executed <= Size(pos)
    BY <1>a, <2>1, <2>2, SideValues DEF ReduceOnlyAccepted
  <2>4. pos' # 0 => sideOfAmount(pos') = job["driver"].side
    BY <1>a, <2>1, <2>2, <2>3, ReduceLeaves
  <2>5. UNCHANGED storeVars
    BY <1>5 DEF ReduceStarts
  <2>6. QED
    BY <1>a, <2>2, <2>3, <2>4, <2>5, SideValues DEF Sides
<1>6. \/ pos' = pos \/ Fill \/ TrackerFlattens \/ OrderFires \/ LeftoversCancelled \/ ReduceStarts
      \/ \E t \in Tasks : EmergencyReduce(t)
  BY DEF Next, TrackerPlaces, recordEntry, TrackerCancelsStale, TrackerDone, RefreshAsk, RefreshFails, RefreshApply,
         RefreshTurn, placeWithRetry, Placed, EmergencyRead, AuditStarts, AuditAdopts, AuditConfirms, AuditConfirmed,
         DriverMoves, DriverReduces, Reduced, UpdateStarts, CancelStop, DropTarget, Dropped, Crash, venueVars, Venue
<1>7. QED
  BY <1>1, <1>2, <1>3, <1>4, <1>5, <1>6

(* A step that keeps a position open leaves the orders, adds one, or removes some. *)
LEMMA StepKinds ==
  ASSUME Types, Next, pos # 0, pos' # 0
  PROVE Still \/ Placing \/ Removing
<1>1. CASE Fill \/ ReduceStarts \/ \E t \in Tasks : EmergencyReduce(t)
  <2>1. \/ \E p, why : p = pos' /\ Venue(p, orders, why) /\ why \in {"none", "emergency"}
        \/ UNCHANGED venueVars
    BY <1>1 DEF Fill, ReduceStarts, EmergencyReduce, Venue
  <2>2. CASE UNCHANGED venueVars
    BY <2>2 DEF venueVars, Still
  <2>3. ASSUME NEW p, NEW why, p = pos', Venue(p, orders, why), why \in {"none", "emergency"}
        PROVE Still
    BY <2>3, VenueGoes DEF Still
  <2>4. QED
    BY <2>1, <2>2, <2>3
<1>2. CASE TrackerPlaces
  <2>1. Working /\ UNCHANGED storeVars
    BY <1>2 DEF TrackerPlaces, Working
  <2>2. PICK book : Venue(pos, book, "none") /\ orders \subseteq book
    BY <1>2 DEF TrackerPlaces
  <2>3. book = orders'
    BY <2>2 DEF Venue
  <2>4. QED
    BY <2>1, <2>2, <2>3 DEF Placing
<1>3. ASSUME NEW t \in Tasks, placeWithRetry(t) PROVE Still \/ Placing
  <2>1. Working /\ UNCHANGED storeVars
    BY <1>3 DEF placeWithRetry, Working
  <2>2. UNCHANGED venueVars \/ \E book : Venue(pos, book, "none") /\ orders \subseteq book
    BY <1>3 DEF placeWithRetry
  <2>3. CASE UNCHANGED venueVars
    BY <2>3 DEF venueVars, Still
  <2>4. ASSUME NEW book, Venue(pos, book, "none"), orders \subseteq book PROVE Placing
    <3>1. book = orders'
      BY <2>4 DEF Venue
    <3>2. QED
      BY <2>1, <2>4, <3>1 DEF Placing
  <2>5. QED
    BY <2>2, <2>3, <2>4
<1>4. CASE TrackerCancelsStale \/ CancelStop \/ DropTarget
  <2>1. UNCHANGED storeVars
    BY <1>4 DEF TrackerCancelsStale, CancelStop, DropTarget
  <2>2. \/ UNCHANGED venueVars
        \/ \E book \in SUBSET orders, why \in {"none", "lost"} : Venue(pos, book, why)
    <3>1. CASE TrackerCancelsStale
      <4>1. {o \in orders : o.id \notin tracker.stale} \in SUBSET orders
        OBVIOUS
      <4>2. QED
        BY <3>1, <4>1 DEF TrackerCancelsStale
    <3>2. CASE CancelStop
      <4>1. {o \in orders : o.id # meta.id} \in SUBSET orders
        OBVIOUS
      <4>2. QED
        BY <3>2, <4>1 DEF CancelStop
    <3>3. CASE DropTarget
      <4>1. {o \in orders : o.id # (IF meta = None THEN job["driver"].meta ELSE meta).tp} \in SUBSET orders
        OBVIOUS
      <4>2. QED
        BY <3>3, <4>1 DEF DropTarget
    <3>4. QED
      BY <1>4, <3>1, <3>2, <3>3
  <2>3. CASE UNCHANGED venueVars
    BY <2>3 DEF venueVars, Still
  <2>4. ASSUME NEW book \in SUBSET orders, NEW why \in {"none", "lost"}, Venue(pos, book, why) PROVE Removing
    BY <2>1, <2>4, VenueGoes DEF Removing
  <2>5. QED
    BY <2>2, <2>3, <2>4
<1>5. CASE TrackerFlattens \/ OrderFires \/ LeftoversCancelled
  BY <1>5 DEF TrackerFlattens, OrderFires, LeftoversCancelled, Venue
<1>6. ASSUME NEW t \in Tasks, EmergencyRead(t) PROVE Still
  <2>1. Venue(pos, orders, "emergency") \/ UNCHANGED venueVars
    BY <1>6 DEF EmergencyRead
  <2>2. QED
    BY <2>1, VenueGoes DEF Still, venueVars
<1>7. CASE Crash
  BY <1>7 DEF Crash, Still
<1>8. CASE \/ recordEntry \/ TrackerDone \/ RefreshAsk \/ RefreshFails \/ RefreshApply \/ RefreshTurn
           \/ (\E t \in Tasks : Placed(t)) \/ AuditStarts \/ AuditAdopts \/ AuditConfirms \/ AuditConfirmed
           \/ DriverMoves \/ DriverReduces \/ Reduced \/ UpdateStarts \/ Dropped
  BY <1>8 DEF recordEntry, TrackerDone, RefreshAsk, RefreshFails, RefreshApply, RefreshTurn, Placed, AuditStarts,
         AuditAdopts, AuditConfirms, AuditConfirmed, DriverMoves, DriverReduces, Reduced, UpdateStarts, Dropped,
         venueVars, Still
<1>9. QED
  BY <1>1, <1>2, <1>3, <1>4, <1>5, <1>6, <1>7, <1>8 DEF Next

(* Every step of the book is a step of the promise, or leaves what the     *)
(* promise speaks of as it is.                                             *)
LEMMA PromiseStep ==
  ASSUME BookInv, BookInv', [Next]_vars
  PROVE [Promise!Next]_(Promise!vars)
<1> DEFINE covered == Covered(pos, orders)
           covered2 == Covered(pos, orders)'
<1> USE DEF Promise!Next, Promise!vars, Promise!Open, Promise!Swap, Promise!Protect, Promise!Fail, Promise!Close,
            Promise!Record
<1>a. /\ excuse \in Excuses /\ excuse' \in Excuses
      /\ (meta # None) \in BOOLEAN /\ (meta # None)' \in BOOLEAN
  BY DEF BookInv, Types, VenueTypes
<1>b. /\ pos = 0 => excuse = "none"
      /\ pos' = 0 => excuse' = "none"
  BY DEF BookInv, Guarded
<1>c. pos # 0 /\ excuse = "none" => covered \/ Working
  <2>1. \A o \in orders : Lasting(o) => covered
    BY DEF Lasting, Covered
  <2>2. tracker.pc = "legs" \/ Replacing \/ Closing => Working
    BY DEF Replacing, Closing, Working, Tasks
  <2>3. QED
    BY <2>1, <2>2 DEF BookInv, Guarded
<1>d. pos' # 0 /\ excuse' = "none" => covered2 \/ Working'
  <2>1. \A o \in orders' : Lasting(o)' => covered2
    BY DEF Lasting, Covered
  <2>2. tracker'.pc = "legs" \/ Replacing' \/ Closing' => Working'
    BY DEF Replacing, Closing, Working, Tasks
  <2>3. QED
    BY <2>1, <2>2 DEF BookInv, Guarded
<1>1. CASE UNCHANGED vars
  <2>1. Status' = Status /\ (meta # None)' = (meta # None) /\ excuse' = excuse
    BY <1>1 DEF vars, Status, Working, Covered
  <2>2. QED
    BY <2>1
<1>2. CASE Next
  <2>a. /\ pos # 0 /\ pos' # 0 => sideOfAmount(pos') = sideOfAmount(pos)
        /\ pos # 0 /\ pos' = 0 => UNCHANGED storeVars
        /\ pos = 0 /\ pos' # 0 => UNCHANGED <<storeVars, excuse>> /\ tracker'.pc = "legs"
    BY <1>2, PositionMoves, BookAssumption DEF BookInv
  <2>b. UNCHANGED storeVars => (meta # None)' = (meta # None)
    BY DEF storeVars
  <2>1. CASE pos = 0 /\ pos' = 0
    <3>1. Status = "flat" /\ Status' = "flat" /\ excuse' = excuse
      BY <1>b, <2>1, StatusIs, StatusBecomes
    <3>2. QED
      BY <3>1
  <2>2. CASE pos # 0 /\ pos' = 0
    <3>1. Status # "flat" /\ Status' = "flat" /\ excuse' = "none" /\ (meta # None)' = (meta # None)
      BY <1>b, <2>2, <2>a, <2>b, StatusIs, StatusBecomes
    <3>2. QED
      BY <3>1
  <2>3. CASE pos = 0 /\ pos' # 0
    <3>1. Working'
      BY <2>3, <2>a DEF Working
    <3>2. Status = "flat" /\ Status' \in {"working", "covered"} /\ excuse' = excuse /\ (meta # None)' = (meta # None)
      BY <2>3, <2>a, <2>b, <3>1, StatusIs, StatusBecomes
    <3>3. QED
      BY <3>2
  <2>4. CASE pos # 0 /\ pos' # 0
    <3>a. /\ Status # "flat" /\ Status' \in {"covered", "working", "exposed"}
          /\ (Status = "covered") <=> covered
          /\ (Status' = "covered") <=> covered2
          /\ excuse = "none" => Status # "exposed"
          /\ excuse' = "none" => Status' # "exposed"
      BY <1>c, <1>d, <2>4, StatusIs, StatusBecomes
    <3>1. sideOfAmount(pos') = sideOfAmount(pos)
      BY <2>4, <2>a
    <3>2. /\ covered <=> StopsOf(sideOfAmount(pos), orders) # {}
          /\ covered2 <=> StopsOf(sideOfAmount(pos), orders') # {}
      BY <3>1 DEF Covered
    <3> HIDE DEF covered, covered2
    <3>3. /\ (covered2 /\ ~covered) => excuse' = "none" /\ Working /\ (meta # None)' = (meta # None)
          /\ (covered /\ ~covered2) => (meta # None)' = (meta # None)
          /\ excuse' = "none" /\ excuse # "none" => covered2 /\ Working /\ (meta # None)' = (meta # None)
      <4>1. CASE Still
        BY <3>1, <3>2, <4>1 DEF Still
      <4>2. CASE Removing
        <5>1. covered2 => covered
          BY <3>2, <4>2 DEF Removing, StopsOf
        <5>2. QED
          BY <2>b, <4>2, <5>1 DEF Removing
      <4>3. CASE Placing
        <5>1. Working /\ (meta # None)' = (meta # None)
          BY <2>b, <4>3 DEF Placing
        <5>2. covered => covered2
          BY <3>2, <4>3 DEF Placing, StopsOf
        <5>3. covered2 /\ ~covered => StopsOf(sideOfAmount(pos), orders' \ orders) # {}
          BY <3>2 DEF StopsOf
        <5>4. StopsOf(sideOfAmount(pos), orders' \ orders) # {} => excuse' = "none" /\ covered2
          BY <3>2, <4>3 DEF Placing, Venue, StopsOf
        <5>5. StopsOf(sideOfAmount(pos), orders' \ orders) = {} => excuse' = excuse
          BY <2>4, <4>3 DEF Placing, Venue
        <5>6. QED
          BY <5>1, <5>2, <5>3, <5>4, <5>5
      <4>4. QED
        BY <1>2, <2>4, <4>1, <4>2, <4>3, StepKinds DEF BookInv
    <3>4. Working => Status \in {"working", "covered"}
      BY <2>4, StatusIs
    <3>5. CASE excuse' # "none"
      <4>1. Status' \in {"working", "exposed", Status}
        BY <3>a, <3>3, <3>5
      <4>2. excuse' \in Excuses \ {"none"}
        BY <1>a, <3>5
      <4>3. QED
        BY <1>a, <3>a, <4>1, <4>2
    <3>6. CASE excuse' = "none" /\ excuse # "none"
      <4>1. Status \in {"working", "covered"} /\ Status' = "covered" /\ (meta # None)' = (meta # None)
        BY <3>a, <3>3, <3>4, <3>6
      <4>2. QED
        BY <3>6, <4>1
    <3>7. CASE excuse' = "none" /\ excuse = "none"
      <4>1. CASE Status' = Status
        BY <3>7, <4>1
      <4>2. CASE Status' # Status
        <5>1. \/ Status = "covered" /\ Status' = "working" /\ (meta # None)' = (meta # None)
              \/ Status = "working" /\ Status' = "covered" /\ (meta # None)' = (meta # None)
          <6>1. Status \in {"flat", "covered", "working", "exposed"}
            BY StatusIs
          <6>2. QED
            BY <3>a, <3>3, <3>7, <4>2, <6>1
        <5>2. QED
          BY <3>7, <5>1
      <4>3. QED
        BY <4>1, <4>2
    <3>8. QED
      BY <3>5, <3>6, <3>7
  <2>5. QED
    BY <2>1, <2>2, <2>3, <2>4
<1>3. QED
  BY <1>1, <1>2

(* The book keeps the promise of its fail-safe rules, its fairness apart:  *)
(* a position is without a stop only while the tracker or a task works on  *)
(* it, or after a lost cancel, a crash or an emergency close that did not  *)
(* close; a stop placed ends the excuse; closing leaves the record alone.  *)
THEOREM PromiseKeptSafely == Spec => Promise!Init /\ [][Promise!Next]_(Promise!vars)
<1>1. Init => Promise!Init
  <2> SUFFICES ASSUME Init PROVE Promise!Init
    OBVIOUS
  <2>1. pos = 0 /\ meta = None /\ excuse = "none"
    BY DEF Init
  <2>2. Status = "flat"
    BY <2>1, StatusIs
  <2>3. QED
    BY <2>1, <2>2 DEF Promise!Init
<1>2. QED
  BY <1>1, BookInvariant, PromiseStep, PTL DEF Spec
=============================================================================
