--------------------------- MODULE PositionManager --------------------------
(***************************************************************************)
(* The position manager and the driver that applies it, for one position:  *)
(*   PositionManager       advance, initState, isStale, revertReduce       *)
(*   PositionDriver        manage, step, apply                             *)
(*   PositionManagerStore  the state per position and its file             *)
(* on a venue that is either the live book or the remote broker.           *)
(*                                                                         *)
(* manage runs on every tick and in every cycle, over the positions the    *)
(* venue object shows when it starts: what its last refresh read, less     *)
(* what the live book subtracted for its own partials.  Passes overlap: a  *)
(* position that another pass is busy with is skipped, and a pass that     *)
(* waits for an earlier position of its list comes to this one with what   *)
(* it read before.                                                         *)
(*                                                                         *)
(* Prices are levels: the distance from the entry in units of the initial  *)
(* risk, for a long; a short is the same mirrored.  A scale-in and a new   *)
(* entry change the entry price, which stands here as a number.            *)
(***************************************************************************)
EXTENDS Integers, FiniteSets, FiniteSetsExt

CONSTANTS
  None,          \* no state, no target
  Lots,          \* lots of an entry
  MinQty,        \* LotRules.minQty
  TrailGap, MinGap,  \* trailAtr and minTrailGapAtr, in levels
  Levels,        \* bound: levels of the mark
  MaxEntries,    \* bound: entries and scale-ins of one behaviour
  MaxFaults,     \* bound: faults of one behaviour
  Passes,        \* bound: passes of manage at one time
  Worlds         \* the worlds to check

Tp1R == 1
Tp2R == 2

(* A world fixes for a whole behaviour the venue ("live" or "remote"), the *)
(* signal's target, the fractions of the partials in percent, whether      *)
(* breakeven waits for TP1 or TP2, and which of these may happen:          *)
(*   "delayed"  a pass comes to the position after waiting for another one *)
(*   "short"    a partial is filled in part (live)                         *)
(*   "reject"   the venue refuses a call                                   *)
(*   "lost"     a partial is filled, and the call for it fails             *)
(*   "outage"   the remote venue cannot be reached                         *)
(*   "overlap"  a refresh of the live book is under way during other steps *)
(*   "again"    a new position is opened after the last has ended          *)
(*   "scale"    the position is added to, or opened anew during a call or  *)
(*              before its end was noticed                                 *)
(*   "disk"     the file is not written                                    *)
(*   "crash"    the process stops and starts again                         *)
Kinds == {"delayed", "short", "reject", "lost", "outage", "overlap", "again", "scale", "disk", "crash"}

ASSUME ManagerAssumption ==
  /\ {TrailGap, MinGap, MaxFaults} \subseteq Nat
  /\ {Lots, MinQty, MaxEntries} \subseteq Nat \ {0} /\ Lots >= MinQty
  /\ Levels \subseteq Int /\ {-1, 0} \subseteq Levels
  /\ \E top \in Levels : \A level \in Levels : level <= top
  /\ Worlds \subseteq [venue : {"live", "remote"}, target : Levels \cup {None},
                       tp1Pct : 0 .. 100, tp2Pct : 0 .. 100,
                       breakevenAfter : {"TP1", "TP2"}, kinds : SUBSET Kinds]

VARIABLES
  world,        \* the world of this behaviour
  qty, stop, target, entry,  \* venue: lots, stop and target levels, entry price
  mark,         \* the last price
  raw, fetch,   \* LiveBook.raw or RemoteBroker.positions; the live positions a refresh has read
  job,          \* RemoteExits.jobs: the partial that is queued
  store, file,  \* PositionManagerStore: the position's PmState, and its file
  busy,         \* PositionDriver.busy
  pass,         \* the passes of manage
  faults,       \* bound: faults so far
  opened, taken, \* history: lots of this entry, lots each partial has taken of it
  misses        \* history: of this entry, fills the driver or the broker was not told of

vars == <<world, qty, stop, target, entry, mark, raw, fetch, job, store, file, busy, pass, faults,
          opened, taken, misses>>
venueVars == <<qty, stop, target, entry, mark, raw, fetch, job, opened, taken, misses>>
storeVars == <<store, file>>

Phases == {"INITIAL", "PROTECTED", "TRAILING"}
Targets == Levels \cup {None}
Stops == -1 .. Max(Levels)
PmStates == [entry : 1 .. MaxEntries, initial : 1 .. Lots * MaxEntries, reduced : 0 .. Lots * MaxEntries,
             phase : Phases, stop : Stops, target : Targets, signalTarget : Targets,
             tp1Done : BOOLEAN, tp2Done : BOOLEAN, extreme : Levels]
ASSUME NoneAssumption == None \notin PmStates
NoPlan == [tp1 |-> 0, tp2 |-> 0, move |-> FALSE, stop |-> 0, target |-> None]
NoPass == [pc |-> "idle", seen |-> None, plan |-> NoPlan, state |-> None, done |-> 0]

ExitJobs == [reason : {"TP1", "TP2"}, n : 1 .. Lots * MaxEntries, filled : BOOLEAN]

May(kind) == kind \in world.kinds
Live == world.venue = "live"
Fault(kind) == May(kind) /\ faults < MaxFaults /\ faults' = faults + 1

----------------------------------------------------------------------------
(* PositionManager: pure *)

initState(pos) ==
  [entry |-> pos.entry, initial |-> pos.qty, reduced |-> 0,
   phase |-> IF pos.stop >= 0 THEN "PROTECTED" ELSE "INITIAL",
   stop |-> pos.stop, target |-> pos.target, signalTarget |-> pos.target,
   tp1Done |-> pos.stop >= 0, tp2Done |-> FALSE, extreme |-> pos.mark]

isStale(s, pos) == pos.entry # s.entry \/ pos.qty > s.initial - s.reduced

isRunner(s) == s.signalTarget = None \/ s.signalTarget > Tp2R

\* Mutant: a failed partial keeps its flag.
revertReduceFlagKept(s, reason, n) == [s EXCEPT !.reduced = Max({0, @ - n})]

\* A partial whose order failed is taken back, for the next tick to retry.
revertReduce(s, reason, n) ==
  [s EXCEPT !.reduced = Max({0, @ - n}),
            !.tp1Done = IF reason = "TP1" THEN FALSE ELSE @,
            !.tp2Done = IF reason = "TP2" THEN FALSE ELSE @,
            !.phase = IF reason = "TP1" THEN "INITIAL" ELSE "PROTECTED",
            !.target = IF reason = "TP2" THEN s.signalTarget ELSE @]

\* Mutant: the rest is computed from the lots of the entry.
partialQtyOfEntry(pct, s, remaining) ==
  LET n == (s.initial * pct) \div 100 IN
  IF n < MinQty \/ s.initial - n < MinQty THEN 0 ELSE n

\* The lots of a partial, 0 when it or the rest would be below the minimum.
partialQty(pct, s, remaining) ==
  LET n == (s.initial * pct) \div 100 IN
  IF n < MinQty \/ remaining - n < MinQty THEN 0 ELSE n

\* The levels the stop may move to.  A structural level is clamped like the trail.
stopCandidates(s, price, swing) ==
  LET armed == IF world.breakevenAfter = "TP1" THEN s.tp1Done ELSE s.tp2Done
      clamp(level) == Min({level, price - MinGap}) IN
  (IF armed /\ price > 0 THEN {0} ELSE {})
  \cup (IF s.phase = "INITIAL" THEN {} ELSE {clamp(s.extreme - TrailGap)})
  \cup (IF s.phase = "INITIAL" \/ swing >= price THEN {} ELSE {clamp(swing)})

\* One step: the partials that are due, then the best stop.
advance(prev, pos, swing) ==
  LET s0 == [prev EXCEPT !.extreme = Max({@, pos.mark})]
      due1 == ~s0.tp1Done /\ pos.mark >= Tp1R
      tp1 == IF due1 THEN partialQty(world.tp1Pct, s0, pos.qty) ELSE 0
      s1 == IF due1 THEN [s0 EXCEPT !.tp1Done = TRUE, !.phase = "PROTECTED", !.reduced = @ + tp1] ELSE s0
      due2 == isRunner(s1) /\ ~s1.tp2Done /\ pos.mark >= Tp2R
      tp2 == IF due2 THEN partialQty(world.tp2Pct, s1, pos.qty - tp1) ELSE 0
      s2 == IF due2 THEN [s1 EXCEPT !.tp2Done = TRUE, !.phase = "TRAILING", !.target = None, !.reduced = @ + tp2] ELSE s1
      best == Max(stopCandidates(s2, pos.mark, swing) \cup {s2.stop})
  IN [state |-> [s2 EXCEPT !.stop = best],
      plan |-> [tp1 |-> tp1, tp2 |-> tp2, move |-> best > s2.stop \/ s2.target # prev.target,
                stop |-> best, target |-> s2.target]]

----------------------------------------------------------------------------
(* PositionManagerStore *)

\* What the file is written for: a new extreme, or another size of the same
\* state, waits for a later tick or for the write of another position.
Material(old, s) ==
  ~(old # None /\ s # None
    /\ [s EXCEPT !.extreme = old.extreme, !.initial = old.initial, !.signalTarget = old.signalTarget] = old)

\* set and delete: memory first, then the file (best effort), where the state
\* before was old and saved is what the file then held.
Write(s, old, saved) ==
  /\ store' = s
  /\ \/ file' = s /\ UNCHANGED faults
     \/ ~Material(old, s) /\ file' = saved /\ UNCHANGED faults
     \/ Fault("disk") /\ file' \in {file, saved}

Save(s) == Write(s, store, file)

----------------------------------------------------------------------------
(* PositionDriver *)

Idle == \A p \in Passes : pass[p].pc = "idle"
Real == [qty |-> qty, entry |-> entry]
View == [qty |-> raw.qty, stop |-> stop, target |-> target, entry |-> raw.entry, mark |-> mark]
Goto(p, j) == pass' = [pass EXCEPT ![p] = j]

\* In a world without delays a pass acts on what it has just read.
Prompt == ~May("delayed") => \A p \in Passes : pass[p].pc # "queued"

\* Mutant: a position that is gone is managed like the others.
ManageFlat(p) ==
  /\ Prompt /\ pass[p].pc = "idle"
  /\ Goto(p, [NoPass EXCEPT !.pc = "queued", !.seen = View])
  /\ UNCHANGED <<world, venueVars, storeVars, busy, faults>>

\* manage reads the positions; the state of a position that is gone is dropped.
Manage(p) ==
  /\ Prompt /\ pass[p].pc = "idle"
  /\ IF raw.qty = 0
       THEN /\ store # None
            /\ Save(None)
            /\ UNCHANGED pass
       ELSE /\ Goto(p, [NoPass EXCEPT !.pc = "queued", !.seen = View])
            /\ UNCHANGED <<storeVars, faults>>
  /\ UNCHANGED <<world, venueVars, busy>>

\* Its turn comes while another pass is busy with the position.
Skip(p) ==
  /\ pass[p].pc = "queued" /\ busy
  /\ Goto(p, NoPass)
  /\ UNCHANGED <<world, venueVars, storeVars, busy, faults>>

\* The state a step starts from, rebuilt when the position changed outside.
baseState(pos) == IF store = None \/ isStale(store, pos) THEN initState(pos) ELSE store

Step(p) ==
  /\ pass[p].pc = "queued" /\ ~busy
  /\ \E swing \in Levels :
       LET base == baseState(pass[p].seen)
           res == advance([base EXCEPT !.stop = pass[p].seen.stop], pass[p].seen, swing) IN
       /\ Write(res.state, base, IF Material(store, base) THEN base ELSE file)
       /\ Goto(p, [pass[p] EXCEPT !.pc = "apply", !.plan = res.plan, !.state = res.state])
  /\ busy' = TRUE
  /\ UNCHANGED <<world, venueVars>>

\* apply REDUCE: the venue is called, and the driver told how much was executed.
Reason(plan) == IF plan.tp1 > 0 THEN "TP1" ELSE "TP2"
Due(plan) == IF plan.tp1 > 0 THEN plan.tp1 ELSE plan.tp2
Told(p, n) == Goto(p, [pass[p] EXCEPT !.pc = "sent", !.done = n])

\* The venue fills n lots of a partial.
Fill(reason, n) == qty' = qty - n /\ taken' = [taken EXCEPT ![reason] = @ + n]

\* LiveBook.reduce: one order, filled, filled in part or refused; or it is
\* filled and its answer lost, which the driver takes for a refusal.
reduceLive(p, reason, n) ==
  /\ UNCHANGED <<raw, job>>
  /\ \/ /\ \/ qty < n /\ UNCHANGED faults
           \/ Fault("reject")
        /\ Told(p, 0)
        /\ UNCHANGED <<qty, taken, misses>>
     \/ \E k \in 1 .. n :
          /\ k <= qty /\ (k < n => May("short"))
          /\ Fill(reason, k)
          /\ \/ Told(p, k) /\ UNCHANGED <<faults, misses>>
             \/ Fault("lost") /\ Told(p, 0) /\ misses' = misses + 1

\* RemoteExits.reduce: refused while a partial is queued; sized by what is held
\* and filled, or already flat; refused by the venue; filled too late for its
\* caller; or queued in an outage, whether the order landed or not, which is
\* swallowed: it returns as if sent.  A sync follows a fill, and may fail.
reduceRemote(p, reason, n) ==
  LET k == Min({n, qty}) IN
  IF job # None THEN Told(p, 0) /\ UNCHANGED <<qty, taken, raw, job, misses, faults>>
  ELSE \/ /\ Fill(reason, k) /\ Told(p, n)
          /\ UNCHANGED job
          /\ \/ raw' = [Real EXCEPT !.qty = @ - k] /\ UNCHANGED <<misses, faults>>
             \/ Fault("outage") /\ misses' = misses + 1 /\ UNCHANGED raw
       \/ /\ Fault("reject") /\ Told(p, 0)
          /\ UNCHANGED <<qty, taken, raw, job, misses>>
       \/ /\ Fault("lost") /\ qty > 0
          /\ Fill(reason, k) /\ Told(p, 0)
          /\ misses' = misses + 1
          /\ UNCHANGED <<raw, job>>
       \/ /\ Fault("outage") /\ Told(p, n)
          /\ misses' = misses + 1
          /\ \E landed \in {FALSE, qty > 0} :
               /\ job' = [reason |-> reason, n |-> n, filled |-> landed]
               /\ Fill(reason, IF landed THEN k ELSE 0)
          /\ UNCHANGED raw

Reduce(p) ==
  /\ Prompt /\ pass[p].pc = "apply" /\ Due(pass[p].plan) > 0
  /\ LET plan == pass[p].plan IN
     IF Live THEN reduceLive(p, Reason(plan), Due(plan)) ELSE reduceRemote(p, Reason(plan), Due(plan))
  /\ UNCHANGED <<world, stop, target, entry, mark, fetch, opened, storeVars, busy>>

\* Mutant: a partial fill is taken for a failure.
settleReverts(s, reason, n, done) == IF done < n THEN revertReduce(s, reason, n) ELSE s

\* Mutant: a partial fill is counted as a full one.
settleFull(s, reason, n, done) == IF done = 0 THEN revertReduce(s, reason, n) ELSE s

\* What the answer makes of the state: reverted, or counted as executed.
settle(s, reason, n, done) ==
  IF done = 0 THEN revertReduce(s, reason, n) ELSE [s EXCEPT !.reduced = Max({0, @ - (n - done)})]

\* Mutant: the live book keeps showing what it read.
shownStale(done) == raw

\* The live book subtracts what was executed from what it shows.
shown(done) ==
  IF Live /\ raw.qty > 0 THEN [raw EXCEPT !.qty = IF @ >= done THEN @ - done ELSE done - @] ELSE raw

Answered(p) ==
  /\ Prompt /\ pass[p].pc = "sent"
  /\ LET plan == pass[p].plan
         s == settle(pass[p].state, Reason(plan), Due(plan), pass[p].done) IN
     /\ IF s = pass[p].state THEN UNCHANGED <<storeVars, faults>> ELSE Save(s)
     /\ Goto(p, [pass[p] EXCEPT !.pc = "apply", !.state = s, !.done = 0,
                                !.plan = IF plan.tp1 > 0 THEN [plan EXCEPT !.tp1 = 0] ELSE [plan EXCEPT !.tp2 = 0]])
  /\ raw' = shown(pass[p].done)
  /\ UNCHANGED <<world, qty, stop, target, entry, mark, fetch, job, opened, taken, misses, busy>>

\* Mutant: the live book takes the driver's word for what is tighter.
venueStopLiveBlind(level) == level

\* LiveBook.updateStops compares with its own record; the remote broker does not.
venueStop(level) == IF Live THEN Max({stop, level}) ELSE level

\* The live book can drop a target but not place one.
venueTarget(level) == IF Live /\ level # None THEN target ELSE level

\* apply MOVE_STOP, against the stop the pass read.
Move(p) ==
  /\ Prompt /\ pass[p].pc = "apply" /\ Due(pass[p].plan) = 0
  /\ LET plan == pass[p].plan
         tightens == plan.stop > pass[p].seen.stop
         level == IF tightens THEN plan.stop ELSE pass[p].seen.stop IN
     /\ plan.move /\ (tightens \/ plan.target # pass[p].seen.target)
     /\ \/ /\ qty > 0
           /\ stop' = venueStop(level) /\ target' = venueTarget(plan.target)
           /\ Save([pass[p].state EXCEPT !.stop = level])
        \/ /\ qty = 0 \/ (May("reject") /\ faults < MaxFaults)
           /\ faults' = IF qty = 0 THEN faults ELSE faults + 1
           /\ UNCHANGED <<stop, target, storeVars>>
  /\ Goto(p, NoPass) /\ busy' = FALSE
  /\ UNCHANGED <<world, qty, entry, mark, raw, fetch, job, opened, taken, misses>>

\* Nothing (more) to apply.
Done(p) ==
  /\ Prompt /\ pass[p].pc = "apply" /\ Due(pass[p].plan) = 0
  /\ LET plan == pass[p].plan IN
     ~(plan.move /\ (plan.stop > pass[p].seen.stop \/ plan.target # pass[p].seen.target))
  /\ Goto(p, NoPass) /\ busy' = FALSE
  /\ UNCHANGED <<world, venueVars, storeVars, faults>>

----------------------------------------------------------------------------
(* The venue, the market and restarts *)

\* The positions the live book's refresh is going to show.
Fetch ==
  /\ Prompt /\ May("overlap") /\ Live /\ fetch = None
  /\ fetch' = Real
  /\ UNCHANGED <<world, qty, stop, target, entry, mark, raw, job, opened, taken, misses, storeVars, busy, pass, faults>>

\* refresh of the live book and sync of the remote broker; where they do not
\* overlap other steps, between two calls for the position.
Refresh ==
  /\ Prompt
  /\ IF May("overlap") /\ Live
       THEN fetch # None /\ raw' = fetch
       ELSE (\A p \in Passes : pass[p].pc # "sent") /\ raw' = Real
  /\ fetch' = None
  /\ UNCHANGED <<world, qty, stop, target, entry, mark, job, opened, taken, misses, storeVars, busy, pass, faults>>

\* retryPending: the queued partial is looked up if it may have landed, dropped
\* when nothing is held, sent again, or refused.
RetryExit ==
  /\ Prompt /\ job # None
  /\ \/ /\ job.filled \/ qty = 0
        /\ job' = None
        /\ UNCHANGED <<qty, taken, faults>>
     \/ /\ ~job.filled /\ qty > 0
        /\ Fill(job.reason, Min({job.n, qty}))
        /\ \/ job' = None /\ UNCHANGED faults
           \/ Fault("outage") /\ job' = [job EXCEPT !.filled = TRUE]
     \/ /\ ~job.filled /\ qty > 0 /\ Fault("reject")
        /\ job' = None
        /\ UNCHANGED <<qty, taken>>
  /\ UNCHANGED <<world, stop, target, entry, mark, raw, fetch, opened, misses, storeVars, busy, pass>>

\* The price moves; the stop or the target may close the position.  While a
\* partial is queued the remote broker starts no exit; the venue may.
MarkMoves ==
  /\ Prompt
  /\ \E level \in Levels :
       /\ mark' = level
       /\ LET hit == level <= stop \/ (target # None /\ level >= target) IN
          \/ hit /\ qty' = 0
          \/ (hit => job # None) /\ UNCHANGED qty
  /\ UNCHANGED <<world, stop, target, entry, raw, fetch, job, opened, taken, misses, storeVars, busy, pass, faults>>

\* A new position of the strategy, or a scale-in that replaces the levels.
\* The remote broker opens nothing while an exit is queued.
Enter ==
  /\ Prompt /\ job = None
  /\ entry < MaxEntries /\ May("again") /\ (qty > 0 \/ raw.qty > 0 \/ ~Idle => May("scale"))
  /\ entry' = entry + 1
  /\ qty' = qty + Lots /\ opened' = qty + Lots
  /\ stop' = -1 /\ target' = world.target /\ mark' = 0
  /\ taken' = [r \in {"TP1", "TP2"} |-> 0] /\ misses' = 0
  /\ UNCHANGED <<world, raw, fetch, job, storeVars, busy, pass, faults>>

\* The state comes back from its file; the queued partial is forgotten.  The
\* live book shows nothing before its first refresh, while the remote broker is
\* not used before its first sync.
Crash ==
  /\ Prompt
  /\ Fault("crash")
  /\ store' = file
  /\ busy' = FALSE
  /\ pass' = [p \in Passes |-> NoPass]
  /\ raw' = IF Live THEN [qty |-> 0, entry |-> 1] ELSE Real
  /\ fetch' = None /\ job' = None
  /\ UNCHANGED <<world, qty, stop, target, entry, mark, opened, taken, misses, file>>

----------------------------------------------------------------------------

Init ==
  /\ world \in Worlds
  /\ entry = 1 /\ qty = Lots /\ opened = Lots /\ stop = -1 /\ target = world.target /\ mark = 0
  /\ raw = Real /\ fetch = None /\ job = None
  /\ taken = [r \in {"TP1", "TP2"} |-> 0] /\ misses = 0
  /\ store = None /\ file = None /\ busy = FALSE
  /\ pass = [p \in Passes |-> NoPass]
  /\ faults = 0

Next ==
  \/ \E p \in Passes : Manage(p)
  \/ \E p \in Passes : Skip(p)
  \/ \E p \in Passes : Step(p)
  \/ \E p \in Passes : Reduce(p)
  \/ \E p \in Passes : Answered(p)
  \/ \E p \in Passes : Move(p)
  \/ \E p \in Passes : Done(p)
  \/ Fetch \/ Refresh \/ RetryExit
  \/ MarkMoves \/ Enter \/ Crash

Spec == Init /\ [][Next]_vars

----------------------------------------------------------------------------
(* Properties *)

\* Types; a pass never holds a position without lots.
TypeOK ==
  /\ world \in Worlds
  /\ qty \in 0 .. Lots * MaxEntries /\ stop \in Stops /\ target \in Targets
  /\ entry \in 1 .. MaxEntries /\ mark \in Levels
  /\ raw \in [qty : 0 .. Lots * MaxEntries, entry : 1 .. MaxEntries]
  /\ fetch \in [qty : 0 .. Lots * MaxEntries, entry : 1 .. MaxEntries] \cup {None}
  /\ job \in ExitJobs \cup {None} /\ misses \in 0 .. MaxFaults
  /\ store \in PmStates \cup {None} /\ file \in PmStates \cup {None}
  /\ busy \in BOOLEAN /\ faults \in 0 .. MaxFaults
  /\ pass \in [Passes -> [pc : {"idle", "queued", "apply", "sent"},
        seen : [qty : 1 .. Lots * MaxEntries, stop : Stops, target : Targets, entry : 1 .. MaxEntries, mark : Levels] \cup {None},
        plan : [tp1 : 0 .. Lots * MaxEntries, tp2 : 0 .. Lots * MaxEntries, move : BOOLEAN, stop : Stops, target : Targets],
        state : PmStates \cup {None}, done : 0 .. Lots * MaxEntries]]
  /\ taken \in [{"TP1", "TP2"} -> 0 .. Lots * MaxEntries]

\* A partial is taken once per entry, whatever is refused, filled in part or
\* retried: TP1 and TP2 may be due in one pass with either order failing, and
\* passes of tick and cycle overlap.  A fill the driver or the broker was not
\* told of costs the position that partial once more, and no more than once:
\* the lost answer of a live order, a partial that the remote broker queued in
\* an outage, or a sync that fails after one.
PartialOnce ==
  world.kinds \cap {"delayed", "overlap", "scale", "disk", "crash"} = {}
  => /\ taken["TP1"] <= (1 + misses) * ((opened * world.tp1Pct) \div 100)
     /\ taken["TP2"] <= (1 + misses) * ((opened * world.tp2Pct) \div 100)

\* The partials never use the position up, not even when restarts make the
\* manager rebuild its state and take a partial again, unless a fill was missed.
\* (A pass that is under way while the position closes and a smaller one is
\* opened sends the partials of the old one; a world with "scale" is therefore
\* left out.)
RunnerLeft ==
  world.kinds \cap {"delayed", "overlap", "scale"} = {} /\ misses = 0
  => taken["TP1"] + taken["TP2"] <= opened - MinQty

\* Both bounds on what the manager's partials take from an entry.
PartialsBounded == PartialOnce /\ RunnerLeft

\* The books agree: between passes the lots the state expects are the lots that
\* are held, after refused orders, partial fills and outside additions alike,
\* as long as no fill was missed.
LotsAgree ==
  world.kinds \cap {"delayed", "overlap", "disk", "crash"} = {} /\ misses = 0 /\ Idle /\ store # None /\ qty > 0
  => store.entry # entry \/ store.initial - store.reduced = qty

\* PositionManager.ts: "the manager only ever ratchets it toward price".  The
\* venue's stop is never moved back, by a pass that acts on old levels either
\* (the remote broker, which does not compare, only for prompt passes).
Ratchet ==
  [][entry' = entry /\ ~(world.venue = "remote" /\ May("delayed")) => stop' >= stop]_vars

\* PositionDriver.ts: "will retry".  Between passes a partial is marked as done
\* only when lots were taken, it or the rest was too small, or the stop already
\* locked in the entry.  One that was refused, or that a crash cut off after the
\* flag was saved, is still to be taken, or the state is rebuilt first: the crash
\* shows in lots that are left over.  After two missed fills, or one beside a
\* crash, it need not: a missed fill makes the state expect more lots than are
\* held, which hides a partial that was cut off, or queued and then refused.
TakenOrRetried ==
  LET tp1 == partialQty(world.tp1Pct, store, qty)
      tp2 == partialQty(world.tp2Pct, store, IF store.tp1Done THEN qty ELSE qty - tp1) IN
  world.kinds \cap {"delayed", "overlap"} = {} /\ misses <= (IF May("crash") THEN 0 ELSE 1)
  /\ Idle /\ store # None /\ qty > 0
  => \/ isStale(store, Real)
     \/ /\ store.tp1Done => taken["TP1"] > 0 \/ tp1 = 0 \/ stop >= 0
        /\ store.tp2Done => taken["TP2"] > 0 \/ tp2 = 0

\* Between passes the saved state of PositionDriver.ts describes the position:
\* its lots and which partials are still to be taken.
StoreAgrees == LotsAgree /\ TakenOrRetried
=============================================================================
