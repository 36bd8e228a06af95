----------------------- MODULE PositionManagerProofs -----------------------
(***************************************************************************)
(* Proofs about the position manager and its driver for every number of    *)
(* lots, every set of price levels, every number of passes, of entries and *)
(* of faults: the stop is never moved back, a partial is taken once and    *)
(* once more for every fill that was missed, and as long as none was, a    *)
(* remainder is left and between passes the state agrees with the venue.   *)
(*                                                                         *)
(* One pass at a time is between Step and the end of apply (Working), and  *)
(* without delays it saw the position as it still is (Seeing).  The lots   *)
(* it still means to take, Pending, are the difference of what the state   *)
(* has counted as gone and what has really left the venue.  What a pass    *)
(* reads is what the venue object shows, which is the venue's own count    *)
(* only while no fill was missed (Showing).                                *)
(***************************************************************************)
EXTENDS PositionManager, TLAPS

Bound == Lots * MaxEntries
Shows == [qty : 0 .. Bound, entry : 1 .. MaxEntries]
Views == [qty : 1 .. Bound, stop : Stops, target : Targets, entry : 1 .. MaxEntries, mark : Levels]
Plans == [tp1 : 0 .. Bound, tp2 : 0 .. Bound, move : BOOLEAN, stop : Stops, target : Targets]
GoodStates == {s \in PmStates : s.reduced <= s.initial}
Jobs == [pc : {"idle", "queued", "apply", "sent"}, seen : Views \cup {None}, plan : Plans,
         state : PmStates \cup {None}, done : 0 .. Bound]

\* Between Step and the end of apply.
Acting(p) == pass[p].pc \in {"apply", "sent"}

\* The lots a job still means to take.
Pend(j) == (j.plan.tp1 + j.plan.tp2) - j.done

\* The lots of a partial before the minimum is looked at.
Part(pct, s) == (s.initial * pct) \div 100

\* What advance makes of a state and what it plans.
Advanced(prev, pos, s, plan) ==
  /\ s \in PmStates /\ plan \in Plans /\ s.entry = prev.entry /\ s.initial = prev.initial
  /\ s.reduced = prev.reduced + (plan.tp1 + plan.tp2)
  /\ plan.stop >= prev.stop
  /\ plan.tp1 + plan.tp2 = 0 \/ plan.tp1 + plan.tp2 <= pos.qty - MinQty
  /\ plan.tp1 > 0 => plan.tp1 = Part(world.tp1Pct, prev) /\ ~prev.tp1Done /\ s.tp1Done
  /\ plan.tp2 > 0 => plan.tp2 = Part(world.tp2Pct, prev) /\ ~prev.tp2Done /\ s.tp2Done
  /\ ~s.tp1Done => ~prev.tp1Done
  /\ ~s.tp2Done => ~prev.tp2Done

\* What the answer to a partial makes of a state.
Settled(s, plan, done, t) ==
  /\ t \in GoodStates /\ t.entry = s.entry /\ t.initial = s.initial
  /\ t.reduced = s.reduced - (Due(plan) - done)
  /\ t.tp1Done = s.tp1Done \/ (plan.tp1 > 0 /\ done = 0)
  /\ t.tp2Done = s.tp2Done \/ (~(plan.tp1 > 0) /\ done = 0)

\* The state a step of a pass begins with.
Based(pos, b) ==
  /\ b \in PmStates /\ b.entry = pos.entry /\ b.stop = pos.stop /\ pos.qty <= b.initial - b.reduced
  /\ \/ (store = None \/ isStale(store, pos)) /\ b.initial = pos.qty /\ b.reduced = 0
     \/ /\ store # None /\ ~isStale(store, pos) /\ b.initial = store.initial /\ b.reduced = store.reduced
        /\ b.tp1Done = store.tp1Done /\ b.tp2Done = store.tp2Done

\* What the live book has executed for a job and still shows.
Unshown(j) == IF world.venue = "live" /\ j.pc = "sent" THEN j.done ELSE 0

\* The two partials: their percentages, their shares of the entry, their lots in a plan, their flags.
Reasons == {"TP1", "TP2"}
Pct(r) == IF r = "TP1" THEN world.tp1Pct ELSE world.tp2Pct
Share(r) == (opened * Pct(r)) \div 100
PlanQty(plan, r) == IF r = "TP1" THEN plan.tp1 ELSE plan.tp2
FlagUp(s, r) == IF r = "TP1" THEN s.tp1Done ELSE s.tp2Done

\* What a partial has taken and what is queued for it is at most m shares.
Queued(r) == IF job # None /\ ~job.filled /\ job.reason = r THEN job.n ELSE 0
Out(r) == taken[r] + Queued(r)
Times(m, x) == m * x
Within(r, m) == Out(r) <= Times(m, Share(r))
AllWithin == \A r \in Reasons : Within(r, misses)

\* A set with a largest element.
HasMax(S) == \E x \in S : \A y \in S : x >= y

----------------------------------------------------------------------------
(* The inductive invariant *)

\* The venue, and what has left it.
VenueTypes ==
  /\ world \in Worlds /\ faults \in 0 .. MaxFaults /\ misses \in 0 .. faults
  /\ qty \in Nat /\ opened \in Nat /\ entry \in 1 .. MaxEntries
  /\ opened >= Lots /\ opened <= Lots * entry
  /\ taken \in [{"TP1", "TP2"} -> Nat] /\ (taken["TP1"] + taken["TP2"]) + qty <= opened
ShownTypes == raw \in Shows /\ fetch \in Shows \cup {None} /\ job \in ExitJobs \cup {None}
LevelTypes == stop \in Stops /\ target \in Targets /\ mark \in Levels
StoreTypes == store \in GoodStates \cup {None} /\ file \in GoodStates \cup {None}
PassTypes == pass \in [Passes -> Jobs] /\ busy \in BOOLEAN

\* What a job between Step and the end of apply holds.
JobOK(j) ==
  /\ j.seen \in Views /\ j.state \in GoodStates
  /\ j.plan.tp1 + j.plan.tp2 <= j.state.reduced
  /\ j.plan.stop >= j.seen.stop
  /\ j.done <= Due(j.plan)
  /\ j.pc = "apply" => j.done = 0
  /\ j.pc = "sent" => Due(j.plan) > 0

\* The busy flag admits one pass at a time.
Working ==
  \A p \in Passes :
    /\ pass[p].pc = "queued" => pass[p].seen \in Views /\ pass[p].done = 0
    /\ Acting(p) => busy /\ JobOK(pass[p])
    /\ \A q \in Passes : Acting(p) /\ Acting(q) => p = q

\* Without delays a pass acts on what is there; the stop can only be dropped by a new entry.
Seeing ==
  ~May("delayed") =>
    \A p \in Passes : /\ pass[p].pc = "queued" => pass[p].seen = View
                      /\ Acting(p) => stop <= pass[p].seen.stop

\* What the venue object shows of the entry: all that is held, and no more than
\* was opened, and exactly what is held while no fill was missed.  A new entry
\* that is not shown yet is not touched either.
ShowsLots ==
  misses = 0 /\ raw.entry = entry /\ qty > 0 /\ raw.qty > 0 =>
    /\ \A p \in Passes : pass[p].pc = "sent" => raw.qty = qty + Unshown(pass[p])
    /\ (\A p \in Passes : pass[p].pc # "sent") => raw.qty = qty
ShowsEnough ==
  ~May("crash") /\ raw.entry = entry =>
    /\ qty <= raw.qty /\ raw.qty <= opened
    /\ \A p \in Passes : qty + Unshown(pass[p]) <= raw.qty
NotShown ==
  ~May("scale") /\ raw.entry # entry =>
    /\ raw.qty = 0 /\ Idle
    /\ ~May("crash") => taken["TP1"] = 0 /\ taken["TP2"] = 0 /\ job = None
Showing ==
  ~May("overlap") =>
    /\ raw.entry <= entry
    /\ misses = 0 => job = None
    /\ ShowsLots /\ ShowsEnough /\ NotShown

\* The state is that of the pass, unless the position it was about is gone; while
\* no fill was missed it counts as gone what has left the venue and what the pass
\* still means to take.
Followed ==
  /\ store # None => store.entry <= raw.entry
  /\ \A p \in Passes : Acting(p) =>
       /\ pass[p].state.entry <= raw.entry
       /\ store = pass[p].state \/ (store = None /\ (qty = 0 \/ pass[p].state.entry # entry))
CountsLots ==
  store # None /\ store.entry = entry /\ qty > 0 =>
    /\ \A p \in Passes : Acting(p) => store.initial - store.reduced = qty - Pend(pass[p])
    /\ (\A p \in Passes : ~Acting(p)) => store.initial - store.reduced = qty
Agreeing == world.kinds \cap {"delayed", "overlap", "disk", "crash"} = {} => Followed /\ (misses = 0 => CountsLots)

\* The venue object shows more than the state of a job counts on.
Higher(j) == raw.qty > ((j.state.initial - j.state.reduced) + Pend(j)) + Unshown(j)

\* A partial that is still to be taken, because its flag is down or the pass has
\* it in its plan, has taken at most one share for every fill missed; so has
\* either partial when the state is about to be rebuilt.
Planned(j) ==
  /\ j.state.entry = entry /\ j.state.initial <= opened
  /\ \A r \in Reasons :
       /\ PlanQty(j.plan, r) > 0 => PlanQty(j.plan, r) <= Share(r) /\ FlagUp(j.state, r)
       /\ PlanQty(j.plan, r) > 0 /\ ~(j.pc = "sent" /\ Reason(j.plan) = r /\ j.done > 0) => Within(r, misses)
       /\ ~FlagUp(j.state, r) => Within(r, misses)
       /\ Higher(j) => /\ Within(r, misses)
                       /\ PlanQty(j.plan, r) > 0 /\ ~(j.pc = "sent" /\ Reason(j.plan) = r) => Within(r, misses - 1)
Kept(s) ==
  /\ s.initial <= opened
  /\ \A r \in Reasons : ~FlagUp(s, r) => Within(r, misses)
  /\ raw.qty > s.initial - s.reduced => AllWithin
Gone == qty = 0 /\ raw.qty = 0
Shares == \A r \in Reasons : Within(r, misses + 1)
JobsPlanned == \A p \in Passes : Acting(p) => Planned(pass[p]) /\ (store = None => Gone)
NotActing ==
  (\A p \in Passes : ~Acting(p)) =>
    IF store # None /\ store.entry = entry THEN Kept(store) ELSE AllWithin \/ Gone
Once ==
  world.kinds \cap {"delayed", "overlap", "scale", "disk", "crash"} = {} => Shares /\ JobsPlanned /\ NotActing

\* A remainder is there, and the pass under way means to leave it.
Remainder ==
  world.kinds \cap {"delayed", "overlap", "scale"} = {} /\ misses = 0 =>
    /\ qty = 0 \/ qty >= MinQty
    /\ taken["TP1"] + taken["TP2"] <= opened - MinQty
    /\ \A p \in Passes : Acting(p) /\ qty > 0 => Pend(pass[p]) <= qty - MinQty

Types == VenueTypes /\ ShownTypes /\ LevelTypes /\ StoreTypes /\ PassTypes
ManagerInv == Types /\ Working /\ Seeing /\ Showing /\ Agreeing /\ Once /\ Remainder

----------------------------------------------------------------------------
(* What the steps of a pass do, field by field *)

Others(p) == \A q \in Passes \ {p} : pass'[q] = pass[q]

Stepped(p) ==
  /\ pass[p].pc = "queued" /\ ~busy /\ busy' = TRUE
  /\ pass'[p].pc = "apply" /\ pass'[p].seen = pass[p].seen /\ pass'[p].done = 0
  /\ store' = pass'[p].state /\ store' \in GoodStates /\ pass'[p].plan \in Plans
  /\ \E b \in PmStates : Based(pass[p].seen, b) /\ Advanced(b, pass[p].seen, store', pass'[p].plan)
  /\ UNCHANGED <<world, venueVars>>

\* n lots are executed and the driver is told of m: of what happened, or not.
Truthful(p, n, m) ==
  LET due == Due(pass[p].plan) IN
  /\ UNCHANGED <<job, misses>>
  /\ \/ raw' = raw /\ n = m /\ (world.venue = "live" \/ n = 0)
     \/ /\ world.venue = "remote" /\ m = due /\ n = IF due <= qty THEN due ELSE qty
        /\ raw' = [qty |-> qty - n, entry |-> entry]
Missed(m) == misses' = misses + 1 /\ faults' = faults + 1 /\ raw' = raw /\ (world.venue = "live" => m = 0)

Filled(p, n, m) ==
  /\ pass[p].pc = "apply" /\ Due(pass[p].plan) > 0
  /\ n \in 0 .. Due(pass[p].plan) /\ m \in 0 .. Due(pass[p].plan) /\ n <= qty /\ qty' = qty - n
  /\ taken' \in [{"TP1", "TP2"} -> Nat]
  /\ taken'["TP1"] = taken["TP1"] + (IF pass[p].plan.tp1 > 0 THEN n ELSE 0)
  /\ taken'["TP2"] = taken["TP2"] + (IF pass[p].plan.tp1 > 0 THEN 0 ELSE n)
  /\ \A r \in Reasons : Out(r)' <= Out(r) + (IF r = Reason(pass[p].plan) THEN Due(pass[p].plan) ELSE 0)
  /\ Truthful(p, n, m) \/ Missed(m)
  /\ pass'[p].pc = "sent" /\ pass'[p].seen = pass[p].seen /\ pass'[p].plan = pass[p].plan
  /\ pass'[p].state = pass[p].state /\ pass'[p].done = m
  /\ UNCHANGED <<world, stop, target, entry, mark, fetch, opened, store, file, busy>>

Counted(p) ==
  /\ pass[p].pc = "sent" /\ pass'[p].pc = "apply" /\ pass'[p].seen = pass[p].seen /\ pass'[p].done = 0
  /\ Settled(pass[p].state, pass[p].plan, pass[p].done, pass'[p].state)
  /\ pass'[p].plan.stop = pass[p].plan.stop
  /\ IF pass[p].plan.tp1 > 0 THEN pass'[p].plan.tp1 = 0 /\ pass'[p].plan.tp2 = pass[p].plan.tp2
                            ELSE pass'[p].plan.tp1 = pass[p].plan.tp1 /\ pass'[p].plan.tp2 = 0
  /\ store' = pass'[p].state \/ (store' = store /\ pass'[p].state = pass[p].state)
  /\ raw' = shown(pass[p].done)
  /\ UNCHANGED <<world, qty, stop, target, entry, mark, fetch, job, opened, taken, misses, busy>>

SameLots(s, t) ==
  t.entry = s.entry /\ t.initial = s.initial /\ t.reduced = s.reduced /\ t.tp1Done = s.tp1Done /\ t.tp2Done = s.tp2Done

Ended(p) ==
  /\ pass[p].pc = "apply" /\ Due(pass[p].plan) = 0 /\ pass'[p] = NoPass /\ busy' = FALSE
  /\ UNCHANGED <<world, qty, entry, mark, raw, fetch, job, opened, taken, misses>>
  /\ \/ UNCHANGED <<stop, target, store>>
     \/ /\ qty > 0 /\ store' \in GoodStates /\ SameLots(pass[p].state, store')
        /\ stop' \in Stops /\ target' \in Targets
        /\ world.venue = "live" \/ stop' >= pass[p].seen.stop
        /\ world.venue = "live" => stop' >= stop

----------------------------------------------------------------------------
(* Parameters and arithmetic *)

LEMMA Parameters ==
  /\ TrailGap \in Nat /\ MinGap \in Nat /\ MaxFaults \in Nat /\ Lots \in Nat \ {0} /\ MinQty \in Nat \ {0}
  /\ MaxEntries \in Nat \ {0} /\ Lots >= MinQty /\ Levels \subseteq Int /\ -1 \in Levels /\ 0 \in Levels
  BY ManagerAssumption

(* The parts of a world. *)
LEMMA WorldParts ==
  ASSUME world \in Worlds
  PROVE  /\ world.tp1Pct \in 0 .. 100 /\ world.tp2Pct \in 0 .. 100 /\ world.target \in Targets
         /\ world.venue \in {"live", "remote"}
  BY ManagerAssumption DEF Targets

(* The bound on quantities is positive and holds every entry's lots. *)
LEMMA BoundType ==
  /\ Bound \in Nat \ {0}
  /\ \A e \in 1 .. MaxEntries : Lots * e <= Bound /\ Lots * e \in Nat /\ Lots * (e + 1) = Lots * e + Lots
<1>1. Lots \in Nat \ {0} /\ MaxEntries \in Nat \ {0}
  BY Parameters
<1>2. Lots * MaxEntries \in Nat \ {0}
  BY <1>1
<1>3. ASSUME NEW e \in 1 .. MaxEntries
      PROVE  Lots * e <= Lots * MaxEntries /\ Lots * e \in Nat /\ Lots * (e + 1) = Lots * e + Lots
  BY <1>1
<1>4. QED
  BY <1>2, <1>3 DEF Bound

(* The greater of two integers is one of them and bounds both. *)
LEMMA Greater ==
  ASSUME NEW a \in Int, NEW b \in Int
  PROVE  Max({a, b}) \in {a, b} /\ Max({a, b}) >= a /\ Max({a, b}) >= b
<1>1. \E x \in {a, b} : \A y \in {a, b} : x >= y
  OBVIOUS
<1>2. QED
  BY <1>1 DEF Max

(* The greater of two integers, as a choice. *)
LEMMA MaxIs == ASSUME NEW a \in Int, NEW b \in Int PROVE Max({a, b}) = IF a >= b THEN a ELSE b
<1>1. Max({a, b}) \in {a, b} /\ Max({a, b}) >= a /\ Max({a, b}) >= b
  BY Greater
<1>2. QED
  BY <1>1

(* The smaller of two integers is one of them and is bounded by both. *)
LEMMA Smaller ==
  ASSUME NEW a \in Int, NEW b \in Int
  PROVE  Min({a, b}) \in {a, b} /\ Min({a, b}) <= a /\ Min({a, b}) <= b
<1>1. \E x \in {a, b} : \A y \in {a, b} : x <= y
  OBVIOUS
<1>2. QED
  BY <1>1 DEF Min

(* The levels have a highest one. *)
LEMMA TopLevel == Max(Levels) \in Levels /\ Max(Levels) \in Int /\ (\A level \in Levels : level <= Max(Levels))
<1>1. \E top \in Levels : \A level \in Levels : top >= level
  BY ManagerAssumption
<1>2. Max(Levels) \in Levels /\ \A level \in Levels : Max(Levels) >= level
  BY <1>1 DEF Max
<1>3. QED
  BY <1>2, Parameters

(* A set of integers with a largest one keeps one when it grows by one. *)
LEMMA MaxOfUnion ==
  ASSUME NEW S \in SUBSET Int, HasMax(S), NEW x \in Int
  PROVE  HasMax(S \cup {x})
<1>1. PICK m \in S : \A y \in S : m >= y
  BY DEF HasMax
<1>2. CASE m >= x
  BY <1>1, <1>2 DEF HasMax
<1>3. CASE ~(m >= x)
  BY <1>1, <1>3 DEF HasMax
<1>4. QED
  BY <1>2, <1>3

(* advance's choice of the stop. *)
LEMMA BestStop ==
  ASSUME NEW C \in SUBSET Int, C = {} \/ HasMax(C), NEW old \in Stops, \A c \in C : c <= Max(Levels)
  PROVE  Max(C \cup {old}) \in Stops /\ Max(C \cup {old}) >= old
<1>1. old \in Int /\ old >= -1 /\ old <= Max(Levels) /\ Max(Levels) \in Int
  BY TopLevel DEF Stops
<1>2. HasMax(C \cup {old})
  <2>1. CASE C = {}
    BY <1>1, <2>1 DEF HasMax
  <2>2. CASE C # {}
    BY <1>1, <2>2, MaxOfUnion
  <2>3. QED
    BY <2>1, <2>2
<1> DEFINE m == Max(C \cup {old})
<1>3. m \in C \cup {old} /\ \A y \in C \cup {old} : m >= y
  BY <1>2 DEF HasMax, Max
<1> HIDE DEF m
<1>4. m \in Int /\ m >= old /\ m <= Max(Levels)
  BY <1>1, <1>3
<1>5. m \in Stops
  BY <1>1, <1>4, TopLevel DEF Stops
<1>6. QED
  BY <1>4, <1>5 DEF m

(* The candidates for a stop are levels, none above the highest, and have a best one if there are any. *)
LEMMA Candidates ==
  ASSUME NEW s \in PmStates, NEW price \in Levels, NEW swing \in Levels
  PROVE  LET C == stopCandidates(s, price, swing) IN
         C \in SUBSET Int /\ (C = {} \/ HasMax(C)) /\ \A c \in C : c <= Max(Levels)
<1> DEFINE C == stopCandidates(s, price, swing)
           armed == IF world.breakevenAfter = "TP1" THEN s.tp1Done ELSE s.tp2Done
           clamp(level) == Min({level, price - MinGap})
           trail == clamp(s.extreme - TrailGap)
           near == clamp(swing)
           A == IF armed /\ price > 0 THEN {0} ELSE {}
           B == IF s.phase = "INITIAL" THEN {} ELSE {trail}
           D == IF s.phase = "INITIAL" \/ swing >= price THEN {} ELSE {near}
<1>1. s.extreme \in Levels /\ s.extreme \in Int /\ price \in Int /\ swing \in Int /\ TrailGap \in Nat /\ MinGap \in Nat
  BY Parameters DEF PmStates
<1>2. C = A \cup B \cup D
  BY DEF stopCandidates
<1>3. trail \in Int /\ trail <= Max(Levels)
  <2>1. s.extreme - TrailGap \in Int /\ price - MinGap \in Int
    BY <1>1
  <2>2. trail \in Int /\ trail <= s.extreme - TrailGap
    BY <2>1, Smaller
  <2> HIDE DEF trail
  <2>3. s.extreme <= Max(Levels) /\ Max(Levels) \in Int
    BY <1>1, TopLevel
  <2>4. QED
    BY <1>1, <2>2, <2>3
<1>4. near \in Int /\ near <= Max(Levels)
  <2>1. price - MinGap \in Int
    BY <1>1
  <2>2. near \in Int /\ near <= swing
    BY <1>1, <2>1, Smaller
  <2> HIDE DEF near
  <2>3. swing <= Max(Levels) /\ Max(Levels) \in Int
    BY TopLevel
  <2>4. QED
    BY <1>1, <2>2, <2>3
<1>5. 0 <= Max(Levels)
  BY TopLevel, Parameters
<1> HIDE DEF C, armed, trail, near
<1>6. A \in SUBSET Int /\ B \in SUBSET Int /\ D \in SUBSET Int
  BY <1>3, <1>4
<1>7. A = {} \/ HasMax(A)
  BY DEF HasMax
<1>8. A \cup B = {} \/ HasMax(A \cup B)
  <2>1. CASE B = {}
    BY <1>7, <2>1
  <2>2. CASE B = {trail}
    <3>1. CASE A = {}
      BY <1>3, <2>2, <3>1 DEF HasMax
    <3>2. CASE A # {}
      <4> HIDE DEF A, B
      <4>1. QED
        BY <1>3, <1>6, <1>7, <2>2, <3>2, MaxOfUnion
    <3>3. QED
      BY <3>1, <3>2
  <2>3. QED
    BY <2>1, <2>2
<1>9. C = {} \/ HasMax(C)
  <2>1. CASE D = {}
    BY <1>2, <1>8, <2>1
  <2>2. CASE D = {near}
    <3>1. CASE A \cup B = {}
      BY <1>2, <1>4, <2>2, <3>1 DEF HasMax
    <3>2. CASE A \cup B # {}
      <4> HIDE DEF A, B, D
      <4>1. A \cup B \in SUBSET Int
        BY <1>6
      <4>2. QED
        BY <1>2, <1>4, <1>8, <2>2, <3>2, <4>1, MaxOfUnion
    <3>3. QED
      BY <3>1, <3>2
  <2>3. QED
    BY <2>1, <2>2
<1>10. C \in SUBSET Int /\ \A c \in C : c <= Max(Levels)
  BY <1>2, <1>3, <1>4, <1>5
<1>11. QED
  BY <1>9, <1>10 DEF C

----------------------------------------------------------------------------
(* PositionManager's functions *)

LEMMA StateFields ==
  ASSUME NEW s \in PmStates
  PROVE  /\ s.entry \in 1 .. MaxEntries /\ s.initial \in 1 .. Bound /\ s.reduced \in 0 .. Bound /\ s.phase \in Phases
         /\ s.stop \in Stops /\ s.target \in Targets /\ s.signalTarget \in Targets
         /\ s.tp1Done \in BOOLEAN /\ s.tp2Done \in BOOLEAN /\ s.extreme \in Levels
         /\ s.initial \in Nat /\ s.reduced \in Nat
<1>1. /\ s.entry \in 1 .. MaxEntries /\ s.initial \in 1 .. Bound /\ s.reduced \in 0 .. Bound /\ s.phase \in Phases
      /\ s.stop \in Stops /\ s.target \in Targets /\ s.signalTarget \in Targets
      /\ s.tp1Done \in BOOLEAN /\ s.tp2Done \in BOOLEAN /\ s.extreme \in Levels
  BY DEF PmStates, Bound
<1>2. QED
  BY <1>1, BoundType

(* The fields of a view of the position. *)
LEMMA ViewFields ==
  ASSUME NEW v \in Views
  PROVE  /\ v.qty \in 1 .. Bound /\ v.stop \in Stops /\ v.target \in Targets /\ v.entry \in 1 .. MaxEntries
         /\ v.mark \in Levels /\ v.qty \in Nat \ {0} /\ v.mark \in Int /\ v.stop \in Int /\ v.stop >= -1
<1>1. /\ v.qty \in 1 .. Bound /\ v.stop \in Stops /\ v.target \in Targets /\ v.entry \in 1 .. MaxEntries
      /\ v.mark \in Levels
  BY DEF Views
<1>2. v.qty \in Nat \ {0} /\ v.mark \in Int
  <2>1. Bound \in Nat
    BY BoundType
  <2>2. v.qty \in 1 .. Bound
    BY <1>1
  <2> DEFINE n == v.qty
  <2>3. n \in 1 .. Bound
    BY <2>2
  <2> HIDE DEF n
  <2>4. n \in Nat /\ n # 0
    BY <2>1, <2>3
  <2>5. v.qty \in Nat \ {0}
    BY <2>4 DEF n
  <2>6. v.mark \in Int
    BY <1>1, Parameters
  <2>7. QED
    BY <2>5, <2>6
<1>3. v.stop \in Int /\ v.stop >= -1
  <2>1. Max(Levels) \in Int
    BY TopLevel
  <2> DEFINE top == Max(Levels)
  <2>2. v.stop \in -1 .. top
    BY <1>1 DEF Stops
  <2> HIDE DEF top
  <2>3. QED
    BY <2>2
<1>4. QED
  BY <1>1, <1>2, <1>3

(* A partial is its whole share or nothing, and leaves the minimum. *)
LEMMA Partial ==
  ASSUME NEW pct \in 0 .. 100, NEW s, s.initial \in Nat, NEW remaining \in Int
  PROVE  /\ Part(pct, s) \in Nat /\ Part(pct, s) <= s.initial
         /\ partialQty(pct, s, remaining) \in {0, Part(pct, s)}
         /\ partialQty(pct, s, remaining) \in Nat
         /\ partialQty(pct, s, remaining) > 0 => partialQty(pct, s, remaining) <= remaining - MinQty
<1> DEFINE n == (s.initial * pct) \div 100
<1>1. n \in Nat /\ n <= s.initial
  <2>1. s.initial * pct \in Nat /\ s.initial * pct <= s.initial * 100
    OBVIOUS
  <2> DEFINE x == s.initial * pct
  <2>2. x \in Nat /\ x <= s.initial * 100
    BY <2>1
  <2> HIDE DEF x
  <2>3. x \div 100 \in Nat /\ x \div 100 <= s.initial
    BY <2>2
  <2>4. QED
    BY <2>3 DEF x
<1>2. Part(pct, s) = n
  BY DEF Part
<1>3. partialQty(pct, s, remaining) = IF n < MinQty \/ remaining - n < MinQty THEN 0 ELSE n
  BY DEF partialQty
<1> HIDE DEF n
<1>4. QED
  BY <1>1, <1>2, <1>3, Parameters

(* The first partial: zero, or the planned share, leaving the venue's minimum behind. *)
LEMMA FirstPartial ==
  ASSUME world \in Worlds, NEW prev \in PmStates, NEW pos \in Views, NEW due \in BOOLEAN,
         due => ~prev.tp1Done, NEW tp1,
         tp1 = IF due THEN partialQty(world.tp1Pct, prev, pos.qty) ELSE 0
  PROVE  /\ tp1 \in Nat /\ tp1 <= prev.initial
         /\ tp1 > 0 => tp1 = Part(world.tp1Pct, prev) /\ due /\ tp1 <= pos.qty - MinQty
<1>1. prev.initial \in Nat /\ pos.qty \in Int /\ world.tp1Pct \in 0 .. 100
  BY StateFields, ViewFields, WorldParts
<1>2. CASE due
  <2>1. /\ Part(world.tp1Pct, prev) \in Nat /\ Part(world.tp1Pct, prev) <= prev.initial
        /\ partialQty(world.tp1Pct, prev, pos.qty) \in {0, Part(world.tp1Pct, prev)}
        /\ partialQty(world.tp1Pct, prev, pos.qty) > 0 => partialQty(world.tp1Pct, prev, pos.qty) <= pos.qty - MinQty
    BY <1>1, Partial
  <2>2. tp1 = partialQty(world.tp1Pct, prev, pos.qty)
    BY <1>2
  <2>3. QED
    BY <1>1, <1>2, <2>1, <2>2
<1>3. CASE ~due
  BY <1>1, <1>3
<1>4. QED
  BY <1>2, <1>3

(* The second partial, sized on what the first leaves. *)
LEMMA SecondPartial ==
  ASSUME world \in Worlds, NEW prev, prev.initial \in Nat, NEW left \in Int, NEW due \in BOOLEAN, NEW tp2,
         tp2 = IF due THEN partialQty(world.tp2Pct, prev, left) ELSE 0
  PROVE  /\ tp2 \in Nat /\ tp2 <= prev.initial
         /\ tp2 > 0 => tp2 = Part(world.tp2Pct, prev) /\ due /\ tp2 <= left - MinQty
<1>1. world.tp2Pct \in 0 .. 100
  BY WorldParts
<1>2. CASE due
  <2>1. /\ Part(world.tp2Pct, prev) \in Nat /\ Part(world.tp2Pct, prev) <= prev.initial
        /\ partialQty(world.tp2Pct, prev, left) \in {0, Part(world.tp2Pct, prev)}
        /\ partialQty(world.tp2Pct, prev, left) > 0 => partialQty(world.tp2Pct, prev, left) <= left - MinQty
    BY <1>1, Partial
  <2>2. tp2 = partialQty(world.tp2Pct, prev, left)
    BY <1>2
  <2>3. QED
    BY <1>2, <2>1, <2>2
<1>3. CASE ~due
  BY <1>3
<1>4. QED
  BY <1>2, <1>3

(* advance: at most the two partials, each its share, never the minimum,   *)
(* and a stop that is no worse.                                            *)
LEMMA AdvanceResult ==
  ASSUME world \in Worlds, NEW prev \in PmStates, NEW pos \in Views, NEW swing \in Levels,
         pos.qty <= prev.initial - prev.reduced
  PROVE  Advanced(prev, pos, advance(prev, pos, swing).state, advance(prev, pos, swing).plan)
<1> DEFINE s0 == [prev EXCEPT !.extreme = Max({prev.extreme, pos.mark})]
           due1 == ~s0.tp1Done /\ pos.mark >= Tp1R
           tp1 == IF due1 THEN partialQty(world.tp1Pct, s0, pos.qty) ELSE 0
           s1 == IF due1 THEN [s0 EXCEPT !.tp1Done = TRUE, !.phase = "PROTECTED", !.reduced = s0.reduced + tp1] ELSE s0
           due2 == isRunner(s1) /\ ~s1.tp2Done /\ pos.mark >= Tp2R
           tp2 == IF due2 THEN partialQty(world.tp2Pct, s1, pos.qty - tp1) ELSE 0
           s2 == IF due2 THEN [s1 EXCEPT !.tp2Done = TRUE, !.phase = "TRAILING", !.target = None, !.reduced = s1.reduced + tp2] ELSE s1
           best == Max(stopCandidates(s2, pos.mark, swing) \cup {s2.stop})
           s == [s2 EXCEPT !.stop = best]
           plan == [tp1 |-> tp1, tp2 |-> tp2, move |-> best > s2.stop \/ s2.target # prev.target,
                    stop |-> best, target |-> s2.target]
<1>0. advance(prev, pos, swing) = [state |-> s, plan |-> plan]
  BY DEF advance
<1>1. /\ prev.initial \in 1 .. Bound /\ prev.initial \in Nat /\ prev.reduced \in 0 .. Bound /\ prev.reduced \in Nat
      /\ prev.extreme \in Levels /\ prev.stop \in Stops /\ prev.target \in Targets /\ prev.phase \in Phases
      /\ pos.qty \in 1 .. Bound /\ pos.qty \in Nat /\ pos.mark \in Levels
      /\ Bound \in Nat /\ MinQty \in Nat \ {0}
  BY StateFields, ViewFields, BoundType, Parameters
<1>2. /\ s0 \in PmStates /\ s0.entry = prev.entry /\ s0.initial = prev.initial /\ s0.reduced = prev.reduced
      /\ s0.stop = prev.stop /\ s0.target = prev.target /\ s0.tp1Done = prev.tp1Done /\ s0.tp2Done = prev.tp2Done
  <2>1. prev.extreme \in Int /\ pos.mark \in Int
    BY <1>1, Parameters
  <2>2. Max({prev.extreme, pos.mark}) \in Levels
    BY <1>1, <2>1, Greater
  <2>3. QED
    BY <2>2 DEF PmStates
<1>3. due1 \in BOOLEAN /\ (due1 => ~prev.tp1Done)
  BY <1>2
<1> HIDE DEF s0
<1>4. /\ tp1 \in Nat /\ tp1 <= prev.initial
      /\ tp1 > 0 => tp1 = Part(world.tp1Pct, prev) /\ due1 /\ tp1 <= pos.qty - MinQty
  <2>1. due1 => ~s0.tp1Done
    OBVIOUS
  <2>2. Part(world.tp1Pct, s0) = Part(world.tp1Pct, prev)
    BY <1>2 DEF Part
  <2>3. tp1 = IF due1 THEN partialQty(world.tp1Pct, s0, pos.qty) ELSE 0
    OBVIOUS
  <2> HIDE DEF due1, tp1
  <2>4. QED
    BY <1>2, <1>3, <2>1, <2>2, <2>3, FirstPartial
<1> HIDE DEF tp1
<1>5. prev.reduced + tp1 <= Bound /\ pos.qty - tp1 \in Int /\ prev.reduced + tp1 \in Nat
  BY <1>1, <1>4
<1>6. /\ s1 \in PmStates /\ s1.entry = prev.entry /\ s1.initial = prev.initial
      /\ s1.stop = prev.stop /\ s1.target = prev.target
  <2>1. CASE due1
    <3>1. s1 = [s0 EXCEPT !.tp1Done = TRUE, !.phase = "PROTECTED", !.reduced = s0.reduced + tp1]
      BY <2>1
    <3>2. s0.reduced + tp1 \in 0 .. Lots * MaxEntries /\ "PROTECTED" \in Phases
      BY <1>2, <1>5, BoundType DEF Bound, Phases
    <3> HIDE DEF s1, due1
    <3>3. QED
      BY <1>2, <3>1, <3>2 DEF PmStates
  <2>2. CASE ~due1
    <3>1. s1 = s0
      BY <2>2
    <3>2. QED
      BY <1>2, <3>1
  <2>3. QED
    BY <2>1, <2>2
<1>7. s1.reduced = prev.reduced + tp1
  <2>1. CASE due1
    <3>1. s1 = [s0 EXCEPT !.tp1Done = TRUE, !.phase = "PROTECTED", !.reduced = s0.reduced + tp1]
      BY <2>1
    <3> HIDE DEF s1, due1
    <3>2. QED
      BY <1>2, <3>1 DEF PmStates
  <2>2. CASE ~due1
    <3>1. s1 = s0 /\ tp1 = 0
      BY <2>2 DEF tp1
    <3>2. QED
      BY <1>1, <1>2, <3>1
  <2>3. QED
    BY <2>1, <2>2
<1>8. (tp1 > 0 => s1.tp1Done) /\ (~s1.tp1Done => ~prev.tp1Done) /\ s1.tp2Done = prev.tp2Done
  <2>1. CASE due1
    <3>1. s1 = [s0 EXCEPT !.tp1Done = TRUE, !.phase = "PROTECTED", !.reduced = s0.reduced + tp1]
      BY <2>1
    <3> HIDE DEF s1, due1
    <3>2. s1.tp1Done /\ s1.tp2Done = s0.tp2Done
      BY <1>2, <3>1 DEF PmStates
    <3>3. QED
      BY <1>2, <3>2
  <2>2. CASE ~due1
    <3>1. s1 = s0 /\ ~(tp1 > 0)
      BY <1>4, <2>2
    <3>2. QED
      BY <1>2, <3>1
  <2>3. QED
    BY <2>1, <2>2
<1>9. due2 \in BOOLEAN /\ (due2 => ~prev.tp2Done)
  BY <1>8 DEF isRunner
<1> HIDE DEF s1, due1
<1>10. /\ tp2 \in Nat /\ tp2 <= prev.initial
       /\ tp2 > 0 => tp2 = Part(world.tp2Pct, prev) /\ due2 /\ tp2 <= (pos.qty - tp1) - MinQty
  <2>1. Part(world.tp2Pct, s1) = Part(world.tp2Pct, prev)
    BY <1>6 DEF Part
  <2>2. tp2 = IF due2 THEN partialQty(world.tp2Pct, s1, pos.qty - tp1) ELSE 0
    OBVIOUS
  <2>3. s1.initial \in Nat
    BY <1>1, <1>6
  <2> HIDE DEF due2, tp2
  <2>4. QED
    BY <1>5, <1>6, <1>9, <2>1, <2>2, <2>3, SecondPartial
<1> HIDE DEF tp2
<1>11. prev.reduced + (tp1 + tp2) <= Bound /\ prev.reduced + (tp1 + tp2) \in Nat /\ tp1 \in 0 .. Bound /\ tp2 \in 0 .. Bound
       /\ (tp1 + tp2 = 0 \/ tp1 + tp2 <= pos.qty - MinQty)
  BY <1>1, <1>4, <1>10
<1>12. s2 \in PmStates /\ s2.entry = prev.entry /\ s2.initial = prev.initial /\ s2.stop = prev.stop
  <2>1. CASE due2
    <3>1. s2 = [s1 EXCEPT !.tp2Done = TRUE, !.phase = "TRAILING", !.target = None, !.reduced = s1.reduced + tp2]
      BY <2>1
    <3>2. s1.reduced + tp2 \in 0 .. Lots * MaxEntries /\ "TRAILING" \in Phases /\ None \in Targets
      BY <1>1, <1>4, <1>7, <1>10, <1>11 DEF Bound, Phases, Targets
    <3> HIDE DEF s2, due2
    <3>3. QED
      BY <1>6, <3>1, <3>2 DEF PmStates
  <2>2. CASE ~due2
    <3>1. s2 = s1
      BY <2>2
    <3>2. QED
      BY <1>6, <3>1
  <2>3. QED
    BY <2>1, <2>2
<1>13. s2.reduced = prev.reduced + (tp1 + tp2)
  <2>1. CASE due2
    <3>1. s2 = [s1 EXCEPT !.tp2Done = TRUE, !.phase = "TRAILING", !.target = None, !.reduced = s1.reduced + tp2]
      BY <2>1
    <3> HIDE DEF s2, due2
    <3>2. s2.reduced = s1.reduced + tp2
      BY <1>6, <3>1 DEF PmStates
    <3>3. QED
      BY <1>1, <1>4, <1>7, <1>10, <3>2
  <2>2. CASE ~due2
    <3>1. s2 = s1 /\ tp2 = 0
      BY <2>2 DEF tp2
    <3>2. QED
      BY <1>1, <1>4, <1>7, <3>1
  <2>3. QED
    BY <2>1, <2>2
<1>14. (tp2 > 0 => s2.tp2Done) /\ (~s2.tp2Done => ~prev.tp2Done) /\ s2.tp1Done = s1.tp1Done
  <2>1. CASE due2
    <3>1. s2 = [s1 EXCEPT !.tp2Done = TRUE, !.phase = "TRAILING", !.target = None, !.reduced = s1.reduced + tp2]
      BY <2>1
    <3> HIDE DEF s2, due2
    <3>2. s2.tp2Done /\ s2.tp1Done = s1.tp1Done
      BY <1>6, <3>1 DEF PmStates
    <3>3. QED
      BY <3>2
  <2>2. CASE ~due2
    <3>1. s2 = s1 /\ ~(tp2 > 0)
      BY <1>10, <2>2
    <3>2. QED
      BY <1>8, <3>1
  <2>3. QED
    BY <2>1, <2>2
<1> HIDE DEF s2, due2
<1>15. best \in Stops /\ best >= prev.stop
  <2> DEFINE C == stopCandidates(s2, pos.mark, swing)
  <2>1. C \in SUBSET Int /\ (C = {} \/ HasMax(C)) /\ \A c \in C : c <= Max(Levels)
    BY <1>1, <1>12, Candidates
  <2>2. s2.stop \in Stops
    BY <1>1, <1>12
  <2> HIDE DEF C
  <2>3. Max(C \cup {s2.stop}) \in Stops /\ Max(C \cup {s2.stop}) >= s2.stop
    BY <2>1, <2>2, BestStop
  <2>4. QED
    BY <1>12, <2>3 DEF C
<1> HIDE DEF best
<1>16. s \in PmStates /\ s.entry = prev.entry /\ s.initial = prev.initial /\ s.reduced = prev.reduced + (tp1 + tp2)
  BY <1>12, <1>13, <1>15 DEF PmStates
<1>17. s.tp1Done = s2.tp1Done /\ s.tp2Done = s2.tp2Done
  BY <1>12 DEF PmStates
<1>18. plan \in Plans
  <2>1. s2.target \in Targets
    BY <1>12, StateFields
  <2> DEFINE mv == best > s2.stop \/ s2.target # prev.target
  <2>2. mv \in BOOLEAN
    OBVIOUS
  <2> HIDE DEF mv
  <2>3. [tp1 |-> tp1, tp2 |-> tp2, move |-> mv, stop |-> best, target |-> s2.target] \in Plans
    BY <1>11, <1>15, <2>1, <2>2 DEF Plans
  <2>4. QED
    BY <2>3 DEF mv
<1>19. plan.tp1 = tp1 /\ plan.tp2 = tp2 /\ plan.stop = best
  OBVIOUS
<1> HIDE DEF s, plan
<1>20. (~s.tp1Done => ~prev.tp1Done) /\ (~s.tp2Done => ~prev.tp2Done)
  BY <1>8, <1>14, <1>17
<1>21. /\ plan.tp1 > 0 => plan.tp1 = Part(world.tp1Pct, prev) /\ ~prev.tp1Done /\ s.tp1Done
       /\ plan.tp2 > 0 => plan.tp2 = Part(world.tp2Pct, prev) /\ ~prev.tp2Done /\ s.tp2Done
  BY <1>3, <1>4, <1>8, <1>9, <1>10, <1>14, <1>17, <1>19
<1>22. Advanced(prev, pos, s, plan)
  BY <1>11, <1>15, <1>16, <1>18, <1>19, <1>20, <1>21 DEF Advanced
<1>23. advance(prev, pos, swing).state = s /\ advance(prev, pos, swing).plan = plan
  BY <1>0
<1>24. QED
  BY <1>22, <1>23

(* The state a new position starts from is a good one: nothing reduced of the quantity seen. *)
LEMMA InitialState ==
  ASSUME NEW pos \in Views
  PROVE  /\ initState(pos) \in GoodStates /\ initState(pos).entry = pos.entry /\ initState(pos).initial = pos.qty
         /\ initState(pos).reduced = 0
<1> DEFINE tight == pos.stop >= 0
           ph == IF tight THEN "PROTECTED" ELSE "INITIAL"
           s == [entry |-> pos.entry, initial |-> pos.qty, reduced |-> 0, phase |-> ph, stop |-> pos.stop,
                 target |-> pos.target, signalTarget |-> pos.target, tp1Done |-> tight, tp2Done |-> FALSE,
                 extreme |-> pos.mark]
<1>1. initState(pos) = s
  BY DEF initState
<1>2. /\ pos.qty \in 1 .. Bound /\ pos.stop \in Stops /\ pos.target \in Targets /\ pos.entry \in 1 .. MaxEntries
      /\ pos.mark \in Levels
  BY ViewFields
<1>3. tight \in BOOLEAN /\ ph \in Phases
  BY DEF Phases
<1>4. 0 \in 0 .. Bound
  BY BoundType
<1> HIDE DEF tight, ph
<1>5. s \in PmStates
  BY <1>2, <1>3, <1>4 DEF PmStates, Bound
<1>6. s.entry = pos.entry /\ s.initial = pos.qty /\ s.reduced = 0
  OBVIOUS
<1>7. pos.qty >= 0
  BY ViewFields
<1> HIDE DEF s
<1>8. QED
  BY <1>1, <1>5, <1>6, <1>7 DEF GoodStates

(* The fields of a plan. *)
LEMMA PlanFields ==
  ASSUME NEW plan \in Plans
  PROVE  /\ plan.tp1 \in 0 .. Bound /\ plan.tp2 \in 0 .. Bound /\ plan.move \in BOOLEAN
         /\ plan.stop \in Stops /\ plan.target \in Targets /\ plan.tp1 \in Nat /\ plan.tp2 \in Nat
         /\ Due(plan) \in Nat /\ Due(plan) <= plan.tp1 + plan.tp2
<1>1. /\ plan.tp1 \in 0 .. Bound /\ plan.tp2 \in 0 .. Bound /\ plan.move \in BOOLEAN
      /\ plan.stop \in Stops /\ plan.target \in Targets
  BY DEF Plans
<1>2. plan.tp1 \in Nat /\ plan.tp2 \in Nat
  BY <1>1, BoundType
<1>3. QED
  BY <1>1, <1>2 DEF Due

(* The answer gives back what was not filled. *)
LEMMA SettleResult ==
  ASSUME NEW s \in GoodStates, NEW plan \in Plans, NEW done \in 0 .. Bound,
         Due(plan) > 0, done <= Due(plan), plan.tp1 + plan.tp2 <= s.reduced
  PROVE  Settled(s, plan, done, settle(s, Reason(plan), Due(plan), done))
<1> DEFINE n == Due(plan)
           r == Reason(plan)
           t == settle(s, r, n, done)
<1>1. /\ s \in PmStates /\ s.reduced <= s.initial /\ s.reduced \in Nat /\ s.initial \in Nat
      /\ s.reduced \in 0 .. Bound /\ s.phase \in Phases /\ s.target \in Targets /\ s.signalTarget \in Targets
      /\ s.tp1Done \in BOOLEAN /\ s.tp2Done \in BOOLEAN
  BY StateFields DEF GoodStates
<1>2. n \in Nat /\ n > 0 /\ n <= s.reduced /\ done \in Nat /\ done <= n
  BY <1>1, PlanFields, BoundType
<1>3. r \in {"TP1", "TP2"} /\ (r = "TP1" <=> plan.tp1 > 0)
  BY DEF Reason
<1>4. CASE done = 0
  <2> DEFINE f1 == IF r = "TP1" THEN FALSE ELSE s.tp1Done
             f2 == IF r = "TP2" THEN FALSE ELSE s.tp2Done
             ph == IF r = "TP1" THEN "INITIAL" ELSE "PROTECTED"
             tg == IF r = "TP2" THEN s.signalTarget ELSE s.target
             x == Max({0, s.reduced - n})
  <2>1. t = [s EXCEPT !.reduced = x, !.tp1Done = f1, !.tp2Done = f2, !.phase = ph, !.target = tg]
    BY <1>4 DEF settle, revertReduce
  <2>2. x = s.reduced - n
    <3>1. s.reduced - n \in Nat
      BY <1>1, <1>2
    <3>2. Max({0, s.reduced - n}) = s.reduced - n
      BY <3>1, MaxIs
    <3>3. QED
      BY <3>2
  <2>3. f1 \in BOOLEAN /\ f2 \in BOOLEAN /\ ph \in Phases /\ tg \in Targets
    BY <1>1 DEF Phases
  <2>3a. (f1 = s.tp1Done \/ plan.tp1 > 0) /\ (f2 = s.tp2Done \/ ~(plan.tp1 > 0))
    BY <1>3
  <2> HIDE DEF x, f1, f2, ph, tg, n, r, t
  <2>4. x \in 0 .. Bound /\ x <= s.initial
    BY <1>1, <1>2, <2>2, BoundType
  <2>5. t \in PmStates
    BY <1>1, <2>1, <2>3, <2>4 DEF PmStates, Bound
  <2>6. t.entry = s.entry /\ t.initial = s.initial /\ t.reduced = x /\ t.tp1Done = f1 /\ t.tp2Done = f2
    BY <1>1, <2>1 DEF PmStates
  <2>7. t \in GoodStates
    BY <2>4, <2>5, <2>6 DEF GoodStates
  <2>8. s.reduced - (n - done) = x
    BY <1>1, <1>2, <1>4, <2>2
  <2>9. Settled(s, plan, done, t)
    BY <1>4, <2>3a, <2>6, <2>7, <2>8 DEF Settled, n
  <2>10. QED
    BY <2>9 DEF t, n, r
<1>5. CASE done # 0
  <2> DEFINE x == Max({0, s.reduced - (n - done)})
  <2>1. t = [s EXCEPT !.reduced = x]
    BY <1>5 DEF settle
  <2>2. x = s.reduced - (n - done)
    <3>1. s.reduced - (n - done) \in Nat
      BY <1>1, <1>2
    <3>2. Max({0, s.reduced - (n - done)}) = s.reduced - (n - done)
      BY <3>1, MaxIs
    <3>3. QED
      BY <3>2
  <2> HIDE DEF x, n, r, t
  <2>4. x \in 0 .. Bound /\ x <= s.initial
    BY <1>1, <1>2, <2>2, BoundType
  <2>5. t \in PmStates
    BY <1>1, <2>1, <2>4 DEF PmStates, Bound
  <2>6. t.entry = s.entry /\ t.initial = s.initial /\ t.reduced = x /\ t.tp1Done = s.tp1Done /\ t.tp2Done = s.tp2Done
    BY <1>1, <2>1 DEF PmStates
  <2>7. t \in GoodStates
    BY <2>4, <2>5, <2>6 DEF GoodStates
  <2>8. Settled(s, plan, done, t)
    BY <2>2, <2>6, <2>7 DEF Settled, n
  <2>9. QED
    BY <2>8 DEF t, n, r
<1>6. QED
  BY <1>4, <1>5

(* Store.set and delete: memory for certain, the file at best. *)
LEMMA WriteDoes ==
  ASSUME NEW s, NEW old, NEW saved, faults \in 0 .. MaxFaults, Write(s, old, saved)
  PROVE  store' = s /\ file' \in {file, s, saved} /\ faults' \in faults .. MaxFaults
<1>1. store' = s /\ file' \in {file, s, saved}
  BY DEF Write
<1>2. faults' = faults \/ (faults < MaxFaults /\ faults' = faults + 1)
  BY DEF Write, Fault
<1>3. QED
  BY <1>1, <1>2, Parameters

(* The same, of one write. *)
LEMMA SaveDoes ==
  ASSUME NEW s, faults \in 0 .. MaxFaults, Save(s)
  PROVE  store' = s /\ file' \in {file, s} /\ faults' \in faults .. MaxFaults
<1>1. store' = s /\ file' \in {file, s, file} /\ faults' \in faults .. MaxFaults
  BY WriteDoes DEF Save
<1>2. QED
  BY <1>1

(* A failing call is counted within its bound. *)
LEMMA FaultDoes == ASSUME NEW kind, faults \in 0 .. MaxFaults, Fault(kind) PROVE faults' \in faults .. MaxFaults
  BY Parameters DEF Fault

(* The fields of a pass's job. *)
LEMMA JobFields ==
  ASSUME PassTypes, NEW p \in Passes
  PROVE  /\ pass[p] \in Jobs /\ pass[p].seen \in Views \cup {None} /\ pass[p].plan \in Plans
         /\ pass[p].state \in PmStates \cup {None} /\ pass[p].done \in 0 .. Bound /\ pass[p].done \in Nat
         /\ pass[p].pc \in {"idle", "queued", "apply", "sent"}
<1>1. pass[p] \in Jobs
  BY DEF PassTypes
<1>2. /\ pass[p].seen \in Views \cup {None} /\ pass[p].plan \in Plans
      /\ pass[p].state \in PmStates \cup {None} /\ pass[p].done \in 0 .. Bound
      /\ pass[p].pc \in {"idle", "queued", "apply", "sent"}
  BY <1>1 DEF Jobs
<1>3. pass[p].done \in Nat
  BY <1>2, BoundType
<1>4. QED
  BY <1>1, <1>2, <1>3

(* The idle job is a job. *)
LEMMA NoPassType == NoPass \in Jobs
<1>1. 0 \in 0 .. Bound /\ 0 \in Stops /\ None \in Targets
  <2>1. Max(Levels) \in Int /\ 0 <= Max(Levels)
    BY TopLevel, Parameters
  <2>2. 0 \in Stops
    BY <2>1 DEF Stops
  <2>3. QED
    BY <2>2, BoundType DEF Targets
<1>2. NoPlan \in Plans
  BY <1>1 DEF NoPlan, Plans
<1>3. QED
  BY <1>1, <1>2 DEF NoPass, Jobs

(* One pass is written. *)
LEMMA PutDoes ==
  ASSUME PassTypes, NEW p \in Passes, NEW j \in Jobs, Goto(p, j), busy' \in BOOLEAN
  PROVE  PassTypes' /\ pass'[p] = j /\ Others(p)
  BY DEF PassTypes, Goto, Others

----------------------------------------------------------------------------
(* The steps of a pass *)

LEMMA BaseOf ==
  ASSUME StoreTypes, NEW pos \in Views
  PROVE  Based(pos, [baseState(pos) EXCEPT !.stop = pos.stop])
<1> DEFINE c == baseState(pos)
           b == [c EXCEPT !.stop = pos.stop]
<1>0. /\ pos.qty \in Nat /\ pos.stop \in Stops /\ pos.entry \in 1 .. MaxEntries
  BY ViewFields
<1>1. CASE store = None \/ isStale(store, pos)
  <2>1. c = initState(pos)
    BY <1>1 DEF baseState
  <2>2. c \in GoodStates /\ c.entry = pos.entry /\ c.initial = pos.qty /\ c.reduced = 0
    BY <2>1, InitialState
  <2> HIDE DEF c
  <2>3. /\ b \in PmStates /\ b.entry = pos.entry /\ b.stop = pos.stop /\ b.initial = pos.qty /\ b.reduced = 0
    BY <1>0, <2>2 DEF GoodStates, PmStates
  <2> HIDE DEF b
  <2>4. pos.qty <= b.initial - b.reduced
    BY <1>0, <2>3
  <2>5. QED
    BY <1>1, <2>3, <2>4 DEF Based, b, c
<1>2. CASE ~(store = None \/ isStale(store, pos))
  <2>1. c = store /\ store \in GoodStates
    BY <1>2 DEF baseState, StoreTypes
  <2>2. pos.entry = store.entry /\ ~(pos.qty > store.initial - store.reduced)
    BY <1>2 DEF isStale
  <2>3. store.initial \in Nat /\ store.reduced \in Nat /\ store \in PmStates
    BY <2>1, StateFields DEF GoodStates
  <2> HIDE DEF c
  <2>4. /\ b \in PmStates /\ b.entry = store.entry /\ b.stop = pos.stop /\ b.initial = store.initial
        /\ b.reduced = store.reduced /\ b.tp1Done = store.tp1Done /\ b.tp2Done = store.tp2Done
    BY <1>0, <2>1, <2>3 DEF PmStates
  <2> HIDE DEF b
  <2>5. pos.qty <= b.initial - b.reduced
    BY <1>0, <2>2, <2>3, <2>4
  <2>6. QED
    BY <1>2, <2>2, <2>4, <2>5 DEF Based, b, c
<1>3. QED
  BY <1>1, <1>2

(* The state a step starts from is a state. *)
LEMMA BaseGood == ASSUME StoreTypes, NEW pos \in Views PROVE baseState(pos) \in GoodStates
<1>1. CASE store = None \/ isStale(store, pos)
  BY <1>1, InitialState DEF baseState
<1>2. CASE ~(store = None \/ isStale(store, pos))
  BY <1>2 DEF baseState, StoreTypes
<1>3. QED
  BY <1>1, <1>2

(* Planning a pass, summed up: the kind of change, the other pass left alone, the types kept. *)
LEMMA StepDoes ==
  ASSUME Types, Working, NEW p \in Passes, Step(p)
  PROVE  Stepped(p) /\ Others(p) /\ PassTypes' /\ StoreTypes' /\ faults' \in faults .. MaxFaults
<1> DEFINE pos == pass[p].seen
           c == baseState(pos)
           b == [c EXCEPT !.stop = pos.stop]
<1>1. world \in Worlds /\ faults \in 0 .. MaxFaults /\ StoreTypes /\ PassTypes
  BY DEF Types, VenueTypes
<1>2. pass[p].pc = "queued" /\ ~busy /\ busy' = TRUE /\ UNCHANGED <<world, venueVars>>
  BY DEF Step
<1>3. pos \in Views /\ pass[p].done = 0 /\ pass[p] \in Jobs
  BY <1>1, <1>2, JobFields DEF Working
<1>4. PICK swing \in Levels :
        /\ Write(advance(b, pos, swing).state, c, IF Material(store, c) THEN c ELSE file)
        /\ Goto(p, [pass[p] EXCEPT !.pc = "apply", !.plan = advance(b, pos, swing).plan,
                                   !.state = advance(b, pos, swing).state])
  BY DEF Step
<1> DEFINE s == advance(b, pos, swing).state
           plan == advance(b, pos, swing).plan
           j == [pass[p] EXCEPT !.pc = "apply", !.plan = plan, !.state = s]
<1>5. Based(pos, b)
  BY <1>1, <1>3, BaseOf
<1> HIDE DEF b
<1>6. b \in PmStates /\ pos.qty <= b.initial - b.reduced
  BY <1>5 DEF Based
<1>7. Advanced(b, pos, s, plan)
  BY <1>1, <1>3, <1>6, AdvanceResult
<1> DEFINE saved == IF Material(store, c) THEN c ELSE file
<1>8. Write(s, c, saved) /\ Goto(p, j)
  BY <1>4
<1>8a. saved \in {c, file} /\ c \in GoodStates
  BY <1>1, <1>3, BaseGood
<1> HIDE DEF s, plan, saved, c
<1>9. s \in PmStates /\ plan \in Plans /\ s.reduced = b.reduced + (plan.tp1 + plan.tp2) /\ s.initial = b.initial
      /\ (plan.tp1 + plan.tp2 = 0 \/ plan.tp1 + plan.tp2 <= pos.qty - MinQty)
  BY <1>7 DEF Advanced
<1>10. s \in GoodStates
  <2>1. b.initial \in Nat /\ b.reduced \in Nat /\ pos.qty \in Nat /\ plan.tp1 \in Nat /\ plan.tp2 \in Nat /\ MinQty \in Nat
    BY <1>3, <1>6, <1>9, StateFields, ViewFields, PlanFields, Parameters
  <2>2. s.reduced <= s.initial
    BY <1>6, <1>9, <2>1
  <2>3. QED
    BY <1>9, <2>2 DEF GoodStates
<1>11. j \in Jobs /\ j.pc = "apply" /\ j.seen = pos /\ j.plan = plan /\ j.state = s /\ j.done = 0
  BY <1>3, <1>9 DEF Jobs
<1> HIDE DEF j
<1>12. PassTypes' /\ pass'[p] = j /\ Others(p)
  BY <1>1, <1>2, <1>8, <1>11, PutDoes
<1>13. store' = s /\ file' \in {file, s, saved} /\ faults' \in faults .. MaxFaults
  BY <1>1, <1>8, WriteDoes
<1>14. StoreTypes'
  BY <1>1, <1>8a, <1>10, <1>13 DEF StoreTypes
<1>15. Based(pos, b) /\ Advanced(b, pos, store', pass'[p].plan) /\ b \in PmStates
  BY <1>5, <1>6, <1>7, <1>11, <1>12, <1>13
<1>16. Stepped(p)
  BY <1>2, <1>9, <1>10, <1>11, <1>12, <1>13, <1>15 DEF Stepped
<1>17. QED
  BY <1>12, <1>13, <1>14, <1>16

(* A fill of a partial is counted for it, and nothing for the other. *)
LEMMA FillDoes ==
  ASSUME Types, NEW r \in Reasons, NEW n \in Nat, n <= qty, Fill(r, n)
  PROVE  /\ qty' = qty - n /\ qty' \in Nat /\ taken' \in [{"TP1", "TP2"} -> Nat]
         /\ taken'["TP1"] = taken["TP1"] + (IF r = "TP1" THEN n ELSE 0)
         /\ taken'["TP2"] = taken["TP2"] + (IF r = "TP1" THEN 0 ELSE n)
         /\ (taken'["TP1"] + taken'["TP2"]) + qty' = (taken["TP1"] + taken["TP2"]) + qty
<1>1. qty \in Nat /\ taken \in [{"TP1", "TP2"} -> Nat] /\ taken["TP1"] \in Nat /\ taken["TP2"] \in Nat
  BY DEF Types, VenueTypes
<1>2. qty' = qty - n /\ taken' = [taken EXCEPT ![r] = taken[r] + n]
  BY DEF Fill
<1>3. qty' \in Nat
  BY <1>1, <1>2
<1>4. CASE r = "TP1"
  <2>1. taken' = [taken EXCEPT !["TP1"] = taken["TP1"] + n]
    BY <1>2, <1>4
  <2>2. taken' \in [{"TP1", "TP2"} -> Nat] /\ taken'["TP1"] = taken["TP1"] + n /\ taken'["TP2"] = taken["TP2"]
    BY <1>1, <2>1
  <2>3. QED
    BY <1>1, <1>2, <1>3, <1>4, <2>2
<1>5. CASE r = "TP2"
  <2>1. taken' = [taken EXCEPT !["TP2"] = taken["TP2"] + n]
    BY <1>2, <1>5
  <2>2. taken' \in [{"TP1", "TP2"} -> Nat] /\ taken'["TP2"] = taken["TP2"] + n /\ taken'["TP1"] = taken["TP1"]
    BY <1>1, <2>1
  <2>3. QED
    BY <1>1, <1>2, <1>3, <1>5, <2>2
<1>6. QED
  BY <1>4, <1>5 DEF Reasons

(* What is out for a partial is a number. *)
LEMMA OutType ==
  ASSUME Types, NEW r \in Reasons
  PROVE  taken[r] \in Nat /\ Queued(r) \in Nat /\ Out(r) \in Nat
<1>1. taken[r] \in Nat
  BY DEF Types, VenueTypes, Reasons
<1>2. Queued(r) \in Nat
  <2>1. CASE job = None \/ job.filled \/ job.reason # r
    BY <2>1 DEF Queued
  <2>2. CASE job # None /\ ~job.filled /\ job.reason = r
    <3>1. job \in ExitJobs
      BY <2>2 DEF Types, ShownTypes
    <3>2. job.n \in 1 .. Lots * MaxEntries
      BY <3>1 DEF ExitJobs
    <3>3. job.n \in 1 .. Bound
      BY <3>2 DEF Bound
    <3>4. job.n \in Nat
      BY <3>3, BoundType
    <3>5. QED
      BY <2>2, <3>4 DEF Queued
  <2>3. QED
    BY <2>1, <2>2
<1>3. QED
  BY <1>1, <1>2 DEF Out

(* A partial that is filled, refused or queued adds at most its lots to what is out for it. *)
LEMMA OutGrows ==
  ASSUME Types, NEW r \in Reasons, NEW n \in Nat, NEW d \in Nat, n <= d,
         taken'["TP1"] = taken["TP1"] + (IF r = "TP1" THEN n ELSE 0),
         taken'["TP2"] = taken["TP2"] + (IF r = "TP1" THEN 0 ELSE n),
         job' = job \/ (job = None /\ job'.reason = r /\ job'.n = d /\ (job'.filled \/ n = 0))
  PROVE  \A x \in Reasons : Out(x)' <= Out(x) + (IF x = r THEN d ELSE 0)
<1> SUFFICES ASSUME NEW x \in Reasons PROVE Out(x)' <= Out(x) + (IF x = r THEN d ELSE 0)
  OBVIOUS
<1>1. taken[x] \in Nat /\ Queued(x) \in Nat
  BY OutType
<1>2. taken'[x] = taken[x] + (IF x = r THEN n ELSE 0)
  BY DEF Reasons
<1>3. CASE job' = job
  <2>1. Queued(x)' = Queued(x)
    BY <1>3 DEF Queued
  <2>2. QED
    BY <1>1, <1>2, <2>1 DEF Out
<1>4. CASE job = None /\ job'.reason = r /\ job'.n = d /\ (job'.filled \/ n = 0)
  <2>1. Queued(x) = 0
    BY <1>4 DEF Queued
  <2>2. Queued(x)' = IF job' # None /\ ~job'.filled /\ x = r THEN d ELSE 0
    BY <1>4 DEF Queued
  <2>3. CASE job' # None /\ ~job'.filled /\ x = r
    <3>1. n = 0 /\ Queued(x)' = d
      BY <1>4, <2>2, <2>3
    <3>2. QED
      BY <1>1, <1>2, <2>1, <2>3, <3>1 DEF Out
  <2>4. CASE ~(job' # None /\ ~job'.filled /\ x = r)
    <3>1. Queued(x)' = 0
      BY <2>2, <2>4
    <3>2. QED
      BY <1>1, <1>2, <2>1, <3>1 DEF Out
  <2>5. QED
    BY <2>3, <2>4
<1>5. QED
  BY <1>3, <1>4

(* An answer that was seen, or missed, keeps the types of what is shown. *)
LEMMA ReduceResult ==
  ASSUME Types, Working, NEW p \in Passes, pass[p].pc = "apply", Due(pass[p].plan) > 0,
         NEW n \in 0 .. Due(pass[p].plan), NEW m \in 0 .. Due(pass[p].plan), n <= qty, Told(p, m),
         Fill(Reason(pass[p].plan), n),
         \/ job' = job
         \/ /\ job = None /\ job' \in ExitJobs /\ job'.reason = Reason(pass[p].plan)
            /\ job'.n = Due(pass[p].plan) /\ (job'.filled \/ n = 0),
         Truthful(p, n, m) \/ Missed(m), raw' \in Shows, faults' \in faults .. MaxFaults,
         UNCHANGED <<world, stop, target, entry, mark, fetch, opened, store, file, busy>>
  PROVE  Filled(p, n, m) /\ Others(p) /\ PassTypes' /\ ShownTypes' /\ misses' \in 0 .. faults'
<1> DEFINE plan == pass[p].plan
           j == [pass[p] EXCEPT !.pc = "sent", !.done = m]
           d == Due(plan)
<1>1. faults \in 0 .. MaxFaults /\ misses \in 0 .. faults /\ PassTypes /\ ShownTypes
  BY DEF Types, VenueTypes
<1>2. pass[p] \in Jobs /\ d \in Nat /\ d <= Bound
  <2>1. pass[p] \in Jobs /\ plan \in Plans
    BY <1>1, JobFields
  <2>2. plan.tp1 \in 0 .. Bound /\ plan.tp2 \in 0 .. Bound /\ plan.tp1 \in Nat /\ plan.tp2 \in Nat
    BY <2>1, PlanFields
  <2>3. QED
    BY <2>1, <2>2, BoundType DEF Due
<1>3. n \in Nat /\ m \in Nat /\ n <= d /\ m <= d /\ m \in 0 .. Bound
  BY <1>2, BoundType
<1>4. Reason(plan) \in Reasons /\ (Reason(plan) = "TP1" <=> plan.tp1 > 0)
  BY DEF Reason, Reasons
<1>5. j \in Jobs /\ j.pc = "sent" /\ j.seen = pass[p].seen /\ j.plan = plan /\ j.state = pass[p].state /\ j.done = m
  BY <1>2, <1>3 DEF Jobs
<1>6. Goto(p, j)
  BY DEF Told
<1> HIDE DEF j
<1>7. PassTypes' /\ pass'[p] = j /\ Others(p)
  <2>1. busy' \in BOOLEAN
    BY <1>1 DEF PassTypes
  <2>2. QED
    BY <1>1, <1>5, <1>6, <2>1, PutDoes
<1>8. /\ qty' = qty - n /\ taken' \in [{"TP1", "TP2"} -> Nat]
      /\ taken'["TP1"] = taken["TP1"] + (IF Reason(plan) = "TP1" THEN n ELSE 0)
      /\ taken'["TP2"] = taken["TP2"] + (IF Reason(plan) = "TP1" THEN 0 ELSE n)
  BY <1>3, <1>4, FillDoes
<1>9. \A r \in Reasons : Out(r)' <= Out(r) + (IF r = Reason(plan) THEN d ELSE 0)
  <2>1. job' = job \/ (job = None /\ job'.reason = Reason(plan) /\ job'.n = d /\ (job'.filled \/ n = 0))
    OBVIOUS
  <2> HIDE DEF d, plan
  <2>2. QED
    BY <1>2, <1>3, <1>4, <1>8, <2>1, OutGrows
<1>10. Filled(p, n, m)
  BY <1>4, <1>5, <1>7, <1>8, <1>9 DEF Filled
<1>11. ShownTypes'
  BY <1>1 DEF ShownTypes
<1>12. misses' \in 0 .. faults'
  <2>1. misses' = misses \/ (misses' = misses + 1 /\ faults' = faults + 1)
    BY DEF Truthful, Missed
  <2>2. QED
    BY <1>1, <2>1, Parameters
<1>13. QED
  BY <1>7, <1>10, <1>11, <1>12

(* The quantity held is within its bound. *)
LEMMA QtyBound == ASSUME Types PROVE qty \in Nat /\ qty \in 0 .. Bound /\ opened \in 0 .. Bound
<1>1. qty \in Nat /\ opened \in Nat /\ opened <= Lots * entry /\ qty <= opened /\ entry \in 1 .. MaxEntries
  <2>1. /\ qty \in Nat /\ opened \in Nat /\ opened <= Lots * entry /\ (taken["TP1"] + taken["TP2"]) + qty <= opened
        /\ taken["TP1"] \in Nat /\ taken["TP2"] \in Nat /\ entry \in 1 .. MaxEntries
    BY DEF Types, VenueTypes
  <2>2. QED
    BY <2>1
<1>2. Lots * entry <= Bound /\ Lots * entry \in Nat /\ Bound \in Nat
  BY <1>1, BoundType
<1>3. QED
  BY <1>1, <1>2

(* The answer of the live book to a partial. *)
LEMMA LiveDoes ==
  ASSUME Types, Working, NEW p \in Passes, pass[p].pc = "apply", Due(pass[p].plan) > 0, world.venue = "live",
         reduceLive(p, Reason(pass[p].plan), Due(pass[p].plan)),
         UNCHANGED <<world, stop, target, entry, mark, fetch, opened, store, file, busy>>
  PROVE  /\ \E n, m : Filled(p, n, m)
         /\ Others(p) /\ PassTypes' /\ ShownTypes' /\ faults' \in faults .. MaxFaults /\ misses' \in 0 .. faults'
<1> DEFINE d == Due(pass[p].plan)
           r == Reason(pass[p].plan)
<1>1. faults \in 0 .. MaxFaults /\ raw \in Shows /\ UNCHANGED <<raw, job>>
  BY DEF Types, VenueTypes, ShownTypes, reduceLive
<1>2. d \in Nat /\ qty \in Nat /\ taken \in [{"TP1", "TP2"} -> Nat] /\ r \in {"TP1", "TP2"}
  <2>1. d \in Nat
    BY JobFields, PlanFields DEF Types
  <2>2. QED
    BY <2>1 DEF Types, VenueTypes, Reason
<1>3. CASE /\ (qty < d /\ UNCHANGED faults) \/ Fault("reject")
           /\ Told(p, 0)
           /\ UNCHANGED <<qty, taken, misses>>
  <2>1. Fill(r, 0)
    <3>1. taken[r] + 0 = taken[r] /\ qty - 0 = qty
      BY <1>2
    <3>2. taken' = [taken EXCEPT ![r] = taken[r] + 0]
      BY <1>2, <1>3, <3>1
    <3>3. QED
      BY <1>3, <3>1, <3>2 DEF Fill
  <2>2. Truthful(p, 0, 0)
    BY <1>1, <1>3 DEF Truthful
  <2>3. faults' \in faults .. MaxFaults
    BY <1>1, <1>3, FaultDoes
  <2>4. 0 \in 0 .. d /\ 0 <= qty
    BY <1>2
  <2>5. QED
    BY <1>1, <1>3, <2>1, <2>2, <2>3, <2>4, ReduceResult
<1>4. ASSUME NEW k \in 1 .. d, k <= qty, Fill(r, k),
             (Told(p, k) /\ UNCHANGED <<faults, misses>>) \/ (Fault("lost") /\ Told(p, 0) /\ misses' = misses + 1)
      PROVE  /\ \E n, m : Filled(p, n, m)
             /\ Others(p) /\ PassTypes' /\ ShownTypes' /\ faults' \in faults .. MaxFaults /\ misses' \in 0 .. faults'
  <2>1. k \in 0 .. d /\ 0 \in 0 .. d
    BY <1>2
  <2>2. CASE Told(p, k) /\ UNCHANGED <<faults, misses>>
    <3>1. Truthful(p, k, k)
      BY <1>1, <2>2 DEF Truthful
    <3>2. faults' \in faults .. MaxFaults
      BY <1>1, <2>2
    <3>3. QED
      BY <1>1, <1>4, <2>1, <2>2, <3>1, <3>2, ReduceResult
  <2>3. CASE Fault("lost") /\ Told(p, 0) /\ misses' = misses + 1
    <3>1. faults' = faults + 1 /\ faults' \in faults .. MaxFaults
      BY <1>1, <2>3, FaultDoes DEF Fault
    <3>2. Missed(0)
      BY <1>1, <2>3, <3>1 DEF Missed
    <3>3. QED
      BY <1>1, <1>4, <2>1, <2>3, <3>1, <3>2, ReduceResult
  <2>4. QED
    BY <1>4, <2>2, <2>3
<1>5. QED
  BY <1>3, <1>4 DEF reduceLive

(* The answer of the remote broker. *)
LEMMA RemoteDoes ==
  ASSUME Types, Working, NEW p \in Passes, pass[p].pc = "apply", Due(pass[p].plan) > 0, world.venue = "remote",
         reduceRemote(p, Reason(pass[p].plan), Due(pass[p].plan)),
         UNCHANGED <<world, stop, target, entry, mark, fetch, opened, store, file, busy>>
  PROVE  /\ \E n, m : Filled(p, n, m)
         /\ Others(p) /\ PassTypes' /\ ShownTypes' /\ faults' \in faults .. MaxFaults /\ misses' \in 0 .. faults'
<1> DEFINE d == Due(pass[p].plan)
           r == Reason(pass[p].plan)
           k == Min({d, qty})
           goal == /\ \E n, m : Filled(p, n, m)
                   /\ Others(p) /\ PassTypes' /\ ShownTypes'
                   /\ faults' \in faults .. MaxFaults /\ misses' \in 0 .. faults'
<1>1. faults \in 0 .. MaxFaults /\ raw \in Shows /\ qty \in 0 .. Bound /\ entry \in 1 .. MaxEntries
  BY QtyBound DEF Types, VenueTypes, ShownTypes
<1>2. d \in Nat /\ qty \in Nat /\ taken \in [{"TP1", "TP2"} -> Nat] /\ r \in {"TP1", "TP2"} /\ d \in 1 .. Bound
  <2>1. d \in Nat /\ d <= Bound
    <3>1. pass[p].plan \in Plans
      BY JobFields DEF Types
    <3>2. /\ pass[p].plan.tp1 \in 0 .. Bound /\ pass[p].plan.tp2 \in 0 .. Bound
          /\ pass[p].plan.tp1 \in Nat /\ pass[p].plan.tp2 \in Nat
      BY <3>1, PlanFields
    <3>3. QED
      BY <3>2, BoundType DEF Due
  <2>2. Bound \in Nat
    BY BoundType
  <2>3. QED
    BY <2>1, <2>2 DEF Types, VenueTypes, Reason
<1>3. /\ k = IF d <= qty THEN d ELSE qty
      /\ k \in 0 .. d /\ k <= qty /\ 0 \in 0 .. d /\ d \in 0 .. d /\ 0 <= qty
  <2> HIDE DEF d
  <2>1. Min({d, qty}) \in {d, qty} /\ Min({d, qty}) <= d /\ Min({d, qty}) <= qty
    <3>1. d \in Int /\ qty \in Int
      BY <1>2
    <3>2. QED
      BY <3>1, Smaller
  <2> HIDE DEF k
  <2>2. k \in {d, qty} /\ k <= d /\ k <= qty
    BY <2>1 DEF k
  <2>3. QED
    BY <1>2, <2>2
<1> HIDE DEF k
<1>4. ASSUME UNCHANGED <<qty, taken>> PROVE Fill(r, 0)
  <2>1. taken[r] + 0 = taken[r] /\ qty - 0 = qty
    BY <1>2
  <2>2. taken' = [taken EXCEPT ![r] = taken[r] + 0]
    BY <1>2, <1>4, <2>1
  <2>3. QED
    BY <1>4, <2>1, <2>2 DEF Fill
<1>5. ASSUME NEW kind, Fault(kind) PROVE faults' = faults + 1 /\ faults' \in faults .. MaxFaults
  BY <1>1, <1>5, FaultDoes DEF Fault
<1>6. ASSUME Told(p, 0), UNCHANGED <<qty, taken, raw, job, misses>>, faults' \in faults .. MaxFaults
      PROVE  goal
  <2>1. Truthful(p, 0, 0)
    BY <1>6 DEF Truthful
  <2>2. QED
    BY <1>1, <1>3, <1>4, <1>6, <2>1, ReduceResult
<1>7. CASE job # None
  BY <1>1, <1>6, <1>7 DEF reduceRemote
<1>8. ASSUME Fill(r, k), Told(p, d), UNCHANGED <<job, misses, faults>>, raw' = [Real EXCEPT !.qty = @ - k]
      PROVE  goal
  <2>1. raw' = [qty |-> qty - k, entry |-> entry]
    BY <1>8 DEF Real
  <2>2. Truthful(p, k, d)
    BY <1>3, <1>8, <2>1 DEF Truthful
  <2>3. raw' \in Shows
    <3>1. qty - k \in 0 .. Bound
      BY <1>1, <1>2, <1>3, BoundType
    <3>2. QED
      BY <1>1, <2>1, <3>1 DEF Shows
  <2>4. faults' \in faults .. MaxFaults
    BY <1>1, <1>8
  <2>5. QED
    BY <1>3, <1>8, <2>2, <2>3, <2>4, ReduceResult
<1>9. ASSUME Fill(r, k), Told(p, d), UNCHANGED <<job, raw>>, Fault("outage"), misses' = misses + 1
      PROVE  goal
  <2>1. Missed(d)
    BY <1>5, <1>9 DEF Missed
  <2>2. QED
    BY <1>1, <1>3, <1>5, <1>9, <2>1, ReduceResult
<1>10. ASSUME Fill(r, k), Told(p, 0), UNCHANGED <<raw, job>>, Fault("lost"), misses' = misses + 1
       PROVE  goal
  <2>1. Missed(0)
    BY <1>5, <1>10 DEF Missed
  <2>2. QED
    BY <1>1, <1>3, <1>5, <1>10, <2>1, ReduceResult
<1>11. ASSUME job = None, Fault("outage"), Told(p, d), misses' = misses + 1, UNCHANGED raw, NEW landed \in BOOLEAN,
              job' = [reason |-> r, n |-> d, filled |-> landed], Fill(r, IF landed THEN k ELSE 0)
       PROVE  goal
  <2>1. Missed(d)
    BY <1>5, <1>11 DEF Missed
  <2>2. job' \in ExitJobs /\ job'.reason = r /\ job'.n = d /\ job'.filled = landed
    BY <1>2, <1>11 DEF ExitJobs, Bound
  <2>3. CASE landed
    BY <1>1, <1>3, <1>5, <1>11, <2>1, <2>2, <2>3, ReduceResult
  <2>4. CASE ~landed
    BY <1>1, <1>3, <1>5, <1>11, <2>1, <2>2, <2>4, ReduceResult
  <2>5. QED
    BY <2>3, <2>4
<1>12. CASE job = None
  <2>1. CASE /\ Fill(r, k) /\ Told(p, d)
             /\ UNCHANGED job
             /\ \/ raw' = [Real EXCEPT !.qty = @ - k] /\ UNCHANGED <<misses, faults>>
                \/ Fault("outage") /\ misses' = misses + 1 /\ UNCHANGED raw
    BY <1>8, <1>9, <2>1
  <2>2. CASE Fault("reject") /\ Told(p, 0) /\ UNCHANGED <<qty, taken, raw, job, misses>>
    BY <1>5, <1>6, <2>2
  <2>3. CASE Fault("lost") /\ Fill(r, k) /\ Told(p, 0) /\ misses' = misses + 1 /\ UNCHANGED <<raw, job>>
    BY <1>10, <2>3
  <2>4. CASE /\ Fault("outage") /\ Told(p, d)
             /\ misses' = misses + 1
             /\ \E landed \in {FALSE, qty > 0} :
                  /\ job' = [reason |-> r, n |-> d, filled |-> landed]
                  /\ Fill(r, IF landed THEN k ELSE 0)
             /\ UNCHANGED raw
    <3>1. PICK landed \in {FALSE, qty > 0} :
             /\ job' = [reason |-> r, n |-> d, filled |-> landed]
             /\ Fill(r, IF landed THEN k ELSE 0)
      BY <2>4
    <3>2. landed \in BOOLEAN
      <4>1. landed = FALSE \/ landed = (qty > 0)
        OBVIOUS
      <4>2. (qty > 0) \in BOOLEAN
        OBVIOUS
      <4>3. QED
        BY <4>1, <4>2
    <3>3. QED
      BY <1>11, <1>12, <2>4, <3>1, <3>2
  <2>5. QED
    BY <1>12, <2>1, <2>2, <2>3, <2>4 DEF reduceRemote, k
<1>13. QED
  BY <1>7, <1>12

(* The venue's answer to a partial, summed up. *)
LEMMA ReduceDoes ==
  ASSUME Types, Working, NEW p \in Passes, Reduce(p)
  PROVE  /\ \E n, m : Filled(p, n, m)
         /\ Others(p) /\ PassTypes' /\ ShownTypes' /\ faults' \in faults .. MaxFaults /\ misses' \in 0 .. faults'
<1>1. /\ pass[p].pc = "apply" /\ Due(pass[p].plan) > 0
      /\ UNCHANGED <<world, stop, target, entry, mark, fetch, opened, store, file, busy>>
      /\ IF Live THEN reduceLive(p, Reason(pass[p].plan), Due(pass[p].plan))
                 ELSE reduceRemote(p, Reason(pass[p].plan), Due(pass[p].plan))
  BY DEF Reduce, storeVars
<1>2. world.venue = "live" \/ world.venue = "remote"
  BY WorldParts DEF Types, VenueTypes
<1>3. CASE world.venue = "live"
  BY <1>1, <1>3, LiveDoes DEF Live
<1>4. CASE world.venue = "remote"
  BY <1>1, <1>4, RemoteDoes DEF Live
<1>5. QED
  BY <1>2, <1>3, <1>4

(* What the live book shows after its own partial, and the remote broker. *)
LEMMA ShownDoes ==
  ASSUME Types, NEW done \in 0 .. Bound
  PROVE  /\ shown(done) \in Shows /\ shown(done).entry = raw.entry
         /\ world.venue # "live" \/ raw.qty = 0 => shown(done) = raw
         /\ world.venue = "live" /\ done <= raw.qty => shown(done).qty = raw.qty - done \/ raw.qty = 0
<1>1. raw \in Shows /\ Bound \in Nat
  BY BoundType DEF Types, ShownTypes
<1>2. raw.qty \in 0 .. Bound /\ raw.qty \in Nat /\ done \in Nat
  BY <1>1 DEF Shows
<1>3. CASE ~(Live /\ raw.qty > 0)
  <2>1. shown(done) = raw
    BY <1>3 DEF shown
  <2>2. QED
    BY <1>1, <1>2, <1>3, <2>1 DEF Live
<1>4. CASE Live /\ raw.qty > 0
  <2> DEFINE x == IF raw.qty >= done THEN raw.qty - done ELSE done - raw.qty
  <2>1. shown(done) = [raw EXCEPT !.qty = x]
    BY <1>4 DEF shown
  <2>2. x \in 0 .. Bound
    BY <1>1, <1>2
  <2>3. done <= raw.qty => x = raw.qty - done
    BY <1>2
  <2> HIDE DEF x
  <2>4. shown(done) \in Shows /\ shown(done).entry = raw.entry /\ shown(done).qty = x
    BY <1>1, <2>1, <2>2 DEF Shows
  <2>5. QED
    BY <1>2, <1>4, <2>3, <2>4 DEF Live
<1>5. QED
  BY <1>3, <1>4

(* The venue's answer coming back, summed up. *)
LEMMA AnsweredDoes ==
  ASSUME Types, Working, NEW p \in Passes, Answered(p)
  PROVE  Counted(p) /\ Others(p) /\ PassTypes' /\ StoreTypes' /\ ShownTypes' /\ faults' \in faults .. MaxFaults
<1> DEFINE plan == pass[p].plan
           st == pass[p].state
           s == settle(st, Reason(plan), Due(plan), pass[p].done)
           rest == IF plan.tp1 > 0 THEN [plan EXCEPT !.tp1 = 0] ELSE [plan EXCEPT !.tp2 = 0]
           j == [pass[p] EXCEPT !.pc = "apply", !.state = s, !.done = 0, !.plan = rest]
<1>1. faults \in 0 .. MaxFaults /\ StoreTypes /\ PassTypes
  BY DEF Types, VenueTypes
<1>2. /\ pass[p].pc = "sent" /\ raw' = shown(pass[p].done)
      /\ UNCHANGED <<world, qty, stop, target, entry, mark, fetch, job, opened, taken, misses, busy>>
  BY DEF Answered
<1>3. /\ (IF s = st THEN UNCHANGED <<storeVars, faults>> ELSE Save(s))
      /\ Goto(p, j)
  BY DEF Answered
<1>4. pass[p] \in Jobs /\ plan \in Plans /\ pass[p].done \in 0 .. Bound
  BY <1>1, JobFields
<1>5. st \in GoodStates /\ plan.tp1 + plan.tp2 <= st.reduced /\ pass[p].done <= Due(plan) /\ Due(plan) > 0
  BY <1>2 DEF Working, Acting, JobOK
<1>6. Settled(st, plan, pass[p].done, s)
  BY <1>4, <1>5, SettleResult
<1> HIDE DEF s
<1>7. s \in GoodStates /\ s \in PmStates
  BY <1>6 DEF Settled, GoodStates
<1>8. /\ rest \in Plans /\ rest.stop = plan.stop
      /\ IF plan.tp1 > 0 THEN rest.tp1 = 0 /\ rest.tp2 = plan.tp2 ELSE rest.tp1 = plan.tp1 /\ rest.tp2 = 0
  <2>1. 0 \in 0 .. Bound
    BY BoundType
  <2>2. CASE plan.tp1 > 0
    <3>1. rest = [plan EXCEPT !.tp1 = 0]
      BY <2>2
    <3> HIDE DEF rest, plan
    <3>2. QED
      BY <1>4, <2>1, <2>2, <3>1 DEF Plans
  <2>3. CASE ~(plan.tp1 > 0)
    <3>1. rest = [plan EXCEPT !.tp2 = 0]
      BY <2>3
    <3> HIDE DEF rest, plan
    <3>2. QED
      BY <1>4, <2>1, <2>3, <3>1 DEF Plans
  <2>4. QED
    BY <2>2, <2>3
<1> HIDE DEF rest
<1>9. j \in Jobs /\ j.pc = "apply" /\ j.seen = pass[p].seen /\ j.plan = rest /\ j.state = s /\ j.done = 0
  <2>1. 0 \in 0 .. Bound
    BY BoundType
  <2>2. QED
    BY <1>4, <1>7, <1>8, <2>1 DEF Jobs
<1> HIDE DEF j
<1>10. PassTypes' /\ pass'[p] = j /\ Others(p)
  <2>1. busy' \in BOOLEAN
    BY <1>1, <1>2 DEF PassTypes
  <2>2. QED
    BY <1>1, <1>3, <1>9, <2>1, PutDoes
<1>11. StoreTypes' /\ faults' \in faults .. MaxFaults /\ (store' = s \/ (store' = store /\ s = st))
  <2>1. CASE s = st
    BY <1>1, <1>3, <2>1 DEF StoreTypes, storeVars
  <2>2. CASE s # st
    <3>1. Save(s)
      BY <1>3, <2>2
    <3>2. store' = s /\ file' \in {file, s} /\ faults' \in faults .. MaxFaults
      BY <1>1, <3>1, SaveDoes
    <3>3. QED
      BY <1>1, <1>7, <3>2 DEF StoreTypes
  <2>3. QED
    BY <2>1, <2>2
<1>12. /\ pass'[p].pc = "apply" /\ pass'[p].seen = pass[p].seen /\ pass'[p].done = 0 /\ pass'[p].state = s
       /\ pass'[p].plan = rest
  BY <1>9, <1>10
<1>13. Counted(p)
  BY <1>2, <1>6, <1>8, <1>11, <1>12 DEF Counted
<1>14. ShownTypes'
  <2>1. raw' \in Shows
    BY <1>2, <1>4, ShownDoes
  <2>2. QED
    BY <1>2, <2>1 DEF Types, ShownTypes
<1>15. QED
  BY <1>10, <1>11, <1>13, <1>14

(* A stop is an integer. *)
LEMMA StopInt == ASSUME NEW x \in Stops PROVE x \in Int
<1> DEFINE top == Max(Levels)
<1>1. top \in Int /\ x \in -1 .. top
  BY TopLevel DEF Stops
<1> HIDE DEF top
<1>2. QED
  BY <1>1

(* The last step of a pass, moving the stop or not, summed up. *)
LEMMA EndDoes ==
  ASSUME Types, Working, NEW p \in Passes, Move(p) \/ Done(p)
  PROVE  Ended(p) /\ Others(p) /\ PassTypes' /\ StoreTypes' /\ LevelTypes' /\ faults' \in faults .. MaxFaults
<1> DEFINE plan == pass[p].plan
           seen == pass[p].seen
           level == IF plan.stop > seen.stop THEN plan.stop ELSE seen.stop
           t == [pass[p].state EXCEPT !.stop = level]
<1>1. faults \in 0 .. MaxFaults /\ StoreTypes /\ PassTypes /\ LevelTypes /\ world \in Worlds /\ qty \in Nat
  BY DEF Types, VenueTypes
<1>2. /\ pass[p].pc = "apply" /\ Due(plan) = 0 /\ Goto(p, NoPass) /\ busy' = FALSE
      /\ UNCHANGED <<world, qty, entry, mark, raw, fetch, job, opened, taken, misses>>
  BY DEF Move, Done, venueVars
<1>3. PassTypes' /\ pass'[p] = NoPass /\ Others(p)
  BY <1>1, <1>2, NoPassType, PutDoes
<1>4. CASE UNCHANGED <<stop, target, store, file>> /\ faults' \in faults .. MaxFaults
  <2>1. StoreTypes' /\ LevelTypes'
    BY <1>1, <1>2, <1>4 DEF StoreTypes, LevelTypes
  <2>2. QED
    BY <1>2, <1>3, <1>4, <2>1 DEF Ended
<1>5. CASE /\ qty > 0 /\ stop' = venueStop(level) /\ target' = venueTarget(plan.target) /\ Save(t)
  <2>1. seen \in Views /\ pass[p].state \in GoodStates /\ pass[p].state \in PmStates /\ plan \in Plans
    BY <1>1, <1>2, JobFields DEF Working, Acting, JobOK, GoodStates
  <2>2. plan.stop \in Stops /\ seen.stop \in Stops /\ plan.target \in Targets /\ stop \in Stops /\ target \in Targets
    BY <1>1, <2>1, PlanFields, ViewFields DEF LevelTypes
  <2>3. plan.stop \in Int /\ seen.stop \in Int /\ stop \in Int
    BY <2>2, StopInt
  <2>4. level \in Stops /\ level >= seen.stop /\ level \in Int
    BY <2>2, <2>3
  <2> HIDE DEF level
  <2>5. /\ t \in PmStates /\ t.reduced = pass[p].state.reduced /\ t.initial = pass[p].state.initial
        /\ t.entry = pass[p].state.entry /\ t.tp1Done = pass[p].state.tp1Done /\ t.tp2Done = pass[p].state.tp2Done
    BY <2>1, <2>4 DEF PmStates
  <2> HIDE DEF t
  <2>6. t \in GoodStates
    BY <2>1, <2>5 DEF GoodStates
  <2>7. store' = t /\ file' \in {file, t} /\ faults' \in faults .. MaxFaults
    BY <1>1, <1>5, SaveDoes
  <2>8. StoreTypes'
    BY <1>1, <2>6, <2>7 DEF StoreTypes
  <2>9. SameLots(pass[p].state, store')
    BY <2>5, <2>7 DEF SameLots
  <2>10. target' \in Targets
    BY <1>5, <2>2 DEF venueTarget
  <2>11. stop' \in Stops /\ (world.venue = "live" \/ stop' >= seen.stop) /\ (world.venue = "live" => stop' >= stop)
    <3>1. CASE world.venue = "live"
      <4>1. stop' = Max({stop, level})
        BY <1>5, <3>1 DEF venueStop, Live
      <4>2. Max({stop, level}) \in {stop, level} /\ Max({stop, level}) >= stop
        BY <2>3, <2>4, Greater
      <4>3. QED
        BY <2>2, <2>4, <3>1, <4>1, <4>2
    <3>2. CASE world.venue # "live"
      <4>1. stop' = level
        BY <1>5, <3>2 DEF venueStop, Live
      <4>2. QED
        BY <2>4, <3>2, <4>1
    <3>3. QED
      BY <3>1, <3>2
  <2>12. LevelTypes'
    BY <1>1, <1>2, <2>10, <2>11 DEF LevelTypes
  <2>13. Ended(p)
    BY <1>2, <1>3, <1>5, <2>6, <2>7, <2>9, <2>10, <2>11 DEF Ended
  <2>14. QED
    BY <1>3, <2>7, <2>8, <2>12, <2>13
<1>6. CASE Move(p)
  <2>1. CASE /\ qty > 0 /\ stop' = venueStop(level) /\ target' = venueTarget(plan.target) /\ Save(t)
    BY <1>5, <2>1
  <2>2. CASE /\ qty = 0 \/ (May("reject") /\ faults < MaxFaults)
             /\ faults' = IF qty = 0 THEN faults ELSE faults + 1
             /\ UNCHANGED <<stop, target, storeVars>>
    <3>1. faults' \in faults .. MaxFaults
      BY <1>1, <2>2, Parameters
    <3>2. UNCHANGED <<stop, target, store, file>>
      BY <2>2 DEF storeVars
    <3>3. QED
      BY <1>4, <3>1, <3>2
  <2>3. QED
    BY <1>6, <2>1, <2>2 DEF Move
<1>7. CASE Done(p)
  <2>1. UNCHANGED <<stop, target, store, file>> /\ faults' \in faults .. MaxFaults
    BY <1>1, <1>7 DEF Done, venueVars, storeVars
  <2>2. QED
    BY <1>4, <2>1
<1>8. QED
  BY <1>6, <1>7

(* manage: the state of a position that is gone is dropped, or the pass      *)
(* queues with what it has read.                                             *)
LEMMA ManageDoes ==
  ASSUME Types, NEW p \in Passes, Manage(p)
  PROVE  /\ PassTypes' /\ StoreTypes' /\ faults' \in faults .. MaxFaults /\ pass[p].pc = "idle"
         /\ UNCHANGED <<world, qty, stop, target, entry, mark, raw, fetch, job, opened, taken, misses, busy>>
         /\ \/ raw.qty = 0 /\ store' = None /\ UNCHANGED pass
            \/ /\ store' = store /\ Others(p) /\ View \in Views /\ pass'[p].pc = "queued" /\ pass'[p].seen = View
               /\ pass'[p].done = 0
<1>1. faults \in 0 .. MaxFaults /\ StoreTypes /\ PassTypes /\ LevelTypes /\ VenueTypes
  BY DEF Types, VenueTypes
<1>2. pass[p].pc = "idle" /\ UNCHANGED <<world, qty, stop, target, entry, mark, raw, fetch, job, opened, taken, misses, busy>>
  BY DEF Manage, venueVars
<1>3. busy' \in BOOLEAN
  BY <1>1, <1>2 DEF PassTypes
<1>4. CASE raw.qty = 0
  <2>1. Save(None) /\ UNCHANGED pass
    BY <1>4 DEF Manage
  <2>2. store' = None /\ file' \in {file, None} /\ faults' \in faults .. MaxFaults
    BY <1>1, <2>1, SaveDoes
  <2>3. PassTypes' /\ StoreTypes'
    BY <1>1, <1>3, <2>1, <2>2 DEF PassTypes, StoreTypes
  <2>4. QED
    BY <1>2, <1>4, <2>1, <2>2, <2>3
<1>5. CASE raw.qty # 0
  <2> DEFINE j == [NoPass EXCEPT !.pc = "queued", !.seen = View]
  <2>1. Goto(p, j) /\ UNCHANGED <<store, file, faults>>
    BY <1>5 DEF Manage, storeVars
  <2>2. raw.qty \in 1 .. Bound /\ raw.entry \in 1 .. MaxEntries
    <3>1. raw \in Shows /\ Bound \in Nat
      BY BoundType DEF Types, ShownTypes
    <3>2. raw.qty \in 0 .. Bound /\ raw.entry \in 1 .. MaxEntries
      BY <3>1 DEF Shows
    <3>3. QED
      BY <1>5, <3>1, <3>2
  <2>3. View \in Views
    BY <1>1, <2>2 DEF View, Views, LevelTypes
  <2>4. j \in Jobs /\ j.pc = "queued" /\ j.seen = View /\ j.done = 0
    BY <2>3, NoPassType DEF Jobs, NoPass
  <2> HIDE DEF j
  <2>5. PassTypes' /\ pass'[p] = j /\ Others(p)
    BY <1>1, <1>3, <2>1, <2>4, PutDoes
  <2>6. StoreTypes' /\ faults' \in faults .. MaxFaults
    BY <1>1, <2>1 DEF StoreTypes
  <2>7. QED
    BY <1>2, <2>1, <2>3, <2>4, <2>5, <2>6
<1>6. QED
  BY <1>4, <1>5

(* A skipped pass goes idle and changes nothing else. *)
LEMMA SkipDoes ==
  ASSUME Types, NEW p \in Passes, Skip(p)
  PROVE  /\ PassTypes' /\ StoreTypes' /\ pass[p].pc = "queued" /\ pass'[p] = NoPass /\ Others(p)
         /\ UNCHANGED <<world, qty, stop, target, entry, mark, raw, fetch, job, opened, taken, misses, busy, store, faults>>
<1>1. StoreTypes /\ PassTypes
  BY DEF Types
<1>2. /\ pass[p].pc = "queued" /\ Goto(p, NoPass)
      /\ UNCHANGED <<world, qty, stop, target, entry, mark, raw, fetch, job, opened, taken, misses, busy, store, file, faults>>
  BY DEF Skip, venueVars, storeVars
<1>3. busy' \in BOOLEAN
  BY <1>1, <1>2 DEF PassTypes
<1>4. PassTypes' /\ pass'[p] = NoPass /\ Others(p)
  BY <1>1, <1>2, <1>3, NoPassType, PutDoes
<1>5. QED
  BY <1>1, <1>2, <1>4 DEF StoreTypes

(* A read or a refresh changes only what is read and shown. *)
LEMMA RefreshDoes ==
  ASSUME Types, Fetch \/ Refresh
  PROVE  /\ UNCHANGED <<world, qty, stop, target, entry, mark, job, opened, taken, misses>>
         /\ UNCHANGED <<store, file, busy, pass, faults>> /\ ShownTypes'
         /\ ~May("overlap") => raw' = Real /\ \A p \in Passes : pass[p].pc # "sent"
<1>1. /\ UNCHANGED <<world, qty, stop, target, entry, mark, job, opened, taken, misses>>
      /\ UNCHANGED <<store, file, busy, pass, faults>>
      /\ ~May("overlap") => raw' = Real /\ \A p \in Passes : pass[p].pc # "sent"
  BY DEF Fetch, Refresh, storeVars
<1>2. raw' \in {raw, Real, fetch} /\ (raw' = fetch => fetch # None \/ raw' \in {raw, Real})
      /\ fetch' \in {Real, None}
  BY DEF Fetch, Refresh
<1>3. Real \in Shows
  BY QtyBound DEF Real, Shows, Types, VenueTypes
<1>4. raw \in Shows /\ fetch \in Shows \cup {None} /\ job \in ExitJobs \cup {None}
  BY DEF Types, ShownTypes
<1>5. raw' \in Shows
  BY <1>2, <1>3, <1>4
<1>6. ShownTypes'
  BY <1>1, <1>2, <1>3, <1>4, <1>5 DEF ShownTypes
<1>7. QED
  BY <1>1, <1>6

(* A queued partial that is sent again fills what was out for it, or less. *)
LEMMA RetryDoes ==
  ASSUME Types, RetryExit
  PROVE  /\ UNCHANGED <<world, stop, target, entry, mark, raw, fetch, opened, misses, store, file, busy, pass>>
         /\ job # None /\ ShownTypes' /\ faults' \in faults .. MaxFaults
         /\ qty' \in Nat /\ qty' <= qty /\ taken' \in [{"TP1", "TP2"} -> Nat]
         /\ (taken'["TP1"] + taken'["TP2"]) + qty' = (taken["TP1"] + taken["TP2"]) + qty
         /\ \A x \in Reasons : Out(x)' <= Out(x)
<1>1. /\ UNCHANGED <<world, stop, target, entry, mark, raw, fetch, opened, misses, store, file, busy, pass>>
      /\ job # None
  BY DEF RetryExit, storeVars
<1>2. /\ faults \in 0 .. MaxFaults /\ qty \in Nat /\ taken \in [{"TP1", "TP2"} -> Nat] /\ job \in ExitJobs
      /\ ShownTypes
  BY <1>1 DEF Types, VenueTypes, ShownTypes
<1>3. job.n \in Nat /\ job.reason \in Reasons /\ job.filled \in BOOLEAN
  <2>1. job.n \in 1 .. Bound /\ job.reason \in {"TP1", "TP2"} /\ job.filled \in BOOLEAN
    BY <1>2 DEF ExitJobs, Bound
  <2>2. Bound \in Nat
    BY BoundType
  <2>3. QED
    BY <2>1, <2>2 DEF Reasons
<1>4. ASSUME job' = None \/ (job'.filled /\ job' \in ExitJobs) PROVE \A x \in Reasons : Queued(x)' = 0
  BY <1>4 DEF Queued
<1>5. CASE job' = None /\ UNCHANGED <<qty, taken>> /\ faults' \in faults .. MaxFaults
  <2>1. \A x \in Reasons : Out(x)' <= Out(x)
    BY <1>4, <1>5, OutType DEF Out
  <2>2. ShownTypes'
    BY <1>1, <1>2, <1>5 DEF ShownTypes
  <2>3. QED
    BY <1>1, <1>2, <1>5, <2>1, <2>2
<1>6. CASE /\ ~job.filled /\ qty > 0 /\ Fill(job.reason, Min({job.n, qty}))
           /\ (job' = None /\ UNCHANGED faults) \/ (Fault("outage") /\ job' = [job EXCEPT !.filled = TRUE])
  <2> DEFINE k == Min({job.n, qty})
  <2>1. k \in {job.n, qty} /\ k <= job.n /\ k <= qty
    <3>1. job.n \in Int /\ qty \in Int
      BY <1>2, <1>3
    <3>2. QED
      BY <3>1, Smaller
  <2> HIDE DEF k
  <2>2. k \in Nat /\ k <= job.n /\ k <= qty
    BY <1>2, <1>3, <2>1
  <2>3. /\ qty' = qty - k /\ qty' \in Nat /\ taken' \in [{"TP1", "TP2"} -> Nat]
        /\ taken'["TP1"] = taken["TP1"] + (IF job.reason = "TP1" THEN k ELSE 0)
        /\ taken'["TP2"] = taken["TP2"] + (IF job.reason = "TP1" THEN 0 ELSE k)
        /\ (taken'["TP1"] + taken'["TP2"]) + qty' = (taken["TP1"] + taken["TP2"]) + qty
    BY <1>3, <1>6, <2>2, FillDoes DEF k
  <2>4. /\ job' = None \/ (job'.filled /\ job' \in ExitJobs)
        /\ job' \in ExitJobs \cup {None}
    BY <1>2, <1>6 DEF ExitJobs
  <2>5. faults' \in faults .. MaxFaults
    <3>1. CASE UNCHANGED faults
      BY <1>2, <3>1
    <3>2. CASE Fault("outage")
      BY <1>2, <3>2, FaultDoes
    <3>3. QED
      BY <1>6, <3>1, <3>2
  <2>6. ASSUME NEW x \in Reasons PROVE Out(x)' <= Out(x)
    <3>1. taken[x] \in Nat /\ Queued(x) \in Nat
      BY OutType
    <3>2. Queued(x)' = 0
      BY <1>4, <2>4
    <3>3. taken'[x] = taken[x] + (IF x = job.reason THEN k ELSE 0)
      BY <1>3, <2>3 DEF Reasons
    <3>4. x = job.reason => Queued(x) = job.n
      BY <1>1, <1>6 DEF Queued
    <3>5. QED
      BY <1>3, <2>2, <3>1, <3>2, <3>3, <3>4 DEF Out
  <2>7. ShownTypes'
    BY <1>1, <1>2, <2>4 DEF ShownTypes
  <2>8. qty' <= qty
    BY <1>2, <2>2, <2>3
  <2>9. QED
    BY <1>1, <2>3, <2>5, <2>6, <2>7, <2>8
<1>7. CASE (job.filled \/ qty = 0) /\ job' = None /\ UNCHANGED <<qty, taken, faults>>
  BY <1>2, <1>5, <1>7
<1>8. CASE Fault("reject") /\ job' = None /\ UNCHANGED <<qty, taken>>
  BY <1>2, <1>5, <1>8, FaultDoes
<1>9. QED
  BY <1>6, <1>7, <1>8 DEF RetryExit

----------------------------------------------------------------------------
(* Every step keeps the invariant *)

(* A pass that is written keeps the busy flag's promise. *)
LEMMA OneWorks ==
  ASSUME Working, NEW p \in Passes, Others(p),
         pass'[p].pc = "queued" => pass'[p].seen \in Views /\ pass'[p].done = 0,
         Acting(p)' => busy' /\ JobOK(pass'[p]),
         \/ busy' = busy /\ (Acting(p)' => Acting(p))
         \/ ~busy
         \/ Acting(p) /\ ~Acting(p)'
  PROVE  Working'
<1>1. \A q \in Passes : q # p => pass'[q] = pass[q]
  BY DEF Others
<1>2. ASSUME NEW q \in Passes, q # p, Acting(q)'
      PROVE  Acting(q) /\ busy' /\ JobOK(pass'[q]) /\ ~Acting(p)'
  <2>1. Acting(q) /\ busy /\ JobOK(pass[q]) /\ pass'[q] = pass[q]
    BY <1>1, <1>2 DEF Acting, Working
  <2>2. ~Acting(p)
    BY <1>2, <2>1 DEF Working
  <2>3. QED
    BY <2>1, <2>2
<1>3. ASSUME NEW q \in Passes
      PROVE  /\ pass'[q].pc = "queued" => pass'[q].seen \in Views /\ pass'[q].done = 0
             /\ Acting(q)' => busy' /\ JobOK(pass'[q])
  <2>1. CASE q = p
    BY <2>1
  <2>2. CASE q # p
    BY <1>1, <1>2, <2>2 DEF Working
  <2>3. QED
    BY <2>1, <2>2
<1>4. ASSUME NEW q \in Passes, NEW r \in Passes, Acting(q)', Acting(r)' PROVE q = r
  <2>1. CASE q = p
    BY <1>2, <1>4, <2>1
  <2>2. CASE q # p
    <3>1. r # p /\ Acting(q)
      BY <1>2, <1>4, <2>2
    <3>2. Acting(r)
      BY <1>2, <1>4, <3>1
    <3>3. QED
      BY <3>1, <3>2 DEF Working
  <2>3. QED
    BY <2>1, <2>2
<1>5. QED
  BY <1>3, <1>4 DEF Working, Acting

(* The idle job is idle. *)
LEMMA IdleJob == NoPass.pc = "idle"
  BY DEF NoPass

(* Planning keeps at most one pass acting, under the busy flag and with a job that fits. *)
LEMMA StepWorks == ASSUME Types, Working, NEW p \in Passes, Step(p) PROVE Working'
<1>1. Stepped(p) /\ Others(p)
  BY StepDoes
<1>2. /\ pass[p].pc = "queued" /\ ~busy /\ busy' = TRUE /\ pass'[p].pc = "apply" /\ pass'[p].seen = pass[p].seen
      /\ pass'[p].done = 0 /\ pass'[p].state = store' /\ store' \in GoodStates /\ pass'[p].plan \in Plans
  BY <1>1 DEF Stepped
<1>3. PICK b \in PmStates : Based(pass[p].seen, b) /\ Advanced(b, pass[p].seen, store', pass'[p].plan)
  BY <1>1 DEF Stepped
<1>4. pass[p].seen \in Views
  BY <1>2 DEF Working
<1>5. JobOK(pass'[p])
  <2> DEFINE plan == pass'[p].plan
             s == store'
  <2>1. s.reduced = b.reduced + (plan.tp1 + plan.tp2) /\ plan.stop >= b.stop /\ b.stop = pass[p].seen.stop
    BY <1>3 DEF Advanced, Based
  <2>2. b.reduced \in Nat /\ plan.tp1 \in Nat /\ plan.tp2 \in Nat /\ Due(plan) \in Nat
    BY <1>2, StateFields, PlanFields
  <2>3. plan.tp1 + plan.tp2 <= s.reduced /\ 0 <= Due(plan)
    BY <2>1, <2>2
  <2>4. QED
    BY <1>2, <1>4, <2>1, <2>3 DEF JobOK
<1>6. Acting(p)' => busy' /\ JobOK(pass'[p])
  BY <1>2, <1>5
<1>7. QED
  BY <1>1, <1>2, <1>6, OneWorks

(* So does the venue's fill. *)
LEMMA ReduceWorks == ASSUME Types, Working, NEW p \in Passes, Reduce(p) PROVE Working'
<1>1. Others(p)
  BY ReduceDoes
<1>2. PICK m : \E n : Filled(p, n, m)
  BY ReduceDoes
<1>3. /\ pass[p].pc = "apply" /\ Due(pass[p].plan) > 0 /\ m \in 0 .. Due(pass[p].plan)
      /\ pass'[p].pc = "sent" /\ pass'[p].seen = pass[p].seen /\ pass'[p].plan = pass[p].plan
      /\ pass'[p].state = pass[p].state /\ pass'[p].done = m /\ busy' = busy
  BY <1>2 DEF Filled
<1>4. Acting(p) /\ busy /\ JobOK(pass[p])
  BY <1>3 DEF Working, Acting
<1>5. m <= Due(pass[p].plan)
  <2>1. pass[p].plan \in Plans
    BY JobFields DEF Types
  <2>2. Due(pass[p].plan) \in Nat
    BY <2>1, PlanFields
  <2>3. QED
    BY <1>3, <2>2
<1>6. JobOK(pass'[p])
  BY <1>3, <1>4, <1>5 DEF JobOK
<1>7. QED
  BY <1>1, <1>3, <1>4, <1>6, OneWorks

(* So does its answer. *)
LEMMA AnsweredWorks == ASSUME Types, Working, NEW p \in Passes, Answered(p) PROVE Working'
<1>1. Others(p) /\ Counted(p) /\ PassTypes'
  BY AnsweredDoes
<1>2. /\ pass[p].pc = "sent" /\ pass'[p].pc = "apply" /\ pass'[p].seen = pass[p].seen /\ pass'[p].done = 0
      /\ Settled(pass[p].state, pass[p].plan, pass[p].done, pass'[p].state)
      /\ pass'[p].plan.stop = pass[p].plan.stop
      /\ IF pass[p].plan.tp1 > 0 THEN pass'[p].plan.tp1 = 0 /\ pass'[p].plan.tp2 = pass[p].plan.tp2
                                ELSE pass'[p].plan.tp1 = pass[p].plan.tp1 /\ pass'[p].plan.tp2 = 0
      /\ busy' = busy
  BY <1>1 DEF Counted
<1>3. Acting(p) /\ busy /\ JobOK(pass[p])
  BY <1>2 DEF Working, Acting
<1>4. JobOK(pass'[p])
  <2> DEFINE plan == pass[p].plan
             rest == pass'[p].plan
             s == pass[p].state
             t == pass'[p].state
             d == pass[p].done
  <2>1. /\ s \in GoodStates /\ plan.tp1 + plan.tp2 <= s.reduced /\ plan.stop >= pass[p].seen.stop /\ d <= Due(plan)
        /\ Due(plan) > 0 /\ pass[p].seen \in Views
    BY <1>2, <1>3 DEF JobOK
  <2>2. t \in GoodStates /\ t.reduced = s.reduced - (Due(plan) - d)
    BY <1>2 DEF Settled
  <2>3. plan \in Plans /\ rest \in Plans /\ d \in Nat
    <3>1. plan \in Plans /\ d \in Nat
      BY JobFields DEF Types
    <3>2. pass' \in [Passes -> Jobs]
      BY <1>1 DEF PassTypes
    <3>3. pass'[p] \in Jobs
      BY <3>2
    <3>4. rest \in Plans
      BY <3>3 DEF Jobs
    <3>5. QED
      BY <3>1, <3>4
  <2>4. plan.tp1 \in Nat /\ plan.tp2 \in Nat /\ rest.tp1 \in Nat /\ rest.tp2 \in Nat /\ s.reduced \in Nat
        /\ Due(rest) \in Nat /\ Due(plan) \in Nat
    BY <2>1, <2>3, PlanFields, StateFields DEF GoodStates
  <2>5. Due(plan) = IF plan.tp1 > 0 THEN plan.tp1 ELSE plan.tp2
    BY DEF Due
  <2>5a. IF plan.tp1 > 0 THEN rest.tp1 = 0 /\ rest.tp2 = plan.tp2 ELSE rest.tp1 = plan.tp1 /\ rest.tp2 = 0
    BY <1>2
  <2>6. rest.tp1 + rest.tp2 <= t.reduced
    <3> HIDE DEF plan, rest, s, t, d
    <3>1. QED
      BY <2>1, <2>2, <2>3, <2>4, <2>5, <2>5a
  <2>7. QED
    BY <1>2, <2>1, <2>2, <2>4, <2>6 DEF JobOK
<1>5. QED
  BY <1>1, <1>2, <1>3, <1>4, OneWorks

(* The world stays. *)
LEMMA WorldStays == [Next]_vars => world' = world
  BY DEF Next, Manage, Skip, Step, Reduce, Answered, Move, Done, Fetch, Refresh, RetryExit, MarkMoves, Enter, Crash,
         vars

(* So does every step. *)
LEMMA WorkingStep == Types /\ Working /\ [Next]_vars => Working'
<1> SUFFICES ASSUME Types, Working, [Next]_vars PROVE Working'
  OBVIOUS
<1>1. CASE \E p \in Passes : Manage(p)
  <2>1. PICK p \in Passes : Manage(p)
    BY <1>1
  <2>2. CASE UNCHANGED pass
    BY <2>1, <2>2, ManageDoes DEF Working, Acting
  <2>3. CASE /\ store' = store /\ Others(p) /\ View \in Views /\ pass'[p].pc = "queued" /\ pass'[p].seen = View
             /\ pass'[p].done = 0
    <3>1. busy' = busy
      BY <2>1, ManageDoes
    <3>2. ~Acting(p)'
      BY <2>3 DEF Acting
    <3>3. QED
      BY <2>3, <3>1, <3>2, OneWorks
  <2>4. QED
    BY <2>1, <2>2, <2>3, ManageDoes
<1>2. CASE \E p \in Passes : Skip(p)
  <2>1. PICK p \in Passes : Skip(p)
    BY <1>2
  <2>2. pass'[p] = NoPass /\ Others(p) /\ busy' = busy
    BY <2>1, SkipDoes
  <2>3. ~Acting(p)' /\ pass'[p].pc # "queued"
    BY <2>2, IdleJob DEF Acting
  <2>4. QED
    BY <2>2, <2>3, OneWorks
<1>3. CASE \E p \in Passes : Step(p)
  BY <1>3, StepWorks
<1>4. CASE \E p \in Passes : Reduce(p)
  BY <1>4, ReduceWorks
<1>5. CASE \E p \in Passes : Answered(p)
  BY <1>5, AnsweredWorks
<1>6. CASE \E p \in Passes : Move(p) \/ Done(p)
  <2>1. PICK p \in Passes : Move(p) \/ Done(p)
    BY <1>6
  <2>2. Ended(p) /\ Others(p)
    BY <2>1, EndDoes
  <2>3. pass[p].pc = "apply" /\ pass'[p] = NoPass
    BY <2>2 DEF Ended
  <2>4. Acting(p) /\ ~Acting(p)' /\ pass'[p].pc # "queued"
    BY <2>3, IdleJob DEF Acting
  <2>5. QED
    BY <2>2, <2>4, OneWorks
<1>7. CASE Fetch \/ Refresh \/ RetryExit \/ MarkMoves \/ Enter \/ UNCHANGED vars
  <2>1. UNCHANGED <<pass, busy>>
    BY <1>7 DEF Fetch, Refresh, RetryExit, MarkMoves, Enter, vars
  <2>2. QED
    BY <2>1 DEF Working, Acting
<1>8. CASE Crash
  <2>1. \A p \in Passes : pass'[p].pc = "idle"
    BY <1>8, IdleJob DEF Crash
  <2>2. QED
    BY <2>1 DEF Working, Acting
<1>9. QED
  BY <1>1, <1>2, <1>3, <1>4, <1>5, <1>6, <1>7, <1>8 DEF Next

(* Only fills, the market and a new entry change the lots. *)
LEMMA VenueStays ==
  ASSUME VenueTypes, UNCHANGED <<world, qty, opened, entry, taken, misses>>, faults' \in faults .. MaxFaults
  PROVE  VenueTypes'
<1>1. misses' \in 0 .. faults' /\ faults' \in 0 .. MaxFaults
  BY Parameters DEF VenueTypes
<1>2. QED
  BY <1>1 DEF VenueTypes

(* What is shown is kept by a step that leaves it alone. *)
LEMMA ShownStays == ASSUME ShownTypes, UNCHANGED <<raw, fetch, job>> PROVE ShownTypes'
  BY DEF ShownTypes

(* The levels' types survive a step that leaves them alone. *)
LEMMA LevelsStay == ASSUME LevelTypes, UNCHANGED <<stop, target, mark>> PROVE LevelTypes'
  BY DEF LevelTypes

(* Every step keeps the types. *)
LEMMA TypesStep == Types /\ Working /\ [Next]_vars => Types'
<1> SUFFICES ASSUME Types, Working, [Next]_vars PROVE Types'
  OBVIOUS
<1>0. VenueTypes /\ ShownTypes /\ LevelTypes /\ StoreTypes /\ PassTypes /\ faults \in 0 .. MaxFaults
  BY DEF Types, VenueTypes
<1>1. CASE \E p \in Passes : Manage(p)
  BY <1>0, <1>1, ManageDoes, VenueStays, ShownStays, LevelsStay DEF Types
<1>2. CASE \E p \in Passes : Skip(p)
  BY <1>0, <1>2, SkipDoes, VenueStays, ShownStays, LevelsStay DEF Types
<1>3. CASE \E p \in Passes : Step(p)
  <2>1. PICK p \in Passes : Step(p)
    BY <1>3
  <2>2. PassTypes' /\ StoreTypes' /\ faults' \in faults .. MaxFaults /\ Stepped(p)
    BY <2>1, StepDoes
  <2>3. UNCHANGED <<world, qty, stop, target, entry, mark, raw, fetch, job, opened, taken, misses>>
    BY <2>2 DEF Stepped, venueVars
  <2>4. QED
    BY <1>0, <2>2, <2>3, VenueStays, ShownStays, LevelsStay DEF Types
<1>4. CASE \E p \in Passes : Reduce(p)
  <2>1. PICK p \in Passes : Reduce(p)
    BY <1>4
  <2>2. PassTypes' /\ ShownTypes' /\ faults' \in faults .. MaxFaults /\ misses' \in 0 .. faults'
    BY <2>1, ReduceDoes
  <2>3. PICK n : \E m : Filled(p, n, m)
    BY <2>1, ReduceDoes
  <2>4. UNCHANGED <<world, stop, target, entry, mark, opened, store, file>>
    BY <2>3 DEF Filled
  <2>5. VenueTypes'
    <3>1. Due(pass[p].plan) \in Nat
      BY <1>0, JobFields, PlanFields
    <3>2. /\ n \in Nat /\ n <= qty /\ qty' = qty - n /\ taken' \in [{"TP1", "TP2"} -> Nat]
          /\ taken'["TP1"] = taken["TP1"] + (IF pass[p].plan.tp1 > 0 THEN n ELSE 0)
          /\ taken'["TP2"] = taken["TP2"] + (IF pass[p].plan.tp1 > 0 THEN 0 ELSE n)
      BY <2>3, <3>1 DEF Filled
    <3> DEFINE a == taken["TP1"]
               c == taken["TP2"]
    <3>3. qty \in Nat /\ a \in Nat /\ c \in Nat /\ opened \in Nat /\ (a + c) + qty <= opened
      BY <1>0 DEF VenueTypes
    <3>4. (taken'["TP1"] + taken'["TP2"]) + qty' <= opened /\ qty' \in Nat
      <4>1. CASE pass[p].plan.tp1 > 0
        <5>1. taken'["TP1"] = a + n /\ taken'["TP2"] = c + 0
          BY <3>2, <4>1
        <5> HIDE DEF a, c
        <5>2. QED
          BY <3>2, <3>3, <5>1
      <4>2. CASE ~(pass[p].plan.tp1 > 0)
        <5>1. taken'["TP1"] = a + 0 /\ taken'["TP2"] = c + n
          BY <3>2, <4>2
        <5> HIDE DEF a, c
        <5>2. QED
          BY <3>2, <3>3, <5>1
      <4>3. QED
        BY <4>1, <4>2
    <3>5. faults' \in 0 .. MaxFaults
      BY <1>0, <2>2, Parameters
    <3>6. QED
      BY <1>0, <2>2, <2>4, <3>2, <3>4, <3>5 DEF VenueTypes
  <2>6. QED
    BY <1>0, <2>2, <2>4, <2>5, LevelsStay DEF Types, StoreTypes
<1>5. CASE \E p \in Passes : Answered(p)
  <2>1. PICK p \in Passes : Answered(p)
    BY <1>5
  <2>2. PassTypes' /\ StoreTypes' /\ ShownTypes' /\ faults' \in faults .. MaxFaults /\ Counted(p)
    BY <2>1, AnsweredDoes
  <2>3. UNCHANGED <<world, qty, stop, target, entry, mark, opened, taken, misses>>
    BY <2>2 DEF Counted
  <2>4. QED
    BY <1>0, <2>2, <2>3, VenueStays, ShownStays, LevelsStay DEF Types
<1>6. CASE \E p \in Passes : Move(p) \/ Done(p)
  <2>1. PICK p \in Passes : Move(p) \/ Done(p)
    BY <1>6
  <2>2. PassTypes' /\ StoreTypes' /\ LevelTypes' /\ faults' \in faults .. MaxFaults /\ Ended(p)
    BY <2>1, EndDoes
  <2>3. UNCHANGED <<world, qty, entry, raw, fetch, job, opened, taken, misses>>
    BY <2>2 DEF Ended
  <2>4. QED
    BY <1>0, <2>2, <2>3, VenueStays, ShownStays DEF Types
<1>7. CASE MarkMoves
  <2>1. /\ UNCHANGED <<world, stop, target, entry, raw, fetch, job, opened, taken, misses, store, file, busy, pass, faults>>
        /\ mark' \in Levels /\ (qty' = 0 \/ qty' = qty)
    BY <1>7 DEF MarkMoves, storeVars
  <2>2. VenueTypes'
    <3> DEFINE sum == taken["TP1"] + taken["TP2"]
    <3>1. sum \in Nat /\ qty \in Nat /\ opened \in Nat /\ sum + qty <= opened
      BY <1>0 DEF VenueTypes
    <3> HIDE DEF sum
    <3>2. qty' \in Nat /\ sum + qty' <= opened
      BY <2>1, <3>1
    <3>3. QED
      BY <1>0, <2>1, <3>2 DEF VenueTypes, sum
  <2>3. QED
    BY <1>0, <2>1, <2>2, ShownStays DEF Types, LevelTypes, StoreTypes, PassTypes
<1>8. CASE Enter
  <2>1. /\ UNCHANGED <<world, raw, fetch, job, store, file, busy, pass, faults>> /\ misses' = 0
        /\ entry < MaxEntries /\ entry' = entry + 1 /\ qty' = qty + Lots /\ opened' = qty + Lots
        /\ stop' = -1 /\ target' = world.target /\ mark' = 0 /\ taken' = [r \in {"TP1", "TP2"} |-> 0]
    BY <1>8 DEF Enter, storeVars
  <2>2. VenueTypes'
    <3>1. entry \in 1 .. MaxEntries /\ qty \in Nat /\ opened \in Nat /\ opened <= Lots * entry /\ qty <= opened
      BY <1>0 DEF VenueTypes
    <3>2. Lots * entry \in Nat /\ Lots * (entry + 1) = Lots * entry + Lots /\ Lots \in Nat /\ MaxEntries \in Nat
      BY <3>1, BoundType, Parameters
    <3>3. entry' \in 1 .. MaxEntries /\ qty' \in Nat /\ opened' \in Nat /\ opened' >= Lots
      BY <2>1, <3>1, <3>2
    <3>4. opened' <= Lots * entry'
      BY <2>1, <3>1, <3>2
    <3>5. taken' \in [{"TP1", "TP2"} -> Nat] /\ (taken'["TP1"] + taken'["TP2"]) + qty' <= opened'
      BY <2>1, <3>3
    <3>6. misses' \in 0 .. faults'
      BY <1>0, <2>1
    <3>7. QED
      BY <1>0, <2>1, <3>3, <3>4, <3>5, <3>6 DEF VenueTypes
  <2>3. LevelTypes'
    <3>1. -1 \in Stops
      <4>1. Max(Levels) \in Int /\ -1 <= Max(Levels)
        BY TopLevel, Parameters
      <4>2. QED
        BY <4>1 DEF Stops
    <3>2. world.target \in Targets /\ 0 \in Levels
      BY <1>0, WorldParts, Parameters DEF VenueTypes
    <3>3. QED
      BY <2>1, <3>1, <3>2 DEF LevelTypes
  <2>4. QED
    BY <1>0, <2>1, <2>2, <2>3, ShownStays DEF Types, StoreTypes, PassTypes
<1>9. CASE Crash
  <2>1. /\ UNCHANGED <<world, qty, stop, target, entry, mark, opened, taken, misses, file>> /\ store' = file
        /\ busy' = FALSE /\ pass' = [p \in Passes |-> NoPass] /\ Fault("crash")
        /\ raw' \in {[qty |-> 0, entry |-> 1], Real} /\ fetch' = None /\ job' = None
    BY <1>9 DEF Crash
  <2>2. PassTypes'
    BY <2>1, NoPassType DEF PassTypes
  <2>3. StoreTypes' /\ faults' \in faults .. MaxFaults
    BY <1>0, <2>1, FaultDoes DEF StoreTypes
  <2>4. ShownTypes'
    <3>1. Real \in Shows
      BY <1>0, QtyBound DEF Real, Shows, VenueTypes
    <3>2. [qty |-> 0, entry |-> 1] \in Shows
      BY BoundType, Parameters DEF Shows
    <3>3. QED
      BY <2>1, <3>1, <3>2 DEF ShownTypes
  <2>5. QED
    BY <1>0, <2>1, <2>2, <2>3, <2>4, VenueStays, LevelsStay DEF Types
<1>9a. CASE Fetch \/ Refresh
  <2>1. /\ UNCHANGED <<world, qty, stop, target, entry, mark, opened, taken, misses>>
        /\ UNCHANGED <<store, file, busy, pass, faults>> /\ ShownTypes'
    BY <1>9a, RefreshDoes
  <2>2. faults' \in faults .. MaxFaults
    BY <1>0, <2>1
  <2>3. QED
    BY <1>0, <2>1, <2>2, VenueStays, LevelsStay DEF Types, StoreTypes, PassTypes
<1>9b. CASE RetryExit
  <2>1. /\ UNCHANGED <<world, stop, target, entry, mark, opened, misses, store, file, busy, pass>>
        /\ ShownTypes' /\ faults' \in faults .. MaxFaults
        /\ qty' \in Nat /\ taken' \in [{"TP1", "TP2"} -> Nat]
        /\ (taken'["TP1"] + taken'["TP2"]) + qty' = (taken["TP1"] + taken["TP2"]) + qty
    BY <1>9b, RetryDoes
  <2>2. misses' \in 0 .. faults' /\ faults' \in 0 .. MaxFaults
    BY <1>0, <2>1, Parameters DEF VenueTypes
  <2>3. VenueTypes'
    BY <1>0, <2>1, <2>2 DEF VenueTypes
  <2>4. QED
    BY <1>0, <2>1, <2>3, LevelsStay DEF Types, StoreTypes, PassTypes
<1>10. CASE UNCHANGED vars
  BY <1>0, <1>10, VenueStays, ShownStays, LevelsStay DEF vars, Types, StoreTypes, PassTypes
<1>11. QED
  BY <1>1, <1>2, <1>3, <1>4, <1>5, <1>6, <1>7, <1>8, <1>9, <1>9a, <1>9b, <1>10 DEF Next

(* What a prompt pass has seen. *)
LEMMA SeeingStep == Types /\ Working /\ Seeing /\ [Next]_vars => Seeing'
<1> SUFFICES ASSUME Types, Working, Seeing, [Next]_vars, ~May("delayed")', NEW q \in Passes
             PROVE  (pass'[q].pc = "queued" => pass'[q].seen = View') /\ (Acting(q)' => stop' <= pass'[q].seen.stop)
  BY DEF Seeing, Acting
<1>0. stop \in Stops /\ stop \in Int /\ LevelTypes /\ PassTypes
  BY StopInt DEF Types, LevelTypes
<1>w. world' = world
  BY WorldStays
<1>1. /\ pass[q].pc = "queued" => pass[q].seen = View
      /\ Acting(q) => stop <= pass[q].seen.stop
  BY <1>w DEF Seeing, May
<1>2. CASE \E p \in Passes : Manage(p)
  <2>1. PICK p \in Passes : Manage(p)
    BY <1>2
  <2>2. UNCHANGED <<raw, stop, target, entry, mark>> /\ View' = View
    BY <2>1, ManageDoes DEF View
  <2>3. CASE UNCHANGED pass
    BY <1>1, <2>2, <2>3 DEF Acting
  <2>4. CASE Others(p) /\ pass'[p].pc = "queued" /\ pass'[p].seen = View
    BY <1>1, <2>2, <2>4 DEF Acting, Others
  <2>5. QED
    BY <2>1, <2>3, <2>4, ManageDoes
<1>3. CASE \E p \in Passes : Skip(p)
  <2>1. PICK p \in Passes : Skip(p)
    BY <1>3
  <2>2. UNCHANGED <<raw, stop, target, entry, mark>> /\ View' = View /\ Others(p) /\ pass'[p].pc = "idle"
    BY <2>1, SkipDoes, IdleJob DEF View
  <2>3. QED
    BY <1>1, <2>2 DEF Acting, Others
<1>4. CASE \E p \in Passes : Step(p)
  <2>1. PICK p \in Passes : Step(p)
    BY <1>4
  <2>2. Others(p) /\ Stepped(p)
    BY <2>1, StepDoes
  <2>3. /\ UNCHANGED <<raw, stop, target, entry, mark>> /\ View' = View
        /\ pass[p].pc = "queued" /\ pass'[p].pc = "apply" /\ pass'[p].seen = pass[p].seen
    BY <2>2 DEF Stepped, venueVars, View
  <2>4. CASE q = p
    <3>1. pass[p].seen = View
      BY <1>1, <2>3, <2>4
    <3>2. pass'[p].seen.stop = stop
      BY <2>3, <3>1 DEF View
    <3>3. QED
      BY <1>0, <2>3, <2>4, <3>2
  <2>5. CASE q # p
    BY <1>1, <2>2, <2>3, <2>5 DEF Acting, Others
  <2>6. QED
    BY <2>4, <2>5
<1>5. ASSUME Prompt PROVE pass[q].pc # "queued"
  BY <1>5, <1>w DEF Prompt, May
<1>6. CASE \E p \in Passes : Reduce(p)
  <2>1. PICK p \in Passes : Reduce(p)
    BY <1>6
  <2>2. Others(p) /\ Prompt
    BY <2>1, ReduceDoes DEF Reduce
  <2>3. PICK m : \E n : Filled(p, n, m)
    BY <2>1, ReduceDoes
  <2>4. pass[p].pc = "apply" /\ stop' = stop /\ pass'[p].pc = "sent" /\ pass'[p].seen = pass[p].seen
    BY <2>3 DEF Filled
  <2>5. QED
    BY <1>1, <1>5, <2>2, <2>4 DEF Acting, Others
<1>7. CASE \E p \in Passes : Answered(p)
  <2>1. PICK p \in Passes : Answered(p)
    BY <1>7
  <2>2. Others(p) /\ Prompt /\ Counted(p)
    BY <2>1, AnsweredDoes DEF Answered
  <2>3. pass[p].pc = "sent" /\ stop' = stop /\ pass'[p].pc = "apply" /\ pass'[p].seen = pass[p].seen
    BY <2>2 DEF Counted
  <2>4. QED
    BY <1>1, <1>5, <2>2, <2>3 DEF Acting, Others
<1>8. CASE \E p \in Passes : Move(p) \/ Done(p)
  <2>1. PICK p \in Passes : Move(p) \/ Done(p)
    BY <1>8
  <2>2. Others(p) /\ Prompt /\ Ended(p)
    BY <2>1, EndDoes DEF Move, Done
  <2>3. pass[p].pc = "apply" /\ pass'[p].pc = "idle"
    BY <2>2, IdleJob DEF Ended
  <2>4. q # p => ~Acting(q) /\ pass'[q] = pass[q]
    BY <2>2, <2>3 DEF Working, Acting, Others
  <2>5. QED
    BY <1>5, <2>2, <2>3, <2>4 DEF Acting
<1>9. CASE Fetch \/ Refresh \/ RetryExit \/ MarkMoves
  <2>1. Prompt /\ UNCHANGED <<pass, stop>>
    BY <1>9 DEF Fetch, Refresh, RetryExit, MarkMoves
  <2>2. QED
    BY <1>1, <1>5, <2>1 DEF Acting
<1>10. CASE Enter
  <2>1. Prompt /\ UNCHANGED pass /\ stop' = -1
    BY <1>10 DEF Enter
  <2>2. Acting(q) => pass[q].seen \in Views
    BY DEF Working, JobOK
  <2>3. Acting(q) => -1 <= pass[q].seen.stop
    BY <2>2, ViewFields
  <2>4. QED
    BY <1>5, <2>1, <2>3 DEF Acting
<1>11. CASE Crash
  <2>1. pass'[q].pc = "idle"
    BY <1>11, IdleJob DEF Crash
  <2>2. QED
    BY <2>1 DEF Acting
<1>12. CASE UNCHANGED vars
  BY <1>1, <1>12 DEF vars, View, Acting
<1>13. QED
  BY <1>2, <1>3, <1>4, <1>6, <1>7, <1>8, <1>9, <1>10, <1>11, <1>12 DEF Next

(* What a job still means to take, over the steps of its pass. *)
LEMMA PendType ==
  ASSUME Types, Working, NEW p \in Passes, Acting(p)
  PROVE  /\ Pend(pass[p]) \in Nat /\ pass[p].done \in Nat /\ pass[p].done <= Due(pass[p].plan)
         /\ pass[p].plan.tp1 \in Nat /\ pass[p].plan.tp2 \in Nat
         /\ pass[p].pc = "apply" /\ Due(pass[p].plan) = 0 => Pend(pass[p]) = 0
<1> DEFINE plan == pass[p].plan
           d == pass[p].done
<1>1. plan \in Plans /\ d \in Nat
  BY JobFields DEF Types
<1>2. plan.tp1 \in Nat /\ plan.tp2 \in Nat /\ Due(plan) \in Nat /\ Due(plan) <= plan.tp1 + plan.tp2
  BY <1>1, PlanFields
<1>3. d <= Due(plan) /\ (pass[p].pc = "apply" => d = 0)
  BY DEF Working, JobOK
<1>4. Pend(pass[p]) = (plan.tp1 + plan.tp2) - d
  BY DEF Pend
<1>5. Due(plan) = 0 => plan.tp1 = 0 /\ plan.tp2 = 0
  BY <1>2 DEF Due
<1> HIDE DEF plan, d
<1>6. Pend(pass[p]) \in Nat /\ (pass[p].pc = "apply" /\ Due(plan) = 0 => Pend(pass[p]) = 0)
  BY <1>1, <1>2, <1>3, <1>4, <1>5
<1>7. QED
  BY <1>1, <1>2, <1>3, <1>6 DEF plan, d

(* An answer to a partial takes what it tells of off the pass's pending quantity. *)
LEMMA FilledPend ==
  ASSUME Types, Working, NEW p \in Passes, NEW k, NEW n, Filled(p, k, n)
  PROVE  /\ Pend(pass'[p]) = Pend(pass[p]) - n /\ Pend(pass[p]) \in Nat /\ n \in Nat /\ n <= Pend(pass[p])
         /\ pass[p].done = 0 /\ k \in Nat /\ Due(pass[p].plan) <= Pend(pass[p])
<1> DEFINE plan == pass[p].plan
<1>1. /\ pass[p].pc = "apply" /\ pass'[p].plan = plan /\ pass'[p].done = n /\ n \in 0 .. Due(plan) /\ k \in 0 .. Due(plan)
  BY DEF Filled
<1>2. Acting(p)
  BY <1>1 DEF Acting
<1>3. pass[p].done = 0
  BY <1>1, <1>2 DEF Working, JobOK
<1>4. plan \in Plans /\ plan.tp1 \in Nat /\ plan.tp2 \in Nat /\ Due(plan) \in Nat /\ Due(plan) <= plan.tp1 + plan.tp2
  BY JobFields, PlanFields DEF Types
<1>5. Pend(pass[p]) = (plan.tp1 + plan.tp2) - 0 /\ Pend(pass'[p]) = (plan.tp1 + plan.tp2) - n
  BY <1>1, <1>3 DEF Pend
<1> DEFINE d == Due(plan)
<1>6. k \in 0 .. d /\ n \in 0 .. d /\ d \in Nat /\ d <= plan.tp1 + plan.tp2
  BY <1>1, <1>4
<1> HIDE DEF plan, d
<1>7. k \in Nat /\ n \in Nat /\ n <= d
  BY <1>6
<1>8. Pend(pass'[p]) = Pend(pass[p]) - n /\ Pend(pass[p]) \in Nat /\ n <= Pend(pass[p]) /\ d <= Pend(pass[p])
  BY <1>4, <1>5, <1>6, <1>7
<1>9. QED
  BY <1>3, <1>7, <1>8 DEF plan, d

(* An answer takes what was not filled off the pass's pending quantity. *)
LEMMA CountedPend ==
  ASSUME Types, Working, NEW p \in Passes, Counted(p)
  PROVE  /\ Pend(pass'[p]) = Pend(pass[p]) - (Due(pass[p].plan) - pass[p].done)
         /\ Pend(pass[p]) \in Nat /\ Due(pass[p].plan) \in Nat /\ pass[p].done \in Nat
         /\ pass[p].done <= Due(pass[p].plan)
<1> DEFINE plan == pass[p].plan
           d == pass[p].done
           rest == pass'[p].plan
<1>1. /\ pass[p].pc = "sent" /\ pass'[p].done = 0
      /\ IF plan.tp1 > 0 THEN rest.tp1 = 0 /\ rest.tp2 = plan.tp2 ELSE rest.tp1 = plan.tp1 /\ rest.tp2 = 0
  BY DEF Counted
<1>2. Acting(p)
  BY <1>1 DEF Acting
<1>3. plan.tp1 \in Nat /\ plan.tp2 \in Nat /\ d \in Nat /\ d <= Due(plan) /\ Pend(pass[p]) \in Nat
  BY <1>2, PendType
<1>4. Due(plan) = IF plan.tp1 > 0 THEN plan.tp1 ELSE plan.tp2
  BY DEF Due
<1>5. Pend(pass[p]) = (plan.tp1 + plan.tp2) - d /\ Pend(pass'[p]) = (rest.tp1 + rest.tp2) - 0
  BY <1>1 DEF Pend
<1> HIDE DEF plan, d, rest
<1>6. Pend(pass'[p]) = Pend(pass[p]) - (Due(plan) - d) /\ Due(plan) \in Nat
  BY <1>1, <1>3, <1>4, <1>5
<1>7. QED
  BY <1>3, <1>6 DEF plan, d

(* A job that is not out for an answer has nothing executed that is still shown. *)
LEMMA UnshownType ==
  ASSUME PassTypes, NEW q \in Passes
  PROVE  /\ Unshown(pass[q]) \in Nat
         /\ pass[q].pc # "sent" \/ world.venue # "live" => Unshown(pass[q]) = 0
         /\ pass[q].pc = "sent" /\ world.venue = "live" => Unshown(pass[q]) = pass[q].done
<1>1. pass[q].done \in Nat
  BY JobFields
<1>2. QED
  BY <1>1 DEF Unshown

(* A step that leaves the venue's books and what is shown of them alone. *)
LEMMA ShowingStays ==
  ASSUME Types, Showing, UNCHANGED <<world, entry, raw, job, opened, taken, misses>>, qty' \in {qty, 0},
         \A q \in Passes : (pass[q].pc = "sent" <=> pass'[q].pc = "sent") /\ Unshown(pass[q])' = Unshown(pass[q]),
         raw.qty = 0 /\ Idle => Idle'
  PROVE  Showing'
<1> SUFFICES ASSUME ~May("overlap") PROVE Showing'
  BY DEF Showing, May
<1>1. raw.entry <= entry /\ (misses = 0 => job = None) /\ ShowsLots /\ ShowsEnough /\ NotShown
  BY DEF Showing
<1>2. qty \in Nat /\ raw.qty \in Nat
  <2>1. raw \in Shows /\ Bound \in Nat /\ qty \in Nat
    BY BoundType DEF Types, ShownTypes, VenueTypes
  <2>2. raw.qty \in 0 .. Bound
    BY <2>1 DEF Shows
  <2>3. QED
    BY <2>1, <2>2
<1>3. ShowsLots'
  <2> SUFFICES ASSUME misses = 0, raw.entry = entry, qty' > 0, raw.qty > 0
               PROVE  /\ \A q \in Passes : pass'[q].pc = "sent" => raw.qty = qty' + Unshown(pass[q])'
                      /\ (\A q \in Passes : pass'[q].pc # "sent") => raw.qty = qty'
    BY DEF ShowsLots, Unshown
  <2>1. qty' = qty
    OBVIOUS
  <2>2. /\ \A q \in Passes : pass[q].pc = "sent" => raw.qty = qty + Unshown(pass[q])
        /\ (\A q \in Passes : pass[q].pc # "sent") => raw.qty = qty
    BY <1>1, <2>1 DEF ShowsLots
  <2>3. QED
    BY <2>1, <2>2
<1>4. ShowsEnough'
  <2> SUFFICES ASSUME ~May("crash"), raw.entry = entry
               PROVE  /\ qty' <= raw.qty /\ raw.qty <= opened
                      /\ \A q \in Passes : qty' + Unshown(pass[q])' <= raw.qty
    BY DEF ShowsEnough, Unshown, May
  <2>1. /\ qty <= raw.qty /\ raw.qty <= opened
        /\ \A q \in Passes : qty + Unshown(pass[q]) <= raw.qty
    BY <1>1 DEF ShowsEnough
  <2>2. ASSUME NEW q \in Passes PROVE qty' + Unshown(pass[q])' <= raw.qty
    <3>1. Unshown(pass[q]) \in Nat /\ qty + Unshown(pass[q]) <= raw.qty /\ Unshown(pass[q])' = Unshown(pass[q])
      BY <2>1, UnshownType DEF Types
    <3>2. QED
      BY <1>2, <3>1
  <2>3. QED
    BY <1>2, <2>1, <2>2
<1>5. NotShown'
  BY <1>1 DEF NotShown, May
<1>6. QED
  BY <1>1, <1>3, <1>4, <1>5 DEF Showing

(* The answer to a partial keeps the venue object's count: what was executed is no longer held, and is shown *)
(* until the live book subtracts it; or the fill was missed. *)
LEMMA ShowingReduce == ASSUME Types, Working, Showing, NEW p \in Passes, Reduce(p) PROVE Showing'
<1>1. Others(p) /\ PassTypes'
  BY ReduceDoes
<1>2. PICK n, m : Filled(p, n, m)
  BY ReduceDoes
<1>3. /\ pass[p].pc = "apply" /\ pass'[p].pc = "sent" /\ pass'[p].done = m /\ n <= qty /\ qty' = qty - n
      /\ UNCHANGED <<world, entry, opened>>
  BY <1>2 DEF Filled
<1> SUFFICES ASSUME ~May("overlap") PROVE Showing'
  BY <1>3 DEF Showing, May
<1>4. raw.entry <= entry /\ (misses = 0 => job = None) /\ ShowsLots /\ ShowsEnough /\ NotShown
  BY DEF Showing
<1>5. /\ qty \in Nat /\ raw.qty \in Nat /\ misses \in Nat /\ qty <= opened /\ opened \in Nat /\ entry \in Nat
      /\ raw.entry \in Nat
  <2>1. raw \in Shows /\ Bound \in Nat /\ misses \in 0 .. faults /\ faults \in 0 .. MaxFaults /\ entry \in 1 .. MaxEntries
    BY BoundType DEF Types, ShownTypes, VenueTypes
  <2>2. raw.qty \in 0 .. Bound /\ raw.entry \in 1 .. MaxEntries
    BY <2>1 DEF Shows
  <2>3. /\ qty \in Nat /\ opened \in Nat /\ taken["TP1"] \in Nat /\ taken["TP2"] \in Nat
        /\ (taken["TP1"] + taken["TP2"]) + qty <= opened
    BY DEF Types, VenueTypes
  <2>4. qty <= opened
    BY <2>3
  <2>5. QED
    BY <2>1, <2>2, <2>3, <2>4, Parameters
<1>6. n \in Nat /\ m \in Nat
  <2>1. Due(pass[p].plan) \in Nat
    BY JobFields, PlanFields DEF Types
  <2>2. n \in 0 .. Due(pass[p].plan) /\ m \in 0 .. Due(pass[p].plan)
    BY <1>2 DEF Filled
  <2>3. QED
    BY <2>1, <2>2
<1>7. Acting(p) /\ ~Idle
  BY <1>3 DEF Acting, Idle
<1>8. /\ \A q \in Passes : pass[q].pc # "sent"
      /\ \A q \in Passes : q # p => pass'[q].pc # "sent" /\ Unshown(pass[q])' = 0
      /\ Unshown(pass[p])' = IF world.venue = "live" THEN m ELSE 0
  BY <1>1, <1>3, <1>7 DEF Working, Acting, Others, Unshown
<1>9. raw.entry # entry => May("scale")
  BY <1>4, <1>7 DEF NotShown
<1>10. CASE Truthful(p, n, m) /\ raw' = raw
  <2>1. /\ UNCHANGED <<job, misses, raw>>
        /\ \/ n = m /\ (world.venue = "live" \/ n = 0)
           \/ qty' = raw.qty /\ raw.entry = entry /\ world.venue = "remote"
    BY <1>3, <1>10 DEF Truthful
  <2>2. ShowsLots'
    <3> SUFFICES ASSUME misses = 0, raw.entry = entry, qty' > 0, raw.qty > 0
                 PROVE  /\ \A q \in Passes : pass'[q].pc = "sent" => raw.qty = qty' + Unshown(pass[q])'
                        /\ (\A q \in Passes : pass'[q].pc # "sent") => raw.qty = qty'
      BY <1>3, <2>1 DEF ShowsLots, Unshown
    <3>1. qty > 0 /\ raw.qty = qty
      BY <1>3, <1>4, <1>5, <1>6, <1>8 DEF ShowsLots
    <3>2. raw.qty = qty' + Unshown(pass[p])'
      BY <1>3, <1>5, <1>6, <1>8, <2>1, <3>1
    <3>3. QED
      BY <1>3, <1>8, <3>2
  <2>3. ShowsEnough'
    <3> SUFFICES ASSUME ~May("crash"), raw.entry = entry
                 PROVE  /\ qty' <= raw.qty /\ raw.qty <= opened
                        /\ \A q \in Passes : qty' + Unshown(pass[q])' <= raw.qty
      BY <1>3, <2>1 DEF ShowsEnough, Unshown, May
    <3>1. qty <= raw.qty /\ raw.qty <= opened
      BY <1>4 DEF ShowsEnough
    <3>2. qty' + Unshown(pass[p])' <= raw.qty
      BY <1>3, <1>5, <1>6, <1>8, <2>1, <3>1
    <3>3. QED
      BY <1>3, <1>5, <1>6, <1>8, <3>1, <3>2
  <2>4. NotShown'
    BY <1>3, <1>9, <2>1 DEF NotShown, May
  <2>5. QED
    BY <1>3, <1>4, <2>1, <2>2, <2>3, <2>4 DEF Showing
<1>11. CASE Truthful(p, n, m) /\ raw' # raw
  <2>1. /\ UNCHANGED <<job, misses>>
        /\ world.venue = "remote" /\ raw' = [qty |-> qty - n, entry |-> entry]
    BY <1>11 DEF Truthful
  <2>2. raw'.qty = qty' /\ raw'.entry = entry'
    BY <1>3, <2>1
  <2>3. \A q \in Passes : Unshown(pass[q])' = 0
    BY <1>8, <2>1
  <2>4. ShowsLots' /\ NotShown'
    BY <1>5, <1>6, <1>3, <2>2, <2>3 DEF ShowsLots, NotShown, Unshown
  <2>5. ShowsEnough'
    <3>1. qty' <= raw'.qty /\ raw'.qty <= opened'
      BY <1>3, <1>5, <1>6, <2>2
    <3>2. \A q \in Passes : qty' + Unshown(pass[q])' <= raw'.qty
      BY <1>3, <1>5, <1>6, <2>2, <2>3
    <3>3. QED
      BY <3>1, <3>2 DEF ShowsEnough, Unshown
  <2>6. raw'.entry <= entry' /\ (misses' = 0 => job' = None)
    BY <1>3, <1>4, <1>5, <2>1, <2>2
  <2>7. QED
    BY <2>4, <2>5, <2>6 DEF Showing
<1>12. CASE Missed(m)
  <2>1. misses' = misses + 1 /\ raw' = raw /\ (world.venue = "live" => m = 0)
    BY <1>12 DEF Missed
  <2>2. misses' # 0
    BY <1>5, <2>1
  <2>3. ShowsLots'
    BY <2>2 DEF ShowsLots
  <2>4. ShowsEnough'
    <3> SUFFICES ASSUME ~May("crash"), raw.entry = entry
                 PROVE  /\ qty' <= raw.qty /\ raw.qty <= opened
                        /\ \A q \in Passes : qty' + Unshown(pass[q])' <= raw.qty
      BY <1>3, <2>1 DEF ShowsEnough, Unshown, May
    <3>1. qty <= raw.qty /\ raw.qty <= opened
      BY <1>4 DEF ShowsEnough
    <3>2. \A q \in Passes : Unshown(pass[q])' = 0
      BY <1>8, <2>1
    <3>3. QED
      BY <1>3, <1>5, <1>6, <3>1, <3>2
  <2>5. NotShown'
    BY <1>3, <1>9, <2>1 DEF NotShown, May
  <2>6. QED
    BY <1>3, <1>4, <2>1, <2>2, <2>3, <2>4, <2>5 DEF Showing
<1>13. QED
  BY <1>2, <1>10, <1>11, <1>12 DEF Filled

(* The live book subtracts what was executed from what it shows. *)
LEMMA ShowingAnswered == ASSUME Types, Working, Showing, NEW p \in Passes, Answered(p) PROVE Showing'
<1>1. Others(p) /\ Counted(p)
  BY AnsweredDoes
<1>2. /\ pass[p].pc = "sent" /\ pass'[p].pc = "apply" /\ raw' = shown(pass[p].done)
      /\ UNCHANGED <<world, qty, entry, job, opened, taken, misses>>
  BY <1>1 DEF Counted
<1> SUFFICES ASSUME ~May("overlap") PROVE Showing'
  BY <1>2 DEF Showing, May
<1>3. raw.entry <= entry /\ (misses = 0 => job = None) /\ ShowsLots /\ ShowsEnough /\ NotShown
  BY DEF Showing
<1>4. qty \in Nat /\ raw.qty \in Nat /\ pass[p].done \in Nat /\ pass[p].done \in 0 .. Bound /\ opened \in Nat
  <2>1. raw \in Shows /\ Bound \in Nat /\ qty \in Nat /\ opened \in Nat
    BY BoundType DEF Types, ShownTypes, VenueTypes
  <2>2. raw.qty \in 0 .. Bound
    BY <2>1 DEF Shows
  <2>3. QED
    BY <2>1, <2>2, JobFields DEF Types
<1>5. /\ raw'.entry = raw.entry
      /\ world.venue # "live" \/ raw.qty = 0 => raw' = raw
      /\ world.venue = "live" /\ pass[p].done <= raw.qty => raw'.qty = raw.qty - pass[p].done \/ raw.qty = 0
  BY <1>2, <1>4, ShownDoes
<1>6. /\ Unshown(pass[p]) = IF world.venue = "live" THEN pass[p].done ELSE 0
      /\ \A q \in Passes : pass'[q].pc # "sent" /\ Unshown(pass[q])' = 0
  BY <1>1, <1>2 DEF Working, Acting, Others, Unshown
<1>7. ~Idle
  BY <1>2 DEF Idle
<1>8. ShowsLots'
  <2> SUFFICES ASSUME misses = 0, raw.entry = entry, qty > 0, raw'.qty > 0
               PROVE  raw'.qty = qty
    BY <1>2, <1>5, <1>6 DEF ShowsLots, Unshown
  <2>1. raw.qty > 0
    BY <1>4, <1>5
  <2>2. raw.qty = qty + Unshown(pass[p])
    BY <1>2, <1>3, <2>1 DEF ShowsLots
  <2>3. QED
    BY <1>4, <1>5, <1>6, <2>1, <2>2
<1>9. ShowsEnough'
  <2> SUFFICES ASSUME ~May("crash"), raw.entry = entry
               PROVE  qty <= raw'.qty /\ raw'.qty <= opened
    BY <1>2, <1>4, <1>5, <1>6 DEF ShowsEnough, Unshown, May
  <2>1. qty + Unshown(pass[p]) <= raw.qty /\ raw.qty <= opened
    BY <1>3 DEF ShowsEnough
  <2>2. CASE raw.qty = 0 \/ world.venue # "live"
    BY <1>4, <1>5, <1>6, <2>1, <2>2
  <2>3. CASE raw.qty # 0 /\ world.venue = "live"
    <3>1. raw'.qty = raw.qty - pass[p].done
      BY <1>4, <1>5, <1>6, <2>1, <2>3
    <3>2. QED
      BY <1>4, <1>6, <2>1, <2>3, <3>1
  <2>4. QED
    BY <2>2, <2>3
<1>10. NotShown'
  BY <1>2, <1>3, <1>5, <1>7 DEF NotShown, May
<1>11. QED
  BY <1>2, <1>3, <1>5, <1>8, <1>9, <1>10 DEF Showing

(* The venue object shows what is held as long as no fill was missed. *)
LEMMA ShowingStep == Types /\ Working /\ Showing /\ [Next]_vars => Showing'
<1> SUFFICES ASSUME Types, Working, Showing, [Next]_vars, ~May("overlap") PROVE Showing'
  BY WorldStays DEF Showing, May
<1>1. raw.entry <= entry /\ (misses = 0 => job = None) /\ ShowsLots /\ ShowsEnough /\ NotShown
  BY DEF Showing
<1>2. /\ qty \in Nat /\ misses \in Nat /\ qty <= opened /\ opened \in Nat /\ entry \in Nat \ {0}
      /\ raw.entry \in Nat /\ raw.qty \in Nat /\ PassTypes
  <2>1. raw \in Shows /\ Bound \in Nat /\ misses \in 0 .. faults /\ faults \in 0 .. MaxFaults /\ entry \in 1 .. MaxEntries
    BY BoundType DEF Types, ShownTypes, VenueTypes
  <2>2. raw.entry \in 1 .. MaxEntries /\ raw.qty \in 0 .. Bound
    BY <2>1 DEF Shows
  <2>3. /\ qty \in Nat /\ opened \in Nat /\ taken["TP1"] \in Nat /\ taken["TP2"] \in Nat
        /\ (taken["TP1"] + taken["TP2"]) + qty <= opened
    BY DEF Types, VenueTypes
  <2>4. qty <= opened
    BY <2>3
  <2>5. QED
    BY <2>1, <2>2, <2>3, <2>4, Parameters DEF Types
<1>3. ASSUME NEW p \in Passes, Others(p), pass[p].pc # "sent", pass'[p].pc # "sent", world' = world
      PROVE  \A q \in Passes : (pass[q].pc = "sent" <=> pass'[q].pc = "sent") /\ Unshown(pass[q])' = Unshown(pass[q])
  BY <1>3 DEF Others, Unshown
<1>4. CASE \E p \in Passes : Manage(p)
  <2>1. PICK p \in Passes : Manage(p)
    BY <1>4
  <2>2. UNCHANGED <<world, qty, entry, raw, job, opened, taken, misses>> /\ pass[p].pc = "idle"
    BY <2>1, ManageDoes
  <2>3. CASE UNCHANGED pass
    BY <2>2, <2>3, ShowingStays DEF Unshown, Idle
  <2>4. CASE Others(p) /\ View \in Views /\ pass'[p].pc = "queued"
    <3>1. raw.qty # 0
      <4>1. View.qty \in Nat \ {0} /\ View.qty = raw.qty
        BY <2>4, ViewFields DEF View
      <4>2. QED
        BY <4>1
    <3>2. QED
      BY <1>3, <2>2, <2>4, <3>1, ShowingStays
  <2>5. QED
    BY <2>1, <2>3, <2>4, ManageDoes
<1>5. CASE \E p \in Passes : Skip(p)
  <2>1. PICK p \in Passes : Skip(p)
    BY <1>5
  <2>2. /\ UNCHANGED <<world, qty, entry, raw, job, opened, taken, misses>>
        /\ Others(p) /\ pass[p].pc = "queued" /\ pass'[p].pc = "idle"
    BY <2>1, SkipDoes, IdleJob
  <2>3. Idle => Idle'
    BY <2>2 DEF Idle
  <2>4. QED
    BY <1>3, <2>2, <2>3, ShowingStays
<1>6. CASE \E p \in Passes : Step(p)
  <2>1. PICK p \in Passes : Step(p)
    BY <1>6
  <2>2. Others(p) /\ Stepped(p)
    BY <2>1, StepDoes
  <2>3. /\ UNCHANGED <<world, qty, entry, raw, job, opened, taken, misses>>
        /\ pass[p].pc = "queued" /\ pass'[p].pc = "apply"
    BY <2>2 DEF Stepped, venueVars
  <2>4. ~Idle
    BY <2>3 DEF Idle
  <2>5. QED
    BY <1>3, <2>2, <2>3, <2>4, ShowingStays
<1>7. CASE \E p \in Passes : Reduce(p)
  BY <1>7, ShowingReduce
<1>8. CASE \E p \in Passes : Answered(p)
  BY <1>8, ShowingAnswered
<1>9. CASE \E p \in Passes : Move(p) \/ Done(p)
  <2>1. PICK p \in Passes : Move(p) \/ Done(p)
    BY <1>9
  <2>2. Others(p) /\ Ended(p)
    BY <2>1, EndDoes
  <2>3. /\ UNCHANGED <<world, qty, entry, raw, job, opened, taken, misses>>
        /\ pass[p].pc = "apply" /\ pass'[p].pc = "idle"
    BY <2>2, IdleJob DEF Ended
  <2>4. ~Idle
    BY <2>3 DEF Idle
  <2>5. QED
    BY <1>3, <2>2, <2>3, <2>4, ShowingStays
<1>10. CASE Fetch \/ Refresh
  <2>1. /\ UNCHANGED <<world, qty, entry, job, opened, taken, misses, pass>>
        /\ raw' = Real /\ \A q \in Passes : pass[q].pc # "sent"
    BY <1>10, RefreshDoes
  <2>2. raw'.qty = qty' /\ raw'.entry = entry'
    BY <2>1 DEF Real
  <2>3. \A q \in Passes : pass'[q].pc # "sent" /\ Unshown(pass[q])' = 0
    BY <2>1 DEF Unshown
  <2>4. ShowsLots' /\ NotShown'
    BY <2>2, <2>3 DEF ShowsLots, NotShown
  <2>5. ShowsEnough'
    <3>1. qty' <= raw'.qty /\ raw'.qty <= opened'
      BY <1>2, <2>1, <2>2
    <3>2. \A q \in Passes : qty' + Unshown(pass[q])' <= raw'.qty
      BY <1>2, <2>1, <2>2, <2>3
    <3>3. QED
      BY <3>1, <3>2 DEF ShowsEnough, Unshown
  <2>6. raw'.entry <= entry'
    BY <1>2, <2>1, <2>2
  <2>7. QED
    BY <1>1, <2>1, <2>4, <2>5, <2>6 DEF Showing
<1>11. CASE RetryExit
  <2>1. UNCHANGED <<world, entry, raw, opened, misses, pass>> /\ job # None /\ qty' \in Nat /\ qty' <= qty
    BY <1>11, RetryDoes
  <2>2. misses # 0
    BY <1>1, <2>1
  <2>3. ShowsLots'
    BY <2>1, <2>2 DEF ShowsLots
  <2>4. ShowsEnough'
    <3> SUFFICES ASSUME ~May("crash"), raw.entry = entry
                 PROVE  /\ qty' <= raw.qty /\ raw.qty <= opened
                        /\ \A q \in Passes : qty' + Unshown(pass[q]) <= raw.qty
      BY <2>1 DEF ShowsEnough, Unshown, May
    <3>1. /\ qty <= raw.qty /\ raw.qty <= opened
          /\ \A q \in Passes : qty + Unshown(pass[q]) <= raw.qty
      BY <1>1 DEF ShowsEnough
    <3>2. \A q \in Passes : Unshown(pass[q]) \in Nat
      BY <1>2, UnshownType
    <3>3. QED
      BY <1>2, <2>1, <3>1, <3>2
  <2>5. NotShown'
    BY <1>1, <2>1 DEF NotShown, May, Idle
  <2>6. QED
    BY <1>1, <2>1, <2>2, <2>3, <2>4, <2>5 DEF Showing
<1>12. CASE MarkMoves
  <2>1. UNCHANGED <<world, entry, raw, job, opened, taken, misses, pass>> /\ qty' \in {qty, 0}
    BY <1>12 DEF MarkMoves
  <2>2. QED
    BY <2>1, ShowingStays DEF Unshown, Idle
<1>13. CASE Enter
  <2>1. /\ UNCHANGED <<world, raw, job, pass>> /\ job = None /\ entry' = entry + 1
        /\ (qty > 0 \/ raw.qty > 0 \/ ~Idle => May("scale"))
        /\ taken' = [r \in {"TP1", "TP2"} |-> 0]
    BY <1>13 DEF Enter
  <2>2. raw'.entry < entry'
    BY <1>1, <1>2, <2>1
  <2>3. raw'.entry # entry' /\ raw'.entry <= entry'
    BY <1>2, <2>1, <2>2
  <2>4. ~May("scale")' => raw'.qty = 0 /\ Idle' /\ taken'["TP1"] = 0 /\ taken'["TP2"] = 0
    BY <1>2, <2>1 DEF Idle, May
  <2>5. ShowsLots' /\ ShowsEnough' /\ NotShown'
    BY <2>1, <2>3, <2>4 DEF ShowsLots, ShowsEnough, NotShown
  <2>6. QED
    BY <2>1, <2>3, <2>5 DEF Showing
<1>14. CASE Crash
  <2>1. /\ UNCHANGED <<world, qty, entry, opened, taken, misses>> /\ job' = None /\ May("crash")
        /\ raw' = IF Live THEN [qty |-> 0, entry |-> 1] ELSE Real
        /\ pass' = [q \in Passes |-> NoPass]
    BY <1>14 DEF Crash, Fault
  <2>2. \A q \in Passes : pass'[q].pc = "idle"
    BY <2>1, IdleJob
  <2>3. Idle' /\ \A q \in Passes : pass'[q].pc # "sent"
    BY <2>2 DEF Idle
  <2>4. (raw'.qty = 0 /\ raw'.entry = 1) \/ (raw'.qty = qty' /\ raw'.entry = entry')
    BY <2>1 DEF Real
  <2>5. ShowsLots'
    BY <1>2, <2>1, <2>3, <2>4 DEF ShowsLots
  <2>6. ShowsEnough' /\ NotShown'
    BY <2>1, <2>3, <2>4 DEF ShowsEnough, NotShown, May
  <2>7. raw'.entry <= entry'
    BY <1>2, <2>1, <2>4
  <2>8. QED
    BY <2>1, <2>5, <2>6, <2>7 DEF Showing
<1>15. CASE UNCHANGED vars
  <2>1. UNCHANGED <<world, qty, entry, raw, job, opened, taken, misses, pass>>
    BY <1>15 DEF vars
  <2>2. QED
    BY <2>1, ShowingStays DEF Unshown, Idle
<1>16. QED
  BY <1>4, <1>5, <1>6, <1>7, <1>8, <1>9, <1>10, <1>11, <1>12, <1>13, <1>14, <1>15 DEF Next

(* The missed fills are a number. *)
LEMMA MissesType == ASSUME Types PROVE misses \in Nat
<1>1. misses \in 0 .. faults /\ faults \in 0 .. MaxFaults
  BY DEF Types, VenueTypes
<1>2. QED
  BY <1>1, Parameters

(* Only a new entry forgets a fill that was missed. *)
LEMMA MissesGrow == Types /\ Working /\ [Next]_vars /\ ~Enter /\ misses # 0 => misses' # 0
<1> SUFFICES ASSUME Types, Working, [Next]_vars, ~Enter, misses # 0 PROVE misses' # 0
  OBVIOUS
<1>0. misses \in Nat
  BY MissesType
<1>1. CASE \E p \in Passes : Manage(p) \/ Skip(p) \/ Step(p) \/ Answered(p) \/ Move(p) \/ Done(p)
  BY <1>1 DEF Manage, Skip, Step, Answered, Move, Done, venueVars
<1>2. CASE \E p \in Passes : Reduce(p)
  <2>1. PICK p \in Passes : Reduce(p)
    BY <1>2
  <2>2. PICK n, m : Filled(p, n, m)
    BY <2>1, ReduceDoes
  <2>3. misses' = misses \/ misses' = misses + 1
    BY <2>2 DEF Filled, Truthful, Missed
  <2>4. QED
    BY <1>0, <2>3
<1>3. CASE Fetch \/ Refresh \/ RetryExit \/ MarkMoves \/ Crash \/ UNCHANGED vars
  BY <1>3 DEF Fetch, Refresh, RetryExit, MarkMoves, Crash, vars
<1>4. QED
  BY <1>1, <1>2, <1>3 DEF Next

(* A new entry has its lots. *)
LEMMA RemainderEnter == Types /\ Enter => Remainder'
<1> SUFFICES ASSUME Types, Enter, ~May("scale")
             PROVE  /\ qty' = 0 \/ qty' >= MinQty
                    /\ taken'["TP1"] + taken'["TP2"] <= opened' - MinQty
                    /\ \A q \in Passes : Acting(q)' /\ qty' > 0 => Pend(pass'[q]) <= qty' - MinQty
  BY DEF Remainder, Acting, Pend, May, Enter
<1>1. qty \in Nat /\ MinQty \in Nat /\ Lots \in Nat /\ Lots >= MinQty
  BY Parameters DEF Types, VenueTypes
<1>2. /\ ~(qty > 0 \/ ~Idle) /\ qty' = qty + Lots /\ opened' = qty + Lots /\ UNCHANGED pass
      /\ taken' = [r \in {"TP1", "TP2"} |-> 0]
  BY DEF Enter
<1>3. qty = 0 /\ \A q \in Passes : ~Acting(q)'
  BY <1>1, <1>2 DEF Idle, Acting
<1>4. QED
  BY <1>1, <1>2, <1>3

(* The remainder. *)
LEMMA RemainderStep == Types /\ Working /\ Seeing /\ Showing /\ Remainder /\ [Next]_vars => Remainder'
<1> SUFFICES ASSUME Types, Working, Seeing, Showing, Remainder, [Next]_vars, ~Enter, misses = 0, misses' = 0,
                    world.kinds \cap {"delayed", "overlap", "scale"} = {}
             PROVE  /\ qty' = 0 \/ qty' >= MinQty
                    /\ taken'["TP1"] + taken'["TP2"] <= opened' - MinQty
                    /\ \A q \in Passes : Acting(q)' /\ qty' > 0 => Pend(pass'[q]) <= qty' - MinQty
  <2> SUFFICES ASSUME Types, Working, Showing, Remainder, [Next]_vars, Enter \/ misses # 0
               PROVE  Remainder'
    BY WorldStays DEF Remainder, Acting, Pend
  <2>1. CASE Enter
    BY <2>1, RemainderEnter
  <2>2. CASE ~Enter
    <3>1. misses' # 0
      BY <2>2, MissesGrow
    <3>2. QED
      BY <3>1 DEF Remainder
  <2>3. QED
    BY <2>1, <2>2
<1>0. ~May("delayed") /\ ~May("overlap") /\ ~May("scale")
  BY DEF May
<1>1. /\ qty = 0 \/ qty >= MinQty
      /\ taken["TP1"] + taken["TP2"] <= opened - MinQty
      /\ \A q \in Passes : Acting(q) /\ qty > 0 => Pend(pass[q]) <= qty - MinQty
  BY DEF Remainder
<1>2. /\ qty \in Nat /\ opened \in Nat /\ MinQty \in Nat \ {0} /\ Lots \in Nat /\ Lots >= MinQty
      /\ taken["TP1"] \in Nat /\ taken["TP2"] \in Nat
  BY Parameters DEF Types, VenueTypes
<1>3. CASE UNCHANGED <<qty, opened, taken>> /\ \A q \in Passes : Acting(q)' => Acting(q) /\ Pend(pass'[q]) <= Pend(pass[q])
  <2>1. ASSUME NEW q \in Passes, Acting(q)', qty' > 0 PROVE Pend(pass'[q]) <= qty' - MinQty
    <3>1. Acting(q) /\ Pend(pass'[q]) <= Pend(pass[q]) /\ Pend(pass[q]) <= qty - MinQty /\ qty' = qty
      BY <1>1, <1>3, <2>1
    <3>2. Pend(pass[q]) \in Nat
      BY <3>1, PendType
    <3>3. Pend(pass'[q]) \in Int
      <4>1. PassTypes'
        BY TypesStep DEF Types
      <4>2. pass'[q].plan \in Plans /\ pass'[q].done \in Nat
        <5>1. pass'[q] \in Jobs
          BY <4>1 DEF PassTypes
        <5>2. pass'[q].plan \in Plans /\ pass'[q].done \in 0 .. Bound
          BY <5>1 DEF Jobs
        <5>3. QED
          BY <5>2, BoundType
      <4>3. QED
        BY <4>2, PlanFields DEF Pend
    <3>4. QED
      BY <1>2, <3>1, <3>2, <3>3
  <2>2. QED
    BY <1>1, <1>3, <2>1
<1>4. CASE \E p \in Passes : Manage(p)
  <2>1. PICK p \in Passes : Manage(p)
    BY <1>4
  <2>2. UNCHANGED <<qty, opened, taken>>
    BY <2>1, ManageDoes
  <2>3. \A q \in Passes : Acting(q)' => pass'[q] = pass[q]
    BY <2>1, ManageDoes DEF Others, Acting
  <2>4. \A q \in Passes : Acting(q)' => Acting(q) /\ Pend(pass'[q]) <= Pend(pass[q])
    BY <2>3, PendType DEF Acting
  <2>5. QED
    BY <1>3, <2>2, <2>4
<1>5. CASE \E p \in Passes : Skip(p)
  <2>1. PICK p \in Passes : Skip(p)
    BY <1>5
  <2>2. UNCHANGED <<qty, opened, taken>>
    BY <2>1, SkipDoes
  <2>3. \A q \in Passes : Acting(q)' => pass'[q] = pass[q]
    BY <2>1, SkipDoes, IdleJob DEF Others, Acting
  <2>4. \A q \in Passes : Acting(q)' => Acting(q) /\ Pend(pass'[q]) <= Pend(pass[q])
    BY <2>3, PendType DEF Acting
  <2>5. QED
    BY <1>3, <2>2, <2>4
<1>6. CASE \E p \in Passes : Step(p)
  <2>1. PICK p \in Passes : Step(p)
    BY <1>6
  <2>2. Others(p) /\ Stepped(p)
    BY <2>1, StepDoes
  <2>3. /\ pass[p].pc = "queued" /\ ~busy /\ UNCHANGED <<qty, opened, taken>> /\ pass'[p].plan \in Plans
        /\ pass'[p].done = 0
    BY <2>2 DEF Stepped, venueVars
  <2>4. PICK b \in PmStates : Advanced(b, pass[p].seen, store', pass'[p].plan)
    BY <2>2 DEF Stepped
  <2>5. qty > 0 => pass[p].seen.qty = qty
    <3>1. pass[p].seen = View /\ pass[p].seen \in Views
      BY <1>0, <2>3 DEF Seeing, Working
    <3>2. View.qty = raw.qty /\ View.qty # 0 /\ raw.qty > 0
      BY <3>1, ViewFields DEF View
    <3>3. raw.entry = entry
      BY <1>0, <3>2 DEF Showing, NotShown
    <3>4. \A q \in Passes : pass[q].pc # "sent"
      BY <2>3 DEF Working, Acting
    <3>5. QED
      BY <1>0, <3>1, <3>2, <3>3, <3>4 DEF Showing, ShowsLots
  <2>6. qty > 0 => Pend(pass'[p]) <= qty - MinQty
    <3> DEFINE plan == pass'[p].plan
    <3>1. qty > 0 => plan.tp1 + plan.tp2 = 0 \/ plan.tp1 + plan.tp2 <= qty - MinQty
      BY <2>4, <2>5 DEF Advanced
    <3>2. plan.tp1 \in Nat /\ plan.tp2 \in Nat /\ Pend(pass'[p]) = (plan.tp1 + plan.tp2) - 0
      BY <2>3, PlanFields DEF Pend
    <3> HIDE DEF plan
    <3>3. QED
      BY <1>1, <1>2, <3>1, <3>2
  <2>7. \A q \in Passes : q # p => ~Acting(q)'
    BY <2>2, <2>3 DEF Working, Acting, Others
  <2>8. QED
    BY <1>1, <2>3, <2>6, <2>7
<1>7. CASE \E p \in Passes : Reduce(p)
  <2>1. PICK p \in Passes : Reduce(p)
    BY <1>7
  <2>2. Others(p)
    BY <2>1, ReduceDoes
  <2>3. PICK n, m : Filled(p, n, m)
    BY <2>1, ReduceDoes
  <2>4. pass[p].pc = "apply" /\ opened' = opened /\ qty' = qty - n /\ n <= qty /\ pass'[p].pc = "sent"
    BY <2>3 DEF Filled
  <2>5a. /\ Pend(pass'[p]) = Pend(pass[p]) - m /\ Pend(pass[p]) \in Nat /\ m \in Nat /\ m <= Pend(pass[p])
         /\ Due(pass[p].plan) <= Pend(pass[p]) /\ n \in Nat
    BY <2>3, FilledPend
  <2>6. Acting(p) /\ \A q \in Passes : q # p => ~Acting(q)'
    BY <2>2, <2>4 DEF Working, Acting, Others
  <2>7. qty > 0 => Pend(pass[p]) <= qty - MinQty
    BY <1>1, <2>6
  <2>5. n = IF qty > 0 THEN m ELSE 0
    <3>1. Truthful(p, n, m)
      BY <1>2, <2>3 DEF Filled, Missed
    <3>2. n = m \/ (m = Due(pass[p].plan) /\ n = IF Due(pass[p].plan) <= qty THEN Due(pass[p].plan) ELSE qty)
      BY <3>1 DEF Truthful
    <3>3. Due(pass[p].plan) \in Nat
      BY JobFields, PlanFields DEF Types
    <3>4. QED
      BY <1>2, <2>4, <2>5a, <2>7, <3>2, <3>3
  <2>8. (qty' = 0 \/ qty' >= MinQty) /\ (qty' > 0 => Pend(pass'[p]) <= qty' - MinQty) /\ qty' \in Nat
    BY <1>2, <2>4, <2>5, <2>5a, <2>7
  <2>9. taken'["TP1"] + taken'["TP2"] <= opened' - MinQty
    <3> DEFINE sum == taken["TP1"] + taken["TP2"]
               new == taken'["TP1"] + taken'["TP2"]
    <3>1. sum \in Nat /\ sum <= opened - MinQty
      BY <1>1, <1>2
    <3>2. new = sum + n
      <4>1. /\ taken'["TP1"] = taken["TP1"] + (IF pass[p].plan.tp1 > 0 THEN n ELSE 0)
            /\ taken'["TP2"] = taken["TP2"] + (IF pass[p].plan.tp1 > 0 THEN 0 ELSE n)
        BY <2>3 DEF Filled
      <4>2. CASE pass[p].plan.tp1 > 0
        <5>1. taken'["TP1"] = taken["TP1"] + n /\ taken'["TP2"] = taken["TP2"] + 0
          BY <4>1, <4>2
        <5>2. QED
          BY <1>2, <2>5a, <5>1
      <4>3. CASE ~(pass[p].plan.tp1 > 0)
        <5>1. taken'["TP1"] = taken["TP1"] + 0 /\ taken'["TP2"] = taken["TP2"] + n
          BY <4>1, <4>3
        <5>2. QED
          BY <1>2, <2>5a, <5>1
      <4>4. QED
        BY <4>2, <4>3
    <3>3. new + qty' <= opened'
      BY TypesStep DEF Types, VenueTypes
    <3> HIDE DEF sum, new
    <3>4. new <= opened' - MinQty
      BY <1>2, <2>4, <2>5, <2>5a, <2>7, <2>8, <3>1, <3>2, <3>3
    <3>5. QED
      BY <3>4 DEF new
  <2>10. QED
    BY <2>6, <2>8, <2>9
<1>8. CASE \E p \in Passes : Answered(p)
  <2>1. PICK p \in Passes : Answered(p)
    BY <1>8
  <2>2. Others(p) /\ Counted(p)
    BY <2>1, AnsweredDoes
  <2>3. pass[p].pc = "sent" /\ UNCHANGED <<qty, opened, taken>>
    BY <2>2 DEF Counted
  <2>4. /\ Pend(pass'[p]) = Pend(pass[p]) - (Due(pass[p].plan) - pass[p].done) /\ Pend(pass[p]) \in Nat
        /\ Due(pass[p].plan) \in Nat /\ pass[p].done \in Nat /\ pass[p].done <= Due(pass[p].plan)
    BY <2>2, CountedPend
  <2>5. Acting(p) /\ Pend(pass'[p]) <= Pend(pass[p])
    BY <2>3, <2>4 DEF Acting
  <2>6. \A q \in Passes : q # p => ~Acting(q)'
    BY <2>2, <2>5 DEF Working, Acting, Others
  <2>7. QED
    BY <1>3, <2>3, <2>5, <2>6
<1>9. CASE \E p \in Passes : Move(p) \/ Done(p)
  <2>1. PICK p \in Passes : Move(p) \/ Done(p)
    BY <1>9
  <2>2. Others(p) /\ Ended(p)
    BY <2>1, EndDoes
  <2>3. UNCHANGED <<qty, opened, taken>> /\ pass[p].pc = "apply" /\ pass'[p].pc = "idle"
    BY <2>2, IdleJob DEF Ended
  <2>4. \A q \in Passes : ~Acting(q)'
    BY <2>2, <2>3 DEF Working, Acting, Others
  <2>5. QED
    BY <1>3, <2>3, <2>4
<1>10a. CASE Fetch \/ Refresh
  <2>1. UNCHANGED <<qty, opened, taken, pass>>
    BY <1>10a, RefreshDoes
  <2>2. QED
    BY <1>1, <2>1 DEF Acting
<1>10b. CASE RetryExit
  BY <1>0, <1>10b, RetryDoes DEF Showing
<1>10. CASE MarkMoves
  <2>1. UNCHANGED <<opened, taken, pass>> /\ (qty' = 0 \/ qty' = qty)
    BY <1>10 DEF MarkMoves
  <2>2. QED
    BY <1>1, <2>1 DEF Acting
<1>12. CASE Crash
  <2>1. UNCHANGED <<qty, opened, taken>> /\ \A q \in Passes : pass'[q].pc = "idle"
    BY <1>12, IdleJob DEF Crash
  <2>2. QED
    BY <1>1, <2>1 DEF Acting
<1>13. CASE UNCHANGED vars
  BY <1>1, <1>13 DEF vars, Acting
<1>14. QED
  BY <1>4, <1>5, <1>6, <1>7, <1>8, <1>9, <1>10a, <1>10b, <1>10, <1>12, <1>13 DEF Next

(* The state follows the pass, and its lots those of the venue. *)
LEMMA AgreeingStep == Types /\ Working /\ Seeing /\ Showing /\ Agreeing /\ [Next]_vars => Agreeing'
<1> SUFFICES ASSUME Types, Working, Seeing, Showing, Agreeing, [Next]_vars,
                    world.kinds \cap {"delayed", "overlap", "disk", "crash"} = {}
             PROVE  Followed' /\ (misses' = 0 => CountsLots')
  BY WorldStays DEF Agreeing
<1>0. /\ ~May("delayed") /\ ~May("overlap") /\ ~May("disk") /\ ~May("crash")
      /\ Followed /\ (misses = 0 => CountsLots)
  BY DEF May, Agreeing
<1>1. qty \in Nat /\ entry \in Nat /\ Lots \in Nat \ {0} /\ StoreTypes /\ raw.entry \in Nat /\ raw.qty \in Nat
  <2>1. raw \in Shows /\ Bound \in Nat
    BY BoundType DEF Types, ShownTypes
  <2>2. raw.qty \in 0 .. Bound /\ raw.entry \in 1 .. MaxEntries
    BY <2>1 DEF Shows
  <2>3. QED
    BY <2>1, <2>2, Parameters DEF Types, VenueTypes
<1>s. raw.entry <= entry /\ ShowsLots /\ (raw.entry = entry => qty <= raw.qty)
  BY <1>0 DEF Showing, ShowsEnough
<1>e. \A q \in Passes : Acting(q) => pass[q].state.entry <= raw.entry /\ pass[q].state.entry \in Nat
  <2>1. \A q \in Passes : Acting(q) => pass[q].state \in PmStates
    BY DEF Working, JobOK, GoodStates
  <2>2. \A q \in Passes : Acting(q) => pass[q].state.entry \in 1 .. MaxEntries
    BY <2>1, StateFields
  <2>3. QED
    BY <1>0, <2>2 DEF Followed
<1>m. misses \in Nat
  BY MissesType
<1>2. CASE \E p \in Passes : Manage(p)
  <2>1. PICK p \in Passes : Manage(p)
    BY <1>2
  <2>2. UNCHANGED <<qty, entry, raw, misses>>
    BY <2>1, ManageDoes
  <2>3. CASE raw.qty = 0 /\ store' = None /\ UNCHANGED pass
    <3>1. \A q \in Passes : Acting(q) => qty = 0 \/ pass[q].state.entry # entry
      BY <1>1, <1>s, <1>e, <2>3
    <3>2. Followed'
      BY <1>0, <2>2, <2>3, <3>1 DEF Followed, Acting
    <3>3. CountsLots'
      BY <2>3 DEF CountsLots
    <3>4. QED
      BY <3>2, <3>3
  <2>4. CASE store' = store /\ Others(p) /\ pass'[p].pc = "queued"
    <3>1. ~Acting(p) /\ ~Acting(p)' /\ \A q \in Passes : q # p => pass'[q] = pass[q]
      BY <2>1, <2>4, ManageDoes DEF Acting, Others
    <3>2. \A q \in Passes : (Acting(q)' <=> Acting(q)) /\ (Acting(q) => pass'[q] = pass[q])
      BY <3>1 DEF Acting
    <3>3. Followed'
      BY <1>0, <2>2, <2>4, <3>2 DEF Followed
    <3>4. misses' = 0 => CountsLots'
      BY <1>0, <2>2, <2>4, <3>2 DEF CountsLots
    <3>5. QED
      BY <3>3, <3>4
  <2>5. QED
    BY <2>1, <2>3, <2>4, ManageDoes
<1>3. CASE \E p \in Passes : Skip(p)
  <2>1. PICK p \in Passes : Skip(p)
    BY <1>3
  <2>2. UNCHANGED <<qty, entry, raw, misses, store>> /\ Others(p) /\ pass[p].pc = "queued" /\ pass'[p].pc = "idle"
    BY <2>1, SkipDoes, IdleJob
  <2>3. ~Acting(p) /\ ~Acting(p)' /\ \A q \in Passes : q # p => pass'[q] = pass[q]
    BY <2>2 DEF Acting, Others
  <2>4. \A q \in Passes : (Acting(q)' <=> Acting(q)) /\ (Acting(q) => pass'[q] = pass[q])
    BY <2>3 DEF Acting
  <2>5. Followed'
    BY <1>0, <2>2, <2>4 DEF Followed
  <2>6. misses' = 0 => CountsLots'
    BY <1>0, <2>2, <2>4 DEF CountsLots
  <2>7. QED
    BY <2>5, <2>6
<1>4. CASE \E p \in Passes : Step(p)
  <2>1. PICK p \in Passes : Step(p)
    BY <1>4
  <2>2. Others(p) /\ Stepped(p)
    BY <2>1, StepDoes
  <2>3. /\ pass[p].pc = "queued" /\ ~busy /\ UNCHANGED <<qty, entry, raw, misses>> /\ pass'[p].plan \in Plans
        /\ pass'[p].done = 0 /\ pass'[p].pc = "apply" /\ store' = pass'[p].state /\ store' \in GoodStates
    BY <2>2 DEF Stepped, venueVars
  <2>4. PICK b \in PmStates : Based(pass[p].seen, b) /\ Advanced(b, pass[p].seen, store', pass'[p].plan)
    BY <2>2 DEF Stepped
  <2>5. pass[p].seen = View
    BY <1>0, <2>3 DEF Seeing
  <2>6. /\ \A q \in Passes : ~Acting(q)
        /\ \A q \in Passes : q # p => ~Acting(q)'
    BY <2>2, <2>3 DEF Working, Acting, Others
  <2>7. store'.entry = raw.entry
    BY <2>4, <2>5 DEF Advanced, Based, View
  <2>8. misses = 0 /\ raw.entry = entry /\ qty > 0 => store'.initial - store'.reduced = qty - Pend(pass'[p])
    <3> SUFFICES ASSUME misses = 0, raw.entry = entry, qty > 0
                 PROVE  store'.initial - store'.reduced = qty - Pend(pass'[p])
      OBVIOUS
    <3>0. raw.qty = qty
      <4>1. View \in Views /\ View.qty = raw.qty
        BY <2>3, <2>5 DEF Working, View
      <4>2. raw.qty > 0
        BY <1>1, <4>1, ViewFields
      <4>3. \A q \in Passes : pass[q].pc # "sent"
        BY <2>6 DEF Acting
      <4>4. QED
        BY <1>s, <4>2, <4>3 DEF ShowsLots
    <3> DEFINE plan == pass'[p].plan
               s == store'
    <3>1. plan.tp1 \in Nat /\ plan.tp2 \in Nat /\ b.initial \in Nat /\ b.reduced \in Nat
      BY <2>3, PlanFields, StateFields
    <3>2. s.initial = b.initial /\ s.reduced = b.reduced + (plan.tp1 + plan.tp2)
      BY <2>4 DEF Advanced
    <3>3. Pend(pass'[p]) = (plan.tp1 + plan.tp2) - 0
      BY <2>3 DEF Pend
    <3>4. b.initial - b.reduced = qty
      <4>1. CASE b.initial = View.qty /\ b.reduced = 0
        BY <1>1, <3>0, <4>1 DEF View
      <4>2. CASE store # None /\ ~isStale(store, View) /\ b.initial = store.initial /\ b.reduced = store.reduced
        <5>1. store.entry = entry
          BY <4>2 DEF isStale, View
        <5>2. QED
          BY <1>0, <2>6, <4>2, <5>1 DEF CountsLots
      <4>3. QED
        BY <2>4, <2>5, <4>1, <4>2 DEF Based
    <3> HIDE DEF plan, s
    <3>5. s.initial - s.reduced = qty - Pend(pass'[p])
      BY <1>1, <3>1, <3>2, <3>3, <3>4
    <3>6. QED
      BY <3>5 DEF s
  <2>9. Followed'
    <3>1. \A q \in Passes : Acting(q)' => q = p
      BY <2>6
    <3>2. store'.entry <= raw'.entry /\ pass'[p].state.entry <= raw'.entry
      BY <1>1, <2>3, <2>7
    <3>3. QED
      BY <2>3, <3>1, <3>2 DEF Followed
  <2>10. misses' = 0 => CountsLots'
    <3>1. Acting(p)'
      BY <2>3 DEF Acting
    <3>2. QED
      BY <2>3, <2>6, <2>7, <2>8, <3>1 DEF CountsLots
  <2>11. QED
    BY <2>9, <2>10
<1>5. CASE \E p \in Passes : Reduce(p)
  <2>1. PICK p \in Passes : Reduce(p)
    BY <1>5
  <2>2. Others(p)
    BY <2>1, ReduceDoes
  <2>3. PICK n, m : Filled(p, n, m)
    BY <2>1, ReduceDoes
  <2>4. /\ pass[p].pc = "apply" /\ UNCHANGED <<entry, store>> /\ qty' = qty - n /\ n <= qty /\ pass'[p].pc = "sent"
        /\ pass'[p].state = pass[p].state
    BY <2>3 DEF Filled
  <2>5. Pend(pass'[p]) = Pend(pass[p]) - m /\ Pend(pass[p]) \in Nat /\ n \in Nat /\ m \in Nat
    BY <2>3, FilledPend
  <2>5a. /\ raw'.entry >= raw.entry /\ raw'.entry \in Nat
         /\ misses' = 0 => misses = 0 /\ (n = m \/ qty' = 0)
    <3>1. CASE Truthful(p, n, m)
      <4>1. misses' = misses /\ (\/ raw' = raw /\ n = m
                                \/ /\ m = Due(pass[p].plan)
                                   /\ n = (IF Due(pass[p].plan) <= qty THEN Due(pass[p].plan) ELSE qty)
                                   /\ raw' = [qty |-> qty - n, entry |-> entry])
        BY <3>1 DEF Truthful
      <4>2. raw'.entry \in {raw.entry, entry}
        BY <4>1
      <4>3. n = m \/ n = qty
        BY <4>1
      <4>4. n = m \/ qty' = 0
        BY <1>1, <2>4, <4>3
      <4>5. QED
        BY <1>1, <1>s, <4>1, <4>2, <4>4
    <3>2. CASE Missed(m)
      BY <1>1, <1>m, <3>2 DEF Missed
    <3>3. QED
      BY <2>3, <3>1, <3>2 DEF Filled
  <2>6. Acting(p) /\ Acting(p)' /\ \A q \in Passes : q # p => ~Acting(q)'
    BY <2>2, <2>4 DEF Working, Acting, Others
  <2>7. qty = 0 => qty' = 0
    BY <1>1, <2>4, <2>5
  <2>8. Followed'
    <3>1. store' # None => store'.entry <= raw'.entry
      <4>1. store # None => store.entry <= raw.entry /\ store.entry \in Nat
        <5>1. store # None => store \in PmStates
          BY <1>1 DEF StoreTypes, GoodStates
        <5>2. store # None => store.entry \in 1 .. MaxEntries
          BY <5>1, StateFields
        <5>3. QED
          BY <1>0, <5>2 DEF Followed
      <4>2. QED
        BY <1>1, <2>4, <2>5a, <4>1
    <3>2. pass'[p].state.entry <= raw'.entry
      BY <1>1, <1>e, <2>4, <2>5a, <2>6
    <3>3. store = pass[p].state \/ (store = None /\ (qty = 0 \/ pass[p].state.entry # entry))
      BY <1>0, <2>6 DEF Followed
    <3>4. store' = pass'[p].state \/ (store' = None /\ (qty' = 0 \/ pass'[p].state.entry # entry'))
      BY <2>4, <2>7, <3>3
    <3>5. QED
      BY <2>6, <3>1, <3>2, <3>4 DEF Followed
  <2>9. misses' = 0 => CountsLots'
    <3> SUFFICES ASSUME misses = 0, n = m \/ qty' = 0 PROVE CountsLots'
      BY <2>5a
    <3>1. ASSUME store # None, store.entry = entry, qty' > 0
          PROVE  store.initial - store.reduced = qty' - Pend(pass'[p])
      <4>1. qty > 0
        BY <1>1, <2>4, <2>5, <3>1
      <4>2. store.initial - store.reduced = qty - Pend(pass[p])
        BY <1>0, <2>6, <3>1, <4>1 DEF CountsLots
      <4>3. n = m
        BY <3>1
      <4>4. QED
        BY <1>1, <2>4, <2>5, <4>2, <4>3
    <3>2. QED
      BY <2>4, <2>6, <3>1 DEF CountsLots
  <2>10. QED
    BY <2>8, <2>9
<1>6. CASE \E p \in Passes : Answered(p)
  <2>1. PICK p \in Passes : Answered(p)
    BY <1>6
  <2>2. Others(p) /\ Counted(p)
    BY <2>1, AnsweredDoes
  <2> DEFINE s == pass[p].state
             t == pass'[p].state
             gap == Due(pass[p].plan) - pass[p].done
  <2>3. /\ pass[p].pc = "sent" /\ UNCHANGED <<qty, entry, misses>> /\ pass'[p].pc = "apply"
        /\ t \in GoodStates /\ t.entry = s.entry /\ t.initial = s.initial /\ t.reduced = s.reduced - gap
        /\ store' = t \/ (store' = store /\ t = s)
    BY <2>2 DEF Counted, Settled
  <2>3a. raw'.entry = raw.entry
    <3>1. pass[p].done \in 0 .. Bound /\ raw' = shown(pass[p].done)
      BY <2>2, JobFields DEF Counted, Types
    <3>2. QED
      BY <3>1, ShownDoes
  <2>4. Pend(pass'[p]) = Pend(pass[p]) - gap /\ Pend(pass[p]) \in Nat /\ gap \in Nat
    <3>1. /\ Pend(pass'[p]) = Pend(pass[p]) - (Due(pass[p].plan) - pass[p].done) /\ Pend(pass[p]) \in Nat
          /\ Due(pass[p].plan) \in Nat /\ pass[p].done \in Nat /\ pass[p].done <= Due(pass[p].plan)
      BY <2>2, CountedPend
    <3>2. gap \in Nat
      BY <3>1
    <3>3. QED
      BY <3>1, <3>2
  <2>5. Acting(p) /\ Acting(p)' /\ \A q \in Passes : q # p => ~Acting(q)'
    BY <2>2, <2>3 DEF Working, Acting, Others
  <2>6. /\ s \in GoodStates /\ s.initial \in Nat /\ s.reduced \in Nat
    BY <2>5, StateFields DEF Working, JobOK, GoodStates
  <2>7. s.entry <= raw.entry /\ (store = s \/ (store = None /\ (qty = 0 \/ s.entry # entry)))
    BY <1>0, <2>5 DEF Followed
  <2> HIDE DEF gap
  <2>8. Followed'
    <3>1. store' # None => store'.entry <= raw'.entry
      BY <1>0, <2>3, <2>3a, <2>7 DEF Followed
    <3>2. pass'[p].state.entry <= raw'.entry
      BY <2>3, <2>3a, <2>7
    <3>3. store' = t \/ (store' = None /\ (qty' = 0 \/ t.entry # entry'))
      BY <2>3, <2>7
    <3>4. QED
      BY <2>5, <3>1, <3>2, <3>3 DEF Followed
  <2>9. misses' = 0 => CountsLots'
    <3> SUFFICES ASSUME misses = 0 PROVE CountsLots'
      BY <2>3
    <3>1. ASSUME store' # None, store'.entry = entry, qty > 0
          PROVE  store'.initial - store'.reduced = qty - Pend(pass'[p])
      <4>1. store' = t
        BY <2>3, <2>7, <3>1
      <4>2. CASE store = None
        BY <2>3, <2>6, <2>7, <3>1, <4>1, <4>2, NoneAssumption DEF GoodStates
      <4>3. CASE store # None
        <5>1. store = s /\ s.entry = entry
          BY <2>3, <2>7, <3>1, <4>1, <4>3
        <5>2. store.initial - store.reduced = qty - Pend(pass[p])
          BY <1>0, <2>5, <3>1, <4>3, <5>1 DEF CountsLots
        <5>3. s.initial - s.reduced = qty - Pend(pass[p])
          BY <5>1, <5>2
        <5>4. t.initial - t.reduced = qty - Pend(pass'[p])
          <6> HIDE DEF s, t
          <6>1. QED
            BY <1>1, <2>3, <2>4, <2>6, <5>3
        <5>5. QED
          BY <4>1, <5>4
      <4>4. QED
        BY <4>2, <4>3
    <3>2. QED
      BY <2>3, <2>5, <3>1 DEF CountsLots
  <2>10. QED
    BY <2>8, <2>9
<1>7. CASE \E p \in Passes : Move(p) \/ Done(p)
  <2>1. PICK p \in Passes : Move(p) \/ Done(p)
    BY <1>7
  <2>2. Others(p) /\ Ended(p)
    BY <2>1, EndDoes
  <2>3. UNCHANGED <<qty, entry, raw, misses>> /\ pass[p].pc = "apply" /\ pass'[p].pc = "idle" /\ Due(pass[p].plan) = 0
    BY <2>2, IdleJob DEF Ended
  <2>4. Acting(p) /\ \A q \in Passes : ~Acting(q)'
    BY <2>2, <2>3 DEF Working, Acting, Others
  <2>5. Pend(pass[p]) = 0
    BY <2>3, <2>4, PendType
  <2>6. /\ pass[p].state.entry <= raw.entry
        /\ store = pass[p].state \/ (store = None /\ (qty = 0 \/ pass[p].state.entry # entry))
    BY <1>0, <2>4 DEF Followed
  <2>7. misses = 0 /\ store # None /\ store.entry = entry /\ qty > 0 => store.initial - store.reduced = qty
    BY <1>0, <1>1, <2>4, <2>5 DEF CountsLots
  <2>8. CASE UNCHANGED store
    BY <1>0, <2>3, <2>4, <2>7, <2>8 DEF Followed, CountsLots
  <2>9. CASE qty > 0 /\ SameLots(pass[p].state, store')
    <3>1. /\ store'.entry = pass[p].state.entry /\ store'.initial = pass[p].state.initial
          /\ store'.reduced = pass[p].state.reduced
      BY <2>9 DEF SameLots
    <3>2. store'.entry = entry => store = pass[p].state
      BY <2>6, <2>9, <3>1
    <3>3. Followed'
      BY <2>3, <2>4, <2>6, <3>1 DEF Followed
    <3>4. store'.entry = entry => store # None
      <4>1. pass[p].state \in GoodStates /\ (store = None => qty = 0 \/ pass[p].state.entry # entry \/ store = pass[p].state)
        BY <2>4, <2>6 DEF Working, JobOK
      <4>2. SUFFICES ASSUME store'.entry = entry, store = None PROVE FALSE
        OBVIOUS
      <4>3. store = pass[p].state /\ store \in GoodStates
        BY <3>2, <4>1, <4>2
      <4>4. QED
        BY <4>2, <4>3, NoneAssumption DEF GoodStates
    <3>5. misses' = 0 => CountsLots'
      BY <2>3, <2>4, <2>7, <2>9, <3>1, <3>2, <3>4 DEF CountsLots
    <3>6. QED
      BY <3>3, <3>5
  <2>10. QED
    BY <2>2, <2>8, <2>9 DEF Ended
<1>8a. CASE Fetch \/ Refresh
  <2>1. /\ UNCHANGED <<qty, entry, misses, store, pass>> /\ raw' = Real
    BY <1>0, <1>8a, RefreshDoes
  <2>2. raw'.entry = entry
    BY <2>1 DEF Real
  <2>3. store # None => store.entry <= entry
    <3>1. store # None => store \in PmStates
      BY <1>1 DEF StoreTypes, GoodStates
    <3>2. store # None => store.entry \in 1 .. MaxEntries
      BY <3>1, StateFields
    <3>3. store # None => store.entry \in Nat /\ store.entry <= raw.entry
      BY <1>0, <3>2 DEF Followed
    <3>4. QED
      BY <1>1, <1>s, <3>3
  <2>4. \A q \in Passes : Acting(q) => pass[q].state.entry <= entry
    BY <1>1, <1>s, <1>e
  <2>5. Followed'
    BY <1>0, <2>1, <2>2, <2>3, <2>4 DEF Followed, Acting
  <2>6. misses' = 0 => CountsLots'
    BY <1>0, <2>1 DEF CountsLots, Acting, Pend
  <2>7. QED
    BY <2>5, <2>6
<1>8b. CASE RetryExit
  <2>1. /\ UNCHANGED <<entry, raw, misses, store, pass>> /\ qty' \in Nat /\ qty' <= qty /\ job # None
    BY <1>8b, RetryDoes
  <2>2. misses' # 0
    BY <1>0, <2>1 DEF Showing
  <2>3. qty = 0 => qty' = 0
    BY <1>1, <2>1
  <2>4. Followed'
    BY <1>0, <2>1, <2>3 DEF Followed, Acting
  <2>5. QED
    BY <2>2, <2>4
<1>8. CASE MarkMoves
  <2>1. UNCHANGED <<entry, raw, misses, store, pass>> /\ (qty' = 0 \/ qty' = qty)
    BY <1>8 DEF MarkMoves, storeVars
  <2>2. Followed'
    BY <1>0, <2>1 DEF Followed, Acting
  <2>3. misses' = 0 => CountsLots'
    BY <1>0, <2>1 DEF CountsLots, Acting, Pend
  <2>4. QED
    BY <2>2, <2>3
<1>9. CASE Enter
  <2>1. UNCHANGED <<raw, store, pass>> /\ entry' = entry + 1
    BY <1>9 DEF Enter, storeVars
  <2>2. store # None => store.entry <= raw.entry /\ store.entry \in Nat
    <3>1. store # None => store \in PmStates
      BY <1>1 DEF StoreTypes, GoodStates
    <3>2. store # None => store.entry \in 1 .. MaxEntries
      BY <3>1, StateFields
    <3>3. QED
      BY <1>0, <3>2 DEF Followed
  <2>3. CountsLots'
    BY <1>1, <1>s, <2>1, <2>2 DEF CountsLots
  <2>4. Followed'
    <3>1. ASSUME NEW q \in Passes, Acting(q)'
          PROVE  /\ pass'[q].state.entry <= raw'.entry
                 /\ store' = pass'[q].state \/ (store' = None /\ (qty' = 0 \/ pass'[q].state.entry # entry'))
      <4>1. Acting(q) /\ pass'[q] = pass[q]
        BY <2>1, <3>1 DEF Acting
      <4>2. pass[q].state.entry <= raw.entry /\ pass[q].state.entry # entry'
        BY <1>1, <1>s, <1>e, <2>1, <4>1
      <4>3. store = pass[q].state \/ store = None
        BY <1>0, <4>1 DEF Followed
      <4>4. QED
        BY <2>1, <4>1, <4>2, <4>3
    <3>2. QED
      BY <2>1, <2>2, <3>1 DEF Followed
  <2>5. QED
    BY <2>3, <2>4
<1>10. CASE Crash
  BY <1>0, <1>10 DEF Crash, Fault
<1>11. CASE UNCHANGED vars
  BY <1>0, <1>11 DEF vars, Followed, CountsLots, Acting, Pend
<1>12. QED
  BY <1>2, <1>3, <1>4, <1>5, <1>6, <1>7, <1>8a, <1>8b, <1>8, <1>9, <1>10, <1>11 DEF Next

(* A share is a number, and it grows with the fills that are missed. *)
LEMMA ShareType == ASSUME Types, NEW r \in Reasons PROVE Share(r) \in Nat /\ Pct(r) \in 0 .. 100
<1>1. opened \in Nat /\ Pct(r) \in 0 .. 100
  BY WorldParts DEF Types, VenueTypes, Pct
<1> DEFINE x == opened * Pct(r)
<1>2. x \in Nat
  BY <1>1
<1> HIDE DEF x
<1>3. x \div 100 \in Nat
  BY <1>2
<1>4. QED
  BY <1>1, <1>3 DEF Share, x

(* Multiples of a share. *)
LEMMA TimesIs ==
  ASSUME NEW m \in Int, NEW x \in Nat
  PROVE  Times(m, x) \in Int /\ Times(m + 1, x) = Times(m, x) + x /\ (m >= 0 => Times(m, x) >= 0)
<1>1. m * x \in Int /\ (m + 1) * x = m * x + x
  OBVIOUS
<1>2. m >= 0 => m * x >= 0
  OBVIOUS
<1>3. QED
  BY <1>1, <1>2 DEF Times

(* A partial of a state that counts no more than was opened is at most the partial's share. *)
LEMMA PartBound ==
  ASSUME Types, NEW r \in Reasons, NEW s \in PmStates, s.initial <= opened
  PROVE  Part(Pct(r), s) <= Share(r)
<1>1. opened \in Nat /\ s.initial \in Nat /\ Pct(r) \in 0 .. 100
  BY ShareType, StateFields DEF Types, VenueTypes
<1> DEFINE a == s.initial
           c == Pct(r)
           k == opened - a
<1>2. a \in Nat /\ c \in Nat /\ k \in Nat /\ opened = a + k
  BY <1>1
<1> HIDE DEF a, c, k
<1>3. k * c \in Nat /\ a * c \in Nat /\ (a + k) * c = a * c + k * c
  BY <1>2
<1> DEFINE x == a * c
           y == opened * c
<1>4. x \in Nat /\ y \in Nat /\ x <= y
  BY <1>2, <1>3
<1> HIDE DEF x, y
<1>5. x \div 100 <= y \div 100
  BY <1>4
<1>6. QED
  BY <1>5 DEF x, y, a, c, Part, Share

(* What is within some shares is within more of them, and stays so as long as nothing more goes out. *)
LEMMA WithinGrows ==
  ASSUME Types, NEW r \in Reasons
  PROVE  /\ Within(r, misses - 1) => Within(r, misses)
         /\ Within(r, misses) => Within(r, misses + 1)
         /\ Out(r) = 0 => Within(r, misses) /\ Within(r, misses + 1)
<1>1. misses \in Nat /\ Share(r) \in Nat /\ Out(r) \in Nat
  BY MissesType, ShareType, OutType
<1> DEFINE a == Times(misses - 1, Share(r))
           b == Times(misses, Share(r))
           c == Times(misses + 1, Share(r))
<1>2. a \in Int /\ b \in Int /\ c \in Int /\ b = a + Share(r) /\ c = b + Share(r) /\ b >= 0
  <2>1. misses - 1 \in Int /\ (misses - 1) + 1 = misses /\ misses \in Int /\ misses >= 0 /\ misses + 1 \in Int
    BY <1>1
  <2>2. a \in Int /\ Times((misses - 1) + 1, Share(r)) = a + Share(r)
    BY <1>1, <2>1, TimesIs
  <2>3. b \in Int /\ c = b + Share(r) /\ b >= 0
    BY <1>1, <2>1, TimesIs
  <2>4. c \in Int
    BY <1>1, <2>1, TimesIs
  <2>5. QED
    BY <2>1, <2>2, <2>3, <2>4
<1> HIDE DEF a, b, c
<1>3. (Out(r) <= a => Out(r) <= b) /\ (Out(r) <= b => Out(r) <= c) /\ (Out(r) = 0 => Out(r) <= b /\ Out(r) <= c)
  BY <1>1, <1>2
<1>4. QED
  BY <1>3 DEF Within, a, b, c

(* An entry of which nothing was taken yet. *)
LEMMA NothingOut ==
  ASSUME Types, taken["TP1"] = 0, taken["TP2"] = 0, job = None
  PROVE  AllWithin /\ Shares
<1>1. \A r \in Reasons : Out(r) = 0
  BY DEF Reasons, Out, Queued
<1>2. QED
  BY <1>1, WithinGrows DEF AllWithin, Shares

(* The same of the next state. *)
LEMMA NothingUsed == Types /\ taken["TP1"] = 0 /\ taken["TP2"] = 0 /\ job = None => AllWithin /\ Shares
  BY NothingOut
LEMMA NothingOutNext == (Types /\ taken["TP1"] = 0 /\ taken["TP2"] = 0 /\ job = None)' => (AllWithin /\ Shares)'
  BY NothingUsed, PTL

(* What is out for a partial is a number after a step too. *)
LEMMA OutTypes == Types => \A r \in Reasons : Out(r) \in Nat
  BY OutType

(* The same of the next state. *)
LEMMA OutTypesNext == Types' => (\A r \in Reasons : Out(r) \in Nat)'
  BY OutTypes, PTL

(* As long as nothing more goes out for a partial it stays within its shares. *)
LEMMA WithinStays ==
  ASSUME Types, Types', UNCHANGED <<world, opened, misses>>, NEW r \in Reasons, Out(r)' <= Out(r)
  PROVE  /\ Share(r)' = Share(r)
         /\ Within(r, misses) => Within(r, misses)'
         /\ Within(r, misses - 1) => Within(r, misses - 1)'
         /\ Within(r, misses + 1) => Within(r, misses + 1)'
<1>1. Out(r) \in Nat /\ misses \in Nat /\ Share(r) \in Nat
  BY MissesType, ShareType, OutType
<1>2. Out(r)' \in Nat
  BY OutTypesNext DEF Reasons
<1>3. Share(r)' = Share(r)
  BY DEF Share, Pct
<1> DEFINE a == Times(misses - 1, Share(r))
           b == Times(misses, Share(r))
           c == Times(misses + 1, Share(r))
<1>4. a \in Int /\ b \in Int /\ c \in Int
  <2>1. misses - 1 \in Int /\ misses \in Int /\ misses + 1 \in Int
    BY <1>1
  <2>2. QED
    BY <1>1, <2>1, TimesIs
<1>5. /\ Within(r, misses) => Out(r) <= b
      /\ Within(r, misses - 1) => Out(r) <= a
      /\ Within(r, misses + 1) => Out(r) <= c
  BY DEF Within
<1>6. /\ Times(misses - 1, Share(r))' = a /\ Times(misses, Share(r))' = b /\ Times(misses + 1, Share(r))' = c
  BY <1>3 DEF Times
<1>7. /\ Within(r, misses)' <=> Out(r)' <= b
      /\ Within(r, misses - 1)' <=> Out(r)' <= a
      /\ Within(r, misses + 1)' <=> Out(r)' <= c
  BY <1>6 DEF Within
<1> HIDE DEF a, b, c
<1>8. QED
  BY <1>1, <1>2, <1>3, <1>4, <1>5, <1>7

(* What the worlds of the one-share bound rule out, and what is shown in them. *)
LEMMA OnceFacts ==
  ASSUME Types, Working, Seeing, Showing, Agreeing, Once,
         world.kinds \cap {"delayed", "overlap", "scale", "disk", "crash"} = {}
  PROVE  /\ ~May("delayed") /\ ~May("overlap") /\ ~May("scale") /\ ~May("disk") /\ ~May("crash")
         /\ Followed /\ Shares /\ JobsPlanned /\ NotActing
         /\ qty \in Nat /\ opened \in Nat /\ entry \in Nat /\ raw.qty \in Nat /\ raw.entry \in Nat /\ misses \in Nat
         /\ StoreTypes /\ PassTypes /\ raw.entry <= entry
         /\ raw.entry # entry => raw.qty = 0 /\ Idle /\ AllWithin
         /\ raw.entry = entry => /\ qty <= raw.qty /\ raw.qty <= opened
                                 /\ \A q \in Passes : Unshown(pass[q]) \in Nat /\ qty + Unshown(pass[q]) <= raw.qty
<1>1. ~May("delayed") /\ ~May("overlap") /\ ~May("scale") /\ ~May("disk") /\ ~May("crash")
  BY DEF May
<1>2. Followed /\ Shares /\ JobsPlanned /\ NotActing
  BY DEF Agreeing, Once
<1>3. qty \in Nat /\ opened \in Nat /\ entry \in Nat /\ StoreTypes /\ PassTypes /\ misses \in Nat
  BY MissesType DEF Types, VenueTypes
<1>4. raw.qty \in Nat /\ raw.entry \in Nat
  <2>1. raw \in Shows /\ Bound \in Nat
    BY BoundType DEF Types, ShownTypes
  <2>2. raw.qty \in 0 .. Bound /\ raw.entry \in 1 .. MaxEntries
    BY <2>1 DEF Shows
  <2>3. QED
    BY <2>1, <2>2
<1>5. raw.entry <= entry /\ ShowsEnough /\ NotShown
  BY <1>1 DEF Showing
<1>6. raw.entry # entry => raw.qty = 0 /\ Idle /\ AllWithin
  BY <1>1, <1>5, NothingOut DEF NotShown
<1>7. raw.entry = entry => /\ qty <= raw.qty /\ raw.qty <= opened
                           /\ \A q \in Passes : Unshown(pass[q]) \in Nat /\ qty + Unshown(pass[q]) <= raw.qty
  BY <1>1, <1>3, <1>5, UnshownType DEF ShowsEnough
<1>8. QED
  BY <1>1, <1>2, <1>3, <1>4, <1>5, <1>6, <1>7

(* The lots of a state, and of a job, as numbers. *)
LEMMA StateLots == \A s \in GoodStates : s.initial \in Nat /\ s.reduced \in Nat /\ s.reduced <= s.initial
  BY StateFields DEF GoodStates

(* The lots of a pass that acts. *)
LEMMA LotsType ==
  ASSUME Types, Working, NEW q \in Passes, Acting(q)
  PROVE  /\ pass[q].state \in GoodStates /\ pass[q].state.initial \in Nat /\ pass[q].state.reduced \in Nat
         /\ pass[q].state.reduced <= pass[q].state.initial /\ Pend(pass[q]) \in Nat
<1>1. pass[q].state \in GoodStates /\ Pend(pass[q]) \in Nat
  BY PendType DEF Working, JobOK
<1>2. QED
  BY <1>1, StateLots

(* A step after which less is held, shown or out than before, and no pass acts that did not before. *)
LEMMA OnceShrinks ==
  ASSUME Types, Types', Working, Shares, JobsPlanned, NotActing,
         UNCHANGED <<world, entry, opened, misses, store>>,
         qty \in Nat, raw.qty \in Nat, qty' \in Nat, raw'.qty \in Nat, qty' <= qty, raw'.qty <= raw.qty,
         \A r \in Reasons : Out(r)' <= Out(r),
         \A q \in Passes : (Acting(q)' <=> Acting(q)) /\ (Acting(q) => pass'[q] = pass[q])
  PROVE  Shares' /\ JobsPlanned' /\ NotActing'
<1>1. \A r \in Reasons : /\ Share(r)' = Share(r)
                         /\ Within(r, misses) => Within(r, misses)'
                         /\ Within(r, misses - 1) => Within(r, misses - 1)'
                         /\ Within(r, misses + 1) => Within(r, misses + 1)'
  BY WithinStays
<1>2. Shares' /\ (AllWithin => AllWithin')
  BY <1>1 DEF Shares, AllWithin
<1>3. Gone => Gone'
  BY DEF Gone
<1>4. JobsPlanned'
  <2> SUFFICES ASSUME NEW q \in Passes, Acting(q)' PROVE Planned(pass[q])' /\ (store' = None => Gone')
    BY DEF JobsPlanned
  <2>1. Acting(q) /\ pass'[q] = pass[q] /\ Planned(pass[q]) /\ (store = None => Gone)
    BY DEF JobsPlanned
  <2>2. Higher(pass[q])' => Higher(pass[q])
    <3> DEFINE lots == ((pass[q].state.initial - pass[q].state.reduced) + Pend(pass[q])) + Unshown(pass[q])
    <3>1. lots \in Int
      BY <2>1, LotsType, UnshownType DEF Types
    <3>2. Higher(pass[q]) <=> raw.qty > lots
      BY DEF Higher
    <3>3. Higher(pass[q])' <=> raw'.qty > lots
      BY <2>1 DEF Higher, Pend, Unshown
    <3> HIDE DEF lots
    <3>4. QED
      BY <3>1, <3>2, <3>3
  <2>3. Planned(pass[q])'
    BY <1>1, <2>1, <2>2 DEF Planned
  <2>4. QED
    BY <1>3, <2>1, <2>3
<1>5. NotActing'
  <2> SUFFICES ASSUME \A q \in Passes : ~Acting(q)
               PROVE  IF store # None /\ store.entry = entry THEN Kept(store)' ELSE AllWithin' \/ Gone'
    BY DEF NotActing
  <2>1. CASE store # None /\ store.entry = entry
    <3>1. Kept(store)
      BY <2>1 DEF NotActing
    <3>2. store.initial - store.reduced \in Int
      BY <2>1, StateLots DEF Types, StoreTypes
    <3>3. raw'.qty > store.initial - store.reduced => raw.qty > store.initial - store.reduced
      BY <3>2
    <3>4. QED
      BY <1>1, <1>2, <2>1, <3>1, <3>3 DEF Kept
  <2>2. CASE ~(store # None /\ store.entry = entry)
    BY <1>2, <1>3, <2>2 DEF NotActing
  <2>3. QED
    BY <2>1, <2>2
<1>6. QED
  BY <1>2, <1>4, <1>5

(* A position that is gone is dropped when nothing of it is left to take. *)
LEMMA OnceManage ==
  ASSUME Types, Types', Working, Seeing, Showing, Agreeing, Once,
         world.kinds \cap {"delayed", "overlap", "scale", "disk", "crash"} = {}, NEW p \in Passes, Manage(p)
  PROVE  Shares' /\ JobsPlanned' /\ NotActing'
<1>1. /\ Shares /\ JobsPlanned /\ NotActing /\ qty \in Nat /\ raw.qty \in Nat
      /\ raw.entry # entry => raw.qty = 0 /\ Idle /\ AllWithin
      /\ raw.entry = entry => qty <= raw.qty
  BY OnceFacts
<1>2. UNCHANGED <<world, qty, entry, raw, opened, taken, job, misses>>
  BY ManageDoes
<1>3. \A r \in Reasons : Out(r)' = Out(r) /\ Out(r) \in Nat
  BY <1>2, OutType DEF Out, Queued
<1>4. CASE raw.qty = 0 /\ store' = None /\ UNCHANGED pass
  <2>1. \A r \in Reasons : /\ Share(r)' = Share(r)
                           /\ Within(r, misses) => Within(r, misses)'
                           /\ Within(r, misses - 1) => Within(r, misses - 1)'
                           /\ Within(r, misses + 1) => Within(r, misses + 1)'
    BY <1>2, <1>3, WithinStays
  <2>2. Shares' /\ (AllWithin => AllWithin')
    BY <1>1, <2>1 DEF Shares, AllWithin
  <2>3. AllWithin \/ Gone
    BY <1>1, <1>4 DEF Gone
  <2>4. Gone => Gone'
    BY <1>2 DEF Gone
  <2>5. NotActing'
    BY <1>4, <2>2, <2>3, <2>4 DEF NotActing
  <2>6. JobsPlanned'
    <3> SUFFICES ASSUME NEW q \in Passes, Acting(q)' PROVE Planned(pass[q])' /\ Gone'
      BY DEF JobsPlanned
    <3>1. Acting(q) /\ pass'[q] = pass[q] /\ ~Idle
      BY <1>4 DEF Acting, Idle
    <3>2. Planned(pass[q])
      BY <1>1, <3>1 DEF JobsPlanned
    <3>3. Higher(pass[q])' = Higher(pass[q])
      BY <1>2, <3>1 DEF Higher, Pend, Unshown
    <3>4. Planned(pass[q])'
      BY <1>2, <2>1, <3>1, <3>2, <3>3 DEF Planned
    <3>5. Gone
      BY <1>1, <1>4, <3>1 DEF Gone
    <3>6. QED
      BY <2>4, <3>4, <3>5
  <2>7. QED
    BY <2>2, <2>5, <2>6
<1>5. CASE store' = store /\ Others(p) /\ pass'[p].pc = "queued"
  <2>1. ~Acting(p) /\ ~Acting(p)' /\ \A q \in Passes : q # p => pass'[q] = pass[q]
    BY <1>5, ManageDoes DEF Acting, Others
  <2>2. \A q \in Passes : (Acting(q)' <=> Acting(q)) /\ (Acting(q) => pass'[q] = pass[q])
    BY <2>1 DEF Acting
  <2>3. \A r \in Reasons : Out(r)' <= Out(r)
    BY <1>3
  <2>4. UNCHANGED <<world, entry, opened, misses, store>> /\ qty' \in Nat /\ raw'.qty \in Nat /\ qty' <= qty /\ raw'.qty <= raw.qty
    BY <1>1, <1>2, <1>5
  <2>5. QED
    BY <1>1, <2>2, <2>3, <2>4, OnceShrinks
<1>6. QED
  BY <1>4, <1>5, ManageDoes

(* A pass plans partials that are still to be taken. *)
LEMMA OncePlans ==
  ASSUME Types, Types', Working, Seeing, Showing, Agreeing, Once,
         world.kinds \cap {"delayed", "overlap", "scale", "disk", "crash"} = {}, NEW p \in Passes, Step(p)
  PROVE  Shares' /\ JobsPlanned' /\ NotActing'
<1>1. /\ ~May("delayed") /\ Shares /\ JobsPlanned /\ NotActing /\ qty \in Nat /\ raw.qty \in Nat /\ PassTypes /\ StoreTypes
      /\ raw.entry # entry => raw.qty = 0
      /\ raw.entry = entry => raw.qty <= opened
  BY OnceFacts
<1>2. Others(p) /\ Stepped(p)
  BY StepDoes
<1>3. /\ pass[p].pc = "queued" /\ ~busy /\ UNCHANGED <<world, qty, entry, raw, opened, taken, job, misses>>
      /\ pass'[p].plan \in Plans /\ pass'[p].done = 0 /\ pass'[p].pc = "apply" /\ store' = pass'[p].state
      /\ store' \in GoodStates
  BY <1>2 DEF Stepped, venueVars
<1>4. PICK b \in PmStates : Based(pass[p].seen, b) /\ Advanced(b, pass[p].seen, store', pass'[p].plan)
  BY <1>2 DEF Stepped
<1>5. pass[p].seen = View /\ View \in Views
  BY <1>1, <1>3 DEF Seeing, Working
<1>6. raw.qty > 0 /\ raw.entry = entry /\ View.qty = raw.qty /\ View.entry = entry
  <2>1. View.qty = raw.qty /\ View.entry = raw.entry
    BY DEF View
  <2>2. raw.qty > 0
    BY <1>1, <1>5, <2>1, ViewFields
  <2>3. QED
    BY <1>1, <2>1, <2>2
<1>7. /\ \A q \in Passes : ~Acting(q)
      /\ \A q \in Passes : q # p => ~Acting(q)'
      /\ Acting(p)'
  BY <1>2, <1>3 DEF Working, Acting, Others
<1>8. \A r \in Reasons : /\ Share(r)' = Share(r)
                         /\ Within(r, misses) => Within(r, misses)'
                         /\ Within(r, misses + 1) => Within(r, misses + 1)'
  <2>1. \A r \in Reasons : Out(r)' = Out(r) /\ Out(r) \in Nat
    BY <1>3, OutType DEF Out, Queued
  <2>2. \A r \in Reasons : Out(r)' <= Out(r)
    BY <2>1
  <2>3. QED
    BY <1>3, <2>2, WithinStays
<1>9. Shares'
  BY <1>1, <1>8 DEF Shares
<1>10. NotActing'
  BY <1>7 DEF NotActing
<1>11. Based(View, b)
  BY <1>4, <1>5
<1>12. b.entry = entry /\ b.initial <= opened /\ (\A r \in Reasons : ~FlagUp(b, r) => Within(r, misses))
  <2>1. CASE (store = None \/ isStale(store, View)) /\ b.initial = View.qty
    <3>1. ~Gone
      BY <1>1, <1>6 DEF Gone
    <3>2. CASE store # None /\ store.entry = entry
      <4>1. raw.qty > store.initial - store.reduced
        BY <1>6, <2>1, <3>2 DEF isStale
      <4>2. AllWithin
        BY <1>1, <1>7, <3>2, <4>1 DEF NotActing, Kept
      <4>3. QED
        BY <1>1, <1>6, <1>11, <2>1, <4>2 DEF AllWithin, Based
    <3>3. CASE ~(store # None /\ store.entry = entry)
      <4>1. AllWithin
        BY <1>1, <1>7, <3>1, <3>3 DEF NotActing
      <4>2. QED
        BY <1>1, <1>6, <1>11, <2>1, <4>1 DEF AllWithin, Based
    <3>4. QED
      BY <3>2, <3>3
  <2>2. CASE /\ store # None /\ ~isStale(store, View) /\ b.initial = store.initial
             /\ b.tp1Done = store.tp1Done /\ b.tp2Done = store.tp2Done
    <3>1. store.entry = entry
      BY <1>6, <2>2 DEF isStale
    <3>2. Kept(store)
      BY <1>1, <1>7, <2>2, <3>1 DEF NotActing
    <3>3. \A r \in Reasons : FlagUp(b, r) <=> FlagUp(store, r)
      BY <2>2 DEF FlagUp
    <3>4. QED
      BY <1>6, <1>11, <2>2, <3>2, <3>3 DEF Kept, Based
  <2>3. QED
    BY <1>11, <2>1, <2>2 DEF Based
<1> DEFINE plan == pass'[p].plan
           s == store'
<1>13. /\ s.entry = b.entry /\ s.initial = b.initial /\ s.reduced = b.reduced + (plan.tp1 + plan.tp2)
       /\ plan.tp1 > 0 => plan.tp1 = Part(world.tp1Pct, b) /\ ~b.tp1Done /\ s.tp1Done
       /\ plan.tp2 > 0 => plan.tp2 = Part(world.tp2Pct, b) /\ ~b.tp2Done /\ s.tp2Done
       /\ ~s.tp1Done => ~b.tp1Done
       /\ ~s.tp2Done => ~b.tp2Done
  BY <1>4 DEF Advanced
<1>14. ~Higher(pass[p])'
  <2>1. /\ plan.tp1 \in Nat /\ plan.tp2 \in Nat /\ b.initial \in Nat /\ b.reduced \in Nat
    BY <1>3, PlanFields, StateFields
  <2>2. Pend(pass'[p]) = (plan.tp1 + plan.tp2) - 0 /\ Unshown(pass[p])' = 0
    BY <1>3 DEF Pend, Unshown
  <2>3. raw.qty <= b.initial - b.reduced
    BY <1>6, <1>11 DEF Based
  <2> DEFINE total == ((s.initial - s.reduced) + Pend(pass'[p])) + Unshown(pass[p])'
  <2>4. total = b.initial - b.reduced
    <3> HIDE DEF plan, s
    <3>1. QED
      BY <1>13, <2>1, <2>2
  <2>5. Higher(pass[p])' <=> raw'.qty > total
    BY <1>3 DEF Higher, Pend, Unshown
  <2> HIDE DEF total
  <2>6. raw'.qty = raw.qty
    BY <1>3
  <2>7. QED
    BY <1>1, <2>1, <2>3, <2>4, <2>5, <2>6
<1>15. ASSUME NEW r \in Reasons
       PROVE  /\ PlanQty(plan, r) > 0 => PlanQty(plan, r) <= Share(r) /\ FlagUp(s, r) /\ Within(r, misses)
              /\ ~FlagUp(s, r) => Within(r, misses)
  <2>1. Part(Pct(r), b) <= Share(r)
    BY <1>12, PartBound
  <2>2. PlanQty(plan, r) > 0 => PlanQty(plan, r) = Part(Pct(r), b) /\ ~FlagUp(b, r) /\ FlagUp(s, r)
    BY <1>13 DEF PlanQty, Pct, FlagUp
  <2>3. ~FlagUp(s, r) => ~FlagUp(b, r)
    BY <1>13 DEF FlagUp
  <2>4. QED
    BY <1>12, <2>1, <2>2, <2>3
<1>16. Planned(pass[p])'
  <2>1. s.entry = entry /\ s.initial <= opened
    BY <1>12, <1>13
  <2>2. pass'[p].state = s /\ UNCHANGED <<entry, opened>>
    BY <1>3
  <2> HIDE DEF s
  <2>3. ASSUME NEW r \in Reasons
        PROVE  /\ PlanQty(plan, r) > 0 => PlanQty(plan, r) <= Share(r)' /\ FlagUp(pass'[p].state, r)
               /\ PlanQty(plan, r) > 0 => Within(r, misses)'
               /\ ~FlagUp(pass'[p].state, r) => Within(r, misses)'
    BY <1>8, <1>15, <2>2
  <2>4. QED
    BY <1>14, <2>1, <2>2, <2>3 DEF Planned
<1>17. JobsPlanned'
  BY <1>3, <1>7, <1>16, NoneAssumption DEF JobsPlanned, GoodStates
<1>18. QED
  BY <1>9, <1>10, <1>17

(* The partial a plan has due. *)
LEMMA ReasonIs ==
  ASSUME PassTypes, NEW p \in Passes, Due(pass[p].plan) > 0
  PROVE  /\ Reason(pass[p].plan) \in Reasons /\ PlanQty(pass[p].plan, Reason(pass[p].plan)) = Due(pass[p].plan)
         /\ Due(pass[p].plan) \in Nat
<1>1. pass[p].plan.tp1 \in Nat /\ pass[p].plan.tp2 \in Nat
  BY JobFields, PlanFields
<1>2. QED
  BY <1>1 DEF Reason, Due, PlanQty, Reasons

(* A partial that is sent had its share left; what was missed of it gives every partial one more. *)
LEMMA OnceReduce ==
  ASSUME Types, Types', Working, Seeing, Showing, Agreeing, Once,
         world.kinds \cap {"delayed", "overlap", "scale", "disk", "crash"} = {}, NEW p \in Passes, Reduce(p)
  PROVE  Shares' /\ JobsPlanned' /\ NotActing'
<1>1. /\ Shares /\ JobsPlanned /\ qty \in Nat /\ raw.qty \in Nat /\ misses \in Nat /\ PassTypes
      /\ raw.entry # entry => Idle
      /\ raw.entry = entry => qty <= raw.qty
  BY OnceFacts
<1>2. Others(p)
  BY ReduceDoes
<1>3. PICK n, m : Filled(p, n, m)
  BY ReduceDoes
<1> DEFINE plan == pass[p].plan
           st == pass[p].state
           d == Due(plan)
<1>4. PICK r0 \in Reasons : r0 = Reason(plan) /\ PlanQty(plan, r0) = d /\ d \in Nat
  BY <1>1, <1>3, ReasonIs DEF Filled
<1>5. /\ pass[p].pc = "apply" /\ d > 0 /\ pass'[p].pc = "sent" /\ pass'[p].plan = plan /\ pass'[p].state = st
      /\ pass'[p].done = m /\ UNCHANGED <<world, entry, opened, store>> /\ qty' = qty - n /\ n <= qty
      /\ n \in 0 .. d /\ m \in 0 .. d /\ (Truthful(p, n, m) \/ Missed(m))
      /\ \A r \in Reasons : Out(r)' <= Out(r) + (IF r = r0 THEN d ELSE 0)
  BY <1>3, <1>4 DEF Filled
<1>6. Acting(p) /\ Acting(p)' /\ (\A q \in Passes : q # p => ~Acting(q)') /\ ~Idle
  BY <1>2, <1>5 DEF Working, Acting, Others, Idle
<1>7. raw.entry = entry /\ qty <= raw.qty /\ Planned(pass[p]) /\ (store = None => Gone)
  BY <1>1, <1>6 DEF JobsPlanned
<1>8. /\ Pend(pass'[p]) = Pend(pass[p]) - m /\ Pend(pass[p]) \in Nat /\ n \in Nat /\ m \in Nat /\ d <= Pend(pass[p])
  BY <1>3, FilledPend
<1>9. /\ d <= Share(r0) /\ FlagUp(st, r0) /\ Within(r0, misses)
      /\ \A r \in Reasons :
           /\ PlanQty(plan, r) > 0 => PlanQty(plan, r) <= Share(r) /\ FlagUp(st, r) /\ Within(r, misses)
           /\ ~FlagUp(st, r) => Within(r, misses)
           /\ Higher(pass[p]) => Within(r, misses) /\ (PlanQty(plan, r) > 0 => Within(r, misses - 1))
      /\ st.entry = entry /\ st.initial <= opened
  BY <1>5, <1>4, <1>7 DEF Planned
<1>10. \A r \in Reasons : /\ Share(r)' = Share(r) /\ Share(r) \in Nat /\ Out(r) \in Nat /\ Out(r)' \in Nat
  <2>1. \A r \in Reasons : Out(r)' \in Nat
    BY OutTypesNext DEF Reasons
  <2>2. QED
    BY <1>5, <2>1, ShareType, OutType DEF Share, Pct
<1>11. /\ \A r \in Reasons : r # r0 => Out(r)' <= Out(r)
       /\ Out(r0)' <= Out(r0) + d
  BY <1>5, <1>4, <1>10
(* a partial that is not sent keeps its bound, the one that is sent needs one share more *)
<1>12. \A r \in Reasons : /\ Times(misses - 1, Share(r)) \in Int /\ Times(misses, Share(r)) \in Int
                          /\ Times(misses + 1, Share(r)) \in Int /\ Times(misses + 2, Share(r)) \in Int
                          /\ Times(misses, Share(r)) = Times(misses - 1, Share(r)) + Share(r)
                          /\ Times(misses + 1, Share(r)) = Times(misses, Share(r)) + Share(r)
                          /\ Times(misses + 2, Share(r)) = Times(misses + 1, Share(r)) + Share(r)
  <2> SUFFICES ASSUME NEW r \in Reasons
               PROVE  /\ Times(misses - 1, Share(r)) \in Int /\ Times(misses, Share(r)) \in Int
                      /\ Times(misses + 1, Share(r)) \in Int /\ Times(misses + 2, Share(r)) \in Int
                      /\ Times(misses, Share(r)) = Times(misses - 1, Share(r)) + Share(r)
                      /\ Times(misses + 1, Share(r)) = Times(misses, Share(r)) + Share(r)
                      /\ Times(misses + 2, Share(r)) = Times(misses + 1, Share(r)) + Share(r)
    OBVIOUS
  <2>1. /\ misses - 1 \in Int /\ misses \in Int /\ misses + 1 \in Int /\ misses + 2 \in Int
        /\ (misses - 1) + 1 = misses /\ (misses + 1) + 1 = misses + 2
    BY <1>1
  <2>2. Times((misses - 1) + 1, Share(r)) = Times(misses - 1, Share(r)) + Share(r) /\ Times(misses - 1, Share(r)) \in Int
    BY <1>10, <2>1, TimesIs
  <2>3. Times(misses + 1, Share(r)) = Times(misses, Share(r)) + Share(r) /\ Times(misses, Share(r)) \in Int
    BY <1>10, <2>1, TimesIs
  <2>4. Times((misses + 1) + 1, Share(r)) = Times(misses + 1, Share(r)) + Share(r) /\ Times(misses + 1, Share(r)) \in Int
    BY <1>10, <2>1, TimesIs
  <2>5. Times(misses + 2, Share(r)) \in Int
    BY <1>10, <2>1, TimesIs
  <2>6. QED
    BY <2>1, <2>2, <2>3, <2>4, <2>5
<1>13. \A r \in Reasons : Out(r)' <= Times(misses + 1, Share(r))
  <2> SUFFICES ASSUME NEW r \in Reasons PROVE Out(r)' <= Times(misses + 1, Share(r))
    OBVIOUS
  <2>1. CASE r = r0
    <3>1. Out(r0) <= Times(misses, Share(r0))
      BY <1>9 DEF Within
    <3>2. Out(r0)' <= Times(misses + 1, Share(r0))
      BY <1>4, <1>9, <1>10, <1>11, <1>12, <3>1
    <3>3. QED
      BY <2>1, <3>2
  <2>2. CASE r # r0
    BY <1>1, <1>10, <1>11, <1>12, <2>2 DEF Shares, Within
  <2>3. QED
    BY <2>1, <2>2
<1>14. Shares'
  <2>1. CASE misses' = misses
    BY <1>10, <1>13, <2>1 DEF Shares, Within
  <2>2. CASE misses' = misses + 1
    <3>1. misses' + 1 = misses + 2
      BY <1>1, <2>2
    <3>2. \A r \in Reasons : Out(r)' <= Times(misses + 2, Share(r))
      BY <1>10, <1>12, <1>13
    <3>3. QED
      BY <1>10, <3>1, <3>2 DEF Shares, Within
  <2>3. QED
    BY <1>5, <2>1, <2>2 DEF Truthful, Missed
<1>15. NotActing'
  BY <1>6 DEF NotActing
<1>16. store' = None => Gone'
  <2>1. raw' = raw \/ raw'.qty = qty'
    BY <1>5 DEF Truthful, Missed
  <2>2. store' = None => qty = 0 /\ raw.qty = 0
    BY <1>5, <1>7 DEF Gone
  <2>3. store' = None => qty' = 0
    BY <1>1, <1>5, <1>8, <2>2
  <2>4. QED
    BY <2>1, <2>2, <2>3 DEF Gone
<1>17. Planned(pass[p])'
  <2>1. /\ pass'[p].state.entry = entry' /\ pass'[p].state.initial <= opened'
        /\ \A r \in Reasons : PlanQty(pass'[p].plan, r) > 0 => PlanQty(pass'[p].plan, r) <= Share(r)' /\ FlagUp(pass'[p].state, r)
    BY <1>5, <1>9, <1>10
  <2>2. Reason(pass'[p].plan) = r0 /\ pass'[p].pc = "sent" /\ pass'[p].done = m
    BY <1>5, <1>4
  <2>3. CASE Missed(m)
    <3>1. misses' = misses + 1 /\ misses' - 1 = misses
      BY <1>1, <2>3 DEF Missed
    <3>2. \A r \in Reasons : Out(r)' <= Times(misses', Share(r)')
      BY <1>10, <1>13, <3>1
    <3>3. \A r \in Reasons : r # r0 /\ PlanQty(plan, r) > 0 => Out(r)' <= Times(misses' - 1, Share(r)')
      BY <1>9, <1>10, <1>11, <1>12, <3>1 DEF Within
    <3>4. \A r \in Reasons : /\ Within(r, misses)'
                             /\ PlanQty(pass'[p].plan, r) > 0 /\ r # r0 => Within(r, misses - 1)'
      BY <1>5, <3>2, <3>3 DEF Within
    <3>5. QED
      BY <2>1, <2>2, <3>4 DEF Planned
  <2>4. CASE Truthful(p, n, m)
    <3>1. misses' = misses /\ job' = job
      BY <2>4 DEF Truthful
    <3>2. \A r \in Reasons : r # r0 => /\ Within(r, misses) => Within(r, misses)'
                                       /\ Within(r, misses - 1) => Within(r, misses - 1)'
      BY <1>5, <1>11, <3>1, WithinStays
    <3>3. m = 0 => Within(r0, misses)'
      <4> SUFFICES ASSUME m = 0 PROVE Within(r0, misses)'
        OBVIOUS
      <4>1. n = 0
        <5>1. n = m \/ m = d
          BY <2>4 DEF Truthful
        <5>2. QED
          BY <1>5, <5>1
      <4>2. taken' = taken
        <5>1. /\ taken' \in [{"TP1", "TP2"} -> Nat] /\ taken \in [{"TP1", "TP2"} -> Nat]
              /\ taken'["TP1"] = taken["TP1"] + 0 /\ taken'["TP2"] = taken["TP2"] + 0
          BY <1>3, <4>1 DEF Filled, Types, VenueTypes
        <5>2. taken'["TP1"] = taken["TP1"] /\ taken'["TP2"] = taken["TP2"]
          BY <5>1
        <5>3. \A r \in {"TP1", "TP2"} : taken'[r] = taken[r]
          BY <5>2
        <5>4. taken' = [r \in {"TP1", "TP2"} |-> taken'[r]] /\ taken = [r \in {"TP1", "TP2"} |-> taken[r]]
          BY <5>1
        <5>5. QED
          BY <5>3, <5>4
      <4>3. Out(r0)' = Out(r0)
        BY <1>5, <3>1, <4>2 DEF Out, Queued
      <4>4. Out(r0)' <= Times(misses, Share(r0))
        BY <1>9, <4>3 DEF Within
      <4>5. QED
        BY <1>5, <1>4, <1>10, <3>1, <4>4 DEF Within
    <3>4. Higher(pass[p])' => Higher(pass[p])
      <4> DEFINE lots == st.initial - st.reduced
      <4>1. lots \in Nat
        <5>1. st.initial \in Nat /\ st.reduced \in Nat /\ st.reduced <= st.initial
          BY <1>6, LotsType
        <5> HIDE DEF st
        <5>2. QED
          BY <5>1
      <4>2. Higher(pass[p]) <=> raw.qty > (lots + Pend(pass[p])) + 0
        BY <1>5 DEF Higher, Unshown
      <4> DEFINE gone == IF world.venue = "live" THEN m ELSE 0
      <4>3. Higher(pass[p])' <=> raw'.qty > (lots + Pend(pass'[p])) + gone
        BY <1>5 DEF Higher, Unshown, Pend
      <4>4. CASE raw' = raw /\ n = m /\ (world.venue = "live" \/ n = 0)
        <5>1. gone = m
          BY <4>4
        <5> HIDE DEF lots, gone
        <5>2. raw'.qty = raw.qty
          BY <4>4
        <5>3. QED
          BY <1>1, <1>8, <4>1, <4>2, <4>3, <5>1, <5>2
      <4>5. CASE world.venue = "remote" /\ m = d /\ n = (IF d <= qty THEN d ELSE qty) /\ raw'.qty = qty - n
        <5>1. gone = 0
          BY <4>5
        <5> HIDE DEF lots, gone, d
        <5>2. CASE d <= qty
          BY <1>1, <1>4, <1>7, <1>8, <4>1, <4>2, <4>3, <4>5, <5>1, <5>2
        <5>3. CASE ~(d <= qty)
          BY <1>1, <1>4, <1>7, <1>8, <4>1, <4>2, <4>3, <4>5, <5>1, <5>3
        <5>4. QED
          BY <5>2, <5>3
      <4>6. QED
        BY <2>4, <4>4, <4>5 DEF Truthful
    <3>5. Higher(pass[p]) => Within(r0, misses)'
      <4> SUFFICES ASSUME Higher(pass[p]) PROVE Within(r0, misses)'
        OBVIOUS
      <4>1. Out(r0) <= Times(misses - 1, Share(r0))
        BY <1>5, <1>4, <1>9 DEF Within
      <4>2. Out(r0)' <= Times(misses, Share(r0))
        BY <1>4, <1>9, <1>10, <1>11, <1>12, <4>1
      <4>3. QED
        BY <1>4, <1>10, <3>1, <4>2 DEF Within
    <3>6. ASSUME NEW r \in Reasons
          PROVE  /\ PlanQty(plan, r) > 0 /\ ~(r0 = r /\ m > 0) => Within(r, misses)'
                 /\ ~FlagUp(st, r) => Within(r, misses)'
                 /\ Higher(pass[p])' => Within(r, misses)' /\ (PlanQty(plan, r) > 0 /\ r0 # r => Within(r, misses - 1)')
      <4>1. CASE r = r0
        <5>1. m = 0 \/ m > 0
          BY <1>8
        <5>2. QED
          BY <1>9, <3>3, <3>4, <3>5, <4>1, <5>1
      <4>2. CASE r # r0
        BY <1>9, <3>2, <3>4, <4>2
      <4>3. QED
        BY <4>1, <4>2
    <3>7. QED
      BY <1>5, <2>1, <2>2, <3>6 DEF Planned
  <2>5. QED
    BY <1>5, <2>3, <2>4
<1>18. JobsPlanned'
  BY <1>6, <1>16, <1>17 DEF JobsPlanned
<1>19. QED
  BY <1>14, <1>15, <1>18

(* An answer that tells of nothing gives the partial back; it had its share left. *)
LEMMA OnceAnswered ==
  ASSUME Types, Types', Working, Seeing, Showing, Agreeing, Once,
         world.kinds \cap {"delayed", "overlap", "scale", "disk", "crash"} = {}, NEW p \in Passes, Answered(p)
  PROVE  Shares' /\ JobsPlanned' /\ NotActing'
<1>1. /\ Shares /\ JobsPlanned /\ qty \in Nat /\ raw.qty \in Nat /\ PassTypes
      /\ raw.entry # entry => Idle
      /\ raw.entry = entry => \A q \in Passes : Unshown(pass[q]) \in Nat /\ qty + Unshown(pass[q]) <= raw.qty
  BY OnceFacts
<1>2. Counted(p) /\ Others(p)
  BY AnsweredDoes
<1> DEFINE plan == pass[p].plan
           s == pass[p].state
           t == pass'[p].state
           done == pass[p].done
           d == Due(plan)
<1>3. /\ pass[p].pc = "sent" /\ pass'[p].pc = "apply" /\ pass'[p].done = 0 /\ Settled(s, plan, done, t)
      /\ IF plan.tp1 > 0 THEN pass'[p].plan.tp1 = 0 /\ pass'[p].plan.tp2 = plan.tp2
                         ELSE pass'[p].plan.tp1 = plan.tp1 /\ pass'[p].plan.tp2 = 0
      /\ store' = t \/ (store' = store /\ t = s)
      /\ raw' = shown(done) /\ UNCHANGED <<world, qty, entry, opened, taken, job, misses>>
  BY <1>2 DEF Counted
<1>4. Acting(p) /\ Acting(p)' /\ (\A q \in Passes : q # p => ~Acting(q)') /\ ~Idle
  BY <1>2, <1>3 DEF Working, Acting, Others, Idle
<1>5. d > 0
  BY <1>3, <1>4 DEF Working, JobOK
<1>6. PICK r0 \in Reasons : r0 = Reason(plan) /\ PlanQty(plan, r0) = d /\ d \in Nat
  BY <1>1, <1>5, ReasonIs
<1>7. raw.entry = entry /\ Planned(pass[p]) /\ (store = None => Gone) /\ qty + Unshown(pass[p]) <= raw.qty
  BY <1>1, <1>4 DEF JobsPlanned
<1>8. \A r \in Reasons : /\ Share(r)' = Share(r)
                         /\ Within(r, misses) => Within(r, misses)'
                         /\ Within(r, misses - 1) => Within(r, misses - 1)'
                         /\ Within(r, misses + 1) => Within(r, misses + 1)'
  <2>1. \A r \in Reasons : Out(r)' = Out(r) /\ Out(r) \in Nat
    BY <1>3, OutType DEF Out, Queued
  <2>2. \A r \in Reasons : Out(r)' <= Out(r)
    BY <2>1
  <2>3. QED
    BY <1>3, <2>2, WithinStays
<1>9. Shares'
  BY <1>1, <1>8 DEF Shares
<1>10. NotActing'
  BY <1>4 DEF NotActing
<1>11. /\ s \in GoodStates /\ s.initial \in Nat /\ s.reduced \in Nat /\ Pend(pass[p]) \in Nat /\ done \in Nat /\ done <= d
       /\ done \in 0 .. Bound
  BY <1>1, <1>4, LotsType, PendType, JobFields
<1>12. /\ t \in GoodStates /\ t.entry = s.entry /\ t.initial = s.initial /\ t.reduced = s.reduced - (d - done)
       /\ t.tp1Done = s.tp1Done \/ (plan.tp1 > 0 /\ done = 0)
       /\ t.tp2Done = s.tp2Done \/ (~(plan.tp1 > 0) /\ done = 0)
  BY <1>3 DEF Settled
<1>13. store' = None => Gone'
  <2>1. t # None
    BY <1>12, NoneAssumption DEF GoodStates
  <2>2. store' = None => qty = 0 /\ raw.qty = 0
    BY <1>3, <1>7, <2>1 DEF Gone
  <2>3. raw.qty = 0 => raw' = raw
    BY <1>3, <1>11, ShownDoes
  <2>4. QED
    BY <1>3, <2>2, <2>3 DEF Gone
<1>14. Higher(pass[p])' => Higher(pass[p])
  <2> DEFINE lots == (s.initial - s.reduced) + Pend(pass[p])
             lotsAfter == (t.initial - t.reduced) + Pend(pass'[p])
             more == Unshown(pass[p])
  <2>1. Higher(pass[p]) <=> raw.qty > lots + more
    BY DEF Higher
  <2>2. Higher(pass[p])' <=> raw'.qty > lotsAfter + 0
    BY <1>3 DEF Higher, Unshown, Pend
  <2>3. lotsAfter = lots /\ lots \in Int
    <3>1. Pend(pass'[p]) = Pend(pass[p]) - (d - done) /\ d \in Nat
      BY <1>2, CountedPend
    <3> HIDE DEF d, done, s, t
    <3>2. QED
      BY <1>11, <1>12, <3>1
  <2>4. more \in Nat /\ raw'.qty \in {raw.qty, raw.qty - more} /\ (raw'.qty = raw.qty => more = 0)
    <3>1. CASE world.venue = "live"
      <4>1. more = done /\ done <= raw.qty
        <5>1. more = done /\ qty + more <= raw.qty
          BY <1>1, <1>3, <1>7, <3>1, UnshownType
        <5>2. QED
          BY <1>1, <1>11, <5>1
      <4>2. raw'.qty = raw.qty - done \/ (raw.qty = 0 /\ raw' = raw)
        BY <1>3, <1>11, <3>1, <4>1, ShownDoes
      <4> HIDE DEF done, more
      <4>3. QED
        BY <1>1, <1>11, <4>1, <4>2
    <3>2. CASE world.venue # "live"
      <4>1. more = 0 /\ raw' = raw
        BY <1>1, <1>3, <1>11, <3>2, UnshownType, ShownDoes
      <4>2. QED
        BY <4>1
    <3>3. QED
      BY <3>1, <3>2
  <2> HIDE DEF lots, lotsAfter, more
  <2>5. QED
    BY <1>1, <2>1, <2>2, <2>3, <2>4
<1>15. /\ s.entry = entry /\ s.initial <= opened
       /\ \A r \in Reasons :
            /\ PlanQty(plan, r) > 0 => PlanQty(plan, r) <= Share(r) /\ FlagUp(s, r)
            /\ PlanQty(plan, r) > 0 /\ ~(r0 = r /\ done > 0) => Within(r, misses)
            /\ ~FlagUp(s, r) => Within(r, misses)
            /\ Higher(pass[p]) => Within(r, misses) /\ (PlanQty(plan, r) > 0 /\ r0 # r => Within(r, misses - 1))
  BY <1>3, <1>6, <1>7 DEF Planned
<1>16. ASSUME NEW r \in Reasons
       PROVE  /\ PlanQty(pass'[p].plan, r) > 0 => r # r0 /\ PlanQty(pass'[p].plan, r) = PlanQty(plan, r)
              /\ FlagUp(t, r) = FlagUp(s, r) \/ (r = r0 /\ done = 0)
  <2>1. r0 = (IF plan.tp1 > 0 THEN "TP1" ELSE "TP2") /\ r \in {"TP1", "TP2"}
    BY <1>6 DEF Reason, Reasons
  <2> HIDE DEF plan, s, t, done
  <2>2. CASE plan.tp1 > 0
    BY <1>3, <1>12, <2>1, <2>2 DEF PlanQty, FlagUp
  <2>3. CASE ~(plan.tp1 > 0)
    BY <1>3, <1>12, <2>1, <2>3 DEF PlanQty, FlagUp
  <2>4. QED
    BY <2>2, <2>3
<1>17. ASSUME NEW r \in Reasons
       PROVE  /\ PlanQty(pass'[p].plan, r) > 0 => PlanQty(pass'[p].plan, r) <= Share(r) /\ FlagUp(t, r)
              /\ PlanQty(pass'[p].plan, r) > 0 => Within(r, misses)
              /\ ~FlagUp(t, r) => Within(r, misses)
              /\ Higher(pass[p])' => Within(r, misses) /\ (PlanQty(pass'[p].plan, r) > 0 => Within(r, misses - 1))
  <2>1. PlanQty(pass'[p].plan, r) > 0 => /\ PlanQty(plan, r) > 0 /\ r # r0 /\ FlagUp(t, r) = FlagUp(s, r)
                                         /\ PlanQty(pass'[p].plan, r) = PlanQty(plan, r)
    BY <1>16
  <2>2. ~FlagUp(t, r) => Within(r, misses)
    <3>1. CASE FlagUp(t, r) = FlagUp(s, r)
      BY <1>15, <3>1
    <3>2. CASE r = r0 /\ done = 0
      <4>1. PlanQty(plan, r) > 0 /\ ~(done > 0)
        BY <1>5, <1>6, <3>2
      <4>2. QED
        BY <1>15, <4>1
    <3>3. QED
      BY <1>16, <3>1, <3>2
  <2>3. QED
    BY <1>14, <1>15, <2>1, <2>2
<1>18. Planned(pass[p])'
  <2>1. t.entry = entry' /\ t.initial <= opened'
    BY <1>3, <1>12, <1>15
  <2>2. \A r \in Reasons :
          /\ PlanQty(pass'[p].plan, r) > 0 => PlanQty(pass'[p].plan, r) <= Share(r)' /\ FlagUp(t, r)
          /\ PlanQty(pass'[p].plan, r) > 0 => Within(r, misses)'
          /\ ~FlagUp(t, r) => Within(r, misses)'
          /\ Higher(pass[p])' => Within(r, misses)' /\ (PlanQty(pass'[p].plan, r) > 0 => Within(r, misses - 1)')
    BY <1>8, <1>17
  <2>3. QED
    BY <2>1, <2>2 DEF Planned
<1>19. JobsPlanned'
  BY <1>4, <1>13, <1>18 DEF JobsPlanned
<1>20. QED
  BY <1>9, <1>10, <1>19

(* A pass that ends leaves its state behind. *)
LEMMA OnceEnd ==
  ASSUME Types, Types', Working, Seeing, Showing, Agreeing, Once,
         world.kinds \cap {"delayed", "overlap", "scale", "disk", "crash"} = {}, NEW p \in Passes, Move(p) \/ Done(p)
  PROVE  Shares' /\ JobsPlanned' /\ NotActing'
<1>1. /\ Followed /\ Shares /\ JobsPlanned /\ qty \in Nat /\ raw.qty \in Nat /\ PassTypes
  BY OnceFacts
<1>2. Others(p) /\ Ended(p)
  BY EndDoes
<1> DEFINE s == pass[p].state
<1>3. /\ pass[p].pc = "apply" /\ Due(pass[p].plan) = 0 /\ pass'[p].pc = "idle"
      /\ UNCHANGED <<world, qty, entry, raw, opened, taken, job, misses>>
      /\ store' = store \/ (store' \in GoodStates /\ SameLots(s, store'))
  BY <1>2, IdleJob DEF Ended
<1>4. Acting(p) /\ \A q \in Passes : ~Acting(q)'
  BY <1>2, <1>3 DEF Working, Acting, Others
<1>5. Planned(pass[p]) /\ (store = None => Gone) /\ (store = s \/ store = None)
  BY <1>1, <1>4 DEF JobsPlanned, Followed
<1>6. \A r \in Reasons : /\ Share(r)' = Share(r)
                         /\ Within(r, misses) => Within(r, misses)'
                         /\ Within(r, misses + 1) => Within(r, misses + 1)'
  <2>1. \A r \in Reasons : Out(r)' = Out(r) /\ Out(r) \in Nat
    BY <1>3, OutType DEF Out, Queued
  <2>2. \A r \in Reasons : Out(r)' <= Out(r)
    BY <2>1
  <2>3. QED
    BY <1>3, <2>2, WithinStays
<1>7. Shares'
  BY <1>1, <1>6 DEF Shares
<1>8. JobsPlanned'
  BY <1>4 DEF JobsPlanned
<1>9. /\ s.entry = entry /\ s.initial <= opened /\ (\A r \in Reasons : ~FlagUp(s, r) => Within(r, misses))
      /\ raw.qty > s.initial - s.reduced => AllWithin
  <2>1. Pend(pass[p]) = 0 /\ Unshown(pass[p]) = 0 /\ s.initial \in Nat /\ s.reduced \in Nat
    BY <1>1, <1>3, <1>4, PendType, LotsType DEF Unshown
  <2>2. Higher(pass[p]) <=> raw.qty > ((s.initial - s.reduced) + 0) + 0
    BY <2>1 DEF Higher
  <2> DEFINE lots == s.initial - s.reduced
  <2>3. lots \in Int
    BY <2>1
  <2> HIDE DEF lots
  <2>4. raw.qty > lots => Higher(pass[p])
    <3>1. Higher(pass[p]) <=> raw.qty > (lots + 0) + 0
      BY <2>2 DEF lots
    <3>2. QED
      BY <1>1, <2>3, <3>1
  <2>5. QED
    BY <1>5, <2>4 DEF Planned, AllWithin, lots
<1>10. NotActing'
  <2>1. CASE store' = None
    <3>1. store = None
      BY <1>3, <2>1, NoneAssumption DEF GoodStates
    <3>2. Gone'
      BY <1>3, <1>5, <3>1 DEF Gone
    <3>3. QED
      BY <2>1, <3>2 DEF NotActing
  <2>2. CASE store' # None
    <3>1. SameLots(s, store')
      BY <1>3, <1>5, <2>2 DEF SameLots
    <3>2. /\ store'.entry = entry /\ store'.initial <= opened
          /\ (\A r \in Reasons : ~FlagUp(store', r) => Within(r, misses))
          /\ raw.qty > store'.initial - store'.reduced => AllWithin
      BY <1>9, <3>1 DEF SameLots, FlagUp
    <3>3. Kept(store)'
      BY <1>3, <1>6, <3>2 DEF Kept, AllWithin
    <3>4. QED
      BY <1>3, <2>2, <3>2, <3>3 DEF NotActing
  <2>3. QED
    BY <2>1, <2>2
<1>11. QED
  BY <1>7, <1>8, <1>10

(* One share per partial, and one more for every fill that was missed. *)
LEMMA OnceStep == Types /\ Types' /\ Working /\ Seeing /\ Showing /\ Agreeing /\ Once /\ [Next]_vars => Once'
<1> SUFFICES ASSUME Types, Types', Working, Seeing, Showing, Agreeing, Once, [Next]_vars,
                    world.kinds \cap {"delayed", "overlap", "scale", "disk", "crash"} = {}
             PROVE  Shares' /\ JobsPlanned' /\ NotActing'
  BY WorldStays DEF Once
<1>1. /\ ~May("overlap") /\ ~May("scale") /\ ~May("crash") /\ Followed
      /\ Shares /\ JobsPlanned /\ NotActing /\ qty \in Nat /\ entry \in Nat /\ raw.qty \in Nat /\ raw.entry \in Nat
      /\ raw.entry <= entry /\ StoreTypes
      /\ raw.entry # entry => raw.qty = 0 /\ Idle /\ AllWithin
      /\ raw.entry = entry => qty <= raw.qty
  BY OnceFacts
<1>o. \A r \in Reasons : Out(r) \in Nat
  BY OutType
<1>s. ASSUME UNCHANGED <<world, entry, raw, opened, job, taken, misses, store>>, qty' \in {qty, 0},
             \A q \in Passes : (Acting(q)' <=> Acting(q)) /\ (Acting(q) => pass'[q] = pass[q])
      PROVE  Shares' /\ JobsPlanned' /\ NotActing'
  <2>1. \A r \in Reasons : Out(r)' <= Out(r)
    BY <1>o, <1>s DEF Out, Queued
  <2>2. qty' \in Nat /\ qty' <= qty /\ raw'.qty \in Nat /\ raw'.qty <= raw.qty
    BY <1>1, <1>s
  <2>3. QED
    BY <1>1, <1>s, <2>1, <2>2, OnceShrinks
<1>2. CASE \E p \in Passes : Manage(p)
  BY <1>2, OnceManage
<1>3. CASE \E p \in Passes : Skip(p)
  <2>1. PICK p \in Passes : Skip(p)
    BY <1>3
  <2>2. /\ UNCHANGED <<world, qty, entry, raw, opened, job, taken, misses, store>> /\ Others(p)
        /\ pass[p].pc = "queued" /\ pass'[p].pc = "idle"
    BY <2>1, SkipDoes, IdleJob
  <2>3. ~Acting(p) /\ ~Acting(p)' /\ \A q \in Passes : q # p => pass'[q] = pass[q]
    BY <2>2 DEF Acting, Others
  <2>4. \A q \in Passes : (Acting(q)' <=> Acting(q)) /\ (Acting(q) => pass'[q] = pass[q])
    BY <2>3 DEF Acting
  <2>5. QED
    BY <1>s, <2>2, <2>4
<1>4. CASE \E p \in Passes : Step(p)
  BY <1>4, OncePlans
<1>5. CASE \E p \in Passes : Reduce(p)
  BY <1>5, OnceReduce
<1>6. CASE \E p \in Passes : Answered(p)
  BY <1>6, OnceAnswered
<1>7. CASE \E p \in Passes : Move(p) \/ Done(p)
  BY <1>7, OnceEnd
<1>8. CASE Fetch \/ Refresh
  <2>1. UNCHANGED <<world, qty, entry, opened, job, taken, misses, store, pass>> /\ raw' = Real
    BY <1>1, <1>8, RefreshDoes
  <2>2. /\ \A r \in Reasons : Out(r)' <= Out(r)
        /\ \A q \in Passes : (Acting(q)' <=> Acting(q)) /\ (Acting(q) => pass'[q] = pass[q])
    BY <1>o, <2>1 DEF Out, Queued, Acting
  <2>3. raw'.qty = qty
    BY <2>1 DEF Real
  <2>4. CASE raw.entry = entry
    BY <1>1, <2>1, <2>2, <2>3, <2>4, OnceShrinks
  <2>5. CASE raw.entry # entry
    <3>1. ~(store # None /\ store.entry = entry)
      <4>1. store # None => store.entry <= raw.entry /\ store.entry \in Nat
        <5>1. store # None => store \in PmStates
          BY <1>1 DEF StoreTypes, GoodStates
        <5>2. store # None => store.entry \in 1 .. MaxEntries
          BY <5>1, StateFields
        <5>3. QED
          BY <1>1, <5>2 DEF Followed
      <4>2. QED
        BY <1>1, <2>5, <4>1
    <3>2. \A q \in Passes : ~Acting(q)'
      BY <1>1, <2>1, <2>5 DEF Idle, Acting
    <3>3. \A r \in Reasons : /\ Within(r, misses) => Within(r, misses)'
                             /\ Within(r, misses + 1) => Within(r, misses + 1)'
      BY <2>1, <2>2, WithinStays
    <3>4. Shares' /\ AllWithin'
      BY <1>1, <2>5, <3>3 DEF Shares, AllWithin
    <3>5. QED
      BY <2>1, <3>1, <3>2, <3>4 DEF JobsPlanned, NotActing
  <2>6. QED
    BY <2>4, <2>5
<1>9. CASE RetryExit
  <2>1. /\ UNCHANGED <<world, entry, raw, opened, misses, store, pass>> /\ qty' \in Nat /\ qty' <= qty
        /\ \A r \in Reasons : Out(r)' <= Out(r)
    BY <1>9, RetryDoes
  <2>2. \A q \in Passes : (Acting(q)' <=> Acting(q)) /\ (Acting(q) => pass'[q] = pass[q])
    BY <2>1 DEF Acting
  <2>3. raw'.qty \in Nat /\ raw'.qty <= raw.qty
    BY <1>1, <2>1
  <2>4. QED
    BY <1>1, <2>1, <2>2, <2>3, OnceShrinks
<1>10. CASE MarkMoves
  <2>1. UNCHANGED <<world, entry, raw, opened, job, taken, misses, store, pass>> /\ qty' \in {qty, 0}
    BY <1>10 DEF MarkMoves, storeVars
  <2>2. \A q \in Passes : (Acting(q)' <=> Acting(q)) /\ (Acting(q) => pass'[q] = pass[q])
    BY <2>1 DEF Acting
  <2>3. QED
    BY <1>s, <2>1, <2>2
<1>11. CASE Enter
  <2>1. /\ job' = None /\ entry' = entry + 1 /\ taken' = [r \in {"TP1", "TP2"} |-> 0] /\ UNCHANGED <<raw, store, pass>>
        /\ Idle
    BY <1>1, <1>11 DEF Enter, storeVars
  <2>2. AllWithin' /\ Shares'
    <3>1. taken'["TP1"] = 0 /\ taken'["TP2"] = 0
      BY <2>1
    <3>2. QED
      BY <2>1, <3>1, NothingOutNext
  <2>3. \A q \in Passes : ~Acting(q)'
    BY <2>1 DEF Idle, Acting
  <2>4. store # None => store.entry # entry'
    <3>1. store # None => store \in PmStates
      BY <1>1 DEF StoreTypes, GoodStates
    <3>2. store # None => store.entry \in 1 .. MaxEntries
      BY <3>1, StateFields
    <3>3. store # None => store.entry <= raw.entry /\ store.entry \in Nat
      BY <1>1, <3>2 DEF Followed
    <3>4. QED
      BY <1>1, <2>1, <3>3
  <2>5. QED
    BY <2>1, <2>2, <2>3, <2>4 DEF JobsPlanned, NotActing
<1>12. CASE Crash
  BY <1>1, <1>12 DEF Crash, Fault
<1>13. CASE UNCHANGED vars
  <2>1. UNCHANGED <<world, qty, entry, raw, opened, job, taken, misses, store, pass>>
    BY <1>13 DEF vars
  <2>2. \A q \in Passes : (Acting(q)' <=> Acting(q)) /\ (Acting(q) => pass'[q] = pass[q])
    BY <2>1 DEF Acting
  <2>3. QED
    BY <1>s, <2>1, <2>2
<1>14. QED
  BY <1>2, <1>3, <1>4, <1>5, <1>6, <1>7, <1>8, <1>9, <1>10, <1>11, <1>12, <1>13 DEF Next

----------------------------------------------------------------------------
(* The theorems *)

(* The initial states have the invariant. *)
LEMMA ManagerInit == Init => ManagerInv
<1> SUFFICES ASSUME Init PROVE ManagerInv
  OBVIOUS
<1>1. /\ world \in Worlds /\ entry = 1 /\ qty = Lots /\ opened = Lots /\ stop = -1 /\ target = world.target /\ mark = 0
      /\ taken = [r \in {"TP1", "TP2"} |-> 0] /\ store = None /\ file = None /\ busy = FALSE
      /\ pass = [p \in Passes |-> NoPass] /\ faults = 0 /\ misses = 0 /\ job = None /\ fetch = None /\ raw = Real
  BY DEF Init
<1>2. /\ Lots \in Nat \ {0} /\ MinQty \in Nat \ {0} /\ Lots >= MinQty /\ MaxEntries \in Nat \ {0} /\ MaxFaults \in Nat
      /\ 0 \in Levels
  BY Parameters
<1>3. VenueTypes
  <2>1. entry \in 1 .. MaxEntries /\ faults \in 0 .. MaxFaults /\ misses \in 0 .. faults
    BY <1>1, <1>2
  <2>2. opened <= Lots * entry
    BY <1>1, <1>2
  <2>3. taken \in [{"TP1", "TP2"} -> Nat] /\ (taken["TP1"] + taken["TP2"]) + qty <= opened
    BY <1>1, <1>2
  <2>4. QED
    BY <1>1, <1>2, <2>1, <2>2, <2>3 DEF VenueTypes
<1>3a. raw.qty = qty /\ raw.entry = entry /\ ShownTypes
  <2>1. qty \in 0 .. Bound
    <3>1. Lots * 1 <= Bound /\ Bound \in Nat
      BY <1>2, BoundType
    <3>2. QED
      BY <1>1, <1>2, <3>1
  <2>2. raw \in Shows
    BY <1>1, <1>2, <2>1 DEF Real, Shows
  <2>3. QED
    BY <1>1, <2>2 DEF Real, ShownTypes
<1>4. LevelTypes
  <2>1. Max(Levels) \in Int /\ -1 <= Max(Levels)
    BY TopLevel, Parameters
  <2>2. -1 \in Stops
    BY <2>1 DEF Stops
  <2>3. QED
    BY <1>1, <1>2, <2>2, WorldParts DEF LevelTypes
<1>5. StoreTypes /\ PassTypes
  BY <1>1, NoPassType DEF StoreTypes, PassTypes
<1>5a. Types
  BY <1>3, <1>3a, <1>4, <1>5 DEF Types
<1>6. \A p \in Passes : pass[p].pc = "idle" /\ ~Acting(p)
  BY <1>1, IdleJob DEF Acting
<1>7. Working /\ Seeing
  BY <1>6 DEF Working, Seeing
<1>7a. Showing
  <2>1. \A p \in Passes : Unshown(pass[p]) = 0
    BY <1>6 DEF Unshown
  <2>2. ShowsLots
    BY <1>3a, <1>6 DEF ShowsLots
  <2>3. ShowsEnough
    BY <1>1, <1>2, <1>3a, <2>1 DEF ShowsEnough
  <2>4. NotShown
    BY <1>3a DEF NotShown
  <2>5. raw.entry <= entry
    BY <1>1, <1>3a
  <2>6. QED
    BY <1>1, <2>2, <2>3, <2>4, <2>5 DEF Showing
<1>8. Agreeing
  BY <1>1, <1>6 DEF Agreeing, Followed, CountsLots
<1>9. Once
  <2>1. AllWithin /\ Shares
    BY <1>1, <1>5a, NothingOut
  <2>2. QED
    BY <1>1, <1>6, <2>1 DEF Once, JobsPlanned, NotActing
<1>10. Remainder
  BY <1>1, <1>2, <1>6 DEF Remainder
<1>11. QED
  BY <1>5a, <1>7, <1>7a, <1>8, <1>9, <1>10 DEF ManagerInv

(* Every step keeps the invariant. *)
LEMMA ManagerStep == ManagerInv /\ [Next]_vars => ManagerInv'
<1> SUFFICES ASSUME ManagerInv, [Next]_vars PROVE ManagerInv'
  OBVIOUS
<1>1. Types /\ Working /\ Seeing /\ Showing /\ Agreeing /\ Once /\ Remainder
  BY DEF ManagerInv
<1>2. Types' /\ Working' /\ Seeing' /\ Showing'
  BY <1>1, TypesStep, WorkingStep, SeeingStep, ShowingStep
<1>3. Agreeing' /\ Once' /\ Remainder'
  BY <1>1, <1>2, AgreeingStep, OnceStep, RemainderStep
<1>4. QED
  BY <1>2, <1>3 DEF ManagerInv

(* The inductive invariant: what the passes of PositionDriver hold, what the *)
(* venue object shows them, and how the store and the venue stand to each    *)
(* other.  Only as long as no fill was missed does the store count exactly   *)
(* what left the venue.                                                      *)
THEOREM ManagerInvariant == Spec => []ManagerInv
<1>1. Init => ManagerInv
  BY ManagerInit
<1>2. ManagerInv /\ [Next]_vars => ManagerInv'
  BY ManagerStep
<1>3. QED
  BY <1>1, <1>2, PTL DEF Spec

(* PositionDriver and PositionManagerStore keep their types, and no pass of  *)
(* manage holds a position without lots.                                     *)
THEOREM TypeCorrect == Spec => []TypeOK
<1>1. ManagerInv => TypeOK
  <2> SUFFICES ASSUME ManagerInv PROVE TypeOK
    OBVIOUS
  <2>1. VenueTypes /\ ShownTypes /\ LevelTypes /\ StoreTypes /\ PassTypes
    BY DEF ManagerInv, Types
  <2>2. /\ qty \in Nat /\ opened \in Nat /\ opened <= Lots * entry /\ entry \in 1 .. MaxEntries
        /\ taken["TP1"] \in Nat /\ taken["TP2"] \in Nat /\ (taken["TP1"] + taken["TP2"]) + qty <= opened
        /\ taken \in [{"TP1", "TP2"} -> Nat] /\ faults \in 0 .. MaxFaults /\ misses \in 0 .. faults
    BY <2>1 DEF VenueTypes
  <2>3. Lots * entry \in Nat /\ Lots * entry <= Bound /\ Bound \in Nat
    BY <2>2, BoundType
  <2>4. qty \in 0 .. Bound /\ taken["TP1"] \in 0 .. Bound /\ taken["TP2"] \in 0 .. Bound
    BY <2>2, <2>3
  <2>5. taken \in [{"TP1", "TP2"} -> 0 .. Bound]
    <3>1. \A r \in {"TP1", "TP2"} : taken[r] \in 0 .. Bound
      BY <2>4
    <3>2. taken = [r \in {"TP1", "TP2"} |-> taken[r]]
      BY <2>2
    <3> HIDE DEF Bound
    <3>3. QED
      BY <3>1, <3>2
  <2>6. store \in PmStates \cup {None} /\ file \in PmStates \cup {None}
    BY <2>1 DEF StoreTypes, GoodStates
  <2>7. pass \in [Passes -> Jobs] /\ busy \in BOOLEAN
    BY <2>1 DEF PassTypes
  <2>8. misses \in 0 .. MaxFaults
    BY <2>2, Parameters
  <2>9. raw \in Shows /\ fetch \in Shows \cup {None} /\ job \in ExitJobs \cup {None}
    BY <2>1 DEF ShownTypes
  <2>10. QED
    BY <2>1, <2>2, <2>4, <2>5, <2>6, <2>7, <2>8, <2>9 DEF TypeOK, VenueTypes, LevelTypes, Jobs, Views, Plans, Shows, Bound
<1>2. QED
  BY <1>1, ManagerInvariant, PTL

(* PositionManager.advance and PositionDriver.apply: a partial is taken once *)
(* per entry whatever is refused, filled in part or retried, and once more   *)
(* at most for every fill the driver or the broker was not told of: the lost *)
(* answer of LiveBook.reduce, the partial RemoteExits.reduce has queued, the *)
(* sync that fails after a fill.  As long as there was none, the partials    *)
(* together leave at least LotRules.minQty.                                  *)
THEOREM PartialsStayBounded == Spec => []PartialsBounded
<1>1. ManagerInv => PartialsBounded
  <2> SUFFICES ASSUME ManagerInv PROVE PartialOnce /\ RunnerLeft
    BY DEF PartialsBounded
  <2>1. Types /\ Once /\ Remainder
    BY DEF ManagerInv
  <2>2. PartialOnce
    <3> SUFFICES ASSUME world.kinds \cap {"delayed", "overlap", "scale", "disk", "crash"} = {}, NEW r \in Reasons
                 PROVE  taken[r] <= (1 + misses) * Share(r)
      BY DEF PartialOnce, Share, Pct, Reasons
    <3>1. Out(r) <= Times(misses + 1, Share(r)) /\ Out(r) = taken[r] + Queued(r)
      BY <2>1 DEF Once, Shares, Within, Out
    <3>2. taken[r] \in Nat /\ Queued(r) \in Nat /\ misses \in Nat /\ Share(r) \in Nat
      BY <2>1, OutType, MissesType, ShareType
    <3>3. Times(misses + 1, Share(r)) = (1 + misses) * Share(r) /\ Times(misses + 1, Share(r)) \in Int
      <4>1. misses + 1 = 1 + misses /\ misses + 1 \in Int
        BY <3>2
      <4>2. Times(misses + 1, Share(r)) \in Int
        BY <3>2, <4>1, TimesIs
      <4>3. QED
        BY <4>1, <4>2 DEF Times
    <3>4. taken[r] <= Times(misses + 1, Share(r))
      BY <3>1, <3>2, <3>3
    <3>5. QED
      BY <3>3, <3>4
  <2>3. RunnerLeft
    BY <2>1 DEF Remainder, RunnerLeft
  <2>4. QED
    BY <2>2, <2>3
<1>2. QED
  BY <1>1, ManagerInvariant, PTL

(* PositionDriver.apply: as long as no fill was missed, the lots the saved   *)
(* state expects between passes are the lots held, after refused orders,     *)
(* partial fills and additions alike.                                        *)
THEOREM LotsAlwaysAgree == Spec => []LotsAgree
<1>1. ManagerInv => LotsAgree
  <2> SUFFICES ASSUME ManagerInv, world.kinds \cap {"delayed", "overlap", "disk", "crash"} = {}, misses = 0, Idle,
                      store # None, qty > 0, store.entry = entry
               PROVE  store.initial - store.reduced = qty
    BY DEF LotsAgree
  <2>1. CountsLots
    BY DEF ManagerInv, Agreeing
  <2>2. \A p \in Passes : ~Acting(p)
    BY DEF Idle, Acting
  <2>3. QED
    BY <2>1, <2>2 DEF CountsLots
<1>2. QED
  BY <1>1, ManagerInvariant, PTL

(* PositionManager.ts "the manager only ever ratchets it toward price": no   *)
(* step of any pass moves the venue's stop back, a late pass on the live     *)
(* book included.                                                            *)
THEOREM StopRatchets == Spec => Ratchet
<1>1. ManagerInv /\ [Next]_vars
      => [entry' = entry /\ ~(world.venue = "remote" /\ May("delayed")) => stop' >= stop]_vars
  <2> SUFFICES ASSUME ManagerInv, [Next]_vars, entry' = entry, ~(world.venue = "remote" /\ May("delayed"))
               PROVE  stop' >= stop
    OBVIOUS
  <2>1. Types /\ Working /\ Seeing /\ stop \in Stops /\ stop \in Int /\ world.venue \in {"live", "remote"} /\ entry \in Nat
    BY StopInt, WorldParts DEF ManagerInv, Types, VenueTypes, LevelTypes
  <2>2. CASE UNCHANGED stop
    BY <2>1, <2>2
  <2>3. CASE \E p \in Passes : Move(p) \/ Done(p)
    <3>1. PICK p \in Passes : Move(p) \/ Done(p)
      BY <2>3
    <3>2. Ended(p) /\ LevelTypes'
      BY <2>1, <3>1, EndDoes
    <3>3. stop' \in Int
      BY <3>2, StopInt DEF LevelTypes
    <3>4. CASE stop' = stop
      BY <2>1, <3>4
    <3>5. CASE (world.venue = "live" \/ stop' >= pass[p].seen.stop) /\ (world.venue = "live" => stop' >= stop)
      <4>1. CASE world.venue = "live"
        BY <3>5, <4>1
      <4>2. CASE world.venue # "live"
        <5>1. ~May("delayed")
          BY <2>1, <4>2
        <5>2. Acting(p)
          BY <3>2 DEF Ended, Acting
        <5>3. stop <= pass[p].seen.stop /\ pass[p].seen \in Views
          BY <2>1, <5>1, <5>2 DEF Seeing, Working, JobOK
        <5>4. pass[p].seen.stop \in Int
          BY <5>3, ViewFields
        <5>5. QED
          BY <2>1, <3>3, <3>5, <4>2, <5>3, <5>4
      <4>3. QED
        BY <4>1, <4>2
    <3>6. QED
      BY <3>2, <3>4, <3>5 DEF Ended
  <2>4. CASE Enter
    BY <2>1, <2>4 DEF Enter
  <2>5. QED
    BY <2>2, <2>3, <2>4
       DEF Next, Manage, Skip, Step, Reduce, Answered, Fetch, Refresh, RetryExit, MarkMoves, Crash, vars, venueVars
<1>2. QED
  BY <1>1, ManagerInvariant, PTL DEF Spec, Ratchet
=============================================================================
