------------------------- MODULE TradingCycleProofs -------------------------
(***************************************************************************)
(* Proofs about the trading loop for any symbols, equities and limits:     *)
(* what a halt, a drawdown and a restart leave possible, how many entries  *)
(* may rest or fill, and that a skipped signal would have been refused.    *)
(*                                                                         *)
(* The inductive invariant has one part per question:                      *)
(*   Types     shapes, and that a signal is at the head while it is handled *)
(*   Slot      who answers for what rests at the venue                     *)
(*   PastGate  what a halt may still let through                           *)
(*   Saved     the files are what the process holds                        *)
(*   Room      what is held and rests against what the gate counted        *)
(*   Standing  why a remembered refusal still stands                       *)
(***************************************************************************)
EXTENDS TradingCycle, FiniteSetTheorems, TLAPS

Signatures == [circuit : {"NORMAL", "HALTED"}, bucket : Nat, book : [Symbols -> Nat]]

VenueTypes == pos \in [Symbols -> Nat] /\ stop \in [Symbols -> BOOLEAN] /\ resting \subseteq Symbols
MarketTypes == equity \in Equities /\ circuit \in {"NORMAL", "HALTED"}
HaltTypes == halted \in BOOLEAN /\ haltFile \in BOOLEAN /\ toggles \in Nat
PeakTypes == peak \in Nat /\ peakFile \in Nat /\ wasBreached \in BOOLEAN
GuardTypes ==
  /\ reconciled \in BOOLEAN /\ journalFresh \in BOOLEAN /\ bracketsFresh \in BOOLEAN
  /\ hedge \in BOOLEAN /\ blocks \subseteq Symbols
HolderTypes == holder \in [symbol : Symbols \cup {None}, working : BOOLEAN]
SignalTypes == cooling \subseteq Symbols /\ suppressed \in [Symbols -> Signatures \cup {None}]
CancelTypes == cancels \in [Tasks -> [pc : {"idle", "read", "cancel"}, todo : SUBSET Symbols]]
ContextTypes ==
  ctx \in [pos : [Symbols -> Nat], equity : Nat, safety : SUBSET Symbols, performance : BOOLEAN,
           brackets : BOOLEAN, circuit : {"NORMAL", "HALTED"}]
PlanTypes ==
  plan \in [entries : SUBSET Symbols, stops : SUBSET Symbols,
            cancel : SUBSET ({"entry", "stop"} \X Symbols), unprotected : SUBSET Symbols]
WorkTypes ==
  work \in [todo : SUBSET Symbols, symbol : Symbols \cup {None}, then : {"drawdown", "collect"},
            transition : BOOLEAN]
StepTypes ==
  /\ pc \in Steps /\ queue \in Seq(Symbols)
  /\ pc \in {"veto", "submit", "portfolio"} => queue # <<>>

Types ==
  /\ world \in Worlds /\ VenueTypes /\ MarketTypes /\ HaltTypes /\ PeakTypes /\ GuardTypes
  /\ HolderTypes /\ SignalTypes /\ CancelTypes /\ ContextTypes /\ PlanTypes /\ WorkTypes /\ StepTypes

\* Nothing rests but the entry that is tracked, once the startup pass is over;
\* until then that pass has seen everything that rests.
Slot ==
  /\ \A s, t \in resting : s = t
  /\ reconciled => \A s \in resting : holder.working /\ s = holder.symbol
  /\ ~reconciled /\ pc = "positions" => resting \subseteq plan.entries
  /\ ~reconciled /\ pc = "cleanup" => \A s \in resting : <<"entry", s>> \in plan.cancel
  /\ pc = "submit" => resting = {} /\ reconciled /\ ~holder.working /\ holder.symbol = Head(queue)

\* At most one signal is past the gate, and it was not there with the halt on.
PastGate ==
  /\ afterHalt \in {0, 1}
  /\ halted /\ pc \in {"veto", "submit"} => afterHalt = 0

Saved == ~May("disk") => peakFile = peak /\ haltFile = halted

\* The steps of a cycle at which its context is at most one entry behind.
Fresh == {"emergency", "close", "closeCancel", "drawdown", "cancelling", "collect", "next", "veto",
          "submit"}
Exposed == HeldIn(pos) \cup resting

Room ==
  /\ ~May("lost") =>
       /\ Cardinality(Exposed) <= MaxPositions + 1
       /\ pc \in Fresh =>
            \E x \in Symbols \cup {None} : Exposed \subseteq HeldIn(ctx.pos) \cup {x}
  /\ pc \in {"veto", "submit"} => Cardinality(HeldIn(ctx.pos)) + 1 <= MaxPositions

\* Without an operator and with a steady equity a refusal rests on what cannot
\* change, or on what its signature contains.
Standing ==
  world.kinds \cap {"halt", "equity"} = {} =>
    /\ peak <= equity /\ peakFile <= equity
    /\ pc \in Fresh \cup {"portfolio"} => ctx.equity = equity
    /\ \A s \in Symbols : suppressed[s] # None =>
         \/ halted \/ equity = 0 \/ suppressed[s].circuit = "HALTED"
         \/ Cardinality(HeldIn(suppressed[s].book)) + 1 > MaxPositions

CycleInv == Types /\ Slot /\ PastGate /\ Saved /\ Room /\ Standing

(* Which steps of the loop, the tracker, the operator and the venue write what. *)
LEMMA Writers ==
  ASSUME [Next]_vars
  PROVE
    /\ UNCHANGED venueVars \/ StartupCancel \/ CloseSend \/ CloseCancel
         \/ (\E t \in Tasks : CancelOne(t)) \/ Submit \/ SubmitLost
         \/ (\E s \in Symbols : Fill(s)) \/ (\E s \in Symbols : StopFires(s)) \/ TrackerProtects
         \/ TrackerExpires
    /\ UNCHANGED marketVars \/ MarketMoves
    /\ UNCHANGED haltVars \/ GuardHalt \/ OperatorToggles \/ Restart
    /\ UNCHANGED peakVars \/ GuardDrawdown \/ SignalRefused \/ SignalApproved \/ Restart
    /\ UNCHANGED guardVars \/ RefreshFeeds \/ RefreshFails \/ FeedAges \/ ReconcileOrders
         \/ ReconcileEnd \/ Restart
    /\ UNCHANGED holder \/ Reserve \/ Submit \/ SubmitRejected \/ SubmitLost \/ TrackerResolves
         \/ Restart
    /\ UNCHANGED signalVars \/ SignalRefused \/ SignalApproved \/ ExecuteRefused \/ Submit
         \/ CooldownEnds \/ Restart
    /\ UNCHANGED cancels \/ GuardDrawdown \/ (\E t \in Tasks : CancelRead(t))
         \/ (\E t \in Tasks : CancelOne(t)) \/ (\E t \in Tasks : CancelFails(t))
         \/ OperatorToggles \/ Restart
    /\ UNCHANGED afterHalt \/ GuardHalt \/ Submit \/ SubmitLost \/ OperatorToggles
    /\ UNCHANGED ctx \/ Gather \/ CycleFails \/ RefreshPortfolio \/ CycleEnd \/ Restart
    /\ UNCHANGED plan \/ RefreshFails \/ ReconcileOrders \/ ReconcilePositions \/ StartupCancel
         \/ ReconcileEnd \/ Restart
    /\ UNCHANGED work \/ GuardEmergency \/ CloseSend \/ CloseFails \/ CloseEnd \/ GuardDrawdown
         \/ GuardHalt \/ Restart
    /\ UNCHANGED <<pc, queue>> \/ CycleStart \/ RefreshFeeds \/ ReconcileOrders
         \/ ReconcilePositions \/ ReconcileEnd \/ Gather \/ GuardEmergency \/ GuardDrawdown
         \/ GuardHalt \/ CloseEnd \/ Collect \/ SignalSkipped \/ SignalRefused \/ SignalApproved
         \/ SignalVetoed \/ ExecuteRefused \/ Reserve \/ Submit \/ RefreshPortfolio \/ CycleEnd
         \/ CloseSend \/ CloseCancel \/ RefreshFails \/ CycleFails \/ CloseFails
         \/ SubmitRejected \/ SubmitLost \/ Restart
    /\ UNCHANGED world
<1>1. CASE CycleStart
  BY <1>1 DEF CycleStart
<1>2. CASE RefreshFeeds
  BY <1>2 DEF RefreshFeeds
<1>3. CASE ReconcileOrders
  BY <1>3 DEF ReconcileOrders
<1>4. CASE ReconcilePositions
  BY <1>4 DEF ReconcilePositions
<1>5. CASE StartupCancel
  BY <1>5 DEF StartupCancel
<1>6. CASE ReconcileEnd
  BY <1>6 DEF ReconcileEnd
<1>7. CASE Gather
  BY <1>7 DEF Gather
<1>8. CASE GuardEmergency
  BY <1>8 DEF GuardEmergency
<1>9. CASE GuardDrawdown
  BY <1>9 DEF GuardDrawdown
<1>10. CASE GuardHalt
  BY <1>10 DEF GuardHalt
<1>11. CASE CloseEnd
  BY <1>11 DEF CloseEnd
<1>12. CASE Collect
  BY <1>12 DEF Collect
<1>13. CASE SignalSkipped
  BY <1>13 DEF SignalSkipped
<1>14. CASE SignalRefused
  BY <1>14 DEF SignalRefused
<1>15. CASE SignalApproved
  BY <1>15 DEF SignalApproved
<1>16. CASE SignalVetoed
  BY <1>16 DEF SignalVetoed
<1>17. CASE ExecuteRefused
  BY <1>17 DEF ExecuteRefused
<1>18. CASE Reserve
  BY <1>18 DEF Reserve
<1>19. CASE Submit
  BY <1>19 DEF Submit
<1>20. CASE RefreshPortfolio
  BY <1>20 DEF RefreshPortfolio
<1>21. CASE CycleEnd
  BY <1>21 DEF CycleEnd
<1>22. CASE CloseSend
  BY <1>22 DEF CloseSend
<1>23. CASE CloseCancel
  BY <1>23 DEF CloseCancel
<1>24. CASE RefreshFails
  BY <1>24 DEF RefreshFails
<1>25. CASE CycleFails
  BY <1>25 DEF CycleFails
<1>26. CASE CloseFails
  BY <1>26 DEF CloseFails
<1>27. CASE SubmitRejected
  BY <1>27 DEF SubmitRejected
<1>28. CASE SubmitLost
  BY <1>28 DEF SubmitLost
<1>29. CASE FeedAges
  BY <1>29 DEF FeedAges, cycleVars
<1>30. CASE CooldownEnds
  BY <1>30 DEF CooldownEnds, cycleVars
<1>31. CASE \E t \in Tasks : CancelRead(t)
  BY <1>31 DEF CancelRead, cycleVars
<1>32. CASE \E t \in Tasks : CancelOne(t)
  BY <1>32 DEF CancelOne, cycleVars
<1>33. CASE \E t \in Tasks : CancelFails(t)
  BY <1>33 DEF CancelFails, cycleVars
<1>34. CASE \E s \in Symbols : Fill(s)
  BY <1>34 DEF Fill, cycleVars
<1>35. CASE \E s \in Symbols : StopFires(s)
  BY <1>35 DEF StopFires, cycleVars
<1>36. CASE TrackerProtects
  BY <1>36 DEF TrackerProtects, cycleVars
<1>37. CASE TrackerExpires
  BY <1>37 DEF TrackerExpires, cycleVars
<1>38. CASE TrackerResolves
  BY <1>38 DEF TrackerResolves, cycleVars
<1>39. CASE OperatorToggles
  BY <1>39 DEF OperatorToggles, cycleVars
<1>40. CASE MarketMoves
  BY <1>40 DEF MarketMoves, cycleVars
<1>41. CASE Restart
  BY <1>41 DEF Restart
<1>42. CASE UNCHANGED vars
  BY <1>42 DEF vars, cycleVars
<1>43. QED
  BY <1>1, <1>2, <1>3, <1>4, <1>5, <1>6, <1>7, <1>8, <1>9, <1>10, <1>11, <1>12, <1>13, <1>14, <1>15,
       <1>16, <1>17, <1>18, <1>19, <1>20, <1>21, <1>22, <1>23, <1>24, <1>25, <1>26, <1>27, <1>28,
       <1>29, <1>30, <1>31, <1>32, <1>33, <1>34, <1>35, <1>36, <1>37, <1>38, <1>39, <1>40, <1>41,
       <1>42 DEF Next, Guards, Signals, Failures

(* What signatureOf makes of a context is a signature. *)
LEMMA SignatureType == ASSUME ContextTypes PROVE signatureOf(ctx) \in Signatures
<1>1. \A e \in Nat : e \div BucketSize \in Nat
  BY CycleAssumption
<1>2. ctx.equity \in Nat /\ ctx.equity \div BucketSize \in Nat
  BY <1>1 DEF ContextTypes
<1>3. QED
  BY <1>2 DEF signatureOf, Signatures, ContextTypes

(* Positions, stops and resting entries. *)
LEMMA VenueKept == Types /\ [Next]_vars => VenueTypes'
<1> SUFFICES ASSUME Types, [Next]_vars PROVE VenueTypes'
  OBVIOUS
<1> USE CycleAssumption DEF Types, VenueTypes
<1>1. CASE StartupCancel
  BY <1>1 DEF StartupCancel, PlanTypes
<1>2. CASE CloseSend
  BY <1>2 DEF CloseSend, ReduceOnly, ContextTypes, WorkTypes
<1>3. CASE CloseCancel
  BY <1>3 DEF CloseCancel, WorkTypes
<1>4. CASE \E t \in Tasks : CancelOne(t)
  BY <1>4 DEF CancelOne
<1>5. CASE Submit
  BY <1>5 DEF Submit, Landed, StepTypes
<1>6. CASE SubmitLost
  <2>1. pos' = pos /\ stop' = stop /\ Head(queue) \in Symbols
    BY <1>6 DEF SubmitLost, Types, StepTypes
  <2>2. resting' \in {resting, resting \cup {Head(queue)}}
    BY <1>6 DEF SubmitLost, Landed
  <2>3. QED
    BY <2>1, <2>2 DEF Types, VenueTypes
<1>7. CASE \E s \in Symbols : Fill(s)
  BY <1>7 DEF Fill
<1>8. CASE \E s \in Symbols : StopFires(s)
  BY <1>8 DEF StopFires
<1>9. CASE TrackerProtects
  <2>1. stop' = stop \/ stop' = [stop EXCEPT ![holder.symbol] = TRUE]
    BY <1>9 DEF TrackerProtects
  <2>2. pos' = pos \/ pos' = [pos EXCEPT ![holder.symbol] = 0]
    BY <1>9 DEF TrackerProtects
  <2>3. resting' = resting \/ resting' = resting \ {holder.symbol}
    BY <1>9 DEF TrackerProtects
  <2>4. stop' \in [Symbols -> BOOLEAN]
    BY <2>1 DEF Types, VenueTypes
  <2>5. pos' \in [Symbols -> Nat]
    BY <2>2 DEF Types, VenueTypes
  <2>6. QED
    BY <2>3, <2>4, <2>5 DEF Types, VenueTypes
<1>10. CASE TrackerExpires
  BY <1>10 DEF TrackerExpires
<1>11. CASE UNCHANGED venueVars
  BY <1>11 DEF venueVars
<1>12. QED
  BY <1>1, <1>2, <1>3, <1>4, <1>5, <1>6, <1>7, <1>8, <1>9, <1>10, <1>11, Writers

(* The account and the loss governors. *)
LEMMA MarketKept == Types /\ [Next]_vars => MarketTypes'
<1> SUFFICES ASSUME Types, [Next]_vars PROVE MarketTypes'
  OBVIOUS
<1> USE CycleAssumption DEF Types, MarketTypes
<1>1. CASE MarketMoves
  BY <1>1 DEF MarketMoves
<1>2. CASE UNCHANGED marketVars
  BY <1>2 DEF marketVars
<1>3. QED
  BY <1>1, <1>2, Writers

(* The kill switch and its file. *)
LEMMA HaltKept == Types /\ [Next]_vars => HaltTypes'
<1> SUFFICES ASSUME Types, [Next]_vars PROVE HaltTypes'
  OBVIOUS
<1> USE CycleAssumption DEF Types, HaltTypes
<1>1. CASE GuardHalt
  BY <1>1 DEF GuardHalt, toggle
<1>2. CASE OperatorToggles
  <2>1. halted' \in BOOLEAN /\ (haltFile' = ~halted \/ haltFile' = haltFile)
    BY <1>2, Zenon DEF OperatorToggles, toggle
  <2>2. haltFile' \in BOOLEAN
    BY <2>1, Zenon DEF Types, HaltTypes
  <2>3. toggles' \in Nat
    BY <1>2 DEF OperatorToggles, Types, HaltTypes
  <2>4. QED
    BY <2>1, <2>2, <2>3 DEF HaltTypes
<1>3. CASE Restart
  BY <1>3 DEF Restart
<1>4. CASE UNCHANGED haltVars
  BY <1>4 DEF haltVars
<1>5. QED
  BY <1>1, <1>2, <1>3, <1>4, Writers

(* The peak and its file. *)
LEMMA PeakKept == Types /\ [Next]_vars => PeakTypes'
<1> SUFFICES ASSUME Types, [Next]_vars PROVE PeakTypes'
  OBVIOUS
<1> USE CycleAssumption DEF Types, PeakTypes, ContextTypes
<1>1. CASE GuardDrawdown
  BY <1>1 DEF GuardDrawdown, observe, Higher, isDrawdownBreached
<1>2. CASE SignalRefused
  BY <1>2 DEF SignalRefused, observe, Higher
<1>3. CASE SignalApproved
  BY <1>3 DEF SignalApproved, observe, Higher
<1>4. CASE Restart
  BY <1>4 DEF Restart
<1>5. CASE UNCHANGED peakVars
  BY <1>5 DEF peakVars
<1>6. QED
  BY <1>1, <1>2, <1>3, <1>4, <1>5, Writers

(* The guards of the venue. *)
LEMMA GuardKept == Types /\ [Next]_vars => GuardTypes'
<1> SUFFICES ASSUME Types, [Next]_vars PROVE GuardTypes'
  OBVIOUS
<1> USE CycleAssumption DEF Types, GuardTypes, PlanTypes
<1>1. CASE RefreshFeeds
  BY <1>1 DEF RefreshFeeds
<1>2. CASE RefreshFails
  BY <1>2 DEF RefreshFails
<1>3. CASE FeedAges
  BY <1>3 DEF FeedAges
<1>4. CASE ReconcileOrders
  BY <1>4 DEF ReconcileOrders
<1>5. CASE ReconcileEnd
  BY <1>5 DEF ReconcileEnd
<1>6. CASE Restart
  BY <1>6 DEF Restart
<1>7. CASE UNCHANGED guardVars
  BY <1>7 DEF guardVars
<1>8. QED
  BY <1>1, <1>2, <1>3, <1>4, <1>5, <1>6, <1>7, Writers

(* The slot of the entry tracker. *)
LEMMA HolderKept == Types /\ [Next]_vars => HolderTypes'
<1> SUFFICES ASSUME Types, [Next]_vars PROVE HolderTypes'
  OBVIOUS
<1> USE CycleAssumption DEF Types, HolderTypes, StepTypes
<1>1. CASE Reserve
  BY <1>1 DEF Reserve
<1>2. CASE Submit
  BY <1>2 DEF Submit
<1>3. CASE SubmitRejected
  BY <1>3 DEF SubmitRejected, NoHolder
<1>4. CASE SubmitLost
  BY <1>4 DEF SubmitLost
<1>5. CASE TrackerResolves
  BY <1>5 DEF TrackerResolves, NoHolder
<1>6. CASE Restart
  BY <1>6 DEF Restart, NoHolder
<1>7. CASE UNCHANGED holder
  BY <1>7
<1>8. QED
  BY <1>1, <1>2, <1>3, <1>4, <1>5, <1>6, <1>7, Writers

(* Remembered refusals and cooldowns. *)
LEMMA SignalKept == Types /\ [Next]_vars => SignalTypes'
<1> SUFFICES ASSUME Types, [Next]_vars PROVE SignalTypes'
  OBVIOUS
<1> USE CycleAssumption DEF Types, SignalTypes, StepTypes, ContextTypes, Signatures
<1>1. CASE SignalRefused
  <2>1. signatureOf(ctx) \in Signatures
    BY SignatureType DEF Types
  <2>2. Head(queue) \in Symbols
    BY <1>1 DEF SignalRefused, Types, StepTypes
  <2>3. PICK v \in Signatures \cup {None} : suppressed' = [suppressed EXCEPT ![Head(queue)] = v]
    BY <1>1, <2>1 DEF SignalRefused
  <2>4. suppressed' \in [Symbols -> Signatures \cup {None}]
    BY <2>2, <2>3 DEF Types, SignalTypes
  <2>5. QED
    BY <1>1, <2>4 DEF SignalRefused, Types, SignalTypes
<1>2. CASE SignalApproved
  BY <1>2 DEF SignalApproved
<1>3. CASE ExecuteRefused
  BY <1>3 DEF ExecuteRefused
<1>4. CASE Submit
  BY <1>4 DEF Submit
<1>5. CASE CooldownEnds
  BY <1>5 DEF CooldownEnds
<1>6. CASE Restart
  BY <1>6 DEF Restart
<1>7. CASE UNCHANGED signalVars
  BY <1>7 DEF signalVars
<1>8. QED
  BY <1>1, <1>2, <1>3, <1>4, <1>5, <1>6, <1>7, Writers

(* The cancels of the cycle and of the operator. *)
LEMMA CancelKept == Types /\ [Next]_vars => CancelTypes'
<1> SUFFICES ASSUME Types, [Next]_vars PROVE CancelTypes'
  OBVIOUS
<1> USE CycleAssumption DEF Types, CancelTypes, VenueTypes, Tasks
<1>1. CASE GuardDrawdown
  BY <1>1 DEF GuardDrawdown
<1>2. CASE \E t \in Tasks : CancelRead(t)
  BY <1>2 DEF CancelRead, IdleCancel
<1>3. CASE \E t \in Tasks : CancelOne(t)
  <2> DEFINE C == [pc : {"idle", "read", "cancel"}, todo : SUBSET Symbols]
  <2> PICK t \in Tasks : CancelOne(t)
    BY <1>3
  <2>1. PICK c \in C : cancels' = [cancels EXCEPT ![t] = c]
    <3>1. PICK s \in cancels[t].todo :
            cancels' = [cancels EXCEPT ![t] = IF @.todo = {s} THEN IdleCancel
                                              ELSE [pc |-> "cancel", todo |-> @.todo \ {s}]]
      BY DEF CancelOne
    <3>2. [pc |-> "cancel", todo |-> cancels[t].todo \ {s}] \in C /\ IdleCancel \in C
      BY DEF Types, CancelTypes, IdleCancel
    <3>3. QED
      BY <3>1, <3>2
  <2>2. QED
    BY <2>1 DEF Types, CancelTypes
<1>4. CASE \E t \in Tasks : CancelFails(t)
  BY <1>4 DEF CancelFails, IdleCancel
<1>5. CASE OperatorToggles
  BY <1>5 DEF OperatorToggles
<1>6. CASE Restart
  BY <1>6 DEF Restart, IdleCancel
<1>7. CASE UNCHANGED cancels
  BY <1>7
<1>8. QED
  BY <1>1, <1>2, <1>3, <1>4, <1>5, <1>6, <1>7, Writers

(* The context of a cycle. *)
LEMMA ContextKept == Types /\ [Next]_vars => ContextTypes'
<1> SUFFICES ASSUME Types, [Next]_vars PROVE ContextTypes'
  OBVIOUS
<1> USE CycleAssumption DEF Types, ContextTypes, VenueTypes, MarketTypes, GuardTypes
<1>1. CASE Gather
  BY <1>1 DEF Gather
<1>2. CASE CycleFails
  BY <1>2 DEF CycleFails, NoCtx
<1>3. CASE RefreshPortfolio
  BY <1>3 DEF RefreshPortfolio
<1>4. CASE CycleEnd
  BY <1>4 DEF CycleEnd, NoCtx
<1>5. CASE Restart
  BY <1>5 DEF Restart, NoCtx
<1>6. CASE UNCHANGED ctx
  BY <1>6
<1>7. QED
  BY <1>1, <1>2, <1>3, <1>4, <1>5, <1>6, Writers

(* The plan of a reconciliation. *)
LEMMA PlanKept == Types /\ [Next]_vars => PlanTypes'
<1> SUFFICES ASSUME Types, [Next]_vars PROVE PlanTypes'
  OBVIOUS
<1> USE CycleAssumption DEF Types, PlanTypes, VenueTypes
<1>1. CASE RefreshFails
  BY <1>1 DEF RefreshFails, NoPlan
<1>2. CASE ReconcileOrders
  BY <1>2 DEF ReconcileOrders, NoPlan
<1>3. CASE ReconcilePositions
  BY <1>3 DEF ReconcilePositions, planStartupReconciliation, HeldIn
<1>4. CASE StartupCancel
  BY <1>4 DEF StartupCancel
<1>5. CASE ReconcileEnd
  BY <1>5 DEF ReconcileEnd, NoPlan
<1>6. CASE Restart
  BY <1>6 DEF Restart, NoPlan
<1>7. CASE UNCHANGED plan
  BY <1>7
<1>8. QED
  BY <1>1, <1>2, <1>3, <1>4, <1>5, <1>6, <1>7, Writers

(* The positions a guard closes. *)
LEMMA WorkKept == Types /\ [Next]_vars => WorkTypes'
<1> SUFFICES ASSUME Types, [Next]_vars PROVE WorkTypes'
  OBVIOUS
<1> USE CycleAssumption DEF Types, WorkTypes, ContextTypes, PeakTypes
<1>1. CASE GuardEmergency
  BY <1>1 DEF GuardEmergency, NoWork, HeldIn
<1>2. CASE CloseSend
  <2>1. PICK s \in work.todo : work' = [work EXCEPT !.todo = work.todo \ {s}, !.symbol = s]
    BY <1>2 DEF CloseSend
  <2>2. s \in Symbols /\ work.todo \ {s} \subseteq Symbols
    BY DEF Types, WorkTypes
  <2>3. QED
    BY <2>1, <2>2 DEF Types, WorkTypes
<1>3. CASE CloseFails
  BY <1>3 DEF CloseFails
<1>4. CASE CloseEnd
  BY <1>4 DEF CloseEnd, NoWork
<1>5. CASE GuardDrawdown
  BY <1>5 DEF GuardDrawdown
<1>6. CASE GuardHalt
  BY <1>6 DEF GuardHalt, HeldIn
<1>7. CASE Restart
  BY <1>7 DEF Restart, NoWork
<1>8. CASE UNCHANGED work
  BY <1>8
<1>9. QED
  BY <1>1, <1>2, <1>3, <1>4, <1>5, <1>6, <1>7, <1>8, Writers

(* Where the cycle is, and the signals left. *)
LEMMA StepKept == Types /\ [Next]_vars => StepTypes'
<1> SUFFICES ASSUME Types, [Next]_vars PROVE StepTypes'
  OBVIOUS
<1> USE CycleAssumption DEF Types, StepTypes, WorkTypes, Steps
<1>1. CASE CycleStart
  BY <1>1 DEF CycleStart
<1>2. CASE RefreshFeeds
  BY <1>2 DEF RefreshFeeds
<1>3. CASE ReconcileOrders
  BY <1>3 DEF ReconcileOrders
<1>4. CASE ReconcilePositions
  BY <1>4 DEF ReconcilePositions
<1>5. CASE ReconcileEnd
  BY <1>5 DEF ReconcileEnd
<1>6. CASE Gather
  BY <1>6 DEF Gather
<1>7. CASE GuardEmergency
  BY <1>7 DEF GuardEmergency
<1>8. CASE GuardDrawdown
  BY <1>8 DEF GuardDrawdown
<1>9. CASE GuardHalt
  BY <1>9 DEF GuardHalt
<1>10. CASE CloseEnd
  BY <1>10 DEF CloseEnd
<1>11. CASE Collect
  BY <1>11 DEF Collect
<1>12. CASE SignalSkipped
  BY <1>12 DEF SignalSkipped, Done
<1>13. CASE SignalRefused
  BY <1>13 DEF SignalRefused, Done
<1>14. CASE SignalApproved
  BY <1>14 DEF SignalApproved
<1>15. CASE SignalVetoed
  BY <1>15 DEF SignalVetoed, Done
<1>16. CASE ExecuteRefused
  BY <1>16 DEF ExecuteRefused, Done
<1>17. CASE Reserve
  BY <1>17 DEF Reserve
<1>18. CASE Submit
  BY <1>18 DEF Submit
<1>19. CASE RefreshPortfolio
  BY <1>19 DEF RefreshPortfolio, Done
<1>20. CASE CycleEnd
  BY <1>20 DEF CycleEnd
<1>21. CASE CloseSend
  BY <1>21 DEF CloseSend
<1>22. CASE CloseCancel
  BY <1>22 DEF CloseCancel
<1>23. CASE RefreshFails
  BY <1>23 DEF RefreshFails
<1>24. CASE CycleFails
  BY <1>24 DEF CycleFails
<1>25. CASE CloseFails
  BY <1>25 DEF CloseFails
<1>26. CASE SubmitRejected
  BY <1>26 DEF SubmitRejected, Done
<1>27. CASE SubmitLost
  BY <1>27 DEF SubmitLost, Done
<1>28. CASE Restart
  BY <1>28 DEF Restart
<1>29. CASE UNCHANGED <<pc, queue>>
  BY <1>29
<1>30. QED
  BY <1>1, <1>2, <1>3, <1>4, <1>5, <1>6, <1>7, <1>8, <1>9, <1>10, <1>11, <1>12, <1>13, <1>14, <1>15,
       <1>16, <1>17, <1>18, <1>19, <1>20, <1>21, <1>22, <1>23, <1>24, <1>25, <1>26, <1>27, <1>28,
       <1>29, Writers

(* Whoever rests is tracked, or is seen by the startup pass. *)
LEMMA SlotStep == Types /\ Slot /\ [Next]_vars => Slot'
<1> SUFFICES ASSUME Types /\ Slot, [Next]_vars PROVE Slot'
  OBVIOUS
<1> USE CycleAssumption DEF Types, VenueTypes, HolderTypes, PlanTypes, StepTypes, WorkTypes, Slot,
     venueVars, guardVars
<1>1. CASE CycleStart
  BY <1>1 DEF CycleStart
<1>2. CASE RefreshFeeds
  BY <1>2 DEF RefreshFeeds
<1>3. CASE ReconcileOrders
  BY <1>3 DEF ReconcileOrders, NoPlan
<1>4. CASE ReconcilePositions
  BY <1>4 DEF ReconcilePositions, planStartupReconciliation
<1>5. CASE StartupCancel
  BY <1>5 DEF StartupCancel
<1>6. CASE ReconcileEnd
  BY <1>6 DEF ReconcileEnd, NoPlan
<1>7. CASE Gather
  BY <1>7 DEF Gather
<1>8. CASE GuardEmergency
  BY <1>8 DEF GuardEmergency
<1>9. CASE GuardDrawdown
  BY <1>9 DEF GuardDrawdown
<1>10. CASE GuardHalt
  BY <1>10 DEF GuardHalt
<1>11. CASE CloseEnd
  BY <1>11 DEF CloseEnd
<1>12. CASE Collect
  BY <1>12 DEF Collect
<1>13. CASE SignalSkipped
  BY <1>13 DEF SignalSkipped, Done
<1>14. CASE SignalRefused
  BY <1>14 DEF SignalRefused, Done
<1>15. CASE SignalApproved
  BY <1>15 DEF SignalApproved
<1>16. CASE SignalVetoed
  BY <1>16 DEF SignalVetoed, Done
<1>17. CASE ExecuteRefused
  BY <1>17 DEF ExecuteRefused, Done
<1>18. CASE Reserve
  BY <1>18 DEF Reserve, entryBlocked, NoHolder
<1>19. CASE Submit
  BY <1>19 DEF Submit, Landed
<1>20. CASE RefreshPortfolio
  BY <1>20 DEF RefreshPortfolio, Done
<1>21. CASE CycleEnd
  BY <1>21 DEF CycleEnd
<1>22. CASE CloseSend
  BY <1>22 DEF CloseSend
<1>23. CASE CloseCancel
  BY <1>23 DEF CloseCancel
<1>24. CASE RefreshFails
  BY <1>24 DEF RefreshFails, NoPlan
<1>25. CASE CycleFails
  BY <1>25 DEF CycleFails
<1>26. CASE CloseFails
  BY <1>26 DEF CloseFails
<1>27. CASE SubmitRejected
  BY <1>27 DEF SubmitRejected, Done, NoHolder
<1>28. CASE SubmitLost
  BY <1>28 DEF SubmitLost, Done, Landed
<1>29. CASE FeedAges
  BY <1>29 DEF FeedAges, cycleVars
<1>30. CASE \E t \in Tasks : CancelOne(t)
  BY <1>30 DEF CancelOne, cycleVars
<1>31. CASE \E s \in Symbols : Fill(s)
  BY <1>31 DEF Fill, cycleVars
<1>32. CASE \E s \in Symbols : StopFires(s)
  BY <1>32 DEF StopFires, cycleVars
<1>33. CASE TrackerProtects
  BY <1>33 DEF TrackerProtects, cycleVars
<1>34. CASE TrackerExpires
  BY <1>34 DEF TrackerExpires, cycleVars
<1>35. CASE TrackerResolves
  BY <1>35 DEF TrackerResolves, NoHolder, cycleVars
<1>36. CASE Restart
  BY <1>36 DEF Restart, NoHolder
<1>37. CASE UNCHANGED <<venueVars, guardVars, holder, plan, pc, queue>>
  BY <1>37
<1>38. QED
  BY <1>1, <1>2, <1>3, <1>4, <1>5, <1>6, <1>7, <1>8, <1>9, <1>10, <1>11, <1>12, <1>13, <1>14, <1>15,
       <1>16, <1>17, <1>18, <1>19, <1>20, <1>21, <1>22, <1>23, <1>24, <1>25, <1>26, <1>27, <1>28,
       <1>29, <1>30, <1>31, <1>32, <1>33, <1>34, <1>35, <1>36, <1>37, Writers

(* What may still be sent after a halt. *)
LEMMA PastGateStep == Types /\ PastGate /\ [Next]_vars => PastGate'
<1> SUFFICES ASSUME Types /\ PastGate, [Next]_vars PROVE PastGate'
  OBVIOUS
<1> USE CycleAssumption DEF Types, HaltTypes, WorkTypes, PastGate, haltVars
<1>1. CASE CycleStart
  BY <1>1 DEF CycleStart
<1>2. CASE RefreshFeeds
  BY <1>2 DEF RefreshFeeds
<1>3. CASE ReconcileOrders
  BY <1>3 DEF ReconcileOrders
<1>4. CASE ReconcilePositions
  BY <1>4 DEF ReconcilePositions
<1>5. CASE ReconcileEnd
  BY <1>5 DEF ReconcileEnd
<1>6. CASE Gather
  BY <1>6 DEF Gather
<1>7. CASE GuardEmergency
  BY <1>7 DEF GuardEmergency
<1>8. CASE GuardDrawdown
  BY <1>8 DEF GuardDrawdown
<1>9. CASE GuardHalt
  BY <1>9 DEF GuardHalt, toggle
<1>10. CASE CloseEnd
  BY <1>10 DEF CloseEnd
<1>11. CASE Collect
  BY <1>11 DEF Collect
<1>12. CASE SignalSkipped
  BY <1>12 DEF SignalSkipped, Done
<1>13. CASE SignalRefused
  BY <1>13 DEF SignalRefused, Done
<1>14. CASE SignalApproved
  BY <1>14 DEF SignalApproved, refusal
<1>15. CASE SignalVetoed
  BY <1>15 DEF SignalVetoed, Done
<1>16. CASE ExecuteRefused
  BY <1>16 DEF ExecuteRefused, Done
<1>17. CASE Reserve
  BY <1>17 DEF Reserve
<1>18. CASE Submit
  BY <1>18 DEF Submit, Landed
<1>19. CASE RefreshPortfolio
  BY <1>19 DEF RefreshPortfolio, Done
<1>20. CASE CycleEnd
  BY <1>20 DEF CycleEnd
<1>21. CASE CloseSend
  BY <1>21 DEF CloseSend
<1>22. CASE CloseCancel
  BY <1>22 DEF CloseCancel
<1>23. CASE RefreshFails
  BY <1>23 DEF RefreshFails
<1>24. CASE CycleFails
  BY <1>24 DEF CycleFails
<1>25. CASE CloseFails
  BY <1>25 DEF CloseFails
<1>26. CASE SubmitRejected
  BY <1>26 DEF SubmitRejected, Done
<1>27. CASE SubmitLost
  BY <1>27 DEF SubmitLost, Done, Landed
<1>28. CASE OperatorToggles
  BY <1>28 DEF OperatorToggles, toggle, cycleVars
<1>29. CASE Restart
  BY <1>29 DEF Restart
<1>30. CASE UNCHANGED <<haltVars, afterHalt, pc, queue>>
  BY <1>30
<1>31. QED
  BY <1>1, <1>2, <1>3, <1>4, <1>5, <1>6, <1>7, <1>8, <1>9, <1>10, <1>11, <1>12, <1>13, <1>14, <1>15,
       <1>16, <1>17, <1>18, <1>19, <1>20, <1>21, <1>22, <1>23, <1>24, <1>25, <1>26, <1>27, <1>28,
       <1>29, <1>30, Writers

(* The files follow what the process holds. *)
LEMMA SavedStep == Types /\ Saved /\ [Next]_vars => Saved'
<1> SUFFICES ASSUME Types /\ Saved, [Next]_vars PROVE Saved'
  OBVIOUS
<1> USE CycleAssumption DEF Types, HaltTypes, PeakTypes, ContextTypes, May, Saved, haltVars,
     peakVars
<1>1. CASE GuardDrawdown
  BY <1>1 DEF GuardDrawdown, observe, Higher
<1>2. CASE GuardHalt
  BY <1>2 DEF GuardHalt, toggle
<1>3. CASE SignalRefused
  BY <1>3 DEF SignalRefused, observe, Higher
<1>4. CASE SignalApproved
  BY <1>4 DEF SignalApproved, observe, Higher
<1>5. CASE OperatorToggles
  BY <1>5 DEF OperatorToggles, toggle
<1>6. CASE Restart
  BY <1>6 DEF Restart
<1>7. CASE UNCHANGED <<world, haltVars, peakVars>>
  BY <1>7
<1>8. QED
  BY <1>1, <1>2, <1>3, <1>4, <1>5, <1>6, <1>7, Writers

(* Only an entry that is submitted adds to what is held or may fill. *)
LEMMA ExposedShrinks ==
  ASSUME Types, [Next]_vars
  PROVE  Exposed' \subseteq Exposed \/ Submit \/ SubmitLost
<1>1. CASE StartupCancel
  BY <1>1 DEF StartupCancel, Types, VenueTypes, ContextTypes, WorkTypes, Exposed, HeldIn
<1>2. CASE CloseSend
  BY <1>2 DEF CloseSend, ReduceOnly, Types, VenueTypes, ContextTypes, WorkTypes, Exposed, HeldIn
<1>3. CASE CloseCancel
  BY <1>3 DEF CloseCancel, Types, VenueTypes, ContextTypes, WorkTypes, Exposed, HeldIn
<1>4. CASE \E t \in Tasks : CancelOne(t)
  BY <1>4 DEF CancelOne, Types, VenueTypes, ContextTypes, WorkTypes, Exposed, HeldIn
<1>5. CASE \E s \in Symbols : Fill(s)
  BY <1>5 DEF Fill, Types, VenueTypes, ContextTypes, WorkTypes, Exposed, HeldIn
<1>6. CASE \E s \in Symbols : StopFires(s)
  BY <1>6 DEF StopFires, Types, VenueTypes, ContextTypes, WorkTypes, Exposed, HeldIn
<1>7. CASE TrackerProtects
  BY <1>7 DEF TrackerProtects, Types, VenueTypes, ContextTypes, WorkTypes, Exposed, HeldIn
<1>8. CASE TrackerExpires
  BY <1>8 DEF TrackerExpires, Types, VenueTypes, ContextTypes, WorkTypes, Exposed, HeldIn
<1>9. CASE UNCHANGED venueVars
  BY <1>9 DEF venueVars, Exposed, HeldIn
<1>10. QED
  BY <1>1, <1>2, <1>3, <1>4, <1>5, <1>6, <1>7, <1>8, <1>9, Writers

(* A context serves the rest of its cycle, up to the next order; what is past
   the gate was approved in it. *)
LEMMA ContextStays ==
  ASSUME Types, [Next]_vars
  PROVE  /\ pc' \in Fresh => Gather \/ RefreshPortfolio \/ (pc \in Fresh /\ ctx' = ctx)
         /\ pc' \in {"veto", "submit"} => SignalApproved \/ (pc \in {"veto", "submit"} /\ ctx' = ctx)
         /\ pc' = "portfolio" => pc \in {"submit", "portfolio"} /\ ctx' = ctx
<1> USE DEF Fresh
<1>1. CASE CycleStart
  BY <1>1 DEF CycleStart
<1>2. CASE RefreshFeeds
  BY <1>2 DEF RefreshFeeds
<1>3. CASE ReconcileOrders
  BY <1>3 DEF ReconcileOrders
<1>4. CASE ReconcilePositions
  BY <1>4 DEF ReconcilePositions
<1>5. CASE ReconcileEnd
  BY <1>5 DEF ReconcileEnd
<1>6. CASE Gather
  BY <1>6 DEF Gather
<1>7. CASE GuardEmergency
  BY <1>7 DEF GuardEmergency
<1>8. CASE GuardDrawdown
  BY <1>8 DEF GuardDrawdown
<1>9. CASE GuardHalt
  BY <1>9 DEF GuardHalt
<1>10. CASE CloseEnd
  BY <1>10 DEF CloseEnd, Types, WorkTypes
<1>11. CASE Collect
  BY <1>11 DEF Collect
<1>12. CASE SignalSkipped
  BY <1>12 DEF SignalSkipped, Done
<1>13. CASE SignalRefused
  BY <1>13 DEF SignalRefused, Done
<1>14. CASE SignalApproved
  BY <1>14 DEF SignalApproved
<1>15. CASE SignalVetoed
  BY <1>15 DEF SignalVetoed, Done
<1>16. CASE ExecuteRefused
  BY <1>16 DEF ExecuteRefused, Done
<1>17. CASE Reserve
  BY <1>17 DEF Reserve
<1>18. CASE Submit
  BY <1>18 DEF Submit
<1>19. CASE RefreshPortfolio
  BY <1>19 DEF RefreshPortfolio, Done
<1>20. CASE CycleEnd
  BY <1>20 DEF CycleEnd
<1>21. CASE CloseSend
  BY <1>21 DEF CloseSend
<1>22. CASE CloseCancel
  BY <1>22 DEF CloseCancel
<1>23. CASE RefreshFails
  BY <1>23 DEF RefreshFails
<1>24. CASE CycleFails
  BY <1>24 DEF CycleFails
<1>25. CASE CloseFails
  BY <1>25 DEF CloseFails
<1>26. CASE SubmitRejected
  BY <1>26 DEF SubmitRejected, Done
<1>27. CASE SubmitLost
  BY <1>27 DEF SubmitLost, Done
<1>28. CASE Restart
  BY <1>28 DEF Restart
<1>29. CASE UNCHANGED <<ctx, pc, queue>>
  BY <1>29
<1>30. QED
  BY <1>1, <1>2, <1>3, <1>4, <1>5, <1>6, <1>7, <1>8, <1>9, <1>10, <1>11, <1>12, <1>13, <1>14, <1>15,
       <1>16, <1>17, <1>18, <1>19, <1>20, <1>21, <1>22, <1>23, <1>24, <1>25, <1>26, <1>27, <1>28,
       <1>29, Writers

(* What is held is a set of symbols, of which there are finitely many. *)
LEMMA HeldFinite ==
  ASSUME NEW f PROVE IsFiniteSet(HeldIn(f)) /\ Cardinality(HeldIn(f)) \in Nat
<1>1. HeldIn(f) \subseteq Symbols
  BY DEF HeldIn
<1>2. QED
  BY <1>1, CycleAssumption, FS_Subset, FS_CardinalityType

(* A set within another and one or two more has at most as many more. *)
LEMMA OneMore ==
  ASSUME NEW A, NEW B, NEW x, IsFiniteSet(B), A \subseteq B \cup {x}
  PROVE  IsFiniteSet(A) /\ Cardinality(A) <= Cardinality(B) + 1 /\ Cardinality(A) \in Nat
         /\ Cardinality(B) \in Nat
<1>1. /\ IsFiniteSet(B \cup {x}) /\ Cardinality(B) \in Nat
      /\ Cardinality(B \cup {x}) \in {Cardinality(B), Cardinality(B) + 1}
  BY FS_AddElement, FS_CardinalityType
<1>2. IsFiniteSet(A) /\ Cardinality(A) <= Cardinality(B \cup {x}) /\ Cardinality(A) \in Nat
  BY <1>1, FS_Subset, FS_CardinalityType
<1>3. QED
  BY <1>1, <1>2

(* What is held and rests stays within one of what the gate counted. *)
LEMMA RoomStep == Types /\ Slot /\ Room /\ [Next]_vars => Room'
<1> SUFFICES ASSUME Types, Slot, Room, [Next]_vars PROVE Room'
  OBVIOUS
<1> USE CycleAssumption
<1>1. /\ May("lost")' = May("lost") /\ MaxPositions \in Nat
      /\ IsFiniteSet(Exposed) /\ Cardinality(Exposed) \in Nat
  <2>1. Exposed \subseteq Symbols
    BY DEF Exposed, HeldIn, Types, VenueTypes
  <2>2. QED
    BY <2>1, Writers, FS_Subset, FS_CardinalityType DEF May
<1>2. (pc \in {"veto", "submit"} => Cardinality(HeldIn(ctx.pos)) + 1 <= MaxPositions)'
  <2>1. CASE SignalApproved
    <3>1. ~(Cardinality(HeldIn(ctx.pos)) + 1 > MaxPositions) /\ ctx' = ctx
      BY <2>1 DEF SignalApproved, refusal
    <3>2. Cardinality(HeldIn(ctx.pos)) \in Nat
      BY HeldFinite
    <3>3. QED
      BY <1>1, <3>1, <3>2 DEF HeldIn
  <2>2. CASE pc \in {"veto", "submit"} /\ ctx' = ctx
    BY <2>2 DEF Room, HeldIn
  <2>3. QED
    BY <2>1, <2>2, ContextStays
<1>3. ASSUME ~May("lost"), ~Submit
      PROVE  Exposed' \subseteq Exposed /\ Cardinality(Exposed') <= MaxPositions + 1
  <2>1. Exposed' \subseteq Exposed
    BY <1>3, ExposedShrinks DEF SubmitLost
  <2>2. Cardinality(Exposed') <= Cardinality(Exposed) /\ Cardinality(Exposed') \in Nat
    BY <1>1, <2>1, FS_Subset, FS_CardinalityType
  <2>3. QED
    BY <1>1, <1>3, <2>1, <2>2 DEF Room
<1>4. ASSUME ~May("lost"), Submit
      PROVE  Cardinality(Exposed') <= MaxPositions + 1
  <2> DEFINE H == HeldIn(ctx.pos)
  <2>1. PICK x \in Symbols \cup {None} : Exposed \subseteq H \cup {x}
    BY <1>4 DEF Submit, Room, Fresh
  <2>2. Exposed' \subseteq Exposed \cup {Head(queue)}
    BY <1>4 DEF Submit, Landed, Exposed, HeldIn
  <2>3. IsFiniteSet(H) /\ Cardinality(H) \in Nat /\ Cardinality(H) + 1 <= MaxPositions
    BY <1>4, HeldFinite DEF Submit, Room
  <2> HIDE DEF H
  <2>4. IsFiniteSet(Exposed) /\ Cardinality(Exposed) <= Cardinality(H) + 1
    BY <2>1, <2>3, OneMore
  <2>5. Cardinality(Exposed') <= Cardinality(Exposed) + 1 /\ Cardinality(Exposed') \in Nat
    BY <2>2, <2>4, OneMore
  <2>6. QED
    BY <1>1, <2>3, <2>4, <2>5
<1>5. ASSUME ~May("lost"), pc' \in Fresh
      PROVE  \E x \in Symbols \cup {None} : Exposed' \subseteq HeldIn(ctx'.pos) \cup {x}
  <2>1. CASE Gather \/ RefreshPortfolio
    <3>1. /\ ctx'.pos = pos /\ pos' = pos /\ resting' = resting
      <4>1. CASE Gather
        BY <4>1 DEF Gather, venueVars
      <4>2. CASE RefreshPortfolio
        BY <4>2 DEF RefreshPortfolio, venueVars, Types, ContextTypes
      <4>3. QED
        BY <2>1, <4>1, <4>2
    <3>2. Exposed' = HeldIn(ctx'.pos) \cup resting
      BY <3>1 DEF Exposed, HeldIn
    <3>3. PICK x \in Symbols \cup {None} : resting \subseteq {x}
      <4>1. CASE resting = {}
        BY <4>1
      <4>2. CASE resting # {}
        <5>1. PICK s \in resting : TRUE
          BY <4>2
        <5>2. s \in Symbols /\ resting \subseteq {s}
          BY DEF Slot, Types, VenueTypes
        <5>3. QED
          BY <5>2
      <4>3. QED
        BY <4>1, <4>2
    <3>4. QED
      BY <3>2, <3>3
  <2>2. CASE pc \in Fresh /\ ctx' = ctx
    <3>1. ~Submit
      BY <1>5 DEF Submit, Fresh
    <3>2. PICK x \in Symbols \cup {None} : Exposed \subseteq HeldIn(ctx.pos) \cup {x}
      BY <1>5, <2>2 DEF Room
    <3>3. Exposed' \subseteq HeldIn(ctx'.pos) \cup {x}
      BY <1>3, <1>5, <2>2, <3>1, <3>2 DEF HeldIn
    <3>4. QED
      BY <3>3
  <2>3. QED
    BY <1>5, <2>1, <2>2, ContextStays
<1>6. QED
  BY <1>1, <1>2, <1>3, <1>4, <1>5 DEF Room, HeldIn

(* With the peak at the equity only an empty account is in drawdown. *)
LEMMA SteadyDrawdown ==
  ASSUME NEW e \in Nat, NEW p \in Nat, p <= e
  PROVE  isDrawdownBreached(e, Higher(p, e)) <=> e = 0
<1>1. Higher(p, e) = e
  BY DEF Higher
<1>2. (e - e) * 100 = 0
  OBVIOUS
<1>3. MaxDrawdownPct * e >= 0
  BY CycleAssumption
<1>4. QED
  BY <1>1, <1>2, <1>3, CycleAssumption DEF isDrawdownBreached

(* A remembered refusal keeps its reason. *)
LEMMA StandingStep == Types /\ Standing /\ [Next]_vars => Standing'
<1> SUFFICES ASSUME Types, Standing, [Next]_vars, world.kinds \cap {"halt", "equity"} = {}
             PROVE  /\ peak' <= equity' /\ peakFile' <= equity'
                    /\ pc' \in Fresh \cup {"portfolio"} => ctx'.equity = equity'
                    /\ \A s \in Symbols : suppressed'[s] # None =>
                         \/ halted' \/ equity' = 0 \/ suppressed'[s].circuit = "HALTED"
                         \/ Cardinality(HeldIn(suppressed'[s].book)) + 1 > MaxPositions
  BY Writers DEF Standing, HeldIn
<1> USE CycleAssumption
<1>1. equity' = equity /\ equity \in Nat
  BY Writers DEF MarketMoves, marketVars, May, Types, MarketTypes
<1>2. peak <= equity /\ peakFile <= equity /\ (pc \in Fresh \cup {"portfolio"} => ctx.equity = equity)
  BY DEF Standing
<1>3. peak' <= equity' /\ peakFile' <= equity'
  <2>1. CASE GuardDrawdown \/ SignalRefused \/ SignalApproved
    <3>1. ctx.equity = equity /\ (observe(ctx.equity) \/ UNCHANGED <<peak, peakFile>>)
      BY <1>2, <2>1 DEF GuardDrawdown, SignalRefused, SignalApproved, Fresh
    <3>2. QED
      BY <1>1, <1>2, <3>1 DEF observe, Higher, Types, PeakTypes
  <2>2. CASE Restart
    BY <1>1, <1>2, <2>2 DEF Restart
  <2>3. CASE UNCHANGED peakVars
    BY <1>1, <1>2, <2>3 DEF peakVars
  <2>4. QED
    BY <2>1, <2>2, <2>3, Writers
<1>4. pc' \in Fresh \cup {"portfolio"} => ctx'.equity = equity'
  <2>1. CASE Gather
    BY <1>1, <2>1 DEF Gather
  <2>2. CASE RefreshPortfolio
    BY <1>1, <2>2 DEF RefreshPortfolio, Types, ContextTypes
  <2>3. CASE pc \in Fresh /\ ctx' = ctx
    BY <1>1, <1>2, <2>3
  <2>4. CASE pc' = "portfolio"
    <3>1. pc \in Fresh \cup {"portfolio"} /\ ctx' = ctx
      BY <2>4, ContextStays DEF Fresh
    <3>2. QED
      BY <1>1, <1>2, <3>1
  <2>5. QED
    BY <2>1, <2>2, <2>3, <2>4, ContextStays
<1>5. ASSUME NEW s \in Symbols, suppressed'[s] # None
      PROVE  \/ halted' \/ equity' = 0 \/ suppressed'[s].circuit = "HALTED"
             \/ Cardinality(HeldIn(suppressed'[s].book)) + 1 > MaxPositions
  <2>1. halted => halted' \/ Restart
    <3>1. CASE GuardHalt
      BY <3>1 DEF GuardHalt, toggle
    <3>2. ~OperatorToggles
      BY DEF OperatorToggles, May
    <3>3. CASE UNCHANGED haltVars
      BY <3>3 DEF haltVars
    <3>4. QED
      BY <3>1, <3>2, <3>3, Writers
  <2>2. ~Restart
    BY <1>5 DEF Restart
  <2>3. CASE SignalRefused /\ s = Head(queue)
    <3>1. suppressed'[s] = signatureOf(ctx) /\ isStandingBlock(refusal(s)) /\ halted' = halted
      BY <1>5, <2>3 DEF SignalRefused, haltVars, Types, SignalTypes
    <3>2. ctx.equity = equity /\ ctx.equity \in Nat /\ peak \in Nat
      BY <1>1, <1>2, <2>3 DEF SignalRefused, Fresh, Types, PeakTypes
    <3>3. isDrawdownBreached(ctx.equity, Higher(peak, ctx.equity)) => equity = 0
      BY <1>2, <3>2, SteadyDrawdown
    <3>4. \/ halted \/ equity = 0 \/ ctx.circuit = "HALTED"
          \/ Cardinality(HeldIn(ctx.pos)) + 1 > MaxPositions
      BY <3>1, <3>3 DEF isStandingBlock, refusal
    <3>5. QED
      BY <1>1, <3>1, <3>4 DEF signatureOf
  <2>4. CASE suppressed'[s] = suppressed[s]
    BY <1>1, <1>5, <2>1, <2>2, <2>4 DEF Standing
  <2>5. SignalRefused /\ s # Head(queue) => suppressed'[s] = suppressed[s]
    BY DEF SignalRefused, Types, SignalTypes
  <2>6. SignalApproved => suppressed'[s] = suppressed[s]
    BY <1>5 DEF SignalApproved, Types, SignalTypes
  <2>7. ExecuteRefused \/ Submit \/ CooldownEnds \/ UNCHANGED signalVars
          => suppressed'[s] = suppressed[s]
    BY DEF ExecuteRefused, Submit, CooldownEnds, signalVars
  <2>8. QED
    BY <2>2, <2>3, <2>4, <2>5, <2>6, <2>7, Writers
<1>6. QED
  BY <1>3, <1>4, <1>5

(* A process that starts has nothing, and nothing rests at the venue. *)
LEMMA CycleInit == Init => CycleInv
<1> SUFFICES ASSUME Init PROVE CycleInv
  OBVIOUS
<1> USE CycleAssumption
<1>1. equity \in Equities /\ equity \in Nat
  BY DEF Init
<1>2. /\ halted \in BOOLEAN /\ haltFile \in BOOLEAN /\ wasBreached \in BOOLEAN /\ haltFile = halted
      /\ reconciled \in BOOLEAN /\ journalFresh \in BOOLEAN /\ bracketsFresh \in BOOLEAN
      /\ hedge \in BOOLEAN
  BY Zenon DEF Init
<1>3. VenueTypes /\ MarketTypes /\ HaltTypes /\ PeakTypes /\ GuardTypes
  BY <1>1, <1>2 DEF Init, VenueTypes, MarketTypes, HaltTypes, PeakTypes, GuardTypes
<1>4. HolderTypes /\ SignalTypes /\ CancelTypes
  BY DEF Init, HolderTypes, SignalTypes, CancelTypes, NoHolder, IdleCancel, Tasks
<1>5. ContextTypes
  BY DEF Init, ContextTypes, NoCtx
<1>6. PlanTypes /\ WorkTypes /\ StepTypes
  BY DEF Init, PlanTypes, WorkTypes, StepTypes, NoPlan, NoWork, Steps
<1>7. Types
  BY <1>3, <1>4, <1>5, <1>6 DEF Types, Init
<1>8. Slot /\ PastGate
  BY DEF Init, Slot, PastGate
<1>9. Saved
  BY <1>2 DEF Init, Saved
<1>10. Room
  <2>1. Exposed = {}
    BY DEF Init, Exposed, HeldIn
  <2>2. Cardinality(Exposed) = 0
    BY <2>1, FS_EmptySet
  <2>3. QED
    BY <2>2 DEF Init, Room, Fresh
<1>11. Standing
  BY <1>1 DEF Init, Standing, Fresh
<1>12. QED
  BY <1>7, <1>8, <1>9, <1>10, <1>11 DEF CycleInv

(* Every step keeps every part. *)
LEMMA CycleStep == CycleInv /\ [Next]_vars => CycleInv'
<1> SUFFICES ASSUME CycleInv, [Next]_vars PROVE CycleInv'
  OBVIOUS
<1>1. Types /\ Slot /\ PastGate /\ Saved /\ Room /\ Standing
  BY DEF CycleInv
<1>2. world' \in Worlds
  BY <1>1, Writers DEF Types
<1>3. Types'
  BY <1>1, <1>2, VenueKept, MarketKept, HaltKept, PeakKept, GuardKept, HolderKept, SignalKept,
       CancelKept,
     ContextKept, PlanKept, WorkKept, StepKept DEF Types
<1>4. QED
  BY <1>1, <1>3, SlotStep, PastGateStep, SavedStep, RoomStep, StandingStep DEF CycleInv

(* Whatever the operator, the tracker, the venue, the disk and crashes do    *)
(* between the awaits of a cycle of Orchestrator.ts, the invariant holds.    *)
THEOREM CycleInvariant == Spec => []CycleInv
<1>1. Init => CycleInv
  BY CycleInit
<1>2. CycleInv /\ [Next]_vars => CycleInv'
  BY CycleStep
<1>3. QED
  BY <1>1, <1>2, PTL DEF Spec

(* The state keeps its shape: no handler of the loop, of the tracker or of   *)
(* the kill switch leaves a value outside its type.                          *)
THEOREM TypeCorrect == Spec => []TypeOK
<1>1. CycleInv => TypeOK
  <2> SUFFICES ASSUME CycleInv PROVE TypeOK
    OBVIOUS
  <2>1. Types /\ afterHalt \in Nat
    BY DEF CycleInv, PastGate
  <2>2. /\ VenueTypes /\ MarketTypes /\ HaltTypes /\ PeakTypes /\ GuardTypes /\ HolderTypes
        /\ SignalTypes /\ CancelTypes /\ ContextTypes /\ StepTypes
    BY <2>1 DEF Types
  <2>3. {halted, haltFile, wasBreached} \subseteq BOOLEAN
    BY <2>2 DEF HaltTypes, PeakTypes
  <2>4. {reconciled, journalFresh, bracketsFresh, hedge} \subseteq BOOLEAN
    BY <2>2 DEF GuardTypes
  <2>5. plan.cancel \subseteq {"entry", "stop"} \X Symbols /\ plan.unprotected \subseteq Symbols
    BY <2>1 DEF Types, PlanTypes
  <2>6. work.todo \subseteq Symbols /\ DOMAIN suppressed = Symbols
    BY <2>1 DEF Types, WorkTypes, SignalTypes
  <2>7. {peak, peakFile} \subseteq Nat /\ world \in Worlds
    BY <2>1 DEF Types, PeakTypes
  <2>8. QED
    BY <2>1, <2>2, <2>3, <2>4, <2>5, <2>6, <2>7
       DEF TypeOK, VenueTypes, MarketTypes, HaltTypes, GuardTypes, HolderTypes, SignalTypes, CancelTypes,
           ContextTypes, StepTypes
<1>2. QED
  BY <1>1, CycleInvariant, PTL

(* After killSwitch.toggle() halts, at most one entry still reaches the      *)
(* venue: the one signal of processSignals that was past the gate.           *)
THEOREM HaltHolds == Spec => []HaltLetsOneThrough
<1>1. CycleInv => HaltLetsOneThrough
  BY DEF CycleInv, PastGate, HaltLetsOneThrough
<1>2. QED
  BY <1>1, CycleInvariant, PTL

(* Two entries never rest together, and what is held or may fill exceeds     *)
(* maxConcurrentPositions by at most one entry, for any number of symbols.   *)
THEOREM EntriesStayBounded == Spec => []EntriesBounded
<1>1. CycleInv => EntriesBounded
  <2> SUFFICES ASSUME CycleInv PROVE EntriesBounded
    OBVIOUS
  <2>1. OneRestingEntry
    <3>1. CASE resting = {}
      BY <3>1, FS_EmptySet DEF OneRestingEntry
    <3>2. CASE resting # {}
      <4>1. PICK s \in resting : TRUE
        BY <3>2
      <4>2. resting = {s}
        BY DEF CycleInv, Slot
      <4>3. QED
        BY <4>2, FS_Singleton DEF OneRestingEntry
    <3>3. QED
      BY <3>1, <3>2
  <2>2. CapExceededByOne
    BY DEF CycleInv, Room, Exposed, CapExceededByOne
  <2>3. QED
    BY <2>1, <2>2 DEF EntriesBounded
<1>2. QED
  BY <1>1, CycleInvariant, PTL

(* RefusalSuppressor.shouldSkip only swallows a signal the gate would refuse *)
(* again, where neither the operator nor the equity moves.                   *)
THEOREM SkipsAreSound == Spec => []SkipSound
<1>1. CycleInv => SkipSound
  <2> SUFFICES ASSUME CycleInv, world.kinds \cap {"halt", "equity"} = {}, pc = "next", queue # <<>>,
                      shouldSkip(Head(queue))
               PROVE  refusal(Head(queue)) # "approved"
    BY DEF SkipSound, SkipRepeatsRefusal
  <2> DEFINE s == Head(queue)
  <2>1. Types /\ Standing
    BY DEF CycleInv
  <2>2. s \in Symbols /\ ctx.equity = equity /\ equity \in Nat /\ peak \in Nat /\ peak <= equity
    BY <2>1, CycleAssumption DEF Types, StepTypes, MarketTypes, PeakTypes, Standing, Fresh
  <2>3. signatureOf(ctx) \in Signatures
    BY <2>1, SignatureType DEF Types
  <2>4. suppressed[s] = signatureOf(ctx) /\ suppressed[s] # None
    BY <2>3, CycleAssumption DEF shouldSkip, Signatures
  <2>5. \/ halted \/ equity = 0 \/ signatureOf(ctx).circuit = "HALTED"
        \/ Cardinality(HeldIn(signatureOf(ctx).book)) + 1 > MaxPositions
    BY <2>1, <2>2, <2>4 DEF Standing
  <2>6. \/ halted \/ equity = 0 \/ ctx.circuit = "HALTED"
        \/ Cardinality(HeldIn(ctx.pos)) + 1 > MaxPositions
    BY <2>5 DEF signatureOf
  <2>7. equity = 0 => isDrawdownBreached(ctx.equity, Higher(peak, ctx.equity))
    BY <2>2, SteadyDrawdown
  <2>8. QED
    BY <2>6, <2>7 DEF refusal
<1>2. QED
  BY <1>1, CycleInvariant, PTL

(* Neither the drawdown guard nor a restart ends a halt or lowers the peak:  *)
(* KillSwitch and EquityHwmStore save before anybody can depend on it.       *)
THEOREM HaltAndPeakStay == Spec => HaltAndPeakKept
<1>1. CycleInv /\ [Next]_vars =>
        [May("disk") \/ (peak' >= peak /\ (halted /\ ~halted' => toggles' # toggles))]_vars
  <2> SUFFICES ASSUME CycleInv, [Next]_vars, ~May("disk")
               PROVE  peak' >= peak /\ (halted /\ ~halted' => toggles' # toggles)
    OBVIOUS
  <2>1. Types /\ peakFile = peak /\ haltFile = halted
    BY DEF CycleInv, Saved
  <2>2. peak' >= peak
    <3>1. peak \in Nat /\ ctx.equity \in Nat
      BY <2>1 DEF Types, PeakTypes, ContextTypes
    <3>2. CASE GuardDrawdown \/ SignalRefused \/ SignalApproved
      <4>1. observe(ctx.equity) \/ peak' = peak
        BY <3>2 DEF GuardDrawdown, SignalRefused, SignalApproved
      <4>2. QED
        BY <3>1, <4>1 DEF observe, Higher
    <3>3. CASE Restart
      BY <2>1, <3>1, <3>3 DEF Restart
    <3>4. CASE UNCHANGED peakVars
      BY <3>1, <3>4 DEF peakVars
    <3>5. QED
      BY <3>2, <3>3, <3>4, Writers
  <2>3. ASSUME halted, ~halted' PROVE toggles' # toggles
    <3>1. CASE GuardHalt
      BY <2>3, <3>1 DEF GuardHalt, toggle
    <3>2. CASE OperatorToggles
      BY <2>1, <3>2 DEF OperatorToggles, Types, HaltTypes
    <3>3. CASE Restart
      BY <2>1, <2>3, <3>3 DEF Restart
    <3>4. CASE UNCHANGED haltVars
      BY <2>3, <3>4 DEF haltVars
    <3>5. QED
      BY <3>1, <3>2, <3>3, <3>4, Writers
  <2>4. QED
    BY <2>2, <2>3
<1>2. QED
  BY <1>1, CycleInvariant, PTL DEF Spec, HaltAndPeakKept
=============================================================================
