-------------------------- MODULE LiveEntryProofs --------------------------
(***************************************************************************)
(* Proofs about LiveEntry, for every set of entries and symbols, every     *)
(* order size and every pool of leg identities.                            *)
(***************************************************************************)
EXTENDS LiveEntry, TLAPS

(* While the take-profit of a pair is being placed, the pair has an id.    *)
(* TypeOK alone is not inductive: PlaceTp adds `pair` to the venue's legs. *)
TypeInv == TypeOK /\ (pc = "tp" => pair \in Legs)

(* The step has read the order's status; the step has read the position.   *)
AfterOrder == Steps \ {"idle", "order", "sleep"}
AfterPosition == AfterOrder \ {"position"}

(* Who holds the slot, and which orders can still fill.                    *)
SlotInv ==
  /\ tracked => slot \in Entries
  /\ tracked <=> pc # "idle"
  /\ \A e \in Entries : caller[e] \in {"preparing", "submitting"} => slot = e /\ ~tracked
  /\ \A e \in Entries : caller[e] \in {"idle", "preparing"} => order[e] = "absent"
  /\ \A e \in Entries : caller[e] = "submitting" => order[e] # "absent"
  /\ \A e \in Entries : order[e] = "transit" => caller[e] = "submitting"
  /\ \A e \in Entries : order[e] = "working" => slot = e
  /\ tracked => order[slot] \notin {"absent", "transit"}
  /\ pc \in AfterOrder /\ ~isWorking(seen) => order[slot] # "working"

(* The stop of pair n rests, or there is nothing for it to protect and     *)
(* nothing can fill any more.                                              *)
Covered(n) == n \in stops[Sym] \/ (pos[Sym] = 0 /\ order[slot] # "working")

(* The entry in progress on s may have filled: its tracker, or the call    *)
(* that will start it, is responsible for the position.                    *)
Responsible(s) ==
  holds(s) /\ (tracked \/ order[slot] \in {"working", "filled", "canceled"})

(* What the tracker's context says of the venue.                           *)
LegsInv ==
  /\ closing = {}
  /\ ~tracked => todo = {}
  /\ pc \in {"stop", "tp", "emergency", "cancelall", "flatten"} => held > 0
  /\ legs = NoLeg => legsQty = 0
  /\ todo \subseteq stale /\ legs \notin stale
  /\ pc = "tp" => pair \notin stale /\ pair # legs /\ Covered(pair)
  /\ tracked /\ legs # NoLeg /\ pc # "flatten" => Covered(legs)
  /\ pc = "flatten" => order[slot] # "working"
  /\ pc = "stale" /\ held # 0 => legs # NoLeg \/ todo = {}
  /\ pc \in AfterPosition /\ ~isWorking(seen) => pos[Sym] <= held
  /\ \A s \in Symbols : pos[s] > 0 /\ ~Responsible(s) => stops[s] # {}

(* The initial state has the right types. *)
LEMMA TypeInit == Init => TypeInv
<1> USE EntryAssumption
<1> SUFFICES ASSUME Init PROVE TypeInv
  OBVIOUS
<1>1. /\ caller \in [Entries -> {"idle", "preparing", "submitting", "done"}]
      /\ order \in [Entries -> OrderStates]
      /\ exec \in [Entries -> Nat]
      /\ pos \in [Symbols -> Nat]
      /\ stops \in [Symbols -> SUBSET Legs]
      /\ tps \in [Symbols -> SUBSET Legs]
      /\ held \in Nat /\ legsQty \in Nat
  BY DEF Init, OrderStates
<1>2. tracked \in BOOLEAN /\ cancelSent \in BOOLEAN /\ expired \in BOOLEAN
  BY Zenon DEF Init
<1>3. QED
  BY <1>1, <1>2 DEF Init, TypeInv, TypeOK, Steps, Statuses

(* Every action of the caller, the tracker, the venue and the operator     *)
(* keeps each variable in its domain.                                      *)
LEMMA TypeStep == TypeInv /\ [Next]_vars => TypeInv'
<1> USE EntryAssumption
<1> SUFFICES ASSUME TypeInv, [Next]_vars PROVE TypeInv'
  OBVIOUS
<1> USE DEF TypeInv, TypeOK, Steps, Statuses, OrderStates, slotVars, ctxVars, localVars, orderVars, legVars
<1>1. ASSUME NEW e \in Entries, Reserve(e) PROVE TypeInv'
  BY <1>1 DEF Reserve
<1>2. ASSUME NEW e \in Entries, PrepareFails(e) PROVE TypeInv'
  BY <1>2 DEF PrepareFails, Release
<1>3. ASSUME NEW e \in Entries, Submit(e) PROVE TypeInv'
  BY <1>3 DEF Submit
<1>4. ASSUME NEW e \in Entries, SubmitAnswered(e) PROVE TypeInv'
  BY <1>4 DEF SubmitAnswered, Track, FreshCtx
<1>5. ASSUME NEW e \in Entries, SubmitRefused(e) PROVE TypeInv'
  BY <1>5 DEF SubmitRefused, Release
<1>6. ASSUME NEW e \in Entries, SubmitTimesOut(e) PROVE TypeInv'
  BY <1>6 DEF SubmitTimesOut, Track, FreshCtx
<1>7. CASE ReadOrder
  BY <1>7 DEF ReadOrder, orderState
<1>8. CASE ReadPosition
  BY <1>8 DEF ReadPosition, Sym, Tracking
<1>9. CASE ReadFails
  BY <1>9 DEF ReadFails, Sleep, FreshLocals
<1>10. CASE PlaceStop
  <2>1. PICK n \in FreeLegs : stops' = [stops EXCEPT ![Sym] = @ \cup {n}] /\ pair' = n
    BY <1>10 DEF PlaceStop
  <2>2. n \in Legs /\ pair' \in Legs /\ stops' \in [Symbols -> SUBSET Legs]
    BY <1>10, <2>1 DEF PlaceStop, FreeLegs, Sym, Tracking
  <2>3. CASE slot \in WithTp
    BY <1>10, <2>2, <2>3 DEF PlaceStop
  <2>4. CASE slot \notin WithTp
    BY <1>10, <2>2, <2>4 DEF PlaceStop, LegsPlaced
  <2>5. QED
    BY <2>3, <2>4
<1>11. CASE PlaceStopFails
  <2>1. stops' \in [Symbols -> SUBSET Legs]
    BY <1>11 DEF PlaceStopFails, FreeLegs, Sym, Tracking
  <2>2. QED
    BY <1>11, <2>1 DEF PlaceStopFails
<1>12. CASE PlaceTp
  BY <1>12 DEF PlaceTp, LegsPlaced, Sym, Tracking
<1>13. CASE PlaceTpFails
  BY <1>13 DEF PlaceTpFails, Sym, Tracking
<1>14. CASE EmergencyClose
  BY <1>14 DEF EmergencyClose, Reduced, Sym, Tracking
<1>15. CASE CancelAllOpen
  BY <1>15 DEF CancelAllOpen, CancelAllOf, Sym, Tracking
<1>16. CASE CancelAllOpenFails
  BY <1>16 DEF CancelAllOpenFails, CancelAllOf, Sleep, FreshLocals, Sym, Tracking
<1>17. CASE Flatten
  BY <1>17 DEF Flatten, Reduced, Sym, Tracking
<1>18. CASE FlattenFails
  BY <1>18 DEF FlattenFails, Reduced, Sleep, FreshLocals, Sym, Tracking
<1>19. CASE CancelStale
  BY <1>19 DEF CancelStale, Sym, Tracking
<1>20. CASE CancelStaleFails
  BY <1>20 DEF CancelStaleFails, Sym, Tracking
<1>21. CASE StaleDone
  BY <1>21 DEF StaleDone
<1>22. CASE Resolve
  BY <1>22 DEF Resolve, FreshCtx, FreshLocals
<1>23. CASE NotResolved
  BY <1>23 DEF NotResolved, Sleep, FreshLocals
<1>24. CASE CancelEntry
  BY <1>24 DEF CancelEntry, Sleep, FreshLocals, Tracking
<1>25. CASE CancelEntryFails
  BY <1>25 DEF CancelEntryFails, Sleep, FreshLocals, Tracking
<1>26. CASE Wake
  BY <1>26 DEF Wake
<1>27. CASE Expire
  BY <1>27 DEF Expire
<1>28. ASSUME NEW e \in Entries, Arrive(e) PROVE TypeInv'
  BY <1>28 DEF Arrive
<1>29. ASSUME NEW e \in Entries, Fill(e) PROVE TypeInv'
  BY <1>29 DEF Fill
<1>30. ASSUME NEW e \in Entries, EntryCancelled(e) PROVE TypeInv'
  BY <1>30 DEF EntryCancelled
<1>31. ASSUME NEW s \in Symbols, Trigger(s) PROVE TypeInv'
  BY <1>31 DEF Trigger
<1>32. ASSUME NEW s \in Symbols, OperatorClose(s) PROVE TypeInv'
  BY <1>32 DEF OperatorClose
<1>33. ASSUME NEW s \in Symbols, OperatorCancelAll(s) PROVE TypeInv'
  BY <1>33 DEF OperatorCancelAll, CancelAllOf
<1>34. CASE UNCHANGED vars
  BY <1>34 DEF vars
<1>35. QED
  BY <1>1, <1>2, <1>3, <1>4, <1>5, <1>6, <1>7, <1>8, <1>9, <1>10, <1>11, <1>12,
     <1>13, <1>14, <1>15, <1>16, <1>17, <1>18, <1>19, <1>20, <1>21, <1>22, <1>23,
     <1>24, <1>25, <1>26, <1>27, <1>28, <1>29, <1>30, <1>31, <1>32, <1>33, <1>34
     DEF Next, SubmitNext, StepOk, StepFails, VenueNext, OperatorNext, Terminated

(* The type invariant holds in every reachable state.                      *)
THEOREM TypeCorrect == Spec => []TypeOK
<1>1. TypeInv => TypeOK
  BY DEF TypeInv
<1>2. QED
  BY TypeInit, TypeStep, <1>1, PTL DEF Spec

(* The initial state of the slot. *)
LEMMA SlotInit == Init => SlotInv
BY EntryAssumption DEF Init, SlotInv, AfterOrder, Steps

(* Every action keeps the slot consistent with the orders that can still   *)
(* fill, when an unanswered submit has settled before it times out.        *)
LEMMA SlotStep ==
  ASSUME "late_submit" \notin Env, TypeInv, SlotInv, [Next]_vars
  PROVE  SlotInv'
<1> USE EntryAssumption DEF TypeInv, TypeOK, SlotInv, AfterOrder, Steps, OrderStates, isWorking,
        Tracking, Sym, slotVars, ctxVars, localVars, orderVars, legVars
<1>1. ASSUME NEW e \in Entries, Reserve(e) PROVE SlotInv'
  BY <1>1 DEF Reserve
<1>2. ASSUME NEW e \in Entries, PrepareFails(e) PROVE SlotInv'
  BY <1>2 DEF PrepareFails, Release
<1>3. ASSUME NEW e \in Entries, Submit(e) PROVE SlotInv'
  BY <1>3 DEF Submit
<1>4. ASSUME NEW e \in Entries, SubmitAnswered(e) PROVE SlotInv'
  BY <1>4 DEF SubmitAnswered, Track, FreshCtx
<1>5. ASSUME NEW e \in Entries, SubmitRefused(e) PROVE SlotInv'
  BY <1>5 DEF SubmitRefused, Release
<1>6. ASSUME NEW e \in Entries, SubmitTimesOut(e) PROVE SlotInv'
  BY <1>6 DEF SubmitTimesOut, Track, FreshCtx
<1>7. CASE ReadOrder
  BY <1>7 DEF ReadOrder, orderState
<1>8. CASE ReadPosition
  BY <1>8 DEF ReadPosition
<1>9. CASE ReadFails
  BY <1>9 DEF ReadFails, Sleep, FreshLocals
<1>10. CASE PlaceStop
  BY <1>10 DEF PlaceStop, LegsPlaced
<1>11. CASE PlaceStopFails
  BY <1>11 DEF PlaceStopFails
<1>12. CASE PlaceTp
  BY <1>12 DEF PlaceTp, LegsPlaced
<1>13. CASE PlaceTpFails
  BY <1>13 DEF PlaceTpFails
<1>14. CASE EmergencyClose
  BY <1>14 DEF EmergencyClose
<1>15. CASE CancelAllOpen
  BY <1>15 DEF CancelAllOpen, CancelAllOf
<1>16. CASE CancelAllOpenFails
  BY <1>16 DEF CancelAllOpenFails, CancelAllOf, Sleep, FreshLocals
<1>17. CASE Flatten
  BY <1>17 DEF Flatten
<1>18. CASE FlattenFails
  BY <1>18 DEF FlattenFails, Sleep, FreshLocals
<1>19. CASE CancelStale
  BY <1>19 DEF CancelStale
<1>20. CASE CancelStaleFails
  BY <1>20 DEF CancelStaleFails
<1>21. CASE StaleDone
  BY <1>21 DEF StaleDone
<1>22. CASE Resolve
  BY <1>22 DEF Resolve, resolved, FreshCtx, FreshLocals
<1>23. CASE NotResolved
  BY <1>23 DEF NotResolved, Sleep, FreshLocals
<1>24. CASE CancelEntry
  BY <1>24 DEF CancelEntry, Sleep, FreshLocals
<1>25. CASE CancelEntryFails
  BY <1>25 DEF CancelEntryFails, Sleep, FreshLocals
<1>26. CASE Wake
  BY <1>26 DEF Wake
<1>27. CASE Expire
  BY <1>27 DEF Expire
<1>28. ASSUME NEW e \in Entries, Arrive(e) PROVE SlotInv'
  BY <1>28 DEF Arrive
<1>29. ASSUME NEW e \in Entries, Fill(e) PROVE SlotInv'
  BY <1>29 DEF Fill
<1>30. ASSUME NEW e \in Entries, EntryCancelled(e) PROVE SlotInv'
  BY <1>30 DEF EntryCancelled
<1>31. ASSUME NEW s \in Symbols, Trigger(s) PROVE SlotInv'
  BY <1>31 DEF Trigger, EntryWorking
<1>32. ASSUME NEW s \in Symbols, OperatorClose(s) PROVE SlotInv'
  BY <1>32 DEF OperatorClose
<1>33. ASSUME NEW s \in Symbols, OperatorCancelAll(s) PROVE SlotInv'
  BY <1>33 DEF OperatorCancelAll, CancelAllOf
<1>34. CASE UNCHANGED vars
  BY <1>34 DEF vars
<1>35. QED
  BY <1>1, <1>2, <1>3, <1>4, <1>5, <1>6, <1>7, <1>8, <1>9, <1>10, <1>11, <1>12, <1>13, <1>14, <1>15, <1>16, <1>17, <1>18, <1>19, <1>20, <1>21, <1>22, <1>23, <1>24, <1>25, <1>26, <1>27, <1>28, <1>29, <1>30, <1>31, <1>32, <1>33, <1>34
     DEF Next, SubmitNext, StepOk, StepFails, VenueNext, OperatorNext, Terminated

(* A new leg pair is none of those the context refers to.                  *)
LEMMA FreshPair == \A n \in FreeLegs : n \in Legs /\ n \notin stale /\ n # legs
BY DEF FreeLegs

(* The initial state of the context. *)
LEMMA LegsInit == Init => LegsInv
BY EntryAssumption DEF Init, LegsInv, AfterOrder, AfterPosition, Steps, Responsible, holds

(* Every action keeps the tracker's context true of the venue, when the    *)
(* environment only loses answers to placements.                           *)
LEMMA LegsStep ==
  ASSUME Env \subseteq {"lost_place"}, TypeInv, SlotInv, LegsInv, [Next]_vars
  PROVE  LegsInv'
<1> USE EntryAssumption DEF TypeInv, TypeOK, SlotInv, LegsInv, AfterOrder, AfterPosition, Steps,
        OrderStates, isWorking, Tracking, Sym, Covered, Responsible, holds,
        slotVars, ctxVars, localVars, orderVars, legVars
<1>1. ASSUME NEW e \in Entries, Reserve(e) PROVE LegsInv'
  BY <1>1 DEF Reserve
<1>2. ASSUME NEW e \in Entries, PrepareFails(e) PROVE LegsInv'
  BY <1>2 DEF PrepareFails, Release
<1>3. ASSUME NEW e \in Entries, Submit(e) PROVE LegsInv'
  BY <1>3 DEF Submit
<1>4. ASSUME NEW e \in Entries, SubmitAnswered(e) PROVE LegsInv'
  BY <1>4 DEF SubmitAnswered, Track, FreshCtx
<1>5. ASSUME NEW e \in Entries, SubmitRefused(e) PROVE LegsInv'
  BY <1>5 DEF SubmitRefused, Release
<1>6. ASSUME NEW e \in Entries, SubmitTimesOut(e) PROVE LegsInv'
  BY <1>6 DEF SubmitTimesOut, Track, FreshCtx
<1>7. CASE ReadOrder
  BY <1>7 DEF ReadOrder
<1>8. CASE ReadPosition
  BY <1>8 DEF ReadPosition
<1>9. CASE ReadFails
  BY <1>9 DEF ReadFails, Sleep, FreshLocals
<1>10. CASE PlaceStop
  <2>1. PICK n \in FreeLegs : stops' = [stops EXCEPT ![Sym] = @ \cup {n}] /\ pair' = n
    BY <1>10 DEF PlaceStop
  <2>2. /\ n \in Legs /\ n \notin stale /\ n # legs
        /\ n \in stops'[Sym] /\ stops[Sym] \subseteq stops'[Sym]
        /\ \A s \in Symbols : s # Sym => stops'[s] = stops[s]
    BY <1>10, <2>1, FreshPair DEF PlaceStop
  <2>3. CASE slot \in WithTp
    BY <1>10, <2>1, <2>2, <2>3 DEF PlaceStop
  <2>4. CASE slot \notin WithTp
    BY <1>10, <2>1, <2>2, <2>4 DEF PlaceStop, LegsPlaced
  <2>5. QED
    BY <2>3, <2>4
<1>11. CASE PlaceStopFails
  BY <1>11 DEF PlaceStopFails
<1>12. CASE PlaceTp
  BY <1>12 DEF PlaceTp, LegsPlaced
<1>13. CASE PlaceTpFails
  BY <1>13 DEF PlaceTpFails
<1>14. CASE EmergencyClose
  BY <1>14 DEF EmergencyClose, Reduced
<1>15. CASE CancelAllOpen
  BY <1>15 DEF CancelAllOpen, CancelAllOf
<1>16. CASE CancelAllOpenFails
  BY <1>16 DEF CancelAllOpenFails, Sleep, FreshLocals
<1>17. CASE Flatten
  BY <1>17 DEF Flatten, Reduced
<1>18. CASE FlattenFails
  BY <1>18 DEF FlattenFails, Sleep, FreshLocals
<1>19. CASE CancelStale
  BY <1>19 DEF CancelStale
<1>20. CASE CancelStaleFails
  BY <1>20 DEF CancelStaleFails
<1>21. CASE StaleDone
  BY <1>21 DEF StaleDone
<1>22. CASE Resolve
  BY <1>22 DEF Resolve, resolved, FreshCtx, FreshLocals
<1>23. CASE NotResolved
  BY <1>23 DEF NotResolved, Sleep, FreshLocals
<1>24. CASE CancelEntry
  BY <1>24 DEF CancelEntry, Sleep, FreshLocals
<1>25. CASE CancelEntryFails
  BY <1>25 DEF CancelEntryFails, Sleep, FreshLocals
<1>26. CASE Wake
  BY <1>26 DEF Wake
<1>27. CASE Expire
  BY <1>27 DEF Expire
<1>28. ASSUME NEW e \in Entries, Arrive(e) PROVE LegsInv'
  BY <1>28 DEF Arrive
<1>29. ASSUME NEW e \in Entries, Fill(e) PROVE LegsInv'
  BY <1>29 DEF Fill
<1>30. ASSUME NEW e \in Entries, EntryCancelled(e) PROVE LegsInv'
  BY <1>30 DEF EntryCancelled
<1>31. ASSUME NEW s \in Symbols, Trigger(s) PROVE LegsInv'
  BY <1>31 DEF Trigger, EntryWorking
<1>32. ASSUME NEW s \in Symbols, OperatorClose(s) PROVE LegsInv'
  BY <1>32 DEF OperatorClose
<1>33. ASSUME NEW s \in Symbols, OperatorCancelAll(s) PROVE LegsInv'
  BY <1>33 DEF OperatorCancelAll
<1>34. CASE UNCHANGED vars
  BY <1>34 DEF vars
<1>35. QED
  BY <1>1, <1>2, <1>3, <1>4, <1>5, <1>6, <1>7, <1>8, <1>9, <1>10, <1>11, <1>12, <1>13, <1>14, <1>15, <1>16, <1>17, <1>18, <1>19, <1>20, <1>21, <1>22, <1>23, <1>24, <1>25, <1>26, <1>27, <1>28, <1>29, <1>30, <1>31, <1>32, <1>33, <1>34
     DEF Next, SubmitNext, StepOk, StepFails, VenueNext, OperatorNext, Terminated

(* Two entry orders can never both still fill, whatever fails, as long as  *)
(* a submit that times out has either landed or is lost.                   *)
THEOREM SingleExposureHolds ==
  ASSUME "late_submit" \notin Env
  PROVE  Spec => []SingleExposure
<1>1. TypeInv /\ SlotInv /\ [Next]_vars => TypeInv' /\ SlotInv'
  BY TypeStep, SlotStep
<1>2. TypeInv /\ SlotInv => SingleExposure
  BY DEF SlotInv, SingleExposure
<1>3. QED
  BY TypeInit, SlotInit, <1>1, <1>2, PTL DEF Spec

(* The tracker's inductive invariant.                                      *)
LEMMA Inductive ==
  ASSUME Env \subseteq {"lost_place"}
  PROVE  Spec => [](TypeInv /\ SlotInv /\ LegsInv)
<1>1. "late_submit" \notin Env
  OBVIOUS
<1>2. TypeInv /\ SlotInv /\ LegsInv /\ [Next]_vars => TypeInv' /\ SlotInv' /\ LegsInv'
  BY <1>1, TypeStep, SlotStep, LegsStep
<1>3. QED
  BY TypeInit, SlotInit, LegsInit, <1>2, PTL DEF Spec

(* A position whose symbol has no entry in progress has a stop resting at  *)
(* the venue: no partial fill, refused or lost placement, failed read or   *)
(* failed cancel lets the tracker resolve an unprotected position.         *)
THEOREM ResolvedProtectedHolds ==
  ASSUME Env \subseteq {"lost_place"}
  PROVE  Spec => []ResolvedProtected
<1>1. LegsInv => ResolvedProtected
  BY DEF LegsInv, ResolvedProtected, Responsible
<1>2. QED
  BY Inductive, <1>1, PTL

(* The tracker takes the last stop of an open position away only in the    *)
(* cleanup of a failed protection or after a flat read.                    *)
THEOREM NeverUncoveredHolds ==
  ASSUME Env \subseteq {"lost_place"}
  PROVE  Spec => NeverUncovered
<1> DEFINE Kept(s) ==
      pos[s] > 0 /\ stops[s] # {} /\ stops'[s] = {} =>
        \/ pos'[s] = 0
        \/ holds(s) /\ pc = "cancelall"
        \/ holds(s) /\ pc = "stale" /\ held = 0
<1>1. TypeInv /\ SlotInv /\ LegsInv /\ [Next]_vars => [\A s \in Symbols : Kept(s)]_vars
  <2> SUFFICES ASSUME TypeInv, SlotInv, LegsInv, Next, NEW s \in Symbols PROVE Kept(s)
    BY DEF vars
  <2> USE EntryAssumption DEF TypeInv, TypeOK, SlotInv, LegsInv, Tracking, Sym, Covered, holds
  <2>1. CASE StepOk
    <3>1. CASE PlaceStop
      BY <3>1 DEF PlaceStop, legVars
    <3>2. CASE CancelAllOpen
      BY <3>2 DEF CancelAllOpen, CancelAllOf
    <3>3. CASE CancelStale
      BY <3>3 DEF CancelStale
    <3>4. CASE stops' = stops
      BY <3>4
    <3>5. QED
      BY <2>1, <3>1, <3>2, <3>3, <3>4 DEF StepOk, ReadOrder, ReadPosition, PlaceTp, EmergencyClose,
         Flatten, StaleDone, Resolve, NotResolved, CancelEntry, Wake, legVars
  <2>2. CASE StepFails
    <3>1. CASE PlaceStopFails
      BY <3>1 DEF PlaceStopFails
    <3>2. CASE CancelAllOpenFails
      BY <3>2 DEF CancelAllOpenFails, legVars
    <3>3. CASE CancelStaleFails
      BY <3>3 DEF CancelStaleFails, legVars
    <3>4. CASE stops' = stops
      BY <3>4
    <3>5. QED
      BY <2>2, <3>1, <3>2, <3>3, <3>4 DEF StepFails, ReadFails, PlaceTpFails, FlattenFails,
         CancelEntryFails, legVars
  <2>3. CASE SubmitNext
    BY <2>3 DEF SubmitNext, Reserve, PrepareFails, Submit, SubmitAnswered, SubmitRefused,
       SubmitTimesOut, legVars
  <2>4. CASE VenueNext
    BY <2>4 DEF VenueNext, Arrive, Fill, EntryCancelled, Trigger, legVars
  <2>5. CASE Expire \/ Terminated
    BY <2>5 DEF Expire, Terminated, vars, legVars
  <2>6. CASE OperatorNext
    BY <2>6 DEF OperatorNext, OperatorClose, OperatorCancelAll
  <2>7. QED
    BY <2>1, <2>2, <2>3, <2>4, <2>5, <2>6 DEF Next
<1>2. QED
  BY Inductive, <1>1, PTL DEF Spec, NeverUncovered
(* The legs of an entry without a take-profit whose symbol no other entry  *)
(* uses: before it is tracked there are none, while it is tracked every    *)
(* resting stop is one the context knows of, and the cleanup forgets the   *)
(* context only after every leg is gone.                                   *)
LeftInv ==
  /\ tracked => slot \in Entries /\ caller[slot] = "done"
  /\ tracked <=> pc # "idle"
  /\ pc # "tp"
  /\ \A e \in Entries : caller[e] \in {"preparing", "submitting"} => slot = e /\ ~tracked
  /\ \A e \in Entries : slot = e /\ ~tracked => caller[e] # "done"
  /\ \A e \in Entries : caller[e] # "done" => stops[SymbolOf[e]] = {}
  /\ tracked => stops[Sym] \subseteq stale \cup {legs}
  /\ pc = "flatten" => stops[Sym] = {}
  /\ \A s \in Symbols : tps[s] = {}
  /\ \A s \in Symbols : ~holds(s) => \A m, n \in stops[s] : m = n

(* No entry has begun and no leg rests.                                    *)
LEMMA LeftInit == Init => LeftInv
BY EntryAssumption DEF Init, LeftInv, holds

(* Every action of the caller, the tracker, the venue and the operator     *)
(* keeps the resting stops among those the context knows of.               *)
LEMMA LeftStep ==
  ASSUME "lost_place" \notin Env, WithTp = {}, \A e, f \in Entries : SymbolOf[e] = SymbolOf[f] => e = f,
         TypeInv, LeftInv, [Next]_vars
  PROVE  LeftInv'
<1> USE EntryAssumption DEF TypeInv, TypeOK, LeftInv, Steps, Tracking, Sym, holds,
        slotVars, ctxVars, localVars, orderVars, legVars
<1>1. ASSUME NEW e \in Entries, Reserve(e) PROVE LeftInv'
  BY <1>1 DEF Reserve
<1>2. ASSUME NEW e \in Entries, PrepareFails(e) PROVE LeftInv'
  BY <1>2 DEF PrepareFails, Release
<1>3. ASSUME NEW e \in Entries, Submit(e) PROVE LeftInv'
  BY <1>3 DEF Submit
<1>4. ASSUME NEW e \in Entries, SubmitAnswered(e) PROVE LeftInv'
  BY <1>4 DEF SubmitAnswered, Track, FreshCtx
<1>5. ASSUME NEW e \in Entries, SubmitRefused(e) PROVE LeftInv'
  BY <1>5 DEF SubmitRefused, Release
<1>6. ASSUME NEW e \in Entries, SubmitTimesOut(e) PROVE LeftInv'
  BY <1>6 DEF SubmitTimesOut, Track, FreshCtx
<1>7. CASE ReadOrder
  BY <1>7 DEF ReadOrder
<1>8. CASE ReadPosition
  BY <1>8 DEF ReadPosition
<1>9. CASE ReadFails
  BY <1>9 DEF ReadFails, Sleep, FreshLocals
<1>10. CASE PlaceStop
  BY <1>10 DEF PlaceStop, LegsPlaced
<1>11. CASE PlaceStopFails
  BY <1>11 DEF PlaceStopFails
<1>12. CASE PlaceTp
  BY <1>12 DEF PlaceTp, LegsPlaced
<1>13. CASE PlaceTpFails
  BY <1>13 DEF PlaceTpFails
<1>14. CASE EmergencyClose
  BY <1>14 DEF EmergencyClose
<1>15. CASE CancelAllOpen
  BY <1>15 DEF CancelAllOpen, CancelAllOf
<1>16. CASE CancelAllOpenFails
  BY <1>16 DEF CancelAllOpenFails, CancelAllOf, Sleep, FreshLocals
<1>17. CASE Flatten
  BY <1>17 DEF Flatten
<1>18. CASE FlattenFails
  BY <1>18 DEF FlattenFails, Sleep, FreshLocals
<1>19. CASE CancelStale
  BY <1>19 DEF CancelStale
<1>20. CASE CancelStaleFails
  BY <1>20 DEF CancelStaleFails
<1>21. CASE StaleDone
  BY <1>21 DEF StaleDone
<1>22. CASE Resolve
  BY <1>22 DEF Resolve, resolved, FreshCtx, FreshLocals
<1>23. CASE NotResolved
  BY <1>23 DEF NotResolved, Sleep, FreshLocals
<1>24. CASE CancelEntry
  BY <1>24 DEF CancelEntry, Sleep, FreshLocals
<1>25. CASE CancelEntryFails
  BY <1>25 DEF CancelEntryFails, Sleep, FreshLocals
<1>26. CASE Wake
  BY <1>26 DEF Wake
<1>27. CASE Expire
  BY <1>27 DEF Expire
<1>28. ASSUME NEW e \in Entries, Arrive(e) PROVE LeftInv'
  BY <1>28 DEF Arrive
<1>29. ASSUME NEW e \in Entries, Fill(e) PROVE LeftInv'
  BY <1>29 DEF Fill
<1>30. ASSUME NEW e \in Entries, EntryCancelled(e) PROVE LeftInv'
  BY <1>30 DEF EntryCancelled
<1>31. ASSUME NEW s \in Symbols, Trigger(s) PROVE LeftInv'
  BY <1>31 DEF Trigger
<1>32. ASSUME NEW s \in Symbols, OperatorClose(s) PROVE LeftInv'
  BY <1>32 DEF OperatorClose
<1>33. ASSUME NEW s \in Symbols, OperatorCancelAll(s) PROVE LeftInv'
  BY <1>33 DEF OperatorCancelAll, CancelAllOf
<1>34. CASE UNCHANGED vars
  BY <1>34 DEF vars
<1>35. QED
  BY <1>1, <1>2, <1>3, <1>4, <1>5, <1>6, <1>7, <1>8, <1>9, <1>10, <1>11, <1>12,
     <1>13, <1>14, <1>15, <1>16, <1>17, <1>18, <1>19, <1>20, <1>21, <1>22, <1>23, <1>24,
     <1>25, <1>26, <1>27, <1>28, <1>29, <1>30, <1>31, <1>32, <1>33, <1>34
     DEF Next, SubmitNext, StepOk, StepFails, VenueNext, OperatorNext, Terminated

(* Where a symbol is entered once, without a take-profit, and a placement  *)
(* reported lost is lost, at most one stop is left when the entry is       *)
(* resolved: triggers, operator closes, cleanups and cancels that fail     *)
(* after taking effect and late submits leave no superseded leg behind.    *)
THEOREM NoLegLeftBehindHolds ==
  ASSUME "lost_place" \notin Env, WithTp = {}, \A e, f \in Entries : SymbolOf[e] = SymbolOf[f] => e = f
  PROVE  Spec => []NoLegLeftBehind
<1>1. TypeInv /\ LeftInv /\ [Next]_vars => TypeInv' /\ LeftInv'
  BY TypeStep, LeftStep
<1>2. LeftInv => NoLegLeftBehind
  BY DEF LeftInv, NoLegLeftBehind
<1>3. QED
  BY TypeInit, LeftInit, <1>1, <1>2, PTL DEF Spec
=============================================================================
