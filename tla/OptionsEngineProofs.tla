------------------------ MODULE OptionsEngineProofs ------------------------
(***************************************************************************)
(* Proofs about OptionsEngine, for every set of underlyings, every order   *)
(* size and cap.  Types and transitions are right in every world: crashes, *)
(* lost and late requests, thin books, failed saves and either venue, in   *)
(* any combination.  The accounting holds in the worlds that Sound and     *)
(* Exact describe.                                                         *)
(***************************************************************************)
EXTENDS OptionsEngine, FiniteSetTheorems, TLAPS

(* An exit of unknown outcome belongs to a position that is being closed:  *)
(* resolving it fires an exit event, which is illegal in any other state.  *)
GoodSlot == {s \in Slots : s.unresolved # 0 => s.st = "EXIT_PENDING"}

(* What the step in progress may rely on after its awaits: the slot is     *)
(* still in the state it left it in.                                       *)
InStep(point, states) == pc = point => cur \in Underlyings /\ slot[cur].st \in states

StepInv ==
  /\ slot \in [Underlyings -> GoodSlot] /\ disk \in [Underlyings -> GoodSlot]
  /\ pc = "start" => snap \in [Underlyings -> Nat]
  /\ InStep("signal", {"SIGNAL_DETECTED"})
  /\ InStep("buy", {"ENTRY_PENDING"})
  /\ InStep("sell", {"EXIT_PENDING"})
  /\ InStep("answer", {"ENTRY_PENDING", "EXIT_PENDING"})

OInv == TypeOK /\ StepInv

(* The transitions the engine fires, one fact per row of the table.        *)
LEMMA Rows ==
  /\ transition("IDLE", "SIGNAL") = "SIGNAL_DETECTED"
  /\ transition("IDLE", "ADOPT") = "POSITION_OPEN"
  /\ transition("SIGNAL_DETECTED", "REJECT") = "IDLE"
  /\ transition("SIGNAL_DETECTED", "SUBMIT") = "ENTRY_PENDING"
  /\ transition("ENTRY_PENDING", "FILL") = "POSITION_OPEN"
  /\ transition("ENTRY_PENDING", "NO_FILL") = "IDLE"
  /\ transition("POSITION_OPEN", "EXIT_TRIGGER") = "EXIT_PENDING"
  /\ transition("POSITION_OPEN", "EXTERNAL_CLOSE") = "POSITION_CLOSED"
  /\ transition("EXIT_PENDING", "PARTIAL_EXIT") = "EXIT_PENDING"
  /\ transition("EXIT_PENDING", "EXIT_RETRY") = "EXIT_PENDING"
  /\ transition("EXIT_PENDING", "EXIT_FILL") = "POSITION_CLOSED"
  /\ transition("EXIT_PENDING", "EXTERNAL_CLOSE") = "POSITION_CLOSED"
  /\ transition("POSITION_CLOSED", "RESET") = "IDLE"
BY DEF transition, TRANSITIONS, States

(* What the engine makes of a slot is again a good slot.                   *)
LEMMA NoFillGood ==
  ASSUME NEW s \in GoodSlot, s.st = "ENTRY_PENDING"
  PROVE  NoFill(s) \in GoodSlot
BY Rows DEF GoodSlot, Slots, States, NoFill, fire

(* The same, of an entry that filled n lots.                               *)
LEMMA FillGood ==
  ASSUME NEW s \in GoodSlot, s.st = "ENTRY_PENDING", NEW n \in Nat
  PROVE  Fill(s, n) \in GoodSlot /\ applyEntryResult(s, n) \in GoodSlot
BY Rows, NoFillGood DEF GoodSlot, Slots, States, Fill, fire, applyEntryResult

(* The same, of a position that is closed by an event legal in its state.  *)
LEMMA CloseOutGood ==
  ASSUME NEW s \in Slots, NEW event, transition(s.st, event) \in States
  PROVE  closeOut(s, event) \in GoodSlot
BY DEF GoodSlot, Slots, closeOut, WithoutPosition, fire

(* The fields an exit touches.                                             *)
LEMMA Updated ==
  ASSUME NEW s \in Slots, NEW u \in Nat, NEW a \in Nat, NEW b \in Nat, NEW q \in Nat
  PROVE  [s EXCEPT !.unresolved = u, !.attempts = a, !.booked = b, !.qty = q] \in Slots
BY DEF Slots

(* The same, of an answered exit.                                          *)
LEMMA ExitGood ==
  ASSUME NEW s \in GoodSlot, s.st = "EXIT_PENDING", NEW n \in Nat
  PROVE  applyExitResult(s, n) \in GoodSlot
<1> DEFINE f == Least(n, s.qty)
           t == [s EXCEPT !.unresolved = 0, !.attempts = @ + 1, !.booked = @ + f, !.qty = @ - f]
<1>1. s \in Slots
  BY DEF GoodSlot
<1>2. f \in Nat /\ s.qty - f \in Nat /\ s.booked + f \in Nat /\ s.attempts + 1 \in Nat
  BY <1>1 DEF Slots, Least
<1> HIDE DEF f
<1>3. t \in Slots
  BY <1>1, <1>2, Updated
<1>4. t.st = "EXIT_PENDING" /\ t.unresolved = 0
  BY <1>1 DEF Slots
<1> HIDE DEF t
<1>5. fire(t, "EXIT_RETRY") \in GoodSlot /\ fire(t, "PARTIAL_EXIT") \in GoodSlot
  BY <1>3, <1>4, Rows DEF GoodSlot, Slots, States, fire
<1>6. closeOut(t, "EXIT_FILL") \in GoodSlot
  <2>1. transition(t.st, "EXIT_FILL") \in States
    BY <1>4, Rows DEF States
  <2>2. QED
    BY <1>3, <2>1, CloseOutGood
<1>7. QED
  BY <1>5, <1>6 DEF applyExitResult, f, t

(* The same, of an exit that failed.                                       *)
LEMMA ExitFailedGood ==
  ASSUME NEW s \in GoodSlot, s.st = "EXIT_PENDING"
  PROVE  exitFailed(s) \in GoodSlot
<1>1. s.attempts + 1 \in Nat
  BY DEF GoodSlot, Slots
<1>2. QED
  BY <1>1, Rows DEF GoodSlot, Slots, States, exitFailed, fire

(* The same, of an exit whose outcome has become unknown.                  *)
LEMMA UnknownGood ==
  ASSUME NEW s \in GoodSlot, s.st = "EXIT_PENDING", NEW k \in Nat
  PROVE  exitFailed([s EXCEPT !.unresolved = k]) \in GoodSlot
<1>1. [s EXCEPT !.unresolved = k] \in GoodSlot /\ [s EXCEPT !.unresolved = k].st = "EXIT_PENDING"
  BY DEF GoodSlot, Slots
<1>2. QED
  BY <1>1, ExitFailedGood

(* A position that is held is being closed once its exit has triggered.    *)
LEMMA TriggeredGood ==
  ASSUME NEW s \in GoodSlot, s.st \in {"POSITION_OPEN", "EXIT_PENDING"}
  PROVE  Triggered(s) \in GoodSlot /\ Triggered(s).st = "EXIT_PENDING"
BY Rows DEF GoodSlot, Slots, States, Triggered, fire

(* An empty slot that adopts what the venue holds.                         *)
LEMMA AdoptFires ==
  ASSUME NEW s \in GoodSlot, s.st = "IDLE"
  PROVE  /\ fire(s, "ADOPT") \in GoodSlot /\ fire(s, "ADOPT").st = "POSITION_OPEN"
         /\ fire(s, "ADOPT").adopted = s.adopted /\ fire(s, "ADOPT").unresolved = 0
<1>1. s.unresolved = 0
  BY DEF GoodSlot, Slots
<1>2. fire(s, "ADOPT") = [s EXCEPT !.st = "POSITION_OPEN"] /\ "POSITION_OPEN" \in States
  BY Rows DEF fire, States
<1>3. QED
  BY <1>1, <1>2 DEF GoodSlot, Slots

(* A signal whose entry is sent.                                           *)
LEMMA SubmitFires ==
  ASSUME NEW s \in GoodSlot, s.st = "SIGNAL_DETECTED", NEW k \in Nat
  PROVE  /\ fire([s EXCEPT !.pending = k], "SUBMIT") \in GoodSlot
         /\ fire([s EXCEPT !.pending = k], "SUBMIT").st = "ENTRY_PENDING"
<1> DEFINE t == [s EXCEPT !.pending = k]
<1>1. t \in Slots /\ t.st = "SIGNAL_DETECTED" /\ t.unresolved = 0
  BY DEF GoodSlot, Slots
<1> HIDE DEF t
<1>2. fire(t, "SUBMIT") = [t EXCEPT !.st = "ENTRY_PENDING"] /\ "ENTRY_PENDING" \in States
  BY <1>1, Rows DEF fire, States
<1>3. fire(t, "SUBMIT") \in GoodSlot /\ fire(t, "SUBMIT").st = "ENTRY_PENDING"
  BY <1>1, <1>2 DEF GoodSlot, Slots
<1>4. QED
  BY <1>3 DEF t

(* The initial states: no step is running, every slot is empty.            *)
LEMMA OInit == Init => OInv
<1> USE OptionsAssumption
<1> SUFFICES ASSUME Init PROVE OInv
  OBVIOUS
<1>1. emptySlot \in GoodSlot
  BY DEF emptySlot, GoodSlot, Slots, States
<1>2. slot \in [Underlyings -> GoodSlot] /\ disk \in [Underlyings -> GoodSlot]
  BY <1>1 DEF Init
<1>3. slot \in [Underlyings -> Slots] /\ disk \in [Underlyings -> Slots]
  BY <1>2 DEF GoodSlot
<1>4. venue \in Venues
  BY DEF Init, Venues
<1>5. due \in [Underlyings -> BOOLEAN]
  BY Zenon DEF Init
<1>6. QED
  BY <1>2, <1>3, <1>4, <1>5 DEF Init, OInv, TypeOK, StepInv, InStep, Points

(* A step of cycle() that ends in a good slot, saved or not.               *)
LEMMA StepToGood ==
  ASSUME OInv, NEW u \in Underlyings, NEW s \in GoodSlot, EndStep(u, s),
         UNCHANGED <<world, venue, requests, crashes>>,
         lastId' \in Nat, due' \in [Underlyings -> BOOLEAN]
  PROVE  OInv'
<1> USE OptionsAssumption
<1>1. slot' \in [Underlyings -> GoodSlot] /\ disk' \in [Underlyings -> GoodSlot]
  BY DEF OInv, StepInv, EndStep, Saved, SaveFails
<1>2. slot' \in [Underlyings -> Slots] /\ disk' \in [Underlyings -> Slots]
  BY <1>1 DEF GoodSlot
<1>3. venue' \in Venues /\ diskVenue' \in Venues
  BY DEF OInv, TypeOK, EndStep, Saved, SaveFails
<1>4. pc' = "cycle" /\ cur' = NoU /\ todo' \subseteq Underlyings /\ snap' \in [Underlyings -> Nat] \cup {NoSnap}
  BY DEF OInv, TypeOK, EndStep
<1>5. TypeOK'
  BY <1>2, <1>3, <1>4 DEF OInv, TypeOK, Points
<1>6. StepInv'
  BY <1>1, <1>4 DEF StepInv, InStep
<1>7. QED
  BY <1>5, <1>6 DEF OInv

(* The same, of a step that leaves the entry counter and the clock alone.  *)
LEMMA StepTo1 ==
  ASSUME OInv, NEW u \in Underlyings, NEW s \in GoodSlot, StepTo(u, s)
  PROVE  OInv'
BY StepToGood DEF StepTo, OInv, TypeOK

(* Every action keeps the invariant.                                       *)
LEMMA OStep == OInv /\ [Next]_vars => OInv'
<1> USE OptionsAssumption
<1> SUFFICES ASSUME OInv, [Next]_vars PROVE OInv'
  OBVIOUS
<1>a. \A u \in Underlyings : slot[u] \in GoodSlot /\ disk[u] \in GoodSlot
  BY DEF OInv, StepInv
<1>b. \A s \in GoodSlot : s \in Slots
  BY DEF GoodSlot
<1>c. \A o \in venue.orders : o.filled \in Nat
  BY DEF OInv, TypeOK, Venues, Orders
<1>1. CASE StartPositions
  <2>1. snap' \in [Underlyings -> Nat]
    BY <1>1 DEF StartPositions, OInv, TypeOK, Venues
  <2>2. QED
    BY <1>1, <2>1 DEF StartPositions, OInv, TypeOK, StepInv, InStep, Points
<1>2. CASE StartReconcile
  <2>1. \A u \in Underlyings : reconciled(u) \in GoodSlot
    <3> SUFFICES ASSUME NEW u \in Underlyings PROVE reconciled(u) \in GoodSlot
      OBVIOUS
    <3>1. snap[u] \in Nat /\ lastId + 1 \in Nat /\ disk[u].adopted + snap[u] \in Nat
      BY <1>2, <1>a, <1>b DEF StartReconcile, OInv, TypeOK, StepInv, Slots
    <3>2. ASSUME disk[u].st = "IDLE" PROVE adopted(u) \in GoodSlot
      <4>1. fire(disk[u], "ADOPT") \in GoodSlot /\ fire(disk[u], "ADOPT").adopted = disk[u].adopted
            /\ fire(disk[u], "ADOPT").st = "POSITION_OPEN" /\ fire(disk[u], "ADOPT").unresolved = 0
        BY <1>a, <3>2, AdoptFires
      <4>2. fire(disk[u], "ADOPT").adopted + snap[u] \in Nat
        BY <3>1, <4>1
      <4>3. QED
        BY <3>1, <4>1, <4>2 DEF adopted, GoodSlot, Slots
    <3>3. [disk[u] EXCEPT !.qty = snap[u]] \in GoodSlot
      BY <1>a, <3>1 DEF GoodSlot, Slots
    <3>4. QED
      BY <1>a, <3>2, <3>3 DEF reconciled, Adopts
  <2>2. slot' \in [Underlyings -> GoodSlot] /\ disk' \in [Underlyings -> GoodSlot]
    BY <1>2, <2>1 DEF StartReconcile, Saved
  <2>3. slot' \in [Underlyings -> Slots] /\ disk' \in [Underlyings -> Slots]
    BY <2>2 DEF GoodSlot
  <2>4. diskVenue' \in Venues /\ lastId' \in Nat
    BY <1>2 DEF StartReconcile, Saved, OInv, TypeOK
  <2>5. QED
    BY <1>2, <2>2, <2>3, <2>4 DEF StartReconcile, OInv, TypeOK, StepInv, InStep, Points
<1>3. CASE StartFails
  BY <1>3 DEF StartFails, OInv, TypeOK, StepInv, InStep, Points
<1>4. CASE Positions \/ PositionsUnavailable
  <2>1. todo' \subseteq Underlyings
    BY <1>4 DEF Positions, PositionsUnavailable, BeginCycle, OInv, TypeOK, World
  <2>2. snap' \in [Underlyings -> Nat] \cup {NoSnap}
    BY <1>4 DEF Positions, PositionsUnavailable, BeginCycle, OInv, TypeOK, Venues
  <2>3. QED
    BY <1>4, <2>1, <2>2 DEF Positions, PositionsUnavailable, BeginCycle, OInv, TypeOK, StepInv, InStep
<1>5. ASSUME NEW u \in Underlyings, NothingToDo(u) PROVE OInv'
  BY <1>5, <1>a, StepTo1 DEF NothingToDo
<1>6. ASSUME NEW u \in Underlyings, Reset(u) PROVE OInv'
  <2>1. fire(slot[u], "RESET") \in GoodSlot
    BY <1>6, <1>a, Rows DEF Reset, fire, GoodSlot, Slots, States
  <2>2. QED
    BY <1>6, <2>1, StepTo1 DEF Reset
<1>7. ASSUME NEW u \in Underlyings, Signal(u) PROVE OInv'
  <2>1. fire(slot[u], "SIGNAL") \in GoodSlot /\ fire(slot[u], "SIGNAL").st = "SIGNAL_DETECTED"
    BY <1>7, <1>a, Rows DEF Signal, fire, GoodSlot, Slots, States
  <2>2. slot' \in [Underlyings -> GoodSlot] /\ slot'[u].st = "SIGNAL_DETECTED"
    BY <1>7, <2>1 DEF Signal, OInv, StepInv
  <2>3. slot' \in [Underlyings -> Slots]
    BY <2>2 DEF GoodSlot
  <2>4. QED
    BY <1>7, <2>2, <2>3 DEF Signal, OInv, TypeOK, StepInv, InStep, Points
<1>8. CASE Reject
  <2>1. cur \in Underlyings /\ fire(slot[cur], "REJECT") \in GoodSlot
    BY <1>8, <1>a, Rows DEF Reject, OInv, StepInv, InStep, fire, GoodSlot, Slots, States
  <2>2. QED
    BY <1>8, <2>1, StepTo1 DEF Reject
<1>9. CASE Submit
  <2>1. cur \in Underlyings /\ slot[cur].st = "SIGNAL_DETECTED" /\ lastId + 1 \in Nat
    BY <1>9 DEF Submit, OInv, TypeOK, StepInv, InStep
  <2>2. submitted(cur) \in GoodSlot /\ submitted(cur).st = "ENTRY_PENDING"
    BY <2>1, <1>a, SubmitFires DEF submitted
  <2>3. lastId' \in Nat
    BY <1>9, <2>1 DEF Submit
  <2>4. due' \in [Underlyings -> BOOLEAN]
    BY <1>9 DEF Submit, OInv, TypeOK
  <2>5. CASE EndStep(cur, submitted(cur))
    BY <1>9, <2>1, <2>2, <2>3, <2>4, <2>5, StepToGood DEF Submit
  <2>6. CASE /\ slot' = [slot EXCEPT ![cur] = submitted(cur)]
             /\ Saved /\ pc' = "buy"
             /\ UNCHANGED <<cur, todo, snap>>
    <3>1. slot' \in [Underlyings -> GoodSlot] /\ slot'[cur].st = "ENTRY_PENDING" /\ disk' = slot'
      BY <2>1, <2>2, <2>6 DEF OInv, StepInv, Saved
    <3>2. slot' \in [Underlyings -> Slots]
      BY <3>1 DEF GoodSlot
    <3>3. diskVenue' \in Venues
      BY <2>6 DEF Saved, OInv, TypeOK
    <3>4. QED
      BY <1>9, <2>1, <2>3, <2>4, <2>6, <3>1, <3>2, <3>3
         DEF Submit, OInv, TypeOK, StepInv, InStep, Points
  <2>7. QED
    BY <1>9, <2>5, <2>6 DEF Submit
<1>10. ASSUME NEW w \in 0..MaxLots, buyToOpen(w) PROVE OInv'
  <2>1. cur \in Underlyings /\ slot[cur].st = "ENTRY_PENDING" /\ slot[cur] \in GoodSlot /\ w \in Nat
    BY <1>10, <1>a DEF buyToOpen, OInv, StepInv, InStep, MaxLots
  <2>2. CASE StepTo(cur, NoFill(slot[cur]))
    BY <2>1, <2>2, NoFillGood, StepTo1
  <2>3. CASE /\ requests' = requests \cup {[id |-> EntryId(cur, slot[cur]), qty |-> w]}
             /\ pc' = "answer"
             /\ UNCHANGED <<world, slot, disk, venue, diskVenue, cur, todo, snap, lastId, due, crashes>>
    <3>1. EntryId(cur, slot[cur]) \in Ids
      BY <2>1 DEF EntryId, Ids, GoodSlot, Slots
    <3>2. requests' \subseteq Requests
      BY <2>1, <2>3, <3>1 DEF OInv, TypeOK, Requests
    <3>3. QED
      BY <2>1, <2>3, <3>2 DEF OInv, TypeOK, StepInv, InStep, Points
  <2>4. QED
    BY <1>10, <2>2, <2>3 DEF buyToOpen
<1>11. CASE EntryAnswer
  <2>1. cur \in Underlyings /\ slot[cur].st = "ENTRY_PENDING" /\ slot[cur] \in GoodSlot
    BY <1>11, <1>a DEF EntryAnswer, OInv, StepInv, InStep
  <2>2. PICK o \in findOrder(Awaited) : StepTo(cur, applyEntryResult(slot[cur], o.filled))
    BY <1>11 DEF EntryAnswer
  <2>3. o.filled \in Nat
    BY <1>c, <2>2 DEF findOrder
  <2>4. QED
    BY <2>1, <2>2, <2>3, FillGood, StepTo1
<1>12. CASE EntryUnknown
  BY <1>12, <1>a, StepTo1 DEF EntryUnknown, OInv, StepInv, InStep
<1>13. ASSUME NEW u \in Underlyings, ResolveEntry(u) PROVE OInv'
  <2>1. slot[u].st = "ENTRY_PENDING" /\ slot[u] \in GoodSlot
    BY <1>13, <1>a DEF ResolveEntry
  <2>2. PICK s \in resolvedEntry(u) : StepTo(u, s)
    BY <1>13 DEF ResolveEntry
  <2>3. \A o \in findOrder(EntryId(u, slot[u])) : applyEntryResult(slot[u], o.filled) \in GoodSlot
    BY <1>c, <2>1, FillGood DEF findOrder
  <2>4. snap # NoSnap => Fill(slot[u], snap[u]) \in GoodSlot
    BY <2>1, FillGood DEF OInv, TypeOK
  <2>5. NoFill(slot[u]) \in GoodSlot
    BY <2>1, NoFillGood
  <2>6. s \in GoodSlot
    BY <2>2, <2>3, <2>4, <2>5 DEF resolvedEntry
  <2>7. QED
    BY <2>2, <2>6, StepTo1
<1>14. ASSUME NEW u \in Underlyings, EntryUnresolved(u) PROVE OInv'
  BY <1>14, <1>a, StepTo1 DEF EntryUnresolved
<1>15. ASSUME NEW u \in Underlyings, GoneByExit(u) PROVE OInv'
  <2>1. slot[u] \in GoodSlot /\ slot[u].st = "EXIT_PENDING" /\ slot[u].qty \in Nat
    BY <1>15, <1>a DEF GoneByExit, GoodSlot, Slots
  <2>2. QED
    BY <1>15, <2>1, ExitGood, StepTo1 DEF GoneByExit
<1>16. ASSUME NEW u \in Underlyings, GoneWrittenOff(u) PROVE OInv'
  <2> DEFINE t == [slot[u] EXCEPT !.writtenOff = @ + slot[u].qty]
  <2>1. slot[u] \in Slots /\ slot[u].st \in {"POSITION_OPEN", "EXIT_PENDING"}
    BY <1>16, <1>a, <1>b DEF GoneWrittenOff, Holding
  <2>2. slot[u].writtenOff + slot[u].qty \in Nat
    BY <2>1 DEF Slots
  <2>3. t \in Slots /\ t.st = slot[u].st
    BY <2>1, <2>2 DEF Slots
  <2> HIDE DEF t
  <2>4. transition(t.st, "EXTERNAL_CLOSE") \in States
    BY <2>1, <2>3, Rows DEF States
  <2>5. closeOut(t, "EXTERNAL_CLOSE") \in GoodSlot
    BY <2>3, <2>4, CloseOutGood
  <2>6. QED
    BY <1>16, <2>5, StepTo1 DEF GoneWrittenOff, t
<1>17. ASSUME NEW u \in Underlyings, GoneUnknown(u) \/ Hold(u) PROVE OInv'
  BY <1>17, <1>a, StepTo1 DEF GoneUnknown, Hold
<1>18. ASSUME NEW u \in Underlyings, NoQuote(u) PROVE OInv'
  <2>1. Triggered(slot[u]) \in GoodSlot /\ Triggered(slot[u]).st = "EXIT_PENDING"
    BY <1>18, <1>a, TriggeredGood DEF NoQuote, Holding
  <2>2. exitFailed(Triggered(slot[u])) \in GoodSlot
    BY <2>1, ExitFailedGood
  <2>3. QED
    BY <1>18, <2>2, StepTo1 DEF NoQuote
<1>19. ASSUME NEW u \in Underlyings, Manage(u) PROVE OInv'
  <2>1. Triggered(slot[u]) \in GoodSlot /\ Triggered(slot[u]).st = "EXIT_PENDING"
    BY <1>19, <1>a, TriggeredGood DEF Manage, Holding
  <2>2. slot' \in [Underlyings -> GoodSlot] /\ slot'[u].st = "EXIT_PENDING"
    BY <1>19, <2>1 DEF Manage, OInv, StepInv
  <2>3. slot' \in [Underlyings -> Slots]
    BY <2>2 DEF GoodSlot
  <2>4. QED
    BY <1>19, <2>2, <2>3 DEF Manage, OInv, TypeOK, StepInv, InStep, Points
<1>20. ASSUME NEW w \in 0..MaxLots, sellToClose(w) PROVE OInv'
  <2>1. cur \in Underlyings /\ slot[cur].st = "EXIT_PENDING" /\ slot[cur] \in GoodSlot /\ w \in Nat
    BY <1>20, <1>a DEF sellToClose, OInv, StepInv, InStep, MaxLots
  <2>2. CASE StepTo(cur, applyExitResult(slot[cur], 0))
    BY <2>1, <2>2, ExitGood, StepTo1
  <2>3. CASE /\ requests' = requests \cup {[id |-> ExitId(cur, slot[cur]), qty |-> w]}
             /\ pc' = "answer"
             /\ UNCHANGED <<world, slot, disk, venue, diskVenue, cur, todo, snap, lastId, due, crashes>>
    <3>1. ExitId(cur, slot[cur]) \in Ids
      BY <2>1 DEF ExitId, Ids, GoodSlot, Slots
    <3>2. requests' \subseteq Requests
      BY <2>1, <2>3, <3>1 DEF OInv, TypeOK, Requests
    <3>3. QED
      BY <2>1, <2>3, <3>2 DEF OInv, TypeOK, StepInv, InStep, Points
  <2>4. QED
    BY <1>20, <2>2, <2>3 DEF sellToClose
<1>21. CASE ExitAnswer
  <2>1. cur \in Underlyings /\ slot[cur].st = "EXIT_PENDING" /\ slot[cur] \in GoodSlot
    BY <1>21, <1>a DEF ExitAnswer, OInv, StepInv, InStep
  <2>2. PICK o \in findOrder(Awaited) : StepTo(cur, applyExitResult(slot[cur], o.filled))
    BY <1>21 DEF ExitAnswer
  <2>3. o.filled \in Nat
    BY <1>c, <2>2 DEF findOrder
  <2>4. QED
    BY <2>1, <2>2, <2>3, ExitGood, StepTo1
<1>22. CASE ExitUnknown
  <2>1. cur \in Underlyings /\ slot[cur].st = "EXIT_PENDING" /\ slot[cur] \in GoodSlot
    BY <1>22, <1>a DEF ExitUnknown, OInv, StepInv, InStep
  <2>2. Awaited.k \in Nat
    BY <2>1 DEF Awaited, ExitId, GoodSlot, Slots
  <2>3. QED
    BY <1>22, <2>1, <2>2, UnknownGood, StepTo1 DEF ExitUnknown
<1>23. ASSUME NEW r \in requests, Execute(r) PROVE OInv'
  <2>1. r \in Requests /\ r.id \in Ids /\ r.id.u \in Underlyings /\ r.qty \in Nat
    BY DEF OInv, TypeOK, Requests, Ids
  <2>2. PICK filled \in {Fillable(r)} \cup (IF r.id.k = 0 THEN {0} ELSE {}) : venue' = Executed(r, filled)
    BY <1>23 DEF Execute
  <2>3. filled \in Nat /\ (r.id.k # 0 => filled <= venue.held[r.id.u])
    BY <2>1, <2>2 DEF Fillable, Least, OInv, TypeOK, Venues, Ids
  <2>4. venue' \in Venues
    BY <2>1, <2>2, <2>3 DEF Executed, OInv, TypeOK, Venues, Orders, Ids
  <2>5. QED
    BY <1>23, <2>4 DEF Execute, OInv, TypeOK, StepInv, InStep
<1>24. ASSUME NEW r \in requests, Drop(r) PROVE OInv'
  BY <1>24 DEF Drop, OInv, TypeOK, StepInv, InStep
<1>25. ASSUME NEW u \in Underlyings, Settle(u) PROVE OInv'
  <2>1. venue' \in Venues
    BY <1>25 DEF Settle, OInv, TypeOK, Venues
  <2>2. QED
    BY <1>25, <2>1 DEF Settle, OInv, TypeOK, StepInv, InStep
<1>26. ASSUME NEW u \in Underlyings, TimeUp(u) PROVE OInv'
  BY <1>26 DEF TimeUp, OInv, TypeOK, StepInv, InStep
<1>27. CASE Crash
  BY <1>27 DEF Crash, OInv, TypeOK, StepInv, InStep, Points
<1>28. CASE UNCHANGED vars
  BY <1>28 DEF vars, OInv, TypeOK, StepInv, InStep
<1>29. QED
  BY <1>1, <1>2, <1>3, <1>4, <1>5, <1>6, <1>7, <1>8, <1>9, <1>10, <1>11, <1>12, <1>13, <1>14,
     <1>15, <1>16, <1>17, <1>18, <1>19, <1>20, <1>21, <1>22, <1>23, <1>24, <1>25, <1>26, <1>27,
     <1>28 DEF Next

(* Every reachable state is well typed, whatever the environment does: in  *)
(* particular OptionsBuyingEngine.fire never throws IllegalTransitionError *)
(* and never leaves a slot without a state.                                *)
THEOREM TypeCorrect == Spec => []TypeOK
<1>1. OInv => TypeOK
  BY DEF OInv
<1>2. QED
  BY OInit, OStep, <1>1, PTL DEF Spec

----------------------------------------------------------------------------
(* Accounting.  Which lots the engine tracks, booked and wrote off, against *)
(* what the venue holds and has filled.  k stands for world.kinds.          *)

(* The worlds in which the engine keeps its books: requests do not execute *)
(* behind its back, and a process that may die between a partly filled     *)
(* exit and its save has its venue in the same file and gets its answers.  *)
Sound(k) ==
  /\ "late" \notin k
  /\ {"crash", "thin"} \subseteq k => "local" \in k /\ "lost" \notin k

(* GoneByExit takes a position that is gone for sold by the exit it finds: *)
(* wrong if that exit sold a part and the venue closed the rest.           *)
Exact(k) == ~({"external", "lost", "thin"} \subseteq k)

\* A restart does not bring back an exit id that the venue has seen.
Steady(k) == "crash" \notin k \/ "local" \in k

\* A restart may find books that filled orders in part.
Restful(k) == {"crash", "thin"} \subseteq k

\* The record of a slot's pending entry, of the exits of entry e, and of the
\* exits whose result the slot has not applied.
EntryOf(u, s, v) == {o \in v.orders : o.id = EntryId(u, s)}
ExitsOf(u, e, v) == {o \in v.orders : o.id.u = u /\ o.id.e = e /\ o.id.k # 0}
Current(u, s, v) == {o \in ExitsOf(u, s.entry, v) : o.id.k > s.attempts \/ o.id.k = s.unresolved}

\* A slot without a position.
Flat(k, u, s, v) ==
  /\ v.held[u] = 0
  /\ v.bought[u] + s.adopted = s.booked + s.writtenOff
  /\ Exact(k) => s.booked <= v.sold[u]

\* An exit that is not applied yet: applying it leaves the slot right.
Pays(k, u, s, v, o) ==
  /\ v.held[u] + o.filled <= s.qty
  /\ Exact(k) => s.booked + o.filled <= v.sold[u]
  /\ "thin" \notin k => o.filled \in {0, s.qty}
  /\ Steady(k) => o.id.k = ExitId(u, s).k
  /\ Restful(k) => v.held[u] = 0 \/ v.held[u] + o.filled = s.qty

\* A slot with a position.
Open(k, u, s, v) ==
  /\ v.bought[u] + s.adopted = s.qty + s.booked + s.writtenOff
  /\ v.held[u] <= s.qty
  /\ Exact(k) => s.booked <= v.sold[u]
  /\ "external" \notin k => s.booked + s.qty <= v.sold[u] + v.held[u]
  /\ "thin" \notin k => v.held[u] \in {0, s.qty}
  /\ \A o \in Current(u, s, v) : Pays(k, u, s, v, o)
  /\ Restful(k) /\ Current(u, s, v) = {} => v.held[u] \in {0, s.qty}

Known(k, u, s, v) == IF s.qty > 0 THEN Open(k, u, s, v) ELSE Flat(k, u, s, v)

\* A slot agrees with the venue; one with a pending entry once that is known.
Fits(k, u, s, v) ==
  IF s.pending = 0 THEN Known(k, u, s, v)
  ELSE /\ \A o \in EntryOf(u, s, v) : Known(k, u, applyEntryResult(s, o.filled), v)
       /\ EntryOf(u, s, v) = {} => Flat(k, u, NoFill(s), v) /\ ExitsOf(u, s.pending, v) = {}
       /\ Steady(k) => ExitsOf(u, s.pending, v) = {}

\* Nothing is left to apply.
AtRest(k, u, s, v) == Restful(k) /\ s.qty > 0 => Current(u, s, v) = {}

(* What the fields of a slot say of each other; n is the newest id.        *)
Shape(k, n, s) ==
  /\ s.st = "ENTRY_PENDING" <=> s.pending # 0
  /\ s.st \in {"POSITION_OPEN", "EXIT_PENDING"} <=> s.qty > 0
  /\ s.unresolved <= s.attempts
  /\ "lost" \notin k => s.unresolved = 0
  /\ s.entry <= n /\ s.pending <= n

\* An id is used once.
OneRecord(n, v) ==
  /\ \A o \in v.orders : o.id.e <= n
  /\ \A o, p \in v.orders : o.id = p.id => o = p

(* The fields of a slot and of a venue are numbers.                        *)
LEMMA SlotNats ==
  ASSUME NEW s \in GoodSlot
  PROVE  /\ s \in Slots /\ s.st \in States
         /\ s.pending \in Nat /\ s.qty \in Nat /\ s.entry \in Nat /\ s.attempts \in Nat
         /\ s.unresolved \in Nat /\ s.adopted \in Nat /\ s.booked \in Nat /\ s.writtenOff \in Nat
         /\ s.unresolved # 0 => s.st = "EXIT_PENDING"
BY DEF GoodSlot, Slots

(* The same, of a venue.                                                   *)
LEMMA VenueNats ==
  ASSUME NEW v \in Venues, NEW u \in Underlyings
  PROVE  /\ v.held[u] \in Nat /\ v.bought[u] \in Nat /\ v.sold[u] \in Nat
         /\ \A o \in v.orders : /\ o \in Orders /\ o.filled \in Nat /\ o.id \in Ids
                                /\ o.id.u \in Underlyings /\ o.id.e \in Nat /\ o.id.k \in Nat
<1>1. v.held[u] \in Nat /\ v.bought[u] \in Nat /\ v.sold[u] \in Nat /\ v.orders \subseteq Orders
  BY DEF Venues
<1>2. \A o \in Orders : o.filled \in Nat /\ o.id \in Ids
  BY DEF Orders
<1>3. \A i \in Ids : i.u \in Underlyings /\ i.e \in Nat /\ i.k \in Nat
  BY DEF Ids
<1>4. QED
  BY <1>1, <1>2, <1>3

(* What Fits says of a slot depends on its numbers, not on its state.      *)
LEMMA SameNumbers ==
  ASSUME NEW k, NEW u, NEW s, NEW t, NEW v,
         s.pending = 0, t.pending = 0, t.qty = s.qty, t.entry = s.entry, t.attempts = s.attempts,
         t.unresolved = s.unresolved, t.adopted = s.adopted, t.booked = s.booked,
         t.writtenOff = s.writtenOff,
         Fits(k, u, s, v)
  PROVE  Fits(k, u, t, v) /\ (AtRest(k, u, s, v) => AtRest(k, u, t, v))
<1>1. Current(u, t, v) = Current(u, s, v) /\ ExitId(u, t) = ExitId(u, s)
  BY DEF Current, ExitId
<1>2. QED
  BY <1>1 DEF Fits, Known, Open, Flat, Pays, AtRest

(* A slot without position and pending entry that has the same counters.   *)
LEMMA FlatFits ==
  ASSUME NEW k, NEW u, NEW s, NEW v, s.pending = 0, s.qty = 0, Flat(k, u, s, v)
  PROVE  Fits(k, u, s, v) /\ AtRest(k, u, s, v)
BY DEF Fits, Known, AtRest

(* NoFill keeps the counters.                                              *)
LEMMA NoFillFields ==
  ASSUME NEW s \in GoodSlot, s.st = "ENTRY_PENDING"
  PROVE  /\ NoFill(s).st = "IDLE" /\ NoFill(s).pending = 0 /\ NoFill(s).qty = s.qty
         /\ NoFill(s).entry = s.entry /\ NoFill(s).attempts = s.attempts
         /\ NoFill(s).unresolved = s.unresolved /\ NoFill(s).adopted = s.adopted
         /\ NoFill(s).booked = s.booked /\ NoFill(s).writtenOff = s.writtenOff
BY Rows DEF GoodSlot, Slots, NoFill, fire

(* Fill keeps the counters and begins a position.                          *)
LEMMA FillFields ==
  ASSUME NEW s \in GoodSlot, s.st = "ENTRY_PENDING", NEW n \in Nat
  PROVE  /\ Fill(s, n).st = "POSITION_OPEN" /\ Fill(s, n).pending = 0 /\ Fill(s, n).qty = n
         /\ Fill(s, n).entry = s.pending /\ Fill(s, n).attempts = 0
         /\ Fill(s, n).unresolved = 0 /\ Fill(s, n).adopted = s.adopted
         /\ Fill(s, n).booked = s.booked /\ Fill(s, n).writtenOff = s.writtenOff
BY Rows DEF GoodSlot, Slots, Fill, fire

(* An answered exit of n lots.                                             *)
LEMMA ExitFields ==
  ASSUME NEW s \in GoodSlot, s.st = "EXIT_PENDING", s.qty > 0, NEW n \in Nat, n <= s.qty,
         NEW t, t = applyExitResult(s, n)
  PROVE  /\ t.pending = s.pending /\ t.adopted = s.adopted /\ t.writtenOff = s.writtenOff
         /\ t.booked = s.booked + n /\ t.qty = s.qty - n
         /\ n < s.qty => /\ t.st = "EXIT_PENDING" /\ t.entry = s.entry
                         /\ t.attempts = s.attempts + 1 /\ t.unresolved = 0
         /\ n = s.qty => /\ t.st = "POSITION_CLOSED" /\ t.entry = 0
                         /\ t.attempts = 0 /\ t.unresolved = 0
<1> DEFINE x == [s EXCEPT !.unresolved = 0, !.attempts = @ + 1, !.booked = @ + n, !.qty = @ - n]
<1>1. Least(n, s.qty) = n
  BY SlotNats DEF Least
<1>2. /\ x.st = s.st /\ x.pending = s.pending /\ x.adopted = s.adopted /\ x.writtenOff = s.writtenOff
      /\ x.booked = s.booked + n /\ x.qty = s.qty - n /\ x.entry = s.entry
      /\ x.attempts = s.attempts + 1 /\ x.unresolved = 0 /\ x \in Slots
  <2>1. s \in Slots /\ s.qty - n \in Nat /\ s.booked + n \in Nat /\ s.attempts + 1 \in Nat
    BY SlotNats
  <2>2. x \in Slots
    BY <2>1, Updated
  <2>3. QED
    BY <2>1, <2>2 DEF Slots
<1> HIDE DEF x
<1>3. applyExitResult(s, n) = CASE n = 0 -> fire(x, "EXIT_RETRY")
                                [] n # 0 /\ x.qty > 0 -> fire(x, "PARTIAL_EXIT")
                                [] OTHER -> closeOut(x, "EXIT_FILL")
  BY <1>1 DEF applyExitResult, x
<1>4. CASE n = 0
  BY <1>2, <1>3, <1>4, Rows, SlotNats DEF fire, Slots
<1>5. CASE n # 0 /\ n < s.qty
  <2>1. x.qty > 0
    BY <1>2, <1>5, SlotNats
  <2>2. t = fire(x, "PARTIAL_EXIT")
    BY <1>3, <1>5, <2>1
  <2>3. QED
    BY <1>2, <1>5, <2>2, Rows, SlotNats DEF fire, Slots
<1>6. CASE n # 0 /\ n = s.qty
  <2>1. ~(x.qty > 0)
    BY <1>2, <1>6, SlotNats
  <2>2. t = closeOut(x, "EXIT_FILL")
    BY <1>3, <1>6, <2>1
  <2>3. /\ t.st = "POSITION_CLOSED" /\ t.entry = 0 /\ t.attempts = 0 /\ t.unresolved = 0 /\ t.qty = 0
        /\ t.pending = x.pending /\ t.adopted = x.adopted /\ t.writtenOff = x.writtenOff
        /\ t.booked = x.booked
    BY <1>2, <2>2, Rows DEF closeOut, WithoutPosition, fire, Slots
  <2>4. QED
    BY <1>2, <1>6, <2>3, SlotNats
<1>7. QED
  BY <1>4, <1>5, <1>6, SlotNats

(* An exit that failed, its id kept as j.                                  *)
LEMMA FailFields ==
  ASSUME NEW s \in GoodSlot, s.st = "EXIT_PENDING", NEW j \in Nat,
         NEW t, t = exitFailed([s EXCEPT !.unresolved = j])
  PROVE  /\ t.st = "EXIT_PENDING" /\ t.pending = s.pending /\ t.qty = s.qty /\ t.entry = s.entry
         /\ t.attempts = s.attempts + 1 /\ t.unresolved = j /\ t.adopted = s.adopted
         /\ t.booked = s.booked /\ t.writtenOff = s.writtenOff
BY Rows DEF GoodSlot, Slots, exitFailed, fire

(* A position that triggers keeps its numbers.                             *)
LEMMA TriggeredFields ==
  ASSUME NEW s \in GoodSlot, s.st \in {"POSITION_OPEN", "EXIT_PENDING"},
         NEW t, t = Triggered(s)
  PROVE  /\ t.st = "EXIT_PENDING" /\ t.pending = s.pending /\ t.qty = s.qty /\ t.entry = s.entry
         /\ t.attempts = s.attempts /\ t.unresolved = s.unresolved /\ t.adopted = s.adopted
         /\ t.booked = s.booked /\ t.writtenOff = s.writtenOff
BY Rows DEF GoodSlot, Slots, Triggered, fire

(* A position that is written off.                                         *)
LEMMA WrittenOffFields ==
  ASSUME NEW s \in GoodSlot, s.st \in {"POSITION_OPEN", "EXIT_PENDING"},
         NEW t, t = closeOut([s EXCEPT !.writtenOff = @ + s.qty], "EXTERNAL_CLOSE")
  PROVE  /\ t.st = "POSITION_CLOSED" /\ t.pending = s.pending /\ t.qty = 0 /\ t.entry = 0
         /\ t.attempts = 0 /\ t.unresolved = 0 /\ t.adopted = s.adopted
         /\ t.booked = s.booked /\ t.writtenOff = s.writtenOff + s.qty
BY Rows DEF GoodSlot, Slots, closeOut, WithoutPosition, fire

(* A request is for what slot s does: its pending entry, or an exit of its *)
(* position.  After a restart the slot may have forgotten that the entry   *)
(* was filled.                                                             *)
AimsAtPosition(k, r, s) ==
  /\ s.pending = 0 /\ s.entry = r.id.e /\ s.qty > 0
  /\ "thin" \notin k => r.qty = s.qty
  /\ Steady(k) => r.id.k = ExitId(r.id.u, s).k

AimsAtFilled(k, r, s, v) ==
  /\ s.pending = r.id.e /\ s.pending # 0 /\ ~Steady(k)
  /\ \E o \in EntryOf(r.id.u, s, v) : o.filled = r.qty /\ o.filled > 0

Aims(k, r, s, v) ==
  IF r.id.k = 0 THEN s.pending = r.id.e /\ s.pending # 0
  ELSE AimsAtPosition(k, r, s) \/ AimsAtFilled(k, r, s, v)

\* A fill of r for f lots, recorded.
Recorded(v, r, f) ==
  [held |-> [v.held EXCEPT ![r.id.u] = IF r.id.k = 0 THEN @ + f ELSE @ - f],
   orders |-> v.orders \cup {[id |-> r.id, filled |-> f]},
   bought |-> [v.bought EXCEPT ![r.id.u] = IF r.id.k = 0 THEN @ + f ELSE @],
   sold |-> [v.sold EXCEPT ![r.id.u] = IF r.id.k = 0 THEN @ ELSE @ + f]]

(* applyExitResult: the slot agrees with the venue again when n lots are   *)
(* what the venue recorded for the exit, or when the venue refused it.     *)
LEMMA ExitApplied ==
  ASSUME NEW k, Sound(k), NEW u \in Underlyings, NEW s \in GoodSlot, NEW v \in Venues, NEW m, Shape(k, m, s),
         s.st = "EXIT_PENDING", s.pending = 0, Fits(k, u, s, v), NEW n \in Nat,
         \/ n = 0 /\ "local" \notin k
         \/ \E o \in Current(u, s, v) : o.filled = n /\ o.id.k = ExitId(u, s).k,
         NEW t, t = applyExitResult(s, n)
  PROVE  Fits(k, u, t, v) /\ AtRest(k, u, t, v)
<1>1. Open(k, u, s, v) /\ s.qty > 0
  BY DEF Fits, Known, Shape
<1>2. /\ v.held[u] + n <= s.qty
      /\ Exact(k) => s.booked + n <= v.sold[u]
      /\ "thin" \notin k => n \in {0, s.qty}
      /\ Restful(k) => v.held[u] = 0 \/ v.held[u] + n = s.qty
  <2>1. CASE n = 0 /\ "local" \notin k
    BY <1>1, <2>1, SlotNats, VenueNats DEF Open, Sound, Restful
  <2>2. CASE \E o \in Current(u, s, v) : o.filled = n /\ o.id.k = ExitId(u, s).k
    BY <1>1, <2>2 DEF Open, Pays
  <2>3. QED
    BY <2>1, <2>2
<1>3. n <= s.qty
  BY <1>2, SlotNats, VenueNats
<1>4. /\ t.pending = 0 /\ t.adopted = s.adopted /\ t.writtenOff = s.writtenOff
      /\ t.booked = s.booked + n /\ t.qty = s.qty - n
      /\ n < s.qty => t.entry = s.entry /\ t.attempts = s.attempts + 1 /\ t.unresolved = 0
  BY <1>1, <1>3, ExitFields
<1>5. CASE n = s.qty
  <2>1. t.qty = 0 /\ v.held[u] = 0
    BY <1>2, <1>4, <1>5, SlotNats, VenueNats
  <2>2. Flat(k, u, t, v)
    BY <1>1, <1>2, <1>4, <1>5, <2>1, SlotNats, VenueNats DEF Open, Flat
  <2>3. QED
    BY <1>4, <2>1, <2>2, FlatFits
<1>6. CASE n < s.qty
  <2>1. Current(u, t, v) \subseteq Current(u, s, v)
    BY <1>4, <1>6, SlotNats, VenueNats DEF Current, ExitsOf
  <2>2. Steady(k) => Current(u, t, v) = {}
    <3> SUFFICES ASSUME Steady(k), NEW o \in Current(u, t, v) PROVE FALSE
      OBVIOUS
    <3>1. o.id.k = ExitId(u, s).k /\ o.id.k \in Nat
      BY <1>1, <2>1, VenueNats DEF Open, Pays, Current, ExitsOf
    <3>2. ExitId(u, s).k <= s.attempts + 1
      BY SlotNats DEF ExitId, Shape
    <3>3. o.id.k > s.attempts + 1
      BY <1>4, <1>6, <3>1 DEF Current, ExitsOf
    <3>4. QED
      BY <3>1, <3>2, <3>3, SlotNats
  <2>3. ~Steady(k) => n = 0 /\ ~Restful(k)
    BY <1>2, <1>6, SlotNats DEF Steady, Sound, Restful
  <2>4. \A o \in Current(u, t, v) : Pays(k, u, t, v, o)
    <3> SUFFICES ASSUME NEW o \in Current(u, t, v) PROVE Pays(k, u, t, v, o)
      OBVIOUS
    <3>1. ~Steady(k) /\ n = 0 /\ ~Restful(k)
      BY <2>2, <2>3
    <3>2. Pays(k, u, s, v, o)
      BY <1>1, <2>1 DEF Open
    <3>3. t.qty = s.qty /\ t.booked = s.booked
      BY <1>4, <3>1, SlotNats
    <3>4. QED
      BY <3>1, <3>2, <3>3 DEF Pays
  <2>5. Restful(k) => Steady(k)
    BY DEF Restful, Steady, Sound
  <2>6. t.qty > 0 /\ v.held[u] <= t.qty
    BY <1>2, <1>4, <1>6, SlotNats, VenueNats
  <2>7. v.bought[u] + t.adopted = t.qty + t.booked + t.writtenOff
    BY <1>1, <1>4, SlotNats, VenueNats DEF Open
  <2>8. "external" \notin k => t.booked + t.qty <= v.sold[u] + v.held[u]
    BY <1>1, <1>4, SlotNats, VenueNats DEF Open
  <2>9. "thin" \notin k => v.held[u] \in {0, t.qty}
    BY <1>1, <1>2, <1>4, <1>6, SlotNats, VenueNats DEF Open
  <2>10. Restful(k) => v.held[u] \in {0, t.qty}
    BY <1>2, <1>4, SlotNats, VenueNats
  <2>11. Open(k, u, t, v)
    BY <1>2, <1>4, <2>4, <2>6, <2>7, <2>8, <2>9, <2>10 DEF Open
  <2>12. QED
    BY <1>4, <2>2, <2>5, <2>6, <2>11 DEF Fits, Known, AtRest
<1>7. QED
  BY <1>3, <1>5, <1>6, SlotNats

(* exitFailed: the id j that is kept is the old one or the one just used.  *)
LEMMA ExitFailedFits ==
  ASSUME NEW k, Sound(k), NEW u \in Underlyings, NEW s \in GoodSlot, NEW v \in Venues, NEW m, Shape(k, m, s),
         s.st = "EXIT_PENDING", s.pending = 0, Fits(k, u, s, v),
         AtRest(k, u, s, v), NEW j \in Nat, j \in {s.unresolved, ExitId(u, s).k},
         NEW t, t = exitFailed([s EXCEPT !.unresolved = j])
  PROVE  Fits(k, u, t, v) /\ AtRest(k, u, t, v)
<1>1. Open(k, u, s, v) /\ s.qty > 0
  BY DEF Fits, Known, Shape
<1>2. /\ t.pending = 0 /\ t.qty = s.qty /\ t.entry = s.entry /\ t.attempts = s.attempts + 1
      /\ t.unresolved = j /\ t.adopted = s.adopted /\ t.booked = s.booked /\ t.writtenOff = s.writtenOff
  BY FailFields
<1>3. Current(u, t, v) \subseteq Current(u, s, v)
  BY <1>2, SlotNats, VenueNats DEF Current, ExitsOf, ExitId
<1>4. ASSUME Steady(k), NEW o \in Current(u, t, v) PROVE o.id.k = ExitId(u, t).k
  <2>1. o.id.k = ExitId(u, s).k /\ o.id.k \in Nat /\ o.id.k # 0
    BY <1>1, <1>3, <1>4, VenueNats DEF Open, Pays, Current, ExitsOf
  <2>2. o.id.k > s.attempts + 1 \/ o.id.k = j
    BY <1>2, <1>4 DEF Current
  <2>3. QED
    BY <1>2, <2>1, <2>2, SlotNats DEF ExitId
<1>5. \A o \in Current(u, t, v) : Pays(k, u, t, v, o)
  BY <1>1, <1>2, <1>3, <1>4 DEF Open, Pays
<1>6. Restful(k) => Current(u, s, v) = {}
  BY <1>1 DEF AtRest
<1>7. Open(k, u, t, v)
  BY <1>1, <1>2, <1>5, <1>6 DEF Open
<1>8. QED
  BY <1>1, <1>2, <1>3, <1>6, <1>7 DEF Fits, Known, AtRest

(* detectExternalClose: what is not held any more is written off.          *)
LEMMA WrittenOffFits ==
  ASSUME NEW k, NEW u \in Underlyings, NEW s \in GoodSlot, NEW v \in Venues, NEW m, Shape(k, m, s),
         s.st \in {"POSITION_OPEN", "EXIT_PENDING"}, s.pending = 0, Fits(k, u, s, v), v.held[u] = 0,
         NEW t, t = closeOut([s EXCEPT !.writtenOff = @ + s.qty], "EXTERNAL_CLOSE")
  PROVE  Fits(k, u, t, v) /\ AtRest(k, u, t, v)
<1>1. Open(k, u, s, v) /\ s.qty > 0
  BY DEF Fits, Known, Shape
<1>2. /\ t.pending = 0 /\ t.qty = 0 /\ t.adopted = s.adopted /\ t.booked = s.booked
      /\ t.writtenOff = s.writtenOff + s.qty
  BY WrittenOffFields
<1>3. Flat(k, u, t, v)
  BY <1>1, <1>2, SlotNats, VenueNats DEF Open, Flat
<1>4. QED
  BY <1>2, <1>3, FlatFits

(* detectExternalClose: what is not held any more is booked as sold.       *)
LEMMA BookedFits ==
  ASSUME NEW k, NEW u \in Underlyings, NEW s \in GoodSlot, NEW v \in Venues, NEW m, Shape(k, m, s),
         s.st = "EXIT_PENDING", s.pending = 0, Fits(k, u, s, v), v.held[u] = 0,
         Exact(k) => s.booked + s.qty <= v.sold[u],
         NEW t, t = applyExitResult(s, s.qty)
  PROVE  Fits(k, u, t, v) /\ AtRest(k, u, t, v)
<1>1. Open(k, u, s, v) /\ s.qty > 0
  BY DEF Fits, Known, Shape
<1>2. s.qty \in Nat /\ s.qty <= s.qty
  BY SlotNats
<1>3. /\ t.pending = 0 /\ t.qty = 0 /\ t.adopted = s.adopted /\ t.booked = s.booked + s.qty
      /\ t.writtenOff = s.writtenOff
  BY <1>1, <1>2, ExitFields
<1>4. Flat(k, u, t, v)
  BY <1>1, <1>3, SlotNats, VenueNats DEF Open, Flat
<1>5. QED
  BY <1>3, <1>4, FlatFits

(* A venue that closes a position.                                         *)
LEMMA SettleFits ==
  ASSUME NEW k, "external" \in k, NEW u \in Underlyings, NEW x \in Underlyings, NEW s \in GoodSlot,
         NEW m, Shape(k, m, s), NEW v \in Venues, Fits(k, u, s, v), NEW w, w = [v EXCEPT !.held[x] = 0]
  PROVE  Fits(k, u, s, w) /\ (AtRest(k, u, s, v) => AtRest(k, u, s, w))
<1>1. /\ w.orders = v.orders /\ w.bought = v.bought /\ w.sold = v.sold
      /\ w.held[u] = v.held[u] \/ w.held[u] = 0
  BY DEF Venues
<1>2. /\ EntryOf(u, s, w) = EntryOf(u, s, v) /\ ExitsOf(u, s.pending, w) = ExitsOf(u, s.pending, v)
      /\ \A t : Current(u, t, w) = Current(u, t, v)
  BY <1>1 DEF EntryOf, ExitsOf, Current
<1>3. ASSUME NEW t \in GoodSlot, Known(k, u, t, v) PROVE Known(k, u, t, w)
  <2>1. CASE ~(t.qty > 0)
    BY <1>1, <1>3, <2>1 DEF Known, Flat
  <2>2. CASE t.qty > 0 /\ w.held[u] = v.held[u]
    BY <1>1, <1>2, <1>3, <2>2 DEF Known, Open, Pays
  <2>3. CASE t.qty > 0 /\ w.held[u] = 0
    <3>1. Open(k, u, t, v)
      BY <1>3, <2>3 DEF Known
    <3>2. \A o \in Current(u, t, v) : Pays(k, u, t, w, o)
      <4> SUFFICES ASSUME NEW o \in Current(u, t, v) PROVE Pays(k, u, t, w, o)
        OBVIOUS
      <4>1. Pays(k, u, t, v, o)
        BY <3>1 DEF Open
      <4>2. o.filled \in Nat /\ v.held[u] \in Nat /\ t.qty \in Nat
        BY SlotNats, VenueNats DEF Current, ExitsOf
      <4>3. 0 + o.filled <= t.qty
        BY <4>1, <4>2 DEF Pays
      <4>4. QED
        BY <1>1, <2>3, <4>1, <4>3 DEF Pays
    <3>3. QED
      BY <1>1, <1>2, <2>3, <3>1, <3>2, SlotNats DEF Known, Open
  <2>4. QED
    BY <1>1, <2>1, <2>2, <2>3
<1>4. Flat(k, u, NoFill(s), v) => Flat(k, u, NoFill(s), w)
  BY <1>1 DEF Flat
<1>5. CASE s.pending = 0
  BY <1>2, <1>3, <1>5 DEF Fits, AtRest
<1>6. CASE s.pending # 0
  <2>1. s.st = "ENTRY_PENDING"
    BY <1>6 DEF Shape
  <2>2. \A o \in EntryOf(u, s, v) : applyEntryResult(s, o.filled) \in GoodSlot
    BY <2>1, FillGood, VenueNats DEF EntryOf
  <2>3. QED
    BY <1>2, <1>3, <1>4, <1>6, <2>2 DEF Fits, AtRest
<1>7. QED
  BY <1>5, <1>6

(* What a recorded fill changes, and what it leaves alone.                 *)
LEMMA RecordedFields ==
  ASSUME NEW v \in Venues, NEW r \in Requests, NEW f \in Nat, NEW w, w = Recorded(v, r, f)
  PROVE  /\ r.id \in Ids /\ r.id.u \in Underlyings /\ r.id.e \in Nat /\ r.id.k \in Nat
         /\ w.orders = v.orders \cup {[id |-> r.id, filled |-> f]}
         /\ \A u \in Underlyings : u # r.id.u =>
              w.held[u] = v.held[u] /\ w.bought[u] = v.bought[u] /\ w.sold[u] = v.sold[u]
         /\ r.id.k = 0 => /\ w.held[r.id.u] = v.held[r.id.u] + f
                          /\ w.bought[r.id.u] = v.bought[r.id.u] + f
                          /\ w.sold[r.id.u] = v.sold[r.id.u]
         /\ r.id.k # 0 => /\ w.held[r.id.u] = v.held[r.id.u] - f
                          /\ w.bought[r.id.u] = v.bought[r.id.u]
                          /\ w.sold[r.id.u] = v.sold[r.id.u] + f
BY DEF Recorded, Venues, Requests, Ids

(* A reduce-only sell for the position of slot s is recorded.              *)
LEMMA SoldFits ==
  ASSUME NEW k, Sound(k), NEW u \in Underlyings, NEW s \in GoodSlot, NEW v \in Venues, NEW r \in Requests,
         r.id.u = u, r.id.k # 0, AimsAtPosition(k, r, s), \A o \in v.orders : o.id # r.id,
         Open(k, u, s, v), NEW f, f = Least(r.qty, v.held[u]), NEW w, w = Recorded(v, r, f)
  PROVE  Open(k, u, s, w)
<1> DEFINE new == [id |-> r.id, filled |-> f]
<1>1. r.qty \in Nat /\ f \in Nat /\ f <= v.held[u] /\ f <= r.qty /\ (f = r.qty \/ f = v.held[u])
  BY VenueNats DEF Requests, Least
<1>2. /\ w.held[u] = v.held[u] - f /\ w.bought[u] = v.bought[u] /\ w.sold[u] = v.sold[u] + f
      /\ w.orders = v.orders \cup {new} /\ r.id.k \in Nat /\ r.id.e \in Nat
  BY SMTT(30), <1>1, RecordedFields
<1>3. new.id = r.id /\ new.filled = f
  OBVIOUS
<1> HIDE DEF new
<1>4. /\ Current(u, s, v) \subseteq Current(u, s, w)
      /\ Current(u, s, w) \subseteq Current(u, s, v) \cup {new}
  BY <1>2, <1>3 DEF Current, ExitsOf
<1>5. Steady(k) => Current(u, s, v) = {} /\ new \in Current(u, s, w)
  <2> SUFFICES ASSUME Steady(k) PROVE Current(u, s, v) = {} /\ new \in Current(u, s, w)
    OBVIOUS
  <2>1. r.id.k = ExitId(u, s).k /\ s.entry = r.id.e
    BY DEF AimsAtPosition
  <2>2. ASSUME NEW o \in Current(u, s, v) PROVE FALSE
    <3>1. o \in v.orders /\ o.id.u = u /\ o.id.e = s.entry /\ o.id.k = ExitId(u, s).k
      BY <2>2 DEF Open, Pays, Current, ExitsOf
    <3>2. o.id \in Ids /\ r.id \in Ids
      BY <1>1, <3>1, VenueNats, RecordedFields
    <3>3. o.id = r.id
      BY <2>1, <3>1, <3>2 DEF Ids
    <3>4. QED
      BY <3>1, <3>3
  <2>3. r.id.k > s.attempts \/ r.id.k = s.unresolved
    BY <2>1, SlotNats DEF ExitId
  <2>4. QED
    BY <1>2, <1>3, <2>1, <2>2, <2>3 DEF Current, ExitsOf
<1>6. Restful(k) => Steady(k) /\ v.held[u] \in {0, s.qty}
  <2>1. Restful(k) => Steady(k)
    BY DEF Restful, Steady, Sound
  <2>2. QED
    BY <1>5, <2>1 DEF Open
<1>7. "thin" \notin k => r.qty = s.qty /\ v.held[u] \in {0, s.qty}
  BY DEF AimsAtPosition, Open
<1>8. "thin" \notin k => w.held[u] = 0 /\ f \in {0, s.qty}
  BY <1>1, <1>2, <1>7, SlotNats, VenueNats
<1>9. Pays(k, u, s, w, new)
  <2>1. w.held[u] + f <= s.qty
    BY <1>1, <1>2, SlotNats, VenueNats DEF Open
  <2>2. Exact(k) => s.booked + f <= w.sold[u]
    BY <1>1, <1>2, SlotNats, VenueNats DEF Open
  <2>3. Restful(k) => w.held[u] = 0 \/ w.held[u] + f = s.qty
    BY <1>1, <1>2, <1>6, SlotNats, VenueNats
  <2>4. QED
    BY <1>3, <1>8, <2>1, <2>2, <2>3 DEF Pays, AimsAtPosition
<1>10. ASSUME NEW o \in Current(u, s, v) PROVE Pays(k, u, s, w, o)
  <2>1. Pays(k, u, s, v, o) /\ o.filled \in Nat
    BY VenueNats DEF Open, Current, ExitsOf
  <2>2. w.held[u] + o.filled <= s.qty
    BY <1>1, <1>2, <2>1, SlotNats, VenueNats DEF Pays
  <2>3. Exact(k) => s.booked + o.filled <= w.sold[u]
    BY <1>1, <1>2, <2>1, SlotNats, VenueNats DEF Pays
  <2>4. ~Restful(k)
    BY <1>5, <1>6
  <2>5. QED
    BY <2>1, <2>2, <2>3, <2>4 DEF Pays
<1>11. /\ w.held[u] <= s.qty
       /\ w.bought[u] + s.adopted = s.qty + s.booked + s.writtenOff
       /\ Exact(k) => s.booked <= w.sold[u]
       /\ "external" \notin k => s.booked + s.qty <= w.sold[u] + w.held[u]
  BY <1>1, <1>2, SlotNats, VenueNats DEF Open
<1>12. Restful(k) => Current(u, s, w) # {}
  BY <1>5, <1>6
<1>13. QED
  BY <1>4, <1>8, <1>9, <1>10, <1>11, <1>12 DEF Open

(* A buy for the pending entry of slot s is recorded.                      *)
LEMMA BoughtFits ==
  ASSUME NEW k, NEW m, NEW u \in Underlyings, NEW s \in GoodSlot, Shape(k, m, s), NEW v \in Venues,
         NEW r \in Requests, r.id.u = u, r.id.k = 0, s.pending = r.id.e, s.pending # 0,
         \A o \in v.orders : o.id # r.id,
         Fits(k, u, s, v), NEW f \in Nat, NEW w, w = Recorded(v, r, f)
  PROVE  Fits(k, u, s, w)
<1> DEFINE new == [id |-> r.id, filled |-> f]
<1>1. /\ w.held[u] = v.held[u] + f /\ w.bought[u] = v.bought[u] + f /\ w.sold[u] = v.sold[u]
      /\ w.orders = v.orders \cup {new} /\ r.id \in Ids
  BY RecordedFields
<1>2. new.id = r.id /\ new.filled = f
  OBVIOUS
<1> HIDE DEF new
<1>3. EntryId(u, s) = r.id
  BY <1>1 DEF EntryId, Ids
<1>4. EntryOf(u, s, v) = {} /\ EntryOf(u, s, w) = {new}
  BY <1>1, <1>2, <1>3 DEF EntryOf
<1>5. Flat(k, u, NoFill(s), v) /\ ExitsOf(u, s.pending, v) = {}
  BY <1>4 DEF Fits
<1>6. ExitsOf(u, s.pending, w) = {}
  BY <1>1, <1>2, <1>5 DEF ExitsOf
<1>7. s.st = "ENTRY_PENDING" /\ s.qty = 0
  BY SlotNats DEF Shape
<1>8. Known(k, u, applyEntryResult(s, f), w)
  <2>1. CASE f = 0
    <3>1. applyEntryResult(s, f) = NoFill(s) /\ NoFill(s).qty = 0
      BY <1>7, <2>1, NoFillFields DEF applyEntryResult
    <3>2. Flat(k, u, NoFill(s), w)
      BY <1>1, <1>5, <2>1, VenueNats DEF Flat
    <3>3. QED
      BY <3>1, <3>2 DEF Known
  <2>2. CASE f # 0
    <3>1. PICK t : t = Fill(s, f)
      OBVIOUS
    <3>2. /\ t.qty = f /\ t.entry = s.pending /\ t.adopted = s.adopted /\ t.booked = s.booked
          /\ t.writtenOff = s.writtenOff
      BY <1>7, <3>1, FillFields
    <3>3. Current(u, t, w) = {}
      BY <1>6, <3>2 DEF Current
    <3>4. v.held[u] = 0 /\ v.bought[u] + s.adopted = s.booked + s.writtenOff /\ (Exact(k) => s.booked <= v.sold[u])
      BY <1>5, <1>7, NoFillFields DEF Flat
    <3>5. w.held[u] = f /\ w.bought[u] + t.adopted = t.qty + t.booked + t.writtenOff
      BY <1>1, <3>2, <3>4, SlotNats, VenueNats
    <3>6. Exact(k) => t.booked <= w.sold[u] /\ t.booked + t.qty <= w.sold[u] + w.held[u]
      BY <1>1, <3>2, <3>4, <3>5, SlotNats, VenueNats
    <3>7. "external" \notin k => Exact(k)
      BY DEF Exact
    <3>8. Open(k, u, t, w)
      BY <3>2, <3>3, <3>5, <3>6, <3>7 DEF Open
    <3>9. QED
      BY <2>2, <3>1, <3>2, <3>8 DEF Known, applyEntryResult
  <2>3. QED
    BY <2>1, <2>2
<1>9. QED
  BY <1>2, <1>4, <1>6, <1>8 DEF Fits

(* The venue records a fill of r: every slot that r may be for still fits. *)
LEMMA RecordedFits ==
  ASSUME NEW k, Sound(k), NEW m, NEW u \in Underlyings, NEW s \in GoodSlot, Shape(k, m, s), NEW v \in Venues,
         OneRecord(m, v), NEW r \in Requests, r.id.u = u => Aims(k, r, s, v),
         \A o \in v.orders : o.id # r.id, Fits(k, u, s, v), NEW f \in Nat,
         r.id.k # 0 => f = Least(r.qty, v.held[r.id.u]),
         NEW w, w = Recorded(v, r, f)
  PROVE  Fits(k, u, s, w)
<1> DEFINE new == [id |-> r.id, filled |-> f]
<1>1. w.orders = v.orders \cup {new} /\ new.id = r.id /\ r.id \in Ids
  BY RecordedFields
<1> HIDE DEF new
<1>2. CASE r.id.u # u
  <2>1. w.held[u] = v.held[u] /\ w.bought[u] = v.bought[u] /\ w.sold[u] = v.sold[u]
    BY <1>2, RecordedFields
  <2>2. EntryId(u, s).u = u
    BY DEF EntryId
  <2>3. /\ EntryOf(u, s, w) = EntryOf(u, s, v) /\ ExitsOf(u, s.pending, w) = ExitsOf(u, s.pending, v)
        /\ \A t : Current(u, t, w) = Current(u, t, v)
    BY <1>1, <1>2, <2>2 DEF EntryOf, ExitsOf, Current
  <2>4. ASSUME NEW t, Known(k, u, t, v) PROVE Known(k, u, t, w)
    BY <2>1, <2>3, <2>4 DEF Known, Open, Flat, Pays
  <2>5. Flat(k, u, NoFill(s), v) => Flat(k, u, NoFill(s), w)
    BY <2>1 DEF Flat
  <2>6. QED
    BY <2>3, <2>4, <2>5 DEF Fits
<1>3. CASE r.id.u = u /\ r.id.k = 0
  BY <1>3, BoughtFits DEF Aims
<1>4. CASE r.id.u = u /\ r.id.k # 0 /\ AimsAtPosition(k, r, s)
  <2>1. s.pending = 0 /\ s.qty > 0 /\ Open(k, u, s, v)
    BY <1>4 DEF AimsAtPosition, Fits, Known
  <2>2. Open(k, u, s, w)
    BY <1>4, <2>1, SoldFits
  <2>3. QED
    BY <2>1, <2>2 DEF Fits, Known
<1>5. CASE r.id.u = u /\ r.id.k # 0 /\ AimsAtFilled(k, r, s, v)
  <2>1. PICK o \in EntryOf(u, s, v) : o.filled = r.qty /\ o.filled > 0
    BY <1>5 DEF AimsAtFilled
  <2>2. PICK t : t = Fill(s, r.qty)
    OBVIOUS
  <2>3. s.st = "ENTRY_PENDING" /\ s.pending = r.id.e /\ s.pending # 0 /\ ~Steady(k)
    BY <1>5 DEF AimsAtFilled, Shape
  <2>4. r.qty \in Nat /\ r.qty # 0 /\ applyEntryResult(s, r.qty) = t /\ t \in GoodSlot
    BY <2>1, <2>2, <2>3, FillGood DEF Requests, applyEntryResult
  <2>5. t.pending = 0 /\ t.entry = r.id.e /\ t.qty = r.qty /\ t.qty > 0
    BY <2>2, <2>3, <2>4, FillFields
  <2>6. Open(k, u, t, v)
    BY <2>1, <2>3, <2>4, <2>5 DEF Fits, Known
  <2>7. AimsAtPosition(k, r, t)
    BY <2>3, <2>5 DEF AimsAtPosition
  <2>8. Open(k, u, t, w)
    BY <1>5, <2>4, <2>6, <2>7, SoldFits
  <2>9. EntryOf(u, s, w) = EntryOf(u, s, v)
    BY <1>1, <1>5 DEF EntryOf, EntryId
  <2>10. \A p \in EntryOf(u, s, v) : p.filled = r.qty
    BY <2>1 DEF EntryOf, OneRecord
  <2>11. QED
    BY <2>1, <2>3, <2>4, <2>5, <2>8, <2>9, <2>10 DEF Fits, Known
<1>6. QED
  BY <1>2, <1>3, <1>4, <1>5 DEF Aims

----------------------------------------------------------------------------
(* The books: what holds of slots, state file, venue and requests between  *)
(* any two steps of the process, the venue and the environment.            *)

Shapes ==
  /\ \A u \in Underlyings : Shape(world.kinds, lastId, slot[u]) /\ Shape(world.kinds, lastId, disk[u])
  /\ OneRecord(lastId, venue) /\ OneRecord(lastId, diskVenue)

\* Nothing but what an earlier installation left: not yet adopted.
Fresh ==
  /\ ~Running /\ requests = {} /\ venue.orders = {}
  /\ Local => diskVenue = venue /\ \A u \in Underlyings : venue.held[u] = 0
  /\ \A u \in Underlyings : disk[u] = emptySlot /\ venue.bought[u] = 0 /\ venue.sold[u] = 0
  /\ \E x : \A u \in Underlyings \ {x} : venue.held[u] = 0 /\ (pc = "start" => snap[u] = 0)

Agrees == Fresh \/ \A u \in Underlyings : Fits(world.kinds, u, slot[u], venue)

\* A step that is not waiting for an answer has applied every exit.
Rests == \A u \in Underlyings : ~(pc = "answer" /\ cur = u) => AtRest(world.kinds, u, slot[u], venue)

\* The venue that a restart finds, and the file it reads.
Backup == IF Local THEN diskVenue ELSE venue
Backed ==
  Can("crash") =>
    Fresh \/ \A u \in Underlyings : /\ Fits(world.kinds, u, disk[u], Backup)
                                    /\ AtRest(world.kinds, u, disk[u], Backup)

\* A process that is down is a fresh installation or has died.
Downs ==
  /\ ~Running => slot = disk /\ (Fresh \/ Can("crash"))
  /\ pc \in {"down", "start", "cycle"} => cur = NoU

\* The positions a start has read are those the file knows of.
StartSees ==
  pc = "start" =>
    /\ requests = {}
    /\ \A u \in Underlyings :
         /\ venue.held[u] \in {0, snap[u]}
         /\ ~Can("external") => venue.held[u] = snap[u]
         /\ ~Fresh /\ disk[u].pending = 0 => snap[u] \in {0, disk[u].qty}

\* The positions a cycle has read are still true of the underlyings it has
\* not come to, unless the venue closed one.
CycleSees ==
  Running /\ snap # NoSnap =>
    \A u \in todo \ {cur} :
      /\ venue.held[u] <= snap[u]
      /\ ~Can("external") => venue.held[u] = snap[u]
      /\ slot[u].pending # 0 /\ EntryOf(u, slot[u], venue) = {} => snap[u] = 0

\* One request at a time: the one awaited, or one its process left behind.
Awaits ==
  /\ \A r \in requests :
       /\ (pc = "answer" /\ r.id = Awaited) \/ (pc = "down" /\ ~Local)
       /\ Aims(world.kinds, r, slot[r.id.u], venue)
       /\ Can("crash") /\ ~Local => Aims(world.kinds, r, disk[r.id.u], venue)
  /\ \A r, q \in requests : r = q

\* d, the slot in the file, is an earlier state of s.
Trails(u, s, d, v) ==
  /\ s.qty > 0 =>
       \/ d.pending = 0 /\ d.entry = s.entry /\ d.qty = s.qty
       \/ d.pending = s.entry /\ d.pending # 0 /\ \E o \in EntryOf(u, d, v) : o.filled = s.qty
  /\ s.pending # 0 /\ EntryOf(u, s, v) # {} => d.pending = s.pending

Follows ==
  /\ ~Steady(world.kinds) => \A u \in Underlyings : Trails(u, slot[u], disk[u], venue)
  /\ pc \in {"buy", "answer"} /\ slot[cur].pending # 0 => disk[cur].pending = slot[cur].pending
  /\ pc = "buy" => EntryOf(cur, slot[cur], venue) = {}

Books == Shapes /\ Agrees /\ Rests /\ Backed /\ Downs /\ StartSees /\ CycleSees /\ Awaits /\ Follows

(* A slot with a position has no pending entry, and the reverse.           *)
LEMMA OneOrOther ==
  ASSUME NEW k, NEW m, NEW s \in GoodSlot, Shape(k, m, s)
  PROVE  /\ s.qty > 0 => s.pending = 0
         /\ s.st \in {"POSITION_OPEN", "EXIT_PENDING"} => s.pending = 0 /\ s.qty > 0
         /\ s.st \notin {"POSITION_OPEN", "EXIT_PENDING"} => s.qty = 0
         /\ s.st # "ENTRY_PENDING" => s.pending = 0
BY SlotNats DEF Shape

(* Newer ids leave shapes and records alone.                               *)
LEMMA Newer ==
  ASSUME NEW n \in Nat, NEW m \in Nat, n <= m
  PROVE  /\ \A k : \A s \in GoodSlot : Shape(k, n, s) => Shape(k, m, s)
         /\ \A v \in Venues : OneRecord(n, v) => OneRecord(m, v)
<1>1. ASSUME NEW k, NEW s \in GoodSlot, Shape(k, n, s) PROVE Shape(k, m, s)
  BY <1>1, SlotNats DEF Shape
<1>2. ASSUME NEW v \in Venues, OneRecord(n, v) PROVE OneRecord(m, v)
  <2>1. \A o \in v.orders : o.id.e \in Nat
    BY DEF Venues, Orders, Ids
  <2>2. QED
    BY <1>2, <2>1 DEF OneRecord
<1>3. QED
  BY <1>1, <1>2

(* The types of what the books relate.                                     *)
LEMMA BookTypes ==
  ASSUME OInv
  PROVE  /\ \A u \in Underlyings : slot[u] \in GoodSlot /\ disk[u] \in GoodSlot
         /\ venue \in Venues /\ diskVenue \in Venues /\ Backup \in Venues
         /\ lastId \in Nat /\ todo \subseteq Underlyings
         /\ snap # NoSnap => \A u \in Underlyings : snap[u] \in Nat
BY DEF OInv, TypeOK, StepInv, Backup

(* A step of cycle() that ends in a slot which agrees with the venue.      *)
LEMMA EndStepBooks ==
  ASSUME OInv, OInv', Books, Running, requests = {}, NEW u \in Underlyings, NEW s \in GoodSlot,
         EndStep(u, s), cur \in {u, NoU}, world' = world, venue' = venue, requests' = requests,
         lastId <= lastId', Shape(world.kinds, lastId', s),
         Fits(world.kinds, u, s, venue), AtRest(world.kinds, u, s, venue),
         ~Steady(world.kinds) => Trails(u, s, disk[u], venue)
  PROVE  Books'
<1>1. /\ slot' = [slot EXCEPT ![u] = s] /\ pc' = "cycle" /\ cur' = NoU
      /\ \/ disk' = slot' /\ diskVenue' = IF Local THEN venue ELSE diskVenue
         \/ disk' = disk /\ diskVenue' = diskVenue
      /\ todo' \subseteq todo \ {u} /\ (snap' # NoSnap => snap' = snap)
  BY DEF EndStep, Saved, SaveFails
<1>2. /\ slot'[u] = s /\ \A x \in Underlyings : x # u => slot'[x] = slot[x]
      /\ slot \in [Underlyings -> GoodSlot]
  BY <1>1 DEF OInv, StepInv
<1>3. lastId \in Nat /\ lastId' \in Nat
  BY DEF OInv, TypeOK
<1>4. Shapes'
  <2>1. \A x \in Underlyings : Shape(world.kinds, lastId', slot'[x])
    BY <1>2, <1>3, Newer, BookTypes DEF Books, Shapes
  <2>2. \A x \in Underlyings : Shape(world.kinds, lastId', disk'[x])
    BY <1>1, <1>3, <2>1, Newer, BookTypes DEF Books, Shapes
  <2>3. OneRecord(lastId', venue') /\ OneRecord(lastId', diskVenue')
    BY <1>1, <1>3, Newer, BookTypes DEF Books, Shapes
  <2>4. QED
    BY <2>1, <2>2, <2>3 DEF Shapes
<1>5. \A x \in Underlyings : Fits(world.kinds, x, slot[x], venue)
  BY DEF Books, Agrees, Fresh
<1>6. \A x \in Underlyings : Fits(world.kinds, x, slot'[x], venue)
  BY <1>2, <1>5
<1>7. Agrees'
  BY <1>6 DEF Agrees
<1>8. \A x \in Underlyings : AtRest(world.kinds, x, slot'[x], venue)
  BY <1>2, OptionsAssumption DEF Books, Rests
<1>9. Rests'
  BY <1>8 DEF Rests
<1>10. Backed'
  <2> SUFFICES ASSUME Can("crash")
               PROVE  \A x \in Underlyings : /\ Fits(world.kinds, x, disk'[x], Backup')
                                             /\ AtRest(world.kinds, x, disk'[x], Backup')
    BY DEF Backed, Can
  <2>1. CASE disk' = slot' /\ diskVenue' = IF Local THEN venue ELSE diskVenue
    <3>1. Backup' = venue
      BY <2>1 DEF Backup, Local, Can
    <3>2. QED
      BY <1>6, <1>8, <2>1, <3>1
  <2>2. CASE disk' = disk /\ diskVenue' = diskVenue
    <3>1. Backup' = Backup
      BY <2>2 DEF Backup, Local, Can
    <3>2. ~Fresh
      BY DEF Fresh
    <3>3. QED
      BY <2>2, <3>1, <3>2 DEF Books, Backed
  <2>3. QED
    BY <1>1, <2>1, <2>2
<1>11. Downs' /\ StartSees' /\ Awaits'
  BY <1>1 DEF Downs, StartSees, Awaits, Running
<1>12. CycleSees'
  <2> SUFFICES ASSUME snap' # NoSnap, NEW x \in todo'
               PROVE  /\ venue.held[x] <= snap'[x]
                      /\ ~Can("external") => venue.held[x] = snap'[x]
                      /\ slot'[x].pending # 0 /\ EntryOf(x, slot'[x], venue) = {} => snap'[x] = 0
    BY DEF CycleSees, Can
  <2>1. snap' = snap /\ x \in todo \ {cur} /\ x \in Underlyings /\ slot'[x] = slot[x]
    BY <1>1, <1>2, BookTypes, OptionsAssumption
  <2>2. QED
    BY <2>1 DEF Books, CycleSees
<1>13. Follows'
  <2>1. ASSUME ~Steady(world.kinds), NEW x \in Underlyings PROVE Trails(x, slot'[x], disk'[x], venue)
    <3>1. CASE disk' = slot'
      <4>1. slot'[x].qty > 0 => slot'[x].pending = 0
        BY <1>4, OneOrOther, BookTypes DEF Shapes, OInv, StepInv
      <4>2. QED
        BY <3>1, <4>1 DEF Trails
    <3>2. CASE disk' = disk
      BY <1>2, <2>1, <3>2 DEF Books, Follows
    <3>3. QED
      BY <1>1, <3>1, <3>2
  <2>2. QED
    BY <1>1, <2>1 DEF Follows
<1>14. QED
  BY <1>4, <1>7, <1>9, <1>10, <1>11, <1>12, <1>13 DEF Books

(* What a step that is running may rely on.                                *)
LEMMA Underway ==
  ASSUME OInv, Books, Running
  PROVE  /\ \A u \in Underlyings : /\ slot[u] \in GoodSlot /\ Shape(world.kinds, lastId, slot[u])
                                   /\ Fits(world.kinds, u, slot[u], venue)
                                   /\ ~Steady(world.kinds) => Trails(u, slot[u], disk[u], venue)
         /\ pc # "answer" => requests = {}
         /\ pc = "answer" /\ ~OnWay(Awaited) => requests = {}
         /\ lastId \in Nat /\ venue \in Venues
<1>1. ~Fresh
  BY DEF Fresh
<1>2. \A r \in requests : pc = "answer" /\ OnWay(Awaited)
  BY DEF Books, Awaits, Running, OnWay
<1>3. QED
  BY <1>1, <1>2, BookTypes DEF Books, Shapes, Agrees, Follows

(* A step that ends with its slot unchanged.                               *)
LEMMA SameSlotBooks ==
  ASSUME OInv, OInv', Books, Running, requests = {}, NEW u \in Underlyings, StepTo(u, slot[u]),
         cur \in {u, NoU}, Restful(world.kinds) => pc # "answer"
  PROVE  Books'
<1>1. AtRest(world.kinds, u, slot[u], venue)
  BY DEF Books, Rests, AtRest
<1>2. world' = world /\ venue' = venue /\ requests' = requests /\ lastId' = lastId /\ EndStep(u, slot[u])
  BY DEF StepTo
<1>3. lastId <= lastId'
  BY <1>2, Underway
<1>4. QED
  BY <1>1, <1>2, <1>3, Underway, EndStepBooks

(* A step that ends with a slot of the given shape, after no new entry.    *)
LEMMA NewSlotBooks ==
  ASSUME OInv, OInv', Books, Running, requests = {}, NEW u \in Underlyings, NEW s \in GoodSlot, StepTo(u, s),
         cur \in {u, NoU}, Shape(world.kinds, lastId, s),
         Fits(world.kinds, u, s, venue), AtRest(world.kinds, u, s, venue),
         ~Steady(world.kinds) => Trails(u, s, disk[u], venue)
  PROVE  Books'
<1>1. world' = world /\ venue' = venue /\ requests' = requests /\ lastId' = lastId /\ EndStep(u, s)
  BY DEF StepTo
<1>2. lastId <= lastId'
  BY <1>1, Underway
<1>3. QED
  BY <1>1, <1>2, EndStepBooks

(* The slot ends without a position, as fire leaves one without it.        *)
LEMMA FlatStep ==
  ASSUME OInv, OInv', Books, Running, requests = {}, NEW u \in Underlyings, NEW s \in GoodSlot, StepTo(u, s),
         cur \in {u, NoU}, slot[u].qty = 0, slot[u].pending = 0,
         s.st \notin {"ENTRY_PENDING", "POSITION_OPEN", "EXIT_PENDING"},
         s.pending = 0, s.qty = 0, s.entry = slot[u].entry, s.attempts = slot[u].attempts,
         s.unresolved = slot[u].unresolved, s.adopted = slot[u].adopted, s.booked = slot[u].booked,
         s.writtenOff = slot[u].writtenOff
  PROVE  Books'
<1>1. Shape(world.kinds, lastId, s)
  BY Underway DEF Shape
<1>2. Fits(world.kinds, u, s, venue)
  BY Underway, SameNumbers
<1>3. AtRest(world.kinds, u, s, venue) /\ Trails(u, s, disk[u], venue)
  BY DEF AtRest, Trails
<1>4. QED
  BY <1>1, <1>2, <1>3, NewSlotBooks

(* Cooldowns, resets and refused signals keep the books.                   *)
LEMMA IdleBooks ==
  ASSUME OInv, OInv', Books, NEW u \in Underlyings, NothingToDo(u) \/ Reset(u) \/ (u = cur /\ Reject)
  PROVE  Books'
<1>1. Running /\ cur \in {u, NoU} /\ requests = {} /\ pc # "answer"
  <2>1. Running /\ cur \in {u, NoU} /\ pc # "answer"
    BY DEF NothingToDo, Reset, Reject, Stepping, Running, Books, Downs
  <2>2. QED
    BY <2>1, Underway
<1>2. slot[u] \in GoodSlot /\ Shape(world.kinds, lastId, slot[u])
  BY <1>1, Underway
<1>3. CASE NothingToDo(u)
  BY <1>1, <1>3, SameSlotBooks DEF NothingToDo
<1>4. CASE Reset(u)
  <2>1. PICK s : s = fire(slot[u], "RESET")
    OBVIOUS
  <2>2. /\ s.st = "IDLE" /\ s.pending = slot[u].pending /\ s.qty = slot[u].qty /\ s.entry = slot[u].entry
        /\ s.attempts = slot[u].attempts /\ s.unresolved = slot[u].unresolved
        /\ s.adopted = slot[u].adopted /\ s.booked = slot[u].booked /\ s.writtenOff = slot[u].writtenOff
        /\ s \in GoodSlot
    BY <1>2, <1>4, <2>1, Rows DEF Reset, fire, GoodSlot, Slots, States
  <2>3. slot[u].pending = 0 /\ slot[u].qty = 0
    BY <1>2, <1>4, OneOrOther DEF Reset
  <2>4. StepTo(u, s)
    BY <1>4, <2>1 DEF Reset
  <2>5. QED
    BY <1>1, <2>2, <2>3, <2>4, FlatStep
<1>5. CASE u = cur /\ Reject
  <2>1. PICK s : s = fire(slot[u], "REJECT")
    OBVIOUS
  <2>2. slot[u].st = "SIGNAL_DETECTED"
    BY <1>5 DEF Reject, OInv, StepInv, InStep
  <2>3. /\ s.st = "IDLE" /\ s.pending = slot[u].pending /\ s.qty = slot[u].qty /\ s.entry = slot[u].entry
        /\ s.attempts = slot[u].attempts /\ s.unresolved = slot[u].unresolved
        /\ s.adopted = slot[u].adopted /\ s.booked = slot[u].booked /\ s.writtenOff = slot[u].writtenOff
        /\ s \in GoodSlot
    BY <1>2, <2>1, <2>2, Rows DEF fire, GoodSlot, Slots, States
  <2>4. slot[u].pending = 0 /\ slot[u].qty = 0
    BY <1>2, <2>2, OneOrOther
  <2>5. StepTo(u, s)
    BY <1>5, <2>1 DEF Reject
  <2>6. QED
    BY <1>1, <2>3, <2>4, <2>5, FlatStep
<1>6. QED
  BY <1>3, <1>4, <1>5

(* An entry that is known to have bought nothing.                          *)
LEMMA NoFillStep ==
  ASSUME OInv, OInv', Books, Running, requests = {}, NEW u \in Underlyings, cur \in {u, NoU},
         slot[u].st = "ENTRY_PENDING", EntryOf(u, slot[u], venue) = {},
         StepTo(u, NoFill(slot[u]))
  PROVE  Books'
<1>1. PICK s : s = NoFill(slot[u])
  OBVIOUS
<1>2. slot[u] \in GoodSlot /\ Shape(world.kinds, lastId, slot[u]) /\ Fits(world.kinds, u, slot[u], venue)
  BY Underway
<1>3. /\ s \in GoodSlot /\ s.st = "IDLE" /\ s.pending = 0 /\ s.qty = 0
      /\ s.entry = slot[u].entry /\ s.attempts = slot[u].attempts /\ s.unresolved = slot[u].unresolved
  BY <1>1, <1>2, NoFillGood, NoFillFields, OneOrOther
<1>4. Shape(world.kinds, lastId, s)
  BY <1>2, <1>3, Underway DEF Shape
<1>5. Flat(world.kinds, u, s, venue)
  BY <1>1, <1>2 DEF Fits, Shape
<1>6. Fits(world.kinds, u, s, venue) /\ AtRest(world.kinds, u, s, venue) /\ Trails(u, s, disk[u], venue)
  BY <1>3, <1>5, FlatFits DEF Trails
<1>7. QED
  BY <1>1, <1>3, <1>4, <1>6, NewSlotBooks

(* An entry whose record at the venue is known.                            *)
LEMMA EntryKnownStep ==
  ASSUME Sound(world.kinds), OInv, OInv', Books, Running, requests = {}, NEW u \in Underlyings, cur \in {u, NoU},
         slot[u].st = "ENTRY_PENDING", NEW o \in EntryOf(u, slot[u], venue),
         StepTo(u, applyEntryResult(slot[u], o.filled))
  PROVE  Books'
<1>1. PICK s : s = applyEntryResult(slot[u], o.filled)
  OBVIOUS
<1>2. /\ slot[u] \in GoodSlot /\ Shape(world.kinds, lastId, slot[u]) /\ Fits(world.kinds, u, slot[u], venue)
      /\ ~Steady(world.kinds) => Trails(u, slot[u], disk[u], venue)
      /\ o.filled \in Nat /\ slot[u].pending # 0 /\ slot[u].qty = 0
  BY Underway, VenueNats, OneOrOther DEF EntryOf, Shape
<1>3. s \in GoodSlot
  BY <1>1, <1>2, FillGood
<1>4. Known(world.kinds, u, s, venue)
  BY <1>1, <1>2 DEF Fits
<1>5. CASE o.filled = 0
  <2>1. /\ s.st = "IDLE" /\ s.pending = 0 /\ s.qty = 0
        /\ s.entry = slot[u].entry /\ s.attempts = slot[u].attempts /\ s.unresolved = slot[u].unresolved
    BY <1>1, <1>2, <1>5, NoFillFields DEF applyEntryResult
  <2>2. Shape(world.kinds, lastId, s)
    BY <1>2, <2>1, Underway DEF Shape
  <2>3. Fits(world.kinds, u, s, venue) /\ AtRest(world.kinds, u, s, venue) /\ Trails(u, s, disk[u], venue)
    BY <1>4, <2>1 DEF Fits, AtRest, Trails
  <2>4. QED
    BY <1>1, <1>3, <2>2, <2>3, NewSlotBooks
<1>6. CASE o.filled # 0
  <2>1. /\ s.st = "POSITION_OPEN" /\ s.pending = 0 /\ s.qty = o.filled /\ s.entry = slot[u].pending
        /\ s.attempts = 0 /\ s.unresolved = 0
    BY <1>1, <1>2, <1>6, FillFields DEF applyEntryResult
  <2>2. Shape(world.kinds, lastId, s)
    BY <1>2, <1>6, <2>1, Underway, SlotNats DEF Shape
  <2>3. Fits(world.kinds, u, s, venue)
    BY <1>4, <2>1 DEF Fits
  <2>4. AtRest(world.kinds, u, s, venue)
    <3>1. Restful(world.kinds) => ExitsOf(u, slot[u].pending, venue) = {}
      BY <1>2 DEF Fits, Restful, Steady, Sound
    <3>2. QED
      BY <2>1, <3>1 DEF AtRest, Current
  <2>5. ~Steady(world.kinds) => Trails(u, s, disk[u], venue)
    <3> SUFFICES ASSUME ~Steady(world.kinds) PROVE Trails(u, s, disk[u], venue)
      OBVIOUS
    <3>1. disk[u].pending = slot[u].pending
      BY <1>2 DEF Trails
    <3>2. o \in EntryOf(u, disk[u], venue)
      BY <3>1 DEF EntryOf, EntryId
    <3>3. QED
      BY <1>2, <2>1, <3>1, <3>2 DEF Trails
  <2>6. QED
    BY <1>1, <1>3, <2>2, <2>3, <2>4, <2>5, NewSlotBooks
<1>7. QED
  BY <1>5, <1>6

(* buyToOpen refused, applyEntryResult, resolvePendingEntry and their      *)
(* failures keep the books.                                                *)
LEMMA EntryBooks ==
  ASSUME Sound(world.kinds), OInv, OInv', Books, NEW u \in Underlyings,
         \/ u = cur /\ pc = "buy" /\ StepTo(cur, NoFill(slot[cur]))
         \/ u = cur /\ (EntryAnswer \/ EntryUnknown)
         \/ ResolveEntry(u) \/ EntryUnresolved(u)
  PROVE  Books'
<1>1. Running /\ cur \in {u, NoU} /\ slot[u].st = "ENTRY_PENDING"
  BY DEF EntryAnswer, EntryUnknown, ResolveEntry, EntryUnresolved, Stepping, Running, Books, Downs,
         OInv, StepInv, InStep
<1>2. requests = {}
  BY <1>1, Underway DEF EntryAnswer, EntryUnknown, ResolveEntry, EntryUnresolved, Stepping, MayThrow, Can, Sound
<1>3. Awaited = EntryId(cur, slot[cur]) \/ u # cur
  BY <1>1 DEF Awaited
<1>4. \A i : findOrder(i) = {o \in venue.orders : o.id = i}
  BY DEF findOrder
<1>5. CASE u = cur /\ pc = "buy" /\ StepTo(cur, NoFill(slot[cur]))
  <2>1. EntryOf(u, slot[u], venue) = {}
    BY <1>5 DEF Books, Follows
  <2>2. QED
    BY <1>1, <1>2, <1>5, <2>1, NoFillStep
<1>6. CASE u = cur /\ EntryAnswer
  <2>1. PICK o \in findOrder(Awaited) : StepTo(cur, applyEntryResult(slot[cur], o.filled))
    BY <1>6 DEF EntryAnswer
  <2>2. o \in EntryOf(u, slot[u], venue)
    BY <1>3, <1>4, <1>6, <2>1 DEF EntryOf
  <2>3. QED
    BY <1>1, <1>2, <1>6, <2>1, <2>2, EntryKnownStep
<1>7. CASE u = cur /\ EntryUnknown
  <2>1. ~Restful(world.kinds)
    BY <1>7 DEF EntryUnknown, MayThrow, Can, Restful, Sound
  <2>2. QED
    BY <1>1, <1>2, <1>7, <2>1, SameSlotBooks DEF EntryUnknown
<1>8. CASE ResolveEntry(u)
  <2>1. PICK s \in resolvedEntry(u) : StepTo(u, s)
    BY <1>8 DEF ResolveEntry
  <2>2. findOrder(EntryId(u, slot[u])) = EntryOf(u, slot[u], venue)
    BY <1>4 DEF EntryOf
  <2>3. CASE EntryOf(u, slot[u], venue) # {}
    <3>1. PICK o \in EntryOf(u, slot[u], venue) : s = applyEntryResult(slot[u], o.filled)
      BY <2>1, <2>2, <2>3 DEF resolvedEntry
    <3>2. QED
      BY <1>1, <1>2, <2>1, <3>1, EntryKnownStep
  <2>4. CASE EntryOf(u, slot[u], venue) = {}
    <3>1. snap # NoSnap /\ s = IF snap[u] > 0 THEN Fill(slot[u], snap[u]) ELSE NoFill(slot[u])
      BY <2>1, <2>2, <2>4 DEF resolvedEntry
    <3>2. slot[u].pending # 0 /\ u \in todo \ {cur}
      BY <1>1, <1>8, Underway, OptionsAssumption DEF ResolveEntry, Stepping, Shape, Books, Downs
    <3>3. snap[u] = 0
      BY <1>1, <2>4, <3>1, <3>2 DEF Books, CycleSees
    <3>4. QED
      BY <1>1, <1>2, <2>1, <2>4, <3>1, <3>3, NoFillStep
  <2>5. QED
    BY <2>3, <2>4
<1>9. CASE EntryUnresolved(u)
  <2>1. pc # "answer"
    BY <1>9 DEF EntryUnresolved, Stepping
  <2>2. QED
    BY <1>1, <1>2, <1>9, <2>1, SameSlotBooks DEF EntryUnresolved
<1>10. QED
  BY <1>5, <1>6, <1>7, <1>8, <1>9

(* The slot in the file is an earlier state of one with the same position. *)
LEMMA SameTrail ==
  ASSUME NEW u, NEW s, NEW t, NEW d, NEW v, Trails(u, s, d, v), t.pending = 0,
         t.qty > 0 => t.qty = s.qty /\ t.entry = s.entry
  PROVE  Trails(u, t, d, v)
BY DEF Trails

(* An exit that is answered, refused or looked up.                         *)
LEMMA ExitStep ==
  ASSUME Sound(world.kinds), OInv, OInv', Books, Running, requests = {}, NEW u \in Underlyings, cur \in {u, NoU},
         slot[u].st = "EXIT_PENDING", NEW n \in Nat,
         \/ n = 0 /\ ~Local
         \/ \E o \in Current(u, slot[u], venue) : o.filled = n /\ o.id.k = ExitId(u, slot[u]).k,
         StepTo(u, applyExitResult(slot[u], n))
  PROVE  Books'
<1>1. PICK t : t = applyExitResult(slot[u], n)
  OBVIOUS
<1>2. /\ slot[u] \in GoodSlot /\ Shape(world.kinds, lastId, slot[u]) /\ Fits(world.kinds, u, slot[u], venue)
      /\ ~Steady(world.kinds) => Trails(u, slot[u], disk[u], venue)
      /\ venue \in Venues /\ lastId \in Nat
  BY Underway
<1>3. slot[u].pending = 0 /\ slot[u].qty > 0
  BY <1>2, OneOrOther
<1>4. Fits(world.kinds, u, t, venue) /\ AtRest(world.kinds, u, t, venue)
  BY <1>1, <1>2, <1>3, ExitApplied DEF Local, Can
<1>5. t \in GoodSlot
  BY <1>1, <1>2, ExitGood
<1>6. n <= slot[u].qty /\ ("thin" \notin world.kinds => n \in {0, slot[u].qty})
  <2>1. CASE n = 0
    BY <2>1, <1>2, SlotNats
  <2>2. CASE \E o \in Current(u, slot[u], venue) : o.filled = n
    <3>1. Open(world.kinds, u, slot[u], venue)
      BY <1>2, <1>3 DEF Fits, Known
    <3>2. venue.held[u] + n <= slot[u].qty /\ ("thin" \notin world.kinds => n \in {0, slot[u].qty})
      BY <2>2, <3>1 DEF Open, Pays
    <3>3. QED
      BY <1>2, <3>2, SlotNats, VenueNats
  <2>3. QED
    BY <2>1, <2>2
<1>7. /\ t.pending = 0 /\ t.qty = slot[u].qty - n
      /\ n < slot[u].qty => /\ t.st = "EXIT_PENDING" /\ t.entry = slot[u].entry
                            /\ t.attempts = slot[u].attempts + 1 /\ t.unresolved = 0
      /\ n = slot[u].qty => t.st = "POSITION_CLOSED" /\ t.entry = 0 /\ t.attempts = 0 /\ t.unresolved = 0
  BY <1>1, <1>2, <1>3, <1>6, ExitFields
<1>8. Shape(world.kinds, lastId, t)
  <2>1. CASE n < slot[u].qty
    <3>1. t.qty > 0 /\ t.attempts \in Nat
      BY <1>2, <1>7, <2>1, SlotNats
    <3>2. QED
      BY <1>2, <1>7, <2>1, <3>1 DEF Shape
  <2>2. CASE n = slot[u].qty
    <3>1. t.qty = 0
      BY <1>2, <1>7, <2>2, SlotNats
    <3>2. QED
      BY <1>2, <1>7, <2>2, <3>1 DEF Shape
  <2>3. QED
    BY <1>2, <1>6, <2>1, <2>2, SlotNats
<1>9. ~Steady(world.kinds) => Trails(u, t, disk[u], venue)
  <2> SUFFICES ASSUME ~Steady(world.kinds) PROVE Trails(u, t, disk[u], venue)
    OBVIOUS
  <2>1. n \in {0, slot[u].qty}
    BY <1>6 DEF Steady, Sound
  <2>2. t.qty > 0 => t.qty = slot[u].qty /\ t.entry = slot[u].entry
    BY <1>2, <1>3, <1>7, <2>1, SlotNats
  <2>3. QED
    BY <1>2, <1>7, <2>2, SameTrail
<1>10. QED
  BY <1>1, <1>4, <1>5, <1>8, <1>9, NewSlotBooks

(* An exit that failed; j is the id that is kept.                          *)
LEMMA ExitFailedStep ==
  ASSUME Sound(world.kinds), OInv, OInv', Books, Running, requests = {}, NEW u \in Underlyings, cur \in {u, NoU},
         NEW s \in GoodSlot, s.st = "EXIT_PENDING", Shape(world.kinds, lastId, s),
         Fits(world.kinds, u, s, venue), AtRest(world.kinds, u, s, venue),
         ~Steady(world.kinds) => Trails(u, s, disk[u], venue),
         NEW j \in Nat, j \in {s.unresolved, ExitId(u, s).k}, j # 0 => "lost" \in world.kinds,
         StepTo(u, exitFailed([s EXCEPT !.unresolved = j]))
  PROVE  Books'
<1>1. PICK t : t = exitFailed([s EXCEPT !.unresolved = j])
  OBVIOUS
<1>2. s.pending = 0 /\ s.qty > 0 /\ venue \in Venues /\ lastId \in Nat
  BY OneOrOther, Underway
<1>3. Fits(world.kinds, u, t, venue) /\ AtRest(world.kinds, u, t, venue)
  BY <1>1, <1>2, ExitFailedFits
<1>4. t \in GoodSlot
  BY <1>1, UnknownGood
<1>5. /\ t.st = "EXIT_PENDING" /\ t.pending = 0 /\ t.qty = s.qty /\ t.entry = s.entry
      /\ t.attempts = s.attempts + 1 /\ t.unresolved = j
  BY <1>1, <1>2, FailFields
<1>6. j <= s.attempts + 1
  BY SlotNats DEF Shape, ExitId
<1>7. Shape(world.kinds, lastId, t)
  BY <1>2, <1>5, <1>6 DEF Shape
<1>8. ~Steady(world.kinds) => Trails(u, t, disk[u], venue)
  BY <1>5, SameTrail
<1>9. QED
  BY <1>1, <1>3, <1>4, <1>7, <1>8, NewSlotBooks

(* An exit found by the id the slot uses is one it has not applied.        *)
LEMMA FoundIsCurrent ==
  ASSUME NEW u, NEW s \in GoodSlot, NEW v, NEW o \in v.orders, o.id = ExitId(u, s)
  PROVE  o \in Current(u, s, v) /\ o.id.k = ExitId(u, s).k
<1>1. o.id.u = u /\ o.id.e = s.entry /\ o.id.k = IF s.unresolved # 0 THEN s.unresolved ELSE s.attempts + 1
  BY DEF ExitId
<1>2. o.id.k # 0 /\ (o.id.k > s.attempts \/ o.id.k = s.unresolved)
  BY <1>1, SlotNats
<1>3. QED
  BY <1>1, <1>2 DEF Current, ExitsOf

(* executeExit, detectExternalClose and the steps of manage that end at    *)
(* once keep the books.                                                    *)
LEMMA ExitBooks ==
  ASSUME Sound(world.kinds), OInv, OInv', Books, NEW u \in Underlyings,
         \/ u = cur /\ pc = "sell" /\ Refusable /\ StepTo(cur, applyExitResult(slot[cur], 0))
         \/ u = cur /\ (ExitAnswer \/ ExitUnknown)
         \/ GoneByExit(u) \/ GoneWrittenOff(u) \/ GoneUnknown(u) \/ Hold(u) \/ NoQuote(u)
  PROVE  Books'
<1>1. Running /\ cur \in {u, NoU} /\ slot[u].st \in {"POSITION_OPEN", "EXIT_PENDING"}
  BY DEF ExitAnswer, ExitUnknown, GoneByExit, GoneWrittenOff, GoneUnknown, Hold, NoQuote, Holding,
         Stepping, Running, Books, Downs, OInv, StepInv, InStep
<1>2. requests = {}
  BY <1>1, Underway DEF ExitAnswer, ExitUnknown, GoneByExit, GoneWrittenOff, GoneUnknown, Hold, NoQuote,
                        Stepping, MayThrow, Can, Sound
<1>3. /\ slot[u] \in GoodSlot /\ Shape(world.kinds, lastId, slot[u]) /\ Fits(world.kinds, u, slot[u], venue)
      /\ ~Steady(world.kinds) => Trails(u, slot[u], disk[u], venue)
      /\ venue \in Venues /\ lastId \in Nat
  BY <1>1, Underway
<1>4. slot[u].pending = 0 /\ slot[u].qty > 0 /\ Open(world.kinds, u, slot[u], venue)
  BY <1>1, <1>3, OneOrOther DEF Fits, Known
<1>5. ASSUME Stepping(u), Gone(u) PROVE venue.held[u] = 0 /\ pc # "answer"
  <2>1. u \in todo \ {cur} /\ snap # NoSnap /\ snap[u] = 0 /\ pc = "cycle"
    BY <1>5, OptionsAssumption DEF Stepping, Gone, Books, Downs
  <2>2. venue.held[u] <= 0
    BY <1>1, <2>1 DEF Books, CycleSees
  <2>3. QED
    BY <1>3, <2>1, <2>2, VenueNats
<1>6. CASE u = cur /\ pc = "sell" /\ Refusable /\ StepTo(cur, applyExitResult(slot[cur], 0))
  <2>1. slot[u].st = "EXIT_PENDING" /\ ~Local
    BY <1>6 DEF OInv, StepInv, InStep, Refusable
  <2>2. QED
    BY <1>1, <1>2, <1>6, <2>1, ExitStep
<1>7. CASE u = cur /\ ExitAnswer
  <2>1. PICK o \in findOrder(Awaited) : StepTo(cur, applyExitResult(slot[cur], o.filled))
    BY <1>7 DEF ExitAnswer
  <2>2. slot[u].st = "EXIT_PENDING" /\ Awaited = ExitId(u, slot[u])
    BY <1>7 DEF ExitAnswer, Awaited
  <2>3. o \in venue.orders /\ o.id = ExitId(u, slot[u]) /\ o.filled \in Nat
    BY <1>3, <2>1, <2>2, VenueNats DEF findOrder
  <2>4. o \in Current(u, slot[u], venue) /\ o.id.k = ExitId(u, slot[u]).k
    BY <1>3, <2>3, FoundIsCurrent
  <2>5. QED
    BY <1>1, <1>2, <1>7, <2>1, <2>2, <2>3, <2>4, ExitStep
<1>8. CASE u = cur /\ ExitUnknown
  <2>1. slot[u].st = "EXIT_PENDING" /\ Awaited = ExitId(u, slot[u]) /\ "lost" \in world.kinds
    BY <1>8 DEF ExitUnknown, Awaited, MayThrow, Can
  <2>2. AtRest(world.kinds, u, slot[u], venue)
    BY <2>1 DEF AtRest, Restful, Sound
  <2>3. ExitId(u, slot[u]).k \in Nat
    BY <1>3, SlotNats DEF ExitId
  <2>4. StepTo(u, exitFailed([slot[u] EXCEPT !.unresolved = ExitId(u, slot[u]).k]))
    BY <1>8, <2>1 DEF ExitUnknown
  <2>5. QED
    BY <1>1, <1>2, <1>3, <2>1, <2>2, <2>3, <2>4, ExitFailedStep
<1>9. CASE GoneByExit(u)
  <2>1. /\ slot[u].unresolved # 0 /\ slot[u].st = "EXIT_PENDING" /\ venue.held[u] = 0
        /\ StepTo(u, applyExitResult(slot[u], slot[u].qty))
    BY <1>3, <1>5, <1>9, SlotNats DEF GoneByExit
  <2>2. PICK o \in venue.orders : o.id = ExitId(u, slot[u]) /\ o.filled > 0
    BY <1>9 DEF GoneByExit, ExitFound, findOrder
  <2>3. o \in Current(u, slot[u], venue) /\ o.filled \in Nat
    BY <1>3, <2>2, FoundIsCurrent, VenueNats
  <2>4. Pays(world.kinds, u, slot[u], venue, o)
    BY <1>4, <2>3 DEF Open
  <2>5. Exact(world.kinds) => slot[u].booked + slot[u].qty <= venue.sold[u]
    <3> SUFFICES ASSUME Exact(world.kinds) PROVE slot[u].booked + slot[u].qty <= venue.sold[u]
      OBVIOUS
    <3>1. CASE "external" \notin world.kinds
      BY <1>3, <1>4, <2>1, <3>1, SlotNats, VenueNats DEF Open
    <3>2. CASE "thin" \notin world.kinds
      <4>1. o.filled = slot[u].qty
        BY <2>2, <2>3, <2>4, <3>2 DEF Pays
      <4>2. QED
        BY <2>4, <4>1 DEF Pays
    <3>3. CASE "lost" \notin world.kinds
      BY <1>3, <2>1, <3>3 DEF Shape
    <3>4. QED
      BY <3>1, <3>2, <3>3 DEF Exact
  <2>6. PICK t : t = applyExitResult(slot[u], slot[u].qty)
    OBVIOUS
  <2>7. Fits(world.kinds, u, t, venue) /\ AtRest(world.kinds, u, t, venue)
    BY <1>3, <1>4, <2>1, <2>5, <2>6, BookedFits
  <2>8. slot[u].qty \in Nat /\ slot[u].qty <= slot[u].qty /\ slot[u].qty - slot[u].qty = 0
    BY <1>3, SlotNats
  <2>9. /\ t \in GoodSlot /\ t.st = "POSITION_CLOSED" /\ t.pending = 0 /\ t.qty = 0 /\ t.entry = 0
        /\ t.attempts = 0 /\ t.unresolved = 0
    BY <1>3, <1>4, <2>1, <2>6, <2>8, ExitFields, ExitGood
  <2>10. Shape(world.kinds, lastId, t) /\ Trails(u, t, disk[u], venue)
    BY <1>3, <2>9 DEF Shape, Trails
  <2>11. QED
    BY <1>1, <1>2, <2>1, <2>6, <2>7, <2>9, <2>10, NewSlotBooks
<1>10. CASE GoneWrittenOff(u)
  <2>1. PICK t : t = closeOut([slot[u] EXCEPT !.writtenOff = @ + slot[u].qty], "EXTERNAL_CLOSE")
    OBVIOUS
  <2>2. venue.held[u] = 0 /\ StepTo(u, t)
    BY <1>5, <1>10, <2>1 DEF GoneWrittenOff
  <2>3. Fits(world.kinds, u, t, venue) /\ AtRest(world.kinds, u, t, venue)
    BY <1>1, <1>3, <1>4, <2>1, <2>2, WrittenOffFits
  <2>4. /\ t.st = "POSITION_CLOSED" /\ t.pending = 0 /\ t.qty = 0 /\ t.entry = 0
        /\ t.attempts = 0 /\ t.unresolved = 0
    BY <1>1, <1>3, <1>4, <2>1, WrittenOffFields
  <2>5. t \in GoodSlot
    <3>1. slot'[u] = t
      BY <2>2 DEF StepTo, EndStep, OInv, StepInv
    <3>2. QED
      BY <3>1 DEF OInv, StepInv
  <2>6. Shape(world.kinds, lastId, t) /\ Trails(u, t, disk[u], venue)
    BY <1>3, <2>4 DEF Shape, Trails
  <2>7. QED
    BY <1>1, <1>2, <2>2, <2>3, <2>5, <2>6, NewSlotBooks
<1>11. CASE GoneUnknown(u)
  BY <1>1, <1>2, <1>5, <1>11, SameSlotBooks DEF GoneUnknown
<1>12. CASE Hold(u)
  BY <1>1, <1>2, <1>12, SameSlotBooks DEF Hold, Stepping
<1>13. CASE NoQuote(u)
  <2>1. PICK s : s = Triggered(slot[u])
    OBVIOUS
  <2>2. s \in GoodSlot /\ s.st = "EXIT_PENDING"
    BY <1>1, <1>3, <2>1, TriggeredGood
  <2>3. /\ s.pending = 0 /\ s.qty = slot[u].qty /\ s.entry = slot[u].entry
        /\ s.attempts = slot[u].attempts /\ s.unresolved = slot[u].unresolved /\ s.adopted = slot[u].adopted
        /\ s.booked = slot[u].booked /\ s.writtenOff = slot[u].writtenOff
    BY <1>1, <1>3, <1>4, <2>1, TriggeredFields
  <2>4. Shape(world.kinds, lastId, s)
    BY <1>3, <1>4, <2>2, <2>3 DEF Shape
  <2>5. AtRest(world.kinds, u, slot[u], venue)
    BY <1>13 DEF NoQuote, Stepping, Books, Rests
  <2>6. Fits(world.kinds, u, s, venue) /\ AtRest(world.kinds, u, s, venue)
    BY <1>3, <1>4, <2>3, <2>5, SameNumbers
  <2>7. ~Steady(world.kinds) => Trails(u, s, disk[u], venue)
    BY <1>3, <2>3, SameTrail
  <2>8. [s EXCEPT !.unresolved = s.unresolved] = s
    BY <2>2 DEF GoodSlot, Slots
  <2>9. StepTo(u, exitFailed([s EXCEPT !.unresolved = s.unresolved]))
    BY <1>13, <2>1, <2>8 DEF NoQuote
  <2>10. s.unresolved \in Nat /\ (s.unresolved # 0 => "lost" \in world.kinds)
    BY <2>2, <2>4, SlotNats DEF Shape
  <2>11. QED
    BY <1>1, <1>2, <2>2, <2>4, <2>6, <2>7, <2>9, <2>10, ExitFailedStep
<1>14. QED
  BY <1>6, <1>7, <1>8, <1>9, <1>10, <1>11, <1>12, <1>13

(* A fresh installation stays one while only the process moves.            *)
LEMMA StaysFresh ==
  ASSUME Fresh, UNCHANGED <<world, requests, disk, venue, diskVenue>>, pc' \in {"down", "start"},
         pc' = "start" => (pc = "start" /\ snap' = snap) \/ snap' = venue.held
  PROVE  Fresh'
<1>1. PICK x : \A u \in Underlyings \ {x} : venue.held[u] = 0 /\ (pc = "start" => snap[u] = 0)
  BY DEF Fresh
<1>2. \A u \in Underlyings \ {x} : venue'.held[u] = 0 /\ (pc' = "start" => snap'[u] = 0)
  BY <1>1
<1>3. QED
  BY <1>2 DEF Fresh, Running, Local, Can

(* start() reads the positions, and gives up when it cannot.               *)
LEMMA StartBooks ==
  ASSUME Sound(world.kinds), OInv, OInv', Books, StartPositions \/ StartFails
  PROVE  Books'
<1>1. UNCHANGED <<world, slot, disk, venue, diskVenue, requests, cur, todo, lastId>>
  BY DEF StartPositions, StartFails
<1>2. /\ pc \in {"down", "start"} /\ pc' \in {"down", "start"} /\ ~Running
      /\ pc' = "start" => StartPositions /\ snap' = venue.held
  BY DEF StartPositions, StartFails, Running
<1>3. Fresh => Fresh'
  BY <1>1, <1>2, StaysFresh
<1>4. Shapes' /\ Agrees' /\ Rests' /\ Backed'
  BY <1>1, <1>2, <1>3 DEF Books, Shapes, Agrees, Rests, Backed, Backup, Local, Can
<1>5. Downs'
  BY <1>1, <1>2, <1>3 DEF Books, Downs, Running, Can
<1>6. CycleSees'
  BY <1>2 DEF CycleSees, Running
<1>7. Awaits'
  <2>1. pc' = "down" \/ requests = {}
    BY <1>2 DEF StartPositions, Can, Sound
  <2>2. CASE requests = {}
    BY <1>1, <2>2 DEF Awaits
  <2>3. CASE pc' = "down" /\ requests # {}
    <3>1. pc = "down"
      BY <1>2, <2>3 DEF Books, StartSees
    <3>2. QED
      BY <1>1, <2>3, <3>1 DEF Books, Awaits, Awaited, Local, Can
  <2>4. QED
    BY <2>1, <2>2, <2>3
<1>8. Follows'
  BY <1>1, <1>2 DEF Books, Follows
<1>9. StartSees'
  <2> SUFFICES ASSUME pc' = "start" PROVE StartSees'
    BY DEF StartSees
  <2>1. requests = {} /\ snap' = venue.held
    BY <1>2 DEF StartPositions, Can, Sound
  <2>2. ASSUME NEW u \in Underlyings, ~Fresh, disk[u].pending = 0 PROVE venue.held[u] \in {0, disk[u].qty}
    <3>1. /\ slot = disk /\ Can("crash") /\ Fits(world.kinds, u, disk[u], venue)
          /\ AtRest(world.kinds, u, disk[u], venue) /\ disk[u] \in GoodSlot
      BY <1>2, <2>2, BookTypes DEF Books, Downs, Agrees, Rests
    <3>2. CASE disk[u].qty > 0
      BY <2>2, <3>1, <3>2 DEF Fits, Known, Open, AtRest, Restful, Can
    <3>3. CASE ~(disk[u].qty > 0)
      BY <2>2, <3>1, <3>3 DEF Fits, Known, Flat
    <3>4. QED
      BY <3>2, <3>3
  <2>3. QED
    BY <1>1, <1>3, <2>1, <2>2 DEF StartSees, Can
<1>10. QED
  BY <1>4, <1>5, <1>6, <1>7, <1>8, <1>9 DEF Books

(* reconcile changes nothing that the file knows of: the positions it has  *)
(* read are the slots' own.                                                *)
LEMMA ReconcileSame ==
  ASSUME OInv, Books, pc = "start", ~Fresh, NEW u \in Underlyings
  PROVE  reconciled(u) = disk[u] /\ ~Adopts(u)
<1>1. disk[u] \in GoodSlot /\ Shape(world.kinds, lastId, disk[u])
  BY BookTypes DEF Books, Shapes
<1>2. disk[u].pending = 0 => snap[u] \in {0, disk[u].qty}
  BY DEF Books, StartSees
<1>3. ~Adopts(u)
  BY <1>1, <1>2, OneOrOther DEF Adopts
<1>4. ASSUME disk[u].st \in {"POSITION_OPEN", "EXIT_PENDING"}, snap[u] > 0
      PROVE  [disk[u] EXCEPT !.qty = snap[u]] = disk[u]
  <2>1. snap[u] = disk[u].qty
    BY <1>1, <1>2, <1>4, OneOrOther
  <2>2. QED
    BY <1>1, <2>1 DEF GoodSlot, Slots
<1>5. QED
  BY <1>3, <1>4 DEF reconciled

(* What a fresh installation adopts.                                       *)
LEMMA ReconcileFresh ==
  ASSUME OInv, OInv', Books, Fresh, StartReconcile, NEW u \in Underlyings
  PROVE  /\ Shape(world.kinds, lastId', reconciled(u)) /\ Fits(world.kinds, u, reconciled(u), venue)
         /\ AtRest(world.kinds, u, reconciled(u), venue)
         /\ reconciled(u).st \in {"IDLE", "POSITION_OPEN"}
         /\ reconciled(u).st = "POSITION_OPEN" => snap[u] > 0
<1>1. /\ disk[u] = emptySlot /\ venue.orders = {} /\ venue.bought[u] = 0 /\ venue.sold[u] = 0
      /\ pc = "start" /\ lastId \in Nat /\ venue \in Venues /\ lastId' \in Nat
  BY DEF Fresh, StartReconcile, OInv, TypeOK
<1>2. snap[u] \in Nat /\ venue.held[u] \in Nat
  BY <1>1, VenueNats DEF OInv, StepInv
<1>3. venue.held[u] \in {0, snap[u]} /\ ("external" \notin world.kinds => venue.held[u] = snap[u])
  BY <1>1 DEF Books, StartSees, Can
<1>4. CASE snap[u] > 0
  <2>1. PICK t : t = adopted(u)
    OBVIOUS
  <2>2. reconciled(u) = t /\ lastId' = lastId + 1
    BY <1>1, <1>4, <2>1 DEF reconciled, Adopts, emptySlot, StartReconcile
  <2>3. /\ t.st = "POSITION_OPEN" /\ t.pending = 0 /\ t.qty = snap[u] /\ t.entry = lastId + 1
        /\ t.attempts = 0 /\ t.unresolved = 0 /\ t.adopted = 0 + snap[u] /\ t.booked = 0 /\ t.writtenOff = 0
    BY <1>1, <2>1, Rows DEF adopted, fire, emptySlot
  <2>4. Shape(world.kinds, lastId', t)
    BY <1>1, <1>4, <2>2, <2>3 DEF Shape
  <2>5. Current(u, t, venue) = {}
    BY <1>1 DEF Current, ExitsOf
  <2>6. /\ venue.bought[u] + t.adopted = t.qty + t.booked + t.writtenOff
        /\ venue.held[u] <= t.qty /\ t.booked <= venue.sold[u] /\ venue.held[u] \in {0, t.qty}
        /\ "external" \notin world.kinds => t.booked + t.qty <= venue.sold[u] + venue.held[u]
    BY <1>1, <1>2, <1>3, <2>3
  <2>7. Open(world.kinds, u, t, venue)
    BY <2>5, <2>6 DEF Open
  <2>8. QED
    BY <1>4, <2>2, <2>3, <2>4, <2>5, <2>7 DEF Fits, Known, AtRest
<1>5. CASE ~(snap[u] > 0)
  <2>1. reconciled(u) = emptySlot
    BY <1>1, <1>5 DEF reconciled, Adopts
  <2>2. /\ emptySlot.st = "IDLE" /\ emptySlot.pending = 0 /\ emptySlot.qty = 0 /\ emptySlot.entry = 0
        /\ emptySlot.attempts = 0 /\ emptySlot.unresolved = 0 /\ emptySlot.adopted = 0
        /\ emptySlot.booked = 0 /\ emptySlot.writtenOff = 0
    BY DEF emptySlot
  <2>3. venue.held[u] = 0
    BY <1>2, <1>3, <1>5
  <2>4. Flat(world.kinds, u, emptySlot, venue)
    BY <1>1, <2>2, <2>3 DEF Flat
  <2>5. Shape(world.kinds, lastId', emptySlot)
    BY <1>1, <2>2 DEF Shape
  <2>6. QED
    BY <2>1, <2>2, <2>4, <2>5, FlatFits
<1>6. QED
  BY <1>4, <1>5

(* reconcile and its save keep the books.                                  *)
LEMMA ReconcileBooks ==
  ASSUME OInv, OInv', Books, StartReconcile
  PROVE  Books'
<1>1. /\ pc = "start" /\ pc' = "cycle" /\ cur' = cur /\ world' = world /\ venue' = venue
      /\ requests' = requests /\ snap' = NoSnap /\ disk' = slot'
      /\ diskVenue' = IF Local THEN venue ELSE diskVenue
  BY DEF StartReconcile, Saved
<1>2. requests = {} /\ cur = NoU /\ slot = disk /\ (~Fresh => Can("crash"))
  BY <1>1 DEF Books, StartSees, Downs, Running
<1>3. lastId \in Nat /\ lastId' \in Nat /\ lastId <= lastId'
  BY DEF StartReconcile, OInv, TypeOK
<1>4. ASSUME NEW u \in Underlyings
      PROVE  /\ slot'[u] \in GoodSlot /\ Shape(world.kinds, lastId', slot'[u])
             /\ Fits(world.kinds, u, slot'[u], venue) /\ AtRest(world.kinds, u, slot'[u], venue)
  <2>1. slot'[u] = reconciled(u) /\ slot'[u] \in GoodSlot
    BY DEF StartReconcile, OInv, StepInv
  <2>2. CASE Fresh
    BY <2>1, <2>2, ReconcileFresh
  <2>3. CASE ~Fresh
    <3>1. slot'[u] = disk[u]
      BY <1>1, <2>1, <2>3, ReconcileSame
    <3>2. Shape(world.kinds, lastId, disk[u]) /\ disk[u] \in GoodSlot
      BY BookTypes DEF Books, Shapes
    <3>3. Fits(world.kinds, u, disk[u], venue) /\ AtRest(world.kinds, u, disk[u], venue)
      BY <1>1, <1>2, <2>3 DEF Books, Agrees, Rests
    <3>4. QED
      BY <1>3, <3>1, <3>2, <3>3, Newer
  <2>4. QED
    BY <2>2, <2>3
<1>5. Backup' = venue
  BY <1>1 DEF Backup, Local, Can
<1>6. OneRecord(lastId', venue') /\ OneRecord(lastId', diskVenue')
  BY <1>1, <1>3, Newer, BookTypes DEF Books, Shapes
<1>7. Shapes'
  BY <1>1, <1>4, <1>6 DEF Shapes
<1>8. Agrees' /\ Rests' /\ Backed'
  BY <1>1, <1>4, <1>5 DEF Agrees, Rests, Backed
<1>9. Downs' /\ StartSees' /\ CycleSees' /\ Awaits'
  BY <1>1, <1>2 DEF Downs, StartSees, CycleSees, Awaits, Running
<1>10. ASSUME NEW u \in Underlyings PROVE Trails(u, slot'[u], disk'[u], venue')
  <2>1. slot'[u].qty > 0 => slot'[u].pending = 0
    BY <1>4, OneOrOther
  <2>2. QED
    BY <1>1, <2>1 DEF Trails
<1>11. Follows'
  BY <1>1, <1>10 DEF Follows
<1>12. QED
  BY <1>7, <1>8, <1>9, <1>11 DEF Books

(* cycle() reads the positions, or cannot.                                 *)
LEMMA PositionsBooks ==
  ASSUME OInv, OInv', Books, Positions \/ PositionsUnavailable
  PROVE  Books'
<1>1. /\ pc = "cycle" /\ UNCHANGED <<world, slot, disk, venue, diskVenue, requests, pc, cur, lastId>>
      /\ snap' = NoSnap \/ snap' = venue.held
      /\ todo' \subseteq Underlyings
  BY DEF Positions, PositionsUnavailable, BeginCycle, OInv, TypeOK
<1>2. Running /\ ~Fresh
  BY <1>1 DEF Running, Fresh
<1>3. Shapes' /\ Agrees' /\ Rests' /\ Backed' /\ Downs' /\ StartSees' /\ Follows'
  BY <1>1, <1>2 DEF Books, Shapes, Agrees, Rests, Backed, Backup, Downs, StartSees, Follows, Running, Local, Can
<1>4. Awaits'
  <2>1. requests = {}
    BY <1>1, <1>2, Underway
  <2>2. QED
    BY <1>1, <2>1 DEF Awaits
<1>5. CycleSees'
  <2> SUFFICES ASSUME snap' # NoSnap, NEW u \in todo'
               PROVE  /\ venue.held[u] <= snap'[u]
                      /\ ~Can("external") => venue.held[u] = snap'[u]
                      /\ slot[u].pending # 0 /\ EntryOf(u, slot[u], venue) = {} => snap'[u] = 0
    BY <1>1 DEF CycleSees, Can
  <2>1. snap' = venue.held /\ u \in Underlyings
    BY <1>1
  <2>2. Fits(world.kinds, u, slot[u], venue) /\ venue.held[u] \in Nat
    BY <1>2, <2>1, Underway, VenueNats
  <2>3. slot[u].pending # 0 /\ EntryOf(u, slot[u], venue) = {} => venue.held[u] = 0
    BY <2>2 DEF Fits, Flat
  <2>4. QED
    BY <2>1, <2>2, <2>3
<1>6. QED
  BY <1>3, <1>4, <1>5 DEF Books

(* A step of cycle() that changes its slot and awaits something else than  *)
(* an order; nothing is saved.                                             *)
LEMMA PassOnBooks ==
  ASSUME OInv, OInv', Books, pc = "cycle", NEW u \in Underlyings, NEW s \in GoodSlot,
         slot' = [slot EXCEPT ![u] = s], pc' \in {"signal", "sell"}, cur' = u,
         UNCHANGED <<world, disk, venue, diskVenue, requests, todo, snap, lastId>>,
         Shape(world.kinds, lastId, s), Fits(world.kinds, u, s, venue), AtRest(world.kinds, u, s, venue),
         ~Steady(world.kinds) => Trails(u, s, disk[u], venue)
  PROVE  Books'
<1>1. Running /\ ~Fresh /\ cur = NoU
  BY DEF Running, Fresh, Books, Downs
<1>2. requests = {}
  BY <1>1, Underway
<1>3. slot'[u] = s /\ \A x \in Underlyings : x # u => slot'[x] = slot[x]
  BY DEF OInv, StepInv
<1>4. Shapes'
  BY <1>3 DEF Books, Shapes
<1>5. Agrees'
  BY <1>1, <1>3 DEF Books, Agrees
<1>6. Rests'
  BY <1>3 DEF Books, Rests
<1>7. Backed'
  BY <1>1 DEF Books, Backed, Backup, Local, Can
<1>8. Downs' /\ StartSees' /\ Awaits'
  BY <1>2 DEF Downs, StartSees, Awaits, Running
<1>9. CycleSees'
  <2>1. \A x \in todo \ {u} : x \in todo \ {cur} /\ slot'[x] = slot[x]
    BY <1>1, <1>3, BookTypes, OptionsAssumption
  <2>2. QED
    BY <1>1, <2>1 DEF Books, CycleSees, Can
<1>10. Follows'
  BY <1>3 DEF Books, Follows
<1>11. QED
  BY <1>4, <1>5, <1>6, <1>7, <1>8, <1>9, <1>10 DEF Books

(* tryEntry's signal and manage's trigger keep the books.                  *)
LEMMA TriggerBooks ==
  ASSUME OInv, OInv', Books, NEW u \in Underlyings, Signal(u) \/ Manage(u)
  PROVE  Books'
<1>1. /\ pc = "cycle" /\ cur' = u /\ pc' \in {"signal", "sell"}
      /\ UNCHANGED <<world, disk, venue, diskVenue, requests, todo, snap, lastId>>
  BY DEF Signal, Manage, Stepping
<1>2. Running
  BY <1>1 DEF Running
<1>3. /\ slot[u] \in GoodSlot /\ Shape(world.kinds, lastId, slot[u]) /\ Fits(world.kinds, u, slot[u], venue)
      /\ ~Steady(world.kinds) => Trails(u, slot[u], disk[u], venue)
      /\ AtRest(world.kinds, u, slot[u], venue)
  <2>1. AtRest(world.kinds, u, slot[u], venue)
    BY <1>1 DEF Books, Rests
  <2>2. QED
    BY <1>2, <2>1, Underway
<1>4. PICK s : s = slot'[u]
  OBVIOUS
<1>5. slot' = [slot EXCEPT ![u] = s] /\ s \in GoodSlot
  BY <1>4 DEF Signal, Manage, OInv, StepInv
<1>6. /\ slot[u].pending = 0 /\ s.pending = 0 /\ s.qty = slot[u].qty /\ s.entry = slot[u].entry
      /\ s.attempts = slot[u].attempts /\ s.unresolved = slot[u].unresolved /\ s.adopted = slot[u].adopted
      /\ s.booked = slot[u].booked /\ s.writtenOff = slot[u].writtenOff
      /\ s.st \in {"SIGNAL_DETECTED", "EXIT_PENDING"} /\ (s.st = "EXIT_PENDING" <=> s.qty > 0)
  <2>1. CASE Signal(u)
    <3>1. slot[u].st = "IDLE" /\ s = fire(slot[u], "SIGNAL")
      BY <1>4, <2>1 DEF Signal, OInv, StepInv
    <3>2. slot[u].pending = 0 /\ slot[u].qty = 0
      BY <1>3, <3>1, OneOrOther
    <3>3. QED
      BY <1>3, <3>1, <3>2, Rows DEF fire, GoodSlot, Slots
  <2>2. CASE Manage(u)
    <3>1. slot[u].st \in {"POSITION_OPEN", "EXIT_PENDING"} /\ s = Triggered(slot[u])
      BY <1>4, <2>2 DEF Manage, Holding, OInv, StepInv
    <3>2. slot[u].pending = 0 /\ slot[u].qty > 0
      BY <1>3, <3>1, OneOrOther
    <3>3. QED
      BY <1>3, <3>1, <3>2, TriggeredFields
  <2>3. QED
    BY <2>1, <2>2
<1>7. Shape(world.kinds, lastId, s)
  BY <1>3, <1>6 DEF Shape
<1>8. Fits(world.kinds, u, s, venue) /\ AtRest(world.kinds, u, s, venue)
  BY <1>3, <1>6, SameNumbers
<1>9. ~Steady(world.kinds) => Trails(u, s, disk[u], venue)
  BY <1>3, <1>6, SameTrail
<1>10. QED
  BY <1>1, <1>5, <1>7, <1>8, <1>9, PassOnBooks

(* An entry with an id the venue has not seen.                             *)
LEMMA SubmittedFits ==
  ASSUME OInv, Books, pc = "signal", NEW s, s = submitted(cur)
  PROVE  /\ cur \in Underlyings /\ s \in GoodSlot /\ Shape(world.kinds, lastId + 1, s)
         /\ s.pending # 0 /\ s.qty = 0 /\ EntryOf(cur, s, venue) = {}
         /\ Fits(world.kinds, cur, s, venue)
<1>1. cur \in Underlyings /\ slot[cur].st = "SIGNAL_DETECTED" /\ Running
  BY DEF OInv, StepInv, InStep, Running
<1>2. /\ slot[cur] \in GoodSlot /\ Shape(world.kinds, lastId, slot[cur])
      /\ Fits(world.kinds, cur, slot[cur], venue) /\ lastId \in Nat /\ venue \in Venues
  BY <1>1, Underway
<1>3. slot[cur].pending = 0 /\ slot[cur].qty = 0
  BY <1>1, <1>2, OneOrOther
<1>4. /\ s.st = "ENTRY_PENDING" /\ s.pending = lastId + 1 /\ s.qty = 0 /\ s.entry = slot[cur].entry
      /\ s.attempts = slot[cur].attempts /\ s.unresolved = slot[cur].unresolved
      /\ s.adopted = slot[cur].adopted /\ s.booked = slot[cur].booked /\ s.writtenOff = slot[cur].writtenOff
      /\ s \in GoodSlot
  <2>1. PICK x : x = [slot[cur] EXCEPT !.pending = lastId + 1]
    OBVIOUS
  <2>2. lastId + 1 \in Nat /\ slot[cur].unresolved = 0
    BY <1>1, <1>2, SlotNats
  <2>3. /\ x \in Slots /\ x.st = "SIGNAL_DETECTED" /\ x.pending = lastId + 1 /\ x.qty = slot[cur].qty
        /\ x.entry = slot[cur].entry /\ x.attempts = slot[cur].attempts /\ x.unresolved = slot[cur].unresolved
        /\ x.adopted = slot[cur].adopted /\ x.booked = slot[cur].booked /\ x.writtenOff = slot[cur].writtenOff
    BY <1>1, <1>2, <2>1, <2>2 DEF GoodSlot, Slots
  <2>4. s = [x EXCEPT !.st = "ENTRY_PENDING"]
    BY <2>1, <2>3, Rows DEF submitted, fire
  <2>5. QED
    BY <1>3, <2>2, <2>3, <2>4 DEF GoodSlot, Slots, States
<1>5. Shape(world.kinds, lastId + 1, s)
  BY <1>2, <1>4, SlotNats DEF Shape
<1>6. \A o \in venue.orders : o.id.e \in Nat /\ o.id.e <= lastId
  BY <1>1, <1>2, VenueNats DEF Books, Shapes, OneRecord
<1>7. EntryOf(cur, s, venue) = {} /\ ExitsOf(cur, s.pending, venue) = {}
  BY <1>2, <1>4, <1>6 DEF EntryOf, EntryId, ExitsOf
<1>8. Flat(world.kinds, cur, slot[cur], venue)
  BY <1>2, <1>3 DEF Fits, Known
<1>9. Flat(world.kinds, cur, NoFill(s), venue)
  <2>1. NoFill(s).adopted = s.adopted /\ NoFill(s).booked = s.booked /\ NoFill(s).writtenOff = s.writtenOff
    BY <1>4, NoFillFields
  <2>2. QED
    BY <1>4, <1>8, <2>1 DEF Flat
<1>10. s.pending # 0
  BY <1>2, <1>4
<1>11. Fits(world.kinds, cur, s, venue)
  BY <1>7, <1>9, <1>10 DEF Fits
<1>12. QED
  BY <1>1, <1>4, <1>5, <1>7, <1>10, <1>11

(* enterFromSignal saves the new entry before it is sent.                  *)
LEMMA SubmitBooks ==
  ASSUME OInv, OInv', Books, Submit
  PROVE  Books'
<1>1. PICK s : s = submitted(cur)
  OBVIOUS
<1>2. /\ pc = "signal" /\ lastId' = lastId + 1 /\ world' = world /\ venue' = venue /\ requests' = requests
      /\ Running /\ ~Fresh /\ lastId \in Nat /\ lastId <= lastId' /\ lastId' \in Nat
  BY DEF Submit, Running, Fresh, OInv, TypeOK
<1>3. /\ cur \in Underlyings /\ s \in GoodSlot /\ Shape(world.kinds, lastId', s)
      /\ s.pending # 0 /\ s.qty = 0 /\ EntryOf(cur, s, venue) = {}
      /\ Fits(world.kinds, cur, s, venue)
  BY <1>1, <1>2, SubmittedFits
<1>4. AtRest(world.kinds, cur, s, venue) /\ Trails(cur, s, disk[cur], venue)
  BY <1>3 DEF AtRest, Trails
<1>5. requests = {}
  BY <1>2, Underway
<1>6. CASE EndStep(cur, submitted(cur))
  BY <1>1, <1>2, <1>3, <1>4, <1>5, <1>6, EndStepBooks
<1>7. CASE /\ slot' = [slot EXCEPT ![cur] = submitted(cur)]
           /\ Saved /\ pc' = "buy"
           /\ UNCHANGED <<cur, todo, snap>>
  <2>1. /\ slot'[cur] = s /\ \A x \in Underlyings : x # cur => slot'[x] = slot[x]
        /\ disk' = slot' /\ diskVenue' = IF Local THEN venue ELSE diskVenue
    BY <1>1, <1>3, <1>7 DEF Saved, OInv, StepInv
  <2>2. ASSUME NEW x \in Underlyings
        PROVE  /\ slot'[x] \in GoodSlot /\ Shape(world.kinds, lastId', slot'[x])
               /\ Fits(world.kinds, x, slot'[x], venue) /\ AtRest(world.kinds, x, slot'[x], venue)
    <3>1. CASE x = cur
      BY <1>3, <1>4, <2>1, <3>1
    <3>2. CASE x # cur
      <4>1. /\ slot[x] \in GoodSlot /\ Shape(world.kinds, lastId, slot[x])
            /\ Fits(world.kinds, x, slot[x], venue) /\ AtRest(world.kinds, x, slot[x], venue)
        <5>1. AtRest(world.kinds, x, slot[x], venue)
          BY <1>2 DEF Books, Rests
        <5>2. QED
          BY <1>2, <5>1, Underway
      <4>2. QED
        BY <1>2, <2>1, <3>2, <4>1, Newer
    <3>3. QED
      BY <3>1, <3>2
  <2>3. OneRecord(lastId', venue') /\ OneRecord(lastId', diskVenue')
    BY <1>2, <2>1, Newer, BookTypes DEF Books, Shapes
  <2>4. Backup' = venue
    BY <1>2, <2>1 DEF Backup, Local, Can
  <2>5. Shapes' /\ Agrees' /\ Rests' /\ Backed'
    BY <1>2, <2>1, <2>2, <2>3, <2>4 DEF Shapes, Agrees, Rests, Backed
  <2>6. Downs' /\ StartSees' /\ Awaits'
    BY <1>2, <1>5, <1>7 DEF Downs, StartSees, Awaits, Running
  <2>7. CycleSees'
    <3>1. \A x \in todo \ {cur} : slot'[x] = slot[x]
      BY <2>1, BookTypes
    <3>2. QED
      BY <1>2, <1>7, <3>1 DEF Books, CycleSees, Can
  <2>8. Follows'
    <3>1. ASSUME NEW x \in Underlyings PROVE Trails(x, slot'[x], disk'[x], venue')
      <4>1. slot'[x].qty > 0 => slot'[x].pending = 0
        BY <2>2, OneOrOther
      <4>2. QED
        BY <2>1, <4>1 DEF Trails
    <3>2. EntryOf(cur, slot'[cur], venue') = {}
      BY <1>2, <1>3, <2>1
    <3>3. QED
      BY <1>7, <2>1, <3>1, <3>2 DEF Follows
  <2>9. QED
    BY <2>5, <2>6, <2>7, <2>8 DEF Books
<1>8. QED
  BY <1>6, <1>7 DEF Submit

(* The order a step sends is for its slot, and for the slot a restart      *)
(* would find in the file.                                                 *)
LEMMA SendBooks ==
  ASSUME Sound(world.kinds), OInv, OInv', Books, pc \in {"buy", "sell"}, NEW w \in Nat,
         requests' = requests \cup {[id |-> Awaited, qty |-> w]}, pc' = "answer",
         pc = "sell" => w \in walkBook(slot[cur].qty),
         UNCHANGED <<world, slot, disk, venue, diskVenue, cur, todo, snap, lastId, due, crashes>>
  PROVE  Books'
<1>1. Running /\ ~Fresh /\ cur \in Underlyings
  BY DEF Running, Fresh, OInv, StepInv, InStep
<1>2. PICK r : r = [id |-> Awaited, qty |-> w]
  OBVIOUS
<1>3. requests = {}
  BY <1>1, Underway
<1>4. requests' = {r} /\ r.id = Awaited /\ r.qty = w /\ Awaited' = Awaited
  BY <1>2, <1>3 DEF Awaited
<1>5. /\ slot[cur] \in GoodSlot /\ Shape(world.kinds, lastId, slot[cur])
      /\ ~Steady(world.kinds) => Trails(cur, slot[cur], disk[cur], venue)
  BY <1>1, Underway
<1>6. r.id.u = cur
  BY <1>4 DEF Awaited, EntryId, ExitId
<1>7. /\ Aims(world.kinds, r, slot[cur], venue)
      /\ Can("crash") /\ ~Local => Aims(world.kinds, r, disk[cur], venue)
      /\ slot[cur].pending # 0 => disk[cur].pending = slot[cur].pending
  <2>1. CASE pc = "buy"
    <3>1. slot[cur].st = "ENTRY_PENDING" /\ r.id = EntryId(cur, slot[cur])
      BY <1>4, <2>1 DEF OInv, StepInv, InStep, Awaited
    <3>2. slot[cur].pending # 0 /\ r.id.k = 0 /\ r.id.e = slot[cur].pending
      BY <1>5, <3>1 DEF Shape, EntryId
    <3>3. disk[cur].pending = slot[cur].pending
      BY <2>1, <3>2 DEF Books, Follows
    <3>4. QED
      BY <3>2, <3>3 DEF Aims
  <2>2. CASE pc = "sell"
    <3>1. slot[cur].st = "EXIT_PENDING" /\ r.id = ExitId(cur, slot[cur])
      BY <1>4, <2>2 DEF OInv, StepInv, InStep, Awaited
    <3>2. slot[cur].pending = 0 /\ slot[cur].qty > 0
      BY <1>5, <3>1, OneOrOther
    <3>3. r.id.e = slot[cur].entry /\ r.id.k # 0
      BY <1>5, <3>1, SlotNats DEF ExitId
    <3>4. "thin" \notin world.kinds => r.qty = slot[cur].qty
      BY <1>4, <2>2 DEF walkBook, Can
    <3>5. AimsAtPosition(world.kinds, r, slot[cur])
      BY <1>6, <3>1, <3>2, <3>3, <3>4 DEF AimsAtPosition
    <3>6. ASSUME Can("crash"), ~Local PROVE Aims(world.kinds, r, disk[cur], venue)
      <4>1. ~Steady(world.kinds) /\ "thin" \notin world.kinds
        BY <3>6 DEF Can, Local, Steady, Sound
      <4>2. Trails(cur, slot[cur], disk[cur], venue) /\ r.qty = slot[cur].qty
        BY <1>5, <3>4, <4>1
      <4>3. CASE disk[cur].pending = 0 /\ disk[cur].entry = slot[cur].entry /\ disk[cur].qty = slot[cur].qty
        BY <3>2, <3>3, <4>1, <4>2, <4>3 DEF Aims, AimsAtPosition
      <4>4. CASE /\ disk[cur].pending = slot[cur].entry /\ disk[cur].pending # 0
                 /\ \E o \in EntryOf(cur, disk[cur], venue) : o.filled = slot[cur].qty
        BY <1>6, <3>2, <3>3, <4>1, <4>2, <4>4 DEF Aims, AimsAtFilled
      <4>5. QED
        BY <3>2, <4>2, <4>3, <4>4 DEF Trails
    <3>7. QED
      BY <3>2, <3>3, <3>5, <3>6 DEF Aims
  <2>3. QED
    BY <2>1, <2>2
<1>8. Shapes' /\ Agrees' /\ Backed'
  BY <1>1 DEF Books, Shapes, Agrees, Backed, Backup, Local, Can
<1>9. Rests'
  BY DEF Books, Rests
<1>10. Downs' /\ StartSees'
  BY DEF Downs, StartSees, Running
<1>11. CycleSees'
  BY <1>1 DEF Books, CycleSees, Can
<1>12. Awaits'
  BY <1>4, <1>6, <1>7 DEF Awaits, Local, Can
<1>13. Follows'
  BY <1>7 DEF Books, Follows
<1>14. QED
  BY <1>8, <1>9, <1>10, <1>11, <1>12, <1>13 DEF Books

(* buyToOpen and sellToClose keep the books.                               *)
LEMMA OrderBooks ==
  ASSUME Sound(world.kinds), OInv, OInv', Books, NEW w \in 0..MaxLots, buyToOpen(w) \/ sellToClose(w)
  PROVE  Books'
<1>1. w \in Nat /\ cur \in Underlyings
  BY DEF buyToOpen, sellToClose, OInv, StepInv, InStep
<1>2. CASE buyToOpen(w)
  <2>1. CASE StepTo(cur, NoFill(slot[cur]))
    BY <1>1, <1>2, <2>1, EntryBooks DEF buyToOpen
  <2>2. CASE /\ requests' = requests \cup {[id |-> EntryId(cur, slot[cur]), qty |-> w]}
             /\ pc' = "answer"
             /\ UNCHANGED <<world, slot, disk, venue, diskVenue, cur, todo, snap, lastId, due, crashes>>
    <3>1. pc = "buy" /\ Awaited = EntryId(cur, slot[cur])
      BY <1>2 DEF buyToOpen, OInv, StepInv, InStep, Awaited
    <3>2. QED
      BY <1>1, <2>2, <3>1, SendBooks
  <2>3. QED
    BY <1>2, <2>1, <2>2 DEF buyToOpen
<1>3. CASE sellToClose(w)
  <2>1. CASE Refusable /\ StepTo(cur, applyExitResult(slot[cur], 0))
    BY <1>1, <1>3, <2>1, ExitBooks DEF sellToClose
  <2>2. CASE /\ requests' = requests \cup {[id |-> ExitId(cur, slot[cur]), qty |-> w]}
             /\ pc' = "answer"
             /\ UNCHANGED <<world, slot, disk, venue, diskVenue, cur, todo, snap, lastId, due, crashes>>
    <3>1. pc = "sell" /\ Awaited = ExitId(cur, slot[cur]) /\ w \in walkBook(slot[cur].qty)
      BY <1>3 DEF sellToClose, OInv, StepInv, InStep, Awaited
    <3>2. QED
      BY <1>1, <2>2, <3>1, SendBooks
  <2>3. QED
    BY <1>3, <2>1, <2>2 DEF sellToClose
<1>4. QED
  BY <1>2, <1>3

(* A request that leaves no trace: it is lost, or its id was seen before.  *)
LEMMA NoTraceBooks ==
  ASSUME OInv, OInv', Books, NEW r \in requests, requests' = requests \ {r},
         UNCHANGED <<world, slot, disk, venue, diskVenue, pc, cur, todo, snap, lastId>>
  PROVE  Books'
<1>1. requests' = {} /\ ~Fresh /\ pc # "start"
  BY DEF Books, Awaits, Fresh, StartSees
<1>2. Shapes' /\ Agrees' /\ Rests' /\ Backed' /\ Downs' /\ StartSees' /\ CycleSees' /\ Follows'
  BY <1>1 DEF Books, Shapes, Agrees, Rests, Backed, Backup, Downs, StartSees, CycleSees, Follows,
              Running, Local, Can
<1>3. Awaits'
  BY <1>1 DEF Awaits
<1>4. QED
  BY <1>2, <1>3 DEF Books

(* The venue executes a request it has not seen.                           *)
LEMMA RecordBooks ==
  ASSUME Sound(world.kinds), OInv, OInv', Books, NEW r \in requests, requests' = requests \ {r},
         UNCHANGED <<world, slot, disk, diskVenue, pc, cur, todo, snap, lastId>>,
         \A o \in venue.orders : o.id # r.id, NEW f \in Nat, r.id.k # 0 => f = Least(r.qty, venue.held[r.id.u]),
         venue' = Recorded(venue, r, f)
  PROVE  Books'
<1>1. requests' = {} /\ ~Fresh /\ pc # "start" /\ r \in Requests /\ lastId \in Nat /\ venue \in Venues
  BY DEF Books, Awaits, Fresh, StartSees, OInv, TypeOK
<1>2. /\ r.id \in Ids /\ r.id.u \in Underlyings /\ r.id.e \in Nat /\ r.id.k \in Nat
      /\ venue'.orders = venue.orders \cup {[id |-> r.id, filled |-> f]}
      /\ \A u \in Underlyings : u # r.id.u => venue'.held[u] = venue.held[u]
  BY <1>1, RecordedFields
<1>3. /\ (pc = "answer" /\ r.id = Awaited) \/ (pc = "down" /\ ~Local)
      /\ Aims(world.kinds, r, slot[r.id.u], venue)
      /\ Can("crash") /\ ~Local => Aims(world.kinds, r, disk[r.id.u], venue)
  BY DEF Books, Awaits
<1>4. pc = "answer" => r.id.u = cur
  BY <1>3 DEF Awaited, EntryId, ExitId
<1>5. ASSUME NEW u \in Underlyings, u # r.id.u, NEW s
      PROVE  Current(u, s, venue') = Current(u, s, venue) /\ EntryOf(u, s, venue') = EntryOf(u, s, venue)
  BY <1>2, <1>5 DEF Current, ExitsOf, EntryOf, EntryId
<1>6. Shapes'
  <2>1. Shape(world.kinds, lastId, slot[r.id.u])
    BY <1>2 DEF Books, Shapes
  <2>2. r.id.e <= lastId
    BY <1>3, <2>1 DEF Aims, AimsAtPosition, AimsAtFilled, Shape
  <2>3. OneRecord(lastId, venue')
    BY <1>2, <2>2 DEF Books, Shapes, OneRecord
  <2>4. QED
    BY <2>3 DEF Books, Shapes
<1>7. Agrees'
  <2>1. ASSUME NEW u \in Underlyings PROVE Fits(world.kinds, u, slot[u], venue')
    <3>1. /\ slot[u] \in GoodSlot /\ Shape(world.kinds, lastId, slot[u]) /\ Fits(world.kinds, u, slot[u], venue)
          /\ OneRecord(lastId, venue)
      BY <1>1, BookTypes DEF Books, Shapes, Agrees
    <3>2. r.id.u = u => Aims(world.kinds, r, slot[u], venue)
      BY <1>3
    <3>3. QED
      BY <1>1, <3>1, <3>2, RecordedFits
  <2>2. QED
    BY <2>1 DEF Agrees
<1>8. Rests'
  <2> SUFFICES ASSUME NEW u \in Underlyings, ~(pc = "answer" /\ cur = u), Restful(world.kinds), slot[u].qty > 0
               PROVE  Current(u, slot[u], venue') = {}
    BY DEF Rests, AtRest
  <2>1. Local
    BY DEF Restful, Sound, Local, Can
  <2>2. u # r.id.u
    BY <1>3, <1>4, <2>1
  <2>3. Current(u, slot[u], venue) = {}
    BY DEF Books, Rests, AtRest
  <2>4. QED
    BY <1>5, <2>2, <2>3
<1>9. Backed'
  <2> SUFFICES ASSUME Can("crash"), NEW u \in Underlyings
               PROVE  Fits(world.kinds, u, disk[u], Backup') /\ AtRest(world.kinds, u, disk[u], Backup')
    BY DEF Backed, Can
  <2>1. Fits(world.kinds, u, disk[u], Backup) /\ AtRest(world.kinds, u, disk[u], Backup)
    BY <1>1 DEF Books, Backed
  <2>2. CASE Local
    <3>1. Backup' = Backup
      BY <2>2 DEF Backup, Local, Can
    <3>2. QED
      BY <2>1, <3>1
  <2>3. CASE ~Local
    <3>1. Backup = venue /\ Backup' = venue' /\ ~Restful(world.kinds)
      BY <2>3 DEF Backup, Local, Can, Restful, Sound
    <3>2. disk[u] \in GoodSlot /\ Shape(world.kinds, lastId, disk[u]) /\ OneRecord(lastId, venue)
      BY BookTypes DEF Books, Shapes
    <3>3. r.id.u = u => Aims(world.kinds, r, disk[u], venue)
      BY <1>3, <2>3
    <3>4. Fits(world.kinds, u, disk[u], venue')
      BY <1>1, <2>1, <3>1, <3>2, <3>3, RecordedFits
    <3>5. QED
      BY <3>1, <3>4 DEF AtRest
  <2>4. QED
    BY <2>2, <2>3
<1>10. Downs' /\ StartSees'
  BY <1>1 DEF Books, Downs, StartSees, Running, Can
<1>11. CycleSees'
  <2> SUFFICES ASSUME Running, snap # NoSnap, NEW u \in todo \ {cur}
               PROVE  /\ venue'.held[u] <= snap[u]
                      /\ ~Can("external") => venue'.held[u] = snap[u]
                      /\ slot[u].pending # 0 /\ EntryOf(u, slot[u], venue') = {} => snap[u] = 0
    BY DEF CycleSees, Running, Can
  <2>1. u \in Underlyings /\ u # r.id.u
    BY <1>3, <1>4, BookTypes DEF Running
  <2>2. venue'.held[u] = venue.held[u] /\ EntryOf(u, slot[u], venue') = EntryOf(u, slot[u], venue)
    BY <1>2, <1>5, <2>1
  <2>3. QED
    BY <2>2 DEF Books, CycleSees
<1>12. Awaits'
  BY <1>1 DEF Awaits
<1>13. Follows'
  <2>1. ASSUME ~Steady(world.kinds), NEW u \in Underlyings PROVE Trails(u, slot[u], disk[u], venue')
    <3>1. Trails(u, slot[u], disk[u], venue)
      BY <2>1 DEF Books, Follows
    <3>2. EntryOf(u, disk[u], venue) \subseteq EntryOf(u, disk[u], venue')
      BY <1>2 DEF EntryOf
    <3>3. ASSUME slot[u].pending # 0, EntryOf(u, slot[u], venue') # {}, EntryOf(u, slot[u], venue) = {}
          PROVE  disk[u].pending = slot[u].pending
      <4>1. r.id = EntryId(u, slot[u])
        BY <1>2, <3>3 DEF EntryOf
      <4>2. r.id.u = u /\ r.id.k = 0 /\ r.id.e = slot[u].pending
        BY <4>1 DEF EntryId
      <4>3. Can("crash") /\ ~Local
        BY <2>1 DEF Steady, Can, Local
      <4>4. QED
        BY <1>3, <4>2, <4>3 DEF Aims
    <3>4. QED
      BY <3>1, <3>2, <3>3 DEF Trails
  <2>2. pc # "buy"
    BY <1>3
  <2>3. QED
    BY <2>1, <2>2 DEF Books, Follows
<1>14. QED
  BY <1>6, <1>7, <1>8, <1>9, <1>10, <1>11, <1>12, <1>13 DEF Books

(* Requests that execute or are lost keep the books.                       *)
LEMMA RequestBooks ==
  ASSUME Sound(world.kinds), OInv, OInv', Books, NEW r \in requests, Execute(r) \/ Drop(r)
  PROVE  Books'
<1>1. CASE Drop(r)
  BY <1>1, NoTraceBooks DEF Drop
<1>2. CASE Execute(r)
  <2>1. PICK f \in {Fillable(r)} \cup (IF r.id.k = 0 THEN {0} ELSE {}) : venue' = Executed(r, f)
    BY <1>2 DEF Execute
  <2>2. CASE findOrder(r.id) # {}
    BY <1>2, <2>1, <2>2, NoTraceBooks DEF Execute, Executed
  <2>3. CASE findOrder(r.id) = {}
    <3>1. r \in Requests /\ r.qty \in Nat /\ r.id.u \in Underlyings /\ venue \in Venues
      BY DEF OInv, TypeOK, Requests, Ids
    <3>2. f \in Nat /\ (r.id.k # 0 => f = Least(r.qty, venue.held[r.id.u]))
      BY <2>1, <3>1, VenueNats DEF Fillable, Least
    <3>3. \A o \in venue.orders : o.id # r.id
      BY <2>3 DEF findOrder
    <3>4. venue' = Recorded(venue, r, f)
      BY <2>1, <2>3 DEF Executed, Recorded
    <3>5. QED
      BY <1>2, <3>2, <3>3, <3>4, RecordBooks DEF Execute
  <2>4. QED
    BY <2>2, <2>3
<1>3. QED
  BY <1>1, <1>2

(* The venue closes a position.                                            *)
LEMMA SettleBooks ==
  ASSUME OInv, OInv', Books, NEW x \in Underlyings, Settle(x)
  PROVE  Books'
<1>1. /\ "external" \in world.kinds /\ venue.held[x] > 0 /\ venue' = [venue EXCEPT !.held[x] = 0]
      /\ UNCHANGED <<world, slot, disk, diskVenue, requests, pc, cur, todo, snap, lastId>>
  BY DEF Settle, Can
<1>2. /\ venue'.orders = venue.orders /\ venue'.bought = venue.bought /\ venue'.sold = venue.sold
      /\ \A u \in Underlyings : venue'.held[u] \in {0, venue.held[u]}
      /\ venue \in Venues
  BY <1>1 DEF OInv, TypeOK, Venues
<1>3. \A u, s : EntryOf(u, s, venue') = EntryOf(u, s, venue)
  BY <1>2 DEF EntryOf
<1>4. Fresh => Fresh'
  <2> SUFFICES ASSUME Fresh PROVE Fresh'
    OBVIOUS
  <2>1. PICK y : \A u \in Underlyings \ {y} : venue.held[u] = 0 /\ (pc = "start" => snap[u] = 0)
    BY DEF Fresh
  <2>2. \A u \in Underlyings \ {y} : venue'.held[u] = 0 /\ (pc' = "start" => snap'[u] = 0)
    BY <1>1, <1>2, <2>1
  <2>3. ~Local
    BY <1>1, <1>2, VenueNats DEF Fresh
  <2>4. QED
    BY <1>1, <1>2, <2>2, <2>3 DEF Fresh, Running, Local, Can
<1>5. Shapes'
  BY <1>1, <1>2 DEF Books, Shapes, OneRecord
<1>6. Agrees'
  <2>1. ASSUME NEW u \in Underlyings, Fits(world.kinds, u, slot[u], venue)
        PROVE  Fits(world.kinds, u, slot[u], venue')
    <3>1. slot[u] \in GoodSlot /\ Shape(world.kinds, lastId, slot[u])
      BY BookTypes DEF Books, Shapes
    <3>2. QED
      BY <1>1, <1>2, <2>1, <3>1, SettleFits
  <2>2. QED
    BY <1>1, <1>4, <2>1 DEF Books, Agrees
<1>7. Rests'
  <2>1. \A u, s : Current(u, s, venue') = Current(u, s, venue)
    BY <1>2 DEF Current, ExitsOf
  <2>2. QED
    BY <1>1, <2>1 DEF Books, Rests, AtRest
<1>8. Backed'
  <2> SUFFICES ASSUME Can("crash"), ~Fresh, NEW u \in Underlyings
               PROVE  Fits(world.kinds, u, disk[u], Backup') /\ AtRest(world.kinds, u, disk[u], Backup')
    BY <1>1, <1>4 DEF Backed, Can
  <2>1. /\ Fits(world.kinds, u, disk[u], Backup) /\ AtRest(world.kinds, u, disk[u], Backup)
        /\ disk[u] \in GoodSlot /\ Shape(world.kinds, lastId, disk[u])
    BY BookTypes DEF Books, Backed, Shapes
  <2>2. CASE Local
    <3>1. Backup' = Backup
      BY <1>1, <2>2 DEF Backup, Local, Can
    <3>2. QED
      BY <2>1, <3>1
  <2>3. CASE ~Local
    <3>1. Backup = venue /\ Backup' = venue'
      BY <1>1, <2>3 DEF Backup, Local, Can
    <3>2. QED
      BY <1>1, <1>2, <2>1, <3>1, SettleFits
  <2>4. QED
    BY <2>2, <2>3
<1>9. Downs'
  BY <1>1, <1>4 DEF Books, Downs, Running, Can
<1>10. StartSees'
  <2>1. \A u \in Underlyings : pc = "start" => venue'.held[u] \in {0, snap[u]}
    BY <1>2 DEF Books, StartSees
  <2>2. QED
    BY <1>1, <1>4, <2>1 DEF Books, StartSees, Can
<1>11. CycleSees'
  <2> SUFFICES ASSUME Running, snap # NoSnap, NEW u \in todo \ {cur}
               PROVE  /\ venue'.held[u] <= snap[u]
                      /\ slot[u].pending # 0 /\ EntryOf(u, slot[u], venue') = {} => snap[u] = 0
    BY <1>1 DEF CycleSees, Running, Can
  <2>1. u \in Underlyings /\ snap[u] \in Nat /\ venue.held[u] \in Nat
    BY <1>2, BookTypes, VenueNats
  <2>2. QED
    BY <1>2, <1>3, <2>1 DEF Books, CycleSees
<1>12. Awaits'
  <2>1. Awaited' = Awaited
    BY <1>1 DEF Awaited
  <2>2. \A r, s : Aims(world.kinds, r, s, venue) => Aims(world.kinds, r, s, venue')
    BY <1>3 DEF Aims, AimsAtFilled
  <2>3. QED
    BY <1>1, <2>1, <2>2 DEF Books, Awaits, Local, Can
<1>13. Follows'
  <2>1. \A u, s, d : Trails(u, s, d, venue) => Trails(u, s, d, venue')
    BY <1>3 DEF Trails
  <2>2. QED
    BY <1>1, <1>3, <2>1 DEF Books, Follows
<1>14. QED
  BY <1>5, <1>6, <1>7, <1>8, <1>9, <1>10, <1>11, <1>12, <1>13 DEF Books

(* The process dies: the file, and the venue a restart finds, agree.       *)
LEMMA CrashBooks ==
  ASSUME OInv, OInv', Books, Crash
  PROVE  Books'
<1>1. /\ Can("crash") /\ slot' = disk /\ disk' = disk /\ diskVenue' = diskVenue /\ world' = world
      /\ lastId' = lastId /\ pc' = "down" /\ cur' = NoU /\ pc # "down" /\ venue' = Backup
      /\ IF Local THEN requests' = {} ELSE requests' = requests
  BY DEF Crash, Backup
<1>2. Backup' = Backup /\ (~Local => venue' = venue) /\ (Local' <=> Local) /\ (Local => venue' = diskVenue)
  BY <1>1 DEF Backup, Local, Can
<1>3. Fresh => Fresh'
  <2> SUFFICES ASSUME Fresh PROVE Fresh'
    OBVIOUS
  <2>1. PICK y : \A u \in Underlyings \ {y} : venue.held[u] = 0 /\ (pc = "start" => snap[u] = 0)
    BY DEF Fresh
  <2>2. venue' = venue /\ requests' = requests
    BY <1>1, <1>2 DEF Fresh
  <2>3. \A u \in Underlyings \ {y} : venue'.held[u] = 0 /\ (pc' = "start" => snap'[u] = 0)
    BY <1>1, <2>1, <2>2
  <2>4. QED
    BY <1>1, <1>2, <2>2, <2>3 DEF Fresh, Running
<1>4. Shapes'
  BY <1>1, <1>2 DEF Books, Shapes
<1>5. Agrees' /\ Backed'
  BY <1>1, <1>2, <1>3 DEF Books, Backed, Agrees
<1>6. Rests'
  <2> SUFFICES ASSUME NEW u \in Underlyings PROVE AtRest(world.kinds, u, disk[u], Backup)
    BY <1>1 DEF Rests
  <2>1. CASE Fresh
    BY <2>1 DEF Fresh, emptySlot, AtRest
  <2>2. CASE ~Fresh
    BY <1>1, <2>2 DEF Books, Backed
  <2>3. QED
    BY <2>1, <2>2
<1>7. Downs' /\ StartSees' /\ CycleSees'
  BY <1>1 DEF Downs, StartSees, CycleSees, Running, Can
<1>8. Awaits'
  <2>1. CASE Local
    BY <1>1, <2>1 DEF Awaits
  <2>2. CASE ~Local
    BY <1>1, <1>2, <2>2 DEF Books, Awaits, Can
  <2>3. QED
    BY <2>1, <2>2
<1>9. Follows'
  <2>1. ASSUME NEW u \in Underlyings PROVE Trails(u, disk[u], disk[u], venue')
    <3>1. disk[u].qty > 0 => disk[u].pending = 0
      BY OneOrOther, BookTypes DEF Books, Shapes
    <3>2. QED
      BY <3>1 DEF Trails
  <2>2. QED
    BY <1>1, <2>1 DEF Follows
<1>10. QED
  BY <1>4, <1>5, <1>6, <1>7, <1>8, <1>9 DEF Books

(* A step of the clock, or none.                                           *)
LEMMA QuietBooks ==
  ASSUME Books, UNCHANGED <<world, slot, disk, venue, diskVenue, requests, pc, cur, todo, snap, lastId>>
  PROVE  Books'
<1>1. (Fresh' <=> Fresh) /\ (Local' <=> Local) /\ Backup' = Backup /\ Awaited' = Awaited /\ (Running' <=> Running)
  BY DEF Fresh, Local, Can, Backup, Awaited, Running
<1>2. Shapes' /\ Agrees' /\ Rests' /\ Backed' /\ Downs'
  BY <1>1 DEF Books, Shapes, Agrees, Rests, Backed, Downs, Can
<1>3. StartSees' /\ CycleSees' /\ Awaits' /\ Follows'
  BY <1>1 DEF Books, StartSees, CycleSees, Awaits, Follows, Can
<1>4. QED
  BY <1>2, <1>3 DEF Books

(* The initial states are those of a fresh installation.                   *)
LEMMA BooksInit == Init => Books
<1> SUFFICES ASSUME Init PROVE Books
  OBVIOUS
<1>1. /\ \A u \in Underlyings : slot[u] = emptySlot /\ disk[u] = emptySlot
      /\ slot = disk /\ diskVenue = venue /\ venue.orders = {}
      /\ \A u \in Underlyings : venue.bought[u] = 0 /\ venue.sold[u] = 0
      /\ requests = {} /\ pc = "down" /\ cur = NoU /\ lastId = 0
  BY DEF Init
<1>2. PICK had \in {{}} \cup {{u} : u \in world.underlyings} :
        /\ had # {} => ~Local
        /\ \A u \in Underlyings : u \notin had => venue.held[u] = 0
  BY DEF Init
<1>3. Fresh
  <2>1. \E y : \A u \in Underlyings \ {y} : venue.held[u] = 0 /\ (pc = "start" => snap[u] = 0)
    <3>1. CASE had = {}
      BY <1>1, <1>2, <3>1
    <3>2. CASE had # {}
      <4>1. PICK y : had = {y}
        BY <1>2, <3>2
      <4>2. QED
        BY <1>1, <1>2, <4>1
    <3>3. QED
      BY <3>1, <3>2
  <2>2. Local => \A u \in Underlyings : venue.held[u] = 0
    BY <1>2
  <2>3. QED
    BY <1>1, <2>1, <2>2 DEF Fresh, Running
<1>4. Shapes
  <2>1. \A k : Shape(k, 0, emptySlot)
    BY DEF Shape, emptySlot
  <2>2. QED
    BY <1>1, <2>1 DEF Shapes, OneRecord
<1>5. Agrees /\ Backed /\ Downs
  BY <1>1, <1>3 DEF Agrees, Backed, Downs
<1>6. Rests
  BY <1>1 DEF Rests, AtRest, emptySlot
<1>7. StartSees /\ CycleSees /\ Awaits
  BY <1>1 DEF StartSees, CycleSees, Awaits, Running
<1>8. Follows
  BY <1>1 DEF Follows, Trails, emptySlot
<1>9. QED
  BY <1>4, <1>5, <1>6, <1>7, <1>8 DEF Books

(* Every action keeps the books, in a sound world.                         *)
LEMMA BooksStep ==
  ASSUME \A w \in Worlds : Sound(w.kinds)
  PROVE  OInv /\ Books /\ [Next]_vars => Books'
<1> SUFFICES ASSUME OInv, Books, [Next]_vars PROVE Books'
  OBVIOUS
<1>1. Sound(world.kinds) /\ OInv'
  BY OStep DEF OInv, TypeOK
<1>2. CASE StartPositions \/ StartFails
  BY <1>1, <1>2, StartBooks
<1>3. CASE StartReconcile
  BY <1>1, <1>3, ReconcileBooks
<1>4. CASE Positions \/ PositionsUnavailable
  BY <1>1, <1>4, PositionsBooks
<1>5. ASSUME NEW u \in Underlyings, NothingToDo(u) \/ Reset(u) PROVE Books'
  BY <1>1, <1>5, IdleBooks
<1>6. ASSUME NEW u \in Underlyings, Signal(u) \/ Manage(u) PROVE Books'
  BY <1>1, <1>6, TriggerBooks
<1>7. ASSUME NEW u \in Underlyings, ResolveEntry(u) \/ EntryUnresolved(u) PROVE Books'
  BY <1>1, <1>7, EntryBooks
<1>8. ASSUME NEW u \in Underlyings,
             GoneByExit(u) \/ GoneWrittenOff(u) \/ GoneUnknown(u) \/ Hold(u) \/ NoQuote(u)
      PROVE  Books'
  BY <1>1, <1>8, ExitBooks
<1>9. ASSUME NEW u \in Underlyings, Settle(u) PROVE Books'
  BY <1>1, <1>9, SettleBooks
<1>10. CASE UNCHANGED vars \/ \E u \in Underlyings : TimeUp(u)
  BY <1>10, QuietBooks DEF TimeUp, vars
<1>11. CASE Reject \/ EntryAnswer \/ EntryUnknown \/ ExitAnswer \/ ExitUnknown
  <2>1. cur \in Underlyings
    BY <1>11 DEF Reject, EntryAnswer, EntryUnknown, ExitAnswer, ExitUnknown, OInv, StepInv, InStep
  <2>2. QED
    BY <1>1, <1>11, <2>1, IdleBooks, EntryBooks, ExitBooks
<1>12. CASE Submit
  BY <1>1, <1>12, SubmitBooks
<1>13. ASSUME NEW w \in 0..MaxLots, buyToOpen(w) \/ sellToClose(w) PROVE Books'
  BY <1>1, <1>13, OrderBooks
<1>14. ASSUME NEW r \in requests, Execute(r) \/ Drop(r) PROVE Books'
  BY <1>1, <1>14, RequestBooks
<1>15. CASE Crash
  BY <1>1, <1>15, CrashBooks
<1>16. QED
  BY <1>2, <1>3, <1>4, <1>5, <1>6, <1>7, <1>8, <1>9, <1>10, <1>11, <1>12, <1>13, <1>14, <1>15 DEF Next

----------------------------------------------------------------------------
(* The cap.  In a slot that has a position or a pending entry something is *)
(* under way; only Submit and an adoption add one.                         *)

Busy(slots) == {u \in Underlyings : slots[u].st \in {"ENTRY_PENDING", "POSITION_OPEN", "EXIT_PENDING"}}

Few(set) == IsFiniteSet(set) /\ Cardinality(set) <= MaxOpen

\* A step that has passed tryEntry's test leaves room for its entry.
CapInv ==
  /\ Few(Busy(slot)) /\ Few(Busy(disk))
  /\ pc = "signal" => Cardinality(Busy(slot)) < MaxOpen

(* A part of a few is a few, and so is a single one.                       *)
LEMMA Fewer ==
  ASSUME NEW S, Few(S), NEW T, T \subseteq S
  PROVE  Few(T) /\ Cardinality(T) <= Cardinality(S)
<1>1. IsFiniteSet(T) /\ Cardinality(T) <= Cardinality(S)
  BY FS_Subset DEF Few
<1>2. Cardinality(T) \in Nat /\ Cardinality(S) \in Nat
  BY <1>1, FS_CardinalityType DEF Few
<1>3. QED
  BY <1>1, <1>2, OptionsAssumption DEF Few

(* The same, of a single one.                                              *)
LEMMA OneIsFew ==
  ASSUME NEW x, NEW T, T \subseteq {x}
  PROVE  Few(T)
<1>1. IsFiniteSet({x}) /\ Cardinality({x}) = 1
  BY FS_Singleton
<1>2. Few({x})
  BY <1>1, OptionsAssumption DEF Few
<1>3. QED
  BY <1>2, Fewer

(* exposure() counts the busy slots.                                       *)
LEMMA OpenIsBusy ==
  ASSUME OInv, Books
  PROVE  OpenPositions = Cardinality(Busy(slot))
<1>1. \A u \in Underlyings :
        slot[u].qty > 0 \/ slot[u].pending # 0
          <=> slot[u].st \in {"ENTRY_PENDING", "POSITION_OPEN", "EXIT_PENDING"}
  BY DEF Books, Shapes, Shape
<1>2. {u \in Underlyings : slot[u].qty > 0 \/ slot[u].pending # 0} = Busy(slot)
  BY <1>1 DEF Busy
<1>3. QED
  BY <1>2 DEF OpenPositions

(* A step that makes no slot busy.                                         *)
LEMMA SameCap ==
  ASSUME CapInv, Busy(slot') \subseteq Busy(slot), disk' \in {disk, slot'}, pc' # "signal"
  PROVE  CapInv'
<1>1. Few(Busy(slot'))
  BY Fewer DEF CapInv
<1>2. Few(Busy(disk'))
  BY <1>1 DEF CapInv
<1>3. QED
  BY <1>1, <1>2 DEF CapInv

(* The end of a step whose slot was busy, or is not.                       *)
LEMMA EndStepCap ==
  ASSUME OInv, OInv', CapInv, NEW u \in Underlyings, NEW s, EndStep(u, s),
         \/ slot[u].st \in {"ENTRY_PENDING", "POSITION_OPEN", "EXIT_PENDING"}
         \/ s.st \notin {"ENTRY_PENDING", "POSITION_OPEN", "EXIT_PENDING"}
  PROVE  CapInv'
<1>1. slot' = [slot EXCEPT ![u] = s] /\ disk' \in {disk, slot'} /\ pc' = "cycle"
  BY DEF EndStep, Saved, SaveFails
<1>2. slot'[u] = s /\ \A x \in Underlyings : x # u => slot'[x] = slot[x]
  BY <1>1 DEF OInv, StepInv
<1>3. Busy(slot') \subseteq Busy(slot)
  BY <1>2 DEF Busy
<1>4. QED
  BY <1>1, <1>3, SameCap

(* Every action keeps the cap.                                             *)
LEMMA CapStep ==
  ASSUME OInv, OInv', Books, CapInv, [Next]_vars
  PROVE  CapInv'
<1> DEFINE Live == {"ENTRY_PENDING", "POSITION_OPEN", "EXIT_PENDING"}
<1>a. slot \in [Underlyings -> GoodSlot]
  BY DEF OInv, StepInv
<1>1. ASSUME slot' = slot, disk' = disk, pc' # "signal" PROVE CapInv'
  BY <1>1, SameCap
<1>2. CASE StartPositions \/ StartFails
  BY <1>1, <1>2 DEF StartPositions, StartFails
<1>3. CASE StartReconcile
  <2>1. pc = "start" /\ pc' = "cycle" /\ disk' = slot' /\ slot' = [u \in Underlyings |-> reconciled(u)]
    BY <1>3 DEF StartReconcile, Saved
  <2>2. CASE Fresh
    <3>1. PICK x : \A u \in Underlyings \ {x} : pc = "start" => snap[u] = 0
      BY <2>2 DEF Fresh
    <3>2. \A u \in Underlyings : /\ reconciled(u).st \in {"IDLE", "POSITION_OPEN"}
                                 /\ reconciled(u).st = "POSITION_OPEN" => snap[u] > 0
      BY <1>3, <2>2, ReconcileFresh
    <3>3. Busy(slot') \subseteq {x}
      BY <2>1, <3>1, <3>2 DEF Busy
    <3>4. Few(Busy(slot'))
      BY <3>3, OneIsFew
    <3>5. QED
      BY <2>1, <3>4 DEF CapInv
  <2>3. CASE ~Fresh
    <3>1. \A u \in Underlyings : slot'[u] = disk[u]
      BY <2>1, <2>3, ReconcileSame
    <3>2. Busy(slot') = Busy(disk)
      BY <3>1 DEF Busy
    <3>3. QED
      BY <2>1, <3>2 DEF CapInv
  <2>4. QED
    BY <2>2, <2>3
<1>4. CASE Positions \/ PositionsUnavailable
  BY <1>1, <1>4 DEF Positions, PositionsUnavailable, BeginCycle
<1>5. ASSUME NEW u \in Underlyings, NothingToDo(u) \/ Reset(u) PROVE CapInv'
  <2>1. \E s : EndStep(u, s) /\ s.st \notin Live
    <3>1. CASE NothingToDo(u)
      BY <3>1 DEF NothingToDo, StepTo
    <3>2. CASE Reset(u)
      <4>1. fire(slot[u], "RESET").st = "IDLE"
        BY <1>a, <3>2, Rows DEF Reset, fire, GoodSlot, Slots
      <4>2. QED
        BY <3>2, <4>1 DEF Reset, StepTo
    <3>3. QED
      BY <1>5, <3>1, <3>2
  <2>2. QED
    BY <2>1, EndStepCap
<1>6. ASSUME NEW u \in Underlyings, Signal(u) PROVE CapInv'
  <2>1. /\ slot[u].st = "IDLE" /\ slot' = [slot EXCEPT ![u] = fire(slot[u], "SIGNAL")]
        /\ disk' = disk /\ OpenPositions < MaxOpen
    BY <1>6 DEF Signal
  <2>2. slot'[u].st = "SIGNAL_DETECTED" /\ \A x \in Underlyings : x # u => slot'[x] = slot[x]
    BY <1>a, <2>1, Rows DEF fire, GoodSlot, Slots
  <2>3. Busy(slot') = Busy(slot)
    BY <2>1, <2>2 DEF Busy
  <2>4. QED
    BY <2>1, <2>3, OpenIsBusy DEF CapInv
<1>7. ASSUME NEW u \in Underlyings, Manage(u) PROVE CapInv'
  <2>1. /\ slot[u].st \in Live /\ slot' = [slot EXCEPT ![u] = Triggered(slot[u])] /\ pc' = "sell" /\ disk' = disk
    BY <1>7 DEF Manage, Holding
  <2>2. \A x \in Underlyings : x # u => slot'[x] = slot[x]
    BY <1>a, <2>1
  <2>3. Busy(slot') \subseteq Busy(slot)
    BY <2>1, <2>2 DEF Busy
  <2>4. QED
    BY <2>1, <2>3, SameCap
<1>8. ASSUME NEW u \in Underlyings,
             \/ ResolveEntry(u) \/ EntryUnresolved(u)
             \/ GoneByExit(u) \/ GoneWrittenOff(u) \/ GoneUnknown(u) \/ Hold(u) \/ NoQuote(u)
      PROVE  CapInv'
  <2>1. slot[u].st \in Live /\ \E s : EndStep(u, s)
    BY <1>8 DEF ResolveEntry, EntryUnresolved, GoneByExit, GoneWrittenOff, GoneUnknown, Hold, NoQuote,
                Holding, StepTo
  <2>2. QED
    BY <2>1, EndStepCap
<1>9. CASE Reject
  <2>1. cur \in Underlyings /\ EndStep(cur, fire(slot[cur], "REJECT")) /\ fire(slot[cur], "REJECT").st = "IDLE"
    BY <1>a, <1>9, Rows DEF Reject, StepTo, OInv, StepInv, InStep, fire, GoodSlot, Slots
  <2>2. QED
    BY <2>1, EndStepCap
<1>10. CASE EntryAnswer \/ EntryUnknown \/ ExitAnswer \/ ExitUnknown
  <2>1. cur \in Underlyings /\ slot[cur].st \in Live /\ \E s : EndStep(cur, s)
    BY <1>10 DEF EntryAnswer, EntryUnknown, ExitAnswer, ExitUnknown, StepTo, OInv, StepInv, InStep
  <2>2. QED
    BY <2>1, EndStepCap
<1>11. CASE Submit
  <2>1. /\ cur \in Underlyings /\ slot' = [slot EXCEPT ![cur] = submitted(cur)] /\ disk' \in {disk, slot'}
        /\ pc' \in {"buy", "cycle"} /\ pc = "signal"
    BY <1>11 DEF Submit, EndStep, Saved, SaveFails, OInv, StepInv, InStep
  <2>2. Busy(slot') \subseteq Busy(slot) \cup {cur}
    <3>1. \A x \in Underlyings : x # cur => slot'[x] = slot[x]
      BY <1>a, <2>1
    <3>2. QED
      BY <3>1 DEF Busy
  <2>3. IsFiniteSet(Busy(slot)) /\ Cardinality(Busy(slot)) < MaxOpen
    BY <2>1 DEF CapInv, Few
  <2>4. Cardinality(Busy(slot)) \in Nat
    BY <2>3, FS_CardinalityType
  <2>5. /\ IsFiniteSet(Busy(slot) \cup {cur})
        /\ Cardinality(Busy(slot) \cup {cur}) \in {Cardinality(Busy(slot)), Cardinality(Busy(slot)) + 1}
    BY <2>3, FS_AddElement
  <2>6. Few(Busy(slot) \cup {cur})
    BY <2>3, <2>4, <2>5, OptionsAssumption DEF Few
  <2>7. Few(Busy(slot'))
    BY <2>2, <2>6, Fewer
  <2>8. QED
    BY <2>1, <2>7 DEF CapInv
<1>12. ASSUME NEW w \in 0..MaxLots, buyToOpen(w) \/ sellToClose(w) PROVE CapInv'
  <2>1. cur \in Underlyings /\ slot[cur].st \in Live
    BY <1>12 DEF buyToOpen, sellToClose, OInv, StepInv, InStep
  <2>2. CASE \E s : EndStep(cur, s)
    BY <2>1, <2>2, EndStepCap
  <2>3. CASE slot' = slot /\ disk' = disk /\ pc' = "answer"
    BY <1>1, <2>3
  <2>4. QED
    BY <1>12, <2>2, <2>3 DEF buyToOpen, sellToClose, StepTo
<1>13. CASE Crash
  BY <1>13 DEF Crash, CapInv
<1>14. ASSUME UNCHANGED <<slot, disk, pc>> PROVE CapInv'
  BY <1>14 DEF CapInv
<1>15. CASE \/ UNCHANGED vars
            \/ \E u \in Underlyings : Settle(u) \/ TimeUp(u)
            \/ \E r \in requests : Execute(r) \/ Drop(r)
  BY <1>14, <1>15 DEF vars, Settle, TimeUp, Execute, Drop
<1>16. QED
  BY <1>2, <1>3, <1>4, <1>5, <1>6, <1>7, <1>8, <1>9, <1>10, <1>11, <1>12, <1>13, <1>15 DEF Next

(* No slot is busy at first.                                               *)
LEMMA CapInit == Init => CapInv
<1> SUFFICES ASSUME Init PROVE CapInv
  OBVIOUS
<1>1. Busy(slot) = {} /\ Busy(disk) = {} /\ pc = "down"
  BY DEF Init, Busy, emptySlot
<1>2. Few({})
  BY OneIsFew
<1>3. QED
  BY <1>1, <1>2 DEF CapInv

----------------------------------------------------------------------------

(* In a sound world the desk's books are right between any two steps: what *)
(* slots, state file, venue and requests say of each other (Books) is kept *)
(* by start(), cycle(), the venue, lost answers, failed saves and crashes. *)
LEMMA BooksKept ==
  ASSUME \A w \in Worlds : Sound(w.kinds)
  PROVE  Spec => [](OInv /\ Books /\ CapInv)
<1>1. Init => OInv /\ Books /\ CapInv
  BY OInit, BooksInit, CapInit
<1>2. OInv /\ Books /\ CapInv /\ [Next]_vars => (OInv /\ Books /\ CapInv)'
  <2> SUFFICES ASSUME OInv, Books, CapInv, [Next]_vars PROVE (OInv /\ Books /\ CapInv)'
    OBVIOUS
  <2>1. OInv'
    BY OStep
  <2>2. Books'
    BY BooksStep
  <2>3. CapInv'
    BY <2>1, CapStep
  <2>4. QED
    BY <2>1, <2>2, <2>3
<1>3. QED
  BY <1>1, <1>2, PTL DEF Spec

(* A settled slot agrees with the venue.                                   *)
LEMMA SettledFits ==
  ASSUME OInv, Books, Running, NEW u \in Underlyings, Settled(u)
  PROVE  /\ slot[u] \in GoodSlot /\ venue \in Venues
         /\ slot[u].qty > 0 => Open(world.kinds, u, slot[u], venue)
         /\ slot[u].qty = 0 => Flat(world.kinds, u, slot[u], venue)
<1>1. /\ slot[u] \in GoodSlot /\ venue \in Venues /\ Shape(world.kinds, lastId, slot[u])
      /\ Fits(world.kinds, u, slot[u], venue)
  BY Underway
<1>2. slot[u].pending = 0 /\ slot[u].qty \in Nat
  BY <1>1, OneOrOther, SlotNats DEF Settled
<1>3. QED
  BY <1>1, <1>2 DEF Fits, Known

(* A running engine never tracks fewer lots than the venue holds for it,   *)
(* for any number of underlyings, order size, cap, crashes and entries:    *)
(* applyEntryResult, resolvePendingEntry, applyExitResult, executeExit,    *)
(* detectExternalClose and reconcile, in every sound world.                *)
THEOREM NothingUntrackedHolds ==
  ASSUME \A w \in Worlds : Sound(w.kinds)
  PROVE  Spec => []NothingUntracked
<1>1. OInv /\ Books => NothingUntracked
  <2> SUFFICES ASSUME OInv, Books, Running, NEW u \in Underlyings, Settled(u)
               PROVE  venue.held[u] <= slot[u].qty
    BY DEF NothingUntracked
  <2>1. slot[u].qty \in Nat /\ venue.held[u] \in Nat
    BY SettledFits, SlotNats, VenueNats
  <2>2. QED
    BY <2>1, SettledFits DEF Open, Flat
<1>2. QED
  BY <1>1, BooksKept, PTL

(* POSITION_CLOSED means flat at the venue: closeOut is never reached with *)
(* lots left, in every sound world (OptionPositionMachine).                *)
THEOREM ClosedIsFlatHolds ==
  ASSUME \A w \in Worlds : Sound(w.kinds)
  PROVE  Spec => []ClosedIsFlat
<1>1. OInv /\ Books => ClosedIsFlat
  <2> SUFFICES ASSUME OInv, Books, NEW u \in Underlyings, Running, slot[u].st = "POSITION_CLOSED"
               PROVE  venue.held[u] = 0
    BY DEF ClosedIsFlat
  <2>1. slot[u].qty = 0 /\ Settled(u)
    BY Underway, OneOrOther DEF Settled
  <2>2. QED
    BY <2>1, SettledFits DEF Flat
<1>2. QED
  BY <1>1, BooksKept, PTL

(* A lot is booked as sold once and only if the venue sold it, and every   *)
(* lot bought or adopted is tracked, booked or written off, through        *)
(* replayed exits, lost answers and restarts (applyExitResult,             *)
(* detectExternalClose), in every sound world in which an exit found by    *)
(* its id sold all that is gone.                                           *)
THEOREM LotsAccountedHolds ==
  ASSUME \A w \in Worlds : Sound(w.kinds), \A w \in Worlds : Exact(w.kinds)
  PROVE  Spec => []LotsAccounted
<1>1. OInv /\ Books => NoPhantomSale
  <2> SUFFICES ASSUME OInv, Books, NEW u \in Underlyings PROVE slot[u].booked <= venue.sold[u]
    BY DEF NoPhantomSale
  <2>1. Exact(world.kinds) /\ slot[u] \in GoodSlot /\ venue \in Venues /\ Shape(world.kinds, lastId, slot[u])
    BY BookTypes DEF OInv, TypeOK, Books, Shapes
  <2>2. CASE Fresh
    <3>1. slot[u] = emptySlot
      BY <2>2 DEF Fresh, Books, Downs
    <3>2. QED
      BY <2>1, <3>1, VenueNats DEF emptySlot
  <2>3. CASE ~Fresh
    <3>1. Fits(world.kinds, u, slot[u], venue)
      BY <2>3 DEF Books, Agrees
    <3>2. CASE slot[u].pending = 0
      BY <2>1, <3>1, <3>2 DEF Fits, Known, Open, Flat
    <3>3. CASE slot[u].pending # 0 /\ EntryOf(u, slot[u], venue) = {}
      <4>1. NoFill(slot[u]).booked = slot[u].booked
        BY <2>1, <3>3, NoFillFields DEF Shape
      <4>2. QED
        BY <2>1, <3>1, <3>3, <4>1 DEF Fits, Flat
    <3>4. CASE slot[u].pending # 0 /\ EntryOf(u, slot[u], venue) # {}
      <4>1. PICK o \in EntryOf(u, slot[u], venue) : TRUE
        BY <3>4
      <4>2. o.filled \in Nat /\ slot[u].st = "ENTRY_PENDING"
        BY <2>1, <3>4, VenueNats DEF EntryOf, Shape
      <4>3. applyEntryResult(slot[u], o.filled).booked = slot[u].booked
        BY <2>1, <4>2, NoFillFields, FillFields DEF applyEntryResult
      <4>4. Known(world.kinds, u, applyEntryResult(slot[u], o.filled), venue)
        BY <3>1, <3>4 DEF Fits
      <4>5. QED
        BY <2>1, <4>3, <4>4 DEF Known, Open, Flat
    <3>5. QED
      BY <3>2, <3>3, <3>4
  <2>4. QED
    BY <2>2, <2>3
<1>2. OInv /\ Books => LotsConserved
  <2> SUFFICES ASSUME OInv, Books, Running, NEW u \in Underlyings, Settled(u)
               PROVE  venue.bought[u] + slot[u].adopted = slot[u].qty + slot[u].booked + slot[u].writtenOff
    BY DEF LotsConserved
  <2>1. slot[u].qty \in Nat /\ slot[u].booked \in Nat /\ slot[u].writtenOff \in Nat
    BY SettledFits, SlotNats
  <2>2. CASE slot[u].qty > 0
    BY <2>2, SettledFits DEF Open
  <2>3. CASE slot[u].qty = 0
    BY <2>1, <2>3, SettledFits DEF Flat
  <2>4. QED
    BY <2>1, <2>2, <2>3
<1>3. OInv /\ Books => LotsAccounted
  BY <1>1, <1>2 DEF LotsAccounted
<1>4. QED
  BY <1>3, BooksKept, PTL

(* Counted at the venue, with the orders on their way, exposure never      *)
(* exceeds maxOpenPositions contracts: tryEntry's test holds until the     *)
(* entry is saved, and no answer, retry or restart adds a contract, in     *)
(* every sound world.                                                      *)
THEOREM ExposureCappedHolds ==
  ASSUME \A w \in Worlds : Sound(w.kinds)
  PROVE  Spec => []ExposureCapped
<1>1. OInv /\ Books /\ CapInv => ExposureCapped
  <2> SUFFICES ASSUME OInv, Books, CapInv PROVE ExposureCapped
    OBVIOUS
  <2> DEFINE Exposed == {u \in Underlyings : venue.held[u] > 0 \/ \E r \in requests : r.id.u = u /\ r.id.k = 0}
  <2>1. CASE Fresh
    <3>1. PICK x : \A u \in Underlyings \ {x} : venue.held[u] = 0
      BY <2>1 DEF Fresh
    <3>2. Exposed \subseteq {x}
      BY <2>1, <3>1 DEF Fresh
    <3>3. QED
      BY <3>2, OneIsFew DEF Few, ExposureCapped
  <2>2. CASE ~Fresh
    <3>1. ASSUME NEW u \in Exposed PROVE u \in Busy(slot)
      <4>1. /\ slot[u] \in GoodSlot /\ Shape(world.kinds, lastId, slot[u])
            /\ Fits(world.kinds, u, slot[u], venue) /\ venue.held[u] \in Nat
        BY <2>2, BookTypes, VenueNats DEF Books, Shapes, Agrees
      <4>2. slot[u].qty \in Nat
        BY <4>1, SlotNats
      <4>3. CASE venue.held[u] > 0
        BY <4>1, <4>2, <4>3 DEF Fits, Known, Flat, Shape, Busy
      <4>4. CASE \E r \in requests : r.id.u = u /\ r.id.k = 0
        <5>1. slot[u].pending # 0
          BY <4>4 DEF Books, Awaits, Aims
        <5>2. QED
          BY <4>1, <5>1 DEF Shape, Busy
      <4>5. QED
        BY <4>3, <4>4
    <3>2. Few(Exposed)
      BY <3>1, Fewer DEF CapInv
    <3>3. QED
      BY <3>2 DEF Few, ExposureCapped
  <2>3. QED
    BY <2>1, <2>2
<1>2. QED
  BY <1>1, BooksKept, PTL
=============================================================================
