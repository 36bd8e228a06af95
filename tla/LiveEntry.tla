------------------------------ MODULE LiveEntry ------------------------------
(***************************************************************************)
(* The life of a live entry order on Binance USD-M futures:                *)
(*   BinanceService.submitLiveEntry       src/src/binance/client.ts        *)
(*   LiveEntryTracker                     src/src/binance/liveEntry.ts     *)
(*   liveEntryPort, placeServerProtectionOrders, closePosition  client.ts  *)
(*                                                                         *)
(* The process (slot, caller, the tracker's loop) and the venue (entry     *)
(* orders, positions, resting stop and take-profit legs) interleave: every *)
(* await of the code is a point between two actions.  A call to the venue  *)
(* answers, or fails; a call that fails may have taken effect.             *)
(*                                                                         *)
(* A leg pair n is the LegIds of one placeLegs call: its stop rests while  *)
(* n \in stops[s], its take-profit while n \in tps[s].  Legs are           *)
(* closePosition orders, so they carry no size and close the whole         *)
(* position when they trigger.                                             *)
(***************************************************************************)
EXTENDS Naturals, FiniteSets

CONSTANTS
  Entries,     \* calls of submitLiveEntry
  Symbols,
  SymbolOf,    \* the symbol an entry is for
  WithTp,      \* the entries whose job carries a take-profit
  Qty,         \* size of an entry order, in lots
  Legs,        \* pool of leg-pair identities (bound on pairs alive at once)
  Env,         \* which of EnvKinds the environment may do
  NoEntry, NoLeg

(* What the environment may do beyond partial fills, refusals and lost     *)
(* answers to reads, placements and single cancels:                        *)
(*   "trigger"       a leg triggers while an entry order is still working  *)
(*   "operator"      the operator's closePosition, also during an entry    *)
(*   "cleanup_fail"  cancelAllOpen or flatten fails after taking effect,   *)
(*                   or flatten is refused while a position is open        *)
(*   "late_submit"   an unanswered submit reaches the venue later          *)
(*   "lost_place"    a leg rests although its placement was reported lost  *)
EnvKinds == {"trigger", "operator", "cleanup_fail", "late_submit", "lost_place"}

ASSUME EntryAssumption ==
  /\ SymbolOf \in [Entries -> Symbols]
  /\ WithTp \subseteq Entries
  /\ Qty \in Nat \ {0}
  /\ Env \subseteq EnvKinds
  /\ NoEntry \notin Entries
  /\ NoLeg \notin Legs

VARIABLES
  caller,      \* caller[e]: progress of the submitLiveEntry call
  slot,        \* LiveEntryTracker.holder: the entry that holds the slot
  tracked,     \* holder.clientOrderId is set: the loop follows the entry
  pc,          \* where the tracker's loop is
  seen,        \* step's `order.status`
  held,        \* step's `held`
  pair,        \* the leg pair placeLegs is building
  todo,        \* cancelStale: the stale pairs this pass still has to try
  legs, legsQty, stale, cancelSent,   \* EntryContext
  expired,     \* now() has passed submittedAt + ttlMs
  order,       \* venue: state of the entry order
  exec,        \* venue: executed quantity of the entry order
  pos,         \* venue: absolute position size per symbol
  stops, tps,  \* venue: resting stop and take-profit legs per symbol
  closing      \* symbols whose closePosition still has to cancelAll

slotVars  == <<caller, slot, tracked>>
ctxVars   == <<legs, legsQty, stale, cancelSent>>
localVars == <<seen, held, pair, todo>>
orderVars == <<order, exec>>
legVars   == <<stops, tps>>
vars == <<slotVars, pc, localVars, ctxVars, expired, orderVars, pos, legVars, closing>>

Steps == {"idle", "order", "position", "stop", "tp", "emergency", "cancelall",
          "flatten", "stale", "settle", "sleep"}
OrderStates == {"absent", "transit", "lost", "refused", "working", "filled", "canceled"}
Statuses == {"none", "UNKNOWN_ORDER", "working", "filled", "canceled"}

----------------------------------------------------------------------------
(* Helpers *)

\* The tracker follows an entry, or a submit for it is in progress, on s.
holds(s) == slot # NoEntry /\ SymbolOf[slot] = s

\* The symbol the tracker's job is for (meaningful while slot # NoEntry).
Sym == SymbolOf[slot]

isWorking(status) == status = "working"

\* Mutant: -2013 is not mapped to UNKNOWN_ORDER.
orderStateUnmapped(e) == order[e]

\* What orderState answers: an order the venue does not have is UNKNOWN_ORDER.
orderState(e) ==
  IF order[e] \in {"working", "filled", "canceled"} THEN order[e] ELSE "UNKNOWN_ORDER"

\* A reduce-only market order for q leaves at least this much of the position.
Reduced(s, q) == IF pos[s] > q THEN pos[s] - q ELSE 0

\* A new leg pair: an id that nothing refers to.
FreeLegs ==
  {n \in Legs \ stale : n # legs /\ n # pair /\ \A s \in Symbols : n \notin stops[s] \cup tps[s]}

EntryWorking(s) == \E e \in Entries : SymbolOf[e] = s /\ order[e] = "working"

\* Cancelling every open order of s: its working entries and all its legs.
CancelAllOf(s) ==
  /\ order' = [e \in Entries |-> IF SymbolOf[e] = s /\ order[e] = "working"
                                 THEN "canceled" ELSE order[e]]
  /\ stops' = [stops EXCEPT ![s] = {}]
  /\ tps' = [tps EXCEPT ![s] = {}]

FreshCtx == legs' = NoLeg /\ legsQty' = 0 /\ stale' = {} /\ cancelSent' = FALSE
FreshLocals == seen' = "none" /\ held' = 0 /\ pair' = NoLeg /\ todo' = {}

\* A pass of step() ends, by returning false or by throwing: resolve() sleeps.
Sleep == pc' = "sleep" /\ FreshLocals

----------------------------------------------------------------------------
Init ==
  /\ caller = [e \in Entries |-> "idle"]
  /\ slot = NoEntry /\ tracked = FALSE /\ pc = "idle"
  /\ seen = "none" /\ held = 0 /\ pair = NoLeg /\ todo = {}
  /\ legs = NoLeg /\ legsQty = 0 /\ stale = {} /\ cancelSent = FALSE
  /\ expired = FALSE
  /\ order = [e \in Entries |-> "absent"]
  /\ exec = [e \in Entries |-> 0]
  /\ pos = [s \in Symbols |-> 0]
  /\ stops = [s \in Symbols |-> {}]
  /\ tps = [s \in Symbols |-> {}]
  /\ closing = {}

----------------------------------------------------------------------------
(* submitLiveEntry *)

\* reserve: claims the slot before any await; a held slot refuses the entry.
Reserve(e) ==
  /\ caller[e] = "idle"
  /\ slot = NoEntry
  /\ slot' = e
  /\ caller' = [caller EXCEPT ![e] = "preparing"]
  /\ UNCHANGED <<tracked, pc, localVars, ctxVars, expired, orderVars, pos, legVars, closing>>

\* release: gives back a reservation without a client order id.
Release(e) ==
  /\ caller' = [caller EXCEPT ![e] = "done"]
  /\ slot' = IF slot = e /\ ~tracked THEN NoEntry ELSE slot

\* setLeverage, ensureIsolated or the price lookup throws.
PrepareFails(e) ==
  /\ caller[e] = "preparing"
  /\ Release(e)
  /\ UNCHANGED <<tracked, pc, localVars, ctxVars, expired, orderVars, pos, legVars, closing>>

\* submitNewOrder is sent.
Submit(e) ==
  /\ caller[e] = "preparing"
  /\ caller' = [caller EXCEPT ![e] = "submitting"]
  /\ order' = [order EXCEPT ![e] = "transit"]
  /\ UNCHANGED <<slot, tracked, pc, localVars, ctxVars, expired, exec, pos, legVars, closing>>

\* track: the loop starts with a fresh context.
Track(e) ==
  /\ caller' = [caller EXCEPT ![e] = "done"]
  /\ slot' = e
  /\ tracked' = TRUE
  /\ pc' = "order"
  /\ FreshCtx
  /\ expired' = FALSE

\* The venue's answer arrives.
SubmitAnswered(e) ==
  /\ caller[e] = "submitting"
  /\ order[e] \in {"working", "filled", "canceled"}
  /\ Track(e)
  /\ UNCHANGED <<localVars, orderVars, pos, legVars, closing>>

\* A refused order never reached the book.
SubmitRefused(e) ==
  /\ caller[e] = "submitting"
  /\ order[e] = "refused"
  /\ Release(e)
  /\ UNCHANGED <<tracked, pc, localVars, ctxVars, expired, orderVars, pos, legVars, closing>>

\* No answer: the order may have landed, so it is tracked before the throw.
SubmitTimesOut(e) ==
  /\ caller[e] = "submitting"
  /\ order[e] = "transit" => "late_submit" \in Env
  /\ Track(e)
  /\ UNCHANGED <<localVars, orderVars, pos, legVars, closing>>

----------------------------------------------------------------------------
(* LiveEntryTracker.step: the reads *)

Tracking == tracked /\ slot \in Entries

ReadOrder ==
  /\ Tracking /\ pc = "order"
  /\ seen' = orderState(slot)
  /\ pc' = "position"
  /\ UNCHANGED <<slotVars, held, pair, todo, ctxVars, expired, orderVars, pos, legVars, closing>>

\* positionQty answers; syncLegs runs up to its first await.
ReadPosition ==
  /\ Tracking /\ pc = "position"
  /\ held' = pos[Sym]
  /\ IF held' = 0
       THEN /\ stale' = IF legs = NoLeg THEN stale ELSE stale \cup {legs}
            /\ legs' = NoLeg /\ legsQty' = 0
            /\ todo' = stale' /\ pc' = "stale"
       ELSE /\ UNCHANGED <<stale, legs, legsQty>>
            /\ IF held' = legsQty THEN todo' = stale /\ pc' = "stale"
                                  ELSE todo' = {} /\ pc' = "stop"
  /\ UNCHANGED <<slotVars, seen, pair, cancelSent, expired, orderVars, pos, legVars, closing>>

ReadFails ==
  /\ Tracking /\ pc \in {"order", "position"}
  /\ Sleep
  /\ UNCHANGED <<slotVars, ctxVars, expired, orderVars, pos, legVars, closing>>

----------------------------------------------------------------------------
(* syncLegs: placeLegs, and the cleanup when it fails *)

\* Mutant: the new pair is discarded instead of the superseded one.
LegsPlacedSwapped ==
  /\ stale' = stale \cup {pair'}
  /\ UNCHANGED legs
  /\ legsQty' = held
  /\ todo' = stale'
  /\ pc' = "stale"

\* placeLegs has returned `pair`: the superseded pair becomes stale.
LegsPlaced ==
  /\ stale' = IF legs = NoLeg THEN stale ELSE stale \cup {legs}
  /\ legs' = pair'
  /\ legsQty' = held
  /\ todo' = stale'
  /\ pc' = "stale"

PlaceStop ==
  /\ Tracking /\ pc = "stop"
  /\ \E n \in FreeLegs :
       /\ stops' = [stops EXCEPT ![Sym] = @ \cup {n}]
       /\ pair' = n
  /\ IF slot \in WithTp
       THEN pc' = "tp" /\ UNCHANGED <<todo, legs, legsQty, stale>>
       ELSE LegsPlaced
  /\ UNCHANGED <<slotVars, seen, held, cancelSent, expired, orderVars, pos, tps, closing>>

\* The stop is refused, or its placement stays ambiguous after the retries.
\* placeProtection then closes the position, unless the lookup after a
\* duplicate-id answer (the stop rests) is what throws.
PlaceStopFails ==
  /\ Tracking /\ pc = "stop"
  /\ \/ pc' = "emergency" /\ UNCHANGED stops
     \/ /\ "lost_place" \in Env
        /\ \E n \in FreeLegs : stops' = [stops EXCEPT ![Sym] = @ \cup {n}]
        /\ pc' \in {"emergency", "cancelall"}
  /\ UNCHANGED <<slotVars, localVars, ctxVars, expired, orderVars, pos, tps, closing>>

\* emergencyClose: its failure is swallowed, and may have executed.
EmergencyClose ==
  /\ Tracking /\ pc = "emergency"
  /\ \E left \in Reduced(Sym, held) .. pos[Sym] : pos' = [pos EXCEPT ![Sym] = left]
  /\ pc' = "cancelall"
  /\ UNCHANGED <<slotVars, localVars, ctxVars, expired, orderVars, legVars, closing>>

PlaceTp ==
  /\ Tracking /\ pc = "tp"
  /\ tps' = [tps EXCEPT ![Sym] = @ \cup {pair}]
  /\ pair' = pair
  /\ LegsPlaced
  /\ UNCHANGED <<slotVars, seen, held, cancelSent, expired, orderVars, pos, stops, closing>>

PlaceTpFails ==
  /\ Tracking /\ pc = "tp"
  /\ \/ UNCHANGED tps
     \/ /\ "lost_place" \in Env
        /\ tps' = [tps EXCEPT ![Sym] = @ \cup {pair}]
  /\ pc' = "cancelall"
  /\ UNCHANGED <<slotVars, localVars, ctxVars, expired, orderVars, pos, stops, closing>>

CancelAllOpen ==
  /\ Tracking /\ pc = "cancelall"
  /\ CancelAllOf(Sym)
  /\ pc' = "flatten"
  /\ UNCHANGED <<slotVars, localVars, ctxVars, expired, exec, pos, closing>>

\* The throw leaves the context as it was.
CancelAllOpenFails ==
  /\ Tracking /\ pc = "cancelall"
  /\ \/ UNCHANGED <<order, legVars>>
     \/ "cleanup_fail" \in Env /\ CancelAllOf(Sym)
  /\ Sleep
  /\ UNCHANGED <<slotVars, ctxVars, expired, exec, pos, closing>>

\* The market order may fill only in part; either way the legs are forgotten.
Flatten ==
  /\ Tracking /\ pc = "flatten"
  /\ pos[Sym] > 0
  /\ \E left \in Reduced(Sym, held) .. pos[Sym] : pos' = [pos EXCEPT ![Sym] = left]
  /\ legs' = NoLeg /\ legsQty' = 0 /\ stale' = {}
  /\ todo' = {} /\ pc' = "stale"
  /\ UNCHANGED <<slotVars, seen, held, pair, cancelSent, expired, orderVars, legVars, closing>>

\* A reduce-only order is refused when there is nothing to reduce.
FlattenFails ==
  /\ Tracking /\ pc = "flatten"
  /\ \/ pos[Sym] = 0 /\ UNCHANGED pos
     \/ /\ "cleanup_fail" \in Env
        /\ \E left \in Reduced(Sym, held) .. pos[Sym] : pos' = [pos EXCEPT ![Sym] = left]
  /\ Sleep
  /\ UNCHANGED <<slotVars, ctxVars, expired, orderVars, legVars, closing>>

----------------------------------------------------------------------------
(* step: cancelStale, and the decision *)

\* cancelLegs looks the legs up and cancels those that are still open.
CancelStale ==
  /\ Tracking /\ pc = "stale"
  /\ \E n \in todo :
       /\ stops' = [stops EXCEPT ![Sym] = @ \ {n}]
       /\ tps' = [tps EXCEPT ![Sym] = @ \ {n}]
       /\ stale' = stale \ {n}
       /\ todo' = todo \ {n}
  /\ UNCHANGED <<slotVars, pc, seen, held, pair, legs, legsQty, cancelSent, expired, orderVars, pos, closing>>

\* One of its calls fails: the stop or both legs may be gone already.
CancelStaleFails ==
  /\ Tracking /\ pc = "stale"
  /\ \E n \in todo :
       /\ \/ UNCHANGED legVars
          \/ stops' = [stops EXCEPT ![Sym] = @ \ {n}] /\ UNCHANGED tps
          \/ /\ stops' = [stops EXCEPT ![Sym] = @ \ {n}]
             /\ tps' = [tps EXCEPT ![Sym] = @ \ {n}]
       /\ todo' = todo \ {n}
  /\ UNCHANGED <<slotVars, pc, seen, held, pair, ctxVars, expired, orderVars, pos, closing>>

StaleDone ==
  /\ Tracking /\ pc = "stale" /\ todo = {}
  /\ pc' = "settle"
  /\ UNCHANGED <<slotVars, localVars, ctxVars, expired, orderVars, pos, legVars, closing>>

\* Mutants: the decision forgets one of its three conditions.
resolvedWhileWorking == held = legsQty /\ stale = {}
resolvedUnmatched == ~isWorking(seen) /\ stale = {}
resolvedWithStale == ~isWorking(seen) /\ held = legsQty

\* The condition under which step returns true.
resolved == ~isWorking(seen) /\ held = legsQty /\ stale = {}

\* step returns true: track's finally frees the slot.
Resolve ==
  /\ Tracking /\ pc = "settle"
  /\ resolved
  /\ slot' = NoEntry /\ tracked' = FALSE /\ pc' = "idle"
  /\ FreshCtx /\ FreshLocals
  /\ UNCHANGED <<caller, expired, orderVars, pos, legVars, closing>>

\* Mutant: the deadline test is the wrong way round.
ttlDueInverted == isWorking(seen) /\ ~cancelSent /\ ~expired

\* The TTL cancel is due.
ttlDue == isWorking(seen) /\ ~cancelSent /\ expired

NotResolved ==
  /\ Tracking /\ pc = "settle"
  /\ ~resolved /\ ~ttlDue
  /\ Sleep
  /\ UNCHANGED <<slotVars, ctxVars, expired, orderVars, pos, legVars, closing>>

\* The TTL cancel; an order that is no longer working cannot be cancelled.
CancelEntry ==
  /\ Tracking /\ pc = "settle"
  /\ ~resolved /\ ttlDue
  /\ order[slot] = "working"
  /\ order' = [order EXCEPT ![slot] = "canceled"]
  /\ cancelSent' = TRUE
  /\ Sleep
  /\ UNCHANGED <<slotVars, legs, legsQty, stale, expired, exec, pos, legVars, closing>>

CancelEntryFails ==
  /\ Tracking /\ pc = "settle"
  /\ ~resolved /\ ttlDue
  /\ \/ UNCHANGED order
     \/ /\ order[slot] = "working"
        /\ order' = [order EXCEPT ![slot] = "canceled"]
  /\ Sleep
  /\ UNCHANGED <<slotVars, ctxVars, expired, exec, pos, legVars, closing>>

\* The poll interval ends, or wake() cuts it short.
Wake ==
  /\ Tracking /\ pc = "sleep"
  /\ pc' = "order"
  /\ UNCHANGED <<slotVars, localVars, ctxVars, expired, orderVars, pos, legVars, closing>>

\* Time passes submittedAt + ttlMs.
Expire ==
  /\ Tracking /\ ~expired
  /\ expired' = TRUE
  /\ UNCHANGED <<slotVars, pc, localVars, ctxVars, orderVars, pos, legVars, closing>>

----------------------------------------------------------------------------
(* The venue (external) *)

\* A submitted order arrives, is refused, or is lost on the way.
Arrive(e) ==
  /\ order[e] = "transit"
  /\ \E st \in {"working", "refused", "lost"} : order' = [order EXCEPT ![e] = st]
  /\ UNCHANGED <<slotVars, pc, localVars, ctxVars, expired, exec, pos, legVars, closing>>

Fill(e) ==
  /\ order[e] = "working"
  /\ exec' = [exec EXCEPT ![e] = @ + 1]
  /\ order' = [order EXCEPT ![e] = IF exec[e] + 1 = Qty THEN "filled" ELSE @]
  /\ pos' = [pos EXCEPT ![SymbolOf[e]] = @ + 1]
  /\ UNCHANGED <<slotVars, pc, localVars, ctxVars, expired, legVars, closing>>

\* The entry is cancelled from elsewhere: cancelEntryOrders (the kill-switch),
\* or the venue expires it.
EntryCancelled(e) ==
  /\ order[e] = "working"
  /\ order' = [order EXCEPT ![e] = "canceled"]
  /\ UNCHANGED <<slotVars, pc, localVars, ctxVars, expired, exec, pos, legVars, closing>>

\* A closePosition leg triggers: it is consumed and the position is closed.
Trigger(s) ==
  /\ pos[s] > 0
  /\ EntryWorking(s) => "trigger" \in Env
  /\ \/ \E n \in stops[s] : stops' = [stops EXCEPT ![s] = @ \ {n}] /\ UNCHANGED tps
     \/ \E n \in tps[s] : tps' = [tps EXCEPT ![s] = @ \ {n}] /\ UNCHANGED stops
  /\ pos' = [pos EXCEPT ![s] = 0]
  /\ UNCHANGED <<slotVars, pc, localVars, ctxVars, expired, orderVars, closing>>

----------------------------------------------------------------------------
(* The operator's closePosition: a reduce-only market order, then cancelAll *)

OperatorClose(s) ==
  /\ "operator" \in Env
  /\ pos[s] > 0 /\ s \notin closing
  /\ pos' = [pos EXCEPT ![s] = 0]
  /\ closing' = closing \cup {s}
  /\ UNCHANGED <<slotVars, pc, localVars, ctxVars, expired, orderVars, legVars>>

OperatorCancelAll(s) ==
  /\ s \in closing
  /\ CancelAllOf(s)
  /\ closing' = closing \ {s}
  /\ UNCHANGED <<slotVars, pc, localVars, ctxVars, expired, exec, pos>>

----------------------------------------------------------------------------
SubmitNext == \E e \in Entries :
  \/ Reserve(e) \/ PrepareFails(e) \/ Submit(e)
  \/ SubmitAnswered(e) \/ SubmitRefused(e) \/ SubmitTimesOut(e)

\* Steps of the tracker whose venue call, if any, succeeds.
StepOk ==
  \/ ReadOrder \/ ReadPosition \/ PlaceStop \/ PlaceTp \/ EmergencyClose
  \/ CancelAllOpen \/ Flatten \/ CancelStale \/ StaleDone
  \/ Resolve \/ NotResolved \/ CancelEntry \/ Wake

StepFails ==
  \/ ReadFails \/ PlaceStopFails \/ PlaceTpFails \/ CancelAllOpenFails
  \/ FlattenFails \/ CancelStaleFails \/ CancelEntryFails

VenueNext ==
  \/ \E e \in Entries : Arrive(e) \/ Fill(e) \/ EntryCancelled(e)
  \/ \E s \in Symbols : Trigger(s)

OperatorNext == \E s \in Symbols : OperatorClose(s) \/ OperatorCancelAll(s)

\* Every call has been made and nothing is being followed.
Terminated ==
  /\ slot = NoEntry /\ \A e \in Entries : caller[e] = "done"
  /\ UNCHANGED vars

Next == \/ SubmitNext \/ StepOk \/ StepFails \/ Expire \/ VenueNext \/ OperatorNext
        \/ Terminated

Spec == Init /\ [][Next]_vars

(* Each started call goes on, a sent order arrives or is lost, time passes *)
(* and the loop never stops by itself (weak fairness).  A venue call that  *)
(* is made again and again succeeds at some time (strong fairness): the    *)
(* code retries for ever and cannot do more.                               *)
Fairness ==
  /\ \A e \in Entries :
       /\ WF_vars(PrepareFails(e) \/ Submit(e))
       /\ WF_vars(SubmitAnswered(e) \/ SubmitRefused(e) \/ SubmitTimesOut(e))
       /\ WF_vars(Arrive(e))
  /\ WF_vars(Expire)
  /\ WF_vars(StepOk \/ StepFails)
  /\ SF_vars(ReadOrder) /\ SF_vars(ReadPosition)
  /\ SF_vars(PlaceStop) /\ SF_vars(PlaceTp)
  /\ SF_vars(CancelAllOpen)
  /\ SF_vars(CancelStale) /\ SF_vars(CancelEntry)

FairSpec == Spec /\ Fairness

----------------------------------------------------------------------------
(* Properties *)

TypeOK ==
  /\ caller \in [Entries -> {"idle", "preparing", "submitting", "done"}]
  /\ slot \in Entries \cup {NoEntry}
  /\ tracked \in BOOLEAN
  /\ pc \in Steps
  /\ seen \in Statuses
  /\ held \in Nat
  /\ pair \in Legs \cup {NoLeg}
  /\ todo \in SUBSET Legs
  /\ legs \in Legs \cup {NoLeg}
  /\ legsQty \in Nat
  /\ stale \in SUBSET Legs
  /\ cancelSent \in BOOLEAN
  /\ expired \in BOOLEAN
  /\ order \in [Entries -> OrderStates]
  /\ exec \in [Entries -> Nat]
  /\ pos \in [Symbols -> Nat]
  /\ stops \in [Symbols -> SUBSET Legs]
  /\ tps \in [Symbols -> SUBSET Legs]
  /\ closing \in SUBSET Symbols

(* Once no entry is in progress on a symbol, an open position there has a  *)
(* stop resting at the venue (liveEntry.ts 97-99: resolved only when the   *)
(* legs match the position; a failed protection keeps the tracker busy).   *)
ResolvedProtected ==
  \A s \in Symbols : ~holds(s) /\ pos[s] > 0 => stops[s] # {}

(* At most one entry order can still fill, over all symbols (liveEntry.ts  *)
(* 93-94: the slot is single-flight because the risk gate does not see a   *)
(* resting entry).                                                         *)
SingleExposure ==
  \A e, f \in Entries :
    order[e] \in {"transit", "working"} /\ order[f] \in {"transit", "working"} => e = f

(* The tracker takes the last stop of an open position away only in the    *)
(* cleanup of a failed protection, or as a stale leg after it read the     *)
(* position as flat (liveEntry.ts 95-98: new legs go up first and the old  *)
(* ones are cancelled after).                                              *)
NeverUncovered ==
  [][\A s \in Symbols :
       pos[s] > 0 /\ stops[s] # {} /\ stops'[s] = {} =>
         \/ pos'[s] = 0
         \/ holds(s) /\ pc = "cancelall"
         \/ holds(s) /\ pc = "stale" /\ held = 0]_vars

(* When no entry is in progress on a symbol, at most one stop and one      *)
(* take-profit rest there (liveEntry.ts 82, 97: the entry is not resolved  *)
(* while a superseded or orphaned leg remains).                            *)
NoLegLeftBehind ==
  \A s \in Symbols : ~holds(s) =>
    /\ \A m, n \in stops[s] : m = n
    /\ \A m, n \in tps[s] : m = n

(* The slot is always given back: an entry that claims it is refused,      *)
(* released or resolved (liveEntry.ts 151-168).                            *)
SlotFreed == \A e \in Entries : slot = e ~> slot # e
=============================================================================
