---------------------------- MODULE TradingCycle ----------------------------
(***************************************************************************)
(* The trading loop in live mode, from the venue's state to a submitted    *)
(* entry:                                                                  *)
(*   Orchestrator      loop, runCycle, processSignals and its guards       *)
(*   BinanceService    refreshLiveState, reconcileLive, entry submission   *)
(*   RiskAgent         the gate every entry passes                         *)
(*   KillSwitch, EquityHwmStore, RefusalSuppressor                         *)
(*                                                                         *)
(* Cycles never overlap (singleFlight), but a cycle is full of awaits: the *)
(* operator, the entry tracker, the venue and a crash come in between.  An *)
(* action is what happens from one await to the next.  The tracker that    *)
(* follows a submitted entry is modelled in detail in LiveEntry; here it   *)
(* appears as what it promises.  A signal is the symbol it wants to open;  *)
(* signals refused for their own prices are signals that were not raised.  *)
(***************************************************************************)
EXTENDS Integers, Sequences, FiniteSets

CONSTANTS
  Symbols,         \* config.symbols
  None,            \* no symbol, no signature
  Equities,        \* what the account's equity may be
  BucketSize,      \* equities per bucket of the suppressor's signature
  MaxDrawdownPct,  \* config.risk.maxDrawdownPct
  MaxPositions,    \* maxConcurrentPositions
  MaxQty,          \* bound: lots of a position
  MaxToggles,      \* bound: how often the operator uses the kill switch
  Worlds           \* the worlds to check

(* A world fixes for a whole behaviour which symbols get signals and which *)
(* of these may happen:                                                    *)
(*   "halt"     the operator uses the kill switch                          *)
(*   "equity"   the account's equity moves                                 *)
(*   "circuit"  the loss governors halt and release entries                *)
(*   "loss"     a position trips the per-position emergency stop           *)
(*   "flatten"  DRAWDOWN_BREACH_ACTION is flatten                          *)
(*   "calls"    calls of the venue fail without effect, feeds grow old     *)
(*   "lost"     the answer to an entry order is lost                       *)
(*   "disk"     saving the kill switch or the peak fails                   *)
(*   "crash"    the process stops and starts again                         *)
Kinds == {"halt", "equity", "circuit", "loss", "flatten", "calls", "lost", "disk", "crash"}

ASSUME CycleAssumption ==
  /\ IsFiniteSet(Symbols) /\ None \notin Symbols
  /\ None \notin [circuit : {"NORMAL", "HALTED"}, bucket : Nat, book : [Symbols -> Nat]]
  /\ Equities \subseteq Nat /\ \E e \in Equities : \A f \in Equities : f <= e
  /\ BucketSize \in Nat \ {0}
  /\ {MaxDrawdownPct, MaxPositions, MaxQty, MaxToggles} \subseteq Nat
  /\ Worlds \subseteq [symbols : SUBSET Symbols, kinds : SUBSET Kinds]

VARIABLES
  world,         \* the world of this behaviour
  pos, stop, resting,    \* venue: lots held, stop resting, entries resting
  equity, circuit,       \* account equity, state of the loss governors
  halted, haltFile,      \* KillSwitch.current and its file
  peak, peakFile,        \* EquityHwmStore.snapshot and its file
  wasBreached,           \* Orchestrator.drawdownBreached
  reconciled, journalFresh, bracketsFresh, hedge, blocks,  \* guards of BinanceService
  holder,                \* LiveEntryTracker.holder
  suppressed, cooling,   \* RefusalSuppressor.blocked, cooldownStartedAt
  pc, ctx, plan, work, queue,  \* the cycle: step, context, startup plan, closes, signals left
  cancels,               \* cancelRestingEntries of the cycle and of the operator
  toggles,               \* bound: uses of the kill switch
  afterHalt              \* history: entries that reached the venue since the halt

venueVars == <<pos, stop, resting>>
marketVars == <<equity, circuit>>
haltVars == <<halted, haltFile, toggles>>
peakVars == <<peak, peakFile, wasBreached>>
guardVars == <<reconciled, journalFresh, bracketsFresh, hedge, blocks>>
signalVars == <<suppressed, cooling>>
cycleVars == <<pc, ctx, plan, work, queue>>
vars == <<world, venueVars, marketVars, haltVars, peakVars, guardVars, holder, signalVars,
          cycleVars, cancels, afterHalt>>

May(kind) == kind \in world.kinds
Tasks == {"cycle", "operator"}
IdleCancel == [pc |-> "idle", todo |-> {}]
NoHolder == [symbol |-> None, working |-> FALSE]
NoPlan == [entries |-> {}, stops |-> {}, cancel |-> {}, unprotected |-> {}]
NoWork == [todo |-> {}, symbol |-> None, then |-> "drawdown", transition |-> FALSE]
NoCtx == [pos |-> [s \in Symbols |-> 0], equity |-> 0, safety |-> {}, performance |-> FALSE,
          brackets |-> FALSE, circuit |-> "NORMAL"]
Steps == {"idle", "feeds", "orders", "positions", "cleanup", "gather", "emergency", "close",
          "closeCancel", "drawdown", "cancelling", "collect", "next", "veto", "submit", "portfolio"}

----------------------------------------------------------------------------
(* Helpers *)

HeldIn(book) == {s \in Symbols : book[s] > 0}
Higher(a, b) == IF a > b THEN a ELSE b

\* Mutant: a closing order may sell more than is held.
ReduceOnlyIgnored(held, qty) == held - qty

\* What is left after a reduce-only order.
ReduceOnly(held, qty) == IF held > qty THEN held - qty ELSE 0

\* The drawdown both the account guard and the gate compute.
isDrawdownBreached(value, top) == value = 0 \/ (top - value) * 100 > MaxDrawdownPct * top

\* observe: the peak only rises, and is saved when it does (best effort).
observe(value) ==
  /\ peak' = Higher(peak, value)
  /\ \/ peakFile' = IF value > peak THEN value ELSE peakFile
     \/ May("disk") /\ peakFile' = peakFile

\* toggle: flips the halt and saves it; a failed save is only remembered.
toggle ==
  /\ halted' = ~halted
  /\ \/ haltFile' = ~halted
     \/ May("disk") /\ haltFile' = haltFile

\* Mutant: an entry does not wait for startup reconciliation.
entryBlockedEarly(s) == hedge \/ ~journalFresh \/ s \in blocks

\* entryBlockReason: why an entry on s is refused by the venue's guards.
entryBlocked(s) == hedge \/ ~reconciled \/ ~journalFresh \/ s \in blocks

\* Mutant: the signature leaves out the open positions.
signatureNoBook(c) == [circuit |-> c.circuit, bucket |-> c.equity \div BucketSize, book |-> NoCtx.pos]

\* signatureOf: what a standing refusal is remembered with.
signatureOf(c) == [circuit |-> c.circuit, bucket |-> c.equity \div BucketSize, book |-> c.pos]

\* Mutant: the gate does not look at the kill switch.
refusalNoHalt(s) ==
  IF s \in ctx.safety THEN "safety"
  ELSE IF isDrawdownBreached(ctx.equity, Higher(peak, ctx.equity)) THEN "drawdown"
  ELSE IF ~ctx.performance \/ ~ctx.brackets THEN "no data"
  ELSE IF ctx.circuit = "HALTED" THEN "circuit"
  ELSE IF Cardinality(HeldIn(ctx.pos)) + 1 > MaxPositions THEN "capacity" ELSE "approved"

\* RiskAgent.gate, evaluateRisk: the first reason that refuses an entry on s.
refusal(s) ==
  IF halted THEN "kill-switch"
  ELSE IF s \in ctx.safety THEN "safety"
  ELSE IF isDrawdownBreached(ctx.equity, Higher(peak, ctx.equity)) THEN "drawdown"
  ELSE IF ~ctx.performance \/ ~ctx.brackets THEN "no data"
  ELSE IF ctx.circuit = "HALTED" THEN "circuit"
  ELSE IF Cardinality(HeldIn(ctx.pos)) + 1 > MaxPositions THEN "capacity" ELSE "approved"

\* isStandingBlock: refusals that are remembered.
isStandingBlock(reason) == reason \in {"kill-switch", "drawdown", "circuit", "capacity"}

\* shouldSkip: the signal was refused in what looks like the same situation.
shouldSkip(s) == suppressed[s] = signatureOf(ctx)

\* The signal at the head of the queue is done with.
Done == pc' = "next" /\ queue' = Tail(queue)

\* An entry order reaches the venue.
Landed(s) ==
  /\ resting' = resting \cup {s}
  /\ afterHalt' = IF halted THEN afterHalt + 1 ELSE afterHalt

----------------------------------------------------------------------------
Init ==
  /\ world \in Worlds
  /\ pos = [s \in Symbols |-> 0] /\ stop = [s \in Symbols |-> FALSE] /\ resting = {}
  /\ equity = CHOOSE e \in Equities : \A f \in Equities : f <= e
  /\ circuit = "NORMAL"
  /\ halted = FALSE /\ haltFile = FALSE /\ toggles = 0
  /\ peak = 0 /\ peakFile = 0 /\ wasBreached = FALSE
  /\ reconciled = FALSE /\ journalFresh = FALSE /\ bracketsFresh = FALSE /\ hedge = FALSE
  /\ blocks = {} /\ holder = NoHolder
  /\ suppressed = [s \in Symbols |-> None] /\ cooling = {}
  /\ pc = "idle" /\ ctx = NoCtx /\ plan = NoPlan /\ work = NoWork /\ queue = <<>>
  /\ cancels = [t \in Tasks |-> IdleCancel]
  /\ afterHalt = 0

----------------------------------------------------------------------------
(* refreshLiveState *)

\* loop: the next cycle starts once the one before is over.
CycleStart ==
  /\ pc = "idle"
  /\ pc' = "feeds"
  /\ UNCHANGED <<world, venueVars, marketVars, haltVars, peakVars, guardVars, holder, signalVars, ctx,
                 plan, work, queue, cancels, afterHalt>>

\* syncJournal, refreshBrackets; then the venue is reconciled when due.
RefreshFeeds ==
  /\ pc = "feeds"
  /\ journalFresh' = TRUE /\ bracketsFresh' = TRUE
  /\ pc' = "orders" \/ (reconciled /\ pc' = "gather")
  /\ UNCHANGED <<world, venueVars, marketVars, haltVars, peakVars, reconciled, hedge, blocks, holder,
                 signalVars, ctx, plan, work, queue, cancels, afterHalt>>

\* A step of refreshLiveState throws: the rest of it is left out.
RefreshFails ==
  /\ May("calls") /\ pc \in {"feeds", "orders", "positions", "cleanup"}
  /\ \/ journalFresh' = journalFresh
     \/ pc = "feeds" /\ journalFresh' = TRUE
  /\ pc' = "gather" /\ plan' = NoPlan
  /\ UNCHANGED <<world, venueVars, marketVars, haltVars, peakVars, reconciled, bracketsFresh, hedge,
                 blocks, holder, signalVars, ctx, work, queue, cancels, afterHalt>>

\* Time passes: the journal or the brackets are too old.
FeedAges ==
  /\ May("calls")
  /\ journalFresh' \in {journalFresh, FALSE} /\ bracketsFresh' \in {bracketsFresh, FALSE}
  /\ UNCHANGED <<world, venueVars, marketVars, haltVars, peakVars, reconciled, hedge, blocks, holder,
                 signalVars, cycleVars, cancels, afterHalt>>

\* reconcileLive reads the position mode and the open orders ...
ReconcileOrders ==
  /\ pc = "orders"
  /\ hedge' \in BOOLEAN /\ (hedge' => May("calls"))
  /\ plan' = [NoPlan EXCEPT !.entries = resting, !.stops = {s \in Symbols : stop[s]}]
  /\ pc' = "positions"
  /\ UNCHANGED <<world, venueVars, marketVars, haltVars, peakVars, reconciled, journalFresh,
                 bracketsFresh, blocks, holder, signalVars, ctx, work, queue, cancels, afterHalt>>

\* Mutant: only the startup pass looks for unprotected positions.
planUnprotectedOnce(held) ==
  [plan EXCEPT !.cancel = ({"entry"} \X plan.entries) \cup ({"stop"} \X (plan.stops \ held)),
               !.unprotected = IF reconciled THEN {} ELSE held \ plan.stops]

\* planStartupReconciliation: own entries and orphaned stops are to go.
planStartupReconciliation(held) ==
  [plan EXCEPT !.cancel = ({"entry"} \X plan.entries) \cup ({"stop"} \X (plan.stops \ held)),
               !.unprotected = held \ plan.stops]

\* ... and after them the positions.  Only the startup pass cancels.
ReconcilePositions ==
  /\ pc = "positions"
  /\ plan' = LET p == planStartupReconciliation(HeldIn(pos))
             IN IF reconciled THEN [p EXCEPT !.cancel = {}] ELSE p
  /\ pc' = "cleanup"
  /\ UNCHANGED <<world, venueVars, marketVars, haltVars, peakVars, guardVars, holder, signalVars, ctx,
                 work, queue, cancels, afterHalt>>

\* One order of the plan is cancelled; one that is gone counts as cancelled.
StartupCancel ==
  /\ pc = "cleanup"
  /\ \E o \in plan.cancel :
       /\ resting' = IF o[1] = "entry" THEN resting \ {o[2]} ELSE resting
       /\ stop' = IF o[1] = "stop" THEN [stop EXCEPT ![o[2]] = FALSE] ELSE stop
       /\ plan' = [plan EXCEPT !.cancel = @ \ {o}]
  /\ UNCHANGED <<world, pos, marketVars, haltVars, peakVars, guardVars, holder, signalVars, pc, ctx,
                 work, queue, cancels, afterHalt>>

\* Blocks of protected symbols go, those of unprotected ones are set unless
\* the tracker is still at work on them.
ReconcileEnd ==
  /\ pc = "cleanup" /\ plan.cancel = {}
  /\ reconciled' = TRUE
  /\ blocks' = (blocks \cap plan.unprotected) \cup (plan.unprotected \ {holder.symbol})
  /\ pc' = "gather" /\ plan' = NoPlan
  /\ UNCHANGED <<world, venueVars, marketVars, haltVars, peakVars, journalFresh, bracketsFresh, hedge,
                 holder, signalVars, ctx, work, queue, cancels, afterHalt>>

----------------------------------------------------------------------------
(* gatherContext, guardEmergencyDrawdown, guardAccountDrawdown *)

Gather ==
  /\ pc = "gather"
  /\ ctx' = [pos |-> pos, equity |-> equity, safety |-> {s \in Symbols : entryBlocked(s)},
             performance |-> journalFresh, brackets |-> bracketsFresh, circuit |-> circuit]
  /\ pc' = "emergency"
  /\ UNCHANGED <<world, venueVars, marketVars, haltVars, peakVars, guardVars, holder, signalVars, plan,
                 work, queue, cancels, afterHalt>>

\* gatherContext or refreshPortfolio throws: the loop logs it and ends.
CycleFails ==
  /\ May("calls") /\ pc \in {"gather", "portfolio"}
  /\ pc' = "idle" /\ ctx' = NoCtx /\ queue' = <<>>
  /\ UNCHANGED <<world, venueVars, marketVars, haltVars, peakVars, guardVars, holder, signalVars, plan,
                 work, cancels, afterHalt>>

\* guardEmergencyDrawdown: the positions whose loss is too large.
GuardEmergency ==
  /\ pc = "emergency"
  /\ \E lost \in SUBSET HeldIn(ctx.pos) :
       /\ lost = {} \/ May("loss")
       /\ work' = [NoWork EXCEPT !.todo = lost]
  /\ pc' = "close"
  /\ UNCHANGED <<world, venueVars, marketVars, haltVars, peakVars, guardVars, holder, signalVars, ctx,
                 plan, queue, cancels, afterHalt>>

\* closePosition sells what the context held ...
CloseSend ==
  /\ pc = "close"
  /\ \E s \in work.todo :
       /\ pos' = [pos EXCEPT ![s] = ReduceOnly(pos[s], ctx.pos[s])]
       /\ work' = [work EXCEPT !.todo = @ \ {s}, !.symbol = s]
  /\ pc' = "closeCancel"
  /\ UNCHANGED <<world, stop, resting, marketVars, haltVars, peakVars, guardVars, holder, signalVars,
                 ctx, plan, queue, cancels, afterHalt>>

\* ... and then cancels every order of the symbol.
CloseCancel ==
  /\ pc = "closeCancel"
  /\ stop' = [stop EXCEPT ![work.symbol] = FALSE]
  /\ resting' = resting \ {work.symbol}
  /\ pc' = "close"
  /\ UNCHANGED <<world, pos, marketVars, haltVars, peakVars, guardVars, holder, signalVars, ctx, plan,
                 work, queue, cancels, afterHalt>>

\* Either call fails: the next position is tried.
CloseFails ==
  /\ May("calls")
  /\ \/ pc = "close" /\ \E s \in work.todo : work' = [work EXCEPT !.todo = @ \ {s}]
     \/ pc = "closeCancel" /\ work' = work
  /\ pc' = "close"
  /\ UNCHANGED <<world, venueVars, marketVars, haltVars, peakVars, guardVars, holder, signalVars, ctx,
                 plan, queue, cancels, afterHalt>>

CloseEnd ==
  /\ pc = "close" /\ work.todo = {}
  /\ pc' = work.then /\ work' = NoWork
  /\ UNCHANGED <<world, venueVars, marketVars, haltVars, peakVars, guardVars, holder, signalVars, ctx,
                 plan, queue, cancels, afterHalt>>

\* guardAccountDrawdown: within the limit, or the resting entries go first.
GuardDrawdown ==
  /\ pc = "drawdown"
  /\ observe(ctx.equity)
  /\ wasBreached' = isDrawdownBreached(ctx.equity, peak')
  /\ IF wasBreached'
       THEN /\ pc' = "cancelling"
            /\ work' = [work EXCEPT !.transition = ~wasBreached]
            /\ cancels' = [cancels EXCEPT !["cycle"].pc = "read"]
       ELSE pc' = "collect" /\ UNCHANGED <<work, cancels>>
  /\ UNCHANGED <<world, venueVars, marketVars, haltVars, guardVars, holder, signalVars, ctx, plan, queue,
                 afterHalt>>

\* Mutant: whether the switch is on is decided before the cancels.
GuardHaltBlind ==
  /\ pc = "cancelling" /\ cancels["cycle"].pc = "idle"
  /\ IF work.transition /\ May("flatten")
       THEN toggle /\ afterHalt' = 0 ELSE UNCHANGED <<halted, haltFile, afterHalt>>
  /\ work' = [work EXCEPT !.todo = IF May("flatten") THEN HeldIn(ctx.pos) ELSE {}, !.then = "collect"]
  /\ pc' = "close"
  /\ UNCHANGED <<world, venueVars, marketVars, toggles, peakVars, guardVars, holder, signalVars, ctx,
                 plan, queue, cancels>>

\* Mutant: the book is closed only when the breach is first seen.
GuardHaltOnce ==
  /\ pc = "cancelling" /\ cancels["cycle"].pc = "idle"
  /\ IF work.transition /\ May("flatten") /\ ~halted
       THEN toggle /\ afterHalt' = 0 ELSE UNCHANGED <<halted, haltFile, afterHalt>>
  /\ work' = [work EXCEPT !.todo = IF May("flatten") /\ work.transition THEN HeldIn(ctx.pos) ELSE {},
                          !.then = "collect"]
  /\ pc' = "close"
  /\ UNCHANGED <<world, venueVars, marketVars, toggles, peakVars, guardVars, holder, signalVars, ctx,
                 plan, queue, cancels>>

\* After the cancels: `flatten` halts once per breach and closes the book.
GuardHalt ==
  /\ pc = "cancelling" /\ cancels["cycle"].pc = "idle"
  /\ IF work.transition /\ May("flatten") /\ ~halted
       THEN toggle /\ afterHalt' = 0 ELSE UNCHANGED <<halted, haltFile, afterHalt>>
  /\ work' = [work EXCEPT !.todo = IF May("flatten") THEN HeldIn(ctx.pos) ELSE {}, !.then = "collect"]
  /\ pc' = "close"
  /\ UNCHANGED <<world, venueVars, marketVars, toggles, peakVars, guardVars, holder, signalVars, ctx,
                 plan, queue, cancels>>

\* cancelEntryOrders of a task: the open orders are read ...
CancelRead(t) ==
  /\ cancels[t].pc = "read"
  /\ cancels' = [cancels EXCEPT ![t] = IF resting = {} THEN IdleCancel
                                       ELSE [pc |-> "cancel", todo |-> resting]]
  /\ UNCHANGED <<world, venueVars, marketVars, haltVars, peakVars, guardVars, holder, signalVars,
                 cycleVars, afterHalt>>

\* ... and cancelled one by one.
CancelOne(t) ==
  /\ cancels[t].pc = "cancel"
  /\ \E s \in cancels[t].todo :
       /\ resting' = resting \ {s}
       /\ cancels' = [cancels EXCEPT ![t] = IF @.todo = {s} THEN IdleCancel
                                            ELSE [pc |-> "cancel", todo |-> @.todo \ {s}]]
  /\ UNCHANGED <<world, pos, stop, marketVars, haltVars, peakVars, guardVars, holder, signalVars,
                 cycleVars, afterHalt>>

CancelFails(t) ==
  /\ May("calls") /\ cancels[t].pc # "idle"
  /\ cancels' = [cancels EXCEPT ![t] = IdleCancel]
  /\ UNCHANGED <<world, venueVars, marketVars, haltVars, peakVars, guardVars, holder, signalVars,
                 cycleVars, afterHalt>>

----------------------------------------------------------------------------
(* processSignals *)

\* collectSignals: approved strategies raise signals, at most one per symbol.
Collect ==
  /\ pc = "collect"
  /\ \E n \in 0..Cardinality(world.symbols) :
       queue' \in {q \in [1..n -> world.symbols] : \A i, j \in 1..n : q[i] = q[j] => i = j}
  /\ pc' = "next"
  /\ UNCHANGED <<world, venueVars, marketVars, haltVars, peakVars, guardVars, holder, signalVars, ctx,
                 plan, work, cancels, afterHalt>>

\* The signal cools down, or its standing refusal would only repeat.
SignalSkipped ==
  /\ pc = "next" /\ queue # <<>>
  /\ Head(queue) \in cooling \/ shouldSkip(Head(queue))
  /\ Done
  /\ UNCHANGED <<world, venueVars, marketVars, haltVars, peakVars, guardVars, holder, signalVars, ctx,
                 plan, work, cancels, afterHalt>>

\* The gate refuses; a standing refusal is remembered.
SignalRefused ==
  /\ pc = "next" /\ queue # <<>>
  /\ LET s == Head(queue) IN
     /\ s \notin cooling /\ ~shouldSkip(s) /\ refusal(s) # "approved"
     /\ suppressed' = [suppressed EXCEPT ![s] =
                         IF isStandingBlock(refusal(s)) THEN signatureOf(ctx) ELSE None]
     /\ IF refusal(s) = "safety" THEN UNCHANGED <<peak, peakFile>> ELSE observe(ctx.equity)
  /\ Done
  /\ UNCHANGED <<world, venueVars, marketVars, haltVars, wasBreached, guardVars, holder, cooling, ctx,
                 plan, work, cancels, afterHalt>>

\* The gate approves; the advisor and the decision gates are asked.
SignalApproved ==
  /\ pc = "next" /\ queue # <<>>
  /\ LET s == Head(queue) IN
     /\ s \notin cooling /\ ~shouldSkip(s) /\ refusal(s) = "approved"
     /\ suppressed' = [suppressed EXCEPT ![s] = None]
  /\ observe(ctx.equity)
  /\ pc' = "veto"
  /\ UNCHANGED <<world, venueVars, marketVars, haltVars, wasBreached, guardVars, holder, cooling, ctx,
                 plan, work, queue, cancels, afterHalt>>

\* Vetoed, or stopped by the execution quality or friction gates.
SignalVetoed ==
  /\ pc = "veto"
  /\ Done
  /\ UNCHANGED <<world, venueVars, marketVars, haltVars, peakVars, guardVars, holder, signalVars, ctx,
                 plan, work, cancels, afterHalt>>

\* execute: refused by the venue's guards (an error, no cooldown) or because
\* another entry is in flight (a refusal, which starts the cooldown).
ExecuteRefused ==
  /\ pc = "veto"
  /\ LET s == Head(queue) IN
     /\ entryBlocked(s) \/ holder # NoHolder
     /\ cooling' = IF entryBlocked(s) THEN cooling ELSE cooling \cup {s}
  /\ Done
  /\ UNCHANGED <<world, venueVars, marketVars, haltVars, peakVars, guardVars, holder, suppressed, ctx,
                 plan, work, cancels, afterHalt>>

\* reserve: the slot is claimed before the first await of the submission.
Reserve ==
  /\ pc = "veto"
  /\ ~entryBlocked(Head(queue)) /\ holder = NoHolder
  /\ holder' = [symbol |-> Head(queue), working |-> FALSE]
  /\ pc' = "submit"
  /\ UNCHANGED <<world, venueVars, marketVars, haltVars, peakVars, guardVars, signalVars, ctx, plan,
                 work, queue, cancels, afterHalt>>

\* The order rests at the venue and is tracked from now on.
Submit ==
  /\ pc = "submit"
  /\ Landed(Head(queue))
  /\ holder' = [holder EXCEPT !.working = TRUE]
  /\ cooling' = cooling \cup {Head(queue)}
  /\ pc' = "portfolio"
  /\ UNCHANGED <<world, pos, stop, marketVars, haltVars, peakVars, guardVars, suppressed, ctx, plan,
                 work, queue, cancels>>

\* The venue refuses the leverage, the margin type or the order.
SubmitRejected ==
  /\ May("calls") /\ pc = "submit"
  /\ holder' = NoHolder
  /\ Done
  /\ UNCHANGED <<world, venueVars, marketVars, haltVars, peakVars, guardVars, signalVars, ctx, plan,
                 work, cancels, afterHalt>>

\* No answer: the order may have arrived or not, and is tracked either way.
SubmitLost ==
  /\ May("lost") /\ pc = "submit"
  /\ Landed(Head(queue)) \/ UNCHANGED <<resting, afterHalt>>
  /\ holder' = [holder EXCEPT !.working = TRUE]
  /\ Done
  /\ UNCHANGED <<world, pos, stop, marketVars, haltVars, peakVars, guardVars, signalVars, ctx, plan,
                 work, cancels>>

\* Mutant: the context is not refreshed after an order.
RefreshPortfolioSkipped ==
  /\ pc = "portfolio"
  /\ Done
  /\ UNCHANGED <<world, venueVars, marketVars, haltVars, peakVars, guardVars, holder, signalVars, ctx,
                 plan, work, cancels, afterHalt>>

\* refreshPortfolio: later signals are gated against what is held now.
RefreshPortfolio ==
  /\ pc = "portfolio"
  /\ ctx' = [ctx EXCEPT !.pos = pos, !.equity = equity]
  /\ Done
  /\ UNCHANGED <<world, venueVars, marketVars, haltVars, peakVars, guardVars, holder, signalVars, plan,
                 work, cancels, afterHalt>>

CycleEnd ==
  /\ pc = "next" /\ queue = <<>>
  /\ pc' = "idle" /\ ctx' = NoCtx
  /\ UNCHANGED <<world, venueVars, marketVars, haltVars, peakVars, guardVars, holder, signalVars, plan,
                 work, queue, cancels, afterHalt>>

\* isCoolingDown: the cooldown of a signal is over.
CooldownEnds ==
  /\ \E s \in cooling : cooling' = cooling \ {s}
  /\ UNCHANGED <<world, venueVars, marketVars, haltVars, peakVars, guardVars, holder, suppressed,
                 cycleVars, cancels, afterHalt>>

----------------------------------------------------------------------------
(* The entry tracker, the venue, the operator, crashes *)

Fill(s) ==
  /\ s \in resting /\ pos[s] < MaxQty
  /\ resting' = resting \ {s}
  /\ pos' = [pos EXCEPT ![s] = @ + 1]
  /\ UNCHANGED <<world, stop, marketVars, haltVars, peakVars, guardVars, holder, signalVars, cycleVars,
                 cancels, afterHalt>>

StopFires(s) ==
  /\ pos[s] > 0 /\ stop[s]
  /\ pos' = [pos EXCEPT ![s] = 0] /\ stop' = [stop EXCEPT ![s] = FALSE]
  /\ UNCHANGED <<world, resting, marketVars, haltVars, peakVars, guardVars, holder, signalVars,
                 cycleVars, cancels, afterHalt>>

\* syncLegs: a fill is protected, or the orders go and the position closes.
TrackerProtects ==
  /\ holder.working
  /\ LET s == holder.symbol IN
     /\ pos[s] > 0 /\ ~stop[s]
     /\ \/ stop' = [stop EXCEPT ![s] = TRUE] /\ UNCHANGED <<pos, resting>>
        \/ May("calls") /\ pos' = [pos EXCEPT ![s] = 0] /\ resting' = resting \ {s} /\ stop' = stop
  /\ UNCHANGED <<world, marketVars, haltVars, peakVars, guardVars, holder, signalVars, cycleVars, cancels,
                 afterHalt>>

\* The entry is cancelled after its TTL.
TrackerExpires ==
  /\ holder.working /\ holder.symbol \in resting
  /\ resting' = resting \ {holder.symbol}
  /\ UNCHANGED <<world, pos, stop, marketVars, haltVars, peakVars, guardVars, holder, signalVars,
                 cycleVars, cancels, afterHalt>>

\* The order is terminal and what it filled is protected: the slot is free.
TrackerResolves ==
  /\ holder.working /\ holder.symbol \notin resting
  /\ pos[holder.symbol] > 0 => stop[holder.symbol]
  /\ holder' = NoHolder
  /\ UNCHANGED <<world, venueVars, marketVars, haltVars, peakVars, guardVars, signalVars, cycleVars,
                 cancels, afterHalt>>

\* The operator presses the kill switch; a halt cancels the resting entries.
OperatorToggles ==
  /\ May("halt") /\ toggles < MaxToggles /\ cancels["operator"].pc = "idle"
  /\ toggle /\ toggles' = toggles + 1
  /\ IF halted' THEN cancels' = [cancels EXCEPT !["operator"].pc = "read"] /\ afterHalt' = 0
     ELSE UNCHANGED <<cancels, afterHalt>>
  /\ UNCHANGED <<world, venueVars, marketVars, peakVars, guardVars, holder, signalVars, cycleVars>>

MarketMoves ==
  /\ \/ May("equity") /\ equity' \in Equities /\ circuit' = circuit
     \/ May("circuit") /\ equity' = equity /\ circuit' \in {"NORMAL", "HALTED"}
  /\ UNCHANGED <<world, venueVars, haltVars, peakVars, guardVars, holder, signalVars, cycleVars, cancels,
                 afterHalt>>

\* The process stops and starts again: two files and the venue remain.
Restart ==
  /\ May("crash")
  /\ halted' = haltFile /\ peak' = peakFile /\ wasBreached' = FALSE
  /\ reconciled' = FALSE /\ journalFresh' = FALSE /\ bracketsFresh' = FALSE /\ hedge' = FALSE
  /\ blocks' = {} /\ holder' = NoHolder
  /\ suppressed' = [s \in Symbols |-> None] /\ cooling' = {}
  /\ pc' = "idle" /\ ctx' = NoCtx /\ plan' = NoPlan /\ work' = NoWork /\ queue' = <<>>
  /\ cancels' = [t \in Tasks |-> IdleCancel]
  /\ UNCHANGED <<world, venueVars, marketVars, haltFile, toggles, peakFile, afterHalt>>

----------------------------------------------------------------------------
Guards == \/ RefreshFeeds \/ ReconcileOrders \/ ReconcilePositions \/ StartupCancel \/ ReconcileEnd
          \/ Gather \/ GuardEmergency \/ GuardDrawdown \/ GuardHalt \/ CloseEnd
Signals == \/ Collect \/ SignalSkipped \/ SignalRefused \/ SignalApproved \/ SignalVetoed
           \/ ExecuteRefused \/ Reserve \/ Submit \/ RefreshPortfolio \/ CycleEnd
Failures == RefreshFails \/ CycleFails \/ CloseFails \/ SubmitRejected \/ SubmitLost

Next ==
  \/ CycleStart \/ Guards \/ Signals \/ CloseSend \/ CloseCancel \/ Failures
  \/ FeedAges \/ CooldownEnds
  \/ \E t \in Tasks : CancelRead(t) \/ CancelOne(t) \/ CancelFails(t)
  \/ \E s \in Symbols : Fill(s) \/ StopFires(s)
  \/ TrackerProtects \/ TrackerExpires \/ TrackerResolves
  \/ OperatorToggles \/ MarketMoves \/ Restart

Spec == Init /\ [][Next]_vars

----------------------------------------------------------------------------
(* Properties *)

\* Shape of the state.
TypeOK ==
  /\ world \in Worlds
  /\ pos \in [Symbols -> Nat] /\ stop \in [Symbols -> BOOLEAN] /\ resting \subseteq Symbols
  /\ equity \in Equities /\ circuit \in {"NORMAL", "HALTED"}
  /\ {halted, haltFile, wasBreached} \subseteq BOOLEAN /\ {peak, peakFile} \subseteq Nat
  /\ {reconciled, journalFresh, bracketsFresh, hedge} \subseteq BOOLEAN /\ blocks \subseteq Symbols
  /\ holder \in [symbol : Symbols \cup {None}, working : BOOLEAN]
  /\ cooling \subseteq Symbols /\ DOMAIN suppressed = Symbols
  /\ pc \in Steps
  /\ ctx \in [pos : [Symbols -> Nat], equity : Nat, safety : SUBSET Symbols, performance : BOOLEAN,
              brackets : BOOLEAN, circuit : {"NORMAL", "HALTED"}]
  /\ plan.cancel \subseteq {"entry", "stop"} \X Symbols /\ plan.unprotected \subseteq Symbols
  /\ work.todo \subseteq Symbols /\ queue \in Seq(Symbols)
  /\ cancels \in [Tasks -> [pc : {"idle", "read", "cancel"}, todo : SUBSET Symbols]]
  /\ toggles \in Nat /\ afterHalt \in Nat

\* A halt takes effect at the gate, which a signal passes long before its
\* order is sent: at most the one entry that was past the gate still reaches
\* the venue, however the halt, the cancels and a restart fall.
HaltLetsOneThrough == halted => afterHalt <= 1

\* Two entries of the bot never rest at the venue together, entries of a
\* process that crashed included: submission waits for the slot and for the
\* startup pass that cancels what an earlier process left.
OneRestingEntry == Cardinality(resting) <= 1

\* Positions and resting entries exceed the position limit by at most the one
\* entry that was in flight when the context was read.  (An entry whose answer
\* was lost does not refresh the context and adds one more.)
CapExceededByOne ==
  May("lost") \/ Cardinality(HeldIn(pos) \cup resting) <= MaxPositions + 1

\* Both together bound what can fill: the gate of Orchestrator.ts, the slot of
\* client.ts and the startup pass each close a part of it only.
EntriesBounded == OneRestingEntry /\ CapExceededByOne

\* refusalSuppressor.ts:25: a signal is only skipped where gating it again
\* could only repeat the refusal.
SkipRepeatsRefusal ==
  pc = "next" /\ queue # <<>> /\ shouldSkip(Head(queue)) => refusal(Head(queue)) # "approved"

\* That is so as long as refusals come from the circuit and the book, which
\* the signature contains.
SkipSound == world.kinds \cap {"halt", "equity"} = {} => SkipRepeatsRefusal

\* Only the operator ends a halt, and the equity peak never falls: neither the
\* drawdown guard, which flips the same switch, nor a restart undoes them (as
\* long as the files could be saved).
HaltAndPeakKept ==
  [][ May("disk") \/ (peak' >= peak /\ (halted /\ ~halted' => toggles' # toggles)) ]_vars

\* The loop keeps running and its calls are answered; the tracker polls.  What
\* fails is tried again every cycle and succeeds in the end, reconciliation is
\* due again and again (SF).
Fairness ==
  /\ WF_vars(CycleStart) /\ WF_vars(Guards) /\ WF_vars(Signals)
  /\ SF_vars(RefreshFeeds /\ pc' = "orders") /\ SF_vars(ReconcileOrders)
  /\ SF_vars(ReconcilePositions) /\ SF_vars(StartupCancel) /\ SF_vars(ReconcileEnd)
  /\ SF_vars(CloseSend) /\ SF_vars(CloseCancel)
  /\ \A t \in Tasks : WF_vars(CancelRead(t)) /\ WF_vars(CancelOne(t))
  /\ WF_vars(TrackerProtects) /\ WF_vars(TrackerExpires) /\ WF_vars(TrackerResolves)

LiveSpec == Spec /\ Fairness

\* A position that has no stop and no tracker at work on it is found by the
\* reconciliation: its symbol gets blocked, unless it is protected or closed.
UnprotectedFlagged ==
  \A s \in Symbols : (pos[s] > 0 /\ ~stop[s]) ~> (pos[s] = 0 \/ stop[s] \/ s \in blocks)

\* While the account stays beyond its drawdown limit, `flatten` empties the
\* book and nothing is left to fill.
FlattenCompletes ==
  (May("flatten") /\ isDrawdownBreached(equity, peak))
    ~> (~isDrawdownBreached(equity, peak) \/ (HeldIn(pos) = {} /\ resting = {}))
=============================================================================
