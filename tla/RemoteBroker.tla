---------------------------- MODULE RemoteBroker ----------------------------
(***************************************************************************)
(* The broker of one symbol on a remote (paper) exchange:                  *)
(*   RemoteBroker       open, close, reduce, markAll, sync (remoteBroker.ts)*)
(*   RemoteExits        the exit job and its driver       (remoteOrders.ts) *)
(*   RemoteReconciler   adopt and journal              (remoteReconcile.ts) *)
(*   RemoteStore        sidecar metas and the journal      (remoteState.ts) *)
(*                                                                         *)
(* A position of the exchange lives through episodes: from flat (or from   *)
(* the other side) until it is flat again or flips.  Snapshots, sidecar    *)
(* entries and journal records carry the number of the episode they speak  *)
(* of, which stands for the entry price the code stores in them.           *)
(*                                                                         *)
(* Every await is a point between two actions.  Syncs run one at a time,   *)
(* in the order they were asked for (syncChain).  Prices only decide       *)
(* whether a stop fires, so a stop may fire whenever one exists.           *)
(***************************************************************************)
EXTENDS Naturals, Sequences, FiniteSets

CONSTANTS
  PartialQty,  \* size of a partial exit
  DownAfter,   \* DOWN_AFTER_FAILURES
  MaxEp,       \* bound: episodes of the exchange position, in any world
  Worlds       \* the worlds to check

(* A world fixes for a whole behaviour the size of an open (qty), the      *)
(* sides the agent opens on (sides), the bounds on calls of open (opens),  *)
(* on exit jobs beside those of flips (exits) and on episodes (episodes),  *)
(* and which of EnvKinds may happen beside the broker's own calls:         *)
(*   "lost"       calls for an order may fail, after taking effect or not    *)
(*   "outage"     a sync may fail                                            *)
(*   "late"       an order whose answer was lost may execute later           *)
(*   "async"      an order may be acknowledged before it is filled           *)
(*   "liquidate"  the exchange closes the position                           *)
(*   "outsider"   somebody else trades on the account                        *)
(*   "ttl"        an expected open may grow older than EXPECTED_OPEN_TTL_MS  *)
(*   "crash"      the process may stop and start again                       *)
EnvKinds == {"lost", "outage", "late", "async", "liquidate", "outsider", "ttl", "crash"}
Sides == {"LONG", "SHORT"}

ASSUME RemoteAssumption ==
  /\ PartialQty \in Nat \ {0}
  /\ {MaxEp, DownAfter} \subseteq Nat
  /\ Worlds \subseteq [qty : Nat \ {0}, opens : Nat, exits : Nat, episodes : 0..MaxEp,
                       sides : SUBSET Sides, kinds : SUBSET EnvKinds]

VARIABLES
  world,      \* the world of this behaviour
  venue,      \* exchange: the position
  eps,        \* exchange: episodes so far, with their total size and opener
  transit,    \* exchange: orders sent and not yet executed or refused
  filled,     \* exchange: executed orders by client order id
  cache,      \* RemoteBroker.positions, restricted to the symbol
  failures,   \* RemoteBroker.consecutiveFailures, up to DownAfter
  queue,      \* syncChain: who waits for which sync, in order
  sync,       \* the sync that runs: its step, its snapshot, epoch moved on?
  opener,     \* the open() call in progress
  opens, exits,  \* how many opens and exit jobs there were (client order ids)
  expected,   \* RemoteReconciler.expectedOpens: side, or "none"
  meta,       \* RemoteStore: the sidecar entry of the symbol
  journal,    \* RemoteStore.closedTrades: quantity journaled per episode
  job,        \* RemoteExits.jobs
  xpc, xres,  \* RemoteExits.running: step of the driver, how it will settle
  flipWaits,  \* closeForFlip awaits the driver
  closer      \* the operator's close() call

venueVars == <<venue, eps, transit, filled>>
syncVars == <<cache, failures, queue, sync>>
openVars == <<opener, opens>>
storeVars == <<expected, meta, journal>>
exitVars == <<exits, job, xpc, xres, flipWaits, closer>>
vars == <<world, venueVars, syncVars, openVars, storeVars, exitVars>>

Other(side) == CHOOSE s \in Sides : s # side
Flat == [side |-> "FLAT", qty |-> 0, ep |-> 0]
NoMeta == [owner |-> "none", seen |-> Flat]
NoJob == [id |-> 0, reason |-> "none", qty |-> 0, sent |-> Flat]
IdleSync == [pc |-> "idle", snap |-> Flat, stale |-> FALSE]
IdleOpen == [pc |-> "idle", side |-> "none", scaleIn |-> FALSE, id |-> 0]
Reasons == {"STOP LOSS", "CLOSE", "FLIP", "PARTIAL TP"}
Requesters == {"loop", "open", "entry", "exit"}
Snapshots == [side : Sides \cup {"FLAT"}, qty : Nat, ep : 0..MaxEp]

May(kind) == kind \in world.kinds
EntryQty == world.qty
MaxOpens == world.opens
MaxExits == world.exits
Least(a, b) == IF a < b THEN a ELSE b

----------------------------------------------------------------------------
(* Helpers *)

\* Mutant: the symbol is only marked once its entry order was answered.
pendingOpenAfterFill == opener.pc = "after"

\* RemoteBroker.pendingOpens holds the symbol.
pendingOpen == opener.pc \in {"flip", "enter", "sent", "after"}
\* RemoteExits.isActive: the symbol has an exit job.
isActive == job # NoJob

\* Mutant: only opens count as orders in flight, exit jobs are forgotten.
isBusyOpensOnly == pendingOpen

isBusy == pendingOpen \/ isActive

\* recordClose and recordPartial append to the journal.
Journaled(ep, qty) == [journal EXCEPT ![ep] = @ + qty]

\* Mutant: the sidecar entry is written without its owner.
ownedMetaNoOwner(seen) == [owner |-> "undefined", seen |-> seen]

\* entryMeta, and the sidecar entry of a position nobody owns.
ownedMeta(seen) == [owner |-> "strategy", seen |-> seen]
externalMeta == [owner |-> "external", seen |-> Flat]
isManaged(m) == m.owner = "strategy"

\* Work the process does before it turns to its next event: the next sync of
\* the chain starts, open() goes on after its sync or after its flip.
Urgent == opener.pc \in {"decide", "enter"} \/ (sync.pc = "idle" /\ queue # <<>>)
Quiet == ~Urgent

\* Mutant: every unowned position is adopted as external.
adoptAlwaysExternal(current, expect) == [meta |-> externalMeta, expected |-> expect]

\* adoptUnowned, adoptAsExternal: a position without a sidecar entry.
adoptUnowned(current, expect) ==
  IF expect = current.side
    THEN [meta |-> ownedMeta(Flat), expected |-> "none"]
    ELSE [meta |-> externalMeta, expected |-> expect]

\* afterOrder: a running sync is out of date, and a new one is asked for.
afterOrder(who) ==
  /\ sync' = [sync EXCEPT !.stale = sync.pc # "idle"]
  /\ queue' = Append(queue, who)

\* drive: starts the driver of job j unless one runs.
drive(j) ==
  xpc' = IF xpc # "none" THEN xpc ELSE IF j.sent # Flat THEN "lookup" ELSE "read"

enqueue(reason, qty) ==
  /\ exits' = exits + 1
  /\ job' = [id |-> exits + 1, reason |-> reason, qty |-> qty, sent |-> Flat]

ExitId == <<"exit", job.id>>
EntryId == <<"entry", opener.id>>
isFilled(id) == \E f \in filled : f.id = id
FillOf(id) == CHOOSE f \in filled : f.id = id
InTransit(id) == \E o \in transit : o.id = id
Forget(id) == {o \in transit : o.id # id}

\* The driver's promise settles: closeForFlip and close() continue.
Settle(res, j) ==
  /\ flipWaits' = FALSE
  /\ closer' = IF closer # "waiting" THEN closer ELSE IF res = "ok" THEN "resolved" ELSE "rejected"
  /\ job' = IF closer = "waiting" /\ res = "outage" /\ j.reason = "CLOSE" THEN NoJob
            ELSE IF flipWaits /\ res # "ok" /\ j # NoJob THEN [j EXCEPT !.reason = "CLOSE"]
            ELSE j
  /\ opener' = IF ~flipWaits THEN opener
               ELSE IF res = "ok" THEN [opener EXCEPT !.pc = "enter"] ELSE IdleOpen
  /\ xpc' = "none" /\ xres' = "ok"

----------------------------------------------------------------------------
Init ==
  /\ world \in Worlds
  /\ venue = Flat /\ eps = <<>> /\ transit = {} /\ filled = {}
  /\ cache = Flat /\ failures = 0 /\ queue = <<>> /\ sync = IdleSync
  /\ opener = IdleOpen /\ opens = 0
  /\ expected = "none" /\ meta = NoMeta /\ journal = [e \in 0..MaxEp |-> 0]
  /\ exits = 0 /\ job = NoJob /\ xpc = "none" /\ xres = "ok"
  /\ flipWaits = FALSE /\ closer = "idle"

----------------------------------------------------------------------------
(* Sync: trySync, refreshOnce, RemoteReconciler.apply *)

\* The loop, a funding push or the operator asks for a sync.
RequestSync ==
  /\ Quiet
  /\ ~\E i \in DOMAIN queue : queue[i] = "loop"
  /\ queue' = Append(queue, "loop")
  /\ UNCHANGED <<world, venueVars, cache, failures, sync, openVars, storeVars, exitVars>>

\* The next sync of the chain starts and remembers the order epoch.
SyncStart ==
  /\ sync.pc = "idle" /\ queue # <<>>
  /\ sync' = [pc |-> "fetch", snap |-> Flat, stale |-> FALSE]
  /\ UNCHANGED <<world, venueVars, cache, failures, queue, openVars, storeVars, exitVars>>

\* Mutant: the snapshot kept in the sidecar is ignored after a restart.
lastSeenCacheOnly == cache

\* What the code last knew of the position: its cache, else the sidecar.
lastSeen == IF cache # Flat THEN cache ELSE meta.seen

\* apply: settleVanished, reconcileOpen, updateLastSeen.  Leaves the symbol
\* alone while an order of the broker is in flight.
reconciled(snap, expect) ==
  LET vanished == snap = Flat /\ meta # NoMeta /\ ~isBusy
      flipped  == snap # Flat /\ meta # NoMeta /\ ~isBusy
                  /\ lastSeen # Flat /\ lastSeen.side # snap.side
      unowned  == snap # Flat /\ ~isBusy /\ (meta = NoMeta \/ flipped)
      adopted  == IF unowned THEN adoptUnowned(snap, expect)
                  ELSE [meta |-> IF vanished THEN NoMeta ELSE meta, expected |-> expect]
  IN [ journal  |-> IF (vanished /\ lastSeen # Flat) \/ flipped
                      THEN Journaled(lastSeen.ep, lastSeen.qty) ELSE journal,
       meta     |-> IF adopted.meta # NoMeta /\ snap # Flat
                      THEN [adopted.meta EXCEPT !.seen = snap] ELSE adopted.meta,
       expected |-> adopted.expected ]

\* The caller of a sync that ends goes on.  The driver deletes its job once
\* the refresh after its order is over; a dropped job was deleted before.
Resume(who, isOk) ==
  CASE who = "open" ->
         /\ opener' = IF isOk THEN [opener EXCEPT !.pc = "decide"] ELSE IdleOpen
         /\ UNCHANGED <<job, xpc, xres, flipWaits, closer>>
    [] who = "entry" ->
         /\ opener' = IdleOpen
         /\ UNCHANGED <<job, xpc, xres, flipWaits, closer>>
    [] who = "exit" -> Settle(xres, IF xpc = "after" THEN NoJob ELSE job)
    [] who = "loop" -> UNCHANGED <<opener, job, xpc, xres, flipWaits, closer>>

\* The snapshot is applied, unless an order settled meanwhile; the sync
\* succeeds either way.  retryPending is RetryPending below.
ApplySnapshot(snap) ==
  /\ \E expect \in {expected} \cup (IF May("ttl") THEN {"none"} ELSE {}) :
       IF sync.stale THEN UNCHANGED <<cache, storeVars>>
       ELSE /\ cache' = snap
            /\ journal' = reconciled(snap, expect).journal
            /\ meta' = reconciled(snap, expect).meta
            /\ expected' = reconciled(snap, expect).expected
  /\ failures' = 0
  /\ sync' = IdleSync /\ queue' = Tail(queue)
  /\ Resume(Head(queue), TRUE)
  /\ UNCHANGED <<world, venueVars, opens, exits>>

\* getPositions answers; nothing of the sidecar is missing from it.
SyncFetch ==
  /\ Quiet
  /\ sync.pc = "fetch"
  /\ ~(meta # NoMeta /\ venue = Flat)
  /\ ApplySnapshot(venue)

\* A sidecar position is missing: the risk events are read first.
SyncFetchMissing ==
  /\ Quiet
  /\ sync.pc = "fetch"
  /\ meta # NoMeta /\ venue = Flat
  /\ sync' = [sync EXCEPT !.pc = "events", !.snap = venue]
  /\ UNCHANGED <<world, venueVars, cache, failures, queue, openVars, storeVars, exitVars>>

SyncEvents ==
  /\ Quiet
  /\ sync.pc = "events"
  /\ ApplySnapshot(sync.snap)

SyncFails ==
  /\ Quiet
  /\ May("outage") /\ sync.pc # "idle"
  /\ failures' = Least(failures + 1, DownAfter)
  /\ sync' = IdleSync /\ queue' = Tail(queue)
  /\ Resume(Head(queue), FALSE)
  /\ UNCHANGED <<world, venueVars, cache, opens, storeVars, exits>>

----------------------------------------------------------------------------
(* open *)

OpenCall(side) ==
  /\ Quiet
  /\ opener.pc = "idle" /\ opens < MaxOpens
  /\ failures < DownAfter /\ side \in world.sides
  /\ opens' = opens + 1
  /\ opener' = [IdleOpen EXCEPT !.pc = "sync", !.side = side, !.id = opens + 1]
  /\ queue' = Append(queue, "open")
  /\ UNCHANGED <<world, venueVars, cache, failures, sync, storeVars, exitVars>>

\* Refused: an order is in flight, or the symbol is somebody else's.
OpenRefused ==
  /\ opener.pc = "decide"
  /\ isActive \/ (cache # Flat /\ ~isManaged(meta))
  /\ opener' = IdleOpen
  /\ UNCHANGED <<world, venueVars, syncVars, opens, storeVars, exitVars>>

OpenOrScaleIn ==
  /\ opener.pc = "decide" /\ ~isActive
  /\ cache = Flat \/ (isManaged(meta) /\ cache.side = opener.side)
  /\ opener' = [opener EXCEPT !.pc = "enter", !.scaleIn = cache # Flat]
  /\ UNCHANGED <<world, venueVars, syncVars, opens, storeVars, exitVars>>

\* closeForFlip: queues the exit and waits for whatever drive() returns.
OpenFlip ==
  /\ opener.pc = "decide" /\ ~isActive
  /\ cache # Flat /\ isManaged(meta) /\ cache.side # opener.side
  /\ opener' = [opener EXCEPT !.pc = "flip"]
  /\ enqueue("FLIP", 0) /\ drive(job') /\ flipWaits' = TRUE
  /\ UNCHANGED <<world, venueVars, syncVars, opens, storeVars, xres, closer>>

EntrySend ==
  /\ opener.pc = "enter"
  /\ transit' = transit \cup {[id |-> EntryId, side |-> opener.side, qty |-> EntryQty,
                               reduceOnly |-> FALSE]}
  /\ opener' = [opener EXCEPT !.pc = "sent"]
  /\ UNCHANGED <<world, venue, eps, filled, syncVars, opens, storeVars, exitVars>>

\* Filled, by the answer or by the lookup after a lost one: forgetOpen,
\* writeEntryMeta, afterOrder.
EntryFilled ==
  /\ Quiet
  /\ opener.pc = "sent" /\ isFilled(EntryId)
  /\ expected' = "none"
  /\ meta' = IF opener.scaleIn /\ meta # NoMeta THEN meta
             ELSE ownedMeta([side |-> opener.side, qty |-> EntryQty, ep |-> FillOf(EntryId).ep])
  /\ opener' = [opener EXCEPT !.pc = "after"]
  /\ afterOrder("entry")
  /\ UNCHANGED <<world, venueVars, cache, failures, opens, journal, exitVars>>

\* A 4xx answer: nothing changed, nothing is refreshed.
EntryRejected ==
  /\ Quiet
  /\ opener.pc = "sent" /\ ~isFilled(EntryId)
  /\ transit' = Forget(EntryId)
  /\ opener' = IdleOpen
  /\ UNCHANGED <<world, venue, eps, filled, syncVars, opens, storeVars, exitVars>>

\* Mutant: an unconfirmed entry is not expected to show up later.
EntryUnconfirmedForgotten ==
  /\ Quiet
  /\ opener.pc = "sent"
  /\ May("lost") /\ opener' = [opener EXCEPT !.pc = "after"]
  /\ afterOrder("entry")
  /\ UNCHANGED <<world, venueVars, cache, failures, opens, storeVars, exitVars>>

\* Unavailable (executed, on its way, or never arrived) or not filled yet:
\* the position may still appear and is then recognised.
EntryUnconfirmed ==
  /\ Quiet
  /\ opener.pc = "sent"
  /\ \/ May("lost") /\ transit' = transit
     \/ May("lost") /\ transit' = Forget(EntryId)
     \/ May("async") /\ InTransit(EntryId) /\ transit' = transit
  /\ expected' = IF opener.scaleIn THEN expected ELSE opener.side
  /\ opener' = [opener EXCEPT !.pc = "after"]
  /\ afterOrder("entry")
  /\ UNCHANGED <<world, venue, eps, filled, cache, failures, opens, meta, journal, exitVars>>

----------------------------------------------------------------------------
(* Exits: trigger, close, reduce, and the driver *)

\* markAll, checkStops: the stop or the target of a managed position fires.
Trigger ==
  /\ Quiet
  /\ cache # Flat /\ isManaged(meta) /\ ~pendingOpen /\ ~isActive /\ exits < MaxExits
  /\ enqueue("STOP LOSS", 0) /\ drive(job')
  /\ UNCHANGED <<world, venueVars, syncVars, openVars, storeVars, xres, flipWaits, closer>>

CloseCall ==
  /\ Quiet
  /\ closer # "waiting" /\ cache # Flat /\ ~pendingOpen
  /\ IF isActive THEN UNCHANGED <<exits, job>> ELSE exits < MaxExits /\ enqueue("CLOSE", 0)
  /\ drive(job')
  /\ closer' = "waiting"
  /\ UNCHANGED <<world, venueVars, syncVars, openVars, storeVars, xres, flipWaits>>

\* A partial take-profit; its caller always leaves a remainder (partialQty).
ReduceCall ==
  /\ Quiet
  /\ cache.qty > PartialQty /\ isManaged(meta) /\ ~pendingOpen /\ ~isActive /\ exits < MaxExits
  /\ enqueue("PARTIAL TP", PartialQty) /\ drive(job')
  /\ UNCHANGED <<world, venueVars, syncVars, openVars, storeVars, xres, flipWaits, closer>>

\* retryPending, from markAll or after a sync.
RetryPending ==
  /\ Quiet
  /\ isActive /\ xpc = "none"
  /\ drive(job)
  /\ UNCHANGED <<world, venueVars, syncVars, openVars, storeVars, exits, job, xres, flipWaits, closer>>

\* An outage leaves the job queued and rejects whoever waits.
ExitOutage ==
  /\ Quiet
  /\ May("lost") /\ xpc \in {"lookup", "read", "send"}
  /\ Settle("outage", job)
  /\ transit' = transit \/ transit' = Forget(ExitId)
  /\ UNCHANGED <<world, venue, eps, filled, syncVars, opens, storeVars, exits>>

\* The order is known not to have filled (no such order, or not filled yet).
ExitLookupMiss ==
  /\ Quiet
  /\ xpc = "lookup" /\ ~isFilled(ExitId)
  /\ xpc' = "read"
  /\ UNCHANGED <<world, venueVars, syncVars, openVars, storeVars, exits, job, xres, flipWaits, closer>>

\* dropAlreadyFlat: the job goes first, then the account is refreshed.
ExitReadFlat ==
  /\ Quiet
  /\ xpc = "read" /\ venue = Flat
  /\ job' = NoJob /\ xpc' = "dropped" /\ xres' = "ok"
  /\ afterOrder("exit")
  /\ UNCHANGED <<world, venueVars, cache, failures, openVars, storeVars, exits, flipWaits, closer>>

\* The order is sized from a fresh read and sent under the job's only id.
ExitRead ==
  /\ Quiet
  /\ xpc = "read" /\ venue # Flat
  /\ LET size == IF job.qty = 0 THEN venue.qty ELSE Least(job.qty, venue.qty)
     IN /\ job' = [job EXCEPT !.sent = [venue EXCEPT !.qty = size]]
        /\ transit' = IF isFilled(ExitId) THEN transit
                      ELSE transit \cup {[id |-> ExitId, side |-> Other(venue.side),
                                          qty |-> size, reduceOnly |-> TRUE]}
  /\ xpc' = "send"
  /\ UNCHANGED <<world, venue, eps, filled, syncVars, openVars, storeVars, exits, xres, flipWaits, closer>>

\* recordClose drops the sidecar entry, recordPartial keeps it.
isFullExit == job.reason # "PARTIAL TP"

\* complete: the fill is journaled, by what the order was sized from.
ExitComplete ==
  /\ Quiet
  /\ xpc \in {"lookup", "send"} /\ isFilled(ExitId)
  /\ journal' = Journaled(job.sent.ep, FillOf(ExitId).qty)
  /\ meta' = IF isFullExit THEN NoMeta ELSE meta
  /\ IF isFullExit /\ isManaged(meta)
       THEN xpc' = "residual" /\ UNCHANGED <<queue, sync>>
       ELSE xpc' = "after" /\ afterOrder("exit")
  /\ xres' = "ok"
  /\ UNCHANGED <<world, venueVars, cache, failures, openVars, expected, exits, job, flipWaits, closer>>

\* keepResidualManaged: what is left on the same side keeps its owner.
ExitResidual ==
  /\ Quiet
  /\ xpc = "residual"
  /\ meta' = IF venue.side = job.sent.side THEN ownedMeta(Flat) ELSE meta
  /\ xpc' = "after" /\ afterOrder("exit")
  /\ UNCHANGED <<world, venueVars, cache, failures, openVars, expected, journal, exits, job, xres,
                 flipWaits, closer>>

ExitResidualFails ==
  /\ Quiet
  /\ May("lost") /\ xpc = "residual"
  /\ xpc' = "after" /\ afterOrder("exit")
  /\ UNCHANGED <<world, venueVars, cache, failures, openVars, storeVars, exits, job, xres, flipWaits, closer>>

\* Refused, or acknowledged without a fill: the job is dropped.
ExitRejected ==
  /\ Quiet
  /\ xpc = "send" /\ ~isFilled(ExitId)
  /\ \/ transit' = Forget(ExitId)
     \/ May("async") /\ InTransit(ExitId) /\ transit' = transit
  /\ job' = NoJob /\ xpc' = "dropped" /\ xres' = "error"
  /\ afterOrder("exit")
  /\ UNCHANGED <<world, venue, eps, filled, cache, failures, openVars, storeVars, exits, flipWaits, closer>>

----------------------------------------------------------------------------
(* The exchange, outsiders, crashes *)

\* An order for qty on side executes against the position.
Executed(side, qty, byAgent) ==
  IF venue = Flat \/ venue.side = side
    THEN LET isNew == venue = Flat IN
         /\ isNew => Len(eps) < world.episodes
         /\ venue' = [side |-> side, qty |-> venue.qty + qty,
                      ep |-> IF isNew THEN Len(eps) + 1 ELSE venue.ep]
         /\ eps' = IF isNew THEN Append(eps, [size |-> qty, own |-> byAgent])
                   ELSE [eps EXCEPT ![venue.ep].size = @ + qty]
    ELSE IF qty <= venue.qty
      THEN /\ venue' = IF qty = venue.qty THEN Flat ELSE [venue EXCEPT !.qty = @ - qty]
           /\ eps' = eps
      ELSE /\ Len(eps) < world.episodes
           /\ venue' = [side |-> side, qty |-> qty - venue.qty, ep |-> Len(eps) + 1]
           /\ eps' = Append(eps, [size |-> qty - venue.qty, own |-> byAgent])

\* Whether an order's submitter still waits for its answer.
Awaited(id) == \/ xpc = "send" /\ id = ExitId
               \/ opener.pc = "sent" /\ id = EntryId

\* An order on its way executes; a repeated id executes once.
Execute(o) ==
  /\ Awaited(o.id) \/ May("late") \/ May("async")
  /\ IF o.reduceOnly
       THEN /\ venue # Flat /\ venue.side # o.side
            /\ Executed(o.side, Least(o.qty, venue.qty), TRUE)
       ELSE Executed(o.side, o.qty, TRUE)
  /\ transit' = Forget(o.id)
  /\ filled' = filled \cup {[id |-> o.id,
                             qty |-> IF o.reduceOnly THEN Least(o.qty, venue.qty) ELSE o.qty,
                             ep |-> IF o.reduceOnly THEN venue.ep ELSE venue'.ep]}
  /\ UNCHANGED <<world, syncVars, openVars, storeVars, exitVars>>

Liquidate ==
  /\ May("liquidate") /\ venue # Flat
  /\ venue' = Flat
  /\ UNCHANGED <<world, eps, transit, filled, syncVars, openVars, storeVars, exitVars>>

\* Somebody else trades (bound: an episode grows to about two entries).
OutsiderTrades ==
  /\ May("outsider")
  /\ \E side \in Sides, qty \in {PartialQty, EntryQty} :
       /\ venue.side = side => eps[venue.ep].size < 2 * EntryQty
       /\ Executed(side, qty, FALSE)
  /\ UNCHANGED <<world, transit, filled, syncVars, openVars, storeVars, exitVars>>

\* The process stops and starts again: the sidecar file is all that is left.
Restart ==
  /\ Quiet
  /\ May("crash")
  /\ cache' = Flat /\ failures' = 0 /\ queue' = <<>> /\ sync' = IdleSync
  /\ opener' = IdleOpen /\ expected' = "none"
  /\ job' = NoJob /\ xpc' = "none" /\ xres' = "ok"
  /\ flipWaits' = FALSE /\ closer' = "idle"
  /\ UNCHANGED <<world, venueVars, opens, meta, journal, exits>>

----------------------------------------------------------------------------
Continue == SyncStart \/ OpenRefused \/ OpenOrScaleIn \/ OpenFlip \/ EntrySend
SyncStep == SyncFetch \/ SyncFetchMissing \/ SyncEvents
ExitStep == \/ ExitLookupMiss \/ ExitReadFlat \/ ExitRead
            \/ ExitComplete \/ ExitResidual \/ RetryPending

Next ==
  \/ Continue
  \/ RequestSync \/ SyncStep \/ SyncFails
  \/ \E side \in Sides : OpenCall(side)
  \/ EntryFilled \/ EntryRejected \/ EntryUnconfirmed
  \/ Trigger \/ CloseCall \/ ReduceCall
  \/ ExitStep \/ ExitOutage \/ ExitRejected \/ ExitResidualFails
  \/ \E o \in transit : Execute(o)
  \/ Liquidate \/ OutsiderTrades \/ Restart

Spec == Init /\ [][Next]_vars

----------------------------------------------------------------------------
(* Properties *)

\* Shape of the state.
TypeOK ==
  /\ world \in Worlds
  /\ venue \in Snapshots /\ cache \in Snapshots
  /\ eps \in Seq([size : Nat, own : BOOLEAN])
  /\ failures \in 0..DownAfter
  /\ queue \in Seq(Requesters)
  /\ sync \in [pc : {"idle", "fetch", "events"}, snap : Snapshots, stale : BOOLEAN]
  /\ opener.pc \in {"idle", "sync", "decide", "flip", "enter", "sent", "after"}
  /\ expected \in Sides \cup {"none"}
  /\ meta \in [owner : {"none", "strategy", "external"}, seen : Snapshots]
  /\ journal \in [0..MaxEp -> Nat]
  /\ job \in [id : 0..(MaxExits + MaxOpens), reason : Reasons \cup {"none"}, qty : Nat, sent : Snapshots]
  /\ xpc \in {"none", "lookup", "read", "send", "residual", "after", "dropped"}
  /\ xres \in {"ok", "error"} /\ flipWaits \in BOOLEAN
  /\ closer \in {"idle", "waiting", "resolved", "rejected"}

\* The agent opens on one side only: it never flips its position.
OneSided == world.sides # Sides

\* The journal never holds more of a position than was ever opened of it:
\* exits, vanished positions and flips are journaled once, whatever the order
\* of fills, retries, syncs and restarts, and where nothing is flipped
\* whatever answers are lost.  (A flip that follows a lost answer may leave an
\* exit behind that meets the new entry; an entry recorded after that exit is
\* booked twice.  Where the exchange or an outsider closes the position an
\* exit whose answer was lost and the vanished position are both booked.)
NoOverJournal ==
  world.kinds \subseteq {"crash", "lost"} /\ (May("lost") => OneSided)
    => \A e \in DOMAIN eps : journal[e] <= eps[e].size

\* What remoteBroker.ts:258 says: a position of the agent's own orders keeps
\* its owner (one adopted as somebody else's has no stop).
OwnerKept == meta.owner = "external" => ~eps[meta.seen.ep].own

\* A position opened by the agent's own order is never taken for somebody
\* else's, whatever answers are lost, as long as syncs and the process do not
\* fail and only the exchange itself touches the account.
AgentNeverExternal == world.kinds \subseteq {"lost", "liquidate"} => OwnerKept

\* Under the same conditions a position the agent opened is managed, or
\* recognised when the next sync sees it, unless an order of the broker is in
\* flight.
AgentCovered ==
  world.kinds \subseteq {"lost", "liquidate"} /\ venue # Flat /\ eps[venue.ep].own /\ ~isBusy
    => isManaged(meta) \/ expected = venue.side

\* Both together: no order of its own ever leaves the agent with a position it
\* does not manage or believes to be somebody else's.
AgentKept == AgentNeverExternal /\ AgentCovered

\* What remoteBroker.ts:131 says: an open decides from a fresh view, so an
\* entry and an exit of the symbol are never on their way to the exchange at
\* the same time: the fill of one would race the other.
OrdersApart == ~(opener.pc = "sent" /\ xpc = "send")

\* Whatever is lost, late or done by others, the only exit that may meet an
\* entry is the one a flip queued behind a driver that found nothing to close.
OnlyFlipMeets == OrdersApart \/ job.reason = "FLIP"

\* Where every call is answered and nobody else moves the position, none does.
NoOrdersTogether ==
  OnlyFlipMeets /\ (world.kinds \subseteq {"crash", "ttl"} => OrdersApart)

\* The process handles what is pending, the loop keeps asking for syncs and
\* markAll keeps retrying (WF; SF where another event may come in between).
\* Orders are eventually executed and calls that are retried eventually answer.
Fairness ==
  /\ WF_vars(Continue) /\ SF_vars(RequestSync) /\ SF_vars(RetryPending)
  /\ SF_vars(SyncFetch) /\ SF_vars(SyncFetchMissing) /\ SF_vars(SyncEvents)
  /\ SF_vars(EntryFilled \/ EntryRejected \/ EntryUnconfirmed)
  /\ SF_vars(ExitLookupMiss) /\ SF_vars(ExitReadFlat) /\ SF_vars(ExitRead)
  /\ SF_vars(ExitComplete) /\ SF_vars(ExitComplete \/ ExitRejected) /\ SF_vars(ExitResidual)
  /\ SF_vars(\E o \in transit : Execute(o))

LiveSpec == Spec /\ Fairness

\* A position the sidecar knows of that has ended, by an exit of the broker or
\* at the exchange, is journaled in the end, whatever answers are lost and
\* however often the process restarts, unless the next one is open before that
\* (an open whose view was discarded takes it for the old one and scales in).
EndedJournaled ==
  \A e \in 1..MaxEp :
    (meta.seen.ep = e /\ venue.ep # e /\ world.kinds \subseteq {"lost", "crash"})
      ~> (journal[e] > 0 \/ Len(eps) > e)
=============================================================================
