------------------------- MODULE RemoteBrokerProofs -------------------------
(***************************************************************************)
(* Proofs about the remote broker for every world and every bound: the     *)
(* state keeps its shape, the only exit that can be on its way to the      *)
(* exchange together with an entry is the one its own flip queued, client  *)
(* order ids are used once, in calm and one-sided worlds nothing is booked *)
(* twice, and in private worlds the agent never loses sight of a position  *)
(* of its own.                                                             *)
(*                                                                         *)
(* The first inductive invariant adds to the shapes who waits for which    *)
(* sync (Chain), what a flip waits for (Flipping), what a driver works on  *)
(* (Driven) and what an open may find queued once it decided (Apart).  The *)
(* second, TameInv, relates cache, sidecar and journal to the exchange.    *)
(* The third, PrivateInv, relates what is expected, what the sidecar owns  *)
(* and which refresh is on its way to the position.                        *)
(***************************************************************************)
EXTENDS RemoteBroker, TLAPS

Ids == {"exit", "entry"} \X Nat
Orders == [id : Ids, side : Sides, qty : Nat, reduceOnly : BOOLEAN]
Fills == [id : Ids, qty : Nat, ep : 0 .. MaxEp]
Syncs == [pc : {"idle", "fetch", "events"}, snap : Snapshots, stale : BOOLEAN]
Openers == [pc : {"idle", "sync", "decide", "flip", "enter", "sent", "after"},
            side : Sides \cup {"none"}, scaleIn : BOOLEAN, id : Nat]
Metas == [owner : {"none", "strategy", "external"}, seen : Snapshots]
Jobs == [id : 0 .. (MaxExits + MaxOpens), reason : Reasons \cup {"none"}, qty : Nat, sent : Snapshots]

\* An open position has a side and is the one of an episode that began.
ExchangeTypes ==
  /\ venue \in Snapshots /\ eps \in Seq([size : Nat, own : BOOLEAN])
  /\ Len(eps) <= world.episodes
  /\ venue # Flat => venue.side \in Sides /\ venue.ep \in 1 .. Len(eps)
  /\ transit \subseteq Orders /\ filled \subseteq Fills

SyncTypes ==
  /\ cache \in Snapshots /\ failures \in 0 .. DownAfter /\ queue \in Seq(Requesters)
  /\ sync \in Syncs
  /\ sync.pc # "idle" => queue # <<>>

OpenTypes ==
  /\ opener \in Openers
  /\ opens \in 0 .. MaxOpens
  /\ opener.pc # "idle" => opener.side \in Sides /\ opens >= 1

StoreTypes ==
  /\ expected \in Sides \cup {"none"} /\ journal \in [0 .. MaxEp -> Nat]
  /\ meta \in Metas

\* Beside the bounded exit jobs there is at most one per open, its flip's.
CountTypes ==
  /\ exits \in Nat /\ exits <= MaxExits + opens
  /\ opener.pc \in {"sync", "decide"} => exits + 1 <= MaxExits + opens

ExitTypes ==
  /\ job \in Jobs /\ xres \in {"ok", "error"} /\ flipWaits \in BOOLEAN
  /\ xpc \in {"none", "lookup", "read", "send", "residual", "after", "dropped"}
  /\ closer \in {"idle", "waiting", "resolved", "rejected"}

Types ==
  /\ world \in Worlds /\ ExchangeTypes /\ SyncTypes /\ OpenTypes /\ StoreTypes
  /\ CountTypes /\ ExitTypes

\* Nobody waits twice, and who waits is where it waits.
Waiting == {queue[i] : i \in 1 .. Len(queue)}
Once == \A i, j \in 1 .. Len(queue) : queue[i] = queue[j] => i = j
Where ==
  /\ "open" \in Waiting => opener.pc = "sync"
  /\ "entry" \in Waiting => opener.pc = "after"
  /\ "exit" \in Waiting => xpc \in {"after", "dropped"}
Chain == Once /\ Where

\* A flip waits for its own exit, or for one that was dropped.
Flipping == flipWaits => opener.pc = "flip" /\ job.reason \in {"FLIP", "none"}

\* A driver works on a job until it drops it.
Driven ==
  /\ job # NoJob => job.reason # "none"
  /\ xpc \in {"lookup", "read", "send", "residual", "after"} => job # NoJob

\* Once an open decided, no other exit than its flip's is queued.
Apart == opener.pc \in {"enter", "sent", "after"} => job.reason \in {"FLIP", "none"}

BrokerInv == Types /\ Chain /\ Flipping /\ Driven /\ Apart

(* Which steps of the broker, its syncs, its exits and the exchange write what. *)
LEMMA Writers ==
  ASSUME [Next]_vars
  PROVE
    /\ UNCHANGED world
    /\ UNCHANGED venueVars \/ EntrySend \/ EntryRejected \/ EntryUnconfirmed \/ ExitRead
         \/ ExitOutage \/ ExitRejected \/ (\E o \in transit : Execute(o)) \/ Liquidate
         \/ OutsiderTrades
    /\ UNCHANGED <<cache, failures, queue, sync>> \/ SyncStart \/ RequestSync \/ SyncFetch
         \/ SyncFetchMissing \/ SyncEvents \/ SyncFails \/ (\E side \in Sides : OpenCall(side))
         \/ EntryFilled \/ EntryUnconfirmed \/ ExitReadFlat \/ ExitComplete \/ ExitResidual
         \/ ExitResidualFails \/ ExitRejected \/ Restart
    /\ UNCHANGED <<opener, opens>> \/ OpenRefused \/ OpenOrScaleIn \/ OpenFlip \/ EntrySend
         \/ SyncFetch \/ SyncEvents \/ SyncFails \/ (\E side \in Sides : OpenCall(side))
         \/ EntryFilled \/ EntryRejected \/ EntryUnconfirmed \/ ExitOutage \/ Restart
    /\ UNCHANGED <<expected, meta, journal>> \/ SyncFetch \/ SyncEvents \/ EntryFilled
         \/ EntryUnconfirmed \/ ExitComplete \/ ExitResidual \/ Restart
    /\ UNCHANGED <<exits, job, xpc, xres, flipWaits, closer>> \/ OpenFlip \/ SyncFetch
         \/ SyncEvents \/ SyncFails \/ Trigger \/ CloseCall \/ ReduceCall \/ RetryPending
         \/ ExitLookupMiss \/ ExitReadFlat \/ ExitRead \/ ExitComplete \/ ExitResidual
         \/ ExitOutage \/ ExitRejected \/ ExitResidualFails \/ Restart
<1>1. CASE SyncStart
  BY <1>1 DEF SyncStart, exitVars, openVars, syncVars, storeVars, venueVars
<1>2. CASE OpenRefused
  BY <1>2 DEF OpenRefused, exitVars, openVars, syncVars, storeVars, venueVars
<1>3. CASE OpenOrScaleIn
  BY <1>3 DEF OpenOrScaleIn, exitVars, openVars, syncVars, storeVars, venueVars
<1>4. CASE OpenFlip
  BY <1>4 DEF OpenFlip, exitVars, openVars, syncVars, storeVars, venueVars
<1>5. CASE EntrySend
  BY <1>5 DEF EntrySend, exitVars, openVars, syncVars, storeVars, venueVars
<1>6. CASE RequestSync
  BY <1>6 DEF RequestSync, exitVars, openVars, syncVars, storeVars, venueVars
<1>7. CASE SyncFetch
  BY <1>7 DEF SyncFetch, exitVars, openVars, syncVars, storeVars, venueVars, ApplySnapshot
<1>8. CASE SyncFetchMissing
  BY <1>8 DEF SyncFetchMissing, exitVars, openVars, syncVars, storeVars, venueVars
<1>9. CASE SyncEvents
  BY <1>9 DEF SyncEvents, exitVars, openVars, syncVars, storeVars, venueVars, ApplySnapshot
<1>10. CASE SyncFails
  BY <1>10 DEF SyncFails, exitVars, openVars, syncVars, storeVars, venueVars
<1>11. CASE \E side \in Sides : OpenCall(side)
  BY <1>11 DEF OpenCall, exitVars, openVars, syncVars, storeVars, venueVars
<1>12. CASE EntryFilled
  BY <1>12 DEF EntryFilled, exitVars, openVars, syncVars, storeVars, venueVars
<1>13. CASE EntryRejected
  BY <1>13 DEF EntryRejected, exitVars, openVars, syncVars, storeVars, venueVars
<1>14. CASE EntryUnconfirmed
  BY <1>14 DEF EntryUnconfirmed, exitVars, openVars, syncVars, storeVars, venueVars
<1>15. CASE Trigger
  BY <1>15 DEF Trigger, exitVars, openVars, syncVars, storeVars, venueVars
<1>16. CASE CloseCall
  BY <1>16 DEF CloseCall, exitVars, openVars, syncVars, storeVars, venueVars
<1>17. CASE ReduceCall
  BY <1>17 DEF ReduceCall, exitVars, openVars, syncVars, storeVars, venueVars
<1>18. CASE ExitLookupMiss
  BY <1>18 DEF ExitLookupMiss, exitVars, openVars, syncVars, storeVars, venueVars
<1>19. CASE ExitReadFlat
  BY <1>19 DEF ExitReadFlat, exitVars, openVars, syncVars, storeVars, venueVars
<1>20. CASE ExitRead
  BY <1>20 DEF ExitRead, exitVars, openVars, syncVars, storeVars, venueVars
<1>21. CASE ExitComplete
  BY <1>21 DEF ExitComplete, exitVars, openVars, syncVars, storeVars, venueVars
<1>22. CASE ExitResidual
  BY <1>22 DEF ExitResidual, exitVars, openVars, syncVars, storeVars, venueVars
<1>23. CASE RetryPending
  BY <1>23 DEF RetryPending, exitVars, openVars, syncVars, storeVars, venueVars
<1>24. CASE ExitOutage
  BY <1>24 DEF ExitOutage, exitVars, openVars, syncVars, storeVars, venueVars
<1>25. CASE ExitRejected
  BY <1>25 DEF ExitRejected, exitVars, openVars, syncVars, storeVars, venueVars
<1>26. CASE ExitResidualFails
  BY <1>26 DEF ExitResidualFails, exitVars, openVars, syncVars, storeVars, venueVars
<1>27. CASE \E o \in transit : Execute(o)
  BY <1>27 DEF Execute, exitVars, openVars, syncVars, storeVars, venueVars
<1>28. CASE Liquidate
  BY <1>28 DEF Liquidate, exitVars, openVars, syncVars, storeVars, venueVars
<1>29. CASE OutsiderTrades
  BY <1>29 DEF OutsiderTrades, exitVars, openVars, syncVars, storeVars, venueVars
<1>30. CASE Restart
  BY <1>30 DEF Restart, exitVars, openVars, syncVars, storeVars, venueVars
<1>31. CASE UNCHANGED vars
  BY <1>31 DEF vars, exitVars, openVars, syncVars, storeVars
<1>32. QED
  BY <1>1, <1>2, <1>3, <1>4, <1>5, <1>6, <1>7, <1>8, <1>9, <1>10, <1>11, <1>12, <1>13, <1>14, <1>15,
       <1>16, <1>17, <1>18, <1>19, <1>20, <1>21, <1>22, <1>23, <1>24, <1>25, <1>26, <1>27, <1>28,
       <1>29, <1>30, <1>31 DEF Next, Continue, SyncStep, ExitStep

(* The bounds of a world, and the values a fresh process starts from. *)
LEMMA Constants ==
  ASSUME world \in Worlds
  PROVE  /\ EntryQty \in Nat \ {0} /\ MaxOpens \in Nat /\ MaxExits \in Nat /\ MaxEp \in Nat
         /\ DownAfter \in Nat /\ PartialQty \in Nat \ {0} /\ world.episodes \in 0 .. MaxEp
         /\ Flat \in Snapshots /\ NoMeta \in Metas /\ NoJob \in Jobs /\ IdleSync \in Syncs
         /\ IdleOpen \in Openers
<1>1. /\ EntryQty \in Nat \ {0} /\ MaxOpens \in Nat /\ MaxExits \in Nat /\ MaxEp \in Nat
      /\ DownAfter \in Nat /\ PartialQty \in Nat \ {0} /\ world.episodes \in 0 .. MaxEp
  BY RemoteAssumption DEF EntryQty, MaxOpens, MaxExits
<1>2. Flat \in Snapshots
  BY <1>1 DEF Flat, Snapshots
<1>3. NoMeta \in Metas /\ NoJob \in Jobs /\ IdleSync \in Syncs /\ IdleOpen \in Openers
  BY <1>1, <1>2 DEF NoMeta, NoJob, IdleSync, IdleOpen, Metas, Jobs, Syncs, Openers
<1>4. QED
  BY <1>1, <1>2, <1>3

(* The other side is a side. *)
LEMMA OtherSide == ASSUME NEW s PROVE Other(s) \in Sides
<1>1. \E t \in Sides : t # s
  BY DEF Sides
<1>2. QED
  BY <1>1 DEF Other

(* An order that executes opens, grows, shrinks, closes or flips the position. *)
LEMMA ExecutedTypes ==
  ASSUME Types, NEW side \in Sides, NEW qty \in Nat, NEW byAgent \in BOOLEAN,
         Executed(side, qty, byAgent)
  PROVE  /\ venue' \in Snapshots /\ eps' \in Seq([size : Nat, own : BOOLEAN])
         /\ Len(eps') <= world.episodes
         /\ venue' # Flat => venue'.side \in Sides /\ venue'.ep \in 1 .. Len(eps')
<1> DEFINE E == [size : Nat, own : BOOLEAN]
<1>1. /\ venue \in Snapshots /\ eps \in Seq(E) /\ Len(eps) <= world.episodes /\ Len(eps) \in Nat
      /\ venue # Flat => venue.side \in Sides /\ venue.ep \in 1 .. Len(eps)
      /\ world.episodes \in 0 .. MaxEp /\ MaxEp \in Nat /\ Flat \in Snapshots
      /\ venue.qty \in Nat
  BY Constants DEF Types, ExchangeTypes, Snapshots
<1>2. CASE venue = Flat
  <2>1. /\ Len(eps) < world.episodes
        /\ venue' = [side |-> side, qty |-> venue.qty + qty, ep |-> Len(eps) + 1]
        /\ eps' = Append(eps, [size |-> qty, own |-> byAgent])
    BY <1>2 DEF Executed
  <2>2. eps' \in Seq(E) /\ Len(eps') = Len(eps) + 1
    BY <1>1, <2>1
  <2>3. QED
    BY <1>1, <2>1, <2>2 DEF Snapshots
<1>3. CASE venue # Flat /\ venue.side = side
  <2>1. /\ venue' = [side |-> side, qty |-> venue.qty + qty, ep |-> venue.ep]
        /\ eps' = [eps EXCEPT ![venue.ep].size = @ + qty]
    BY <1>3 DEF Executed
  <2>2. venue.ep \in 1 .. Len(eps) /\ eps[venue.ep] \in E
    <3>1. venue.ep \in 1 .. Len(eps) /\ eps \in Seq(E)
      BY <1>1, <1>3
    <3> HIDE DEF E
    <3>2. QED
      BY <3>1
  <2>3. [eps[venue.ep] EXCEPT !.size = @ + qty] \in E
    BY <2>2
  <2>4. eps' \in Seq(E) /\ Len(eps') = Len(eps)
    BY <1>1, <2>1, <2>2, <2>3
  <2>5. QED
    BY <1>1, <1>3, <2>1, <2>2, <2>4 DEF Snapshots
<1>4. CASE venue # Flat /\ venue.side # side /\ qty <= venue.qty
  <2>1. /\ venue' = Flat \/ venue' = [venue EXCEPT !.qty = venue.qty - qty]
        /\ eps' = eps
    BY <1>4 DEF Executed
  <2>2. venue.qty - qty \in Nat
    BY <1>1, <1>4
  <2>3. QED
    BY <1>1, <1>4, <2>1, <2>2 DEF Snapshots
<1>5. CASE venue # Flat /\ venue.side # side /\ ~(qty <= venue.qty)
  <2>1. /\ Len(eps) < world.episodes
        /\ venue' = [side |-> side, qty |-> qty - venue.qty, ep |-> Len(eps) + 1]
        /\ eps' = Append(eps, [size |-> qty - venue.qty, own |-> byAgent])
    BY <1>5 DEF Executed
  <2>2. qty - venue.qty \in Nat
    BY <1>1, <1>5
  <2>3. eps' \in Seq(E) /\ Len(eps') = Len(eps) + 1
    BY <1>1, <2>1, <2>2
  <2>4. QED
    BY <1>1, <2>1, <2>2, <2>3 DEF Snapshots
<1>6. QED
  BY <1>2, <1>3, <1>4, <1>5

(* Whoever the driver's promise resumes. *)
LEMMA SettleTypes ==
  ASSUME Types, NEW res \in {"ok", "error", "outage"}, NEW j \in Jobs, Settle(res, j)
  PROVE  /\ job' \in Jobs /\ xpc' = "none" /\ xres' = "ok" /\ flipWaits' = FALSE
         /\ closer' \in {"idle", "waiting", "resolved", "rejected"} /\ opener' \in Openers
         /\ \/ opener' = opener \/ opener' = IdleOpen
            \/ flipWaits /\ opener' = [opener EXCEPT !.pc = "enter"]
<1>1. opener \in Openers /\ NoJob \in Jobs /\ IdleOpen \in Openers
  BY Constants DEF Types, OpenTypes
<1>2. [j EXCEPT !.reason = "CLOSE"] \in Jobs
  BY DEF Jobs, Reasons
<1>3. job' \in Jobs
  BY <1>1, <1>2 DEF Settle
<1>4. [opener EXCEPT !.pc = "enter"] \in Openers
  BY <1>1 DEF Openers
<1>5. xpc' = "none" /\ xres' = "ok" /\ flipWaits' = FALSE
  BY Zenon DEF Settle
<1>6. closer' \in {"idle", "waiting", "resolved", "rejected"}
  BY DEF Settle, Types, ExitTypes
<1>7. \/ opener' = opener \/ opener' = IdleOpen
      \/ flipWaits /\ opener' = [opener EXCEPT !.pc = "enter"]
  BY DEF Settle
<1>8. QED
  BY <1>1, <1>3, <1>4, <1>5, <1>6, <1>7

(* Whoever a sync resumes, its open or its exit driver included. *)
LEMMA ResumeTypes ==
  ASSUME Types, NEW who \in Requesters, NEW isOk \in BOOLEAN, Resume(who, isOk)
  PROVE  /\ job' \in Jobs /\ flipWaits' \in BOOLEAN /\ opener' \in Openers
         /\ xpc' \in {"none", "lookup", "read", "send", "residual", "after", "dropped"}
         /\ xres' \in {"ok", "error"} /\ closer' \in {"idle", "waiting", "resolved", "rejected"}
         /\ \/ opener' = opener \/ opener' = IdleOpen
            \/ flipWaits /\ opener' = [opener EXCEPT !.pc = "enter"]
            \/ who = "open" /\ opener' = [opener EXCEPT !.pc = "decide"]
<1>1. /\ opener \in Openers /\ NoJob \in Jobs /\ IdleOpen \in Openers /\ job \in Jobs
      /\ xres \in {"ok", "error"}
  BY Constants DEF Types, OpenTypes, ExitTypes
<1>2. CASE who = "exit"
  <2>1. PICK j \in Jobs : Settle(xres, j)
    BY <1>1, <1>2 DEF Resume
  <2>2. QED
    BY <1>1, <1>2, <2>1, SettleTypes
<1>3. CASE who = "open"
  <2>1. UNCHANGED <<job, xpc, xres, flipWaits, closer>>
    BY <1>3 DEF Resume
  <2>2. opener' = [opener EXCEPT !.pc = "decide"] \/ opener' = IdleOpen
    BY <1>3 DEF Resume
  <2>3. [opener EXCEPT !.pc = "decide"] \in Openers
    BY <1>1 DEF Openers
  <2>4. QED
    BY <1>1, <1>3, <2>1, <2>2, <2>3 DEF Types, ExitTypes
<1>4. CASE who = "entry"
  BY <1>1, <1>4 DEF Resume, Types, ExitTypes
<1>5. CASE who = "loop"
  BY <1>1, <1>5 DEF Resume, Types, ExitTypes
<1>6. QED
  BY <1>2, <1>3, <1>4, <1>5 DEF Requesters

(* A sync that ends: its snapshot, the queue behind it and who goes on. *)
LEMMA SyncEnds ==
  ASSUME Types, SyncFetch \/ SyncEvents \/ SyncFails
  PROVE  /\ queue # <<>> /\ Head(queue) \in Requesters /\ Tail(queue) \in Seq(Requesters)
         /\ sync' = IdleSync /\ queue' = Tail(queue) /\ UNCHANGED <<world, venueVars, opens, exits>>
         /\ \E isOk \in BOOLEAN : Resume(Head(queue), isOk)
         /\ failures' \in 0 .. DownAfter
         /\ cache' \in Snapshots
<1>1. queue # <<>> /\ queue \in Seq(Requesters)
  BY DEF SyncFetch, SyncEvents, SyncFails, Types, SyncTypes
<1>2. Head(queue) \in Requesters /\ Tail(queue) \in Seq(Requesters)
  BY <1>1
<1>3. /\ sync' = IdleSync /\ queue' = Tail(queue) /\ UNCHANGED <<world, venueVars, opens, exits>>
      /\ \E isOk \in BOOLEAN : Resume(Head(queue), isOk)
  BY DEF SyncFetch, SyncEvents, SyncFails, ApplySnapshot
<1>4. failures' \in 0 .. DownAfter
  <2>1. failures \in 0 .. DownAfter /\ DownAfter \in Nat
    BY Constants DEF Types, SyncTypes
  <2>2. failures' = 0 \/ failures' = Least(failures + 1, DownAfter)
    BY DEF SyncFetch, SyncEvents, SyncFails, ApplySnapshot
  <2>3. QED
    BY <2>1, <2>2 DEF Least
<1>5. cache' \in Snapshots
  BY DEF SyncFetch, SyncEvents, SyncFails, ApplySnapshot, Types, SyncTypes, ExchangeTypes, Syncs
<1>6. QED
  BY <1>1, <1>2, <1>3, <1>4, <1>5

(* The position, its episodes and the orders of the exchange. *)
LEMMA ExchangeKept == Types /\ [Next]_vars => ExchangeTypes'
<1> SUFFICES ASSUME Types, [Next]_vars PROVE ExchangeTypes'
  OBVIOUS
<1> USE Constants DEF Types, ExchangeTypes
<1>1. CASE EntrySend
  <2>1. EntryId \in Ids /\ opener.side \in Sides /\ EntryQty \in Nat
    BY <1>1, Constants DEF EntrySend, EntryId, Ids, Types, OpenTypes, Openers
  <2>2. [id |-> EntryId, side |-> opener.side, qty |-> EntryQty, reduceOnly |-> FALSE] \in Orders
    BY <2>1 DEF Orders
  <2>3. QED
    BY <1>1, <2>2 DEF EntrySend, Types, ExchangeTypes
<1>2. CASE EntryRejected
  BY <1>2 DEF EntryRejected, Forget
<1>3. CASE EntryUnconfirmed
  BY <1>3 DEF EntryUnconfirmed, Forget
<1>4. CASE ExitRead
  <2>1. Other(venue.side) \in Sides /\ ExitId \in Ids
    BY OtherSide DEF ExitId, Ids, Types, ExitTypes, Jobs
  <2>2. ASSUME NEW n \in Nat
        PROVE  [id |-> ExitId, side |-> Other(venue.side), qty |-> n, reduceOnly |-> TRUE] \in Orders
    BY <2>1 DEF Orders
  <2>3. venue.qty \in Nat /\ Least(job.qty, venue.qty) \in Nat
    BY DEF Least, Types, ExchangeTypes, ExitTypes, Jobs, Snapshots
  <2>4. transit' \subseteq Orders
    BY <1>4, <2>2, <2>3 DEF ExitRead, Types, ExchangeTypes
  <2>5. QED
    BY <1>4, <2>4 DEF ExitRead, Types, ExchangeTypes
<1>5. CASE ExitOutage
  BY <1>5 DEF ExitOutage, Forget
<1>6. CASE ExitRejected
  BY <1>6 DEF ExitRejected, Forget
<1>7. CASE \E o \in transit : Execute(o)
  <2>1. PICK o \in transit : Execute(o)
    BY <1>7
  <2>2. o \in Orders /\ o.id \in Ids /\ o.side \in Sides /\ o.qty \in Nat /\ venue.qty \in Nat
    BY DEF Types, ExchangeTypes, Orders, Snapshots
  <2>3. PICK qty \in Nat : /\ Executed(o.side, qty, TRUE)
                           /\ transit' \subseteq transit
                           /\ \E ep \in {venue.ep, venue'.ep}, n \in Nat :
                                filled' = filled \cup {[id |-> o.id, qty |-> n, ep |-> ep]}
    <3>1. Least(o.qty, venue.qty) \in Nat
      BY <2>2 DEF Least
    <3>2. QED
      BY <2>1, <2>2, <3>1 DEF Execute, Forget
  <2>4. /\ venue' \in Snapshots /\ eps' \in Seq([size : Nat, own : BOOLEAN])
        /\ Len(eps') <= world.episodes
        /\ venue' # Flat => venue'.side \in Sides /\ venue'.ep \in 1 .. Len(eps')
    BY <2>2, <2>3, ExecutedTypes
  <2>5. {venue.ep, venue'.ep} \subseteq 0 .. MaxEp
    BY <2>4 DEF Types, ExchangeTypes, Snapshots
  <2>6. filled' \subseteq Fills
    BY <2>2, <2>3, <2>5 DEF Types, ExchangeTypes, Fills
  <2>7. QED
    BY <2>3, <2>4, <2>6, Writers DEF Types, ExchangeTypes
<1>8. CASE Liquidate
  BY <1>8 DEF Liquidate, Flat
<1>9. CASE OutsiderTrades
  <2>1. PICK side \in Sides, qty \in {PartialQty, EntryQty} : Executed(side, qty, FALSE)
    BY <1>9 DEF OutsiderTrades
  <2>2. qty \in Nat
    BY Constants DEF Types
  <2>3. /\ venue' \in Snapshots /\ eps' \in Seq([size : Nat, own : BOOLEAN])
        /\ Len(eps') <= world.episodes
        /\ venue' # Flat => venue'.side \in Sides /\ venue'.ep \in 1 .. Len(eps')
    BY <2>1, <2>2, ExecutedTypes
  <2>4. QED
    BY <1>9, <2>3 DEF OutsiderTrades, Types, ExchangeTypes
<1>10. CASE UNCHANGED <<world, venueVars>>
  BY <1>10 DEF venueVars
<1>11. QED
  BY <1>1, <1>2, <1>3, <1>4, <1>5, <1>6, <1>7, <1>8, <1>9, <1>10, Writers DEF venueVars

(* Adding to an episode's journal keeps the journal typed. *)
LEMMA JournaledType ==
  ASSUME Types, NEW e \in 0 .. MaxEp, NEW n \in Nat PROVE Journaled(e, n) \in [0 .. MaxEp -> Nat]
  BY DEF Journaled, Types, StoreTypes

(* What a snapshot makes of the cache, the sidecar and the journal. *)
LEMMA ApplyTypes ==
  ASSUME Types, NEW snap \in Snapshots, ApplySnapshot(snap) PROVE StoreTypes'
<1>1. /\ expected \in Sides \cup {"none"} /\ journal \in [0 .. MaxEp -> Nat] /\ meta \in Metas
      /\ cache \in Snapshots /\ Flat \in Snapshots /\ NoMeta \in Metas /\ meta.seen \in Snapshots
  BY Constants DEF Types, StoreTypes, SyncTypes, Metas
<1>2. lastSeen \in Snapshots
  BY <1>1 DEF lastSeen
<1>3. Journaled(lastSeen.ep, lastSeen.qty) \in [0 .. MaxEp -> Nat]
  BY <1>2, JournaledType DEF Snapshots
<1>4. ASSUME NEW expect \in Sides \cup {"none"}
      PROVE  /\ reconciled(snap, expect).journal \in [0 .. MaxEp -> Nat]
             /\ reconciled(snap, expect).meta \in Metas
             /\ reconciled(snap, expect).expected \in Sides \cup {"none"}
  <2>1. ASSUME NEW m \in Metas PROVE [m EXCEPT !.seen = snap] \in Metas
    BY DEF Metas
  <2>2. ownedMeta(Flat) \in Metas /\ externalMeta \in Metas
    BY <1>1 DEF ownedMeta, externalMeta, Metas
  <2>3. /\ adoptUnowned(snap, expect).meta \in Metas
        /\ adoptUnowned(snap, expect).expected \in Sides \cup {"none"}
    BY <2>2 DEF adoptUnowned
  <2>4. reconciled(snap, expect).journal \in [0 .. MaxEp -> Nat]
    BY <1>1, <1>3 DEF reconciled
  <2>5. reconciled(snap, expect).expected \in Sides \cup {"none"}
    BY <1>1, <2>3 DEF reconciled
  <2>6. reconciled(snap, expect).meta \in Metas
    BY <1>1, <2>1, <2>3 DEF reconciled
  <2>7. QED
    BY <2>4, <2>5, <2>6
<1>5. PICK expect \in {expected} \cup {"none"} :
        IF sync.stale THEN UNCHANGED <<cache, storeVars>>
        ELSE /\ cache' = snap
             /\ journal' = reconciled(snap, expect).journal
             /\ meta' = reconciled(snap, expect).meta
             /\ expected' = reconciled(snap, expect).expected
  BY DEF ApplySnapshot
<1>6. QED
  BY <1>1, <1>4, <1>5 DEF storeVars, StoreTypes

(* Whoever asks for a refresh after an order joins the chain. *)
LEMMA AfterOrderTypes ==
  ASSUME SyncTypes, NEW who \in Requesters, afterOrder(who), UNCHANGED <<cache, failures>>
  PROVE  SyncTypes'
<1>1. queue \in Seq(Requesters) /\ sync \in Syncs
  BY DEF SyncTypes
<1>2. queue' = Append(queue, who) /\ sync' = [sync EXCEPT !.stale = (sync.pc # "idle")]
  BY DEF afterOrder
<1>3. queue' \in Seq(Requesters) /\ queue' # <<>>
  BY <1>1, <1>2
<1>4. sync' \in Syncs
  BY <1>1, <1>2 DEF Syncs
<1>5. QED
  BY <1>3, <1>4 DEF SyncTypes

(* Somebody joins the chain, or its head leaves it. *)
LEMMA Joins ==
  ASSUME Types, Once, NEW who \in Requesters, who \notin Waiting, queue' = Append(queue, who)
  PROVE  Once' /\ Waiting' = Waiting \cup {who}
<1>1. queue \in Seq(Requesters) /\ Len(queue) \in Nat
  BY DEF Types, SyncTypes
<1>2. /\ Len(queue') = Len(queue) + 1 /\ queue'[Len(queue) + 1] = who
      /\ \A i \in 1 .. Len(queue) : queue'[i] = queue[i]
  BY <1>1
<1>3. Waiting' = Waiting \cup {who}
  BY <1>1, <1>2 DEF Waiting
<1>4. Once'
  <2> SUFFICES ASSUME NEW i \in 1 .. Len(queue'), NEW j \in 1 .. Len(queue'), queue'[i] = queue'[j]
               PROVE  i = j
    BY DEF Once
  <2>1. ASSUME NEW k \in 1 .. Len(queue) PROVE queue[k] # who
    BY DEF Waiting
  <2>2. CASE i \in 1 .. Len(queue) /\ j \in 1 .. Len(queue)
    BY <1>2, <2>2 DEF Once
  <2>3. CASE i = Len(queue) + 1 \/ j = Len(queue) + 1
    BY <1>1, <1>2, <2>1, <2>3
  <2>4. QED
    BY <1>1, <1>2, <2>2, <2>3
<1>5. QED
  BY <1>3, <1>4

(* Taking the head off the queue removes exactly that waiting request. *)
LEMMA Leaves ==
  ASSUME Types, Once, queue # <<>>, queue' = Tail(queue)
  PROVE  Once' /\ Waiting' = Waiting \ {Head(queue)} /\ Head(queue) \in Waiting
<1>1. queue \in Seq(Requesters) /\ Len(queue) \in Nat /\ Len(queue) >= 1
  BY DEF Types, SyncTypes
<1>2. /\ Len(queue') = Len(queue) - 1 /\ Head(queue) = queue[1]
      /\ \A i \in 1 .. Len(queue') : queue'[i] = queue[i + 1]
  BY <1>1
<1>3. Once'
  BY <1>1, <1>2 DEF Once
<1>4. ASSUME NEW w \in Waiting' PROVE w \in Waiting \ {Head(queue)}
  <2>1. PICK i \in 1 .. Len(queue') : w = queue[i + 1]
    BY <1>2 DEF Waiting
  <2>2. i + 1 \in 1 .. Len(queue) /\ i + 1 # 1 /\ 1 \in 1 .. Len(queue)
    BY <1>1, <1>2
  <2>3. QED
    BY <1>2, <2>1, <2>2 DEF Waiting, Once
<1>5. ASSUME NEW w \in Waiting \ {Head(queue)} PROVE w \in Waiting'
  <2>1. PICK i \in 1 .. Len(queue) : w = queue[i] /\ i # 1
    BY <1>2 DEF Waiting
  <2>2. i - 1 \in 1 .. Len(queue') /\ (i - 1) + 1 = i
    BY <1>1, <1>2, <2>1
  <2>3. queue'[i - 1] = w
    BY <1>2, <2>1, <2>2
  <2>4. QED
    BY <2>2, <2>3 DEF Waiting
<1>6. Head(queue) \in Waiting
  BY <1>1, <1>2 DEF Waiting
<1>7. QED
  BY <1>3, <1>4, <1>5, <1>6

(* The caller a sync resumes is where it waits. *)
LEMMA HeadWaits ==
  ASSUME Types, Chain, queue # <<>>
  PROVE  /\ Head(queue) = "open" => opener.pc = "sync"
         /\ Head(queue) = "entry" => opener.pc = "after"
         /\ Head(queue) = "exit" => xpc \in {"after", "dropped"}
<1>1. Head(queue) = queue[1] /\ 1 \in 1 .. Len(queue)
  BY DEF Types, SyncTypes
<1>2. QED
  BY <1>1 DEF Chain, Where, Waiting

(* The counts of opens and of exit jobs. *)
LEMMA Counts ==
  ASSUME Types
  PROVE  /\ exits \in Nat /\ opens \in Nat /\ MaxExits \in Nat /\ MaxOpens \in Nat
         /\ opens <= MaxOpens /\ exits <= MaxExits + opens
         /\ opener.pc \in {"sync", "decide"} => opens >= 1 /\ exits + 1 <= MaxExits + opens
         /\ exits < MaxExits => exits + 1 <= MaxExits + MaxOpens
<1>1. MaxExits \in Nat /\ MaxOpens \in Nat
  BY Constants DEF Types
<1>2. /\ exits \in Nat /\ exits <= MaxExits + opens /\ opens \in 0 .. MaxOpens
      /\ opener.pc \in {"sync", "decide"} => opens >= 1 /\ exits + 1 <= MaxExits + opens
  BY DEF Types, CountTypes, OpenTypes
<1>3. QED
  BY <1>1, <1>2

(* A new job of the driver, as long as the count allows one. *)
LEMMA EnqueueTypes ==
  ASSUME Types, NEW r \in Reasons, NEW n \in Nat, enqueue(r, n), exits + 1 <= MaxExits + MaxOpens
  PROVE  job' \in Jobs /\ job' # NoJob /\ job'.reason = r /\ job'.qty = n /\ job'.sent = Flat
         /\ exits' = exits + 1
<1>1. job' = [id |-> exits + 1, reason |-> r, qty |-> n, sent |-> Flat] /\ exits' = exits + 1
  BY DEF enqueue
<1>2. Flat \in Snapshots
  BY Constants DEF Types
<1>3. exits + 1 \in 0 .. (MaxExits + MaxOpens) /\ exits + 1 # 0
  BY Counts
<1>4. QED
  BY <1>1, <1>2, <1>3 DEF Jobs, NoJob

(* A request joins the chain of syncs at its end. *)
LEMMA Joined ==
  ASSUME SyncTypes, UNCHANGED <<world, cache, failures, sync>>,
         NEW who \in Requesters, queue' = Append(queue, who)
  PROVE  SyncTypes'
<1>1. queue' \in Seq(Requesters) /\ queue' # <<>>
  <2>1. queue \in Seq(Requesters)
    BY DEF SyncTypes
  <2>2. QED
    BY <2>1
<1>2. QED
  BY <1>1 DEF SyncTypes

(* The cache, the chain of syncs and the one that runs. *)
LEMMA SyncKept == Types /\ [Next]_vars => SyncTypes'
<1> SUFFICES ASSUME Types, [Next]_vars PROVE SyncTypes'
  OBVIOUS
<1> USE Constants DEF Types, SyncTypes, ExchangeTypes, Syncs
<1>1. CASE SyncStart
  BY <1>1 DEF SyncStart
<1>2. CASE RequestSync
  <2>1. UNCHANGED <<world, cache, failures, sync>> /\ queue' = Append(queue, "loop") /\ "loop" \in Requesters
    BY <1>2 DEF RequestSync, Requesters
  <2>2. QED
    BY <2>1, Joined
<1>3. CASE SyncFetch
  BY <1>3, SyncEnds, Constants DEF IdleSync
<1>4. CASE SyncFetchMissing
  BY <1>4 DEF SyncFetchMissing
<1>5. CASE SyncEvents
  BY <1>5, SyncEnds, Constants DEF IdleSync
<1>6. CASE SyncFails
  BY <1>6, SyncEnds, Constants DEF IdleSync
<1>7. CASE \E side \in Sides : OpenCall(side)
  <2>1. UNCHANGED <<world, cache, failures, sync>> /\ queue' = Append(queue, "open") /\ "open" \in Requesters
    BY <1>7 DEF OpenCall, Requesters
  <2>2. QED
    BY <2>1, Joined
<1>8. CASE EntryFilled
  BY <1>8, AfterOrderTypes DEF EntryFilled, Requesters, Types
<1>9. CASE EntryUnconfirmed
  BY <1>9, AfterOrderTypes DEF EntryUnconfirmed, Requesters, Types
<1>10. CASE ExitReadFlat
  BY <1>10, AfterOrderTypes DEF ExitReadFlat, Requesters, Types
<1>11. CASE ExitComplete
  <2>1. UNCHANGED <<cache, failures>> /\ (UNCHANGED <<queue, sync>> \/ afterOrder("exit"))
    BY <1>11 DEF ExitComplete
  <2>2. QED
    BY <2>1, AfterOrderTypes DEF Requesters, Types, SyncTypes
<1>12. CASE ExitResidual
  BY <1>12, AfterOrderTypes DEF ExitResidual, Requesters, Types
<1>13. CASE ExitRejected
  BY <1>13, AfterOrderTypes DEF ExitRejected, Requesters, Types
<1>14. CASE ExitResidualFails
  BY <1>14, AfterOrderTypes DEF ExitResidualFails, Requesters, Types
<1>15. CASE Restart
  BY <1>15 DEF Restart, IdleSync
<1>16. CASE UNCHANGED <<cache, failures, queue, sync>>
  BY <1>16
<1>17. QED
  BY <1>1, <1>2, <1>3, <1>4, <1>5, <1>6, <1>7, <1>8, <1>9, <1>10, <1>11, <1>12, <1>13, <1>14, <1>15,
       <1>16, Writers

(* The call of open() in progress. *)
LEMMA OpenKept == Types /\ Chain /\ Flipping /\ [Next]_vars => OpenTypes'
<1> SUFFICES ASSUME Types, Chain, Flipping, [Next]_vars PROVE OpenTypes'
  OBVIOUS
<1> USE Constants DEF Types, OpenTypes, Openers, MaxOpens
<1>1. CASE OpenRefused
  BY <1>1 DEF OpenRefused, IdleOpen
<1>2. CASE OpenOrScaleIn
  BY <1>2 DEF OpenOrScaleIn
<1>3. CASE OpenFlip
  BY <1>3 DEF OpenFlip
<1>4. CASE EntrySend
  BY <1>4 DEF EntrySend
<1>5. CASE SyncFetch
  <2>1. PICK isOk \in BOOLEAN : Resume(Head(queue), isOk)
    BY <1>5, SyncEnds
  <2>2. /\ Head(queue) \in Requesters /\ opens' = opens /\ world' = world
        /\ Head(queue) = "open" => opener.pc = "sync"
    BY <1>5, SyncEnds, HeadWaits
  <2>3. /\ opener' \in Openers
        /\ \/ opener' = opener \/ opener' = IdleOpen
           \/ flipWaits /\ opener' = [opener EXCEPT !.pc = "enter"]
           \/ Head(queue) = "open" /\ opener' = [opener EXCEPT !.pc = "decide"]
    BY <2>1, <2>2, ResumeTypes
  <2>4. opener.pc # "idle" => opener.side \in Sides /\ opens >= 1
    BY DEF Types, OpenTypes
  <2>5. opener'.pc # "idle" => opener'.side \in Sides /\ opens >= 1
    BY <2>2, <2>3, <2>4 DEF IdleOpen, Openers, Flipping, Types, OpenTypes
  <2>6. QED
    BY <2>2, <2>3, <2>5 DEF Types, OpenTypes, MaxOpens
<1>6. CASE SyncEvents
  <2>1. PICK isOk \in BOOLEAN : Resume(Head(queue), isOk)
    BY <1>6, SyncEnds
  <2>2. /\ Head(queue) \in Requesters /\ opens' = opens /\ world' = world
        /\ Head(queue) = "open" => opener.pc = "sync"
    BY <1>6, SyncEnds, HeadWaits
  <2>3. /\ opener' \in Openers
        /\ \/ opener' = opener \/ opener' = IdleOpen
           \/ flipWaits /\ opener' = [opener EXCEPT !.pc = "enter"]
           \/ Head(queue) = "open" /\ opener' = [opener EXCEPT !.pc = "decide"]
    BY <2>1, <2>2, ResumeTypes
  <2>4. opener.pc # "idle" => opener.side \in Sides /\ opens >= 1
    BY DEF Types, OpenTypes
  <2>5. opener'.pc # "idle" => opener'.side \in Sides /\ opens >= 1
    BY <2>2, <2>3, <2>4 DEF IdleOpen, Openers, Flipping, Types, OpenTypes
  <2>6. QED
    BY <2>2, <2>3, <2>5 DEF Types, OpenTypes, MaxOpens
<1>7. CASE SyncFails
  <2>1. PICK isOk \in BOOLEAN : Resume(Head(queue), isOk)
    BY <1>7, SyncEnds
  <2>2. /\ Head(queue) \in Requesters /\ opens' = opens /\ world' = world
        /\ Head(queue) = "open" => opener.pc = "sync"
    BY <1>7, SyncEnds, HeadWaits
  <2>3. /\ opener' \in Openers
        /\ \/ opener' = opener \/ opener' = IdleOpen
           \/ flipWaits /\ opener' = [opener EXCEPT !.pc = "enter"]
           \/ Head(queue) = "open" /\ opener' = [opener EXCEPT !.pc = "decide"]
    BY <2>1, <2>2, ResumeTypes
  <2>4. opener.pc # "idle" => opener.side \in Sides /\ opens >= 1
    BY DEF Types, OpenTypes
  <2>5. opener'.pc # "idle" => opener'.side \in Sides /\ opens >= 1
    BY <2>2, <2>3, <2>4 DEF IdleOpen, Openers, Flipping, Types, OpenTypes
  <2>6. QED
    BY <2>2, <2>3, <2>5 DEF Types, OpenTypes, MaxOpens
<1>8. CASE \E side \in Sides : OpenCall(side)
  <2>1. PICK side \in Sides : OpenCall(side)
    BY <1>8
  <2>2. opens \in Nat /\ opens < MaxOpens /\ opens' = opens + 1 /\ world' = world
    BY <2>1, Constants DEF OpenCall, Types, OpenTypes
  <2>3. opener' = [pc |-> "sync", side |-> side, scaleIn |-> FALSE, id |-> opens + 1]
    BY <2>1 DEF OpenCall, IdleOpen
  <2>4. opener' \in Openers
    BY <2>2, <2>3 DEF Openers
  <2>5. QED
    BY <2>2, <2>3, <2>4, Constants DEF OpenTypes, MaxOpens, Types
<1>9. CASE EntryFilled
  BY <1>9 DEF EntryFilled
<1>10. CASE EntryRejected
  BY <1>10 DEF EntryRejected, IdleOpen
<1>11. CASE EntryUnconfirmed
  BY <1>11 DEF EntryUnconfirmed
<1>12. CASE ExitOutage
  <2>1. PICK j \in Jobs : Settle("outage", j) /\ opens' = opens /\ world' = world
    BY <1>12 DEF ExitOutage, Types, ExitTypes
  <2>2. opener' \in Openers /\ (opener' = opener \/ opener' = IdleOpen)
    BY <2>1, SettleTypes DEF Settle
  <2>3. QED
    BY <2>1, <2>2 DEF IdleOpen, Types, OpenTypes, MaxOpens
<1>13. CASE Restart
  BY <1>13 DEF Restart, IdleOpen
<1>14. CASE UNCHANGED <<world, opener, opens>>
  BY <1>14
<1>15. QED
  BY <1>1, <1>2, <1>3, <1>4, <1>5, <1>6, <1>7, <1>8, <1>9, <1>10, <1>11, <1>12, <1>13, <1>14,
       Writers

(* The sidecar, the expected opens and the journal. *)
LEMMA StoreKept == Types /\ [Next]_vars => StoreTypes'
<1> SUFFICES ASSUME Types, [Next]_vars PROVE StoreTypes'
  OBVIOUS
<1> USE Constants DEF Types, StoreTypes
<1>1. CASE SyncFetch
  BY <1>1, ApplyTypes DEF SyncFetch, Types, ExchangeTypes
<1>2. CASE SyncEvents
  BY <1>2, ApplyTypes DEF SyncEvents, Types, SyncTypes, Syncs
<1>3. CASE EntryFilled
  <2>1. FillOf(EntryId) \in Fills
    BY <1>3 DEF EntryFilled, isFilled, FillOf, Types, ExchangeTypes
  <2>2. [side |-> opener.side, qty |-> EntryQty, ep |-> FillOf(EntryId).ep] \in Snapshots
    BY <1>3, <2>1, Constants DEF EntryFilled, Fills, Snapshots, Types, OpenTypes
  <2>3. QED
    BY <1>3, <2>2 DEF EntryFilled, ownedMeta, Types, StoreTypes, Metas
<1>4. CASE EntryUnconfirmed
  BY <1>4 DEF EntryUnconfirmed, OpenTypes
<1>5. CASE ExitComplete
  <2>1. FillOf(ExitId) \in Fills
    BY <1>5 DEF ExitComplete, isFilled, FillOf, Types, ExchangeTypes
  <2>2. journal' \in [0 .. MaxEp -> Nat]
    BY <1>5, <2>1, Constants, JournaledType DEF ExitComplete, Fills, Types, ExitTypes, Jobs,
         Snapshots
  <2>3. QED
    BY <1>5, <2>2, Constants DEF ExitComplete, Types, StoreTypes
<1>6. CASE ExitResidual
  BY <1>6 DEF ExitResidual, ownedMeta, Metas
<1>7. CASE Restart
  BY <1>7 DEF Restart
<1>8. CASE UNCHANGED <<expected, meta, journal>>
  BY <1>8
<1>9. QED
  BY <1>1, <1>2, <1>3, <1>4, <1>5, <1>6, <1>7, <1>8, Writers

(* An open leaves room for the exit job of its flip. *)
LEMMA CountKept == Types /\ Chain /\ Flipping /\ [Next]_vars => CountTypes'
<1> SUFFICES ASSUME Types, Chain, Flipping, [Next]_vars PROVE CountTypes'
  OBVIOUS
<1> USE Constants DEF Types, CountTypes, OpenTypes, Openers
<1>0. MaxExits' = MaxExits /\ MaxOpens' = MaxOpens
  BY Writers DEF MaxExits, MaxOpens
<1>1. CASE OpenRefused
  BY <1>1, <1>0 DEF OpenRefused, IdleOpen, exitVars
<1>2. CASE OpenOrScaleIn
  BY <1>2, <1>0 DEF OpenOrScaleIn, exitVars
<1>3. CASE OpenFlip
  BY <1>3, <1>0 DEF OpenFlip, openVars, enqueue
<1>4. CASE EntrySend
  BY <1>4, <1>0 DEF EntrySend, exitVars
<1>5. CASE SyncFetch
  <2>1. PICK isOk \in BOOLEAN : Resume(Head(queue), isOk)
    BY <1>5, SyncEnds
  <2>2. /\ Head(queue) \in Requesters /\ opens' = opens /\ exits' = exits
        /\ Head(queue) = "open" => opener.pc = "sync"
    BY <1>5, SyncEnds, HeadWaits
  <2>3. \/ opener' = opener \/ opener' = IdleOpen
        \/ flipWaits /\ opener' = [opener EXCEPT !.pc = "enter"]
        \/ Head(queue) = "open" /\ opener' = [opener EXCEPT !.pc = "decide"]
    BY <2>1, <2>2, ResumeTypes
  <2>4. opener'.pc \in {"sync", "decide"} => opener.pc \in {"sync", "decide"}
    BY <2>2, <2>3 DEF IdleOpen, Types, OpenTypes, Openers
  <2>5. QED
    BY <1>0, <2>2, <2>4 DEF Types, CountTypes
<1>6. CASE SyncEvents
  <2>1. PICK isOk \in BOOLEAN : Resume(Head(queue), isOk)
    BY <1>6, SyncEnds
  <2>2. /\ Head(queue) \in Requesters /\ opens' = opens /\ exits' = exits
        /\ Head(queue) = "open" => opener.pc = "sync"
    BY <1>6, SyncEnds, HeadWaits
  <2>3. \/ opener' = opener \/ opener' = IdleOpen
        \/ flipWaits /\ opener' = [opener EXCEPT !.pc = "enter"]
        \/ Head(queue) = "open" /\ opener' = [opener EXCEPT !.pc = "decide"]
    BY <2>1, <2>2, ResumeTypes
  <2>4. opener'.pc \in {"sync", "decide"} => opener.pc \in {"sync", "decide"}
    BY <2>2, <2>3 DEF IdleOpen, Types, OpenTypes, Openers
  <2>5. QED
    BY <1>0, <2>2, <2>4 DEF Types, CountTypes
<1>7. CASE SyncFails
  <2>1. PICK isOk \in BOOLEAN : Resume(Head(queue), isOk)
    BY <1>7, SyncEnds
  <2>2. /\ Head(queue) \in Requesters /\ opens' = opens /\ exits' = exits
        /\ Head(queue) = "open" => opener.pc = "sync"
    BY <1>7, SyncEnds, HeadWaits
  <2>3. \/ opener' = opener \/ opener' = IdleOpen
        \/ flipWaits /\ opener' = [opener EXCEPT !.pc = "enter"]
        \/ Head(queue) = "open" /\ opener' = [opener EXCEPT !.pc = "decide"]
    BY <2>1, <2>2, ResumeTypes
  <2>4. opener'.pc \in {"sync", "decide"} => opener.pc \in {"sync", "decide"}
    BY <2>2, <2>3 DEF IdleOpen, Types, OpenTypes, Openers
  <2>5. QED
    BY <1>0, <2>2, <2>4 DEF Types, CountTypes
<1>8. CASE \E side \in Sides : OpenCall(side)
  <2>1. PICK side \in Sides : OpenCall(side)
    BY <1>8
  <2>2. exits' = exits /\ opens' = opens + 1 /\ opens \in Nat /\ exits \in Nat /\ exits <= MaxExits + opens
    BY <2>1, Constants DEF OpenCall, exitVars, Types, OpenTypes, CountTypes
  <2>3. QED
    BY <1>0, <2>2, Constants DEF CountTypes, Types
<1>9. CASE EntryFilled
  BY <1>9, <1>0 DEF EntryFilled, exitVars
<1>10. CASE EntryRejected
  BY <1>10, <1>0 DEF EntryRejected, IdleOpen, exitVars
<1>11. CASE EntryUnconfirmed
  BY <1>11, <1>0 DEF EntryUnconfirmed, exitVars
<1>12. CASE Trigger
  <2>1. exits < MaxExits /\ exits' = exits + 1 /\ UNCHANGED <<opener, opens>>
    BY <1>12 DEF Trigger, openVars, enqueue
  <2>2. exits' \in Nat /\ exits' <= MaxExits + opens
    BY <2>1, Counts
  <2>3. opener.pc \in {"sync", "decide"} => exits' + 1 <= MaxExits + opens
    BY <2>1, Counts
  <2>4. QED
    BY <1>0, <2>1, <2>2, <2>3 DEF CountTypes
<1>13. CASE CloseCall
  BY <1>13, <1>0 DEF CloseCall, openVars, enqueue
<1>14. CASE ReduceCall
  <2>1. exits < MaxExits /\ exits' = exits + 1 /\ UNCHANGED <<opener, opens>>
    BY <1>14 DEF ReduceCall, openVars, enqueue
  <2>2. exits' \in Nat /\ exits' <= MaxExits + opens
    BY <2>1, Counts
  <2>3. opener.pc \in {"sync", "decide"} => exits' + 1 <= MaxExits + opens
    BY <2>1, Counts
  <2>4. QED
    BY <1>0, <2>1, <2>2, <2>3 DEF CountTypes
<1>15. CASE ExitLookupMiss
  BY <1>15, <1>0 DEF ExitLookupMiss, openVars
<1>16. CASE ExitReadFlat
  BY <1>16, <1>0 DEF ExitReadFlat, openVars
<1>17. CASE ExitRead
  BY <1>17, <1>0 DEF ExitRead, openVars
<1>18. CASE ExitComplete
  BY <1>18, <1>0 DEF ExitComplete, openVars
<1>19. CASE ExitResidual
  BY <1>19, <1>0 DEF ExitResidual, openVars
<1>20. CASE RetryPending
  BY <1>20, <1>0 DEF RetryPending, openVars
<1>21. CASE ExitOutage
  <2>1. Settle("outage", job) /\ UNCHANGED <<opens, exits>>
    BY <1>21 DEF ExitOutage
  <2>2. opener' = opener \/ opener' = IdleOpen
    BY <2>1 DEF Settle
  <2>3. QED
    BY <1>0, <2>1, <2>2 DEF IdleOpen, Types, CountTypes
<1>22. CASE ExitRejected
  BY <1>22, <1>0 DEF ExitRejected, openVars
<1>23. CASE ExitResidualFails
  BY <1>23, <1>0 DEF ExitResidualFails, openVars
<1>24. CASE Restart
  BY <1>24, <1>0 DEF Restart, IdleOpen, exitVars
<1>25. CASE UNCHANGED <<opener, opens, exits, job, xpc, xres, flipWaits, closer>>
  BY <1>25, <1>0
<1>26. QED
  BY <1>1, <1>2, <1>3, <1>4, <1>5, <1>6, <1>7, <1>8, <1>9, <1>10, <1>11, <1>12, <1>13, <1>14, <1>15,
       <1>16, <1>17, <1>18, <1>19, <1>20, <1>21, <1>22, <1>23, <1>24, <1>25, Writers

(* The exit job and its driver. *)
LEMMA ExitKept == Types /\ Chain /\ Flipping /\ [Next]_vars => ExitTypes'
<1> SUFFICES ASSUME Types, Chain, Flipping, [Next]_vars PROVE ExitTypes'
  OBVIOUS
<1> USE Constants DEF Types, ExitTypes
<1>0. Jobs' = Jobs
  BY Writers DEF Jobs, MaxExits, MaxOpens
<1>1. CASE OpenFlip
  <2>1. enqueue("FLIP", 0) /\ drive(job') /\ flipWaits' = TRUE /\ UNCHANGED <<xres, closer>>
    BY <1>1, Zenon DEF OpenFlip
  <2>2. exits + 1 <= MaxExits + MaxOpens
    BY <1>1, Counts DEF OpenFlip
  <2>3. job' \in Jobs
    BY <2>1, <2>2, EnqueueTypes DEF Reasons
  <2>4. QED
    BY <1>0, <2>1, <2>3 DEF drive, Types, ExitTypes
<1>2. CASE SyncFetch
  <2>1. PICK isOk \in BOOLEAN : Resume(Head(queue), isOk)
    BY <1>2, SyncEnds
  <2>2. Head(queue) \in Requesters
    BY <1>2, SyncEnds
  <2>3. QED
    BY <1>0, <2>1, <2>2, ResumeTypes DEF ExitTypes
<1>3. CASE SyncEvents
  <2>1. PICK isOk \in BOOLEAN : Resume(Head(queue), isOk)
    BY <1>3, SyncEnds
  <2>2. Head(queue) \in Requesters
    BY <1>3, SyncEnds
  <2>3. QED
    BY <1>0, <2>1, <2>2, ResumeTypes DEF ExitTypes
<1>4. CASE SyncFails
  <2>1. PICK isOk \in BOOLEAN : Resume(Head(queue), isOk)
    BY <1>4, SyncEnds
  <2>2. Head(queue) \in Requesters
    BY <1>4, SyncEnds
  <2>3. QED
    BY <1>0, <2>1, <2>2, ResumeTypes DEF ExitTypes
<1>5. CASE Trigger
  <2>1. exits < MaxExits /\ enqueue("STOP LOSS", 0) /\ drive(job') /\ UNCHANGED <<xres, flipWaits, closer>>
    BY <1>5 DEF Trigger
  <2>2. exits + 1 <= MaxExits + MaxOpens
    BY <2>1, Counts
  <2>3. PartialQty \in Nat
    BY RemoteAssumption
  <2>4. job' \in Jobs
    BY <2>1, <2>2, <2>3, EnqueueTypes DEF Reasons
  <2>5. QED
    BY <1>0, <2>1, <2>4 DEF drive, Types, ExitTypes
<1>6. CASE CloseCall
  <2>1. /\ UNCHANGED job \/ (exits < MaxExits /\ enqueue("CLOSE", 0))
        /\ drive(job') /\ closer' = "waiting" /\ UNCHANGED <<xres, flipWaits>>
    BY <1>6 DEF CloseCall
  <2>2. exits < MaxExits => exits + 1 <= MaxExits + MaxOpens
    BY Counts
  <2>3. job' \in Jobs
    BY <2>1, <2>2, EnqueueTypes DEF Reasons, Types, ExitTypes
  <2>4. QED
    BY <1>0, <2>1, <2>3 DEF drive, Types, ExitTypes
<1>7. CASE ReduceCall
  <2>1. exits < MaxExits /\ enqueue("PARTIAL TP", PartialQty) /\ drive(job') /\ UNCHANGED <<xres, flipWaits, closer>>
    BY <1>7 DEF ReduceCall
  <2>2. exits + 1 <= MaxExits + MaxOpens
    BY <2>1, Counts
  <2>3. PartialQty \in Nat
    BY RemoteAssumption
  <2>4. job' \in Jobs
    BY <2>1, <2>2, <2>3, EnqueueTypes DEF Reasons
  <2>5. QED
    BY <1>0, <2>1, <2>4 DEF drive, Types, ExitTypes
<1>8. CASE ExitLookupMiss
  BY <1>8, <1>0 DEF ExitLookupMiss
<1>9. CASE ExitReadFlat
  BY <1>9, <1>0 DEF ExitReadFlat
<1>10. CASE ExitRead
  <2>1. /\ UNCHANGED <<xres, flipWaits, closer>> /\ xpc' = "send"
        /\ \E n \in {venue.qty, Least(job.qty, venue.qty)} :
             job' = [job EXCEPT !.sent = [venue EXCEPT !.qty = n]]
    BY <1>10 DEF ExitRead
  <2>2. {venue.qty, Least(job.qty, venue.qty)} \subseteq Nat
    BY DEF Least, Types, ExchangeTypes, ExitTypes, Jobs, Snapshots
  <2>3. ASSUME NEW n \in Nat PROVE [venue EXCEPT !.qty = n] \in Snapshots
    BY DEF Types, ExchangeTypes, Snapshots
  <2>4. ASSUME NEW v \in Snapshots PROVE [job EXCEPT !.sent = v] \in Jobs
    BY DEF Types, ExitTypes, Jobs
  <2>5. job' \in Jobs
    BY <2>1, <2>2, <2>3, <2>4
  <2>6. QED
    BY <1>0, <2>1, <2>5 DEF Types, ExitTypes
<1>11. CASE ExitComplete
  BY <1>11, <1>0 DEF ExitComplete
<1>12. CASE ExitResidual
  BY <1>12, <1>0 DEF ExitResidual
<1>13. CASE RetryPending
  BY <1>13, <1>0 DEF RetryPending, drive
<1>14. CASE ExitOutage
  <2>1. Settle("outage", job) /\ job \in Jobs
    BY <1>14 DEF ExitOutage, Types, ExitTypes
  <2>2. QED
    BY <1>0, <2>1, SettleTypes DEF ExitTypes
<1>15. CASE ExitRejected
  BY <1>15, <1>0 DEF ExitRejected
<1>16. CASE ExitResidualFails
  BY <1>16, <1>0 DEF ExitResidualFails
<1>17. CASE Restart
  BY <1>17, <1>0 DEF Restart
<1>18. CASE UNCHANGED <<exits, job, xpc, xres, flipWaits, closer>>
  BY <1>18, <1>0
<1>19. QED
  BY <1>1, <1>2, <1>3, <1>4, <1>5, <1>6, <1>7, <1>8, <1>9, <1>10, <1>11, <1>12, <1>13, <1>14, <1>15,
       <1>16, <1>17, <1>18, Writers

(* What is left of a job and its flip when the driver's promise settles. *)
LEMMA SettleDriven ==
  ASSUME Types, Driven, NEW res, NEW j \in {job, NoJob}, Settle(res, j)
  PROVE  Driven'
<1>1. xpc' = "none"
  BY DEF Settle
<1>2. job' = NoJob \/ job' = j \/ (j # NoJob /\ job' = [j EXCEPT !.reason = "CLOSE"])
  BY DEF Settle
<1>3. j \in Jobs
  BY Constants DEF Types, ExitTypes
<1>4. QED
  BY <1>1, <1>2, <1>3 DEF Driven, Jobs, NoJob

(* Settling a close keeps an opener past its flip apart from every close but the flip itself. *)
LEMMA SettleApart ==
  ASSUME Types, Apart, Flipping, NEW res, NEW j \in {job, NoJob}, Settle(res, j)
  PROVE  Apart'
<1>1. CASE flipWaits /\ res = "ok"
  <2>1. job' = job \/ job' = NoJob
    BY <1>1 DEF Settle
  <2>2. QED
    BY <1>1, <2>1 DEF Flipping, Apart, NoJob
<1>2. CASE flipWaits /\ res # "ok"
  BY <1>2 DEF Settle, IdleOpen, Apart
<1>3. CASE ~flipWaits
  <2>1. opener' = opener /\ (job' = job \/ job' = NoJob)
    BY <1>3 DEF Settle
  <2>2. QED
    BY <2>1 DEF Apart, NoJob
<1>4. QED
  BY <1>1, <1>2, <1>3

(* Whoever waits for a sync waits once, and where it waits. *)
LEMMA ChainKept == Types /\ Chain /\ Flipping /\ Driven /\ Apart /\ [Next]_vars => Chain'
<1> SUFFICES ASSUME Types, Chain, Flipping, Driven, Apart, [Next]_vars PROVE Chain'
  OBVIOUS
<1> USE DEF Chain, Where, Once, Flipping
<1>1. CASE SyncStart
  <2>1. Waiting' = Waiting /\ Once'
    BY <1>1 DEF SyncStart, syncVars, Waiting
  <2>2. QED
    BY <1>1, <2>1 DEF SyncStart, drive, IdleOpen, openVars, exitVars
<1>2. CASE OpenRefused
  <2>1. Waiting' = Waiting /\ Once'
    BY <1>2 DEF OpenRefused, syncVars, Waiting
  <2>2. QED
    BY <1>2, <2>1 DEF OpenRefused, drive, IdleOpen, openVars, exitVars
<1>3. CASE OpenOrScaleIn
  <2>1. Waiting' = Waiting /\ Once'
    BY <1>3 DEF OpenOrScaleIn, syncVars, Waiting
  <2>2. QED
    BY <1>3, <2>1 DEF OpenOrScaleIn, drive, IdleOpen, openVars, exitVars
<1>4. CASE OpenFlip
  <2>1. Waiting' = Waiting /\ Once'
    BY <1>4 DEF OpenFlip, syncVars, Waiting
  <2>2. QED
    BY <1>4, <2>1 DEF OpenFlip, drive, IdleOpen, openVars, exitVars
<1>5. CASE EntrySend
  <2>1. Waiting' = Waiting /\ Once'
    BY <1>5 DEF EntrySend, syncVars, Waiting
  <2>2. QED
    BY <1>5, <2>1 DEF EntrySend, drive, IdleOpen, openVars, exitVars
<1>6. CASE RequestSync
  <2>1. queue' = Append(queue, "loop") /\ "loop" \in Requesters
    BY <1>6 DEF RequestSync, Requesters
  <2>2. "loop" \notin Waiting
    BY <1>6 DEF RequestSync, Waiting
  <2>3. Once' /\ Waiting' = Waiting \cup {"loop"}
    BY <2>1, <2>2, Joins
  <2>4. Where'
    BY <1>6, <2>2, <2>3 DEF RequestSync, openVars, exitVars
  <2>5. QED
    BY <2>3, <2>4
<1>7. CASE SyncFetch
  <2>1. PICK isOk \in BOOLEAN : Resume(Head(queue), isOk)
    BY <1>7, SyncEnds
  <2>2. queue # <<>> /\ queue' = Tail(queue) /\ Head(queue) \in Requesters
    BY <1>7, SyncEnds
  <2>3. Once' /\ Waiting' = Waiting \ {Head(queue)} /\ Head(queue) \in Waiting
    BY <2>2, Leaves
  <2>4. CASE Head(queue) \in {"open", "entry"}
    <3>1. xpc' = xpc
      BY <2>1, <2>4 DEF Resume
    <3>2. "open" \notin Waiting' /\ "entry" \notin Waiting'
      BY <2>3, <2>4
    <3>3. QED
      BY <2>3, <3>1, <3>2
  <2>5. CASE Head(queue) = "exit"
    <3>1. opener' = opener \/ flipWaits
      BY <2>1, <2>5 DEF Resume, Settle
    <3>2. QED
      BY <2>3, <2>5, <3>1
  <2>6. CASE Head(queue) = "loop"
    BY <2>1, <2>3, <2>6 DEF Resume
  <2>7. QED
    BY <2>2, <2>4, <2>5, <2>6 DEF Requesters
<1>8. CASE SyncFetchMissing
  <2>1. Waiting' = Waiting /\ Once'
    BY <1>8 DEF SyncFetchMissing, syncVars, Waiting
  <2>2. QED
    BY <1>8, <2>1 DEF SyncFetchMissing, drive, IdleOpen, openVars, exitVars
<1>9. CASE SyncEvents
  <2>1. PICK isOk \in BOOLEAN : Resume(Head(queue), isOk)
    BY <1>9, SyncEnds
  <2>2. queue # <<>> /\ queue' = Tail(queue) /\ Head(queue) \in Requesters
    BY <1>9, SyncEnds
  <2>3. Once' /\ Waiting' = Waiting \ {Head(queue)} /\ Head(queue) \in Waiting
    BY <2>2, Leaves
  <2>4. CASE Head(queue) \in {"open", "entry"}
    <3>1. xpc' = xpc
      BY <2>1, <2>4 DEF Resume
    <3>2. "open" \notin Waiting' /\ "entry" \notin Waiting'
      BY <2>3, <2>4
    <3>3. QED
      BY <2>3, <3>1, <3>2
  <2>5. CASE Head(queue) = "exit"
    <3>1. opener' = opener \/ flipWaits
      BY <2>1, <2>5 DEF Resume, Settle
    <3>2. QED
      BY <2>3, <2>5, <3>1
  <2>6. CASE Head(queue) = "loop"
    BY <2>1, <2>3, <2>6 DEF Resume
  <2>7. QED
    BY <2>2, <2>4, <2>5, <2>6 DEF Requesters
<1>10. CASE SyncFails
  <2>1. PICK isOk \in BOOLEAN : Resume(Head(queue), isOk)
    BY <1>10, SyncEnds
  <2>2. queue # <<>> /\ queue' = Tail(queue) /\ Head(queue) \in Requesters
    BY <1>10, SyncEnds
  <2>3. Once' /\ Waiting' = Waiting \ {Head(queue)} /\ Head(queue) \in Waiting
    BY <2>2, Leaves
  <2>4. CASE Head(queue) \in {"open", "entry"}
    <3>1. xpc' = xpc
      BY <2>1, <2>4 DEF Resume
    <3>2. "open" \notin Waiting' /\ "entry" \notin Waiting'
      BY <2>3, <2>4
    <3>3. QED
      BY <2>3, <3>1, <3>2
  <2>5. CASE Head(queue) = "exit"
    <3>1. opener' = opener \/ flipWaits
      BY <2>1, <2>5 DEF Resume, Settle
    <3>2. QED
      BY <2>3, <2>5, <3>1
  <2>6. CASE Head(queue) = "loop"
    BY <2>1, <2>3, <2>6 DEF Resume
  <2>7. QED
    BY <2>2, <2>4, <2>5, <2>6 DEF Requesters
<1>11. CASE \E side \in Sides : OpenCall(side)
  <2>1. PICK side \in Sides : OpenCall(side)
    BY <1>11
  <2>2. /\ queue' = Append(queue, "open") /\ "open" \in Requesters /\ opener.pc = "idle"
        /\ opener'.pc = "sync" /\ xpc' = xpc
    BY <2>1 DEF OpenCall, Requesters, IdleOpen, exitVars
  <2>3. Once' /\ Waiting' = Waiting \cup {"open"}
    BY <2>2, Joins
  <2>4. QED
    BY <2>2, <2>3
<1>12. CASE EntryFilled
  <2>1. queue' = Append(queue, "entry") /\ "entry" \in Requesters
    BY <1>12 DEF EntryFilled, Requesters, afterOrder
  <2>2. "entry" \notin Waiting
    BY <1>12 DEF EntryFilled
  <2>3. Once' /\ Waiting' = Waiting \cup {"entry"}
    BY <2>1, <2>2, Joins
  <2>4. Where'
    BY <1>12, <2>2, <2>3 DEF EntryFilled, exitVars, Openers
  <2>5. QED
    BY <2>3, <2>4
<1>13. CASE EntryRejected
  <2>1. Waiting' = Waiting /\ Once'
    BY <1>13 DEF EntryRejected, syncVars, Waiting
  <2>2. QED
    BY <1>13, <2>1 DEF EntryRejected, drive, IdleOpen, openVars, exitVars
<1>14. CASE EntryUnconfirmed
  <2>1. queue' = Append(queue, "entry") /\ "entry" \in Requesters
    BY <1>14 DEF EntryUnconfirmed, Requesters, afterOrder
  <2>2. "entry" \notin Waiting
    BY <1>14 DEF EntryUnconfirmed
  <2>3. Once' /\ Waiting' = Waiting \cup {"entry"}
    BY <2>1, <2>2, Joins
  <2>4. Where'
    BY <1>14, <2>2, <2>3 DEF EntryUnconfirmed, exitVars, Openers
  <2>5. QED
    BY <2>3, <2>4
<1>15. CASE Trigger
  <2>1. Waiting' = Waiting /\ Once'
    BY <1>15 DEF Trigger, syncVars, Waiting
  <2>2. QED
    BY <1>15, <2>1 DEF Trigger, drive, IdleOpen, openVars, exitVars
<1>16. CASE CloseCall
  <2>1. Waiting' = Waiting /\ Once'
    BY <1>16 DEF CloseCall, syncVars, Waiting
  <2>2. QED
    BY <1>16, <2>1 DEF CloseCall, drive, IdleOpen, openVars, exitVars
<1>17. CASE ReduceCall
  <2>1. Waiting' = Waiting /\ Once'
    BY <1>17 DEF ReduceCall, syncVars, Waiting
  <2>2. QED
    BY <1>17, <2>1 DEF ReduceCall, drive, IdleOpen, openVars, exitVars
<1>18. CASE ExitLookupMiss
  <2>1. Waiting' = Waiting /\ Once'
    BY <1>18 DEF ExitLookupMiss, syncVars, Waiting
  <2>2. QED
    BY <1>18, <2>1 DEF ExitLookupMiss, drive, IdleOpen, openVars, exitVars
<1>19. CASE ExitReadFlat
  <2>1. queue' = Append(queue, "exit") /\ "exit" \in Requesters
    BY <1>19 DEF ExitReadFlat, Requesters, afterOrder
  <2>2. "exit" \notin Waiting
    BY <1>19 DEF ExitReadFlat
  <2>3. Once' /\ Waiting' = Waiting \cup {"exit"}
    BY <2>1, <2>2, Joins
  <2>4. Where'
    BY <1>19, <2>2, <2>3 DEF ExitReadFlat, openVars
  <2>5. QED
    BY <2>3, <2>4
<1>20. CASE ExitRead
  <2>1. Waiting' = Waiting /\ Once'
    BY <1>20 DEF ExitRead, syncVars, Waiting
  <2>2. QED
    BY <1>20, <2>1 DEF ExitRead, drive, IdleOpen, openVars, exitVars
<1>21. CASE ExitComplete
  <2>1. "exit" \notin Waiting /\ UNCHANGED opener
    BY <1>21 DEF ExitComplete, openVars
  <2>2. CASE afterOrder("exit") /\ xpc' = "after"
    <3>1. Once' /\ Waiting' = Waiting \cup {"exit"}
      BY <2>1, <2>2, Joins DEF afterOrder, Requesters
    <3>2. QED
      BY <2>1, <2>2, <3>1
  <2>3. CASE UNCHANGED <<queue, sync>> /\ xpc' = "residual"
    <3>1. Waiting' = Waiting /\ Once'
      BY <2>3 DEF Waiting
    <3>2. QED
      BY <2>1, <2>3, <3>1
  <2>4. QED
    BY <1>21, <2>2, <2>3 DEF ExitComplete
<1>22. CASE ExitResidual
  <2>1. queue' = Append(queue, "exit") /\ "exit" \in Requesters
    BY <1>22 DEF ExitResidual, Requesters, afterOrder
  <2>2. "exit" \notin Waiting
    BY <1>22 DEF ExitResidual
  <2>3. Once' /\ Waiting' = Waiting \cup {"exit"}
    BY <2>1, <2>2, Joins
  <2>4. Where'
    BY <1>22, <2>2, <2>3 DEF ExitResidual, openVars
  <2>5. QED
    BY <2>3, <2>4
<1>23. CASE RetryPending
  <2>1. Waiting' = Waiting /\ Once'
    BY <1>23 DEF RetryPending, syncVars, Waiting
  <2>2. QED
    BY <1>23, <2>1 DEF RetryPending, drive, IdleOpen, openVars, exitVars
<1>24. CASE ExitOutage
  <2>1. /\ xpc' = "none" /\ queue' = queue /\ "exit" \notin Waiting
        /\ opener' = opener \/ flipWaits
    BY <1>24 DEF ExitOutage, Settle, syncVars
  <2>2. Waiting' = Waiting /\ Once'
    BY <2>1 DEF Waiting
  <2>3. QED
    BY <2>1, <2>2
<1>25. CASE ExitRejected
  <2>1. queue' = Append(queue, "exit") /\ "exit" \in Requesters
    BY <1>25 DEF ExitRejected, Requesters, afterOrder
  <2>2. "exit" \notin Waiting
    BY <1>25 DEF ExitRejected
  <2>3. Once' /\ Waiting' = Waiting \cup {"exit"}
    BY <2>1, <2>2, Joins
  <2>4. Where'
    BY <1>25, <2>2, <2>3 DEF ExitRejected, openVars
  <2>5. QED
    BY <2>3, <2>4
<1>26. CASE ExitResidualFails
  <2>1. queue' = Append(queue, "exit") /\ "exit" \in Requesters
    BY <1>26 DEF ExitResidualFails, Requesters, afterOrder
  <2>2. "exit" \notin Waiting
    BY <1>26 DEF ExitResidualFails
  <2>3. Once' /\ Waiting' = Waiting \cup {"exit"}
    BY <2>1, <2>2, Joins
  <2>4. Where'
    BY <1>26, <2>2, <2>3 DEF ExitResidualFails, openVars
  <2>5. QED
    BY <2>3, <2>4
<1>27. CASE Restart
  <2>1. queue' = <<>>
    BY <1>27 DEF Restart
  <2>2. QED
    BY <2>1 DEF Waiting
<1>28. CASE UNCHANGED <<cache, failures, queue, sync, opener, opens, exits, job, xpc, xres, flipWaits, closer>>
  BY <1>28 DEF Waiting
<1>29. QED
  BY <1>1, <1>2, <1>3, <1>4, <1>5, <1>6, <1>7, <1>8, <1>9, <1>10, <1>11, <1>12, <1>13, <1>14, <1>15,
       <1>16, <1>17, <1>18, <1>19, <1>20, <1>21, <1>22, <1>23, <1>24, <1>25, <1>26, <1>27, <1>28,
       Writers DEF Waiting

(* A flip waits for its own exit. *)
LEMMA FlippingKept == Types /\ Chain /\ Flipping /\ Driven /\ Apart /\ [Next]_vars => Flipping'
<1> SUFFICES ASSUME Types, Chain, Flipping, Driven, Apart, [Next]_vars PROVE Flipping'
  OBVIOUS
<1> USE DEF Flipping
<1>1. CASE OpenRefused
  BY <1>1 DEF OpenRefused, exitVars, IdleOpen, Types, OpenTypes, Openers
<1>2. CASE OpenOrScaleIn
  BY <1>2 DEF OpenOrScaleIn, exitVars, IdleOpen, Types, OpenTypes, Openers
<1>3. CASE OpenFlip
  BY <1>3 DEF OpenFlip, enqueue, IdleOpen, Types, OpenTypes, Openers
<1>4. CASE EntrySend
  BY <1>4 DEF EntrySend, exitVars, IdleOpen, Types, OpenTypes, Openers
<1>5. CASE SyncFetch
  <2>1. PICK isOk \in BOOLEAN : Resume(Head(queue), isOk)
    BY <1>5, SyncEnds
  <2>2. queue # <<>> /\ Head(queue) \in Requesters
    BY <1>5, SyncEnds
  <2>3. CASE Head(queue) = "exit"
    BY <2>1, <2>3, Zenon DEF Resume, Settle
  <2>4. CASE Head(queue) \in {"open", "entry"}
    BY <2>1, <2>2, <2>4, HeadWaits DEF Resume
  <2>5. CASE Head(queue) = "loop"
    BY <2>1, <2>5 DEF Resume
  <2>6. QED
    BY <2>2, <2>3, <2>4, <2>5 DEF Requesters
<1>6. CASE SyncEvents
  <2>1. PICK isOk \in BOOLEAN : Resume(Head(queue), isOk)
    BY <1>6, SyncEnds
  <2>2. queue # <<>> /\ Head(queue) \in Requesters
    BY <1>6, SyncEnds
  <2>3. CASE Head(queue) = "exit"
    BY <2>1, <2>3, Zenon DEF Resume, Settle
  <2>4. CASE Head(queue) \in {"open", "entry"}
    BY <2>1, <2>2, <2>4, HeadWaits DEF Resume
  <2>5. CASE Head(queue) = "loop"
    BY <2>1, <2>5 DEF Resume
  <2>6. QED
    BY <2>2, <2>3, <2>4, <2>5 DEF Requesters
<1>7. CASE SyncFails
  <2>1. PICK isOk \in BOOLEAN : Resume(Head(queue), isOk)
    BY <1>7, SyncEnds
  <2>2. queue # <<>> /\ Head(queue) \in Requesters
    BY <1>7, SyncEnds
  <2>3. CASE Head(queue) = "exit"
    BY <2>1, <2>3, Zenon DEF Resume, Settle
  <2>4. CASE Head(queue) \in {"open", "entry"}
    BY <2>1, <2>2, <2>4, HeadWaits DEF Resume
  <2>5. CASE Head(queue) = "loop"
    BY <2>1, <2>5 DEF Resume
  <2>6. QED
    BY <2>2, <2>3, <2>4, <2>5 DEF Requesters
<1>8. CASE \E side \in Sides : OpenCall(side)
  BY <1>8 DEF OpenCall, exitVars, IdleOpen, Types, OpenTypes, Openers
<1>9. CASE EntryFilled
  BY <1>9 DEF EntryFilled, exitVars
<1>10. CASE EntryRejected
  BY <1>10 DEF EntryRejected, exitVars, IdleOpen, Types, OpenTypes, Openers
<1>11. CASE EntryUnconfirmed
  BY <1>11 DEF EntryUnconfirmed, exitVars
<1>12. CASE Trigger
  BY <1>12 DEF Trigger, openVars, NoJob, pendingOpen, enqueue
<1>13. CASE CloseCall
  BY <1>13 DEF CloseCall, openVars, NoJob, pendingOpen, enqueue
<1>14. CASE ReduceCall
  BY <1>14 DEF ReduceCall, openVars, NoJob, pendingOpen, enqueue
<1>15. CASE ExitLookupMiss
  BY <1>15 DEF ExitLookupMiss, openVars, NoJob
<1>16. CASE ExitReadFlat
  BY <1>16 DEF ExitReadFlat, openVars, NoJob
<1>17. CASE ExitRead
  BY <1>17 DEF ExitRead, openVars, NoJob, Types, ExitTypes, Jobs
<1>18. CASE ExitComplete
  BY <1>18 DEF ExitComplete, openVars, NoJob
<1>19. CASE ExitResidual
  BY <1>19 DEF ExitResidual, openVars, NoJob
<1>20. CASE RetryPending
  BY <1>20 DEF RetryPending, openVars, NoJob
<1>21. CASE ExitOutage
  BY <1>21, Zenon DEF ExitOutage, Settle
<1>22. CASE ExitRejected
  BY <1>22 DEF ExitRejected, openVars, NoJob
<1>23. CASE ExitResidualFails
  BY <1>23 DEF ExitResidualFails, openVars, NoJob
<1>24. CASE Restart
  BY <1>24 DEF Restart
<1>25. CASE UNCHANGED <<opener, opens, exits, job, xpc, xres, flipWaits, closer>>
  BY <1>25
<1>26. QED
  BY <1>1, <1>2, <1>3, <1>4, <1>5, <1>6, <1>7, <1>8, <1>9, <1>10, <1>11, <1>12, <1>13, <1>14, <1>15,
       <1>16, <1>17, <1>18, <1>19, <1>20, <1>21, <1>22, <1>23, <1>24, <1>25, Writers

(* The driver works on a job until it drops it. *)
LEMMA DrivenKept == Types /\ Chain /\ Flipping /\ Driven /\ Apart /\ [Next]_vars => Driven'
<1> SUFFICES ASSUME Types, Chain, Flipping, Driven, Apart, [Next]_vars PROVE Driven'
  OBVIOUS
<1> USE DEF Driven
<1>1. CASE OpenFlip
  BY <1>1 DEF OpenFlip, enqueue, drive, isActive, NoJob, Types, ExitTypes, Jobs
<1>2. CASE SyncFetch
  <2>1. PICK isOk \in BOOLEAN : Resume(Head(queue), isOk)
    BY <1>2, SyncEnds
  <2>2. Head(queue) \in Requesters
    BY <1>2, SyncEnds
  <2>3. CASE Head(queue) = "exit"
    <3>1. PICK j \in {job, NoJob} : Settle(xres, j)
      BY <2>1, <2>3 DEF Resume
    <3>2. QED
      BY <3>1, SettleDriven
  <2>4. CASE Head(queue) # "exit"
    BY <2>1, <2>2, <2>4 DEF Resume, Requesters
  <2>5. QED
    BY <2>3, <2>4
<1>3. CASE SyncEvents
  <2>1. PICK isOk \in BOOLEAN : Resume(Head(queue), isOk)
    BY <1>3, SyncEnds
  <2>2. Head(queue) \in Requesters
    BY <1>3, SyncEnds
  <2>3. CASE Head(queue) = "exit"
    <3>1. PICK j \in {job, NoJob} : Settle(xres, j)
      BY <2>1, <2>3 DEF Resume
    <3>2. QED
      BY <3>1, SettleDriven
  <2>4. CASE Head(queue) # "exit"
    BY <2>1, <2>2, <2>4 DEF Resume, Requesters
  <2>5. QED
    BY <2>3, <2>4
<1>4. CASE SyncFails
  <2>1. PICK isOk \in BOOLEAN : Resume(Head(queue), isOk)
    BY <1>4, SyncEnds
  <2>2. Head(queue) \in Requesters
    BY <1>4, SyncEnds
  <2>3. CASE Head(queue) = "exit"
    <3>1. PICK j \in {job, NoJob} : Settle(xres, j)
      BY <2>1, <2>3 DEF Resume
    <3>2. QED
      BY <3>1, SettleDriven
  <2>4. CASE Head(queue) # "exit"
    BY <2>1, <2>2, <2>4 DEF Resume, Requesters
  <2>5. QED
    BY <2>3, <2>4
<1>5. CASE Trigger
  BY <1>5 DEF Trigger, openVars, NoJob, pendingOpen, enqueue, drive, isActive, NoJob, Types,
       ExitTypes, Jobs
<1>6. CASE CloseCall
  BY <1>6 DEF CloseCall, openVars, NoJob, pendingOpen, enqueue, drive, isActive, NoJob, Types,
       ExitTypes, Jobs
<1>7. CASE ReduceCall
  BY <1>7 DEF ReduceCall, openVars, NoJob, pendingOpen, enqueue, drive, isActive, NoJob, Types,
       ExitTypes, Jobs
<1>8. CASE ExitLookupMiss
  BY <1>8 DEF ExitLookupMiss, openVars, NoJob, Types, ExitTypes, Jobs
<1>9. CASE ExitReadFlat
  BY <1>9 DEF ExitReadFlat, openVars, NoJob, Types, ExitTypes, Jobs
<1>10. CASE ExitRead
  BY <1>10 DEF ExitRead, openVars, NoJob, Types, ExitTypes, Jobs
<1>11. CASE ExitComplete
  BY <1>11 DEF ExitComplete, openVars, NoJob, Types, ExitTypes, Jobs
<1>12. CASE ExitResidual
  BY <1>12 DEF ExitResidual, openVars, NoJob, Types, ExitTypes, Jobs
<1>13. CASE RetryPending
  BY <1>13 DEF RetryPending, openVars, NoJob, drive, isActive, NoJob, Types, ExitTypes, Jobs
<1>14. CASE ExitOutage
  <2>1. Settle("outage", job)
    BY <1>14 DEF ExitOutage
  <2>2. QED
    BY <2>1, SettleDriven
<1>15. CASE ExitRejected
  BY <1>15 DEF ExitRejected, openVars, NoJob, Types, ExitTypes, Jobs
<1>16. CASE ExitResidualFails
  BY <1>16 DEF ExitResidualFails, openVars, NoJob, Types, ExitTypes, Jobs
<1>17. CASE Restart
  BY <1>17 DEF Restart
<1>18. CASE UNCHANGED <<exits, job, xpc, xres, flipWaits, closer>>
  BY <1>18
<1>19. QED
  BY <1>1, <1>2, <1>3, <1>4, <1>5, <1>6, <1>7, <1>8, <1>9, <1>10, <1>11, <1>12, <1>13, <1>14, <1>15,
       <1>16, <1>17, <1>18, Writers

(* Once an open decided, the only exit that may be queued is its flip's. *)
LEMMA ApartKept == Types /\ Chain /\ Flipping /\ Driven /\ Apart /\ [Next]_vars => Apart'
<1> SUFFICES ASSUME Types, Chain, Flipping, Driven, Apart, [Next]_vars PROVE Apart'
  OBVIOUS
<1> USE DEF Apart
<1>1. CASE OpenRefused
  BY <1>1 DEF OpenRefused, exitVars, IdleOpen, Types, OpenTypes, Openers
<1>2. CASE OpenOrScaleIn
  BY <1>2 DEF OpenOrScaleIn, exitVars, IdleOpen, Types, OpenTypes, Openers, isActive, NoJob
<1>3. CASE OpenFlip
  BY <1>3 DEF OpenFlip, enqueue, IdleOpen, Types, OpenTypes, Openers
<1>4. CASE EntrySend
  BY <1>4 DEF EntrySend, exitVars, IdleOpen, Types, OpenTypes, Openers
<1>5. CASE SyncFetch
  <2>1. PICK isOk \in BOOLEAN : Resume(Head(queue), isOk)
    BY <1>5, SyncEnds
  <2>2. queue # <<>> /\ Head(queue) \in Requesters
    BY <1>5, SyncEnds
  <2>3. CASE Head(queue) = "exit"
    <3>1. PICK j \in {job, NoJob} : Settle(xres, j)
      BY <2>1, <2>3 DEF Resume
    <3>2. QED
      BY <3>1, SettleApart
  <2>4. CASE Head(queue) \in {"open", "entry"}
    <3>1. opener' = IdleOpen \/ opener' = [opener EXCEPT !.pc = "decide"]
      BY <2>1, <2>4 DEF Resume
    <3>2. opener \in Openers
      BY DEF Types, OpenTypes
    <3>3. QED
      BY <3>1, <3>2 DEF IdleOpen, Openers
  <2>5. CASE Head(queue) = "loop"
    BY <2>1, <2>5 DEF Resume
  <2>6. QED
    BY <2>2, <2>3, <2>4, <2>5 DEF Requesters
<1>6. CASE SyncEvents
  <2>1. PICK isOk \in BOOLEAN : Resume(Head(queue), isOk)
    BY <1>6, SyncEnds
  <2>2. queue # <<>> /\ Head(queue) \in Requesters
    BY <1>6, SyncEnds
  <2>3. CASE Head(queue) = "exit"
    <3>1. PICK j \in {job, NoJob} : Settle(xres, j)
      BY <2>1, <2>3 DEF Resume
    <3>2. QED
      BY <3>1, SettleApart
  <2>4. CASE Head(queue) \in {"open", "entry"}
    <3>1. opener' = IdleOpen \/ opener' = [opener EXCEPT !.pc = "decide"]
      BY <2>1, <2>4 DEF Resume
    <3>2. opener \in Openers
      BY DEF Types, OpenTypes
    <3>3. QED
      BY <3>1, <3>2 DEF IdleOpen, Openers
  <2>5. CASE Head(queue) = "loop"
    BY <2>1, <2>5 DEF Resume
  <2>6. QED
    BY <2>2, <2>3, <2>4, <2>5 DEF Requesters
<1>7. CASE SyncFails
  <2>1. PICK isOk \in BOOLEAN : Resume(Head(queue), isOk)
    BY <1>7, SyncEnds
  <2>2. queue # <<>> /\ Head(queue) \in Requesters
    BY <1>7, SyncEnds
  <2>3. CASE Head(queue) = "exit"
    <3>1. PICK j \in {job, NoJob} : Settle(xres, j)
      BY <2>1, <2>3 DEF Resume
    <3>2. QED
      BY <3>1, SettleApart
  <2>4. CASE Head(queue) \in {"open", "entry"}
    <3>1. opener' = IdleOpen \/ opener' = [opener EXCEPT !.pc = "decide"]
      BY <2>1, <2>4 DEF Resume
    <3>2. opener \in Openers
      BY DEF Types, OpenTypes
    <3>3. QED
      BY <3>1, <3>2 DEF IdleOpen, Openers
  <2>5. CASE Head(queue) = "loop"
    BY <2>1, <2>5 DEF Resume
  <2>6. QED
    BY <2>2, <2>3, <2>4, <2>5 DEF Requesters
<1>8. CASE \E side \in Sides : OpenCall(side)
  BY <1>8 DEF OpenCall, exitVars, IdleOpen, Types, OpenTypes, Openers
<1>9. CASE EntryFilled
  BY <1>9 DEF EntryFilled, exitVars
<1>10. CASE EntryRejected
  BY <1>10 DEF EntryRejected, exitVars, IdleOpen, Types, OpenTypes, Openers
<1>11. CASE EntryUnconfirmed
  BY <1>11 DEF EntryUnconfirmed, exitVars
<1>12. CASE Trigger
  BY <1>12 DEF Trigger, openVars, NoJob, pendingOpen, enqueue
<1>13. CASE CloseCall
  BY <1>13 DEF CloseCall, openVars, NoJob, pendingOpen, enqueue
<1>14. CASE ReduceCall
  BY <1>14 DEF ReduceCall, openVars, NoJob, pendingOpen, enqueue
<1>15. CASE ExitLookupMiss
  BY <1>15 DEF ExitLookupMiss, openVars, NoJob
<1>16. CASE ExitReadFlat
  BY <1>16 DEF ExitReadFlat, openVars, NoJob
<1>17. CASE ExitRead
  BY <1>17 DEF ExitRead, openVars, NoJob, Types, ExitTypes, Jobs
<1>18. CASE ExitComplete
  BY <1>18 DEF ExitComplete, openVars, NoJob
<1>19. CASE ExitResidual
  BY <1>19 DEF ExitResidual, openVars, NoJob
<1>20. CASE RetryPending
  BY <1>20 DEF RetryPending, openVars, NoJob
<1>21. CASE ExitOutage
  <2>1. Settle("outage", job)
    BY <1>21 DEF ExitOutage
  <2>2. QED
    BY <2>1, SettleApart
<1>22. CASE ExitRejected
  BY <1>22 DEF ExitRejected, openVars, NoJob
<1>23. CASE ExitResidualFails
  BY <1>23 DEF ExitResidualFails, openVars, NoJob
<1>24. CASE Restart
  BY <1>24 DEF Restart, IdleOpen, NoJob
<1>25. CASE UNCHANGED <<opener, opens, exits, job, xpc, xres, flipWaits, closer>>
  BY <1>25
<1>26. QED
  BY <1>1, <1>2, <1>3, <1>4, <1>5, <1>6, <1>7, <1>8, <1>9, <1>10, <1>11, <1>12, <1>13, <1>14, <1>15,
       <1>16, <1>17, <1>18, <1>19, <1>20, <1>21, <1>22, <1>23, <1>24, <1>25, Writers

(* No order, no call and no driver is there at the start. *)
LEMMA InitInv == Init => BrokerInv
<1> SUFFICES ASSUME Init PROVE BrokerInv
  OBVIOUS
<1>1. world \in Worlds
  BY DEF Init
<1>2. ExchangeTypes
  BY <1>1, Constants DEF Init, ExchangeTypes
<1>3. SyncTypes
  BY <1>1, Constants DEF Init, SyncTypes, IdleSync
<1>4. OpenTypes
  BY <1>1, Constants DEF Init, OpenTypes, IdleOpen
<1>5. StoreTypes
  BY <1>1, Constants DEF Init, StoreTypes
<1>6. CountTypes
  <2>1. MaxExits \in Nat
    BY <1>1, Constants
  <2>2. exits = 0 /\ opens = 0 /\ opener.pc = "idle"
    BY DEF Init, IdleOpen
  <2>3. QED
    BY <2>1, <2>2 DEF CountTypes
<1>7. ExitTypes
  <2>1. flipWaits \in BOOLEAN
    BY Zenon DEF Init
  <2>2. job \in Jobs
    BY <1>1, Constants DEF Init
  <2>3. QED
    BY <2>1, <2>2 DEF Init, ExitTypes
<1>8. Chain
  BY DEF Init, Chain, Once, Where, Waiting
<1>9. Flipping
  BY Zenon DEF Init, Flipping
<1>10. Driven /\ Apart
  BY DEF Init, Driven, Apart, IdleOpen
<1>11. QED
  BY <1>1, <1>2, <1>3, <1>4, <1>5, <1>6, <1>7, <1>8, <1>9, <1>10 DEF BrokerInv, Types

(* Every call, sync, driver step, fill and restart keeps the invariant. *)
LEMMA StepInv == BrokerInv /\ [Next]_vars => BrokerInv'
<1> SUFFICES ASSUME BrokerInv, [Next]_vars PROVE BrokerInv'
  OBVIOUS
<1>1. Types /\ Chain /\ Flipping /\ Driven /\ Apart
  BY DEF BrokerInv
<1>2. (world \in Worlds)'
  BY <1>1, Writers DEF Types
<1>3. ExchangeTypes' /\ SyncTypes' /\ OpenTypes' /\ StoreTypes' /\ CountTypes' /\ ExitTypes'
  BY <1>1, ExchangeKept, SyncKept, OpenKept, StoreKept, CountKept, ExitKept
<1>4. Chain' /\ Flipping' /\ Driven' /\ Apart'
  BY <1>1, ChainKept, FlippingKept, DrivenKept, ApartKept
<1>5. QED
  BY <1>2, <1>3, <1>4 DEF BrokerInv, Types

(* The invariant of the broker, its exits, its reconciler and its store. *)
THEOREM BrokerInvariant == Spec => []BrokerInv
<1>1. QED
  BY InitInv, StepInv, PTL DEF Spec

(* RemoteBroker keeps the shape of its state in every world: beside the    *)
(* bounded exit jobs there is never more than one per open, its flip's.    *)
THEOREM TypeCorrect == Spec => []TypeOK
<1>1. BrokerInv => TypeOK
  <2> SUFFICES ASSUME BrokerInv PROVE TypeOK
    OBVIOUS
  <2>1. Types
    BY DEF BrokerInv
  <2>2. /\ world \in Worlds /\ venue \in Snapshots /\ eps \in Seq([size : Nat, own : BOOLEAN])
    BY <2>1 DEF Types, ExchangeTypes
  <2>3. /\ cache \in Snapshots /\ failures \in 0 .. DownAfter /\ queue \in Seq(Requesters)
        /\ sync \in [pc : {"idle", "fetch", "events"}, snap : Snapshots, stale : BOOLEAN]
    BY <2>1 DEF Types, SyncTypes, Syncs
  <2>4. opener.pc \in {"idle", "sync", "decide", "flip", "enter", "sent", "after"}
    BY <2>1 DEF Types, OpenTypes, Openers
  <2>5. /\ expected \in Sides \cup {"none"} /\ journal \in [0 .. MaxEp -> Nat]
        /\ meta \in [owner : {"none", "strategy", "external"}, seen : Snapshots]
    BY <2>1 DEF Types, StoreTypes, Metas
  <2>6. ExitTypes
    BY <2>1 DEF Types
  <2>7. QED
    BY <2>2, <2>3, <2>4, <2>5, <2>6 DEF TypeOK, ExitTypes, Jobs
<1>2. QED
  BY <1>1, BrokerInvariant, PTL

(* The first half of NoOrdersTogether, for every world: whatever answers   *)
(* are lost, late or out of order, and whoever else trades, an entry and   *)
(* an exit of the symbol are on their way together only when that exit is  *)
(* the one a flip queued (remoteBroker.ts, pendingOpens and isActive).     *)
THEOREM OrdersMeetOnlyInFlips == Spec => []OnlyFlipMeets
<1>1. BrokerInv => OnlyFlipMeets
  BY DEF BrokerInv, Types, ExitTypes, Jobs, Apart, Driven, OnlyFlipMeets, OrdersApart
<1>2. QED
  BY <1>1, BrokerInvariant, PTL

----------------------------------------------------------------------------
(* Calm and one-sided worlds: exits and entries apart, nothing booked twice *)

(* The worlds the rest of the module is about: nobody else trades, the     *)
(* exchange closes nothing and executes nothing late, syncs succeed, and   *)
(* answers are lost only where the agent never flips.                      *)
Tame == world.kinds \subseteq {"crash", "lost", "ttl"} /\ (May("lost") => OneSided)

\* The entry on its way, and the order of the exit job, have executed.
EntryDone == opener.pc = "sent" /\ isFilled(EntryId)
Entering == EntryDone \/ opener.pc = "after"
ExitDone == job # NoJob /\ isFilled(ExitId)
\* The driver has journaled the fill of its job; before that it is pending.
Finished == xpc \in {"residual", "after"}
Pending == ExitDone /\ ~Finished

\* Where the agent opens on one side, every position is on it and none flips.
Sided ==
  OneSided =>
    /\ venue # Flat => venue.side \in world.sides
    /\ cache # Flat => cache.side \in world.sides
    /\ opener.pc # "idle" => opener.side \in world.sides
    /\ job.reason # "FLIP" /\ opener.pc # "flip"

\* From the decision of an open until its refresh there is no exit job.
Alone == opener.pc \in {"enter", "sent", "after"} => job = NoJob

\* A driver that ended its job has its refresh queued, before an entry's.
Turns ==
  /\ xpc \in {"after", "dropped"} => "exit" \in Waiting
  /\ \A i, j \in 1 .. Len(queue) : queue[i] = "entry" /\ queue[j] = "exit" => j < i

\* The refresh after an order is never discarded, and a snapshot without the
\* position is applied only while there is none or an entry just executed.
Epoch ==
  /\ sync.snap = Flat /\ (sync.stale => sync.pc # "idle")
  /\ xpc = "after" /\ sync.stale => Head(queue) # "exit"
  /\ opener.pc = "after" /\ sync.stale => Head(queue) # "entry"
  /\ sync.pc = "events" /\ ~sync.stale => venue = Flat \/ EntryDone

\* Client order ids are used once.
Numbered ==
  /\ \A o \in transit \cup filled : o.id[2] <= (IF o.id[1] = "exit" THEN exits ELSE opens)
  /\ \A f, g \in filled : f.id = g.id => f = g
  /\ \A f \in filled, o \in transit : f.id # o.id
  /\ job # NoJob => job.id \in 1 .. exits
  /\ opener.pc # "idle" => opener.id = opens
  /\ job # NoJob /\ job.sent = Flat => ~isFilled(ExitId) /\ ~InTransit(ExitId)
  /\ opener.pc \in {"sync", "decide", "flip", "enter"} => ~isFilled(EntryId) /\ ~InTransit(EntryId)

\* What the orders of the open and of the exit job ask for.
Asked ==
  /\ opener.pc = "sent" =>
       \A o \in transit : o.id = EntryId => o.side = opener.side /\ ~o.reduceOnly
  /\ job # NoJob =>
       \A o \in transit : o.id = ExitId =>
         /\ o.reduceOnly /\ venue # Flat /\ o.side # venue.side
         /\ o.qty = IF job.qty = 0 THEN venue.qty ELSE job.qty

\* The exit job: a full exit leaves nothing, a partial one leaves a remainder.
JobShape ==
  /\ job # NoJob => (job.reason = "PARTIAL TP" <=> job.qty # 0)
  /\ xpc = "read" => ~isFilled(ExitId)
  /\ xpc \in {"lookup", "send"} => job.sent # Flat
  /\ job # NoJob /\ job.sent # Flat /\ ~isFilled(ExitId) =>
       venue # Flat /\ job.sent.ep = venue.ep /\ job.sent.side = venue.side
  /\ job # NoJob /\ ~isFilled(ExitId) /\ venue # Flat =>
       cache = venue /\ (job.qty # 0 => job.qty < venue.qty)
  /\ xpc = "residual" => job.qty = 0
JobEnd ==
  /\ ExitDone =>
       /\ job.sent.side \in Sides /\ job.sent.ep \in 1 .. Len(eps)
       /\ job.qty = 0 => venue = Flat
       /\ job.qty # 0 => venue # Flat /\ venue.ep = job.sent.ep
  /\ Finished => ExitDone /\ (job.qty = 0 => meta = NoMeta)

\* The cache is the position unless an order just changed it, its exit's
\* answer was lost, or the process just started.
View ==
  /\ cache # Flat => cache = venue \/ (May("lost") /\ venue = Flat) \/ Entering \/ ExitDone
  /\ cache = Flat /\ venue # Flat =>
       \/ Entering
       \/ opener.pc \in {"idle", "sync"} /\ job = NoJob /\ xpc = "none" /\ ~sync.stale
  /\ cache # Flat /\ meta # NoMeta /\ opener.pc # "after" => meta.seen = cache

\* An entry never runs against the position.
Onward ==
  /\ opener.pc = "enter" \/ (opener.pc = "sent" /\ ~isFilled(EntryId)) =>
       venue = Flat \/ venue.side = opener.side
  /\ EntryDone => venue # Flat /\ venue.side = opener.side /\ FillOf(EntryId).ep = venue.ep

\* A driver that found nothing to close leaves nothing to flip.
Dropped ==
  /\ flipWaits /\ xpc = "dropped" /\ xres = "ok" => job = NoJob
  /\ ~May("lost") /\ xpc = "dropped" /\ xres = "ok" => Entering \/ (venue = Flat /\ cache = Flat)

\* What is journaled, what is held and what the driver has still to journal.
Held(e) == IF venue.ep = e THEN venue.qty ELSE 0
Due(e) == IF Pending /\ job.sent.ep = e THEN FillOf(ExitId).qty ELSE 0
Booked ==
  /\ \A e \in 1 .. Len(eps) : journal[e] + Held(e) + Due(e) <= eps[e].size
  /\ \A e \in 0 .. MaxEp : e > Len(eps) => journal[e] = 0

\* A snapshot that may still be booked is of the position, or is not booked yet.
Owed(s) ==
  s # Flat =>
    /\ s.ep \in 1 .. Len(eps) /\ s.side \in Sides
    /\ s.ep = venue.ep => s.side = venue.side
    /\ s.ep # venue.ep => journal[s.ep] + s.qty <= eps[s.ep].size
Claims ==
  /\ meta # NoMeta => Owed(meta.seen)
  /\ Owed(cache) \/ (Finished /\ job.qty = 0)

TameInv ==
  /\ Sided /\ Alone /\ Turns /\ Epoch /\ Numbered /\ Asked /\ JobShape /\ JobEnd
  /\ View /\ Onward /\ Dropped /\ Booked /\ Claims


(* The shapes the steps below rely on, and the empty values.               *)
LEMMA Shapes ==
  ASSUME BrokerInv
  PROVE  /\ world \in Worlds /\ venue \in Snapshots /\ cache \in Snapshots
         /\ meta \in Metas /\ meta.seen \in Snapshots /\ job \in Jobs /\ opener \in Openers
         /\ sync \in Syncs /\ queue \in Seq(Requesters) /\ Len(queue) \in Nat
         /\ journal \in [0 .. MaxEp -> Nat] /\ MaxEp \in Nat
         /\ eps \in Seq([size : Nat, own : BOOLEAN]) /\ Len(eps) \in Nat /\ Len(eps) <= MaxEp
         /\ exits \in Nat /\ opens \in Nat /\ EntryQty \in Nat \ {0}
         /\ transit \subseteq Orders /\ filled \subseteq Fills
         /\ venue # Flat => venue.side \in Sides /\ venue.ep \in 1 .. Len(eps)
         /\ sync.pc # "idle" => queue # <<>>
         /\ sync.snap \in Snapshots /\ job.sent \in Snapshots
         /\ Flat.side = "FLAT" /\ Flat.qty = 0 /\ Flat.ep = 0 /\ "FLAT" \notin Sides
         /\ NoJob.reason = "none" /\ NoJob.sent = Flat /\ NoJob.id = 0 /\ NoJob.qty = 0
         /\ IdleOpen.pc = "idle" /\ IdleSync.pc = "idle" /\ IdleSync.snap = Flat /\ ~IdleSync.stale
<1>1. Types
  BY DEF BrokerInv
<1>2. /\ world \in Worlds /\ venue \in Snapshots /\ cache \in Snapshots /\ meta \in Metas
      /\ job \in Jobs /\ opener \in Openers /\ sync \in Syncs /\ queue \in Seq(Requesters)
      /\ journal \in [0 .. MaxEp -> Nat] /\ eps \in Seq([size : Nat, own : BOOLEAN])
      /\ exits \in Nat /\ opens \in 0 .. MaxOpens /\ transit \subseteq Orders /\ filled \subseteq Fills
      /\ venue # Flat => venue.side \in Sides /\ venue.ep \in 1 .. Len(eps)
      /\ sync.pc # "idle" => queue # <<>>
      /\ Len(eps) <= world.episodes
  BY <1>1 DEF Types, ExchangeTypes, SyncTypes, OpenTypes, StoreTypes, CountTypes, ExitTypes
<1>3. EntryQty \in Nat \ {0} /\ MaxEp \in Nat /\ world.episodes \in 0 .. MaxEp /\ MaxOpens \in Nat
  BY <1>2, Constants
<1>4. meta.seen \in Snapshots /\ sync.snap \in Snapshots /\ job.sent \in Snapshots
  BY <1>2 DEF Metas, Syncs, Jobs
<1>5. Len(eps) \in Nat /\ Len(eps) <= MaxEp /\ Len(queue) \in Nat /\ opens \in Nat
  BY <1>2, <1>3
<1>6. /\ Flat.side = "FLAT" /\ Flat.qty = 0 /\ Flat.ep = 0 /\ "FLAT" \notin Sides
      /\ NoJob.reason = "none" /\ NoJob.sent = Flat /\ NoJob.id = 0 /\ NoJob.qty = 0
      /\ IdleOpen.pc = "idle" /\ IdleSync.pc = "idle" /\ IdleSync.snap = Flat /\ ~IdleSync.stale
  BY DEF Flat, Sides, NoJob, IdleOpen, IdleSync
<1>7. QED
  BY <1>2, <1>3, <1>4, <1>5, <1>6

(* What joins the chain stands at its end.                                 *)
LEMMA Appended ==
  ASSUME BrokerInv, NEW who \in Requesters, queue' = Append(queue, who)
  PROVE  /\ Waiting' = Waiting \cup {who}
         /\ queue # <<>> => Head(queue') = Head(queue) /\ Head(queue) \in Waiting
         /\ Len(queue') = Len(queue) + 1 /\ queue'[Len(queue) + 1] = who
         /\ \A i \in 1 .. Len(queue) : queue'[i] = queue[i] /\ queue[i] \in Waiting
<1>1. queue \in Seq(Requesters) /\ Len(queue) \in Nat
  BY Shapes
<1>2. /\ Len(queue') = Len(queue) + 1 /\ queue'[Len(queue) + 1] = who
      /\ \A i \in 1 .. Len(queue) : queue'[i] = queue[i]
  BY <1>1
<1>3. Waiting' = Waiting \cup {who} /\ \A i \in 1 .. Len(queue) : queue[i] \in Waiting
  BY <1>1, <1>2 DEF Waiting
<1>4. queue # <<>> => Head(queue') = Head(queue) /\ Head(queue) = queue[1] /\ 1 \in 1 .. Len(queue)
  BY <1>1, <1>2
<1>5. QED
  BY <1>2, <1>3, <1>4

(* Joining the chain keeps an exit's refresh before an entry's.            *)
LEMMA TurnsJoin ==
  ASSUME BrokerInv, Turns, NEW who \in Requesters, queue' = Append(queue, who),
         xpc' \in {"after", "dropped"} => who = "exit" \/ "exit" \in Waiting,
         who = "exit" => "entry" \notin Waiting
  PROVE  Turns'
<1>1. /\ Waiting' = Waiting \cup {who} /\ Len(queue) \in Nat
      /\ Len(queue') = Len(queue) + 1 /\ queue'[Len(queue) + 1] = who
      /\ \A i \in 1 .. Len(queue) : queue'[i] = queue[i] /\ queue[i] \in Waiting
  BY Appended, Shapes
<1>2. ASSUME NEW i \in 1 .. Len(queue'), NEW j \in 1 .. Len(queue'), queue'[i] = "entry", queue'[j] = "exit"
      PROVE  j < i
  <2>1. CASE i \in 1 .. Len(queue) /\ j \in 1 .. Len(queue)
    BY <1>1, <1>2, <2>1 DEF Turns
  <2>2. CASE i = Len(queue) + 1
    BY <1>1, <1>2, <2>2
  <2>3. CASE i \in 1 .. Len(queue) /\ j = Len(queue) + 1
    BY <1>1, <1>2, <2>3
  <2>4. QED
    BY <1>1, <1>2, <2>1, <2>2, <2>3
<1>3. QED
  BY <1>1, <1>2 DEF Turns

(* An order that settles discards the running sync and queues a fresh one. *)
LEMMA Discards ==
  ASSUME BrokerInv, NEW who \in Requesters, afterOrder(who), who \notin Waiting, sync.snap = Flat
  PROVE  /\ queue' = Append(queue, who) /\ Waiting' = Waiting \cup {who}
         /\ sync'.snap = Flat /\ sync'.pc = sync.pc /\ (sync'.stale <=> sync.pc # "idle")
         /\ sync'.stale => Head(queue') # who /\ Head(queue') = Head(queue)
<1>1. /\ queue' = Append(queue, who) /\ sync' = [sync EXCEPT !.stale = sync.pc # "idle"]
  BY DEF afterOrder
<1>2. /\ Waiting' = Waiting \cup {who}
      /\ queue # <<>> => Head(queue') = Head(queue) /\ Head(queue) \in Waiting
  BY <1>1, Appended
<1>3. sync'.snap = Flat /\ sync'.pc = sync.pc /\ (sync'.stale <=> sync.pc # "idle")
  BY <1>1, Shapes DEF Syncs
<1>4. sync.pc # "idle" => queue # <<>>
  BY Shapes
<1>5. QED
  BY <1>1, <1>2, <1>3, <1>4


(* What is counted of an episode is a number.                              *)
LEMMA Sizes ==
  ASSUME BrokerInv, NEW e \in 1 .. Len(eps)
  PROVE  /\ e \in 0 .. MaxEp /\ journal[e] \in Nat /\ Held(e) \in Nat /\ Due(e) \in Nat
         /\ eps[e].size \in Nat
<1>1. Len(eps) \in Nat /\ Len(eps) <= MaxEp /\ MaxEp \in Nat
  BY Shapes
<1>2. e \in 0 .. MaxEp
  BY <1>1
<1>3. journal \in [0 .. MaxEp -> Nat] /\ venue \in Snapshots /\ eps \in Seq([size : Nat, own : BOOLEAN])
  BY Shapes
<1>4. journal[e] \in Nat /\ venue.qty \in Nat
  BY <1>2, <1>3 DEF Snapshots
<1>5. eps[e] \in [size : Nat, own : BOOLEAN]
  <2>1. ASSUME NEW S, NEW s \in Seq(S), NEW i \in 1 .. Len(s) PROVE s[i] \in S
    OBVIOUS
  <2>2. QED
    BY <1>3, <2>1
<1>6. Pending => FillOf(ExitId).qty \in Nat
  BY Shapes DEF Pending, ExitDone, isFilled, FillOf, Fills
<1>7. Held(e) \in Nat /\ Due(e) \in Nat
  BY <1>4, <1>6 DEF Held, Due
<1>8. QED
  BY <1>2, <1>4, <1>5, <1>7

(* Sided survives a step that leaves what it speaks of alone. *)
LEMMA SidedFrame == ASSUME Sided, UNCHANGED <<world, venue, cache, opener, job>> PROVE Sided'
  BY DEF Sided, OneSided

(* Alone survives a step that leaves what it speaks of alone. *)
LEMMA AloneFrame == ASSUME Alone, UNCHANGED <<opener, job>> PROVE Alone'
  BY DEF Alone

(* Turns survives a step that leaves what it speaks of alone. *)
LEMMA TurnsFrame == ASSUME Turns, UNCHANGED <<xpc, queue>> PROVE Turns'
  BY DEF Turns, Waiting

(* Epoch survives a step that leaves what it speaks of alone. *)
LEMMA EpochFrame == ASSUME Epoch, UNCHANGED <<sync, xpc, queue, opener, venue, filled>> PROVE Epoch'
  BY DEF Epoch, EntryDone, isFilled, EntryId

(* Numbered survives a step that leaves what it speaks of alone. *)
LEMMA NumberedFrame == ASSUME Numbered, UNCHANGED <<transit, filled, exits, opens, job, opener>> PROVE Numbered'
  BY DEF Numbered, isFilled, InTransit, ExitId, EntryId

(* Asked survives a step that leaves what it speaks of alone. *)
LEMMA AskedFrame == ASSUME Asked, UNCHANGED <<opener, transit, job, venue>> PROVE Asked'
  BY DEF Asked, EntryId, ExitId

(* JobShape survives a step that leaves what it speaks of alone. *)
LEMMA JobShapeFrame == ASSUME JobShape, UNCHANGED <<job, xpc, filled, venue, cache>> PROVE JobShape'
  BY DEF JobShape, isFilled, ExitId

(* JobEnd survives a step that leaves what it speaks of alone. *)
LEMMA JobEndFrame == ASSUME JobEnd, UNCHANGED <<job, xpc, filled, venue, eps, meta>> PROVE JobEnd'
  BY DEF JobEnd, ExitDone, Finished, isFilled, ExitId

(* View survives a step that leaves what it speaks of alone. *)
LEMMA ViewFrame == ASSUME View, UNCHANGED <<world, cache, venue, opener, filled, job, sync, xpc, meta>> PROVE View'
  BY DEF View, May, Entering, EntryDone, ExitDone, isFilled, ExitId, EntryId

(* Onward survives a step that leaves what it speaks of alone. *)
LEMMA OnwardFrame == ASSUME Onward, UNCHANGED <<venue, opener, filled>> PROVE Onward'
  BY DEF Onward, EntryDone, isFilled, EntryId, FillOf

(* Dropped survives a step that leaves what it speaks of alone. *)
LEMMA DroppedFrame == ASSUME Dropped, UNCHANGED <<world, flipWaits, xpc, xres, job, cache, venue, opener, filled>> PROVE Dropped'
  BY DEF Dropped, May, Entering, EntryDone, isFilled, EntryId

(* Booked survives a step that leaves what it speaks of alone. *)
LEMMA BookedFrame == ASSUME Booked, UNCHANGED <<journal, venue, eps, job, filled, xpc>> PROVE Booked'
  BY DEF Booked, Held, Due, Pending, ExitDone, Finished, isFilled, ExitId, FillOf

(* Claims survives a step that leaves what it speaks of alone. *)
LEMMA ClaimsFrame == ASSUME Claims, UNCHANGED <<meta, cache, venue, eps, journal, xpc, job>> PROVE Claims'
  BY DEF Claims, Owed, Finished

(* The next sync of the chain starts. *)
LEMMA SyncStartTame ==
  ASSUME BrokerInv, TameInv, Tame, SyncStart PROVE TameInv'
<1>1. UNCHANGED <<world, venue, eps, transit, filled, cache, failures, queue, opener, opens, expected,
  meta, journal, exits, job, xpc, xres, flipWaits, closer>>
  BY DEF SyncStart, venueVars, openVars, storeVars, exitVars
<1>2. /\ Sided /\ Alone /\ Turns /\ Epoch /\ Numbered /\ Asked /\ JobShape /\ JobEnd
      /\ View /\ Onward /\ Dropped /\ Booked /\ Claims
  BY DEF TameInv
<1>3. Sided' /\ Alone' /\ Turns' /\ Numbered' /\ Asked' /\ JobShape' /\ JobEnd' /\ Onward' /\ Dropped'
  /\ Booked' /\ Claims'
  BY <1>1, <1>2, SidedFrame, AloneFrame, TurnsFrame, NumberedFrame, AskedFrame, JobShapeFrame,
    JobEndFrame, OnwardFrame, DroppedFrame, BookedFrame, ClaimsFrame
<1>4. Epoch'
  <2>1. sync'.snap = Flat /\ sync'.stale = FALSE /\ sync'.pc = "fetch"
    BY DEF SyncStart
  <2>2. QED
    BY <2>1 DEF Epoch
<1>5. View'
  <2>1. sync'.stale = FALSE
    BY DEF SyncStart
  <2>2. QED
    BY <1>1, <1>2, <2>1 DEF View, May, Entering, EntryDone, ExitDone, isFilled, ExitId, EntryId
<1>6. QED
  BY <1>3, <1>4, <1>5 DEF TameInv

(* The loop asks for a sync. *)
LEMMA RequestSyncTame ==
  ASSUME BrokerInv, TameInv, Tame, RequestSync PROVE TameInv'
<1>1. UNCHANGED <<world, venue, eps, transit, filled, cache, failures, sync, opener, opens, expected,
  meta, journal, exits, job, xpc, xres, flipWaits, closer>>
  BY DEF RequestSync, venueVars, openVars, storeVars, exitVars
<1>2. /\ Sided /\ Alone /\ Turns /\ Epoch /\ Numbered /\ Asked /\ JobShape /\ JobEnd
      /\ View /\ Onward /\ Dropped /\ Booked /\ Claims
  BY DEF TameInv
<1>3. /\ Waiting' = Waiting \cup {"loop"}
      /\ queue # <<>> => Head(queue') = Head(queue) /\ Head(queue) \in Waiting
      /\ Len(queue') = Len(queue) + 1 /\ queue'[Len(queue) + 1] = "loop"
      /\ \A i \in 1 .. Len(queue) : queue'[i] = queue[i] /\ queue[i] \in Waiting
  BY Appended DEF RequestSync, Requesters
<1>4. Sided' /\ Alone' /\ Numbered' /\ Asked' /\ JobShape' /\ JobEnd' /\ View' /\ Onward' /\ Dropped'
  /\ Booked' /\ Claims'
  BY <1>1, <1>2, SidedFrame, AloneFrame, NumberedFrame, AskedFrame, JobShapeFrame, JobEndFrame,
    ViewFrame, OnwardFrame, DroppedFrame, BookedFrame, ClaimsFrame
<1>5. Turns'
  BY <1>1, <1>2, TurnsJoin DEF RequestSync, Requesters, Turns
<1>6. Epoch'
  BY <1>1, <1>2, <1>3, Shapes DEF Epoch, EntryDone, isFilled, EntryId
<1>7. QED
  BY <1>4, <1>5, <1>6 DEF TameInv

(* A sync that misses the position reads the risk events. *)
LEMMA FetchMissingTame ==
  ASSUME BrokerInv, TameInv, Tame, SyncFetchMissing PROVE TameInv'
<1>1. UNCHANGED <<world, venue, eps, transit, filled, cache, failures, queue, opener, opens, expected,
  meta, journal, exits, job, xpc, xres, flipWaits, closer>>
  BY DEF SyncFetchMissing, venueVars, openVars, storeVars, exitVars
<1>2. /\ Sided /\ Alone /\ Turns /\ Epoch /\ Numbered /\ Asked /\ JobShape /\ JobEnd
      /\ View /\ Onward /\ Dropped /\ Booked /\ Claims
  BY DEF TameInv
<1>3. sync'.stale = sync.stale /\ sync'.snap = Flat /\ venue = Flat /\ sync'.pc = "events" /\ sync.pc = "fetch"
  BY Shapes DEF SyncFetchMissing, Syncs
<1>4. Sided' /\ Alone' /\ Turns' /\ Numbered' /\ Asked' /\ JobShape' /\ JobEnd' /\ Onward' /\ Dropped'
  /\ Booked' /\ Claims'
  BY <1>1, <1>2, SidedFrame, AloneFrame, TurnsFrame, NumberedFrame, AskedFrame, JobShapeFrame,
    JobEndFrame, OnwardFrame, DroppedFrame, BookedFrame, ClaimsFrame
<1>5. Epoch'
  BY <1>1, <1>2, <1>3 DEF Epoch, EntryDone, isFilled, EntryId
<1>6. View'
  BY <1>1, <1>2, <1>3 DEF View, May, Entering, EntryDone, ExitDone, isFilled, ExitId, EntryId
<1>7. QED
  BY <1>4, <1>5, <1>6 DEF TameInv

(* A call of open asks for its sync under a new number. *)
LEMMA OpenCallTame ==
  ASSUME BrokerInv, TameInv, Tame, NEW side \in Sides, OpenCall(side) PROVE TameInv'
<1>1. UNCHANGED <<world, venue, eps, transit, filled, cache, failures, sync, expected, meta, journal,
  exits, job, xpc, xres, flipWaits, closer>>
  BY DEF OpenCall, venueVars, storeVars, exitVars
<1>2. /\ Sided /\ Alone /\ Turns /\ Epoch /\ Numbered /\ Asked /\ JobShape /\ JobEnd
      /\ View /\ Onward /\ Dropped /\ Booked /\ Claims
  BY DEF TameInv
<1>3. /\ opener.pc = "idle" /\ opener'.pc = "sync" /\ opener'.side = side /\ side \in world.sides
      /\ opener'.id = opens + 1 /\ opens' = opens + 1
  BY DEF OpenCall, IdleOpen
<1>4. queue # <<>> => Head(queue') = Head(queue)
  BY Appended DEF OpenCall, Requesters
<1>5. JobShape' /\ JobEnd' /\ Booked' /\ Claims'
  BY <1>1, <1>2, JobShapeFrame, JobEndFrame, BookedFrame, ClaimsFrame
<1>6. Sided'
  BY <1>1, <1>2, <1>3 DEF Sided, OneSided
<1>7. Alone'
  BY <1>1, <1>2, <1>3 DEF Alone
<1>8. Turns'
  BY <1>1, <1>2, TurnsJoin DEF OpenCall, Requesters, Turns
<1>9. Epoch'
  BY <1>1, <1>2, <1>3, <1>4, Shapes DEF Epoch, EntryDone, isFilled, EntryId
<1>10. Numbered'
  <2>1. \A o \in transit \cup filled : o.id \in Ids
    BY Shapes DEF Orders, Fills
  <2>2. \A o \in transit \cup filled : o.id[2] \in Nat /\ o.id[2] <= (IF o.id[1] = "exit" THEN exits ELSE opens')
    BY <1>2, <1>3, <2>1, Shapes DEF Numbered, Ids
  <2>3. ASSUME NEW o \in transit \cup filled PROVE o.id # <<"entry", opens'>>
    <3>1. o.id = <<"entry", opens'>> => o.id[1] = "entry" /\ o.id[2] = opens + 1
      BY <1>3
    <3>2. o.id[1] = "entry" => o.id[2] <= opens
      BY <1>2 DEF Numbered
    <3>3. opens \in Nat
      BY Shapes
    <3>4. QED
      BY <3>1, <3>2, <3>3
  <2>4. ~isFilled(EntryId)' /\ ~InTransit(EntryId)'
    BY <1>1, <1>3, <2>3 DEF isFilled, InTransit, EntryId
  <2>5. isFilled(ExitId)' = isFilled(ExitId) /\ InTransit(ExitId)' = InTransit(ExitId)
    BY <1>1 DEF isFilled, InTransit, ExitId
  <2>6. QED
    BY <1>1, <1>2, <1>3, <2>2, <2>4, <2>5 DEF Numbered
<1>11. Asked'
  BY <1>1, <1>2, <1>3 DEF Asked, EntryId, ExitId
<1>12. View'
  BY <1>1, <1>2, <1>3 DEF View, May, Entering, EntryDone, ExitDone, isFilled, ExitId, EntryId
<1>13. Onward'
  BY <1>1, <1>2, <1>3 DEF Onward, EntryDone, isFilled, EntryId, FillOf
<1>14. Dropped'
  BY <1>1, <1>2, <1>3 DEF Dropped, May, Entering, EntryDone, isFilled, EntryId
<1>15. QED
  BY <1>5, <1>6, <1>7, <1>8, <1>9, <1>10, <1>11, <1>12, <1>13, <1>14 DEF TameInv

(* An open that is refused. *)
LEMMA OpenRefusedTame ==
  ASSUME BrokerInv, TameInv, Tame, OpenRefused PROVE TameInv'
<1>1. UNCHANGED <<world, venue, eps, transit, filled, cache, failures, queue, sync, opens, expected,
  meta, journal, exits, job, xpc, xres, flipWaits, closer>>
  BY DEF OpenRefused, venueVars, syncVars, storeVars, exitVars
<1>2. /\ Sided /\ Alone /\ Turns /\ Epoch /\ Numbered /\ Asked /\ JobShape /\ JobEnd
      /\ View /\ Onward /\ Dropped /\ Booked /\ Claims
  BY DEF TameInv
<1>3. opener.pc = "decide" /\ opener'.pc = "idle"
  BY DEF OpenRefused, IdleOpen
<1>4. Turns' /\ JobShape' /\ JobEnd' /\ Booked' /\ Claims'
  BY <1>1, <1>2, TurnsFrame, JobShapeFrame, JobEndFrame, BookedFrame, ClaimsFrame
<1>5. Sided'
  BY <1>1, <1>2, <1>3 DEF Sided, OneSided
<1>6. Alone'
  BY <1>1, <1>2, <1>3 DEF Alone
<1>7. Epoch'
  BY <1>1, <1>2, <1>3 DEF Epoch, EntryDone, isFilled, EntryId
<1>8. Numbered'
  BY <1>1, <1>2, <1>3 DEF Numbered, isFilled, InTransit, ExitId, EntryId
<1>9. Asked'
  BY <1>1, <1>2, <1>3 DEF Asked, EntryId, ExitId
<1>10. View'
  BY <1>1, <1>2, <1>3 DEF View, May, Entering, EntryDone, ExitDone, isFilled, ExitId, EntryId
<1>11. Onward'
  BY <1>1, <1>2, <1>3 DEF Onward, EntryDone, isFilled, EntryId, FillOf
<1>12. Dropped'
  BY <1>1, <1>2, <1>3 DEF Dropped, May, Entering, EntryDone, isFilled, EntryId
<1>13. QED
  BY <1>4, <1>5, <1>6, <1>7, <1>8, <1>9, <1>10, <1>11, <1>12 DEF TameInv

(* An open that enters: the position is gone or on its side. *)
LEMMA OpenDecidesTame ==
  ASSUME BrokerInv, TameInv, Tame, OpenOrScaleIn PROVE TameInv'
<1>1. UNCHANGED <<world, venue, eps, transit, filled, cache, failures, queue, sync, opens, expected,
  meta, journal, exits, job, xpc, xres, flipWaits, closer>>
  BY DEF OpenOrScaleIn, venueVars, syncVars, storeVars, exitVars
<1>2. /\ Sided /\ Alone /\ Turns /\ Epoch /\ Numbered /\ Asked /\ JobShape /\ JobEnd
      /\ View /\ Onward /\ Dropped /\ Booked /\ Claims
  BY DEF TameInv
<1>3. /\ opener.pc = "decide" /\ opener'.pc = "enter" /\ opener'.side = opener.side
      /\ opener'.id = opener.id /\ job = NoJob /\ (cache # Flat => cache.side = opener.side)
  BY Shapes DEF OpenOrScaleIn, isActive, Openers
<1>4. isFilled(EntryId)' = isFilled(EntryId) /\ InTransit(EntryId)' = InTransit(EntryId)
  BY <1>1, <1>3 DEF isFilled, InTransit, EntryId
<1>5. Turns' /\ JobShape' /\ JobEnd' /\ Booked' /\ Claims'
  BY <1>1, <1>2, TurnsFrame, JobShapeFrame, JobEndFrame, BookedFrame, ClaimsFrame
<1>6. Sided'
  BY <1>1, <1>2, <1>3 DEF Sided, OneSided
<1>7. Alone'
  BY <1>1, <1>2, <1>3 DEF Alone
<1>8. Epoch'
  BY <1>1, <1>2, <1>3 DEF Epoch, EntryDone, isFilled, EntryId
<1>9. Numbered'
  BY <1>1, <1>2, <1>3, <1>4 DEF Numbered, isFilled, InTransit, ExitId
<1>10. Asked'
  BY <1>1, <1>2, <1>3 DEF Asked, EntryId, ExitId
<1>11. View'
  BY <1>1, <1>2, <1>3 DEF View, May, Entering, EntryDone, ExitDone, isFilled, ExitId, EntryId
<1>12. Onward'
  <2>1. venue = Flat \/ venue.side = opener.side
    BY <1>2, <1>3 DEF View, Entering, EntryDone, ExitDone
  <2>2. QED
    BY <1>1, <1>3, <2>1 DEF Onward, EntryDone
<1>13. Dropped'
  BY <1>1, <1>2, <1>3 DEF Dropped, May, Entering, EntryDone, isFilled, EntryId
<1>14. QED
  BY <1>5, <1>6, <1>7, <1>8, <1>9, <1>10, <1>11, <1>12, <1>13 DEF TameInv

(* The entry is sent. *)
LEMMA EntrySendTame ==
  ASSUME BrokerInv, TameInv, Tame, EntrySend PROVE TameInv'
<1>1. UNCHANGED <<world, venue, eps, filled, cache, failures, queue, sync, opens, expected, meta,
  journal, exits, job, xpc, xres, flipWaits, closer>>
  BY DEF EntrySend, syncVars, storeVars, exitVars
<1>2. /\ Sided /\ Alone /\ Turns /\ Epoch /\ Numbered /\ Asked /\ JobShape /\ JobEnd
      /\ View /\ Onward /\ Dropped /\ Booked /\ Claims
  BY DEF TameInv
<1>3. /\ opener.pc = "enter" /\ opener'.pc = "sent" /\ opener'.side = opener.side /\ opener'.id = opener.id
  BY Shapes DEF EntrySend, Openers
<1>4. ~isFilled(EntryId)' /\ ~isFilled(EntryId)
  BY <1>1, <1>2, <1>3 DEF Numbered, isFilled, EntryId
<1>5. transit' = transit \cup {[id |-> <<"entry", opener.id>>, side |-> opener.side, qty |-> EntryQty,
                               reduceOnly |-> FALSE]}
  BY DEF EntrySend, EntryId
<1>6. Turns' /\ JobShape' /\ JobEnd' /\ Booked' /\ Claims'
  BY <1>1, <1>2, TurnsFrame, JobShapeFrame, JobEndFrame, BookedFrame, ClaimsFrame
<1>7. Sided'
  BY <1>1, <1>2, <1>3 DEF Sided, OneSided
<1>8. Alone'
  BY <1>1, <1>2, <1>3 DEF Alone
<1>9. Epoch'
  BY <1>1, <1>2, <1>3, <1>4 DEF Epoch, EntryDone
<1>10. Numbered'
  <2>1. \A o \in transit' : o \in transit \/ o.id = <<"entry", opener.id>>
    BY <1>5
  <2>2. opener.id = opens /\ ~isFilled(EntryId) /\ opens \in Nat
    BY <1>2, <1>3, Shapes DEF Numbered
  <2>3. \A o \in transit' \cup filled' : o.id[2] <= (IF o.id[1] = "exit" THEN exits' ELSE opens')
    BY <1>1, <1>2, <2>1, <2>2 DEF Numbered
  <2>4. \A f \in filled', o \in transit' : f.id # o.id
    BY <1>1, <1>2, <2>1, <2>2 DEF Numbered, isFilled, EntryId
  <2>5. ~isFilled(ExitId) => ~isFilled(ExitId)'
    BY <1>1 DEF isFilled, ExitId
  <2>6. ~InTransit(ExitId) => ~InTransit(ExitId)'
    BY <1>1, <2>1 DEF InTransit, ExitId
  <2>7. QED
    BY <1>1, <1>2, <1>3, <2>3, <2>4, <2>5, <2>6 DEF Numbered
<1>11. Asked'
  <2>1. \A o \in transit' : o \in transit \/ (o.id = <<"entry", opener.id>> /\ o.side = opener.side /\ ~o.reduceOnly)
    BY <1>5
  <2>2. \A o \in transit' : o.id = <<"entry", opener.id>> => o.side = opener.side /\ ~o.reduceOnly
    BY <1>2, <1>3, <2>1 DEF Numbered, InTransit, EntryId
  <2>3. \A o \in transit' : o.id = ExitId => o \in transit
    BY <2>1 DEF ExitId
  <2>4. QED
    BY <1>1, <1>2, <1>3, <2>2, <2>3 DEF Asked, EntryId, ExitId
<1>12. View'
  BY <1>1, <1>2, <1>3, <1>4 DEF View, May, Entering, EntryDone, ExitDone, isFilled, ExitId
<1>13. Onward'
  BY <1>1, <1>2, <1>3, <1>4 DEF Onward, EntryDone
<1>14. Dropped'
  BY <1>1, <1>2, <1>3, <1>4 DEF Dropped, May, Entering, EntryDone
<1>15. QED
  BY <1>6, <1>7, <1>8, <1>9, <1>10, <1>11, <1>12, <1>13, <1>14 DEF TameInv

(* The entry is refused. *)
LEMMA EntryRejectedTame ==
  ASSUME BrokerInv, TameInv, Tame, EntryRejected PROVE TameInv'
<1>1. UNCHANGED <<world, venue, eps, filled, cache, failures, queue, sync, opens, expected, meta,
  journal, exits, job, xpc, xres, flipWaits, closer>>
  BY DEF EntryRejected, syncVars, storeVars, exitVars
<1>2. /\ Sided /\ Alone /\ Turns /\ Epoch /\ Numbered /\ Asked /\ JobShape /\ JobEnd
      /\ View /\ Onward /\ Dropped /\ Booked /\ Claims
  BY DEF TameInv
<1>3. opener.pc = "sent" /\ ~isFilled(EntryId) /\ opener'.pc = "idle"
  BY DEF EntryRejected, IdleOpen
<1>4. transit' \subseteq transit
  BY DEF EntryRejected, Forget
<1>5. Turns' /\ JobShape' /\ JobEnd' /\ Booked' /\ Claims'
  BY <1>1, <1>2, TurnsFrame, JobShapeFrame, JobEndFrame, BookedFrame, ClaimsFrame
<1>6. Sided'
  BY <1>1, <1>2, <1>3 DEF Sided, OneSided
<1>7. Alone'
  BY <1>1, <1>2, <1>3 DEF Alone
<1>8. Epoch'
  BY <1>1, <1>2, <1>3 DEF Epoch, EntryDone
<1>9. Numbered'
  <2>1. ~InTransit(ExitId) => ~InTransit(ExitId)'
    BY <1>1, <1>4 DEF InTransit, ExitId
  <2>2. ~isFilled(ExitId) => ~isFilled(ExitId)'
    BY <1>1 DEF isFilled, ExitId
  <2>3. QED
    BY <1>1, <1>2, <1>3, <1>4, <2>1, <2>2 DEF Numbered
<1>10. Asked'
  BY <1>1, <1>2, <1>3, <1>4 DEF Asked, EntryId, ExitId
<1>11. View'
  BY <1>1, <1>2, <1>3 DEF View, May, Entering, EntryDone, ExitDone, isFilled, ExitId
<1>12. Onward'
  BY <1>1, <1>2, <1>3 DEF Onward, EntryDone, isFilled, EntryId, FillOf
<1>13. Dropped'
  BY <1>1, <1>2, <1>3 DEF Dropped, May, Entering, EntryDone
<1>14. QED
  BY <1>5, <1>6, <1>7, <1>8, <1>9, <1>10, <1>11, <1>12, <1>13 DEF TameInv

(* The entry is known to be filled: its record names the position it made. *)
LEMMA EntryFilledTame ==
  ASSUME BrokerInv, TameInv, Tame, EntryFilled PROVE TameInv'
<1>1. UNCHANGED <<world, venue, eps, transit, filled, cache, failures, opens, journal, exits, job, xpc,
  xres, flipWaits, closer>>
  BY DEF EntryFilled, venueVars, exitVars
<1>2. /\ Sided /\ Alone /\ Turns /\ Epoch /\ Numbered /\ Asked /\ JobShape /\ JobEnd
      /\ View /\ Onward /\ Dropped /\ Booked /\ Claims
  BY DEF TameInv
<1>3. /\ opener.pc = "sent" /\ opener'.pc = "after" /\ opener'.side = opener.side /\ opener'.id = opener.id
  BY Shapes DEF EntryFilled, Openers
<1>4. job = NoJob /\ xpc \notin {"after", "read", "lookup", "send", "residual"}
  BY <1>2, <1>3 DEF Alone, BrokerInv, Driven
<1>5. "entry" \notin Waiting
  BY <1>3 DEF BrokerInv, Chain, Where
<1>6. /\ queue' = Append(queue, "entry") /\ Waiting' = Waiting \cup {"entry"}
      /\ sync'.snap = Flat /\ sync'.pc = sync.pc /\ (sync'.stale <=> sync.pc # "idle")
      /\ sync'.stale => Head(queue') # "entry" /\ Head(queue') = Head(queue)
  BY <1>2, <1>5, Discards DEF EntryFilled, Requesters, Epoch
<1>7. JobShape' /\ Booked'
  BY <1>1, <1>2, JobShapeFrame, BookedFrame
<1>8. Sided'
  BY <1>1, <1>2, <1>3 DEF Sided, OneSided
<1>9. Alone'
  BY <1>1, <1>2, <1>3, <1>4 DEF Alone
<1>10. Turns'
  BY <1>1, <1>2, <1>6, TurnsJoin DEF Requesters, Turns
<1>11. Epoch'
  BY <1>1, <1>4, <1>6 DEF Epoch
<1>12. Numbered'
  BY <1>1, <1>2, <1>3 DEF Numbered, isFilled, InTransit, ExitId, EntryId
<1>13. Asked'
  BY <1>1, <1>2, <1>3 DEF Asked, EntryId, ExitId
<1>14. JobEnd'
  BY <1>1, <1>2, <1>4 DEF JobEnd, ExitDone, Finished, isFilled, ExitId
<1>15. View'
  BY <1>1, <1>2, <1>3 DEF View, May, Entering
<1>16. Onward'
  BY <1>1, <1>2, <1>3 DEF Onward, EntryDone, isFilled, EntryId, FillOf
<1>17. Dropped'
  BY <1>1, <1>2, <1>3, <1>4 DEF Dropped, Entering
<1>18. Claims'
  <2>1. \/ opener.scaleIn /\ meta # NoMeta /\ meta' = meta
        \/ meta'.seen = [side |-> opener.side, qty |-> EntryQty, ep |-> FillOf(EntryId).ep]
    BY DEF EntryFilled, ownedMeta
  <2>2. venue # Flat /\ venue.side = opener.side /\ FillOf(EntryId).ep = venue.ep
    BY <1>2, <1>3 DEF Onward, EntryDone, EntryFilled
  <2>3. venue.ep \in 1 .. Len(eps) /\ venue.side \in Sides
    BY <2>2, Shapes
  <2>4. Owed(meta.seen)' \/ (meta # NoMeta /\ meta' = meta)
    BY <1>1, <2>1, <2>2, <2>3 DEF Owed
  <2>5. QED
    BY <1>1, <1>2, <2>4 DEF Claims, Owed, Finished
<1>19. QED
  BY <1>7, <1>8, <1>9, <1>10, <1>11, <1>12, <1>13, <1>14, <1>15, <1>16, <1>17, <1>18 DEF TameInv

(* Nobody knows whether the entry executed. *)
LEMMA EntryUnconfirmedTame ==
  ASSUME BrokerInv, TameInv, Tame, EntryUnconfirmed PROVE TameInv'
<1>1. UNCHANGED <<world, venue, eps, filled, cache, failures, opens, meta, journal, exits, job, xpc,
  xres, flipWaits, closer>>
  BY DEF EntryUnconfirmed, exitVars
<1>2. /\ Sided /\ Alone /\ Turns /\ Epoch /\ Numbered /\ Asked /\ JobShape /\ JobEnd
      /\ View /\ Onward /\ Dropped /\ Booked /\ Claims
  BY DEF TameInv
<1>3. /\ opener.pc = "sent" /\ opener'.pc = "after" /\ opener'.side = opener.side /\ opener'.id = opener.id
  BY Shapes DEF EntryUnconfirmed, Openers
<1>4. job = NoJob /\ xpc \notin {"after", "read", "lookup", "send", "residual"}
  BY <1>2, <1>3 DEF Alone, BrokerInv, Driven
<1>5. "entry" \notin Waiting
  BY <1>3 DEF BrokerInv, Chain, Where
<1>6. /\ queue' = Append(queue, "entry") /\ Waiting' = Waiting \cup {"entry"}
      /\ sync'.snap = Flat /\ sync'.pc = sync.pc /\ (sync'.stale <=> sync.pc # "idle")
      /\ sync'.stale => Head(queue') # "entry" /\ Head(queue') = Head(queue)
  BY <1>2, <1>5, Discards DEF EntryUnconfirmed, Requesters, Epoch
<1>7. transit' \subseteq transit
  BY DEF EntryUnconfirmed, Forget
<1>8. JobShape' /\ JobEnd' /\ Booked' /\ Claims'
  BY <1>1, <1>2, JobShapeFrame, JobEndFrame, BookedFrame, ClaimsFrame
<1>9. Sided'
  BY <1>1, <1>2, <1>3 DEF Sided, OneSided
<1>10. Alone'
  BY <1>1, <1>2, <1>3, <1>4 DEF Alone
<1>11. Turns'
  BY <1>1, <1>2, <1>6, TurnsJoin DEF Requesters, Turns
<1>12. Epoch'
  BY <1>1, <1>4, <1>6 DEF Epoch
<1>13. Numbered'
  <2>1. ~InTransit(ExitId) => ~InTransit(ExitId)'
    BY <1>1, <1>7 DEF InTransit, ExitId
  <2>2. ~isFilled(ExitId) => ~isFilled(ExitId)'
    BY <1>1 DEF isFilled, ExitId
  <2>3. QED
    BY <1>1, <1>2, <1>3, <1>7, <2>1, <2>2 DEF Numbered
<1>14. Asked'
  BY <1>1, <1>2, <1>3, <1>7 DEF Asked, EntryId, ExitId
<1>15. View'
  BY <1>1, <1>2, <1>3 DEF View, May, Entering
<1>16. Onward'
  BY <1>1, <1>2, <1>3 DEF Onward, EntryDone, isFilled, EntryId, FillOf
<1>17. Dropped'
  BY <1>1, <1>2, <1>3, <1>4 DEF Dropped, Entering
<1>18. QED
  BY <1>8, <1>9, <1>10, <1>11, <1>12, <1>13, <1>14, <1>15, <1>16, <1>17 DEF TameInv

(* enqueue and drive, by a stop, a close, a partial exit or a flip.        *)
NewJob(reason, qty) ==
  /\ cache # Flat /\ job = NoJob /\ opener.pc \in {"idle", "sync", "decide"}
  /\ reason \in Reasons /\ qty \in Nat /\ (reason = "PARTIAL TP" <=> qty # 0)
  /\ qty # 0 => qty < cache.qty
  /\ enqueue(reason, qty) /\ drive(job')
  /\ UNCHANGED <<world, venueVars, syncVars, opens, storeVars, xres>>
  /\ \/ UNCHANGED <<opener, flipWaits>> /\ reason # "FLIP"
     \/ /\ opener.pc = "decide" /\ opener' = [opener EXCEPT !.pc = "flip"]
        /\ flipWaits' = TRUE /\ ~OneSided

(* The number of the next exit job was not used before.                    *)
LEMMA FreshExit ==
  ASSUME BrokerInv, Numbered
  PROVE  /\ exits \in Nat
         /\ \A o \in transit \cup filled : o.id # <<"exit", exits + 1>>
         /\ \A o \in transit \cup filled : o.id[2] <= (IF o.id[1] = "exit" THEN exits + 1 ELSE opens)
<1>1. exits \in Nat /\ opens \in Nat
  BY Shapes
<1>2. ASSUME NEW o \in transit \cup filled PROVE o.id[2] \in Nat
  BY Shapes DEF Orders, Fills, Ids
<1>3. ASSUME NEW o \in transit \cup filled PROVE o.id # <<"exit", exits + 1>>
  <2>1. o.id = <<"exit", exits + 1>> => o.id[1] = "exit" /\ o.id[2] = exits + 1
    OBVIOUS
  <2>2. QED
    BY <1>1, <2>1 DEF Numbered
<1>4. \A o \in transit \cup filled : o.id[2] <= (IF o.id[1] = "exit" THEN exits + 1 ELSE opens)
  BY <1>1, <1>2 DEF Numbered
<1>5. QED
  BY <1>1, <1>3, <1>4

(* A new exit job on a position the cache shows. *)
LEMMA NewJobTame ==
  ASSUME BrokerInv, TameInv, Tame, NEW reason, NEW qty, NewJob(reason, qty) PROVE TameInv'
<1>1. UNCHANGED <<world, venue, eps, transit, filled, cache, failures, queue, sync, opens, expected,
  meta, journal, xres>>
  BY DEF NewJob, venueVars, syncVars, storeVars
<1>2. /\ Sided /\ Alone /\ Turns /\ Epoch /\ Numbered /\ Asked /\ JobShape /\ JobEnd
      /\ View /\ Onward /\ Dropped /\ Booked /\ Claims
  BY DEF TameInv
<1>3. /\ job' = [id |-> exits + 1, reason |-> reason, qty |-> qty, sent |-> Flat] /\ exits' = exits + 1
      /\ job' # NoJob /\ exits \in Nat
  <2>1. exits \in Nat /\ exits + 1 # 0
    BY <1>2, FreshExit
  <2>2. job' = [id |-> exits + 1, reason |-> reason, qty |-> qty, sent |-> Flat] /\ exits' = exits + 1
    BY DEF NewJob, enqueue
  <2>3. job'.id # NoJob.id
    BY <2>1, <2>2 DEF NoJob
  <2>4. QED
    BY <2>1, <2>2, <2>3
<1>4. /\ opener'.pc \in {"idle", "sync", "decide", "flip"} /\ opener'.side = opener.side /\ opener'.id = opener.id
      /\ \/ opener' = opener /\ reason # "FLIP"
         \/ opener.pc = "decide" /\ opener'.pc = "flip" /\ ~OneSided
      /\ opener.pc \in {"idle", "sync", "decide"}
  BY Shapes DEF NewJob, Openers
<1>5. xpc \in {"none", "dropped"} /\ xpc' = (IF xpc = "none" THEN "read" ELSE "dropped")
  BY <1>3 DEF BrokerInv, Driven, Types, ExitTypes, drive, NewJob
<1>6. ~isFilled(ExitId)' /\ ~InTransit(ExitId)'
  <2>1. \A o \in transit \cup filled : o.id # <<"exit", exits + 1>>
    BY <1>2, FreshExit
  <2>2. QED
    BY <1>1, <1>3, <2>1 DEF isFilled, InTransit, ExitId
<1>7. /\ cache # Flat /\ job = NoJob /\ (reason = "PARTIAL TP" <=> qty # 0)
      /\ qty # 0 => qty < cache.qty
  BY DEF NewJob
<1>8. Sided'
  BY <1>1, <1>2, <1>3, <1>4 DEF Sided, OneSided
<1>9. Alone'
  BY <1>1, <1>2, <1>4 DEF Alone
<1>10. Turns'
  BY <1>1, <1>2, <1>5 DEF Turns, Waiting
<1>11. Epoch'
  BY <1>1, <1>2, <1>4, <1>5 DEF Epoch, EntryDone
<1>12. Numbered'
  <2>1. isFilled(EntryId)' = isFilled(EntryId) /\ InTransit(EntryId)' = InTransit(EntryId)
    BY <1>1, <1>4 DEF isFilled, InTransit, EntryId
  <2>2. job'.id \in 1 .. exits' /\ job'.sent = Flat
    BY <1>3
  <2>3. QED
    BY <1>1, <1>2, <1>3, <1>4, <1>6, <2>1, <2>2, FreshExit DEF Numbered
<1>13. Asked'
  <2>1. \A o \in transit' : o.id # ExitId'
    BY <1>6 DEF InTransit
  <2>2. QED
    BY <1>1, <1>2, <1>4, <2>1 DEF Asked
<1>14. JobShape'
  <2>1. venue # Flat => cache = venue
    BY <1>2, <1>4 DEF NewJob, View, Entering, EntryDone, ExitDone
  <2>2. QED
    BY <1>1, <1>3, <1>5, <1>6, <1>7, <2>1 DEF JobShape
<1>15. JobEnd'
  BY <1>5, <1>6 DEF JobEnd, ExitDone, Finished
<1>16. View'
  BY <1>1, <1>2, <1>4, <1>7 DEF View, May, Entering, EntryDone, ExitDone
<1>17. Onward'
  BY <1>1, <1>2, <1>4 DEF Onward, EntryDone, isFilled, EntryId, FillOf
<1>18. Dropped'
  <2>1. ~(xpc' = "dropped" /\ xres' = "ok" /\ flipWaits')
    <3>1. CASE UNCHANGED <<opener, flipWaits>>
      BY <1>4, <3>1 DEF BrokerInv, Flipping
    <3>2. CASE ~OneSided
      BY <1>7, <1>1, <1>2, <1>4, <1>5, <3>2 DEF Tame, Dropped, Entering, EntryDone
    <3>3. QED
      BY <3>1, <3>2 DEF NewJob
  <2>2. QED
    BY <1>1, <1>2, <1>4, <1>5, <2>1 DEF Dropped, May, Entering, EntryDone
<1>19. Booked'
  <2>1. ~Pending /\ ~Pending'
    BY <1>6, <1>7 DEF Pending, ExitDone
  <2>2. \A e \in 1 .. Len(eps) : Due(e)' = 0 /\ Due(e) = 0 /\ Held(e)' = Held(e)
    BY <1>1, <2>1 DEF Due, Held
  <2>3. QED
    BY <1>1, <1>2, <2>2 DEF Booked
<1>20. Claims'
  <2>1. ~Finished
    BY <1>7 DEF Finished, BrokerInv, Driven
  <2>2. QED
    BY <1>1, <1>2, <2>1 DEF Claims, Owed
<1>21. QED
  BY <1>8, <1>9, <1>10, <1>11, <1>12, <1>13, <1>14, <1>15, <1>16, <1>17, <1>18, <1>19, <1>20 DEF
    TameInv

(* An open that flips queues the exit of the old side.                     *)
LEMMA OpenFlipTame ==
  ASSUME BrokerInv, TameInv, Tame, OpenFlip PROVE TameInv'
<1>1. /\ opener.pc = "decide" /\ job = NoJob /\ cache # Flat /\ cache.side # opener.side
      /\ opener' = [opener EXCEPT !.pc = "flip"] /\ enqueue("FLIP", 0) /\ drive(job') /\ flipWaits' = TRUE
      /\ UNCHANGED <<world, venueVars, syncVars, opens, storeVars, xres>>
  BY DEF OpenFlip, isActive
<1>2. ~OneSided
  <2>1. SUFFICES ASSUME OneSided PROVE FALSE
    OBVIOUS
  <2>2. cache.side \in world.sides /\ opener.side \in world.sides
    BY <1>1, <2>1 DEF TameInv, Sided
  <2>3. world.sides \subseteq Sides /\ world.sides # Sides
    BY <2>1, Shapes, RemoteAssumption DEF OneSided
  <2>4. QED
    BY <1>1, <2>2, <2>3 DEF Sides
<1>3. NewJob("FLIP", 0)
  BY <1>1, <1>2 DEF NewJob, Reasons
<1>4. QED
  BY <1>3, NewJobTame

(* A stop or a target fires.                                               *)
LEMMA TriggerTame ==
  ASSUME BrokerInv, TameInv, Tame, Trigger PROVE TameInv'
<1>1. /\ job = NoJob /\ cache # Flat /\ ~pendingOpen
      /\ enqueue("STOP LOSS", 0) /\ drive(job')
      /\ UNCHANGED <<world, venueVars, syncVars, opens, storeVars, xres, opener, flipWaits>>
  BY DEF Trigger, isActive, openVars
<1>2. opener.pc \in {"idle", "sync", "decide"}
  BY <1>1, Shapes DEF pendingOpen, Openers
<1>3. NewJob("STOP LOSS", 0)
  BY <1>1, <1>2 DEF NewJob, Reasons
<1>4. QED
  BY <1>3, NewJobTame

(* A partial take-profit.                                                  *)
LEMMA ReduceCallTame ==
  ASSUME BrokerInv, TameInv, Tame, ReduceCall PROVE TameInv'
<1>1. /\ job = NoJob /\ cache.qty > PartialQty /\ ~pendingOpen
      /\ enqueue("PARTIAL TP", PartialQty) /\ drive(job')
      /\ UNCHANGED <<world, venueVars, syncVars, opens, storeVars, xres, opener, flipWaits>>
  BY DEF ReduceCall, isActive, openVars
<1>2. opener.pc \in {"idle", "sync", "decide"}
  BY <1>1, Shapes DEF pendingOpen, Openers
<1>3. PartialQty \in Nat \ {0} /\ cache # Flat /\ PartialQty < cache.qty
  <2>1. PartialQty \in Nat \ {0} /\ cache.qty \in Nat /\ Flat.qty = 0
    BY Shapes, RemoteAssumption DEF Snapshots
  <2>2. cache.qty > PartialQty
    BY <1>1
  <2>3. ASSUME NEW a \in Nat, NEW b \in Nat \ {0}, a > b PROVE b < a /\ a # 0
    BY <2>3
  <2>4. PartialQty < cache.qty /\ cache.qty # 0
    BY <2>1, <2>2, <2>3
  <2>5. QED
    BY <2>1, <2>4
<1>4. NewJob("PARTIAL TP", PartialQty)
  BY <1>1, <1>2, <1>3 DEF NewJob, Reasons
<1>5. QED
  BY <1>4, NewJobTame

(* The driver of a queued job starts, unless one runs. *)
LEMMA DriveTame ==
  ASSUME BrokerInv, TameInv, Tame, job # NoJob, drive(job),
         UNCHANGED <<world, venueVars, syncVars, openVars, storeVars, exits, job, xres, flipWaits>>
  PROVE TameInv'
<1>1. UNCHANGED <<world, venue, eps, transit, filled, cache, failures, queue, sync, opener, opens,
  expected, meta, journal, exits, job, xres, flipWaits>>
  BY DEF venueVars, syncVars, openVars, storeVars
<1>2. /\ Sided /\ Alone /\ Turns /\ Epoch /\ Numbered /\ Asked /\ JobShape /\ JobEnd
      /\ View /\ Onward /\ Dropped /\ Booked /\ Claims
  BY DEF TameInv
<1>3. \/ xpc' = xpc
      \/ xpc = "none" /\ job.sent # Flat /\ xpc' = "lookup"
      \/ xpc = "none" /\ job.sent = Flat /\ xpc' = "read"
  BY DEF drive
<1>4. Sided' /\ Alone' /\ Numbered' /\ Asked' /\ Onward'
  BY <1>1, <1>2, SidedFrame, AloneFrame, NumberedFrame, AskedFrame, OnwardFrame
<1>5. Turns'
  BY <1>1, <1>2, <1>3 DEF Turns, Waiting
<1>6. Epoch'
  BY <1>1, <1>2, <1>3 DEF Epoch, EntryDone, isFilled, EntryId
<1>7. JobShape'
  <2>1. xpc' = "read" => ~isFilled(ExitId)
    BY <1>2, <1>3 DEF JobShape, Numbered
  <2>2. isFilled(ExitId)' = isFilled(ExitId)
    BY <1>1 DEF isFilled, ExitId
  <2>3. QED
    BY <1>1, <1>2, <1>3, <2>1, <2>2 DEF JobShape
<1>8. JobEnd'
  BY <1>1, <1>2, <1>3 DEF JobEnd, ExitDone, Finished, isFilled, ExitId
<1>9. View'
  BY <1>1, <1>2 DEF View, May, Entering, EntryDone, ExitDone, isFilled, ExitId, EntryId
<1>10. Dropped'
  BY <1>1, <1>2, <1>3 DEF Dropped, May, Entering, EntryDone, isFilled, EntryId
<1>11. Booked'
  BY <1>1, <1>2, <1>3 DEF Booked, Held, Due, Pending, ExitDone, Finished, isFilled, ExitId, FillOf
<1>12. Claims'
  BY <1>1, <1>2, <1>3 DEF Claims, Owed, Finished
<1>13. QED
  BY <1>4, <1>5, <1>6, <1>7, <1>8, <1>9, <1>10, <1>11, <1>12 DEF TameInv

(* The operator closes: a new job, or the one that is queued.              *)
LEMMA CloseCallTame ==
  ASSUME BrokerInv, TameInv, Tame, CloseCall PROVE TameInv'
<1>1. /\ cache # Flat /\ ~pendingOpen /\ drive(job')
      /\ UNCHANGED <<world, venueVars, syncVars, openVars, storeVars, xres, flipWaits>>
  BY DEF CloseCall
<1>2. CASE isActive
  <2>1. UNCHANGED <<exits, job>>
    BY <1>2 DEF CloseCall
  <2>2. drive(job)
    BY <1>1, <2>1 DEF drive
  <2>3. QED
    BY <1>1, <1>2, <2>1, <2>2, DriveTame DEF isActive
<1>3. CASE ~isActive
  <2>1. enqueue("CLOSE", 0)
    BY <1>3 DEF CloseCall
  <2>2. opener.pc \in {"idle", "sync", "decide"}
    BY <1>1, Shapes DEF pendingOpen, Openers
  <2>3. UNCHANGED <<opens, opener>>
    BY <1>1 DEF openVars
  <2>4. NewJob("CLOSE", 0)
    BY <1>1, <1>3, <2>1, <2>2, <2>3 DEF NewJob, Reasons, isActive
  <2>5. QED
    BY <2>4, NewJobTame
<1>4. QED
  BY <1>2, <1>3

(* A pending job is retried.                                               *)
LEMMA RetryTame ==
  ASSUME BrokerInv, TameInv, Tame, RetryPending PROVE TameInv'
  BY DriveTame DEF RetryPending, isActive

(* The order of the job is known not to have executed. *)
LEMMA LookupMissTame ==
  ASSUME BrokerInv, TameInv, Tame, ExitLookupMiss PROVE TameInv'
<1>1. UNCHANGED <<world, venue, eps, transit, filled, cache, failures, queue, sync, opener, opens,
  expected, meta, journal, exits, job, xres, flipWaits, closer>>
  BY DEF ExitLookupMiss, venueVars, syncVars, openVars, storeVars
<1>2. /\ Sided /\ Alone /\ Turns /\ Epoch /\ Numbered /\ Asked /\ JobShape /\ JobEnd
      /\ View /\ Onward /\ Dropped /\ Booked /\ Claims
  BY DEF TameInv
<1>3. xpc = "lookup" /\ ~isFilled(ExitId) /\ xpc' = "read"
  BY DEF ExitLookupMiss
<1>4. Sided' /\ Alone' /\ Numbered' /\ Asked' /\ Onward'
  BY <1>1, <1>2, SidedFrame, AloneFrame, NumberedFrame, AskedFrame, OnwardFrame
<1>5. Turns'
  BY <1>1, <1>2, <1>3 DEF Turns, Waiting
<1>6. Epoch'
  BY <1>1, <1>2, <1>3 DEF Epoch, EntryDone, isFilled, EntryId
<1>7. JobShape'
  BY <1>1, <1>2, <1>3 DEF JobShape, isFilled, ExitId
<1>8. JobEnd'
  BY <1>1, <1>2, <1>3 DEF JobEnd, ExitDone, Finished, isFilled, ExitId
<1>9. View'
  BY <1>1, <1>2, <1>3 DEF View, May, Entering, EntryDone, ExitDone, isFilled, ExitId, EntryId
<1>10. Dropped'
  BY <1>1, <1>2, <1>3 DEF Dropped, May, Entering, EntryDone, isFilled, EntryId
<1>11. Booked'
  BY <1>1, <1>2, <1>3 DEF Booked, Held, Due, Pending, ExitDone, Finished, isFilled, ExitId, FillOf
<1>12. Claims'
  BY <1>1, <1>2, <1>3 DEF Claims, Owed, Finished
<1>13. QED
  BY <1>4, <1>5, <1>6, <1>7, <1>8, <1>9, <1>10, <1>11, <1>12 DEF TameInv

(* There is nothing left to close: the job is dropped. *)
LEMMA ReadFlatTame ==
  ASSUME BrokerInv, TameInv, Tame, ExitReadFlat PROVE TameInv'
<1>1. UNCHANGED <<world, venue, eps, transit, filled, cache, failures, opener, opens, expected, meta,
  journal, exits, flipWaits, closer>>
  BY DEF ExitReadFlat, venueVars, openVars, storeVars
<1>2. /\ Sided /\ Alone /\ Turns /\ Epoch /\ Numbered /\ Asked /\ JobShape /\ JobEnd
      /\ View /\ Onward /\ Dropped /\ Booked /\ Claims
  BY DEF TameInv
<1>3. xpc = "read" /\ venue = Flat /\ job' = NoJob /\ xpc' = "dropped" /\ xres' = "ok"
  BY DEF ExitReadFlat
<1>4. job # NoJob /\ opener.pc \notin {"enter", "sent", "after"}
  BY <1>2, <1>3 DEF Alone, BrokerInv, Driven
<1>5. "exit" \notin Waiting /\ "entry" \notin Waiting
  BY <1>3, <1>4 DEF BrokerInv, Chain, Where
<1>6. /\ queue' = Append(queue, "exit") /\ Waiting' = Waiting \cup {"exit"}
      /\ sync'.snap = Flat /\ sync'.pc = sync.pc /\ (sync'.stale <=> sync.pc # "idle")
      /\ sync'.stale => Head(queue') # "exit" /\ Head(queue') = Head(queue)
  BY <1>2, <1>5, Discards DEF ExitReadFlat, Requesters, Epoch
<1>7. ~isFilled(ExitId)
  BY <1>2, <1>3 DEF JobShape
<1>8. Onward'
  BY <1>1, <1>2, OnwardFrame
<1>9. Sided'
  BY <1>1, <1>2, <1>3, Shapes DEF Sided, OneSided
<1>10. Alone'
  BY <1>1, <1>2, <1>3 DEF Alone
<1>11. Turns'
  BY <1>2, <1>5, <1>6, TurnsJoin DEF Requesters
<1>12. Epoch'
  BY <1>1, <1>3, <1>4, <1>6 DEF Epoch, EntryDone
<1>13. Numbered'
  BY <1>1, <1>2, <1>3 DEF Numbered, isFilled, InTransit, EntryId
<1>14. Asked'
  BY <1>1, <1>2, <1>3, <1>4 DEF Asked
<1>15. JobShape'
  BY <1>3 DEF JobShape
<1>16. JobEnd'
  BY <1>3 DEF JobEnd, ExitDone, Finished
<1>17. View'
  BY <1>1, <1>2, <1>3, <1>4, <1>7 DEF View, May, Entering, EntryDone, ExitDone
<1>18. Dropped'
  <2>1. ~May("lost") => cache = Flat
    BY <1>2, <1>3, <1>4, <1>7 DEF View, Entering, EntryDone, ExitDone
  <2>2. QED
    BY <1>1, <1>3, <2>1 DEF Dropped, May
<1>19. Booked'
  <2>1. ~Pending /\ ~Pending'
    BY <1>3, <1>7 DEF Pending, ExitDone, Finished
  <2>2. \A e \in 1 .. Len(eps) : Due(e)' = 0 /\ Due(e) = 0 /\ Held(e)' = Held(e)
    BY <1>1, <2>1 DEF Due, Held
  <2>3. QED
    BY <1>1, <1>2, <2>2 DEF Booked
<1>20. Claims'
  BY <1>1, <1>2, <1>3 DEF Claims, Owed, Finished
<1>21. QED
  BY <1>8, <1>9, <1>10, <1>11, <1>12, <1>13, <1>14, <1>15, <1>16, <1>17, <1>18, <1>19, <1>20 DEF
    TameInv

(* The exit is refused: the job is dropped. *)
LEMMA RejectedTame ==
  ASSUME BrokerInv, TameInv, Tame, ExitRejected PROVE TameInv'
<1>1. UNCHANGED <<world, venue, eps, filled, cache, failures, opener, opens, expected, meta, journal,
  exits, flipWaits, closer>>
  BY DEF ExitRejected, openVars, storeVars
<1>2. /\ Sided /\ Alone /\ Turns /\ Epoch /\ Numbered /\ Asked /\ JobShape /\ JobEnd
      /\ View /\ Onward /\ Dropped /\ Booked /\ Claims
  BY DEF TameInv
<1>3. xpc = "send" /\ ~isFilled(ExitId) /\ job' = NoJob /\ xpc' = "dropped" /\ xres' = "error"
  BY DEF ExitRejected
<1>4. job # NoJob /\ opener.pc \notin {"enter", "sent", "after"}
  BY <1>2, <1>3 DEF Alone, BrokerInv, Driven
<1>5. "exit" \notin Waiting /\ "entry" \notin Waiting
  BY <1>3, <1>4 DEF BrokerInv, Chain, Where
<1>6. /\ queue' = Append(queue, "exit") /\ Waiting' = Waiting \cup {"exit"}
      /\ sync'.snap = Flat /\ sync'.pc = sync.pc /\ (sync'.stale <=> sync.pc # "idle")
      /\ sync'.stale => Head(queue') # "exit" /\ Head(queue') = Head(queue)
  BY <1>2, <1>5, Discards DEF ExitRejected, Requesters, Epoch
<1>7. transit' \subseteq transit
  BY DEF ExitRejected, Forget
<1>8. Onward'
  BY <1>1, <1>2, OnwardFrame
<1>9. Sided'
  BY <1>1, <1>2, <1>3, Shapes DEF Sided, OneSided
<1>10. Alone'
  BY <1>1, <1>2, <1>3 DEF Alone
<1>11. Turns'
  BY <1>2, <1>5, <1>6, TurnsJoin DEF Requesters
<1>12. Epoch'
  BY <1>1, <1>3, <1>4, <1>6 DEF Epoch, EntryDone
<1>13. Numbered'
  <2>1. ~InTransit(EntryId) => ~InTransit(EntryId)'
    BY <1>1, <1>7 DEF InTransit, EntryId
  <2>2. QED
    BY <1>1, <1>2, <1>3, <1>7, <2>1 DEF Numbered, isFilled, EntryId
<1>14. Asked'
  BY <1>1, <1>2, <1>3, <1>4 DEF Asked
<1>15. JobShape'
  BY <1>3 DEF JobShape
<1>16. JobEnd'
  BY <1>3 DEF JobEnd, ExitDone, Finished
<1>17. View'
  BY <1>1, <1>2, <1>3, <1>4 DEF View, May, Entering, EntryDone, ExitDone
<1>18. Dropped'
  BY <1>3 DEF Dropped
<1>19. Booked'
  <2>1. ~Pending /\ ~Pending'
    BY <1>3 DEF Pending, ExitDone, Finished
  <2>2. \A e \in 1 .. Len(eps) : Due(e)' = 0 /\ Due(e) = 0 /\ Held(e)' = Held(e)
    BY <1>1, <2>1 DEF Due, Held
  <2>3. QED
    BY <1>1, <1>2, <2>2 DEF Booked
<1>20. Claims'
  BY <1>1, <1>2, <1>3 DEF Claims, Owed, Finished
<1>21. QED
  BY <1>8, <1>9, <1>10, <1>11, <1>12, <1>13, <1>14, <1>15, <1>16, <1>17, <1>18, <1>19, <1>20 DEF
    TameInv

(* A full exit leaves nothing: its refresh is queued. *)
LEMMA ResidualTame ==
  ASSUME BrokerInv, TameInv, Tame, xpc = "residual", xpc' = "after", afterOrder("exit"),
         UNCHANGED <<world, venueVars, cache, failures, openVars, storeVars, exits, job, xres, flipWaits, closer>>
  PROVE TameInv'
<1>1. UNCHANGED <<world, venue, eps, transit, filled, cache, failures, opener, opens, expected, meta,
  journal, exits, job, xres, flipWaits, closer>>
  BY DEF venueVars, openVars, storeVars
<1>2. /\ Sided /\ Alone /\ Turns /\ Epoch /\ Numbered /\ Asked /\ JobShape /\ JobEnd
      /\ View /\ Onward /\ Dropped /\ Booked /\ Claims
  BY DEF TameInv
<1>3. xpc = "residual" /\ xpc' = "after"
  OBVIOUS
<1>4. job # NoJob /\ opener.pc \notin {"enter", "sent", "after"}
  BY <1>2, <1>3 DEF Alone, BrokerInv, Driven
<1>5. "exit" \notin Waiting /\ "entry" \notin Waiting
  BY <1>3, <1>4 DEF BrokerInv, Chain, Where
<1>6. /\ queue' = Append(queue, "exit") /\ Waiting' = Waiting \cup {"exit"}
      /\ sync'.snap = Flat /\ sync'.pc = sync.pc /\ (sync'.stale <=> sync.pc # "idle")
      /\ sync'.stale => Head(queue') # "exit" /\ Head(queue') = Head(queue)
  BY <1>2, <1>5, Discards DEF Requesters, Epoch
<1>7. Sided' /\ Alone' /\ Numbered' /\ Asked' /\ Onward'
  BY <1>1, <1>2, SidedFrame, AloneFrame, NumberedFrame, AskedFrame, OnwardFrame
<1>8. Turns'
  BY <1>2, <1>5, <1>6, TurnsJoin DEF Requesters
<1>9. Epoch'
  BY <1>1, <1>3, <1>4, <1>6 DEF Epoch, EntryDone
<1>10. JobShape'
  BY <1>1, <1>2, <1>3 DEF JobShape, isFilled, ExitId
<1>11. JobEnd'
  BY <1>1, <1>2, <1>3 DEF JobEnd, ExitDone, Finished, isFilled, ExitId
<1>12. View'
  BY <1>1, <1>2, <1>3, <1>4 DEF View, May, Entering, EntryDone, ExitDone, isFilled, ExitId
<1>13. Dropped'
  BY <1>3 DEF Dropped
<1>14. Booked'
  <2>1. ~Pending /\ ~Pending'
    BY <1>3 DEF Pending, ExitDone, Finished
  <2>2. \A e \in 1 .. Len(eps) : Due(e)' = 0 /\ Due(e) = 0 /\ Held(e)' = Held(e)
    BY <1>1, <2>1 DEF Due, Held
  <2>3. QED
    BY <1>1, <1>2, <2>2 DEF Booked
<1>15. Claims'
  BY <1>1, <1>2, <1>3 DEF Claims, Owed, Finished
<1>16. QED
  BY <1>7, <1>8, <1>9, <1>10, <1>11, <1>12, <1>13, <1>14, <1>15 DEF TameInv

(* keepResidualManaged finds nothing on the side of the exit.              *)
LEMMA ExitResidualTame ==
  ASSUME BrokerInv, TameInv, Tame, ExitResidual \/ ExitResidualFails PROVE TameInv'
<1>1. xpc = "residual" /\ xpc' = "after" /\ afterOrder("exit")
  BY DEF ExitResidual, ExitResidualFails
<1>2. venue = Flat /\ job.sent.side \in Sides
  BY <1>1 DEF TameInv, JobShape, JobEnd, Finished
<1>3. venue.side # job.sent.side
  BY <1>2, Shapes
<1>4. meta' = meta
  BY <1>3 DEF ExitResidual, ExitResidualFails, storeVars
<1>5. UNCHANGED <<world, venueVars, cache, failures, openVars, storeVars, exits, job, xres, flipWaits, closer>>
  BY <1>4 DEF ExitResidual, ExitResidualFails, storeVars
<1>6. QED
  BY <1>1, <1>5, ResidualTame

(* The other side of a side is another one.                                *)
LEMMA OtherDiffers == ASSUME NEW s \in Sides PROVE Other(s) \in Sides /\ Other(s) # s
<1>1. \E r \in Sides : r # s
  BY DEF Sides
<1>2. QED
  BY <1>1 DEF Other

(* The exit is sized from the position and sent. *)
LEMMA ExitReadTame ==
  ASSUME BrokerInv, TameInv, Tame, ExitRead PROVE TameInv'
<1>1. UNCHANGED <<world, venue, eps, filled, cache, failures, queue, sync, opener, opens, expected,
  meta, journal, exits, xres, flipWaits, closer>>
  BY DEF ExitRead, syncVars, openVars, storeVars
<1>2. /\ Sided /\ Alone /\ Turns /\ Epoch /\ Numbered /\ Asked /\ JobShape /\ JobEnd
      /\ View /\ Onward /\ Dropped /\ Booked /\ Claims
  BY DEF TameInv
<1>3. xpc = "read" /\ venue # Flat /\ xpc' = "send"
  BY DEF ExitRead
<1>4. job # NoJob /\ opener.pc \notin {"enter", "sent", "after"}
  BY <1>2, <1>3 DEF Alone, BrokerInv, Driven
<1>5. ~isFilled(ExitId)
  BY <1>2, <1>3 DEF JobShape
<1>6. /\ job' # NoJob /\ job'.id = job.id /\ job'.reason = job.reason /\ job'.qty = job.qty
      /\ job'.sent # Flat /\ job'.sent.side = venue.side /\ job'.sent.ep = venue.ep
  <2>1. /\ job \in Jobs /\ venue \in Snapshots /\ venue.side \in Sides /\ job.id \in 1 .. exits /\ exits \in Nat
        /\ Flat.side = "FLAT" /\ "FLAT" \notin Sides /\ NoJob.id = 0
    BY <1>2, <1>3, <1>4, Shapes DEF Numbered
  <2>2. PICK size : job' = [job EXCEPT !.sent = [venue EXCEPT !.qty = size]]
    BY DEF ExitRead
  <2>3. /\ job'.id = job.id /\ job'.reason = job.reason /\ job'.qty = job.qty
        /\ job'.sent.side = venue.side /\ job'.sent.ep = venue.ep
    BY <2>1, <2>2 DEF Jobs, Snapshots
  <2>4. QED
    BY <2>1, <2>3
<1>7. transit' = transit \cup {[id |-> <<"exit", job.id>>, side |-> Other(venue.side),
                               qty |-> IF job.qty = 0 THEN venue.qty ELSE job.qty, reduceOnly |-> TRUE]}
  <2>1. job.qty \in Nat /\ venue.qty \in Nat /\ (job.qty # 0 => job.qty < venue.qty)
    BY <1>2, <1>3, <1>4, <1>5, Shapes DEF JobShape, Jobs, Snapshots
  <2>2. (IF job.qty = 0 THEN venue.qty ELSE Least(job.qty, venue.qty)) = (IF job.qty = 0 THEN venue.qty ELSE job.qty)
    BY <2>1 DEF Least
  <2>3. QED
    BY <1>5, <2>2 DEF ExitRead, ExitId
<1>8. Other(venue.side) # venue.side
  BY <1>3, Shapes, OtherDiffers
<1>9. Onward'
  BY <1>1, <1>2, OnwardFrame
<1>10. Sided'
  BY <1>1, <1>2, <1>6 DEF Sided, OneSided
<1>11. Alone'
  BY <1>1, <1>2, <1>4 DEF Alone
<1>12. Turns'
  BY <1>1, <1>2, <1>3 DEF Turns, Waiting
<1>13. Epoch'
  BY <1>1, <1>2, <1>3, <1>4 DEF Epoch, EntryDone
<1>14. Numbered'
  <2>1. job.id \in 1 .. exits /\ exits \in Nat
    BY <1>2, <1>4, Shapes DEF Numbered
  <2>2. \A x \in transit' \cup filled' : x.id[2] <= (IF x.id[1] = "exit" THEN exits' ELSE opens')
    BY <1>1, <1>2, <1>7, <2>1 DEF Numbered
  <2>3. \A f \in filled', x \in transit' : f.id # x.id
    BY <1>1, <1>2, <1>5, <1>7 DEF Numbered, isFilled, ExitId
  <2>4. ~InTransit(EntryId) => ~InTransit(EntryId)'
    BY <1>1, <1>7 DEF InTransit, EntryId
  <2>5. QED
    BY <1>1, <1>2, <1>4, <1>6, <2>1, <2>2, <2>3, <2>4 DEF Numbered, isFilled, EntryId
<1>15. Asked'
  <2>1. \A x \in transit' : x.id = ExitId' =>
          x.reduceOnly /\ x.side # venue.side /\ x.qty = IF job.qty = 0 THEN venue.qty ELSE job.qty
    BY <1>2, <1>4, <1>6, <1>7, <1>8 DEF Asked, ExitId
  <2>2. QED
    BY <1>1, <1>3, <1>4, <1>6, <2>1 DEF Asked
<1>16. JobShape'
  BY <1>1, <1>2, <1>3, <1>4, <1>5, <1>6 DEF JobShape, isFilled, ExitId
<1>17. JobEnd'
  BY <1>1, <1>3, <1>5, <1>6 DEF JobEnd, ExitDone, Finished, isFilled, ExitId
<1>18. View'
  BY <1>1, <1>2, <1>3, <1>4, <1>5 DEF View, May, Entering, EntryDone, ExitDone, JobShape
<1>19. Dropped'
  BY <1>3 DEF Dropped
<1>20. Booked'
  <2>1. ~isFilled(ExitId)'
    BY <1>1, <1>5, <1>6 DEF isFilled, ExitId
  <2>2. ~Pending /\ ~Pending'
    BY <1>5, <2>1 DEF Pending, ExitDone
  <2>3. \A e \in 1 .. Len(eps) : Due(e)' = 0 /\ Due(e) = 0 /\ Held(e)' = Held(e)
    BY <1>1, <2>2 DEF Due, Held
  <2>4. QED
    BY <1>1, <1>2, <2>3 DEF Booked
<1>21. Claims'
  BY <1>1, <1>2, <1>3 DEF Claims, Owed, Finished
<1>22. QED
  BY <1>9, <1>10, <1>11, <1>12, <1>13, <1>14, <1>15, <1>16, <1>17, <1>18, <1>19, <1>20, <1>21 DEF
    TameInv

(* The fill of an exit is journaled, once. *)
LEMMA CompleteTame ==
  ASSUME BrokerInv, TameInv, Tame, ExitComplete PROVE TameInv'
<1>1. UNCHANGED <<world, venue, eps, transit, filled, cache, failures, opener, opens, expected, exits,
  job, flipWaits, closer>>
  BY DEF ExitComplete, venueVars, openVars
<1>2. /\ Sided /\ Alone /\ Turns /\ Epoch /\ Numbered /\ Asked /\ JobShape /\ JobEnd
      /\ View /\ Onward /\ Dropped /\ Booked /\ Claims
  BY DEF TameInv
<1>3. /\ xpc \in {"lookup", "send"} /\ isFilled(ExitId)
      /\ \/ queue' = queue /\ sync' = sync /\ xpc' = "residual" /\ job.qty = 0
         \/ afterOrder("exit") /\ xpc' = "after"
      /\ meta' = IF job.qty = 0 THEN NoMeta ELSE meta
  <2>1. xpc \in {"lookup", "send"} /\ isFilled(ExitId)
    BY DEF ExitComplete
  <2>2. isFullExit <=> job.qty = 0
    BY <1>2, <2>1 DEF isFullExit, JobShape, BrokerInv, Driven
  <2>3. QED
    BY <2>1, <2>2 DEF ExitComplete
<1>4. job # NoJob /\ opener.pc \notin {"enter", "sent", "after"}
  BY <1>2, <1>3 DEF Alone, BrokerInv, Driven
<1>5. "exit" \notin Waiting /\ "entry" \notin Waiting
  BY <1>3, <1>4 DEF BrokerInv, Chain, Where
<1>6. ASSUME afterOrder("exit") PROVE
      /\ queue' = Append(queue, "exit") /\ Waiting' = Waiting \cup {"exit"}
      /\ sync'.snap = Flat /\ sync'.pc = sync.pc /\ (sync'.stale <=> sync.pc # "idle")
      /\ sync'.stale => Head(queue') # "exit" /\ Head(queue') = Head(queue)
  BY <1>2, <1>5, <1>6, Discards DEF Requesters, Epoch
<1>7. /\ journal' = [journal EXCEPT ![job.sent.ep] = @ + FillOf(ExitId).qty]
      /\ FillOf(ExitId).qty \in Nat /\ job.sent.ep \in 1 .. Len(eps)
  <2>1. FillOf(ExitId) \in filled
    BY <1>3 DEF isFilled, FillOf
  <2>2. FillOf(ExitId).qty \in Nat
    BY <2>1, Shapes DEF Fills
  <2>3. job.sent.ep \in 1 .. Len(eps)
    BY <1>2, <1>3, <1>4 DEF JobEnd, ExitDone
  <2>4. QED
    BY <2>2, <2>3 DEF ExitComplete, Journaled
<1>8. Sided' /\ Alone' /\ Numbered' /\ Asked' /\ Onward'
  BY <1>1, <1>2, SidedFrame, AloneFrame, NumberedFrame, AskedFrame, OnwardFrame
<1>9. Turns'
  <2>1. CASE queue' = queue /\ xpc' = "residual"
    BY <1>2, <2>1 DEF Turns
  <2>2. CASE afterOrder("exit")
    BY <1>2, <1>5, <1>6, <2>2, TurnsJoin DEF Requesters
  <2>3. QED
    BY <1>3, <2>1, <2>2
<1>10. Epoch'
  <2>1. CASE queue' = queue /\ sync' = sync /\ xpc' = "residual"
    BY <1>1, <1>2, <2>1 DEF Epoch, EntryDone, isFilled, EntryId
  <2>2. CASE afterOrder("exit")
    BY <1>1, <1>4, <1>6, <2>2 DEF Epoch
  <2>3. QED
    BY <1>3, <2>1, <2>2
<1>11. JobShape'
  BY <1>1, <1>2, <1>3 DEF JobShape, isFilled, ExitId
<1>12. JobEnd'
  BY <1>1, <1>2, <1>3, <1>4 DEF JobEnd, ExitDone, Finished, isFilled, ExitId
<1>13. View'
  BY <1>1, <1>2, <1>3, <1>4 DEF View, May, Entering, EntryDone, ExitDone, isFilled, ExitId
<1>14. Dropped'
  BY <1>3 DEF Dropped
<1>15. Booked'
  <2>1. Pending /\ ~Pending'
    BY <1>3, <1>4 DEF Pending, ExitDone, Finished
  <2>2. \A e \in 1 .. Len(eps) :
          /\ Due(e)' = 0 /\ Due(e) = (IF e = job.sent.ep THEN FillOf(ExitId).qty ELSE 0)
          /\ Held(e)' = Held(e)
    BY <1>1, <2>1 DEF Due, Held
  <2>3. ASSUME NEW e \in 1 .. Len(eps) PROVE journal'[e] + Held(e)' + Due(e)' <= eps'[e].size
    <3>1. e \in 0 .. MaxEp /\ Held(e) \in Nat /\ journal[e] \in Nat
      BY Sizes
    <3>2. journal'[e] = journal[e] + (IF e = job.sent.ep THEN FillOf(ExitId).qty ELSE 0)
      <4>1. journal \in [0 .. MaxEp -> Nat]
        BY Shapes
      <4>2. CASE e = job.sent.ep
        BY <1>7, <3>1, <4>1, <4>2
      <4>3. CASE e # job.sent.ep
        <5>1. journal'[e] = journal[e]
          BY <1>7, <3>1, <4>1, <4>3
        <5>2. QED
          BY <3>1, <4>3, <5>1
      <4>4. QED
        BY <4>2, <4>3
    <3>3. journal[e] + Held(e) + Due(e) <= eps[e].size
      BY <1>2 DEF Booked
    <3>4. QED
      BY <1>1, <1>7, <2>2, <3>1, <3>2, <3>3
  <2>4. \A e \in 0 .. MaxEp : e > Len(eps) => journal'[e] = 0
    BY <1>2, <1>7, Shapes DEF Booked
  <2>5. QED
    BY <1>1, <2>3, <2>4 DEF Booked
<1>16. Claims'
  <2>1. CASE job.qty = 0
    <3>1. meta' = NoMeta /\ Finished'
      BY <1>3, <2>1 DEF Finished
    <3>2. QED
      BY <1>1, <2>1, <3>1 DEF Claims
  <2>2. CASE job.qty # 0
    <3>1. venue.ep = job.sent.ep
      BY <1>2, <1>3, <1>4, <2>2 DEF JobEnd, ExitDone
    <3>2. ASSUME NEW s, Owed(s) PROVE
            s # Flat =>
              /\ s.ep \in 1 .. Len(eps) /\ s.side \in Sides
              /\ s.ep = venue.ep => s.side = venue.side
              /\ s.ep # venue.ep => journal'[s.ep] + s.qty <= eps[s.ep].size
      <4>1. s # Flat /\ s.ep # venue.ep => journal'[s.ep] = journal[s.ep]
        BY <1>7, <3>1, <3>2, Shapes DEF Owed
      <4>2. QED
        BY <3>2, <4>1 DEF Owed
    <3>3. Owed(cache) /\ (meta # NoMeta => Owed(meta.seen)) /\ (meta' = NoMeta \/ meta' = meta)
      BY <1>2, <1>3 DEF Claims, Finished
    <3>4. Owed(cache)'
      BY <1>1, <3>2, <3>3 DEF Owed
    <3>5. (meta # NoMeta => Owed(meta.seen))'
      BY <1>1, <3>2, <3>3 DEF Owed
    <3>6. QED
      BY <3>4, <3>5 DEF Claims
  <2>3. QED
    BY <2>1, <2>2
<1>17. QED
  BY <1>8, <1>9, <1>10, <1>11, <1>12, <1>13, <1>14, <1>15, <1>16 DEF TameInv

(* A call of the driver fails: whoever waits is rejected, the job stays. *)
LEMMA OutageTame ==
  ASSUME BrokerInv, TameInv, Tame, ExitOutage PROVE TameInv'
<1>1. UNCHANGED <<world, venue, eps, filled, cache, failures, queue, sync, opens, expected, meta,
  journal, exits>>
  BY DEF ExitOutage, syncVars, storeVars
<1>2. /\ Sided /\ Alone /\ Turns /\ Epoch /\ Numbered /\ Asked /\ JobShape /\ JobEnd
      /\ View /\ Onward /\ Dropped /\ Booked /\ Claims
  BY DEF TameInv
<1>3. xpc \in {"lookup", "read", "send"} /\ May("lost") /\ xpc' = "none" /\ OneSided
  BY DEF ExitOutage, Settle, Tame
<1>4. job # NoJob /\ opener.pc \notin {"enter", "sent", "after"}
  BY <1>2, <1>3 DEF Alone, BrokerInv, Driven
<1>5. opener' = opener /\ (job' = job \/ (job' = NoJob /\ job.reason = "CLOSE"))
  <2>1. ~flipWaits
    BY <1>2, <1>3 DEF BrokerInv, Flipping, Sided
  <2>2. QED
    BY <2>1 DEF ExitOutage, Settle
<1>6. transit' \subseteq transit
  BY DEF ExitOutage, Forget
<1>7. Sided'
  BY <1>1, <1>2, <1>3, <1>5, Shapes DEF Sided, OneSided
<1>8. Alone'
  BY <1>1, <1>2, <1>4, <1>5 DEF Alone
<1>9. Turns'
  BY <1>1, <1>2, <1>3 DEF Turns, Waiting
<1>10. Epoch'
  BY <1>1, <1>2, <1>3, <1>5 DEF Epoch, EntryDone, isFilled, EntryId
<1>11. Numbered'
  <2>1. /\ ~InTransit(EntryId) => ~InTransit(EntryId)'
        /\ job' = job /\ ~InTransit(ExitId) => ~InTransit(ExitId)'
        /\ job' = job /\ ~isFilled(ExitId) => ~isFilled(ExitId)'
    BY <1>1, <1>5, <1>6 DEF InTransit, isFilled, EntryId, ExitId
  <2>2. QED
    BY <1>1, <1>2, <1>5, <1>6, <2>1, Shapes DEF Numbered, isFilled, EntryId
<1>12. Asked'
  BY <1>1, <1>2, <1>4, <1>5, <1>6 DEF Asked, ExitId
<1>13. JobShape'
  BY <1>1, <1>2, <1>3, <1>5, Shapes DEF JobShape, isFilled, ExitId
<1>14. JobEnd'
  BY <1>1, <1>2, <1>3, <1>5, Shapes DEF JobEnd, ExitDone, Finished, isFilled, ExitId
<1>15. View'
  <2>1. CASE job' = job
    BY <1>1, <1>2, <1>4, <1>5, <2>1 DEF View, May, Entering, EntryDone, ExitDone, isFilled, ExitId, EntryId
  <2>2. CASE job' = NoJob /\ job.reason = "CLOSE"
    <3>1. job.qty = 0
      BY <1>2, <1>4, <2>2 DEF JobShape
    <3>2. ExitDone => venue = Flat
      BY <1>2, <3>1 DEF JobEnd
    <3>3. QED
      BY <1>1, <1>2, <1>3, <1>4, <1>5, <3>2 DEF View, May, Entering, EntryDone
  <2>3. QED
    BY <1>5, <2>1, <2>2
<1>16. Onward'
  BY <1>1, <1>2, <1>5 DEF Onward, EntryDone, isFilled, EntryId, FillOf
<1>17. Dropped'
  BY <1>3 DEF Dropped
<1>18. Booked'
  <2>1. ASSUME NEW e \in 1 .. Len(eps) PROVE Held(e)' = Held(e) /\ Due(e)' <= Due(e) /\ Due(e)' \in Nat /\ Due(e) \in Nat
    <3>2. job' = job => Due(e)' = Due(e)
      BY <1>1, <1>3 DEF Due, Pending, ExitDone, Finished, isFilled, FillOf, ExitId
    <3>3. job' = NoJob => Due(e)' = 0
      BY DEF Due, Pending, ExitDone
    <3>4. Due(e) \in Nat
      BY Sizes
    <3>5. Held(e)' = Held(e)
      BY <1>1 DEF Held
    <3>6. QED
      BY <1>5, <3>2, <3>3, <3>4, <3>5
  <2>2. ASSUME NEW e \in 1 .. Len(eps) PROVE Held(e) \in Nat /\ journal[e] \in Nat /\ eps[e].size \in Nat
    BY Sizes
  <2>3. QED
    BY <1>1, <1>2, <2>1, <2>2 DEF Booked
<1>19. Claims'
  BY <1>1, <1>2, <1>3 DEF Claims, Owed, Finished
<1>20. QED
  BY <1>7, <1>8, <1>9, <1>10, <1>11, <1>12, <1>13, <1>14, <1>15, <1>16, <1>17, <1>18, <1>19 DEF
    TameInv

(* The process starts again with what the sidecar holds. *)
LEMMA RestartTame ==
  ASSUME BrokerInv, TameInv, Tame, Restart PROVE TameInv'
<1>1. UNCHANGED <<world, venue, eps, transit, filled, opens, meta, journal, exits>>
  BY DEF Restart, venueVars
<1>2. /\ Sided /\ Alone /\ Turns /\ Epoch /\ Numbered /\ Asked /\ JobShape /\ JobEnd
      /\ View /\ Onward /\ Dropped /\ Booked /\ Claims
  BY DEF TameInv
<1>3. /\ cache' = Flat /\ queue' = <<>> /\ sync' = IdleSync /\ opener'.pc = "idle" /\ job' = NoJob
      /\ xpc' = "none"
  BY DEF Restart, IdleOpen
<1>4. Sided'
  BY <1>1, <1>2, <1>3, Shapes DEF Sided, OneSided
<1>5. Alone'
  BY <1>1, <1>2, <1>3 DEF Alone
<1>6. Turns'
  BY <1>3 DEF Turns
<1>7. Epoch'
  BY <1>3, Shapes DEF Epoch
<1>8. Numbered'
  BY <1>1, <1>2, <1>3 DEF Numbered
<1>9. Asked'
  BY <1>1, <1>3 DEF Asked
<1>10. JobShape'
  BY <1>3 DEF JobShape
<1>11. JobEnd'
  BY <1>3 DEF JobEnd, ExitDone, Finished
<1>12. View'
  BY <1>1, <1>3, Shapes DEF View, Entering, EntryDone
<1>13. Onward'
  BY <1>3 DEF Onward, EntryDone
<1>14. Dropped'
  BY <1>3 DEF Dropped
<1>15. Booked'
  <2>1. ASSUME NEW e \in 1 .. Len(eps) PROVE Held(e)' = Held(e) /\ Due(e)' = 0 /\ Due(e) \in Nat
    <3>2. Due(e)' = 0
      BY <1>3 DEF Due, Pending, ExitDone
    <3>3. Due(e) \in Nat
      BY Sizes
    <3>4. Held(e)' = Held(e)
      BY <1>1 DEF Held
    <3>5. QED
      BY <3>2, <3>3, <3>4
  <2>2. ASSUME NEW e \in 1 .. Len(eps) PROVE Held(e) \in Nat /\ journal[e] \in Nat /\ eps[e].size \in Nat
    BY Sizes
  <2>3. QED
    BY <1>1, <1>2, <2>1, <2>2 DEF Booked
<1>16. Claims'
  BY <1>1, <1>2, <1>3 DEF Claims, Owed
<1>17. QED
  BY <1>4, <1>5, <1>6, <1>7, <1>8, <1>9, <1>10, <1>11, <1>12, <1>13, <1>14, <1>15, <1>16 DEF
    TameInv

(* Where no order executes late, only awaited orders execute, once.         *)
LEMMA Awaits ==
  ASSUME BrokerInv, TameInv, Tame, NEW o \in transit, Execute(o)
  PROVE  /\ Awaited(o.id) /\ ~isFilled(o.id) /\ o \in Orders /\ transit' = {x \in transit : x.id # o.id}
         /\ UNCHANGED <<world, cache, failures, queue, sync, opener, opens, expected, meta, journal,
                        exits, job, xpc, xres, flipWaits, closer>>
<1>1. ~May("late") /\ ~May("async")
  BY DEF Tame, May
<1>2. \A f \in filled : f.id # o.id
  BY DEF TameInv, Numbered
<1>3. QED
  BY <1>1, <1>2, Shapes DEF Execute, isFilled, Forget, syncVars, openVars, storeVars, exitVars

(* What a new fill adds to the numbers in use.                             *)
LEMMA NumberedFill ==
  ASSUME BrokerInv, Numbered, NEW o \in transit, NEW f, f.id = o.id, ~isFilled(o.id),
         filled' = filled \cup {f}, transit' = {x \in transit : x.id # o.id},
         UNCHANGED <<exits, opens, job, opener>>,
         job # NoJob /\ o.id = ExitId => job.sent # Flat,
         o.id = EntryId => opener.pc \notin {"sync", "decide", "flip", "enter"}
  PROVE  Numbered'
<1>1. \A x \in transit' \cup filled' : x.id[2] <= (IF x.id[1] = "exit" THEN exits' ELSE opens')
  BY DEF Numbered
<1>2. \A g, h \in filled' : g.id = h.id => g = h
  BY DEF Numbered, isFilled
<1>3. \A g \in filled', x \in transit' : g.id # x.id
  BY DEF Numbered
<1>4. /\ o.id # ExitId /\ ~isFilled(ExitId) => ~isFilled(ExitId)'
      /\ ~InTransit(ExitId) => ~InTransit(ExitId)'
  BY DEF isFilled, InTransit, ExitId
<1>5. /\ o.id # EntryId /\ ~isFilled(EntryId) => ~isFilled(EntryId)'
      /\ ~InTransit(EntryId) => ~InTransit(EntryId)'
  BY DEF isFilled, InTransit, EntryId
<1>6. QED
  BY <1>1, <1>2, <1>3, <1>4, <1>5 DEF Numbered

(* The order of the exit job executes: it takes what it asked for. *)
LEMMA ExitExecutesTame ==
  ASSUME BrokerInv, TameInv, Tame, NEW o \in transit, Execute(o), xpc = "send", o.id = ExitId PROVE TameInv'
<1>1. UNCHANGED <<world, cache, failures, queue, sync, opener, opens, expected, meta, journal, exits,
  job, xpc, xres, flipWaits, closer>>
  BY DEF Execute, syncVars, openVars, storeVars, exitVars
<1>2. /\ Sided /\ Alone /\ Turns /\ Epoch /\ Numbered /\ Asked /\ JobShape /\ JobEnd
      /\ View /\ Onward /\ Dropped /\ Booked /\ Claims
  BY DEF TameInv
<1>3. /\ Awaited(o.id) /\ ~isFilled(o.id) /\ o \in Orders /\ transit' = {x \in transit : x.id # o.id}
      /\ xpc = "send" /\ o.id = ExitId
  BY Awaits
<1>4. /\ job # NoJob /\ opener.pc \notin {"enter", "sent", "after"} /\ venue # Flat /\ cache = venue
      /\ job.sent # Flat /\ job.sent.ep = venue.ep /\ job.sent.side = venue.side
  <2>1. job # NoJob
    BY <1>3 DEF BrokerInv, Driven
  <2>2. job.sent # Flat /\ venue # Flat /\ job.sent.ep = venue.ep /\ job.sent.side = venue.side
    BY <1>2, <1>3, <2>1 DEF JobShape
  <2>3. QED
    BY <1>2, <1>3, <2>1, <2>2 DEF Alone, JobShape
<1>5. o.reduceOnly /\ o.side # venue.side /\ o.qty = IF job.qty = 0 THEN venue.qty ELSE job.qty
  BY <1>2, <1>3, <1>4 DEF Asked
<1>6. /\ eps' = eps /\ venue' = IF job.qty = 0 THEN Flat ELSE [venue EXCEPT !.qty = venue.qty - job.qty]
      /\ filled' = filled \cup {[id |-> o.id, qty |-> IF job.qty = 0 THEN venue.qty ELSE job.qty, ep |-> venue.ep]}
  <2>1. venue.qty \in Nat /\ job.qty \in Nat /\ (job.qty # 0 => job.qty < venue.qty)
    BY <1>2, <1>3, <1>4, Shapes DEF JobShape, Snapshots, Jobs
  <2>2. Least(o.qty, venue.qty) = IF job.qty = 0 THEN venue.qty ELSE job.qty
    BY <1>5, <2>1 DEF Least
  <2>3. Executed(o.side, Least(o.qty, venue.qty), TRUE)
    BY <1>5 DEF Execute
  <2>4. eps' = eps /\ venue' = IF job.qty = 0 THEN Flat ELSE [venue EXCEPT !.qty = venue.qty - job.qty]
    BY <1>4, <1>5, <2>1, <2>2, <2>3 DEF Executed
  <2>5. QED
    BY <1>5, <2>2, <2>4 DEF Execute
<1>7. PICK f : f.id = o.id /\ filled' = filled \cup {f}
  <2>1. [id |-> o.id, qty |-> IF job.qty = 0 THEN venue.qty ELSE job.qty, ep |-> venue.ep].id = o.id
    OBVIOUS
  <2>2. QED
    BY <1>6, <2>1
<1>8. isFilled(ExitId)'
  <2>1. f.id = ExitId' /\ f \in filled'
    BY <1>1, <1>3, <1>7 DEF ExitId
  <2>2. QED
    BY <2>1 DEF isFilled
<1>9. /\ job.qty = 0 => venue' = Flat
      /\ job.qty # 0 => venue' # Flat /\ venue'.side = venue.side /\ venue'.ep = venue.ep
  <2>1. venue \in Snapshots /\ venue.side \in Sides /\ Flat.side = "FLAT" /\ "FLAT" \notin Sides
    BY <1>4, Shapes
  <2>2. job.qty # 0 => venue'.side = venue.side /\ venue'.ep = venue.ep
    BY <1>6, <2>1 DEF Snapshots
  <2>3. QED
    BY <1>6, <2>1, <2>2
<1>10. Alone' /\ Turns'
  BY <1>1, <1>2, AloneFrame, TurnsFrame
<1>11. Sided'
  BY <1>1, <1>2, <1>4, <1>9 DEF Sided, OneSided
<1>12. Epoch'
  BY <1>1, <1>2, <1>3, <1>4 DEF Epoch, EntryDone
<1>13. Numbered'
  BY <1>1, <1>2, <1>3, <1>4, <1>7, NumberedFill DEF ExitId, EntryId
<1>14. Asked'
  BY <1>1, <1>3, <1>4, <1>5 DEF Asked, ExitId
<1>15. JobShape'
  BY <1>1, <1>2, <1>3, <1>8 DEF JobShape
<1>16. JobEnd'
  BY <1>1, <1>3, <1>4, <1>6, <1>8, <1>9, Shapes DEF JobEnd, ExitDone, Finished
<1>17. View'
  BY <1>1, <1>2, <1>3, <1>4, <1>8 DEF View, ExitDone
<1>18. Onward'
  BY <1>1, <1>4 DEF Onward, EntryDone
<1>19. Dropped'
  BY <1>1, <1>3 DEF Dropped
<1>20. Booked'
  <2>1. ~Pending /\ Pending'
    BY <1>1, <1>3, <1>4, <1>5, <1>8 DEF Pending, ExitDone, Finished
  <2>2. FillOf(ExitId)' = [id |-> o.id, qty |-> IF job.qty = 0 THEN venue.qty ELSE job.qty, ep |-> venue.ep]
    <3>1. ExitId' = ExitId
      BY <1>1 DEF ExitId
    <3>2. \A g \in filled : g.id # ExitId
      BY <1>3, <1>5 DEF isFilled
    <3>3. QED
      BY <1>3, <1>6, <3>1, <3>2 DEF FillOf
  <2>3. ASSUME NEW e \in 1 .. Len(eps) PROVE Held(e)' + Due(e)' = Held(e) + Due(e)
    <3>1. Due(e) = 0 /\ Due(e)' = IF venue.ep = e THEN IF job.qty = 0 THEN venue.qty ELSE job.qty ELSE 0
      BY <1>1, <1>4, <2>1, <2>2 DEF Due
    <3>2. /\ venue.qty \in Nat /\ job.qty \in Nat /\ Flat.ep = 0 /\ Flat.qty = 0 /\ venue \in Snapshots
      BY Shapes DEF Snapshots, Jobs
    <3>3. CASE job.qty = 0
      <4>1. Held(e)' = 0
        BY <1>6, <3>2, <3>3 DEF Held
      <4>2. QED
        BY <3>1, <3>2, <3>3, <4>1 DEF Held
    <3>4. CASE job.qty # 0
      <4>1. venue'.qty = venue.qty - job.qty /\ venue'.ep = venue.ep
        BY <1>6, <3>2, <3>4 DEF Snapshots
      <4>2. QED
        BY <3>1, <3>2, <3>4, <4>1 DEF Held
    <3>5. QED
      BY <3>3, <3>4
  <2>4. \A e \in 1 .. Len(eps) : Held(e)' \in Nat /\ Due(e)' \in Nat
    <3>1. venue'.qty \in Nat
      <4>1. venue \in Snapshots /\ venue.qty \in Nat /\ job.qty \in Nat /\ Flat.qty = 0
        BY Shapes DEF Snapshots, Jobs
      <4>2. job.qty # 0 => job.qty < venue.qty
        BY <1>2, <1>3, <1>4 DEF JobShape
      <4>3. QED
        BY <1>6, <4>1, <4>2 DEF Snapshots
    <3>2. FillOf(ExitId)'.qty \in Nat
      BY <2>2, Shapes DEF Snapshots, Jobs
    <3>3. QED
      BY <3>1, <3>2 DEF Held, Due
  <2>5. ASSUME NEW e \in 1 .. Len(eps) PROVE journal[e] + Held(e)' + Due(e)' <= eps[e].size
    <3>1. journal[e] + Held(e) + Due(e) <= eps[e].size
      BY <1>2 DEF Booked
    <3>2. journal[e] \in Nat /\ Held(e) \in Nat /\ Due(e) \in Nat /\ eps[e].size \in Nat
      BY Sizes
    <3>3. Held(e)' \in Nat /\ Due(e)' \in Nat
      BY <2>4
    <3>4. Held(e)' + Due(e)' = Held(e) + Due(e)
      BY <2>3
    <3>5. \A j, h, d, k, c, n \in Nat : k + c = h + d /\ j + h + d <= n => j + k + c <= n
      OBVIOUS
    <3> HIDE DEF Held, Due
    <3>6. QED
      BY <3>1, <3>2, <3>3, <3>4, <3>5
  <2>6. QED
    BY <1>1, <1>2, <1>6, <2>5 DEF Booked
<1>21. Claims'
  <2>1. (meta # NoMeta => meta.seen = venue) /\ cache = venue
    BY <1>2, <1>4 DEF View
  <2>2. venue.ep \in 1 .. Len(eps) /\ venue.side \in Sides
    BY <1>4, Shapes
  <2>3. CASE job.qty = 0
    <3>1. venue'.ep = 0
      BY <1>6, <2>3, Shapes
    <3>2. journal[venue.ep] + venue.qty <= eps[venue.ep].size
      <4>1. journal[venue.ep] + Held(venue.ep) + Due(venue.ep) <= eps[venue.ep].size
        BY <1>2, <2>2 DEF Booked
      <4>2. Held(venue.ep) = venue.qty
        BY DEF Held
      <4>3. QED
        BY <2>2, <4>1, <4>2, Sizes
    <3>3. QED
      BY <1>1, <1>6, <2>1, <2>2, <3>1, <3>2 DEF Claims, Owed
  <2>4. CASE job.qty # 0
    <3>1. venue'.ep = venue.ep /\ venue'.side = venue.side
      BY <1>6, <2>4, Shapes DEF Snapshots
    <3>2. QED
      BY <1>1, <1>6, <2>1, <2>2, <3>1 DEF Claims, Owed
  <2>5. QED
    BY <2>3, <2>4
<1>22. QED
  BY <1>10, <1>11, <1>12, <1>13, <1>14, <1>15, <1>16, <1>17, <1>18, <1>19, <1>20, <1>21 DEF TameInv

(* An entry opens a new episode or grows the position of its side.         *)
LEMMA EntryGrows ==
  ASSUME BrokerInv, TameInv, Tame, NEW o \in transit, Execute(o), opener.pc = "sent", o.id = EntryId
  PROVE  /\ \/ /\ venue = Flat /\ eps' = Append(eps, [size |-> o.qty, own |-> TRUE])
               /\ venue' = [side |-> opener.side, qty |-> o.qty, ep |-> Len(eps) + 1]
            \/ /\ venue # Flat /\ venue.side = opener.side
               /\ eps' = [eps EXCEPT ![venue.ep].size = @ + o.qty]
               /\ venue' = [side |-> opener.side, qty |-> venue.qty + o.qty, ep |-> venue.ep]
         /\ opener.side \in Sides /\ o.qty \in Nat
         /\ filled' = filled \cup {[id |-> o.id, qty |-> o.qty, ep |-> venue'.ep]}
<1>1. o \in Orders /\ o.side = opener.side /\ ~o.reduceOnly
  BY Shapes DEF TameInv, Asked
<1>2. opener.side \in Sides /\ o.qty \in Nat
  BY <1>1 DEF Orders
<1>3. ~isFilled(EntryId)
  BY Awaits
<1>4. venue = Flat \/ (venue # Flat /\ venue.side = opener.side)
  BY <1>3 DEF TameInv, Onward
<1>5. Executed(opener.side, o.qty, TRUE) /\ filled' = filled \cup {[id |-> o.id, qty |-> o.qty, ep |-> venue'.ep]}
  BY <1>1 DEF Execute
<1>6. Flat.qty = 0
  BY Shapes
<1>7. QED
  BY <1>2, <1>4, <1>5, <1>6 DEF Executed

(* The entry on its way executes: a new position, or more of the same. *)
LEMMA EntryExecutesTame ==
  ASSUME BrokerInv, TameInv, Tame, NEW o \in transit, Execute(o), opener.pc = "sent", o.id = EntryId PROVE TameInv'
<1>1. UNCHANGED <<world, cache, failures, queue, sync, opener, opens, expected, meta, journal, exits,
  job, xpc, xres, flipWaits, closer>>
  BY DEF Execute, syncVars, openVars, storeVars, exitVars
<1>2. /\ Sided /\ Alone /\ Turns /\ Epoch /\ Numbered /\ Asked /\ JobShape /\ JobEnd
      /\ View /\ Onward /\ Dropped /\ Booked /\ Claims
  BY DEF TameInv
<1>3. /\ ~isFilled(o.id) /\ o \in Orders /\ transit' = {x \in transit : x.id # o.id}
      /\ opener.pc = "sent" /\ o.id = EntryId /\ o.qty \in Nat /\ opener.side \in Sides
  BY Awaits, EntryGrows
<1>4. job = NoJob /\ xpc \notin {"lookup", "read", "send", "residual", "after"}
  BY <1>2, <1>3 DEF Alone, BrokerInv, Driven
<1>5. \/ /\ venue = Flat /\ eps' = Append(eps, [size |-> o.qty, own |-> TRUE])
         /\ venue' = [side |-> opener.side, qty |-> o.qty, ep |-> Len(eps) + 1]
      \/ /\ venue # Flat /\ venue.side = opener.side
         /\ eps' = [eps EXCEPT ![venue.ep].size = @ + o.qty]
         /\ venue' = [side |-> opener.side, qty |-> venue.qty + o.qty, ep |-> venue.ep]
  BY EntryGrows
<1>6. venue' # Flat /\ venue'.side = opener.side
  <2>1. venue'.side = opener.side
    BY <1>5
  <2>2. QED
    BY <1>3, <2>1, Shapes
<1>7. PICK f : f.id = o.id /\ f.ep = venue'.ep /\ filled' = filled \cup {f}
  <2>1. /\ [id |-> o.id, qty |-> o.qty, ep |-> venue'.ep].id = o.id
        /\ [id |-> o.id, qty |-> o.qty, ep |-> venue'.ep].ep = venue'.ep
    OBVIOUS
  <2>2. QED
    BY <2>1, EntryGrows
<1>8. EntryDone'
  <2>1. f.id = EntryId' /\ f \in filled'
    BY <1>1, <1>3, <1>7 DEF EntryId
  <2>2. QED
    BY <1>1, <1>3, <2>1 DEF EntryDone, isFilled
<1>9. eps' \in Seq([size : Nat, own : BOOLEAN]) /\ Len(eps') <= MaxEp
  <2>1. Types /\ [Next]_vars
    BY DEF BrokerInv, Next
  <2>2. ExchangeTypes'
    BY <2>1, ExchangeKept
  <2>3. eps' \in Seq([size : Nat, own : BOOLEAN]) /\ Len(eps') <= world.episodes
    BY <1>1, <2>2 DEF ExchangeTypes
  <2>4. world.episodes \in 0 .. MaxEp /\ MaxEp \in Nat
    BY Shapes, Constants
  <2>5. QED
    BY <2>3, <2>4
<1>10. \A e \in 1 .. Len(eps) : eps[e] \in [size : Nat, own : BOOLEAN]
  <2>1. ASSUME NEW S, NEW s \in Seq(S), NEW i \in 1 .. Len(s) PROVE s[i] \in S
    OBVIOUS
  <2>2. QED
    BY <2>1, Shapes
<1>11. Alone' /\ Turns'
  BY <1>1, <1>2, AloneFrame, TurnsFrame
<1>12. Sided'
  BY <1>1, <1>2, <1>3, <1>6 DEF Sided, OneSided
<1>13. Epoch'
  BY <1>1, <1>2, <1>8 DEF Epoch
<1>14. Numbered'
  <2>1. /\ Numbered /\ f.id = o.id /\ ~isFilled(o.id) /\ filled' = filled \cup {f}
        /\ transit' = {x \in transit : x.id # o.id} /\ UNCHANGED <<exits, opens, job, opener>>
    BY <1>1, <1>2, <1>3, <1>7
  <2>2. o.id # ExitId
    <3>1. o.id[1] = "entry" /\ ExitId[1] = "exit"
      BY <1>3 DEF ExitId, EntryId
    <3>2. QED
      BY <3>1
  <2>3. opener.pc \notin {"sync", "decide", "flip", "enter"}
    BY <1>3
  <2>4. QED
    BY <2>1, <2>2, <2>3, NumberedFill
<1>15. Asked'
  <2>1. transit' \subseteq transit
    BY <1>3
  <2>2. QED
    BY <1>1, <1>2, <1>4, <2>1 DEF Asked, EntryId
<1>16. JobShape'
  BY <1>1, <1>2, <1>4 DEF JobShape
<1>17. JobEnd'
  BY <1>1, <1>2, <1>4 DEF JobEnd, ExitDone, Finished
<1>18. View'
  BY <1>1, <1>2, <1>8 DEF View, Entering
<1>19. Onward'
  <2>1. FillOf(EntryId)' = f
    <3>1. \A g \in filled : g.id # EntryId
      BY <1>3 DEF isFilled
    <3>2. EntryId' = EntryId
      BY <1>1 DEF EntryId
    <3>3. QED
      BY <1>3, <1>7, <3>1, <3>2 DEF FillOf
  <2>2. QED
    BY <1>1, <1>3, <1>6, <1>8, <1>7, <2>1 DEF Onward, EntryDone
<1>20. Dropped'
  BY <1>1, <1>2, <1>4, <1>8 DEF Dropped, May, Entering
<1>21. Booked'
  <2>1. \A e : Due(e) = 0 /\ Due(e)' = 0
    BY <1>1, <1>4 DEF Due, Pending, ExitDone
  <2>2. CASE venue = Flat
    <3>1. /\ eps' = Append(eps, [size |-> o.qty, own |-> TRUE])
          /\ venue' = [side |-> opener.side, qty |-> o.qty, ep |-> Len(eps) + 1]
      BY <1>5, <2>2
    <3>2. Len(eps') = Len(eps) + 1 /\ Len(eps) \in Nat /\ Len(eps') \in Nat /\ Len(eps') <= MaxEp /\ MaxEp \in Nat
      BY <1>9, <3>1, Shapes
    <3>3. ASSUME NEW e \in 1 .. Len(eps') PROVE journal[e] + Held(e)' + Due(e)' <= eps'[e].size
      <4>1. CASE e = Len(eps) + 1
        <5>1. journal[e] = 0
          BY <1>2, <3>2, <4>1 DEF Booked
        <5>2. Held(e)' = o.qty /\ eps'[e].size = o.qty
          BY <3>1, <4>1, Shapes DEF Held
        <5>3. QED
          BY <1>3, <2>1, <5>1, <5>2
      <4>2. CASE e \in 1 .. Len(eps)
        <5>1. Held(e)' = 0 /\ eps'[e] = eps[e]
          BY <3>1, <3>2, <4>2, Shapes DEF Held
        <5>2. journal[e] + Held(e) + Due(e) <= eps[e].size
          BY <1>2, <4>2 DEF Booked
        <5>3. QED
          BY <2>1, <4>2, <5>1, <5>2, Sizes
      <4>3. QED
        BY <3>2, <4>1, <4>2
    <3>4. \A e \in 0 .. MaxEp : e > Len(eps') => journal[e] = 0
      BY <1>2, <3>2 DEF Booked
    <3>5. QED
      BY <1>1, <3>3, <3>4 DEF Booked
  <2>3. CASE venue # Flat
    <3>1. /\ eps' = [eps EXCEPT ![venue.ep].size = @ + o.qty]
          /\ venue' = [side |-> opener.side, qty |-> venue.qty + o.qty, ep |-> venue.ep]
      BY <1>5, <2>3
    <3>2. Len(eps') = Len(eps) /\ venue.ep \in 1 .. Len(eps) /\ venue.qty \in Nat
      BY <2>3, <3>1, Shapes DEF Snapshots
    <3>3. ASSUME NEW e \in 1 .. Len(eps) PROVE journal[e] + Held(e)' + Due(e)' <= eps'[e].size
      <4>1. journal[e] + Held(e) + Due(e) <= eps[e].size
        BY <1>2 DEF Booked
      <4>2. CASE e = venue.ep
        <5>1. Held(e)' = Held(e) + o.qty
          BY <3>1, <4>2 DEF Held
        <5>2. eps'[e].size = eps[e].size + o.qty
          BY <1>10, <3>1, <4>2
        <5>3. QED
          BY <1>3, <2>1, <4>1, <5>1, <5>2, Sizes
      <4>3. CASE e # venue.ep
        <5>1. Held(e)' = 0 /\ Held(e) = 0 /\ eps'[e] = eps[e]
          BY <3>1, <4>3, Shapes DEF Held
        <5>2. QED
          BY <2>1, <4>1, <5>1
      <4>4. QED
        BY <4>2, <4>3
    <3>4. QED
      BY <1>1, <1>2, <3>2, <3>3 DEF Booked
  <2>4. QED
    BY <2>2, <2>3
<1>22. Claims'
  <2>1. ASSUME NEW s \in Snapshots, Owed(s), s # Flat
        PROVE  /\ s.ep \in 1 .. Len(eps') /\ s.side \in Sides
               /\ s.ep = venue'.ep => s.side = venue'.side
               /\ s.ep # venue'.ep => journal[s.ep] + s.qty <= eps'[s.ep].size
    <3>1. s.ep \in 1 .. Len(eps) /\ s.side \in Sides
      BY <2>1 DEF Owed
    <3>2. CASE venue = Flat
      <4>1. /\ eps' = Append(eps, [size |-> o.qty, own |-> TRUE]) /\ venue'.ep = Len(eps) + 1
        BY <1>5, <3>2
      <4>2. Len(eps') = Len(eps) + 1 /\ eps'[s.ep] = eps[s.ep] /\ Len(eps) \in Nat
        BY <3>1, <4>1, Shapes
      <4>3. s.ep # venue.ep
        BY <3>1, <3>2, Shapes
      <4>4. QED
        BY <2>1, <3>1, <4>1, <4>2, <4>3 DEF Owed
    <3>3. CASE venue # Flat
      <4>1. venue'.ep = venue.ep /\ venue'.side = venue.side /\ eps' = [eps EXCEPT ![venue.ep].size = @ + o.qty]
        BY <1>5, <3>3
      <4>2. Len(eps') = Len(eps)
        BY <4>1, Shapes
      <4>3. s.ep # venue.ep => eps'[s.ep] = eps[s.ep]
        BY <3>1, <4>1, Shapes
      <4>4. QED
        BY <2>1, <3>1, <4>1, <4>2, <4>3 DEF Owed
    <3>4. QED
      BY <3>2, <3>3
  <2>2. ~Finished
    BY <1>2, <1>4 DEF JobEnd, ExitDone
  <2>3. Owed(cache) /\ (meta # NoMeta => Owed(meta.seen)) /\ cache \in Snapshots /\ meta.seen \in Snapshots
    BY <1>2, <2>2, Shapes DEF Claims
  <2>4. Owed(cache)'
    BY <1>1, <2>1, <2>3 DEF Owed
  <2>5. (meta # NoMeta => Owed(meta.seen))'
    BY <1>1, <2>1, <2>3 DEF Owed
  <2>6. QED
    BY <2>4, <2>5 DEF Claims
<1>23. QED
  BY <1>11, <1>12, <1>13, <1>14, <1>15, <1>16, <1>17, <1>18, <1>19, <1>20, <1>21, <1>22 DEF TameInv

(* What a snapshot makes of the sidecar and of the journal.                *)
LEMMA Reconciles ==
  ASSUME BrokerInv, NEW snap \in Snapshots, NEW expect
  PROVE  /\ isBusy => reconciled(snap, expect).journal = journal
         /\ isBusy /\ (snap = Flat \/ meta = NoMeta) => reconciled(snap, expect).meta = meta
         /\ ~isBusy /\ snap = Flat => reconciled(snap, expect).meta = NoMeta
         /\ snap # Flat /\ reconciled(snap, expect).meta # NoMeta => reconciled(snap, expect).meta.seen = snap
         /\ \/ reconciled(snap, expect).journal = journal
            \/ /\ reconciled(snap, expect).journal = Journaled(lastSeen.ep, lastSeen.qty)
               /\ lastSeen # Flat /\ meta # NoMeta /\ (snap # Flat => lastSeen.side # snap.side)
<1>1. meta \in Metas
  BY Shapes
<1>2. adoptUnowned(snap, expect).meta \in [owner : {"strategy", "external"}, seen : {Flat}]
  BY DEF adoptUnowned, ownedMeta, externalMeta
<1>3. ASSUME NEW m, m = meta \/ m = NoMeta \/ m \in [owner : {"strategy", "external"}, seen : {Flat}]
      PROVE  [m EXCEPT !.seen = snap].seen = snap
  BY <1>1, <1>3 DEF Metas, NoMeta
<1>4. snap # Flat /\ reconciled(snap, expect).meta # NoMeta => reconciled(snap, expect).meta.seen = snap
  BY <1>2, <1>3 DEF reconciled
<1>5. isBusy => reconciled(snap, expect).journal = journal
  BY DEF reconciled
<1>6. isBusy /\ (snap = Flat \/ meta = NoMeta) => reconciled(snap, expect).meta = meta
  BY DEF reconciled
<1>7. ~isBusy /\ snap = Flat => reconciled(snap, expect).meta = NoMeta
  BY DEF reconciled
<1>8. \/ reconciled(snap, expect).journal = journal
      \/ /\ reconciled(snap, expect).journal = Journaled(lastSeen.ep, lastSeen.qty)
         /\ lastSeen # Flat /\ meta # NoMeta /\ (snap # Flat => lastSeen.side # snap.side)
  BY DEF reconciled
<1>9. QED
  BY <1>4, <1>5, <1>6, <1>7, <1>8

(* A snapshot that is applied is of the position as it is, or came before  *)
(* an entry that executed meanwhile.                                       *)
Current(snap) == sync.stale \/ snap = venue \/ (snap = Flat /\ EntryDone)

(* Booking a position that vanished or flipped books what nobody booked.   *)
LEMMA AppliesTame ==
  ASSUME BrokerInv, TameInv, Quiet, NEW snap \in Snapshots, Current(snap), ApplySnapshot(snap)
  PROVE  /\ sync.stale => UNCHANGED <<cache, meta, journal>>
         /\ ~sync.stale => cache' = snap /\ (cache' = venue \/ (cache' = Flat /\ EntryDone))
         /\ ~sync.stale /\ cache' # Flat /\ meta' # NoMeta => meta'.seen = cache'
         /\ isBusy => journal' = journal /\ (meta = NoMeta => meta' = NoMeta)
         /\ meta' # NoMeta => Owed(meta.seen)'
         /\ ~sync.stale => Owed(cache)'
         /\ \A e \in 1 .. Len(eps) : journal'[e] + Held(e) + Due(e) <= eps[e].size
         /\ \A e \in 0 .. MaxEp : e > Len(eps) => journal'[e] = 0
<1>1. PICK expect :
        IF sync.stale THEN UNCHANGED <<cache, storeVars>>
        ELSE /\ cache' = snap
             /\ journal' = reconciled(snap, expect).journal
             /\ meta' = reconciled(snap, expect).meta
  BY DEF ApplySnapshot
<1>2. UNCHANGED <<venue, eps>>
  BY DEF ApplySnapshot, venueVars
<1>3. /\ Alone /\ JobEnd /\ Booked /\ (meta # NoMeta => Owed(meta.seen))
      /\ Owed(cache) \/ (Finished /\ job.qty = 0)
  BY DEF TameInv, Claims
<1>4. CASE sync.stale
  <2>1. UNCHANGED <<cache, meta, journal>>
    BY <1>1, <1>4 DEF storeVars
  <2>2. meta' # NoMeta => Owed(meta.seen)'
    BY <1>2, <1>3, <2>1 DEF Owed
  <2>3. QED
    BY <1>3, <1>4, <2>1, <2>2 DEF Booked
<1>5. CASE ~sync.stale
  <2>1. /\ cache' = snap /\ journal' = reconciled(snap, expect).journal
        /\ meta' = reconciled(snap, expect).meta
        /\ snap = venue \/ (snap = Flat /\ EntryDone)
    BY <1>1, <1>5 DEF Current
  <2>2. Owed(cache)'
    BY <1>2, <2>1, Shapes DEF Owed
  <2>3. EntryDone => isBusy
    BY DEF EntryDone, isBusy, pendingOpen
  <2>4. CASE journal' = journal
    <3>1. meta' # NoMeta => Owed(meta.seen)'
      <4>1. CASE snap # Flat
        <5>1. meta' # NoMeta => meta'.seen = venue
          BY <2>1, <4>1, Reconciles
        <5>2. QED
          BY <1>2, <4>1, <5>1, Shapes DEF Owed
      <4>2. CASE snap = Flat
        <5>1. meta' = NoMeta \/ meta' = meta
          BY <2>1, <4>2, Reconciles
        <5>2. QED
          BY <1>2, <1>3, <2>4, <5>1 DEF Owed
      <4>3. QED
        BY <4>1, <4>2
    <3>2. isBusy => (meta = NoMeta => meta' = NoMeta)
      BY <2>1, Reconciles
    <3>3. ~sync.stale /\ cache' # Flat /\ meta' # NoMeta => meta'.seen = cache'
      BY <2>1, Reconciles
    <3>4. QED
      BY <1>3, <1>5, <2>1, <2>2, <2>4, <3>1, <3>2, <3>3 DEF Booked
  <2>5. CASE journal' # journal
    <3>1. /\ journal' = Journaled(lastSeen.ep, lastSeen.qty) /\ ~isBusy
          /\ lastSeen # Flat /\ meta # NoMeta /\ (snap # Flat => lastSeen.side # snap.side)
      BY <2>1, <2>5, Reconciles
    <3>2. snap = venue /\ job = NoJob
      BY <2>1, <2>3, <3>1 DEF isBusy, isActive
    <3>3. ~Finished /\ ~Pending
      BY <1>3, <3>2 DEF JobEnd, Pending, ExitDone
    <3>4. Owed(lastSeen) /\ lastSeen \in Snapshots
      BY <1>3, <3>1, <3>3, Shapes DEF lastSeen
    <3>5. /\ lastSeen.ep \in 1 .. Len(eps) /\ lastSeen.qty \in Nat /\ lastSeen.ep # venue.ep
          /\ journal[lastSeen.ep] + lastSeen.qty <= eps[lastSeen.ep].size
      <4>1. lastSeen.ep \in 1 .. Len(eps) /\ lastSeen.qty \in Nat
        BY <3>1, <3>4 DEF Owed, Snapshots
      <4>2. lastSeen.ep # venue.ep
        <5>1. CASE venue = Flat
          BY <4>1, <5>1, Shapes
        <5>2. CASE venue # Flat
          BY <3>1, <3>2, <3>4, <5>2 DEF Owed
        <5>3. QED
          BY <5>1, <5>2
      <4>3. QED
        BY <3>1, <3>4, <4>1, <4>2 DEF Owed
    <3>6. journal' = [journal EXCEPT ![lastSeen.ep] = @ + lastSeen.qty]
      BY <3>1 DEF Journaled
    <3>7. ASSUME NEW e \in 1 .. Len(eps) PROVE journal'[e] + Held(e) + Due(e) <= eps[e].size
      <4>1. journal[e] + Held(e) + Due(e) <= eps[e].size
        BY <1>3 DEF Booked
      <4>2. Due(e) = 0
        BY <3>3 DEF Due
      <4>3. CASE e = lastSeen.ep
        <5>1. Held(e) = 0 /\ journal'[e] = journal[e] + lastSeen.qty
          BY <3>5, <3>6, <4>3, Sizes, Shapes DEF Held
        <5>2. QED
          BY <3>5, <4>2, <4>3, <5>1, Sizes
      <4>4. CASE e # lastSeen.ep
        <5>1. journal'[e] = journal[e]
          BY <3>6, <4>4, Sizes, Shapes
        <5>2. QED
          BY <4>1, <5>1
      <4>5. QED
        BY <4>3, <4>4
    <3>8. \A e \in 0 .. MaxEp : e > Len(eps) => journal'[e] = 0
      BY <1>3, <3>5, <3>6, Shapes DEF Booked
    <3>9. ~sync.stale /\ cache' # Flat /\ meta' # NoMeta => meta'.seen = cache'
      BY <2>1, Reconciles
    <3>10. meta' # NoMeta => Owed(meta.seen)'
      <4>1. meta' # NoMeta => snap # Flat /\ meta'.seen = venue
        BY <2>1, <3>1, <3>2, Reconciles
      <4>2. QED
        BY <1>2, <3>2, <4>1, Shapes DEF Owed
    <3>11. QED
      BY <1>5, <2>1, <2>2, <3>1, <3>7, <3>8, <3>9, <3>10
  <2>6. QED
    BY <2>4, <2>5
<1>6. QED
  BY <1>4, <1>5

(* The chain without its head keeps its order.                             *)
LEMMA TurnsLeave ==
  ASSUME BrokerInv, Turns, queue # <<>>, queue' = Tail(queue),
         xpc' \in {"after", "dropped"} => xpc' = xpc /\ Head(queue) # "exit"
  PROVE  Turns'
<1>1. Waiting' = Waiting \ {Head(queue)}
  BY Leaves DEF BrokerInv, Chain
<1>2. queue \in Seq(Requesters) /\ Len(queue) \in Nat /\ Len(queue) >= 1
  BY Shapes
<1>3. Len(queue') = Len(queue) - 1 /\ \A i \in 1 .. Len(queue') : queue'[i] = queue[i + 1]
  BY <1>2
<1>4. ASSUME NEW i \in 1 .. Len(queue'), NEW j \in 1 .. Len(queue'), queue'[i] = "entry", queue'[j] = "exit"
      PROVE  j < i
  <2>1. i + 1 \in 1 .. Len(queue) /\ j + 1 \in 1 .. Len(queue)
    BY <1>2, <1>3
  <2>2. queue[i + 1] = "entry" /\ queue[j + 1] = "exit"
    BY <1>3, <1>4
  <2>3. j + 1 < i + 1
    BY <2>1, <2>2 DEF Turns
  <2>4. QED
    BY <1>2, <1>3, <2>3
<1>5. QED
  BY <1>1, <1>4 DEF Turns

(* A sync of the loop ends. *)
LEMMA LoopSyncedTame ==
  ASSUME BrokerInv, TameInv, Tame, Quiet, sync.pc # "idle", NEW snap \in Snapshots, Current(snap),
         ApplySnapshot(snap), Head(queue) = "loop" PROVE TameInv'
<1>1. UNCHANGED <<world, venue, eps, transit, filled, opener, opens, exits, job, xpc, xres, flipWaits,
  closer>>
  BY DEF ApplySnapshot, venueVars, Resume
<1>2. /\ Sided /\ Alone /\ Turns /\ Epoch /\ Numbered /\ Asked /\ JobShape /\ JobEnd
      /\ View /\ Onward /\ Dropped /\ Booked /\ Claims
  BY DEF TameInv
<1>3. /\ sync.stale => UNCHANGED <<cache, meta, journal>>
      /\ ~sync.stale => cache' = snap /\ (cache' = venue \/ (cache' = Flat /\ EntryDone))
      /\ ~sync.stale /\ cache' # Flat /\ meta' # NoMeta => meta'.seen = cache'
      /\ isBusy => journal' = journal /\ (meta = NoMeta => meta' = NoMeta)
      /\ meta' # NoMeta => Owed(meta.seen)'
      /\ ~sync.stale => Owed(cache)'
      /\ \A e \in 1 .. Len(eps) : journal'[e] + Held(e) + Due(e) <= eps[e].size
      /\ \A e \in 0 .. MaxEp : e > Len(eps) => journal'[e] = 0
  BY AppliesTame
<1>4. queue # <<>> /\ queue' = Tail(queue) /\ sync' = IdleSync
  BY Shapes DEF ApplySnapshot
<1>5. Alone' /\ Numbered' /\ Asked' /\ Onward'
  BY <1>1, <1>2, AloneFrame, NumberedFrame, AskedFrame, OnwardFrame
<1>6. Sided'
  <2>1. cache' = cache \/ cache' = venue \/ cache' = Flat
    BY <1>3
  <2>2. QED
    BY <1>1, <1>2, <2>1 DEF Sided, OneSided
<1>7. Turns'
  BY <1>1, <1>2, <1>4, TurnsLeave
<1>8. Epoch'
  BY <1>4, Shapes DEF Epoch
<1>9. JobShape'
  <2>1. job # NoJob => ~EntryDone
    BY <1>2 DEF Alone, EntryDone
  <2>2. QED
    BY <1>1, <1>2, <1>3, <2>1 DEF JobShape, isFilled, ExitId
<1>10. JobEnd'
  BY <1>1, <1>2, <1>3 DEF JobEnd, ExitDone, Finished, isFilled, ExitId, isBusy, isActive
<1>11. View'
  <2>1. /\ Entering' = Entering /\ ExitDone' = ExitDone /\ (EntryDone => Entering)
        /\ May("lost")' = May("lost")
    BY <1>1 DEF Entering, EntryDone, ExitDone, isFilled, EntryId, ExitId, May
  <2>2. QED
    BY <1>1, <1>2, <1>3, <2>1 DEF View
<1>12. Dropped'
  <2>1. Entering' = Entering /\ May("lost")' = May("lost") /\ (EntryDone => Entering)
    BY <1>1 DEF Entering, EntryDone, isFilled, EntryId, May
  <2>2. QED
    BY <1>1, <1>2, <1>3, <2>1 DEF Dropped
<1>13. Booked'
  <2>1. \A e \in 1 .. Len(eps) : Held(e)' = Held(e) /\ Due(e)' = Due(e)
    BY <1>1 DEF Held, Due, Pending, ExitDone, Finished, isFilled, ExitId, FillOf
  <2>2. QED
    BY <1>1, <1>3, <2>1 DEF Booked
<1>14. Claims'
  <2>1. sync.stale => Owed(cache)' \/ (Finished /\ job.qty = 0)'
    BY <1>1, <1>2, <1>3 DEF Claims, Owed, Finished
  <2>2. QED
    BY <1>3, <2>1 DEF Claims
<1>15. QED
  BY <1>5, <1>6, <1>7, <1>8, <1>9, <1>10, <1>11, <1>12, <1>13, <1>14 DEF TameInv

(* The sync of an open ends: the open decides next. *)
LEMMA OpenSyncedTame ==
  ASSUME BrokerInv, TameInv, Tame, Quiet, sync.pc # "idle", NEW snap \in Snapshots, Current(snap),
         ApplySnapshot(snap), Head(queue) = "open" PROVE TameInv'
<1>1. UNCHANGED <<world, venue, eps, transit, filled, opens, exits, job, xpc, xres, flipWaits, closer>>
  BY DEF ApplySnapshot, venueVars, Resume
<1>2. /\ Sided /\ Alone /\ Turns /\ Epoch /\ Numbered /\ Asked /\ JobShape /\ JobEnd
      /\ View /\ Onward /\ Dropped /\ Booked /\ Claims
  BY DEF TameInv
<1>3. /\ sync.stale => UNCHANGED <<cache, meta, journal>>
      /\ ~sync.stale => cache' = snap /\ (cache' = venue \/ (cache' = Flat /\ EntryDone))
      /\ ~sync.stale /\ cache' # Flat /\ meta' # NoMeta => meta'.seen = cache'
      /\ isBusy => journal' = journal /\ (meta = NoMeta => meta' = NoMeta)
      /\ meta' # NoMeta => Owed(meta.seen)'
      /\ ~sync.stale => Owed(cache)'
      /\ \A e \in 1 .. Len(eps) : journal'[e] + Held(e) + Due(e) <= eps[e].size
      /\ \A e \in 0 .. MaxEp : e > Len(eps) => journal'[e] = 0
  BY AppliesTame
<1>4. queue # <<>> /\ queue' = Tail(queue) /\ sync' = IdleSync
  BY Shapes DEF ApplySnapshot
<1>5. /\ opener.pc = "sync" /\ opener'.pc = "decide" /\ opener'.side = opener.side /\ opener'.id = opener.id
  <2>1. opener.pc = "sync"
    BY <1>4, HeadWaits DEF BrokerInv
  <2>2. QED
    BY <2>1, Shapes DEF ApplySnapshot, Resume, Openers
<1>6. Sided'
  <2>1. cache' = cache \/ cache' = venue \/ cache' = Flat
    BY <1>3
  <2>2. QED
    BY <1>1, <1>2, <2>1, <1>5 DEF Sided, OneSided
<1>7. Alone'
  BY <1>5 DEF Alone
<1>8. Turns'
  BY <1>1, <1>2, <1>4, TurnsLeave
<1>9. Epoch'
  BY <1>4, Shapes DEF Epoch
<1>10. Numbered'
  <2>1. isFilled(EntryId)' = isFilled(EntryId) /\ InTransit(EntryId)' = InTransit(EntryId)
    BY <1>1, <1>5 DEF isFilled, InTransit, EntryId
  <2>2. QED
    BY <1>1, <1>2, <1>5, <2>1 DEF Numbered, isFilled, InTransit, ExitId
<1>11. Asked'
  BY <1>1, <1>2, <1>5 DEF Asked, ExitId
<1>12. JobShape'
  <2>1. job # NoJob => ~EntryDone
    BY <1>2 DEF Alone, EntryDone
  <2>2. QED
    BY <1>1, <1>2, <1>3, <2>1 DEF JobShape, isFilled, ExitId
<1>13. JobEnd'
  BY <1>1, <1>2, <1>3 DEF JobEnd, ExitDone, Finished, isFilled, ExitId, isBusy, isActive
<1>14. View'
  <2>1. ~EntryDone /\ ~Entering /\ ~Entering' /\ ExitDone' = ExitDone /\ May("lost")' = May("lost")
    BY <1>1, <1>5 DEF Entering, EntryDone, ExitDone, isFilled, ExitId, May
  <2>2. QED
    BY <1>1, <1>2, <1>3, <1>5, <2>1 DEF View
<1>15. Onward'
  BY <1>5 DEF Onward, EntryDone
<1>16. Dropped'
  <2>1. ~EntryDone /\ ~Entering /\ ~Entering' /\ ExitDone' = ExitDone /\ May("lost")' = May("lost")
    BY <1>1, <1>5 DEF Entering, EntryDone, ExitDone, isFilled, ExitId, May
  <2>2. QED
    BY <1>1, <1>2, <1>3, <1>5, <2>1 DEF Dropped
<1>17. Booked'
  <2>1. \A e \in 1 .. Len(eps) : Held(e)' = Held(e) /\ Due(e)' = Due(e)
    BY <1>1 DEF Held, Due, Pending, ExitDone, Finished, isFilled, ExitId, FillOf
  <2>2. QED
    BY <1>1, <1>3, <2>1 DEF Booked
<1>18. Claims'
  <2>1. sync.stale => Owed(cache)' \/ (Finished /\ job.qty = 0)'
    BY <1>1, <1>2, <1>3 DEF Claims, Owed, Finished
  <2>2. QED
    BY <1>3, <2>1 DEF Claims
<1>19. QED
  BY <1>6, <1>7, <1>8, <1>9, <1>10, <1>11, <1>12, <1>13, <1>14, <1>15, <1>16, <1>17, <1>18 DEF
    TameInv

(* The refresh after an entry ends: the open is over. *)
LEMMA EntrySyncedTame ==
  ASSUME BrokerInv, TameInv, Tame, Quiet, sync.pc # "idle", NEW snap \in Snapshots, Current(snap),
         ApplySnapshot(snap), Head(queue) = "entry" PROVE TameInv'
<1>1. UNCHANGED <<world, venue, eps, transit, filled, opens, exits, job, xpc, xres, flipWaits, closer>>
  BY DEF ApplySnapshot, venueVars, Resume
<1>2. /\ Sided /\ Alone /\ Turns /\ Epoch /\ Numbered /\ Asked /\ JobShape /\ JobEnd
      /\ View /\ Onward /\ Dropped /\ Booked /\ Claims
  BY DEF TameInv
<1>3. /\ sync.stale => UNCHANGED <<cache, meta, journal>>
      /\ ~sync.stale => cache' = snap /\ (cache' = venue \/ (cache' = Flat /\ EntryDone))
      /\ ~sync.stale /\ cache' # Flat /\ meta' # NoMeta => meta'.seen = cache'
      /\ isBusy => journal' = journal /\ (meta = NoMeta => meta' = NoMeta)
      /\ meta' # NoMeta => Owed(meta.seen)'
      /\ ~sync.stale => Owed(cache)'
      /\ \A e \in 1 .. Len(eps) : journal'[e] + Held(e) + Due(e) <= eps[e].size
      /\ \A e \in 0 .. MaxEp : e > Len(eps) => journal'[e] = 0
  BY AppliesTame
<1>4. queue # <<>> /\ queue' = Tail(queue) /\ sync' = IdleSync
  BY Shapes DEF ApplySnapshot
<1>5. /\ opener'.pc = "idle" /\ job = NoJob /\ xpc = "none" /\ ~sync.stale /\ ~EntryDone
  <2>1. opener.pc = "after"
    BY <1>4, HeadWaits DEF BrokerInv
  <2>2. opener'.pc = "idle" /\ job = NoJob /\ ~sync.stale /\ ~EntryDone
    BY <1>2, <2>1, Shapes DEF ApplySnapshot, Resume, Alone, Epoch, EntryDone
  <2>3. "exit" \notin Waiting
    <3>1. queue \in Seq(Requesters) /\ Len(queue) \in Nat /\ Len(queue) >= 1 /\ queue[1] = "entry"
      BY <1>4, Shapes
    <3>2. \A j \in 1 .. Len(queue) : queue[j] # "exit"
      BY <1>2, <3>1 DEF Turns
    <3>3. QED
      BY <3>2 DEF Waiting
  <2>4. xpc \notin {"after", "dropped", "lookup", "read", "send", "residual"}
    BY <1>2, <2>2, <2>3 DEF Turns, BrokerInv, Driven
  <2>5. QED
    BY <2>2, <2>4 DEF BrokerInv, Types, ExitTypes
<1>6. Sided'
  <2>1. cache' = cache \/ cache' = venue \/ cache' = Flat
    BY <1>3
  <2>2. QED
    BY <1>1, <1>2, <2>1, <1>5 DEF Sided, OneSided
<1>7. Alone'
  BY <1>5 DEF Alone
<1>8. Turns'
  BY <1>1, <1>2, <1>4, TurnsLeave
<1>9. Epoch'
  BY <1>4, Shapes DEF Epoch
<1>10. Numbered'
  BY <1>1, <1>2, <1>5 DEF Numbered, isFilled, InTransit, ExitId
<1>11. Asked'
  BY <1>1, <1>2, <1>5 DEF Asked, ExitId
<1>12. JobShape'
  <2>1. job # NoJob => ~EntryDone
    BY <1>2 DEF Alone, EntryDone
  <2>2. QED
    BY <1>1, <1>2, <1>3, <2>1 DEF JobShape, isFilled, ExitId
<1>13. JobEnd'
  BY <1>1, <1>2, <1>5 DEF JobEnd, ExitDone, Finished
<1>14. View'
  BY <1>1, <1>3, <1>5 DEF View
<1>15. Onward'
  BY <1>5 DEF Onward, EntryDone
<1>16. Dropped'
  BY <1>1, <1>5 DEF Dropped
<1>17. Booked'
  <2>1. \A e \in 1 .. Len(eps) : Held(e)' = Held(e) /\ Due(e)' = Due(e)
    BY <1>1 DEF Held, Due, Pending, ExitDone, Finished, isFilled, ExitId, FillOf
  <2>2. QED
    BY <1>1, <1>3, <2>1 DEF Booked
<1>18. Claims'
  BY <1>3, <1>5 DEF Claims
<1>19. QED
  BY <1>6, <1>7, <1>8, <1>9, <1>10, <1>11, <1>12, <1>13, <1>14, <1>15, <1>16, <1>17, <1>18 DEF
    TameInv

(* The refresh after an exit ends: its job is deleted, a flip enters. *)
LEMMA ExitSyncedTame ==
  ASSUME BrokerInv, TameInv, Tame, Quiet, sync.pc # "idle", NEW snap \in Snapshots, Current(snap),
         ApplySnapshot(snap), Head(queue) = "exit", xpc = "after" PROVE TameInv'
<1>1. UNCHANGED <<world, venue, eps, transit, filled, opens, exits>>
  BY DEF ApplySnapshot, venueVars
<1>2. /\ Sided /\ Alone /\ Turns /\ Epoch /\ Numbered /\ Asked /\ JobShape /\ JobEnd
      /\ View /\ Onward /\ Dropped /\ Booked /\ Claims
  BY DEF TameInv
<1>3. /\ sync.stale => UNCHANGED <<cache, meta, journal>>
      /\ ~sync.stale => cache' = snap /\ (cache' = venue \/ (cache' = Flat /\ EntryDone))
      /\ ~sync.stale /\ cache' # Flat /\ meta' # NoMeta => meta'.seen = cache'
      /\ isBusy => journal' = journal /\ (meta = NoMeta => meta' = NoMeta)
      /\ meta' # NoMeta => Owed(meta.seen)'
      /\ ~sync.stale => Owed(cache)'
      /\ \A e \in 1 .. Len(eps) : journal'[e] + Held(e) + Due(e) <= eps[e].size
      /\ \A e \in 0 .. MaxEp : e > Len(eps) => journal'[e] = 0
  BY AppliesTame
<1>4. queue # <<>> /\ queue' = Tail(queue) /\ sync' = IdleSync
  BY Shapes DEF ApplySnapshot
<1>5. /\ xpc' = "none" /\ job' = NoJob /\ ~sync.stale /\ ~EntryDone
      /\ opener.pc \notin {"enter", "sent", "after"}
  <2>1. Settle(xres, NoJob)
    BY DEF ApplySnapshot, Resume
  <2>2. xpc' = "none" /\ job' = NoJob
    BY <2>1, Shapes DEF Settle
  <2>3. QED
    BY <1>2, <2>2 DEF Epoch, Alone, EntryDone, BrokerInv, Driven
<1>6. \/ opener' = opener
      \/ opener'.pc = "idle"
      \/ /\ opener.pc = "flip" /\ opener'.pc = "enter" /\ opener'.side = opener.side
         /\ opener'.id = opener.id /\ venue = Flat
  <2>1. Settle(xres, NoJob)
    BY DEF ApplySnapshot, Resume
  <2>2. flipWaits => opener.pc = "flip" /\ venue = Flat
    <3>1. flipWaits => opener.pc = "flip" /\ job.reason = "FLIP" /\ job # NoJob
      BY DEF BrokerInv, Flipping, Driven
    <3>2. flipWaits => job.qty = 0 /\ ExitDone
      BY <1>2, <3>1 DEF JobShape, JobEnd, Finished
    <3>3. QED
      BY <1>2, <3>1, <3>2 DEF JobEnd
  <2>3. QED
    BY <2>1, <2>2, Shapes DEF Settle, Openers
<1>7. Sided'
  <2>1. cache' = cache \/ cache' = venue \/ cache' = Flat
    BY <1>3
  <2>2. QED
    BY <1>1, <1>2, <2>1, <1>5, <1>6, Shapes DEF Sided, OneSided
<1>8. Alone'
  BY <1>5 DEF Alone
<1>9. Turns'
  BY <1>2, <1>4, <1>5, TurnsLeave
<1>10. Epoch'
  BY <1>4, Shapes DEF Epoch
<1>11. Numbered'
  <2>1. opener'.id = opener.id => isFilled(EntryId)' = isFilled(EntryId) /\ InTransit(EntryId)' = InTransit(EntryId)
    BY <1>1 DEF isFilled, InTransit, EntryId
  <2>2. QED
    BY <1>1, <1>2, <1>5, <1>6, <2>1 DEF Numbered
<1>12. Asked'
  BY <1>5, <1>6 DEF Asked
<1>13. JobShape'
  BY <1>5 DEF JobShape
<1>14. JobEnd'
  BY <1>5 DEF JobEnd, ExitDone, Finished
<1>15. View'
  BY <1>1, <1>3, <1>5 DEF View
<1>16. Onward'
  BY <1>1, <1>5, <1>6 DEF Onward, EntryDone
<1>17. Dropped'
  BY <1>5 DEF Dropped
<1>18. Booked'
  <2>1. \A e \in 1 .. Len(eps) : Held(e)' = Held(e) /\ Due(e)' = 0
    BY <1>1, <1>5 DEF Held, Due, Pending, ExitDone
  <2>2. ASSUME NEW e \in 1 .. Len(eps) PROVE journal'[e] \in Nat
    <3>1. StoreTypes'
      BY ApplyTypes DEF BrokerInv
    <3>2. QED
      BY <3>1, Sizes DEF StoreTypes
  <2>3. \A e \in 1 .. Len(eps) : journal'[e] + Held(e)' + Due(e)' <= eps[e].size
    BY <1>3, <2>1, <2>2, Sizes
  <2>4. QED
    BY <1>1, <1>3, <2>3 DEF Booked
<1>19. Claims'
  BY <1>3, <1>5 DEF Claims
<1>20. QED
  BY <1>7, <1>8, <1>9, <1>10, <1>11, <1>12, <1>13, <1>14, <1>15, <1>16, <1>17, <1>18, <1>19 DEF
    TameInv

(* The refresh after a dropped job ends: a job queued meanwhile stays. *)
LEMMA DroppedSyncedTame ==
  ASSUME BrokerInv, TameInv, Tame, Quiet, sync.pc # "idle", NEW snap \in Snapshots, Current(snap),
         ApplySnapshot(snap), Head(queue) = "exit", xpc = "dropped" PROVE TameInv'
<1>1. UNCHANGED <<world, venue, eps, transit, filled, opens, exits>>
  BY DEF ApplySnapshot, venueVars
<1>2. /\ Sided /\ Alone /\ Turns /\ Epoch /\ Numbered /\ Asked /\ JobShape /\ JobEnd
      /\ View /\ Onward /\ Dropped /\ Booked /\ Claims
  BY DEF TameInv
<1>3. /\ sync.stale => UNCHANGED <<cache, meta, journal>>
      /\ ~sync.stale => cache' = snap /\ (cache' = venue \/ (cache' = Flat /\ EntryDone))
      /\ ~sync.stale /\ cache' # Flat /\ meta' # NoMeta => meta'.seen = cache'
      /\ isBusy => journal' = journal /\ (meta = NoMeta => meta' = NoMeta)
      /\ meta' # NoMeta => Owed(meta.seen)'
      /\ ~sync.stale => Owed(cache)'
      /\ \A e \in 1 .. Len(eps) : journal'[e] + Held(e) + Due(e) <= eps[e].size
      /\ \A e \in 0 .. MaxEp : e > Len(eps) => journal'[e] = 0
  BY AppliesTame
<1>4. queue # <<>> /\ queue' = Tail(queue) /\ sync' = IdleSync
  BY Shapes DEF ApplySnapshot
<1>5. Settle(xres, job) /\ xres \in {"ok", "error"} /\ xpc = "dropped"
  BY DEF ApplySnapshot, Resume, BrokerInv, Types, ExitTypes
<1>6. /\ xpc' = "none" /\ xpc = "dropped" /\ job'.id = job.id /\ job'.qty = job.qty /\ job'.sent = job.sent
      /\ job'.reason = job.reason \/ (job.reason = "FLIP" /\ job'.reason = "CLOSE" /\ job # NoJob)
      /\ (job' = NoJob <=> job = NoJob)
  <2>1. job' = job \/ (job # NoJob /\ flipWaits /\ job' = [job EXCEPT !.reason = "CLOSE"])
    BY <1>5 DEF Settle
  <2>2. job # NoJob /\ flipWaits => job.reason = "FLIP"
    BY DEF BrokerInv, Flipping, Driven
  <2>3. [job EXCEPT !.reason = "CLOSE"].reason = "CLOSE" /\ NoJob.reason = "none"
    BY Shapes DEF Jobs
  <2>4. QED
    BY <1>5, <2>1, <2>2, <2>3, Shapes DEF Settle, Jobs
<1>7. \/ opener' = opener
      \/ opener.pc = "flip" /\ opener'.pc = "idle"
      \/ /\ opener.pc = "flip" /\ opener'.pc = "enter" /\ opener'.side = opener.side
         /\ opener'.id = opener.id /\ venue = Flat /\ job = NoJob
  <2>1. flipWaits => opener.pc = "flip"
    BY DEF BrokerInv, Flipping
  <2>2. flipWaits /\ xres = "ok" => venue = Flat /\ job = NoJob
    <3>1. flipWaits => ~May("lost")
      BY <1>2, <2>1 DEF Sided, Tame
    <3>2. QED
      BY <1>2, <2>1, <3>1 DEF Dropped, Entering, EntryDone
  <2>3. QED
    BY <1>5, <2>1, <2>2, Shapes DEF Settle, Openers
<1>8. Sided'
  <2>1. cache' = cache \/ cache' = venue \/ cache' = Flat
    BY <1>3
  <2>2. QED
    BY <1>1, <1>2, <2>1, <1>6, <1>7, Shapes DEF Sided, OneSided
<1>9. Alone'
  BY <1>2, <1>6, <1>7 DEF Alone
<1>10. Turns'
  BY <1>2, <1>4, <1>6, TurnsLeave
<1>11. Epoch'
  BY <1>4, Shapes DEF Epoch
<1>12. Numbered'
  <2>1. opener'.id = opener.id => isFilled(EntryId)' = isFilled(EntryId) /\ InTransit(EntryId)' = InTransit(EntryId)
    BY <1>1 DEF isFilled, InTransit, EntryId
  <2>2. isFilled(ExitId)' = isFilled(ExitId) /\ InTransit(ExitId)' = InTransit(ExitId)
    BY <1>1, <1>6 DEF isFilled, InTransit, ExitId
  <2>3. QED
    BY <1>1, <1>2, <1>6, <1>7, <2>1, <2>2 DEF Numbered
<1>13. Asked'
  BY <1>1, <1>2, <1>6, <1>7 DEF Asked, ExitId, EntryId
<1>14. JobShape'
  <2>1. job # NoJob => ~EntryDone
    BY <1>2 DEF Alone, EntryDone
  <2>2. QED
    BY <1>1, <1>2, <1>3, <1>6, <2>1 DEF JobShape, isFilled, ExitId
<1>15. JobEnd'
  BY <1>1, <1>2, <1>6 DEF JobEnd, ExitDone, Finished, isFilled, ExitId
<1>16. View'
  <2>1. /\ Entering' = Entering /\ ExitDone' = ExitDone /\ (EntryDone => Entering)
        /\ May("lost")' = May("lost")
    BY <1>1, <1>6, <1>7 DEF Entering, EntryDone, ExitDone, isFilled, EntryId, ExitId, May
  <2>2. QED
    BY <1>1, <1>2, <1>3, <1>7, <2>1 DEF View
<1>17. Onward'
  <2>1. CASE opener' = opener
    BY <1>1, <1>2, <2>1, OnwardFrame
  <2>2. CASE opener'.pc \in {"idle", "enter"} /\ (opener'.pc = "enter" => venue = Flat)
    BY <1>1, <2>2 DEF Onward, EntryDone
  <2>3. QED
    BY <1>7, <2>1, <2>2
<1>18. Dropped'
  BY <1>6 DEF Dropped
<1>19. Booked'
  <2>1. \A e \in 1 .. Len(eps) : Held(e)' = Held(e) /\ Due(e)' = Due(e)
    BY <1>1, <1>6 DEF Held, Due, Pending, ExitDone, Finished, isFilled, ExitId, FillOf
  <2>2. QED
    BY <1>1, <1>3, <2>1 DEF Booked
<1>20. Claims'
  <2>1. ~Finished
    BY DEF Finished
  <2>2. sync.stale => Owed(cache)'
    BY <1>1, <1>2, <1>3, <2>1 DEF Claims, Owed
  <2>3. QED
    BY <1>3, <2>2 DEF Claims
<1>21. QED
  BY <1>8, <1>9, <1>10, <1>11, <1>12, <1>13, <1>14, <1>15, <1>16, <1>17, <1>18, <1>19, <1>20 DEF
    TameInv

(* A snapshot is applied and whoever asked for it goes on.                 *)
LEMMA SyncedTame ==
  ASSUME BrokerInv, TameInv, Tame, SyncFetch \/ SyncEvents PROVE TameInv'
<1>1. Quiet /\ sync.pc # "idle" /\ sync.snap = Flat /\ sync.snap \in Snapshots /\ venue \in Snapshots
  BY Shapes DEF SyncFetch, SyncEvents, TameInv, Epoch
<1>2. PICK snap \in Snapshots : Current(snap) /\ ApplySnapshot(snap)
  <2>1. CASE SyncFetch
    BY <1>1, <2>1 DEF SyncFetch, Current
  <2>2. CASE SyncEvents
    <3>1. Current(sync.snap)
      BY <1>1, <2>2 DEF SyncEvents, Current, TameInv, Epoch
    <3>2. QED
      BY <1>1, <2>2, <3>1 DEF SyncEvents
  <2>3. QED
    BY <2>1, <2>2
<1>3. queue # <<>> /\ Head(queue) \in Requesters
  BY <1>1, Shapes
<1>4. CASE Head(queue) = "loop"
  BY <1>1, <1>2, <1>4, LoopSyncedTame
<1>5. CASE Head(queue) = "open"
  BY <1>1, <1>2, <1>5, OpenSyncedTame
<1>6. CASE Head(queue) = "entry"
  BY <1>1, <1>2, <1>6, EntrySyncedTame
<1>7. CASE Head(queue) = "exit"
  <2>1. xpc \in {"after", "dropped"}
    BY <1>3, <1>7, HeadWaits DEF BrokerInv
  <2>2. QED
    BY <1>1, <1>2, <1>7, <2>1, ExitSyncedTame, DroppedSyncedTame
<1>8. QED
  BY <1>3, <1>4, <1>5, <1>6, <1>7 DEF Requesters

(* Every step of a tame world keeps the invariant.                         *)
LEMMA TameStep ==
  ASSUME BrokerInv, TameInv, Tame, [Next]_vars PROVE TameInv'
<1>1. CASE Continue
  BY <1>1, SyncStartTame, OpenRefusedTame, OpenDecidesTame, OpenFlipTame, EntrySendTame DEF Continue
<1>2. CASE RequestSync \/ SyncStep
  BY <1>2, RequestSyncTame, FetchMissingTame, SyncedTame DEF SyncStep
<1>3. CASE \E side \in Sides : OpenCall(side)
  BY <1>3, OpenCallTame
<1>4. CASE EntryFilled \/ EntryRejected \/ EntryUnconfirmed
  BY <1>4, EntryFilledTame, EntryRejectedTame, EntryUnconfirmedTame
<1>5. CASE Trigger \/ CloseCall \/ ReduceCall
  BY <1>5, TriggerTame, CloseCallTame, ReduceCallTame
<1>6. CASE ExitStep
  BY <1>6, LookupMissTame, ReadFlatTame, ExitReadTame, CompleteTame, ExitResidualTame, RetryTame DEF ExitStep
<1>7. CASE ExitOutage \/ ExitRejected \/ ExitResidualFails
  BY <1>7, OutageTame, RejectedTame, ExitResidualTame
<1>8. CASE \E o \in transit : Execute(o)
  <2>1. PICK o \in transit : Execute(o)
    BY <1>8
  <2>2. \/ xpc = "send" /\ o.id = ExitId
        \/ opener.pc = "sent" /\ o.id = EntryId
    BY <2>1, Awaits DEF Awaited
  <2>3. QED
    BY <2>1, <2>2, ExitExecutesTame, EntryExecutesTame
<1>9. ~(SyncFails \/ Liquidate \/ OutsiderTrades)
  BY DEF SyncFails, Liquidate, OutsiderTrades, Tame, May
<1>10. CASE Restart
  BY <1>10, RestartTame
<1>11. CASE UNCHANGED vars
  <2>1. UNCHANGED <<world, venue, eps, transit, filled, cache, queue, sync, opener, opens, meta, journal,
                    exits, job, xpc, xres, flipWaits>>
    BY <1>11 DEF vars, venueVars, syncVars, openVars, storeVars, exitVars
  <2>2. QED
    BY <2>1, SidedFrame, AloneFrame, TurnsFrame, EpochFrame, NumberedFrame, AskedFrame, JobShapeFrame,
       JobEndFrame, ViewFrame, OnwardFrame, DroppedFrame, BookedFrame, ClaimsFrame DEF TameInv
<1>12. QED
  BY <1>1, <1>2, <1>3, <1>4, <1>5, <1>6, <1>7, <1>8, <1>9, <1>10, <1>11 DEF Next

(* Nothing is open, on its way or journaled at first.                      *)
LEMMA TameInit == ASSUME Init PROVE TameInv
<1>1. /\ venue = Flat /\ cache = Flat /\ eps = <<>> /\ transit = {} /\ filled = {} /\ queue = <<>>
      /\ sync = IdleSync /\ opener.pc = "idle" /\ job = NoJob /\ xpc = "none" /\ meta = NoMeta
      /\ journal = [e \in 0 .. MaxEp |-> 0]
  BY DEF Init, IdleOpen
<1>2. /\ NoJob.reason = "none" /\ IdleSync.snap = Flat /\ IdleSync.stale = FALSE /\ IdleSync.pc = "idle"
  BY DEF NoJob, IdleSync
<1>3. Sided /\ Alone /\ Turns /\ Epoch
  BY <1>1, <1>2 DEF Sided, Alone, Turns, Epoch
<1>4. Numbered /\ Asked /\ JobShape /\ JobEnd
  BY <1>1 DEF Numbered, Asked, JobShape, JobEnd, ExitDone, Finished
<1>5. View /\ Onward /\ Dropped
  BY <1>1 DEF View, Onward, Dropped, EntryDone
<1>6. Booked /\ Claims
  BY <1>1 DEF Booked, Claims, Owed
<1>7. QED
  BY <1>3, <1>4, <1>5, <1>6 DEF TameInv

(* What holds between the exchange, the driver, the open and the journal   *)
(* in every tame world, of any size and with any number of episodes.       *)
THEOREM TameInvariant == Spec => [](Tame => TameInv)
<1>1. Init => (Tame => TameInv)
  BY TameInit
<1>2. BrokerInv /\ (Tame => TameInv) /\ [Next]_vars => (Tame => TameInv)'
  <2> SUFFICES ASSUME BrokerInv, Tame => TameInv, [Next]_vars, Tame' PROVE TameInv'
    OBVIOUS
  <2>1. UNCHANGED world
    BY Writers
  <2>2. Tame
    BY <2>1 DEF Tame, May, OneSided
  <2>3. QED
    BY <2>2, TameStep
<1>3. QED
  BY <1>1, <1>2, BrokerInvariant, PTL DEF Spec

(* The journal never holds more of a position than was opened of it: its   *)
(* fills (RemoteExits.complete), vanished positions and flips are booked   *)
(* once, whatever the order of answers, syncs and restarts, and whatever   *)
(* answers are lost where the agent keeps to one side.                     *)
THEOREM NothingBookedTwice == Spec => []NoOverJournal
<1>1. BrokerInv /\ (Tame => TameInv) => NoOverJournal
  <2> SUFFICES ASSUME BrokerInv, Tame => TameInv, world.kinds \subseteq {"crash", "lost"},
                      May("lost") => OneSided, NEW e \in DOMAIN eps
               PROVE  journal[e] <= eps[e].size
    BY DEF NoOverJournal
  <2>1. Booked
    BY DEF Tame, TameInv
  <2>2. e \in 1 .. Len(eps)
    BY Shapes
  <2>3. journal[e] + Held(e) + Due(e) <= eps[e].size
    BY <2>1, <2>2 DEF Booked
  <2>4. QED
    BY <2>2, <2>3, Sizes
<1>2. QED
  BY <1>1, BrokerInvariant, TameInvariant, PTL

(* An entry and an exit are on their way together only in a flip, and      *)
(* never where every call is answered, syncs succeed and nobody else moves *)
(* the position (remoteBroker.ts, open decides from a fresh view).         *)
THEOREM EntriesAndExitsApart == Spec => []NoOrdersTogether
<1>1. BrokerInv /\ (Tame => TameInv) /\ OnlyFlipMeets => NoOrdersTogether
  <2> SUFFICES ASSUME BrokerInv, Tame => TameInv, world.kinds \subseteq {"crash", "ttl"} PROVE OrdersApart
    BY DEF NoOrdersTogether
  <2>1. Alone
    BY DEF Tame, TameInv, May
  <2>2. QED
    BY <2>1 DEF Alone, BrokerInv, Driven, OrdersApart
<1>2. QED
  BY <1>1, BrokerInvariant, TameInvariant, OrdersMeetOnlyInFlips, PTL

----------------------------------------------------------------------------
(* Client order ids are used once, in every world                           *)

Undecided == {"sync", "decide", "flip", "enter"}

(* Orders that leave, a job that goes or is sent, an open that goes on.    *)
LEMMA NumberedLess ==
  ASSUME Numbered, transit' \subseteq transit, UNCHANGED <<filled, exits, opens>>,
         job' = NoJob \/ (job # NoJob /\ job'.id = job.id /\ (job'.sent = Flat => job.sent = Flat)),
         \/ opener'.pc = "idle"
         \/ /\ opener.pc # "idle" /\ opener'.id = opener.id
            /\ opener'.pc \in Undecided => opener.pc \in Undecided
  PROVE  Numbered'
<1>1. \A o \in transit' \cup filled' : o.id[2] <= (IF o.id[1] = "exit" THEN exits' ELSE opens')
  BY DEF Numbered
<1>2. /\ \A f, g \in filled' : f.id = g.id => f = g
      /\ \A f \in filled', o \in transit' : f.id # o.id
  BY DEF Numbered
<1>3. /\ job' # NoJob => job'.id \in 1 .. exits'
      /\ opener'.pc # "idle" => opener'.id = opens'
  BY DEF Numbered
<1>4. job' # NoJob /\ job'.sent = Flat => ~isFilled(ExitId)' /\ ~InTransit(ExitId)'
  BY DEF Numbered, isFilled, InTransit, ExitId
<1>5. opener'.pc \in Undecided => ~isFilled(EntryId)' /\ ~InTransit(EntryId)'
  BY DEF Numbered, isFilled, InTransit, EntryId, Undecided
<1>6. QED
  BY <1>1, <1>2, <1>3, <1>4, <1>5 DEF Numbered, Undecided

(* The number of a new open was not used before.                           *)
LEMMA NumberedOpen ==
  ASSUME BrokerInv, Numbered, NEW side \in Sides, OpenCall(side) PROVE Numbered'
<1>1. UNCHANGED <<transit, filled, exits, job>>
  BY DEF OpenCall, venueVars, exitVars
<1>2. opener'.id = opens + 1 /\ opens' = opens + 1
  BY DEF OpenCall, IdleOpen
<1>3. opens \in Nat /\ \A o \in transit \cup filled : o.id[2] \in Nat
  BY Shapes DEF Orders, Fills, Ids
<1>4. \A o \in transit \cup filled : o.id[2] <= (IF o.id[1] = "exit" THEN exits ELSE opens')
  BY <1>2, <1>3 DEF Numbered
<1>5. ASSUME NEW o \in transit \cup filled PROVE o.id # <<"entry", opens'>>
  <2>1. o.id = <<"entry", opens'>> => o.id[1] = "entry" /\ o.id[2] = opens + 1
    BY <1>2
  <2>2. o.id[1] = "entry" => o.id[2] <= opens
    BY DEF Numbered
  <2>3. QED
    BY <1>3, <2>1, <2>2
<1>6. ~isFilled(EntryId)' /\ ~InTransit(EntryId)'
  BY <1>1, <1>2, <1>5 DEF isFilled, InTransit, EntryId
<1>7. isFilled(ExitId)' = isFilled(ExitId) /\ InTransit(ExitId)' = InTransit(ExitId)
  BY <1>1 DEF isFilled, InTransit, ExitId
<1>8. QED
  BY <1>1, <1>2, <1>4, <1>6, <1>7 DEF Numbered

(* So was the number of a new exit job.                                    *)
LEMMA NumberedJob ==
  ASSUME BrokerInv, Numbered, NEW reason, NEW qty, enqueue(reason, qty),
         UNCHANGED <<transit, filled, opens>>,
         opener' = opener \/ (opener.pc = "decide" /\ opener' = [opener EXCEPT !.pc = "flip"])
  PROVE  /\ Numbered' /\ job' = [id |-> exits + 1, reason |-> reason, qty |-> qty, sent |-> Flat]
         /\ job' # NoJob /\ ~isFilled(ExitId)' /\ ~InTransit(ExitId)'
<1>1. /\ job' = [id |-> exits + 1, reason |-> reason, qty |-> qty, sent |-> Flat] /\ exits' = exits + 1
      /\ exits \in Nat
  BY FreshExit DEF enqueue
<1>2. job'.id \in 1 .. exits' /\ job'.id # NoJob.id /\ job'.sent = Flat
  BY <1>1 DEF NoJob
<1>3. ~isFilled(ExitId)' /\ ~InTransit(ExitId)'
  BY <1>1, FreshExit DEF isFilled, InTransit, ExitId
<1>4. \A o \in transit' \cup filled' : o.id[2] <= (IF o.id[1] = "exit" THEN exits' ELSE opens')
  BY <1>1, FreshExit
<1>5. opener'.id = opener.id /\ (opener'.pc \in Undecided => opener.pc \in Undecided)
  BY Shapes DEF Openers, Undecided
<1>6. /\ opener'.pc # "idle" => opener'.id = opens'
      /\ opener'.pc \in Undecided => ~isFilled(EntryId)' /\ ~InTransit(EntryId)'
  BY <1>5 DEF Numbered, isFilled, InTransit, EntryId, Undecided
<1>7. /\ \A f, g \in filled' : f.id = g.id => f = g
      /\ \A f \in filled', o \in transit' : f.id # o.id
  BY DEF Numbered
<1>8. Numbered'
  BY <1>2, <1>3, <1>4, <1>6, <1>7 DEF Numbered, Undecided
<1>9. QED
  BY <1>1, <1>2, <1>3, <1>8

(* The driver's promise settles: its job keeps its number or is deleted.   *)
LEMMA NumberedSettle ==
  ASSUME BrokerInv, Numbered, NEW res, NEW j \in {job, NoJob}, Settle(res, j), transit' \subseteq transit,
         UNCHANGED <<filled, exits, opens>>
  PROVE  Numbered'
<1>1. job \in Jobs /\ opener \in Openers
  BY Shapes
<1>2. job' = NoJob \/ (job # NoJob /\ job'.id = job.id /\ job'.sent = job.sent)
  BY <1>1 DEF Settle, Jobs
<1>3. flipWaits => opener.pc = "flip"
  BY DEF BrokerInv, Flipping
<1>4. \/ opener' = opener \/ opener' = IdleOpen
      \/ flipWaits /\ opener' = [opener EXCEPT !.pc = "enter"]
  BY DEF Settle
<1>5. \/ opener'.pc = "idle"
      \/ /\ opener.pc # "idle" /\ opener'.id = opener.id
         /\ opener'.pc \in Undecided => opener.pc \in Undecided
  BY <1>1, <1>3, <1>4 DEF Openers, IdleOpen, Undecided
<1>6. QED
  BY <1>2, <1>5, NumberedLess

(* A sync ends and its caller goes on.                                     *)
LEMMA NumberedResume ==
  ASSUME BrokerInv, Numbered, NEW isOk, queue # <<>>, Resume(Head(queue), isOk),
         UNCHANGED <<transit, filled, exits, opens>>
  PROVE  Numbered'
<1>1. Head(queue) \in Requesters /\ job \in Jobs /\ opener \in Openers
  BY Shapes
<1>2. CASE Head(queue) = "exit"
  <2>1. PICK j \in {job, NoJob} : Settle(xres, j)
    BY <1>2 DEF Resume
  <2>2. QED
    BY <2>1, NumberedSettle
<1>3. CASE Head(queue) = "loop"
  <2>1. UNCHANGED <<opener, job>>
    BY <1>3 DEF Resume
  <2>2. QED
    BY <2>1, NumberedFrame
<1>4. CASE Head(queue) \in {"open", "entry"}
  <2>1. UNCHANGED job /\ (opener' = IdleOpen \/ (Head(queue) = "open" /\ opener' = [opener EXCEPT !.pc = "decide"]))
    BY <1>4 DEF Resume
  <2>2. Head(queue) = "open" => opener.pc = "sync"
    BY HeadWaits DEF BrokerInv
  <2>3. \/ opener'.pc = "idle"
        \/ opener.pc # "idle" /\ opener'.id = opener.id /\ opener.pc \in Undecided
    BY <1>1, <2>1, <2>2 DEF Openers, IdleOpen, Undecided
  <2>4. QED
    BY <2>1, <2>3, NumberedLess
<1>5. QED
  BY <1>1, <1>2, <1>3, <1>4 DEF Requesters

(* The entry is sent under the number of its open.                         *)
LEMMA NumberedEntry ==
  ASSUME BrokerInv, Numbered, EntrySend PROVE Numbered'
<1>1. UNCHANGED <<filled, exits, opens, job>> /\ opener'.id = opener.id /\ opener'.pc = "sent"
  BY Shapes DEF EntrySend, exitVars, Openers
<1>2. PICK x : transit' = transit \cup {x} /\ x.id = EntryId
  <2> DEFINE y == [id |-> EntryId, side |-> opener.side, qty |-> EntryQty, reduceOnly |-> FALSE]
  <2>1. transit' = transit \cup {y} /\ y.id = EntryId
    BY DEF EntrySend
  <2> HIDE DEF y
  <2>2. QED
    BY <2>1
<1>3. opener.pc = "enter" /\ ~isFilled(EntryId) /\ opener.id = opens
  BY DEF EntrySend, Numbered
<1>4. x.id[1] = "entry" /\ x.id[2] = opens /\ x.id # ExitId /\ opens <= opens
  BY <1>2, <1>3, Shapes DEF EntryId, ExitId
<1>5. \A o \in transit' \cup filled' : o.id[2] <= (IF o.id[1] = "exit" THEN exits' ELSE opens')
  BY <1>1, <1>2, <1>4 DEF Numbered
<1>6. \A f \in filled', o \in transit' : f.id # o.id
  BY <1>1, <1>2, <1>3 DEF Numbered, isFilled
<1>7. isFilled(ExitId)' = isFilled(ExitId) /\ InTransit(ExitId)' = InTransit(ExitId)
  BY <1>1, <1>2, <1>4 DEF isFilled, InTransit, ExitId
<1>8. QED
  BY <1>1, <1>3, <1>5, <1>6, <1>7 DEF Numbered

(* The order of an exit is sent under the number of its job.               *)
LEMMA Resized ==
  ASSUME BrokerInv, ExitRead
  PROVE  /\ job # NoJob /\ job' # NoJob /\ job'.id = job.id /\ job'.reason = job.reason
         /\ job'.qty = job.qty /\ job'.sent # Flat /\ job'.sent.side \in Sides
<1>1. /\ xpc = "read" /\ venue # Flat
      /\ \E size : job' = [job EXCEPT !.sent = [venue EXCEPT !.qty = size]]
  BY DEF ExitRead
<1>2. job # NoJob /\ job.reason # "none"
  BY <1>1 DEF BrokerInv, Driven
<1>3. /\ job \in Jobs /\ venue \in Snapshots /\ venue.side \in Sides /\ Flat.side = "FLAT"
      /\ "FLAT" \notin Sides /\ NoJob.reason = "none"
  BY <1>1, Shapes
<1>4. /\ job'.id = job.id /\ job'.reason = job.reason /\ job'.qty = job.qty
      /\ job'.sent.side = venue.side
  BY <1>1, <1>3 DEF Jobs, Snapshots
<1>5. QED
  BY <1>2, <1>3, <1>4

(* It is the only order under that number.                                 *)
LEMMA NumberedExit ==
  ASSUME BrokerInv, Numbered, ExitRead PROVE Numbered'
<1>1. UNCHANGED <<filled, exits, opens, opener>>
  BY DEF ExitRead, openVars
<1>2. job # NoJob /\ job' # NoJob /\ job'.id = job.id /\ job'.sent # Flat
  BY Resized
<1>3. CASE transit' = transit
  BY <1>1, <1>2, <1>3, NumberedLess
<1>4. CASE transit' # transit
  <2>1. ~isFilled(ExitId)
    BY <1>4 DEF ExitRead
  <2>2. PICK x : transit' = transit \cup {x} /\ x.id = ExitId
    <3>1. ASSUME NEW n PROVE [id |-> ExitId, side |-> Other(venue.side), qty |-> n, reduceOnly |-> TRUE].id = ExitId
      OBVIOUS
    <3>2. \E n : transit' = transit \cup {[id |-> ExitId, side |-> Other(venue.side), qty |-> n, reduceOnly |-> TRUE]}
      BY <2>1 DEF ExitRead
    <3>3. QED
      BY <3>1, <3>2
  <2>3. job.id \in 1 .. exits /\ exits \in Nat
    BY <1>2, Shapes DEF Numbered
  <2>4. x.id[1] = "exit" /\ x.id[2] <= exits /\ x.id # EntryId
    BY <2>2, <2>3 DEF ExitId, EntryId
  <2>5. \A o \in transit' \cup filled' : o.id[2] <= (IF o.id[1] = "exit" THEN exits' ELSE opens')
    BY <1>1, <2>2, <2>4 DEF Numbered
  <2>6. \A f \in filled', o \in transit' : f.id # o.id
    BY <1>1, <2>1, <2>2 DEF Numbered, isFilled
  <2>7. isFilled(EntryId)' = isFilled(EntryId) /\ InTransit(EntryId)' = InTransit(EntryId)
    BY <1>1, <2>2, <2>4 DEF isFilled, InTransit, EntryId
  <2>8. QED
    BY <1>1, <1>2, <2>3, <2>5, <2>6, <2>7 DEF Numbered
<1>5. QED
  BY <1>3, <1>4

(* An order that executes was not filled before.                           *)
LEMMA NumberedExecute ==
  ASSUME BrokerInv, Numbered, NEW o \in transit, Execute(o) PROVE Numbered'
<1>1. UNCHANGED <<exits, opens, job, opener>> /\ transit' = {x \in transit : x.id # o.id}
  BY DEF Execute, openVars, exitVars, Forget
<1>2. ~isFilled(o.id)
  BY DEF Numbered, isFilled
<1>3. PICK f : f.id = o.id /\ filled' = filled \cup {f}
  <2>1. ASSUME NEW n, NEW e PROVE [id |-> o.id, qty |-> n, ep |-> e].id = o.id
    OBVIOUS
  <2>2. \E n, e : filled' = filled \cup {[id |-> o.id, qty |-> n, ep |-> e]}
    BY DEF Execute
  <2>3. QED
    BY <2>1, <2>2
<1>4. /\ job # NoJob /\ o.id = ExitId => job.sent # Flat
      /\ o.id = EntryId => opener.pc \notin {"sync", "decide", "flip", "enter"}
  BY DEF Numbered, InTransit
<1>5. QED
  BY <1>1, <1>2, <1>3, <1>4, NumberedFill

(* Every step uses a number once.                                          *)
LEMMA NumberedKept == BrokerInv /\ Numbered /\ [Next]_vars => Numbered'
<1> SUFFICES ASSUME BrokerInv, Numbered, [Next]_vars PROVE Numbered'
  OBVIOUS
<1>1. CASE OpenRefused \/ OpenOrScaleIn
  <2>1. UNCHANGED <<transit, filled, exits, opens, job>>
    BY <1>1 DEF OpenRefused, OpenOrScaleIn, venueVars, exitVars
  <2>2. opener.pc = "decide" /\ (opener' = IdleOpen \/ \E b : opener' = [opener EXCEPT !.pc = "enter", !.scaleIn = b])
    BY <1>1 DEF OpenRefused, OpenOrScaleIn
  <2>3. opener'.pc = "idle" \/ (opener.pc # "idle" /\ opener'.id = opener.id /\ opener.pc \in Undecided)
    BY <2>2, Shapes DEF Openers, IdleOpen, Undecided
  <2>4. QED
    BY <2>1, <2>3, NumberedLess
<1>2. CASE OpenFlip \/ Trigger \/ ReduceCall
  <2>1. /\ UNCHANGED <<transit, filled, opens>> /\ (\E reason, qty : enqueue(reason, qty))
        /\ opener' = opener \/ (opener.pc = "decide" /\ opener' = [opener EXCEPT !.pc = "flip"])
    BY <1>2 DEF OpenFlip, Trigger, ReduceCall, venueVars, openVars
  <2>2. QED
    BY <2>1, NumberedJob
<1>3. CASE CloseCall
  <2>1. UNCHANGED <<transit, filled, opens, opener>>
    BY <1>3 DEF CloseCall, venueVars, openVars
  <2>2. UNCHANGED <<exits, job>> \/ enqueue("CLOSE", 0)
    BY <1>3 DEF CloseCall
  <2>3. QED
    BY <2>1, <2>2, NumberedFrame, NumberedJob
<1>4. CASE EntrySend
  BY <1>4, NumberedEntry
<1>5. CASE ExitRead
  BY <1>5, NumberedExit
<1>6. CASE \E side \in Sides : OpenCall(side)
  BY <1>6, NumberedOpen
<1>7. CASE EntryFilled \/ EntryRejected \/ EntryUnconfirmed
  <2>1. UNCHANGED <<filled, exits, opens, job>> /\ transit' \subseteq transit
    BY <1>7 DEF EntryFilled, EntryRejected, EntryUnconfirmed, venueVars, exitVars, Forget
  <2>2. opener.pc = "sent" /\ (opener' = IdleOpen \/ opener' = [opener EXCEPT !.pc = "after"])
    BY <1>7 DEF EntryFilled, EntryRejected, EntryUnconfirmed
  <2>3. opener'.pc = "idle" \/ (opener.pc # "idle" /\ opener'.id = opener.id /\ opener'.pc \notin Undecided)
    BY <2>2, Shapes DEF Openers, IdleOpen, Undecided
  <2>4. QED
    BY <2>1, <2>3, NumberedLess
<1>8. CASE SyncFetch \/ SyncEvents \/ SyncFails
  <2>1. /\ queue # <<>> /\ UNCHANGED <<transit, filled, exits, opens>>
        /\ \E isOk \in BOOLEAN : Resume(Head(queue), isOk)
    BY <1>8, SyncEnds DEF BrokerInv, venueVars
  <2>2. QED
    BY <2>1, NumberedResume
<1>9. CASE ExitOutage
  <2>1. UNCHANGED <<filled, exits, opens>> /\ transit' \subseteq transit /\ Settle("outage", job)
    BY <1>9 DEF ExitOutage, Forget
  <2>2. QED
    BY <2>1, NumberedSettle
<1>10. CASE ExitReadFlat \/ ExitRejected
  <2>1. UNCHANGED <<filled, exits, opens, opener>> /\ transit' \subseteq transit /\ job' = NoJob
    BY <1>10 DEF ExitReadFlat, ExitRejected, venueVars, openVars, Forget
  <2>2. QED
    BY <2>1, NumberedLess DEF Undecided
<1>11. CASE \E o \in transit : Execute(o)
  BY <1>11, NumberedExecute
<1>12. CASE Restart
  <2>1. UNCHANGED <<transit, filled, exits, opens>> /\ job' = NoJob /\ opener'.pc = "idle"
    BY <1>12 DEF Restart, venueVars, IdleOpen
  <2>2. QED
    BY <2>1, NumberedLess
<1>13. CASE \/ SyncStart \/ RequestSync \/ SyncFetchMissing \/ RetryPending \/ ExitLookupMiss
            \/ ExitComplete \/ ExitResidual \/ ExitResidualFails \/ Liquidate \/ OutsiderTrades
            \/ UNCHANGED vars
  <2>1. UNCHANGED <<transit, filled, exits, opens, job, opener>>
    BY <1>13 DEF SyncStart, RequestSync, SyncFetchMissing, RetryPending, ExitLookupMiss,
       ExitComplete, ExitResidual, ExitResidualFails, Liquidate, OutsiderTrades, vars, venueVars,
       openVars, exitVars
  <2>2. QED
    BY <2>1, NumberedFrame
<1>14. QED
  BY <1>1, <1>2, <1>3, <1>4, <1>5, <1>6, <1>7, <1>8, <1>9, <1>10, <1>11, <1>12, <1>13
     DEF Next, Continue, SyncStep, ExitStep

(* Client order ids are used once in every world, whatever is lost, late   *)
(* or restarted.                                                           *)
THEOREM IdsUsedOnce == Spec => []Numbered
<1>1. Init => Numbered
  BY DEF Init, Numbered, IdleOpen
<1>2. QED
  BY <1>1, NumberedKept, BrokerInvariant, PTL DEF Spec

----------------------------------------------------------------------------
(* Private worlds: what the agent opened stays its own                      *)

(* Only the broker and the exchange itself touch the account; syncs and    *)
(* the process do not fail, answers to orders may be lost.                 *)
Private == world.kinds \subseteq {"lost", "liquidate"}

\* Whoever asked for a refresh will see the exchange as it is then.
Fresh(who) == who \in Waiting /\ (sync.stale => Head(queue) # who)
\* The refresh of an exit comes before the sync of the next open.
ExitFirst == \A i, j \in 1 .. Len(queue) : queue[i] = "open" /\ queue[j] = "exit" => j < i

\* A position is the agent's, by the sidecar or as an open that it expects.
Known ==
  /\ meta = NoMeta \/ isManaged(meta)
  /\ venue # Flat /\ ~EntryDone => isManaged(meta) \/ expected = venue.side
  /\ venue # Flat /\ ~EntryDone /\ isManaged(meta) /\ lastSeen # Flat /\ lastSeen.side # venue.side =>
       expected = venue.side

\* An entry runs against neither the position nor what the broker believes.
Facing ==
  /\ opener.pc \in {"sync", "decide", "flip"} => ~opener.scaleIn
  /\ opener.pc \in {"enter", "sent"} =>
       /\ venue = Flat \/ venue.side = opener.side
       /\ cache = Flat \/ cache.side = opener.side
       /\ opener.scaleIn =>
            isManaged(meta) /\ job = NoJob /\ (meta.seen = Flat \/ meta.seen.side = opener.side)

\* Cache, sidecar and position agree on the side; a position the cache does
\* not show is about to be refreshed, before anybody decides.
Matching ==
  /\ cache # Flat /\ venue # Flat => cache.side = venue.side
  /\ cache # Flat /\ meta.seen # Flat => meta.seen.side = cache.side
  /\ cache = Flat /\ venue # Flat =>
       \/ EntryDone
       \/ opener.pc = "after" /\ (Fresh("entry") \/ Fresh("exit"))
       \/ opener.pc \in {"idle", "sync"} /\ Fresh("exit") /\ ExitFirst

\* What a flip waits for is refreshed, and found nothing to close.
Line ==
  /\ xpc \in {"after", "dropped"} => "exit" \in Waiting
  /\ opener.pc \in {"decide", "flip"} /\ sync.stale => Head(queue) # "exit"
  /\ xpc = "dropped" /\ xres = "ok" /\ venue # Flat =>
       \/ opener.pc \in {"sent", "after"}
       \/ opener.pc \in {"idle", "sync"} /\ ExitFirst

\* A snapshot without the position is applied while there is none, or while
\* an entry that just executed is still to be recorded.
Moment ==
  /\ sync.snap = Flat /\ (sync.stale => sync.pc # "idle")
  /\ sync.pc = "events" /\ ~sync.stale => venue = Flat \/ EntryDone

\* A full exit that executed left nothing, and one that was left behind by a
\* flip waits until the entry has executed.
Leaving ==
  /\ job # NoJob => (job.reason = "PARTIAL TP" <=> job.qty # 0)
  /\ job.sent # Flat => job.sent.side \in Sides
  /\ xpc \in {"lookup", "send", "residual", "after"} => job.sent # Flat
  /\ Finished => isFilled(ExitId)
  /\ xpc = "residual" => job.qty = 0
  /\ xpc = "dropped" => job.sent = Flat
  /\ ExitDone /\ job.qty = 0 => venue = Flat
  /\ job # NoJob /\ (opener.pc = "enter" \/ (opener.pc = "sent" /\ ~isFilled(EntryId))) =>
       venue = Flat /\ job.sent = Flat

\* What the orders of the open and of the exit job ask for.
Sized ==
  /\ opener.pc = "sent" =>
       \A o \in transit : o.id = EntryId => o.side = opener.side /\ ~o.reduceOnly
  /\ job # NoJob =>
       \A o \in transit : o.id = ExitId =>
         o.reduceOnly /\ (job.qty = 0 /\ venue # Flat => o.qty = venue.qty)

PrivateInv == Known /\ Facing /\ Matching /\ Line /\ Moment /\ Leaving /\ Sized

(* Known survives a step that leaves what it speaks of alone. *)
LEMMA KnownFrame == ASSUME Known, UNCHANGED <<meta, venue, expected, opener, filled, cache>> PROVE Known'
  BY DEF Known, isManaged, lastSeen, EntryDone, isFilled, EntryId

(* Facing survives a step that leaves what it speaks of alone. *)
LEMMA FacingFrame == ASSUME Facing, UNCHANGED <<opener, venue, cache, meta, job>> PROVE Facing'
  BY DEF Facing, isManaged

(* Matching survives a step that leaves what it speaks of alone. *)
LEMMA MatchingFrame ==
  ASSUME Matching, UNCHANGED <<cache, venue, meta, opener, filled, queue, sync>> PROVE Matching'
  BY DEF Matching, EntryDone, isFilled, EntryId, Fresh, Waiting, ExitFirst

(* Line survives a step that leaves what it speaks of alone. *)
LEMMA LineFrame == ASSUME Line, UNCHANGED <<xpc, xres, queue, opener, sync, venue>> PROVE Line'
  BY DEF Line, Waiting, ExitFirst

(* Moment survives a step that leaves what it speaks of alone. *)
LEMMA MomentFrame == ASSUME Moment, UNCHANGED <<sync, venue, opener, filled>> PROVE Moment'
  BY DEF Moment, EntryDone, isFilled, EntryId

(* Leaving survives a step that leaves what it speaks of alone. *)
LEMMA LeavingFrame == ASSUME Leaving, UNCHANGED <<job, xpc, filled, venue, opener>> PROVE Leaving'
  BY DEF Leaving, Finished, ExitDone, isFilled, ExitId, EntryId

(* Sized survives a step that leaves what it speaks of alone. *)
LEMMA SizedFrame == ASSUME Sized, UNCHANGED <<opener, transit, job, venue>> PROVE Sized'
  BY DEF Sized, EntryId, ExitId

(* Who joins the chain stands behind those whose refresh is fresh, and     *)
(* only an exit that joins behind an open breaks their order.              *)
LEMMA FreshJoin ==
  ASSUME BrokerInv, Moment, NEW who \in Requesters, queue' = Append(queue, who), UNCHANGED sync
  PROVE  /\ \A w : Fresh(w) => Fresh(w)'
         /\ \A w \in Waiting : w \in Waiting'
         /\ sync.stale => Head(queue') = Head(queue)
         /\ ExitFirst /\ who # "exit" => ExitFirst'
<1>1. /\ Waiting' = Waiting \cup {who} /\ Len(queue) \in Nat
      /\ queue # <<>> => Head(queue') = Head(queue)
      /\ Len(queue') = Len(queue) + 1 /\ queue'[Len(queue) + 1] = who
      /\ \A i \in 1 .. Len(queue) : queue'[i] = queue[i] /\ queue[i] \in Waiting
  BY Appended, Shapes
<1>2. sync.stale => Head(queue') = Head(queue)
  BY <1>1, Shapes DEF Moment
<1>3. \A w : Fresh(w) => Fresh(w)'
  BY <1>1, <1>2 DEF Fresh
<1>4. ASSUME ExitFirst, who # "exit", NEW i \in 1 .. Len(queue'), NEW j \in 1 .. Len(queue'),
             queue'[i] = "open", queue'[j] = "exit"
      PROVE  j < i
  <2>1. j \in 1 .. Len(queue)
    BY <1>1, <1>4
  <2>2. CASE i \in 1 .. Len(queue)
    BY <1>1, <1>4, <2>1, <2>2 DEF ExitFirst
  <2>3. CASE i = Len(queue) + 1
    BY <1>1, <2>1, <2>3
  <2>4. QED
    BY <1>1, <2>2, <2>3
<1>5. QED
  BY <1>1, <1>2, <1>3, <1>4 DEF ExitFirst

(* Nobody is refreshed before an open that does not wait.                  *)
LEMMA NoOpenWaits ==
  ASSUME BrokerInv, opener.pc # "sync" PROVE "open" \notin Waiting /\ ExitFirst
<1>1. "open" \notin Waiting
  BY DEF BrokerInv, Chain, Where
<1>2. QED
  BY <1>1 DEF Waiting, ExitFirst

(* A refresh after an order sees the exchange as it is then.               *)
LEMMA Refreshes ==
  ASSUME BrokerInv, Moment, NEW who \in Requesters, who \notin Waiting, afterOrder(who)
  PROVE  /\ Fresh(who)' /\ Waiting' = Waiting \cup {who}
         /\ sync'.snap = Flat /\ (sync'.stale => sync'.pc # "idle")
         /\ sync'.pc = "events" => sync'.stale
         /\ sync'.stale => Head(queue') # who
<1>1. sync.snap = Flat
  BY DEF Moment
<1>2. /\ Waiting' = Waiting \cup {who}
      /\ sync'.snap = Flat /\ sync'.pc = sync.pc /\ (sync'.stale <=> sync.pc # "idle")
      /\ sync'.stale => Head(queue') # who
  BY <1>1, Discards
<1>3. QED
  BY <1>2 DEF Fresh

(* After that a sync in progress is discarded.                             *)
LEMMA MomentAfter ==
  ASSUME BrokerInv, Moment, NEW who \in Requesters, who \notin Waiting, afterOrder(who)
  PROVE  Moment'
  BY Refreshes DEF Moment

(* The driver queues its refresh: a position that the cache does not show  *)
(* is refreshed by it.                                                     *)
LEMMA MatchingAfter ==
  ASSUME BrokerInv, Moment, Matching, "exit" \notin Waiting, afterOrder("exit"),
         UNCHANGED <<cache, venue, opener, filled>>,
         venue # Flat => meta' = meta, meta' \in {meta, NoMeta}
  PROVE  Matching'
<1>1. Fresh("exit")'
  BY Refreshes DEF Requesters
<1>2. NoMeta.seen = Flat
  BY DEF NoMeta
<1>3. cache = Flat /\ venue # Flat => EntryDone \/ opener.pc = "after"
  BY DEF Matching, Fresh
<1>4. EntryDone' = EntryDone
  BY DEF EntryDone, isFilled, EntryId
<1>5. QED
  BY <1>1, <1>2, <1>3, <1>4 DEF Matching

(* It is the refresh a flip waits for.                                     *)
LEMMA LineAfter ==
  ASSUME BrokerInv, Moment, "exit" \notin Waiting, afterOrder("exit"), UNCHANGED <<opener, venue>>,
         xpc' = "dropped" => venue = Flat \/ xres' = "error"
  PROVE  Line'
<1>1. "exit" \in Waiting' /\ (sync'.stale => Head(queue') # "exit")
  BY Refreshes DEF Requesters
<1>2. QED
  BY <1>1 DEF Line

(* The next sync of the chain starts. *)
LEMMA SyncStartPrivate ==
  ASSUME BrokerInv, PrivateInv, SyncStart PROVE PrivateInv'
<1>1. UNCHANGED <<venue, transit, filled, cache, queue, opener, expected, meta, job, xpc, xres>>
  BY DEF SyncStart, venueVars, openVars, storeVars, exitVars
<1>2. Known /\ Facing /\ Matching /\ Line /\ Moment /\ Leaving /\ Sized
  BY DEF PrivateInv
<1>3. sync'.pc = "fetch" /\ sync'.snap = Flat /\ sync'.stale = FALSE
  BY DEF SyncStart
<1>4. Known' /\ Facing' /\ Leaving' /\ Sized'
  BY <1>1, <1>2, KnownFrame, FacingFrame, LeavingFrame, SizedFrame
<1>5. Matching'
  <2>1. \A w : Fresh(w) => Fresh(w)'
    BY <1>1, <1>3 DEF Fresh, Waiting
  <2>2. EntryDone' = EntryDone /\ ExitFirst' = ExitFirst
    BY <1>1 DEF EntryDone, isFilled, EntryId, ExitFirst
  <2>3. QED
    BY <1>1, <1>2, <2>1, <2>2 DEF Matching
<1>6. Line'
  BY <1>1, <1>2, <1>3 DEF Line, Waiting, ExitFirst
<1>7. Moment'
  BY <1>3 DEF Moment
<1>8. QED
  BY <1>4, <1>5, <1>6, <1>7 DEF PrivateInv

(* The loop asks for a sync. *)
LEMMA RequestSyncPrivate ==
  ASSUME BrokerInv, PrivateInv, RequestSync PROVE PrivateInv'
<1>1. UNCHANGED <<venue, transit, filled, cache, sync, opener, expected, meta, job, xpc, xres>>
  BY DEF RequestSync, venueVars, openVars, storeVars, exitVars
<1>2. Known /\ Facing /\ Matching /\ Line /\ Moment /\ Leaving /\ Sized
  BY DEF PrivateInv
<1>3. /\ \A w : Fresh(w) => Fresh(w)'
      /\ \A w \in Waiting : w \in Waiting'
      /\ sync.stale => Head(queue') = Head(queue)
      /\ ExitFirst => ExitFirst'
  BY <1>1, <1>2, FreshJoin DEF RequestSync, Requesters
<1>4. Known' /\ Facing' /\ Moment' /\ Leaving' /\ Sized'
  BY <1>1, <1>2, KnownFrame, FacingFrame, MomentFrame, LeavingFrame, SizedFrame
<1>5. Matching'
  <2>1. EntryDone' = EntryDone
    BY <1>1 DEF EntryDone, isFilled, EntryId
  <2>2. QED
    BY <1>1, <1>2, <1>3, <2>1 DEF Matching
<1>6. Line'
  BY <1>1, <1>2, <1>3 DEF Line
<1>7. QED
  BY <1>4, <1>5, <1>6 DEF PrivateInv

(* A sync that misses the position reads the risk events. *)
LEMMA FetchMissingPrivate ==
  ASSUME BrokerInv, PrivateInv, SyncFetchMissing PROVE PrivateInv'
<1>1. UNCHANGED <<venue, transit, filled, cache, queue, opener, expected, meta, job, xpc, xres>>
  BY DEF SyncFetchMissing, venueVars, openVars, storeVars, exitVars
<1>2. Known /\ Facing /\ Matching /\ Line /\ Moment /\ Leaving /\ Sized
  BY DEF PrivateInv
<1>3. sync'.stale = sync.stale /\ sync'.snap = Flat /\ venue = Flat /\ sync'.pc = "events" /\ sync.pc = "fetch"
  BY Shapes DEF SyncFetchMissing, Syncs
<1>4. Known' /\ Facing' /\ Leaving' /\ Sized'
  BY <1>1, <1>2, KnownFrame, FacingFrame, LeavingFrame, SizedFrame
<1>5. Matching'
  BY <1>1, <1>2, <1>3 DEF Matching
<1>6. Line'
  BY <1>1, <1>2, <1>3 DEF Line, Waiting, ExitFirst
<1>7. Moment'
  BY <1>1, <1>3 DEF Moment
<1>8. QED
  BY <1>4, <1>5, <1>6, <1>7 DEF PrivateInv

(* A call of open asks for its sync behind the refresh of an exit. *)
LEMMA OpenCallPrivate ==
  ASSUME BrokerInv, PrivateInv, NEW side \in Sides, OpenCall(side) PROVE PrivateInv'
<1>1. UNCHANGED <<venue, transit, filled, cache, sync, expected, meta, job, xpc, xres>>
  BY DEF OpenCall, venueVars, storeVars, exitVars
<1>2. Known /\ Facing /\ Matching /\ Line /\ Moment /\ Leaving /\ Sized
  BY DEF PrivateInv
<1>3. opener.pc = "idle" /\ opener'.pc = "sync" /\ ~opener'.scaleIn
  BY DEF OpenCall, IdleOpen
<1>4. /\ \A w : Fresh(w) => Fresh(w)'
      /\ \A w \in Waiting : w \in Waiting'
      /\ ExitFirst => ExitFirst'
  BY <1>1, <1>2, FreshJoin DEF OpenCall, Requesters
<1>5. ~EntryDone /\ ~EntryDone'
  BY <1>3 DEF EntryDone
<1>6. Known'
  BY <1>1, <1>2, <1>5 DEF Known, isManaged, lastSeen
<1>7. Facing'
  BY <1>3 DEF Facing
<1>8. Matching'
  BY <1>1, <1>2, <1>3, <1>4, <1>5 DEF Matching
<1>9. Line'
  BY <1>1, <1>2, <1>3, <1>4 DEF Line
<1>10. Moment'
  BY <1>1, <1>2, <1>5 DEF Moment
<1>11. Leaving'
  BY <1>1, <1>2, <1>3 DEF Leaving, Finished, ExitDone, isFilled, ExitId
<1>12. Sized'
  BY <1>1, <1>2, <1>3 DEF Sized, ExitId
<1>13. QED
  BY <1>6, <1>7, <1>8, <1>9, <1>10, <1>11, <1>12 DEF PrivateInv

(* An open decides from a view that shows the position. *)
LEMMA OpenDecidesPrivate ==
  ASSUME BrokerInv, PrivateInv, OpenRefused \/ OpenOrScaleIn PROVE PrivateInv'
<1>1. UNCHANGED <<venue, transit, filled, cache, queue, sync, expected, meta, job, xpc, xres>>
  BY DEF OpenRefused, OpenOrScaleIn, venueVars, syncVars, storeVars, exitVars
<1>2. Known /\ Facing /\ Matching /\ Line /\ Moment /\ Leaving /\ Sized
  BY DEF PrivateInv
<1>3. /\ opener.pc = "decide"
      /\ \/ opener'.pc = "idle"
         \/ /\ opener'.pc = "enter" /\ job = NoJob /\ opener'.side = opener.side
            /\ cache = Flat \/ (isManaged(meta) /\ cache.side = opener.side)
            /\ opener'.scaleIn => cache # Flat
  BY Shapes DEF OpenRefused, OpenOrScaleIn, IdleOpen, isActive, Openers
<1>4. cache = Flat => venue = Flat
  BY <1>2, <1>3 DEF Matching, EntryDone
<1>5. ~EntryDone /\ ~EntryDone'
  BY <1>3 DEF EntryDone
<1>6. Known'
  BY <1>1, <1>2, <1>5 DEF Known, isManaged, lastSeen
<1>7. Facing'
  BY <1>1, <1>2, <1>3, <1>4 DEF Facing, Matching, isManaged
<1>8. Matching'
  BY <1>1, <1>2, <1>4 DEF Matching
<1>9. Line'
  <2>1. xpc = "dropped" /\ xres = "ok" => venue = Flat
    BY <1>2, <1>3 DEF Line
  <2>2. QED
    BY <1>1, <1>2, <1>3, <2>1 DEF Line, Waiting
<1>10. Moment'
  BY <1>1, <1>2, <1>5 DEF Moment
<1>11. Leaving'
  BY <1>1, <1>2, <1>3 DEF Leaving, Finished, ExitDone, isFilled, ExitId
<1>12. Sized'
  BY <1>1, <1>2, <1>3 DEF Sized, ExitId
<1>13. QED
  BY <1>6, <1>7, <1>8, <1>9, <1>10, <1>11, <1>12 DEF PrivateInv

(* The entry is sent under a number nobody used. *)
LEMMA EntrySendPrivate ==
  ASSUME BrokerInv, Numbered, PrivateInv, EntrySend PROVE PrivateInv'
<1>1. UNCHANGED <<venue, filled, cache, queue, sync, expected, meta, job, xpc, xres>>
  BY DEF EntrySend, syncVars, storeVars, exitVars
<1>2. Known /\ Facing /\ Matching /\ Line /\ Moment /\ Leaving /\ Sized
  BY DEF PrivateInv
<1>3. /\ opener.pc = "enter" /\ opener'.pc = "sent" /\ opener'.side = opener.side
      /\ opener'.id = opener.id /\ opener'.scaleIn = opener.scaleIn
  BY Shapes DEF EntrySend, Openers
<1>4. ~isFilled(EntryId) /\ ~InTransit(EntryId)
  BY <1>3 DEF Numbered
<1>5. ~isFilled(EntryId)' /\ ~EntryDone /\ ~EntryDone' /\ EntryId' = EntryId
  BY <1>1, <1>3, <1>4 DEF EntryDone, isFilled, EntryId
<1>6. PICK x : /\ transit' = transit \cup {x} /\ x.id = EntryId
               /\ x.side = opener.side /\ ~x.reduceOnly
  <2> DEFINE y == [id |-> EntryId, side |-> opener.side, qty |-> EntryQty, reduceOnly |-> FALSE]
  <2>1. transit' = transit \cup {y} /\ y.id = EntryId /\ y.side = opener.side /\ ~y.reduceOnly
    BY DEF EntrySend
  <2> HIDE DEF y
  <2>2. QED
    BY <2>1
<1>7. Known'
  BY <1>1, <1>2, <1>5 DEF Known, isManaged, lastSeen
<1>8. Facing'
  BY <1>1, <1>2, <1>3 DEF Facing, isManaged
<1>9. Matching'
  BY <1>1, <1>2, <1>3, <1>5 DEF Matching
<1>10. Line'
  BY <1>1, <1>2, <1>3 DEF Line, Waiting
<1>11. Moment'
  BY <1>1, <1>2, <1>5 DEF Moment
<1>12. Leaving'
  BY <1>1, <1>2, <1>3 DEF Leaving, Finished, ExitDone, isFilled, ExitId
<1>13. Sized'
  <2>1. \A o \in transit' : o.id = EntryId' => o.side = opener'.side /\ ~o.reduceOnly
    BY <1>3, <1>4, <1>5, <1>6 DEF InTransit
  <2>2. x.id # ExitId
    BY <1>6 DEF EntryId, ExitId
  <2>3. job' # NoJob =>
          \A o \in transit' : o.id = ExitId' => o.reduceOnly /\ (job'.qty = 0 /\ venue' # Flat => o.qty = venue'.qty)
    BY <1>1, <1>2, <1>6, <2>2 DEF Sized, ExitId
  <2>4. QED
    BY <2>1, <2>3 DEF Sized
<1>14. QED
  BY <1>7, <1>8, <1>9, <1>10, <1>11, <1>12, <1>13 DEF PrivateInv

(* An entry that is rejected. *)
LEMMA EntryRejectedPrivate ==
  ASSUME BrokerInv, PrivateInv, EntryRejected PROVE PrivateInv'
<1>1. UNCHANGED <<venue, filled, cache, queue, sync, expected, meta, job, xpc, xres>>
  BY DEF EntryRejected, syncVars, storeVars, exitVars
<1>2. Known /\ Facing /\ Matching /\ Line /\ Moment /\ Leaving /\ Sized
  BY DEF PrivateInv
<1>3. opener.pc = "sent" /\ opener'.pc = "idle" /\ transit' \subseteq transit /\ ~isFilled(EntryId)
  BY DEF EntryRejected, IdleOpen, Forget
<1>4. ~EntryDone /\ ~EntryDone'
  BY <1>3 DEF EntryDone
<1>5. ExitFirst'
  BY <1>1, <1>3, NoOpenWaits DEF ExitFirst
<1>6. Known'
  BY <1>1, <1>2, <1>4 DEF Known, isManaged, lastSeen
<1>7. Facing'
  BY <1>3 DEF Facing
<1>8. Matching'
  BY <1>1, <1>2, <1>3, <1>4 DEF Matching
<1>9. Line'
  BY <1>1, <1>2, <1>3, <1>5 DEF Line, Waiting
<1>10. Moment'
  BY <1>1, <1>2, <1>4 DEF Moment
<1>11. Leaving'
  BY <1>1, <1>2, <1>3 DEF Leaving, Finished, ExitDone, isFilled, ExitId
<1>12. Sized'
  BY <1>1, <1>2, <1>3 DEF Sized, ExitId
<1>13. QED
  BY <1>6, <1>7, <1>8, <1>9, <1>10, <1>11, <1>12 DEF PrivateInv

(* The entry was answered: its refresh is queued, and what the sidecar and *)
(* the cache show is on its side.                                          *)
LEMMA EntrySettled ==
  ASSUME BrokerInv, PrivateInv, EntryFilled \/ EntryUnconfirmed, Known',
         cache # Flat /\ meta'.seen # Flat => meta'.seen.side = cache.side
  PROVE PrivateInv'
<1>1. UNCHANGED <<venue, filled, cache, job, xpc, xres>> /\ transit' \subseteq transit
  BY DEF EntryFilled, EntryUnconfirmed, venueVars, exitVars, Forget
<1>2. Known /\ Facing /\ Matching /\ Line /\ Moment /\ Leaving /\ Sized
  BY DEF PrivateInv
<1>3. opener.pc = "sent" /\ opener'.pc = "after" /\ afterOrder("entry")
  BY Shapes DEF EntryFilled, EntryUnconfirmed, Openers
<1>4. "entry" \notin Waiting /\ "entry" \in Requesters
  BY <1>3 DEF BrokerInv, Chain, Where, Requesters
<1>5. Fresh("entry")' /\ Waiting' = Waiting \cup {"entry"}
  BY <1>2, <1>3, <1>4, Refreshes
<1>6. Facing'
  BY <1>3 DEF Facing
<1>7. Matching'
  BY <1>1, <1>2, <1>3, <1>5 DEF Matching
<1>8. Line'
  BY <1>1, <1>2, <1>3, <1>5 DEF Line
<1>9. Moment'
  BY <1>2, <1>3, <1>4, MomentAfter
<1>10. Leaving'
  BY <1>1, <1>2, <1>3 DEF Leaving, Finished, ExitDone, isFilled, ExitId
<1>11. Sized'
  BY <1>1, <1>2, <1>3 DEF Sized, ExitId
<1>12. QED
  BY <1>6, <1>7, <1>8, <1>9, <1>10, <1>11 DEF PrivateInv

(* An entry that filled is written to the sidecar as the strategy's. *)
LEMMA EntryFilledPrivate ==
  ASSUME BrokerInv, PrivateInv, EntryFilled PROVE PrivateInv'
<1>1. UNCHANGED <<venue, cache>> /\ opener.pc = "sent"
  BY DEF EntryFilled, venueVars
<1>2. /\ venue = Flat \/ venue.side = opener.side
      /\ cache = Flat \/ cache.side = opener.side
      /\ opener.scaleIn => isManaged(meta) /\ (meta.seen = Flat \/ meta.seen.side = opener.side)
  BY <1>1 DEF PrivateInv, Facing
<1>3. isManaged(meta') /\ (meta'.seen = Flat \/ meta'.seen.side = opener.side)
  <2>1. CASE opener.scaleIn /\ meta # NoMeta
    BY <1>2, <2>1 DEF EntryFilled
  <2>2. CASE ~(opener.scaleIn /\ meta # NoMeta)
    <3>1. PICK seen : meta' = ownedMeta(seen) /\ seen.side = opener.side
      <4> DEFINE s == [side |-> opener.side, qty |-> EntryQty, ep |-> FillOf(EntryId).ep]
      <4>1. meta' = ownedMeta(s) /\ s.side = opener.side
        BY <2>2 DEF EntryFilled
      <4> HIDE DEF s
      <4>2. QED
        BY <4>1
    <3>2. QED
      BY <3>1 DEF ownedMeta, isManaged
  <2>3. QED
    BY <2>1, <2>2
<1>4. cache # Flat /\ meta'.seen # Flat => meta'.seen.side = cache.side
  BY <1>2, <1>3
<1>5. lastSeen' = Flat \/ lastSeen'.side = opener.side
  BY <1>1, <1>2, <1>3 DEF lastSeen
<1>6. Known'
  BY <1>1, <1>2, <1>3, <1>5 DEF Known
<1>7. QED
  BY <1>4, <1>6, EntrySettled

(* An entry nobody answered for is expected to show up on its side. *)
LEMMA EntryUnconfirmedPrivate ==
  ASSUME BrokerInv, PrivateInv, EntryUnconfirmed PROVE PrivateInv'
<1>1. UNCHANGED <<venue, filled, cache, meta>> /\ opener.pc = "sent"
  BY DEF EntryUnconfirmed
<1>2. Known /\ Facing /\ Matching
  BY DEF PrivateInv
<1>3. /\ venue = Flat \/ venue.side = opener.side
      /\ cache = Flat \/ cache.side = opener.side
      /\ opener.scaleIn => isManaged(meta) /\ (meta.seen = Flat \/ meta.seen.side = opener.side)
  BY <1>1, <1>2 DEF Facing
<1>4. ~opener.scaleIn => expected' = opener.side
  BY DEF EntryUnconfirmed
<1>5. opener.scaleIn => lastSeen = Flat \/ lastSeen.side = opener.side
  BY <1>3 DEF lastSeen
<1>6. lastSeen' = lastSeen
  BY <1>1 DEF lastSeen
<1>7. Known'
  BY <1>1, <1>2, <1>3, <1>4, <1>5, <1>6 DEF Known, isManaged
<1>8. cache # Flat /\ meta'.seen # Flat => meta'.seen.side = cache.side
  BY <1>1, <1>2 DEF Matching
<1>9. QED
  BY <1>7, <1>8, EntrySettled

(* A new exit job, by a stop, a close, a partial exit or a flip: nothing   *)
(* is sent for it yet.                                                     *)
LEMMA NewJobPrivate ==
  ASSUME BrokerInv, Numbered, PrivateInv, NEW reason \in Reasons, NEW qty \in Nat,
         enqueue(reason, qty), drive(job'), job = NoJob, cache # Flat,
         reason = "PARTIAL TP" <=> qty # 0,
         UNCHANGED <<venueVars, syncVars, opens, storeVars, xres>>,
         \/ opener' = opener /\ opener.pc \in {"idle", "sync", "decide"}
         \/ opener.pc = "decide" /\ opener' = [opener EXCEPT !.pc = "flip"]
  PROVE  PrivateInv'
<1>1. UNCHANGED <<venue, transit, filled, cache, queue, sync, expected, meta, xres, opens>>
  BY DEF venueVars, syncVars, storeVars
<1>2. Known /\ Facing /\ Matching /\ Line /\ Moment /\ Leaving /\ Sized
  BY DEF PrivateInv
<1>3. /\ job' = [id |-> exits + 1, reason |-> reason, qty |-> qty, sent |-> Flat]
      /\ ~isFilled(ExitId)' /\ ~InTransit(ExitId)'
  BY <1>1, NumberedJob
<1>4. /\ opener.pc \in {"idle", "sync", "decide"}
      /\ \/ opener' = opener
         \/ opener.pc = "decide" /\ opener'.pc = "flip" /\ opener'.scaleIn = opener.scaleIn
  BY Shapes DEF Openers
<1>5. xpc \in {"none", "dropped"} /\ xpc' = (IF xpc = "none" THEN "read" ELSE "dropped")
  BY <1>3 DEF BrokerInv, Driven, Types, ExitTypes, drive
<1>6. ~EntryDone /\ ~EntryDone'
  BY <1>4 DEF EntryDone
<1>7. Known'
  BY <1>1, <1>2, <1>6 DEF Known, isManaged, lastSeen
<1>8. Facing'
  BY <1>2, <1>4 DEF Facing
<1>9. Matching'
  BY <1>1, <1>2 DEF Matching
<1>10. Line'
  <2>1. xpc = "dropped" /\ xres = "ok" /\ opener.pc = "decide" => venue = Flat
    BY <1>2 DEF Line
  <2>2. Waiting' = Waiting /\ ExitFirst' = ExitFirst
    BY <1>1 DEF Waiting, ExitFirst
  <2>3. QED
    BY <1>1, <1>2, <1>4, <1>5, <2>1, <2>2 DEF Line
<1>11. Moment'
  BY <1>1, <1>2, <1>6 DEF Moment
<1>12. Leaving'
  BY <1>3, <1>4, <1>5 DEF Leaving, Finished, ExitDone
<1>13. Sized'
  <2>1. \A o \in transit' : o.id # ExitId'
    BY <1>3 DEF InTransit
  <2>2. opener'.pc # "sent"
    BY <1>4
  <2>3. QED
    BY <2>1, <2>2 DEF Sized
<1>14. QED
  BY <1>7, <1>8, <1>9, <1>10, <1>11, <1>12, <1>13 DEF PrivateInv

(* A flip, a stop, a partial exit. *)
LEMMA NewJobsPrivate ==
  ASSUME BrokerInv, Numbered, PrivateInv, OpenFlip \/ Trigger \/ ReduceCall PROVE PrivateInv'
<1>1. CASE OpenFlip
  <2>1. /\ job = NoJob /\ cache # Flat /\ opener.pc = "decide" /\ opener' = [opener EXCEPT !.pc = "flip"]
        /\ enqueue("FLIP", 0) /\ drive(job') /\ UNCHANGED <<venueVars, syncVars, opens, storeVars, xres>>
    BY <1>1 DEF OpenFlip, isActive
  <2>2. "FLIP" \in Reasons
    BY DEF Reasons
  <2>3. QED
    BY <2>1, <2>2, NewJobPrivate
<1>2. CASE Trigger
  <2>1. /\ job = NoJob /\ cache # Flat /\ ~pendingOpen /\ opener' = opener
        /\ enqueue("STOP LOSS", 0) /\ drive(job') /\ UNCHANGED <<venueVars, syncVars, opens, storeVars, xres>>
    BY <1>2 DEF Trigger, isActive, openVars
  <2>2. "STOP LOSS" \in Reasons /\ opener.pc \in {"idle", "sync", "decide"}
    BY <2>1, Shapes DEF Reasons, pendingOpen, Openers
  <2>3. QED
    BY <2>1, <2>2, NewJobPrivate
<1>3. CASE ReduceCall
  <2>1. /\ job = NoJob /\ cache.qty > PartialQty /\ ~pendingOpen /\ opener' = opener
        /\ enqueue("PARTIAL TP", PartialQty) /\ drive(job')
        /\ UNCHANGED <<venueVars, syncVars, opens, storeVars, xres>>
    BY <1>3 DEF ReduceCall, isActive, openVars
  <2>2. "PARTIAL TP" \in Reasons /\ opener.pc \in {"idle", "sync", "decide"}
    BY <2>1, Shapes DEF Reasons, pendingOpen, Openers
  <2>3. PartialQty \in Nat \ {0} /\ ~(0 > PartialQty)
    BY RemoteAssumption
  <2>4. cache # Flat
    BY <2>1, <2>3, Shapes
  <2>5. QED
    BY <2>1, <2>2, <2>3, <2>4, NewJobPrivate
<1>4. QED
  BY <1>1, <1>2, <1>3

(* The driver of a queued job starts, unless one runs. *)
LEMMA DrivePrivate ==
  ASSUME BrokerInv, PrivateInv, job # NoJob, drive(job),
         UNCHANGED <<venueVars, syncVars, openVars, storeVars, job, xres>>
  PROVE  PrivateInv'
<1>1. UNCHANGED <<venue, transit, filled, cache, queue, sync, opener, expected, meta, job, xres>>
  BY DEF venueVars, syncVars, openVars, storeVars
<1>2. Known /\ Facing /\ Matching /\ Line /\ Moment /\ Leaving /\ Sized
  BY DEF PrivateInv
<1>3. xpc' = xpc \/ (xpc' = "lookup" /\ job.sent # Flat) \/ xpc' = "read"
  BY DEF drive
<1>4. Known' /\ Facing' /\ Matching' /\ Moment' /\ Sized'
  BY <1>1, <1>2, KnownFrame, FacingFrame, MatchingFrame, MomentFrame, SizedFrame
<1>5. Line'
  BY <1>1, <1>2, <1>3 DEF Line, Waiting, ExitFirst
<1>6. Leaving'
  BY <1>1, <1>2, <1>3 DEF Leaving, Finished, ExitDone, isFilled, ExitId, EntryId
<1>7. QED
  BY <1>4, <1>5, <1>6 DEF PrivateInv

(* The operator closes the position, or retries what is queued. *)
LEMMA CloseCallPrivate ==
  ASSUME BrokerInv, Numbered, PrivateInv, CloseCall \/ RetryPending PROVE PrivateInv'
<1>1. CASE job # NoJob
  <2>1. drive(job) /\ UNCHANGED <<venueVars, syncVars, openVars, storeVars, job, xres>>
    BY <1>1 DEF CloseCall, RetryPending, isActive
  <2>2. QED
    BY <1>1, <2>1, DrivePrivate
<1>2. CASE job = NoJob
  <2>1. /\ cache # Flat /\ ~pendingOpen /\ opener' = opener
        /\ enqueue("CLOSE", 0) /\ drive(job') /\ UNCHANGED <<venueVars, syncVars, opens, storeVars, xres>>
    BY <1>2 DEF CloseCall, RetryPending, isActive, openVars
  <2>2. "CLOSE" \in Reasons /\ opener.pc \in {"idle", "sync", "decide"}
    BY <2>1, Shapes DEF Reasons, pendingOpen, Openers
  <2>3. QED
    BY <1>2, <2>1, <2>2, NewJobPrivate
<1>3. QED
  BY <1>1, <1>2

(* A call of the driver fails: whoever waits is rejected, the job stays. *)
LEMMA OutagePrivate ==
  ASSUME BrokerInv, PrivateInv, ExitOutage PROVE PrivateInv'
<1>1. UNCHANGED <<venue, filled, cache, queue, sync, expected, meta>> /\ transit' \subseteq transit
  BY DEF ExitOutage, syncVars, storeVars, Forget
<1>2. Known /\ Facing /\ Matching /\ Line /\ Moment /\ Leaving /\ Sized
  BY DEF PrivateInv
<1>3. xpc \in {"lookup", "read", "send"} /\ xpc' = "none" /\ Settle("outage", job)
  BY DEF ExitOutage, Settle
<1>4. job # NoJob /\ job \in Jobs /\ NoJob.sent = Flat
  BY <1>3, Shapes DEF BrokerInv, Driven
<1>5. opener' = opener \/ (opener.pc = "flip" /\ opener'.pc = "idle")
  BY <1>3 DEF Settle, BrokerInv, Flipping, IdleOpen
<1>6. \/ job' = job \/ job' = NoJob
      \/ /\ job' # NoJob /\ job'.id = job.id /\ job'.sent = job.sent /\ job'.qty = job.qty
         /\ job'.reason = "CLOSE" /\ job.reason # "PARTIAL TP"
  <2>1. \/ job' = job \/ job' = NoJob
        \/ flipWaits /\ job' = [job EXCEPT !.reason = "CLOSE"]
    BY <1>3 DEF Settle
  <2>2. flipWaits => job.reason # "PARTIAL TP"
    BY DEF BrokerInv, Flipping
  <2>3. NoJob.reason = "none"
    BY DEF NoJob
  <2>4. QED
    BY <1>4, <2>1, <2>2, <2>3 DEF Jobs
<1>7. EntryDone' = EntryDone
  BY <1>1, <1>5 DEF EntryDone, isFilled, EntryId
<1>8. Known'
  BY <1>1, <1>2, <1>7 DEF Known, isManaged, lastSeen
<1>9. Facing'
  BY <1>1, <1>2, <1>4, <1>5 DEF Facing
<1>10. Matching'
  <2>1. opener.pc = "flip" => cache # Flat \/ venue = Flat
    BY <1>2 DEF Matching, EntryDone
  <2>2. \A w : Fresh(w)' = Fresh(w)
    BY <1>1 DEF Fresh, Waiting
  <2>3. ExitFirst' = ExitFirst
    BY <1>1 DEF ExitFirst
  <2>4. QED
    BY <1>1, <1>2, <1>5, <1>7, <2>1, <2>2, <2>3 DEF Matching
<1>11. Line'
  BY <1>1, <1>2, <1>3, <1>5 DEF Line
<1>12. Moment'
  BY <1>1, <1>2, <1>7 DEF Moment
<1>13. Leaving'
  BY <1>1, <1>2, <1>3, <1>4, <1>5, <1>6 DEF Leaving, Finished, ExitDone, isFilled, ExitId, EntryId
<1>14. Sized'
  BY <1>1, <1>2, <1>4, <1>5, <1>6 DEF Sized, ExitId, EntryId
<1>15. QED
  BY <1>8, <1>9, <1>10, <1>11, <1>12, <1>13, <1>14 DEF PrivateInv

(* The order is known not to have filled: the position is read. *)
LEMMA LookupMissPrivate ==
  ASSUME BrokerInv, PrivateInv, ExitLookupMiss PROVE PrivateInv'
<1>1. UNCHANGED <<venue, transit, filled, cache, queue, sync, opener, expected, meta, job, xres>>
  BY DEF ExitLookupMiss, venueVars, syncVars, openVars, storeVars
<1>2. Known /\ Facing /\ Matching /\ Line /\ Moment /\ Leaving /\ Sized
  BY DEF PrivateInv
<1>3. Known' /\ Facing' /\ Matching' /\ Moment' /\ Sized'
  BY <1>1, <1>2, KnownFrame, FacingFrame, MatchingFrame, MomentFrame, SizedFrame
<1>4. xpc' = "read"
  BY DEF ExitLookupMiss
<1>5. Line' /\ Leaving'
  BY <1>1, <1>2, <1>4 DEF Line, Leaving, Finished, ExitDone, isFilled, ExitId, EntryId
<1>6. QED
  BY <1>3, <1>5 DEF PrivateInv

(* The driver has no job left: there was nothing to close, or its order    *)
(* was refused.                                                            *)
LEMMA DroppedPrivate ==
  ASSUME BrokerInv, PrivateInv, ExitReadFlat \/ ExitRejected PROVE PrivateInv'
<1>1. UNCHANGED <<venue, filled, cache, opener, expected, meta>> /\ transit' \subseteq transit
  BY DEF ExitReadFlat, ExitRejected, venueVars, openVars, storeVars, Forget
<1>2. Known /\ Facing /\ Matching /\ Line /\ Moment /\ Leaving /\ Sized
  BY DEF PrivateInv
<1>3. /\ xpc \in {"read", "send"} /\ xpc' = "dropped" /\ job' = NoJob /\ afterOrder("exit")
      /\ venue = Flat \/ xres' = "error"
  BY DEF ExitReadFlat, ExitRejected
<1>4. "exit" \notin Waiting /\ "exit" \in Requesters
  BY <1>3 DEF BrokerInv, Chain, Where, Requesters
<1>5. Known'
  BY <1>1, <1>2, KnownFrame
<1>6. Facing'
  BY <1>1, <1>2, <1>3 DEF Facing
<1>7. Matching' /\ Line' /\ Moment'
  BY <1>1, <1>2, <1>3, <1>4, MatchingAfter, LineAfter, MomentAfter
<1>8. Leaving'
  BY <1>3, Shapes DEF Leaving, Finished, ExitDone
<1>9. Sized'
  BY <1>1, <1>2, <1>3 DEF Sized, EntryId
<1>10. QED
  BY <1>5, <1>6, <1>7, <1>8, <1>9 DEF PrivateInv

(* The exit is sized from the position and sent. *)
LEMMA ExitReadPrivate ==
  ASSUME BrokerInv, PrivateInv, ExitRead PROVE PrivateInv'
<1>1. UNCHANGED <<venue, filled, cache, queue, sync, opener, expected, meta, xres>>
  BY DEF ExitRead, syncVars, openVars, storeVars
<1>2. Known /\ Facing /\ Matching /\ Line /\ Moment /\ Leaving /\ Sized
  BY DEF PrivateInv
<1>3. xpc = "read" /\ venue # Flat /\ xpc' = "send"
  BY DEF ExitRead
<1>4. /\ job # NoJob /\ job' # NoJob /\ job'.id = job.id /\ job'.reason = job.reason
      /\ job'.qty = job.qty /\ job'.sent # Flat /\ job'.sent.side \in Sides
  BY Resized
<1>5. Known' /\ Matching' /\ Moment'
  BY <1>1, <1>2, KnownFrame, MatchingFrame, MomentFrame
<1>6. Facing'
  BY <1>1, <1>2, <1>4 DEF Facing
<1>7. Line'
  BY <1>1, <1>2, <1>3 DEF Line
<1>8. Leaving'
  BY <1>1, <1>2, <1>3, <1>4 DEF Leaving, Finished, ExitDone, isFilled, ExitId, EntryId
<1>9. Sized'
  <2>1. CASE transit' = transit
    BY <1>1, <1>2, <1>4, <2>1 DEF Sized, EntryId, ExitId
  <2>2. CASE transit' # transit
    <3>1. PICK x : /\ transit' = transit \cup {x} /\ x.id = ExitId /\ x.reduceOnly
                   /\ job.qty = 0 => x.qty = venue.qty
      <4>1. PICK n : /\ transit' = transit \cup {[id |-> ExitId, side |-> Other(venue.side), qty |-> n,
                                                  reduceOnly |-> TRUE]}
                     /\ job.qty = 0 => n = venue.qty
        BY <2>2 DEF ExitRead
      <4> DEFINE y == [id |-> ExitId, side |-> Other(venue.side), qty |-> n, reduceOnly |-> TRUE]
      <4>2. transit' = transit \cup {y} /\ y.id = ExitId /\ y.reduceOnly /\ y.qty = n
        BY <4>1
      <4> HIDE DEF y
      <4>3. QED
        BY <4>1, <4>2
    <3>2. x.id # EntryId
      BY <3>1 DEF EntryId, ExitId
    <3>3. QED
      BY <1>1, <1>2, <1>4, <3>1, <3>2 DEF Sized, EntryId, ExitId
  <2>3. QED
    BY <2>1, <2>2
<1>10. QED
  BY <1>5, <1>6, <1>7, <1>8, <1>9 DEF PrivateInv

(* The fill of an exit is journaled; a full one left nothing. *)
LEMMA CompletePrivate ==
  ASSUME BrokerInv, PrivateInv, ExitComplete PROVE PrivateInv'
<1>1. UNCHANGED <<venue, transit, filled, cache, opener, expected, job>>
  BY DEF ExitComplete, venueVars, openVars
<1>2. Known /\ Facing /\ Matching /\ Line /\ Moment /\ Leaving /\ Sized
  BY DEF PrivateInv
<1>3. /\ xpc \in {"lookup", "send"} /\ isFilled(ExitId)
      /\ \/ xpc' = "residual" /\ isFullExit /\ UNCHANGED <<queue, sync>>
         \/ xpc' = "after" /\ afterOrder("exit")
      /\ meta' = IF isFullExit THEN NoMeta ELSE meta
  BY DEF ExitComplete
<1>4. job # NoJob /\ job.sent # Flat /\ ExitDone
  BY <1>2, <1>3 DEF BrokerInv, Driven, Leaving, ExitDone
<1>5. isFullExit => job.qty = 0 /\ venue = Flat
  BY <1>2, <1>4 DEF Leaving, isFullExit
<1>6. "exit" \notin Waiting /\ "exit" \in Requesters
  BY <1>3 DEF BrokerInv, Chain, Where, Requesters
<1>7. EntryDone' = EntryDone
  BY <1>1 DEF EntryDone, isFilled, EntryId
<1>8. Known'
  <2>1. CASE meta' = meta
    BY <1>1, <1>2, <2>1, KnownFrame
  <2>2. CASE meta' # meta
    <3>1. meta' = NoMeta /\ venue' = Flat
      BY <1>1, <1>3, <1>5, <2>2
    <3>2. QED
      BY <3>1 DEF Known
  <2>3. QED
    BY <2>1, <2>2
<1>9. Facing'
  BY <1>1, <1>2, <1>4 DEF Facing
<1>10. Matching'
  <2>1. CASE xpc' = "after"
    <3>1. afterOrder("exit") /\ (venue # Flat => meta' = meta) /\ meta' \in {meta, NoMeta}
      BY <1>3, <1>5, <2>1
    <3>2. QED
      BY <1>1, <1>2, <1>6, <3>1, MatchingAfter
  <2>2. CASE xpc' = "residual"
    <3>1. venue = Flat /\ meta'.seen = Flat
      BY <1>3, <1>5, <2>2 DEF NoMeta
    <3>2. QED
      BY <1>1, <3>1 DEF Matching
  <2>3. QED
    BY <1>3, <2>1, <2>2
<1>11. Line'
  <2>1. CASE xpc' = "after"
    BY <1>1, <1>2, <1>3, <1>6, <2>1, LineAfter
  <2>2. CASE xpc' = "residual"
    BY <1>1, <1>2, <1>3, <2>2 DEF Line
  <2>3. QED
    BY <1>3, <2>1, <2>2
<1>12. Moment'
  <2>1. CASE xpc' = "after"
    BY <1>2, <1>3, <1>6, <2>1, MomentAfter
  <2>2. CASE xpc' = "residual"
    BY <1>1, <1>2, <1>3, <2>2, MomentFrame
  <2>3. QED
    BY <1>3, <2>1, <2>2
<1>13. Leaving'
  BY <1>1, <1>2, <1>3, <1>4, <1>5 DEF Leaving, Finished, ExitDone, isFilled, ExitId, EntryId
<1>14. Sized'
  BY <1>1, <1>2, SizedFrame
<1>15. QED
  BY <1>8, <1>9, <1>10, <1>11, <1>12, <1>13, <1>14 DEF PrivateInv

(* What a full exit left is looked for: there is nothing. *)
LEMMA ResidualPrivate ==
  ASSUME BrokerInv, PrivateInv, ExitResidual \/ ExitResidualFails PROVE PrivateInv'
<1>1. UNCHANGED <<venue, transit, filled, cache, opener, expected, job, xres>>
  BY DEF ExitResidual, ExitResidualFails, venueVars, openVars, storeVars
<1>2. Known /\ Facing /\ Matching /\ Line /\ Moment /\ Leaving /\ Sized
  BY DEF PrivateInv
<1>3. xpc = "residual" /\ xpc' = "after" /\ afterOrder("exit")
  BY DEF ExitResidual, ExitResidualFails
<1>4. job # NoJob /\ job.sent.side \in Sides /\ venue = Flat
  BY <1>2, <1>3 DEF BrokerInv, Driven, Leaving, Finished, ExitDone
<1>5. meta' = meta
  BY <1>4, Shapes DEF ExitResidual, ExitResidualFails, storeVars
<1>6. "exit" \notin Waiting /\ "exit" \in Requesters
  BY <1>3 DEF BrokerInv, Chain, Where, Requesters
<1>7. Known' /\ Facing' /\ Sized'
  BY <1>1, <1>2, <1>5, KnownFrame, FacingFrame, SizedFrame
<1>8. Matching' /\ Line' /\ Moment'
  BY <1>1, <1>2, <1>3, <1>5, <1>6, MatchingAfter, LineAfter, MomentAfter
<1>9. Leaving'
  BY <1>1, <1>2, <1>3 DEF Leaving, Finished, ExitDone, isFilled, ExitId, EntryId
<1>10. QED
  BY <1>7, <1>8, <1>9 DEF PrivateInv

(* The exchange closes the position. *)
LEMMA LiquidatePrivate ==
  ASSUME BrokerInv, PrivateInv, Liquidate PROVE PrivateInv'
<1>1. UNCHANGED <<transit, filled, cache, queue, sync, opener, expected, meta, job, xpc, xres>>
  BY DEF Liquidate, syncVars, openVars, storeVars, exitVars
<1>2. Known /\ Facing /\ Matching /\ Line /\ Moment /\ Leaving /\ Sized
  BY DEF PrivateInv
<1>3. venue' = Flat
  BY DEF Liquidate
<1>4. Known' /\ Facing' /\ Matching' /\ Line' /\ Moment'
  BY <1>1, <1>2, <1>3 DEF Known, Facing, isManaged, Matching, Line, Waiting, Moment
<1>5. Leaving'
  BY <1>1, <1>2, <1>3 DEF Leaving, Finished, isFilled, ExitId, EntryId
<1>6. Sized'
  BY <1>1, <1>2, <1>3 DEF Sized, EntryId, ExitId
<1>7. QED
  BY <1>4, <1>5, <1>6 DEF PrivateInv

(* In a private world an order executes while its submitter waits for it.  *)
LEMMA AwaitsPrivate ==
  ASSUME BrokerInv, Numbered, Private, NEW o \in transit, Execute(o)
  PROVE  /\ Awaited(o.id) /\ ~isFilled(o.id) /\ o \in Orders /\ transit' = {x \in transit : x.id # o.id}
         /\ \E f : f.id = o.id /\ filled' = filled \cup {f}
         /\ UNCHANGED <<cache, queue, sync, opener, expected, meta, job, xpc, xres>>
<1>1. ~May("late") /\ ~May("async")
  BY DEF Private, May
<1>2. ~isFilled(o.id)
  BY DEF Numbered, isFilled
<1>3. \E f : f.id = o.id /\ filled' = filled \cup {f}
  <2>1. ASSUME NEW n, NEW e PROVE [id |-> o.id, qty |-> n, ep |-> e].id = o.id
    OBVIOUS
  <2>2. \E n, e : filled' = filled \cup {[id |-> o.id, qty |-> n, ep |-> e]}
    BY DEF Execute
  <2>3. QED
    BY <2>1, <2>2
<1>4. QED
  BY <1>1, <1>2, <1>3, Shapes DEF Execute, Forget, syncVars, openVars, storeVars, exitVars

(* The order of the exit job executes: a full one leaves nothing. *)
LEMMA ExitExecutesPrivate ==
  ASSUME BrokerInv, Numbered, PrivateInv, Private, NEW o \in transit, Execute(o), xpc = "send", o.id = ExitId
  PROVE  PrivateInv'
<1>1. /\ UNCHANGED <<cache, queue, sync, opener, expected, meta, job, xpc, xres>>
      /\ transit' = {x \in transit : x.id # o.id} /\ o \in Orders
  BY AwaitsPrivate
<1>2. Known /\ Facing /\ Matching /\ Line /\ Moment /\ Leaving /\ Sized
  BY DEF PrivateInv
<1>3. PICK f : f.id = o.id /\ filled' = filled \cup {f}
  BY AwaitsPrivate
<1>4. job # NoJob /\ job.sent # Flat
  BY <1>2 DEF BrokerInv, Driven, Leaving
<1>5. o.reduceOnly /\ (job.qty = 0 /\ venue # Flat => o.qty = venue.qty)
  BY <1>2, <1>4 DEF Sized
<1>6. venue # Flat /\ (venue' = Flat \/ venue'.side = venue.side) /\ (job.qty = 0 => venue' = Flat)
  <2>1. venue # Flat /\ venue.side # o.side /\ Executed(o.side, Least(o.qty, venue.qty), TRUE)
    BY <1>5 DEF Execute
  <2>2. o.qty \in Nat /\ venue.qty \in Nat /\ venue \in Snapshots
    BY <1>1, Shapes DEF Orders, Snapshots
  <2>3. Least(o.qty, venue.qty) <= venue.qty /\ (o.qty = venue.qty => Least(o.qty, venue.qty) = venue.qty)
    BY <2>2 DEF Least
  <2>4. venue' = IF Least(o.qty, venue.qty) = venue.qty THEN Flat
                 ELSE [venue EXCEPT !.qty = @ - Least(o.qty, venue.qty)]
    BY <2>1, <2>3 DEF Executed
  <2>5. venue' = Flat \/ venue'.side = venue.side
    BY <2>2, <2>4 DEF Snapshots
  <2>6. QED
    BY <1>5, <2>1, <2>3, <2>4, <2>5
<1>7. isFilled(EntryId)' = isFilled(EntryId) /\ EntryDone' = EntryDone /\ isFilled(ExitId)'
  BY <1>1, <1>3 DEF EntryDone, isFilled, EntryId, ExitId
<1>8. Known'
  BY <1>1, <1>2, <1>6, <1>7 DEF Known, isManaged, lastSeen
<1>9. Facing'
  BY <1>1, <1>2, <1>6 DEF Facing, isManaged
<1>10. Matching'
  <2>1. \A w : Fresh(w)' = Fresh(w)
    BY <1>1 DEF Fresh, Waiting
  <2>2. ExitFirst' = ExitFirst
    BY <1>1 DEF ExitFirst
  <2>3. QED
    BY <1>1, <1>2, <1>6, <1>7, <2>1, <2>2 DEF Matching
<1>11. Line'
  BY <1>1, <1>2 DEF Line
<1>12. Moment'
  BY <1>1, <1>2, <1>6, <1>7 DEF Moment
<1>13. Leaving'
  BY <1>1, <1>2, <1>4, <1>6, <1>7 DEF Leaving, Finished, ExitDone
<1>14. Sized'
  BY <1>1, <1>2 DEF Sized, EntryId, ExitId
<1>15. QED
  BY <1>8, <1>9, <1>10, <1>11, <1>12, <1>13, <1>14 DEF PrivateInv

(* The entry on its way executes: it opens a position or grows one on its  *)
(* own side, and no exit job has an order out.                             *)
LEMMA EntryExecutesPrivate ==
  ASSUME BrokerInv, Numbered, PrivateInv, Private, NEW o \in transit, Execute(o), opener.pc = "sent",
         o.id = EntryId
  PROVE  PrivateInv'
<1>1. /\ UNCHANGED <<cache, queue, sync, opener, expected, meta, job, xpc, xres>>
      /\ transit' = {x \in transit : x.id # o.id} /\ o \in Orders /\ ~isFilled(EntryId)
  BY AwaitsPrivate
<1>2. Known /\ Facing /\ Matching /\ Line /\ Moment /\ Leaving /\ Sized
  BY DEF PrivateInv
<1>3. PICK f : f.id = o.id /\ filled' = filled \cup {f}
  BY AwaitsPrivate
<1>4. venue'.side = opener.side /\ venue' # Flat
  <2>1. Executed(opener.side, o.qty, TRUE) /\ opener.side \in Sides
    BY <1>1, <1>2 DEF Execute, Sized, Orders
  <2>2. venue = Flat \/ venue.side = opener.side
    BY <1>2 DEF Facing
  <2>3. venue'.side = opener.side
    BY <2>1, <2>2 DEF Executed
  <2>4. QED
    BY <2>1, <2>3, Shapes
<1>5. EntryDone' /\ isFilled(EntryId)'
  BY <1>1, <1>3 DEF EntryDone, isFilled, EntryId
<1>6. isFilled(ExitId)' = isFilled(ExitId)
  BY <1>1, <1>3 DEF isFilled, ExitId, EntryId
<1>7. job # NoJob => job.sent = Flat /\ ~isFilled(ExitId) /\ ~InTransit(ExitId)
  <2>1. job # NoJob => job.sent = Flat
    BY <1>1, <1>2 DEF Leaving
  <2>2. QED
    BY <2>1 DEF Numbered
<1>8. Known'
  BY <1>1, <1>2, <1>5 DEF Known
<1>9. Facing'
  BY <1>1, <1>2, <1>4 DEF Facing, isManaged
<1>10. Matching'
  BY <1>1, <1>2, <1>4, <1>5 DEF Matching, Facing
<1>11. Line'
  BY <1>1, <1>2 DEF Line, Waiting
<1>12. Moment'
  BY <1>1, <1>2, <1>5 DEF Moment
<1>13. Leaving'
  <2>1. ~ExitDone'
    BY <1>1, <1>6, <1>7 DEF ExitDone
  <2>2. Finished => isFilled(ExitId)'
    BY <1>2, <1>6 DEF Leaving
  <2>3. QED
    BY <1>1, <1>2, <1>5, <2>1, <2>2 DEF Leaving, Finished
<1>14. Sized'
  <2>1. \A x \in transit' : x.id # EntryId' /\ x \in transit
    BY <1>1 DEF EntryId
  <2>2. job # NoJob => \A x \in transit' : x.id # ExitId'
    BY <1>1, <1>7 DEF InTransit, ExitId
  <2>3. QED
    BY <1>1, <2>1, <2>2 DEF Sized
<1>15. QED
  BY <1>8, <1>9, <1>10, <1>11, <1>12, <1>13, <1>14 DEF PrivateInv

(* A position that an applied snapshot adopts is the agent's: nobody owns  *)
(* it only while the agent expects it.                                     *)
LEMMA AdoptsOwn ==
  ASSUME BrokerInv, Known, NEW snap \in Snapshots, snap = venue \/ (snap = Flat /\ EntryDone)
  PROVE  /\ reconciled(snap, expected).meta = NoMeta \/ isManaged(reconciled(snap, expected).meta)
         /\ venue # Flat /\ ~EntryDone =>
              isManaged(reconciled(snap, expected).meta) \/ reconciled(snap, expected).expected = venue.side
         /\ isBusy /\ isManaged(meta) => isManaged(reconciled(snap, expected).meta)
         /\ isBusy => reconciled(snap, expected).meta.seen \in {meta.seen, snap}
<1>1. meta \in Metas /\ (meta = NoMeta \/ isManaged(meta)) /\ ~isManaged(NoMeta) /\ NoMeta.seen = Flat
  BY Shapes DEF Known, NoMeta, isManaged
<1>2. ASSUME NEW m \in Metas PROVE [m EXCEPT !.seen = snap].owner = m.owner /\ [m EXCEPT !.seen = snap].seen = snap
  BY DEF Metas
<1>3. EntryDone => isBusy
  BY DEF EntryDone, isBusy, pendingOpen
<1>4. CASE isBusy
  <2>1. /\ reconciled(snap, expected).meta = (IF meta # NoMeta /\ snap # Flat THEN [meta EXCEPT !.seen = snap] ELSE meta)
        /\ reconciled(snap, expected).expected = expected
    BY <1>4 DEF reconciled
  <2>2. /\ reconciled(snap, expected).meta.owner = meta.owner
        /\ reconciled(snap, expected).meta.seen \in {meta.seen, snap}
    BY <1>1, <1>2, <2>1
  <2>3. isManaged(reconciled(snap, expected).meta) = isManaged(meta)
    BY <2>2 DEF isManaged
  <2>4. reconciled(snap, expected).meta = NoMeta \/ isManaged(meta)
    BY <1>1, <2>1
  <2>5. QED
    BY <1>4, <2>1, <2>2, <2>3, <2>4 DEF Known
<1>5. CASE ~isBusy /\ snap = Flat
  <2>1. venue = Flat /\ reconciled(snap, expected).meta = NoMeta
    BY <1>3, <1>5, Reconciles
  <2>2. QED
    BY <1>5, <2>1
<1>6. CASE ~isBusy /\ snap # Flat /\ (meta = NoMeta \/ (lastSeen # Flat /\ lastSeen.side # snap.side))
  <2>1. snap = venue /\ expected = snap.side
    BY <1>1, <1>3, <1>6 DEF Known
  <2>2. adoptUnowned(snap, expected).meta = ownedMeta(Flat)
    BY <2>1 DEF adoptUnowned
  <2>3. ownedMeta(Flat).owner = "strategy" /\ ownedMeta(Flat) # NoMeta /\ ownedMeta(Flat) \in Metas
    <3>1. ownedMeta(Flat).owner = "strategy" /\ NoMeta.owner = "none"
      BY DEF ownedMeta, NoMeta
    <3>2. Flat \in Snapshots
      BY Shapes, Constants
    <3>3. ownedMeta(Flat) \in Metas
      BY <3>2 DEF ownedMeta, Metas
    <3>4. QED
      BY <3>1, <3>3
  <2>4. reconciled(snap, expected).meta = [ownedMeta(Flat) EXCEPT !.seen = snap]
    BY <1>6, <2>2, <2>3 DEF reconciled
  <2>5. isManaged(reconciled(snap, expected).meta)
    BY <1>2, <2>3, <2>4 DEF isManaged
  <2>6. QED
    BY <1>6, <2>5
<1>7. CASE ~isBusy /\ snap # Flat /\ ~(meta = NoMeta \/ (lastSeen # Flat /\ lastSeen.side # snap.side))
  <2>1. reconciled(snap, expected).meta = [meta EXCEPT !.seen = snap]
    BY <1>7 DEF reconciled
  <2>2. isManaged(reconciled(snap, expected).meta)
    BY <1>1, <1>2, <1>7, <2>1 DEF isManaged
  <2>3. QED
    BY <1>7, <2>2
<1>8. QED
  BY <1>4, <1>5, <1>6, <1>7

(* What the end of a sync makes of cache, sidecar and expectation.         *)
LEMMA AppliesPrivate ==
  ASSUME BrokerInv, PrivateInv, Private, NEW snap \in Snapshots, Current(snap), ApplySnapshot(snap)
  PROVE  /\ sync.stale => UNCHANGED <<cache, meta>>
         /\ ~sync.stale => cache' = venue \/ (cache' = Flat /\ EntryDone)
         /\ meta' = NoMeta \/ isManaged(meta')
         /\ venue # Flat /\ ~EntryDone => isManaged(meta') \/ expected' = venue.side
         /\ venue # Flat /\ ~EntryDone /\ isManaged(meta') /\ lastSeen' # Flat /\ lastSeen'.side # venue.side =>
              expected' = venue.side
         /\ cache' # Flat /\ venue # Flat => cache'.side = venue.side
         /\ cache' # Flat /\ meta'.seen # Flat => meta'.seen.side = cache'.side
         /\ isBusy /\ isManaged(meta) => isManaged(meta')
         /\ isBusy => meta'.seen \in {meta.seen, venue, Flat}
<1>1. ~May("ttl")
  BY DEF Private, May
<1>2. Known /\ Matching
  BY DEF PrivateInv
<1>3. CASE sync.stale
  <2>1. UNCHANGED <<cache, meta, expected>>
    BY <1>3 DEF ApplySnapshot, storeVars
  <2>2. lastSeen' = lastSeen
    BY <2>1 DEF lastSeen
  <2>3. QED
    BY <1>2, <1>3, <2>1, <2>2 DEF Known, Matching, isManaged
<1>4. CASE ~sync.stale
  <2>1. /\ cache' = snap /\ meta' = reconciled(snap, expected).meta
        /\ expected' = reconciled(snap, expected).expected
    BY <1>1, <1>4 DEF ApplySnapshot
  <2>2. snap = venue \/ (snap = Flat /\ EntryDone)
    BY <1>4 DEF Current
  <2>3. /\ meta' = NoMeta \/ isManaged(meta')
        /\ venue # Flat /\ ~EntryDone => isManaged(meta') \/ expected' = venue.side
        /\ isBusy /\ isManaged(meta) => isManaged(meta')
        /\ isBusy => meta'.seen \in {meta.seen, snap}
    BY <1>2, <2>1, <2>2, AdoptsOwn
  <2>4. cache' # Flat => lastSeen' = venue /\ cache' = venue /\ (meta' # NoMeta => meta'.seen = venue)
    BY <2>1, <2>2, Reconciles DEF lastSeen
  <2>5. NoMeta.seen = Flat
    BY DEF NoMeta
  <2>6. venue # Flat /\ ~EntryDone => cache' # Flat
    BY <2>1, <2>2
  <2>7. QED
    BY <1>4, <2>1, <2>2, <2>3, <2>4, <2>5, <2>6
<1>5. QED
  BY <1>3, <1>4

(* The chain without its head keeps an exit's refresh before an open.      *)
LEMMA FreshLeave ==
  ASSUME BrokerInv, queue # <<>>, queue' = Tail(queue), sync' = IdleSync
  PROVE  /\ \A w : w \in Waiting /\ Head(queue) # w => w \in Waiting' /\ Fresh(w)'
         /\ ExitFirst => ExitFirst'
         /\ ExitFirst /\ "exit" \in Waiting => Head(queue) # "open"
<1>1. Waiting' = Waiting \ {Head(queue)}
  BY Leaves DEF BrokerInv, Chain
<1>2. /\ queue \in Seq(Requesters) /\ Len(queue) \in Nat /\ Len(queue) >= 1 /\ Head(queue) = queue[1]
      /\ ~sync'.stale
  BY Shapes
<1>3. Len(queue') = Len(queue) - 1 /\ \A i \in 1 .. Len(queue') : queue'[i] = queue[i + 1]
  BY <1>2
<1>4. ASSUME ExitFirst, NEW i \in 1 .. Len(queue'), NEW j \in 1 .. Len(queue'),
             queue'[i] = "open", queue'[j] = "exit"
      PROVE  j < i
  <2>1. i + 1 \in 1 .. Len(queue) /\ j + 1 \in 1 .. Len(queue)
    BY <1>2, <1>3
  <2>2. queue[i + 1] = "open" /\ queue[j + 1] = "exit"
    BY <1>3, <1>4
  <2>3. j + 1 < i + 1
    BY <1>4, <2>1, <2>2 DEF ExitFirst
  <2>4. QED
    BY <1>2, <1>3, <2>3
<1>5. ASSUME ExitFirst, "exit" \in Waiting, Head(queue) = "open" PROVE FALSE
  <2>1. PICK j \in 1 .. Len(queue) : queue[j] = "exit"
    BY <1>5 DEF Waiting
  <2>2. queue[1] = "open" /\ 1 \in 1 .. Len(queue)
    BY <1>2, <1>5
  <2>3. j < 1
    BY <1>5, <2>1, <2>2 DEF ExitFirst
  <2>4. QED
    BY <1>2, <2>3
<1>6. QED
  BY <1>1, <1>2, <1>4, <1>5 DEF Fresh, ExitFirst

(* Whoever a sync resumes: an open decides next or gives up, an entry ends, *)
(* and a flip that goes on to its entry finds nothing left.                *)
LEMMA ResumesPrivate ==
  ASSUME BrokerInv, PrivateInv, queue # <<>>, NEW isOk, Resume(Head(queue), isOk)
  PROVE  /\ \/ opener' = opener
            \/ opener'.pc = "idle" /\ opener.pc # "sent"
            \/ Head(queue) = "open" /\ opener.pc = "sync" /\ opener'.pc = "decide" /\ ~opener'.scaleIn
            \/ /\ Head(queue) = "exit" /\ opener.pc = "flip" /\ opener'.pc = "enter" /\ ~opener'.scaleIn
               /\ venue = Flat /\ ~sync.stale
               /\ job' # NoJob => job'.sent = Flat
         /\ \/ job' = job \/ job' = NoJob
            \/ /\ job # NoJob /\ job' # NoJob /\ job'.id = job.id /\ job'.sent = job.sent /\ job'.qty = job.qty
               /\ job'.reason = "CLOSE" /\ job.reason # "PARTIAL TP" /\ opener'.pc = "idle"
         /\ job' # job => xpc' = "none"
         /\ xpc' = "none" \/ (UNCHANGED <<xpc, xres>> /\ Head(queue) # "exit")
         /\ Head(queue) = "entry" => opener.pc = "after" /\ opener'.pc = "idle"
         /\ Head(queue) = "loop" => opener' = opener
         /\ Head(queue) = "open" => opener.pc = "sync"
<1>1. Facing /\ Line /\ Leaving
  BY DEF PrivateInv
<1>2. /\ Head(queue) \in Requesters /\ job \in Jobs /\ opener \in Openers /\ IdleOpen.pc = "idle"
      /\ NoJob.sent = Flat /\ NoJob.reason = "none"
  BY Shapes
<1>3. /\ Head(queue) = "open" => opener.pc = "sync"
      /\ Head(queue) = "entry" => opener.pc = "after"
      /\ Head(queue) = "exit" => xpc \in {"after", "dropped"}
  BY HeadWaits DEF BrokerInv
<1>4. CASE Head(queue) = "loop"
  BY <1>4 DEF Resume
<1>5. CASE Head(queue) = "entry"
  BY <1>2, <1>3, <1>5 DEF Resume
<1>6. CASE Head(queue) = "open"
  <2>1. UNCHANGED <<job, xpc, xres>> /\ (opener' = IdleOpen \/ opener' = [opener EXCEPT !.pc = "decide"])
    BY <1>6 DEF Resume
  <2>2. opener.pc = "sync" /\ ~opener.scaleIn
    BY <1>1, <1>3, <1>6 DEF Facing
  <2>3. opener' = [opener EXCEPT !.pc = "decide"] => opener'.pc = "decide" /\ ~opener'.scaleIn
    BY <1>2, <2>2 DEF Openers
  <2>4. QED
    BY <1>2, <1>6, <2>1, <2>2, <2>3
<1>7. CASE Head(queue) = "exit"
  <2>1. PICK j : j = (IF xpc = "after" THEN NoJob ELSE job) /\ Settle(xres, j)
    BY <1>7 DEF Resume
  <2>2. xres \in {"ok", "error"} /\ xpc \in {"after", "dropped"} /\ xpc' = "none"
    BY <1>3, <1>7, <2>1 DEF BrokerInv, Types, ExitTypes, Settle
  <2>3. CASE ~flipWaits
    BY <1>7, <2>1, <2>2, <2>3 DEF Settle
  <2>4. CASE flipWaits /\ xres # "ok"
    <3>1. opener.pc = "flip" /\ job.reason # "PARTIAL TP"
      BY <2>4 DEF BrokerInv, Flipping
    <3>2. opener' = IdleOpen /\ job' = (IF j # NoJob THEN [j EXCEPT !.reason = "CLOSE"] ELSE j)
      BY <2>1, <2>2, <2>4 DEF Settle
    <3>3. j # NoJob => /\ job' # NoJob /\ job'.id = job.id /\ job'.sent = job.sent /\ job'.qty = job.qty
                       /\ job'.reason = "CLOSE" /\ job # NoJob
      BY <1>2, <2>1, <3>2 DEF Jobs
    <3>4. QED
      BY <1>2, <1>7, <2>2, <3>1, <3>2, <3>3
  <2>5. CASE flipWaits /\ xres = "ok"
    <3>1. opener.pc = "flip" /\ job.reason \in {"FLIP", "none"} /\ ~opener.scaleIn /\ ~sync.stale
      BY <1>1, <1>7, <2>5 DEF BrokerInv, Flipping, Facing, Line
    <3>2. job' = j /\ opener' = [opener EXCEPT !.pc = "enter"]
      BY <2>1, <2>5 DEF Settle
    <3>3. opener'.pc = "enter" /\ ~opener'.scaleIn
      BY <1>2, <3>1, <3>2 DEF Openers
    <3>4. venue = Flat
      <4>1. CASE xpc = "dropped"
        BY <1>1, <2>5, <3>1, <4>1 DEF Line
      <4>2. CASE xpc = "after"
        <5>1. job # NoJob /\ isFilled(ExitId)
          BY <1>1, <4>2 DEF BrokerInv, Driven, Leaving, Finished
        <5>2. QED
          BY <1>1, <3>1, <5>1 DEF Leaving, ExitDone
      <4>3. QED
        BY <2>2, <4>1, <4>2
    <3>5. job' # NoJob => job'.sent = Flat
      BY <1>1, <2>1, <2>2, <3>2 DEF Leaving
    <3>6. QED
      BY <1>7, <2>1, <2>2, <3>1, <3>2, <3>3, <3>4, <3>5
  <2>6. QED
    BY <2>3, <2>4, <2>5
<1>8. QED
  BY <1>2, <1>4, <1>5, <1>6, <1>7 DEF Requesters

(* A snapshot is applied and whoever asked for it goes on. *)
LEMMA AppliedPrivate ==
  ASSUME BrokerInv, PrivateInv, Private, sync.pc # "idle", NEW snap \in Snapshots, Current(snap),
         ApplySnapshot(snap)
  PROVE  PrivateInv'
<1>1. /\ UNCHANGED <<venue, transit, filled>> /\ queue' = Tail(queue) /\ sync' = IdleSync
      /\ Resume(Head(queue), TRUE) /\ queue # <<>>
  BY Shapes DEF ApplySnapshot, venueVars
<1>2. Known /\ Facing /\ Matching /\ Line /\ Moment /\ Leaving /\ Sized
  BY DEF PrivateInv
<1>3. /\ sync.stale => UNCHANGED <<cache, meta>>
      /\ ~sync.stale => cache' = venue \/ (cache' = Flat /\ EntryDone)
      /\ meta' = NoMeta \/ isManaged(meta')
      /\ venue # Flat /\ ~EntryDone => isManaged(meta') \/ expected' = venue.side
      /\ venue # Flat /\ ~EntryDone /\ isManaged(meta') /\ lastSeen' # Flat /\ lastSeen'.side # venue.side =>
           expected' = venue.side
      /\ cache' # Flat /\ venue # Flat => cache'.side = venue.side
      /\ cache' # Flat /\ meta'.seen # Flat => meta'.seen.side = cache'.side
      /\ isBusy /\ isManaged(meta) => isManaged(meta')
      /\ isBusy => meta'.seen \in {meta.seen, venue, Flat}
  BY AppliesPrivate
<1>4. /\ \/ opener' = opener
         \/ opener'.pc = "idle" /\ opener.pc # "sent"
         \/ Head(queue) = "open" /\ opener.pc = "sync" /\ opener'.pc = "decide" /\ ~opener'.scaleIn
         \/ /\ Head(queue) = "exit" /\ opener.pc = "flip" /\ opener'.pc = "enter" /\ ~opener'.scaleIn
            /\ venue = Flat /\ ~sync.stale
            /\ job' # NoJob => job'.sent = Flat
      /\ Head(queue) = "entry" => opener.pc = "after" /\ opener'.pc = "idle"
      /\ Head(queue) = "loop" => opener' = opener
      /\ Head(queue) = "open" => opener.pc = "sync"
  BY <1>1, ResumesPrivate
<1>5. /\ \/ job' = job \/ job' = NoJob
         \/ /\ job # NoJob /\ job' # NoJob /\ job'.id = job.id /\ job'.sent = job.sent /\ job'.qty = job.qty
            /\ job'.reason = "CLOSE" /\ job.reason # "PARTIAL TP" /\ opener'.pc = "idle"
      /\ job' # job => xpc' = "none"
      /\ xpc' = "none" \/ (UNCHANGED <<xpc, xres>> /\ Head(queue) # "exit")
  BY <1>1, ResumesPrivate
<1>6. /\ \A w : w \in Waiting /\ Head(queue) # w => w \in Waiting' /\ Fresh(w)'
      /\ ExitFirst => ExitFirst'
      /\ ExitFirst /\ "exit" \in Waiting => Head(queue) # "open"
      /\ sync'.snap = Flat /\ ~sync'.stale /\ sync'.pc = "idle" /\ Head(queue) \in Requesters
  BY <1>1, FreshLeave, Shapes
<1>7. EntryDone' = EntryDone
  BY <1>1, <1>4 DEF EntryDone, isFilled, EntryId
<1>8. Known'
  BY <1>1, <1>3, <1>7 DEF Known
<1>9. Facing'
  <2>1. CASE opener' = opener
    <3>1. opener.pc \in {"enter", "sent"} => isBusy
      BY DEF isBusy, pendingOpen
    <3>2. job = NoJob => job' = NoJob
      BY <1>5
    <3>3. opener.pc \in {"enter", "sent"} => cache' = Flat \/ cache'.side = opener.side
      BY <1>2, <1>3 DEF Facing
    <3>4. opener.pc \in {"enter", "sent"} /\ opener.scaleIn =>
            isManaged(meta') /\ (meta'.seen = Flat \/ meta'.seen.side = opener.side)
      BY <1>2, <1>3, <3>1 DEF Facing
    <3>5. QED
      BY <1>1, <1>2, <2>1, <3>2, <3>3, <3>4 DEF Facing
  <2>2. CASE opener'.pc = "enter" /\ ~opener'.scaleIn /\ venue = Flat /\ ~sync.stale
    BY <1>1, <1>3, <2>2 DEF Facing
  <2>3. CASE opener'.pc = "idle" \/ (opener'.pc = "decide" /\ ~opener'.scaleIn)
    BY <2>3 DEF Facing
  <2>4. QED
    BY <1>4, <2>1, <2>2, <2>3
<1>10. Matching'
  <2> SUFFICES ASSUME cache' = Flat, venue # Flat, ~EntryDone
               PROVE  \/ opener'.pc = "after" /\ (Fresh("entry")' \/ Fresh("exit")')
                      \/ opener'.pc \in {"idle", "sync"} /\ Fresh("exit")' /\ ExitFirst'
    BY <1>1, <1>3, <1>7 DEF Matching
  <2>1. sync.stale /\ cache = Flat
    BY <1>3
  <2>2. \A w : Fresh(w) => w \in Waiting /\ Head(queue) # w
    BY <2>1 DEF Fresh
  <2>3. CASE opener.pc = "after" /\ (Fresh("entry") \/ Fresh("exit"))
    <3>1. ExitFirst'
      BY <1>6, <2>3, NoOpenWaits
    <3>2. CASE Head(queue) = "entry"
      BY <1>4, <1>6, <2>2, <2>3, <3>1, <3>2
    <3>3. CASE Head(queue) # "entry"
      <4>1. opener' = opener \/ opener'.pc = "idle"
        BY <1>4, <2>3
      <4>2. CASE opener' = opener
        BY <1>6, <2>2, <2>3, <4>2
      <4>3. CASE opener' # opener
        <5>1. Head(queue) = "exit"
          BY <1>4, <1>6, <2>3, <3>3, <4>3 DEF Requesters
        <5>2. QED
          BY <1>1, <2>3, <4>3, <5>1 DEF Resume, Settle, BrokerInv, Flipping
      <4>4. QED
        BY <4>2, <4>3
    <3>4. QED
      BY <3>2, <3>3
  <2>4. CASE opener.pc \in {"idle", "sync"} /\ Fresh("exit") /\ ExitFirst
    <3>1. Head(queue) = "loop"
      BY <1>4, <1>6, <2>2, <2>4 DEF Requesters
    <3>2. QED
      BY <1>4, <1>6, <2>2, <2>4, <3>1
  <2>5. QED
    BY <1>2, <2>1, <2>3, <2>4 DEF Matching
<1>11. Line'
  <2>1. xpc' \in {"after", "dropped"} => xpc' = xpc /\ xres' = xres /\ Head(queue) # "exit" /\ "exit" \in Waiting
    BY <1>2, <1>5 DEF Line
  <2>2. ASSUME xpc' = "dropped", xres' = "ok", venue # Flat
        PROVE  \/ opener'.pc \in {"sent", "after"}
               \/ opener'.pc \in {"idle", "sync"} /\ ExitFirst'
    <3>1. CASE opener.pc \in {"sent", "after"}
      <4>1. ExitFirst'
        BY <1>6, <3>1, NoOpenWaits
      <4>2. opener' = opener \/ opener'.pc = "idle"
        BY <1>4, <3>1
      <4>3. QED
        BY <3>1, <4>1, <4>2
    <3>2. CASE opener.pc \in {"idle", "sync"} /\ ExitFirst
      <4>1. Head(queue) = "loop"
        BY <1>4, <1>6, <2>1, <2>2, <3>2 DEF Requesters
      <4>2. QED
        BY <1>4, <1>6, <3>2, <4>1
    <3>3. QED
      BY <1>2, <2>1, <2>2, <3>1, <3>2 DEF Line
  <2>3. xpc' \in {"after", "dropped"} => "exit" \in Waiting'
    BY <1>6, <2>1
  <2>4. QED
    BY <1>1, <1>6, <2>2, <2>3 DEF Line
<1>12. Moment'
  BY <1>6 DEF Moment
<1>13. Leaving'
  <2>1. CASE job' = job
    <3>1. job # NoJob /\ (opener'.pc = "enter" \/ (opener'.pc = "sent" /\ ~isFilled(EntryId)')) =>
            venue = Flat /\ job.sent = Flat
      BY <1>1, <1>2, <1>4, <2>1 DEF Leaving, isFilled, EntryId
    <3>2. QED
      BY <1>1, <1>2, <1>5, <2>1, <3>1 DEF Leaving, Finished, ExitDone, isFilled, ExitId
  <2>2. CASE job' = NoJob /\ xpc' = "none"
    BY <2>2, Shapes DEF Leaving, Finished, ExitDone
  <2>3. CASE /\ job # NoJob /\ job' # NoJob /\ job'.id = job.id /\ job'.sent = job.sent /\ job'.qty = job.qty
             /\ job'.reason = "CLOSE" /\ job.reason # "PARTIAL TP" /\ opener'.pc = "idle" /\ xpc' = "none"
    BY <1>1, <1>2, <2>3 DEF Leaving, Finished, ExitDone, isFilled, ExitId
  <2>4. QED
    BY <1>5, <2>1, <2>2, <2>3
<1>14. Sized'
  <2>1. opener'.pc = "sent" => opener' = opener
    BY <1>4
  <2>2. job' # NoJob => job # NoJob /\ job'.id = job.id /\ job'.qty = job.qty
    BY <1>5
  <2>3. QED
    BY <1>1, <1>2, <2>1, <2>2 DEF Sized, EntryId, ExitId
<1>15. QED
  BY <1>8, <1>9, <1>10, <1>11, <1>12, <1>13, <1>14 DEF PrivateInv

(* The snapshot is of the position as it is, or came before an entry.      *)
LEMMA SyncedPrivate ==
  ASSUME BrokerInv, PrivateInv, Private, SyncFetch \/ SyncEvents PROVE PrivateInv'
<1>1. sync.pc # "idle" /\ sync.snap = Flat /\ sync.snap \in Snapshots /\ venue \in Snapshots
  BY Shapes DEF SyncFetch, SyncEvents, PrivateInv, Moment
<1>2. CASE SyncFetch
  BY <1>1, <1>2, AppliedPrivate DEF SyncFetch, Current
<1>3. CASE SyncEvents
  <2>1. Current(sync.snap)
    BY <1>1, <1>3 DEF SyncEvents, Current, PrivateInv, Moment
  <2>2. QED
    BY <1>1, <1>3, <2>1, AppliedPrivate DEF SyncEvents
<1>4. QED
  BY <1>2, <1>3

(* Every step of a private world keeps the invariant.                      *)
LEMMA PrivateStep ==
  ASSUME BrokerInv, Numbered, PrivateInv, Private, [Next]_vars PROVE PrivateInv'
<1>1. CASE Continue
  BY <1>1, SyncStartPrivate, OpenDecidesPrivate, NewJobsPrivate, EntrySendPrivate DEF Continue
<1>2. CASE RequestSync \/ SyncStep
  BY <1>2, RequestSyncPrivate, FetchMissingPrivate, SyncedPrivate DEF SyncStep
<1>3. CASE \E side \in Sides : OpenCall(side)
  BY <1>3, OpenCallPrivate
<1>4. CASE EntryFilled \/ EntryRejected \/ EntryUnconfirmed
  BY <1>4, EntryFilledPrivate, EntryRejectedPrivate, EntryUnconfirmedPrivate
<1>5. CASE Trigger \/ CloseCall \/ ReduceCall
  BY <1>5, NewJobsPrivate, CloseCallPrivate
<1>6. CASE ExitStep
  BY <1>6, LookupMissPrivate, DroppedPrivate, ExitReadPrivate, CompletePrivate, ResidualPrivate,
     CloseCallPrivate DEF ExitStep
<1>7. CASE ExitOutage \/ ExitRejected \/ ExitResidualFails
  BY <1>7, OutagePrivate, DroppedPrivate, ResidualPrivate
<1>8. CASE \E o \in transit : Execute(o)
  <2>1. PICK o \in transit : Execute(o)
    BY <1>8
  <2>2. \/ xpc = "send" /\ o.id = ExitId
        \/ opener.pc = "sent" /\ o.id = EntryId
    BY <2>1, AwaitsPrivate DEF Awaited
  <2>3. QED
    BY <2>1, <2>2, ExitExecutesPrivate, EntryExecutesPrivate
<1>9. ~(SyncFails \/ OutsiderTrades \/ Restart)
  BY DEF SyncFails, OutsiderTrades, Restart, Private, May
<1>10. CASE Liquidate
  BY <1>10, LiquidatePrivate
<1>11. CASE UNCHANGED vars
  <2>1. UNCHANGED <<venue, transit, filled, cache, queue, sync, opener, expected, meta, job, xpc, xres>>
    BY <1>11 DEF vars, venueVars, syncVars, openVars, storeVars, exitVars
  <2>2. QED
    BY <2>1, KnownFrame, FacingFrame, MatchingFrame, LineFrame, MomentFrame, LeavingFrame, SizedFrame
       DEF PrivateInv
<1>12. QED
  BY <1>1, <1>2, <1>3, <1>4, <1>5, <1>6, <1>7, <1>8, <1>9, <1>10, <1>11 DEF Next

(* Nothing is open, expected or on its way at first.                       *)
LEMMA PrivateInit == ASSUME Init PROVE PrivateInv
<1>1. /\ venue = Flat /\ cache = Flat /\ transit = {} /\ filled = {} /\ queue = <<>> /\ sync = IdleSync
      /\ opener.pc = "idle" /\ job = NoJob /\ xpc = "none" /\ meta = NoMeta
  BY DEF Init, IdleOpen
<1>2. NoJob.sent = Flat /\ IdleSync.snap = Flat /\ IdleSync.stale = FALSE /\ IdleSync.pc = "idle"
  BY DEF NoJob, IdleSync
<1>3. Known /\ Facing /\ Matching /\ Line /\ Moment
  BY <1>1, <1>2 DEF Known, Facing, Matching, Line, Moment
<1>4. Leaving /\ Sized
  BY <1>1, <1>2 DEF Leaving, Sized, Finished, ExitDone
<1>5. QED
  BY <1>3, <1>4 DEF PrivateInv

(* What holds between the exchange, the sidecar and what the agent expects *)
(* in every private world.                                                 *)
THEOREM PrivateInvariant == Spec => [](Private => PrivateInv)
<1>1. Init => (Private => PrivateInv)
  BY PrivateInit
<1>2. BrokerInv /\ Numbered /\ (Private => PrivateInv) /\ [Next]_vars => (Private => PrivateInv)'
  <2> SUFFICES ASSUME BrokerInv, Numbered, Private => PrivateInv, [Next]_vars, Private' PROVE PrivateInv'
    OBVIOUS
  <2>1. UNCHANGED world
    BY Writers
  <2>2. Private
    BY <2>1 DEF Private
  <2>3. QED
    BY <2>2, PrivateStep
<1>3. QED
  BY <1>1, <1>2, BrokerInvariant, IdsUsedOnce, PTL DEF Spec

(* No order of its own leaves the agent with a position that it takes for  *)
(* somebody else's (remoteBroker.ts:258), or that it neither manages nor   *)
(* will recognise (RemoteReconciler.adoptUnowned), whatever answers are    *)
(* lost and wherever the exchange closes the position.                     *)
THEOREM AgentKeepsItsOwn == Spec => []AgentKept
<1>1. (Private => PrivateInv) => AgentKept
  <2> SUFFICES ASSUME Private => PrivateInv PROVE AgentKept
    OBVIOUS
  <2>1. Private => Known
    BY DEF PrivateInv
  <2>2. Private => AgentNeverExternal
    BY <2>1 DEF Known, NoMeta, isManaged, AgentNeverExternal, OwnerKept
  <2>3. EntryDone => isBusy
    BY DEF EntryDone, isBusy, pendingOpen
  <2>4. Private => AgentCovered
    BY <2>1, <2>3 DEF Known, AgentCovered
  <2>5. QED
    BY <2>2, <2>4 DEF AgentKept, AgentNeverExternal, AgentCovered, Private
<1>2. QED
  BY <1>1, PrivateInvariant, PTL
=============================================================================
