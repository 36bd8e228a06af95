------------------------------ MODULE OrderBook -----------------------------
(***************************************************************************)
(* The local order book of one symbol (LocalOrderBook.ts) and the feed     *)
(* that keeps it in step with the exchange (MicrostructureFeed.ts): diffs  *)
(* of a stream that drops and reconnects, buffered while a snapshot is     *)
(* fetched, and rebuilt from a new snapshot whenever they do not join.     *)
(* The friction gate of futures entries walks this book while it is LIVE.  *)
(*                                                                         *)
(* A level is there or not, its quantity is left out.  A diff carries its  *)
(* ids; the levels it sets are those the exchange changed between them.    *)
(***************************************************************************)
EXTENDS Integers, Sequences, FiniteSets

CONSTANTS
  Prices,      \* price levels
  MAX_BUFFER,  \* diffs held while no snapshot is loaded
  Depth,       \* levels per side in a snapshot
  MaxUpdates,  \* bound: updates of the exchange's book
  MaxFaults,   \* bound: drops, failures and damaged messages
  Worlds       \* the sets of kinds of faults of the runs

ASSUME BookAssumption ==
  /\ Prices \subseteq Int /\ {1, 3} \subseteq Prices   \* 1 and 3: the first quotes
  /\ {MAX_BUFFER, Depth, MaxUpdates, MaxFaults} \subseteq Nat

VARIABLES
  world,    \* the kinds of faults that happen
  hist,     \* exchange: hist[i] is the book after update i
  cut,      \* exchange: last update that was put into a diff
  conn,     \* the depth stream: "none", "live" or "pending"
  chan,     \* diffs under way on it
  book,     \* LocalOrderBook
  resync,   \* the resync in flight: waiting, or with its snapshot taken
  feed,     \* connect(): in front of this symbol, at later ones, done or failed
  stopped,  \* MicrostructureFeed.stopped
  faults    \* faults so far

vars == <<world, hist, cut, conn, chan, book, resync, feed, stopped, faults>>
exchangeVars == <<world, hist, cut>>

Sides == {"bids", "asks"}
NoSnap == [id |-> 0, bids |-> {}, asks |-> {}]
NoCoverage == [floor |-> 0, ceil |-> 0]

Fault(k) == k \in world /\ faults < MaxFaults /\ faults' = faults + 1

Best(side, levels) ==
  CHOOSE p \in levels : \A o \in levels : IF side = "bids" THEN o <= p ELSE o >= p
Worst(side, levels) ==
  CHOOSE p \in levels : \A o \in levels : IF side = "bids" THEN o >= p ELSE o <= p
Crossed(bids, asks) == bids # {} /\ asks # {} /\ Best("bids", bids) >= Best("asks", asks)

----------------------------------------------------------------------------
(* LocalOrderBook *)

\* Nothing held, and nothing known of the exchange.
Empty ==
  [bids |-> {}, asks |-> {}, buffer |-> <<>>, lastU |-> 0, snapshotId |-> 0,
   status |-> "SYNCING", coverage |-> NoCoverage]

fail(b) == [result |-> "gap", book |-> [b EXCEPT !.status = "RESYNC_REQUIRED"]]

\* The levels of a side that a diff names, and the side after it is applied.
Touched(side, d) ==
  {p \in Prices : \E i \in d.U .. d.u : p \in (hist[i][side] \cup hist[i - 1][side])
                                              \ (hist[i][side] \cap hist[i - 1][side])}
setLevels(side, levels, d) ==
  (levels \ Touched(side, d)) \cup (hist[d.u][side] \cap Touched(side, d))

\* Mutant: the first event need not straddle the snapshot.
JoinsAny(b, d) == b.lastU = 0 \/ d.pu = b.lastU

\* The first event straddles the snapshot, every later one continues the last.
Joins(b, d) ==
  IF b.lastU = 0 THEN d.U <= b.snapshotId /\ b.snapshotId <= d.u ELSE d.pu = b.lastU

\* A malformed level is noticed after the levels in front of it were set.
apply(b, d) ==
  LET bids == setLevels("bids", b.bids, d)
      asks == setLevels("asks", b.asks, d) IN
  CASE d.u < b.snapshotId -> [result |-> "dropped", book |-> b]
    [] d.u >= b.snapshotId /\ ~Joins(b, d) -> fail(b)
    [] d.u >= b.snapshotId /\ Joins(b, d) /\ d.malformed -> fail([b EXCEPT !.bids = bids])
    [] OTHER ->
         LET done == [b EXCEPT !.bids = bids, !.asks = asks, !.lastU = d.u] IN
         IF Crossed(bids, asks) THEN fail(done)
         ELSE [result |-> "applied", book |-> [done EXCEPT !.status = "LIVE"]]

\* Mutant: diffs are buffered without a limit.
onDiffUnlimited(b, d) ==
  CASE b.status = "RESYNC_REQUIRED" -> [result |-> "dropped", book |-> b]
    [] b.status # "RESYNC_REQUIRED" /\ b.snapshotId = 0 ->
         [result |-> "buffered", book |-> [b EXCEPT !.buffer = Append(@, d)]]
    [] OTHER -> apply(b, d)

\* While there is no snapshot diffs are buffered, up to a limit.
onDiff(b, d) ==
  CASE b.status = "RESYNC_REQUIRED" -> [result |-> "dropped", book |-> b]
    [] b.status # "RESYNC_REQUIRED" /\ b.snapshotId = 0 ->
         IF Len(b.buffer) >= MAX_BUFFER THEN fail(b)
         ELSE [result |-> "buffered", book |-> [b EXCEPT !.buffer = Append(@, d)]]
    [] OTHER -> apply(b, d)

\* The book as the snapshot has it.
Loaded(s) ==
  [bids |-> s.bids, asks |-> s.asks, buffer |-> <<>>, lastU |-> 0, snapshotId |-> s.id,
   status |-> "SYNCING",
   coverage |-> IF s.bids # {} /\ s.asks # {}
                THEN [floor |-> Worst("bids", s.bids), ceil |-> Worst("asks", s.asks)]
                ELSE NoCoverage]

\* The snapshot replaces the book and the buffer is replayed up to a gap.
loadSnapshot(b, s) ==
  LET replay[i \in 0 .. Len(b.buffer)] ==
        IF i = 0 THEN [result |-> "applied", book |-> Loaded(s)]
        ELSE IF replay[i - 1].result = "gap" THEN replay[i - 1]
        ELSE apply(replay[i - 1].book, b.buffer[i])
  IN replay[Len(b.buffer)]

----------------------------------------------------------------------------
(* The exchange *)

Touches(side, p, old) == [old EXCEPT ![side] = IF p \in @ THEN @ \ {p} ELSE @ \cup {p}]

Update ==
  /\ Len(hist) < MaxUpdates
  /\ \E side \in Sides, p \in Prices :
       LET new == Touches(side, p, hist[Len(hist)]) IN
       /\ ~Crossed(new.bids, new.asks)
       /\ hist' = Append(hist, new)
  /\ UNCHANGED <<world, cut, conn, chan, book, resync, feed, stopped, faults>>

\* Every 100 ms the updates since the last event become one; whoever is not
\* connected misses it.
Emit ==
  /\ cut < Len(hist)
  /\ cut' = Len(hist)
  /\ \E bad \in BOOLEAN :
       /\ IF bad THEN Fault("malformed") ELSE UNCHANGED faults
       /\ chan' = IF conn = "live"
                  THEN Append(chan, [U |-> cut + 1, u |-> Len(hist), pu |-> cut, malformed |-> bad])
                  ELSE chan
  /\ UNCHANGED <<world, hist, conn, book, resync, feed, stopped>>

\* A message is lost although the stream stays up.
Lose ==
  /\ chan # <<>> /\ Fault("lossy")
  /\ chan' = Tail(chan)
  /\ UNCHANGED <<exchangeVars, conn, book, resync, feed, stopped>>

----------------------------------------------------------------------------
(* MicrostructureFeed *)

\* Single-flight: the book is dropped and the first attempt waits for diffs.
Resync(b) ==
  IF resync.pc # "idle" THEN book' = b /\ UNCHANGED resync
  ELSE book' = Empty /\ resync' = [pc |-> IF stopped THEN "idle" ELSE "delay", snap |-> NoSnap]

\* The streams of this symbol are subscribed, its first sync starts.
Connect ==
  /\ feed = "subscribing"
  /\ conn' = "live" /\ chan' = <<>> /\ feed' = "others"
  /\ Resync(book)
  /\ UNCHANGED <<exchangeVars, stopped, faults>>

ConnectEnd ==
  /\ feed = "others" /\ feed' = "up"
  /\ UNCHANGED <<exchangeVars, conn, chan, book, resync, stopped, faults>>

\* One subscription fails: the handles are closed, all start again in 30 s.
ConnectFails ==
  /\ feed \in {"subscribing", "others"} /\ Fault("connect")
  /\ conn' = "none" /\ chan' = <<>> /\ feed' = "down"
  /\ UNCHANGED <<exchangeVars, book, resync, stopped>>

ConnectAgain ==
  /\ feed = "down" /\ ~stopped /\ feed' = "subscribing"
  /\ UNCHANGED <<exchangeVars, conn, chan, book, resync, stopped, faults>>

\* 'pending': the book is dropped at once.
Drop ==
  /\ conn = "live" /\ Fault("drop")
  /\ conn' = "pending" /\ chan' = <<>>
  /\ book' = Empty
  /\ UNCHANGED <<exchangeVars, resync, feed, stopped>>

\* Mutant: the stream is back and nobody fetches a snapshot.
ReconnectQuietly ==
  /\ conn = "pending" /\ conn' = "live"
  /\ UNCHANGED <<exchangeVars, chan, book, resync, feed, stopped, faults>>

\* 'live': the stream is back.
Reconnect ==
  /\ conn = "pending" /\ conn' = "live"
  /\ Resync(book)
  /\ UNCHANGED <<exchangeVars, chan, feed, stopped, faults>>

onDepth ==
  /\ chan # <<>> /\ chan' = Tail(chan)
  /\ LET r == onDiff(book, Head(chan)) IN
     IF r.result = "gap" THEN Resync(r.book) ELSE book' = r.book /\ UNCHANGED resync
  /\ UNCHANGED <<exchangeVars, conn, feed, stopped, faults>>

\* The exchange answers the request with the best levels it has then.
SnapshotTaken ==
  LET now == hist[Len(hist)]
      Top(side) == {p \in now[side] :
        Cardinality({o \in now[side] : IF side = "bids" THEN o > p ELSE o < p}) < Depth} IN
  /\ resync.pc = "delay"
  /\ resync' = [pc |-> "answer", snap |-> [id |-> Len(hist), bids |-> Top("bids"), asks |-> Top("asks")]]
  /\ UNCHANGED <<exchangeVars, conn, chan, book, feed, stopped, faults>>

\* The next attempt, unless the feed was stopped.
Again == resync' = [pc |-> IF stopped THEN "idle" ELSE "delay", snap |-> NoSnap]

SnapshotAnswered ==
  /\ resync.pc = "answer"
  /\ LET r == loadSnapshot(book, resync.snap) IN
     IF r.result # "gap" /\ r.book.status # "RESYNC_REQUIRED"
     THEN book' = r.book /\ resync' = [pc |-> "idle", snap |-> NoSnap]
     ELSE book' = Empty /\ Again
  /\ UNCHANGED <<exchangeVars, conn, chan, feed, stopped, faults>>

SnapshotFails ==
  /\ resync.pc # "idle" /\ Fault("snapshot")
  /\ book' = Empty /\ Again
  /\ UNCHANGED <<exchangeVars, conn, chan, feed, stopped>>

\* The handles known so far are closed; what awaits an answer goes on.
Stop ==
  /\ ~stopped /\ Fault("stop") /\ stopped' = TRUE
  /\ conn' = "none" /\ chan' = <<>>
  /\ UNCHANGED <<exchangeVars, book, resync, feed>>

----------------------------------------------------------------------------

Init ==
  /\ world \in Worlds
  /\ hist = <<[bids |-> {}, asks |-> {}], [bids |-> {1}, asks |-> {3}]>> /\ cut = 1
  /\ conn = "none" /\ chan = <<>> /\ book = Empty
  /\ resync = [pc |-> "idle", snap |-> NoSnap]
  /\ feed = "subscribing" /\ stopped = FALSE /\ faults = 0

\* The bounded exchange is quiet and everything has been handled.
Rest ==
  /\ Len(hist) = MaxUpdates /\ cut = Len(hist) /\ chan = <<>> /\ resync.pc = "idle"
  /\ conn # "pending" /\ (stopped \/ feed = "up")
  /\ UNCHANGED vars

Next ==
  \/ Update \/ Emit \/ Lose
  \/ Connect \/ ConnectEnd \/ ConnectFails \/ ConnectAgain
  \/ Drop \/ Reconnect \/ onDepth
  \/ SnapshotTaken \/ SnapshotAnswered \/ SnapshotFails
  \/ Stop \/ Rest

Spec == Init /\ [][Next]_vars

----------------------------------------------------------------------------
(* Properties *)

Diffs == [U : Nat, u : Nat, pu : Nat, malformed : BOOLEAN]

\* Types of the state; the buffer keeps its limit, failed books included.
TypeOK ==
  /\ world \in Worlds
  /\ hist \in Seq([bids : SUBSET Prices, asks : SUBSET Prices]) /\ cut \in Nat
  /\ conn \in {"none", "live", "pending"} /\ chan \in Seq(Diffs)
  /\ book \in [bids : SUBSET Prices, asks : SUBSET Prices, buffer : Seq(Diffs), lastU : Nat, snapshotId : Nat,
               status : {"SYNCING", "LIVE", "RESYNC_REQUIRED"}, coverage : [floor : Int, ceil : Int]]
  /\ Len(book.buffer) <= MAX_BUFFER
  /\ resync \in [pc : {"idle", "delay", "answer"}, snap : [id : Nat, bids : SUBSET Prices, asks : SUBSET Prices]]
  /\ feed \in {"subscribing", "others", "up", "down"} /\ stopped \in BOOLEAN /\ faults \in 0 .. MaxFaults

\* LocalOrderBook.ts: "it is never patched or guessed".  A book the gate may
\* read is the exchange's own at the last event applied: it holds no level that
\* was not there, and within its coverage none is missing, however snapshots,
\* buffers, gaps, overflows and reconnects fell.
LiveIsExact ==
  book.status = "LIVE" =>
    /\ book.lastU \in DOMAIN hist
    /\ \A side \in Sides : book[side] \subseteq hist[book.lastU][side]
    /\ book.coverage # NoCoverage =>
         /\ {p \in hist[book.lastU].bids : p >= book.coverage.floor} \subseteq book.bids
         /\ {p \in hist[book.lastU].asks : p <= book.coverage.ceil} \subseteq book.asks

\* MicrostructureFeed.ts: a gap or a reconnect "drops the local book and
\* rebuilds it".  While the stream is up, a book without a snapshot or one that
\* needs a resync has a resync in flight, although resync calls that meet one
\* in flight are ignored.
SomebodyRebuilds ==
  ~stopped /\ conn = "live" /\ (book.snapshotId = 0 \/ book.status = "RESYNC_REQUIRED")
    => resync.pc # "idle"
=============================================================================
