--------------------------- MODULE OrderBookProofs --------------------------
(***************************************************************************)
(* Proofs about OrderBook, for every set of prices, depth of a snapshot    *)
(* and length of the buffer, and for every number of updates and faults.   *)
(*                                                                         *)
(* Two things go by induction: the replay of the buffer, over its length,  *)
(* and what a diff leaves out, over the updates it covers.  Both rest on   *)
(* LeastNatural: the least counterexample is looked at.                    *)
(***************************************************************************)
EXTENDS OrderBook, FiniteSetTheorems, WellFoundedInduction, TLAPS

Levels == [bids : SUBSET Prices, asks : SUBSET Prices]
Snaps == [id : Nat, bids : SUBSET Prices, asks : SUBSET Prices]
Books == [bids : SUBSET Prices, asks : SUBSET Prices, buffer : Seq(Diffs), lastU : Nat,
          snapshotId : Nat, status : {"SYNCING", "LIVE", "RESYNC_REQUIRED"},
          coverage : [floor : Int, ceil : Int]]

(* A diff covers updates that happened, and names the one before them.     *)
DiffOK(d) == d \in Diffs /\ d.pu >= 1 /\ d.U = d.pu + 1 /\ d.U <= d.u /\ d.u <= Len(hist)

(* The update of the exchange a book stands for.                           *)
At(b) == IF b.lastU = 0 THEN b.snapshotId ELSE b.lastU

(* The book holds no level the exchange did not have at update n, and      *)
(* within its coverage all that it had.                                    *)
Matches(b, n) ==
  /\ n \in 1 .. Len(hist)
  /\ b.bids \subseteq hist[n].bids /\ b.asks \subseteq hist[n].asks
  /\ b.coverage # NoCoverage =>
       /\ {p \in hist[n].bids : p >= b.coverage.floor} \subseteq b.bids
       /\ {p \in hist[n].asks : p <= b.coverage.ceil} \subseteq b.asks

BookOK(b) ==
  /\ b \in Books /\ Len(b.buffer) <= MAX_BUFFER
  /\ \A i \in 1 .. Len(b.buffer) : DiffOK(b.buffer[i])
  /\ b.snapshotId # 0 /\ b.status # "RESYNC_REQUIRED" => Matches(b, At(b))
  /\ b.status = "LIVE" => b.snapshotId # 0 /\ b.lastU # 0

(* A snapshot has the best levels of one update and no others.             *)
SnapOK(s) ==
  /\ s.id \in 1 .. Len(hist)
  /\ s.bids \subseteq hist[s.id].bids /\ s.asks \subseteq hist[s.id].asks
  /\ \A q \in s.bids : \A p \in hist[s.id].bids : p >= q => p \in s.bids
  /\ \A q \in s.asks : \A p \in hist[s.id].asks : p <= q => p \in s.asks

HistOK ==
  /\ hist \in Seq(Levels) /\ Len(hist) >= 1 /\ cut \in 1 .. Len(hist)
  /\ \A i \in 1 .. Len(hist) : IsFiniteSet(hist[i].bids) /\ IsFiniteSet(hist[i].asks)

FeedOK ==
  /\ world \in Worlds
  /\ conn \in {"none", "live", "pending"} /\ chan \in Seq(Diffs)
  /\ \A i \in 1 .. Len(chan) : DiffOK(chan[i])
  /\ resync \in [pc : {"idle", "delay", "answer"}, snap : Snaps]
  /\ resync.pc = "answer" => SnapOK(resync.snap)
  /\ feed \in {"subscribing", "others", "up", "down"} /\ stopped \in BOOLEAN
  /\ faults \in 0 .. MaxFaults

(* The inductive invariant. *)
BookInv == HistOK /\ FeedOK /\ BookOK(book) /\ SomebodyRebuilds

----------------------------------------------------------------------------
(* Facts about numbers and finite sets *)

(* A non-empty set of naturals has a least element. *)
LEMMA LeastNatural ==
  ASSUME NEW T \in SUBSET Nat, T # {}
  PROVE  \E m \in T : \A n \in T : m <= n
<1>1. \A n, k \in Nat : n < k => <<n, k>> \in OpToRel(<, Nat)
  BY DEF OpToRel
<1>2. PICK R : IsWellFoundedOn(R, Nat) /\ (\A n, k \in Nat : n < k => <<n, k>> \in R)
  BY <1>1, NatLessThanWellFounded
<1>3. PICK m \in T : \A n \in T : ~(<<n, m>> \in R)
  <2>1. IsWellFoundedOn(R, Nat) /\ T \subseteq Nat /\ T # {}
    BY <1>2
  <2>2. \E m \in T : \A n \in T : ~(<<n, m>> \in R)
    BY <2>1, WFMin, Zenon
  <2>3. QED
    BY <2>2
<1>4. \A n \in T : ~(n < m)
  BY <1>2, <1>3
<1>5. QED
  BY <1>4

(* Induction over the naturals, for a set of them. *)
LEMMA InductionOverSet ==
  ASSUME NEW S \in SUBSET Nat, 0 \in S, \A n \in S : n + 1 \in S
  PROVE  S = Nat
<1>1. SUFFICES ASSUME Nat \ S # {} PROVE FALSE
  OBVIOUS
<1>2. PICK m \in Nat \ S : \A n \in Nat \ S : m <= n
  BY <1>1, LeastNatural
<1>3. m # 0 /\ m - 1 \in Nat /\ m - 1 \in S
  BY <1>2
<1>4. QED
  BY <1>2, <1>3

(* The worst level of a finite side exists: the one with the fewest levels *)
(* behind it.                                                              *)
LEMMA WorstExists ==
  ASSUME NEW S \in SUBSET Int, IsFiniteSet(S), S # {}, NEW side \in Sides
  PROVE  /\ Worst(side, S) \in S
         /\ \A o \in S : IF side = "bids" THEN o >= Worst(side, S) ELSE o <= Worst(side, S)
<1> DEFINE Behind(p) == {o \in S : IF side = "bids" THEN o < p ELSE o > p}
           Counts == {Cardinality(Behind(p)) : p \in S}
<1>1. \A p \in S : IsFiniteSet(Behind(p)) /\ Cardinality(Behind(p)) \in Nat
  BY FS_Subset, FS_CardinalityType
<1>2. Counts \in SUBSET Nat /\ Counts # {}
  BY <1>1
<1>3. PICK m \in Counts : \A n \in Counts : m <= n
  <2> HIDE DEF Counts
  <2> QED BY <1>2, LeastNatural
<1>4. PICK p \in S : \A q \in S : Cardinality(Behind(p)) <= Cardinality(Behind(q))
  BY <1>3
<1>5. ASSUME NEW q \in Behind(p) PROVE FALSE
  <2>1. q \in S /\ Behind(q) \in SUBSET Behind(p) /\ q \notin Behind(q)
    <3>1. q \in S /\ p \in Int /\ q \in Int /\ (IF side = "bids" THEN q < p ELSE q > p)
      BY <1>5
    <3>2. ASSUME NEW o \in Behind(q) PROVE o \in Behind(p)
      <4>1. o \in S /\ o \in Int /\ (IF side = "bids" THEN o < q ELSE o > q)
        BY <3>2
      <4>2. IF side = "bids" THEN o < p ELSE o > p
        BY <3>1, <4>1
      <4>3. QED
        BY <4>1, <4>2
    <3>3. q \notin Behind(q)
      BY <3>1
    <3>4. QED
      BY <3>1, <3>2, <3>3
  <2>2. Cardinality(Behind(q)) <= Cardinality(Behind(p)) /\ Cardinality(Behind(q)) # Cardinality(Behind(p))
    BY <1>1, <1>5, <2>1, FS_Subset
  <2>3. QED
    BY <1>1, <1>4, <2>1, <2>2
<1>6. \A o \in S : IF side = "bids" THEN o >= p ELSE o <= p
  BY <1>5 DEF Sides
<1>7. QED
  BY <1>6 DEF Worst

----------------------------------------------------------------------------
(* LocalOrderBook *)

(* A level that no update of a diff touches is there after the diff just   *)
(* when it was there at any update the diff starts from or passes.         *)
LEMMA UntouchedStays ==
  ASSUME HistOK, NEW d, DiffOK(d), NEW side \in Sides,
         NEW p \in Prices, p \notin Touched(side, d), NEW n \in d.pu .. d.u
  PROVE  p \in hist[n][side] <=> p \in hist[d.u][side]
<1> DEFINE Same == {k \in Nat : n + k <= d.u => (p \in hist[n][side] <=> p \in hist[n + k][side])}
<1>1. d.pu \in Nat /\ d.u \in Nat /\ d.U \in Nat /\ n \in Nat /\ n >= 1
  BY DEF DiffOK, Diffs
<1>2. 0 \in Same
  BY <1>1
<1>3. ASSUME NEW k \in Same PROVE k + 1 \in Same
  <2>1. SUFFICES ASSUME n + (k + 1) <= d.u
                 PROVE  p \in hist[n][side] <=> p \in hist[n + (k + 1)][side]
    BY <1>3
  <2>2. n + (k + 1) \in d.U .. d.u /\ n + (k + 1) - 1 = n + k
    BY <1>1, <2>1 DEF DiffOK
  <2>3. p \in hist[n + (k + 1)][side] <=> p \in hist[n + k][side]
    BY <2>2 DEF Touched
  <2>4. QED
    BY <1>1, <2>1, <2>3
<1>4. Same = Nat
  <2> HIDE DEF Same
  <2>1. Same \in SUBSET Nat
    BY DEF Same
  <2>2. QED
    BY <1>2, <1>3, <2>1, InductionOverSet
<1>5. d.u - n \in Same /\ n + (d.u - n) = d.u
  BY <1>1, <1>4
<1>6. QED
  BY <1>5

(* A side that matched an update matches the last one of the diff after    *)
(* setLevels: nothing too much, and nothing missing beyond a bound.        *)
LEMMA SetLevelsExact ==
  ASSUME HistOK, NEW d, DiffOK(d), NEW side \in Sides, NEW n \in d.pu .. d.u,
         NEW levels \in SUBSET Prices, levels \subseteq hist[n][side]
  PROVE  /\ setLevels(side, levels, d) \in SUBSET Prices
         /\ setLevels(side, levels, d) \subseteq hist[d.u][side]
         /\ \A p \in hist[d.u][side] : (p \in hist[n][side] => p \in levels) => p \in setLevels(side, levels, d)
<1>1. d.u \in 1 .. Len(hist) /\ n \in 1 .. Len(hist)
  BY DEF DiffOK, Diffs, HistOK
<1>2. hist[d.u][side] \in SUBSET Prices /\ hist[n][side] \in SUBSET Prices
  <2>1. hist[d.u] \in Levels /\ hist[n] \in Levels
    BY <1>1 DEF HistOK
  <2>2. QED
    BY <2>1 DEF Levels, Sides
<1>3. \A p \in Prices : p \notin Touched(side, d) => (p \in hist[n][side] <=> p \in hist[d.u][side])
  BY UntouchedStays
<1>4. QED
  BY <1>2, <1>3 DEF setLevels

(* A failed book makes no claim. *)
LEMMA FailOK ==
  ASSUME NEW b, BookOK(b)
  PROVE  /\ BookOK(fail(b).book) /\ fail(b).result = "gap"
         /\ fail(b).book.status = "RESYNC_REQUIRED" /\ fail(b).book.snapshotId = b.snapshotId
<1> DEFINE f == [b EXCEPT !.status = "RESYNC_REQUIRED"]
<1>1. /\ f \in Books /\ f.status = "RESYNC_REQUIRED"
      /\ f.snapshotId = b.snapshotId /\ f.buffer = b.buffer
  BY DEF BookOK, Books
<1>2. fail(b).book = f /\ fail(b).result = "gap"
  BY DEF fail
<1> HIDE DEF f
<1>3. BookOK(f)
  BY <1>1 DEF BookOK
<1>4. QED
  BY <1>1, <1>2, <1>3

(* apply keeps a book that was right right, or asks for a resync; the id   *)
(* of the snapshot and the buffer stay.                                    *)
LEMMA ApplyOK ==
  ASSUME HistOK, NEW b, BookOK(b), b.snapshotId # 0, b.status # "RESYNC_REQUIRED",
         NEW d, DiffOK(d)
  PROVE  /\ BookOK(apply(b, d).book)
         /\ apply(b, d).book.snapshotId = b.snapshotId
         /\ apply(b, d).book.status = "RESYNC_REQUIRED" <=> apply(b, d).result = "gap"
<1> DEFINE bids == setLevels("bids", b.bids, d)
           asks == setLevels("asks", b.asks, d)
           done == [b EXCEPT !.bids = bids, !.asks = asks, !.lastU = d.u]
           live == [done EXCEPT !.status = "LIVE"]
<1>1. b \in Books /\ Matches(b, At(b)) /\ d \in Diffs /\ d.u # 0 /\ d.u \in 1 .. Len(hist)
  BY DEF BookOK, DiffOK, Diffs, HistOK
<1>2. CASE d.u < b.snapshotId
  <2>1. apply(b, d) = [result |-> "dropped", book |-> b]
    BY <1>1, <1>2 DEF apply, Books, Diffs
  <2>2. QED
    BY <2>1
<1>3. CASE d.u >= b.snapshotId /\ ~Joins(b, d)
  <2>1. apply(b, d) = fail(b)
    BY <1>1, <1>3 DEF apply, Books, Diffs
  <2>2. QED
    BY <2>1, FailOK
<1>4. CASE d.u >= b.snapshotId /\ Joins(b, d)
  <2>1. At(b) \in d.pu .. d.u
    BY <1>1, <1>4 DEF At, Joins, DiffOK, Books, Diffs
  <2>2. /\ bids \in SUBSET Prices /\ bids \subseteq hist[d.u].bids
        /\ \A p \in hist[d.u].bids : (p \in hist[At(b)].bids => p \in b.bids) => p \in bids
    <3>1. b.bids \in SUBSET Prices /\ b.bids \subseteq hist[At(b)]["bids"] /\ "bids" \in Sides
      BY <1>1 DEF Matches, Books, Sides
    <3>2. QED
      BY <2>1, <3>1, SetLevelsExact
  <2>3. /\ asks \in SUBSET Prices /\ asks \subseteq hist[d.u].asks
        /\ \A p \in hist[d.u].asks : (p \in hist[At(b)].asks => p \in b.asks) => p \in asks
    <3>1. b.asks \in SUBSET Prices /\ b.asks \subseteq hist[At(b)]["asks"] /\ "asks" \in Sides
      BY <1>1 DEF Matches, Books, Sides
    <3>2. QED
      BY <2>1, <3>1, SetLevelsExact
  <2> HIDE DEF bids, asks
  <2>4. /\ done \in Books /\ done.buffer = b.buffer /\ done.snapshotId = b.snapshotId
        /\ live \in Books /\ live.buffer = b.buffer /\ live.snapshotId = b.snapshotId
        /\ live.lastU = d.u /\ live.status = "LIVE" /\ live.coverage = b.coverage
        /\ live.bids = bids /\ live.asks = asks
    BY <1>1, <2>2, <2>3 DEF Books, Diffs
  <2>5. Matches(live, d.u)
    <3>1. ASSUME b.coverage # NoCoverage
          PROVE  /\ {p \in hist[d.u].bids : p >= b.coverage.floor} \subseteq bids
                 /\ {p \in hist[d.u].asks : p <= b.coverage.ceil} \subseteq asks
      BY <1>1, <2>2, <2>3, <3>1 DEF Matches
    <3> HIDE DEF live
    <3>2. QED
      BY <1>1, <2>2, <2>3, <2>4, <3>1 DEF Matches
  <2>6. BookOK(live)
    <3>1. At(live) = d.u
      BY <1>1, <2>4 DEF At
    <3> HIDE DEF live
    <3>2. QED
      BY <1>1, <2>4, <2>5, <3>1 DEF BookOK
  <2>7. CASE d.malformed
    <3> DEFINE half == [b EXCEPT !.bids = bids]
               marked == [half EXCEPT !.status = "RESYNC_REQUIRED"]
    <3>1. apply(b, d) = fail(half)
      BY <1>1, <1>4, <2>7 DEF apply, bids, Books, Diffs
    <3>2. /\ half \in Books /\ half.buffer = b.buffer /\ half.snapshotId = b.snapshotId
          /\ half.status = b.status /\ half.lastU = b.lastU
      BY <1>1, <2>2 DEF Books
    <3>3. fail(half) = fail(marked)
      BY <1>1 DEF fail, Books
    <3>4. BookOK(marked) /\ marked.snapshotId = b.snapshotId
      BY <3>2 DEF BookOK, Books
    <3> HIDE DEF half, marked
    <3>5. QED
      BY <3>1, <3>3, <3>4, FailOK
  <2>8. CASE ~d.malformed
    <3>1. apply(b, d) = IF Crossed(bids, asks) THEN fail(done) ELSE [result |-> "applied", book |-> live]
      BY <1>1, <1>4, <2>8 DEF apply, bids, asks, Books, Diffs
    <3>2. fail(done) = fail(live)
      BY <2>4 DEF fail, Books
    <3> HIDE DEF live, done
    <3>3. QED
      BY <2>4, <2>6, <3>1, <3>2, FailOK
  <2>9. QED
    BY <2>7, <2>8
<1>5. QED
  BY <1>1, <1>2, <1>3, <1>4 DEF Books, Diffs

(* The book a snapshot is loaded into is right. *)
LEMMA LoadedOK ==
  ASSUME HistOK, NEW s \in Snaps, SnapOK(s)
  PROVE  BookOK(Loaded(s)) /\ Loaded(s).snapshotId = s.id /\ Loaded(s).status = "SYNCING"
<1> USE BookAssumption
<1> DEFINE c == IF s.bids # {} /\ s.asks # {}
                THEN [floor |-> Worst("bids", s.bids), ceil |-> Worst("asks", s.asks)]
                ELSE NoCoverage
           b == [bids |-> s.bids, asks |-> s.asks, buffer |-> <<>>, lastU |-> 0, snapshotId |-> s.id,
                 status |-> "SYNCING", coverage |-> c]
<1>1. Loaded(s) = b
  BY DEF Loaded
<1>2. /\ s.id \in 1 .. Len(hist) /\ s.bids \in SUBSET Int /\ s.asks \in SUBSET Int
      /\ IsFiniteSet(s.bids) /\ IsFiniteSet(s.asks)
  <2>1. IsFiniteSet(hist[s.id].bids) /\ IsFiniteSet(hist[s.id].asks)
    BY DEF SnapOK, HistOK
  <2>2. IsFiniteSet(s.bids) /\ IsFiniteSet(s.asks)
    BY <2>1, FS_Subset DEF SnapOK
  <2>3. QED
    BY <2>2 DEF SnapOK, Snaps
<1>3. ASSUME s.bids # {}, s.asks # {}
      PROVE  /\ Worst("bids", s.bids) \in s.bids /\ Worst("asks", s.asks) \in s.asks
  BY <1>2, <1>3, WorstExists DEF Sides
<1>4. c \in [floor : Int, ceil : Int]
  BY <1>2, <1>3 DEF NoCoverage
<1>5. ASSUME c # NoCoverage
      PROVE  /\ {p \in hist[s.id].bids : p >= c.floor} \subseteq s.bids
             /\ {p \in hist[s.id].asks : p <= c.ceil} \subseteq s.asks
  <2>1. c.floor \in s.bids /\ c.ceil \in s.asks
    BY <1>3, <1>5
  <2> HIDE DEF c
  <2>2. QED
    BY <2>1 DEF SnapOK
<1> HIDE DEF c
<1>6. b \in Books
  BY <1>2, <1>4 DEF Books, Snaps
<1>7. Matches(b, s.id) /\ At(b) = s.id
  BY <1>2, <1>5 DEF Matches, At, SnapOK
<1>8. QED
  BY <1>1, <1>6, <1>7 DEF BookOK

(* The replay of the buffer: the recursive function exists, and every book *)
(* it goes through is right or asks for a resync.                          *)
LEMMA ReplayOK ==
  ASSUME HistOK, NEW b, BookOK(b), NEW s \in Snaps, SnapOK(s)
  PROVE  /\ BookOK(loadSnapshot(b, s).book)
         /\ loadSnapshot(b, s).book.snapshotId = s.id
<1> DEFINE start == [result |-> "applied", book |-> Loaded(s)]
           Step(g, i) == IF i = 0 THEN start
                         ELSE IF g[i - 1].result = "gap" THEN g[i - 1]
                         ELSE apply(g[i - 1].book, b.buffer[i])
           Runs(n, g) == g = [i \in 0 .. n |-> Step(g, i)]
           Has == {n \in Nat : \E g : Runs(n, g)}
           len == Len(b.buffer)
<1>1. len \in Nat /\ b.buffer \in Seq(Diffs)
  BY DEF BookOK, Books
<1>2. 0 \in Has
  <2>1. Runs(0, [i \in 0 .. 0 |-> start])
    OBVIOUS
  <2>2. QED
    BY <2>1
<1>3. ASSUME NEW n \in Has PROVE n + 1 \in Has
  <2>1. PICK g : Runs(n, g)
    BY <1>3
  <2> DEFINE h == [i \in 0 .. n + 1 |-> IF i <= n THEN g[i] ELSE Step(g, n + 1)]
  <2>2. n \in Nat /\ \A i \in 0 .. n : g[i] = Step(g, i)
    BY <2>1
  <2>3. ASSUME NEW i \in 0 .. n + 1 PROVE h[i] = Step(h, i)
    <3>1. CASE i = 0
      BY <2>2, <3>1
    <3>2. CASE i # 0
      <4>1. i - 1 \in 0 .. n /\ h[i - 1] = g[i - 1]
        BY <2>2, <3>2
      <4>2. Step(h, i) = Step(g, i)
        BY <4>1
      <4>3. h[i] = Step(g, i)
        BY <2>2, <3>2
      <4>4. QED
        BY <4>2, <4>3
    <3>3. QED
      BY <3>1, <3>2
  <2>4. Runs(n + 1, h)
    BY <2>3
  <2>5. \E f : Runs(n + 1, f)
    <3> HIDE DEF Runs, h
    <3> QED BY <2>4
  <2>6. QED
    BY <2>2, <2>5
<1>4. Has = Nat
  <2>1. Has \in SUBSET Nat
    OBVIOUS
  <2> HIDE DEF Has
  <2>2. QED
    BY <1>2, <1>3, <2>1, InductionOverSet
<1>5. PICK g : Runs(len, g) /\ loadSnapshot(b, s) = g[len]
  <2>1. loadSnapshot(b, s) = (CHOOSE g : Runs(len, g))[len]
    BY DEF loadSnapshot
  <2>2. \E g : Runs(len, g)
    BY <1>1, <1>4
  <2>3. Runs(len, CHOOSE g : Runs(len, g))
    <3> HIDE DEF Runs, len
    <3> QED BY <2>2
  <2>4. QED
    BY <2>1, <2>3
<1> DEFINE Good(r) == /\ BookOK(r.book) /\ r.book.snapshotId = s.id
                      /\ r.book.status = "RESYNC_REQUIRED" <=> r.result = "gap"
           Fine == {i \in Nat : i <= len => Good(g[i])}
<1>6. 0 \in Fine
  BY <1>1, <1>5, LoadedOK
<1>7. ASSUME NEW i \in Fine PROVE i + 1 \in Fine
  <2>1. SUFFICES ASSUME i + 1 <= len PROVE Good(g[i + 1])
    BY <1>7
  <2>2. Good(g[i]) /\ s.id # 0
    BY <1>1, <1>7, <2>1 DEF SnapOK, Snaps, HistOK
  <2>3. g[i + 1] = IF g[i].result = "gap" THEN g[i] ELSE apply(g[i].book, b.buffer[i + 1])
    <3>1. i \in Nat /\ i + 1 \in 0 .. len /\ i + 1 # 0 /\ (i + 1) - 1 = i
      BY <1>1, <1>7, <2>1
    <3>2. g[i + 1] = Step(g, i + 1)
      BY <1>5, <3>1
    <3>3. Step(g, i + 1) = IF g[i].result = "gap" THEN g[i] ELSE apply(g[i].book, b.buffer[i + 1])
      BY <3>1
    <3>4. QED
      BY <3>2, <3>3
  <2>4. DiffOK(b.buffer[i + 1])
    BY <1>1, <1>7, <2>1 DEF BookOK
  <2>5. CASE g[i].result = "gap"
    BY <2>2, <2>3, <2>5
  <2>6. CASE g[i].result # "gap"
    BY <2>2, <2>3, <2>4, <2>6, ApplyOK
  <2>7. QED
    BY <2>5, <2>6
<1>8. Fine = Nat
  <2>1. Fine \in SUBSET Nat
    OBVIOUS
  <2> HIDE DEF Fine
  <2>2. QED
    BY <1>6, <1>7, <2>1, InductionOverSet
<1>9. Good(g[len])
  <2>1. len \in Fine
    BY <1>1, <1>8
  <2>2. QED
    BY <1>1, <2>1
<1>10. QED
  BY <1>5, <1>9

(* A diff of the stream is dropped, buffered or applied. *)
LEMMA OnDiffOK ==
  ASSUME HistOK, NEW b, BookOK(b), NEW d, DiffOK(d)
  PROVE  /\ BookOK(onDiff(b, d).book)
         /\ onDiff(b, d).book.snapshotId = b.snapshotId
         /\ onDiff(b, d).book.status = "RESYNC_REQUIRED" /\ b.status # "RESYNC_REQUIRED"
              => onDiff(b, d).result = "gap"
<1> USE BookAssumption
<1>1. b \in Books /\ d \in Diffs
  BY DEF BookOK, DiffOK
<1>2. CASE b.status = "RESYNC_REQUIRED"
  BY <1>2 DEF onDiff
<1>3. CASE b.status # "RESYNC_REQUIRED" /\ b.snapshotId = 0
  <2> DEFINE longer == [b EXCEPT !.buffer = Append(@, d)]
  <2>1. CASE Len(b.buffer) >= MAX_BUFFER
    BY <1>3, <2>1, FailOK DEF onDiff
  <2>2. CASE ~(Len(b.buffer) >= MAX_BUFFER)
    <3>1. onDiff(b, d) = [result |-> "buffered", book |-> longer]
      BY <1>3, <2>2 DEF onDiff
    <3>2. /\ longer \in Books /\ longer.buffer = Append(b.buffer, d)
          /\ longer.snapshotId = 0 /\ longer.status = b.status
      <4>1. b.buffer \in Seq(Diffs) /\ Append(b.buffer, d) \in Seq(Diffs)
        BY <1>1 DEF Books
      <4>2. longer.buffer = Append(b.buffer, d) /\ longer.snapshotId = b.snapshotId /\ longer.status = b.status
        BY <1>1 DEF Books
      <4>3. longer \in Books
        BY <1>1, <4>1 DEF Books
      <4>4. QED
        BY <1>3, <4>2, <4>3
    <3>3. Len(longer.buffer) <= MAX_BUFFER
      BY <1>1, <2>2, <3>2 DEF Books
    <3>4. \A i \in 1 .. Len(longer.buffer) : DiffOK(longer.buffer[i])
      <4>1. ASSUME NEW q \in Seq(Diffs), NEW i \in 1 .. Len(Append(q, d))
            PROVE  Append(q, d)[i] = d \/ (i \in 1 .. Len(q) /\ Append(q, d)[i] = q[i])
        OBVIOUS
      <4>2. b.buffer \in Seq(Diffs) /\ \A i \in 1 .. Len(b.buffer) : DiffOK(b.buffer[i])
        BY <1>1 DEF BookOK, Books
      <4> HIDE DEF longer
      <4>3. QED
        BY <3>2, <4>1, <4>2
    <3> HIDE DEF longer
    <3>5. BookOK(longer)
      BY <1>3, <3>2, <3>3, <3>4 DEF BookOK
    <3>6. QED
      BY <1>3, <3>1, <3>2, <3>5
  <2>3. QED
    BY <2>1, <2>2
<1>4. CASE b.status # "RESYNC_REQUIRED" /\ b.snapshotId # 0
  <2>1. onDiff(b, d) = apply(b, d)
    BY <1>4 DEF onDiff
  <2>2. QED
    BY <1>4, <2>1, ApplyOK
<1>5. QED
  BY <1>2, <1>3, <1>4

----------------------------------------------------------------------------
(* The invariant is inductive *)

(* The empty book makes no claim. *)
LEMMA EmptyOK == BookOK(Empty) /\ Empty.snapshotId = 0 /\ Empty.status = "SYNCING"
BY BookAssumption DEF BookOK, Empty, Books, NoCoverage

(* The exchange's history only grows: what was said of an update stays.    *)
LEMMA UpdateStep == BookInv /\ Update => BookInv'
<1> SUFFICES ASSUME BookInv, Update PROVE BookInv'
  OBVIOUS
<1> USE BookAssumption
<1>1. PICK side \in Sides, p \in Prices : hist' = Append(hist, Touches(side, p, hist[Len(hist)]))
  BY DEF Update
<1> DEFINE old == hist[Len(hist)]
           new == Touches(side, p, old)
<1>2. HistOK /\ old \in Levels /\ IsFiniteSet(old.bids) /\ IsFiniteSet(old.asks)
  BY DEF BookInv, HistOK
<1>3. new \in Levels /\ IsFiniteSet(new.bids) /\ IsFiniteSet(new.asks)
  <2>1. old.bids \in SUBSET Prices /\ old.asks \in SUBSET Prices
    BY <1>2 DEF Levels
  <2>2. \A q, S : IsFiniteSet(S) => IsFiniteSet(S \ {q}) /\ IsFiniteSet(S \cup {q})
    BY FS_AddElement, FS_RemoveElement
  <2>3. CASE side = "bids"
    <3>1. new = [old EXCEPT !.bids = IF p \in old.bids THEN old.bids \ {p} ELSE old.bids \cup {p}]
      BY <2>3 DEF Touches
    <3> HIDE DEF new
    <3>2. QED
      BY <1>2, <2>1, <2>2, <3>1 DEF Levels
  <2>4. CASE side = "asks"
    <3>1. new = [old EXCEPT !.asks = IF p \in old.asks THEN old.asks \ {p} ELSE old.asks \cup {p}]
      BY <2>4 DEF Touches
    <3> HIDE DEF new
    <3>2. QED
      BY <1>2, <2>1, <2>2, <3>1 DEF Levels
  <2>5. QED
    BY <2>3, <2>4 DEF Sides
<1> HIDE DEF new, old
<1>4. /\ hist' = Append(hist, new) /\ hist' \in Seq(Levels) /\ Len(hist') = Len(hist) + 1
      /\ hist'[Len(hist) + 1] = new
      /\ \A n \in 1 .. Len(hist) : hist'[n] = hist[n]
  BY <1>1, <1>2, <1>3 DEF HistOK, new, old
<1>5. UNCHANGED <<world, cut, conn, chan, book, resync, feed, stopped, faults>>
  BY DEF Update
<1>6. HistOK'
  BY <1>2, <1>3, <1>4, <1>5 DEF HistOK
<1>7. \A d : DiffOK(d) => d \in Diffs /\ d.pu >= 1 /\ d.U = d.pu + 1 /\ d.U <= d.u /\ d.u <= Len(hist')
  BY <1>2, <1>4 DEF DiffOK, HistOK, Diffs
<1>8. FeedOK'
  <2>1. \A i \in 1 .. Len(chan) : DiffOK(chan[i])'
    BY <1>4, <1>5, <1>7 DEF BookInv, FeedOK, DiffOK
  <2>2. resync.pc = "answer" => SnapOK(resync.snap)'
    BY <1>2, <1>4, <1>5 DEF BookInv, FeedOK, SnapOK, HistOK
  <2>3. QED
    BY <1>5, <2>1, <2>2 DEF BookInv, FeedOK
<1>9. BookOK(book)'
  <2>1. \A i \in 1 .. Len(book.buffer) : DiffOK(book.buffer[i])'
    BY <1>4, <1>5, <1>7 DEF BookInv, BookOK, DiffOK
  <2>2. book.snapshotId # 0 /\ book.status # "RESYNC_REQUIRED" => Matches(book, At(book))'
    BY <1>2, <1>4, <1>5 DEF BookInv, BookOK, Matches, HistOK, At
  <2>3. QED
    BY <1>5, <2>1, <2>2 DEF BookInv, BookOK
<1>10. QED
  BY <1>5, <1>6, <1>8, <1>9 DEF BookInv, SomebodyRebuilds

(* Nothing happened at the exchange: what holds of the new book with the   *)
(* old history holds afterwards.                                           *)
LEMMA SameHistory ==
  ASSUME BookInv, UNCHANGED <<world, hist>>, cut' \in 1 .. Len(hist), BookOK(book')
  PROVE  HistOK' /\ BookOK(book)'
<1>1. HistOK'
  BY DEF BookInv, HistOK
<1>2. BookOK(book)'
  BY DEF BookOK, DiffOK, Matches, At
<1>3. QED
  BY <1>1, <1>2

(* The diffs under way after a step that takes one or all of them. *)
LEMMA ChanShrinks ==
  ASSUME BookInv, UNCHANGED hist, chan' = <<>> \/ chan' = chan \/ (chan # <<>> /\ chan' = Tail(chan))
  PROVE  chan' \in Seq(Diffs) /\ (\A i \in 1 .. Len(chan) : DiffOK(chan[i]))'
<1>1. chan \in Seq(Diffs) /\ \A i \in 1 .. Len(chan) : DiffOK(chan[i])
  BY DEF BookInv, FeedOK
<1>2. chan' \in Seq(Diffs)
  <2>1. <<>> \in Seq(Diffs) /\ (chan # <<>> => Tail(chan) \in Seq(Diffs))
    BY <1>1
  <2>2. QED
    BY <1>1, <2>1
<1>3. \A i \in 1 .. Len(chan') : \E j \in 1 .. Len(chan) : chan'[i] = chan[j]
  <2>1. CASE chan # <<>> /\ chan' = Tail(chan)
    <3>1. \A i \in 1 .. Len(chan') : chan'[i] = chan[i + 1] /\ i + 1 \in 1 .. Len(chan)
      BY <1>1, <2>1
    <3>2. QED
      BY <3>1
  <2>2. CASE chan' = chan
    BY <1>1, <2>2
  <2>3. CASE chan' = <<>>
    BY <2>3
  <2>4. QED
    BY <2>1, <2>2, <2>3
<1>4. QED
  BY <1>1, <1>2, <1>3 DEF DiffOK

(* A resync in flight goes on, or the empty book starts one. *)
LEMMA ResyncStep ==
  ASSUME BookInv, UNCHANGED <<hist, stopped>>, NEW b, BookOK(b), Resync(b)
  PROVE  /\ BookOK(book')
         /\ resync' \in [pc : {"idle", "delay", "answer"}, snap : Snaps]
         /\ (resync.pc = "answer" => SnapOK(resync.snap))'
         /\ ~stopped => resync'.pc # "idle"
<1>1. NoSnap \in Snaps
  BY DEF NoSnap, Snaps
<1>2. CASE resync.pc # "idle"
  BY <1>2 DEF Resync, BookInv, FeedOK, SnapOK
<1>3. CASE resync.pc = "idle"
  <2>1. book' = Empty /\ resync' = [pc |-> IF stopped THEN "idle" ELSE "delay", snap |-> NoSnap]
    BY <1>3 DEF Resync
  <2>2. QED
    BY <1>1, <2>1, EmptyOK
<1>4. QED
  BY <1>2, <1>3

(* The levels a snapshot has are the best ones. *)
LEMMA SnapshotTakenOK ==
  ASSUME BookInv, SnapshotTaken
  PROVE  resync'.snap \in Snaps /\ SnapOK(resync'.snap) /\ resync' = [pc |-> "answer", snap |-> resync'.snap]
<1> USE BookAssumption
<1> DEFINE now == hist[Len(hist)]
           Before(side, p) == {o \in now[side] : IF side = "bids" THEN o > p ELSE o < p}
           Top(side) == {p \in now[side] : Cardinality(Before(side, p)) < Depth}
           s == [id |-> Len(hist), bids |-> Top("bids"), asks |-> Top("asks")]
<1>1. resync' = [pc |-> "answer", snap |-> s]
  BY DEF SnapshotTaken
<1>2. /\ now \in Levels /\ Len(hist) \in 1 .. Len(hist)
      /\ IsFiniteSet(now.bids) /\ IsFiniteSet(now.asks)
  BY DEF BookInv, HistOK
<1>3. ASSUME NEW side \in Sides, NEW q \in Top(side), NEW p \in now[side],
             IF side = "bids" THEN p >= q ELSE p <= q
      PROVE  p \in Top(side)
  <2>1. now[side] \in SUBSET Int /\ IsFiniteSet(now[side])
    BY <1>2 DEF Levels, Sides
  <2>2. p \in Int /\ q \in Int
    BY <2>1
  <2>3. Before(side, p) \in SUBSET Before(side, q) /\ Before(side, q) \in SUBSET now[side]
    <3>1. ASSUME NEW o \in Before(side, p) PROVE o \in Before(side, q)
      <4>1. o \in now[side] /\ o \in Int /\ (IF side = "bids" THEN o > p ELSE o < p)
        BY <2>1, <3>1
      <4>2. IF side = "bids" THEN o > q ELSE o < q
        BY <1>3, <2>2, <4>1
      <4>3. QED
        BY <4>1, <4>2
    <3>2. QED
      BY <3>1
  <2> HIDE DEF Before, now
  <2>4. /\ Cardinality(Before(side, p)) <= Cardinality(Before(side, q))
        /\ Cardinality(Before(side, p)) \in Nat /\ Cardinality(Before(side, q)) \in Nat
    BY <2>1, <2>3, FS_Subset, FS_CardinalityType
  <2>5. QED
    BY <2>4
<1>4. s \in Snaps
  BY <1>2 DEF Levels, Snaps, HistOK, BookInv
<1>5. SnapOK(s)
  <2>1. s.id = Len(hist) /\ s.bids = Top("bids") /\ s.asks = Top("asks")
    OBVIOUS
  <2>2. s.bids \subseteq hist[s.id].bids /\ s.asks \subseteq hist[s.id].asks
    BY <2>1
  <2>3. \A q \in s.bids : \A p \in hist[s.id].bids : p >= q => p \in s.bids
    BY <1>3, <2>1 DEF Sides
  <2>4. \A q \in s.asks : \A p \in hist[s.id].asks : p <= q => p \in s.asks
    BY <1>3, <2>1 DEF Sides
  <2> HIDE DEF s
  <2>5. QED
    BY <1>2, <2>1, <2>2, <2>3, <2>4 DEF SnapOK
<1>6. QED
  BY <1>1, <1>4, <1>5

(* The first quotes of the exchange, and nothing subscribed. *)
LEMMA InvInit == Init => BookInv
<1> SUFFICES ASSUME Init PROVE BookInv
  OBVIOUS
<1> USE BookAssumption
<1>1. HistOK
  <2>1. /\ [bids |-> {}, asks |-> {}] \in Levels /\ [bids |-> {1}, asks |-> {3}] \in Levels
        /\ IsFiniteSet({}) /\ IsFiniteSet({1}) /\ IsFiniteSet({3})
    BY FS_EmptySet, FS_Singleton DEF Levels
  <2>2. hist = <<[bids |-> {}, asks |-> {}], [bids |-> {1}, asks |-> {3}]>> /\ cut = 1
    BY DEF Init
  <2>3. /\ hist \in Seq(Levels) /\ Len(hist) = 2 /\ hist[1] = [bids |-> {}, asks |-> {}]
        /\ hist[2] = [bids |-> {1}, asks |-> {3}]
    BY <2>1, <2>2
  <2>4. \A i \in 1 .. Len(hist) : i = 1 \/ i = 2
    BY <2>3
  <2>5. /\ hist[1].bids = {} /\ hist[1].asks = {} /\ hist[2].bids = {1} /\ hist[2].asks = {3}
        /\ cut \in 1 .. Len(hist)
    BY <2>2, <2>3
  <2>6. \A i \in 1 .. Len(hist) : IsFiniteSet(hist[i].bids) /\ IsFiniteSet(hist[i].asks)
    BY <2>1, <2>4, <2>5
  <2>7. QED
    BY <2>3, <2>5, <2>6 DEF HistOK
<1>2. FeedOK
  <2>1. stopped \in BOOLEAN
    BY Zenon DEF Init
  <2>2. QED
    BY <2>1 DEF Init, FeedOK, NoSnap, Snaps
<1>3. BookOK(book) /\ SomebodyRebuilds
  BY EmptyOK DEF Init, SomebodyRebuilds
<1>4. QED
  BY <1>1, <1>2, <1>3 DEF BookInv

(* Every step of the exchange, the stream and the feed keeps the invariant. *)
LEMMA InvStep == BookInv /\ [Next]_vars => BookInv'
<1> SUFFICES ASSUME BookInv, [Next]_vars PROVE BookInv'
  OBVIOUS
<1> USE BookAssumption
<1>0. HistOK /\ FeedOK /\ BookOK(book) /\ SomebodyRebuilds /\ NoSnap \in Snaps /\ cut \in 1 .. Len(hist)
  BY DEF BookInv, NoSnap, Snaps, HistOK
<1>1. CASE Update
  BY <1>1, UpdateStep
<1>2. CASE Emit
  <2>1. UNCHANGED <<world, hist, conn, book, resync, feed, stopped>> /\ cut' \in 1 .. Len(hist) /\ cut \in Nat
    BY <1>0, <1>2 DEF Emit, HistOK
  <2>2. PICK bad \in BOOLEAN :
          /\ IF bad THEN Fault("malformed") ELSE UNCHANGED faults
          /\ chan' = IF conn = "live"
                     THEN Append(chan, [U |-> cut + 1, u |-> Len(hist), pu |-> cut, malformed |-> bad])
                     ELSE chan
    BY <1>2 DEF Emit
  <2> DEFINE d == [U |-> cut + 1, u |-> Len(hist), pu |-> cut, malformed |-> bad]
  <2>3. DiffOK(d)
    BY <1>0, <1>2, <2>1 DEF DiffOK, Diffs, Emit, HistOK
  <2>4. faults' \in 0 .. MaxFaults
    <3>1. faults' = faults \/ (faults < MaxFaults /\ faults' = faults + 1)
      BY <1>2 DEF Emit, Fault
    <3>2. faults \in 0 .. MaxFaults /\ MaxFaults \in Nat
      BY <1>0 DEF FeedOK
    <3>3. QED
      BY <3>1, <3>2
  <2>5. chan' \in Seq(Diffs) /\ \A i \in 1 .. Len(chan') : DiffOK(chan'[i])
    <3>1. chan \in Seq(Diffs) /\ (\A i \in 1 .. Len(chan) : DiffOK(chan[i])) /\ d \in Diffs
      BY <1>0, <2>3 DEF FeedOK, DiffOK
    <3> HIDE DEF d
    <3>2. chan' = Append(chan, d) \/ chan' = chan
      BY <2>2 DEF d
    <3>3. CASE chan' = Append(chan, d)
      <4>1. /\ chan' \in Seq(Diffs) /\ Len(chan') = Len(chan) + 1 /\ Len(chan) \in Nat
            /\ chan'[Len(chan) + 1] = d /\ \A i \in 1 .. Len(chan) : chan'[i] = chan[i]
        BY <3>1, <3>3
      <4>2. ASSUME NEW i \in 1 .. Len(chan') PROVE DiffOK(chan'[i])
        <5>1. i \in 1 .. Len(chan) \/ i = Len(chan) + 1
          BY <4>1
        <5>2. QED
          BY <2>3, <3>1, <4>1, <5>1
      <4>3. QED
        BY <4>1, <4>2
    <3>4. CASE chan' = chan
      BY <3>1, <3>4
    <3>5. QED
      BY <3>2, <3>3, <3>4
  <2>6. FeedOK'
    BY <1>0, <2>1, <2>4, <2>5 DEF FeedOK, DiffOK, SnapOK
  <2>7. HistOK' /\ BookOK(book)'
    BY <1>0, <2>1, SameHistory
  <2>8. QED
    BY <1>0, <2>1, <2>6, <2>7 DEF BookInv, SomebodyRebuilds
<1>3. CASE Lose
  <2>1. /\ UNCHANGED <<world, hist, cut, conn, book, resync, feed, stopped>>
        /\ chan # <<>> /\ chan' = Tail(chan) /\ faults' \in 0 .. MaxFaults
    BY <1>0, <1>3 DEF Lose, Fault, exchangeVars, FeedOK
  <2>2. FeedOK'
    BY <1>0, <2>1, ChanShrinks DEF FeedOK, SnapOK
  <2>3. HistOK' /\ BookOK(book)'
    BY <1>0, <2>1, SameHistory
  <2>4. QED
    BY <1>0, <2>1, <2>2, <2>3 DEF BookInv, SomebodyRebuilds
<1>4. CASE Connect
  <2>1. /\ UNCHANGED <<world, hist, cut, stopped, faults>> /\ Resync(book)
        /\ conn' = "live" /\ chan' = <<>> /\ feed' = "others"
    BY <1>4 DEF Connect, exchangeVars
  <2>2. /\ BookOK(book') /\ resync' \in [pc : {"idle", "delay", "answer"}, snap : Snaps]
        /\ (resync.pc = "answer" => SnapOK(resync.snap))'
        /\ ~stopped => resync'.pc # "idle"
    BY <1>0, <2>1, ResyncStep
  <2>3. FeedOK'
    BY <1>0, <2>1, <2>2, ChanShrinks DEF FeedOK
  <2>4. HistOK' /\ BookOK(book)'
    BY <1>0, <2>1, <2>2, SameHistory
  <2>5. QED
    BY <2>1, <2>2, <2>3, <2>4 DEF BookInv, SomebodyRebuilds
<1>5. CASE Reconnect
  <2>1. /\ UNCHANGED <<world, hist, cut, chan, feed, stopped, faults>> /\ Resync(book)
        /\ conn' = "live"
    BY <1>5 DEF Reconnect, exchangeVars
  <2>2. /\ BookOK(book') /\ resync' \in [pc : {"idle", "delay", "answer"}, snap : Snaps]
        /\ (resync.pc = "answer" => SnapOK(resync.snap))'
        /\ ~stopped => resync'.pc # "idle"
    BY <1>0, <2>1, ResyncStep
  <2>3. FeedOK'
    BY <1>0, <2>1, <2>2, ChanShrinks DEF FeedOK
  <2>4. HistOK' /\ BookOK(book)'
    BY <1>0, <2>1, <2>2, SameHistory
  <2>5. QED
    BY <2>1, <2>2, <2>3, <2>4 DEF BookInv, SomebodyRebuilds
<1>6. CASE ConnectEnd \/ ConnectFails \/ ConnectAgain \/ Stop
  <2>1. /\ UNCHANGED <<world, hist, cut, book, resync>> /\ (chan' = chan \/ chan' = <<>>)
        /\ conn' \in {conn, "none"} /\ feed' \in {"subscribing", "others", "up", "down"}
        /\ faults' \in 0 .. MaxFaults
    <3>1. CASE ConnectEnd
      BY <1>0, <3>1 DEF ConnectEnd, exchangeVars, FeedOK
    <3>2. CASE ConnectFails
      BY <1>0, <3>2 DEF ConnectFails, Fault, exchangeVars, FeedOK
    <3>3. CASE ConnectAgain
      BY <1>0, <3>3 DEF ConnectAgain, exchangeVars, FeedOK
    <3>4. CASE Stop
      BY <1>0, <3>4 DEF Stop, Fault, exchangeVars, FeedOK
    <3>5. QED
      BY <1>6, <3>1, <3>2, <3>3, <3>4
  <2>2. stopped' \in BOOLEAN /\ (stopped' = stopped \/ stopped')
    BY <1>0, <1>6, Zenon DEF ConnectEnd, ConnectFails, ConnectAgain, Stop, FeedOK
  <2>3. FeedOK'
    BY <1>0, <2>1, <2>2, ChanShrinks DEF FeedOK, SnapOK
  <2>4. HistOK' /\ BookOK(book)'
    BY <1>0, <2>1, <2>2, SameHistory
  <2>5. QED
    BY <1>0, <2>1, <2>2, <2>3, <2>4 DEF BookInv, SomebodyRebuilds
<1>7. CASE Drop
  <2>1. /\ UNCHANGED <<world, hist, cut, resync, feed, stopped>> /\ chan' = <<>>
        /\ conn' = "pending" /\ book' = Empty /\ faults' \in 0 .. MaxFaults
    BY <1>0, <1>7 DEF Drop, Fault, exchangeVars, FeedOK
  <2>2. FeedOK'
    BY <1>0, <2>1, ChanShrinks DEF FeedOK, SnapOK
  <2>3. HistOK' /\ BookOK(book)'
    BY <1>0, <2>1, EmptyOK, SameHistory
  <2>4. QED
    BY <2>1, <2>2, <2>3 DEF BookInv, SomebodyRebuilds
<1>8. CASE onDepth
  <2> DEFINE r == onDiff(book, Head(chan))
  <2>1. /\ UNCHANGED <<world, hist, cut, conn, feed, stopped, faults>>
        /\ chan # <<>> /\ chan' = Tail(chan)
        /\ IF r.result = "gap" THEN Resync(r.book) ELSE book' = r.book /\ UNCHANGED resync
    BY <1>8 DEF onDepth, exchangeVars
  <2>2. DiffOK(Head(chan))
    <3>1. Head(chan) = chan[1] /\ 1 \in 1 .. Len(chan)
      BY <1>0, <2>1 DEF FeedOK
    <3>2. QED
      BY <1>0, <3>1 DEF FeedOK
  <2>3. /\ BookOK(r.book) /\ r.book.snapshotId = book.snapshotId
        /\ r.book.status = "RESYNC_REQUIRED" /\ book.status # "RESYNC_REQUIRED" => r.result = "gap"
    BY <1>0, <2>2, OnDiffOK
  <2> HIDE DEF r
  <2>4. /\ BookOK(book') /\ resync' \in [pc : {"idle", "delay", "answer"}, snap : Snaps]
        /\ (resync.pc = "answer" => SnapOK(resync.snap))'
    <3>1. CASE r.result = "gap"
      BY <2>1, <2>3, <3>1, ResyncStep
    <3>2. CASE r.result # "gap"
      BY <1>0, <2>1, <2>3, <3>2 DEF FeedOK, SnapOK
    <3>3. QED
      BY <3>1, <3>2
  <2>5. SomebodyRebuilds'
    <3>1. CASE r.result = "gap"
      <4>1. ~stopped => resync'.pc # "idle"
        BY <2>1, <2>3, <3>1, ResyncStep
      <4>2. QED
        BY <2>1, <4>1 DEF SomebodyRebuilds
    <3>2. CASE r.result # "gap"
      BY <1>0, <2>1, <2>3, <3>2 DEF SomebodyRebuilds
    <3>3. QED
      BY <3>1, <3>2
  <2>6. FeedOK'
    BY <1>0, <2>1, <2>4, ChanShrinks DEF FeedOK
  <2>7. HistOK' /\ BookOK(book)'
    BY <1>0, <2>1, <2>4, SameHistory
  <2>8. QED
    BY <2>5, <2>6, <2>7 DEF BookInv
<1>9. CASE SnapshotTaken
  <2>1. UNCHANGED <<world, hist, cut, conn, chan, book, feed, stopped, faults>>
    BY <1>9 DEF SnapshotTaken, exchangeVars
  <2>2. /\ resync'.snap \in Snaps /\ SnapOK(resync'.snap)
        /\ resync' = [pc |-> "answer", snap |-> resync'.snap]
    BY <1>9, SnapshotTakenOK
  <2>3. SnapOK(resync.snap)' /\ resync'.pc = "answer"
    BY <2>1, <2>2 DEF SnapOK
  <2>4. FeedOK'
    BY <1>0, <2>1, <2>2, <2>3, ChanShrinks DEF FeedOK
  <2>5. HistOK' /\ BookOK(book)'
    BY <1>0, <2>1, SameHistory
  <2>6. QED
    BY <2>1, <2>3, <2>4, <2>5 DEF BookInv, SomebodyRebuilds
<1>10. CASE SnapshotAnswered
  <2> DEFINE r == loadSnapshot(book, resync.snap)
  <2>1. /\ UNCHANGED <<world, hist, cut, conn, chan, feed, stopped, faults>> /\ resync.pc = "answer"
        /\ IF r.result # "gap" /\ r.book.status # "RESYNC_REQUIRED"
           THEN book' = r.book /\ resync' = [pc |-> "idle", snap |-> NoSnap]
           ELSE book' = Empty /\ resync' = [pc |-> IF stopped THEN "idle" ELSE "delay", snap |-> NoSnap]
    BY <1>10 DEF SnapshotAnswered, Again, exchangeVars
  <2>2. BookOK(r.book) /\ r.book.snapshotId # 0
    <3>1. resync.snap \in Snaps /\ SnapOK(resync.snap) /\ resync.snap.id # 0
      BY <1>0, <2>1 DEF FeedOK, SnapOK, HistOK, Snaps
    <3>2. QED
      BY <1>0, <3>1, ReplayOK
  <2> HIDE DEF r
  <2>3. resync' \in [pc : {"idle", "delay", "answer"}, snap : Snaps] /\ resync'.pc # "answer"
    BY <1>0, <2>1
  <2>4. FeedOK'
    BY <1>0, <2>1, <2>3, ChanShrinks DEF FeedOK
  <2>5. BookOK(book')
    BY <2>1, <2>2, EmptyOK
  <2>6. HistOK' /\ BookOK(book)'
    BY <1>0, <2>1, <2>5, SameHistory
  <2>7. SomebodyRebuilds'
    BY <2>1, <2>2 DEF SomebodyRebuilds
  <2>8. QED
    BY <2>4, <2>6, <2>7 DEF BookInv
<1>11. CASE SnapshotFails
  <2>1. /\ UNCHANGED <<world, hist, cut, conn, chan, feed, stopped>> /\ book' = Empty
        /\ resync' = [pc |-> IF stopped THEN "idle" ELSE "delay", snap |-> NoSnap]
        /\ faults' \in 0 .. MaxFaults
    BY <1>0, <1>11 DEF SnapshotFails, Again, Fault, exchangeVars, FeedOK
  <2>2. resync' \in [pc : {"idle", "delay", "answer"}, snap : Snaps] /\ resync'.pc # "answer"
    BY <1>0, <2>1
  <2>3. FeedOK'
    BY <1>0, <2>1, <2>2, ChanShrinks DEF FeedOK
  <2>4. HistOK' /\ BookOK(book)'
    BY <1>0, <2>1, EmptyOK, SameHistory
  <2>5. QED
    BY <2>1, <2>3, <2>4 DEF BookInv, SomebodyRebuilds
<1>12. CASE Rest \/ UNCHANGED vars
  <2>1. UNCHANGED vars
    BY <1>12 DEF Rest
  <2>2. HistOK' /\ BookOK(book)'
    BY <1>0, <2>1, SameHistory DEF vars
  <2>3. FeedOK'
    BY <1>0, <2>1 DEF vars, FeedOK, DiffOK, SnapOK
  <2>4. QED
    BY <1>0, <2>1, <2>2, <2>3 DEF vars, BookInv, SomebodyRebuilds
<1>13. QED
  BY <1>1, <1>2, <1>3, <1>4, <1>5, <1>6, <1>7, <1>8, <1>9, <1>10, <1>11, <1>12 DEF Next

(* The invariant holds in every reachable state. *)
THEOREM BookInvariant == Spec => []BookInv
BY InvInit, InvStep, PTL DEF Spec

(* Every variable keeps its type, and the buffer of LocalOrderBook.ts its  *)
(* limit, in every behaviour.                                              *)
THEOREM TypeCorrect == Spec => []TypeOK
<1>1. BookInv => TypeOK
  BY DEF BookInv, HistOK, FeedOK, BookOK, TypeOK, Levels, Snaps, Books
<1>2. QED
  BY <1>1, BookInvariant, PTL

(* A book that is LIVE is the exchange's own at the last event applied     *)
(* (LocalOrderBook.apply, loadSnapshot and replay): it has no level too    *)
(* many, and within its coverage none too few.                             *)
THEOREM LiveExact == Spec => []LiveIsExact
<1>1. BookInv => LiveIsExact
  <2> SUFFICES ASSUME BookInv, book.status = "LIVE" PROVE LiveIsExact
    BY DEF LiveIsExact
  <2>1. Matches(book, book.lastU)
    BY DEF BookInv, BookOK, At
  <2>2. hist \in Seq(Levels) /\ DOMAIN hist = 1 .. Len(hist)
    BY DEF BookInv, HistOK
  <2>3. QED
    BY <2>1, <2>2 DEF Matches, LiveIsExact, Sides
<1>2. QED
  BY <1>1, BookInvariant, PTL

(* A book that has no snapshot, or that asked for a resync, is being       *)
(* rebuilt while the stream of MicrostructureFeed.ts is up.                *)
THEOREM Rebuilding == Spec => []SomebodyRebuilds
<1>1. BookInv => SomebodyRebuilds
  BY DEF BookInv
<1>2. QED
  BY <1>1, BookInvariant, PTL
=============================================================================
