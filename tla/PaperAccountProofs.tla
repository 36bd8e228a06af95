------------------------- MODULE PaperAccountProofs -------------------------
(***************************************************************************)
(* Proofs about the paper account for every set of symbols, every price,   *)
(* fee, slippage and funding rate: the equity it reports is the cash plus  *)
(* what is held, funding is charged once per boundary, a reset of the      *)
(* baseline is not undone by the running agent, and a move to a remote     *)
(* venue opens nothing twice.                                              *)
(*                                                                         *)
(* The book is one record that every call changes in one piece.  A call    *)
(* replaces one position and moves the wallet and the cash by as much as   *)
(* the position's stake changes; markAll and accrueFunding do that for     *)
(* each held position in turn.  Sums and folds over a finite set are       *)
(* recursive functions on its subsets: the recursion is shown to have a    *)
(* solution, and induction goes over the size of the subset.               *)
(***************************************************************************)
EXTENDS PaperAccount, FiniteSetTheorems, WellFoundedInduction, TLAPS

Fields == [pos : [Symbols -> Positions \cup {None}], wallet : Int, equity : Int, trades : 0 .. MaxTrades,
           slot : -1 .. slotOf(MaxClock), cash : Int, start : -1 .. slotOf(MaxClock)]

\* What a position has cost so far: its share of the difference of wallet and cash.
Stake(p) == IF p = None THEN 0 ELSE p.dir * p.cost + p.fee - p.funding
Value(p) == IF p = None THEN 0 ELSE p.dir * p.qty * p.mark

Profit(p) == (p.mark * p.qty - p.cost) * p.dir - p.fee + p.funding
Refreshed(b) == \A s \in Held(b) : b.pos[s].upnl = Profit(b.pos[s])
Balanced(b) == b.wallet = b.cash + SumFunction([s \in Symbols |-> Stake(b.pos[s])])
Synced(b) == b.equity = b.wallet + SumFunction([s \in Symbols |-> Upnl(b.pos[s])])
Listed(b) == Held(b) \subseteq world.symbols

\* Between two calls and, but for the equity, within one; at s within markOne.
Sound(b) == b \in Fields /\ Refreshed(b) /\ Balanced(b) /\ Listed(b)
Loose(b, s) ==
  /\ b \in Fields /\ Balanced(b) /\ Listed(b)
  /\ \A t \in Held(b) \ {s} : b.pos[t].upnl = Profit(b.pos[t])

\* What a call leaves of the history of a position.
Kept(p, q) ==
  q # None => q.born = p.born /\ q.opened = p.opened /\ q.charged = p.charged /\ q.scaled = p.scaled

Fresh(q) == q.born = clock /\ q.opened = clock /\ q.charged = 0 /\ q.scaled = FALSE

\* g folds h, or adds f up, over the subsets of S.
Pick(T) == CHOOSE x \in T : TRUE
Folds(g, S, base, h) ==
  \A T \in SUBSET S : g[T] = IF T = {} THEN base ELSE h[<<Pick(T), g[T \ {Pick(T)}]>>]
Adds(g, S, f) == g[{}] = 0 /\ \A T \in SUBSET S : T # {} => g[T] = f[Pick(T)] + g[T \ {Pick(T)}]

(* The naturals are well founded, in the form the provers can use. *)
LEMMA LeastNatural ==
  ASSUME NEW T \in SUBSET Nat, T # {}
  PROVE  \E m \in T : \A n \in T : m <= n
<1>1. \A n, k \in Nat : n < k => <<n, k>> \in OpToRel(<, Nat)
  BY DEF OpToRel
<1>2. PICK R : IsWellFoundedOn(R, Nat) /\ (\A n, k \in Nat : n < k => <<n, k>> \in R)
  BY <1>1, NatLessThanWellFounded
<1>3. PICK m \in T : \A n \in T : ~(<<n, m>> \in R)
  <2>1. IsWellFoundedOn(R, Nat) /\ T \subseteq Nat /\ T # {}
    BY <1>2
  <2>2. \E m \in T : \A n \in T : ~(<<n, m>> \in R)
    BY <2>1, WFMin, Zenon
  <2>3. QED
    BY <2>2
<1>4. \A n \in T : ~(n < m)
  BY <1>2, <1>3
<1>5. QED
  BY <1>4

(* Induction over the naturals, stated about a set instead of a predicate. *)
LEMMA InductionOverSet ==
  ASSUME NEW S \in SUBSET Nat, 0 \in S, \A n \in S : n + 1 \in S
  PROVE  S = Nat
<1>1. SUFFICES ASSUME Nat \ S # {} PROVE FALSE
  OBVIOUS
<1>2. PICK m \in Nat \ S : \A n \in Nat \ S : m <= n
  BY <1>1, LeastNatural
<1>3. m # 0 /\ m - 1 \in Nat /\ m - 1 \in S
  BY <1>2
<1>4. QED
  BY <1>2, <1>3

(* Among subsets of a finite set one is smallest: without any of its       *)
(* elements it is no longer among them.                                    *)
LEMMA SmallestSet ==
  ASSUME NEW S, IsFiniteSet(S), NEW D \in SUBSET (SUBSET S), D # {}
  PROVE  \E T \in D : \A x \in T : T \ {x} \notin D
<1> DEFINE N == {Cardinality(T) : T \in D}
<1>1. ASSUME NEW T \in D PROVE IsFiniteSet(T) /\ Cardinality(T) \in Nat
  BY FS_Subset, FS_CardinalityType
<1>2. N \in SUBSET Nat /\ N # {}
  BY <1>1
<1>3. PICK n \in N : \A k \in N : n <= k
  <2> HIDE DEF N
  <2>1. QED
    BY <1>2, LeastNatural
<1>4. PICK T \in D : Cardinality(T) = n
  BY <1>3
<1>5. ASSUME NEW x \in T, T \ {x} \in D PROVE FALSE
  <2>1. Cardinality(T \ {x}) = Cardinality(T) - 1
    BY <1>1, FS_RemoveElement
  <2>2. n <= Cardinality(T \ {x}) /\ Cardinality(T) \in Nat
    BY <1>1, <1>3, <1>5
  <2>3. QED
    BY <1>4, <2>1, <2>2
<1>6. QED
  BY <1>4, <1>5

(* What holds of {} and of T whenever it holds of T without its chosen     *)
(* element holds of every subset.                                          *)
LEMMA SubsetInduction ==
  ASSUME NEW S, IsFiniteSet(S), NEW C,
         {} \in C, \A T \in SUBSET S : T # {} /\ T \ {Pick(T)} \in C => T \in C
  PROVE  \A T \in SUBSET S : T \in C
<1> DEFINE D == (SUBSET S) \ C
<1>1. SUFFICES ASSUME D # {} PROVE FALSE
  OBVIOUS
<1>2. PICK T \in D : \A x \in T : T \ {x} \notin D
  <2>1. D \in SUBSET (SUBSET S)
    OBVIOUS
  <2> HIDE DEF D
  <2>2. QED
    BY <1>1, <2>1, SmallestSet
<1>3. T # {}
  BY <1>2
<1>4. Pick(T) \in T
  BY <1>3 DEF Pick
<1>5. QED
  BY <1>2, <1>3, <1>4

(* Recursion over the subsets of a finite set has a solution. *)
LEMMA FoldExists ==
  ASSUME NEW S, IsFiniteSet(S), NEW B, NEW base \in B, NEW h \in [S \X B -> B]
  PROVE  \E g \in [SUBSET S -> B] : Folds(g, S, base, h)
<1> DEFINE Sub(n) == {T \in SUBSET S : Cardinality(T) <= n}
           Eq(g, T) == g[T] = IF T = {} THEN base ELSE h[<<Pick(T), g[T \ {Pick(T)}]>>]
           Has(n) == \E g \in [Sub(n) -> B] : \A T \in Sub(n) : Eq(g, T)
           N == {n \in Nat : Has(n)}
<1>1. ASSUME NEW T \in SUBSET S PROVE IsFiniteSet(T) /\ Cardinality(T) \in Nat
  BY FS_Subset, FS_CardinalityType
<1>2. ASSUME NEW T \in SUBSET S, T # {}
      PROVE  Pick(T) \in S /\ T \ {Pick(T)} \in SUBSET S /\ Cardinality(T \ {Pick(T)}) = Cardinality(T) - 1
  <2>1. Pick(T) \in T
    BY <1>2 DEF Pick
  <2>2. QED
    BY <1>1, <2>1, FS_RemoveElement
<1>3. 0 \in N
  <2>1. ASSUME NEW T \in Sub(0) PROVE T = {}
    <3>1. IsFiniteSet(T) /\ Cardinality(T) = 0
      BY <1>1
    <3>2. QED
      BY <3>1, FS_EmptySet
  <2>2. [T \in Sub(0) |-> base] \in [Sub(0) -> B]
    OBVIOUS
  <2>3. \A T \in Sub(0) : Eq([U \in Sub(0) |-> base], T)
    BY <2>1
  <2>4. Has(0)
    BY <2>2, <2>3
  <2>5. QED
    BY <2>4
<1>4. ASSUME NEW n \in N PROVE n + 1 \in N
  <2>1. PICK f \in [Sub(n) -> B] : \A T \in Sub(n) : Eq(f, T)
    OBVIOUS
  <2> DEFINE g == [T \in Sub(n + 1) |-> IF T = {} THEN base ELSE h[<<Pick(T), f[T \ {Pick(T)}]>>]]
  <2>2. ASSUME NEW T \in Sub(n + 1), T # {} PROVE T \ {Pick(T)} \in Sub(n) /\ Pick(T) \in S
    BY <1>1, <1>2, <2>2
  <2>3. g \in [Sub(n + 1) -> B]
    <3>1. ASSUME NEW T \in Sub(n + 1) PROVE g[T] \in B
      BY <2>1, <2>2
    <3>2. QED
      BY <3>1
  <2>4. ASSUME NEW T \in Sub(n) PROVE T \in Sub(n + 1) /\ g[T] = f[T]
    <3>1. T \in Sub(n + 1)
      BY <1>1
    <3>2. QED
      BY <2>1, <3>1
  <2>5. ASSUME NEW T \in Sub(n + 1) PROVE Eq(g, T)
    <3>1. CASE T = {}
      BY <3>1
    <3>2. CASE T # {}
      <4>1. g[T \ {Pick(T)}] = f[T \ {Pick(T)}]
        <5>1. T \ {Pick(T)} \in Sub(n)
          BY <2>2, <3>2
        <5> HIDE DEF g, Sub
        <5>2. QED
          BY <2>4, <5>1
      <4>2. g[T] = h[<<Pick(T), f[T \ {Pick(T)}]>>]
        BY <3>2
      <4>3. QED
        BY <3>2, <4>1, <4>2
    <3>3. QED
      BY <3>1, <3>2
  <2>6. Has(n + 1)
    <3> HIDE DEF g, Eq, Sub
    <3>1. QED
      BY <2>3, <2>5
  <2>7. n + 1 \in Nat
    OBVIOUS
  <2>8. QED
    <3> HIDE DEF Has
    <3>1. QED
      BY <2>6, <2>7
<1>5. N = Nat
  <2>1. N \in SUBSET Nat
    OBVIOUS
  <2> HIDE DEF N
  <2>2. QED
    BY <1>3, <1>4, <2>1, InductionOverSet
<1>6. Cardinality(S) \in Nat /\ Sub(Cardinality(S)) = SUBSET S
  BY FS_Subset, FS_CardinalityType
<1>7. Has(Cardinality(S))
  <2>1. Cardinality(S) \in N
    BY <1>5, <1>6
  <2> HIDE DEF Has
  <2>2. QED
    BY <2>1
<1>8. QED
  BY <1>6, <1>7 DEF Folds

----------------------------------------------------------------------------
(* Sums over the symbols *)

(* A sum is the last value of a recursion over the subsets. *)
LEMMA SumUnfolds ==
  ASSUME NEW S, IsFiniteSet(S), NEW f \in [S -> Int]
  PROVE  \E g : SumFunction(f) = g[S] /\ Adds(g, S, f)
<1> DEFINE Eq(g) == g = [T \in SUBSET S |-> IF T = {} THEN 0 ELSE f[Pick(T)] + g[T \ {Pick(T)}]]
<1>1. SumFunction(f) = (CHOOSE g : Eq(g))[S]
  BY DEF SumFunction, SumFunctionOnSet, FoldFunctionOnSet, MapThenFoldSet, Pick
<1>2. \E g : Eq(g)
  <2> DEFINE h == [z \in S \X Int |-> f[z[1]] + z[2]]
  <2>1. h \in [S \X Int -> Int]
    OBVIOUS
  <2>2. \A x \in S, v \in Int : h[<<x, v>>] = f[x] + v
    OBVIOUS
  <2> HIDE DEF h
  <2>3. PICK g \in [SUBSET S -> Int] : Folds(g, S, 0, h)
    <3>1. 0 \in Int
      OBVIOUS
    <3>2. QED
      BY <2>1, <3>1, FoldExists, Zenon
  <2>4. ASSUME NEW T \in SUBSET S, T # {} PROVE g[T] = f[Pick(T)] + g[T \ {Pick(T)}]
    <3>1. Pick(T) \in S /\ T \ {Pick(T)} \in SUBSET S
      BY <2>4 DEF Pick
    <3>2. g[T \ {Pick(T)}] \in Int
      BY <3>1
    <3>3. QED
      BY <2>2, <2>3, <2>4, <3>1, <3>2 DEF Folds
  <2>5. \A T \in SUBSET S : g[T] = IF T = {} THEN 0 ELSE f[Pick(T)] + g[T \ {Pick(T)}]
    BY <2>3, <2>4 DEF Folds
  <2>6. Eq(g)
    BY <2>5
  <2>7. QED
    BY <2>6
<1>3. Eq(CHOOSE g : Eq(g))
  <2> HIDE DEF Eq
  <2>1. QED
    BY <1>2
<1>4. PICK g : Eq(g) /\ SumFunction(f) = g[S]
  BY <1>1, <1>3
<1>5. Adds(g, S, f)
  BY <1>4 DEF Adds
<1>6. QED
  BY <1>4, <1>5

(* A finite sum of integers is an integer. *)
LEMMA SumType ==
  ASSUME NEW S, IsFiniteSet(S), NEW f \in [S -> Int]
  PROVE  SumFunction(f) \in Int
<1>1. PICK g : SumFunction(f) = g[S] /\ Adds(g, S, f)
  BY SumUnfolds, Zenon
<1> DEFINE C == {T \in SUBSET S : g[T] \in Int}
<1>2. {} \in C
  BY <1>1 DEF Adds
<1>3. ASSUME NEW T \in SUBSET S, T # {}, T \ {Pick(T)} \in C PROVE T \in C
  <2>1. Pick(T) \in S
    BY <1>3 DEF Pick
  <2>2. g[T] = f[Pick(T)] + g[T \ {Pick(T)}]
    BY <1>1, <1>3 DEF Adds
  <2>3. QED
    BY <1>3, <2>1, <2>2
<1>4. S \in C
  <2> HIDE DEF C
  <2>1. QED
    BY <1>2, <1>3, SubsetInduction
<1>5. QED
  BY <1>1, <1>4

(* The sum of two functions, term by term, is the sum of their sums. *)
LEMMA SumPlus ==
  ASSUME NEW S, IsFiniteSet(S), NEW e \in [S -> Int], NEW f \in [S -> Int], NEW h \in [S -> Int],
         \A s \in S : h[s] = e[s] + f[s]
  PROVE  SumFunction(h) = SumFunction(e) + SumFunction(f)
<1>1. PICK i : SumFunction(e) = i[S] /\ Adds(i, S, e)
  BY SumUnfolds, Zenon
<1>2. PICK j : SumFunction(f) = j[S] /\ Adds(j, S, f)
  BY SumUnfolds, Zenon
<1>3. PICK k : SumFunction(h) = k[S] /\ Adds(k, S, h)
  BY SumUnfolds, Zenon
<1> DEFINE C == {T \in SUBSET S : i[T] \in Int /\ j[T] \in Int /\ k[T] = i[T] + j[T]}
<1>4. {} \in C
  BY <1>1, <1>2, <1>3 DEF Adds
<1>5. ASSUME NEW T \in SUBSET S, T # {}, T \ {Pick(T)} \in C PROVE T \in C
  <2>1. Pick(T) \in S
    BY <1>5 DEF Pick
  <2>2. h[Pick(T)] = e[Pick(T)] + f[Pick(T)] /\ e[Pick(T)] \in Int /\ f[Pick(T)] \in Int
    BY <2>1
  <2> DEFINE U == T \ {Pick(T)}
  <2>3. i[T] = e[Pick(T)] + i[U] /\ j[T] = f[Pick(T)] + j[U] /\ k[T] = h[Pick(T)] + k[U]
    BY <1>1, <1>2, <1>3, <1>5 DEF Adds
  <2>4. i[U] \in Int /\ j[U] \in Int /\ k[U] = i[U] + j[U]
    BY <1>5
  <2> HIDE DEF U
  <2>5. QED
    BY <2>2, <2>3, <2>4
<1>6. S \in C
  <2> HIDE DEF C
  <2>1. QED
    BY <1>4, <1>5, SubsetInduction
<1>7. QED
  BY <1>1, <1>2, <1>3, <1>6

(* A function that is zero everywhere but at one point sums to its value there. *)
LEMMA SumOne ==
  ASSUME NEW S, IsFiniteSet(S), NEW x \in S, NEW v \in Int, NEW f \in [S -> Int],
         f[x] = v, \A s \in S \ {x} : f[s] = 0
  PROVE  SumFunction(f) = v
<1>1. PICK g : SumFunction(f) = g[S] /\ Adds(g, S, f)
  BY SumUnfolds, Zenon
<1> DEFINE C == {T \in SUBSET S : g[T] = IF x \in T THEN v ELSE 0}
<1>2. {} \in C
  BY <1>1 DEF Adds
<1>3. ASSUME NEW T \in SUBSET S, T # {}, T \ {Pick(T)} \in C PROVE T \in C
  <2>1. Pick(T) \in T /\ Pick(T) \in S
    BY <1>3 DEF Pick
  <2>2. g[T] = f[Pick(T)] + g[T \ {Pick(T)}]
    BY <1>1, <1>3 DEF Adds
  <2>3. CASE Pick(T) = x
    BY <1>3, <2>1, <2>2, <2>3
  <2>4. CASE Pick(T) # x
    <3>1. f[Pick(T)] = 0 /\ (x \in T <=> x \in T \ {Pick(T)})
      BY <2>1, <2>4
    <3>2. QED
      BY <1>3, <2>2, <3>1
  <2>5. QED
    BY <2>3, <2>4
<1>4. S \in C
  <2> HIDE DEF C
  <2>1. QED
    BY <1>2, <1>3, SubsetInduction
<1>5. QED
  BY <1>1, <1>4

(* One summand is replaced. *)
LEMMA SumUpdate ==
  ASSUME NEW S, IsFiniteSet(S), NEW f \in [S -> Int], NEW h \in [S -> Int], NEW x \in S,
         \A s \in S \ {x} : h[s] = f[s]
  PROVE  SumFunction(h) = SumFunction(f) + (h[x] - f[x])
<1> DEFINE d == [s \in S |-> IF s = x THEN h[x] - f[x] ELSE 0]
<1>1. d \in [S -> Int] /\ d[x] = h[x] - f[x] /\ \A s \in S \ {x} : d[s] = 0
  OBVIOUS
<1>2. \A s \in S : h[s] = f[s] + d[s]
  BY <1>1
<1> HIDE DEF d
<1>3. SumFunction(d) = h[x] - f[x]
  BY <1>1, SumOne
<1>4. SumFunction(h) = SumFunction(f) + SumFunction(d)
  <2>1. d \in [S -> Int]
    BY <1>1
  <2>2. QED
    BY <1>2, <2>1, SumPlus
<1>5. QED
  BY <1>3, <1>4

----------------------------------------------------------------------------
(* Whole numbers *)

LEMMA Parameters ==
  /\ Initial \in Nat /\ Slip \in Nat /\ MaxClock \in Nat /\ MaxFills \in Nat /\ MaxFaults \in Nat /\ LiqPct \in Nat
  /\ FeeDiv \in Nat \ {0} /\ FundingDiv \in Nat \ {0} /\ Interval \in Nat \ {0} /\ MaxTrades \in Nat \ {0}
  BY PaperAssumption

(* The quotient of a division is the whole number below the ratio. *)
LEMMA Quotient ==
  ASSUME NEW a \in Int, NEW d \in Nat \ {0}
  PROVE  a \div d \in Int /\ d * (a \div d) <= a /\ a < d * (a \div d) + d
  OBVIOUS

(* A whole number below the ratio is below the quotient. *)
LEMMA QuotientLow ==
  ASSUME NEW a \in Int, NEW k \in Int, NEW d \in Nat \ {0}, k * d <= a PROVE k <= a \div d
<1> DEFINE q == a \div d
<1>1. q \in Int /\ d * q <= a /\ a < d * q + d
  BY Quotient
<1> HIDE DEF q
<1>2. k * d < q * d + d
  BY <1>1
<1>3. k < q + 1
  <2>1. SUFFICES ASSUME k >= q + 1 PROVE FALSE
    BY <1>1
  <2>2. k * d >= (q + 1) * d
    BY <1>1, <2>1
  <2>3. (q + 1) * d = q * d + d
    BY <1>1
  <2>4. QED
    BY <1>1, <1>2, <2>2, <2>3
<1>4. QED
  BY <1>1, <1>3 DEF q

(* A whole number above the ratio is above the quotient. *)
LEMMA QuotientHigh ==
  ASSUME NEW a \in Int, NEW k \in Int, NEW d \in Nat \ {0}, a <= k * d PROVE a \div d <= k
<1> DEFINE q == a \div d
<1>1. q \in Int /\ d * q <= a
  BY Quotient
<1> HIDE DEF q
<1>2. q * d <= k * d
  BY <1>1
<1>3. q <= k
  <2>1. SUFFICES ASSUME q >= k + 1 PROVE FALSE
    BY <1>1
  <2>2. q * d >= (k + 1) * d
    BY <1>1, <2>1
  <2>3. (k + 1) * d = k * d + d
    OBVIOUS
  <2>4. QED
    BY <1>1, <1>2, <2>2, <2>3
<1>4. QED
  BY <1>3 DEF q

(* Dividing keeps the order. *)
LEMMA QuotientMonotone ==
  ASSUME NEW a \in Int, NEW b \in Int, NEW d \in Nat \ {0}, a <= b PROVE a \div d <= b \div d
<1>1. (a \div d) \in Int /\ d * (a \div d) <= b
  BY Quotient
<1>2. (a \div d) * d <= b
  BY <1>1
<1>3. QED
  BY <1>1, <1>2, QuotientLow

(* A part's share of a cost or a fee is at most all of it, and all of it   *)
(* when the part is the whole.                                             *)
LEMMA Shares ==
  ASSUME NEW total \in Int, NEW q \in Nat \ {0}, NEW k \in 1 .. q
  PROVE  /\ share(total, k, q) \in Int
         /\ total >= 0 => share(total, k, q) \in 0 .. total
         /\ k = q => share(total, k, q) = total
<1>1. total * k \in Int /\ q \in Nat \ {0}
  OBVIOUS
<1>2. (total * k) \div q \in Int
  BY <1>1, Quotient
<1>3. ASSUME total >= 0 PROVE (total * k) \div q \in 0 .. total
  <2>1. 0 * q <= total * k
    BY <1>3
  <2>2. total * k <= total * q
    BY <1>3
  <2>3. 0 <= (total * k) \div q
    BY <1>1, <2>1, QuotientLow
  <2>4. (total * k) \div q <= total
    BY <1>1, <2>2, QuotientHigh
  <2>5. QED
    BY <1>2, <1>3, <2>3, <2>4
<1>4. ASSUME k = q PROVE (total * k) \div q = total
  <2>1. total <= (total * k) \div q
    <3>1. total * q <= total * k
      BY <1>4
    <3>2. QED
      BY <1>1, <3>1, QuotientLow
  <2>2. (total * k) \div q <= total
    <3>1. total * k <= total * q
      BY <1>4
    <3>2. QED
      BY <1>1, <3>1, QuotientHigh
  <2>3. QED
    BY <1>2, <2>1, <2>2
<1>5. QED
  BY <1>2, <1>3, <1>4 DEF share

(* The fee of an amount is an integer, never negative on a notional. *)
LEMMA Fees == ASSUME NEW a \in Int PROVE feeOf(a) \in Int /\ (a >= 0 => feeOf(a) \in Nat)
<1>1. FeeDiv \in Nat \ {0}
  BY Parameters
<1>2. a \div FeeDiv \in Int
  BY <1>1, Quotient
<1>3. a >= 0 => 0 <= a \div FeeDiv
  <2>1. a >= 0 => 0 * FeeDiv <= a
    BY <1>1
  <2>2. QED
    BY <1>1, <2>1, QuotientLow
<1>4. QED
  BY <1>2, <1>3 DEF feeOf

(* The funding slot of a time grows with the time. *)
LEMMA Slots ==
  ASSUME NEW a \in Int, NEW b \in Int, a <= b
  PROVE  slotOf(a) \in Int /\ slotOf(b) \in Int /\ slotOf(a) <= slotOf(b) /\ (a >= 0 => slotOf(a) >= 0)
<1>1. Interval \in Nat \ {0}
  BY Parameters
<1>2. a \div Interval \in Int /\ b \div Interval \in Int
  BY <1>1, Quotient
<1>3. a \div Interval <= b \div Interval
  BY <1>1, QuotientMonotone
<1>4. a >= 0 => 0 <= a \div Interval
  <2>1. a >= 0 => 0 * Interval <= a
    BY <1>1
  <2>2. QED
    BY <1>1, <2>1, QuotientLow
<1>5. QED
  BY <1>2, <1>3, <1>4 DEF slotOf

(* The greater of two integers is one of them and bounds both. *)
LEMMA Greater ==
  ASSUME NEW a \in Int, NEW b \in Int
  PROVE  Max({a, b}) \in {a, b} /\ Max({a, b}) >= a /\ Max({a, b}) >= b
<1>1. \E x \in {a, b} : \A y \in {a, b} : x >= y
  OBVIOUS
<1>2. QED
  BY <1>1 DEF Max

(* The smaller of two integers is one of them and is bounded by both. *)
LEMMA Smaller ==
  ASSUME NEW a \in Int, NEW b \in Int
  PROVE  Min({a, b}) \in {a, b} /\ Min({a, b}) <= a /\ Min({a, b}) <= b
<1>1. \E x \in {a, b} : \A y \in {a, b} : x <= y
  OBVIOUS
<1>2. QED
  BY <1>1 DEF Min

----------------------------------------------------------------------------
(* One position of the book *)

LEMMA PositionFields ==
  ASSUME NEW p \in Positions
  PROVE  /\ p # None /\ p.dir \in {1, -1} /\ p.qty \in Nat \ {0} /\ p.cost \in Nat /\ p.mark \in Nat
         /\ p.fee \in Nat /\ p.funding \in Int /\ p.upnl \in Int
         /\ p.opened \in 0 .. MaxClock /\ p.born \in 0 .. MaxClock
         /\ p.charged \in Nat /\ p.scaled \in BOOLEAN
         /\ p.stop \in Prices \cup {None} /\ p.target \in Prices \cup {None}
         /\ p.mark * p.qty \in Nat /\ Stake(p) \in Int /\ Value(p) \in Int /\ Profit(p) \in Int
<1>1. /\ p # None /\ p.dir \in {1, -1} /\ p.qty \in Nat \ {0} /\ p.cost \in Nat /\ p.mark \in Nat
      /\ p.fee \in Nat /\ p.funding \in Int /\ p.upnl \in Int
      /\ p.opened \in 0 .. MaxClock /\ p.born \in 0 .. MaxClock
      /\ p.charged \in Nat /\ p.scaled \in BOOLEAN
      /\ p.stop \in Prices \cup {None} /\ p.target \in Prices \cup {None}
  BY PaperAssumption DEF Positions
<1>2. p.mark * p.qty \in Nat
  BY <1>1
<1>3. p.dir * p.cost \in Int /\ p.dir * p.qty * p.mark \in Int /\ (p.mark * p.qty - p.cost) * p.dir \in Int
  BY <1>1
<1>4. QED
  BY <1>1, <1>2, <1>3 DEF Stake, Value, Profit

(* The three sums over a book, and how the value of a position splits into *)
(* its stake and its profit.                                               *)
LEMMA Totals ==
  ASSUME NEW b \in Fields
  PROVE  /\ \A s \in Symbols : b.pos[s] \in Positions \cup {None}
         /\ [s \in Symbols |-> Stake(b.pos[s])] \in [Symbols -> Int]
         /\ [s \in Symbols |-> Upnl(b.pos[s])] \in [Symbols -> Int]
         /\ [s \in Symbols |-> Value(b.pos[s])] \in [Symbols -> Int]
         /\ b.wallet \in Int /\ b.cash \in Int /\ b.equity \in Int
<1>1. /\ \A s \in Symbols : b.pos[s] \in Positions \cup {None}
      /\ b.wallet \in Int /\ b.cash \in Int /\ b.equity \in Int
  BY DEF Fields
<1>2. ASSUME NEW s \in Symbols
      PROVE  Stake(b.pos[s]) \in Int /\ Upnl(b.pos[s]) \in Int /\ Value(b.pos[s]) \in Int
  <2>1. CASE b.pos[s] = None
    BY <2>1 DEF Stake, Upnl, Value
  <2>2. CASE b.pos[s] \in Positions
    BY <2>2, PositionFields DEF Upnl
  <2>3. QED
    BY <1>1, <2>1, <2>2
<1>3. QED
  BY <1>1, <1>2

(* A marked position is worth its stake and its unrealised profit. *)
LEMMA ValueSplits ==
  ASSUME NEW p \in Positions, p.upnl = Profit(p) PROVE Value(p) = Stake(p) + p.upnl
<1>1. /\ p # None /\ p.dir \in {1, -1} /\ p.qty \in Nat /\ p.cost \in Nat /\ p.mark \in Nat
      /\ p.fee \in Nat /\ p.funding \in Int
  BY PositionFields
<1>2. p.dir * p.qty * p.mark = p.dir * p.cost + p.fee - p.funding
                               + ((p.mark * p.qty - p.cost) * p.dir - p.fee + p.funding)
  <2>1. CASE p.dir = 1
    BY <1>1, <2>1
  <2>2. CASE p.dir = -1
    BY <1>1, <2>2
  <2>3. QED
    BY <1>1, <2>1, <2>2
<1>3. QED
  BY <1>1, <1>2 DEF Value, Stake, Profit

(* refreshMetrics. *)
LEMMA RefreshedPosition ==
  ASSUME NEW p \in Positions
  PROVE  LET q == refreshMetrics(p) IN
         q \in Positions /\ q.upnl = Profit(q) /\ Stake(q) = Stake(p) /\ Kept(p, q)
<1>1. p # None /\ Profit(p) \in Int
  BY PositionFields
<1>2. refreshMetrics(p) = [p EXCEPT !.upnl = Profit(p)]
  BY DEF refreshMetrics, Profit
<1>3. refreshMetrics(p) \in Positions
  BY <1>1, <1>2 DEF Positions
<1>4. refreshMetrics(p) # None
  BY <1>3, PositionFields
<1>5. /\ refreshMetrics(p).upnl = Profit(p) /\ refreshMetrics(p).dir = p.dir
      /\ refreshMetrics(p).qty = p.qty /\ refreshMetrics(p).cost = p.cost
      /\ refreshMetrics(p).mark = p.mark /\ refreshMetrics(p).fee = p.fee
      /\ refreshMetrics(p).funding = p.funding /\ Kept(p, refreshMetrics(p))
  BY <1>1, <1>2 DEF Positions, Kept
<1>6. Profit(refreshMetrics(p)) = Profit(p) /\ Stake(refreshMetrics(p)) = Stake(p)
  BY <1>1, <1>4, <1>5 DEF Profit, Stake
<1>7. QED
  BY <1>3, <1>5, <1>6

(* A call replaces one position and moves the difference of wallet and     *)
(* cash by the change of its stake.                                        *)
LEMMA Swap ==
  ASSUME NEW s \in Symbols, s \in world.symbols, NEW b, Loose(b, s), NEW c \in Fields,
         \A t \in Symbols \ {s} : c.pos[t] = b.pos[t],
         c.pos[s] # None => c.pos[s].upnl = Profit(c.pos[s]),
         c.wallet - c.cash = b.wallet - b.cash + (Stake(c.pos[s]) - Stake(b.pos[s]))
  PROVE  Sound(c)
<1> DEFINE f == [t \in Symbols |-> Stake(b.pos[t])]
           h == [t \in Symbols |-> Stake(c.pos[t])]
<1>1. b \in Fields /\ b.wallet = b.cash + SumFunction(f)
  BY DEF Loose, Balanced
<1>2. f \in [Symbols -> Int] /\ h \in [Symbols -> Int] /\ b.wallet \in Int /\ b.cash \in Int
      /\ c.wallet \in Int /\ c.cash \in Int
  BY <1>1, Totals
<1>3. \A t \in Symbols \ {s} : h[t] = f[t]
  OBVIOUS
<1>4. h[s] = Stake(c.pos[s]) /\ f[s] = Stake(b.pos[s]) /\ h[s] \in Int /\ f[s] \in Int
  BY <1>2
<1>5. IsFiniteSet(Symbols)
  BY PaperAssumption
<1>6. Balanced(c) <=> c.wallet = c.cash + SumFunction(h)
  BY DEF Balanced
<1>7. Balanced(c)
  <2> HIDE DEF f, h
  <2>1. SumFunction(h) = SumFunction(f) + (h[s] - f[s]) /\ SumFunction(f) \in Int
    BY <1>2, <1>3, <1>5, SumUpdate, SumType
  <2>2. QED
    BY <1>1, <1>2, <1>4, <1>6, <2>1
<1>8. Refreshed(c)
  BY DEF Refreshed, Held, Loose
<1>9. Listed(c)
  BY DEF Listed, Held, Loose
<1>10. QED
  BY <1>7, <1>8, <1>9 DEF Sound

(* reduce: a partial or a close, by the calls, by a flip, a stop, a target *)
(* or a liquidation.                                                       *)
LEMMA ReduceSound ==
  ASSUME NEW s \in Symbols, s \in world.symbols, NEW b, Loose(b, s), b.pos[s] \in Positions,
         NEW n \in Nat \ {0}, NEW raw \in Int
  PROVE  /\ Sound(reduce(b, s, n, raw))
         /\ reduce(b, s, n, raw).slot = b.slot /\ reduce(b, s, n, raw).start = b.start
         /\ \A t \in Symbols \ {s} : reduce(b, s, n, raw).pos[t] = b.pos[t]
         /\ Kept(b.pos[s], reduce(b, s, n, raw).pos[s])
         /\ n >= b.pos[s].qty => reduce(b, s, n, raw).pos[s] = None
<1> DEFINE p == b.pos[s]
           k == Min({p.qty, n})
           price == fillPrice(p.dir, raw, FALSE)
           cost == share(p.cost, k, p.qty)
           fee == share(p.fee, k, p.qty)
           funding == share(p.funding, k, p.qty)
           rest == [p EXCEPT !.qty = p.qty - k, !.cost = p.cost - cost, !.fee = p.fee - fee,
                             !.funding = p.funding - funding]
           last1 == remaining(rest)
           c == reduce(b, s, n, raw)
<1>1. /\ p \in Positions /\ p # None /\ p.dir \in {1, -1} /\ p.qty \in Nat \ {0} /\ p.cost \in Nat
      /\ p.fee \in Nat /\ p.funding \in Int
  BY PositionFields
<1>2. k \in 1 .. p.qty /\ (n >= p.qty => k = p.qty)
  <2>1. p.qty \in Int /\ n \in Int
    BY <1>1
  <2>2. k \in {p.qty, n} /\ k <= p.qty /\ k <= n
    <3> HIDE DEF p
    <3>1. QED
      BY <2>1, Smaller
  <2> HIDE DEF p, k
  <2>3. QED
    BY <1>1, <2>2
<1>3. price \in Int
  <2>1. Slip \in Nat
    BY Parameters
  <2>2. (-(p.dir)) * Slip \in Int
    BY <1>1, <2>1
  <2>3. QED
    BY <2>2 DEF fillPrice
<1>4. /\ cost \in Int /\ fee \in Int /\ funding \in Int
      /\ cost \in 0 .. p.cost /\ fee \in 0 .. p.fee
      /\ k = p.qty => cost = p.cost /\ fee = p.fee /\ funding = p.funding
  <2> HIDE DEF p, k
  <2>1. p.cost \in Int /\ p.fee \in Int /\ p.cost >= 0 /\ p.fee >= 0
    BY <1>1
  <2>2. cost \in Int /\ cost \in 0 .. p.cost /\ (k = p.qty => cost = p.cost)
    BY <1>1, <1>2, <2>1, Shares
  <2>3. fee \in Int /\ fee \in 0 .. p.fee /\ (k = p.qty => fee = p.fee)
    BY <1>1, <1>2, <2>1, Shares
  <2>4. funding \in Int /\ (k = p.qty => funding = p.funding)
    BY <1>1, <1>2, Shares
  <2>5. QED
    BY <2>2, <2>3, <2>4
<1>5. price * k \in Int /\ feeOf(price * k) \in Int
  <2> HIDE DEF p, k, price
  <2>1. price * k \in Int
    BY <1>1, <1>2, <1>3
  <2>2. QED
    BY <2>1, Fees
<1>6. c = [b EXCEPT !.wallet = @ + (price * k - cost) * p.dir - fee - feeOf(price * k) + funding,
                    !.trades = Min({@ + 1, MaxTrades}),
                    !.cash = @ + p.dir * price * k - feeOf(price * k),
                    !.pos[s] = last1]
  BY DEF reduce
<1>7. /\ b \in Fields /\ b.wallet \in Int /\ b.cash \in Int /\ b.trades \in 0 .. MaxTrades
      /\ MaxTrades \in Nat /\ b.pos \in [Symbols -> Positions \cup {None}]
  BY Parameters DEF Loose, Fields
<1>8. /\ last1 \in Positions \cup {None} /\ Kept(p, last1)
      /\ last1 # None => last1.upnl = Profit(last1)
      /\ n >= p.qty => last1 = None
      /\ Stake(last1) = Stake(p) - (p.dir * cost + fee - funding)
  <2>0. rest.qty = p.qty - k
    BY <1>1 DEF Positions
  <2>1. CASE k = p.qty
    <3>1. p.qty - k = 0
      BY <1>1, <1>2, <2>1
    <3>2. last1 = None
      BY <2>0, <3>1 DEF remaining
    <3>3. Stake(None) = 0 /\ Stake(p) = p.dir * cost + fee - funding
      BY <1>1, <1>4, <2>1 DEF Stake
    <3>4. p.dir * cost + fee - funding \in Int
      BY <1>1, <1>4
    <3> HIDE DEF last1, cost, fee, funding, p
    <3>5. QED
      BY <3>2, <3>3, <3>4 DEF Kept
  <2>2. CASE k # p.qty
    <3>1. p.qty - k \in Nat \ {0} /\ p.cost - cost \in Nat /\ p.fee - fee \in Nat /\ p.funding - funding \in Int
      <4> HIDE DEF p, k, cost, fee, funding
      <4>1. QED
        BY <1>1, <1>2, <1>4, <2>2
    <3>2. /\ rest \in Positions
          /\ rest.dir = p.dir /\ rest.cost = p.cost - cost /\ rest.fee = p.fee - fee
          /\ rest.funding = p.funding - funding
          /\ rest.born = p.born /\ rest.opened = p.opened /\ rest.charged = p.charged /\ rest.scaled = p.scaled
      <4> HIDE DEF p, k, cost, fee, funding
      <4>1. QED
        BY <1>1, <3>1 DEF Positions
    <3>3. last1 = refreshMetrics(rest)
      BY <2>0, <3>1 DEF remaining
    <3>4. /\ last1 \in Positions /\ last1.upnl = Profit(last1) /\ Stake(last1) = Stake(rest)
          /\ Kept(rest, last1)
      <4> HIDE DEF rest, last1
      <4>1. QED
        BY <3>2, <3>3, RefreshedPosition
    <3>5. Stake(rest) = Stake(p) - (p.dir * cost + fee - funding)
      <4>1. rest # None
        BY <3>2, PositionFields
      <4>2. /\ Stake(rest) = rest.dir * rest.cost + rest.fee - rest.funding
            /\ Stake(p) = p.dir * p.cost + p.fee - p.funding
        BY <1>1, <4>1 DEF Stake
      <4>3. p.dir * (p.cost - cost) + (p.fee - fee) - (p.funding - funding)
            = p.dir * p.cost + p.fee - p.funding - (p.dir * cost + fee - funding)
        <5> HIDE DEF p, cost, fee, funding
        <5>1. QED
          BY <1>1, <1>4
      <4>4. Stake(rest) = p.dir * (p.cost - cost) + (p.fee - fee) - (p.funding - funding)
        <5> HIDE DEF p, rest, cost, fee, funding
        <5>1. QED
          BY <3>2, <4>2
      <4> HIDE DEF p, rest, cost, fee, funding
      <4>5. QED
        BY <1>1, <1>4, <4>2, <4>3, <4>4
    <3>6. ~(n >= p.qty)
      BY <1>2, <2>2
    <3> HIDE DEF p, k, rest, last1
    <3>7. QED
      BY <3>2, <3>4, <3>5, <3>6 DEF Kept
  <2>3. QED
    BY <2>1, <2>2
<1> HIDE DEF p, k, price, cost, fee, funding, rest, last1, c
<1>9. Min({b.trades + 1, MaxTrades}) \in 0 .. MaxTrades
  <2>1. b.trades + 1 \in Int /\ MaxTrades \in Int /\ b.trades + 1 >= 0
    BY <1>7
  <2>2. /\ Min({b.trades + 1, MaxTrades}) \in {b.trades + 1, MaxTrades}
        /\ Min({b.trades + 1, MaxTrades}) <= MaxTrades
    BY <2>1, Smaller
  <2>3. QED
    BY <1>7, <2>1, <2>2
<1>10. /\ b.wallet + (price * k - cost) * p.dir - fee - feeOf(price * k) + funding \in Int
       /\ b.cash + p.dir * price * k - feeOf(price * k) \in Int
  <2>1. (price * k - cost) * p.dir \in Int /\ p.dir * price * k \in Int
    BY <1>1, <1>2, <1>3, <1>4, <1>5
  <2>2. QED
    BY <1>4, <1>5, <1>7, <2>1
<1>11. c \in Fields
  BY <1>6, <1>7, <1>8, <1>9, <1>10 DEF Fields
<1>12. /\ c.wallet = b.wallet + (price * k - cost) * p.dir - fee - feeOf(price * k) + funding
       /\ c.cash = b.cash + p.dir * price * k - feeOf(price * k)
       /\ c.pos[s] = last1 /\ \A t \in Symbols \ {s} : c.pos[t] = b.pos[t]
       /\ c.slot = b.slot /\ c.start = b.start
  BY <1>6, <1>7 DEF Fields
<1>13. c.wallet - c.cash = b.wallet - b.cash + (Stake(c.pos[s]) - Stake(b.pos[s]))
  <2>1. (price * k - cost) * p.dir - p.dir * price * k = -(p.dir * cost)
    <3>1. CASE p.dir = 1
      BY <1>2, <1>3, <1>4, <1>5, <3>1
    <3>2. CASE p.dir = -1
      BY <1>2, <1>3, <1>4, <1>5, <3>2
    <3>3. QED
      BY <1>1, <3>1, <3>2
  <2>2. (price * k - cost) * p.dir \in Int /\ p.dir * price * k \in Int /\ p.dir * cost \in Int
    BY <1>1, <1>2, <1>3, <1>4, <1>5
  <2>3. Stake(p) \in Int /\ Stake(last1) \in Int
    BY <1>1, <1>8, <2>2, <1>4, PositionFields
  <2>4. Stake(c.pos[s]) - Stake(b.pos[s]) = -(p.dir * cost + fee - funding)
    BY <1>4, <1>8, <1>12, <2>2, <2>3 DEF p
  <2>5. QED
    BY <1>4, <1>5, <1>7, <1>12, <2>1, <2>2, <2>4
<1>14. Sound(c)
  BY <1>8, <1>11, <1>12, <1>13, Swap
<1>15. QED
  BY <1>8, <1>12, <1>14 DEF c, p

(* A sound book is sound with the mark of any one symbol left open. *)
LEMMA SoundIsLoose == ASSUME NEW b, NEW s, Sound(b) PROVE Loose(b, s) /\ b \in Fields
  BY DEF Sound, Loose, Refreshed

(* createPosition: the first lot, and the new side of a flip. *)
LEMMA CreateSound ==
  ASSUME NEW s \in Symbols, s \in world.symbols, NEW b, Sound(b), b.pos[s] = None,
         NEW dir \in {1, -1}, NEW n \in Nat \ {0}, NEW price \in Nat,
         NEW stop \in Prices \cup {None}, NEW target \in Prices \cup {None}, clock \in 0 .. MaxClock
  PROVE  LET c == createPosition(b, s, dir, n, price, stop, target) IN
         /\ Sound(c) /\ c.slot = b.slot /\ c.start = b.start
         /\ \A t \in Symbols \ {s} : c.pos[t] = b.pos[t]
         /\ c.pos[s] \in Positions /\ Fresh(c.pos[s])
<1> DEFINE c == createPosition(b, s, dir, n, price, stop, target)
           fee == feeOf(price * n)
           p == [dir |-> dir, qty |-> n, cost |-> price * n, mark |-> price, fee |-> fee,
                 funding |-> 0, upnl |-> 0, opened |-> clock, stop |-> stop, target |-> target,
                 born |-> clock, charged |-> 0, scaled |-> FALSE]
           q == refreshMetrics(p)
<1>1. price * n \in Nat
  OBVIOUS
<1>2. fee \in Nat
  BY <1>1, Fees
<1>3. p \in Positions /\ p # None
  <2> HIDE DEF fee
  <2>1. p \in Positions
    BY <1>1, <1>2 DEF Positions
  <2>2. QED
    BY <2>1, PositionFields
<1>4. q \in Positions /\ q.upnl = Profit(q) /\ Stake(q) = Stake(p) /\ Kept(p, q)
  <2> HIDE DEF p
  <2>1. QED
    BY <1>3, RefreshedPosition
<1>5. Stake(p) = dir * (price * n) + fee
  BY <1>1, <1>2, <1>3 DEF Stake
<1>6. q # None /\ q.born = clock /\ q.opened = clock /\ q.charged = 0 /\ q.scaled = FALSE
  <2>1. q # None
    BY <1>4, PositionFields
  <2>2. p.born = clock /\ p.opened = clock /\ p.charged = 0 /\ p.scaled = FALSE
    OBVIOUS
  <2> HIDE DEF p, q
  <2>3. q.born = clock /\ q.opened = clock /\ q.charged = 0
    BY <1>4, <2>1, <2>2 DEF Kept
  <2>4. q.scaled = FALSE
    BY <1>4, <2>1, <2>2, Zenon DEF Kept
  <2>5. QED
    BY <2>1, <2>3, <2>4
<1>7. c = [b EXCEPT !.cash = @ - dir * price * n - fee, !.pos[s] = q]
  BY DEF createPosition
<1>8. /\ b \in Fields /\ Loose(b, s) /\ b.wallet \in Int /\ b.cash \in Int
      /\ b.pos \in [Symbols -> Positions \cup {None}]
  BY SoundIsLoose DEF Fields
<1> HIDE DEF c, fee, p, q
<1>9. dir * price * n = dir * (price * n) /\ dir * (price * n) \in Int
  BY <1>1
<1>10. c \in Fields
  <2>1. b.cash - dir * price * n - fee \in Int
    BY <1>2, <1>8, <1>9
  <2>2. QED
    BY <1>4, <1>7, <1>8, <2>1 DEF Fields
<1>11. /\ c.wallet = b.wallet /\ c.cash = b.cash - dir * price * n - fee
       /\ c.pos[s] = q /\ \A t \in Symbols \ {s} : c.pos[t] = b.pos[t]
       /\ c.slot = b.slot /\ c.start = b.start
  BY <1>7, <1>8 DEF Fields
<1>12. Stake(b.pos[s]) = 0 /\ Stake(c.pos[s]) = dir * (price * n) + fee
  BY <1>4, <1>5, <1>11 DEF Stake
<1>13. c.wallet - c.cash = b.wallet - b.cash + (Stake(c.pos[s]) - Stake(b.pos[s]))
  BY <1>2, <1>8, <1>9, <1>11, <1>12
<1>14. Sound(c)
  BY <1>4, <1>8, <1>10, <1>11, <1>13, Swap
<1>15. QED
  BY <1>4, <1>6, <1>11, <1>14 DEF c, Fresh

(* The averaged time of opening lies between the old one and now. *)
LEMMA Averaged ==
  ASSUME NEW o \in Nat, NEW t \in Nat, o <= t, NEW q \in Nat \ {0}, NEW n \in Nat \ {0}
  PROVE  (o * q + t * n) \div (q + n) \in o .. t
<1>1. o * n <= t * n /\ o * q <= t * q
  OBVIOUS
<1>2. o * (q + n) = o * q + o * n /\ t * (q + n) = t * q + t * n
  OBVIOUS
<1>3. o * (q + n) <= o * q + t * n /\ o * q + t * n <= t * (q + n) /\ o * q + t * n \in Int /\ q + n \in Nat \ {0}
  BY <1>1, <1>2
<1> DEFINE a == o * q + t * n
           d == q + n
<1>4. a \in Int /\ d \in Nat \ {0} /\ o * d <= a /\ a <= t * d
  BY <1>3
<1> HIDE DEF a, d
<1>5. a \div d \in Int /\ o <= a \div d /\ a \div d <= t
  BY <1>4, Quotient, QuotientLow, QuotientHigh
<1>6. QED
  BY <1>5 DEF a, d

(* scaleIn: another lot on the same side. *)
LEMMA ScaleSound ==
  ASSUME NEW s \in Symbols, s \in world.symbols, NEW b, Sound(b), b.pos[s] \in Positions,
         NEW n \in Nat \ {0}, NEW price \in Nat,
         NEW stop \in Prices \cup {None}, NEW target \in Prices \cup {None},
         clock \in 0 .. MaxClock, b.pos[s].opened <= clock
  PROVE  LET c == scaleIn(b, s, n, price, stop, target) IN
         /\ Sound(c) /\ c.slot = b.slot /\ c.start = b.start
         /\ \A t \in Symbols \ {s} : c.pos[t] = b.pos[t]
         /\ c.pos[s] \in Positions /\ c.pos[s].born = b.pos[s].born
         /\ c.pos[s].opened \in b.pos[s].opened .. clock
         /\ c.pos[s].charged = b.pos[s].charged /\ c.pos[s].scaled
<1> DEFINE c == scaleIn(b, s, n, price, stop, target)
           p == b.pos[s]
           fee == feeOf(price * n)
           opened == (p.opened * p.qty + clock * n) \div (p.qty + n)
           stop1 == IF stop = None THEN p.stop ELSE stop
           target1 == IF target = None THEN p.target ELSE target
           r == [p EXCEPT !.qty = p.qty + n, !.cost = p.cost + price * n, !.mark = price,
                          !.fee = p.fee + fee, !.opened = opened, !.stop = stop1,
                          !.target = target1, !.scaled = TRUE]
           q == refreshMetrics(r)
<1>1. price * n \in Nat
  OBVIOUS
<1>2. fee \in Nat
  BY <1>1, Fees
<1>3. /\ p \in Positions /\ p # None /\ p.dir \in {1, -1} /\ p.qty \in Nat \ {0} /\ p.cost \in Nat
      /\ p.fee \in Nat /\ p.funding \in Int /\ p.opened \in 0 .. MaxClock
      /\ p.stop \in Prices \cup {None} /\ p.target \in Prices \cup {None}
  BY PositionFields
<1>4. opened \in p.opened .. clock /\ opened \in 0 .. MaxClock
  <2> HIDE DEF p
  <2>1. p.opened \in Nat /\ clock \in Nat /\ p.opened <= clock
    BY <1>3 DEF p
  <2>2. opened \in p.opened .. clock
    BY <1>3, <2>1, Averaged
  <2> HIDE DEF opened
  <2>3. QED
    BY <1>3, <2>2, Parameters
<1>5. stop1 \in Prices \cup {None} /\ target1 \in Prices \cup {None}
  BY <1>3
<1>6. c = [b EXCEPT !.cash = @ - p.dir * price * n - fee, !.pos[s] = q]
  BY DEF scaleIn
<1> HIDE DEF c, p, fee, opened, stop1, target1
<1>7. p.qty + n \in Nat \ {0} /\ p.cost + price * n \in Nat /\ p.fee + fee \in Nat
  BY <1>1, <1>2, <1>3
<1>8. /\ r \in Positions /\ r.dir = p.dir /\ r.cost = p.cost + price * n /\ r.fee = p.fee + fee
      /\ r.funding = p.funding /\ r.born = p.born /\ r.opened = opened /\ r.charged = p.charged
  BY <1>3, <1>4, <1>5, <1>7 DEF Positions
<1>9. r.scaled
  BY <1>3 DEF Positions
<1> HIDE DEF r
<1>10. q \in Positions /\ q # None /\ q.upnl = Profit(q) /\ Stake(q) = Stake(r) /\ Kept(r, q)
  <2>1. q \in Positions /\ q.upnl = Profit(q) /\ Stake(q) = Stake(r) /\ Kept(r, q)
    BY <1>8, RefreshedPosition
  <2> HIDE DEF q
  <2>2. QED
    BY <2>1, PositionFields
<1>11. q.born = p.born /\ q.opened = opened /\ q.charged = p.charged /\ q.scaled
  <2> HIDE DEF q
  <2>1. q.born = p.born /\ q.opened = opened /\ q.charged = p.charged
    BY <1>8, <1>10 DEF Kept
  <2>2. q.scaled
    BY <1>9, <1>10, Zenon DEF Kept
  <2>3. QED
    BY <2>1, <2>2
<1> HIDE DEF q
<1>12. Stake(q) = Stake(p) + (p.dir * (price * n) + fee) /\ Stake(p) \in Int
  <2>1. r # None
    BY <1>8, PositionFields
  <2>2. /\ Stake(r) = p.dir * (p.cost + price * n) + (p.fee + fee) - p.funding
        /\ Stake(p) = p.dir * p.cost + p.fee - p.funding
    BY <1>3, <1>8, <2>1 DEF Stake
  <2>3. p.dir * (p.cost + price * n) = p.dir * p.cost + p.dir * (price * n)
    BY <1>1, <1>3
  <2>4. p.dir * p.cost \in Int /\ p.dir * (price * n) \in Int
    BY <1>1, <1>3
  <2>5. QED
    BY <1>2, <1>3, <1>10, <2>2, <2>3, <2>4
<1>13. /\ b \in Fields /\ Loose(b, s) /\ b.wallet \in Int /\ b.cash \in Int
       /\ b.pos \in [Symbols -> Positions \cup {None}]
  BY SoundIsLoose DEF Fields
<1>14. p.dir * price * n = p.dir * (price * n) /\ p.dir * (price * n) \in Int
  BY <1>1, <1>3
<1>15. c \in Fields
  <2>1. b.cash - p.dir * price * n - fee \in Int
    BY <1>2, <1>13, <1>14
  <2>2. QED
    BY <1>6, <1>10, <1>13, <2>1 DEF Fields
<1>16. /\ c.wallet = b.wallet /\ c.cash = b.cash - p.dir * price * n - fee
       /\ c.pos[s] = q /\ \A t \in Symbols \ {s} : c.pos[t] = b.pos[t]
       /\ c.slot = b.slot /\ c.start = b.start
  BY <1>6, <1>13 DEF Fields
<1>17. c.wallet - c.cash = b.wallet - b.cash + (Stake(c.pos[s]) - Stake(b.pos[s]))
  <2>1. Stake(c.pos[s]) - Stake(b.pos[s]) = p.dir * (price * n) + fee
    BY <1>2, <1>12, <1>14, <1>16 DEF p
  <2>2. QED
    BY <1>2, <1>13, <1>14, <1>16, <2>1
<1>18. Sound(c)
  BY <1>10, <1>13, <1>15, <1>16, <1>17, Swap
<1>19. QED
  BY <1>4, <1>10, <1>11, <1>16, <1>18 DEF c, p

(* markOne: a new price, and an exit when it reaches a level. *)
LEMMA MarkSound ==
  ASSUME NEW s \in Symbols, s \in world.symbols, NEW b, Sound(b), b.pos[s] \in Positions, NEW price \in Prices
  PROVE  LET c == markOne(b, s, price) IN
         /\ Sound(c) /\ c.slot = b.slot /\ c.start = b.start
         /\ \A t \in Symbols \ {s} : c.pos[t] = b.pos[t]
         /\ Kept(b.pos[s], c.pos[s])
<1> DEFINE p == [b.pos[s] EXCEPT !.mark = price]
           b1 == [b EXCEPT !.pos[s] = p]
           q == refreshMetrics(p)
           c == markOne(b, s, price)
           exit == findExit(p)
<1>1. /\ b \in Fields /\ Loose(b, s) /\ b.wallet \in Int /\ b.cash \in Int
      /\ b.pos \in [Symbols -> Positions \cup {None}]
  BY SoundIsLoose DEF Fields
<1>2. price \in Nat
  BY PaperAssumption
<1>3. /\ p \in Positions /\ Kept(b.pos[s], p)
      /\ p.dir = b.pos[s].dir /\ p.cost = b.pos[s].cost /\ p.fee = b.pos[s].fee /\ p.funding = b.pos[s].funding
  BY <1>2 DEF Positions, Kept
<1>4. p # None /\ b.pos[s] # None
  BY <1>3, PositionFields
<1>5. Stake(p) = Stake(b.pos[s]) /\ Stake(p) \in Int
  <2>1. Stake(p) = Stake(b.pos[s])
    BY <1>3, <1>4 DEF Stake
  <2>2. QED
    BY <1>3, <2>1, PositionFields
<1>6. c = IF exit = None THEN [b EXCEPT !.pos[s] = q] ELSE reduce(b1, s, p.qty, exit)
  BY DEF markOne
<1>7. exit # None => exit \in Int
  <2> HIDE DEF p
  <2>1. /\ p.mark \in Nat /\ p.qty \in Nat \ {0} /\ p.cost \in Nat /\ p.dir \in {1, -1}
        /\ p.target \in Prices \cup {None} /\ LiqPct \in Nat
    BY <1>3, PositionFields, Parameters
  <2>2. p.target # None => p.target \in Int
    BY <2>1, PaperAssumption
  <2> DEFINE num == p.cost * (100 - p.dir * LiqPct)
             den == 100 * p.qty
  <2>3. num \in Int /\ den \in Nat \ {0}
    <3>1. 100 - p.dir * LiqPct \in Int
      BY <2>1
    <3>2. QED
      BY <2>1, <3>1
  <2>4. num \div den \in Int
    <3> HIDE DEF num, den
    <3>1. QED
      BY <2>3, Quotient
  <2>5. exit \in {num \div den, p.mark, p.target, None}
        /\ (exit = p.target => p.target # None \/ exit = None)
    BY DEF findExit
  <2> HIDE DEF num, den, exit
  <2>6. QED
    BY <2>1, <2>2, <2>4, <2>5
<1> HIDE DEF p, q, c, exit
<1>8. /\ b1 \in Fields /\ b1.pos[s] = p /\ b1.slot = b.slot /\ b1.start = b.start
      /\ b1.wallet = b.wallet /\ b1.cash = b.cash
      /\ \A t \in Symbols \ {s} : b1.pos[t] = b.pos[t]
  BY <1>1, <1>3 DEF Fields
<1>9. Loose(b1, s)
  <2> DEFINE f == [t \in Symbols |-> Stake(b.pos[t])]
             h == [t \in Symbols |-> Stake(b1.pos[t])]
  <2> HIDE DEF b1
  <2>1. \A t \in Symbols : Stake(b1.pos[t]) = Stake(b.pos[t])
    BY <1>5, <1>8
  <2>2. f = h
    BY <2>1
  <2>3. Balanced(b1)
    <3>1. b.wallet = b.cash + SumFunction(f)
      BY <1>1 DEF Loose, Balanced
    <3>2. QED
      BY <1>8, <2>2, <3>1 DEF Balanced
  <2>4. Held(b1) = Held(b)
    BY <1>4, <1>8 DEF Held
  <2>5. Listed(b1)
    BY <1>1, <2>4 DEF Listed, Loose
  <2>6. \A t \in Held(b1) \ {s} : b1.pos[t].upnl = Profit(b1.pos[t])
    BY <1>1, <1>8, <2>4 DEF Loose, Held
  <2>7. QED
    BY <1>8, <2>3, <2>5, <2>6 DEF Loose
<1> HIDE DEF b1
<1>10. CASE exit = None
  <2>1. q \in Positions /\ q.upnl = Profit(q) /\ Stake(q) = Stake(p) /\ Kept(p, q)
    BY <1>3, RefreshedPosition DEF q
  <2>2. /\ c \in Fields /\ c.pos[s] = q /\ c.slot = b.slot /\ c.start = b.start
        /\ c.wallet = b.wallet /\ c.cash = b.cash
        /\ \A t \in Symbols \ {s} : c.pos[t] = b.pos[t]
    BY <1>1, <1>6, <1>10, <2>1 DEF Fields
  <2>3. c.wallet - c.cash = b.wallet - b.cash + (Stake(c.pos[s]) - Stake(b.pos[s]))
    BY <1>1, <1>5, <2>1, <2>2
  <2>4. Sound(c)
    BY <1>1, <2>1, <2>2, <2>3, Swap
  <2>5. q # None
    BY <2>1, PositionFields
  <2>6. Kept(b.pos[s], c.pos[s])
    <3>1. /\ q.born = b.pos[s].born /\ q.opened = b.pos[s].opened
          /\ q.charged = b.pos[s].charged
      BY <1>3, <1>4, <2>1, <2>5 DEF Kept
    <3>2. q.scaled = b.pos[s].scaled
      BY <1>3, <1>4, <2>1, <2>5, Zenon DEF Kept
    <3>3. QED
      BY <2>2, <3>1, <3>2 DEF Kept
  <2>7. QED
    BY <2>2, <2>4, <2>6 DEF c
<1>11. CASE exit # None
  <2>1. p.qty \in Nat \ {0} /\ exit \in Int /\ b1.pos[s] \in Positions /\ b1.pos[s].qty = p.qty
    BY <1>3, <1>7, <1>8, <1>11, PositionFields
  <2>2. c = reduce(b1, s, p.qty, exit)
    BY <1>6, <1>11
  <2>3. /\ Sound(c) /\ c.slot = b1.slot /\ c.start = b1.start
        /\ \A t \in Symbols \ {s} : c.pos[t] = b1.pos[t]
        /\ c.pos[s] = None
    BY <1>9, <2>1, <2>2, ReduceSound
  <2>4. QED
    BY <1>8, <2>3 DEF c, Kept
<1>12. QED
  BY <1>10, <1>11

(* accrueOne: the boundaries a position has not paid for yet. *)
Due(b, p) == Max({0, slotOf(clock) - Max({b.slot, slotOf(p.opened)})})
Charged(b, p, q) ==
  /\ q # None /\ q.born = p.born /\ q.opened = p.opened /\ q.scaled = p.scaled
  /\ q.charged = p.charged + Due(b, p)

(* Charging the funding due on one position keeps the book sound and touches that position alone. *)
LEMMA AccrueSound ==
  ASSUME NEW s \in Symbols, s \in world.symbols, NEW b, Sound(b), b.pos[s] \in Positions, clock \in 0 .. MaxClock
  PROVE  LET c == accrueOne(b, s) IN
         /\ Sound(c) /\ c.slot = b.slot /\ c.start = b.start
         /\ \A t \in Symbols \ {s} : c.pos[t] = b.pos[t]
         /\ Charged(b, b.pos[s], c.pos[s])
<1> DEFINE p == b.pos[s]
           top == Max({b.slot, slotOf(p.opened)})
           crossed == slotOf(clock) - (top + 1) + 1
           paid == (p.qty * p.mark * crossed * p.dir) \div FundingDiv
           q == [p EXCEPT !.funding = p.funding - paid, !.charged = p.charged + crossed]
           r == refreshMetrics(q)
           c == accrueOne(b, s)
<1>1. /\ b \in Fields /\ Loose(b, s) /\ b.wallet \in Int /\ b.cash \in Int /\ b.slot \in Int
      /\ b.pos \in [Symbols -> Positions \cup {None}]
  <2>1. slotOf(MaxClock) \in Int
    BY Slots, Parameters
  <2>2. QED
    BY <2>1, SoundIsLoose DEF Fields
<1>2. /\ p \in Positions /\ p # None /\ p.dir \in {1, -1} /\ p.qty \in Nat \ {0} /\ p.cost \in Nat
      /\ p.fee \in Nat /\ p.funding \in Int /\ p.mark \in Nat /\ p.charged \in Nat /\ p.opened \in 0 .. MaxClock
  BY PositionFields
<1>3. slotOf(clock) \in Int /\ slotOf(p.opened) \in Int
  <2>1. clock \in Int /\ p.opened \in Int
    BY <1>2, Parameters
  <2> HIDE DEF p
  <2>2. QED
    BY <2>1, Slots
<1>4. c = IF crossed <= 0 THEN b ELSE [b EXCEPT !.cash = @ - paid, !.pos[s] = r]
  BY DEF accrueOne, firstDue
<1>5. FundingDiv \in Nat \ {0}
  BY Parameters
<1> HIDE DEF p, c
<1>6. top \in Int
  BY <1>1, <1>3, Greater
<1> HIDE DEF top
<1>7. crossed \in Int /\ crossed = slotOf(clock) - top
  BY <1>3, <1>6
<1>8. Due(b, p) = IF crossed <= 0 THEN 0 ELSE crossed
  <2> DEFINE d == slotOf(clock) - top
  <2>1. Due(b, p) = Max({0, d})
    BY DEF Due, top
  <2>2. d \in Int /\ crossed = d /\ 0 \in Int
    BY <1>3, <1>6
  <2> HIDE DEF d, crossed
  <2>3. Max({0, d}) \in {0, d} /\ Max({0, d}) >= 0 /\ Max({0, d}) >= d
    BY <2>2, Greater
  <2>4. QED
    BY <2>1, <2>2, <2>3
<1>9. paid \in Int
  <2> HIDE DEF crossed
  <2>1. p.qty * p.mark * crossed \in Int
    BY <1>2, <1>7
  <2>2. p.qty * p.mark * crossed * p.dir \in Int
    BY <1>2, <2>1
  <2> DEFINE num == p.qty * p.mark * crossed * p.dir
  <2> HIDE DEF num
  <2>3. num \in Int => num \div FundingDiv \in Int
    BY <1>5, Quotient
  <2>4. QED
    BY <2>2, <2>3 DEF num
<1> HIDE DEF crossed, paid
<1>10. CASE crossed <= 0
  <2>1. c = b /\ Due(b, p) = 0
    BY <1>4, <1>8, <1>10
  <2>2. Charged(b, p, p)
    BY <1>2, <2>1 DEF Charged
  <2>3. QED
    BY <2>1, <2>2 DEF c, p
<1>11. CASE ~(crossed <= 0)
  <2>1. c = [b EXCEPT !.cash = @ - paid, !.pos[s] = r] /\ Due(b, p) = crossed /\ crossed \in Nat
    BY <1>4, <1>7, <1>8, <1>11
  <2>2. p.funding - paid \in Int /\ p.charged + crossed \in Nat
    BY <1>2, <1>9, <2>1
  <2>3. /\ q \in Positions /\ q.dir = p.dir /\ q.cost = p.cost /\ q.fee = p.fee /\ q.funding = p.funding - paid
        /\ q.born = p.born /\ q.opened = p.opened /\ q.charged = p.charged + crossed /\ q.scaled = p.scaled
    BY <1>2, <2>2 DEF Positions
  <2> HIDE DEF q
  <2>4. r \in Positions /\ r.upnl = Profit(r) /\ Stake(r) = Stake(q) /\ Kept(q, r)
    BY <2>3, RefreshedPosition
  <2> HIDE DEF r
  <2>5. r # None /\ q # None
    BY <2>3, <2>4, PositionFields
  <2>6. Stake(r) = Stake(p) + paid /\ Stake(p) \in Int
    <3>1. Stake(q) = p.dir * p.cost + p.fee - (p.funding - paid) /\ Stake(p) = p.dir * p.cost + p.fee - p.funding
      BY <1>2, <2>3, <2>5 DEF Stake
    <3>2. p.dir * p.cost \in Int
      BY <1>2
    <3>3. QED
      BY <1>2, <1>9, <2>4, <3>1, <3>2
  <2>7. b.cash - paid \in Int
    BY <1>1, <1>9
  <2>8. /\ c \in Fields /\ c.pos[s] = r /\ c.slot = b.slot /\ c.start = b.start
        /\ c.wallet = b.wallet /\ c.cash = b.cash - paid
        /\ \A t \in Symbols \ {s} : c.pos[t] = b.pos[t]
    BY <1>1, <2>1, <2>4, <2>7 DEF Fields
  <2>9. c.wallet - c.cash = b.wallet - b.cash + (Stake(c.pos[s]) - Stake(b.pos[s]))
    <3>1. Stake(c.pos[s]) - Stake(b.pos[s]) = paid
      BY <1>9, <2>6, <2>8 DEF p
    <3>2. QED
      BY <1>1, <1>9, <2>8, <3>1
  <2>10. Sound(c)
    BY <1>1, <2>4, <2>8, <2>9, Swap
  <2>11. Charged(b, p, r)
    <3>1. r.born = p.born /\ r.opened = p.opened /\ r.charged = p.charged + crossed
      BY <2>3, <2>4, <2>5 DEF Kept
    <3>2. r.scaled = p.scaled
      BY <2>3, <2>4, <2>5, Zenon DEF Kept
    <3>3. QED
      BY <2>1, <2>5, <3>1, <3>2 DEF Charged
  <2>12. QED
    BY <2>8, <2>10, <2>11 DEF c, p
<1>12. QED
  BY <1>10, <1>11

----------------------------------------------------------------------------
(* The two calls that go over the held positions *)

(* markAll's loop.  The marks of the positions not visited yet are the     *)
(* old ones, so each step marks a position that is held.                   *)
LEMMA MarkAllSound ==
  ASSUME world \in Worlds, Sound(book), NEW prices \in [world.symbols -> world.prices]
  PROVE  LET c == FoldSet(LAMBDA s, b : markOne(b, s, prices[s]), book, Held(book)) IN
         /\ Sound(c) /\ c.slot = book.slot /\ c.start = book.start
         /\ \A s \in Symbols : IF book.pos[s] = None THEN c.pos[s] = None ELSE Kept(book.pos[s], c.pos[s])
<1> DEFINE S == Held(book)
           op(s, b) == markOne(b, s, prices[s])
           Eq(g) == g = [T \in SUBSET S |-> IF T = {} THEN book ELSE op(Pick(T), g[T \ {Pick(T)}])]
           c == FoldSet(LAMBDA s, b : markOne(b, s, prices[s]), book, Held(book))
           Part(b, T) ==
             /\ Sound(b) /\ b.slot = book.slot /\ b.start = book.start
             /\ \A s \in Symbols : IF s \in T THEN Kept(book.pos[s], b.pos[s]) ELSE b.pos[s] = book.pos[s]
           B == {b \in Fields : Sound(b)}
           h == [z \in S \X B |-> IF z[2].pos[z[1]] \in Positions THEN op(z[1], z[2]) ELSE z[2]]
<1>1. c = (CHOOSE g : Eq(g))[S]
  BY DEF FoldSet, MapThenFoldSet, Pick
<1>2. /\ IsFiniteSet(S) /\ S \subseteq world.symbols /\ S \subseteq Symbols
      /\ \A s \in S : book.pos[s] \in Positions /\ prices[s] \in Prices
  <2>1. S \subseteq Symbols /\ IsFiniteSet(Symbols)
    BY PaperAssumption DEF Held
  <2>2. IsFiniteSet(S)
    BY <2>1, FS_Subset
  <2>3. S \subseteq world.symbols
    BY DEF Sound, Listed
  <2>4. ASSUME NEW s \in S PROVE book.pos[s] \in Positions
    BY DEF Held, Sound, Fields
  <2>5. world.prices \subseteq Prices
    BY PaperAssumption
  <2>6. QED
    BY <2>1, <2>2, <2>3, <2>4, <2>5
<1>3. book \in Fields /\ book \in B
  BY DEF Sound
<1> HIDE DEF S, c
<1>4. ASSUME NEW s \in S, NEW b \in B, b.pos[s] \in Positions
      PROVE  /\ op(s, b) \in B /\ op(s, b).slot = b.slot /\ op(s, b).start = b.start
             /\ \A t \in Symbols \ {s} : op(s, b).pos[t] = b.pos[t]
             /\ Kept(b.pos[s], op(s, b).pos[s])
  <2>1. s \in Symbols /\ s \in world.symbols /\ prices[s] \in Prices /\ Sound(b)
    BY <1>2
  <2>2. /\ Sound(op(s, b)) /\ op(s, b).slot = b.slot /\ op(s, b).start = b.start
        /\ \A t \in Symbols \ {s} : op(s, b).pos[t] = b.pos[t]
        /\ Kept(b.pos[s], op(s, b).pos[s])
    BY <1>4, <2>1, MarkSound
  <2> HIDE DEF op
  <2>3. QED
    BY <2>2 DEF Sound
<1>5. h \in [S \X B -> B]
  <2>1. ASSUME NEW z \in S \X B
        PROVE  (IF z[2].pos[z[1]] \in Positions THEN op(z[1], z[2]) ELSE z[2]) \in B
    <3>1. z[1] \in S /\ z[2] \in B
      OBVIOUS
    <3> HIDE DEF op, B
    <3>2. QED
      BY <1>4, <3>1
  <2> HIDE DEF op, B
  <2>2. QED
    BY <2>1
<1>6. \A s \in S, b \in B : b.pos[s] \in Positions => h[<<s, b>>] = op(s, b)
  <2> HIDE DEF op, B
  <2>1. QED
    OBVIOUS
<1> HIDE DEF h
<1>7. ASSUME NEW T \in SUBSET S, T # {}
      PROVE  Pick(T) \in T /\ Pick(T) \in S /\ T \ {Pick(T)} \in SUBSET S /\ Pick(T) \notin T \ {Pick(T)}
  BY <1>7 DEF Pick
<1>8. ASSUME NEW T \in SUBSET S, T # {}, NEW b, Part(b, T \ {Pick(T)})
      PROVE  b \in B /\ b.pos[Pick(T)] \in Positions /\ Part(op(Pick(T), b), T)
  <2> DEFINE x == Pick(T)
  <2>1. x \in T /\ x \in S /\ x \in Symbols /\ x \notin T \ {x} /\ T \subseteq Symbols
    BY <1>2, <1>7, <1>8
  <2>2. b \in B
    BY <1>8 DEF Sound
  <2>3. b.pos[x] = book.pos[x] /\ b.pos[x] \in Positions
    BY <1>2, <1>8, <2>1
  <2> HIDE DEF x, op
  <2>4. /\ op(x, b) \in B /\ op(x, b).slot = b.slot /\ op(x, b).start = b.start
        /\ \A t \in Symbols \ {x} : op(x, b).pos[t] = b.pos[t]
        /\ Kept(book.pos[x], op(x, b).pos[x])
    BY <1>4, <2>1, <2>2, <2>3
  <2>5. Sound(op(x, b))
    BY <2>4
  <2>6. op(x, b).slot = book.slot /\ op(x, b).start = book.start
    BY <1>8, <2>4
  <2>7. ASSUME NEW s \in Symbols
        PROVE  IF s \in T THEN Kept(book.pos[s], op(x, b).pos[s]) ELSE op(x, b).pos[s] = book.pos[s]
    <3>1. CASE s = x
      BY <2>1, <2>4, <3>1
    <3>2. CASE s # x
      <4>1. op(x, b).pos[s] = b.pos[s] /\ (s \in T <=> s \in T \ {x})
        BY <2>4, <3>2
      <4>2. IF s \in T \ {x} THEN Kept(book.pos[s], b.pos[s]) ELSE b.pos[s] = book.pos[s]
        BY <1>8 DEF x
      <4>3. QED
        BY <4>1, <4>2
    <3>3. QED
      BY <3>1, <3>2
  <2>8. Part(op(x, b), T)
    BY <2>5, <2>6, <2>7
  <2> HIDE DEF Part, B
  <2>9. QED
    BY <2>2, <2>3, <2>8 DEF x
<1>9. Part(book, {})
  BY <1>2
<1>10. \E g : Eq(g)
  <2> HIDE DEF B
  <2>1. PICK g \in [SUBSET S -> B] : Folds(g, S, book, h)
    BY <1>2, <1>3, <1>5, FoldExists, Zenon
  <2> HIDE DEF op, Part
  <2> DEFINE C == {T \in SUBSET S : Part(g[T], T)}
  <2>2. g[{}] = book
    BY <2>1 DEF Folds
  <2>3. ASSUME NEW T \in SUBSET S, T # {}, Part(g[T \ {Pick(T)}], T \ {Pick(T)})
        PROVE  g[T] = op(Pick(T), g[T \ {Pick(T)}]) /\ Part(g[T], T)
    <3>1. g[T] = h[<<Pick(T), g[T \ {Pick(T)}]>>]
      BY <2>1, <2>3 DEF Folds
    <3>2. /\ g[T \ {Pick(T)}] \in B /\ g[T \ {Pick(T)}].pos[Pick(T)] \in Positions
          /\ Part(op(Pick(T), g[T \ {Pick(T)}]), T)
      BY <1>8, <2>3
    <3>3. g[T] = op(Pick(T), g[T \ {Pick(T)}])
      BY <1>6, <1>7, <2>3, <3>1, <3>2
    <3>4. QED
      BY <3>2, <3>3
  <2>4. \A T \in SUBSET S : T \in C
    <3>1. {} \in C
      BY <1>9, <2>2
    <3>2. \A T \in SUBSET S : T # {} /\ T \ {Pick(T)} \in C => T \in C
      BY <2>3
    <3> HIDE DEF C
    <3>3. QED
      BY <1>2, <3>1, <3>2, SubsetInduction
  <2>5. \A T \in SUBSET S : g[T] = IF T = {} THEN book ELSE op(Pick(T), g[T \ {Pick(T)}])
    <3>1. \A T \in SUBSET S : Part(g[T], T)
      BY <2>4
    <3>2. QED
      BY <1>7, <2>2, <2>3, <3>1
  <2>6. Eq(g)
    BY <2>5
  <2>7. QED
    BY <2>6
<1>11. PICK g : Eq(g) /\ c = g[S]
  <2> HIDE DEF Eq
  <2>1. Eq(CHOOSE g : Eq(g))
    BY <1>10
  <2>2. QED
    BY <1>1, <2>1
<1>12. Part(g[S], S)
  <2> HIDE DEF op, Part, B
  <2> DEFINE C == {T \in SUBSET S : Part(g[T], T)}
  <2>1. {} \in C
    <3>1. g[{}] = book
      BY <1>11
    <3>2. QED
      BY <1>9, <3>1
  <2>2. \A T \in SUBSET S : T # {} /\ T \ {Pick(T)} \in C => T \in C
    <3>1. SUFFICES ASSUME NEW T \in SUBSET S, T # {}, T \ {Pick(T)} \in C PROVE Part(g[T], T)
      OBVIOUS
    <3>2. g[T] = op(Pick(T), g[T \ {Pick(T)}])
      BY <1>11, <3>1
    <3>3. Part(g[T \ {Pick(T)}], T \ {Pick(T)})
      BY <3>1
    <3>4. QED
      BY <1>8, <3>1, <3>2, <3>3
  <2>3. S \in C
    <3> HIDE DEF C
    <3>1. QED
      BY <1>2, <2>1, <2>2, SubsetInduction
  <2>4. QED
    BY <2>3
<1>13. QED
  <2>1. Part(c, S)
    <3> HIDE DEF Part
    <3>1. QED
      BY <1>11, <1>12
  <2>2. \A s \in Symbols : s \in S <=> book.pos[s] # None
    BY DEF S, Held
  <2>3. \A s \in Symbols : IF book.pos[s] = None THEN c.pos[s] = None ELSE Kept(book.pos[s], c.pos[s])
    BY <2>1, <2>2
  <2>4. QED
    BY <2>1, <2>3 DEF c

(* accrueFunding's loop over the symbols whose rate is known. *)
LEMMA AccrueAllSound ==
  ASSUME clock \in 0 .. MaxClock, Sound(book), NEW rated \in SUBSET Held(book)
  PROVE  LET c == FoldSet(LAMBDA s, b : accrueOne(b, s), book, rated) IN
         /\ Sound(c) /\ c.slot = book.slot /\ c.start = book.start
         /\ \A s \in Symbols : IF s \in rated THEN Charged(book, book.pos[s], c.pos[s]) ELSE c.pos[s] = book.pos[s]
<1> DEFINE S == rated
           op(s, b) == accrueOne(b, s)
           Eq(g) == g = [T \in SUBSET S |-> IF T = {} THEN book ELSE op(Pick(T), g[T \ {Pick(T)}])]
           c == FoldSet(LAMBDA s, b : accrueOne(b, s), book, rated)
           Part(b, T) ==
             /\ Sound(b) /\ b.slot = book.slot /\ b.start = book.start
             /\ \A s \in Symbols : IF s \in T THEN Charged(book, book.pos[s], b.pos[s]) ELSE b.pos[s] = book.pos[s]
           B == {b \in Fields : Sound(b)}
           h == [z \in S \X B |-> IF z[2].pos[z[1]] \in Positions THEN op(z[1], z[2]) ELSE z[2]]
<1>1. c = (CHOOSE g : Eq(g))[S]
  BY DEF FoldSet, MapThenFoldSet, Pick
<1>2. /\ IsFiniteSet(S) /\ S \subseteq world.symbols /\ S \subseteq Symbols
      /\ \A s \in S : book.pos[s] \in Positions
  <2>1. S \subseteq Symbols /\ IsFiniteSet(Symbols) /\ S \subseteq Held(book)
    BY PaperAssumption DEF Held
  <2>2. IsFiniteSet(S)
    BY <2>1, FS_Subset
  <2>3. S \subseteq world.symbols
    BY <2>1 DEF Sound, Listed
  <2>4. ASSUME NEW s \in S PROVE book.pos[s] \in Positions
    BY <2>1 DEF Held, Sound, Fields
  <2>5. QED
    BY <2>1, <2>2, <2>3, <2>4
<1>3. book \in Fields /\ book \in B
  BY DEF Sound
<1> HIDE DEF S, c
<1>4. ASSUME NEW s \in S, NEW b \in B, b.pos[s] \in Positions
      PROVE  /\ op(s, b) \in B /\ op(s, b).slot = b.slot /\ op(s, b).start = b.start
             /\ \A t \in Symbols \ {s} : op(s, b).pos[t] = b.pos[t]
             /\ Charged(b, b.pos[s], op(s, b).pos[s])
  <2>1. s \in Symbols /\ s \in world.symbols /\ Sound(b)
    BY <1>2
  <2>2. /\ Sound(op(s, b)) /\ op(s, b).slot = b.slot /\ op(s, b).start = b.start
        /\ \A t \in Symbols \ {s} : op(s, b).pos[t] = b.pos[t]
        /\ Charged(b, b.pos[s], op(s, b).pos[s])
    BY <1>4, <2>1, AccrueSound
  <2> HIDE DEF op
  <2>3. QED
    BY <2>2 DEF Sound
<1>5. h \in [S \X B -> B]
  <2>1. ASSUME NEW z \in S \X B
        PROVE  (IF z[2].pos[z[1]] \in Positions THEN op(z[1], z[2]) ELSE z[2]) \in B
    <3>1. z[1] \in S /\ z[2] \in B
      OBVIOUS
    <3> HIDE DEF op, B
    <3>2. QED
      BY <1>4, <3>1
  <2> HIDE DEF op, B
  <2>2. QED
    BY <2>1
<1>6. \A s \in S, b \in B : b.pos[s] \in Positions => h[<<s, b>>] = op(s, b)
  <2> HIDE DEF op, B
  <2>1. QED
    OBVIOUS
<1> HIDE DEF h
<1>7. ASSUME NEW T \in SUBSET S, T # {}
      PROVE  Pick(T) \in T /\ Pick(T) \in S /\ T \ {Pick(T)} \in SUBSET S /\ Pick(T) \notin T \ {Pick(T)}
  BY <1>7 DEF Pick
<1>8. ASSUME NEW T \in SUBSET S, T # {}, NEW b, Part(b, T \ {Pick(T)})
      PROVE  b \in B /\ b.pos[Pick(T)] \in Positions /\ Part(op(Pick(T), b), T)
  <2> DEFINE x == Pick(T)
  <2>1. x \in T /\ x \in S /\ x \in Symbols /\ x \notin T \ {x} /\ T \subseteq Symbols
    BY <1>2, <1>7, <1>8
  <2>2. b \in B
    BY <1>8 DEF Sound
  <2>3. b.pos[x] = book.pos[x] /\ b.pos[x] \in Positions
    BY <1>2, <1>8, <2>1
  <2> HIDE DEF x, op
  <2>4. /\ op(x, b) \in B /\ op(x, b).slot = b.slot /\ op(x, b).start = b.start
        /\ \A t \in Symbols \ {x} : op(x, b).pos[t] = b.pos[t]
        /\ Charged(book, book.pos[x], op(x, b).pos[x])
    <3>1. Charged(b, b.pos[x], op(x, b).pos[x]) <=> Charged(book, book.pos[x], op(x, b).pos[x])
      <4>1. Due(b, b.pos[x]) = Due(book, book.pos[x])
        BY <1>8, <2>3 DEF Due
      <4>2. QED
        BY <2>3, <4>1, Zenon DEF Charged
    <3>2. QED
      BY <1>4, <2>1, <2>2, <2>3, <3>1
  <2>5. Sound(op(x, b))
    BY <2>4
  <2>6. op(x, b).slot = book.slot /\ op(x, b).start = book.start
    BY <1>8, <2>4
  <2>7. ASSUME NEW s \in Symbols
        PROVE  IF s \in T THEN Charged(book, book.pos[s], op(x, b).pos[s]) ELSE op(x, b).pos[s] = book.pos[s]
    <3>1. CASE s = x
      BY <2>1, <2>4, <3>1
    <3>2. CASE s # x
      <4>1. op(x, b).pos[s] = b.pos[s] /\ (s \in T <=> s \in T \ {x})
        BY <2>4, <3>2
      <4>2. IF s \in T \ {x} THEN Charged(book, book.pos[s], b.pos[s]) ELSE b.pos[s] = book.pos[s]
        BY <1>8 DEF x
      <4>3. QED
        BY <4>1, <4>2
    <3>3. QED
      BY <3>1, <3>2
  <2>8. Part(op(x, b), T)
    BY <2>5, <2>6, <2>7
  <2> HIDE DEF Part, B
  <2>9. QED
    BY <2>2, <2>3, <2>8 DEF x
<1>9. Part(book, {})
  BY <1>2
<1>10. \E g : Eq(g)
  <2> HIDE DEF B
  <2>1. PICK g \in [SUBSET S -> B] : Folds(g, S, book, h)
    BY <1>2, <1>3, <1>5, FoldExists, Zenon
  <2> HIDE DEF op, Part
  <2> DEFINE C == {T \in SUBSET S : Part(g[T], T)}
  <2>2. g[{}] = book
    BY <2>1 DEF Folds
  <2>3. ASSUME NEW T \in SUBSET S, T # {}, Part(g[T \ {Pick(T)}], T \ {Pick(T)})
        PROVE  g[T] = op(Pick(T), g[T \ {Pick(T)}]) /\ Part(g[T], T)
    <3>1. g[T] = h[<<Pick(T), g[T \ {Pick(T)}]>>]
      BY <2>1, <2>3 DEF Folds
    <3>2. /\ g[T \ {Pick(T)}] \in B /\ g[T \ {Pick(T)}].pos[Pick(T)] \in Positions
          /\ Part(op(Pick(T), g[T \ {Pick(T)}]), T)
      BY <1>8, <2>3
    <3>3. g[T] = op(Pick(T), g[T \ {Pick(T)}])
      BY <1>6, <1>7, <2>3, <3>1, <3>2
    <3>4. QED
      BY <3>2, <3>3
  <2>4. \A T \in SUBSET S : T \in C
    <3>1. {} \in C
      BY <1>9, <2>2
    <3>2. \A T \in SUBSET S : T # {} /\ T \ {Pick(T)} \in C => T \in C
      BY <2>3
    <3> HIDE DEF C
    <3>3. QED
      BY <1>2, <3>1, <3>2, SubsetInduction
  <2>5. \A T \in SUBSET S : g[T] = IF T = {} THEN book ELSE op(Pick(T), g[T \ {Pick(T)}])
    <3>1. \A T \in SUBSET S : Part(g[T], T)
      BY <2>4
    <3>2. QED
      BY <1>7, <2>2, <2>3, <3>1
  <2>6. Eq(g)
    BY <2>5
  <2>7. QED
    BY <2>6
<1>11. PICK g : Eq(g) /\ c = g[S]
  <2> HIDE DEF Eq
  <2>1. Eq(CHOOSE g : Eq(g))
    BY <1>10
  <2>2. QED
    BY <1>1, <2>1
<1>12. Part(g[S], S)
  <2> HIDE DEF op, Part, B
  <2> DEFINE C == {T \in SUBSET S : Part(g[T], T)}
  <2>1. {} \in C
    <3>1. g[{}] = book
      BY <1>11
    <3>2. QED
      BY <1>9, <3>1
  <2>2. \A T \in SUBSET S : T # {} /\ T \ {Pick(T)} \in C => T \in C
    <3>1. SUFFICES ASSUME NEW T \in SUBSET S, T # {}, T \ {Pick(T)} \in C PROVE Part(g[T], T)
      OBVIOUS
    <3>2. g[T] = op(Pick(T), g[T \ {Pick(T)}])
      BY <1>11, <3>1
    <3>3. Part(g[T \ {Pick(T)}], T \ {Pick(T)})
      BY <3>1
    <3>4. QED
      BY <1>8, <3>1, <3>2, <3>3
  <2>3. S \in C
    <3> HIDE DEF C
    <3>1. QED
      BY <1>2, <2>1, <2>2, SubsetInduction
  <2>4. QED
    BY <2>3
<1>13. QED
  <2>1. Part(c, S)
    <3> HIDE DEF Part
    <3>1. QED
      BY <1>11, <1>12
  <2>2. QED
    BY <2>1, Zenon DEF c, S

----------------------------------------------------------------------------
(* The equity of a book *)

LEMMA Finite == IsFiniteSet(Symbols)
  BY PaperAssumption

(* A call that leaves the positions and the money alone. *)
LEMMA SamePositions ==
  ASSUME NEW b, Sound(b), NEW c \in Fields, c.pos = b.pos, c.wallet = b.wallet, c.cash = b.cash
  PROVE  /\ Sound(c)
         /\ Synced(b) /\ c.equity = b.equity => Synced(c)
<1>1. Refreshed(c) /\ Listed(c)
  BY DEF Sound, Refreshed, Listed, Held
<1>2. Balanced(c)
  BY DEF Sound, Balanced
<1>3. Synced(b) /\ c.equity = b.equity => Synced(c)
  BY DEF Synced
<1>4. QED
  BY <1>1, <1>2, <1>3 DEF Sound

(* syncEquity, at the end of every call. *)
LEMMA SyncSound ==
  ASSUME NEW b, Sound(b)
  PROVE  LET c == syncEquity(b) IN
         Sound(c) /\ Synced(c) /\ c.pos = b.pos /\ c.slot = b.slot /\ c.start = b.start
<1> DEFINE f == [s \in Symbols |-> Upnl(b.pos[s])]
           c == syncEquity(b)
<1>1. b \in Fields /\ b.wallet \in Int /\ f \in [Symbols -> Int]
  BY Totals DEF Sound
<1>2. c = [b EXCEPT !.equity = b.wallet + SumFunction(f)]
  BY DEF syncEquity
<1>3. SumFunction(f) \in Int
  <2> HIDE DEF f
  <2>1. QED
    BY <1>1, Finite, SumType
<1>4. Synced(c) <=> c.equity = c.wallet + SumFunction([s \in Symbols |-> Upnl(c.pos[s])])
  BY DEF Synced
<1> HIDE DEF c
<1>5. b.wallet + SumFunction(f) \in Int
  BY <1>1, <1>3
<1>6. /\ c \in Fields /\ c.pos = b.pos /\ c.wallet = b.wallet /\ c.cash = b.cash
      /\ c.slot = b.slot /\ c.start = b.start /\ c.equity = b.wallet + SumFunction(f)
  <2> HIDE DEF f
  <2>1. QED
    BY <1>1, <1>2, <1>5 DEF Fields
<1>7. Synced(c)
  BY <1>4, <1>6
<1>8. Sound(c)
  BY <1>6, SamePositions
<1>9. QED
  BY <1>6, <1>7, <1>8 DEF c

(* dropSymbols: the stake of what goes is booked as lost or won. *)
LEMMA DropSound ==
  ASSUME NEW b, Sound(b), NEW gone \in SUBSET Symbols
  PROVE  LET c == dropSymbols(b, gone) IN
         /\ Sound(c) /\ c.slot = b.slot /\ c.start = b.start
         /\ \A s \in Symbols : c.pos[s] = IF s \in gone THEN None ELSE b.pos[s]
<1> DEFINE c == dropSymbols(b, gone)
           d == [s \in Symbols |-> IF s \in gone THEN Stake(b.pos[s]) ELSE 0]
           f == [s \in Symbols |-> Stake(b.pos[s])]
           h == [s \in Symbols |-> Stake(c.pos[s])]
           pos == [s \in Symbols |-> IF s \in gone THEN None ELSE b.pos[s]]
<1>1. /\ b \in Fields /\ b.wallet \in Int /\ b.cash \in Int /\ f \in [Symbols -> Int]
      /\ b.wallet = b.cash + SumFunction(f) /\ \A s \in Symbols : b.pos[s] \in Positions \cup {None}
  BY Totals DEF Sound, Balanced
<1>2. d \in [Symbols -> Int]
  <2>1. \A s \in Symbols : Stake(b.pos[s]) \in Int
    BY <1>1
  <2>2. QED
    BY <2>1
<1>3. c = [b EXCEPT !.pos = pos, !.cash = @ + SumFunction(d)]
  BY DEF dropSymbols, Stake
<1>4. SumFunction(d) \in Int /\ SumFunction(f) \in Int
  <2> HIDE DEF d, f
  <2>1. QED
    BY <1>1, <1>2, Finite, SumType
<1>5. pos \in [Symbols -> Positions \cup {None}]
  BY <1>1
<1>6. b.cash + SumFunction(d) \in Int
  BY <1>1, <1>4
<1>7. /\ c \in Fields /\ c.pos = pos /\ c.wallet = b.wallet /\ c.cash = b.cash + SumFunction(d)
      /\ c.slot = b.slot /\ c.start = b.start
  <2> HIDE DEF c, d, pos
  <2>1. QED
    BY <1>1, <1>3, <1>5, <1>6 DEF Fields
<1>8. \A s \in Symbols : c.pos[s] = IF s \in gone THEN None ELSE b.pos[s]
  BY <1>7
<1>9. Balanced(c) <=> c.wallet = c.cash + SumFunction(h)
  BY DEF Balanced
<1> HIDE DEF c
<1>10. h \in [Symbols -> Int]
  BY <1>7, Totals
<1>11. \A s \in Symbols : f[s] = d[s] + h[s]
  <2>1. ASSUME NEW s \in Symbols PROVE f[s] = d[s] + h[s]
    <3>1. Stake(None) = 0 /\ Stake(b.pos[s]) \in Int
      BY <1>1 DEF Stake
    <3>2. h[s] = IF s \in gone THEN 0 ELSE Stake(b.pos[s])
      BY <1>8, <3>1
    <3>3. QED
      BY <3>1, <3>2
  <2>2. QED
    BY <2>1
<1>12. Balanced(c)
  <2> HIDE DEF d, f, h
  <2>1. SumFunction(f) = SumFunction(d) + SumFunction(h) /\ SumFunction(h) \in Int
    BY <1>1, <1>2, <1>10, <1>11, Finite, SumPlus, SumType
  <2>2. QED
    BY <1>1, <1>4, <1>7, <1>9, <2>1
<1>13. Refreshed(c) /\ Listed(c)
  BY <1>8 DEF Sound, Refreshed, Listed, Held
<1>14. QED
  BY <1>7, <1>8, <1>12, <1>13 DEF Sound, c

(* updateStops. *)
Restopped(b, s, stop, target) == [b EXCEPT !.pos[s] = [b.pos[s] EXCEPT !.stop = stop, !.target = target]]

(* Moving a position's stop and target keeps the book sound and its funding untouched. *)
LEMMA StopsSound ==
  ASSUME NEW b, Sound(b), Synced(b), NEW s \in Held(b),
         NEW stop \in Prices \cup {None}, NEW target \in Prices \cup {None}
  PROVE  LET c == Restopped(b, s, stop, target) IN
         /\ Sound(c) /\ Synced(c) /\ c.slot = b.slot /\ c.start = b.start
         /\ \A t \in Symbols \ {s} : c.pos[t] = b.pos[t]
         /\ c.pos[s] # None /\ Kept(b.pos[s], c.pos[s])
<1> DEFINE q == [b.pos[s] EXCEPT !.stop = stop, !.target = target]
           c == Restopped(b, s, stop, target)
           d == [b EXCEPT !.pos[s] = q]
<1>1. s \in Symbols /\ s \in world.symbols /\ b.pos[s] \in Positions /\ b \in Fields
  BY DEF Held, Sound, Fields, Listed
<1>2. /\ q \in Positions /\ q.dir = b.pos[s].dir /\ q.qty = b.pos[s].qty /\ q.cost = b.pos[s].cost
      /\ q.mark = b.pos[s].mark /\ q.fee = b.pos[s].fee /\ q.funding = b.pos[s].funding
      /\ q.upnl = b.pos[s].upnl
  BY <1>1 DEF Positions
<1>3. Kept(b.pos[s], q)
  BY <1>1 DEF Positions, Kept
<1>4. c = d
  BY DEF Restopped
<1>5. q # None /\ b.pos[s] # None
  BY <1>1, <1>2, PositionFields
<1>6. Stake(q) = Stake(b.pos[s]) /\ Upnl(q) = Upnl(b.pos[s]) /\ Profit(q) = Profit(b.pos[s])
  BY <1>2, <1>5 DEF Stake, Upnl, Profit
<1>7. b.pos[s].upnl = Profit(b.pos[s])
  BY DEF Sound, Refreshed
<1> HIDE DEF q, c
<1>8. /\ d \in Fields /\ d.pos[s] = q /\ d.slot = b.slot /\ d.start = b.start
      /\ d.wallet = b.wallet /\ d.cash = b.cash /\ d.equity = b.equity
      /\ \A t \in Symbols \ {s} : d.pos[t] = b.pos[t]
  BY <1>1, <1>2 DEF Fields
<1> HIDE DEF d
<1>9. Sound(d)
  <2>1. Loose(b, s) /\ b.wallet \in Int /\ b.cash \in Int /\ Stake(b.pos[s]) \in Int
    BY <1>1, SoundIsLoose, Totals, PositionFields
  <2>2. d.wallet - d.cash = b.wallet - b.cash + (Stake(d.pos[s]) - Stake(b.pos[s]))
    BY <1>6, <1>8, <2>1
  <2>3. QED
    BY <1>1, <1>2, <1>6, <1>7, <1>8, <2>1, <2>2, Swap
<1>10. Synced(d)
  <2>1. \A t \in Symbols : Upnl(d.pos[t]) = Upnl(b.pos[t])
    BY <1>6, <1>8
  <2>2. [t \in Symbols |-> Upnl(d.pos[t])] = [t \in Symbols |-> Upnl(b.pos[t])]
    BY <2>1
  <2>3. QED
    BY <1>8, <2>2 DEF Synced
<1>11. QED
  <2>1. Sound(c) /\ Synced(c) /\ c.slot = b.slot /\ c.start = b.start
    BY <1>4, <1>8, <1>9, <1>10
  <2>2. \A t \in Symbols \ {s} : c.pos[t] = b.pos[t]
    BY <1>4, <1>8
  <2>3. c.pos[s] # None /\ Kept(b.pos[s], c.pos[s])
    BY <1>3, <1>4, <1>5, <1>8
  <2>4. QED
    BY <2>1, <2>2, <2>3 DEF c

(* The equity of a book in balance is its cash and what it holds. *)
LEMMA EquityOfBook ==
  ASSUME NEW b, Sound(b), Synced(b)
  PROVE  b.equity = b.cash + SumFunction([s \in Symbols |-> Value(b.pos[s])])
<1> DEFINE f == [s \in Symbols |-> Stake(b.pos[s])]
           u == [s \in Symbols |-> Upnl(b.pos[s])]
           h == [s \in Symbols |-> Value(b.pos[s])]
<1>1. /\ b \in Fields /\ b.wallet \in Int /\ b.cash \in Int
      /\ f \in [Symbols -> Int] /\ u \in [Symbols -> Int] /\ h \in [Symbols -> Int]
      /\ \A s \in Symbols : b.pos[s] \in Positions \cup {None}
  BY Totals DEF Sound
<1>2. b.wallet = b.cash + SumFunction(f) /\ b.equity = b.wallet + SumFunction(u)
  BY DEF Sound, Balanced, Synced
<1>3. \A s \in Symbols : h[s] = f[s] + u[s]
  <2>1. ASSUME NEW s \in Symbols PROVE Value(b.pos[s]) = Stake(b.pos[s]) + Upnl(b.pos[s])
    <3>1. CASE b.pos[s] = None
      BY <3>1 DEF Value, Stake, Upnl
    <3>2. CASE b.pos[s] # None
      <4>1. b.pos[s] \in Positions /\ b.pos[s].upnl = Profit(b.pos[s])
        BY <1>1, <3>2 DEF Sound, Refreshed, Held
      <4>2. Upnl(b.pos[s]) = b.pos[s].upnl
        BY <3>2 DEF Upnl
      <4>3. QED
        BY <4>1, <4>2, ValueSplits
    <3>3. QED
      BY <3>1, <3>2
  <2>2. QED
    BY <2>1
<1> HIDE DEF f, u, h
<1>4. SumFunction(h) = SumFunction(f) + SumFunction(u) /\ SumFunction(f) \in Int /\ SumFunction(u) \in Int
  BY <1>1, <1>3, Finite, SumPlus, SumType
<1>5. b.equity = b.cash + SumFunction(h)
  BY <1>1, <1>2, <1>4
<1>6. QED
  BY <1>5 DEF h

----------------------------------------------------------------------------
(* Funding *)

Calm == world.kinds \cap {"shut", "norate"} = {}

\* A position's dates, and what it has been charged for by the last accrual.
Dated(b, p) ==
  /\ p.born <= p.opened /\ p.opened <= clock /\ (~p.scaled => p.opened = p.born)
  /\ p.charged <= slotOf(clock) - slotOf(p.born)
  /\ b.slot >= 0 => p.charged <= Max({0, b.slot - slotOf(p.born)})
  /\ Calm => IF b.slot = -1 THEN p.charged = 0
             ELSE ~p.scaled => p.charged = Max({0, b.slot - Max({slotOf(p.born), b.start})})

Timed(b) ==
  /\ b.slot <= slotOf(clock) /\ b.start <= slotOf(clock) /\ (b.slot >= 0 => b.start <= b.slot)
  /\ Calm /\ b.slot = -1 => b.start = -1
  /\ \A s \in Held(b) : Dated(b, b.pos[s])

(* The greater of two integers, as a choice. *)
LEMMA MaxIs == ASSUME NEW a \in Int, NEW b \in Int PROVE Max({a, b}) = IF a >= b THEN a ELSE b
<1>1. Max({a, b}) \in {a, b} /\ Max({a, b}) >= a /\ Max({a, b}) >= b
  BY Greater
<1>2. QED
  BY <1>1

\* Nothing is charged twice, and nothing left out where the dates are the first ones.
Settles(now, slot, start, born, opened, charged) ==
  LET due == Max({0, now - Max({slot, opened})}) IN
  /\ due >= 0 /\ charged + due <= Max({0, now - born})
  /\ charged + due <= now - born
  /\ /\ start <= slot /\ opened = born /\ charged = Max({0, slot - Max({born, start})})
     => charged + due = Max({0, now - Max({born, start})})

(* What is owed, on numbers: now, the last accrual, the first one, and the *)
(* slots of the first lot and of the averaged opening.                     *)
LEMMA OwedNumbers ==
  ASSUME NEW now \in Int, NEW slot \in Int, NEW start \in Int, NEW born \in Int, NEW opened \in Int,
         NEW charged \in Int, slot <= now, born <= opened, opened <= now,
         charged <= Max({0, slot - born})
  PROVE  Settles(now, slot, start, born, opened, charged)
<1> DEFINE m == Max({slot, opened})
           n == Max({born, start})
<1>1. m = (IF slot >= opened THEN slot ELSE opened) /\ n = (IF born >= start THEN born ELSE start)
  BY MaxIs
<1>2. m \in Int /\ n \in Int /\ now - m \in Int /\ slot - born \in Int /\ now - born \in Int /\ slot - n \in Int /\ now - n \in Int /\ 0 \in Int
  BY <1>1
<1> HIDE DEF m, n
<1>3. /\ Max({0, now - m}) = (IF 0 >= now - m THEN 0 ELSE now - m)
      /\ Max({0, slot - born}) = (IF 0 >= slot - born THEN 0 ELSE slot - born)
      /\ Max({0, now - born}) = (IF 0 >= now - born THEN 0 ELSE now - born)
      /\ Max({0, slot - n}) = (IF 0 >= slot - n THEN 0 ELSE slot - n)
      /\ Max({0, now - n}) = (IF 0 >= now - n THEN 0 ELSE now - n)
  BY <1>2, MaxIs
<1>4. Max({0, now - m}) >= 0 /\ charged + Max({0, now - m}) <= Max({0, now - born})
      /\ charged + Max({0, now - m}) <= now - born
  BY <1>1, <1>3
<1>5. ASSUME start <= slot, opened = born, charged = Max({0, slot - n})
      PROVE  charged + Max({0, now - m}) = Max({0, now - n})
  BY <1>1, <1>3, <1>5
<1>6. QED
  BY <1>4, <1>5 DEF m, n, Settles

(* The slots of the dates of a position. *)
LEMMA DatedSlots ==
  ASSUME NEW p \in Positions, clock \in 0 .. MaxClock, p.born <= p.opened, p.opened <= clock
  PROVE  /\ slotOf(clock) \in Int /\ slotOf(p.opened) \in Int /\ slotOf(p.born) \in Int /\ slotOf(clock) >= 0
         /\ slotOf(p.born) <= slotOf(p.opened) /\ slotOf(p.opened) <= slotOf(clock) /\ p.charged \in Nat
<1>1. p.born \in 0 .. MaxClock /\ p.opened \in 0 .. MaxClock /\ p.charged \in Nat /\ MaxClock \in Nat
  BY PositionFields, Parameters
<1>2. p.born \in Int /\ p.opened \in Int /\ clock \in Int /\ clock >= 0 /\ clock <= clock
  BY <1>1
<1>3. QED
  BY <1>1, <1>2, Slots

(* The slots of a book and of the clock are integers in range. *)
LEMMA SlotTypes ==
  ASSUME NEW b \in Fields, clock \in 0 .. MaxClock
  PROVE  b.slot \in Int /\ b.start \in Int /\ b.slot >= -1 /\ slotOf(clock) \in -1 .. slotOf(MaxClock) /\ slotOf(clock) >= 0
<1>1. clock \in Int /\ clock >= 0 /\ MaxClock \in Int /\ clock <= MaxClock
  BY Parameters
<1>2. slotOf(clock) \in Int /\ slotOf(MaxClock) \in Int /\ slotOf(clock) <= slotOf(MaxClock) /\ slotOf(clock) >= 0
  BY <1>1, Slots
<1>3. QED
  BY <1>2 DEF Fields

(* A call between two accruals keeps every position's dates, opens a       *)
(* position now, or adds to one.                                           *)
Carried(p, q) ==
  \/ p # None /\ q.born = p.born /\ q.opened = p.opened /\ q.charged = p.charged /\ q.scaled = p.scaled
  \/ Fresh(q)
  \/ p # None /\ q.born = p.born /\ q.opened \in p.opened .. clock /\ q.charged = p.charged /\ q.scaled

(* Funding stays on time when every position held was carried over. *)
LEMMA TimedKept ==
  ASSUME NEW b, Sound(b), Timed(b), NEW c, Sound(c), c.slot = b.slot, c.start = b.start, clock \in 0 .. MaxClock,
         \A s \in Held(c) : Carried(b.pos[s], c.pos[s])
  PROVE  Timed(c)
<1>1. b \in Fields /\ c \in Fields
  BY DEF Sound
<1>2. b.slot \in Int /\ b.start \in Int /\ b.slot >= -1 /\ slotOf(clock) \in Int
  BY <1>1, SlotTypes
<1>3. ASSUME NEW s \in Held(c) PROVE Dated(c, c.pos[s])
  <2> DEFINE p == b.pos[s]
             q == c.pos[s]
  <2>1. s \in Symbols /\ q # None /\ q \in Positions /\ p \in Positions \cup {None}
    BY <1>1 DEF Held, Fields
  <2>2. p # None => p \in Positions /\ Dated(b, p)
    BY <2>1 DEF Held, Timed
  <2>3. Carried(p, q)
    OBVIOUS
  <2> HIDE DEF p, q
  <2>4. CASE p # None /\ q.born = p.born /\ q.opened = p.opened /\ q.charged = p.charged /\ q.scaled = p.scaled
    <3>1. Dated(b, p)
      BY <2>2, <2>4
    <3>2. QED
      BY <2>4, <3>1, Zenon DEF Dated, q
  <2>5. CASE q.born = clock /\ q.opened = clock /\ q.charged = 0 /\ q.scaled = FALSE
    <3> DEFINE w == slotOf(clock)
               m == Max({w, c.start})
    <3>1. w \in Int /\ b.slot <= w /\ b.start <= w /\ clock \in Int
      BY <1>2, Parameters DEF Timed
    <3>2. m \in Int /\ m >= w
      <4> HIDE DEF w
      <4>1. c.start \in Int
        BY <1>2
      <4>2. QED
        BY <3>1, <4>1, Greater
    <3> HIDE DEF m, w
    <3>3. b.slot - w \in Int /\ b.slot - m \in Int /\ 0 \in Int
      BY <1>2, <3>1, <3>2
    <3>4. Max({0, b.slot - w}) = 0 /\ Max({0, b.slot - m}) = 0
      <4>1. /\ Max({0, b.slot - w}) = (IF 0 >= b.slot - w THEN 0 ELSE b.slot - w)
            /\ Max({0, b.slot - m}) = (IF 0 >= b.slot - m THEN 0 ELSE b.slot - m)
        BY <3>3, MaxIs
      <4>2. QED
        BY <1>2, <3>1, <3>2, <4>1
    <3>5. slotOf(q.born) = w
      BY <2>5 DEF w
    <3>6. q.born <= q.opened /\ q.opened <= clock /\ q.opened = q.born
      BY <2>5, <3>1
    <3>7. q.charged <= slotOf(clock) - slotOf(q.born)
      BY <2>5, <3>1, <3>5 DEF w
    <3>8. q.charged <= Max({0, c.slot - slotOf(q.born)}) /\ q.charged = Max({0, c.slot - Max({slotOf(q.born), c.start})})
      BY <2>5, <3>4, <3>5 DEF m
    <3>9. QED
      BY <2>5, <3>6, <3>7, <3>8 DEF Dated, q
  <2>6. CASE p # None /\ q.born = p.born /\ q.opened \in p.opened .. clock /\ q.charged = p.charged /\ q.scaled
    <3>1. Dated(b, p) /\ p \in Positions
      BY <2>2, <2>6
    <3>2. p.opened \in Int /\ p.born \in Int /\ clock \in Int
      BY <3>1, PositionFields, Parameters
    <3>3. q.born <= q.opened /\ q.opened <= clock
      BY <2>6, <3>1, <3>2 DEF Dated
    <3>4. /\ q.charged <= slotOf(clock) - slotOf(q.born)
          /\ c.slot >= 0 => q.charged <= Max({0, c.slot - slotOf(q.born)})
      BY <2>6, <3>1 DEF Dated
    <3>5. Calm /\ c.slot = -1 => q.charged = 0
      BY <2>6, <3>1 DEF Dated
    <3>6. QED
      BY <2>6, <3>3, <3>4, <3>5, Zenon DEF Dated, q
  <2>7. QED
    BY <2>3, <2>4, <2>5, <2>6, Zenon DEF Carried, Fresh
<1>4. QED
  BY <1>3 DEF Timed

(* accrueFunding: the boundaries of every rated position. *)
LEMMA TimedAccrued ==
  ASSUME clock \in 0 .. MaxClock, Sound(book), Timed(book), book.slot >= 0, slotOf(clock) > book.slot,
         NEW rated \in SUBSET Held(book), Calm => rated = Held(book),
         NEW c, Sound(c), c.start = book.start, c.slot = slotOf(clock),
         \A s \in Symbols : IF s \in rated THEN Charged(book, book.pos[s], c.pos[s]) ELSE c.pos[s] = book.pos[s]
  PROVE  Timed(c)
<1>1. book \in Fields /\ c \in Fields
  BY DEF Sound
<1>2. book.slot \in Int /\ book.start \in Int /\ slotOf(clock) \in Int /\ slotOf(clock) >= 0 /\ book.start <= book.slot
  BY <1>1, SlotTypes DEF Timed
<1>3. ASSUME NEW s \in Held(c) PROVE Dated(c, c.pos[s])
  <2> DEFINE p == book.pos[s]
             q == c.pos[s]
             now == slotOf(clock)
  <2>1. s \in Symbols /\ q # None /\ q \in Positions /\ p \in Positions \cup {None}
    BY <1>1 DEF Held, Fields
  <2>2. s \in Held(book) /\ p \in Positions /\ Dated(book, p)
    <3>1. p # None
      BY <2>1 DEF Held
    <3>2. QED
      BY <2>1, <3>1 DEF Held, Timed
  <2>3. IF s \in rated THEN Charged(book, p, q) ELSE q = p
    BY <2>1
  <2> HIDE DEF p, q
  <2>4. /\ now \in Int /\ slotOf(p.opened) \in Int /\ slotOf(p.born) \in Int /\ now >= 0
        /\ slotOf(p.born) <= slotOf(p.opened) /\ slotOf(p.opened) <= now /\ p.charged \in Int /\ p.charged >= 0
        /\ p.born <= p.opened /\ p.opened <= clock
    <3>1. p.born <= p.opened /\ p.opened <= clock
      BY <2>2 DEF Dated
    <3>2. QED
      BY <2>2, <3>1, DatedSlots
  <2>5. p.charged <= Max({0, book.slot - slotOf(p.born)})
    BY <2>2 DEF Dated
  <2> DEFINE due == Max({0, now - Max({book.slot, slotOf(p.opened)})})
             all == Max({0, now - Max({slotOf(p.born), book.start})})
  <2>6. due = Due(book, p)
    BY DEF Due
  <2>7. /\ due >= 0 /\ p.charged + due <= Max({0, now - slotOf(p.born)})
        /\ p.charged + due <= now - slotOf(p.born)
        /\ /\ slotOf(p.opened) = slotOf(p.born)
           /\ p.charged = Max({0, book.slot - Max({slotOf(p.born), book.start})})
           => p.charged + due = all
    <3> HIDE DEF now
    <3>1. book.slot <= now
      BY <1>2, <2>4 DEF now
    <3> DEFINE sl == book.slot
               st == book.start
               bo == slotOf(p.born)
               op == slotOf(p.opened)
               ch == p.charged
    <3>2. /\ sl \in Int /\ st \in Int /\ bo \in Int /\ op \in Int /\ ch \in Int /\ now \in Int
          /\ sl <= now /\ bo <= op /\ op <= now /\ ch <= Max({0, sl - bo}) /\ st <= sl
      BY <1>2, <2>4, <2>5, <3>1
    <3> HIDE DEF sl, st, bo, op, ch
    <3>3. Settles(now, sl, st, bo, op, ch)
      BY <3>2, OwedNumbers
    <3>4. QED
      BY <3>2, <3>3, Zenon DEF sl, st, bo, op, ch, Settles
  <2>8. CASE s \in rated
    <3>1. /\ q.born = p.born /\ q.opened = p.opened /\ q.charged = p.charged + due
      BY <2>3, <2>6, <2>8 DEF Charged
    <3>2. q.scaled = p.scaled
      BY <2>3, <2>8, Zenon DEF Charged
    <3> HIDE DEF due
    <3>3. q.born <= q.opened /\ q.opened <= clock /\ q.charged <= slotOf(clock) - slotOf(q.born)
          /\ q.charged <= Max({0, c.slot - slotOf(q.born)})
      BY <2>4, <2>7, <3>1
    <3>4. ~q.scaled => q.opened = q.born
      BY <2>2, <3>1, <3>2 DEF Dated
    <3>5. Calm /\ ~q.scaled => q.charged = Max({0, c.slot - Max({slotOf(q.born), c.start})})
      <4>1. SUFFICES ASSUME Calm, ~q.scaled PROVE q.charged = Max({0, c.slot - Max({slotOf(q.born), c.start})})
        OBVIOUS
      <4>2. p.opened = p.born /\ ~p.scaled
        BY <3>1, <3>2, <3>4, <4>1
      <4>3. p.charged = Max({0, book.slot - Max({slotOf(p.born), book.start})})
        <5>1. book.slot # -1
          BY <1>2
        <5>2. QED
          BY <2>2, <4>1, <4>2, <5>1, Zenon DEF Dated
      <4>4. p.charged + due = all
        BY <2>7, <4>2, <4>3
      <4>5. QED
        BY <3>1, <4>4
    <3>6. c.slot # -1
      BY <1>2
    <3>7. QED
      BY <3>3, <3>4, <3>5, <3>6, Zenon DEF Dated, q
  <2>9. CASE s \notin rated
    <3>1. q = p /\ ~Calm
      BY <2>2, <2>3, <2>9
    <3>2. p.charged <= now - slotOf(p.born) /\ p.charged <= Max({0, now - slotOf(p.born)})
      <4> HIDE DEF due, now
      <4>1. now - slotOf(p.born) \in Int /\ due \in Int
        <5>1. Max({book.slot, slotOf(p.opened)}) \in Int
          BY <1>2, <2>4, Greater
        <5> DEFINE d == now - Max({book.slot, slotOf(p.opened)})
        <5>2. d \in Int /\ 0 \in Int
          BY <2>4, <5>1
        <5> HIDE DEF d
        <5>3. Max({0, d}) \in Int
          BY <5>2, Greater
        <5>4. QED
          BY <2>4, <5>3 DEF d, due
      <4>2. Max({0, now - slotOf(p.born)}) \in Int
        <5> DEFINE d == now - slotOf(p.born)
        <5>1. d \in Int /\ 0 \in Int
          BY <4>1
        <5> HIDE DEF d
        <5>2. Max({0, d}) \in Int
          BY <5>1, Greater
        <5>3. QED
          BY <5>2 DEF d
      <4>3. QED
        BY <2>4, <2>7, <4>1, <4>2
    <3>3. p.born <= p.opened /\ p.opened <= clock /\ (~p.scaled => p.opened = p.born)
      BY <2>2, Zenon DEF Dated
    <3>4. QED
      BY <3>1, <3>2, <3>3, Zenon DEF Dated, q
  <2>10. QED
    BY <2>8, <2>9
<1>4. QED
  BY <1>2, <1>3 DEF Timed

(* accrueFunding, the first call: nothing is owed for what came before. *)
LEMMA TimedStarted ==
  ASSUME clock \in 0 .. MaxClock, Sound(book), Timed(book), book.slot = -1,
         NEW c, Sound(c), c.pos = book.pos, c.slot = slotOf(clock),
         c.start = IF book.start = -1 THEN slotOf(clock) ELSE book.start
  PROVE  Timed(c)
<1>1. book \in Fields /\ c \in Fields
  BY DEF Sound
<1>2. book.start \in Int /\ slotOf(clock) \in Int /\ slotOf(clock) >= 0 /\ book.start <= slotOf(clock)
  BY <1>1, SlotTypes DEF Timed
<1>3. ASSUME NEW s \in Held(c) PROVE Dated(c, c.pos[s])
  <2> DEFINE p == book.pos[s]
             now == slotOf(clock)
  <2>1. s \in Held(book) /\ p \in Positions /\ Dated(book, p) /\ c.pos[s] = p
    BY <1>1 DEF Held, Fields, Timed
  <2> HIDE DEF p
  <2>2. p.born <= p.opened /\ p.opened <= clock /\ (~p.scaled => p.opened = p.born)
    BY <2>1, Zenon DEF Dated
  <2>3. /\ now \in Int /\ slotOf(p.born) \in Int /\ slotOf(p.born) <= now /\ p.charged \in Int /\ p.charged >= 0
    BY <2>1, <2>2, DatedSlots
  <2>4. p.charged <= now - slotOf(p.born)
    BY <2>1 DEF Dated
  <2> HIDE DEF now
  <2> DEFINE d == now - slotOf(p.born)
             m == Max({slotOf(p.born), now})
             e == now - m
  <2>5. d \in Int /\ d >= 0 /\ 0 \in Int
    BY <2>3
  <2>6. m \in Int /\ m >= now
    BY <2>3, Greater
  <2>7. e \in Int /\ 0 >= e
    <3> HIDE DEF m
    <3>1. QED
      BY <2>3, <2>6
  <2>8. Max({0, d}) = d /\ Max({0, e}) = 0
    <3> HIDE DEF d, e
    <3>1. Max({0, d}) = (IF 0 >= d THEN 0 ELSE d) /\ Max({0, e}) = (IF 0 >= e THEN 0 ELSE e)
      BY <2>5, <2>7, MaxIs
    <3>2. QED
      BY <2>5, <2>7, <3>1
  <2>9. p.charged <= Max({0, now - slotOf(p.born)}) /\ Max({0, now - Max({slotOf(p.born), now})}) = 0
    BY <2>4, <2>8
  <2>10. Calm => p.charged = 0 /\ c.start = now
    BY <2>1 DEF Dated, Timed, now
  <2>11. c.slot = now /\ c.slot # -1
    BY <1>2 DEF now
  <2>12. Calm => p.charged = Max({0, c.slot - Max({slotOf(p.born), c.start})})
    BY <2>9, <2>10, <2>11
  <2>13. p.charged <= Max({0, c.slot - slotOf(p.born)}) /\ p.charged <= slotOf(clock) - slotOf(p.born)
    BY <2>4, <2>9, <2>11 DEF now
  <2>14. QED
    BY <2>1, <2>2, <2>11, <2>12, <2>13, Zenon DEF Dated
<1>4. QED
  BY <1>2, <1>3 DEF Timed

(* An orderly shutdown forgets the clock. *)
LEMMA TimedFlushed ==
  ASSUME clock \in 0 .. MaxClock, ~Calm, Sound(book), Timed(book),
         NEW c, Sound(c), c.pos = book.pos, c.slot = -1, c.start = book.start
  PROVE  Timed(c)
<1>1. book \in Fields /\ c \in Fields
  BY DEF Sound
<1>2. slotOf(clock) \in Int /\ slotOf(clock) >= 0
  BY <1>1, SlotTypes
<1>3. ASSUME NEW s \in Held(c) PROVE Dated(c, c.pos[s])
  <2>1. Dated(book, book.pos[s]) /\ c.pos[s] = book.pos[s]
    BY DEF Held, Timed
  <2>2. ~(c.slot >= 0)
    OBVIOUS
  <2>3. QED
    BY <2>1, <2>2, Zenon DEF Dated
<1>4. QED
  BY <1>2, <1>3 DEF Timed

(* Time passes. *)
LEMMA TimedLater ==
  ASSUME clock \in 0 .. MaxClock, clock' \in 0 .. MaxClock, clock' >= clock, world' = world,
         NEW b, Sound(b), Timed(b)
  PROVE  Timed(b)'
<1>1. b \in Fields
  BY DEF Sound
<1>2. b.slot \in Int /\ b.start \in Int
  BY <1>1, SlotTypes
<1>3. slotOf(clock) \in Int /\ slotOf(clock') \in Int /\ slotOf(clock) <= slotOf(clock')
  <2>1. clock \in Int /\ clock' \in Int
    BY Parameters
  <2>2. QED
    BY <2>1, Slots
<1>4. Calm' <=> Calm
  BY DEF Calm
<1>5. ASSUME NEW s \in Held(b) PROVE Dated(b, b.pos[s])'
  <2> DEFINE p == b.pos[s]
  <2>1. p \in Positions /\ Dated(b, p)
    BY <1>1 DEF Held, Fields, Timed
  <2> HIDE DEF p
  <2>2. p.born <= p.opened /\ p.opened <= clock
    BY <2>1 DEF Dated
  <2>3. slotOf(p.born) \in Int /\ p.charged \in Int /\ p.opened \in Int /\ clock \in Int /\ clock' \in Int
    BY <2>1, <2>2, DatedSlots, PositionFields, Parameters
  <2>4. p.opened <= clock'
    BY <2>2, <2>3
  <2>5. p.charged <= slotOf(clock') - slotOf(p.born)
    <3>1. p.charged <= slotOf(clock) - slotOf(p.born)
      BY <2>1 DEF Dated
    <3> DEFINE u == slotOf(clock)
               v == slotOf(clock')
               w == slotOf(p.born)
    <3>2. u \in Int /\ v \in Int /\ w \in Int /\ u <= v /\ p.charged <= u - w
      BY <1>3, <2>3, <3>1
    <3> HIDE DEF u, v, w
    <3>3. p.charged <= v - w
      BY <2>3, <3>2
    <3>4. QED
      BY <3>3 DEF v, w
  <2>6. slotOf(clock)' = slotOf(clock') /\ slotOf(p.born)' = slotOf(p.born)
    BY DEF slotOf
  <2>7. QED
    BY <1>4, <2>1, <2>4, <2>5, <2>6, Zenon DEF Dated, p
<1>6. b.slot <= slotOf(clock') /\ b.start <= slotOf(clock') /\ slotOf(clock)' = slotOf(clock')
  <2>1. b.slot <= slotOf(clock) /\ b.start <= slotOf(clock)
    BY DEF Timed
  <2> DEFINE u == slotOf(clock)
             v == slotOf(clock')
  <2>2. u \in Int /\ v \in Int /\ u <= v /\ b.slot <= u /\ b.start <= u
    BY <1>3, <2>1
  <2> HIDE DEF u, v
  <2>3. b.slot <= v /\ b.start <= v
    BY <1>2, <2>2
  <2>4. QED
    BY <2>3 DEF v
<1>7. (b.slot >= 0 => b.start <= b.slot) /\ (Calm' /\ b.slot = -1 => b.start = -1)
  BY <1>4 DEF Timed
<1>8. QED
  BY <1>4, <1>5, <1>6, <1>7 DEF Timed, Held

----------------------------------------------------------------------------
(* The inductive invariant *)

BookOK(b) == Sound(b) /\ Synced(b) /\ Timed(b)

Types ==
  /\ world \in Worlds /\ timer \in BOOLEAN /\ last \in [Symbols -> Prices \cup {None}] /\ clock \in 0 .. MaxClock
  /\ fills \in 0 .. MaxFills /\ faults \in 0 .. MaxFaults

\* The peak in the file was observed since the reset, whoever wrote it, and so
\* is the one the agent holds once it has been started again.
Peaks ==
  /\ hwm \in [peak : Nat, reset : 0 .. 1] /\ hwmFile \in [peak : Nat, reset : 0 .. 1]
  /\ seen \in Nat /\ baseline \in {"kept", "reset", "loaded"}
  /\ baseline = "kept" => hwm.reset = 0 /\ hwmFile.reset = 0
  /\ baseline # "kept" => hwmFile.peak <= seen
  /\ baseline = "loaded" => hwm.peak <= seen

\* A position of the list that the venue holds unseen by the broker has one
\* more start without a view of the venue to account for it than was used.
Moves ==
  /\ venue \in {"paper", "starting", "moving", "remote"} /\ todo \subseteq Symbols
  /\ remote \subseteq Symbols /\ cache \subseteq Symbols /\ blind \in Nat /\ again \in Nat
  /\ again <= blind
  /\ venue = "moving" /\ todo \cap (remote \ cache) # {} => again < blind

PaperInv == Types /\ BookOK(book) /\ BookOK(file) /\ Peaks /\ Moves

(* A book shown right before the step is right after it, when it becomes the engine's. *)
LEMMA NextBook ==
  ASSUME world' = world, clock' = clock, NEW c, BookOK(c), book' = c PROVE BookOK(book)'
  BY DEF BookOK, Sound, Synced, Timed, Dated, Refreshed, Balanced, Listed, Held, Calm, Fields,
       slotOf, Profit, Stake, Upnl

(* The same of the book that is saved. *)
LEMMA NextFile ==
  ASSUME world' = world, clock' = clock, NEW c, BookOK(c), file' = c PROVE BookOK(file)'
  BY DEF BookOK, Sound, Synced, Timed, Dated, Refreshed, Balanced, Listed, Held, Calm, Fields,
       slotOf, Profit, Stake, Upnl

(* The parts of a world. *)
LEMMA WorldParts ==
  ASSUME world \in Worlds
  PROVE  /\ world.symbols \subseteq Symbols /\ world.prices \subseteq Prices /\ world.qtys \subseteq Nat \ {0}
         /\ world.dirs \subseteq {1, -1} /\ world.fills \in 0 .. MaxFills
  BY PaperAssumption

(* A fill's price with its slippage is positive or zero. *)
LEMMA FillPrices ==
  ASSUME NEW dir \in {1, -1}, NEW price \in Prices PROVE price \in Int /\ price + dir * Slip \in Nat
<1>1. price \in Nat /\ Slip \in Nat /\ price >= Slip
  BY PaperAssumption
<1>2. dir * Slip = Slip \/ dir * Slip = -Slip
  BY <1>1
<1>3. QED
  BY <1>1, <1>2

(* A held symbol is one of the world's and its position is typed. *)
LEMMA HeldParts ==
  ASSUME NEW b, Sound(b), NEW s \in Held(b)
  PROVE  s \in Symbols /\ s \in world.symbols /\ b.pos[s] \in Positions /\ b.pos[s] # None
  BY DEF Sound, Held, Listed, Fields

(* Every call ends with Commit. *)
LEMMA Committed ==
  ASSUME clock \in 0 .. MaxClock, world' = world, clock' = clock, NEW b, Sound(b), Timed(b), book' = syncEquity(b)
  PROVE  BookOK(book)'
<1> DEFINE c == syncEquity(b)
<1>1. Sound(c) /\ Synced(c) /\ c.pos = b.pos /\ c.slot = b.slot /\ c.start = b.start
  BY SyncSound
<1> HIDE DEF c
<1>2. \A s \in Held(c) : Carried(b.pos[s], c.pos[s])
  BY <1>1 DEF Held, Carried
<1>3. Timed(c)
  BY <1>1, <1>2, TimedKept
<1>4. BookOK(c)
  BY <1>1, <1>3 DEF BookOK
<1>5. QED
  BY <1>4, NextBook DEF c

(* openPosition: opened, added to, or flipped. *)
LEMMA OpenBook ==
  ASSUME world \in Worlds, clock \in 0 .. MaxClock, Sound(book), Timed(book),
         NEW s \in world.symbols, NEW dir \in {1, -1}, NEW n \in Nat \ {0}, NEW price \in Prices,
         NEW stop \in Prices \cup {None}, NEW target \in Prices \cup {None}
  PROVE  LET c == openPosition(s, dir, n, price, stop, target) IN Sound(c) /\ Timed(c)
<1> DEFINE p == book.pos[s]
           fill == fillPrice(dir, price, TRUE)
           c == openPosition(s, dir, n, price, stop, target)
           r == reduce(book, s, p.qty, price)
<1>1. s \in Symbols /\ price \in Int /\ fill \in Nat /\ p \in Positions \cup {None}
  <2>1. s \in Symbols
    BY WorldParts
  <2>2. price \in Int /\ fill \in Nat
    BY FillPrices DEF fillPrice
  <2>3. p \in Positions \cup {None}
    BY <2>1 DEF Sound, Fields
  <2>4. QED
    BY <2>1, <2>2, <2>3
<1>2. c = IF p = None THEN createPosition(book, s, dir, n, fill, stop, target)
          ELSE IF p.dir = dir THEN scaleIn(book, s, n, fill, stop, target)
          ELSE createPosition(r, s, dir, n, fill, stop, target)
  BY DEF openPosition
<1> HIDE DEF p, fill, c
<1>3. SUFFICES /\ Sound(c) /\ c.slot = book.slot /\ c.start = book.start
               /\ \A t \in Symbols \ {s} : c.pos[t] = book.pos[t]
               /\ Carried(p, c.pos[s])
  <2>1. ASSUME NEW t \in Held(c) PROVE Carried(book.pos[t], c.pos[t])
    <3>1. t \in Symbols /\ c.pos[t] # None
      BY DEF Held
    <3>2. CASE t = s
      BY <1>3, <3>2 DEF p
    <3>3. CASE t # s
      BY <1>3, <3>1, <3>3 DEF Carried
    <3>4. QED
      BY <3>2, <3>3
  <2>2. Timed(c)
    BY <1>3, <2>1, TimedKept
  <2>3. QED
    BY <1>3, <2>2 DEF c
<1>4. CASE p = None
  <2>1. c = createPosition(book, s, dir, n, fill, stop, target) /\ book.pos[s] = None
    BY <1>2, <1>4 DEF p
  <2>2. /\ Sound(c) /\ c.slot = book.slot /\ c.start = book.start
        /\ \A t \in Symbols \ {s} : c.pos[t] = book.pos[t]
        /\ c.pos[s] \in Positions /\ Fresh(c.pos[s])
    BY SMTT(60), <1>1, <2>1, CreateSound
  <2>3. QED
    BY <2>2 DEF Carried
<1>5. CASE p # None /\ p.dir = dir
  <2>1. c = scaleIn(book, s, n, fill, stop, target) /\ book.pos[s] \in Positions
    BY <1>1, <1>2, <1>5 DEF p
  <2>2. book.pos[s].opened <= clock
    BY <1>1, <1>5 DEF Timed, Held, Dated, p
  <2>3. /\ Sound(c) /\ c.slot = book.slot /\ c.start = book.start
        /\ \A t \in Symbols \ {s} : c.pos[t] = book.pos[t]
        /\ c.pos[s] \in Positions /\ c.pos[s].born = book.pos[s].born
        /\ c.pos[s].opened \in book.pos[s].opened .. clock
        /\ c.pos[s].charged = book.pos[s].charged /\ c.pos[s].scaled
    BY <1>1, <2>1, <2>2, ScaleSound
  <2>4. QED
    BY <1>5, <2>3 DEF Carried, p
<1>6. CASE p # None /\ p.dir # dir
  <2>1. c = createPosition(r, s, dir, n, fill, stop, target)
    BY <1>2, <1>6
  <2>2. book.pos[s] \in Positions /\ book.pos[s] = p /\ p.qty \in Nat \ {0} /\ p.qty >= book.pos[s].qty
    BY <1>1, <1>6, PositionFields DEF p
  <2>3. Loose(book, s)
    BY SoundIsLoose
  <2>4. /\ Sound(r) /\ r.slot = book.slot /\ r.start = book.start
        /\ \A t \in Symbols \ {s} : r.pos[t] = book.pos[t]
        /\ r.pos[s] = None
    BY <1>1, <2>2, <2>3, ReduceSound
  <2> HIDE DEF r
  <2>5. /\ Sound(c) /\ c.slot = r.slot /\ c.start = r.start
        /\ \A t \in Symbols \ {s} : c.pos[t] = r.pos[t]
        /\ c.pos[s] \in Positions /\ Fresh(c.pos[s])
    BY <1>1, <2>1, <2>4, CreateSound, SMTT(60)
  <2>6. QED
    BY <2>4, <2>5 DEF Carried
<1>7. QED
  BY <1>4, <1>5, <1>6

(* A call that leaves every position's dates, or closes it. *)
LEMMA KeptTimed ==
  ASSUME clock \in 0 .. MaxClock, NEW b, Sound(b), Timed(b), NEW c, Sound(c), c.slot = b.slot, c.start = b.start,
         \A s \in Symbols : c.pos[s] = b.pos[s] \/ (b.pos[s] # None /\ Kept(b.pos[s], c.pos[s])) \/ c.pos[s] = None
  PROVE  Timed(c)
<1>1. ASSUME NEW s \in Held(c) PROVE Carried(b.pos[s], c.pos[s])
  <2>1. s \in Symbols /\ c.pos[s] # None
    BY DEF Held
  <2>2. CASE c.pos[s] = b.pos[s]
    BY <2>1, <2>2 DEF Carried
  <2>3. CASE b.pos[s] # None /\ Kept(b.pos[s], c.pos[s])
    BY <2>1, <2>3, Zenon DEF Carried, Kept
  <2>4. QED
    BY <2>1, <2>2, <2>3
<1>2. QED
  BY <1>1, TimedKept

----------------------------------------------------------------------------
(* What each action does to the book *)

LEMMA BookNext ==
  ASSUME Types, BookOK(book), BookOK(file), Next, clock' = clock, world' = world
  PROVE  BookOK(book)'
<1>0. /\ world \in Worlds /\ clock \in 0 .. MaxClock /\ Sound(book) /\ Synced(book) /\ Timed(book)
      /\ last \in [Symbols -> Prices \cup {None}]
  BY DEF Types, BookOK
<1>1. CASE UNCHANGED book
  BY <1>1, NextBook
<1>2. CASE book' = file
  BY <1>2, NextBook
<1>3. CASE Open
  <2>1. Levels \subseteq Prices \cup {None}
    BY <1>0, WorldParts DEF Levels
  <2>2. PICK s \in world.symbols, dir \in world.dirs, n \in world.qtys, stop \in Levels, target \in Levels :
          \E price \in (IF last[s] = None THEN world.prices ELSE {last[s]}) :
            Commit(openPosition(s, dir, n, price, stop, target))
    BY <1>3 DEF Open
  <2>3. PICK price \in (IF last[s] = None THEN world.prices ELSE {last[s]}) :
          Commit(openPosition(s, dir, n, price, stop, target))
    BY <2>2
  <2>4. s \in Symbols /\ price \in Prices /\ dir \in {1, -1} /\ n \in Nat \ {0}
    BY <1>0, WorldParts
  <2>5. stop \in Prices \cup {None} /\ target \in Prices \cup {None}
    BY <2>1
  <2> DEFINE c == openPosition(s, dir, n, price, stop, target)
  <2>6. Sound(c) /\ Timed(c)
    BY <1>0, <2>4, <2>5, OpenBook
  <2>7. book' = syncEquity(c)
    BY <2>3 DEF Commit
  <2> HIDE DEF c
  <2>8. QED
    BY <1>0, <2>6, <2>7, Committed
<1>4. CASE Reduce
  <2>1. PICK s \in Held(book), n \in Nat \ {0} :
          Commit(reduce(book, s, n, IF last[s] = None THEN book.pos[s].mark ELSE last[s]))
    <3>1. PICK s \in Held(book) : \E n \in 1 .. book.pos[s].qty :
            Commit(reduce(book, s, n, IF last[s] = None THEN book.pos[s].mark ELSE last[s]))
      BY <1>4 DEF Reduce
    <3>2. book.pos[s].qty \in Nat
      BY <1>0, HeldParts, PositionFields
    <3>3. QED
      BY <3>1, <3>2
  <2> DEFINE raw == IF last[s] = None THEN book.pos[s].mark ELSE last[s]
             c == reduce(book, s, n, raw)
  <2>2. s \in Symbols /\ s \in world.symbols /\ book.pos[s] \in Positions /\ book.pos[s] # None
    BY <1>0, HeldParts
  <2>3. raw \in Int
    BY <1>0, <2>2, PositionFields, PaperAssumption
  <2> HIDE DEF raw
  <2>4. /\ Sound(c) /\ c.slot = book.slot /\ c.start = book.start
        /\ \A t \in Symbols \ {s} : c.pos[t] = book.pos[t]
        /\ Kept(book.pos[s], c.pos[s])
    BY <1>0, <2>2, <2>3, SoundIsLoose, ReduceSound
  <2>5. book' = syncEquity(c)
    BY <2>1 DEF Commit, raw
  <2> HIDE DEF c
  <2>6. Timed(c)
    BY <1>0, <2>2, <2>4, KeptTimed
  <2>7. QED
    BY <1>0, <2>4, <2>5, <2>6, Committed
<1>5. CASE updateStops
  <2>1. PICK s \in Held(book), stop \in world.prices, target \in world.prices \cup {None} :
          book' = [book EXCEPT !.pos[s].stop = stop, !.pos[s].target = target]
    BY <1>5 DEF updateStops
  <2> DEFINE c == Restopped(book, s, stop, target)
  <2>2. s \in Symbols /\ book.pos[s] # None /\ stop \in Prices \cup {None} /\ target \in Prices \cup {None}
    BY <1>0, WorldParts, HeldParts
  <2>3. /\ Sound(c) /\ Synced(c) /\ c.slot = book.slot /\ c.start = book.start
        /\ \A t \in Symbols \ {s} : c.pos[t] = book.pos[t]
        /\ Kept(book.pos[s], c.pos[s])
    <3>1. Sound(book)
      BY <1>0
    <3>2. Synced(book)
      BY <1>0
    <3>3. s \in Held(book)
      OBVIOUS
    <3>4. QED
      BY <3>1, <3>2, <3>3, <2>2, StopsSound
  <2>4. book' = c
    BY <1>0, <2>1, <2>2 DEF Sound, Fields, Restopped
  <2> HIDE DEF c
  <2>5. Timed(c)
    BY <1>0, <2>2, <2>3, KeptTimed
  <2>6. BookOK(c)
    BY <2>3, <2>5 DEF BookOK
  <2>7. QED
    BY <2>4, <2>6, NextBook
<1>6. CASE markAll
  <2>1. PICK prices \in [world.symbols -> world.prices] :
          Commit(FoldSet(LAMBDA s, b : markOne(b, s, prices[s]), book, Held(book)))
    BY <1>6, Zenon DEF markAll
  <2> DEFINE c == FoldSet(LAMBDA s, b : markOne(b, s, prices[s]), book, Held(book))
  <2>2. /\ Sound(c) /\ c.slot = book.slot /\ c.start = book.start
        /\ \A s \in Symbols : IF book.pos[s] = None THEN c.pos[s] = None ELSE Kept(book.pos[s], c.pos[s])
    BY <1>0, MarkAllSound, Zenon
  <2>3. book' = syncEquity(c)
    BY <2>1, Zenon DEF Commit
  <2> HIDE DEF c
  <2>4. Timed(c)
    BY <1>0, <2>2, KeptTimed
  <2>5. QED
    BY <1>0, <2>2, <2>3, <2>4, Committed
<1>7. CASE accrueFunding
  <2>1. slotOf(clock) \in -1 .. slotOf(MaxClock)
    BY <1>0, SlotTypes DEF Sound
  <2>2. CASE book.slot = -1 /\ book' = [book EXCEPT !.slot = slotOf(clock), !.start = IF @ = -1 THEN slotOf(clock) ELSE @]
    <3> DEFINE c == [book EXCEPT !.slot = slotOf(clock), !.start = IF book.start = -1 THEN slotOf(clock) ELSE book.start]
    <3>1. /\ c \in Fields /\ c.pos = book.pos /\ c.wallet = book.wallet /\ c.cash = book.cash /\ c.equity = book.equity
          /\ c.slot = slotOf(clock) /\ c.start = IF book.start = -1 THEN slotOf(clock) ELSE book.start
      BY <1>0, <2>1 DEF Sound, Fields
    <3>2. book' = c
      BY <2>2
    <3> HIDE DEF c
    <3>3. Sound(c) /\ Synced(c)
      BY <1>0, <3>1, SamePositions
    <3>4. Timed(c)
      BY <1>0, <2>2, <3>1, <3>3, TimedStarted
    <3>5. BookOK(c)
      BY <3>3, <3>4 DEF BookOK
    <3>6. QED
      BY <3>2, <3>5, NextBook
  <2>3. CASE /\ book.slot >= 0 /\ slotOf(clock) > book.slot
             /\ \E rated \in SUBSET Held(book) :
                  /\ ~May("norate") => rated = Held(book)
                  /\ Commit([FoldSet(LAMBDA s, b : accrueOne(b, s), book, rated) EXCEPT !.slot = slotOf(clock)])
    <3>1. PICK rated \in SUBSET Held(book) :
            /\ ~May("norate") => rated = Held(book)
            /\ Commit([FoldSet(LAMBDA s, b : accrueOne(b, s), book, rated) EXCEPT !.slot = slotOf(clock)])
      BY <2>3, Zenon
    <3> DEFINE b == FoldSet(LAMBDA s, c : accrueOne(c, s), book, rated)
               c == [b EXCEPT !.slot = slotOf(clock)]
    <3>2. /\ Sound(b) /\ b.slot = book.slot /\ b.start = book.start
          /\ \A s \in Symbols : IF s \in rated THEN Charged(book, book.pos[s], b.pos[s]) ELSE b.pos[s] = book.pos[s]
      BY <1>0, AccrueAllSound, Zenon
    <3>3. book' = syncEquity(c)
      BY <3>1, Zenon DEF Commit
    <3> HIDE DEF b
    <3>4. /\ c \in Fields /\ c.pos = b.pos /\ c.wallet = b.wallet /\ c.cash = b.cash
          /\ c.slot = slotOf(clock) /\ c.start = b.start
      BY <2>1, <3>2 DEF Sound, Fields
    <3> HIDE DEF c
    <3>5. Sound(c)
      BY <3>2, <3>4, SamePositions
    <3>6. Calm => rated = Held(book)
      BY <3>1 DEF Calm, May
    <3>7. Timed(c)
      BY <1>0, <2>3, <3>2, <3>4, <3>5, <3>6, TimedAccrued
    <3>8. QED
      BY <1>0, <3>3, <3>5, <3>7, Committed
  <2>4. QED
    BY <1>7, <2>2, <2>3, Zenon DEF accrueFunding
<1>8. CASE Shutdown
  <2>1. book' = flushed /\ ~Calm
    BY <1>8 DEF Shutdown, Load, Fault, May, Calm
  <2> DEFINE c == flushed
  <2>2. /\ c \in Fields /\ c.pos = book.pos /\ c.wallet = book.wallet /\ c.cash = book.cash /\ c.equity = book.equity
        /\ c.slot = -1 /\ c.start = book.start
    <3>1. slotOf(MaxClock) \in Int /\ slotOf(MaxClock) >= 0
      BY Parameters, Slots
    <3>2. QED
      BY <1>0, <3>1 DEF Sound, Fields, flushed
  <2> HIDE DEF c
  <2>3. Sound(c) /\ Synced(c)
    BY <1>0, <2>2, SamePositions
  <2>4. Timed(c)
    BY <1>0, <2>1, <2>2, <2>3, TimedFlushed
  <2>5. BookOK(c)
    BY <2>3, <2>4 DEF BookOK
  <2>6. QED
    BY <2>1, <2>5, NextBook DEF c
<1>9. ASSUME NEW gone \in SUBSET Symbols, Commit(dropSymbols(book, gone)) PROVE BookOK(book)'
  <2> DEFINE c == dropSymbols(book, gone)
  <2>1. /\ Sound(c) /\ c.slot = book.slot /\ c.start = book.start
        /\ \A s \in Symbols : c.pos[s] = IF s \in gone THEN None ELSE book.pos[s]
    BY <1>0, DropSound
  <2>2. book' = syncEquity(c)
    BY <1>9 DEF Commit
  <2> HIDE DEF c
  <2>3. Timed(c)
    BY <1>0, <2>1, KeptTimed
  <2>4. QED
    BY <1>0, <2>1, <2>2, <2>3, Committed
<1>10. CASE dropUnlistedSymbols
  <2>1. PICK s \in Held(book) : Commit(dropSymbols(book, {s}))
    BY <1>10 DEF dropUnlistedSymbols
  <2>2. {s} \in SUBSET Symbols
    BY DEF Held
  <2>3. QED
    BY <1>9, <2>1, <2>2
<1>11. CASE MoveDone
  BY <1>9, <1>11 DEF MoveDone
<1>12. CASE Crash \/ StartRemote
  <2>1. book' = file
    BY <1>12 DEF Crash, StartRemote, Load
  <2>2. QED
    BY <1>2, <2>1
<1>13. CASE persist \/ observe \/ resetRiskBaseline \/ InitVenue \/ MoveOne \/ RemoteCloses \/ Tick \/ Moved
  <2>1. UNCHANGED book
    BY <1>13 DEF persist, observe, resetRiskBaseline, InitVenue, MoveOne, RemoteCloses, Tick, Moved,
         engineVars, vars
  <2>2. QED
    BY <1>1, <2>1
<1>14. QED
  BY <1>3, <1>4, <1>5, <1>6, <1>7, <1>8, <1>10, <1>11, <1>12, <1>13, Zenon DEF Next

(* Every step that leaves the clock leaves a right file: the old one, the book saved, or a fresh one. *)
LEMMA FileNext ==
  ASSUME Types, BookOK(book), BookOK(file), Next, clock' = clock, world' = world
  PROVE  BookOK(file)'
<1>1. UNCHANGED file \/ file' = book \/ (Shutdown /\ file' = book')
  <2>1. CASE Open \/ Reduce \/ dropUnlistedSymbols \/ MoveDone \/ markAll
    BY <2>1, Zenon DEF Open, Reduce, dropUnlistedSymbols, MoveDone, markAll, Commit
  <2>2. CASE updateStops
    BY <2>2 DEF updateStops
  <2>3. CASE accrueFunding
    BY <2>3, Zenon DEF accrueFunding, Commit
  <2>4. CASE persist \/ Crash \/ StartRemote
    BY <2>4 DEF persist, Crash, StartRemote
  <2>5. CASE Shutdown
    BY <2>5 DEF Shutdown, Load
  <2>6. CASE observe \/ resetRiskBaseline \/ InitVenue \/ MoveOne \/ RemoteCloses \/ Tick \/ Moved
    BY <2>6 DEF observe, resetRiskBaseline, InitVenue, MoveOne, RemoteCloses, Tick, Moved, engineVars, vars
  <2>7. QED
    BY <2>1, <2>2, <2>3, <2>4, <2>5, <2>6, Zenon DEF Next
<1>2. CASE UNCHANGED file
  BY <1>2, NextFile
<1>3. CASE file' = book
  BY <1>3, NextFile
<1>4. CASE file' = book'
  <2>1. BookOK(book)'
    BY BookNext
  <2>2. QED
    BY <1>4, <2>1 DEF BookOK, Sound, Synced, Timed, Dated, Refreshed, Balanced, Listed, Held, Calm,
         Fields, slotOf, Profit, Stake, Upnl
<1>5. QED
  BY <1>1, <1>2, <1>3, <1>4

(* The clock moves and nothing else does. *)
LEMMA TickBooks ==
  ASSUME Types, BookOK(book), BookOK(file), Tick, Types'
  PROVE  BookOK(book)' /\ BookOK(file)'
<1>1. /\ clock \in 0 .. MaxClock /\ clock' \in 0 .. MaxClock /\ clock' = clock + 1 /\ world' = world
      /\ book' = book /\ file' = file
  BY DEF Types, Tick, engineVars
<1>2. clock' >= clock
  BY <1>1, Parameters
<1>3. ASSUME NEW b, BookOK(b) PROVE Timed(b)' /\ Sound(b)' /\ Synced(b)'
  <2>1. Sound(b) /\ Timed(b) /\ Synced(b)
    BY <1>3 DEF BookOK
  <2>2. Timed(b)'
    BY <1>1, <1>2, <2>1, TimedLater
  <2>3. Sound(b)' /\ Synced(b)'
    BY <1>1, <2>1 DEF Sound, Synced, Refreshed, Balanced, Listed, Held, Fields, slotOf, Profit,
         Stake, Upnl
  <2>4. QED
    BY <2>2, <2>3
<1>4. BookOK(book)'
  BY <1>1, <1>3 DEF BookOK, Sound, Synced, Timed, Dated, Refreshed, Balanced, Listed, Held, Calm,
       Fields, slotOf, Profit, Stake, Upnl
<1>5. BookOK(file)'
  BY <1>1, <1>3 DEF BookOK, Sound, Synced, Timed, Dated, Refreshed, Balanced, Listed, Held, Calm,
       Fields, slotOf, Profit, Stake, Upnl
<1>6. QED
  BY <1>4, <1>5

----------------------------------------------------------------------------
(* The rest of the state *)

LEMMA TypesNext ==
  ASSUME Types, Next PROVE Types' /\ world' = world
<1> USE DEF Types
<1>1. MaxFills \in Nat /\ MaxFaults \in Nat /\ MaxClock \in Nat /\ world.fills \in 0 .. MaxFills
  BY Parameters, WorldParts
<1>2. May("file") \in BOOLEAN
  BY DEF May
<1>3. CASE Open
  <2>1. fills < world.fills /\ fills' = fills + 1 /\ timer' = May("file") /\ UNCHANGED <<world, last, clock, faults>>
    BY <1>3 DEF Open, Commit
  <2>2. QED
    BY <1>1, <1>2, <2>1
<1>4. CASE Reduce
  <2>1. fills < world.fills /\ fills' = fills + 1 /\ timer' = May("file") /\ UNCHANGED <<world, last, clock, faults>>
    BY <1>4 DEF Reduce, Commit
  <2>2. QED
    BY <1>1, <1>2, <2>1
<1>5. CASE updateStops
  BY <1>2, <1>5 DEF updateStops
<1>6. CASE markAll
  <2>1. /\ timer' = May("file") /\ UNCHANGED <<world, clock, fills, faults>>
        /\ \E prices \in [world.symbols -> world.prices] :
             last' = [s \in Symbols |-> IF s \in world.symbols THEN prices[s] ELSE None]
    BY <1>6, Zenon DEF markAll, Commit
  <2>2. world.prices \subseteq Prices
    BY WorldParts
  <2>3. QED
    BY <1>2, <2>1, <2>2
<1>7. CASE accrueFunding
  <2>1. (timer' = May("file") \/ UNCHANGED timer) /\ UNCHANGED <<world, last, clock, fills, faults>>
    BY <1>7, Zenon DEF accrueFunding, Commit
  <2>2. QED
    BY <1>2, <2>1
<1>8. CASE persist
  <2>1. UNCHANGED <<world, last, clock, fills>> /\ (UNCHANGED faults \/ (faults < MaxFaults /\ faults' = faults + 1))
    BY <1>8 DEF persist, Fault
  <2>2. timer' \in BOOLEAN
    BY <1>8, Zenon DEF persist
  <2>3. QED
    BY <1>1, <2>1, <2>2
<1>9. CASE observe
  BY <1>1, <1>9 DEF observe, Fault, engineVars
<1>10. CASE resetRiskBaseline
  BY <1>10 DEF resetRiskBaseline, engineVars
<1>11. CASE Crash
  <2>1. /\ UNCHANGED <<world, clock, fills>> /\ faults < MaxFaults /\ faults' = faults + 1
        /\ last' = [s \in Symbols |-> None]
    BY <1>11 DEF Crash, Fault, Load
  <2>2. timer' \in BOOLEAN
    BY <1>11, Zenon DEF Crash, Load
  <2>3. QED
    BY <1>1, <2>1, <2>2
<1>12. CASE Shutdown
  <2>1. /\ UNCHANGED <<world, clock, fills>> /\ faults < MaxFaults /\ faults' = faults + 1
        /\ last' = [s \in Symbols |-> None]
    BY <1>12 DEF Shutdown, Fault, Load
  <2>2. timer' \in BOOLEAN
    BY <1>12, Zenon DEF Shutdown, Load
  <2>3. QED
    BY <1>1, <2>1, <2>2
<1>13. CASE dropUnlistedSymbols
  <2>1. fills' = world.fills /\ timer' = May("file") /\ UNCHANGED <<world, last, clock, faults>>
    BY <1>13 DEF dropUnlistedSymbols, Commit
  <2>2. QED
    BY <1>1, <1>2, <2>1
<1>14. CASE StartRemote
  BY <1>14 DEF StartRemote, Load
<1>15. CASE InitVenue \/ MoveOne
  <2>1. UNCHANGED <<world, timer, last, clock, fills>>
    BY <1>15 DEF InitVenue, MoveOne, engineVars
  <2>2. UNCHANGED faults \/ (faults < MaxFaults /\ faults' = faults + 1)
    BY <1>15, Zenon DEF InitVenue, MoveOne, open, Fault
  <2>3. QED
    BY <1>1, <2>1, <2>2
<1>16. CASE MoveDone
  BY <1>2, <1>16 DEF MoveDone, Commit
<1>17. CASE RemoteCloses
  BY <1>17 DEF RemoteCloses, engineVars
<1>18. CASE Tick
  BY <1>1, <1>18 DEF Tick, engineVars
<1>19. CASE Moved
  BY <1>19 DEF Moved, vars, engineVars
<1>20. QED
  BY <1>3, <1>4, <1>5, <1>6, <1>7, <1>8, <1>9, <1>10, <1>11, <1>12, <1>13, <1>14, <1>15, <1>16,
       <1>17, <1>18, <1>19, Zenon DEF Next

(* Only the tick moves the clock. *)
LEMMA ClockNext == ASSUME Next PROVE UNCHANGED clock \/ Tick
<1>1. CASE Open \/ Reduce \/ updateStops \/ markAll \/ accrueFunding \/ dropUnlistedSymbols \/ MoveDone
  BY <1>1, Zenon DEF Open, Reduce, updateStops, markAll, accrueFunding, dropUnlistedSymbols,
       MoveDone
<1>2. CASE persist \/ observe \/ resetRiskBaseline \/ Crash \/ Shutdown \/ StartRemote
            \/ InitVenue \/ MoveOne \/ RemoteCloses \/ Moved
  BY <1>2 DEF persist, observe, resetRiskBaseline, Crash, Shutdown, StartRemote, InitVenue, MoveOne,
       RemoteCloses, Moved, vars
<1>3. QED
  BY <1>1, <1>2, Zenon DEF Next

(* The peak, the reset and the restarts. *)
LEMMA PeaksNext == ASSUME Peaks, book.equity \in Int, Next PROVE Peaks'
<1> USE DEF Peaks
<1>1. CASE UNCHANGED hwmVars
  BY <1>1 DEF hwmVars
<1>2. CASE observe
  <2>1. /\ book.equity > 0 /\ seen' = Max({seen, book.equity}) /\ UNCHANGED baseline
        /\ IF book.equity > hwm.peak
             THEN hwm' = [hwm EXCEPT !.peak = book.equity] /\ (hwmFile' = hwm' \/ UNCHANGED hwmFile)
             ELSE UNCHANGED <<hwm, hwmFile>>
    BY <1>2 DEF observe
  <2>2. seen' \in Nat /\ seen' >= seen /\ seen' >= book.equity
    <3>1. seen \in Int
      OBVIOUS
    <3>2. Max({seen, book.equity}) \in {seen, book.equity} /\ Max({seen, book.equity}) >= seen
          /\ Max({seen, book.equity}) >= book.equity
      BY <3>1, Greater
    <3>3. QED
      BY <2>1, <3>2
  <2>3. CASE book.equity > hwm.peak
    <3>1. /\ hwm' \in [peak : Nat, reset : 0 .. 1] /\ hwm'.peak = book.equity /\ hwm'.reset = hwm.reset
          /\ (hwmFile' = hwm' \/ UNCHANGED hwmFile)
      BY <2>1, <2>3
    <3>2. QED
      BY <2>1, <2>2, <3>1
  <2>4. CASE ~(book.equity > hwm.peak)
    <3>1. UNCHANGED <<hwm, hwmFile>>
      BY <2>1, <2>4
    <3>2. QED
      BY <2>1, <2>2, <3>1
  <2>5. QED
    BY <2>3, <2>4
<1>3. CASE resetRiskBaseline
  <2>1. /\ baseline = "kept" /\ hwmFile' = [peak |-> 0, reset |-> hwmFile.reset + 1] /\ seen' = 0
        /\ baseline' = "reset" /\ UNCHANGED hwm
    BY <1>3 DEF resetRiskBaseline, resetSnapshot
  <2>2. hwmFile'.peak = 0 /\ hwmFile' \in [peak : Nat, reset : 0 .. 1]
    BY <2>1
  <2>3. QED
    BY <2>1, <2>2
<1>4. CASE Crash \/ Shutdown \/ StartRemote
  <2>1. hwm' = hwmFile /\ UNCHANGED <<hwmFile, seen>> /\ baseline' = IF baseline = "reset" THEN "loaded" ELSE baseline
    BY <1>4 DEF Crash, Shutdown, StartRemote, Load
  <2>2. QED
    BY <2>1
<1>5. CASE Open \/ Reduce \/ updateStops \/ markAll \/ accrueFunding \/ dropUnlistedSymbols \/ MoveDone
  <2>1. UNCHANGED hwmVars
    BY <1>5, Zenon DEF Open, Reduce, updateStops, markAll, accrueFunding, dropUnlistedSymbols,
         MoveDone
  <2>2. QED
    BY <1>1, <2>1
<1>6. CASE persist \/ InitVenue \/ MoveOne \/ RemoteCloses \/ Tick \/ Moved
  <2>1. UNCHANGED hwmVars
    BY <1>6 DEF persist, InitVenue, MoveOne, RemoteCloses, Tick, Moved, vars
  <2>2. QED
    BY <1>1, <2>1
<1>7. QED
  BY <1>2, <1>3, <1>4, <1>5, <1>6, Zenon DEF Next

(* The move to a remote venue. *)
LEMMA MovesNext == ASSUME Moves, Next PROVE Moves'
<1> USE DEF Moves
<1>1. CASE UNCHANGED moveVars
  BY <1>1 DEF moveVars
<1>2. CASE Crash
  BY <1>2 DEF Crash
<1>3. CASE StartRemote
  BY <1>3 DEF StartRemote
<1>4. CASE MoveDone
  BY <1>4 DEF MoveDone
<1>5. CASE InitVenue
  <2>1. /\ venue' = "moving" /\ todo' \subseteq Symbols /\ UNCHANGED <<remote, again>>
        /\ \/ cache' = remote /\ UNCHANGED blind
           \/ cache' = {} /\ blind' = blind + 1
    BY <1>5 DEF InitVenue, Fault, Held
  <2>2. QED
    BY <2>1
<1>6. CASE MoveOne
  <2>1. venue = "moving" /\ UNCHANGED <<venue, blind>>
    BY <1>6 DEF MoveOne
  <2>2. PICK s \in todo : /\ todo' = todo \ {s}
                         /\ IF missingRemote(s) THEN open(s) ELSE UNCHANGED <<remote, cache, again, faults>>
    BY <1>6 DEF MoveOne
  <2>3. CASE UNCHANGED <<remote, cache, again>>
    BY <2>1, <2>2, <2>3
  <2>4. CASE cache' = remote /\ UNCHANGED <<remote, again>>
    BY <2>1, <2>2, <2>4
  <2>5. CASE /\ s \notin cache /\ remote' = remote \cup {s} /\ cache' \in {remote, remote'}
             /\ again' = IF s \in remote THEN again + 1 ELSE again
    <3>1. s \in Symbols /\ s \notin todo' /\ remote' \ cache' \subseteq {s}
      BY <2>2, <2>5
    <3>2. again' \in Nat /\ again' <= blind
      BY <2>1, <2>2, <2>5
    <3>3. QED
      BY <2>1, <2>2, <2>5, <3>1, <3>2
  <2>6. QED
    BY <2>2, <2>3, <2>4, <2>5 DEF missingRemote, open, Fault
<1>7. CASE RemoteCloses
  <2>1. \E s \in remote : remote' = remote \ {s}
    BY <1>7 DEF RemoteCloses
  <2>2. UNCHANGED <<venue, todo, cache, blind, again>>
    BY <1>7 DEF RemoteCloses
  <2>3. QED
    BY <2>1, <2>2
<1>8. CASE Open \/ Reduce \/ updateStops \/ markAll \/ accrueFunding \/ dropUnlistedSymbols
  <2>1. UNCHANGED moveVars
    BY <1>8, Zenon DEF Open, Reduce, updateStops, markAll, accrueFunding, dropUnlistedSymbols
  <2>2. QED
    BY <1>1, <2>1
<1>9. CASE persist \/ observe \/ resetRiskBaseline \/ Shutdown \/ Tick \/ Moved
  <2>1. UNCHANGED moveVars
    BY <1>9 DEF persist, observe, resetRiskBaseline, Shutdown, Tick, Moved, vars
  <2>2. QED
    BY <1>1, <2>1
<1>10. QED
  BY <1>2, <1>3, <1>4, <1>5, <1>6, <1>7, <1>8, <1>9, Zenon DEF Next

----------------------------------------------------------------------------
(* The theorems *)

LEMMA EmptyBookOK ==
  ASSUME world \in Worlds, clock = 0 PROVE BookOK(EmptyBook)
<1> DEFINE b == EmptyBook
           z == [s \in Symbols |-> 0]
<1>1. Initial \in Nat /\ MaxTrades \in Nat /\ MaxClock \in Nat
  BY Parameters
<1>2. slotOf(MaxClock) \in Int /\ slotOf(MaxClock) >= 0 /\ slotOf(0) \in Int /\ slotOf(0) >= 0
  BY <1>1, Slots
<1>3. b \in Fields /\ b.wallet = Initial /\ b.cash = Initial /\ b.equity = Initial /\ b.slot = -1 /\ b.start = -1
  BY <1>1, <1>2 DEF EmptyBook, Fields
<1>4. \A s \in Symbols : b.pos[s] = None
  BY DEF EmptyBook
<1> HIDE DEF b
<1>5. Held(b) = {}
  BY <1>4 DEF Held
<1>6. SumFunction(z) = 0
  <2>1. z \in [Symbols -> Int] /\ \A s \in Symbols : z[s] = z[s] + z[s]
    OBVIOUS
  <2> HIDE DEF z
  <2>2. SumFunction(z) = SumFunction(z) + SumFunction(z) /\ SumFunction(z) \in Int
    BY <2>1, Finite, SumPlus, SumType
  <2> DEFINE v == SumFunction(z)
  <2>3. v = v + v /\ v \in Int
    BY <2>2
  <2> HIDE DEF v
  <2>4. v = 0
    BY <2>3
  <2>5. QED
    BY <2>4 DEF v
<1>7. [s \in Symbols |-> Stake(b.pos[s])] = z /\ [s \in Symbols |-> Upnl(b.pos[s])] = z
  <2>1. Stake(None) = 0 /\ Upnl(None) = 0
    BY DEF Stake, Upnl
  <2>2. QED
    BY <1>4, <2>1
<1>8. Balanced(b) /\ Synced(b)
  BY <1>1, <1>3, <1>6, <1>7 DEF Balanced, Synced
<1>9. Sound(b)
  BY <1>3, <1>5, <1>8 DEF Sound, Refreshed, Listed
<1>10. Timed(b)
  BY <1>2, <1>3, <1>5 DEF Timed
<1>11. QED
  BY <1>8, <1>9, <1>10 DEF BookOK, b

(* The invariant holds at the start. *)
LEMMA InitInv == ASSUME Init PROVE PaperInv
<1>1. Types
  <2>1. world \in Worlds /\ last \in [Symbols -> Prices \cup {None}] /\ clock \in 0 .. MaxClock
        /\ fills \in 0 .. MaxFills /\ faults \in 0 .. MaxFaults
    BY Parameters DEF Init
  <2>2. timer \in BOOLEAN
    BY Zenon DEF Init
  <2>3. QED
    BY <2>1, <2>2 DEF Types
<1>2. BookOK(book) /\ BookOK(file)
  BY EmptyBookOK DEF Init
<1>3. Peaks
  BY DEF Init, Peaks
<1>4. Moves
  BY DEF Init, Moves
<1>5. QED
  BY <1>1, <1>2, <1>3, <1>4 DEF PaperInv

(* Every step keeps the invariant. *)
LEMMA StepInv == ASSUME PaperInv, [Next]_vars PROVE PaperInv'
<1>1. CASE UNCHANGED vars
  <2>1. UNCHANGED <<world, book, file, timer, last, clock, hwm, hwmFile, seen, baseline, venue, todo, remote, cache, blind, again, fills, faults>>
    BY <1>1 DEF vars, engineVars, hwmVars, moveVars
  <2>2. Types'
    BY <2>1 DEF PaperInv, Types
  <2>3. BookOK(book)' /\ BookOK(file)'
    BY <2>1, NextBook, NextFile DEF PaperInv
  <2>4. Peaks' /\ Moves'
    BY <2>1 DEF PaperInv, Peaks, Moves
  <2>5. QED
    BY <2>2, <2>3, <2>4 DEF PaperInv
<1>2. CASE Next
  <2>1. Types' /\ world' = world
    BY <1>2, TypesNext DEF PaperInv
  <2>2. BookOK(book)' /\ BookOK(file)'
    <3>1. CASE Tick
      BY <2>1, <3>1, TickBooks DEF PaperInv
    <3>2. CASE UNCHANGED clock
      BY <1>2, <2>1, <3>2, BookNext, FileNext DEF PaperInv
    <3>3. QED
      BY <1>2, <3>1, <3>2, ClockNext
  <2>3. book.equity \in Int
    BY Totals DEF PaperInv, BookOK, Sound
  <2>4. Peaks' /\ Moves'
    BY <1>2, <2>3, PeaksNext, MovesNext DEF PaperInv
  <2>5. QED
    BY <2>1, <2>2, <2>4 DEF PaperInv
<1>3. QED
  BY <1>1, <1>2

(* Every reachable book, and every saved one, balances. *)
THEOREM PaperInvariant == Spec => []PaperInv
<1>1. Init => PaperInv
  BY InitInv
<1>2. PaperInv /\ [Next]_vars => PaperInv'
  BY StepInv
<1>3. QED
  BY <1>1, <1>2, PTL DEF Spec

(* PaperEngine, EquityHwmStore and the move keep their types: a position   *)
(* in the book or in its file is never empty, whatever the fills, fees and *)
(* funding.                                                                *)
THEOREM TypeCorrect == Spec => []TypeOK
<1>1. PaperInv => TypeOK
  <2>1. SUFFICES ASSUME PaperInv PROVE TypeOK
    OBVIOUS
  <2>2. book \in Fields /\ file \in Fields
    BY <2>1 DEF PaperInv, BookOK, Sound
  <2>3. ASSUME NEW b \in Fields
        PROVE  /\ \A s \in Symbols : b.pos[s] \in Positions \cup {None}
               /\ {b.wallet, b.equity, b.cash} \subseteq Int
               /\ b.trades \in 0 .. MaxTrades /\ {b.slot, b.start} \subseteq -1 .. slotOf(MaxClock)
    BY DEF Fields
  <2>4. QED
    BY <2>1, <2>2, <2>3 DEF PaperInv, TypeOK, Types, Peaks, Moves
<1>2. QED
  BY <1>1, PaperInvariant, PTL

(* syncEquity and reduce: the equity reported, in memory and in the file,  *)
(* is the cash of all fills, fees and funding plus the value of what is    *)
(* held.                                                                   *)
THEOREM EquityAlwaysCash == Spec => []EquityIsCash
<1>1. PaperInv => EquityIsCash
  <2>1. SUFFICES ASSUME PaperInv PROVE EquityIsCash
    OBVIOUS
  <2>2. ASSUME NEW b, Sound(b), Synced(b)
        PROVE  b.equity = b.cash + SumFunction([s \in Symbols |-> IF b.pos[s] = None THEN 0
                                                                  ELSE b.pos[s].dir * b.pos[s].qty * b.pos[s].mark])
    BY <2>2, EquityOfBook DEF Value
  <2>3. Sound(book) /\ Synced(book) /\ Sound(file) /\ Synced(file)
    BY <2>1 DEF PaperInv, BookOK
  <2>4. QED
    BY <2>2, <2>3 DEF EquityIsCash
<1>2. QED
  BY <1>1, PaperInvariant, PTL

(* accrueFunding charges a position for no boundary twice and for none it  *)
(* was not open through, and for every one up to the last accrual, across  *)
(* crashes, as long as the funding clock and the rates are there.          *)
THEOREM FundingChargedOnce == Spec => []FundingOnce
<1>1. PaperInv => FundingOnce
  <2>1. SUFFICES ASSUME PaperInv, NEW s \in Held(book)
                 PROVE  LET p == book.pos[s]
                            due == Max({0, book.slot - Max({slotOf(p.born), book.start})}) IN
                        /\ p.charged <= slotOf(clock) - slotOf(p.born)
                        /\ book.slot >= 0 /\ ~p.scaled /\ world.kinds \cap {"shut", "norate"} = {} => p.charged = due
    BY DEF FundingOnce
  <2>2. Dated(book, book.pos[s])
    BY <2>1 DEF PaperInv, BookOK, Timed
  <2>3. book.slot >= 0 => book.slot # -1
    BY <2>1, SlotTypes DEF PaperInv, BookOK, Sound, Types
  <2>4. QED
    BY <2>2, <2>3, Zenon DEF Dated, Calm
<1>2. QED
  BY <1>1, PaperInvariant, PTL

(* hwmReset: after a reset and a restart no peak from before it counts,    *)
(* even when the agent wrote its own snapshot in between.                  *)
THEOREM ResetHolds == Spec => []ResetForgets
<1>1. PaperInv => ResetForgets
  BY DEF PaperInv, Peaks, ResetForgets
<1>2. QED
  BY <1>1, PaperInvariant, PTL

(* initVenue and reconcilePaperToRemote: a position the remote venue       *)
(* already holds is opened again at most once for every start whose first  *)
(* sync failed, across crashes in the middle of the move; and never while  *)
(* the syncs succeed.                                                      *)
THEOREM MovesOnce == Spec => []MovedOnce
<1>1. PaperInv => MovedOnce
  BY DEF PaperInv, Moves, MovedOnce
<1>2. QED
  BY <1>1, PaperInvariant, PTL
=============================================================================
