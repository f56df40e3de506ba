-------------------------- MODULE Backtest_proofs --------------------------
(***************************************************************************)
(* Proofs about Backtest, for any symbols, bars, grid, profiles and fees.  *)
(* Beside the types the invariant says that a walk splits the qualified    *)
(* observations into those decided and those in the queue (Split), that    *)
(* its curve, its open book and its queue follow one another in time       *)
(* (Timely) and that its equity is its capital and the closed trades       *)
(* (Booked), and that the replay's counts in memory are those of the rows  *)
(* it has committed (Counting).                                            *)
(***************************************************************************)
EXTENDS Backtest, FiniteSetTheorems, TLAPS

Split ==
    /\ phase \in {"idle", "replay"} =>
          /\ \A p \in 1 .. Profiles : outcomes[p] = Nothing
          /\ trades = Nothing /\ book = {} /\ queue = {}
    /\ phase = "walk" =>
          /\ run.status = "COMPLETED"
          /\ DOMAIN trades \cup queue = good /\ DOMAIN trades \cap queue = {}

Timely ==
    phase = "walk" =>
        /\ \A i \in book : clock <= trades[i].exit
        /\ \A f \in Front, q \in queue : clock <= q[2]
        /\ \A f \in Front, q \in queue, i \in Taken(trades) \ book : trades[i].exit <= q[2]

\* The rows of the symbols already counted, and of the one at hand.
Past == {r \in rows : r[1] < place.symbol /\ r[1] \notin stats.errors}
Current == {r \in rows : r[1] = place.symbol}

\* No row lies beyond the place the walk has reached, and the counts are those of the rows.
Reached ==
    \A r \in rows : /\ r[1] \in Known /\ r[1] <= place.symbol
                    /\ r[1] = place.symbol => r[2] < First(place.slice)
Tallied ==
    /\ stats.errors \subseteq 1 .. place.symbol
    /\ place.symbol \in stats.errors => place.symbol \notin Known
    /\ stats.observations = Cardinality(Past) /\ written = Cardinality(Current)
    /\ place.symbol - 1 <= stats.symbols + Cardinality(stats.errors \ {place.symbol})

Counting ==
    phase \in {"idle", "replay"} =>
        /\ run.status # "COMPLETED" /\ Reached /\ Tallied
        /\ Cardinality(good) <= stats.qualified
        /\ stats.errors = {} => stats.qualified = Cardinality(good)

Booked ==
    phase = "walk" => equity = Initial[profile] + Net(trades, Taken(trades) \ book)

IInv ==
    TypeOK /\ Split /\ Timely /\ AllOrNothing /\ HeldWithinLimit /\ Booked /\ Counting /\ CountsAgree

-----------------------------------------------------------------------------
(* Sums *)

\* Induction over the subsets of a finite set: inclusion is well founded there, so a
\* smallest counterexample would exist.
LEMMA SetInduction ==
    ASSUME NEW S, IsFiniteSet(S), NEW B,
           \A T \in SUBSET S : (\A U \in SUBSET T : U # T => U \in B) => T \in B
    PROVE  S \in B
<1> DEFINE F == {T \in SUBSET S : T \notin B}
           R == StrictSubsetOrdering(S)
           W == FiniteSubsetsOf(S)
<1>1. F \subseteq W BY FS_Subset DEF FiniteSubsetsOf
<1>2. IsWellFoundedOn(R, W) BY FS_StrictSubsetOrderingWellFounded
<1>3. F # {} => \E T \in F : \A U \in F : <<U, T>> \notin R
  <2> HIDE DEF F, R, W
  <2> QED BY <1>1, <1>2, WFMin
<1>4. ASSUME NEW T \in F, \A U \in F : <<U, T>> \notin R PROVE FALSE
  <2>1. \A U \in SUBSET T : U # T => U \in B BY <1>4 DEF StrictSubsetOrdering
  <2> QED BY <2>1
<1> QED BY <1>3, <1>4

Pick(s) == CHOOSE x \in s : TRUE

\* g adds up the values of f over every part of S: in the order of the library's fold,
\* and in any order.
Folds(g, f, S) == g = [T \in SUBSET S |-> IF T = {} THEN 0 ELSE f[Pick(T)] + g[T \ {Pick(T)}]]
Sums(g, f, S) ==
    /\ g \in [SUBSET S -> Int] /\ g[{}] = 0
    /\ \A T \in SUBSET S : \A x \in T : g[T] = g[T \ {x}] + f[x]

LEMMA SumsExist ==
    ASSUME NEW S, IsFiniteSet(S), NEW f, \A x \in S : f[x] \in Int
    PROVE  \E g : Sums(g, f, S)
<1> DEFINE B == {T \in SUBSET S : \E g : Sums(g, f, T)}
<1>1. ASSUME NEW T \in SUBSET S, \A U \in SUBSET T : U # T => U \in B
      PROVE  T \in B
  <2>1. CASE T = {}
    <3>1. Sums([U \in SUBSET T |-> 0], f, T) BY <2>1 DEF Sums
    <3> QED BY <3>1
  <2>2. ASSUME NEW x \in T PROVE T \in B
    <3>1. PICK g : Sums(g, f, T \ {x}) BY <1>1
    <3> DEFINE h == [U \in SUBSET T |-> IF x \in U THEN g[U \ {x}] + f[x] ELSE g[U]]
    <3>2. \A U \in SUBSET (T \ {x}) : g[U] \in Int BY <3>1 DEF Sums
    <3>3. f[x] \in Int /\ \A y \in T : f[y] \in Int BY <1>1
    <3>4. h \in [SUBSET T -> Int] BY <3>2, <3>3
    <3>5. h[{}] = 0 BY <3>1 DEF Sums
    <3>6. ASSUME NEW U \in SUBSET T, NEW y \in U PROVE h[U] = h[U \ {y}] + f[y]
      <4>1. CASE y = x BY <4>1
      <4>2. CASE y # x /\ x \in U
        <5>1. g[U \ {x}] = g[(U \ {x}) \ {y}] + f[y] BY <3>1, <4>2 DEF Sums
        <5>2. (U \ {x}) \ {y} = (U \ {y}) \ {x} /\ (U \ {x}) \ {y} \in SUBSET (T \ {x}) OBVIOUS
        <5>3. h[U] = g[U \ {x}] + f[x] /\ h[U \ {y}] = g[(U \ {y}) \ {x}] + f[x] BY <4>2
        <5>4. g[(U \ {x}) \ {y}] \in Int BY <3>2, <5>2
        <5> DEFINE a == g[U \ {x}]
                   c == g[(U \ {y}) \ {x}]
        <5>5. a = c + f[y] /\ c \in Int BY <5>1, <5>2, <5>4
        <5>6. h[U] = a + f[x] /\ h[U \ {y}] = c + f[x] BY <5>3
        <5> HIDE DEF a, c, h
        <5> QED BY <3>3, <5>5, <5>6
      <4>3. CASE x \notin U
        <5>1. U \in SUBSET (T \ {x}) BY <4>3
        <5>2. g[U] = g[U \ {y}] + f[y] BY <3>1, <5>1 DEF Sums
        <5> QED BY <4>3, <5>2
      <4> QED BY <4>1, <4>2, <4>3
    <3> HIDE DEF h
    <3>7. Sums(h, f, T) BY <3>4, <3>5, <3>6 DEF Sums
    <3> QED BY <3>7
  <2> QED BY <2>1, <2>2
<1> HIDE DEF B
<1>2. S \in B BY <1>1, SetInduction
<1> QED BY <1>2 DEF B

LEMMA SumIs ==
    ASSUME NEW S, IsFiniteSet(S), NEW f, \A x \in S : f[x] \in Int, NEW g, Sums(g, f, S)
    PROVE  SumFunctionOnSet(f, S) = g[S]
<1>1. \A T \in SUBSET S : T # {} => Pick(T) \in T BY DEF Pick
<1>2. Folds(g, f, S)
  <2>0. g = [T \in SUBSET S |-> g[T]] BY DEF Sums
  <2>1. ASSUME NEW T \in SUBSET S PROVE g[T] = IF T = {} THEN 0 ELSE f[Pick(T)] + g[T \ {Pick(T)}]
    <3>1. CASE T = {} BY <3>1 DEF Sums
    <3>2. CASE T # {}
      <4>1. g[T] = g[T \ {Pick(T)}] + f[Pick(T)] BY <1>1, <3>2 DEF Sums
      <4>2. Pick(T) \in S BY <1>1, <3>2
      <4>3. g[T \ {Pick(T)}] \in Int /\ f[Pick(T)] \in Int BY <4>2 DEF Sums
      <4> QED BY <3>2, <4>1, <4>3
    <3> QED BY <3>1, <3>2
  <2> QED BY <2>0, <2>1 DEF Folds
<1> DEFINE h == CHOOSE k : Folds(k, f, S)
<1>3. Folds(h, f, S) BY <1>2
<1>4. SumFunctionOnSet(f, S) = h[S]
  BY DEF SumFunctionOnSet, FoldFunctionOnSet, MapThenFoldSet, Folds, Pick
<1> HIDE DEF h
<1> DEFINE B == {T \in SUBSET S : h[T] = g[T]}
<1>5. ASSUME NEW T \in SUBSET S, \A U \in SUBSET T : U # T => U \in B
      PROVE  T \in B
  <2>1. CASE T = {} BY <1>2, <1>3, <2>1 DEF Folds
  <2>2. CASE T # {}
    <3>1. T \ {Pick(T)} \in B BY <1>1, <1>5, <2>2
    <3> QED BY <1>2, <1>3, <2>2, <3>1 DEF Folds
  <2> QED BY <2>1, <2>2
<1> HIDE DEF B
<1>6. S \in B BY <1>5, SetInduction
<1> QED BY <1>4, <1>6 DEF B

\* What a sum is known by: its type, the empty sum, the part without one element, and
\* that only the values over the set count.
LEMMA SumFacts ==
    ASSUME NEW S, IsFiniteSet(S), NEW f, \A x \in S : f[x] \in Int
    PROVE  /\ SumFunctionOnSet(f, S) \in Int
           /\ S = {} => SumFunctionOnSet(f, S) = 0
           /\ \A x \in S : SumFunctionOnSet(f, S) = SumFunctionOnSet(f, S \ {x}) + f[x]
           /\ \A h : (\A x \in S : h[x] = f[x]) => SumFunctionOnSet(h, S) = SumFunctionOnSet(f, S)
<1>1. PICK g : Sums(g, f, S) BY SumsExist
<1>2. SumFunctionOnSet(f, S) = g[S] BY <1>1, SumIs
<1>3. ASSUME NEW x \in S
      PROVE  SumFunctionOnSet(f, S) = SumFunctionOnSet(f, S \ {x}) + f[x]
  <2>1. IsFiniteSet(S \ {x}) /\ \A y \in S \ {x} : f[y] \in Int BY FS_RemoveElement
  <2>4. Sums([T \in SUBSET (S \ {x}) |-> g[T]], f, S \ {x}) BY <1>1 DEF Sums
  <2>5. SumFunctionOnSet(f, S \ {x}) = g[S \ {x}] BY <2>1, <2>4, SumIs
  <2> QED BY <1>1, <1>2, <2>5 DEF Sums
<1>4. ASSUME NEW h, \A x \in S : h[x] = f[x]
      PROVE  SumFunctionOnSet(h, S) = SumFunctionOnSet(f, S)
  <2>1. Sums(g, h, S) BY <1>1, <1>4 DEF Sums
  <2>2. \A x \in S : h[x] \in Int BY <1>4
  <2> QED BY <1>2, <2>1, <2>2, SumIs
<1>5. g[S] \in Int /\ g[{}] = 0 BY <1>1 DEF Sums
<1> QED BY <1>2, <1>3, <1>4, <1>5

-----------------------------------------------------------------------------
(* The operators *)

LEMMA Constants ==
    /\ Symbols \in Nat /\ Profiles \in Nat /\ Profiles > 0 /\ LastClose \in Nat
    /\ GridChunk \in Nat /\ GridChunk > 0 /\ Window \in Nat /\ Fee \in Nat /\ Moves \subseteq Int
    /\ \A s \in 1 .. Symbols : Bars[s] \subseteq Nat
    /\ \A p \in 1 .. Profiles : Limit[p] \in Nat /\ Initial[p] \in Nat /\ Share[p] \in Nat
<1>1. /\ Symbols \in Nat /\ Profiles \in Nat /\ Profiles > 0 /\ LastClose \in Nat
      /\ GridChunk \in Nat /\ GridChunk > 0 /\ Window \in Nat /\ Fee \in Nat /\ Moves \subseteq Int
  BY BacktestAssumption
<1>2. \A s \in 1 .. Symbols : Bars[s] \subseteq Nat
  <2>1. Bars \in [1 .. Symbols -> SUBSET Nat] BY BacktestAssumption
  <2> QED BY <2>1
<1>3. \A p \in 1 .. Profiles : Limit[p] \in Nat /\ Initial[p] \in Nat /\ Share[p] \in Nat
  <2>1. /\ Limit \in [1 .. Profiles -> Nat \ {0}] /\ Initial \in [1 .. Profiles -> Nat]
        /\ Share \in [1 .. Profiles -> 1 .. 10]
    BY BacktestAssumption
  <2> QED BY <2>1
<1> QED BY <1>1, <1>2, <1>3

\* Sets without a common member.
LEMMA Apart ==
    ASSUME NEW S, NEW T, IsFiniteSet(S), IsFiniteSet(T), S \cap T = {}
    PROVE  /\ IsFiniteSet(S \cup T) /\ Cardinality(S \cup T) = Cardinality(S) + Cardinality(T)
           /\ Cardinality(S) \in Nat /\ Cardinality(T) \in Nat
<1>1. /\ IsFiniteSet(S \cup T)
      /\ Cardinality(S \cup T) = Cardinality(S) + Cardinality(T) - Cardinality(S \cap T)
  BY FS_Union
<1>2. Cardinality(S) \in Nat /\ Cardinality(T) \in Nat /\ Cardinality(S \cap T) = 0
  BY FS_CardinalityType, FS_EmptySet
<1> QED BY <1>1, <1>2

LEMMA NoTrades ==
    /\ DOMAIN Nothing = {} /\ Walked(Nothing) /\ Taken(Nothing) = {}
    /\ \A x : Held(Nothing, x) = {}
<1>1. DOMAIN Nothing = {} /\ Nothing \in [{} -> Trade] BY DEF Nothing
<1> QED BY <1>1 DEF Walked, Taken, Held

\* A slice lies within the grid.
LEMMA SliceType ==
    ASSUME TypeOK
    PROVE  Slice \subseteq 1 .. LastClose /\ IsFiniteSet(Slice) /\ Cardinality(Slice) \in Nat
<1> DEFINE k == place.slice - 1
<1>1. place.slice \in Nat /\ place.slice >= 1 /\ k \in Nat BY DEF TypeOK
<1>2. k * GridChunk \in Nat /\ (k + 1) * GridChunk \in Nat BY <1>1, Constants
<1>3. First(place.slice) \in Nat /\ First(place.slice) >= 1 BY <1>2 DEF First
<1>4. k + 1 = place.slice BY <1>1
<1>5. Last(place.slice) \in Nat /\ Last(place.slice) <= LastClose BY <1>2, <1>4, Constants DEF Last
<1>6. Slice \subseteq 1 .. LastClose BY <1>3, <1>5, Constants DEF Slice
<1>7. IsFiniteSet(Slice) BY <1>3, <1>5, FS_Interval DEF Slice
<1> QED BY <1>6, <1>7, FS_CardinalityType

LEMMA GoodFinite == ASSUME TypeOK PROVE IsFiniteSet(good) /\ IsFiniteSet(rows)
<1>1. IsFiniteSet(1 .. Symbols) /\ IsFiniteSet(1 .. LastClose) BY Constants, FS_Interval
<1>2. IsFiniteSet((1 .. Symbols) \X (1 .. LastClose)) BY <1>1, FS_Product
<1> QED BY <1>2, FS_Subset DEF TypeOK

LEMMA ErrorsFinite ==
    ASSUME NEW E, E \subseteq 1 .. Symbols
    PROVE  IsFiniteSet(E) /\ Cardinality(E) \in Nat
<1>1. IsFiniteSet(1 .. Symbols) BY Constants, FS_Interval
<1> QED BY <1>1, FS_Subset, FS_CardinalityType

\* What is offered next is one of the earliest.
LEMMA FrontFirst ==
    ASSUME TypeOK, NEW f \in Front, NEW q \in queue
    PROVE  f \in queue /\ f[2] \in Nat /\ q[2] \in Nat /\ f[2] <= q[2]
<1>1. f \in queue /\ Before(f, q) BY DEF Front
<1>2. f \in (1 .. Symbols) \X (1 .. LastClose) /\ q \in (1 .. Symbols) \X (1 .. LastClose)
  BY <1>1 DEF TypeOK
<1> QED BY <1>1, <1>2, Constants DEF Before

\* The exit of an entry is a later bar than the observation's instant.
LEMMA ExitLater ==
    ASSUME TypeOK, NEW i \in queue, NEW entry \in Forward(i) \ Later(i), NEW exit \in Exits(i)
    PROVE  entry \in Nat /\ exit \in Nat /\ i[2] <= entry /\ entry < exit
<1>1. i[1] \in 1 .. Symbols /\ i[2] \in Nat BY DEF TypeOK
<1>2. Forward(i) \subseteq Nat /\ \A b \in Forward(i) : i[2] <= b BY <1>1, Constants DEF Forward
<1>3. exit \in Forward(i) /\ \E c \in Forward(i) : c < exit BY DEF Exits, Later
<1>4. \A c \in Forward(i) : entry <= c BY <1>2 DEF Later
<1> QED BY <1>2, <1>3, <1>4

\* What a decision does to the trades.
LEMMA Decided ==
    ASSUME TypeOK, NEW i \in queue, NEW t \in Trade, Decide(i, t), DOMAIN trades \cap queue = {}
    PROVE  /\ trades' \in [DOMAIN trades' -> Trade] /\ DOMAIN trades' = DOMAIN trades \cup {i}
           /\ DOMAIN trades' \subseteq good /\ queue' = queue \ {i}
           /\ trades'[i] = t /\ \A j \in DOMAIN trades : trades'[j] = trades[j] /\ j # i
BY DEF Decide, TypeOK, Walked

\* The trade of an execution is well formed.
LEMMA TradeType ==
    ASSUME TypeOK, NEW i \in queue, NEW entry \in Forward(i) \ Later(i), NEW exit \in Exits(i),
           NEW size \in 1 .. equity, NEW move \in Moves
    PROVE  [executed |-> TRUE, reason |-> "none", entry |-> entry, exit |-> exit,
            size |-> size, net |-> (size * move) \div 10 - 2 * Fee] \in Trade
<1>1. entry \in Nat /\ exit \in Nat BY ExitLater
<1>2. size \in Nat /\ move \in Int BY Constants DEF TypeOK
<1>3. size * move \in Int BY <1>2
<1>4. (size * move) \div 10 \in Int BY <1>3
<1>5. (size * move) \div 10 - 2 * Fee \in Int BY <1>4, Constants
<1> QED BY <1>1, <1>2, <1>5 DEF Trade

LEMMA AdvanceType ==
    ASSUME TypeOK, Replaying, NEW n \in Nat, NEW tally \in Tally, Advance(n, tally)
    PROVE  /\ stats' \in Tally /\ written' \in Nat
           /\ place' \in [symbol : 1 .. Symbols + 1, slice : Nat \ {0}]
<1>1. /\ place.symbol \in 1 .. Symbols /\ place.slice \in Nat \ {0} /\ written \in Nat
      /\ place \in [symbol : 1 .. Symbols + 1, slice : Nat \ {0}]
  BY Constants DEF TypeOK, Replaying
<1>2. CASE place.slice < Slices
  BY <1>1, <1>2, Constants DEF Advance
<1>3. CASE ~(place.slice < Slices)
  <2>1. /\ place' = [symbol |-> place.symbol + 1, slice |-> 1] /\ written' = 0
        /\ stats' = [tally EXCEPT !.observations = @ + written + n, !.symbols = @ + 1]
    BY <1>3 DEF Advance
  <2>2. place.symbol + 1 \in 1 .. Symbols + 1 BY <1>1, Constants
  <2>3. tally.observations \in Nat /\ tally.symbols \in Nat BY DEF Tally
  <2>4. tally.observations + written + n \in Nat /\ tally.symbols + 1 \in Nat BY <1>1, <2>3
  <2>5. stats' \in Tally BY <2>1, <2>4 DEF Tally
  <2> QED BY <2>1, <2>2, <2>5
<1> QED BY <1>2, <1>3

LEMMA TallyType ==
    ASSUME NEW s \in Tally, NEW n \in Nat
    PROVE  [s EXCEPT !.qualified = @ + n] \in Tally
<1>1. s.qualified + n \in Nat BY DEF Tally
<1> QED BY <1>1 DEF Tally

-----------------------------------------------------------------------------
(* The types *)

LEMMA StartType ==
    ASSUME TypeOK, NEW p \in 1 .. Profiles, StartWalk(p), UNCHANGED good
    PROVE  /\ profile' \in 1 .. Profiles /\ queue' \subseteq good' /\ equity' \in Int /\ clock' \in Nat
           /\ Walked(trades)' /\ book' \subseteq Taken(trades')
<1>1. DOMAIN trades' = {} /\ trades' \in [DOMAIN trades' -> Trade]
  BY NoTrades DEF StartWalk, Walked
<1> QED BY <1>1, Constants DEF StartWalk, Walked

LEMMA TypeOKStep == ASSUME IInv, [Next]_vars PROVE TypeOK'
<1>0. TypeOK /\ Split BY DEF IInv
<1>1. CASE Begin
  BY <1>0, <1>1 DEF Begin, TypeOK, replay, walk, Walked
<1>2. ASSUME NEW seen \in [Slice -> Seen], ReplaySlice(seen) PROVE TypeOK'
  <2> DEFINE at(kinds) == {place.symbol} \X {t \in Slice : seen[t] \in kinds}
             all == at({"plain", "qualified"})
             good1 == at({"qualified"})
             tally == [stats EXCEPT !.qualified = @ + Cardinality(good1)]
  <2>1. place.symbol \in 1 .. Symbols BY <1>0, <1>2, Constants DEF ReplaySlice, Replaying, TypeOK
  <2>2. all \subseteq (1 .. Symbols) \X (1 .. LastClose) /\ good1 \subseteq all
    BY <1>0, <2>1, SliceType
  <2>3. IsFiniteSet({place.symbol} \X Slice) BY <1>0, SliceType, FS_Singleton, FS_Product
  <2>4. Cardinality(all) \in Nat /\ Cardinality(good1) \in Nat
    <3>1. all \subseteq {place.symbol} \X Slice /\ good1 \subseteq {place.symbol} \X Slice OBVIOUS
    <3>2. IsFiniteSet(all) /\ IsFiniteSet(good1) BY <2>3, <3>1, FS_Subset
    <3> QED BY <3>2, FS_CardinalityType
  <2>5. /\ rows' = rows \cup all /\ good' = good \cup good1
        /\ Advance(Cardinality(all), tally) /\ Replaying /\ UNCHANGED <<phase, run, walk>>
    BY <1>2 DEF ReplaySlice
  <2> HIDE DEF all, good1
  <2>6. tally \in Tally BY <1>0, <2>4, TallyType DEF TypeOK
  <2>7. /\ stats' \in Tally /\ written' \in Nat
        /\ place' \in [symbol : 1 .. Symbols + 1, slice : Nat \ {0}]
    BY <1>0, <2>4, <2>5, <2>6, AdvanceType
  <2> QED BY <1>0, <2>2, <2>5, <2>7 DEF TypeOK, walk, Walked
<1>3. CASE UnknownSlice
  <2> DEFINE tally == [stats EXCEPT !.errors = @ \cup {place.symbol}]
  <2>1. place.symbol \in 1 .. Symbols BY <1>0, <1>3, Constants DEF UnknownSlice, Replaying, TypeOK
  <2>2. tally \in Tally BY <1>0, <2>1 DEF TypeOK, Tally
  <2>3. /\ stats' \in Tally /\ written' \in Nat
        /\ place' \in [symbol : 1 .. Symbols + 1, slice : Nat \ {0}]
    BY <1>0, <1>3, <2>2, AdvanceType DEF UnknownSlice
  <2> QED BY <1>0, <1>3, <2>3 DEF UnknownSlice, TypeOK, walk, Walked
<1>4. ASSUME NEW n \in 0 .. GridChunk, SliceFails(n) PROVE TypeOK'
  <2>1. place.symbol \in 1 .. Symbols /\ n \in Nat
    BY <1>0, <1>4, Constants DEF SliceFails, Replaying, TypeOK
  <2>2. stats' \in Tally
    <3> DEFINE s == [stats EXCEPT !.qualified = @ + n]
    <3>1. s \in Tally BY <1>0, <2>1, TallyType DEF TypeOK
    <3>2. stats' = [s EXCEPT !.errors = @ \cup {place.symbol}]
      BY <1>0, <1>4 DEF SliceFails, TypeOK, Tally
    <3> HIDE DEF s
    <3> QED BY <2>1, <3>1, <3>2 DEF Tally
  <2>3. place' \in [symbol : 1 .. Symbols + 1, slice : Nat \ {0}]
    BY <1>4, <2>1, Constants DEF SliceFails
  <2> QED BY <1>0, <1>4, <2>2, <2>3 DEF SliceFails, TypeOK, walk, Walked
<1>5. CASE GridFails
  BY <1>0, <1>5 DEF GridFails, TypeOK, replay, walk, Walked
<1>6. CASE Complete
  <2>1. 1 \in 1 .. Profiles BY Constants
  <2>2. /\ profile' \in 1 .. Profiles /\ queue' \subseteq good' /\ equity' \in Int /\ clock' \in Nat
        /\ Walked(trades)' /\ book' \subseteq Taken(trades')
    BY <1>0, <1>6, <2>1, StartType DEF Complete, replay
  <2> QED BY <1>0, <1>6, <2>2 DEF Complete, TypeOK, replay, Walked
<1>7. ASSUME NEW i \in book, Settle(i) PROVE TypeOK'
  <2>1. trades[i] \in Trade BY <1>0 DEF TypeOK, Walked, Taken
  <2>2. equity' \in Int /\ clock' \in Nat BY <1>0, <1>7, <2>1 DEF Settle, TypeOK, Trade
  <2> QED BY <1>0, <1>7, <2>2 DEF Settle, TypeOK, replay, Walked, Taken
<1>8. ASSUME NEW i \in queue, NEW entry \in Forward(i), NEW exit \in Exits(i), NEW size \in 1 .. equity,
             NEW move \in Moves, Execute(i, entry, exit, size, move)
      PROVE  TypeOK'
  <2> DEFINE t == [executed |-> TRUE, reason |-> "none", entry |-> entry, exit |-> exit,
                   size |-> size, net |-> (size * move) \div 10 - 2 * Fee]
  <2>1. entry \in Forward(i) \ Later(i) /\ Decide(i, t) /\ phase = "walk" BY <1>8 DEF Execute, Offered
  <2>2. t \in Trade BY <1>0, <2>1, TradeType
  <2>3. t.executed OBVIOUS
  <2> HIDE DEF t
  <2>4. DOMAIN trades \cap queue = {} BY <1>0, <2>1 DEF Split
  <2>5. /\ trades' \in [DOMAIN trades' -> Trade] /\ DOMAIN trades' = DOMAIN trades \cup {i}
        /\ DOMAIN trades' \subseteq good /\ queue' = queue \ {i}
        /\ trades'[i] = t /\ \A j \in DOMAIN trades : trades'[j] = trades[j] /\ j # i
    BY <1>0, <2>1, <2>2, <2>4, Decided
  <2>6. book' \subseteq Taken(trades') BY <1>0, <1>8, <2>3, <2>5 DEF Execute, TypeOK, Taken
  <2> QED BY <1>0, <1>8, <2>5, <2>6 DEF Execute, TypeOK, replay, Walked
<1>9. ASSUME NEW i \in queue, NEW reason \in Refusal, Refuse(i, reason) PROVE TypeOK'
  <2> DEFINE t == [executed |-> FALSE, reason |-> reason, entry |-> 0, exit |-> 0, size |-> 0, net |-> 0]
  <2>1. Decide(i, t) /\ phase = "walk" BY <1>9 DEF Refuse, Offered
  <2>2. t \in Trade BY DEF Trade
  <2> HIDE DEF t
  <2>4. DOMAIN trades \cap queue = {} BY <1>0, <2>1 DEF Split
  <2>5. /\ trades' \in [DOMAIN trades' -> Trade] /\ DOMAIN trades' = DOMAIN trades \cup {i}
        /\ DOMAIN trades' \subseteq good /\ queue' = queue \ {i}
        /\ trades'[i] = t /\ \A j \in DOMAIN trades : trades'[j] = trades[j] /\ j # i
    BY <1>0, <2>1, <2>2, <2>4, Decided
  <2>6. book' \subseteq Taken(trades') BY <1>0, <1>9, <2>5 DEF Refuse, TypeOK, Taken
  <2> QED BY <1>0, <1>9, <2>5, <2>6 DEF Refuse, TypeOK, replay, Walked
<1>10. CASE Commit
  <2>1. /\ \A p \in 1 .. Profiles : Walked(outcomes'[p]) /\ DOMAIN outcomes' = 1 .. Profiles
        /\ UNCHANGED <<run, replay>>
    BY <1>0, <1>10 DEF Commit, TypeOK, Walked, replay
  <2>2. CASE profile < Profiles
    <3>1. profile + 1 \in 1 .. Profiles BY <1>0, <2>2, Constants DEF TypeOK
    <3>2. /\ profile' \in 1 .. Profiles /\ queue' \subseteq good' /\ equity' \in Int /\ clock' \in Nat
          /\ Walked(trades)' /\ book' \subseteq Taken(trades')
      BY <1>0, <1>10, <2>1, <2>2, <3>1, StartType DEF Commit, replay
    <3> QED BY <1>0, <1>10, <2>1, <2>2, <3>2 DEF Commit, TypeOK, replay, Walked
  <2>3. CASE ~(profile < Profiles)
    BY <1>0, <1>10, <2>1, <2>3 DEF Commit, TypeOK, replay, Walked, Taken
  <2> QED BY <2>2, <2>3
<1>11. CASE Stop
  BY <1>0, <1>11 DEF Stop, TypeOK, replay, walk, Walked, Taken
<1>12. CASE UNCHANGED vars
  BY <1>0, <1>12 DEF vars, TypeOK, replay, walk, Walked, Taken
<1> QED
  BY <1>1, <1>2, <1>3, <1>4, <1>5, <1>6, <1>7, <1>8, <1>9, <1>10, <1>11, <1>12 DEF Next, Replay, Walk

-----------------------------------------------------------------------------
(* The walk *)

\* Steps that leave a walk alone.
LEMMA OffWalk ==
    ASSUME IInv, UNCHANGED walk, phase' # "walk"
    PROVE  Timely' /\ HeldWithinLimit'
BY DEF IInv, Timely, HeldWithinLimit, walk, Held, Taken

\* What the steps of the replay have in common.
LEMMA ReplayStep ==
    ASSUME Begin \/ UnknownSlice \/ GridFails \/ (\E seen \in [Slice -> Seen] : ReplaySlice(seen))
              \/ (\E n \in 0 .. GridChunk : SliceFails(n))
    PROVE  UNCHANGED walk /\ phase \in {"idle", "replay"} /\ phase' \in {"replay", "over"}
BY DEF Begin, UnknownSlice, GridFails, ReplaySlice, SliceFails, Replaying

\* A walk starts with nothing decided.
LEMMA StartStep ==
    ASSUME TypeOK, NEW p \in 1 .. Profiles, StartWalk(p), UNCHANGED good,
           phase' = "walk", run'.status = "COMPLETED"
    PROVE  Split' /\ Timely'
<1>1. trades' = Nothing /\ book' = {} /\ queue' = good' /\ clock' = 0 BY DEF StartWalk
<1>2. DOMAIN trades' = {} /\ Taken(trades') = {} BY <1>1, NoTrades
<1>3. \A q \in queue' : q[2] \in Nat BY <1>1, Constants DEF TypeOK
<1> QED BY <1>1, <1>2, <1>3 DEF Split, Timely

\* A position due is settled before the next observation.
LEMMA SettleStep ==
    ASSUME IInv, NEW i \in book, Settle(i)
    PROVE  Split' /\ Timely' /\ clock <= clock'
<1>0. TypeOK /\ Split /\ Timely BY DEF IInv
<1>1. /\ phase = "walk" /\ i \in Due /\ \A j \in Due : Earlier(i, j)
      /\ clock' = trades[i].exit /\ book' = book \ {i}
      /\ UNCHANGED <<phase, run, replay, profile, queue, trades, outcomes>>
  BY DEF Settle
<1>2. Front' = Front BY <1>1 DEF Front, Before
<1>3. \A j \in Taken(trades) : trades[j].exit \in Nat BY <1>0 DEF TypeOK, Walked, Taken, Trade
<1>4. i \in Taken(trades) /\ book \subseteq Taken(trades) BY <1>0 DEF TypeOK
<1>5. \A f \in Front : trades[i].exit <= f[2] BY <1>1 DEF Due
<1>6. \A f \in Front, q \in queue : trades[i].exit <= q[2]
  BY <1>0, <1>3, <1>4, <1>5, FrontFirst
<1>7. \A j \in book : trades[i].exit <= trades[j].exit
  <2> SUFFICES ASSUME NEW j \in book PROVE trades[i].exit <= trades[j].exit OBVIOUS
  <2>1. CASE j \in Due BY <1>1, <1>3, <1>4, <2>1 DEF Earlier
  <2>2. CASE j \notin Due
    <3>1. PICK f \in Front : ~(trades[j].exit <= f[2]) BY <2>2 DEF Due
    <3>2. f \in queue /\ f[2] \in Nat BY <1>0, <3>1, FrontFirst DEF Front
    <3> QED BY <1>3, <1>4, <1>5, <3>1, <3>2
  <2> QED BY <2>1, <2>2
<1>8. Timely'
  <2>1. \A j \in book' : clock' <= trades'[j].exit BY <1>1, <1>7
  <2>2. \A f \in Front', q \in queue' : clock' <= q[2] BY <1>1, <1>2, <1>6
  <2>3. \A f \in Front', q \in queue', j \in Taken(trades') \ book' : trades'[j].exit <= q[2]
    BY <1>0, <1>1, <1>2, <1>6 DEF Timely, Taken
  <2> QED BY <2>1, <2>2, <2>3 DEF Timely
<1>9. Split' BY <1>0, <1>1 DEF Split, replay
<1>10. clock <= clock' BY <1>0, <1>1 DEF Timely
<1> QED BY <1>8, <1>9, <1>10

\* An observation is decided: refused, or its position joins the book.
LEMMA DecideStep ==
    ASSUME IInv, NEW i \in queue, Offered(i), NEW t \in Trade, Decide(i, t),
           UNCHANGED <<phase, run, replay, profile, clock, outcomes>>,
           \/ ~t.executed /\ book' = book
           \/ t.executed /\ t.exit > i[2] /\ book' = book \cup {i}
    PROVE  Split' /\ Timely'
<1>0. TypeOK /\ Split /\ Timely BY DEF IInv
<1>1. phase = "walk" /\ phase' = "walk" /\ i \in Front BY DEF Offered
<1>2. DOMAIN trades \cup queue = good /\ DOMAIN trades \cap queue = {} /\ run.status = "COMPLETED"
  BY <1>0, <1>1 DEF Split
<1>3. /\ trades' \in [DOMAIN trades' -> Trade] /\ DOMAIN trades' = DOMAIN trades \cup {i}
      /\ DOMAIN trades' \subseteq good /\ queue' = queue \ {i}
      /\ trades'[i] = t /\ \A j \in DOMAIN trades : trades'[j] = trades[j] /\ j # i
  BY <1>0, <1>2, Decided
<1>4. Split' BY <1>1, <1>2, <1>3 DEF Split, replay
<1>5. /\ \A q \in queue : clock <= q[2]
      /\ \A q \in queue, j \in Taken(trades) \ book : trades[j].exit <= q[2]
  BY <1>0, <1>1 DEF Timely
<1>6. i[2] \in Nat /\ clock \in Nat /\ t.exit \in Nat BY <1>0, <1>1, FrontFirst DEF TypeOK, Trade
<1>7. book \subseteq Taken(trades) BY <1>0 DEF TypeOK
<1>8. \A j \in book' : clock' <= trades'[j].exit
  BY <1>0, <1>1, <1>3, <1>5, <1>6, <1>7 DEF Timely, Taken
<1>9. \A j \in Taken(trades') \ book' : j \in Taken(trades) \ book /\ trades'[j].exit = trades[j].exit
  BY <1>3, <1>7 DEF Taken
<1>10. Timely' BY <1>1, <1>3, <1>5, <1>8, <1>9 DEF Timely, Front
<1> QED BY <1>4, <1>10

\* The exit of an execution is after the instant of its observation.
LEMMA ExecuteStep ==
    ASSUME IInv, NEW i \in queue, NEW entry \in Forward(i), NEW exit \in Exits(i), NEW size \in 1 .. equity,
           NEW move \in Moves, Execute(i, entry, exit, size, move)
    PROVE  Split' /\ Timely'
<1> DEFINE t == [executed |-> TRUE, reason |-> "none", entry |-> entry, exit |-> exit,
                 size |-> size, net |-> (size * move) \div 10 - 2 * Fee]
<1>0. TypeOK BY DEF IInv
<1>1. /\ entry \in Forward(i) \ Later(i) /\ Decide(i, t) /\ Offered(i) /\ book' = book \cup {i}
      /\ UNCHANGED <<phase, run, replay, profile, clock, outcomes>>
  BY DEF Execute
<1>2. t \in Trade BY <1>0, <1>1, TradeType
<1>3. t.executed /\ t.exit = exit OBVIOUS
<1>4. i[2] \in Nat /\ exit \in Nat /\ exit > i[2]
  <2>1. i[2] \in Nat BY <1>0, Constants DEF TypeOK
  <2> QED BY <1>0, <1>1, <2>1, ExitLater
<1> HIDE DEF t
<1> QED BY <1>1, <1>2, <1>3, <1>4, DecideStep

LEMMA RefuseStep ==
    ASSUME IInv, NEW i \in queue, NEW reason \in Refusal, Refuse(i, reason)
    PROVE  Split' /\ Timely'
<1> DEFINE t == [executed |-> FALSE, reason |-> reason, entry |-> 0, exit |-> 0, size |-> 0, net |-> 0]
<1>1. /\ Decide(i, t) /\ Offered(i) /\ book' = book
      /\ UNCHANGED <<phase, run, replay, profile, clock, outcomes>>
  BY DEF Refuse
<1>2. t \in Trade /\ ~t.executed BY DEF Trade
<1> HIDE DEF t
<1> QED BY <1>1, <1>2, DecideStep

LEMMA CommitStep ==
    ASSUME IInv, Commit
    PROVE  Split' /\ Timely'
<1>0. TypeOK /\ Split BY DEF IInv
<1>1. phase = "walk" /\ run.status = "COMPLETED" BY <1>0 DEF Commit, Split
<1>2. CASE profile < Profiles
  <2>1. profile + 1 \in 1 .. Profiles BY <1>0, <1>2, Constants DEF TypeOK
  <2> QED BY <1>0, <1>1, <1>2, <2>1, StartStep DEF Commit, replay
<1>3. CASE ~(profile < Profiles)
  BY <1>3 DEF Commit, Split, Timely
<1> QED BY <1>2, <1>3

LEMMA SplitTimelyStep == ASSUME IInv, [Next]_vars PROVE Split' /\ Timely'
<1>0. TypeOK /\ Split BY DEF IInv
<1>1. ASSUME Begin \/ UnknownSlice \/ GridFails \/ (\E seen \in [Slice -> Seen] : ReplaySlice(seen))
               \/ (\E n \in 0 .. GridChunk : SliceFails(n))
      PROVE  Split' /\ Timely'
  <2>1. UNCHANGED walk /\ phase \in {"idle", "replay"} /\ phase' \in {"replay", "over"}
    BY <1>1, ReplayStep
  <2>2. Split' BY <1>0, <2>1 DEF Split, walk
  <2> QED BY <2>1, <2>2, OffWalk
<1>2. CASE Complete
  <2>1. 1 \in 1 .. Profiles BY Constants
  <2>2. StartWalk(1) /\ UNCHANGED good /\ phase' = "walk" /\ run'.status = "COMPLETED"
    BY <1>2 DEF Complete, replay
  <2> QED BY <1>0, <2>1, <2>2, StartStep
<1>3. CASE Stop
  <2>1. UNCHANGED walk /\ phase' = "over" BY <1>3 DEF Stop
  <2> QED BY <2>1, OffWalk DEF Split
<1>4. CASE UNCHANGED vars
  BY <1>4 DEF IInv, Split, Timely, vars, replay, walk, Front, Before, Taken
<1> QED
  BY <1>1, <1>2, <1>3, <1>4, SettleStep, ExecuteStep, RefuseStep, CommitStep DEF Next, Replay, Walk

-----------------------------------------------------------------------------
(* The properties *)

LEMMA AllOrNothingStep == ASSUME IInv, [Next]_vars PROVE AllOrNothing'
<1>0. TypeOK /\ Split /\ AllOrNothing BY DEF IInv
<1>1. ASSUME Begin \/ UnknownSlice \/ GridFails \/ (\E seen \in [Slice -> Seen] : ReplaySlice(seen))
               \/ (\E n \in 0 .. GridChunk : SliceFails(n))
      PROVE  AllOrNothing'
  <2>1. UNCHANGED walk /\ phase \in {"idle", "replay"} BY <1>1, ReplayStep
  <2> QED BY <1>0, <2>1 DEF Split, walk, AllOrNothing
<1>2. CASE Complete
  <2>1. phase = "replay" /\ UNCHANGED outcomes BY <1>2 DEF Complete
  <2> QED BY <1>0, <2>1 DEF Split, AllOrNothing
<1>3. ASSUME UNCHANGED <<run, good, outcomes>> PROVE AllOrNothing'
  BY <1>0, <1>3 DEF AllOrNothing
<1>4. CASE Commit
  <2>1. /\ phase = "walk" /\ queue = {} /\ UNCHANGED <<run, good>>
        /\ outcomes' = [outcomes EXCEPT ![profile] = trades]
    BY <1>4 DEF Commit, replay
  <2>2. run.status = "COMPLETED" /\ DOMAIN trades = good BY <1>0, <2>1 DEF Split
  <2> QED BY <1>0, <2>1, <2>2 DEF AllOrNothing, TypeOK
<1> QED
  BY <1>1, <1>2, <1>3, <1>4 DEF Next, Replay, Walk, Settle, Execute, Refuse, Stop, vars, replay, walk

\* A new position keeps within the limit at every bar: at a bar it is held, whatever
\* else is held there is still in the book.
LEMMA HeldExecuted ==
    ASSUME IInv, NEW i \in queue, NEW entry \in Forward(i), NEW exit \in Exits(i), NEW size \in 1 .. equity,
           NEW move \in Moves, Execute(i, entry, exit, size, move)
    PROVE  HeldWithinLimit'
<1> DEFINE t == [executed |-> TRUE, reason |-> "none", entry |-> entry, exit |-> exit,
                 size |-> size, net |-> (size * move) \div 10 - 2 * Fee]
<1>0. TypeOK /\ Split /\ Timely /\ HeldWithinLimit BY DEF IInv
<1>1. /\ entry \in Forward(i) \ Later(i) /\ Decide(i, t) /\ phase = "walk" /\ i \in Front
      /\ Reason(i) = "none" /\ UNCHANGED <<profile, outcomes>>
  BY DEF Execute, Offered
<1>2. t \in Trade BY <1>0, <1>1, TradeType
<1>3. t.entry = entry /\ t.exit = exit OBVIOUS
<1>4. entry \in Nat /\ exit \in Nat /\ i[2] <= entry /\ i[2] \in Nat
  <2>1. i[2] \in Nat BY <1>0, Constants DEF TypeOK
  <2> QED BY <1>0, <1>1, <2>1, ExitLater
<1> HIDE DEF t
<1>5. ~Full BY <1>1 DEF Reason
<1>6. IsFiniteSet(book) /\ Cardinality(book) \in Nat /\ Cardinality(book) + 1 <= Limit[profile]
  <2>1. book \subseteq good BY <1>0 DEF TypeOK, Taken, Walked
  <2>2. IsFiniteSet(book) BY <1>0, <2>1, GoodFinite, FS_Subset
  <2>3. Cardinality(book) \in Nat BY <2>2, FS_CardinalityType
  <2>4. Limit[profile] \in Nat BY <1>0, Constants DEF TypeOK
  <2> QED BY <1>5, <2>2, <2>3, <2>4 DEF Full
<1>7. DOMAIN trades \cap queue = {} BY <1>0, <1>1 DEF Split
<1>8. /\ DOMAIN trades' = DOMAIN trades \cup {i} /\ trades'[i] = t
      /\ \A j \in DOMAIN trades : trades'[j] = trades[j] /\ j # i
  BY <1>0, <1>1, <1>2, <1>7, Decided
<1> SUFFICES ASSUME NEW x \in UNION {Bars[s] : s \in 1 .. Symbols}
             PROVE  Cardinality(Held(trades', x)) <= Limit[profile]
  BY <1>0, <1>1 DEF HeldWithinLimit, Held, Taken
<1>9. x \in Nat BY Constants
<1>10. CASE ~(entry <= x /\ x < exit)
  <2>1. Held(trades', x) = Held(trades, x) BY <1>3, <1>8, <1>10 DEF Held, Taken
  <2> QED BY <1>0, <2>1 DEF HeldWithinLimit
<1>11. CASE entry <= x /\ x < exit
  <2>1. Held(trades, x) \subseteq book
    <3> SUFFICES ASSUME NEW j \in Held(trades, x), j \notin book PROVE FALSE OBVIOUS
    <3>1. j \in Taken(trades) \ book /\ x < trades[j].exit BY DEF Held
    <3>2. trades[j].exit <= i[2] /\ trades[j].exit \in Nat
      BY <1>0, <1>1, <3>1 DEF Timely, TypeOK, Walked, Taken, Trade
    <3> QED BY <1>4, <1>9, <1>11, <3>1, <3>2
  <2>2. Held(trades', x) \subseteq book \cup {i} BY <1>8, <2>1 DEF Held, Taken
  <2>3. IsFiniteSet(book \cup {i}) /\ Cardinality(book \cup {i}) <= Cardinality(book) + 1
    <3>1. /\ IsFiniteSet(book \cup {i})
          /\ Cardinality(book \cup {i}) = IF i \in book THEN Cardinality(book) ELSE Cardinality(book) + 1
      BY <1>6, FS_AddElement
    <3>2. CASE i \in book BY <1>6, <3>1, <3>2
    <3>3. CASE i \notin book BY <1>6, <3>1, <3>3
    <3> QED BY <3>2, <3>3
  <2>4. /\ Cardinality(Held(trades', x)) <= Cardinality(book \cup {i})
        /\ Cardinality(Held(trades', x)) \in Nat /\ Cardinality(book \cup {i}) \in Nat
    BY <2>2, <2>3, FS_Subset, FS_CardinalityType
  <2>5. Limit[profile] \in Nat BY <1>0, Constants DEF TypeOK
  <2> QED BY <1>6, <2>3, <2>4, <2>5
<1> QED BY <1>10, <1>11

LEMMA HeldStep == ASSUME IInv, [Next]_vars PROVE HeldWithinLimit'
<1>0. TypeOK /\ HeldWithinLimit BY DEF IInv
<1>1. ASSUME UNCHANGED <<profile, trades, outcomes>> PROVE HeldWithinLimit'
  BY <1>0, <1>1 DEF HeldWithinLimit, Held, Taken
<1>2. ASSUME NEW p \in 1 .. Profiles, StartWalk(p),
             \A x \in UNION {Bars[s] : s \in 1 .. Symbols} :
                \A r \in 1 .. Profiles : Cardinality(Held(outcomes'[r], x)) <= Limit[r]
      PROVE  HeldWithinLimit'
  <2>1. trades' = Nothing /\ profile' = p BY <1>2 DEF StartWalk
  <2>2. \A x : Cardinality(Held(trades', x)) = 0
    BY <2>1, NoTrades, FS_EmptySet
  <2>3. 0 <= Limit[profile'] BY <2>1, Constants
  <2> QED BY <1>2, <2>2, <2>3 DEF HeldWithinLimit, Held, Taken
<1>3. CASE Complete
  <2>1. 1 \in 1 .. Profiles BY Constants
  <2> QED BY <1>0, <1>2, <1>3, <2>1 DEF Complete, HeldWithinLimit
<1>4. CASE Commit
  <2>1. outcomes' = [outcomes EXCEPT ![profile] = trades] /\ profile \in 1 .. Profiles
    BY <1>0, <1>4 DEF Commit, TypeOK
  <2>2. \A x \in UNION {Bars[s] : s \in 1 .. Symbols} :
           \A r \in 1 .. Profiles : Cardinality(Held(outcomes'[r], x)) <= Limit[r]
    BY <1>0, <2>1 DEF HeldWithinLimit, TypeOK
  <2>3. CASE profile < Profiles
    <3>1. profile + 1 \in 1 .. Profiles BY <2>1, <2>3, Constants
    <3> QED BY <1>2, <1>4, <2>2, <2>3, <3>1 DEF Commit
  <2>4. CASE ~(profile < Profiles)
    <3>1. UNCHANGED <<profile, trades>> BY <1>4, <2>4 DEF Commit
    <3> QED BY <1>0, <2>2, <3>1 DEF HeldWithinLimit, Held, Taken
  <2> QED BY <2>3, <2>4
<1>5. ASSUME NEW i \in queue, NEW reason \in Refusal, Refuse(i, reason) PROVE HeldWithinLimit'
  <2> DEFINE t == [executed |-> FALSE, reason |-> reason, entry |-> 0, exit |-> 0, size |-> 0, net |-> 0]
  <2>1. Decide(i, t) /\ phase = "walk" /\ UNCHANGED <<profile, outcomes>> BY <1>5 DEF Refuse, Offered
  <2>2. t \in Trade /\ ~t.executed BY DEF Trade
  <2> HIDE DEF t
  <2>3. DOMAIN trades \cap queue = {} BY <2>1 DEF IInv, Split
  <2>4. /\ DOMAIN trades' = DOMAIN trades \cup {i} /\ trades'[i] = t
        /\ \A j \in DOMAIN trades : trades'[j] = trades[j] /\ j # i
    BY <1>0, <2>1, <2>2, <2>3, Decided
  <2>5. \A x : Held(trades', x) = Held(trades, x) BY <2>2, <2>4 DEF Held, Taken
  <2> QED BY <1>0, <2>1, <2>5 DEF HeldWithinLimit, Held, Taken
<1>6. ASSUME Begin \/ UnknownSlice \/ GridFails \/ (\E seen \in [Slice -> Seen] : ReplaySlice(seen))
               \/ (\E n \in 0 .. GridChunk : SliceFails(n))
      PROVE  HeldWithinLimit'
  BY <1>1, <1>6, ReplayStep DEF walk
<1> QED
  BY <1>1, <1>3, <1>4, <1>5, <1>6, HeldExecuted DEF Next, Replay, Walk, Settle, Stop, vars, replay, walk

-----------------------------------------------------------------------------
(* The equity *)

LEMMA NetFacts ==
    ASSUME TypeOK, NEW S \in SUBSET Taken(trades)
    PROVE  /\ Net(trades, S) \in Int /\ (S = {} => Net(trades, S) = 0)
           /\ \A i \in S : Net(trades, S) = Net(trades, S \ {i}) + trades[i].net
           /\ \A ts : S \subseteq DOMAIN ts /\ (\A i \in S : ts[i] = trades[i])
                 => Net(ts, S) = Net(trades, S)
<1> DEFINE f == [i \in DOMAIN trades |-> trades[i].net]
<1>1. S \subseteq DOMAIN trades /\ S \subseteq good BY DEF TypeOK, Walked, Taken
<1>2. IsFiniteSet(S) BY <1>1, GoodFinite, FS_Subset
<1>3. \A i \in S : f[i] = trades[i].net /\ f[i] \in Int BY <1>1 DEF TypeOK, Walked, Trade
<1>4. \A T : Net(trades, T) = SumFunctionOnSet(f, T) BY DEF Net
<1>5. ASSUME NEW ts, S \subseteq DOMAIN ts, \A i \in S : ts[i] = trades[i]
      PROVE  Net(ts, S) = Net(trades, S)
  <2> DEFINE h == [i \in DOMAIN ts |-> ts[i].net]
  <2>1. \A i \in S : h[i] = f[i] BY <1>1, <1>5
  <2>2. Net(ts, S) = SumFunctionOnSet(h, S) BY DEF Net
  <2> HIDE DEF f, h
  <2> QED BY <1>2, <1>3, <1>4, <2>1, <2>2, SumFacts
<1> HIDE DEF f
<1>6. /\ SumFunctionOnSet(f, S) \in Int /\ (S = {} => SumFunctionOnSet(f, S) = 0)
      /\ \A i \in S : SumFunctionOnSet(f, S) = SumFunctionOnSet(f, S \ {i}) + f[i]
  BY <1>2, <1>3, SumFacts
<1> QED BY <1>3, <1>4, <1>5, <1>6

\* A walk starts with its capital and no trade.
LEMMA BookedStart ==
    ASSUME NEW p \in 1 .. Profiles, StartWalk(p)
    PROVE  Booked'
<1>1. /\ trades' = Nothing /\ book' = {} /\ profile' = p /\ equity' = Initial[p]
  BY DEF StartWalk
<1>2. Taken(trades') = {} BY <1>1, NoTrades
<1>3. Net(trades', Taken(trades') \ book') = 0
  <2> DEFINE f == [i \in DOMAIN trades' |-> trades'[i].net]
  <2>1. SumFunctionOnSet(f, {}) = 0 BY FS_EmptySet, SumFacts
  <2>2. Net(trades', {}) = SumFunctionOnSet(f, {}) BY DEF Net
  <2> QED BY <1>2, <2>1, <2>2
<1> QED BY <1>1, <1>3, Constants DEF Booked

LEMMA BookedStep == ASSUME IInv, [Next]_vars PROVE Booked'
<1>0. TypeOK /\ Split /\ Booked BY DEF IInv
<1>1. ASSUME Begin \/ UnknownSlice \/ GridFails \/ (\E seen \in [Slice -> Seen] : ReplaySlice(seen))
               \/ (\E n \in 0 .. GridChunk : SliceFails(n))
      PROVE  Booked'
  BY <1>1, ReplayStep DEF Booked
<1>2. CASE Complete
  <2>1. 1 \in 1 .. Profiles BY Constants
  <2> QED BY <1>2, <2>1, BookedStart DEF Complete
<1>3. ASSUME NEW i \in book, Settle(i) PROVE Booked'
  <2> DEFINE S == Taken(trades) \ book'
  <2>1. /\ phase = "walk" /\ equity' = equity + trades[i].net /\ book' = book \ {i}
        /\ UNCHANGED <<profile, trades>>
    BY <1>3 DEF Settle
  <2>2. i \in Taken(trades) BY <1>0 DEF TypeOK
  <2>3. S \in SUBSET Taken(trades) /\ i \in S /\ S \ {i} = Taken(trades) \ book
    BY <2>1, <2>2
  <2>4. /\ Net(trades, S) = Net(trades, S \ {i}) + trades[i].net
        /\ Net(trades, S \ {i}) \in Int
    <3>1. S \ {i} \in SUBSET Taken(trades) OBVIOUS
    <3> HIDE DEF S
    <3> QED BY <1>0, <2>3, <3>1, NetFacts
  <2>5. trades[i].net \in Int /\ Initial[profile] \in Int /\ equity \in Int
    <3>1. trades[i] \in Trade /\ profile \in 1 .. Profiles /\ equity \in Int
      BY <1>0, <2>2 DEF TypeOK, Walked, Taken
    <3>2. Initial[profile] \in Int BY <3>1, Constants
    <3> QED BY <3>1, <3>2 DEF Trade
  <2>6. equity = Initial[profile] + Net(trades, S \ {i}) BY <1>0, <2>1, <2>3 DEF Booked
  <2>7. equity' = Initial[profile] + Net(trades, S) BY <2>1, <2>4, <2>5, <2>6
  <2>8. S = Taken(trades') \ book' BY <2>1
  <2> QED BY <2>1, <2>7, <2>8 DEF Booked
<1>4. ASSUME NEW i \in queue, NEW t \in Trade, Decide(i, t), phase = "walk",
             UNCHANGED <<profile, equity>>,
             \/ ~t.executed /\ book' = book
             \/ t.executed /\ book' = book \cup {i}
      PROVE  Booked'
  <2> DEFINE S == Taken(trades) \ book
  <2>1. DOMAIN trades \cap queue = {} BY <1>0, <1>4 DEF Split
  <2>2. /\ DOMAIN trades' = DOMAIN trades \cup {i} /\ trades'[i] = t
        /\ \A j \in DOMAIN trades : trades'[j] = trades[j] /\ j # i
    BY <1>0, <1>4, <2>1, Decided
  <2>3. Taken(trades') \ book' = S BY <1>4, <2>2 DEF Taken
  <2>4. Net(trades', S) = Net(trades, S)
    <3>1. S \in SUBSET Taken(trades) /\ S \subseteq DOMAIN trades' /\ \A j \in S : trades'[j] = trades[j]
      BY <2>2 DEF Taken
    <3> HIDE DEF S
    <3> QED BY <1>0, <3>1, NetFacts
  <2> HIDE DEF S
  <2>5. equity = Initial[profile] + Net(trades, S) BY <1>0, <1>4 DEF Booked, S
  <2> QED BY <1>4, <2>3, <2>4, <2>5 DEF Booked
<1>5. ASSUME NEW i \in queue, NEW entry \in Forward(i), NEW exit \in Exits(i), NEW size \in 1 .. equity,
             NEW move \in Moves, Execute(i, entry, exit, size, move)
      PROVE  Booked'
  <2> DEFINE t == [executed |-> TRUE, reason |-> "none", entry |-> entry, exit |-> exit,
                   size |-> size, net |-> (size * move) \div 10 - 2 * Fee]
  <2>1. /\ entry \in Forward(i) \ Later(i) /\ Decide(i, t) /\ phase = "walk" /\ book' = book \cup {i}
        /\ UNCHANGED <<profile, equity>>
    BY <1>5 DEF Execute, Offered
  <2>2. t \in Trade /\ t.executed BY <1>0, <2>1, TradeType
  <2> HIDE DEF t
  <2> QED BY <2>1, <2>2, <1>4
<1>6. ASSUME NEW i \in queue, NEW reason \in Refusal, Refuse(i, reason) PROVE Booked'
  <2> DEFINE t == [executed |-> FALSE, reason |-> reason, entry |-> 0, exit |-> 0, size |-> 0, net |-> 0]
  <2>1. /\ Decide(i, t) /\ phase = "walk" /\ book' = book /\ UNCHANGED <<profile, equity>>
    BY <1>6 DEF Refuse, Offered
  <2>2. t \in Trade /\ ~t.executed BY DEF Trade
  <2> HIDE DEF t
  <2> QED BY <2>1, <2>2, <1>4
<1>7. CASE Commit
  <2>1. CASE profile < Profiles
    <3>1. profile + 1 \in 1 .. Profiles BY <1>0, <2>1, Constants DEF TypeOK
    <3> QED BY <1>7, <2>1, <3>1, BookedStart DEF Commit
  <2>2. CASE ~(profile < Profiles) BY <1>7, <2>2 DEF Commit, Booked
  <2> QED BY <2>1, <2>2
<1>8. CASE Stop BY <1>8 DEF Stop, Booked
<1>9. CASE UNCHANGED vars BY <1>0, <1>9 DEF vars, walk, Booked, Taken, Net
<1> QED BY <1>1, <1>2, <1>3, <1>5, <1>6, <1>7, <1>8, <1>9 DEF Next, Replay, Walk

\* When a walk is committed nothing is open any more.
LEMMA CommittedClosed ==
    ASSUME IInv, Commit
    PROVE  book = {}
<1>1. Front = {} BY DEF Commit, Front
<1> QED BY <1>1 DEF Commit, Due

-----------------------------------------------------------------------------
(* The counts *)

\* The next slice begins after this one.
LEMMA SliceOrder ==
    ASSUME TypeOK
    PROVE  /\ First(place.slice) \in Nat /\ First(place.slice + 1) \in Nat
           /\ First(place.slice) <= First(place.slice + 1)
           /\ \A t \in Slice : t \in Nat /\ First(place.slice) <= t /\ t < First(place.slice + 1)
<1> DEFINE k == place.slice - 1
<1>1. place.slice \in Nat /\ k \in Nat /\ k + 1 = place.slice /\ place.slice + 1 - 1 = k + 1
  BY DEF TypeOK
<1>2. k * GridChunk \in Nat /\ (k + 1) * GridChunk = k * GridChunk + GridChunk /\ GridChunk \in Nat
  BY <1>1, Constants
<1>3. /\ First(place.slice) = k * GridChunk + 1
      /\ First(place.slice + 1) = (k + 1) * GridChunk + 1
      /\ Last(place.slice) = IF (k + 1) * GridChunk < LastClose THEN (k + 1) * GridChunk ELSE LastClose
  BY <1>1 DEF First, Last
<1> HIDE DEF k
<1>4. Last(place.slice) \in Nat /\ Last(place.slice) <= (k + 1) * GridChunk
  BY <1>2, <1>3, Constants
<1>5. \A t \in Slice : t \in Nat /\ First(place.slice) <= t /\ t <= (k + 1) * GridChunk
  BY <1>2, <1>3, <1>4 DEF Slice
<1> QED BY <1>2, <1>3, <1>5

\* A slice is replayed, or skipped for want of an instrument: the counts of the rows
\* follow, whether or not the symbol ends with it.
LEMMA AdvanceCounts ==
    ASSUME TypeOK, Counting, Replaying, NEW N \in SUBSET ({place.symbol} \X Slice),
           rows' = rows \cup N, place.symbol \notin Known => N = {},
           NEW tally \in Tally, Advance(Cardinality(N), tally),
           tally.observations = stats.observations, tally.symbols = stats.symbols,
           tally.errors = IF place.symbol \in Known THEN stats.errors
                          ELSE stats.errors \cup {place.symbol}
    PROVE  /\ Reached' /\ Tallied' /\ rows \cap N = {}
           /\ stats'.qualified = tally.qualified /\ stats'.errors = tally.errors
<1> DEFINE s == place.symbol
<1>0. /\ phase \in {"idle", "replay"} /\ s \in 1 .. Symbols /\ s \in Nat /\ s + 1 \in Nat
      /\ place.slice \in Nat \ {0} /\ written \in Nat
      /\ place = [symbol |-> s, slice |-> place.slice]
      /\ tally.observations \in Nat /\ tally.symbols \in Nat
      /\ tally.errors \subseteq 1 .. Symbols /\ stats.errors \subseteq 1 .. Symbols
  BY Constants DEF TypeOK, Replaying, Tally
<1>1. /\ \A r \in rows : r[1] \in Known /\ r[1] \in Nat /\ r[1] <= s
                         /\ (r[1] = s => r[2] < First(place.slice))
      /\ stats.errors \subseteq 1 .. s /\ (s \in stats.errors => s \notin Known)
      /\ stats.observations = Cardinality(Past) /\ written = Cardinality(Current)
      /\ s - 1 <= stats.symbols + Cardinality(stats.errors \ {s})
  BY <1>0 DEF Counting, Reached, Tallied, TypeOK
<1>2. /\ First(place.slice) \in Nat /\ First(place.slice + 1) \in Nat
      /\ First(place.slice) <= First(place.slice + 1)
      /\ \A t \in Slice : t \in Nat /\ First(place.slice) <= t /\ t < First(place.slice + 1)
  BY SliceOrder
<1>3. \A r \in N : r[1] = s /\ r[2] \in Slice OBVIOUS
<1>4. rows \cap N = {}
  <2>1. \A r \in rows : r[2] \in Nat BY Constants DEF TypeOK
  <2> QED BY <1>1, <1>2, <1>3, <2>1
<1>5. IsFiniteSet(N) /\ Cardinality(N) \in Nat
  <2>1. IsFiniteSet({place.symbol} \X Slice) BY SliceType, FS_Singleton, FS_Product
  <2> QED BY <2>1, FS_Subset, FS_CardinalityType
<1>6. IsFiniteSet(Past) /\ IsFiniteSet(Current)
  <2>1. Past \subseteq rows /\ Current \subseteq rows BY DEF Past, Current
  <2> QED BY <2>1, GoodFinite, FS_Subset
<1>7. \A r \in rows' : r[1] \in Known /\ r[1] \in Nat /\ r[1] <= s BY <1>0, <1>1, <1>3
<1>8. IsFiniteSet(Current \cup N) /\ Cardinality(Current \cup N) = written + Cardinality(N)
  <2>1. Current \cap N = {} BY <1>4 DEF Current
  <2> QED BY <1>1, <1>5, <1>6, <2>1, Apart
<1>9. Cardinality(stats.errors \ {s}) \in Nat /\ tally.errors \subseteq 1 .. s
  BY <1>0, <1>1, ErrorsFinite
<1>10. CASE place.slice < Slices
  <2>1. place'.symbol = s /\ place'.slice = place.slice + 1
        /\ written' = written + Cardinality(N) /\ stats' = tally
    BY <1>0, <1>10 DEF Advance
  <2>2. \A r \in rows' : r[1] = s => r[2] < First(place.slice + 1)
    <3>1. \A r \in rows : r[2] \in Nat BY Constants DEF TypeOK
    <3> QED BY <1>1, <1>2, <1>3, <3>1
  <2>3. Past' = Past
    <3>1. \A r \in rows : r[1] < s => (r[1] \in tally.errors <=> r[1] \in stats.errors)
      BY <1>0, <1>1
    <3> QED BY <1>0, <1>3, <2>1, <3>1 DEF Past
  <2>4. Current' = Current \cup N BY <1>3, <2>1 DEF Current
  <2>5. tally.errors \ {s} = stats.errors \ {s} OBVIOUS
  <2>6. s \in tally.errors => s \notin Known BY <1>1
  <2> HIDE DEF s
  <2>7. Reached' BY <1>7, <2>1, <2>2 DEF Reached
  <2>8. Tallied' BY <1>1, <1>8, <1>9, <2>1, <2>3, <2>4, <2>5, <2>6 DEF Tallied
  <2> QED BY <1>4, <2>1, <2>7, <2>8
<1>11. CASE ~(place.slice < Slices)
  <2>1. /\ place'.symbol = s + 1 /\ place'.slice = 1 /\ written' = 0
        /\ stats' = [tally EXCEPT !.observations = @ + written + Cardinality(N), !.symbols = @ + 1]
    BY <1>11 DEF Advance
  <2>2. /\ stats'.observations = tally.observations + written + Cardinality(N)
        /\ stats'.symbols = tally.symbols + 1 /\ stats'.errors = tally.errors
        /\ stats'.qualified = tally.qualified
    BY <2>1 DEF Tally
  <2>3. Current' = {} /\ \A r \in rows' : r[1] # s + 1 BY <1>0, <1>7, <2>1 DEF Current
  <2>4. Past' = Past \cup (Current \cup N)
    <3>1. \A r \in rows' : r[1] < s + 1 /\ (r[1] < s \/ r[1] = s) BY <1>0, <1>7
    <3>2. \A r \in rows' : r[1] \notin tally.errors <=> (r[1] \notin stats.errors \/ r[1] = s)
      BY <1>1, <1>7
    <3>3. \A r \in N : ~(r[1] < s) BY <1>0, <1>3
    <3>4. \A r \in rows : r[1] = s => r[1] \notin stats.errors BY <1>1
    <3> QED BY <1>0, <1>3, <2>1, <2>2, <3>1, <3>2, <3>3, <3>4 DEF Past, Current
  <2>5. Cardinality(Past') = stats.observations + (written + Cardinality(N))
    <3>1. Past \cap (Current \cup N) = {} BY <1>0, <1>3 DEF Past, Current
    <3>2. Cardinality(Past \cup (Current \cup N)) = Cardinality(Past) + Cardinality(Current \cup N)
      BY <1>6, <1>8, <3>1, Apart
    <3> QED BY <1>1, <1>8, <2>4, <3>2
  <2>6. Cardinality(stats.errors \ {s}) <= Cardinality(tally.errors \ {s + 1})
    <3>1. stats.errors \ {s} \subseteq tally.errors \ {s + 1} BY <1>0, <1>1
    <3>2. IsFiniteSet(tally.errors \ {s + 1}) BY <1>0, ErrorsFinite
    <3> QED BY <3>1, <3>2, FS_Subset
  <2>7. s + 1 \notin tally.errors /\ tally.errors \subseteq 1 .. s + 1 BY <1>0, <1>9
  <2>8. Cardinality(tally.errors \ {s + 1}) \in Nat BY <1>0, ErrorsFinite
  <2>9. Cardinality(Current') = 0 BY <2>3, FS_EmptySet
  <2>10. s + 1 - 1 <= stats'.symbols + Cardinality(tally.errors \ {s + 1})
    BY <1>0, <1>1, <1>9, <2>2, <2>6, <2>8
  <2>11. stats'.observations = Cardinality(Past') BY <1>0, <1>1, <1>5, <2>2, <2>5
  <2> HIDE DEF s
  <2>12. \A r \in rows' : r[1] \in Known /\ r[1] <= s + 1 /\ r[1] # s + 1
    BY <1>0, <1>7, <2>3
  <2>13. /\ Reached'
         /\ stats'.errors \subseteq 1 .. place'.symbol /\ place'.symbol \notin stats'.errors
    BY <2>1, <2>2, <2>7, <2>12 DEF Reached
  <2>14. place'.symbol - 1 <= stats'.symbols + Cardinality(stats'.errors \ {place'.symbol})
    <3>1. stats'.errors \ {place'.symbol} = tally.errors \ {s + 1} BY <2>1, <2>2
    <3>2. Cardinality(stats'.errors \ {place'.symbol}) = Cardinality(tally.errors \ {s + 1})
      BY <3>1
    <3>3. place'.symbol - 1 = s + 1 - 1 BY <1>0, <2>1
    <3> QED BY <2>10, <3>2, <3>3
  <2>15. written' = Cardinality(Current') BY <2>1, <2>9
  <2>16. place'.symbol \in stats'.errors => place'.symbol \notin Known BY <2>13
  <2>17. stats'.qualified = tally.qualified /\ stats'.errors = tally.errors BY <2>2
  <2>18. Tallied' BY <2>11, <2>13, <2>14, <2>15, <2>16 DEF Tallied
  <2> QED BY <1>4, <2>13, <2>17, <2>18
<1> QED BY <1>10, <1>11

LEMMA CountingStep == ASSUME IInv, [Next]_vars PROVE Counting'
<1>0. TypeOK /\ Counting BY DEF IInv
<1>1. CASE Begin BY <1>0, <1>1 DEF Begin, Counting, Reached, Tallied, replay, Past, Current
<1>2. ASSUME NEW seen \in [Slice -> Seen], ReplaySlice(seen) PROVE Counting'
  <2> DEFINE at(kinds) == {place.symbol} \X {t \in Slice : seen[t] \in kinds}
             all == at({"plain", "qualified"})
             new == at({"qualified"})
             tally == [stats EXCEPT !.qualified = @ + Cardinality(new)]
  <2>1. /\ rows' = rows \cup all /\ good' = good \cup new /\ Replaying /\ place.symbol \in Known
        /\ Advance(Cardinality(all), tally) /\ run' = run /\ phase' = "replay" /\ phase = "replay"
    BY <1>2 DEF ReplaySlice, Replaying
  <2>2. all \in SUBSET ({place.symbol} \X Slice) /\ new \subseteq all OBVIOUS
  <2>3. IsFiniteSet(new) /\ Cardinality(new) \in Nat
    <3>1. IsFiniteSet({place.symbol} \X Slice) BY <1>0, SliceType, FS_Singleton, FS_Product
    <3>2. new \subseteq {place.symbol} \X Slice OBVIOUS
    <3> QED BY <3>1, <3>2, FS_Subset, FS_CardinalityType
  <2> HIDE DEF all, new
  <2>4. /\ tally \in Tally /\ tally.observations = stats.observations /\ tally.symbols = stats.symbols
        /\ tally.errors = stats.errors /\ tally.qualified = stats.qualified + Cardinality(new)
        /\ stats.qualified \in Nat
    BY <1>0, <2>3, TallyType DEF TypeOK, Tally
  <2> HIDE DEF tally
  <2>5. /\ Reached' /\ Tallied'
        /\ stats'.qualified = tally.qualified /\ stats'.errors = tally.errors
        /\ rows \cap all = {}
    BY <1>0, <2>1, <2>2, <2>4, AdvanceCounts
  <2>6. Cardinality(good') = Cardinality(good) + Cardinality(new) /\ Cardinality(good) \in Nat
    <3>1. good \cap new = {} BY <1>0, <2>2, <2>5 DEF TypeOK
    <3> QED BY <1>0, <2>1, <2>3, <3>1, GoodFinite, Apart
  <2>7. /\ run.status # "COMPLETED" /\ Cardinality(good) <= stats.qualified
        /\ stats.errors = {} => stats.qualified = Cardinality(good)
    BY <1>0, <2>1 DEF Counting, Reached, Tallied
  <2>8. /\ Cardinality(good') <= stats'.qualified
        /\ stats'.errors = {} => stats'.qualified = Cardinality(good')
    BY <2>3, <2>4, <2>5, <2>6, <2>7
  <2> QED BY <2>1, <2>5, <2>7, <2>8 DEF Counting, Reached, Tallied
<1>3. CASE UnknownSlice
  <2> DEFINE tally == [stats EXCEPT !.errors = @ \cup {place.symbol}]
  <2>1. /\ Replaying /\ place.symbol \notin Known /\ Advance(0, tally) /\ run' = run
        /\ rows' = rows /\ good' = good /\ phase' = "replay" /\ phase = "replay"
    BY <1>3 DEF UnknownSlice, Replaying
  <2>2. place.symbol \in 1 .. Symbols BY <1>0, <2>1, Constants DEF Replaying, TypeOK
  <2>3. /\ tally \in Tally /\ tally.observations = stats.observations /\ tally.symbols = stats.symbols
        /\ tally.errors = stats.errors \cup {place.symbol} /\ tally.qualified = stats.qualified
    BY <1>0, <2>2 DEF TypeOK, Tally
  <2> HIDE DEF tally
  <2>4. Cardinality({}) = 0 /\ rows' = rows \cup {} /\ {} \in SUBSET ({place.symbol} \X Slice)
    BY <2>1, FS_EmptySet
  <2>5. /\ Reached' /\ Tallied'
        /\ stats'.qualified = tally.qualified /\ stats'.errors = tally.errors
    BY <1>0, <2>1, <2>3, <2>4, AdvanceCounts
  <2>6. run.status # "COMPLETED" /\ Cardinality(good) <= stats.qualified
    BY <1>0, <2>1 DEF Counting, Reached, Tallied
  <2> QED BY <2>1, <2>3, <2>5, <2>6 DEF Counting, Reached, Tallied
<1>4. ASSUME NEW n \in 0 .. GridChunk, SliceFails(n) PROVE Counting'
  <2> DEFINE s == place.symbol
  <2>1. /\ s \in 1 .. Symbols /\ s \in Nat /\ s + 1 \in Nat /\ n \in Nat
        /\ phase = "replay" /\ phase' = "replay" /\ run' = run /\ rows' = rows /\ good' = good
        /\ place'.symbol = s + 1 /\ place'.slice = 1 /\ written' = 0
    BY <1>0, <1>4, Constants DEF SliceFails, Replaying, TypeOK
  <2>2. /\ stats'.observations = stats.observations /\ stats'.symbols = stats.symbols
        /\ stats'.qualified = stats.qualified + n /\ stats'.errors = stats.errors \cup {s}
        /\ stats.qualified \in Nat /\ stats.symbols \in Nat /\ stats.errors \subseteq 1 .. Symbols
    BY <1>0, <1>4 DEF SliceFails, TypeOK, Tally
  <2>3. /\ \A r \in rows : r[1] \in Known /\ r[1] \in Nat /\ r[1] <= s
        /\ stats.errors \subseteq 1 .. s /\ run.status # "COMPLETED"
        /\ stats.observations = Cardinality(Past)
        /\ s - 1 <= stats.symbols + Cardinality(stats.errors \ {s})
        /\ Cardinality(good) <= stats.qualified
    BY <1>0, <2>1 DEF Counting, Reached, Tallied, TypeOK
  <2>4. Past' = Past
    <3>1. \A r \in rows : r[1] < s + 1 /\ (r[1] < s \/ r[1] = s) BY <2>1, <2>3
    <3>2. \A r \in rows : r[1] < s => r[1] # s BY <2>1, <2>3
    <3> QED BY <2>1, <2>2, <3>1, <3>2 DEF Past
  <2>5. Current' = {} BY <2>1, <2>3 DEF Current
  <2>6. Cardinality(stats'.errors \ {s + 1}) = Cardinality(stats.errors \ {s}) + 1
    <3>1. stats'.errors \ {s + 1} = (stats.errors \ {s}) \cup {s} BY <2>1, <2>2, <2>3
    <3>2. IsFiniteSet(stats.errors \ {s}) BY <2>2, ErrorsFinite
    <3> QED BY <3>1, <3>2, FS_AddElement
  <2>7. Cardinality(stats.errors \ {s}) \in Nat BY <2>2, ErrorsFinite
  <2>8. Cardinality(good) \in Nat BY <1>0, GoodFinite, FS_CardinalityType
  <2>9. s + 1 \notin stats'.errors /\ stats'.errors \subseteq 1 .. s + 1 /\ stats'.errors # {}
    BY <2>1, <2>2, <2>3
  <2>10. \A r \in rows' : r[1] \in Known /\ r[1] <= s + 1 /\ r[1] # s + 1 BY <2>1, <2>3
  <2>11. Cardinality(Current') = 0 BY <2>5, FS_EmptySet
  <2>12. /\ s + 1 - 1 <= stats'.symbols + Cardinality(stats'.errors \ {s + 1})
         /\ Cardinality(good') <= stats'.qualified
    BY <2>1, <2>2, <2>3, <2>6, <2>7, <2>8
  <2> HIDE DEF s
  <2> QED BY <2>1, <2>2, <2>3, <2>4, <2>9, <2>10, <2>11, <2>12 DEF Counting, Reached, Tallied
<1>5. CASE phase' \notin {"idle", "replay"} BY <1>5 DEF Counting, Reached, Tallied
<1>6. CASE UNCHANGED vars BY <1>0, <1>6 DEF vars, replay, Counting, Reached, Tallied, Past, Current
<1>7. ASSUME GridFails \/ Complete \/ Walk \/ Stop PROVE phase' \notin {"idle", "replay"}
  BY <1>7 DEF GridFails, Complete, Walk, Settle, Execute, Refuse, Offered, Commit, Stop
<1> QED BY <1>1, <1>2, <1>3, <1>4, <1>5, <1>6, <1>7 DEF Next, Replay

LEMMA CountsAgreeStep == ASSUME IInv, [Next]_vars PROVE CountsAgree'
<1>0. TypeOK /\ Split /\ Counting /\ CountsAgree BY DEF IInv
<1>1. CASE Complete
  <2>1. /\ phase = "replay" /\ run'.status = "COMPLETED" /\ run'.counts = stats
        /\ (LastClose = 0 \/ place.symbol > Symbols) /\ rows' = rows /\ good' = good
    BY <1>1 DEF Complete, replay
  <2>2. /\ stats.observations = Cardinality(Past)
        /\ place.symbol - 1 <= stats.symbols + Cardinality(stats.errors \ {place.symbol})
        /\ Cardinality(good) <= stats.qualified
        /\ stats.errors = {} => stats.qualified = Cardinality(good)
    BY <1>0, <2>1 DEF Counting, Reached, Tallied
  <2>3. Past = {r \in rows : r[1] \notin stats.errors}
    <3>1. rows # {} => LastClose # 0 BY <1>0, Constants DEF TypeOK
    <3>2. \A r \in rows : r[1] < place.symbol
      BY <1>0, <2>1, <3>1, Constants DEF TypeOK
    <3> QED BY <3>2 DEF Past
  <2>4. ASSUME LastClose > 0 PROVE stats.symbols >= Symbols - Cardinality(stats.errors)
    <3>1. /\ place.symbol = Symbols + 1 /\ stats.errors \subseteq 1 .. Symbols
          /\ stats.symbols \in Nat
      BY <1>0, <2>1, <2>4, Constants DEF TypeOK, Tally
    <3>2. stats.errors \ {place.symbol} = stats.errors BY <3>1, Constants
    <3>3. Cardinality(stats.errors) \in Nat BY <3>1, ErrorsFinite
    <3>4. Cardinality(stats.errors \ {place.symbol}) = Cardinality(stats.errors) BY <3>2
    <3>5. place.symbol - 1 <= stats.symbols + Cardinality(stats.errors) BY <2>2, <3>4
    <3>6. Symbols \in Nat BY Constants
    <3> QED BY <3>1, <3>3, <3>5, <3>6
  <2>5. stats.qualified \in Nat /\ Cardinality(good) \in Nat
    BY <1>0, GoodFinite, FS_CardinalityType DEF TypeOK, Tally
  <2> QED BY <2>1, <2>2, <2>3, <2>4, <2>5 DEF CountsAgree
<1>2. ASSUME phase' \in {"idle", "replay"} PROVE CountsAgree'
  <2>1. Counting' BY CountingStep
  <2> QED BY <1>2, <2>1 DEF Counting, Reached, Tallied, CountsAgree
<1>3. ASSUME UNCHANGED <<run, rows, good>> PROVE CountsAgree'
  BY <1>0, <1>3 DEF CountsAgree
<1>4. CASE GridFails BY <1>4 DEF GridFails, CountsAgree
<1>5. ASSUME Begin \/ UnknownSlice \/ (\E seen \in [Slice -> Seen] : ReplaySlice(seen))
               \/ (\E n \in 0 .. GridChunk : SliceFails(n))
      PROVE  phase' \in {"idle", "replay"}
  BY <1>5 DEF Begin, UnknownSlice, ReplaySlice, SliceFails, Replaying
<1> QED
  BY <1>1, <1>2, <1>3, <1>4, <1>5
     DEF Next, Replay, Walk, Settle, Execute, Refuse, Commit, Stop, vars, replay

-----------------------------------------------------------------------------
(* The theorems *)

\* The inductive invariant of the replay and its walks, from which the rest follows.
THEOREM Invariance == Spec => []IInv
<1>1. ASSUME Init PROVE IInv
  <2>0. 1 \in 1 .. Profiles /\ \A p \in 1 .. Profiles : Limit[p] \in Nat BY Constants
  <2>1. TypeOK
    <3>1. Zero \in Tally BY DEF Zero, Tally
    <3>2. place \in [symbol : 1 .. Symbols + 1, slice : Nat \ {0}] BY <1>1, Constants DEF Init
    <3> QED BY <1>1, <2>0, <3>1, <3>2, NoTrades DEF Init, TypeOK, Walked
  <2>2. Split /\ Timely /\ AllOrNothing BY <1>1 DEF Init, Split, Timely, AllOrNothing
  <2>3. HeldWithinLimit
    <3>1. \A x : Cardinality(Held(Nothing, x)) = 0 BY NoTrades, FS_EmptySet
    <3> QED BY <1>1, <2>0, <3>1 DEF Init, HeldWithinLimit
  <2>4. Booked /\ CountsAgree BY <1>1 DEF Init, Booked, CountsAgree
  <2>5. Counting
    <3>1. Past = {} /\ Current = {} /\ Cardinality({}) = 0
      BY <1>1, FS_EmptySet DEF Init, Past, Current
    <3>2. stats.errors = {} /\ stats.errors \ {place.symbol} = {}
      BY <1>1 DEF Init, Zero
    <3> QED BY <1>1, <3>1, <3>2 DEF Init, Zero, Counting, Reached, Tallied
  <2> QED BY <2>1, <2>2, <2>3, <2>4, <2>5 DEF IInv
<1>2. IInv /\ [Next]_vars => IInv'
  BY TypeOKStep, SplitTimelyStep, AllOrNothingStep, HeldStep, BookedStep, CountingStep,
     CountsAgreeStep DEF IInv
<1> QED BY <1>1, <1>2, PTL DEF Spec

\* The type invariant of the replay and its walks.
THEOREM TypeCorrect == Spec => []TypeOK
<1>1. IInv => TypeOK BY DEF IInv
<1> QED BY <1>1, Invariance, PTL

\* A profile has an outcome for every qualified observation or none at all, whatever
\* ends the job (_simulate_one).
THEOREM AllOrNothingHolds == Spec => []AllOrNothing
<1>1. IInv => AllOrNothing BY DEF IInv
<1> QED BY <1>1, Invariance, PTL

\* At no bar does a portfolio hold more positions than its limit, counted from the
\* entries and exits its outcomes report (_settle_due, simulate_entry).
THEOREM HeldWithinLimitHolds == Spec => []HeldWithinLimit
<1>1. IInv => HeldWithinLimit BY DEF IInv
<1> QED BY <1>1, Invariance, PTL

\* A completed run reports the rows of every symbol it did not give up, however many
\* slices commit one by one, and one without errors has missed nothing (_replay).
THEOREM CountsAgreeHolds == Spec => []CountsAgree
<1>1. IInv => CountsAgree BY DEF IInv
<1> QED BY <1>1, Invariance, PTL

\* A portfolio ends with its capital and the net result of every trade it reports,
\* each counted once, however its positions overlap (_settle_due, _simulate_one).
THEOREM EquityAccountsHolds == Spec => EquityAccounts
<1>1. ASSUME IInv, [Next]_vars, outcomes' # outcomes
      PROVE  equity = Initial[profile] + Net(outcomes'[profile], Taken(outcomes'[profile]))
  <2>1. Commit
    BY <1>1 DEF Next, Replay, Walk, Begin, ReplaySlice, UnknownSlice, SliceFails, GridFails, Complete,
          Settle, Execute, Refuse, Stop, vars, walk
  <2>2. outcomes'[profile] = trades BY <1>1, <2>1 DEF Commit, IInv, TypeOK
  <2>3. book = {} /\ phase = "walk" BY <1>1, <2>1, CommittedClosed DEF Commit
  <2>4. Taken(trades) \ book = Taken(trades) BY <2>3
  <2> QED BY <1>1, <2>2, <2>3, <2>4 DEF IInv, Booked
<1>2. IInv /\ [Next]_vars =>
        [outcomes' # outcomes =>
            equity = Initial[profile] + Net(outcomes'[profile], Taken(outcomes'[profile]))]_vars
  BY <1>1
<1> QED BY <1>2, Invariance, PTL DEF Spec, EquityAccounts

\* The equity curve of a portfolio runs forward in time (_qualified_observations,
\* _settle_due).
THEOREM CurveInOrderHolds == Spec => CurveInOrder
<1>1. ASSUME IInv, [Next]_vars, phase = "walk", profile' = profile PROVE clock <= clock'
  <2>0. clock \in Nat /\ profile \in Nat BY <1>1, Constants DEF IInv, TypeOK
  <2>1. ASSUME UNCHANGED clock PROVE clock <= clock' BY <2>0, <2>1
  <2>2. CASE Commit
    <3>1. ~(profile < Profiles) BY <1>1, <2>0, <2>2 DEF Commit, StartWalk
    <3> QED BY <2>1, <2>2, <3>1 DEF Commit
  <2> QED
    BY <1>1, <2>1, <2>2, SettleStep
       DEF Next, Replay, Walk, Begin, ReplaySlice, UnknownSlice, SliceFails, Replaying, GridFails, Complete,
           Execute, Refuse, Stop, vars, replay, walk
<1>2. IInv /\ [Next]_vars => [phase = "walk" /\ profile' = profile => clock <= clock']_vars BY <1>1
<1> QED BY <1>2, Invariance, PTL DEF Spec, CurveInOrder
=============================================================================
