------------------------- MODULE PaperEngine_proofs -------------------------
(***************************************************************************)
(* Proofs about PaperEngine: a decision trades once, the trade log is the  *)
(* closed positions, halts bind, and the portfolio implements PaperAccount.*)
(*                                                                         *)
(* Most of it is about one transaction, a function from rows to rows: Sound*)
(* is what every such function keeps, and Trades says how lots and cash    *)
(* may differ between its two ends.                                        *)
(***************************************************************************)
EXTENDS PaperEngine, SequenceTheorems, FiniteSetTheorems, TLAPS

Books == [cash : Int, realized : Int, peak : Int, deep : BOOLEAN,
          halt : {"none", "daily", "drawdown"}, session : Int, base : Int,
          pos : Seq(Position), orders : SUBSET Order, trades : SUBSET Trade]

Singles(d) ==
    /\ \A p, q \in DOMAIN d.pos : d.pos[p].dec = d.pos[q].dec => p = q
    /\ \A p, q \in OpenPos(d) : d.pos[p].inst = d.pos[q].inst => p = q
    /\ \A o, n \in d.orders : o.key = n.key => o = n

\* Every position was opened by its decision's order.
Keyed(d) == \A p \in DOMAIN d.pos :
    /\ d.pos[p].inst = d.pos[p].dec[1]
    /\ HasKey(d, EntryKey(d.pos[p].dec[1], d.pos[p].dec[2]))

Logged(d) ==
    /\ \A r \in d.trades : /\ r.pos \in DOMAIN d.pos
                           /\ d.pos[r.pos].status = "CLOSED"
                           /\ r.gain = d.pos[r.pos].got - Outflow(d.pos[r.pos])
    /\ \A p \in DOMAIN d.pos : d.pos[p].status = "CLOSED" => \E r \in d.trades : r.pos = p
    /\ \A r, s \in d.trades : r.pos = s.pos => r = s

\* MoneyConserved, of rows in the middle of a transaction too.
Balanced(d) ==
    /\ IsFiniteSet(d.trades)
    /\ d.cash + Spent(d) = Capital + d.realized
    /\ d.realized = Earned(d)

Sound(d) == d \in Books /\ Singles(d) /\ Keyed(d) /\ Logged(d) /\ Balanced(d)

Feed ==
    /\ now \in 1 .. LastBar
    /\ bar \in [Instr -> [at : 1 .. LastBar, candle : Candle]]
    /\ range \in [Instr -> [low : Nat, high : Nat]]
    /\ \A i \in Instr : /\ bar[i].at <= now
                        /\ range[i].low <= bar[i].candle.low
                        /\ bar[i].candle.high <= range[i].high

IInv == Feed /\ Sound(db) /\ db.cash >= 0

-----------------------------------------------------------------------------
(* Sums *)

\* Induction over the subsets of a finite set: inclusion is well founded there, so a
\* smallest counterexample would exist.
LEMMA SetInduction ==
    ASSUME NEW S, IsFiniteSet(S), NEW B,
           \A T \in SUBSET S : (\A U \in SUBSET T : U # T => U \in B) => T \in B
    PROVE  S \in B
<1> DEFINE F == {T \in SUBSET S : T \notin B}
           R == StrictSubsetOrdering(S)
           W == FiniteSubsetsOf(S)
<1>1. F \subseteq W BY FS_Subset DEF FiniteSubsetsOf
<1>2. IsWellFoundedOn(R, W) BY FS_StrictSubsetOrderingWellFounded
<1>3. F # {} => \E T \in F : \A U \in F : <<U, T>> \notin R
  <2> HIDE DEF F, R, W
  <2> QED BY <1>1, <1>2, WFMin
<1>4. ASSUME NEW T \in F, \A U \in F : <<U, T>> \notin R PROVE FALSE
  <2>1. \A U \in SUBSET T : U # T => U \in B BY <1>4 DEF StrictSubsetOrdering
  <2> QED BY <2>1
<1> QED BY <1>3, <1>4

Pick(s) == CHOOSE x \in s : TRUE

\* g adds up the values of f over every part of S: in the order of the library's fold,
\* and in any order.
Folds(g, f, S) == g = [T \in SUBSET S |-> IF T = {} THEN 0 ELSE f[Pick(T)] + g[T \ {Pick(T)}]]
Sums(g, f, S) ==
    /\ g \in [SUBSET S -> Int] /\ g[{}] = 0
    /\ \A T \in SUBSET S : \A x \in T : g[T] = g[T \ {x}] + f[x]

LEMMA SumsExist ==
    ASSUME NEW S, IsFiniteSet(S), NEW f, \A x \in S : f[x] \in Int
    PROVE  \E g : Sums(g, f, S)
<1> DEFINE B == {T \in SUBSET S : \E g : Sums(g, f, T)}
<1>1. ASSUME NEW T \in SUBSET S, \A U \in SUBSET T : U # T => U \in B
      PROVE  T \in B
  <2>1. CASE T = {}
    <3>1. Sums([U \in SUBSET T |-> 0], f, T) BY <2>1 DEF Sums
    <3> QED BY <3>1
  <2>2. ASSUME NEW x \in T PROVE T \in B
    <3>1. PICK g : Sums(g, f, T \ {x}) BY <1>1
    <3> DEFINE h == [U \in SUBSET T |-> IF x \in U THEN g[U \ {x}] + f[x] ELSE g[U]]
    <3>2. \A U \in SUBSET (T \ {x}) : g[U] \in Int BY <3>1 DEF Sums
    <3>3. f[x] \in Int /\ \A y \in T : f[y] \in Int BY <1>1
    <3>4. h \in [SUBSET T -> Int] BY <3>2, <3>3
    <3>5. h[{}] = 0 BY <3>1 DEF Sums
    <3>6. ASSUME NEW U \in SUBSET T, NEW y \in U PROVE h[U] = h[U \ {y}] + f[y]
      <4>1. CASE y = x BY <4>1
      <4>2. CASE y # x /\ x \in U
        <5>1. g[U \ {x}] = g[(U \ {x}) \ {y}] + f[y] BY <3>1, <4>2 DEF Sums
        <5>2. (U \ {x}) \ {y} = (U \ {y}) \ {x} /\ (U \ {x}) \ {y} \in SUBSET (T \ {x}) OBVIOUS
        <5>3. h[U] = g[U \ {x}] + f[x] /\ h[U \ {y}] = g[(U \ {y}) \ {x}] + f[x] BY <4>2
        <5>4. g[(U \ {x}) \ {y}] \in Int BY <3>2, <5>2
        <5> DEFINE a == g[U \ {x}]
                   c == g[(U \ {y}) \ {x}]
        <5>5. a = c + f[y] /\ c \in Int BY <5>1, <5>2, <5>4
        <5>6. h[U] = a + f[x] /\ h[U \ {y}] = c + f[x] BY <5>3
        <5> HIDE DEF a, c, h
        <5> QED BY <3>3, <5>5, <5>6
      <4>3. CASE x \notin U
        <5>1. U \in SUBSET (T \ {x}) BY <4>3
        <5>2. g[U] = g[U \ {y}] + f[y] BY <3>1, <5>1 DEF Sums
        <5> QED BY <4>3, <5>2
      <4> QED BY <4>1, <4>2, <4>3
    <3> HIDE DEF h
    <3>7. Sums(h, f, T) BY <3>4, <3>5, <3>6 DEF Sums
    <3> QED BY <3>7
  <2> QED BY <2>1, <2>2
<1> HIDE DEF B
<1>2. S \in B BY <1>1, SetInduction
<1> QED BY <1>2 DEF B

LEMMA SumIs ==
    ASSUME NEW S, IsFiniteSet(S), NEW f, \A x \in S : f[x] \in Int, NEW g, Sums(g, f, S)
    PROVE  SumFunctionOnSet(f, S) = g[S]
<1>1. \A T \in SUBSET S : T # {} => Pick(T) \in T BY DEF Pick
<1>2. Folds(g, f, S)
  <2>0. g = [T \in SUBSET S |-> g[T]] BY DEF Sums
  <2>1. ASSUME NEW T \in SUBSET S PROVE g[T] = IF T = {} THEN 0 ELSE f[Pick(T)] + g[T \ {Pick(T)}]
    <3>1. CASE T = {} BY <3>1 DEF Sums
    <3>2. CASE T # {}
      <4>1. g[T] = g[T \ {Pick(T)}] + f[Pick(T)] BY <1>1, <3>2 DEF Sums
      <4>2. Pick(T) \in S BY <1>1, <3>2
      <4>3. g[T \ {Pick(T)}] \in Int /\ f[Pick(T)] \in Int BY <4>2 DEF Sums
      <4> QED BY <3>2, <4>1, <4>3
    <3> QED BY <3>1, <3>2
  <2> QED BY <2>0, <2>1 DEF Folds
<1> DEFINE h == CHOOSE k : Folds(k, f, S)
<1>3. Folds(h, f, S) BY <1>2
<1>4. SumFunctionOnSet(f, S) = h[S]
  BY DEF SumFunctionOnSet, FoldFunctionOnSet, MapThenFoldSet, Folds, Pick
<1> HIDE DEF h
<1> DEFINE B == {T \in SUBSET S : h[T] = g[T]}
<1>5. ASSUME NEW T \in SUBSET S, \A U \in SUBSET T : U # T => U \in B
      PROVE  T \in B
  <2>1. CASE T = {} BY <1>2, <1>3, <2>1 DEF Folds
  <2>2. CASE T # {}
    <3>1. T \ {Pick(T)} \in B BY <1>1, <1>5, <2>2
    <3> QED BY <1>2, <1>3, <2>2, <3>1 DEF Folds
  <2> QED BY <2>1, <2>2
<1> HIDE DEF B
<1>6. S \in B BY <1>5, SetInduction
<1> QED BY <1>4, <1>6 DEF B

\* What a sum is known by: its type, the empty sum, the part without one element, and
\* that only the values over the set count.
LEMMA SumFacts ==
    ASSUME NEW S, IsFiniteSet(S), NEW f, \A x \in S : f[x] \in Int
    PROVE  /\ SumFunctionOnSet(f, S) \in Int
           /\ S = {} => SumFunctionOnSet(f, S) = 0
           /\ \A x \in S : SumFunctionOnSet(f, S) = SumFunctionOnSet(f, S \ {x}) + f[x]
           /\ \A h : (\A x \in S : h[x] = f[x]) => SumFunctionOnSet(h, S) = SumFunctionOnSet(f, S)
<1>1. PICK g : Sums(g, f, S) BY SumsExist
<1>2. SumFunctionOnSet(f, S) = g[S] BY <1>1, SumIs
<1>3. ASSUME NEW x \in S
      PROVE  SumFunctionOnSet(f, S) = SumFunctionOnSet(f, S \ {x}) + f[x]
  <2>1. IsFiniteSet(S \ {x}) /\ \A y \in S \ {x} : f[y] \in Int BY FS_RemoveElement
  <2>4. Sums([T \in SUBSET (S \ {x}) |-> g[T]], f, S \ {x}) BY <1>1 DEF Sums
  <2>5. SumFunctionOnSet(f, S \ {x}) = g[S \ {x}] BY <2>1, <2>4, SumIs
  <2> QED BY <1>1, <1>2, <2>5 DEF Sums
<1>4. ASSUME NEW h, \A x \in S : h[x] = f[x]
      PROVE  SumFunctionOnSet(h, S) = SumFunctionOnSet(f, S)
  <2>1. Sums(g, h, S) BY <1>1, <1>4 DEF Sums
  <2>2. \A x \in S : h[x] \in Int BY <1>4
  <2> QED BY <1>2, <2>1, <2>2, SumIs
<1>5. g[S] \in Int /\ g[{}] = 0 BY <1>1 DEF Sums
<1> QED BY <1>2, <1>3, <1>4, <1>5

-----------------------------------------------------------------------------
(* Rows *)

LEMMA Limits ==
    /\ Capital \in Nat /\ Fee \in Nat /\ Slip \in Nat
    /\ StopDist \in Nat /\ TargetDist \in Nat
    /\ LastBar \in Nat /\ LastBar >= 1
    /\ Units \subseteq Nat
BY LimitAssumption

LEMMA SessionType ==
    ASSUME NEW t \in Nat
    PROVE  Session(t) \in Int
BY LimitAssumption DEF Session

LEMMA PosType ==
    ASSUME NEW d \in Books
    PROVE  /\ d.pos \in Seq(Position) /\ Len(d.pos) \in Nat
           /\ DOMAIN d.pos = 1 .. Len(d.pos)
           /\ \A p \in DOMAIN d.pos : d.pos[p] \in Position /\ p \in Nat
<1>1. d.pos \in Seq(Position) BY DEF Books
<1>2. Len(d.pos) \in Nat /\ DOMAIN d.pos = 1 .. Len(d.pos) BY <1>1, LenProperties
<1>3. \A p \in DOMAIN d.pos : d.pos[p] \in Position BY <1>1, <1>2, ElementOfSeq
<1> QED BY <1>1, <1>2, <1>3

LEMMA OutflowType == ASSUME NEW q \in Position PROVE Outflow(q) \in Nat
<1>1. q.qty \in Nat /\ q.entry \in Nat BY DEF Position
<1>2. q.entry * q.qty \in Nat BY <1>1
<1> QED BY <1>2, Limits DEF Outflow

LEMMA OpenFinite ==
    ASSUME NEW d \in Books
    PROVE  IsFiniteSet(OpenPos(d)) /\ \A p \in OpenPos(d) : d.pos[p] \in Position
<1>1. /\ Len(d.pos) \in Nat /\ DOMAIN d.pos = 1 .. Len(d.pos)
      /\ \A p \in DOMAIN d.pos : d.pos[p] \in Position
  BY PosType
<1>2. IsFiniteSet(1 .. Len(d.pos)) BY <1>1, FS_Interval
<1>3. OpenPos(d) \subseteq DOMAIN d.pos BY DEF OpenPos
<1> QED BY <1>1, <1>2, <1>3, FS_Subset

\* The money in open positions is the same when they cost the same, and grows by what
\* one more has cost.
LEMMA SpentSame ==
    ASSUME NEW d \in Books, NEW e, OpenPos(e) = OpenPos(d),
           \A p \in OpenPos(d) : Outflow(e.pos[p]) = Outflow(d.pos[p])
    PROVE  Spent(e) = Spent(d)
<1> DEFINE f == [p \in OpenPos(d) |-> Outflow(d.pos[p])]
           h == [p \in OpenPos(d) |-> Outflow(e.pos[p])]
<1>1. Spent(d) = SumFunctionOnSet(f, OpenPos(d)) /\ Spent(e) = SumFunctionOnSet(h, OpenPos(d))
  BY DEF Spent
<1>2. \A p \in OpenPos(d) : f[p] \in Int /\ h[p] = f[p] BY OpenFinite, OutflowType
<1> HIDE DEF f, h
<1> QED BY <1>1, <1>2, OpenFinite, SumFacts

LEMMA SpentMore ==
    ASSUME NEW d \in Books, NEW e \in Books, NEW p, p \notin OpenPos(d),
           OpenPos(e) = OpenPos(d) \union {p},
           \A r \in OpenPos(d) : Outflow(e.pos[r]) = Outflow(d.pos[r])
    PROVE  /\ Spent(e) = Spent(d) + Outflow(e.pos[p])
           /\ Spent(d) \in Int /\ Outflow(e.pos[p]) \in Nat
<1> DEFINE f == [r \in OpenPos(d) |-> Outflow(d.pos[r])]
           h == [r \in OpenPos(e) |-> Outflow(e.pos[r])]
<1>1. Spent(d) = SumFunctionOnSet(f, OpenPos(d)) /\ Spent(e) = SumFunctionOnSet(h, OpenPos(e))
  BY DEF Spent
<1>2. /\ \A r \in OpenPos(d) : f[r] \in Int /\ h[r] = f[r]
      /\ \A r \in OpenPos(e) : h[r] \in Int
      /\ h[p] = Outflow(e.pos[p]) /\ Outflow(e.pos[p]) \in Nat
  BY OpenFinite, OutflowType
<1>3. OpenPos(e) \ {p} = OpenPos(d) /\ p \in OpenPos(e) OBVIOUS
<1> HIDE DEF f, h
<1>4. SumFunctionOnSet(h, OpenPos(e)) = SumFunctionOnSet(h, OpenPos(d)) + h[p]
  BY <1>2, <1>3, OpenFinite, SumFacts
<1>5. SumFunctionOnSet(h, OpenPos(d)) = SumFunctionOnSet(f, OpenPos(d))
      /\ SumFunctionOnSet(f, OpenPos(d)) \in Int
  BY <1>2, OpenFinite, SumFacts
<1> QED BY <1>1, <1>2, <1>4, <1>5

LEMMA EarnedMore ==
    ASSUME NEW d \in Books, IsFiniteSet(d.trades), NEW e, NEW r \in Trade, r \notin d.trades,
           e.trades = d.trades \union {r}
    PROVE  Earned(e) = Earned(d) + r.gain /\ IsFiniteSet(e.trades)
<1> DEFINE f == [x \in d.trades |-> x.gain]
           h == [x \in e.trades |-> x.gain]
<1>1. Earned(d) = SumFunctionOnSet(f, d.trades) /\ Earned(e) = SumFunctionOnSet(h, e.trades)
  BY DEF Earned
<1>2. d.trades \subseteq Trade BY DEF Books
<1>3. /\ \A x \in d.trades : f[x] \in Int /\ h[x] = f[x]
      /\ \A x \in e.trades : h[x] \in Int
      /\ h[r] = r.gain
  BY <1>2 DEF Trade
<1>4. IsFiniteSet(e.trades) BY FS_AddElement
<1>5. e.trades \ {r} = d.trades /\ r \in e.trades OBVIOUS
<1> HIDE DEF f, h
<1>6. SumFunctionOnSet(h, e.trades) = SumFunctionOnSet(h, d.trades) + h[r]
  <2>1. SumFunctionOnSet(h, e.trades) = SumFunctionOnSet(h, e.trades \ {r}) + h[r]
    BY <1>3, <1>4, <1>5, SumFacts
  <2> QED BY <1>5, <2>1
<1>7. SumFunctionOnSet(h, d.trades) = SumFunctionOnSet(f, d.trades) BY <1>3, SumFacts
<1> QED BY <1>1, <1>3, <1>4, <1>6, <1>7

\* Rows that differ in neither what is open, nor cash, nor the trade log, stay balanced.
LEMMA BalancedSame ==
    ASSUME NEW d \in Books, Balanced(d), NEW e, OpenPos(e) = OpenPos(d),
           \A p \in OpenPos(d) : Outflow(e.pos[p]) = Outflow(d.pos[p]),
           e.cash = d.cash, e.realized = d.realized, e.trades = d.trades
    PROVE  Balanced(e)
BY SpentSame DEF Balanced, Earned

LEMMA EquityType ==
    ASSUME NEW d \in Books
    PROVE  Exposure(d) \in Int /\ Equity(d) \in Int
<1> DEFINE f == [p \in OpenPos(d) |-> d.pos[p].qty * d.pos[p].mark]
<1>1. \A p \in OpenPos(d) : f[p] \in Int
  <2>1. \A p \in OpenPos(d) : d.pos[p].qty \in Int /\ d.pos[p].mark \in Int
    BY OpenFinite DEF Position
  <2> QED BY <2>1
<1>2. Exposure(d) = SumFunctionOnSet(f, OpenPos(d)) BY DEF Exposure
<1> HIDE DEF f
<1>3. Exposure(d) \in Int BY <1>1, <1>2, OpenFinite, SumFacts
<1>4. d.cash \in Int BY DEF Books
<1> QED BY <1>3, <1>4 DEF Equity

LEMMA DeepType == ASSUME NEW d PROVE Deep(d) \in BOOLEAN
BY DEF Deep

LEMMA HaltedSound ==
    ASSUME NEW d, Sound(d), NEW t \in Nat
    PROVE  /\ Sound(Halted(d, t))
           /\ Halted(d, t).pos = d.pos /\ Halted(d, t).cash = d.cash
           /\ Halted(d, t).orders = d.orders
           /\ d.halt = "drawdown" => Halted(d, t).halt = "drawdown"
<1> DEFINE h == Halted(d, t)
<1>1. d \in Books BY DEF Sound
<1>2. Equity(d) \in Int BY <1>1, EquityType
<1>3. Session(t) \in Int BY SessionType
<1>4. h \in Books
  BY <1>1, <1>2, <1>3, DeepType DEF Halted, Books
<1>5. /\ h.pos = d.pos /\ h.cash = d.cash /\ h.orders = d.orders /\ h.trades = d.trades
      /\ h.realized = d.realized
  BY <1>1 DEF Halted, Books
<1>6. d.halt = "drawdown" => h.halt = "drawdown"
  BY <1>1 DEF Halted, Books
<1>7. Singles(h) /\ Keyed(h) /\ Logged(h)
  BY <1>5 DEF Sound, Singles, Keyed, Logged, HasKey, OpenPos
<1>8. Balanced(h)
  <2>1. OpenPos(h) = OpenPos(d) BY <1>5 DEF OpenPos
  <2> HIDE DEF h
  <2> QED BY <1>1, <1>5, <2>1, BalancedSame DEF Sound
<1> QED
  BY <1>4, <1>5, <1>6, <1>7, <1>8 DEF Sound

\* Replacing one position keeps the others, and the sequence a sequence.
LEMMA Replaced ==
    ASSUME NEW d \in Books, NEW p \in DOMAIN d.pos, NEW q \in Position
    PROVE  LET s == [d.pos EXCEPT ![p] = q]
           IN  /\ s \in Seq(Position) /\ DOMAIN s = DOMAIN d.pos /\ Len(s) = Len(d.pos)
               /\ s[p] = q /\ \A r \in DOMAIN d.pos : r # p => s[r] = d.pos[r]
<1>1. d.pos \in Seq(Position) /\ DOMAIN d.pos = 1 .. Len(d.pos) BY PosType
<1> QED BY <1>1, ExceptSeq

LEMMA MarkedSound ==
    ASSUME NEW d, Sound(d), NEW p \in DOMAIN d.pos, d.pos[p].status = "OPEN", NEW price \in Int
    PROVE  /\ Sound(Marked(d, p, price))
           /\ Marked(d, p, price).cash = d.cash /\ Marked(d, p, price).orders = d.orders
           /\ Marked(d, p, price).halt = d.halt
           /\ Len(Marked(d, p, price).pos) = Len(d.pos)
           /\ DOMAIN Marked(d, p, price).pos = DOMAIN d.pos
           /\ \A q \in DOMAIN d.pos :
                LET n == Marked(d, p, price).pos[q]
                IN  /\ n.dec = d.pos[q].dec /\ n.inst = d.pos[q].inst
                    /\ n.status = d.pos[q].status /\ n.got = d.pos[q].got
                    /\ n.entry = d.pos[q].entry /\ n.qty = d.pos[q].qty
<1> DEFINE m == Marked(d, p, price)
           new == [d.pos[p] EXCEPT !.mark = price]
<1>1. d \in Books BY DEF Sound
<1>2. d.pos[p] \in Position BY <1>1, PosType
<1>3. /\ m.pos = [d.pos EXCEPT ![p] = new]
      /\ m.cash = d.cash /\ m.orders = d.orders /\ m.trades = d.trades /\ m.halt = d.halt
      /\ m.realized = d.realized
  BY <1>1 DEF Marked, Books
<1>4. new \in Position
  BY <1>2 DEF Position
<1>5. /\ m.pos \in Seq(Position) /\ DOMAIN m.pos = DOMAIN d.pos /\ Len(m.pos) = Len(d.pos)
      /\ m.pos[p] = new /\ \A r \in DOMAIN d.pos : r # p => m.pos[r] = d.pos[r]
  BY <1>1, <1>3, <1>4, Replaced
<1>6. m \in Books
  BY <1>1, <1>3, <1>5 DEF Marked, Books
<1>7. /\ new.dec = d.pos[p].dec /\ new.inst = d.pos[p].inst
      /\ new.status = d.pos[p].status /\ new.got = d.pos[p].got
      /\ new.entry = d.pos[p].entry /\ new.qty = d.pos[p].qty
  BY <1>2 DEF Position
<1> HIDE DEF m, new
<1>8. \A q \in DOMAIN d.pos :
            /\ m.pos[q].dec = d.pos[q].dec /\ m.pos[q].inst = d.pos[q].inst
            /\ m.pos[q].status = d.pos[q].status /\ m.pos[q].got = d.pos[q].got
            /\ m.pos[q].entry = d.pos[q].entry /\ m.pos[q].qty = d.pos[q].qty
  BY <1>5, <1>7
<1>9. OpenPos(m) = OpenPos(d) BY <1>5, <1>8 DEF OpenPos
<1>10. Singles(m) BY <1>3, <1>5, <1>8, <1>9 DEF Sound, Singles, OpenPos
<1>11. Keyed(m) BY <1>3, <1>5, <1>8 DEF Sound, Keyed, HasKey
<1>12. Logged(m) BY <1>3, <1>5, <1>8 DEF Sound, Logged, Outflow
<1>13. Balanced(m)
  <2>1. \A q \in OpenPos(d) : Outflow(m.pos[q]) = Outflow(d.pos[q])
    BY <1>8 DEF OpenPos, Outflow
  <2> QED BY <1>1, <1>3, <1>9, <2>1, BalancedSame DEF Sound
<1> QED
  BY <1>3, <1>5, <1>6, <1>8, <1>10, <1>11, <1>12, <1>13 DEF Sound, m

LEMMA SoldType ==
    ASSUME NEW q \in Position, NEW level \in Int
    PROVE  /\ SoldAt(q, level) \in Position
           /\ Inflow(q, level) \in Int /\ Outflow(q) \in Nat
           /\ SoldAt(q, level).dec = q.dec /\ SoldAt(q, level).inst = q.inst
           /\ SoldAt(q, level).status = "CLOSED"
           /\ SoldAt(q, level).got = Inflow(q, level)
           /\ Outflow(SoldAt(q, level)) = Outflow(q)
<1>1. q.qty \in Nat /\ q.entry \in Nat BY DEF Position
<1>2. q.entry * q.qty \in Nat BY <1>1
<1>3. Inflow(q, level) \in Int /\ Outflow(q) \in Nat
  <2>1. Outflow(q) \in Nat BY <1>2, Limits DEF Outflow
  <2>2. level - Slip \in Int BY Limits
  <2>3. (level - Slip) * q.qty \in Int BY <2>2, <1>1
  <2> QED BY <2>1, <2>3, Limits DEF Inflow
<1>4. SoldAt(q, level) \in Position
  <2>1. level - Slip \in Int /\ Inflow(q, level) - Outflow(q) \in Int BY <1>3, Limits
  <2> QED BY <1>3, <2>1 DEF SoldAt, Position
<1>5. /\ SoldAt(q, level).dec = q.dec /\ SoldAt(q, level).inst = q.inst
      /\ SoldAt(q, level).status = "CLOSED" /\ SoldAt(q, level).got = Inflow(q, level)
      /\ SoldAt(q, level).entry = q.entry /\ SoldAt(q, level).qty = q.qty
  BY DEF SoldAt, Position
<1>6. Outflow(SoldAt(q, level)) = Outflow(q) BY <1>5 DEF Outflow
<1> QED BY <1>3, <1>4, <1>5, <1>6

LEMMA ClosedSound ==
    ASSUME NEW d, Sound(d), NEW p \in DOMAIN d.pos, d.pos[p].status = "OPEN",
           NEW level \in Int, NEW t \in 0 .. LastBar, ~HasKey(d, ExitKey(p, t))
    PROVE  /\ Sound(Closed(d, p, level, t))
           /\ Closed(d, p, level, t).pos = [d.pos EXCEPT ![p] = SoldAt(d.pos[p], level)]
<1> DEFINE c == Closed(d, p, level, t)
           sold == SoldAt(d.pos[p], level)
           gain == Inflow(d.pos[p], level) - Outflow(d.pos[p])
           order == [key |-> ExitKey(p, t), status |-> "FILLED"]
           trade == [pos |-> p, gain |-> gain]
<1>1. d \in Books BY DEF Sound
<1>2. d.pos[p] \in Position /\ p \in Nat BY <1>1, PosType
<1>3. /\ sold \in Position /\ Inflow(d.pos[p], level) \in Int
      /\ Outflow(d.pos[p]) \in Nat /\ gain \in Int
      /\ sold.dec = d.pos[p].dec /\ sold.inst = d.pos[p].inst /\ sold.status = "CLOSED"
      /\ sold.got = Inflow(d.pos[p], level) /\ Outflow(sold) = Outflow(d.pos[p])
  <2>1. Inflow(d.pos[p], level) \in Int /\ Outflow(d.pos[p]) \in Nat BY <1>2, SoldType
  <2>2. gain \in Int BY <2>1
  <2> QED BY <1>2, <2>1, <2>2, SoldType
<1>4. \A r \in d.trades : r.pos # p BY DEF Sound, Logged
<1>5. c = [d EXCEPT !.cash = @ + Inflow(d.pos[p], level), !.realized = @ + gain,
                    !.pos[p] = SoldAt(@, level),
                    !.orders = @ \union {order}, !.trades = @ \union {trade}]
  <2>1. c = [d EXCEPT !.cash = @ + Inflow(d.pos[p], level), !.realized = @ + gain,
                    !.pos[p] = SoldAt(@, level),
                    !.orders = @ \union {order},
                    !.trades = IF \E r \in @ : r.pos = p THEN @ ELSE @ \union {trade}]
    BY DEF Closed
  <2> QED BY <2>1, <1>4
<1> HIDE DEF c, gain, order, sold
<1>6. /\ c.pos = [d.pos EXCEPT ![p] = sold]
      /\ c.cash = d.cash + Inflow(d.pos[p], level) /\ c.realized = d.realized + gain
      /\ c.orders = d.orders \union {order} /\ c.halt = d.halt
      /\ c.trades = d.trades \union {trade}
  BY <1>5, <1>1 DEF Books, sold
<1>7. /\ c.pos \in Seq(Position) /\ DOMAIN c.pos = DOMAIN d.pos /\ Len(c.pos) = Len(d.pos)
      /\ c.pos[p] = sold /\ \A r \in DOMAIN d.pos : r # p => c.pos[r] = d.pos[r]
  BY <1>1, <1>3, <1>6, Replaced
<1>8. order \in Order BY <1>2 DEF Order, order
<1>9. trade \in Trade BY <1>2, <1>3 DEF Trade
<1>10. c \in Books
  <2>1. /\ d.cash + Inflow(d.pos[p], level) \in Int /\ d.realized + gain \in Int
        /\ d.orders \union {order} \subseteq Order /\ d.trades \union {trade} \subseteq Trade
    BY <1>1, <1>3, <1>8, <1>9 DEF Books
  <2>2. [d.pos EXCEPT ![p] = SoldAt(@, level)] \in Seq(Position)
    BY <1>6, <1>7 DEF sold
  <2> QED BY <2>1, <2>2, <1>5, <1>1 DEF Books
<1>11. OpenPos(c) = OpenPos(d) \ {p} BY <1>3, <1>7 DEF OpenPos
<1>12. Singles(c)
  <2>1. \A q, r \in DOMAIN c.pos : c.pos[q].dec = c.pos[r].dec => q = r
    <3>1. \A q \in DOMAIN d.pos : c.pos[q].dec = d.pos[q].dec BY <1>3, <1>7
    <3> QED BY <1>7, <3>1 DEF Sound, Singles
  <2>2. \A q, r \in OpenPos(c) : c.pos[q].inst = c.pos[r].inst => q = r
    BY <1>7, <1>11 DEF Sound, Singles, OpenPos
  <2>3. \A o, n \in c.orders : o.key = n.key => o = n
    BY <1>6 DEF Sound, Singles, HasKey, order
  <2> QED BY <2>1, <2>2, <2>3 DEF Singles
<1>13. Keyed(c) BY <1>3, <1>6, <1>7 DEF Sound, Keyed, HasKey
<1>14. Logged(c)
  <2>1. trade.pos = p /\ trade.gain = c.pos[p].got - Outflow(c.pos[p])
    BY <1>3, <1>7 DEF gain
  <2>2. \A r \in c.trades : (r \in d.trades /\ r.pos # p) \/ r = trade
    BY <1>4, <1>6
  <2> HIDE DEF trade
  <2>3. \A r \in c.trades : /\ r.pos \in DOMAIN c.pos
                            /\ c.pos[r.pos].status = "CLOSED"
                            /\ r.gain = c.pos[r.pos].got - Outflow(c.pos[r.pos])
    <3> TAKE r \in c.trades
    <3>1. CASE r = trade BY <3>1, <2>1, <1>3, <1>7
    <3>2. CASE r \in d.trades /\ r.pos # p BY <3>2, <1>7 DEF Sound, Logged
    <3> QED BY <2>2, <3>1, <3>2
  <2>4. \A q \in DOMAIN c.pos : c.pos[q].status = "CLOSED" => \E r \in c.trades : r.pos = q
    <3> TAKE q \in DOMAIN c.pos
    <3>1. CASE q = p BY <3>1, <2>1, <1>6
    <3>2. CASE q # p BY <3>2, <1>6, <1>7 DEF Sound, Logged
    <3> QED BY <3>1, <3>2
  <2>5. \A r, s \in c.trades : r.pos = s.pos => r = s
    BY <2>1, <2>2 DEF Sound, Logged
  <2> QED BY <2>3, <2>4, <2>5 DEF Logged
<1>15. Balanced(c)
  <2>1. p \in OpenPos(d) /\ p \notin OpenPos(c) /\ OpenPos(d) = OpenPos(c) \union {p}
    BY <1>11 DEF OpenPos
  <2>2. \A r \in OpenPos(c) : Outflow(d.pos[r]) = Outflow(c.pos[r])
    BY <1>7, <1>11 DEF OpenPos
  <2>3. /\ Spent(d) = Spent(c) + Outflow(d.pos[p]) /\ Spent(c) \in Int
        /\ Outflow(d.pos[p]) \in Nat
    BY <1>1, <1>10, <2>1, <2>2, SpentMore
  <2>4. Earned(c) = Earned(d) + gain /\ IsFiniteSet(c.trades)
    <3>1. trade.gain = gain /\ trade \notin d.trades BY <1>4
    <3> HIDE DEF trade
    <3> QED BY <1>1, <1>6, <1>9, <3>1, EarnedMore DEF Sound, Balanced
  <2>5. gain = Inflow(d.pos[p], level) - Outflow(d.pos[p]) BY DEF gain
  <2>6. d.cash \in Int /\ d.realized \in Int BY <1>1 DEF Books
  <2> QED BY <1>3, <1>6, <2>3, <2>4, <2>5, <2>6, Limits DEF Sound, Balanced
<1> QED
  BY <1>6, <1>7, <1>10, <1>12, <1>13, <1>14, <1>15 DEF Sound, c, sold

-----------------------------------------------------------------------------
(* Lots: how the two ends of a transaction differ *)

Still(d, e) == e.cash = d.cash /\ Lots(e) = Lots(d)

Sells(d, e) == \E x \in Decision, v \in Int :
    /\ Lots(d)[x].state = "open"
    /\ e.cash = d.cash + v /\ Lots(e) = Account!Sold(Lots(d), x, v)

Buys(d, e) == \E x \in Decision, c \in Nat :
    /\ Lots(d)[x].state = "none"
    /\ e.cash = d.cash - c /\ Lots(e) = Account!Bought(Lots(d), x, c)

LotRec(q) == [state |-> IF q.status = "OPEN" THEN "open" ELSE "closed",
              cost |-> Outflow(q), got |-> q.got]

\* A decision's lot is its position, of which there is one.
LEMMA LotAt ==
    ASSUME NEW d, Sound(d), NEW p \in DOMAIN d.pos
    PROVE  LotOf(d, d.pos[p].dec) = LotRec(d.pos[p])
<1> DEFINE x == d.pos[p].dec
           r == CHOOSE r \in DOMAIN d.pos : d.pos[r].dec = x
<1>1. \E s \in DOMAIN d.pos : d.pos[s].dec = x OBVIOUS
<1>2. r \in DOMAIN d.pos /\ d.pos[r].dec = x BY <1>1
<1>3. r = p BY <1>2 DEF Sound, Singles
<1> QED BY <1>1, <1>3 DEF LotOf, LotRec

LEMMA LotNone ==
    ASSUME NEW d, NEW x, \A p \in DOMAIN d.pos : d.pos[p].dec # x
    PROVE  LotOf(d, x) = [state |-> "none", cost |-> 0, got |-> 0]
BY DEF LotOf

\* Lots that agree position by position agree.
LEMMA LotSame ==
    ASSUME NEW d, Sound(d), NEW e, Sound(e), NEW x,
           DOMAIN e.pos = DOMAIN d.pos,
           \A p \in DOMAIN d.pos : e.pos[p].dec = d.pos[p].dec,
           \A p \in DOMAIN d.pos : d.pos[p].dec = x => LotRec(e.pos[p]) = LotRec(d.pos[p])
    PROVE  LotOf(e, x) = LotOf(d, x)
<1>1. CASE \E p \in DOMAIN d.pos : d.pos[p].dec = x
  <2>1. PICK p \in DOMAIN d.pos : d.pos[p].dec = x BY <1>1
  <2>2. LotOf(d, x) = LotRec(d.pos[p]) BY <2>1, LotAt
  <2>3. LotOf(e, x) = LotRec(e.pos[p])
    <3>1. p \in DOMAIN e.pos /\ e.pos[p].dec = x BY <2>1
    <3> QED BY <3>1, LotAt
  <2> QED BY <2>1, <2>2, <2>3
<1>2. CASE ~ \E p \in DOMAIN d.pos : d.pos[p].dec = x
  BY <1>2, LotNone
<1> QED BY <1>1, <1>2

LEMMA SamePositionsStill ==
    ASSUME NEW d, NEW e, e.pos = d.pos, e.cash = d.cash
    PROVE  Still(d, e)
BY DEF Still, Lots, LotOf

LEMMA MarkedStill ==
    ASSUME NEW d, Sound(d), NEW p \in DOMAIN d.pos, d.pos[p].status = "OPEN", NEW price \in Int
    PROVE  Still(d, Marked(d, p, price))
<1> DEFINE m == Marked(d, p, price)
<1>1. /\ Sound(m) /\ m.cash = d.cash /\ DOMAIN m.pos = DOMAIN d.pos
      /\ \A q \in DOMAIN d.pos :
            /\ m.pos[q].dec = d.pos[q].dec /\ m.pos[q].status = d.pos[q].status
            /\ m.pos[q].got = d.pos[q].got
            /\ m.pos[q].entry = d.pos[q].entry /\ m.pos[q].qty = d.pos[q].qty
  BY MarkedSound
<1> HIDE DEF m
<1>2. \A q \in DOMAIN d.pos : LotRec(m.pos[q]) = LotRec(d.pos[q])
  BY <1>1 DEF LotRec, Outflow
<1>3. \A x \in Decision : LotOf(m, x) = LotOf(d, x)
  <2> TAKE x \in Decision
  <2> QED BY <1>1, <1>2, LotSame
<1> QED BY <1>1, <1>3 DEF Still, Lots, m

LEMMA ClosedSells ==
    ASSUME NEW d, Sound(d), NEW p \in DOMAIN d.pos, d.pos[p].status = "OPEN",
           NEW level \in Int, NEW t \in 0 .. LastBar, ~HasKey(d, ExitKey(p, t))
    PROVE  Sells(d, Closed(d, p, level, t))
<1> DEFINE c == Closed(d, p, level, t)
           x == d.pos[p].dec
           v == Inflow(d.pos[p], level)
<1>1. d \in Books BY DEF Sound
<1>2. d.pos[p] \in Position BY <1>1, PosType
<1>3. /\ Sound(c) /\ c.cash = d.cash + v
      /\ c.pos = [d.pos EXCEPT ![p] = SoldAt(d.pos[p], level)]
  <2>1. Sound(c) BY ClosedSound
  <2>2. c.cash = d.cash + v BY <1>1 DEF Closed, Books
  <2>3. c.pos = [d.pos EXCEPT ![p] = SoldAt(d.pos[p], level)] BY ClosedSound
  <2> QED BY <2>1, <2>2, <2>3
<1>4. /\ SoldAt(d.pos[p], level) \in Position
      /\ v \in Int /\ SoldAt(d.pos[p], level).dec = x
      /\ SoldAt(d.pos[p], level).status = "CLOSED" /\ SoldAt(d.pos[p], level).got = v
      /\ Outflow(SoldAt(d.pos[p], level)) = Outflow(d.pos[p])
  BY <1>2, SoldType
<1>5. /\ DOMAIN c.pos = DOMAIN d.pos /\ c.pos[p] = SoldAt(d.pos[p], level)
      /\ \A r \in DOMAIN d.pos : r # p => c.pos[r] = d.pos[r]
  BY <1>1, <1>3, <1>4, Replaced
<1>6. x \in Decision BY <1>2 DEF Position
<1> HIDE DEF c, v
<1>7. LotOf(d, x) = LotRec(d.pos[p]) BY LotAt
<1>8. LotOf(c, x) = LotRec(c.pos[p])
  <2>1. p \in DOMAIN c.pos /\ c.pos[p].dec = x BY <1>4, <1>5
  <2> QED BY <1>3, <2>1, LotAt
<1>9. \A y \in Decision : y # x => LotOf(c, y) = LotOf(d, y)
  <2> TAKE y \in Decision
  <2> HAVE y # x
  <2>1. \A r \in DOMAIN d.pos : c.pos[r].dec = d.pos[r].dec BY <1>4, <1>5
  <2>2. \A r \in DOMAIN d.pos : d.pos[r].dec = y => LotRec(c.pos[r]) = LotRec(d.pos[r])
    BY <1>5
  <2> QED BY <1>3, <1>5, <2>1, <2>2, LotSame
<1>10. Lots(d)[x].state = "open" /\ Lots(d)[x].cost = Outflow(d.pos[p])
  BY <1>6, <1>7 DEF Lots, LotRec
<1>11. Lots(c)[x] = [state |-> "closed", cost |-> Outflow(d.pos[p]), got |-> v]
  BY <1>4, <1>5, <1>6, <1>8 DEF Lots, LotRec
<1>12. Lots(c) = Account!Sold(Lots(d), x, v)
  <2>1. \A y \in Decision : y # x => Lots(c)[y] = Lots(d)[y] BY <1>9 DEF Lots
  <2>2. Lots(c) = [y \in Decision |-> Lots(c)[y]] /\ DOMAIN Lots(d) = Decision
    BY DEF Lots
  <2>3. Lots(d) = [y \in Decision |-> Lots(d)[y]] BY DEF Lots
  <2> HIDE DEF x
  <2> QED BY <1>6, <1>10, <1>11, <2>1, <2>2, <2>3 DEF Account!Sold
<1> QED BY <1>3, <1>4, <1>6, <1>10, <1>12 DEF Sells, c, v

-----------------------------------------------------------------------------
(* One bar *)

LEMMA FeedType ==
    ASSUME Feed, NEW i \in Instr
    PROVE  /\ bar[i].at \in 1 .. LastBar /\ bar[i].at \in Nat /\ bar[i].at <= now
           /\ bar[i].candle \in Candle
           /\ bar[i].candle.close \in Nat /\ bar[i].candle.close > 0
           /\ now \in 0 .. LastBar
<1>1. bar[i] \in [at : 1 .. LastBar, candle : Candle] BY DEF Feed
<1>2. bar[i].at \in 1 .. LastBar /\ bar[i].candle \in Candle BY <1>1
<1>3. bar[i].candle \in [low : Nat, close : Nat \ {0}, high : Nat]
  BY <1>2, PriceAssumption
<1>4. bar[i].candle.close \in Nat /\ bar[i].candle.close > 0 BY <1>3
<1> QED BY <1>2, <1>4, Limits DEF Feed

LEMMA ExitType ==
    ASSUME NEW q \in Position, NEW b, b.close \in Int
    PROVE  Exit(q, b).level \in Int
<1>1. q.stop \in Int /\ q.target \in Int BY DEF Position
<1> QED BY <1>1 DEF Exit

\* A bar's exits, before its halts.
Settled(d, i) ==
    LET b == SeenBar(i)
        p == CHOOSE p \in OpenIn(d, i) : TRUE
        x == Exit(d.pos[p], b)
    IN  IF OpenIn(d, i) = {} THEN d
        ELSE IF x.hit THEN Closed(d, p, x.level, b.at) ELSE Marked(d, p, b.close)

LEMMA ProcessBarIs == ASSUME NEW d, NEW i PROVE ProcessBar(d, i) = Halted(Settled(d, i), SeenBar(i).at)
BY DEF ProcessBar, Settled

LEMMA SettledSound ==
    ASSUME Feed, NEW d, Sound(d), NEW i \in Instr
    PROVE  /\ Sound(Settled(d, i)) /\ Settled(d, i).halt = d.halt
           /\ Len(Settled(d, i).pos) = Len(d.pos)
           /\ Still(d, Settled(d, i)) \/ Sells(d, Settled(d, i))
<1> DEFINE b == SeenBar(i)
           p == CHOOSE p \in OpenIn(d, i) : TRUE
           x == Exit(d.pos[p], b)
           s == IF OpenIn(d, i) = {} THEN d
                ELSE IF x.hit THEN Closed(d, p, x.level, b.at) ELSE Marked(d, p, b.close)
<1>1. Settled(d, i) = s BY DEF Settled
<1>2. b.at \in Nat /\ b.at \in 0 .. LastBar /\ b.close \in Int
  BY FeedType DEF SeenBar
<1> HIDE DEF b
<1>3. /\ Sound(s) /\ s.halt = d.halt /\ Len(s.pos) = Len(d.pos)
      /\ Still(d, s) \/ Sells(d, s)
  <2>1. CASE OpenIn(d, i) = {}
    BY <2>1, SamePositionsStill
  <2>2. CASE OpenIn(d, i) # {}
    <3>1. p \in DOMAIN d.pos /\ d.pos[p].status = "OPEN"
      BY <2>2 DEF OpenIn, OpenPos
    <3>2. d.pos[p] \in Position BY <3>1, PosType DEF Sound
    <3>3. x.level \in Int BY <3>2, <1>2, ExitType
    <3> HIDE DEF p, x
    <3>4. CASE ~x.hit
      <4>1. s = Marked(d, p, b.close) BY <3>4, <2>2
      <4> HIDE DEF s
      <4> QED BY <4>1, <3>1, <1>2, MarkedSound, MarkedStill
    <3>5. CASE x.hit /\ HasKey(d, ExitKey(p, b.at))
      <4>1. s = d BY <3>5, <2>2 DEF Closed
      <4> QED BY <4>1, SamePositionsStill
    <3>6. CASE x.hit /\ ~HasKey(d, ExitKey(p, b.at))
      <4>1. s = Closed(d, p, x.level, b.at) BY <3>6, <2>2
      <4> HIDE DEF s
      <4>2. Sells(d, s) BY <4>1, <3>1, <3>3, <3>6, <1>2, ClosedSells
      <4>3. Sound(s) BY <4>1, <3>1, <3>3, <3>6, <1>2, ClosedSound
      <4>4. /\ s.halt = d.halt
            /\ s.pos = [d.pos EXCEPT ![p] = SoldAt(d.pos[p], x.level)]
        BY <4>1, <3>6 DEF Closed, Sound, Books
      <4>5. Len(s.pos) = Len(d.pos)
        <5>1. SoldAt(d.pos[p], x.level) \in Position BY <3>2, <3>3, SoldType
        <5> QED BY <4>4, <5>1, <3>1, Replaced DEF Sound
      <4> QED BY <4>2, <4>3, <4>4, <4>5
    <3> QED BY <3>4, <3>5, <3>6
  <2> QED BY <2>1, <2>2
<1> HIDE DEF s
<1> QED BY <1>1, <1>3

LEMMA ProcessBarSound ==
    ASSUME Feed, NEW d, Sound(d), NEW i \in Instr
    PROVE  /\ Sound(ProcessBar(d, i))
           /\ Still(d, ProcessBar(d, i)) \/ Sells(d, ProcessBar(d, i))
           /\ Len(ProcessBar(d, i).pos) = Len(d.pos)
           /\ d.halt = "drawdown" => ProcessBar(d, i).halt = "drawdown"
<1> DEFINE s == Settled(d, i)
           t == SeenBar(i).at
<1>1. ProcessBar(d, i) = Halted(s, t) /\ t \in Nat BY ProcessBarIs, FeedType DEF SeenBar
<1>2. /\ Sound(s) /\ s.halt = d.halt /\ Len(s.pos) = Len(d.pos)
      /\ Still(d, s) \/ Sells(d, s)
  BY SettledSound
<1> HIDE DEF s, t
<1>3. /\ Sound(Halted(s, t)) /\ Halted(s, t).pos = s.pos /\ Halted(s, t).cash = s.cash
      /\ s.halt = "drawdown" => Halted(s, t).halt = "drawdown"
  BY <1>1, <1>2, HaltedSound
<1>4. Lots(Halted(s, t)) = Lots(s) BY <1>3 DEF Lots, LotOf
<1>5. Still(d, Halted(s, t)) \/ Sells(d, Halted(s, t))
  BY <1>2, <1>3, <1>4 DEF Still, Sells
<1> QED BY <1>1, <1>2, <1>3, <1>5

-----------------------------------------------------------------------------
(* The same bar twice *)

\* Halts applied again to the same valuation, in the same session, are the same halts.
LEMMA HaltedTwice ==
    ASSUME NEW d, Sound(d), NEW t \in Nat
    PROVE  Halted(Halted(d, t), t) = Halted(d, t)
<1> DEFINE h == Halted(d, t)
           k == Halted(h, t)
<1>1. /\ h \in Books /\ h.pos = d.pos /\ h.cash = d.cash /\ k \in Books
  BY HaltedSound DEF Sound
<1>2. Equity(h) = Equity(d) /\ Equity(d) \in Int
  <2>1. OpenPos(h) = OpenPos(d) BY <1>1 DEF OpenPos
  <2> HIDE DEF h
  <2> QED BY <1>1, <2>1, EquityType DEF Sound, Equity, Exposure
<1>3. /\ h.peak = (IF Equity(d) > d.peak THEN Equity(d) ELSE d.peak)
      /\ h.deep = (d.deep \/ Deep(d)) /\ h.session = Session(t)
      /\ h.base = (IF Session(t) # d.session THEN Equity(d) ELSE d.base)
  BY DEF Halted, Sound, Books
<1>4. h.halt = "none" => ~Deep(d) /\ ~(h.base > 0 /\ 100 * (h.base - Equity(d)) > MaxDailyLoss * h.base)
  BY <1>3 DEF Halted, Sound, Books
<1>5. Deep(h) = Deep(d)
  <2>1. d.peak \in Int BY DEF Sound, Books
  <2>2. (IF Equity(h) > h.peak THEN Equity(h) ELSE h.peak)
            = (IF Equity(d) > d.peak THEN Equity(d) ELSE d.peak)
    <3> HIDE DEF h
    <3> QED BY <1>2, <1>3, <2>1
  <2> HIDE DEF h
  <2> QED BY <1>2, <2>2 DEF Deep
<1> HIDE DEF h
<1>6. k = [h EXCEPT !.peak = IF Equity(h) > h.peak THEN Equity(h) ELSE h.peak,
                    !.deep = h.deep \/ Deep(h), !.session = h.session, !.base = h.base,
                    !.halt = IF h.halt # "none" THEN h.halt
                             ELSE IF Deep(h) THEN "drawdown"
                             ELSE IF h.base > 0 /\ 100 * (h.base - Equity(h)) > MaxDailyLoss * h.base
                                  THEN "daily" ELSE "none"]
  BY <1>1, <1>3 DEF Halted, Books
<1>7. (IF Equity(h) > h.peak THEN Equity(h) ELSE h.peak) = h.peak
  <2>1. d.peak \in Int BY DEF Sound, Books
  <2> QED BY <1>2, <1>3, <2>1
<1>8. (h.deep \/ Deep(h)) = h.deep BY <1>1, <1>3, <1>5, Zenon DEF Books
<1>9. (IF h.halt # "none" THEN h.halt
       ELSE IF Deep(h) THEN "drawdown"
       ELSE IF h.base > 0 /\ 100 * (h.base - Equity(h)) > MaxDailyLoss * h.base
            THEN "daily" ELSE "none") = h.halt
  BY <1>2, <1>4, <1>5
<1>10. k = [h EXCEPT !.peak = h.peak, !.deep = h.deep, !.session = h.session, !.base = h.base,
                     !.halt = h.halt]
  BY <1>6, <1>7, <1>8, <1>9
<1>11. k = h BY <1>1, <1>10 DEF Books
<1> QED BY <1>11 DEF h

\* A bar settled again on the positions it left: what it closed is no longer open, what
\* it marked is marked the same, and the exit does not depend on the mark.
LEMMA SettledAgain ==
    ASSUME Feed, NEW d, Sound(d), NEW i \in Instr, NEW e \in Books,
           e.pos = Settled(d, i).pos, e.orders = Settled(d, i).orders
    PROVE  Settled(e, i) = e
<1> DEFINE b == SeenBar(i)
           p == CHOOSE p \in OpenIn(d, i) : TRUE
           x == Exit(d.pos[p], b)
<1>1. b.at \in 0 .. LastBar /\ b.close \in Int BY FeedType DEF SeenBar
<1>2. Settled(d, i) = IF OpenIn(d, i) = {} THEN d
                      ELSE IF x.hit THEN Closed(d, p, x.level, b.at) ELSE Marked(d, p, b.close)
  BY DEF Settled
<1>3. ASSUME OpenIn(e, i) = OpenIn(d, i), OpenIn(d, i) # {}, Exit(e.pos[p], b) = x
      PROVE  Settled(e, i) = IF x.hit THEN Closed(e, p, x.level, b.at) ELSE Marked(e, p, b.close)
  BY <1>3 DEF Settled
<1>4. d \in Books /\ (OpenIn(d, i) # {} => p \in OpenIn(d, i)) BY DEF Sound
<1> HIDE DEF b
<1>5. CASE OpenIn(d, i) = {}
  <2>1. OpenIn(e, i) = {} BY <1>2, <1>5 DEF OpenIn, OpenPos
  <2> QED BY <2>1 DEF Settled
<1>6. CASE OpenIn(d, i) # {}
  <2>1. p \in DOMAIN d.pos /\ d.pos[p].status = "OPEN" /\ d.pos[p].inst = i
    BY <1>4, <1>6 DEF OpenIn, OpenPos
  <2>2. d.pos[p] \in Position BY <1>4, <2>1, PosType
  <2>3. x.level \in Int BY <1>1, <2>2, ExitType
  <2>4. CASE ~x.hit
    <3> DEFINE new == [d.pos[p] EXCEPT !.mark = b.close]
    <3>1. e.pos = [d.pos EXCEPT ![p] = new]
      BY <1>2, <1>4, <1>6, <2>4 DEF Marked, Books
    <3>2. new \in Position BY <1>1, <2>2 DEF Position
    <3>3. /\ DOMAIN e.pos = DOMAIN d.pos /\ e.pos[p] = new
          /\ \A r \in DOMAIN d.pos : r # p => e.pos[r] = d.pos[r]
      BY <1>4, <2>1, <3>1, <3>2, Replaced
    <3>4. /\ new.status = d.pos[p].status /\ new.inst = d.pos[p].inst /\ new.since = d.pos[p].since
          /\ new.stop = d.pos[p].stop /\ new.target = d.pos[p].target
          /\ [new EXCEPT !.mark = b.close] = new
      BY <2>2 DEF Position
    <3> HIDE DEF new
    <3>5. OpenIn(e, i) = OpenIn(d, i)
      <4> HIDE DEF p
      <4>1. \A r \in DOMAIN d.pos : /\ e.pos[r].status = d.pos[r].status
                                    /\ e.pos[r].inst = d.pos[r].inst
        BY <3>3, <3>4
      <4> QED BY <3>3, <4>1 DEF OpenIn, OpenPos
    <3>6. Exit(e.pos[p], b) = x BY <3>3, <3>4 DEF Exit
    <3>7. Settled(e, i) = Marked(e, p, b.close)
      <4> HIDE DEF p, x
      <4> QED BY <1>3, <1>6, <2>4, <3>5, <3>6
    <3>8. Marked(e, p, b.close) = [e EXCEPT !.pos[p] = new]
      BY <3>3, <3>4 DEF Marked
    <3>9. [e.pos EXCEPT ![p] = new] = e.pos
      <4>1. e.pos \in Seq(Position) BY PosType
      <4> HIDE DEF p
      <4> QED BY <3>3, <4>1
    <3>10. Marked(e, p, b.close) = e
      <4> HIDE DEF p
      <4>1. Marked(e, p, b.close) = [e EXCEPT !.pos = e.pos] BY <3>8, <3>9
      <4> QED BY <4>1 DEF Books
    <3> QED BY <3>7, <3>10
  <2>5. CASE x.hit /\ HasKey(d, ExitKey(p, b.at))
    <3>1. Settled(d, i) = d BY <1>2, <1>6, <2>5 DEF Closed
    <3>2. OpenIn(e, i) = OpenIn(d, i) /\ Exit(e.pos[p], b) = x
      BY <3>1 DEF OpenIn, OpenPos
    <3>3. HasKey(e, ExitKey(p, b.at)) BY <2>5, <3>1 DEF HasKey
    <3> HIDE DEF p, x
    <3>4. Settled(e, i) = Closed(e, p, x.level, b.at) BY <1>3, <1>6, <2>5, <3>2
    <3> QED BY <3>3, <3>4 DEF Closed
  <2>6. CASE x.hit /\ ~HasKey(d, ExitKey(p, b.at))
    <3>1. Settled(d, i) = Closed(d, p, x.level, b.at) BY <1>2, <1>6, <2>6
    <3> HIDE DEF p, x
    <3>2. e.pos = [d.pos EXCEPT ![p] = SoldAt(d.pos[p], x.level)]
      BY <1>1, <2>1, <2>3, <2>6, <3>1, ClosedSound
    <3>3. SoldAt(d.pos[p], x.level) \in Position /\ SoldAt(d.pos[p], x.level).status = "CLOSED"
      BY <2>2, <2>3, SoldType
    <3>4. /\ DOMAIN e.pos = DOMAIN d.pos /\ e.pos[p].status = "CLOSED"
          /\ \A r \in DOMAIN d.pos : r # p => e.pos[r] = d.pos[r]
      BY <1>4, <2>1, <3>2, <3>3, Replaced
    <3>5. \A r \in OpenPos(d) : d.pos[r].inst = i => r = p
      BY <2>1 DEF Sound, Singles, OpenPos
    <3>6. OpenIn(e, i) = {} BY <3>4, <3>5 DEF OpenIn, OpenPos
    <3> QED BY <3>6 DEF Settled
  <2> QED BY <2>4, <2>5, <2>6
<1> QED BY <1>5, <1>6

LEMMA ProcessBarTwice ==
    ASSUME Feed, NEW d, Sound(d), NEW i \in Instr
    PROVE  ProcessBar(ProcessBar(d, i), i) = ProcessBar(d, i)
<1> DEFINE s == Settled(d, i)
           t == SeenBar(i).at
           h == Halted(s, t)
<1>1. ProcessBar(d, i) = h /\ ProcessBar(h, i) = Halted(Settled(h, i), t)
  BY ProcessBarIs
<1>2. t \in Nat BY FeedType DEF SeenBar
<1>3. Sound(s) BY SettledSound
<1>4. h \in Books /\ h.pos = s.pos /\ h.orders = s.orders
  <2> HIDE DEF s, t
  <2> QED BY <1>2, <1>3, HaltedSound DEF Sound
<1>5. Settled(h, i) = h
  <2> HIDE DEF h
  <2> QED BY <1>4, SettledAgain
<1>6. Halted(h, t) = h
  <2> HIDE DEF s, t
  <2> QED BY <1>2, <1>3, HaltedTwice
<1> QED BY <1>1, <1>5, <1>6

-----------------------------------------------------------------------------
(* One entry *)

LEMMA RefusedSound ==
    ASSUME NEW d, Sound(d), NEW i \in Instr, NEW t \in 0 .. LastBar, ~HasKey(d, EntryKey(i, t))
    PROVE  /\ Sound(Refused(d, EntryKey(i, t)))
           /\ Still(d, Refused(d, EntryKey(i, t)))
           /\ Refused(d, EntryKey(i, t)).halt = d.halt
           /\ Len(Refused(d, EntryKey(i, t)).pos) = Len(d.pos)
<1> DEFINE k == EntryKey(i, t)
           e == Refused(d, k)
           order == [key |-> k, status |-> "REJECTED"]
<1>1. d \in Books BY DEF Sound
<1>2. order \in Order
  <2>1. <<i, t>> \in Decision BY DEF Decision
  <2>2. k = EntryKey(<<i, t>>[1], <<i, t>>[2]) OBVIOUS
  <2> QED BY <2>1, <2>2 DEF Order
<1>3. /\ e.orders = d.orders \union {order} /\ e.pos = d.pos /\ e.cash = d.cash
      /\ e.halt = d.halt /\ e.trades = d.trades /\ e.realized = d.realized
  BY <1>1 DEF Refused, Books
<1>4. e \in Books
  <2>1. d.orders \union {order} \in SUBSET Order BY <1>1, <1>2 DEF Books
  <2> HIDE DEF order
  <2>2. e = [d EXCEPT !.orders = d.orders \union {order}] BY <1>1 DEF Refused, order
  <2> HIDE DEF e
  <2> QED BY <1>1, <2>1, <2>2 DEF Books
<1>5. \A o \in d.orders : o.key # k BY DEF HasKey
<1>6. Singles(e)
  <2>1. order.key = k OBVIOUS
  <2> HIDE DEF e, order, k
  <2> QED BY <1>3, <1>5, <2>1 DEF Sound, Singles, OpenPos
<1> HIDE DEF e, order, k
<1>7. Keyed(e) BY <1>3 DEF Sound, Keyed, HasKey
<1>8. Logged(e) BY <1>3 DEF Sound, Logged
<1>9. Balanced(e)
  <2>1. OpenPos(e) = OpenPos(d) BY <1>3 DEF OpenPos
  <2> QED BY <1>1, <1>3, <2>1, BalancedSame DEF Sound
<1>10. Still(d, e) BY <1>3, SamePositionsStill
<1> QED BY <1>3, <1>4, <1>6, <1>7, <1>8, <1>9, <1>10 DEF Sound, e, k

LEMMA SizedType ==
    ASSUME Feed, NEW d, Sound(d), NEW i \in Instr, NEW u \in Units
    PROVE  Sized(d, u, bar[i].candle.close) \in Nat
<1> DEFINE price == bar[i].candle.close
           room == (MaxExposure * Equity(d)) \div 100 - Exposure(d)
           qty == Least(u, Least((d.cash - Fee) \div price, room \div price))
<1>1. price \in Nat /\ price > 0 BY FeedType
<1>2. Equity(d) \in Int /\ Exposure(d) \in Int /\ d.cash \in Int
  BY EquityType DEF Sound, Books
<1>3. u \in Int /\ Fee \in Nat /\ MaxExposure \in Nat BY Limits, LimitAssumption
<1>4. room \in Int BY <1>2, <1>3
<1>5. (d.cash - Fee) \div price \in Int /\ room \div price \in Int
  <2> HIDE DEF room, price
  <2> QED BY <1>1, <1>2, <1>3, <1>4
<1>6. qty \in Int BY <1>3, <1>5 DEF Least
<1>7. Sized(d, u, price) = 0 \/ (Sized(d, u, price) = qty /\ ~(qty <= 0))
  <2> HIDE DEF room, price
  <2> QED BY DEF Sized, room
<1> HIDE DEF qty
<1> QED BY <1>6, <1>7

LEMMA FilledSound ==
    ASSUME Feed, NEW d, Sound(d), NEW i \in Instr, NEW qty \in Nat,
           ~HasKey(d, EntryKey(i, bar[i].at)), OpenIn(d, i) = {}
    PROVE  /\ Sound(Filled(d, i, qty)) /\ Buys(d, Filled(d, i, qty))
           /\ Filled(d, i, qty).halt = d.halt
<1> DEFINE e == Filled(d, i, qty)
           t == bar[i].at
           fill == bar[i].candle.close + Slip
           n == Len(d.pos) + 1
           q == [dec |-> <<i, t>>, inst |-> i, status |-> "OPEN", qty |-> qty, entry |-> fill,
                 stop |-> bar[i].candle.close - StopDist,
                 target |-> bar[i].candle.close + TargetDist,
                 mark |-> fill, since |-> now, gain |-> 0, level |-> 0, got |-> 0]
           order == [key |-> EntryKey(i, t), status |-> "FILLED"]
<1>1. d \in Books BY DEF Sound
<1>2. t \in 0 .. LastBar /\ bar[i].candle.close \in Nat /\ now \in 0 .. LastBar
  BY FeedType
<1>3. fill \in Nat /\ bar[i].candle.close - StopDist \in Int
      /\ bar[i].candle.close + TargetDist \in Int
  BY <1>2, Limits
<1>4. <<i, t>> \in Decision BY <1>2 DEF Decision
<1>5. order \in Order
  <2>1. EntryKey(i, t) = EntryKey(<<i, t>>[1], <<i, t>>[2]) OBVIOUS
  <2> QED BY <1>4, <2>1 DEF Order
<1>6. q \in Position
  <2> HIDE DEF t, fill
  <2> QED BY <1>2, <1>3, <1>4 DEF Position
<1>7. /\ q.dec = <<i, t>> /\ q.inst = i /\ q.status = "OPEN" /\ q.got = 0
      /\ Outflow(q) = fill * qty + Fee
  BY DEF Outflow
<1>8. fill * qty + Fee \in Nat
  <2> HIDE DEF fill
  <2>1. fill * qty \in Nat BY <1>3
  <2> QED BY <2>1, Limits
<1> HIDE DEF q
<1>9. /\ e.cash = d.cash - (fill * qty + Fee) /\ e.pos = Append(d.pos, q)
      /\ e.orders = d.orders \union {order} /\ e.trades = d.trades /\ e.halt = d.halt
      /\ e.realized = d.realized
  BY <1>1 DEF Filled, Books, q
<1>10. e = [d EXCEPT !.cash = d.cash - (fill * qty + Fee), !.pos = Append(d.pos, q),
                     !.orders = d.orders \union {order}]
  BY <1>1 DEF Filled, Books, q
<1> HIDE DEF e, order, fill
<1>11. d.pos \in Seq(Position) /\ DOMAIN d.pos = 1 .. Len(d.pos) /\ Len(d.pos) \in Nat
  BY <1>1, PosType
<1>12. /\ e.pos \in Seq(Position) /\ Len(e.pos) = n /\ e.pos[n] = q
       /\ \A p \in DOMAIN d.pos : e.pos[p] = d.pos[p]
  BY <1>6, <1>9, <1>11, AppendProperties
<1>13. DOMAIN e.pos = DOMAIN d.pos \union {n} /\ n \notin DOMAIN d.pos
  <2>1. DOMAIN e.pos = 1 .. n BY <1>12, LenProperties
  <2> QED BY <2>1, <1>11
<1>14. e \in Books
  <2>1. /\ d.cash - (fill * qty + Fee) \in Int
        /\ d.orders \union {order} \in SUBSET Order
        /\ Append(d.pos, q) \in Seq(Position)
    BY <1>1, <1>5, <1>8, <1>9, <1>12 DEF Books
  <2> QED BY <1>1, <1>10, <2>1 DEF Books
<1> HIDE DEF n, t
<1>15. order.key = EntryKey(i, t) /\ \A o \in d.orders : o.key # EntryKey(i, t)
  BY DEF HasKey, order, t
<1>16. \A p \in DOMAIN d.pos : d.pos[p].dec # <<i, t>>
  <2> TAKE p \in DOMAIN d.pos
  <2> SUFFICES ASSUME d.pos[p].dec = <<i, t>> PROVE FALSE OBVIOUS
  <2>1. HasKey(d, EntryKey(d.pos[p].dec[1], d.pos[p].dec[2])) BY DEF Sound, Keyed
  <2>2. d.pos[p].dec[1] = i /\ d.pos[p].dec[2] = t OBVIOUS
  <2> QED BY <2>1, <2>2 DEF t
<1>17. OpenPos(e) = OpenPos(d) \union {n} BY <1>7, <1>12, <1>13 DEF OpenPos
<1>18. \A p \in OpenPos(d) : d.pos[p].inst # i BY DEF OpenIn
<1>19. Singles(e)
  <2>1. \A p, r \in DOMAIN e.pos : e.pos[p].dec = e.pos[r].dec => p = r
    BY <1>7, <1>12, <1>13, <1>16 DEF Sound, Singles
  <2>2. \A p, r \in OpenPos(e) : e.pos[p].inst = e.pos[r].inst => p = r
    BY <1>7, <1>12, <1>13, <1>17, <1>18 DEF Sound, Singles, OpenPos
  <2>3. \A o, m \in e.orders : o.key = m.key => o = m
    BY <1>9, <1>15 DEF Sound, Singles
  <2> QED BY <2>1, <2>2, <2>3 DEF Singles
<1>20. Keyed(e)
  <2> SUFFICES ASSUME NEW p \in DOMAIN e.pos
               PROVE  /\ e.pos[p].inst = e.pos[p].dec[1]
                      /\ HasKey(e, EntryKey(e.pos[p].dec[1], e.pos[p].dec[2]))
    BY DEF Keyed
  <2>1. CASE p \in DOMAIN d.pos
    BY <2>1, <1>9, <1>12 DEF Sound, Keyed, HasKey
  <2>2. CASE p = n
    <3>1. e.pos[p].inst = i /\ e.pos[p].dec[1] = i /\ e.pos[p].dec[2] = t
      BY <2>2, <1>7, <1>12
    <3>2. HasKey(e, EntryKey(i, t)) BY <1>9, <1>15 DEF HasKey
    <3> QED BY <3>1, <3>2
  <2> QED BY <2>1, <2>2, <1>13
<1>21. Logged(e)
  <2>1. \A r \in e.trades : /\ r.pos \in DOMAIN e.pos
                            /\ e.pos[r.pos].status = "CLOSED"
                            /\ r.gain = e.pos[r.pos].got - Outflow(e.pos[r.pos])
    BY <1>9, <1>12, <1>13 DEF Sound, Logged
  <2>2. \A p \in DOMAIN e.pos : e.pos[p].status = "CLOSED" => \E r \in e.trades : r.pos = p
    BY <1>7, <1>9, <1>12, <1>13 DEF Sound, Logged
  <2>3. \A r, s \in e.trades : r.pos = s.pos => r = s
    BY <1>9 DEF Sound, Logged
  <2> QED BY <2>1, <2>2, <2>3 DEF Logged
<1>22. Sound(e)
  <2>1. n \notin OpenPos(d) BY <1>13 DEF OpenPos
  <2>2. \A r \in OpenPos(d) : Outflow(e.pos[r]) = Outflow(d.pos[r]) BY <1>12 DEF OpenPos
  <2>3. /\ Spent(e) = Spent(d) + Outflow(e.pos[n]) /\ Spent(d) \in Int
    BY <1>1, <1>14, <1>17, <2>1, <2>2, SpentMore
  <2>4. Outflow(e.pos[n]) = fill * qty + Fee BY <1>7, <1>12
  <2>5. Earned(e) = Earned(d) BY <1>9 DEF Earned
  <2>6. d.cash \in Int /\ d.realized \in Int BY <1>1 DEF Books
  <2>7. e.cash + Spent(e) = d.cash + Spent(d)
    <3> DEFINE c == fill * qty + Fee
    <3>1. c \in Nat /\ e.cash = d.cash - c /\ Spent(e) = Spent(d) + c BY <1>8, <1>9, <2>3, <2>4
    <3> HIDE DEF c
    <3> QED BY <2>3, <2>6, <3>1
  <2>8. Balanced(e) BY <1>9, <2>5, <2>7 DEF Sound, Balanced
  <2> QED BY <1>14, <1>19, <1>20, <1>21, <2>8 DEF Sound
<1>23. LotOf(d, <<i, t>>) = [state |-> "none", cost |-> 0, got |-> 0]
  BY <1>16, LotNone
<1>24. LotOf(e, <<i, t>>) = [state |-> "open", cost |-> fill * qty + Fee, got |-> 0]
  <2>1. n \in DOMAIN e.pos /\ e.pos[n].dec = <<i, t>> BY <1>7, <1>12, <1>13
  <2>2. LotOf(e, e.pos[n].dec) = LotRec(e.pos[n]) BY <1>22, <2>1, LotAt
  <2>3. LotRec(q) = [state |-> "open", cost |-> fill * qty + Fee, got |-> 0]
    BY <1>7 DEF LotRec
  <2> QED BY <2>1, <2>2, <2>3, <1>12
<1>25. \A y \in Decision : y # <<i, t>> => LotOf(e, y) = LotOf(d, y)
  <2> SUFFICES ASSUME NEW y \in Decision, y # <<i, t>> PROVE LotOf(e, y) = LotOf(d, y)
    OBVIOUS
  <2>1. CASE \E p \in DOMAIN d.pos : d.pos[p].dec = y
    <3>1. PICK p \in DOMAIN d.pos : d.pos[p].dec = y BY <2>1
    <3>2. LotOf(d, y) = LotRec(d.pos[p]) BY <3>1, LotAt
    <3>3. p \in DOMAIN e.pos /\ e.pos[p] = d.pos[p] BY <1>12, <1>13
    <3>4. LotOf(e, e.pos[p].dec) = LotRec(e.pos[p]) BY <1>22, <3>3, LotAt
    <3> QED BY <3>1, <3>2, <3>3, <3>4
  <2>2. CASE ~ \E p \in DOMAIN d.pos : d.pos[p].dec = y
    <3>1. \A p \in DOMAIN e.pos : e.pos[p].dec # y BY <2>2, <1>7, <1>12, <1>13
    <3> QED BY <2>2, <3>1, LotNone
  <2> QED BY <2>1, <2>2
<1>26. Buys(d, e)
  <2> DEFINE c == fill * qty + Fee
             w == <<i, t>>
  <2>1. w \in Decision /\ c \in Nat BY <1>4, <1>8 DEF t
  <2>2. Lots(d)[w].state = "none" BY <1>23, <2>1 DEF Lots
  <2>3. Lots(e)[w] = [state |-> "open", cost |-> c, got |-> 0] BY <1>24, <2>1 DEF Lots
  <2>4. \A y \in Decision : y # w => Lots(e)[y] = Lots(d)[y] BY <1>25 DEF Lots
  <2>5. Lots(e) = [y \in Decision |-> Lots(e)[y]] /\ Lots(d) = [y \in Decision |-> Lots(d)[y]]
    BY DEF Lots
  <2>6. e.cash = d.cash - c BY <1>9
  <2> HIDE DEF c, w
  <2>7. Lots(e) = Account!Bought(Lots(d), w, c)
    BY <2>1, <2>3, <2>4, <2>5 DEF Account!Bought
  <2> QED BY <2>1, <2>2, <2>6, <2>7 DEF Buys
<1> QED BY <1>9, <1>22, <1>26 DEF e

LEMMA OpenFromDecisionSound ==
    ASSUME Feed, NEW d, Sound(d), NEW i \in Instr, NEW u \in Units, NEW stale \in BOOLEAN,
           ~Collides(d, i, u)
    PROVE  /\ Sound(OpenFromDecision(d, i, u, stale))
           /\ \/ Still(d, OpenFromDecision(d, i, u, stale))
              \/ Buys(d, OpenFromDecision(d, i, u, stale))
           /\ OpenFromDecision(d, i, u, stale).halt = d.halt
           /\ Len(OpenFromDecision(d, i, u, stale).pos) > Len(d.pos) => d.halt = "none"
<1> DEFINE e == OpenFromDecision(d, i, u, stale)
           k == EntryKey(i, bar[i].at)
           qty == Sized(d, u, bar[i].candle.close)
<1>1. bar[i].at \in 0 .. LastBar BY FeedType
<1>2. qty \in Nat BY SizedType
<1>3. Len(d.pos) \in Nat BY PosType DEF Sound
<1>4. CASE HasKey(d, k)
  <2>1. e = d BY <1>4 DEF Collides, OpenFromDecision, Submit
  <2> HIDE DEF e
  <2>2. Sound(e) /\ Still(d, e) /\ e.halt = d.halt /\ Len(e.pos) = Len(d.pos)
    BY <2>1, SamePositionsStill
  <2> QED BY <2>2, <1>3 DEF e
<1>5. CASE ~HasKey(d, k) /\ e = Refused(d, k)
  <2>1. Sound(e) /\ Still(d, e) /\ e.halt = d.halt /\ Len(e.pos) = Len(d.pos)
    <3> HIDE DEF e
    <3> QED BY <1>1, <1>5, RefusedSound
  <2> HIDE DEF e
  <2> QED BY <2>1, <1>3 DEF e
<1>6. CASE ~HasKey(d, k) /\ e = Filled(d, i, qty) /\ ~GateRefuses(d, i, stale)
  <2>1. OpenIn(d, i) = {} /\ d.halt = "none" BY <1>6 DEF GateRefuses
  <2>2. Sound(e) /\ Buys(d, e) /\ e.halt = d.halt
    <3> HIDE DEF e, qty
    <3> QED BY <1>2, <1>6, <2>1, FilledSound
  <2> HIDE DEF e
  <2> QED BY <2>1, <2>2 DEF e
<1>7. \/ HasKey(d, k)
      \/ e = Refused(d, k)
      \/ e = Filled(d, i, qty) /\ ~GateRefuses(d, i, stale)
  <2> HIDE DEF qty
  <2> QED BY DEF OpenFromDecision, Submit, qty
<1> QED BY <1>4, <1>5, <1>6, <1>7

-----------------------------------------------------------------------------
(* Steps *)

\* What a committed transaction may do to the portfolio.
Transaction(d, e) ==
    /\ Sound(e) /\ e.cash >= 0
    /\ \/ Still(d, e) \/ Sells(d, e) \/ Buys(d, e)
       \/ \E m : Sells(d, m) /\ Buys(m, e)
    /\ d.halt = "drawdown" => e.halt = "drawdown"
    /\ Len(e.pos) > Len(d.pos) => e.halt = "none"

LEMMA NothingIsTransaction == ASSUME IInv PROVE Transaction(db, db)
<1>1. Len(db.pos) \in Nat BY PosType DEF IInv, Sound
<1> QED BY <1>1, SamePositionsStill DEF IInv, Transaction

LEMMA ScanTransaction ==
    ASSUME IInv, NEW i \in Instr, Scan(i)
    PROVE  Transaction(db, db')
<1> DEFINE e == ProcessBar(db, i)
<1>1. Sound(e) /\ (db.halt = "drawdown" => e.halt = "drawdown")
  BY ProcessBarSound DEF IInv
<1>2. Still(db, e) \/ Sells(db, e) BY ProcessBarSound DEF IInv
<1>3. Len(e.pos) = Len(db.pos) /\ Len(db.pos) \in Nat
  BY ProcessBarSound, PosType DEF IInv, Sound
<1>4. db' = db \/ (db' = e /\ e.cash >= 0) BY DEF Scan, Commit
<1> HIDE DEF e
<1>5. CASE db' = db BY <1>5, NothingIsTransaction
<1>6. CASE db' = e /\ e.cash >= 0 BY <1>1, <1>2, <1>3, <1>6 DEF Transaction
<1> QED BY <1>4, <1>5, <1>6

LEMMA ScanAndEnterTransaction ==
    ASSUME IInv, NEW i \in Instr, NEW u \in Units, NEW stale \in BOOLEAN,
           ScanAndEnter(i, u, stale)
    PROVE  Transaction(db, db')
<1> DEFINE d == ProcessBar(db, i)
           e == OpenFromDecision(d, i, u, stale)
<1>1. db' = db \/ (db' = e /\ e.cash >= 0 /\ ~Collides(d, i, u))
  BY DEF ScanAndEnter, Commit
<1>2. /\ Sound(d) /\ Len(d.pos) = Len(db.pos)
      /\ db.halt = "drawdown" => d.halt = "drawdown"
  BY ProcessBarSound DEF IInv
<1>3. Still(db, d) \/ Sells(db, d) BY ProcessBarSound DEF IInv
<1> HIDE DEF d
<1>4. CASE db' = db BY <1>4, NothingIsTransaction
<1>5. CASE db' = e /\ e.cash >= 0 /\ ~Collides(d, i, u)
  <2>1. /\ Sound(e) /\ e.halt = d.halt
        /\ Len(e.pos) > Len(d.pos) => d.halt = "none"
    BY <1>2, <1>5, OpenFromDecisionSound DEF IInv
  <2>2. Still(d, e) \/ Buys(d, e) BY <1>2, <1>5, OpenFromDecisionSound DEF IInv
  <2> HIDE DEF e
  <2>3. \/ Still(db, e) \/ Sells(db, e) \/ Buys(db, e)
        \/ \E m : Sells(db, m) /\ Buys(m, e)
    <3>1. CASE Still(db, d) BY <3>1, <2>2 DEF Still, Buys
    <3>2. CASE Sells(db, d) /\ Still(d, e) BY <3>2 DEF Still, Sells
    <3>3. CASE Sells(db, d) /\ Buys(d, e) BY <3>3
    <3> QED BY <1>3, <2>2, <3>1, <3>2, <3>3
  <2> QED BY <1>2, <1>5, <2>1, <2>3 DEF Transaction
<1> QED BY <1>1, <1>4, <1>5

LEMMA CloseOnReversalTransaction ==
    ASSUME IInv, NEW i \in Instr, CloseOnReversal(i)
    PROVE  Transaction(db, db')
<1> DEFINE p == CHOOSE p \in OpenIn(db, i) : TRUE
           level == bar[i].candle.close
           e == Closed(db, p, level, now)
<1>1. p \in DOMAIN db.pos /\ db.pos[p].status = "OPEN"
  BY DEF CloseOnReversal, OpenIn, OpenPos
<1>2. level \in Int /\ now \in 0 .. LastBar BY FeedType DEF IInv
<1>3. db' = db \/ (db' = e /\ e.cash >= 0) BY DEF CloseOnReversal, Commit
<1> HIDE DEF p, level
<1>4. CASE db' = db BY <1>4, NothingIsTransaction
<1>5. CASE db' = e /\ e.cash >= 0 /\ HasKey(db, ExitKey(p, now))
  BY <1>5, NothingIsTransaction DEF Closed
<1>6. CASE db' = e /\ e.cash >= 0 /\ ~HasKey(db, ExitKey(p, now))
  <2>1. Sells(db, e) BY <1>1, <1>2, <1>6, ClosedSells DEF IInv
  <2>2. Sound(e) BY <1>1, <1>2, <1>6, ClosedSound DEF IInv
  <2>3. e.halt = db.halt /\ e.pos = [db.pos EXCEPT ![p] = SoldAt(db.pos[p], level)]
    BY <1>6 DEF Closed, IInv, Sound, Books
  <2>4. Len(e.pos) = Len(db.pos) /\ Len(db.pos) \in Nat
    <3>1. db.pos[p] \in Position BY <1>1, PosType DEF IInv, Sound
    <3>2. SoldAt(db.pos[p], level) \in Position BY <3>1, <1>2, SoldType
    <3> QED BY <2>3, <3>2, <1>1, Replaced, PosType DEF IInv, Sound
  <2> HIDE DEF e
  <2> QED BY <1>6, <2>1, <2>2, <2>3, <2>4 DEF Transaction
<1> QED BY <1>3, <1>4, <1>5, <1>6

LEMMA FeedInit == Init => Feed
<1> SUFFICES ASSUME Init PROVE Feed OBVIOUS
<1>1. now = 1 /\ 1 \in 1 .. LastBar BY Limits DEF Init
<1>2. PICK c \in Candle : bar = [i \in Instr |-> [at |-> 1, candle |-> c]] BY DEF Init
<1>3. c.low \in Nat /\ c.high \in Nat BY PriceAssumption
<1>4. range = [i \in Instr |-> [low |-> c.low, high |-> c.high]] BY <1>2 DEF Init
<1> QED BY <1>1, <1>2, <1>3, <1>4 DEF Feed

LEMMA BooksInit == Init => Sound(db) /\ db.cash >= 0
<1> SUFFICES ASSUME Init PROVE Sound(db) /\ db.cash >= 0 OBVIOUS
<1>1. /\ db = [cash |-> Capital, realized |-> 0, peak |-> Capital, deep |-> FALSE,
               halt |-> "none", session |-> -1, base |-> 0,
               pos |-> <<>>, orders |-> {}, trades |-> {}]
      /\ Capital \in Nat
  BY Limits DEF Init
<1>2. <<>> \in Seq(Position) BY EmptySeq
<1>3. db \in Books BY <1>1, <1>2 DEF Books
<1>4. db.pos = <<>> /\ db.orders = {} /\ db.trades = {} /\ DOMAIN db.pos = {} /\ db.cash >= 0
  BY <1>1
<1>5. Singles(db) /\ Keyed(db) /\ Logged(db)
  BY <1>4 DEF Singles, Keyed, Logged, OpenPos
<1>6. Balanced(db)
  <2>1. OpenPos(db) = {} /\ IsFiniteSet({}) BY <1>4, FS_EmptySet DEF OpenPos
  <2>2. Spent(db) = 0 /\ Earned(db) = 0 BY <1>4, <2>1, SumFacts DEF Spent, Earned
  <2>3. db.cash = Capital /\ db.realized = 0 BY <1>1
  <2> QED BY <1>1, <1>4, <2>1, <2>2, <2>3 DEF Balanced
<1> QED BY <1>3, <1>4, <1>5, <1>6 DEF Sound

LEMMA FeedStep == ASSUME IInv, [Next]_vars PROVE Feed'
<1>1. CASE Tick
  <2>1. /\ now' \in 1 .. LastBar /\ now <= now' /\ bar' = bar /\ range' = range
    BY <1>1, Limits DEF Tick, IInv, Feed
  <2>2. \A i \in Instr : bar[i].at \in Nat BY FeedType DEF IInv
  <2> QED BY <2>1, <2>2 DEF IInv, Feed
<1>2. ASSUME NEW i \in Instr, NEW c \in Candle, Import(i, c) PROVE Feed'
  <2>1. c.low \in Nat /\ c.high \in Nat BY PriceAssumption
  <2>2. range[i].low \in Nat /\ range[i].high \in Nat BY DEF IInv, Feed
  <2>3. /\ bar' = [bar EXCEPT ![i] = [at |-> now, candle |-> c]]
        /\ range' = [range EXCEPT ![i] = [low |-> Least(range[i].low, c.low),
                        high |-> IF c.high > range[i].high THEN c.high ELSE range[i].high]]
        /\ now' = now
    BY <1>2 DEF Import
  <2>4. /\ Least(range[i].low, c.low) \in Nat /\ Least(range[i].low, c.low) <= c.low
    BY <2>1, <2>2 DEF Least
  <2>5. now \in 1 .. LastBar BY DEF IInv, Feed
  <2>6. bar' \in [Instr -> [at : 1 .. LastBar, candle : Candle]]
    BY <2>3, <2>5 DEF IInv, Feed
  <2>7. range' \in [Instr -> [low : Nat, high : Nat]]
    BY <2>1, <2>2, <2>3, <2>4 DEF IInv, Feed
  <2>8. \A j \in Instr : /\ bar'[j].at <= now
                         /\ range'[j].low <= bar'[j].candle.low
                         /\ bar'[j].candle.high <= range'[j].high
    <3> TAKE j \in Instr
    <3>1. CASE j = i
      <4>1. bar'[i].at = now /\ bar'[i].candle = c BY <2>3 DEF IInv, Feed
      <4>2. /\ range'[i].low = Least(range[i].low, c.low)
            /\ range'[i].high = IF c.high > range[i].high THEN c.high ELSE range[i].high
        BY <2>3 DEF IInv, Feed
      <4> QED BY <3>1, <4>1, <4>2, <2>1, <2>2, <2>4, <2>5
    <3>2. CASE j # i
      <4>1. bar'[j] = bar[j] /\ range'[j] = range[j] BY <3>2, <2>3 DEF IInv, Feed
      <4> QED BY <4>1 DEF IInv, Feed
    <3> QED BY <3>1, <3>2
  <2> QED BY <2>3, <2>5, <2>6, <2>7, <2>8 DEF Feed
<1>3. ASSUME UNCHANGED <<now, bar, range>> PROVE Feed'
  BY <1>3 DEF IInv, Feed
<1> QED
  BY <1>1, <1>2, <1>3 DEF Next, vars, Scan, ScanAndEnter, CloseOnReversal

LEMMA DbStep ==
    ASSUME IInv, [Next]_vars
    PROVE  Transaction(db, db')
<1>1. ASSUME UNCHANGED db PROVE Transaction(db, db')
  BY <1>1, NothingIsTransaction
<1>2. CASE Tick BY <1>1, <1>2 DEF Tick
<1>3. ASSUME NEW i \in Instr, NEW c \in Candle, Import(i, c) PROVE Transaction(db, db')
  BY <1>1, <1>3 DEF Import
<1>4. ASSUME NEW i \in Instr, Scan(i) PROVE Transaction(db, db')
  BY <1>4, ScanTransaction
<1>5. ASSUME NEW i \in Instr, NEW u \in Units, NEW stale \in BOOLEAN, ScanAndEnter(i, u, stale)
      PROVE  Transaction(db, db')
  BY <1>5, ScanAndEnterTransaction
<1>6. ASSUME NEW i \in Instr, CloseOnReversal(i) PROVE Transaction(db, db')
  BY <1>6, CloseOnReversalTransaction
<1>7. CASE UNCHANGED vars BY <1>1, <1>7 DEF vars
<1> QED BY <1>2, <1>3, <1>4, <1>5, <1>6, <1>7 DEF Next

LEMMA IInvStep == IInv /\ [Next]_vars => IInv'
BY FeedStep, DbStep DEF IInv, Transaction

\* The inductive invariant of the feed and the portfolio's rows holds whatever is
\* scanned, refused, filled, closed or rolled back.
THEOREM Invariance == Spec => []IInv
<1>1. Init => IInv BY FeedInit, BooksInit DEF IInv
<1> QED BY <1>1, IInvStep, PTL DEF Spec

-----------------------------------------------------------------------------
(* The properties the runs check *)

\* The rows keep their types, and no committed transaction overdraws cash.
THEOREM TypeCorrect == Spec => []TypeOK
<1>1. IInv => TypeOK
  <2> SUFFICES ASSUME IInv PROVE TypeOK OBVIOUS
  <2>1. /\ now \in 1 .. LastBar
        /\ \A i \in Instr : /\ bar[i].at \in 1 .. now /\ bar[i].candle \in Candle
                            /\ range[i].low <= bar[i].candle.low
                            /\ bar[i].candle.high <= range[i].high
    BY DEF IInv, Feed
  <2>2. db \in Books /\ db.cash >= 0 BY DEF IInv, Sound
  <2>3. /\ db.cash \in Nat /\ db.realized \in Int /\ db.peak \in Int /\ db.base \in Int
        /\ db.deep \in BOOLEAN /\ db.halt \in {"none", "daily", "drawdown"}
        /\ db.session \in Int /\ db.pos \in Seq(Position) /\ db.trades \subseteq Trade
        /\ db.orders \subseteq Order
    BY <2>2 DEF Books
  <2>4. \A o \in db.orders : o.status \in {"FILLED", "REJECTED"} BY <2>3 DEF Order
  <2> QED BY <2>1, <2>3, <2>4 DEF TypeOK
<1> QED BY <1>1, Invariance, PTL

\* The trade log is the closed positions, each once.
THEOREM TradesAreClosesHolds == Spec => []TradesAreCloses
<1>1. IInv => TradesAreCloses
  <2> SUFFICES ASSUME IInv PROVE TradesAreCloses OBVIOUS
  <2>1. Logged(db) /\ \A p \in DOMAIN db.pos : db.pos[p] \in Position
    BY PosType DEF IInv, Sound
  <2>2. \A p \in DOMAIN db.pos : db.pos[p].status \in {"OPEN", "CLOSED"}
    BY <2>1 DEF Position
  <2>3. DOMAIN db.pos \ OpenPos(db) = {p \in DOMAIN db.pos : db.pos[p].status = "CLOSED"}
    BY <2>2 DEF OpenPos
  <2>4. {r.pos : r \in db.trades} = DOMAIN db.pos \ OpenPos(db)
    BY <2>1, <2>3 DEF Logged
  <2> QED BY <2>1, <2>4 DEF TradesAreCloses, Logged
<1> QED BY <1>1, Invariance, PTL

\* Money moves only between cash and open positions, and what was realised is what the
\* trade log adds up to.
THEOREM MoneyConservedHolds == Spec => []MoneyConserved
<1>1. IInv => MoneyConserved BY DEF IInv, Sound, Balanced, MoneyConserved
<1> QED BY <1>1, Invariance, PTL

\* A bar settled again changes nothing.
THEOREM SettlingTwiceIsOnceHolds == Spec => []SettlingTwiceIsOnce
<1>1. IInv => SettlingTwiceIsOnce BY ProcessBarTwice DEF IInv, SettlingTwiceIsOnce
<1> QED BY <1>1, Invariance, PTL

\* However often a bar is scanned, a decision opens at most one position, a
\* symbol holds at most one and a key has one order.
THEOREM EntriesAreSingleHolds == Spec => []EntriesAreSingle
<1>1. IInv => EntriesAreSingle BY DEF IInv, Sound, Singles, EntriesAreSingle
<1> QED BY <1>1, Invariance, PTL

\* A transaction that opens a position leaves the portfolio not halted.
THEOREM HaltedOpensNothingHolds == Spec => HaltedOpensNothing
<1>1. IInv /\ [Next]_vars => [Len(db'.pos) > Len(db.pos) => db'.halt = "none"]_vars
  BY DbStep DEF Transaction
<1> QED BY <1>1, Invariance, PTL DEF Spec, HaltedOpensNothing

\* No step lifts a drawdown halt.
THEOREM DrawdownHaltSticksHolds == Spec => DrawdownHaltSticks
<1>1. IInv /\ [Next]_vars => [db.halt = "drawdown" => db'.halt = "drawdown"]_vars
  BY DbStep DEF Transaction
<1> QED BY <1>1, Invariance, PTL DEF Spec, DrawdownHaltSticks

\* The portfolio implements the account of PaperAccount.
THEOREM ImplementsAccountHolds == Spec => ImplementsAccount
<1>1. Init => Account!Init
  <2> SUFFICES ASSUME Init PROVE Account!Init OBVIOUS
  <2>1. db.cash = Capital /\ DOMAIN db.pos = {} BY DEF Init
  <2>2. \A x \in Decision : LotOf(db, x) = [state |-> "none", cost |-> 0, got |-> 0]
    BY <2>1, LotNone
  <2> QED BY <2>1, <2>2 DEF Account!Init, Account!NoLot, Lots
<1>2. IInv /\ [Next]_vars => [Account!Next]_<<db.cash, Lots(db)>>
  <2> SUFFICES ASSUME IInv, [Next]_vars
               PROVE  Account!Next \/ (db.cash' = db.cash /\ Lots(db)' = Lots(db))
    OBVIOUS
  <2>1. Transaction(db, db') BY DbStep
  <2>2. db.cash' = db'.cash /\ Lots(db)' = Lots(db') BY DEF Lots, LotOf, Outflow
  <2>3. db'.cash >= 0 BY <2>1 DEF Transaction
  <2>4. \A d : DOMAIN Lots(d) = Decision BY DEF Lots
  <2>5. CASE Still(db, db') BY <2>2, <2>5 DEF Still
  <2>6. CASE Sells(db, db')
    <3>1. PICK x \in Decision, v \in Int :
             /\ Lots(db)[x].state = "open"
             /\ db'.cash = db.cash + v /\ Lots(db') = Account!Sold(Lots(db), x, v)
      BY <2>6 DEF Sells
    <3>2. Lots(db')[x].got = v BY <3>1, <2>4 DEF Account!Sold
    <3>3. Account!Sell BY <3>1, <3>2, <2>2, <2>3 DEF Account!Sell
    <3> QED BY <3>3 DEF Account!Next
  <2>7. CASE Buys(db, db')
    <3>1. PICK x \in Decision, c \in Nat :
             /\ Lots(db)[x].state = "none"
             /\ db'.cash = db.cash - c /\ Lots(db') = Account!Bought(Lots(db), x, c)
      BY <2>7 DEF Buys
    <3>2. Lots(db')[x].cost = c BY <3>1, <2>4 DEF Account!Bought
    <3>3. Account!Buy BY <3>1, <3>2, <2>2, <2>3 DEF Account!Buy
    <3> QED BY <3>3 DEF Account!Next
  <2>8. CASE \E m : Sells(db, m) /\ Buys(m, db')
    <3>1. PICK m : Sells(db, m) /\ Buys(m, db') BY <2>8
    <3>2. PICK x \in Decision, v \in Int :
             /\ Lots(db)[x].state = "open"
             /\ m.cash = db.cash + v /\ Lots(m) = Account!Sold(Lots(db), x, v)
      BY <3>1 DEF Sells
    <3>3. PICK y \in Decision, c \in Nat :
             /\ Lots(m)[y].state = "none"
             /\ db'.cash = m.cash - c /\ Lots(db') = Account!Bought(Lots(m), y, c)
      BY <3>1 DEF Buys
    <3>4. Lots(m)[x] = [state |-> "closed", cost |-> Lots(db)[x].cost, got |-> v]
      BY <3>2, <2>4 DEF Account!Sold
    <3>5. y # x BY <3>3, <3>4
    <3>6. Lots(db)[y].state = "none" BY <3>2, <3>3, <3>5, <2>4 DEF Account!Sold
    <3>7. Lots(db')[y].cost = c BY <3>3, <2>4 DEF Account!Bought
    <3>8. Lots(db')[x].got = v BY <3>3, <3>4, <3>5, <2>4 DEF Account!Bought
    <3>9. db'.cash = db.cash + v - c
      <4>1. db.cash \in Int BY DEF IInv, Sound, Books
      <4> QED BY <4>1, <3>2, <3>3
    <3>10. Account!SellThenBuy
      BY <3>2, <3>3, <3>6, <3>7, <3>8, <3>9, <2>2, <2>3 DEF Account!SellThenBuy
    <3> QED BY <3>10 DEF Account!Next
  <2> QED BY <2>1, <2>5, <2>6, <2>7, <2>8 DEF Transaction
<1> QED BY <1>1, <1>2, Invariance, PTL DEF Spec, ImplementsAccount, Account!Spec

-----------------------------------------------------------------------------
(* What the account promises, and the portfolio inherits *)

Bid(l) == {x \in Decision : l[x].state # "none"}
Result(l) == [x \in Decision |-> l[x].got - l[x].cost]

\* Cash is what was put in, less what every lot cost, plus what the sold ones brought.
CashIsLots == db.cash = Capital + SumFunctionOnSet(Result(Lots(db)), Bid(Lots(db)))

Adds(l, cash) ==
    /\ l \in [Decision -> [state : {"none", "open", "closed"}, cost : Int, got : Int]]
    /\ \A x \in Decision : l[x].state = "open" => l[x].got = 0
    /\ IsFiniteSet(Bid(l)) /\ cash \in Int
    /\ cash = Capital + SumFunctionOnSet(Result(l), Bid(l))

LEMMA ResultSum ==
    ASSUME NEW l, NEW cash, Adds(l, cash)
    PROVE  /\ \A x \in Decision : Result(l)[x] \in Int
           /\ SumFunctionOnSet(Result(l), Bid(l)) \in Int
<1>1. \A x \in Decision : l[x].got \in Int /\ l[x].cost \in Int BY DEF Adds
<1>2. \A x \in Decision : Result(l)[x] \in Int BY <1>1 DEF Result
<1>3. \A x \in Bid(l) : Result(l)[x] \in Int BY <1>2 DEF Bid
<1>4. IsFiniteSet(Bid(l)) BY DEF Adds
<1> QED BY <1>2, <1>3, <1>4, SumFacts

\* A sale changes one term of the sum, by what it brings.
LEMMA SoldAdds ==
    ASSUME NEW l, NEW cash, Adds(l, cash), NEW x \in Decision, NEW v \in Int, l[x].state = "open"
    PROVE  Adds(Account!Sold(l, x, v), cash + v)
<1> DEFINE n == Account!Sold(l, x, v)
           S == Bid(l)
           f == Result(l)
           g == Result(n)
<1>1. /\ n \in [Decision -> [state : {"none", "open", "closed"}, cost : Int, got : Int]]
      /\ n[x] = [state |-> "closed", cost |-> l[x].cost, got |-> v]
      /\ \A y \in Decision : y # x => n[y] = l[y]
  BY DEF Adds, Account!Sold
<1>2. Bid(n) = S /\ x \in S /\ S \subseteq Decision BY <1>1 DEF Bid
<1>3. /\ \A y \in Decision : f[y] \in Int /\ g[y] \in Int
      /\ \A y \in Decision : y # x => g[y] = f[y]
      /\ f[x] = 0 - l[x].cost /\ g[x] = v - l[x].cost /\ l[x].cost \in Int
  <2>1. /\ \A y \in Decision : /\ l[y].got \in Int /\ l[y].cost \in Int
                               /\ n[y].got \in Int /\ n[y].cost \in Int
        /\ l[x].got = 0 /\ n[x].got = v /\ n[x].cost = l[x].cost
    BY <1>1 DEF Adds
  <2> HIDE DEF n
  <2> QED BY <1>1, <2>1 DEF Result
<1>4. IsFiniteSet(S) /\ cash \in Int /\ cash = Capital + SumFunctionOnSet(f, S) BY DEF Adds
<1> HIDE DEF n, S, f, g
<1>5. IsFiniteSet(S \ {x}) BY <1>4, FS_RemoveElement
<1>6. /\ SumFunctionOnSet(f, S) = SumFunctionOnSet(f, S \ {x}) + f[x]
      /\ SumFunctionOnSet(g, S) = SumFunctionOnSet(g, S \ {x}) + g[x]
  BY <1>2, <1>3, <1>4, SumFacts
<1>7. SumFunctionOnSet(g, S \ {x}) = SumFunctionOnSet(f, S \ {x}) /\ SumFunctionOnSet(f, S \ {x}) \in Int
  BY <1>2, <1>3, <1>5, SumFacts
<1>8. cash + v = Capital + SumFunctionOnSet(g, S) BY <1>3, <1>4, <1>6, <1>7, Limits
<1>9. \A y \in Decision : n[y].state = "open" => n[y].got = 0 BY <1>1 DEF Adds
<1>10. SumFunctionOnSet(g, S) = SumFunctionOnSet(Result(n), Bid(n)) BY <1>2 DEF g
<1> QED BY <1>1, <1>2, <1>4, <1>8, <1>9, <1>10 DEF Adds, n

\* A purchase adds a term.
LEMMA BoughtAdds ==
    ASSUME NEW l, NEW cash, Adds(l, cash), NEW x \in Decision, NEW c \in Nat, l[x].state = "none"
    PROVE  Adds(Account!Bought(l, x, c), cash - c)
<1> DEFINE n == Account!Bought(l, x, c)
           S == Bid(l)
           f == Result(l)
           g == Result(n)
<1>1. /\ n \in [Decision -> [state : {"none", "open", "closed"}, cost : Int, got : Int]]
      /\ n[x] = [state |-> "open", cost |-> c, got |-> 0]
      /\ \A y \in Decision : y # x => n[y] = l[y]
  BY DEF Adds, Account!Bought
<1>2. Bid(n) = S \union {x} /\ x \notin S /\ S \subseteq Decision BY <1>1 DEF Bid
<1>3. /\ \A y \in Decision : f[y] \in Int /\ g[y] \in Int
      /\ \A y \in Decision : y # x => g[y] = f[y]
      /\ g[x] = 0 - c
  <2>1. /\ \A y \in Decision : /\ l[y].got \in Int /\ l[y].cost \in Int
                               /\ n[y].got \in Int /\ n[y].cost \in Int
        /\ n[x].got = 0 /\ n[x].cost = c
    BY <1>1 DEF Adds
  <2> HIDE DEF n
  <2> QED BY <1>1, <2>1 DEF Result
<1>4. IsFiniteSet(S) /\ cash \in Int /\ cash = Capital + SumFunctionOnSet(f, S) BY DEF Adds
<1> HIDE DEF n, S, f, g
<1>5. IsFiniteSet(S \union {x}) /\ (S \union {x}) \ {x} = S
  BY <1>2, <1>4, FS_AddElement
<1>6. SumFunctionOnSet(g, S \union {x}) = SumFunctionOnSet(g, (S \union {x}) \ {x}) + g[x]
  BY <1>2, <1>3, <1>5, SumFacts
<1>7. SumFunctionOnSet(g, S) = SumFunctionOnSet(f, S) /\ SumFunctionOnSet(f, S) \in Int
  BY <1>2, <1>3, <1>4, SumFacts
<1>8. cash - c = Capital + SumFunctionOnSet(g, S \union {x})
  <2>1. SumFunctionOnSet(g, S \union {x}) = SumFunctionOnSet(f, S) + (0 - c)
    BY <1>3, <1>5, <1>6, <1>7
  <2> DEFINE s == SumFunctionOnSet(f, S)
             t == SumFunctionOnSet(g, S \union {x})
  <2>2. t = s + (0 - c) /\ s \in Int /\ c \in Int /\ cash = Capital + s /\ Capital \in Int
    BY <1>4, <1>7, <2>1, Limits
  <2> HIDE DEF s, t
  <2>3. cash - c = Capital + t BY <2>2
  <2> QED BY <2>3 DEF t
<1>9. \A y \in Decision : n[y].state = "open" => n[y].got = 0 BY <1>1 DEF Adds
<1>10. SumFunctionOnSet(g, S \union {x}) = SumFunctionOnSet(Result(n), Bid(n)) BY <1>2 DEF g
<1> QED BY <1>1, <1>2, <1>4, <1>5, <1>8, <1>9, <1>10 DEF Adds, n

\* In every behaviour of the account, cash is the capital less what the lots cost plus
\* what they brought.
THEOREM AccountAddsUp == Account!Spec => []CashIsLots
<1> DEFINE Inv == Adds(Lots(db), db.cash)
<1>1. Account!Init => Inv
  <2> SUFFICES ASSUME Account!Init PROVE Adds(Lots(db), db.cash) OBVIOUS
  <2>1. /\ db.cash = Capital /\ Capital \in Nat
        /\ Lots(db) = [x \in Decision |-> [state |-> "none", cost |-> 0, got |-> 0]]
    BY Limits DEF Account!Init, Account!NoLot
  <2>2. Bid(Lots(db)) = {} BY <2>1 DEF Bid
  <2>3. SumFunctionOnSet(Result(Lots(db)), {}) = 0 BY FS_EmptySet, SumFacts
  <2>4. IsFiniteSet({}) BY FS_EmptySet
  <2> QED BY <2>1, <2>2, <2>3, <2>4 DEF Adds
<1>2. Inv /\ [Account!Next]_<<db.cash, Lots(db)>> => Inv'
  <2> SUFFICES ASSUME Adds(Lots(db), db.cash),
                      Account!Next \/ (db.cash' = db.cash /\ Lots(db)' = Lots(db))
               PROVE  Adds(Lots(db)', db.cash')
    BY DEF Adds, Result, Bid
  <2>1. CASE db.cash' = db.cash /\ Lots(db)' = Lots(db) BY <2>1
  <2>2. CASE Account!Sell
    <3>1. PICK x \in Decision :
             /\ Lots(db)[x].state = "open" /\ Lots(db)'[x].got \in Int
             /\ db.cash' = db.cash + Lots(db)'[x].got
             /\ Lots(db)' = Account!Sold(Lots(db), x, Lots(db)'[x].got)
      BY <2>2 DEF Account!Sell
    <3> DEFINE v == Lots(db)'[x].got
    <3>2. v \in Int /\ Lots(db)' = Account!Sold(Lots(db), x, v) /\ db.cash' = db.cash + v BY <3>1
    <3> HIDE DEF v
    <3> QED BY <3>1, <3>2, SoldAdds
  <2>3. CASE Account!Buy
    <3>1. PICK x \in Decision :
             /\ Lots(db)[x].state = "none" /\ Lots(db)'[x].cost \in Nat
             /\ db.cash' = db.cash - Lots(db)'[x].cost
             /\ Lots(db)' = Account!Bought(Lots(db), x, Lots(db)'[x].cost)
      BY <2>3 DEF Account!Buy
    <3> DEFINE c == Lots(db)'[x].cost
    <3>2. c \in Nat /\ Lots(db)' = Account!Bought(Lots(db), x, c) /\ db.cash' = db.cash - c BY <3>1
    <3> HIDE DEF c
    <3> QED BY <3>1, <3>2, BoughtAdds
  <2>4. CASE Account!SellThenBuy
    <3>1. PICK x \in Decision, y \in Decision :
             /\ Lots(db)[x].state = "open" /\ Lots(db)'[x].got \in Int
             /\ Lots(db)[y].state = "none" /\ Lots(db)'[y].cost \in Nat
             /\ db.cash' = db.cash + Lots(db)'[x].got - Lots(db)'[y].cost
             /\ Lots(db)' = Account!Bought(Account!Sold(Lots(db), x, Lots(db)'[x].got), y,
                                           Lots(db)'[y].cost)
      BY <2>4 DEF Account!SellThenBuy
    <3> DEFINE v == Lots(db)'[x].got
               c == Lots(db)'[y].cost
               m == Account!Sold(Lots(db), x, v)
    <3>2. /\ v \in Int /\ c \in Nat
          /\ Lots(db)' = Account!Bought(m, y, c) /\ db.cash' = db.cash + v - c
      BY <3>1
    <3> HIDE DEF v, c
    <3>3. m[y].state = "none" BY <3>1 DEF Account!Sold, Adds
    <3>4. Adds(m, db.cash + v) BY <3>1, <3>2, SoldAdds
    <3> HIDE DEF m
    <3>5. Adds(Account!Bought(m, y, c), (db.cash + v) - c) BY <3>2, <3>3, <3>4, BoughtAdds
    <3>6. db.cash' = (db.cash + v) - c
      <4>1. db.cash \in Int BY DEF Adds
      <4> QED BY <4>1, <3>2
    <3> QED BY <3>2, <3>5, <3>6
  <2> QED BY <2>1, <2>2, <2>3, <2>4 DEF Account!Next
<1>3. Inv => CashIsLots BY DEF Adds, CashIsLots
<1> QED BY <1>1, <1>2, <1>3, PTL DEF Account!Spec

\* The portfolio is that account, so its cash is the capital and its lots too.
THEOREM PortfolioAddsUp == Spec => []CashIsLots
BY ImplementsAccountHolds, AccountAddsUp, PTL DEF ImplementsAccount
=============================================================================
