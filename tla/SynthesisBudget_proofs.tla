----------------------- MODULE SynthesisBudget_proofs -----------------------
(***************************************************************************)
(* Proofs about SynthesisBudget, for any number of overlapping             *)
(* invocations.  The spend of a month is bounded through the invocations   *)
(* that were allowed to call and have not written their row yet, and those *)
(* whose row may still be rewritten for more than it holds: with k of the  *)
(* first the load of the month leaves room for k more estimates under the  *)
(* bound, or it was one of them whose check left room for itself within    *)
(* the cap.  The bill is bounded through what each row in hand holds and   *)
(* no charge has used.                                                     *)
(***************************************************************************)
EXTENDS SynthesisBudget, FiniteSetTheorems, TLAPS

Place == {"off", "ready", "check", "approved", "sent", "inferred", "answered", "settle"}
Top == Ceiling + Excess

Types ==
    /\ month \in Month /\ spent \in [Month -> Int] /\ pc \in [Run -> Place]
    /\ call \in [Run -> Call] /\ made \in [Run -> Nat] /\ sent \in [Run -> Nat]
    /\ bill \in [Month -> Nat] /\ blind \in [Month -> Nat] /\ free \in [Month -> 0 .. Breaches]
    /\ cache \subseteq Packet

\* The guard's own count runs ahead of the calls that reached the provider.
Counted ==
    \A r \in Run :
        /\ sent[r] <= made[r] /\ made[r] <= Calls
        /\ pc[r] = "approved" => made[r] < Calls
        /\ pc[r] = "sent" => sent[r] < made[r]

\* A call stands at its estimate until something is known of its usage.
Stamped ==
    \A r \in Run :
        /\ call[r].used <= Cost(r) + Excess
        /\ pc[r] \in {"check", "approved", "sent", "inferred"} => call[r].basis = "estimate"

\* Weights of the invocations, added up.
Weights == [Run -> 0 .. Top]
Size(w) == Cardinality({t \in Run \X (1 .. Top) : t[2] <= w[t[1]]})
Each(S) == [r \in Run |-> IF r \in S THEN Excess ELSE 0]

\* Who will write a row of month m, and who may still add to the month's spend.
Waiting(m) == {r \in Run : pc[r] = "approved" /\ call[r].month = m}
Busy(m) == {r \in Run : /\ call[r].month = m
                        /\ pc[r] \in {"approved", "sent", "inferred", "answered", "settle"}}
Load(m) == spent[m] + Size(Each(Busy(m)))
Bound == Cap + (Cardinality(Run) - 1) * Ceiling + Cardinality(Run) * Excess

Room(m) ==
    \/ Load(m) + Ceiling * Cardinality(Waiting(m)) <= Bound
    \/ \E r \in Waiting(m) :
         Load(m) + Cost(r) + Ceiling * (Cardinality(Waiting(m)) - 1) <= Bound

\* What an invocation's row holds in month m, and what of it no charge has used.
Written(m, r) == pc[r] \in {"sent", "inferred", "answered", "settle"} /\ call[r].month = m
Held(m) == [r \in Run |-> IF Written(m, r) THEN Cost(r) ELSE 0]
Slack(m) == [r \in Run |->
    IF ~Written(m, r) THEN 0
    ELSE IF r \in Pending(m) THEN Cost(r) + Excess - call[r].used
    ELSE IF pc[r] = "sent" \/ call[r].basis = "nothing" THEN Cost(r) ELSE 0]

\* A month's spend holds every row that is still to be rewritten, ...
Backed == \A m \in Month : Size(Held(m)) <= spent[m]

\* ... and what the provider charged with what those rows leave over, but for what
\* no row can know.
Unseen(m) == Excess * blind[m] + Top * free[m]
Covered ==
    \A m \in Month : bill[m] + Size(Slack(m)) <= spent[m] + Size(Each(Pending(m))) + Unseen(m)

\* One invocation's part in each of these.
Spare(m, p) == spent[m] - Held(m)[p]
Left(m, p) == spent[m] + Each(Pending(m))[p] + Unseen(m) - bill[m] - Slack(m)[p]
Own(m, p) == spent[m] + Each(Busy(m))[p]

IInv == Types /\ Counted /\ Stamped /\ Backed /\ Covered /\ \A m \in Month : Room(m)

\* The steps of one invocation.
Moves(p) ==
    \/ Begin(p) \/ Approve(p) \/ Refuse(p) \/ Dispatch(p) \/ RejectedBeforeInference(p)
    \/ Unanswered(p) \/ Answered(p) \/ Unreported(p) \/ Breach(p)
    \/ Discard(p) \/ Put(p) \/ Settle(p) \/ End(p)
    \/ \E x \in Packet : Miss(p, x) \/ (\E u \in Usage[x] : Infer(p, u) \/ Orphaned(p, u))

-----------------------------------------------------------------------------
(* The operators *)

LEMMA Constants ==
    /\ IsFiniteSet(Run) /\ Cardinality(Run) \in Nat /\ Cardinality(Run) >= 1
    /\ Cap \in Nat /\ Ceiling \in Nat /\ Excess \in Nat /\ Top \in Nat /\ Top = Ceiling + Excess
    /\ Calls \in Nat /\ Breaches \in Nat /\ LastMonth \in Nat
    /\ (Cardinality(Run) - 1) * Ceiling \in Nat /\ Cardinality(Run) * Excess \in Nat
    /\ Bound \in Int
    /\ \A x \in Packet : Estimate[x] \in Nat /\ Estimate[x] <= Ceiling
    /\ \A x \in Packet : \A u \in Usage[x] : u \in Nat /\ u <= Estimate[x] + Excess
<1>1. Cardinality(Run) \in Nat /\ Cardinality(Run) # 0
  BY BudgetAssumption, FS_CardinalityType, FS_EmptySet
<1>2. /\ Cap \in Nat /\ Ceiling \in Nat /\ Excess \in Nat /\ Calls \in Nat /\ LastMonth \in Nat
      /\ Breaches \in Nat
  BY BudgetAssumption
<1>3. (Cardinality(Run) - 1) * Ceiling \in Nat /\ Cardinality(Run) * Excess \in Nat
  BY <1>1, <1>2
<1>4. \A x \in Packet : Estimate[x] \in Nat /\ Estimate[x] <= Ceiling
  BY <1>2, BudgetAssumption
<1>5. \A x \in Packet : \A u \in Usage[x] : u \in Nat /\ u <= Estimate[x] + Excess
  BY <1>2, <1>4, BudgetAssumption
<1> QED BY <1>1, <1>2, <1>3, <1>4, <1>5, BudgetAssumption DEF Bound, Top

\* Once more.
LEMMA OneMore ==
    ASSUME NEW c \in Nat, NEW k \in Nat
    PROVE  c * (k + 1) = c * k + c /\ c * k \in Nat
OBVIOUS

LEMMA WaitingCount ==
    ASSUME NEW m
    PROVE  /\ IsFiniteSet(Waiting(m)) /\ Cardinality(Waiting(m)) \in Nat
           /\ Cardinality(Waiting(m)) <= Cardinality(Run)
<1>1. Waiting(m) \subseteq Run BY DEF Waiting
<1> QED BY <1>1, Constants, FS_Subset, FS_CardinalityType

LEMMA NoCallType == NoCall \in Call /\ NoCall.used = 0 /\ NoCall.basis = "estimate"
<1>1. 0 \in Month BY BudgetAssumption DEF Month
<1>2. (CHOOSE x \in Packet : TRUE) \in Packet BY BudgetAssumption
<1> QED BY <1>1, <1>2 DEF NoCall, Call

LEMMA CostType ==
    ASSUME Types, NEW r \in Run
    PROVE  Cost(r) \in Nat /\ Cost(r) <= Ceiling /\ call[r] \in Call
<1>1. call[r] \in Call BY DEF Types
<1> QED BY <1>1, Constants DEF Call, Cost

\* When one weight changes the sum changes by as much.
LEMMA SizeChanges ==
    ASSUME NEW w \in Weights, NEW v \in Weights, NEW p \in Run,
           \A r \in Run : r # p => v[r] = w[r]
    PROVE  Size(v) = Size(w) - w[p] + v[p] /\ Size(w) \in Nat /\ Size(v) \in Nat
<1> DEFINE Units(u) == {t \in Run \X (1 .. Top) : t[2] <= u[t[1]]}
           Under(n) == {p} \X (1 .. n)
           Rest == {t \in Run \X (1 .. Top) : t[1] # p /\ t[2] <= w[t[1]]}
<1>1. w[p] \in 0 .. Top /\ v[p] \in 0 .. Top /\ Top \in Nat BY Constants DEF Weights
<1>2. ASSUME NEW n \in 0 .. Top PROVE IsFiniteSet(Under(n)) /\ Cardinality(Under(n)) = n
  <2> DEFINE X == {p}
             I == 1 .. n
  <2>1. IsFiniteSet(X) /\ Cardinality(X) = 1 BY FS_Singleton
  <2>2. IsFiniteSet(I) /\ Cardinality(I) = n
    <3>1. 1 \in Int /\ n \in Int BY <1>1
    <3>2. IsFiniteSet(I) /\ Cardinality(I) = IF 1 > n THEN 0 ELSE n - 1 + 1
      BY <3>1, FS_Interval
    <3> QED BY <1>1, <3>2
  <2> HIDE DEF X, I
  <2>3. IsFiniteSet(X \X I) /\ Cardinality(X \X I) = 1 * n BY <2>1, <2>2, FS_Product
  <2> QED BY <1>1, <2>3 DEF X, I
<1>3. IsFiniteSet(Rest)
  <2> DEFINE I == 1 .. Top
  <2>1. IsFiniteSet(I) BY <1>1, FS_Interval
  <2> HIDE DEF I
  <2>2. IsFiniteSet(Run \X I) BY <2>1, Constants, FS_Product
  <2>3. Rest \subseteq Run \X I BY DEF I
  <2> HIDE DEF Rest
  <2> QED BY <2>2, <2>3, FS_Subset
<1>4. ASSUME NEW u \in Weights, \A r \in Run : r # p => u[r] = w[r]
      PROVE  Size(u) = Cardinality(Rest) + u[p] /\ Size(u) \in Nat
  <2>1. u[p] \in 0 .. Top BY DEF Weights
  <2>2. Units(u) = Rest \union Under(u[p]) /\ Rest \intersect Under(u[p]) = {}
    <3>1. ASSUME NEW t \in Units(u) PROVE t \in Rest \union Under(u[p])
      BY <1>1, <1>4, <2>1
    <3>2. Rest \subseteq Units(u) BY <1>4
    <3>3. ASSUME NEW i \in 1 .. u[p] PROVE <<p, i>> \in Units(u) BY <1>1, <2>1
    <3> QED BY <3>1, <3>2, <3>3
  <2>3. IsFiniteSet(Under(u[p])) /\ Cardinality(Under(u[p])) = u[p] BY <1>2, <2>1
  <2>4. Size(u) = Cardinality(Units(u)) BY DEF Size
  <2> HIDE DEF Units, Under, Rest
  <2>5. Cardinality({}) = 0 BY FS_EmptySet
  <2>6. Cardinality(Units(u)) = Cardinality(Rest) + u[p] - 0
    BY <1>3, <2>2, <2>3, <2>5, FS_Union
  <2>7. Cardinality(Rest) \in Nat BY <1>3, FS_CardinalityType
  <2> QED BY <2>1, <2>4, <2>6, <2>7
<1>5. Size(w) = Cardinality(Rest) + w[p] /\ Size(w) \in Nat BY <1>4
<1>6. Size(v) = Cardinality(Rest) + v[p] /\ Size(v) \in Nat BY <1>4
<1>7. Cardinality(Rest) \in Nat BY <1>3, FS_CardinalityType
<1> HIDE DEF Rest
<1> QED BY <1>1, <1>5, <1>6, <1>7

LEMMA SizeOfNothing == Size([r \in Run |-> 0]) = 0
<1>1. {t \in Run \X (1 .. Top) : t[2] <= [r \in Run |-> 0][t[1]]} = {} BY Constants
<1> QED BY <1>1, FS_EmptySet DEF Size

\* Equal weights add up to a product.
LEMMA SizeOfEach ==
    ASSUME NEW S \in SUBSET Run
    PROVE  /\ Each(S) \in Weights /\ Size(Each(S)) = Excess * Cardinality(S)
           /\ Size(Each(S)) \in Nat /\ Size(Each(S)) <= Cardinality(Run) * Excess
<1> DEFINE I == 1 .. Excess
<1>1. Excess \in Nat /\ Excess <= Top /\ Top \in Nat BY Constants
<1>2. Each(S) \in Weights BY <1>1 DEF Each, Weights
<1>3. {t \in Run \X (1 .. Top) : t[2] <= Each(S)[t[1]]} = S \X I BY <1>1 DEF Each
<1>4. IsFiniteSet(I) /\ Cardinality(I) = Excess
  <2>1. 1 \in Int /\ Excess \in Int BY <1>1
  <2>2. IsFiniteSet(I) /\ Cardinality(I) = IF 1 > Excess THEN 0 ELSE Excess - 1 + 1
    BY <2>1, FS_Interval
  <2> QED BY <1>1, <2>2
<1>5. IsFiniteSet(S) /\ Cardinality(S) \in Nat /\ Cardinality(S) <= Cardinality(Run)
  BY Constants, FS_Subset, FS_CardinalityType
<1> HIDE DEF I
<1>6. Cardinality(S \X I) = Cardinality(S) * Excess BY <1>4, <1>5, FS_Product
<1>7. Size(Each(S)) = Cardinality(S) * Excess BY <1>3, <1>6 DEF Size
<1> DEFINE c == Cardinality(S)
           n == Cardinality(Run)
<1>8. n \in Nat /\ c \in Nat /\ c <= n BY <1>5, Constants
<1> HIDE DEF c, n
<1>9. c * Excess = Excess * c /\ c * Excess \in Nat /\ c * Excess <= n * Excess
  BY <1>1, <1>8
<1> QED BY <1>2, <1>7, <1>9 DEF c, n

\* When one invocation joins or leaves a set its weight is what changes.
LEMMA EachChanges ==
    ASSUME NEW S \in SUBSET Run, NEW T \in SUBSET Run, NEW p \in Run,
           \A r \in Run : r # p => (r \in T <=> r \in S)
    PROVE  Size(Each(T)) = Size(Each(S)) - Each(S)[p] + Each(T)[p]
<1>1. Each(S) \in Weights /\ Each(T) \in Weights BY SizeOfEach
<1>2. \A r \in Run : r # p => Each(T)[r] = Each(S)[r] BY DEF Each
<1> QED BY <1>1, <1>2, SizeChanges

LEMMA LoadType ==
    ASSUME Types, NEW m \in Month
    PROVE  Load(m) \in Int /\ spent[m] \in Int /\ spent[m] <= Load(m)
<1>1. Busy(m) \in SUBSET Run BY DEF Busy
<1>2. Size(Each(Busy(m))) \in Nat BY <1>1, SizeOfEach
<1> QED BY <1>2 DEF Load, Types

LEMMA LoadTypeNext ==
    ASSUME Types', NEW m \in Month
    PROVE  Load(m)' \in Int
<1>1. Busy(m)' \in SUBSET Run BY DEF Busy
<1>2. Size(Each(Busy(m)')) \in Nat BY <1>1, SizeOfEach
<1>3. Load(m)' = spent'[m] + Size(Each(Busy(m)')) BY DEF Load, Size, Each
<1> QED BY <1>2, <1>3 DEF Types

\* With room the spend is within the bound.
LEMMA RoomBounds ==
    ASSUME Types, NEW m \in Month, Room(m)
    PROVE  spent[m] <= Bound
<1> DEFINE k == Cardinality(Waiting(m))
<1>1. k \in Nat /\ IsFiniteSet(Waiting(m)) BY WaitingCount
<1>2. /\ spent[m] \in Int /\ Load(m) \in Int /\ spent[m] <= Load(m)
      /\ Ceiling \in Nat /\ Bound \in Int
  BY Constants, LoadType
<1>3. CASE Load(m) + Ceiling * k <= Bound
  <2>1. Ceiling * k \in Nat BY <1>1, <1>2, OneMore
  <2> HIDE DEF k
  <2> QED BY <1>2, <1>3, <2>1
<1>4. ASSUME NEW r \in Waiting(m), Load(m) + Cost(r) + Ceiling * (k - 1) <= Bound
      PROVE  spent[m] <= Bound
  <2>1. k # 0 BY <1>1, FS_EmptySet
  <2>2. k - 1 \in Nat BY <1>1, <2>1
  <2>3. Ceiling * (k - 1) \in Nat BY <2>2, <1>2, OneMore
  <2>4. Cost(r) \in Nat BY CostType DEF Waiting
  <2> HIDE DEF k
  <2> QED BY <1>2, <1>4, <2>3, <2>4
<1> QED BY <1>3, <1>4 DEF Room

-----------------------------------------------------------------------------
(* How a step changes the room of a month *)

\* Nobody joins or leaves, and the load does not grow.
LEMMA RoomKept ==
    ASSUME Types, Types', NEW m \in Month, Room(m), Load(m)' <= Load(m),
           \A r \in Run : pc'[r] = "approved" <=> pc[r] = "approved",
           \A r \in Run : pc[r] = "approved" => call'[r] = call[r]
    PROVE  Room(m)'
<1>1. Waiting(m)' = Waiting(m) BY DEF Waiting
<1>2. \A r \in Waiting(m) : Cost(r)' = Cost(r) BY DEF Waiting, Cost
<1>3. \A r \in Waiting(m) : Cost(r) \in Nat BY CostType DEF Waiting
<1>4. Load(m) \in Int /\ Load(m)' \in Int BY LoadType, LoadTypeNext
<1> DEFINE k == Cardinality(Waiting(m))
<1>5. k \in Nat BY WaitingCount
<1>6. Ceiling * k \in Int /\ Ceiling * (k - 1) \in Int /\ Bound \in Int BY <1>5, Constants
<1>7. Cardinality(Waiting(m))' = k /\ Bound' = Bound BY <1>1 DEF Bound
<1> HIDE DEF k
<1>8. CASE Load(m) + Ceiling * k <= Bound
  BY <1>1, <1>4, <1>6, <1>7, <1>8 DEF Room
<1>9. ASSUME NEW r \in Waiting(m), Load(m) + Cost(r) + Ceiling * (k - 1) <= Bound
      PROVE  Room(m)'
  <2>1. Load(m)' + Cost(r)' + Ceiling * (k - 1) <= Bound
    BY <1>2, <1>3, <1>4, <1>6, <1>9
  <2> QED BY <1>1, <1>7, <2>1 DEF Room
<1> QED BY <1>8, <1>9 DEF Room, k

\* One joins whose estimate its check found within the cap.
LEMMA RoomJoined ==
    ASSUME Types, Types', NEW m \in Month, NEW p \in Run, pc[p] # "approved",
           pc'[p] = "approved", call' = call, spent' = spent,
           \A r \in Run : r # p => pc'[r] = pc[r],
           call[p].month = m => spent[m] + Cost(p) <= Cap, Room(m)
    PROVE  Room(m)'
<1>1. CASE call[p].month # m
  <2>1. Waiting(m)' = Waiting(m) BY <1>1 DEF Waiting
  <2>2. \A r \in Waiting(m) : Cost(r)' = Cost(r) BY DEF Cost
  <2>3. Cardinality(Waiting(m))' = Cardinality(Waiting(m)) BY <2>1
  <2>4. Busy(m)' = Busy(m) BY <1>1 DEF Busy
  <2>5. Load(m)' = Load(m) BY <2>4 DEF Load, Size, Each
  <2> QED BY <2>1, <2>2, <2>3, <2>5 DEF Room, Bound
<1>2. CASE call[p].month = m
  <2> DEFINE k == Cardinality(Waiting(m))'
             n == Cardinality(Run)
  <2>1. p \in Waiting(m)' BY <1>2 DEF Waiting
  <2>2. Waiting(m)' \subseteq Run BY DEF Waiting
  <2>3. IsFiniteSet(Waiting(m)') /\ k \in Nat /\ k <= n
    BY <2>2, Constants, FS_Subset, FS_CardinalityType
  <2>4. n \in Nat /\ n >= 1 /\ k - 1 <= n - 1 /\ k # 0 BY <2>1, <2>3, Constants, FS_EmptySet
  <2> HIDE DEF k, n
  <2>5. Ceiling * (k - 1) <= (n - 1) * Ceiling /\ Ceiling * (k - 1) \in Int
    BY <2>3, <2>4, Constants
  <2>6. Cost(p)' = Cost(p) /\ Cost(p) \in Nat /\ spent[m] \in Int
    BY CostType DEF Cost, Types
  <2> DEFINE e == Size(Each(Busy(m)'))
  <2>8. e \in Nat /\ e <= Cardinality(Run) * Excess
    <3>1. Busy(m)' \in SUBSET Run BY DEF Busy
    <3> QED BY <3>1, SizeOfEach
  <2>9. Load(m)' = spent[m] + e BY DEF Load, Size, Each
  <2> HIDE DEF e
  <2>7. Load(m)' + Cost(p)' + Ceiling * (k - 1) <= Cap + (n - 1) * Ceiling + n * Excess
    <3>1. (n - 1) * Ceiling \in Int /\ n * Excess \in Int /\ e <= n * Excess
      BY <2>8, Constants DEF n
    <3> QED BY <1>2, <2>5, <2>6, <2>8, <2>9, <3>1, Constants
  <2> QED BY <2>1, <2>7 DEF Room, Bound, k, n
<1> QED BY <1>1, <1>2

\* One leaves, with or without adding its own estimate to the load.
LEMMA RoomLeft ==
    ASSUME Types, Types', NEW m \in Month, NEW p \in Run, pc[p] = "approved",
           pc'[p] # "approved", \A r \in Run : r # p => call'[r] = call[r],
           \A r \in Run : r # p => pc'[r] = pc[r],
           Load(m)' <= Load(m) \/ (call[p].month = m /\ Load(m)' <= Load(m) + Cost(p)),
           Room(m)
    PROVE  Room(m)'
<1>0. \A r \in Run : (r # p => Cost(r)' = Cost(r)) /\ Cost(r) \in Nat /\ Cost(r) <= Ceiling
  BY CostType DEF Cost
<1>00. Load(m) \in Int /\ Load(m)' \in Int /\ Ceiling \in Nat /\ Bound \in Int /\ Bound' = Bound
  BY Constants, LoadType, LoadTypeNext DEF Bound
<1>1. CASE call[p].month # m
  <2>1. /\ \A r \in Run : r # p => (pc'[r] = "approved" <=> pc[r] = "approved")
        /\ Load(m)' <= Load(m) /\ Waiting(m)' = Waiting(m)
    BY <1>1 DEF Waiting
  <2>2. \A r \in Waiting(m) : Cost(r)' = Cost(r) /\ Cost(r) \in Nat BY <1>0, <1>1 DEF Waiting
  <2> DEFINE k == Cardinality(Waiting(m))
  <2>3. Cardinality(Waiting(m))' = k /\ k \in Nat BY <2>1, WaitingCount
  <2> HIDE DEF k
  <2>4. Ceiling * k \in Int /\ Ceiling * (k - 1) \in Int BY <2>3, <1>00
  <2>5. CASE Load(m) + Ceiling * k <= Bound BY <1>00, <2>1, <2>3, <2>4, <2>5 DEF Room
  <2>6. ASSUME NEW r \in Waiting(m), Load(m) + Cost(r) + Ceiling * (k - 1) <= Bound
        PROVE  Room(m)'
    <3>1. Load(m)' + Cost(r)' + Ceiling * (k - 1) <= Bound
      BY <1>00, <2>1, <2>2, <2>4, <2>6
    <3> QED BY <1>00, <2>1, <2>3, <3>1 DEF Room
  <2> QED BY <2>5, <2>6 DEF Room, k
<1>2. CASE call[p].month = m
  <2> DEFINE k == Cardinality(Waiting(m))
             j == Cardinality(Waiting(m))'
  <2>1. p \in Waiting(m) /\ Waiting(m)' = Waiting(m) \ {p} BY <1>2 DEF Waiting
  <2>2. j = k - 1 /\ k \in Nat /\ j \in Nat
    <3>1. IsFiniteSet(Waiting(m)) /\ k \in Nat BY WaitingCount
    <3>2. Cardinality(Waiting(m) \ {p}) = k - 1 BY <2>1, <3>1, FS_RemoveElement
    <3>3. k # 0 BY <2>1, <3>1, FS_EmptySet
    <3> QED BY <2>1, <3>1, <3>2, <3>3
  <2> HIDE DEF k, j
  <2>3. Ceiling * k = Ceiling * j + Ceiling /\ Ceiling * j \in Nat
    <3>1. k = j + 1 BY <2>2
    <3> QED BY <2>2, <3>1, <1>00, OneMore
  <2>4. CASE Load(m) + Ceiling * k <= Bound
    <3>1. Load(m)' + Ceiling * j <= Bound BY <1>0, <1>00, <2>3, <2>4
    <3> QED BY <3>1, <1>00 DEF Room, j
  <2>5. ASSUME NEW q \in Waiting(m), Load(m) + Cost(q) + Ceiling * (k - 1) <= Bound
        PROVE  Room(m)'
    <3>1. q \in Run /\ Load(m) + Cost(q) + Ceiling * j <= Bound
      BY <2>2, <2>5 DEF Waiting
    <3>2. CASE q = p
      <4>1. Load(m)' + Ceiling * j <= Bound BY <1>0, <1>00, <2>3, <3>1, <3>2
      <4> QED BY <4>1, <1>00 DEF Room, j
    <3>3. CASE q # p
      <4>1. q \in Waiting(m)' BY <2>1, <3>3
      <4>2. j # 0
        <5>1. IsFiniteSet(Waiting(m)') BY <2>1, WaitingCount, FS_RemoveElement
        <5> QED BY <4>1, <5>1, FS_EmptySet DEF j
      <4>3. j - 1 \in Nat /\ j = (j - 1) + 1 BY <2>2, <4>2
      <4>4. Ceiling * j = Ceiling * (j - 1) + Ceiling /\ Ceiling * (j - 1) \in Nat
        BY <4>3, <1>00, OneMore
      <4>5. Load(m)' + Cost(q)' + Ceiling * (j - 1) <= Bound
        <5>1. Cost(q)' = Cost(q) /\ Cost(q) \in Nat BY <1>0, <3>1, <3>3
        <5>2. Load(m)' <= Load(m) + Ceiling
          <6>1. Cost(p) \in Nat /\ Cost(p) <= Ceiling BY <1>0
          <6> QED BY <1>00, <6>1
        <5> HIDE DEF j
        <5> QED BY <1>00, <3>1, <4>4, <5>1, <5>2
      <4> QED BY <4>1, <4>5, <1>00 DEF Room, j
    <3> QED BY <3>2, <3>3
  <2> QED BY <2>4, <2>5 DEF Room, k
<1> QED BY <1>1, <1>2

-----------------------------------------------------------------------------
(* How a step changes the books of a month *)

LEMMA BookWeights ==
    Types /\ Stamped => \A m \in Month : Held(m) \in Weights /\ Slack(m) \in Weights
<1> SUFFICES ASSUME Types, Stamped, NEW m \in Month
             PROVE  Held(m) \in Weights /\ Slack(m) \in Weights
  OBVIOUS
<1>1. ASSUME NEW r \in Run
      PROVE  /\ Cost(r) \in 0 .. Top /\ 0 \in 0 .. Top
             /\ Cost(r) + Excess - call[r].used \in 0 .. Top
  <2>1. Cost(r) \in Nat /\ Cost(r) <= Ceiling /\ call[r] \in Call BY CostType
  <2>2. call[r].used \in Nat /\ call[r].used <= Cost(r) + Excess BY <2>1 DEF Call, Stamped
  <2> QED BY <2>1, <2>2, Constants
<1>2. Held(m) \in Weights BY <1>1 DEF Held, Weights
<1>3. Slack(m) \in Weights BY <1>1 DEF Slack, Weights
<1> QED BY <1>2, <1>3

LEMMA BookWeightsNext ==
    (Types /\ Stamped => \A m \in Month : Held(m) \in Weights /\ Slack(m) \in Weights)'
BY BookWeights, PTL

\* A history counts one more, or does not.
LEMMA UnseenChanges ==
    ASSUME Types, Types', NEW m \in Month
    PROVE  /\ Unseen(m) \in Nat /\ Unseen(m)' \in Nat
           /\ blind'[m] = blind[m] /\ free'[m] = free[m] => Unseen(m)' = Unseen(m)
           /\ blind'[m] = blind[m] + 1 /\ free'[m] = free[m] => Unseen(m)' = Unseen(m) + Excess
           /\ blind'[m] = blind[m] /\ free'[m] = free[m] + 1 => Unseen(m)' = Unseen(m) + Top
<1> DEFINE a == blind[m]
           b == free[m]
<1>1. /\ a \in Nat /\ b \in Nat /\ blind'[m] \in Nat /\ free'[m] \in Nat
      /\ Excess \in Nat /\ Top \in Nat
  BY Constants DEF Types
<1>2. Unseen(m) = Excess * a + Top * b /\ Unseen(m)' = Excess * blind'[m] + Top * free'[m]
  BY DEF Unseen
<1>3. Excess * a \in Nat /\ Top * b \in Nat /\ Excess * blind'[m] \in Nat /\ Top * free'[m] \in Nat
  <2> HIDE DEF a, b
  <2> QED BY <1>1, OneMore
<1>4. Excess * (a + 1) = Excess * a + Excess /\ Top * (b + 1) = Top * b + Top
  <2> HIDE DEF a, b
  <2> QED BY <1>1, OneMore
<1>5. ASSUME blind'[m] = a + 1, free'[m] = b PROVE Unseen(m)' = Unseen(m) + Excess
  <2>1. Unseen(m)' = Excess * a + Excess + Top * b BY <1>2, <1>4, <1>5
  <2> QED BY <1>1, <1>2, <1>3, <2>1
<1>6. ASSUME blind'[m] = a, free'[m] = b + 1 PROVE Unseen(m)' = Unseen(m) + Top
  <2>1. Unseen(m)' = Excess * a + (Top * b + Top) BY <1>2, <1>4, <1>6
  <2> QED BY <1>1, <1>2, <1>3, <2>1
<1>7. ASSUME blind'[m] = a, free'[m] = b PROVE Unseen(m)' = Unseen(m) BY <1>2, <1>7
<1>8. Unseen(m) \in Nat /\ Unseen(m)' \in Nat BY <1>2, <1>3
<1> QED BY <1>5, <1>6, <1>7, <1>8 DEF a, b

\* One invocation moves, and the spend keeps up with what its row holds.
LEMMA BackedByStep ==
    ASSUME Types, Types', Stamped, Stamped', NEW m \in Month, NEW p \in Run,
           \A q \in Run : q # p => pc'[q] = pc[q] /\ call'[q] = call[q],
           Spare(m, p) <= Spare(m, p)', Size(Held(m)) <= spent[m]
    PROVE  Size(Held(m)') <= spent'[m]
<1>1. Held(m) \in Weights /\ Held(m)' \in Weights
  BY BookWeights, BookWeightsNext DEF Month, Weights
<1>2. \A q \in Run : q # p => Held(m)'[q] = Held(m)[q] BY DEF Held, Written, Cost
<1>3. /\ Size(Held(m)') = Size(Held(m)) - Held(m)[p] + Held(m)'[p]
      /\ Size(Held(m)) \in Nat
  BY <1>1, <1>2, SizeChanges
<1>4. /\ spent[m] \in Int /\ spent'[m] \in Int /\ Held(m)[p] \in Int /\ Held(m)'[p] \in Int
  BY <1>1, Constants DEF Types, Weights
<1>5. spent[m] - Held(m)[p] <= spent'[m] - Held(m)'[p] BY DEF Spare
<1> QED BY <1>3, <1>4, <1>5

\* One invocation moves, and the spend keeps up with its charges too.
LEMMA CoveredByStep ==
    ASSUME Types, Types', Stamped, Stamped', NEW m \in Month, NEW p \in Run,
           \A q \in Run : q # p => pc'[q] = pc[q] /\ call'[q] = call[q],
           Left(m, p) <= Left(m, p)',
           bill[m] + Size(Slack(m)) <= spent[m] + Size(Each(Pending(m))) + Unseen(m)
    PROVE  bill'[m] + Size(Slack(m)') <= spent'[m] + Size(Each(Pending(m)')) + Unseen(m)'
<1>1. Slack(m) \in Weights /\ Slack(m)' \in Weights
  BY BookWeights, BookWeightsNext DEF Month, Weights
<1>2. \A q \in Run : q # p => Slack(m)'[q] = Slack(m)[q]
  BY DEF Slack, Written, Pending, Cost
<1>3. /\ Size(Slack(m)') = Size(Slack(m)) - Slack(m)[p] + Slack(m)'[p]
      /\ Size(Slack(m)) \in Nat
  BY <1>1, <1>2, SizeChanges
<1>4. /\ Pending(m) \in SUBSET Run /\ Pending(m)' \in SUBSET Run
      /\ \A q \in Run : q # p => (q \in Pending(m)' <=> q \in Pending(m))
  BY DEF Pending
<1> DEFINE S == Pending(m)
           T == Pending(m)'
<1>5. Size(Each(T)) = Size(Each(S)) - Each(S)[p] + Each(T)[p] BY <1>4, EachChanges
<1>6. Size(Each(S)) \in Nat /\ Each(S)[p] \in Int /\ Each(T)[p] \in Int
  <2> HIDE DEF S, T
  <2>1. /\ Each(S) \in Weights /\ Each(T) \in Weights /\ Size(Each(S)) \in Nat
    BY <1>4, SizeOfEach DEF S, T
  <2> QED BY <2>1, Constants DEF Weights
<1>7. /\ spent[m] \in Int /\ spent'[m] \in Int /\ bill[m] \in Int /\ bill'[m] \in Int
      /\ Slack(m)[p] \in Int /\ Slack(m)'[p] \in Int /\ Unseen(m) \in Int /\ Unseen(m)' \in Int
  BY <1>1, Constants, UnseenChanges DEF Types, Weights
<1>8. spent[m] + Each(S)[p] + Unseen(m) - bill[m] - Slack(m)[p]
          <= spent'[m] + Each(T)[p] + Unseen(m)' - bill'[m] - Slack(m)'[p]
  <2>1. Each(S)'[p] = Each(T)[p] BY DEF Each
  <2> QED BY <2>1 DEF Left
<1> HIDE DEF S, T
<1>9. bill'[m] + Size(Slack(m)') <= spent'[m] + Size(Each(T)) + Unseen(m)'
  <2>1. bill[m] + Size(Slack(m)) <= spent[m] + Size(Each(S)) + Unseen(m) BY DEF S
  <2> QED BY <1>3, <1>5, <1>6, <1>7, <1>8, <2>1
<1> QED BY <1>9 DEF T

\* One invocation moves, and the load grows as its own part does.
LEMMA LoadByStep ==
    ASSUME Types, Types', NEW m \in Month, NEW p \in Run, NEW d \in Nat,
           \A q \in Run : q # p => pc'[q] = pc[q] /\ call'[q] = call[q],
           Own(m, p)' <= Own(m, p) + d
    PROVE  Load(m)' <= Load(m) + d
<1> DEFINE S == Busy(m)
           T == Busy(m)'
<1>1. /\ S \in SUBSET Run /\ T \in SUBSET Run
      /\ \A q \in Run : q # p => (q \in T <=> q \in S)
  BY DEF Busy
<1> HIDE DEF S, T
<1>2. Size(Each(T)) = Size(Each(S)) - Each(S)[p] + Each(T)[p] BY <1>1, EachChanges
<1>3. Size(Each(S)) \in Nat /\ Each(S)[p] \in Int /\ Each(T)[p] \in Int
  <2>1. /\ Each(S) \in Weights /\ Each(T) \in Weights /\ Size(Each(S)) \in Nat
    BY <1>1, SizeOfEach
  <2> QED BY <2>1, Constants DEF Weights
<1>4. spent[m] \in Int /\ spent'[m] \in Int BY DEF Types
<1>5. spent'[m] + Each(T)[p] <= spent[m] + Each(S)[p] + d BY DEF Own, Each, S, T
<1>6. Load(m) = spent[m] + Size(Each(S)) /\ Load(m)' = spent'[m] + Size(Each(T))
  BY DEF Load, Size, Each, S, T
<1> QED BY <1>2, <1>3, <1>4, <1>5, <1>6

-----------------------------------------------------------------------------
(* Every step keeps the invariant *)

LEMMA TypesStep == ASSUME Types, [Next]_vars PROVE Types'
<1>0. ASSUME NEW r \in Run PROVE [call EXCEPT ![r] = NoCall] \in [Run -> Call]
  BY NoCallType DEF Types
<1>00. ASSUME NEW r \in Run
       PROVE  call[r].month \in Month /\ Count(blind, r) \in [Month -> Nat]
  <2>1. call[r].month \in Month BY CostType DEF Call
  <2> QED BY <2>1 DEF Count, Types
<1>1. ASSUME NEW r \in Run, Begin(r) PROVE Types'
  BY <1>1 DEF Begin, Move, Types, Place, charged
<1>2. ASSUME NEW r \in Run, NEW x \in Packet, Miss(r, x) PROVE Types'
  <2>1. [NoCall EXCEPT !.packet = x, !.month = month] \in Call
    BY NoCallType DEF Types, Call
  <2> QED BY <1>2, <2>1 DEF Miss, Move, Types, Place, charged
<1>3. ASSUME NEW r \in Run, Approve(r) \/ Refuse(r) \/ Discard(r) \/ Put(r) PROVE Types'
  <2>1. call[r].packet \in Packet BY CostType DEF Call
  <2> QED BY <1>0, <1>3, <2>1
          DEF Approve, Refuse, Discard, Put, Return, Move, Types, Place, charged
<1>4. ASSUME NEW r \in Run, Dispatch(r) PROVE Types'
  <2>1. call[r].month \in Month /\ Cost(r) \in Nat BY CostType DEF Call
  <2> QED BY <1>4, <2>1 DEF Dispatch, Move, Types, Place, charged
<1>5. ASSUME NEW r \in Run, NEW x \in Packet, NEW u \in Usage[x], Infer(r, u) \/ Orphaned(r, u)
      PROVE  Types'
  <2>1. u \in Nat /\ call[r] \in Call BY Constants, CostType
  <2>2. [call[r] EXCEPT !.used = u] \in Call BY <2>1 DEF Call
  <2>3. \/ call' = [call EXCEPT ![r] = [call[r] EXCEPT !.used = u]]
        \/ call' = [call EXCEPT ![r] = NoCall]
    BY <1>5 DEF Infer, Orphaned, Return
  <2>4. call' \in [Run -> Call] BY <1>0, <2>2, <2>3 DEF Types
  <2>5. bill' \in [Month -> Nat]
    <3>1. bill' = [bill EXCEPT ![call[r].month] = bill[call[r].month] + u]
      BY <1>5 DEF Infer, Orphaned
    <3> QED BY <1>00, <2>1, <3>1 DEF Types
  <2>6. blind' \in [Month -> Nat] BY <1>00, <1>5 DEF Infer, Orphaned, Types
  <2> QED BY <1>5, <2>4, <2>5, <2>6 DEF Infer, Orphaned, Move, Types, Place
<1>6. ASSUME NEW r \in Run, RejectedBeforeInference(r) \/ Answered(r) PROVE Types'
  <2>1. call[r] \in Call BY CostType
  <2>2. PICK b \in {"usage", "nothing"} :
            call' = [call EXCEPT ![r] = [call[r] EXCEPT !.basis = b]]
    BY <1>6 DEF RejectedBeforeInference, Answered
  <2>3. [call[r] EXCEPT !.basis = b] \in Call BY <2>1 DEF Call
  <2>4. call' \in [Run -> Call] BY <2>2, <2>3 DEF Types
  <2> QED BY <1>6, <2>4 DEF RejectedBeforeInference, Answered, Move, Types, Place, charged
<1>7. ASSUME NEW r \in Run, Unanswered(r) \/ Unreported(r) PROVE Types'
  <2>1. blind' \in [Month -> Nat] BY <1>00, <1>7 DEF Unanswered, Unreported, Types
  <2>2. sent' \in [Run -> Nat] BY <1>7 DEF Unanswered, Unreported, Types
  <2>3. pc' \in [Run -> Place] BY <1>7 DEF Unanswered, Unreported, Move, Types, Place
  <2> QED BY <1>7, <2>1, <2>2, <2>3 DEF Unanswered, Unreported, Types
<1>8. ASSUME NEW r \in Run, Breach(r) PROVE Types'
  <2>1. call[r] \in Call BY CostType
  <2>2. call' = [call EXCEPT ![r] = [call[r] EXCEPT !.basis = "nothing"]] BY <1>8 DEF Breach
  <2>3. [call[r] EXCEPT !.basis = "nothing"] \in Call BY <2>1 DEF Call
  <2>4. call' \in [Run -> Call] BY <2>2, <2>3 DEF Types
  <2>5. free' \in [Month -> 0 .. Breaches]
    <3>1. free' = [free EXCEPT ![call[r].month] = free[call[r].month] + 1]
      BY <1>8 DEF Breach, Count
    <3>2. free[call[r].month] + 1 \in 0 .. Breaches
      BY <1>00, <1>8, Constants DEF Breach, Types
    <3> QED BY <1>00, <3>1, <3>2 DEF Types
  <2> QED BY <1>8, <2>4, <2>5 DEF Breach, Move, Types, Place
<1>9. ASSUME NEW r \in Run, Settle(r) PROVE Types'
  <2>1. Cost(r) \in Nat /\ Billed(r) \in Nat BY CostType DEF Call, Billed
  <2> QED BY <1>0, <1>00, <1>9, <2>1 DEF Settle, Return, Move, Types, Place, charged
<1>10. ASSUME NEW r \in Run, End(r) PROVE Types'
  BY <1>0, <1>00, <1>10 DEF End, Return, Types, Place
<1>11. CASE NextMonth
  <2>1. month + 1 \in Month BY <1>11, BudgetAssumption DEF NextMonth, Types, Month
  <2> QED BY <1>11, <2>1 DEF NextMonth, Types, charged
<1>12. CASE UNCHANGED vars BY <1>12 DEF vars, Types
<1> QED BY <1>1, <1>2, <1>3, <1>4, <1>5, <1>6, <1>7, <1>8, <1>9, <1>10, <1>11, <1>12 DEF Next

LEMMA CountedStep == ASSUME Types, Counted, [Next]_vars PROVE Counted'
<1>0. /\ pc \in [Run -> Place] /\ made \in [Run -> Nat] /\ sent \in [Run -> Nat] /\ Calls \in Nat
  BY Constants DEF Types
<1>1. ASSUME NEW r \in Run, Begin(r) PROVE Counted' BY <1>0, <1>1 DEF Begin, Move, Counted
<1>2. ASSUME NEW r \in Run, Approve(r) PROVE Counted'
  BY <1>0, <1>2 DEF Approve, Allowed, Move, Counted
<1>3. ASSUME NEW r \in Run, Dispatch(r) PROVE Counted' BY <1>0, <1>3 DEF Dispatch, Move, Counted
<1>4. ASSUME NEW r \in Run, RejectedBeforeInference(r) PROVE Counted'
  BY <1>0, <1>4 DEF RejectedBeforeInference, Move, Counted
<1>5. ASSUME NEW r \in Run, Unanswered(r) PROVE Counted' BY <1>0, <1>5 DEF Unanswered, Counted
<1>6. ASSUME NEW r \in Run,
             \/ Refuse(r) \/ Answered(r) \/ Unreported(r) \/ Breach(r)
             \/ Discard(r) \/ Put(r) \/ Settle(r) \/ End(r)
      PROVE  Counted'
  BY <1>0, <1>6 DEF Refuse, Answered, Unreported, Breach, Discard, Put, Settle, End, Move, Counted
<1>7. ASSUME NEW r \in Run, NEW x \in Packet, Miss(r, x) PROVE Counted'
  BY <1>0, <1>7 DEF Miss, Move, Counted
<1>8. ASSUME NEW r \in Run, NEW x \in Packet, NEW u \in Usage[x], Infer(r, u) \/ Orphaned(r, u)
      PROVE  Counted'
  BY <1>0, <1>8 DEF Infer, Orphaned, Move, Counted
<1>9. CASE NextMonth BY <1>9 DEF NextMonth, Counted
<1>10. CASE UNCHANGED vars BY <1>10 DEF vars, Counted
<1> QED BY <1>1, <1>2, <1>3, <1>4, <1>5, <1>6, <1>7, <1>8, <1>9, <1>10 DEF Next

LEMMA StampedStep == ASSUME Types, Stamped, [Next]_vars PROVE Stamped'
<1>0. pc \in [Run -> Place] /\ call \in [Run -> Call] BY DEF Types
<1> DEFINE Early == {"check", "approved", "sent", "inferred"}
\* It is enough to look at the invocation that moves.
<1>1. ASSUME NEW r \in Run, \A q \in Run : q # r => pc'[q] = pc[q] /\ call'[q] = call[q],
             call'[r].used <= Cost(r)' + Excess,
             pc'[r] \in Early => call'[r].basis = "estimate"
      PROVE  Stamped'
  BY <1>1 DEF Stamped, Cost
<1>2. ASSUME NEW r \in Run, Begin(r) \/ Approve(r) \/ Dispatch(r) \/ Unreported(r)
                            \/ Discard(r) \/ Put(r) \/ Unanswered(r)
      PROVE  Stamped'
  <2>1. call' = call /\ \A q \in Run : q # r => pc'[q] = pc[q]
    BY <1>0, <1>2 DEF Begin, Approve, Dispatch, Unreported, Discard, Put, Unanswered, Move
  <2>2. pc'[r] \in Early => pc[r] \in Early
    BY <1>0, <1>2 DEF Begin, Approve, Dispatch, Unreported, Discard, Put, Unanswered, Move
  <2>3. call[r].used <= Cost(r) + Excess /\ Cost(r)' = Cost(r) BY <2>1 DEF Stamped, Cost
  <2> QED BY <1>1, <2>1, <2>2, <2>3 DEF Stamped
<1>3. ASSUME NEW r \in Run, NEW c \in Call, call' = [call EXCEPT ![r] = c],
             c.used = 0, c.basis = "estimate", \A q \in Run : q # r => pc'[q] = pc[q]
      PROVE  Stamped'
  <2>1. call'[r] = c /\ \A q \in Run : q # r => call'[q] = call[q] BY <1>0, <1>3
  <2>2. Cost(r)' = Estimate[c.packet] BY <2>1 DEF Cost
  <2>3. Estimate[c.packet] \in Nat /\ Excess \in Nat BY Constants DEF Call
  <2> QED BY <1>1, <1>3, <2>1, <2>2, <2>3
<1>4. ASSUME NEW r \in Run, Refuse(r) \/ Settle(r) \/ End(r) PROVE Stamped'
  <2>1. call' = [call EXCEPT ![r] = NoCall] BY <1>4 DEF Refuse, Settle, End, Return
  <2>2. \A q \in Run : q # r => pc'[q] = pc[q] BY <1>0, <1>4 DEF Refuse, Settle, End, Move
  <2> QED BY <1>3, <2>1, <2>2, NoCallType
<1>5. ASSUME NEW r \in Run, NEW x \in Packet, Miss(r, x) PROVE Stamped'
  <2> DEFINE c == [NoCall EXCEPT !.packet = x, !.month = month]
  <2>1. c \in Call /\ c.used = 0 /\ c.basis = "estimate" BY NoCallType DEF Types, Call
  <2>2. call' = [call EXCEPT ![r] = c] BY <1>5 DEF Miss
  <2>3. \A q \in Run : q # r => pc'[q] = pc[q] BY <1>0, <1>5 DEF Miss, Move
  <2> HIDE DEF c
  <2> QED BY <1>3, <2>1, <2>2, <2>3
<1>6. ASSUME NEW r \in Run, NEW x \in Packet, NEW u \in Usage[x], Infer(r, u) PROVE Stamped'
  <2>1. call[r] \in Call /\ call[r].packet \in Packet BY <1>0 DEF Call
  <2>2. /\ call'[r].basis = call[r].basis /\ call'[r].packet = call[r].packet
        /\ call'[r].used = u
    BY <1>0, <1>6, <2>1 DEF Infer, Call
  <2>3. pc[r] = "sent" /\ \A q \in Run : q # r => pc'[q] = pc[q] /\ call'[q] = call[q]
    BY <1>0, <1>6 DEF Infer, Move
  <2>4. u <= Cost(r)' + Excess BY <1>6, <2>1, <2>2, Constants DEF Infer, Cost
  <2> QED BY <1>1, <2>2, <2>3, <2>4 DEF Stamped
<1>7. ASSUME NEW r \in Run, RejectedBeforeInference(r) \/ Answered(r) \/ Breach(r) PROVE Stamped'
  <2>1. pc'[r] \in {"settle", "answered"} /\
        \A q \in Run : q # r => pc'[q] = pc[q] /\ call'[q] = call[q]
    BY <1>0, <1>7 DEF RejectedBeforeInference, Answered, Breach, Move
  <2>2. call[r] \in Call BY <1>0
  <2>3. call'[r].used = call[r].used /\ call'[r].packet = call[r].packet
    BY <1>0, <1>7, <2>2 DEF RejectedBeforeInference, Answered, Breach, Call
  <2>4. call'[r].used <= Cost(r)' + Excess BY <2>3 DEF Stamped, Cost
  <2> QED BY <1>1, <2>1, <2>4
<1>8. ASSUME NEW r \in Run, NEW x \in Packet, NEW u \in Usage[x], Orphaned(r, u) PROVE Stamped'
  <2>1. call' = [call EXCEPT ![r] = NoCall] BY <1>8 DEF Orphaned, Return
  <2>2. \A q \in Run : q # r => pc'[q] = pc[q] BY <1>0, <1>8 DEF Orphaned, Move
  <2> QED BY <1>3, <2>1, <2>2, NoCallType
<1>9. CASE NextMonth BY <1>9 DEF NextMonth, Stamped, Cost
<1>10. CASE UNCHANGED vars BY <1>10 DEF vars, Stamped, Cost
<1> QED BY <1>2, <1>4, <1>5, <1>6, <1>7, <1>8, <1>9, <1>10 DEF Next

\* The invocation that moves changes the spend, the charges and its own row in
\* step.
LEMMA BooksOfStep ==
    ASSUME Types, Types', Stamped, NEW m \in Month, NEW p \in Run, Moves(p)
    PROVE  /\ \A q \in Run : q # p => pc'[q] = pc[q] /\ call'[q] = call[q]
           /\ Spare(m, p) <= Spare(m, p)' /\ Left(m, p) <= Left(m, p)'
           /\ ~Approve(p) /\ ~Dispatch(p) => Own(m, p)' <= Own(m, p)
<1> DEFINE Kept == /\ Spare(m, p) <= Spare(m, p)' /\ Left(m, p) <= Left(m, p)'
                   /\ Own(m, p)' <= Own(m, p)
<1> USE DEF Spare, Left, Own, Held, Slack, Written, Pending, Busy, Each
<1>0. /\ pc \in [Run -> Place] /\ call \in [Run -> Call] /\ spent \in [Month -> Int]
      /\ bill \in [Month -> Nat] /\ blind \in [Month -> Nat] /\ free \in [Month -> 0 .. Breaches]
      /\ spent[m] \in Int /\ bill[m] \in Nat /\ spent'[m] \in Int /\ bill'[m] \in Nat
  BY DEF Types
<1>1. /\ call[p] \in Call /\ call[p].month \in Month /\ call[p].used \in Nat
      /\ call[p].packet \in Packet /\ Cost(p) \in Nat /\ Cost(p) <= Ceiling /\ Cost(p)' \in Nat
      /\ call[p].used <= Cost(p) + Excess /\ call'[p].used \in Nat
      /\ Excess \in Nat /\ Ceiling \in Nat /\ Top = Ceiling + Excess
  <2>1. call'[p] \in Call /\ call'[p].packet \in Packet /\ call'[p].used \in Nat
    BY DEF Types, Call
  <2>2. Cost(p)' \in Nat BY <2>1, Constants DEF Cost
  <2> QED BY <1>0, <2>1, <2>2, CostType, Constants DEF Call, Stamped
<1>2. /\ Unseen(m) \in Nat /\ Unseen(m)' \in Nat
      /\ blind'[m] = blind[m] /\ free'[m] = free[m] => Unseen(m)' = Unseen(m)
      /\ blind'[m] = blind[m] + 1 /\ free'[m] = free[m] => Unseen(m)' = Unseen(m) + Excess
      /\ blind'[m] = blind[m] /\ free'[m] = free[m] + 1 => Unseen(m)' = Unseen(m) + Top
  BY UnseenChanges
<1>3. \A q \in Run : q # p => pc'[q] = pc[q] /\ call'[q] = call[q]
  BY <1>0 DEF Moves, Begin, Approve, Refuse, Dispatch, RejectedBeforeInference, Unanswered,
     Answered, Unreported, Breach, Discard, Put, Settle, End, Miss, Infer, Orphaned, Return, Move
<1>4. Count(blind, p)[m] = IF call[p].month = m THEN blind[m] + 1 ELSE blind[m]
  BY <1>0, <1>1 DEF Count
<1>5. Count(free, p)[m] = IF call[p].month = m THEN free[m] + 1 ELSE free[m]
  BY <1>0, <1>1 DEF Count
<1>6. CASE Begin(p) \/ Refuse(p) \/ (\E x \in Packet : Miss(p, x))
  <2>1. pc[p] \in {"off", "ready", "check"} /\ pc'[p] \in {"ready", "check"}
    BY <1>0, <1>6 DEF Begin, Refuse, Miss, Move
  <2>2. /\ spent' = spent /\ bill' = bill /\ Unseen(m)' = Unseen(m)
    BY <1>2, <1>6 DEF Begin, Refuse, Miss, charged
  <2>3. Kept BY <1>0, <1>2, <2>1, <2>2
  <2> QED BY <1>3, <2>3
<1>7. CASE Approve(p)
  <2>1. pc[p] = "check" /\ pc'[p] = "approved" BY <1>0, <1>7 DEF Approve, Move
  <2>2. /\ spent' = spent /\ bill' = bill /\ Unseen(m)' = Unseen(m)
    BY <1>2, <1>7 DEF Approve, charged
  <2> QED BY <1>0, <1>2, <1>3, <1>7, <2>1, <2>2
<1>8. CASE Dispatch(p)
  <2>1. pc[p] = "approved" /\ pc'[p] = "sent" /\ call' = call /\ bill' = bill
    BY <1>0, <1>8 DEF Dispatch, Move, charged
  <2>2. spent'[m] = IF call[p].month = m THEN spent[m] + Cost(p) ELSE spent[m]
    BY <1>0, <1>1, <1>8 DEF Dispatch
  <2>3. Cost(p)' = Cost(p) /\ Unseen(m)' = Unseen(m)
    BY <1>2, <1>8, <2>1 DEF Cost, Dispatch, charged
  <2>4. Spare(m, p) <= Spare(m, p)' /\ Left(m, p) <= Left(m, p)'
    BY <1>0, <1>1, <1>2, <2>1, <2>2, <2>3
  <2> QED BY <1>3, <1>8, <2>4
<1>9. ASSUME NEW x \in Packet, NEW u \in Usage[x], Infer(p, u) PROVE Kept
  <2>1. /\ pc[p] = "sent" /\ pc'[p] = "inferred" /\ spent' = spent
        /\ call[p].basis = "estimate"
    BY <1>0, <1>9 DEF Infer, Move, Stamped
  <2>2. /\ call'[p].month = call[p].month /\ call'[p].packet = call[p].packet
        /\ call'[p].used = u /\ call'[p].basis = "estimate"
    BY <1>0, <1>1, <1>9, <2>1 DEF Infer, Call
  <2>3. Cost(p)' = Cost(p) /\ Unseen(m)' = Unseen(m) BY <1>2, <1>9, <2>2 DEF Cost, Infer
  <2>4. u \in Nat BY Constants
  <2>5. bill'[m] = IF call[p].month = m THEN bill[m] + u ELSE bill[m]
    BY <1>0, <1>9 DEF Infer
  <2> QED BY <1>0, <1>1, <1>2, <2>1, <2>2, <2>3, <2>4, <2>5
<1>10. CASE RejectedBeforeInference(p)
  <2>1. pc[p] = "sent" /\ pc'[p] = "settle" /\ spent' = spent /\ bill' = bill
    BY <1>0, <1>10 DEF RejectedBeforeInference, Move, charged
  <2>2. /\ call'[p].month = call[p].month /\ call'[p].packet = call[p].packet
        /\ call'[p].basis = "nothing"
    BY <1>0, <1>1, <1>10 DEF RejectedBeforeInference, Call
  <2>3. Cost(p)' = Cost(p) /\ Unseen(m)' = Unseen(m)
    BY <1>2, <1>10, <2>2 DEF Cost, RejectedBeforeInference, charged
  <2>4. Kept BY <1>0, <1>1, <1>2, <2>1, <2>2, <2>3
  <2> QED BY <1>3, <2>4
<1>11. CASE Unanswered(p)
  <2>1. /\ pc[p] \in {"sent", "inferred"} /\ pc'[p] = "settle" /\ spent' = spent
        /\ bill' = bill /\ call' = call /\ call[p].basis = "estimate"
    BY <1>0, <1>11 DEF Unanswered, Stamped
  <2>2. Cost(p)' = Cost(p) BY <2>1 DEF Cost
  <2>3. Unseen(m)' = IF pc[p] = "inferred" /\ call[p].month = m
                     THEN Unseen(m) + Excess ELSE Unseen(m)
    BY <1>2, <1>4, <1>11 DEF Unanswered
  <2>4. Kept BY <1>0, <1>1, <1>2, <2>1, <2>2, <2>3
  <2> QED BY <1>3, <2>4
<1>12. CASE Answered(p)
  <2>1. pc[p] = "inferred" /\ pc'[p] = "answered" /\ spent' = spent /\ bill' = bill
    BY <1>0, <1>12 DEF Answered, Move, charged
  <2>2. /\ call'[p].month = call[p].month /\ call'[p].packet = call[p].packet
        /\ call'[p].basis = "usage" /\ call'[p].used = call[p].used
    BY <1>0, <1>1, <1>12 DEF Answered, Call
  <2>3. Cost(p)' = Cost(p) /\ Unseen(m)' = Unseen(m)
    BY <1>2, <1>12, <2>2 DEF Cost, Answered, charged
  <2>4. Kept BY <1>0, <1>1, <1>2, <2>1, <2>2, <2>3
  <2> QED BY <1>3, <2>4
<1>13. CASE Unreported(p)
  <2>1. /\ pc[p] = "inferred" /\ pc'[p] = "answered" /\ spent' = spent /\ bill' = bill
        /\ call' = call /\ call[p].basis = "estimate"
    BY <1>0, <1>13 DEF Unreported, Move, Stamped
  <2>2. Cost(p)' = Cost(p) BY <2>1 DEF Cost
  <2>3. Unseen(m)' = IF call[p].month = m THEN Unseen(m) + Excess ELSE Unseen(m)
    BY <1>2, <1>4, <1>13 DEF Unreported
  <2>4. Kept BY <1>0, <1>1, <1>2, <2>1, <2>2, <2>3
  <2> QED BY <1>3, <2>4
<1>14. CASE Breach(p)
  <2>1. pc[p] = "inferred" /\ pc'[p] = "settle" /\ spent' = spent /\ bill' = bill
    BY <1>0, <1>14 DEF Breach, Move
  <2>2. /\ call'[p].month = call[p].month /\ call'[p].packet = call[p].packet
        /\ call'[p].basis = "nothing"
    BY <1>0, <1>1, <1>14 DEF Breach, Call
  <2>3. Cost(p)' = Cost(p) BY <2>2 DEF Cost
  <2>4. Unseen(m)' = IF call[p].month = m THEN Unseen(m) + Top ELSE Unseen(m)
    BY <1>2, <1>5, <1>14 DEF Breach
  <2>5. Kept BY <1>0, <1>1, <1>2, <2>1, <2>2, <2>3, <2>4
  <2> QED BY <1>3, <2>5
<1>15. CASE Discard(p) \/ Put(p)
  <2>1. /\ pc[p] = "answered" /\ pc'[p] = "settle" /\ spent' = spent /\ bill' = bill
        /\ call' = call
    BY <1>0, <1>15 DEF Discard, Put, Move, charged
  <2>2. Cost(p)' = Cost(p) /\ Unseen(m)' = Unseen(m)
    BY <1>2, <1>15, <2>1 DEF Cost, Discard, Put, charged
  <2>3. Kept BY <1>0, <1>1, <1>2, <2>1, <2>2
  <2> QED BY <1>3, <2>3
<1>16. CASE Settle(p)
  <2>1. pc[p] = "settle" /\ pc'[p] = "ready" /\ bill' = bill
    BY <1>0, <1>16 DEF Settle, Move, charged
  <2>2. Billed(p) \in Nat /\ (call[p].basis = "usage" => Billed(p) = call[p].used)
        /\ (call[p].basis = "nothing" => Billed(p) = 0)
        /\ (call[p].basis \notin {"usage", "nothing"} => Billed(p) = Cost(p))
    BY <1>1 DEF Billed
  <2>3. spent'[m] = IF call[p].month = m THEN spent[m] - Cost(p) + Billed(p) ELSE spent[m]
    BY <1>0, <1>1, <1>16 DEF Settle
  <2>4. Unseen(m)' = Unseen(m) BY <1>2, <1>16 DEF Settle, charged
  <2>5. Kept BY <1>0, <1>1, <1>2, <2>1, <2>2, <2>3, <2>4
  <2> QED BY <1>3, <2>5
<1>17. CASE End(p)
  <2>1. pc'[p] = "off" /\ spent' = spent /\ bill' = bill BY <1>0, <1>17 DEF End
  <2>2. Unseen(m)' = IF p \in Pending(m) THEN Unseen(m) + Excess ELSE Unseen(m)
    BY <1>2, <1>4, <1>17 DEF End
  <2>3. Kept BY <1>0, <1>1, <1>2, <2>1, <2>2
  <2> QED BY <1>3, <2>3
<1>18. ASSUME NEW x \in Packet, NEW u \in Usage[x], Orphaned(p, u) PROVE Kept
  <2>1. pc[p] = "sent" /\ pc'[p] = "off" /\ spent' = spent BY <1>0, <1>18 DEF Orphaned, Move
  <2>2. u \in Nat /\ u <= Cost(p) + Excess
    BY <1>1, <1>18, Constants DEF Orphaned, Cost
  <2>3. bill'[m] = IF call[p].month = m THEN bill[m] + u ELSE bill[m]
    BY <1>0, <1>18 DEF Orphaned
  <2>4. Unseen(m)' = IF call[p].month = m THEN Unseen(m) + Excess ELSE Unseen(m)
    BY <1>2, <1>4, <1>18 DEF Orphaned
  <2> QED BY <1>0, <1>1, <1>2, <2>1, <2>2, <2>3, <2>4
<1> QED BY <1>3, <1>6, <1>7, <1>8, <1>9, <1>10, <1>11, <1>12, <1>13, <1>14, <1>15, <1>16, <1>17,
           <1>18 DEF Moves

LEMMA BooksStep ==
    ASSUME Types, Types', Stamped, Stamped', Backed, Covered, [Next]_vars
    PROVE  Backed' /\ Covered'
<1> SUFFICES ASSUME NEW m \in Month
             PROVE  /\ Size(Held(m)') <= spent'[m]
                    /\ bill'[m] + Size(Slack(m)')
                           <= spent'[m] + Size(Each(Pending(m)')) + Unseen(m)'
  BY DEF Backed, Covered, Size, Each
<1>1. ASSUME pc' = pc, call' = call, spent' = spent, bill' = bill, blind' = blind, free' = free
      PROVE  /\ Size(Held(m)') <= spent'[m]
             /\ bill'[m] + Size(Slack(m)') <= spent'[m] + Size(Each(Pending(m)')) + Unseen(m)'
  <2>1. /\ Held(m)' = Held(m) /\ Slack(m)' = Slack(m) /\ Pending(m)' = Pending(m)
        /\ Unseen(m)' = Unseen(m)
    BY <1>1 DEF Held, Slack, Written, Cost, Pending, Unseen
  <2> QED BY <1>1, <2>1 DEF Backed, Covered
<1>2. ASSUME NEW p \in Run, Moves(p)
      PROVE  /\ Size(Held(m)') <= spent'[m]
             /\ bill'[m] + Size(Slack(m)') <= spent'[m] + Size(Each(Pending(m)')) + Unseen(m)'
  <2>1. /\ \A q \in Run : q # p => pc'[q] = pc[q] /\ call'[q] = call[q]
        /\ Spare(m, p) <= Spare(m, p)' /\ Left(m, p) <= Left(m, p)'
    BY <1>2, BooksOfStep
  <2>2. Size(Held(m)') <= spent'[m] BY <2>1, BackedByStep DEF Backed
  <2>3. bill'[m] + Size(Slack(m)') <= spent'[m] + Size(Each(Pending(m)')) + Unseen(m)'
    BY <2>1, CoveredByStep DEF Covered
  <2> QED BY <2>2, <2>3
<1>3. CASE NextMonth BY <1>1, <1>3 DEF NextMonth, charged
<1>4. CASE UNCHANGED vars BY <1>1, <1>4 DEF vars
<1> QED BY <1>2, <1>3, <1>4 DEF Next, Moves

LEMMA RoomStep ==
    ASSUME Types, Types', Stamped, [Next]_vars, NEW m \in Month, Room(m)
    PROVE  Room(m)'
<1>0. /\ pc \in [Run -> Place] /\ call \in [Run -> Call] /\ spent \in [Month -> Int]
  BY DEF Types
<1>1. ASSUME NEW p \in Run, Moves(p), ~Approve(p), ~Dispatch(p) PROVE Room(m)'
  <2>1. /\ \A q \in Run : q # p => pc'[q] = pc[q] /\ call'[q] = call[q]
        /\ Own(m, p)' <= Own(m, p)
    BY <1>1, BooksOfStep
  <2>2. Load(m)' <= Load(m)
    <3>1. Own(m, p)' <= Own(m, p) + 0
      <4>1. Own(m, p) \in Int
        BY <1>0, Constants DEF Own, Each
      <4> QED BY <2>1, <4>1
    <3>2. Load(m)' <= Load(m) + 0 BY <2>1, <3>1, LoadByStep
    <3> QED BY <3>2, LoadType
  <2>3. pc'[p] # "approved"
    BY <1>0, <1>1 DEF Moves, Begin, Refuse, RejectedBeforeInference, Unanswered, Answered,
       Unreported, Breach, Discard, Put, Settle, End, Miss, Infer, Orphaned, Move
  <2>4. CASE pc[p] = "approved" BY <2>1, <2>2, <2>3, <2>4, RoomLeft
  <2>5. CASE pc[p] # "approved" BY <2>1, <2>2, <2>3, <2>5, RoomKept
  <2> QED BY <2>4, <2>5
<1>2. ASSUME NEW p \in Run, Approve(p) PROVE Room(m)'
  <2>1. /\ pc[p] = "check" /\ pc'[p] = "approved" /\ call' = call /\ spent' = spent
        /\ \A q \in Run : q # p => pc'[q] = pc[q]
    BY <1>0, <1>2 DEF Approve, Move
  <2>2. call[p].month = m => spent[m] + Cost(p) <= Cap
    <3>1. Cost(p) <= Cap - spent[call[p].month] BY <1>2 DEF Approve, Allowed
    <3>2. spent[m] \in Int /\ Cost(p) \in Nat /\ Cap \in Nat BY <1>0, CostType, Constants
    <3> QED BY <3>1, <3>2
  <2> QED BY <2>1, <2>2, RoomJoined
<1>3. ASSUME NEW p \in Run, Dispatch(p) PROVE Room(m)'
  <2>1. /\ pc[p] = "approved" /\ pc'[p] = "sent" /\ call' = call
        /\ \A q \in Run : q # p => pc'[q] = pc[q]
    BY <1>0, <1>3 DEF Dispatch, Move
  <2>2. Cost(p) \in Nat /\ call[p].month \in Month BY CostType DEF Call
  <2>3. spent'[m] = IF call[p].month = m THEN spent[m] + Cost(p) ELSE spent[m]
    BY <1>0, <1>3, <2>2 DEF Dispatch
  <2>4. Busy(m)' = Busy(m)
    <3>1. \A q \in Run : q \in Busy(m)' <=> q \in Busy(m) BY <2>1 DEF Busy
    <3> QED BY <3>1 DEF Busy
  <2>5. Load(m)' = IF call[p].month = m THEN Load(m) + Cost(p) ELSE Load(m)
    <3>1. Load(m)' = spent'[m] + Size(Each(Busy(m))) BY <2>4 DEF Load, Size, Each
    <3>2. Size(Each(Busy(m))) \in Nat
      <4>1. Busy(m) \in SUBSET Run BY DEF Busy
      <4> QED BY <4>1, SizeOfEach
    <3>3. spent[m] \in Int BY <1>0
    <3> QED BY <2>2, <2>3, <3>1, <3>2, <3>3 DEF Load
  <2>6. Load(m)' <= Load(m) \/ (call[p].month = m /\ Load(m)' <= Load(m) + Cost(p))
    BY <2>2, <2>5, LoadType
  <2> QED BY <2>1, <2>6, RoomLeft
<1>4. ASSUME pc' = pc, call' = call, spent' = spent PROVE Room(m)'
  <2>1. Load(m)' = Load(m) BY <1>4 DEF Load, Busy, Size, Each
  <2>2. Load(m)' <= Load(m) BY <2>1, LoadType
  <2> QED BY <1>4, <2>2, RoomKept
<1>5. CASE NextMonth BY <1>4, <1>5 DEF NextMonth
<1>6. CASE UNCHANGED vars BY <1>4, <1>6 DEF vars
<1> QED BY <1>1, <1>2, <1>3, <1>5, <1>6 DEF Next, Moves

LEMMA InvInit == Init => IInv
<1> SUFFICES ASSUME Init PROVE IInv OBVIOUS
<1>1. 0 \in Month BY BudgetAssumption DEF Month
<1>2. NoCall \in Call /\ NoCall.packet \in Packet BY NoCallType DEF Call
<1>3. Types
  <2>1. call \in [Run -> Call] BY <1>2 DEF Init
  <2> QED BY <1>1, <2>1, Constants DEF Init, Types, Place
<1>4. Counted BY Constants DEF Init, Counted
<1>5. Stamped
  <2>1. ASSUME NEW r \in Run PROVE call[r].used <= Cost(r) + Excess
    <3>1. call[r] = NoCall BY DEF Init
    <3>2. Estimate[NoCall.packet] \in Nat /\ Excess \in Nat BY <1>2, Constants
    <3> QED BY <3>1, <3>2, NoCallType DEF Cost
  <2> QED BY <2>1 DEF Init, Stamped
<1>6. ASSUME NEW m \in Month
      PROVE  /\ Room(m) /\ Size(Held(m)) <= spent[m]
             /\ bill[m] + Size(Slack(m)) <= spent[m] + Size(Each(Pending(m))) + Unseen(m)
  <2>1. Waiting(m) = {} /\ Busy(m) = {} /\ Pending(m) = {}
    BY DEF Init, Waiting, Busy, Pending
  <2>2. Each({}) = [r \in Run |-> 0] BY DEF Each
  <2>3. spent[m] = 0 /\ bill[m] = 0 /\ blind[m] = 0 /\ free[m] = 0 BY DEF Init
  <2>4. Held(m) = [r \in Run |-> 0] /\ Slack(m) = [r \in Run |-> 0]
    BY DEF Init, Held, Slack, Written
  <2>5. Unseen(m) = 0 BY <2>3, Constants DEF Unseen
  <2>6. Room(m)
    <3>1. Cardinality(Waiting(m)) = 0 /\ Load(m) = 0
      BY <2>1, <2>2, <2>3, SizeOfNothing, FS_EmptySet DEF Load
    <3>2. Load(m) + Ceiling * Cardinality(Waiting(m)) <= Bound
      <4>1. Ceiling * 0 = 0 /\ 0 <= Bound BY Constants DEF Bound
      <4> QED BY <3>1, <4>1
    <3> QED BY <3>2 DEF Room
  <2> QED BY <2>1, <2>2, <2>3, <2>4, <2>5, <2>6, SizeOfNothing
<1> QED BY <1>3, <1>4, <1>5, <1>6 DEF IInv, Backed, Covered

-----------------------------------------------------------------------------
(* The theorems *)

\* The inductive invariant of the ledger and its guards holds in every
\* reachable state.
THEOREM Invariance == Spec => []IInv
<1>1. ASSUME IInv, [Next]_vars PROVE IInv'
  <2>1. Types' /\ Counted' /\ Stamped'
    BY <1>1, TypesStep, CountedStep, StampedStep DEF IInv
  <2>2. Backed' /\ Covered' BY <1>1, <2>1, BooksStep DEF IInv
  <2>3. ASSUME NEW m \in Month PROVE Room(m)' BY <1>1, <2>1, RoomStep DEF IInv
  <2> QED BY <2>1, <2>2, <2>3 DEF IInv, Month
<1> QED BY InvInit, <1>1, PTL DEF Spec

\* Every variable keeps its type; in particular no month's spend is negative,
\* although rows are rewritten for less than they held.
THEOREM TypeCorrect == Spec => []TypeOK
<1>1. ASSUME IInv PROVE TypeOK
  <2>1. ASSUME NEW m \in Month PROVE spent[m] \in Nat
    <3>1. PICK r \in Run : TRUE BY BudgetAssumption
    <3>2. Held(m) \in Weights BY <1>1, BookWeights DEF IInv
    <3>3. Size(Held(m)) \in Nat BY <3>1, <3>2, SizeChanges
    <3> QED BY <1>1, <3>3 DEF IInv, Types, Backed
  <2>2. spent \in [Month -> Nat] BY <1>1, <2>1 DEF IInv, Types
  <2>3. made \in [Run -> 0 .. Calls] BY <1>1, Constants DEF IInv, Types, Counted
  <2> QED BY <1>1, <2>2, <2>3 DEF IInv, Types, TypeOK, Place
<1> QED BY Invariance, <1>1, PTL

\* However many invocations overlap, wherever they die and whatever their answers
\* turn out to cost, the spend of a month passes the cap by at most one estimate for
\* every invocation but one, and one excess over an estimate for every invocation.
THEOREM OvershootBoundedHolds == Spec => []OvershootBounded
<1>1. IInv => OvershootBounded
  BY RoomBounds DEF IInv, OvershootBounded, Bound
<1> QED BY Invariance, <1>1, PTL

\* Whoever crashed or waited in vain, and however the answers come in, the ledger
\* says less than the provider charged by no more than the excess of the calls
\* whose usage it was never or is not yet told, and the answers it took for
\* rejections.
THEOREM LedgerNearBillHolds == Spec => []LedgerNearBill
<1>1. ASSUME IInv, NEW m \in Month
      PROVE  bill[m] <= spent[m] + Excess * (blind[m] + Cardinality(Pending(m)))
                                 + (Ceiling + Excess) * free[m]
  <2> DEFINE c == Cardinality(Pending(m))
             a == blind[m]
  <2>1. PICK r \in Run : TRUE BY BudgetAssumption
  <2>2. Slack(m) \in Weights BY <1>1, BookWeights DEF IInv
  <2>3. Size(Slack(m)) \in Nat BY <2>1, <2>2, SizeChanges
  <2>4. Pending(m) \in SUBSET Run BY DEF Pending
  <2>5. c \in Nat BY <2>4, Constants, FS_Subset, FS_CardinalityType
  <2>6. Size(Each(Pending(m))) = Excess * c BY <2>4, SizeOfEach
  <2>7. /\ spent[m] \in Int /\ bill[m] \in Nat /\ a \in Nat /\ free[m] \in Nat
        /\ Excess \in Nat /\ Top \in Nat
    BY <1>1, Constants DEF IInv, Types
  <2>8. bill[m] + Size(Slack(m)) <= spent[m] + Size(Each(Pending(m))) + Unseen(m)
    BY <1>1 DEF IInv, Covered
  <2>9. Unseen(m) = Excess * a + Top * free[m] BY DEF Unseen
  <2> HIDE DEF c, a
  <2>10. Excess * (a + c) = Excess * a + Excess * c BY <2>5, <2>7
  <2>11. Excess * a \in Nat /\ Excess * c \in Nat /\ Top * free[m] \in Nat
    BY <2>5, <2>7, OneMore
  <2>12. bill[m] <= spent[m] + Excess * (a + c) + Top * free[m]
    BY <2>3, <2>6, <2>7, <2>8, <2>9, <2>10, <2>11
  <2> QED BY <2>12 DEF a, c, Top
<1>2. IInv => LedgerNearBill BY <1>1 DEF LedgerNearBill
<1> QED BY Invariance, <1>2, PTL

\* An invocation reaches the provider at most as often as its cap allows.
THEOREM RunBoundedHolds == Spec => []RunBounded
<1>1. IInv => RunBounded
  BY Constants DEF IInv, Counted, RunBounded, Types
<1> QED BY Invariance, <1>1, PTL

=============================================================================
