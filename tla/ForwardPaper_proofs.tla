------------------------ MODULE ForwardPaper_proofs ------------------------
(***************************************************************************)
(* Proofs about ForwardPaper: for any set of candidates, any quantity and  *)
(* any choice of Env, the account never goes short, its rows never claim   *)
(* more than the broker has, a frozen slot and a spent key keep what they  *)
(* promise, and the whole implements PaperLedger.                          *)
(***************************************************************************)
EXTENDS ForwardPaper, TLAPS

\* What the broker's books always satisfy.
OrdersOK == \A k \in Keys : /\ orders[k].filled <= orders[k].qty
                            /\ orders[k].qty <= MaxQty
                            /\ orders[k].status = "none" => orders[k].filled = 0

\* Shares that are neither stopped nor covered by an exit the broker holds.
Free(c, q) == orders[ExitKey(c)].status = "none" => q + legs[c].qty <= Position(c)

\* A sell on its way to the broker fits the position whenever it lands.
PendingFits == \A r \in net : \A c \in Cand : r.key = ExitKey(c) => Free(c, r.qty)

\* So does a sell the call in progress has decided on and not sent yet.
PlanFits == (call.op = "exit" /\ call.step \in {"legs2", "lookup", "submit"})
              => Free(call.c, call.qty)

\* Where a call is determines its direction and bounds its quantity.
CallOK == /\ call.step \in {"read1", "legs1", "cancel", "read2", "legs2"} => call.op = "exit"
          /\ call.step \notin {"idle", "down", "return"} => call.qty <= MaxQty
          /\ call.step \in {"lookup", "submit", "sent"} => call.qty > 0

IInv == /\ TypeOK /\ OrdersOK /\ CallOK
        /\ PendingFits /\ PlanFits
        /\ NeverShort /\ RowsNeverAhead

-----------------------------------------------------------------------------
(* Facts about the operators the steps are built from.                     *)

\* The two keys of a candidate are keys, and no two candidates share one.
LEMMA KeyFacts ==
  \A c, d \in Cand : /\ EntryKey(c) \in Keys /\ ExitKey(c) \in Keys
                     /\ EntryKey(c) # ExitKey(d)
                     /\ ExitKey(c) = ExitKey(d) => c = d
                     /\ EntryKey(c) = EntryKey(d) => c = d
  BY DEF EntryKey, ExitKey, Keys

\* A call past its first step asks about a key of its own candidate.
LEMMA CallKeyFacts ==
  ASSUME TypeOK, call.step \notin {"idle", "down"}
  PROVE  /\ call.c \in Cand /\ CallKey \in Keys
         /\ call.op = "exit" => CallKey = ExitKey(call.c)
         /\ call.op = "entry" => CallKey = EntryKey(call.c)
  BY DEF TypeOK, CallType, CallKey, Keys, EntryKey, ExitKey

\* Returning keeps the call's key and its type.
LEMMA ReturnType ==
  ASSUME TypeOK, call.step \notin {"idle", "down"}, NEW o \in Outcomes, ReturnWith(o)
  PROVE  /\ call' \in CallType
         /\ call'.step = "return" /\ call'.op = call.op /\ call'.c = call.c
         /\ call'.op # "none" /\ call'.c \in Cand
  BY DEF TypeOK, CallType, ReturnWith, Steps

\* Going to another step changes nothing else.
LEMMA GoToType ==
  ASSUME TypeOK, call.step \notin {"idle", "down"}, NEW step \in Steps, GoTo(step)
  PROVE  /\ call' \in CallType
         /\ call'.step = step /\ call'.op = call.op /\ call'.c = call.c /\ call'.qty = call.qty
         /\ call'.op # "none" /\ call'.c \in Cand
  BY DEF TypeOK, CallType, GoTo

\* A call that begins has its own candidate, direction and quantity.
LEMMA BeginType ==
  \A op \in {"entry", "exit"}, c \in Cand, step \in Steps, q \in Int, b \in BOOLEAN :
    /\ Begin(op, c, step, q, b) \in CallType
    /\ Begin(op, c, step, q, b).c = c /\ Begin(op, c, step, q, b).op = op
    /\ Begin(op, c, step, q, b).step = step /\ Begin(op, c, step, q, b).qty = q
  BY DEF Begin, CallType, Outcomes

\* So has one that has just asked for a cancellation.
LEMMA CancelType ==
  ASSUME TypeOK
  PROVE  \A b \in BOOLEAN : /\ [call EXCEPT !.step = "read2", !.cancelled = b] \in CallType
                            /\ [call EXCEPT !.step = "read2", !.cancelled = b].c = call.c
                            /\ [call EXCEPT !.step = "read2", !.cancelled = b].op = call.op
                            /\ [call EXCEPT !.step = "read2", !.cancelled = b].step = "read2"
                            /\ [call EXCEPT !.step = "read2", !.cancelled = b].qty = call.qty
  BY DEF TypeOK, CallType, Steps

\* A service that is idle or down is typed too.
LEMMA IdleType ==
  /\ IdleCall \in CallType /\ IdleCall.step = "idle"
  /\ [IdleCall EXCEPT !.step = "down"] \in CallType
  /\ [IdleCall EXCEPT !.step = "down"].step = "down"
  <1>1. IdleCall \in CallType
    BY DEF IdleCall, CallType, Steps, Outcomes
  <1>2. [IdleCall EXCEPT !.step = "down"] \in CallType
    BY <1>1 DEF CallType, Steps
  <1>. QED BY <1>1, <1>2 DEF IdleCall

\* Every status the broker may report has a name in the code.
LEMMA NormaliseType == \A raw \in RawStatuses : NormaliseStatus(raw) \in Statuses
  BY DEF NormaliseStatus, RawStatuses, Statuses

\* What is written back to a row is a row, claiming what filled and no more.
LEMMA AppliedRowType ==
  ASSUME TypeOK, NEW k \in Keys
  PROVE  /\ AppliedRow(k) \in Row
         /\ AppliedRow(k).filled = orders[k].filled
         /\ AppliedRow(k).protected <= orders[k].filled
  <1> DEFINE status == NormaliseStatus(orders[k].status)
  <1>1. orders[k] \in Order
    BY DEF TypeOK
  <1>2. status \in Statuses
    BY <1>1, NormaliseType DEF Order
  <1>. HIDE DEF status
  <1>3. AppliedRow(k) = [status |-> status, filled |-> orders[k].filled,
                         protected |-> IF status \in {"FILLED", "PARTIALLY_FILLED"}
                                       THEN orders[k].filled ELSE 0]
    BY DEF AppliedRow, status
  <1>. QED BY <1>1, <1>2, <1>3 DEF Order, Row

\* What may be sold is at most what is held, what is free and what was asked.
LEMMA SellableBound ==
  ASSUME TypeOK, NEW c \in Cand, NEW local \in Int
  PROVE  /\ Position(c) \in Int /\ Reserved(c) \in Int /\ Sellable(c, local) \in Int
         /\ Sellable(c, local) <= Position(c) - Reserved(c)
         /\ Sellable(c, local) <= local
  <1>1. /\ orders[EntryKey(c)] \in Order /\ orders[ExitKey(c)] \in Order /\ legs[c] \in Leg
    BY KeyFacts DEF TypeOK
  <1>2. Position(c) \in Int /\ Reserved(c) \in Int
    BY <1>1 DEF Order, Leg, Position, Bought, Sold, Reserved
  <1>. QED BY <1>2 DEF Sellable, Least, Available

-----------------------------------------------------------------------------
(* The inductive invariant, one group of conjuncts at a time.              *)

\* The strengthening holds at the start: nothing is ordered, sent or claimed.
LEMMA InitIInv == Init => IInv
  <1> SUFFICES ASSUME Init PROVE IInv
    OBVIOUS
  <1>1. TypeOK
    BY DEF Init, TypeOK, IdleCall, CallType, Steps, Outcomes, SlotStates, CleanCap, NoRow, Row,
           NoOrder, Order, RawStatuses, NoLeg, Leg
  <1>2. OrdersOK /\ CallOK /\ RowsNeverAhead
    BY QtyAssumption DEF Init, OrdersOK, CallOK, RowsNeverAhead, IdleCall, NoRow, NoOrder
  <1>3. PendingFits /\ PlanFits
    BY DEF Init, PendingFits, PlanFits, IdleCall
  <1>4. NeverShort
    BY KeyFacts DEF Init, NeverShort, Position, Bought, Sold, Reserved, NoOrder, NoLeg, Working
  <1>. QED BY <1>1, <1>2, <1>3, <1>4 DEF IInv

\* Every step keeps every variable in its type.
LEMMA TypeStep == IInv /\ [Next]_vars => TypeOK'
  <1> SUFFICES ASSUME IInv, [Next]_vars PROVE TypeOK'
    OBVIOUS
  <1> USE DEF IInv, service, store, broker
  <1>1. ASSUME UNCHANGED vars PROVE TypeOK'
    BY <1>1 DEF vars, TypeOK
  <1>2. ASSUME NEW c \in Cand, StartEntry(c) PROVE TypeOK'
    <2>1. call' \in CallType /\ call'.c \in Cand /\ call'.op # "none"
      <3>1. PICK q \in EntryQty :
              call' = Begin("entry", c, "lookup", q, tx[EntryKey(c)] = NoRow)
        BY <1>2 DEF StartEntry
      <3>2. PICK b \in BOOLEAN : call' = Begin("entry", c, "lookup", q, b)
        BY <3>1, Zenon
      <3>3. q \in Int /\ "lookup" \in Steps
        BY QtyAssumption DEF Steps
      <3>. QED BY <3>2, <3>3, BeginType
    <2>2. tx' \in [Keys -> Row]
      BY <1>2, KeyFacts DEF StartEntry, TypeOK, RecordIntent, ReadyRow, Row
    <2>. QED BY <1>2, <2>1, <2>2 DEF StartEntry, TypeOK
  <1>3. ASSUME NEW c \in Cand, StartClose(c) PROVE TypeOK'
    <2>1. Bought(c) \in Int
      BY KeyFacts DEF TypeOK, Order, Bought
    <2>2. call' \in CallType /\ call'.c \in Cand /\ call'.op # "none"
      <3>1. PICK local \in {Bought(c)} \cup (IF "belief" \in Env THEN 1..MaxQty ELSE {}) :
              call' = Begin("exit", c, "read1", local, FALSE)
        BY <1>3 DEF StartClose
      <3>2. local \in Int
        BY <2>1, QtyAssumption
      <3>3. PICK b \in BOOLEAN : call' = Begin("exit", c, "read1", local, b)
        BY <3>1, Zenon
      <3>4. "read1" \in Steps
        BY DEF Steps
      <3>. QED BY <3>2, <3>3, <3>4, BeginType
    <2>. QED BY <1>3, <2>2 DEF StartClose, TypeOK
  <1>4. ASSUME ClockUnknown PROVE TypeOK'
    BY <1>4 DEF ClockUnknown, Freeze, TypeOK, SlotStates, CleanCap
  <1>5. ASSUME Reconcile PROVE TypeOK'
    <2>1. \A v : SlotStateOf(v) \in SlotStates
      BY DEF SlotStateOf, SlotStates
    <2>2. PICK v : Judge(v)
      BY <1>5 DEF Reconcile
    <2>3. slotState' \in SlotStates /\ clean' \in 0..CleanCap /\ agreed' \in 0..CleanCap
      BY <2>1, <2>2 DEF Judge, TypeOK, SlotStates, CleanCap, Least
    <2>. QED BY <1>5, <2>3 DEF Reconcile, TypeOK
  <1>6. ASSUME SubmitEntry PROVE TypeOK'
    <2>1. call.step \notin {"idle", "down"}
      BY <1>6 DEF SubmitEntry
    <2>2. call' \in CallType /\ call'.c \in Cand /\ call'.op # "none"
      BY <1>6, <2>1, ReturnType, GoToType DEF SubmitEntry, Steps, Outcomes
    <2>3. net' \subseteq Req
      <3>1. call.qty \in 1..MaxQty
        BY <1>6, QtyAssumption DEF SubmitEntry, CallOK, TypeOK, CallType
      <3>. QED BY <1>6, <2>1, <3>1, CallKeyFacts DEF SubmitEntry, TypeOK, Req
    <2>. QED BY <1>6, <2>2, <2>3 DEF SubmitEntry, TypeOK
  <1>7. ASSUME SubmitExit PROVE TypeOK'
    <2>1. call.step \notin {"idle", "down"}
      BY <1>7 DEF SubmitExit
    <2>2. call' \in CallType /\ call'.c \in Cand /\ call'.op # "none"
      BY <1>7, <2>1, GoToType DEF SubmitExit, Steps
    <2>3. net' \subseteq Req
      <3>1. call.qty \in 1..MaxQty
        BY <1>7, QtyAssumption DEF SubmitExit, CallOK, TypeOK, CallType
      <3>. QED BY <1>7, <2>1, <3>1, CallKeyFacts DEF SubmitExit, TypeOK, Req
    <2>. QED BY <1>7, <2>2, <2>3 DEF SubmitExit, TypeOK
  <1>8. ASSUME FirstRead \/ FirstProtectionRead PROVE TypeOK'
    <2>1. call.step \notin {"idle", "down"}
      BY <1>8 DEF FirstRead, FirstProtectionRead
    <2>2. call' \in CallType /\ call'.c \in Cand /\ call'.op # "none"
      BY <1>8, <2>1, ReturnType, GoToType DEF FirstRead, FirstProtectionRead, Steps, Outcomes
    <2>. QED BY <1>8, <2>2 DEF FirstRead, FirstProtectionRead, TypeOK
  <1>9. ASSUME CancelProtection PROVE TypeOK'
    <2>1. call.step \notin {"idle", "down"}
      BY <1>9 DEF CancelProtection
    <2>2. call' \in CallType /\ call'.c \in Cand /\ call'.op # "none"
      <3>1. CASE call' = [call EXCEPT !.step = "read2", !.cancelled = (legs' # legs)]
        <4>1. PICK b \in BOOLEAN : call' = [call EXCEPT !.step = "read2", !.cancelled = b]
          BY <3>1, Zenon
        <4>. QED BY <2>1, <4>1, CancelType DEF TypeOK
      <3>2. CASE ReturnWith("FROZEN")
        BY <2>1, <3>2, ReturnType DEF Outcomes
      <3>. QED BY <1>9, <3>1, <3>2 DEF CancelProtection
    <2>3. legs' \in [Cand -> Leg]
      BY <1>9 DEF CancelProtection, Cancelled, TypeOK, Leg
    <2>4. slotState' \in SlotStates /\ clean' \in 0..CleanCap /\ agreed' \in 0..CleanCap
      BY <1>9 DEF CancelProtection, Freeze, Steady, TypeOK, SlotStates, CleanCap
    <2>. QED BY <1>9, <2>2, <2>3, <2>4 DEF CancelProtection, TypeOK
  <1>10. ASSUME SecondRead PROVE TypeOK'
    <2>1. /\ call.c \in Cand /\ call.qty \in Int /\ call \in CallType
          /\ call.op # "none"
      BY <1>10 DEF SecondRead, TypeOK, CallType
    <2>2. Position(call.c) \in Int /\ Sellable(call.c, call.qty) \in Int
      BY <2>1, SellableBound
    <2>3. call' \in CallType /\ call'.c \in Cand /\ call'.op # "none"
      BY <1>10, <2>1, <2>2 DEF SecondRead, CallType, Steps
    <2>. QED BY <1>10, <2>3 DEF SecondRead, TypeOK
  <1>11. ASSUME SecondProtectionRead PROVE TypeOK'
    <2>1. call.step \notin {"idle", "down"}
      BY <1>11 DEF SecondProtectionRead
    <2>2. call' \in CallType /\ call'.c \in Cand /\ call'.op # "none"
      BY <1>11, <2>1, ReturnType, GoToType DEF SecondProtectionRead, Steps, Outcomes
    <2>3. tx' \in [Keys -> Row]
      BY <1>11, <2>1, CallKeyFacts DEF SecondProtectionRead, TypeOK, RecordIntent, ReadyRow, Row
    <2>. QED BY <1>11, <2>2, <2>3 DEF SecondProtectionRead, TypeOK
  <1>12. ASSUME LookupFound \/ Answer PROVE TypeOK'
    <2>1. call.step \notin {"idle", "down"}
      BY <1>12 DEF LookupFound, Answer
    <2>2. call' \in CallType /\ call'.c \in Cand /\ call'.op # "none"
      BY <1>12, <2>1, ReturnType DEF LookupFound, Answer, Outcomes
    <2>3. Apply(CallKey)
      BY <1>12 DEF LookupFound, Answer
    <2>4. tx' \in [Keys -> Row]
      BY <2>1, <2>3, CallKeyFacts, AppliedRowType DEF Apply, TypeOK
    <2>5. slotState' \in SlotStates /\ clean' \in 0..CleanCap /\ agreed' \in 0..CleanCap
      BY <2>3 DEF Apply, Freeze, Steady, TypeOK, SlotStates, CleanCap
    <2>. QED BY <1>12, <2>2, <2>4, <2>5 DEF LookupFound, Answer, TypeOK
  <1>13. ASSUME LookupMisses PROVE TypeOK'
    <2>1. call.step \notin {"idle", "down"}
      BY <1>13 DEF LookupMisses
    <2>2. call' \in CallType /\ call'.c \in Cand /\ call'.op # "none"
      BY <1>13, <2>1, ReturnType, GoToType DEF LookupMisses, Steps, Outcomes
    <2>. QED BY <1>13, <2>2 DEF LookupMisses, TypeOK
  <1>14. ASSUME ReadFails \/ LookupFails PROVE TypeOK'
    <2>1. call.step \notin {"idle", "down"}
      BY <1>14 DEF ReadFails, LookupFails
    <2>2. call' \in CallType /\ call'.c \in Cand /\ call'.op # "none"
      BY <1>14, <2>1, ReturnType DEF ReadFails, LookupFails, Outcomes
    <2>. QED BY <1>14, <2>2 DEF ReadFails, LookupFails, Freeze, TypeOK, SlotStates, CleanCap
  <1>15. ASSUME Commit \/ Raise \/ Crash \/ Restart PROVE TypeOK'
    <2>1. call' = IdleCall \/ call' = [IdleCall EXCEPT !.step = "down"]
      BY <1>15 DEF Commit, Raise, Crash, Restart
    <2>2. call' \in CallType /\ call'.step \in {"idle", "down"}
      BY <2>1, IdleType
    <2>. QED BY <1>15, <2>2 DEF Commit, Raise, Crash, Restart, TypeOK, SlotStates, CleanCap
  <1>16. ASSUME NEW r \in net, Land(r) PROVE TypeOK'
    BY <1>16, QtyAssumption DEF Land, TypeOK, Req, Order, RawStatuses
  <1>17. ASSUME NEW k \in Keys, Fill(k) PROVE TypeOK'
    <2>1. orders' \in [Keys -> Order]
      <3>1. orders[k] \in Order
        BY DEF TypeOK
      <3>2. PICK n \in 1..(orders[k].qty - orders[k].filled), to \in RawStatuses :
              orders' = [orders EXCEPT ![k] = [status |-> to, qty |-> orders[k].qty,
                                               filled |-> orders[k].filled + n]]
        BY <1>17, <3>1 DEF Fill, Fillable, RawStatuses, Order
      <3>. QED BY <3>1, <3>2 DEF TypeOK, Order
    <2>. QED BY <1>17, <2>1 DEF Fill, TypeOK
  <1>18. ASSUME NEW k \in Keys, \/ Expire(k) \/ CancelOrder(k) \/ CancelConfirm(k)
                                \/ Hold(k) \/ Resume(k)
         PROVE  TypeOK'
    BY <1>18 DEF Expire, CancelOrder, CancelConfirm, Hold, Resume, OrderMoves, TypeOK, Order,
                 RawStatuses
  <1>19. ASSUME NEW c \in Cand, Protect(c) PROVE TypeOK'
    <2>1. Available(c) \in Int
      BY SellableBound DEF Available
    <2>. QED BY <1>19, <2>1 DEF Protect, TypeOK, Leg
  <1>20. ASSUME NEW c \in Cand, StopFills(c) \/ StopCancelled(c) \/ StopStays(c) PROVE TypeOK'
    <2>1. legs[c] \in Leg
      BY DEF TypeOK
    <2>2. legs' \in [Cand -> Leg]
      BY <1>20, <2>1 DEF StopFills, StopCancelled, StopStays, TypeOK, Leg
    <2>. QED BY <1>20, <2>2 DEF StopFills, StopCancelled, StopStays, TypeOK
  <1>. QED
    BY <1>1, <1>2, <1>3, <1>4, <1>5, <1>6, <1>7, <1>8, <1>9, <1>10, <1>11, <1>12, <1>13, <1>14,
       <1>15, <1>16, <1>17, <1>18, <1>19, <1>20
       DEF Next, CallStarts, ServiceStep, ServiceFault, BrokerStep

\* The broker's orders never fill beyond their size.
LEMMA OrdersStep == IInv /\ [Next]_vars => OrdersOK'
  <1> SUFFICES ASSUME IInv, [Next]_vars PROVE OrdersOK'
    OBVIOUS
  <1> USE DEF IInv, service, store, broker
  <1>1. ASSUME UNCHANGED orders PROVE OrdersOK'
    BY <1>1 DEF OrdersOK
  <1>2. ASSUME NEW r \in net, Land(r) PROVE OrdersOK'
    BY <1>2, QtyAssumption DEF Land, OrdersOK, TypeOK, Req, Order
  <1>3. ASSUME NEW k \in Keys, Fill(k) PROVE OrdersOK'
    <2>1. orders[k] \in Order
      BY DEF TypeOK
    <2>2. PICK n \in 1..(orders[k].qty - orders[k].filled), to \in RawStatuses \ {"none"} :
            orders' = [orders EXCEPT ![k] = [status |-> to, qty |-> orders[k].qty,
                                             filled |-> orders[k].filled + n]]
      BY <1>3, <2>1 DEF Fill, Fillable, RawStatuses, Order
    <2>. QED BY <2>1, <2>2 DEF OrdersOK, TypeOK, Order
  <1>4. ASSUME NEW k \in Keys, \/ Expire(k) \/ CancelOrder(k) \/ CancelConfirm(k)
                               \/ Hold(k) \/ Resume(k)
        PROVE  OrdersOK'
    <2>1. PICK to \in RawStatuses \ {"none"} : orders' = [orders EXCEPT ![k].status = to]
      BY <1>4 DEF Expire, CancelOrder, CancelConfirm, Hold, Resume, OrderMoves, RawStatuses
    <2>. QED BY <2>1 DEF OrdersOK, TypeOK, Order
  <1>. QED
    BY <1>1, <1>2, <1>3, <1>4
       DEF Next, CallStarts, ServiceStep, ServiceFault, BrokerStep, vars, StartEntry, StartClose,
           ClockUnknown, Reconcile, SubmitEntry, FirstRead, FirstProtectionRead, CancelProtection,
           SecondRead, SecondProtectionRead, SubmitExit, LookupFound, LookupMisses, Answer, Commit,
           ReadFails, LookupFails, Raise, Crash, Restart, Protect, StopFills, StopCancelled,
           StopStays

\* Where a call is keeps telling its direction and bounding its quantity.
LEMMA CallStep == IInv /\ [Next]_vars => CallOK'
  <1> SUFFICES ASSUME IInv, [Next]_vars PROVE CallOK'
    OBVIOUS
  <1> USE DEF IInv
  <1>1. ASSUME UNCHANGED call PROVE CallOK'
    BY <1>1 DEF CallOK
  <1>2. ASSUME call'.step \in {"idle", "down", "return"} PROVE CallOK'
    BY <1>2 DEF CallOK
  <1>3. ASSUME call.step \notin {"idle", "down"}, NEW o \in Outcomes, ReturnWith(o) PROVE CallOK'
    BY <1>2, <1>3, ReturnType
  <1>4. ASSUME NEW c \in Cand, StartEntry(c) PROVE CallOK'
    <2>1. PICK q \in EntryQty :
            call' = Begin("entry", c, "lookup", q, tx[EntryKey(c)] = NoRow)
      BY <1>4 DEF StartEntry
    <2>2. call'.step = "lookup" /\ call'.qty = q
      BY <2>1 DEF Begin
    <2>. QED BY <2>2, QtyAssumption DEF CallOK
  <1>5. ASSUME NEW c \in Cand, StartClose(c) PROVE CallOK'
    <2>1. Bought(c) \in Int /\ Bought(c) <= MaxQty
      BY KeyFacts, QtyAssumption DEF TypeOK, Order, Bought, OrdersOK
    <2>2. PICK local \in {Bought(c)} \cup (IF "belief" \in Env THEN 1..MaxQty ELSE {}) :
            call' = Begin("exit", c, "read1", local, FALSE)
      BY <1>5 DEF StartClose
    <2>3. call'.step = "read1" /\ call'.qty = local /\ call'.op = "exit"
      BY <2>2 DEF Begin
    <2>4. local <= MaxQty
      BY <2>1, QtyAssumption
    <2>. QED BY <2>3, <2>4 DEF CallOK
  <1>6. ASSUME FirstRead \/ FirstProtectionRead PROVE CallOK'
    BY <1>3, <1>6, GoToType DEF FirstRead, FirstProtectionRead, CallOK, Steps, Outcomes
  <1>7. ASSUME CancelProtection PROVE CallOK'
    <2>1. CASE call' = [call EXCEPT !.step = "read2", !.cancelled = (legs' # legs)]
      <3>1. PICK b \in BOOLEAN : call' = [call EXCEPT !.step = "read2", !.cancelled = b]
        BY <2>1, Zenon
      <3>. QED BY <1>7, <3>1, CancelType DEF CancelProtection, CallOK
    <2>. QED BY <1>3, <1>7, <2>1 DEF CancelProtection, Outcomes
  <1>8. ASSUME SecondRead PROVE CallOK'
    <2>1. call.c \in Cand /\ call.qty \in Int /\ call \in CallType
      BY <1>8 DEF SecondRead, TypeOK, CallType
    <2>2. Sellable(call.c, call.qty) \in Int /\ Sellable(call.c, call.qty) <= call.qty
      BY <2>1, SellableBound
    <2>3. /\ call'.step = "legs2" /\ call'.op = call.op
          /\ call'.qty = Sellable(call.c, call.qty)
      BY <1>8, <2>1 DEF SecondRead, CallType
    <2>. QED BY <1>8, <2>1, <2>2, <2>3, QtyAssumption DEF SecondRead, CallOK
  <1>9. ASSUME SecondProtectionRead PROVE CallOK'
    BY <1>3, <1>9, GoToType DEF SecondProtectionRead, CallOK, Steps, Outcomes
  <1>10. ASSUME SubmitEntry \/ SubmitExit \/ LookupMisses PROVE CallOK'
    BY <1>3, <1>10, GoToType DEF SubmitEntry, SubmitExit, LookupMisses, CallOK, Steps, Outcomes
  <1>11. ASSUME LookupFound \/ Answer \/ ReadFails \/ LookupFails PROVE CallOK'
    BY <1>3, <1>11 DEF LookupFound, Answer, ReadFails, LookupFails, Outcomes
  <1>12. ASSUME Commit \/ Raise \/ Crash \/ Restart PROVE CallOK'
    <2>1. call' = IdleCall \/ call' = [IdleCall EXCEPT !.step = "down"]
      BY <1>12 DEF Commit, Raise, Crash, Restart
    <2>. QED BY <1>2, <2>1, IdleType
  <1>. QED
    BY <1>1, <1>4, <1>5, <1>6, <1>7, <1>8, <1>9, <1>10, <1>11, <1>12
       DEF Next, CallStarts, ServiceStep, ServiceFault, BrokerStep, vars, ClockUnknown, Reconcile,
           Land, Fill, Expire, CancelOrder, CancelConfirm, Hold, Resume, OrderMoves, Protect,
           StopFills, StopCancelled, StopStays

\* Rows stay behind the broker: fills only grow, rows copy them.
LEMMA RowsStep == IInv /\ [Next]_vars => RowsNeverAhead'
  <1> SUFFICES ASSUME IInv, [Next]_vars PROVE RowsNeverAhead'
    OBVIOUS
  <1> USE DEF IInv, service, store, broker
  <1>1. ASSUME UNCHANGED <<tx, db, orders>> PROVE RowsNeverAhead'
    BY <1>1 DEF RowsNeverAhead
  <1>2. ASSUME UNCHANGED <<tx, db>>, \A k \in Keys : orders'[k].filled >= orders[k].filled
        PROVE  RowsNeverAhead'
    <2> SUFFICES ASSUME NEW k \in Keys
                 PROVE  /\ tx[k].filled <= orders'[k].filled
                        /\ db[k].filled <= orders'[k].filled
                        /\ tx[k].protected <= tx[k].filled
                        /\ db[k].protected <= db[k].filled
      BY <1>2 DEF RowsNeverAhead
    <2>1. /\ tx[k].filled \in Int /\ db[k].filled \in Int
          /\ orders[k].filled \in Int /\ orders'[k].filled \in Int
      BY TypeStep DEF TypeOK, Row, Order
    <2>. QED BY <1>2, <2>1 DEF RowsNeverAhead
  <1>3. ASSUME NEW k \in Keys, tx' = RecordIntent(k), UNCHANGED <<db, orders>>
        PROVE  RowsNeverAhead'
    BY <1>3 DEF RecordIntent, ReadyRow, RowsNeverAhead, TypeOK, Order
  <1>4. ASSUME LookupFound \/ Answer PROVE RowsNeverAhead'
    <2>1. CallKey \in Keys /\ Apply(CallKey) /\ UNCHANGED <<db, orders>>
      BY <1>4, CallKeyFacts DEF LookupFound, Answer
    <2> DEFINE row == AppliedRow(CallKey)
    <2>2. row.filled = orders[CallKey].filled /\ row.protected <= row.filled
      BY <2>1, AppliedRowType
    <2>3. tx' = [tx EXCEPT ![CallKey] = row]
      BY <2>1 DEF Apply
    <2>4. orders[CallKey].filled \in Int
      BY <2>1 DEF TypeOK, Order
    <2>. HIDE DEF row
    <2>. QED BY <2>1, <2>2, <2>3, <2>4 DEF RowsNeverAhead, TypeOK
  <1>5. ASSUME Commit PROVE RowsNeverAhead'
    BY <1>5 DEF Commit, RowsNeverAhead
  <1>6. ASSUME Raise \/ Crash PROVE RowsNeverAhead'
    BY <1>6 DEF Raise, Crash, RowsNeverAhead
  <1>7. ASSUME NEW r \in net, Land(r) PROVE RowsNeverAhead'
    BY <1>2, <1>7 DEF Land, OrdersOK, TypeOK, Req, Order
  <1>8. ASSUME NEW k \in Keys, Fill(k) PROVE RowsNeverAhead'
    <2>1. \A j \in Keys : orders'[j].filled >= orders[j].filled
      BY <1>8 DEF Fill, TypeOK, Order
    <2>. QED BY <1>2, <1>8, <2>1 DEF Fill
  <1>9. ASSUME NEW k \in Keys, \/ Expire(k) \/ CancelOrder(k) \/ CancelConfirm(k)
                               \/ Hold(k) \/ Resume(k)
        PROVE  RowsNeverAhead'
    <2>1. \A j \in Keys : orders'[j].filled = orders[j].filled /\ orders[j].filled \in Int
      BY <1>9 DEF Expire, CancelOrder, CancelConfirm, Hold, Resume, OrderMoves, TypeOK, Order
    <2>. QED BY <1>2, <1>9, <2>1 DEF Expire, CancelOrder, CancelConfirm, Hold, Resume, OrderMoves
  <1>10. ASSUME NEW c \in Cand, StartEntry(c) PROVE RowsNeverAhead'
    BY <1>3, <1>10, KeyFacts DEF StartEntry
  <1>11. ASSUME SecondProtectionRead PROVE RowsNeverAhead'
    BY <1>1, <1>3, <1>11, CallKeyFacts DEF SecondProtectionRead
  <1>. QED
    BY <1>1, <1>4, <1>5, <1>6, <1>7, <1>8, <1>9, <1>10, <1>11
       DEF Next, CallStarts, ServiceStep, ServiceFault, BrokerStep, vars, StartClose, ClockUnknown,
           Reconcile, SubmitEntry, FirstRead, FirstProtectionRead, CancelProtection, SecondRead,
           SubmitExit, LookupMisses, ReadFails, LookupFails, Restart, Protect, StopFills,
           StopCancelled, StopStays

-----------------------------------------------------------------------------
(* No step lets a sell outgrow the position it was sized from.             *)

SellsFit == NeverShort /\ PendingFits /\ PlanFits

\* How a step may change a candidate's books without hurting any sell.
Kinder(c) == /\ Position(c)' - Reserved(c)' >= Position(c) - Reserved(c)
             /\ orders'[ExitKey(c)].status = "none" =>
                  /\ orders[ExitKey(c)].status = "none"
                  /\ Position(c)' - legs'[c].qty >= Position(c) - legs[c].qty

\* The numbers of a candidate's books are integers, before and after a step.
LEMMA BooksType ==
  ASSUME TypeOK, NEW c \in Cand
  PROVE  /\ Position(c) \in Int /\ Reserved(c) \in Int /\ legs[c].qty \in Int
         /\ orders[EntryKey(c)] \in Order /\ orders[ExitKey(c)] \in Order /\ legs[c] \in Leg
  BY KeyFacts, SellableBound DEF TypeOK, Leg

\* Books that no step touches are kind.
LEMMA SameBooks ==
  ASSUME TypeOK, UNCHANGED <<orders, legs>>
  PROVE  \A c \in Cand : Kinder(c)
  <1> SUFFICES ASSUME NEW c \in Cand PROVE Kinder(c)
    OBVIOUS
  <1>1. Position(c)' = Position(c) /\ Reserved(c)' = Reserved(c)
    BY DEF Position, Bought, Sold, Reserved
  <1>. QED BY <1>1, BooksType DEF Kinder

\* Kind changes keep every sell that was already decided on within bounds.
LEMMA KinderBooks ==
  ASSUME IInv, TypeOK', \A c \in Cand : Kinder(c)
  PROVE  /\ NeverShort'
         /\ \A c \in Cand : \A q \in Int : Free(c, q) => Free(c, q)'
  <1> SUFFICES ASSUME NEW c \in Cand
               PROVE  /\ (Position(c) >= Reserved(c))'
                      /\ \A q \in Int : Free(c, q) => Free(c, q)'
    BY DEF NeverShort
  <1>1. /\ Position(c) \in Int /\ Reserved(c) \in Int /\ legs[c].qty \in Int
    BY BooksType DEF IInv
  <1>2. Position(c)' \in Int /\ Reserved(c)' \in Int /\ legs'[c].qty \in Int
    <2>1. /\ (orders[EntryKey(c)] \in Order)' /\ (orders[ExitKey(c)] \in Order)'
          /\ (legs[c] \in Leg)'
      BY KeyFacts DEF TypeOK
    <2>. QED BY <2>1 DEF Order, Leg, Position, Bought, Sold, Reserved
  <1>3. Position(c) >= Reserved(c)
    BY DEF IInv, NeverShort
  <1>. QED BY <1>1, <1>2, <1>3 DEF Kinder, Free

\* A step that changes the books kindly, and neither decides on nor sends a sell.
LEMMA KinderStep ==
  ASSUME IInv, TypeOK', \A c \in Cand : Kinder(c),
         \A r \in net' : r \in net \/ r.key \notin {ExitKey(c) : c \in Cand},
         \/ /\ call'.op = call.op /\ call'.c = call.c /\ call'.qty = call.qty
            /\ call.step \in {"legs2", "lookup", "submit"}
         \/ call'.op # "exit" \/ call'.step \notin {"legs2", "lookup", "submit"}
  PROVE  SellsFit'
  <1>1. NeverShort'
    BY KinderBooks
  <1>2. PendingFits'
    <2> SUFFICES ASSUME NEW r \in net', NEW c \in Cand, r.key = ExitKey(c) PROVE Free(c, r.qty)'
      BY DEF PendingFits
    <2>1. r \in net /\ r.qty \in Int
      BY QtyAssumption DEF TypeOK, IInv, Req
    <2>2. Free(c, r.qty)
      BY <2>1 DEF IInv, PendingFits
    <2>. QED BY <2>1, <2>2, KinderBooks
  <1>3. PlanFits'
    <2> SUFFICES ASSUME call'.op = "exit", call'.step \in {"legs2", "lookup", "submit"}
                 PROVE  Free(call.c, call.qty)'
      BY DEF PlanFits
    <2>1. PICK c \in Cand, q \in Int : c = call.c /\ q = call.qty
      BY DEF IInv, TypeOK, CallType
    <2>2. Free(c, q)
      BY <2>1 DEF IInv, PlanFits
    <2>3. Free(c, q)'
      BY <2>2, KinderBooks
    <2>4. c = call'.c /\ q = call'.qty
      BY <2>1
    <2>. QED BY <2>3, <2>4 DEF Free
  <1>. QED BY <1>1, <1>2, <1>3 DEF SellsFit

\* Whatever the service or the broker does next, sells still fit the position.
LEMMA SellsStep == IInv /\ TypeOK' /\ CallOK' /\ [Next]_vars => SellsFit'
  <1> SUFFICES ASSUME IInv, TypeOK', CallOK', [Next]_vars PROVE SellsFit'
    OBVIOUS
  <1> USE DEF IInv, service, store, broker
  <1> DEFINE Planning == {"legs2", "lookup", "submit"}
  <1>1. ASSUME UNCHANGED <<orders, legs, net>>,
               call'.op # "exit" \/ call'.step \notin Planning
        PROVE  SellsFit'
    BY <1>1, SameBooks, KinderStep
  <1>2. ASSUME UNCHANGED <<orders, legs, net, call>> PROVE SellsFit'
    <2>1. NeverShort'
      BY <1>2, SameBooks, KinderBooks
    <2>2. PendingFits' /\ PlanFits'
      BY <1>2 DEF PendingFits, PlanFits, Free, Position, Bought, Sold
    <2>. QED BY <2>1, <2>2 DEF SellsFit
  <1>3. ASSUME NEW c \in Cand, StartEntry(c) \/ StartClose(c) PROVE SellsFit'
    <2>1. call'.op # "exit" \/ call'.step \notin Planning
      BY <1>3 DEF StartEntry, StartClose, Begin
    <2>. QED BY <1>1, <1>3, <2>1 DEF StartEntry, StartClose
  <1>4. ASSUME FirstRead \/ FirstProtectionRead \/ ReadFails \/ LookupFails \/ LookupFound
               \/ Answer \/ Commit \/ Raise \/ Crash \/ Restart
        PROVE  SellsFit'
    <2>1. call'.step \notin Planning
      BY <1>4, IdleType, ReturnType, GoToType
         DEF FirstRead, FirstProtectionRead, ReadFails, LookupFails, LookupFound, Answer, Commit,
             Raise, Crash, Restart, Steps, Outcomes
    <2>. QED
      BY <1>1, <1>4, <2>1
         DEF FirstRead, FirstProtectionRead, ReadFails, LookupFails, LookupFound, Answer, Commit,
             Raise, Crash, Restart
  <1>5. ASSUME SecondProtectionRead \/ LookupMisses PROVE SellsFit'
    <2>1. /\ UNCHANGED <<orders, legs, net>>
          /\ \/ call'.step = "return"
             \/ /\ call'.op = call.op /\ call'.c = call.c /\ call'.qty = call.qty
                /\ call.step \in Planning
      BY <1>5, ReturnType, GoToType DEF SecondProtectionRead, LookupMisses, Steps, Outcomes
    <2>. QED BY <2>1, SameBooks, KinderStep
  <1>6. ASSUME SecondRead PROVE SellsFit'
    <2>1. PICK c \in Cand, local \in Int : c = call.c /\ local = call.qty
      BY <1>6 DEF SecondRead, TypeOK, CallType
    <2>2. /\ call'.op = call.op /\ call'.c = c /\ call'.qty = Sellable(c, local)
          /\ UNCHANGED <<orders, legs, net>>
      BY <1>6, <2>1 DEF SecondRead, TypeOK, CallType
    <2>3. orders[ExitKey(c)].status = "none" => Reserved(c) = legs[c].qty
      BY BooksType DEF Reserved, Working, Leg
    <2>4. Free(c, Sellable(c, local))
      BY <2>3, BooksType, SellableBound DEF Free
    <2>5. PlanFits'
      BY <2>2, <2>4 DEF PlanFits, Free, Position, Bought, Sold
    <2>6. NeverShort'
      BY <2>2, SameBooks, KinderBooks
    <2>7. PendingFits'
      BY <2>2 DEF PendingFits, Free, Position, Bought, Sold
    <2>. QED BY <2>5, <2>6, <2>7 DEF SellsFit
  <1>7. ASSUME CancelProtection PROVE SellsFit'
    <2>1. call'.step \notin Planning
      <3>1. CASE call' = [call EXCEPT !.step = "read2", !.cancelled = (legs' # legs)]
        <4>1. PICK b \in BOOLEAN : call' = [call EXCEPT !.step = "read2", !.cancelled = b]
          BY <3>1, Zenon
        <4>. QED BY <4>1, CancelType
      <3>. QED BY <1>7, <3>1, ReturnType DEF CancelProtection, Outcomes
    <2>2. ASSUME NEW c \in Cand PROVE Kinder(c)
      <3>1. /\ UNCHANGED orders
            /\ legs'[c].sold = legs[c].sold
            /\ legs'[c].qty = legs[c].qty \/ legs'[c].qty = 0
        BY <1>7 DEF CancelProtection, Cancelled, TypeOK, Leg
      <3>2. Position(c)' = Position(c)
        BY <3>1 DEF Position, Bought, Sold
      <3>3. Reserved(c)' <= Reserved(c) /\ Reserved(c)' \in Int
        BY <3>1, BooksType DEF Reserved, Order, Leg
      <3>. QED BY <3>1, <3>2, <3>3, BooksType DEF Kinder, Leg
    <2>. QED BY <1>7, <2>1, <2>2, KinderStep DEF CancelProtection
  <1>8. ASSUME SubmitEntry PROVE SellsFit'
    <2>1. CallKey = EntryKey(call.c) /\ call.c \in Cand
      BY <1>8, CallKeyFacts DEF SubmitEntry
    <2>2. \A r \in net' : r \in net \/ r.key \notin {ExitKey(c) : c \in Cand}
      BY <1>8, <2>1, KeyFacts DEF SubmitEntry
    <2>3. call'.step \notin Planning
      BY <1>8, ReturnType, GoToType DEF SubmitEntry, Steps, Outcomes
    <2>. QED BY <1>8, <2>2, <2>3, SameBooks, KinderStep DEF SubmitEntry
  <1>9. ASSUME SubmitExit PROVE SellsFit'
    <2>1. PICK c \in Cand, q \in Int : c = call.c /\ q = call.qty
      BY <1>9 DEF SubmitExit, TypeOK, CallType
    <2>2. CallKey = ExitKey(c) /\ Free(c, q)
      BY <1>9, <2>1, CallKeyFacts DEF SubmitExit, PlanFits
    <2>3. PendingFits'
      <3> SUFFICES ASSUME NEW r \in net', NEW d \in Cand, r.key = ExitKey(d)
                   PROVE  Free(d, r.qty)'
        BY DEF PendingFits
      <3>1. CASE r \in net
        BY <1>9, <3>1 DEF SubmitExit, PendingFits, Free, Position, Bought, Sold
      <3>2. CASE r = [key |-> ExitKey(c), qty |-> q]
        <4>1. d = c /\ r.qty = q
          BY <3>2, KeyFacts
        <4>. QED BY <1>9, <2>2, <4>1 DEF SubmitExit, Free, Position, Bought, Sold
      <3>. QED BY <1>9, <2>1, <2>2, <3>1, <3>2 DEF SubmitExit
    <2>4. PlanFits'
      BY <1>9, GoToType DEF SubmitExit, PlanFits, Steps
    <2>5. NeverShort'
      BY <1>9, SameBooks, KinderBooks DEF SubmitExit
    <2>. QED BY <2>3, <2>4, <2>5 DEF SellsFit
  <1>10. ASSUME NEW r \in net, Land(r) PROVE SellsFit'
    <2>1. CASE orders[r.key].status # "none" \/ r.key \notin {ExitKey(c) : c \in Cand}
      <3>1. ASSUME NEW c \in Cand PROVE Kinder(c)
        <4>1. UNCHANGED legs /\ orders'[ExitKey(c)] = orders[ExitKey(c)]
          BY <1>10, <2>1, KeyFacts DEF Land, TypeOK
        <4>2. orders'[EntryKey(c)].filled = orders[EntryKey(c)].filled
          BY <1>10, KeyFacts DEF Land, TypeOK, OrdersOK
        <4>3. Position(c)' = Position(c) /\ Reserved(c)' = Reserved(c)
          BY <4>1, <4>2 DEF Position, Bought, Sold, Reserved
        <4>. QED BY <4>1, <4>3, BooksType DEF Kinder
      <3>2. NeverShort'
        BY <3>1, KinderBooks
      <3>3. PendingFits'
        BY <1>10, <3>1, KinderBooks, QtyAssumption DEF Land, PendingFits, TypeOK, Req
      <3>4. PlanFits'
        <4> SUFFICES ASSUME call.op = "exit", call.step \in Planning
                     PROVE  Free(call.c, call.qty)'
          BY <1>10 DEF Land, PlanFits
        <4>1. PICK c \in Cand, q \in Int : c = call.c /\ q = call.qty
          BY DEF TypeOK, CallType
        <4>2. Free(c, q)'
          BY <3>1, <4>1, KinderBooks DEF PlanFits
        <4>. QED BY <1>10, <4>1, <4>2 DEF Land, Free
      <3>. QED BY <3>2, <3>3, <3>4 DEF SellsFit
    <2>2. ASSUME orders[r.key].status = "none", NEW c \in Cand, r.key = ExitKey(c)
          PROVE  SellsFit'
      <3>1. PICK to \in {"new", "rejected"} :
              orders' = [orders EXCEPT ![ExitKey(c)] = [status |-> to, qty |-> r.qty, filled |-> 0]]
        BY <1>10, <2>2 DEF Land
      <3>2. /\ UNCHANGED <<legs, call>> /\ net' \subseteq net
            /\ r.qty \in 1..MaxQty
        BY <1>10 DEF Land, TypeOK, Req
      <3>3. /\ orders'[ExitKey(c)] = [status |-> to, qty |-> r.qty, filled |-> 0]
            /\ orders[ExitKey(c)].filled = 0
            /\ \A d \in Cand : orders'[EntryKey(d)] = orders[EntryKey(d)]
            /\ \A d \in Cand \ {c} : orders'[ExitKey(d)] = orders[ExitKey(d)]
        BY <2>2, <3>1, KeyFacts DEF TypeOK, OrdersOK
      <3>4. \A d \in Cand : Position(d)' = Position(d)
        BY <3>2, <3>3 DEF Position, Bought, Sold
      <3>5. r.qty + legs[c].qty <= Position(c)
        BY <2>2 DEF PendingFits, Free
      <3>6. Reserved(c)' <= Position(c)'
        BY <3>2, <3>3, <3>4, <3>5, BooksType, QtyAssumption DEF Reserved, Working, Leg
      <3>7. \A d \in Cand \ {c} : Reserved(d)' = Reserved(d)
        BY <3>2, <3>3 DEF Reserved
      <3>8. NeverShort'
        <4> SUFFICES ASSUME NEW d \in Cand PROVE Position(d)' >= Reserved(d)'
          BY DEF NeverShort
        <4>1. CASE d = c
          BY <3>2, <3>3, <3>4, <3>6, <4>1, BooksType, QtyAssumption DEF Reserved, Working, Leg
        <4>2. CASE d # c
          BY <3>4, <3>7, <4>2 DEF NeverShort
        <4>. QED BY <4>1, <4>2
      <3>9. \A d \in Cand : \A q : Free(d, q) => Free(d, q)'
        BY <3>2, <3>3, <3>4 DEF Free
      <3>10. PendingFits'
        BY <3>2, <3>9 DEF PendingFits
      <3>11. PlanFits'
        <4> SUFFICES ASSUME call.op = "exit", call.step \in Planning
                     PROVE  Free(call.c, call.qty)'
          BY <3>2 DEF PlanFits
        <4>1. PICK d \in Cand, q \in Int : d = call.c /\ q = call.qty
          BY DEF TypeOK, CallType
        <4>2. Free(d, q)'
          BY <3>9, <4>1 DEF PlanFits
        <4>. QED BY <3>2, <4>1, <4>2 DEF Free
      <3>. QED BY <3>8, <3>10, <3>11 DEF SellsFit
    <2>. QED BY <2>1, <2>2
  <1>11. ASSUME UNCHANGED <<call, net>>, \A c \in Cand : Kinder(c) PROVE SellsFit'
    <2>1. PlanFits'
      <3> SUFFICES ASSUME call.op = "exit", call.step \in Planning
                   PROVE  Free(call.c, call.qty)'
        BY <1>11 DEF PlanFits
      <3>1. PICK c \in Cand, q \in Int : c = call.c /\ q = call.qty
        BY DEF TypeOK, CallType
      <3>2. Free(c, q)'
        BY <1>11, <3>1, KinderBooks DEF PlanFits
      <3>. QED BY <1>11, <3>1, <3>2 DEF Free
    <2>2. NeverShort' /\ PendingFits'
      BY <1>11, KinderBooks, QtyAssumption DEF PendingFits, TypeOK, Req
    <2>. QED BY <2>1, <2>2 DEF SellsFit
  <1>12. ASSUME NEW k \in Keys, Fill(k) PROVE SellsFit'
    <2>1. orders[k] \in Order
      BY DEF TypeOK
    <2>2. PICK n \in 1..(orders[k].qty - orders[k].filled), to \in {"filled"} \cup Working :
            orders' = [orders EXCEPT ![k] = [status |-> to, qty |-> orders[k].qty,
                                             filled |-> orders[k].filled + n]]
      BY <1>12, <2>1 DEF Fill, Fillable, RawStatuses, Order, Working
    <2>3. orders[k].status \in Working /\ UNCHANGED <<legs, call, net>>
      BY <1>12 DEF Fill, Fillable, Working
    <2>4. to = "filled" => n = orders[k].qty - orders[k].filled
      BY <1>12, <2>1, <2>2 DEF Fill, TypeOK, Working, Order
    <2>5. ASSUME NEW c \in Cand PROVE Kinder(c)
      <3>1. CASE k = ExitKey(c)
        <4>1. /\ orders'[ExitKey(c)].filled = orders[k].filled + n
              /\ orders'[ExitKey(c)].qty = orders[k].qty
              /\ orders'[ExitKey(c)].status = to
              /\ orders'[EntryKey(c)] = orders[EntryKey(c)]
          BY <2>2, <3>1, KeyFacts DEF TypeOK
        <4>2. Position(c)' = Position(c) - n
          BY <2>1, <2>3, <3>1, <4>1, BooksType DEF Position, Bought, Sold, Order, Leg
        <4>3. Reserved(c)' = Reserved(c) - n
          BY <2>1, <2>3, <2>4, <3>1, <4>1, BooksType DEF Reserved, Order, Leg
        <4>. QED BY <2>1, <2>3, <3>1, <4>1, <4>2, <4>3, BooksType DEF Kinder, Working
      <3>2. CASE k # ExitKey(c)
        <4>1. /\ orders'[ExitKey(c)] = orders[ExitKey(c)]
              /\ orders'[EntryKey(c)].filled >= orders[EntryKey(c)].filled
              /\ orders'[EntryKey(c)].filled \in Int
          BY <2>1, <2>2, <3>2, KeyFacts, BooksType DEF TypeOK, Order
        <4>2. Position(c)' >= Position(c) /\ Position(c)' \in Int
          BY <2>3, <4>1, BooksType DEF Position, Bought, Sold, Order, Leg
        <4>3. Reserved(c)' = Reserved(c)
          BY <2>3, <4>1 DEF Reserved
        <4>. QED BY <2>3, <4>1, <4>2, <4>3, BooksType DEF Kinder
      <3>. QED BY <3>1, <3>2
    <2>. QED BY <1>11, <2>3, <2>5
  <1>13. ASSUME NEW k \in Keys, \/ Expire(k) \/ CancelOrder(k) \/ CancelConfirm(k)
                                \/ Hold(k) \/ Resume(k)
         PROVE  SellsFit'
    <2>1. PICK to \in RawStatuses \ {"none"} : orders' = [orders EXCEPT ![k].status = to]
      BY <1>13 DEF Expire, CancelOrder, CancelConfirm, Hold, Resume, OrderMoves, RawStatuses
    <2>2. orders[k].status \in Working /\ UNCHANGED <<legs, call, net>>
      BY <1>13 DEF Expire, CancelOrder, CancelConfirm, Hold, Resume, OrderMoves, Working
    <2>3. ASSUME NEW c \in Cand PROVE Kinder(c)
      <3>1. /\ orders'[EntryKey(c)].filled = orders[EntryKey(c)].filled
            /\ orders'[ExitKey(c)].filled = orders[ExitKey(c)].filled
            /\ orders'[ExitKey(c)].qty = orders[ExitKey(c)].qty
            /\ \/ orders'[ExitKey(c)].status = orders[ExitKey(c)].status
               \/ orders'[ExitKey(c)].status # "none" /\ orders[ExitKey(c)].status \in Working
        BY <2>1, <2>2, KeyFacts, BooksType DEF TypeOK, Order
      <3>2. Position(c)' = Position(c)
        BY <2>2, <3>1 DEF Position, Bought, Sold
      <3>3. Reserved(c)' <= Reserved(c) /\ Reserved(c)' \in Int
        BY <2>2, <3>1, BooksType, KeyFacts DEF Reserved, Order, Leg, OrdersOK
      <3>. QED BY <2>2, <3>1, <3>2, <3>3, BooksType DEF Kinder
    <2>. QED BY <1>11, <2>2, <2>3
  <1>14. ASSUME NEW c \in Cand, StopFills(c) \/ StopCancelled(c) \/ StopStays(c) PROVE SellsFit'
    <2>1. UNCHANGED <<orders, call, net>>
      BY <1>14 DEF StopFills, StopCancelled, StopStays
    <2>2. ASSUME NEW d \in Cand PROVE Kinder(d)
      <3>1. PICK n \in Nat, m \in Nat : /\ legs'[d].sold = legs[d].sold + n
                                        /\ legs'[d].qty = legs[d].qty - n - m
        <4>1. CASE d = c /\ StopFills(c)
          <5>1. PICK n \in 1..legs[c].qty : legs'[c].sold = legs[c].sold + n
                                            /\ legs'[c].qty = legs[c].qty - n
            BY <4>1 DEF StopFills, TypeOK, Leg
          <5>. QED BY <4>1, <5>1, BooksType DEF Leg
        <4>2. CASE d = c /\ StopCancelled(c)
          <5>1. legs'[c].sold = legs[c].sold + 0 /\ legs'[c].qty = legs[c].qty - 0 - legs[c].qty
            BY <4>2, BooksType DEF StopCancelled, TypeOK, Leg
          <5>. QED BY <4>2, <5>1, BooksType DEF Leg
        <4>3. CASE d # c \/ StopStays(c)
          <5>1. legs'[d].sold = legs[d].sold + 0 /\ legs'[d].qty = legs[d].qty - 0 - 0
            BY <1>14, <4>3, BooksType DEF StopFills, StopCancelled, StopStays, TypeOK, Leg
          <5>. QED BY <5>1
        <4>. QED BY <1>14, <4>1, <4>2, <4>3
      <3>2. Position(d)' = Position(d) - n
        BY <2>1, <3>1, BooksType DEF Position, Bought, Sold, Order, Leg
      <3>3. Reserved(d)' = Reserved(d) - n - m
        BY <2>1, <3>1, BooksType DEF Reserved, Order, Leg
      <3>. QED BY <2>1, <3>1, <3>2, <3>3, BooksType DEF Kinder, Leg
    <2>. QED BY <1>11, <2>1, <2>2
  <1>15. ASSUME NEW c \in Cand, Protect(c) PROVE SellsFit'
    <2>1. /\ UNCHANGED <<orders, call, net>>
          /\ \A d \in Cand \ {c} : legs'[d] = legs[d]
          /\ legs'[c].sold = legs[c].sold /\ legs'[c].qty = Available(c)
          /\ orders[ExitKey(c)].status \notin Working
      BY <1>15 DEF Protect, TypeOK
    <2>2. \A d \in Cand : Position(d)' = Position(d)
      BY <2>1 DEF Position, Bought, Sold
    <2>3. NeverShort'
      <3> SUFFICES ASSUME NEW d \in Cand PROVE Position(d)' >= Reserved(d)'
        BY DEF NeverShort
      <3>1. CASE d = c
        <4>1. Reserved(c)' = Available(c)
          BY <2>1, BooksType DEF Reserved, Available
        <4>2. Reserved(c) >= 0
          BY <2>1, BooksType DEF Reserved, Leg
        <4>. QED BY <2>2, <3>1, <4>1, <4>2, BooksType DEF Available
      <3>2. CASE d # c
        BY <2>1, <2>2, <3>2 DEF NeverShort, Reserved
      <3>. QED BY <3>1, <3>2
    <2>4. PendingFits'
      BY <1>15, <2>1, <2>2 DEF Protect, PendingFits, Free
    <2>5. PlanFits'
      BY <1>15, <2>1, <2>2 DEF Protect, PlanFits, Free, TypeOK
    <2>. QED BY <2>3, <2>4, <2>5 DEF SellsFit
  <1>. QED
    BY <1>2, <1>3, <1>4, <1>5, <1>6, <1>7, <1>8, <1>9, <1>10, <1>12, <1>13, <1>14, <1>15
       DEF Next, CallStarts, ServiceStep, ServiceFault, BrokerStep, vars, ClockUnknown, Reconcile

-----------------------------------------------------------------------------
(* Theorems.                                                               *)

\* The strengthening holds in every state: sells in flight, planned and working
\* all fit the position, and a call's step tells its direction and bound.
THEOREM Invariance == Spec => []IInv
  <1>1. IInv /\ [Next]_vars => IInv'
    BY TypeStep, OrdersStep, CallStep, RowsStep, SellsStep DEF IInv, SellsFit
  <1>. QED BY InitIInv, <1>1, PTL DEF Spec

\* Every variable keeps its type, for any candidates, quantities and Env.
THEOREM TypeCorrect == Spec => []TypeOK
  BY Invariance, PTL DEF IInv

\* The account never promises more shares than it holds, so it never goes short.
THEOREM NeverShortHolds == Spec => []NeverShort
  BY Invariance, PTL DEF IInv

\* No row, committed or not, claims a fill or a protection the broker lacks.
THEOREM RowsNeverAheadHolds == Spec => []RowsNeverAhead
  BY Invariance, PTL DEF IInv

-----------------------------------------------------------------------------
(* What a step may never do: unfreeze early, or repeat a buy.              *)

\* The code's count of clean reconciliations is the true one.
CountOK == clean = agreed

\* Only a reconciliation, a freeze or a restart touches the slot's state.
LEMMA SlotMoves == [Next]_vars => Freeze \/ Steady \/ Restart \/ Reconcile
  <1> SUFFICES ASSUME [Next]_vars PROVE Freeze \/ Steady \/ Restart \/ Reconcile
    OBVIOUS
  <1>1. CASE UNCHANGED vars
    BY <1>1 DEF vars, service, Steady
  <1>2. CASE CallStarts
    BY <1>2 DEF CallStarts, StartEntry, StartClose, ClockUnknown, service, Steady
  <1>3. CASE ServiceStep
    <2>1. ASSUME \/ SubmitEntry \/ FirstRead \/ FirstProtectionRead \/ SecondRead
                 \/ SecondProtectionRead \/ SubmitExit \/ LookupMisses \/ Commit
          PROVE  Steady
      BY <2>1 DEF SubmitEntry, FirstRead, FirstProtectionRead, SecondRead, SecondProtectionRead,
                  SubmitExit, LookupMisses, Commit, service, Steady
    <2>2. CASE CancelProtection
      BY <2>2 DEF CancelProtection
    <2>3. CASE LookupFound \/ Answer
      BY <2>3 DEF LookupFound, Answer, Apply
    <2>. QED BY <1>3, <2>1, <2>2, <2>3 DEF ServiceStep
  <1>4. CASE ServiceFault
    BY <1>4 DEF ServiceFault, ReadFails, LookupFails, Raise, Crash, service, Steady
  <1>5. CASE BrokerStep
    <2>1. ASSUME NEW k \in Keys, \/ Fill(k) \/ Expire(k) \/ CancelOrder(k) \/ CancelConfirm(k)
                                 \/ Hold(k) \/ Resume(k)
          PROVE  Steady
      BY <2>1 DEF Fill, Expire, CancelOrder, CancelConfirm, Hold, Resume, OrderMoves, service,
                  Steady
    <2>. QED BY <1>5, <2>1 DEF BrokerStep, Land, Protect, StopFills, StopCancelled, StopStays,
                               service, Steady
  <1>. QED BY <1>1, <1>2, <1>3, <1>4, <1>5 DEF Next

\* A verdict other than IN_SYNC never makes the slot active.
LEMMA BadVerdict ==
  ASSUME NEW local, NEW reachable \in BOOLEAN, Verdict(local, reachable) # "IN_SYNC"
  PROVE  SlotStateOf(Verdict(local, reachable)) # "ACTIVE"
  <1>1. Verdict(local, reachable) \in {"ERROR", "AMBIGUOUS", "IN_SYNC", "RECOVERABLE"}
    BY DEF Verdict
  <1>. QED BY <1>1 DEF SlotStateOf

\* Both counts go up by one together, are cleared together, or stay.
LEMMA CountStep == TypeOK /\ CountOK /\ [Next]_vars => CountOK'
  <1> SUFFICES ASSUME TypeOK, CountOK, [Next]_vars PROVE CountOK'
    OBVIOUS
  <1>1. ASSUME NEW verdict, Judge(verdict) PROVE CountOK'
    BY <1>1 DEF Judge, CountOK
  <1>2. CASE Reconcile
    BY <1>1, <1>2 DEF Reconcile
  <1>3. CASE Freeze \/ Steady \/ Restart
    BY <1>3 DEF Freeze, Steady, Restart, CountOK
  <1>. QED BY <1>2, <1>3, SlotMoves

\* The count is right, and two of them are what lifts a freeze.
THEOREM UnfreezeNeedsTwoCleanHolds == Spec => UnfreezeNeedsTwoClean
  <1> DEFINE Two == (slotState # "ACTIVE" /\ slotState' = "ACTIVE" /\ call.step # "down")
                      => agreed' = 2
  <1>1. Init => CountOK
    BY DEF Init, CountOK
  <1>2. TypeOK /\ CountOK /\ [Next]_vars => [Two]_vars
    <2> SUFFICES ASSUME TypeOK, CountOK, [Next]_vars, slotState # "ACTIVE",
                        slotState' = "ACTIVE", call.step # "down"
                 PROVE  agreed' = 2
      OBVIOUS
    <2>1. CASE Freeze \/ Steady \/ Restart
      BY <2>1 DEF Freeze, Steady, Restart
    <2>2. CASE Reconcile
      <3>1. PICK local \in LocalBooks, reachable \in BOOLEAN : Judge(Verdict(local, reachable))
        BY <2>2 DEF Reconcile
      <3>2. CASE Verdict(local, reachable) = "IN_SYNC"
        BY <3>1, <3>2 DEF Judge, CountOK, TypeOK, Least, CleanCap
      <3>3. CASE Verdict(local, reachable) # "IN_SYNC"
        BY <3>1, <3>3, BadVerdict DEF Judge
      <3>. QED BY <3>2, <3>3
    <2>. QED BY <2>1, <2>2, SlotMoves
  <1>. QED BY <1>1, <1>2, CountStep, TypeCorrect, PTL DEF Spec, UnfreezeNeedsTwoClean

-----------------------------------------------------------------------------
(* What a step may never do: repeat a buy.                                 *)

\* Between calls the session holds what is committed.
IdleOK == call.step \in {"idle", "down"} => tx = db

\* An entry past its guard still has the slot active, and the row it created is
\* in the open transaction only; nothing is sent while execution is disabled.
EntryOK == /\ call.op = "entry" /\ call.step \in {"lookup", "submit"}
                => slotState = "ACTIVE" /\ (call.created => db[CallKey] = NoRow)
           /\ call.step = "submit" => enabled

\* Neither moves while the call, the rows, the slot and the flag stay.
LEMMA SameEntry ==
  ASSUME IdleOK, EntryOK, UNCHANGED <<service, call, store>>
  PROVE  IdleOK' /\ EntryOK'
  BY DEF IdleOK, EntryOK, service, store, CallKey

\* Both hold where a call ends or is in one of its other steps.
LEMMA OtherStep ==
  ASSUME call'.step \notin {"idle", "down", "lookup", "submit"}
  PROVE  IdleOK' /\ EntryOK'
  BY DEF IdleOK, EntryOK

\* A call that begins with a new row began with none committed.
LEMMA EntryStep == TypeOK /\ CallOK /\ IdleOK /\ EntryOK /\ [Next]_vars => IdleOK' /\ EntryOK'
  <1> SUFFICES ASSUME TypeOK, CallOK, IdleOK, EntryOK, [Next]_vars PROVE IdleOK' /\ EntryOK'
    OBVIOUS
  <1>1. CASE UNCHANGED vars
    BY <1>1, SameEntry DEF vars
  <1>2. ASSUME NEW c \in Cand, StartEntry(c) PROVE IdleOK' /\ EntryOK'
    <2>1. PICK q \in EntryQty : call' = Begin("entry", c, "lookup", q, tx[EntryKey(c)] = NoRow)
      BY <1>2 DEF StartEntry
    <2>2. PICK b \in BOOLEAN : b = (tx[EntryKey(c)] = NoRow)
      OBVIOUS
    <2>3. call' = Begin("entry", c, "lookup", q, b)
      BY <2>1, <2>2, Zenon
    <2>4. /\ call'.op = "entry" /\ call'.c = c /\ call'.step = "lookup" /\ call'.created = b
      BY <2>3 DEF Begin
    <2>5. CallKey' = EntryKey(c)
      BY <2>4 DEF CallKey, EntryKey
    <2>6. b => db[EntryKey(c)] = NoRow
      BY <1>2, <2>2 DEF StartEntry, IdleOK
    <2>. QED BY <1>2, <2>4, <2>5, <2>6 DEF StartEntry, IdleOK, EntryOK, service
  <1>3. ASSUME NEW c \in Cand, StartClose(c) PROVE IdleOK' /\ EntryOK'
    <2>1. call'.step = "read1"
      BY <1>3 DEF StartClose, Begin
    <2>. QED BY <2>1, OtherStep
  <1>4. CASE ClockUnknown \/ Reconcile
    BY <1>4 DEF ClockUnknown, Reconcile, IdleOK, EntryOK, store
  <1>5. ASSUME NEW o, ReturnWith(o) PROVE IdleOK' /\ EntryOK'
    <2>1. call'.step = "return"
      BY <1>5 DEF ReturnWith
    <2>. QED BY <2>1, OtherStep
  <1>6. CASE ReadFails \/ LookupFound \/ LookupFails \/ Answer
    BY <1>5, <1>6 DEF ReadFails, LookupFound, LookupFails, Answer
  <1>7. ASSUME NEW step \in Steps \ {"idle", "down", "lookup", "submit"},
               GoTo(step), call.step \notin {"idle", "down"}
        PROVE  IdleOK' /\ EntryOK'
    BY <1>7, GoToType, OtherStep
  <1>8. CASE SubmitEntry \/ SubmitExit
    BY <1>5, <1>7, <1>8 DEF SubmitEntry, SubmitExit, Steps
  <1>9. CASE FirstRead
    BY <1>5, <1>7, <1>9 DEF FirstRead, Steps
  <1>10. CASE FirstProtectionRead
    BY <1>7, <1>10 DEF FirstProtectionRead, Steps
  <1>11. CASE CancelProtection
    <2>1. CASE \E o : ReturnWith(o)
      BY <1>5, <2>1
    <2>2. CASE call' = [call EXCEPT !.step = "read2", !.cancelled = (legs' # legs)]
      <3>1. PICK b \in BOOLEAN : b = (legs' # legs)
        OBVIOUS
      <3>2. call' = [call EXCEPT !.step = "read2", !.cancelled = b]
        BY <2>2, <3>1, Zenon
      <3>. QED BY <3>2, CancelType, OtherStep
    <2>. QED BY <1>11, <2>1, <2>2 DEF CancelProtection
  <1>12. CASE SecondRead
    <2>1. call'.step = "legs2"
      BY <1>12 DEF SecondRead, TypeOK, CallType
    <2>. QED BY <2>1, OtherStep
  <1>13. CASE SecondProtectionRead
    <2>1. CASE \E o : ReturnWith(o)
      BY <1>5, <2>1
    <2>2. CASE GoTo("lookup")
      <3>1. call'.step = "lookup" /\ call'.op = "exit"
        BY <1>13, <2>2, GoToType DEF SecondProtectionRead, CallOK, Steps
      <3>. QED BY <3>1 DEF IdleOK, EntryOK
    <2>. QED BY <1>13, <2>1, <2>2 DEF SecondProtectionRead
  <1>14. CASE LookupMisses
    <2>1. CASE \E o : ReturnWith(o)
      BY <1>5, <2>1
    <2>2. CASE enabled /\ GoTo("submit")
      <3>1. /\ call' = [call EXCEPT !.step = "submit"] /\ call \in CallType
            /\ call.step = "lookup" /\ UNCHANGED <<service, store>>
        BY <1>14, <2>2 DEF LookupMisses, GoTo, TypeOK
      <3>2. /\ call'.step = "submit" /\ call'.op = call.op /\ call'.c = call.c
            /\ call'.created = call.created
        BY <3>1 DEF CallType
      <3>. QED BY <2>2, <3>1, <3>2 DEF IdleOK, EntryOK, CallKey, service, store
    <2>. QED BY <1>14, <2>1, <2>2 DEF LookupMisses
  <1>15. ASSUME call'.step \in {"idle", "down"}, tx' = db' PROVE IdleOK' /\ EntryOK'
    BY <1>15 DEF IdleOK, EntryOK
  <1>16. CASE Commit \/ Raise \/ Crash
    BY <1>15, <1>16, IdleType DEF Commit, Raise, Crash
  <1>17. CASE Restart
    BY <1>15, <1>17, IdleType DEF Restart, IdleOK, store
  <1>18. CASE BrokerStep
    <2>1. ASSUME NEW k \in Keys, \/ Fill(k) \/ Expire(k) \/ CancelOrder(k) \/ CancelConfirm(k)
                                 \/ Hold(k) \/ Resume(k)
          PROVE  UNCHANGED <<service, call, store>>
      BY <2>1 DEF Fill, Expire, CancelOrder, CancelConfirm, Hold, Resume, OrderMoves
    <2>2. UNCHANGED <<service, call, store>>
      BY <1>18, <2>1 DEF BrokerStep, Land, Protect, StopFills, StopCancelled, StopStays
    <2>. QED BY <2>2, SameEntry
  <1>. QED BY <1>1, <1>2, <1>3, <1>4, <1>6, <1>8, <1>9, <1>10, <1>11, <1>12, <1>13, <1>14,
              <1>16, <1>17, <1>18 DEF Next, CallStarts, ServiceStep, ServiceFault

\* Nothing but a submission sends.
LEMMA SendStep ==
  ASSUME [Next]_vars, NEW r \in net' \ net
  PROVE  /\ call.step = "submit" /\ UNCHANGED <<slotState, enabled, db>>
         /\ \/ r.key[1] # "entry"
            \/ call.op = "entry" /\ call.created /\ r.key = CallKey
  <1>1. CASE UNCHANGED net
    BY <1>1
  <1>2. CASE SubmitEntry
    <2>1. r = [key |-> CallKey, qty |-> call.qty] /\ call.created
      BY <1>2 DEF SubmitEntry
    <2>. QED BY <1>2, <2>1 DEF SubmitEntry, service, store
  <1>3. CASE SubmitExit
    <2>1. r = [key |-> CallKey, qty |-> call.qty]
      BY <1>3 DEF SubmitExit
    <2>2. r.key[1] = "exit"
      BY <1>3, <2>1 DEF SubmitExit, CallKey
    <2>. QED BY <1>3, <2>2 DEF SubmitExit, service, store
  <1>4. CASE \E s \in net : Land(s)
    BY <1>4 DEF Land
  <1>5. CASE CallStarts \/ ServiceFault
    <2>1. UNCHANGED net
      BY <1>5 DEF CallStarts, StartEntry, StartClose, ClockUnknown, Reconcile, ServiceFault,
                  ReadFails, LookupFails, Raise, Crash, Restart, broker
    <2>. QED BY <1>1, <2>1
  <1>6. CASE \/ FirstRead \/ FirstProtectionRead \/ CancelProtection \/ SecondRead
             \/ SecondProtectionRead \/ LookupFound \/ LookupMisses \/ Answer \/ Commit
    <2>1. UNCHANGED net
      BY <1>6 DEF FirstRead, FirstProtectionRead, CancelProtection, SecondRead, broker,
                  SecondProtectionRead, LookupFound, LookupMisses, Answer, Commit
    <2>. QED BY <1>1, <2>1
  <1>7. CASE \/ \E k \in Keys : \/ Fill(k) \/ Expire(k) \/ CancelOrder(k) \/ CancelConfirm(k)
                                \/ Hold(k) \/ Resume(k)
             \/ \E c \in Cand : Protect(c) \/ StopFills(c) \/ StopCancelled(c) \/ StopStays(c)
    <2>1. UNCHANGED net
      BY <1>7 DEF Fill, Expire, CancelOrder, CancelConfirm, Hold, Resume, OrderMoves, Protect,
                  StopFills, StopCancelled, StopStays
    <2>. QED BY <1>1, <2>1
  <1>8. CASE UNCHANGED vars
    BY <1>1, <1>8 DEF vars, broker
  <1>. QED BY <1>2, <1>3, <1>4, <1>5, <1>6, <1>7, <1>8 DEF Next, ServiceStep, BrokerStep

\* A buy goes out only from an active slot with execution enabled, and only for a
\* key no committed row has, whatever crashed or was rolled back before it.
THEOREM BuysOnlyNewKeysHolds == Spec => BuysOnlyNewKeys
  <1> DEFINE New == \A r \in net' \ net : r.key[1] = "entry"
                      => slotState = "ACTIVE" /\ db[r.key] = NoRow /\ enabled
  <1>1. Init => IdleOK /\ EntryOK
    BY DEF Init, IdleOK, EntryOK, IdleCall
  <1>2. IInv /\ IdleOK /\ EntryOK /\ [Next]_vars => IdleOK' /\ EntryOK'
    BY EntryStep DEF IInv
  <1>3. IdleOK /\ EntryOK /\ [Next]_vars => [New]_vars
    <2> SUFFICES ASSUME EntryOK, [Next]_vars, NEW r \in net' \ net, r.key[1] = "entry"
                 PROVE  slotState = "ACTIVE" /\ db[r.key] = NoRow /\ enabled
      OBVIOUS
    <2>. QED BY SendStep DEF EntryOK
  <1>. QED BY <1>1, <1>2, <1>3, Invariance, PTL DEF Spec, BuysOnlyNewKeys

-----------------------------------------------------------------------------
(* The account implements the ledger it promises.                          *)

boughtNow == [c \in Cand |-> Bought(c)]
soldNow   == [c \in Cand |-> Sold(c)]

\* Shares arriving for one candidate, at most one order's worth, are a Buy.
LEMMA LedgerBuy ==
  ASSUME NEW c \in Cand, NEW n \in 1..(MaxQty - Bought(c)),
         boughtNow' = [boughtNow EXCEPT ![c] = Bought(c) + n], soldNow' = soldNow
  PROVE  Ledger!LedgerNext
  BY DEF boughtNow, soldNow, Ledger!LedgerNext, Ledger!Buy

\* Shares leaving one candidate, at most what is held, are a Sell.
LEMMA LedgerSell ==
  ASSUME NEW c \in Cand, NEW n \in 1..(Bought(c) - Sold(c)),
         soldNow' = [soldNow EXCEPT ![c] = Sold(c) + n], boughtNow' = boughtNow
  PROVE  Ledger!LedgerNext
  BY DEF boughtNow, soldNow, Ledger!LedgerNext, Ledger!Sell

\* Every step of the service or the broker is a Buy, a Sell or no change.
LEMMA LedgerStep == IInv /\ IInv' /\ [Next]_vars => [Ledger!LedgerNext]_(Ledger!ledgerVars)
  <1> SUFFICES ASSUME IInv, IInv', [Next]_vars
               PROVE  Ledger!LedgerNext \/ UNCHANGED <<boughtNow, soldNow>>
    BY DEF Ledger!ledgerVars, boughtNow, soldNow
  <1> USE DEF IInv
  <1>1. ASSUME \A k \in Keys : orders'[k].filled = orders[k].filled,
               \A c \in Cand : legs'[c].sold = legs[c].sold
        PROVE  UNCHANGED <<boughtNow, soldNow>>
    BY <1>1, KeyFacts DEF boughtNow, soldNow, Bought, Sold
  <1>2. ASSUME NEW k \in Keys, Fill(k) PROVE Ledger!LedgerNext
    <2>1. orders[k] \in Order
      BY DEF TypeOK
    <2>2. PICK n \in 1..(orders[k].qty - orders[k].filled), to \in RawStatuses :
            orders' = [orders EXCEPT ![k] = [status |-> to, qty |-> orders[k].qty,
                                             filled |-> orders[k].filled + n]]
      BY <1>2, <2>1 DEF Fill, Fillable, RawStatuses, Order
    <2>3. PICK c \in Cand : k = EntryKey(c) \/ k = ExitKey(c)
      BY DEF Keys, EntryKey, ExitKey
    <2>4. UNCHANGED legs
      BY <1>2 DEF Fill
    <2>5. CASE k = EntryKey(c)
      <3>1. boughtNow' = [boughtNow EXCEPT ![c] = Bought(c) + n] /\ soldNow' = soldNow
        BY <2>2, <2>4, <2>5, KeyFacts DEF boughtNow, soldNow, Bought, Sold, TypeOK
      <3>2. n \in 1..(MaxQty - Bought(c))
        BY <2>1, <2>2, <2>5, QtyAssumption DEF Bought, Order, OrdersOK
      <3>. QED BY <3>1, <3>2, LedgerBuy
    <2>6. CASE k = ExitKey(c)
      <3>1. soldNow' = [soldNow EXCEPT ![c] = Sold(c) + n] /\ boughtNow' = boughtNow
        <4>1. \A d \in Cand : d # c => Sold(d)' = Sold(d)
          BY <2>2, <2>4, <2>6, KeyFacts DEF Sold, TypeOK
        <4>2. Sold(c)' = Sold(c) + n
          BY <2>1, <2>2, <2>4, <2>6, KeyFacts, BooksType DEF Sold, TypeOK, Order, Leg
        <4>3. \A d \in Cand : Bought(d)' = Bought(d)
          BY <2>2, <2>6, KeyFacts DEF Bought, TypeOK
        <4>. QED BY <4>1, <4>2, <4>3 DEF soldNow, boughtNow
      <3>2. n \in 1..(Bought(c) - Sold(c))
        <4>1. Position(c) >= Reserved(c) /\ orders[k].status \in Working
          BY <1>2 DEF NeverShort, Fill, Fillable, Working
        <4>. QED BY <2>1, <2>2, <2>6, <4>1, BooksType
                 DEF Position, Bought, Sold, Reserved, Order, Leg
      <3>. QED BY <3>1, <3>2, LedgerSell
    <2>. QED BY <2>3, <2>5, <2>6
  <1>3. ASSUME NEW c \in Cand, StopFills(c) PROVE Ledger!LedgerNext
    <2>1. legs[c] \in Leg /\ UNCHANGED orders
      BY <1>3 DEF StopFills, TypeOK
    <2>2. PICK n \in 1..legs[c].qty : /\ legs'[c].sold = legs[c].sold + n
                                      /\ \A d \in Cand \ {c} : legs'[d] = legs[d]
      BY <1>3 DEF StopFills, TypeOK
    <2>3. soldNow' = [soldNow EXCEPT ![c] = Sold(c) + n] /\ boughtNow' = boughtNow
      <3>1. Sold(c)' = Sold(c) + n
        BY <2>1, <2>2, BooksType DEF Sold, Order, Leg
      <3>2. \A d \in Cand \ {c} : Sold(d)' = Sold(d)
        BY <2>1, <2>2 DEF Sold
      <3>. QED BY <2>1, <3>1, <3>2 DEF soldNow, boughtNow, Bought
    <2>4. n \in 1..(Bought(c) - Sold(c))
      <3>1. Position(c) >= Reserved(c) /\ Reserved(c) >= legs[c].qty
        BY BooksType, KeyFacts DEF NeverShort, Reserved, OrdersOK, Order, Leg
      <3>. QED BY <2>1, <2>2, <3>1, BooksType DEF Position, Bought, Sold, Order, Leg
    <2>. QED BY <2>3, <2>4, LedgerSell
  <1>4. ASSUME NEW r \in net, Land(r) PROVE UNCHANGED <<boughtNow, soldNow>>
    BY <1>1, <1>4 DEF Land, OrdersOK, TypeOK, Req
  <1>5. ASSUME NEW k \in Keys, \/ Expire(k) \/ CancelOrder(k) \/ CancelConfirm(k)
                               \/ Hold(k) \/ Resume(k)
        PROVE  UNCHANGED <<boughtNow, soldNow>>
    <2>1. /\ \E to : orders' = [orders EXCEPT ![k].status = to]
          /\ UNCHANGED legs
      BY <1>5 DEF Expire, CancelOrder, CancelConfirm, Hold, Resume, OrderMoves
    <2>2. \A j \in Keys : orders'[j].filled = orders[j].filled
      BY <2>1 DEF TypeOK, Order
    <2>. QED BY <1>1, <2>1, <2>2
  <1>6. ASSUME \/ CancelProtection
               \/ \E c \in Cand : Protect(c) \/ StopCancelled(c) \/ StopStays(c)
        PROVE  UNCHANGED <<boughtNow, soldNow>>
    <2>1. UNCHANGED orders
      BY <1>6 DEF CancelProtection, Protect, StopCancelled, StopStays
    <2>2. ASSUME CancelProtection, NEW d \in Cand PROVE legs'[d].sold = legs[d].sold
      BY <2>2 DEF CancelProtection, Cancelled, TypeOK, Leg
    <2>3. ASSUME NEW c \in Cand, Protect(c) \/ StopCancelled(c) \/ StopStays(c), NEW d \in Cand
          PROVE  legs'[d].sold = legs[d].sold
      BY <2>3 DEF Protect, StopCancelled, StopStays, TypeOK, Leg
    <2>. QED BY <1>1, <1>6, <2>1, <2>2, <2>3
  <1>7. ASSUME UNCHANGED <<orders, legs>> PROVE UNCHANGED <<boughtNow, soldNow>>
    BY <1>1, <1>7
  <1>. QED
    BY <1>2, <1>3, <1>4, <1>5, <1>6, <1>7
       DEF Next, CallStarts, ServiceStep, ServiceFault, BrokerStep, vars, broker, StartEntry,
           StartClose, ClockUnknown, Reconcile, SubmitEntry, FirstRead, FirstProtectionRead,
           SecondRead, SecondProtectionRead, SubmitExit, LookupFound, LookupMisses, Answer, Commit,
           ReadFails, LookupFails, Raise, Crash, Restart

\* Through crashes, lost answers and racing stops, the account's buys and sells
\* are those of the ledger: one order's worth bought, nothing oversold.
THEOREM ImplementsLedgerHolds == Spec => ImplementsLedger
  <1>1. Init => Ledger!LedgerInit
    BY KeyFacts DEF Init, NoOrder, NoLeg, Bought, Sold, Ledger!LedgerInit
  <1>. QED BY <1>1, Invariance, LedgerStep, PTL DEF Spec, ImplementsLedger, Ledger!LedgerSpec
=============================================================================
