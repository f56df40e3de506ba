---------------------------- MODULE ForwardPaper ----------------------------
(***************************************************************************)
(* The forward paper experiment: one ForwardPaperService, bound to one     *)
(* paper account, against its database session and its broker.             *)
(*                                                                         *)
(* A call of the service is split wherever the broker can be reached, so   *)
(* the broker fills, expires and cancels orders between any two of its     *)
(* steps, the process can die at any of them, and a request whose answer   *)
(* was lost can still land later.  Database work of one call is one        *)
(* transaction: the repository only flushes, the caller commits when the   *)
(* call returns and rolls back when it raises.                             *)
(*                                                                         *)
(* A candidate stands for its symbol too: the fan-out refuses a candidate  *)
(* whose symbol the account already holds or has an order for.             *)
(***************************************************************************)
EXTENDS Integers, FiniteSets

CONSTANTS
    Cand,      \* candidates the strategy proposes to this account
    NoCand,    \* the candidate of a service that is not in a call
    MaxQty,    \* bound: the largest whole-share quantity sized or believed
    EntryQty,  \* the quantities the sizer proposes for an entry
    Env        \* which of EnvKinds may happen outside the service

EnvKinds == { "crash",    \* the process dies and is started again
              "read",     \* a position or protective-order read raises
              "lookup",   \* the lookup by client_order_id raises
              "gate",     \* a gate of the submission boundary refuses
              "reject",   \* the broker rejects an order it received
              "expire",   \* a DAY order reaches the close unfilled
              "cancel",   \* somebody cancels a working order at the broker
              "other",    \* the broker reports a status the code lacks
              "protect",  \* a stop order is placed on an unreserved position
              "belief",   \* a close is asked for less than the entry filled
              "books" }   \* the books reconciled disagree with the broker

ASSUME QtyAssumption == MaxQty \in Nat /\ EntryQty \subseteq 1..MaxQty
ASSUME CandAssumption == NoCand \notin Cand
ASSUME EnvAssumption == Env \subseteq EnvKinds

VARIABLES
    slotState,  \* ForwardPaperService.slot_state, in memory only
    clean,      \* ForwardPaperService.consecutive_clean, capped at CleanCap
    enabled,    \* ForwardPaperService.execution_enabled
    call,       \* the call in progress and its local variables
    tx,         \* paper_broker_orders as the open session sees it
    db,         \* paper_broker_orders as committed
    orders,     \* the broker's orders, by client_order_id
    legs,       \* the broker's protective stop of each candidate
    net,        \* submissions sent and not yet received by the broker
    agreed      \* history: IN_SYNC verdicts since the last freeze or mismatch

service == <<slotState, clean, enabled>>
store   == <<tx, db>>
broker  == <<orders, legs, net>>
vars    == <<service, call, store, broker, agreed>>

-----------------------------------------------------------------------------
(* Names of the code.                                                      *)

EntryKey(c) == <<"entry", c>>
ExitKey(c)  == <<"exit", c>>
Keys        == {"entry", "exit"} \X Cand

SlotStates == {"ACTIVE", "ENTRY_FROZEN", "BROKER_UNAVAILABLE", "RECONCILIATION_REQUIRED"}
Statuses   == {"NEW", "PARTIALLY_FILLED", "FILLED", "CANCELED", "REJECTED", "EXPIRED", "UNKNOWN"}
Outcomes   == {"none", "ORDER_READY", "SUBMITTED", "RECOVERED", "REFUSED", "KEY_USED",
               "FROZEN", "NOTHING_TO_DO"}
Steps      == {"idle", "down", "read1", "legs1", "cancel", "read2", "legs2",
               "lookup", "submit", "sent", "return"}

\* The broker's own vocabulary.  "held" stands for every status the table of
\* aliases does not list (held, replaced, done_for_day, suspended, ...).
RawStatuses == {"none", "new", "partially_filled", "filled", "canceled",
                "pending_cancel", "rejected", "expired", "held"}
Working     == {"new", "partially_filled", "pending_cancel", "held"}
Fillable    == {"new", "partially_filled", "pending_cancel"}

\* Mutant: the broker's status stored as it came.
MutRawStatus(raw) == raw

\* A cancel still pending is reported as done; what is not listed is UNKNOWN.
NormaliseStatus(raw) ==
    CASE raw = "new"              -> "NEW"
      [] raw = "partially_filled" -> "PARTIALLY_FILLED"
      [] raw = "filled"           -> "FILLED"
      [] raw \in {"canceled", "pending_cancel"} -> "CANCELED"
      [] raw = "rejected"         -> "REJECTED"
      [] raw = "expired"          -> "EXPIRED"
      [] OTHER                    -> "UNKNOWN"

Order == [status : RawStatuses, qty : Nat, filled : Nat]
Leg   == [status : {"none", "working", "pending_cancel"}, qty : Nat, sold : Nat]
Row   == [status : Statuses \cup {"none", "ORDER_READY"}, filled : Nat, protected : Nat]
Req   == [key : Keys, qty : 1..MaxQty]

NoOrder  == [status |-> "none", qty |-> 0, filled |-> 0]
NoLeg    == [status |-> "none", qty |-> 0, sold |-> 0]
NoRow    == [status |-> "none", filled |-> 0, protected |-> 0]
ReadyRow == [status |-> "ORDER_READY", filled |-> 0, protected |-> 0]

IdleCall == [op |-> "none", c |-> NoCand, step |-> "idle", qty |-> 0, after |-> 0,
             created |-> FALSE, cancelled |-> FALSE, outcome |-> "none"]

CleanCap == 2   \* bound: only "two or more" is ever asked of consecutive_clean

\* The key the call in progress asks the broker about.
CallKey == <<call.op, call.c>>

-----------------------------------------------------------------------------
(* The broker's books, as its read surface reports them.                   *)

Bought(c) == orders[EntryKey(c)].filled
Sold(c)   == orders[ExitKey(c)].filled + legs[c].sold
Position(c) == Bought(c) - Sold(c)

\* Shares promised to a working sell, the stop included.
Reserved(c) == legs[c].qty + (IF orders[ExitKey(c)].status \in Working
                              THEN orders[ExitKey(c)].qty - orders[ExitKey(c)].filled
                              ELSE 0)
Available(c) == Position(c) - Reserved(c)

Least(a, b) == IF a <= b THEN a ELSE b

-----------------------------------------------------------------------------
(* Helpers shared by both directions of a close or an entry.               *)

Init == /\ slotState = "ACTIVE" /\ clean = 0 /\ enabled \in BOOLEAN
        /\ call = IdleCall
        /\ tx = [k \in Keys |-> NoRow] /\ db = tx
        /\ orders = [k \in Keys |-> NoOrder]
        /\ legs = [c \in Cand |-> NoLeg]
        /\ net = {} /\ agreed = 0

\* Mutant: a freeze that keeps the count of clean reconciliations.
MutFreezeKeepsCount == /\ slotState' = "RECONCILIATION_REQUIRED"
                       /\ agreed' = 0
                       /\ UNCHANGED clean

\* _freeze: a frozen slot starts counting clean reconciliations again.
Freeze == /\ slotState' = "RECONCILIATION_REQUIRED"
          /\ clean' = 0
          /\ agreed' = 0

Steady == UNCHANGED <<slotState, clean, agreed>>

\* The local variables of a call that has begun.
Begin(op, c, step, q, created) ==
    [op |-> op, c |-> c, step |-> step, qty |-> q, after |-> 0, created |-> created,
     cancelled |-> FALSE, outcome |-> "none"]

\* The call is about to hand its result to the caller.
ReturnWith(o) == call' = [op |-> call.op, c |-> call.c, step |-> "return", qty |-> 0,
                          after |-> 0, created |-> FALSE, cancelled |-> call.cancelled,
                          outcome |-> o]

GoTo(step) == call' = [call EXCEPT !.step = step]

\* record_order_intent: an existing row is returned untouched.
RecordIntent(k) == IF tx[k] = NoRow THEN [tx EXCEPT ![k] = ReadyRow] ELSE tx

\* Mutant: the requested quantity recorded as if it had filled.
MutAppliedRequest(k) ==
    LET status == NormaliseStatus(orders[k].status)
    IN  [status    |-> status,
         filled    |-> orders[k].qty,
         protected |-> IF status \in {"FILLED", "PARTIALLY_FILLED"}
                       THEN orders[k].qty ELSE 0]

\* _apply: broker truth written back; protection is claimed for what filled.
AppliedRow(k) ==
    LET status == NormaliseStatus(orders[k].status)
    IN  [status    |-> status,
         filled    |-> orders[k].filled,
         protected |-> IF status \in {"FILLED", "PARTIALLY_FILLED"}
                       THEN orders[k].filled ELSE 0]

Apply(k) == /\ tx' = [tx EXCEPT ![k] = AppliedRow(k)]
            /\ IF NormaliseStatus(orders[k].status) = "UNKNOWN" THEN Freeze ELSE Steady

-----------------------------------------------------------------------------
(* prepare_entry                                                           *)

\* The slot guard, the whole-share validation and the row of the intent.
StartEntry(c) ==
    /\ call.step = "idle"
    /\ slotState = "ACTIVE"
    /\ \E q \in EntryQty :
         call' = Begin("entry", c, "lookup", q, tx[EntryKey(c)] = NoRow)
    /\ tx' = RecordIntent(EntryKey(c))
    /\ UNCHANGED <<service, db, broker, agreed>>

\* Mutant: a buy sent again although its row was already there.
MutSubmitEntryAgain ==
    /\ call.step = "submit" /\ call.op = "entry"
    /\ GoTo("sent")
    /\ net' = net \cup {[key |-> CallKey, qty |-> call.qty]}
    /\ UNCHANGED <<service, store, orders, legs, agreed>>

\* The submission boundary: any gate may refuse, a row that was already there
\* always does, and only then is the market order sent.
SubmitEntry ==
    /\ call.step = "submit" /\ call.op = "entry"
    /\ \/ /\ "gate" \in Env
          /\ ReturnWith("REFUSED")
          /\ UNCHANGED net
       \/ /\ ~call.created
          /\ ReturnWith("KEY_USED")
          /\ UNCHANGED net
       \/ /\ call.created
          /\ GoTo("sent")
          /\ net' = net \cup {[key |-> CallKey, qty |-> call.qty]}
    /\ UNCHANGED <<service, store, orders, legs, agreed>>

-----------------------------------------------------------------------------
(* close_on_expiry and plan_protected_exit                                 *)

\* The holding clock: UNKNOWN freezes, HOLDING changes nothing, EXPIRED or
\* OVERDUE goes on to the plan.  A horizon of three sessions is only over when
\* the entry, a DAY order, has long ended.
HorizonOver(c) == Bought(c) > 0 /\ orders[EntryKey(c)].status \notin Working

StartClose(c) ==
    /\ call.step = "idle"
    /\ HorizonOver(c)
    /\ \E local \in {Bought(c)} \cup (IF "belief" \in Env THEN 1..MaxQty ELSE {}) :
         call' = Begin("exit", c, "read1", local, FALSE)
    /\ UNCHANGED <<service, store, broker, agreed>>

ClockUnknown ==
    /\ call.step = "idle"
    /\ "read" \in Env
    /\ Freeze
    /\ UNCHANGED <<enabled, call, store, broker>>

\* Any read of the plan may raise: the exit is AMBIGUOUS and the slot freezes.
ReadFails ==
    /\ call.step \in {"read1", "legs1", "read2", "legs2"}
    /\ "read" \in Env
    /\ Freeze
    /\ ReturnWith("FROZEN")
    /\ UNCHANGED <<enabled, store, broker>>

FirstRead ==
    /\ call.step = "read1"
    /\ IF Position(call.c) <= 0 THEN ReturnWith("NOTHING_TO_DO") ELSE GoTo("legs1")
    /\ UNCHANGED <<service, store, broker, agreed>>

FirstProtectionRead ==
    /\ call.step = "legs1"
    /\ GoTo(IF legs[call.c].status = "working" THEN "cancel" ELSE "read2")
    /\ UNCHANGED <<service, store, broker, agreed>>

Cancelled(c) == { [legs EXCEPT ![c].status = "none", ![c].qty = 0],
                  [legs EXCEPT ![c].status = "pending_cancel"] }

\* The broker drops the stop at once, only accepts the request to drop it,
\* refuses it, or the call raises with the stop in any of these states.
CancelProtection ==
    LET c == call.c
    IN  /\ call.step = "cancel"
        /\ \/ legs[c].status = "working" /\ legs' \in Cancelled(c)
           \/ UNCHANGED legs
        /\ \/ /\ call' = [call EXCEPT !.step = "read2", !.cancelled = (legs' # legs)]
              /\ Steady
           \/ "read" \in Env /\ Freeze /\ ReturnWith("FROZEN")
        /\ UNCHANGED <<enabled, store, orders, net>>

\* Mutant: shares reserved by another working sell counted as sellable.
MutSellReserved(c, local) == Least(Position(c), local)

\* Mutant: local belief sizes the sell.
MutSellBelief(c, local) == local

\* The second read: what may be sold is capped by the broker's position, by
\* what the broker says is unreserved, and by local belief.
Sellable(c, local) == Least(Least(Position(c), Available(c)), local)

SecondRead ==
    /\ call.step = "read2"
    /\ call' = [call EXCEPT !.step = "legs2", !.after = Position(call.c),
                            !.qty = Sellable(call.c, call.qty)]
    /\ UNCHANGED <<service, store, broker, agreed>>

\* The last three refusals of the plan, then the row of the exit's intent.
SecondProtectionRead ==
    /\ call.step = "legs2"
    /\ \/ /\ call.after <= 0
          /\ ReturnWith("NOTHING_TO_DO")
          /\ UNCHANGED tx
       \/ /\ call.after > 0
          /\ legs[call.c].status = "working" \/ call.qty <= 0
          /\ ReturnWith("REFUSED")
          /\ UNCHANGED tx
       \/ /\ call.after > 0
          /\ legs[call.c].status # "working" /\ call.qty > 0
          /\ GoTo("lookup")
          /\ tx' = RecordIntent(CallKey)
    /\ UNCHANGED <<service, db, broker, agreed>>

\* submit_exit: a refusal here is not caught, so the call raises.
SubmitExit ==
    /\ call.step = "submit" /\ call.op = "exit"
    /\ GoTo("sent")
    /\ net' = net \cup {[key |-> CallKey, qty |-> call.qty]}
    /\ UNCHANGED <<service, store, orders, legs, agreed>>

-----------------------------------------------------------------------------
(* What both directions share: recovery, the answer, and how a call ends.  *)

\* _recover by client_order_id, always before anything is sent.
LookupFound ==
    /\ call.step = "lookup"
    /\ orders[CallKey].status # "none"
    /\ Apply(CallKey)
    /\ ReturnWith("RECOVERED")
    /\ UNCHANGED <<enabled, db, broker>>

LookupFails ==
    /\ call.step = "lookup"
    /\ "lookup" \in Env
    /\ Freeze
    /\ ReturnWith("FROZEN")
    /\ UNCHANGED <<enabled, store, broker>>

\* Mutant: an exit whose row is already there refused like an entry's.
MutLookupMissesOnce ==
    /\ call.step = "lookup"
    /\ orders[CallKey].status = "none"
    /\ IF enabled /\ db[CallKey] = NoRow THEN GoTo("submit") ELSE ReturnWith("ORDER_READY")
    /\ UNCHANGED <<service, store, broker, agreed>>

LookupMisses ==
    /\ call.step = "lookup"
    /\ orders[CallKey].status = "none"
    /\ IF enabled THEN GoTo("submit") ELSE ReturnWith("ORDER_READY")
    /\ UNCHANGED <<service, store, broker, agreed>>

\* The submission is answered with the order as the broker has it by now.
Answer ==
    /\ call.step = "sent"
    /\ orders[CallKey].status # "none"
    /\ orders[CallKey].qty = call.qty
    /\ [key |-> CallKey, qty |-> call.qty] \notin net
    /\ Apply(CallKey)
    /\ ReturnWith("SUBMITTED")
    /\ UNCHANGED <<enabled, db, broker>>

\* A submission may raise whether or not it lands: it timed out, or the broker
\* refused the key as a duplicate.  Nothing but a gate's refusal of an entry is
\* caught, so the caller rolls back.
Raise ==
    /\ \/ call.step = "sent"
       \/ call.step = "submit" /\ call.op = "exit" /\ "gate" \in Env
    /\ call' = IdleCall
    /\ tx' = db
    /\ UNCHANGED <<service, db, broker, agreed>>

\* The call has returned and the caller's session scope commits.
Commit ==
    /\ call.step = "return"
    /\ call' = IdleCall
    /\ db' = tx
    /\ UNCHANGED <<service, tx, broker, agreed>>

\* The process dies anywhere: memory and the open transaction are gone.
Crash ==
    /\ "crash" \in Env
    /\ call.step # "down"
    /\ call' = [IdleCall EXCEPT !.step = "down"]
    /\ tx' = db
    /\ UNCHANGED <<service, db, broker, agreed>>

\* A new service object: slot_state and consecutive_clean have their defaults,
\* and the execution flag is whatever it is configured to be now.
Restart ==
    /\ call.step = "down"
    /\ call' = IdleCall
    /\ slotState' = "ACTIVE" /\ clean' = 0 /\ agreed' = 0
    /\ enabled' \in BOOLEAN
    /\ UNCHANGED <<store, broker>>

-----------------------------------------------------------------------------
(* reconcile                                                               *)

\* unprotected_positions: filled beyond what is claimed as protected.
Unprotected == { k \in Keys : /\ tx[k].filled > tx[k].protected
                              /\ tx[k].status \in {"FILLED", "PARTIALLY_FILLED"} }

\* reconcile_slot over the broker's positions and the local ones.
Verdict(local, reachable) ==
    LET held    == { c \in Cand : Position(c) # 0 }
        unknown == { c \in held : local[c] = 0 }
    IN  CASE ~reachable                              -> "ERROR"
          [] reachable /\ Unprotected # {}           -> "AMBIGUOUS"
          [] reachable /\ Unprotected = {} /\ unknown # {} -> "AMBIGUOUS"
          [] OTHER -> IF \A c \in Cand : local[c] = Position(c) THEN "IN_SYNC" ELSE "RECOVERABLE"

SlotStateOf(verdict) ==
    CASE verdict = "ERROR"       -> "BROKER_UNAVAILABLE"
      [] verdict = "AMBIGUOUS"   -> "RECONCILIATION_REQUIRED"
      [] verdict = "RECOVERABLE" -> "ENTRY_FROZEN"
      [] OTHER                   -> "ACTIVE"

\* Two clean verdicts in a row lift a freeze, anything else sets one.
Judge(verdict) ==
    IF verdict = "IN_SYNC"
    THEN /\ clean' = Least(clean + 1, CleanCap)
         /\ agreed' = Least(agreed + 1, CleanCap)
         /\ slotState' = IF clean' >= 2 THEN "ACTIVE" ELSE slotState
    ELSE /\ clean' = 0
         /\ agreed' = 0
         /\ slotState' = SlotStateOf(verdict)

\* The books the caller passes: right, or short of anything the broker did
\* since they were written.
LocalBooks == {[c \in Cand |-> Position(c)]}
              \cup (IF "books" \in Env THEN [Cand -> 0..MaxQty] ELSE {})

Reconcile ==
    /\ call.step = "idle"
    /\ \E local \in LocalBooks, reachable \in BOOLEAN :
         /\ reachable \/ "read" \in Env
         /\ Judge(Verdict(local, reachable))
    /\ UNCHANGED <<enabled, call, store, broker>>

-----------------------------------------------------------------------------
(* The broker and the account's operator: external to src/, modelled from  *)
(* what the service relies on.  The broker takes any sell it receives and  *)
(* fills it even into a short; it does take at most one order per key.     *)

Land(r) ==
    /\ r \in net
    /\ net' = net \ {r}
    /\ \E status \in {"new"} \cup (IF "reject" \in Env THEN {"rejected"} ELSE {}) :
         orders' = IF orders[r.key].status = "none"
                   THEN [orders EXCEPT ![r.key] = [status |-> status, qty |-> r.qty, filled |-> 0]]
                   ELSE orders
    /\ UNCHANGED <<service, call, store, legs, agreed>>

Fill(k) ==
    /\ orders[k].status \in Fillable
    /\ \E n \in 1..(orders[k].qty - orders[k].filled) :
         LET total == orders[k].filled + n
             status == IF total = orders[k].qty THEN "filled"
                       ELSE IF orders[k].status = "pending_cancel" THEN "pending_cancel"
                       ELSE "partially_filled"
         IN  orders' = [orders EXCEPT ![k] = [status |-> status, qty |-> @.qty, filled |-> total]]
    /\ UNCHANGED <<service, call, store, legs, net, agreed>>

\* What ends a working order short of its fill, or hides its status.
OrderMoves(k, when, from, to) ==
    /\ when \in Env
    /\ orders[k].status \in from
    /\ orders' = [orders EXCEPT ![k].status = to]
    /\ UNCHANGED <<service, call, store, legs, net, agreed>>

Expire(k)        == OrderMoves(k, "expire", {"new", "partially_filled"}, "expired")
CancelOrder(k)   == OrderMoves(k, "cancel", {"new", "partially_filled"}, "pending_cancel")
CancelConfirm(k) == OrderMoves(k, "cancel", {"pending_cancel"}, "canceled")
Hold(k)          == OrderMoves(k, "other", {"new", "partially_filled"}, "held")
Resume(k)        == OrderMoves(k, "other", {"held"}, "new")

\* A stop is placed on unreserved shares, never while a close of them runs.
Protect(c) ==
    /\ "protect" \in Env
    /\ legs[c].status = "none" /\ Available(c) > 0
    /\ ~(call.op = "exit" /\ call.c = c)
    /\ orders[ExitKey(c)].status \notin Working
    /\ \A r \in net : r.key # ExitKey(c)
    /\ legs' = [legs EXCEPT ![c] = [status |-> "working", qty |-> Available(c), sold |-> @.sold]]
    /\ UNCHANGED <<service, call, store, orders, net, agreed>>

\* The stop triggers, also while its cancellation is pending.
StopFills(c) ==
    /\ legs[c].qty > 0
    /\ \E n \in 1..legs[c].qty :
         legs' = [legs EXCEPT ![c] = [status |-> IF n = @.qty THEN "none" ELSE @.status,
                                      qty    |-> @.qty - n,
                                      sold   |-> @.sold + n]]
    /\ UNCHANGED <<service, call, store, orders, net, agreed>>

\* A pending cancellation is confirmed, or rejected.
StopCancelled(c) ==
    /\ legs[c].status = "pending_cancel"
    /\ legs' = [legs EXCEPT ![c].status = "none", ![c].qty = 0]
    /\ UNCHANGED <<service, call, store, orders, net, agreed>>

StopStays(c) ==
    /\ legs[c].status = "pending_cancel"
    /\ legs' = [legs EXCEPT ![c].status = "working"]
    /\ UNCHANGED <<service, call, store, orders, net, agreed>>

-----------------------------------------------------------------------------
ServiceStep == \/ SubmitEntry \/ FirstRead \/ FirstProtectionRead \/ CancelProtection
               \/ SecondRead \/ SecondProtectionRead \/ SubmitExit
               \/ LookupFound \/ LookupMisses \/ Answer \/ Commit

ServiceFault == ReadFails \/ LookupFails \/ Raise \/ Crash \/ Restart

CallStarts == \/ \E c \in Cand : StartEntry(c) \/ StartClose(c)
              \/ ClockUnknown \/ Reconcile

BrokerStep == \/ \E r \in net : Land(r)
              \/ \E k \in Keys : \/ Fill(k) \/ Expire(k) \/ CancelOrder(k) \/ CancelConfirm(k)
                                 \/ Hold(k) \/ Resume(k)
              \/ \E c \in Cand : Protect(c) \/ StopFills(c) \/ StopCancelled(c) \/ StopStays(c)

Next == CallStarts \/ ServiceStep \/ ServiceFault \/ BrokerStep

Spec == Init /\ [][Next]_vars

-----------------------------------------------------------------------------
(* Properties.                                                             *)

CallType == [op : {"none", "entry", "exit"}, c : Cand \cup {NoCand}, step : Steps,
             qty : Int, after : Int, created : BOOLEAN,
             cancelled : BOOLEAN, outcome : Outcomes]

\* Every variable has its type, and a call past its first step knows its candidate.
TypeOK == /\ slotState \in SlotStates /\ clean \in 0..CleanCap /\ enabled \in BOOLEAN
          /\ call \in CallType
          /\ tx \in [Keys -> Row] /\ db \in [Keys -> Row]
          /\ orders \in [Keys -> Order] /\ legs \in [Cand -> Leg]
          /\ net \subseteq Req
          /\ agreed \in 0..CleanCap
          /\ call.step \notin {"idle", "down"} => call.c \in Cand /\ call.op # "none"

\* Whatever stops fill, cancellations race and answers are lost, the account
\* never holds less than it has promised to sell, so it can never go short
\* (plan_protected_exit: read, cancel, read again, sell the remainder).
NeverShort == \A c \in Cand : Position(c) >= Reserved(c)

\* A row never claims a fill the broker does not have, and never claims
\* protection beyond the fill (apply_reconciliation "Never invents a fill").
RowsNeverAhead ==
    \A k \in Keys, rows \in {tx, db} : /\ rows[k].filled <= orders[k].filled
                                      /\ rows[k].protected <= rows[k].filled

\* Buys and sells of the account are those of the ledger it promises: one order's
\* worth bought per candidate, nothing sold that was not bought.
Ledger == INSTANCE PaperLedger WITH bought <- [c \in Cand |-> Bought(c)],
                                    sold   <- [c \in Cand |-> Sold(c)]
ImplementsLedger == Ledger!LedgerSpec

\* A frozen slot opens again only after two reconciliations in a row found the
\* broker and the books in agreement since it froze; a restart is the exception.
UnfreezeNeedsTwoClean ==
    [][ (slotState # "ACTIVE" /\ slotState' = "ACTIVE" /\ call.step # "down")
        => agreed' = 2 ]_vars

\* A buy is sent only from an active slot and only for a key no committed row
\* has: a second process life never repeats an entry it knows of.
BuysOnlyNewKeys ==
    [][ \A r \in net' \ net : r.key[1] = "entry"
          => slotState = "ACTIVE" /\ db[r.key] = NoRow /\ enabled ]_vars

(***************************************************************************)
(* Liveness.  The runner keeps closing a position that is due with books   *)
(* that are not short; the service's steps, the broker's delivery, fills   *)
(* and confirmed cancellations go on; crashes and new stops end some time. *)
(***************************************************************************)
Fairness ==
    /\ WF_vars(ServiceStep) /\ WF_vars(Raise) /\ WF_vars(Restart)
    /\ \A r \in Req : WF_vars(Land(r))
    /\ \A k \in Keys : WF_vars(Fill(k))
    /\ \A c \in Cand : SF_vars(StartClose(c)) /\ SF_vars(StopCancelled(c))
    /\ SF_vars(CancelProtection /\ legs' # legs)
    /\ <>[][~Crash /\ \A c \in Cand : ~Protect(c)]_vars

FairSpec == Spec /\ Fairness

\* While execution stays enabled, the exit of a position past its horizon is carried
\* out in the end, whatever stop, crash or earlier attempt came in between: the
\* position is closed, or the one sell its exit key allows has filled whole
\* (close_on_expiry; the sell is less than the position when a stop whose
\* cancellation is pending still reserves shares).
OverdueSold ==
    <>[]enabled => \A c \in Cand :
        (HorizonOver(c) /\ Position(c) > 0)
            ~> (Position(c) = 0 \/ orders[ExitKey(c)].status = "filled")

-----------------------------------------------------------------------------
(* What the repository's text says and the code does not do.               *)

\* A refusal "idempotency key was already used" is about a submission that was
\* made: forward_service.py lets a lookup miss permit a first submission.
KeyUsedMeansSent ==
    call.outcome = "KEY_USED" =>
        orders[CallKey].status # "none" \/ \E r \in net : r.key = CallKey

\* "Close a position whose frozen horizon has elapsed" (close_on_expiry): nothing
\* of it is left in the end.
OverdueClosed ==
    <>[]enabled => \A c \in Cand : (HorizonOver(c) /\ Position(c) > 0) ~> (Position(c) = 0)

\* Between calls the broker never holds an order no committed row knows of
\* (record_order_intent "Written first on purpose").
NoUnknownOrder ==
    call.step \in {"idle", "down"} =>
        \A k \in Keys : orders[k].status # "none" => db[k] # NoRow

\* A slot frozen by a close still has the protection it found
\* (reconcile_slot "Broker-native protection stays in place").
FreezeKeepsProtection ==
    (call.outcome = "FROZEN" /\ call.cancelled /\ Position(call.c) > 0)
        => legs[call.c].status # "none"
=============================================================================
