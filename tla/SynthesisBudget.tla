-------------------------- MODULE SynthesisBudget --------------------------
(***************************************************************************)
(* The paid call of the AI synthesis: the monthly cap and the per-run cap  *)
(* checked before it, the ledger row written before and rewritten after    *)
(* it, and the cache of validated answers.                                 *)
(*                                                                         *)
(* Every invocation of the pilot is a process with its own CostGuard; the  *)
(* ledger file is shared.  Each connection to it is one transaction, and   *)
(* between two of them other invocations run and any process may die.  The *)
(* ledger is kept as the sum of its charged rows, month by month, next to  *)
(* the row each process has in hand; the provider is external.             *)
(*                                                                         *)
(* The estimate counts a quarter of the characters of part of the request, *)
(* so what the provider charges may exceed it.  A row holds the estimate   *)
(* until it is rewritten for what the answer says was used, for the        *)
(* estimate again when the answer does not say, or for nothing when the    *)
(* failure is one that counts as rejected before inference.                *)
(***************************************************************************)
EXTENDS Integers, FiniteSets

CONSTANTS
    Run,        \* invocations
    Packet,     \* evidence packets that carry evidence
    Estimate,   \* what the guard estimates for each packet
    Ceiling,    \* what an estimate is at most: packets and answers have a size limit
    Usage,      \* what the provider may really charge for each packet
    Excess,     \* what it charges above an estimate at most
    Cap,        \* monthly_cap_usd
    Calls,      \* per_run_calls
    LastMonth,  \* bound: months
    Breaches    \* bound: charged answers of a month that are taken for rejections

ASSUME BudgetAssumption ==
    /\ IsFiniteSet(Run) /\ Run # {} /\ Packet # {} /\ Calls \in Nat \ {0}
    /\ {Cap, Ceiling, Excess, LastMonth, Breaches} \subseteq Nat
    /\ Estimate \in [Packet -> 0 .. Ceiling]
    /\ Usage \in [Packet -> SUBSET Nat]
    /\ \A x \in Packet : Usage[x] \subseteq 0 .. (Estimate[x] + Excess)

VARIABLES
    month,    \* the current month
    spent,    \* month_spend_usd of each month
    cache,    \* packets with a validated answer
    pc,       \* where each invocation is
    call,     \* the call each invocation has in hand
    made,     \* calls_made of its guard
    sent,     \* history: its calls that reached the provider
    bill,     \* history: what the provider charged for calls of each month
    blind,    \* history: its charged calls whose row was left at the estimate
    free      \* history: its charged calls whose row was rewritten for nothing

vars == <<month, spent, cache, pc, call, made, sent, bill, blind, free>>
charged == <<bill, blind, free>>

Month == 0 .. LastMonth

\* The basis is what the row will be rewritten for.
Call == [packet : Packet, month : Month, basis : {"estimate", "usage", "nothing"}, used : Nat]

NoCall == [packet |-> CHOOSE x \in Packet : TRUE, month |-> 0, basis |-> "estimate", used |-> 0]

Init ==
    /\ month = 0 /\ spent = [m \in Month |-> 0] /\ bill = [m \in Month |-> 0]
    /\ blind = [m \in Month |-> 0] /\ free = [m \in Month |-> 0]
    /\ cache = {} /\ pc = [r \in Run |-> "off"]
    /\ call = [r \in Run |-> NoCall]
    /\ made = [r \in Run |-> 0] /\ sent = [r \in Run |-> 0]

Cost(r) == Estimate[call[r].packet]
Move(r, from, to) == pc[r] = from /\ pc' = [pc EXCEPT ![r] = to]

\* _billed
Billed(r) == IF call[r].basis = "usage" THEN call[r].used
             ELSE IF call[r].basis = "nothing" THEN 0 ELSE Cost(r)

\* Charged calls of a month whose row does not say what they used, and still may.
Pending(m) == {r \in Run : /\ call[r].month = m
                           /\ \/ pc[r] = "inferred"
                              \/ pc[r] \in {"answered", "settle"} /\ call[r].basis = "usage"}

\* synthesise returns.
Return(r) == call' = [call EXCEPT ![r] = NoCall]

Count(history, r) == [history EXCEPT ![call[r].month] = @ + 1]

----------------------------------------------------------------------------
(* Before the call *)

\* A new invocation has a new guard.
Begin(r) ==
    /\ Move(r, "off", "ready")
    /\ made' = [made EXCEPT ![r] = 0] /\ sent' = [sent EXCEPT ![r] = 0]
    /\ UNCHANGED <<month, spent, cache, call, charged>>

\* The cache has no answer for this packet: the call is stamped.
Miss(r, x) ==
    /\ Move(r, "ready", "check") /\ x \notin cache
    /\ call' = [call EXCEPT ![r] = [NoCall EXCEPT !.packet = x, !.month = month]]
    /\ UNCHANGED <<month, spent, cache, made, sent, charged>>

\* Mutant: a month may be spent up to the cap before a call is refused.
MutAllowed(r) == made[r] < Calls /\ spent[call[r].month] <= Cap

Allowed(r) == made[r] < Calls /\ Cost(r) <= Cap - spent[call[r].month]

Approve(r) ==
    /\ Move(r, "check", "approved") /\ Allowed(r)
    /\ UNCHANGED <<month, spent, cache, call, made, sent, charged>>

\* A refused call is recorded at nothing.
Refuse(r) ==
    /\ Move(r, "check", "ready") /\ ~Allowed(r) /\ Return(r)
    /\ UNCHANGED <<month, spent, cache, made, sent, charged>>

\* Mutant: a call is counted when it has been settled.
MutDispatch(r) ==
    /\ Move(r, "approved", "sent")
    /\ spent' = [spent EXCEPT ![call[r].month] = @ + Cost(r)]
    /\ UNCHANGED <<month, cache, call, made, sent, charged>>

\* The row is written at its estimate and the call is counted.
Dispatch(r) ==
    /\ Move(r, "approved", "sent")
    /\ spent' = [spent EXCEPT ![call[r].month] = @ + Cost(r)]
    /\ made' = [made EXCEPT ![r] = @ + 1]
    /\ UNCHANGED <<month, cache, call, sent, charged>>

----------------------------------------------------------------------------
(* The provider *)

\* It generates an answer and charges for it, whoever is still listening.
Infer(r, u) ==
    /\ Move(r, "sent", "inferred") /\ u \in Usage[call[r].packet]
    /\ bill' = [bill EXCEPT ![call[r].month] = @ + u]
    /\ call' = [call EXCEPT ![r].used = u]
    /\ sent' = [sent EXCEPT ![r] = @ + 1]
    /\ UNCHANGED <<month, spent, cache, made, blind, free>>

\* It rejects the request before it generates anything.
RejectedBeforeInference(r) ==
    /\ Move(r, "sent", "settle")
    /\ call' = [call EXCEPT ![r].basis = "nothing"] /\ sent' = [sent EXCEPT ![r] = @ + 1]
    /\ UNCHANGED <<month, spent, cache, made, charged>>

\* Mutant: a call without an answer is taken for a rejected one.
MutUnanswered(r) ==
    /\ pc[r] \in {"sent", "inferred"} /\ pc' = [pc EXCEPT ![r] = "settle"]
    /\ call' = [call EXCEPT ![r].basis = "nothing"]
    /\ sent' = [sent EXCEPT ![r] = IF pc[r] = "sent" THEN @ + 1 ELSE @]
    /\ blind' = IF pc[r] = "inferred" THEN Count(blind, r) ELSE blind
    /\ UNCHANGED <<month, spent, cache, made, bill, free>>

\* Timeout or outage, before or after the provider generated: no usage is known.
Unanswered(r) ==
    /\ pc[r] \in {"sent", "inferred"} /\ pc' = [pc EXCEPT ![r] = "settle"]
    /\ sent' = [sent EXCEPT ![r] = IF pc[r] = "sent" THEN @ + 1 ELSE @]
    /\ blind' = IF pc[r] = "inferred" THEN Count(blind, r) ELSE blind
    /\ UNCHANGED <<month, spent, cache, call, made, bill, free>>

\* A completion that reports what it used.
Answered(r) ==
    /\ Move(r, "inferred", "answered")
    /\ call' = [call EXCEPT ![r].basis = "usage"]
    /\ UNCHANGED <<month, spent, cache, made, sent, charged>>

\* A completion that does not.
Unreported(r) ==
    /\ Move(r, "inferred", "answered") /\ blind' = Count(blind, r)
    /\ UNCHANGED <<month, spent, cache, call, made, sent, bill, free>>

\* One that does not either, and whose content parses but breaks the contract:
\* a SCHEMA_VIOLATION, as which a rejected request counts too.
Breach(r) ==
    /\ Move(r, "inferred", "settle") /\ free[call[r].month] < Breaches
    /\ call' = [call EXCEPT ![r].basis = "nothing"] /\ free' = Count(free, r)
    /\ UNCHANGED <<month, spent, cache, made, sent, bill, blind>>

----------------------------------------------------------------------------
(* After the call *)

\* No usable candidate, or one the validator rejects.
Discard(r) ==
    /\ Move(r, "answered", "settle")
    /\ UNCHANGED <<month, spent, cache, call, made, sent, charged>>

\* A validated answer is cached before its row is rewritten.
Put(r) ==
    /\ Move(r, "answered", "settle") /\ cache' = cache \union {call[r].packet}
    /\ UNCHANGED <<month, spent, call, made, sent, charged>>

\* Mutant: the reservation is taken back from the current month.
MutSettleNow(r) ==
    /\ Move(r, "settle", "ready") /\ Return(r)
    /\ spent' = [spent EXCEPT ![month] = @ - Cost(r) + Billed(r)]
    /\ UNCHANGED <<month, cache, made, sent, charged>>

\* The row is rewritten under its own call_id.
Settle(r) ==
    /\ Move(r, "settle", "ready") /\ Return(r)
    /\ spent' = [spent EXCEPT ![call[r].month] = @ - Cost(r) + Billed(r)]
    /\ UNCHANGED <<month, cache, made, sent, charged>>

\* The invocation ends, or is killed with its row as it stands.
End(r) ==
    /\ pc[r] # "off" /\ pc' = [pc EXCEPT ![r] = "off"] /\ Return(r)
    /\ blind' = IF r \in Pending(call[r].month) THEN Count(blind, r) ELSE blind
    /\ UNCHANGED <<month, spent, cache, made, sent, bill, free>>

\* The provider may still generate for a process that died waiting.
Orphaned(r, u) ==
    /\ Move(r, "sent", "off") /\ u \in Usage[call[r].packet]
    /\ bill' = [bill EXCEPT ![call[r].month] = @ + u] /\ sent' = [sent EXCEPT ![r] = @ + 1]
    /\ blind' = Count(blind, r) /\ Return(r)
    /\ UNCHANGED <<month, spent, cache, made, free>>

NextMonth ==
    /\ month < LastMonth /\ month' = month + 1
    /\ UNCHANGED <<spent, cache, pc, call, made, sent, charged>>

Next ==
    \/ \E r \in Run :
         \/ Begin(r) \/ Approve(r) \/ Refuse(r) \/ Dispatch(r) \/ RejectedBeforeInference(r)
         \/ Unanswered(r) \/ Answered(r) \/ Unreported(r) \/ Breach(r)
         \/ Discard(r) \/ Put(r) \/ Settle(r) \/ End(r)
         \/ \E x \in Packet : Miss(r, x) \/ (\E u \in Usage[x] : Infer(r, u) \/ Orphaned(r, u))
    \/ NextMonth

Spec == Init /\ [][Next]_vars

----------------------------------------------------------------------------
(* Properties *)

TypeOK ==
    /\ month \in Month /\ spent \in [Month -> Nat] /\ bill \in [Month -> Nat]
    /\ blind \in [Month -> Nat] /\ free \in [Month -> 0 .. Breaches]
    /\ cache \subseteq Packet /\ call \in [Run -> Call]
    /\ pc \in [Run -> {"off", "ready", "check", "approved", "sent", "inferred", "answered",
                       "settle"}]
    /\ made \in [Run -> 0 .. Calls] /\ sent \in [Run -> Nat]

\* However invocations overlap, the month's spend passes the cap by at most one
\* estimate for every invocation beyond the first, and by what the last call of
\* each turned out to cost above its estimate.
OvershootBounded ==
    \A m \in Month :
        spent[m] <= Cap + (Cardinality(Run) - 1) * Ceiling + Cardinality(Run) * Excess

\* The ledger says less than the provider charges only by what no row can know:
\* the excess of a call whose usage was never or is not yet recorded, and the
\* answers that were taken for rejections.
LedgerNearBill ==
    \A m \in Month :
        bill[m] <= spent[m] + Excess * (blind[m] + Cardinality(Pending(m)))
                            + (Ceiling + Excess) * free[m]

\* An invocation never reaches the provider more often than its cap allows,
\* failed calls included.
RunBounded == \A r \in Run : sent[r] <= Calls

----------------------------------------------------------------------------
(* What the repository's text says and the code does not do *)

\* budget.py calls an estimate "Worst-case cost of one request", so that one
\* invocation alone would keep a month within the cap.
CapHolds == \A m \in Month : spent[m] <= Cap

\* provider.py, of the failures charged at nothing: "the provider generated
\* nothing, so nothing was billed".
NothingBilled == \A r \in Run : pc[r] = "settle" /\ call[r].basis = "nothing" => call[r].used = 0
=============================================================================
