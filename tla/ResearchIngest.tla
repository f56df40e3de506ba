--------------------------- MODULE ResearchIngest ---------------------------
(***************************************************************************)
(* Incremental research ingestion: which filings a run looks at, how far   *)
(* each of them has got, and what the next run remembers.                  *)
(*                                                                         *)
(* One run at a time: the lock is a flock, so a second invocation returns  *)
(* without touching anything and a dead process leaves nothing behind.     *)
(* Every store call is a transaction of its own, hence a step of its own   *)
(* where something follows it; a process may die between any two of them.  *)
(* A run is over before the clock moves on.                                *)
(***************************************************************************)
EXTENDS Integers, Sequences

CONSTANTS
    Company,                   \* registrants of the research universe
    Filing,                    \* accessions that may be made
    Owner,                     \* the company a filing belongs to
    Yields,                    \* filings extraction builds an event from
    Docs,                      \* how many documents of a filing are selected
    Unreadable,                \* <<filing, document>>: content this pipeline cannot read
    Holiday,                   \* days EDGAR publishes no index for
    Window,                    \* days a filing stays current
    CatchUp,                   \* MAX_CATCHUP_DAYS
    Backoff,                   \* BACKOFF_MINUTES, in ticks
    LastDay,                   \* bound: days of the history
    Failing,                   \* what may fail: "index", "submissions", ...
    MaxFaults                  \* bound: failures, crashes and operator runs

ASSUME IngestAssumption ==
    /\ Owner \in [Filing -> Company] /\ Yields \subseteq Filing
    /\ Docs \in [Filing -> Nat] /\ Window \in Nat /\ CatchUp \in Nat \ {0}
    /\ LastDay \in Nat \ {0} /\ MaxFaults \in Nat
    /\ Backoff \in Seq(Nat) /\ Len(Backoff) > 0
    /\ "none" \notin Filing /\ "none" \notin Company

VARIABLES
    day,      \* the day a run starts on
    filed,    \* the day each filing was accepted, 0 before
    cursor,   \* cursor_date of the last run that ended OK, NoCursor when null
    check,    \* ingestion_checkpoints: failures, ticks to next_eligible_at, last seen
    acc,      \* accession_state
    events,   \* research_events, by filing
    doc,      \* research_documents: the status of each selected document
    facts,    \* research_facts, by document
    pc,       \* where the run is
    targets,  \* companies still to visit
    scope,    \* accessions a visit is limited to
    todo,     \* pending filings of the company in hand
    newest,   \* the latest of them
    file,     \* the one in hand
    read,     \* documents read in this collection, not yet turned into facts
    left,     \* documents still to read
    verdict,  \* the status of the collection so far
    reached,  \* the cursor this run would store
    failed,   \* a company of this run failed
    faults    \* failures, crashes and operator runs so far

memory == <<targets, scope, todo, newest, file, read, left, verdict, reached, failed>>
store == <<cursor, check, acc, events, doc, facts>>
vars == <<day, filed, store, pc, memory, faults>>

NoCursor == -1
Terminal == {"COMPLETE", "PERMANENT_REFUSAL"}
Unfinished == {"EVENTS_STORED", "RETRYABLE_FAILURE"}
State == Terminal \union Unfinished \union {"DISCOVERED"}
DocStatus == {"unlisted", "listed", "OK", "CONTENT_FETCH_FAILED", "UNSUPPORTED_CONTENT_TYPE"}
Status == {"OK", "CONTENT_FETCH_FAILED", "UNSUPPORTED_CONTENT_TYPE"}

Checkpoint == [failures : Nat, wait : Nat, seen : Filing \union {"none"}]
Document == UNION {{f} \X (1 .. Docs[f]) : f \in Filing}

\* The store has been kept since before the first day: every day up to it is read.
Init ==
    /\ day = 1 /\ filed = [f \in Filing |-> 0] /\ cursor = 0
    /\ check = [c \in Company |-> [failures |-> 0, wait |-> 0, seen |-> "none"]]
    /\ acc = [f \in Filing |-> "DISCOVERED"] /\ events = {} /\ facts = {}
    /\ doc = [x \in Document |-> "unlisted"]
    /\ pc = "idle" /\ targets = {} /\ scope = [c \in Company |-> {}] /\ todo = {}
    /\ newest = "none" /\ file = "none" /\ read = {} /\ left = {} /\ verdict = "OK"
    /\ reached = NoCursor /\ failed = FALSE /\ faults = 0

----------------------------------------------------------------------------
(* Discovery: which companies a run visits, and for which filings *)

\* _pending_days: oldest first, from the day after the cursor, at most CatchUp
\* of them.  A null cursor stands for the day before yesterday.
PendingDays ==
    LET start == IF cursor # NoCursor THEN cursor + 1 ELSE day - 1
    IN  {d \in start .. day : d < start + CatchUp}

UnfinishedOf(c) == {f \in Filing : Owner[f] = c /\ acc[f] \in Unfinished}

\* Mutant: a filing once recorded is not looked for again.
MutRetried(c, delta) == FALSE

\* _with_unfinished_work: companies visited only to finish old work.
Retried(c, delta) == UnfinishedOf(c) # {} /\ \A f \in delta : Owner[f] # c

\* _from_index.  Today's index is published after the day closes and stops the
\* reading; an error on any earlier day, whatever its cause, is read as a day
\* without an index, and the cursor moves on.
FromIndex(out) ==
    LET past  == {d \in PendingDays : d < day}
        delta == {f \in Filing : filed[f] \in past \ (Holiday \union out) /\ filed[f] > 0}
    IN  /\ IF past = {} THEN reached' = NoCursor
           ELSE \E d \in past : reached' = d /\ \A e \in past : e <= d
        /\ scope' = [c \in Company |-> {f \in delta : Owner[f] = c}
                                       \union IF Retried(c, delta) THEN UnfinishedOf(c) ELSE {}]
        /\ targets' = {Owner[f] : f \in delta} \union {c \in Company : Retried(c, delta)}

May(kind) == kind \in Failing /\ faults < MaxFaults

\* The scheduled run.
Start ==
    /\ pc = "idle" /\ pc' = "visit"
    /\ \E out \in SUBSET {d \in PendingDays : d < day /\ d > 0 /\ d \notin Holiday} :
          /\ out # {} => May("index")
          /\ faults' = faults + IF out = {} THEN 0 ELSE 1
          /\ FromIndex(out)
    /\ failed' = FALSE
    /\ UNCHANGED <<day, filed, store, todo, newest, file, read, left, verdict>>

\* A run an operator starts, over some companies and everything they have filed.
Sweep(C) ==
    /\ pc = "idle" /\ May("sweep") /\ pc' = "visit" /\ faults' = faults + 1
    /\ targets' = C /\ scope' = [c \in Company |-> IF c \in C THEN Filing ELSE {}]
    /\ reached' = NoCursor /\ failed' = FALSE
    /\ UNCHANGED <<day, filed, store, todo, newest, file, read, left, verdict>>

\* finish_run: only a run without a failed company is one the cursor is read from.
Finish ==
    /\ pc = "visit" /\ targets = {} /\ pc' = "idle"
    /\ cursor' = IF failed THEN cursor ELSE reached
    /\ scope' = [c \in Company |-> {}] /\ reached' = NoCursor /\ failed' = FALSE
    /\ UNCHANGED <<day, filed, check, acc, events, doc, facts, targets, todo, newest, file, read,
                   left, verdict, faults>>

----------------------------------------------------------------------------
(* One company *)

\* _company: a company that is backed off counts as unchanged, and as ok.
BackedOff(c) ==
    /\ pc = "visit" /\ c \in targets /\ check[c].wait > 0
    /\ targets' = targets \ {c}
    /\ UNCHANGED <<day, filed, store, pc, scope, todo, newest, file, read, left, verdict, reached,
                   failed, faults>>

Least(a, b) == IF a < b THEN a ELSE b

\* record_failure: one more failure, and the company is left alone for a while.
GivesUp(c) ==
    /\ check' = [check EXCEPT ![c].failures = Least(@ + 1, Len(Backoff)),
                              ![c].wait = Backoff[Least(check[c].failures + 1, Len(Backoff))]]
    /\ failed' = TRUE /\ targets' = targets \ {c} /\ faults' = faults + 1

\* Mutant: a filing is pending whatever its state.
MutPending(c) == {f \in scope[c] : Owner[f] = c /\ filed[f] > 0}

\* What a visit has to work on: filed, within the scope and not finished.
Pending(c) == {f \in scope[c] : Owner[f] = c /\ filed[f] > 0 /\ acc[f] \notin Terminal}

Unreachable(c) ==
    /\ pc = "visit" /\ c \in targets /\ check[c].wait = 0 /\ May("submissions")
    /\ GivesUp(c)
    /\ UNCHANGED <<day, filed, cursor, acc, events, doc, facts, pc, scope, todo, newest, file, read,
                   left, verdict, reached>>

\* record_success when nothing is pending.
UpToDate(c) ==
    /\ pc = "visit" /\ c \in targets /\ check[c].wait = 0 /\ Pending(c) = {}
    /\ check' = [check EXCEPT ![c].failures = 0]
    /\ targets' = targets \ {c}
    /\ UNCHANGED <<day, filed, cursor, acc, events, doc, facts, pc, scope, todo, newest, file, read,
                   left, verdict, reached, failed, faults>>

\* Mutant: the checkpoint is advanced as soon as the submissions are read.
MutConsult(c) ==
    /\ pc = "visit" /\ c \in targets /\ check[c].wait = 0 /\ Pending(c) # {}
    /\ pc' = "company" /\ todo' = Pending(c)
    /\ \E f \in Pending(c) : /\ \A g \in Pending(c) : filed[g] <= filed[f]
                             /\ newest' = f /\ check' = [check EXCEPT ![c].seen = f]
    /\ targets' = targets \ {c}
    /\ UNCHANGED <<day, filed, cursor, acc, events, doc, facts, scope, file, read, left,
                   verdict, reached, failed, faults>>

\* _ingest: the submissions are read, and list something to work on.
Consult(c) ==
    /\ pc = "visit" /\ c \in targets /\ check[c].wait = 0 /\ Pending(c) # {}
    /\ pc' = "company" /\ todo' = Pending(c)
    /\ \E f \in Pending(c) : /\ \A g \in Pending(c) : filed[g] <= filed[f]
                             /\ newest' = f
    /\ targets' = targets \ {c}
    /\ UNCHANGED <<day, filed, store, scope, file, read, left, verdict, reached, failed, faults>>

\* record_success once every pending filing has been worked on.
Succeed ==
    /\ pc = "company" /\ todo = {} /\ pc' = "visit"
    /\ check' = [check EXCEPT ![Owner[newest]].failures = 0, ![Owner[newest]].seen = newest]
    /\ newest' = "none"
    /\ UNCHANGED <<day, filed, cursor, acc, events, doc, facts, targets, scope, todo, file, read,
                   left, verdict, reached, failed, faults>>

----------------------------------------------------------------------------
(* One filing *)

\* No event is built from it: there is nothing more to do.
NoEvent(f) ==
    /\ pc = "company" /\ f \in todo \ Yields
    /\ acc' = [acc EXCEPT ![f] = "COMPLETE"] /\ todo' = todo \ {f}
    /\ UNCHANGED <<day, filed, cursor, check, events, doc, facts, pc, targets, scope, newest,
                   file, read, left, verdict, reached, failed, faults>>

\* upsert: the events are stored before anything says so.
StoreEvents(f) ==
    /\ pc = "company" /\ f \in todo \cap Yields /\ pc' = "stored"
    /\ events' = events \union {f} /\ file' = f /\ todo' = todo \ {f}
    /\ UNCHANGED <<day, filed, cursor, check, acc, doc, facts, targets, scope, newest, read,
                   left, verdict, reached, failed, faults>>

\* ... and the filing is marked before its evidence is looked for.
MarkStored ==
    /\ pc = "stored" /\ pc' = "enrich"
    /\ acc' = [acc EXCEPT ![file] = "EVENTS_STORED"]
    /\ UNCHANGED <<day, filed, cursor, check, events, doc, facts, memory, faults>>

\* _mark at the end of _enrich.
Settled(status) ==
    /\ acc' = [acc EXCEPT ![file] = status]
    /\ file' = "none" /\ read' = {} /\ left' = {} /\ verdict' = "OK"
    /\ pc' = "company"
    /\ UNCHANGED <<targets, scope, todo, newest, reached, failed>>

Current(f) == day - filed[f] <= Window

\* Outside its window, or of a kind that carries no document to cite.  The ingestor
\* is always built with an evidence service (cli.py): the branch without one is
\* never taken.
NothingToRead ==
    /\ pc = "enrich" /\ (~Current(file) \/ Docs[file] = 0)
    /\ Settled("COMPLETE")
    /\ UNCHANGED <<day, filed, cursor, check, events, doc, facts, faults>>

Manifest == {x \in Document : x[1] = file}
Listed == \E x \in Manifest : doc[x] # "unlisted"

\* collect: the manifest of a filing is read once, its documents until retrieved.
Collect ==
    /\ pc = "enrich" /\ Current(file) /\ Docs[file] > 0 /\ pc' = "reading"
    /\ doc' = [x \in Document |-> IF x \in Manifest /\ ~Listed THEN "listed" ELSE doc[x]]
    /\ left' = {x \in Manifest : doc[x] # "OK"}
    /\ UNCHANGED <<day, filed, cursor, check, acc, events, facts, targets, scope, todo, newest,
                   file, read, verdict, reached, failed, faults>>

\* The manifest cannot be fetched, or collecting raised: both are retried.
Uncollected ==
    /\ \/ pc = "enrich" /\ Current(file) /\ Docs[file] > 0
       \/ pc = "reading"
    /\ May("evidence") /\ faults' = faults + 1
    /\ Settled("RETRYABLE_FAILURE")
    /\ UNCHANGED <<day, filed, cursor, check, events, doc, facts>>

\* Mutant: what is reported is the status of the last document.
MutVerdict(status) == status

\* The status of a collection is that of the last document that was not read.
Verdict(status) == IF status = "OK" THEN verdict ELSE status

\* _retrieve and update_document, in filing sequence.
ReadDocument(x, status) ==
    /\ pc = "reading" /\ x \in left /\ \A y \in left : x[2] <= y[2]
    /\ IF status = "CONTENT_FETCH_FAILED" THEN May("document") /\ faults' = faults + 1
       ELSE (status = "UNSUPPORTED_CONTENT_TYPE") = (x \in Unreadable) /\ faults' = faults
    /\ doc' = [doc EXCEPT ![x] = status]
    /\ read' = IF status = "OK" THEN read \union {x} ELSE read
    /\ verdict' = Verdict(status)
    /\ left' = left \ {x}
    /\ UNCHANGED <<day, filed, cursor, check, acc, events, facts, pc, targets, scope, todo,
                   newest, file, reached, failed>>

\* upsert_facts, once for all the documents of the filing.
StoreFacts ==
    /\ pc = "reading" /\ left = {} /\ pc' = "read"
    /\ facts' = facts \union read
    /\ UNCHANGED <<day, filed, cursor, check, acc, events, doc, memory, faults>>

\* _EVIDENCE_OUTCOMES.  CHANGED_SOURCE_CONTENT needs a document that was retrieved
\* to be fetched again, and no caller asks for that (refresh).
Outcome(status) ==
    CASE status = "OK" -> "COMPLETE"
      [] status = "UNSUPPORTED_CONTENT_TYPE" -> "PERMANENT_REFUSAL"
      [] OTHER -> "RETRYABLE_FAILURE"

Enriched ==
    /\ pc = "read" /\ Settled(Outcome(verdict))
    /\ UNCHANGED <<day, filed, cursor, check, events, doc, facts, faults>>

----------------------------------------------------------------------------
(* Failures, crashes and time *)

\* Anything else that raises costs this company and nothing else.
Breaks ==
    /\ pc \in {"company", "stored"} /\ May("company") /\ pc' = "visit"
    /\ GivesUp(Owner[newest])
    /\ todo' = {} /\ newest' = "none" /\ file' = "none"
    /\ UNCHANGED <<day, filed, cursor, acc, events, doc, facts, scope, read, left, verdict,
                   reached>>

\* The process dies; its run stays RUNNING and is never read back.
Crash ==
    /\ pc # "idle" /\ May("crash") /\ faults' = faults + 1
    /\ pc' = "idle" /\ targets' = {} /\ scope' = [c \in Company |-> {}] /\ todo' = {}
    /\ newest' = "none" /\ file' = "none" /\ read' = {} /\ left' = {} /\ verdict' = "OK"
    /\ reached' = NoCursor /\ failed' = FALSE
    /\ UNCHANGED <<day, filed, store>>

\* A company files; a holiday has neither filings nor an index.
File(f) ==
    /\ pc = "idle" /\ filed[f] = 0 /\ day \notin Holiday
    /\ filed' = [filed EXCEPT ![f] = day]
    /\ UNCHANGED <<day, store, pc, memory, faults>>

\* Time passes between two runs, and with it the backoffs.
Tick ==
    /\ pc = "idle" /\ (day < LastDay \/ \E c \in Company : check[c].wait > 0)
    /\ day' \in {day, Least(day + 1, LastDay)}
    /\ check' = [c \in Company |-> [check[c] EXCEPT !.wait = IF @ > 0 THEN @ - 1 ELSE 0]]
    /\ UNCHANGED <<filed, cursor, acc, events, doc, facts, pc, memory, faults>>

Work ==
    \/ Finish \/ Succeed \/ MarkStored \/ NothingToRead \/ Collect \/ StoreFacts \/ Enriched
    \/ \E c \in Company : BackedOff(c) \/ UpToDate(c) \/ Consult(c)
    \/ \E f \in Filing : NoEvent(f) \/ StoreEvents(f)
    \/ \E x \in Document, status \in Status : ReadDocument(x, status)

Next ==
    \/ Start \/ Work \/ Uncollected \/ Breaks \/ Crash \/ Tick
    \/ \E C \in SUBSET Company : Sweep(C)
    \/ \E c \in Company : Unreachable(c)
    \/ \E f \in Filing : File(f)

Spec == Init /\ [][Next]_vars

\* launchd starts a run every four hours; a run that is started goes on; time passes.
Fairness == WF_vars(Start) /\ WF_vars(Work) /\ SF_vars(Tick)

FairSpec == Spec /\ Fairness

----------------------------------------------------------------------------
(* Properties *)

\* Every variable holds what its column or its local may hold.
TypeOK ==
    /\ day \in 1 .. LastDay /\ filed \in [Filing -> 0 .. LastDay]
    /\ cursor \in NoCursor .. LastDay /\ check \in [Company -> Checkpoint]
    /\ acc \in [Filing -> State] /\ events \subseteq Filing
    /\ doc \in [Document -> DocStatus] /\ facts \subseteq Document
    /\ targets \subseteq Company /\ scope \in [Company -> SUBSET Filing]
    /\ todo \subseteq Filing /\ newest \in Filing \union {"none"}
    /\ file \in Filing \union {"none"} /\ read \subseteq Document
    /\ left \subseteq Document /\ verdict \in Status /\ reached \in NoCursor .. LastDay
    /\ failed \in BOOLEAN /\ faults \in 0 .. MaxFaults
    /\ pc \in {"idle", "visit", "company", "stored", "enrich", "reading", "read"}

\* What the store says follows what it holds, wherever a process may have died:
\* a filing has a state, or is a checkpoint's last one, only once its events are
\* stored, and a fact only once its document is.
RecordedIsStored ==
    /\ \A f \in Yields : acc[f] # "DISCOVERED" => f \in events
    /\ \A c \in Company : check[c].seen # "none" => acc[check[c].seen] # "DISCOVERED"
    /\ \A x \in facts : doc[x] = "OK"

\* One failed exhibit never makes a filing finished: one that is COMPLETE had every
\* selected document retrieved, unless it was too old for any of them to be shown.
CompleteWasRead ==
    \A x \in Document : acc[x[1]] = "COMPLETE" => doc[x] = "OK" \/ x[1] \notin Yields
                                                 \/ ~Current(x[1])

\* A finished filing is never taken up again, by any run, of any mode.
FinishedStays ==
    [][\A f \in Filing : acc[f] \in Terminal => acc'[f] = acc[f]]_vars

\* A filing whose processing was cut short is finished in the end, whether a fetch
\* failed, its company was backed off or the process died in the middle of it.
UnfinishedDrains ==
    \A f \in Filing : acc[f] \in Unfinished ~> acc[f] \in Terminal

\* "The cursor must never move past a day whose filings were not read"
\* (ingest.py, _from_index).
NothingSkipped ==
    \A f \in Filing : filed[f] \in 1 .. cursor => acc[f] # "DISCOVERED"
=============================================================================
