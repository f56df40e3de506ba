------------------------------ MODULE Backfill ------------------------------
(***************************************************************************)
(* How bars get into the database, and how gaps in them close again.       *)
(*                                                                         *)
(* A backfill walks a range of history window by window, skips what is     *)
(* stored already, asks for the rest, and goes on past a window it cannot  *)
(* get.  Meanwhile the scheduled synchronisation appends to the newest bar *)
(* of every symbol.  Each window and each symbol is a transaction of its   *)
(* own, and nothing but the stored bars themselves says what is left to    *)
(* do.                                                                     *)
(*                                                                         *)
(* A day is one tick; a session is a day the exchange is open.  A bar is   *)
(* its symbol and session: an upsert changes nothing but the set of bars.  *)
(* The vendor may show a bar up to Delay days late.                        *)
(***************************************************************************)
EXTENDS Integers, FiniteSets

CONSTANTS
    Symbol,
    Known,       \* symbols of the instrument table
    Lists,       \* symbol lists a backfill is started with
    Printed,     \* sessions the vendor has a bar for, of each symbol
    Closed,      \* days the exchange is closed
    Delay,       \* a bar may be missing from answers given before this many days
    First, Until,\* the range of history: First included, Until not
    Chunk,       \* CHUNK_DAYS
    Percent,     \* COVERAGE_TOLERANCE, in percent
    Attempts,    \* MAX_RETRIES
    Overlap,     \* REFETCH_OVERLAP_BARS
    Seed,        \* days fetched for a symbol without bars
    Start,       \* the first day modelled
    LastDay,     \* bound: the last day modelled
    Env,         \* what may go wrong, of EnvKinds
    MaxFaults    \* bound: how often it may

EnvKinds == { "provider",  \* the vendor refuses
              "raise",     \* an import fails some other way and returns no report
              "lost",      \* the commit fails after there is a report
              "crash" }    \* the process dies

Days    == 1..LastDay
Session == Days \ Closed

ASSUME BackfillAssumption ==
    /\ {Delay, First, Until, Chunk, Percent, Attempts, Overlap, Seed, Start, LastDay, MaxFaults} \subseteq Nat
    /\ Known \subseteq Symbol /\ Lists \subseteq SUBSET Symbol /\ Env \subseteq EnvKinds
    /\ Printed \in [Symbol -> SUBSET Session]
    /\ Start \in Days /\ 0 < First /\ First < Until /\ Until <= LastDay
    /\ Chunk > 0 /\ Attempts > 0 /\ Percent <= 100
    /\ Delay <= Overlap + 1

VARIABLES
    today,
    bars,    \* committed bars: the sessions of each symbol
    sync,    \* the synchronisation under way
    run,     \* the backfill under way
    faults   \* how often something went wrong

vars == <<today, bars, sync, run, faults>>

-----------------------------------------------------------------------------
(* The vendor.                                                             *)

\* The answers for these sessions, given on this day.
Answers(s, span, day) ==
    { got \in SUBSET (span \cap Printed[s]) :
        /\ \A x \in got : x <= day
        /\ \A x \in span \cap Printed[s] : x + Delay <= day => x \in got }

\* Something goes wrong.
Fault(kind) == kind \in Env /\ faults < MaxFaults /\ faults' = faults + 1

-----------------------------------------------------------------------------
(* sync_market_data: from the newest stored bar of each symbol to now.     *)

NoSync == [pc |-> "idle", now |-> Start, todo |-> {}, of |-> {}, span |-> {}, down |-> {}, synced |-> {}]

\* Mutant: the newest bar taken for final.
MutSpan(s, now) ==
    { x \in Session : /\ x <= now
                      /\ IF bars[s] = {} THEN x >= now - Seed ELSE \A y \in bars[s] : y < x }

\* The sessions asked for: from a few bars before the newest one.
Span(s, now) ==
    { x \in Session : /\ x <= now
                      /\ IF bars[s] = {} THEN x >= now - Seed ELSE \A y \in bars[s] : y - Overlap <= x }

StartSync ==
    /\ sync.pc = "idle"
    /\ sync' = [NoSync EXCEPT !.pc = "read", !.now = today, !.todo = Symbol]
    /\ UNCHANGED <<today, bars, run, faults>>

\* What is left of a pass once these symbols are dealt with, these of them counted
\* as synchronised and these refused by the vendor.
Onward(of, counted, refused) ==
    LET left == sync.todo \ of
    IN  IF left = {} THEN NoSync
        ELSE [sync EXCEPT !.pc = "read", !.todo = left, !.of = {}, !.span = {}, !.synced = @ \cup counted,
                          !.down = @ \cup refused]

\* The newest bar is read; an unknown symbol is left at that, and counted.
ReadNewest(s) ==
    /\ sync.pc = "read" /\ s \in sync.todo
    /\ sync' = IF s \in Known THEN [sync EXCEPT !.pc = "store", !.of = {s}, !.span = Span(s, sync.now)]
               ELSE Onward({s}, {s}, {})
    /\ UNCHANGED <<today, bars, run, faults>>

\* The batched request of the command line: one window, as wide as the symbol
\* furthest behind needs, in one transaction.
ReadBatch ==
    /\ sync.pc = "idle" /\ Known # {}
    /\ sync' = [NoSync EXCEPT !.pc = "store", !.now = today, !.of = Known,
                              !.span = UNION { Span(s, today) : s \in Known }]
    /\ UNCHANGED <<today, bars, run, faults>>

\* The answer is stored and committed.
StoreSync ==
    /\ sync.pc = "store"
    /\ \E got \in [sync.of -> SUBSET sync.span] :
         /\ \A s \in sync.of : got[s] \in Answers(s, sync.span, sync.now)
         /\ bars' = [s \in Symbol |-> IF s \in sync.of THEN bars[s] \cup got[s] ELSE bars[s]]
    /\ sync' = Onward(sync.of, sync.of, {})
    /\ UNCHANGED <<today, run, faults>>

\* The vendor refuses: import_symbol returns a report that says so, and the
\* pass counts the symbol as synchronised.
RefuseSync ==
    /\ sync.pc = "store" /\ Fault("provider")
    /\ sync' = Onward(sync.of, sync.of, sync.of)
    /\ UNCHANGED <<today, bars, run>>

\* A ValueError: the symbol is counted as failed and the pass goes on.
FailSync ==
    /\ sync.pc = "store" /\ Fault("raise")
    /\ sync' = Onward(sync.of, {}, {})
    /\ UNCHANGED <<today, bars, run>>

\* Any other error ends the pass, and so does the death of its process.
SyncDies ==
    /\ \/ sync.pc = "store" /\ Fault("lost")
       \/ sync.pc # "idle" /\ Fault("crash")
    /\ sync' = NoSync
    /\ UNCHANGED <<today, bars, run>>

-----------------------------------------------------------------------------
(* HistoricalBackfill.run: every window of the range, oldest first.        *)

NoRun == [pc |-> "idle", symbols |-> {}, since |-> Start, stored |-> [s \in Symbol |-> {}], next |-> First,
          want |-> {}, tries |-> 0, report |-> "none", ok |-> TRUE, lost |-> FALSE]

Lesser(a, b) == IF a <= b THEN a ELSE b

\* Where the window that begins here ends.
Stop(start) == Lesser(start + Chunk, Until)

\* The sessions of a window, and those sessions_between counts: both ends included.
Window(start)  == (start .. Stop(start) - 1) \ Closed
Counted(start) == (start .. Stop(start)) \ Closed

\* Mutant: history taken for contiguous from the oldest stored bar on.
MutCovered(have, start) == \E x \in have : x <= start

\* Enough of the sessions counted are stored.
Covered(have, start) ==
    \/ Counted(start) = {}
    \/ 100 * Cardinality(Counted(start) \cap have) >= Percent * Cardinality(Counted(start))

\* One read per symbol of what is stored, or of nothing (resume off).
StartRun(symbols, resume) ==
    /\ run.pc = "idle" /\ symbols \in Lists
    /\ run' = [NoRun EXCEPT !.pc = "plan", !.symbols = symbols, !.since = today,
                            !.stored = IF resume THEN bars ELSE NoRun.stored]
    /\ UNCHANGED <<today, bars, sync, faults>>

\* The symbols this window still lacks; none, and the window is skipped.
Plan ==
    /\ run.pc = "plan" /\ run.next < Until
    /\ LET want == { s \in run.symbols : ~Covered(run.stored[s], run.next) }
       IN  run' = IF want = {} THEN [run EXCEPT !.next = Stop(run.next)]
                  ELSE [run EXCEPT !.pc = "ask", !.want = want, !.tries = 0, !.report = "none"]
    /\ UNCHANGED <<today, bars, sync, faults>>

\* Mutant: a chunk that was given up is not held against the run.
MutAfter(report, broken) ==
    IF run.tries + 1 = Attempts \/ (report = "ok" /\ ~broken)
    THEN [run EXCEPT !.pc = "plan", !.next = Stop(run.next), !.want = {}, !.tries = 0, !.report = "none"]
    ELSE [run EXCEPT !.tries = @ + 1, !.report = report]

\* After an attempt: another one, or the chunk is recorded by the reports of the
\* last import that returned any, and the run goes on.
After(report, broken) ==
    IF run.tries + 1 = Attempts \/ (report = "ok" /\ ~broken)
    THEN [run EXCEPT !.pc = "plan", !.next = Stop(run.next), !.want = {}, !.tries = 0, !.report = "none",
                     !.ok = @ /\ report = "ok"]
    ELSE [run EXCEPT !.tries = @ + 1, !.report = report]

\* What import_batch reports when the vendor answers.
Imported == IF run.want \subseteq Known THEN "ok" ELSE "failed"

\* One attempt at a window: known symbols are stored, in one transaction.
Import ==
    /\ run.pc = "ask"
    /\ \E got \in [run.want \cap Known -> SUBSET Window(run.next)] :
         /\ \A s \in run.want \cap Known : got[s] \in Answers(s, Window(run.next), today)
         /\ bars' = [s \in Symbol |-> IF s \in run.want \cap Known THEN bars[s] \cup got[s] ELSE bars[s]]
    /\ run' = After(Imported, FALSE)
    /\ UNCHANGED <<today, sync, faults>>

\* An attempt that stores nothing.
ImportFails ==
    /\ run.pc = "ask"
    /\ \/ Fault("provider") /\ run' = After("failed", FALSE)
       \/ Fault("raise")    /\ run' = After(run.report, TRUE)
       \/ Fault("lost")     /\ run' = [After(Imported, TRUE) EXCEPT !.lost = TRUE]
    /\ UNCHANGED <<today, bars, sync>>

Finish ==
    /\ run.pc = "plan" /\ run.next >= Until
    /\ run' = NoRun
    /\ UNCHANGED <<today, bars, sync, faults>>

RunDies ==
    /\ run.pc # "idle" /\ Fault("crash")
    /\ run' = NoRun
    /\ UNCHANGED <<today, bars, sync>>

-----------------------------------------------------------------------------

NextDay == today < LastDay /\ today' = today + 1 /\ UNCHANGED <<bars, sync, run, faults>>

Init == /\ today = Start /\ bars = [s \in Symbol |-> {}]
        /\ sync = NoSync /\ run = NoRun /\ faults = 0

Sync == StartSync \/ (\E s \in Symbol : ReadNewest(s)) \/ ReadBatch \/ StoreSync \/ RefuseSync \/ FailSync \/ SyncDies

Work == Plan \/ Import \/ Finish

Backfilling == \/ \E symbols \in Lists, resume \in BOOLEAN : StartRun(symbols, resume)
               \/ Work \/ ImportFails \/ RunDies

Next == NextDay \/ Sync \/ Backfilling

Spec == Init /\ [][Next]_vars

\* A backfill that is started goes on, it is started again for all symbols there
\* are, and time passes; nothing is asked of the synchronisation.
FairSpec == /\ Spec /\ WF_vars(NextDay) /\ WF_vars(Work)
            /\ WF_vars(\E resume \in BOOLEAN : StartRun(Known, resume))

-----------------------------------------------------------------------------
(* Properties.                                                             *)

SyncPcs == {"idle", "read", "store"}
RunPcs  == {"idle", "plan", "ask"}

\* Every variable has its type.
TypeOK == /\ today \in Days /\ faults \in 0..MaxFaults
          /\ bars \in [Symbol -> SUBSET Session]
          /\ sync \in [pc : SyncPcs, now : Days, todo : SUBSET Symbol, of : SUBSET Symbol,
                       span : SUBSET Session, down : SUBSET Symbol, synced : SUBSET Symbol]
          /\ run \in [pc : RunPcs, symbols : SUBSET Symbol, since : Days, stored : [Symbol -> SUBSET Session],
                      next : First..Until, want : SUBSET Symbol, tries : 0..Attempts,
                      report : {"none", "ok", "failed"}, ok : BOOLEAN, lost : BOOLEAN]

\* A gap the synchronisation leaves behind is one it will ask for again: whatever
\* fails, comes late or is written meanwhile, no bar after the backfilled range
\* is missing between two stored ones unless it lies within the overlap
\* (sync_symbol, _sync_batched, REFETCH_OVERLAP_BARS).
GapsAreAskedFor ==
    \A s \in Symbol : \A x \in Printed[s] \ bars[s] :
        /\ x >= Until
        /\ \E y \in bars[s] : Until <= y /\ y < x
        => \A z \in bars[s] : z - Overlap <= x

\* The sessions of a window the vendor had on this day and the database lacks.
Lacking(s, start, day) == { x \in Window(start) \cap Printed[s] : x + Delay <= day /\ x \notin bars[s] }

Starts == { First + Chunk * k : k \in 0..LastDay } \cap First..(Until - 1)

\* How many sessions a window may lack.
Tolerance(start) == ((100 - Percent) * Cardinality(Counted(start))) \div 100

Whole(symbols, day) == \A s \in symbols, start \in Starts : Cardinality(Lacking(s, start, day)) <= Tolerance(start)

\* The step that ends a backfill without a failed chunk.
Finished == run.pc = "plan" /\ run.next >= Until /\ run'.pc = "idle" /\ run.ok

\* A backfill that ends and reports no failure has left every symbol it was asked
\* for within the tolerance in every window, through retries, skipped windows and
\* the synchronisation writing the same bars, as long as none of its commits was
\* lost (run, _chunk, _covered).
FinishedIsWhole == [][ Finished /\ ~run.lost => Whole(run.symbols, run.since) ]_vars

\* A backfill started again and again fills the range in the end, wherever
\* earlier ones failed or died, because what is left is derived from what is
\* stored and not from a checkpoint (_stored_sessions, _covered).
HistoryFills == <>[]Whole(Known, LastDay)

-----------------------------------------------------------------------------
(* What the repository's text says and the code does not do.               *)

\* "After MAX_RETRIES the chunk is recorded as failed": a report whose rows were
\* rolled back is still in hand when the last attempt raises.
GivenUpIsRecorded == [][ Finished => Whole(run.symbols, run.since) ]_vars

\* "Whether every trading session in [start, end) already has data" (_covered): a
\* window that has all of them is not asked for again.
StoredIsSkipped ==
    [][ run.pc = "plan" /\ run'.pc = "ask"
        => \A s \in run'.want : ~(Window(run.next) \subseteq run.stored[s]) ]_vars

\* "One symbol's provider failure is recorded and the rest continue."
\* (sync_market_data): a symbol the vendor refused is not counted as synchronised.
FailureIsCounted == sync.down \cap sync.synced = {}
=============================================================================
