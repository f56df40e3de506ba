--------------------------- MODULE Backfill_proofs ---------------------------
(***************************************************************************)
(* Proofs about Backfill, for any symbols, range, windows and delays.      *)
(*                                                                         *)
(* A gap stays within reach because every read of the newest bar leaves    *)
(* out only sessions that a stored bar is already past by more than the    *)
(* overlap, and by then the vendor shows them.  A finished backfill is     *)
(* whole because each window it has left behind was covered by what it     *)
(* read first, or answered, and stored bars are never removed.             *)
(***************************************************************************)
EXTENDS Backfill, FiniteSetTheorems, TLAPS

RunRecord ==
    [pc : RunPcs, symbols : SUBSET Symbol, since : Days, stored : [Symbol -> SUBSET Session],
     next : First..Until, want : SUBSET Symbol, tries : 0..Attempts,
     report : {"none", "ok", "failed"}, ok : BOOLEAN, lost : BOOLEAN]

SyncRecord ==
    [pc : SyncPcs, now : Days, todo : SUBSET Symbol, of : SUBSET Symbol,
     span : SUBSET Session, down : SUBSET Symbol, synced : SUBSET Symbol]

\* A chunk is given up after its last attempt.
Tried == run.pc = "ask" => run.tries < Attempts

\* No bar is ahead of the day, and none after the backfilled range is ahead of
\* the synchronisation under way.
Clock ==
    /\ Start <= today /\ sync.now <= today /\ run.since <= today
    /\ \A s \in Symbol : \A z \in bars[s] :
         /\ z <= today
         /\ sync.pc # "idle" => z < Until \/ z <= sync.now

\* What was read of the symbols about to be stored: a span without holes, and
\* nothing left out of it unless a stored bar is past it by more than the overlap.
Read ==
    sync.pc = "store" =>
        /\ \A p \in sync.span : \A q \in Session : p < q /\ q <= sync.now => q \in sync.span
        /\ \A s \in sync.of :
             (\E y \in bars[s] : Until <= y)
             => \A x \in Session : x <= sync.now /\ x \notin sync.span => \E z \in bars[s] : x < z - Overlap

\* Where the run is: at the beginning of a window, or past the last.
Place == run.next \in Starts \/ run.next = Until

\* What the run is about to ask for is what it found missing.
Asking ==
    /\ run.pc # "idle" => \A s \in Symbol : run.stored[s] \subseteq bars[s]
    /\ run.pc = "ask" => /\ run.next < Until
                         /\ \A s \in run.symbols \ run.want : Covered(run.stored[s], run.next)
    /\ run.report = "ok" => run.lost

Enough(s, start) == Cardinality(Lacking(s, start, run.since)) <= Tolerance(start)

\* The windows behind a run without failures.
Behind ==
    run.pc # "idle" /\ run.ok /\ ~run.lost
    => \A s \in run.symbols : \A start \in Starts : start < run.next => Enough(s, start)

IInv == TypeOK /\ Tried /\ Clock /\ Read /\ GapsAreAskedFor /\ Place /\ Asking /\ Behind

-----------------------------------------------------------------------------
(* Constants and operators *)

LEMMA Constants ==
    /\ Delay \in Nat /\ First \in Nat /\ Until \in Nat /\ Chunk \in Nat /\ Percent \in Nat /\ Attempts \in Nat
    /\ Overlap \in Nat /\ Seed \in Nat /\ Start \in Nat /\ LastDay \in Nat /\ MaxFaults \in Nat
    /\ Known \subseteq Symbol /\ Lists \subseteq SUBSET Symbol /\ Printed \in [Symbol -> SUBSET Session]
    /\ Start \in Days /\ 0 < First /\ First < Until /\ Until <= LastDay
    /\ Chunk > 0 /\ Attempts > 0 /\ Percent <= 100 /\ Delay <= Overlap + 1
BY BackfillAssumption

LEMMA SessionFacts ==
    /\ Session \subseteq Days /\ Days \subseteq Nat
    /\ \A start \in First..Until : Window(start) \subseteq Session /\ \A x \in Window(start) : x < Until
BY Constants DEF Session, Days, Window, Stop, Lesser

LEMMA Finite ==
    ASSUME NEW start \in Starts
    PROVE  /\ IsFiniteSet(Counted(start)) /\ Cardinality(Counted(start)) \in Nat
           /\ Window(start) \subseteq Counted(start)
<1>1. start \in Nat /\ Stop(start) \in Nat BY Constants DEF Starts, Stop, Lesser
<1>2. IsFiniteSet(start .. Stop(start)) BY <1>1, FS_Interval
<1>3. Counted(start) \subseteq start .. Stop(start) BY DEF Counted
<1>4. IsFiniteSet(Counted(start)) BY <1>2, <1>3, FS_Subset
<1>5. Window(start) \subseteq Counted(start) BY <1>1 DEF Window, Counted
<1> QED BY <1>4, <1>5, FS_CardinalityType

LEMMA ToleranceType ==
    ASSUME NEW start \in Starts
    PROVE  Tolerance(start) \in Nat
<1>1. Cardinality(Counted(start)) \in Nat BY Finite
<1>2. 100 - Percent \in Nat BY Constants
<1>3. (100 - Percent) * Cardinality(Counted(start)) \in Nat BY <1>1, <1>2
<1> QED BY <1>3 DEF Tolerance

\* A covered window lacks no more than the tolerance.
LEMMA CoveredIsEnough ==
    ASSUME NEW s \in Symbol, NEW start \in Starts, NEW day \in Nat, NEW have,
           have \subseteq bars[s], Covered(have, start)
    PROVE  Cardinality(Lacking(s, start, day)) <= Tolerance(start)
<1> DEFINE C == Counted(start)
           L == Lacking(s, start, day)
<1>1. IsFiniteSet(C) /\ Cardinality(C) \in Nat /\ Window(start) \subseteq C BY Finite
<1>2. L \subseteq C /\ L \cap (C \cap have) = {} BY <1>1 DEF Lacking
<1>3. CASE C = {}
  <2>1. L = {} BY <1>2, <1>3
  <2> QED BY <2>1, FS_EmptySet, ToleranceType
<1>4. CASE 100 * Cardinality(C \cap have) >= Percent * Cardinality(C)
  <2>1. IsFiniteSet(L) /\ IsFiniteSet(C \cap have) BY <1>1, <1>2, FS_Subset
  <2>2. Cardinality(L) \in Nat /\ Cardinality(C \cap have) \in Nat BY <2>1, FS_CardinalityType
  <2>3. Cardinality(L \cup (C \cap have)) = Cardinality(L) + Cardinality(C \cap have)
    <3>1. Cardinality(L \cap (C \cap have)) = 0 BY <1>2, FS_EmptySet
    <3> DEFINE D == C \cap have
    <3>2. IsFiniteSet(L) /\ IsFiniteSet(D) /\ Cardinality(L \cap D) = 0 BY <2>1, <3>1
    <3>3. Cardinality(L) \in Nat /\ Cardinality(D) \in Nat BY <2>2
    <3> HIDE DEF L, D
    <3>4. Cardinality(L \cup D) = Cardinality(L) + Cardinality(D) - Cardinality(L \cap D) BY <3>2, FS_Union
    <3>5. Cardinality(L \cup D) = Cardinality(L) + Cardinality(D) BY <3>2, <3>3, <3>4
    <3> QED BY <3>5 DEF D
  <2>4. L \cup (C \cap have) \subseteq C BY <1>2
  <2>5. Cardinality(L) + Cardinality(C \cap have) <= Cardinality(C) BY <1>1, <2>3, <2>4, FS_Subset
  <2> HIDE DEF C, L
  <2> DEFINE c == Cardinality(C)
             l == Cardinality(L)
             h == Cardinality(C \cap have)
             pc == Percent * c
             N == (100 - Percent) * c
  <2>6. c \in Nat /\ l \in Nat /\ h \in Nat BY <1>1, <2>2
  <2>7. pc \in Nat /\ N = 100 * c - pc BY <2>6, Constants
  <2>8. 100 * h >= pc /\ l + h <= c BY <1>4, <2>5
  <2> HIDE DEF c, l, h, pc
  <2>9. 100 * l <= N /\ N \in Int BY <2>6, <2>7, <2>8
  <2> HIDE DEF N
  <2>10. l <= N \div 100 BY <2>6, <2>9
  <2> QED BY <2>10 DEF Tolerance, c, l, N, C, L
<1> QED BY <1>3, <1>4 DEF Covered

\* Beginnings of windows are a chunk apart.
LEMMA NextStart ==
    ASSUME NEW next \in Starts
    PROVE  /\ Stop(next) \in Starts \/ Stop(next) = Until
           /\ \A start \in Starts : start < Stop(next) => start < next \/ start = next
           /\ Stop(next) \in First..Until
<1>1. PICK k \in 0..LastDay : next = First + Chunk * k BY DEF Starts
<1>2. next \in First..(Until - 1) BY DEF Starts
<1> DEFINE ck == Chunk * k
<1>3. k \in Nat /\ ck \in Nat /\ next = First + ck BY <1>1, Constants
<1>4. Chunk * (k + 1) = ck + Chunk BY <1>3, Constants
<1>5. k <= ck BY <1>3, Constants
<1>6. Stop(next) \in First..Until BY <1>2, Constants DEF Stop, Lesser
<1>7. Stop(next) \in Starts \/ Stop(next) = Until
  <2>1. CASE next + Chunk < Until
    <3>1. Stop(next) = First + Chunk * (k + 1) BY <1>3, <1>4, <2>1, Constants DEF Stop, Lesser
    <3>2. k + 1 \in 0..LastDay BY <1>3, <1>5, <2>1, Constants
    <3> QED BY <1>6, <2>1, <3>1, <3>2, <1>3, Constants DEF Starts, Stop, Lesser
  <2>2. CASE next + Chunk >= Until BY <2>2, <1>3, Constants DEF Stop, Lesser
  <2> QED BY <2>1, <2>2, <1>3, Constants
<1>8. ASSUME NEW start \in Starts, start < Stop(next) PROVE start < next \/ start = next
  <2>1. PICK j \in 0..LastDay : start = First + Chunk * j BY DEF Starts
  <2> DEFINE cj == Chunk * j
  <2>2. j \in Nat /\ cj \in Nat /\ start = First + cj BY <2>1, Constants
  <2>3. start < next + Chunk BY <1>8, <1>3, <2>2, Constants DEF Stop, Lesser
  <2>4. CASE j <= k
    <3>1. PICK d \in Nat : k = j + d BY <2>4, <1>3, <2>2
    <3>2. ck = cj + Chunk * d /\ Chunk * d \in Nat BY <3>1, <2>2, Constants
    <3> QED BY <3>2, <1>3, <2>2, Constants
  <2>5. CASE j > k
    <3>1. PICK d \in Nat : j = k + 1 + d BY <2>5, <1>3, <2>2
    <3>2. cj = ck + Chunk + Chunk * d /\ Chunk * d \in Nat BY <3>1, <1>3, Constants
    <3> QED BY <3>2, <2>3, <1>3, <2>2, Constants
  <2> QED BY <2>4, <2>5, <1>3, <2>2
<1> QED BY <1>6, <1>7, <1>8

-----------------------------------------------------------------------------
(* Types *)

LEMMA Records ==
    TypeOK <=> /\ today \in Days /\ faults \in 0..MaxFaults /\ bars \in [Symbol -> SUBSET Session]
               /\ sync \in SyncRecord /\ run \in RunRecord
BY DEF TypeOK, SyncRecord, RunRecord

LEMMA NextRecords ==
    TypeOK' <=> /\ today' \in Days /\ faults' \in 0..MaxFaults /\ bars' \in [Symbol -> SUBSET Session]
                /\ sync' \in SyncRecord /\ run' \in RunRecord
BY DEF TypeOK, SyncRecord, RunRecord

LEMMA NoSyncType == NoSync \in SyncRecord /\ NoSync.pc = "idle" /\ NoSync.now = Start /\ NoSync.of = {}
BY Constants DEF NoSync, SyncPcs, SyncRecord

LEMMA NoRunType ==
    /\ NoRun \in RunRecord /\ NoRun.pc = "idle" /\ NoRun.report = "none"
    /\ NoRun.next = First /\ NoRun.since = Start
BY Constants DEF NoRun, RunPcs, RunRecord

LEMMA TypesAtInit == Init => TypeOK /\ Tried
<1> SUFFICES ASSUME Init PROVE TypeOK /\ Tried OBVIOUS
<1>1. today \in Days /\ faults \in 0..MaxFaults BY Constants DEF Init
<1>2. bars \in [Symbol -> SUBSET Session] BY DEF Init
<1>3. sync \in SyncRecord /\ run \in RunRecord /\ run.pc = "idle" BY NoSyncType, NoRunType DEF Init
<1> QED BY <1>1, <1>2, <1>3, Records DEF Tried

\* What a pass becomes once some of its symbols are dealt with.
LEMMA OnwardType ==
    ASSUME TypeOK, NEW of, NEW counted \in SUBSET Symbol, NEW refused \in SUBSET Symbol
    PROVE  /\ Onward(of, counted, refused) \in SyncRecord
           /\ Onward(of, counted, refused).pc # "store"
           /\ \/ Onward(of, counted, refused) = NoSync
              \/ Onward(of, counted, refused).now = sync.now
<1>1. sync \in SyncRecord BY Records
<1> DEFINE on == [sync EXCEPT !.pc = "read", !.todo = sync.todo \ of, !.of = {}, !.span = {},
                              !.synced = sync.synced \cup counted, !.down = sync.down \cup refused]
<1>2. on \in SyncRecord /\ on.pc = "read" /\ on.now = sync.now BY <1>1 DEF SyncRecord, SyncPcs
<1>3. Onward(of, counted, refused) = NoSync \/ Onward(of, counted, refused) = on BY DEF Onward
<1> HIDE DEF on
<1> QED BY <1>2, <1>3, NoSyncType

\* An attempt was the last one, and the run goes on, or another one follows.
Last(report, broken) == run.tries + 1 = Attempts \/ (report = "ok" /\ ~broken)

LEMMA AfterLast ==
    ASSUME TypeOK, run.next < Until, NEW report \in {"none", "ok", "failed"}, NEW broken \in BOOLEAN,
           Last(report, broken)
    PROVE  LET a == After(report, broken)
           IN  /\ a \in RunRecord /\ a.pc = "plan" /\ a.report = "none" /\ a.next = Stop(run.next)
               /\ a.symbols = run.symbols /\ a.since = run.since /\ a.stored = run.stored
               /\ a.lost = run.lost /\ (a.ok => run.ok /\ report = "ok")
<1> DEFINE ok == run.ok /\ (report = "ok")
           next == Stop(run.next)
           a == [run EXCEPT !.pc = "plan", !.next = next, !.want = {}, !.tries = 0, !.report = "none", !.ok = ok]
<1>1. run \in RunRecord BY Records
<1>2. ok \in BOOLEAN /\ (ok => run.ok /\ report = "ok") BY <1>1 DEF RunRecord
<1>3. next \in First..Until BY <1>1, Constants DEF Stop, Lesser, RunRecord
<1>4. After(report, broken) = a BY DEF After, Last
<1> HIDE DEF ok, next
<1> DEFINE b == [run EXCEPT !.pc = "plan", !.next = next, !.want = {}]
<1>5. a \in RunRecord
  <2>1. "plan" \in RunPcs /\ 0 \in 0..Attempts BY Constants DEF RunPcs
  <2>2. b \in RunRecord BY <1>1, <1>3, <2>1 DEF RunRecord
  <2>3. a = [b EXCEPT !.tries = 0, !.report = "none", !.ok = ok] BY <1>1 DEF RunRecord
  <2> HIDE DEF a, b
  <2> QED BY <1>2, <2>1, <2>2, <2>3 DEF RunRecord
<1>6. /\ a.pc = "plan" /\ a.report = "none" /\ a.next = next /\ a.ok = ok
      /\ a.symbols = run.symbols /\ a.since = run.since /\ a.stored = run.stored /\ a.lost = run.lost
  BY <1>1 DEF RunRecord
<1> QED BY <1>2, <1>4, <1>5, <1>6 DEF next

LEMMA AfterMore ==
    ASSUME TypeOK, Tried, run.pc = "ask", NEW report \in {"none", "ok", "failed"}, NEW broken \in BOOLEAN,
           ~Last(report, broken)
    PROVE  LET a == After(report, broken)
           IN  /\ a \in RunRecord /\ a.pc = "ask" /\ a.report = report /\ a.next = run.next
               /\ a.symbols = run.symbols /\ a.since = run.since /\ a.stored = run.stored /\ a.want = run.want
               /\ a.lost = run.lost /\ a.ok = run.ok /\ a.tries < Attempts
<1> DEFINE tries == run.tries + 1
           a == [run EXCEPT !.tries = tries, !.report = report]
<1>1. run \in RunRecord BY Records
<1>2. tries \in 0..Attempts /\ tries < Attempts BY <1>1, Constants DEF RunRecord, Tried, Last
<1>3. After(report, broken) = a BY DEF After, Last
<1> HIDE DEF tries
<1>4. a \in RunRecord BY <1>1, <1>2 DEF RunRecord
<1>5. /\ a.pc = "ask" /\ a.report = report /\ a.next = run.next /\ a.tries = tries
      /\ a.symbols = run.symbols /\ a.since = run.since /\ a.stored = run.stored /\ a.want = run.want
      /\ a.lost = run.lost /\ a.ok = run.ok
  BY <1>1 DEF RunRecord
<1> QED BY <1>2, <1>3, <1>4, <1>5

LEMMA AfterType ==
    ASSUME TypeOK, Tried, run.pc = "ask", run.next < Until,
           NEW report \in {"none", "ok", "failed"}, NEW broken \in BOOLEAN
    PROVE  /\ After(report, broken) \in RunRecord
           /\ After(report, broken).pc = "ask" => After(report, broken).tries < Attempts
<1>1. CASE Last(report, broken) BY <1>1, AfterLast
<1>2. CASE ~Last(report, broken) BY <1>2, AfterMore
<1> QED BY <1>1, <1>2

\* What planning a window makes of the run.
LEMMA PlanStep ==
    ASSUME TypeOK, Plan
    PROVE  /\ run.pc = "plan" /\ run.next < Until /\ UNCHANGED <<today, bars, sync, faults>>
           /\ run' \in RunRecord /\ run'.ok = run.ok /\ run'.lost = run.lost
           /\ run'.symbols = run.symbols /\ run'.since = run.since /\ run'.stored = run.stored
           /\ \/ /\ run'.pc = "plan" /\ run'.next = Stop(run.next) /\ run'.report = run.report
                 /\ \A s \in run.symbols : Covered(run.stored[s], run.next)
              \/ /\ run'.pc = "ask" /\ run'.next = run.next /\ run'.report = "none" /\ run'.tries = 0
                 /\ \A s \in run.symbols \ run'.want : Covered(run.stored[s], run.next)
<1> DEFINE want == { s \in run.symbols : ~Covered(run.stored[s], run.next) }
           next == Stop(run.next)
<1>1. run \in RunRecord BY Records
<1>2. run.pc = "plan" /\ run.next < Until /\ UNCHANGED <<today, bars, sync, faults>> BY DEF Plan
<1>3. next \in First..Until BY <1>1, <1>2, Constants DEF Stop, Lesser, RunRecord
<1>4. want \subseteq Symbol /\ \A s \in run.symbols \ want : Covered(run.stored[s], run.next)
  BY <1>1 DEF RunRecord
<1>5. \/ want = {} /\ run' = [run EXCEPT !.next = next]
      \/ run' = [run EXCEPT !.pc = "ask", !.want = want, !.tries = 0, !.report = "none"]
  BY DEF Plan
<1> HIDE DEF want, next
<1>6. CASE want = {} /\ run' = [run EXCEPT !.next = next]
  <2>1. run' \in RunRecord BY <1>1, <1>3, <1>6 DEF RunRecord
  <2>2. /\ run'.pc = "plan" /\ run'.next = next /\ run'.report = run.report /\ run'.ok = run.ok
        /\ run'.lost = run.lost /\ run'.symbols = run.symbols /\ run'.since = run.since /\ run'.stored = run.stored
    BY <1>1, <1>2, <1>6 DEF RunRecord
  <2> QED BY <1>2, <1>4, <1>6, <2>1, <2>2 DEF next
<1>7. CASE run' = [run EXCEPT !.pc = "ask", !.want = want, !.tries = 0, !.report = "none"]
  <2> DEFINE b == [run EXCEPT !.pc = "ask", !.want = want]
  <2>1. run' \in RunRecord
    <3>1. "ask" \in RunPcs /\ 0 \in 0..Attempts BY Constants DEF RunPcs
    <3>2. b \in RunRecord BY <1>1, <1>4, <3>1 DEF RunRecord
    <3>3. run' = [b EXCEPT !.tries = 0, !.report = "none"] BY <1>1, <1>7 DEF RunRecord
    <3> HIDE DEF b
    <3> QED BY <3>1, <3>2, <3>3 DEF RunRecord
  <2>2. /\ run'.pc = "ask" /\ run'.next = run.next /\ run'.report = "none" /\ run'.tries = 0 /\ run'.want = want
        /\ run'.ok = run.ok /\ run'.lost = run.lost
        /\ run'.symbols = run.symbols /\ run'.since = run.since /\ run'.stored = run.stored
    BY <1>1, <1>7 DEF RunRecord
  <2> QED BY <1>2, <1>4, <2>1, <2>2
<1> QED BY <1>5, <1>6, <1>7

\* What starting makes of the run.
LEMMA StartStep ==
    ASSUME TypeOK, NEW symbols \in Lists, NEW resume \in BOOLEAN, StartRun(symbols, resume)
    PROVE  /\ run' \in RunRecord /\ run'.pc = "plan" /\ run'.since = today /\ run'.next = First
           /\ run'.report = "none" /\ UNCHANGED <<today, bars, sync, faults>>
           /\ \A s \in Symbol : run'.stored[s] \subseteq bars[s]
<1> DEFINE stored == IF resume THEN bars ELSE NoRun.stored
           a == [NoRun EXCEPT !.pc = "plan", !.symbols = symbols, !.since = today, !.stored = stored]
<1>1. bars \in [Symbol -> SUBSET Session] /\ today \in Days /\ symbols \subseteq Symbol BY Records, Constants
<1>2. NoRun \in RunRecord BY NoRunType
<1>3. stored \in [Symbol -> SUBSET Session] /\ \A s \in Symbol : stored[s] \subseteq bars[s]
  BY <1>1 DEF NoRun
<1>4. run' = a /\ UNCHANGED <<today, bars, sync, faults>> BY DEF StartRun
<1> HIDE DEF stored
<1>5. a \in RunRecord BY <1>1, <1>2, <1>3 DEF RunRecord, RunPcs
<1>6. a.pc = "plan" /\ a.since = today /\ a.next = First /\ a.report = "none" /\ a.stored = stored
  BY <1>2, NoRunType DEF RunRecord
<1> QED BY <1>3, <1>4, <1>5, <1>6

\* What reading the newest bars makes of a pass.
LEMMA ReadStep ==
    ASSUME TypeOK, ReadBatch \/ \E s \in Known : ReadNewest(s)
    PROVE  \E of \in SUBSET Symbol, now \in {sync.now, today} :
             /\ sync' \in SyncRecord /\ sync'.pc = "store" /\ sync'.now = now /\ sync'.of = of
             /\ sync'.span = UNION { Span(s, now) : s \in of } /\ (now = sync.now => sync.pc = "read" \/ now = today)
             /\ UNCHANGED <<today, bars, run, faults>>
<1>1. sync \in SyncRecord /\ today \in Days BY Records
<1>2. CASE ReadBatch
  <2> DEFINE span == UNION { Span(s, today) : s \in Known }
             a == [NoSync EXCEPT !.pc = "store", !.now = today, !.of = Known, !.span = span]
  <2>1. span \subseteq Session BY DEF Span
  <2>2. sync' = a /\ UNCHANGED <<today, bars, run, faults>> BY <1>2 DEF ReadBatch
  <2> HIDE DEF span
  <2>3. a \in SyncRecord BY <1>1, <2>1, NoSyncType, Constants DEF SyncRecord, SyncPcs
  <2>4. a.pc = "store" /\ a.now = today /\ a.of = Known /\ a.span = span BY NoSyncType DEF SyncRecord
  <2> QED BY <2>2, <2>3, <2>4, Constants DEF span
<1>3. ASSUME NEW s \in Known, ReadNewest(s)
      PROVE  \E of \in SUBSET Symbol, now \in {sync.now, today} :
             /\ sync' \in SyncRecord /\ sync'.pc = "store" /\ sync'.now = now /\ sync'.of = of
             /\ sync'.span = UNION { Span(r, now) : r \in of } /\ (now = sync.now => sync.pc = "read" \/ now = today)
             /\ UNCHANGED <<today, bars, run, faults>>
  <2> DEFINE span == Span(s, sync.now)
             a == [sync EXCEPT !.pc = "store", !.of = {s}, !.span = span]
  <2>1. span \subseteq Session BY DEF Span
  <2>2. sync' = a /\ sync.pc = "read" /\ UNCHANGED <<today, bars, run, faults>> BY <1>3 DEF ReadNewest
  <2>3. span = UNION { Span(r, sync.now) : r \in {s} } OBVIOUS
  <2> HIDE DEF span
  <2>4. {s} \in SUBSET Symbol BY Constants
  <2>5. a \in SyncRecord BY <1>1, <2>1, <2>4 DEF SyncRecord, SyncPcs
  <2>6. a.pc = "store" /\ a.now = sync.now /\ a.of = {s} /\ a.span = span BY <1>1 DEF SyncRecord
  <2> QED BY <2>2, <2>3, <2>4, <2>5, <2>6
<1> QED BY <1>2, <1>3

LEMMA Faulted ==
    ASSUME TypeOK, NEW kind, Fault(kind)
    PROVE  faults' \in 0..MaxFaults
<1>1. faults \in 0..MaxFaults BY Records
<1> QED BY <1>1, Constants DEF Fault

\* What storing an answer makes of the bars.
LEMMA StoreStep ==
    ASSUME TypeOK, StoreSync
    PROVE  /\ sync.pc = "store" /\ UNCHANGED <<today, run, faults>> /\ sync' = Onward(sync.of, sync.of, {})
           /\ bars' \in [Symbol -> SUBSET Session] /\ \A s \in Symbol : bars[s] \subseteq bars'[s]
           /\ \A s \in Symbol \ sync.of : bars'[s] = bars[s]
           /\ \A s \in sync.of : \E got \in Answers(s, sync.span, sync.now) :
                 got \subseteq sync.span /\ bars'[s] = bars[s] \cup got
<1>1. bars \in [Symbol -> SUBSET Session] /\ sync.of \subseteq Symbol /\ sync.span \subseteq Session
  BY Records DEF SyncRecord
<1>2. PICK got \in [sync.of -> SUBSET sync.span] :
         /\ \A s \in sync.of : got[s] \in Answers(s, sync.span, sync.now)
         /\ bars' = [s \in Symbol |-> IF s \in sync.of THEN bars[s] \cup got[s] ELSE bars[s]]
  BY DEF StoreSync
<1>3. \A s \in sync.of : got[s] \subseteq Session /\ bars'[s] = bars[s] \cup got[s] BY <1>1, <1>2
<1>4. \A s \in Symbol \ sync.of : bars'[s] = bars[s] BY <1>1, <1>2
<1>5. bars' \in [Symbol -> SUBSET Session] BY <1>1, <1>2
<1> QED BY <1>1, <1>2, <1>3, <1>4, <1>5 DEF StoreSync

\* What an import makes of the bars.
LEMMA ImportStep ==
    ASSUME TypeOK, Import
    PROVE  /\ run.pc = "ask" /\ UNCHANGED <<today, sync, faults>> /\ run' = After(Imported, FALSE)
           /\ bars' \in [Symbol -> SUBSET Session] /\ \A s \in Symbol : bars[s] \subseteq bars'[s]
           /\ \A s \in Symbol : \A x \in bars'[s] : x \in bars[s] \/ (x < Until /\ x <= today)
           /\ \A s \in run.want \cap Known : \E got \in Answers(s, Window(run.next), today) : got \subseteq bars'[s]
<1>1. bars \in [Symbol -> SUBSET Session] /\ run.want \subseteq Symbol /\ run.next \in First..Until
  BY Records DEF RunRecord
<1>2. PICK got \in [run.want \cap Known -> SUBSET Window(run.next)] :
         /\ \A s \in run.want \cap Known : got[s] \in Answers(s, Window(run.next), today)
         /\ bars' = [s \in Symbol |-> IF s \in run.want \cap Known THEN bars[s] \cup got[s] ELSE bars[s]]
  BY DEF Import
<1>3. Window(run.next) \subseteq Session /\ \A x \in Window(run.next) : x < Until BY <1>1, SessionFacts
<1>4. \A s \in run.want \cap Known : /\ got[s] \subseteq Window(run.next) /\ \A x \in got[s] : x <= today
                                     /\ bars'[s] = bars[s] \cup got[s]
  BY <1>1, <1>2 DEF Answers
<1>5. \A s \in Symbol : s \notin run.want \cap Known => bars'[s] = bars[s] BY <1>1, <1>2
<1>6. bars' \in [Symbol -> SUBSET Session] BY <1>1, <1>2, <1>3
<1> QED BY <1>1, <1>2, <1>3, <1>4, <1>5, <1>6 DEF Import

\* What a failed attempt makes of the run: a chunk given up without a failure on
\* record is one whose commit was lost.
LEMMA FailStep ==
    ASSUME TypeOK, Tried, Asking, ImportFails
    PROVE  /\ run.pc = "ask" /\ run.next < Until /\ UNCHANGED <<today, bars, sync>>
           /\ run'.since = run.since /\ run'.symbols = run.symbols /\ run'.stored = run.stored
           /\ run.lost => run'.lost
           /\ \/ /\ run'.pc = "plan" /\ run'.next = Stop(run.next) /\ run'.report = "none"
                 /\ run'.ok => run'.lost
              \/ /\ run'.pc = "ask" /\ run'.next = run.next /\ run'.want = run.want
                 /\ run'.ok = run.ok /\ (run'.report = "ok" => run'.lost)
<1>1. run.pc = "ask" /\ run.next < Until /\ UNCHANGED <<today, bars, sync>> BY DEF ImportFails, Asking
<1>2. run.report \in {"none", "ok", "failed"} /\ Imported \in {"none", "ok", "failed"}
  BY Records DEF RunRecord, Imported
<1> DEFINE Same(a) == /\ a.since = run.since /\ a.symbols = run.symbols /\ a.stored = run.stored
                      /\ a.lost = run.lost
           Over(a, report) == a.pc = "plan" /\ a.next = Stop(run.next) /\ a.report = "none" /\ (a.ok => report = "ok")
           More(a, report) == /\ a.pc = "ask" /\ a.next = run.next /\ a.want = run.want /\ a.ok = run.ok
                              /\ a.report = report
<1>3. ASSUME NEW report \in {"none", "ok", "failed"}, NEW broken \in BOOLEAN
      PROVE  LET a == After(report, broken)
             IN  a \in RunRecord /\ Same(a) /\ (Over(a, report) \/ More(a, report))
  <2>1. CASE Last(report, broken) BY <1>1, <2>1, AfterLast
  <2>2. CASE ~Last(report, broken) BY <1>1, <2>2, AfterMore
  <2> QED BY <2>1, <2>2
<1>4. CASE run' = After("failed", FALSE) BY <1>1, <1>3, <1>4
<1>5. CASE run' = After(run.report, TRUE) BY <1>1, <1>2, <1>3, <1>5 DEF Asking
<1>6. CASE run' = [After(Imported, TRUE) EXCEPT !.lost = TRUE]
  <2> DEFINE a == After(Imported, TRUE)
  <2>1. a \in RunRecord /\ Same(a) /\ (Over(a, Imported) \/ More(a, Imported)) BY <1>2, <1>3
  <2>2. run' = [a EXCEPT !.lost = TRUE] BY <1>6
  <2> HIDE DEF a
  <2>3. /\ run'.lost = TRUE /\ run'.since = a.since /\ run'.symbols = a.symbols /\ run'.stored = a.stored
        /\ run'.pc = a.pc /\ run'.next = a.next /\ run'.report = a.report /\ run'.want = a.want /\ run'.ok = a.ok
    BY <2>1, <2>2 DEF RunRecord
  <2> QED BY <1>1, <2>1, <2>3
<1> QED BY <1>4, <1>5, <1>6 DEF ImportFails

LEMMA TypesKept == TypeOK /\ Tried /\ Asking /\ [Next]_vars => TypeOK' /\ Tried'
<1> SUFFICES ASSUME TypeOK, Tried, Asking, [Next]_vars PROVE TypeOK' /\ Tried' OBVIOUS
<1>0. /\ today \in Days /\ faults \in 0..MaxFaults /\ bars \in [Symbol -> SUBSET Session]
      /\ sync \in SyncRecord /\ run \in RunRecord
  BY Records
<1>1. CASE UNCHANGED vars BY <1>0, <1>1, NextRecords DEF Tried, vars
<1>2. CASE NextDay
  <2>1. today' \in Days BY <1>0, <1>2, Constants DEF NextDay, Days
  <2> QED BY <1>0, <1>2, <2>1, NextRecords DEF NextDay, Tried
<1>3. CASE StartSync
  <2>1. sync' \in SyncRecord BY <1>0, <1>3, NoSyncType DEF StartSync, SyncRecord, SyncPcs
  <2> QED BY <1>0, <1>3, <2>1, NextRecords DEF StartSync, Tried
<1>4. ASSUME NEW s \in Symbol, ReadNewest(s) PROVE TypeOK' /\ Tried'
  <2>1. CASE s \in Known
    <3>1. sync' \in SyncRecord /\ UNCHANGED <<today, bars, run, faults>> BY <1>4, <2>1, ReadStep
    <3> QED BY <1>0, <3>1, NextRecords DEF Tried
  <2>2. CASE s \notin Known
    <3>1. sync' = Onward({s}, {s}, {}) /\ UNCHANGED <<today, bars, run, faults>> BY <1>4, <2>2 DEF ReadNewest
    <3>2. sync' \in SyncRecord BY <3>1, OnwardType
    <3> QED BY <1>0, <3>1, <3>2, NextRecords DEF Tried
  <2> QED BY <2>1, <2>2
<1>5. CASE ReadBatch
  <2>1. sync' \in SyncRecord /\ UNCHANGED <<today, bars, run, faults>> BY <1>5, ReadStep
  <2> QED BY <1>0, <2>1, NextRecords DEF Tried
<1>6. CASE StoreSync
  <2>1. sync.of \subseteq Symbol BY <1>0 DEF SyncRecord
  <2>2. sync' \in SyncRecord BY <1>6, <2>1, StoreStep, OnwardType
  <2> QED BY <1>0, <1>6, <2>2, StoreStep, NextRecords DEF Tried
<1>7. CASE RefuseSync \/ FailSync \/ SyncDies
  <2>1. sync.of \subseteq Symbol BY <1>0 DEF SyncRecord
  <2>2. sync' \in SyncRecord BY <1>7, <2>1, OnwardType, NoSyncType DEF RefuseSync, FailSync, SyncDies
  <2>3. faults' \in 0..MaxFaults /\ UNCHANGED <<today, bars, run>>
    BY <1>7, Faulted DEF RefuseSync, FailSync, SyncDies
  <2> QED BY <1>0, <2>2, <2>3, NextRecords DEF Tried
<1>8. ASSUME NEW symbols \in Lists, NEW resume \in BOOLEAN, StartRun(symbols, resume) PROVE TypeOK' /\ Tried'
  <2>1. run' \in RunRecord /\ run'.pc = "plan" /\ UNCHANGED <<today, bars, sync, faults>> BY <1>8, StartStep
  <2> QED BY <1>0, <2>1, NextRecords DEF Tried
<1>9. CASE Plan
  <2>1. run' \in RunRecord /\ UNCHANGED <<today, bars, sync, faults>> BY <1>9, PlanStep
  <2>2. run'.pc = "ask" => run'.tries = 0 BY <1>9, PlanStep
  <2> QED BY <1>0, <2>1, <2>2, NextRecords, Constants DEF Tried
<1>10. CASE Import
  <2>1. run.pc = "ask" /\ run.next < Until /\ Imported \in {"none", "ok", "failed"} /\ run' = After(Imported, FALSE)
    BY <1>10, ImportStep DEF Asking, Imported
  <2>2. run' \in RunRecord /\ Tried' BY <2>1, AfterType DEF Tried
  <2> QED BY <1>0, <1>10, <2>2, ImportStep, NextRecords
<1>11. CASE ImportFails
  <2>1. run.pc = "ask" /\ run.next < Until /\ Imported \in {"none", "ok", "failed"}
    BY <1>11 DEF ImportFails, Asking, Imported
  <2>2. run.report \in {"none", "ok", "failed"} BY <1>0 DEF RunRecord
  <2>3. faults' \in 0..MaxFaults /\ UNCHANGED <<today, bars, sync>> BY <1>11, Faulted DEF ImportFails
  <2>4. run' \in RunRecord /\ Tried'
    <3>1. CASE run' = After("failed", FALSE) BY <2>1, <3>1, AfterType DEF Tried
    <3>2. CASE run' = After(run.report, TRUE) BY <2>1, <2>2, <3>2, AfterType DEF Tried
    <3>3. CASE run' = [After(Imported, TRUE) EXCEPT !.lost = TRUE]
      <4> DEFINE a == After(Imported, TRUE)
      <4>1. a \in RunRecord /\ (a.pc = "ask" => a.tries < Attempts) BY <2>1, AfterType
      <4>2. run' = [a EXCEPT !.lost = TRUE] BY <3>3
      <4> HIDE DEF a
      <4>3. run' \in RunRecord /\ run'.pc = a.pc /\ run'.tries = a.tries BY <4>1, <4>2 DEF RunRecord
      <4> QED BY <4>1, <4>3 DEF Tried
    <3> QED BY <1>11, <3>1, <3>2, <3>3 DEF ImportFails
  <2> QED BY <1>0, <2>3, <2>4, NextRecords
<1>12. CASE Finish \/ RunDies
  <2>1. run' = NoRun /\ UNCHANGED <<today, bars, sync>> BY <1>12 DEF Finish, RunDies
  <2>2. faults' \in 0..MaxFaults BY <1>0, <1>12, Faulted DEF Finish, RunDies
  <2> QED BY <1>0, <2>1, <2>2, NoRunType, NextRecords DEF Tried
<1> QED BY <1>1, <1>2, <1>3, <1>4, <1>5, <1>6, <1>7, <1>8, <1>9, <1>10, <1>11, <1>12 DEF Next, Sync, Backfilling, Work

-----------------------------------------------------------------------------
(* Gaps stay within reach *)

LEMMA Numbers ==
    ASSUME TypeOK
    PROVE  /\ today \in Nat /\ sync.now \in Nat /\ run.since \in Nat /\ sync.span \subseteq Session
           /\ sync.of \subseteq Symbol /\ Session \subseteq Nat
           /\ \A s \in Symbol : bars[s] \subseteq Session /\ Printed[s] \subseteq Session
BY Records, SessionFacts, Constants DEF SyncRecord, RunRecord

\* The steps of the synchronisation that read and store nothing.
Pass == StartSync \/ RefuseSync \/ FailSync \/ SyncDies \/ \E s \in Symbol \ Known : ReadNewest(s)

LEMMA PassStep ==
    ASSUME TypeOK, Pass
    PROVE  /\ UNCHANGED <<today, bars, run>> /\ sync'.pc # "store"
           /\ sync'.now \in {Start, today, sync.now}
           /\ sync'.pc # "idle" => sync'.now = today \/ (sync'.now = sync.now /\ sync.pc # "idle")
<1>0. sync.of \subseteq Symbol /\ sync \in SyncRecord BY Records DEF SyncRecord
<1>1. CASE StartSync
  <2>1. sync'.pc = "read" /\ sync'.now = today BY <1>1, NoSyncType DEF StartSync, SyncRecord
  <2> QED BY <1>1, <2>1 DEF StartSync
<1>2. CASE RefuseSync BY <1>0, <1>2, OnwardType, NoSyncType DEF RefuseSync
<1>3. CASE FailSync BY <1>0, <1>3, OnwardType, NoSyncType DEF FailSync
<1>4. CASE SyncDies BY <1>4, NoSyncType DEF SyncDies
<1>5. ASSUME NEW s \in Symbol \ Known, ReadNewest(s)
      PROVE  /\ UNCHANGED <<today, bars, run>> /\ sync'.pc # "store"
             /\ sync'.now \in {Start, today, sync.now}
             /\ sync'.pc # "idle" => sync'.now = today \/ (sync'.now = sync.now /\ sync.pc # "idle")
  <2>1. sync' = Onward({s}, {s}, {}) /\ sync.pc = "read" /\ UNCHANGED <<today, bars, run>> BY <1>5 DEF ReadNewest
  <2> QED BY <2>1, OnwardType, NoSyncType
<1> QED BY <1>1, <1>2, <1>3, <1>4, <1>5 DEF Pass

\* Whatever changes the run alone, or the day, leaves the read of the newest bars as it is.
LEMMA ElsewhereKeeps ==
    ASSUME TypeOK, Clock, Read, GapsAreAskedFor, UNCHANGED <<bars, sync>>,
           today' \in Nat, today <= today', run'.since \in Nat, run'.since <= today'
    PROVE  Clock' /\ Read' /\ GapsAreAskedFor'
<1>1. Clock' BY Numbers, Constants DEF Clock
<1>2. Read' BY DEF Read
<1>3. GapsAreAskedFor' BY DEF GapsAreAskedFor
<1> QED BY <1>1, <1>2, <1>3

LEMMA PassKeeps ==
    ASSUME TypeOK, Clock, Read, GapsAreAskedFor, Pass
    PROVE  Clock' /\ Read' /\ GapsAreAskedFor'
<1>1. Clock' BY PassStep, Numbers, Constants DEF Clock
<1>2. Read' BY PassStep DEF Read
<1>3. GapsAreAskedFor' BY PassStep DEF GapsAreAskedFor
<1> QED BY <1>1, <1>2, <1>3

\* A span has no holes, and leaves out only what a stored bar is far past.
LEMMA SpanFacts ==
    ASSUME TypeOK, NEW s \in Symbol, NEW now \in Nat
    PROVE  /\ \A p \in Span(s, now) : \A q \in Session : p < q /\ q <= now => q \in Span(s, now)
           /\ bars[s] # {} => \A x \in Session : x <= now /\ x \notin Span(s, now)
                                => \E z \in bars[s] : x < z - Overlap
<1>1. bars[s] \subseteq Nat /\ Session \subseteq Nat BY Numbers
<1>2. ASSUME NEW p \in Span(s, now), NEW q \in Session, p < q, q <= now PROVE q \in Span(s, now)
  BY <1>1, <1>2, Constants DEF Span
<1>3. ASSUME bars[s] # {}, NEW x \in Session, x <= now, x \notin Span(s, now)
      PROVE  \E z \in bars[s] : x < z - Overlap
  <2>1. PICK z \in bars[s] : ~(z - Overlap <= x) BY <1>3 DEF Span
  <2> QED BY <1>1, <2>1, Constants
<1> QED BY <1>2, <1>3

LEMMA ReadKeeps ==
    ASSUME TypeOK, Clock, Read, GapsAreAskedFor, ReadBatch \/ \E s \in Known : ReadNewest(s)
    PROVE  Clock' /\ Read' /\ GapsAreAskedFor'
<1>1. PICK of \in SUBSET Symbol, now \in {sync.now, today} :
        /\ sync'.pc = "store" /\ sync'.now = now /\ sync'.of = of
        /\ sync'.span = UNION { Span(s, now) : s \in of }
        /\ (now = sync.now => sync.pc = "read" \/ now = today)
        /\ UNCHANGED <<today, bars, run, faults>>
  BY ReadStep
<1>2. now \in Nat BY Numbers
<1>3. Clock' BY <1>1, Numbers, Constants DEF Clock
<1>4. Read'
  <2>1. ASSUME NEW p \in sync'.span, NEW q \in Session, p < q, q <= now PROVE q \in sync'.span
    <3>1. PICK s \in of : p \in Span(s, now) BY <1>1, <2>1
    <3>2. q \in Span(s, now) BY <1>2, <2>1, <3>1, SpanFacts
    <3> QED BY <1>1, <3>2
  <2>2. ASSUME NEW s \in of, \E y \in bars[s] : Until <= y, NEW x \in Session, x <= now, x \notin sync'.span
        PROVE  \E z \in bars[s] : x < z - Overlap
    <3>1. x \notin Span(s, now) /\ bars[s] # {} BY <1>1, <2>2
    <3> QED BY <1>2, <2>2, <3>1, SpanFacts
  <2> QED BY <1>1, <2>1, <2>2 DEF Read
<1>5. GapsAreAskedFor' BY <1>1 DEF GapsAreAskedFor
<1> QED BY <1>3, <1>4, <1>5

\* A gap of the symbols just stored is one within the overlap.
LEMMA StoredGap ==
    ASSUME TypeOK, Clock, Read, GapsAreAskedFor, sync.pc = "store",
           NEW s \in sync.of, NEW got \in Answers(s, sync.span, sync.now), got \subseteq sync.span,
           NEW x \in Printed[s], x \notin bars[s] \cup got, x >= Until,
           NEW y \in bars[s] \cup got, Until <= y, y < x,
           NEW z \in bars[s] \cup got
    PROVE  z - Overlap <= x
<1>0. /\ s \in Symbol /\ sync.now \in Nat /\ today \in Nat /\ Session \subseteq Nat /\ x \in Session
      /\ bars[s] \subseteq Session /\ sync.span \subseteq Session
  BY Numbers
<1>1. x \in Nat /\ y \in Nat /\ z \in Nat BY <1>0
<1> SUFFICES ASSUME x < z - Overlap PROVE FALSE BY <1>1, Constants
<1>2. z >= Until /\ x + Delay <= z BY <1>1, Constants
<1>3. z <= sync.now
  <2>1. CASE z \in got BY <2>1 DEF Answers
  <2>2. CASE z \in bars[s] BY <2>2, <1>0, <1>1, <1>2, Constants DEF Clock
  <2> QED BY <2>1, <2>2
<1>4. x \notin sync.span
  <2>1. x + Delay <= sync.now BY <1>0, <1>1, <1>2, <1>3, Constants
  <2>2. ASSUME x \in sync.span PROVE x \in got BY <2>1, <2>2 DEF Answers
  <2> QED BY <2>2
<1>5. x <= sync.now BY <1>0, <1>1, <1>2, <1>3, Constants
<1>6. y \in bars[s]
  <2>1. ASSUME y \in sync.span PROVE FALSE BY <2>1, <1>0, <1>4, <1>5 DEF Read
  <2> QED BY <2>1
<1>7. PICK w \in bars[s] : x < w - Overlap BY <1>0, <1>4, <1>5, <1>6 DEF Read
<1>8. w - Overlap <= x BY <1>0, <1>6 DEF GapsAreAskedFor
<1>9. w \in Nat BY <1>0, <1>7
<1> QED BY <1>1, <1>7, <1>8, <1>9, Constants

LEMMA StoreKeeps ==
    ASSUME TypeOK, Clock, Read, GapsAreAskedFor, StoreSync
    PROVE  Clock' /\ Read' /\ GapsAreAskedFor'
<1>0. /\ sync.pc = "store" /\ UNCHANGED <<today, run, faults>> /\ sync' = Onward(sync.of, sync.of, {})
      /\ bars' \in [Symbol -> SUBSET Session] /\ \A s \in Symbol : bars[s] \subseteq bars'[s]
      /\ \A s \in Symbol \ sync.of : bars'[s] = bars[s]
      /\ \A s \in sync.of : \E got \in Answers(s, sync.span, sync.now) :
            got \subseteq sync.span /\ bars'[s] = bars[s] \cup got
  BY StoreStep
<1>1. sync.of \subseteq Symbol BY Numbers
<1>2. sync'.pc # "store" /\ (sync' = NoSync \/ sync'.now = sync.now) BY <1>0, <1>1, OnwardType
<1>3. \A s \in Symbol : \A z \in bars'[s] : z \in bars[s] \/ z <= sync.now BY <1>0 DEF Answers
<1>4. Clock'
  <2>1. Start <= today' /\ sync'.now <= today' /\ run'.since <= today' BY <1>0, <1>2, NoSyncType DEF Clock
  <2>2. ASSUME NEW s \in Symbol, NEW z \in bars'[s]
        PROVE  z <= today /\ (sync'.pc # "idle" => z < Until \/ z <= sync'.now)
    <3>1. z \in Nat BY <1>0, Numbers
    <3>2. z <= today /\ (z < Until \/ z <= sync.now) BY <1>0, <1>3, <2>2, <3>1, Numbers DEF Clock
    <3> QED BY <1>2, <3>2, NoSyncType
  <2> QED BY <1>0, <2>1, <2>2 DEF Clock
<1>5. Read' BY <1>2 DEF Read
<1>6. GapsAreAskedFor'
  <2> SUFFICES ASSUME NEW s \in Symbol, NEW x \in Printed[s], x \notin bars'[s], x >= Until,
                      NEW y \in bars'[s], Until <= y, y < x, NEW z \in bars'[s]
               PROVE  z - Overlap <= x
    BY DEF GapsAreAskedFor
  <2>1. CASE s \notin sync.of BY <1>0, <2>1 DEF GapsAreAskedFor
  <2>2. CASE s \in sync.of
    <3>1. PICK got \in Answers(s, sync.span, sync.now) : got \subseteq sync.span /\ bars'[s] = bars[s] \cup got
      BY <1>0, <2>2
    <3> QED BY <1>0, <2>2, <3>1, StoredGap
  <2> QED BY <2>1, <2>2
<1> QED BY <1>4, <1>5, <1>6

LEMMA ImportKeeps ==
    ASSUME TypeOK, Tried, Asking, Clock, Read, GapsAreAskedFor, Import
    PROVE  Clock' /\ Read' /\ GapsAreAskedFor'
<1>0. /\ run.pc = "ask" /\ UNCHANGED <<today, sync, faults>> /\ run' = After(Imported, FALSE)
      /\ bars' \in [Symbol -> SUBSET Session] /\ \A s \in Symbol : bars[s] \subseteq bars'[s]
      /\ \A s \in Symbol : \A x \in bars'[s] : x \in bars[s] \/ (x < Until /\ x <= today)
  BY ImportStep
<1>1. run.next < Until /\ Imported \in {"none", "ok", "failed"} BY <1>0 DEF Asking, Imported
<1>2. run'.since = run.since BY <1>0, <1>1, AfterLast, AfterMore
<1>3. \A s \in Symbol : bars'[s] \subseteq Nat /\ Printed[s] \subseteq Nat BY <1>0, Numbers
<1>4. Clock' BY <1>0, <1>2 DEF Clock
<1>5. Read'
  <2>1. ASSUME NEW s \in sync.of, \E y \in bars'[s] : Until <= y PROVE \E y \in bars[s] : Until <= y
    <3>1. s \in Symbol BY Numbers
    <3> QED BY <1>0, <1>3, <2>1, <3>1, Constants
  <2>2. \A s \in sync.of : bars[s] \subseteq bars'[s] BY <1>0, Numbers
  <2> QED BY <1>0, <2>1, <2>2 DEF Read
<1>6. GapsAreAskedFor'
  <2> SUFFICES ASSUME NEW s \in Symbol, NEW x \in Printed[s], x \notin bars'[s], x >= Until,
                      NEW y \in bars'[s], Until <= y, y < x, NEW z \in bars'[s]
               PROVE  z - Overlap <= x
    BY DEF GapsAreAskedFor
  <2>1. x \in Nat /\ y \in Nat /\ z \in Nat /\ x \notin bars[s] BY <1>0, <1>3
  <2>2. y \in bars[s] BY <1>0, <2>1, Constants
  <2>3. CASE z < Until BY <2>1, <2>3, Constants
  <2>4. CASE z \in bars[s] BY <2>1, <2>2, <2>4 DEF GapsAreAskedFor
  <2> QED BY <1>0, <2>3, <2>4
<1> QED BY <1>4, <1>5, <1>6

LEMMA GapsKept ==
    TypeOK /\ Tried /\ Asking /\ Clock /\ Read /\ GapsAreAskedFor /\ [Next]_vars => Clock' /\ Read' /\ GapsAreAskedFor'
<1> SUFFICES ASSUME TypeOK, Tried, Asking, Clock, Read, GapsAreAskedFor, [Next]_vars
             PROVE  Clock' /\ Read' /\ GapsAreAskedFor'
  OBVIOUS
<1>0. today \in Nat /\ run.since \in Nat /\ run.since <= today /\ Start <= today /\ Start \in Nat
  BY Numbers, Constants DEF Clock
<1>1. CASE UNCHANGED vars BY <1>0, <1>1, ElsewhereKeeps DEF vars
<1>2. CASE NextDay BY <1>0, <1>2, ElsewhereKeeps DEF NextDay
<1>3. CASE Pass BY <1>3, PassKeeps
<1>4. CASE ReadBatch \/ \E s \in Known : ReadNewest(s) BY <1>4, ReadKeeps
<1>5. CASE StoreSync BY <1>5, StoreKeeps
<1>6. ASSUME NEW symbols \in Lists, NEW resume \in BOOLEAN, StartRun(symbols, resume)
      PROVE  Clock' /\ Read' /\ GapsAreAskedFor'
  BY <1>0, <1>6, StartStep, ElsewhereKeeps
<1>7. CASE Plan BY <1>0, <1>7, PlanStep, ElsewhereKeeps
<1>8. CASE Import BY <1>8, ImportKeeps
<1>9. CASE ImportFails
  <2>1. run'.since = run.since /\ UNCHANGED <<today, bars, sync>> BY <1>9, FailStep
  <2> QED BY <1>0, <2>1, ElsewhereKeeps
<1>10. CASE Finish \/ RunDies
  <2>1. run'.since = Start BY <1>10, NoRunType DEF Finish, RunDies
  <2> QED BY <1>0, <1>10, <2>1, ElsewhereKeeps DEF Finish, RunDies
<1> QED BY <1>1, <1>2, <1>3, <1>4, <1>5, <1>6, <1>7, <1>8, <1>9, <1>10, Constants
        DEF Next, Sync, Backfilling, Work, Pass

-----------------------------------------------------------------------------
(* A finished backfill is whole *)

\* The windows behind stay behind while bars are only added.
LEMMA BehindShrinks ==
    ASSUME TypeOK, NEW s \in Symbol, NEW start \in Starts, bars[s] \subseteq bars'[s], Enough(s, start),
           run'.since = run.since
    PROVE  Enough(s, start)'
<1> DEFINE L == Lacking(s, start, run.since)
<1>1. L' \subseteq L BY DEF Lacking
<1>2. L \subseteq Counted(start) BY Finite DEF Lacking
<1>3. IsFiniteSet(L) /\ IsFiniteSet(L') BY <1>1, <1>2, Finite, FS_Subset
<1>4. Cardinality(L') <= Cardinality(L) BY <1>1, <1>3, FS_Subset
<1>5. Cardinality(L) \in Nat /\ Cardinality(L') \in Nat BY <1>3, FS_CardinalityType
<1>6. Tolerance(start) \in Nat BY ToleranceType
<1>7. Cardinality(L) <= Tolerance(start) BY DEF Enough
<1> HIDE DEF L
<1>8. Cardinality(L') <= Tolerance(start) BY <1>4, <1>5, <1>6, <1>7
<1> QED BY <1>8 DEF Enough, L

\* A step that leaves the run alone.
LEMMA RunAlone ==
    ASSUME TypeOK, Place, Asking, Behind, UNCHANGED run, \A s \in Symbol : bars[s] \subseteq bars'[s]
    PROVE  Place' /\ Asking' /\ Behind'
<1>1. Place' BY DEF Place
<1>2. Asking' BY DEF Asking
<1>3. Behind'
  <2> SUFFICES ASSUME run.pc # "idle", run.ok, ~run.lost, NEW s \in run.symbols, NEW start \in Starts, start < run.next
               PROVE  Enough(s, start)'
    BY DEF Behind
  <2>1. s \in Symbol BY Records DEF RunRecord
  <2>2. Enough(s, start) BY DEF Behind
  <2> QED BY <2>1, <2>2, BehindShrinks
<1> QED BY <1>1, <1>2, <1>3

\* A step that ends the run.
LEMMA RunOver ==
    ASSUME run' = NoRun
    PROVE  Place' /\ Asking' /\ Behind'
<1>1. First \in Starts
  <2>1. First = First + Chunk * 0 /\ 0 \in 0..LastDay BY Constants
  <2> QED BY <2>1, Constants DEF Starts
<1> QED BY <1>1, NoRunType DEF Place, Asking, Behind

LEMMA RunStarts ==
    ASSUME TypeOK, NEW symbols \in Lists, NEW resume \in BOOLEAN, StartRun(symbols, resume)
    PROVE  Place' /\ Asking' /\ Behind'
<1>1. First \in Starts
  <2>1. First = First + Chunk * 0 /\ 0 \in 0..LastDay BY Constants
  <2> QED BY <2>1, Constants DEF Starts
<1>2. \A start \in Starts : ~(start < First) BY Constants DEF Starts
<1> QED BY <1>1, <1>2, StartStep DEF Place, Asking, Behind

LEMMA PlanKeeps ==
    ASSUME TypeOK, Place, Asking, Behind, Plan
    PROVE  Place' /\ Asking' /\ Behind'
<1>0. /\ run.pc = "plan" /\ run.next < Until /\ UNCHANGED <<today, bars, sync, faults>>
      /\ run'.ok = run.ok /\ run'.lost = run.lost
      /\ run'.symbols = run.symbols /\ run'.since = run.since /\ run'.stored = run.stored
  BY PlanStep
<1>1. run.next \in Starts /\ run.since \in Nat /\ run.symbols \subseteq Symbol
  BY <1>0, Constants, Records, Numbers DEF Place, RunRecord
<1>2. CASE /\ run'.pc = "plan" /\ run'.next = Stop(run.next) /\ run'.report = run.report
           /\ \A s \in run.symbols : Covered(run.stored[s], run.next)
  <2>1. Place' BY <1>1, <1>2, NextStart DEF Place
  <2>2. Asking' BY <1>0, <1>2 DEF Asking
  <2>3. ASSUME run.ok, ~run.lost, NEW s \in run.symbols, NEW start \in Starts, start < Stop(run.next)
        PROVE  Enough(s, start)
    <3>1. CASE start < run.next BY <1>0, <2>3, <3>1 DEF Behind
    <3>2. CASE start = run.next
      <4>1. run.stored[s] \subseteq bars[s] /\ s \in Symbol BY <1>0, <1>1, <2>3 DEF Asking
      <4> QED BY <1>1, <1>2, <2>3, <3>2, <4>1, CoveredIsEnough DEF Enough
    <3> QED BY <1>1, <2>3, <3>1, <3>2, NextStart
  <2>4. Behind'
    <3>1. \A s \in run.symbols, start \in Starts : Enough(s, start)' = Enough(s, start)
      BY <1>0 DEF Enough, Lacking
    <3> QED BY <1>0, <1>2, <2>3, <3>1 DEF Behind
  <2> QED BY <2>1, <2>2, <2>4
<1>3. CASE /\ run'.pc = "ask" /\ run'.next = run.next /\ run'.report = "none" /\ run'.tries = 0
           /\ \A s \in run.symbols \ run'.want : Covered(run.stored[s], run.next)
  <2>1. Place' BY <1>1, <1>3 DEF Place
  <2>2. Asking' BY <1>0, <1>3 DEF Asking
  <2>3. \A s \in run.symbols, start \in Starts : Enough(s, start)' = Enough(s, start)
    BY <1>0 DEF Enough, Lacking
  <2>4. Behind' BY <1>0, <1>3, <2>3 DEF Behind
  <2> QED BY <2>1, <2>2, <2>4
<1> QED BY <1>2, <1>3, PlanStep

\* A window that was answered for a symbol lacks nothing the vendor had by then.
LEMMA AnsweredIsEnough ==
    ASSUME TypeOK, Clock, NEW s \in Symbol, NEW start \in Starts,
           NEW got \in Answers(s, Window(start), today), got \subseteq bars'[s], run'.since = run.since
    PROVE  Enough(s, start)'
<1>0. run.since \in Nat /\ today \in Nat /\ Session \subseteq Nat BY Numbers
<1>1. start \in First..Until BY Constants DEF Starts
<1>2. Window(start) \subseteq Nat BY <1>0, <1>1, SessionFacts
<1>3. ASSUME NEW x \in Window(start) \cap Printed[s], x + Delay <= run.since PROVE x \in bars'[s]
  <2>1. x + Delay <= today BY <1>0, <1>2, <1>3, Constants DEF Clock
  <2> QED BY <2>1 DEF Answers
<1>4. Lacking(s, start, run.since)' = {} BY <1>3 DEF Lacking
<1>5. Cardinality(Lacking(s, start, run.since)') = 0 BY <1>4, FS_EmptySet
<1>6. Tolerance(start) \in Nat BY ToleranceType
<1> QED BY <1>5, <1>6 DEF Enough, Lacking

LEMMA ImportRunKept ==
    ASSUME TypeOK, Tried, Clock, Place, Asking, Behind, Import
    PROVE  Place' /\ Asking' /\ Behind'
<1>0. /\ run.pc = "ask" /\ UNCHANGED <<today, sync, faults>> /\ run' = After(Imported, FALSE)
      /\ \A s \in Symbol : bars[s] \subseteq bars'[s]
      /\ \A s \in run.want \cap Known : \E got \in Answers(s, Window(run.next), today) : got \subseteq bars'[s]
  BY ImportStep
<1>1. run.next < Until /\ Imported \in {"none", "ok", "failed"} BY <1>0 DEF Asking, Imported
<1>2. run.next \in Starts /\ run.since \in Nat /\ run.symbols \subseteq Symbol
  BY <1>1, Constants, Records, Numbers DEF Place, RunRecord
<1>3. CASE Last(Imported, FALSE)
  <2>1. /\ run'.pc = "plan" /\ run'.report = "none" /\ run'.next = Stop(run.next)
        /\ run'.symbols = run.symbols /\ run'.since = run.since /\ run'.stored = run.stored
        /\ run'.lost = run.lost /\ (run'.ok => run.ok /\ Imported = "ok")
    BY <1>0, <1>1, <1>3, AfterLast
  <2>2. Place' BY <1>2, <2>1, NextStart DEF Place
  <2>3. Asking' BY <1>0, <2>1 DEF Asking
  <2>4. ASSUME run'.ok, ~run.lost, NEW s \in run.symbols, NEW start \in Starts, start < Stop(run.next)
        PROVE  Enough(s, start)'
    <3>1. CASE start < run.next
      <4>1. Enough(s, start) BY <1>0, <2>1, <2>4, <3>1 DEF Behind
      <4> QED BY <1>0, <1>2, <2>1, <4>1, BehindShrinks
    <3>2. CASE start = run.next /\ s \in run.want
      <4>1. s \in run.want \cap Known BY <2>1, <2>4, <3>2 DEF Imported
      <4>2. PICK got \in Answers(s, Window(start), today) : got \subseteq bars'[s] BY <1>0, <3>2, <4>1
      <4> QED BY <1>2, <2>1, <4>2, AnsweredIsEnough
    <3>3. CASE start = run.next /\ s \notin run.want
      <4>1. Covered(run.stored[s], start) /\ run.stored[s] \subseteq bars[s]
        BY <1>0, <1>2, <3>3 DEF Asking
      <4>2. Enough(s, start) BY <1>2, <4>1, CoveredIsEnough DEF Enough
      <4> QED BY <1>0, <1>2, <2>1, <4>2, BehindShrinks
    <3> QED BY <1>2, <2>4, <3>1, <3>2, <3>3, NextStart
  <2>5. Behind' BY <2>1, <2>4 DEF Behind
  <2> QED BY <2>2, <2>3, <2>5
<1>4. CASE ~Last(Imported, FALSE)
  <2>1. /\ run'.pc = "ask" /\ run'.report = Imported /\ run'.next = run.next
        /\ run'.symbols = run.symbols /\ run'.since = run.since /\ run'.stored = run.stored
        /\ run'.want = run.want /\ run'.lost = run.lost /\ run'.ok = run.ok
    BY <1>0, <1>1, <1>4, AfterMore
  <2>2. run'.report # "ok" BY <1>4, <2>1 DEF Last
  <2>3. Place' BY <1>2, <2>1 DEF Place
  <2>4. Asking' BY <1>0, <1>1, <2>1, <2>2 DEF Asking
  <2>5. Behind'
    <3>1. \A s \in run.symbols, start \in Starts : Enough(s, start) => Enough(s, start)'
      BY <1>0, <1>2, <2>1, BehindShrinks
    <3> QED BY <1>0, <2>1, <3>1 DEF Behind
  <2> QED BY <2>3, <2>4, <2>5
<1> QED BY <1>3, <1>4

LEMMA FailRunKept ==
    ASSUME TypeOK, Tried, Place, Asking, Behind, ImportFails
    PROVE  Place' /\ Asking' /\ Behind'
<1>0. /\ run.pc = "ask" /\ run.next < Until /\ UNCHANGED <<today, bars, sync>>
      /\ run'.since = run.since /\ run'.symbols = run.symbols /\ run'.stored = run.stored
      /\ run.lost => run'.lost
  BY FailStep
<1>1. run.next \in Starts BY <1>0, Constants DEF Place
<1>2. \A s \in run.symbols, start \in Starts : Enough(s, start)' = Enough(s, start) BY <1>0 DEF Enough, Lacking
<1>3. CASE run'.pc = "plan" /\ run'.next = Stop(run.next) /\ run'.report = "none" /\ (run'.ok => run'.lost)
  <2>1. Place' BY <1>1, <1>3, NextStart DEF Place
  <2> QED BY <1>0, <1>3, <2>1 DEF Asking, Behind
<1>4. CASE /\ run'.pc = "ask" /\ run'.next = run.next /\ run'.want = run.want
           /\ run'.ok = run.ok /\ (run'.report = "ok" => run'.lost)
  <2>1. Place' BY <1>1, <1>4 DEF Place
  <2>2. Asking' BY <1>0, <1>4 DEF Asking
  <2>3. Behind' BY <1>0, <1>2, <1>4 DEF Behind
  <2> QED BY <2>1, <2>2, <2>3
<1> QED BY <1>3, <1>4, FailStep

LEMMA WholeKept ==
    ASSUME TypeOK, Tried, Clock, Place, Asking, Behind, [Next]_vars
    PROVE  Place' /\ Asking' /\ Behind'
<1>1. CASE UNCHANGED vars BY <1>1, RunAlone DEF vars
<1>2. CASE NextDay BY <1>2, RunAlone DEF NextDay
<1>3. CASE Pass BY <1>3, PassStep, RunAlone
<1>4. CASE ReadBatch \/ \E s \in Known : ReadNewest(s) BY <1>4, ReadStep, RunAlone
<1>5. CASE StoreSync BY <1>5, StoreStep, RunAlone
<1>6. ASSUME NEW symbols \in Lists, NEW resume \in BOOLEAN, StartRun(symbols, resume) PROVE Place' /\ Asking' /\ Behind'
  BY <1>6, RunStarts
<1>7. CASE Plan BY <1>7, PlanKeeps
<1>8. CASE Import BY <1>8, ImportRunKept
<1>9. CASE ImportFails BY <1>9, FailRunKept
<1>10. CASE Finish \/ RunDies BY <1>10, RunOver DEF Finish, RunDies
<1> QED BY <1>1, <1>2, <1>3, <1>4, <1>5, <1>6, <1>7, <1>8, <1>9, <1>10, Constants
        DEF Next, Sync, Backfilling, Work, Pass

-----------------------------------------------------------------------------
(* The theorems *)

LEMMA Initially == Init => IInv
<1> SUFFICES ASSUME Init PROVE IInv OBVIOUS
<1>1. TypeOK /\ Tried BY TypesAtInit
<1>2. sync = NoSync /\ run = NoRun /\ today = Start /\ \A s \in Symbol : bars[s] = {} BY DEF Init
<1>3. First \in Starts
  <2>1. First = First + Chunk * 0 /\ 0 \in 0..LastDay BY Constants
  <2> QED BY <2>1, Constants DEF Starts
<1>4. Clock BY <1>2, NoSyncType, NoRunType, Constants DEF Clock
<1>5. Read /\ GapsAreAskedFor BY <1>2, NoSyncType DEF Read, GapsAreAskedFor
<1>6. Place /\ Asking /\ Behind BY <1>2, <1>3, NoRunType DEF Place, Asking, Behind
<1> QED BY <1>1, <1>4, <1>5, <1>6 DEF IInv

LEMMA Inductive == Spec => []IInv
<1>1. IInv /\ [Next]_vars => IInv' BY TypesKept, GapsKept, WholeKept DEF IInv
<1> QED BY <1>1, Initially, PTL DEF Spec

\* Every variable has its type.
THEOREM TypeCorrect == Spec => []TypeOK
<1>1. IInv => TypeOK BY DEF IInv
<1> QED BY <1>1, Inductive, PTL

\* A gap the synchronisation leaves behind lies within the overlap it asks for
\* again, for any number of symbols and any overlap the delay fits in.
THEOREM GapsHold == Spec => []GapsAreAskedFor
<1>1. IInv => GapsAreAskedFor BY DEF IInv
<1> QED BY <1>1, Inductive, PTL

\* A backfill that ends without a failure on record and without a lost commit
\* leaves every window within the tolerance.
THEOREM FinishedHolds == Spec => FinishedIsWhole
<1>1. IInv /\ [Next]_vars => [Finished /\ ~run.lost => Whole(run.symbols, run.since)]_vars
  <2> SUFFICES ASSUME IInv, run.pc = "plan", run.next >= Until, run.ok, ~run.lost PROVE Whole(run.symbols, run.since)
    BY DEF Finished
  <2>1. run.next \in First..Until BY Records DEF IInv, RunRecord
  <2>2. \A start \in Starts : start < run.next BY <2>1, Constants DEF Starts
  <2> QED BY <2>2 DEF IInv, Behind, Whole, Enough
<1> QED BY <1>1, Inductive, PTL DEF Spec, FinishedIsWhole

=============================================================================
