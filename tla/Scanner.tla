------------------------------ MODULE Scanner ------------------------------
(***************************************************************************)
(* Scan cycles: the lease that keeps them apart, the lifecycle of tracked  *)
(* signals and the policy that decides which transition is announced.      *)
(*                                                                         *)
(* Every scheduled invocation is a process.  A cycle takes the lease,      *)
(* evaluates one symbol per transaction, announces what changed after that *)
(* transaction has committed, expires what it no longer sees and completes *)
(* its run.  An announcement reads the policy state, delivers and saves in *)
(* three separate steps.                                                   *)
(*                                                                         *)
(* The database reads what is committed and has no constraint over run     *)
(* rows or over the identity of a signal.  A transaction that reads and    *)
(* then writes is therefore two steps, what it read and what it commits:   *)
(* Look and Claim of a lease, Find and Write of a signal.  All steps       *)
(* interleave, and a process may die between any two.                      *)
(*                                                                         *)
(* Times are kept as ages, in ticks, so that the model has no clock.       *)
(***************************************************************************)
EXTENDS Integers, Sequences, FiniteSets, FiniteSetsExt

CONSTANTS
    Proc,                      \* scheduled invocations
    Watchlist,                 \* symbols, in the order they are scanned
    Setup,                     \* direction and premise: the rest of an identity
    Score,                     \* scores an evaluation may give
    Threshold, StrongAt,       \* signal_threshold, strong_signal_threshold
    MinChange, Cooldown,       \* minimum_score_change, signal_cooldown_minutes
    Lease, Expiry,             \* lease_seconds, signal_expiry_hours
    Slot,                      \* bound: rows of tracked signals in use at once
    Late,                      \* bound: ticks a cycle may last
    Pause,                     \* bound: ticks between seeing no lease and taking it
    MaxFaults                  \* bound: crashes and failed cycles

ASSUME ScannerAssumption ==
    /\ {Threshold, StrongAt, MinChange, Cooldown, Expiry, Late, Pause, MaxFaults} \subseteq Nat
    /\ Lease \in Nat \ {0} /\ Score \subseteq Nat /\ Threshold <= StrongAt /\ Pause <= Late
    /\ Watchlist \in Seq(STRING) /\ IsFiniteSet(Proc)

VARIABLES
    run,      \* status of each process's last run row
    lease,    \* ticks before its lease expires, or since (down to -Pause)
    rows,     \* active tracked signals
    state,    \* notification_state: what the policy remembers of each symbol
    pc, at,   \* where each process is in its cycle, and at which symbol
    since,    \* ticks since the invocation
    draft,    \* the evaluation in hand: what was found and what will be written
    note,     \* the announcement in hand
    heard,    \* history: what was last delivered about each symbol, and the age
              \* of the decision to send it
    crowd,    \* history: the most cycles there have been at once
    faults    \* crashes and failed cycles so far

vars == <<run, lease, rows, state, pc, at, since, draft, note, heard, crowd, faults>>
cycle == <<run, lease, at, since>>

Symbol == {Watchlist[n] : n \in DOMAIN Watchlist}
Oldest == Expiry + Late + 1

Phase == {"none", "qualified", "strong"}
Live == {"DISCOVERED", "QUALIFIED", "STRONG", "WEAKENED"}
State == [phase : Phase, score : Score \union {-1}, age : 0 .. Cooldown]
Row == [sym : Symbol \union {"free"}, setup : Setup \union {"free"},
        life : Live \union {"free"}, age : 0 .. Oldest]

\* The row found, if any; the state to write, if it changes; the score to tell, if
\* the change is worth it.
Draft == [row : {{}} \union {{k} : k \in Slot}, setup : Setup \union {"free"},
          to : Live \union {"same", "INVALIDATED"}, news : Score \union {-1}]

Free == [sym |-> "free", setup |-> "free", life |-> "free", age |-> 0]
NoState == [phase |-> "none", score |-> -1, age |-> Cooldown]
NoDraft == [row |-> {}, setup |-> "free", to |-> "same", news |-> -1]
NoNote == [event |-> "none", score |-> 0, next |-> NoState]

Init ==
    /\ run = [p \in Proc |-> "none"] /\ lease = [p \in Proc |-> 0]
    /\ rows = [k \in Slot |-> Free] /\ state = [s \in Symbol |-> NoState]
    /\ pc = [p \in Proc |-> "idle"] /\ at = [p \in Proc |-> 1] /\ since = [p \in Proc |-> 0]
    /\ draft = [p \in Proc |-> NoDraft] /\ note = [p \in Proc |-> NoNote]
    /\ heard = [s \in Symbol |-> [news |-> "nothing", age |-> Cooldown]]
    /\ crowd = 0 /\ faults = 0

\* The invocations that took the lease and are in their cycle.
Cycling == {p \in Proc : pc[p] \notin {"idle", "claim"}}

\* History: nothing failed yet, and no two cycles were at once.
calm == crowd <= 1 /\ faults = 0

Up(n, cap) == IF n < cap THEN n + 1 ELSE cap
Sym(p) == Watchlist[at[p]]

----------------------------------------------------------------------------
(* The lease *)

\* Mutant: a run is held until it is completed, whatever its lease.
MutHeld(p) == run[p] = "RUNNING"

Held(p) == run[p] = "RUNNING" /\ lease[p] > 0

\* Mutant: whoever else holds the lease is not looked at.
MutLook(p) ==
    /\ pc[p] = "idle" /\ ~Held(p)
    /\ pc' = [pc EXCEPT ![p] = "claim"]
    /\ UNCHANGED <<cycle, rows, state, draft, note, heard, crowd, faults>>

\* acquire_lease reads that nobody holds the lease...
Look(p) ==
    /\ pc[p] = "idle" /\ \A q \in Proc : ~Held(q)
    /\ pc' = [pc EXCEPT ![p] = "claim"]
    /\ UNCHANGED <<cycle, rows, state, draft, note, heard, crowd, faults>>

\* ... and later presumes expired runs crashed and inserts its own, as of when
\* it looked and whatever was inserted in the meantime.
Claim(p) ==
    /\ pc[p] = "claim"
    /\ run' = [q \in Proc |-> IF q = p THEN "RUNNING"
                              ELSE IF run[q] = "RUNNING" /\ lease[q] + since[p] <= 0 THEN "FAILED"
                              ELSE run[q]]
    /\ lease' = [lease EXCEPT ![p] = Lease - since[p]]
    /\ pc' = [pc EXCEPT ![p] = "scan"]
    /\ crowd' = LET now == Cardinality(Cycling) + 1 IN IF crowd < now THEN now ELSE crowd
    /\ UNCHANGED <<rows, state, at, since, draft, note, heard, faults>>

\* complete, whatever became of the run in the meantime.
Complete(p) ==
    /\ pc[p] \in {"complete", "failed"}
    /\ run' = [run EXCEPT ![p] = IF pc[p] = "failed" THEN "FAILED" ELSE "COMPLETED"]
    /\ pc' = [pc EXCEPT ![p] = "idle"] /\ at' = [at EXCEPT ![p] = 1]
    /\ since' = [since EXCEPT ![p] = 0] /\ lease' = [lease EXCEPT ![p] = 0]
    /\ UNCHANGED <<rows, state, draft, note, heard, crowd, faults>>

----------------------------------------------------------------------------
(* One symbol *)

Active == {k \in Slot : rows[k].life # "free"}

\* Mutant: only announced signals are found again.
MutFound(s, x) == {k \in Active : /\ rows[k].sym = s /\ rows[k].setup = x
                                  /\ rows[k].life \in {"QUALIFIED", "STRONG"}}

\* find_active: no terminal row, all of the identity.
Found(s, x) == {k \in Active : rows[k].sym = s /\ rows[k].setup = x}

\* Of several the one evaluated last.
Newest(s, x) == {k \in Found(s, x) : \A j \in Found(s, x) : rows[k].age <= rows[j].age}

\* Slots no row is in, nor one that an evaluation will write.
Unused == Slot \ (Active \union UNION {draft[q].row : q \in Proc})

\* evaluate_lifecycle: the state a score leads to.  "new" is a first sighting;
\* data that is not actionable may lower a signal, never raise it.
NextLife(life, score, actionable) ==
    CASE life = "new" /\ (~actionable \/ score < Threshold) -> "DISCOVERED"
      [] life = "new" /\ actionable /\ score >= StrongAt -> "STRONG"
      [] life = "new" /\ actionable /\ score \in Threshold .. (StrongAt - 1) -> "QUALIFIED"
      [] life = "DISCOVERED" /\ score < Threshold -> "DISCOVERED"
      [] life \in Live \ {"DISCOVERED"} /\ score < Threshold -> "INVALIDATED"
      [] life \in Live /\ score >= Threshold /\ ~actionable -> life
      [] life \in Live /\ score >= StrongAt /\ actionable -> "STRONG"
      [] life = "STRONG" /\ score \in Threshold .. (StrongAt - 1) /\ actionable -> "WEAKENED"
      [] life \in Live \ {"STRONG"} /\ score \in Threshold .. (StrongAt - 1) /\ actionable
            -> "QUALIFIED"

\* Whether a transition counts as a change: WEAKENED to QUALIFIED does not.
Changed(life, next) == life # next /\ ~(life = "WEAKENED" /\ next = "QUALIFIED")

Advance(p) == pc' = [pc EXCEPT ![p] = IF at[p] < Len(Watchlist) THEN "scan" ELSE "expire"]
              /\ at' = [at EXCEPT ![p] = IF @ < Len(Watchlist) THEN @ + 1 ELSE @]

\* A symbol whose evaluation fails, at whatever point of its transaction, or
\* that has no direction, changes nothing.
Skip(p) ==
    /\ pc[p] \in {"scan", "write"} /\ Watchlist # <<>>
    /\ draft' = [draft EXCEPT ![p] = NoDraft] /\ Advance(p)
    /\ UNCHANGED <<run, lease, since, rows, state, note, heard, crowd, faults>>

\* _advance_lifecycle reads the active row of the identity, or that there is
\* none, and decides on the next state and whether the policy is to know...
Find(p, x, score, actionable) ==
    LET Seen(row, life) ==
            LET next == NextLife(life, score, actionable)
                tell == Changed(life, next) /\ next \in {"QUALIFIED", "STRONG", "INVALIDATED"}
            IN  [row |-> row, setup |-> x, to |-> IF next = life THEN "same" ELSE next,
                 news |-> IF tell THEN score ELSE -1]
    IN  /\ pc[p] = "scan" /\ Watchlist # <<>>
        /\ pc' = [pc EXCEPT ![p] = "write"]
        /\ \/ /\ Found(Sym(p), x) = {}
              /\ draft' = [draft EXCEPT ![p] = Seen({}, "new")]
           \/ \E k \in Newest(Sym(p), x) :
                 draft' = [draft EXCEPT ![p] = Seen({k}, rows[k].life)]
        /\ UNCHANGED <<cycle, rows, state, note, heard, crowd, faults>>

\* ... and commits it, as of the start of the cycle.  A row is updated by its
\* key, in the columns that changed: an unchanged state is not written, a
\* changed one is, also over what another cycle made of the row.
Write(p) ==
    LET d == draft[p]
        row == IF d.to = "INVALIDATED" THEN Free
               ELSE [sym |-> Sym(p), setup |-> d.setup, life |-> d.to, age |-> since[p]]
    IN  /\ pc[p] = "write"
        /\ \/ /\ d.row = {} /\ Unused # {}
              /\ rows' = [rows EXCEPT ![CHOOSE k \in Unused : TRUE] = row]
           \/ \E k \in d.row :
                 rows' = [rows EXCEPT ![k] = IF d.to # "same" THEN row
                                             ELSE IF @.life = "free" THEN @
                                             ELSE [@ EXCEPT !.age = since[p]]]
        /\ draft' = [draft EXCEPT ![p] = NoDraft]
        /\ IF d.news # -1
           THEN /\ pc' = [pc EXCEPT ![p] = "notify"]
                /\ note' = [note EXCEPT ![p] = [NoNote EXCEPT !.score = d.news]]
                /\ UNCHANGED at
           ELSE Advance(p) /\ UNCHANGED note
        /\ UNCHANGED <<run, lease, since, state, heard, crowd, faults>>

----------------------------------------------------------------------------
(* The announcement *)

PhaseFor(score) == IF score >= StrongAt THEN "strong"
                   ELSE IF score >= Threshold THEN "qualified" ELSE "none"

Apart(a, b) == IF a < b THEN b - a ELSE a - b

\* What the policy decides: an event or none, and the state it would save.
Told(score, event) ==
    [event |-> event, score |-> score,
     next |-> [phase |-> PhaseFor(score), score |-> score, age |-> 0]]
Silent(st, score) ==
    [event |-> "none", score |-> score,
     next |-> [phase |-> PhaseFor(score), score |-> score, age |-> st.age]]

\* Mutant: the cooldown is not looked at.
MutRepeat(st, score) ==
    IF st.score = -1 \/ Apart(st.score, score) < MinChange THEN Silent(st, score)
    ELSE Told(score, "live")

\* _evaluate_repeat: a message within a phase needs movement and time.
Repeat(st, score) ==
    IF st.score = -1 \/ Apart(st.score, score) < MinChange \/ st.age < Cooldown
    THEN Silent(st, score)
    ELSE Told(score, "live")

\* Mutant: a score below the threshold is announced as a lapse whatever was told.
MutDecide(st, score) ==
    IF PhaseFor(score) = "none" THEN Told(score, "over")
    ELSE IF st.phase = "none" \/ (PhaseFor(score) = "strong" /\ st.phase # "strong")
    THEN Told(score, "live") ELSE Repeat(st, score)

\* evaluate_signal
Decide(st, score) ==
    CASE PhaseFor(score) = "none" /\ st.phase = "none" -> Silent(st, score)
      [] PhaseFor(score) = "none" /\ st.phase # "none" -> Told(score, "over")
      [] PhaseFor(score) = "strong" /\ st.phase # "strong" -> Told(score, "live")
      [] PhaseFor(score) = "qualified" /\ st.phase = "none" -> Told(score, "live")
      [] OTHER -> Repeat(st, score)

Consult(p) ==
    /\ pc[p] = "notify"
    /\ LET d == Decide(state[Sym(p)], note[p].score)
       IN  /\ note' = [note EXCEPT ![p] = d]
           /\ pc' = [pc EXCEPT ![p] = IF d.event = "none" THEN "save" ELSE "publish"]
    /\ UNCHANGED <<cycle, rows, state, draft, heard, crowd, faults>>

Deliver(p) ==
    /\ pc[p] = "publish"
    /\ heard' = [heard EXCEPT ![Sym(p)] = [news |-> note[p].event, age |-> note[p].next.age]]
    /\ pc' = [pc EXCEPT ![p] = "save"]
    /\ UNCHANGED <<cycle, rows, state, draft, note, crowd, faults>>

\* Mutant: the new state is saved although nothing was delivered.
MutDrop(p) ==
    /\ pc[p] = "publish"
    /\ pc' = [pc EXCEPT ![p] = "save"]
    /\ UNCHANGED <<cycle, rows, state, draft, note, heard, crowd, faults>>

\* Not delivered: the state is left as it was.
Drop(p) ==
    /\ pc[p] = "publish"
    /\ note' = [note EXCEPT ![p] = NoNote] /\ Advance(p)
    /\ UNCHANGED <<run, lease, since, rows, state, draft, heard, crowd, faults>>

Save(p) ==
    /\ pc[p] = "save"
    /\ state' = [state EXCEPT ![Sym(p)] = note[p].next]
    /\ note' = [note EXCEPT ![p] = NoNote] /\ Advance(p)
    /\ UNCHANGED <<run, lease, since, rows, draft, heard, crowd, faults>>

----------------------------------------------------------------------------
(* The end of a cycle, faults and time *)

\* Mutant: announced signals do not expire.
MutExpireSome(p) ==
    /\ pc[p] = "expire"
    /\ rows' = [k \in Slot |-> IF rows[k].life = "DISCOVERED" /\ rows[k].age > Expiry + since[p]
                               THEN Free ELSE rows[k]]
    /\ pc' = [pc EXCEPT ![p] = "complete"]
    /\ UNCHANGED <<cycle, state, draft, note, heard, crowd, faults>>

\* expire_stale: not evaluated for longer than the expiry when the cycle began.
Expire(p) ==
    /\ pc[p] = "expire"
    /\ rows' = [k \in Slot |-> IF rows[k].life # "free" /\ rows[k].age > Expiry + since[p]
                               THEN Free ELSE rows[k]]
    /\ pc' = [pc EXCEPT ![p] = "complete"]
    /\ UNCHANGED <<cycle, state, draft, note, heard, crowd, faults>>

\* A database error outside a symbol's own transaction ends the cycle.
CycleFails(p) ==
    /\ pc[p] \in {"notify", "save", "expire"} /\ faults < MaxFaults
    /\ pc' = [pc EXCEPT ![p] = "failed"] /\ note' = [note EXCEPT ![p] = NoNote]
    /\ faults' = faults + 1
    /\ UNCHANGED <<cycle, rows, state, draft, heard, crowd>>

\* The process is killed; its run row stays as it is.
Crash(p) ==
    /\ pc[p] # "idle" /\ faults < MaxFaults
    /\ pc' = [pc EXCEPT ![p] = "idle"] /\ note' = [note EXCEPT ![p] = NoNote]
    /\ at' = [at EXCEPT ![p] = 1] /\ since' = [since EXCEPT ![p] = 0]
    /\ draft' = [draft EXCEPT ![p] = NoDraft] /\ faults' = faults + 1
    /\ UNCHANGED <<run, lease, rows, state, heard, crowd>>

Tick ==
    /\ \A p \in Proc : pc[p] # "idle" => since[p] < IF pc[p] = "claim" THEN Pause ELSE Late
    /\ lease' = [p \in Proc |-> IF run[p] = "RUNNING" /\ lease[p] > -Pause THEN lease[p] - 1
                                ELSE lease[p]]
    /\ since' = [p \in Proc |-> IF pc[p] = "idle" THEN since[p] ELSE since[p] + 1]
    /\ rows' = [k \in Slot |-> IF rows[k].life = "free" THEN rows[k]
                               ELSE [rows[k] EXCEPT !.age = Up(@, Oldest)]]
    /\ state' = [s \in Symbol |-> [state[s] EXCEPT !.age = Up(@, Cooldown)]]
    /\ note' = [p \in Proc |-> [note[p] EXCEPT !.next.age = Up(@, Cooldown)]]
    /\ heard' = [s \in Symbol |-> [heard[s] EXCEPT !.age = Up(@, Cooldown)]]
    /\ UNCHANGED <<run, pc, at, draft, crowd, faults>>

\* What the process does by itself.
Step(p) ==
    \/ Claim(p) \/ Skip(p) \/ Write(p)
    \/ \E x \in Setup, score \in Score, actionable \in BOOLEAN : Find(p, x, score, actionable)
    \/ Consult(p) \/ Deliver(p) \/ Drop(p) \/ Save(p)
    \/ Expire(p) \/ Complete(p)

Next ==
    \/ Tick
    \/ \E p \in Proc : Look(p) \/ Step(p) \/ CycleFails(p) \/ Crash(p)

\* Time passes, the scheduler invokes the scanner again and again, and a
\* process that is not killed goes on.
Fairness ==
    /\ WF_vars(Tick)
    /\ \A p \in Proc : WF_vars(Look(p)) /\ WF_vars(Step(p))

Spec == Init /\ [][Next]_vars
FairSpec == Spec /\ Fairness

----------------------------------------------------------------------------
(* Properties *)

TypeOK ==
    /\ run \in [Proc -> {"none", "RUNNING", "COMPLETED", "FAILED"}]
    /\ lease \in [Proc -> (-Pause) .. Lease] /\ since \in [Proc -> 0 .. Late]
    /\ rows \in [Slot -> Row] /\ state \in [Symbol -> State]
    /\ \A p \in Proc : pc[p] \in {"notify", "publish", "save"} => at[p] \in DOMAIN Watchlist
    /\ pc \in [Proc -> {"idle", "claim", "scan", "write", "notify", "publish", "save", "expire",
                        "complete", "failed"}]
    /\ draft \in [Proc -> Draft] /\ crowd \in 0 .. Cardinality(Proc)
    /\ \A p \in Proc : /\ note[p].event \in {"none", "live", "over"}
                       /\ note[p].next \in State
    /\ heard \in [Symbol -> [news : {"nothing", "live", "over"}, age : 0 .. Cooldown]]

\* Two cycles are both within their lease only when their invocations came as
\* close as a lease takes from being seen free to being taken: against every
\* later invocation it protects the cycle that holds it.
LeaseProtects ==
    \A p, q \in Cycling : lease[p] > 0 /\ lease[q] > 0 => Apart(since[p], since[q]) <= Pause

\* No constraint keeps an identity from having two active rows, only what each
\* cycle finds: it never has more than there were cycles at once, so one when
\* cycles did not overlap, whoever failed or died.
DuplicatesBounded ==
    \A s \in Symbol, x \in Setup :
        Cardinality({k \in Active : rows[k].sym = s /\ rows[k].setup = x}) <= crowd

\* A reader is told that a signal is over only after having been told of one,
\* whatever was dropped, killed or run twice.
OverWasLive ==
    [][\A s \in Symbol : heard'[s].news = "over" => heard[s].news # "nothing"]_vars

\* As long as no process failed or overlapped another, what the policy
\* remembers between announcements is what the reader was last told.
PolicyKnowsReader ==
    calm => \A s \in Symbol :
        (\A p \in Proc : pc[p] = "save" => Sym(p) # s)
            => (state[s].phase # "none" <=> heard[s].news = "live")

\* In the same case a message that starts no phase is decided on no sooner than
\* a cooldown after the decision to send the last one delivered.
RepeatsApart ==
    [][\A p \in Proc :
         /\ Consult(p) /\ calm /\ note'[p].event = "live"
         /\ state[Sym(p)].phase \in {"strong", note'[p].next.phase}
         => heard[Sym(p)].age >= Cooldown]_vars

\* A cycle that died holding the lease locks nobody out: cycles keep completing.
CyclesComplete == []<>(\E p \in Proc : pc[p] = "complete")

\* A signal nobody evaluates any more expires.
UnseenExpire ==
    \A k \in Slot : rows[k].age = Oldest ~> rows[k].age # Oldest

----------------------------------------------------------------------------
(* What the repository's text says and the code does not do *)

\* notifications/service.py: when an alert is not delivered "the next evaluation
\* sees the same transition and tries again".
DropIsRetried ==
    [][\A p \in Proc, x \in Setup, score \in Score :
         /\ Find(p, x, score, TRUE) /\ calm
         /\ state[Sym(p)].phase = "none" /\ PhaseFor(score) # "none"
         => draft'[p].news # -1]_vars

\* docs/operations.md: "the database lease makes a second one return immediately".
SecondReturns == \A p, q \in Cycling : lease[p] > 0 /\ lease[q] > 0 => p = q
=============================================================================
