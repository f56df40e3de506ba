------------------------------ MODULE Backtest ------------------------------
(***************************************************************************)
(* A historical replay and the portfolios walked over it.                  *)
(*                                                                         *)
(* The replay goes symbol by symbol, and within a symbol slice by slice of *)
(* the grid of bar closes: a slice is one transaction.  The walk goes over *)
(* the run's qualified observations in time order, one profile after the   *)
(* other, and a profile's outcomes are one transaction.  What the replay   *)
(* observes is data: the model lets every instant yield no observation, an *)
(* unqualified or a qualified one.  Cash and equity always move together   *)
(* in the walk, and are one number here.  The job may die at any step.     *)
(***************************************************************************)
EXTENDS Integers, FiniteSets, Functions

CONSTANTS
    Symbols,      \* how many config.symbols there are; a symbol is its place among them
    Known,        \* those that have an instrument
    LastClose,    \* the grid is 1 .. LastClose
    GridChunk,    \* GRID_CHUNK
    Bars,         \* the opening times of each symbol's stored bars
    Window,       \* EXIT_WINDOW_BARS
    MaxHold,      \* max_holding_bars
    Profiles,     \* how many profiles are enabled
    Limit,        \* max_open_positions of each
    Initial,      \* initial_capital of each
    Share,        \* max_position_percent of each, in tenths
    Fee,          \* order_fee
    Moves         \* what a held position may gain or lose, in tenths of its size

ASSUME BacktestAssumption ==
    /\ Symbols \in Nat /\ Known \subseteq 1 .. Symbols /\ Profiles \in Nat \ {0}
    /\ LastClose \in Nat /\ GridChunk \in Nat \ {0} /\ Window \in Nat /\ MaxHold \in Nat \ {0}
    /\ Bars \in [1 .. Symbols -> SUBSET Nat] /\ Fee \in Nat /\ Moves \subseteq Int
    /\ Limit \in [1 .. Profiles -> Nat \ {0}] /\ Initial \in [1 .. Profiles -> Nat]
    /\ Share \in [1 .. Profiles -> 1 .. 10]

VARIABLES
    phase,        \* "idle", "replay", "walk", "over"
    run,          \* the BacktestRun row
    rows,         \* the run's SignalEvaluation rows: the symbol and the instant of each
    good,         \* those that are qualified
    stats,        \* ReplayStats; errors names the symbols they are about
    place,        \* the symbol and the slice to replay next
    written,      \* what the current symbol's slices have written
    profile,      \* the profile being walked
    queue,        \* the observations its walk has not reached
    equity,       \* PortfolioState.equity
    clock,        \* the time of the last point of its equity curve
    book,         \* the observations whose position is open
    trades,       \* the outcomes of this walk, not yet committed
    outcomes      \* the committed TradeOutcome rows of each profile

replay == <<rows, good, stats, place, written>>
walk == <<profile, queue, equity, clock, book, trades, outcomes>>
vars == <<phase, run, replay, walk>>

Seen == {"none", "plain", "qualified"}
Tally == [observations : Nat, symbols : Nat, qualified : Nat, errors : SUBSET (1 .. Symbols)]
Zero == [observations |-> 0, symbols |-> 0, qualified |-> 0, errors |-> {}]
Refusal == {"NO_EXECUTABLE_BAR", "ACCOUNT_RUINED", "MAX_OPEN_POSITIONS", "SIZING", "NO_EXIT_WITHIN_WINDOW"}
Nothing == [i \in {} |-> 0]

Init ==
    /\ phase = "idle" /\ run = [status |-> "none", counts |-> Zero]
    /\ rows = {} /\ good = {} /\ stats = Zero /\ place = [symbol |-> 1, slice |-> 1] /\ written = 0
    /\ profile = 1 /\ queue = {} /\ equity = 0 /\ clock = 0 /\ book = {}
    /\ trades = Nothing /\ outcomes = [p \in 1 .. Profiles |-> Nothing]

----------------------------------------------------------------------------
(* The replay *)

\* The run row is written first.
Begin ==
    /\ phase = "idle" /\ phase' = "replay"
    /\ run' = [run EXCEPT !.status = "RUNNING"]
    /\ UNCHANGED <<replay, walk>>

Slices == (LastClose + GridChunk - 1) \div GridChunk
First(k) == (k - 1) * GridChunk + 1
Last(k) == IF k * GridChunk < LastClose THEN k * GridChunk ELSE LastClose
Slice == First(place.slice) .. Last(place.slice)

Replaying == phase = "replay" /\ LastClose > 0 /\ place.symbol <= Symbols

\* After a slice: the next one, or the next symbol, whose predecessor is counted.
Advance(n, tally) ==
    IF place.slice < Slices
    THEN /\ place' = [place EXCEPT !.slice = @ + 1]
         /\ written' = written + n /\ stats' = tally
    ELSE /\ place' = [symbol |-> place.symbol + 1, slice |-> 1] /\ written' = 0
         /\ stats' = [tally EXCEPT !.observations = @ + written + n, !.symbols = @ + 1]

\* The slice commits.
ReplaySlice(seen) ==
    LET at(kinds) == {place.symbol} \X {t \in Slice : seen[t] \in kinds}
    IN /\ Replaying /\ place.symbol \in Known
       /\ rows' = rows \cup at({"plain", "qualified"}) /\ good' = good \cup at({"qualified"})
       /\ Advance(Cardinality(at({"plain", "qualified"})), [stats EXCEPT !.qualified = @ + Cardinality(at({"qualified"}))])
       /\ UNCHANGED <<phase, run, walk>>

\* No instrument: an error for every slice, and the symbol counts as processed.
UnknownSlice ==
    /\ Replaying /\ place.symbol \notin Known
    /\ Advance(0, [stats EXCEPT !.errors = @ \cup {place.symbol}])
    /\ UNCHANGED <<phase, run, rows, good, walk>>

\* Mutant: the rows of a symbol given up are counted for the next one.
MutSliceFails(n) ==
    /\ Replaying
    /\ n <= Cardinality(Slice) /\ (place.symbol \notin Known => n = 0)
    /\ stats' = [stats EXCEPT !.qualified = @ + n, !.errors = @ \cup {place.symbol}]
    /\ place' = [symbol |-> place.symbol + 1, slice |-> 1] /\ UNCHANGED written
    /\ UNCHANGED <<phase, run, rows, good, walk>>

\* The slice raises after n qualified observations: it is rolled back, the slices
\* before it stay, the symbol is given up; the tally of the qualified is kept.
SliceFails(n) ==
    /\ Replaying
    /\ n <= Cardinality(Slice) /\ (place.symbol \notin Known => n = 0)
    /\ stats' = [stats EXCEPT !.qualified = @ + n, !.errors = @ \cup {place.symbol}]
    /\ place' = [symbol |-> place.symbol + 1, slice |-> 1] /\ written' = 0
    /\ UNCHANGED <<phase, run, rows, good, walk>>

\* Building the grid raises: the run is marked failed and the job ends.
GridFails ==
    /\ phase = "replay" /\ place = [symbol |-> 1, slice |-> 1] /\ stats = Zero
    /\ phase' = "over" /\ run' = [run EXCEPT !.status = "FAILED"]
    /\ UNCHANGED <<replay, walk>>

StartWalk(p) ==
    /\ profile' = p /\ queue' = good /\ equity' = Initial[p]
    /\ clock' = 0 /\ book' = {} /\ trades' = Nothing

\* Every symbol was tried: the run row is completed and the first walk starts.
Complete ==
    /\ phase = "replay" /\ (LastClose = 0 \/ place.symbol > Symbols)
    /\ run' = [status |-> "COMPLETED", counts |-> stats]
    /\ phase' = "walk" /\ StartWalk(1)
    /\ UNCHANGED <<replay, outcomes>>

----------------------------------------------------------------------------
(* The walk *)

\* Mutant: in the order they were written.
MutBefore(i, j) == i[1] < j[1] \/ (i[1] = j[1] /\ i[2] <= j[2])
\* The order the observations are offered in: by instant, then by id, and the ids
\* follow the replay, symbol by symbol.
Before(i, j) == i[2] < j[2] \/ (i[2] = j[2] /\ i[1] <= j[1])
Front == {i \in queue : \A j \in queue : Before(i, j)}

\* Mutant: what is still open when the window ends is forgotten.
MutDue == {i \in book : \E j \in Front : trades[i].exit <= j[2]}

\* The open positions whose exit is due: all of them once no observation is left.
Due == {i \in book : \A j \in Front : trades[i].exit <= j[2]}

Earlier(i, j) ==
    \/ trades[i].exit < trades[j].exit
    \/ trades[i].exit = trades[j].exit /\ trades[i].net <= trades[j].net

\* _settle_due, one position at a time, in order of exit.
Settle(i) ==
    /\ phase = "walk" /\ i \in Due /\ \A j \in Due : Earlier(i, j)
    /\ equity' = equity + trades[i].net /\ clock' = trades[i].exit /\ book' = book \ {i}
    /\ UNCHANGED <<phase, run, replay, profile, queue, trades, outcomes>>

\* The bars of the execution window: the first is the entry, an exit is a later one.
Forward(i) == {b \in Bars[i[1]] : i[2] <= b /\ b < i[2] + Window}
Later(i) == {b \in Forward(i) : \E c \in Forward(i) : c < b}
Exits(i) == {b \in Later(i) : Cardinality({c \in Later(i) : c <= b}) <= MaxHold}

\* What the position cap and the cash allow, before rounding and the exit's cost.
Affordable ==
    LET cap == (equity * Share[profile]) \div 10
    IN IF cap < equity - Fee THEN cap ELSE equity - Fee
\* Mutant: one position too many.
MutFull == Cardinality(book) > Limit[profile]
Full == Cardinality(book) >= Limit[profile]

Reason(i) ==
    IF Forward(i) = {} THEN "NO_EXECUTABLE_BAR"
    ELSE IF equity <= 0 THEN "ACCOUNT_RUINED"
    ELSE IF Full THEN "MAX_OPEN_POSITIONS"
    ELSE IF Affordable <= 2 * Fee THEN "SIZING"
    ELSE IF Exits(i) = {} THEN "NO_EXIT_WITHIN_WINDOW"
    ELSE "none"

Offered(i) == phase = "walk" /\ i \in Front /\ Due = {}

Decide(i, trade) ==
    /\ queue' = queue \ {i}
    /\ trades' = [j \in DOMAIN trades \cup {i} |-> IF j = i THEN trade ELSE trades[j]]

Execute(i, entry, exit, size, move) ==
    /\ Offered(i) /\ Reason(i) = "none"
    /\ entry \in Forward(i) \ Later(i) /\ exit \in Exits(i) /\ size \in 2 * Fee + 1 .. Affordable
    /\ Decide(i, [executed |-> TRUE, reason |-> "none", entry |-> entry, exit |-> exit,
                  size |-> size, net |-> (size * move) \div 10 - 2 * Fee])
    /\ book' = book \cup {i}
    /\ UNCHANGED <<phase, run, replay, profile, equity, clock, outcomes>>

\* Mutant: an observation without an executable bar leaves no outcome.
MutRefuse(i, reason) ==
    /\ Offered(i) /\ reason # "none"
    /\ \/ reason = Reason(i)
       \/ reason = "SIZING" /\ Reason(i) \in {"none", "NO_EXIT_WITHIN_WINDOW"}
    /\ IF reason = "NO_EXECUTABLE_BAR"
       THEN queue' = queue \ {i} /\ UNCHANGED trades
       ELSE Decide(i, [executed |-> FALSE, reason |-> reason, entry |-> 0, exit |-> 0, size |-> 0, net |-> 0])
    /\ UNCHANGED <<phase, run, replay, profile, equity, clock, book, outcomes>>

\* A refusal is an outcome too; a position may also be refused for its missing stop
\* or the size the risk budget leaves.
Refuse(i, reason) ==
    /\ Offered(i) /\ reason # "none"
    /\ \/ reason = Reason(i)
       \/ reason = "SIZING" /\ Reason(i) \in {"none", "NO_EXIT_WITHIN_WINDOW"}
    /\ Decide(i, [executed |-> FALSE, reason |-> reason, entry |-> 0, exit |-> 0, size |-> 0, net |-> 0])
    /\ UNCHANGED <<phase, run, replay, profile, equity, clock, book, outcomes>>

\* The profile's outcomes are committed, and the next profile starts afresh.
Commit ==
    /\ phase = "walk" /\ queue = {} /\ Due = {}
    /\ outcomes' = [outcomes EXCEPT ![profile] = trades]
    /\ IF profile < Profiles
       THEN StartWalk(profile + 1) /\ UNCHANGED phase
       ELSE phase' = "over" /\ UNCHANGED <<profile, queue, equity, clock, book, trades>>
    /\ UNCHANGED <<run, replay>>

\* The process dies, or a session of the walk raises: what was committed stays.
Stop ==
    /\ phase \in {"replay", "walk"} /\ phase' = "over"
    /\ UNCHANGED <<run, replay, walk>>

Replay ==
    \/ \E seen \in [Slice -> Seen] : ReplaySlice(seen)
    \/ UnknownSlice
    \/ \E n \in 0 .. GridChunk : SliceFails(n)
    \/ GridFails
    \/ Complete

Walk ==
    \/ \E i \in book : Settle(i)
    \/ \E i \in queue :
          \/ \E entry \in Forward(i), exit \in Exits(i), size \in 1 .. equity, move \in Moves :
                Execute(i, entry, exit, size, move)
          \/ \E reason \in Refusal : Refuse(i, reason)
    \/ Commit

Next == Begin \/ Replay \/ Walk \/ Stop

Spec == Init /\ [][Next]_vars

----------------------------------------------------------------------------
(* Properties *)

Trade == [executed : BOOLEAN, reason : Refusal \cup {"none"}, entry : Nat, exit : Nat, size : Nat, net : Int]
Walked(ts) == DOMAIN ts \subseteq good /\ ts \in [DOMAIN ts -> Trade]
Taken(ts) == {i \in DOMAIN ts : ts[i].executed}

TypeOK ==
    /\ phase \in {"idle", "replay", "walk", "over"}
    /\ run.status \in {"none", "RUNNING", "COMPLETED", "FAILED"} /\ run.counts \in Tally /\ stats \in Tally
    /\ rows \subseteq (1 .. Symbols) \X (1 .. LastClose) /\ good \subseteq rows
    /\ place \in [symbol : 1 .. Symbols + 1, slice : Nat \ {0}] /\ written \in Nat
    /\ profile \in 1 .. Profiles /\ queue \subseteq good /\ equity \in Int /\ clock \in Nat
    /\ Walked(trades) /\ book \subseteq Taken(trades)
    /\ DOMAIN outcomes = 1 .. Profiles /\ \A p \in 1 .. Profiles : Walked(outcomes[p])

\* A completed run reports the rows it stored, except those of the symbols it gave
\* up, whose first slices stay in the table and are traded on: every other symbol is
\* counted unless there was no bar to replay, and a run without errors missed nothing
\* (HistoricalReplay._replay, whose slices commit one by one while the counts are
\* kept in memory).
CountsAgree ==
    run.status = "COMPLETED" =>
        /\ run.counts.observations = Cardinality({r \in rows : r[1] \notin run.counts.errors})
        /\ LastClose > 0 => run.counts.symbols >= Symbols - Cardinality(run.counts.errors)
        /\ run.counts.qualified >= Cardinality(good)
        /\ run.counts.errors = {} => run.counts.qualified = Cardinality(good)

\* A profile has an outcome for every qualified observation of the run, executed or
\* refused, or none at all: its walk is one transaction, whatever ends the job, and
\* the portfolios are offered the same signals (_simulate_one).
AllOrNothing ==
    \A p \in 1 .. Profiles : outcomes[p] # Nothing => DOMAIN outcomes[p] = good /\ run.status = "COMPLETED"

\* At no bar does a portfolio hold more positions than its limit, counted from the
\* entries and exits its outcomes report: signals of one instant, positions decided
\* but not yet entered and exits between two signals included.  (_settle_due before
\* every decision; "without this ... the concurrent-position limit never binds".)
Held(ts, x) == {i \in Taken(ts) : ts[i].entry <= x /\ x < ts[i].exit}
HeldWithinLimit ==
    \A x \in UNION {Bars[s] : s \in 1 .. Symbols} :
        /\ Cardinality(Held(trades, x)) <= Limit[profile]
        /\ \A p \in 1 .. Profiles : Cardinality(Held(outcomes[p], x)) <= Limit[p]

\* The equity curve of a portfolio runs forward in time, although the observations
\* were written symbol by symbol and exits come in another order than entries
\* (_qualified_observations: "replaying them out of order would produce an equity
\* curve that could not have happened").
CurveInOrder == [][phase = "walk" /\ profile' = profile => clock <= clock']_vars

\* What a portfolio ends with is its capital and the net result of every trade it
\* reports: none is omitted when the window ends and none is realised twice.
Net(ts, S) == SumFunctionOnSet([i \in DOMAIN ts |-> ts[i].net], S)
EquityAccounts ==
    [][outcomes' # outcomes => equity = Initial[profile] + Net(outcomes'[profile], Taken(outcomes'[profile]))]_vars

\* tests/unit/test_backtest_execution.py:137: an account "never commits more capital
\* than it has".
CommitsWhatItHas ==
    phase = "walk" => SumFunctionOnSet([i \in DOMAIN trades |-> trades[i].size], book) <= equity
=============================================================================
