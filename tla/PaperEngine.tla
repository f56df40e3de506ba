---------------------------- MODULE PaperEngine ----------------------------
(***************************************************************************)
(* One simulated portfolio, driven by the scanner.                         *)
(*                                                                         *)
(* A scan of a symbol is one transaction.  It pushes the symbol's newest   *)
(* bar through the engine (exits, valuation, halts) and, when the signal   *)
(* qualifies, offers the decision of that bar to the engine (sizing,       *)
(* gates, fill).  The same bar is scanned again and again until a newer    *)
(* one is imported, and symbols fall behind one another.                   *)
(*                                                                         *)
(* Money and prices are small integers; a position's risk-based size,      *)
(* which depends on data the model leaves out, is an input.                *)
(***************************************************************************)
EXTENDS Integers, Sequences, FiniteSets, Functions

CONSTANTS
    Instr,           \* symbols of the watchlist
    Candle,          \* bars the market can print: [low, close, high]
    Units,           \* risk-based sizes; 0 when no stop can be derived
    LastBar,         \* bound: the last bar of the run
    BarsPerSession,  \* hourly bars of one trading session
    FreshFor,        \* bars after which data is too old to act on
    Capital,         \* initial_capital
    Fee, Slip,       \* order fee; half-spread and slippage per unit
    StopDist, TargetDist,               \* distance of stop and target
    MaxHold,                            \* max_holding_bars, in sessions
    MaxOpen,                            \* max_open_positions
    MaxExposure, MaxDrawdown, MaxDailyLoss  \* limits in percent

ASSUME PriceAssumption ==
    Candle \subseteq [low : Nat, close : Nat \ {0}, high : Nat]
ASSUME LimitAssumption ==
    /\ {FreshFor, Capital, Fee, Slip, StopDist, TargetDist, MaxHold,
        MaxOpen, MaxExposure, MaxDrawdown, MaxDailyLoss} \subseteq Nat
    /\ Units \subseteq Nat /\ {LastBar, BarsPerSession} \subseteq Nat \ {0}

VARIABLES
    now,      \* bars the market has printed
    bar,      \* newest stored bar of each symbol
    range,    \* lowest low and highest high of its lookback
    db        \* the portfolio's rows, as committed

vars == <<now, bar, range, db>>

Session(t) == (t - 1) \div BarsPerSession

Decision == Instr \X (0 .. LastBar)

\* idempotency_key: 'entry:<decision>' or 'exit:<position>:<timestamp>'.
EntryKey(i, t) == <<"entry", i, t>>
ExitKey(p, t) == <<"exit", p, t>>

Order == [key : {EntryKey(d[1], d[2]) : d \in Decision}
                \union {ExitKey(p, t) : p \in Nat, t \in 0 .. LastBar},
          status : {"FILLED", "REJECTED"}]

Position == [dec : Decision, inst : Instr, status : {"OPEN", "CLOSED"}, qty : Nat,
             entry : Nat, stop : Int, target : Int, mark : Int, since : 0 .. LastBar,
             gain : Int, level : Int, got : Int]

Trade == [pos : Nat, gain : Int]

Init ==
    /\ now = 1
    /\ \E c \in Candle : bar = [i \in Instr |-> [at |-> 1, candle |-> c]]
    /\ range = [i \in Instr |-> [low |-> bar[i].candle.low, high |-> bar[i].candle.high]]
    /\ db = [cash |-> Capital, realized |-> 0, peak |-> Capital, deep |-> FALSE,
             halt |-> "none", session |-> -1, base |-> 0,
             pos |-> <<>>, orders |-> {}, trades |-> {}]

----------------------------------------------------------------------------
(* Valuation *)

OpenPos(d) == {p \in DOMAIN d.pos : d.pos[p].status = "OPEN"}
OpenIn(d, i) == {p \in OpenPos(d) : d.pos[p].inst = i}

HasKey(d, k) == \E o \in d.orders : o.key = k

Exposure(d) == SumFunctionOnSet([p \in OpenPos(d) |-> d.pos[p].qty * d.pos[p].mark], OpenPos(d))
Equity(d) == d.cash + Exposure(d)

\* Whether equity is further below the peak than the limit allows.
Deep(d) == LET top == IF Equity(d) > d.peak THEN Equity(d) ELSE d.peak
           IN  100 * (top - Equity(d)) > MaxDrawdown * top

----------------------------------------------------------------------------
(* Settlement of a bar *)

\* What the scanner passes as the bar: its low and high are those of the
\* lookback, support and resistance.
SeenBar(i) == [at |-> bar[i].at, close |-> bar[i].candle.close,
               low |-> range[i].low, high |-> range[i].high]

\* The exit a bar triggers on a position, and the level it fills at.
Exit(q, b) ==
    CASE b.close <= q.stop -> [hit |-> TRUE, level |-> b.close]
      [] b.close > q.stop /\ b.close >= q.target -> [hit |-> TRUE, level |-> b.close]
      [] q.stop < b.close /\ b.close < q.target /\ b.low <= q.stop ->
            [hit |-> TRUE, level |-> q.stop]
      [] q.stop < b.close /\ b.close < q.target /\ b.low > q.stop /\ b.high >= q.target ->
            [hit |-> TRUE, level |-> q.target]
      [] OTHER ->
            [hit |-> Session(b.at) >= Session(q.since) + MaxHold, level |-> b.close]

\* What a position cost, and what it brings when sold at a level.
Outflow(q) == q.entry * q.qty + Fee
Inflow(q, level) == (level - Slip) * q.qty - Fee

SoldAt(q, level) ==
    [q EXCEPT !.status = "CLOSED", !.mark = level - Slip, !.level = level,
              !.got = Inflow(q, level), !.gain = Inflow(q, level) - Outflow(q)]

\* Mutant: the entry fee is left out of the cost a close is measured against.
MutClosed(d, p, level, t) ==
    LET q == d.pos[p]
        gain == Inflow(q, level) - q.entry * q.qty
    IN  IF HasKey(d, ExitKey(p, t)) THEN d
        ELSE [d EXCEPT
                !.cash = @ + Inflow(q, level), !.realized = @ + gain,
                !.pos[p] = SoldAt(@, level),
                !.orders = @ \union {[key |-> ExitKey(p, t), status |-> "FILLED"]},
                !.trades = IF \E r \in @ : r.pos = p THEN @
                           ELSE @ \union {[pos |-> p, gain |-> gain]}]

\* The position sold, its cash settled and its trade recorded.
Closed(d, p, level, t) ==
    LET q == d.pos[p]
        gain == Inflow(q, level) - Outflow(q)
    IN  IF HasKey(d, ExitKey(p, t)) THEN d
        ELSE [d EXCEPT
                !.cash = @ + Inflow(q, level), !.realized = @ + gain,
                !.pos[p] = SoldAt(@, level),
                !.orders = @ \union {[key |-> ExitKey(p, t), status |-> "FILLED"]},
                !.trades = IF \E r \in @ : r.pos = p THEN @
                           ELSE @ \union {[pos |-> p, gain |-> gain]}]

Marked(d, p, price) == [d EXCEPT !.pos[p] = [@ EXCEPT !.mark = price]]

\* Mutant: a new session clears every halt.
MutHalted(d, t) ==
    LET new == Session(t) # d.session
        base == IF new THEN Equity(d) ELSE d.base
        deep == Deep(d)
        kept == IF new THEN "none" ELSE d.halt
    IN  [d EXCEPT
           !.peak = IF Equity(d) > @ THEN Equity(d) ELSE @,
           !.deep = @ \/ deep, !.session = Session(t), !.base = base,
           !.halt = IF kept # "none" THEN kept
                    ELSE IF deep THEN "drawdown"
                    ELSE IF base > 0 /\ 100 * (base - Equity(d)) > MaxDailyLoss * base
                         THEN "daily" ELSE "none"]

\* Mutant: a bar that clears the daily halt does not look at the limits.
MutHaltedOnce(d, t) ==
    LET new == Session(t) # d.session
        base == IF new THEN Equity(d) ELSE d.base
        deep == Deep(d)
    IN  [d EXCEPT
           !.peak = IF Equity(d) > @ THEN Equity(d) ELSE @,
           !.deep = @ \/ deep, !.session = Session(t), !.base = base,
           !.halt = IF @ # "none" THEN IF new /\ @ = "daily" THEN "none" ELSE @
                    ELSE IF deep THEN "drawdown"
                    ELSE IF base > 0 /\ 100 * (base - Equity(d)) > MaxDailyLoss * base
                         THEN "daily" ELSE "none"]

\* The valuation recorded and the halts applied.  Another session than the
\* stored one, later or earlier, is a new session: it clears a daily halt.
Halted(d, t) ==
    LET new == Session(t) # d.session
        base == IF new THEN Equity(d) ELSE d.base
        deep == Deep(d)
        kept == IF new /\ d.halt = "daily" THEN "none" ELSE d.halt
    IN  [d EXCEPT
           !.peak = IF Equity(d) > @ THEN Equity(d) ELSE @,
           !.deep = @ \/ deep, !.session = Session(t), !.base = base,
           !.halt = IF kept # "none" THEN kept
                    ELSE IF deep THEN "drawdown"
                    ELSE IF base > 0 /\ 100 * (base - Equity(d)) > MaxDailyLoss * base
                         THEN "daily" ELSE "none"]

\* Mutant: positions are settled whatever their status.
MutProcessBar(d, i) ==
    LET b == SeenBar(i)
        mine == {p \in DOMAIN d.pos : d.pos[p].inst = i}
        settled == IF mine = {} THEN d
                   ELSE LET p == CHOOSE p \in mine : TRUE
                            x == Exit(d.pos[p], b)
                        IN  IF x.hit THEN Closed(d, p, x.level, b.at)
                            ELSE Marked(d, p, b.close)
    IN  Halted(settled, b.at)

\* process_bar: the partial unique index leaves at most one position to settle.
ProcessBar(d, i) ==
    LET b == SeenBar(i)
        settled == IF OpenIn(d, i) = {} THEN d
                   ELSE LET p == CHOOSE p \in OpenIn(d, i) : TRUE
                            x == Exit(d.pos[p], b)
                        IN  IF x.hit THEN Closed(d, p, x.level, b.at)
                            ELSE Marked(d, p, b.close)
    IN  Halted(settled, b.at)

----------------------------------------------------------------------------
(* Entry *)

Least(a, b) == IF a < b THEN a ELSE b

\* size_position: every cap only lowers the quantity, and a position must be
\* worth more than its own round trip.  0 is a refusal.
Sized(d, u, price) ==
    LET room == (MaxExposure * Equity(d)) \div 100 - Exposure(d)
        qty == Least(u, Least((d.cash - Fee) \div price, room \div price))
    IN  IF Equity(d) <= 0 \/ d.cash <= Fee \/ room <= 0 \/ qty <= 0
           \/ qty * price <= 2 * (Fee + Slip * qty)
        THEN 0 ELSE qty

\* _gate_entry, the execution-time checks on the portfolio's live state.
GateRefuses(d, i, stale) ==
    \/ d.halt # "none"
    \/ stale
    \/ Deep(d)
    \/ Cardinality(OpenPos(d)) >= MaxOpen
    \/ OpenIn(d, i) # {}
    \/ 100 * Exposure(d) >= MaxExposure * Equity(d)

Refused(d, k) == [d EXCEPT !.orders = @ \union {[key |-> k, status |-> "REJECTED"]}]

\* Mutant: the fee of an entry is not taken from cash.
MutFilled(d, i, qty) ==
    LET fill == bar[i].candle.close + Slip
    IN  [d EXCEPT
           !.cash = @ - fill * qty,
           !.orders = @ \union {[key |-> EntryKey(i, bar[i].at), status |-> "FILLED"]},
           !.pos = Append(@, [dec |-> <<i, bar[i].at>>, inst |-> i, status |-> "OPEN",
                              qty |-> qty, entry |-> fill,
                              stop |-> bar[i].candle.close - StopDist,
                              target |-> bar[i].candle.close + TargetDist,
                              mark |-> fill, since |-> now, gain |-> 0, level |-> 0,
                              got |-> 0])]

Filled(d, i, qty) ==
    LET fill == bar[i].candle.close + Slip
    IN  [d EXCEPT
           !.cash = @ - (fill * qty + Fee),
           !.orders = @ \union {[key |-> EntryKey(i, bar[i].at), status |-> "FILLED"]},
           !.pos = Append(@, [dec |-> <<i, bar[i].at>>, inst |-> i, status |-> "OPEN",
                              qty |-> qty, entry |-> fill,
                              stop |-> bar[i].candle.close - StopDist,
                              target |-> bar[i].candle.close + TargetDist,
                              mark |-> fill, since |-> now, gain |-> 0, level |-> 0,
                              got |-> 0])]

\* Mutant: an order is looked up by its key only when it is refused.
MutSubmit(d, i, qty, stale) ==
    LET k == EntryKey(i, bar[i].at) IN
    IF GateRefuses(d, i, stale) \/ (bar[i].candle.close + Slip) * qty + Fee > d.cash
    THEN IF HasKey(d, k) THEN d ELSE Refused(d, k)
    ELSE Filled(d, i, qty)

\* submit: a known key returns its order untouched.
Submit(d, i, qty, stale) ==
    LET k == EntryKey(i, bar[i].at) IN
    IF HasKey(d, k) THEN d
    ELSE IF GateRefuses(d, i, stale) \/ (bar[i].candle.close + Slip) * qty + Fee > d.cash
         THEN Refused(d, k)
    ELSE Filled(d, i, qty)

\* A refusal before the broker is inserted without looking its key up: the
\* unique index answers when the key is taken.
Collides(d, i, u) == Sized(d, u, bar[i].candle.close) = 0 /\ HasKey(d, EntryKey(i, bar[i].at))

OpenFromDecision(d, i, u, stale) ==
    LET qty == Sized(d, u, bar[i].candle.close)
    IN  IF qty = 0 THEN Refused(d, EntryKey(i, bar[i].at)) ELSE Submit(d, i, qty, stale)

----------------------------------------------------------------------------
(* Steps *)

Tick == now < LastBar /\ now' = now + 1 /\ UNCHANGED <<bar, range, db>>

\* A bar newer than the stored one is imported; the lookback grows by it.
Import(i, c) ==
    /\ bar[i].at < now
    /\ bar' = [bar EXCEPT ![i] = [at |-> now, candle |-> c]]
    /\ range' = [range EXCEPT ![i] = [low |-> Least(@.low, c.low),
                                      high |-> IF c.high > @.high THEN c.high ELSE @.high]]
    /\ UNCHANGED <<now, db>>

\* The end of a symbol's transaction: its constraints hold or nothing of it stays.
Commit(d, sound) == db' = IF sound /\ d.cash >= 0 THEN d ELSE db

Scan(i) ==
    /\ Commit(ProcessBar(db, i), TRUE)
    /\ UNCHANGED <<now, bar, range>>

\* The same, with a signal that qualifies on data fresh enough to act on.
ScanAndEnter(i, u, stale) ==
    /\ now - bar[i].at <= FreshFor
    /\ LET d == ProcessBar(db, i)
       IN  Commit(OpenFromDecision(d, i, u, stale), ~Collides(d, i, u))
    /\ UNCHANGED <<now, bar, range>>

\* close_on_signal_reversal: every open position of the symbol, at its price now.
CloseOnReversal(i) ==
    /\ OpenIn(db, i) # {}
    /\ LET p == CHOOSE p \in OpenIn(db, i) : TRUE
       IN  Commit(Closed(db, p, bar[i].candle.close, now), TRUE)
    /\ UNCHANGED <<now, bar, range>>

Next ==
    \/ Tick
    \/ \E i \in Instr :
        \/ \E c \in Candle : Import(i, c)
        \/ Scan(i)
        \/ \E u \in Units, stale \in BOOLEAN : ScanAndEnter(i, u, stale)
        \/ CloseOnReversal(i)

Spec == Init /\ [][Next]_vars

----------------------------------------------------------------------------
(* Properties *)

\* Every variable keeps its type; cash never goes below zero
\* (models/paper.py, cash_non_negative).
TypeOK ==
    /\ now \in 1 .. LastBar
    /\ \A i \in Instr : /\ bar[i].at \in 1 .. now /\ bar[i].candle \in Candle
                        /\ range[i].low <= bar[i].candle.low
                        /\ bar[i].candle.high <= range[i].high
    /\ db.cash \in Nat /\ db.realized \in Int /\ db.peak \in Int /\ db.base \in Int
    /\ db.deep \in BOOLEAN /\ db.halt \in {"none", "daily", "drawdown"}
    /\ db.session \in Int
    /\ db.pos \in Seq(Position)
    /\ \A o \in db.orders : o.status \in {"FILLED", "REJECTED"}
    /\ db.trades \subseteq Trade

\* What the open positions cost, and what the trade log adds up to.
Spent(d) == SumFunctionOnSet([p \in OpenPos(d) |-> Outflow(d.pos[p])], OpenPos(d))
Earned(d) == SumFunctionOnSet([r \in d.trades |-> r.gain], d.trades)

\* Money moves only between cash and open positions: what was put in and
\* realised is in cash or was paid for a position still open, and what was
\* realised is what the trade log adds up to.
MoneyConserved ==
    /\ db.cash + Spent(db) = Capital + db.realized
    /\ db.realized = Earned(db)

\* The trade log is the closed positions, each once, with the cash its close
\* brought over what its entry had cost.
TradesAreCloses ==
    /\ {r.pos : r \in db.trades} = DOMAIN db.pos \ OpenPos(db)
    /\ \A r, s \in db.trades : r.pos = s.pos => r = s
    /\ \A r \in db.trades : r.gain = db.pos[r.pos].got - Outflow(db.pos[r.pos])

\* However often a bar and its signal are scanned again, a decision opened at
\* most one position, a symbol holds at most one, and a key has one order.
EntriesAreSingle ==
    /\ \A p, q \in DOMAIN db.pos : db.pos[p].dec = db.pos[q].dec => p = q
    /\ \A p, q \in OpenPos(db) : db.pos[p].inst = db.pos[q].inst => p = q
    /\ \A o, n \in db.orders : o.key = n.key => o = n

\* "Same candle twice": a bar pushed through the engine again, in any state of
\* positions, sessions and halts, changes nothing it has not changed already.
SettlingTwiceIsOnce ==
    \A i \in Instr : ProcessBar(ProcessBar(db, i), i) = ProcessBar(db, i)

\* Nothing is opened by a transaction whose settled portfolio is halted: the
\* halt a bar sets binds the signal of that same bar.
HaltedOpensNothing == [][Len(db'.pos) > Len(db.pos) => db'.halt = "none"]_vars

\* A drawdown halt is never lifted, by no new session and no recovery.
DrawdownHaltSticks == [][db.halt = "drawdown" => db'.halt = "drawdown"]_vars

\* The lot a decision bought, and what became of it.
LotOf(d, x) ==
    IF \E p \in DOMAIN d.pos : d.pos[p].dec = x
    THEN LET q == d.pos[CHOOSE p \in DOMAIN d.pos : d.pos[p].dec = x]
         IN  [state |-> IF q.status = "OPEN" THEN "open" ELSE "closed",
              cost |-> Outflow(q), got |-> q.got]
    ELSE [state |-> "none", cost |-> 0, got |-> 0]

Lots(d) == [x \in Decision |-> LotOf(d, x)]

Account == INSTANCE PaperAccount WITH cash <- db.cash, lot <- Lots(db)

\* The portfolio is the account PaperAccount describes: every transaction sells
\* at most one lot and buys at most one, once per decision, for the cash it moves.
ImplementsAccount == Account!Spec

----------------------------------------------------------------------------
(* What the repository's text says and the code does not do *)

\* docs/simulation-timing.md: exits are evaluated "against the bar being
\* processed", so a scan sells at a price its bar traded at.
ExitInsideItsBar ==
    [][\A i \in Instr : Scan(i) =>
        \A p \in OpenIn(db, i) : db'.pos[p].status = "CLOSED" =>
            db'.pos[p].level \in bar[i].candle.low .. bar[i].candle.high]_vars

\* docs/paper-trading.md: "A drawdown breach sets `halted_reason` on the
\* portfolio. The halt is sticky".
DrawdownHalts == db.deep => db.halt # "none"

\* models/paper.py: the key "Makes replaying a signal or a candle a no-op".
ReplayIsNoOp ==
    \A i \in Instr, u \in Units :
        now - bar[i].at <= FreshFor => ~Collides(ProcessBar(db, i), i, u)
=============================================================================
