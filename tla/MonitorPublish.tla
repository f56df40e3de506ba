--------------------------- MODULE MonitorPublish ---------------------------
(***************************************************************************)
(* Monitoring passes and the publisher that delivers what they found.      *)
(*                                                                         *)
(* A pass is a process started from the command line.  It reads the        *)
(* monitor's baseline, marks what it reports as emitted, writes the        *)
(* baseline back one scope file at a time, and only then opens the         *)
(* delivery ledger, sends to Discord and writes the ledger back once.      *)
(* A process can die between any two of these, and nothing but the Env     *)
(* constant keeps two of them apart: there is no lock.                     *)
(*                                                                         *)
(* A day is one tick.  A session is what the bars reach up to: it may stay *)
(* the same for days (a weekend), and what can be observed in the market   *)
(* changes only with it.                                                   *)
(***************************************************************************)
EXTENDS Integers, FiniteSets

CONSTANTS
    Proc,               \* processes that can be started
    Level,              \* conditions reported while they hold (sector, volume)
    Regime,             \* benchmark regimes
    NoRegime,           \* no regime confirmed yet
    RegimeCooldown,     \* days a reported regime stays quiet
    LevelCooldown,      \* days a reported condition stays quiet
    HoldPasses,         \* REGIME_MIN_SESSIONS_IN_STATE
    BurstThreshold,     \* more alerts than this make one digest
    RecoveryThreshold,  \* RECOVERY_THRESHOLD
    Retain,             \* ledger rows kept by a flush
    LastDay,            \* bound: the last day modelled
    Mode,               \* the commands run, of Modes
    Env                 \* what may go wrong, of EnvKinds

Modes == { "events",     \* publish events
           "dry",        \* publish events --dry-run
           "portfolio",  \* publish portfolio --always
           "report",     \* monitor run
           "smoke" }     \* publish smoke-test

EnvKinds == { "crash",    \* a process dies between two steps
              "overlap",  \* a process starts while another one runs
              "fail",     \* a message is not delivered
              "lost",     \* a message is delivered and its answer is lost
              "unset" }   \* no webhook is configured for the channel

ASSUME RegimeAssumption == NoRegime \notin Regime
ASSUME ThresholdAssumption ==
    /\ {RegimeCooldown, LevelCooldown, BurstThreshold, Retain, LastDay} \subseteq Nat
    /\ HoldPasses \in Nat \ {0} /\ RecoveryThreshold \in Nat \ {0}
ASSUME ChoiceAssumption == Mode \subseteq Modes /\ Env \subseteq EnvKinds

VARIABLES
    day, session,   \* the wall clock and the last session the bars reach
    regime, hot,    \* what that session shows
    since,          \* the session from which on it showed this regime
    emitted,        \* scope file "emitted": the day each key was reported
    market,         \* scope file "market": the regime row of the benchmark
    ledger,         \* deliveries.json
    proc,           \* the processes' local variables
    posted,         \* history: everything a channel ever received
    lastPost,       \* history: day of the pass that last posted each key
    noticed         \* history: failures a delivered recovery notice covered

world   == <<day, session, regime, hot, since>>
files   == <<emitted, market, ledger>>
history == <<posted, lastPost, noticed>>
vars    == <<world, files, proc, history>>

-----------------------------------------------------------------------------
(* Names of the code.                                                      *)

Days  == 0..LastDay
Never == -1

\* Deduplication keys of events, and the keys of messages that are not events.
Key    == ({"regime"} \X Regime) \cup ({"level"} \X Level)
OneOff == {<<"recovery", "SYSTEM">>, <<"portfolio", "PAPER">>, <<"smoke", "MARKET">>}

\* A delivery identity: the key and the session (for one-offs, also the day) it is about.
Id == (Key \cup OneOff) \X Days

MarketIds == (Key \cup {<<"smoke", "MARKET">>}) \X Days

Status == {"none", "DELIVERED", "DELIVERY_FAILED", "NOT_CONFIGURED", "BASELINE_NOT_SENT"}
Phases == {"idle", "emitted", "market", "publish", "send", "reconcile", "notice"}

Empty == [i \in Id |-> "none"]

IdleProc == [phase |-> "idle", mode |-> "none", at |-> 0, asOf |-> 0, emitted |-> [k \in Key |-> Never],
             market |-> [confirmed |-> NoRegime, pending |-> NoRegime, passes |-> 0],
             rows |-> Empty, kept |-> {}, events |-> {}, burst |-> FALSE]

Cooldown(k) == IF k[1] = "regime" THEN RegimeCooldown ELSE LevelCooldown

Lesser(a, b) == IF a <= b THEN a ELSE b

Init == /\ day = 0 /\ session = 0 /\ since = 0 /\ regime \in Regime /\ hot \in SUBSET Level
        /\ emitted = IdleProc.emitted /\ market = IdleProc.market /\ ledger = Empty
        /\ proc = [p \in Proc |-> IdleProc]
        /\ posted = {} /\ lastPost = IdleProc.emitted /\ noticed = {}

Becomes(p, local) == proc' = [proc EXCEPT ![p] = local]

-----------------------------------------------------------------------------
(* The monitoring pass: MonitoringEngine.run over the stored baseline.     *)

\* Passes in a row that saw the present regime, the present one included.
InState == IF regime = market.pending THEN Lesser(market.passes + 1, HoldPasses) ELSE 1

\* detect_market_regime against the confirmed regime of the baseline.
RegimeTurned == /\ market.confirmed # NoRegime
                /\ regime \notin {market.confirmed, "INSUFFICIENT_HISTORY"}
                /\ InState >= HoldPasses

\* The row written back, whether or not a cooldown silences the event.
MarketRow == [confirmed |-> IF RegimeTurned \/ market.confirmed = NoRegime
                            THEN regime ELSE market.confirmed,
              pending   |-> regime,
              passes    |-> InState]

Found == (IF RegimeTurned THEN {<<"regime", regime>>} ELSE {}) \cup ({"level"} \X hot)

\* Mutant: a cooldown that has already ended on its last day.
MutInCooldown(k) == emitted[k] # Never /\ day - emitted[k] < Cooldown(k) - 1

InCooldown(k) == emitted[k] # Never /\ day - emitted[k] < Cooldown(k)

\* _filter: what is kept is marked as emitted, before anything is delivered.
Kept == { k \in Found : ~InCooldown(k) }

\* Nothing in the code keeps two processes apart; "overlap" says whether they are.
MayStart == "overlap" \in Env \/ \A q \in Proc : proc[q].phase = "idle"

Observe(p, mode) ==
    /\ proc[p].phase = "idle"
    /\ mode \in Mode \ {"smoke"}
    /\ MayStart
    /\ Becomes(p, [IdleProc EXCEPT
                     !.mode = mode, !.at = day, !.asOf = session, !.market = MarketRow,
                     !.phase = IF Kept = {} THEN "market" ELSE "emitted",
                     !.emitted = [k \in Key |-> IF k \in Kept THEN day ELSE emitted[k]],
                     !.kept = Kept \X {session}])
    /\ UNCHANGED <<world, files, history>>

\* JsonStateStore.flush: one file per touched scope, in alphabetical order.
FlushEmitted(p) ==
    /\ proc[p].phase = "emitted"
    /\ emitted' = proc[p].emitted
    /\ Becomes(p, [proc[p] EXCEPT !.phase = "market"])
    /\ UNCHANGED <<world, market, ledger, history>>

FlushMarket(p) ==
    /\ proc[p].phase = "market"
    /\ market' = proc[p].market
    /\ Becomes(p, IF proc[p].mode = "report" THEN IdleProc
                  ELSE [proc[p] EXCEPT !.phase = "publish"])
    /\ UNCHANGED <<world, emitted, ledger, history>>

-----------------------------------------------------------------------------
(* The publisher, over a ledger held in memory from its first use on.      *)

\* Mutant: a failed alert finished with, like a delivered one.
MutSettled(rows, i) == rows[i] = "BASELINE_NOT_SENT"

\* should_skip: delivered or baselined is finished with, failed is not.
Settled(rows, i) == rows[i] \in {"DELIVERED", "BASELINE_NOT_SENT"}

Failures(rows) == { i \in Id : rows[i] = "DELIVERY_FAILED" }

\* DeliveryLedger.flush: the file becomes what is in memory.  Beyond Retain rows
\* everything not delivered stays and only the newest deliveries do (which of
\* them are the newest is left open).
Saved(rows) ==
    LET held == { i \in Id : rows[i] # "none" }
        done == { i \in held : rows[i] = "DELIVERED" }
        room == IF Retain > Cardinality(held \ done) THEN Retain - Cardinality(held \ done) ELSE 0
    IN  IF Cardinality(held) <= Retain THEN {rows}
        ELSE { [i \in Id |-> IF i \in done \ keep THEN "none" ELSE rows[i]] :
                 keep \in { k \in SUBSET done : Cardinality(k) = Lesser(room, Cardinality(done)) } }

\* What the transport reports of one message, and whether it got through.
Results == {"ok"} \cup ({"fail", "lost", "unset"} \cap Env)
Arrives(result) == result \in {"ok", "lost"}

\* Mutant: a digest that was not delivered left unrecorded.
MutStatusOf(result, burst) == CASE result = "ok"              -> "DELIVERED"
                                [] result # "ok" /\ burst     -> "none"
                                [] result = "unset" /\ ~burst -> "NOT_CONFIGURED"
                                [] OTHER                      -> "DELIVERY_FAILED"

StatusOf(result, burst) == CASE result = "ok"                  -> "DELIVERED"
                             [] result = "unset" /\ ~burst     -> "NOT_CONFIGURED"
                             [] OTHER                          -> "DELIVERY_FAILED"

\* A message about these identities leaves for Discord.
Post(ids, result, at) ==
    IF Arrives(result)
    THEN /\ posted' = posted \cup ids
         /\ lastPost' = [k \in Key |-> IF \E i \in ids : i[1] = k THEN at ELSE lastPost[k]]
    ELSE UNCHANGED <<posted, lastPost>>

\* publish_events up to its first message: a quiet pass does not look at the
\* ledger, a channel seen for the first time is baselined, and of the rest only
\* what is not settled is queued.
Publish(p) ==
    LET me == proc[p]
    IN  /\ me.phase = "publish" /\ me.mode \in {"events", "dry"}
        /\ \/ /\ me.kept = {}
              /\ Becomes(p, [me EXCEPT !.phase = "reconcile"])
              /\ UNCHANGED ledger
           \/ /\ me.kept # {} /\ \A i \in MarketIds : ledger[i] = "none"
              /\ LET rows == [i \in Id |-> IF i \in me.kept THEN "BASELINE_NOT_SENT" ELSE ledger[i]]
                 IN  /\ ledger' \in Saved(rows)
                     /\ Becomes(p, [me EXCEPT !.phase = "reconcile", !.rows = rows])
           \/ /\ me.kept # {} /\ \E i \in MarketIds : ledger[i] # "none"
              /\ LET todo == IF me.mode = "dry" THEN {}
                             ELSE { i \in me.kept : ~Settled(ledger, i) }
                 IN  Becomes(p, [me EXCEPT !.phase = IF todo = {} THEN "reconcile" ELSE "send",
                                           !.rows = ledger, !.events = todo,
                                           !.burst = Cardinality(todo) > BurstThreshold])
              /\ UNCHANGED ledger
        /\ UNCHANGED <<world, emitted, market, history>>

\* One alert, or one digest of all of them; each is recorded in memory.
Send(p) ==
    LET me == proc[p]
    IN  /\ me.phase = "send" /\ me.events # {}
        /\ \E ids \in IF me.burst THEN {me.events} ELSE {{i} : i \in me.events}, result \in Results :
             /\ Post(ids, result, me.at)
             /\ Becomes(p, [me EXCEPT !.events = @ \ ids,
                                      !.rows = [i \in Id |-> IF i \in ids
                                                             THEN StatusOf(result, me.burst)
                                                             ELSE me.rows[i]]])
        /\ UNCHANGED <<world, files, noticed>>

\* The flush at the end of publish_events and of publish_message.
Save(p) ==
    /\ proc[p].phase = "send" /\ proc[p].events = {}
    /\ ledger' \in Saved(proc[p].rows)
    /\ Becomes(p, IF proc[p].mode = "events" THEN [proc[p] EXCEPT !.phase = "reconcile"] ELSE IdleProc)
    /\ UNCHANGED <<world, emitted, market, history>>

\* publish_message: one composed message under an identity of its own.
SendOneOff(p, i) ==
    LET me == proc[p]
    IN  /\ \/ me.phase = "publish" /\ me.mode = "portfolio" /\ i = <<<<"portfolio", "PAPER">>, me.asOf>>
           \/ me.phase = "idle" /\ MayStart /\ "smoke" \in Mode /\ i = <<<<"smoke", "MARKET">>, day>>
        /\ IF i[1][1] = "portfolio" /\ Settled(ledger, i)
           THEN Becomes(p, IdleProc) /\ UNCHANGED history
           ELSE \E result \in Results :
                  /\ Post({i}, result, day)
                  /\ Becomes(p, [IdleProc EXCEPT !.phase = "send", !.mode = "portfolio", !.at = day,
                                    !.rows = [ledger EXCEPT ![i] = StatusOf(result, FALSE)]])
                  /\ UNCHANGED noticed
        /\ UNCHANGED <<world, files>>

\* Mutant: the backlog dropped whether or not its notice was delivered.
MutForgotten(result, failures) == failures

\* forget: the backlog a delivered notice summarised.
Forgotten(result, failures) == IF result = "ok" THEN failures ELSE {}

\* reconcile: a small backlog is left alone, a large one becomes one notice.
Reconcile(p) ==
    LET me       == proc[p]   \* a ledger nothing was read from yet is read now
        rows     == IF me.rows = Empty THEN ledger ELSE me.rows
        failures == Failures(rows)
        notice   == <<<<"recovery", "SYSTEM">>, day>>
    IN  /\ me.phase = "reconcile"
        /\ \/ /\ me.mode = "dry" \/ Cardinality(failures) < RecoveryThreshold
              /\ Becomes(p, IdleProc)
              /\ UNCHANGED history
           \/ /\ me.mode # "dry" /\ Cardinality(failures) >= RecoveryThreshold
              /\ \E result \in Results :
                   /\ Post({notice}, result, day)
                   /\ noticed' = IF Arrives(result) THEN noticed \cup failures ELSE noticed
                   /\ Becomes(p, [me EXCEPT !.phase = "notice",
                                            !.rows = [i \in Id |->
                                                        IF i \in Forgotten(result, failures) THEN "none"
                                                        ELSE IF i = notice THEN StatusOf(result, FALSE)
                                                        ELSE rows[i]]])
        /\ UNCHANGED <<world, files>>

\* The flush at the end of reconcile.
SaveNotice(p) ==
    /\ proc[p].phase = "notice"
    /\ ledger' \in Saved(proc[p].rows)
    /\ Becomes(p, IdleProc)
    /\ UNCHANGED <<world, emitted, market, history>>

-----------------------------------------------------------------------------
(* The clock, the market, and processes that die.                          *)

NextDay ==
    /\ day < LastDay
    /\ day' = day + 1
    /\ \/ UNCHANGED <<session, regime, hot, since>>
       \/ /\ session' = day' /\ regime' \in Regime /\ hot' \in SUBSET Level
          /\ since' = IF regime' = regime THEN since ELSE session'
    /\ UNCHANGED <<files, proc, history>>

Crash(p) ==
    /\ "crash" \in Env /\ proc[p].phase # "idle"
    /\ Becomes(p, IdleProc)
    /\ UNCHANGED <<world, files, history>>

Step(p) == \/ \E mode \in Mode : Observe(p, mode)
           \/ FlushEmitted(p) \/ FlushMarket(p) \/ Publish(p) \/ Send(p) \/ Save(p)
           \/ \E i \in OneOff \X Days : SendOneOff(p, i)
           \/ Reconcile(p) \/ SaveNotice(p) \/ Crash(p)

Next == NextDay \/ \E p \in Proc : Step(p)

Spec == Init /\ [][Next]_vars

-----------------------------------------------------------------------------
(* Properties.                                                             *)

Row == [Id -> Status]
MarketRows == [confirmed : Regime \cup {NoRegime}, pending : Regime \cup {NoRegime},
               passes : 0..HoldPasses]

\* The local variables of a process.
Local == [phase : Phases, mode : Modes \cup {"none"}, at : Days, asOf : Days,
          emitted : [Key -> Days \cup {Never}], market : MarketRows, rows : Row,
          kept : SUBSET (Key \X Days), events : SUBSET (Key \X Days), burst : BOOLEAN]

\* Every variable has its type.
TypeOK == /\ day \in Days /\ session \in 0..day /\ since \in 0..session /\ regime \in Regime /\ hot \subseteq Level
          /\ emitted \in [Key -> Days \cup {Never}] /\ market \in MarketRows /\ ledger \in Row
          /\ proc \in [Proc -> Local]
          /\ posted \subseteq Id /\ noticed \subseteq Id
          /\ lastPost \in [Key -> Days \cup {Never}]

\* The findings whose alert or digest this step hands to the transport.
Sent(p) == IF proc[p].phase = "send" /\ proc'[p].phase = "send"
           THEN proc[p].events \ proc'[p].events ELSE {}

\* Two passes that post the same finding are a cooldown apart, although a pass
\* may die anywhere between marking it emitted and delivering it, and a
\* failed delivery may be tried again (_filter marks before anything is sent).
CooldownKept ==
    [][ \A p \in Proc : \A i \in Sent(p) :
          lastPost[i[1]] # Never => proc[p].at - lastPost[i[1]] >= Cooldown(i[1]) ]_vars

\* What the ledger file records as delivered or baselined is never sent again, not
\* even when the finding outlives its cooldown within one session (should_skip).
SettledNeverSent ==
    [][ \A p \in Proc : \A i \in Sent(p) : ledger[i] \notin {"DELIVERED", "BASELINE_NOT_SENT"} ]_vars

\* A failed delivery leaves the ledger file only once it was delivered after all
\* or a recovery notice that counted it was: not by pruning, not by a failed notice.
FailuresKept ==
    [][ \A i \in Id : ledger[i] = "DELIVERY_FAILED" /\ ledger'[i] \notin {"DELIVERY_FAILED", "NOT_CONFIGURED"}
                     => i \in posted \cup noticed ]_vars

\* A pass that lived to its end accounts for every finding it took off the market
\* by marking it emitted: its alert reached the channel or the ledger file says why
\* not, whatever the transport did (publish_events, _record, _publish_burst, flush).
KeptAccounted ==
    [][ \A p \in Proc :
          /\ proc[p].phase \in {"publish", "send"} /\ proc[p].mode = "events"
          /\ proc'[p].phase = "reconcile"
          => \A i \in proc[p].kept : ledger'[i] # "none" \/ i \in posted ]_vars

-----------------------------------------------------------------------------
(* What the repository's text says and the code does not do.               *)

\* "A publisher restarted mid-run, or run twice by a scheduler that fired late,
\* must not post the same alert again" (ledger.py).
PostedOnce == [][ \A p \in Proc : Sent(p) \cap posted = {} ]_vars

\* "the baseline tracks the last *announced* regime separately from the one
\* currently forming" (_market): a pass that moves it reports the regime.
ConfirmedIsAnnounced ==
    [][ \A p \in Proc :
          /\ market.confirmed # NoRegime /\ market'.confirmed # market.confirmed
          /\ proc'[p] # proc[p]
          => \E i \in proc[p].kept : i[1] = <<"regime", market'.confirmed>> ]_vars

\* "sessions_in_state is how many consecutive sessions the new regime has been
\* true" (detect_market_regime): none is reported before HoldPasses sessions.
HeldForSessions ==
    \A p \in Proc : \A i \in proc[p].kept :
        i[1] = <<"regime", regime>> /\ i[2] = session => session - since + 1 >= HoldPasses
=============================================================================
