----------------------- MODULE MonitorPublish_proofs -----------------------
(***************************************************************************)
(* Proofs about MonitorPublish, for any number of processes, conditions    *)
(* and days, any cooldowns and thresholds, and any set of faults.  What a  *)
(* process that outlives another one's write would break is proved for     *)
(* passes that do not overlap, and says so.                                *)
(***************************************************************************)
EXTENDS MonitorPublish, TLAPS

-----------------------------------------------------------------------------
(* The operators                                                           *)

LEMMA Constants ==
    /\ RegimeCooldown \in Nat /\ LevelCooldown \in Nat /\ BurstThreshold \in Nat
    /\ Retain \in Nat /\ LastDay \in Nat
    /\ HoldPasses \in Nat /\ HoldPasses > 0
    /\ NoRegime \notin Regime
BY ThresholdAssumption, RegimeAssumption

LEMMA EmptyRow == Empty \in Row /\ \A i \in Id : Empty[i] = "none"
BY DEF Empty, Row, Status

LEMMA IdleLocal ==
    /\ IdleProc \in Local
    /\ IdleProc.phase = "idle" /\ IdleProc.mode = "none" /\ IdleProc.rows = Empty
    /\ IdleProc.kept = {} /\ IdleProc.events = {}
    /\ IdleProc.emitted = [k \in Key |-> Never]
<1>1. 0 \in Days /\ Never \in Days \cup {Never} BY Constants DEF Days
<1>2. [confirmed |-> NoRegime, pending |-> NoRegime, passes |-> 0] \in MarketRows
  BY Constants DEF MarketRows
<1> QED BY <1>1, <1>2, EmptyRow DEF IdleProc, Local, Phases

\* Marking a set of identities keeps a ledger a ledger.
LEMMA MarkedRow ==
    ASSUME NEW rows \in Row, NEW ids, NEW s \in Status
    PROVE  /\ [i \in Id |-> IF i \in ids THEN s ELSE rows[i]] \in Row
           /\ \A i \in Id : [j \in Id |-> IF j \in ids THEN s ELSE rows[j]][i] =
                              IF i \in ids THEN s ELSE rows[i]
BY DEF Row

\* A flush only drops rows, and only delivered ones.
LEMMA SavedFacts ==
    ASSUME NEW rows \in Row, NEW l \in Saved(rows)
    PROVE  /\ l \in Row
           /\ \A i \in Id : l[i] = rows[i] \/ (rows[i] = "DELIVERED" /\ l[i] = "none")
<1> DEFINE held == { i \in Id : rows[i] # "none" }
           done == { i \in held : rows[i] = "DELIVERED" }
           Cut(keep) == [i \in Id |-> IF i \in done \ keep THEN "none" ELSE rows[i]]
<1>1. CASE l = rows BY <1>1
<1>2. CASE \E keep : l = Cut(keep)
  <2>1. PICK keep : l = Cut(keep) BY <1>2
  <2>2. l \in Row
    <3>1. \A i \in Id : (IF i \in done \ keep THEN "none" ELSE rows[i]) \in Status
      BY DEF Row, Status
    <3> QED BY <2>1, <3>1 DEF Row
  <2>3. \A i \in Id : l[i] = IF i \in done \ keep THEN "none" ELSE rows[i] BY <2>1
  <2> QED BY <2>2, <2>3
<1>3. l = rows \/ \E keep : l = Cut(keep) BY DEF Saved
<1> QED BY <1>1, <1>2, <1>3

LEMMA StatusType ==
    ASSUME NEW result \in Results, NEW burst \in BOOLEAN
    PROVE  /\ StatusOf(result, burst) \in {"DELIVERED", "DELIVERY_FAILED", "NOT_CONFIGURED"}
           /\ StatusOf(result, burst) \in Status
           /\ StatusOf(result, burst) = "DELIVERED" <=> result = "ok"
BY DEF StatusOf, Status

LEMMA KeyIds == Key \X Days \subseteq Id /\ OneOff \X Days \subseteq Id /\ Key \cap OneOff = {}
BY DEF Id, Key, OneOff

LEMMA CooldownType == \A k \in Key : Cooldown(k) \in Nat
BY Constants DEF Cooldown

\* What a pass writes back as the regime row.
LEMMA MarketRowType ==
    ASSUME market \in MarketRows, regime \in Regime
    PROVE  MarketRow \in MarketRows
<1>1. InState \in 0..HoldPasses BY Constants DEF InState, Lesser, MarketRows
<1> QED BY <1>1 DEF MarketRow, MarketRows

LEMMA FoundType == ASSUME regime \in Regime, hot \subseteq Level PROVE Found \subseteq Key
BY DEF Found, Key

\* A step of one process leaves the others as they were.
LEMMA BecomesFacts ==
    ASSUME TypeOK, NEW p \in Proc, NEW local \in Local, Becomes(p, local)
    PROVE  /\ proc' \in [Proc -> Local]
           /\ proc'[p] = local
           /\ \A q \in Proc : q # p => proc'[q] = proc[q]
BY DEF Becomes, TypeOK

-----------------------------------------------------------------------------
(* Type correctness                                                        *)

\* What is left of TypeOK when only a process and the files it writes move.
LEMMA TypeStep ==
    ASSUME TypeOK, UNCHANGED world, NEW p \in Proc, NEW local \in Local, Becomes(p, local),
           emitted' \in [Key -> Days \cup {Never}], market' \in MarketRows, ledger' \in Row,
           posted' \subseteq Id, noticed' \subseteq Id,
           lastPost' \in [Key -> Days \cup {Never}]
    PROVE  TypeOK'
<1>1. proc' \in [Proc -> Local] BY BecomesFacts
<1> QED BY <1>1 DEF TypeOK, world

LEMMA PostType ==
    ASSUME TypeOK, NEW ids \in SUBSET Id, NEW result, NEW at \in Days, Post(ids, result, at)
    PROVE  /\ posted' \subseteq Id /\ posted \subseteq posted'
           /\ lastPost' \in [Key -> Days \cup {Never}]
           /\ result \in {"ok", "lost"} => ids \subseteq posted'
           /\ \A k \in Key : \/ lastPost'[k] = lastPost[k]
                             \/ lastPost'[k] = at /\ \E i \in ids : i[1] = k
<1>1. CASE Arrives(result)
  <2>1. /\ posted' = posted \cup ids
        /\ lastPost' = [k \in Key |-> IF \E i \in ids : i[1] = k THEN at ELSE lastPost[k]]
    BY <1>1 DEF Post
  <2>2. \A k \in Key : lastPost[k] \in Days \cup {Never} BY DEF TypeOK
  <2> QED BY <2>1, <2>2 DEF TypeOK
<1>2. CASE ~Arrives(result)
  <2>1. UNCHANGED <<posted, lastPost>> BY <1>2 DEF Post
  <2>2. result \notin {"ok", "lost"} BY <1>2 DEF Arrives
  <2> QED BY <2>1, <2>2 DEF TypeOK
<1> QED BY <1>1, <1>2

LEMMA TypeInit == Init => TypeOK
<1> SUFFICES ASSUME Init PROVE TypeOK OBVIOUS
<1>1. 0 \in Days /\ 0 \in 0..0 BY Constants DEF Days
<1>2. IdleProc.emitted \in [Key -> Days \cup {Never}] /\ IdleProc.market \in MarketRows
  BY IdleLocal DEF Local
<1>3. [p \in Proc |-> IdleProc] \in [Proc -> Local] BY IdleLocal
<1> QED BY <1>1, <1>2, <1>3, EmptyRow DEF Init, TypeOK

LEMMA ObserveType ==
    ASSUME TypeOK, NEW p \in Proc, NEW mode \in Mode, Observe(p, mode)
    PROVE  TypeOK'
<1> DEFINE marked == [k \in Key |-> IF k \in Kept THEN day ELSE emitted[k]]
           local == [IdleProc EXCEPT
                      !.mode = mode, !.at = day, !.asOf = session, !.market = MarketRow,
                      !.phase = IF Kept = {} THEN "market" ELSE "emitted",
                      !.emitted = marked, !.kept = Kept \X {session}]
<1>1. Becomes(p, local) /\ UNCHANGED <<world, files, history>> BY DEF Observe
<1>2. marked \in [Key -> Days \cup {Never}] BY DEF TypeOK
<1>0. session \in Days BY Constants DEF TypeOK, Days
<1>3. Kept \X {session} \subseteq Key \X Days BY <1>0, FoundType DEF TypeOK, Kept
<1>4. MarketRow \in MarketRows BY MarketRowType DEF TypeOK
<1>5. mode \in Modes BY ChoiceAssumption
<1>6. local \in Local
  <2> HIDE DEF marked
  <2> QED BY <1>0, <1>2, <1>3, <1>4, <1>5, IdleLocal DEF Local, Phases, TypeOK
<1> QED BY <1>1, <1>6, TypeStep DEF TypeOK, files, history

LEMMA PublishType ==
    ASSUME TypeOK, NEW p \in Proc, Publish(p)
    PROVE  TypeOK'
<1> DEFINE me == proc[p]
           rows == [i \in Id |-> IF i \in me.kept THEN "BASELINE_NOT_SENT" ELSE ledger[i]]
           todo == IF me.mode = "dry" THEN {} ELSE { i \in me.kept : ~Settled(ledger, i) }
           quiet == [me EXCEPT !.phase = "reconcile"]
           first == [me EXCEPT !.phase = "reconcile", !.rows = rows]
           queued == [me EXCEPT !.phase = IF todo = {} THEN "reconcile" ELSE "send",
                                !.rows = ledger, !.events = todo,
                                !.burst = Cardinality(todo) > BurstThreshold]
<1>1. me \in Local /\ ledger \in Row BY DEF TypeOK
<1>2. UNCHANGED <<world, emitted, market, history>> BY DEF Publish
<1>3. CASE Becomes(p, quiet) /\ UNCHANGED ledger
  <2>1. quiet \in Local BY <1>1 DEF Local, Phases
  <2> QED BY <1>2, <1>3, <2>1, TypeStep DEF TypeOK, history
<1>4. CASE ledger' \in Saved(rows) /\ Becomes(p, first)
  <2>1. rows \in Row BY <1>1, MarkedRow DEF Status
  <2>2. first \in Local BY <1>1, <2>1 DEF Local, Phases
  <2>3. ledger' \in Row BY <1>4, <2>1, SavedFacts
  <2> QED BY <1>2, <1>4, <2>2, <2>3, TypeStep DEF TypeOK, history
<1>5. CASE Becomes(p, queued) /\ UNCHANGED ledger
  <2>1. todo \subseteq Key \X Days BY <1>1 DEF Local
  <2>2. (Cardinality(todo) > BurstThreshold) \in BOOLEAN OBVIOUS
  <2>3. queued \in Local
    <3> HIDE DEF todo
    <3> QED BY <1>1, <2>1, <2>2 DEF Local, Phases
  <2> QED BY <1>2, <1>5, <2>3, TypeStep DEF TypeOK, history
<1> QED BY <1>3, <1>4, <1>5 DEF Publish

LEMMA FlushType ==
    ASSUME TypeOK, NEW p \in Proc, FlushEmitted(p) \/ FlushMarket(p)
    PROVE  TypeOK'
<1>1. proc[p] \in Local BY DEF TypeOK
<1>2. CASE FlushEmitted(p)
  <2>1. [proc[p] EXCEPT !.phase = "market"] \in Local BY <1>1 DEF Local, Phases
  <2>2. emitted' \in [Key -> Days \cup {Never}] BY <1>1, <1>2 DEF FlushEmitted, Local
  <2> QED BY <1>2, <2>1, <2>2, TypeStep DEF TypeOK, FlushEmitted, history
<1>3. CASE FlushMarket(p)
  <2>1. [proc[p] EXCEPT !.phase = "publish"] \in Local BY <1>1 DEF Local, Phases
  <2>2. market' \in MarketRows BY <1>1, <1>3 DEF FlushMarket, Local
  <2>3. /\ UNCHANGED <<world, emitted, ledger, history>>
        /\ \/ Becomes(p, IdleProc)
           \/ Becomes(p, [proc[p] EXCEPT !.phase = "publish"])
    BY <1>3 DEF FlushMarket
  <2> QED BY <2>1, <2>2, <2>3, IdleLocal, TypeStep DEF TypeOK, history
<1> QED BY <1>2, <1>3

\* The messages a pass sends next: one alert, or the digest of all of them.
Batch(p) == IF proc[p].burst THEN {proc[p].events} ELSE {{i} : i \in proc[p].events}

\* A process once these messages were sent with this result.
AfterSend(p, ids, result) ==
    [proc[p] EXCEPT !.events = @ \ ids,
                    !.rows = [i \in Id |-> IF i \in ids THEN StatusOf(result, proc[p].burst)
                                           ELSE proc[p].rows[i]]]

LEMMA SendFacts ==
    ASSUME TypeOK, NEW p \in Proc, Send(p)
    PROVE  /\ UNCHANGED <<world, files, noticed>>
           /\ proc[p].phase = "send"
           /\ \E ids \in SUBSET proc[p].events, result \in Results :
                /\ Post(ids, result, proc[p].at)
                /\ Becomes(p, AfterSend(p, ids, result))
                /\ AfterSend(p, ids, result) \in Local
<1>1. proc[p] \in Local BY DEF TypeOK
<1>2. PICK ids \in Batch(p), result \in Results :
        Post(ids, result, proc[p].at) /\ Becomes(p, AfterSend(p, ids, result))
  BY DEF Send, Batch, AfterSend
<1>3. ids \subseteq proc[p].events BY DEF Batch
<1>4. [i \in Id |-> IF i \in ids THEN StatusOf(result, proc[p].burst) ELSE proc[p].rows[i]] \in Row
  <2>1. proc[p].rows \in Row /\ proc[p].burst \in BOOLEAN BY <1>1 DEF Local
  <2>2. StatusOf(result, proc[p].burst) \in Status BY <2>1, StatusType
  <2>3. \A i \in Id : (IF i \in ids THEN StatusOf(result, proc[p].burst) ELSE proc[p].rows[i])
                       \in Status
    BY <2>1, <2>2 DEF Row
  <2> QED BY <2>3 DEF Row
<1>5. AfterSend(p, ids, result) \in Local BY <1>1, <1>4 DEF Local, AfterSend
<1> QED BY <1>2, <1>3, <1>5 DEF Send

LEMMA SendType ==
    ASSUME TypeOK, NEW p \in Proc, Send(p)
    PROVE  TypeOK'
<1>1. PICK ids \in SUBSET proc[p].events, result \in Results :
        /\ Post(ids, result, proc[p].at)
        /\ Becomes(p, AfterSend(p, ids, result))
        /\ AfterSend(p, ids, result) \in Local
  BY SendFacts
<1>2. ids \subseteq Id /\ proc[p].at \in Days BY KeyIds DEF TypeOK, Local
<1>3. posted' \subseteq Id /\ lastPost' \in [Key -> Days \cup {Never}] BY <1>1, <1>2, PostType
<1>4. UNCHANGED <<world, files, noticed>> BY SendFacts
<1> QED BY <1>1, <1>3, <1>4, TypeStep DEF TypeOK, files

LEMMA SaveType ==
    ASSUME TypeOK, NEW p \in Proc, Save(p) \/ SaveNotice(p)
    PROVE  TypeOK'
<1>1. proc[p] \in Local BY DEF TypeOK
<1>2. ledger' \in Saved(proc[p].rows) BY DEF Save, SaveNotice
<1>3. ledger' \in Row BY <1>1, <1>2, SavedFacts DEF Local
<1>4. [proc[p] EXCEPT !.phase = "reconcile"] \in Local BY <1>1 DEF Local, Phases
<1>5. /\ UNCHANGED <<world, emitted, market, history>>
      /\ \/ Becomes(p, IdleProc)
         \/ Becomes(p, [proc[p] EXCEPT !.phase = "reconcile"])
  BY DEF Save, SaveNotice
<1> QED BY <1>3, <1>4, <1>5, IdleLocal, TypeStep DEF TypeOK, history

\* A process that sent a message of its own identity.
OneOffLocal(i, result) ==
    [IdleProc EXCEPT !.phase = "send", !.mode = "portfolio", !.at = day,
                     !.rows = [ledger EXCEPT ![i] = StatusOf(result, FALSE)]]

LEMMA OneOffFacts ==
    ASSUME TypeOK, NEW p \in Proc, NEW i \in OneOff \X Days, SendOneOff(p, i)
    PROVE  /\ UNCHANGED <<world, files, noticed>>
           /\ proc[p].phase = "publish" \/ (proc[p].phase = "idle" /\ MayStart)
           /\ \/ Becomes(p, IdleProc) /\ UNCHANGED history
              \/ \E result \in Results :
                   /\ Post({i}, result, day)
                   /\ Becomes(p, OneOffLocal(i, result))
                   /\ OneOffLocal(i, result) \in Local
<1>1. \A result \in Results : OneOffLocal(i, result) \in Local
  <2> SUFFICES ASSUME NEW result \in Results PROVE OneOffLocal(i, result) \in Local OBVIOUS
  <2>1. StatusOf(result, FALSE) \in Status BY StatusType
  <2>2. [ledger EXCEPT ![i] = StatusOf(result, FALSE)] \in Row BY <2>1 DEF TypeOK, Row
  <2> QED BY <2>2, IdleLocal DEF OneOffLocal, Local, Phases, Modes, TypeOK
<1> QED BY <1>1 DEF SendOneOff, OneOffLocal, history

LEMMA OneOffType ==
    ASSUME TypeOK, NEW p \in Proc, NEW i \in OneOff \X Days, SendOneOff(p, i)
    PROVE  TypeOK'
<1>1. UNCHANGED <<world, files, noticed>> BY OneOffFacts
<1>2. CASE Becomes(p, IdleProc) /\ UNCHANGED history
  BY <1>1, <1>2, IdleLocal, TypeStep DEF TypeOK, files, history
<1>3. ASSUME NEW result \in Results, Post({i}, result, day),
             Becomes(p, OneOffLocal(i, result)), OneOffLocal(i, result) \in Local
      PROVE  TypeOK'
  <2>1. {i} \subseteq Id /\ day \in Days BY KeyIds DEF TypeOK
  <2>2. posted' \subseteq Id /\ lastPost' \in [Key -> Days \cup {Never}] BY <1>3, <2>1, PostType
  <2> QED BY <1>1, <1>3, <2>2, TypeStep DEF TypeOK, files
<1> QED BY <1>2, <1>3, OneOffFacts

\* The notice reconcile sends, and the process after it.
Notice == <<<<"recovery", "SYSTEM">>, day>>

Backlog(p) == IF proc[p].rows = Empty THEN ledger ELSE proc[p].rows

AfterNotice(p, result) ==
    [proc[p] EXCEPT !.phase = "notice",
                    !.rows = [i \in Id |->
                                IF i \in Forgotten(result, Failures(Backlog(p))) THEN "none"
                                ELSE IF i = Notice THEN StatusOf(result, FALSE)
                                ELSE Backlog(p)[i]]]

LEMMA ReconcileFacts ==
    ASSUME TypeOK, NEW p \in Proc, Reconcile(p)
    PROVE  /\ UNCHANGED <<world, files>>
           /\ proc[p].phase = "reconcile"
           /\ Backlog(p) \in Row
           /\ \/ Becomes(p, IdleProc) /\ UNCHANGED history
              \/ \E result \in Results :
                   /\ Post({Notice}, result, day)
                   /\ noticed' = IF Arrives(result) THEN noticed \cup Failures(Backlog(p)) ELSE noticed
                   /\ Becomes(p, AfterNotice(p, result))
                   /\ AfterNotice(p, result) \in Local
<1>1. proc[p] \in Local /\ ledger \in Row BY DEF TypeOK
<1>2. Backlog(p) \in Row BY <1>1 DEF Backlog, Local
<1>3. \A result \in Results : AfterNotice(p, result) \in Local
  <2> SUFFICES ASSUME NEW result \in Results PROVE AfterNotice(p, result) \in Local OBVIOUS
  <2>1. StatusOf(result, FALSE) \in Status /\ "none" \in Status BY StatusType DEF Status
  <2>2. \A i \in Id : Backlog(p)[i] \in Status BY <1>2 DEF Row
  <2>3. [i \in Id |-> IF i \in Forgotten(result, Failures(Backlog(p))) THEN "none"
                      ELSE IF i = Notice THEN StatusOf(result, FALSE)
                      ELSE Backlog(p)[i]] \in Row
    BY <2>1, <2>2 DEF Row
  <2> QED BY <1>1, <2>3 DEF AfterNotice, Local, Phases
<1> QED BY <1>2, <1>3 DEF Reconcile, AfterNotice, Notice, Backlog

LEMMA ReconcileType ==
    ASSUME TypeOK, NEW p \in Proc, Reconcile(p)
    PROVE  TypeOK'
<1>1. UNCHANGED <<world, files>> BY ReconcileFacts
<1>2. CASE Becomes(p, IdleProc) /\ UNCHANGED history
  BY <1>1, <1>2, IdleLocal, TypeStep DEF TypeOK, files, history
<1>3. ASSUME NEW result \in Results, Post({Notice}, result, day),
             noticed' = IF Arrives(result) THEN noticed \cup Failures(Backlog(p)) ELSE noticed,
             Becomes(p, AfterNotice(p, result)), AfterNotice(p, result) \in Local
      PROVE  TypeOK'
  <2>1. {Notice} \subseteq Id /\ day \in Days BY KeyIds DEF TypeOK, Notice, OneOff
  <2>2. posted' \subseteq Id /\ lastPost' \in [Key -> Days \cup {Never}] BY <1>3, <2>1, PostType
  <2>3. noticed' \subseteq Id BY <1>3 DEF TypeOK, Failures
  <2> QED BY <1>1, <1>3, <2>2, <2>3, TypeStep DEF TypeOK, files
<1> QED BY <1>2, <1>3, ReconcileFacts

LEMMA NextDayType == ASSUME TypeOK, NextDay PROVE TypeOK'
<1>1. day' \in Days BY Constants DEF NextDay, TypeOK, Days
<1>2. UNCHANGED <<files, proc, history>> BY DEF NextDay
<1>3. /\ session' \in 0..day' /\ since' \in 0..session'
      /\ regime' \in Regime /\ hot' \subseteq Level
  <2>1. CASE UNCHANGED <<session, regime, hot, since>>
    <3>1. day \in Nat /\ day' = day + 1 BY DEF TypeOK, NextDay, Days
    <3> QED BY <2>1, <3>1 DEF TypeOK
  <2>2. CASE /\ session' = day' /\ regime' \in Regime /\ hot' \in SUBSET Level
             /\ since' = IF regime' = regime THEN since ELSE session'
    <3>1. session \in Nat /\ session' \in Nat /\ since \in 0..session
      BY <1>1, <2>2 DEF TypeOK, Days
    <3>2. session <= session' BY <1>1, <2>2 DEF NextDay, TypeOK, Days
    <3> QED BY <1>1, <2>2, <3>1, <3>2
  <2> QED BY <2>1, <2>2 DEF NextDay
<1> QED BY <1>1, <1>2, <1>3 DEF TypeOK, files, history

LEMMA StepType == ASSUME TypeOK, NEW p \in Proc, Step(p) PROVE TypeOK'
<1>1. CASE Crash(p) BY <1>1, IdleLocal, TypeStep DEF Crash, TypeOK, files, history
<1> QED BY <1>1, ObserveType, FlushType, PublishType, SendType, SaveType, OneOffType,
           ReconcileType DEF Step

LEMMA NextType == TypeOK /\ [Next]_vars => TypeOK'
<1>1. ASSUME TypeOK, UNCHANGED vars PROVE TypeOK'
  BY <1>1 DEF TypeOK, vars, world, files, history
<1> QED BY <1>1, NextDayType, StepType DEF Next

\* Every variable has its type in every behaviour.
THEOREM TypeCorrect == Spec => []TypeOK
BY TypeInit, NextType, PTL DEF Spec

-----------------------------------------------------------------------------
(* What the ledger records                                                 *)

\* What a pass may leave behind in its own memory.
Kosher(x, there) ==
             /\ \A i \in Id : x.rows[i] = "DELIVERED" => i \in there
             /\ x.phase = "send" /\ x.mode = "events"
                  => \A i \in x.kept : i \in x.events \/ x.rows[i] # "none"

\* A row says delivered only of what was, and a pass that sends has recorded
\* whatever it kept and no longer has to send.
Books == /\ \A i \in Id : ledger[i] = "DELIVERED" => i \in posted
         /\ \A p \in Proc : Kosher(proc[p], posted)

LEMMA BooksStep ==
    ASSUME TypeOK, Books, NEW p \in Proc, NEW local \in Local, Becomes(p, local),
           posted \subseteq posted', Kosher(local, posted'),
           \A i \in Id : ledger'[i] = "DELIVERED" => i \in posted'
    PROVE  Books'
<1>1. \A q \in Proc : q # p => Kosher(proc'[q], posted')
  <2> SUFFICES ASSUME NEW q \in Proc, q # p PROVE Kosher(proc'[q], posted') OBVIOUS
  <2>1. proc'[q] = proc[q] BY BecomesFacts
  <2>2. Kosher(proc[q], posted) BY DEF Books
  <2> QED BY <2>1, <2>2 DEF Kosher
<1>2. Kosher(proc'[p], posted')
  <2>1. proc'[p] = local BY BecomesFacts
  <2> QED BY <2>1 DEF Kosher
<1> QED BY <1>1, <1>2 DEF Books

LEMMA IdleKosher == Kosher(IdleProc, posted) /\ Kosher(IdleProc, posted')
BY IdleLocal, EmptyRow DEF Kosher

LEMMA BooksInit == Init => Books
<1> SUFFICES ASSUME Init PROVE Books OBVIOUS
<1>1. \A p \in Proc : proc[p] = IdleProc BY DEF Init
<1>2. ledger = Empty BY DEF Init
<1> QED BY <1>1, <1>2, IdleKosher, EmptyRow DEF Books

LEMMA PublishBooks ==
    ASSUME TypeOK, Books, NEW p \in Proc, Publish(p)
    PROVE  Books'
<1> DEFINE me == proc[p]
           rows == [i \in Id |-> IF i \in me.kept THEN "BASELINE_NOT_SENT" ELSE ledger[i]]
           todo == IF me.mode = "dry" THEN {} ELSE { i \in me.kept : ~Settled(ledger, i) }
           quiet == [me EXCEPT !.phase = "reconcile"]
           first == [me EXCEPT !.phase = "reconcile", !.rows = rows]
           queued == [me EXCEPT !.phase = IF todo = {} THEN "reconcile" ELSE "send",
                                !.rows = ledger, !.events = todo,
                                !.burst = Cardinality(todo) > BurstThreshold]
<1>1. me \in Local /\ ledger \in Row /\ Kosher(me, posted) BY DEF TypeOK, Books
<1>2. UNCHANGED history /\ posted \subseteq posted' BY DEF Publish, history
<1>3. CASE Becomes(p, quiet) /\ UNCHANGED ledger
  <2>1. quiet \in Local BY <1>1 DEF Local, Phases
  <2>2. Kosher(quiet, posted') BY <1>1, <1>2 DEF Kosher, Local, history
  <2> QED BY <1>2, <1>3, <2>1, <2>2, BooksStep DEF Books
<1>4. CASE ledger' \in Saved(rows) /\ Becomes(p, first)
  <2>1. rows \in Row /\ \A i \in Id : rows[i] = IF i \in me.kept THEN "BASELINE_NOT_SENT" ELSE ledger[i]
    BY <1>1, MarkedRow DEF Status
  <2> HIDE DEF rows
  <2>2. first \in Local BY <1>1, <2>1 DEF Local, Phases
  <2>3. \A i \in Id : rows[i] = "DELIVERED" => i \in posted BY <2>1 DEF Books
  <2>4. \A i \in Id : ledger'[i] = "DELIVERED" => i \in posted BY <1>4, <2>1, <2>3, SavedFacts
  <2>5. Kosher(first, posted') BY <1>1, <1>2, <2>3 DEF Kosher, Local, history
  <2> QED BY <1>2, <1>4, <2>2, <2>4, <2>5, BooksStep
<1>5. CASE Becomes(p, queued) /\ UNCHANGED ledger
  <2>1. todo \subseteq Key \X Days /\ (Cardinality(todo) > BurstThreshold) \in BOOLEAN
    BY <1>1 DEF Local
  <2>2. me.mode # "dry" => \A i \in me.kept : i \in todo \/ ledger[i] # "none" BY DEF Settled
  <2> HIDE DEF todo
  <2>3. queued \in Local BY <1>1, <2>1 DEF Local, Phases
  <2>4. queued.rows = ledger /\ queued.events = todo /\ queued.kept = me.kept /\ queued.mode = me.mode
    BY <1>1 DEF Local
  <2>5. Kosher(queued, posted') BY <1>2, <2>2, <2>4 DEF Kosher, Books
  <2> QED BY <1>2, <1>5, <2>3, <2>5, BooksStep DEF Books
<1> QED BY <1>3, <1>4, <1>5 DEF Publish

LEMMA SendBooks ==
    ASSUME TypeOK, Books, NEW p \in Proc, Send(p)
    PROVE  Books'
<1>1. PICK ids \in SUBSET proc[p].events, result \in Results :
        /\ Post(ids, result, proc[p].at)
        /\ Becomes(p, AfterSend(p, ids, result))
        /\ AfterSend(p, ids, result) \in Local
  BY SendFacts
<1> DEFINE me == proc[p]
           x == AfterSend(p, ids, result)
<1>2. me \in Local /\ Kosher(me, posted) BY DEF TypeOK, Books
<1>3. ids \subseteq Id /\ me.at \in Days BY <1>2, KeyIds DEF Local
<1>4. posted \subseteq posted' /\ (result \in {"ok", "lost"} => ids \subseteq posted')
  BY <1>1, <1>3, PostType
<1>5. StatusOf(result, me.burst) \in Status \ {"none"}
      /\ (StatusOf(result, me.burst) = "DELIVERED" => result = "ok")
  BY <1>1, <1>2, StatusType DEF Local
<1>6. /\ \A i \in Id : x.rows[i] = IF i \in ids THEN StatusOf(result, me.burst) ELSE me.rows[i]
      /\ x.phase = me.phase /\ x.mode = me.mode /\ x.kept = me.kept /\ x.events = me.events \ ids
  BY <1>2 DEF AfterSend, Local
<1>7. me.kept \subseteq Id BY <1>2, KeyIds DEF Local
<1>8. Kosher(x, posted')
  <2> HIDE DEF x, me
  <2>1. \A i \in Id : x.rows[i] = "DELIVERED" => i \in posted' BY <1>2, <1>4, <1>5, <1>6 DEF Kosher
  <2>2. x.phase = "send" /\ x.mode = "events" => \A i \in x.kept : i \in x.events \/ x.rows[i] # "none"
    BY <1>2, <1>5, <1>6, <1>7 DEF Kosher
  <2> QED BY <2>1, <2>2 DEF Kosher
<1>9. UNCHANGED ledger BY SendFacts DEF files
<1> QED BY <1>1, <1>4, <1>8, <1>9, BooksStep DEF Books

LEMMA SaveBooks ==
    ASSUME TypeOK, Books, NEW p \in Proc, Save(p) \/ SaveNotice(p)
    PROVE  Books'
<1>1. proc[p] \in Local /\ Kosher(proc[p], posted) BY DEF TypeOK, Books
<1>2. ledger' \in Saved(proc[p].rows) BY DEF Save, SaveNotice
<1>3. UNCHANGED posted BY DEF Save, SaveNotice, history
<1>4. \A i \in Id : ledger'[i] = "DELIVERED" => i \in posted
  BY <1>1, <1>2, SavedFacts DEF Kosher, Local
<1>5. [proc[p] EXCEPT !.phase = "reconcile"] \in Local BY <1>1 DEF Local, Phases
<1>6. Kosher([proc[p] EXCEPT !.phase = "reconcile"], posted') BY <1>1, <1>3 DEF Kosher, Local
<1>7. \/ Becomes(p, IdleProc)
      \/ Becomes(p, [proc[p] EXCEPT !.phase = "reconcile"])
  BY DEF Save, SaveNotice
<1> QED BY <1>3, <1>4, <1>5, <1>6, <1>7, IdleLocal, IdleKosher, BooksStep

LEMMA OneOffBooks ==
    ASSUME TypeOK, Books, NEW p \in Proc, NEW i \in OneOff \X Days, SendOneOff(p, i)
    PROVE  Books'
<1>1. UNCHANGED ledger BY OneOffFacts DEF files
<1>2. CASE Becomes(p, IdleProc) /\ UNCHANGED history
  BY <1>1, <1>2, IdleLocal, IdleKosher, BooksStep DEF Books, history
<1>3. ASSUME NEW result \in Results, Post({i}, result, day),
             Becomes(p, OneOffLocal(i, result)), OneOffLocal(i, result) \in Local
      PROVE  Books'
  <2> DEFINE x == OneOffLocal(i, result)
  <2>1. {i} \subseteq Id /\ day \in Days BY KeyIds DEF TypeOK
  <2>2. posted \subseteq posted' /\ (result \in {"ok", "lost"} => i \in posted')
    BY <1>3, <2>1, PostType
  <2>3. \A j \in Id : x.rows[j] = "DELIVERED" => j \in posted'
    <3>1. ledger \in Row BY DEF TypeOK
    <3>2. x.rows = [ledger EXCEPT ![i] = StatusOf(result, FALSE)] BY DEF OneOffLocal, IdleProc
    <3>3. StatusOf(result, FALSE) = "DELIVERED" => result = "ok" BY StatusType
    <3> QED BY <2>1, <2>2, <3>1, <3>2, <3>3 DEF Books, Row
  <2>4. x.mode = "portfolio" BY DEF OneOffLocal, IdleProc
  <2>5. Kosher(x, posted') BY <2>3, <2>4 DEF Kosher
  <2> QED BY <1>1, <1>3, <2>2, <2>5, BooksStep DEF Books
<1> QED BY <1>2, <1>3, OneOffFacts

LEMMA ReconcileBooks ==
    ASSUME TypeOK, Books, NEW p \in Proc, Reconcile(p)
    PROVE  Books'
<1>1. UNCHANGED ledger BY ReconcileFacts DEF files
<1>2. CASE Becomes(p, IdleProc) /\ UNCHANGED history
  BY <1>1, <1>2, IdleLocal, IdleKosher, BooksStep DEF Books, history
<1>3. ASSUME NEW result \in Results, Post({Notice}, result, day),
             Becomes(p, AfterNotice(p, result)), AfterNotice(p, result) \in Local
      PROVE  Books'
  <2> DEFINE x == AfterNotice(p, result)
  <2>1. {Notice} \subseteq Id /\ day \in Days BY KeyIds DEF TypeOK, Notice, OneOff
  <2>2. posted \subseteq posted' /\ (result \in {"ok", "lost"} => Notice \in posted')
    BY <1>3, <2>1, PostType
  <2>3. \A j \in Id : Backlog(p)[j] = "DELIVERED" => j \in posted
    BY EmptyRow DEF Backlog, Books, Kosher
  <2>4. /\ \A j \in Id : x.rows[j] = IF j \in Forgotten(result, Failures(Backlog(p))) THEN "none"
                                     ELSE IF j = Notice THEN StatusOf(result, FALSE)
                                     ELSE Backlog(p)[j]
        /\ x.phase = "notice"
    BY DEF AfterNotice, TypeOK, Local
  <2>5. StatusOf(result, FALSE) = "DELIVERED" => result = "ok" BY StatusType
  <2>6. Kosher(x, posted')
    <3> HIDE DEF x
    <3> QED BY <2>2, <2>3, <2>4, <2>5 DEF Kosher
  <2> QED BY <1>1, <1>3, <2>2, <2>6, BooksStep DEF Books
<1> QED BY <1>2, <1>3, ReconcileFacts

LEMMA ObserveBooks ==
    ASSUME TypeOK, Books, NEW p \in Proc,
           (\E mode \in Mode : Observe(p, mode)) \/ FlushEmitted(p) \/ FlushMarket(p) \/ Crash(p)
    PROVE  Books'
<1>1. TypeOK' BY ObserveType, FlushType, IdleLocal, TypeStep DEF Crash, TypeOK, files, history
<1>2. /\ UNCHANGED <<ledger, posted>>
      /\ \E local : /\ Becomes(p, local)
                    /\ local.rows = Empty \/ local.rows = proc[p].rows
                    /\ local.phase # "send"
  <2>1. proc[p] \in Local BY DEF TypeOK
  <2>2. ASSUME NEW mode \in Mode, Observe(p, mode)
        PROVE  \E local : Becomes(p, local) /\ local.rows = Empty /\ local.phase # "send"
    <3> DEFINE local == [IdleProc EXCEPT
                     !.mode = mode, !.at = day, !.asOf = session, !.market = MarketRow,
                     !.phase = IF Kept = {} THEN "market" ELSE "emitted",
                     !.emitted = [k \in Key |-> IF k \in Kept THEN day ELSE emitted[k]],
                     !.kept = Kept \X {session}]
    <3>1. Becomes(p, local) BY <2>2 DEF Observe
    <3>2. local.rows = Empty /\ local.phase # "send" BY DEF IdleProc
    <3> HIDE DEF local
    <3> QED BY <3>1, <3>2
  <2>3. CASE FlushEmitted(p)
    <3> DEFINE local == [proc[p] EXCEPT !.phase = "market"]
    <3>1. Becomes(p, local) BY <2>3 DEF FlushEmitted
    <3>2. local.rows = proc[p].rows /\ local.phase # "send" BY <2>1 DEF Local
    <3> QED BY <2>3, <3>1, <3>2 DEF FlushEmitted, history
  <2>4. CASE FlushMarket(p)
    <3> DEFINE local == [proc[p] EXCEPT !.phase = "publish"]
    <3>1. Becomes(p, IdleProc) \/ Becomes(p, local) BY <2>4 DEF FlushMarket
    <3>2. local.rows = proc[p].rows /\ local.phase # "send" BY <2>1 DEF Local
    <3> QED BY <2>4, <3>1, <3>2, IdleLocal DEF FlushMarket, history
  <2>5. CASE Crash(p) BY <2>5, IdleLocal DEF Crash, files, history
  <2> QED BY <2>2, <2>3, <2>4, <2>5 DEF Observe, files, history
<1>3. PICK local : /\ Becomes(p, local)
                   /\ local.rows = Empty \/ local.rows = proc[p].rows
                   /\ local.phase # "send"
  BY <1>2
<1>4. local \in Local BY <1>1, <1>3 DEF Becomes, TypeOK
<1>5. Kosher(local, posted') BY <1>2, <1>3, EmptyRow DEF Kosher, Books
<1> QED BY <1>2, <1>3, <1>4, <1>5, BooksStep DEF Books

LEMMA NextBooks == TypeOK /\ Books /\ [Next]_vars => Books'
<1>1. ASSUME Books, UNCHANGED <<ledger, proc, posted>> PROVE Books' BY <1>1 DEF Books, Kosher
<1>2. NextDay \/ UNCHANGED vars => UNCHANGED <<ledger, proc, posted>>
  BY DEF NextDay, vars, files, history
<1> QED BY <1>1, <1>2, ObserveBooks, PublishBooks, SendBooks, SaveBooks, OneOffBooks,
           ReconcileBooks DEF Next, Step

LEMMA BooksInvariant == Spec => [](TypeOK /\ Books)
BY TypeInit, BooksInit, NextType, NextBooks, PTL DEF Spec

\* A step from publishing to reconciling is the end of publish_events: a quiet
\* pass, a baseline, an empty queue, or the flush after the last message.
LEMMA EndsPublishing ==
    ASSUME TypeOK, [Next]_vars, NEW p \in Proc,
           proc[p].phase \in {"publish", "send"}, proc'[p].phase = "reconcile"
    PROVE  Publish(p) \/ Save(p)
<1>1. proc'[p] # proc[p] BY DEF TypeOK
<1>2. ~NextDay /\ ~UNCHANGED vars BY <1>1 DEF NextDay, vars
<1>3. PICK q \in Proc : Step(q) BY <1>2 DEF Next
<1>4. PICK local : Becomes(q, local)
  BY <1>3 DEF Step, Observe, FlushEmitted, FlushMarket, Publish, Send, Save, SendOneOff,
              Reconcile, SaveNotice, Crash
<1>5. q = p BY <1>1, <1>4 DEF Becomes, TypeOK
<1>6. ~Send(p)
  <2> SUFFICES ASSUME Send(p) PROVE FALSE OBVIOUS
  <2>1. PICK ids, result : Becomes(p, AfterSend(p, ids, result)) /\ AfterSend(p, ids, result) \in Local
    BY SendFacts
  <2>2. proc'[p] = AfterSend(p, ids, result) BY <2>1, BecomesFacts
  <2>3. proc[p].phase = "send" BY SendFacts
  <2> QED BY <2>2, <2>3 DEF AfterSend, TypeOK, Local
<1>7. \A i \in OneOff \X Days : ~SendOneOff(p, i)
  <2> SUFFICES ASSUME NEW i \in OneOff \X Days, SendOneOff(p, i) PROVE FALSE OBVIOUS
  <2>1. CASE Becomes(p, IdleProc) BY <2>1, BecomesFacts, IdleLocal
  <2>2. ASSUME NEW result, Becomes(p, OneOffLocal(i, result)), OneOffLocal(i, result) \in Local
        PROVE  FALSE
    <3>1. proc'[p] = OneOffLocal(i, result) BY <2>2, BecomesFacts
    <3> QED BY <3>1 DEF OneOffLocal, IdleProc
  <2> QED BY <2>1, <2>2, OneOffFacts
<1>8. ~Crash(p)
  <2> SUFFICES ASSUME Crash(p) PROVE FALSE OBVIOUS
  <2>1. proc'[p] = IdleProc BY BecomesFacts, IdleLocal DEF Crash
  <2> QED BY <2>1, IdleLocal
<1> QED BY <1>3, <1>5, <1>6, <1>7, <1>8
        DEF Step, Observe, FlushEmitted, FlushMarket, Reconcile, SaveNotice

LEMMA AccountedStep ==
    ASSUME TypeOK, Books, [Next]_vars, NEW p \in Proc,
           proc[p].phase \in {"publish", "send"}, proc[p].mode = "events",
           proc'[p].phase = "reconcile", NEW i \in proc[p].kept
    PROVE  ledger'[i] # "none" \/ i \in posted
<1> DEFINE me == proc[p]
           rows == [j \in Id |-> IF j \in me.kept THEN "BASELINE_NOT_SENT" ELSE ledger[j]]
<1>1. me \in Local /\ ledger \in Row /\ i \in Id BY KeyIds DEF TypeOK, Local
<1>2. CASE Save(p)
  <2>1. ledger' \in Saved(me.rows) /\ me.events = {} /\ me.phase = "send" BY <1>2 DEF Save
  <2>2. me.rows[i] # "none" /\ (me.rows[i] = "DELIVERED" => i \in posted)
    BY <1>1, <2>1 DEF Books, Kosher
  <2> QED BY <1>1, <2>1, <2>2, SavedFacts DEF Local
<1>3. CASE Publish(p) /\ ledger' \in Saved(rows)
  <2>1. rows \in Row /\ \A j \in Id : rows[j] = IF j \in me.kept THEN "BASELINE_NOT_SENT" ELSE ledger[j]
    <3>1. ledger \in Row /\ "BASELINE_NOT_SENT" \in Status BY <1>1 DEF Status
    <3>2. \A j \in Id : (IF j \in me.kept THEN "BASELINE_NOT_SENT" ELSE ledger[j]) \in Status
      BY <3>1 DEF Row
    <3> QED BY <3>2 DEF Row
  <2> HIDE DEF rows
  <2>2. rows[i] = "BASELINE_NOT_SENT" BY <1>1, <2>1
  <2> QED BY <1>1, <1>3, <2>1, <2>2, SavedFacts
<1>4. CASE Publish(p) /\ UNCHANGED ledger
  <2> DEFINE todo == { j \in me.kept : ~Settled(ledger, j) }
             queued == [me EXCEPT !.phase = IF todo = {} THEN "reconcile" ELSE "send",
                                  !.rows = ledger, !.events = todo,
                                  !.burst = Cardinality(todo) > BurstThreshold]
  <2>1. CASE Becomes(p, queued)
    <3>1. todo = {}
      <4>1. proc'[p] = queued BY <2>1 DEF Becomes, TypeOK
      <4>2. queued.phase = IF todo = {} THEN "reconcile" ELSE "send" BY <1>1 DEF Local
      <4> QED BY <4>1, <4>2
    <3> QED BY <1>4, <3>1 DEF Settled
  <2>2. CASE ledger' \in Saved(rows) BY <1>3, <1>4, <2>2
  <2> QED BY <1>4, <2>1, <2>2 DEF Publish
<1> QED BY <1>2, <1>3, <1>4, EndsPublishing DEF Publish

\* A pass that lives to its end accounts for every finding it kept.
THEOREM Accounted == Spec => KeptAccounted
<1> DEFINE A == \A p \in Proc :
                  /\ proc[p].phase \in {"publish", "send"} /\ proc[p].mode = "events"
                  /\ proc'[p].phase = "reconcile"
                  => \A i \in proc[p].kept : ledger'[i] # "none" \/ i \in posted
<1>1. TypeOK /\ Books /\ [Next]_vars => [A]_vars BY AccountedStep
<1>2. [][Next]_vars /\ [](TypeOK /\ Books) => [][A]_vars BY <1>1, PTL
<1>3. KeptAccounted <=> [][A]_vars BY DEF KeptAccounted
<1> QED BY <1>2, <1>3, BooksInvariant DEF Spec

-----------------------------------------------------------------------------
(* Passes that do not overlap                                              *)

\* No two processes are at work.
Apart == \A p, q \in Proc : proc[p].phase # "idle" /\ proc[q].phase # "idle" => p = q

\* What was posted was marked before, and nothing is marked ahead of time.
Marks == \A k \in Key : lastPost[k] <= emitted[k] /\ emitted[k] <= day

Due(p, i) == lastPost[i[1]] # Never => proc[p].at - lastPost[i[1]] >= Cooldown(i[1])

\* A failure of the file is not lost from the memory that will replace it.
Unforgotten(p) ==
    \/ proc[p].phase \in {"send", "notice"}
    \/ proc[p].phase = "reconcile" /\ proc[p].rows # Empty
    => \A i \in Id : ledger[i] = "DELIVERY_FAILED"
         => \/ proc[p].rows[i] \in {"DELIVERY_FAILED", "NOT_CONFIGURED"}
            \/ i \in posted \cup noticed

\* How far a pass has come with the findings it kept.
Pass(p) ==
    /\ proc[p].phase = "idle" => proc[p] = IdleProc
    /\ proc[p].at <= day /\ proc[p].events \subseteq proc[p].kept
    /\ \A i \in proc[p].kept : i[2] = proc[p].asOf
    /\ proc[p].phase = "emitted" =>
         /\ \A k \in Key : lastPost[k] <= proc[p].emitted[k] /\ proc[p].emitted[k] <= day
         /\ \A i \in proc[p].kept : proc[p].emitted[i[1]] = proc[p].at
    /\ proc[p].phase \in {"market", "publish", "send"}
         => \A i \in proc[p].kept : emitted[i[1]] = proc[p].at
    /\ proc[p].phase \in {"emitted", "market", "publish"}
         => proc[p].rows = Empty /\ \A i \in proc[p].kept : Due(p, i)
    /\ proc[p].phase = "send" => \A i \in proc[p].events : Due(p, i) /\ ~Settled(ledger, i)
    /\ Unforgotten(p)

Solo == Apart /\ Marks /\ \A p \in Proc : Pass(p)

LEMMA IdlePass ==
    ASSUME day \in Nat, NEW p \in Proc, proc[p] = IdleProc
    PROVE  Pass(p)
<1>1. IdleProc.at = 0 BY DEF IdleProc
<1> QED BY <1>1, IdleLocal DEF Pass, Unforgotten

LEMMA SoloInit == Init => Solo
<1> SUFFICES ASSUME Init PROVE Solo OBVIOUS
<1>1. \A p \in Proc : proc[p] = IdleProc BY DEF Init
<1>2. day = 0 BY DEF Init
<1>3. \A k \in Key : lastPost[k] = Never /\ emitted[k] = Never BY IdleLocal DEF Init
<1>4. Marks BY <1>2, <1>3 DEF Marks, Never
<1>5. Apart BY <1>1, IdleLocal DEF Apart
<1> QED BY <1>1, <1>2, <1>4, <1>5, IdlePass DEF Solo

\* Only the process that moves has to be looked at.
LEMMA SoloStep ==
    ASSUME TypeOK, Solo, UNCHANGED world, NEW p \in Proc, NEW local \in Local, Becomes(p, local),
           \A q \in Proc : q # p => proc[q].phase = "idle",
           Marks', proc'[p] = local => Pass(p)'
    PROVE  Solo'
<1>1. proc'[p] = local /\ \A q \in Proc : q # p => proc'[q] = proc[q] BY BecomesFacts
<1>2. \A q \in Proc : q # p => proc'[q] = IdleProc BY <1>1 DEF Solo, Pass
<1>3. day' \in Nat BY Constants DEF TypeOK, Days, world
<1>4. \A q \in Proc : q # p => Pass(q)'
  <2>1. IdleProc.at = 0 BY DEF IdleProc
  <2> QED BY <1>2, <1>3, <2>1, IdleLocal DEF Pass, Unforgotten
<1>5. Apart' BY <1>2, IdleLocal DEF Apart
<1> QED BY <1>1, <1>4, <1>5 DEF Solo

LEMMA OthersIdle ==
    ASSUME Solo, NEW p \in Proc,
           proc[p].phase # "idle" \/ ("overlap" \notin Env /\ MayStart)
    PROVE  \A q \in Proc : q # p => proc[q].phase = "idle"
BY DEF Solo, Apart, MayStart

LEMMA Integral ==
    ASSUME TypeOK
    PROVE  /\ day \in Nat /\ Never \in Int
           /\ \A k \in Key : lastPost[k] \in Int /\ emitted[k] \in Int /\ Cooldown(k) \in Nat
           /\ \A k \in Key : lastPost[k] >= 0 \/ lastPost[k] = Never
           /\ \A p \in Proc : proc[p].at \in Nat /\ \A k \in Key : proc[p].emitted[k] \in Int
           /\ \A p \in Proc : \A i \in proc[p].kept \cup proc[p].events : i \in Id /\ i[1] \in Key
<1>1. Days \subseteq Nat /\ Never \in Int /\ Never = -1 BY Constants DEF Days, Never
<1>0. \A d \in Days \cup {Never} : d \in Int /\ (d >= 0 \/ d = Never)
  BY Constants DEF Days, Never
<1>2. \A k \in Key : lastPost[k] \in Days \cup {Never} /\ emitted[k] \in Days \cup {Never}
  BY DEF TypeOK
<1>3. \A p \in Proc : proc[p].at \in Days /\ \A k \in Key : proc[p].emitted[k] \in Days \cup {Never}
  BY DEF TypeOK, Local
<1>4. \A p \in Proc : \A i \in proc[p].kept \cup proc[p].events : i \in Id /\ i[1] \in Key
  BY KeyIds DEF TypeOK, Local
<1>5. day \in Nat BY <1>1 DEF TypeOK
<1>6. \A k \in Key : /\ lastPost[k] \in Int /\ emitted[k] \in Int
                     /\ lastPost[k] >= 0 \/ lastPost[k] = Never
  BY <1>0, <1>2
<1>7. \A p \in Proc : proc[p].at \in Nat /\ \A k \in Key : proc[p].emitted[k] \in Int
  BY <1>0, <1>1, <1>3
<1> QED BY <1>1, <1>4, <1>5, <1>6, <1>7, CooldownType

LEMMA ObserveSolo ==
    ASSUME "overlap" \notin Env, TypeOK, Solo, NEW p \in Proc, NEW mode \in Mode, Observe(p, mode)
    PROVE  Solo'
<1> DEFINE marked == [k \in Key |-> IF k \in Kept THEN day ELSE emitted[k]]
           local == [IdleProc EXCEPT
                      !.mode = mode, !.at = day, !.asOf = session, !.market = MarketRow,
                      !.phase = IF Kept = {} THEN "market" ELSE "emitted",
                      !.emitted = marked, !.kept = Kept \X {session}]
<1>1. Becomes(p, local) /\ UNCHANGED <<world, files, history>> /\ MayStart BY DEF Observe
<1>2. Kept \subseteq Key BY FoundType DEF Kept, TypeOK
<1>3. /\ local.phase \in {"market", "emitted"} /\ (local.phase = "market" => local.kept = {})
      /\ local.at = day /\ local.asOf = session /\ local.emitted = marked
      /\ local.kept = Kept \X {session} /\ local.events = {} /\ local.rows = Empty
  BY DEF IdleProc
<1>4. proc'[p] = local BY <1>1 DEF Becomes, TypeOK
<1>5. local \in Local
  <2>1. TypeOK' BY ObserveType
  <2> QED BY <1>4, <2>1 DEF TypeOK
<1>6. Marks' BY <1>1 DEF Solo, Marks, world, files, history
<1>7. \A k \in Kept : lastPost[k] # Never => day - lastPost[k] >= Cooldown(k)
  <2> SUFFICES ASSUME NEW k \in Kept, lastPost[k] # Never
               PROVE  day - lastPost[k] >= Cooldown(k)
    OBVIOUS
  <2>1. k \in Key /\ lastPost[k] <= emitted[k] /\ ~InCooldown(k) BY <1>2 DEF Kept, Solo, Marks
  <2>2. lastPost[k] >= 0 /\ emitted[k] # Never BY <2>1, Integral DEF Never
  <2> QED BY <2>1, <2>2, Integral DEF InCooldown
<1>8. \A k \in Key : lastPost[k] <= marked[k] /\ marked[k] <= day
  BY Integral DEF Solo, Marks
<1>9. Pass(p)'
  <2> HIDE DEF local, marked
  <2>1. \A i \in local.kept : i[1] \in Kept /\ i[1] \in Key /\ i[2] = session BY <1>2, <1>3
  <2>2. \A i \in local.kept : lastPost[i[1]] # Never => local.at - lastPost[i[1]] >= Cooldown(i[1])
    BY <1>3, <1>7, <2>1
  <2>3. \A i \in local.kept : marked[i[1]] = day BY <2>1 DEF marked
  <2>4. UNCHANGED <<day, lastPost, emitted>> BY <1>1 DEF world, files, history
  <2>5. proc'[p].at <= day' BY <1>3, <1>4, <2>4, Integral
  <2>6. Unforgotten(p)' BY <1>3, <1>4 DEF Unforgotten
  <2>7. \A i \in local.kept : Due(p, i)' BY <1>3, <1>4, <2>2, <2>4 DEF Due
  <2> QED BY <1>3, <1>4, <1>8, <2>1, <2>3, <2>4, <2>5, <2>6, <2>7 DEF Pass
<1> QED BY <1>1, <1>5, <1>6, <1>9, OthersIdle, SoloStep

LEMMA FlushSolo ==
    ASSUME TypeOK, Solo, NEW p \in Proc, FlushEmitted(p) \/ FlushMarket(p)
    PROVE  Solo'
<1>1. proc[p] \in Local /\ proc[p].phase # "idle" /\ Pass(p)
  BY DEF TypeOK, FlushEmitted, FlushMarket, Solo
<1>2. CASE FlushEmitted(p)
  <2> DEFINE local == [proc[p] EXCEPT !.phase = "market"]
  <2>1. /\ local \in Local /\ local.phase = "market" /\ local.at = proc[p].at
        /\ local.kept = proc[p].kept /\ local.events = proc[p].events /\ local.asOf = proc[p].asOf
        /\ local.rows = proc[p].rows
    BY <1>1 DEF Local, Phases
  <2>2. /\ Becomes(p, local) /\ proc[p].phase = "emitted" /\ emitted' = proc[p].emitted
        /\ UNCHANGED <<world, lastPost, ledger, posted, noticed, day>>
    BY <1>2 DEF FlushEmitted, history, world
  <2> HIDE DEF local
  <2>3. Marks' BY <1>1, <2>2 DEF Pass, Marks
  <2>4. proc'[p] = local => Pass(p)'
    BY <1>1, <2>1, <2>2 DEF Pass, Due, Unforgotten
  <2> QED BY <1>1, <2>1, <2>2, <2>3, <2>4, OthersIdle, SoloStep
<1>3. CASE FlushMarket(p)
  <2> DEFINE local == [proc[p] EXCEPT !.phase = "publish"]
  <2>1. /\ local \in Local /\ local.phase = "publish" /\ local.at = proc[p].at
        /\ local.kept = proc[p].kept /\ local.events = proc[p].events /\ local.asOf = proc[p].asOf
        /\ local.rows = proc[p].rows
    BY <1>1 DEF Local, Phases
  <2>2. /\ Becomes(p, IdleProc) \/ Becomes(p, local)
        /\ proc[p].phase = "market"
        /\ UNCHANGED <<world, emitted, lastPost, ledger, posted, noticed, day>>
    BY <1>3 DEF FlushMarket, history, world
  <2> HIDE DEF local
  <2>3. Marks' BY <2>2 DEF Solo, Marks
  <2>4. proc'[p] = local => Pass(p)'
    BY <1>1, <2>1, <2>2 DEF Pass, Due, Unforgotten
  <2>5. proc'[p] = IdleProc => Pass(p)'
    BY <2>2, Integral, IdleLocal DEF Pass, Unforgotten, IdleProc
  <2> QED BY <1>1, <2>1, <2>2, <2>3, <2>4, <2>5, IdleLocal, OthersIdle, SoloStep
<1> QED BY <1>2, <1>3

LEMMA PublishSolo ==
    ASSUME TypeOK, Solo, NEW p \in Proc, Publish(p)
    PROVE  Solo'
<1> DEFINE me == proc[p]
           rows == [i \in Id |-> IF i \in me.kept THEN "BASELINE_NOT_SENT" ELSE ledger[i]]
           todo == IF me.mode = "dry" THEN {} ELSE { i \in me.kept : ~Settled(ledger, i) }
           quiet == [me EXCEPT !.phase = "reconcile"]
           first == [me EXCEPT !.phase = "reconcile", !.rows = rows]
           queued == [me EXCEPT !.phase = IF todo = {} THEN "reconcile" ELSE "send",
                                !.rows = ledger, !.events = todo,
                                !.burst = Cardinality(todo) > BurstThreshold]
<1>1. me \in Local /\ ledger \in Row /\ me.phase = "publish" /\ Pass(p) /\ UNCHANGED world
  BY DEF TypeOK, Publish, Solo
<1>2. UNCHANGED <<emitted, lastPost, posted, noticed, day>> BY DEF Publish, history, world
<1>3. Marks' BY <1>2 DEF Solo, Marks
<1>4. \A q \in Proc : q # p => proc[q].phase = "idle" BY <1>1, OthersIdle
<1>5. CASE Becomes(p, quiet) /\ UNCHANGED ledger
  <2>1. /\ quiet \in Local /\ quiet.phase = "reconcile" /\ quiet.at = me.at /\ quiet.asOf = me.asOf
        /\ quiet.kept = me.kept /\ quiet.events = me.events /\ quiet.rows = Empty
    BY <1>1 DEF Local, Phases, Pass
  <2> HIDE DEF quiet, me
  <2>2. proc'[p] = quiet => Pass(p)' BY <1>1, <1>2, <2>1 DEF Pass, Unforgotten, me
  <2> QED BY <1>1, <1>3, <1>4, <1>5, <2>1, <2>2, SoloStep
<1>6. CASE ledger' \in Saved(rows) /\ Becomes(p, first) /\ \A i \in MarketIds : ledger[i] = "none"
  <2>1. rows \in Row /\ \A i \in Id : rows[i] = IF i \in me.kept THEN "BASELINE_NOT_SENT" ELSE ledger[i]
    BY <1>1, MarkedRow DEF Status
  <2> HIDE DEF rows
  <2>2. /\ first \in Local /\ first.phase = "reconcile" /\ first.at = me.at /\ first.asOf = me.asOf
        /\ first.kept = me.kept /\ first.events = me.events /\ first.rows = rows
    BY <1>1, <2>1 DEF Local, Phases
  <2> HIDE DEF first, me
  <2>3. \A i \in Id : ledger'[i] = "DELIVERY_FAILED" => rows[i] = "DELIVERY_FAILED"
    BY <1>6, <2>1, SavedFacts
  <2>4. proc'[p] = first => Pass(p)'
    BY <1>1, <1>2, <2>2, <2>3 DEF Pass, Unforgotten, me
  <2> QED BY <1>1, <1>3, <1>4, <1>6, <2>2, <2>4, SoloStep
<1>7. CASE Becomes(p, queued) /\ UNCHANGED ledger
  <2>1. todo \subseteq me.kept /\ \A i \in todo : ~Settled(ledger, i) OBVIOUS
  <2>2. todo \subseteq Key \X Days /\ (Cardinality(todo) > BurstThreshold) \in BOOLEAN
    BY <1>1, <2>1 DEF Local
  <2> HIDE DEF todo
  <2>3. /\ queued \in Local /\ queued.phase = (IF todo = {} THEN "reconcile" ELSE "send")
        /\ queued.at = me.at /\ queued.asOf = me.asOf
        /\ queued.kept = me.kept /\ queued.events = todo /\ queued.rows = ledger
    BY <1>1, <2>2 DEF Local, Phases
  <2> HIDE DEF queued, me
  <2>4. proc'[p] = queued => Pass(p)'
    BY <1>1, <1>2, <1>7, <2>1, <2>3 DEF Pass, Unforgotten, Due, Settled, me
  <2> QED BY <1>1, <1>3, <1>4, <1>7, <2>3, <2>4, SoloStep
<1> QED BY <1>5, <1>6, <1>7 DEF Publish

LEMMA SendSolo ==
    ASSUME TypeOK, Solo, NEW p \in Proc, Send(p)
    PROVE  Solo'
<1>1. PICK ids \in SUBSET proc[p].events, result \in Results :
        /\ Post(ids, result, proc[p].at)
        /\ Becomes(p, AfterSend(p, ids, result))
        /\ AfterSend(p, ids, result) \in Local
  BY SendFacts
<1> DEFINE me == proc[p]
           x == AfterSend(p, ids, result)
<1>2. /\ me \in Local /\ Pass(p) /\ me.phase = "send" /\ UNCHANGED <<world, files, noticed>>
      /\ UNCHANGED <<day, emitted, ledger>>
  BY SendFacts DEF TypeOK, Solo, files, world
<1>3. ids \subseteq Id /\ me.at \in Days /\ ids \subseteq me.kept
  BY <1>2, KeyIds DEF Local, Pass
<1>4. /\ posted \subseteq posted' /\ (result \in {"ok", "lost"} => ids \subseteq posted')
      /\ \A k \in Key : \/ lastPost'[k] = lastPost[k]
                        \/ lastPost'[k] = me.at /\ \E i \in ids : i[1] = k
  BY <1>1, <1>3, PostType
<1>5. StatusOf(result, me.burst) \in {"DELIVERED", "DELIVERY_FAILED", "NOT_CONFIGURED"}
      /\ (StatusOf(result, me.burst) = "DELIVERED" => result = "ok")
  BY <1>1, <1>2, StatusType DEF Local
<1>6. /\ \A i \in Id : x.rows[i] = IF i \in ids THEN StatusOf(result, me.burst) ELSE me.rows[i]
      /\ x.phase = "send" /\ x.at = me.at /\ x.asOf = me.asOf
      /\ x.kept = me.kept /\ x.events = me.events \ ids
  BY <1>2 DEF AfterSend, Local
<1>7. Marks'
  <2>1. \A k \in Key : lastPost'[k] <= emitted[k]
    <3> SUFFICES ASSUME NEW k \in Key PROVE lastPost'[k] <= emitted[k] OBVIOUS
    <3>1. CASE lastPost'[k] = lastPost[k] BY <3>1 DEF Solo, Marks
    <3>2. CASE lastPost'[k] = me.at /\ \E i \in ids : i[1] = k
      <4>1. PICK i \in ids : i[1] = k BY <3>2
      <4>2. emitted[k] = me.at BY <1>2, <1>3, <4>1 DEF Pass
      <4> QED BY <3>2, <4>2, Integral
    <3> QED BY <1>4, <3>1, <3>2
  <2> QED BY <1>2, <2>1 DEF Solo, Marks
<1>8. ASSUME proc'[p] = x PROVE Pass(p)'
  <2> HIDE DEF x
  <2>1. \A i \in x.events : Due(p, i)'
    <3> SUFFICES ASSUME NEW i \in x.events PROVE Due(p, i)' OBVIOUS
    <3>1. i \in me.events /\ i \notin ids /\ i \in me.kept BY <1>2, <1>6 DEF Pass
    <3>2. i[1] \in Key BY <3>1, Integral
    <3>3. ~\E j \in ids : j[1] = i[1]
      <4> SUFFICES ASSUME NEW j \in ids, j[1] = i[1] PROVE FALSE OBVIOUS
      <4>1. i[2] = j[2] BY <1>2, <1>3, <3>1 DEF Pass
      <4>2. i \in Key \X Days /\ j \in Key \X Days BY <1>2, <1>3, <3>1 DEF Local
      <4> QED BY <3>1, <4>1, <4>2
    <3>4. lastPost'[i[1]] = lastPost[i[1]] BY <1>4, <3>2, <3>3
    <3> QED BY <1>2, <1>6, <1>8, <3>1, <3>4 DEF Pass, Due
  <2>2. \A i \in x.events : ~Settled(ledger, i)' BY <1>2, <1>6 DEF Pass, Settled
  <2>3. Unforgotten(p)'
    <3>1. \A i \in Id : ledger[i] = "DELIVERY_FAILED" /\ i \in ids
            => x.rows[i] \in {"DELIVERY_FAILED", "NOT_CONFIGURED"} \/ i \in posted'
      BY <1>4, <1>5, <1>6
    <3>2. \A i \in Id : ledger[i] = "DELIVERY_FAILED" /\ i \notin ids
            => x.rows[i] \in {"DELIVERY_FAILED", "NOT_CONFIGURED"} \/ i \in posted' \cup noticed'
      BY <1>2, <1>4, <1>6 DEF Pass, Unforgotten
    <3> QED BY <1>2, <1>8, <3>1, <3>2 DEF Unforgotten
  <2> HIDE DEF me
  <2> QED BY <1>2, <1>6, <1>8, <2>1, <2>2, <2>3 DEF Pass, me, Settled
<1> QED BY <1>1, <1>2, <1>7, <1>8, OthersIdle, SoloStep

LEMMA SaveSolo ==
    ASSUME TypeOK, Solo, NEW p \in Proc, Save(p) \/ SaveNotice(p)
    PROVE  Solo'
<1> DEFINE local == [proc[p] EXCEPT !.phase = "reconcile"]
<1>1. /\ proc[p] \in Local /\ Pass(p) /\ proc[p].phase \in {"send", "notice"}
      /\ ledger' \in Saved(proc[p].rows) /\ UNCHANGED world
      /\ UNCHANGED <<day, emitted, lastPost, posted, noticed>>
  BY DEF TypeOK, Solo, Save, SaveNotice, history, world
<1>2. /\ local \in Local /\ local.phase = "reconcile" /\ local.at = proc[p].at
      /\ local.kept = proc[p].kept /\ local.events = proc[p].events /\ local.asOf = proc[p].asOf
      /\ local.rows = proc[p].rows
  BY <1>1 DEF Local, Phases
<1>3. Becomes(p, IdleProc) \/ Becomes(p, local) BY DEF Save, SaveNotice
<1> HIDE DEF local
<1>4. \A i \in Id : ledger'[i] = "DELIVERY_FAILED" => proc[p].rows[i] = "DELIVERY_FAILED"
  BY <1>1, SavedFacts DEF Local
<1>5. proc'[p] = local => Pass(p)' BY <1>1, <1>2, <1>4 DEF Pass, Unforgotten
<1>6. proc'[p] = IdleProc => Pass(p)' BY <1>1, Integral, IdleLocal DEF Pass, Unforgotten, IdleProc
<1>7. Marks' BY <1>1 DEF Solo, Marks
<1> QED BY <1>1, <1>2, <1>3, <1>5, <1>6, <1>7, IdleLocal, OthersIdle, SoloStep

LEMMA OneOffSolo ==
    ASSUME "overlap" \notin Env, TypeOK, Solo, NEW p \in Proc, NEW i \in OneOff \X Days,
           SendOneOff(p, i)
    PROVE  Solo'
<1>1. /\ UNCHANGED <<world, files, noticed>> /\ UNCHANGED <<day, emitted, ledger>>
      /\ proc[p].phase # "idle" \/ MayStart
  BY OneOffFacts DEF files, world
<1>2. \A q \in Proc : q # p => proc[q].phase = "idle" BY <1>1, OthersIdle
<1>3. CASE Becomes(p, IdleProc) /\ UNCHANGED history
  <2>1. Marks' BY <1>1, <1>3 DEF Solo, Marks, history
  <2>2. proc'[p] = IdleProc => Pass(p)'
    BY <1>1, Integral, IdleLocal DEF Pass, Unforgotten, IdleProc
  <2> QED BY <1>1, <1>2, <1>3, <2>1, <2>2, IdleLocal, SoloStep
<1>4. ASSUME NEW result \in Results, Post({i}, result, day),
             Becomes(p, OneOffLocal(i, result)), OneOffLocal(i, result) \in Local
      PROVE  Solo'
  <2> DEFINE x == OneOffLocal(i, result)
  <2>1. {i} \subseteq Id /\ day \in Days /\ i[1] \notin Key BY KeyIds DEF TypeOK
  <2>2. /\ posted \subseteq posted' /\ (result \in {"ok", "lost"} => i \in posted')
        /\ \A k \in Key : lastPost'[k] = lastPost[k]
    BY <1>4, <2>1, PostType
  <2>3. /\ x.phase = "send" /\ x.at = day /\ x.kept = {} /\ x.events = {}
        /\ x.rows = [ledger EXCEPT ![i] = StatusOf(result, FALSE)]
    BY DEF OneOffLocal, IdleProc
  <2>4. /\ StatusOf(result, FALSE) \in {"DELIVERED", "DELIVERY_FAILED", "NOT_CONFIGURED"}
        /\ StatusOf(result, FALSE) = "DELIVERED" => result = "ok"
    BY StatusType
  <2>5. \A j \in Id : ledger[j] = "DELIVERY_FAILED"
          => x.rows[j] \in {"DELIVERY_FAILED", "NOT_CONFIGURED"} \/ j \in posted'
    BY <2>1, <2>2, <2>3, <2>4 DEF TypeOK, Row
  <2>6. Marks' BY <1>1, <2>2 DEF Solo, Marks
  <2>7. proc'[p] = x => Pass(p)'
    <3> HIDE DEF x
    <3>1. ASSUME proc'[p] = x PROVE Unforgotten(p)'
      BY <1>1, <2>3, <2>5, <3>1 DEF Unforgotten
    <3>2. x.at <= day BY <2>3, Integral
    <3> QED BY <1>1, <2>3, <3>1, <3>2 DEF Pass
  <2> QED BY <1>1, <1>2, <1>4, <2>6, <2>7, SoloStep
<1> QED BY <1>3, <1>4, OneOffFacts

LEMMA ReconcileSolo ==
    ASSUME TypeOK, Solo, NEW p \in Proc, Reconcile(p)
    PROVE  Solo'
<1>1. /\ UNCHANGED <<world, files>> /\ UNCHANGED <<day, emitted, ledger>>
      /\ proc[p] \in Local /\ proc[p].phase = "reconcile" /\ Pass(p)
  BY ReconcileFacts DEF files, world, TypeOK, Solo
<1>2. \A q \in Proc : q # p => proc[q].phase = "idle" BY <1>1, OthersIdle
<1>3. CASE Becomes(p, IdleProc) /\ UNCHANGED history
  <2>1. Marks' BY <1>1, <1>3 DEF Solo, Marks, history
  <2>2. proc'[p] = IdleProc => Pass(p)'
    BY <1>1, Integral, IdleLocal DEF Pass, Unforgotten, IdleProc
  <2> QED BY <1>1, <1>2, <1>3, <2>1, <2>2, IdleLocal, SoloStep
<1>4. ASSUME NEW result \in Results, Post({Notice}, result, day),
             noticed' = IF Arrives(result) THEN noticed \cup Failures(Backlog(p)) ELSE noticed,
             Becomes(p, AfterNotice(p, result)), AfterNotice(p, result) \in Local
      PROVE  Solo'
  <2> DEFINE x == AfterNotice(p, result)
  <2>1. {Notice} \subseteq Id /\ day \in Days /\ Notice[1] \notin Key
    BY KeyIds DEF TypeOK, Notice, OneOff
  <2>2. /\ posted \subseteq posted' /\ (result \in {"ok", "lost"} => Notice \in posted')
        /\ \A k \in Key : lastPost'[k] = lastPost[k]
    <3>1. \A k \in Key : ~\E j \in {Notice} : j[1] = k BY <2>1
    <3>2. /\ posted \subseteq posted' /\ (result \in {"ok", "lost"} => {Notice} \subseteq posted')
          /\ \A k \in Key : \/ lastPost'[k] = lastPost[k]
                            \/ lastPost'[k] = day /\ \E j \in {Notice} : j[1] = k
      <4> DEFINE ids == {Notice}
      <4>1. ids \in SUBSET Id /\ Post(ids, result, day) BY <1>4, <2>1
      <4> HIDE DEF ids
      <4>2. /\ posted \subseteq posted' /\ (result \in {"ok", "lost"} => ids \subseteq posted')
            /\ \A k \in Key : \/ lastPost'[k] = lastPost[k]
                              \/ lastPost'[k] = day /\ \E j \in ids : j[1] = k
        BY <2>1, <4>1, PostType
      <4> QED BY <4>2 DEF ids
    <3> QED BY <3>1, <3>2
  <2>3. /\ \A j \in Id : x.rows[j] = IF j \in Forgotten(result, Failures(Backlog(p))) THEN "none"
                                     ELSE IF j = Notice THEN StatusOf(result, FALSE)
                                     ELSE Backlog(p)[j]
        /\ x.phase = "notice" /\ x.at = proc[p].at /\ x.asOf = proc[p].asOf
        /\ x.kept = proc[p].kept /\ x.events = proc[p].events
    BY <1>1 DEF AfterNotice, Local
  <2>4. /\ StatusOf(result, FALSE) \in {"DELIVERED", "DELIVERY_FAILED", "NOT_CONFIGURED"}
        /\ StatusOf(result, FALSE) = "DELIVERED" => result = "ok"
    BY StatusType
  <2>5. \A j \in Id : ledger[j] = "DELIVERY_FAILED"
          => Backlog(p)[j] \in {"DELIVERY_FAILED", "NOT_CONFIGURED"} \/ j \in posted \cup noticed
    BY <1>1 DEF Backlog, Pass, Unforgotten
  <2>6. \A j \in Forgotten(result, Failures(Backlog(p))) : j \in noticed'
    BY <1>4 DEF Forgotten, Arrives
  <2>7. noticed \subseteq noticed' BY <1>4
  <2>8. \A j \in Id : ledger[j] = "DELIVERY_FAILED"
          => x.rows[j] \in {"DELIVERY_FAILED", "NOT_CONFIGURED"} \/ j \in posted' \cup noticed'
    <3> HIDE DEF x
    <3> QED BY <2>2, <2>3, <2>4, <2>5, <2>6, <2>7
  <2>9. Marks' BY <1>1, <2>2 DEF Solo, Marks
  <2>10. proc'[p] = x => Pass(p)'
    <3> HIDE DEF x
    <3> QED BY <1>1, <2>3, <2>8 DEF Pass, Unforgotten
  <2> QED BY <1>1, <1>2, <1>4, <2>9, <2>10, SoloStep
<1> QED BY <1>3, <1>4, ReconcileFacts

LEMMA CrashSolo ==
    ASSUME TypeOK, Solo, NEW p \in Proc, Crash(p)
    PROVE  Solo'
<1>1. /\ proc[p].phase # "idle" /\ Becomes(p, IdleProc)
      /\ UNCHANGED <<world, files, history>> /\ UNCHANGED <<day, emitted, lastPost>>
  BY DEF Crash, world, files, history
<1>2. Marks' BY <1>1 DEF Solo, Marks
<1>3. proc'[p] = IdleProc => Pass(p)' BY <1>1, Integral, IdleLocal DEF Pass, Unforgotten, IdleProc
<1> QED BY <1>1, <1>2, <1>3, IdleLocal, OthersIdle, SoloStep

LEMMA NextDaySolo == ASSUME TypeOK, Solo, NextDay PROVE Solo'
<1>1. /\ day' = day + 1 /\ UNCHANGED <<emitted, ledger, proc, posted, lastPost, noticed>>
  BY DEF NextDay, files, history
<1>2. Marks'
  <2>1. \A k \in Key : emitted[k] \in Int /\ emitted[k] <= day BY Integral DEF Solo, Marks
  <2>2. \A k \in Key : emitted[k] <= day + 1 BY <2>1, Integral
  <2> QED BY <1>1, <2>2 DEF Solo, Marks
<1>3. Apart' BY <1>1 DEF Solo, Apart
<1>4. ASSUME NEW p \in Proc PROVE Pass(p)'
  <2>1. Pass(p) BY DEF Solo
  <2>2. proc[p].at <= day + 1 BY <2>1, Integral DEF Pass
  <2>3. proc[p].phase = "emitted" => \A k \in Key : proc[p].emitted[k] <= day + 1
    BY <2>1, Integral DEF Pass
  <2>4. Unforgotten(p)' BY <1>1, <2>1 DEF Pass, Unforgotten
  <2>5. \A i : Due(p, i)' <=> Due(p, i) BY <1>1 DEF Due
  <2> QED BY <1>1, <2>1, <2>2, <2>3, <2>4, <2>5 DEF Pass, Settled
<1> QED BY <1>2, <1>3, <1>4 DEF Solo

LEMMA NextSolo == "overlap" \notin Env /\ TypeOK /\ Solo /\ [Next]_vars => Solo'
<1>1. ASSUME Solo, UNCHANGED vars PROVE Solo'
  BY <1>1 DEF Solo, Apart, Marks, Pass, Due, Settled, Unforgotten, vars, world, files, history
<1> QED BY <1>1, NextDaySolo, ObserveSolo, FlushSolo, PublishSolo, SendSolo, SaveSolo, OneOffSolo,
           ReconcileSolo, CrashSolo DEF Next, Step

LEMMA SoloInvariant == "overlap" \notin Env => (Spec => [](TypeOK /\ Solo))
<1>1. "overlap" \notin Env /\ TypeOK /\ Solo /\ [Next]_vars => (TypeOK /\ Solo)'
  BY NextType, NextSolo
<1> SUFFICES ASSUME "overlap" \notin Env PROVE Spec => [](TypeOK /\ Solo) OBVIOUS
<1>2. TypeOK /\ Solo /\ [Next]_vars => (TypeOK /\ Solo)' BY <1>1
<1> QED BY <1>2, TypeInit, SoloInit, PTL DEF Spec

LEMMA SentFacts ==
    ASSUME Solo, NEW p \in Proc, NEW i \in Sent(p)
    PROVE  Due(p, i) /\ ~Settled(ledger, i)
BY DEF Solo, Pass, Sent

\* Two passes that post the same finding are a cooldown apart, as long as no
\* pass starts while another one runs.
THEOREM CooldownHolds == "overlap" \notin Env => (Spec => CooldownKept)
<1> DEFINE A == \A p \in Proc : \A i \in Sent(p) :
                  lastPost[i[1]] # Never => proc[p].at - lastPost[i[1]] >= Cooldown(i[1])
<1> SUFFICES ASSUME "overlap" \notin Env PROVE Spec => CooldownKept OBVIOUS
<1>1. Solo => [A]_vars BY SentFacts DEF Due
<1>2. [](TypeOK /\ Solo) => [][A]_vars BY <1>1, PTL
<1>3. CooldownKept <=> [][A]_vars BY DEF CooldownKept
<1> QED BY <1>2, <1>3, SoloInvariant

\* What the ledger file settled is never sent again, as long as no pass starts
\* while another one runs.
THEOREM SettledIsOver == "overlap" \notin Env => (Spec => SettledNeverSent)
<1> DEFINE A == \A p \in Proc : \A i \in Sent(p) :
                  ledger[i] \notin {"DELIVERED", "BASELINE_NOT_SENT"}
<1> SUFFICES ASSUME "overlap" \notin Env PROVE Spec => SettledNeverSent OBVIOUS
<1>1. Solo => [A]_vars BY SentFacts DEF Settled
<1>2. [](TypeOK /\ Solo) => [][A]_vars BY <1>1, PTL
<1>3. SettledNeverSent <=> [][A]_vars BY DEF SettledNeverSent
<1> QED BY <1>2, <1>3, SoloInvariant

LEMMA FailureStep ==
    ASSUME TypeOK, Solo, [Next]_vars, NEW i \in Id, ledger[i] = "DELIVERY_FAILED",
           ledger'[i] \notin {"DELIVERY_FAILED", "NOT_CONFIGURED"}
    PROVE  i \in posted \cup noticed
<1>1. ~UNCHANGED ledger OBVIOUS
<1>2. PICK p \in Proc : Publish(p) \/ Save(p) \/ SaveNotice(p)
  BY <1>1, SendFacts, OneOffFacts, ReconcileFacts
     DEF Next, Step, NextDay, Observe, FlushEmitted, FlushMarket, Crash, vars, files
<1>3. proc[p] \in Local /\ Pass(p) /\ ledger \in Row BY DEF TypeOK, Solo
<1>4. CASE Save(p) \/ SaveNotice(p)
  <2>1. ledger' \in Saved(proc[p].rows) /\ proc[p].phase \in {"send", "notice"}
    BY <1>4 DEF Save, SaveNotice
  <2>2. \/ proc[p].rows[i] \in {"DELIVERY_FAILED", "NOT_CONFIGURED"}
        \/ i \in posted \cup noticed
    BY <1>3, <2>1 DEF Pass, Unforgotten
  <2> QED BY <1>3, <2>1, <2>2, SavedFacts DEF Local
<1>5. CASE Publish(p)
  <2> DEFINE rows == [j \in Id |-> IF j \in proc[p].kept THEN "BASELINE_NOT_SENT" ELSE ledger[j]]
  <2>1. ledger' \in Saved(rows) /\ \A j \in MarketIds : ledger[j] = "none"
    BY <1>1, <1>5 DEF Publish
  <2>2. i \notin proc[p].kept
    BY <1>3, <2>1 DEF Local, MarketIds
  <2>3. rows \in Row /\ rows[i] = "DELIVERY_FAILED"
    <3>1. \A j \in Id : (IF j \in proc[p].kept THEN "BASELINE_NOT_SENT" ELSE ledger[j]) \in Status
      BY <1>3 DEF Row, Status
    <3> QED BY <2>2, <3>1 DEF Row
  <2> HIDE DEF rows
  <2> QED BY <2>1, <2>3, SavedFacts
<1> QED BY <1>2, <1>4, <1>5

\* No failed delivery leaves the ledger file before it was delivered or
\* summarised, as long as no pass starts while another one runs.
THEOREM FailuresHold == "overlap" \notin Env => (Spec => FailuresKept)
<1> DEFINE A == \A i \in Id : ledger[i] = "DELIVERY_FAILED" /\ ledger'[i] \notin {"DELIVERY_FAILED", "NOT_CONFIGURED"}
                     => i \in posted \cup noticed
<1> SUFFICES ASSUME "overlap" \notin Env PROVE Spec => FailuresKept OBVIOUS
<1>1. TypeOK /\ Solo /\ [Next]_vars => [A]_vars BY FailureStep
<1>2. [][Next]_vars /\ [](TypeOK /\ Solo) => [][A]_vars BY <1>1, PTL
<1>3. FailuresKept <=> [][A]_vars BY DEF FailuresKept
<1> QED BY <1>2, <1>3, SoloInvariant DEF Spec
=============================================================================
