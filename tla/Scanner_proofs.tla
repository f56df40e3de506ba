--------------------------- MODULE Scanner_proofs ---------------------------
(***************************************************************************)
(* Proofs about Scanner, for any number of invocations, any watchlist and  *)
(* any thresholds.  The invariant has six parts: the types, the lease (a   *)
(* cycle whose lease lasts holds its run, and who is about to take one saw *)
(* none but those taken since), the number of cycles, the rows of an       *)
(* identity with those that evaluations in hand will add, what the policy  *)
(* remembers of what the reader was told, and since when.                  *)
(***************************************************************************)
EXTENDS Scanner, SequenceTheorems, FiniteSetTheorems, TLAPS

Busy == {"claim", "scan", "write", "notify", "publish", "save", "expire", "complete", "failed"}
Telling == {"write", "notify", "publish", "save"}

Note == [event : {"none", "live", "over"}, score : Score \union {0}, next : State]

Types ==
    /\ run \in [Proc -> {"none", "RUNNING", "COMPLETED", "FAILED"}]
    /\ lease \in [Proc -> (-Pause) .. Lease] /\ since \in [Proc -> 0 .. Late]
    /\ rows \in [Slot -> Row] /\ state \in [Symbol -> State]
    /\ pc \in [Proc -> Busy \union {"idle"}] /\ at \in [Proc -> Nat]
    /\ \A p \in Proc : Watchlist # <<>> => at[p] \in 1 .. Len(Watchlist)
    /\ \A p \in Proc : pc[p] \in Telling => Watchlist # <<>>
    /\ draft \in [Proc -> Draft]
    /\ \A p \in Proc : pc[p] = "write"
         => draft[p].setup \in Setup /\ (draft[p].row = {} => draft[p].to \in Live)
    /\ note \in [Proc -> Note]
    /\ \A p \in Proc : pc[p] = "notify" => note[p].score \in Score
    /\ heard \in [Symbol -> [news : {"nothing", "live", "over"}, age : 0 .. Cooldown]]
    /\ faults \in Nat

Leases ==
    /\ \A p \in Cycling : lease[p] > 0 => run[p] = "RUNNING"
    /\ \A p \in Proc : pc[p] = "idle" => since[p] = 0
    /\ \A p \in Proc : pc[p] = "claim" => since[p] <= Pause
    /\ \A p \in Cycling, q \in Proc :
         pc[q] = "claim" /\ lease[p] > 0 => since[p] - since[q] <= Pause
    /\ LeaseProtects

Crowd ==
    /\ crowd \in Nat /\ crowd <= Cardinality(Proc)
    /\ Cardinality(Cycling) <= crowd

\* The evaluations in hand of an identity, the rows it has or will be written to,
\* and those that will add one.
Writing(s, x) == {p \in Proc : pc[p] = "write" /\ Sym(p) = s /\ draft[p].setup = x}
Touched(s, x) == Found(s, x) \union UNION {draft[p].row : p \in Writing(s, x)}
Creating(s, x) == {p \in Writing(s, x) : draft[p].row = {}}

Counted(s, x) ==
    IsFiniteSet(Touched(s, x)) /\ Cardinality(Touched(s, x)) + Cardinality(Creating(s, x)) <= crowd
Duplicates == \A s \in Symbol, x \in Setup : Counted(s, x)

Words ==
    /\ \A s \in Symbol : state[s].phase # "none" => heard[s].news # "nothing"
    /\ \A p \in Proc : pc[p] = "publish" =>
         /\ note[p].event \in {"live", "over"}
         /\ note[p].event = "live" <=> note[p].next.phase # "none"
         /\ note[p].event = "over" => heard[Sym(p)].news # "nothing"
    /\ \A p \in Proc : pc[p] = "save" /\ note[p].next.phase # "none"
         => heard[Sym(p)].news # "nothing"

Calm == calm =>
    /\ \A s \in Symbol : (\A p \in Proc : pc[p] = "save" => Sym(p) # s)
         => (state[s].phase # "none" <=> heard[s].news = "live")
    /\ \A p \in Proc : pc[p] = "save"
         => (note[p].next.phase # "none" <=> heard[Sym(p)].news = "live")

\* The policy never takes the last message for older than it is.
Ages == calm =>
    /\ \A s \in Symbol : (\A p \in Proc : pc[p] = "save" => Sym(p) # s)
         => state[s].age <= heard[s].age
    /\ \A p \in Proc : pc[p] = "save" => note[p].next.age <= heard[Sym(p)].age

IInv == Types /\ Leases /\ Crowd /\ Duplicates /\ Words /\ Calm /\ Ages

-----------------------------------------------------------------------------
(* The operators *)

LEMMA Constants ==
    /\ Threshold \in Nat /\ StrongAt \in Nat /\ MinChange \in Nat /\ Cooldown \in Nat
    /\ Expiry \in Nat /\ Late \in Nat /\ Lease \in Nat /\ Lease > 0
    /\ Pause \in Nat /\ Pause <= Late /\ IsFiniteSet(Proc)
    /\ Score \subseteq Nat /\ Threshold <= StrongAt /\ Oldest \in Nat /\ Late < Oldest
    /\ Watchlist \in Seq(STRING) /\ Len(Watchlist) \in Nat
    /\ DOMAIN Watchlist = 1 .. Len(Watchlist)
    /\ Watchlist = <<>> => Len(Watchlist) = 0
<1>1. Watchlist \in Seq(STRING) BY ScannerAssumption
<1>2. Len(Watchlist) \in Nat /\ DOMAIN Watchlist = 1 .. Len(Watchlist)
  BY <1>1, LenProperties
<1>3. Watchlist = <<>> => Len(Watchlist) = 0 BY EmptySeq
<1> QED BY <1>1, <1>2, <1>3, ScannerAssumption DEF Oldest

LEMMA Blank ==
    /\ NoState \in State /\ NoNote \in Note /\ NoDraft \in Draft /\ Free \in Row
    /\ NoNote.event = "none" /\ NoNote.next.phase = "none" /\ Free.life = "free"
<1>1. NoState \in State /\ NoState.phase = "none"
  BY Constants DEF NoState, State, Phase
<1>2. NoNote \in Note /\ NoNote.event = "none" /\ NoNote.next = NoState
  BY <1>1 DEF NoNote, Note
<1>3. Free \in Row /\ Free.life = "free" BY Constants DEF Free, Row
<1>4. NoDraft \in Draft BY DEF NoDraft, Draft
<1> QED BY <1>1, <1>2, <1>3, <1>4

LEMMA UpType ==
    ASSUME NEW cap \in Nat, NEW n \in 0 .. cap
    PROVE  Up(n, cap) \in 0 .. cap
BY DEF Up

LEMMA SymType ==
    ASSUME Types, NEW p \in Proc, pc[p] \in Telling \/ Watchlist # <<>>
    PROVE  at[p] \in DOMAIN Watchlist /\ Sym(p) \in Symbol
<1>1. at[p] \in DOMAIN Watchlist BY Constants DEF Types
<1> QED BY <1>1 DEF Sym, Symbol

LEMMA NextLifeType ==
    ASSUME NEW life \in Live \union {"new"}, NEW score \in Nat, NEW actionable \in BOOLEAN
    PROVE  NextLife(life, score, actionable) \in Live \union {"INVALIDATED"}
<1>1. Threshold \in Nat /\ StrongAt \in Nat /\ Threshold <= StrongAt BY Constants
<1>2. CASE life = "new" BY <1>1, <1>2 DEF NextLife, Live
<1>3. CASE life = "DISCOVERED" BY <1>1, <1>3 DEF NextLife, Live
<1>4. CASE life = "QUALIFIED" BY <1>1, <1>4 DEF NextLife, Live
<1>5. CASE life = "STRONG" BY <1>1, <1>5 DEF NextLife, Live
<1>6. CASE life = "WEAKENED" BY <1>1, <1>6 DEF NextLife, Live
<1> QED BY <1>2, <1>3, <1>4, <1>5, <1>6 DEF Live

\* What the policy decides: it speaks of a lapse only to end what it
\* remembers, and keeps silent only within a phase.
LEMMA DecideType ==
    ASSUME NEW st \in State, NEW score \in Score
    PROVE  LET d == Decide(st, score)
           IN  /\ d \in Note
               /\ d.event = "live" => d.next.phase # "none"
               /\ d.event = "over" => d.next.phase = "none" /\ st.phase # "none"
               /\ d.event = "none" => (d.next.phase # "none" <=> st.phase # "none")
<1> DEFINE told(e) == Told(score, e)
           silent == Silent(st, score)
           d == Decide(st, score)
<1>1. PhaseFor(score) \in Phase BY DEF PhaseFor, Phase
<1>2. st.age \in 0 .. Cooldown /\ 0 \in 0 .. Cooldown BY Constants DEF State
<1>3. [phase |-> PhaseFor(score), score |-> score, age |-> 0] \in State
  BY <1>1, <1>2 DEF State
<1>4. [phase |-> PhaseFor(score), score |-> score, age |-> st.age] \in State
  BY <1>1, <1>2 DEF State
<1>5. \A e \in {"live", "over"} :
        told(e) \in Note /\ told(e).event = e /\ told(e).next.phase = PhaseFor(score)
  BY <1>3 DEF Told, Note
<1>6. silent \in Note /\ silent.event = "none" /\ silent.next.phase = PhaseFor(score)
  BY <1>4 DEF Silent, Note
<1>7. Repeat(st, score) = silent \/ Repeat(st, score) = told("live")
  BY DEF Repeat
<1> HIDE DEF told, silent
<1>8. CASE PhaseFor(score) = "none" /\ st.phase = "none"
  <2>1. d = silent BY <1>8 DEF Decide, silent
  <2> QED BY <2>1, <1>6, <1>8
<1>9. CASE PhaseFor(score) = "none" /\ st.phase # "none"
  <2>1. d = told("over") BY <1>9 DEF Decide, told
  <2> QED BY <2>1, <1>5, <1>9
<1>10. CASE PhaseFor(score) # "none" /\ st.phase = "none"
  <2>1. d = told("live") BY <1>10, <1>1 DEF Decide, told, Phase
  <2> QED BY <2>1, <1>5, <1>10
<1>11. CASE PhaseFor(score) # "none" /\ st.phase # "none"
  <2>1. d = told("live") \/ d = Repeat(st, score)
    BY <1>11, <1>1 DEF Decide, told, Phase
  <2>2. d = told("live") \/ d = silent BY <2>1, <1>7
  <2> QED BY <2>2, <1>5, <1>6, <1>11
<1> QED BY <1>8, <1>9, <1>10, <1>11

LEMMA AdvanceType ==
    ASSUME Types, NEW p \in Proc, Watchlist # <<>>, Advance(p)
    PROVE  /\ pc' \in [Proc -> Busy \union {"idle"}] /\ at' \in [Proc -> Nat]
           /\ \A q \in Proc : at'[q] \in 1 .. Len(Watchlist)
           /\ pc'[p] \in {"scan", "expire"} /\ \A q \in Proc : q # p => pc'[q] = pc[q]
           /\ \A q \in Proc : q # p => at'[q] = at[q]
<1>1. /\ pc' = [pc EXCEPT ![p] = IF at[p] < Len(Watchlist) THEN "scan" ELSE "expire"]
      /\ at' = [at EXCEPT ![p] = IF at[p] < Len(Watchlist) THEN at[p] + 1 ELSE at[p]]
  BY DEF Advance
<1>2. at \in [Proc -> Nat] /\ pc \in [Proc -> Busy \union {"idle"}] BY DEF Types
<1>3. \A q \in Proc : at[q] \in 1 .. Len(Watchlist) BY DEF Types
<1>4. Len(Watchlist) \in Nat BY Constants
<1>5. pc'[p] \in {"scan", "expire"} /\ \A q \in Proc : q # p => pc'[q] = pc[q]
  BY <1>1, <1>2
<1>6. pc' \in [Proc -> Busy \union {"idle"}] BY <1>1, <1>2 DEF Busy
<1>7. (IF at[p] < Len(Watchlist) THEN at[p] + 1 ELSE at[p]) \in 1 .. Len(Watchlist)
  BY <1>3, <1>4
<1>8. at' \in [Proc -> Nat] /\ \A q \in Proc : at'[q] \in 1 .. Len(Watchlist)
  BY <1>1, <1>2, <1>3, <1>7
<1> QED BY <1>1, <1>2, <1>5, <1>6, <1>8

\* What an evaluation finds and decides.
LEMMA FindDraft ==
    ASSUME Types, NEW p \in Proc, NEW x \in Setup, NEW score \in Score,
           NEW actionable \in BOOLEAN, Find(p, x, score, actionable)
    PROVE  /\ draft' = [draft EXCEPT ![p] = draft'[p]] /\ draft'[p] \in Draft
           /\ draft'[p].setup = x
           /\ \/ Found(Sym(p), x) = {} /\ draft'[p].row = {} /\ draft'[p].to \in Live
              \/ draft'[p].row # {} /\ draft'[p].row \subseteq Found(Sym(p), x)
<1> DEFINE Seen(row, life) ==
              LET next == NextLife(life, score, actionable)
                  tell == Changed(life, next) /\ next \in {"QUALIFIED", "STRONG", "INVALIDATED"}
              IN  [row |-> row, setup |-> x, to |-> IF next = life THEN "same" ELSE next,
                   news |-> IF tell THEN score ELSE -1]
<1>0. draft \in [Proc -> Draft] /\ \A k \in Slot : rows[k] \in Row BY DEF Types
<1>1. \A row \in {{}} \union {{k} : k \in Slot}, life \in Live \union {"new"} :
        /\ Seen(row, life) \in Draft /\ Seen(row, life).row = row /\ Seen(row, life).setup = x
        /\ life = "new" => Seen(row, life).to \in Live
  <2> TAKE row \in {{}} \union {{k} : k \in Slot}, life \in Live \union {"new"}
  <2> DEFINE next == NextLife(life, score, actionable)
  <2>1. next \in Live \union {"INVALIDATED"} BY NextLifeType, Constants
  <2>2. life = "new" => next \in Live
    BY Constants DEF NextLife, Live
  <2> HIDE DEF next
  <2>3. (IF next = life THEN "same" ELSE next) \in Live \union {"same", "INVALIDATED"} BY <2>1
  <2>4. life = "new" => (IF next = life THEN "same" ELSE next) \in Live BY <2>2 DEF Live
  <2> QED BY <2>3, <2>4 DEF next, Draft
<1> HIDE DEF Seen
<1>2. CASE Found(Sym(p), x) = {} /\ draft' = [draft EXCEPT ![p] = Seen({}, "new")]
  <2>1. draft'[p] = Seen({}, "new") BY <1>0, <1>2
  <2>2. /\ Seen({}, "new") \in Draft /\ Seen({}, "new").row = {}
        /\ Seen({}, "new").setup = x /\ Seen({}, "new").to \in Live
    BY <1>1
  <2>3. draft' = [draft EXCEPT ![p] = draft'[p]] BY <1>2, <2>1
  <2> QED BY <1>2, <2>1, <2>2, <2>3
<1>3. ASSUME NEW k \in Newest(Sym(p), x), draft' = [draft EXCEPT ![p] = Seen({k}, rows[k].life)]
      PROVE  /\ draft' = [draft EXCEPT ![p] = draft'[p]] /\ draft'[p] \in Draft
             /\ draft'[p].setup = x /\ draft'[p].row # {} /\ draft'[p].row \subseteq Found(Sym(p), x)
  <2>1. k \in Found(Sym(p), x) BY DEF Newest
  <2>2. k \in Slot /\ rows[k].life \in Live BY <2>1, <1>0 DEF Found, Active, Row
  <2>3. draft'[p] = Seen({k}, rows[k].life) BY <1>0, <1>3
  <2>4. /\ Seen({k}, rows[k].life) \in Draft /\ Seen({k}, rows[k].life).row = {k}
        /\ Seen({k}, rows[k].life).setup = x
    BY <1>1, <2>2
  <2>5. draft' = [draft EXCEPT ![p] = draft'[p]] BY <1>3, <2>3
  <2> QED BY <2>1, <2>3, <2>4, <2>5
<1>4. \/ Found(Sym(p), x) = {} /\ draft' = [draft EXCEPT ![p] = Seen({}, "new")]
      \/ \E k \in Newest(Sym(p), x) : draft' = [draft EXCEPT ![p] = Seen({k}, rows[k].life)]
  BY DEF Find, Seen
<1> QED BY <1>2, <1>3, <1>4

\* The row an evaluation writes: one it found, or one it adds.
LEMMA WriteRow ==
    ASSUME Types, NEW p \in Proc, Write(p)
    PROVE  \E k \in Slot, row \in Row :
             /\ rows' = [rows EXCEPT ![k] = row]
             /\ IF draft[p].row = {} THEN k \notin Active ELSE draft[p].row = {k}
             /\ \/ row.sym = Sym(p) /\ row.setup = draft[p].setup
                \/ row.life = "free"
                \/ row.life = rows[k].life /\ row.sym = rows[k].sym /\ row.setup = rows[k].setup
<1> DEFINE d == draft[p]
           new == [sym |-> Sym(p), setup |-> d.setup, life |-> d.to, age |-> since[p]]
           row == IF d.to = "INVALIDATED" THEN Free ELSE new
<1>0. /\ pc[p] = "write" /\ d \in Draft /\ \A k \in Slot : rows[k] \in Row
      /\ since[p] \in 0 .. Late
  BY DEF Types, Write
<1>1. Sym(p) \in Symbol /\ since[p] \in 0 .. Oldest
  BY <1>0, SymType, Constants DEF Telling
<1>2. d.to # "same" => /\ row \in Row
                       /\ row.life = "free" \/ (row.sym = Sym(p) /\ row.setup = d.setup)
  BY <1>0, <1>1, Blank DEF Draft, Row
<1>3. \A k \in Slot : [rows[k] EXCEPT !.age = since[p]] \in Row BY <1>0, <1>1 DEF Row
<1>4. CASE d.row = {} /\ Unused # {} /\ rows' = [rows EXCEPT ![CHOOSE k \in Unused : TRUE] = row]
  <2> DEFINE k == CHOOSE k \in Unused : TRUE
  <2>1. k \in Unused BY <1>4
  <2>2. k \in Slot /\ k \notin Active BY <2>1 DEF Unused
  <2>3. d.to # "same" BY <1>0, <1>4 DEF Types, Live
  <2> HIDE DEF k, row, d
  <2>4. rows' = [rows EXCEPT ![k] = row] BY <1>4 DEF k
  <2> QED BY <2>2, <2>3, <2>4, <1>2, <1>4 DEF d
<1>5. ASSUME NEW k \in d.row,
             rows' = [rows EXCEPT ![k] = IF d.to # "same" THEN row
                                         ELSE IF rows[k].life = "free" THEN rows[k]
                                         ELSE [rows[k] EXCEPT !.age = since[p]]]
      PROVE  \E j \in Slot, made \in Row :
               /\ rows' = [rows EXCEPT ![j] = made] /\ d.row = {j}
               /\ \/ made.sym = Sym(p) /\ made.setup = d.setup
                  \/ made.life = "free"
                  \/ made.life = rows[j].life /\ made.sym = rows[j].sym
                     /\ made.setup = rows[j].setup
  <2>1. k \in Slot /\ d.row = {k} BY <1>0, <1>5 DEF Draft
  <2>2. /\ [rows[k] EXCEPT !.age = since[p]].life = rows[k].life
        /\ [rows[k] EXCEPT !.age = since[p]].sym = rows[k].sym
        /\ [rows[k] EXCEPT !.age = since[p]].setup = rows[k].setup
    BY <2>1, <1>0 DEF Row
  <2> HIDE DEF row, d
  <2>3. CASE d.to # "same"
    <3>1. rows' = [rows EXCEPT ![k] = row] BY <1>5, <2>3
    <3> QED BY <3>1, <2>1, <2>3, <1>2
  <2>4. CASE d.to = "same" /\ rows[k].life = "free"
    <3>1. rows' = [rows EXCEPT ![k] = rows[k]] BY <1>5, <2>4
    <3> QED BY <3>1, <2>1, <1>0
  <2>5. CASE d.to = "same" /\ rows[k].life # "free"
    <3>1. rows' = [rows EXCEPT ![k] = [rows[k] EXCEPT !.age = since[p]]] BY <1>5, <2>5
    <3> QED BY <3>1, <2>1, <2>2, <1>3
  <2> QED BY <2>3, <2>4, <2>5
<1>6. \/ d.row = {} /\ Unused # {} /\ rows' = [rows EXCEPT ![CHOOSE k \in Unused : TRUE] = row]
      \/ \E k \in d.row :
            rows' = [rows EXCEPT ![k] = IF d.to # "same" THEN row
                                        ELSE IF rows[k].life = "free" THEN rows[k]
                                        ELSE [rows[k] EXCEPT !.age = since[p]]]
  BY DEF Write
<1> HIDE DEF row, d
<1>7. CASE \E k \in d.row :
             rows' = [rows EXCEPT ![k] = IF d.to # "same" THEN row
                                         ELSE IF rows[k].life = "free" THEN rows[k]
                                         ELSE [rows[k] EXCEPT !.age = since[p]]]
  BY <1>5, <1>7 DEF d
<1> QED BY <1>4, <1>6, <1>7

-----------------------------------------------------------------------------
(* Every step keeps the invariant *)

LEMMA TypesInit == Init => Types
<1> SUFFICES ASSUME Init PROVE Types OBVIOUS
<1>1. /\ run \in [Proc -> {"none", "RUNNING", "COMPLETED", "FAILED"}]
      /\ lease \in [Proc -> (-Pause) .. Lease] /\ since \in [Proc -> 0 .. Late]
      /\ pc \in [Proc -> Busy \union {"idle"}] /\ at \in [Proc -> Nat] /\ faults \in Nat
  BY Constants DEF Init
<1>2. /\ rows \in [Slot -> Row] /\ state \in [Symbol -> State] /\ note \in [Proc -> Note]
      /\ draft \in [Proc -> Draft]
  BY Blank DEF Init
<1>3. heard \in [Symbol -> [news : {"nothing", "live", "over"}, age : 0 .. Cooldown]]
  BY Constants DEF Init
<1>4. \A p \in Proc : Watchlist # <<>> => at[p] \in 1 .. Len(Watchlist)
  <2>1. Watchlist # <<>> => Len(Watchlist) >= 1 BY Constants, EmptySeq
  <2> QED BY <2>1, Constants DEF Init
<1>5. \A p \in Proc : pc[p] = "idle" BY DEF Init
<1> QED BY <1>1, <1>2, <1>3, <1>4, <1>5 DEF Types, Telling

LEMMA TypesStep == ASSUME IInv, [Next]_vars PROVE Types'
<1>0. Types /\ Leases BY DEF IInv
<1>1. ASSUME NEW p \in Proc, Look(p) PROVE Types'
  <2>1. pc' \in [Proc -> Busy \union {"idle"}] /\ \A q \in Proc : pc'[q] \in Telling => pc'[q] = pc[q]
    BY <1>0, <1>1 DEF Look, Types, Busy, Telling
  <2> QED BY <1>0, <1>1, <2>1 DEF Look, Types, Telling, cycle
<1>2. ASSUME NEW p \in Proc, Skip(p) PROVE Types'
  <2>1. Watchlist # <<>> /\ Advance(p) BY <1>2 DEF Skip
  <2>2. /\ pc' \in [Proc -> Busy \union {"idle"}] /\ at' \in [Proc -> Nat]
        /\ \A q \in Proc : at'[q] \in 1 .. Len(Watchlist)
        /\ \A q \in Proc : pc'[q] \in {"write", "notify"} => pc'[q] = pc[q] /\ q # p
    BY <2>1, <1>0, AdvanceType
  <2>3. draft' \in [Proc -> Draft] /\ \A q \in Proc : q # p => draft'[q] = draft[q]
    BY <1>0, <1>2, Blank DEF Skip, Types
  <2> QED BY <1>0, <1>2, <2>1, <2>2, <2>3 DEF Skip, Types
<1>3. ASSUME NEW p \in Proc, NEW x \in Setup, NEW score \in Score, NEW actionable \in BOOLEAN,
             Find(p, x, score, actionable)
      PROVE  Types'
  <2>1. /\ pc' = [pc EXCEPT ![p] = "write"] /\ Watchlist # <<>>
        /\ UNCHANGED <<cycle, rows, state, note, heard, faults>>
    BY <1>3 DEF Find
  <2>2. /\ draft' = [draft EXCEPT ![p] = draft'[p]] /\ draft'[p] \in Draft
        /\ draft'[p].setup = x /\ (draft'[p].row = {} => draft'[p].to \in Live)
    BY <1>0, <1>3, FindDraft
  <2>3. draft' \in [Proc -> Draft] /\ \A q \in Proc : q # p => draft'[q] = draft[q]
    <3> DEFINE d == draft'[p]
    <3> HIDE DEF d
    <3>1. draft' = [draft EXCEPT ![p] = d] /\ d \in Draft BY <2>2 DEF d
    <3> QED BY <3>1, <1>0 DEF Types
  <2>4. /\ pc' \in [Proc -> Busy \union {"idle"}]
        /\ \A q \in Proc : q # p => pc'[q] = pc[q]
        /\ pc'[p] = "write"
    BY <1>0, <2>1 DEF Types, Busy
  <2>5. \A q \in Proc : pc'[q] = "write"
           => draft'[q].setup \in Setup /\ (draft'[q].row = {} => draft'[q].to \in Live)
    BY <1>0, <2>2, <2>3, <2>4 DEF Types
  <2> QED BY <1>0, <2>1, <2>3, <2>4, <2>5 DEF Types, cycle
<1>20. ASSUME NEW p \in Proc, Write(p) PROVE Types'
  <2>1. PICK k \in Slot, row \in Row : rows' = [rows EXCEPT ![k] = row]
    BY <1>0, <1>20, WriteRow
  <2>2. rows' \in [Slot -> Row] BY <2>1, <1>0 DEF Types
  <2> DEFINE n == [NoNote EXCEPT !.score = draft[p].news]
  <2>3. /\ UNCHANGED <<run, lease, since, state, heard, faults>> /\ Watchlist # <<>>
        /\ draft' = [draft EXCEPT ![p] = NoDraft] /\ pc[p] = "write"
        /\ \/ /\ draft[p].news # -1 /\ pc' = [pc EXCEPT ![p] = "notify"] /\ at' = at
              /\ note' = [note EXCEPT ![p] = n]
           \/ Advance(p) /\ note' = note
    BY <1>0, <1>20 DEF Write, Types, Telling
  <2>4. draft' \in [Proc -> Draft] /\ \A q \in Proc : q # p => draft'[q] = draft[q]
    BY <1>0, <2>3, Blank DEF Types
  <2>5. CASE Advance(p) /\ note' = note
    <3>1. /\ pc' \in [Proc -> Busy \union {"idle"}] /\ at' \in [Proc -> Nat]
          /\ \A q \in Proc : at'[q] \in 1 .. Len(Watchlist)
          /\ \A q \in Proc : pc'[q] \in {"write", "notify"} => pc'[q] = pc[q] /\ q # p
      BY <2>3, <2>5, <1>0, AdvanceType
    <3> QED BY <3>1, <2>2, <2>3, <2>4, <2>5, <1>0 DEF Types
  <2>6. CASE /\ draft[p].news # -1 /\ pc' = [pc EXCEPT ![p] = "notify"] /\ at' = at
             /\ note' = [note EXCEPT ![p] = n]
    <3>1. draft[p].news \in Score BY <1>0, <2>6 DEF Types, Draft
    <3>2. n \in Note /\ n.score \in Score BY <3>1, Blank DEF Note
    <3> HIDE DEF n
    <3>3. note' \in [Proc -> Note] /\ \A q \in Proc : pc'[q] = "notify" => note'[q].score \in Score
      BY <3>2, <2>6, <1>0 DEF Types
    <3>4. /\ pc' \in [Proc -> Busy \union {"idle"}]
          /\ \A q \in Proc : pc'[q] = "write" => pc[q] = "write" /\ q # p
      BY <2>6, <1>0 DEF Types, Busy
    <3> QED BY <3>3, <3>4, <2>2, <2>3, <2>4, <2>6, <1>0 DEF Types
  <2> HIDE DEF n
  <2> QED BY <2>3, <2>5, <2>6
<1>21. ASSUME NEW p \in Proc, Claim(p) PROVE Types'
  <2>1. /\ run' \in [Proc -> {"none", "RUNNING", "COMPLETED", "FAILED"}]
        /\ pc' \in [Proc -> Busy \union {"idle"}]
        /\ \A q \in Proc : pc'[q] \in Telling => pc'[q] = pc[q]
    BY <1>0, <1>21 DEF Claim, Types, Busy, Telling
  <2>2. Lease - since[p] \in (-Pause) .. Lease
    <3>1. since[p] \in Nat /\ since[p] <= Pause BY <1>0, <1>21, Constants DEF Claim, Leases, Types
    <3> QED BY <3>1, Constants
  <2>3. lease' \in [Proc -> (-Pause) .. Lease] BY <1>0, <1>21, <2>2 DEF Claim, Types
  <2> QED BY <1>0, <1>21, <2>1, <2>3 DEF Claim, Types, Telling
<1>4. ASSUME NEW p \in Proc, Consult(p) PROVE Types'
  <2> DEFINE d == Decide(state[Sym(p)], note[p].score)
  <2>1. state[Sym(p)] \in State /\ note[p].score \in Score /\ Watchlist # <<>>
    BY <1>0, <1>4, SymType DEF Consult, Types, Telling
  <2>2. d \in Note BY <2>1, DecideType
  <2>3. /\ note' = [note EXCEPT ![p] = d]
        /\ pc' = [pc EXCEPT ![p] = IF d.event = "none" THEN "save" ELSE "publish"]
        /\ UNCHANGED <<cycle, rows, state, draft, heard, faults>>
    BY <1>4 DEF Consult
  <2> HIDE DEF d
  <2>4. note' \in [Proc -> Note] /\ pc' \in [Proc -> Busy \union {"idle"}]
    BY <2>2, <2>3, <1>0 DEF Types, Busy
  <2>5. \A q \in Proc : /\ pc'[q] = "notify" => pc[q] = "notify" /\ note'[q] = note[q]
                        /\ pc'[q] = "write" => pc[q] = "write"
    BY <2>3, <1>0 DEF Types
  <2> QED BY <2>1, <2>3, <2>4, <2>5, <1>0 DEF Types, cycle
<1>5. ASSUME NEW p \in Proc, Deliver(p) PROVE Types'
  <2>1. Sym(p) \in Symbol /\ note[p] \in Note /\ note[p].next \in State /\ Watchlist # <<>>
    BY <1>0, <1>5, SymType DEF Deliver, Types, Telling, Note
  <2>2. [news |-> note[p].event, age |-> note[p].next.age]
            \in [news : {"nothing", "live", "over"}, age : 0 .. Cooldown]
    <3>1. note[p].event \in {"none", "live", "over"} /\ note[p].next.age \in 0 .. Cooldown
      BY <2>1 DEF Note, State
    <3>2. note[p].event # "none" BY <1>5 DEF IInv, Words, Deliver
    <3> QED BY <3>1, <3>2
  <2>3. heard' \in [Symbol -> [news : {"nothing", "live", "over"}, age : 0 .. Cooldown]]
    BY <2>2, <1>0, <1>5 DEF Deliver, Types
  <2>4. /\ pc' \in [Proc -> Busy \union {"idle"}]
        /\ \A q \in Proc : pc'[q] \in {"write", "notify"} => pc'[q] = pc[q]
    BY <1>0, <1>5 DEF Deliver, Types, Busy
  <2> QED BY <2>1, <2>3, <2>4, <1>0, <1>5 DEF Deliver, Types, cycle
<1>6. ASSUME NEW p \in Proc, Drop(p) PROVE Types'
  <2>1. Watchlist # <<>> /\ Advance(p) BY <1>0, <1>6 DEF Drop, Types, Telling
  <2>2. /\ pc' \in [Proc -> Busy \union {"idle"}] /\ at' \in [Proc -> Nat]
        /\ \A q \in Proc : at'[q] \in 1 .. Len(Watchlist)
        /\ \A q \in Proc : pc'[q] \in {"write", "notify"} => pc'[q] = pc[q] /\ q # p
    BY <2>1, <1>0, AdvanceType
  <2>3. note' \in [Proc -> Note] /\ \A q \in Proc : q # p => note'[q] = note[q]
    BY <1>0, <1>6, Blank DEF Drop, Types
  <2> QED BY <1>0, <1>6, <2>1, <2>2, <2>3 DEF Drop, Types
<1>7. ASSUME NEW p \in Proc, Save(p) PROVE Types'
  <2>1. Watchlist # <<>> /\ Advance(p) BY <1>0, <1>7 DEF Save, Types, Telling
  <2>2. /\ pc' \in [Proc -> Busy \union {"idle"}] /\ at' \in [Proc -> Nat]
        /\ \A q \in Proc : at'[q] \in 1 .. Len(Watchlist)
        /\ \A q \in Proc : pc'[q] \in {"write", "notify"} => pc'[q] = pc[q] /\ q # p
    BY <2>1, <1>0, AdvanceType
  <2>3. note' \in [Proc -> Note] /\ \A q \in Proc : q # p => note'[q] = note[q]
    BY <1>0, <1>7, Blank DEF Save, Types
  <2>4. state' \in [Symbol -> State]
    <3>1. note[p].next \in State BY <1>0 DEF Types, Note
    <3> QED BY <3>1, <1>0, <1>7 DEF Save, Types
  <2> QED BY <1>0, <1>7, <2>1, <2>2, <2>3, <2>4 DEF Save, Types
<1>8. ASSUME NEW p \in Proc, Expire(p) PROVE Types'
  <2>1. rows' \in [Slot -> Row]
    <3>1. rows' = [k \in Slot |-> IF rows[k].life # "free" /\ rows[k].age > Expiry + since[p]
                                  THEN Free ELSE rows[k]] BY <1>8 DEF Expire
    <3> QED BY <3>1, <1>0, Blank DEF Types
  <2>2. /\ pc' \in [Proc -> Busy \union {"idle"}]
        /\ \A q \in Proc : pc'[q] \in Telling => pc'[q] = pc[q]
    BY <1>0, <1>8 DEF Expire, Types, Busy, Telling
  <2> QED BY <1>0, <1>8, <2>1, <2>2 DEF Expire, Types, Telling, cycle
<1>9. ASSUME NEW p \in Proc, Complete(p) PROVE Types'
  <2>1. /\ run' \in [Proc -> {"none", "RUNNING", "COMPLETED", "FAILED"}]
        /\ lease' \in [Proc -> (-Pause) .. Lease] /\ since' \in [Proc -> 0 .. Late]
        /\ pc' \in [Proc -> Busy \union {"idle"}] /\ at' \in [Proc -> Nat]
    BY <1>0, <1>9, Constants DEF Complete, Types, Busy
  <2>2. \A q \in Proc : Watchlist # <<>> => at'[q] \in 1 .. Len(Watchlist)
    <3>1. Watchlist # <<>> => 1 \in 1 .. Len(Watchlist) BY <1>0, <1>9, Constants DEF Types
    <3> QED BY <3>1, <1>0, <1>9 DEF Complete, Types
  <2>3. \A q \in Proc : pc'[q] \in Telling => pc'[q] = pc[q]
    BY <1>0, <1>9 DEF Complete, Types, Telling
  <2> QED BY <1>0, <1>9, <2>1, <2>2, <2>3 DEF Complete, Types, Telling
<1>10. ASSUME NEW p \in Proc, CycleFails(p) PROVE Types'
  <2>1. /\ pc' \in [Proc -> Busy \union {"idle"}]
        /\ \A q \in Proc : pc'[q] \in Telling => pc'[q] = pc[q] /\ q # p
    BY <1>0, <1>10 DEF CycleFails, Types, Busy, Telling
  <2>2. note' \in [Proc -> Note] /\ \A q \in Proc : q # p => note'[q] = note[q]
    BY <1>0, <1>10, Blank DEF CycleFails, Types
  <2> QED BY <1>0, <1>10, <2>1, <2>2 DEF CycleFails, Types, Telling, cycle
<1>11. ASSUME NEW p \in Proc, Crash(p) PROVE Types'
  <2>1. /\ pc' \in [Proc -> Busy \union {"idle"}] /\ at' \in [Proc -> Nat]
        /\ since' \in [Proc -> 0 .. Late]
        /\ \A q \in Proc : pc'[q] \in Telling => pc'[q] = pc[q] /\ q # p
    BY <1>0, <1>11, Constants DEF Crash, Types, Busy, Telling
  <2>2. /\ note' \in [Proc -> Note] /\ \A q \in Proc : q # p => note'[q] = note[q]
        /\ draft' \in [Proc -> Draft] /\ \A q \in Proc : q # p => draft'[q] = draft[q]
    BY <1>0, <1>11, Blank DEF Crash, Types
  <2>3. \A q \in Proc : Watchlist # <<>> => at'[q] \in 1 .. Len(Watchlist)
    <3>1. Watchlist # <<>> => 1 \in 1 .. Len(Watchlist) BY <1>0, <1>11, Constants DEF Types
    <3> QED BY <3>1, <1>0, <1>11 DEF Crash, Types
  <2>4. /\ \A q \in Proc : pc'[q] = "write" \/ pc'[q] = "notify" => pc'[q] = pc[q] /\ q # p
        /\ faults' \in Nat /\ UNCHANGED <<run, lease, rows, state, heard>>
    BY <1>0, <1>11, <2>1 DEF Crash, Types, Telling
  <2>5. \A q \in Proc : pc'[q] \in Telling => Watchlist # <<>> BY <1>0, <2>1 DEF Types
  <2> QED BY <1>0, <2>1, <2>2, <2>3, <2>4, <2>5 DEF Types
<1>12. CASE Tick
  <2>1. lease' \in [Proc -> (-Pause) .. Lease]
    <3>1. \A p \in Proc : /\ lease[p] \in (-Pause) .. Lease
                          /\ lease[p] > -Pause => lease[p] - 1 \in (-Pause) .. Lease
      BY <1>0, Constants DEF Types
    <3>2. lease' = [p \in Proc |-> IF run[p] = "RUNNING" /\ lease[p] > -Pause THEN lease[p] - 1
                                   ELSE lease[p]]
      BY <1>12 DEF Tick
    <3> QED BY <3>1, <3>2
  <2>2. since' \in [Proc -> 0 .. Late]
    <3>1. \A p \in Proc : since[p] \in 0 .. Late BY <1>0 DEF Types
    <3>2. \A p \in Proc : pc[p] # "idle" => since[p] < Pause \/ since[p] < Late
      BY <1>12 DEF Tick
    <3>3. \A p \in Proc : pc[p] # "idle" => since[p] + 1 \in 0 .. Late
      BY <3>1, <3>2, Constants
    <3>4. since' = [p \in Proc |-> IF pc[p] = "idle" THEN since[p] ELSE since[p] + 1]
      BY <1>12 DEF Tick
    <3> QED BY <3>1, <3>3, <3>4
  <2>3. rows' \in [Slot -> Row]
    <3>1. \A row \in Row : [row EXCEPT !.age = Up(row.age, Oldest)] \in Row
      <4> TAKE row \in Row
      <4>1. Up(row.age, Oldest) \in 0 .. Oldest BY UpType, Constants DEF Row
      <4> QED BY <4>1 DEF Row
    <3>2. \A k \in Slot : rows[k] \in Row BY <1>0 DEF Types
    <3>3. rows' = [k \in Slot |-> IF rows[k].life = "free" THEN rows[k]
                                  ELSE [rows[k] EXCEPT !.age = Up(rows[k].age, Oldest)]]
      BY <1>12 DEF Tick
    <3> QED BY <3>1, <3>2, <3>3
  <2>4. \A st \in State : [st EXCEPT !.age = Up(st.age, Cooldown)] \in State
    <3> TAKE st \in State
    <3>1. Up(st.age, Cooldown) \in 0 .. Cooldown BY UpType, Constants DEF State
    <3> QED BY <3>1 DEF State
  <2>5. state' \in [Symbol -> State]
    <3>1. \A s \in Symbol : state[s] \in State BY <1>0 DEF Types
    <3>2. state' = [s \in Symbol |-> [state[s] EXCEPT !.age = Up(state[s].age, Cooldown)]]
      BY <1>12 DEF Tick
    <3> QED BY <2>4, <3>1, <3>2
  <2>6. note' \in [Proc -> Note] /\ \A p \in Proc : note'[p].score = note[p].score
    <3>1. \A n \in Note : /\ [n EXCEPT !.next.age = Up(n.next.age, Cooldown)] \in Note
                          /\ [n EXCEPT !.next.age = Up(n.next.age, Cooldown)].score = n.score
      <4> TAKE n \in Note
      <4>1. [n.next EXCEPT !.age = Up(n.next.age, Cooldown)] \in State BY <2>4 DEF Note
      <4>2. [n EXCEPT !.next.age = Up(n.next.age, Cooldown)]
             = [n EXCEPT !.next = [n.next EXCEPT !.age = Up(n.next.age, Cooldown)]] OBVIOUS
      <4> QED BY <4>1, <4>2 DEF Note
    <3>2. \A p \in Proc : note[p] \in Note BY <1>0 DEF Types
    <3>3. note' = [p \in Proc |-> [note[p] EXCEPT !.next.age = Up(note[p].next.age, Cooldown)]]
      BY <1>12 DEF Tick
    <3> QED BY <3>1, <3>2, <3>3
  <2>7. heard' \in [Symbol -> [news : {"nothing", "live", "over"}, age : 0 .. Cooldown]]
    <3>1. \A s \in Symbol : heard[s].age \in 0 .. Cooldown /\ heard[s].news \in {"nothing", "live", "over"}
                            /\ heard[s] \in [news : {"nothing", "live", "over"}, age : 0 .. Cooldown]
      BY <1>0 DEF Types
    <3>2. \A s \in Symbol : Up(heard[s].age, Cooldown) \in 0 .. Cooldown
      BY <3>1, UpType, Constants
    <3>3. heard' = [s \in Symbol |-> [heard[s] EXCEPT !.age = Up(heard[s].age, Cooldown)]]
      BY <1>12 DEF Tick
    <3> QED BY <3>1, <3>2, <3>3
  <2> QED BY <1>0, <1>12, <2>1, <2>2, <2>3, <2>5, <2>6, <2>7 DEF Tick, Types
<1>13. CASE UNCHANGED vars BY <1>0, <1>13 DEF vars, Types
<1> QED
  BY <1>1, <1>2, <1>3, <1>20, <1>21, <1>4, <1>5, <1>6, <1>7, <1>8, <1>9, <1>10, <1>11, <1>12, <1>13
     DEF Next, Step

\* The steps a cycle takes between its first and its last.
Within(p) ==
    \/ Skip(p) \/ Write(p) \/ Consult(p) \/ Deliver(p) \/ Drop(p) \/ Save(p)
    \/ \E x \in Setup, score \in Score, actionable \in BOOLEAN : Find(p, x, score, actionable)
    \/ Expire(p) \/ CycleFails(p)

LEMMA WithinCycle ==
    ASSUME Types, NEW p \in Proc, Within(p)
    PROVE  /\ UNCHANGED <<run, lease, since>>
           /\ \A q \in Proc : /\ pc'[q] \in {"idle", "claim"} => pc'[q] = pc[q]
                              /\ pc[q] \in {"idle", "claim"} => pc'[q] = pc[q]
<1>0. pc \in [Proc -> Busy \union {"idle"}] BY DEF Types
<1>1. UNCHANGED <<run, lease, since>>
  BY DEF Within, Skip, Find, Write, Consult, Deliver, Drop, Save, Expire, CycleFails, cycle
<1>2. ASSUME pc[p] \notin {"idle", "claim"}, pc'[p] \notin {"idle", "claim"},
             \A q \in Proc : q # p => pc'[q] = pc[q]
      PROVE  \A q \in Proc : /\ pc'[q] \in {"idle", "claim"} => pc'[q] = pc[q]
                             /\ pc[q] \in {"idle", "claim"} => pc'[q] = pc[q]
  BY <1>2
<1>3. ASSUME Watchlist # <<>>, Advance(p), pc[p] \notin {"idle", "claim"}
      PROVE  \A q \in Proc : /\ pc'[q] \in {"idle", "claim"} => pc'[q] = pc[q]
                             /\ pc[q] \in {"idle", "claim"} => pc'[q] = pc[q]
  <2>1. pc'[p] \in {"scan", "expire"} /\ \A q \in Proc : q # p => pc'[q] = pc[q]
    BY <1>3, AdvanceType
  <2> QED BY <1>2, <1>3, <2>1
<1>4. CASE \/ Consult(p) \/ Deliver(p) \/ Expire(p) \/ CycleFails(p)
           \/ \E x \in Setup, score \in Score, actionable \in BOOLEAN :
                 Find(p, x, score, actionable)
  <2>1. /\ pc[p] \notin {"idle", "claim"} /\ pc'[p] \notin {"idle", "claim"}
        /\ \A q \in Proc : q # p => pc'[q] = pc[q]
    BY <1>0, <1>4 DEF Consult, Deliver, Expire, CycleFails, Find
  <2> QED BY <1>1, <1>2, <2>1
<1>5. CASE Skip(p) \/ Drop(p) \/ Save(p)
  <2>1. pc[p] \notin {"idle", "claim"} /\ Advance(p) BY <1>5 DEF Skip, Drop, Save
  <2>2. Watchlist # <<>> BY <1>5 DEF Skip, Drop, Save, Types, Telling
  <2> QED BY <1>1, <1>3, <2>1, <2>2
<1>6. CASE Write(p)
  <2>1. pc[p] = "write" /\ (pc' = [pc EXCEPT ![p] = "notify"] \/ Advance(p))
    BY <1>6 DEF Write
  <2>2. Watchlist # <<>> BY <2>1 DEF Types, Telling
  <2>3. CASE pc' = [pc EXCEPT ![p] = "notify"] BY <1>0, <1>1, <1>2, <2>1, <2>3
  <2> QED BY <1>1, <1>3, <2>1, <2>2, <2>3
<1> QED BY <1>1, <1>4, <1>5, <1>6 DEF Within

LEMMA LeasesStep == ASSUME IInv, [Next]_vars PROVE Leases'
<1>0. Types /\ Leases BY DEF IInv
<1>00. /\ run \in [Proc -> {"none", "RUNNING", "COMPLETED", "FAILED"}]
       /\ lease \in [Proc -> (-Pause) .. Lease] /\ since \in [Proc -> 0 .. Late]
       /\ pc \in [Proc -> Busy \union {"idle"}]
       /\ \A q \in Proc : lease[q] \in Int /\ since[q] \in Nat
       /\ Pause \in Nat
  BY <1>0, Constants DEF Types
<1>1. ASSUME NEW p \in Proc, Look(p) PROVE Leases'
  <2>1. /\ \A q \in Proc : ~Held(q) /\ pc[p] = "idle"
        /\ pc' = [pc EXCEPT ![p] = "claim"] /\ UNCHANGED <<run, lease, since>>
    BY <1>1 DEF Look, cycle
  <2>2. Cycling' = Cycling BY <2>1, <1>00 DEF Cycling
  <2>3. \A q \in Cycling : ~(lease[q] > 0) BY <1>0, <2>1 DEF Leases, Held, Cycling
  <2>4. since[p] = 0 /\ pc'[p] = "claim" /\ \A q \in Proc : q # p => pc'[q] = pc[q]
    BY <1>0, <1>00, <2>1 DEF Leases
  <2> QED BY <1>0, <1>00, <2>1, <2>2, <2>3, <2>4 DEF Leases, LeaseProtects
<1>2. ASSUME NEW p \in Proc, Claim(p) PROVE Leases'
  <2>1. /\ pc[p] = "claim" /\ pc'[p] = "scan" /\ run'[p] = "RUNNING" /\ since' = since
        /\ \A q \in Proc : q # p =>
             /\ pc'[q] = pc[q] /\ lease'[q] = lease[q]
             /\ run'[q] = IF run[q] = "RUNNING" /\ lease[q] + since[p] <= 0 THEN "FAILED" ELSE run[q]
    BY <1>00, <1>2 DEF Claim
  <2>2. Cycling' = Cycling \union {p} /\ p \notin Cycling BY <2>1 DEF Cycling
  <2>3. Cycling \subseteq Proc BY DEF Cycling
  <2>4. \A q \in Cycling' : lease'[q] > 0 => run'[q] = "RUNNING"
    <3> TAKE q \in Cycling'
    <3>1. CASE q = p BY <2>1, <3>1
    <3>2. CASE q # p
      <4>1. q \in Cycling /\ q \in Proc /\ lease'[q] = lease[q] BY <2>1, <2>2, <2>3, <3>2
      <4>2. lease[q] > 0 => run[q] = "RUNNING" /\ ~(lease[q] + since[p] <= 0)
        BY <4>1, <1>0, <1>00 DEF Leases
      <4> QED BY <4>1, <4>2, <2>1, <3>2
    <3> QED BY <3>1, <3>2
  <2>5. \A q \in Proc : pc'[q] = "claim" => q # p /\ pc[q] = "claim" BY <2>1
  <2>6. since[p] <= Pause BY <1>0, <2>1 DEF Leases
  <2>7. \A q, r \in Proc : q \in Cycling' /\ pc'[r] = "claim" /\ lease'[q] > 0
           => since[q] - since[r] <= Pause
    <3> SUFFICES ASSUME NEW q \in Proc, NEW r \in Proc, q \in Cycling', pc'[r] = "claim", lease'[q] > 0
                 PROVE  since[q] - since[r] <= Pause
      OBVIOUS
    <3>1. CASE q = p BY <1>00, <2>6, <3>1
    <3>2. CASE q # p BY <1>0, <2>1, <2>2, <2>5, <3>2 DEF Leases
    <3> QED BY <3>1, <3>2
  <2>8. \A q, r \in Cycling' : lease'[q] > 0 /\ lease'[r] > 0 => Apart(since[q], since[r]) <= Pause
    <3> SUFFICES ASSUME NEW q \in Cycling', NEW r \in Cycling', lease'[q] > 0, lease'[r] > 0
                 PROVE  Apart(since[q], since[r]) <= Pause
      OBVIOUS
    <3>1. CASE q = p /\ r = p BY <3>1, <1>00 DEF Apart
    <3>2. CASE q = p /\ r # p
      <4>1. since[r] - since[p] <= Pause BY <3>2, <1>0, <2>1, <2>2, <2>3 DEF Leases
      <4>2. r \in Proc BY <2>2, <2>3
      <4> QED BY <3>2, <4>1, <4>2, <2>6, <1>00 DEF Apart
    <3>3. CASE q # p /\ r = p
      <4>1. since[q] - since[p] <= Pause BY <3>3, <1>0, <2>1, <2>2, <2>3 DEF Leases
      <4>2. q \in Proc BY <2>2, <2>3
      <4> QED BY <3>3, <4>1, <4>2, <2>6, <1>00 DEF Apart
    <3>4. CASE q # p /\ r # p
      BY <3>4, <1>0, <2>1, <2>2, <2>3 DEF Leases, LeaseProtects
    <3> QED BY <3>1, <3>2, <3>3, <3>4
  <2>9. \A q \in Proc : pc'[q] = "idle" => pc[q] = "idle" BY <2>1
  <2>10. Cycling' \subseteq Proc BY DEF Cycling
  <2> QED BY <1>0, <2>1, <2>4, <2>5, <2>7, <2>8, <2>9, <2>10 DEF Leases, LeaseProtects
<1>3. ASSUME NEW p \in Proc, Complete(p) \/ Crash(p) PROVE Leases'
  <2>1. /\ pc'[p] = "idle" /\ since'[p] = 0
        /\ \A q \in Proc : q # p => /\ run'[q] = run[q] /\ lease'[q] = lease[q]
                                    /\ pc'[q] = pc[q] /\ since'[q] = since[q]
    BY <1>00, <1>3 DEF Complete, Crash
  <2>2. \A q \in Cycling' : q # p /\ q \in Cycling /\ q \in Proc BY <2>1 DEF Cycling
  <2> QED BY <1>0, <2>1, <2>2 DEF Leases, LeaseProtects
<1>4. CASE Tick
  <2>1. /\ UNCHANGED <<run, pc>> /\ Cycling' = Cycling
        /\ \A q \in Proc : /\ lease'[q] > 0 => lease[q] > 0
                           /\ pc[q] = "idle" => since'[q] = since[q]
                           /\ pc[q] # "idle" => since'[q] = since[q] + 1
                           /\ pc[q] = "claim" => since[q] < Pause
    BY <1>00, <1>4 DEF Tick, Cycling
  <2>2. Cycling \subseteq Proc /\ \A q \in Cycling : pc[q] # "idle" BY DEF Cycling
  <2>3. \A q, r \in Cycling : lease'[q] > 0 /\ lease'[r] > 0
           => Apart(since'[q], since'[r]) = Apart(since[q], since[r])
    BY <1>00, <2>1, <2>2 DEF Apart
  <2>4. LeaseProtects' BY <1>0, <2>1, <2>2, <2>3 DEF Leases, LeaseProtects
  <2>5. \A q \in Cycling, r \in Proc : pc[r] = "claim" /\ lease'[q] > 0
           => since'[q] - since'[r] <= Pause
    <3> SUFFICES ASSUME NEW q \in Cycling, NEW r \in Proc, pc[r] = "claim", lease'[q] > 0
                 PROVE  since'[q] - since'[r] <= Pause
      OBVIOUS
    <3>1. since'[q] = since[q] + 1 /\ since'[r] = since[r] + 1 BY <2>1, <2>2
    <3>2. since[q] - since[r] <= Pause BY <1>0, <2>1, <2>2 DEF Leases
    <3>3. since[q] \in Nat /\ since[r] \in Nat BY <1>00, <2>2
    <3> QED BY <3>1, <3>2, <3>3
  <2>6. \A q \in Proc : pc[q] = "claim" => since'[q] <= Pause BY <1>00, <2>1
  <2>7. \A q \in Cycling : lease'[q] > 0 => run[q] = "RUNNING" BY <1>0, <2>1, <2>2 DEF Leases
  <2>8. \A q \in Proc : pc[q] = "idle" => since'[q] = 0 BY <1>0, <2>1 DEF Leases
  <2> QED BY <2>1, <2>4, <2>5, <2>6, <2>7, <2>8 DEF Leases
<1>5. ASSUME UNCHANGED <<run, lease, since>>,
             \A p \in Proc : /\ pc'[p] \in {"idle", "claim"} => pc'[p] = pc[p]
                             /\ pc[p] \in {"idle", "claim"} => pc'[p] = pc[p]
      PROVE  Leases'
  <2>1. Cycling' = Cycling BY <1>5 DEF Cycling
  <2> QED BY <1>0, <1>5, <2>1 DEF Leases, LeaseProtects
<1>6. ASSUME NEW p \in Proc, Within(p) PROVE Leases'
  BY <1>5, <1>6, <1>0, WithinCycle
<1>7. CASE UNCHANGED vars BY <1>5, <1>7 DEF vars
<1> QED BY <1>1, <1>2, <1>3, <1>4, <1>6, <1>7 DEF Next, Step, Within

LEMMA CrowdStep == ASSUME IInv, [Next]_vars PROVE Crowd'
<1>0. Types /\ Crowd /\ IsFiniteSet(Cycling) /\ Cardinality(Cycling) \in Nat
      /\ IsFiniteSet(Proc) /\ pc \in [Proc -> Busy \union {"idle"}]
  <2>1. Cycling \in SUBSET Proc /\ IsFiniteSet(Proc) BY Constants DEF Cycling
  <2> QED BY <2>1, FS_Subset, FS_CardinalityType DEF IInv, Types
<1>1. ASSUME crowd' = crowd, Cycling' \subseteq Cycling PROVE Crowd'
  <2>1. Cardinality(Cycling') <= Cardinality(Cycling) /\ Cardinality(Cycling') \in Nat
    BY <1>0, <1>1, FS_Subset, FS_CardinalityType
  <2> QED BY <1>0, <1>1, <2>1 DEF Crowd
<1>2. ASSUME NEW p \in Proc, Claim(p) PROVE Crowd'
  <2>1. Cycling' = Cycling \union {p} /\ p \notin Cycling
    BY <1>0, <1>2 DEF Cycling, Claim
  <2>2. Cardinality(Cycling') = Cardinality(Cycling) + 1 BY <1>0, <2>1, FS_AddElement
  <2>3. Cardinality(Cycling') <= Cardinality(Proc)
    <3>1. Cycling' \in SUBSET Proc BY DEF Cycling
    <3> QED BY <3>1, <1>0, FS_Subset
  <2>4. crowd' = IF crowd < Cardinality(Cycling) + 1 THEN Cardinality(Cycling) + 1 ELSE crowd
    BY <1>2 DEF Claim
  <2> HIDE DEF Cycling
  <2> QED BY <1>0, <2>2, <2>3, <2>4 DEF Crowd
<1>3. ASSUME NEW p \in Proc, Look(p) \/ Complete(p) \/ Crash(p) PROVE Crowd'
  BY <1>0, <1>1, <1>3 DEF Look, Complete, Crash, Cycling
<1>4. ASSUME NEW p \in Proc, Within(p) PROVE Crowd'
  <2>1. crowd' = crowd
    BY <1>4 DEF Within, Skip, Find, Write, Consult, Deliver, Drop, Save, Expire, CycleFails
  <2> QED BY <1>0, <1>1, <1>4, <2>1, WithinCycle DEF Cycling
<1>5. CASE Tick \/ UNCHANGED vars BY <1>1, <1>5 DEF Tick, vars, Cycling
<1> QED BY <1>2, <1>3, <1>4, <1>5 DEF Next, Step, Within

\* What adds neither a row nor the promise of one leaves an identity counted.
LEMMA CountedShrinks ==
    ASSUME Crowd, Crowd', crowd <= crowd', NEW s, NEW x, Counted(s, x),
           Touched(s, x)' \subseteq Touched(s, x), Creating(s, x)' \subseteq Creating(s, x)
    PROVE  Counted(s, x)'
<1> DEFINE T == Touched(s, x)
           C == Creating(s, x)
<1>1. IsFiniteSet(T) /\ Cardinality(T) + Cardinality(C) <= crowd BY DEF Counted
<1>2. C \in SUBSET Proc BY DEF Creating, Writing
<1>3. IsFiniteSet(C) BY <1>2, Constants, FS_Subset
<1>4. T' \in SUBSET T /\ C' \in SUBSET C OBVIOUS
<1>5. IsFiniteSet(T') /\ IsFiniteSet(C') BY <1>1, <1>3, <1>4, FS_Subset
<1>6. Cardinality(T') <= Cardinality(T) /\ Cardinality(C') <= Cardinality(C)
  BY <1>1, <1>3, <1>4, FS_Subset
<1>7. /\ Cardinality(T) \in Nat /\ Cardinality(C) \in Nat
      /\ Cardinality(T') \in Nat /\ Cardinality(C') \in Nat
  BY <1>1, <1>3, <1>5, FS_CardinalityType
<1>8. crowd \in Nat /\ crowd' \in Nat BY DEF Crowd
<1> HIDE DEF T, C
<1>9. Cardinality(T') + Cardinality(C') <= crowd' BY <1>1, <1>6, <1>7, <1>8
<1> QED BY <1>5, <1>9 DEF Counted, T, C

\* An evaluation that finds no row counts, with all that are in hand, as one of
\* the cycles there are.
LEMMA FindsNone ==
    ASSUME IInv, Crowd', Types', NEW p \in Proc, NEW s \in Symbol, NEW x \in Setup,
           Found(s, x)' = {}
    PROVE  Counted(s, x)'
<1> DEFINE W == Writing(s, x)'
           C == Creating(s, x)'
           H == W \ C
           T == Touched(s, x)'
           f == [q \in H |-> CHOOSE k : k \in draft'[q].row]
<1>1. W \in SUBSET (Cycling') /\ Cycling' \in SUBSET Proc BY DEF Writing, Cycling
<1>2. IsFiniteSet(Proc) BY Constants
<1>3. IsFiniteSet(Cycling') /\ IsFiniteSet(W) BY <1>1, <1>2, FS_Subset
<1>4. C \in SUBSET W BY DEF Creating
<1>5. IsFiniteSet(C) /\ IsFiniteSet(H) BY <1>3, <1>4, FS_Subset
<1>6. T = UNION {draft'[q].row : q \in W} BY DEF Touched
<1>7. \A q \in H : draft'[q].row = {f[q]}
  <2> TAKE q \in H
  <2>1. q \in Proc /\ draft'[q].row # {} BY <1>1 DEF Creating, Writing
  <2>2. draft'[q] \in Draft BY <2>1 DEF Types
  <2>3. PICK k \in Slot : draft'[q].row = {k} BY <2>1, <2>2 DEF Draft
  <2> QED BY <2>3
<1>8. f \in Surjection(H, T)
  <2>1. \A q \in H : f[q] \in T BY <1>6, <1>7
  <2>2. \A k \in T : \E q \in H : f[q] = k
    <3> TAKE k \in T
    <3>1. PICK q \in W : k \in draft'[q].row BY <1>6
    <3>2. q \in H BY <3>1 DEF Creating
    <3> QED BY <3>1, <3>2, <1>7
  <2> QED BY <2>1, <2>2 DEF Surjection
<1> HIDE DEF f, T
<1>9. IsFiniteSet(T) /\ Cardinality(T) <= Cardinality(H) BY <1>5, <1>8, FS_Surjection
<1>10. Cardinality(H) = Cardinality(W) - Cardinality(C)
  <2>1. W \cap C = C BY <1>4
  <2> QED BY <2>1, <1>3, FS_Difference
<1>11. Cardinality(W) <= Cardinality(Cycling') BY <1>1, <1>3, FS_Subset
<1>12. /\ Cardinality(T) \in Nat /\ Cardinality(H) \in Nat /\ Cardinality(W) \in Nat
       /\ Cardinality(C) \in Nat /\ Cardinality(Cycling') \in Nat
  BY <1>3, <1>5, <1>9, FS_CardinalityType
<1>13. Cardinality(Cycling') <= crowd' /\ crowd' \in Nat BY DEF Crowd
<1> HIDE DEF W, C, H
<1>14. Cardinality(T) + Cardinality(C) <= crowd'
  BY <1>9, <1>10, <1>11, <1>12, <1>13
<1> QED BY <1>9, <1>14 DEF Counted, T, C

LEMMA DuplicatesStep == ASSUME IInv, [Next]_vars PROVE Duplicates'
<1>0. Types /\ Types' /\ Crowd /\ Crowd' /\ Duplicates BY TypesStep, CrowdStep DEF IInv
<1>00. /\ pc \in [Proc -> Busy \union {"idle"}] /\ draft \in [Proc -> Draft]
       /\ rows \in [Slot -> Row] /\ at \in [Proc -> Nat]
  BY <1>0 DEF Types
<1>1. ASSUME crowd <= crowd', NEW s \in Symbol, NEW x \in Setup,
             Found(s, x)' \subseteq Found(s, x),
             \A q \in Proc : pc'[q] = "write"
                 => pc[q] = "write" /\ draft'[q] = draft[q] /\ at'[q] = at[q]
      PROVE  Counted(s, x)'
  <2>1. Writing(s, x)' \subseteq Writing(s, x) BY <1>1 DEF Writing, Sym
  <2>2. \A q \in Writing(s, x)' : draft'[q] = draft[q] BY <1>1 DEF Writing
  <2>3. Touched(s, x)' \subseteq Touched(s, x) BY <1>1, <2>1, <2>2 DEF Touched
  <2>4. Creating(s, x)' \subseteq Creating(s, x) BY <2>1, <2>2 DEF Creating
  <2> QED BY <1>0, <1>1, <2>3, <2>4, CountedShrinks DEF Duplicates
<1>2. ASSUME crowd <= crowd', \A k \in Slot : rows'[k].life = "free"
                 \/ (rows[k].life # "free" /\ rows'[k].sym = rows[k].sym
                     /\ rows'[k].setup = rows[k].setup),
             \A q \in Proc : pc'[q] = "write"
                 => pc[q] = "write" /\ draft'[q] = draft[q] /\ at'[q] = at[q]
      PROVE  Duplicates'
  <2>1. \A s \in Symbol, x \in Setup : Found(s, x)' \subseteq Found(s, x)
    BY <1>2 DEF Found, Active
  <2> QED BY <1>1, <1>2, <2>1 DEF Duplicates
<1>3. ASSUME rows' = rows, crowd <= crowd',
             \A q \in Proc : pc'[q] = "write"
                 => pc[q] = "write" /\ draft'[q] = draft[q] /\ at'[q] = at[q]
      PROVE  Duplicates'
  BY <1>2, <1>3
<1>4. crowd \in Nat /\ crowd <= crowd BY <1>0 DEF Crowd
<1>5. ASSUME NEW p \in Proc,
             \/ Look(p) \/ Complete(p) \/ Consult(p) \/ Deliver(p) \/ CycleFails(p) \/ Crash(p)
      PROVE  Duplicates'
  BY <1>00, <1>3, <1>4, <1>5 DEF Look, Complete, Consult, Deliver, CycleFails, Crash, cycle
<1>6. ASSUME NEW p \in Proc, Claim(p) PROVE Duplicates'
  <2>1. crowd <= crowd' BY <1>0, <1>6 DEF Claim, Crowd
  <2> QED BY <2>1, <1>00, <1>3, <1>6 DEF Claim
<1>7. ASSUME NEW p \in Proc, Skip(p) \/ Drop(p) \/ Save(p) PROVE Duplicates'
  <2>1. /\ Advance(p) /\ UNCHANGED <<rows, crowd>> /\ Watchlist # <<>>
        /\ \A q \in Proc : q # p => draft'[q] = draft[q]
    BY <1>0, <1>00, <1>7 DEF Skip, Drop, Save, Types, Telling
  <2>2. pc'[p] \in {"scan", "expire"} /\ \A q \in Proc : q # p => pc'[q] = pc[q] /\ at'[q] = at[q]
    BY <1>0, <2>1, AdvanceType
  <2> QED BY <2>1, <2>2, <1>3, <1>4
<1>8. ASSUME NEW p \in Proc, Expire(p) PROVE Duplicates'
  <2>1. \A k \in Slot : rows'[k] = Free \/ rows'[k] = rows[k] BY <1>8 DEF Expire
  <2>2. \A k \in Slot : rows'[k].life = "free"
            \/ (rows[k].life # "free" /\ rows'[k].sym = rows[k].sym
                /\ rows'[k].setup = rows[k].setup)
    BY <2>1, Blank
  <2>3. \A q \in Proc : pc'[q] = "write"
            => pc[q] = "write" /\ draft'[q] = draft[q] /\ at'[q] = at[q]
    BY <1>00, <1>8 DEF Expire, cycle
  <2>4. crowd' = crowd BY <1>8 DEF Expire
  <2> QED BY <2>2, <2>3, <2>4, <1>2, <1>4
<1>9. CASE Tick
  <2>1. \A row \in Row : /\ [row EXCEPT !.age = Up(row.age, Oldest)].sym = row.sym
                         /\ [row EXCEPT !.age = Up(row.age, Oldest)].setup = row.setup
    BY DEF Row
  <2>2. \A k \in Slot : rows[k] \in Row /\ rows'[k] = IF rows[k].life = "free" THEN rows[k]
                                          ELSE [rows[k] EXCEPT !.age = Up(rows[k].age, Oldest)]
    BY <1>00, <1>9 DEF Tick
  <2>3. \A k \in Slot : rows'[k].life = "free"
            \/ (rows[k].life # "free" /\ rows'[k].sym = rows[k].sym
                /\ rows'[k].setup = rows[k].setup)
    BY <2>1, <2>2
  <2>4. UNCHANGED <<pc, at, draft, crowd>> BY <1>9 DEF Tick
  <2> QED BY <2>3, <2>4, <1>2, <1>4
<1>10. ASSUME NEW p \in Proc, NEW x \in Setup, NEW score \in Score, NEW actionable \in BOOLEAN,
              Find(p, x, score, actionable)
       PROVE  Duplicates'
  <2>1. /\ pc[p] = "scan" /\ pc' = [pc EXCEPT ![p] = "write"] /\ UNCHANGED <<rows, at, crowd>>
    BY <1>10 DEF Find, cycle
  <2>2. /\ draft' = [draft EXCEPT ![p] = draft'[p]] /\ draft'[p].setup = x
        /\ \/ Found(Sym(p), x) = {}
           \/ draft'[p].row # {} /\ draft'[p].row \subseteq Found(Sym(p), x)
    BY <1>0, <1>10, FindDraft
  <2>3. \A q \in Proc : q # p => pc'[q] = pc[q] /\ draft'[q] = draft[q] BY <2>1, <2>2, <1>00
  <2>4. \A q \in Proc : Sym(q)' = Sym(q) BY <2>1 DEF Sym
  <2>5. \A s \in Symbol, y \in Setup : Found(s, y)' = Found(s, y) BY <2>1 DEF Found, Active
  <2>6. ASSUME NEW s \in Symbol, NEW y \in Setup PROVE Counted(s, y)'
    <3>1. CASE Found(s, y) = {} BY <3>1, <2>5, <1>0, FindsNone
    <3>2. CASE Found(s, y) # {} /\ s = Sym(p) /\ y = x
      <4>1. draft'[p].row # {} /\ draft'[p].row \subseteq Found(s, y) BY <3>2, <2>2
      <4>2. Writing(s, y)' \subseteq Writing(s, y) \union {p} BY <2>3, <2>4 DEF Writing
      <4>3. Touched(s, y)' \subseteq Touched(s, y)
        BY <4>1, <4>2, <2>3, <2>5 DEF Touched, Writing
      <4>4. Creating(s, y)' \subseteq Creating(s, y)
        BY <4>1, <4>2, <2>3 DEF Creating, Writing
      <4> QED BY <4>3, <4>4, <2>1, <1>0, <1>4, CountedShrinks DEF Duplicates
    <3>3. CASE ~(s = Sym(p) /\ y = x)
      <4>1. Writing(s, y)' \subseteq Writing(s, y) /\ p \notin Writing(s, y)'
        BY <3>3, <2>2, <2>3, <2>4 DEF Writing
      <4>2. \A q \in Writing(s, y)' : draft'[q] = draft[q] BY <4>1, <2>3 DEF Writing
      <4>3. Touched(s, y)' \subseteq Touched(s, y) BY <4>1, <4>2, <2>5 DEF Touched
      <4>4. Creating(s, y)' \subseteq Creating(s, y) BY <4>1, <4>2 DEF Creating
      <4> QED BY <4>3, <4>4, <2>1, <1>0, <1>4, CountedShrinks DEF Duplicates
    <3> QED BY <3>1, <3>2, <3>3
  <2> QED BY <2>6 DEF Duplicates
<1>11. ASSUME NEW p \in Proc, Write(p) PROVE Duplicates'
  <2>1. PICK k \in Slot, row \in Row :
             /\ rows' = [rows EXCEPT ![k] = row]
             /\ IF draft[p].row = {} THEN k \notin Active ELSE draft[p].row = {k}
             /\ \/ row.sym = Sym(p) /\ row.setup = draft[p].setup
                \/ row.life = "free"
                \/ row.life = rows[k].life /\ row.sym = rows[k].sym /\ row.setup = rows[k].setup
    BY <1>0, <1>11, WriteRow
  <2>2. /\ pc[p] = "write" /\ crowd' = crowd /\ Watchlist # <<>>
        /\ draft' = [draft EXCEPT ![p] = NoDraft]
        /\ (pc' = [pc EXCEPT ![p] = "notify"] /\ at' = at) \/ Advance(p)
    BY <1>0, <1>11 DEF Write, Types, Telling
  <2>3. pc'[p] # "write" /\ \A q \in Proc : q # p => pc'[q] = pc[q] /\ at'[q] = at[q]
    <3>1. CASE pc' = [pc EXCEPT ![p] = "notify"] /\ at' = at BY <3>1, <1>00
    <3>2. CASE Advance(p) BY <3>2, <2>2, <1>0, AdvanceType
    <3> QED BY <2>2, <3>1, <3>2
  <2>4. \A q \in Proc : q # p => draft'[q] = draft[q] /\ Sym(q)' = Sym(q)
    BY <2>2, <2>3, <1>00 DEF Sym
  <2>5. rows'[k] = row /\ \A j \in Slot : j # k => rows'[j] = rows[j] BY <2>1, <1>00
  <2>6. ASSUME NEW s \in Symbol, NEW y \in Setup PROVE Counted(s, y)'
    <3>1. Writing(s, y)' = Writing(s, y) \ {p} BY <2>3, <2>4 DEF Writing
    <3>2. \A q \in Writing(s, y)' : draft'[q] = draft[q] BY <3>1, <2>4 DEF Writing
    <3>3. Creating(s, y)' = Creating(s, y) \ {p} BY <3>1, <3>2 DEF Creating
    <3>4. CASE Found(s, y)' \subseteq Touched(s, y)
      <4>1. Touched(s, y)' \subseteq Touched(s, y) BY <3>1, <3>2, <3>4 DEF Touched
      <4> QED BY <4>1, <3>3, <2>2, <1>0, <1>4, CountedShrinks DEF Duplicates
    <3>5. CASE ~(Found(s, y)' \subseteq Touched(s, y))
      <4>1. PICK j \in Found(s, y)' : j \notin Touched(s, y) BY <3>5
      <4>2. j \notin Found(s, y) BY <4>1 DEF Touched
      <4>3. j = k BY <4>1, <4>2, <2>5 DEF Found, Active
      <4>4. row.life # "free" /\ row.sym = s /\ row.setup = y
        BY <4>1, <4>3, <2>5 DEF Found, Active
      <4>5. s = Sym(p) /\ y = draft[p].setup
        BY <4>2, <4>3, <4>4, <2>1 DEF Found, Active
      <4>6. p \in Writing(s, y) BY <4>5, <2>2 DEF Writing
      <4>7. draft[p].row = {} BY <4>1, <4>3, <4>6, <2>1 DEF Touched
      <4>8. p \in Creating(s, y) BY <4>6, <4>7 DEF Creating
      <4>9. \A i \in Found(s, y)' : i = k \/ i \in Found(s, y) BY <2>5 DEF Found, Active
      <4>10. Touched(s, y)' \in SUBSET (Touched(s, y) \union {k})
        BY <4>9, <3>1, <3>2 DEF Touched
      <4> DEFINE T == Touched(s, y)
                 C == Creating(s, y)
                 U == Touched(s, y)'
                 D == Creating(s, y)'
      <4>11. IsFiniteSet(T) /\ Cardinality(T) + Cardinality(C) <= crowd
        BY <1>0 DEF Duplicates, Counted
      <4>12. C \in SUBSET Proc BY DEF Creating, Writing
      <4>13. IsFiniteSet(C) BY <4>12, Constants, FS_Subset
      <4>14. IsFiniteSet(T \union {k}) /\ Cardinality(T \union {k}) <= Cardinality(T) + 1
             /\ Cardinality(T \union {k}) \in Nat /\ Cardinality(T) \in Nat
        <5>1. /\ IsFiniteSet(T \union {k}) /\ Cardinality(T) \in Nat
              /\ Cardinality(T \union {k}) = IF k \in T THEN Cardinality(T) ELSE Cardinality(T) + 1
          BY <4>11, FS_AddElement, FS_CardinalityType
        <5> HIDE DEF T
        <5> QED BY <5>1
      <4>15. IsFiniteSet(U) /\ Cardinality(U) <= Cardinality(T \union {k}) /\ Cardinality(U) \in Nat
        BY <4>10, <4>14, FS_Subset, FS_CardinalityType
      <4>16. Cardinality(D) = Cardinality(C) - 1 /\ Cardinality(C) \in Nat
        BY <3>3, <4>8, <4>13, FS_RemoveElement, FS_CardinalityType
      <4> HIDE DEF T, C, U, D
      <4>17. Cardinality(U) + Cardinality(D) <= crowd'
        BY <4>11, <4>14, <4>15, <4>16, <2>2, <1>4
      <4> QED BY <4>15, <4>17 DEF Counted, U, D
    <3> QED BY <3>4, <3>5
  <2> QED BY <2>6 DEF Duplicates
<1>12. CASE UNCHANGED vars BY <1>3, <1>4, <1>12 DEF vars
<1> QED
  BY <1>5, <1>6, <1>7, <1>8, <1>9, <1>10, <1>11, <1>12 DEF Next, Step

\* A step that neither announces nor saves leaves the words as they were.
LEMMA Quiet ==
    ASSUME IInv, UNCHANGED <<state, heard>>,
           \A q \in Proc : pc'[q] \in {"publish", "save"}
               => pc'[q] = pc[q] /\ note'[q] = note[q] /\ at'[q] = at[q]
    PROVE  Words'
<1>1. Words BY DEF IInv
<1>2. \A q \in Proc : pc'[q] \in {"publish", "save"} => Sym(q)' = Sym(q) BY DEF Sym
<1> QED BY <1>1, <1>2 DEF Words

LEMMA WordsStep == ASSUME IInv, [Next]_vars PROVE Words'
<1>0. Types /\ Words /\ Types' BY TypesStep DEF IInv
<1>00. /\ pc \in [Proc -> Busy \union {"idle"}] /\ note \in [Proc -> Note]
       /\ state \in [Symbol -> State] /\ at \in [Proc -> Nat]
       /\ heard \in [Symbol -> [news : {"nothing", "live", "over"}, age : 0 .. Cooldown]]
  BY <1>0 DEF Types
<1>1. ASSUME NEW p \in Proc,
             \/ Look(p) \/ Claim(p) \/ Complete(p) \/ Expire(p) \/ CycleFails(p) \/ Crash(p)
             \/ \E x \in Setup, score \in Score, actionable \in BOOLEAN :
                   Find(p, x, score, actionable)
      PROVE  Words'
  <2>1. \A q \in Proc : pc'[q] \in {"publish", "save"}
            => pc'[q] = pc[q] /\ note'[q] = note[q] /\ at'[q] = at[q]
    BY <1>00, <1>1 DEF Look, Claim, Find, Complete, Expire, CycleFails, Crash, cycle
  <2>2. UNCHANGED <<state, heard>>
    BY <1>1 DEF Look, Claim, Find, Complete, Expire, CycleFails, Crash, cycle
  <2> QED BY <2>1, <2>2, Quiet
<1>2. ASSUME NEW p \in Proc, Watchlist # <<>>, Advance(p), UNCHANGED <<state, heard>>,
             \A q \in Proc : q # p => note'[q] = note[q]
      PROVE  Words'
  <2>1. pc'[p] \in {"scan", "expire"} /\ \A q \in Proc : q # p => pc'[q] = pc[q] /\ at'[q] = at[q]
    BY <1>0, <1>2, AdvanceType
  <2> QED BY <2>1, <1>2, Quiet
<1>3. ASSUME NEW p \in Proc, Skip(p) PROVE Words'
  BY <1>2, <1>3 DEF Skip
<1>4. ASSUME NEW p \in Proc, Drop(p) PROVE Words'
  <2>1. Watchlist # <<>> BY <1>0, <1>4 DEF Drop, Types, Telling
  <2>2. Advance(p) /\ UNCHANGED <<state, heard>> /\ \A q \in Proc : q # p => note'[q] = note[q]
    BY <1>00, <1>4 DEF Drop
  <2> QED BY <2>1, <2>2, <1>2
<1>5. ASSUME NEW p \in Proc, Write(p) PROVE Words'
  <2>1. /\ UNCHANGED <<state, heard>> /\ Watchlist # <<>>
        /\ \/ /\ pc' = [pc EXCEPT ![p] = "notify"] /\ at' = at
              /\ note' = [note EXCEPT ![p] = [NoNote EXCEPT !.score = draft[p].news]]
           \/ Advance(p) /\ note' = note
    BY <1>0, <1>5 DEF Write, Types, Telling
  <2>2. CASE Advance(p) /\ note' = note BY <1>2, <2>1, <2>2
  <2>3. CASE /\ pc' = [pc EXCEPT ![p] = "notify"] /\ at' = at
             /\ note' = [note EXCEPT ![p] = [NoNote EXCEPT !.score = draft[p].news]]
    <3>1. \A q \in Proc : pc'[q] \in {"publish", "save"}
            => pc'[q] = pc[q] /\ note'[q] = note[q] /\ at'[q] = at[q]
      BY <2>3, <1>00
    <3> QED BY <2>1, <3>1, Quiet
  <2> QED BY <2>1, <2>2, <2>3
<1>6. ASSUME NEW p \in Proc, Consult(p) PROVE Words'
  <2> DEFINE d == Decide(state[Sym(p)], note[p].score)
  <2>1. state[Sym(p)] \in State /\ note[p].score \in Score /\ Sym(p) \in Symbol
    BY <1>0, <1>6, SymType DEF Consult, Types, Telling
  <2>2. /\ d \in Note
        /\ d.event = "live" => d.next.phase # "none"
        /\ d.event = "over" => d.next.phase = "none" /\ state[Sym(p)].phase # "none"
        /\ d.event = "none" => (d.next.phase # "none" <=> state[Sym(p)].phase # "none")
    BY <2>1, DecideType
  <2>3. /\ note' = [note EXCEPT ![p] = d]
        /\ pc' = [pc EXCEPT ![p] = IF d.event = "none" THEN "save" ELSE "publish"]
        /\ UNCHANGED <<at, state, heard>>
    BY <1>6 DEF Consult, cycle
  <2> HIDE DEF d
  <2>4. d.event \in {"none", "live", "over"} BY <2>2 DEF Note
  <2>5. state[Sym(p)].phase # "none" => heard[Sym(p)].news # "nothing"
    BY <1>0, <2>1 DEF Words
  <2>6. \A q \in Proc : Sym(q)' = Sym(q) BY <2>3 DEF Sym
  <2>7. \A q \in Proc : q # p => pc'[q] = pc[q] /\ note'[q] = note[q] BY <2>3, <1>00
  <2>8. note'[p] = d /\ pc'[p] = IF d.event = "none" THEN "save" ELSE "publish"
    BY <2>3, <1>00
  <2>9. \A q \in Proc : pc'[q] = "publish" =>
         /\ note'[q].event \in {"live", "over"}
         /\ note'[q].event = "live" <=> note'[q].next.phase # "none"
         /\ note'[q].event = "over" => heard[Sym(q)].news # "nothing"
    BY <2>2, <2>4, <2>5, <2>7, <2>8, <1>0 DEF Words
  <2>10. \A q \in Proc : pc'[q] = "save" /\ note'[q].next.phase # "none"
            => heard[Sym(q)].news # "nothing"
    BY <2>2, <2>5, <2>7, <2>8, <1>0 DEF Words
  <2> QED BY <2>3, <2>6, <2>9, <2>10, <1>0 DEF Words
<1>7. ASSUME NEW p \in Proc, Deliver(p) PROVE Words'
  <2>1. Sym(p) \in Symbol /\ note[p].event # "nothing"
    BY <1>0, <1>7, SymType DEF Deliver, Types, Telling, Words
  <2>2. /\ heard' = [heard EXCEPT ![Sym(p)] = [news |-> note[p].event, age |-> note[p].next.age]]
        /\ pc' = [pc EXCEPT ![p] = "save"] /\ UNCHANGED <<at, state, note>>
    BY <1>7 DEF Deliver, cycle
  <2>3. \A s \in Symbol : heard[s].news # "nothing" => heard'[s].news # "nothing"
    BY <2>1, <2>2, <1>00
  <2>4. heard'[Sym(p)].news # "nothing" BY <2>1, <2>2, <1>00
  <2>5. \A q \in Proc : Sym(q)' = Sym(q) BY <2>2 DEF Sym
  <2>6. \A q \in Proc : q # p => pc'[q] = pc[q] BY <2>2, <1>00
  <2>7. pc'[p] = "save" BY <2>2, <1>00
  <2>8. \A q \in Proc : pc'[q] \in {"publish", "save"} => Sym(q) \in Symbol
    BY <1>0, <2>1, <2>6, SymType DEF Telling
  <2> QED BY <2>2, <2>3, <2>4, <2>5, <2>6, <2>7, <2>8, <1>0 DEF Words
<1>8. ASSUME NEW p \in Proc, Save(p) PROVE Words'
  <2>1. Sym(p) \in Symbol /\ Watchlist # <<>>
    BY <1>0, <1>8, SymType DEF Save, Types, Telling
  <2>2. /\ state' = [state EXCEPT ![Sym(p)] = note[p].next] /\ Advance(p) /\ heard' = heard
        /\ \A q \in Proc : q # p => note'[q] = note[q]
    BY <1>8, <1>00 DEF Save
  <2>3. pc'[p] \in {"scan", "expire"} /\ \A q \in Proc : q # p => pc'[q] = pc[q] /\ at'[q] = at[q]
    BY <1>0, <2>1, <2>2, AdvanceType
  <2>4. \A q \in Proc : q # p => Sym(q)' = Sym(q) BY <2>3 DEF Sym
  <2>5. note[p].next.phase # "none" => heard[Sym(p)].news # "nothing"
    BY <1>0, <1>8 DEF Words, Save
  <2>6. \A s \in Symbol : state'[s].phase # "none" => heard'[s].news # "nothing"
    BY <2>1, <2>2, <2>5, <1>00, <1>0 DEF Words
  <2> QED BY <2>2, <2>3, <2>4, <2>6, <1>0 DEF Words
<1>9. CASE Tick
  <2>1. \A s \in Symbol : state'[s].phase = state[s].phase /\ heard'[s].news = heard[s].news
    BY <1>00, <1>9 DEF Tick, State
  <2>2. \A q \in Proc : note'[q].event = note[q].event /\ note'[q].next.phase = note[q].next.phase
    BY <1>00, <1>9 DEF Tick, Note, State
  <2>3. pc' = pc /\ at' = at /\ \A q \in Proc : Sym(q)' = Sym(q) BY <1>9 DEF Tick, Sym
  <2>4. \A q \in Proc : pc[q] \in {"publish", "save"} => Sym(q) \in Symbol
    BY <1>0, SymType DEF Telling
  <2> QED BY <2>1, <2>2, <2>3, <2>4, <1>0 DEF Words
<1>10. CASE UNCHANGED vars BY <1>10, Quiet DEF vars
<1> QED
  BY <1>1, <1>3, <1>4, <1>5, <1>6, <1>7, <1>8, <1>9, <1>10 DEF Next, Step

\* While it is calm there is one cycle.
LEMMA Alone ==
    ASSUME IInv, calm, NEW p \in Proc, pc[p] \notin {"idle", "claim"},
           NEW q \in Proc, q # p
    PROVE  pc[q] \in {"idle", "claim"}
<1>1. Cycling \in SUBSET Proc /\ IsFiniteSet(Proc) BY Constants DEF Cycling
<1>2. IsFiniteSet(Cycling) /\ Cardinality(Cycling) \in Nat
  BY <1>1, FS_Subset, FS_CardinalityType
<1>3. Cardinality(Cycling) = 0 \/ Cardinality(Cycling) = 1
  BY <1>2 DEF calm, IInv, Crowd
<1>4. p \in Cycling BY DEF Cycling
<1>5. CASE Cardinality(Cycling) = 1
  <2>1. PICK c : Cycling = {c} BY <1>2, <1>5, FS_Singleton
  <2>2. q \notin Cycling BY <1>4, <2>1
  <2> QED BY <2>2 DEF Cycling
<1>6. CASE Cardinality(Cycling) = 0 BY <1>2, <1>4, <1>6, FS_EmptySet
<1> QED BY <1>3, <1>5, <1>6

\* What was not calm does not become calm.
LEMMA CalmStays == ASSUME IInv, [Next]_vars PROVE calm' => calm
<1>0. /\ faults \in Nat /\ crowd \in Nat BY DEF IInv, Types, Crowd
<1>1. ASSUME NEW p \in Proc, Claim(p) PROVE calm' => calm
  <2>1. Cycling \in SUBSET Proc /\ IsFiniteSet(Proc) BY Constants DEF Cycling
  <2>2. Cardinality(Cycling) \in Nat BY <2>1, FS_Subset, FS_CardinalityType
  <2>3. /\ faults' = faults
        /\ crowd' = IF crowd < Cardinality(Cycling) + 1 THEN Cardinality(Cycling) + 1 ELSE crowd
    BY <1>1 DEF Claim
  <2> HIDE DEF Cycling
  <2> QED BY <1>0, <2>2, <2>3 DEF calm
<1>2. ASSUME UNCHANGED <<crowd, faults>> PROVE calm' => calm BY <1>2 DEF calm
<1>3. ASSUME NEW p \in Proc, CycleFails(p) \/ Crash(p) PROVE calm' => calm
  <2>1. faults' = faults + 1 BY <1>3 DEF CycleFails, Crash
  <2> QED BY <1>0, <2>1 DEF calm
<1>4. ASSUME NEW p \in Proc, Look(p) \/ Complete(p) \/ Within(p), ~CycleFails(p)
      PROVE  calm' => calm
  <2>1. UNCHANGED <<crowd, faults>>
    BY <1>4 DEF Look, Complete, Within, Skip, Find, Write, Consult, Deliver, Drop, Save, Expire
  <2> QED BY <1>2, <2>1
<1>5. CASE Tick \/ UNCHANGED vars BY <1>2, <1>5 DEF Tick, vars
<1> QED BY <1>1, <1>3, <1>4, <1>5 DEF Next, Step, Within

\* A calm step that announces and saves nothing leaves the calm part alone.
LEMMA Undisturbed ==
    ASSUME IInv, UNCHANGED <<state, heard>>, calm' => calm,
           \A q \in Proc : (pc'[q] = "save" <=> pc[q] = "save")
               /\ (pc[q] = "save" => note'[q] = note[q] /\ at'[q] = at[q])
    PROVE  Calm'
<1>1. Calm BY DEF IInv
<1>2. \A q \in Proc : pc[q] = "save" => Sym(q)' = Sym(q) BY DEF Sym
<1> QED BY <1>1, <1>2 DEF Calm

LEMMA CalmStep == ASSUME IInv, [Next]_vars PROVE Calm'
<1>0. Types /\ Calm /\ Words BY DEF IInv
<1>00. /\ pc \in [Proc -> Busy \union {"idle"}] /\ note \in [Proc -> Note]
       /\ state \in [Symbol -> State] /\ at \in [Proc -> Nat]
       /\ heard \in [Symbol -> [news : {"nothing", "live", "over"}, age : 0 .. Cooldown]]
  BY <1>0 DEF Types
<1>000. calm' => calm BY CalmStays
<1>1. ASSUME NEW p \in Proc, UNCHANGED <<state, heard>>,
             \A q \in Proc : q # p => pc'[q] = pc[q] /\ note'[q] = note[q] /\ at'[q] = at[q],
             pc[p] # "save", pc'[p] # "save"
      PROVE  Calm'
  BY <1>000, <1>1, Undisturbed
<1>2. ASSUME NEW p \in Proc,
             \/ Look(p) \/ Claim(p)
             \/ \E x \in Setup, score \in Score, actionable \in BOOLEAN :
                   Find(p, x, score, actionable)
      PROVE  Calm'
  BY <1>00, <1>1, <1>2 DEF Look, Claim, Find, cycle
<1>3. ASSUME NEW p \in Proc, Complete(p) \/ Expire(p) PROVE Calm'
  BY <1>00, <1>1, <1>3 DEF Complete, Expire, cycle
<1>4. ASSUME NEW p \in Proc, Skip(p) PROVE Calm'
  <2>1. pc[p] # "save" /\ Watchlist # <<>> /\ Advance(p) /\ UNCHANGED <<state, heard, note>>
    BY <1>4 DEF Skip
  <2> QED BY <2>1, <1>0, <1>1, AdvanceType
<1>5. ASSUME NEW p \in Proc, Drop(p) PROVE Calm'
  <2>1. pc[p] = "publish" /\ Advance(p) /\ UNCHANGED <<state, heard>>
        /\ \A q \in Proc : q # p => note'[q] = note[q]
    BY <1>00, <1>5 DEF Drop
  <2>2. Watchlist # <<>> BY <1>0, <2>1 DEF Types, Telling
  <2> QED BY <2>1, <2>2, <1>0, <1>1, AdvanceType
<1>6. ASSUME NEW p \in Proc, Write(p) PROVE Calm'
  <2>1. /\ pc[p] = "write" /\ UNCHANGED <<state, heard>> /\ Watchlist # <<>>
        /\ \/ /\ pc' = [pc EXCEPT ![p] = "notify"] /\ at' = at
              /\ note' = [note EXCEPT ![p] = [NoNote EXCEPT !.score = draft[p].news]]
           \/ Advance(p) /\ note' = note
    BY <1>0, <1>6 DEF Write, Types, Telling
  <2>2. CASE Advance(p) /\ note' = note BY <2>1, <2>2, <1>0, <1>1, AdvanceType
  <2>3. CASE /\ pc' = [pc EXCEPT ![p] = "notify"] /\ at' = at
             /\ note' = [note EXCEPT ![p] = [NoNote EXCEPT !.score = draft[p].news]]
    <3>1. pc'[p] = "notify" /\ \A q \in Proc : q # p
              => pc'[q] = pc[q] /\ note'[q] = note[q] /\ at'[q] = at[q]
      BY <2>3, <1>00
    <3> QED BY <2>1, <3>1, <1>1
  <2> QED BY <2>1, <2>2, <2>3
<1>7. ASSUME NEW p \in Proc, CycleFails(p) \/ Crash(p) PROVE Calm'
  <2>1. faults' = faults + 1 /\ faults \in Nat BY <1>0, <1>7 DEF CycleFails, Crash, Types
  <2>2. ~ calm' BY <2>1 DEF calm
  <2> QED BY <2>2 DEF Calm
<1>8. ASSUME NEW p \in Proc, Consult(p) PROVE Calm'
  <2> DEFINE d == Decide(state[Sym(p)], note[p].score)
  <2>1. state[Sym(p)] \in State /\ note[p].score \in Score /\ Sym(p) \in Symbol
    BY <1>0, <1>8, SymType DEF Consult, Types, Telling
  <2>2. d.event = "none" => (d.next.phase # "none" <=> state[Sym(p)].phase # "none")
    BY <2>1, DecideType
  <2>3. /\ pc[p] = "notify" /\ note' = [note EXCEPT ![p] = d]
        /\ pc' = [pc EXCEPT ![p] = IF d.event = "none" THEN "save" ELSE "publish"]
        /\ UNCHANGED <<at, state, heard, crowd, faults>>
    BY <1>8 DEF Consult, cycle
  <2> HIDE DEF d
  <2>4. \A q \in Proc : Sym(q)' = Sym(q) BY <2>3 DEF Sym
  <2>5. \A q \in Proc : q # p => pc'[q] = pc[q] /\ note'[q] = note[q] BY <2>3, <1>00
  <2>6. note'[p] = d /\ pc'[p] = IF d.event = "none" THEN "save" ELSE "publish"
    BY <2>3, <1>00
  <2>7. calm => \A q \in Proc : q # p => pc[q] # "save" BY <2>3, Alone
  <2>8. calm => \A s \in Symbol : state[s].phase # "none" <=> heard[s].news = "live"
    BY <2>3, <2>7, <1>0 DEF Calm
  <2>10. calm => \A q \in Proc : pc'[q] = "save"
            => (note'[q].next.phase # "none" <=> heard[Sym(q)].news = "live")
    BY <2>1, <2>2, <2>5, <2>6, <2>7, <2>8
  <2> QED BY <2>3, <2>4, <2>8, <2>10, <1>000 DEF Calm
<1>9. ASSUME NEW p \in Proc, Deliver(p) PROVE Calm'
  <2>1. Sym(p) \in Symbol /\ (note[p].event = "live" <=> note[p].next.phase # "none")
    BY <1>0, <1>9, SymType DEF Deliver, Types, Telling, Words
  <2>2. /\ heard' = [heard EXCEPT ![Sym(p)] = [news |-> note[p].event, age |-> note[p].next.age]]
        /\ pc[p] = "publish" /\ pc' = [pc EXCEPT ![p] = "save"]
        /\ UNCHANGED <<at, state, note>>
    BY <1>9 DEF Deliver, cycle
  <2>3. \A q \in Proc : Sym(q)' = Sym(q) BY <2>2 DEF Sym
  <2>4. pc'[p] = "save" /\ \A q \in Proc : q # p => pc'[q] = pc[q] BY <2>2, <1>00
  <2>5. calm => \A q \in Proc : q # p => pc[q] # "save" BY <2>2, Alone
  <2>6. heard'[Sym(p)].news = note[p].event /\ \A s \in Symbol : s # Sym(p) => heard'[s] = heard[s]
    BY <2>1, <2>2, <1>00
  <2>7. calm => \A s \in Symbol : s # Sym(p) => (state[s].phase # "none" <=> heard'[s].news = "live")
    BY <2>2, <2>5, <2>6, <1>0 DEF Calm
  <2>9. calm => \A q \in Proc : pc'[q] = "save" => q = p BY <2>4, <2>5
  <2>10. calm => \A q \in Proc : pc'[q] = "save"
            => (note[q].next.phase # "none" <=> heard'[Sym(q)].news = "live")
    BY <2>1, <2>6, <2>9
  <2> QED BY <2>2, <2>3, <2>4, <2>7, <2>10, <1>000 DEF Calm
<1>10. ASSUME NEW p \in Proc, Save(p) PROVE Calm'
  <2>1. Sym(p) \in Symbol /\ Watchlist # <<>>
    BY <1>0, <1>10, SymType DEF Save, Types, Telling
  <2>2. /\ state' = [state EXCEPT ![Sym(p)] = note[p].next] /\ Advance(p)
        /\ heard' = heard /\ pc[p] = "save"
    BY <1>10 DEF Save
  <2>3. pc'[p] \in {"scan", "expire"} /\ \A q \in Proc : q # p => pc'[q] = pc[q]
    BY <1>0, <2>1, <2>2, AdvanceType
  <2>4. calm => \A q \in Proc : q # p => pc[q] # "save" BY <2>2, Alone
  <2>5. calm => (note[p].next.phase # "none" <=> heard[Sym(p)].news = "live")
    BY <2>2, <1>0 DEF Calm
  <2>6. calm => \A s \in Symbol : s # Sym(p) => (state[s].phase # "none" <=> heard[s].news = "live")
    BY <2>2, <2>4, <1>0 DEF Calm
  <2>7. calm => \A s \in Symbol : state'[s].phase # "none" <=> heard[s].news = "live"
    BY <2>1, <2>2, <2>5, <2>6, <1>00
  <2>9. calm => \A q \in Proc : pc'[q] # "save" BY <2>3, <2>4
  <2> QED BY <2>2, <2>7, <2>9, <1>000 DEF Calm
<1>11. CASE Tick
  <2>1. \A s \in Symbol : state'[s].phase = state[s].phase /\ heard'[s].news = heard[s].news
    BY <1>00, <1>11 DEF Tick, State
  <2>2. \A q \in Proc : note'[q].next.phase = note[q].next.phase
    BY <1>00, <1>11 DEF Tick, Note, State
  <2>3. pc' = pc /\ \A q \in Proc : Sym(q)' = Sym(q) BY <1>11 DEF Tick, Sym
  <2>4. \A q \in Proc : pc[q] = "save" => Sym(q) \in Symbol
    BY <1>0, SymType DEF Telling
  <2> QED BY <2>1, <2>2, <2>3, <2>4, <1>0, <1>000 DEF Calm
<1>12. CASE UNCHANGED vars
  BY <1>000, <1>12, Undisturbed DEF vars
<1> QED
  BY <1>2, <1>3, <1>4, <1>5, <1>6, <1>7, <1>8, <1>9, <1>10, <1>11, <1>12 DEF Next, Step

\* What a decision without a message saves is as old as what it found, and a
\* message within a phase waits for the cooldown.
LEMMA DecideAge ==
    ASSUME NEW st, NEW score
    PROVE  LET d == Decide(st, score)
           IN  /\ d.event = "none" => d.next.age = st.age
               /\ d.event = "live" /\ st.phase \in {"strong", d.next.phase}
                     => ~ (st.age < Cooldown)
<1>1. Silent(st, score).next.age = st.age /\ Silent(st, score).event = "none" BY DEF Silent
<1>2. \A e \in {"live", "over"} :
        Told(score, e).event = e /\ Told(score, e).next.phase = PhaseFor(score)
  BY DEF Told
<1>3. /\ Repeat(st, score).event = "none" => Repeat(st, score).next.age = st.age
      /\ Repeat(st, score).event = "live" => ~ (st.age < Cooldown)
  <2>1. CASE st.score = -1 \/ Apart(st.score, score) < MinChange \/ st.age < Cooldown
    BY <1>1, <2>1 DEF Repeat
  <2>2. CASE ~(st.score = -1 \/ Apart(st.score, score) < MinChange \/ st.age < Cooldown)
    <3>1. Repeat(st, score) = Told(score, "live") BY <2>2 DEF Repeat
    <3> QED BY <1>2, <2>2, <3>1
  <2> QED BY <2>1, <2>2
<1>4. PhaseFor(score) \in {"none", "qualified", "strong"} BY DEF PhaseFor
<1>5. \/ Decide(st, score) = Silent(st, score)
      \/ Decide(st, score) = Told(score, "over")
      \/ Decide(st, score) = Repeat(st, score)
      \/ /\ Decide(st, score) = Told(score, "live")
         /\ \/ PhaseFor(score) = "strong" /\ st.phase # "strong"
            \/ PhaseFor(score) = "qualified" /\ st.phase = "none"
  BY <1>4 DEF Decide
<1>6. CASE /\ Decide(st, score) = Told(score, "live")
           /\ \/ PhaseFor(score) = "strong" /\ st.phase # "strong"
              \/ PhaseFor(score) = "qualified" /\ st.phase = "none"
  BY <1>2, <1>6
<1> QED BY <1>1, <1>2, <1>3, <1>5, <1>6

LEMMA AgesUndisturbed ==
    ASSUME Ages, UNCHANGED <<state, heard>>, calm' => calm,
           \A q \in Proc : (pc'[q] = "save" <=> pc[q] = "save")
               /\ (pc[q] = "save" => note'[q] = note[q] /\ at'[q] = at[q])
    PROVE  Ages'
<1>1. \A q \in Proc : pc[q] = "save" => Sym(q)' = Sym(q) BY DEF Sym
<1> QED BY <1>1 DEF Ages

LEMMA AgesStep == ASSUME IInv, [Next]_vars PROVE Ages'
<1>0. Types /\ Ages BY DEF IInv
<1>00. /\ pc \in [Proc -> Busy \union {"idle"}] /\ note \in [Proc -> Note]
       /\ state \in [Symbol -> State] /\ at \in [Proc -> Nat]
       /\ heard \in [Symbol -> [news : {"nothing", "live", "over"}, age : 0 .. Cooldown]]
  BY <1>0 DEF Types
<1>000. calm' => calm BY CalmStays
<1>1. ASSUME NEW p \in Proc, UNCHANGED <<state, heard>>,
             \A q \in Proc : q # p => pc'[q] = pc[q] /\ note'[q] = note[q] /\ at'[q] = at[q],
             pc[p] # "save", pc'[p] # "save"
      PROVE  Ages'
  BY <1>0, <1>000, <1>1, AgesUndisturbed
<1>2. ASSUME NEW p \in Proc,
             \/ Look(p) \/ Claim(p)
             \/ \E x \in Setup, score \in Score, actionable \in BOOLEAN :
                   Find(p, x, score, actionable)
      PROVE  Ages'
  BY <1>00, <1>1, <1>2 DEF Look, Claim, Find, cycle
<1>3. ASSUME NEW p \in Proc, Complete(p) \/ Expire(p) PROVE Ages'
  BY <1>00, <1>1, <1>3 DEF Complete, Expire, cycle
<1>4. ASSUME NEW p \in Proc, Skip(p) \/ Drop(p) PROVE Ages'
  <2>1. /\ pc[p] # "save" /\ Advance(p) /\ UNCHANGED <<state, heard>>
        /\ \A q \in Proc : q # p => note'[q] = note[q]
    BY <1>00, <1>4 DEF Skip, Drop
  <2>2. Watchlist # <<>> BY <1>0, <1>4 DEF Skip, Drop, Types, Telling
  <2> QED BY <2>1, <2>2, <1>0, <1>1, AdvanceType
<1>5. ASSUME NEW p \in Proc, Write(p) PROVE Ages'
  <2>1. /\ pc[p] = "write" /\ UNCHANGED <<state, heard>> /\ Watchlist # <<>>
        /\ \/ /\ pc' = [pc EXCEPT ![p] = "notify"] /\ at' = at
              /\ note' = [note EXCEPT ![p] = [NoNote EXCEPT !.score = draft[p].news]]
           \/ Advance(p) /\ note' = note
    BY <1>0, <1>5 DEF Write, Types, Telling
  <2>2. CASE Advance(p) /\ note' = note BY <2>1, <2>2, <1>0, <1>1, AdvanceType
  <2>3. CASE /\ pc' = [pc EXCEPT ![p] = "notify"] /\ at' = at
             /\ note' = [note EXCEPT ![p] = [NoNote EXCEPT !.score = draft[p].news]]
    <3>1. pc'[p] = "notify" /\ \A q \in Proc : q # p
              => pc'[q] = pc[q] /\ note'[q] = note[q] /\ at'[q] = at[q]
      BY <2>3, <1>00
    <3> QED BY <2>1, <3>1, <1>1
  <2> QED BY <2>1, <2>2, <2>3
<1>6. ASSUME NEW p \in Proc, CycleFails(p) \/ Crash(p) PROVE Ages'
  <2>1. faults' = faults + 1 /\ faults \in Nat BY <1>0, <1>6 DEF CycleFails, Crash, Types
  <2>2. ~ calm' BY <2>1 DEF calm
  <2> QED BY <2>2 DEF Ages
<1>7. ASSUME NEW p \in Proc, Consult(p) PROVE Ages'
  <2> DEFINE d == Decide(state[Sym(p)], note[p].score)
  <2>1. d.event = "none" => d.next.age = state[Sym(p)].age BY DecideAge
  <2>2. /\ pc[p] = "notify" /\ note' = [note EXCEPT ![p] = d]
        /\ pc' = [pc EXCEPT ![p] = IF d.event = "none" THEN "save" ELSE "publish"]
        /\ UNCHANGED <<at, state, heard>>
    BY <1>7 DEF Consult, cycle
  <2> HIDE DEF d
  <2>3. \A q \in Proc : Sym(q)' = Sym(q) BY <2>2 DEF Sym
  <2>4. \A q \in Proc : q # p => pc'[q] = pc[q] BY <2>2, <1>00
  <2>5. note'[p] = d /\ pc'[p] = IF d.event = "none" THEN "save" ELSE "publish"
    BY <2>2, <1>00
  <2>6. calm => \A q \in Proc : pc[q] # "save" BY <2>2, Alone
  <2>7. calm => \A s \in Symbol : state[s].age <= heard[s].age BY <2>6, <1>0 DEF Ages
  <2>8. Sym(p) \in Symbol BY <2>2, <1>0, SymType DEF Telling
  <2>9. calm => \A q \in Proc : pc'[q] = "save" => note'[q].next.age <= heard[Sym(q)].age
    BY <2>1, <2>4, <2>5, <2>6, <2>7, <2>8
  <2> QED BY <2>2, <2>3, <2>7, <2>9, <1>000 DEF Ages
<1>8. ASSUME NEW p \in Proc, Deliver(p) PROVE Ages'
  <2>1. Sym(p) \in Symbol /\ note[p] \in Note
    BY <1>0, <1>00, <1>8, SymType DEF Deliver, Telling
  <2>2. /\ heard' = [heard EXCEPT ![Sym(p)] = [news |-> note[p].event, age |-> note[p].next.age]]
        /\ pc[p] = "publish" /\ pc' = [pc EXCEPT ![p] = "save"]
        /\ UNCHANGED <<at, state, note>>
    BY <1>8 DEF Deliver, cycle
  <2>3. \A q \in Proc : Sym(q)' = Sym(q) BY <2>2 DEF Sym
  <2>4. pc'[p] = "save" /\ \A q \in Proc : q # p => pc'[q] = pc[q] BY <2>2, <1>00
  <2>5. calm => \A q \in Proc : pc[q] # "save" BY <2>2, Alone
  <2>6. heard'[Sym(p)].age = note[p].next.age /\ \A s \in Symbol : s # Sym(p) => heard'[s] = heard[s]
    BY <2>1, <2>2, <1>00
  <2>7. calm => \A s \in Symbol : s # Sym(p) => state[s].age <= heard'[s].age
    BY <2>5, <2>6, <1>0 DEF Ages
  <2>8. calm => \A q \in Proc : pc'[q] = "save" => q = p BY <2>4, <2>5
  <2>9. calm => \A q \in Proc : pc'[q] = "save" => note[q].next.age <= heard'[Sym(q)].age
    <3>1. note[p].next.age \in Int BY <2>1, Constants DEF Note, State
    <3> QED BY <2>6, <2>8, <3>1
  <2> QED BY <2>2, <2>3, <2>4, <2>7, <2>9, <1>000 DEF Ages
<1>9. ASSUME NEW p \in Proc, Save(p) PROVE Ages'
  <2>1. Sym(p) \in Symbol /\ Watchlist # <<>>
    BY <1>0, <1>9, SymType DEF Save, Types, Telling
  <2>2. /\ state' = [state EXCEPT ![Sym(p)] = note[p].next] /\ Advance(p)
        /\ heard' = heard /\ pc[p] = "save"
    BY <1>9 DEF Save
  <2>3. pc'[p] \in {"scan", "expire"} /\ \A q \in Proc : q # p => pc'[q] = pc[q]
    BY <1>0, <2>1, <2>2, AdvanceType
  <2>4. calm => \A q \in Proc : q # p => pc[q] # "save" BY <2>2, Alone
  <2>5. calm => note[p].next.age <= heard[Sym(p)].age BY <2>2, <1>0 DEF Ages
  <2>6. calm => \A s \in Symbol : s # Sym(p) => state[s].age <= heard[s].age
    BY <2>2, <2>4, <1>0 DEF Ages
  <2>7. calm => \A s \in Symbol : state'[s].age <= heard[s].age
    BY <2>1, <2>2, <2>5, <2>6, <1>00
  <2>8. calm => \A q \in Proc : pc'[q] # "save" BY <2>3, <2>4
  <2> QED BY <2>2, <2>7, <2>8, <1>000 DEF Ages
<1>10. CASE Tick
  <2>1. \A a, b \in 0 .. Cooldown : a <= b => Up(a, Cooldown) <= Up(b, Cooldown)
    BY Constants DEF Up
  <2>2. \A s \in Symbol : /\ state'[s].age = Up(state[s].age, Cooldown)
                          /\ heard'[s].age = Up(heard[s].age, Cooldown)
                          /\ state[s].age \in 0 .. Cooldown /\ heard[s].age \in 0 .. Cooldown
    BY <1>00, <1>10 DEF Tick, State
  <2>3. \A q \in Proc : /\ note'[q].next.age = Up(note[q].next.age, Cooldown)
                        /\ note[q].next.age \in 0 .. Cooldown
    BY <1>00, <1>10 DEF Tick, Note, State
  <2>4. pc' = pc /\ \A q \in Proc : Sym(q)' = Sym(q) BY <1>10 DEF Tick, Sym
  <2>5. \A q \in Proc : pc[q] = "save" => Sym(q) \in Symbol
    BY <1>0, SymType DEF Telling
  <2>6. calm => \A s \in Symbol : (\A q \in Proc : pc[q] = "save" => Sym(q) # s)
            => state'[s].age <= heard'[s].age
    BY <2>1, <2>2, <1>0 DEF Ages
  <2>7. calm => \A q \in Proc : pc[q] = "save" => note'[q].next.age <= heard'[Sym(q)].age
    BY <2>1, <2>2, <2>3, <2>5, <1>0 DEF Ages
  <2> QED BY <2>4, <2>6, <2>7, <1>000 DEF Ages
<1>11. CASE UNCHANGED vars BY <1>0, <1>000, <1>11, AgesUndisturbed DEF vars
<1> QED BY <1>2, <1>3, <1>4, <1>5, <1>6, <1>7, <1>8, <1>9, <1>10, <1>11 DEF Next, Step

-----------------------------------------------------------------------------
(* The theorems *)

LEMMA InvInit == Init => IInv
<1> SUFFICES ASSUME Init PROVE IInv OBVIOUS
<1>1. Types BY TypesInit
<1>2. /\ \A p \in Proc : pc[p] = "idle" /\ since[p] = 0
      /\ \A s \in Symbol : state[s].phase = "none" /\ heard[s].news = "nothing"
  BY Blank DEF Init, NoState
<1>3. Cycling = {} /\ crowd = 0 BY <1>2 DEF Cycling, Init
<1>4. Leases BY <1>2, <1>3 DEF Leases, LeaseProtects
<1>5. Cardinality({}) = 0 /\ IsFiniteSet({}) BY FS_EmptySet
<1>6. Crowd
  <2>1. Cardinality(Proc) \in Nat BY Constants, FS_CardinalityType
  <2> QED BY <1>3, <1>5, <2>1 DEF Crowd
<1>7. Duplicates
  <2> SUFFICES ASSUME NEW s \in Symbol, NEW x \in Setup PROVE Counted(s, x) BY DEF Duplicates
  <2>1. Found(s, x) = {} BY Blank DEF Found, Active, Init
  <2>2. Writing(s, x) = {} BY <1>2 DEF Writing
  <2>3. Touched(s, x) = {} /\ Creating(s, x) = {} BY <2>1, <2>2 DEF Touched, Creating
  <2> QED BY <2>3, <1>3, <1>5 DEF Counted
<1>8. Words /\ Calm BY <1>2 DEF Words, Calm
<1>9. \A s \in Symbol : state[s].age = Cooldown /\ heard[s].age = Cooldown
  BY DEF Init, NoState
<1>10. Ages BY <1>2, <1>9, Constants DEF Ages
<1> QED BY <1>1, <1>4, <1>6, <1>7, <1>8, <1>10 DEF IInv

\* The inductive invariant of the scan cycles holds in every reachable state.
THEOREM Invariance == Spec => []IInv
<1>1. IInv /\ [Next]_vars => IInv'
  BY TypesStep, LeasesStep, CrowdStep, DuplicatesStep, WordsStep, CalmStep, AgesStep DEF IInv
<1> QED BY InvInit, <1>1, PTL DEF Spec

\* Every variable keeps its type.
THEOREM TypeCorrect == Spec => []TypeOK
<1>1. IInv => TypeOK
  <2> SUFFICES ASSUME IInv PROVE TypeOK OBVIOUS
  <2>1. Types BY DEF IInv
  <2>2. \A p \in Proc : note[p].event \in {"none", "live", "over"} /\ note[p].next \in State
    BY <2>1 DEF Types, Note
  <2>3. pc \in [Proc -> {"idle", "claim", "scan", "write", "notify", "publish", "save", "expire",
                       "complete", "failed"}]
    BY <2>1 DEF Types, Busy
  <2>4. \A p \in Proc : pc[p] \in {"notify", "publish", "save"} => at[p] \in DOMAIN Watchlist
    BY <2>1, SymType DEF Telling
  <2>5. crowd \in 0 .. Cardinality(Proc)
    <3>1. Cardinality(Proc) \in Nat BY Constants, FS_CardinalityType
    <3> QED BY <3>1 DEF IInv, Crowd
  <2> QED BY <2>1, <2>2, <2>3, <2>4, <2>5 DEF TypeOK, Types
<1> QED BY Invariance, <1>1, PTL

\* However many invocations the scheduler starts and whenever each reads and
\* takes the lease, two cycles are within their leases only when one took its
\* own before the other had read that there was none.
THEOREM LeaseProtectsHolds == Spec => []LeaseProtects
<1>1. IInv => LeaseProtects BY DEF IInv, Leases
<1> QED BY Invariance, <1>1, PTL

\* An identity has at most as many active rows as there were cycles at once,
\* whatever overlaps, fails or dies.
THEOREM DuplicatesBoundedHolds == Spec => []DuplicatesBounded
<1>1. IInv => DuplicatesBounded
  <2> SUFFICES ASSUME IInv, NEW s \in Symbol, NEW x \in Setup
               PROVE  Cardinality(Found(s, x)) <= crowd
    BY DEF DuplicatesBounded, Found
  <2> DEFINE T == Touched(s, x)
             C == Creating(s, x)
             R == Found(s, x)
  <2>1. IsFiniteSet(T) /\ Cardinality(T) + Cardinality(C) <= crowd /\ crowd \in Nat
    BY DEF IInv, Duplicates, Counted, Crowd
  <2>2. R \in SUBSET T BY DEF Touched
  <2>3. C \in SUBSET Proc BY DEF Creating, Writing
  <2>4. IsFiniteSet(C) BY <2>3, Constants, FS_Subset
  <2>5. /\ Cardinality(R) <= Cardinality(T) /\ Cardinality(R) \in Nat
        /\ Cardinality(T) \in Nat /\ Cardinality(C) \in Nat
    BY <2>1, <2>2, <2>4, FS_Subset, FS_CardinalityType
  <2> HIDE DEF T, C, R
  <2>6. Cardinality(R) <= crowd BY <2>1, <2>5
  <2> QED BY <2>6 DEF R
<1> QED BY Invariance, <1>1, PTL

\* Without faults and overlaps the policy remembers what the reader was told.
THEOREM PolicyKnowsReaderHolds == Spec => []PolicyKnowsReader
<1>1. IInv => PolicyKnowsReader BY DEF IInv, Calm, PolicyKnowsReader
<1> QED BY Invariance, <1>1, PTL

\* Without faults and overlaps two messages of the same phase are decided on at
\* least a cooldown apart, however long the first took to be delivered.
THEOREM RepeatsApartHolds == Spec => RepeatsApart
<1> DEFINE A == \A p \in Proc :
                   /\ Consult(p) /\ calm /\ note'[p].event = "live"
                   /\ state[Sym(p)].phase \in {"strong", note'[p].next.phase}
                   => heard[Sym(p)].age >= Cooldown
<1>1. IInv => [A]_vars
  <2> SUFFICES ASSUME IInv, NEW p \in Proc, Consult(p), calm, note'[p].event = "live",
                      state[Sym(p)].phase \in {"strong", note'[p].next.phase}
               PROVE  heard[Sym(p)].age >= Cooldown
    OBVIOUS
  <2> DEFINE d == Decide(state[Sym(p)], note[p].score)
  <2>1. pc[p] = "notify" /\ note' = [note EXCEPT ![p] = d] BY DEF Consult
  <2>2. d.event = "live" /\ state[Sym(p)].phase \in {"strong", d.next.phase}
           => ~ (state[Sym(p)].age < Cooldown)
    BY DecideAge
  <2> HIDE DEF d
  <2>3. note'[p] = d BY <2>1 DEF IInv, Types
  <2>4. Sym(p) \in Symbol BY <2>1, SymType DEF IInv, Telling
  <2>5. \A q \in Proc : pc[q] # "save" BY <2>1, Alone
  <2>6. state[Sym(p)].age <= heard[Sym(p)].age BY <2>4, <2>5 DEF IInv, Ages
  <2>7. /\ state[Sym(p)].age \in 0 .. Cooldown /\ heard[Sym(p)].age \in 0 .. Cooldown
        /\ Cooldown \in Nat
    BY <2>4, Constants DEF IInv, Types, State
  <2> QED BY <2>2, <2>3, <2>6, <2>7
<1> QED BY Invariance, <1>1, PTL DEF RepeatsApart

\* No lapse is announced of a signal that was never announced.
THEOREM OverWasLiveHolds == Spec => OverWasLive
<1> DEFINE A == \A s \in Symbol : heard'[s].news = "over" => heard[s].news # "nothing"
<1>1. IInv /\ [Next]_vars => [A]_vars
  <2> SUFFICES ASSUME IInv, Next PROVE A OBVIOUS
  <2>0. Types /\ Words
        /\ heard \in [Symbol -> [news : {"nothing", "live", "over"}, age : 0 .. Cooldown]]
    BY DEF IInv, Types
  <2>1. ASSUME NEW p \in Proc, Deliver(p) PROVE A
    <3>1. Sym(p) \in Symbol /\ (note[p].event = "over" => heard[Sym(p)].news # "nothing")
      BY <2>0, <2>1, SymType DEF Deliver, Telling, Words
    <3>2. heard' = [heard EXCEPT ![Sym(p)] = [news |-> note[p].event, age |-> note[p].next.age]]
      BY <2>1 DEF Deliver
    <3> QED BY <3>1, <3>2, <2>0
  <2>2. CASE Tick
    <3>1. \A s \in Symbol : heard'[s].news = heard[s].news BY <2>0, <2>2 DEF Tick
    <3> QED BY <3>1
  <2>3. CASE heard' = heard BY <2>3
  <2>4. ASSUME NEW p \in Proc, Write(p) PROVE heard' = heard
    BY <2>4 DEF Write
  <2>5. ASSUME NEW p \in Proc,
               \/ Look(p) \/ Claim(p) \/ Skip(p) \/ Consult(p) \/ Drop(p) \/ Save(p)
               \/ Expire(p) \/ Complete(p) \/ CycleFails(p) \/ Crash(p)
               \/ \E x \in Setup, score \in Score, actionable \in BOOLEAN :
                     Find(p, x, score, actionable)
        PROVE  heard' = heard
    BY <2>5 DEF Look, Claim, Find, Skip, Consult, Drop, Save, Expire, Complete, CycleFails, Crash
  <2> HIDE DEF A
  <2> QED BY <2>1, <2>2, <2>3, <2>4, <2>5 DEF Next, Step
<1> QED BY Invariance, <1>1, PTL DEF Spec, OverWasLive
=============================================================================
