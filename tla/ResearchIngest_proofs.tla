------------------------ MODULE ResearchIngest_proofs ------------------------
(***************************************************************************)
(* Proofs about ResearchIngest, for any companies and filings, any history *)
(* of days and any number of failures, crashes and operator runs.  Beside  *)
(* the types and the two invariants the invariant says what the filing in  *)
(* hand and the pending ones are (Hand), that only filed accessions have a *)
(* state (Made), and what a collection has read so far (Reads).            *)
(***************************************************************************)
EXTENDS ResearchIngest, SequenceTheorems, TLAPS

Handling == {"stored", "enrich", "reading", "read"}
Working == Handling \union {"company"}

Hand ==
    /\ pc \in Working => newest \in Filing
    /\ pc \in Working /\ acc[newest] = "DISCOVERED"
         => newest \in todo \/ (pc = "stored" /\ file = newest)
    /\ pc \in Handling => /\ file \in Yields \cap events /\ file \notin todo
                          /\ filed[file] > 0 /\ acc[file] \notin Terminal
    /\ \A f \in todo : acc[f] \notin Terminal /\ filed[f] > 0

Made == \A f \in Filing : acc[f] # "DISCOVERED" => filed[f] > 0

Reads ==
    /\ \A x \in read : doc[x] = "OK"
    /\ \A x \in left : doc[x] # "OK"
    /\ pc \in {"reading", "read"} =>
         \A x \in Document : x[1] = file => x \in left \/ doc[x] = "OK" \/ verdict # "OK"
    /\ pc = "read" => left = {}

\* What no step may undo.
StaysRead == \A x \in Document : doc[x] = "OK" => doc'[x] = "OK"
StaysFinished == \A f \in Filing : acc[f] \in Terminal => acc'[f] = acc[f]

IInv == TypeOK /\ Hand /\ Made /\ Reads /\ RecordedIsStored /\ CompleteWasRead

-----------------------------------------------------------------------------
(* The operators *)

LEMMA Constants ==
    /\ Owner \in [Filing -> Company] /\ Yields \subseteq Filing
    /\ LastDay \in Nat /\ LastDay > 0 /\ MaxFaults \in Nat /\ CatchUp \in Nat
    /\ Window \in Nat /\ Len(Backoff) \in Nat /\ Len(Backoff) > 0
    /\ \A n \in 1 .. Len(Backoff) : Backoff[n] \in Nat
    /\ "none" \notin Filing
<1>1. Backoff \in Seq(Nat) /\ Len(Backoff) > 0 BY IngestAssumption
<1>2. Len(Backoff) \in Nat /\ \A n \in 1 .. Len(Backoff) : Backoff[n] \in Nat
  BY <1>1, LenProperties, ElementOfSeq
<1> QED BY <1>1, <1>2, IngestAssumption

LEMMA DocumentType ==
    ASSUME NEW x \in Document
    PROVE  x[1] \in Filing /\ x[2] \in 1 .. Docs[x[1]]
BY DEF Document

LEMMA LeastType ==
    ASSUME NEW a \in Int, NEW b \in Int
    PROVE  Least(a, b) \in {a, b} /\ Least(a, b) <= a /\ Least(a, b) <= b
BY DEF Least

\* The days a run has to read lie between the beginning and the day it starts on.
LEMMA PastType ==
    ASSUME TypeOK, NEW d \in PendingDays, d < day
    PROVE  d \in 0 .. LastDay
BY Constants DEF TypeOK, PendingDays, NoCursor

\* A company that gives up keeps a checkpoint, and its last accession.
LEMMA GivesUpType ==
    ASSUME TypeOK, NEW c \in Company, GivesUp(c)
    PROVE  /\ check' \in [Company -> Checkpoint]
           /\ \A e \in Company : check'[e].seen = check[e].seen
           /\ targets' \subseteq Company /\ failed' \in BOOLEAN
<1>1. check[c] \in Checkpoint /\ check \in [Company -> Checkpoint] BY DEF TypeOK
<1> DEFINE n == Least(check[c].failures + 1, Len(Backoff))
<1>2. n \in 1 .. Len(Backoff) BY <1>1, LeastType, Constants DEF Checkpoint
<1>3. Backoff[n] \in Nat /\ n \in Nat BY <1>2, Constants
<1>4. check' = [check EXCEPT ![c] = [@ EXCEPT !.failures = n, !.wait = Backoff[n]]]
  BY <1>1 DEF GivesUp, Checkpoint
<1> HIDE DEF n
<1>5. [check[c] EXCEPT !.failures = n, !.wait = Backoff[n]] \in Checkpoint
  BY <1>1, <1>3 DEF Checkpoint
<1>6. check' \in [Company -> Checkpoint]
      /\ \A e \in Company : check'[e].seen = check[e].seen
  BY <1>1, <1>4, <1>5 DEF Checkpoint
<1> QED BY <1>6 DEF GivesUp, TypeOK

LEMMA TypeOKStep == ASSUME IInv, [Next]_vars PROVE TypeOK'
<1>0. TypeOK /\ Hand BY DEF IInv
<1>1. CASE Start
  <2>1. PICK out \in SUBSET {d \in PendingDays : d < day /\ d > 0 /\ d \notin Holiday} :
            /\ out # {} => May("index")
            /\ faults' = faults + IF out = {} THEN 0 ELSE 1
            /\ FromIndex(out)
    BY <1>0, <1>1 DEF Start
  <2>2. faults' \in 0 .. MaxFaults BY <1>0, <2>1, Constants DEF May, TypeOK
  <2>3. reached' \in NoCursor .. LastDay
    <3>1. reached' = NoCursor \/ \E d \in PendingDays : d < day /\ reached' = d
      BY <2>1 DEF FromIndex
    <3> QED BY <3>1, <1>0, PastType, Constants DEF NoCursor
  <2>4. targets' \subseteq Company /\ scope' \in [Company -> SUBSET Filing]
    BY <2>1, Constants DEF FromIndex, UnfinishedOf
  <2> QED BY <1>0, <1>1, <2>2, <2>3, <2>4 DEF Start, TypeOK, store, memory
<1>2. CASE Finish
  <2>1. cursor' \in NoCursor .. LastDay BY <1>0, <1>2 DEF Finish, TypeOK
  <2>2. reached' \in NoCursor .. LastDay BY <1>0, <1>2, Constants DEF Finish, NoCursor
  <2>3. scope' \in [Company -> SUBSET Filing] BY <1>0, <1>2 DEF Finish
  <2> QED BY <1>0, <1>2, <2>1, <2>2, <2>3 DEF Finish, TypeOK, store, memory
<1>3. CASE Succeed
  <2>1. Owner[newest] \in Company /\ newest \in Filing
    BY <1>0, <1>3, Constants DEF Succeed, Hand, Working
  <2>2. check' \in [Company -> Checkpoint]
    BY <1>0, <1>3, <2>1 DEF Succeed, TypeOK, Checkpoint
  <2> QED BY <1>0, <1>3, <2>2 DEF Succeed, TypeOK, store, memory
<1>4. CASE MarkStored
  BY <1>0, <1>4, Constants DEF MarkStored, TypeOK, store, memory, State, Unfinished
<1>5. CASE NothingToRead
  BY <1>0, <1>5 DEF NothingToRead, Settled, TypeOK, store, memory, State, Terminal, Status
<1>6. CASE Collect
  BY <1>0, <1>6 DEF Collect, TypeOK, store, memory, DocStatus, Manifest
<1>7. CASE StoreFacts
  BY <1>0, <1>7 DEF StoreFacts, TypeOK, store, memory
<1>8. CASE Enriched
  <2>1. Outcome(verdict) \in State BY DEF Outcome, State, Terminal, Unfinished
  <2> QED BY <1>0, <1>8, <2>1 DEF Enriched, Settled, TypeOK, store, memory, Status
<1>9. ASSUME NEW c \in Company, BackedOff(c) PROVE TypeOK'
  BY <1>0, <1>9 DEF BackedOff, TypeOK, store, memory
<1>10. ASSUME NEW c \in Company, UpToDate(c) PROVE TypeOK'
  <2>1. check' \in [Company -> Checkpoint] BY <1>0, <1>10 DEF UpToDate, TypeOK, Checkpoint
  <2> QED BY <1>0, <1>10, <2>1 DEF UpToDate, TypeOK, store, memory
<1>11. ASSUME NEW c \in Company, Consult(c) PROVE TypeOK'
  BY <1>0, <1>11 DEF Consult, TypeOK, store, memory, Pending
<1>12. ASSUME NEW f \in Filing, NoEvent(f) PROVE TypeOK'
  BY <1>0, <1>12 DEF NoEvent, TypeOK, store, memory, State, Terminal
<1>13. ASSUME NEW f \in Filing, StoreEvents(f) PROVE TypeOK'
  BY <1>0, <1>13 DEF StoreEvents, TypeOK, store, memory
<1>14. ASSUME NEW x \in Document, NEW status \in Status, ReadDocument(x, status) PROVE TypeOK'
  <2>1. verdict' \in Status /\ status \in DocStatus
    BY <1>0, <1>14 DEF ReadDocument, Verdict, Status, DocStatus, TypeOK
  <2>2. faults' \in 0 .. MaxFaults BY <1>0, <1>14, Constants DEF ReadDocument, May, TypeOK
  <2> QED BY <1>0, <1>14, <2>1, <2>2 DEF ReadDocument, TypeOK, store, memory
<1>15. CASE Uncollected
  <2>1. faults' \in 0 .. MaxFaults BY <1>0, <1>15, Constants DEF Uncollected, May, TypeOK
  <2>2. acc' \in [Filing -> State]
    BY <1>0, <1>15 DEF Uncollected, Settled, TypeOK, State, Unfinished
  <2>3. "OK" \in Status BY DEF Status
  <2> QED BY <1>0, <1>15, <2>1, <2>2, <2>3 DEF Uncollected, Settled, TypeOK, store, memory
<1>16. CASE Breaks
  <2>1. Owner[newest] \in Company
    BY <1>0, <1>16, Constants DEF Breaks, Hand, Working, Handling
  <2>2. faults' \in 0 .. MaxFaults
    BY <1>0, <1>16, Constants DEF Breaks, GivesUp, May, TypeOK
  <2> QED BY <1>0, <1>16, <2>1, <2>2, GivesUpType DEF Breaks, TypeOK, store, memory
<1>17. CASE Crash
  <2>1. faults' \in 0 .. MaxFaults BY <1>0, <1>17, Constants DEF Crash, May, TypeOK
  <2>2. reached' \in NoCursor .. LastDay BY <1>0, <1>17, Constants DEF Crash, NoCursor
  <2>3. scope' \in [Company -> SUBSET Filing] /\ verdict' \in Status
    BY <1>0, <1>17 DEF Crash, Status
  <2> QED BY <1>0, <1>17, <2>1, <2>2, <2>3 DEF Crash, TypeOK, store, memory
<1>18. CASE Tick
  <2>1. day' \in 1 .. LastDay BY <1>0, <1>18, Constants DEF Tick, TypeOK, Least
  <2>2. check' \in [Company -> Checkpoint]
    <3>1. \A c \in Company : check[c] \in Checkpoint BY <1>0 DEF TypeOK
    <3>2. \A c \in Company : [check[c] EXCEPT !.wait = IF @ > 0 THEN @ - 1 ELSE 0] \in Checkpoint
      BY <3>1 DEF Checkpoint
    <3> QED BY <3>2, <1>18 DEF Tick
  <2> QED BY <1>0, <1>18, <2>1, <2>2 DEF Tick, TypeOK, store, memory
<1>19. ASSUME NEW C \in SUBSET Company, Sweep(C) PROVE TypeOK'
  <2>1. faults' \in 0 .. MaxFaults BY <1>0, <1>19, Constants DEF Sweep, May, TypeOK
  <2>2. reached' \in NoCursor .. LastDay BY <1>0, <1>19, Constants DEF Sweep, NoCursor
  <2>3. scope' \in [Company -> SUBSET Filing] BY <1>0, <1>19 DEF Sweep
  <2> QED BY <1>0, <1>19, <2>1, <2>2, <2>3 DEF Sweep, TypeOK, store, memory
<1>20. ASSUME NEW c \in Company, Unreachable(c) PROVE TypeOK'
  <2>1. faults' \in 0 .. MaxFaults
    BY <1>0, <1>20, Constants DEF Unreachable, GivesUp, May, TypeOK
  <2> QED BY <1>0, <1>20, <2>1, GivesUpType DEF Unreachable, TypeOK, store, memory
<1>21. ASSUME NEW f \in Filing, File(f) PROVE TypeOK'
  BY <1>0, <1>21 DEF File, TypeOK, store, memory
<1>22. CASE UNCHANGED vars BY <1>0, <1>22 DEF vars, store, memory, TypeOK
<1> QED
  BY <1>1, <1>2, <1>3, <1>4, <1>5, <1>6, <1>7, <1>8, <1>9, <1>10, <1>11, <1>12, <1>13,
     <1>14, <1>15, <1>16, <1>17, <1>18, <1>19, <1>20, <1>21, <1>22 DEF Next, Work

LEMMA HandStep == ASSUME IInv, [Next]_vars PROVE Hand'
<1>0. TypeOK /\ Hand BY DEF IInv
<1>1. CASE Start
  BY <1>0, <1>1 DEF Start, TypeOK, Hand, Handling, Working, store, memory
<1>2. CASE Finish
  BY <1>0, <1>2 DEF Finish, TypeOK, Hand, Handling, Working, store, memory
<1>3. CASE Succeed
  BY <1>0, <1>3 DEF Succeed, TypeOK, Hand, Handling, Working, store, memory
<1>4. CASE MarkStored
  BY <1>0, <1>4, Constants DEF MarkStored, TypeOK, Hand, Handling, Working, store, memory,
     Terminal
<1>5. CASE NothingToRead
  BY <1>0, <1>5, Constants DEF NothingToRead, Settled, TypeOK, Hand, Handling, Working,
     store, memory, Terminal
<1>6. CASE Collect
  BY <1>0, <1>6 DEF Collect, TypeOK, Hand, Handling, Working, store, memory
<1>7. CASE StoreFacts
  BY <1>0, <1>7 DEF StoreFacts, TypeOK, Hand, Handling, Working, store, memory
<1>8. CASE Enriched
  <2>1. Outcome(verdict) # "DISCOVERED" BY DEF Outcome
  <2> QED
    BY <1>0, <1>8, <2>1, Constants DEF Enriched, Settled, TypeOK, Hand, Handling, Working,
       store, memory
<1>9. ASSUME NEW c \in Company, BackedOff(c) PROVE Hand'
  BY <1>0, <1>9 DEF BackedOff, TypeOK, Hand, Handling, Working, store, memory
<1>10. ASSUME NEW c \in Company, UpToDate(c) PROVE Hand'
  BY <1>0, <1>10 DEF UpToDate, TypeOK, Hand, Handling, Working, store, memory
<1>11. ASSUME NEW c \in Company, Consult(c) PROVE Hand'
  <2>1. /\ newest' \in todo' /\ newest' \in Filing /\ pc' = "company" /\ todo' = Pending(c)
        /\ acc' = acc /\ filed' = filed
    <3>1. PICK f \in Pending(c) : newest' = f BY <1>0, <1>11 DEF Consult
    <3> QED BY <1>0, <1>11, <3>1 DEF Consult, Pending, TypeOK, store
  <2> QED BY <2>1 DEF Hand, Handling, Working, Pending
<1>12. ASSUME NEW f \in Filing, NoEvent(f) PROVE Hand'
  BY <1>0, <1>12 DEF NoEvent, TypeOK, Hand, Handling, Working, store, memory
<1>13. ASSUME NEW f \in Filing, StoreEvents(f) PROVE Hand'
  BY <1>0, <1>13, Constants DEF StoreEvents, TypeOK, Hand, Handling, Working, store, memory
<1>14. ASSUME NEW x \in Document, NEW status \in Status, ReadDocument(x, status) PROVE Hand'
  BY <1>0, <1>14 DEF ReadDocument, TypeOK, Hand, Handling, Working, store, memory
<1>15. CASE Uncollected
  BY <1>0, <1>15, Constants DEF Uncollected, Settled, TypeOK, Hand, Handling, Working,
     store, memory
<1>16. CASE Breaks
  BY <1>0, <1>16 DEF Breaks, TypeOK, Hand, Handling, Working, store, memory
<1>17. CASE Crash
  BY <1>0, <1>17 DEF Crash, TypeOK, Hand, Handling, Working, store, memory
<1>18. CASE Tick
  BY <1>0, <1>18 DEF Tick, TypeOK, Hand, Handling, Working, store, memory
<1>19. ASSUME NEW C \in SUBSET Company, Sweep(C) PROVE Hand'
  BY <1>0, <1>19 DEF Sweep, TypeOK, Hand, Handling, Working, store, memory
<1>20. ASSUME NEW c \in Company, Unreachable(c) PROVE Hand'
  BY <1>0, <1>20 DEF Unreachable, TypeOK, Hand, Handling, Working, store, memory
<1>21. ASSUME NEW f \in Filing, File(f) PROVE Hand'
  BY <1>0, <1>21 DEF File, TypeOK, Hand, Handling, Working, store, memory
<1>22. CASE UNCHANGED vars
  BY <1>0, <1>22 DEF vars, store, memory, TypeOK, Hand, Handling, Working
<1> QED
  BY <1>1, <1>2, <1>3, <1>4, <1>5, <1>6, <1>7, <1>8, <1>9, <1>10, <1>11, <1>12, <1>13,
     <1>14, <1>15, <1>16, <1>17, <1>18, <1>19, <1>20, <1>21, <1>22 DEF Next, Work

LEMMA MadeStep == ASSUME IInv, [Next]_vars PROVE Made'
<1>0. TypeOK /\ Hand /\ Made BY DEF IInv
<1>1. CASE Start
  BY <1>0, <1>1 DEF Start, Made, TypeOK, store, memory
<1>2. CASE Finish
  BY <1>0, <1>2 DEF Finish, Made, TypeOK, store, memory
<1>3. CASE Succeed
  BY <1>0, <1>3 DEF Succeed, Made, TypeOK, store, memory
<1>4. CASE MarkStored
  BY <1>0, <1>4, Constants DEF MarkStored, Made, TypeOK, store, memory, Hand, Handling
<1>5. CASE NothingToRead
  BY <1>0, <1>5, Constants DEF NothingToRead, Settled, Made, TypeOK, store, memory, Hand,
     Handling
<1>6. CASE Collect
  BY <1>0, <1>6 DEF Collect, Made, TypeOK, store, memory
<1>7. CASE StoreFacts
  BY <1>0, <1>7 DEF StoreFacts, Made, TypeOK, store, memory
<1>8. CASE Enriched
  BY <1>0, <1>8, Constants DEF Enriched, Settled, Made, TypeOK, store, memory, Hand,
     Handling
<1>9. ASSUME NEW c \in Company, BackedOff(c) PROVE Made'
  BY <1>0, <1>9 DEF BackedOff, Made, TypeOK, store, memory
<1>10. ASSUME NEW c \in Company, UpToDate(c) PROVE Made'
  BY <1>0, <1>10 DEF UpToDate, Made, TypeOK, store, memory
<1>11. ASSUME NEW c \in Company, Consult(c) PROVE Made'
  BY <1>0, <1>11 DEF Consult, Made, TypeOK, store, memory
<1>12. ASSUME NEW f \in Filing, NoEvent(f) PROVE Made'
  BY <1>0, <1>12 DEF NoEvent, Made, TypeOK, store, memory, Hand
<1>13. ASSUME NEW f \in Filing, StoreEvents(f) PROVE Made'
  BY <1>0, <1>13 DEF StoreEvents, Made, TypeOK, store, memory
<1>14. ASSUME NEW x \in Document, NEW status \in Status, ReadDocument(x, status) PROVE Made'
  BY <1>0, <1>14 DEF ReadDocument, Made, TypeOK, store, memory
<1>15. CASE Uncollected
  BY <1>0, <1>15, Constants DEF Uncollected, Settled, Made, TypeOK, store, memory, Hand,
     Handling
<1>16. CASE Breaks
  BY <1>0, <1>16 DEF Breaks, Made, TypeOK, store, memory
<1>17. CASE Crash
  BY <1>0, <1>17 DEF Crash, Made, TypeOK, store, memory
<1>18. CASE Tick
  BY <1>0, <1>18 DEF Tick, Made, TypeOK, store, memory
<1>19. ASSUME NEW C \in SUBSET Company, Sweep(C) PROVE Made'
  BY <1>0, <1>19 DEF Sweep, Made, TypeOK, store, memory
<1>20. ASSUME NEW c \in Company, Unreachable(c) PROVE Made'
  BY <1>0, <1>20 DEF Unreachable, Made, TypeOK, store, memory
<1>21. ASSUME NEW f \in Filing, File(f) PROVE Made'
  <2>1. day > 0 BY <1>0 DEF TypeOK
  <2> QED BY <1>0, <1>21, <2>1 DEF File, Made, TypeOK, store, memory
<1>22. CASE UNCHANGED vars BY <1>0, <1>22 DEF vars, store, memory, Made, TypeOK
<1> QED
  BY <1>1, <1>2, <1>3, <1>4, <1>5, <1>6, <1>7, <1>8, <1>9, <1>10, <1>11, <1>12, <1>13,
     <1>14, <1>15, <1>16, <1>17, <1>18, <1>19, <1>20, <1>21, <1>22 DEF Next, Work

LEMMA ReadsStep == ASSUME IInv, [Next]_vars PROVE Reads'
<1>0. TypeOK /\ Reads BY DEF IInv
<1>1. CASE Start
  BY <1>0, <1>1 DEF Start, Reads, TypeOK, store, memory
<1>2. CASE Finish
  BY <1>0, <1>2 DEF Finish, Reads, TypeOK, store, memory
<1>3. CASE Succeed
  BY <1>0, <1>3 DEF Succeed, Reads, TypeOK, store, memory
<1>4. CASE MarkStored
  BY <1>0, <1>4 DEF MarkStored, Reads, TypeOK, store, memory
<1>5. CASE NothingToRead
  BY <1>0, <1>5 DEF NothingToRead, Settled, Reads, TypeOK, store, memory
<1>6. CASE Collect
  <2>1. \A x \in read : doc'[x] = "OK"
    BY <1>0, <1>6 DEF Collect, Reads, TypeOK, Manifest, Listed
  <2>2. \A x \in Document : x[1] = file => x \in left' \/ doc'[x] = "OK"
    BY <1>0, <1>6 DEF Collect, TypeOK, Manifest, Listed
  <2>3. \A x \in left' : doc'[x] # "OK" BY <1>0, <1>6 DEF Collect, TypeOK, Manifest
  <2> QED BY <1>0, <1>6, <2>1, <2>2, <2>3 DEF Collect, Reads, TypeOK, store, memory
<1>7. CASE StoreFacts
  BY <1>0, <1>7 DEF StoreFacts, Reads, TypeOK, store, memory
<1>8. CASE Enriched
  BY <1>0, <1>8 DEF Enriched, Settled, Reads, TypeOK, store, memory
<1>9. ASSUME NEW c \in Company, BackedOff(c) PROVE Reads'
  BY <1>0, <1>9 DEF BackedOff, Reads, TypeOK, store, memory
<1>10. ASSUME NEW c \in Company, UpToDate(c) PROVE Reads'
  BY <1>0, <1>10 DEF UpToDate, Reads, TypeOK, store, memory
<1>11. ASSUME NEW c \in Company, Consult(c) PROVE Reads'
  BY <1>0, <1>11 DEF Consult, Reads, TypeOK, store, memory
<1>12. ASSUME NEW f \in Filing, NoEvent(f) PROVE Reads'
  BY <1>0, <1>12 DEF NoEvent, Reads, TypeOK, store, memory
<1>13. ASSUME NEW f \in Filing, StoreEvents(f) PROVE Reads'
  BY <1>0, <1>13 DEF StoreEvents, Reads, TypeOK, store, memory
<1>14. ASSUME NEW x \in Document, NEW status \in Status, ReadDocument(x, status) PROVE Reads'
  <2>1. doc[x] # "OK" /\ x \notin left' /\ doc'[x] = status /\ x \notin read
        /\ \A y \in Document : y # x => doc'[y] = doc[y]
    BY <1>0, <1>14 DEF ReadDocument, Reads, TypeOK
  <2>2. \A y \in read' : doc'[y] = "OK" BY <1>0, <1>14, <2>1 DEF ReadDocument, Reads, TypeOK
  <2>3. \A y \in left' : doc'[y] # "OK" BY <1>0, <1>14, <2>1 DEF ReadDocument, Reads, TypeOK
  <2>4. verdict' = Verdict(status) /\ file' = file /\ pc' = "reading" /\ pc = "reading"
    BY <1>0, <1>14 DEF ReadDocument
  <2>5. \A y \in Document : y[1] = file => y \in left' \/ doc'[y] = "OK" \/ verdict' # "OK"
    <3> SUFFICES ASSUME NEW y \in Document, y[1] = file
                 PROVE  y \in left' \/ doc'[y] = "OK" \/ verdict' # "OK"
      OBVIOUS
    <3>1. CASE y = x BY <3>1, <2>1, <2>4 DEF Verdict
    <3>2. CASE y # x
      <4>1. y \in left \/ doc[y] = "OK" \/ verdict # "OK" BY <1>0, <2>4 DEF Reads
      <4> QED BY <4>1, <3>2, <2>1, <2>4, <1>14 DEF Verdict, ReadDocument
    <3> QED BY <3>1, <3>2
  <2> QED BY <2>2, <2>3, <2>4, <2>5 DEF Reads
<1>15. CASE Uncollected
  BY <1>0, <1>15 DEF Uncollected, Settled, Reads, TypeOK, store, memory
<1>16. CASE Breaks
  BY <1>0, <1>16 DEF Breaks, Reads, TypeOK, store, memory
<1>17. CASE Crash
  BY <1>0, <1>17 DEF Crash, Reads, TypeOK, store, memory
<1>18. CASE Tick
  BY <1>0, <1>18 DEF Tick, Reads, TypeOK, store, memory
<1>19. ASSUME NEW C \in SUBSET Company, Sweep(C) PROVE Reads'
  BY <1>0, <1>19 DEF Sweep, Reads, TypeOK, store, memory
<1>20. ASSUME NEW c \in Company, Unreachable(c) PROVE Reads'
  BY <1>0, <1>20 DEF Unreachable, Reads, TypeOK, store, memory
<1>21. ASSUME NEW f \in Filing, File(f) PROVE Reads'
  BY <1>0, <1>21 DEF File, Reads, TypeOK, store, memory
<1>22. CASE UNCHANGED vars BY <1>0, <1>22 DEF vars, store, memory, Reads, TypeOK
<1> QED
  BY <1>1, <1>2, <1>3, <1>4, <1>5, <1>6, <1>7, <1>8, <1>9, <1>10, <1>11, <1>12, <1>13,
     <1>14, <1>15, <1>16, <1>17, <1>18, <1>19, <1>20, <1>21, <1>22 DEF Next, Work

\* A document once retrieved is never asked for again.
LEMMA DocStays == ASSUME IInv, [Next]_vars PROVE StaysRead
<1>0. TypeOK /\ Reads BY DEF IInv
<1>1. CASE Start
  BY <1>0, <1>1 DEF Start, StaysRead, TypeOK, store, memory
<1>2. CASE Finish
  BY <1>0, <1>2 DEF Finish, StaysRead, TypeOK, store, memory
<1>3. CASE Succeed
  BY <1>0, <1>3 DEF Succeed, StaysRead, TypeOK, store, memory
<1>4. CASE MarkStored
  BY <1>0, <1>4 DEF MarkStored, StaysRead, TypeOK, store, memory
<1>5. CASE NothingToRead
  BY <1>0, <1>5 DEF NothingToRead, Settled, StaysRead, TypeOK, store, memory
<1>6. CASE Collect
  BY <1>0, <1>6 DEF Collect, StaysRead, TypeOK, store, memory, Manifest, Listed
<1>7. CASE StoreFacts
  BY <1>0, <1>7 DEF StoreFacts, StaysRead, TypeOK, store, memory
<1>8. CASE Enriched
  BY <1>0, <1>8 DEF Enriched, Settled, StaysRead, TypeOK, store, memory
<1>9. ASSUME NEW c \in Company, BackedOff(c) PROVE StaysRead
  BY <1>0, <1>9 DEF BackedOff, StaysRead, TypeOK, store, memory
<1>10. ASSUME NEW c \in Company, UpToDate(c) PROVE StaysRead
  BY <1>0, <1>10 DEF UpToDate, StaysRead, TypeOK, store, memory
<1>11. ASSUME NEW c \in Company, Consult(c) PROVE StaysRead
  BY <1>0, <1>11 DEF Consult, StaysRead, TypeOK, store, memory
<1>12. ASSUME NEW f \in Filing, NoEvent(f) PROVE StaysRead
  BY <1>0, <1>12 DEF NoEvent, StaysRead, TypeOK, store, memory
<1>13. ASSUME NEW f \in Filing, StoreEvents(f) PROVE StaysRead
  BY <1>0, <1>13 DEF StoreEvents, StaysRead, TypeOK, store, memory
<1>14. ASSUME NEW x \in Document, NEW status \in Status, ReadDocument(x, status) PROVE StaysRead
  BY <1>0, <1>14 DEF ReadDocument, StaysRead, TypeOK, store, memory, Reads
<1>15. CASE Uncollected
  BY <1>0, <1>15 DEF Uncollected, Settled, StaysRead, TypeOK, store, memory
<1>16. CASE Breaks
  BY <1>0, <1>16 DEF Breaks, StaysRead, TypeOK, store, memory
<1>17. CASE Crash
  BY <1>0, <1>17 DEF Crash, StaysRead, TypeOK, store, memory
<1>18. CASE Tick
  BY <1>0, <1>18 DEF Tick, StaysRead, TypeOK, store, memory
<1>19. ASSUME NEW C \in SUBSET Company, Sweep(C) PROVE StaysRead
  BY <1>0, <1>19 DEF Sweep, StaysRead, TypeOK, store, memory
<1>20. ASSUME NEW c \in Company, Unreachable(c) PROVE StaysRead
  BY <1>0, <1>20 DEF Unreachable, StaysRead, TypeOK, store, memory
<1>21. ASSUME NEW f \in Filing, File(f) PROVE StaysRead
  BY <1>0, <1>21 DEF File, StaysRead, TypeOK, store, memory
<1>22. CASE UNCHANGED vars BY <1>0, <1>22 DEF vars, store, memory, StaysRead, TypeOK
<1> QED
  BY <1>1, <1>2, <1>3, <1>4, <1>5, <1>6, <1>7, <1>8, <1>9, <1>10, <1>11, <1>12, <1>13,
     <1>14, <1>15, <1>16, <1>17, <1>18, <1>19, <1>20, <1>21, <1>22 DEF Next, Work

LEMMA RecordedStep == ASSUME IInv, [Next]_vars PROVE RecordedIsStored'
<1>0. TypeOK /\ Hand /\ Reads /\ RecordedIsStored /\ StaysRead BY DocStays DEF IInv
<1>1. CASE Start
  BY <1>0, <1>1 DEF Start, RecordedIsStored, StaysRead, TypeOK, store, memory
<1>2. CASE Finish
  BY <1>0, <1>2 DEF Finish, RecordedIsStored, StaysRead, TypeOK, store, memory
<1>3. CASE Succeed
  <2>1. acc[newest] # "DISCOVERED" /\ newest \in Filing
    BY <1>0, <1>3 DEF Succeed, Hand, Working
  <2>2. Owner[newest] \in Company BY <2>1, Constants
  <2>3. \A c \in Company : check'[c].seen \in {check[c].seen, newest}
    BY <1>0, <1>3, <2>1, <2>2 DEF Succeed, TypeOK, Checkpoint
  <2> QED
    BY <1>0, <1>3, <2>1, <2>3 DEF Succeed, RecordedIsStored, StaysRead, TypeOK, store,
       memory
<1>4. CASE MarkStored
  BY <1>0, <1>4, Constants DEF MarkStored, RecordedIsStored, StaysRead, TypeOK, store,
     memory, Hand, Handling, Checkpoint
<1>5. CASE NothingToRead
  BY <1>0, <1>5, Constants DEF NothingToRead, Settled, RecordedIsStored, StaysRead,
     TypeOK, store, memory, Hand, Handling, Checkpoint
<1>6. CASE Collect
  BY <1>0, <1>6 DEF Collect, RecordedIsStored, StaysRead, TypeOK, store, memory
<1>7. CASE StoreFacts
  BY <1>0, <1>7 DEF StoreFacts, RecordedIsStored, StaysRead, TypeOK, store, memory, Reads
<1>8. CASE Enriched
  <2>1. Outcome(verdict) # "DISCOVERED" BY DEF Outcome
  <2> QED
    BY <1>0, <1>8, <2>1, Constants DEF Enriched, Settled, RecordedIsStored, StaysRead,
       TypeOK, store, memory, Hand, Handling, Checkpoint
<1>9. ASSUME NEW c \in Company, BackedOff(c) PROVE RecordedIsStored'
  BY <1>0, <1>9 DEF BackedOff, RecordedIsStored, StaysRead, TypeOK, store, memory
<1>10. ASSUME NEW c \in Company, UpToDate(c) PROVE RecordedIsStored'
  <2>1. \A e \in Company : check'[e].seen = check[e].seen
    BY <1>0, <1>10 DEF UpToDate, TypeOK, Checkpoint
  <2> QED
    BY <1>0, <1>10, <2>1 DEF UpToDate, RecordedIsStored, StaysRead, TypeOK, store, memory
<1>11. ASSUME NEW c \in Company, Consult(c) PROVE RecordedIsStored'
  BY <1>0, <1>11 DEF Consult, RecordedIsStored, StaysRead, TypeOK, store, memory
<1>12. ASSUME NEW f \in Filing, NoEvent(f) PROVE RecordedIsStored'
  BY <1>0, <1>12, Constants DEF NoEvent, RecordedIsStored, StaysRead, TypeOK, store,
     memory, Checkpoint
<1>13. ASSUME NEW f \in Filing, StoreEvents(f) PROVE RecordedIsStored'
  BY <1>0, <1>13 DEF StoreEvents, RecordedIsStored, StaysRead, TypeOK, store, memory
<1>14. ASSUME NEW x \in Document, NEW status \in Status, ReadDocument(x, status) PROVE RecordedIsStored'
  BY <1>0, <1>14 DEF ReadDocument, RecordedIsStored, StaysRead, TypeOK, store, memory
<1>15. CASE Uncollected
  BY <1>0, <1>15, Constants DEF Uncollected, Settled, RecordedIsStored, StaysRead, TypeOK,
     store, memory, Hand, Handling, Checkpoint
<1>16. CASE Breaks
  <2>1. Owner[newest] \in Company
    BY <1>0, <1>16, Constants DEF Breaks, Hand, Working, Handling
  <2>2. \A e \in Company : check'[e].seen = check[e].seen
    BY <1>0, <1>16, <2>1, GivesUpType DEF Breaks
  <2> QED
    BY <1>0, <1>16, <2>2 DEF Breaks, RecordedIsStored, StaysRead, TypeOK, store, memory
<1>17. CASE Crash
  BY <1>0, <1>17 DEF Crash, RecordedIsStored, StaysRead, TypeOK, store, memory
<1>18. CASE Tick
  <2>1. \A e \in Company : check'[e].seen = check[e].seen
    BY <1>0, <1>18 DEF Tick, TypeOK, Checkpoint
  <2> QED BY <1>0, <1>18, <2>1 DEF Tick, RecordedIsStored, StaysRead, TypeOK, store, memory
<1>19. ASSUME NEW C \in SUBSET Company, Sweep(C) PROVE RecordedIsStored'
  BY <1>0, <1>19 DEF Sweep, RecordedIsStored, StaysRead, TypeOK, store, memory
<1>20. ASSUME NEW c \in Company, Unreachable(c) PROVE RecordedIsStored'
  <2>2. \A e \in Company : check'[e].seen = check[e].seen
    BY <1>0, <1>20, GivesUpType DEF Unreachable
  <2> QED
    BY <1>0, <1>20, <2>2 DEF Unreachable, RecordedIsStored, StaysRead, TypeOK, store,
       memory
<1>21. ASSUME NEW f \in Filing, File(f) PROVE RecordedIsStored'
  BY <1>0, <1>21 DEF File, RecordedIsStored, StaysRead, TypeOK, store, memory
<1>22. CASE UNCHANGED vars
  BY <1>0, <1>22 DEF vars, store, memory, RecordedIsStored, StaysRead, TypeOK
<1> QED
  BY <1>1, <1>2, <1>3, <1>4, <1>5, <1>6, <1>7, <1>8, <1>9, <1>10, <1>11, <1>12, <1>13,
     <1>14, <1>15, <1>16, <1>17, <1>18, <1>19, <1>20, <1>21, <1>22 DEF Next, Work

LEMMA CompleteStep == ASSUME IInv, [Next]_vars PROVE CompleteWasRead'
<1>0. TypeOK /\ Hand /\ Made /\ Reads /\ CompleteWasRead /\ StaysRead BY DocStays DEF IInv
<1>1. CASE Start
  BY <1>0, <1>1 DEF Start, CompleteWasRead, StaysRead, TypeOK, store, memory, Current
<1>2. CASE Finish
  BY <1>0, <1>2 DEF Finish, CompleteWasRead, StaysRead, TypeOK, store, memory, Current
<1>3. CASE Succeed
  BY <1>0, <1>3 DEF Succeed, CompleteWasRead, StaysRead, TypeOK, store, memory, Current
<1>4. CASE MarkStored
  BY <1>0, <1>4, DocumentType DEF MarkStored, CompleteWasRead, StaysRead, TypeOK, store,
     memory, Current
<1>5. CASE NothingToRead
  BY <1>0, <1>5, DocumentType DEF NothingToRead, Settled, CompleteWasRead, StaysRead,
     TypeOK, store, memory, Current
<1>6. CASE Collect
  BY <1>0, <1>6 DEF Collect, CompleteWasRead, StaysRead, TypeOK, store, memory, Current
<1>7. CASE StoreFacts
  BY <1>0, <1>7 DEF StoreFacts, CompleteWasRead, StaysRead, TypeOK, store, memory, Current
<1>8. CASE Enriched
  <2>1. \A y \in Document : y[1] = file /\ verdict = "OK" => doc[y] = "OK"
    BY <1>0, <1>8 DEF Enriched, Reads
  <2>2. Outcome(verdict) = "COMPLETE" => verdict = "OK" BY DEF Outcome
  <2> QED
    BY <1>0, <1>8, <2>1, <2>2, DocumentType DEF Enriched, Settled, CompleteWasRead,
       StaysRead, TypeOK, store, memory, Current
<1>9. ASSUME NEW c \in Company, BackedOff(c) PROVE CompleteWasRead'
  BY <1>0, <1>9 DEF BackedOff, CompleteWasRead, StaysRead, TypeOK, store, memory, Current
<1>10. ASSUME NEW c \in Company, UpToDate(c) PROVE CompleteWasRead'
  BY <1>0, <1>10 DEF UpToDate, CompleteWasRead, StaysRead, TypeOK, store, memory, Current
<1>11. ASSUME NEW c \in Company, Consult(c) PROVE CompleteWasRead'
  BY <1>0, <1>11 DEF Consult, CompleteWasRead, StaysRead, TypeOK, store, memory, Current
<1>12. ASSUME NEW f \in Filing, NoEvent(f) PROVE CompleteWasRead'
  BY <1>0, <1>12, DocumentType DEF NoEvent, CompleteWasRead, StaysRead, TypeOK, store,
     memory, Current
<1>13. ASSUME NEW f \in Filing, StoreEvents(f) PROVE CompleteWasRead'
  BY <1>0, <1>13 DEF StoreEvents, CompleteWasRead, StaysRead, TypeOK, store, memory, Current
<1>14. ASSUME NEW x \in Document, NEW status \in Status, ReadDocument(x, status) PROVE CompleteWasRead'
  BY <1>0, <1>14 DEF ReadDocument, CompleteWasRead, StaysRead, TypeOK, store, memory,
     Current
<1>15. CASE Uncollected
  BY <1>0, <1>15, DocumentType DEF Uncollected, Settled, CompleteWasRead, StaysRead,
     TypeOK, store, memory, Current
<1>16. CASE Breaks
  BY <1>0, <1>16 DEF Breaks, CompleteWasRead, StaysRead, TypeOK, store, memory, Current
<1>17. CASE Crash
  BY <1>0, <1>17 DEF Crash, CompleteWasRead, StaysRead, TypeOK, store, memory, Current
<1>18. CASE Tick
  <2>1. day' >= day /\ day' \in Int /\ day \in Int
    BY <1>0, <1>18, LeastType, Constants DEF Tick, TypeOK, Least
  <2>2. \A y \in Document : filed[y[1]] \in Int /\ filed'[y[1]] = filed[y[1]]
    BY <1>0, <1>18, DocumentType DEF Tick, TypeOK
  <2>3. \A y \in Document : day' - filed'[y[1]] <= Window => day - filed[y[1]] <= Window
    BY <2>1, <2>2, Constants
  <2> QED
    BY <1>0, <1>18, <2>3 DEF Tick, CompleteWasRead, StaysRead, TypeOK, store, memory,
       Current
<1>19. ASSUME NEW C \in SUBSET Company, Sweep(C) PROVE CompleteWasRead'
  BY <1>0, <1>19 DEF Sweep, CompleteWasRead, StaysRead, TypeOK, store, memory, Current
<1>20. ASSUME NEW c \in Company, Unreachable(c) PROVE CompleteWasRead'
  BY <1>0, <1>20 DEF Unreachable, CompleteWasRead, StaysRead, TypeOK, store, memory, Current
<1>21. ASSUME NEW f \in Filing, File(f) PROVE CompleteWasRead'
  <2>1. \A y \in Document : acc[y[1]] = "COMPLETE" => filed'[y[1]] = filed[y[1]]
    BY <1>0, <1>21, DocumentType DEF File, Made, TypeOK
  <2> QED
    BY <1>0, <1>21, <2>1 DEF File, CompleteWasRead, StaysRead, TypeOK, store, memory,
       Current
<1>22. CASE UNCHANGED vars
  BY <1>0, <1>22 DEF vars, store, memory, CompleteWasRead, StaysRead, TypeOK, Current
<1> QED
  BY <1>1, <1>2, <1>3, <1>4, <1>5, <1>6, <1>7, <1>8, <1>9, <1>10, <1>11, <1>12, <1>13,
     <1>14, <1>15, <1>16, <1>17, <1>18, <1>19, <1>20, <1>21, <1>22 DEF Next, Work

-----------------------------------------------------------------------------
(* The theorems *)

LEMMA Initially == Init => IInv
<1> SUFFICES ASSUME Init PROVE IInv OBVIOUS
<1>1. /\ day \in 1 .. LastDay /\ cursor \in NoCursor .. LastDay
      /\ reached \in NoCursor .. LastDay /\ faults \in 0 .. MaxFaults
      /\ filed \in [Filing -> 0 .. LastDay]
  BY Constants DEF Init, NoCursor
<1>4. check \in [Company -> Checkpoint] BY DEF Init, Checkpoint
<1>5. /\ acc \in [Filing -> State] /\ doc \in [Document -> DocStatus] /\ verdict \in Status
      /\ scope \in [Company -> SUBSET Filing]
  BY DEF Init, State, DocStatus, Status
<1>6. TypeOK BY <1>1, <1>4, <1>5 DEF Init, TypeOK
<1>2. Hand /\ Made /\ Reads
  BY DEF Init, Hand, Made, Reads, Handling, Working
<1>3. RecordedIsStored /\ CompleteWasRead
  BY Constants, DocumentType DEF Init, RecordedIsStored, CompleteWasRead
<1> QED BY <1>6, <1>2, <1>3 DEF IInv

\* The inductive invariant: the types, what the filing in hand and a collection in
\* progress stand for, and the two invariants the runs check.
THEOREM Invariance == Spec => []IInv
<1>1. IInv /\ [Next]_vars => IInv'
  BY TypeOKStep, HandStep, MadeStep, ReadsStep, RecordedStep, CompleteStep DEF IInv
<1> QED BY Initially, <1>1, PTL DEF Spec

\* The store and the memory of a run keep their types.
THEOREM TypeCorrect == Spec => []TypeOK
<1>1. IInv => TypeOK BY DEF IInv
<1> QED BY <1>1, Invariance, PTL

\* Wherever a process dies, no state, checkpoint or fact is ahead of what it rests on.
THEOREM RecordedIsStoredHolds == Spec => []RecordedIsStored
<1>1. IInv => RecordedIsStored BY DEF IInv
<1> QED BY <1>1, Invariance, PTL

\* A filing that reads COMPLETE while it is current had all its documents retrieved.
THEOREM CompleteWasReadHolds == Spec => []CompleteWasRead
<1>1. IInv => CompleteWasRead BY DEF IInv
<1> QED BY <1>1, Invariance, PTL

LEMMA FinishedStep == ASSUME IInv, [Next]_vars PROVE StaysFinished
<1>0. TypeOK /\ Hand BY DEF IInv
<1>1. CASE Start
  BY <1>0, <1>1 DEF Start, StaysFinished, TypeOK, store, memory
<1>2. CASE Finish
  BY <1>0, <1>2 DEF Finish, StaysFinished, TypeOK, store, memory
<1>3. CASE Succeed
  BY <1>0, <1>3 DEF Succeed, StaysFinished, TypeOK, store, memory
<1>4. CASE MarkStored
  BY <1>0, <1>4, Constants DEF MarkStored, StaysFinished, TypeOK, store, memory, Hand,
     Handling
<1>5. CASE NothingToRead
  BY <1>0, <1>5, Constants DEF NothingToRead, Settled, StaysFinished, TypeOK, store,
     memory, Hand, Handling
<1>6. CASE Collect
  BY <1>0, <1>6 DEF Collect, StaysFinished, TypeOK, store, memory
<1>7. CASE StoreFacts
  BY <1>0, <1>7 DEF StoreFacts, StaysFinished, TypeOK, store, memory
<1>8. CASE Enriched
  BY <1>0, <1>8, Constants DEF Enriched, Settled, StaysFinished, TypeOK, store, memory,
     Hand, Handling
<1>9. ASSUME NEW c \in Company, BackedOff(c) PROVE StaysFinished
  BY <1>0, <1>9 DEF BackedOff, StaysFinished, TypeOK, store, memory
<1>10. ASSUME NEW c \in Company, UpToDate(c) PROVE StaysFinished
  BY <1>0, <1>10 DEF UpToDate, StaysFinished, TypeOK, store, memory
<1>11. ASSUME NEW c \in Company, Consult(c) PROVE StaysFinished
  BY <1>0, <1>11 DEF Consult, StaysFinished, TypeOK, store, memory
<1>12. ASSUME NEW f \in Filing, NoEvent(f) PROVE StaysFinished
  BY <1>0, <1>12 DEF NoEvent, StaysFinished, TypeOK, store, memory, Hand
<1>13. ASSUME NEW f \in Filing, StoreEvents(f) PROVE StaysFinished
  BY <1>0, <1>13 DEF StoreEvents, StaysFinished, TypeOK, store, memory
<1>14. ASSUME NEW x \in Document, NEW status \in Status, ReadDocument(x, status) PROVE StaysFinished
  BY <1>0, <1>14 DEF ReadDocument, StaysFinished, TypeOK, store, memory
<1>15. CASE Uncollected
  BY <1>0, <1>15, Constants DEF Uncollected, Settled, StaysFinished, TypeOK, store,
     memory, Hand, Handling
<1>16. CASE Breaks
  BY <1>0, <1>16 DEF Breaks, StaysFinished, TypeOK, store, memory
<1>17. CASE Crash
  BY <1>0, <1>17 DEF Crash, StaysFinished, TypeOK, store, memory
<1>18. CASE Tick
  BY <1>0, <1>18 DEF Tick, StaysFinished, TypeOK, store, memory
<1>19. ASSUME NEW C \in SUBSET Company, Sweep(C) PROVE StaysFinished
  BY <1>0, <1>19 DEF Sweep, StaysFinished, TypeOK, store, memory
<1>20. ASSUME NEW c \in Company, Unreachable(c) PROVE StaysFinished
  BY <1>0, <1>20 DEF Unreachable, StaysFinished, TypeOK, store, memory
<1>21. ASSUME NEW f \in Filing, File(f) PROVE StaysFinished
  BY <1>0, <1>21 DEF File, StaysFinished, TypeOK, store, memory
<1>22. CASE UNCHANGED vars BY <1>0, <1>22 DEF vars, store, memory, StaysFinished, TypeOK
<1> QED
  BY <1>1, <1>2, <1>3, <1>4, <1>5, <1>6, <1>7, <1>8, <1>9, <1>10, <1>11, <1>12, <1>13,
     <1>14, <1>15, <1>16, <1>17, <1>18, <1>19, <1>20, <1>21, <1>22 DEF Next, Work

\* No run takes up a finished filing again.
THEOREM FinishedStaysHolds == Spec => FinishedStays
<1>1. IInv /\ [Next]_vars => [\A f \in Filing : acc[f] \in Terminal => acc'[f] = acc[f]]_vars
  BY FinishedStep DEF StaysFinished
<1> QED BY <1>1, Invariance, PTL DEF Spec, FinishedStays
=============================================================================
