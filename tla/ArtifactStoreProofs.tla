-------------------------- MODULE ArtifactStoreProofs --------------------------
(***************************************************************************)
(* Proofs about ArtifactStore, for any processes, threads, finite set of   *)
(* imports with any sizes, and any bounds.                                 *)
(***************************************************************************)
EXTENDS ArtifactStore, FiniteInduction

\* The usage of one import more.
LEMMA UsageAdds ==
  /\ Usage({}) = 0
  /\ \A S \in SUBSET Imports : \A n \in Imports \ S :
       Usage(S \cup {n}) = Usage(S) + Size[n]
<1>1. ASSUME NEW S \in SUBSET Imports
      PROVE  /\ SumFunctionOnSet(Size, {}) = 0
             /\ \A n : n \notin S /\ Size[n] \in Nat =>
                  SumFunctionOnSet(Size, S \cup {n}) = SumFunctionOnSet(Size, S) + Size[n]
  <2>1. IsFiniteSet(S) /\ \A y \in S : Size[y] \in Nat
    BY FS_Subset, ImportsAssumption, SizeAssumption
  <2> QED
    BY <2>1, SumAdds
<1> QED
  BY <1>1, SizeAssumption DEF Usage

\* One process serves, and only its threads work: each on an import that is its
\* alone, has a file and, until it is registered, no row.
Sole ==
  /\ \A t, u \in Threads : pc[t] # "idle" /\ pc[u] # "idle" /\ import[t] = import[u] => t = u
  /\ \A t \in Threads : pc[t] # "idle" =>
       /\ place[import[t]] # "none"
       /\ import[t] \notin failed
       /\ import[t] \in rows <=> pc[t] = "registered"
  /\ \A n \in rows : place[n] # "none"
  /\ ~Serving => \A t \in Threads : pc[t] = "idle"
  /\ \A p, q \in Processes : phase[p] = "serving" /\ phase[q] = "serving" => p = q

\* One thread at a time is between the check of the usage and its answer, and
\* until its row is inserted the checked room is still there.
Room ==
  /\ \A t, u \in Threads : pc[t] \in Locked /\ pc[u] \in Locked => t = u
  /\ \A t \in Threads : pc[t] \in Locked \ {"registered"} =>
       Usage(rows) + Size[import[t]] <= MaxStorage
  /\ QuotaHeld

\* What a clean-up that has been alone knows: nothing is in progress, it listed
\* every staged file, its view of the rows is current, and it listed the objects
\* that have no row and no other.
Sweep ==
  \A p \in Processes : alone[p] =>
    /\ phase[p] \in {"staging", "known", "objects"} => ~Serving
    /\ phase[p] = "staging" => \A n \in Imports : place[n] = "staging" => n \in todo[p]
    /\ phase[p] \in {"known", "objects"} => \A n \in Imports : place[n] # "staging"
    /\ phase[p] = "known" => known[p] = rows
    /\ phase[p] = "objects" =>
         /\ todo[p] \cap rows = {}
         /\ \A n \in Imports \ rows : place[n] = "objects" => n \in todo[p]

\* An object stays in place from its renaming on, unless it is taken.
Kept ==
  /\ RegisteredHasFile
  /\ \A t \in Threads : pc[t] \in {"replaced", "synced", "registered"} =>
       place[import[t]] = "objects" \/ import[t] \in taken

\* Bytes past the check are whole, stamps only grow, and a file whose stamp is
\* still the one a reader saw has the bytes that reader saw.
Sound ==
  /\ CacheIsTrue
  /\ \A t \in Threads : pc[t] \in Locked => content[import[t]] = "whole"
  /\ \A n \in Imports : verified[n] <= stamp[n]
  /\ \A r \in Readers : reader[r].step # "idle" =>
       /\ reader[r].n \in rows
       /\ reader[r].before <= stamp[reader[r].n]
       /\ reader[r].step = "hashed" /\ reader[r].before = stamp[reader[r].n] =>
            content[reader[r].n] = reader[r].seen

IInv == TypeOK /\ Sole /\ Room /\ Sweep /\ Kept /\ Sound /\ FailedIsUnregistered /\ Swept

--------------------------------------------------------------------------------

\* Every variable keeps its type, and a busy thread or reader has an import.
LEMMA TypeStep == TypeOK /\ [Next]_vars => TypeOK'
<1> SUFFICES ASSUME TypeOK, [Next]_vars
             PROVE  TypeOK'
  OBVIOUS
<1> USE ImportsAssumption DEF TypeOK, Goto, Raise, Steps, Locked, Places, Bytes, Phases,
      Unverified, cleanVars, importVars, fileVars
<1>1. ASSUME NEW t \in Threads, NEW n \in Imports, Begin(t, n)
      PROVE  TypeOK'
  BY <1>1 DEF Begin
<1>2. ASSUME NEW t \in Threads, Receive(t) \/ Replace(t) \/ Register(t)
      PROVE  TypeOK'
  BY <1>2 DEF Receive, Replace, Register
<1>3. ASSUME NEW t \in Threads, Admit(t) \/ SyncDirectory(t)
      PROVE  TypeOK'
  BY <1>3 DEF Admit, SyncDirectory
<1>4. ASSUME NEW t \in Threads, RegisterFails(t) \/ Abort(t)
      PROVE  TypeOK'
  BY <1>4 DEF RegisterFails, Abort
<1>5. ASSUME NEW t \in Threads, Answer(t) \/ AnswerFails(t)
      PROVE  TypeOK'
  BY <1>5 DEF Answer, AnswerFails
<1>6. ASSUME NEW r \in Readers, ReaderNext(r)
      PROVE  TypeOK'
  <2>1. Idle \in Readings
    BY DEF Idle, Readings
  <2>2. ASSUME NEW n \in Imports, Open(r, n)
        PROVE  TypeOK'
    BY <2>2 DEF Open, Readings
  <2>3. CASE CacheHit(r)
    BY <2>1, <2>3 DEF CacheHit, Idle
  <2>4. CASE Hash(r)
    <3>1. reader[r] \in Readings /\ content[reader[r].n] \in Bytes
      BY <2>4 DEF Hash
    <3>2. [reader[r] EXCEPT !.step = "hashed", !.seen = content[reader[r].n]] \in Readings
      BY <3>1 DEF Readings
    <3>3. reader' \in [Readers -> Readings]
      BY <2>4, <3>1, <3>2 DEF Hash
    <3>4. reader'[r].n = reader[r].n /\ \A q \in Readers : q # r => reader'[q] = reader[q]
      BY <2>4, <3>1 DEF Hash, Readings
    <3>5. \A q \in Readers : reader'[q].step # "idle" => reader'[q].n \in Imports
      BY <2>4, <3>4 DEF Hash
    <3>6. QED
      BY <2>4, <3>3, <3>5 DEF Hash
  <2>5. CASE Conclude(r)
    BY <2>1, <2>5 DEF Conclude, Idle
  <2>6. QED
    BY <1>6, <2>2, <2>3, <2>4, <2>5 DEF ReaderNext
<1>7. ASSUME NEW p \in Processes, NEW n \in Imports,
             QuarantineStaged(p, n) \/ QuarantineObject(p, n)
      PROVE  TypeOK'
  BY <1>7 DEF QuarantineStaged, QuarantineObject, Quarantine
<1>8. ASSUME NEW p \in Processes, Construct(p) \/ ReadKnown(p) \/ ListObjects(p)
      PROVE  TypeOK'
  <2>1. CASE Construct(p)
    <3>1. alone' \in [Processes -> BOOLEAN]
      BY <2>1 DEF Construct, Serving
    <3>2. QED
      BY <2>1, <3>1 DEF Construct
  <2>2. CASE ReadKnown(p) \/ ListObjects(p)
    BY <2>2 DEF ReadKnown, ListObjects
  <2>3. QED
    BY <1>8, <2>1, <2>2
<1>9. ASSUME NEW p \in Processes, Serve(p)
      PROVE  TypeOK'
  BY <1>9 DEF Serve
<1>10. ASSUME NEW p \in Processes, StartFails(p)
       PROVE  TypeOK'
  BY <1>10 DEF StartFails
<1>11. ASSUME NEW p \in Processes, End(p)
       PROVE  TypeOK'
  BY <1>11 DEF End, ThreadsEnd, Readings, Idle
<1>12. ASSUME NEW n \in Imports, Change(n)
       PROVE  TypeOK'
  BY <1>12 DEF Change
<1>13. CASE PowerLoss
  BY <1>13 DEF PowerLoss, ThreadsEnd, Readings, Idle
<1>14. CASE UNCHANGED vars
  BY <1>14 DEF vars
<1>15. QED
  BY <1>1, <1>2, <1>3, <1>4, <1>5, <1>6, <1>7, <1>8, <1>9, <1>10, <1>11, <1>12,
     <1>13, <1>14 DEF Next, ThreadNext, ProcessNext

\* Only a serving process has threads at work, each on an import nobody else has.
LEMMA SoleStep == TypeOK /\ Sole /\ [Next]_vars => Sole'
<1> SUFFICES ASSUME TypeOK, Sole, [Next]_vars
             PROVE  Sole'
  OBVIOUS
<1> USE ImportsAssumption DEF TypeOK, Sole, Goto, Raise, Steps, Locked, cleanVars,
      importVars, fileVars
<1>1. ASSUME UNCHANGED phase
      PROVE  Serving' = Serving
  BY <1>1 DEF Serving
<1>2. ASSUME NEW t \in Threads, NEW n \in Imports, Begin(t, n)
      PROVE  Sole'
  BY <1>1, <1>2 DEF Begin
<1>3. ASSUME NEW t \in Threads,
             Receive(t) \/ Admit(t) \/ SyncDirectory(t) \/ Replace(t)
      PROVE  Sole'
  BY <1>1, <1>3 DEF Receive, Admit, SyncDirectory, Replace
<1>4. ASSUME NEW t \in Threads, Register(t)
      PROVE  Sole'
  BY <1>1, <1>4 DEF Register
<1>5. ASSUME NEW t \in Threads, RegisterFails(t) \/ Abort(t)
      PROVE  Sole'
  BY <1>1, <1>5 DEF RegisterFails, Abort
<1>6. ASSUME NEW t \in Threads, Answer(t) \/ AnswerFails(t)
      PROVE  Sole'
  BY <1>1, <1>6 DEF Answer, AnswerFails
<1>7. ASSUME NEW r \in Readers, ReaderNext(r)
      PROVE  Sole'
  BY <1>1, <1>7 DEF ReaderNext, Open, CacheHit, Hash, Conclude
<1>8. ASSUME NEW p \in Processes, NEW n \in Imports,
             QuarantineStaged(p, n) \/ QuarantineObject(p, n)
      PROVE  Sole'
  BY <1>1, <1>8 DEF QuarantineStaged, QuarantineObject, Quarantine, Places
<1>9. ASSUME NEW p \in Processes,
             Construct(p) \/ ReadKnown(p) \/ ListObjects(p) \/ StartFails(p)
      PROVE  Sole'
  <2>1. Serving => Serving'
    BY <1>9 DEF Construct, ReadKnown, ListObjects, StartFails, Serving, Phases
  <2>2. QED
    BY <1>9, <2>1 DEF Construct, ReadKnown, ListObjects, StartFails
<1>10. ASSUME NEW p \in Processes, Serve(p)
       PROVE  Sole'
  <2>1. Serving'
    BY <1>10 DEF Serve, Serving
  <2>2. \A q \in Processes : phase[q] # "serving"
    BY <1>10 DEF Serve, Serving
  <2>3. QED
    BY <1>10, <2>1, <2>2 DEF Serve
<1>11. ASSUME NEW p \in Processes, End(p)
       PROVE  Sole'
  BY <1>11 DEF End, ThreadsEnd
<1>12. ASSUME NEW n \in Imports, Change(n)
       PROVE  Sole'
  BY <1>1, <1>12 DEF Change
<1>13. CASE PowerLoss
  BY <1>13 DEF PowerLoss, ThreadsEnd
<1>14. CASE UNCHANGED vars
  BY <1>1, <1>14 DEF vars
<1>15. QED
  BY <1>2, <1>3, <1>4, <1>5, <1>6, <1>7, <1>8, <1>9, <1>10, <1>11, <1>12, <1>13,
     <1>14 DEF Next, ThreadNext, ProcessNext

\* The room that a thread checked is there until it inserts its row, as the
\* quota lock keeps every other thread from inserting one.
LEMMA RoomStep == TypeOK /\ Room /\ [Next]_vars => Room'
<1> SUFFICES ASSUME TypeOK, Room, [Next]_vars
             PROVE  Room'
  OBVIOUS
<1> USE ImportsAssumption, BoundAssumption DEF TypeOK, Room, QuotaHeld, Goto, Raise,
      Locked, cleanVars, importVars, fileVars
<1>1. ASSUME NEW t \in Threads, NEW n \in Imports, Begin(t, n)
      PROVE  Room'
  BY <1>1 DEF Begin
<1>2. ASSUME NEW t \in Threads,
             Receive(t) \/ Admit(t) \/ Replace(t) \/ SyncDirectory(t)
      PROVE  Room'
  BY <1>2 DEF Receive, Admit, Replace, SyncDirectory
<1>3. ASSUME NEW t \in Threads, Register(t)
      PROVE  Room'
  <2>1. Usage(rows \cup {import[t]}) <= MaxStorage
    <3>1. Usage(rows) + Size[import[t]] <= MaxStorage /\ import[t] \in Imports
      BY <1>3 DEF Register
    <3>2. CASE import[t] \in rows
      <4>1. rows \cup {import[t]} = rows
        BY <3>2
      <4>2. QED
        BY <4>1
    <3>3. CASE import[t] \notin rows
      <4>1. Usage(rows \cup {import[t]}) = Usage(rows) + Size[import[t]]
        BY <3>1, <3>3, UsageAdds
      <4>2. QED
        BY <3>1, <4>1
    <3>4. QED
      BY <3>2, <3>3
  <2>2. \A u \in Threads : pc'[u] \in Locked \ {"registered"} => FALSE
    BY <1>3 DEF Register
  <2>3. \A u, v \in Threads : pc'[u] \in Locked /\ pc'[v] \in Locked => u = v
    BY <1>3 DEF Register
  <2>4. QED
    BY <1>3, <2>1, <2>2, <2>3 DEF Register
<1>4. ASSUME NEW t \in Threads, RegisterFails(t) \/ Abort(t) \/ Answer(t) \/ AnswerFails(t)
      PROVE  Room'
  BY <1>4 DEF RegisterFails, Abort, Answer, AnswerFails
<1>5. ASSUME NEW r \in Readers, ReaderNext(r)
      PROVE  Room'
  BY <1>5 DEF ReaderNext, Open, CacheHit, Hash, Conclude
<1>6. ASSUME NEW p \in Processes, NEW n \in Imports,
             QuarantineStaged(p, n) \/ QuarantineObject(p, n)
      PROVE  Room'
  BY <1>6 DEF QuarantineStaged, QuarantineObject, Quarantine
<1>7. ASSUME NEW p \in Processes,
             \/ Construct(p) \/ ReadKnown(p) \/ ListObjects(p)
             \/ StartFails(p) \/ Serve(p)
      PROVE  Room'
  BY <1>7 DEF Construct, ReadKnown, ListObjects, StartFails, Serve
<1>8. CASE (\E p \in Processes : End(p)) \/ PowerLoss
  BY <1>8 DEF End, PowerLoss, ThreadsEnd
<1>9. CASE (\E n \in Imports : Change(n)) \/ UNCHANGED vars
  BY <1>9 DEF Change, vars
<1>10. QED
  BY <1>1, <1>2, <1>3, <1>4, <1>5, <1>6, <1>7, <1>8, <1>9
     DEF Next, ThreadNext, ProcessNext

\* While a clean-up is alone nothing but clean-ups moves files or adds rows.
LEMMA SweepStep == TypeOK /\ Sole /\ Sweep /\ [Next]_vars => Sweep'
<1> SUFFICES ASSUME TypeOK, Sole, Sweep, [Next]_vars
             PROVE  Sweep'
  OBVIOUS
<1> USE DEF TypeOK, Sweep, Goto, Raise, Phases, Locked, cleanVars, importVars, fileVars
<1>1. ASSUME NEW t \in Threads, ThreadNext(t)
      PROVE  Sweep'
  <2>1. Serving /\ Serving' /\ phase' = phase /\ alone' = alone
    BY <1>1 DEF ThreadNext, Begin, Receive, Admit, Replace, SyncDirectory, Register,
       RegisterFails, Abort, Answer, AnswerFails, Sole, Serving
  <2>2. \A p \in Processes : alone[p] => phase[p] \notin {"staging", "known", "objects"}
    BY <2>1
  <2>3. QED
    BY <2>1, <2>2
<1>2. ASSUME NEW r \in Readers, ReaderNext(r)
      PROVE  Sweep'
  BY <1>2 DEF ReaderNext, Open, CacheHit, Hash, Conclude, Serving
<1>3. ASSUME NEW q \in Processes, NEW n \in Imports,
             QuarantineStaged(q, n) \/ QuarantineObject(q, n)
      PROVE  Sweep'
  BY <1>3 DEF QuarantineStaged, QuarantineObject, Quarantine, Serving
<1>4. ASSUME NEW q \in Processes, Construct(q)
      PROVE  Sweep'
  <2>1. /\ phase' = [phase EXCEPT ![q] = "staging"]
        /\ todo' = [todo EXCEPT ![q] = {n \in Imports : place[n] = "staging"}]
        /\ UNCHANGED <<known, place, rows>>
    BY <1>4 DEF Construct
  <2>2. Serving' = Serving
    BY <1>4 DEF Construct, Serving
  <2>3. alone'[q] = ~Serving /\ \A p \in Processes : p # q => alone'[p] = alone[p]
    BY <1>4 DEF Construct
  <2>4. QED
    BY <2>1, <2>2, <2>3
<1>5. ASSUME NEW q \in Processes, ReadKnown(q)
      PROVE  Sweep'
  BY <1>5 DEF ReadKnown, Serving
<1>6. ASSUME NEW q \in Processes, ListObjects(q)
      PROVE  Sweep'
  BY <1>6 DEF ListObjects, Serving
<1>7. ASSUME NEW q \in Processes, Serve(q)
      PROVE  Sweep'
  <2>1. \A p \in Processes : alone'[p] => p = q
    BY <1>7 DEF Serve
  <2>2. phase'[q] = "serving"
    BY <1>7 DEF Serve
  <2>3. QED
    BY <2>1, <2>2
<1>8. ASSUME NEW q \in Processes, StartFails(q)
      PROVE  Sweep'
  BY <1>8 DEF StartFails, Serving
<1>9. ASSUME NEW q \in Processes, End(q)
      PROVE  Sweep'
  <2>1. Serving /\ phase' = [phase EXCEPT ![q] = "down"]
    BY <1>9 DEF End, Serving
  <2>2. \A p \in Processes : alone[p] => phase[p] \notin {"staging", "known", "objects"}
    BY <2>1
  <2>3. \A p \in Processes : alone'[p] => phase'[p] \notin {"staging", "known", "objects"}
    BY <1>9, <2>1, <2>2 DEF End
  <2>4. QED
    BY <2>3
<1>10. CASE PowerLoss
  BY <1>10 DEF PowerLoss
<1>11. CASE (\E n \in Imports : Change(n)) \/ UNCHANGED vars
  BY <1>11 DEF Change, vars, Serving
<1>12. QED
  BY <1>1, <1>2, <1>3, <1>4, <1>5, <1>6, <1>7, <1>8, <1>9, <1>10, <1>11
     DEF Next, ProcessNext

\* An object leaves its place only to a clean-up that was not alone, or unlinked
\* by its own import before it has a row.
LEMMA KeptStep == TypeOK /\ Sole /\ Sweep /\ Kept /\ [Next]_vars => Kept'
<1> SUFFICES ASSUME TypeOK, Sole, Sweep, Kept, [Next]_vars
             PROVE  Kept'
  OBVIOUS
<1> USE ImportsAssumption DEF TypeOK, Sole, Kept, RegisteredHasFile, Goto, Raise, Locked,
      cleanVars, importVars, fileVars
<1>1. ASSUME NEW t \in Threads, NEW n \in Imports, Begin(t, n)
      PROVE  Kept'
  BY <1>1 DEF Begin
<1>2. ASSUME NEW t \in Threads, Receive(t) \/ Admit(t) \/ Replace(t)
      PROVE  Kept'
  BY <1>2 DEF Receive, Admit, Replace
<1>3. ASSUME NEW t \in Threads, SyncDirectory(t) \/ Register(t)
      PROVE  Kept'
  BY <1>3 DEF SyncDirectory, Register
<1>4. ASSUME NEW t \in Threads, RegisterFails(t) \/ Abort(t)
      PROVE  Kept'
  BY <1>4 DEF RegisterFails, Abort
<1>5. ASSUME NEW t \in Threads, Answer(t) \/ AnswerFails(t)
      PROVE  Kept'
  BY <1>5 DEF Answer, AnswerFails
<1>6. ASSUME NEW r \in Readers, ReaderNext(r)
      PROVE  Kept'
  BY <1>6 DEF ReaderNext, Open, CacheHit, Hash, Conclude
<1>7. ASSUME NEW p \in Processes, NEW n \in Imports, QuarantineStaged(p, n)
      PROVE  Kept'
  BY <1>7 DEF QuarantineStaged, Quarantine
<1>8. ASSUME NEW p \in Processes, NEW n \in Imports, QuarantineObject(p, n)
      PROVE  Kept'
  <2>1. /\ n \in todo[p] /\ phase[p] = "objects"
        /\ place' = [place EXCEPT ![n] = IF @ = "objects" THEN "orphaned" ELSE @]
        /\ taken' = IF place[n] = "objects" /\ ~alone[p] THEN taken \cup {n} ELSE taken
        /\ UNCHANGED <<pc, import, rows>>
    BY <1>8 DEF QuarantineObject, Quarantine
  <2>2. CASE alone[p]
    <3>1. n \notin rows
      BY <2>1, <2>2 DEF Sweep
    <3>2. \A t \in Threads : pc[t] = "idle"
      BY <2>1, <2>2 DEF Sweep
    <3>3. QED
      BY <2>1, <2>2, <3>1, <3>2
  <2>3. CASE ~alone[p]
    BY <2>1, <2>3
  <2>4. QED
    BY <2>2, <2>3
<1>9. ASSUME NEW p \in Processes,
             \/ Construct(p) \/ ReadKnown(p) \/ ListObjects(p)
             \/ StartFails(p) \/ Serve(p)
      PROVE  Kept'
  BY <1>9 DEF Construct, ReadKnown, ListObjects, StartFails, Serve
<1>10. ASSUME NEW p \in Processes, End(p)
       PROVE  Kept'
  BY <1>10 DEF End, ThreadsEnd
<1>11. CASE PowerLoss
  <2>1. \A t \in Threads : pc[t] = "replaced" => import[t] \notin rows
    OBVIOUS
  <2>2. \A n \in rows : place'[n] = place[n]
    BY <1>11, <2>1 DEF PowerLoss
  <2>3. rows' = rows /\ taken' = taken /\ \A t \in Threads : pc'[t] = "idle"
    BY <1>11 DEF PowerLoss, ThreadsEnd
  <2>4. QED
    BY <2>2, <2>3
<1>12. CASE (\E n \in Imports : Change(n)) \/ UNCHANGED vars
  BY <1>12 DEF Change, vars
<1>13. QED
  BY <1>1, <1>2, <1>3, <1>4, <1>5, <1>6, <1>7, <1>8, <1>9, <1>10, <1>11, <1>12
     DEF Next, ThreadNext, ProcessNext

\* An exception reaches the caller before there is a row, or after the object
\* was taken.
LEMMA FailedStep ==
  TypeOK /\ Sole /\ Kept /\ FailedIsUnregistered /\ [Next]_vars => FailedIsUnregistered'
<1> SUFFICES ASSUME TypeOK, Sole, Kept, FailedIsUnregistered, [Next]_vars
             PROVE  FailedIsUnregistered'
  OBVIOUS
<1> USE DEF TypeOK, FailedIsUnregistered, Goto, Raise, Locked, cleanVars, importVars,
      fileVars
<1>1. ASSUME NEW t \in Threads, ThreadNext(t)
      PROVE  FailedIsUnregistered'
  <2>1. CASE RegisterFails(t) \/ Abort(t)
    BY <2>1 DEF RegisterFails, Abort, Sole
  <2>2. CASE AnswerFails(t)
    BY <2>2 DEF AnswerFails, Kept
  <2>3. CASE Register(t)
    BY <2>3 DEF Register, Sole
  <2>4. CASE \/ \E n \in Imports : Begin(t, n)
             \/ Receive(t) \/ Admit(t) \/ Replace(t) \/ SyncDirectory(t) \/ Answer(t)
    BY <2>4 DEF Begin, Receive, Admit, Replace, SyncDirectory, Answer
  <2>5. QED
    BY <1>1, <2>1, <2>2, <2>3, <2>4 DEF ThreadNext
<1>2. ASSUME NEW r \in Readers, ReaderNext(r)
      PROVE  FailedIsUnregistered'
  BY <1>2 DEF ReaderNext, Open, CacheHit, Hash, Conclude
<1>3. ASSUME NEW p \in Processes, ProcessNext(p)
      PROVE  FailedIsUnregistered'
  BY <1>3 DEF ProcessNext, Construct, QuarantineStaged, QuarantineObject, Quarantine,
     ReadKnown, ListObjects, Serve, StartFails, End, ThreadsEnd
<1>4. CASE PowerLoss \/ (\E n \in Imports : Change(n)) \/ UNCHANGED vars
  BY <1>4 DEF PowerLoss, ThreadsEnd, Change, vars
<1>5. QED
  BY <1>1, <1>2, <1>3, <1>4 DEF Next

\* The cache is fed only with the stamp of whole bytes: an importer's, checked
\* before they got their name, or a reader's, unchanged since before it read.
LEMMA SoundStep == TypeOK /\ Sole /\ Sound /\ [Next]_vars => Sound'
<1> SUFFICES ASSUME TypeOK, Sole, Sound, [Next]_vars
             PROVE  Sound'
  OBVIOUS
<1> USE ImportsAssumption DEF TypeOK, Sound, CacheIsTrue, Goto, Raise, Locked, Unverified,
      cleanVars, importVars, fileVars
<1>1. ASSUME NEW t \in Threads, NEW n \in Imports, Begin(t, n)
      PROVE  Sound'
  BY <1>1 DEF Begin
<1>2. ASSUME NEW t \in Threads, Receive(t)
      PROVE  Sound'
  <2>1. import[t] \in Imports /\ import[t] \notin rows
    BY <1>2 DEF Receive, Sole
  <2>2. \A n \in Imports : n # import[t] => content'[n] = content[n]
    BY <1>2 DEF Receive
  <2>3. \A u \in Threads : pc'[u] \in Locked => pc[u] \in Locked /\ import[u] # import[t]
    BY <1>2 DEF Receive, Sole
  <2>4. QED
    BY <1>2, <2>1, <2>2, <2>3 DEF Receive
<1>3. ASSUME NEW t \in Threads, Admit(t) \/ Replace(t) \/ SyncDirectory(t)
      PROVE  Sound'
  BY <1>3 DEF Admit, Replace, SyncDirectory
<1>4. ASSUME NEW t \in Threads, Register(t)
      PROVE  Sound'
  BY <1>4 DEF Register
<1>5. ASSUME NEW t \in Threads, RegisterFails(t) \/ Abort(t)
      PROVE  Sound'
  BY <1>5 DEF RegisterFails, Abort
<1>6. ASSUME NEW t \in Threads, Answer(t) \/ AnswerFails(t)
      PROVE  Sound'
  BY <1>6 DEF Answer, AnswerFails
<1>7. ASSUME NEW r \in Readers, NEW n \in Imports, Open(r, n)
      PROVE  Sound'
  BY <1>7 DEF Open
<1>8. ASSUME NEW r \in Readers, CacheHit(r)
      PROVE  Sound'
  BY <1>8 DEF CacheHit, Idle
<1>9. ASSUME NEW r \in Readers, Hash(r)
      PROVE  Sound'
  <2>1. /\ reader[r] \in Readings
        /\ reader' = [reader EXCEPT ![r] =
                        [@ EXCEPT !.step = "hashed", !.seen = content[reader[r].n]]]
    BY <1>9 DEF Hash
  <2>2. /\ reader'[r].n = reader[r].n /\ reader'[r].before = reader[r].before
        /\ reader'[r].seen = content[reader[r].n]
        /\ \A q \in Readers : q # r => reader'[q] = reader[q]
    BY <2>1 DEF Readings
  <2>3. QED
    BY <1>9, <2>2 DEF Hash
<1>10. ASSUME NEW r \in Readers, Conclude(r)
       PROVE  Sound'
  BY <1>10 DEF Conclude, Idle
<1>11. ASSUME NEW p \in Processes, ProcessNext(p)
       PROVE  Sound'
  <2>1. CASE \E n \in Imports : QuarantineStaged(p, n) \/ QuarantineObject(p, n)
    BY <2>1 DEF QuarantineStaged, QuarantineObject, Quarantine
  <2>2. CASE Construct(p) \/ ReadKnown(p) \/ ListObjects(p) \/ StartFails(p)
    BY <2>2 DEF Construct, ReadKnown, ListObjects, StartFails
  <2>3. CASE Serve(p)
    BY <2>3 DEF Serve
  <2>4. CASE End(p)
    BY <2>4 DEF End, ThreadsEnd, Idle
  <2>5. QED
    BY <1>11, <2>1, <2>2, <2>3, <2>4 DEF ProcessNext
<1>12. ASSUME NEW n \in Imports, Change(n)
       PROVE  Sound'
  <2>1. /\ stamp' = [stamp EXCEPT ![n] = @ + 1]
        /\ \A m \in Imports : m # n => content'[m] = content[m]
        /\ UNCHANGED <<pc, import, rows, verified, reader>>
    BY <1>12 DEF Change
  <2>2. stamp'[n] = stamp[n] + 1 /\ verified[n] < stamp'[n]
    BY <2>1
  <2>3. \A t \in Threads : pc[t] \in Locked => import[t] # n
    BY <1>12 DEF Change, Working, Busy
  <2>4. \A r \in Readers : reader[r].step # "idle" /\ reader[r].n = n =>
          reader[r].before < stamp'[n]
    BY <2>2 DEF Readings
  <2>5. QED
    BY <2>1, <2>2, <2>3, <2>4 DEF Readings
<1>13. CASE PowerLoss
  BY <1>13 DEF PowerLoss, ThreadsEnd, Idle
<1>14. CASE UNCHANGED vars
  BY <1>14 DEF vars
<1>15. QED
  BY <1>1, <1>2, <1>3, <1>4, <1>5, <1>6, <1>7, <1>8, <1>9, <1>10, <1>11, <1>12,
     <1>13, <1>14 DEF Next, ThreadNext, ReaderNext

\* What was swept stays swept while the process serves: a new staged file or
\* object belongs to an import, until that is registered or has failed.
LEMMA SweptStep == TypeOK /\ Sole /\ Sweep /\ Swept /\ [Next]_vars => Swept'
<1> SUFFICES ASSUME TypeOK, Sole, Sweep, Swept, [Next]_vars
             PROVE  Swept'
  OBVIOUS
<1> USE ImportsAssumption DEF TypeOK, Swept, Working, Busy, Goto, Raise, Locked, Phases,
      cleanVars, importVars, fileVars
<1>1. ASSUME NEW t \in Threads, NEW n \in Imports, Begin(t, n)
      PROVE  Swept'
  BY <1>1 DEF Begin
<1>2. ASSUME NEW t \in Threads,
             Receive(t) \/ Admit(t) \/ Replace(t) \/ SyncDirectory(t) \/ Register(t)
      PROVE  Swept'
  BY <1>2 DEF Receive, Admit, Replace, SyncDirectory, Register
<1>3. ASSUME NEW t \in Threads, RegisterFails(t) \/ Abort(t)
      PROVE  Swept'
  BY <1>3 DEF RegisterFails, Abort
<1>4. ASSUME NEW t \in Threads, Answer(t) \/ AnswerFails(t)
      PROVE  Swept'
  BY <1>4 DEF Answer, AnswerFails, Sole
<1>5. ASSUME NEW r \in Readers, ReaderNext(r)
      PROVE  Swept'
  BY <1>5 DEF ReaderNext, Open, CacheHit, Hash, Conclude
<1>6. ASSUME NEW p \in Processes, NEW n \in Imports,
             QuarantineStaged(p, n) \/ QuarantineObject(p, n)
      PROVE  Swept'
  BY <1>6 DEF QuarantineStaged, QuarantineObject, Quarantine
<1>7. ASSUME NEW p \in Processes, Construct(p) \/ ReadKnown(p) \/ ListObjects(p)
      PROVE  Swept'
  BY <1>7 DEF Construct, ReadKnown, ListObjects
<1>8. ASSUME NEW p \in Processes, StartFails(p)
      PROVE  Swept'
  BY <1>8 DEF StartFails
<1>9. ASSUME NEW p \in Processes, Serve(p)
      PROVE  Swept'
  <2>1. \A q \in Processes : alone'[q] => q = p /\ alone[p]
    BY <1>9 DEF Serve
  <2>2. alone[p] => \A n \in Imports :
          place[n] # "staging" /\ (place[n] = "objects" => n \in rows)
    BY <1>9 DEF Serve, Sweep
  <2>3. QED
    BY <1>9, <2>1, <2>2 DEF Serve
<1>10. ASSUME NEW p \in Processes, End(p)
       PROVE  Swept'
  <2>1. phase' = [phase EXCEPT ![p] = "down"] /\ alone' = [alone EXCEPT ![p] = FALSE]
    BY <1>10 DEF End
  <2>2. \A q \in Processes : phase[q] = "serving" => q = p
    BY <1>10 DEF End, Sole
  <2>3. \A q \in Processes : phase'[q] # "serving"
    BY <2>1, <2>2
  <2>4. QED
    BY <2>3
<1>11. CASE PowerLoss
  BY <1>11 DEF PowerLoss
<1>12. CASE (\E n \in Imports : Change(n)) \/ UNCHANGED vars
  BY <1>12 DEF Change, vars
<1>13. QED
  BY <1>1, <1>2, <1>3, <1>4, <1>5, <1>6, <1>7, <1>8, <1>9, <1>10, <1>11, <1>12
     DEF Next, ThreadNext, ProcessNext

LEMMA InitInv == Init => IInv
<1> SUFFICES ASSUME Init
             PROVE  IInv
  OBVIOUS
<1> USE ImportsAssumption, BoundAssumption DEF Init
<1>1. TypeOK
  BY DEF TypeOK, Phases, Steps, Places, Bytes, Readings, Idle, Unverified
<1>2. Sole /\ Room
  BY UsageAdds DEF Sole, Room, QuotaHeld, Locked
<1>3. Sweep /\ Kept
  BY DEF Sweep, Kept, RegisteredHasFile
<1>4. Sound
  BY DEF Sound, CacheIsTrue, Locked, Idle, Unverified
<1>5. FailedIsUnregistered /\ Swept
  BY DEF FailedIsUnregistered, Swept
<1>6. QED
  BY <1>1, <1>2, <1>3, <1>4, <1>5 DEF IInv

\* The conjuncts are preserved together.
LEMMA Invariance == Spec => []IInv
<1>1. IInv /\ [Next]_vars => IInv'
  BY TypeStep, SoleStep, RoomStep, SweepStep, KeptStep, SoundStep, FailedStep, SweptStep
     DEF IInv
<1>2. QED
  BY InitInv, <1>1, PTL DEF Spec

\* Every reachable state of the registry is well-typed.
THEOREM TypeCorrect == Spec => []TypeOK
<1>1. IInv => TypeOK
  BY DEF IInv
<1>2. QED
  BY Invariance, <1>1, PTL

\* The registered bytes never exceed max_storage_bytes (artifacts.py, _commit).
THEOREM QuotaIsHeld == Spec => []QuotaHeld
<1>1. IInv => QuotaHeld
  BY DEF IInv, Room
<1>2. QED
  BY Invariance, <1>1, PTL

\* A row's object file is in place unless a clean-up beside a serving process
\* took it: no failure, crash or restart loses it.
THEOREM RegisteredKeepsFile == Spec => []RegisteredHasFile
<1>1. IInv => RegisteredHasFile
  BY DEF IInv, Kept
<1>2. QED
  BY Invariance, <1>1, PTL

\* The verification cache only answers for bytes that are the registered ones.
THEOREM CacheIsSound == Spec => []CacheIsTrue
<1>1. IInv => CacheIsTrue
  BY DEF IInv, Sound
<1>2. QED
  BY Invariance, <1>1, PTL

\* An import that failed registered nothing, unless its object was taken.
THEOREM FailureRegistersNothing == Spec => []FailedIsUnregistered
<1>1. IInv => FailedIsUnregistered
  BY DEF IInv
<1>2. QED
  BY Invariance, <1>1, PTL

\* A process that cleaned up alone serves without leftovers of earlier ones.
THEOREM ServesSwept == Spec => []Swept
<1>1. IInv => Swept
  BY DEF IInv
<1>2. QED
  BY Invariance, <1>1, PTL
================================================================================
