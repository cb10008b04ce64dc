---------------------------- MODULE HostEpochProofs ----------------------------
(***************************************************************************)
(* Proofs about HostEpoch, for any number of processes and data roots and  *)
(* any bound on the epochs.                                                *)
(***************************************************************************)
EXTENDS HostEpoch, TLAPS

\* A process past the flock, until it unlocks, is the lock's holder.
LockInv == \A p \in Processes : phase[p] \in Holding => lock = p

\* Scheduler threads live only in a process that is starting or stopping them, that
\* serves, or whose start failed after one of them had started.
ThreadsInv ==
  \A p \in Processes :
    threads[p] # {} =>
      phase[p] \in {"starting", "serving", "stopping", "retained", "failed"}

\* Where the four steps of _advance_host_epoch stand: the starting process has
\* read the current file, its epoch is above the file before the replace and
\* equal to it after, and what was ever used is on disk, at or below the file.
AdvanceInv ==
  /\ lastUsed <= epochDisk
  /\ epochDisk <= epochFile
  /\ \A p \in Processes :
       /\ phase[p] = "read" => previous[p] = epochFile
       /\ phase[p] = "begun" => epoch[p] > epochFile
       /\ phase[p] = "replaced" => epoch[p] = epochFile /\ epoch[p] > lastUsed

\* From the store's commit on its row is the epoch of the holder of the lock, from
\* the sync on so are the file and the disk, until the lock is given back.
AgreedInv ==
  \A p \in Processes :
    /\ phase[p] \in Holding \ {"locked", "read"} => epoch[p] = storeEpoch[root[p]]
    /\ phase[p] \in Holding \ {"locked", "read", "begun", "replaced"} =>
         epoch[p] = epochFile /\ epoch[p] = epochDisk /\ epoch[p] = lastUsed

\* An operator's epoch was used, so the next epoch is above it; and the operators
\* beside one another are fenced.
FencedInv ==
  /\ \A p \in Operators : epoch[p] <= lastUsed
  /\ OperatorsAreFenced

IInv == TypeOK /\ LockInv /\ ThreadsInv /\ AdvanceInv /\ AgreedInv /\ FencedInv

\* One of the process's scheduler threads returns.
ThreadsEnd(p) == \E t \in {"loop", "control"} : ThreadEnds(p, t)

--------------------------------------------------------------------------------

\* Every variable keeps its type: phases are phases, epochs are naturals.
LEMMA TypeStep == TypeOK /\ [Next]_vars => TypeOK'
<1> SUFFICES ASSUME TypeOK, [Next]_vars
             PROVE  TypeOK'
  OBVIOUS
<1> USE DEF TypeOK, Goto, Phases, files, Starting
<1>1. ASSUME NEW p \in Processes, NEW r \in Roots, Construct(p, r)
      PROVE  TypeOK'
  BY <1>1 DEF Construct
<1>2. ASSUME NEW p \in Processes,
             LockAcquired(p) \/ LockRefused(p) \/ ReadEpochFile(p)
      PROVE  TypeOK'
  BY <1>2 DEF LockAcquired, LockRefused, ReadEpochFile
<1>3. ASSUME NEW p \in Processes, BeginBrokerEpoch(p)
      PROVE  TypeOK'
  <2>1. /\ storeEpoch[root[p]] + 1 \in Nat
        /\ previous[p] + 1 \in Nat
    OBVIOUS
  <2>2. QED
    BY <1>3, <2>1 DEF BeginBrokerEpoch
<1>4. ASSUME NEW p \in Processes,
             ReplaceEpochFile(p) \/ SyncDirectory(p) \/ Reconciled(p)
      PROVE  TypeOK'
  BY <1>4 DEF ReplaceEpochFile, SyncDirectory, Reconciled
<1>5. ASSUME NEW p \in Processes,
             LoopStarts(p) \/ ControlStarts(p) \/ StartFails(p) \/ ThreadsEnd(p)
      PROVE  TypeOK'
  BY <1>5 DEF LoopStarts, ControlStarts, StartFails, ThreadsEnd, ThreadEnds
<1>6. ASSUME NEW p \in Processes,
             StopRequested(p) \/ JoinSucceeds(p) \/ JoinTimesOut(p)
      PROVE  TypeOK'
  BY <1>6 DEF StopRequested, JoinSucceeds, JoinTimesOut
<1>7. ASSUME NEW p \in Processes, Exit(p) \/ Crash(p)
      PROVE  TypeOK'
  BY <1>7 DEF Exit, Crash, Gone
<1>8. CASE PowerLoss
  BY <1>8 DEF PowerLoss
<1>9. CASE UNCHANGED vars
  BY <1>9 DEF vars
<1>10. QED
  BY <1>1, <1>2, <1>3, <1>4, <1>5, <1>6, <1>7, <1>8, <1>9
     DEF Next, ProcessNext, ThreadsEnd

\* Only the flock's holder is past the flock: whoever unlocks leaves Holding.
LEMMA LockStep == TypeOK /\ LockInv /\ [Next]_vars => LockInv'
<1> SUFFICES ASSUME TypeOK, LockInv, [Next]_vars
             PROVE  LockInv'
  OBVIOUS
<1> USE NoProcessAssumption DEF TypeOK, LockInv, Goto, Phases, Holding, Starting
<1>1. ASSUME NEW p \in Processes, NEW r \in Roots, Construct(p, r)
      PROVE  LockInv'
  BY <1>1 DEF Construct
<1>2. ASSUME NEW p \in Processes, LockAcquired(p) \/ LockRefused(p)
      PROVE  LockInv'
  BY <1>2 DEF LockAcquired, LockRefused
<1>3. ASSUME NEW p \in Processes,
             ReadEpochFile(p) \/ BeginBrokerEpoch(p) \/ ReplaceEpochFile(p)
      PROVE  LockInv'
  BY <1>3 DEF ReadEpochFile, BeginBrokerEpoch, ReplaceEpochFile
<1>4. ASSUME NEW p \in Processes,
             SyncDirectory(p) \/ Reconciled(p) \/ LoopStarts(p) \/ ControlStarts(p)
      PROVE  LockInv'
  BY <1>4 DEF SyncDirectory, Reconciled, LoopStarts, ControlStarts
<1>5. ASSUME NEW p \in Processes, StartFails(p) \/ JoinSucceeds(p)
      PROVE  LockInv'
  BY <1>5 DEF StartFails, JoinSucceeds
<1>6. ASSUME NEW p \in Processes,
             ThreadsEnd(p) \/ StopRequested(p) \/ JoinTimesOut(p)
      PROVE  LockInv'
  BY <1>6 DEF ThreadsEnd, ThreadEnds, StopRequested, JoinTimesOut
<1>7. ASSUME NEW p \in Processes, Exit(p) \/ Crash(p)
      PROVE  LockInv'
  BY <1>7 DEF Exit, Crash, Gone
<1>8. CASE PowerLoss
  BY <1>8 DEF PowerLoss
<1>9. CASE UNCHANGED vars
  BY <1>9 DEF vars
<1>10. QED
  BY <1>1, <1>2, <1>3, <1>4, <1>5, <1>6, <1>7, <1>8, <1>9
     DEF Next, ProcessNext, ThreadsEnd

\* A process that stops unlocks only once its threads are dead.
LEMMA ThreadsStep == TypeOK /\ ThreadsInv /\ [Next]_vars => ThreadsInv'
<1> SUFFICES ASSUME TypeOK, ThreadsInv, [Next]_vars
             PROVE  ThreadsInv'
  OBVIOUS
<1> USE DEF TypeOK, ThreadsInv, Goto, Phases, Starting
<1>1. ASSUME NEW p \in Processes, NEW r \in Roots, Construct(p, r)
      PROVE  ThreadsInv'
  BY <1>1 DEF Construct
<1>2. ASSUME NEW p \in Processes,
             \/ LockAcquired(p) \/ LockRefused(p) \/ ReadEpochFile(p)
             \/ BeginBrokerEpoch(p) \/ ReplaceEpochFile(p) \/ SyncDirectory(p)
      PROVE  ThreadsInv'
  BY <1>2 DEF LockAcquired, LockRefused, ReadEpochFile, BeginBrokerEpoch,
              ReplaceEpochFile, SyncDirectory
<1>3. ASSUME NEW p \in Processes,
             Reconciled(p) \/ LoopStarts(p) \/ ControlStarts(p) \/ StartFails(p)
      PROVE  ThreadsInv'
  BY <1>3 DEF Reconciled, LoopStarts, ControlStarts, StartFails
<1>4. ASSUME NEW p \in Processes,
             ThreadsEnd(p) \/ StopRequested(p) \/ JoinSucceeds(p) \/ JoinTimesOut(p)
      PROVE  ThreadsInv'
  BY <1>4 DEF ThreadsEnd, ThreadEnds, StopRequested, JoinSucceeds, JoinTimesOut
<1>5. ASSUME NEW p \in Processes, Exit(p) \/ Crash(p)
      PROVE  ThreadsInv'
  BY <1>5 DEF Exit, Crash, Gone
<1>6. CASE PowerLoss
  BY <1>6 DEF PowerLoss
<1>7. CASE UNCHANGED vars
  BY <1>7 DEF vars
<1>8. QED
  BY <1>1, <1>2, <1>3, <1>4, <1>5, <1>6, <1>7 DEF Next, ProcessNext, ThreadsEnd

\* The epoch file moves only forward, except for a power loss, and never below
\* an epoch that was used.  The lock keeps the four steps of two starts apart.
LEMMA AdvanceStep ==
  TypeOK /\ LockInv /\ AdvanceInv /\ [Next]_vars => AdvanceInv'
<1> SUFFICES ASSUME TypeOK, LockInv, AdvanceInv, [Next]_vars
             PROVE  AdvanceInv'
  OBVIOUS
<1> USE DEF TypeOK, LockInv, AdvanceInv, Goto, Phases, Holding, Starting, files
<1>1. ASSUME NEW p \in Processes, NEW r \in Roots, Construct(p, r)
      PROVE  AdvanceInv'
  BY <1>1 DEF Construct
<1>2. ASSUME NEW p \in Processes,
             LockAcquired(p) \/ LockRefused(p) \/ ReadEpochFile(p)
      PROVE  AdvanceInv'
  BY <1>2 DEF LockAcquired, LockRefused, ReadEpochFile
<1>3. ASSUME NEW p \in Processes, BeginBrokerEpoch(p)
      PROVE  AdvanceInv'
  <2> DEFINE row == storeEpoch[root[p]]
             new == IF row + 1 > previous[p] + 1 THEN row + 1 ELSE previous[p] + 1
  <2>1. row \in Nat /\ previous[p] \in Nat
    OBVIOUS
  <2>2. new \in Nat /\ new > previous[p]
    BY <2>1
  <2>3. /\ phase[p] = "read"
        /\ phase' = [phase EXCEPT ![p] = "begun"]
        /\ epoch' = [epoch EXCEPT ![p] = new]
        /\ UNCHANGED <<previous, epochFile, epochDisk, lastUsed>>
    BY <1>3 DEF BeginBrokerEpoch
  <2> HIDE DEF new
  <2>4. QED
    BY <2>2, <2>3
<1>4. ASSUME NEW p \in Processes, ReplaceEpochFile(p)
      PROVE  AdvanceInv'
  BY <1>4 DEF ReplaceEpochFile
<1>5. ASSUME NEW p \in Processes, SyncDirectory(p)
      PROVE  AdvanceInv'
  BY <1>5 DEF SyncDirectory
<1>6. ASSUME NEW p \in Processes,
             Reconciled(p) \/ LoopStarts(p) \/ ControlStarts(p) \/ StartFails(p)
      PROVE  AdvanceInv'
  BY <1>6 DEF Reconciled, LoopStarts, ControlStarts, StartFails
<1>7. ASSUME NEW p \in Processes,
             ThreadsEnd(p) \/ StopRequested(p) \/ JoinSucceeds(p) \/ JoinTimesOut(p)
      PROVE  AdvanceInv'
  BY <1>7 DEF ThreadsEnd, ThreadEnds, StopRequested, JoinSucceeds, JoinTimesOut
<1>8. ASSUME NEW p \in Processes, Exit(p) \/ Crash(p)
      PROVE  AdvanceInv'
  BY <1>8 DEF Exit, Crash, Gone
<1>9. CASE PowerLoss
  BY <1>9 DEF PowerLoss
<1>10. CASE UNCHANGED vars
  BY <1>10 DEF vars
<1>11. QED
  BY <1>1, <1>2, <1>3, <1>4, <1>5, <1>6, <1>7, <1>8, <1>9, <1>10
     DEF Next, ProcessNext, ThreadsEnd

\* The store's row, the file and the disk are written under the lock only, so the
\* epoch of its holder stays the one they have.
LEMMA AgreedStep ==
  TypeOK /\ LockInv /\ AdvanceInv /\ AgreedInv /\ [Next]_vars => AgreedInv'
<1> SUFFICES ASSUME TypeOK, LockInv, AdvanceInv, AgreedInv, [Next]_vars
             PROVE  AgreedInv'
  OBVIOUS
<1> USE DEF TypeOK, LockInv, AgreedInv, Goto, Phases, Holding, Starting, files
<1>1. ASSUME NEW p \in Processes, NEW r \in Roots, Construct(p, r)
      PROVE  AgreedInv'
  BY <1>1 DEF Construct
<1>2. ASSUME NEW p \in Processes,
             LockAcquired(p) \/ LockRefused(p) \/ ReadEpochFile(p)
      PROVE  AgreedInv'
  BY <1>2, NoProcessAssumption DEF LockAcquired, LockRefused, ReadEpochFile
<1>3. ASSUME NEW p \in Processes, BeginBrokerEpoch(p)
      PROVE  AgreedInv'
  <2> DEFINE row == storeEpoch[root[p]]
             new == IF row + 1 > previous[p] + 1 THEN row + 1 ELSE previous[p] + 1
  <2>1. /\ phase[p] = "read" /\ lock = p
        /\ phase' = [phase EXCEPT ![p] = "begun"]
        /\ epoch' = [epoch EXCEPT ![p] = new]
        /\ storeEpoch' = [storeEpoch EXCEPT ![root[p]] = new]
        /\ UNCHANGED <<root, epochFile, epochDisk, lastUsed>>
    BY <1>3 DEF BeginBrokerEpoch
  <2>2. \A q \in Processes \ {p} : phase'[q] \notin Holding
    BY <2>1
  <2> HIDE DEF new
  <2>3. QED
    BY <2>1, <2>2
<1>4. ASSUME NEW p \in Processes, ReplaceEpochFile(p) \/ SyncDirectory(p)
      PROVE  AgreedInv'
  <2>1. /\ phase[p] \in {"begun", "replaced"} /\ lock = p
        /\ phase[p] = "replaced" => epoch[p] = epochFile
        /\ \A q \in Processes \ {p} : phase'[q] = phase[q] /\ phase[q] \notin Holding
    BY <1>4 DEF ReplaceEpochFile, SyncDirectory, AdvanceInv
  <2>2. QED
    BY <1>4, <2>1 DEF ReplaceEpochFile, SyncDirectory
<1>5. ASSUME NEW p \in Processes,
             Reconciled(p) \/ LoopStarts(p) \/ ControlStarts(p) \/ StartFails(p)
      PROVE  AgreedInv'
  BY <1>5 DEF Reconciled, LoopStarts, ControlStarts, StartFails
<1>6. ASSUME NEW p \in Processes,
             ThreadsEnd(p) \/ StopRequested(p) \/ JoinSucceeds(p) \/ JoinTimesOut(p)
      PROVE  AgreedInv'
  BY <1>6 DEF ThreadsEnd, ThreadEnds, StopRequested, JoinSucceeds, JoinTimesOut
<1>7. ASSUME NEW p \in Processes, Exit(p) \/ Crash(p)
      PROVE  AgreedInv'
  BY <1>7 DEF Exit, Crash, Gone
<1>8. CASE PowerLoss
  BY <1>8 DEF PowerLoss
<1>9. CASE UNCHANGED vars
  BY <1>9 DEF vars
<1>10. QED
  BY <1>1, <1>2, <1>3, <1>4, <1>5, <1>6, <1>7, <1>8, <1>9
     DEF Next, ProcessNext, ThreadsEnd

\* No other step than the adoption of an epoch lets a process operate that did not,
\* and what is abandoned stays so until its threads are dead.
LEMMA OthersDoNotAcquire ==
  ASSUME TypeOK, ThreadsInv, [Next]_vars, ~(\E p \in Processes : SyncDirectory(p))
  PROVE  /\ UNCHANGED lastUsed
         /\ \A p \in Processes :
              Operates(p)' => /\ Operates(p)
                              /\ epoch'[p] = epoch[p]
                              /\ Abandoned(p) => Abandoned(p)'
<1> DEFINE Kept ==
      /\ UNCHANGED lastUsed
      /\ \A p \in Processes :
           Operates(p)' => /\ Operates(p)
                           /\ epoch'[p] = epoch[p]
                           /\ Abandoned(p) => Abandoned(p)'
<1> USE DEF TypeOK, ThreadsInv, Goto, Phases, Starting, Operates, Abandoned, files
<1>1. ASSUME NEW p \in Processes, NEW r \in Roots, Construct(p, r)
      PROVE  Kept
  BY <1>1 DEF Construct
<1>2. ASSUME NEW p \in Processes,
             \/ LockAcquired(p) \/ LockRefused(p) \/ ReadEpochFile(p)
             \/ BeginBrokerEpoch(p) \/ ReplaceEpochFile(p)
      PROVE  Kept
  BY <1>2 DEF LockAcquired, LockRefused, ReadEpochFile, BeginBrokerEpoch,
              ReplaceEpochFile
<1>3. ASSUME NEW p \in Processes,
             Reconciled(p) \/ LoopStarts(p) \/ ControlStarts(p) \/ StartFails(p)
      PROVE  Kept
  BY <1>3 DEF Reconciled, LoopStarts, ControlStarts, StartFails
<1>4. ASSUME NEW p \in Processes,
             ThreadsEnd(p) \/ StopRequested(p) \/ JoinSucceeds(p) \/ JoinTimesOut(p)
      PROVE  Kept
  BY <1>4 DEF ThreadsEnd, ThreadEnds, StopRequested, JoinSucceeds, JoinTimesOut
<1>5. ASSUME NEW p \in Processes, Exit(p) \/ Crash(p)
      PROVE  Kept
  BY <1>5 DEF Exit, Crash, Gone
<1>6. CASE PowerLoss
  BY <1>6 DEF PowerLoss
<1>7. CASE UNCHANGED vars
  BY <1>7 DEF vars
<1>8. QED
  BY <1>1, <1>2, <1>3, <1>4, <1>5, <1>6, <1>7 DEF Next, ProcessNext, ThreadsEnd

\* An operator without the lock was abandoned by its own start.
LEMMA OwnerHoldsLock ==
  ASSUME LockInv, ThreadsInv
  PROVE  \A p \in Processes : Operates(p) => Abandoned(p) \/ lock = p
BY DEF LockInv, ThreadsInv, Operates, Abandoned, Holding, Phases

\* A process adopts an epoch above every epoch that was used, and only abandoned
\* processes operate beside it, under epochs that were used.
LEMMA FencedStep ==
  TypeOK /\ LockInv /\ ThreadsInv /\ AdvanceInv /\ FencedInv /\ [Next]_vars => FencedInv'
<1> SUFFICES ASSUME TypeOK, LockInv, ThreadsInv, AdvanceInv, FencedInv, [Next]_vars
             PROVE  FencedInv'
  OBVIOUS
<1> USE DEF FencedInv, OperatorsAreFenced, Operators
<1>1. ASSUME NEW p \in Processes, SyncDirectory(p)
      PROVE  FencedInv'
  <2>1. /\ phase[p] = "replaced" /\ lock = p
        /\ phase' = [phase EXCEPT ![p] = "reconciling"]
        /\ lastUsed' = epoch[p] /\ epoch[p] > lastUsed
        /\ UNCHANGED <<epoch, threads>>
    BY <1>1 DEF SyncDirectory, Goto, LockInv, AdvanceInv, Holding, Phases
  <2>2. ASSUME NEW q \in Processes, Operates(q)', q # p
        PROVE  Abandoned(q) /\ Abandoned(q)' /\ Operates(q)
    BY <2>1, <2>2, OwnerHoldsLock DEF TypeOK, Operates, Abandoned
  <2>3. ASSUME NEW q \in Processes, Operates(q)', q # p
        PROVE  epoch'[q] < epoch'[p] /\ epoch'[q] <= lastUsed'
    BY <2>1, <2>2, <2>3 DEF TypeOK
  <2>4. epoch'[p] <= lastUsed'
    BY <2>1 DEF TypeOK
  <2>5. \A q \in Operators' : epoch'[q] <= lastUsed'
    BY <2>3, <2>4
  <2>6. \A q, r \in Operators' :
          q # r => \/ Abandoned(q)' /\ epoch'[q] < epoch'[r]
                   \/ Abandoned(r)' /\ epoch'[r] < epoch'[q]
    <3> SUFFICES ASSUME NEW q \in Processes, NEW r \in Processes, q # r,
                        Operates(q)', Operates(r)'
                 PROVE  \/ Abandoned(q)' /\ epoch'[q] < epoch'[r]
                        \/ Abandoned(r)' /\ epoch'[r] < epoch'[q]
      OBVIOUS
    <3>1. CASE q # p /\ r # p
      BY <2>1, <2>2, <3>1
    <3>2. CASE q = p \/ r = p
      BY <2>2, <2>3, <3>2
    <3>3. QED
      BY <3>1, <3>2
  <2>7. QED
    BY <2>5, <2>6
<1>2. CASE ~(\E p \in Processes : SyncDirectory(p))
  BY <1>2, OthersDoNotAcquire
<1>3. QED
  BY <1>1, <1>2

\* The strengthening is an invariant of the whole protocol.
LEMMA Invariance == Spec => []IInv
<1>1. Init => IInv
  BY DEF Init, IInv, TypeOK, LockInv, ThreadsInv, AdvanceInv, AgreedInv, FencedInv,
         OperatorsAreFenced, Operators, Operates, Phases, Holding
<1>2. IInv /\ [Next]_vars => IInv'
  BY TypeStep, LockStep, ThreadsStep, AdvanceStep, AgreedStep, FencedStep DEF IInv
<1>3. QED
  BY <1>1, <1>2, PTL DEF Spec

--------------------------------------------------------------------------------

\* The variables keep their types in every reachable state.
THEOREM TypeCorrect == Spec => []TypeOK
<1>1. IInv => TypeOK
  BY DEF IInv
<1>2. QED
  BY <1>1, Invariance, PTL

\* At most one process operates on the host, also while one is shutting down, but
\* for processes whose start failed with the scheduler thread alive, and those have
\* an older epoch than any other operator.
THEOREM OperatorsFenced == Spec => []OperatorsAreFenced
<1>1. IInv => OperatorsAreFenced
  BY DEF IInv, FencedInv
<1>2. QED
  BY <1>1, Invariance, PTL

\* No power loss brings back an epoch file below an epoch that was used.
THEOREM UsedEpochSurvives == Spec => []UsedEpochIsDurable
<1>1. IInv => UsedEpochIsDurable
  BY DEF IInv, AdvanceInv, UsedEpochIsDurable
<1>2. QED
  BY <1>1, Invariance, PTL

\* While a process owns the host, its store, the epoch file and the disk have its
\* epoch: the four steps of another start never interleave with it, and an
\* abandoned process writes none of them.
THEOREM OwnersEpochIsAgreed == Spec => []EpochIsAgreed
<1>1. IInv => EpochIsAgreed
  <2> SUFFICES ASSUME IInv, NEW p \in Owners
               PROVE  /\ epoch[p] = storeEpoch[root[p]] /\ epoch[p] = epochFile
                      /\ epoch[p] = epochDisk /\ epoch[p] = lastUsed
    BY DEF EpochIsAgreed
  <2>1. p \in Processes
        /\ phase[p] \in {"reconciling", "cleaning", "starting", "serving", "stopping",
                          "retained"}
    BY DEF Owners, Operators, Operates, Abandoned, IInv, ThreadsInv
  <2>2. QED
    BY <2>1 DEF IInv, AgreedInv, Holding, Phases
<1>2. QED
  BY <1>1, Invariance, PTL

--------------------------------------------------------------------------------

\* Who owns the host holds its lock.
LEMMA OneOwner ==
  ASSUME IInv
  PROVE  \A p \in Owners : p \in Processes /\ lock = p
BY OwnerHoldsLock DEF IInv, Owners, Operators

\* The step of the detailed protocol that is FencedOwner's Acquire: the epoch
\* file is durable and the coordinator adopts the epoch.
LEMMA SyncAcquires ==
  ASSUME IInv, NEW p \in Processes, SyncDirectory(p)
  PROVE  Promise!Acquire(p)
<1> USE DEF IInv, TypeOK, Goto, Phases, Holding
<1>1. /\ phase[p] = "replaced" /\ lock = p
      /\ phase' = [phase EXCEPT ![p] = "reconciling"]
      /\ UNCHANGED threads
  BY DEF SyncDirectory, LockInv
<1>2. Owners = {}
  BY <1>1, OneOwner DEF ThreadsInv, Owners, Operators, Operates
<1>3. Owners' = {p}
  BY <1>1, <1>2 DEF Owners, Operators, Operates, Abandoned
<1>4. lastUsed' = epoch[p] /\ epoch[p] > lastUsed
  BY <1>1 DEF SyncDirectory, AdvanceInv
<1>5. QED
  BY <1>2, <1>3, <1>4 DEF Promise!Acquire

\* The lock, the epoch file and the stores implement FencedOwner: one owner at a
\* time, each under an epoch above every epoch operated under before.
THEOREM Refinement == Spec => Implements
<1>1. Init => Promise!Init
  BY DEF Init, Promise!Init, Owners, Operators, Operates
<1>2. IInv /\ [Next]_vars => [Promise!Next]_(Promise!vars)
  <2> SUFFICES ASSUME IInv, [Next]_vars
               PROVE  Promise!Next \/ UNCHANGED Promise!vars
    OBVIOUS
  <2>1. CASE \E p \in Processes : SyncDirectory(p)
    BY <2>1, SyncAcquires DEF Promise!Next
  <2>2. CASE ~(\E p \in Processes : SyncDirectory(p))
    <3>1. Owners' \subseteq Owners /\ lastUsed' = lastUsed
      BY <2>2, OthersDoNotAcquire DEF IInv, Owners, Operators
    <3>2. \A p, q \in Owners : p \in Processes /\ p = q
      BY OneOwner
    <3>3. CASE Owners' = Owners
      BY <3>1, <3>3 DEF Promise!vars
    <3>4. CASE Owners' # Owners
      <4>1. PICK p \in Owners : p \notin Owners'
        BY <3>1, <3>4
      <4>2. p \in Processes /\ Owners = {p} /\ Owners' = {}
        BY <3>1, <3>2, <4>1
      <4>3. QED
        BY <3>1, <4>2 DEF Promise!Next, Promise!Release
    <3>5. QED
      BY <3>3, <3>4
  <2>3. QED
    BY <2>1, <2>2
<1>3. QED
  BY <1>1, <1>2, Invariance, PTL DEF Spec, Implements, Promise!Spec
================================================================================
