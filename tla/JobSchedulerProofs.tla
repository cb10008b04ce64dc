--------------------------- MODULE JobSchedulerProofs --------------------------
(***************************************************************************)
(* Theorems about JobScheduler: the type of its state, and that the GPU    *)
(* lease is never shared, outlived or reported released too early.         *)
(***************************************************************************)
EXTENDS JobScheduler, FiniteInduction

Idle == {"off", "idle", "ended"}

\* The steps of _execute before an exception or the end of its try block.
Trying == Steps \ (Idle \cup {"cleanup"})

\* While the scheduler is busy its job is a row, and stays active until an
\* except clause or the completion; nothing runs before the restart is over.
Location ==
  /\ pc \notin Idle => job \in Rows
  /\ pc \in Trying => status[job] \in Active
  /\ process # "up" => pc = "off"

Leased == {"admitted", "activated", "executing", "performed", "releasing"}

\* Where leases are: on rows that need one, at most one held, with the running
\* job from its admission to its release, and with no completed job.
Leases ==
  /\ \A j \in JobIds : lease[j] # "none" => j \in Rows /\ request[j] \in Gpu
  /\ \A i, j \in JobIds : lease[i] \in Held /\ lease[j] \in Held => i = j
  /\ pc \in Leased /\ request[job] \in Gpu => lease[job] = "active"
  /\ pc = "finishing" => lease[job] \notin Held
  /\ CompletedAfterRelease

\* A job that still counts against max_pending_jobs.
Open == {j \in JobIds : status[j] \in {"queued"} \cup Active}

IInv == TypeOK /\ Location /\ Leases /\ OneJobPerKey /\ PendingBounded

USE BoundsAssumption, GpuAssumption, PriorityAssumption

LEMMA RowsAreJobIds ==
  ASSUME TypeOK
  PROVE  Rows = 1 .. Len(key) /\ Rows \subseteq JobIds /\ Rows = DOMAIN request
BY DEF TypeOK, StoreTypes, Rows, JobIds

LEMMA InitInvariant == Init => IInv
<1> SUFFICES ASSUME Init PROVE IInv
  OBVIOUS
<1> USE DEF Init
<1>1. /\ key \in Seq(Keys) /\ request \in Seq(Requests)
      /\ Len(key) = 0 /\ Len(request) = 0 /\ Rows = {}
  BY DEF Rows
<1>2. StoreTypes
  BY <1>1 DEF StoreTypes, Statuses, Held
<1>3. ProcessTypes
  <2>1. crashes \in 0 .. MaxCrashes
    OBVIOUS
  <2> QED
    BY <2>1, Zenon DEF ProcessTypes
<1>4. ThreadTypes
  <2>1. /\ job \in 0 .. MaxJobs /\ starts \in [JobIds -> Nat]
        /\ pc \in {"off", "idle", "ended"} <=> job = 0
    OBVIOUS
  <2> QED
    BY <2>1, Zenon DEF ThreadTypes, Steps, Exceptions
<1>5. Location /\ Leases
  BY DEF Location, Leases, CompletedAfterRelease, Idle, Trying, Leased, Held
<1>6. OneJobPerKey
  BY <1>1 DEF OneJobPerKey
<1>7. PendingBounded
  <2>1. Open = {}
    BY DEF Open, Active
  <2>2. Cardinality(Open) <= MaxPending
    BY <2>1, FS_EmptySet
  <2> QED
    BY <2>2 DEF PendingBounded, Open
<1> QED
  BY <1>2, <1>3, <1>4, <1>5, <1>6, <1>7 DEF IInv, TypeOK

--------------------------------------------------------------------------------

\* The process' variables: the steps that change them are few.
LEMMA ProcessStep ==
  ASSUME TypeOK, [Next]_vars
  PROVE  ProcessTypes'
<1> USE DEF TypeOK, ProcessTypes, keepOthers
<1>1. ASSUME NEW k \in Keys, NEW r \in Requests, SubmitReceived(k, r) PROVE ProcessTypes'
  BY <1>1 DEF SubmitReceived
<1>2. ASSUME NEW s \in inflight, Submit(s) PROVE ProcessTypes'
  BY <1>2 DEF Submit
<1>3. ASSUME NEW j \in JobIds, Cancel(j) \/ WaitOver(j) \/ Claim(j) PROVE ProcessTypes'
  BY <1>3 DEF Cancel, WaitOver, Claim
<1>4. ASSUME Validate \/ Activate \/ Verify \/ Stage \/ Execute \/ Deactivate PROVE ProcessTypes'
  BY <1>4 DEF Validate, Activate, Verify, Stage, Execute, Deactivate
<1>5. ASSUME Acquire \/ Release \/ Cleanup PROVE ProcessTypes'
  BY <1>5 DEF Acquire, Release, Cleanup, ReleaseLease
<1>6. ASSUME Finish \/ Handle \/ HandlerFails PROVE ProcessTypes'
  BY <1>6 DEF Finish, Handle, HandlerFails
<1>7. ASSUME StopSet \/ LoopEnds \/ ReconcileLeases \/ InterruptJobs PROVE ProcessTypes'
  BY <1>7 DEF StopSet, LoopEnds, ReconcileLeases, InterruptJobs
<1>8. ASSUME ProcessEnds PROVE ProcessTypes'
  <2>1. crashes' \in 0 .. MaxCrashes
    BY <1>8 DEF ProcessEnds
  <2> QED
    BY <1>8, <2>1, Zenon DEF ProcessEnds
<1>9. CASE UNCHANGED vars
  BY <1>9 DEF vars
<1> QED
  BY <1>1, <1>2, <1>3, <1>4, <1>5, <1>6, <1>7, <1>8, <1>9 DEF Next, Handlers, Execution

\* The scheduler thread's variables.
LEMMA ThreadStep ==
  ASSUME TypeOK, Location, [Next]_vars
  PROVE  ThreadTypes'
<1> USE DEF TypeOK, ThreadTypes, Steps, Exceptions, locals, keepLocals, Proceed, Raise
<1>1. ASSUME NEW k \in Keys, NEW r \in Requests, SubmitReceived(k, r) PROVE ThreadTypes'
  BY <1>1 DEF SubmitReceived
<1>2. ASSUME NEW s \in inflight, Submit(s) PROVE ThreadTypes'
  BY <1>2 DEF Submit
<1>3. ASSUME NEW j \in JobIds, Cancel(j) \/ WaitOver(j) PROVE ThreadTypes'
  BY <1>3 DEF Cancel, WaitOver
<1>4. ASSUME NEW j \in JobIds, Claim(j) PROVE ThreadTypes'
  <2>1. /\ job' \in 0 .. MaxJobs
        /\ (pc \in {"off", "idle", "ended"} <=> job = 0)'
    BY <1>4 DEF Claim, JobIds
  <2>2. starts' \in [JobIds -> Nat] /\ pc' \in Steps
    BY <1>4, Zenon DEF Claim
  <2> QED
    BY <1>4, <2>1, <2>2, Zenon DEF Claim
<1>5. ASSUME Validate \/ Activate \/ Stage \/ Execute \/ Deactivate PROVE ThreadTypes'
  BY <1>5 DEF Validate, Activate, Stage, Execute, Deactivate
<1>6. ASSUME Verify PROVE ThreadTypes'
  <2>1. job \in JobIds
    BY <1>6 DEF Verify, JobIds
  <2>2. starts' \in [JobIds -> Nat]
    BY <1>6, <2>1 DEF Verify
  <2> QED
    BY <1>6, <2>2 DEF Verify
<1>7. ASSUME Acquire \/ Release PROVE ThreadTypes'
  BY <1>7 DEF Acquire, Release, ReleaseLease
<1>8. ASSUME Finish \/ Handle \/ HandlerFails PROVE ThreadTypes'
  BY <1>8 DEF Finish, Handle, HandlerFails
<1>9. ASSUME Cleanup \/ ProcessEnds PROVE ThreadTypes'
  <2>1. pc' \in {"off", "idle", "ended"} /\ job' = 0
    BY <1>9 DEF Cleanup, ProcessEnds
  <2>2. performed' = FALSE /\ releaseAttempted' = FALSE /\ exc' = "none" /\ starts' = starts
    BY <1>9, Zenon DEF Cleanup, ProcessEnds
  <2>3. /\ job' \in 0 .. MaxJobs /\ pc' \in Steps
        /\ (pc \in {"off", "idle", "ended"} <=> job = 0)'
    BY <2>1
  <2> QED
    BY <2>2, <2>3, Zenon
<1>10. ASSUME StopSet \/ LoopEnds \/ ReconcileLeases PROVE ThreadTypes'
  BY <1>10 DEF StopSet, LoopEnds, ReconcileLeases
<1>11. ASSUME InterruptJobs PROVE ThreadTypes'
  BY <1>11 DEF InterruptJobs, Location
<1>12. CASE UNCHANGED vars
  BY <1>12 DEF vars
<1> QED
  BY <1>1, <1>2, <1>3, <1>4, <1>5, <1>6, <1>7, <1>8, <1>9, <1>10, <1>11, <1>12
     DEF Next, Handlers, Execution

--------------------------------------------------------------------------------

\* The job table: rows are only appended, and a job that is claimed, requeued,
\* finished or given up keeps its row.
LEMMA StoreStep ==
  ASSUME TypeOK, Location, [Next]_vars
  PROVE  StoreTypes'
<1> USE DEF TypeOK, StoreTypes, rows, Rows, keepOthers, Statuses, Active, Terminal, Held
<1>0. /\ Rows = 1 .. Len(key) /\ Rows \subseteq JobIds
      /\ pc \notin Idle => job \in JobIds
  BY RowsAreJobIds DEF Location
<1>1. ASSUME NEW k \in Keys, NEW r \in Requests, SubmitReceived(k, r) PROVE StoreTypes'
  BY <1>1 DEF SubmitReceived
<1>2. ASSUME NEW s \in inflight, Submit(s) PROVE StoreTypes'
  <2>1. CASE UNCHANGED <<rows, status>>
    BY <1>2, <2>1 DEF Submit
  <2>2. CASE Insert(s)
    <3>1. s.key \in Keys /\ s.request \in Requests
      BY DEF ProcessTypes
    <3>2. /\ (key \in Seq(Keys) /\ request \in Seq(Requests))'
          /\ (Len(key) = Len(request) /\ Len(key) <= MaxJobs)'
          /\ DOMAIN key' = 1 .. Len(key) + 1
      BY <1>0, <2>2, <3>1 DEF Insert
    <3>3. Len(key) + 1 \in JobIds
      BY <1>0, <2>2 DEF Insert, JobIds
    <3>4. /\ status' \in [JobIds -> Statuses]
          /\ (\A j \in JobIds : status[j] = "absent" <=> j \notin Rows)'
      BY <1>0, <2>2, <3>2, <3>3 DEF Insert
    <3> QED
      BY <1>2, <3>2, <3>4 DEF Submit
  <2> QED
    BY <1>2, <2>1, <2>2 DEF Submit
<1>3. ASSUME NEW j \in JobIds, Cancel(j) \/ WaitOver(j) \/ Claim(j) PROVE StoreTypes'
  BY <1>3 DEF Cancel, WaitOver, Claim, Claimable
<1>4. ASSUME Validate \/ Activate \/ Verify \/ Execute \/ Deactivate \/ HandlerFails
      PROVE  StoreTypes'
  BY <1>4 DEF Validate, Activate, Verify, Execute, Deactivate, HandlerFails
<1>5. ASSUME Acquire PROVE StoreTypes'
  BY <1>5, <1>0 DEF Acquire, Idle
<1>6. ASSUME Release PROVE StoreTypes'
  BY <1>6, <1>0 DEF Release, ReleaseLease, Idle
<1>7. ASSUME Cleanup PROVE StoreTypes'
  BY <1>7, <1>0 DEF Cleanup, ReleaseLease, Idle
<1>8. ASSUME Stage \/ Finish PROVE StoreTypes'
  BY <1>8, <1>0 DEF Stage, Finish, Idle
<1>9. ASSUME Handle PROVE StoreTypes'
  BY <1>9, <1>0 DEF Handle, Fail, Defer, Idle, Location, Trying, Steps
<1>10. ASSUME ReconcileLeases PROVE StoreTypes'
  BY <1>10 DEF ReconcileLeases
<1>11. ASSUME InterruptJobs PROVE StoreTypes'
  BY <1>11 DEF InterruptJobs
<1>12. ASSUME StopSet \/ LoopEnds \/ ProcessEnds PROVE StoreTypes'
  BY <1>12 DEF StopSet, LoopEnds, ProcessEnds
<1>13. CASE UNCHANGED vars
  BY <1>13 DEF vars
<1> QED
  BY <1>1, <1>2, <1>3, <1>4, <1>5, <1>6, <1>7, <1>8, <1>9, <1>10, <1>11, <1>12, <1>13
     DEF Next, Handlers, Execution

\* The scheduler's job keeps its row and stays active until an except clause or
\* the completion: nobody else ends or requeues a job that is being executed.
LEMMA LocationStep ==
  ASSUME TypeOK, Location, [Next]_vars
  PROVE  Location'
<1> USE DEF TypeOK, Location, Idle, Trying, Steps, rows, locals, Rows, Active,
            keepLocals, keepOthers, Proceed, Raise
<1>0. Rows = 1 .. Len(key) /\ Rows \subseteq JobIds
  BY RowsAreJobIds
<1>1. ASSUME NEW k \in Keys, NEW r \in Requests, SubmitReceived(k, r) PROVE Location'
  BY <1>1 DEF SubmitReceived
<1>2. ASSUME NEW s \in inflight, Submit(s) PROVE Location'
  <2>1. CASE UNCHANGED <<rows, status>>
    BY <1>2, <2>1 DEF Submit
  <2>2. CASE Insert(s)
    <3>1. s.key \in Keys
      BY DEF ProcessTypes
    <3>2. DOMAIN key' = 1 .. Len(key) + 1
      BY <2>2, <3>1 DEF Insert, StoreTypes
    <3>3. \A j \in Rows : j \in DOMAIN key' /\ status'[j] = status[j]
      BY <1>0, <2>2, <3>2 DEF Insert, StoreTypes
    <3> QED
      BY <1>2, <3>3 DEF Submit
  <2> QED
    BY <1>2, <2>1, <2>2 DEF Submit
<1>3. ASSUME NEW j \in JobIds, Cancel(j) \/ WaitOver(j) PROVE Location'
  BY <1>3, <1>0 DEF Cancel, WaitOver, StoreTypes
<1>4. ASSUME NEW j \in JobIds, Claim(j) PROVE Location'
  BY <1>4 DEF Claim, Claimable, StoreTypes
<1>5. ASSUME Validate \/ Activate \/ Verify \/ Execute \/ Deactivate \/ HandlerFails
      PROVE  Location'
  BY <1>5 DEF Validate, Activate, Verify, Execute, Deactivate, HandlerFails
<1>6. ASSUME Acquire \/ Release PROVE Location'
  BY <1>6 DEF Acquire, Release, ReleaseLease
<1>7. ASSUME Stage \/ Finish \/ Handle PROVE Location'
  BY <1>7, <1>0 DEF Stage, Finish, Handle, StoreTypes
<1>8. ASSUME Cleanup \/ StopSet \/ LoopEnds \/ ProcessEnds \/ ReconcileLeases \/ InterruptJobs
      PROVE  Location'
  BY <1>8 DEF Cleanup, StopSet, LoopEnds, ProcessEnds, ReconcileLeases, InterruptJobs
<1>9. CASE UNCHANGED vars
  BY <1>9 DEF vars
<1> QED
  BY <1>1, <1>2, <1>3, <1>4, <1>5, <1>6, <1>7, <1>8, <1>9 DEF Next, Handlers, Execution

--------------------------------------------------------------------------------

\* A step that leaves the rows and the leases alone keeps Leases when it
\* completes no job but a released one and enters no step that needs a lease.
LEMMA LeasesKept ==
  ASSUME TypeOK, Location, Leases, UNCHANGED <<rows, lease>>,
         \/ pc' \notin Leased \cup {"finishing"}
         \/ pc' = pc /\ job' = job
         \/ pc \in Leased /\ pc' \in Leased /\ job' = job,
         \A j \in JobIds : status'[j] = "completed" =>
                             status[j] = "completed" \/ lease[j] \notin Held
  PROVE  Leases'
BY DEF Leases, Leased, CompletedAfterRelease, rows, Rows

\* Leases are where Leases says: an admission wants every lease released, and
\* nothing but the release of its lease takes a job to its completion.
LEMMA LeasesStep ==
  ASSUME TypeOK, Location, Leases, [Next]_vars
  PROVE  Leases'
<1> USE DEF rows, locals, keepLocals, keepOthers, Proceed, Raise
<1>0. /\ Rows = 1 .. Len(key) /\ Rows \subseteq JobIds
      /\ pc \notin Idle => job \in JobIds
      /\ status \in [JobIds -> Statuses]
      /\ lease \in [JobIds -> {"none", "released"} \cup Held]
  BY RowsAreJobIds DEF Location, TypeOK, StoreTypes
<1>1. ASSUME NEW k \in Keys, NEW r \in Requests, SubmitReceived(k, r) PROVE Leases'
  BY <1>1, LeasesKept DEF SubmitReceived
<1>2. ASSUME NEW s \in inflight, Submit(s) PROVE Leases'
  <2>1. CASE UNCHANGED <<rows, status>>
    BY <1>2, <2>1, LeasesKept DEF Submit
  <2>2. CASE Insert(s)
    <3>1. s.key \in Keys /\ s.request \in Requests
      BY DEF TypeOK, ProcessTypes
    <3>2. DOMAIN key' = 1 .. Len(key) + 1
      BY <2>2, <3>1 DEF Insert, TypeOK, StoreTypes
    <3>3. \A j \in Rows : j \in Rows' /\ request'[j] = request[j]
      BY <1>0, <2>2, <3>1, <3>2 DEF Insert, TypeOK, StoreTypes, Rows
    <3>4. \A j \in JobIds : status'[j] = "completed" => status[j] = "completed"
      BY <1>0, <2>2 DEF Insert
    <3>5. UNCHANGED <<lease, pc, job>>
      BY <1>2 DEF Submit
    <3> QED
      BY <3>3, <3>4, <3>5 DEF Leases, Leased, Location, Idle, CompletedAfterRelease
  <2> QED
    BY <1>2, <2>1, <2>2 DEF Submit
<1>3. ASSUME NEW j \in JobIds, Cancel(j) \/ WaitOver(j) PROVE Leases'
  BY <1>0, <1>3, LeasesKept DEF Cancel, WaitOver
<1>4. ASSUME NEW j \in JobIds, Claim(j) PROVE Leases'
  BY <1>0, <1>4, LeasesKept DEF Claim, Leased
<1>5. ASSUME Validate \/ Activate \/ Verify \/ Execute \/ Deactivate \/ HandlerFails
      PROVE  Leases'
  BY <1>5, LeasesKept
     DEF Validate, Activate, Verify, Execute, Deactivate, HandlerFails, Leased
<1>6. ASSUME Stage PROVE Leases'
  BY <1>0, <1>6, LeasesKept DEF Stage
<1>7. ASSUME Acquire PROVE Leases'
  <2>1. job \in Rows /\ status[job] \in Active /\ job' = job /\ UNCHANGED <<rows, status>>
    BY <1>7 DEF Acquire, Location, Idle, Trying, Steps
  <2>2. CASE UNCHANGED lease /\ ~NeedsLease /\ pc' = "admitted"
    BY <2>1, <2>2 DEF Leases, Leased, NeedsLease, Rows, CompletedAfterRelease
  <2>3. CASE UNCHANGED lease /\ pc' = "handling"
    BY <1>7, <2>1, <2>3, LeasesKept DEF Leased
  <2>4. CASE /\ NeedsLease /\ \A j \in Rows : lease[j] \notin Held
             /\ \/ pc' = "admitted" /\ lease' = [lease EXCEPT ![job] = "active"]
                \/ pc' = "handling" /\ lease' = [lease EXCEPT ![job] = "unknown"]
    <3>1. \A j \in JobIds : j # job => lease'[j] = lease[j] /\ lease[j] \notin Held
      BY <1>0, <2>1, <2>4 DEF Leases, Held
    <3>2. lease'[job] \in Held /\ (pc' = "admitted" => lease'[job] = "active")
      BY <1>0, <2>1, <2>4 DEF Held
    <3> QED
      BY <1>0, <2>1, <2>4, <3>1, <3>2
         DEF Leases, Leased, NeedsLease, Rows, CompletedAfterRelease, Active
  <2> QED
    BY <1>7, <2>2, <2>3, <2>4 DEF Acquire
<1>8. ASSUME Release PROVE Leases'
  <2>1. /\ job \in Rows /\ job' = job /\ UNCHANGED <<rows, status>>
        /\ status[job] \in Active /\ pc = "releasing"
    BY <1>8 DEF Release, Location, Idle, Trying, Steps
  <2>2. lease[job] # "unknown" /\ (lease[job] = "active" => request[job] \in Gpu)
    BY <1>0, <2>1 DEF Leases, Leased
  <2>3. \/ lease[job] = "active" /\ lease' = [lease EXCEPT ![job] = "released"] /\ pc' = "finishing"
        \/ lease[job] = "active" /\ lease' = [lease EXCEPT ![job] = "unknown"] /\ pc' = "handling"
        \/ lease[job] # "active" /\ lease' = lease /\ pc' = "finishing"
    BY <1>8 DEF Release, ReleaseLease
  <2> QED
    BY <1>0, <2>1, <2>2, <2>3 DEF Leases, Leased, Held, Rows, CompletedAfterRelease, Active
<1>9. ASSUME Finish PROVE Leases'
  <2>1. pc = "finishing" /\ lease[job] \notin Held /\ UNCHANGED <<rows, lease>>
    BY <1>9 DEF Finish, Leases
  <2>2. \A j \in JobIds : status'[j] = "completed" => status[j] = "completed" \/ j = job
    BY <1>0, <1>9 DEF Finish
  <2> QED
    BY <1>9, <2>1, <2>2, LeasesKept DEF Finish, Leased
<1>10. ASSUME Handle PROVE Leases'
  BY <1>0, <1>10, LeasesKept DEF Handle, Fail, Defer, Leased
<1>11. ASSUME Cleanup PROVE Leases'
  <2>1. /\ job \in Rows /\ UNCHANGED <<rows, status>> /\ pc' \in Idle
    BY <1>11 DEF Cleanup, Location, Idle
  <2>2. \/ lease' = lease
        \/ /\ lease[job] = "active"
           /\ \/ lease' = [lease EXCEPT ![job] = "released"]
              \/ lease' = [lease EXCEPT ![job] = "unknown"]
    BY <1>11 DEF Cleanup, ReleaseLease
  <2> QED
    BY <1>0, <2>1, <2>2 DEF Leases, Leased, Idle, Held, Rows, CompletedAfterRelease
<1>12. ASSUME ReconcileLeases PROVE Leases'
  <2>1. UNCHANGED <<rows, status, pc, job>> /\ pc = "off"
    BY <1>12 DEF ReconcileLeases, Location
  <2>2. \A j \in JobIds : /\ lease'[j] \in Held => lease[j] \in Held
                          /\ lease'[j] # "none" => lease[j] # "none"
    BY <1>0, <1>12 DEF ReconcileLeases, Held
  <2> QED
    BY <2>1, <2>2 DEF Leases, Leased, Rows, CompletedAfterRelease
<1>13. ASSUME InterruptJobs PROVE Leases'
  BY <1>13, LeasesKept DEF InterruptJobs, Leased
<1>14. ASSUME StopSet \/ LoopEnds \/ ProcessEnds PROVE Leases'
  BY <1>14, LeasesKept DEF StopSet, LoopEnds, ProcessEnds, Leased
<1>15. CASE UNCHANGED vars
  BY <1>15, LeasesKept DEF vars
<1> QED
  BY <1>1, <1>2, <1>3, <1>4, <1>5, <1>6, <1>7, <1>8, <1>9, <1>10, <1>11, <1>12, <1>13,
     <1>14, <1>15 DEF Next, Handlers, Execution

--------------------------------------------------------------------------------

\* Only an insertion changes the keys, and it looked the key up before.
LEMMA KeysStep ==
  ASSUME TypeOK, OneJobPerKey, [Next]_vars
  PROVE  OneJobPerKey'
<1>1. ASSUME NEW s \in inflight, Submit(s), Insert(s) PROVE OneJobPerKey'
  <2>1. s.key \in Keys /\ \A j \in Rows : key[j] # s.key
    BY <1>1 DEF Submit, Insert, TypeOK, StoreTypes, ProcessTypes, rows
  <2>2. /\ Rows = 1 .. Len(key) /\ Rows' = 1 .. Len(key) + 1
        /\ key'[Len(key) + 1] = s.key /\ \A j \in Rows : key'[j] = key[j]
    BY <1>1, <2>1 DEF Insert, Rows, TypeOK, StoreTypes
  <2> QED
    BY <2>1, <2>2 DEF OneJobPerKey
<1>2. CASE key' = key
  BY <1>2 DEF OneJobPerKey, Rows
<1> QED
  BY <1>1, <1>2
     DEF Next, Handlers, Execution, SubmitReceived, Submit, Cancel, WaitOver, Claim,
         Validate, Acquire, Activate, Verify, Stage, Execute, Deactivate, Release,
         Finish, Handle, HandlerFails, Cleanup, StopSet, LoopEnds, ProcessEnds,
         ReconcileLeases, InterruptJobs, vars, rows, keepOthers

\* A job counts as pending from its insertion on until it ends, also while it is
\* executed: nothing but an insertion adds to the pending jobs.
LEMMA PendingStep ==
  ASSUME TypeOK, Location, PendingBounded, [Next]_vars
  PROVE  PendingBounded'
<1>1. IsFiniteSet(Open) /\ IsFiniteSet(Open') /\ Cardinality(Open) \in Nat
  <2>1. IsFiniteSet(JobIds)
    BY FS_Interval DEF JobIds
  <2>2. Open \subseteq JobIds /\ Open' \subseteq JobIds
    BY DEF Open
  <2> QED
    BY <2>1, <2>2, FS_Subset, FS_CardinalityType
<1>2. ASSUME NEW s \in inflight, Submit(s), Insert(s) PROVE PendingBounded'
  <2>1. Rows = 1 .. Len(key) /\ Rows \subseteq JobIds /\ Len(key) \in Nat
    BY RowsAreJobIds DEF TypeOK, StoreTypes
  <2>2. Pending = Open
    BY <2>1 DEF Pending, Open, TypeOK, StoreTypes, Active
  <2>3. Cardinality(Open) < MaxPending
    BY <1>1, <1>2, <2>2 DEF Submit, Insert, TypeOK, StoreTypes, rows
  <2>4. Open' = Open \cup {Len(key) + 1} \/ Open' = Open
    BY <1>2, <2>1 DEF Open, Insert, TypeOK, StoreTypes
  <2>5. Cardinality(Open') <= Cardinality(Open) + 1
    BY <1>1, <2>4, FS_AddElement
  <2>6. Cardinality(Open') \in Nat
    BY <1>1, FS_CardinalityType
  <2> QED
    BY <1>1, <2>3, <2>5, <2>6 DEF PendingBounded, Open
<1>3. ASSUME Open' \subseteq Open PROVE PendingBounded'
  <2>1. Cardinality(Open') <= Cardinality(Open) /\ Cardinality(Open') \in Nat
    BY <1>1, <1>3, FS_Subset, FS_CardinalityType
  <2> QED
    BY <1>1, <2>1 DEF PendingBounded, Open
<1>4. CASE status' = status
  BY <1>3, <1>4 DEF Open
<1>5. ASSUME NEW j \in JobIds, Cancel(j) \/ Claim(j) PROVE PendingBounded'
  BY <1>3, <1>5 DEF Cancel, Claim, Claimable, Open, Active, TypeOK, StoreTypes
<1>6. CASE Stage \/ Finish \/ Handle
  <2>1. pc \in {"executing", "finishing", "handling"}
    BY <1>6 DEF Stage, Finish, Handle
  <2>2. status[job] \in Active
    BY <2>1 DEF Location, Trying, Idle, Steps
  <2>3. \A j \in JobIds : j # job => status'[j] = status[j]
    BY <1>6 DEF Stage, Finish, Handle, Defer, Fail, TypeOK, StoreTypes
  <2> QED
    BY <1>3, <2>2, <2>3 DEF Open
<1>7. CASE InterruptJobs
  BY <1>3, <1>7 DEF InterruptJobs, Open, Active
<1> QED
  BY <1>2, <1>4, <1>5, <1>6, <1>7
     DEF Next, Handlers, Execution, SubmitReceived, Submit, WaitOver, Validate,
         Acquire, Activate, Verify, Execute, Deactivate, Release, HandlerFails, Cleanup,
         StopSet, LoopEnds, ProcessEnds, ReconcileLeases, vars

--------------------------------------------------------------------------------

\* The invariant holds of every behaviour.
LEMMA Invariance == Spec => []IInv
<1>1. IInv /\ [Next]_vars => IInv'
  <2> SUFFICES ASSUME IInv, [Next]_vars PROVE IInv'
    OBVIOUS
  <2> QED
    BY StoreStep, ProcessStep, ThreadStep, LocationStep, LeasesStep, KeysStep,
       PendingStep
    DEF IInv, TypeOK
<1> QED
  BY InitInvariant, <1>1, PTL DEF Spec

\* The state of the job table, the process and the scheduler thread keeps its
\* type (store.py, scheduler.py).
THEOREM TypeCorrect == Spec => []TypeOK
<1>1. IInv => TypeOK
  BY DEF IInv
<1> QED
  BY <1>1, Invariance, PTL

\* At most one job holds a lease, whatever cannot be verified, and a job that
\* needs one is executed under its own (Scheduler._execute, coordinator.acquire).
THEOREM LeaseIsSole == Spec => []SoleLease
<1>1. IInv => SoleLease
  BY DEF IInv, Leases, Leased, SoleLease, NeedsLease
<1> QED
  BY <1>1, Invariance, PTL

\* A completed job holds no lease: its release was verified before store.finish.
THEOREM CompletedReleased == Spec => []CompletedAfterRelease
<1>1. IInv => CompletedAfterRelease
  BY DEF IInv, Leases
<1> QED
  BY <1>1, Invariance, PTL

\* No two jobs share an idempotency key, whichever handlers submitted it at once
\* and whatever became of the first job (store.submit).
THEOREM KeyNamesOneJob == Spec => []OneJobPerKey
<1>1. IInv => OneJobPerKey
  BY DEF IInv
<1> QED
  BY <1>1, Invariance, PTL

\* Queued and active jobs together never exceed max_pending_jobs: a deferral
\* takes back the place its job never gave away (store.submit, store.defer).
THEOREM PendingIsBounded == Spec => []PendingBounded
<1>1. IInv => PendingBounded
  BY DEF IInv
<1> QED
  BY <1>1, Invariance, PTL

--------------------------------------------------------------------------------
(* JobScheduler implements JobLifecycle. *)

\* How far the execution of the running job has come: the call of execute_plan
\* is behind it exactly from "executing" on, and a deferral after that call
\* knows the execution was performed.
Progress ==
  /\ \A j \in JobIds : status[j] \in {"absent", "queued"} => starts[j] = 0
  /\ pc \in {"claimed", "planned", "admitted", "activated"} => starts[job] = 0
  /\ pc \in {"executing", "performed", "releasing", "finishing"} => starts[job] # 0
  /\ pc \in {"performed", "releasing", "finishing"} => performed
  /\ pc = "handling" /\ exc = "deferred" /\ ~performed => starts[job] = 0

LEMMA ProgressStep ==
  ASSUME TypeOK, Location, Progress, [Next]_vars
  PROVE  Progress'
<1> USE DEF Progress, locals, keepLocals, keepOthers, Proceed, Raise
<1>0. /\ Rows \subseteq JobIds /\ (pc \notin Idle => job \in JobIds)
      /\ pc \in Trying => status[job] \in Active
      /\ status \in [JobIds -> Statuses] /\ starts \in [JobIds -> Nat]
  BY RowsAreJobIds DEF Location, TypeOK, StoreTypes, ThreadTypes
<1>1. ASSUME NEW k \in Keys, NEW r \in Requests, SubmitReceived(k, r) PROVE Progress'
  BY <1>1 DEF SubmitReceived
<1>2. ASSUME NEW s \in inflight, Submit(s) PROVE Progress'
  <2>1. CASE UNCHANGED status
    BY <1>2, <2>1 DEF Submit
  <2>2. CASE Insert(s)
    <3>1. Len(key) + 1 \in JobIds /\ status[Len(key) + 1] = "absent"
      BY <2>2, RowsAreJobIds DEF Insert, TypeOK, StoreTypes, JobIds
    <3> QED
      BY <1>0, <1>2, <2>2, <3>1 DEF Submit, Insert
  <2> QED
    BY <1>2, <2>1, <2>2 DEF Submit
<1>3. ASSUME NEW j \in JobIds, Cancel(j) \/ WaitOver(j) PROVE Progress'
  BY <1>0, <1>3 DEF Cancel, WaitOver
<1>4. ASSUME NEW j \in JobIds, Claim(j) PROVE Progress'
  BY <1>0, <1>4 DEF Claim, Claimable
<1>5. ASSUME Validate \/ Acquire \/ Activate \/ HandlerFails PROVE Progress'
  BY <1>5 DEF Validate, Acquire, Activate, HandlerFails
<1>6. ASSUME Verify PROVE Progress'
  <2>1. job \in JobIds /\ status[job] \in Active /\ starts[job] \in Nat
    BY <1>0, <1>6 DEF Verify, Trying, Idle, Steps
  <2>2. starts[job] + 1 # 0
    BY <2>1
  <2> QED
    BY <1>0, <1>6, <2>1, <2>2 DEF Verify, Active
<1>7. ASSUME Stage \/ Execute \/ Deactivate PROVE Progress'
  BY <1>0, <1>7 DEF Stage, Execute, Deactivate, Idle
<1>8. ASSUME Release PROVE Progress'
  BY <1>8 DEF Release, ReleaseLease
<1>9. ASSUME Finish \/ Handle PROVE Progress'
  BY <1>0, <1>9 DEF Finish, Handle, Defer, Fail, Idle
<1>10. ASSUME Cleanup \/ StopSet \/ LoopEnds \/ ProcessEnds \/ ReconcileLeases PROVE Progress'
  BY <1>10 DEF Cleanup, StopSet, LoopEnds, ProcessEnds, ReconcileLeases
<1>11. ASSUME InterruptJobs PROVE Progress'
  BY <1>0, <1>11 DEF InterruptJobs, Location, Active
<1>12. CASE UNCHANGED vars
  BY <1>12 DEF vars
<1> QED
  BY <1>1, <1>2, <1>3, <1>4, <1>5, <1>6, <1>7, <1>8, <1>9, <1>10, <1>11, <1>12
     DEF Next, Handlers, Execution

Outcome(j) == IF status[j] \in Terminal THEN status[j] ELSE "none"
Same(j) == Life(j)' = Life(j) /\ Outcome(j)' = Outcome(j)

LEMMA StutterMaps ==
  ASSUME \A j \in JobIds : Same(j), UNCHANGED cancel
  PROVE  UNCHANGED Contract!vars
BY DEF Same, Outcome, Contract!vars

\* One job goes on, nobody's outcome or cancellation changes.
LEMMA MoveMaps ==
  ASSUME NEW j \in JobIds, NEW from, NEW to, Life(j) = from, Life(j)' = to,
         \A i \in JobIds : Outcome(i)' = Outcome(i) /\ (i # j => Life(i)' = Life(i)),
         UNCHANGED cancel
  PROVE  Contract!Move(j, from, to)
BY DEF Outcome, Contract!Move

\* One job ends with an outcome its progress allows.
LEMMA EndMaps ==
  ASSUME NEW j \in JobIds, status'[j] \in Contract!Outcomes(Life(j)),
         status'[j] = "completed" => ~cancel[j],
         \A i \in JobIds : i # j => Same(i), UNCHANGED cancel
  PROVE  Contract!Finish(j)
<1>1. status'[j] \in Terminal
  BY DEF Contract!Outcomes, Terminal
<1>2. Life(j)' = "done" /\ Outcome(j)' = status'[j]
  BY <1>1 DEF Life, Outcome, Terminal
<1> QED
  BY <1>2 DEF Same, Outcome, Contract!Finish

\* Every step of the code is a step of the contract, or none.
LEMMA StepMaps ==
  ASSUME TypeOK, Location, Progress, [Next]_vars
  PROVE  Contract!Next \/ UNCHANGED Contract!vars
<1> USE DEF locals, keepLocals, keepOthers, Proceed, Raise, Active, Terminal
<1>0. /\ (pc \notin Idle => job \in JobIds)
      /\ pc \in Trying => status[job] \in Active
      /\ status \in [JobIds -> Statuses] /\ starts \in [JobIds -> Nat]
      /\ cancel \in [JobIds -> BOOLEAN]
  BY RowsAreJobIds DEF Location, TypeOK, StoreTypes, ThreadTypes
<1>1. CASE UNCHANGED <<status, starts, cancel>>
  BY <1>1, StutterMaps DEF Same, Life, Outcome
<1>2. ASSUME NEW s \in inflight, Submit(s), Insert(s) PROVE Contract!Next
  <2>1. Len(key) + 1 \in JobIds /\ status[Len(key) + 1] = "absent"
    BY <1>2, RowsAreJobIds DEF Insert, TypeOK, StoreTypes, JobIds
  <2>2. /\ status' = [status EXCEPT ![Len(key) + 1] = "queued"]
        /\ UNCHANGED <<starts, cancel>>
    BY <1>2 DEF Submit, Insert
  <2>3. Contract!Accept(Len(key) + 1)
    BY <1>0, <2>1, <2>2, MoveMaps DEF Life, Outcome, Contract!Accept
  <2> QED
    BY <2>1, <2>3 DEF Contract!Next
<1>3. ASSUME NEW j \in JobIds, Cancel(j) PROVE Contract!Next
  <2>1. /\ status[j] \in {"queued"} \cup Active
        /\ cancel' = [cancel EXCEPT ![j] = TRUE]
        /\ status' = [status EXCEPT ![j] = IF @ = "queued" THEN "cancelled" ELSE @]
        /\ UNCHANGED starts
    BY <1>3 DEF Cancel
  <2>2. \A i \in JobIds : i # j => Same(i)
    BY <1>0, <2>1 DEF Same, Life, Outcome
  <2>3. CASE status[j] = "queued"
    <3>1. /\ Life(j) = "waiting" /\ Life(j)' = "done"
          /\ Outcome(j)' = "cancelled"
      BY <1>0, <2>1, <2>3 DEF Life, Outcome
    <3>2. \A i \in JobIds : Life(i)' = IF i = j THEN "done" ELSE Life(i)
      BY <2>2, <3>1 DEF Same
    <3>3. \A i \in JobIds : Outcome(i)' = IF i = j THEN "cancelled" ELSE Outcome(i)
      BY <2>2, <3>1 DEF Same
    <3>4. Contract!Withdraw(j)
      BY <2>1, <3>1, <3>2, <3>3 DEF Outcome, Contract!Withdraw
    <3> QED
      BY <3>4 DEF Contract!Next
  <2>4. CASE status[j] \in Active
    <3>1. Life(j) \in {"claimed", "started"} /\ Same(j)
      BY <1>0, <2>1, <2>4 DEF Life, Outcome, Same
    <3> QED
      BY <2>1, <2>2, <3>1 DEF Same, Outcome, Contract!Withdraw, Contract!Next
  <2> QED
    BY <2>1, <2>3, <2>4
<1>4. ASSUME NEW j \in JobIds, Claim(j) PROVE Contract!Next
  <2>1. /\ status[j] = "queued" /\ ~cancel[j] /\ starts[j] = 0
        /\ status' = [status EXCEPT ![j] = "loading"]
        /\ UNCHANGED <<starts, cancel>>
    BY <1>4 DEF Claim, Claimable, Progress
  <2>2. Contract!Claim(j)
    BY <1>0, <2>1, MoveMaps DEF Life, Outcome, Contract!Claim
  <2> QED
    BY <2>2 DEF Contract!Next
<1>5. ASSUME Verify, UNCHANGED starts PROVE UNCHANGED Contract!vars
  BY <1>1, <1>5, StutterMaps DEF Verify, Same, Life, Outcome
<1>6. ASSUME Verify, ~UNCHANGED starts PROVE Contract!Next
  <2>1. PICK j \in JobIds : j = job
    BY <1>0, <1>6 DEF Verify, Idle
  <2>2. /\ status[j] \in Active /\ starts[j] = 0
        /\ starts' = [starts EXCEPT ![j] = @ + 1]
        /\ UNCHANGED <<status, cancel>>
    BY <1>0, <1>6, <2>1 DEF Verify, Trying, Idle, Steps, Progress
  <2>3. Contract!Start(j)
    BY <1>0, <2>2, MoveMaps DEF Life, Outcome, Contract!Start
  <2> QED
    BY <2>3 DEF Contract!Next
<1>7. ASSUME Stage PROVE UNCHANGED Contract!vars
  BY <1>0, <1>7, StutterMaps DEF Stage, Idle, Same, Life, Outcome
<1>8. ASSUME Finish \/ Handle, ~UNCHANGED status PROVE Contract!Next
  <2>1. PICK j \in JobIds : j = job
    BY <1>0, <1>8 DEF Finish, Handle, Idle
  <2>2. /\ status[j] \in Active /\ UNCHANGED <<starts, cancel>>
        /\ \A i \in JobIds : i # j => Same(i)
    BY <1>0, <1>8, <2>1
       DEF Finish, Handle, Defer, Fail, Trying, Idle, Steps, Same, Life, Outcome
  <2>3. CASE Finish
    <3>1. /\ Life(j) = "started"
          /\ status'[j] = IF cancel[j] THEN "cancelled" ELSE "completed"
      BY <1>0, <1>8, <2>1, <2>2, <2>3 DEF Finish, Life, Progress
    <3>2. status'[j] \in Contract!Outcomes(Life(j))
      BY <3>1 DEF Contract!Outcomes
    <3>3. Contract!Finish(j)
      BY <2>2, <3>1, <3>2, EndMaps
    <3> QED
      BY <3>3 DEF Contract!Next
  <2>4. ASSUME Handle, status'[j] \in {"failed", "cancelled"} PROVE Contract!Next
    <3>1. Life(j) \in {"claimed", "started"}
      BY <2>2 DEF Life
    <3>2. status'[j] \in Contract!Outcomes(Life(j))
      BY <2>4, <3>1 DEF Contract!Outcomes
    <3>3. Contract!Finish(j)
      BY <2>2, <2>4, <3>2, EndMaps
    <3> QED
      BY <3>3 DEF Contract!Next
  <2>5. CASE Handle /\ exc = "deferred" /\ ~performed /\ status'[j] \notin {"failed", "cancelled"}
    <3>1. /\ ~cancel[j] /\ starts[j] = 0
          /\ status' = [status EXCEPT ![j] = "queued"]
      BY <1>8, <2>1, <2>5 DEF Handle, Defer, Fail, Progress
    <3>2. Contract!Requeue(j)
      BY <1>0, <2>2, <3>1, MoveMaps DEF Life, Outcome, Same, Contract!Requeue
    <3> QED
      BY <3>2 DEF Contract!Next
  <2> QED
    BY <1>0, <1>8, <2>1, <2>3, <2>4, <2>5 DEF Handle, Fail
<1>9. ASSUME InterruptJobs PROVE Contract!Next
  <2>1. \A j \in JobIds :
          IF Life(j) \in {"claimed", "started"}
          THEN Life(j)' = "done" /\ Outcome(j)' = "interrupted"
          ELSE Same(j)
    BY <1>0, <1>9 DEF InterruptJobs, Life, Outcome, Same, Statuses
  <2> QED
    BY <1>9, <2>1 DEF InterruptJobs, Same, Outcome, Contract!Restart, Contract!Next
<1> QED
  BY <1>1, <1>2, <1>3, <1>4, <1>5, <1>6, <1>7, <1>8, <1>9
     DEF Next, Handlers, Execution, SubmitReceived, Submit, WaitOver, Validate,
         Acquire, Activate, Verify, Execute, Deactivate, Release, HandlerFails, Cleanup,
         Finish, Handle, StopSet, LoopEnds, ProcessEnds, ReconcileLeases, vars

\* The store and the scheduler keep the contract of JobLifecycle: a workload is
\* started at most once, an outcome is final, an accepted cancellation never
\* loses, through deferrals, failures and restarts.
THEOREM Refinement == Spec => Implements
<1>1. Init => Progress /\ Contract!Init
  BY DEF Init, Progress, Life, Terminal, Contract!Init
<1>2. IInv /\ Progress /\ [Next]_vars => Progress'
  BY ProgressStep DEF IInv
<1>3. IInv /\ Progress /\ [Next]_vars => [Contract!Next]_(Contract!vars)
  BY StepMaps DEF IInv
<1> QED
  BY <1>1, <1>2, <1>3, Invariance, PTL DEF Spec, Implements, Contract!Spec
\* No row is executed twice, through deferrals, failures and restarts (the call of
\* execute_plan in Scheduler._execute).
THEOREM StartedOnce == Spec => [](\A j \in JobIds : starts[j] <= 1)
<1> DEFINE Once == \A j \in JobIds : starts[j] <= 1
<1>1. Init => Progress /\ Once
  BY DEF Init, Progress
<1>2. IInv /\ Progress /\ [Next]_vars => Progress'
  BY ProgressStep DEF IInv
<1>3. ASSUME IInv, Progress, Once, [Next]_vars PROVE Once'
  <2>1. CASE UNCHANGED starts
    BY <1>3, <2>1
  <2>2. CASE Verify
    <3>1. pc = "activated" /\ starts[job] = 0 /\ starts \in [JobIds -> Nat]
      BY <1>3, <2>2 DEF Verify, Progress, IInv, TypeOK, ThreadTypes
    <3>2. starts' = starts \/ starts' = [starts EXCEPT ![job] = starts[job] + 1]
      BY <2>2 DEF Verify
    <3>3. \A j \in JobIds : starts'[j] = starts[j] \/ starts'[j] = 1
      BY <3>1, <3>2
    <3> QED
      BY <1>3, <3>3
  <2> QED
    BY <1>3, <2>1, <2>2
       DEF Next, Handlers, Execution, SubmitReceived, Submit, Cancel, WaitOver, Claim,
           Validate, Acquire, Activate, Stage, Execute, Deactivate, Release, Finish, Handle,
           HandlerFails, Cleanup, StopSet, LoopEnds, ProcessEnds, ReconcileLeases,
           InterruptJobs, vars
<1> QED
  BY <1>1, <1>2, <1>3, Invariance, PTL DEF Spec

--------------------------------------------------------------------------------
(* No job is left behind *)

\* What a step of _execute knows of its row: it is loading until the execution
\* begins; what an except clause leaves active is cancelled; whoever reaches the
\* clean-up otherwise lets the exception escape, which ends the thread.
Adopted ==
  /\ pc \in {"claimed", "planned", "admitted", "activated"} => status[job] = "loading"
  /\ pc \in {"performed", "releasing", "finishing"} => performed
  /\ pc = "handling" /\ exc = "deferred" /\ ~performed => status[job] = "loading"
  /\ pc = "cleanup" /\ exc # "escaped" => status[job] \notin Active \/ cancel[job]
  /\ NoOrphans

LEMMA AdoptedStep ==
  ASSUME TypeOK, Location, Adopted, [Next]_vars
  PROVE  Adopted'
<1> USE DEF Adopted, NoOrphans, Running, rows, locals, keepLocals, keepOthers, Proceed, Raise
<1>0. /\ Rows \subseteq JobIds /\ (pc \notin Idle => job \in JobIds)
      /\ pc \in Trying => status[job] \in Active
      /\ status \in [JobIds -> Statuses] /\ cancel \in [JobIds -> BOOLEAN]
      /\ process # "up" => pc = "off"
      /\ pc \in Steps /\ (pc \in Idle <=> job = 0) /\ 0 \notin JobIds
  BY RowsAreJobIds DEF Location, TypeOK, StoreTypes, ThreadTypes, Idle, JobIds
<1>1. ASSUME NEW k \in Keys, NEW r \in Requests, SubmitReceived(k, r) PROVE Adopted'
  BY <1>1 DEF SubmitReceived
<1>2. ASSUME NEW s \in inflight, Submit(s) PROVE Adopted'
  <2>1. CASE UNCHANGED status
    BY <1>2, <2>1 DEF Submit
  <2>2. CASE Insert(s)
    <3>1. /\ Len(key) + 1 \in JobIds /\ status[Len(key) + 1] = "absent"
          /\ status' = [status EXCEPT ![Len(key) + 1] = "queued"]
      BY <2>2, RowsAreJobIds DEF Insert, TypeOK, StoreTypes, JobIds
    <3>2. \A j \in JobIds : status'[j] = status[j] \/ (status[j] = "absent" /\ status'[j] = "queued")
      BY <1>0, <3>1
    <3>3. UNCHANGED <<cancel, process, pc, job, performed, exc>>
      BY <1>2 DEF Submit
    <3> QED
      BY <1>0, <3>2, <3>3 DEF Active, Idle, Steps
  <2> QED
    BY <1>2, <2>1, <2>2 DEF Submit
<1>3. ASSUME NEW j \in JobIds, Cancel(j) PROVE Adopted'
  <2>1. /\ \A i \in JobIds : /\ status'[i] = status[i] \/ (status[i] = "queued" /\ status'[i] = "cancelled")
                             /\ cancel[i] => cancel'[i]
        /\ UNCHANGED <<process, pc, job, performed, exc>>
    BY <1>0, <1>3 DEF Cancel
  <2>2. \A i \in JobIds : status'[i] \in Active => status[i] \in Active
    BY <2>1 DEF Active
  <2>3. \A i \in JobIds : status[i] \in Active => status'[i] = status[i]
    BY <2>1 DEF Active
  <2> QED
    BY <1>0, <2>1, <2>2, <2>3 DEF Active, Idle, Steps, Trying
<1>4. ASSUME NEW j \in JobIds, WaitOver(j) PROVE Adopted'
  BY <1>4 DEF WaitOver
<1>5. ASSUME NEW j \in JobIds, Claim(j) PROVE Adopted'
  <2>1. /\ pc = "idle" /\ pc' = "claimed" /\ job' = j /\ status' = [status EXCEPT ![j] = "loading"]
        /\ UNCHANGED <<cancel, process>> /\ job = 0
    BY <1>0, <1>5 DEF Claim, Idle
  <2> QED
    BY <1>0, <2>1
<1>6. ASSUME Validate \/ Activate \/ Verify \/ Acquire \/ Deactivate PROVE Adopted'
  BY <1>6 DEF Validate, Activate, Verify, Acquire, Deactivate
<1>7. ASSUME Stage PROVE Adopted'
  BY <1>0, <1>7 DEF Stage, Active, Idle
<1>8. ASSUME Execute \/ HandlerFails PROVE Adopted'
  BY <1>8 DEF Execute, HandlerFails
<1>9. ASSUME Release PROVE Adopted'
  BY <1>9 DEF Release, ReleaseLease
<1>10. ASSUME Finish PROVE Adopted'
  BY <1>0, <1>10 DEF Finish, Active, Idle
<1>11. ASSUME Handle PROVE Adopted'
  <2>1. /\ job \in JobIds /\ pc = "handling" /\ pc' = "cleanup" /\ job' = job
        /\ UNCHANGED <<cancel, process>>
        /\ \A i \in JobIds : i # job => status'[i] = status[i]
    BY <1>0, <1>11 DEF Handle, Fail, Defer, Idle
  <2>2. status'[job] \notin Active \/ cancel[job]
    BY <1>0, <1>11, <2>1 DEF Handle, Fail, Defer, Active
  <2> QED
    BY <2>1, <2>2
<1>12. ASSUME Cleanup PROVE Adopted'
  <2>1. /\ pc = "cleanup" /\ pc' \in {"idle", "ended"} /\ (exc = "escaped" => pc' = "ended")
        /\ UNCHANGED <<status, cancel, process>>
    BY <1>12 DEF Cleanup
  <2> QED
    BY <1>0, <2>1 DEF Idle
<1>13. ASSUME StopSet \/ LoopEnds \/ ProcessEnds \/ ReconcileLeases PROVE Adopted'
  BY <1>0, <1>13 DEF StopSet, LoopEnds, ProcessEnds, ReconcileLeases
<1>14. ASSUME InterruptJobs PROVE Adopted'
  <2>1. \A j \in JobIds : status'[j] \notin Active
    BY <1>0, <1>14 DEF InterruptJobs, Active
  <2>2. pc' \in {"off", "idle"}
    BY <1>14 DEF InterruptJobs
  <2> QED
    BY <2>1, <2>2
<1>15. CASE UNCHANGED vars
  BY <1>15 DEF vars
<1> QED
  BY <1>1, <1>2, <1>3, <1>4, <1>5, <1>6, <1>7, <1>8, <1>9, <1>10, <1>11, <1>12, <1>13,
     <1>14, <1>15 DEF Next, Handlers, Execution

\* While the thread runs, a claimed job that is not cancelled is the one it executes
\* (Scheduler._execute, store.defer, interrupt_uncertain_jobs).
THEOREM NobodyIsOrphaned == Spec => []NoOrphans
<1>1. Init => Adopted
  BY DEF Init, Adopted, NoOrphans
<1>2. IInv /\ Adopted /\ [Next]_vars => Adopted'
  BY AdoptedStep DEF IInv
<1>3. Adopted => NoOrphans
  BY DEF Adopted
<1> QED
  BY <1>1, <1>2, <1>3, Invariance, PTL DEF Spec
--------------------------------------------------------------------------------
(* JobScheduler keeps the ledger of leases. *)

\* The process is in quarantine exactly for a lease whose outcome it does not know.
Ledgered ==
  /\ quarantined => process # "down" /\ \E j \in JobIds : lease[j] = "unknown"
  /\ process # "down" /\ ~quarantined => \A j \in JobIds : lease[j] # "unknown"
  /\ process = "reconciling" => \A j \in JobIds : lease[j] # "active"

\* What a step does to the leases.
LedgerUnchanged == UNCHANGED <<process, quarantined, lease>>
Granted ==
  /\ process = "up" /\ ~quarantined /\ \A j \in JobIds : lease[j] \notin Held
  /\ \/ lease' = [lease EXCEPT ![job] = "active"] /\ quarantined' = quarantined
     \/ lease' = [lease EXCEPT ![job] = "unknown"] /\ quarantined' = TRUE
  /\ job \in JobIds /\ UNCHANGED process
Returned ==
  /\ process = "up" /\ job \in JobIds /\ lease[job] = "active"
  /\ \/ lease' = [lease EXCEPT ![job] = "released"] /\ quarantined' = quarantined
     \/ lease' = [lease EXCEPT ![job] = "unknown"] /\ quarantined' = TRUE
  /\ UNCHANGED process

LEMMA LedgerSteps ==
  ASSUME TypeOK, Location, Leases, [Next]_vars
  PROVE  \/ LedgerUnchanged \/ Granted \/ Returned
         \/ ProcessEnds \/ ReconcileLeases \/ InterruptJobs
<1> USE DEF keepOthers, LedgerUnchanged
<1>0. /\ pc \notin Idle => job \in JobIds
      /\ process # "up" => pc = "off"
      /\ \A j \in JobIds : j \notin Rows => lease[j] = "none"
  BY RowsAreJobIds DEF Location, Leases
<1>1. CASE Acquire
  <2>1. job \in JobIds /\ process = "up"
    BY <1>0, <1>1 DEF Acquire, Idle
  <2>2. CASE UNCHANGED <<lease, quarantined>>
    BY <1>1, <2>2 DEF Acquire
  <2>3. CASE \A j \in Rows : lease[j] \notin Held
    <3>1. \A j \in JobIds : lease[j] \notin Held
      BY <1>0, <2>3 DEF Held
    <3> QED
      BY <1>1, <2>1, <3>1 DEF Acquire, Granted
  <2> QED
    BY <1>1, <2>2, <2>3 DEF Acquire
<1>2. CASE Release \/ Cleanup
  <2>1. job \in JobIds /\ process = "up" /\ UNCHANGED process
    BY <1>0, <1>2 DEF Release, Cleanup, Idle
  <2> QED
    BY <1>2, <2>1 DEF Release, Cleanup, ReleaseLease, Returned
<1>3. ASSUME NEW k \in Keys, NEW r \in Requests, SubmitReceived(k, r) PROVE LedgerUnchanged
  BY <1>3 DEF SubmitReceived
<1>4. ASSUME NEW s \in inflight, Submit(s) PROVE LedgerUnchanged
  BY <1>4 DEF Submit
<1>5. ASSUME NEW j \in JobIds, Cancel(j) \/ WaitOver(j) \/ Claim(j) PROVE LedgerUnchanged
  BY <1>5 DEF Cancel, WaitOver, Claim
<1>6. CASE \/ Validate \/ Activate \/ Verify \/ Stage \/ Execute \/ Deactivate \/ Finish
           \/ Handle \/ HandlerFails \/ StopSet \/ LoopEnds \/ UNCHANGED vars
  BY <1>6 DEF Validate, Activate, Verify, Stage, Execute, Deactivate, Finish, Handle,
              HandlerFails, StopSet, LoopEnds, vars
<1> QED
  BY <1>1, <1>2, <1>3, <1>4, <1>5, <1>6 DEF Next, Handlers, Execution

LEMMA LedgeredStep ==
  ASSUME TypeOK, Location, Leases, Ledgered, [Next]_vars
  PROVE  Ledgered'
<1> USE DEF Ledgered
<1>0. /\ lease \in [JobIds -> {"none", "released"} \cup Held] /\ "unknown" \in Held
      /\ \A i, j \in JobIds : lease[i] \in Held /\ lease[j] \in Held => i = j
      /\ process \in {"down", "reconciling", "up"}
  BY DEF TypeOK, StoreTypes, ProcessTypes, Leases, Held
<1>1. CASE LedgerUnchanged
  BY <1>1 DEF LedgerUnchanged
<1>2. CASE Granted \/ Returned
  <2>1. job \in JobIds /\ process = "up" /\ UNCHANGED process
    BY <1>2 DEF Granted, Returned
  <2>2. \A j \in JobIds : j # job => lease'[j] = lease[j] /\ lease'[j] # "unknown"
    BY <1>0, <1>2, <2>1 DEF Granted, Returned, Held
  <2>3. ~quarantined
    BY <1>0, <1>2, <2>1 DEF Granted, Returned, Held
  <2> QED
    BY <1>0, <1>2, <2>1, <2>2, <2>3 DEF Granted, Returned
<1>3. CASE ProcessEnds
  BY <1>3 DEF ProcessEnds
<1>4. CASE ReconcileLeases
  <2>1. /\ \A j \in JobIds : lease'[j] # "active"
        /\ quarantined' <=> \E j \in JobIds : lease'[j] = "unknown"
        /\ process' = "reconciling"
    BY <1>0, <1>4 DEF ReconcileLeases, Held
  <2> QED
    BY <2>1
<1>5. CASE InterruptJobs
  BY <1>5 DEF InterruptJobs
<1> QED
  BY <1>1, <1>2, <1>3, <1>4, <1>5, LedgerSteps

\* One lease at a time, none while the outcome of an earlier one is open or not
\* known: what the scheduler does with leases is what the coordinator promises
\* (Scheduler._execute, coordinator.acquire and release, _reconcile_after_lock).
THEOREM LedgerIsKept == Spec => KeepsLedger
<1>1. Init => Ledgered /\ Ledger!Init
  BY DEF Init, Ledgered, Ledger!Init, Held
<1>2. IInv /\ Ledgered /\ [Next]_vars => Ledgered'
  BY LedgeredStep DEF IInv
<1>3. ASSUME IInv, Ledgered, [Next]_vars PROVE [Ledger!Next]_Ledger!vars
  <2> DEFINE up == process # "down"
             open == \E j \in JobIds : lease[j] \in Held
  <2>0. /\ lease \in [JobIds -> {"none", "released"} \cup Held] /\ quarantined \in BOOLEAN
        /\ \A i, j \in JobIds : lease[i] \in Held /\ lease[j] \in Held => i = j
        /\ "active" \in Held /\ "unknown" \in Held /\ "released" \notin Held
    BY <1>3 DEF IInv, TypeOK, StoreTypes, ProcessTypes, Leases, Held
  <2>1. CASE LedgerUnchanged
    BY <2>1 DEF LedgerUnchanged, Ledger!vars
  <2>2. CASE Granted
    <3>1. up /\ up' = up /\ ~quarantined /\ ~open /\ quarantined' \in BOOLEAN
      BY <2>0, <2>2 DEF Granted
    <3>2. open' = TRUE
      BY <2>0, <2>2 DEF Granted
    <3> QED
      BY <3>1, <3>2, Zenon DEF Ledger!Next, Ledger!Grant
  <2>3. CASE Returned
    <3>1. up /\ up' = up /\ open /\ job \in JobIds /\ lease[job] = "active"
      BY <2>0, <2>3 DEF Returned
    <3>2. ~quarantined
      <4>1. \A j \in JobIds : lease[j] # "unknown"
        BY <2>0, <3>1
      <4> QED
        BY <1>3, <4>1 DEF Ledgered
    <3>3. CASE lease' = [lease EXCEPT ![job] = "released"] /\ quarantined' = quarantined
      <4>1. open' = FALSE
        BY <2>0, <3>1, <3>3
      <4> QED
        BY <3>1, <3>2, <3>3, <4>1, Zenon DEF Ledger!Next, Ledger!Settle
    <3>4. CASE lease' = [lease EXCEPT ![job] = "unknown"] /\ quarantined' = TRUE
      <4>1. open' = open
        BY <2>0, <3>1, <3>4
      <4> QED
        BY <3>1, <3>2, <3>4, <4>1, Zenon DEF Ledger!Next, Ledger!LoseTrack
    <3> QED
      BY <2>3, <3>3, <3>4 DEF Returned
  <2>4. CASE ProcessEnds
    <3>1. up /\ up' = FALSE /\ quarantined' = FALSE /\ open' = open
      BY <2>4 DEF ProcessEnds
    <3> QED
      BY <3>1, Zenon DEF Ledger!Next, Ledger!End
  <2>5. CASE ReconcileLeases
    <3>1. ~up /\ up' = TRUE
      BY <2>5 DEF ReconcileLeases
    <3>2. \A j \in JobIds : lease'[j] \in Held => lease'[j] = "unknown" /\ lease[j] \in Held
      BY <2>0, <2>5 DEF ReconcileLeases, Held
    <3>3. quarantined' = (\E j \in JobIds : lease'[j] = "unknown")
      BY <2>5 DEF ReconcileLeases
    <3>4. quarantined' = open'
      BY <2>0, <3>2, <3>3
    <3>5. open' \in {open, FALSE}
      BY <3>2
    <3> QED
      BY <3>1, <3>4, <3>5, Zenon DEF Ledger!Next, Ledger!Reconcile
  <2>6. CASE InterruptJobs
    <3>1. up' = up /\ UNCHANGED <<lease, quarantined>>
      BY <2>6 DEF InterruptJobs
    <3> QED
      BY <3>1 DEF Ledger!vars
  <2> QED
    BY <1>3, <2>1, <2>2, <2>3, <2>4, <2>5, <2>6, LedgerSteps DEF IInv
<1> QED
  BY <1>1, <1>2, <1>3, Invariance, PTL DEF Spec, KeepsLedger, Ledger!Spec
--------------------------------------------------------------------------------
(* The queue *)

\* Priorities, and rows of equal priority in their order, are a strict total order.
LEMMA BeforeIsOrder ==
  ASSUME TypeOK
  PROVE  /\ \A i \in Rows : ~Before(i, i)
         /\ \A i, j, k \in Rows : Before(i, j) /\ Before(j, k) => Before(i, k)
         /\ \A i, j \in Rows : i # j => Before(i, j) \/ Before(j, i)
<1>1. \A i \in Rows : i \in Int /\ Priority[request[i]] \in Int
  <2>1. Rows = 1 .. Len(key) /\ Len(key) \in Nat /\ Rows = DOMAIN request
    BY RowsAreJobIds DEF TypeOK, StoreTypes
  <2>2. \A i \in Rows : request[i] \in Requests
    BY <2>1 DEF TypeOK, StoreTypes
  <2> QED
    BY <2>1, <2>2
<1> QED
  BY <1>1 DEF Before

\* The job comes before every other that can be claimed.
Foremost(j) ==
  /\ Claimable(j)
  /\ \A i \in Rows \ {j} : Claimable(i) => Before(j, i) /\ ~Before(i, j)

\* Whenever rows can be claimed, exactly one of them is first: claim_next is never
\* left without a row to take and takes no other (the ORDER BY of store.claim_next).
THEOREM NextIsDetermined ==
  Spec => []((\E j \in JobIds : Claimable(j)) => \E j \in Rows : Foremost(j))
<1>1. ASSUME TypeOK, NEW k \in JobIds, Claimable(k) PROVE \E j \in Rows : Foremost(j)
  <2> DEFINE S == {j \in Rows : Claimable(j)}
             R == {p \in Rows \X Rows : Before(p[1], p[2])}
  <2>1. Rows = 1 .. Len(key) /\ Len(key) \in Nat
    BY <1>1, RowsAreJobIds DEF TypeOK, StoreTypes
  <2>2. IsFiniteSet(S)
    <3>1. IsFiniteSet(Rows)
      BY <2>1, FirstNumbers
    <3> QED
      BY <3>1, FS_Subset
  <2>3. k \in S
    BY <1>1 DEF Claimable, TypeOK, StoreTypes
  <2>4. \A i, j \in S : <<i, j>> \in R <=> Before(i, j)
    OBVIOUS
  <2>5. /\ \A i \in S : <<i, i>> \notin R
        /\ \A i, j, l \in S : <<i, j>> \in R /\ <<j, l>> \in R => <<i, l>> \in R
    <3> HIDE DEF R
    <3> QED
      BY <1>1, <2>4, BeforeIsOrder
  <2>6. \E j \in S : \A i \in S : <<i, j>> \notin R
    <3> HIDE DEF S, R
    <3> QED
      BY <2>2, <2>3, <2>5, FirstElement
  <2>7. PICK j \in S : \A i \in S : ~Before(i, j)
    <3> HIDE DEF R
    <3> QED
      BY <2>4, <2>6
  <2> QED
    BY <1>1, <2>7, BeforeIsOrder DEF Foremost
<1>2. TypeOK => ((\E j \in JobIds : Claimable(j)) => \E j \in Rows : Foremost(j))
  BY <1>1
<1> QED
  BY <1>2, TypeCorrect, PTL
--------------------------------------------------------------------------------
(* Every execution ends *)

\* How many steps the scheduler thread is at most from the end of _execute.
Work ==
  CASE pc = "claimed" -> 12
    [] pc = "planned" -> 11
    [] pc = "admitted" -> 10
    [] pc = "activated" -> 9
    [] pc = "executing" ->
         CASE status[job] = "loading" -> 8 [] status[job] = "running" -> 7 [] OTHER -> 6
    [] pc = "performed" -> 5
    [] pc = "releasing" -> 4
    [] pc = "finishing" -> 3
    [] pc = "handling" -> 2
    [] pc = "cleanup" -> 1
    [] OTHER -> 0

\* A claimed job is settled after a bounded number of steps of the thread, whatever
\* clients, the clock and the leases do meanwhile: every step of an execution lowers a
\* number that only the claim of a job raises (Scheduler._execute).
THEOREM ExecutionEnds ==
  Spec => /\ [](Work \in 0 .. 12)
          /\ [][/\ Execution \/ Stage => Work' < Work
                /\ Work' > Work => \E j \in JobIds : Claim(j)]_vars
<1>1. TypeOK => Work \in 0 .. 12
  BY DEF Work
<1>2. ASSUME TypeOK, Location, Execution \/ Stage PROVE Work' < Work
  <2> USE DEF keepLocals, keepOthers, Proceed, Raise, Work
  <2>1. /\ pc \in Steps /\ status \in [JobIds -> Statuses]
        /\ pc \notin Idle => job \in JobIds
    BY <1>2, RowsAreJobIds DEF Location, TypeOK, ThreadTypes, StoreTypes
  <2>2. CASE Validate
    BY <2>2 DEF Validate
  <2>3. CASE Acquire
    <3>1. pc = "planned" /\ pc' \in {"admitted", "handling"}
      BY <2>3 DEF Acquire
    <3> QED
      BY <3>1
  <2>4. CASE Activate
    BY <2>4 DEF Activate
  <2>5. CASE Verify
    <3>1. pc = "activated" /\ pc' \in {"executing", "handling"}
      BY <2>5 DEF Verify
    <3> QED
      BY <3>1
  <2>6. CASE Stage
    <3>1. /\ pc = "executing" /\ pc' = "executing" /\ job' = job /\ job \in JobIds
          /\ \/ status[job] = "loading" /\ status'[job] = "running"
             \/ status[job] = "running" /\ status'[job] = "validating"
      BY <2>1, <2>6 DEF Stage, Idle
    <3> QED
      BY <3>1
  <2>7. CASE Execute
    <3>1. pc = "executing" /\ pc' \in {"performed", "handling"}
      BY <2>7 DEF Execute
    <3> QED
      BY <3>1
  <2>8. CASE Deactivate
    BY <2>8 DEF Deactivate
  <2>9. CASE Release
    <3>1. pc = "releasing" /\ pc' \in {"finishing", "handling"}
      BY <2>9 DEF Release, ReleaseLease
    <3> QED
      BY <3>1
  <2>10. CASE Finish
    <3>1. pc = "finishing" /\ pc' \in {"cleanup", "handling"}
      BY <2>10 DEF Finish
    <3> QED
      BY <3>1
  <2>11. CASE Handle \/ HandlerFails
    <3>1. pc = "handling" /\ pc' = "cleanup"
      BY <2>11 DEF Handle, HandlerFails
    <3> QED
      BY <3>1
  <2>12. CASE Cleanup
    <3>1. pc = "cleanup" /\ pc' \in {"idle", "ended"}
      BY <2>12 DEF Cleanup
    <3> QED
      BY <3>1
  <2> QED
    BY <1>2, <2>2, <2>3, <2>4, <2>5, <2>6, <2>7, <2>8, <2>9, <2>10, <2>11, <2>12
       DEF Execution
<1>3. ASSUME TypeOK, Location, Next, ~(Execution \/ Stage), ~\E j \in JobIds : Claim(j)
      PROVE  Work' \in 0 .. Work
  <2>1. Work \in 0 .. 12
    BY <1>1, <1>3
  <2>2. ASSUME pc' \in Idle, pc' # "claimed" PROVE Work' \in 0 .. Work
    BY <2>1, <2>2 DEF Work, Idle
  <2>3. ASSUME UNCHANGED <<pc, job>>, pc = "executing" => UNCHANGED status[job]
        PROVE  Work' \in 0 .. Work
    BY <2>1, <2>3 DEF Work
  <2>4. /\ pc = "executing" => job \in Rows /\ status[job] \in Active
        /\ status \in [JobIds -> Statuses]
    <3>1. "executing" \notin Idle /\ "executing" \in Trying
      BY DEF Idle, Trying, Steps
    <3> QED
      BY <1>3, <3>1 DEF Location, TypeOK, StoreTypes
  <2>5. CASE Handlers
    <3>1. UNCHANGED <<pc, job>>
      BY <2>5 DEF Handlers, SubmitReceived, Submit, Cancel, locals
    <3>2. ASSUME pc = "executing" PROVE UNCHANGED status[job]
      <4>1. CASE \E k \in Keys, r \in Requests : SubmitReceived(k, r)
        BY <3>1, <4>1 DEF SubmitReceived
      <4>2. CASE \E s \in inflight : Submit(s)
        <5>1. job # Len(key) + 1 /\ job \in JobIds
          BY <1>3, <2>4, <3>2, RowsAreJobIds DEF TypeOK, StoreTypes, Rows
        <5>2. status' = status \/ status' = [status EXCEPT ![Len(key) + 1] = "queued"]
          BY <4>2 DEF Submit, Insert
        <5> QED
          BY <2>4, <3>1, <5>1, <5>2
      <4>3. CASE \E j \in JobIds : Cancel(j)
        BY <2>4, <3>1, <3>2, <4>3 DEF Cancel, Active
      <4> QED
        BY <2>5, <4>1, <4>2, <4>3 DEF Handlers
    <3> QED
      BY <2>3, <3>1, <3>2
  <2>6. CASE (\E j \in JobIds : WaitOver(j)) \/ StopSet
    BY <2>3, <2>6 DEF WaitOver, StopSet, locals
  <2>7. CASE ReconcileLeases
    BY <2>3, <2>7 DEF ReconcileLeases, locals
  <2>8. CASE LoopEnds \/ ProcessEnds \/ InterruptJobs
    BY <2>2, <2>8 DEF LoopEnds, ProcessEnds, InterruptJobs, Idle
  <2> QED
    BY <1>3, <2>5, <2>6, <2>7, <2>8 DEF Next
<1>4. ASSUME UNCHANGED vars PROVE Work' = Work
  BY <1>4 DEF vars, locals, Work
<1> DEFINE Lower == /\ Execution \/ Stage => Work' < Work
                    /\ Work' > Work => \E j \in JobIds : Claim(j)
<1> DEFINE Bounded == Work \in 0 .. 12
<1>5. ASSUME TypeOK, Location, Bounded', [Next]_vars PROVE [Lower]_vars
  <2>1. Work \in 0 .. 12 /\ Work' \in 0 .. 12
    BY <1>1, <1>5
  <2>2. Execution \/ Stage => Work' < Work
    BY <1>2, <1>5
  <2>3. CASE Next
    BY <1>3, <1>5, <2>1, <2>2, <2>3
  <2> QED
    BY <1>5, <2>3
<1>6. IInv => TypeOK /\ Location
  BY DEF IInv
<1>7. TypeOK => Bounded
  BY <1>1
<1>8. Spec => []Bounded /\ [][Lower]_vars
  <2> HIDE DEF Bounded, Lower
  <2> QED
    BY <1>5, <1>6, <1>7, Invariance, PTL DEF Spec
<1> QED
  BY <1>8
================================================================================
