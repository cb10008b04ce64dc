----------------------------- MODULE JobScheduler ------------------------------
(***************************************************************************)
(* The durable job queue and the thread that executes it.                  *)
(*                                                                         *)
(*   store.py      submit, claim_next, defer, transition, finish, fail,    *)
(*                 cancel, interrupt_uncertain_jobs                        *)
(*   scheduler.py  Scheduler._loop and _execute (one pc value per call     *)
(*                 that can fail, block or be raced by an HTTP handler)    *)
(*   server.py     _submit_job (readiness first, the transaction later),   *)
(*                 _job_route cancel, Broker.start / stop                  *)
(*   resources.py  acquire, release and restart reconciliation, reduced to *)
(*                 what they leave in the lease table; Governor's subject  *)
(*                                                                         *)
(* A row of the job table is one index of the functions below; row         *)
(* numbers follow created_at.  Each store method is one transaction.       *)
(***************************************************************************)
EXTENDS Integers, FiniteSets, Sequences

CONSTANTS
  Keys,         \* (origin, idempotencyKey) pairs
  Requests,     \* request digests
  Priority,     \* priority of each request
  Gpu,          \* requests whose plan needs a lease
  MaxPending,   \* max_pending_jobs
  MaxHandlers,  \* bound: submissions between readiness check and transaction
  MaxJobs,      \* bound: rows of the job table
  MaxCrashes    \* bound: ends of the process

ASSUME PriorityAssumption == Priority \in [Requests -> Int]
ASSUME GpuAssumption == Gpu \subseteq Requests
ASSUME BoundsAssumption ==
  MaxPending \in Nat /\ MaxHandlers \in Nat /\ MaxJobs \in Nat /\ MaxCrashes \in Nat

JobIds == 1 .. MaxJobs

VARIABLES
  \* the SQLite store
  key, request,  \* of each row, in created_at order
  status,     \* of each row
  cancel,     \* cancel_requested
  later,      \* not_before lies in the future
  lease,      \* status of the job's last lease
  \* the process
  process,    \* "down", "reconciling" or "up"
  stop,       \* Scheduler._stop
  quarantined, \* the coordinator has a _quarantine_reason
  inflight,   \* submissions that passed the readiness check
  pc,         \* where the scheduler thread is
  job,        \* the row it executes, 0 when idle
  performed,  \* execution_performed
  releaseAttempted, \* release_attempted
  exc,        \* the exception being handled
  \* history and bound
  starts,     \* calls of execute_plan for each row
  crashes

rows == <<key, request>>
locals == <<job, performed, releaseAttempted, exc>>
vars == <<key, request, status, cancel, later, lease, process, stop,
          quarantined, inflight, pc, job, performed, releaseAttempted, exc,
          starts, crashes>>

Active == {"loading", "running", "validating"}
Terminal == {"completed", "failed", "cancelled", "interrupted"}
Statuses == {"absent", "queued"} \cup Active \cup Terminal
Held == {"active", "unknown"}  \* acquiring and releasing are inside one action
Steps == {"off", "idle", "claimed", "planned", "admitted", "activated",
          "executing", "performed", "releasing", "finishing", "handling",
          "cleanup", "ended"}
Exceptions == {"none", "deferred", "cancelled", "failed", "escaped"}

Rows == DOMAIN key

StoreTypes ==
  /\ key \in Seq(Keys) /\ request \in Seq(Requests)
  /\ Len(key) = Len(request) /\ Len(key) <= MaxJobs
  /\ status \in [JobIds -> Statuses]
  /\ \A j \in JobIds : status[j] = "absent" <=> j \notin Rows
  /\ cancel \in [JobIds -> BOOLEAN]
  /\ later \in [JobIds -> BOOLEAN]
  /\ lease \in [JobIds -> {"none", "released"} \cup Held]

ProcessTypes ==
  /\ process \in {"down", "reconciling", "up"}
  /\ stop \in BOOLEAN
  /\ quarantined \in BOOLEAN
  /\ inflight \subseteq [key : Keys, request : Requests]
  /\ crashes \in 0 .. MaxCrashes

ThreadTypes ==
  /\ pc \in Steps
  /\ job \in 0 .. MaxJobs
  /\ pc \in {"off", "idle", "ended"} <=> job = 0
  /\ performed \in BOOLEAN
  /\ releaseAttempted \in BOOLEAN
  /\ exc \in Exceptions
  /\ starts \in [JobIds -> Nat]

TypeOK == StoreTypes /\ ProcessTypes /\ ThreadTypes

Init ==
  /\ key = <<>>
  /\ request = <<>>
  /\ status = [j \in JobIds |-> "absent"]
  /\ cancel = [j \in JobIds |-> FALSE]
  /\ later = [j \in JobIds |-> FALSE]
  /\ lease = [j \in JobIds |-> "none"]
  /\ process = "down"
  /\ stop = FALSE
  /\ quarantined = FALSE
  /\ inflight = {}
  /\ pc = "off"
  /\ job = 0
  /\ performed = FALSE
  /\ releaseAttempted = FALSE
  /\ exc = "none"
  /\ starts = [j \in JobIds |-> 0]
  /\ crashes = 0

--------------------------------------------------------------------------------
(* HTTP handlers *)

\* Mutant: jobs being executed do not count.
MutantPending == {j \in Rows : status[j] = "queued"}
Pending == {j \in Rows : status[j] \in {"queued"} \cup Active}

\* _submit_job: _readiness wants a live scheduler and no quarantine.
SubmitReceived(k, r) ==
  /\ process = "up" /\ pc \notin {"off", "ended"} /\ ~quarantined
  /\ Cardinality(inflight) < MaxHandlers
  /\ inflight' = inflight \cup {[key |-> k, request |-> r]}
  /\ UNCHANGED <<rows, status, cancel, later, lease, process, stop, quarantined,
                 pc, locals, starts, crashes>>

Insert(s) ==
  /\ Len(key) < MaxJobs
  /\ key' = Append(key, s.key)
  /\ request' = Append(request, s.request)
  /\ status' = [status EXCEPT ![Len(key) + 1] = "queued"]

\* Mutant: the look-up of the idempotency key is dropped.
MutantSubmit(s) ==
  /\ s \in inflight
  /\ inflight' = inflight \ {s}
  /\ Cardinality(Pending) < MaxPending
  /\ Insert(s)
  /\ UNCHANGED <<cancel, later, lease, process, stop, quarantined, pc, locals,
                 starts, crashes>>

\* store.submit: the row of the key answers (a replay, or a conflict when its
\* digest differs), a full queue refuses, otherwise the job is queued.
Submit(s) ==
  LET existing == {j \in Rows : key[j] = s.key}
      full == Cardinality(Pending) >= MaxPending
  IN  /\ s \in inflight
      /\ inflight' = inflight \ {s}
      /\ \/ /\ existing # {} \/ full
            /\ UNCHANGED <<rows, status>>
         \/ /\ existing = {} /\ ~full
            /\ Insert(s)
      /\ UNCHANGED <<cancel, later, lease, process, stop, quarantined, pc, locals,
                     starts, crashes>>

\* store.cancel: a queued job ends here, an active one is only marked.
Cancel(j) ==
  /\ process = "up"
  /\ status[j] \in {"queued"} \cup Active
  /\ cancel' = [cancel EXCEPT ![j] = TRUE]
  /\ status' = [status EXCEPT ![j] = IF @ = "queued" THEN "cancelled" ELSE @]
  /\ UNCHANGED <<rows, later, lease, process, stop, quarantined, inflight, pc,
                 locals, starts, crashes>>

\* The clock passes not_before.  A deferral lasts at least a tenth of a second,
\* longer than a cleanup that has nothing to release; but the delay counts from
\* the except clause, and a cleanup that has a lease to release may outlast it.
WaitOver(j) ==
  /\ later[j]
  /\ pc = "cleanup" /\ j = job => lease[job] = "active"
  /\ later' = [later EXCEPT ![j] = FALSE]
  /\ UNCHANGED <<rows, status, cancel, lease, process, stop, quarantined, inflight,
                 pc, locals, starts, crashes>>

--------------------------------------------------------------------------------
(* Scheduler._loop and the happy path of _execute *)

Claimable(j) == status[j] = "queued" /\ ~cancel[j] /\ ~later[j]

\* ORDER BY priority DESC, created_at ASC
Before(i, j) ==
  \/ Priority[request[i]] > Priority[request[j]]
  \/ Priority[request[i]] = Priority[request[j]] /\ i < j

\* Mutant: the newest job of the lowest priority first.
MutantClaim(j) ==
  /\ pc = "idle" /\ ~stop
  /\ Claimable(j)
  /\ \A i \in Rows : Claimable(i) => ~Before(j, i)
  /\ pc' = "claimed"
  /\ job' = j
  /\ status' = [status EXCEPT ![j] = "loading"]
  /\ performed' = FALSE
  /\ releaseAttempted' = FALSE
  /\ exc' = "none"
  /\ UNCHANGED <<rows, cancel, later, lease, process, stop, quarantined, inflight,
                 starts, crashes>>

Claim(j) ==
  /\ pc = "idle" /\ ~stop
  /\ Claimable(j)
  /\ \A i \in Rows : Claimable(i) => ~Before(i, j)
  /\ pc' = "claimed"
  /\ job' = j
  /\ status' = [status EXCEPT ![j] = "loading"]
  /\ performed' = FALSE
  /\ releaseAttempted' = FALSE
  /\ exc' = "none"
  /\ UNCHANGED <<rows, cancel, later, lease, process, stop, quarantined, inflight,
                 starts, crashes>>

\* control(): the stop flag or the row's cancel_requested.
Control == stop \/ cancel[job]
NeedsLease == request[job] \in Gpu
\* The inference window is configured only when a lease displaced training, and
\* its expiry then looks like a cancellation.
WindowOver == NeedsLease

Proceed(to) == pc' = to /\ UNCHANGED exc
Raise(e) == pc' = "handling" /\ exc' = e

keepLocals == UNCHANGED <<job, performed, releaseAttempted>>
keepOthers == UNCHANGED <<rows, cancel, process, stop, inflight, crashes>>

\* _check_deadline, validate_request, plan and the transition to loading.
Validate ==
  /\ pc = "claimed"
  /\ Proceed("planned") \/ Raise("failed")
  /\ keepLocals /\ keepOthers
  /\ UNCHANGED <<status, later, lease, quarantined, starts>>

\* Mutant: neither the quarantine nor unreconciled leases are looked at.
MutantAcquire ==
  /\ pc = "planned"
  /\ \/ /\ Proceed("admitted")
        /\ lease' = IF NeedsLease THEN [lease EXCEPT ![job] = "active"] ELSE lease
     \/ /\ NeedsLease
        /\ Raise("deferred")
        /\ UNCHANGED lease
  /\ keepLocals /\ keepOthers
  /\ UNCHANGED <<status, later, quarantined, starts>>

\* coordinator.acquire as seen from here: no lease needed, cancelled before
\* admission, refused, granted, or refused with a rollback that failed.
Acquire ==
  /\ pc = "planned"
  /\ \/ /\ ~NeedsLease
        /\ Proceed("admitted")
        /\ UNCHANGED <<lease, quarantined>>
     \/ /\ NeedsLease /\ Control
        /\ Raise("cancelled")
        /\ UNCHANGED <<lease, quarantined>>
     \/ /\ NeedsLease /\ ~Control
        /\ Raise("deferred")
        /\ UNCHANGED <<lease, quarantined>>
     \/ /\ NeedsLease /\ ~Control /\ ~quarantined
        /\ \A j \in Rows : lease[j] \notin Held
        /\ \/ /\ Proceed("admitted")
              /\ lease' = [lease EXCEPT ![job] = "active"]
              /\ UNCHANGED quarantined
           \/ /\ Raise("deferred")
              /\ lease' = [lease EXCEPT ![job] = "unknown"]
              /\ quarantined' = TRUE
  /\ keepLocals /\ keepOthers
  /\ UNCHANGED <<status, later, starts>>

\* activate_plan
Activate ==
  /\ pc = "admitted"
  /\ \/ Proceed("activated")
     \/ Raise("failed")
     \/ (Control \/ WindowOver) /\ Raise("cancelled")
  /\ keepLocals /\ keepOthers
  /\ UNCHANGED <<status, later, lease, quarantined, starts>>

\* verify_activation, then the call of execute_plan.
Verify ==
  /\ pc = "activated"
  /\ \/ /\ Proceed("executing")
        /\ starts' = [starts EXCEPT ![job] = @ + 1]
     \/ /\ NeedsLease
        /\ Raise("deferred")
        /\ UNCHANGED starts
  /\ keepLocals /\ keepOthers
  /\ UNCHANGED <<status, later, lease, quarantined>>

\* stage(): its check of control() came before, so a cancel may be in between.
Stage ==
  /\ pc = "executing"
  /\ \/ status[job] = "loading" /\ status' = [status EXCEPT ![job] = "running"]
     \/ status[job] = "running" /\ status' = [status EXCEPT ![job] = "validating"]
  /\ UNCHANGED <<pc, exc>>
  /\ keepLocals /\ keepOthers
  /\ UNCHANGED <<later, lease, quarantined, starts>>

\* execute_plan returns a payload, fails, or sees the cancellation.
Execute ==
  /\ pc = "executing"
  /\ \/ Proceed("performed") /\ performed' = TRUE
     \/ Raise("failed") /\ UNCHANGED performed
     \/ (Control \/ WindowOver) /\ Raise("cancelled") /\ UNCHANGED performed
  /\ UNCHANGED <<job, releaseAttempted>>
  /\ keepOthers
  /\ UNCHANGED <<status, later, lease, quarantined, starts>>

\* Mutant: the result is stored first and the lease left to the finally clause.
MutantDeactivate ==
  /\ pc = "performed"
  /\ IF Control THEN Raise("cancelled") ELSE Proceed("finishing")
  /\ keepLocals /\ keepOthers
  /\ UNCHANGED <<status, later, lease, quarantined, starts>>

\* The check of control() after the execution, the refusal of a yielded
\* outcome, and deactivate_plan.
Deactivate ==
  /\ pc = "performed"
  /\ \/ ~Control /\ Proceed("releasing")
     \/ ~Control /\ Raise("failed")
     \/ (Control \/ WindowOver) /\ Raise("cancelled")
  /\ keepLocals /\ keepOthers
  /\ UNCHANGED <<status, later, lease, quarantined, starts>>

\* coordinator.release: verified, or the lease is unknown and the host
\* quarantined.  A lease the job does not have is not released.
ReleaseLease(verified, unverified) ==
  \/ /\ lease[job] = "active"
     /\ lease' = [lease EXCEPT ![job] = "released"]
     /\ UNCHANGED quarantined
     /\ verified
  \/ /\ lease[job] = "active"
     /\ lease' = [lease EXCEPT ![job] = "unknown"]
     /\ quarantined' = TRUE
     /\ unverified
  \/ /\ lease[job] # "active"
     /\ UNCHANGED <<lease, quarantined>>
     /\ verified

Release ==
  /\ pc = "releasing"
  /\ ReleaseLease(Proceed("finishing"), Raise("deferred"))
  /\ releaseAttempted' = TRUE
  /\ UNCHANGED <<job, performed>>
  /\ keepOthers
  /\ UNCHANGED <<status, later, starts>>

\* store.finish: completed, unless a cancellation came first; or SQLite fails.
Finish ==
  /\ pc = "finishing"
  /\ \/ /\ Proceed("cleanup")
        /\ status[job] \in Active
        /\ status' = [status EXCEPT ![job] = IF cancel[job] THEN "cancelled" ELSE "completed"]
     \/ /\ Raise("failed")
        /\ UNCHANGED status
  /\ keepLocals /\ keepOthers
  /\ UNCHANGED <<later, lease, quarantined, starts>>

--------------------------------------------------------------------------------
(* The except clauses and the finally clause of _execute *)

\* Mutant: only a running job is put back.
MutantDefer ==
  IF status[job] = "running" /\ ~cancel[job]
  THEN /\ status' = [status EXCEPT ![job] = "queued"]
       /\ later' = [later EXCEPT ![job] = TRUE]
  ELSE UNCHANGED <<status, later>>

\* store.defer: back to the queue, unless the row was cancelled meanwhile.
Defer ==
  IF status[job] \in {"loading", "running"} /\ ~cancel[job]
  THEN /\ status' = [status EXCEPT ![job] = "queued"]
       /\ later' = [later EXCEPT ![job] = TRUE]
  ELSE UNCHANGED <<status, later>>

Fail(to) ==
  /\ status' = [status EXCEPT ![job] = to]
  /\ UNCHANGED later

\* Mutant: a deferral puts the job back whether or not it was executed.
MutantHandle ==
  /\ pc = "handling"
  /\ Proceed("cleanup")
  /\ \/ exc = "deferred" /\ Defer
     \/ exc = "cancelled" /\ Fail("cancelled")
     \/ exc = "failed" /\ Fail("failed")
  /\ keepLocals /\ keepOthers
  /\ UNCHANGED <<lease, quarantined, starts>>

\* An AdmissionDeferred after the execution fails the job instead of requeueing
\* it: the workload may have had effects.
Handle ==
  /\ pc = "handling"
  /\ Proceed("cleanup")
  /\ \/ exc = "deferred" /\ performed /\ Fail("failed")
     \/ exc = "deferred" /\ ~performed /\ Defer
     \/ exc = "cancelled" /\ Fail("cancelled")
     \/ exc = "failed" /\ Fail("failed")
  /\ keepLocals /\ keepOthers
  /\ UNCHANGED <<lease, quarantined, starts>>

\* SQLite fails inside the except clause: the exception will escape _execute.
HandlerFails ==
  /\ pc = "handling"
  /\ pc' = "cleanup"
  /\ exc' = "escaped"
  /\ keepLocals /\ keepOthers
  /\ UNCHANGED <<status, later, lease, quarantined, starts>>

\* finally: deactivate and release what is still held; then the loop goes on,
\* or ends because of the stop flag or the escaped exception, which sets it.
Cleanup ==
  /\ pc = "cleanup"
  /\ pc' = IF stop \/ exc = "escaped" THEN "ended" ELSE "idle"
  /\ stop' = (stop \/ exc = "escaped")
  /\ IF releaseAttempted THEN UNCHANGED <<lease, quarantined>>
                         ELSE ReleaseLease(TRUE, TRUE)
  /\ job' = 0
  /\ performed' = FALSE
  /\ releaseAttempted' = FALSE
  /\ exc' = "none"
  /\ UNCHANGED <<rows, status, cancel, later, process, inflight, starts, crashes>>

--------------------------------------------------------------------------------
(* The process *)

\* SIGTERM, or an exception in the control loop: both set the stop flag.
StopSet ==
  /\ process = "up" /\ ~stop
  /\ stop' = TRUE
  /\ UNCHANGED <<rows, status, cancel, later, lease, process, quarantined, inflight,
                 pc, locals, starts, crashes>>

LoopEnds ==
  /\ pc = "idle" /\ stop
  /\ pc' = "ended"
  /\ UNCHANGED <<rows, status, cancel, later, lease, process, stop, quarantined,
                 inflight, locals, starts, crashes>>

\* The process ends, at any point, orderly or not: the store remains.
ProcessEnds ==
  /\ process # "down"
  /\ crashes < MaxCrashes
  /\ crashes' = crashes + 1
  /\ process' = "down"
  /\ stop' = FALSE
  /\ quarantined' = FALSE
  /\ inflight' = {}
  /\ pc' = "off"
  /\ job' = 0
  /\ performed' = FALSE
  /\ releaseAttempted' = FALSE
  /\ exc' = "none"
  /\ UNCHANGED <<rows, status, cancel, later, lease, starts>>

\* _reconcile_after_lock, leases: released when verified, else quarantine.
ReconcileLeases ==
  /\ process = "down"
  /\ process' = "reconciling"
  /\ \E verified \in SUBSET {j \in JobIds : lease[j] \in Held} :
       lease' = [j \in JobIds |->
                   IF lease[j] \notin Held THEN lease[j]
                   ELSE IF j \in verified THEN "released" ELSE "unknown"]
  /\ quarantined' = (\E j \in JobIds : lease'[j] = "unknown")
  /\ UNCHANGED <<rows, status, cancel, later, stop, inflight, pc, locals, starts, crashes>>

\* interrupt_uncertain_jobs, then Broker.start's choice to run the scheduler.
InterruptJobs ==
  /\ process = "reconciling"
  /\ process' = "up"
  /\ status' = [j \in JobIds |-> IF status[j] \in Active THEN "interrupted" ELSE status[j]]
  /\ pc' = IF quarantined THEN "off" ELSE "idle"
  /\ UNCHANGED <<rows, cancel, later, lease, stop, quarantined, inflight, locals,
                 starts, crashes>>

--------------------------------------------------------------------------------

Handlers ==
  \/ \E k \in Keys, r \in Requests : SubmitReceived(k, r)
  \/ \E s \in inflight : Submit(s)
  \/ \E j \in JobIds : Cancel(j)

Execution ==
  \/ Validate \/ Acquire \/ Activate \/ Verify \/ Execute \/ Deactivate
  \/ Release \/ Finish \/ Handle \/ HandlerFails \/ Cleanup

Next ==
  \/ Handlers
  \/ \E j \in JobIds : WaitOver(j) \/ Claim(j)
  \/ Execution \/ Stage
  \/ StopSet \/ LoopEnds \/ ProcessEnds \/ ReconcileLeases \/ InterruptJobs

Spec == Init /\ [][Next]_vars

(***************************************************************************)
(* The scheduler thread runs, every call it makes is bounded by a timeout, *)
(* and delays elapse.  A deferred job waits at least a tenth of a second   *)
(* while the loop claims again at once, so a job that is the next to claim *)
(* again and again is claimed (SF).  systemd restarts the process.         *)
(* Clients, signals and failures are not fair.                             *)
(***************************************************************************)
Fairness ==
  /\ WF_vars(Execution)
  /\ WF_vars(LoopEnds)
  /\ WF_vars(ReconcileLeases) /\ WF_vars(InterruptJobs)
  /\ \A j \in JobIds : WF_vars(WaitOver(j)) /\ SF_vars(Claim(j))

FairSpec == Spec /\ Fairness

--------------------------------------------------------------------------------
(* Properties *)

Running == pc \notin {"off", "ended"}
First(j) ==
  /\ status[j] = "queued"
  /\ \A i \in Rows : status[i] = "queued" => ~Before(i, j)

\* Idempotency: concurrent or repeated submissions of one key leave one job.
OneJobPerKey == \A i, j \in Rows : key[i] = key[j] => i = j

\* max_pending_jobs bounds queued and active jobs together, through deferrals,
\* restarts and submissions whose readiness check is long past.
PendingBounded ==
  Cardinality({j \in JobIds : status[j] \in {"queued"} \cup Active}) <= MaxPending

\* One lease at a time on the host, and a workload that needs the GPU runs only
\* under its own active lease, also when earlier releases were not verified.
SoleLease ==
  /\ \A i, j \in JobIds : lease[i] \in Held /\ lease[j] \in Held => i = j
  /\ pc = "executing" /\ NeedsLease => lease[job] = "active"

\* A job is reported completed only after its lease was verifiably released.
CompletedAfterRelease ==
  \A j \in JobIds : status[j] = "completed" => lease[j] \notin Held

\* While the scheduler thread runs, no job is left behind: one that is claimed and
\* not cancelled is the one the thread executes, whatever was deferred, failed or
\* interrupted before.
NoOrphans ==
  process = "up" /\ Running =>
    \A j \in JobIds : status[j] \in Active /\ ~cancel[j] => j = job

\* The scheduler reads and writes the ledger of leases that Governor keeps.
Ledger == INSTANCE LeaseLedger
  WITH up <- process # "down", open <- \E j \in JobIds : lease[j] \in Held
KeepsLedger == Ledger!Spec

\* The life of each job as its client may rely on it: started at most once, one
\* immutable outcome, an accepted cancellation never loses.
Life(j) ==
  CASE status[j] = "absent" -> "absent"
    [] status[j] = "queued" -> "waiting"
    [] status[j] \in Terminal -> "done"
    [] OTHER -> IF starts[j] = 0 THEN "claimed" ELSE "started"

Contract == INSTANCE JobLifecycle
  WITH life <- [j \in JobIds |-> Life(j)],
       withdrawn <- cancel,
       outcome <- [j \in JobIds |-> IF status[j] \in Terminal THEN status[j] ELSE "none"]
Implements == Contract!Spec

\* A job that was claimed and whose cancellation nobody requests leaves the
\* active statuses: it is finished, requeued, or given up by a restart.
ClaimedSettles ==
  \A j \in JobIds :
    status[j] \in Active ~> status[j] \notin Active \/ cancel[j] \/ ~Running

\* The first job of the queue is claimed eventually, also while its delay after
\* a deferral has to pass and jobs behind it overtake it meanwhile.
FirstIsClaimed ==
  \A j \in JobIds :
    First(j) ~> ~First(j) \/ ~Running

\* "let deferred jobs yield immediately to other runnable work": a queued job
\* does not wait for ever behind one that is deferred again and again.
DeferredJobsYield ==
  \A j \in JobIds :
    status[j] = "queued" ~> status[j] # "queued" \/ ~Running

\* A requested cancellation of a queued or active job takes effect.
CancellationTakesEffect ==
  \A j \in JobIds :
    cancel[j] ~> status[j] \in Terminal \/ ~Running
================================================================================
