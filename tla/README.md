# Verification of the Go7 Spark Broker

TLA+ models of the broker and of the training controller it commands, checked
with TLC on small instances, and theorems about them proved with TLAPS for
every value of the constants. All paths below are relative to the repository.

## 1. Inventory

The broker (`spark_broker/`) is one Python process per host with an HTTP server
(one thread per request), a scheduler thread (`spark-scheduler`), a control
thread (`spark-resource-control`), a SQLite store (WAL, one connection per
thread, every write in one `BEGIN IMMEDIATE` transaction) and an artifact
directory. Next to it run a resource probe and one lifecycle controller per
training service; the broker talks to both over loopback HTTP.

| Component | State it keeps | Operations | Hard because | Correct when |
|---|---|---|---|---|
| Host ownership (`resources.py` start/stop, `server.py` start/stop/serve, `store.py` epochs) | flock, epoch file, `broker_epochs` row, threads | start, reconcile, serve, stop with a timed join, exit | several processes and data roots, crash and power loss between four durable steps, join that times out | one owner; no epoch operated under twice; what a failed start leaves is fenced off |
| Job queue and scheduler (`store.py`, `scheduler.py`) | `jobs` rows, the running `_execute` | submit, claim, stage, finish, fail, defer, cancel, interrupt | handlers and scheduler interleave between transactions, every step may raise, restarts | bounded queue, one job per key, one execution, immutable outcome, progress |
| Resource governor (`resources.py`) | `resource_leases` with the journalled throttles, `controller_quanta`, quarantine flag, last probe generation | acquire, verify, release, roll back, reconcile, take over | HTTP calls time out with unknown outcome, stale snapshots, several controllers, crash between journal and effect | one lease; no inference beside training; nothing admitted after an unverified release; training keeps its quantum |
| Training controller (`training_controller.py`) | authority file, state file, systemd unit, checkpoint receipt | set mode, take over, recover | crash between durable steps, late and repeated requests, the trainer runs meanwhile | a release holds and advances the checkpoint; a resume is exact; fences only advance |
| Artifact registry (`artifacts.py`) | object files, staging, `artifacts` rows | import, commit, resolve, clean | file and row written separately, quota, a second starter cleaning up | a row has its verified file; quota holds; live files stay |
| Resource probe (`resource_probe.py`, `cuda_memory_probe.py`) | durable generation | number, inventory, snapshot | restart, lost write, several readers and processes, a host that changes between two queries | generations advance; a clean snapshot hides nobody |
| Routing (`routing.py`) | none | compile, normalize, decide, simulate | a pure function with many rules, on hints that age | the decision is an installed, allowed route; a hint never admits |
| Executors (`executors.py`) | containers, subprocesses | plan, activate, execute, deactivate | time-outs, process groups | runtime gone when reported gone |
| HTTP front (`server.py`), contract, clients, file checks | request-local | | | |

Interactions: handlers write `jobs` rows and wake the scheduler; the scheduler
claims rows and calls the governor and the executor; the governor journals in
`resource_leases`, reads the probe and commands the controllers; the controllers
publish a state file that the probe includes in its snapshot; the governor
accepts a transition only when the probe shows it. `PROJECT.json` lists every
component with its status, and under `hazards` each place where the code is
exposed to something a test would hardly reach.

## 2. Plan

Modules in order, the most important behaviour first; (done) marks what exists.

1. `HostEpoch`, with `FencedOwner` as its abstract specification (done, proved).
2. `JobScheduler`, with `JobLifecycle` as its abstract specification (done, proved).
3. `TrainingController`, with `FencedController` as its abstract specification
   (done, proved).
4. `Governor`: the coordinator against N controllers that behave like
   `FencedController`, with a stop between any two calls (done, safety proved).
5. `ArtifactStore`: import, commit, quota, clean-up by a second starter (done,
   proved).
6. `ResourceProbe`, which uses `Routing` and has `GenerationCounter` as its
   abstract specification of the numbers: the inventory and the broker that
   samples it, from the hint of a plan to the lease (done, proved).
7. `TrainingQuanta`: `Governor` with time, from the mark of a restored training
   service to its next displacement (done, proved).
8. `LeaseLedger`: what the scheduler relies on and the governor keeps, with which the
   modules of the broker are composed (done, proved on both sides).
9. Left: memory admission, as an extension of `Governor`; the preemption loop, once
   an executor that can be preempted is installed.

Proofs: each module's type correctness and an inductive strengthening of its
safety invariants, the refinement of the abstract specifications, and that each
execution, handler and task is bounded in steps; done for the modules above. The
type invariants are theorems and no run repeats them.

How the modules fit together, each arrow a theorem:

```
HostEpoch -------------> FencedOwner      <------------ Governor (its process)
TrainingController ----> FencedController <------------ Governor (each controller)
JobScheduler ----------> LeaseLedger      <------------ Governor
JobScheduler ----------> JobLifecycle        TrainingQuanta -----> Governor
ResourceProbe ---------> GenerationCounter
```

So the epoch, the controllers and the leases that a module takes from another one are
not assumptions made for it alone: both sides are behaviours of one specification.

## 3. What is modelled

### HostEpoch (implements FencedOwner)

`phase[p]` is where process `p` is in `serve`: `Construct` (`Broker.__init__`),
`LockAcquired`/`LockRefused` (`ResourceCoordinator.start`), `ReadEpochFile`,
`BeginBrokerEpoch`, `ReplaceEpochFile`, `SyncDirectory`
(`_advance_host_epoch`, one action per durable effect), `Reconciled`
(`_reconcile_after_lock`, with its choice to quarantine), `LoopStarts` and
`ControlStarts` (the two thread starts of `Scheduler.start`), `StartFails` (the
except clauses of `ResourceCoordinator.start` and `Broker.start`, at any step that
may raise), `StopRequested`, `JoinSucceeds`/`JoinTimesOut` (`Scheduler.stop`),
`ThreadEnds`, `Exit`, `Crash` and `PowerLoss`. Each data root has its own
`storeEpoch`; the lock and the epoch file belong to the host. `epochDisk` is
what a power loss leaves of a replacement whose directory was not synced. SQLite
commits are durable (synchronous=FULL is the default the code leaves in place).

* When the control thread cannot be started, `Broker.start` gives the lock back
  (`server.py:229-231`) while the scheduler thread, started one line before
  (`scheduler.py:50-51`), lives and claims jobs. `serve` then exits and takes the
  daemon thread with it, but until it has, another process may start: the run has
  states in which two processes operate at once. `Abandoned` names such a process,
  `Owners` are the operators without it. `OperatorsAreFenced` says that there is no
  other exception and that the epoch of what was left behind is older than that of
  whoever operates beside it, so that a controller which has served the newer one
  refuses it. Neither the probe nor a GPU runtime checks an epoch.
* The repository says more: "The operating-system lock prevents two live broker
  processes using the same path from mutating GPU 0 concurrently"
  (`docs/RESOURCE-GOVERNOR.md:26-27`); and `ResourceCoordinator.acquire` does not
  check that the lock is held. `Scheduler.start` would have to set its stop flag and
  join the first thread before it raises, as `Scheduler.stop` does.
* `Governor`, `JobScheduler` and `ResourceProbe` model an owner, so their properties
  assume that no abandoned thread of an earlier start is still running beside it.

### JobScheduler (implements JobLifecycle)

A row of `jobs` is an index of `key`, `request`, `status`, `cancel`, `later`;
row numbers follow `created_at`. Every `Store` method is one action, because it
is one transaction. `pc` is where the scheduler thread is in `_execute`: one
value per call that can fail, block or be overtaken by a handler (`Validate`,
`Acquire`, `Activate`, `Verify`, `Execute`, `Deactivate`, `Release`, `Finish`,
then `Handle` for the except clauses and `Cleanup` for the finally clause).
`performed` and `releaseAttempted` are the method's local flags, `exc` the
exception being handled. A submission is two actions, `SubmitReceived`
(readiness) and `Submit` (transaction), so that everything else can come in
between. `HandlerFails` is SQLite failing inside an except clause: the exception
leaves `_execute` and ends the loop. `ProcessEnds` keeps only the store;
`ReconcileLeases` and `InterruptJobs` are the restart.

The lease table is reduced to the last lease of each job: none, active (which stands
for acquiring and releasing too, as they live inside one call), unknown or released; a
denied lease leaves no trace. Which calls the governor makes to get there is
`Governor`; that both keep the same books is `LeaseLedger`. `WaitOver` may happen at
any time except while a clean-up with nothing to release separates the deferral from
the next claim: the code waits a tenth of a second at least (`store.py:397`).

### ControllerFence and TrainingController (implements FencedController)

`ControllerFence` is the rule which request may follow a recorded state:
`_check_fence` and the comparison in `takeover`. `TrainingController` and
`Governor` use the same definitions. `FencedController` is the register a caller
sees: a request that may follow replaces the record at one instant.

One handler at a time holds `_lock`; `pc` is where it is between two durable
effects: journalled (`Accept`); for a release unit stopped (`StopUnit`) and
checkpoint verified (`CheckpointAccepted`); for a resume checkpoint compared
(`VerifyCheckpoint`), unit started (`StartUnit`) and found active (`ConfirmActive`);
authority recorded (`RecordAuthority`), state published (`PublishState`). The trainer
may publish or end between any two of them. The same steps serve
`_complete_set_mode`, `_complete_takeover` and recovery, as in the code. The
constructor is a handler without request; when it raises the process ends.
Any request of `Requests` may arrive at any time, any number of times. `Fail` is
any command, read or write that raises; `Crash` may end the process anywhere,
the unit keeps running or goes down with the host. A checkpoint is its number in
the order of publication; `Run` and `Content` give the receipt fields that are
compared, so a renamed copy of a checkpoint and a checkpoint of another run are
both in the instance. `committed`, `before` and `found` are history variables.

* A recovered resume may find its unit active, because it was started before the
  crash. Its trainer may then publish and end between the comparison of the receipt
  and `units.start`, and the unit starts from a checkpoint that nobody compared.
  `found` remembers what the comparison met, and `ResumesExactly` allows this case
  and no other: a trainer that was active at the comparison, and a later checkpoint.
  Without the exception TLC finds the case.
* A command that timed out is assumed to have taken effect by then or never;
  `systemctl start` could also take effect after the timeout (`training_controller.py:495`).

### Governor

The coordinator's `acquire`, `release`, `_restore_handle`,
`_recover_recorded_throttles` and `_reconcile_after_lock` against controllers that are
the register of `FencedController`. `ctl[c]` is what controller `c` recorded last,
`wire` the requests on their way. A row of `resource_leases` is an index of `status`,
`plan`, `throttle` (how many throttles are journalled) and `leaseEpoch`. `task` says
on whose behalf the process handles the last row (admission, service, rollback,
release, recovery), `pc` where it is: `Journal` writes the compensation into the row,
`Send` posts the request, `Observed` is the answer with the snapshot that confirms it,
`Admit` the last snapshot with the change of the row, `AbsenceVerified` the check
before a restoration. After one, `Verified` is the last snapshot, `MarkRestored` one
call of `mark_controller_normal` for each restored service, `Close` the change of the
row. `AdmissionFails` and `RestoreFails` are the except clauses, possible at every
step, as each of them can raise; `Stop` ends the process anywhere and `Start` is a
later epoch, not always the next one, as in between another data root may have
operated or a start may have failed (`HostEpoch`), with its reconciliation.

* A request is lost or refused (`Lose`), or served (`Serve`) at any later time, also
after its caller gave up or ended: up to `MaxLate` such requests travel on. `stray`
remembers the controllers whose last request was served that way. * Answer and
observation are one step: the broker goes on only when the probe shows a state with
the mutation, fence, epoch and generation of its request. What such a snapshot may be
taken for, and the order of the probe's own generations, is `ResourceProbe`. * All
leases are exclusive and displace at least one controller; lease modes `shared` and
`none` and memory figures are left out. A controller is active and healthy when its
mode is normal. * `Activate` is one step; the profile may run on after a failed
unload, or end by itself (`InferenceEnds`), and does not stop with the broker. *
SQLite is taken not to fail inside `acquire` and `release`. * Fences are numbers: 0
for the fence drawn with the lease (it belongs to the lease, whose identity is
compared as well), the epoch for the recovery fence.

### LeaseLedger

What `JobScheduler` sees of the coordinator, in three variables: a broker is up and
has reconciled, a lease was begun whose outcome is not recorded, the host is
quarantined. `Grant`, `Settle` and `LoseTrack` need an up and clean broker, `End`
leaves an open lease open, `Reconcile` settles it or quarantines. `Governor` and
`JobScheduler` each map their rows to it (`Ledger`); the scheduler counts as up with
the step of its restart that reconciles, the governor when its recovery is over.

### TrainingQuanta (implements Governor)

Each action is one of `Governor` with what it does to the table
`controller_quanta`: `DeferInsideQuantum` and `AcquireRested` are
`_enforce_training_quanta` before `create_resource_lease`, `MarkNormal` is
`_mark_restored_quanta` after a rollback, a release and a recovery. `rest[c]` is how
long ago `normal_since` was, `NoRow` before the first admission that asked for it;
`ran[c]` is a history variable, how long `c` has really been in its normal mode.
Both stop at the quantum, as nothing distinguishes longer times, so that no bound on
time is needed. `Tick` lets time pass between any two steps, also while the broker
is down.

* The wall clock that the code compares (`datetime.now`, `utc_now`) is taken to be
  monotone: a clock that is set forward ends a quantum early.
* The services are marked in the order of the journal, each in a step of its own, so
  that the process may end between two marks; the code goes through the policy.
* `QuantumIsKept` excepts a service in `stray`, for which the broker never knew of
  the displacement, and a displacement for a row that was closed (the known gap at
  the end of section 4). A late throttle of the row that is still open counts.

### ArtifactStore

An import is one file, renamed from `.staging` to its object name: `place[n]` says
where it is, `content[n]` whether it holds the declared bytes, `stamp[n]` stands
for the verification key (device, inode, size, times). `rows` are the committed
rows, `verified` the cache of the serving process. A thread (an upload handler or
the executor) goes through `Begin`, `Receive`, `Admit` (the checks of size, hash
and source, the quota lock, the quota), `Replace`, `SyncDirectory`, `Register`,
`Answer`, one action per durable effect; `Abort`, `RegisterFails` and
`AnswerFails` are the except clauses. A reader goes through `Open`, `CacheHit` or
`Hash`, and `Conclude`, while `Change` may alter the file between any two of them.
`Construct`, `QuarantineStaged`, `ReadKnown`, `ListObjects` and `QuarantineObject`
are `clean_staging`, which `Broker.__init__` runs before the host lock is tried
(`server.py:141`), so a second process may clean up under a running one before
`StartFails` or `Serve`. `End` and `PowerLoss` may come anywhere.

* Every change of bytes changes the verification key, and nobody but the importer
  writes a file whose import has not returned.
* What a clean-up that was not alone moved away is in the history variable
  `taken`, and the properties except it: the code does lose such imports, and even
  an object registered after the second process read the rows. `README.md:335-338`
  of the repository speaks of unregistered bytes only.
* An import that fails after the rename leaves an object without a row until the
  next start; `Swept` excepts those through `failed`.
* `End` takes the handlers of the process and the host lock away in one step. The
  code unlocks in `Broker.stop` and its daemon upload handlers end with the
  interpreter, some moments later (`server.py:233-240`, `554-556`). In between another
  process could serve beside an import that has passed its quota check; `QuotaHeld`
  assumes that none does.
* `SyncDirectory` is the `fsync` of the shard directory (`artifacts.py:170-176`). The
  entry of a new shard in `objects` is not synced by the code; the model takes it to
  survive with the shard.
* Uploads share one limit of slots (`MaxUploads`); with the one handler of the
  instance it never bites, and the proofs hold for any number of handlers.
* The executor that writes its sources into `.staging` itself is covered by
  `Abort`: a source that a clean-up moved makes its import fail.

### Routing, and ResourceProbe (implements GenerationCounter)

`Routing` is the pure part: `Candidates`, the sort key of each preference (`Rank`)
and `Decides`, which says of a route that `RoutingEngine.decide` takes it. What
`compile_routing_config` refuses is the assumption `RoutesAssumption`; a hint is a
normalised snapshot. The shipped probe reports neither latencies nor concurrency,
so in `ResourceProbe` these preferences rank by priority and identifier.

`ResourceProbe` puts four parties side by side. The host: runtimes that start and
stop, possibly with another identity, and processes that open and leave a GPU
context (`StartRuntime`, `StopRuntime`, `Launch`, `Exit`; external). The probe:
each request takes a number (`Lock`, `Replace`, `Sync`, one action per effect on
the generation file) and reads one thing after the other: each runtime
(`Inspect`), the compute processes (`QueryCompute`), all processes (`List`), the
control group and executable of each (`Attribute`), and the rest (`Finish`). Its
process is started, also a second time beside a running one, ends, or loses the
power of the host. The broker: threads that sample under
`_probe_generation_lock` (`Send`, `Accept`, `GiveUp`, `NoConnection`), for a
status, for the hint of a plan, and to admit the planned job (`Plan`, `Acquire`,
`Defer`, `Release`).

* `doubt` is any observability error and any unknown consumer: each unknown
  consumer is entered as an error too, and the broker closes admission on either.
  Memory figures, metrics and controller state files only matter as the doubt they
  may add in `Finish`.
* A request whose caller gave up goes on in the probe. As an inventory only reads,
  what is left of it is the number it takes (`Number` with no `asker`).
* `seen[c]` remembers who used the GPU at the moments since caller `c` asked; it is
  what `NothingHidden`, `ListedWasThere` and `LeaseIsGrounded` compare with. It is
  kept over the sample that admits a job and begins anew when the job is planned.
* A process id is not used again while a snapshot is taken, and a context that
  exists is shown by `nvidia-smi pmon`, while the compute query shows some of them.
* A container has one identity per creation; a process in the control group of a
  unit may execute anything.
* `Acquire` takes the last of the two samples of `acquire`; the controllers that
  may lie between them are in `Governor`.
* `docs/RESOURCE-PROBE.md` says an unhealthy runtime is never advertised as an
  active profile. `InspectUnhealthy` models what the code does (lines 551-578): an
  identity-verified unit that is active but not running is listed as active with
  health `unhealthy`, in a snapshot that is degraded and admits nothing.

## 4. Runs

| Run | Bounds | Shows |
|---|---|---|
| `host_epoch` | 2 processes, 2 roots, 4 epochs; symmetric in both | `OperatorsAreFenced` (one operator, but for what a failed start left behind), `UsedEpochIsDurable`, `EpochIsAgreed`, refinement of `FencedOwner` |
| `job_scheduler` | 2 rows, pending limit 1, 2 submissions in progress, 2 keys (symmetric), a request with a lease and one without, 1 end of the process | no claimed job left behind, queue limit, idempotency, one lease, completion only after release, refinement of `JobLifecycle` |
| `job_scheduler_live` | 2 rows, both pending, one kind of request with a lease, no end of the process | executions settle; the first job is claimed |
| `job_scheduler_cancel` | the same | finding: a cancelled job that is never ended |
| `job_scheduler_starvation` | the same | finding: a deferred job that starves the one behind it |
| `training_controller` | 8 requests over 3 leases and 3 epochs, 4 checkpoints, 1 crash, 1 failure | releases hold, advance, stand through failures and recover; exact resumes; fences advance; refinement of `FencedController` |
| `training_controller_resume` | the same, no failure | finding: an interrupted resume that is never recovered |
| `governor` | 2 controllers, the second with a quantum of 1, plans that displace both or the second, 3 leases, 2 restarts, 1 late request | no training beside inference; every release journalled; no fence between a displaced service and its restoration, nor before the first throttle of a plan; nothing displaced is forgotten; it returns, or the quarantine says so; it is displaced again only after its quantum; refinement of `LeaseLedger` |
| `governor_recovery` | the same with 2 leases | finding: the takeover after a takeover is refused |
| `governor_next_lease` | the same with 2 leases | finding: the second controller refuses the next lease |
| `artifact_store` | 2 processes, 1 handler, the executor, 1 reader, 3 imports of sizes 2, 1, 1 under a quota of 2, 1 change of a file, 1 end of a process; symmetric in processes and small imports | quota, rows and files, the cache, failed imports, the clean-up |
| `resource_probe` | a container profile with one identity and a unit with a certified and another one, 1 process id, 2 requests, 1 worker, 1 observer, 3 generations, 2 starts of the probe; symmetric in the requests | numbers that only grow and last; samples in order; nobody hidden; leases grounded; refinement of `GenerationCounter` |

Why the bounds are enough. Two processes are all that a mutual exclusion needs,
and two roots make their stores disagree; four epochs let an epoch be burnt by a
crash, used, lost with the power and used again. With the limit at one, both the
refusal and the admission of the second job happen, while the first one is
active, deferred, cancelled or finished; the two jobs never execute at the same
time, since there is one scheduler thread, so a second row is enough to see a
lease or a flag left over by the first. One restart reaches every recovery, as
recovery starts from the store alone. The requests of the training controller
contain each kind of conflict of `_check_fence`: same lease, other lease, older
epoch, newer epoch before and after the return to normal. Two controllers in
the governor's plan are the least in which one is displaced while the next one
fails; a plan with the second one alone lets the same controller be first in one
lease and second in another. Three leases over three epochs contain a lease that
follows a lease of the same epoch, one that follows a recovery, and a recovery
that follows an unfinished one; one late request is enough to overtake the lease
that gave it up, and the proofs need no bound. A quantum of one unit of time
distinguishes before and after its end; the first controller has none, as a service
that is no training has.

Three imports let one fill the quota or two share it, and a third be refused; the
upload and the executor are the two that compete for the quota lock, and one
reader races each of them, a change of the file and the clean-up. One end of a
process leaves every kind of leftover for the next clean-up. In the probe's
instance a runtime that starts, stops and returns under another identity, with one
process id that comes and goes, reaches each outcome of `Attribute`; two requests
are one that is waited for and one that was given up; a worker and an observer are
two callers that must be serialized; three generations are one that a power loss
takes back, one that is handed out and one after it. All of these properties are
proved without the bounds, as are those of the other passing runs but for the liveness
properties.

Deadlock is not checked where the system may stop: the scheduler runs end when
the process is down for good or its thread has ended and the rows are used up;
the governor's end when the leases and restarts are used up. It is checked in
`artifact_store` and `resource_probe`.

### Fairness

`JobScheduler`: the scheduler thread takes its next step (every call it makes
has a timeout), delays elapse, systemd restarts the process, and a job that is
the next to claim again and again is claimed (strong fairness: between a
deferral and the end of its delay lies a tenth of a second, while the loop
claims at once). Nothing is assumed of clients, signals or failures.
`TrainingController`: the holder of the lock takes its next step and systemd
restarts the process. Requests and the trainer are not fair.
`Governor`: the broker takes some next step, because every call it makes has a
timeout (`resources.py:471`), the window of an inference that displaces training
is bounded (`resources.py:909`) and systemd restarts it. Nothing is assumed of
the network, the controllers, the runtime and the clock: `TrainingReturns` therefore
allows the quarantine as an outcome. `FairQuantaSpec` is the same assumption with the
table of quanta, and the run's specification.

### Findings

1. `Store.defer` ignores a row whose cancellation was requested: the job stays
   `loading` until the next restart and occupies the queue
   (`job_scheduler_cancel`).
2. The delay of a deferral is computed before the finally clause deactivates and
   releases, so it may be over when the loop claims next, and jobs behind the
   deferred one wait for ever (`job_scheduler_starvation`).
3. A resume interrupted after `systemctl start` cannot be recovered once the
   trainer publishes its next checkpoint; the constructor fails at every restart
   (`training_controller_resume`).
4. The fence of a recovery is kept in memory while the row keeps the lease's first
   one. When a controller served a takeover and the broker did not get to close
   the row, the takeover of the next restart carries the old fence and is refused,
   at this and every later restart (`governor_recovery`).
5. The controllers of a lease are called with generations 1, 2, ..., but a
   controller accepts another lease of the same epoch only with generation 1: the
   second displaced controller refuses each lease after its first until the broker
   restarts. The rollback's request to it is refused likewise, and the host is
   quarantined (`governor_next_lease`).

A known gap that is not a disagreement with any document: a throttle its caller
gave up may be served after the rollback closed the row, when it is the first of
its lease (`training_controller.py:456` cannot tell it from a new lease). No row
then owes that service its restoration. `stray` marks these controllers, and
`TrainingIsOwed` and `TrainingReturns` except them; `TrainingAside` and
`JournalCovers` hold for them as well.

## 5. Proofs

`HostEpochProofs` proves, for any finite or infinite sets of processes and roots and
any bound: `TypeCorrect`, `OperatorsFenced`, `UsedEpochSurvives`, `OwnersEpochIsAgreed`
and `Refinement` (`Spec => Promise!Spec`). The inductive invariant adds to the
properties that a process in a phase of `Holding` holds the lock, that living threads
belong to a process that holds it or to one whose start failed, and how far the epoch
has been made durable in each phase; without the second part a join that times out
would not be known to keep the lock, without the third the epoch that becomes `lastUsed` would not be known to be on
the disk. `AgreedInv` follows the epoch of the lock's holder through the store's row,
the file and the disk up to the return of the lock; it rests on the lock too, as every
other start writes the same file. `FencedInv` keeps the epoch of every operator at or
below `lastUsed`, so that the next one to adopt an epoch is above whatever was left
behind. `OneOwner` gives mutual exclusion, and `SyncAcquires`/`OthersDoNotAcquire`
the two kinds of step the abstract specification has.

`JobSchedulerProofs` proves for any sets of keys and requests, any priorities, limits,
number of rows and restarts: `TypeCorrect`, `LeaseIsSole`, `CompletedReleased`,
`KeyNamesOneJob`, `PendingIsBounded`, `NobodyIsOrphaned`, `StartedOnce`, `Refinement`
(`Spec => Contract!Spec`), `LedgerIsKept` (`Spec => KeepsLedger`), `NextIsDetermined`
and `ExecutionEnds`. None of the lease properties is inductive. `Location` says that
the scheduler's job is a row and, until an except clause or the completion, an active
one, so that nobody else ends or requeues it; `Leases` says where a lease can be at
each step: on a row that needs one, with the running job from its admission to its
release, and not at `finishing`. `Acquire` keeps it because its guard saw every row
released, `Release` because it reaches `finishing` only with the lease gone, the
restart because nothing runs then. `KeysStep` and `PendingStep` show that only an
insertion adds to the keys and to the open jobs. The refinement rests on `Progress`,
which ties the number of starts to the status and to the thread's place: a deferral
that finds the execution not performed comes from before its start. Each step then
maps to a move or an end of one job (`MoveMaps`, `EndMaps`), a withdrawal, a restart,
or a stutter. `NobodyIsOrphaned` strengthens `NoOrphans` to the places where the
running job is already settled (`Adopted`), and `LedgerIsKept` rests on `Ledgered`,
which says when an open lease means that the thread is in its execution.
`NextIsDetermined` takes the first row of an order that `BeforeIsOrder` shows to be
total.

`TrainingControllerProofs` proves for every set of requests, history of
checkpoints and policy: `TypeCorrect`, `ReleaseIsHeld`, `ReleaseIsAdvance`,
`ObservedWasRecorded`, `ResumeIsExact`, `FencesAdvance`, `InterruptedReleaseIsKept`,
`HandlerReturns` and `Refinement` (`Spec => Interface!Spec`). Its invariant adds
what a handler has done at each place (`Handling`: after the stop the unit is down,
after the verification the receipt is still the verified one, and before
`units.start` it is the compared one unless a trainer was found active), what the journal
holds (`Journal`: the receipt the request found, and a request that the fence
checks let follow the recorded one) and that a recorded request counts as served.
The refinement shows the record before a transition until `RecordAuthority`, and
that step serves the journalled request, which `Journal` lets follow; a crash or a
recovery in between changes nothing that is shown.

`GovernorProofs` proves for any controllers, plans, leases, restarts and late
requests: `TypeCorrect`, `TrainingStaysAside`, `EveryReleaseJournalled`,
`NoTrainingForgotten`, `RestoresAreAccepted`, `FirstThrottleIsAccepted`,
`LedgerIsKept`, `ControllersAreFenced`, `BrokerIsOwner` and `EveryTaskEnds`.
`TrainingAside` is not inductive: that a service stays
released while inference runs needs `NoRestore` (no request that restores it for
this lease is on its way before the restoration begins), with which the fence
lets no other request replace the release (`StaysReleased`), and `Held` (what an
admission has gone through is released for its lease), which becomes
`TrainingAside` when the profile starts. `Messages` says that a throttle on its
way is already journalled, which makes `JournalCovers` inductive for requests
served late, too. `TrainingIsOwed` follows from it at the closing of a row, whose
last snapshot shows every journalled service normal, and `Restored` says they still
are when the row is closed, but for requests nobody waits for.

That a fence lets a restoration through is a fact about the request of the row in hand
and the last one its controller served, which may be an hour and two epochs apart. The
invariant ties both to the table: `Rows` gives the epochs of the rows, `Recorded` and
`Throttles` say of what a controller recorded, and of what is still on its way, which
row it was sent for and with which generation, `Settled` what is left of the rows that
are closed. A throttle's generation is its place in the plan and lies below
`Restoring`, a takeover has a later epoch: so whoever holds the lease is ahead of what
its controller has. The theorems say nothing of a controller that was taken over
before and not closed, nor of the second place of a plan: there the fence does refuse,
and the findings 4 and 5 show it.

`TrainingQuantaProofs` proves for any quanta, too: `QuantaImplement`
(`QuantaSpec => Spec`, so that the theorems above hold in time as well),
`QuantaTypesCorrect` and `QuantaAreKept` (`QuantaSpec => QuantumIsKept`). A
displacement comes long after the check that allowed it, so the invariant says what
is known in between. `TableIsHonest`: no service has a recorded rest longer than its
run, unless it is journalled in the open lease and not yet marked; as a row is open
until all its services are marked, no admission reads such a record.
`DisplacedRested`: what an admission has still to displace, or a throttle on its way
would still displace for the open lease, has had its quantum. The latter needs
`NoneAfterRestore`: once a restore or takeover was served the fence refuses every
throttle of that lease, because a throttle's generation is its place in the plan
(`Throttles`) and a recovery has a later epoch (`Rows`).

`ArtifactStoreProofs` proves for any processes, handlers, readers, imports, sizes
and limits: `TypeCorrect`, `QuotaIsHeld`, `RegisteredKeepsFile`, `CacheIsSound`,
`FailureRegistersNothing` and `ServesSwept`. The invariant adds to the properties
that one thread at a time is between the quota check and the answer (`Sole`), that
the import it admitted still fits (`Room`, which `QuotaHeld` alone would not give at
`Register`), where the file of an import is at each step of its thread, also under
a clean-up (`Kept`), what a clean-up that is alone has still to move (`Sweep`) and
what a reader's hash says of the file at the key it was read with (`Sound`). That
the usage grows by the size of the import (`UsageAdds`) is `SumAdds` below.

`ResourceProbeProofs` proves for any profiles, identities, processes, routes,
callers and requests: `TypeCorrect`, `NumbersOnlyGrow` (`Spec => Counter!Spec`),
`ServedStaysDurable`, `SamplesKeepAdvancing`, `HidesNothing`,
`ListsOnlyWhoWasThere`, `LeasesAreGrounded`, `ResidencyDecides`,
`DecisionIsDetermined` and `PlanIsDetermined`. `Numbers` says
that only the holder of the lock writes and what it writes follows what it read;
`Fresh` that a request with a number has a caller, and a number the broker has not
seen. `NothingHidden` speaks of the end of an inventory; inductive is `Accounted`:
from the list of all processes on there is a moment the sample has seen of which
each owner is either entered as active or stands for a listed process that is
still to be read and, if it is still there, belongs to that owner (`Covered`). The
moment is that of `List`; `Attribute` keeps it, because a process that left, or
is not what was certified, adds doubt. `Grounded` carries this through `Accept` to
`Acquire`. `ResidencyDecides` needs the order of the keys only: an active profile's
begins with 0, any other's with 1. `DecisionIsDetermined` needs all of it: the keys of
a preference are tuples of one length (`RankShape`), such tuples are totally ordered
by their first difference (`LexicographicIsOrder`), and two routes differ in their
last component at the latest, which is why compilation has to refuse a table with an
identifier twice (`RoutesAssumption`). Its hypothesis on a hint is that metrics are
integers; the code also takes a decimal latency, which no theorem here covers.

`FiniteInduction` has what these proofs share: a strict order on a finite set has a
first element (`FirstElement`), and a sum grows by the element that is added
(`SumAdds`). Both are inductions over finite sets, which no installed prover does. They
are had from the library's theorem that strict inclusion among the subsets of a finite
set is well-founded: a counterexample would have a least one. A sum is first shown to
be a cardinality (`SumCounts`), since the fold that defines it takes the elements in an
order of its own.

### Progress: what is proved of it and what is not

`ExecutionEnds`, `HandlerReturns` and `EveryTaskEnds` are the part of liveness that
needs no fairness. Each gives a number (`Work`) that every step of the activity
lowers, a failing one included, and that nothing raises but the beginning of a new
one: the claim of a job, the taking of the lock, an admission or a restart.
Whatever clients, controllers and the trainer do meanwhile, the
scheduler thread and the lock's holder are done after at most 12 steps each, the
coordinator after as many as the plan gives. That they take these steps is
the fairness of section 4, and what then follows is TLC's.
`InterruptedReleaseIsKept` is in the same way the safe half of
`InterruptedReleaseRecovers`.

Only model-checked: the liveness properties (TLAPS has no rule for fairness and
ENABLED): `ClaimedSettles`, `FirstIsClaimed`,
`InterruptedReleaseRecovers` and `TrainingReturns`, and the five findings, which
are runs.

## 6. Not modelled, and why

The clients, the JSON contract, authentication and file-permission checks are
request-local and keep no state. Containers, process groups and model endpoints
are I/O whose outcomes the scheduler model enumerates. Job events, timestamps
and attempt counters are derived from the transitions. Of the governor, memory
figures and shared leases with displaced controllers are left out (section 3). The
loop that
asks a running job to yield (`scheduler.py:107-152`) never does so with the installed
executors: none of them declares the preemption mode `checkpoint`, and a yielded
result is refused by protocol 1.0 (`scheduler.py:198-203`). Of routing, the digest of
a configuration, the wording of its errors and the offline simulation are left out;
of the probe, the parsing of its policy and of controller state files. Shell scripts
and units appear only as the restart by systemd.
