------------------------------- MODULE HostEpoch -------------------------------
(***************************************************************************)
(* Who may operate the host's GPU.  Several broker processes (production,  *)
(* canary, an accidental second start) share one lock file and one epoch   *)
(* file; each works on a data root with a SQLite store of its own.         *)
(*                                                                         *)
(*   resources.py  ResourceCoordinator.start / _reconcile_after_lock /     *)
(*                 _advance_host_epoch / stop                              *)
(*   store.py      Store.begin_broker_epoch                                *)
(*   server.py     Broker.start / Broker.stop, serve                       *)
(*   scheduler.py  Scheduler.start / stop (the threads and their join)     *)
(*                                                                         *)
(* The epoch is advanced in four steps a crash can separate: read the      *)
(* file, commit the store's row, os.replace the file, fsync its directory. *)
(* A power loss may undo a replace whose directory was not synced yet.     *)
(***************************************************************************)
EXTENDS Integers

CONSTANTS
  Processes,  \* processes that may be started on the host
  Roots,      \* data roots, each with a store
  NoProcess,  \* the lock is free
  MaxEpoch    \* bound: no store begins an epoch above it

ASSUME NoProcessAssumption == NoProcess \notin Processes
ASSUME MaxEpochAssumption == MaxEpoch \in Nat

VARIABLES
  phase,       \* where in serve() each process is
  root,        \* the data root each process was configured with
  previous,    \* the number _advance_host_epoch read from the epoch file
  epoch,       \* the epoch begin_broker_epoch returned
  threads,     \* the scheduler's live threads: its loop and its control loop
  lock,        \* holder of the flock, or NoProcess
  epochFile,   \* content of the epoch file
  epochDisk,   \* content a power loss leaves
  storeEpoch,  \* row of broker_epochs in each store, 0 when there is none
  lastUsed     \* history: greatest epoch a process reconciled or served under

vars == <<phase, root, previous, epoch, threads, lock, epochFile, epochDisk,
          storeEpoch, lastUsed>>
files == <<epochFile, epochDisk, storeEpoch>>

Phases == {"down", "constructed", "locked", "read", "begun", "replaced",
           "reconciling", "cleaning", "starting", "serving", "quarantined",
           "stopping", "stopped", "retained", "failed"}

\* Phases in which the process has the lock (its _lock_handle is not None).
Holding == Phases \ {"down", "constructed", "stopped", "failed"}

\* Broker.start's phases: an exception in any of them unlocks and ends serve().
Starting == {"locked", "read", "begun", "replaced", "reconciling", "cleaning", "starting"}

TypeOK ==
  /\ phase \in [Processes -> Phases]
  /\ root \in [Processes -> Roots]
  /\ previous \in [Processes -> Nat]
  /\ epoch \in [Processes -> Nat]
  /\ threads \in [Processes -> SUBSET {"loop", "control"}]
  /\ lock \in Processes \cup {NoProcess}
  /\ epochFile \in Nat
  /\ epochDisk \in Nat
  /\ storeEpoch \in [Roots -> Nat]
  /\ lastUsed \in Nat

Init ==
  /\ phase = [p \in Processes |-> "down"]
  /\ root \in [Processes -> Roots]
  /\ previous = [p \in Processes |-> 0]
  /\ epoch = [p \in Processes |-> 0]
  /\ threads = [p \in Processes |-> {}]
  /\ lock = NoProcess
  /\ epochFile = 0
  /\ epochDisk = 0
  /\ storeEpoch = [r \in Roots |-> 0]
  /\ lastUsed = 0

Goto(p, from, to) ==
  /\ phase[p] \in from
  /\ phase' = [phase EXCEPT ![p] = to]

--------------------------------------------------------------------------------
(* Starting *)

\* serve: Broker(config) on a data root.  Nothing of the host is locked yet.
Construct(p, r) ==
  /\ Goto(p, {"down"}, "constructed")
  /\ root' = [root EXCEPT ![p] = r]
  /\ previous' = [previous EXCEPT ![p] = 0]
  /\ epoch' = [epoch EXCEPT ![p] = 0]
  /\ UNCHANGED <<threads, lock, files, lastUsed>>

\* ResourceCoordinator.start: flock(LOCK_EX | LOCK_NB) succeeds ...
LockAcquired(p) ==
  /\ Goto(p, {"constructed"}, "locked")
  /\ lock = NoProcess
  /\ lock' = p
  /\ UNCHANGED <<root, previous, epoch, threads, files, lastUsed>>

\* ... or another process has it: RuntimeError ends serve().
LockRefused(p) ==
  /\ Goto(p, {"constructed"}, "down")
  /\ lock # NoProcess
  /\ UNCHANGED <<root, previous, epoch, threads, lock, files, lastUsed>>

\* _advance_host_epoch: read the file (a missing file reads as 0).
ReadEpochFile(p) ==
  /\ Goto(p, {"locked"}, "read")
  /\ previous' = [previous EXCEPT ![p] = epochFile]
  /\ UNCHANGED <<root, epoch, threads, lock, files, lastUsed>>

\* Mutant: the store counts its own starts and ignores minimum_epoch.
MutantBeginBrokerEpoch(p) ==
  LET new == storeEpoch[root[p]] + 1
  IN  /\ Goto(p, {"read"}, "begun")
      /\ new <= MaxEpoch
      /\ storeEpoch' = [storeEpoch EXCEPT ![root[p]] = new]
      /\ epoch' = [epoch EXCEPT ![p] = new]
      /\ UNCHANGED <<root, previous, threads, lock, epochFile, epochDisk, lastUsed>>

\* begin_broker_epoch(minimum_epoch = previous + 1), one immediate transaction.
BeginBrokerEpoch(p) ==
  LET row == storeEpoch[root[p]]
      new == IF row + 1 > previous[p] + 1 THEN row + 1 ELSE previous[p] + 1
  IN  /\ Goto(p, {"read"}, "begun")
      /\ new <= MaxEpoch
      /\ storeEpoch' = [storeEpoch EXCEPT ![root[p]] = new]
      /\ epoch' = [epoch EXCEPT ![p] = new]
      /\ UNCHANGED <<root, previous, threads, lock, epochFile, epochDisk, lastUsed>>

\* Mutant: the file gets the number after the one that was read.
MutantReplaceEpochFile(p) ==
  /\ Goto(p, {"begun"}, "replaced")
  /\ epochFile' = previous[p] + 1
  /\ UNCHANGED <<root, previous, epoch, threads, lock, epochDisk, storeEpoch, lastUsed>>

\* The temporary file, written and synced, takes the epoch file's name.
ReplaceEpochFile(p) ==
  /\ Goto(p, {"begun"}, "replaced")
  /\ epochFile' = epoch[p]
  /\ UNCHANGED <<root, previous, epoch, threads, lock, epochDisk, storeEpoch, lastUsed>>

\* Mutant: the epoch is adopted without the directory's fsync.
MutantSyncDirectory(p) ==
  /\ Goto(p, {"replaced"}, "reconciling")
  /\ lastUsed' = epoch[p]
  /\ UNCHANGED <<root, previous, epoch, threads, lock, files>>

\* fsync of the directory returns and the coordinator adopts the epoch: from
\* here on _reconcile_after_lock takes over stale leases under it.
SyncDirectory(p) ==
  /\ Goto(p, {"replaced"}, "reconciling")
  /\ epochDisk' = epochFile
  /\ lastUsed' = epoch[p]
  /\ UNCHANGED <<root, previous, epoch, threads, lock, epochFile, storeEpoch>>

\* Reconciliation leaves the host clean, or some stale lease quarantines it.
Reconciled(p) ==
  /\ \/ Goto(p, {"reconciling"}, "cleaning")
     \/ Goto(p, {"reconciling"}, "quarantined")
  /\ UNCHANGED <<root, previous, epoch, threads, lock, files, lastUsed>>

\* Broker.start: crash leftovers are cleaned up, then the scheduler thread starts
\* and may claim a job at once.
LoopStarts(p) ==
  /\ Goto(p, {"cleaning"}, "starting")
  /\ threads' = [threads EXCEPT ![p] = @ \cup {"loop"}]
  /\ UNCHANGED <<root, previous, epoch, lock, files, lastUsed>>

\* The control thread follows; without it, or without the loop, start() raises.
ControlStarts(p) ==
  /\ Goto(p, {"starting"}, "serving")
  /\ threads' = [threads EXCEPT ![p] = @ \cup {"control"}]
  /\ UNCHANGED <<root, previous, epoch, lock, files, lastUsed>>

\* An exception while starting: coordinator.stop() unlocks and serve() is on its
\* way out.  Nobody stops or joins a scheduler thread that has started.
StartFails(p) ==
  /\ Goto(p, Starting, "failed")
  /\ lock' = NoProcess
  /\ UNCHANGED <<root, previous, epoch, threads, files, lastUsed>>

--------------------------------------------------------------------------------
(* Stopping *)

\* _loop or _control_loop returns: an escaped exception, or the stop flag that the
\* other loop or Scheduler.stop has set.
ThreadEnds(p, t) ==
  /\ t \in threads[p]
  /\ threads' = [threads EXCEPT ![p] = @ \ {t}]
  /\ UNCHANGED <<phase, root, previous, epoch, lock, files, lastUsed>>

\* SIGTERM or SIGINT: serve_forever returns and Broker.stop begins.
StopRequested(p) ==
  /\ Goto(p, {"serving", "quarantined"}, "stopping")
  /\ UNCHANGED <<root, previous, epoch, threads, lock, files, lastUsed>>

\* Scheduler.stop joined both threads: coordinator.stop() unlocks.
JoinSucceeds(p) ==
  /\ Goto(p, {"stopping"}, "stopped")
  /\ threads[p] = {}
  /\ lock' = NoProcess
  /\ UNCHANGED <<root, previous, epoch, threads, files, lastUsed>>

\* Mutant: Broker.stop unlocks although a thread is still alive.
MutantJoinTimesOut(p) ==
  /\ Goto(p, {"stopping"}, "retained")
  /\ threads[p] # {}
  /\ lock' = NoProcess
  /\ UNCHANGED <<root, previous, epoch, threads, files, lastUsed>>

\* The join timed out: Scheduler.stop raises and the lock is retained.
JoinTimesOut(p) ==
  /\ Goto(p, {"stopping"}, "retained")
  /\ threads[p] # {}
  /\ UNCHANGED <<root, previous, epoch, threads, lock, files, lastUsed>>

\* What the operating system does when a process is gone: its threads are dead
\* before its descriptors, and with them its lock, are closed.
Gone(p) ==
  /\ threads' = [threads EXCEPT ![p] = {}]
  /\ lock' = IF lock = p THEN NoProcess ELSE lock

Exit(p) ==
  /\ Goto(p, {"stopped", "retained", "failed"}, "down")
  /\ Gone(p)
  /\ UNCHANGED <<root, previous, epoch, files, lastUsed>>

Crash(p) ==
  /\ Goto(p, Phases \ {"down"}, "down")
  /\ Gone(p)
  /\ UNCHANGED <<root, previous, epoch, files, lastUsed>>

\* Every process dies; a replace that was not synced yet may be undone.
PowerLoss ==
  /\ phase' = [p \in Processes |-> "down"]
  /\ threads' = [p \in Processes |-> {}]
  /\ lock' = NoProcess
  /\ epochFile' \in {epochFile, epochDisk}
  /\ epochDisk' = epochFile'
  /\ UNCHANGED <<root, previous, epoch, storeEpoch, lastUsed>>

ProcessNext(p) ==
  \/ \E r \in Roots : Construct(p, r)
  \/ LockAcquired(p)
  \/ LockRefused(p)
  \/ ReadEpochFile(p)
  \/ BeginBrokerEpoch(p)
  \/ ReplaceEpochFile(p)
  \/ SyncDirectory(p)
  \/ Reconciled(p)
  \/ LoopStarts(p)
  \/ ControlStarts(p)
  \/ StartFails(p)
  \/ \E t \in {"loop", "control"} : ThreadEnds(p, t)
  \/ StopRequested(p)
  \/ JoinSucceeds(p)
  \/ JoinTimesOut(p)
  \/ Exit(p)
  \/ Crash(p)

Next == (\E p \in Processes : ProcessNext(p)) \/ PowerLoss

Spec == Init /\ [][Next]_vars

--------------------------------------------------------------------------------
(* Properties *)

\* The process may be changing host state: it reconciles stale leases, removes
\* crash leftovers, is starting its scheduler, or has one that may run a job.
Operates(p) == phase[p] \in {"reconciling", "cleaning", "starting"} \/ threads[p] # {}

Operators == {p \in Processes : Operates(p)}

\* The scheduler thread had started when the start of the control thread failed:
\* Broker.start gave the lock back, and the thread lives until the process exits.
Abandoned(p) == phase[p] = "failed" /\ threads[p] # {}

\* The operators that have not given the host up.
Owners == {p \in Operators : ~Abandoned(p)}

\* One host, one operator, also while one of them is shutting down with a job
\* still running (Scheduler.stop keeps the lock when its join times out).  The only
\* process that may operate beside another one was abandoned by its own start, and
\* its epoch is older: controllers that heard of the other one refuse it.
OperatorsAreFenced ==
  \A p, q \in Operators :
    p # q => \/ Abandoned(p) /\ epoch[p] < epoch[q]
             \/ Abandoned(q) /\ epoch[q] < epoch[p]

\* A power loss never brings back an epoch file older than an epoch that some
\* process already operated under: the directory is synced before it is used.
UsedEpochIsDurable == lastUsed <= epochDisk

\* While a process owns the host, its store, the epoch file and the disk agree on
\* its epoch: no other start, on whatever root, has moved one of them since, so its
\* leases carry the newest epoch of the host, although abandoned threads and
\* failing starts act beside it.
EpochIsAgreed ==
  \A p \in Owners :
    /\ epoch[p] = storeEpoch[root[p]]
    /\ epoch[p] = epochFile
    /\ epoch[p] = epochDisk
    /\ epoch[p] = lastUsed

\* The lock, the epoch file and the stores together implement FencedOwner: one
\* owner at a time, and every process that starts to operate does so under an
\* epoch greater than every epoch operated under before, whatever its own data
\* root last saw and wherever earlier starts crashed.  A start that fails gives
\* the host up, also when it leaves a thread behind.
Promise == INSTANCE FencedOwner WITH owners <- Owners, lastEpoch <- lastUsed
Implements == Promise!Spec
================================================================================
