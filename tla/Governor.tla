-------------------------------- MODULE Governor -------------------------------
(***************************************************************************)
(* The resource coordinator of the broker (resources.py) against the       *)
(* lifecycle controllers of the training services it displaces: admission, *)
(* rollback, release, quarantine, and the reconciliation of a lease that   *)
(* an earlier process left open.                                           *)
(*                                                                         *)
(* A controller is the register of FencedController, which                 *)
(* TrainingController implements; between broker and controller is HTTP: a *)
(* request is lost, or refused, or served after its caller gave up, and an *)
(* answer may not arrive.  The broker believes an answer only when the     *)
(* probe shows the same state, so answer and observation are one step.     *)
(*                                                                         *)
(* Leases are numbered in the order of their rows; one lease is open at a  *)
(* time.  All of them are exclusive and displace at least one controller.  *)
(* The fence of lease l is 0; the recovery fence of broker epoch e is e.   *)
(***************************************************************************)
EXTENDS ControllerFence, FiniteSets, Sequences

CONSTANTS
  Controllers,  \* the configured controllers
  Displaces,    \* what a plan may displace: sequences of controllers, in order of priority
  MaxLeases,    \* bound: rows of resource_leases
  MaxEpochs,    \* bound: starts of the broker
  MaxLate       \* bound: requests that travel on after their caller gave up

ASSUME ControllersAssumption ==
  /\ Displaces \subseteq Seq(Controllers)
  /\ \A p \in Displaces :
       /\ p # <<>>
       /\ \A i, j \in DOMAIN p : p[i] = p[j] => i = j
ASSUME BoundsAssumption == MaxLeases \in Nat /\ MaxEpochs \in Nat \ {0} /\ MaxLate \in Nat

Leases == 1 .. MaxLeases
Ended == {"released", "denied"}
Open == {"acquiring", "active", "releasing", "unknown"}

VARIABLES
  ctl,         \* what each controller recorded last
  wire,        \* requests on their way, with their addressee
  lease,       \* number of rows; the last one is the lease in hand
  status,      \* status of each row, "none" for a row that does not exist
  plan,        \* the controllers each lease displaces
  throttle,    \* how many of them its row has journalled
  epoch,       \* broker epoch of the process
  leaseEpoch,  \* the epoch each lease was created in
  quarantined, \* _quarantine_reason is set
  task,        \* what the process does with the lease in hand
  pc,          \* where it is
  step,        \* the controller it is at, an index of plan
  inference,   \* the lease under which the inference profile runs, 0 if it does not
  stray        \* history: controllers whose last request came after its caller gave up

vars == <<ctl, wire, lease, status, plan, throttle, epoch, leaseEpoch, quarantined,
          task, pc, step, inference, stray>>
controllers == <<ctl, stray>>
rows == <<lease, status, plan, throttle, leaseEpoch>>
process == <<epoch, quarantined>>
thread == <<task, pc, step>>

\* The tasks that bring controllers back to normal.
Restorations == {"rollback", "release", "recover"}

\* Generations: a throttle has its place in the plan; restores come after all of them.
Restoring == 1000000

\* Mutant: the numbering goes on from lease to lease.
MutantThrottle(l) ==
  [kind |-> "mode", lease |-> l, fence |-> 0, recovery |-> 0, epoch |-> leaseEpoch[l],
   generation |-> l + step - 1, mode |-> "released"]

Throttle(l) ==
  [kind |-> "mode", lease |-> l, fence |-> 0, recovery |-> 0, epoch |-> leaseEpoch[l],
   generation |-> step, mode |-> "released"]
Restore(l) ==
  [kind |-> "mode", lease |-> l, fence |-> 0, recovery |-> 0, epoch |-> leaseEpoch[l],
   generation |-> Restoring + step, mode |-> "normal"]

\* Mutant: the takeover names its own fence as the one of the lease.
MutantTakeover(l) ==
  [kind |-> "takeover", lease |-> l, fence |-> epoch, recovery |-> epoch, epoch |-> epoch,
   generation |-> Restoring + (throttle[l] - step + 1), mode |-> "normal"]

Takeover(l) ==
  [kind |-> "takeover", lease |-> l, fence |-> 0, recovery |-> epoch, epoch |-> epoch,
   generation |-> Restoring + (throttle[l] - step + 1), mode |-> "normal"]

\* The request of the step at hand.
Current ==
  [to |-> plan[lease][step],
   request |-> CASE task = "admit" -> Throttle(lease)
                 [] task \in {"rollback", "release"} -> Restore(lease)
                 [] task = "recover" -> Takeover(lease)]
Awaited == IF pc = "await" THEN {Current} ELSE {}

Mode(c) == IF ctl[c] = Absent THEN "normal" ELSE ctl[c].request.mode
ReleasedFor(c, l) == Mode(c) = "released" /\ ctl[c].request.lease = l

Requests ==
  [kind : {"mode", "takeover"}, lease : Leases, fence : {0}, recovery : 0 .. MaxEpochs,
   epoch : 0 .. MaxEpochs, generation : Nat, mode : {"normal", "released"}]

ControllerTypes ==
  /\ \A c \in Controllers :
       \/ ctl[c] = Absent
       \/ ctl[c].request \in Requests /\ ctl[c] = [request |-> ctl[c].request]
  /\ DOMAIN ctl = Controllers
  /\ wire \subseteq [to : Controllers, request : Requests]
  /\ stray \subseteq Controllers

RowTypes ==
  /\ lease \in 0 .. MaxLeases
  /\ status \in [Leases -> Open \cup Ended \cup {"none"}]
  /\ \A l \in Leases : status[l] = "none" <=> l > lease
  /\ plan \in [Leases -> Displaces \cup {<<>>}]
  /\ \A l \in Leases : plan[l] = <<>> <=> l > lease
  /\ throttle \in [Leases -> Nat]
  /\ \A l \in Leases : throttle[l] <= Len(plan[l])
  /\ leaseEpoch \in [Leases -> 0 .. MaxEpochs]

\* Whoever handles a lease handles the last row, which is open; the controller
\* it is at is one of the plan and, when restoring, of the journal.
ThreadTypes ==
  /\ epoch \in 0 .. MaxEpochs
  /\ task \in {"none", "admit", "serve"} \cup Restorations
  /\ task = "none" => pc \in {"down", "idle"}
  /\ task = "admit" => pc \in {"journal", "send", "await", "confirm"}
  /\ task = "serve" => pc = "active"
  /\ task \in Restorations => pc \in {"absence", "send", "await", "confirm", "mark"}
  /\ task # "none" => lease > 0 /\ status[lease] \in Open
  /\ step \in Nat
  /\ pc \in {"journal", "send", "await"} => step \in DOMAIN plan[lease]
  /\ task \in Restorations => step <= throttle[lease]

TypeOK ==
  /\ ControllerTypes /\ RowTypes /\ ThreadTypes
  /\ quarantined \in BOOLEAN
  /\ inference \in 0 .. lease

Init ==
  /\ ctl = [c \in Controllers |-> Absent]
  /\ wire = {}
  /\ lease = 0
  /\ status = [l \in Leases |-> "none"]
  /\ plan = [l \in Leases |-> <<>>]
  /\ throttle = [l \in Leases |-> 0]
  /\ epoch = 0
  /\ leaseEpoch = [l \in Leases |-> 0]
  /\ quarantined = FALSE
  /\ task = "none" /\ pc = "down" /\ step = 0
  /\ inference = 0
  /\ stray = {}

--------------------------------------------------------------------------------
(* The controllers *)

\* A controller serves a request that may follow what it recorded.
Serve(m) ==
  /\ m \in wire
  /\ MayFollow(m.request, ctl[m.to])
  /\ ctl' = [ctl EXCEPT ![m.to] = [request |-> m.request]]
  /\ wire' = wire \ {m}
  /\ stray' = IF m \in Awaited THEN stray \ {m.to} ELSE stray \cup {m.to}
  /\ UNCHANGED <<rows, process, thread, inference>>

\* A request is lost, refused, or fails at its controller.
Lose(m) ==
  /\ m \in wire
  /\ wire' = wire \ {m}
  /\ UNCHANGED <<controllers, rows, process, thread, inference>>

--------------------------------------------------------------------------------
(* Admission: acquire *)

\* No admission while a row is open or after an unknown outcome.
StartAcquire(p) ==
  /\ pc = "idle" /\ ~quarantined
  /\ lease < MaxLeases
  /\ \A l \in Leases : status[l] \notin Open
  /\ lease' = lease + 1
  /\ status' = [status EXCEPT ![lease'] = "acquiring"]
  /\ plan' = [plan EXCEPT ![lease'] = p]
  /\ leaseEpoch' = [leaseEpoch EXCEPT ![lease'] = epoch]
  /\ task' = "admit" /\ pc' = "journal" /\ step' = 1
  /\ UNCHANGED <<controllers, wire, throttle, process, inference>>

\* Mutant: the request is sent without its compensation in the journal.
MutantJournal ==
  /\ pc = "journal"
  /\ pc' = "send"
  /\ UNCHANGED <<controllers, wire, rows, process, task, step, inference>>

\* The compensating action is journalled before the request is sent.
Journal ==
  /\ pc = "journal"
  /\ throttle' = [throttle EXCEPT ![lease] = step]
  /\ pc' = "send"
  /\ UNCHANGED <<controllers, wire, lease, status, plan, leaseEpoch, process, task, step,
                 inference>>

Send ==
  /\ pc = "send"
  /\ wire' = wire \cup {Current}
  /\ pc' = "await"
  /\ UNCHANGED <<controllers, rows, process, task, step, inference>>

\* The controller acknowledged and the probe shows its state; throttles go
\* through the plan, restores and takeovers backwards through the journal.
Observed ==
  /\ pc = "await"
  /\ ctl[Current.to] = [request |-> Current.request]
  /\ IF task = "admit"
     THEN IF step < Len(plan[lease])
          THEN step' = step + 1 /\ pc' = "journal"
          ELSE pc' = "confirm" /\ UNCHANGED step
     ELSE IF step > 1
          THEN step' = step - 1 /\ pc' = "send"
          ELSE pc' = "confirm" /\ UNCHANGED step
  /\ UNCHANGED <<controllers, wire, rows, process, task, inference>>

\* The snapshot after the last throttle: no other inference profile is active,
\* and memory suffices.
Admit ==
  /\ pc = "confirm" /\ task = "admit"
  /\ inference = 0
  /\ status' = [status EXCEPT ![lease] = "active"]
  /\ task' = "serve" /\ pc' = "active"
  /\ UNCHANGED <<controllers, wire, lease, plan, throttle, leaseEpoch, process, step,
                 inference>>

\* The executor starts the runtime of the selected profile.
Activate ==
  /\ pc = "active"
  /\ inference' = lease
  /\ UNCHANGED <<controllers, wire, rows, process, thread>>

\* The runtime was unloaded, or ended by itself; a failed unload never does this.
InferenceEnds ==
  /\ inference # 0
  /\ inference' = 0
  /\ UNCHANGED <<controllers, wire, rows, process, thread>>

--------------------------------------------------------------------------------
(* Rollback, release and recovery *)

\* Mutant: controllers are restored without a look at the profile.
MutantStartRelease ==
  /\ pc = "active"
  /\ status' = [status EXCEPT ![lease] = "releasing"]
  /\ task' = "release" /\ pc' = "send" /\ step' = throttle[lease]
  /\ UNCHANGED <<controllers, wire, lease, plan, throttle, leaseEpoch, process, inference>>

\* release, called by the scheduler
StartRelease ==
  /\ pc = "active"
  /\ status' = [status EXCEPT ![lease] = "releasing"]
  /\ task' = "release" /\ pc' = "absence" /\ step' = throttle[lease]
  /\ UNCHANGED <<controllers, wire, lease, plan, throttle, leaseEpoch, process, inference>>

\* The profile of the lease is proved absent before anything is restored.
AbsenceVerified ==
  /\ pc = "absence"
  /\ inference = 0
  /\ pc' = IF step > 0 THEN "send" ELSE "confirm"
  /\ UNCHANGED <<controllers, wire, rows, process, task, step, inference>>

\* The last snapshot shows the restored services active, and for a release or
\* a recovery the profile still absent.
Verified ==
  /\ pc = "confirm" /\ task \in Restorations
  /\ \A i \in 1 .. throttle[lease] : Mode(plan[lease][i]) = "normal"
  /\ task # "rollback" => inference = 0
  /\ pc' = "mark" /\ step' = throttle[lease]
  /\ UNCHANGED <<controllers, wire, rows, process, task, inference>>

\* The restored services are marked one by one; TrainingQuanta says with what.
MarkRestored ==
  /\ pc = "mark" /\ step > 0
  /\ step' = step - 1
  /\ UNCHANGED <<controllers, wire, rows, process, task, pc, inference>>

\* Mutant: the lease is closed once the profile is absent.
MutantClose ==
  /\ pc = "send" /\ task \in Restorations
  /\ status' = [status EXCEPT ![lease] = IF task = "rollback" THEN "denied" ELSE "released"]
  /\ task' = "none" /\ pc' = "idle" /\ step' = 0
  /\ UNCHANGED <<controllers, wire, lease, plan, throttle, leaseEpoch, process, inference>>

\* The row is closed.
Close ==
  /\ pc = "mark" /\ step = 0
  /\ status' = [status EXCEPT ![lease] = IF task = "rollback" THEN "denied" ELSE "released"]
  /\ task' = "none" /\ pc' = "idle" /\ step' = 0
  /\ UNCHANGED <<controllers, wire, lease, plan, throttle, leaseEpoch, process, inference>>

--------------------------------------------------------------------------------
(* Failures *)

\* A caller that gives up does not take its request back; MaxLate bounds how
\* many travel on.
GivenUp == {w \in {wire, wire \ Awaited} : Cardinality(w) <= MaxLate}

\* Anything in acquire fails: refused, timed out, not observed, no capacity.
AdmissionFails ==
  /\ task = "admit"
  /\ wire' \in GivenUp
  /\ task' = "rollback"
  /\ pc' = IF throttle[lease] > 0 THEN "absence" ELSE "confirm"
  /\ step' = throttle[lease]
  /\ UNCHANGED <<controllers, rows, process, inference>>

\* Mutant: an unverified release leaves the host open for admissions.
MutantRestoreFails ==
  /\ task \in Restorations
  /\ wire' \in GivenUp
  /\ status' = [status EXCEPT ![lease] = "unknown"]
  /\ task' = "none" /\ pc' = "idle" /\ step' = 0
  /\ UNCHANGED <<controllers, lease, plan, throttle, leaseEpoch, process, inference>>

\* Anything in a restoration fails: the outcome is unknown, the host quarantined.
RestoreFails ==
  /\ task \in Restorations
  /\ wire' \in GivenUp
  /\ status' = [status EXCEPT ![lease] = "unknown"]
  /\ quarantined' = TRUE
  /\ task' = "none" /\ pc' = "idle" /\ step' = 0
  /\ UNCHANGED <<controllers, lease, plan, throttle, leaseEpoch, epoch, inference>>

\* The process ends; the profile and the controllers go on.
Stop ==
  /\ pc # "down" /\ epoch < MaxEpochs
  /\ wire' \in GivenUp
  /\ quarantined' = FALSE
  /\ task' = "none" /\ pc' = "down" /\ step' = 0
  /\ UNCHANGED <<controllers, rows, epoch, inference>>

\* Mutant: only an active lease is reconciled.
MutantStart ==
  /\ pc = "down"
  /\ epoch' \in epoch + 1 .. MaxEpochs
  /\ IF lease > 0 /\ status[lease] = "active"
     THEN /\ status' = [status EXCEPT ![lease] = "unknown"]
          /\ task' = "recover" /\ pc' = "absence" /\ step' = throttle[lease]
     ELSE /\ UNCHANGED status
          /\ task' = "none" /\ pc' = "idle" /\ step' = 0
  /\ UNCHANGED <<controllers, wire, lease, plan, throttle, leaseEpoch, quarantined, inference>>

\* start: a new epoch, greater than every earlier one, from which it may be some
\* steps away (HostEpoch); the row left open is reconciled.
Start ==
  /\ pc = "down"
  /\ epoch' \in epoch + 1 .. MaxEpochs
  /\ IF lease > 0 /\ status[lease] \in Open
     THEN /\ status' = [status EXCEPT ![lease] = "unknown"]
          /\ task' = "recover" /\ pc' = "absence" /\ step' = throttle[lease]
     ELSE /\ UNCHANGED status
          /\ task' = "none" /\ pc' = "idle" /\ step' = 0
  /\ UNCHANGED <<controllers, wire, lease, plan, throttle, leaseEpoch, quarantined, inference>>

--------------------------------------------------------------------------------

Broker ==
  \/ Journal \/ Send \/ Observed \/ Admit
  \/ StartRelease \/ AbsenceVerified \/ Verified \/ MarkRestored \/ Close
  \/ AdmissionFails \/ RestoreFails \/ Start

Next ==
  \/ \E m \in wire : Serve(m) \/ Lose(m)
  \/ \E p \in Displaces : StartAcquire(p)
  \/ Activate \/ InferenceEnds
  \/ Broker
  \/ Stop

Spec == Init /\ [][Next]_vars

\* Every call of the broker has a timeout, the inference window is bounded and
\* systemd starts the broker again.
FairSpec == Spec /\ WF_vars(Broker)

--------------------------------------------------------------------------------
(* Properties *)

\* While the inference profile runs, also under a broker that crashed or lost
\* track, every displaced service stays released for that very lease: no late
\* restore, no restart and no failed unload brings it back.
TrainingAside ==
  inference # 0 =>
    \A i \in DOMAIN plan[inference] : ReleasedFor(plan[inference][i], inference)

\* A released service is in the journal of the lease it was released for, so
\* the restart after a crash at any point knows of it.
JournalCovers ==
  \A c \in Controllers : Mode(c) = "released" =>
    \E i \in 1 .. throttle[ctl[c].request.lease] : plan[ctl[c].request.lease][i] = c

\* No row is closed while a service is released for it: training is forgotten
\* only when a request overtook the broker that had given up on it.
TrainingIsOwed ==
  \A c \in Controllers \ stray :
    Mode(c) = "released" => status[ctl[c].request.lease] \in Open

\* No fence stands between a displaced service and its restoration: whoever
\* restores a service that is released for the lease in hand, the process that
\* displaced it or one after a restart, sends a request its controller accepts.
ReleasedIsRestorable ==
  pc \in {"send", "await"} /\ task \in Restorations /\ ReleasedFor(Current.to, lease)
  => MayFollow(Current.request, ctl[Current.to])

\* The first service of a plan, when it is at work, accepts its throttle, whatever
\* leases, epochs and late requests it has been through.
FirstIsThrottled ==
  pc \in {"send", "await"} /\ task = "admit" /\ step = 1 /\ Mode(Current.to) = "normal"
  => MayFollow(Current.request, ctl[Current.to])

\* Restoring, quarantining and reconciling keep the ledger of leases that the
\* scheduler relies on.
Ledger == INSTANCE LeaseLedger
  WITH up <- pc # "down" /\ task # "recover",
       open <- \E l \in Leases : status[l] \in Open
KeepsLedger == Ledger!Spec

\* Each controller is the register that TrainingController implements, and the
\* process that operates is an owner as HostEpoch lets them follow one another.
Register(c) == INSTANCE FencedController WITH recorded <- ctl[c]
Owner == INSTANCE FencedOwner
  WITH Processes <- {"broker"},
       owners <- IF pc = "down" THEN {} ELSE {"broker"}, lastEpoch <- epoch

\* A released service returns to normal, or the quarantine shows that it did
\* not.
TrainingReturns ==
  \A c \in Controllers :
    Mode(c) = "released" ~> Mode(c) = "normal" \/ quarantined \/ c \in stray

\* "A crash after the controller applies the request can then be recovered
\* idempotently from this record": the takeover of a controller that has the
\* lease is not refused.
RecoveryIsIdempotent ==
  pc = "await" /\ task = "recover" /\ Current \in wire
    /\ ctl[Current.to] # Absent /\ ctl[Current.to].request.lease = lease
  => MayFollow(Current.request, ctl[Current.to])

\* Controllers "must reject an older epoch, a different active lease at the same
\* epoch, or a lower generation": with no lease active, they serve the next one.
NextLeaseIsServed ==
  pc = "await" /\ task = "admit" /\ Current \in wire /\ Mode(Current.to) = "normal"
  => MayFollow(Current.request, ctl[Current.to])
================================================================================
