--------------------------- MODULE TrainingController --------------------------
(***************************************************************************)
(* The lifecycle controller of a training service                          *)
(* (training_controller.py): one systemd user unit, whose trainer          *)
(* publishes checkpoint receipts; an authority file, which journals a      *)
(* transition before the unit is touched and records it when it is         *)
(* complete; and a state file, which the resource probe reads.             *)
(*                                                                         *)
(* One handler at a time holds _lock, so the threads of the HTTP server    *)
(* are the single pc below.  Requests come from Requests in any order, any *)
(* number of times: late, repeated, from an older broker epoch.  The       *)
(* controller process may end between any two durable effects; the unit    *)
(* and the files outlive it.                                               *)
(*                                                                         *)
(* A checkpoint is its number in the order of publication, 0 for none;     *)
(* Run and Content give the fields of its receipt that are compared.       *)
(***************************************************************************)
EXTENDS ControllerFence, Integers, Sequences

CONSTANTS
  Requests,         \* the requests that may arrive
  Run, Content,     \* runId and file manifest of each checkpoint
  AllowFreshStart,  \* allow_fresh_start of the policy
  MaxCrashes,       \* bound: ends of the process
  MaxFailures       \* bound: failed commands, reads and writes

ASSUME RequestsAssumption ==
  \A r \in Requests :
    /\ DOMAIN r = {"kind", "lease", "fence", "recovery", "epoch", "generation", "mode"}
    /\ r.kind \in {"mode", "takeover"} /\ r.mode \in {"normal", "released"}
    /\ r.epoch \in Nat /\ r.generation \in Nat
    /\ r.kind = "takeover" => r.mode = "normal"  \* _validate_request and takeover
    /\ r.kind = "mode" => r.recovery = r.fence
ASSUME CheckpointsAssumption == Run \in Seq(Nat) /\ Content \in Seq(Nat) /\ Len(Run) = Len(Content)
ASSUME PolicyAssumption ==
  AllowFreshStart \in BOOLEAN /\ MaxCrashes \in Nat /\ MaxFailures \in Nat

Checkpoints == 0 .. Len(Run)
NoRequest == [kind |-> "none"]

VARIABLES
  authority,  \* the authority file
  stateFile,  \* the state file, Absent or what it makes public
  unit,       \* is the training unit active
  receipt,    \* the checkpoint of the receipt file
  pc,         \* where the holder of _lock is
  pending,    \* the request it serves, NoRequest for the constructor
  evidence,   \* the checkpoint _apply verified
  found,      \* history: did the verification for a resume find the unit active
  committed,  \* history: requests whose transition was recorded
  before,     \* history: receipt when the last transition was journalled
  crashes, failures

vars == <<authority, stateFile, unit, receipt, pc, pending, evidence, found,
          committed, before, crashes, failures>>
files == <<authority, stateFile>>
trainer == <<unit, receipt>>
checked == <<evidence, found>>
history == <<committed, before>>
bounds == <<crashes, failures>>

Ready(r, c) == [phase |-> "ready", request |-> r, evidence |-> c]
ReadyStates == {Ready(r, c) : r \in Requests, c \in Checkpoints}
Applying(r, p, b) ==
  [phase |-> "applying", request |-> r, previous |-> p, baseline |-> b]

\* Where the handler applies a journalled transition, and where it is at all.
Completing == {"apply", "stopped", "verified", "started", "effected"}
Serving == {"begin", "recorded"} \cup Completing

TypeOK ==
  /\ \/ authority \in {Absent} \cup ReadyStates
     \/ /\ authority.phase = "applying"
        /\ authority = Applying(authority.request, authority.previous, authority.baseline)
        /\ authority.request \in Requests
        /\ authority.previous \in {Absent} \cup ReadyStates
        /\ authority.baseline \in Checkpoints
  /\ stateFile \in {Absent} \cup ReadyStates
  /\ unit \in BOOLEAN
  /\ receipt \in Checkpoints
  /\ pc \in {"down", "free"} \cup Serving
  /\ pending \in {NoRequest} \cup Requests
  /\ pc \in Completing => authority.phase = "applying"
  /\ evidence \in Checkpoints
  /\ found \in BOOLEAN
  /\ committed \subseteq Requests
  /\ before \in Checkpoints
  /\ crashes \in 0 .. MaxCrashes
  /\ failures \in 0 .. MaxFailures

Init ==
  /\ authority = Absent
  /\ stateFile = Absent
  /\ unit \in BOOLEAN
  /\ receipt \in {0, 1} \cap Checkpoints
  /\ pc = "down"
  /\ pending = NoRequest
  /\ evidence = 0
  /\ found = FALSE
  /\ committed = {}
  /\ before = 0
  /\ crashes = 0
  /\ failures = 0

--------------------------------------------------------------------------------
(* The trainer and its unit *)

\* It publishes a checkpoint while it runs, and ends by itself.
Publish ==
  /\ unit
  /\ receipt < Len(Run)
  /\ receipt' = receipt + 1
  /\ UNCHANGED <<files, unit, pc, pending, checked, history, bounds>>

UnitExits ==
  /\ unit
  /\ unit' = FALSE
  /\ UNCHANGED <<files, receipt, pc, pending, checked, history, bounds>>

--------------------------------------------------------------------------------
(* Taking the lock: the constructor, set_mode and takeover *)

\* Mutant: the constructor does not recover.
MutantStart ==
  /\ pc = "down"
  /\ pc' = "free"
  /\ UNCHANGED <<files, trainer, pending, checked, history, bounds>>

Start ==
  /\ pc = "down"
  /\ pc' = "begin"
  /\ UNCHANGED <<files, trainer, pending, checked, history, bounds>>

Receive(r) ==
  /\ pc = "free"
  /\ pc' = "begin"
  /\ pending' = r
  /\ UNCHANGED <<files, trainer, checked, history, bounds>>

\* The lock is given back; a constructor that raises ends the process.
Return(raised) ==
  /\ pc' = IF pending = NoRequest /\ raised THEN "down" ELSE "free"
  /\ pending' = NoRequest
  /\ evidence' = 0
  /\ found' = FALSE

\* Mutant: a recovered release forgets its baseline.
MutantRecover ==
  /\ pc = "begin"
  /\ authority.phase = "applying"
  /\ authority' = [authority EXCEPT !.baseline = 0]
  /\ pc' = "apply"
  /\ UNCHANGED <<stateFile, trainer, pending, checked, history, bounds>>

\* _recover_if_needed: a journalled transition is completed first.
Recover ==
  /\ pc = "begin"
  /\ authority.phase = "applying"
  /\ pc' = "apply"
  /\ UNCHANGED <<files, trainer, pending, checked, history, bounds>>

NothingToRecover ==
  /\ pc = "begin" /\ pending = NoRequest
  /\ authority.phase # "applying"
  /\ Return(FALSE)
  /\ UNCHANGED <<files, trainer, history, bounds>>

\* The recorded request again: its state is published again and its response
\* repeated.
Replay ==
  /\ pc = "begin" /\ pending # NoRequest
  /\ authority.phase = "ready" /\ authority.request = pending
  /\ stateFile' = authority
  /\ Return(FALSE)
  /\ UNCHANGED <<authority, trainer, history, bounds>>

\* A release needs the receipt of the checkpoint recorded before, if any.
BaselineKnown(r, current) ==
  r.mode = "released" /\ receipt = 0 /\ current # Absent => current.evidence = 0

\* Mutant: a takeover compares the lease and forgets its fence.
MutantAllowed(r, current) ==
  IF r.kind = "takeover"
  THEN current # Absent /\ r.lease = current.request.lease /\ r.epoch > current.request.epoch
  ELSE MayFollow(r, current) /\ BaselineKnown(r, current)

Allowed(r, current) == MayFollow(r, current) /\ BaselineKnown(r, current)

Refuse ==
  /\ pc = "begin" /\ pending # NoRequest
  /\ authority.phase # "applying"
  /\ ~(authority.phase = "ready" /\ authority.request = pending)
  /\ ~Allowed(pending, authority)
  /\ Return(TRUE)
  /\ UNCHANGED <<files, trainer, history, bounds>>

\* The transition is journalled, with the receipt a release starts from.
Accept ==
  /\ pc = "begin" /\ pending # NoRequest
  /\ authority.phase # "applying"
  /\ ~(authority.phase = "ready" /\ authority.request = pending)
  /\ Allowed(pending, authority)
  /\ authority' = Applying(pending, authority, IF pending.mode = "released" THEN receipt ELSE 0)
  /\ before' = receipt
  /\ pc' = "apply"
  /\ UNCHANGED <<stateFile, trainer, pending, checked, committed, bounds>>

--------------------------------------------------------------------------------
(* _apply, _complete_set_mode and _complete_takeover *)

\* Mutant: the unit is not verified inactive.
MutantStopUnit ==
  /\ pc = "apply" /\ authority.request.mode = "released"
  /\ unit' \in {unit, FALSE}
  /\ receipt' \in {receipt} \cup {c \in Checkpoints : unit /\ c = receipt + 1}
  /\ pc' = "stopped"
  /\ UNCHANGED <<files, pending, checked, history, bounds>>

\* units.stop returns and the unit is inactive; on the way the trainer may
\* publish, or may not.
StopUnit ==
  /\ pc = "apply" /\ authority.request.mode = "released"
  /\ unit' = FALSE
  /\ receipt' \in {receipt} \cup {c \in Checkpoints : unit /\ c = receipt + 1}
  /\ pc' = "stopped"
  /\ UNCHANGED <<files, pending, checked, history, bounds>>

Advanced(c, baseline) ==
  /\ Run[c] = Run[baseline]
  /\ c # baseline
  /\ Content[c] # Content[baseline]

Releasable ==
  /\ receipt # 0
  /\ authority.baseline # 0 => Advanced(receipt, authority.baseline)

CheckpointAccepted ==
  /\ pc = "stopped" /\ Releasable
  /\ evidence' = receipt
  /\ pc' = "effected"
  /\ UNCHANGED <<files, trainer, pending, found, history, bounds>>

CheckpointRefused ==
  /\ pc = "stopped" /\ ~Releasable
  /\ Return(TRUE)
  /\ UNCHANGED <<files, trainer, history, bounds>>

\* Mutant: the checkpoint is not verified again.
MutantResumable ==
  IF authority.previous = Absent THEN AllowFreshStart
  ELSE authority.previous.evidence # 0 \/ AllowFreshStart

\* The receipt is compared with the recorded checkpoint; without one, only a
\* policy that allows a fresh start lets the unit start.
Resumable ==
  LET previous == authority.previous
  IN  IF previous # Absent /\ previous.evidence # 0
      THEN receipt = previous.evidence
      ELSE AllowFreshStart

\* The unit need not be stopped here: a recovered resume may find it active, and
\* then the trainer may publish or end before units.start and after it.
VerifyCheckpoint ==
  /\ pc = "apply" /\ authority.request.mode = "normal"
  /\ Resumable
  /\ evidence' = (IF authority.previous = Absent THEN 0 ELSE authority.previous.evidence)
  /\ found' = unit
  /\ pc' = "verified"
  /\ UNCHANGED <<files, trainer, pending, history, bounds>>

ResumeRefused ==
  /\ pc = "apply" /\ authority.request.mode = "normal"
  /\ ~Resumable
  /\ Return(TRUE)
  /\ UNCHANGED <<files, trainer, history, bounds>>

\* units.start; it leaves an active unit as it is.
StartUnit ==
  /\ pc = "verified"
  /\ unit' = TRUE
  /\ found' = FALSE
  /\ pc' = "started"
  /\ UNCHANGED <<files, receipt, pending, evidence, history, bounds>>

\* The unit is asked whether it is active; it may have ended again.
ConfirmActive ==
  /\ pc = "started" /\ unit
  /\ pc' = "effected"
  /\ UNCHANGED <<files, trainer, pending, checked, history, bounds>>

ResumeUnverified ==
  /\ pc = "started" /\ ~unit
  /\ Return(TRUE)
  /\ UNCHANGED <<files, trainer, history, bounds>>

\* Mutant: the state file is written first.
MutantRecordAuthority ==
  /\ pc = "effected"
  /\ stateFile' = Ready(authority.request, evidence)
  /\ pc' = "recorded"
  /\ UNCHANGED <<authority, committed, trainer, pending, checked, before, bounds>>

RecordAuthority ==
  /\ pc = "effected"
  /\ authority' = Ready(authority.request, evidence)
  /\ committed' = committed \cup {authority.request}
  /\ pc' = "recorded"
  /\ UNCHANGED <<stateFile, trainer, pending, checked, before, bounds>>

\* The state file follows.  If this completed another request's transition,
\* the request being served goes on; its own is acknowledged.
PublishState ==
  /\ pc = "recorded"
  /\ stateFile' = authority
  /\ IF pending \in {NoRequest, authority.request}
     THEN Return(FALSE)
     ELSE pc' = "begin" /\ evidence' = 0 /\ UNCHANGED <<pending, found>>
  /\ UNCHANGED <<authority, trainer, history, bounds>>

--------------------------------------------------------------------------------
(* Failures *)

\* Mutant: a failed handler rolls the journalled transition back.
MutantFail ==
  /\ pc \in Serving
  /\ failures < MaxFailures
  /\ failures' = failures + 1
  /\ authority' = (IF authority.phase = "applying" THEN authority.previous ELSE authority)
  /\ Return(TRUE)
  /\ UNCHANGED <<stateFile, trainer, history, crashes>>

\* A command, a read or a write fails or times out: the handler raises.  A command
\* that timed out is assumed to have taken effect by then or not at all.
Fail ==
  /\ pc \in Serving
  /\ failures < MaxFailures
  /\ failures' = failures + 1
  /\ Return(TRUE)
  /\ UNCHANGED <<files, trainer, history, crashes>>

\* The process ends; with the host, the unit ends too.
Crash ==
  /\ pc # "down"
  /\ crashes < MaxCrashes
  /\ crashes' = crashes + 1
  /\ pc' = "down"
  /\ pending' = NoRequest
  /\ evidence' = 0
  /\ found' = FALSE
  /\ unit' \in {unit, FALSE}
  /\ UNCHANGED <<files, receipt, history, failures>>

--------------------------------------------------------------------------------

Handler ==
  \/ Recover \/ NothingToRecover \/ Replay \/ Refuse \/ Accept
  \/ StopUnit \/ CheckpointAccepted \/ CheckpointRefused
  \/ VerifyCheckpoint \/ ResumeRefused \/ StartUnit \/ ConfirmActive \/ ResumeUnverified
  \/ RecordAuthority \/ PublishState

Next ==
  \/ Publish \/ UnitExits
  \/ Start \/ \E r \in Requests : Receive(r)
  \/ Handler
  \/ Fail \/ Crash

Spec == Init /\ [][Next]_vars

\* systemd restarts the process, every command has a timeout, and the lock is
\* held until the handler returns.
FairSpec == Spec /\ WF_vars(Start) /\ WF_vars(Handler)

--------------------------------------------------------------------------------
(* Properties *)

\* The last recorded state, also while the next transition is journalled.
Recorded == IF authority.phase = "applying" THEN authority.previous ELSE authority

\* While a release is in force the unit is stopped and its checkpoint is the
\* acknowledged one, although trainer, crashes and refused requests intervene.
ReleaseHolds ==
  authority.phase = "ready" /\ authority.request.mode = "released"
    => ~unit /\ receipt = authority.evidence

\* A recorded release has a checkpoint newer than the one its request found,
\* also when a restart completed it.
ReleaseAdvances ==
  authority.phase = "ready" /\ authority.request.mode = "released" /\ before # 0
    => Advanced(authority.evidence, before)

\* What the probe reads was durably recorded first.
ObservedIsRecorded == stateFile # Absent => stateFile.request \in committed

\* A stopped unit is started from exactly the checkpoint that was recorded before,
\* also by a restart, after a refused request or when the unit ended meanwhile.  The
\* receipt is compared some time before units.start; only a trainer that was active
\* at the comparison may have moved on since, and then the unit starts from a
\* checkpoint this very trainer published after the recorded one.
ResumesExactly ==
  [][~unit /\ unit' =>
       IF Recorded # Absent /\ Recorded.evidence # 0
       THEN receipt = Recorded.evidence \/ (found /\ receipt > Recorded.evidence)
       ELSE AllowFreshStart]_vars

\* Recorded epochs never regress, nor do the generations of one fence: an old
\* broker's requests have no effect once a newer one was served.
FenceAdvances ==
  [][Recorded # Absent /\ Recorded' # Recorded =>
       LET old == Recorded.request
           new == Recorded'.request
       IN  \/ new.epoch > old.epoch
           \/ new.epoch = old.epoch /\ (new.lease = old.lease => new.generation > old.generation)
    ]_vars

\* Seen from outside a transition happens at once, when it is recorded: the
\* controller is the fenced register that the broker's governor relies on.
Visible == IF Recorded = Absent THEN Absent ELSE [request |-> Recorded.request]
Interface == INSTANCE FencedController WITH recorded <- Visible
Implements == Interface!Spec

\* A journalled release whose unit is stopped on a newer checkpoint is not lost:
\* failures, restarts and other requests leave it as it is until it is recorded,
\* with that checkpoint as its evidence.
Interrupted ==
  /\ authority.phase = "applying" /\ authority.request.mode = "released"
  /\ ~unit /\ Releasable
InterruptedReleaseStands ==
  [][Interrupted => \/ Interrupted' /\ authority' = authority
                    \/ authority' = Ready(authority.request, receipt)]_vars

\* A release interrupted after the unit stopped on a newer checkpoint is
\* recorded after the restart, whatever fails on the way.
InterruptedReleaseRecovers ==
  pc = "down" /\ Interrupted ~> authority.phase = "ready"

\* "recovers an interrupted transition on restart": the same of a resume that
\* was interrupted while the checkpoint was still the recorded one.
InterruptedResumeRecovers ==
  /\ pc = "down"
  /\ authority.phase = "applying" /\ authority.request.mode = "normal"
  /\ Resumable
  ~> authority.phase = "ready"
================================================================================
