------------------------ MODULE TrainingControllerProofs -----------------------
(***************************************************************************)
(* Theorems about TrainingController, for every set of requests that obeys *)
(* RequestsAssumption, every history of checkpoints and every policy.      *)
(***************************************************************************)
EXTENDS TrainingController, TLAPS

\* Between the comparison and units.start only a trainer that the comparison found
\* active has moved on, and it published forwards.
ResumeVerified ==
  /\ ~found => ~unit
  /\ IF authority.previous # Absent /\ authority.previous.evidence # 0
     THEN receipt = authority.previous.evidence
            \/ (found /\ receipt > authority.previous.evidence)
     ELSE AllowFreshStart
  /\ authority.request.mode = "normal"

\* Where a handler is tells what it has done: the unit it stopped stays stopped,
\* the checkpoint it verified is still the last one.
Handling ==
  /\ pc = "stopped" => ~unit /\ authority.request.mode = "released"
  /\ pc = "verified" => ResumeVerified
  /\ pc = "started" => authority.request.mode = "normal"
  /\ pc = "effected" /\ authority.request.mode = "released" =>
       /\ ~unit /\ receipt = evidence
       /\ before # 0 => Advanced(evidence, before)
  /\ pc = "recorded" => authority.phase = "ready"

\* What is journalled: a release with the receipt its request found, and a
\* request that _check_fence or takeover let follow the recorded one.
Follows(new, old) ==
  \/ new.epoch > old.epoch
  \/ new.epoch = old.epoch /\ (new.lease = old.lease => new.generation > old.generation)

Journal ==
  authority.phase = "applying" =>
    /\ authority.request.mode = "released" => authority.baseline = before
    /\ authority.previous # Absent => Follows(authority.request, authority.previous.request)
    /\ MayFollow(authority.request, authority.previous)

\* What is recorded counts as served.
Served == authority.phase = "ready" => authority.request \in committed

IInv ==
  /\ TypeOK /\ Handling /\ Journal /\ Served
  /\ ReleaseHolds /\ ReleaseAdvances /\ ObservedIsRecorded

\* The three shapes of the authority file.
LEMMA Shapes ==
  ASSUME TypeOK
  PROVE  /\ authority.phase \in {"none", "ready", "applying"}
         /\ authority.phase = "none" => authority = Absent
         /\ authority.phase = "ready" =>
              /\ authority \in ReadyStates
              /\ authority.request \in Requests /\ authority.evidence \in Checkpoints
         /\ authority.phase = "applying" =>
              /\ authority.request \in Requests /\ authority.baseline \in Checkpoints
              /\ authority.previous \in {Absent} \cup ReadyStates
BY DEF TypeOK, Absent, ReadyStates, Ready, Applying

LEMMA ReadyShape ==
  ASSUME NEW r \in Requests, NEW c \in Checkpoints
  PROVE  /\ Ready(r, c) \in ReadyStates /\ Ready(r, c).phase = "ready"
         /\ Ready(r, c).request = r /\ Ready(r, c).evidence = c /\ Ready(r, c) # Absent
BY DEF Ready, ReadyStates, Absent

LEMMA InitInvariant == Init => IInv
<1> SUFFICES ASSUME Init PROVE IInv
  OBVIOUS
<1>1. crashes \in 0 .. MaxCrashes /\ failures \in 0 .. MaxFailures
      /\ evidence \in Checkpoints /\ before \in Checkpoints /\ receipt \in Checkpoints
  BY PolicyAssumption, CheckpointsAssumption DEF Init, Checkpoints
<1>2. TypeOK
  BY <1>1, Zenon DEF Init, TypeOK, NoRequest, Completing
<1> QED
  BY <1>2
     DEF Init, IInv, Handling, Journal, Served, ReleaseHolds, ReleaseAdvances,
         ObservedIsRecorded, Absent

--------------------------------------------------------------------------------

\* The numbers of checkpoints and failures stay in their ranges.
LEMMA NumbersStep ==
  ASSUME TypeOK, [Next]_vars
  PROVE  /\ receipt' \in Checkpoints /\ evidence' \in Checkpoints /\ before' \in Checkpoints
         /\ crashes' \in 0 .. MaxCrashes /\ failures' \in 0 .. MaxFailures
<1> USE PolicyAssumption DEF files, trainer, checked, history, bounds, Return
<1>0. /\ receipt \in Checkpoints /\ evidence \in Checkpoints /\ before \in Checkpoints
      /\ crashes \in 0 .. MaxCrashes /\ failures \in 0 .. MaxFailures
      /\ 0 \in Checkpoints /\ Len(Run) \in Nat
  BY CheckpointsAssumption DEF TypeOK, Checkpoints
<1>1. CASE Publish
  BY <1>0, <1>1 DEF Publish, Checkpoints
<1>2. CASE UnitExits \/ Start \/ (\E r \in Requests : Receive(r))
  BY <1>0, <1>2 DEF UnitExits, Start, Receive
<1>3. CASE Recover \/ NothingToRecover \/ Replay \/ Refuse \/ Accept
  BY <1>0, <1>3 DEF Recover, NothingToRecover, Replay, Refuse, Accept
<1>4. CASE StopUnit \/ CheckpointAccepted \/ CheckpointRefused
  BY <1>0, <1>4 DEF StopUnit, CheckpointAccepted, CheckpointRefused
<1>5. CASE VerifyCheckpoint
  <2>1. authority.phase = "applying"
    BY <1>5 DEF VerifyCheckpoint, TypeOK, Completing
  <2>2. authority.previous # Absent => authority.previous.evidence \in Checkpoints
    BY <2>1, Shapes DEF ReadyStates, Ready
  <2> QED
    BY <1>0, <1>5, <2>2 DEF VerifyCheckpoint
<1>6. CASE \/ ResumeRefused \/ StartUnit \/ ConfirmActive \/ ResumeUnverified
           \/ RecordAuthority \/ PublishState
  BY <1>0, <1>6 DEF ResumeRefused, StartUnit, ConfirmActive, ResumeUnverified,
                    RecordAuthority, PublishState
<1>7. CASE Fail
  BY <1>0, <1>7 DEF Fail
<1>8. CASE Crash
  BY <1>0, <1>8 DEF Crash
<1>9. CASE UNCHANGED vars
  BY <1>0, <1>9 DEF vars
<1> QED
  BY <1>1, <1>2, <1>3, <1>4, <1>5, <1>6, <1>7, <1>8, <1>9 DEF Next, Handler

\* The authority is written by the journal and the record only.
LEMMA AuthorityStep ==
  ASSUME TypeOK, [Next]_vars
  PROVE  \/ authority' = authority
         \/ Accept
         \/ RecordAuthority
BY DEF Next, Handler, Publish, UnitExits, Start, Receive, Recover, NothingToRecover,
       Replay, Refuse, StopUnit, CheckpointAccepted, CheckpointRefused, StartUnit,
       VerifyCheckpoint, ConfirmActive, ResumeUnverified, ResumeRefused, PublishState,
       Fail, Crash, vars, files

TypeOfAuthority ==
  \/ authority \in {Absent} \cup ReadyStates
  \/ /\ authority.phase = "applying"
     /\ authority = Applying(authority.request, authority.previous, authority.baseline)
     /\ authority.request \in Requests
     /\ authority.previous \in {Absent} \cup ReadyStates
     /\ authority.baseline \in Checkpoints

LEMMA TypeStep ==
  ASSUME TypeOK, Handling, [Next]_vars
  PROVE  TypeOK'
<1> USE DEF files, trainer, checked, history, bounds, Return, Completing, Serving
<1>1. TypeOfAuthority'
  <2>1. CASE authority' = authority
    BY <2>1 DEF TypeOK, TypeOfAuthority
  <2>2. CASE Accept
    <3>1. pending \in Requests /\ authority \in {Absent} \cup ReadyStates
      BY <2>2 DEF Accept, TypeOK
    <3> DEFINE baseline == IF pending.mode = "released" THEN receipt ELSE 0
    <3>2. baseline \in Checkpoints
      BY CheckpointsAssumption DEF TypeOK, Checkpoints
    <3>3. authority' = Applying(pending, authority, baseline)
      BY <2>2 DEF Accept
    <3> HIDE DEF baseline
    <3> QED
      BY <3>1, <3>2, <3>3 DEF TypeOfAuthority, Applying
  <2>3. CASE RecordAuthority
    <3>1. authority.phase = "applying" /\ evidence \in Checkpoints
      BY <2>3 DEF RecordAuthority, TypeOK
    <3> QED
      BY <2>3, <3>1, Shapes, ReadyShape DEF RecordAuthority, TypeOfAuthority
  <2> QED
    BY <2>1, <2>2, <2>3, AuthorityStep
<1>2. stateFile' \in {Absent} \cup ReadyStates
  <2>1. CASE stateFile' = stateFile
    BY <2>1 DEF TypeOK
  <2>2. CASE Replay \/ PublishState
    <3>1. authority.phase = "ready" /\ stateFile' = authority
      BY <2>2 DEF Replay, PublishState, Handling
    <3> QED
      BY <3>1, Shapes
  <2> QED
    BY <2>1, <2>2
       DEF Next, Handler, Publish, UnitExits, Start, Receive, Recover, NothingToRecover,
           Refuse, Accept, StopUnit, CheckpointAccepted, CheckpointRefused, StartUnit,
           VerifyCheckpoint, ConfirmActive, ResumeUnverified, ResumeRefused,
           RecordAuthority, Fail, Crash, vars
<1>3. pc' \in {"down", "free"} \cup Serving
  BY DEF TypeOK, Next, Handler, Publish, UnitExits, Start, Receive, Recover,
         NothingToRecover, Replay, Refuse, Accept, StopUnit, CheckpointAccepted,
         CheckpointRefused, StartUnit, VerifyCheckpoint, ConfirmActive,
         ResumeUnverified, ResumeRefused, RecordAuthority, PublishState, Fail, Crash,
         vars
<1>4. pending' \in {NoRequest} \cup Requests
  BY DEF TypeOK, Next, Handler, Publish, UnitExits, Start, Receive, Recover,
         NothingToRecover, Replay, Refuse, Accept, StopUnit, CheckpointAccepted,
         CheckpointRefused, StartUnit, VerifyCheckpoint, ConfirmActive,
         ResumeUnverified, ResumeRefused, RecordAuthority, PublishState, Fail, Crash,
         vars
<1>5. unit' \in BOOLEAN
  BY Zenon
     DEF TypeOK, Next, Handler, Publish, UnitExits, Start, Receive, Recover,
         NothingToRecover, Replay, Refuse, Accept, StopUnit, CheckpointAccepted,
         CheckpointRefused, StartUnit, VerifyCheckpoint, ConfirmActive,
         ResumeUnverified, ResumeRefused, RecordAuthority, PublishState, Fail, Crash,
         vars
<1>6. found' \in BOOLEAN
  BY Zenon
     DEF TypeOK, Next, Handler, Publish, UnitExits, Start, Receive, Recover,
         NothingToRecover, Replay, Refuse, Accept, StopUnit, CheckpointAccepted,
         CheckpointRefused, VerifyCheckpoint, ResumeRefused, StartUnit, ConfirmActive,
         ResumeUnverified, RecordAuthority, PublishState, Fail, Crash, vars
<1>7. pc' \in Completing => authority'.phase = "applying"
  <2>1. CASE authority' = authority
    <3>1. pc \in Completing => authority.phase = "applying"
      BY DEF TypeOK
    <3>2. \/ pc' \notin Completing
          \/ pc \in Completing
          \/ authority.phase = "applying"
          \/ Accept
      BY DEF Next, Handler, Publish, UnitExits, Start, Receive, Recover, NothingToRecover,
             Replay, Refuse, StopUnit, CheckpointAccepted, CheckpointRefused, StartUnit,
             VerifyCheckpoint, ConfirmActive, ResumeUnverified, ResumeRefused,
             RecordAuthority, PublishState, Fail, Crash, vars
    <3>3. Accept => authority'.phase = "applying"
      BY DEF Accept, Applying
    <3> QED
      BY <2>1, <3>1, <3>2, <3>3
  <2>2. CASE Accept
    BY <2>2 DEF Accept, Applying
  <2>3. CASE RecordAuthority
    BY <2>3 DEF RecordAuthority
  <2> QED
    BY <2>1, <2>2, <2>3, AuthorityStep
<1>8. committed' \subseteq Requests
  <2>1. CASE RecordAuthority
    BY <2>1, Shapes DEF RecordAuthority, TypeOK
  <2> QED
    BY <2>1
       DEF TypeOK, Next, Handler, Publish, UnitExits, Start, Receive, Recover,
           NothingToRecover, Replay, Refuse, Accept, StopUnit, CheckpointAccepted,
           CheckpointRefused, StartUnit, VerifyCheckpoint, ConfirmActive,
           ResumeUnverified, ResumeRefused, PublishState, Fail, Crash, vars
<1> QED
  BY <1>1, <1>2, <1>3, <1>4, <1>5, <1>6, <1>7, <1>8, NumbersStep, Zenon
     DEF TypeOK, TypeOfAuthority

--------------------------------------------------------------------------------

\* The trainer goes on only in an active unit, and only a resume activates it.
LEMMA TrainerStep ==
  ASSUME TypeOK, Handling, [Next]_vars
  PROVE  \/ UNCHANGED <<unit, receipt>>
         \/ ~unit' /\ receipt' = receipt
         \/ Publish
         \/ StopUnit
         \/ StartUnit
BY DEF Next, Handler, UnitExits, Start, Receive, Recover, NothingToRecover, Replay,
       Refuse, Accept, CheckpointAccepted, CheckpointRefused, VerifyCheckpoint,
       ConfirmActive, ResumeUnverified, ResumeRefused,
       RecordAuthority, PublishState, Fail, Crash, vars, files, trainer

\* The history variables change with the authority.
LEMMA HistoryStep ==
  ASSUME [Next]_vars
  PROVE  /\ before' = before \/ Accept
         /\ committed' = committed \/ RecordAuthority
BY DEF Next, Handler, Publish, UnitExits, Start, Receive, Recover, NothingToRecover,
       Replay, Refuse, StopUnit, CheckpointAccepted, CheckpointRefused, StartUnit,
       VerifyCheckpoint, ConfirmActive, ResumeUnverified, ResumeRefused, PublishState,
       Fail, Crash, vars, files, history, Accept, RecordAuthority

LEMMA HandlingStep ==
  ASSUME TypeOK, Handling, Journal, [Next]_vars
  PROVE  Handling'
<1> USE DEF files, trainer, checked, history, Return, Completing
<1>0. pc \in Completing => authority.phase = "applying"
  BY DEF TypeOK
<1>1. CASE Publish
  <2>1. /\ receipt \in Int
        /\ pc = "verified" /\ authority.previous # Absent =>
             authority.previous.evidence \in Int
    <3>1. Checkpoints \subseteq Int
      BY DEF Checkpoints
    <3>2. pc = "verified" /\ authority.previous # Absent =>
            authority.previous.evidence \in Checkpoints
      BY <1>0, Shapes DEF ReadyStates, Ready
    <3> QED
      BY <3>1, <3>2 DEF TypeOK
  <2>2. pc' = pc /\ authority' = authority
    BY <1>1 DEF Publish
  <2>3. pc = "verified" => ResumeVerified'
    BY <1>1, <2>1 DEF Publish, Handling, ResumeVerified
  <2> QED
    BY <1>1, <2>2, <2>3 DEF Publish, Handling
<1>2. CASE UnitExits
  BY <1>2 DEF UnitExits, Handling, ResumeVerified
<1>3. CASE StopUnit
  BY <1>3 DEF StopUnit, Handling
<1>4. CASE CheckpointAccepted
  <2>1. /\ ~unit /\ receipt # 0
        /\ before # 0 => Advanced(receipt, before)
    BY <1>0, <1>4 DEF CheckpointAccepted, Releasable, Handling, Journal
  <2>2. Advanced(evidence', before') = Advanced(receipt, before)
    BY <1>4 DEF CheckpointAccepted, Advanced
  <2> QED
    BY <1>4, <2>1, <2>2 DEF CheckpointAccepted, Handling
<1>5. CASE VerifyCheckpoint
  BY <1>5 DEF VerifyCheckpoint, Resumable, ResumeVerified, Handling
<1>6. CASE StartUnit
  BY <1>6 DEF StartUnit, ResumeVerified, Handling
<1>7. CASE RecordAuthority
  BY <1>7, ReadyShape DEF RecordAuthority, Handling, Ready
<1>8. CASE UNCHANGED vars
  BY <1>8 DEF vars, Handling, Advanced, ResumeVerified
<1> QED
  BY <1>1, <1>2, <1>3, <1>4, <1>5, <1>6, <1>7, <1>8
     DEF Next, Handler, Start, Receive, Recover, NothingToRecover, Replay, Refuse, Accept,
         CheckpointRefused, ConfirmActive, ResumeUnverified, ResumeRefused, PublishState,
         Fail, Crash, Handling

\* What is allowed follows what is recorded (_check_fence, takeover).
LEMMA JournalStep ==
  ASSUME TypeOK, Journal, [Next]_vars
  PROVE  Journal'
<1>1. CASE Accept
  <2>1. /\ pending \in Requests /\ authority \in {Absent} \cup ReadyStates
        /\ before' = receipt /\ Allowed(pending, authority)
        /\ authority' = Applying(pending, authority,
                                 IF pending.mode = "released" THEN receipt ELSE 0)
    BY <1>1 DEF Accept, TypeOK
  <2>2. /\ authority'.request = pending /\ authority'.previous = authority
        /\ pending.mode = "released" => authority'.baseline = receipt
    BY <2>1 DEF Applying
  <2>3. authority # Absent => Follows(pending, authority.request)
    BY <2>1, RequestsAssumption
       DEF Allowed, MayFollow, TakeoverAllowed, ModeAllowed, Fence, Follows
  <2>4. MayFollow(authority'.request, authority'.previous)
    BY <2>1, <2>2 DEF Allowed
  <2> QED
    BY <2>1, <2>2, <2>3, <2>4 DEF Journal, Follows
<1>2. CASE RecordAuthority
  BY <1>2 DEF RecordAuthority, Ready, Journal
<1>3. CASE authority' = authority /\ ~Accept
  BY <1>3, HistoryStep DEF Journal, Follows, MayFollow, ModeAllowed, TakeoverAllowed, Fence
<1> QED
  BY <1>1, <1>2, <1>3, AuthorityStep

\* Once recorded, a release keeps the unit stopped: nothing but a resume, which
\* is journalled first, activates it.
LEMMA ReleaseStep ==
  ASSUME TypeOK, Handling, ReleaseHolds, ReleaseAdvances, [Next]_vars
  PROVE  ReleaseHolds' /\ ReleaseAdvances'
<1>0. pc \in Completing => authority.phase = "applying"
  BY DEF TypeOK
<1>1. CASE Accept
  BY <1>1 DEF Accept, Applying, ReleaseHolds, ReleaseAdvances
<1>2. CASE RecordAuthority
  <2>1. /\ authority'.request = authority.request /\ authority'.evidence = evidence
        /\ pc = "effected" /\ UNCHANGED <<unit, receipt, before>>
    BY <1>2 DEF RecordAuthority, Ready, trainer
  <2> QED
    BY <2>1 DEF Handling, ReleaseHolds, ReleaseAdvances, Advanced
<1>3. CASE authority' = authority /\ ~Accept
  <2>1. before' = before
    BY <1>3, HistoryStep
  <2>2. ReleaseAdvances'
    BY <1>3, <2>1 DEF ReleaseAdvances, Advanced
  <2>3. authority.phase = "ready" /\ ~unit => ~unit' /\ receipt' = receipt
    BY <1>0, TrainerStep DEF Publish, StopUnit, StartUnit, Completing
  <2> QED
    BY <1>3, <2>2, <2>3 DEF ReleaseHolds
<1> QED
  BY <1>1, <1>2, <1>3, AuthorityStep

\* The state file is a copy of a recorded authority.
LEMMA ObservedStep ==
  ASSUME TypeOK, Handling, Served, ObservedIsRecorded, [Next]_vars
  PROVE  Served' /\ ObservedIsRecorded'
<1>1. committed \subseteq committed'
  BY HistoryStep DEF RecordAuthority
<1>2. Served'
  <2>1. CASE Accept
    BY <2>1 DEF Accept, Applying, Served
  <2>2. CASE RecordAuthority
    BY <2>2 DEF RecordAuthority, Ready, Served
  <2>3. CASE authority' = authority
    BY <1>1, <2>3 DEF Served
  <2> QED
    BY <2>1, <2>2, <2>3, AuthorityStep
<1>3. \/ stateFile' = stateFile
      \/ stateFile' = authority /\ authority.phase = "ready"
  BY DEF Next, Handler, Publish, UnitExits, Start, Receive, Recover, NothingToRecover,
         Replay, Refuse, Accept, StopUnit, CheckpointAccepted, CheckpointRefused,
         StartUnit, VerifyCheckpoint, ConfirmActive, ResumeUnverified, ResumeRefused,
         RecordAuthority, PublishState, Fail, Crash, vars, files, Handling
<1> QED
  BY <1>1, <1>2, <1>3 DEF Served, ObservedIsRecorded

--------------------------------------------------------------------------------

LEMMA Invariance == Spec => []IInv
<1>1. IInv /\ [Next]_vars => IInv'
  <2> SUFFICES ASSUME IInv, [Next]_vars PROVE IInv'
    OBVIOUS
  <2> QED
    BY TypeStep, HandlingStep, JournalStep, ReleaseStep, ObservedStep DEF IInv
<1> QED
  BY InitInvariant, <1>1, PTL DEF Spec

\* Files, unit, receipt and the handler keep their types; in particular a
\* handler between two effects always has its transition in the journal.
THEOREM TypeCorrect == Spec => []TypeOK
<1>1. IInv => TypeOK
  BY DEF IInv
<1> QED
  BY <1>1, Invariance, PTL

\* While a release is in force the unit is stopped on the acknowledged
\* checkpoint, whatever trainer, crashes and late requests do.
THEOREM ReleaseIsHeld == Spec => []ReleaseHolds
<1>1. IInv => ReleaseHolds
  BY DEF IInv
<1> QED
  BY <1>1, Invariance, PTL

\* A recorded release advanced the checkpoint its request found, also when it
\* was completed by a later handler or after a restart.
THEOREM ReleaseIsAdvance == Spec => []ReleaseAdvances
<1>1. IInv => ReleaseAdvances
  BY DEF IInv
<1> QED
  BY <1>1, Invariance, PTL

\* The state file never shows what the authority has not recorded.
THEOREM ObservedWasRecorded == Spec => []ObservedIsRecorded
<1>1. IInv => ObservedIsRecorded
  BY DEF IInv
<1> QED
  BY <1>1, Invariance, PTL

\* A stopped unit starts from exactly the recorded checkpoint, although the comparison
\* and units.start are two steps that trainer, crashes and failures come between; a
\* trainer that the comparison found active may have published later ones (_apply).
THEOREM ResumeIsExact == Spec => ResumesExactly
<1> DEFINE Exact ==
             ~unit /\ unit' =>
               IF Recorded # Absent /\ Recorded.evidence # 0
               THEN receipt = Recorded.evidence \/ (found /\ receipt > Recorded.evidence)
               ELSE AllowFreshStart
<1>1. IInv /\ [Next]_vars => [Exact]_vars
  <2> SUFFICES ASSUME TypeOK, Handling, [Next]_vars PROVE Exact
    BY DEF IInv
  <2>1. ~unit /\ unit' => StartUnit
    BY TrainerStep DEF Publish, StopUnit
  <2>2. StartUnit => authority.phase = "applying"
    BY DEF StartUnit, TypeOK, Completing
  <2>3. StartUnit => Exact
    BY <2>2 DEF StartUnit, Handling, ResumeVerified, Recorded
  <2> QED
    BY <2>1, <2>3
<1> QED
  BY <1>1, Invariance, PTL DEF Spec, ResumesExactly

\* Recorded epochs, and the generations of one lease, only advance.
THEOREM FencesAdvance == Spec => FenceAdvances
<1> DEFINE Advances ==
             Recorded # Absent /\ Recorded' # Recorded =>
               LET old == Recorded.request
                   new == Recorded'.request
               IN  \/ new.epoch > old.epoch
                   \/ /\ new.epoch = old.epoch
                      /\ new.lease = old.lease => new.generation > old.generation
<1>1. IInv /\ [Next]_vars => [Advances]_vars
  <2> SUFFICES ASSUME TypeOK, Journal, [Next]_vars PROVE Advances
    BY DEF IInv
  <2>1. CASE authority' = authority
    BY <2>1 DEF Recorded
  <2>2. CASE Accept
    <3>1. /\ authority.phase # "applying" /\ authority'.phase = "applying"
          /\ authority'.previous = authority
      BY <2>2 DEF Accept, Applying
    <3> QED
      BY <3>1 DEF Recorded
  <2>3. CASE RecordAuthority
    <3>1. /\ authority.phase = "applying" /\ authority'.phase = "ready"
          /\ authority'.request = authority.request
      BY <2>3 DEF RecordAuthority, Ready, TypeOK, Completing
    <3> QED
      BY <3>1 DEF Recorded, Journal, Follows
  <2> QED
    BY <2>1, <2>2, <2>3, AuthorityStep
<1> QED
  BY <1>1, Invariance, PTL DEF Spec, FenceAdvances

\* What a recorded state shows of itself, and that a request that may follow the
\* state may follow what it shows.
LEMMA ShownState ==
  ASSUME NEW r, NEW a \in ReadyStates
  PROVE  /\ a # Absent /\ a.request \in Requests
         /\ MayFollow(r, a) => MayFollow(r, [request |-> a.request])
<1>1. a # Absent /\ a.request \in Requests
  BY DEF ReadyStates, Ready, Absent
<1>2. DOMAIN [request |-> a.request] # DOMAIN Absent
  BY DEF Absent
<1>3. [request |-> a.request] # Absent
  BY <1>2
<1> QED
  BY <1>1, <1>3 DEF MayFollow, ModeAllowed, TakeoverAllowed, Fence

\* The controller implements the register the governor relies on: every change
\* of what it shows is one request that the fence checks let follow.
THEOREM Refinement == Spec => Implements
<1>1. Init => Interface!Init
  BY DEF Init, Interface!Init, Visible, Recorded, Absent, Interface!Absent
<1>2. IInv /\ [Next]_vars => [Interface!Next]_Visible
  <2> SUFFICES ASSUME TypeOK, Handling, Journal, [Next]_vars
      PROVE  [Interface!Next]_Visible
    BY DEF IInv
  <2>1. CASE authority' = authority
    BY <2>1 DEF Visible, Recorded
  <2>2. CASE Accept
    <3>1. /\ authority.phase # "applying" /\ authority'.phase = "applying"
          /\ authority'.previous = authority
      BY <2>2 DEF Accept, Applying
    <3> QED
      BY <3>1 DEF Visible, Recorded
  <2>3. CASE RecordAuthority
    <3>1. /\ authority.phase = "applying"
          /\ authority'= Ready(authority.request, evidence)
          /\ evidence \in Checkpoints
      BY <2>3 DEF RecordAuthority, TypeOK, Completing
    <3>2. /\ authority.request \in Requests
          /\ authority.previous \in {Absent} \cup ReadyStates
          /\ MayFollow(authority.request, authority.previous)
      BY <3>1, Shapes DEF Journal
    <3>3. Visible' = [request |-> authority.request]
      BY <3>1, <3>2, ReadyShape DEF Visible, Recorded
    <3>4. Recorded = authority.previous
      BY <3>1 DEF Recorded
    <3>5. MayFollow(authority.request, Visible)
      BY <3>2, <3>4, ShownState DEF Visible
    <3>6. Interface!Serve(authority.request)
      BY <3>3, <3>5
         DEF Interface!Serve, Interface!MayFollow, MayFollow, Interface!ModeAllowed,
             ModeAllowed, Interface!TakeoverAllowed, TakeoverAllowed, Interface!Fence,
             Fence, Interface!Absent, Absent
    <3> QED
      BY <3>2, <3>6 DEF Interface!Next
  <2> QED
    BY <2>1, <2>2, <2>3, AuthorityStep
<1> QED
  BY <1>1, <1>2, Invariance, PTL DEF Spec, Implements, Interface!Spec

\* A release whose unit is stopped on a newer checkpoint stands until it is
\* recorded: the safe half of InterruptedReleaseRecovers.
THEOREM InterruptedReleaseIsKept == Spec => InterruptedReleaseStands
<1> DEFINE Stands ==
             Interrupted => \/ Interrupted' /\ authority' = authority
                            \/ authority' = Ready(authority.request, receipt)
<1>1. IInv /\ [Next]_vars => [Stands]_vars
  <2> SUFFICES ASSUME TypeOK, Handling, [Next]_vars, Interrupted PROVE Stands
    BY DEF IInv
  <2>1. authority.phase = "applying" /\ authority.request.mode = "released" /\ ~unit
    BY DEF Interrupted
  <2>2. CASE authority' = authority
    <3>1. ~StartUnit /\ ~Publish
      BY <2>1 DEF StartUnit, Publish, Handling, ResumeVerified
    <3>2. StopUnit => ~unit' /\ receipt' = receipt
      BY <2>1 DEF StopUnit
    <3>3. ~unit' /\ receipt' = receipt
      BY <2>1, <3>1, <3>2, TrainerStep
    <3> QED
      BY <2>2, <3>3 DEF Interrupted, Releasable, Advanced
  <2>3. CASE Accept
    BY <2>1, <2>3 DEF Accept
  <2>4. CASE RecordAuthority
    BY <2>1, <2>4 DEF RecordAuthority, Handling
  <2> QED
    BY <2>2, <2>3, <2>4, AuthorityStep
<1> QED
  BY <1>1, Invariance, PTL DEF Spec, InterruptedReleaseStands

--------------------------------------------------------------------------------

\* How many steps the holder of _lock has left at most: a round of begin, apply,
\* verified, started (or stopped), effected and recorded, and another when it first
\* completes the transition of an earlier request.
Rounds == IF pending \in {NoRequest, authority.request} THEN 0 ELSE 6

Work ==
  CASE pc = "begin"    -> IF authority.phase = "applying" THEN 12 ELSE 6
    [] pc = "apply"    -> Rounds + 5
    [] pc = "verified" -> Rounds + 4
    [] pc = "started"  -> Rounds + 3
    [] pc = "stopped"  -> Rounds + 3
    [] pc = "effected" -> Rounds + 2
    [] pc = "recorded" -> Rounds + 1
    [] OTHER           -> 0

LEMMA WorkIsBounded == Work \in 0 .. 12
<1>1. Rounds \in {0, 6}
  BY DEF Rounds
<1> QED
  BY <1>1 DEF Work

\* set_mode, takeover and the constructor return: recovery happens once per call,
\* every step of the handler and every failure lowers a number that only the
\* taking of _lock raises.  Nothing can keep _lock held but a step that is slow.
THEOREM HandlerReturns ==
  Spec => /\ [](Work \in 0 .. 12)
          /\ [][/\ Handler \/ Fail => Work' < Work
                /\ Work' > Work => pc \in {"down", "free"} /\ pc' = "begin"]_vars
<1> DEFINE Lower == /\ Handler \/ Fail => Work' < Work
                    /\ Work' > Work => pc \in {"down", "free"} /\ pc' = "begin"
<1>1. IInv /\ [Next]_vars => [Lower]_vars
  <2> SUFFICES ASSUME TypeOK, TypeOK', Handling, Next PROVE Lower
    <3>1. IInv /\ [Next]_vars => TypeOK'
      BY TypeStep DEF IInv
    <3> QED
      BY <3>1 DEF IInv
  <2>0. /\ Rounds \in {0, 6} /\ Rounds' \in {0, 6}
        /\ Work \in 0 .. 12 /\ Work' \in 0 .. 12
    <3>1. Rounds \in {0, 6} /\ Rounds' \in {0, 6}
      BY DEF Rounds
    <3> QED
      BY <3>1 DEF Work
  <2> USE DEF Return, files, trainer, checked, history, bounds
  <2>1. CASE Recover
    BY <2>0, <2>1 DEF Recover, Work
  <2>2. CASE NothingToRecover \/ Replay \/ Refuse
    BY <2>0, <2>2 DEF NothingToRecover, Replay, Refuse, Work
  <2>3. CASE Accept
    <3>1. pending' = authority'.request /\ pc = "begin" /\ pc' = "apply"
          /\ authority.phase # "applying"
      BY <2>3 DEF Accept, Applying
    <3>2. Rounds' = 0
      BY <3>1 DEF Rounds
    <3> QED
      BY <3>1, <3>2 DEF Work
  <2>4. CASE StopUnit \/ CheckpointAccepted \/ VerifyCheckpoint \/ StartUnit \/ ConfirmActive
    <3>1. Rounds' = Rounds
      BY <2>4
         DEF StopUnit, CheckpointAccepted, VerifyCheckpoint, StartUnit, ConfirmActive, Rounds
    <3> QED
      BY <2>0, <2>4, <3>1
         DEF StopUnit, CheckpointAccepted, VerifyCheckpoint, StartUnit, ConfirmActive, Work
  <2>5. CASE CheckpointRefused \/ ResumeRefused \/ ResumeUnverified \/ Fail
    <3>1. pc' \in {"down", "free"}
          /\ pc \in Serving
      BY <2>5
         DEF CheckpointRefused, ResumeRefused, ResumeUnverified, Fail, Serving, Completing
    <3> QED
      BY <2>0, <3>1 DEF Work, Serving, Completing
  <2>6. CASE RecordAuthority
    <3>1. Rounds' = Rounds /\ pc = "effected" /\ pc' = "recorded"
      BY <2>6 DEF RecordAuthority, Ready, Rounds
    <3> QED
      BY <2>0, <3>1 DEF Work
  <2>7. CASE PublishState
    <3>1. authority' = authority /\ authority.phase = "ready" /\ pc = "recorded"
      BY <2>7 DEF PublishState, Handling
    <3>2. CASE pending \in {NoRequest, authority.request}
      BY <2>0, <2>7, <3>1, <3>2 DEF PublishState, Work
    <3>3. CASE pending \notin {NoRequest, authority.request}
      <4>1. Rounds = 6 /\ pc' = "begin"
        BY <2>7, <3>3 DEF PublishState, Rounds
      <4> QED
        BY <3>1, <4>1 DEF Work
    <3> QED
      BY <3>2, <3>3
  <2>8. CASE Publish \/ UnitExits
    <3>1. UNCHANGED <<pc, authority, pending>>
      BY <2>8 DEF Publish, UnitExits
    <3>2. Work' = Work
      BY <3>1 DEF Work, Rounds
    <3>3. ~(Handler \/ Fail)
      BY <2>8, <3>1
         DEF Handler, Fail, Recover, NothingToRecover, Replay, Refuse, Accept, StopUnit,
             CheckpointAccepted, CheckpointRefused, VerifyCheckpoint, ResumeRefused,
             StartUnit, ConfirmActive, ResumeUnverified, RecordAuthority, PublishState,
             Serving, Completing
    <3> QED
      BY <2>0, <3>2, <3>3
  <2>9. CASE Start \/ \E r \in Requests : Receive(r)
    <3>1. pc \in {"down", "free"} /\ pc' = "begin"
      BY <2>9 DEF Start, Receive
    <3>2. ~(Handler \/ Fail)
      BY <3>1
         DEF Handler, Fail, Recover, NothingToRecover, Replay, Refuse, Accept, StopUnit,
             CheckpointAccepted, CheckpointRefused, VerifyCheckpoint, ResumeRefused,
             StartUnit, ConfirmActive, ResumeUnverified, RecordAuthority, PublishState
    <3> QED
      BY <3>1, <3>2
  <2>10. CASE Crash /\ ~(Handler \/ Fail)
    BY <2>0, <2>10 DEF Crash, Work
  <2> QED
    BY <2>1, <2>2, <2>3, <2>4, <2>5, <2>6, <2>7, <2>8, <2>9, <2>10 DEF Next, Handler
<1>2. IInv => Work \in 0 .. 12
  BY WorkIsBounded
<1> QED
  BY <1>1, <1>2, Invariance, PTL DEF Spec
================================================================================
