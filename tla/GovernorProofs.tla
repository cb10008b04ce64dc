----------------------------- MODULE GovernorProofs ----------------------------
(***************************************************************************)
(* Theorems about Governor, for any controllers and plans, any number of   *)
(* leases and restarts, and any number of requests that travel on after    *)
(* their caller gave up.                                                   *)
(***************************************************************************)
EXTENDS Governor, TLAPS

\* A takeover asks for the normal mode; requests name existing leases; a
\* throttle on its way is in the journal.
Messages ==
  \A m \in wire :
    /\ m.request.kind = "takeover" => m.request.mode = "normal"
    /\ m.request.lease <= lease
    /\ m.request.mode = "released" =>
         \E i \in 1 .. throttle[m.request.lease] : plan[m.request.lease][i] = m.to

\* Nothing that restores a controller for a lease is sent before the lease is in
\* restoration, nor as long as its profile runs.
NoRestore ==
  \A m \in wire : m.request.mode = "normal" =>
    /\ m.request.lease = lease => task \notin {"admit", "serve"}
    /\ m.request.lease # inference

\* Where the process is tells what the journal and the profile are.
Progress ==
  /\ \A l \in Leases : l > lease => throttle[l] = 0
  /\ task = "admit" /\ pc = "journal" => throttle[lease] = step - 1
  /\ task = "admit" /\ pc \in {"send", "await"} => throttle[lease] = step
  /\ task = "admit" => inference = 0
  /\ task \in Restorations /\ pc # "absence" => inference = 0
  /\ inference # 0 => inference = lease /\ status[lease] \in Open

\* The controllers an admission has gone through, all of them once it is granted,
\* are released for it.
Through == IF pc \in {"journal", "send", "await"} THEN step - 1 ELSE Len(plan[lease])

Held ==
  task \in {"admit", "serve"} =>
    \A i \in 1 .. Through : ReleasedFor(plan[lease][i], lease)

\* While the restored controllers are marked, they are back; a controller that
\* is not was asked after its caller gave up.
Restored ==
  pc = "mark" =>
    \A i \in 1 .. throttle[lease] :
      Mode(plan[lease][i]) = "normal" \/ plan[lease][i] \in stray

\* Only the last row is open; the epoch of a row is past once it is recovered.
Rows ==
  /\ \A l \in Leases : status[l] \in Open => l = lease
  /\ \A l \in Leases : leaseEpoch[l] <= epoch
  /\ task = "recover" => leaseEpoch[lease] < epoch
  /\ task \notin {"none", "recover"} => leaseEpoch[lease] = epoch

\* The request is the throttle of its lease for c: it has the lease's first
\* fence, its epoch, and the place of c in the plan.
Displacing(r, c) ==
  /\ r.kind = "mode" /\ r.recovery = 0 /\ r.epoch = leaseEpoch[r.lease]
  /\ r.generation \in DOMAIN plan[r.lease]
  /\ plan[r.lease][r.generation] = c

Throttles ==
  \A m \in wire :
    /\ m.request.epoch <= epoch
    /\ m.request.mode = "released" => Displacing(m.request, m.to)

\* What a controller recorded is of a lease and an epoch of the past or the
\* present, and a return to normal is not of a lease that is being served.
Recorded ==
  \A c \in Controllers, r \in Requests : ctl[c] = [request |-> r] =>
    /\ r.lease <= lease /\ r.epoch <= epoch
    /\ r.mode = "released" => Displacing(r, c)
    /\ r.mode = "normal" /\ r.lease = lease => task \notin {"admit", "serve"}

\* A row is left open by a process that does nothing only in quarantine.
Settled ==
  /\ quarantined => pc = "idle" /\ lease \in Leases /\ status[lease] \in Open
  /\ pc = "idle" /\ ~quarantined => \A l \in Leases : status[l] \notin Open

IInv ==
  /\ Rows /\ Throttles /\ Recorded /\ Settled
  /\ TypeOK /\ Messages /\ NoRestore /\ Progress /\ Held /\ Restored
  /\ TrainingAside /\ JournalCovers /\ TrainingIsOwed

--------------------------------------------------------------------------------
(* Types *)

\* A plan is a sequence of controllers.
LEMMA PlanShape ==
  ASSUME RowTypes, NEW l \in Leases
  PROVE  /\ Len(plan[l]) \in Nat /\ DOMAIN plan[l] = 1 .. Len(plan[l])
         /\ \A i \in DOMAIN plan[l] : plan[l][i] \in Controllers
<1>1. plan[l] \in Displaces \/ plan[l] = <<>>
  BY DEF RowTypes
<1>2. <<>> \in Seq(Controllers)
  OBVIOUS
<1>3. plan[l] \in Seq(Controllers)
  BY <1>1, <1>2, ControllersAssumption
<1> QED
  BY <1>3

\* The request of a step is one of the lease in hand, to the controller of the
\* step: a throttle in an admission, a restore in a restoration.
LEMMA CurrentShape ==
  ASSUME TypeOK, pc \in {"send", "await"}
  PROVE  /\ lease \in Leases /\ step \in DOMAIN plan[lease]
         /\ task = "admit" \/ task \in Restorations
         /\ Current.to = plan[lease][step]
         /\ Current.request.lease = lease
         /\ task = "admit" => Current.request.mode = "released"
         /\ task \in Restorations => Current.request.mode = "normal"
         /\ Current.request.kind = "takeover" => Current.request.mode = "normal"
         /\ Current \in [to : Controllers, request : Requests]
<1> USE DEF Leases
<1>1. /\ task = "admit" \/ task \in Restorations
      /\ lease \in Leases /\ step \in DOMAIN plan[lease]
  BY DEF TypeOK, ThreadTypes, RowTypes, Restorations
<1>2. /\ plan[lease][step] \in Controllers /\ step \in Nat /\ throttle[lease] \in Nat
      /\ leaseEpoch[lease] \in 0 .. MaxEpochs /\ epoch \in 0 .. MaxEpochs
      /\ MaxEpochs \in Nat
  BY <1>1, PlanShape, BoundsAssumption DEF TypeOK, ThreadTypes, RowTypes
<1>3. CASE task = "admit"
  <2>1. Current = [to |-> plan[lease][step], request |-> Throttle(lease)]
    BY <1>3 DEF Current
  <2>2. Throttle(lease) \in Requests
    BY <1>1, <1>2 DEF Throttle, Requests
  <2> QED
    BY <1>1, <1>2, <1>3, <2>1, <2>2 DEF Throttle, Restorations
<1>4. CASE task \in {"rollback", "release"}
  <2>1. Current = [to |-> plan[lease][step], request |-> Restore(lease)]
    BY <1>4 DEF Current
  <2>2. Restore(lease) \in Requests
    BY <1>1, <1>2 DEF Restore, Requests, Restoring
  <2> QED
    BY <1>1, <1>2, <1>4, <2>1, <2>2 DEF Restore, Restorations
<1>5. CASE task = "recover"
  <2>1. Current = [to |-> plan[lease][step], request |-> Takeover(lease)]
    BY <1>5 DEF Current
  <2>2. step <= throttle[lease]
    BY <1>5 DEF TypeOK, ThreadTypes, Restorations
  <2>3. Takeover(lease) \in Requests
    BY <1>1, <1>2, <2>2 DEF Takeover, Requests, Restoring
  <2> QED
    BY <1>1, <1>2, <1>5, <2>1, <2>3 DEF Takeover, Restorations
<1> QED
  BY <1>1, <1>3, <1>4, <1>5 DEF Restorations

LEMMA InitInvariant == Init => IInv
<1> SUFFICES ASSUME Init PROVE IInv
  OBVIOUS
<1> USE BoundsAssumption DEF Leases
<1>1. ControllerTypes
  BY DEF Init, ControllerTypes
<1>2. RowTypes
  BY DEF Init, RowTypes, Open, Ended
<1>3. ThreadTypes
  BY DEF Init, ThreadTypes, Restorations
<1>4. TypeOK
  <2>1. inference \in 0 .. lease
    BY DEF Init
  <2>2. quarantined \in BOOLEAN
    BY Zenon DEF Init
  <2> QED
    BY <1>1, <1>2, <1>3, <2>1, <2>2, Zenon DEF TypeOK
<1>5. Messages /\ NoRestore /\ Held /\ Restored
  BY DEF Init, Messages, NoRestore, Held, Restored
<1>6. Progress
  BY DEF Init, Progress, Restorations
<1>7. TrainingAside /\ JournalCovers /\ TrainingIsOwed
  BY DEF Init, TrainingAside, JournalCovers, TrainingIsOwed, Mode
<1>8. Rows /\ Throttles /\ Recorded /\ Settled
  <2>1. \A r \in Requests : Absent # [request |-> r]
    BY DEF Absent
  <2> QED
    BY <2>1 DEF Init, Rows, Throttles, Recorded, Settled, Open
<1> QED
  BY <1>4, <1>5, <1>6, <1>7, <1>8 DEF IInv

\* Controllers and wire: only Serve writes the one, and Send and Serve the other.
LEMMA ControllersStep ==
  ASSUME TypeOK, [Next]_vars
  PROVE  /\ \/ UNCHANGED ctl
            \/ \E m \in wire : Serve(m)
         /\ \/ wire' \subseteq wire
            \/ Send
<1> USE DEF controllers
<1>1. CASE \E m \in wire : Serve(m) \/ Lose(m)
  BY <1>1 DEF Serve, Lose
<1>2. CASE \E p \in Displaces : StartAcquire(p)
  BY <1>2 DEF StartAcquire
<1>3. CASE Activate \/ InferenceEnds \/ Journal \/ Send \/ Observed \/ Admit
  BY <1>3 DEF Activate, InferenceEnds, Journal, Send, Observed, Admit
<1>4. CASE StartRelease \/ AbsenceVerified \/ Verified \/ MarkRestored \/ Close \/ Start
  BY <1>4 DEF StartRelease, AbsenceVerified, Verified, MarkRestored, Close, Start
<1>5. CASE AdmissionFails \/ RestoreFails \/ Stop
  BY <1>5 DEF AdmissionFails, RestoreFails, Stop, GivenUp
<1>6. CASE UNCHANGED vars
  BY <1>6 DEF vars
<1> QED
  BY <1>1, <1>2, <1>3, <1>4, <1>5, <1>6 DEF Next, Broker

LEMMA ControllerTypesStep ==
  ASSUME TypeOK, [Next]_vars
  PROVE  ControllerTypes'
<1>1. wire' \subseteq [to : Controllers, request : Requests]
  BY ControllersStep, CurrentShape DEF TypeOK, ControllerTypes, Send
<1>2. stray' \subseteq Controllers
  <2>1. CASE \E m \in wire : Serve(m)
    BY <2>1 DEF Serve, TypeOK, ControllerTypes
  <2>2. CASE UNCHANGED stray
    BY <2>2 DEF TypeOK, ControllerTypes
  <2> QED
    BY <2>1, <2>2
       DEF Next, Broker, Lose, StartAcquire, Activate, InferenceEnds, Journal, Send,
           Observed, Admit, StartRelease, AbsenceVerified, Verified, MarkRestored, Close, AdmissionFails,
           RestoreFails, Stop, Start, vars, controllers
<1>3. CASE UNCHANGED ctl
  BY <1>1, <1>2, <1>3 DEF TypeOK, ControllerTypes
<1>4. CASE \E m \in wire : Serve(m)
  <2>1. PICK m \in wire : Serve(m)
    BY <1>4
  <2>2. /\ m.to \in Controllers /\ m.request \in Requests
        /\ ctl' = [ctl EXCEPT ![m.to] = [request |-> m.request]]
    BY <2>1 DEF Serve, TypeOK, ControllerTypes
  <2>3. DOMAIN ctl' = Controllers
    BY <2>2 DEF TypeOK, ControllerTypes
  <2>4. ASSUME NEW c \in Controllers
        PROVE  \/ ctl'[c] = Absent
               \/ ctl'[c].request \in Requests /\ ctl'[c] = [request |-> ctl'[c].request]
    <3>1. CASE c = m.to
      <4>1. ctl'[c] = [request |-> m.request]
        BY <2>2, <3>1 DEF TypeOK, ControllerTypes
      <4> QED
        BY <2>2, <4>1
    <3>2. CASE c # m.to
      <4>1. ctl'[c] = ctl[c]
        BY <2>2, <3>2 DEF TypeOK, ControllerTypes
      <4> QED
        BY <4>1 DEF TypeOK, ControllerTypes
    <3> QED
      BY <3>1, <3>2
  <2> QED
    BY <1>1, <1>2, <2>3, <2>4 DEF ControllerTypes
<1> QED
  BY <1>3, <1>4, ControllersStep

\* Rows appear one by one and are then written by the process that handles them.
LEMMA RowTypesStep ==
  ASSUME TypeOK, [Next]_vars
  PROVE  RowTypes'
<1> USE DEF rows, Leases
<1>1. CASE UNCHANGED rows
  BY <1>1 DEF TypeOK, RowTypes
<1>2. CASE \E p \in Displaces : StartAcquire(p)
  <2>1. PICK p \in Displaces : StartAcquire(p)
    BY <1>2
  <2>2. /\ lease' = lease + 1 /\ lease' \in Leases
        /\ status' = [status EXCEPT ![lease'] = "acquiring"]
        /\ plan' = [plan EXCEPT ![lease'] = p]
        /\ leaseEpoch' = [leaseEpoch EXCEPT ![lease'] = epoch]
        /\ throttle' = throttle /\ epoch \in 0 .. MaxEpochs
    BY <2>1, BoundsAssumption DEF StartAcquire, TypeOK, RowTypes, ThreadTypes
  <2>3. p # <<>> /\ Len(p) \in Nat /\ Len(<<>>) = 0
    BY ControllersAssumption
  <2>4. throttle[lease'] = 0
    BY <2>2 DEF TypeOK, RowTypes
  <2>5. status' \in [Leases -> Open \cup Ended \cup {"none"}]
        /\ plan' \in [Leases -> Displaces \cup {<<>>}]
        /\ leaseEpoch' \in [Leases -> 0 .. MaxEpochs]
    BY <2>2 DEF TypeOK, RowTypes, Open
  <2>6. ASSUME NEW l \in Leases
        PROVE  /\ status'[l] = "none" <=> l > lease'
               /\ plan'[l] = <<>> <=> l > lease'
               /\ throttle'[l] <= Len(plan'[l])
    <3>1. CASE l = lease'
      BY <2>2, <2>3, <2>4, <3>1 DEF TypeOK, RowTypes
    <3>2. CASE l # lease'
      BY <2>2, <3>2 DEF TypeOK, RowTypes
    <3> QED
      BY <3>1, <3>2
  <2>7. lease' \in 0 .. MaxLeases /\ throttle' \in [Leases -> Nat]
    BY <2>2 DEF TypeOK, RowTypes
  <2> QED
    BY <2>5, <2>6, <2>7 DEF RowTypes
<1>3. CASE Journal
  <2>1. lease \in Leases /\ step \in Nat /\ step <= Len(plan[lease])
    BY <1>3, PlanShape DEF Journal, TypeOK, RowTypes, ThreadTypes
  <2> QED
    BY <1>3, <2>1 DEF Journal, TypeOK, RowTypes
<1>4. CASE \E s \in Open \cup Ended :
             /\ lease \in Leases /\ status[lease] \in Open
             /\ status' = [status EXCEPT ![lease] = s]
             /\ UNCHANGED <<lease, plan, throttle, leaseEpoch>>
  <2>1. PICK s \in Open \cup Ended : status' = [status EXCEPT ![lease] = s]
    BY <1>4
  <2>2. s # "none"
    BY DEF Open, Ended
  <2> QED
    BY <1>4, <2>1, <2>2 DEF TypeOK, RowTypes, Open
<1>5. task # "none" => lease \in Leases /\ status[lease] \in Open
  BY DEF TypeOK, RowTypes, ThreadTypes
<1>6. CASE Admit \/ StartRelease \/ Close \/ RestoreFails
  <2>1. task # "none"
    BY <1>6 DEF Admit, StartRelease, Close, RestoreFails, TypeOK, ThreadTypes, Restorations
  <2> QED
    BY <1>4, <1>5, <1>6, <2>1
       DEF Admit, StartRelease, Close, RestoreFails, Open, Ended
<1>7. CASE Start
  <2>1. CASE lease > 0 /\ status[lease] \in Open
    BY <1>4, <1>7, <2>1 DEF Start, TypeOK, RowTypes, Open
  <2>2. CASE ~(lease > 0 /\ status[lease] \in Open)
    BY <1>1, <1>7, <2>2 DEF Start
  <2> QED
    BY <2>1, <2>2
<1> QED
  BY <1>1, <1>2, <1>3, <1>6, <1>7
     DEF Next, Broker, Serve, Lose, Activate, InferenceEnds, Send, Observed,
         AbsenceVerified, Verified, MarkRestored, AdmissionFails, Stop, vars

\* A lease in hand stays the last, open row until its handler ends.
LEMMA ThreadTypesStep ==
  ASSUME TypeOK, RowTypes', [Next]_vars
  PROVE  ThreadTypes'
<1> USE DEF rows, process, thread, Leases, Restorations
<1>0. /\ task # "none" => /\ lease \in Leases /\ DOMAIN plan[lease] = 1 .. Len(plan[lease])
                          /\ Len(plan[lease]) \in Nat /\ throttle[lease] \in Nat
                          /\ throttle[lease] <= Len(plan[lease])
      /\ lease' # 0 => DOMAIN plan'[lease'] = 1 .. Len(plan'[lease'])
      /\ RowTypes /\ ThreadTypes
      /\ lease \in Nat /\ MaxEpochs \in Nat /\ MaxLeases \in Nat
  <2>1. /\ RowTypes /\ ThreadTypes /\ lease \in 0 .. MaxLeases
        /\ MaxEpochs \in Nat /\ MaxLeases \in Nat
    BY BoundsAssumption DEF TypeOK, RowTypes
  <2>2. task # "none" => lease \in Leases
    BY <2>1 DEF ThreadTypes
  <2>3. lease' # 0 => DOMAIN plan'[lease'] = 1 .. Len(plan'[lease'])
    <3>1. plan' \in [Leases -> Displaces \cup {<<>>}] /\ lease' \in 0 .. MaxLeases
      BY DEF RowTypes
    <3>2. \A p \in Displaces \cup {<<>>} : DOMAIN p = 1 .. Len(p)
      BY ControllersAssumption
    <3> QED
      BY <3>1, <3>2, <2>1
  <2>4. task # "none" => /\ DOMAIN plan[lease] = 1 .. Len(plan[lease])
                         /\ Len(plan[lease]) \in Nat /\ throttle[lease] \in Nat
                         /\ throttle[lease] <= Len(plan[lease])
    BY <2>1, <2>2, PlanShape DEF RowTypes
  <2> QED
    BY <2>1, <2>2, <2>3, <2>4
<1>1. CASE UNCHANGED <<lease, status, plan, throttle, epoch, task, pc, step>>
  BY <1>0, <1>1 DEF ThreadTypes
<1>2. CASE \E p \in Displaces : StartAcquire(p)
  <2>1. PICK p \in Displaces : StartAcquire(p)
    BY <1>2
  <2>2. /\ lease' \in Leases /\ status'[lease'] = "acquiring"
        /\ plan'[lease'] = p /\ Len(p) \in Nat /\ p # <<>> /\ DOMAIN p = 1 .. Len(p)
    BY <1>0, <2>1, ControllersAssumption DEF StartAcquire, RowTypes
  <2>3. step' \in DOMAIN plan'[lease']
    BY <2>1, <2>2 DEF StartAcquire
  <2> QED
    BY <1>0, <2>1, <2>2, <2>3 DEF StartAcquire, ThreadTypes, Open
<1>3. CASE Journal
  BY <1>0, <1>3 DEF Journal, ThreadTypes
<1>4. CASE Send
  BY <1>0, <1>4 DEF Send, ThreadTypes
<1>5. CASE Observed
  BY <1>0, <1>5 DEF Observed, ThreadTypes
<1>6. CASE Admit \/ StartRelease
  <2>1. lease \in Leases /\ status \in [Leases -> Open \cup Ended \cup {"none"}]
    BY <1>0, <1>6 DEF Admit, StartRelease, ThreadTypes, RowTypes
  <2>2. lease' = lease /\ lease > 0 /\ status'[lease'] \in Open
    <3>1. /\ lease' = lease
          /\ \/ status' = [status EXCEPT ![lease] = "active"]
             \/ status' = [status EXCEPT ![lease] = "releasing"]
      BY <1>6 DEF Admit, StartRelease
    <3>2. lease > 0
      BY <2>1, BoundsAssumption
    <3> QED
      BY <2>1, <3>1, <3>2 DEF Open
  <2>3. CASE Admit
    BY <1>0, <2>2, <2>3 DEF Admit, ThreadTypes
  <2>4. CASE StartRelease
    BY <1>0, <2>2, <2>4 DEF StartRelease, ThreadTypes
  <2> QED
    BY <1>6, <2>3, <2>4
<1>7. CASE AbsenceVerified \/ Verified \/ MarkRestored
  BY <1>0, <1>7 DEF AbsenceVerified, Verified, MarkRestored, ThreadTypes
<1>8. CASE Close \/ RestoreFails \/ Stop
  BY <1>0, <1>8 DEF Close, RestoreFails, Stop, ThreadTypes
<1>9. CASE AdmissionFails
  BY <1>0, <1>9 DEF AdmissionFails, ThreadTypes
<1>10. CASE Start
  <2>1. epoch' \in 0 .. MaxEpochs
    BY <1>0, <1>10 DEF Start, ThreadTypes
  <2>2. CASE lease > 0 /\ status[lease] \in Open
    BY <1>0, <1>10, <2>1, <2>2 DEF Start, ThreadTypes, RowTypes, Open
  <2>3. CASE ~(lease > 0 /\ status[lease] \in Open)
    BY <1>0, <1>10, <2>1, <2>3 DEF Start, ThreadTypes
  <2> QED
    BY <2>2, <2>3
<1> QED
  BY <1>1, <1>2, <1>3, <1>4, <1>5, <1>6, <1>7, <1>8, <1>9, <1>10
     DEF Next, Broker, Serve, Lose, Activate, InferenceEnds, vars

LEMMA TypeStep ==
  ASSUME TypeOK, Progress, [Next]_vars
  PROVE  TypeOK'
<1>1. ControllerTypes' /\ RowTypes' /\ ThreadTypes'
  BY ControllerTypesStep, RowTypesStep, ThreadTypesStep
<1>2. inference \in Nat /\ inference <= lease /\ lease \in Nat
  BY DEF TypeOK, RowTypes
<1>3. inference' \in 0 .. lease'
  <2>1. CASE UNCHANGED <<inference, lease>>
    BY <1>2, <2>1
  <2>2. CASE \E p \in Displaces : StartAcquire(p)
    BY <1>2, <2>2 DEF StartAcquire
  <2>3. CASE Activate \/ InferenceEnds
    BY <1>2, <2>3 DEF Activate, InferenceEnds, rows
  <2> QED
    BY <2>1, <2>2, <2>3
       DEF Next, Broker, Serve, Lose, Journal, Send, Observed, Admit, StartRelease,
           AbsenceVerified, Verified, MarkRestored, Close, AdmissionFails, RestoreFails, Stop, Start, vars, rows
<1>4. quarantined' = quarantined \/ quarantined' \in {TRUE, FALSE}
  BY Zenon
     DEF Next, Broker, Serve, Lose, StartAcquire, Activate, InferenceEnds, Journal, Send,
         Observed, Admit, StartRelease, AbsenceVerified, Verified, MarkRestored, Close, AdmissionFails,
         RestoreFails, Stop, Start, vars, process
<1>5. quarantined' \in BOOLEAN
  BY <1>4, Zenon DEF TypeOK
<1> QED
  BY <1>1, <1>3, <1>5, Zenon DEF TypeOK

--------------------------------------------------------------------------------
(* What is on the wire *)

\* The rows a message can name keep their plan, and their journal only grows.
LEMMA RowsStep ==
  ASSUME TypeOK, Progress, [Next]_vars
  PROVE  /\ lease <= lease'
         /\ \A l \in Leases : l <= lease => plan'[l] = plan[l] /\ throttle[l] <= throttle'[l]
<1> USE DEF rows
<1>1. /\ lease \in Nat /\ throttle \in [Leases -> Nat]
      /\ plan \in [Leases -> Displaces \cup {<<>>}]
  BY DEF TypeOK, RowTypes
<1>2. CASE \E p \in Displaces : StartAcquire(p)
  BY <1>1, <1>2 DEF StartAcquire
<1>3. CASE Journal
  <2>1. task = "admit" /\ throttle[lease] = step - 1 /\ step \in Nat
    BY <1>3 DEF Journal, Progress, TypeOK, ThreadTypes, Restorations
  <2> QED
    BY <1>1, <1>3, <2>1 DEF Journal
<1>4. CASE UNCHANGED <<lease, plan, throttle>>
  BY <1>1, <1>4
<1> QED
  BY <1>2, <1>3, <1>4
     DEF Next, Broker, Serve, Lose, Activate, InferenceEnds, Send, Observed, Admit,
         StartRelease, AbsenceVerified, Verified, MarkRestored, Close, AdmissionFails, RestoreFails, Stop, Start, vars

LEMMA MessagesStep ==
  ASSUME TypeOK, Messages, Progress, [Next]_vars
  PROVE  Messages'
<1> SUFFICES ASSUME NEW m \in wire'
             PROVE  /\ m.request.kind = "takeover" => m.request.mode = "normal"
                    /\ m.request.lease <= lease'
                    /\ m.request.mode = "released" =>
                         \E i \in 1 .. throttle'[m.request.lease] :
                           plan'[m.request.lease][i] = m.to
  BY DEF Messages
<1>1. CASE m \in wire
  <2>1. m.request.lease \in Leases
    BY <1>1 DEF TypeOK, ControllerTypes, Requests
  <2>2. /\ m.request.kind = "takeover" => m.request.mode = "normal"
        /\ m.request.lease <= lease
        /\ m.request.mode = "released" =>
             \E i \in 1 .. throttle[m.request.lease] : plan[m.request.lease][i] = m.to
    BY <1>1 DEF Messages
  <2>3. /\ plan'[m.request.lease] = plan[m.request.lease]
        /\ throttle[m.request.lease] <= throttle'[m.request.lease] /\ lease <= lease'
    BY <2>1, <2>2, RowsStep
  <2>4. /\ throttle[m.request.lease] \in Nat /\ throttle'[m.request.lease] \in Nat
        /\ lease \in Nat /\ lease' \in Nat /\ m.request.lease \in Nat
    <3>1. RowTypes /\ RowTypes'
      BY TypeStep DEF TypeOK
    <3>2. throttle \in [Leases -> Nat] /\ throttle' \in [Leases -> Nat]
          /\ lease \in 0 .. MaxLeases /\ lease' \in 0 .. MaxLeases
      BY <3>1 DEF RowTypes
    <3> QED
      BY <2>1, <3>2, BoundsAssumption DEF Leases
  <2> QED
    BY <2>2, <2>3, <2>4
<1>2. CASE m \notin wire
  <2>1. Send /\ m = Current
    BY <1>2, ControllersStep DEF Send
  <2>2. lease' = lease /\ plan' = plan /\ throttle' = throttle
    BY <2>1 DEF Send, rows
  <2>3. task = "admit" => throttle[lease] = step
    BY <2>1 DEF Send, Progress
  <2>4. /\ lease \in Leases /\ step \in DOMAIN plan[lease] /\ m.request.lease = lease
        /\ m.to = plan[lease][step]
        /\ m.request.mode = "released" => task = "admit"
        /\ m.request.kind = "takeover" => m.request.mode = "normal"
    BY <2>1, CurrentShape DEF Send
  <2>5. step \in 1 .. Len(plan[lease]) /\ lease \in Nat
    BY <2>4, PlanShape DEF TypeOK, Leases
  <2> QED
    BY <2>2, <2>3, <2>4, <2>5
<1> QED
  BY <1>1, <1>2

\* Where a handler is, and whether the profile runs.
LEMMA ProgressStep ==
  ASSUME TypeOK, Progress, [Next]_vars
  PROVE  Progress'
<1> USE DEF rows, thread, Restorations
<1>0. /\ lease \in Nat /\ inference \in Nat /\ inference <= lease
      /\ throttle \in [Leases -> Nat] /\ status \in [Leases -> Open \cup Ended \cup {"none"}]
      /\ task # "none" => lease \in Leases /\ status[lease] \in Open
      /\ \A l \in Leases : l \in Nat
      /\ ThreadTypes
  BY DEF TypeOK, RowTypes, ThreadTypes, Leases
<1>1. CASE (\E m \in wire : Serve(m) \/ Lose(m)) \/ Send \/ UNCHANGED vars
  BY <1>0, <1>1 DEF Serve, Lose, Send, vars, Progress
<1>2. CASE \E p \in Displaces : StartAcquire(p)
  <2>1. inference = 0
    BY <1>0, <1>2 DEF StartAcquire, Progress, Leases, TypeOK, RowTypes
  <2>2. /\ lease' = lease + 1 /\ lease' \in Leases /\ throttle' = throttle
        /\ task' = "admit" /\ pc' = "journal" /\ step' = 1 /\ inference' = inference
    BY <1>0, <1>2, BoundsAssumption DEF StartAcquire, Leases
  <2> QED
    BY <1>0, <2>1, <2>2 DEF Progress
<1>3. CASE Activate \/ InferenceEnds
  BY <1>0, <1>3 DEF Activate, InferenceEnds, Progress, ThreadTypes
<1>4. CASE Journal
  BY <1>0, <1>4 DEF Journal, Progress, ThreadTypes
<1>5. CASE Observed
  BY <1>0, <1>5 DEF Observed, Progress, ThreadTypes
<1>6. CASE Admit \/ StartRelease
  BY <1>0, <1>6 DEF Admit, StartRelease, Progress, Open
<1>7. CASE AbsenceVerified \/ Verified \/ MarkRestored
  BY <1>0, <1>7 DEF AbsenceVerified, Verified, MarkRestored, Progress, ThreadTypes
<1>8. CASE Close
  <2>1. task \in Restorations /\ inference = 0
    BY <1>0, <1>8 DEF Close, Progress, ThreadTypes
  <2> QED
    BY <1>0, <1>8, <2>1 DEF Close, Progress
<1>9. CASE AdmissionFails \/ RestoreFails \/ Stop
  BY <1>0, <1>9 DEF AdmissionFails, RestoreFails, Stop, Progress, Open
<1>10. CASE Start
  BY <1>0, <1>10 DEF Start, Progress, Open
<1> QED
  BY <1>1, <1>2, <1>3, <1>4, <1>5, <1>6, <1>7, <1>8, <1>9, <1>10 DEF Next, Broker

\* A restore is sent only in a restoration, which begins when the profile is absent.
LEMMA NoRestoreStep ==
  ASSUME TypeOK, Messages, NoRestore, Progress, [Next]_vars
  PROVE  NoRestore'
<1> USE DEF rows, thread
<1>0. /\ lease \in Nat /\ inference \in Nat
      /\ task = "none" \/ lease \in Leases
      /\ \A m \in wire : m.request.lease \in Leases /\ m.request.lease <= lease
      /\ \A l \in Leases : l \in Nat /\ l # 0
  BY DEF TypeOK, RowTypes, ThreadTypes, ControllerTypes, Requests, Messages, Leases
<1>1. CASE \E p \in Displaces : StartAcquire(p)
  <2>1. inference' = 0
    BY <1>0, <1>1 DEF StartAcquire, Progress, Leases, TypeOK, RowTypes
  <2>2. lease' = lease + 1 /\ wire' = wire
    BY <1>1 DEF StartAcquire
  <2> QED
    BY <1>0, <2>1, <2>2 DEF NoRestore
<1>2. CASE Send
  <2>1. \A m \in wire' : m \in wire \/ m = Current
    BY <1>2 DEF Send
  <2>2. UNCHANGED <<lease, task, inference>>
    BY <1>2 DEF Send
  <2>3. ASSUME Current.request.mode = "normal"
        PROVE  task \notin {"admit", "serve"} /\ Current.request.lease # inference
    <3>1. task \in Restorations /\ Current.request.lease = lease /\ lease \in Leases
      BY <1>2, <2>3, CurrentShape DEF Send
    <3>2. inference = 0
      BY <1>2, <3>1 DEF Send, Progress
    <3> QED
      BY <1>0, <3>1, <3>2 DEF Restorations
  <2> QED
    BY <2>1, <2>2, <2>3 DEF NoRestore
<1>3. CASE Activate
  BY <1>0, <1>3 DEF Activate, NoRestore, TypeOK, ThreadTypes, Restorations
<1>4. CASE InferenceEnds
  BY <1>0, <1>4 DEF InferenceEnds, NoRestore
<1>5. CASE Admit
  BY <1>5 DEF Admit, NoRestore
<1>6. CASE /\ wire' \subseteq wire /\ UNCHANGED <<lease, inference>>
           /\ task' = task \/ task' \notin {"admit", "serve"}
  BY <1>6 DEF NoRestore
<1>7. wire' \subseteq wire \/ Send
  BY ControllersStep
<1> QED
  BY <1>1, <1>2, <1>3, <1>4, <1>5, <1>6, <1>7
     DEF Next, Broker, Serve, Lose, Journal, Observed, StartRelease, AbsenceVerified, Verified, MarkRestored, Close,
         AdmissionFails, RestoreFails, Stop, Start, vars

--------------------------------------------------------------------------------
(* What the controllers hold *)

\* A controller that is released for a lease stays so as long as nothing that
\* restores it for that lease is on its way: the fence refuses the rest.
LEMMA StaysReleased ==
  ASSUME TypeOK, Messages, [Next]_vars, NEW c \in Controllers, NEW l, ReleasedFor(c, l),
         \A m \in wire : m.request.mode = "normal" => m.request.lease # l
  PROVE  ReleasedFor(c, l)'
<1> USE DEF ReleasedFor, Mode
<1>1. ctl[c] # Absent /\ ctl[c].request.mode = "released" /\ ctl[c].request.lease = l
  OBVIOUS
<1>2. CASE UNCHANGED ctl
  BY <1>2
<1>3. CASE \E m \in wire : Serve(m)
  <2>1. PICK m \in wire : Serve(m)
    BY <1>3
  <2>2. /\ m.to \in Controllers /\ m.request.mode \in {"normal", "released"}
        /\ m.request.kind \in {"mode", "takeover"}
        /\ ctl' = [ctl EXCEPT ![m.to] = [request |-> m.request]]
        /\ DOMAIN ctl = Controllers
        /\ m.request.kind = "takeover" => m.request.mode = "normal"
    BY <2>1 DEF Serve, TypeOK, ControllerTypes, Requests, Messages
  <2>3. CASE m.to # c
    <3>1. ctl'[c] = ctl[c]
      BY <2>2, <2>3
    <3> QED
      BY <3>1
  <2>4. CASE m.to = c
    <3>1. ctl'[c] = [request |-> m.request]
      BY <2>2, <2>4
    <3>2. MayFollow(m.request, ctl[c])
      BY <2>1, <2>4 DEF Serve
    <3>3. m.request.lease = l
      BY <1>1, <3>2 DEF MayFollow, ModeAllowed, TakeoverAllowed
    <3>4. m.request.mode = "released"
      BY <2>2, <3>3
    <3>5. ctl'[c] # Absent
      <4>1. DOMAIN ctl'[c] # DOMAIN Absent
        BY <3>1 DEF Absent
      <4> QED
        BY <4>1
    <3> QED
      BY <3>1, <3>3, <3>4, <3>5
  <2> QED
    BY <2>3, <2>4
<1> QED
  BY <1>2, <1>3, ControllersStep

\* An admission keeps what it has gone through.
LEMMA HeldStep ==
  ASSUME TypeOK, Messages, NoRestore, Progress, Held, [Next]_vars
  PROVE  Held'
<1> USE DEF rows, thread
<1>1. CASE \E p \in Displaces : StartAcquire(p)
  BY <1>1 DEF StartAcquire, Held, Through
<1>2. CASE /\ UNCHANGED <<lease, plan>>
           /\ task \in {"admit", "serve"} /\ task' \in {"admit", "serve"}
  <2>1. lease \in Leases /\ ThreadTypes
    BY <1>2 DEF TypeOK, ThreadTypes, RowTypes, Leases
  <2>2. Len(plan[lease]) \in Nat /\ DOMAIN plan[lease] = 1 .. Len(plan[lease])
        /\ \A i \in DOMAIN plan[lease] : plan[lease][i] \in Controllers
    BY <2>1, PlanShape DEF TypeOK
  <2>3. Through <= Len(plan[lease]) /\ Through \in Int
    BY <2>1, <2>2 DEF Through, ThreadTypes
  <2>4. \A i \in 1 .. Through : ReleasedFor(plan[lease][i], lease)'
    <3> SUFFICES ASSUME NEW i \in 1 .. Through PROVE ReleasedFor(plan[lease][i], lease)'
      OBVIOUS
    <3>1. plan[lease][i] \in Controllers /\ ReleasedFor(plan[lease][i], lease)
      BY <1>2, <2>2, <2>3 DEF Held
    <3>2. \A m \in wire : m.request.mode = "normal" => m.request.lease # lease
      BY <1>2 DEF NoRestore
    <3>3. \A c \in Controllers : ReleasedFor(c, lease) =>
            (ctl'[c] # Absent /\ ctl'[c].request.mode = "released"
               /\ ctl'[c].request.lease = lease)
      BY <3>2, StaysReleased DEF ReleasedFor, Mode
    <3> QED
      BY <1>2, <3>1, <3>3 DEF ReleasedFor, Mode
  <2>5. CASE Observed
    <3>1. /\ pc = "await" /\ ctl' = ctl /\ step \in DOMAIN plan[lease]
          /\ task = "admit" /\ ctl[Current.to] = [request |-> Current.request]
      BY <1>2, <2>1, <2>5 DEF Observed, ThreadTypes, Restorations, controllers
    <3>2. /\ Current.to = plan[lease][step] /\ Current.request.lease = lease
          /\ Current.request.mode = "released"
      BY <3>1, CurrentShape
    <3>3. ctl[Current.to] # Absent
      <4>1. DOMAIN ctl[Current.to] # DOMAIN Absent
        BY <3>1 DEF Absent
      <4> QED
        BY <4>1
    <3>4. ReleasedFor(plan[lease][step], lease)
      BY <3>1, <3>2, <3>3 DEF ReleasedFor, Mode
    <3>5. /\ Through = step - 1 /\ Through' = step /\ step \in Nat
      BY <1>2, <2>1, <2>2, <2>5, <3>1 DEF Observed, Through, ThreadTypes
    <3>6. \A i \in 1 .. step : ReleasedFor(plan[lease][i], lease)
      BY <1>2, <3>4, <3>5 DEF Held
    <3> QED
      BY <1>2, <3>1, <3>5, <3>6 DEF Held, ReleasedFor, Mode
  <2>6. CASE ~Observed
    <3>1. Through' = Through
      BY <1>2, <2>1, <2>6
         DEF Next, Broker, Serve, Lose, StartAcquire, Activate, InferenceEnds, Journal, Send,
             Admit, StartRelease, AbsenceVerified, Verified, MarkRestored, Close, AdmissionFails, RestoreFails, Stop,
             Start, vars, Through, ThreadTypes, Restorations
    <3> QED
      BY <1>2, <2>4, <3>1 DEF Held, ReleasedFor, Mode
  <2> QED
    BY <2>5, <2>6
<1>3. CASE task' \notin {"admit", "serve"}
  BY <1>3 DEF Held
<1> QED
  BY <1>1, <1>2, <1>3
     DEF Next, Broker, Serve, Lose, Activate, InferenceEnds, Journal, Send, Observed,
         Admit, StartRelease, AbsenceVerified, Verified, MarkRestored, Close, AdmissionFails, RestoreFails, Stop,
         Start, vars, TypeOK, ThreadTypes, Restorations

\* The profile starts under an admitted lease, which holds every controller.
LEMMA AsideStep ==
  ASSUME TypeOK, Messages, NoRestore, Progress, Held, TrainingAside, [Next]_vars
  PROVE  TrainingAside'
<1> USE DEF rows
<1>0. /\ lease \in Nat /\ inference \in Nat /\ inference <= lease
      /\ \A l \in Leases : l \in Nat
      /\ inference # 0 => inference \in Leases
  BY BoundsAssumption DEF TypeOK, RowTypes, Leases
<1>1. CASE inference' = inference /\ inference # 0
  <2>1. plan'[inference] = plan[inference]
    BY <1>0, <1>1, RowsStep
  <2>2. \A i \in DOMAIN plan[inference] :
          plan[inference][i] \in Controllers /\ ReleasedFor(plan[inference][i], inference)
    BY <1>0, <1>1, PlanShape DEF TrainingAside, TypeOK
  <2>3. \A m \in wire : m.request.mode = "normal" => m.request.lease # inference
    BY DEF NoRestore
  <2>4. \A c \in Controllers : ReleasedFor(c, inference) =>
          (ctl'[c] # Absent /\ ctl'[c].request.mode = "released"
             /\ ctl'[c].request.lease = inference)
    BY <2>3, StaysReleased DEF ReleasedFor, Mode
  <2> QED
    BY <1>1, <2>1, <2>2, <2>4 DEF TrainingAside, ReleasedFor, Mode
<1>2. CASE Activate
  <2>1. task = "serve" /\ pc = "active" /\ lease \in Leases
    BY <1>2 DEF Activate, TypeOK, ThreadTypes, RowTypes, Restorations, Leases
  <2>2. \A i \in DOMAIN plan[lease] : ReleasedFor(plan[lease][i], lease)
    BY <2>1, PlanShape DEF Held, Through, TypeOK
  <2>3. inference' = lease /\ plan' = plan /\ ctl' = ctl
    BY <1>2 DEF Activate, controllers
  <2> QED
    BY <2>2, <2>3 DEF TrainingAside, ReleasedFor, Mode
<1>3. CASE inference' = 0
  BY <1>3 DEF TrainingAside
<1> QED
  BY <1>1, <1>2, <1>3
     DEF Next, Broker, Serve, Lose, StartAcquire, InferenceEnds, Journal, Send, Observed,
         Admit, StartRelease, AbsenceVerified, Verified, MarkRestored, Close, AdmissionFails, RestoreFails, Stop,
         Start, vars

\* A controller is released by a throttle, which was journalled before it was sent.
LEMMA CoversStep ==
  ASSUME TypeOK, Messages, Progress, JournalCovers, [Next]_vars
  PROVE  JournalCovers'
<1> SUFFICES ASSUME NEW c \in Controllers, Mode(c)' = "released"
             PROVE  \E i \in 1 .. throttle'[ctl'[c].request.lease] :
                      plan'[ctl'[c].request.lease][i] = c
  BY DEF JournalCovers
<1>1. /\ ctl'[c] # Absent /\ ctl'[c].request.mode = "released"
      /\ ctl'[c].request.lease \in Leases
  BY TypeStep DEF Mode, TypeOK, ControllerTypes, Requests
<1>2. \E i \in 1 .. throttle[ctl'[c].request.lease] : plan[ctl'[c].request.lease][i] = c
  <2>1. CASE UNCHANGED ctl
    BY <1>1, <2>1 DEF JournalCovers, Mode
  <2>2. CASE \E m \in wire : Serve(m)
    <3>1. PICK m \in wire : Serve(m)
      BY <2>2
    <3>2. ctl' = [ctl EXCEPT ![m.to] = [request |-> m.request]] /\ DOMAIN ctl = Controllers
      BY <3>1 DEF Serve, TypeOK, ControllerTypes
    <3>3. CASE m.to = c
      <4>1. ctl'[c] = [request |-> m.request]
        BY <3>2, <3>3
      <4>2. m.request.mode = "released" /\ ctl'[c].request.lease = m.request.lease
        BY <1>1, <4>1
      <4> QED
        BY <3>3, <4>2 DEF Messages
    <3>4. CASE m.to # c
      <4>1. ctl'[c] = ctl[c]
        BY <3>2, <3>4
      <4> QED
        BY <1>1, <4>1 DEF JournalCovers, Mode
    <3> QED
      BY <3>3, <3>4
  <2> QED
    BY <2>1, <2>2, ControllersStep
<1>3. /\ throttle \in [Leases -> Nat] /\ throttle' \in [Leases -> Nat]
      /\ \A l \in Leases : l > lease => throttle[l] = 0
      /\ lease \in Nat /\ \A l \in Leases : l \in Nat
  BY TypeStep DEF TypeOK, RowTypes, Progress, Leases
<1>4. ctl'[c].request.lease <= lease
  BY <1>1, <1>2, <1>3
<1> QED
  BY <1>1, <1>2, <1>3, <1>4, RowsStep

\* What is verified stays so, but for requests that nobody waits for.
LEMMA RestoredStep ==
  ASSUME TypeOK, Restored, [Next]_vars
  PROVE  Restored'
<1> USE DEF rows, controllers, thread
<1>1. CASE Verified
  BY <1>1 DEF Verified, Restored, Mode
<1>2. CASE \E m \in wire : Serve(m)
  <2>1. PICK m \in wire : Serve(m)
    BY <1>2
  <2>2. /\ ctl' = [ctl EXCEPT ![m.to] = [request |-> m.request]] /\ DOMAIN ctl = Controllers
        /\ UNCHANGED <<pc, lease, plan, throttle>>
        /\ pc = "mark" => stray' = stray \cup {m.to}
    BY <2>1 DEF Serve, TypeOK, ControllerTypes, Awaited
  <2>3. ASSUME NEW i \in 1 .. throttle[lease], pc = "mark"
        PROVE  Mode(plan[lease][i])' = "normal" \/ plan[lease][i] \in stray'
    <3>1. CASE plan[lease][i] = m.to
      BY <2>2, <2>3, <3>1
    <3>2. CASE plan[lease][i] # m.to
      <4>1. plan[lease][i] \in Controllers
        <5>1. task \in Restorations /\ lease \in Leases
          BY <2>3 DEF TypeOK, ThreadTypes, RowTypes, Restorations, Leases
        <5> QED
          BY <5>1, PlanShape DEF TypeOK, RowTypes
      <4>2. ctl'[plan[lease][i]] = ctl[plan[lease][i]]
        BY <2>2, <3>2, <4>1
      <4>3. Mode(plan[lease][i]) = "normal" \/ plan[lease][i] \in stray
        BY <2>3 DEF Restored
      <4> QED
        BY <2>2, <2>3, <4>2, <4>3 DEF Mode
    <3> QED
      BY <3>1, <3>2
  <2> QED
    BY <2>2, <2>3 DEF Restored, Mode
<1>3. CASE pc' # "mark"
  BY <1>3 DEF Restored
<1>4. CASE UNCHANGED <<ctl, stray, pc, lease, plan, throttle>>
  BY <1>4 DEF Restored, Mode
<1> QED
  BY <1>1, <1>2, <1>3, <1>4
     DEF Next, Broker, Lose, StartAcquire, Activate, InferenceEnds, Journal, Send, Observed,
         Admit, StartRelease, AbsenceVerified, MarkRestored, Close, AdmissionFails,
         RestoreFails, Stop, Start, vars

\* A row is closed when every controller of its journal is back; a controller
\* that is released for it is in its journal.
LEMMA OwedStep ==
  ASSUME TypeOK, Messages, Progress, Restored, JournalCovers, TrainingIsOwed, [Next]_vars
  PROVE  TrainingIsOwed'
<1> USE DEF rows, controllers
<1> SUFFICES ASSUME NEW c \in Controllers, c \notin stray', Mode(c)' = "released"
             PROVE  status'[ctl'[c].request.lease] \in Open
  BY DEF TrainingIsOwed
<1>0. /\ status \in [Leases -> Open \cup Ended \cup {"none"}]
      /\ task # "none" => lease \in Leases /\ status[lease] \in Open
      /\ lease \in 0 .. MaxLeases /\ MaxLeases \in Nat
  BY BoundsAssumption DEF TypeOK, RowTypes, ThreadTypes, Leases
<1>1. CASE \E m \in wire : Serve(m)
  <2>1. PICK m \in wire : Serve(m)
    BY <1>1
  <2>2. /\ ctl' = [ctl EXCEPT ![m.to] = [request |-> m.request]] /\ DOMAIN ctl = Controllers
        /\ status' = status
        /\ stray' = IF m \in Awaited THEN stray \ {m.to} ELSE stray \cup {m.to}
    BY <2>1 DEF Serve, TypeOK, ControllerTypes
  <2>3. CASE m.to = c
    <3>1. pc = "await" /\ m = Current
      BY <2>2, <2>3 DEF Awaited
    <3>2. ctl'[c].request.lease = lease /\ status[lease] \in Open
      BY <1>0, <2>2, <2>3, <3>1, CurrentShape DEF Restorations
    <3> QED
      BY <2>2, <3>2
  <2>4. CASE m.to # c
    <3>1. ctl'[c] = ctl[c] /\ c \notin stray
      BY <2>2, <2>4
    <3> QED
      BY <2>2, <3>1 DEF TrainingIsOwed, Mode
  <2> QED
    BY <2>3, <2>4
<1>2. CASE UNCHANGED <<ctl, stray>>
  <2>1. Mode(c) = "released" /\ c \notin stray
    BY <1>2 DEF Mode
  <2>2. status[ctl[c].request.lease] \in Open /\ ctl[c].request.lease \in Leases
    BY <2>1 DEF TrainingIsOwed, Mode, TypeOK, ControllerTypes, Requests
  <2>3. CASE Close
    <3>1. ctl[c].request.lease # lease
      <4>1. \A i \in 1 .. throttle[lease] :
              Mode(plan[lease][i]) = "normal" \/ plan[lease][i] \in stray
        BY <2>3 DEF Close, Restored
      <4>2. \E i \in 1 .. throttle[ctl[c].request.lease] : plan[ctl[c].request.lease][i] = c
        BY <2>1 DEF JournalCovers
      <4> QED
        BY <2>1, <4>1, <4>2
    <3>2. status'[ctl[c].request.lease] = status[ctl[c].request.lease]
      BY <1>0, <2>2, <2>3, <3>1 DEF Close
    <3> QED
      BY <1>2, <2>2, <3>2
  <2>4. CASE \E s \in Open, l \in 0 .. MaxLeases : status' = [status EXCEPT ![l] = s]
    BY <1>0, <1>2, <2>2, <2>4
  <2>5. CASE UNCHANGED status
    BY <1>2, <2>2, <2>5
  <2>6. CASE \E p \in Displaces : StartAcquire(p)
    <3>1. lease + 1 \in 0 .. MaxLeases /\ status' = [status EXCEPT ![lease + 1] = "acquiring"]
      BY <1>0, <2>6 DEF StartAcquire
    <3> QED
      BY <2>4, <3>1 DEF Open
  <2>7. CASE Admit \/ StartRelease \/ RestoreFails \/ Start
    <3>1. \/ UNCHANGED status
          \/ status' = [status EXCEPT ![lease] = "active"]
          \/ status' = [status EXCEPT ![lease] = "releasing"]
          \/ status' = [status EXCEPT ![lease] = "unknown"]
      BY <2>7 DEF Admit, StartRelease, RestoreFails, Start
    <3> QED
      BY <1>0, <2>4, <2>5, <3>1 DEF Open
  <2> QED
    BY <1>1, <2>3, <2>5, <2>6, <2>7
       DEF Next, Broker, Lose, Activate, InferenceEnds, Journal, Send, Observed,
           AbsenceVerified, Verified, MarkRestored, AdmissionFails, Stop, vars
<1>3. (\E m \in wire : Serve(m)) \/ UNCHANGED <<ctl, stray>>
  BY DEF Next, Broker, Lose, StartAcquire, Activate, InferenceEnds, Journal, Send, Observed,
         Admit, StartRelease, AbsenceVerified, Verified, MarkRestored, Close, AdmissionFails, RestoreFails, Stop,
         Start, vars
<1> QED
  BY <1>1, <1>2, <1>3

--------------------------------------------------------------------------------
(* Rows, and what controllers recorded *)

LEMMA OpenRowStep ==
  ASSUME TypeOK, Rows, [Next]_vars
  PROVE  Rows'
<1> USE DEF rows, process, thread, Leases
<1>0. /\ status \in [Leases -> Open \cup Ended \cup {"none"}] /\ lease \in 0 .. MaxLeases
      /\ leaseEpoch \in [Leases -> 0 .. MaxEpochs] /\ epoch \in 0 .. MaxEpochs
      /\ MaxLeases \in Nat /\ MaxEpochs \in Nat
      /\ task # "none" => lease \in Leases /\ status[lease] \in Open
  BY BoundsAssumption DEF TypeOK, RowTypes, ThreadTypes
<1>1. CASE \E p \in Displaces : StartAcquire(p)
  BY <1>0, <1>1 DEF StartAcquire, Rows
<1>2. CASE Start
  <2>1. epoch' \in Int /\ epoch < epoch' /\ leaseEpoch' = leaseEpoch /\ lease' = lease
    BY <1>0, <1>2 DEF Start
  <2>2. (task' = "recover" => lease \in Leases) /\ task' \in {"none", "recover"}
    BY <1>0, <1>2 DEF Start
  <2>3. \A l \in Leases : status'[l] \in Open => l = lease
    <3>1. status' = status \/ status' = [status EXCEPT ![lease] = "unknown"]
      BY <1>2 DEF Start
    <3> QED
      BY <1>0, <3>1 DEF Rows
  <2> QED
    BY <1>0, <2>1, <2>2, <2>3 DEF Rows
<1>3. CASE /\ UNCHANGED <<lease, leaseEpoch, epoch>>
           /\ task' = "recover" => task = "recover"
           /\ task' \notin {"none", "recover"} => task \notin {"none", "recover"}
           /\ \A l \in Leases : status'[l] \in Open => l = lease
  BY <1>3 DEF Rows
<1>4. CASE Admit \/ StartRelease \/ Close \/ RestoreFails
  <2>1. \A l \in Leases : l # lease => status'[l] = status[l]
    BY <1>0, <1>4 DEF Admit, StartRelease, Close, RestoreFails
  <2>2. /\ UNCHANGED <<lease, leaseEpoch, epoch>> /\ task' # "recover"
        /\ task' \notin {"none", "recover"} => task \notin {"none", "recover"}
    BY <1>0, <1>4 DEF Admit, StartRelease, Close, RestoreFails, TypeOK, ThreadTypes,
                      Restorations
  <2> QED
    BY <1>3, <2>1, <2>2 DEF Rows
<1> QED
  BY <1>1, <1>2, <1>3, <1>4
     DEF Next, Broker, Serve, Lose, Activate, InferenceEnds, Journal, Send, Observed,
         AbsenceVerified, Verified, MarkRestored, AdmissionFails, Stop, vars, Rows


\* A throttle is sent with its place in the plan and the epoch of its lease.
LEMMA RequestsKeep ==
  ASSUME TypeOK, Progress, [Next]_vars,
         NEW r \in Requests, NEW c \in Controllers, r.lease <= lease
  PROVE  /\ r.epoch <= epoch => r.epoch <= epoch'
         /\ r.lease <= lease'
         /\ Displacing(r, c) => Displacing(r, c)'
<1>1. /\ r.lease \in Leases /\ lease \in Nat /\ leaseEpoch \in [Leases -> 0 .. MaxEpochs]
      /\ \A l \in Leases : l \in Nat
      /\ r.epoch \in Int /\ epoch \in Int
  BY BoundsAssumption DEF TypeOK, RowTypes, ThreadTypes, Requests, Leases
<1>2. plan'[r.lease] = plan[r.lease] /\ lease <= lease'
  BY <1>1, RowsStep
<1>3. leaseEpoch'[r.lease] = leaseEpoch[r.lease]
  <2>1. CASE \E p \in Displaces : StartAcquire(p)
    BY <1>1, <2>1 DEF StartAcquire
  <2>2. CASE UNCHANGED leaseEpoch
    BY <2>2
  <2> QED
    BY <2>1, <2>2
       DEF Next, Broker, Serve, Lose, Activate, InferenceEnds, Journal, Send, Observed,
           Admit, StartRelease, AbsenceVerified, Verified, MarkRestored, Close,
           AdmissionFails, RestoreFails, Stop, Start, vars, rows
<1>4. epoch' \in Int /\ epoch <= epoch'
  <2>1. CASE Start
    BY <1>1, <2>1 DEF Start
  <2>2. CASE UNCHANGED epoch
    BY <1>1, <2>2
  <2> QED
    BY <2>1, <2>2
       DEF Next, Broker, Serve, Lose, StartAcquire, Activate, InferenceEnds, Journal, Send,
           Observed, Admit, StartRelease, AbsenceVerified, Verified, MarkRestored, Close,
           AdmissionFails, RestoreFails, Stop, vars, process
<1>5. lease' \in Nat
  BY TypeStep, BoundsAssumption DEF TypeOK, RowTypes
<1> QED
  BY <1>1, <1>2, <1>3, <1>4, <1>5 DEF Displacing

LEMMA ThrottlesStep ==
  ASSUME TypeOK, Progress, Messages, Throttles, Rows, [Next]_vars
  PROVE  Throttles'
<1> SUFFICES ASSUME NEW m \in wire'
             PROVE  /\ m.request.epoch <= epoch'
                    /\ m.request.mode = "released" => Displacing(m.request, m.to)'
  BY DEF Throttles
<1>1. CASE m \in wire
  <2>1. m.request \in Requests /\ m.to \in Controllers /\ m.request.lease <= lease
    BY <1>1 DEF TypeOK, ControllerTypes, Messages
  <2> QED
    BY <1>1, <2>1, RequestsKeep DEF Throttles
<1>2. CASE m \notin wire
  <2>1. Send /\ m = Current
    BY <1>2, ControllersStep DEF Send
  <2>2. /\ lease \in Leases /\ step \in DOMAIN plan[lease]
        /\ task = "admit" \/ task \in Restorations
        /\ m.request.mode = "released" => task = "admit"
        /\ UNCHANGED <<plan, leaseEpoch, epoch>>
    BY <2>1, CurrentShape DEF Send, rows, process
  <2>3. leaseEpoch[lease] <= epoch /\ epoch <= epoch
    BY <2>2, BoundsAssumption DEF Rows, TypeOK, ThreadTypes
  <2>4. m.request.epoch <= epoch'
    BY <2>1, <2>2, <2>3 DEF Current, Throttle, Restore, Takeover, Restorations
  <2>5. CASE task = "admit"
    <3>1. m = [to |-> plan[lease][step], request |-> Throttle(lease)]
      BY <2>1, <2>5 DEF Current
    <3> QED
      BY <2>2, <2>4, <3>1 DEF Throttle, Displacing
  <2> QED
    BY <2>2, <2>4, <2>5
<1> QED
  BY <1>1, <1>2

LEMMA RecordedStep ==
  ASSUME TypeOK, Progress, Messages, Throttles, NoRestore, Recorded, [Next]_vars
  PROVE  Recorded'
<1> SUFFICES ASSUME NEW c \in Controllers, NEW r \in Requests, ctl'[c] = [request |-> r]
             PROVE  /\ r.lease <= lease' /\ r.epoch <= epoch'
                    /\ r.mode = "released" => Displacing(r, c)'
                    /\ r.mode = "normal" /\ r.lease = lease'
                         => task' \notin {"admit", "serve"}
  BY DEF Recorded
<1>1. CASE ctl'[c] = ctl[c]
  <2>1. /\ r.lease <= lease /\ r.epoch <= epoch
        /\ r.mode = "released" => Displacing(r, c)
        /\ r.mode = "normal" /\ r.lease = lease => task \notin {"admit", "serve"}
    BY <1>1 DEF Recorded
  <2>2. /\ r.lease <= lease' /\ r.epoch <= epoch'
        /\ r.mode = "released" => Displacing(r, c)'
    BY <2>1, RequestsKeep
  <2>3. \/ task' \notin {"admit", "serve"}
        \/ lease' = lease /\ task \in {"admit", "serve"}
        \/ lease' = lease + 1
    BY DEF Next, Broker, Serve, Lose, StartAcquire, Activate, InferenceEnds, Journal, Send,
           Observed, Admit, StartRelease, AbsenceVerified, Verified, MarkRestored, Close,
           AdmissionFails, RestoreFails, Stop, Start, Restorations, vars, rows, thread
  <2>4. lease \in Int /\ r.lease \in Int
    BY BoundsAssumption DEF TypeOK, RowTypes, Requests, Leases
  <2>5. r.mode = "normal" /\ r.lease = lease' => task' \notin {"admit", "serve"}
    BY <2>1, <2>3, <2>4
  <2> QED
    BY <2>2, <2>5
<1>2. CASE ctl'[c] # ctl[c]
  <2>1. PICK m \in wire : Serve(m)
    BY <1>2, ControllersStep
  <2>2. m.to = c /\ m.request = r /\ lease' = lease /\ task' = task
    BY <1>2, <2>1 DEF Serve, TypeOK, ControllerTypes, rows, thread
  <2>3. /\ r.lease <= lease /\ r.epoch <= epoch
        /\ r.mode = "released" => Displacing(r, c)
        /\ r.mode = "normal" /\ r.lease = lease => task \notin {"admit", "serve"}
    BY <2>1, <2>2 DEF Messages, Throttles, NoRestore
  <2>4. /\ r.lease <= lease' /\ r.epoch <= epoch'
        /\ r.mode = "released" => Displacing(r, c)'
    BY <2>3, RequestsKeep
  <2> QED
    BY <2>2, <2>3, <2>4
<1> QED
  BY <1>1, <1>2

LEMMA SettledStep ==
  ASSUME TypeOK, Rows, Settled, [Next]_vars
  PROVE  Settled'
<1> USE DEF rows, process, thread
<1>0. /\ status \in [Leases -> Open \cup Ended \cup {"none"}] /\ lease \in 0 .. MaxLeases
      /\ task # "none" => lease \in Leases /\ status[lease] \in Open
      /\ Open \cap Ended = {} /\ {"acquiring", "active", "releasing", "unknown"} = Open
      /\ {"released", "denied"} = Ended
      /\ pc = "idle" => task = "none"
  BY BoundsAssumption DEF TypeOK, RowTypes, ThreadTypes, Leases, Open, Ended, Restorations
<1>1. CASE \E p \in Displaces : StartAcquire(p)
  <2>1. pc' = "journal" /\ ~quarantined'
    BY <1>1 DEF StartAcquire
  <2> QED
    BY <2>1 DEF Settled
<1>7. CASE Stop
  <2>1. pc' = "down" /\ ~quarantined'
    BY <1>7 DEF Stop
  <2> QED
    BY <2>1 DEF Settled
<1>2. CASE Start
  <2>1. ~quarantined /\ ~quarantined'
    BY <1>2 DEF Start, Settled
  <2>2. CASE lease > 0 /\ status[lease] \in Open
    BY <1>2, <2>1, <2>2 DEF Start, Settled
  <2>3. CASE ~(lease > 0 /\ status[lease] \in Open)
    <3>1. \A l \in Leases : status[l] \notin Open
      BY <2>3 DEF Rows, Leases
    <3> QED
      BY <1>2, <2>1, <2>3, <3>1 DEF Start, Settled
  <2> QED
    BY <2>2, <2>3
<1>3. CASE Close
  BY <1>0, <1>3 DEF Close, Settled, Rows
<1>4. CASE RestoreFails
  BY <1>0, <1>4 DEF RestoreFails, Settled, Restorations
<1>5. CASE Journal \/ Send \/ Observed \/ Admit \/ StartRelease \/ AbsenceVerified \/ Verified
           \/ MarkRestored \/ AdmissionFails
  BY <1>0, <1>5 DEF Journal, Send, Observed, Admit, StartRelease, AbsenceVerified, Verified,
                    MarkRestored, AdmissionFails, Settled, Restorations
<1>6. CASE UNCHANGED <<quarantined, pc, lease, status>>
  BY <1>6 DEF Settled
<1> QED
  BY <1>1, <1>2, <1>3, <1>4, <1>5, <1>6, <1>7
     DEF Next, Broker, Serve, Lose, Activate, InferenceEnds, vars

--------------------------------------------------------------------------------

LEMMA InvarianceStep ==
  ASSUME IInv, [Next]_vars
  PROVE  IInv'
BY TypeStep, MessagesStep, NoRestoreStep, ProgressStep, HeldStep, RestoredStep, AsideStep,
   CoversStep, OwedStep, OpenRowStep, ThrottlesStep, RecordedStep, SettledStep DEF IInv

LEMMA Invariance == Spec => []IInv
<1>1. IInv /\ [Next]_vars => IInv'
  BY InvarianceStep
<1> QED
  BY InitInvariant, <1>1, PTL DEF Spec

\* Rows, controllers and the process keep their types; whoever handles a lease
\* handles the last row, and it is open.
THEOREM TypeCorrect == Spec => []TypeOK
<1>1. IInv => TypeOK
  BY DEF IInv
<1> QED
  BY <1>1, Invariance, PTL

\* While the inference profile runs, every service its lease displaced stays
\* released for that lease (acquire, release, _reconcile_after_lock).
THEOREM TrainingStaysAside == Spec => []TrainingAside
<1>1. IInv => TrainingAside
  BY DEF IInv
<1> QED
  BY <1>1, Invariance, PTL

\* Every released service is in the journal of its lease, at every point of a
\* crash (acquire).
THEOREM EveryReleaseJournalled == Spec => []JournalCovers
<1>1. IInv => JournalCovers
  BY DEF IInv
<1> QED
  BY <1>1, Invariance, PTL

\* No row is closed while a service is released for it, unless the throttle
\* came after its caller gave up (release, _verify_restored_controllers).
THEOREM NoTrainingForgotten == Spec => []TrainingIsOwed
<1>1. IInv => TrainingIsOwed
  BY DEF IInv
<1> QED
  BY <1>1, Invariance, PTL
--------------------------------------------------------------------------------
(* Fences *)

\* What a controller recorded is one of the requests, whose properties Recorded
\* tells.
LEMMA RecordedShape ==
  ASSUME IInv, NEW c \in Controllers, ctl[c] # Absent
  PROVE  /\ ctl[c].request \in Requests
         /\ ctl[c].request.lease <= lease /\ ctl[c].request.epoch <= epoch
         /\ ctl[c].request.mode = "released" => Displacing(ctl[c].request, c)
         /\ ctl[c].request.mode = "normal" /\ ctl[c].request.lease = lease
              => task \notin {"admit", "serve"}
<1>1. ctl[c].request \in Requests /\ ctl[c] = [request |-> ctl[c].request]
  BY DEF IInv, TypeOK, ControllerTypes
<1> QED
  BY <1>1 DEF IInv, Recorded

\* A plan displaces no controller twice.
LEMMA PlaceInPlan ==
  ASSUME TypeOK, NEW l \in Leases, NEW i \in DOMAIN plan[l], NEW j \in DOMAIN plan[l],
         plan[l][i] = plan[l][j]
  PROVE  i = j
<1>1. plan[l] \in Displaces \/ plan[l] = <<>>
  BY DEF TypeOK, RowTypes
<1> QED
  BY <1>1, ControllersAssumption

\* Whoever restores a service that is released for the lease in hand, the process
\* that displaced it or one after a restart, sends what its controller accepts
\* (_controller_transition, _reconcile_after_lock and _check_fence).
THEOREM RestoresAreAccepted == Spec => []ReleasedIsRestorable
<1>1. ASSUME IInv PROVE ReleasedIsRestorable
  <2> SUFFICES ASSUME pc \in {"send", "await"}, task \in Restorations,
                      ReleasedFor(Current.to, lease)
               PROVE  MayFollow(Current.request, ctl[Current.to])
    BY DEF ReleasedIsRestorable
  <2> DEFINE c == plan[lease][step]
             r == ctl[c].request
  <2>1. /\ lease \in Leases /\ step \in DOMAIN plan[lease] /\ c \in Controllers
        /\ Current.to = c
    BY <1>1, CurrentShape, PlanShape DEF IInv, TypeOK
  <2>2. ctl[c] # Absent /\ r.mode = "released" /\ r.lease = lease
    BY <2>1 DEF ReleasedFor, Mode
  <2>3. r \in Requests /\ Displacing(r, c)
    BY <1>1, <2>1, <2>2, RecordedShape
  <2>4. r.recovery = 0 /\ r.epoch = leaseEpoch[lease] /\ r.generation = step
    BY <1>1, <2>1, <2>2, <2>3, PlaceInPlan DEF Displacing, IInv
  <2>5. step \in Nat \ {0} /\ Len(plan[lease]) \in Nat
    BY <1>1, <2>1, PlanShape DEF IInv, TypeOK
  <2>6. CASE task = "recover"
    <3>1. Current.request = Takeover(lease)
      BY <2>6 DEF Current
    <3>2. leaseEpoch[lease] < epoch
      BY <1>1, <2>6 DEF IInv, Rows
    <3> QED
      BY <2>1, <2>2, <2>4, <3>1, <3>2 DEF Takeover, MayFollow, TakeoverAllowed, Fence
  <2>7. CASE task \in {"rollback", "release"}
    <3>1. Current.request = Restore(lease)
      BY <2>7 DEF Current
    <3>2. Restoring + step > step
      BY <2>5 DEF Restoring
    <3> QED
      BY <2>1, <2>2, <2>4, <3>1, <3>2 DEF Restore, MayFollow, ModeAllowed, Fence
  <2> QED
    BY <2>6, <2>7 DEF Restorations
<1> QED
  BY <1>1, Invariance, PTL

\* The first service of a plan, when it is at work, accepts its throttle (acquire
\* and _check_fence).
THEOREM FirstThrottleIsAccepted == Spec => []FirstIsThrottled
<1>1. ASSUME IInv PROVE FirstIsThrottled
  <2> SUFFICES ASSUME pc \in {"send", "await"}, task = "admit", step = 1,
                      Mode(Current.to) = "normal"
               PROVE  MayFollow(Current.request, ctl[Current.to])
    BY DEF FirstIsThrottled
  <2> DEFINE c == plan[lease][step]
             r == ctl[c].request
  <2>1. lease \in Leases /\ c \in Controllers /\ Current.to = c
    BY <1>1, CurrentShape, PlanShape DEF IInv, TypeOK
  <2>2. Current.request = Throttle(lease) /\ leaseEpoch[lease] = epoch
    BY <1>1 DEF Current, IInv, Rows
  <2>3. CASE ctl[c] = Absent
    BY <2>1, <2>2, <2>3 DEF MayFollow, ModeAllowed, Throttle
  <2>4. CASE ctl[c] # Absent
    <3>1. r \in Requests /\ r.epoch <= epoch /\ r.mode = "normal" /\ r.lease # lease
      BY <1>1, <2>1, <2>4, RecordedShape DEF Mode
    <3>2. r.epoch \in Int /\ epoch \in Int
      BY <1>1, <3>1, BoundsAssumption DEF Requests, IInv, TypeOK, ThreadTypes
    <3> QED
      BY <2>1, <2>2, <3>1, <3>2 DEF MayFollow, ModeAllowed, Throttle
  <2> QED
    BY <2>3, <2>4
<1> QED
  BY <1>1, Invariance, PTL

\* Each controller goes from request to request as the fence register allows,
\* whatever else it is sent.
THEOREM ControllersAreFenced ==
  ASSUME NEW c \in Controllers
  PROVE  Spec => Register(c)!Spec
<1>1. Init => Register(c)!Init
  BY DEF Init, Register!Init, Absent, Register!Absent
<1>2. ASSUME TypeOK, [Next]_vars PROVE [Register(c)!Next]_(ctl[c])
  <2>1. CASE UNCHANGED ctl
    BY <2>1
  <2>2. CASE \E m \in wire : Serve(m)
    <3>1. PICK m \in wire : Serve(m)
      BY <2>2
    <3>2. /\ m.to \in Controllers /\ m.request \in Requests /\ DOMAIN ctl = Controllers
          /\ MayFollow(m.request, ctl[m.to])
          /\ ctl' = [ctl EXCEPT ![m.to] = [request |-> m.request]]
      BY <1>2, <3>1 DEF Serve, TypeOK, ControllerTypes
    <3>3. CASE m.to = c
      <4>1. ctl'[c] = [request |-> m.request] /\ MayFollow(m.request, ctl[c])
        BY <3>2, <3>3
      <4>2. Register(c)!MayFollow(m.request, ctl[c])
        BY <4>1
           DEF MayFollow, Register!MayFollow, TakeoverAllowed, Register!TakeoverAllowed,
               ModeAllowed, Register!ModeAllowed, Fence, Register!Fence, Absent,
               Register!Absent
      <4> QED
        BY <3>2, <4>1, <4>2 DEF Register!Next, Register!Serve
    <3>4. CASE m.to # c
      BY <3>2, <3>4
    <3> QED
      BY <3>3, <3>4
  <2> QED
    BY <1>2, <2>1, <2>2, ControllersStep
<1> QED
  BY <1>1, <1>2, TypeCorrect, PTL DEF Spec, Register!Spec

\* The broker of the model takes and gives up the host as HostEpoch's processes do,
\* under an epoch that nobody had before.
THEOREM BrokerIsOwner == Spec => Owner!Spec
<1> USE DEF rows, process, thread
<1>1. Init => Owner!Init
  BY DEF Init, Owner!Init
<1>2. ASSUME TypeOK, [Next]_vars PROVE [Owner!Next]_Owner!vars
  <2>1. CASE Start
    <3>1. pc = "down" /\ pc' # "down" /\ epoch' \in Nat /\ epoch' > epoch
      BY <1>2, <2>1, BoundsAssumption DEF Start, TypeOK, ThreadTypes
    <3> QED
      BY <3>1 DEF Owner!Next, Owner!Acquire
  <2>2. CASE Stop
    <3>1. pc # "down" /\ pc' = "down" /\ epoch' = epoch
      BY <2>2 DEF Stop
    <3> QED
      BY <3>1 DEF Owner!Next, Owner!Release
  <2>3. CASE epoch' = epoch /\ (pc = "down" <=> pc' = "down")
    BY <2>3 DEF Owner!vars
  <2>4. CASE Journal \/ Send \/ Observed \/ Admit \/ StartRelease \/ AbsenceVerified
             \/ Verified \/ MarkRestored \/ Close
    BY <2>3, <2>4 DEF Journal, Send, Observed, Admit, StartRelease, AbsenceVerified,
                      Verified, MarkRestored, Close
  <2>5. CASE AdmissionFails \/ RestoreFails
    <3>1. pc # "down"
      BY <1>2, <2>5 DEF AdmissionFails, RestoreFails, TypeOK, ThreadTypes, Restorations
    <3> QED
      BY <2>3, <2>5, <3>1 DEF AdmissionFails, RestoreFails
  <2>6. CASE \E p \in Displaces : StartAcquire(p)
    BY <2>3, <2>6 DEF StartAcquire
  <2>7. CASE UNCHANGED <<epoch, pc>>
    BY <2>3, <2>7
  <2> QED
    BY <1>2, <2>1, <2>2, <2>4, <2>5, <2>6, <2>7
       DEF Next, Broker, Serve, Lose, Activate, InferenceEnds, vars
<1> QED
  BY <1>1, <1>2, TypeCorrect, PTL DEF Spec, Owner!Spec

--------------------------------------------------------------------------------
(* The ledger *)

\* With its restorations, failures and restarts the coordinator keeps the ledger
\* of leases (acquire, release, _reconcile_after_lock).
THEOREM LedgerIsKept == Spec => KeepsLedger
<1> USE DEF rows, process, thread
<1>1. Init => Ledger!Init
  BY DEF Init, Ledger!Init, Open
<1>2. ASSUME IInv, [Next]_vars PROVE [Ledger!Next]_Ledger!vars
  <2> DEFINE up == pc # "down" /\ task # "recover"
             open == \E l \in Leases : status[l] \in Open
  <2>0. /\ status \in [Leases -> Open \cup Ended \cup {"none"}] /\ lease \in 0 .. MaxLeases
        /\ task # "none" => lease \in Leases /\ status[lease] \in Open /\ pc # "down"
        /\ task = "none" => pc \in {"down", "idle"}
        /\ \A l \in Leases : status[l] \in Open => l = lease
        /\ task # "none" \/ pc = "down" => ~quarantined
        /\ "released" \notin Open /\ "denied" \notin Open
        /\ "acquiring" \in Open /\ "unknown" \in Open /\ "active" \in Open
        /\ "releasing" \in Open
    BY <1>2, BoundsAssumption
       DEF IInv, Rows, Settled, TypeOK, RowTypes, ThreadTypes, Leases, Restorations, Open
  <2>1. CASE \E p \in Displaces : StartAcquire(p)
    <3>1. /\ up /\ up' = up /\ ~quarantined /\ quarantined' \in BOOLEAN /\ ~open
      BY <1>2, <2>0, <2>1 DEF StartAcquire, IInv, TypeOK
    <3>2. open' = TRUE
      <4>1. lease + 1 \in Leases /\ status' = [status EXCEPT ![lease + 1] = "acquiring"]
        BY <2>0, <2>1, BoundsAssumption DEF StartAcquire, Leases
      <4> QED
        BY <2>0, <4>1
    <3> QED
      BY <3>1, <3>2, Zenon DEF Ledger!Next, Ledger!Grant
  <2>2. CASE Close
    <3>1. /\ open /\ ~quarantined /\ up' = TRUE /\ (up <=> task # "recover")
          /\ quarantined' = FALSE
      BY <1>2, <2>0, <2>2 DEF Close, IInv, TypeOK, ThreadTypes, Restorations
    <3>2. open' = FALSE
      <4>1. status' = [status EXCEPT ![lease] = "denied"]
            \/ status' = [status EXCEPT ![lease] = "released"]
        BY <2>2 DEF Close
      <4>2. task # "none"
        BY <1>2, <2>2 DEF Close, IInv, TypeOK, ThreadTypes
      <4> QED
        BY <2>0, <4>1, <4>2
    <3> QED
      <4>1. CASE up
        <5>1. up' = up /\ quarantined' = quarantined
          BY <2>0, <2>2, <3>1, <4>1 DEF Close
        <5> QED
          BY <3>1, <3>2, <4>1, <5>1, Zenon DEF Ledger!Next, Ledger!Settle
      <4>2. CASE ~up
        BY <3>1, <3>2, <4>2, Zenon DEF Ledger!Next, Ledger!Reconcile
      <4> QED
        BY <4>1, <4>2
  <2>3. CASE RestoreFails
    <3>1. /\ open /\ ~quarantined /\ up' /\ (up <=> task # "recover") /\ quarantined'
      BY <2>0, <2>3 DEF RestoreFails, Restorations
    <3>2. open'
      BY <2>0, <2>3 DEF RestoreFails, Restorations
    <3> QED
      BY <3>1, <3>2 DEF Ledger!Next, Ledger!LoseTrack, Ledger!Reconcile
  <2>4. CASE Stop
    <3>1. up' = FALSE /\ quarantined' = FALSE /\ open' = open
      BY <2>0, <2>4 DEF Stop
    <3>2. CASE up
      BY <3>1, <3>2, Zenon DEF Ledger!Next, Ledger!End
    <3>3. CASE ~up
      <4>1. up' = up /\ quarantined' = quarantined
        BY <1>2, <2>0, <2>4, <3>3 DEF Stop, IInv, TypeOK
      <4> QED
        BY <3>1, <4>1, Zenon DEF Ledger!vars
    <3> QED
      BY <3>2, <3>3
  <2>5. CASE Start
    <3>1. ~up /\ ~quarantined /\ ~quarantined'
      BY <2>0, <2>5 DEF Start
    <3>2. CASE lease > 0 /\ status[lease] \in Open
      BY <2>0, <2>5, <3>1, <3>2 DEF Start, Ledger!vars, Leases
    <3>3. CASE ~(lease > 0 /\ status[lease] \in Open)
      <4>1. \A l \in Leases : status[l] \notin Open
        BY <2>0, <3>3 DEF Leases
      <4>2. status' = status /\ task' = "none" /\ pc' = "idle" /\ quarantined' = quarantined
        BY <2>5, <3>3 DEF Start
      <4>3. open = FALSE /\ open' = FALSE /\ up' = TRUE /\ quarantined' = FALSE
        BY <1>2, <3>1, <4>1, <4>2 DEF IInv, TypeOK
      <4> QED
        BY <3>1, <4>3, Zenon DEF Ledger!Next, Ledger!Reconcile
    <3> QED
      BY <3>2, <3>3
  <2>6. CASE (up <=> up') /\ open = open' /\ quarantined' = quarantined
    BY <2>6 DEF Ledger!vars
  <2>7. CASE Admit \/ StartRelease
    <3>1. up /\ up' /\ quarantined' = quarantined /\ open /\ lease \in Leases
      BY <1>2, <2>0, <2>7
         DEF Admit, StartRelease, IInv, TypeOK, ThreadTypes, Restorations
    <3>2. open'
      BY <2>0, <2>7, <3>1 DEF Admit, StartRelease
    <3> QED
      BY <2>6, <3>1, <3>2
  <2>8. CASE Journal \/ Send \/ Observed \/ AbsenceVerified \/ Verified \/ MarkRestored
             \/ AdmissionFails
    <3>1. /\ UNCHANGED <<status, quarantined>> /\ pc # "down" /\ pc' # "down"
          /\ task = "recover" <=> task' = "recover"
      BY <2>0, <2>8 DEF Journal, Send, Observed, AbsenceVerified, Verified, MarkRestored,
                        AdmissionFails
    <3> QED
      BY <2>6, <3>1
  <2>9. CASE UNCHANGED <<status, quarantined, pc, task>>
    BY <2>6, <2>9
  <2> QED
    BY <1>2, <2>1, <2>2, <2>3, <2>4, <2>5, <2>7, <2>8, <2>9
       DEF Next, Broker, Serve, Lose, Activate, InferenceEnds, vars
<1> QED
  BY <1>1, <1>2, Invariance, PTL DEF Spec, KeepsLedger, Ledger!Spec

--------------------------------------------------------------------------------
(* Every task ends *)

\* How many steps the process is at most from having no lease in hand, once the
\* scheduler asks for the release: a throttle takes three steps, a restoration two,
\* a mark one.
RestorationWork ==
  CASE pc = "absence" -> 3 * throttle[lease] + 3
    [] pc = "send" -> throttle[lease] + 2 * step + 2
    [] pc = "await" -> throttle[lease] + 2 * step + 1
    [] pc = "confirm" -> throttle[lease] + 2
    [] pc = "mark" -> step + 1

AdmissionWork ==
  CASE pc = "journal" -> 3 * (Len(plan[lease]) - step) + 4
    [] pc = "send" -> 3 * (Len(plan[lease]) - step) + 3
    [] pc = "await" -> 3 * (Len(plan[lease]) - step) + 2
    [] pc = "confirm" -> 1

Work ==
  CASE task = "none" -> 0
    [] task \in Restorations -> RestorationWork
    [] task = "serve" -> 3 * Len(plan[lease]) + 4
    [] task = "admit" -> 3 * Len(plan[lease]) + 4 + AdmissionWork

\* What the process does for a lease is over after a number of its own steps that the
\* plan gives, whatever the controllers do meanwhile: every step of a task lowers a
\* number that only an admission out of idleness or a start of the process raises
\* (acquire, release, reconcile).
THEOREM EveryTaskEnds ==
  Spec => /\ [](Work \in Nat)
          /\ [][/\ Broker /\ task # "none" => Work' < Work
                /\ Work' > Work => task = "none" /\ pc \in {"idle", "down"}]_vars
<1> DEFINE Facts ==
      /\ lease \in Leases /\ step \in Nat
      /\ Len(plan[lease]) \in Nat
      /\ throttle[lease] \in Nat /\ throttle[lease] <= Len(plan[lease])
      /\ task = "admit" => pc \in {"journal", "send", "await", "confirm"}
      /\ task = "serve" => pc = "active"
      /\ task \in Restorations =>
           pc \in {"absence", "send", "await", "confirm", "mark"} /\ step <= throttle[lease]
      /\ pc \in {"journal", "send", "await"} => 1 <= step /\ step <= Len(plan[lease])
<1>1. ASSUME TypeOK, task # "none" PROVE Facts
  <2>1. lease \in Leases
    BY <1>1 DEF TypeOK, ThreadTypes, RowTypes, Leases
  <2> QED
    BY <1>1, <2>1, PlanShape DEF TypeOK, ThreadTypes, RowTypes
<1> DEFINE n == 3 * (Len(plan[lease]) - step)
           k == throttle[lease] + 2 * step
<1>a. /\ pc = "journal" => AdmissionWork = n + 4
      /\ pc = "send" => AdmissionWork = n + 3
      /\ pc = "await" => AdmissionWork = n + 2
      /\ pc = "confirm" => AdmissionWork = 1
  BY DEF AdmissionWork
<1>r. /\ pc = "absence" => RestorationWork = 3 * throttle[lease] + 3
      /\ pc = "send" => RestorationWork = k + 2
      /\ pc = "await" => RestorationWork = k + 1
      /\ pc = "confirm" => RestorationWork = throttle[lease] + 2
      /\ pc = "mark" => RestorationWork = step + 1
  BY DEF RestorationWork
<1>b. ASSUME Facts PROVE /\ pc \in {"journal", "send", "await"} => n \in Nat
                         /\ k \in Nat
  BY <1>b
<1>c. ASSUME Facts, task = "admit" PROVE AdmissionWork \in Nat
  <2> HIDE DEF n
  <2> QED
    BY <1>a, <1>b, <1>c
<1>d. ASSUME Facts, task \in Restorations PROVE RestorationWork \in Nat
  <2> HIDE DEF k
  <2> QED
    BY <1>r, <1>b, <1>d
<1>2. ASSUME TypeOK PROVE Work \in Nat
  <2>1. CASE task = "none"
    BY <2>1 DEF Work, Restorations
  <2>2. CASE task \in Restorations
    <3>1. Facts /\ task # "none"
      BY <1>1, <1>2, <2>2 DEF Restorations
    <3>2. RestorationWork \in Nat
      BY <1>d, <2>2, <3>1
    <3> QED
      BY <2>2, <3>1, <3>2 DEF Work, Restorations
  <2>3. CASE task = "serve"
    BY <1>1, <1>2, <2>3 DEF Work, Restorations
  <2>4. CASE task = "admit"
    <3>1. Facts
      BY <1>1, <1>2, <2>4
    <3>2. AdmissionWork \in Nat
      BY <1>c, <2>4, <3>1
    <3> QED
      BY <2>4, <3>1, <3>2 DEF Work, Restorations
  <2> QED
    BY <1>2, <2>1, <2>2, <2>3, <2>4 DEF TypeOK, ThreadTypes
<1>3. ASSUME TypeOK, Broker, task # "none" PROVE Work' < Work
  <2> USE DEF rows, process, thread
  <2>0. Facts
    BY <1>1, <1>3
  <2>1. ASSUME task = "admit", task' = "admit", UNCHANGED <<lease, plan>>,
               AdmissionWork' < AdmissionWork, AdmissionWork \in Nat, AdmissionWork' \in Int
        PROVE  Work' < Work
    BY <2>0, <2>1 DEF Work, Restorations
  <2>2. ASSUME task \in Restorations, task' = task, RestorationWork' < RestorationWork
        PROVE  Work' < Work
    BY <2>2 DEF Work, Restorations
  <2>3. ASSUME task \in {"admit", "serve"}, task' \in Restorations,
               RestorationWork' \in 0 .. 3 * Len(plan[lease]) + 3
        PROVE  Work' < Work
    <3>1. Work' = RestorationWork'
      BY <2>3 DEF Work, Restorations
    <3>2. task = "admit" => AdmissionWork \in Nat
      BY <1>c, <2>0
    <3>3. 3 * Len(plan[lease]) + 4 <= Work
      BY <2>0, <2>3, <3>2 DEF Work, Restorations
    <3>4. Work \in Nat
      BY <1>2, <1>3
    <3> QED
      BY <2>0, <2>3, <3>1, <3>3, <3>4
  <2>4. CASE Journal \/ (Send /\ task = "admit") \/ (Observed /\ task = "admit")
    <3>1. task = "admit" /\ task' = "admit" /\ UNCHANGED <<lease, plan>>
      BY <1>3, <2>4
         DEF Journal, Send, Observed, TypeOK, ThreadTypes, Restorations
    <3>2. AdmissionWork \in Nat /\ lease \in Leases /\ step \in Nat
      BY <1>c, <2>0, <3>1
    <3>3. CASE Journal
      <4>1. AdmissionWork = n + 4 /\ AdmissionWork' = n + 3 /\ n \in Nat
        BY <1>a, <1>b, <2>0, <3>3 DEF Journal, AdmissionWork
      <4> QED
        BY <2>1, <3>1, <4>1
    <3>4. CASE Send
      <4>1. AdmissionWork = n + 3 /\ AdmissionWork' = n + 2 /\ n \in Nat
        BY <1>a, <1>b, <2>0, <3>4 DEF Send, AdmissionWork
      <4> QED
        BY <2>1, <3>1, <4>1
    <3>5. CASE Observed
      <4>1. AdmissionWork = n + 2 /\ n \in Nat
        BY <1>a, <1>b, <2>0, <3>5 DEF Observed
      <4>2. CASE step < Len(plan[lease])
        <5>1. pc' = "journal" /\ step' = step + 1
          BY <3>1, <3>5, <4>2 DEF Observed
        <5>2. AdmissionWork' = 3 * (Len(plan[lease]) - (step + 1)) + 4
          BY <3>1, <5>1 DEF AdmissionWork
        <5>3. AdmissionWork' = n + 1
          BY <2>0, <5>2
        <5> QED
          BY <2>1, <3>1, <4>1, <5>3
      <4>3. CASE ~(step < Len(plan[lease]))
        <5>1. AdmissionWork' = 1
          BY <3>1, <3>5, <4>3 DEF Observed, AdmissionWork
        <5> QED
          BY <2>1, <3>1, <4>1, <5>1
      <4> QED
        BY <4>2, <4>3
    <3> QED
      BY <2>4, <3>3, <3>4, <3>5
  <2>5. CASE \/ AbsenceVerified \/ Verified \/ MarkRestored
             \/ (Send /\ task \in Restorations) \/ (Observed /\ task \in Restorations)
    <3>1. /\ task \in Restorations /\ task' = task /\ UNCHANGED <<lease, plan, throttle>>
          /\ task # "admit"
      BY <1>3, <2>5
         DEF AbsenceVerified, Verified, MarkRestored, Send, Observed, TypeOK, ThreadTypes,
             Restorations
    <3>2. RestorationWork' < RestorationWork
      BY <2>0, <2>5, <3>1
         DEF AbsenceVerified, Verified, MarkRestored, Send, Observed, RestorationWork
    <3> QED
      BY <2>2, <3>1, <3>2
  <2>6. CASE AdmissionFails \/ StartRelease
    <3>1. /\ task \in {"admit", "serve"} /\ task' \in Restorations
          /\ UNCHANGED <<lease, plan, throttle>>
      BY <1>3, <2>6 DEF AdmissionFails, StartRelease, TypeOK, ThreadTypes, Restorations
    <3>2. RestorationWork' \in 0 .. 3 * Len(plan[lease]) + 3
      BY <2>0, <2>6, <3>1 DEF AdmissionFails, StartRelease, RestorationWork
    <3> QED
      BY <2>3, <3>1, <3>2
  <2>7. CASE Close \/ RestoreFails
    <3>1. task \in Restorations /\ task' = "none"
      BY <1>3, <2>7 DEF Close, RestoreFails, TypeOK, ThreadTypes, Restorations
    <3>2. RestorationWork > 0
      BY <2>0, <3>1 DEF RestorationWork
    <3> QED
      BY <3>1, <3>2 DEF Work, Restorations
  <2>8. CASE Admit
    <3>1. /\ task = "admit" /\ pc = "confirm" /\ task' = "serve" /\ plan' = plan
          /\ lease' = lease
      BY <2>8 DEF Admit
    <3> QED
      BY <2>0, <3>1 DEF Work, AdmissionWork, Restorations
  <2>9. ~Start
    BY <1>3 DEF Start, TypeOK, ThreadTypes, Restorations
  <2> QED
    BY <1>3, <2>4, <2>5, <2>6, <2>7, <2>8, <2>9
       DEF Broker, Send, Observed, TypeOK, ThreadTypes, Restorations
<1>4. ASSUME TypeOK, [Next]_vars, ~(Broker /\ task # "none"),
             ~(task = "none" /\ pc \in {"idle", "down"})
      PROVE  Work' \in 0 .. Work
  <2> USE DEF rows, process, thread
  <2>1. Work \in Nat
    BY <1>2, <1>4
  <2>2. ASSUME UNCHANGED <<task, pc, step, lease, plan, throttle>> PROVE Work' = Work
    <3>1. AdmissionWork' = AdmissionWork
      BY <2>2 DEF AdmissionWork
    <3>2. RestorationWork' = RestorationWork
      BY <2>2 DEF RestorationWork
    <3> QED
      BY <2>2, <3>1, <3>2 DEF Work
  <2>3. CASE (\E m \in wire : Serve(m) \/ Lose(m)) \/ Activate \/ InferenceEnds
    <3>1. UNCHANGED <<task, pc, step, lease, plan, throttle>>
      BY <2>3 DEF Serve, Lose, Activate, InferenceEnds
    <3> QED
      BY <2>1, <2>2, <3>1
  <2>4. CASE UNCHANGED vars
    <3>1. UNCHANGED <<task, pc, step, lease, plan, throttle>>
      BY <2>4 DEF vars
    <3> QED
      BY <2>1, <2>2, <3>1
  <2>5. CASE Stop
    <3>1. task' = "none"
      BY <2>5 DEF Stop
    <3>2. Work' = 0
      BY <3>1 DEF Work, Restorations
    <3> QED
      BY <2>1, <3>2
  <2>6. ~\E p \in Displaces : StartAcquire(p)
    BY <1>4 DEF StartAcquire, TypeOK, ThreadTypes, Restorations
  <2>7. task # "none"
    BY <1>4 DEF TypeOK, ThreadTypes, Restorations
  <2> QED
    BY <1>4, <2>3, <2>4, <2>5, <2>6, <2>7 DEF Next
<1> DEFINE Lower == /\ Broker /\ task # "none" => Work' < Work
                    /\ Work' > Work => task = "none" /\ pc \in {"idle", "down"}
<1> DEFINE Bounded == Work \in Nat
<1>5. ASSUME TypeOK, Bounded', [Next]_vars PROVE [Lower]_vars
  <2>1. Work \in Nat /\ Work' \in Nat
    BY <1>2, <1>5
  <2>2. Broker /\ task # "none" => Work' < Work
    BY <1>3, <1>5
  <2> HIDE DEF Work
  <2> QED
    BY <1>4, <1>5, <2>1, <2>2
<1>6. TypeOK => Bounded
  BY <1>2
<1>7. Spec => []Bounded /\ [][Lower]_vars
  <2> HIDE DEF Bounded, Lower
  <2> QED
    BY <1>5, <1>6, TypeCorrect, PTL DEF Spec
<1> QED
  BY <1>7
================================================================================
