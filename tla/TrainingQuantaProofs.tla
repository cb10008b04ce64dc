-------------------------- MODULE TrainingQuantaProofs -------------------------
(***************************************************************************)
(* Theorems about TrainingQuanta, for any controllers, plans and quanta,   *)
(* any number of leases and restarts, and any number of requests that      *)
(* travel on after their caller gave up.                                   *)
(***************************************************************************)
EXTENDS TrainingQuanta, GovernorProofs

\* A lease is in hand, or left open.
Leased == lease \in Leases /\ status[lease] \in Open

\* The controller is in the journal of the open lease and not yet marked.
Unmarked(c) ==
  /\ Leased
  /\ \E i \in 1 .. throttle[lease] : plan[lease][i] = c /\ (pc = "mark" => i <= step)

\* The table never makes a run longer than it is, but for controllers that are
\* marked before anything is admitted again.
TableIsHonest == \A c \in Controllers \ stray : rest[c] <= ran[c] \/ Unmarked(c)

\* The admission has still to displace the controller, or a throttle of the open
\* lease is on its way that the controller would serve.
Due(c) == task = "admit" /\ \E i \in DOMAIN plan[lease] : step <= i /\ plan[lease][i] = c
Overdue(c) ==
  \E m \in wire : /\ m.to = c /\ m.request.mode = "released" /\ m.request.lease = lease
                  /\ MayFollow(m.request, ctl[c])

\* What may be displaced for the open lease has had its quantum.
DisplacedRested ==
  \A c \in Controllers \ stray :
    Leased /\ Mode(c) = "normal" /\ (Due(c) \/ Overdue(c)) => ran[c] = Quantum[c]

QInv == QuantaTypes /\ TableIsHonest /\ DisplacedRested

--------------------------------------------------------------------------------
(* Steps *)

\* A step in time is a step of Governor or leaves it alone.
LEMMA StepInTime ==
  ASSUME [QuantaNext]_allVars
  PROVE  [Next]_vars
<1> USE DEF Next, Broker
<1>1. CASE Tick \/ (\E p \in Displaces : DeferInsideQuantum(p)) \/ UNCHANGED allVars
  BY <1>1 DEF Tick, DeferInsideQuantum, allVars
<1>2. CASE \E p \in Displaces : AcquireRested(p)
  BY <1>2 DEF AcquireRested
<1>3. CASE \E m \in wire : ServeInTime(m) \/ (Lose(m) /\ UNCHANGED quanta)
  BY <1>3 DEF ServeInTime
<1>4. CASE (Activate \/ InferenceEnds \/ Stop) /\ UNCHANGED quanta
  BY <1>4
<1>5. CASE BrokerInTime
  BY <1>5 DEF BrokerInTime, MarkNormal, OtherStep
<1> QED
  BY <1>1, <1>2, <1>3, <1>4, <1>5 DEF QuantaNext

\* The steps that leave the table and the controllers alone.
Quiet ==
  /\ OtherStep \/ Activate \/ InferenceEnds \/ Stop \/ (\E m \in wire : Lose(m)) \/ UNCHANGED vars
  /\ UNCHANGED <<rest, ran, ctl, stray>>

LEMMA QuantaStep ==
  ASSUME [QuantaNext]_allVars
  PROVE  \/ Tick
         \/ \E p \in Displaces : DeferInsideQuantum(p)
         \/ \E m \in wire : ServeInTime(m)
         \/ \E p \in Displaces : AcquireRested(p)
         \/ MarkNormal
         \/ Quiet
<1> USE DEF Quiet, controllers, quanta
<1>1. CASE UNCHANGED allVars
  BY <1>1 DEF allVars, vars
<1>2. CASE \E m \in wire : Lose(m) /\ UNCHANGED quanta
  BY <1>2 DEF Lose
<1>3. CASE (Activate \/ InferenceEnds \/ Stop) /\ UNCHANGED quanta
  BY <1>3 DEF Activate, InferenceEnds, Stop
<1>4. CASE OtherStep /\ UNCHANGED quanta
  BY <1>4
     DEF OtherStep, Journal, Send, Observed, Admit, StartRelease, AbsenceVerified, Verified,
         Close, AdmissionFails, RestoreFails, Start
<1> QED
  BY <1>1, <1>2, <1>3, <1>4 DEF QuantaNext, BrokerInTime

\* A controller is the addressee of what is served.
LEMMA ServeShape ==
  ASSUME TypeOK, NEW m \in wire, Serve(m)
  PROVE  /\ m.to \in Controllers /\ m.request \in Requests
         /\ ctl'[m.to] = [request |-> m.request]
         /\ \A c \in Controllers : c # m.to => ctl'[c] = ctl[c]
         /\ Mode(m.to)' = m.request.mode
         /\ wire' = wire \ {m}
<1>1. /\ m.to \in Controllers /\ m.request \in Requests /\ DOMAIN ctl = Controllers
      /\ ctl' = [ctl EXCEPT ![m.to] = [request |-> m.request]]
      /\ wire' = wire \ {m}
  BY DEF Serve, TypeOK, ControllerTypes
<1>2. ctl'[m.to] = [request |-> m.request]
  BY <1>1
<1>3. ctl'[m.to] # Absent
  <2>1. DOMAIN ctl'[m.to] # DOMAIN Absent
    BY <1>2 DEF Absent
  <2> QED
    BY <2>1
<1> QED
  BY <1>1, <1>2, <1>3 DEF Mode

\* What is marked is a controller of the plan in hand.
LEMMA MarkShape ==
  ASSUME TypeOK, MarkRestored
  PROVE  /\ plan[lease][step] \in Controllers /\ lease \in Leases /\ step \in Nat
         /\ step <= throttle[lease] /\ status[lease] \in Open
         /\ throttle[lease] \in Nat /\ throttle[lease] <= Len(plan[lease])
<1>1. /\ task \in Restorations /\ lease \in Leases /\ step \in Nat \ {0}
      /\ step <= throttle[lease] /\ status[lease] \in Open
  BY DEF MarkRestored, TypeOK, ThreadTypes, RowTypes, Restorations, Leases
<1>2. throttle[lease] \in Nat /\ throttle[lease] <= Len(plan[lease])
  BY <1>1 DEF TypeOK, RowTypes
<1> QED
  BY <1>1, <1>2, PlanShape DEF TypeOK

LEMMA QuantaTypesStep ==
  ASSUME TypeOK, QuantaTypes, [QuantaNext]_allVars
  PROVE  QuantaTypes'
<1> USE QuantumAssumption DEF QuantaTypes, NoRow
<1>1. CASE Tick
  BY <1>1 DEF Tick
<1>2. CASE \E p \in Displaces : DeferInsideQuantum(p)
  <2>1. PICK p \in Displaces : DeferInsideQuantum(p)
    BY <1>2
  <2>2. PICK i \in DOMAIN p : InsideQuantum(p[i]) /\ rest' = [rest EXCEPT ![p[i]] = 0]
    BY <2>1 DEF DeferInsideQuantum
  <2>3. ran' = ran
    BY <2>1 DEF DeferInsideQuantum
  <2>4. p[i] \in Controllers
    BY ControllersAssumption
  <2> QED
    BY <2>2, <2>3, <2>4 DEF InsideQuantum
<1>3. CASE \E m \in wire : ServeInTime(m)
  <2>1. PICK m \in wire : ServeInTime(m)
    BY <1>3
  <2>2. m.to \in Controllers
    BY <2>1, ServeShape DEF ServeInTime
  <2> QED
    BY <2>1, <2>2 DEF ServeInTime
<1>4. CASE MarkNormal
  <2>1. plan[lease][step] \in Controllers
    BY <1>4, MarkShape DEF MarkNormal
  <2> QED
    BY <1>4, <2>1 DEF MarkNormal
<1>5. CASE Quiet \/ \E p \in Displaces : AcquireRested(p)
  BY <1>5 DEF Quiet, AcquireRested, quanta
<1> QED
  BY <1>1, <1>2, <1>3, <1>4, <1>5, QuantaStep

\* What the quiet steps do to the lease in hand.
LEMMA QuietStep ==
  ASSUME TypeOK, Progress, Quiet
  PROVE  /\ UNCHANGED <<lease, plan, leaseEpoch>>
         /\ lease \in Leases => throttle[lease] <= throttle'[lease]
         /\ wire' \subseteq wire \/ Send
         /\ Leased' => Leased
         /\ Leased => Leased' \/ Close
         /\ task' = "admit" => task = "admit" /\ step <= step'
         /\ pc' = "mark" => Verified \/ (pc = "mark" /\ step' = step)
<1> USE DEF rows, thread, Leased
<1>0. /\ ThreadTypes /\ step \in Nat
      /\ status \in [Leases -> Open \cup Ended \cup {"none"}]
      /\ lease \in Leases => throttle[lease] \in Nat
      /\ lease \in Leases <=> lease > 0
      /\ task # "none" => lease \in Leases /\ status[lease] \in Open
      /\ Open \cap Ended = {}
  BY BoundsAssumption DEF TypeOK, RowTypes, ThreadTypes, Open, Ended, Leases
<1>1. CASE Activate \/ InferenceEnds \/ (\E m \in wire : Lose(m)) \/ UNCHANGED vars
  BY <1>0, <1>1 DEF Activate, InferenceEnds, Lose, vars
<1>2. CASE Send \/ AbsenceVerified
  BY <1>0, <1>2 DEF Send, AbsenceVerified
<1>3. CASE Journal
  <2>1. throttle[lease] = step - 1 /\ lease \in Leases
    BY <1>0, <1>3 DEF Journal, Progress, ThreadTypes, Restorations
  <2> QED
    BY <1>0, <1>3, <2>1 DEF Journal
<1>4. CASE Admit \/ StartRelease
  <2>1. lease \in Leases /\ status[lease] \in Open /\ status'[lease] \in Open
    BY <1>0, <1>4 DEF Admit, StartRelease, ThreadTypes, Restorations, Open
  <2> QED
    BY <1>0, <1>4, <2>1 DEF Admit, StartRelease
<1>5. CASE Close
  <2>1. task \in Restorations
    BY <1>0, <1>5 DEF Close, ThreadTypes
  <2> QED
    BY <1>0, <1>5, <2>1 DEF Close, Restorations
<1>6. CASE RestoreFails
  <2>1. lease \in Leases /\ status[lease] \in Open /\ status'[lease] \in Open
    BY <1>0, <1>6 DEF RestoreFails, Restorations, Open
  <2> QED
    BY <1>0, <1>6, <2>1 DEF RestoreFails, GivenUp
<1>7. CASE AdmissionFails \/ Stop
  BY <1>0, <1>7 DEF AdmissionFails, Stop, GivenUp
<1>8. CASE Start
  <2>1. CASE lease > 0 /\ status[lease] \in Open
    <3>1. lease \in Leases
      BY <1>0, <2>1
    <3>2. status'[lease] \in Open
      BY <1>0, <1>8, <2>1, <3>1 DEF Start, Open
    <3> QED
      BY <1>0, <1>8, <2>1, <3>1, <3>2 DEF Start
  <2>2. CASE ~(lease > 0 /\ status[lease] \in Open)
    BY <1>0, <1>8, <2>2 DEF Start
  <2> QED
    BY <2>1, <2>2
<1>9. CASE Verified
  BY <1>0, <1>9 DEF Verified, Restorations
<1>10. CASE Observed
  BY <1>0, <1>10 DEF Observed
<1> QED
  BY <1>1, <1>2, <1>3, <1>4, <1>5, <1>6, <1>7, <1>8, <1>9, <1>10
     DEF Quiet, OtherStep

--------------------------------------------------------------------------------
(* What the table says *)

\* A run ends and begins with a request that was waited for, and its controller
\* is then in the journal of the lease in hand.
LEMMA HonestStep ==
  ASSUME TypeOK, Progress, Restored, JournalCovers, TrainingIsOwed,
         QuantaTypes, Rows, TableIsHonest, [QuantaNext]_allVars
  PROVE  TableIsHonest'
<1> SUFFICES ASSUME NEW c \in Controllers, c \notin stray'
             PROVE  rest'[c] <= ran'[c] \/ Unmarked(c)'
  BY DEF TableIsHonest
<1>0. /\ rest[c] \in Int /\ ran[c] \in Nat /\ ran[c] <= Quantum[c] /\ Quantum[c] \in Nat
      /\ rest[c] # NoRow => rest[c] \in 0 .. Quantum[c]
  BY QuantumAssumption DEF QuantaTypes
<1>1. CASE Tick
  <2>1. UNCHANGED vars /\ c \notin stray
    BY <1>1 DEF Tick, vars
  <2>2. rest[c] <= ran[c] \/ Unmarked(c)
    BY <2>1 DEF TableIsHonest
  <2>3. Mode(c) = "released" => Unmarked(c)
    <3> SUFFICES ASSUME Mode(c) = "released" PROVE Unmarked(c)
      OBVIOUS
    <3>1. /\ ctl[c].request.lease \in Leases /\ status[ctl[c].request.lease] \in Open
          /\ \E i \in 1 .. throttle[ctl[c].request.lease] : plan[ctl[c].request.lease][i] = c
      BY <2>1 DEF TrainingIsOwed, JournalCovers, Mode, TypeOK, ControllerTypes, Requests
    <3>2. ctl[c].request.lease = lease
      BY <3>1 DEF Rows
    <3>3. pc # "mark"
      BY <2>1, <3>1, <3>2 DEF Restored
    <3> QED
      BY <3>1, <3>2, <3>3 DEF Unmarked, Leased
  <2>4. Mode(c) \in {"normal", "released"}
    BY DEF Mode, TypeOK, ControllerTypes, Requests
  <2>5. Mode(c) = "normal" /\ rest[c] <= ran[c] => rest'[c] <= ran'[c]
    BY <1>0, <1>1 DEF Tick, NoRow
  <2>6. Unmarked(c)' <=> Unmarked(c)
    BY <2>1 DEF vars, Unmarked, Leased
  <2> QED
    BY <2>2, <2>3, <2>4, <2>5, <2>6
<1>2. CASE \E p \in Displaces : DeferInsideQuantum(p)
  <2>1. PICK p \in Displaces : DeferInsideQuantum(p)
    BY <1>2
  <2>2. UNCHANGED <<vars, ran>> /\ c \notin stray
    BY <2>1 DEF DeferInsideQuantum, vars
  <2>3. rest'[c] = rest[c] \/ rest'[c] = 0
    BY <2>1 DEF DeferInsideQuantum, QuantaTypes
  <2>4. Unmarked(c)' <=> Unmarked(c)
    BY <2>2 DEF vars, Unmarked, Leased
  <2> QED
    BY <1>0, <2>2, <2>3, <2>4 DEF TableIsHonest
<1>3. CASE \E m \in wire : ServeInTime(m)
  <2>1. PICK m \in wire : ServeInTime(m)
    BY <1>3
  <2>2. /\ UNCHANGED <<lease, status, throttle, plan, pc, step, rest>>
        /\ stray' = IF m \in Awaited THEN stray \ {m.to} ELSE stray \cup {m.to}
        /\ m.to \in Controllers
    BY <2>1, ServeShape DEF ServeInTime, Serve, rows, thread
  <2>3. Unmarked(c)' <=> Unmarked(c)
    BY <2>2 DEF Unmarked, Leased
  <2>4. CASE m.to = c
    <3>1. pc = "await" /\ m = Current
      BY <2>2, <2>4 DEF Awaited
    <3>2. /\ lease \in Leases /\ step \in 1 .. Len(plan[lease]) /\ c = plan[lease][step]
          /\ Len(plan[lease]) \in Nat /\ throttle[lease] \in Nat
          /\ task = "admit" \/ task \in Restorations
      BY <2>4, <3>1, CurrentShape, PlanShape DEF TypeOK, RowTypes
    <3>3. step <= throttle[lease] /\ status[lease] \in Open
      BY <3>1, <3>2 DEF Progress, TypeOK, ThreadTypes, Restorations
    <3>4. Unmarked(c)
      BY <3>1, <3>2, <3>3 DEF Unmarked, Leased
    <3> QED
      BY <2>3, <3>4
  <2>5. CASE m.to # c
    <3>1. ran'[c] = ran[c] /\ c \notin stray
      BY <2>1, <2>2, <2>5 DEF ServeInTime, QuantaTypes
    <3> QED
      BY <2>2, <2>3, <3>1 DEF TableIsHonest
  <2> QED
    BY <2>4, <2>5
<1>4. CASE \E p \in Displaces : AcquireRested(p)
  <2>1. UNCHANGED <<rest, ran, stray>> /\ \A l \in Leases : status[l] \notin Open
    BY <1>4 DEF AcquireRested, StartAcquire, quanta, controllers
  <2> QED
    BY <2>1 DEF TableIsHonest, Unmarked, Leased
<1>5. CASE MarkNormal
  <2>1. /\ UNCHANGED <<lease, status, throttle, plan, pc, ran, stray>>
        /\ step' = step - 1
        /\ rest' = [rest EXCEPT ![plan[lease][step]] =
             IF Quantum[plan[lease][step]] = 0 THEN @ ELSE 0]
    BY <1>5 DEF MarkNormal, MarkRestored, rows, controllers
  <2>2. plan[lease][step] \in Controllers /\ step \in Nat
    BY <1>5, MarkShape DEF MarkNormal
  <2>3. CASE c = plan[lease][step]
    <3>1. rest'[c] <= 0
      BY <2>1, <2>2, <2>3 DEF QuantaTypes, NoRow
    <3> QED
      BY <1>0, <2>1, <2>2, <2>3, <3>1 DEF QuantaTypes
  <2>4. CASE c # plan[lease][step]
    <3>1. rest'[c] = rest[c]
      BY <2>1, <2>2, <2>4 DEF QuantaTypes
    <3>2. Unmarked(c) => Unmarked(c)'
      BY <2>1, <2>2, <2>4 DEF Unmarked, Leased
    <3> QED
      BY <2>1, <3>1, <3>2 DEF TableIsHonest
  <2> QED
    BY <2>3, <2>4
<1>6. CASE Quiet
  <2>1. UNCHANGED <<rest, ran>> /\ c \notin stray
    BY <1>6 DEF Quiet
  <2>2. Unmarked(c) => Unmarked(c)'
    <3> SUFFICES ASSUME Unmarked(c) PROVE Unmarked(c)'
      OBVIOUS
    <3>1. PICK i \in 1 .. throttle[lease] : plan[lease][i] = c /\ (pc = "mark" => i <= step)
      BY DEF Unmarked
    <3>2. Leased /\ lease \in Leases /\ throttle[lease] \in Nat
      BY DEF Unmarked, Leased, TypeOK, RowTypes
    <3>3. ~Close
      <4>1. Close => pc = "mark" /\ step = 0
        BY DEF Close
      <4> QED
        BY <3>1, <3>2, <4>1
    <3>4. Leased' /\ UNCHANGED <<lease, plan>> /\ throttle[lease] <= throttle'[lease]
      BY <1>6, <3>2, <3>3, QuietStep
    <3>5. throttle'[lease] \in Nat
      <4>1. throttle' \in [Leases -> Nat]
        BY StepInTime, RowTypesStep DEF RowTypes
      <4> QED
        BY <3>2, <4>1
    <3>6. pc' = "mark" => i <= step'
      <4>1. Verified => step' = throttle[lease]
        BY DEF Verified
      <4> QED
        BY <1>6, <3>1, <3>2, <4>1, QuietStep
    <3> QED
      BY <3>1, <3>2, <3>4, <3>5, <3>6 DEF Unmarked
  <2> QED
    BY <2>1, <2>2 DEF TableIsHonest
<1> QED
  BY <1>1, <1>2, <1>3, <1>4, <1>5, <1>6, QuantaStep

--------------------------------------------------------------------------------
(* What may still be displaced *)

\* Once a restore or a takeover was served, no throttle of the lease may follow.
LEMMA NoneAfterRestore ==
  ASSUME TypeOK, Messages, Rows, Throttles, pc = "await", task \in Restorations,
         NEW m \in wire, m.to = Current.to, m.request.mode = "released",
         m.request.lease = lease
  PROVE  ~MayFollow(m.request, [request |-> Current.request])
<1>1. /\ lease \in Leases /\ step \in DOMAIN plan[lease]
      /\ Current.to = plan[lease][step] /\ Current.request.lease = lease
  BY CurrentShape
<1>2. /\ m.request.kind # "takeover" /\ m.request.epoch = leaseEpoch[lease]
      /\ m.request.generation \in DOMAIN plan[lease]
      /\ plan[lease][m.request.generation] = plan[lease][step]
  BY <1>1 DEF Messages, Throttles, Displacing
<1>3. m.request.generation = step
  <2>1. plan[lease] \in Displaces \/ plan[lease] = <<>>
    BY <1>1 DEF TypeOK, RowTypes
  <2>2. plan[lease] \in Displaces
    BY <1>1, <2>1
  <2> QED
    BY <1>1, <1>2, <2>2, ControllersAssumption
<1>4. leaseEpoch[lease] \in Int /\ epoch \in Int /\ step \in Nat
  <2>1. leaseEpoch[lease] \in 0 .. MaxEpochs /\ epoch \in 0 .. MaxEpochs /\ step \in Nat
        /\ MaxEpochs \in Nat
    BY <1>1, BoundsAssumption DEF TypeOK, RowTypes, ThreadTypes
  <2> QED
    BY <2>1
<1>5. [request |-> Current.request] # Absent
  <2>1. DOMAIN [request |-> Current.request] # DOMAIN Absent
    BY DEF Absent
  <2> QED
    BY <2>1
<1>6. MayFollow(m.request, [request |-> Current.request]) =>
        \/ m.request.epoch > Current.request.epoch
        \/ /\ m.request.epoch = Current.request.epoch
           /\ m.request.generation > Current.request.generation
  BY <1>1, <1>2, <1>5 DEF MayFollow, ModeAllowed
<1>7. CASE task = "recover"
  <2>1. Current.request.epoch = epoch /\ leaseEpoch[lease] < epoch
    BY <1>7 DEF Current, Takeover, Rows
  <2> QED
    BY <1>2, <1>4, <1>6, <2>1
<1>8. CASE task \in {"rollback", "release"}
  <2>1. /\ Current.request.epoch = leaseEpoch[lease]
        /\ Current.request.generation = Restoring + step
    BY <1>8 DEF Current, Restore
  <2>2. Restoring \in Nat
    BY SMT DEF Restoring
  <2> QED
    BY <1>2, <1>3, <1>4, <1>6, <2>1, <2>2
<1> QED
  BY <1>7, <1>8 DEF Restorations

\* An admission begins when all it displaces is rested; time, and requests to
\* others, do not end a run.
LEMMA RestedStep ==
  ASSUME TypeOK, Messages, Progress, QuantaTypes, Rows, Throttles, TableIsHonest,
         DisplacedRested, [QuantaNext]_allVars
  PROVE  DisplacedRested'
<1> SUFFICES ASSUME NEW c \in Controllers, c \notin stray', Leased', Mode(c)' = "normal",
                    Due(c)' \/ Overdue(c)'
             PROVE  ran'[c] = Quantum[c]
  BY DEF DisplacedRested
<1>0. rest[c] \in Int /\ ran[c] \in Nat /\ ran[c] <= Quantum[c] /\ Quantum[c] \in Nat
  BY QuantumAssumption DEF QuantaTypes
<1>1. ASSUME c \notin stray, Leased, Mode(c) = "normal", Due(c) \/ Overdue(c)
      PROVE  ran[c] = Quantum[c]
  BY <1>1 DEF DisplacedRested
<1>2. CASE Tick \/ \E p \in Displaces : DeferInsideQuantum(p)
  <2>1. UNCHANGED <<ctl, wire, lease, status, plan, task, step, stray>>
    BY <1>2 DEF Tick, DeferInsideQuantum, vars
  <2>2. (Due(c)' <=> Due(c)) /\ (Overdue(c)' <=> Overdue(c))
    BY <2>1 DEF Due, Overdue
  <2>3. ran[c] = Quantum[c]
    BY <1>1, <2>1, <2>2 DEF Leased, Mode
  <2>4. ran'[c] = ran[c]
    BY <1>0, <1>2, <2>3 DEF Tick, DeferInsideQuantum
  <2> QED
    BY <2>3, <2>4
<1>3. CASE \E m \in wire : ServeInTime(m)
  <2>1. PICK m \in wire : ServeInTime(m)
    BY <1>3
  <2>2. /\ UNCHANGED <<lease, status, plan, task, pc, step>>
        /\ stray' = IF m \in Awaited THEN stray \ {m.to} ELSE stray \cup {m.to}
        /\ m.to \in Controllers /\ wire' = wire \ {m}
        /\ ctl'[m.to] = [request |-> m.request] /\ Mode(m.to)' = m.request.mode
        /\ \A d \in Controllers : d # m.to => ctl'[d] = ctl[d]
    BY <2>1, ServeShape DEF ServeInTime, Serve, rows, thread
  <2>3. CASE m.to = c
    <3>1. pc = "await" /\ m = Current
      BY <2>2, <2>3 DEF Awaited
    <3>2. task \in Restorations
      BY <2>2, <2>3, <3>1, CurrentShape
    <3>3. ~Due(c)'
      BY <2>2, <3>2 DEF Due, Restorations
    <3>4. PICK k \in wire : /\ k.to = c /\ k.request.mode = "released"
                            /\ k.request.lease = lease /\ MayFollow(k.request, ctl'[c])
      BY <2>2, <3>3 DEF Overdue
    <3>5. k.to = Current.to /\ ctl'[c] = [request |-> Current.request]
      BY <2>2, <2>3, <3>1, <3>4
    <3> QED
      BY <3>1, <3>2, <3>4, <3>5, NoneAfterRestore
  <2>4. CASE m.to # c
    <3>1. ctl'[c] = ctl[c] /\ c \notin stray /\ ran'[c] = ran[c]
      BY <2>1, <2>2, <2>4 DEF ServeInTime, QuantaTypes
    <3>2. Due(c)' => Due(c)
      BY <2>2 DEF Due
    <3>3. Overdue(c)' => Overdue(c)
      BY <2>2, <3>1 DEF Overdue
    <3> QED
      BY <1>1, <2>2, <3>1, <3>2, <3>3 DEF Leased, Mode
  <2> QED
    BY <2>3, <2>4
<1>4. CASE \E p \in Displaces : AcquireRested(p)
  <2>1. PICK p \in Displaces : AcquireRested(p)
    BY <1>4
  <2>2. /\ UNCHANGED <<rest, ran, stray, wire>> /\ lease' = lease + 1 /\ lease + 1 \in Leases
        /\ plan' = [plan EXCEPT ![lease + 1] = p] /\ \A l \in Leases : status[l] \notin Open
        /\ \A i \in DOMAIN p : ~InsideQuantum(p[i])
    BY <2>1, BoundsAssumption
       DEF AcquireRested, StartAcquire, quanta, controllers, Leases, TypeOK, RowTypes
  <2>3. ~Overdue(c)'
    <3>1. \A m \in wire : m.request.lease <= lease /\ lease \in Nat /\ m.request.lease \in Nat
      BY DEF Messages, TypeOK, RowTypes, ControllerTypes, Requests, Leases
    <3> QED
      BY <2>2, <3>1 DEF Overdue
  <2>4. plan'[lease'] = p
    BY <2>2 DEF TypeOK, RowTypes
  <2>5. ~InsideQuantum(c)
    BY <2>2, <2>3, <2>4 DEF Due
  <2>6. rest[c] <= ran[c]
    BY <2>2 DEF TableIsHonest, Unmarked, Leased
  <2> QED
    BY <1>0, <2>2, <2>5, <2>6 DEF InsideQuantum
<1>5. CASE MarkNormal
  <2>1. /\ UNCHANGED <<ctl, wire, lease, status, plan, task, stray, ran>>
    BY <1>5 DEF MarkNormal, MarkRestored, rows, controllers
  <2>2. task \in Restorations
    BY <1>5 DEF MarkNormal, MarkRestored, TypeOK, ThreadTypes
  <2>3. ~Due(c)' /\ (Overdue(c)' => Overdue(c))
    BY <2>1, <2>2 DEF Due, Overdue, Restorations
  <2> QED
    BY <1>1, <2>1, <2>3 DEF Leased, Mode
<1>6. CASE Quiet
  <2>1. /\ UNCHANGED <<ran, ctl, stray, lease, plan>> /\ Leased
        /\ wire' \subseteq wire \/ Send
        /\ task' = "admit" => task = "admit" /\ step <= step'
    BY <1>6, QuietStep DEF Quiet
  <2>2. Due(c)' => Due(c)
    <3>1. ASSUME Due(c)' PROVE Due(c)
      <4>1. task = "admit" /\ step <= step' /\ step \in Int /\ step' \in Int
        <5>1. TypeOK => step \in Nat
          BY DEF TypeOK, ThreadTypes
        <5>2. ThreadTypes'
          BY StepInTime, RowTypesStep, ThreadTypesStep
        <5> QED
          BY <2>1, <3>1, <5>1, <5>2 DEF Due, ThreadTypes
      <4>2. DOMAIN plan[lease] \subseteq Int
        BY <2>1, PlanShape DEF Leased, TypeOK
      <4> QED
        BY <2>1, <3>1, <4>1, <4>2 DEF Due
    <3> QED
      BY <3>1
  <2>3. Overdue(c)' => Overdue(c) \/ Due(c)
    <3>1. ASSUME NEW m \in wire', m.to = c, m.request.mode = "released", m \notin wire
          PROVE  Due(c)
      <4>1. Send /\ m = Current
        BY <2>1, <3>1 DEF Send
      <4>2. /\ task = "admit" /\ step \in DOMAIN plan[lease] /\ plan[lease][step] = c
            /\ step \in Nat
        BY <3>1, <4>1, CurrentShape DEF Send, Restorations, TypeOK, ThreadTypes
      <4> QED
        BY <4>2 DEF Due
    <3> QED
      BY <2>1, <3>1 DEF Overdue
  <2> QED
    BY <1>1, <2>1, <2>2, <2>3 DEF Mode
<1> QED
  BY <1>2, <1>3, <1>4, <1>5, <1>6, QuantaStep

--------------------------------------------------------------------------------

LEMMA QuantaInitInvariant == QuantaInit => IInv /\ QInv
<1> SUFFICES ASSUME QuantaInit PROVE IInv /\ QInv
  OBVIOUS
<1>1. IInv
  BY InitInvariant DEF QuantaInit
<1>2. QuantaTypes
  BY QuantumAssumption DEF QuantaInit, QuantaTypes, NoRow
<1>4. TableIsHonest
  BY DEF QuantaInit, TableIsHonest, NoRow
<1>5. DisplacedRested
  BY DEF QuantaInit, Init, DisplacedRested, Due, Overdue
<1> QED
  BY <1>1, <1>2, <1>4, <1>5 DEF QInv

LEMMA QuantaInvariance == QuantaSpec => [](IInv /\ QInv)
<1>1. IInv /\ QInv /\ [QuantaNext]_allVars => (IInv /\ QInv)'
  <2> SUFFICES ASSUME IInv, QInv, [QuantaNext]_allVars PROVE IInv' /\ QInv'
    OBVIOUS
  <2>1. [Next]_vars
    BY StepInTime
  <2>2. IInv'
    BY <2>1, InvarianceStep
  <2>3. QuantaTypes'
    BY <2>1, QuantaTypesStep DEF IInv, QInv
  <2>4. TableIsHonest' /\ DisplacedRested'
    BY HonestStep, RestedStep DEF IInv, QInv
  <2> QED
    BY <2>2, <2>3, <2>4 DEF QInv
<1> QED
  BY QuantaInitInvariant, <1>1, PTL DEF QuantaSpec

\* The governor in time is the governor: what is proved of Spec holds of it
\* (_enforce_training_quanta and _mark_restored_quanta only refuse and record).
THEOREM QuantaImplement == QuantaSpec => Spec
<1>1. QuantaInit => Init
  BY DEF QuantaInit
<1>2. [QuantaNext]_allVars => [Next]_vars
  BY StepInTime
<1> QED
  BY <1>1, <1>2, PTL DEF QuantaSpec, Spec

\* The table has a row for training services only, and no time beyond the
\* quantum matters (controller_normal_since, mark_controller_normal).
THEOREM QuantaTypesCorrect == QuantaSpec => []QuantaTypeOK
<1>1. IInv /\ QInv => QuantaTypeOK
  BY DEF IInv, QInv, QuantaTypeOK
<1> QED
  BY <1>1, QuantaInvariance, PTL

\* A training service is displaced for a lease only after it has run for its
\* quantum, through rollbacks, late requests, crashes and restarts (acquire,
\* _enforce_training_quanta, _mark_restored_quanta).
THEOREM QuantaAreKept == QuantaSpec => QuantumIsKept
<1>1. IInv /\ QInv /\ [QuantaNext]_allVars =>
        [\A c \in Controllers \ stray :
           Mode(c) = "normal" /\ Mode(c)' = "released" /\ status[ctl'[c].request.lease] \in Open
             => ran[c] = Quantum[c]]_allVars
  <2> SUFFICES ASSUME IInv, QInv, [QuantaNext]_allVars, NEW c \in Controllers \ stray,
                      Mode(c) = "normal", Mode(c)' = "released",
                      status[ctl'[c].request.lease] \in Open
               PROVE  ran[c] = Quantum[c]
    OBVIOUS
  <2>1. TypeOK
    BY DEF IInv
  <2>2. PICK m \in wire : Serve(m)
    <3>1. UNCHANGED ctl \/ \E m \in wire : Serve(m)
      BY <2>1, StepInTime, ControllersStep
    <3> QED
      BY <3>1 DEF Mode
  <2>3. m.to = c /\ ctl'[c] = [request |-> m.request] /\ m.request.mode = "released"
    <3>1. m.to = c
      BY <2>1, <2>2, ServeShape DEF Mode
    <3> QED
      BY <2>1, <2>2, <3>1, ServeShape
  <2>4. m.request.lease \in Leases
    BY <2>1 DEF TypeOK, ControllerTypes, Requests
  <2>5. m.request.lease = lease
    BY <2>3, <2>4 DEF IInv, Rows
  <2>6. Leased /\ Overdue(c)
    BY <2>2, <2>3, <2>4, <2>5 DEF Leased, Overdue, Serve
  <2> QED
    BY <2>6 DEF QInv, DisplacedRested
<1> QED
  BY <1>1, QuantaInvariance, PTL DEF QuantaSpec, QuantumIsKept
================================================================================
