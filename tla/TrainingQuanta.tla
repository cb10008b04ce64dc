----------------------------- MODULE TrainingQuanta ----------------------------
(***************************************************************************)
(* Governor with time: a training service that was restored runs for its   *)
(* minimum quantum before it is displaced again.  The table                *)
(* controller_quanta (store.py) has, for each service, the time from which *)
(* the broker knows it to be in its normal mode; _mark_restored_quanta     *)
(* writes it, _enforce_training_quanta reads it (resources.py).            *)
(*                                                                         *)
(* Every action is one of Governor and its effect on the table.  A time in *)
(* the past is told by how long ago it was, up to the quantum of its       *)
(* service.  The clock of the host is taken to be monotone.                *)
(***************************************************************************)
EXTENDS Governor

CONSTANT
  Quantum  \* minimumNormalSeconds of each controller, 0 unless it is a training service

ASSUME QuantumAssumption == Quantum \in [Controllers -> Nat]

VARIABLES
  rest,  \* how long ago normal_since was, NoRow without a row
  ran    \* history: how long the controller has been in its normal mode

NoRow == -1
quanta == <<rest, ran>>
allVars == <<vars, quanta>>

QuantaTypes ==
  /\ rest \in [Controllers -> Int] /\ ran \in [Controllers -> Nat]
  /\ \A c \in Controllers :
       /\ rest[c] \in {NoRow} \cup 0 .. Quantum[c]
       /\ Quantum[c] = 0 => rest[c] = NoRow
       /\ ran[c] \in 0 .. Quantum[c]

QuantaTypeOK == TypeOK /\ QuantaTypes

QuantaInit ==
  /\ Init
  /\ rest = [c \in Controllers |-> NoRow]
  /\ ran = [c \in Controllers |-> 0]

--------------------------------------------------------------------------------

\* One unit of time passes.
Tick ==
  /\ rest' = [c \in Controllers |->
       IF rest[c] \in {NoRow, Quantum[c]} THEN rest[c] ELSE rest[c] + 1]
  /\ ran' = [c \in Controllers |->
       IF Mode(c) = "normal" /\ ran[c] < Quantum[c] THEN ran[c] + 1 ELSE ran[c]]
  /\ quanta' # quanta
  /\ UNCHANGED vars

\* A service without a row begins its quantum when it is first asked for.
InsideQuantum(c) == Quantum[c] > 0 /\ rest[c] < Quantum[c]

\* Everything the plan displaces is past its quantum.
AcquireRested(p) ==
  /\ \A i \in DOMAIN p : ~InsideQuantum(p[i])
  /\ StartAcquire(p)
  /\ UNCHANGED quanta

\* The first service of the plan inside its quantum puts the admission off.
DeferInsideQuantum(p) ==
  /\ pc = "idle" /\ ~quarantined
  /\ \A l \in Leases : status[l] \notin Open
  /\ \E i \in DOMAIN p :
       /\ InsideQuantum(p[i])
       /\ \A j \in DOMAIN p : j < i => ~InsideQuantum(p[j])
       /\ rest[p[i]] = NoRow
       /\ rest' = [rest EXCEPT ![p[i]] = 0]
  /\ UNCHANGED <<vars, ran>>

\* A mode other than the one before begins a run of it.
ServeInTime(m) ==
  /\ Serve(m)
  /\ ran' = [ran EXCEPT ![m.to] =
       IF Mode(m.to) = "normal" /\ m.request.mode = "normal" THEN @ ELSE 0]
  /\ UNCHANGED rest

\* Mutant: a quantum that was recorded before is left as it is.
MutantMarkNormal ==
  /\ MarkRestored
  /\ rest' = [rest EXCEPT ![plan[lease][step]] =
       IF Quantum[plan[lease][step]] = 0 \/ @ # NoRow THEN @ ELSE 0]
  /\ UNCHANGED ran

\* A new quantum begins for each training service that was restored.
MarkNormal ==
  /\ MarkRestored
  /\ rest' = [rest EXCEPT ![plan[lease][step]] =
       IF Quantum[plan[lease][step]] = 0 THEN @ ELSE 0]
  /\ UNCHANGED ran

\* The steps of the broker that do not touch the table.
OtherStep ==
  \/ Journal \/ Send \/ Observed \/ Admit
  \/ StartRelease \/ AbsenceVerified \/ Verified \/ Close
  \/ AdmissionFails \/ RestoreFails \/ Start

BrokerInTime == MarkNormal \/ (OtherStep /\ UNCHANGED quanta)

QuantaNext ==
  \/ Tick
  \/ \E p \in Displaces : AcquireRested(p) \/ DeferInsideQuantum(p)
  \/ \E m \in wire : ServeInTime(m) \/ (Lose(m) /\ UNCHANGED quanta)
  \/ ((Activate \/ InferenceEnds \/ Stop) /\ UNCHANGED quanta)
  \/ BrokerInTime

QuantaSpec == QuantaInit /\ [][QuantaNext]_allVars

\* The fairness of Governor's FairSpec.
FairQuantaSpec == QuantaSpec /\ WF_allVars(BrokerInTime)

--------------------------------------------------------------------------------
(* Properties *)

\* A training service that is displaced for a lease has been in its normal mode
\* for its whole quantum, whatever was rolled back, lost, served late or
\* interrupted since it was displaced before.  Excepted is a service whose last
\* request overtook the broker that had given up on it.
QuantumIsKept ==
  [][\A c \in Controllers \ stray :
       Mode(c) = "normal" /\ Mode(c)' = "released" /\ status[ctl'[c].request.lease] \in Open
         => ran[c] = Quantum[c]]_allVars
================================================================================
