------------------------------ MODULE JobLifecycle -----------------------------
(***************************************************************************)
(* What the broker promises a client about each job it accepted: the       *)
(* workload is started at most once, the outcome never changes once it is  *)
(* recorded, and a job whose cancellation was accepted never completes and *)
(* never returns to the queue.  JobScheduler implements this.              *)
(***************************************************************************)
CONSTANT JobIds

VARIABLES
  life,       \* how far each job has come
  withdrawn,  \* was its cancellation accepted
  outcome     \* its terminal status, or "none"

vars == <<life, withdrawn, outcome>>

Init ==
  /\ life = [j \in JobIds |-> "absent"]
  /\ withdrawn = [j \in JobIds |-> FALSE]
  /\ outcome = [j \in JobIds |-> "none"]

Move(j, from, to) ==
  /\ life[j] = from
  /\ life' = [life EXCEPT ![j] = to]
  /\ UNCHANGED <<withdrawn, outcome>>

Accept(j) == Move(j, "absent", "waiting")
Claim(j) == ~withdrawn[j] /\ Move(j, "waiting", "claimed")
Requeue(j) == ~withdrawn[j] /\ Move(j, "claimed", "waiting")
Start(j) == Move(j, "claimed", "started")

\* The outcomes a job can have: only a started job may complete.
Outcomes(l) ==
  CASE l = "claimed" -> {"failed", "cancelled"}
    [] l = "started" -> {"completed", "failed", "cancelled"}
    [] OTHER -> {}

Finish(j) ==
  /\ \E o \in Outcomes(life[j]) :
       /\ o = "completed" => ~withdrawn[j]
       /\ outcome' = [outcome EXCEPT ![j] = o]
  /\ life' = [life EXCEPT ![j] = "done"]
  /\ UNCHANGED withdrawn

\* Cancellation ends a waiting job at once and only marks a claimed one.
Withdraw(j) ==
  /\ life[j] \in {"waiting", "claimed", "started"}
  /\ withdrawn' = [withdrawn EXCEPT ![j] = TRUE]
  /\ IF life[j] = "waiting"
     THEN /\ life' = [life EXCEPT ![j] = "done"]
          /\ outcome' = [outcome EXCEPT ![j] = "cancelled"]
     ELSE UNCHANGED <<life, outcome>>

\* A restart gives up every claimed job, started or not.
Restart ==
  LET lost == {j \in JobIds : life[j] \in {"claimed", "started"}}
  IN  /\ life' = [j \in JobIds |-> IF j \in lost THEN "done" ELSE life[j]]
      /\ outcome' = [j \in JobIds |-> IF j \in lost THEN "interrupted" ELSE outcome[j]]
      /\ UNCHANGED withdrawn

Next ==
  \/ \E j \in JobIds : \/ Accept(j) \/ Claim(j) \/ Requeue(j)
                       \/ Start(j) \/ Finish(j) \/ Withdraw(j)
  \/ Restart

Spec == Init /\ [][Next]_vars
================================================================================
