------------------------------- MODULE LeaseLedger ------------------------------
(***************************************************************************)
(* What the resource coordinator promises the scheduler about leases: one  *)
(* at a time on the host; none while the outcome of an earlier one is      *)
(* open, also when the process that had it is gone; and after an outcome   *)
(* that could not be verified none until a restart has settled it.         *)
(*                                                                         *)
(* Governor keeps this ledger with what it does to the controllers;        *)
(* JobScheduler reads and writes it when it acquires and releases.         *)
(***************************************************************************)
VARIABLES
  up,          \* a broker runs and has reconciled the ledger
  open,        \* a lease was begun and its outcome is not recorded
  quarantined  \* the running broker could not verify the outcome of a lease

vars == <<up, open, quarantined>>

Init == up = FALSE /\ open = FALSE /\ quarantined = FALSE

\* An admission begins; one that is undone without success quarantines at once.
Grant ==
  /\ up /\ ~quarantined /\ ~open
  /\ open' = TRUE /\ quarantined' \in BOOLEAN
  /\ UNCHANGED up

\* The lease was verifiably released, or refused and undone.
Settle ==
  /\ up /\ ~quarantined /\ open
  /\ open' = FALSE
  /\ UNCHANGED <<up, quarantined>>

LoseTrack ==
  /\ up /\ ~quarantined /\ open
  /\ quarantined' = TRUE
  /\ UNCHANGED <<up, open>>

\* The broker ends; what it had open stays open.
End ==
  /\ up
  /\ up' = FALSE /\ quarantined' = FALSE
  /\ UNCHANGED open

\* A broker starts: an open lease is settled, or quarantines it.
Reconcile ==
  /\ ~up
  /\ up' = TRUE
  /\ open' \in {open, FALSE}
  /\ quarantined' = open'

Next == Grant \/ Settle \/ LoseTrack \/ End \/ Reconcile

Spec == Init /\ [][Next]_vars
================================================================================
