------------------------------ MODULE FencedOwner ------------------------------
(***************************************************************************)
(* What the host coordinator promises to everything behind it (probe,      *)
(* training controllers, GPU runtimes): at any time at most one broker     *)
(* process owns the host, and it operates under an epoch no broker ever    *)
(* operated under before.  HostEpoch implements this specification.        *)
(***************************************************************************)
EXTENDS Naturals

CONSTANT Processes  \* broker processes started on the host

VARIABLES
  owners,    \* processes that may touch the GPU and have not given the host up
  lastEpoch  \* greatest epoch a process has operated under

vars == <<owners, lastEpoch>>

Init ==
  /\ owners = {}
  /\ lastEpoch = 0

\* A process starts to operate: nobody else does, and its epoch is fresh.
Acquire(p) ==
  /\ owners = {}
  /\ owners' = {p}
  /\ lastEpoch' \in Nat
  /\ lastEpoch' > lastEpoch

\* The owner stops, gives up, is quarantined or dies.  A start that gives up may
\* leave a thread behind until its process exits: that one owns nothing any more.
Release(p) ==
  /\ owners = {p}
  /\ owners' = {}
  /\ UNCHANGED lastEpoch

Next == \E p \in Processes : Acquire(p) \/ Release(p)

Spec == Init /\ [][Next]_vars
================================================================================
