----------------------------- MODULE GenerationCounter --------------------------
(***************************************************************************)
(* What the probe promises of its generation (docs/RESOURCE-PROBE.md):     *)
(* "durable and monotonic for observations".  Numbers are handed out one   *)
(* after the other, each larger than every one before it; a number may be  *)
(* left out, none is handed out twice.                                     *)
(***************************************************************************)
EXTENDS Naturals

VARIABLE last  \* the number handed out last, 0 before the first

Init == last = 0

HandOut ==
  /\ last' \in Nat
  /\ last' > last

Spec == Init /\ [][HandOut]_last
================================================================================
