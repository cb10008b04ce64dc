---------------------------- MODULE FencedController ---------------------------
(***************************************************************************)
(* What a lifecycle controller promises to the broker: a register that     *)
(* only a request with the right epoch, fence and generation replaces, at  *)
(* one instant, whatever happens to the controller in between.             *)
(***************************************************************************)
EXTENDS ControllerFence

CONSTANT Requests
VARIABLE recorded

Init == recorded = Absent

Serve(r) ==
  /\ MayFollow(r, recorded)
  /\ recorded' = [request |-> r]

Next == \E r \in Requests : Serve(r)

Spec == Init /\ [][Next]_recorded
================================================================================
