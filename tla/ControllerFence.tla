---------------------------- MODULE ControllerFence ----------------------------
(***************************************************************************)
(* Which requests may follow the state a lifecycle controller recorded     *)
(* last: _check_fence and the comparison in takeover                       *)
(* (training_controller.py).  A recorded state is Absent or a record whose *)
(* request is the one that was served.                                     *)
(***************************************************************************)
EXTENDS Integers

Absent == [phase |-> "none"]

\* The fence that the recorded state makes public.
Fence(a) == a.request.recovery

\* Mutant: an older epoch is not recognised as stale.
MutantModeAllowed(r, current) ==
  current # Absent =>
    LET public == current.request
    IN  \/ r.epoch # public.epoch /\ public.mode = "normal"
        \/ /\ r.epoch = public.epoch
           /\ r.lease = public.lease
           /\ r.fence = Fence(current)
           /\ r.generation > public.generation
        \/ /\ r.epoch = public.epoch
           /\ r.lease # public.lease
           /\ public.mode = "normal" /\ r.generation = 1

\* _check_fence
ModeAllowed(r, current) ==
  current # Absent =>
    LET public == current.request
    IN  \/ r.epoch > public.epoch /\ public.mode = "normal"
        \/ /\ r.epoch = public.epoch
           /\ r.lease = public.lease
           /\ r.fence = Fence(current)
           /\ r.generation > public.generation
        \/ /\ r.epoch = public.epoch
           /\ r.lease # public.lease
           /\ public.mode = "normal" /\ r.generation = 1

\* The comparison in takeover.
TakeoverAllowed(r, current) ==
  /\ current # Absent
  /\ r.lease = current.request.lease
  /\ r.fence = Fence(current)
  /\ r.epoch > current.request.epoch

\* Both endpoints together.
MayFollow(r, current) ==
  IF r.kind = "takeover" THEN TakeoverAllowed(r, current) ELSE ModeAllowed(r, current)
================================================================================
