-------------------------- MODULE MCTrainingController -------------------------
(* Two leases in one broker epoch, a takeover of each in the next epoch, a     *)
(* lease of that epoch, and a takeover by a broker that restarts once more.    *)
(* The third checkpoint renames the second one; the last is of another run.    *)
EXTENDS TrainingController

Mode(l, f, e, g, m) ==
  [kind |-> "mode", lease |-> l, fence |-> f, recovery |-> f, epoch |-> e,
   generation |-> g, mode |-> m]
Takeover(l, f, e) ==
  [kind |-> "takeover", lease |-> l, fence |-> f, recovery |-> f + 10 * e, epoch |-> e,
   generation |-> 3, mode |-> "normal"]

MCRequests ==
  {Mode(l, l, 1, 1, "released") : l \in 1 .. 2} \cup {Mode(l, l, 1, 2, "normal") : l \in 1 .. 2}
    \cup {Takeover(l, l, 2) : l \in 1 .. 2}
    \cup {Takeover(1, 1, 3), Mode(3, 3, 2, 1, "released")}
MCRun == <<1, 1, 1, 2>>
MCContent == <<1, 2, 2, 3>>
================================================================================
