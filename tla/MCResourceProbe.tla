------------------------------ MODULE MCResourceProbe ---------------------------
EXTENDS ResourceProbe, TLC

CONSTANTS
  d, u,      \* a container's profile, a unit's profile
  good, bad  \* what is certified, what is not

MCRoutes ==
  {[id |-> 1, model |-> "m", profile |-> d, memory |-> 4, priority |-> 50,
    classes |-> {"interactive", "batch"}],
   [id |-> 2, model |-> "n", profile |-> u, memory |-> 8, priority |-> 60,
    classes |-> {"interactive"}]}

MCJobs ==
  {[model |-> m, class |-> "interactive", preference |-> "balanced"] : m \in {NoModel, "n"}}

MCIdentities == [p \in {d, u} |-> IF p = d THEN {good} ELSE {good, bad}]

MCSymmetry == Permutations(Threads)
================================================================================
