---------------------------- MODULE MCArtifactStore ----------------------------
(* A handler and the scheduler import while a second process starts.  Of the  *)
(* three imports the storage holds the large one or the two small ones.       *)
EXTENDS ArtifactStore, TLC

CONSTANTS large, small1, small2

SizeOf == (large :> 2) @@ (small1 :> 1) @@ (small2 :> 1)
Interchangeable ==
  Permutations({small1, small2}) \cup Permutations(Processes)
================================================================================
