------------------------------ MODULE MCHostEpoch ------------------------------
(* Two processes, each started on either of two data roots: production and    *)
(* canary, or two starts on one of them.  Four epochs let an epoch be burnt   *)
(* by a crash, used, lost with the power and used again, and let a process    *)
(* that is abandoned with its scheduler thread meet the next one at work.     *)
(* Only the lock names a process, so processes are interchangeable, and so    *)
(* are the data roots.                                                        *)
EXTENDS HostEpoch, TLC

Interchangeable == Permutations(Processes) \cup Permutations(Roots)
================================================================================
