------------------------------- MODULE MCGovernor ------------------------------
(* Two services, "a" before "b"; a plan displaces both or one.  "b" is a       *)
(* training service with a quantum of one unit of time.                        *)
EXTENDS TrainingQuanta

MCDisplaces == {<<"a", "b">>, <<"b">>}
MCQuantum == [c \in Controllers |-> IF c = "b" THEN 1 ELSE 0]
================================================================================
