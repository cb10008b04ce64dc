---------------------------- MODULE MCJobScheduler -----------------------------
EXTENDS JobScheduler, TLC

CONSTANTS high, low
MCPriority == [r \in Requests |-> IF r = high THEN 90 ELSE 10]
InterchangeableKeys == Permutations(Keys)
================================================================================
