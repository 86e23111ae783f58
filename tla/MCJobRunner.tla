----------------------------- MODULE MCJobRunner -----------------------------
(* One job; three processes, the last without its handler.                   *)
EXTENDS JobRunner, TLC

CONSTANTS j1, o1, o2, o3

MCPriority == [j \in Jobs |-> 0]
MCRetryDelays == <<1>>
MCResolves == [o \in Owners |-> IF o = o3 THEN {} ELSE Jobs]

=============================================================================
