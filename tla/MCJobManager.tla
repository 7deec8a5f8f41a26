----------------------------- MODULE MCJobManager -----------------------------
(* JobManager for TLC: two jobs of the queue that are equal, and jobs of other *)
(* clients, one of them urgent.  As many may run at once as there are         *)
(* priorities; the lowest is not used.                                        *)
EXTENDS JobManager
CONSTANTS q1, q2, c1, c2

MCPriority == [j \in Jobs |-> IF j = c2 THEN 2 ELSE 1]
MCEqual == {<<q1, q2>>}
=============================================================================
