--------------------------- MODULE MC_ProcessMonitoring ---------------------------
(* Two threads of one process and the thread of another one                     *)
EXTENDS ProcessMonitoring

CONSTANTS t1, t2, u1, p, q

ProcessOf == [t \in Threads |-> IF t = u1 THEN q ELSE p]
==============================================================================
