-------------------------- MODULE MC_QueueAndMonitoring --------------------------
(* The overflowing queue and the monitoring of processes on small instances,    *)
(* one per behaviour: subject names the one whose steps are taken.  The other   *)
(* stays in its initial state, in which none of its fair actions is enabled.    *)
EXTENDS SafelyOverflowingIndexQueue, MC_ProcessMonitoring

VARIABLE subject

MCInit == subject \in {"queue", "monitoring"} /\ Init /\ MonitoringInit

MCNext ==
    /\ \/ subject = "queue" /\ Next /\ UNCHANGED monitoringVars
       \/ subject = "monitoring" /\ MonitoringNext /\ UNCHANGED vars
    /\ UNCHANGED subject

MCSpec == MCInit /\ [][MCNext]_<<vars, monitoringVars, subject>> /\ MonitoringFairness
==================================================================================
