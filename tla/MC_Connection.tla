------------------------------ MODULE MC_Connection ------------------------------
(* A connection on small instances: the samples that travel through it          *)
(* (ZeroCopyConnection), and its creation and removal by two ports and the      *)
(* cleaners of their nodes (ConnectionLifecycle), one per behaviour: subject    *)
(* names the one whose steps are taken.  The other stays in an initial state,   *)
(* in which none of its fair actions is enabled.                                *)
EXTENDS ZeroCopyConnection, ConnectionLifecycle

VARIABLE subject

ConnectionInit ==
    /\ Init /\ LifecycleInit
    /\ \/ subject = "samples" /\ compatible
       \/ subject = "lifecycle" /\ enable_safe_overflow

ConnectionNext ==
    /\ \/ subject = "samples" /\ Next /\ UNCHANGED lifecycleVars
       \/ subject = "lifecycle" /\ LifecycleNext /\ UNCHANGED vars
    /\ UNCHANGED subject

ConnectionSpec ==
    /\ ConnectionInit /\ [][ConnectionNext]_<<vars, lifecycleVars, subject>>
    /\ ConnectionFairness /\ LifecycleFairness
==================================================================================
