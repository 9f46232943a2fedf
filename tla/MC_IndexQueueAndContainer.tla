------------------------ MODULE MC_IndexQueueAndContainer ------------------------
(* Two lock-free data structures on small instances, one per behaviour: subject *)
(* names the one whose steps are taken.  The other stays in its initial state,  *)
(* in which none of its fair actions is enabled.                                *)
EXTENDS IndexQueue, Container

VARIABLE subject

MCInit == subject \in {"queue", "container"} /\ Init /\ ContainerInit

MCNext ==
    /\ \/ subject = "queue" /\ Next /\ UNCHANGED containerVars
       \/ subject = "container" /\ ContainerNext /\ UNCHANGED vars
    /\ UNCHANGED subject

MCSpec == MCInit /\ [][MCNext]_<<vars, containerVars, subject>> /\ ContainerFairness
==================================================================================
