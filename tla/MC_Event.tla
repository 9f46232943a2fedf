---------------------------------- MODULE MC_Event ----------------------------------
(* Event with ids in two elements of the bit set.                               *)
EXTENDS Event
================================================================================
