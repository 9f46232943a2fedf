------------------------------ MODULE MC_IndexQueue ------------------------------
(* IndexQueue on a small instance.                                               *)
EXTENDS IndexQueue
==================================================================================
