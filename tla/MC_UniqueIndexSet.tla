---------------------------- MODULE MC_UniqueIndexSet ----------------------------
(* UniqueIndexSet on small instances.                                             *)
EXTENDS UniqueIndexSet
==================================================================================
