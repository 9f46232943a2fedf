------------------------- MODULE MC_ServiceLifecycle -------------------------
(* Nodes that open, share and leave one service name.                        *)
EXTENDS ServiceLifecycle, TLC

NodeSymmetry == Permutations(Nodes)

=============================================================================
