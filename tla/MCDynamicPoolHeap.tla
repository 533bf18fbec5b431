------------------------- MODULE MCDynamicPoolHeap -------------------------
(***************************************************************************)
(* Small instances of DynamicPoolHeap.                                     *)
(***************************************************************************)
EXTENDS DynamicPoolHeap, TLC

Symmetric == Permutations(Threads)

=============================================================================
