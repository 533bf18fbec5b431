-------------------------- MODULE MCMultiSpinLock --------------------------
(***************************************************************************)
(* Small instances of MultiSpinLock.                                       *)
(***************************************************************************)
EXTENDS MultiSpinLock, TLC

Symmetric == Permutations(Threads)

=============================================================================
