------------------------ MODULE MCAtomicSmartPointer ------------------------
(* Instance of AtomicSmartPointer for TLC: the threads are interchangeable. *)
EXTENDS AtomicSmartPointer, TLC

Symmetry == Permutations(Threads)
=============================================================================
