------------------------------ MODULE MCRWLock ------------------------------
(***************************************************************************)
(* Small instances of RWLock.                                              *)
(***************************************************************************)
EXTENDS RWLock

CONSTANTS r1, r2, w1, w2

=============================================================================
