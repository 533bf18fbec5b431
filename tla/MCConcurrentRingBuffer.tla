----------------------- MODULE MCConcurrentRingBuffer -----------------------
(***************************************************************************)
(* Small instances of ConcurrentRingBuffer.                                *)
(***************************************************************************)
EXTENDS ConcurrentRingBuffer, TLC

\* No action distinguishes one thread, or one item, from another.
Symmetric == Permutations(Threads) \cup Permutations(Items)

=============================================================================
