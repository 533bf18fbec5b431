--------------------------- MODULE MCTaskScheduler ---------------------------
(***************************************************************************)
(* Small instances of TaskScheduler.                                       *)
(***************************************************************************)
EXTENDS TaskScheduler, TLC

CONSTANTS w1, w2, c1, c2, main, k1, k2, k3

AllThreads == Workers \cup Clients \cup {Main}

\* No callback submits a task.
NoSpawns == [k \in Items |-> Nil]

\* The callback of k1 submits k3.
OneSpawns == [k \in Items |-> IF k = k1 THEN k3 ELSE Nil]

=============================================================================
