------------------------------ MODULE MCPromise ------------------------------
(***************************************************************************)
(* Small instances of Promise.                                             *)
(***************************************************************************)
EXTENDS Promise

CONSTANTS p1, p3, u1, u2

NoChain == [p \in Promises |-> None]

\* Both users wait for p1, one of them in both ways, and that one also
\* LazyWaits for p3, which is queued.
MixedWaits == {<<u1, p1, "wait">>, <<u1, p1, "lazy">>, <<u1, p3, "lazy">>, <<u2, p1, "wait">>}
LazyWaits == {<<u1, p1, "lazy">>}
NoWaits == {}

\* The executor of p1 queues p3.
OneChain == [p \in Promises |-> IF p = p1 THEN p3 ELSE None]

=============================================================================
