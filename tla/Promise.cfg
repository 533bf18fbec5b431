CONSTANTS
    p1 = p1  p3 = p3  u1 = u1  u2 = u2
    Promises = {p1, p3}
    Deferred = {p3}
    Chained <- NoChain
    None = None
    Users = {u1, u2}
    Workers = {w1}
    Drain = drain
    Main = main
    Waits <- MixedWaits
SPECIFICATION FairSpec
INVARIANTS RunsOnce WaitReturnsDone ClosedMeansDone
PROPERTIES WaitTerminates StartedIsDone
CHECK_DEADLOCK FALSE
