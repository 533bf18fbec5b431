\* Three threads and a convertible object: an owner, an upgrader and a dropper
\* can all be inside the node at once.  The system stops once all is dropped.
CONSTANTS
    t1 = t1
    t2 = t2
    t3 = t3
    Threads = {t1, t2, t3}
    SelfWeak = TRUE
SPECIFICATION Spec
SYMMETRY Symmetry
CHECK_DEADLOCK FALSE
INVARIANTS
    StrongMeansAlive
    DestroyedOnce
    NodeFreedOnce
    NothingLeaks
