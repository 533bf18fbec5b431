CONSTANTS
    r1 = r1  r2 = r2  w1 = w1  w2 = w2
    Threads = {r1, r2, w1, w2}
    WriterThreads = {w1, w2}
    Free = Free
SPECIFICATION RWLockFairSpec
INVARIANTS WritersCounted MutualExclusion ReadersCounted GlobalNamesHolder
PROPERTIES ImplementsRWSpinLock ImplementsReadersWriter ReaderEnters
