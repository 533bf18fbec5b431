CONSTANTS
    Threads = {t1, t2}
    MaxHeaps = 3
    ObjectCount = 2
    None = None
SYMMETRY Symmetric
SPECIFICATION Spec
INVARIANTS NoLiveHeapCollected HeapCountExact EmptyHeapsReclaimable
CHECK_DEADLOCK FALSE
