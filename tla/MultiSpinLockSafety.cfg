CONSTANTS
    Threads = {t1, t2, t3}
    Free = Free
    Depth = 2
    Calls = {"acquire", "timed"}
SYMMETRY Symmetric
SPECIFICATION Spec
INVARIANTS GrantedMeansOwned OwnerAndDepth
