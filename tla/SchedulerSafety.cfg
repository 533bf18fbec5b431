CONSTANTS
    w1 = w1  w2 = w2  c1 = c1  c2 = c2  main = main  k1 = k1  k2 = k2  k3 = k3
    Workers = {w1, w2}
    Clients = {c1}
    Main = main
    Threads <- AllThreads
    Items = {k1, k2, k3}
    Roots = {k1, k2}
    Spawns <- OneSpawns
    Nil = Nil
    Modes = {TRUE, FALSE}
    Size = 2
    IdModulus = 4
    WordModulus = 16
    SerialModulus = 12
SPECIFICATION SchedulerSpec
INVARIANTS AtMostOnce NothingLost HandleNamesTask
CHECK_DEADLOCK FALSE
