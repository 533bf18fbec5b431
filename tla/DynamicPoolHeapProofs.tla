------------------------- MODULE DynamicPoolHeapProofs -------------------------
(***************************************************************************)
(* For any finite set of threads, any number of pools and of objects in    *)
(* one: the counters of a pool agree with the objects that are out, the    *)
(* counters of the list agree with the list, a collection takes no pool    *)
(* that is in use, and no empty pool is forgotten by it.                   *)
(***************************************************************************)
EXTENDS DynamicPoolHeap, FiniteSetTheorems, SequenceTheorems, TLAPS

\* Inside PushHeap, where the lock it takes is held.
Pushing == {"scan", "last_pop", "last_count", "recycle_pop", "recycle_count",
            "grow", "recycle", "recycled", "no_object"}

\* The types of the variables that are not counters.
Types ==
    /\ list \in Seq(Heaps) /\ Top \in Nodes
    /\ avail \in [Heaps -> Nat] /\ mAllocations \in [Heaps -> Nat]
    /\ mLock \in [Heaps -> Threads \cup {None}]
    /\ mGarbage \in [Heaps -> BOOLEAN]
    /\ mPushHeapLock \in Threads \cup {None}
    /\ mHeapCount \in Nat /\ mGarbageHeapCount \in Int
    /\ at \in [Threads -> Places] /\ it \in [Threads -> Heaps]
    /\ lastNotGarbage \in Heaps \cup {None} /\ recycleHeap \in Heaps \cup {None}
    /\ held \in [Threads -> [Heaps -> Nat]]

\* Every node is in the list once, and mHeapCount follows it.
ListCounted ==
    /\ mHeapCount = Len(list) /\ mHeapCount = Cardinality(Nodes)
    /\ mHeapCount <= MaxHeaps

\* A thread inside is at a node of the list, and nothing refers to a node that
\* is not: neither a local of PushHeap nor an object or a flag.
Located ==
    /\ \A t \in Threads : at[t] # "idle" => it[t] \in Nodes
    /\ \A t \in Threads : at[t] \in {"empty", "mark"} => it[t] # Top
    /\ lastNotGarbage \in Nodes \cup {None} /\ recycleHeap \in Nodes \cup {None}
    /\ \A h \in Heaps \ Nodes :
        avail[h] = 0 /\ ~mGarbage[h] /\ \A t \in Threads : held[t][h] = 0

\* mPushHeapLock and its locals belong to the one thread in PushHeap; the heap
\* it is about to recycle stays garbage until it clears the flag itself.
PushOwned ==
    /\ \A t \in Threads : at[t] \in Pushing <=> mPushHeapLock = t
    /\ mPushHeapLock = None => lastNotGarbage = None /\ recycleHeap = None
    /\ \A t \in Threads :
        /\ at[t] \in {"recycle_pop", "recycle_count"} => it[t] = recycleHeap
        /\ at[t] \in Pushing \ {"recycle", "recycled"} /\ recycleHeap # None =>
                mGarbage[recycleHeap]
        /\ at[t] \in {"recycle", "recycled"} => held[t][it[t]] > 0

Structure == Types /\ ListCounted /\ Located /\ PushOwned

-----------------------------------------------------------------------------
\* The objects of h a thread holds are numbered; number 0 is the one it has
\* taken or is giving back: Out counts it while it is not on the free list,
\* Tallied while mAllocations counts it.
OutBy == {"give"} \cup Counting
TalliedBy == {"give", "uncount"}
Numbered(places, h) ==
    {x \in Threads \X Nat :
        IF x[2] = 0 THEN at[x[1]] \in places /\ it[x[1]] = h ELSE x[2] <= held[x[1]][h]}
Out(h) == Numbered(OutBy, h)
Tallied(h) == Numbered(TalliedBy, h)

\* Every object of a pool is on its free list or out, and mAllocations is the
\* number of those that are out.
Accounted ==
    \A h \in Heaps :
        /\ IsFiniteSet(Out(h)) /\ IsFiniteSet(Tallied(h))
        /\ mAllocations[h] = Cardinality(Tallied(h))
        /\ h \in Nodes => avail[h] + Cardinality(Out(h)) = ObjectCount

\* The nodes GCCollect may take, marks that mGarbageHeapCount is still to count
\* and the recycling it is still to uncount.
Garbage == {h \in Nodes : mGarbage[h]}
Marking == {t \in Threads : at[t] = "marked"}
Recycling == {t \in Threads :
    at[t] = "recycled" \/ (at[t] = "recycle" /\ ~mGarbage[it[t]])}

GarbageCounted ==
    mGarbageHeapCount + Cardinality(Marking) >= Cardinality(Garbage) + Cardinality(Recycling)

\* A pool without objects is marked or about to be.
Remembered ==
    \A h \in Nodes \ {Top} : mAllocations[h] = 0 /\ ~mGarbage[h] =>
        \E t \in Threads : at[t] \in {"empty", "mark"} /\ it[t] = h

\* A thread between its two accesses to a pool has the pool's mLock; the object
\* it gives back is on the free list then.
Locking == {"uncount"} \cup Counting
LockHeld ==
    /\ \A t \in Threads, h \in Heaps : at[t] \in Locking /\ it[t] = h <=> mLock[h] = t
    /\ \A t \in Threads : at[t] = "uncount" => avail[it[t]] > 0

TopFirst == list[1] = Top

PoolInv == Structure /\ Accounted /\ GarbageCounted /\ Remembered /\ LockHeld /\ TopFirst

-----------------------------------------------------------------------------
(***************************************************************************)
(* The structure: the list, where threads are, who is in PushHeap          *)
(***************************************************************************)
\* The nodes a thread comes to when it follows the list are nodes of the list.
LEMMA NextIsNode ==
    ASSUME list \in Seq(Heaps), NEW h \in Nodes
    PROVE  GetNext(h) \in Nodes \cup {None}
<1>1. PICK j \in DOMAIN list : list[j] = h
  BY DEF Nodes, Range
<1>2. Position(h) \in DOMAIN list
  BY <1>1 DEF Position
<1>3. DOMAIN list = 1..Len(list) /\ Len(list) \in Nat
  OBVIOUS
<1>4. CASE Position(h) = Len(list)
  BY <1>4 DEF GetNext
<1>5. CASE Position(h) # Len(list)
  <2>1. Position(h) + 1 \in DOMAIN list
    BY <1>2, <1>3, <1>5
  <2>2. GetNext(h) = list[Position(h) + 1]
    BY <1>5 DEF GetNext
  <2>. QED
    BY <2>1, <2>2 DEF Nodes, Range
<1>. QED
  BY <1>4, <1>5

\* A step of t that leaves the list and PushHeap's lock alone keeps the structure
\* if the place and the node it comes to fit, for a step of any other kind.
LEMMA WalkKept ==
    ASSUME Structure, NEW t \in Threads, NEW to \in Places, NEW h \in Heaps,
           at' = [at EXCEPT ![t] = to], it' = [it EXCEPT ![t] = h],
           UNCHANGED <<list, mPushHeapLock, mHeapCount, lastNotGarbage, recycleHeap>>,
           avail' \in [Heaps -> Nat], mAllocations' \in [Heaps -> Nat],
           \A g \in Heaps \ Nodes : avail'[g] = 0,
           mLock' \in [Heaps -> Threads \cup {None}],
           mGarbageHeapCount' \in Int,
           \* the flags
           mGarbage' \in [Heaps -> BOOLEAN],
           \A g \in Heaps \ Nodes : ~mGarbage'[g],
           at[t] # "recycle" => \A g \in Heaps : mGarbage[g] => mGarbage'[g],
           \* the objects
           held' \in [Threads -> [Heaps -> Nat]],
           \A u \in Threads \ {t} : held'[u] = held[u],
           \A g \in Heaps \ Nodes : held'[t][g] = 0,
           \* the place
           to # "idle" => h \in Nodes,
           to \in {"empty", "mark"} => h # Top,
           at[t] \in Pushing <=> to \in Pushing,
           to \in {"recycle_pop", "recycle_count"} => h = recycleHeap,
           to \in {"recycle", "recycled"} => held'[t][h] > 0,
           at[t] \in {"recycle", "recycled"} => to \in {"recycle", "recycled"}
    PROVE  Structure'
<1>. USE DynamicPoolHeapAssumption DEF Structure
<1>1. Nodes' = Nodes
  BY DEF Nodes
<1>2. \A u \in Threads : /\ at'[u] = IF u = t THEN to ELSE at[u]
                         /\ it'[u] = IF u = t THEN h ELSE it[u]
  BY DEF Types
<1>3. Types'
  BY <1>1 DEF Types
<1>4. ListCounted'
  BY <1>1 DEF ListCounted
<1>5. Located'
  <2>1. \A u \in Threads : at'[u] # "idle" => it'[u] \in Nodes
    BY <1>2 DEF Located
  <2>2. \A u \in Threads : at'[u] \in {"empty", "mark"} => it'[u] # Top
    BY <1>2 DEF Located
  <2>3. \A g \in Heaps \ Nodes : \A u \in Threads : held'[u][g] = 0
    <3>. TAKE g \in Heaps \ Nodes
    <3>. TAKE u \in Threads
    <3>1. CASE u = t
      BY <3>1
    <3>2. CASE u # t
      <4>1. held'[u] = held[u]
        BY <3>2
      <4>2. held[u][g] = 0
        BY DEF Located
      <4>. QED
        BY <4>1, <4>2
    <3>. QED
      BY <3>1, <3>2
  <2>4. lastNotGarbage' \in Nodes \cup {None} /\ recycleHeap' \in Nodes \cup {None}
    BY DEF Located
  <2>. QED
    BY <1>1, <2>1, <2>2, <2>3, <2>4 DEF Located
<1>6. PushOwned'
  <2>1. \A u \in Threads : at'[u] \in Pushing <=> mPushHeapLock' = u
    BY <1>2 DEF PushOwned
  <2>2. \A u \in Threads \ {t} : at[u] \in Pushing => at[t] \notin Pushing
    BY DEF PushOwned, Types
  <2>3. \A u \in Threads : at'[u] \in {"recycle_pop", "recycle_count"} => it'[u] = recycleHeap'
    BY <1>2 DEF PushOwned
  <2>4. \A u \in Threads : at'[u] \in {"recycle", "recycled"} => held'[u][it'[u]] > 0
    BY <1>2 DEF PushOwned
  <2>5. ASSUME NEW u \in Threads, at'[u] \in Pushing \ {"recycle", "recycled"},
               recycleHeap' # None
        PROVE  mGarbage'[recycleHeap']
    <3>1. at[t] # "recycle"
      BY <1>2, <2>2, <2>5 DEF Pushing
    <3>2. at[u] \in Pushing \ {"recycle", "recycled"}
      BY <1>2, <2>5
    <3>. QED
      BY <2>5, <3>1, <3>2 DEF PushOwned, Types
  <2>. QED
    BY <2>1, <2>3, <2>4, <2>5 DEF PushOwned
<1>. QED
  BY <1>3, <1>4, <1>5, <1>6


\* Allocate follows the list.
LEMMA FollowKept ==
    ASSUME Structure, NEW t \in Threads, StartAllocate(t) \/ Advance(t)
    PROVE  Structure'
<1>. USE DynamicPoolHeapAssumption
<1>0. Types /\ Located
  BY DEF Structure
<1>1. UNCHANGED <<list, mPushHeapLock, mHeapCount, lastNotGarbage, recycleHeap>> /\
      UNCHANGED <<avail, mAllocations, mLock, mGarbage, mGarbageHeapCount, held>>
  BY DEF StartAllocate, Advance, poolVars, heapVars, pushVars
<1>2. PICK to \in {"pop", "next", "push"}, h \in Nodes :
        at' = [at EXCEPT ![t] = to] /\ it' = [it EXCEPT ![t] = h]
  <2>1. CASE StartAllocate(t)
    BY <1>0, <2>1 DEF StartAllocate, Goto, Move, Types
  <2>2. CASE Advance(t)
    <3>1. at[t] = "next"
      BY <2>2 DEF Advance, In
    <3>2. it[t] \in Nodes
      BY <1>0, <3>1 DEF Located
    <3>3. GetNext(it[t]) \in Nodes \cup {None}
      BY <1>0, <3>2, NextIsNode DEF Types
    <3>. QED
      BY <2>2, <3>2, <3>3 DEF Advance, Goto, Move
  <2>. QED
    BY <2>1, <2>2
<1>3. at[t] \in {"idle", "next"}
  BY DEF StartAllocate, Advance, In
<1>4. to \in Places /\ h \in Heaps
  BY <1>0, <1>2 DEF Places, Popping, Types, Nodes, Range
<1>5. at[t] \notin Pushing /\ to \notin Pushing
  BY <1>2, <1>3 DEF Pushing
<1>. QED
  BY <1>0, <1>1, <1>2, <1>3, <1>4, <1>5, WalkKept DEF Types, Located

\* PoolHeap::Allocate takes an object, or leaves the pool when it has none.
LEMMA PopKept ==
    ASSUME Structure, NEW t \in Threads, PoolPop(t)
    PROVE  Structure'
<1>. USE DynamicPoolHeapAssumption
<1>0. Types /\ Located /\ PushOwned
  BY DEF Structure
<1>1. UNCHANGED <<list, mPushHeapLock, mHeapCount, lastNotGarbage, recycleHeap>> /\
      UNCHANGED <<mAllocations, mGarbage, mGarbageHeapCount, held>>
  BY DEF PoolPop, poolVars, heapVars, pushVars
<1>2. at[t] \in Popping /\ it[t] \in Nodes /\ it[t] \in Heaps
  BY <1>0 DEF PoolPop, In, Located, Popping, Types
<1>3. at[t] \in Pushing <=> at[t] # "pop"
  BY <1>2 DEF Pushing, Popping
<1>4. CASE avail[it[t]] = 0
  <2>1. UNCHANGED <<avail, mLock>> /\ AfterFailure(t)
    BY <1>4 DEF PoolPop, poolVars
  <2>2. PICK to \in {"next", "recycle_pop", "grow", "no_object"}, h \in Nodes :
          /\ at' = [at EXCEPT ![t] = to] /\ it' = [it EXCEPT ![t] = h]
          /\ at[t] = "pop" <=> to = "next"
          /\ to = "recycle_pop" => h = recycleHeap
    <3>1. CASE at[t] = "pop"
      BY <1>2, <2>1, <3>1 DEF AfterFailure, Goto, Move
    <3>2. CASE at[t] = "last_pop" /\ recycleHeap # None
      <4>1. recycleHeap \in Nodes
        BY <1>0, <3>2 DEF Located
      <4>2. at' = [at EXCEPT ![t] = "recycle_pop"] /\ it' = [it EXCEPT ![t] = recycleHeap]
        BY <2>1, <3>2 DEF AfterFailure, Goto, Move
      <4>. QED
        BY <3>2, <4>1, <4>2
    <3>3. CASE at[t] = "last_pop" /\ recycleHeap = None
      BY <1>2, <2>1, <3>3 DEF AfterFailure, Goto, Move
    <3>4. CASE at[t] = "recycle_pop"
      BY <1>2, <2>1, <3>4 DEF AfterFailure, Goto, Move
    <3>. QED
      BY <1>2, <3>1, <3>2, <3>3, <3>4 DEF Popping
  <2>3. to \in Places /\ h \in Heaps
    BY <1>0, <2>2 DEF Places, Popping, Types, Nodes, Range
  <2>4. at[t] \in Pushing <=> to \in Pushing
    BY <1>3, <2>2 DEF Pushing
  <2>5. at[t] \notin {"recycle", "recycled"}
    BY <1>2 DEF Popping
  <2>. QED
    BY <1>0, <1>1, <2>1, <2>2, <2>3, <2>4, <2>5, WalkKept DEF Types, Located
<1>5. CASE avail[it[t]] # 0
  <2>. DEFINE to == AfterPop(at[t])
              h == it[t]
  <2>1. /\ at' = [at EXCEPT ![t] = to]
        /\ avail' = [avail EXCEPT ![h] = @ - 1]
        /\ mLock' = [mLock EXCEPT ![h] = t] /\ it' = it
    BY <1>5 DEF PoolPop, Move
  <2>2. it' = [it EXCEPT ![t] = h]
    BY <1>0, <2>1 DEF Types
  <2>3. avail[h] - 1 \in Nat
    <3>1. avail[it[t]] \in Nat
      BY <1>0, <1>2 DEF Types
    <3>. QED
      BY <1>5, <3>1
  <2>4. avail' \in [Heaps -> Nat] /\ mLock' \in [Heaps -> Threads \cup {None}]
    BY <1>0, <1>2, <2>1, <2>3 DEF Types
  <2>5. to \in Counting /\ (to = "recycle_count" <=> at[t] = "recycle_pop") /\
        (to = "count" <=> at[t] = "pop")
    BY <1>2 DEF AfterPop, Popping, Counting
  <2>6. to \in Places /\ (to \in Pushing <=> at[t] \in Pushing)
    BY <1>3, <2>5 DEF Places, Counting, Pushing
  <2>7. to = "recycle_count" => h = recycleHeap
    BY <1>0, <2>5 DEF PushOwned
  <2>8. \A g \in Heaps \ Nodes : avail'[g] = 0
    BY <1>0, <1>2, <2>1 DEF Types, Located
  <2>9. to \notin {"empty", "mark", "recycle", "recycled", "recycle_pop"} /\
        at[t] \notin {"recycle", "recycled"}
    BY <1>2, <2>5 DEF Counting, Popping
  <2>. HIDE DEF to, h
  <2>10. h \in Heaps /\ h \in Nodes
    BY <1>2 DEF h
  <2>11. at' = [at EXCEPT ![t] = to]
    BY <2>1
  <2>12. to # "idle"
    BY <2>5 DEF Counting
  <2>. QED
    BY <1>0, <1>1, <2>2, <2>4, <2>6, <2>7, <2>8, <2>9, <2>10, <2>11, <2>12, WalkKept DEF Types, Located
<1>. QED
  BY <1>4, <1>5

\* PoolHeap::Allocate hands the object over, but for the last pool of PushHeap.
LEMMA CountKept ==
    ASSUME Structure, NEW t \in Threads, PoolCount(t), at[t] # "last_count"
    PROVE  Structure'
<1>. USE DynamicPoolHeapAssumption
<1>0. Types /\ Located /\ PushOwned
  BY DEF Structure
<1>1. at[t] \in {"count", "recycle_count"} /\ it[t] \in Nodes /\ it[t] \in Heaps
  BY <1>0 DEF PoolCount, In, Located, Counting, Types
<1>. DEFINE g == it[t]
            to == IF at[t] = "count" THEN "idle" ELSE "recycle"
            h == IF at[t] = "count" THEN Top ELSE g
<1>2. UNCHANGED <<list, mPushHeapLock, mHeapCount, lastNotGarbage, recycleHeap>> /\
      UNCHANGED <<avail, mGarbage, mGarbageHeapCount>>
  BY <1>1 DEF PoolCount, pushVars
<1>3. at' = [at EXCEPT ![t] = to] /\ it' = [it EXCEPT ![t] = h]
  BY <1>1 DEF PoolCount, Goto, Move
<1>4. /\ mAllocations' = [mAllocations EXCEPT ![g] = @ + 1]
      /\ mLock' = [mLock EXCEPT ![g] = None]
      /\ held' = [held EXCEPT ![t][g] = @ + 1]
  BY DEF PoolCount
<1>5. mAllocations' \in [Heaps -> Nat] /\ mLock' \in [Heaps -> Threads \cup {None}]
  <2>1. g \in Heaps /\ mAllocations[g] \in Nat /\ mAllocations[g] + 1 \in Nat
    <3>1. g \in Heaps
      BY <1>1
    <3>2. mAllocations[g] \in Nat
      BY <1>0, <3>1 DEF Types
    <3>. QED
      BY <3>1, <3>2
  <2>. HIDE DEF g
  <2>2. mAllocations' \in [Heaps -> Nat]
    BY <1>0, <1>4, <2>1 DEF Types
  <2>3. mLock' \in [Heaps -> Threads \cup {None}]
    BY <1>0, <1>4, <2>1 DEF Types
  <2>. QED
    BY <2>2, <2>3
<1>6. /\ held' \in [Threads -> [Heaps -> Nat]]
      /\ \A u \in Threads \ {t} : held'[u] = held[u]
      /\ \A j \in Heaps \ Nodes : held'[t][j] = 0
      /\ held'[t][g] > 0
  <2>1. held[t] \in [Heaps -> Nat] /\ held[t][g] + 1 \in Nat /\ held[t][g] + 1 > 0
    <3>1. held[t] \in [Heaps -> Nat]
      BY <1>0 DEF Types
    <3>2. held[t][g] \in Nat
      BY <1>1, <3>1
    <3>. QED
      BY <3>1, <3>2
  <2>2. held' = [held EXCEPT ![t] = [held[t] EXCEPT ![g] = held[t][g] + 1]]
    BY <1>4
  <2>. QED
    BY <1>0, <1>1, <2>1, <2>2 DEF Types, Located
<1>7. /\ to \in {"idle", "recycle"} /\ to \in Places /\ h \in Heaps
      /\ to # "idle" => h \in Nodes
      /\ at[t] \in Pushing <=> to \in Pushing
      /\ to = "recycle" => h = g
  <2>1. Top \in Heaps
    BY DEF Top, Heaps
  <2>2. CASE at[t] = "count"
    BY <2>1, <2>2 DEF Places, Pushing
  <2>3. CASE at[t] = "recycle_count"
    BY <1>1, <2>3 DEF Places, Pushing
  <2>. QED
    BY <1>1, <2>2, <2>3
<1>. HIDE DEF to, h, g
<1>8. to = "recycle" => held'[t][h] > 0
  BY <1>6, <1>7
<1>9. to \notin {"empty", "mark", "recycle_pop", "recycle_count", "recycled"} /\
      at[t] \notin {"recycle", "recycled"}
  BY <1>1, <1>7
<1>. QED
  BY <1>0, <1>2, <1>3, <1>5, <1>6, <1>7, <1>8, <1>9, WalkKept DEF Types, Located

\* PushHeap chooses the pool it tries first.
LEMMA ScanEndKept ==
    ASSUME Structure, NEW t \in Threads, ScanEnd(t)
    PROVE  Structure'
<1>. USE DynamicPoolHeapAssumption
<1>0. Types /\ Located
  BY DEF Structure
<1>1. at[t] = "scan" /\ it[t] \in Nodes
  BY <1>0 DEF ScanEnd, In, Located
<1>2. UNCHANGED <<list, mPushHeapLock, mHeapCount, lastNotGarbage, recycleHeap>> /\
      UNCHANGED <<avail, mAllocations, mLock, mGarbage, mGarbageHeapCount, held>>
  BY DEF ScanEnd, poolVars, heapVars, pushVars
<1>3. PICK to \in {"last_pop", "recycle_pop", "grow"}, h \in Nodes :
        /\ at' = [at EXCEPT ![t] = to] /\ it' = [it EXCEPT ![t] = h]
        /\ to = "recycle_pop" => h = recycleHeap
  <2>1. CASE lastNotGarbage # None
    <3>1. lastNotGarbage \in Nodes
      BY <1>0, <2>1 DEF Located
    <3>. QED
      BY <2>1, <3>1 DEF ScanEnd, Goto, Move
  <2>2. CASE lastNotGarbage = None /\ recycleHeap # None
    <3>1. recycleHeap \in Nodes
      BY <1>0, <2>2 DEF Located
    <3>2. at' = [at EXCEPT ![t] = "recycle_pop"] /\ it' = [it EXCEPT ![t] = recycleHeap]
      BY <2>2 DEF ScanEnd, Goto, Move
    <3>. QED
      BY <3>1, <3>2
  <2>3. CASE lastNotGarbage = None /\ recycleHeap = None
    BY <1>1, <2>3 DEF ScanEnd, Goto, Move
  <2>. QED
    BY <2>1, <2>2, <2>3
<1>4. to \in Places /\ h \in Heaps
  BY <1>0, <1>3 DEF Places, Popping, Types, Nodes, Range
<1>5. at[t] \in Pushing /\ to \in Pushing
  BY <1>1, <1>3 DEF Pushing
<1>6. to \notin {"empty", "mark", "recycle", "recycled", "recycle_count"} /\
      at[t] \notin {"recycle", "recycled"}
  BY <1>1, <1>3
<1>. QED
  BY <1>0, <1>2, <1>3, <1>4, <1>5, <1>6, WalkKept DEF Types, Located

\* The flag of a pool is set or cleared.
LEMMA MarkKept ==
    ASSUME Structure, NEW t \in Threads, MarkRecycle(t) \/ MarkGarbage(t)
    PROVE  Structure'
<1>. USE DynamicPoolHeapAssumption
<1>0. Types /\ Located /\ PushOwned
  BY DEF Structure
<1>1. UNCHANGED <<list, mPushHeapLock, mHeapCount, lastNotGarbage, recycleHeap>> /\
      UNCHANGED <<avail, mAllocations, mLock, mGarbageHeapCount, held>>
  BY DEF MarkRecycle, MarkGarbage, poolVars, pushVars
<1>2. CASE MarkRecycle(t)
  <2>1. at[t] = "recycle" /\ it[t] \in Nodes /\ held[t][it[t]] > 0
    BY <1>0, <1>2 DEF MarkRecycle, In, Located, PushOwned
  <2>2. PICK to \in {"recycle", "recycled"} : at' = [at EXCEPT ![t] = to]
    BY <1>2 DEF MarkRecycle, Move
  <2>3. it' = [it EXCEPT ![t] = it[t]] /\ it[t] \in Heaps
    BY <1>0, <1>2 DEF MarkRecycle, Types
  <2>4. mGarbage' \in [Heaps -> BOOLEAN] /\ \A g \in Heaps \ Nodes : ~mGarbage'[g]
    BY <1>0, <1>2, <2>1 DEF MarkRecycle, Types, Located
  <2>5. to \in Places /\ to \in Pushing /\ at[t] \in Pushing
    BY <2>1, <2>2 DEF Places, Pushing
  <2>. QED
    BY <1>0, <1>1, <2>1, <2>2, <2>3, <2>4, <2>5, WalkKept DEF Types, Located
<1>3. CASE MarkGarbage(t)
  <2>1. at[t] = "mark" /\ it[t] \in Nodes
    BY <1>0, <1>3 DEF MarkGarbage, In, Located
  <2>2. PICK to \in {"idle", "marked"} : at' = [at EXCEPT ![t] = to]
    BY <1>3 DEF MarkGarbage, Goto, Move
  <2>3. it' = [it EXCEPT ![t] = Top] /\ Top \in Nodes /\ Top \in Heaps
    BY <1>0, <1>3 DEF MarkGarbage, Goto, Types, Nodes, Range
  <2>4. /\ mGarbage' \in [Heaps -> BOOLEAN] /\ \A g \in Heaps \ Nodes : ~mGarbage'[g]
        /\ \A g \in Heaps : mGarbage[g] => mGarbage'[g]
    BY <1>0, <1>3, <2>1 DEF MarkGarbage, Types, Located
  <2>5. to \in Places /\ to \notin Pushing /\ at[t] \notin Pushing
    BY <2>1, <2>2 DEF Places, Pushing
  <2>6. at[t] \notin {"recycle", "recycled"} /\ to \notin {"recycle_pop", "recycle_count", "recycle", "recycled"}
    BY <2>1, <2>2
  <2>. QED
    BY <1>0, <1>1, <2>1, <2>2, <2>3, <2>4, <2>5, <2>6, WalkKept DEF Types, Located
<1>. QED
  BY <1>2, <1>3

\* An object is given back to its pool, before the pool counts it.
LEMMA GiveKept ==
    ASSUME Structure, NEW t \in Threads,
           (\E h \in Heaps : StartFree(t, h)) \/ PoolPush(t)
    PROVE  Structure'
<1>. USE DynamicPoolHeapAssumption
<1>0. Types /\ Located
  BY DEF Structure
<1>1. UNCHANGED <<list, mPushHeapLock, mHeapCount, lastNotGarbage, recycleHeap>> /\
      UNCHANGED <<mAllocations, mGarbage, mGarbageHeapCount>>
  BY DEF StartFree, PoolPush, poolVars, heapVars, pushVars
<1>2. ASSUME NEW h \in Heaps, StartFree(t, h)  PROVE Structure'
  <2>1. at[t] = "idle" /\ held[t][h] > 0
    BY <1>2 DEF StartFree, In
  <2>2. UNCHANGED <<avail, mLock>>
    BY <1>2 DEF StartFree, poolVars
  <2>3. at' = [at EXCEPT ![t] = "give"] /\ it' = [it EXCEPT ![t] = h]
    BY <1>2 DEF StartFree, Goto, Move
  <2>4. held[t] \in [Heaps -> Nat]
    BY <1>0 DEF Types
  <2>5. held[t][h] - 1 \in Nat
    <3>1. held[t][h] \in Nat
      BY <2>4
    <3>. QED
      BY <2>1, <3>1
  <2>6. held' = [held EXCEPT ![t] = [held[t] EXCEPT ![h] = held[t][h] - 1]]
    BY <1>2 DEF StartFree
  <2>7. h \in Nodes
    BY <1>0, <2>1 DEF Located
  <2>8. /\ held' \in [Threads -> [Heaps -> Nat]]
        /\ \A u \in Threads \ {t} : held'[u] = held[u]
        /\ \A j \in Heaps \ Nodes : held'[t][j] = 0
    BY <1>0, <2>4, <2>5, <2>6, <2>7 DEF Types, Located
  <2>9. "give" \in Places /\ "give" \notin Pushing /\ "idle" \notin Pushing
    BY DEF Places, Pushing
  <2>. QED
    BY <1>0, <1>1, <2>1, <2>2, <2>3, <2>7, <2>8, <2>9, WalkKept DEF Types, Located
<1>3. CASE PoolPush(t)
  <2>. DEFINE h == it[t]
  <2>1. at[t] = "give" /\ h \in Nodes /\ h \in Heaps
    BY <1>0, <1>3 DEF PoolPush, In, Types, Located
  <2>. HIDE DEF h
  <2>2. /\ avail' = [avail EXCEPT ![h] = @ + 1]
        /\ mLock' = [mLock EXCEPT ![h] = t]
    BY <1>3 DEF PoolPush, h
  <2>3. at' = [at EXCEPT ![t] = "uncount"]
    BY <1>3 DEF PoolPush, Move
  <2>4. it' = [it EXCEPT ![t] = h]
    BY <1>0, <1>3 DEF PoolPush, Types, h
  <2>5. held' = held
    BY <1>3 DEF PoolPush
  <2>6. avail[h] \in Nat
    BY <1>0, <2>1 DEF Types
  <2>7. avail' \in [Heaps -> Nat] /\ \A g \in Heaps \ Nodes : avail'[g] = 0
    <3>1. avail \in [Heaps -> Nat] /\ \A g \in Heaps \ Nodes : avail[g] = 0
      BY <1>0 DEF Types, Located
    <3>. QED
      BY <2>1, <2>2, <2>6, <3>1
  <2>8. mLock' \in [Heaps -> Threads \cup {None}]
    <3>1. mLock \in [Heaps -> Threads \cup {None}]
      BY <1>0 DEF Types
    <3>. QED
      BY <2>2, <3>1
  <2>9. "uncount" \in Places /\ "uncount" \notin Pushing /\ "give" \notin Pushing
    BY DEF Places, Pushing
  <2>. QED
    BY <1>0, <1>1, <2>1, <2>3, <2>4, <2>5, <2>7, <2>8, <2>9, WalkKept DEF Types, Located
<1>. QED
  BY <1>2, <1>3

\* The pool counts the object, and the flag is looked at when it was the last.
LEMMA UncountKept ==
    ASSUME Structure, NEW t \in Threads,
           PoolUncount(t) \/ CheckEmpty(t) \/ Marked(t),
           PoolUncount(t) => mAllocations[it[t]] > 0
    PROVE  Structure'
<1>. USE DynamicPoolHeapAssumption
<1>0. Types /\ Located
  BY DEF Structure
<1>1. UNCHANGED <<list, mPushHeapLock, mHeapCount, lastNotGarbage, recycleHeap>> /\
      UNCHANGED <<avail, mGarbage, held>>
  BY DEF PoolUncount, CheckEmpty, FreedLast, Marked, poolVars, heapVars, pushVars
<1>2. Top \in Heaps /\ Top \in Nodes
  BY <1>0 DEF Types, Top, Heaps
<1>3. CASE PoolUncount(t)
  <2>. DEFINE h == it[t]
              to == IF h = Top THEN "idle" ELSE "empty"
  <2>1. at[t] = "uncount" /\ h \in Nodes /\ h \in Heaps
    BY <1>0, <1>3 DEF PoolUncount, In, Types, Located
  <2>2. mAllocations[h] - 1 \in Nat
    <3>1. mAllocations[h] \in Nat
      BY <1>0, <2>1 DEF Types
    <3>. QED
      BY <1>3, <3>1
  <2>3. at' = [at EXCEPT ![t] = to] /\ it' = [it EXCEPT ![t] = h]
    BY <1>3 DEF PoolUncount, Goto, Move
  <2>4. /\ mAllocations' = [mAllocations EXCEPT ![h] = mAllocations[h] - 1]
        /\ mLock' = [mLock EXCEPT ![h] = None]
        /\ mGarbageHeapCount' = mGarbageHeapCount
    BY <1>3 DEF PoolUncount, heapVars
  <2>5. to \in {"idle", "empty"} /\ (to = "empty" => h # Top)
    OBVIOUS
  <2>. HIDE DEF h, to
  <2>6. mAllocations' \in [Heaps -> Nat]
    BY <1>0, <2>1, <2>2, <2>4 DEF Types
  <2>7. mLock' \in [Heaps -> Threads \cup {None}]
    BY <1>0, <2>1, <2>4 DEF Types
  <2>8. to \in Places /\ to \notin Pushing /\ at[t] \notin Pushing
    BY <2>1, <2>5 DEF Places, Pushing
  <2>9. at[t] \notin {"recycle", "recycled"} /\
        to \notin {"mark", "recycle_pop", "recycle_count", "recycle", "recycled"}
    BY <2>1, <2>5
  <2>10. mGarbageHeapCount' \in Int
    BY <1>0, <2>4 DEF Types
  <2>. QED
    BY <1>0, <1>1, <2>1, <2>3, <2>5, <2>6, <2>7, <2>8, <2>9, <2>10, WalkKept DEF Types, Located
<1>4. CASE CheckEmpty(t)
  <2>1. at[t] = "empty" /\ it[t] \in Nodes /\ it[t] # Top /\ it[t] \in Heaps
    BY <1>0, <1>4 DEF CheckEmpty, FreedLast, In, Types, Located
  <2>2. PICK to \in {"idle", "mark"}, h \in {it[t], Top} :
          /\ at' = [at EXCEPT ![t] = to] /\ it' = [it EXCEPT ![t] = h]
          /\ to = "mark" => h = it[t]
    BY <1>4 DEF CheckEmpty, FreedLast, Goto, Move
  <2>3. UNCHANGED <<mAllocations, mLock, mGarbageHeapCount>>
    BY <1>4 DEF CheckEmpty, FreedLast, poolVars, heapVars
  <2>4. h \in Nodes /\ h \in Heaps /\ (to = "mark" => h # Top)
    BY <1>2, <2>1, <2>2
  <2>5. to \in Places /\ to \notin Pushing /\ at[t] \notin Pushing
    BY <2>1, <2>2 DEF Places, Pushing
  <2>6. at[t] \notin {"recycle", "recycled"} /\
        to \notin {"empty", "recycle_pop", "recycle_count", "recycle", "recycled"}
    BY <2>1, <2>2
  <2>. QED
    BY <1>0, <1>1, <2>2, <2>3, <2>4, <2>5, <2>6, WalkKept DEF Types, Located
<1>5. CASE Marked(t)
  <2>1. at[t] = "marked"
    BY <1>5 DEF Marked, In
  <2>2. PICK to \in {"idle", "too_much_garbage"} : at' = [at EXCEPT ![t] = to]
    BY <1>5 DEF Marked, Goto, Move
  <2>3. it' = [it EXCEPT ![t] = Top]
    BY <1>5 DEF Marked, Goto
  <2>4. UNCHANGED <<mAllocations, mLock>> /\ mGarbageHeapCount' \in Int
    <3>1. mGarbageHeapCount' = mGarbageHeapCount + 1
      BY <1>5 DEF Marked
    <3>. QED
      BY <1>0, <1>5, <3>1 DEF Marked, poolVars, Types
  <2>5. to \in Places /\ to \notin Pushing /\ at[t] \notin Pushing
    BY <2>1, <2>2 DEF Places, Pushing
  <2>6. at[t] \notin {"recycle", "recycled"} /\
        to \notin {"empty", "mark", "recycle_pop", "recycle_count", "recycle", "recycled"}
    BY <2>1, <2>2
  <2>. QED
    BY <1>0, <1>1, <1>2, <2>2, <2>3, <2>4, <2>5, <2>6, WalkKept DEF Types, Located
<1>. QED
  BY <1>3, <1>4, <1>5

\* A step with which t leaves PushHeap keeps the structure, if what it does to
\* the list and the pools fits.
LEMMA UnlockKept ==
    ASSUME Structure, NEW t \in Threads, at[t] \in Pushing, PushUnlock(t),
           mGarbage' = mGarbage, Nodes \subseteq Nodes',
           list' \in Seq(Heaps), ListCounted',
           avail' \in [Heaps -> Nat], mAllocations' \in [Heaps -> Nat],
           mLock' \in [Heaps -> Threads \cup {None}],
           mHeapCount' \in Nat, mGarbageHeapCount' \in Int,
           held' \in [Threads -> [Heaps -> Nat]],
           \A g \in Heaps \ Nodes' : avail'[g] = 0,
           \A g \in Heaps \ Nodes', u \in Threads : held'[u][g] = 0
    PROVE  Structure'
<1>. USE DynamicPoolHeapAssumption
<1>0. Types /\ Located /\ PushOwned
  BY DEF Structure
<1>1. /\ mPushHeapLock' = None /\ lastNotGarbage' = None /\ recycleHeap' = None
      /\ at' = [at EXCEPT ![t] = "idle"] /\ it' = [it EXCEPT ![t] = Top]
  BY DEF PushUnlock, Goto, Move
<1>2. \A u \in Threads : /\ at'[u] = IF u = t THEN "idle" ELSE at[u]
                         /\ it'[u] = IF u = t THEN Top ELSE it[u]
  BY <1>0, <1>1 DEF Types
<1>3. \A u \in Threads : u # t => at[u] \notin Pushing
  BY <1>0 DEF PushOwned
<1>4. \A u \in Threads : at'[u] \notin Pushing
  BY <1>2, <1>3 DEF Pushing
<1>5. Types'
  <2>1. at' \in [Threads -> Places] /\ it' \in [Threads -> Heaps]
    <3>1. "idle" \in Places /\ Top \in Heaps
      BY DEF Places, Top, Heaps
    <3>. QED
      BY <1>0, <1>1, <3>1 DEF Types
  <2>2. Top \in Nodes'
    BY <1>0 DEF Types
  <2>3. mGarbage' \in [Heaps -> BOOLEAN]
    BY <1>0 DEF Types
  <2>4. mPushHeapLock' \in Threads \cup {None} /\ lastNotGarbage' \in Heaps \cup {None} /\
        recycleHeap' \in Heaps \cup {None}
    BY <1>1
  <2>. QED
    BY <2>1, <2>2, <2>3, <2>4 DEF Types
<1>6. Located'
  <2>1. \A u \in Threads : at'[u] # "idle" => it'[u] \in Nodes'
    BY <1>0, <1>2 DEF Located
  <2>2. \A u \in Threads : at'[u] \in {"empty", "mark"} => it'[u] # Top
    BY <1>0, <1>2 DEF Located
  <2>3. \A g \in Heaps \ Nodes' : ~mGarbage'[g]
    BY <1>0 DEF Located
  <2>. QED
    BY <1>1, <2>1, <2>2, <2>3 DEF Located
<1>7. PushOwned'
  <2>1. None \notin Threads
    BY DEF DynamicPoolHeapAssumption
  <2>2. \A u \in Threads : at'[u] \in Pushing <=> mPushHeapLock' = u
    BY <1>1, <1>4, <2>1
  <2>3. \A u \in Threads : at'[u] \notin {"recycle_pop", "recycle_count", "recycle", "recycled"}
    BY <1>4 DEF Pushing
  <2>. QED
    BY <1>1, <2>2, <2>3 DEF PushOwned
<1>. QED
  BY <1>5, <1>6, <1>7 DEF Structure

\* PushHeap ends without a new pool.
LEMMA LeaveKept ==
    ASSUME Structure, NEW t \in Threads,
           (PoolCount(t) /\ at[t] = "last_count") \/ Recycled(t) \/ PushHeapFails(t)
    PROVE  Structure'
<1>. USE DynamicPoolHeapAssumption
<1>0. Types /\ Located /\ ListCounted
  BY DEF Structure
<1>1. UNCHANGED <<list, mGarbage, mHeapCount, avail>> /\ PushUnlock(t)
  BY DEF PoolCount, Recycled, PushHeapFails, poolVars
<1>2. at[t] \in Pushing
  BY DEF Pushing, Recycled, PushHeapFails, In
<1>3. Nodes' = Nodes
  BY <1>1 DEF Nodes
<1>4. ListCounted'
  BY <1>0, <1>1, <1>3 DEF ListCounted
<1>5. mGarbageHeapCount' \in Int
  <2>1. CASE Recycled(t)
    BY <1>0, <2>1 DEF Types, Recycled
  <2>2. CASE ~Recycled(t)
    BY <1>0, <2>2 DEF Types, PoolCount, PushHeapFails
  <2>. QED
    BY <2>1, <2>2
<1>6. CASE PoolCount(t)
  <2>. DEFINE h == it[t]
  <2>1. h \in Nodes /\ h \in Heaps
    BY <1>0, <1>6 DEF Types, Located, PoolCount, In, Counting
  <2>. HIDE DEF h
  <2>2. /\ mAllocations' = [mAllocations EXCEPT ![h] = mAllocations[h] + 1]
        /\ mLock' = [mLock EXCEPT ![h] = None]
        /\ held' = [held EXCEPT ![t] = [held[t] EXCEPT ![h] = held[t][h] + 1]]
    BY <1>6 DEF PoolCount, h
  <2>3. mAllocations[h] \in Nat /\ held[t] \in [Heaps -> Nat]
    BY <1>0, <2>1 DEF Types
  <2>4. mAllocations[h] + 1 \in Nat /\ held[t][h] + 1 \in Nat
    <3>1. held[t][h] \in Nat
      BY <2>1, <2>3
    <3>. QED
      BY <2>3, <3>1
  <2>5. mAllocations' \in [Heaps -> Nat]
    BY <2>4, <1>0, <2>2, <2>3 DEF Types
  <2>6. mLock' \in [Heaps -> Threads \cup {None}]
    BY <1>0, <2>1, <2>2 DEF Types
  <2>7. held' \in [Threads -> [Heaps -> Nat]]
    BY <1>0, <2>2, <2>3, <2>4 DEF Types
  <2>8. \A g \in Heaps \ Nodes, u \in Threads : held'[u][g] = 0
    BY <1>0, <2>1, <2>2, <2>3 DEF Types, Located
  <2>. QED
    BY <1>0, <1>1, <1>2, <1>3, <1>4, <1>5, <2>5, <2>6, <2>7, <2>8, UnlockKept DEF Types, Located
<1>7. CASE ~PoolCount(t)
  <2>1. UNCHANGED <<mAllocations, mLock, held>>
    BY <1>7 DEF Recycled, PushHeapFails, poolVars
  <2>. QED
    BY <1>0, <1>1, <1>2, <1>3, <1>4, <1>5, <2>1, UnlockKept DEF Types, Located
<1>. QED
  BY <1>6, <1>7

\* A thread begins PushHeap, and walks over the list in it.
LEMMA ScanKept ==
    ASSUME Structure, NEW t \in Threads, PushLock(t) \/ Scan(t)
    PROVE  Structure'
<1>. USE DynamicPoolHeapAssumption
<1>0. Types /\ Located /\ ListCounted /\ PushOwned
  BY DEF Structure
<1>1. UNCHANGED <<list, mHeapCount, avail, mAllocations, mLock, mGarbage, mGarbageHeapCount, held>>
  BY DEF PushLock, Scan, poolVars, heapVars
<1>2. Nodes' = Nodes /\ None \notin Threads /\ None \notin Nodes
  <2>1. Nodes' = Nodes
    BY <1>1 DEF Nodes
  <2>2. Nodes \subseteq Heaps
    BY <1>0 DEF Types, Nodes, Range
  <2>3. Heaps \subseteq Nat
    BY DEF Heaps
  <2>. QED
    BY <2>1, <2>2, <2>3 DEF DynamicPoolHeapAssumption
<1>3. ListCounted'
  BY <1>0, <1>1, <1>2 DEF ListCounted
<1>4. /\ mPushHeapLock' = t
      /\ \A u \in Threads : u # t => at[u] \notin Pushing
      /\ at' = [at EXCEPT ![t] = "scan"]
      /\ lastNotGarbage' \in Nodes \cup {None} /\ recycleHeap' \in Nodes \cup {None}
      /\ recycleHeap' # None => mGarbage[recycleHeap']
      /\ \E h \in Nodes : it' = [it EXCEPT ![t] = h]
  <2>1. CASE PushLock(t)
    BY <1>0, <1>2, <2>1 DEF PushLock, Goto, Move, PushOwned, pushVars, Types
  <2>2. CASE Scan(t)
    <3>. DEFINE next == GetNext(it[t])
    <3>1. at[t] = "scan" /\ "scan" \in Pushing
      BY <2>2 DEF Scan, In, Pushing
    <3>2. it[t] \in Nodes
      BY <1>0, <3>1 DEF Located
    <3>3. next \in Nodes
      BY <1>0, <2>2, <3>2, NextIsNode DEF Types, Scan
    <3>4. mPushHeapLock = t
      BY <1>0, <3>1 DEF PushOwned
    <3>5. mPushHeapLock' = t
      BY <2>2, <3>4 DEF Scan, heapVars
    <3>6. \A u \in Threads : u # t => at[u] \notin Pushing
      BY <1>0, <3>4 DEF PushOwned
    <3>7. recycleHeap # None => mGarbage[recycleHeap]
      BY <1>0, <3>1 DEF PushOwned
    <3>8. at' = [at EXCEPT ![t] = "scan"] /\ it' = [it EXCEPT ![t] = next]
      BY <2>2 DEF Scan, Goto, Move
    <3>9. /\ lastNotGarbage' \in {lastNotGarbage, next}
          /\ recycleHeap' = recycleHeap \/ (mGarbage[next] /\ recycleHeap' = next)
      BY <2>2 DEF Scan
    <3>. HIDE DEF next
    <3>10. lastNotGarbage' \in Nodes \cup {None} /\ recycleHeap' \in Nodes \cup {None}
      BY <1>0, <3>3, <3>9 DEF Located
    <3>. QED
      BY <3>3, <3>5, <3>6, <3>7, <3>8, <3>9, <3>10
  <2>. QED
    BY <2>1, <2>2
<1>5. PICK h \in Nodes : it' = [it EXCEPT ![t] = h]
  BY <1>4
<1>6. \A u \in Threads : /\ at'[u] = IF u = t THEN "scan" ELSE at[u]
                         /\ it'[u] = IF u = t THEN h ELSE it[u]
  BY <1>0, <1>4, <1>5 DEF Types
<1>7. h \in Heaps /\ Nodes \subseteq Heaps
  BY <1>0 DEF Types, Nodes, Range
<1>8. Types'
  <2>1. at' \in [Threads -> Places] /\ it' \in [Threads -> Heaps]
    BY <1>0, <1>4, <1>5, <1>7 DEF Types, Places
  <2>2. /\ mPushHeapLock' \in Threads \cup {None}
        /\ lastNotGarbage' \in Heaps \cup {None} /\ recycleHeap' \in Heaps \cup {None}
    BY <1>4, <1>7
  <2>. QED
    BY <1>0, <1>1, <1>2, <2>1, <2>2 DEF Types
<1>9. Located'
  <2>1. \A u \in Threads : at'[u] # "idle" => it'[u] \in Nodes
    BY <1>0, <1>6 DEF Located
  <2>2. \A u \in Threads : at'[u] \in {"empty", "mark"} => it'[u] # Top
    BY <1>0, <1>6 DEF Located
  <2>. QED
    BY <1>0, <1>1, <1>2, <1>4, <2>1, <2>2 DEF Located
<1>10. PushOwned'
  <2>1. \A u \in Threads : at'[u] \in Pushing <=> mPushHeapLock' = u
    BY <1>4, <1>6 DEF Pushing
  <2>2. \A u \in Threads : at'[u] \notin {"recycle_pop", "recycle_count", "recycle", "recycled"}
    BY <1>4, <1>6 DEF Pushing
  <2>3. recycleHeap' # None => mGarbage'[recycleHeap']
    BY <1>1, <1>4
  <2>. QED
    BY <1>2, <1>4, <2>1, <2>2, <2>3 DEF PushOwned
<1>. QED
  BY <1>3, <1>8, <1>9, <1>10 DEF Structure

LEMMA NodesFinite ==
    ASSUME Types
    PROVE  Nodes \subseteq Heaps /\ IsFiniteSet(Nodes)
<1>1. Nodes \subseteq Heaps
  BY DEF Types, Nodes, Range
<1>2. IsFiniteSet(Heaps)
  BY DynamicPoolHeapAssumption, FS_Interval DEF Heaps
<1>. QED
  BY <1>1, <1>2, FS_Subset

\* PushHeap appends a pool the list did not have.
LEMMA NewNodeIs ==
    ASSUME Types, Heaps # Nodes, NEW h, h = CHOOSE n \in Heaps : n \notin Nodes,
           list' = Append(list, h)
    PROVE  /\ h \in Heaps /\ h \notin Nodes
           /\ Nodes' = Nodes \cup {h}
           /\ list' \in Seq(Heaps) /\ Len(list') = Len(list) + 1
           /\ Cardinality(Nodes') = Cardinality(Nodes) + 1
<1>1. \E n \in Heaps : n \notin Nodes
  BY NodesFinite
<1>2. h \in Heaps /\ h \notin Nodes
  BY <1>1
<1>3. list \in Seq(Heaps) /\ Len(list) \in Nat
  BY DEF Types
<1>4. list' \in Seq(Heaps) /\ Len(list') = Len(list) + 1
  BY <1>2, <1>3
<1>5. \A j \in 1..Len(list) + 1 : list'[j] = IF j = Len(list) + 1 THEN h ELSE list[j]
  BY <1>2, <1>3
<1>6. Nodes' = Nodes \cup {h}
  <2>1. DOMAIN list = 1..Len(list) /\ DOMAIN list' = 1..Len(list) + 1
    BY <1>3, <1>4
  <2>2. Nodes' = {list'[j] : j \in 1..Len(list) + 1}
    BY <2>1 DEF Nodes, Range
  <2>3. Nodes = {list[j] : j \in 1..Len(list)}
    BY <2>1 DEF Nodes, Range
  <2>4. 1..Len(list) + 1 = 1..Len(list) \cup {Len(list) + 1} /\ Len(list) + 1 \notin 1..Len(list)
    BY <1>3
  <2>. QED
    BY <1>5, <2>2, <2>3, <2>4
<1>7. Cardinality(Nodes') = Cardinality(Nodes) + 1
  BY <1>2, <1>6, NodesFinite, FS_AddElement
<1>. QED
  BY <1>2, <1>4, <1>6, <1>7

LEMMA PushHeapKept ==
    ASSUME Structure, NEW t \in Threads, PushHeap(t)
    PROVE  Structure'
<1>. USE DynamicPoolHeapAssumption
<1>0. Types /\ Located /\ ListCounted
  BY DEF Structure
<1>. DEFINE h == CHOOSE n \in Heaps : n \notin Nodes
<1>1. /\ mHeapCount < MaxHeaps /\ at[t] = "grow" /\ Heaps # Nodes
      /\ list' = Append(list, h)
      /\ avail' = [avail EXCEPT ![h] = ObjectCount - 1]
      /\ mAllocations' = [mAllocations EXCEPT ![h] = 1]
      /\ held' = [held EXCEPT ![t][h] = 1]
      /\ mHeapCount' = mHeapCount + 1
      /\ PushUnlock(t)
  BY DEF PushHeap, NewNode, In
<1>. HIDE DEF h
<1>2. /\ h \in Heaps /\ h \notin Nodes
      /\ Nodes' = Nodes \cup {h}
      /\ list' \in Seq(Heaps) /\ Len(list') = Len(list) + 1
      /\ Cardinality(Nodes') = Cardinality(Nodes) + 1
  BY <1>0, <1>1, NewNodeIs DEF h
<1>3. UNCHANGED <<mLock, mGarbage, mGarbageHeapCount>>
  BY DEF PushHeap, NewNode
<1>4. ListCounted' /\ mHeapCount' \in Nat
  <2>1. mHeapCount \in Nat /\ MaxHeaps \in Nat /\ Len(list) \in Nat
    BY <1>0 DEF Types
  <2>. QED
    BY <1>0, <1>1, <1>2, <2>1 DEF ListCounted
<1>5. avail' \in [Heaps -> Nat] /\ \A g \in Heaps \ Nodes' : avail'[g] = 0
  <2>1. ObjectCount - 1 \in Nat
    OBVIOUS
  <2>. QED
    BY <1>0, <1>1, <1>2, <2>1 DEF Types, Located
<1>6. mAllocations' \in [Heaps -> Nat]
  <2>1. 1 \in Nat
    OBVIOUS
  <2>. QED
    BY <1>0, <1>1, <1>2, <2>1 DEF Types
<1>7. held' \in [Threads -> [Heaps -> Nat]] /\
      \A g \in Heaps \ Nodes', u \in Threads : held'[u][g] = 0
  <2>1. held[t] \in [Heaps -> Nat] /\ 1 \in Nat
    BY <1>0 DEF Types
  <2>2. held' = [held EXCEPT ![t] = [held[t] EXCEPT ![h] = 1]]
    BY <1>1
  <2>. QED
    BY <1>0, <1>2, <2>1, <2>2 DEF Types, Located
<1>8. at[t] \in Pushing
  BY <1>1 DEF Pushing
<1>9. mLock' \in [Heaps -> Threads \cup {None}] /\ mGarbageHeapCount' \in Int
  BY <1>0, <1>3 DEF Types
<1>10. Nodes \subseteq Nodes'
  BY <1>2
<1>. QED
  BY <1>1, <1>2, <1>3, <1>4, <1>5, <1>6, <1>7, <1>8, <1>9, <1>10, UnlockKept

\* A collection leaves the other nodes in the list, each once.
LEMMA CollectedIs ==
    ASSUME Structure, NEW Unused \in SUBSET (Nodes \ {Top}), list' \in Kept(Unused)
    PROVE  /\ Nodes' = Nodes \ Unused
           /\ list' \in Seq(Heaps) /\ Len(list') = Cardinality(Nodes')
           /\ Cardinality(Nodes') = Cardinality(Nodes) - Cardinality(Unused)
           /\ IsFiniteSet(Unused) /\ Cardinality(Unused) \in Nat
<1>1. Nodes \subseteq Heaps /\ IsFiniteSet(Nodes)
  BY NodesFinite DEF Structure
<1>2. Nodes' = Nodes \ Unused
  BY DEF Kept, Nodes
<1>3. IsFiniteSet(Nodes \ Unused) /\ IsFiniteSet(Unused)
  BY <1>1, FS_Subset
<1>4. Cardinality(Nodes \ Unused) \in Nat /\ Cardinality(Unused) \in Nat /\ Cardinality(Nodes) \in Nat
  BY <1>1, <1>3, FS_CardinalityType
<1>5. list' \in [1..Cardinality(Nodes \ Unused) -> Nodes \ Unused]
  BY DEF Kept
<1>6. list' \in Seq(Heaps) /\ Len(list') = Cardinality(Nodes \ Unused)
  <2>1. list' \in [1..Cardinality(Nodes \ Unused) -> Heaps]
    BY <1>1, <1>5
  <2>. DEFINE n == Cardinality(Nodes \ Unused)
  <2>2. list' \in Seq(Heaps)
    <3>1. n \in Nat /\ list' \in [1..n -> Heaps]
      BY <1>4, <2>1
    <3>. HIDE DEF n
    <3>. QED
      BY <3>1, SeqDef
  <2>. QED
    BY <1>4, <1>5, <2>2
<1>7. Cardinality(Nodes \ Unused) = Cardinality(Nodes) - Cardinality(Unused)
  <2>1. Nodes \cap Unused = Unused
    OBVIOUS
  <2>. QED
    BY <1>1, <1>4, <2>1, FS_Difference
<1>. QED
  BY <1>2, <1>3, <1>4, <1>6, <1>7

LEMMA CollectKept ==
    ASSUME Structure, GCCollect,
           \A h \in Nodes : mAllocations[h] = 0 => \A t \in Threads : held[t][h] = 0
    PROVE  Structure'
<1>. USE DynamicPoolHeapAssumption
<1>0. Types /\ Located /\ ListCounted /\ PushOwned
  BY DEF Structure
<1>. DEFINE Unused == {h \in Nodes \ {Top} : mGarbage[h] /\ mAllocations[h] = 0}
<1>1. /\ \A t \in Threads : at[t] = "idle"
      /\ list' \in Kept(Unused)
      /\ avail' = [h \in Heaps |-> IF h \in Unused THEN 0 ELSE avail[h]]
      /\ mAllocations' = [h \in Heaps |-> IF h \in Unused THEN 0 ELSE mAllocations[h]]
      /\ mGarbage' = [h \in Heaps |-> h \notin Unused /\ mGarbage[h]]
      /\ mHeapCount' = mHeapCount - Cardinality(Unused)
      /\ mGarbageHeapCount' = mGarbageHeapCount - Cardinality(Unused)
  BY DEF GCCollect, Collect
<1>2. UNCHANGED <<mLock, mPushHeapLock, lastNotGarbage, recycleHeap, at, it, held>>
  BY DEF GCCollect, Collect, pushVars
<1>3. Unused \subseteq Nodes \ {Top} /\ \A h \in Unused, t \in Threads : held[t][h] = 0
  OBVIOUS
<1>. HIDE DEF Unused
<1>4. /\ Nodes' = Nodes \ Unused
      /\ list' \in Seq(Heaps) /\ Len(list') = Cardinality(Nodes')
      /\ Cardinality(Nodes') = Cardinality(Nodes) - Cardinality(Unused)
      /\ IsFiniteSet(Unused) /\ Cardinality(Unused) \in Nat
  BY <1>1, <1>3, CollectedIs
<1>5. IsFiniteSet(Nodes')
  <2>1. Nodes' \subseteq Nodes
    BY <1>4
  <2>. QED
    BY <1>0, <2>1, NodesFinite, FS_Subset
<1>6. Cardinality(Nodes') \in Nat
  BY <1>5, FS_CardinalityType
<1>7. ListCounted' /\ mHeapCount' \in Nat
  <2>1. mHeapCount \in Nat /\ MaxHeaps \in Nat
    BY <1>0 DEF Types
  <2>2. mHeapCount' = Cardinality(Nodes')
    BY <1>0, <1>1, <1>4 DEF ListCounted
  <2>3. mHeapCount' <= mHeapCount
    BY <1>1, <1>4, <2>1
  <2>. QED
    BY <1>0, <1>4, <1>6, <2>1, <2>2, <2>3 DEF ListCounted
<1>8. mPushHeapLock = None
  BY <1>0, <1>1 DEF PushOwned, Pushing, Types
<1>9. lastNotGarbage = None /\ recycleHeap = None
  BY <1>0, <1>8 DEF PushOwned
<1>10. Types'
  <2>1. Top \in Nodes'
    BY <1>0, <1>3, <1>4 DEF Types
  <2>2. avail' \in [Heaps -> Nat] /\ mAllocations' \in [Heaps -> Nat]
    BY <1>0, <1>1 DEF Types
  <2>3. mGarbage' \in [Heaps -> BOOLEAN]
    BY <1>0, <1>1 DEF Types
  <2>4. mGarbageHeapCount' \in Int
    BY <1>0, <1>1, <1>4 DEF Types
  <2>. QED
    BY <1>0, <1>2, <1>4, <1>7, <2>1, <2>2, <2>3, <2>4 DEF Types
<1>11. Located'
  <2>1. \A h \in Heaps \ Nodes' : avail'[h] = 0 /\ ~mGarbage'[h]
    BY <1>0, <1>1, <1>4 DEF Located
  <2>2. \A h \in Heaps \ Nodes' : \A t \in Threads : held'[t][h] = 0
    BY <1>0, <1>2, <1>3, <1>4 DEF Located
  <2>. QED
    BY <1>1, <1>2, <1>9, <2>1, <2>2 DEF Located
<1>12. PushOwned'
  <2>1. \A t \in Threads : at'[t] = "idle"
    BY <1>1, <1>2
  <2>. QED
    BY <1>0, <1>2, <1>9, <2>1 DEF PushOwned, Pushing
<1>. QED
  BY <1>7, <1>10, <1>11, <1>12 DEF Structure

-----------------------------------------------------------------------------
(***************************************************************************)
(* The objects: each step adds to the counters what the thread takes       *)
(***************************************************************************)
\* How many numbered objects of h the thread t has.
Has(places, t, h) == held[t][h] + IF at[t] \in places /\ it[t] = h THEN 1 ELSE 0

\* A step of t changes the number of objects by what t has more or less.
LEMMA NumberedChange ==
    ASSUME Types, Types', NEW CONSTANT P, NEW CONSTANT h \in Heaps, NEW CONSTANT t \in Threads,
           IsFiniteSet(Numbered(P, h)),
           \A u \in Threads \ {t} : /\ at'[u] = at[u] /\ it'[u] = it[u]
                                    /\ held'[u][h] = held[u][h],
           held'[t][h] - held[t][h] \in {-1, 0, 1}
    PROVE  /\ IsFiniteSet(Numbered(P, h)')
           /\ Cardinality(Numbered(P, h)') - Cardinality(Numbered(P, h)) =
                Has(P, t, h)' - Has(P, t, h)
<1>. DEFINE S == Numbered(P, h)
            k == held[t][h]
            l == held'[t][h]
            was == at[t] \in P /\ it[t] = h
            is == at'[t] \in P /\ it'[t] = h
            S1 == S \ {<<t, 0>>}
            S2 == CASE l = k -> S1
                    [] l = k + 1 -> S1 \cup {<<t, l>>}
                    [] l = k - 1 -> S1 \ {<<t, k>>}
            S3 == IF is THEN S2 \cup {<<t, 0>>} ELSE S2
<1>1. k \in Nat /\ l \in Nat
  <2>1. held[t] \in [Heaps -> Nat] /\ held'[t] \in [Heaps -> Nat]
    BY DEF Types
  <2>. QED
    BY <2>1
<1>2. l = k \/ l = k + 1 \/ l = k - 1
  BY <1>1
<1>3. \A u \in Threads, n \in Nat : <<u, n>> \in S <=>
        IF n = 0 THEN at[u] \in P /\ it[u] = h ELSE n <= held[u][h]
  BY DEF Numbered
<1>4. \A u \in Threads, n \in Nat : <<u, n>> \in Numbered(P, h)' <=>
        IF n = 0 THEN at'[u] \in P /\ it'[u] = h ELSE n <= held'[u][h]
  BY DEF Numbered
<1>5. /\ <<t, 0>> \in S <=> was
      /\ \A n \in Nat \ {0} : <<t, n>> \in S <=> n <= k
      /\ <<t, 0>> \in Numbered(P, h)' <=> is
      /\ \A n \in Nat \ {0} : <<t, n>> \in Numbered(P, h)' <=> n <= l
  BY <1>3, <1>4
<1>6. \A u \in Threads \ {t}, n \in Nat : <<u, n>> \in Numbered(P, h)' <=> <<u, n>> \in S
  BY <1>3, <1>4
<1>7. S \subseteq Threads \X Nat /\ Numbered(P, h)' \subseteq Threads \X Nat
  BY DEF Numbered
<1>. HIDE DEF S, k, l, was, is
<1>8. IsFiniteSet(S1) /\ Cardinality(S1) = Cardinality(S) - (IF was THEN 1 ELSE 0) /\
      <<t, 0>> \notin S1
  <2>1. Cardinality(S) \in Nat
    BY FS_CardinalityType DEF S
  <2>2. IsFiniteSet(S1) /\ Cardinality(S1) = IF <<t, 0>> \in S THEN Cardinality(S) - 1 ELSE Cardinality(S)
    BY FS_RemoveElement DEF S
  <2>. QED
    BY <1>5, <2>1, <2>2
<1>9. \A n \in Nat \ {0} : <<t, n>> \in S1 <=> n <= k
  BY <1>5
<1>10. IsFiniteSet(S2) /\ Cardinality(S2) = Cardinality(S1) + l - k
  <2>1. Cardinality(S1) \in Nat
    BY <1>8, FS_CardinalityType
  <2>. HIDE DEF S1
  <2>2. CASE l = k
    <3>1. S2 = S1
      BY <1>1, <2>2
    <3>. QED
      BY <1>1, <1>8, <2>1, <2>2, <3>1
  <2>3. CASE l = k + 1
    <3>1. S2 = S1 \cup {<<t, l>>}
      BY <1>1, <2>3
    <3>2. <<t, l>> \notin S1
      BY <1>1, <1>9, <2>3
    <3>3. IsFiniteSet(S2) /\ Cardinality(S2) = Cardinality(S1) + 1
      BY <1>8, <3>1, <3>2, FS_AddElement
    <3>. QED
      BY <1>1, <2>1, <2>3, <3>3
  <2>4. CASE l = k - 1
    <3>1. S2 = S1 \ {<<t, k>>}
      BY <1>1, <2>4
    <3>2. <<t, k>> \in S1
      BY <1>1, <1>9, <2>4
    <3>3. IsFiniteSet(S2) /\ Cardinality(S2) = Cardinality(S1) - 1
      BY <1>8, <3>1, <3>2, FS_RemoveElement
    <3>. QED
      BY <1>1, <2>1, <2>4, <3>3
  <2>. QED
    BY <1>2, <2>2, <2>3, <2>4
<1>11. <<t, 0>> \notin S2
  BY <1>1, <1>2, <1>8
<1>12. \A n \in Nat \ {0} : <<t, n>> \in S2 <=> n <= l
  <2>1. CASE l = k
    <3>1. S2 = S1
      BY <1>1, <2>1
    <3>. QED
      BY <1>9, <2>1, <3>1
  <2>2. CASE l = k + 1
    <3>1. S2 = S1 \cup {<<t, l>>}
      BY <1>1, <2>2
    <3>2. \A n \in Nat \ {0} : n <= l <=> n <= k \/ n = l
      BY <1>1, <2>2
    <3>. QED
      BY <1>9, <3>1, <3>2
  <2>3. CASE l = k - 1
    <3>1. S2 = S1 \ {<<t, k>>}
      BY <1>1, <2>3
    <3>2. \A n \in Nat \ {0} : n <= l <=> n <= k /\ n # k
      BY <1>1, <2>3
    <3>. QED
      BY <1>9, <3>1, <3>2
  <2>. QED
    BY <1>2, <2>1, <2>2, <2>3
<1>13. \A u \in Threads \ {t}, n \in Nat : <<u, n>> \in S2 <=> <<u, n>> \in S
  BY <1>1, <1>2
<1>14. S2 \subseteq Threads \X Nat
  BY <1>1, <1>2, <1>7
<1>. HIDE DEF S2
<1>15. IsFiniteSet(S3) /\ Cardinality(S3) = Cardinality(S2) + (IF is THEN 1 ELSE 0)
  <2>1. Cardinality(S2) \in Nat
    BY <1>10, FS_CardinalityType
  <2>2. IsFiniteSet(S2 \cup {<<t, 0>>}) /\ Cardinality(S2 \cup {<<t, 0>>}) = Cardinality(S2) + 1
    BY <1>10, <1>11, FS_AddElement
  <2>. QED
    BY <1>10, <2>1, <2>2
<1>16. Numbered(P, h)' = S3
  <2>1. S3 \subseteq Threads \X Nat
    BY <1>14
  <2>2. ASSUME NEW u \in Threads, NEW n \in Nat
        PROVE  <<u, n>> \in Numbered(P, h)' <=> <<u, n>> \in S3
    <3>1. CASE u # t
      BY <1>6, <1>13, <3>1
    <3>2. CASE u = t /\ n = 0
      BY <1>5, <1>11, <3>2
    <3>3. CASE u = t /\ n # 0
      <4>1. <<u, n>> \in S3 <=> <<u, n>> \in S2
        BY <3>3
      <4>. QED
        BY <1>5, <1>12, <3>3, <4>1
    <3>. QED
      BY <3>1, <3>2, <3>3
  <2>. HIDE DEF S3
  <2>3. \A x \in Threads \X Nat : x \in Numbered(P, h)' <=> x \in S3
    <3>. TAKE x \in Threads \X Nat
    <3>1. PICK u \in Threads, n \in Nat : x = <<u, n>>
      OBVIOUS
    <3>. QED
      BY <2>2, <3>1
  <2>. QED
    BY <1>7, <2>1, <2>3
<1>17. Cardinality(S) \in Nat
  BY FS_CardinalityType DEF S
<1>18. Has(P, t, h)' = l + (IF is THEN 1 ELSE 0) /\ Has(P, t, h) = k + (IF was THEN 1 ELSE 0)
  BY DEF Has, k, l, is, was
<1>. HIDE DEF S1, S3
<1>19. Cardinality(S3) - Cardinality(S) = Has(P, t, h)' - Has(P, t, h)
  <2>1. (IF is THEN 1 ELSE 0) \in Nat /\ (IF was THEN 1 ELSE 0) \in Nat
    OBVIOUS
  <2>. QED
    BY <1>1, <1>8, <1>10, <1>15, <1>17, <1>18, <2>1
<1>. QED
  BY <1>15, <1>16, <1>19 DEF S

\* A pool whose count is 0 has no object out that it counted.
LEMMA NoneTallied ==
    ASSUME Types, Accounted, NEW h \in Heaps, mAllocations[h] = 0, NEW t \in Threads
    PROVE  held[t][h] = 0 /\ ~(at[t] \in TalliedBy /\ it[t] = h)
<1>1. Tallied(h) = {}
  BY FS_EmptySet DEF Accounted
<1>2. held[t][h] \in Nat
  <2>1. held[t] \in [Heaps -> Nat]
    BY DEF Types
  <2>. QED
    BY <2>1
<1>3. <<t, 1>> \notin Tallied(h) /\ <<t, 0>> \notin Tallied(h)
  BY <1>1
<1>4. <<t, 1>> \in Threads \X Nat /\ <<t, 0>> \in Threads \X Nat /\
      <<t, 1>>[1] = t /\ <<t, 1>>[2] = 1 /\ <<t, 0>>[1] = t /\ <<t, 0>>[2] = 0
  OBVIOUS
<1>5. ~(1 <= held[t][h])
  BY <1>3, <1>4 DEF Tallied, Numbered
<1>6. ~(at[t] \in TalliedBy /\ it[t] = h)
  BY <1>3, <1>4 DEF Tallied, Numbered
<1>. QED
  BY <1>2, <1>5, <1>6

\* Nobody has an object of a pool that is not in the list.
LEMMA NoneOutside ==
    ASSUME Types, Located, NEW h \in Heaps \ Nodes
    PROVE  Out(h) = {} /\ Tallied(h) = {}
<1>1. \A t \in Threads : /\ held[t][h] = 0 /\ ~(at[t] \in OutBy /\ it[t] = h)
                         /\ ~(at[t] \in TalliedBy /\ it[t] = h)
  BY DEF Located, OutBy, TalliedBy, Counting
<1>2. Out(h) = {}
  BY <1>1 DEF Out, Numbered
<1>3. Tallied(h) = {}
  BY <1>1 DEF Tallied, Numbered
<1>. QED
  BY <1>2, <1>3

\* A step of t keeps the counters right when they change as what t has does.
LEMMA AccountedKept ==
    ASSUME Types, Types', Located, Accounted, NEW t \in Threads,
           \A u \in Threads \ {t} : /\ at'[u] = at[u] /\ it'[u] = it[u]
                                    /\ held'[u] = held[u],
           \A h \in Heaps : held'[t][h] - held[t][h] \in {-1, 0, 1},
           \A h \in Heaps : mAllocations'[h] - mAllocations[h] =
                                Has(TalliedBy, t, h)' - Has(TalliedBy, t, h),
           \A h \in Nodes' : avail'[h] + Has(OutBy, t, h)' =
                (IF h \in Nodes THEN avail[h] ELSE ObjectCount) + Has(OutBy, t, h)
    PROVE  Accounted'
<1>1. SUFFICES ASSUME NEW h \in Heaps
               PROVE  /\ IsFiniteSet(Out(h)') /\ IsFiniteSet(Tallied(h)')
                      /\ mAllocations'[h] = Cardinality(Tallied(h)')
                      /\ h \in Nodes' => avail'[h] + Cardinality(Out(h)') = ObjectCount
  BY DEF Accounted
<1>2. IsFiniteSet(Out(h)) /\ IsFiniteSet(Tallied(h)) /\ mAllocations[h] = Cardinality(Tallied(h))
  BY DEF Accounted
<1>3. /\ IsFiniteSet(Out(h)')
      /\ Cardinality(Out(h)') - Cardinality(Out(h)) = Has(OutBy, t, h)' - Has(OutBy, t, h)
  BY <1>2, NumberedChange DEF Out
<1>4. /\ IsFiniteSet(Tallied(h)')
      /\ Cardinality(Tallied(h)') - Cardinality(Tallied(h)) = Has(TalliedBy, t, h)' - Has(TalliedBy, t, h)
  BY <1>2, NumberedChange DEF Tallied
<1>5. /\ Cardinality(Out(h)) \in Nat /\ Cardinality(Tallied(h)) \in Nat
      /\ Cardinality(Out(h)') \in Nat /\ Cardinality(Tallied(h)') \in Nat
  BY <1>2, <1>3, <1>4, FS_CardinalityType
<1>6. mAllocations'[h] \in Nat /\ mAllocations[h] \in Nat /\ avail'[h] \in Nat /\ avail[h] \in Nat
  BY DEF Types
<1>7. /\ Has(TalliedBy, t, h) \in Int /\ Has(TalliedBy, t, h)' \in Int
      /\ Has(OutBy, t, h) \in Int /\ Has(OutBy, t, h)' \in Int
  <2>1. held[t] \in [Heaps -> Nat] /\ held'[t] \in [Heaps -> Nat]
    BY DEF Types
  <2>2. held[t][h] \in Nat /\ held'[t][h] \in Nat
    BY <2>1
  <2>. QED
    BY <2>2 DEF Has
<1>8. mAllocations'[h] = Cardinality(Tallied(h)')
  <2>1. mAllocations'[h] - mAllocations[h] = Has(TalliedBy, t, h)' - Has(TalliedBy, t, h)
    OBVIOUS
  <2>. QED
    BY <1>2, <1>4, <1>5, <1>6, <1>7, <2>1
<1>9. ASSUME h \in Nodes'  PROVE avail'[h] + Cardinality(Out(h)') = ObjectCount
  <2>1. avail'[h] + Has(OutBy, t, h)' =
            (IF h \in Nodes THEN avail[h] ELSE ObjectCount) + Has(OutBy, t, h)
    BY <1>9
  <2>2. CASE h \in Nodes
    <3>1. avail[h] + Cardinality(Out(h)) = ObjectCount
      BY <2>2 DEF Accounted
    <3>. QED
      BY <1>3, <1>5, <1>6, <1>7, <2>1, <2>2, <3>1
  <2>3. CASE h \notin Nodes
    <3>1. Cardinality(Out(h)) = 0
      BY <2>3, NoneOutside, FS_EmptySet
    <3>2. ObjectCount \in Nat
      BY DynamicPoolHeapAssumption
    <3>. QED
      BY <1>3, <1>5, <1>6, <1>7, <2>1, <2>3, <3>1, <3>2
  <2>. QED
    BY <2>2, <2>3
<1>. QED
  BY <1>3, <1>4, <1>8, <1>9

\* A step of t that neither takes nor gives an object.
LEMMA StillAccounted ==
    ASSUME Types, Types', Located, Accounted, NEW t \in Threads,
           UNCHANGED <<list, avail, mAllocations, held>>,
           \A u \in Threads \ {t} : at'[u] = at[u] /\ it'[u] = it[u],
           at[t] \notin OutBy \cup TalliedBy, at'[t] \notin OutBy \cup TalliedBy
    PROVE  Accounted'
<1>1. Nodes' = Nodes
  BY DEF Nodes
<1>2. \A h \in Heaps : held[t][h] \in Nat
  <2>1. held[t] \in [Heaps -> Nat]
    BY DEF Types
  <2>. QED
    BY <2>1
<1>3. \A h \in Heaps : /\ Has(TalliedBy, t, h)' = Has(TalliedBy, t, h)
                       /\ Has(OutBy, t, h)' = Has(OutBy, t, h)
                       /\ Has(TalliedBy, t, h) \in Nat /\ Has(OutBy, t, h) \in Nat
  BY <1>2 DEF Has
<1>4. \A h \in Heaps : held'[t][h] - held[t][h] \in {-1, 0, 1}
  BY <1>2
<1>5. \A h \in Heaps : mAllocations'[h] - mAllocations[h] =
                            Has(TalliedBy, t, h)' - Has(TalliedBy, t, h)
  BY <1>3 DEF Types
<1>6. \A h \in Nodes' : avail'[h] + Has(OutBy, t, h)' =
            (IF h \in Nodes THEN avail[h] ELSE ObjectCount) + Has(OutBy, t, h)
  BY <1>1, <1>3, NodesFinite DEF Types
<1>. QED
  BY <1>4, <1>5, <1>6, AccountedKept

\* The steps that neither take nor give an object, and where they lead.
LEMMA QuietPlaces ==
    ASSUME Types, NEW t \in Threads,
           \/ StartAllocate(t) \/ Advance(t) \/ PushLock(t) \/ Scan(t) \/ ScanEnd(t)
           \/ MarkRecycle(t) \/ Recycled(t) \/ PushHeapFails(t)
           \/ CheckEmpty(t) \/ MarkGarbage(t) \/ Marked(t)
           \/ (PoolPop(t) /\ avail[it[t]] = 0)
    PROVE  /\ UNCHANGED <<list, avail, mAllocations, mLock, held>>
           /\ \A u \in Threads \ {t} : at'[u] = at[u] /\ it'[u] = it[u]
           /\ at[t] \notin OutBy \cup TalliedBy /\ at'[t] \notin OutBy \cup TalliedBy
<1>. DEFINE Elsewhere == Places \ (OutBy \cup TalliedBy)
<1>1. {"idle", "next", "push", "scan", "grow", "recycle", "recycled", "no_object",
       "empty", "mark", "marked", "too_much_garbage", "pop", "last_pop", "recycle_pop"}
        \subseteq Elsewhere
  BY DEF Places, Popping, OutBy, TalliedBy, Counting
<1>. HIDE DEF Elsewhere
<1>2. UNCHANGED <<list, avail, mAllocations, mLock, held>>
  BY DEF StartAllocate, Advance, PushLock, Scan, ScanEnd, MarkRecycle, Recycled,
         PushHeapFails, CheckEmpty, FreedLast, MarkGarbage, Marked, PoolPop, poolVars, heapVars
<1>3. at[t] \in Elsewhere
  BY <1>1 DEF StartAllocate, Advance, PushLock, Scan, ScanEnd, MarkRecycle, Recycled,
         PushHeapFails, CheckEmpty, FreedLast, MarkGarbage, Marked, PoolPop, In, Popping
<1>4. \E to \in Elsewhere : \E h :
        at' = [at EXCEPT ![t] = to] /\ (it' = [it EXCEPT ![t] = h] \/ it' = it)
  <2>1. CASE StartAllocate(t)
    BY <1>1, <2>1 DEF StartAllocate, Goto, Move
  <2>2. CASE Advance(t)
    BY <1>1, <2>2 DEF Advance, Goto, Move
  <2>3. CASE PushLock(t)
    BY <1>1, <2>3 DEF PushLock, Goto, Move
  <2>4. CASE Scan(t)
    BY <1>1, <2>4 DEF Scan, Goto, Move
  <2>5. CASE ScanEnd(t)
    BY <1>1, <2>5 DEF ScanEnd, Goto, Move
  <2>6. CASE MarkRecycle(t)
    BY <1>1, <2>6 DEF MarkRecycle, Move
  <2>7. CASE Recycled(t)
    BY <1>1, <2>7 DEF Recycled, PushUnlock, Goto, Move
  <2>8. CASE PushHeapFails(t)
    BY <1>1, <2>8 DEF PushHeapFails, PushUnlock, Goto, Move
  <2>9. CASE CheckEmpty(t)
    BY <1>1, <2>9 DEF CheckEmpty, FreedLast, Goto, Move
  <2>10. CASE MarkGarbage(t)
    BY <1>1, <2>10 DEF MarkGarbage, Goto, Move
  <2>11. CASE Marked(t)
    BY <1>1, <2>11 DEF Marked, Goto, Move
  <2>12. CASE PoolPop(t) /\ avail[it[t]] = 0
    <3>1. AfterFailure(t) /\ at[t] \in Popping
      BY <2>12 DEF PoolPop, In
    <3>2. CASE at[t] = "pop"
      BY <1>1, <3>1, <3>2 DEF AfterFailure, Goto, Move
    <3>3. CASE at[t] = "last_pop" /\ recycleHeap # None
      <4>1. at' = [at EXCEPT ![t] = "recycle_pop"] /\ it' = [it EXCEPT ![t] = recycleHeap]
        BY <3>1, <3>3 DEF AfterFailure, Goto, Move
      <4>. QED
        BY <1>1, <4>1
    <3>4. CASE at[t] = "last_pop" /\ recycleHeap = None
      BY <1>1, <3>1, <3>4 DEF AfterFailure, Goto, Move
    <3>5. CASE at[t] = "recycle_pop"
      BY <1>1, <3>1, <3>5 DEF AfterFailure, Goto, Move
    <3>. QED
      BY <3>1, <3>2, <3>3, <3>4, <3>5 DEF Popping
  <2>. QED
    BY <2>1, <2>2, <2>3, <2>4, <2>5, <2>6, <2>7, <2>8, <2>9, <2>10, <2>11, <2>12
<1>5. /\ \A u \in Threads \ {t} : at'[u] = at[u] /\ it'[u] = it[u]
      /\ at'[t] \in Elsewhere
  BY <1>4 DEF Types
<1>6. at[t] \notin OutBy \cup TalliedBy /\ at'[t] \notin OutBy \cup TalliedBy
  BY <1>3, <1>5 DEF Elsewhere
<1>. QED
  BY <1>2, <1>5, <1>6

LEMMA QuietSteps ==
    ASSUME Structure, Structure', Accounted, NEW t \in Threads,
           \/ StartAllocate(t) \/ Advance(t) \/ PushLock(t) \/ Scan(t) \/ ScanEnd(t)
           \/ MarkRecycle(t) \/ Recycled(t) \/ PushHeapFails(t)
           \/ CheckEmpty(t) \/ MarkGarbage(t) \/ Marked(t)
           \/ (PoolPop(t) /\ avail[it[t]] = 0)
    PROVE  Accounted'
<1>0. Types /\ Types' /\ Located
  BY DEF Structure
<1>1. /\ UNCHANGED <<list, avail, mAllocations, mLock, held>>
      /\ \A u \in Threads \ {t} : at'[u] = at[u] /\ it'[u] = it[u]
      /\ at[t] \notin OutBy \cup TalliedBy /\ at'[t] \notin OutBy \cup TalliedBy
  BY <1>0, QuietPlaces
<1>. QED
  BY <1>0, <1>1, StillAccounted

\* What t has changes for the pool h alone.
LEMMA CountersMove ==
    ASSUME Types, Types', Located, Accounted, NEW t \in Threads, NEW h \in Heaps,
           \A u \in Threads \ {t} : at'[u] = at[u] /\ it'[u] = it[u] /\ held'[u] = held[u],
           \A g \in Heaps \ {h} : /\ avail'[g] = avail[g] /\ mAllocations'[g] = mAllocations[g]
                                  /\ held'[t][g] = held[t][g],
           at[t] \in OutBy \cup TalliedBy => it[t] = h,
           at'[t] \in OutBy \cup TalliedBy => it'[t] = h,
           Nodes' = Nodes \cup {h},
           held'[t][h] - held[t][h] \in {-1, 0, 1},
           mAllocations'[h] - mAllocations[h] =
                Has(TalliedBy, t, h)' - Has(TalliedBy, t, h),
           avail'[h] + Has(OutBy, t, h)' =
                (IF h \in Nodes THEN avail[h] ELSE ObjectCount) + Has(OutBy, t, h)
    PROVE  Accounted'
<1>1. \A g \in Heaps : held[t][g] \in Nat
  <2>1. held[t] \in [Heaps -> Nat]
    BY DEF Types
  <2>. QED
    BY <2>1
<1>2. \A g \in Heaps \ {h} : /\ Has(TalliedBy, t, g)' = Has(TalliedBy, t, g)
                             /\ Has(OutBy, t, g)' = Has(OutBy, t, g)
                             /\ Has(TalliedBy, t, g) \in Nat /\ Has(OutBy, t, g) \in Nat
  BY <1>1 DEF Has
<1>3. \A g \in Heaps : held'[t][g] - held[t][g] \in {-1, 0, 1}
  BY <1>1
<1>4. \A g \in Heaps : mAllocations'[g] - mAllocations[g] =
                            Has(TalliedBy, t, g)' - Has(TalliedBy, t, g)
  <2>. TAKE g \in Heaps
  <2>1. CASE g = h
    BY <2>1
  <2>2. CASE g # h
    <3>1. mAllocations[g] \in Nat
      BY DEF Types
    <3>2. mAllocations'[g] - mAllocations[g] = 0
      BY <2>2, <3>1
    <3>3. Has(TalliedBy, t, g)' - Has(TalliedBy, t, g) = 0
      BY <1>2, <2>2
    <3>. QED
      BY <3>2, <3>3
  <2>. QED
    BY <2>1, <2>2
<1>5. \A g \in Nodes' : avail'[g] + Has(OutBy, t, g)' =
            (IF g \in Nodes THEN avail[g] ELSE ObjectCount) + Has(OutBy, t, g)
  <2>1. Nodes' \subseteq Heaps
    BY NodesFinite
  <2>. QED
    BY <1>2, <2>1 DEF Types
<1>. QED
  BY <1>3, <1>4, <1>5, AccountedKept

\* An object is taken from the free list, and then counted.
LEMMA TakeSteps ==
    ASSUME Structure, Structure', Accounted, NEW t \in Threads,
           (PoolPop(t) /\ avail[it[t]] # 0) \/ PoolCount(t)
    PROVE  Accounted'
<1>0. Types /\ Types' /\ Located
  BY DEF Structure
<1>1. PICK h \in Heaps : h = it[t] /\ h \in Nodes
  BY <1>0 DEF Types, Located, PoolPop, PoolCount, In, Popping, Counting
<1>2. Nodes' = Nodes \cup {h}
  BY <1>1 DEF PoolPop, PoolCount, heapVars, Nodes
<1>3. held[t] \in [Heaps -> Nat] /\ held[t][h] \in Nat
  BY <1>0, <1>1 DEF Types
<1>4. CASE PoolPop(t) /\ avail[h] # 0
  <2>1. /\ avail' = [avail EXCEPT ![h] = avail[h] - 1]
        /\ at' = [at EXCEPT ![t] = AfterPop(at[t])]
        /\ UNCHANGED <<it, mAllocations, held>>
    BY <1>1, <1>4 DEF PoolPop, Move
  <2>2. at[t] \notin OutBy \cup TalliedBy /\ AfterPop(at[t]) \in OutBy \ TalliedBy
    BY <1>4 DEF PoolPop, In, Popping, AfterPop, OutBy, TalliedBy, Counting
  <2>3. at'[t] = AfterPop(at[t]) /\ it'[t] = h /\ \A u \in Threads \ {t} : at'[u] = at[u]
    BY <1>0, <1>1, <2>1 DEF Types
  <2>4. Has(OutBy, t, h)' = Has(OutBy, t, h) + 1 /\ Has(TalliedBy, t, h)' = Has(TalliedBy, t, h) /\
        Has(OutBy, t, h) \in Nat /\ Has(TalliedBy, t, h) \in Nat
    BY <1>1, <1>3, <2>1, <2>2, <2>3 DEF Has
  <2>5. avail[h] \in Nat /\ mAllocations[h] \in Nat
    BY <1>0, <1>1 DEF Types
  <2>6. avail'[h] + Has(OutBy, t, h)' = avail[h] + Has(OutBy, t, h)
    <3>1. avail'[h] = avail[h] - 1
      BY <1>0, <1>1, <2>1 DEF Types
    <3>. QED
      BY <2>4, <2>5, <3>1
  <2>7. mAllocations'[h] - mAllocations[h] = Has(TalliedBy, t, h)' - Has(TalliedBy, t, h)
    BY <2>1, <2>4, <2>5
  <2>8. \A g \in Heaps \ {h} : avail'[g] = avail[g]
    BY <1>0, <2>1 DEF Types
  <2>9. held'[t][h] - held[t][h] \in {-1, 0, 1}
    BY <1>3, <2>1
  <2>. QED
    BY <1>0, <1>1, <1>2, <2>1, <2>2, <2>3, <2>6, <2>7, <2>8, <2>9, CountersMove
<1>5. CASE PoolCount(t)
  <2>1. /\ mAllocations' = [mAllocations EXCEPT ![h] = mAllocations[h] + 1]
        /\ held' = [held EXCEPT ![t] = [held[t] EXCEPT ![h] = held[t][h] + 1]]
        /\ avail' = avail
    BY <1>1, <1>5 DEF PoolCount
  <2>2. at[t] \in OutBy \ TalliedBy
    BY <1>5 DEF PoolCount, In, OutBy, TalliedBy, Counting
  <2>3. PICK to \in {"idle", "recycle"}, n \in {Top, it[t]} :
            at' = [at EXCEPT ![t] = to] /\ it' = [it EXCEPT ![t] = n]
    BY <1>5 DEF PoolCount, Goto, Move, PushUnlock, In, Counting
  <2>4. at'[t] = to /\ \A u \in Threads \ {t} : at'[u] = at[u] /\ it'[u] = it[u]
    BY <1>0, <2>3 DEF Types
  <2>5. at'[t] \notin OutBy \cup TalliedBy
    BY <2>4 DEF OutBy, TalliedBy, Counting
  <2>6. /\ held'[t] = [held[t] EXCEPT ![h] = held[t][h] + 1]
        /\ \A u \in Threads \ {t} : held'[u] = held[u]
    BY <1>0, <2>1 DEF Types
  <2>7. /\ held'[t][h] = held[t][h] + 1
        /\ \A g \in Heaps \ {h} : held'[t][g] = held[t][g]
    BY <1>1, <1>3, <2>6
  <2>8. Has(OutBy, t, h)' = Has(OutBy, t, h) /\ Has(TalliedBy, t, h)' = Has(TalliedBy, t, h) + 1 /\
        Has(OutBy, t, h) \in Nat /\ Has(TalliedBy, t, h) \in Nat
    BY <1>1, <1>3, <2>2, <2>5, <2>7 DEF Has
  <2>9. mAllocations'[h] - mAllocations[h] = Has(TalliedBy, t, h)' - Has(TalliedBy, t, h)
    <3>1. mAllocations[h] \in Nat /\ mAllocations'[h] = mAllocations[h] + 1
      BY <1>0, <1>1, <2>1 DEF Types
    <3>. QED
      BY <2>8, <3>1
  <2>10. \A g \in Heaps \ {h} : avail'[g] = avail[g] /\ mAllocations'[g] = mAllocations[g]
    BY <1>0, <2>1 DEF Types
  <2>11. held'[t][h] - held[t][h] \in {-1, 0, 1}
    BY <1>3, <2>7
  <2>12. avail'[h] + Has(OutBy, t, h)' =
            (IF h \in Nodes THEN avail[h] ELSE ObjectCount) + Has(OutBy, t, h)
    BY <1>1, <2>1, <2>8
  <2>13. \A u \in Threads \ {t} : at'[u] = at[u] /\ it'[u] = it[u] /\ held'[u] = held[u]
    BY <2>4, <2>6
  <2>14. \A g \in Heaps \ {h} : /\ avail'[g] = avail[g] /\ mAllocations'[g] = mAllocations[g]
                                /\ held'[t][g] = held[t][g]
    BY <2>7, <2>10
  <2>15. it[t] = h
    BY <1>1
  <2>. QED
    BY <1>0, <1>2, <2>5, <2>9, <2>11, <2>12, <2>13, <2>14, <2>15, CountersMove
<1>. QED
  BY <1>1, <1>4, <1>5

\* An object is given back, put on the free list, and then not counted any more.
LEMMA GiveSteps ==
    ASSUME Structure, Structure', Accounted, NEW t \in Threads,
           (\E h \in Heaps : StartFree(t, h)) \/ PoolPush(t) \/ PoolUncount(t)
    PROVE  Accounted'
<1>0. Types /\ Types' /\ Located
  BY DEF Structure
<1>1. ASSUME NEW h \in Heaps, StartFree(t, h)  PROVE Accounted'
  <2>1. at[t] = "idle" /\ held[t][h] > 0
    BY <1>1 DEF StartFree, In
  <2>2. held[t] \in [Heaps -> Nat]
    BY <1>0 DEF Types
  <2>3. held[t][h] \in Nat
    BY <2>2
  <2>4. /\ held' = [held EXCEPT ![t] = [held[t] EXCEPT ![h] = held[t][h] - 1]]
        /\ UNCHANGED <<avail, mAllocations, list>>
        /\ at' = [at EXCEPT ![t] = "give"] /\ it' = [it EXCEPT ![t] = h]
    BY <1>1 DEF StartFree, poolVars, heapVars, Goto, Move
  <2>5. Nodes' = Nodes \cup {h} /\ h \in Nodes
    BY <1>0, <2>1, <2>4 DEF Located, Nodes
  <2>6. /\ at'[t] = "give" /\ it'[t] = h
        /\ \A u \in Threads \ {t} : at'[u] = at[u] /\ it'[u] = it[u]
    BY <1>0, <2>4 DEF Types
  <2>7. /\ held'[t] = [held[t] EXCEPT ![h] = held[t][h] - 1]
        /\ \A u \in Threads \ {t} : held'[u] = held[u]
    BY <1>0, <2>4 DEF Types
  <2>8. /\ held'[t][h] = held[t][h] - 1
        /\ \A g \in Heaps \ {h} : held'[t][g] = held[t][g]
    BY <2>2, <2>7
  <2>9. at[t] \notin OutBy \cup TalliedBy /\ "give" \in OutBy /\ "give" \in TalliedBy
    BY <2>1 DEF OutBy, TalliedBy, Counting
  <2>10. Has(OutBy, t, h)' = Has(OutBy, t, h) /\ Has(TalliedBy, t, h)' = Has(TalliedBy, t, h) /\
         Has(OutBy, t, h) \in Nat /\ Has(TalliedBy, t, h) \in Nat
    BY <2>3, <2>6, <2>8, <2>9 DEF Has
  <2>11. avail[h] \in Nat /\ mAllocations[h] \in Nat
    BY <1>0 DEF Types
  <2>12. mAllocations'[h] - mAllocations[h] = Has(TalliedBy, t, h)' - Has(TalliedBy, t, h)
    BY <2>4, <2>10, <2>11
  <2>13. avail'[h] + Has(OutBy, t, h)' = avail[h] + Has(OutBy, t, h)
    BY <2>4, <2>10
  <2>14. held'[t][h] - held[t][h] \in {-1, 0, 1}
    BY <2>3, <2>8
  <2>15. \A g \in Heaps \ {h} : /\ avail'[g] = avail[g] /\ mAllocations'[g] = mAllocations[g]
                                /\ held'[t][g] = held[t][g]
    BY <2>4, <2>8
  <2>16. \A u \in Threads \ {t} : at'[u] = at[u] /\ it'[u] = it[u] /\ held'[u] = held[u]
    BY <2>6, <2>7
  <2>17. it'[t] = h
    BY <2>6
  <2>. QED
    BY <1>0, <2>5, <2>9, <2>12, <2>13, <2>14, <2>15, <2>16, <2>17, CountersMove
<1>2. CASE PoolPush(t) \/ PoolUncount(t)
  <2>1. PICK h \in Heaps : h = it[t] /\ h \in Nodes
    BY <1>0, <1>2 DEF Types, Located, PoolPush, PoolUncount, In
  <2>2. Nodes' = Nodes \cup {h} /\ held' = held
    BY <1>2, <2>1 DEF PoolPush, PoolUncount, heapVars, Nodes
  <2>3. held[t][h] \in Nat
    <3>1. held[t] \in [Heaps -> Nat]
      BY <1>0 DEF Types
    <3>. QED
      BY <2>1, <3>1
  <2>4. it' = [it EXCEPT ![t] = h]
    BY <1>0, <1>2, <2>1 DEF PoolPush, PoolUncount, Goto, Types
  <2>5. it'[t] = h /\ it[t] = h /\ \A u \in Threads \ {t} : it'[u] = it[u]
    BY <1>0, <2>1, <2>4 DEF Types
  <2>6. avail[h] \in Nat /\ mAllocations[h] \in Nat
    BY <1>0, <2>1 DEF Types
  <2>7. held'[t][h] - held[t][h] \in {-1, 0, 1}
    BY <2>2, <2>3
  <2>8. CASE PoolPush(t)
    <3>1. /\ avail' = [avail EXCEPT ![h] = avail[h] + 1] /\ mAllocations' = mAllocations
          /\ at' = [at EXCEPT ![t] = "uncount"] /\ at[t] = "give"
      BY <2>1, <2>8 DEF PoolPush, Move, In
    <3>2. at'[t] = "uncount" /\ \A u \in Threads \ {t} : at'[u] = at[u]
      BY <1>0, <3>1 DEF Types
    <3>3. "give" \in OutBy \cap TalliedBy /\ "uncount" \in TalliedBy \ OutBy
      BY DEF OutBy, TalliedBy, Counting
    <3>4. Has(OutBy, t, h)' = Has(OutBy, t, h) - 1 /\ Has(TalliedBy, t, h)' = Has(TalliedBy, t, h) /\
          Has(OutBy, t, h) \in Nat /\ Has(TalliedBy, t, h) \in Nat
      BY <2>2, <2>3, <2>5, <3>1, <3>2, <3>3 DEF Has
    <3>5. avail'[h] = avail[h] + 1 /\ \A g \in Heaps \ {h} : avail'[g] = avail[g]
      BY <1>0, <2>1, <3>1 DEF Types
    <3>6. avail'[h] + Has(OutBy, t, h)' = avail[h] + Has(OutBy, t, h)
      BY <2>6, <3>4, <3>5
    <3>7. mAllocations'[h] - mAllocations[h] = Has(TalliedBy, t, h)' - Has(TalliedBy, t, h)
      BY <2>6, <3>1, <3>4
    <3>. QED
      BY <1>0, <2>1, <2>2, <2>5, <2>7, <3>1, <3>2, <3>5, <3>6, <3>7, CountersMove
  <2>9. CASE PoolUncount(t)
    <3>1. mAllocations' = [mAllocations EXCEPT ![h] = mAllocations[h] - 1] /\ avail' = avail /\
          at[t] = "uncount"
      BY <2>1, <2>9 DEF PoolUncount, In
    <3>2. PICK to \in {"idle", "empty"} : at' = [at EXCEPT ![t] = to]
      BY <2>9 DEF PoolUncount, Goto, Move
    <3>3. at'[t] = to /\ \A u \in Threads \ {t} : at'[u] = at[u]
      BY <1>0, <3>2 DEF Types
    <3>4. at[t] \in TalliedBy \ OutBy /\ at'[t] \notin OutBy \cup TalliedBy
      BY <3>1, <3>3 DEF OutBy, TalliedBy, Counting
    <3>5. Has(OutBy, t, h)' = Has(OutBy, t, h) /\ Has(TalliedBy, t, h)' = Has(TalliedBy, t, h) - 1 /\
          Has(OutBy, t, h) \in Nat /\ Has(TalliedBy, t, h) \in Nat
      BY <2>2, <2>3, <2>5, <3>4 DEF Has
    <3>6. mAllocations'[h] = mAllocations[h] - 1 /\
          \A g \in Heaps \ {h} : mAllocations'[g] = mAllocations[g]
      BY <1>0, <2>1, <3>1 DEF Types
    <3>7. mAllocations'[h] - mAllocations[h] = Has(TalliedBy, t, h)' - Has(TalliedBy, t, h)
      BY <2>6, <3>5, <3>6
    <3>8. avail'[h] + Has(OutBy, t, h)' = avail[h] + Has(OutBy, t, h)
      BY <3>1, <3>5
    <3>9. avail' = avail
      BY <3>1
    <3>. QED
      BY <1>0, <2>1, <2>2, <2>5, <2>7, <3>3, <3>4, <3>6, <3>7, <3>8, <3>9, CountersMove
  <2>. QED
    BY <1>2, <2>8, <2>9
<1>. QED
  BY <1>1, <1>2

\* A new pool has one object out, a collected one had none.
LEMMA GrowSteps ==
    ASSUME Structure, Structure', Accounted, NEW t \in Threads, PushHeap(t)
    PROVE  Accounted'
<1>0. Types /\ Types' /\ Located
  BY DEF Structure
<1>1. PICK h : h = CHOOSE n \in Heaps : n \notin Nodes
  OBVIOUS
<1>2. /\ at[t] = "grow" /\ Heaps # Nodes
      /\ list' = Append(list, h)
      /\ avail' = [avail EXCEPT ![h] = ObjectCount - 1]
      /\ mAllocations' = [mAllocations EXCEPT ![h] = 1]
      /\ held' = [held EXCEPT ![t] = [held[t] EXCEPT ![h] = 1]]
      /\ at' = [at EXCEPT ![t] = "idle"] /\ it' = [it EXCEPT ![t] = Top]
  BY <1>1 DEF PushHeap, NewNode, In, PushUnlock, Goto, Move
<1>3. h \in Heaps /\ h \notin Nodes /\ Nodes' = Nodes \cup {h}
  BY <1>0, <1>1, <1>2, NewNodeIs
<1>4. held[t] \in [Heaps -> Nat] /\ held[t][h] = 0
  BY <1>0, <1>3 DEF Types, Located
<1>5. mAllocations[h] = 0
  BY <1>0, <1>3, NoneOutside, FS_EmptySet DEF Accounted
<1>6. \A u \in Threads \ {t} : at'[u] = at[u] /\ it'[u] = it[u] /\ held'[u] = held[u]
  BY <1>0, <1>2 DEF Types
<1>7. at'[t] = "idle" /\ held'[t] = [held[t] EXCEPT ![h] = 1]
  BY <1>0, <1>2 DEF Types
<1>8. held'[t][h] = 1 /\ \A g \in Heaps \ {h} : held'[t][g] = held[t][g]
  BY <1>3, <1>4, <1>7
<1>9. \A g \in Heaps \ {h} : avail'[g] = avail[g] /\ mAllocations'[g] = mAllocations[g]
  BY <1>0, <1>2 DEF Types
<1>10. avail'[h] = ObjectCount - 1 /\ mAllocations'[h] = 1
  BY <1>0, <1>2, <1>3 DEF Types
<1>11. at[t] \notin OutBy \cup TalliedBy /\ at'[t] \notin OutBy \cup TalliedBy
  BY <1>2, <1>7 DEF OutBy, TalliedBy, Counting
<1>12. /\ Has(OutBy, t, h)' = 1 /\ Has(TalliedBy, t, h)' = 1
       /\ Has(OutBy, t, h) = 0 /\ Has(TalliedBy, t, h) = 0
  BY <1>4, <1>8, <1>11 DEF Has
<1>13. mAllocations'[h] - mAllocations[h] = Has(TalliedBy, t, h)' - Has(TalliedBy, t, h)
  BY <1>5, <1>10, <1>12
<1>14. avail'[h] + Has(OutBy, t, h)' =
            (IF h \in Nodes THEN avail[h] ELSE ObjectCount) + Has(OutBy, t, h)
  <2>1. ObjectCount \in Nat
    BY DynamicPoolHeapAssumption
  <2>. QED
    BY <1>3, <1>10, <1>12, <2>1
<1>15. held'[t][h] - held[t][h] \in {-1, 0, 1}
  BY <1>4, <1>8
<1>16. \A g \in Heaps \ {h} : /\ avail'[g] = avail[g] /\ mAllocations'[g] = mAllocations[g]
                              /\ held'[t][g] = held[t][g]
  BY <1>8, <1>9
<1>. QED
  BY <1>0, <1>3, <1>6, <1>11, <1>13, <1>14, <1>15, <1>16, CountersMove

LEMMA CollectSteps ==
    ASSUME Structure, Accounted, GCCollect
    PROVE  Accounted'
<1>. DEFINE Unused == {h \in Nodes \ {Top} : mGarbage[h] /\ mAllocations[h] = 0}
<1>1. /\ list' \in Kept(Unused) /\ UNCHANGED <<at, it, held>>
      /\ avail' = [h \in Heaps |-> IF h \in Unused THEN 0 ELSE avail[h]]
      /\ mAllocations' = [h \in Heaps |-> IF h \in Unused THEN 0 ELSE mAllocations[h]]
  BY DEF GCCollect, Collect
<1>2. Unused \in SUBSET (Nodes \ {Top}) /\ \A h \in Unused : mAllocations[h] = 0
  OBVIOUS
<1>. HIDE DEF Unused
<1>3. Nodes' = Nodes \ Unused
  BY <1>1, <1>2, CollectedIs
<1>4. SUFFICES ASSUME NEW h \in Heaps
               PROVE  /\ IsFiniteSet(Out(h)') /\ IsFiniteSet(Tallied(h)')
                      /\ mAllocations'[h] = Cardinality(Tallied(h)')
                      /\ h \in Nodes' => avail'[h] + Cardinality(Out(h)') = ObjectCount
  BY DEF Accounted
<1>5. Out(h)' = Out(h) /\ Tallied(h)' = Tallied(h)
  BY <1>1 DEF Out, Tallied, Numbered
<1>6. mAllocations'[h] = mAllocations[h]
  BY <1>1, <1>2
<1>7. h \in Nodes' => h \in Nodes /\ avail'[h] = avail[h]
  BY <1>1, <1>3
<1>. QED
  BY <1>5, <1>6, <1>7 DEF Accounted

-----------------------------------------------------------------------------
(***************************************************************************)
(* The marks                                                               *)
(***************************************************************************)
\* A step of t moves nobody else.
LEMMA OneMoves ==
    ASSUME Types, NEW t \in Threads, ThreadStep(t)
    PROVE  \A u \in Threads \ {t} : at'[u] = at[u] /\ it'[u] = it[u]
<1>1. \E to, h : at' = [at EXCEPT ![t] = to] /\ (it' = [it EXCEPT ![t] = h] \/ it' = it)
  <2>1. CASE StartAllocate(t) \/ Advance(t)
    BY <2>1 DEF StartAllocate, Advance, Goto, Move
  <2>2. CASE PoolPop(t)
    <3>1. CASE avail[it[t]] = 0
      <4>1. AfterFailure(t) /\ at[t] \in Popping
        BY <2>2, <3>1 DEF PoolPop, In
      <4>2. CASE at[t] = "pop"
        BY <4>1, <4>2 DEF AfterFailure, Goto, Move
      <4>3. CASE at[t] = "last_pop" /\ recycleHeap # None
        <5>1. at' = [at EXCEPT ![t] = "recycle_pop"] /\ it' = [it EXCEPT ![t] = recycleHeap]
          BY <4>1, <4>3 DEF AfterFailure, Goto, Move
        <5>. QED
          BY <5>1
      <4>4. CASE at[t] = "last_pop" /\ recycleHeap = None
        BY <4>1, <4>4 DEF AfterFailure, Goto, Move
      <4>5. CASE at[t] = "recycle_pop"
        BY <4>1, <4>5 DEF AfterFailure, Goto, Move
      <4>. QED
        BY <4>1, <4>2, <4>3, <4>4, <4>5 DEF Popping
    <3>2. CASE avail[it[t]] # 0
      BY <2>2, <3>2 DEF PoolPop, Move
    <3>. QED
      BY <3>1, <3>2
  <2>3. CASE PoolCount(t)
    BY <2>3 DEF PoolCount, Goto, Move, PushUnlock, In, Counting
  <2>4. CASE PushLock(t) \/ Scan(t) \/ ScanEnd(t)
    BY <2>4 DEF PushLock, Scan, ScanEnd, Goto, Move
  <2>5. CASE MarkRecycle(t) \/ Recycled(t) \/ PushHeap(t) \/ PushHeapFails(t)
    BY <2>5 DEF MarkRecycle, Recycled, PushHeap, NewNode, PushHeapFails, PushUnlock, Goto, Move
  <2>6. CASE \E h \in Heaps : StartFree(t, h)
    BY <2>6 DEF StartFree, Goto, Move
  <2>7. CASE PoolPush(t) \/ PoolUncount(t) \/ CheckEmpty(t) \/ MarkGarbage(t) \/ Marked(t)
    BY <2>7 DEF PoolPush, PoolUncount, CheckEmpty, FreedLast, MarkGarbage, Marked, Goto, Move
  <2>. QED
    BY <2>1, <2>2, <2>3, <2>4, <2>5, <2>6, <2>7 DEF ThreadStep
<1>. QED
  BY <1>1 DEF Types

\* The sets that are counted are finite.
LEMMA MarksFinite ==
    ASSUME Types
    PROVE  /\ IsFiniteSet(Garbage) /\ IsFiniteSet(Marking) /\ IsFiniteSet(Recycling)
           /\ Cardinality(Garbage) \in Nat /\ Cardinality(Marking) \in Nat
           /\ Cardinality(Recycling) \in Nat
<1>1. Garbage \subseteq Nodes /\ Marking \subseteq Threads /\ Recycling \subseteq Threads
  BY DEF Garbage, Marking, Recycling
<1>2. IsFiniteSet(Nodes) /\ IsFiniteSet(Threads)
  BY NodesFinite, DynamicPoolHeapAssumption
<1>3. IsFiniteSet(Garbage) /\ IsFiniteSet(Marking) /\ IsFiniteSet(Recycling)
  BY <1>1, <1>2, FS_Subset
<1>. QED
  BY <1>3, FS_CardinalityType

\* A step that touches no flag and no count of them.
LEMMA MarksKept ==
    ASSUME GarbageCounted, NEW t \in Threads,
           \A u \in Threads \ {t} : at'[u] = at[u] /\ it'[u] = it[u],
           mGarbage' = mGarbage, mGarbageHeapCount' = mGarbageHeapCount,
           Garbage' = Garbage,
           at[t] \notin {"marked", "recycle", "recycled"},
           at'[t] \notin {"marked", "recycled"},
           at'[t] = "recycle" => mGarbage[it'[t]]
    PROVE  GarbageCounted'
<1>1. Marking' = Marking
  BY DEF Marking
<1>2. Recycling' = Recycling
  BY DEF Recycling
<1>. QED
  BY <1>1, <1>2 DEF GarbageCounted

LEMMA MarkCounted ==
    ASSUME Structure, Structure', GarbageCounted, NEW t \in Threads,
           MarkGarbage(t) \/ Marked(t)
    PROVE  GarbageCounted'
<1>0. Types /\ Types' /\ Located
  BY DEF Structure
<1>1. /\ \A u \in Threads \ {t} : at'[u] = at[u] /\ it'[u] = it[u]
      /\ list' = list /\ mGarbageHeapCount \in Int
  <2>1. ThreadStep(t)
    BY DEF ThreadStep
  <2>2. list' = list
    BY DEF MarkGarbage, Marked
  <2>. QED
    BY <1>0, <2>1, <2>2, OneMoves DEF Types
<1>2. Nodes' = Nodes
  BY <1>1 DEF Nodes
<1>3. CASE MarkGarbage(t)
  <2>. DEFINE h == it[t]
  <2>1. at[t] = "mark" /\ h \in Nodes /\ h \in Heaps
    BY <1>0, <1>3 DEF MarkGarbage, In, Types, Located
  <2>2. /\ mGarbageHeapCount' = mGarbageHeapCount
        /\ mGarbage' = [mGarbage EXCEPT ![h] = TRUE]
        /\ at'[t] = IF mGarbage[h] THEN "idle" ELSE "marked"
    BY <1>0, <1>3 DEF MarkGarbage, Goto, Move, Types
  <2>. HIDE DEF h
  <2>3. CASE mGarbage[h]
    <3>1. mGarbage' = mGarbage
      BY <1>0, <2>1, <2>2, <2>3 DEF Types
    <3>2. Garbage' = Garbage
      BY <1>2, <3>1 DEF Garbage
    <3>. QED
      BY <1>1, <2>1, <2>2, <2>3, <3>1, <3>2, MarksKept
  <2>4. CASE ~mGarbage[h]
    <3>1. Garbage' = Garbage \cup {h} /\ h \notin Garbage
      <4>1. \A g \in Heaps : mGarbage'[g] <=> g = h \/ mGarbage[g]
        BY <1>0, <2>1, <2>2 DEF Types
      <4>2. Nodes \subseteq Heaps
        BY <1>0, NodesFinite
      <4>. QED
        BY <1>2, <2>1, <2>4, <4>1, <4>2 DEF Garbage
    <3>2. Marking' = Marking \cup {t} /\ t \notin Marking
      BY <1>1, <2>1, <2>2, <2>4 DEF Marking
    <3>3. Recycling' \subseteq Recycling
      <4>1. \A u \in Threads : at'[u] \in {"recycle", "recycled"} => u # t /\ at[u] = at'[u] /\ it'[u] = it[u]
        BY <1>1, <2>2, <2>4
      <4>2. \A g \in Heaps : ~mGarbage'[g] => ~mGarbage[g]
        BY <1>0, <2>1, <2>2 DEF Types
      <4>. QED
        BY <1>0, <4>1, <4>2 DEF Recycling, Types
    <3>4. /\ Cardinality(Garbage') = Cardinality(Garbage) + 1
          /\ Cardinality(Marking') = Cardinality(Marking) + 1
      BY <1>0, <3>1, <3>2, MarksFinite, FS_AddElement
    <3>5. Cardinality(Recycling') <= Cardinality(Recycling) /\ Cardinality(Recycling') \in Nat
      BY <1>0, <3>3, MarksFinite, FS_Subset, FS_CardinalityType
    <3>6. /\ Cardinality(Garbage) \in Nat /\ Cardinality(Marking) \in Nat
          /\ Cardinality(Recycling) \in Nat
      BY <1>0, MarksFinite
    <3>. QED
      BY <1>1, <2>2, <3>4, <3>5, <3>6 DEF GarbageCounted
  <2>. QED
    BY <2>3, <2>4
<1>4. CASE Marked(t)
  <2>1. /\ at[t] = "marked" /\ at'[t] \in {"idle", "too_much_garbage"}
        /\ mGarbageHeapCount' = mGarbageHeapCount + 1 /\ mGarbage' = mGarbage
    BY <1>0, <1>4 DEF Marked, In, Goto, Move, Types
  <2>2. Garbage' = Garbage
    BY <1>2, <2>1 DEF Garbage
  <2>3. Recycling' = Recycling
    BY <1>1, <2>1 DEF Recycling
  <2>4. Marking' = Marking \ {t} /\ t \in Marking
    BY <1>1, <2>1 DEF Marking
  <2>5. Cardinality(Marking') = Cardinality(Marking) - 1
    BY <1>0, <2>4, MarksFinite, FS_RemoveElement
  <2>6. /\ Cardinality(Garbage) \in Nat /\ Cardinality(Marking) \in Nat
        /\ Cardinality(Recycling) \in Nat
    BY <1>0, MarksFinite
  <2>. QED
    BY <1>1, <2>1, <2>2, <2>3, <2>5, <2>6 DEF GarbageCounted
<1>. QED
  BY <1>3, <1>4

LEMMA RecycleCounted ==
    ASSUME Structure, Structure', GarbageCounted, NEW t \in Threads,
           MarkRecycle(t) \/ Recycled(t)
    PROVE  GarbageCounted'
<1>0. Types /\ Types' /\ Located /\ PushOwned
  BY DEF Structure
<1>1. /\ \A u \in Threads \ {t} : at'[u] = at[u] /\ it'[u] = it[u]
      /\ list' = list /\ mGarbageHeapCount \in Int
  <2>1. ThreadStep(t)
    BY DEF ThreadStep
  <2>2. list' = list
    BY DEF MarkRecycle, Recycled
  <2>. QED
    BY <1>0, <2>1, <2>2, OneMoves DEF Types
<1>2. Nodes' = Nodes /\ Marking' = Marking
  <2>1. at[t] # "marked" /\ at'[t] # "marked"
    BY <1>0 DEF MarkRecycle, Recycled, In, PushUnlock, Goto, Move, Types
  <2>. QED
    BY <1>1, <2>1 DEF Nodes, Marking
<1>3. at[t] \in {"recycle", "recycled"}
  BY DEF MarkRecycle, Recycled, In
<1>4. \A u \in Threads \ {t} : at[u] \notin {"recycle", "recycled"}
  BY <1>0, <1>3 DEF PushOwned, Pushing
<1>5. /\ Cardinality(Garbage) \in Nat /\ Cardinality(Marking) \in Nat
      /\ Cardinality(Recycling) \in Nat
  BY <1>0, MarksFinite
<1>6. CASE MarkRecycle(t)
  <2>1. PICK h \in Heaps : h = it[t] /\ h \in Nodes
    BY <1>0, <1>3 DEF Types, Located
  <2>2. /\ at[t] = "recycle" /\ it'[t] = h
        /\ mGarbageHeapCount' = mGarbageHeapCount
        /\ mGarbage' = [mGarbage EXCEPT ![h] = FALSE]
        /\ at'[t] = IF mGarbage[h] THEN "recycle" ELSE "recycled"
    BY <1>0, <1>6, <2>1 DEF MarkRecycle, In, Move, Types
  <2>3. ~mGarbage'[h]
    BY <1>0, <2>2 DEF Types
  <2>4. t \in Recycling' /\ \A u \in Recycling' : u = t
    BY <1>1, <1>4, <2>2, <2>3 DEF Recycling
  <2>5. CASE mGarbage[h]
    <3>1. Garbage' = Garbage \ {h} /\ h \in Garbage
      BY <1>0, <1>2, <2>1, <2>2, <2>5, NodesFinite DEF Garbage, Types
    <3>2. Recycling' = Recycling \cup {t} /\ t \notin Recycling
      BY <1>4, <2>1, <2>2, <2>4, <2>5 DEF Recycling
    <3>3. /\ Cardinality(Garbage') = Cardinality(Garbage) - 1
          /\ Cardinality(Recycling') = Cardinality(Recycling) + 1
      BY <1>0, <3>1, <3>2, MarksFinite, FS_AddElement, FS_RemoveElement
    <3>. QED
      BY <1>1, <1>2, <1>5, <2>2, <3>3 DEF GarbageCounted
  <2>6. CASE ~mGarbage[h]
    <3>1. mGarbage' = mGarbage
      BY <1>0, <2>2, <2>6 DEF Types
    <3>2. Garbage' = Garbage
      BY <1>2, <3>1 DEF Garbage
    <3>3. Recycling' = Recycling
      BY <1>4, <2>1, <2>2, <2>4, <2>6 DEF Recycling
    <3>. QED
      BY <1>2, <2>2, <3>2, <3>3 DEF GarbageCounted
  <2>. QED
    BY <2>5, <2>6
<1>7. CASE Recycled(t)
  <2>1. /\ at[t] = "recycled" /\ at'[t] = "idle"
        /\ mGarbageHeapCount' = mGarbageHeapCount - 1 /\ mGarbage' = mGarbage
    BY <1>0, <1>7 DEF Recycled, In, PushUnlock, Goto, Move, Types
  <2>2. Garbage' = Garbage
    BY <1>2, <2>1 DEF Garbage
  <2>3. Recycling' = Recycling \ {t} /\ t \in Recycling
    BY <1>1, <2>1 DEF Recycling
  <2>4. Cardinality(Recycling') = Cardinality(Recycling) - 1
    BY <1>0, <2>3, MarksFinite, FS_RemoveElement
  <2>. QED
    BY <1>1, <1>2, <1>5, <2>1, <2>2, <2>4 DEF GarbageCounted
<1>. QED
  BY <1>6, <1>7

\* The steps that are not about the flags: where they lead.
LEMMA OtherPlaces ==
    ASSUME Types, PushOwned, NEW t \in Threads,
           \/ StartAllocate(t) \/ PoolPop(t) \/ PoolCount(t) \/ Advance(t)
           \/ PushLock(t) \/ Scan(t) \/ ScanEnd(t) \/ PushHeap(t) \/ PushHeapFails(t)
           \/ (\E h \in Heaps : StartFree(t, h))
           \/ PoolPush(t) \/ PoolUncount(t) \/ CheckEmpty(t)
    PROVE  /\ mGarbage' = mGarbage /\ mGarbageHeapCount' = mGarbageHeapCount
           /\ at[t] \notin {"marked", "recycle", "recycled"}
           /\ at'[t] \notin {"marked", "recycled"}
           /\ at'[t] = "recycle" => mGarbage[it'[t]]
<1>1. mGarbage' = mGarbage /\ mGarbageHeapCount' = mGarbageHeapCount
  BY DEF StartAllocate, PoolPop, PoolCount, Advance, PushLock, Scan, ScanEnd, PushHeap,
         NewNode, PushHeapFails, StartFree, PoolPush, PoolUncount, CheckEmpty, FreedLast, heapVars
<1>2. at[t] \notin {"marked", "recycle", "recycled"}
  BY DEF StartAllocate, PoolPop, PoolCount, Advance, PushLock, Scan, ScanEnd, PushHeap,
         NewNode, PushHeapFails, StartFree, PoolPush, PoolUncount, CheckEmpty, FreedLast,
         In, Popping, Counting
<1>3. CASE PoolCount(t) /\ at[t] = "recycle_count"
  <2>1. at'[t] = "recycle" /\ it'[t] = it[t]
    BY <1>3 DEF PoolCount, Goto, Move, Types
  <2>2. it[t] = recycleHeap /\ it[t] \in Heaps
    BY <1>3 DEF PushOwned, Types
  <2>3. recycleHeap # None
    BY <2>2, DynamicPoolHeapAssumption DEF Heaps
  <2>4. mGarbage[recycleHeap]
    BY <1>3, <2>3 DEF PushOwned, Pushing
  <2>. QED
    BY <1>1, <1>2, <2>1, <2>2, <2>4
<1>4. CASE PoolCount(t) /\ at[t] # "recycle_count"
  <2>1. at'[t] = "idle"
    BY <1>4 DEF PoolCount, In, Counting, PushUnlock, Goto, Move, Types
  <2>. QED
    BY <1>1, <1>2, <2>1
<1>5. CASE PoolPop(t)
  <2>1. CASE avail[it[t]] = 0
    <3>1. AfterFailure(t) /\ at[t] \in Popping
      BY <1>5, <2>1 DEF PoolPop, In
    <3>2. at'[t] \in {"next", "recycle_pop", "grow", "no_object"}
      <4>1. CASE at[t] = "pop"
        BY <3>1, <4>1 DEF AfterFailure, Goto, Move, Types
      <4>2. CASE at[t] = "last_pop" /\ recycleHeap # None
        <5>1. at' = [at EXCEPT ![t] = "recycle_pop"]
          BY <3>1, <4>2 DEF AfterFailure, Goto, Move
        <5>. QED
          BY <5>1 DEF Types
      <4>3. CASE at[t] = "last_pop" /\ recycleHeap = None
        BY <3>1, <4>3 DEF AfterFailure, Goto, Move, Types
      <4>4. CASE at[t] = "recycle_pop"
        BY <3>1, <4>4 DEF AfterFailure, Goto, Move, Types
      <4>. QED
        BY <3>1, <4>1, <4>2, <4>3, <4>4 DEF Popping
    <3>. QED
      BY <1>1, <1>2, <3>2
  <2>2. CASE avail[it[t]] # 0
    <3>1. at'[t] = AfterPop(at[t])
      BY <1>5, <2>2 DEF PoolPop, Move, Types
    <3>2. AfterPop(at[t]) \in Counting
      BY <1>5 DEF PoolPop, In, AfterPop, Popping, Counting
    <3>. QED
      BY <1>1, <1>2, <3>1, <3>2 DEF Counting
  <2>. QED
    BY <2>1, <2>2
<1>6. CASE ~PoolPop(t) /\ ~PoolCount(t)
  <2>1. at'[t] \in {"idle", "pop", "push", "next", "scan", "last_pop", "recycle_pop", "grow",
                    "give", "uncount", "empty", "mark"}
    <3>1. CASE StartAllocate(t) \/ Advance(t)
      BY <3>1 DEF StartAllocate, Advance, Goto, Move, Types
    <3>2. CASE PushLock(t) \/ Scan(t)
      BY <3>2 DEF PushLock, Scan, Goto, Move, Types
    <3>3. CASE ScanEnd(t)
      BY <3>3 DEF ScanEnd, Goto, Move, Types
    <3>4. CASE PushHeap(t) \/ PushHeapFails(t)
      BY <3>4 DEF PushHeap, NewNode, PushHeapFails, PushUnlock, Goto, Move, Types
    <3>5. CASE \E h \in Heaps : StartFree(t, h)
      BY <3>5 DEF StartFree, Goto, Move, Types
    <3>6. CASE PoolPush(t) \/ PoolUncount(t) \/ CheckEmpty(t)
      BY <3>6 DEF PoolPush, PoolUncount, CheckEmpty, FreedLast, Goto, Move, Types
    <3>. QED
      BY <1>6, <3>1, <3>2, <3>3, <3>4, <3>5, <3>6
  <2>. QED
    BY <1>1, <1>2, <2>1
<1>. QED
  BY <1>3, <1>4, <1>5, <1>6

LEMMA StepCounted ==
    ASSUME Structure, Structure', GarbageCounted, NEW t \in Threads, ThreadStep(t)
    PROVE  GarbageCounted'
<1>0. Types /\ Types' /\ Located /\ PushOwned
  BY DEF Structure
<1>1. CASE MarkGarbage(t) \/ Marked(t)
  BY <1>1, MarkCounted
<1>2. CASE MarkRecycle(t) \/ Recycled(t)
  BY <1>2, RecycleCounted
<1>3. CASE ~(MarkGarbage(t) \/ Marked(t) \/ MarkRecycle(t) \/ Recycled(t))
  <2>1. /\ mGarbage' = mGarbage /\ mGarbageHeapCount' = mGarbageHeapCount
        /\ at[t] \notin {"marked", "recycle", "recycled"}
        /\ at'[t] \notin {"marked", "recycled"}
        /\ at'[t] = "recycle" => mGarbage[it'[t]]
    BY <1>0, <1>3, OtherPlaces DEF ThreadStep
  <2>2. \A u \in Threads \ {t} : at'[u] = at[u] /\ it'[u] = it[u]
    BY <1>0, OneMoves
  <2>3. Garbage' = Garbage
    <3>1. CASE PushHeap(t)
      <4>1. PICK h : h = CHOOSE n \in Heaps : n \notin Nodes
        OBVIOUS
      <4>2. Heaps # Nodes /\ list' = Append(list, h)
        BY <3>1, <4>1 DEF PushHeap, NewNode
      <4>3. h \in Heaps \ Nodes /\ Nodes' = Nodes \cup {h}
        BY <1>0, <4>1, <4>2, NewNodeIs
      <4>4. ~mGarbage[h]
        BY <1>0, <4>3 DEF Located
      <4>. QED
        BY <2>1, <4>3, <4>4 DEF Garbage
    <3>2. CASE ~PushHeap(t)
      <4>1. list' = list
        BY <1>3, <3>2 DEF ThreadStep, StartAllocate, PoolPop, PoolCount, Advance, PushLock,
             Scan, ScanEnd, PushHeapFails, StartFree, PoolPush, PoolUncount, CheckEmpty,
             FreedLast, heapVars
      <4>. QED
        BY <2>1, <4>1 DEF Garbage, Nodes
    <3>. QED
      BY <3>1, <3>2
  <2>. QED
    BY <2>1, <2>2, <2>3, MarksKept
<1>. QED
  BY <1>1, <1>2, <1>3

\* What a collection takes from the list it takes from the count.
LEMMA CollectCounted ==
    ASSUME Structure, GarbageCounted, GCCollect
    PROVE  GarbageCounted'
<1>. DEFINE Unused == {h \in Nodes \ {Top} : mGarbage[h] /\ mAllocations[h] = 0}
<1>1. /\ \A t \in Threads : at[t] = "idle"
      /\ list' \in Kept(Unused) /\ UNCHANGED at
      /\ mGarbage' = [h \in Heaps |-> h \notin Unused /\ mGarbage[h]]
      /\ mGarbageHeapCount' = mGarbageHeapCount - Cardinality(Unused)
  BY DEF GCCollect, Collect
<1>2. Unused \in SUBSET (Nodes \ {Top}) /\ Unused \subseteq Garbage
  BY DEF Garbage
<1>. HIDE DEF Unused
<1>3. Nodes' = Nodes \ Unused /\ IsFiniteSet(Unused) /\ Cardinality(Unused) \in Nat
  BY <1>1, <1>2, CollectedIs
<1>4. Types /\ Nodes \subseteq Heaps
  BY NodesFinite DEF Structure
<1>5. Garbage' = Garbage \ Unused
  BY <1>1, <1>3, <1>4 DEF Garbage
<1>6. /\ IsFiniteSet(Garbage) /\ Cardinality(Garbage) \in Nat
      /\ Cardinality(Marking) \in Nat /\ Cardinality(Recycling) \in Nat
  BY <1>4, MarksFinite
<1>7. Cardinality(Garbage') = Cardinality(Garbage) - Cardinality(Unused)
  <2>1. Garbage \cap Unused = Unused
    BY <1>2
  <2>2. Cardinality(Garbage \ Unused) = Cardinality(Garbage) - Cardinality(Garbage \cap Unused)
    BY <1>6, FS_Difference
  <2>. QED
    BY <1>5, <2>1, <2>2
<1>8. Marking' = Marking /\ Recycling' = Recycling
  BY <1>1 DEF Marking, Recycling
<1>9. mGarbageHeapCount \in Int
  BY <1>4 DEF Types
<1>. QED
  BY <1>1, <1>3, <1>6, <1>7, <1>8, <1>9 DEF GarbageCounted

-----------------------------------------------------------------------------
(***************************************************************************)
(* A pool without objects is remembered                                    *)
(***************************************************************************)
Reminding(t, h) == at[t] \in {"empty", "mark"} /\ it[t] = h

\* A step of t keeps it so, if a pool that is unmarked and empty after the step
\* was so before it and is not what t was reminding of, or is what t reminds of.
LEMMA RememberedKept ==
    ASSUME Remembered, NEW t \in Threads,
           \A u \in Threads \ {t} : at'[u] = at[u] /\ it'[u] = it[u],
           \A h \in Nodes' \ {Top} : mAllocations'[h] = 0 /\ ~mGarbage'[h] =>
               \/ /\ h \in Nodes /\ mAllocations[h] = 0 /\ ~mGarbage[h]
                  /\ ~Reminding(t, h)
               \/ Reminding(t, h)'
    PROVE  Remembered'
BY DEF Remembered, Reminding

\* A step that touches neither flags nor counts, of a thread that reminds of none.
LEMMA RememberedSame ==
    ASSUME Remembered, NEW t \in Threads,
           \A u \in Threads \ {t} : at'[u] = at[u] /\ it'[u] = it[u],
           at[t] \notin {"empty", "mark"},
           UNCHANGED <<list, mAllocations, mGarbage>>
    PROVE  Remembered'
<1>1. Nodes' = Nodes
  BY DEF Nodes
<1>. QED
  BY <1>1, RememberedKept DEF Reminding

LEMMA StepRemembered ==
    ASSUME Structure, Structure', Accounted, Remembered, NEW t \in Threads, ThreadStep(t)
    PROVE  Remembered'
<1>0. Types /\ Types' /\ Located /\ PushOwned
  BY DEF Structure
<1>1. \A u \in Threads \ {t} : at'[u] = at[u] /\ it'[u] = it[u]
  BY <1>0, OneMoves
<1>2. Nodes \subseteq Heaps
  BY <1>0, NodesFinite
<1>3. CASE PoolCount(t)
  <2>1. PICK h \in Heaps : h = it[t]
    BY <1>0 DEF Types
  <2>2. mAllocations' = [mAllocations EXCEPT ![h] = mAllocations[h] + 1]
    BY <1>3, <2>1 DEF PoolCount
  <2>3. mAllocations'[h] = mAllocations[h] + 1 /\ mAllocations[h] \in Nat
    BY <1>0, <2>2 DEF Types
  <2>4. \A g \in Heaps \ {h} : mAllocations'[g] = mAllocations[g]
    BY <1>0, <2>2 DEF Types
  <2>5. mGarbage' = mGarbage /\ Nodes' = Nodes
    BY <1>3 DEF PoolCount, Nodes
  <2>6. at[t] \notin {"empty", "mark"}
    BY <1>3 DEF PoolCount, In, Counting
  <2>7. mAllocations'[h] # 0
    BY <2>3
  <2>. QED
    BY <1>1, <1>2, <2>4, <2>5, <2>6, <2>7, RememberedKept DEF Reminding
<1>4. CASE PoolUncount(t)
  <2>1. PICK h \in Heaps : h = it[t]
    BY <1>0 DEF Types
  <2>2. mAllocations' = [mAllocations EXCEPT ![h] = mAllocations[h] - 1]
    BY <1>4, <2>1 DEF PoolUncount
  <2>3. \A g \in Heaps \ {h} : mAllocations'[g] = mAllocations[g]
    BY <1>0, <2>2 DEF Types
  <2>4. mGarbage' = mGarbage /\ Nodes' = Nodes
    BY <1>4 DEF PoolUncount, heapVars, Nodes
  <2>5. at[t] \notin {"empty", "mark"}
    BY <1>4 DEF PoolUncount, In
  <2>6. h # Top => at'[t] = "empty" /\ it'[t] = h
    BY <1>0, <1>4, <2>1 DEF PoolUncount, Goto, Move, Types
  <2>. QED
    BY <1>1, <1>2, <2>3, <2>4, <2>5, <2>6, RememberedKept DEF Reminding
<1>5. CASE CheckEmpty(t)
  <2>1. UNCHANGED <<list, mAllocations, mGarbage>>
    BY <1>5 DEF CheckEmpty, FreedLast, poolVars, heapVars
  <2>2. mAllocations[it[t]] = 0 => at'[t] = "mark" /\ it'[t] = it[t]
    BY <1>0, <1>5 DEF CheckEmpty, FreedLast, Goto, Move, Types
  <2>3. Nodes' = Nodes
    BY <2>1 DEF Nodes
  <2>. QED
    BY <1>1, <2>1, <2>2, <2>3, RememberedKept DEF Reminding
<1>6. CASE MarkGarbage(t)
  <2>1. PICK h \in Heaps : h = it[t]
    BY <1>0 DEF Types
  <2>2. mGarbage' = [mGarbage EXCEPT ![h] = TRUE] /\ UNCHANGED <<list, mAllocations>>
    BY <1>6, <2>1 DEF MarkGarbage, poolVars
  <2>3. mGarbage'[h] /\ \A g \in Heaps \ {h} : mGarbage'[g] = mGarbage[g]
    BY <1>0, <2>2 DEF Types
  <2>4. Nodes' = Nodes
    BY <2>2 DEF Nodes
  <2>. QED
    BY <1>1, <1>2, <2>1, <2>2, <2>3, <2>4, RememberedKept DEF Reminding
<1>7. CASE MarkRecycle(t)
  <2>1. PICK h \in Heaps : h = it[t]
    BY <1>0 DEF Types
  <2>2. mGarbage' = [mGarbage EXCEPT ![h] = FALSE] /\ UNCHANGED <<list, mAllocations>>
    BY <1>7, <2>1 DEF MarkRecycle, poolVars
  <2>3. at[t] = "recycle"
    BY <1>7 DEF MarkRecycle, In
  <2>4. mAllocations[h] # 0
    BY <1>0, <2>1, <2>3, NoneTallied DEF PushOwned
  <2>5. \A g \in Heaps \ {h} : mGarbage'[g] = mGarbage[g]
    BY <1>0, <2>2 DEF Types
  <2>6. Nodes' = Nodes
    BY <2>2 DEF Nodes
  <2>. QED
    BY <1>1, <1>2, <2>2, <2>3, <2>4, <2>5, <2>6, RememberedKept DEF Reminding
<1>8. CASE PushHeap(t)
  <2>1. PICK h : h = CHOOSE n \in Heaps : n \notin Nodes
    OBVIOUS
  <2>2. /\ Heaps # Nodes /\ list' = Append(list, h) /\ mGarbage' = mGarbage
        /\ mAllocations' = [mAllocations EXCEPT ![h] = 1] /\ at[t] = "grow"
    BY <1>8, <2>1 DEF PushHeap, NewNode, In
  <2>3. h \in Heaps /\ Nodes' = Nodes \cup {h}
    BY <1>0, <2>1, <2>2, NewNodeIs
  <2>4. mAllocations'[h] = 1 /\ \A g \in Heaps \ {h} : mAllocations'[g] = mAllocations[g]
    BY <1>0, <2>2, <2>3 DEF Types
  <2>. QED
    BY <1>1, <1>2, <2>2, <2>3, <2>4, RememberedKept DEF Reminding
<1>9. CASE \/ StartAllocate(t) \/ PoolPop(t) \/ Advance(t) \/ PushLock(t) \/ Scan(t)
           \/ ScanEnd(t) \/ Recycled(t) \/ PushHeapFails(t)
           \/ (\E h \in Heaps : StartFree(t, h)) \/ PoolPush(t) \/ Marked(t)
  <2>1. UNCHANGED <<list, mAllocations, mGarbage>>
    BY <1>9 DEF StartAllocate, PoolPop, Advance, PushLock, Scan, ScanEnd, Recycled,
         PushHeapFails, StartFree, PoolPush, Marked, poolVars, heapVars
  <2>2. at[t] \notin {"empty", "mark"}
    BY <1>9 DEF StartAllocate, PoolPop, Advance, PushLock, Scan, ScanEnd, Recycled,
         PushHeapFails, StartFree, PoolPush, Marked, In, Popping
  <2>. QED
    BY <1>1, <2>1, <2>2, RememberedSame
<1>. QED
  BY <1>3, <1>4, <1>5, <1>6, <1>7, <1>8, <1>9 DEF ThreadStep

LEMMA CollectRemembered ==
    ASSUME Structure, Remembered, GCCollect
    PROVE  Remembered'
<1>. DEFINE Unused == {h \in Nodes \ {Top} : mGarbage[h] /\ mAllocations[h] = 0}
<1>1. /\ list' \in Kept(Unused) /\ UNCHANGED <<at, it>>
      /\ mAllocations' = [h \in Heaps |-> IF h \in Unused THEN 0 ELSE mAllocations[h]]
      /\ mGarbage' = [h \in Heaps |-> h \notin Unused /\ mGarbage[h]]
  BY DEF GCCollect, Collect
<1>2. Unused \in SUBSET (Nodes \ {Top})
  OBVIOUS
<1>. HIDE DEF Unused
<1>3. Nodes' = Nodes \ Unused
  BY <1>1, <1>2, CollectedIs
<1>4. Nodes \subseteq Heaps
  BY NodesFinite DEF Structure
<1>5. \A h \in Nodes' : mAllocations'[h] = mAllocations[h] /\ (mGarbage'[h] <=> mGarbage[h])
  BY <1>1, <1>3, <1>4
<1>. QED
  BY <1>1, <1>3, <1>5 DEF Remembered

-----------------------------------------------------------------------------
(***************************************************************************)
(* The lock of a pool, and the first pool                                  *)
(***************************************************************************)
\* A step of t that leaves the locks alone.
LEMMA LockSame ==
    ASSUME LockHeld, NEW t \in Threads,
           \A u \in Threads \ {t} : at'[u] = at[u] /\ it'[u] = it[u],
           at[t] \notin Locking, at'[t] \notin Locking, mLock' = mLock,
           \A u \in Threads \ {t} : at[u] = "uncount" => avail'[it[u]] = avail[it[u]]
    PROVE  LockHeld'
<1>1. \A u \in Threads, h \in Heaps :
            at'[u] \in Locking /\ it'[u] = h <=> at[u] \in Locking /\ it[u] = h
  OBVIOUS
<1>2. \A u \in Threads : at'[u] = "uncount" => avail'[it'[u]] > 0
  BY DEF LockHeld, Locking
<1>. QED
  BY <1>1, <1>2 DEF LockHeld

\* A step of t that takes the lock of a free pool ...
LEMMA LockTaken ==
    ASSUME Types, LockHeld, NEW t \in Threads, NEW h \in Heaps,
           \A u \in Threads \ {t} : at'[u] = at[u] /\ it'[u] = it[u],
           at[t] \notin Locking, at'[t] \in Locking, it'[t] = h,
           mLock[h] = None, mLock' = [mLock EXCEPT ![h] = t],
           at'[t] = "uncount" => avail'[h] > 0,
           \A g \in Heaps \ {h} : avail'[g] = avail[g]
    PROVE  LockHeld'
<1>1. None \notin Threads
  BY DynamicPoolHeapAssumption
<1>2. mLock'[h] = t /\ \A g \in Heaps \ {h} : mLock'[g] = mLock[g]
  BY DEF Types
<1>3. \A u \in Threads : at[u] \in Locking => it[u] # h
  BY <1>1 DEF LockHeld
<1>4. ASSUME NEW u \in Threads, NEW g \in Heaps
      PROVE  at'[u] \in Locking /\ it'[u] = g <=> mLock'[g] = u
  BY <1>2, <1>3 DEF LockHeld
<1>5. ASSUME NEW u \in Threads, at'[u] = "uncount"  PROVE avail'[it'[u]] > 0
  <2>1. CASE u = t
    BY <1>5, <2>1
  <2>2. CASE u # t
    <3>1. at[u] = "uncount" /\ it'[u] = it[u] /\ it[u] \in Heaps \ {h}
      BY <1>3, <1>5, <2>2 DEF Locking, Types
    <3>. QED
      BY <3>1 DEF LockHeld
  <2>. QED
    BY <2>1, <2>2
<1>. QED
  BY <1>4, <1>5 DEF LockHeld

\* ... and one that gives it back.
LEMMA LockGiven ==
    ASSUME Types, LockHeld, NEW t \in Threads, NEW h \in Heaps,
           \A u \in Threads \ {t} : at'[u] = at[u] /\ it'[u] = it[u],
           at[t] \in Locking, it[t] = h, at'[t] \notin Locking,
           mLock' = [mLock EXCEPT ![h] = None], avail' = avail
    PROVE  LockHeld'
<1>1. None \notin Threads
  BY DynamicPoolHeapAssumption
<1>2. mLock'[h] = None /\ \A g \in Heaps \ {h} : mLock'[g] = mLock[g]
  BY DEF Types
<1>3. mLock[h] = t
  BY DEF LockHeld
<1>4. \A u \in Threads \ {t} : at[u] \in Locking => it[u] # h
  BY <1>3 DEF LockHeld
<1>5. \A g \in Heaps \ {h} : mLock[g] # t
  BY DEF LockHeld
<1>6. ASSUME NEW u \in Threads, NEW g \in Heaps
      PROVE  at'[u] \in Locking /\ it'[u] = g <=> mLock'[g] = u
  <2>1. CASE u = t
    BY <1>1, <1>2, <1>5, <2>1
  <2>2. CASE u # t
    BY <1>1, <1>2, <1>4, <2>2 DEF LockHeld
  <2>. QED
    BY <2>1, <2>2
<1>7. \A u \in Threads : at'[u] = "uncount" => avail'[it'[u]] > 0
  BY DEF LockHeld, Locking
<1>. QED
  BY <1>6, <1>7 DEF LockHeld

LEMMA StepLocked ==
    ASSUME Structure, Structure', LockHeld, NEW t \in Threads, ThreadStep(t)
    PROVE  LockHeld'
<1>0. Types /\ Types' /\ Located
  BY DEF Structure
<1>1. \A u \in Threads \ {t} : at'[u] = at[u] /\ it'[u] = it[u]
  BY <1>0, OneMoves
<1>2. PICK h \in Heaps : h = it[t]
  BY <1>0 DEF Types
<1>3. CASE \/ StartAllocate(t) \/ Advance(t) \/ PushLock(t) \/ Scan(t) \/ ScanEnd(t)
           \/ MarkRecycle(t) \/ Recycled(t) \/ PushHeapFails(t)
           \/ CheckEmpty(t) \/ MarkGarbage(t) \/ Marked(t)
           \/ (PoolPop(t) /\ avail[it[t]] = 0)
  <2>1. /\ UNCHANGED <<list, avail, mAllocations, mLock, held>>
        /\ at[t] \notin OutBy \cup TalliedBy /\ at'[t] \notin OutBy \cup TalliedBy
    BY <1>0, <1>3, QuietPlaces
  <2>2. Locking \subseteq OutBy \cup TalliedBy
    BY DEF Locking, OutBy, TalliedBy
  <2>. QED
    BY <1>1, <2>1, <2>2, LockSame
<1>4. CASE PoolPop(t) /\ avail[it[t]] # 0
  <2>1. /\ mLock[h] = None /\ mLock' = [mLock EXCEPT ![h] = t]
        /\ avail' = [avail EXCEPT ![h] = avail[h] - 1]
        /\ at' = [at EXCEPT ![t] = AfterPop(at[t])] /\ it' = it
    BY <1>2, <1>4 DEF PoolPop, Move
  <2>2. at[t] \notin Locking /\ AfterPop(at[t]) \in Counting
    BY <1>4 DEF PoolPop, In, Popping, AfterPop, Locking, Counting
  <2>3. at'[t] = AfterPop(at[t]) /\ it'[t] = h
    BY <1>0, <1>2, <2>1 DEF Types
  <2>4. at'[t] \in Locking /\ at'[t] # "uncount"
    BY <2>2, <2>3 DEF Locking, Counting
  <2>5. \A g \in Heaps \ {h} : avail'[g] = avail[g]
    BY <1>0, <2>1 DEF Types
  <2>6. mLock[h] = None /\ mLock' = [mLock EXCEPT ![h] = t]
    BY <2>1
  <2>. QED
    BY <1>0, <1>1, <2>2, <2>3, <2>4, <2>5, <2>6, LockTaken
<1>5. CASE PoolPush(t)
  <2>1. /\ mLock[h] = None /\ mLock' = [mLock EXCEPT ![h] = t]
        /\ avail' = [avail EXCEPT ![h] = avail[h] + 1]
        /\ at' = [at EXCEPT ![t] = "uncount"] /\ it' = it /\ at[t] = "give"
    BY <1>2, <1>5 DEF PoolPush, Move, In
  <2>2. at[t] \notin Locking /\ "uncount" \in Locking
    BY <2>1 DEF Locking, Counting
  <2>3. at'[t] = "uncount" /\ it'[t] = h
    BY <1>0, <1>2, <2>1 DEF Types
  <2>4. \A g \in Heaps \ {h} : avail'[g] = avail[g]
    BY <1>0, <2>1 DEF Types
  <2>5. avail'[h] > 0
    <3>1. avail[h] \in Nat /\ avail'[h] = avail[h] + 1
      BY <1>0, <2>1 DEF Types
    <3>. QED
      BY <3>1
  <2>6. mLock[h] = None /\ mLock' = [mLock EXCEPT ![h] = t]
    BY <2>1
  <2>. QED
    BY <1>0, <1>1, <2>2, <2>3, <2>4, <2>5, <2>6, LockTaken
<1>6. CASE PoolCount(t) \/ PoolUncount(t)
  <2>1. mLock' = [mLock EXCEPT ![h] = None] /\ avail' = avail /\ at[t] \in Locking
    BY <1>2, <1>6 DEF PoolCount, PoolUncount, In, Locking
  <2>2. at'[t] \in {"idle", "recycle", "empty"}
    <3>1. CASE PoolCount(t)
      <4>1. at[t] \in Counting
        BY <3>1 DEF PoolCount, In
      <4>2. PICK to \in {"idle", "recycle"} : at' = [at EXCEPT ![t] = to]
        BY <3>1, <4>1 DEF PoolCount, Counting, PushUnlock, Goto, Move
      <4>. QED
        BY <1>0, <4>2 DEF Types
    <3>2. CASE PoolUncount(t)
      <4>1. PICK to \in {"idle", "empty"} : at' = [at EXCEPT ![t] = to]
        BY <3>2 DEF PoolUncount, Goto, Move
      <4>. QED
        BY <1>0, <4>1 DEF Types
    <3>. QED
      BY <1>6, <3>1, <3>2
  <2>3. at'[t] \notin Locking
    BY <2>2 DEF Locking, Counting
  <2>. QED
    BY <1>0, <1>1, <1>2, <2>1, <2>3, LockGiven
<1>7. CASE PushHeap(t)
  <2>1. PICK n : n = CHOOSE m \in Heaps : m \notin Nodes
    OBVIOUS
  <2>2. /\ Heaps # Nodes /\ list' = Append(list, n) /\ mLock' = mLock /\ at[t] = "grow"
        /\ avail' = [avail EXCEPT ![n] = ObjectCount - 1] /\ at' = [at EXCEPT ![t] = "idle"]
    BY <1>7, <2>1 DEF PushHeap, NewNode, In, PushUnlock, Goto, Move
  <2>3. n \in Heaps /\ n \notin Nodes
    BY <1>0, <2>1, <2>2, NewNodeIs
  <2>4. at[t] \notin Locking /\ at'[t] \notin Locking
    BY <1>0, <2>2 DEF Locking, Counting, Types
  <2>5. \A u \in Threads : at[u] = "uncount" => it[u] # n /\ it[u] \in Heaps
    BY <1>0, <2>3 DEF Located, Types
  <2>6. \A u \in Threads \ {t} : at[u] = "uncount" => avail'[it[u]] = avail[it[u]]
    BY <1>0, <2>2, <2>5 DEF Types
  <2>. QED
    BY <1>1, <2>2, <2>4, <2>6, LockSame
<1>8. CASE \E g \in Heaps : StartFree(t, g)
  <2>1. at[t] = "idle" /\ at'[t] = "give" /\ UNCHANGED <<avail, mLock>>
    BY <1>0, <1>8 DEF StartFree, In, Goto, Move, Types, poolVars
  <2>2. at[t] \notin Locking /\ at'[t] \notin Locking
    BY <2>1 DEF Locking, Counting
  <2>. QED
    BY <1>1, <2>1, <2>2, LockSame
<1>. QED
  BY <1>3, <1>4, <1>5, <1>6, <1>7, <1>8 DEF ThreadStep

LEMMA CollectLocked ==
    ASSUME LockHeld, GCCollect
    PROVE  LockHeld'
<1>1. UNCHANGED <<at, it, mLock>> /\ \A t \in Threads : at[t] = "idle"
  BY DEF GCCollect, Collect
<1>2. \A t \in Threads : at[t] \notin Locking
  BY <1>1 DEF Locking, Counting
<1>. QED
  BY <1>1, <1>2 DEF LockHeld, Locking

\* The list has each of its nodes once.
LEMMA ListInjective ==
    ASSUME Types, ListCounted
    PROVE  \A i, j \in DOMAIN list : list[i] = list[j] => i = j
<1>1. Len(list) \in Nat /\ DOMAIN list = 1..Len(list) /\ list \in [1..Len(list) -> Heaps]
  BY DEF Types
<1>2. list \in Surjection(1..Len(list), Nodes)
  <2>1. list \in [1..Len(list) -> Nodes]
    BY <1>1 DEF Nodes, Range
  <2>. QED
    BY <1>1, <2>1 DEF Surjection, Nodes, Range
<1>3. IsFiniteSet(1..Len(list)) /\ Cardinality(1..Len(list)) = Len(list)
  BY <1>1, FS_Interval
<1>4. list \in Injection(1..Len(list), Nodes)
  BY <1>2, <1>3, FS_Surjection DEF ListCounted
<1>. QED
  BY <1>1, <1>4 DEF Injection, IsInjective

\* The first pool stays the first of the list.
LEMMA StepTop ==
    ASSUME Structure, TopFirst, NEW t \in Threads, ThreadStep(t)
    PROVE  TopFirst'
<1>0. list \in Seq(Heaps) /\ Top \in Nodes
  BY DEF Structure, Types
<1>1. CASE PushHeap(t)
  <2>1. PICK h : list' = Append(list, h)
    BY <1>1 DEF PushHeap, NewNode
  <2>2. Len(list) \in Nat /\ Len(list) # 0
    BY <1>0 DEF Nodes, Range
  <2>. QED
    BY <1>0, <2>1, <2>2 DEF TopFirst
<1>2. CASE ~PushHeap(t)
  <2>1. list' = list
    BY <1>2 DEF ThreadStep, StartAllocate, PoolPop, PoolCount, Advance, PushLock, Scan, ScanEnd,
         MarkRecycle, Recycled, PushHeapFails, StartFree, PoolPush, PoolUncount, CheckEmpty,
         FreedLast, MarkGarbage, Marked, heapVars
  <2>. QED
    BY <2>1 DEF TopFirst
<1>. QED
  BY <1>1, <1>2

LEMMA CollectTop ==
    ASSUME Structure, TopFirst, GCCollect
    PROVE  TopFirst'
<1>. DEFINE Unused == {h \in Nodes \ {Top} : mGarbage[h] /\ mAllocations[h] = 0}
<1>0. Types /\ ListCounted
  BY DEF Structure
<1>1. list' \in Kept(Unused)
  BY DEF GCCollect, Collect
<1>2. Unused \in SUBSET (Nodes \ {Top})
  OBVIOUS
<1>. HIDE DEF Unused
<1>3. Nodes' = Nodes \ Unused /\ list' \in Seq(Heaps)
  BY <1>1, <1>2, CollectedIs
<1>4. Top \in Nodes'
  BY <1>0, <1>2, <1>3 DEF Types
<1>5. PICK j \in DOMAIN list' : list'[j] = Top
  BY <1>4 DEF Nodes, Range
<1>6. DOMAIN list' = 1..Len(list') /\ Len(list') \in Nat
  BY <1>3
<1>7. 1 \in DOMAIN list' /\ list'[1] \in Nodes
  BY <1>3, <1>5, <1>6 DEF Nodes, Range
<1>8. Position(Top) = 1
  <2>1. DOMAIN list = 1..Len(list) /\ Len(list) \in Nat
    BY <1>0 DEF Types
  <2>2. \E i \in DOMAIN list : list[i] = Top
    BY <1>0 DEF Types, Nodes, Range
  <2>3. 1 \in DOMAIN list
    BY <2>1, <2>2
  <2>. QED
    BY <1>0, <2>3, ListInjective DEF Position, TopFirst
<1>9. Position(list'[1]) \in DOMAIN list
  BY <1>7 DEF Position, Nodes, Range
<1>10. j = 1
  <2>1. SUFFICES ASSUME 1 < j PROVE FALSE
    BY <1>5, <1>6
  <2>2. Position(list'[1]) < Position(list'[j])
    BY <1>1, <1>5, <1>7, <2>1 DEF Kept
  <2>3. DOMAIN list = 1..Len(list)
    BY <1>0 DEF Types
  <2>. QED
    BY <1>5, <1>8, <1>9, <2>2, <2>3
<1>. QED
  BY <1>5, <1>10 DEF TopFirst

-----------------------------------------------------------------------------
(***************************************************************************)
(* The invariant                                                           *)
(***************************************************************************)
LEMMA InitInv == Init => PoolInv
<1>. SUFFICES ASSUME Init PROVE PoolInv
  OBVIOUS
<1>. USE DynamicPoolHeapAssumption
<1>1. Top \in Heaps /\ "idle" \in Places
  BY DEF Top, Heaps, Places
<1>2. list = <<Top>> /\ Len(list) = 1 /\ Nodes = {Top} /\ list \in Seq(Heaps)
  BY <1>1 DEF Init, Nodes, Range
<1>3. Cardinality(Nodes) = 1
  BY <1>2, FS_Singleton
<1>4. Types
  <2>1. avail \in [Heaps -> Nat] /\ mAllocations \in [Heaps -> Nat]
    BY DEF Init
  <2>2. held \in [Threads -> [Heaps -> Nat]] /\ mGarbage \in [Heaps -> BOOLEAN] /\
        mLock \in [Heaps -> Threads \cup {None}]
    BY DEF Init
  <2>3. at \in [Threads -> Places] /\ it \in [Threads -> Heaps]
    BY <1>1 DEF Init
  <2>. QED
    BY <1>2, <2>1, <2>2, <2>3 DEF Init, Types
<1>5. ListCounted
  BY <1>2, <1>3 DEF Init, ListCounted
<1>6. Located
  BY <1>2 DEF Init, Located
<1>7. PushOwned
  BY DEF Init, PushOwned, Pushing
<1>8. \A h \in Heaps : Out(h) = {} /\ Tallied(h) = {}
  <2>. TAKE h \in Heaps
  <2>1. \A t \in Threads : held[t][h] = 0 /\ at[t] = "idle"
    BY DEF Init
  <2>2. Out(h) = {}
    BY <2>1 DEF Out, Numbered, OutBy, Counting
  <2>3. Tallied(h) = {}
    BY <2>1 DEF Tallied, Numbered, TalliedBy
  <2>. QED
    BY <2>2, <2>3
<1>9. Accounted
  <2>1. \A h \in Heaps : mAllocations[h] = 0
    BY DEF Init
  <2>2. avail[Top] = ObjectCount /\ ObjectCount \in Nat
    BY <1>1 DEF Init
  <2>3. \A h \in Heaps : IsFiniteSet(Out(h)) /\ IsFiniteSet(Tallied(h)) /\
                         Cardinality(Out(h)) = 0 /\ Cardinality(Tallied(h)) = 0
    BY <1>8, FS_EmptySet
  <2>. QED
    BY <1>2, <2>1, <2>2, <2>3 DEF Accounted
<1>10. Garbage = {} /\ Marking = {} /\ Recycling = {}
  BY <1>1, <1>2 DEF Init, Garbage, Marking, Recycling
<1>11. GarbageCounted
  BY <1>10, FS_EmptySet DEF Init, GarbageCounted
<1>12. Remembered
  BY <1>2 DEF Remembered
<1>13. LockHeld
  <2>1. \A t \in Threads : at[t] = "idle"
    BY DEF Init
  <2>2. \A h \in Heaps : mLock[h] = None
    BY DEF Init
  <2>3. \A t \in Threads : at[t] \notin Locking /\ at[t] # "uncount" /\ t # None
    BY <2>1 DEF Locking, Counting
  <2>. QED
    BY <2>2, <2>3 DEF LockHeld
<1>14. TopFirst
  BY <1>2 DEF TopFirst
<1>. QED
  BY <1>4, <1>5, <1>6, <1>7, <1>9, <1>11, <1>12, <1>13, <1>14 DEF PoolInv, Structure

LEMMA StepStructure ==
    ASSUME Structure, Accounted, NEW t \in Threads, ThreadStep(t)
    PROVE  Structure'
<1>1. CASE StartAllocate(t) \/ Advance(t)
  BY <1>1, FollowKept
<1>2. CASE PoolPop(t)
  BY <1>2, PopKept
<1>3. CASE PoolCount(t) /\ at[t] # "last_count"
  BY <1>3, CountKept
<1>4. CASE (PoolCount(t) /\ at[t] = "last_count") \/ Recycled(t) \/ PushHeapFails(t)
  BY <1>4, LeaveKept
<1>5. CASE PushLock(t) \/ Scan(t)
  BY <1>5, ScanKept
<1>6. CASE ScanEnd(t)
  BY <1>6, ScanEndKept
<1>7. CASE MarkRecycle(t) \/ MarkGarbage(t)
  BY <1>7, MarkKept
<1>8. CASE PushHeap(t)
  BY <1>8, PushHeapKept
<1>9. CASE (\E h \in Heaps : StartFree(t, h)) \/ PoolPush(t)
  BY <1>9, GiveKept
<1>10. CASE PoolUncount(t)
  <2>1. Types /\ it[t] \in Heaps /\ at[t] \in TalliedBy
    BY <1>10 DEF Structure, Types, PoolUncount, In, TalliedBy
  <2>2. mAllocations[it[t]] # 0
    BY <2>1, NoneTallied
  <2>3. mAllocations[it[t]] \in Nat
    BY <2>1 DEF Types
  <2>. QED
    BY <1>10, <2>2, <2>3, UncountKept
<1>11. CASE (CheckEmpty(t) \/ Marked(t)) /\ ~PoolUncount(t)
  BY <1>11, UncountKept
<1>. QED
  BY <1>1, <1>2, <1>3, <1>4, <1>5, <1>6, <1>7, <1>8, <1>9, <1>10, <1>11 DEF ThreadStep

LEMMA StepAccounted ==
    ASSUME Structure, Structure', Accounted, NEW t \in Threads, ThreadStep(t)
    PROVE  Accounted'
<1>1. CASE PushHeap(t)
  BY <1>1, GrowSteps
<1>2. CASE PoolCount(t) \/ (PoolPop(t) /\ avail[it[t]] # 0)
  BY <1>2, TakeSteps
<1>3. CASE (\E h \in Heaps : StartFree(t, h)) \/ PoolPush(t) \/ PoolUncount(t)
  BY <1>3, GiveSteps
<1>4. CASE \/ StartAllocate(t) \/ Advance(t) \/ PushLock(t) \/ Scan(t) \/ ScanEnd(t)
           \/ MarkRecycle(t) \/ Recycled(t) \/ PushHeapFails(t)
           \/ CheckEmpty(t) \/ MarkGarbage(t) \/ Marked(t)
           \/ (PoolPop(t) /\ avail[it[t]] = 0)
  BY <1>4, QuietSteps
<1>. QED
  BY <1>1, <1>2, <1>3, <1>4 DEF ThreadStep

LEMMA NextInv == PoolInv /\ [Next]_vars => PoolInv'
<1>. SUFFICES ASSUME PoolInv, [Next]_vars  PROVE PoolInv'
  OBVIOUS
<1>0. Structure /\ Accounted /\ GarbageCounted /\ Remembered /\ LockHeld /\ TopFirst
  BY DEF PoolInv
<1>1. ASSUME NEW t \in Threads, ThreadStep(t)  PROVE PoolInv'
  <2>1. Structure'
    BY <1>0, <1>1, StepStructure
  <2>2. Accounted'
    BY <1>0, <1>1, <2>1, StepAccounted
  <2>3. GarbageCounted'
    BY <1>0, <1>1, <2>1, StepCounted
  <2>4. Remembered'
    BY <1>0, <1>1, <2>1, StepRemembered
  <2>5. LockHeld'
    BY <1>0, <1>1, <2>1, StepLocked
  <2>6. TopFirst'
    BY <1>0, <1>1, StepTop
  <2>. QED
    BY <2>1, <2>2, <2>3, <2>4, <2>5, <2>6 DEF PoolInv
<1>2. CASE GCCollect
  <2>1. \A h \in Nodes : mAllocations[h] = 0 => \A t \in Threads : held[t][h] = 0
    BY <1>0, NodesFinite, NoneTallied DEF Structure
  <2>2. Structure'
    BY <1>0, <1>2, <2>1, CollectKept
  <2>3. Accounted'
    BY <1>0, <1>2, CollectSteps
  <2>4. GarbageCounted'
    BY <1>0, <1>2, CollectCounted
  <2>5. Remembered'
    BY <1>0, <1>2, CollectRemembered
  <2>6. LockHeld'
    BY <1>0, <1>2, CollectLocked
  <2>7. TopFirst'
    BY <1>0, <1>2, CollectTop
  <2>. QED
    BY <2>2, <2>3, <2>4, <2>5, <2>6, <2>7 DEF PoolInv
<1>3. CASE UNCHANGED vars
  <2>1. UNCHANGED <<list, avail, mAllocations, mLock, mGarbage, mPushHeapLock, mHeapCount,
                    mGarbageHeapCount, at, it, lastNotGarbage, recycleHeap, held>>
    BY <1>3 DEF vars, poolVars, heapVars, pushVars
  <2>2. Nodes' = Nodes
    BY <2>1 DEF Nodes
  <2>3. Structure'
    BY <1>0, <2>1, <2>2 DEF Structure, Types, ListCounted, Located, PushOwned
  <2>4. Accounted'
    BY <1>0, <2>1, <2>2 DEF Accounted, Out, Tallied, Numbered
  <2>5. GarbageCounted'
    BY <1>0, <2>1, <2>2 DEF GarbageCounted, Garbage, Marking, Recycling
  <2>6. Remembered'
    BY <1>0, <2>1, <2>2 DEF Remembered
  <2>7. LockHeld' /\ TopFirst'
    BY <1>0, <2>1 DEF LockHeld, TopFirst
  <2>. QED
    BY <2>3, <2>4, <2>5, <2>6, <2>7 DEF PoolInv
<1>. QED
  BY <1>1, <1>2, <1>3 DEF Next

\* What the properties say follows from the invariant.
LEMMA LiveFollows == PoolInv => NoLiveHeapCollected
<1>. SUFFICES ASSUME PoolInv, NEW t \in Threads, NEW h \in Heaps,
                     held[t][h] > 0 \/ (at[t] # "idle" /\ it[t] = h)
              PROVE  h \in Nodes
  BY DEF NoLiveHeapCollected
<1>. QED
  BY DEF PoolInv, Structure, Located

LEMMA CountFollows == PoolInv => HeapCountExact
<1>. SUFFICES ASSUME PoolInv PROVE HeapCountExact
  OBVIOUS
<1>1. Types /\ ListCounted /\ GarbageCounted
  BY DEF PoolInv, Structure
<1>2. ASSUME Quiet  PROVE mGarbageHeapCount >= Cardinality({h \in Nodes : mGarbage[h]})
  <2>1. Marking = {} /\ Recycling = {}
    BY <1>2 DEF Quiet, Marking, Recycling
  <2>2. Cardinality(Marking) = 0 /\ Cardinality(Recycling) = 0
    BY <2>1, FS_EmptySet
  <2>3. Cardinality(Garbage) \in Nat /\ mGarbageHeapCount \in Int
    BY <1>1, MarksFinite DEF Types
  <2>4. mGarbageHeapCount >= Cardinality(Garbage)
    BY <1>1, <2>2, <2>3 DEF GarbageCounted
  <2>. QED
    BY <2>4 DEF Garbage
<1>. QED
  BY <1>1, <1>2 DEF ListCounted, HeapCountExact

LEMMA EmptyFollows == PoolInv => EmptyHeapsReclaimable
<1>. SUFFICES ASSUME PoolInv, Quiet, NEW h \in Nodes \ {Top},
                     \A t \in Threads : held[t][h] = 0
              PROVE  mGarbage[h] /\ mAllocations[h] = 0
  BY DEF EmptyHeapsReclaimable
<1>1. Types /\ Accounted /\ Remembered
  BY DEF PoolInv, Structure
<1>2. h \in Heaps
  BY <1>1, NodesFinite
<1>3. Tallied(h) = {}
  <2>1. \A t \in Threads : at[t] \notin TalliedBy
    BY DEF Quiet, TalliedBy
  <2>. QED
    BY <2>1 DEF Tallied, Numbered
<1>4. mAllocations[h] = 0
  BY <1>1, <1>2, <1>3, FS_EmptySet DEF Accounted
<1>5. mGarbage[h]
  BY <1>1, <1>4 DEF Remembered, Quiet
<1>. QED
  BY <1>4, <1>5

\* No pool has more objects than it was made with.
LEMMA ObjectsBounded ==
    ASSUME PoolInv, NEW h \in Heaps
    PROVE  /\ avail[h] \in 0..ObjectCount /\ mAllocations[h] \in 0..ObjectCount
           /\ \A t \in Threads : held[t][h] \in 0..ObjectCount
<1>0. Types /\ Located /\ Accounted /\ LockHeld /\ ObjectCount \in Nat
  BY DynamicPoolHeapAssumption DEF PoolInv, Structure
<1>1. avail[h] \in Nat /\ mAllocations[h] \in Nat /\ \A t \in Threads : held[t][h] \in Nat
  <2>1. \A t \in Threads : held[t] \in [Heaps -> Nat]
    BY <1>0 DEF Types
  <2>. QED
    BY <1>0, <2>1 DEF Types
<1>2. /\ IsFiniteSet(Out(h)) /\ Cardinality(Out(h)) \in Nat
      /\ IsFiniteSet(Tallied(h)) /\ mAllocations[h] = Cardinality(Tallied(h))
  BY <1>0, FS_CardinalityType DEF Accounted
<1>3. CASE h \notin Nodes
  <2>1. avail[h] = 0 /\ \A t \in Threads : held[t][h] = 0
    BY <1>0, <1>3 DEF Located
  <2>2. mAllocations[h] = 0
    BY <1>0, <1>2, <1>3, NoneOutside, FS_EmptySet
  <2>. QED
    BY <1>0, <2>1, <2>2
<1>4. CASE h \in Nodes
  <2>1. avail[h] + Cardinality(Out(h)) = ObjectCount
    BY <1>0, <1>4 DEF Accounted
  <2>2. avail[h] \in 0..ObjectCount
    BY <1>0, <1>1, <1>2, <2>1
  <2>3. ASSUME NEW t \in Threads  PROVE held[t][h] \in 0..ObjectCount
    <3>. DEFINE k == held[t][h]
                S == 1..k
                f == [i \in S |-> <<t, i>>]
    <3>1. k \in Nat
      BY <1>1
    <3>2. \A i \in S : i \in Nat /\ i # 0 /\ i <= k
      BY <3>1
    <3>3. \A i \in S : <<t, i>> \in Threads \X Nat /\ <<t, i>>[1] = t /\ <<t, i>>[2] = i
      BY <3>2
    <3>4. \A i \in S : <<t, i>> \in Out(h)
      BY <3>2, <3>3 DEF Out, Numbered
    <3>. HIDE DEF k
    <3>5. IsFiniteSet(S) /\ Cardinality(S) = k
      <4>1. 1 \in Int /\ k \in Int /\ (IF 1 > k THEN 0 ELSE k - 1 + 1) = k
        BY <3>1
      <4>. QED
        BY <4>1, FS_Interval
    <3>. HIDE DEF S
    <3>6. f \in Injection(S, Out(h))
      BY <3>4 DEF Injection, IsInjective
    <3>7. Cardinality(S) <= Cardinality(Out(h))
      BY <1>2, <3>6, FS_Injection
    <3>8. k <= ObjectCount
      BY <1>0, <1>1, <1>2, <2>1, <3>1, <3>5, <3>7
    <3>. QED
      BY <3>1, <3>8 DEF k
  <2>4. mAllocations[h] <= ObjectCount
    <3>1. CASE \E t \in Threads : at[t] = "uncount" /\ it[t] = h
      <4>1. PICK t \in Threads : at[t] = "uncount" /\ it[t] = h
        BY <3>1
      <4>2. avail[h] > 0 /\ mLock[h] = t
        BY <1>0, <4>1 DEF LockHeld, Locking
      <4>3. \A u \in Threads : at[u] = "uncount" /\ it[u] = h => u = t
        BY <1>0, <4>2 DEF LockHeld, Locking
      <4>4. Tallied(h) \subseteq Out(h) \cup {<<t, 0>>}
        BY <4>3 DEF Tallied, Out, Numbered, TalliedBy, OutBy
      <4>5. IsFiniteSet(Out(h) \cup {<<t, 0>>}) /\
            Cardinality(Out(h) \cup {<<t, 0>>}) <= Cardinality(Out(h)) + 1
        <5>1. Cardinality(Out(h)) <= Cardinality(Out(h)) + 1 /\
              Cardinality(Out(h)) + 1 <= Cardinality(Out(h)) + 1
          BY <1>2
        <5>. QED
          BY <1>2, <5>1, FS_AddElement
      <4>6. Cardinality(Tallied(h)) <= Cardinality(Out(h) \cup {<<t, 0>>}) /\
            Cardinality(Out(h) \cup {<<t, 0>>}) \in Nat
        BY <4>4, <4>5, FS_Subset, FS_CardinalityType
      <4>. QED
        BY <1>0, <1>1, <1>2, <2>1, <4>2, <4>5, <4>6
    <3>2. CASE ~\E t \in Threads : at[t] = "uncount" /\ it[t] = h
      <4>1. Tallied(h) \subseteq Out(h)
        BY <3>2 DEF Tallied, Out, Numbered, TalliedBy, OutBy
      <4>2. Cardinality(Tallied(h)) <= Cardinality(Out(h))
        BY <1>2, <4>1, FS_Subset
      <4>. QED
        BY <1>0, <1>1, <1>2, <2>1, <4>2
    <3>. QED
      BY <3>1, <3>2
  <2>. QED
    BY <1>0, <1>1, <2>2, <2>3, <2>4
<1>. QED
  BY <1>3, <1>4

LEMMA TypeFollows == PoolInv => TypeOK
<1>. SUFFICES ASSUME PoolInv PROVE TypeOK
  OBVIOUS
<1>1. Types /\ ListCounted /\ TopFirst
  BY DEF PoolInv, Structure
<1>2. IsInjective(list)
  BY <1>1, ListInjective DEF IsInjective
<1>3. avail \in [Heaps -> 0..ObjectCount] /\ mAllocations \in [Heaps -> 0..ObjectCount]
  BY <1>1, ObjectsBounded DEF Types
<1>4. held \in [Threads -> [Heaps -> 0..ObjectCount]]
  <2>1. \A t \in Threads : held[t] \in [Heaps -> Nat]
    BY <1>1 DEF Types
  <2>2. \A t \in Threads : held[t] \in [Heaps -> 0..ObjectCount]
    BY <2>1, ObjectsBounded
  <2>3. held = [t \in Threads |-> held[t]]
    BY <1>1 DEF Types
  <2>. QED
    BY <2>2, <2>3
<1>. QED
  BY <1>1, <1>2, <1>3, <1>4 DEF Types, TopFirst, TypeOK

\* PoolInv holds of every reachable state.
THEOREM Invariant == Spec => []PoolInv
BY InitInv, NextInv, PTL DEF Spec

\* Every variable has its type, and no pool, counter or thread has more objects
\* than the pool was made with.
THEOREM TypeCorrect == Spec => []TypeOK
BY Invariant, TypeFollows, PTL

\* GCCollect frees no pool that has an object out or a thread inside, in whatever
\* order the marks of a last Free and of a recycling PushHeap come.
THEOREM LiveHeapsStay == Spec => []NoLiveHeapCollected
BY Invariant, LiveFollows, PTL

\* mHeapCount is the length of the list and stays within mMaxHeaps, whoever pushes;
\* between calls mGarbageHeapCount is no less than the number of garbage pools.
THEOREM CountsExact == Spec => []HeapCountExact
BY Invariant, CountFollows, PTL

\* Between calls every pool but the first without objects out is marked for
\* GCCollect and has the count it is collected with.
THEOREM EmptyHeapsMarked == Spec => []EmptyHeapsReclaimable
BY Invariant, EmptyFollows, PTL

=============================================================================
