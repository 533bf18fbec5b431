--------------------------- MODULE DynamicPoolHeap ---------------------------
(***************************************************************************)
(* DynamicPoolHeap over PoolHeap (Core/Memory): a list of fixed pools that *)
(* grows when all are full.  Allocate and Free share mGCLock as readers,   *)
(* GCCollect takes it as the writer, so that it is one step while nobody   *)
(* is inside (what ReadersWriter promises).  The flags and counters are    *)
(* read and written without a lock, each access a step of its own.         *)
(* A failed assertion stops the process.                                   *)
(*                                                                         *)
(* The free list of a pool is the number of objects on it.                 *)
(***************************************************************************)
EXTENDS Integers, Sequences, FiniteSets, Functions

CONSTANTS
    Threads,
    MaxHeaps,       \* mMaxHeaps
    ObjectCount,    \* PoolHeap::mSize
    None

ASSUME DynamicPoolHeapAssumption ==
    /\ MaxHeaps \in Nat \ {0} /\ ObjectCount \in Nat \ {0}
    /\ IsFiniteSet(Threads)
    /\ None \notin Threads /\ None \notin Nat

Top == 0
Heaps == 0..MaxHeaps        \* the nodes there is memory for

VARIABLES
    list,               \* the nodes from mTop on
    avail,              \* how many objects the list from PoolHeap::mTop holds
    mAllocations,       \* PoolHeap::mAllocations
    mLock,              \* PoolHeap::mLock
    mGarbage,           \* Node::mGarbage
    mPushHeapLock, mHeapCount, mGarbageHeapCount,
    at, it,             \* where a thread is, and the node it is at
    lastNotGarbage, recycleHeap,    \* locals of the thread in PushHeap
    held                \* the objects a thread was given and has not freed

poolVars == <<avail, mAllocations, mLock>>
heapVars == <<list, mGarbage, mPushHeapLock, mHeapCount, mGarbageHeapCount>>
pushVars == <<lastNotGarbage, recycleHeap>>
vars == <<poolVars, heapVars, pushVars, at, it, held>>

\* The state Initialize leaves.
Init ==
    /\ list = <<Top>>
    /\ avail = [h \in Heaps |-> IF h = Top THEN ObjectCount ELSE 0]
    /\ mAllocations = [h \in Heaps |-> 0]
    /\ mLock = [h \in Heaps |-> None]
    /\ mGarbage = [h \in Heaps |-> FALSE]
    /\ mPushHeapLock = None
    /\ mHeapCount = 1 /\ mGarbageHeapCount = 0
    /\ at = [t \in Threads |-> "idle"]
    /\ it = [t \in Threads |-> Top]
    /\ lastNotGarbage = None /\ recycleHeap = None
    /\ held = [t \in Threads |-> [h \in Heaps |-> 0]]

Nodes == Range(list)
Position(h) == CHOOSE j \in DOMAIN list : list[j] = h
GetNext(h) == IF Position(h) = Len(list) THEN None ELSE list[Position(h) + 1]

\* A thread is at one of these places and no assertion has failed.
In(t, places) ==
    /\ at[t] \in places
    /\ \A s \in Threads : at[s] \notin {"no_object", "too_much_garbage"}

Move(t, to) == at' = [at EXCEPT ![t] = to]
Goto(t, to, h) == Move(t, to) /\ it' = [it EXCEPT ![t] = h]

\* The end of PushHeap.
PushUnlock(t) ==
    /\ mPushHeapLock' = None
    /\ lastNotGarbage' = None /\ recycleHeap' = None
    /\ Goto(t, "idle", Top)

-----------------------------------------------------------------------------
(***************************************************************************)
(* PoolHeap::Allocate, at the node the thread is at.  "pop" is Allocate    *)
(* walking the list; the others are the two attempts of PushHeap.          *)
(***************************************************************************)
Popping == {"pop", "last_pop", "recycle_pop"}
Counting == {"count", "last_count", "recycle_count"}

\* Where a thread goes whose pool was empty ...
AfterFailure(t) ==
    CASE at[t] = "pop" -> Goto(t, "next", it[t])
      [] at[t] = "last_pop" /\ recycleHeap # None -> Goto(t, "recycle_pop", recycleHeap)
      [] at[t] = "last_pop" /\ recycleHeap = None -> Goto(t, "grow", it[t])
      [] at[t] = "recycle_pop" -> Goto(t, "no_object", it[t])

\* ... and one that took an object.
AfterPop(place) == CASE place = "pop" -> "count"
                     [] place = "last_pop" -> "last_count"
                     [] place = "recycle_pop" -> "recycle_count"

PoolPop(t) ==
    LET h == it[t] IN
    /\ In(t, Popping) /\ mLock[h] = None
    /\ IF avail[h] = 0
         THEN AfterFailure(t) /\ UNCHANGED poolVars
         ELSE /\ avail' = [avail EXCEPT ![h] = @ - 1]
              /\ mLock' = [mLock EXCEPT ![h] = t]
              /\ Move(t, AfterPop(at[t]))
              /\ UNCHANGED <<it, mAllocations>>
    /\ UNCHANGED <<heapVars, pushVars, held>>

PoolCount(t) ==
    LET h == it[t] IN
    /\ In(t, Counting)
    /\ mAllocations' = [mAllocations EXCEPT ![h] = @ + 1]
    /\ mLock' = [mLock EXCEPT ![h] = None]
    /\ held' = [held EXCEPT ![t][h] = @ + 1]
    /\ CASE at[t] = "count" -> Goto(t, "idle", Top) /\ UNCHANGED <<mPushHeapLock, pushVars>>
         [] at[t] = "last_count" -> PushUnlock(t)
         [] at[t] = "recycle_count" -> Goto(t, "recycle", h) /\ UNCHANGED <<mPushHeapLock, pushVars>>
    /\ UNCHANGED <<list, avail, mGarbage, mHeapCount, mGarbageHeapCount>>

(***************************************************************************)
(* Allocate                                                                *)
(***************************************************************************)
StartAllocate(t) ==
    /\ In(t, {"idle"})
    /\ Goto(t, "pop", Top)
    /\ UNCHANGED <<poolVars, heapVars, pushVars, held>>

Advance(t) ==
    LET next == GetNext(it[t]) IN
    /\ In(t, {"next"})
    /\ CASE next = None -> Goto(t, "push", it[t])
         [] next # None -> Goto(t, IF mGarbage[next] THEN "next" ELSE "pop", next)
    /\ UNCHANGED <<poolVars, heapVars, pushVars, held>>

(***************************************************************************)
(* PushHeap, one thread at a time.  A node that is garbage stays garbage,  *)
(* and the list its length, until the thread that holds the lock acts.     *)
(***************************************************************************)
PushLock(t) ==
    /\ In(t, {"push"}) /\ mPushHeapLock = None
    /\ mPushHeapLock' = t
    /\ Goto(t, "scan", Top)
    /\ UNCHANGED <<poolVars, list, mGarbage, mHeapCount, mGarbageHeapCount, pushVars, held>>

\* One node of the list: the last that is not garbage, and the first garbage one
\* with room, are remembered.
Scan(t) ==
    LET next == GetNext(it[t]) IN
    /\ In(t, {"scan"}) /\ next # None
    /\ lastNotGarbage' = IF mGarbage[next] THEN lastNotGarbage ELSE next
    /\ recycleHeap' = IF mGarbage[next] /\ recycleHeap = None /\ avail[next] > 0
                         THEN next ELSE recycleHeap
    /\ Goto(t, "scan", next)
    /\ UNCHANGED <<poolVars, heapVars, held>>

ScanEnd(t) ==
    /\ In(t, {"scan"}) /\ GetNext(it[t]) = None
    /\ CASE lastNotGarbage # None -> Goto(t, "last_pop", lastNotGarbage)
         [] lastNotGarbage = None /\ recycleHeap # None ->
                Goto(t, "recycle_pop", recycleHeap)
         [] OTHER -> Goto(t, "grow", it[t])
    /\ UNCHANGED <<poolVars, heapVars, pushVars, held>>

\* MarkRecycle: the compare-exchange is repeated until it finds the flag clear.
MarkRecycle(t) ==
    /\ In(t, {"recycle"})
    /\ mGarbage' = [mGarbage EXCEPT ![it[t]] = FALSE]
    /\ Move(t, IF mGarbage[it[t]] THEN "recycle" ELSE "recycled")
    /\ UNCHANGED <<poolVars, list, mPushHeapLock, mHeapCount, mGarbageHeapCount, pushVars, it, held>>

Recycled(t) ==
    /\ In(t, {"recycled"})
    /\ mGarbageHeapCount' = mGarbageHeapCount - 1
    /\ PushUnlock(t)
    /\ UNCHANGED <<poolVars, list, mGarbage, mHeapCount, held>>

\* A new node: its first object is taken before the others can see it.
NewNode(t) ==
    LET h == CHOOSE n \in Heaps : n \notin Nodes IN
    /\ In(t, {"grow"}) /\ Heaps # Nodes
    /\ list' = Append(list, h)
    /\ avail' = [avail EXCEPT ![h] = ObjectCount - 1]
    /\ mAllocations' = [mAllocations EXCEPT ![h] = 1]
    /\ held' = [held EXCEPT ![t][h] = 1]
    /\ mHeapCount' = mHeapCount + 1
    /\ PushUnlock(t)
    /\ UNCHANGED <<mLock, mGarbage, mGarbageHeapCount>>

\* Fault: mMaxHeaps is compared with <= .
PushHeapOneMore(t) == mHeapCount <= MaxHeaps /\ NewNode(t)

PushHeap(t) == mHeapCount < MaxHeaps /\ NewNode(t)

\* Allocate returns null: at mMaxHeaps, or when the system has no memory left.
PushHeapFails(t) ==
    /\ In(t, {"grow"})
    /\ PushUnlock(t)
    /\ UNCHANGED <<poolVars, list, mGarbage, mHeapCount, mGarbageHeapCount, held>>

(***************************************************************************)
(* Free: PoolHeap::Free of the owner, then the garbage mark                *)
(***************************************************************************)
StartFree(t, h) ==
    /\ In(t, {"idle"}) /\ held[t][h] > 0
    /\ held' = [held EXCEPT ![t][h] = @ - 1]
    /\ Goto(t, "give", h)
    /\ UNCHANGED <<poolVars, heapVars, pushVars>>

PoolPush(t) ==
    LET h == it[t] IN
    /\ In(t, {"give"}) /\ mLock[h] = None
    /\ avail' = [avail EXCEPT ![h] = @ + 1]
    /\ mLock' = [mLock EXCEPT ![h] = t]
    /\ Move(t, "uncount")
    /\ UNCHANGED <<mAllocations, heapVars, pushVars, it, held>>

PoolUncount(t) ==
    LET h == it[t] IN
    /\ In(t, {"uncount"})
    /\ mAllocations' = [mAllocations EXCEPT ![h] = @ - 1]
    /\ mLock' = [mLock EXCEPT ![h] = None]
    /\ Goto(t, IF h = Top THEN "idle" ELSE "empty", h)
    /\ UNCHANGED <<avail, heapVars, pushVars, held>>

FreedLast(t, last) ==
    /\ In(t, {"empty"})
    /\ IF last THEN Goto(t, "mark", it[t]) ELSE Goto(t, "idle", Top)
    /\ UNCHANGED <<poolVars, heapVars, pushVars, held>>

\* Fault: the count before the decrement is compared.
CheckEmptyBefore(t) == FreedLast(t, mAllocations[it[t]] + 1 = 0)

CheckEmpty(t) == FreedLast(t, mAllocations[it[t]] = 0)

MarkGarbage(t) ==
    /\ In(t, {"mark"})
    /\ mGarbage' = [mGarbage EXCEPT ![it[t]] = TRUE]
    /\ Goto(t, IF mGarbage[it[t]] THEN "idle" ELSE "marked", Top)
    /\ UNCHANGED <<poolVars, list, mPushHeapLock, mHeapCount, mGarbageHeapCount, pushVars, held>>

\* The assertion compares the count, signed, with a SizeT: no negative one passes.
Marked(t) ==
    /\ In(t, {"marked"})
    /\ mGarbageHeapCount' = mGarbageHeapCount + 1
    /\ Goto(t, IF mGarbageHeapCount' \in 0..MaxHeaps - 1 THEN "idle" ELSE "too_much_garbage", Top)
    /\ UNCHANGED <<poolVars, list, mGarbage, mPushHeapLock, mHeapCount, pushVars, held>>

(***************************************************************************)
(* GCCollect: every garbage node without objects leaves the list.          *)
(***************************************************************************)
\* The list without the rest: the same nodes in the same order.
Kept(Rest) ==
    {s \in [1..Cardinality(Nodes \ Rest) -> Nodes \ Rest] :
        /\ Range(s) = Nodes \ Rest
        /\ \A i, j \in DOMAIN s : i < j => Position(s[i]) < Position(s[j])}

Collect(Unused) ==
    /\ \A t \in Threads : at[t] = "idle"
    /\ Unused # {}
    /\ list' \in Kept(Unused)
    /\ avail' = [h \in Heaps |-> IF h \in Unused THEN 0 ELSE avail[h]]
    /\ mAllocations' = [h \in Heaps |-> IF h \in Unused THEN 0 ELSE mAllocations[h]]
    /\ mGarbage' = [h \in Heaps |-> h \notin Unused /\ mGarbage[h]]
    /\ mHeapCount' = mHeapCount - Cardinality(Unused)
    /\ mGarbageHeapCount' = mGarbageHeapCount - Cardinality(Unused)
    /\ UNCHANGED <<mLock, mPushHeapLock, pushVars, at, it, held>>

\* Fault: the allocations of a garbage heap are not looked at.
GCCollectGarbage == Collect({h \in Nodes \ {Top} : mGarbage[h]})

GCCollect == Collect({h \in Nodes \ {Top} : mGarbage[h] /\ mAllocations[h] = 0})

-----------------------------------------------------------------------------
ThreadStep(t) ==
    \/ StartAllocate(t) \/ PoolPop(t) \/ PoolCount(t) \/ Advance(t)
    \/ PushLock(t) \/ Scan(t) \/ ScanEnd(t) \/ MarkRecycle(t) \/ Recycled(t)
    \/ PushHeap(t) \/ PushHeapFails(t)
    \/ \E h \in Heaps : StartFree(t, h)
    \/ PoolPush(t) \/ PoolUncount(t) \/ CheckEmpty(t) \/ MarkGarbage(t) \/ Marked(t)

Next == (\E t \in Threads : ThreadStep(t)) \/ GCCollect

Spec == Init /\ [][Next]_vars

-----------------------------------------------------------------------------
Quiet == \A t \in Threads : at[t] = "idle"

Places ==
    {"idle", "next", "push", "scan", "grow", "recycle", "recycled", "no_object",
     "give", "uncount", "empty", "mark", "marked", "too_much_garbage"}
    \cup Popping \cup Counting

\* Every variable has its type; no pool has more objects than it was made with.
TypeOK ==
    /\ list \in Seq(Heaps) /\ IsInjective(list) /\ list[1] = Top
    /\ avail \in [Heaps -> 0..ObjectCount]
    /\ mAllocations \in [Heaps -> 0..ObjectCount]
    /\ mLock \in [Heaps -> Threads \cup {None}]
    /\ mGarbage \in [Heaps -> BOOLEAN]
    /\ mPushHeapLock \in Threads \cup {None}
    /\ mHeapCount \in Nat /\ mGarbageHeapCount \in Int
    /\ at \in [Threads -> Places] /\ it \in [Threads -> Heaps]
    /\ lastNotGarbage \in Heaps \cup {None} /\ recycleHeap \in Heaps \cup {None}
    /\ held \in [Threads -> [Heaps -> 0..ObjectCount]]

\* GCCollect frees no pool that still has an object out or a thread inside,
\* although a pool may be marked as garbage in the moment an object is taken
\* from it.
NoLiveHeapCollected ==
    \A t \in Threads, h \in Heaps :
        held[t][h] > 0 \/ (at[t] # "idle" /\ it[t] = h) => h \in Nodes

\* mHeapCount follows the list and never passes mMaxHeaps, whoever pushes.  When
\* nobody is inside, mGarbageHeapCount counts at least the garbage nodes; it may
\* count more: a mark between the two compare-exchanges of MarkRecycle is counted
\* and not uncounted.
HeapCountExact ==
    /\ mHeapCount = Len(list) /\ mHeapCount <= MaxHeaps
    /\ Quiet => mGarbageHeapCount >= Cardinality({h \in Nodes : mGarbage[h]})

\* Nothing leaks: once nobody is inside, every pool but the first that has no
\* object out is marked for GCCollect, however marking and recycling raced.
EmptyHeapsReclaimable ==
    Quiet => \A h \in Nodes \ {Top} :
        (\A t \in Threads : held[t][h] = 0) => mGarbage[h] /\ mAllocations[h] = 0

\* The assertion of PushHeap: the heap chosen for recycling gives an object.
RecycledHeapServes == \A t \in Threads : at[t] # "no_object"

=============================================================================
