------------------------- MODULE AtomicSmartPointer -------------------------
(***************************************************************************)
(* TAtomicStrongPointer and TAtomicWeakPointer of                          *)
(* Core/Memory/AtomicSmartPointer.h: one object, its reference-count node  *)
(* and the threads that copy, upgrade and drop pointers to it.  A step is  *)
(* one access to the node.  A thread owns at most one strong and one weak  *)
(* pointer; a copy is made from a pointer its thread owns and may then be  *)
(* moved into another thread, which touches no count of this node.         *)
(*                                                                         *)
(* What the program does once the object is destroyed twice or the node    *)
(* freed twice is undefined; the model stops there (Defined).              *)
(***************************************************************************)
EXTENDS Integers, FiniteSets

CONSTANTS
    Threads,    \* the threads that share the object
    SelfWeak    \* the object is a TAtomicWeakPointerConvertible

ASSUME ThreadsAssumption == IsFiniteSet(Threads)
ASSUME SelfWeakAssumption == SelfWeak \in BOOLEAN

VARIABLES
    mStrong, mWeak,  \* the counts of the node
    mPointer,        \* "the node still points at the object"
    strong, weak,    \* the threads that own a strong, a weak pointer
    pc,              \* where a thread is inside a drop
    destroyed,       \* how often the destructor of the object ran
    freed,           \* how often ReleaseNode freed the node
    raced,           \* a weak pointer was dropped beside the last strong one
    resurrected      \* a weak pointer was upgraded while the object was dying

vars == <<mStrong, mWeak, mPointer, strong, weak, pc, destroyed, freed,
          raced, resurrected>>

SelfRefs == IF SelfWeak THEN 1 ELSE 0

\* Inside the drop of the last strong pointer, in program order.
LastDrop == {"guard", "load", "clear", "destroy", "unguard", "check"}
Places == LastDrop \union {"idle", "weakcheck"}

At(t, place) == pc[t] = place
Goto(t, place) == pc' = [pc EXCEPT ![t] = place]

TypeOK ==
    /\ mStrong \in Int /\ mWeak \in Int
    /\ mPointer \in BOOLEAN
    /\ strong \in SUBSET Threads /\ weak \in SUBSET Threads
    /\ pc \in [Threads -> Places]
    /\ destroyed \in Nat /\ freed \in Nat
    /\ raced \in BOOLEAN /\ resurrected \in BOOLEAN

\* The thread that made the object owns the only strong pointer to it.
Init ==
    \E maker \in Threads :
        /\ strong = {maker} /\ weak = {}
        /\ mStrong = 1 /\ mWeak = SelfRefs /\ mPointer = TRUE
        /\ pc = [t \in Threads |-> "idle"]
        /\ destroyed = 0 /\ freed = 0
        /\ raced = FALSE /\ resurrected = FALSE

-----------------------------------------------------------------------------
(* Copies.                                                                 *)

\* Fault: the copy shares the node without counting.
CopyStrongUncounted(t, u) ==
    /\ At(t, "idle") /\ t \in strong /\ At(u, "idle") /\ u \notin strong
    /\ strong' = strong \union {u}
    /\ UNCHANGED <<mStrong, mWeak, mPointer, weak, pc, destroyed, freed, raced, resurrected>>

\* The copy constructor; the copy ends up with thread u.
CopyStrong(t, u) ==
    /\ At(t, "idle") /\ t \in strong /\ At(u, "idle") /\ u \notin strong
    /\ mStrong' = mStrong + 1
    /\ strong' = strong \union {u}
    /\ UNCHANGED <<mWeak, mPointer, weak, pc, destroyed, freed, raced, resurrected>>

\* A weak pointer from a strong one, from a weak one, or from the object's own.
CopyWeak(t, u) ==
    /\ At(t, "idle") /\ t \in strong \union weak /\ At(u, "idle") /\ u \notin weak
    /\ mWeak' = mWeak + 1
    /\ weak' = weak \union {u}
    /\ UNCHANGED <<mStrong, mPointer, strong, pc, destroyed, freed, raced, resurrected>>

\* A strong pointer from a weak one: the count is raised whatever it is.
Upgrade(t) ==
    /\ At(t, "idle") /\ t \in weak /\ t \notin strong
    /\ mStrong' = mStrong + 1
    /\ strong' = strong \union {t}
    /\ resurrected' = (resurrected \/ (mStrong = 0 /\ mPointer))
    /\ UNCHANGED <<mWeak, mPointer, weak, pc, destroyed, freed, raced>>

-----------------------------------------------------------------------------
(* Drop of a strong pointer.                                               *)

DropStrong(t) ==
    /\ At(t, "idle") /\ t \in strong
    /\ strong' = strong \ {t}
    /\ mStrong' = mStrong - 1
    /\ IF mStrong = 1
       THEN /\ Goto(t, "guard")
            /\ raced' = (raced \/ \E u \in Threads : At(u, "weakcheck"))
       ELSE UNCHANGED <<pc, raced>>
    /\ UNCHANGED <<mWeak, mPointer, weak, destroyed, freed, resurrected>>

\* Fault: the node is not kept alive while the destructor runs.
GuardNodeNever(t) ==
    /\ At(t, "guard") /\ Goto(t, "load")
    /\ UNCHANGED <<mStrong, mWeak, mPointer, strong, weak, destroyed, freed,
                   raced, resurrected>>

\* The object's own weak pointer must not be the last one while it is destroyed.
GuardNode(t) ==
    /\ At(t, "guard") /\ Goto(t, "load")
    /\ mWeak' = mWeak + 1
    /\ UNCHANGED <<mStrong, mPointer, strong, weak, destroyed, freed, raced, resurrected>>

\* Fault: the pointer is not tested before the object is destroyed.
LoadPointerUntested(t) ==
    /\ At(t, "load") /\ Goto(t, "clear")
    /\ UNCHANGED <<mStrong, mWeak, mPointer, strong, weak, destroyed, freed,
                   raced, resurrected>>

\* DestroyPointer does nothing if the object is gone already.
LoadPointer(t) ==
    /\ At(t, "load")
    /\ Goto(t, IF mPointer THEN "clear" ELSE "unguard")
    /\ UNCHANGED <<mStrong, mWeak, mPointer, strong, weak, destroyed, freed,
                   raced, resurrected>>

ClearPointer(t) ==
    /\ At(t, "clear") /\ Goto(t, "destroy")
    /\ mPointer' = FALSE
    /\ UNCHANGED <<mStrong, mWeak, strong, weak, destroyed, freed, raced, resurrected>>

\* The destructor, which drops the weak pointer the object has to itself.
DestroyObject(t) ==
    /\ At(t, "destroy") /\ Goto(t, "unguard")
    /\ destroyed' = destroyed + 1
    /\ mWeak' = mWeak - SelfRefs
    /\ freed' = freed + (IF SelfWeak /\ mWeak = 1 /\ mStrong = 0 THEN 1 ELSE 0)
    /\ UNCHANGED <<mStrong, mPointer, strong, weak, raced, resurrected>>

UnguardNode(t) ==
    /\ At(t, "unguard") /\ Goto(t, "check")
    /\ mWeak' = mWeak - 1
    /\ UNCHANGED <<mStrong, mPointer, strong, weak, destroyed, freed, raced, resurrected>>

\* Both counts are read again; ReleaseNode follows at once, and nothing can
\* raise them in between since no pointer is left.
CheckNode(t) ==
    /\ At(t, "check") /\ Goto(t, "idle")
    /\ freed' = freed + (IF mWeak = 0 /\ mStrong = 0 THEN 1 ELSE 0)
    /\ UNCHANGED <<mStrong, mWeak, mPointer, strong, weak, destroyed, raced, resurrected>>

-----------------------------------------------------------------------------
(* Drop of a weak pointer.                                                 *)

DropWeak(t) ==
    /\ At(t, "idle") /\ t \in weak
    /\ weak' = weak \ {t}
    /\ mWeak' = mWeak - 1
    /\ IF mWeak = 1 THEN Goto(t, "weakcheck") ELSE UNCHANGED pc
    /\ raced' = (raced \/ \E u \in Threads : pc[u] \in LastDrop)
    /\ UNCHANGED <<mStrong, mPointer, strong, destroyed, freed, resurrected>>

\* Fault: the last weak pointer leaves the node to the strong ones.
CheckStrongNever(t) ==
    /\ At(t, "weakcheck") /\ Goto(t, "idle")
    /\ UNCHANGED <<mStrong, mWeak, mPointer, strong, weak, destroyed, freed,
                   raced, resurrected>>

CheckStrong(t) ==
    /\ At(t, "weakcheck") /\ Goto(t, "idle")
    /\ freed' = freed + (IF mStrong = 0 THEN 1 ELSE 0)
    /\ UNCHANGED <<mStrong, mWeak, mPointer, strong, weak, destroyed, raced, resurrected>>

\* The object destroyed twice or the node freed twice ends what is defined.
Defined == destroyed <= 1 /\ freed <= 1

Next ==
    /\ Defined
    /\ \E t \in Threads :
        \/ \E u \in Threads : CopyStrong(t, u) \/ CopyWeak(t, u)
        \/ Upgrade(t)
        \/ DropStrong(t) \/ GuardNode(t) \/ LoadPointer(t) \/ ClearPointer(t)
        \/ DestroyObject(t) \/ UnguardNode(t) \/ CheckNode(t)
        \/ DropWeak(t) \/ CheckStrong(t)

Spec == Init /\ [][Next]_vars

-----------------------------------------------------------------------------
(* Properties.                                                             *)

\* Whoever owns a strong pointer finds the object alive behind it, or finds
\* the pointer null; never an object that is being destroyed.
StrongMeansAlive ==
    strong # {} /\ mPointer /\ ~resurrected =>
        /\ destroyed = 0
        /\ \A t \in Threads : pc[t] \notin LastDrop

\* The destructor runs at most once, whatever copies and drops interleave,
\* unless a weak pointer is upgraded while the last drop is under way.
DestroyedOnce == destroyed <= 1 \/ resurrected

\* The node is freed at most once, and never under a pointer that counts in
\* it, unless a weak pointer is dropped beside the last strong one.
NodeFreedOnce ==
    raced \/ resurrected \/
        /\ freed <= 1
        /\ freed = 1 => /\ strong = {} /\ weak = {}
                        /\ \A t \in Threads : pc[t] \notin LastDrop

\* Nothing leaks, not even in a race of the last weak and the last strong drop:
\* once nobody has a pointer and nobody is dropping one, the object was
\* destroyed and the node freed, unless a weak pointer was upgraded while the
\* last strong one was being dropped.
NothingLeaks ==
    strong = {} /\ weak = {} /\ (\A t \in Threads : At(t, "idle")) =>
        resurrected \/ (destroyed >= 1 /\ freed >= 1)
=============================================================================
