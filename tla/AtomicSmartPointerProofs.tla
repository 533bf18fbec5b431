---------------------- MODULE AtomicSmartPointerProofs ----------------------
(***************************************************************************)
(* AtomicSmartPointer is type correct, the strong count is exact, an owner *)
(* of a strong pointer never sees the object die, and the object dies at   *)
(* most once: for every finite set of threads, with and without a weak     *)
(* pointer of the object's own.  The argument (LastDropAlone): while the   *)
(* node points at the object, a thread inside a last drop is alone there   *)
(* and nobody owns a strong pointer; once the node is null only the thread *)
(* that cleared it reaches the destructor.                                 *)
(***************************************************************************)
EXTENDS AtomicSmartPointer, FiniteSetTheorems, TLAPS

\* mStrong counts the owners exactly.
StrongCounted == mStrong = Cardinality(strong)

\* The drop of the last strong pointer has the object to itself.
LastDropAlone ==
    ~resurrected =>
        /\ mPointer =>
            /\ destroyed = 0
            /\ \A t \in Threads : pc[t] \notin {"destroy", "unguard", "check"}
            /\ \A t \in Threads : pc[t] \in LastDrop =>
                  strong = {} /\ \A u \in Threads : pc[u] \in LastDrop => u = t
        /\ ~mPointer =>
            /\ destroyed <= 1
            /\ \A t \in Threads : pc[t] # "clear"
            /\ \A t \in Threads : pc[t] = "destroy" =>
                  destroyed = 0 /\ \A u \in Threads : pc[u] = "destroy" => u = t

IInv == TypeOK /\ StrongCounted /\ LastDropAlone

\* Inside the bracket that keeps the node alive around the destructor.
Guarding == {t \in Threads : pc[t] \in {"load", "clear", "destroy", "unguard"}}

\* mWeak counts the weak pointers, the brackets and the object's own pointer.
WeakCounted ==
    ~resurrected =>
        mWeak = Cardinality(weak) + Cardinality(Guarding)
                + (IF SelfWeak /\ destroyed = 0 THEN 1 ELSE 0)

\* While no last weak drop meets a last strong drop, whoever is about to free
\* the node is the last one in it: a second thread inside a last drop came from
\* a weak pointer that is still there, and a thread that has dropped the last
\* weak pointer shares the node with owners of strong ones only.
FreesAlone ==
    ~raced /\ ~resurrected =>
        /\ \/ freed = 0
           \/ freed = 1 /\ strong = {} /\ weak = {} /\ \A t \in Threads : pc[t] = "idle"
        /\ \A t \in Threads : pc[t] \in LastDrop =>
              \/ weak # {}
              \/ strong = {} /\ \A u \in Threads : pc[u] \in LastDrop => u = t
        /\ \A t \in Threads : pc[t] = "weakcheck" =>
              /\ \A u \in Threads : pc[u] \notin LastDrop
              /\ strong = {} => weak = {} /\ \A u \in Threads : pc[u] = "weakcheck" => u = t

FInv == IInv /\ WeakCounted /\ FreesAlone

\* A set of threads is finite: adding and removing one moves the count by one.
LEMMA OwnersCounted ==
    ASSUME NEW S \in SUBSET Threads
    PROVE  /\ IsFiniteSet(S) /\ Cardinality(S) \in Nat
           /\ (Cardinality(S) = 0) <=> (S = {})
           /\ \A t \in Threads \ S : Cardinality(S \union {t}) = Cardinality(S) + 1
           /\ \A t \in S : Cardinality(S \ {t}) = Cardinality(S) - 1
<1>1. IsFiniteSet(S)
  BY ThreadsAssumption, FS_Subset
<1>2. Cardinality(S) \in Nat
  BY <1>1, FS_CardinalityType
<1>3. (Cardinality(S) = 0) <=> (S = {})
  BY <1>1, FS_EmptySet
<1>4. \A t \in Threads \ S : Cardinality(S \union {t}) = Cardinality(S) + 1
  BY <1>1, FS_AddElement
<1>5. \A t \in S : Cardinality(S \ {t}) = Cardinality(S) - 1
  BY <1>1, FS_RemoveElement
<1> QED
  BY <1>1, <1>2, <1>3, <1>4, <1>5

LEMMA InitIInv == Init => IInv
<1> SUFFICES ASSUME Init PROVE IInv
  OBVIOUS
<1>1. PICK maker \in Threads : strong = {maker}
  BY DEF Init
<1>2. TypeOK
  <2>1. SelfRefs \in Int
    BY DEF SelfRefs
  <2>2. pc \in [Threads -> Places]
    BY DEF Init, Places, LastDrop
  <2>3. mPointer \in BOOLEAN /\ raced \in BOOLEAN /\ resurrected \in BOOLEAN
    BY DEF Init
  <2>4. destroyed \in Nat /\ freed \in Nat /\ mStrong \in Int
    BY DEF Init
  <2> QED
    BY <2>1, <2>2, <2>3, <2>4 DEF Init, TypeOK
<1>3. Cardinality(strong) = 1
  BY <1>1, FS_Singleton
<1>4. StrongCounted
  BY <1>3 DEF Init, StrongCounted
<1>5. LastDropAlone
  BY DEF Init, LastDropAlone, LastDrop
<1> QED
  BY <1>2, <1>4, <1>5 DEF IInv

\* Every step preserves the types.
LEMMA TypeStep == TypeOK /\ [Next]_vars => TypeOK'
<1> SUFFICES ASSUME TypeOK, [Next]_vars PROVE TypeOK'
  OBVIOUS
<1> SelfRefs \in Int
  BY DEF SelfRefs
<1> USE DEF TypeOK, Places, LastDrop, At, Goto
<1>1. ASSUME NEW t \in Threads, NEW u \in Threads, CopyStrong(t, u) PROVE TypeOK'
  BY <1>1 DEF CopyStrong
<1>2. ASSUME NEW t \in Threads, NEW u \in Threads, CopyWeak(t, u) PROVE TypeOK'
  BY <1>2 DEF CopyWeak
<1>3. ASSUME NEW t \in Threads, Upgrade(t) PROVE TypeOK'
  BY <1>3 DEF Upgrade
<1>4. ASSUME NEW t \in Threads, DropStrong(t) PROVE TypeOK'
  <2>1. raced' \in BOOLEAN
    BY <1>4, Zenon DEF DropStrong
  <2>2. pc' \in [Threads -> Places]
    BY <1>4 DEF DropStrong
  <2> QED
    BY <1>4, <2>1, <2>2 DEF DropStrong
<1>5. ASSUME NEW t \in Threads, GuardNode(t) PROVE TypeOK'
  BY <1>5 DEF GuardNode
<1>6. ASSUME NEW t \in Threads, LoadPointer(t) PROVE TypeOK'
  BY <1>6 DEF LoadPointer
<1>7. ASSUME NEW t \in Threads, ClearPointer(t) PROVE TypeOK'
  BY <1>7 DEF ClearPointer
<1>8. ASSUME NEW t \in Threads, DestroyObject(t) PROVE TypeOK'
  BY <1>8 DEF DestroyObject
<1>9. ASSUME NEW t \in Threads, UnguardNode(t) PROVE TypeOK'
  BY <1>9 DEF UnguardNode
<1>10. ASSUME NEW t \in Threads, CheckNode(t) PROVE TypeOK'
  BY <1>10 DEF CheckNode
<1>11. ASSUME NEW t \in Threads, DropWeak(t) PROVE TypeOK'
  BY <1>11 DEF DropWeak
<1>12. ASSUME NEW t \in Threads, CheckStrong(t) PROVE TypeOK'
  BY <1>12 DEF CheckStrong
<1>13. CASE UNCHANGED vars
  BY <1>13 DEF vars
<1> QED
  BY <1>1, <1>2, <1>3, <1>4, <1>5, <1>6, <1>7, <1>8, <1>9, <1>10, <1>11,
     <1>12, <1>13 DEF Next

\* Every step keeps the strong count exact: copies and upgrades raise it by one
\* with the owner they add, drops lower it with the owner they remove.
LEMMA CountStep == TypeOK /\ StrongCounted /\ [Next]_vars => StrongCounted'
<1> SUFFICES ASSUME TypeOK, StrongCounted, [Next]_vars PROVE StrongCounted'
  OBVIOUS
<1>1. ASSUME NEW t \in Threads, t \notin strong,
             strong' = strong \union {t}, mStrong' = mStrong + 1
      PROVE  StrongCounted'
  BY <1>1, OwnersCounted DEF TypeOK, StrongCounted
<1>2. ASSUME NEW t \in strong, strong' = strong \ {t}, mStrong' = mStrong - 1
      PROVE  StrongCounted'
  BY <1>2, OwnersCounted DEF TypeOK, StrongCounted
<1>3. CASE UNCHANGED <<mStrong, strong>>
  BY <1>3 DEF StrongCounted
<1>4. ASSUME NEW t \in Threads, NEW u \in Threads, CopyStrong(t, u) PROVE StrongCounted'
  BY <1>1, <1>4 DEF CopyStrong
<1>5. ASSUME NEW t \in Threads, Upgrade(t) PROVE StrongCounted'
  BY <1>1, <1>5 DEF Upgrade
<1>6. ASSUME NEW t \in Threads, DropStrong(t) PROVE StrongCounted'
  BY <1>2, <1>6 DEF DropStrong
<1>7. CASE UNCHANGED vars
  BY <1>3, <1>7 DEF vars
<1> QED
  BY <1>3, <1>4, <1>5, <1>6, <1>7
  DEF Next, CopyWeak, GuardNode, LoadPointer, ClearPointer, DestroyObject,
      UnguardNode, CheckNode, DropWeak, CheckStrong

\* Every step leaves the last drop alone with the object.
LEMMA AloneStep == IInv /\ [Next]_vars => LastDropAlone'
<1> SUFFICES ASSUME IInv, [Next]_vars PROVE LastDropAlone'
  OBVIOUS
<1>a. mStrong = 0 <=> strong = {}
  BY OwnersCounted DEF IInv, TypeOK, StrongCounted
<1> USE DEF IInv, TypeOK, LastDropAlone, LastDrop, At, Goto
<1>1. ASSUME NEW t \in Threads, NEW u \in Threads, CopyStrong(t, u) PROVE LastDropAlone'
  BY <1>1 DEF CopyStrong
<1>2. ASSUME NEW t \in Threads, NEW u \in Threads, CopyWeak(t, u) PROVE LastDropAlone'
  BY <1>2 DEF CopyWeak
<1>3. ASSUME NEW t \in Threads, Upgrade(t) PROVE LastDropAlone'
  BY <1>3, <1>a DEF Upgrade
<1>4. ASSUME NEW t \in Threads, DropStrong(t) PROVE LastDropAlone'
  <2>1. mStrong = 1 => strong' = {}
    <3>1. strong \in SUBSET Threads /\ t \in strong /\ strong' = strong \ {t}
      BY <1>4 DEF DropStrong
    <3>2. Cardinality(strong \ {t}) = mStrong - 1
      BY <3>1, OwnersCounted DEF StrongCounted
    <3>3. mStrong = 1 => Cardinality(strong \ {t}) = 0
      BY <3>2
    <3> QED
      BY <3>1, <3>3, OwnersCounted
  <2> QED
    BY <1>4, <2>1 DEF DropStrong
<1>5. ASSUME NEW t \in Threads, GuardNode(t) PROVE LastDropAlone'
  BY <1>5 DEF GuardNode
<1>6. ASSUME NEW t \in Threads, LoadPointer(t) PROVE LastDropAlone'
  BY <1>6 DEF LoadPointer
<1>7. ASSUME NEW t \in Threads, ClearPointer(t) PROVE LastDropAlone'
  BY <1>7 DEF ClearPointer
<1>8. ASSUME NEW t \in Threads, DestroyObject(t) PROVE LastDropAlone'
  BY <1>8 DEF DestroyObject
<1>9. ASSUME NEW t \in Threads, UnguardNode(t) PROVE LastDropAlone'
  BY <1>9 DEF UnguardNode
<1>10. ASSUME NEW t \in Threads, CheckNode(t) PROVE LastDropAlone'
  BY <1>10 DEF CheckNode
<1>11. ASSUME NEW t \in Threads, DropWeak(t) PROVE LastDropAlone'
  BY <1>11 DEF DropWeak
<1>12. ASSUME NEW t \in Threads, CheckStrong(t) PROVE LastDropAlone'
  BY <1>12 DEF CheckStrong
<1>13. CASE UNCHANGED vars
  BY <1>13 DEF vars
<1> QED
  BY <1>1, <1>2, <1>3, <1>4, <1>5, <1>6, <1>7, <1>8, <1>9, <1>10, <1>11,
     <1>12, <1>13 DEF Next

LEMMA Invariance == Spec => []IInv
<1>1. IInv /\ [Next]_vars => IInv'
  BY TypeStep, CountStep, AloneStep DEF IInv
<1> QED
  BY InitIInv, <1>1, PTL DEF Spec

\* The counts, owners and places stay in their types.
THEOREM TypeCorrect == Spec => []TypeOK
<1>1. IInv => TypeOK
  BY DEF IInv
<1> QED
  BY Invariance, <1>1, PTL

\* mStrong is the number of owners of a strong pointer in every state.
THEOREM CountExact == Spec => []StrongCounted
<1>1. IInv => StrongCounted
  BY DEF IInv
<1> QED
  BY Invariance, <1>1, PTL

\* An owner of a strong pointer finds the object alive or the pointer null.
THEOREM OwnersFindItAlive == Spec => []StrongMeansAlive
<1>1. IInv => StrongMeansAlive
  BY DEF IInv, LastDropAlone, StrongMeansAlive
<1> QED
  BY Invariance, <1>1, PTL

\* The object's destructor runs at most once.
THEOREM DestroyedAtMostOnce == Spec => []DestroyedOnce
<1>1. IInv => DestroyedOnce
  BY DEF IInv, TypeOK, LastDropAlone, DestroyedOnce
<1> QED
  BY Invariance, <1>1, PTL

-----------------------------------------------------------------------------
(* The node: the weak count is exact, and the node is freed once.          *)

LEMMA InitFInv == Init => FInv
<1> SUFFICES ASSUME Init PROVE FInv
  OBVIOUS
<1>1. Guarding = {} /\ weak = {}
  BY DEF Init, Guarding
<1>2. WeakCounted
  BY <1>1, FS_EmptySet, SelfWeakAssumption DEF Init, WeakCounted, SelfRefs
<1>3. FreesAlone
  BY DEF Init, FreesAlone, LastDrop
<1> QED
  BY InitIInv, <1>2, <1>3 DEF FInv

\* Every step keeps the weak count exact.
LEMMA WeakStep == IInv /\ WeakCounted /\ [Next]_vars => WeakCounted'
<1> SUFFICES ASSUME IInv, WeakCounted, [Next]_vars, ~resurrected' PROVE WeakCounted'
  BY DEF WeakCounted
<1> DEFINE Own == IF SelfWeak /\ destroyed = 0 THEN 1 ELSE 0
<1> USE DEF At, Goto
<1>1. TypeOK /\ Guarding \in SUBSET Threads /\ weak \in SUBSET Threads
  BY DEF IInv, TypeOK, Guarding
<1>2. /\ Cardinality(weak) \in Nat /\ Cardinality(Guarding) \in Nat
      /\ Own \in Int
  BY <1>1, OwnersCounted
<1>3. CASE UNCHANGED <<mWeak, weak, Guarding, destroyed, resurrected>>
  BY <1>3 DEF WeakCounted
<1>4. ASSUME NEW t \in Threads, NEW u \in Threads, CopyWeak(t, u) PROVE WeakCounted'
  <2>1. u \notin weak /\ weak' = weak \union {u} /\ mWeak' = mWeak + 1
        /\ Guarding' = Guarding /\ destroyed' = destroyed /\ ~resurrected
    BY <1>4 DEF CopyWeak, Guarding
  <2>2. Cardinality(weak') = Cardinality(weak) + 1
    BY <1>1, <2>1, OwnersCounted
  <2> QED
    BY <1>2, <2>1, <2>2 DEF WeakCounted
<1>5. ASSUME NEW t \in Threads, DropWeak(t) PROVE WeakCounted'
  <2>1. t \in weak /\ weak' = weak \ {t} /\ mWeak' = mWeak - 1
        /\ destroyed' = destroyed /\ ~resurrected
    BY <1>5 DEF DropWeak
  <2>2. Guarding' = Guarding
    BY <1>1, <1>5 DEF DropWeak, Guarding, TypeOK
  <2>3. Cardinality(weak') = Cardinality(weak) - 1
    BY <1>1, <2>1, OwnersCounted
  <2> QED
    BY <1>2, <2>1, <2>2, <2>3 DEF WeakCounted
<1>6. ASSUME NEW t \in Threads, GuardNode(t) PROVE WeakCounted'
  <2>1. t \notin Guarding /\ Guarding' = Guarding \union {t}
    BY <1>1, <1>6 DEF GuardNode, Guarding, TypeOK
  <2>2. Cardinality(Guarding') = Cardinality(Guarding) + 1
    BY <1>1, <2>1, OwnersCounted
  <2> QED
    BY <1>2, <1>6, <2>2 DEF GuardNode, WeakCounted
<1>7. ASSUME NEW t \in Threads, UnguardNode(t) PROVE WeakCounted'
  <2>1. t \in Guarding /\ Guarding' = Guarding \ {t}
    BY <1>1, <1>7 DEF UnguardNode, Guarding, TypeOK
  <2>2. Cardinality(Guarding') = Cardinality(Guarding) - 1
    BY <1>1, <2>1, OwnersCounted
  <2> QED
    BY <1>2, <1>7, <2>2 DEF UnguardNode, WeakCounted
<1>8. ASSUME NEW t \in Threads, DestroyObject(t) PROVE WeakCounted'
  <2>1. Guarding' = Guarding /\ weak' = weak /\ ~resurrected
    BY <1>1, <1>8 DEF DestroyObject, Guarding, TypeOK
  <2>2. destroyed = 0 /\ destroyed' = 1
    BY <1>8, <2>1 DEF DestroyObject, IInv, LastDropAlone
  <2>3. mWeak' = mWeak - (IF SelfWeak THEN 1 ELSE 0)
    BY <1>8 DEF DestroyObject, SelfRefs
  <2> QED
    BY <1>2, <2>1, <2>2, <2>3 DEF WeakCounted
<1>9. ASSUME NEW t \in Threads,
             \/ DropStrong(t) \/ LoadPointer(t) \/ ClearPointer(t)
             \/ CheckNode(t) \/ CheckStrong(t)
      PROVE  WeakCounted'
  <2>1. UNCHANGED <<mWeak, weak, destroyed, resurrected>>
    BY <1>9 DEF DropStrong, LoadPointer, ClearPointer, CheckNode, CheckStrong
  <2>2. Guarding' = Guarding
    BY <1>1, <1>9 DEF DropStrong, LoadPointer, ClearPointer, CheckNode, CheckStrong,
                      Guarding, TypeOK
  <2> QED
    BY <1>3, <2>1, <2>2
<1>10. ASSUME NEW t \in Threads, Upgrade(t) PROVE WeakCounted'
  BY <1>10 DEF Upgrade, WeakCounted, Guarding
<1>11. ASSUME NEW t \in Threads, NEW u \in Threads, CopyStrong(t, u) PROVE WeakCounted'
  BY <1>3, <1>11 DEF CopyStrong, Guarding
<1>12. CASE UNCHANGED vars
  BY <1>3, <1>12 DEF vars, Guarding
<1> QED
  BY <1>4, <1>5, <1>6, <1>7, <1>8, <1>9, <1>10, <1>11, <1>12 DEF Next

\* Every step keeps whoever frees the node alone in it.
LEMMA FreeStep == FInv /\ [Next]_vars => FreesAlone'
<1> SUFFICES ASSUME FInv, [Next]_vars, ~raced', ~resurrected' PROVE FreesAlone'
  BY DEF FreesAlone
<1> USE DEF At, Goto, LastDrop
<1>1. TypeOK /\ Guarding \in SUBSET Threads /\ weak \in SUBSET Threads /\ strong \in SUBSET Threads
  BY DEF FInv, IInv, TypeOK, Guarding
<1>2. ~raced /\ ~resurrected
  <2>1. ASSUME NEW t \in Threads, DropStrong(t) PROVE ~raced /\ ~resurrected
    BY <2>1, Zenon DEF DropStrong
  <2>2. ASSUME NEW t \in Threads, DropWeak(t) PROVE ~raced /\ ~resurrected
    BY <2>2, Zenon DEF DropWeak
  <2>3. ASSUME NEW t \in Threads, Upgrade(t) PROVE ~raced /\ ~resurrected
    BY <2>3, Zenon DEF Upgrade
  <2>4. CASE UNCHANGED <<raced, resurrected>>
    BY <2>4
  <2> QED
    BY <2>1, <2>2, <2>3, <2>4
    DEF Next, vars, CopyStrong, CopyWeak, GuardNode, LoadPointer, ClearPointer,
        DestroyObject, UnguardNode, CheckNode, CheckStrong
<1>3. mStrong = 0 <=> strong = {}
  BY <1>1, OwnersCounted DEF FInv, IInv, StrongCounted
<1>4. /\ Cardinality(weak) \in Nat /\ (Cardinality(weak) = 0 <=> weak = {})
      /\ Cardinality(Guarding) \in Nat /\ (Cardinality(Guarding) = 0 <=> Guarding = {})
      /\ mWeak = Cardinality(weak) + Cardinality(Guarding)
                 + (IF SelfWeak /\ destroyed = 0 THEN 1 ELSE 0)
  BY <1>1, <1>2, OwnersCounted DEF FInv, WeakCounted
<1>5. FreesAlone
  BY DEF FInv
<1>6. ASSUME NEW t \in Threads, NEW u \in Threads, CopyStrong(t, u) PROVE FreesAlone'
  BY <1>1, <1>2, <1>5, <1>6 DEF CopyStrong, FreesAlone
<1>7. ASSUME NEW t \in Threads, NEW u \in Threads, CopyWeak(t, u) PROVE FreesAlone'
  BY <1>1, <1>2, <1>5, <1>7 DEF CopyWeak, FreesAlone
<1>8. ASSUME NEW t \in Threads, Upgrade(t) PROVE FreesAlone'
  BY <1>1, <1>2, <1>5, <1>8 DEF Upgrade, FreesAlone
<1>9. ASSUME NEW t \in Threads, DropStrong(t) PROVE FreesAlone'
  <2>1. t \in strong /\ Cardinality(strong \ {t}) = mStrong - 1
    BY <1>1, <1>9, OwnersCounted DEF DropStrong, FInv, IInv, StrongCounted
  <2>2. strong' = strong \ {t} /\ strong' \in SUBSET Threads
    BY <1>1, <1>9 DEF DropStrong
  <2>3. mStrong = 1 <=> strong' = {}
    <3>1. Cardinality(strong') = mStrong - 1 /\ (Cardinality(strong') = 0 <=> strong' = {})
      BY <2>1, <2>2, OwnersCounted
    <3> QED
      BY <1>1, <3>1 DEF TypeOK
  <2>4. CASE mStrong = 1
    BY <1>1, <1>2, <1>5, <1>9, <2>1, <2>3, <2>4 DEF DropStrong, FreesAlone, TypeOK
  <2>5. CASE mStrong # 1
    BY <1>1, <1>2, <1>5, <1>9, <2>1, <2>3, <2>5 DEF DropStrong, FreesAlone, TypeOK
  <2> QED
    BY <2>4, <2>5
<1>10. ASSUME NEW t \in Threads, GuardNode(t) PROVE FreesAlone'
  BY <1>1, <1>2, <1>5, <1>10 DEF GuardNode, FreesAlone, TypeOK
<1>11. ASSUME NEW t \in Threads, LoadPointer(t) PROVE FreesAlone'
  BY <1>1, <1>2, <1>5, <1>11 DEF LoadPointer, FreesAlone, TypeOK
<1>12. ASSUME NEW t \in Threads, ClearPointer(t) PROVE FreesAlone'
  BY <1>1, <1>2, <1>5, <1>12 DEF ClearPointer, FreesAlone, TypeOK
<1>13. ASSUME NEW t \in Threads, DestroyObject(t) PROVE FreesAlone'
  <2>1. t \in Guarding
    BY <1>13 DEF DestroyObject, Guarding
  <2>2. destroyed = 0
    BY <1>2, <1>13 DEF DestroyObject, FInv, IInv, LastDropAlone
  <2>3. SelfWeak => mWeak # 1
    BY <1>4, <2>1, <2>2
  <2>4. freed' = freed
    BY <1>1, <1>13, <2>3 DEF DestroyObject, TypeOK
  <2> QED
    BY <1>1, <1>2, <1>5, <1>13, <2>4 DEF DestroyObject, FreesAlone, TypeOK
<1>14. ASSUME NEW t \in Threads, UnguardNode(t) PROVE FreesAlone'
  BY <1>1, <1>2, <1>5, <1>14 DEF UnguardNode, FreesAlone, TypeOK
<1>15. ASSUME NEW t \in Threads, CheckNode(t) PROVE FreesAlone'
  <2>1. mWeak = 0 => weak = {}
    BY <1>4
  <2>2. freed = 0 /\ pc[t] = "check"
    BY <1>2, <1>5, <1>15 DEF CheckNode, FreesAlone
  <2>3. CASE mWeak = 0 /\ mStrong = 0
    BY <1>1, <1>2, <1>3, <1>5, <1>15, <2>1, <2>2, <2>3
    DEF CheckNode, FreesAlone, TypeOK, Places
  <2>4. CASE ~(mWeak = 0 /\ mStrong = 0)
    BY <1>1, <1>2, <1>5, <1>15, <2>2, <2>4 DEF CheckNode, FreesAlone, TypeOK
  <2> QED
    BY <2>3, <2>4
<1>16. ASSUME NEW t \in Threads, DropWeak(t) PROVE FreesAlone'
  <2>1. t \in weak /\ weak' = weak \ {t} /\ Cardinality(weak \ {t}) = Cardinality(weak) - 1
    BY <1>1, <1>16, OwnersCounted DEF DropWeak
  <2>2. \A u \in Threads : pc[u] \notin LastDrop
    BY <1>16 DEF DropWeak
  <2>3. mWeak = 1 => weak' = {}
    <3>1. weak' \in SUBSET Threads /\ Cardinality(weak') \in Nat
      BY <1>1, <2>1, OwnersCounted
    <3>2. mWeak = 1 => Cardinality(weak') = 0
      BY <1>4, <2>1, <3>1
    <3> QED
      BY <3>1, <3>2, OwnersCounted
  <2>4. CASE mWeak = 1
    BY <1>1, <1>2, <1>5, <1>16, <2>1, <2>2, <2>3, <2>4 DEF DropWeak, FreesAlone, TypeOK
  <2>5. CASE mWeak # 1
    BY <1>1, <1>2, <1>5, <1>16, <2>1, <2>2, <2>5 DEF DropWeak, FreesAlone, TypeOK
  <2> QED
    BY <2>4, <2>5
<1>17. ASSUME NEW t \in Threads, CheckStrong(t) PROVE FreesAlone'
  <2>1. freed = 0 /\ pc[t] = "weakcheck"
    BY <1>2, <1>5, <1>17 DEF CheckStrong, FreesAlone
  <2>2. CASE mStrong = 0
    BY <1>1, <1>2, <1>3, <1>5, <1>17, <2>1, <2>2 DEF CheckStrong, FreesAlone, TypeOK, Places
  <2>3. CASE mStrong # 0
    BY <1>1, <1>2, <1>5, <1>17, <2>1, <2>3 DEF CheckStrong, FreesAlone, TypeOK
  <2> QED
    BY <2>2, <2>3
<1>18. CASE UNCHANGED vars
  BY <1>5, <1>18 DEF vars, FreesAlone
<1> QED
  BY <1>6, <1>7, <1>8, <1>9, <1>10, <1>11, <1>12, <1>13, <1>14, <1>15, <1>16,
     <1>17, <1>18 DEF Next

\* The node is freed at most once, and under nobody, unless the last weak
\* pointer is dropped beside the last strong one.
THEOREM NodeFreedAtMostOnce == Spec => []NodeFreedOnce
<1>1. FInv /\ [Next]_vars => FInv'
  <2>1. IInv /\ [Next]_vars => IInv'
    BY TypeStep, CountStep, AloneStep DEF IInv
  <2> QED
    BY <2>1, WeakStep, FreeStep DEF FInv
<1>2. FInv => NodeFreedOnce
  BY DEF FInv, FreesAlone, NodeFreedOnce, LastDrop
<1> QED
  BY InitFInv, <1>1, <1>2, PTL DEF Spec

-----------------------------------------------------------------------------
(* Nothing leaks, whether or not the last drops race.                      *)

\* The object lives while somebody owns it or is about to destroy it, and the
\* node while there is a pointer to it, an object, or a thread that drops one and
\* is still to look whether it was the last.
NotForgotten ==
    ~resurrected =>
        /\ mPointer /\ strong = {} => \E t \in Threads : pc[t] \in {"guard", "load", "clear"}
        /\ ~mPointer => destroyed >= 1 \/ \E t \in Threads : pc[t] = "destroy"
        /\ \/ freed >= 1 \/ destroyed = 0 \/ strong # {} \/ weak # {}
           \/ \E t \in Threads : pc[t] # "idle"

\* A thread that stays inside the drop keeps the node from being forgotten, and
\* the object as long as it comes to no place behind its destruction.
LEMMA InsideStep ==
    ASSUME TypeOK, NotForgotten, NEW t \in Threads, NEW place,
           pc' = [pc EXCEPT ![t] = place], place # "idle",
           UNCHANGED <<mPointer, strong, destroyed, resurrected>>,
           mPointer /\ pc[t] \in {"guard", "load", "clear"} => place \in {"guard", "load", "clear"},
           pc[t] # "destroy"
    PROVE  NotForgotten'
<1>1. pc'[t] = place /\ \A u \in Threads \ {t} : pc'[u] = pc[u]
  BY DEF TypeOK
<1>2. \E u \in Threads : pc'[u] # "idle"
  BY <1>1
<1>3. (\E u \in Threads : pc[u] = "destroy") => \E u \in Threads : pc'[u] = "destroy"
  BY <1>1
<1>4. ASSUME mPointer, \E u \in Threads : pc[u] \in {"guard", "load", "clear"}
      PROVE  \E u \in Threads : pc'[u] \in {"guard", "load", "clear"}
  BY <1>1, <1>4
<1> QED
  BY <1>2, <1>3, <1>4 DEF NotForgotten

\* No step forgets the object or the node: whoever drops the last pointer looks
\* at the counts, and what keeps the weak count up is a thread still to look.
LEMMA NotForgottenStep ==
    IInv /\ WeakCounted /\ NotForgotten /\ [Next]_vars => NotForgotten'
<1> SUFFICES ASSUME IInv, WeakCounted, NotForgotten, [Next]_vars, ~resurrected'
             PROVE  NotForgotten'
  BY DEF NotForgotten
<1>1. TypeOK /\ Guarding \in SUBSET Threads /\ weak \in SUBSET Threads /\ strong \in SUBSET Threads
  BY DEF IInv, TypeOK, Guarding
<1>2. mStrong = 0 <=> strong = {}
  BY <1>1, OwnersCounted DEF IInv, StrongCounted
<1>3. ASSUME NEW t \in Threads, NEW u \in Threads, CopyStrong(t, u)  PROVE NotForgotten'
  BY <1>3 DEF CopyStrong, NotForgotten
<1>4. ASSUME NEW t \in Threads, NEW u \in Threads, CopyWeak(t, u)  PROVE NotForgotten'
  BY <1>4 DEF CopyWeak, NotForgotten
<1>5. ASSUME NEW t \in Threads, Upgrade(t)  PROVE NotForgotten'
  <2>1. ~resurrected /\ strong' # {} /\ UNCHANGED <<mPointer, pc, destroyed>>
    BY <1>5 DEF Upgrade
  <2> QED
    BY <2>1 DEF NotForgotten
<1>6. ASSUME NEW t \in Threads, DropStrong(t)  PROVE NotForgotten'
  <2>1. /\ t \in strong /\ strong' = strong \ {t} /\ pc[t] = "idle"
        /\ UNCHANGED <<mPointer, weak, destroyed, freed, resurrected>>
    BY <1>6 DEF DropStrong, At
  <2>2. CASE mStrong = 1
    <3>1. pc'[t] = "guard" /\ \A u \in Threads \ {t} : pc'[u] = pc[u]
      BY <1>1, <1>6, <2>2 DEF DropStrong, Goto, TypeOK
    <3>2. \E u \in Threads : pc'[u] \in {"guard", "load", "clear"} /\ pc'[u] # "idle"
      BY <3>1
    <3>3. (\E u \in Threads : pc[u] = "destroy") => \E u \in Threads : pc'[u] = "destroy"
      BY <2>1, <3>1
    <3> QED
      BY <2>1, <3>2, <3>3 DEF NotForgotten
  <2>3. CASE mStrong # 1
    <3>1. pc' = pc
      BY <1>6, <2>3 DEF DropStrong
    <3>2. Cardinality(strong \ {t}) = mStrong - 1
      BY <1>1, <2>1, OwnersCounted DEF IInv, StrongCounted
    <3>3. strong' # {}
      <4>1. mStrong - 1 # 0
        BY <1>1, <2>3 DEF TypeOK
      <4> QED
        BY <2>1, <3>2, <4>1, FS_EmptySet
    <3> QED
      BY <2>1, <3>1, <3>3 DEF NotForgotten
  <2> QED
    BY <2>2, <2>3
<1>7. ASSUME NEW t \in Threads, GuardNode(t)  PROVE NotForgotten'
  BY <1>1, <1>7, InsideStep DEF GuardNode, At, Goto
<1>8. ASSUME NEW t \in Threads, LoadPointer(t)  PROVE NotForgotten'
  BY <1>1, <1>8, InsideStep DEF LoadPointer, At, Goto
<1>9. ASSUME NEW t \in Threads, ClearPointer(t)  PROVE NotForgotten'
  <2>1. /\ mPointer' = FALSE /\ pc'[t] = "destroy"
        /\ UNCHANGED <<strong, weak, destroyed, freed, resurrected>>
    BY <1>1, <1>9 DEF ClearPointer, Goto, TypeOK
  <2> QED
    BY <2>1 DEF NotForgotten
<1>10. ASSUME NEW t \in Threads, DestroyObject(t)  PROVE NotForgotten'
  <2>1. /\ pc[t] = "destroy" /\ pc'[t] = "unguard"
        /\ UNCHANGED <<mPointer, resurrected>> /\ destroyed' = destroyed + 1
    BY <1>1, <1>10 DEF DestroyObject, At, Goto, TypeOK
  <2>2. ~mPointer
    BY <2>1 DEF IInv, LastDropAlone
  <2>3. destroyed' >= 1
    BY <1>1, <2>1 DEF TypeOK
  <2>4. \E u \in Threads : pc'[u] # "idle"
    BY <2>1
  <2> QED
    BY <2>1, <2>2, <2>3, <2>4 DEF NotForgotten
<1>11. ASSUME NEW t \in Threads, UnguardNode(t)  PROVE NotForgotten'
  BY <1>1, <1>11, InsideStep DEF UnguardNode, At, Goto
<1>12. ASSUME NEW t \in Threads, CheckNode(t)  PROVE NotForgotten'
  <2>1. /\ pc[t] = "check" /\ pc'[t] = "idle" /\ \A u \in Threads \ {t} : pc'[u] = pc[u]
        /\ UNCHANGED <<mPointer, strong, weak, destroyed, resurrected>>
    BY <1>1, <1>12 DEF CheckNode, At, Goto, TypeOK
  <2>2. \A u \in Threads : pc[u] \in {"guard", "load", "clear", "destroy"} => pc'[u] = pc[u]
    BY <2>1
  <2>3. freed' >= 1 \/ destroyed = 0 \/ strong # {} \/ weak # {} \/ \E u \in Threads : pc'[u] # "idle"
    <3> SUFFICES ASSUME destroyed # 0, strong = {}, weak = {}, \A u \in Threads : pc'[u] = "idle"
                 PROVE  freed' >= 1
      OBVIOUS
    <3>1. Guarding = {}
      BY <2>1 DEF Guarding
    <3>2. Cardinality(weak) = 0 /\ Cardinality(Guarding) = 0
      BY <3>1, FS_EmptySet
    <3>3. mWeak = 0
      BY <2>1, <3>2 DEF WeakCounted
    <3>4. freed' = freed + 1
      BY <1>2, <1>12, <3>3 DEF CheckNode
    <3> QED
      BY <1>1, <3>4 DEF TypeOK
  <2> QED
    BY <2>1, <2>2, <2>3 DEF NotForgotten
<1>13. ASSUME NEW t \in Threads, DropWeak(t)  PROVE NotForgotten'
  <2>1. /\ t \in weak /\ weak' = weak \ {t} /\ pc[t] = "idle"
        /\ UNCHANGED <<mPointer, strong, destroyed, freed, resurrected>>
    BY <1>13 DEF DropWeak, At
  <2>2. CASE mWeak = 1
    BY <1>1, <1>13, <2>1, <2>2, InsideStep DEF DropWeak, Goto
  <2>3. CASE mWeak # 1
    <3>1. pc' = pc
      BY <1>13, <2>3 DEF DropWeak
    <3>2. destroyed = 0 \/ weak' # {} \/ \E u \in Threads : pc[u] # "idle"
      <4> SUFFICES ASSUME destroyed # 0, weak' = {}, \A u \in Threads : pc[u] = "idle"
                   PROVE  FALSE
        OBVIOUS
      <4>1. Cardinality(weak \ {t}) = Cardinality(weak) - 1 /\ Cardinality(weak) \in Nat
        BY <1>1, <2>1, OwnersCounted
      <4>2. Cardinality(weak) = 1
        BY <2>1, <4>1, FS_EmptySet
      <4>3. Guarding = {}
        BY DEF Guarding
      <4>4. Cardinality(Guarding) = 0
        BY <4>3, FS_EmptySet
      <4> QED
        BY <2>1, <2>3, <4>2, <4>4 DEF WeakCounted
    <3> QED
      BY <2>1, <3>1, <3>2 DEF NotForgotten
  <2> QED
    BY <2>2, <2>3
<1>14. ASSUME NEW t \in Threads, CheckStrong(t)  PROVE NotForgotten'
  <2>1. /\ pc[t] = "weakcheck" /\ \A u \in Threads \ {t} : pc'[u] = pc[u]
        /\ freed' = freed + (IF mStrong = 0 THEN 1 ELSE 0)
        /\ UNCHANGED <<mPointer, strong, weak, destroyed, resurrected>>
    BY <1>1, <1>14 DEF CheckStrong, At, Goto, TypeOK
  <2>2. \A u \in Threads : pc[u] \in {"guard", "load", "clear", "destroy"} => pc'[u] = pc[u]
    BY <2>1
  <2>3. freed' >= 1 \/ strong # {}
    BY <1>1, <1>2, <2>1 DEF TypeOK
  <2> QED
    BY <2>1, <2>2, <2>3 DEF NotForgotten
<1>15. CASE UNCHANGED vars
  BY <1>15 DEF vars, NotForgotten
<1> QED
  BY <1>3, <1>4, <1>5, <1>6, <1>7, <1>8, <1>9, <1>10, <1>11, <1>12, <1>13, <1>14,
     <1>15 DEF Next

\* Once nobody has a pointer and nobody is dropping one, the object was destroyed
\* and the node freed, whichever drops raced, unless a weak pointer was upgraded
\* while the last strong one was being dropped.
THEOREM NothingIsLeaked == Spec => []NothingLeaks
<1>1. Init => IInv /\ WeakCounted /\ NotForgotten
  <2>1. Init => NotForgotten
    BY DEF Init, NotForgotten
  <2> QED
    BY InitFInv, <2>1 DEF FInv
<1>2. IInv /\ WeakCounted /\ NotForgotten /\ [Next]_vars => (IInv /\ WeakCounted /\ NotForgotten)'
  <2>1. IInv /\ [Next]_vars => IInv'
    BY TypeStep, CountStep, AloneStep DEF IInv
  <2> QED
    BY <2>1, WeakStep, NotForgottenStep
<1>3. IInv /\ WeakCounted /\ NotForgotten => NothingLeaks
  BY DEF NotForgotten, NothingLeaks, At
<1> QED
  BY <1>1, <1>2, <1>3, PTL DEF Spec

=============================================================================
