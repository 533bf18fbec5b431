------------------------ MODULE MultiSpinLockProofs ------------------------
(***************************************************************************)
(* For every set of threads and every nesting depth: what MultiSpinLock    *)
(* guarantees to threads that do not use TryAcquire(), whose result says   *)
(* nothing (see the README).                                               *)
(***************************************************************************)
EXTENDS MultiSpinLock, TLAPS

\* Where every thread can be, given what it holds.
Places == \A t \in Threads :
    /\ at[t] # "refused" /\ call[t] # "try"
    /\ at[t] \in {"spin", "claim", "count", "enter", "leave"} => held[t] < Depth
    /\ at[t] \in {"release", "uncount", "disown", "exit"} => held[t] > 0
    /\ at[t] \in {"count", "enter", "uncount", "disown"} => mOwner = t

\* Whoever was granted the lock owns it, until its last release has given mOwner
\* back.
Granted == \A t \in Threads :
    held[t] > 0 => \/ mOwner = t
                   \/ at[t] = "exit" /\ mOwner = Free /\ held[t] = 1

\* How far mRefs is ahead of the acquisitions the owner knows of.
Ahead(t) == IF at[t] = "enter" THEN 1
            ELSE IF at[t] \in {"disown", "exit"} THEN -1 ELSE 0

Counted ==
    /\ mOwner = Free => mRefs = 0
    /\ mOwner # Free =>
         /\ mRefs = held[mOwner] + Ahead(mOwner)
         /\ at[mOwner] = "disown" => mRefs = 0
         /\ mRefs = 0 => at[mOwner] \in {"count", "disown"}

IInv == TypeOK /\ InternalLock /\ Places /\ Granted /\ Counted

-----------------------------------------------------------------------------
(***************************************************************************)
(* One step at a time.  A step that touches mOwner or mRefs is taken by    *)
(* the thread that holds mInternalLock, and every other is outside.        *)
(***************************************************************************)
LEMMA InitInv == Init => IInv
  BY MultiSpinLockAssumption
  DEF Init, IInv, TypeOK, InternalLock, Inside, Places, Granted, Counted

LEMMA NextType ==
    ASSUME IInv, [Next]_vars, "try" \notin Calls
    PROVE  TypeOK'
<1>. USE MultiSpinLockAssumption DEF IInv, TypeOK, Places, Move, Grant
<1>1. ASSUME NEW t \in Threads, NEW c \in Calls, StartAcquire(t, c)
      PROVE  TypeOK'
  BY <1>1 DEF StartAcquire
<1>2. ASSUME NEW t \in Threads, AcquireStep(t)
      PROVE  TypeOK'
  <2>1. CASE AcquireInternal(t)
    BY <2>1 DEF AcquireInternal
  <2>2. CASE Claim(t)
    BY <2>2 DEF Claim
  <2>3. CASE CountRef(t)
    BY <2>3 DEF CountRef
  <2>4. CASE Enter(t)
    BY <2>4 DEF Enter
  <2>5. CASE LeaveUnowned(t)
    BY <2>5 DEF LeaveUnowned
  <2>. QED
    BY <1>2, <2>1, <2>2, <2>3, <2>4, <2>5 DEF AcquireStep
<1>3. ASSUME NEW t \in Threads, StartRelease(t)
      PROVE  TypeOK'
  BY <1>3 DEF StartRelease
<1>4. ASSUME NEW t \in Threads, ReleaseStep(t)
      PROVE  TypeOK'
  <2>1. CASE ReleaseInternal(t)
    BY <2>1 DEF ReleaseInternal
  <2>2. CASE Uncount(t)
    <3>1. mOwner = t /\ mRefs = held[t] /\ held[t] > 0
      BY <2>2 DEF Uncount, Counted, Ahead
    <3>. QED
      BY <2>2, <3>1 DEF Uncount
  <2>3. CASE Disown(t)
    BY <2>3 DEF Disown
  <2>4. CASE Exit(t)
    BY <2>4 DEF Exit
  <2>. QED
    BY <1>4, <2>1, <2>2, <2>3, <2>4 DEF ReleaseStep
<1>5. CASE UNCHANGED vars
  BY <1>5 DEF vars
<1>. QED
  BY <1>1, <1>2, <1>3, <1>4, <1>5 DEF Next

LEMMA NextInternalLock ==
    ASSUME IInv, [Next]_vars, "try" \notin Calls
    PROVE  InternalLock'
<1>. USE MultiSpinLockAssumption
     DEF IInv, TypeOK, InternalLock, Inside, Places, Move, Grant
<1>1. ASSUME NEW t \in Threads, NEW c \in Calls, StartAcquire(t, c)
      PROVE  InternalLock'
  BY <1>1 DEF StartAcquire
<1>2. ASSUME NEW t \in Threads, AcquireStep(t)
      PROVE  InternalLock'
  <2>1. CASE AcquireInternal(t)
    BY <2>1 DEF AcquireInternal
  <2>2. CASE Claim(t)
    BY <2>2 DEF Claim
  <2>3. CASE CountRef(t)
    BY <2>3 DEF CountRef
  <2>4. CASE Enter(t)
    BY <2>4 DEF Enter
  <2>5. CASE LeaveUnowned(t)
    BY <2>5 DEF LeaveUnowned
  <2>. QED
    BY <1>2, <2>1, <2>2, <2>3, <2>4, <2>5 DEF AcquireStep
<1>3. ASSUME NEW t \in Threads, StartRelease(t)
      PROVE  InternalLock'
  BY <1>3 DEF StartRelease
<1>4. ASSUME NEW t \in Threads, ReleaseStep(t)
      PROVE  InternalLock'
  <2>1. CASE ReleaseInternal(t)
    BY <2>1 DEF ReleaseInternal
  <2>2. CASE Uncount(t)
    BY <2>2 DEF Uncount
  <2>3. CASE Disown(t)
    BY <2>3 DEF Disown
  <2>4. CASE Exit(t)
    BY <2>4 DEF Exit
  <2>. QED
    BY <1>4, <2>1, <2>2, <2>3, <2>4 DEF ReleaseStep
<1>5. CASE UNCHANGED vars
  BY <1>5 DEF vars
<1>. QED
  BY <1>1, <1>2, <1>3, <1>4, <1>5 DEF Next

\* Ownership and depth, one action at a time.
Ownership == Places /\ Granted /\ Counted

LEMMA NextOwnership ==
    ASSUME IInv, [Next]_vars, "try" \notin Calls
    PROVE  Ownership'
<1>. USE MultiSpinLockAssumption
     DEF IInv, TypeOK, InternalLock, Inside, Ownership, Places, Granted, Counted, Ahead, Move, Grant
<1>1. ASSUME NEW t \in Threads, NEW c \in Calls, StartAcquire(t, c)
      PROVE  Ownership'
  BY <1>1 DEF StartAcquire
<1>2. ASSUME NEW t \in Threads, AcquireStep(t)
      PROVE  Ownership'
  <2>1. CASE AcquireInternal(t)
    BY <2>1 DEF AcquireInternal
  <2>2. CASE Claim(t)
    BY <2>2 DEF Claim
  <2>3. CASE CountRef(t)
    BY <2>3 DEF CountRef
  <2>4. CASE Enter(t)
    BY <2>4 DEF Enter
  <2>5. CASE LeaveUnowned(t)
    BY <2>5 DEF LeaveUnowned
  <2>. QED
    BY <1>2, <2>1, <2>2, <2>3, <2>4, <2>5 DEF AcquireStep
<1>3. ASSUME NEW t \in Threads, StartRelease(t)
      PROVE  Ownership'
  BY <1>3 DEF StartRelease
<1>4. ASSUME NEW t \in Threads, ReleaseStep(t)
      PROVE  Ownership'
  <2>1. CASE ReleaseInternal(t)
    BY <2>1 DEF ReleaseInternal
  <2>2. CASE Uncount(t)
    BY <2>2 DEF Uncount
  <2>3. CASE Disown(t)
    BY <2>3 DEF Disown
  <2>4. CASE Exit(t)
    BY <2>4 DEF Exit
  <2>. QED
    BY <1>4, <2>1, <2>2, <2>3, <2>4 DEF ReleaseStep
<1>5. CASE UNCHANGED vars
  BY <1>5 DEF vars
<1>. QED
  BY <1>1, <1>2, <1>3, <1>4, <1>5 DEF Next

LEMMA Inductive ==
    ASSUME "try" \notin Calls
    PROVE  Spec => []IInv
<1>1. Init => IInv
  BY InitInv
<1>2. IInv /\ [Next]_vars => IInv'
  BY NextType, NextInternalLock, NextOwnership DEF IInv, Ownership
<1>. QED
  BY <1>1, <1>2, PTL DEF Spec

-----------------------------------------------------------------------------
(***************************************************************************)
(* What the runs check on three threads                                    *)
(***************************************************************************)
\* Every variable keeps its type; in particular Release never takes mRefs below
\* zero, which it asserts (SpinLock.cpp, MultiSpinLock::Release).
THEOREM TypeCorrect ==
    ASSUME "try" \notin Calls
    PROVE  Spec => []TypeOK
  BY Inductive, PTL DEF IInv

\* mInternalLock is held exactly by the thread that is between its two
\* compare-exchanges: the asserts that give it back hold.
THEOREM InternalExclusion ==
    ASSUME "try" \notin Calls
    PROVE  Spec => []InternalLock
  BY Inductive, PTL DEF IInv

\* A thread that returned from Acquire owns the lock until its last Release.
THEOREM Exclusion ==
    ASSUME "try" \notin Calls
    PROVE  Spec => []GrantedMeansOwned
<1>1. IInv => GrantedMeansOwned
  BY DEF IInv, Granted, GrantedMeansOwned
<1>. QED
  BY Inductive, <1>1, PTL

\* Whenever no operation is under way on owner and depth, mRefs is the number of
\* acquisitions the owner has not released, and an unowned lock has none.
THEOREM DepthExact ==
    ASSUME "try" \notin Calls
    PROVE  Spec => []OwnerAndDepth
<1>1. IInv => OwnerAndDepth
  BY MultiSpinLockAssumption
  DEF IInv, TypeOK, InternalLock, Inside, Places, Granted, Counted, Ahead, OwnerAndDepth
<1>. QED
  BY Inductive, <1>1, PTL

=============================================================================
