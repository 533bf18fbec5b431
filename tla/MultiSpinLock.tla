---------------------------- MODULE MultiSpinLock ----------------------------
(***************************************************************************)
(* MultiSpinLock (Core/Platform/SpinLock.cpp), the recursive spin lock.    *)
(* Owner and depth are two atomics, guarded by a third that every          *)
(* operation takes first.  Every atomic operation is a step; the spins are *)
(* the steps that are not enabled yet or that lead back to "spin".         *)
(***************************************************************************)
EXTENDS Integers, FiniteSets

CONSTANTS
    Threads,
    Free,       \* SPIN_LOCK_UNLOCKED
    Depth,      \* how often a thread nests its acquisitions (bound)
    Calls       \* which of "acquire", "try" and "timed" the threads use

ASSUME MultiSpinLockAssumption ==
    /\ IsFiniteSet(Threads) /\ Free \notin Threads
    /\ Depth \in Nat \ {0}
    /\ Calls \subseteq {"acquire", "try", "timed"}

VARIABLES
    mOwner, mInternalLock, mRefs,
    at,         \* where a thread is
    call,       \* the acquisition it is in
    held        \* history: acquisitions a thread was granted and has not released

vars == <<mOwner, mInternalLock, mRefs, at, call, held>>

Init ==
    /\ mOwner = Free /\ mInternalLock = Free /\ mRefs = 0
    /\ at = [t \in Threads |-> "idle"]
    /\ call = [t \in Threads |-> "acquire"]
    /\ held = [t \in Threads |-> 0]

Move(t, from, to) == at[t] = from /\ at' = [at EXCEPT ![t] = to]
Grant(t) == held' = [held EXCEPT ![t] = @ + 1]

-----------------------------------------------------------------------------
(***************************************************************************)
(* Acquire, TryAcquire() and TryAcquire(milliseconds)                      *)
(***************************************************************************)
StartAcquire(t, c) ==
    /\ held[t] < Depth
    /\ Move(t, "idle", "spin")
    /\ call' = [call EXCEPT ![t] = c]
    /\ UNCHANGED <<mOwner, mInternalLock, mRefs, held>>

\* The compare-exchange on mInternalLock.  TryAcquire() does not repeat it, and
\* returns true whatever it found.
AcquireInternal(t) ==
    /\ IF mInternalLock = Free
         THEN Move(t, "spin", "claim") /\ mInternalLock' = t /\ UNCHANGED held
         ELSE /\ call[t] = "try"
              /\ Move(t, "spin", "idle") /\ Grant(t) /\ UNCHANGED mInternalLock
    /\ UNCHANGED <<mOwner, mRefs, call>>

\* Fault: any owner will do.
ClaimAny(t) ==
    /\ Move(t, "claim", "count")
    /\ mOwner' = IF mOwner = Free THEN t ELSE mOwner
    /\ UNCHANGED <<mInternalLock, mRefs, call, held>>

Claim(t) ==
    /\ Move(t, "claim", IF mOwner \in {Free, t} THEN "count" ELSE "leave")
    /\ mOwner' = IF mOwner = Free THEN t ELSE mOwner
    /\ UNCHANGED <<mInternalLock, mRefs, call, held>>

CountRef(t) ==
    /\ Move(t, "count", "enter")
    /\ mRefs' = mRefs + 1
    /\ UNCHANGED <<mOwner, mInternalLock, call, held>>

Enter(t) ==
    /\ Move(t, "enter", "idle") /\ Grant(t)
    /\ mInternalLock' = Free
    /\ UNCHANGED <<mOwner, mRefs, call>>

\* Not owned: Acquire spins again.  So does TryAcquire(milliseconds), whose spin
\* counter never moves.  TryAcquire() returns true.
LeaveUnowned(t) ==
    /\ Move(t, "leave", IF call[t] = "try" THEN "idle" ELSE "spin")
    /\ IF call[t] = "try" THEN Grant(t) ELSE UNCHANGED held
    /\ mInternalLock' = Free
    /\ UNCHANGED <<mOwner, mRefs, call>>

AcquireStep(t) ==
    \/ AcquireInternal(t) \/ Claim(t) \/ CountRef(t)
    \/ Enter(t) \/ LeaveUnowned(t)

(***************************************************************************)
(* Release, by a thread that was granted the lock                          *)
(***************************************************************************)
StartRelease(t) ==
    /\ held[t] > 0
    /\ Move(t, "idle", "release")
    /\ UNCHANGED <<mOwner, mInternalLock, mRefs, call, held>>

ReleaseInternal(t) ==
    /\ Move(t, "release", "uncount")
    /\ mInternalLock = Free /\ mInternalLock' = t
    /\ UNCHANGED <<mOwner, mRefs, call, held>>

\* Fault: the first release ends the ownership.
UncountOuter(t) ==
    /\ mRefs' = mRefs - 1
    /\ Move(t, "uncount", "disown")
    /\ UNCHANGED <<mOwner, mInternalLock, call, held>>

Uncount(t) ==
    /\ mRefs' = mRefs - 1
    /\ Move(t, "uncount", IF mRefs' = 0 THEN "disown" ELSE "exit")
    /\ UNCHANGED <<mOwner, mInternalLock, call, held>>

\* A thread that is not the owner fails, and tries again.
Disown(t) ==
    /\ Move(t, "disown", IF mOwner = t THEN "exit" ELSE "refused")
    /\ mOwner' = IF mOwner = t THEN Free ELSE mOwner
    /\ UNCHANGED <<mInternalLock, mRefs, call, held>>

Exit(t) ==
    /\ at[t] \in {"exit", "refused"}
    /\ at' = [at EXCEPT ![t] = IF @ = "exit" THEN "idle" ELSE "release"]
    /\ held' = [held EXCEPT ![t] = IF at[t] = "exit" THEN @ - 1 ELSE @]
    /\ mInternalLock' = Free
    /\ UNCHANGED <<mOwner, mRefs, call>>

ReleaseStep(t) == ReleaseInternal(t) \/ Uncount(t) \/ Disown(t) \/ Exit(t)

Next == \E t \in Threads :
    \/ \E c \in Calls : StartAcquire(t, c)
    \/ AcquireStep(t)
    \/ StartRelease(t) \/ ReleaseStep(t)

Spec == Init /\ [][Next]_vars

-----------------------------------------------------------------------------
Inside == {t \in Threads : at[t] \in {"claim", "count", "enter", "leave",
                                      "uncount", "disown", "exit", "refused"}}

\* Every variable has its type: the count of the owner's acquisitions never
\* goes below zero, as Release asserts.
TypeOK ==
    /\ mOwner \in Threads \cup {Free}
    /\ mInternalLock \in Threads \cup {Free}
    /\ mRefs \in Nat
    /\ at \in [Threads -> {"idle", "spin", "claim", "count", "enter", "leave",
                           "release", "uncount", "disown", "exit", "refused"}]
    /\ call \in [Threads -> {"acquire", "try", "timed"}]
    /\ held \in [Threads -> 0..Depth]

\* The lock belongs to whoever was granted it: "returns true if the current
\* thread has ownership".
GrantedMeansOwned == \A t \in Threads : held[t] > 0 /\ at[t] # "exit" => mOwner = t

\* Owner and depth agree with the acquisitions that are open, whenever they can
\* be read: Release finds them so, and its asserts hold.
OwnerAndDepth ==
    mInternalLock = Free =>
        /\ mOwner = Free => mRefs = 0
        /\ mOwner # Free => mRefs = held[mOwner] /\ mRefs > 0

\* mInternalLock is held by whoever is between taking it and giving it back.
InternalLock == \A t \in Threads : t \in Inside <=> mInternalLock = t

=============================================================================
