----------------------------- MODULE RWSpinLock -----------------------------
(***************************************************************************)
(* RWSpinLock (Core/Platform/RWSpinLock.cpp).  The first reader takes      *)
(* mGlobal for all of them and the last one gives it back; mReaderLock, a  *)
(* SpinLock, orders the readers' arrivals and departures.  A writer takes  *)
(* mGlobal for itself.  Every atomic operation is a step; the spins, and   *)
(* the sleeps between them, are the steps that are not enabled yet.        *)
(***************************************************************************)
EXTENDS Integers, FiniteSets

CONSTANTS
    Threads,
    Free        \* SPIN_LOCK_UNLOCKED, in mReaderLock

ASSUME ThreadsAssumption == IsFiniteSet(Threads) /\ Free \notin Threads

VARIABLES
    mGlobal,        \* "unlocked", "read" or "write"
    mReaderCount,
    mReaderLock,    \* the owner, or Free
    at              \* where a thread is

spinVars == <<mGlobal, mReaderCount, mReaderLock, at>>

Init ==
    /\ mGlobal = "unlocked"
    /\ mReaderCount = 0
    /\ mReaderLock = Free
    /\ at = [t \in Threads |-> "idle"]

Move(t, from, to) == at[t] = from /\ at' = [at EXCEPT ![t] = to]

-----------------------------------------------------------------------------
(***************************************************************************)
(* The readers                                                             *)
(***************************************************************************)
AcquireRead(t) ==
    /\ Move(t, "idle", "lock_in")
    /\ UNCHANGED <<mGlobal, mReaderCount, mReaderLock>>

ReleaseRead(t) ==
    /\ Move(t, "reading", "lock_out")
    /\ UNCHANGED <<mGlobal, mReaderCount, mReaderLock>>

\* Fault: mReaderLock is taken while another thread has it.
LockReadersAny(t) ==
    /\ mReaderLock' = t
    /\ Move(t, "lock_in", "count_in") \/ Move(t, "lock_out", "count_out")
    /\ UNCHANGED <<mGlobal, mReaderCount>>

\* mReaderLock.Acquire()
LockReaders(t) ==
    /\ mReaderLock = Free /\ mReaderLock' = t
    /\ Move(t, "lock_in", "count_in") \/ Move(t, "lock_out", "count_out")
    /\ UNCHANGED <<mGlobal, mReaderCount>>

\* Fault: the first reader does not take mGlobal.
CountReaderNoGlobal(t) ==
    /\ mReaderCount' = mReaderCount + 1
    /\ Move(t, "count_in", "unlock_in")
    /\ UNCHANGED <<mGlobal, mReaderLock>>

CountReader(t) ==
    /\ mReaderCount' = mReaderCount + 1
    /\ Move(t, "count_in", IF mReaderCount' = 1 THEN "global_in" ELSE "unlock_in")
    /\ UNCHANGED <<mGlobal, mReaderLock>>

\* RWAcquire(mGlobal, READ_LOCK), mReaderLock held
LockForReaders(t) ==
    /\ Move(t, "global_in", "unlock_in")
    /\ mGlobal = "unlocked" /\ mGlobal' = "read"
    /\ UNCHANGED <<mReaderCount, mReaderLock>>

\* Fault: mGlobal is given back when one reader is left.
UncountReaderEarly(t) ==
    /\ mReaderCount' = mReaderCount - 1
    /\ Move(t, "count_out", IF mReaderCount' = 1 THEN "global_out" ELSE "unlock_out")
    /\ UNCHANGED <<mGlobal, mReaderLock>>

UncountReader(t) ==
    /\ mReaderCount' = mReaderCount - 1
    /\ Move(t, "count_out", IF mReaderCount' = 0 THEN "global_out" ELSE "unlock_out")
    /\ UNCHANGED <<mGlobal, mReaderLock>>

\* RWRelease is a compare-exchange too: it asserts that it succeeds.
UnlockForReaders(t) ==
    /\ Move(t, "global_out", "unlock_out")
    /\ mGlobal' = IF mGlobal = "read" THEN "unlocked" ELSE mGlobal
    /\ UNCHANGED <<mReaderCount, mReaderLock>>

\* mReaderLock.Release()
UnlockReaders(t) ==
    /\ Move(t, "unlock_in", "reading") \/ Move(t, "unlock_out", "idle")
    /\ mReaderLock' = IF mReaderLock = t THEN Free ELSE mReaderLock
    /\ UNCHANGED <<mGlobal, mReaderCount>>

(***************************************************************************)
(* The writers                                                             *)
(***************************************************************************)
AcquireWrite(t) ==
    /\ Move(t, "idle", "global_write")
    /\ UNCHANGED <<mGlobal, mReaderCount, mReaderLock>>

LockForWriter(t) ==
    /\ Move(t, "global_write", "writing")
    /\ mGlobal = "unlocked" /\ mGlobal' = "write"
    /\ UNCHANGED <<mReaderCount, mReaderLock>>

\* "to" is where ReleaseWrite continues.
UnlockForWriter(t, to) ==
    /\ Move(t, "writing", to)
    /\ mGlobal' = IF mGlobal = "write" THEN "unlocked" ELSE mGlobal
    /\ UNCHANGED <<mReaderCount, mReaderLock>>

\* The steps of an operation in progress that RWLock shares.
LockStep(t) ==
    \/ LockReaders(t) \/ CountReader(t) \/ LockForReaders(t)
    \/ UncountReader(t) \/ UnlockForReaders(t) \/ UnlockReaders(t)
    \/ LockForWriter(t)

Next == \E t \in Threads :
    \/ AcquireRead(t) \/ AcquireWrite(t) \/ LockStep(t)
    \/ ReleaseRead(t) \/ UnlockForWriter(t, "idle")

Spec == Init /\ [][Next]_spinVars

-----------------------------------------------------------------------------
Readers == {t \in Threads : at[t] \in {"unlock_in", "reading"}}
Writers == {t \in Threads : at[t] = "writing"}

\* Threads inside mReaderLock.
Locked == {t \in Threads : at[t] \in {"count_in", "global_in", "unlock_in",
                                      "count_out", "global_out", "unlock_out"}}

\* Readers that are counted, and those for whom mGlobal is held.
Counted == {t \in Threads : at[t] \in {"global_in", "unlock_in", "reading",
                                       "lock_out", "count_out"}}
Sharing == {t \in Threads : at[t] \in {"unlock_in", "reading", "lock_out",
                                       "count_out", "global_out"}}

\* Every variable has its type.
TypeOK ==
    /\ mGlobal \in {"unlocked", "read", "write"}
    /\ mReaderCount \in Nat
    /\ mReaderLock \in Threads \cup {Free}
    /\ at \in [Threads -> {"idle", "lock_in", "count_in", "global_in", "unlock_in",
                           "reading", "lock_out", "count_out", "global_out",
                           "unlock_out", "global_write", "writing"}]

\* One writer, or readers, or nobody.
MutualExclusion ==
    /\ \A t, u \in Writers : t = u
    /\ Readers = {} \/ Writers = {}

\* mReaderCount is the number of readers from their arrival to their
\* departure, and only the owner of mReaderLock is inside it.
ReadersCounted ==
    /\ mReaderCount = Cardinality(Counted)
    /\ \A t \in Threads : t \in Locked <=> mReaderLock = t

\* mGlobal says who is in, so that no release meets a state it did not set:
\* the AssertEx(state == value) of RWRelease holds.
GlobalNamesHolder ==
    /\ mGlobal = "read" <=> Sharing # {}
    /\ mGlobal = "write" <=> Writers # {}

\* The lock implements the abstract readers/writer lock.
Abstract == INSTANCE ReadersWriter WITH readers <- Readers, writers <- Writers
ImplementsReadersWriter == Abstract!Spec

=============================================================================
