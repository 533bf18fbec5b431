------------------------------- MODULE RWLock -------------------------------
(***************************************************************************)
(* RWLock (Core/Platform/RWLock.cpp): the lock of RWSpinLock with a count  *)
(* of the writers and a fence, shut while there are any, at which readers  *)
(* wait before they ask for the lock.  Counting a writer and moving the    *)
(* fence are two steps, on the way in and on the way out.                  *)
(***************************************************************************)
EXTENDS RWSpinLock

CONSTANT WriterThreads  \* the threads that write, the others read

ASSUME WritersAssumption == WriterThreads \subseteq Threads

VARIABLES
    mWriterCount,
    open            \* whether the event of mReaderFence is signaled

writerVars == <<mWriterCount, open>>
vars == <<spinVars, writerVars>>

\* The event is created nonsignaled: until a writer has come and gone readers
\* pass the fence when their 1 ms wait has timed out.
RWLockInit == Init /\ mWriterCount = 0 /\ open = FALSE

-----------------------------------------------------------------------------
(***************************************************************************)
(* The readers wait before they lock.                                      *)
(***************************************************************************)
WaitFirst(t) ==
    /\ Move(t, "idle", "fence")
    /\ UNCHANGED <<mGlobal, mReaderCount, mReaderLock, writerVars>>

\* TryAcquireRead returns false when there is a writer, and otherwise waits
\* like AcquireRead.
TryAcquireRead(t) == mWriterCount = 0 /\ WaitFirst(t)

\* mReaderFence.Wait(1) succeeds or times out ...
FenceWait(t) ==
    /\ Move(t, "fence", IF open THEN "lock_in" ELSE "fence_check")
    /\ UNCHANGED <<mGlobal, mReaderCount, mReaderLock, writerVars>>

\* Fault: a reader waits for the event alone.
FenceTimeoutWaits(t) ==
    /\ Move(t, "fence_check", "fence")
    /\ UNCHANGED <<mGlobal, mReaderCount, mReaderLock, writerVars>>

\* ... and after a timeout the wait is repeated while there are writers.
FenceTimeout(t) ==
    /\ Move(t, "fence_check", IF mWriterCount # 0 THEN "fence" ELSE "lock_in")
    /\ UNCHANGED <<mGlobal, mReaderCount, mReaderLock, writerVars>>

(***************************************************************************)
(* The writers                                                             *)
(***************************************************************************)
AnnounceWrite(t) ==
    /\ Move(t, "idle", "count_writer")
    /\ UNCHANGED <<mGlobal, mReaderCount, mReaderLock, writerVars>>

\* TryAcquireWrite loads mWriterCount, then mReaderCount, and then waits like
\* AcquireWrite.
TryAcquireWrite(t) ==
    /\ mWriterCount = 0
    /\ Move(t, "idle", "try_write")
    /\ UNCHANGED <<mGlobal, mReaderCount, mReaderLock, writerVars>>

TryNoReaders(t) ==
    /\ Move(t, "try_write", IF mReaderCount > 0 THEN "idle" ELSE "count_writer")
    /\ UNCHANGED <<mGlobal, mReaderCount, mReaderLock, writerVars>>

CountWriter(t) ==
    /\ mWriterCount' = mWriterCount + 1
    /\ Move(t, "count_writer", IF mWriterCount' = 1 THEN "close_fence" ELSE "global_write")
    /\ UNCHANGED <<mGlobal, mReaderCount, mReaderLock, open>>

\* Fault: a writer that finds no reader counted does not take mGlobal.
CloseFenceEnter(t) ==
    /\ Move(t, "close_fence", IF mReaderCount = 0 THEN "writing" ELSE "global_write")
    /\ open' = FALSE
    /\ UNCHANGED <<mGlobal, mReaderCount, mReaderLock, mWriterCount>>

CloseFence(t) ==
    /\ Move(t, "close_fence", "global_write")
    /\ open' = FALSE
    /\ UNCHANGED <<mGlobal, mReaderCount, mReaderLock, mWriterCount>>

\* Fault: the last writer neither leaves the count nor opens the fence.
UncountWriterForget(t) ==
    /\ mWriterCount' = IF mWriterCount > 1 THEN mWriterCount - 1 ELSE mWriterCount
    /\ Move(t, "uncount_writer", "idle")
    /\ UNCHANGED <<mGlobal, mReaderCount, mReaderLock, open>>

UncountWriter(t) ==
    /\ mWriterCount' = mWriterCount - 1
    /\ Move(t, "uncount_writer", IF mWriterCount' = 0 THEN "open_fence" ELSE "idle")
    /\ UNCHANGED <<mGlobal, mReaderCount, mReaderLock, open>>

OpenFence(t) ==
    /\ Move(t, "open_fence", "idle")
    /\ open' = TRUE
    /\ UNCHANGED <<mGlobal, mReaderCount, mReaderLock, mWriterCount>>

-----------------------------------------------------------------------------
\* An operation in progress; the holder of the lock releases it.
OperationStep(t) ==
    \/ FenceWait(t) \/ FenceTimeout(t)
    \/ TryNoReaders(t) \/ CountWriter(t) \/ CloseFence(t)
    \/ UncountWriter(t) \/ OpenFence(t)
    \/ /\ LockStep(t) \/ ReleaseRead(t) \/ UnlockForWriter(t, "uncount_writer")
       /\ UNCHANGED writerVars

RWLockNext == \E t \in Threads :
    \/ OperationStep(t)
    \/ t \in WriterThreads /\ (AnnounceWrite(t) \/ TryAcquireWrite(t))
    \/ t \notin WriterThreads /\ (WaitFirst(t) \/ TryAcquireRead(t))

RWLockSpec == RWLockInit /\ [][RWLockNext]_vars

\* Every thread runs, and what it has locked it releases.
RWLockFairSpec == RWLockSpec /\ \A t \in Threads : WF_vars(OperationStep(t))

-----------------------------------------------------------------------------
Announced == {t \in Threads :
    at[t] \in {"close_fence", "global_write", "writing", "uncount_writer"}}

\* The writers are counted from their announcement to their departure, on which
\* the waits of the readers, TryAcquireRead and TryAcquireWrite rely.
WritersCounted ==
    /\ mWriterCount = Cardinality(Announced)
    /\ open \in BOOLEAN

\* "it also gives writers priority over the lock such that if a writer attempts
\* to acquire the lock reader will wait until the writer has acquired and
\* released the lock": readers that keep coming cannot keep a writer out.
WriterEnters ==
    (\E t \in Threads : at[t] = "global_write") ~> (\E t \in Threads : at[t] = "writing")

\* Readers are not left waiting for writers that are gone, however the stores
\* to the fence of a departing and an arriving writer are ordered.
ReaderEnters ==
    (\E t \in Threads : at[t] = "fence") ~> (Readers # {} \/ Announced # {})

\* RWLock is a readers/writer lock of the kind RWSpinLock is.
Before == {"fence", "fence_check", "try_write", "count_writer", "close_fence",
           "uncount_writer", "open_fence"}
Spin == INSTANCE RWSpinLock WITH
            at <- [t \in Threads |-> IF at[t] \in Before THEN "idle" ELSE at[t]]
ImplementsRWSpinLock == Spin!Spec

=============================================================================
