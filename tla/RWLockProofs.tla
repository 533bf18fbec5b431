----------------------------- MODULE RWLockProofs -----------------------------
(***************************************************************************)
(* For every finite set of threads: the exclusion RWSpinLock and RWLock    *)
(* provide, the exactness of their counts of readers and writers, the      *)
(* asserts of their releases, that both implement ReadersWriter, and that  *)
(* RWLock is a RWSpinLock whose users come and go in more steps.           *)
(*                                                                         *)
(* The steps of RWLock before and after the lock leave the words of the    *)
(* lock alone, so one invariant and one proof of its steps serve both.     *)
(***************************************************************************)
EXTENDS RWLock, FiniteSetTheorems, TLAPS

\* Where RWSpinLock has a thread, and where a thread is that has no part in it.
Inside == {"idle", "lock_in", "count_in", "global_in", "unlock_in", "reading",
           "lock_out", "count_out", "global_out", "unlock_out", "global_write",
           "writing"}
Outside == {"idle"} \cup Before

WordTypes ==
    /\ mGlobal \in {"unlocked", "read", "write"}
    /\ mReaderCount \in Nat
    /\ mReaderLock \in Threads \cup {Free}
    /\ at \in [Threads -> Inside \cup Before]

\* The reader that gives mGlobal back is the last: nobody is counted.
LastReaderAlone == \A t \in Threads : at[t] = "global_out" => Counted = {}

LockInv ==
    /\ WordTypes /\ MutualExclusion /\ ReadersCounted
    /\ GlobalNamesHolder /\ LastReaderAlone

\* A step of a user that does not hold the lock, up to asking for it.
Approach(t) ==
    /\ \E from \in Outside, to \in Outside \cup {"lock_in", "global_write"} : Move(t, from, to)
    /\ UNCHANGED <<mGlobal, mReaderCount, mReaderLock>>

\* What a thread may do to the words of either lock.
WordStep(t) ==
    \/ Approach(t) \/ LockStep(t) \/ ReleaseRead(t)
    \/ \E to \in Outside : UnlockForWriter(t, to)

WordNext == (\E t \in Threads : WordStep(t)) \/ UNCHANGED spinVars

LEMMA NextIsWordNext == [Next]_spinVars => WordNext
  BY DEF Next, WordNext, WordStep, Approach, AcquireRead, AcquireWrite, Outside

LEMMA RWLockNextIsWordNext == [RWLockNext]_vars => WordNext
<1>. SUFFICES ASSUME [RWLockNext]_vars PROVE WordNext
  OBVIOUS
<1>1. ASSUME NEW t \in Threads, OperationStep(t)
      PROVE  WordStep(t)
  BY <1>1 DEF OperationStep, WordStep, Approach, FenceWait, FenceTimeout, TryNoReaders,
     CountWriter, CloseFence, UncountWriter, OpenFence, Outside, Before
<1>2. ASSUME NEW t \in Threads,
             AnnounceWrite(t) \/ TryAcquireWrite(t) \/ WaitFirst(t) \/ TryAcquireRead(t)
      PROVE  WordStep(t)
  BY <1>2 DEF WordStep, Approach, AnnounceWrite, TryAcquireWrite, WaitFirst,
     TryAcquireRead, Outside, Before
<1>. QED
  BY <1>1, <1>2 DEF RWLockNext, WordNext, vars

LEMMA CountedFinite == IsFiniteSet(Counted) /\ Cardinality(Counted) \in Nat
<1>1. Counted \subseteq Threads
  BY DEF Counted
<1>. QED
  BY <1>1, ThreadsAssumption, FS_Subset, FS_CardinalityType

\* A reader that is counted makes the count positive, and a positive count
\* has a reader.
LEMMA CountPositive ==
    ASSUME ReadersCounted
    PROVE  mReaderCount = 0 <=> Counted = {}
  BY CountedFinite, FS_EmptySet DEF ReadersCounted

\* Whoever is counted while t is about to be, or is in the middle of leaving,
\* shares mGlobal: only the owner of mReaderLock could be on its way in.
LEMMA CountedShares ==
    ASSUME LockInv, NEW t \in Locked, at[t] # "global_in", NEW u \in Counted
    PROVE  u \in Sharing
<1>1. t \in Threads /\ u \in Threads /\ mReaderLock = t
  BY DEF Locked, Counted, LockInv, ReadersCounted
<1>2. at[u] # "global_in"
  BY <1>1, ThreadsAssumption DEF Locked, LockInv, ReadersCounted
<1>. QED
  BY <1>1, <1>2 DEF Counted, Sharing

-----------------------------------------------------------------------------
(***************************************************************************)
(* One step at a time                                                      *)
(***************************************************************************)
LEMMA InitInv == Init => LockInv
<1>. SUFFICES ASSUME Init PROVE LockInv
  OBVIOUS
<1>1. Counted = {} /\ Sharing = {} /\ Writers = {} /\ Readers = {} /\ Locked = {}
  BY DEF Init, Counted, Sharing, Writers, Readers, Locked
<1>2. Cardinality(Counted) = 0
  BY <1>1, FS_EmptySet
<1>. QED
  BY <1>1, <1>2, ThreadsAssumption
  DEF Init, LockInv, WordTypes, Inside, MutualExclusion, ReadersCounted,
      GlobalNamesHolder, LastReaderAlone

LEMMA NextTypes == LockInv /\ WordNext => WordTypes'
<1>. SUFFICES ASSUME LockInv, WordNext PROVE WordTypes'
  OBVIOUS
<1>. USE DEF LockInv, WordTypes, Inside, Before, Move
<1>1. ASSUME NEW t \in Threads, UncountReader(t)
      PROVE  WordTypes'
  <2>1. t \in Counted
    BY <1>1 DEF UncountReader, Counted
  <2>2. mReaderCount - 1 \in Nat
    BY <2>1, CountPositive
  <2>. QED
    BY <1>1, <2>2 DEF UncountReader
<1>2. ASSUME NEW t \in Threads,
             \/ Approach(t) \/ ReleaseRead(t) \/ LockForWriter(t)
             \/ \E to \in Outside : UnlockForWriter(t, to)
             \/ LockForReaders(t) \/ UnlockForReaders(t)
      PROVE  WordTypes'
  BY <1>2 DEF Approach, Outside, Before, Inside, ReleaseRead, UnlockForWriter,
     LockForWriter, LockForReaders, UnlockForReaders
<1>3. ASSUME NEW t \in Threads, LockReaders(t) \/ UnlockReaders(t)
      PROVE  WordTypes'
  BY <1>3 DEF LockReaders, UnlockReaders
<1>4. ASSUME NEW t \in Threads, CountReader(t)
      PROVE  WordTypes'
  BY <1>4 DEF CountReader
<1>5. CASE UNCHANGED spinVars
  BY <1>5 DEF spinVars
<1>. QED
  BY <1>1, <1>2, <1>3, <1>4, <1>5 DEF WordNext, WordStep, LockStep

LEMMA NextCounted == LockInv /\ WordNext => ReadersCounted'
<1>. SUFFICES ASSUME LockInv, WordNext PROVE ReadersCounted'
  OBVIOUS
<1>. USE DEF LockInv, WordTypes, ReadersCounted, Move
<1>1. ASSUME NEW t \in Threads, CountReader(t)
      PROVE  ReadersCounted'
  <2>1. t \notin Counted /\ Counted' = Counted \cup {t} /\ Locked' = Locked
    BY <1>1 DEF CountReader, Counted, Locked
  <2>2. Cardinality(Counted') = Cardinality(Counted) + 1
    BY <2>1, CountedFinite, FS_AddElement
  <2>. QED
    BY <1>1, <2>1, <2>2 DEF CountReader
<1>2. ASSUME NEW t \in Threads, UncountReader(t)
      PROVE  ReadersCounted'
  <2>1. t \in Counted /\ Counted' = Counted \ {t} /\ Locked' = Locked
    BY <1>2 DEF UncountReader, Counted, Locked
  <2>2. Cardinality(Counted') = Cardinality(Counted) - 1
    BY <2>1, CountedFinite, FS_RemoveElement
  <2>. QED
    BY <1>2, <2>1, <2>2 DEF UncountReader
<1>3. ASSUME NEW t \in Threads, LockReaders(t)
      PROVE  ReadersCounted'
  <2>1. Counted' = Counted /\ Locked' = Locked \cup {t}
    BY <1>3 DEF LockReaders, Counted, Locked
  <2>. QED
    BY <1>3, <2>1, ThreadsAssumption DEF LockReaders
<1>4. ASSUME NEW t \in Threads, UnlockReaders(t)
      PROVE  ReadersCounted'
  <2>1. Counted' = Counted /\ Locked' = Locked \ {t} /\ t \in Locked
    BY <1>4 DEF UnlockReaders, Counted, Locked
  <2>. QED
    BY <1>4, <2>1, ThreadsAssumption DEF UnlockReaders
<1>5. ASSUME NEW t \in Threads,
             \/ Approach(t) \/ ReleaseRead(t) \/ LockForWriter(t)
             \/ \E to \in Outside : UnlockForWriter(t, to)
             \/ LockForReaders(t) \/ UnlockForReaders(t)
      PROVE  ReadersCounted'
  <2>1. Counted' = Counted /\ Locked' = Locked
    BY <1>5 DEF Approach, Outside, Before, Inside, ReleaseRead, UnlockForWriter,
       LockForWriter, LockForReaders, UnlockForReaders, Counted, Locked
  <2>2. UNCHANGED <<mReaderCount, mReaderLock>>
    BY <1>5 DEF Approach, Outside, Before, Inside, ReleaseRead, UnlockForWriter,
       LockForWriter, LockForReaders, UnlockForReaders
  <2>. QED
    BY <2>1, <2>2
<1>6. CASE UNCHANGED spinVars
  BY <1>6 DEF spinVars, Counted, Locked
<1>. QED
  BY <1>1, <1>2, <1>3, <1>4, <1>5, <1>6 DEF WordNext, WordStep, LockStep

\* The rest of the invariant, action by action.
Rest == MutualExclusion /\ GlobalNamesHolder /\ LastReaderAlone

LEMMA NextRest == LockInv /\ WordNext => Rest'
<1>. SUFFICES ASSUME LockInv, WordNext PROVE Rest'
  OBVIOUS
<1>. USE DEF LockInv, WordTypes, Move, Rest, MutualExclusion, GlobalNamesHolder, LastReaderAlone
<1>1. ASSUME NEW t \in Threads, CountReader(t)
      PROVE  Rest'
  <2>1. t \in Locked /\ at[t] # "global_in" /\ \A u \in Threads : at[u] # "global_out"
    BY <1>1, ThreadsAssumption DEF CountReader, Locked, ReadersCounted
  <2>2. Writers' = Writers /\ \A u \in Threads : at'[u] # "global_out"
    BY <1>1, <2>1 DEF CountReader, Writers
  <2>3. CASE mReaderCount' = 1
    <3>1. Sharing' = Sharing /\ Readers' = Readers
      BY <1>1, <2>3 DEF CountReader, Sharing, Readers
    <3>. QED
      BY <1>1, <2>2, <3>1 DEF CountReader
  <2>4. CASE mReaderCount' # 1
    <3>1. Counted # {}
      BY <1>1, <2>4, CountPositive DEF CountReader
    <3>2. Sharing # {}
      BY <2>1, <3>1, CountedShares
    <3>3. Sharing' = Sharing \cup {t}
      BY <1>1, <2>4 DEF CountReader, Sharing
    <3>. QED
      BY <1>1, <2>2, <3>2, <3>3 DEF CountReader
  <2>. QED
    BY <2>3, <2>4
<1>2. ASSUME NEW t \in Threads, UncountReader(t)
      PROVE  Rest'
  <2>1. t \in Locked /\ at[t] # "global_in" /\ t \in Sharing
    BY <1>2 DEF UncountReader, Locked, Sharing
  <2>2. Writers' = Writers /\ Readers' = Readers /\ Counted' = Counted \ {t}
    BY <1>2 DEF UncountReader, Writers, Readers, Counted
  <2>3. \A u \in Threads : u # t => at[u] # "global_out"
    BY <2>1 DEF Locked, ReadersCounted
  <2>4. mReaderCount' = 0 <=> Counted' = {}
    <3>1. IsFiniteSet(Counted')
      BY <2>2, CountedFinite, FS_RemoveElement
    <3>2. mReaderCount' = Cardinality(Counted')
      BY NextCounted DEF ReadersCounted
    <3>. QED
      BY <3>1, <3>2, FS_EmptySet
  <2>5. CASE mReaderCount' = 0
    <3>1. Sharing' = Sharing
      BY <1>2, <2>5 DEF UncountReader, Sharing
    <3>. QED
      BY <1>2, <2>2, <2>4, <2>5, <3>1 DEF UncountReader
  <2>6. CASE mReaderCount' # 0
    <3>1. Sharing' = Sharing \ {t} /\ \A u \in Threads : at'[u] # "global_out"
      BY <1>2, <2>3, <2>6 DEF UncountReader, Sharing
    <3>2. PICK u \in Counted : u # t
      BY <2>2, <2>4, <2>6
    <3>3. u \in Sharing
      BY <2>1, CountedShares
    <3>. QED
      BY <1>2, <2>1, <2>2, <3>1, <3>2, <3>3 DEF UncountReader
  <2>. QED
    BY <2>5, <2>6
<1>3. ASSUME NEW t \in Threads, LockForReaders(t)
      PROVE  Rest'
  <2>1. /\ Sharing' = Sharing \cup {t} /\ Readers' = Readers \cup {t}
        /\ Writers' = Writers /\ Counted' = Counted
    BY <1>3 DEF LockForReaders, Sharing, Readers, Writers, Counted
  <2>2. \A u \in Threads : at'[u] = "global_out" => at[u] = "global_out"
    BY <1>3 DEF LockForReaders
  <2>. QED
    BY <1>3, <2>1, <2>2 DEF LockForReaders
<1>4. ASSUME NEW t \in Threads, UnlockForReaders(t)
      PROVE  Rest'
  <2>1. Counted = {} /\ t \in Locked
    BY <1>4 DEF UnlockForReaders, Locked
  <2>2. \A u \in Threads : u # t => at[u] # "global_out"
    BY <1>4, <2>1 DEF Locked, ReadersCounted
  <2>3. Sharing = {t}
    BY <1>4, <2>1, <2>2 DEF UnlockForReaders, Sharing, Counted
  <2>4. Sharing' = {} /\ Readers' = Readers /\ Writers' = Writers /\ Counted' = Counted
    BY <1>4, <2>3 DEF UnlockForReaders, Sharing, Readers, Writers, Counted
  <2>5. mGlobal = "read" /\ mGlobal' = "unlocked"
    BY <1>4, <2>3 DEF UnlockForReaders
  <2>. QED
    BY <2>1, <2>4, <2>5
<1>5. ASSUME NEW t \in Threads, LockForWriter(t)
      PROVE  Rest'
  <2>1. Sharing = {} /\ Writers = {} /\ Readers = {}
    BY <1>5 DEF LockForWriter, Sharing, Readers
  <2>2. Sharing' = Sharing /\ Readers' = Readers /\ Writers' = {t} /\ Counted' = Counted
    BY <1>5, <2>1 DEF LockForWriter, Sharing, Readers, Writers, Counted
  <2>3. \A u \in Threads : at'[u] = "global_out" => at[u] = "global_out"
    BY <1>5 DEF LockForWriter
  <2>. QED
    BY <1>5, <2>1, <2>2, <2>3 DEF LockForWriter
<1>6. ASSUME NEW t \in Threads, NEW to \in Outside, UnlockForWriter(t, to)
      PROVE  Rest'
  <2>. USE DEF Outside, Before
  <2>1. Writers = {t} /\ mGlobal = "write"
    BY <1>6 DEF UnlockForWriter, Writers
  <2>2. Sharing' = Sharing /\ Readers' = Readers /\ Writers' = {} /\ Counted' = Counted
    BY <1>6, <2>1 DEF UnlockForWriter, Sharing, Readers, Writers, Counted
  <2>3. \A u \in Threads : at'[u] = "global_out" => at[u] = "global_out"
    BY <1>6 DEF UnlockForWriter
  <2>. QED
    BY <1>6, <2>1, <2>2, <2>3 DEF UnlockForWriter
<1>7. ASSUME NEW t \in Threads,
             \/ Approach(t) \/ ReleaseRead(t)
             \/ LockReaders(t) \/ UnlockReaders(t)
      PROVE  Rest'
  <2>. USE DEF Approach, Outside, Before, Inside, ReleaseRead, LockReaders, UnlockReaders
  <2>1. Sharing' = Sharing /\ Writers' = Writers /\ Counted' = Counted
    BY <1>7 DEF Sharing, Writers, Counted
  <2>2. Readers' \subseteq Readers
    BY <1>7 DEF Readers
  <2>3. \A u \in Threads : at'[u] = "global_out" => at[u] = "global_out"
    BY <1>7
  <2>4. mGlobal' = mGlobal
    BY <1>7
  <2>. QED
    BY <2>1, <2>2, <2>3, <2>4
<1>8. CASE UNCHANGED spinVars
  BY <1>8 DEF spinVars, Sharing, Writers, Readers, Counted
<1>. QED
  BY <1>1, <1>2, <1>3, <1>4, <1>5, <1>6, <1>7, <1>8 DEF WordNext, WordStep, LockStep

LEMMA LockInvKept == LockInv /\ WordNext => LockInv'
  BY NextTypes, NextCounted, NextRest DEF LockInv, Rest

-----------------------------------------------------------------------------
(***************************************************************************)
(* Users see a readers/writer lock.                                        *)
(***************************************************************************)
LEMMA InitAbstract == Init => Abstract!Init
  BY DEF Init, Abstract!Init, Readers, Writers

\* Every step of a thread starts or ends a read or a write, or changes nothing
\* that a user can see.
LEMMA NextAbstract ==
    LockInv /\ LockInv' /\ WordNext => [Abstract!Next]_<<Readers, Writers>>
<1>. SUFFICES ASSUME LockInv, LockInv', WordNext
              PROVE  [Abstract!Next]_<<Readers, Writers>>
  OBVIOUS
<1>. USE DEF LockInv, WordTypes, Move, Abstract!Next, Abstract!StartRead,
             Abstract!EndRead, Abstract!StartWrite, Abstract!EndWrite
<1>1. ASSUME NEW t \in Threads,
             \/ Approach(t) \/ LockReaders(t)
             \/ UncountReader(t) \/ UnlockForReaders(t)
      PROVE  UNCHANGED <<Readers, Writers>>
  BY <1>1 DEF Approach, Outside, Before, LockReaders, UncountReader,
     UnlockForReaders, Readers, Writers
<1>2. ASSUME NEW t \in Threads, UnlockReaders(t)
      PROVE  UNCHANGED <<Readers, Writers>>
  BY <1>2 DEF UnlockReaders, Readers, Writers
<1>3. ASSUME NEW t \in Threads, CountReader(t) \/ LockForReaders(t)
      PROVE  UNCHANGED <<Readers, Writers>> \/ Abstract!StartRead(t)
  <2>1. /\ Writers' = Writers /\ t \notin Readers
        /\ Readers' = Readers \/ Readers' = Readers \cup {t}
    BY <1>3 DEF CountReader, LockForReaders, Readers, Writers
  <2>2. t \in Readers' => Writers' = {}
    BY DEF MutualExclusion
  <2>. QED
    BY <2>1, <2>2
<1>4. ASSUME NEW t \in Threads, ReleaseRead(t)
      PROVE  Abstract!EndRead(t)
  BY <1>4 DEF ReleaseRead, Readers, Writers
<1>5. ASSUME NEW t \in Threads, LockForWriter(t)
      PROVE  Abstract!StartWrite(t)
  <2>1. Writers = {} /\ Readers = {}
    BY <1>5 DEF LockForWriter, GlobalNamesHolder, Readers, Sharing
  <2>. QED
    BY <1>5, <2>1 DEF LockForWriter, Readers, Writers
<1>6. ASSUME NEW t \in Threads, NEW to \in Outside, UnlockForWriter(t, to)
      PROVE  Abstract!EndWrite(t)
  BY <1>6 DEF UnlockForWriter, MutualExclusion, Outside, Before, Readers, Writers
<1>7. CASE UNCHANGED spinVars
  BY <1>7 DEF spinVars, Readers, Writers
<1>. QED
  BY <1>1, <1>2, <1>3, <1>4, <1>5, <1>6, <1>7 DEF WordNext, WordStep, LockStep

-----------------------------------------------------------------------------
(***************************************************************************)
(* RWSpinLock                                                              *)
(***************************************************************************)
LEMMA SpinTypes == TypeOK /\ LockInv' /\ [Next]_spinVars => TypeOK'
<1>. SUFFICES ASSUME TypeOK, LockInv', [Next]_spinVars PROVE TypeOK'
  OBVIOUS
<1>1. at' \in [Threads -> Inside]
  BY DEF TypeOK, Next, spinVars, Move, Inside, AcquireRead, AcquireWrite, ReleaseRead,
     UnlockForWriter, LockStep, LockReaders, CountReader, LockForReaders,
     UncountReader, UnlockForReaders, UnlockReaders, LockForWriter
<1>. QED
  BY <1>1 DEF TypeOK, LockInv, WordTypes, Inside

LEMMA SpinInvariance == Spec => [](TypeOK /\ LockInv)
<1>1. Init => TypeOK /\ LockInv
  BY InitInv, ThreadsAssumption DEF Init, TypeOK
<1>2. TypeOK /\ LockInv /\ [Next]_spinVars => (TypeOK /\ LockInv)'
  BY NextIsWordNext, LockInvKept, SpinTypes
<1>. QED
  BY <1>1, <1>2, PTL DEF Spec

\* The variables of RWSpinLock keep their types: mReaderCount never goes below
\* zero, as its asserts say.
THEOREM TypeCorrect == Spec => []TypeOK
  BY SpinInvariance, PTL

\* AcquireRead and AcquireWrite exclude each other, and writers one another.
THEOREM Exclusion == Spec => []MutualExclusion
  BY SpinInvariance, PTL DEF LockInv

\* mReaderCount counts exactly the readers between arrival and departure.
THEOREM ReaderCountExact == Spec => []ReadersCounted
  BY SpinInvariance, PTL DEF LockInv

\* The assert of RWRelease holds: a release finds in mGlobal what it put there.
THEOREM ReleasesMatch == Spec => []GlobalNamesHolder
  BY SpinInvariance, PTL DEF LockInv

\* RWSpinLock implements the readers/writer lock.
THEOREM Implementation == Spec => ImplementsReadersWriter
<1>1. LockInv /\ LockInv' /\ [Next]_spinVars => [Abstract!Next]_<<Readers, Writers>>
  BY NextIsWordNext, NextAbstract
<1>. QED
  BY <1>1, InitAbstract, SpinInvariance, PTL DEF Spec, ImplementsReadersWriter, Abstract!Spec

-----------------------------------------------------------------------------
(***************************************************************************)
(* RWLock: the writers are counted.                                        *)
(***************************************************************************)
CountTypes == at \in [Threads -> Inside \cup Before] /\ mWriterCount \in Nat

CountInv == CountTypes /\ WritersCounted

LEMMA AnnouncedFinite == IsFiniteSet(Announced) /\ Cardinality(Announced) \in Nat
<1>1. Announced \subseteq Threads
  BY DEF Announced
<1>. QED
  BY <1>1, ThreadsAssumption, FS_Subset, FS_CardinalityType

LEMMA InitCount == RWLockInit => CountInv
<1>. SUFFICES ASSUME RWLockInit PROVE CountInv
  OBVIOUS
<1>1. Announced = {}
  BY DEF RWLockInit, Init, Announced
<1>2. Cardinality(Announced) = 0
  BY <1>1, FS_EmptySet
<1>. QED
  BY <1>2 DEF RWLockInit, Init, CountInv, CountTypes, WritersCounted, Inside

\* A step of the lock itself takes no thread in or out of Announced, but for the
\* writers', who stay in it.
LEMMA LockStepCount ==
    ASSUME CountInv, NEW t \in Threads, UNCHANGED writerVars,
           LockStep(t) \/ ReleaseRead(t) \/ UnlockForWriter(t, "uncount_writer")
    PROVE  CountInv'
<1>. USE DEF CountInv, CountTypes, Move, Inside, Before
<1>1. /\ at' \in [Threads -> Inside \cup Before]
      /\ Announced' = Announced
  <2>1. CASE LockReaders(t)
    BY <2>1 DEF LockReaders, Announced
  <2>2. CASE CountReader(t)
    BY <2>2 DEF CountReader, Announced
  <2>3. CASE LockForReaders(t)
    BY <2>3 DEF LockForReaders, Announced
  <2>4. CASE UncountReader(t)
    BY <2>4 DEF UncountReader, Announced
  <2>5. CASE UnlockForReaders(t)
    BY <2>5 DEF UnlockForReaders, Announced
  <2>6. CASE UnlockReaders(t)
    BY <2>6 DEF UnlockReaders, Announced
  <2>7. CASE LockForWriter(t)
    BY <2>7 DEF LockForWriter, Announced
  <2>8. CASE ReleaseRead(t)
    BY <2>8 DEF ReleaseRead, Announced
  <2>9. CASE UnlockForWriter(t, "uncount_writer")
    BY <2>9 DEF UnlockForWriter, Announced
  <2>. QED
    BY <2>1, <2>2, <2>3, <2>4, <2>5, <2>6, <2>7, <2>8, <2>9 DEF LockStep
<1>. QED
  BY <1>1 DEF WritersCounted, writerVars

LEMMA NextCount == CountInv /\ [RWLockNext]_vars => CountInv'
<1>. SUFFICES ASSUME CountInv, [RWLockNext]_vars PROVE CountInv'
  OBVIOUS
<1>. USE DEF CountInv, CountTypes, WritersCounted, Move, Inside, Before
<1>1. ASSUME NEW t \in Threads, CountWriter(t)
      PROVE  CountInv'
  <2>1. t \notin Announced /\ Announced' = Announced \cup {t}
    BY <1>1 DEF CountWriter, Announced
  <2>2. Cardinality(Announced') = Cardinality(Announced) + 1
    BY <2>1, AnnouncedFinite, FS_AddElement
  <2>. QED
    BY <1>1, <2>2 DEF CountWriter
<1>2. ASSUME NEW t \in Threads, UncountWriter(t)
      PROVE  CountInv'
  <2>1. t \in Announced /\ Announced' = Announced \ {t}
    BY <1>2 DEF UncountWriter, Announced
  <2>2. Cardinality(Announced') = Cardinality(Announced) - 1 /\ Cardinality(Announced') \in Nat
    BY <2>1, AnnouncedFinite, FS_RemoveElement, FS_CardinalityType
  <2>. QED
    BY <1>2, <2>2 DEF UncountWriter
<1>3. ASSUME NEW t \in Threads,
             \/ FenceWait(t) \/ FenceTimeout(t) \/ TryNoReaders(t)
             \/ WaitFirst(t) \/ TryAcquireRead(t)
             \/ AnnounceWrite(t) \/ TryAcquireWrite(t)
      PROVE  CountInv'
  <2>. USE DEF FenceWait, FenceTimeout, TryNoReaders, WaitFirst, TryAcquireRead,
            AnnounceWrite, TryAcquireWrite, writerVars
  <2>1. Announced' = Announced
    BY <1>3 DEF Announced
  <2>2. UNCHANGED writerVars /\ at' \in [Threads -> Inside \cup Before]
    BY <1>3
  <2>. QED
    BY <2>1, <2>2
<1>4. ASSUME NEW t \in Threads, CloseFence(t) \/ OpenFence(t)
      PROVE  CountInv'
  <2>1. Announced' = Announced
    BY <1>4 DEF CloseFence, OpenFence, Announced
  <2>. QED
    BY <1>4, <2>1 DEF CloseFence, OpenFence
<1>5. CASE UNCHANGED vars
  BY <1>5 DEF vars, spinVars, writerVars, Announced
<1>. QED
  BY <1>1, <1>2, <1>3, <1>4, <1>5, LockStepCount DEF RWLockNext, OperationStep

LEMMA RWLockInvariance == RWLockSpec => [](LockInv /\ CountInv)
<1>1. RWLockInit => LockInv /\ CountInv
  BY InitInv, InitCount DEF RWLockInit
<1>2. LockInv /\ CountInv /\ [RWLockNext]_vars => (LockInv /\ CountInv)'
  BY RWLockNextIsWordNext, LockInvKept, NextCount
<1>. QED
  BY <1>1, <1>2, PTL DEF RWLockSpec

\* mWriterCount is exact: TryAcquireRead and TryAcquireWrite refuse, and readers
\* wait at the fence, while some writer is between its count and its uncount.
THEOREM WritersExact == RWLockSpec => []WritersCounted
  BY RWLockInvariance, PTL DEF CountInv

\* No reader is inside RWLock beside a writer, and no two writers are.
THEOREM LockExcludes == RWLockSpec => []MutualExclusion
  BY RWLockInvariance, PTL DEF LockInv

\* mReaderCount is exact under the fence too.
THEOREM LockCountsReaders == RWLockSpec => []ReadersCounted
  BY RWLockInvariance, PTL DEF LockInv

\* A release finds in mGlobal what it put there, as RWRelease asserts.
THEOREM LockReleasesMatch == RWLockSpec => []GlobalNamesHolder
  BY RWLockInvariance, PTL DEF LockInv

\* RWLock implements the readers/writer lock its users see.
THEOREM LockImplementsReadersWriter == RWLockSpec => ImplementsReadersWriter
<1>1. RWLockInit => Abstract!Init
  BY InitAbstract DEF RWLockInit
<1>2. LockInv /\ LockInv' /\ [RWLockNext]_vars => [Abstract!Next]_<<Readers, Writers>>
  BY RWLockNextIsWordNext, NextAbstract
<1>. QED
  BY <1>1, <1>2, RWLockInvariance, PTL
  DEF RWLockSpec, ImplementsReadersWriter, Abstract!Spec

-----------------------------------------------------------------------------
(***************************************************************************)
(* RWLock implements RWSpinLock.                                           *)
(***************************************************************************)
\* A thread that moves is seen to move from and to where RWSpinLock has it.
LEMMA MappedMove ==
    ASSUME CountTypes, NEW t \in Threads, NEW from, NEW to, Move(t, from, to)
    PROVE  Spin!Move(t, IF from \in Before THEN "idle" ELSE from,
                          IF to \in Before THEN "idle" ELSE to)
  BY DEF CountTypes, Move, Spin!Move

\* Inside the lock the steps are those of RWSpinLock.
LEMMA MappedLockStep ==
    ASSUME CountTypes, NEW t \in Threads,
           LockStep(t) \/ ReleaseRead(t) \/ UnlockForWriter(t, "uncount_writer")
    PROVE  Spin!Next
<1>1. CASE LockReaders(t)
  BY <1>1, MappedMove DEF LockReaders, Spin!LockReaders, Spin!LockStep, Spin!Next, Before
<1>2. CASE CountReader(t)
  <2>1. PICK to \in {"global_in", "unlock_in"} :
            /\ to = IF mReaderCount' = 1 THEN "global_in" ELSE "unlock_in"
            /\ Move(t, "count_in", to)
    BY <1>2 DEF CountReader
  <2>2. Spin!Move(t, "count_in", to)
    BY <2>1, MappedMove DEF Before
  <2>3. Spin!CountReader(t)
    BY <1>2, <2>1, <2>2 DEF CountReader, Spin!CountReader, Spin!Move
  <2>. QED
    BY <2>3 DEF Spin!LockStep, Spin!Next
<1>3. CASE LockForReaders(t)
  BY <1>3, MappedMove DEF LockForReaders, Spin!LockForReaders, Spin!LockStep, Spin!Next, Before
<1>4. CASE UncountReader(t)
  <2>1. PICK to \in {"global_out", "unlock_out"} :
            /\ to = IF mReaderCount' = 0 THEN "global_out" ELSE "unlock_out"
            /\ Move(t, "count_out", to)
    BY <1>4 DEF UncountReader
  <2>2. Spin!Move(t, "count_out", to)
    BY <2>1, MappedMove DEF Before
  <2>3. Spin!UncountReader(t)
    BY <1>4, <2>1, <2>2 DEF UncountReader, Spin!UncountReader, Spin!Move
  <2>. QED
    BY <2>3 DEF Spin!LockStep, Spin!Next
<1>5. CASE UnlockForReaders(t)
  BY <1>5, MappedMove DEF UnlockForReaders, Spin!UnlockForReaders, Spin!LockStep, Spin!Next, Before
<1>6. CASE UnlockReaders(t)
  BY <1>6, MappedMove DEF UnlockReaders, Spin!UnlockReaders, Spin!LockStep, Spin!Next, Before
<1>7. CASE LockForWriter(t)
  BY <1>7, MappedMove DEF LockForWriter, Spin!LockForWriter, Spin!LockStep, Spin!Next, Before
<1>8. CASE ReleaseRead(t)
  BY <1>8, MappedMove DEF ReleaseRead, Spin!ReleaseRead, Spin!Next, Before
<1>9. CASE UnlockForWriter(t, "uncount_writer")
  BY <1>9, MappedMove DEF UnlockForWriter, Spin!UnlockForWriter, Spin!Next, Before
<1>. QED
  BY <1>1, <1>2, <1>3, <1>4, <1>5, <1>6, <1>7, <1>8, <1>9 DEF LockStep

\* The steps before and after it are the calls of RWSpinLock, or nothing.
LEMMA MappedStep ==
    CountInv /\ [RWLockNext]_vars => [Spin!Next]_Spin!spinVars
<1>. SUFFICES ASSUME CountInv, [RWLockNext]_vars PROVE [Spin!Next]_Spin!spinVars
  OBVIOUS
<1>. USE DEF CountInv
<1>1. ASSUME NEW t \in Threads, NEW from \in Before \cup {"idle"},
             NEW to \in Before \cup {"idle"}, Move(t, from, to),
             UNCHANGED <<mGlobal, mReaderCount, mReaderLock>>
      PROVE  UNCHANGED Spin!spinVars
  BY <1>1 DEF CountTypes, Move, Spin!spinVars, Before
<1>2. ASSUME NEW t \in Threads, NEW from \in Before, Move(t, from, "lock_in"),
             UNCHANGED <<mGlobal, mReaderCount, mReaderLock>>
      PROVE  Spin!Next
  BY <1>2, MappedMove DEF Spin!AcquireRead, Spin!Next, Before
<1>3. ASSUME NEW t \in Threads, NEW from \in Before, Move(t, from, "global_write"),
             UNCHANGED <<mGlobal, mReaderCount, mReaderLock>>
      PROVE  Spin!Next
  BY <1>3, MappedMove DEF Spin!AcquireWrite, Spin!Next, Before
<1>4. ASSUME NEW t \in Threads,
             \/ WaitFirst(t) \/ TryAcquireRead(t) \/ AnnounceWrite(t)
             \/ TryAcquireWrite(t) \/ TryNoReaders(t) \/ UncountWriter(t)
             \/ OpenFence(t)
      PROVE  UNCHANGED Spin!spinVars
  BY <1>4, <1>1 DEF WaitFirst, TryAcquireRead, AnnounceWrite, TryAcquireWrite,
     TryNoReaders, UncountWriter, OpenFence, Before
<1>5. ASSUME NEW t \in Threads, FenceWait(t) \/ FenceTimeout(t)
      PROVE  Spin!Next \/ UNCHANGED Spin!spinVars
  BY <1>5, <1>1, <1>2 DEF FenceWait, FenceTimeout, Before
<1>6. ASSUME NEW t \in Threads, CountWriter(t) \/ CloseFence(t)
      PROVE  Spin!Next \/ UNCHANGED Spin!spinVars
  BY <1>6, <1>1, <1>3 DEF CountWriter, CloseFence, Before
<1>7. CASE UNCHANGED vars
  BY <1>7 DEF vars, spinVars, Spin!spinVars
<1>. QED
  BY <1>4, <1>5, <1>6, <1>7, MappedLockStep DEF RWLockNext, OperationStep

\* RWLock is a RWSpinLock: what the fence and the writers' count add is invisible
\* to it.
THEOREM LockImplementsSpinLock == RWLockSpec => ImplementsRWSpinLock
<1>1. RWLockInit => Spin!Init
  BY DEF RWLockInit, Init, Spin!Init, Before
<1>2. CountInv /\ [RWLockNext]_vars => [Spin!Next]_Spin!spinVars
  BY MappedStep
<1>. QED
  BY <1>1, <1>2, RWLockInvariance, PTL DEF RWLockSpec, Spin!Spec, ImplementsRWSpinLock

=============================================================================
