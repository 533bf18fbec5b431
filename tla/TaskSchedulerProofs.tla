-------------------------- MODULE TaskSchedulerProofs --------------------------
(***************************************************************************)
(* For any number of workers, clients and tasks, any capacity of the queue *)
(* and any width of its counters.  First the ring on its own: the types,   *)
(* the exclusive ownership of a reserved slot, the exactness of mSize, and *)
(* that the ring implements the bounded bag.  Then the scheduler: a task   *)
(* is run at most once and is in one place until then, a handle names its  *)
(* own task, and Shutdown leaves none behind.                              *)
(***************************************************************************)
EXTENDS TaskScheduler, FiniteSetTheorems, TLAPS

(***************************************************************************)
(* The ring                                                                *)
(***************************************************************************)
\* A ticket, wrapped and sign-extended or not, names a slot of the ring.
LEMMA IndexInSlots ==
    ASSUME NEW id \in 0..(IdModulus - 1)
    PROVE  Index(id) \in Slots
<1>1. \A x \in Nat : x % Size \in 0..(Size - 1)
  BY SizeAssumption
<1>2. (IF 2 * id < IdModulus THEN id ELSE WordModulus - IdModulus + id) \in Nat
  BY WidthAssumption
<1>. QED
  BY <1>1, <1>2 DEF Index, Slots

LEMMA NextIdInRange ==
    ASSUME NEW id \in 0..(IdModulus - 1)
    PROVE  NextId(id) \in 0..(IdModulus - 1)
<1>1. \A x \in Nat : x % IdModulus \in 0..(IdModulus - 1)
  BY WidthAssumption
<1>. QED
  BY <1>1 DEF NextId

\* The serial of a slot never becomes INVALID32.
LEMMA NextSerialInRange ==
    ASSUME NEW s \in 0..(SerialModulus - 2)
    PROVE  NextSerial(s) \in 0..(SerialModulus - 2)
  BY WidthAssumption DEF NextSerial, INVALID_SERIAL

-----------------------------------------------------------------------------
SlotArrays ==
    [Slots -> [mState : {PRODUCER_READY, CONSUMER_READY} \cup Threads,
               mData : Values,
               mSerial : 0..(SerialModulus - 2)]]

LEMMA InitTypeOK == Init => TypeOK
<1>1. 0 \in Slots
  BY SizeAssumption DEF Slots
<1>. QED
  BY <1>1, SizeAssumption, WidthAssumption
  DEF Init, TypeOK, NoResult, Result, Values, PCs, INVALID_SERIAL

LEMMA NextTypeOK == TypeOK /\ [Next]_ringVars => TypeOK'
<1>. SUFFICES ASSUME TypeOK, [Next]_ringVars
              PROVE  TypeOK'
  OBVIOUS
<1>. USE DEF TypeOK, PCs, PushPC, PopPC
<1>1. ASSUME NEW t \in Threads, NEW v \in Items, AllocatePushSlot(t, v)
      PROVE  TypeOK'
  <2>1. mPushId' \in 0..(IdModulus - 1)
    BY <1>1, NextIdInRange DEF AllocatePushSlot
  <2>2. Index(mPushId') \in Slots
    BY <2>1, IndexInSlots
  <2>3. NoResult \in [mValid : BOOLEAN, mSlot : Slots,
                      mSerial : 0..INVALID_SERIAL, mData : Values]
    BY SizeAssumption, WidthAssumption
    DEF NoResult, Result, Slots, INVALID_SERIAL, Values
  <2>. QED
    BY <1>1, <2>1, <2>2, <2>3 DEF AllocatePushSlot, Goto, Values
<1>2. ASSUME NEW t \in Threads, AllocatePopSlot(t)
      PROVE  TypeOK'
  <2>1. mPopId' \in 0..(IdModulus - 1)
    BY <1>2, NextIdInRange DEF AllocatePopSlot
  <2>2. Index(mPopId') \in Slots
    BY <2>1, IndexInSlots
  <2>3. NoResult \in [mValid : BOOLEAN, mSlot : Slots,
                      mSerial : 0..INVALID_SERIAL, mData : Values]
    BY SizeAssumption, WidthAssumption
    DEF NoResult, Result, Slots, INVALID_SERIAL, Values
  <2>. QED
    BY <1>2, <2>1, <2>2, <2>3 DEF AllocatePopSlot, Goto, Values
<1>3. ASSUME NEW t \in Threads, ReservePush(t)
      PROVE  TypeOK'
  <2>1. pc' \in [Threads -> PCs]
    BY <1>3 DEF ReservePush, Goto
  <2>2. mSlots' \in SlotArrays
    BY <1>3 DEF ReservePush, Exchange, SlotArrays
  <2>. QED
    BY <1>3, <2>1, <2>2 DEF ReservePush, SlotArrays
<1>4. ASSUME NEW t \in Threads, TransferPush(t)
      PROVE  TypeOK'
  <2>1. NextSerial(mSlots[mine[t]].mSerial) \in 0..(SerialModulus - 2)
    BY NextSerialInRange
  <2>2. pc' \in [Threads -> PCs]
    BY <1>4 DEF TransferPush, Goto
  <2>3. mSlots' \in SlotArrays
    BY <1>4, <2>1 DEF TransferPush, SlotArrays, Values
  <2>4. mSize' \in Int
    BY <1>4 DEF TransferPush
  <2>5. ret' \in [Threads -> [mValid : BOOLEAN, mSlot : Slots,
                            mSerial : 0..INVALID_SERIAL, mData : Values]]
    <3>1. 0..(SerialModulus - 2) \subseteq 0..INVALID_SERIAL
      BY WidthAssumption DEF INVALID_SERIAL
    <3>. QED
      BY <1>4, <2>1, <3>1 DEF TransferPush, Result
  <2>. QED
    BY <1>4, <2>2, <2>3, <2>4, <2>5 DEF TransferPush, SlotArrays
<1>5. ASSUME NEW t \in Threads, ReleasePush(t)
      PROVE  TypeOK'
  BY <1>5 DEF ReleasePush, Goto, Exchange
<1>6. ASSUME NEW t \in Threads, ReservePop(t)
      PROVE  TypeOK'
  <2>1. pc' \in [Threads -> PCs]
    BY <1>6 DEF ReservePop, Goto
  <2>2. mSlots' \in SlotArrays
    BY <1>6 DEF ReservePop, Exchange, SlotArrays
  <2>. QED
    BY <1>6, <2>1, <2>2 DEF ReservePop, SlotArrays
<1>7. ASSUME NEW t \in Threads, TransferPop(t)
      PROVE  TypeOK'
  <2>1. NextSerial(mSlots[mine[t]].mSerial) \in 0..(SerialModulus - 2)
    BY NextSerialInRange
  <2>2. pc' \in [Threads -> PCs]
    BY <1>7 DEF TransferPop, Goto
  <2>3. mSlots' \in SlotArrays
    BY <1>7, <2>1 DEF TransferPop, SlotArrays, Values
  <2>4. mSize' \in Int
    BY <1>7 DEF TransferPop
  <2>5. ret' \in [Threads -> [mValid : BOOLEAN, mSlot : Slots,
                            mSerial : 0..INVALID_SERIAL, mData : Values]]
    <3>1. 0..(SerialModulus - 2) \subseteq 0..INVALID_SERIAL
      BY WidthAssumption DEF INVALID_SERIAL
    <3>. QED
      BY <1>7, <2>1, <3>1 DEF TransferPop, Result
  <2>. QED
    BY <1>7, <2>2, <2>3, <2>4, <2>5 DEF TransferPop, SlotArrays
<1>8. ASSUME NEW t \in Threads, ReleasePop(t)
      PROVE  TypeOK'
  BY <1>8 DEF ReleasePop, Goto, Exchange
<1>9. CASE UNCHANGED ringVars
  BY <1>9 DEF ringVars
<1>. QED
  BY <1>1, <1>2, <1>3, <1>4, <1>5, <1>6, <1>7, <1>8, <1>9 DEF Next, RingStep

\* The types hold in every reachable state: in particular every slot index a
\* thread computes is in range although the ticket counters wrap.
THEOREM RingTypeCorrect == Spec => []TypeOK
  BY InitTypeOK, NextTypeOK, PTL DEF Spec

-----------------------------------------------------------------------------
LEMMA InitOwnership == Init => Ownership
  BY ThreadsAssumption DEF Init, Ownership, Holding, PushPC, PopPC

LEMMA NextOwnership == TypeOK /\ Ownership /\ [Next]_ringVars => Ownership'
<1>. SUFFICES ASSUME TypeOK, Ownership, [Next]_ringVars
              PROVE  Ownership'
  OBVIOUS
<1>. USE ThreadsAssumption DEF Ownership, Holding, PushPC, PopPC
<1>. USE DEF TypeOK, PCs
<1>1. ASSUME NEW t \in Threads, NEW v \in Items, AllocatePushSlot(t, v)
      PROVE  Ownership'
  BY <1>1 DEF AllocatePushSlot, Goto
<1>2. ASSUME NEW t \in Threads, AllocatePopSlot(t)
      PROVE  Ownership'
  BY <1>2 DEF AllocatePopSlot, Goto
<1>3. ASSUME NEW t \in Threads, ReservePush(t)
      PROVE  Ownership'
  BY <1>3 DEF ReservePush, Goto, Exchange
<1>4. ASSUME NEW t \in Threads, TransferPush(t)
      PROVE  Ownership'
  BY <1>4 DEF TransferPush, Goto
<1>5. ASSUME NEW t \in Threads, ReleasePush(t)
      PROVE  Ownership'
  BY <1>5 DEF ReleasePush, Goto, Exchange
<1>6. ASSUME NEW t \in Threads, ReservePop(t)
      PROVE  Ownership'
  BY <1>6 DEF ReservePop, Goto, Exchange
<1>7. ASSUME NEW t \in Threads, TransferPop(t)
      PROVE  Ownership'
  BY <1>7 DEF TransferPop, Goto
<1>8. ASSUME NEW t \in Threads, ReleasePop(t)
      PROVE  Ownership'
  BY <1>8 DEF ReleasePop, Goto, Exchange
<1>9. CASE UNCHANGED ringVars
  BY <1>9 DEF ringVars
<1>. QED
  BY <1>1, <1>2, <1>3, <1>4, <1>5, <1>6, <1>7, <1>8, <1>9 DEF Next, RingStep

\* A reserved slot belongs to one thread, for any number of threads and any
\* collision of tickets: the AssertEx(result == reserve) of TryPush and TryPop
\* never fires.
THEOREM SlotOwnership == Spec => []Ownership
<1>1. Init => TypeOK /\ Ownership
  BY InitTypeOK, InitOwnership
<1>2. TypeOK /\ Ownership /\ [Next]_ringVars => (TypeOK /\ Ownership)'
  BY NextTypeOK, NextOwnership
<1>. QED
  BY <1>1, <1>2, PTL DEF Spec

-----------------------------------------------------------------------------
\* SizeAccounting is inductive together with the ownership of the slots.
IInv == TypeOK /\ Ownership /\ SizeAccounting

LEMMA SlotsFinite == IsFiniteSet(Slots) /\ Cardinality(Slots) = Size
<1>1. IsFiniteSet(0..(Size - 1)) /\ Cardinality(0..(Size - 1)) = Size
  BY FS_Interval, SizeAssumption
<1>. QED
  BY <1>1 DEF Slots

\* The filled slots are at most Size.
LEMMA CountedBound ==
    /\ IsFiniteSet(Counted)
    /\ Cardinality(Counted) \in 0..Size
<1>1. Counted \subseteq Slots
  BY DEF Counted
<1>2. /\ IsFiniteSet(Counted)
      /\ Cardinality(Counted) <= Cardinality(Slots)
  BY <1>1, SlotsFinite, FS_Subset
<1>3. Cardinality(Counted) \in Nat
  BY <1>2, FS_CardinalityType
<1>. QED
  BY <1>2, <1>3, SlotsFinite, SizeAssumption

LEMMA CountedBoundNext ==
    /\ IsFiniteSet(Counted')
    /\ Cardinality(Counted') \in 0..Size
<1>1. Counted' \subseteq Slots
  BY DEF Counted
<1>2. /\ IsFiniteSet(Counted')
      /\ Cardinality(Counted') <= Cardinality(Slots)
  BY <1>1, SlotsFinite, FS_Subset
<1>3. Cardinality(Counted') \in Nat
  BY <1>2, FS_CardinalityType
<1>. QED
  BY <1>2, <1>3, SlotsFinite, SizeAssumption

LEMMA InitSize == Init => SizeAccounting
<1>. SUFFICES ASSUME Init PROVE SizeAccounting
  OBVIOUS
<1>1. Counted = {}
  BY DEF Init, Counted, PRODUCER_READY, CONSUMER_READY
<1>. QED
  BY <1>1, FS_EmptySet, SizeAssumption DEF Init, SizeAccounting

LEMMA NextSize == IInv /\ [Next]_ringVars => SizeAccounting'
<1>. SUFFICES ASSUME IInv, [Next]_ringVars
              PROVE  SizeAccounting'
  OBVIOUS
<1>. USE ThreadsAssumption DEF IInv, TypeOK
\* Only the two transfers change mSize: for every other step it is enough
\* that the set of filled slots stays as it is.
<1>0. ASSUME mSize' = mSize, Counted' = Counted
      PROVE  SizeAccounting'
  BY <1>0 DEF SizeAccounting
<1>1. ASSUME NEW t \in Threads, NEW v \in Items, AllocatePushSlot(t, v)
      PROVE  SizeAccounting'
  <2>1. Counted' = Counted
    BY <1>1 DEF AllocatePushSlot, Goto, Counted, PCs
  <2>. QED
    BY <1>0, <1>1, <2>1 DEF AllocatePushSlot
<1>2. ASSUME NEW t \in Threads, AllocatePopSlot(t)
      PROVE  SizeAccounting'
  <2>1. Counted' = Counted
    BY <1>2 DEF AllocatePopSlot, Goto, Counted, PCs
  <2>. QED
    BY <1>0, <1>2, <2>1 DEF AllocatePopSlot
<1>3. ASSUME NEW t \in Threads, ReservePush(t)
      PROVE  SizeAccounting'
  <2>1. Counted' = Counted
    BY <1>3 DEF ReservePush, Exchange, Goto, Counted, PCs,
                PRODUCER_READY, CONSUMER_READY
  <2>. QED
    BY <1>0, <1>3, <2>1 DEF ReservePush
<1>4. ASSUME NEW t \in Threads, TransferPush(t)
      PROVE  SizeAccounting'
  <2>1. Counted' = Counted \cup {mine[t]}
    BY <1>4 DEF TransferPush, Goto, Counted, PCs
  <2>2. mine[t] \notin Counted
    BY <1>4 DEF TransferPush, Goto, Counted, Ownership, Holding, PushPC, PopPC
  <2>3. Cardinality(Counted') = Cardinality(Counted) + 1
    BY <2>1, <2>2, CountedBound, FS_AddElement
  <2>. QED
    BY <1>4, <2>3, CountedBoundNext DEF TransferPush, SizeAccounting
<1>5. ASSUME NEW t \in Threads, ReleasePush(t)
      PROVE  SizeAccounting'
  <2>1. Counted' = Counted
    BY <1>5 DEF ReleasePush, Exchange, Goto, Counted, PCs,
                Ownership, Holding, PushPC, PopPC
  <2>. QED
    BY <1>0, <1>5, <2>1 DEF ReleasePush
<1>6. ASSUME NEW t \in Threads, ReservePop(t)
      PROVE  SizeAccounting'
  <2>1. Counted' = Counted
    BY <1>6 DEF ReservePop, Exchange, Goto, Counted, PCs
  <2>. QED
    BY <1>0, <1>6, <2>1 DEF ReservePop
<1>7. ASSUME NEW t \in Threads, TransferPop(t)
      PROVE  SizeAccounting'
  <2>1. mine[t] \in Counted
    BY <1>7 DEF TransferPop, Goto, Counted
  <2>2. Counted' = Counted \ {mine[t]}
    BY <1>7 DEF TransferPop, Goto, Counted, PCs, Ownership, Holding, PushPC, PopPC
  <2>3. Cardinality(Counted') = Cardinality(Counted) - 1
    BY <2>1, <2>2, CountedBound, FS_RemoveElement
  <2>. QED
    BY <1>7, <2>3, CountedBoundNext DEF TransferPop, SizeAccounting
<1>8. ASSUME NEW t \in Threads, ReleasePop(t)
      PROVE  SizeAccounting'
  <2>1. Counted' = Counted
    BY <1>8 DEF ReleasePop, Exchange, Goto, Counted, PCs,
                PRODUCER_READY, CONSUMER_READY
  <2>. QED
    BY <1>0, <1>8, <2>1 DEF ReleasePop
<1>9. CASE UNCHANGED ringVars
  <2>1. Counted' = Counted
    BY <1>9 DEF ringVars, Counted
  <2>. QED
    BY <1>0, <1>9, <2>1 DEF ringVars
<1>. QED
  BY <1>1, <1>2, <1>3, <1>4, <1>5, <1>6, <1>7, <1>8, <1>9 DEF Next, RingStep

\* mSize, read without a lock by the scheduler and its workers, is exactly the
\* number of filled slots and never exceeds the capacity ("mSize <=
\* mSlots.Size()", ConcurrentRingBuffer.h).
THEOREM SizeIsExact == Spec => []SizeAccounting
<1>1. Init => IInv
  BY InitTypeOK, InitOwnership, InitSize DEF IInv
<1>2. IInv /\ [Next]_ringVars => IInv'
  BY NextTypeOK, NextOwnership, NextSize DEF IInv
<1>. QED
  BY <1>1, <1>2, PTL DEF Spec, IInv

-----------------------------------------------------------------------------
\* What an operation carries, and what the slot it has reserved holds: the item
\* of a push until its slot is released, nothing once a pop has emptied it.
Carries ==
    \A t \in Threads :
        /\ pc[t] \in {"push_reserve"} \cup PushPC => arg[t] \in Items
        /\ pc[t] \in {"pop_reserve"} \cup PopPC => arg[t] = Nil
        /\ pc[t] \in {"push_reserve", "push_transfer", "pop_reserve"} => ret[t] = NoResult
        /\ pc[t] \in {"push_release", "pop_release"} => ret[t].mValid
        /\ pc[t] = "push_release" => mSlots[mine[t]].mData = arg[t]
        /\ pc[t] = "pop_transfer" => mSlots[mine[t]].mData \in Items
        /\ pc[t] = "pop_release" => mSlots[mine[t]].mData = Nil

DataInv == TypeOK /\ Ownership /\ Carries /\ ReadyMeansFilled

LEMMA InitData == Init => Carries /\ ReadyMeansFilled
  BY DEF Init, Carries, ReadyMeansFilled, PushPC, PopPC, PRODUCER_READY, CONSUMER_READY

\* A step that takes the slot of t, and leaves the others alone, takes away from
\* no other thread what it has reserved.
LEMMA ReservedApart ==
    ASSUME TypeOK, Ownership, NEW t \in Threads, NEW u \in Threads,
           t \in Holding, u \in Holding, mine[t] = mine[u]
    PROVE  t = u
<1>1. mSlots[mine[t]].mState = t /\ mSlots[mine[u]].mState = u
  BY DEF Ownership, TypeOK
<1>. QED
  BY <1>1

LEMMA ReservedNotReady ==
    ASSUME TypeOK, Ownership, NEW t \in Threads, t \in Holding
    PROVE  /\ mSlots[mine[t]].mState = t
           /\ t # CONSUMER_READY
           /\ t # PRODUCER_READY
  BY ThreadsAssumption DEF Ownership, TypeOK

LEMMA NextData == DataInv /\ [Next]_ringVars => Carries' /\ ReadyMeansFilled'
<1>. SUFFICES ASSUME DataInv, [Next]_ringVars
              PROVE  Carries' /\ ReadyMeansFilled'
  OBVIOUS
<1>. USE DEF DataInv, TypeOK, PCs, PushPC, PopPC
<1>1. ASSUME NEW t \in Threads, NEW v \in Items, AllocatePushSlot(t, v)
      PROVE  Carries' /\ ReadyMeansFilled'
  BY <1>1 DEF AllocatePushSlot, Goto, Carries, ReadyMeansFilled
<1>2. ASSUME NEW t \in Threads, AllocatePopSlot(t)
      PROVE  Carries' /\ ReadyMeansFilled'
  BY <1>2 DEF AllocatePopSlot, Goto, Carries, ReadyMeansFilled
<1>3. ASSUME NEW t \in Threads, ReservePush(t)
      PROVE  Carries' /\ ReadyMeansFilled'
  BY <1>3, ThreadsAssumption DEF ReservePush, Exchange, Goto, Carries, ReadyMeansFilled
<1>4. ASSUME NEW t \in Threads, TransferPush(t)
      PROVE  Carries' /\ ReadyMeansFilled'
  <2>1. t \in Holding
    BY <1>4 DEF TransferPush, Goto, Holding
  <2>2. ReadyMeansFilled'
    BY <1>4, <2>1, ReservedNotReady DEF TransferPush, ReadyMeansFilled
  <2>3. \A u \in Threads \ {t} : pc[u] \in PushPC \cup PopPC => mine[u] # mine[t]
    BY <2>1, ReservedApart DEF Holding
  <2>4. Carries'
    BY <1>4, <2>3 DEF TransferPush, Goto, Carries, Result
  <2>. QED
    BY <2>2, <2>4
<1>5. ASSUME NEW t \in Threads, ReleasePush(t)
      PROVE  Carries' /\ ReadyMeansFilled'
  <2>1. t \in Holding
    BY <1>5 DEF ReleasePush, Goto, Holding
  <2>2. mSlots' = [mSlots EXCEPT ![mine[t]].mState = CONSUMER_READY]
    BY <1>5, <2>1, ReservedNotReady DEF ReleasePush, Exchange
  <2>3. mSlots[mine[t]].mData \in Items
    BY <1>5 DEF ReleasePush, Goto, Carries
  <2>4. ReadyMeansFilled'
    BY <2>2, <2>3 DEF ReadyMeansFilled, PRODUCER_READY, CONSUMER_READY
  <2>5. Carries'
    BY <1>5, <2>2 DEF ReleasePush, Goto, Carries
  <2>. QED
    BY <2>4, <2>5
<1>6. ASSUME NEW t \in Threads, ReservePop(t)
      PROVE  Carries' /\ ReadyMeansFilled'
  BY <1>6, ThreadsAssumption DEF ReservePop, Exchange, Goto, Carries, ReadyMeansFilled
<1>7. ASSUME NEW t \in Threads, TransferPop(t)
      PROVE  Carries' /\ ReadyMeansFilled'
  <2>1. t \in Holding
    BY <1>7 DEF TransferPop, Goto, Holding
  <2>2. ReadyMeansFilled'
    BY <1>7, <2>1, ReservedNotReady DEF TransferPop, ReadyMeansFilled
  <2>3. \A u \in Threads \ {t} : pc[u] \in PushPC \cup PopPC => mine[u] # mine[t]
    BY <2>1, ReservedApart DEF Holding
  <2>4. Carries'
    BY <1>7, <2>3 DEF TransferPop, Goto, Carries, Result
  <2>. QED
    BY <2>2, <2>4
<1>8. ASSUME NEW t \in Threads, ReleasePop(t)
      PROVE  Carries' /\ ReadyMeansFilled'
  <2>1. t \in Holding
    BY <1>8 DEF ReleasePop, Goto, Holding
  <2>2. mSlots' = [mSlots EXCEPT ![mine[t]].mState = PRODUCER_READY]
    BY <1>8, <2>1, ReservedNotReady DEF ReleasePop, Exchange
  <2>3. mSlots[mine[t]].mData = Nil
    BY <1>8 DEF ReleasePop, Goto, Carries
  <2>4. ReadyMeansFilled'
    BY <2>2, <2>3 DEF ReadyMeansFilled, PRODUCER_READY, CONSUMER_READY
  <2>5. Carries'
    BY <1>8, <2>2 DEF ReleasePop, Goto, Carries
  <2>. QED
    BY <2>4, <2>5
<1>9. CASE UNCHANGED ringVars
  BY <1>9 DEF ringVars, Carries, ReadyMeansFilled
<1>. QED
  BY <1>1, <1>2, <1>3, <1>4, <1>5, <1>6, <1>7, <1>8, <1>9 DEF Next, RingStep

LEMMA DataInvariance == Spec => []DataInv
<1>1. Init => DataInv
  BY InitTypeOK, InitOwnership, InitData DEF DataInv
<1>2. DataInv /\ [Next]_ringVars => DataInv'
  BY NextTypeOK, NextOwnership, NextData DEF DataInv
<1>. QED
  BY <1>1, <1>2, PTL DEF Spec

\* A slot ready for a producer is empty and one ready for a consumer holds an
\* item, for any number of threads and slots: no push overwrites an item and no
\* pop returns nothing, however often the counters wrap.
THEOREM ReadySlots == Spec => []ReadyMeansFilled
  BY DataInvariance, PTL DEF DataInv

-----------------------------------------------------------------------------
\* Steps of the ring that are stutters of the bag, or one of its actions, by what
\* they do to the four variables of the bag.
LEMMA BagStutter ==
    ASSUME Contents' = Contents, Calls' = Calls, Effects' = Effects,
           Transferred' = Transferred
    PROVE  [Bag!BagNext]_Bag!bagVars
  BY DEF Bag!bagVars

LEMMA BagReturn ==
    ASSUME NEW t \in Threads, Calls[t] # "none",
           Contents' = Contents, Effects' = Effects, Transferred' = Transferred,
           Calls' = [Calls EXCEPT ![t] = "none"]
    PROVE  [Bag!BagNext]_Bag!bagVars
  BY DEF Bag!BagNext, Bag!Return

LEMMA BagInvoke ==
    ASSUME NEW t \in Threads, NEW op, NEW v,
           \/ op = "push" /\ v \in Items
           \/ op = "pop" /\ v = Nil,
           Calls[t] = "none",
           Contents' = Contents,
           Calls' = [Calls EXCEPT ![t] = op],
           Effects' = [Effects EXCEPT ![t] = FALSE],
           Transferred' = [Transferred EXCEPT ![t] = v]
    PROVE  [Bag!BagNext]_Bag!bagVars
<1>1. Bag!Invoke(t, op, v)
  BY DEF Bag!Invoke
<1>. QED
  BY <1>1 DEF Bag!BagNext

\* What a step of t that ends at "to" makes of a variable that is defined thread
\* by thread: the others keep their value.
LEMMA CallAtPlaces ==
    /\ CallAt("idle") = "none"
    /\ \A p \in {"push_reserve"} \cup PushPC : CallAt(p) = "push"
    /\ \A p \in {"pop_reserve"} \cup PopPC : CallAt(p) = "pop"
  BY DEF CallAt, PushPC, PopPC

LEMMA CallsOf ==
    ASSUME TypeOK, NEW t \in Threads, NEW to, pc' = [pc EXCEPT ![t] = to]
    PROVE  Calls' = [Calls EXCEPT ![t] = CallAt(to)]
  BY DEF TypeOK, Calls

LEMMA EffectsOf ==
    ASSUME TypeOK, NEW t \in Threads, NEW now, pc' \in [Threads -> PCs],
           \A u \in Threads \ {t} : pc'[u] = pc[u] /\ ret'[u] = ret[u],
           now = (~Pending(t) /\ (pc[t] = "pop_transfer" \/ ret[t].mValid))'
    PROVE  Effects' = [Effects EXCEPT ![t] = now]
<1>1. \A u \in Threads \ {t} : Effects'[u] = Effects[u]
  BY DEF Effects, Pending
<1>2. Effects'[t] = now
  BY DEF Effects
<1>. QED
  BY <1>1, <1>2 DEF Effects

LEMMA TransferredOf ==
    ASSUME TypeOK, NEW t \in Threads, NEW now,
           \A u \in Threads \ {t} :
               /\ pc'[u] = pc[u] /\ arg'[u] = arg[u] /\ ret'[u] = ret[u]
               /\ pc[u] = "pop_transfer" =>
                    mine'[u] = mine[u] /\ mSlots'[mine[u]].mData = mSlots[mine[u]].mData,
           now = (CASE pc[t] = "pop_transfer" -> mSlots[mine[t]].mData
                    [] arg[t] # Nil -> arg[t]
                    [] OTHER -> ret[t].mData)'
    PROVE  Transferred' = [Transferred EXCEPT ![t] = now]
<1>. DEFINE Transfer(u) == CASE pc[u] = "pop_transfer" -> mSlots[mine[u]].mData
                             [] arg[u] # Nil -> arg[u]
                             [] OTHER -> ret[u].mData
<1>1. \A u \in Threads \ {t} : Transfer(u)' = Transfer(u)
  OBVIOUS
<1>2. Transfer(t)' = now
  OBVIOUS
<1>3. Transferred = [u \in Threads |-> Transfer(u)] /\ Transferred' = [u \in Threads |-> Transfer(u)']
  BY DEF Transferred
<1>. HIDE DEF Transfer
<1>. QED
  BY <1>1, <1>2, <1>3

LEMMA InitBag == Init => Bag!BagInit
<1>. SUFFICES ASSUME Init PROVE Bag!BagInit
  OBVIOUS
<1>1. Contents = [p \in Slots |-> Nil]
  BY DEF Init, Contents, PRODUCER_READY, CONSUMER_READY
<1>2. Calls = [t \in Threads |-> "none"]
  BY CallAtPlaces DEF Init, Calls
<1>3. Effects = [t \in Threads |-> FALSE]
  BY DEF Init, Effects, NoResult, Result
<1>4. Transferred = [t \in Threads |-> Nil]
  BY DEF Init, Transferred, NoResult, Result
<1>. QED
  BY <1>1, <1>2, <1>3, <1>4 DEF Bag!BagInit

LEMMA NextBag == DataInv /\ DataInv' /\ [Next]_ringVars => [Bag!BagNext]_Bag!bagVars
<1>. SUFFICES ASSUME DataInv, DataInv', [Next]_ringVars
              PROVE  [Bag!BagNext]_Bag!bagVars
  OBVIOUS
<1>. USE DEF DataInv
<1>. DEFINE Effect(t) == ~Pending(t) /\ (pc[t] = "pop_transfer" \/ ret[t].mValid)
            Transfer(t) == CASE pc[t] = "pop_transfer" -> mSlots[mine[t]].mData
                             [] arg[t] # Nil -> arg[t]
                             [] OTHER -> ret[t].mData
\* What the accesses of one thread leave of the others.
<1>0. ASSUME NEW t \in Threads, NEW u \in Threads \ {t}, t \in Holding,
             pc[u] = "pop_transfer"
      PROVE  mine[u] # mine[t]
  BY <1>0, ReservedApart DEF Holding, PopPC
<1>1. ASSUME NEW t \in Threads, NEW v \in Items, AllocatePushSlot(t, v)
      PROVE  [Bag!BagNext]_Bag!bagVars
  <2>1. pc[t] = "idle" /\ pc' = [pc EXCEPT ![t] = "push_reserve"]
    BY <1>1 DEF AllocatePushSlot, Goto
  <2>2. Calls[t] = "none" /\ Calls' = [Calls EXCEPT ![t] = "push"]
    BY <2>1, CallsOf, CallAtPlaces DEF Calls
  <2>3. Contents' = Contents
    BY <1>1 DEF AllocatePushSlot, Contents
  <2>4. Effects' = [Effects EXCEPT ![t] = FALSE]
    <3>1. FALSE = Effect(t)'
      BY <2>1 DEF Pending, TypeOK
    <3>. QED
      BY <1>1, <2>1, <3>1, EffectsOf DEF AllocatePushSlot, TypeOK
  <2>5. Transferred' = [Transferred EXCEPT ![t] = v]
    <3>1. v = Transfer(t)'
      BY <1>1, <2>1, ItemsAssumption DEF AllocatePushSlot, TypeOK
    <3>. QED
      BY <1>1, <2>1, <3>1, TransferredOf DEF AllocatePushSlot, TypeOK
  <2>. QED
    BY <2>2, <2>3, <2>4, <2>5, BagInvoke
<1>2. ASSUME NEW t \in Threads, AllocatePopSlot(t)
      PROVE  [Bag!BagNext]_Bag!bagVars
  <2>1. pc[t] = "idle" /\ pc' = [pc EXCEPT ![t] = "pop_reserve"]
    BY <1>2 DEF AllocatePopSlot, Goto
  <2>2. Calls[t] = "none" /\ Calls' = [Calls EXCEPT ![t] = "pop"]
    BY <2>1, CallsOf, CallAtPlaces DEF Calls, PushPC
  <2>3. Contents' = Contents
    BY <1>2 DEF AllocatePopSlot, Contents
  <2>4. Effects' = [Effects EXCEPT ![t] = FALSE]
    <3>1. FALSE = Effect(t)'
      BY <2>1 DEF Pending, TypeOK
    <3>. QED
      BY <1>2, <2>1, <3>1, EffectsOf DEF AllocatePopSlot, TypeOK
  <2>5. Transferred' = [Transferred EXCEPT ![t] = Nil]
    <3>1. Nil = Transfer(t)'
      BY <1>2, <2>1 DEF AllocatePopSlot, TypeOK, NoResult, Result
    <3>. QED
      BY <1>2, <2>1, <3>1, TransferredOf DEF AllocatePopSlot, TypeOK
  <2>. QED
    BY <2>2, <2>3, <2>4, <2>5, BagInvoke
<1>3. ASSUME NEW t \in Threads, ReservePush(t)
      PROVE  [Bag!BagNext]_Bag!bagVars
  <2>1. Contents' = Contents
    BY <1>3, ThreadsAssumption
    DEF ReservePush, Exchange, Contents, TypeOK, PRODUCER_READY, CONSUMER_READY
  <2>2. pc[t] = "push_reserve" /\ ~ret[t].mValid /\ arg[t] \in Items
    BY <1>3 DEF ReservePush, Goto, Carries, NoResult, Result
  <2>3. PICK to \in {"push_transfer", "idle"} : pc' = [pc EXCEPT ![t] = to]
    BY <1>3 DEF ReservePush, Goto
  <2>4. Effects' = [Effects EXCEPT ![t] = FALSE]
    <3>1. FALSE = Effect(t)'
      BY <1>3, <2>2, <2>3 DEF Pending, TypeOK, ReservePush
    <3>. QED
      BY <1>3, <2>3, <3>1, EffectsOf DEF ReservePush, TypeOK
  <2>5. Effects' = Effects
    BY <2>2, <2>4 DEF Effects, Pending
  <2>6. Transferred' = [Transferred EXCEPT ![t] = arg[t]]
    <3>1. arg[t] = Transfer(t)'
      BY <1>3, <2>2, <2>3, ItemsAssumption DEF ReservePush, TypeOK
    <3>2. \A i \in Slots : mSlots'[i].mData = mSlots[i].mData
      BY <1>3 DEF ReservePush, Exchange, TypeOK
    <3>. QED
      BY <1>3, <2>3, <3>1, <3>2, TransferredOf DEF ReservePush, TypeOK
  <2>7. Transferred' = Transferred
    BY <2>2, <2>6, ItemsAssumption DEF Transferred
  <2>8. CASE to = "idle"
    <3>1. Calls[t] # "none" /\ Calls' = [Calls EXCEPT ![t] = "none"]
      BY <2>2, <2>3, <2>8, CallsOf, CallAtPlaces DEF Calls
    <3>. QED
      BY <2>1, <2>5, <2>7, <3>1, BagReturn
  <2>9. CASE to = "push_transfer"
    <3>1. Calls' = [Calls EXCEPT ![t] = "push"]
      BY <2>3, <2>9, CallsOf, CallAtPlaces DEF PushPC
    <3>2. Calls' = Calls
      BY <2>2, <3>1, CallAtPlaces DEF Calls
    <3>. QED
      BY <2>1, <2>5, <2>7, <3>2, BagStutter
  <2>. QED
    BY <2>8, <2>9
<1>4. ASSUME NEW t \in Threads, TransferPush(t)
      PROVE  [Bag!BagNext]_Bag!bagVars
  <2>1. /\ pc[t] = "push_transfer" /\ pc' = [pc EXCEPT ![t] = "push_release"]
        /\ t \in Holding /\ arg[t] \in Items
    BY <1>4 DEF TransferPush, Goto, Carries, Holding, PushPC
  <2>2. Contents' = Contents
    BY <1>4, <2>1, ReservedNotReady DEF TransferPush, Contents, TypeOK
  <2>3. Calls' = Calls
    BY <2>1, CallsOf, CallAtPlaces DEF Calls, PushPC
  <2>4. Effects' = Effects
    <3>1. FALSE = Effect(t)'
      BY <2>1 DEF Pending, TypeOK
    <3>2. Effects' = [Effects EXCEPT ![t] = FALSE]
      BY <1>4, <2>1, <3>1, EffectsOf DEF TransferPush, TypeOK
    <3>. QED
      BY <2>1, <3>2 DEF Effects, Pending
  <2>5. Transferred' = Transferred
    <3>1. arg[t] = Transfer(t)'
      BY <1>4, <2>1, ItemsAssumption DEF TransferPush, TypeOK
    <3>2. \A u \in Threads \ {t} : pc[u] = "pop_transfer" =>
            mSlots'[mine[u]].mData = mSlots[mine[u]].mData
      BY <1>4, <2>1, <1>0 DEF TransferPush, TypeOK
    <3>3. \A u \in Threads \ {t} : /\ pc'[u] = pc[u] /\ mine'[u] = mine[u]
                                /\ arg'[u] = arg[u] /\ ret'[u] = ret[u]
      BY <1>4, <2>1 DEF TransferPush, TypeOK
    <3>4. Transferred' = [Transferred EXCEPT ![t] = arg[t]]
      BY <3>1, <3>2, <3>3, TransferredOf
    <3>. QED
      BY <2>1, <3>4, ItemsAssumption DEF Transferred
  <2>. QED
    BY <2>2, <2>3, <2>4, <2>5, BagStutter
<1>5. ASSUME NEW t \in Threads, ReleasePush(t)
      PROVE  [Bag!BagNext]_Bag!bagVars
  <2>1. /\ pc[t] = "push_release" /\ pc' = [pc EXCEPT ![t] = "idle"]
        /\ t \in Holding /\ arg[t] \in Items /\ ret[t].mValid
        /\ mSlots[mine[t]].mData = arg[t]
    BY <1>5 DEF ReleasePush, Goto, Carries, Holding, PushPC
  <2>2. mSlots' = [mSlots EXCEPT ![mine[t]].mState = CONSUMER_READY]
    BY <1>5, <2>1, ReservedNotReady DEF ReleasePush, Exchange
  <2>3. Contents[mine[t]] = Nil /\ Contents' = [Contents EXCEPT ![mine[t]] = arg[t]]
    <3>1. mine[t] \in Slots /\ mSlots[mine[t]].mState # CONSUMER_READY
      BY <2>1, ReservedNotReady DEF TypeOK
    <3>2. \A i \in Slots : /\ Contents[i] = Nil \/ i # mine[t]
                          /\ Contents'[i] = IF i = mine[t] THEN arg[t] ELSE Contents[i]
      BY <2>1, <2>2, <3>1 DEF Contents, TypeOK
    <3>. QED
      BY <3>1, <3>2 DEF Contents
  <2>4. Calls[t] = "push" /\ Calls' = [Calls EXCEPT ![t] = "none"]
    <3>1. Calls[t] = "push"
      BY <2>1, CallAtPlaces DEF Calls, PushPC
    <3>2. CallAt("idle") = "none"
      BY CallAtPlaces
    <3>. QED
      BY <2>1, <3>1, <3>2, CallsOf
  <2>5. ~Effects[t] /\ Effects' = [Effects EXCEPT ![t] = TRUE]
    <3>1. TRUE = Effect(t)'
      BY <1>5, <2>1 DEF Pending, TypeOK, ReleasePush
    <3>2. Effects' = [Effects EXCEPT ![t] = TRUE]
      BY <1>5, <2>1, <3>1, EffectsOf DEF ReleasePush, TypeOK
    <3>. QED
      BY <2>1, <3>2 DEF Effects, Pending
  <2>6. Transferred[t] = arg[t] /\ Transferred' = Transferred
    <3>1. arg[t] = Transfer(t)'
      BY <1>5, <2>1, ItemsAssumption DEF ReleasePush, TypeOK
    <3>2. Transferred' = [Transferred EXCEPT ![t] = arg[t]]
      <4>1. UNCHANGED <<mine, arg, ret>>
        BY <1>5 DEF ReleasePush
      <4>2. \A i \in Slots : mSlots'[i].mData = mSlots[i].mData
        BY <2>2 DEF TypeOK
      <4>. QED
        BY <2>1, <3>1, <4>1, <4>2, TransferredOf DEF TypeOK
    <3>3. Transferred[t] = arg[t]
      BY <2>1, ItemsAssumption DEF Transferred
    <3>. QED
      BY <3>2, <3>3 DEF Transferred
  <2>7. Bag!Put(t, mine[t])
    BY <2>3, <2>4, <2>5, <2>6 DEF Bag!Put
  <2>. QED
    BY <2>7 DEF Bag!BagNext, TypeOK
<1>6. ASSUME NEW t \in Threads, ReservePop(t)
      PROVE  [Bag!BagNext]_Bag!bagVars
  <2>1. /\ pc[t] = "pop_reserve" /\ ret[t] = NoResult /\ arg[t] = Nil
        /\ mine[t] \in Slots
    BY <1>6 DEF ReservePop, Goto, Carries, TypeOK
  <2>2. Calls[t] = "pop" /\ ~Effects[t] /\ Transferred[t] = Nil
    <3>1. Calls[t] = "pop"
      BY <2>1, CallAtPlaces DEF Calls
    <3>2. ~Effects[t]
      BY <2>1 DEF Effects, Pending
    <3>3. Transferred[t] = Nil
      BY <2>1 DEF Transferred, NoResult, Result
    <3>. QED
      BY <3>1, <3>2, <3>3
  <2>3. CASE mSlots[mine[t]].mState # CONSUMER_READY
    <3>1. pc' = [pc EXCEPT ![t] = "idle"] /\ mSlots' = mSlots
      BY <1>6, <2>3 DEF ReservePop, Goto, Exchange
    <3>2. Contents' = Contents
      BY <3>1 DEF Contents
    <3>3. Calls' = [Calls EXCEPT ![t] = "none"]
      BY <3>1, CallsOf, CallAtPlaces
    <3>4. Effects' = Effects
      <4>1. FALSE = Effect(t)'
        BY <1>6, <2>1, <3>1 DEF Pending, TypeOK, ReservePop, NoResult, Result
      <4>2. Effects' = [Effects EXCEPT ![t] = FALSE]
        BY <1>6, <3>1, <4>1, EffectsOf DEF ReservePop, TypeOK
      <4>. QED
        BY <2>2, <4>2 DEF Effects
    <3>5. Transferred' = Transferred
      <4>1. Nil = Transfer(t)'
        BY <1>6, <2>1, <3>1 DEF ReservePop, TypeOK, NoResult, Result
      <4>2. Transferred' = [Transferred EXCEPT ![t] = Nil]
        BY <1>6, <3>1, <4>1, TransferredOf DEF ReservePop, TypeOK
      <4>. QED
        BY <2>2, <4>2 DEF Transferred
    <3>. QED
      BY <2>2, <3>2, <3>3, <3>4, <3>5, BagReturn
  <2>4. CASE mSlots[mine[t]].mState = CONSUMER_READY
    <3>1. /\ pc' = [pc EXCEPT ![t] = "pop_transfer"]
          /\ mSlots' = [mSlots EXCEPT ![mine[t]].mState = t]
      BY <1>6, <2>4 DEF ReservePop, Goto, Exchange
    <3>2. /\ Contents[mine[t]] \in Items
          /\ Contents[mine[t]] = mSlots[mine[t]].mData
          /\ Contents' = [Contents EXCEPT ![mine[t]] = Nil]
      BY <2>1, <2>4, <3>1, ThreadsAssumption DEF Contents, ReadyMeansFilled, TypeOK
    <3>3. Calls' = Calls
      BY <2>1, <3>1, CallsOf, CallAtPlaces DEF Calls, PopPC
    <3>4. Effects' = [Effects EXCEPT ![t] = TRUE]
      <4>1. TRUE = Effect(t)'
        BY <3>1 DEF Pending, TypeOK
      <4>. QED
        BY <1>6, <3>1, <4>1, EffectsOf DEF ReservePop, TypeOK
    <3>5. Transferred' = [Transferred EXCEPT ![t] = Contents[mine[t]]]
      <4>1. Contents[mine[t]] = Transfer(t)'
        <5>1. pc'[t] = "pop_transfer" /\ mine'[t] = mine[t] /\ arg'[t] = Nil
          BY <1>6, <2>1, <3>1 DEF ReservePop, TypeOK
        <5>2. mSlots'[mine[t]].mData = mSlots[mine[t]].mData
          BY <2>1, <3>1 DEF TypeOK
        <5>3. Transfer(t)' = mSlots'[mine'[t]].mData
          BY <5>1
        <5>. QED
          BY <3>2, <5>1, <5>2, <5>3
      <4>2. \A i \in Slots : mSlots'[i].mData = mSlots[i].mData
        BY <3>1 DEF TypeOK
      <4>. QED
        BY <1>6, <3>1, <4>1, <4>2, TransferredOf DEF ReservePop, TypeOK
    <3>6. Bag!Take(t, mine[t])
      BY <2>2, <3>2, <3>3, <3>4, <3>5 DEF Bag!Take
    <3>. QED
      BY <2>1, <3>6 DEF Bag!BagNext
  <2>. QED
    BY <2>3, <2>4
<1>7. ASSUME NEW t \in Threads, TransferPop(t)
      PROVE  [Bag!BagNext]_Bag!bagVars
  <2>1. /\ pc[t] = "pop_transfer" /\ pc' = [pc EXCEPT ![t] = "pop_release"]
        /\ t \in Holding /\ arg[t] = Nil
    BY <1>7 DEF TransferPop, Goto, Carries, Holding, PopPC
  <2>2. /\ ret' = [ret EXCEPT ![t] = ret'[t]]
        /\ ret'[t].mValid /\ ret'[t].mData = mSlots[mine[t]].mData
    BY <1>7 DEF TransferPop, Result, TypeOK
  <2>3. Contents' = Contents
    BY <1>7, <2>1, ReservedNotReady DEF TransferPop, Contents, TypeOK
  <2>4. Calls' = Calls
    BY <2>1, CallsOf, CallAtPlaces DEF Calls, PopPC
  <2>5. Effects' = Effects
    <3>1. TRUE = Effect(t)'
      BY <2>1, <2>2 DEF Pending, TypeOK
    <3>2. Effects' = [Effects EXCEPT ![t] = TRUE]
      BY <1>7, <2>1, <3>1, EffectsOf DEF TransferPop, TypeOK
    <3>. QED
      BY <2>1, <3>2 DEF Effects, Pending
  <2>6. Transferred' = Transferred
    <3>1. mSlots[mine[t]].mData = Transfer(t)'
      <4>1. pc'[t] = "pop_release" /\ arg'[t] = Nil
        BY <1>7, <2>1 DEF TransferPop, TypeOK
      <4>. QED
        BY <2>2, <4>1
    <3>2. \A u \in Threads \ {t} : pc[u] = "pop_transfer" =>
            mSlots'[mine[u]].mData = mSlots[mine[u]].mData
      BY <1>7, <2>1, <1>0 DEF TransferPop, TypeOK
    <3>3. \A u \in Threads \ {t} : /\ pc'[u] = pc[u] /\ mine'[u] = mine[u]
                                /\ arg'[u] = arg[u] /\ ret'[u] = ret[u]
      BY <1>7, <2>1 DEF TransferPop, TypeOK
    <3>4. Transferred' = [Transferred EXCEPT ![t] = mSlots[mine[t]].mData]
      BY <3>1, <3>2, <3>3, TransferredOf
    <3>. QED
      BY <2>1, <3>4 DEF Transferred
  <2>. QED
    BY <2>3, <2>4, <2>5, <2>6, BagStutter
<1>8. ASSUME NEW t \in Threads, ReleasePop(t)
      PROVE  [Bag!BagNext]_Bag!bagVars
  <2>1. /\ pc[t] = "pop_release" /\ pc' = [pc EXCEPT ![t] = "idle"]
        /\ t \in Holding /\ arg[t] = Nil /\ ret[t].mValid
    BY <1>8 DEF ReleasePop, Goto, Carries, Holding, PopPC
  <2>2. mSlots' = [mSlots EXCEPT ![mine[t]].mState = PRODUCER_READY]
    BY <1>8, <2>1, ReservedNotReady DEF ReleasePop, Exchange
  <2>3. Contents' = Contents
    BY <2>1, <2>2, ReservedNotReady DEF Contents, TypeOK, PRODUCER_READY, CONSUMER_READY
  <2>4. Calls[t] # "none" /\ Calls' = [Calls EXCEPT ![t] = "none"]
    BY <2>1, CallsOf, CallAtPlaces DEF Calls, PopPC
  <2>5. Effects' = Effects
    <3>1. TRUE = Effect(t)'
      BY <1>8, <2>1 DEF Pending, TypeOK, ReleasePop
    <3>2. Effects' = [Effects EXCEPT ![t] = TRUE]
      BY <1>8, <2>1, <3>1, EffectsOf DEF ReleasePop, TypeOK
    <3>. QED
      BY <2>1, <3>2 DEF Effects, Pending
  <2>6. Transferred' = Transferred
    <3>1. ret[t].mData = Transfer(t)'
      BY <1>8, <2>1 DEF ReleasePop, TypeOK
    <3>2. Transferred' = [Transferred EXCEPT ![t] = ret[t].mData]
      BY <1>8, <2>1, <2>2, <3>1, TransferredOf DEF ReleasePop, TypeOK
    <3>. QED
      BY <2>1, <3>2 DEF Transferred
  <2>. QED
    BY <2>3, <2>4, <2>5, <2>6, BagReturn
<1>9. CASE UNCHANGED ringVars
  <2>1. Contents' = Contents /\ Calls' = Calls
    BY <1>9 DEF ringVars, Contents, Calls
  <2>2. Effects' = Effects /\ Transferred' = Transferred
    BY <1>9 DEF ringVars, Effects, Pending, Transferred
  <2>. QED
    BY <2>1, <2>2, BagStutter
<1>. QED
  BY <1>1, <1>2, <1>3, <1>4, <1>5, <1>6, <1>7, <1>8, <1>9 DEF Next, RingStep

\* Every step of the ring is a step of the abstract bag or one its callers cannot
\* see, for any number of threads, items and slots and counters of any width: no
\* item is lost, invented or popped twice, and what TryPush and TryPop return is
\* what one-at-a-time operations on a bag of Size places would have returned.
THEOREM RingImplementation == Spec => ImplementsBag
<1>1. DataInv /\ [Next]_ringVars /\ DataInv' => [Bag!BagNext]_Bag!bagVars
  BY NextBag
<1>. QED
  BY InitBag, <1>1, DataInvariance, PTL DEF Spec, ImplementsBag, Bag!BagSpec

-----------------------------------------------------------------------------
(***************************************************************************)
(* The scheduler                                                           *)
(***************************************************************************)
Pops == {"popped", "drained", "sync_popped"}
Waits == {"wait_owned", "wait_clear", "wait_release"}

\* What a thread is at outside the ring says what it can be at inside.
Steps ==
    \A t \in Threads :
        /\ at[t] = "push" =>
             /\ arg[t] \in Items
             /\ pc[t] \in {"idle", "push_reserve"} \cup PushPC
             /\ pc[t] \in {"push_reserve", "push_transfer"} => ~ret[t].mValid
             /\ pc[t] = "push_release" => ret[t].mValid
        /\ at[t] \in Pops =>
             /\ pc[t] \in {"idle", "pop_reserve"} \cup PopPC
             /\ pc[t] \in {"pop_reserve", "pop_transfer"} => ~ret[t].mValid
             /\ pc[t] = "pop_release" => ret[t].mValid
        /\ at[t] \notin {"push"} \cup Pops => pc[t] = "idle"
        /\ at[t] \in Waits \/ (at[t] = "push" /\ after[t] = "wait_clear") => t \in Clients
        /\ after[t] \in {"idle", "wait_clear", "size", "spill"}

\* Nothing is overwritten: a slot is empty when a producer may take it, until
\* the producer has filled it, and once a consumer has emptied it.
Vacant ==
    /\ \A i \in Slots : mSlots[i].mState = PRODUCER_READY => mSlots[i].mData = Nil
    /\ \A t \in Threads : pc[t] \in {"push_transfer", "pop_release"} =>
                              mSlots[mine[t]].mData = Nil

\* The threads whose TaskHandle::Wait has invoked the callback in its slot.
Clearing == {t \in InWait : at[t] \in {"wait_clear", "push"}}

\* The places where a task is still to be run from.
SlotsOf(k) == {i \in Slots : mSlots[i].mData = k /\ \A t \in Clearing : handle[t].mSlot # i}
PushersOf(k) == {t \in Threads : at[t] = "push" /\ arg[t] = k /\ ~ret[t].mValid}
PoppersOf(k) == {t \in Threads : at[t] \in Pops /\ ret[t].mValid /\ ret[t].mData = k}
SpilledOf(k) == {n \in DOMAIN spilled : spilled[n] = k}

NoPlace(k) == SlotsOf(k) = {} /\ PushersOf(k) = {} /\ PoppersOf(k) = {} /\ SpilledOf(k) = {}

OnePlace(k) ==
    \E x :
        \/ SlotsOf(k) = {x} /\ PushersOf(k) = {} /\ PoppersOf(k) = {} /\ SpilledOf(k) = {}
        \/ SlotsOf(k) = {} /\ PushersOf(k) = {x} /\ PoppersOf(k) = {} /\ SpilledOf(k) = {}
        \/ SlotsOf(k) = {} /\ PushersOf(k) = {} /\ PoppersOf(k) = {x} /\ SpilledOf(k) = {}
        \/ SlotsOf(k) = {} /\ PushersOf(k) = {} /\ PoppersOf(k) = {} /\ SpilledOf(k) = {x}

\* A task that was submitted is in one such place, or has been run.
Account(k) ==
    IF k \in submitted
    THEN (runs[k] = 0 /\ OnePlace(k)) \/ (runs[k] = 1 /\ NoPlace(k))
    ELSE runs[k] = 0 /\ NoPlace(k)

Accounted == \A k \in Items : Account(k)

Cleared ==
    \A t \in Clearing : LET k == mSlots[handle[t].mSlot].mData IN k \in Items /\ runs[k] = 1

SpawnedOnce == \A k \in Items : Spawns[k] \in submitted => runs[k] = 1

\* What has to be preserved beside the types.
Kept ==
    /\ SlotReservation /\ Steps /\ Vacant
    /\ Accounted /\ Cleared /\ SpawnedOnce /\ QueueSize

SchedulerInv == SchedulerTypeOK /\ Kept
-----------------------------------------------------------------------------
(***************************************************************************)
(* Types                                                                   *)
(***************************************************************************)
Handles == [mValid : BOOLEAN, mSlot : Slots, mSerial : 0..INVALID_SERIAL, mData : Values]

LEMMA NoResultType == NoResult \in Handles /\ ~NoResult.mValid /\ NoResult.mData = Nil
<1>1. NoResult \in Handles
  BY SizeAssumption, WidthAssumption
  DEF NoResult, Result, Handles, Slots, INVALID_SERIAL, Values
<1>. QED
  BY <1>1 DEF NoResult, Result

LEMMA RingTypes ==
    ASSUME TypeOK, NEW t \in Threads,
           RingStep(t) \/ AllocatePopSlot(t) \/ \E k \in Items : AllocatePushSlot(t, k)
    PROVE  TypeOK'
  BY NextTypeOK DEF Next

LEMMA InvokeTypes ==
    ASSUME SchedulerTypeOK, NEW t \in Threads, NEW k \in Items, NEW to \in Places,
           Invoke(t, k, to)
    PROVE  /\ TypeOK' /\ at' \in [Threads -> Places] /\ after' \in [Threads -> Places]
           /\ submitted' \subseteq Items /\ runs' \in [Items -> Nat]
<1>1. runs' \in [Items -> Nat]
  BY DEF SchedulerTypeOK, Invoke
<1>2. CASE Spawns[k] = Nil
  BY <1>1, <1>2 DEF SchedulerTypeOK, Invoke, MoveTo, TypeOK, ringVars
<1>3. CASE Spawns[k] # Nil
  <2>1. Spawns[k] \in Items
    BY <1>3, SchedulerAssumption DEF Values
  <2>2. EnterRunTask(t, Spawns[k], to)
    BY <1>3 DEF Invoke
  <2>3. TypeOK'
    BY <2>1, <2>2, RingTypes DEF EnterRunTask, SchedulerTypeOK
  <2>4. at' \in [Threads -> Places] /\ after' \in [Threads -> Places]
    BY <2>2 DEF EnterRunTask, MoveTo, SchedulerTypeOK, Places
  <2>. QED
    BY <1>1, <2>1, <2>2, <2>3, <2>4 DEF EnterRunTask, SchedulerTypeOK
<1>. QED
  BY <1>2, <1>3

\* WaitRelease: only the slot of the handle changes.
LEMMA ReleaseEffect ==
    ASSUME SchedulerTypeOK, NEW t \in Threads, WaitRelease(t)
    PROVE  LET i == handle[t].mSlot IN
           /\ mSlots' \in SlotArrays
           /\ i \in Slots
           /\ \A j \in Slots \ {i} : mSlots'[j] = mSlots[j]
           /\ mSlots'[i].mData = IF at[t] = "wait_clear" THEN Nil ELSE mSlots[i].mData
           /\ mSlots'[i].mState = IF mSlots[i].mState = t THEN CONSUMER_READY ELSE mSlots[i].mState
<1>. DEFINE i == handle[t].mSlot
            d == IF at[t] = "wait_clear" THEN Nil ELSE mSlots[i].mData
            s == IF mSlots[i].mState = t THEN CONSUMER_READY ELSE mSlots[i].mState
<1>1. mSlots \in SlotArrays /\ i \in Slots
  BY DEF SchedulerTypeOK, TypeOK, SlotArrays
<1>2. d \in Values /\ s \in {PRODUCER_READY, CONSUMER_READY} \cup Threads
  BY <1>1 DEF SlotArrays, Values
<1>3. mSlots' = [mSlots EXCEPT ![i].mData = d, ![i].mState = s]
  BY <1>1 DEF WaitRelease, SlotArrays
<1>. HIDE DEF i, d, s
<1>4. /\ mSlots' \in SlotArrays
      /\ \A j \in Slots \ {i} : mSlots'[j] = mSlots[j]
      /\ mSlots'[i].mData = d
      /\ mSlots'[i].mState = s
  BY <1>1, <1>2, <1>3 DEF SlotArrays
<1>. QED
  BY <1>1, <1>4 DEF i, d, s

LEMMA NextTypes == SchedulerInv /\ [SchedulerNext]_vars => SchedulerTypeOK'
<1>. SUFFICES ASSUME SchedulerInv, [SchedulerNext]_vars PROVE SchedulerTypeOK'
  OBVIOUS
<1>. USE DEF SchedulerInv, Kept, SchedulerTypeOK
<1>1. /\ Main \in Threads /\ Clients \subseteq Threads /\ Workers \subseteq Threads
      /\ Roots \subseteq Items
  BY SchedulerAssumption
<1>2. ASSUME NEW t \in Threads, InRing(t)
      PROVE  SchedulerTypeOK'
  BY <1>2, RingTypes DEF InRing, programVars
<1>3. ASSUME NEW t \in Threads, RunTaskRetry(t)
      PROVE  SchedulerTypeOK'
  <2>1. arg[t] \in Items
    BY <1>3 DEF RunTaskRetry, From, Steps
  <2>. QED
    BY <1>3, <2>1, RingTypes DEF RunTaskRetry, programVars
<1>4. ASSUME NEW t \in Threads, RunTaskSignal(t)
      PROVE  SchedulerTypeOK'
  <2>1. TypeOK'
    BY <1>4 DEF RunTaskSignal, TypeOK, ringVars
  <2>2. ret[t] \in Handles
    BY DEF TypeOK, Handles
  <2>. QED
    BY <1>4, <2>1, <2>2 DEF RunTaskSignal, Released, Places, Handles
<1>5. ASSUME NEW t \in Threads, WaitInvoke(t)
      PROVE  SchedulerTypeOK'
  <2>. DEFINE slot == mSlots[handle[t].mSlot]
  <2>1. slot.mData \in Values
    BY DEF TypeOK
  <2>2. CASE slot.mSerial = handle[t].mSerial /\ slot.mData # Nil
    BY <1>5, <2>1, <2>2, InvokeTypes DEF WaitInvoke, Places, Values
  <2>3. CASE ~(slot.mSerial = handle[t].mSerial /\ slot.mData # Nil)
    BY <1>5, <2>3 DEF WaitInvoke, MoveTo, Places, TypeOK, ringVars
  <2>. QED
    BY <2>2, <2>3
<1>6. ASSUME NEW t \in Threads, WaitRelease(t)
      PROVE  SchedulerTypeOK'
  <2>1. mSlots' \in SlotArrays
    BY <1>6, ReleaseEffect
  <2>2. TypeOK'
    BY <1>6, <2>1 DEF WaitRelease, TypeOK, SlotArrays
  <2>. QED
    BY <1>6, <2>2, NoResultType DEF WaitRelease, MoveTo, Places, Handles
<1>7. ASSUME NEW t \in Threads, WaitReserve(t)
      PROVE  SchedulerTypeOK'
  <2>1. mSlots' \in SlotArrays
    <3>1. mSlots \in SlotArrays
      BY DEF TypeOK, SlotArrays
    <3>2. mSlots' = [mSlots EXCEPT ![handle[t].mSlot].mState = t] \/ mSlots' = mSlots
      BY <1>7 DEF WaitReserve, Exchange
    <3>. HIDE DEF SchedulerInv, Kept, SchedulerTypeOK
    <3>. QED
      BY <3>1, <3>2 DEF SlotArrays
  <2>2. TypeOK'
    BY <1>7, <2>1 DEF WaitReserve, TypeOK, SlotArrays
  <2>. QED
    BY <1>7, <2>2 DEF WaitReserve, MoveTo, Places
<1>8. ASSUME NEW t \in Threads, NEW k \in Roots, RunTask(t, k)
      PROVE  SchedulerTypeOK'
  <2>1. TypeOK'
    BY <1>1, <1>8, RingTypes DEF RunTask, EnterRunTask
  <2>. QED
    BY <1>1, <1>8, <2>1 DEF RunTask, EnterRunTask, MoveTo, Places
<1>9. ASSUME NEW w \in Workers, WorkerStep(w)
      PROVE  SchedulerTypeOK'
  <2>1. CASE WorkerLoop(w) \/ WorkerCheckSize(w) \/ WorkerWait(w)
    BY <1>1, <2>1 DEF WorkerLoop, WorkerCheckSize, WorkerWait, MoveTo, Places, TypeOK, ringVars
  <2>2. CASE WorkerTryPop(w)
    <3>1. TypeOK'
      BY <1>1, <2>2, RingTypes DEF WorkerTryPop
    <3>. QED
      BY <1>1, <2>2, <3>1 DEF WorkerTryPop, MoveTo, Places
  <2>3. CASE WorkerInvoke(w) /\ ret[w].mValid /\ ret[w].mData # Nil
    <3>1. ret[w].mData \in Items
      BY <1>1, <2>3 DEF TypeOK, Values
    <3>. QED
      BY <1>1, <2>3, <3>1, InvokeTypes DEF WorkerInvoke, Places
  <2>4. CASE WorkerInvoke(w) /\ ~(ret[w].mValid /\ ret[w].mData # Nil)
    BY <1>1, <2>4 DEF WorkerInvoke, MoveTo, Places, TypeOK, ringVars
  <2>. QED
    BY <1>9, <2>1, <2>2, <2>3, <2>4 DEF WorkerStep
<1>10. CASE ShutdownBegin \/ ShutdownOpenFence \/ ShutdownJoin \/ ShutdownEnd
  BY <1>1, <1>10 DEF ShutdownBegin, ShutdownOpenFence, ShutdownJoin, ShutdownEnd,
     Released, MoveTo, Places, TypeOK, ringVars
<1>11. CASE ShutdownDrain \/ UpdateSync
  <2>1. TypeOK'
    BY <1>1, <1>11, RingTypes DEF ShutdownDrain, UpdateSync, TypeOK, ringVars
  <2>. QED
    BY <1>1, <1>11, <2>1 DEF ShutdownDrain, UpdateSync, MoveTo, Places
<1>12. CASE ShutdownCollect
  <2>1. TypeOK'
    BY <1>12 DEF ShutdownCollect, TypeOK, ringVars
  <2>2. ret[Main].mData # Nil => ret[Main].mData \in Items
    BY <1>1 DEF TypeOK, Values
  <2>3. spilled' \in Seq(Items)
    BY <1>12, <2>2 DEF ShutdownCollect
  <2>. QED
    BY <1>1, <1>12, <2>1, <2>3 DEF ShutdownCollect, MoveTo, Places
<1>13. CASE ShutdownSpill
  <2>1. Head(spilled) \in Items /\ Tail(spilled) \in Seq(Items)
    BY <1>13 DEF ShutdownSpill
  <2>. QED
    BY <1>1, <1>13, <2>1, InvokeTypes DEF ShutdownSpill, Places
<1>14. CASE UpdateSyncInvoke
  <2>1. ret[Main].mData # Nil => ret[Main].mData \in Items
    BY <1>1 DEF TypeOK, Values
  <2>2. CASE ret[Main].mValid /\ ret[Main].mData # Nil
    BY <1>1, <1>14, <2>1, <2>2, InvokeTypes DEF UpdateSyncInvoke, Places
  <2>3. CASE ~(ret[Main].mValid /\ ret[Main].mData # Nil)
    BY <1>1, <1>14, <2>3 DEF UpdateSyncInvoke, MoveTo, Places, TypeOK, ringVars
  <2>. QED
    BY <2>2, <2>3
<1>15. CASE UNCHANGED vars
  BY <1>15 DEF vars, programVars, ringVars, TypeOK
<1>. QED
  BY <1>2, <1>3, <1>4, <1>5, <1>6, <1>7, <1>8, <1>9, <1>10, <1>11, <1>12, <1>13,
     <1>14, <1>15 DEF SchedulerNext, CallerStep, ShutdownStep
-----------------------------------------------------------------------------
(***************************************************************************)
(* Reservations and accounts                                               *)
(***************************************************************************)
LEMMA Reserved ==
    ASSUME SchedulerTypeOK, SlotReservation, NEW t \in Holding
    PROVE  /\ t \in Threads /\ mine[t] \in Slots /\ mSlots[mine[t]].mState = t
           /\ \A u \in Holding \ {t} : mine[u] # mine[t]
           /\ \A u \in InWait : handle[u].mSlot # mine[t]
<1>1. t \in Threads /\ mine[t] \in Slots
  BY DEF Holding, SchedulerTypeOK, TypeOK
<1>2. mSlots[mine[t]].mState = t
  BY <1>1 DEF SlotReservation
<1>3. \A u \in Holding \ {t} : mine[u] # mine[t]
  BY <1>1, <1>2 DEF SlotReservation, Holding
<1>4. \A u \in InWait : u \in Threads
  BY SchedulerAssumption DEF InWait
<1>. QED
  BY <1>1, <1>2, <1>3, <1>4 DEF SlotReservation

LEMMA Waited ==
    ASSUME SchedulerTypeOK, SlotReservation, NEW t \in InWait
    PROVE  /\ t \in Threads /\ handle[t].mSlot \in Slots /\ mSlots[handle[t].mSlot].mState = t
           /\ \A u \in InWait \ {t} : handle[u].mSlot # handle[t].mSlot
           /\ \A u \in Holding : mine[u] # handle[t].mSlot
<1>1. InWait \subseteq Threads
  BY SchedulerAssumption DEF InWait
<1>2. handle[t].mSlot \in Slots
  BY <1>1 DEF SchedulerTypeOK
<1>3. mSlots[handle[t].mSlot].mState = t
  BY <1>1, <1>2 DEF SlotReservation
<1>. QED
  BY <1>1, <1>2, <1>3, Reserved DEF SlotReservation

\* The step leaves task k where it is.
Unmoved(k) ==
    /\ UNCHANGED <<SlotsOf(k), PushersOf(k), PoppersOf(k), SpilledOf(k)>>
    /\ runs'[k] = runs[k]
    /\ (k \in submitted)' <=> k \in submitted

LEMMA UnmovedAccount ==
    ASSUME NEW k \in Items, Account(k), Unmoved(k)
    PROVE  Account(k)'
  BY DEF Account, Unmoved, NoPlace, OnePlace

\* A task that is in a place is in no other, and is still to be run.
LEMMA Alone ==
    ASSUME NEW k \in Items, Account(k)
    PROVE  /\ ~NoPlace(k) => k \in submitted /\ runs[k] = 0
           /\ \A i \in SlotsOf(k) :
                SlotsOf(k) = {i} /\ PushersOf(k) = {} /\ PoppersOf(k) = {} /\ SpilledOf(k) = {}
           /\ \A t \in PushersOf(k) :
                SlotsOf(k) = {} /\ PushersOf(k) = {t} /\ PoppersOf(k) = {} /\ SpilledOf(k) = {}
           /\ \A t \in PoppersOf(k) :
                SlotsOf(k) = {} /\ PushersOf(k) = {} /\ PoppersOf(k) = {t} /\ SpilledOf(k) = {}
           /\ \A n \in SpilledOf(k) :
                SlotsOf(k) = {} /\ PushersOf(k) = {} /\ PoppersOf(k) = {} /\ SpilledOf(k) = {n}
  BY DEF Account, NoPlace, OnePlace
-----------------------------------------------------------------------------
(***************************************************************************)
(* Steps outside the ring                                                  *)
(***************************************************************************)
\* The steps that only move threads between places where they hold no task.
Quiet ==
    /\ UNCHANGED <<ringVars, after, handle, spilled, submitted, runs>>
    /\ \A u \in Threads : at'[u] # at[u] =>
         /\ at[u] \notin {"push"} \cup Waits
         /\ at'[u] \notin {"push"} \cup Waits \cup Pops
         /\ pc[u] = "idle"
         /\ at[u] \in Pops => ~(ret[u].mValid /\ ret[u].mData # Nil)

LEMMA QuietKept ==
    ASSUME SchedulerInv, Quiet
    PROVE  Kept'
<1>. USE DEF SchedulerInv, Kept
<1>1. UNCHANGED <<mSlots, mSize, pc, mine, arg, ret, after, handle, spilled, submitted, runs>>
  BY DEF Quiet, ringVars
<1>2. InWait' = InWait /\ Holding' = Holding /\ Counted' = Counted
  BY <1>1, SchedulerAssumption DEF Quiet, InWait, Holding, Counted, Waits
<1>3. Clearing' = Clearing
  BY <1>2, SchedulerAssumption DEF Quiet, InWait, Clearing, Waits
<1>4. SlotReservation' /\ QueueSize'
  BY <1>1, <1>2 DEF SlotReservation, QueueSize
<1>5. Steps' /\ Vacant'
  BY <1>1 DEF Steps, Vacant, Quiet, Waits
<1>6. Cleared' /\ SpawnedOnce'
  BY <1>1, <1>3 DEF Cleared, SpawnedOnce
<1>7. ASSUME NEW k \in Items PROVE Account(k)'
  <2>1. k # Nil
    BY TasksAssumption, ItemsAssumption
  <2>2. SlotsOf(k)' = SlotsOf(k) /\ SpilledOf(k)' = SpilledOf(k)
    BY <1>1, <1>3 DEF SlotsOf, SpilledOf
  <2>3. PushersOf(k)' = PushersOf(k) /\ PoppersOf(k)' = PoppersOf(k)
    BY <1>1, <2>1 DEF Quiet, PushersOf, PoppersOf, Waits
  <2>. QED
    BY <1>1, <2>2, <2>3, UnmovedAccount DEF Unmoved, Accounted
<1>. QED
  BY <1>4, <1>5, <1>6, <1>7 DEF Accounted

\* A worker, Shutdown or UpdateSync enters TryPop.
DrawPop(t, p) ==
    /\ AllocatePopSlot(t) /\ p \in Pops /\ MoveTo(t, p)
    /\ at[t] \notin {"push"} \cup Waits \cup Pops
    /\ UNCHANGED <<after, handle, spilled, submitted, runs>>

LEMMA DrawPopKept ==
    ASSUME SchedulerInv, NEW t \in Threads, NEW p, DrawPop(t, p)
    PROVE  Kept'
<1>. USE DEF SchedulerInv, Kept
<1>1. /\ UNCHANGED <<mSlots, mSize, after, handle, spilled, submitted, runs>>
      /\ pc[t] = "idle" /\ pc' = [pc EXCEPT ![t] = "pop_reserve"]
      /\ mine' = [mine EXCEPT ![t] = mine'[t]] /\ arg' = [arg EXCEPT ![t] = Nil]
      /\ ret' = [ret EXCEPT ![t] = NoResult] /\ at' = [at EXCEPT ![t] = p]
      /\ p \in Pops /\ at[t] \notin {"push"} \cup Waits \cup Pops
  BY DEF DrawPop, AllocatePopSlot, Goto, MoveTo, SchedulerTypeOK, TypeOK
<1>2. InWait' = InWait /\ Holding' = Holding
  BY <1>1, SchedulerAssumption DEF InWait, Holding, Waits, Pops, PushPC, PopPC, SchedulerTypeOK, TypeOK
<1>3. Clearing' = Clearing /\ t \notin InWait /\ t \notin Holding
  BY <1>1, <1>2, SchedulerAssumption
  DEF InWait, Clearing, Holding, Waits, Pops, PushPC, PopPC, SchedulerTypeOK
<1>4. Counted' = Counted
  BY <1>1 DEF Counted, SchedulerTypeOK, TypeOK
<1>5. SlotReservation'
  BY <1>1, <1>2, <1>3 DEF SlotReservation, SchedulerTypeOK, TypeOK
<1>6. QueueSize'
  BY <1>1, <1>2, <1>4 DEF QueueSize
<1>7. Steps'
  BY <1>1, NoResultType DEF Steps, Waits, Pops, SchedulerTypeOK, TypeOK
<1>8. Vacant'
  BY <1>1 DEF Vacant, SchedulerTypeOK, TypeOK
<1>9. Cleared' /\ SpawnedOnce'
  BY <1>1, <1>3 DEF Cleared, SpawnedOnce
<1>10. ASSUME NEW k \in Items PROVE Account(k)'
  <2>1. SlotsOf(k)' = SlotsOf(k) /\ SpilledOf(k)' = SpilledOf(k)
    BY <1>1, <1>3 DEF SlotsOf, SpilledOf
  <2>2. PushersOf(k)' = PushersOf(k)
    BY <1>1 DEF PushersOf, Pops, SchedulerTypeOK, TypeOK
  <2>3. PoppersOf(k)' = PoppersOf(k)
    BY <1>1, NoResultType DEF PoppersOf, SchedulerTypeOK, TypeOK
  <2>. QED
    BY <1>1, <2>1, <2>2, <2>3, UnmovedAccount DEF Unmoved, Accounted
<1>. QED
  BY <1>5, <1>6, <1>7, <1>8, <1>9, <1>10 DEF Accounted

LEMMA RetryKept ==
    ASSUME SchedulerInv, NEW t \in Threads, RunTaskRetry(t)
    PROVE  Kept'
<1>. USE DEF SchedulerInv, Kept
<1>1. /\ UNCHANGED <<mSlots, mSize, arg, at, after, handle, spilled, submitted, runs>>
      /\ pc[t] = "idle" /\ pc' = [pc EXCEPT ![t] = "push_reserve"]
      /\ mine' = [mine EXCEPT ![t] = mine'[t]]
      /\ ret' = [ret EXCEPT ![t] = NoResult] /\ at[t] = "push" /\ ~ret[t].mValid
  BY DEF RunTaskRetry, From, AllocatePushSlot, Goto, programVars, SchedulerTypeOK, TypeOK
<1>2. InWait' = InWait /\ Clearing' = Clearing
  BY <1>1 DEF InWait, Clearing
<1>3. Holding' = Holding /\ t \notin Holding
  BY <1>1 DEF Holding, PushPC, PopPC, SchedulerTypeOK, TypeOK
<1>4. Counted' = Counted
  BY <1>1 DEF Counted, SchedulerTypeOK, TypeOK
<1>5. SlotReservation'
  BY <1>1, <1>2, <1>3 DEF SlotReservation, SchedulerTypeOK, TypeOK
<1>6. QueueSize'
  BY <1>1, <1>2, <1>4 DEF QueueSize
<1>7. Steps'
  BY <1>1, NoResultType DEF Steps, Waits, Pops, SchedulerTypeOK, TypeOK
<1>8. Vacant'
  BY <1>1 DEF Vacant, SchedulerTypeOK, TypeOK
<1>9. Cleared' /\ SpawnedOnce'
  BY <1>1, <1>2 DEF Cleared, SpawnedOnce
<1>10. ASSUME NEW k \in Items PROVE Account(k)'
  <2>1. SlotsOf(k)' = SlotsOf(k) /\ SpilledOf(k)' = SpilledOf(k)
    BY <1>1, <1>2 DEF SlotsOf, SpilledOf
  <2>2. PushersOf(k)' = PushersOf(k)
    BY <1>1, NoResultType DEF PushersOf, SchedulerTypeOK, TypeOK
  <2>3. PoppersOf(k)' = PoppersOf(k)
    BY <1>1, NoResultType DEF PoppersOf, Pops, SchedulerTypeOK, TypeOK
  <2>. QED
    BY <1>1, <2>1, <2>2, <2>3, UnmovedAccount DEF Unmoved, Accounted
<1>. QED
  BY <1>5, <1>6, <1>7, <1>8, <1>9, <1>10 DEF Accounted

LEMMA SignalKept ==
    ASSUME SchedulerInv, NEW t \in Threads, RunTaskSignal(t)
    PROVE  Kept'
<1>. USE DEF SchedulerInv, Kept
<1>1. /\ UNCHANGED <<mSlots, mSize, pc, mine, arg, ret, after, spilled, submitted, runs>>
      /\ at[t] = "push" /\ pc[t] = "idle" /\ ret[t].mValid
      /\ at'[t] = after[t] /\ after[t] \in {"idle", "wait_clear", "size", "spill"}
      /\ \A u \in Threads \ {t} :
           at'[u] = at[u] \/ (at[u] = "waiting" /\ at'[u] = "loop")
      /\ handle' = handle \/ (after[t] = "idle" /\ \A u \in Threads \ {t} : handle'[u] = handle[u])
  BY DEF RunTaskSignal, From, Released, Steps, ringVars, SchedulerTypeOK
<1>2. InWait' = InWait
  BY <1>1, SchedulerAssumption DEF InWait
<1>3. Clearing' = Clearing
  BY <1>1, <1>2, SchedulerAssumption DEF InWait, Clearing
<1>4. \A u \in InWait : handle'[u] = handle[u] /\ u \in Threads
  BY <1>1, SchedulerAssumption DEF InWait
<1>5. Counted' = Counted /\ Holding' = Holding
  BY <1>1 DEF Counted, Holding
<1>6. SlotReservation'
  BY <1>1, <1>2, <1>4, <1>5 DEF SlotReservation
<1>7. {handle[u].mSlot : u \in InWait}' = {handle[u].mSlot : u \in InWait}
  BY <1>2, <1>4
<1>8. QueueSize'
  BY <1>1, <1>5, <1>7 DEF QueueSize
<1>9. Steps'
  BY <1>1 DEF Steps, Waits, Pops
<1>10. Vacant'
  BY <1>1 DEF Vacant
<1>11. Clearing \subseteq InWait
  BY DEF Clearing
<1>12. Cleared' /\ SpawnedOnce'
  BY <1>1, <1>3, <1>4, <1>11 DEF Cleared, SpawnedOnce
<1>13. ASSUME NEW k \in Items PROVE Account(k)'
  <2>1. SlotsOf(k)' = SlotsOf(k) /\ SpilledOf(k)' = SpilledOf(k)
    BY <1>1, <1>3, <1>4, <1>11 DEF SlotsOf, SpilledOf
  <2>2. PushersOf(k)' = PushersOf(k)
    BY <1>1 DEF PushersOf
  <2>3. PoppersOf(k)' = PoppersOf(k)
    BY <1>1 DEF PoppersOf, Pops
  <2>. QED
    BY <1>1, <2>1, <2>2, <2>3, UnmovedAccount DEF Unmoved, Accounted
<1>. QED
  BY <1>6, <1>8, <1>9, <1>10, <1>12, <1>13 DEF Accounted

LEMMA WaitReserveKept ==
    ASSUME SchedulerInv, NEW t \in Threads, WaitReserve(t)
    PROVE  Kept'
<1>. USE DEF SchedulerInv, Kept
<1>. DEFINE i == handle[t].mSlot
<1>1. /\ UNCHANGED <<mSize, pc, mine, arg, ret, after, handle, spilled, submitted, runs>>
      /\ at[t] = "idle" /\ pc[t] = "idle" /\ at' = [at EXCEPT ![t] = "wait_owned"]
      /\ i \in Slots /\ mSlots[i].mState = CONSUMER_READY /\ t \in Clients
      /\ mSlots' = [mSlots EXCEPT ![i].mState = t]
  BY DEF WaitReserve, From, Exchange, MoveTo, SchedulerTypeOK
<1>2. /\ \A j \in Slots \ {i} : mSlots'[j] = mSlots[j]
      /\ mSlots'[i].mState = t
      /\ \A j \in Slots : mSlots'[j].mData = mSlots[j].mData
  BY <1>1 DEF SchedulerTypeOK, TypeOK
<1>3. InWait' = InWait \cup {t} /\ t \notin InWait /\ InWait \subseteq Threads
  BY <1>1, SchedulerAssumption DEF InWait, SchedulerTypeOK
<1>4. Clearing' = Clearing
  BY <1>1, <1>3, SchedulerAssumption DEF InWait, Clearing, SchedulerTypeOK
<1>5. Holding' = Holding /\ t \notin Holding
  BY <1>1 DEF Holding, PushPC, PopPC
<1>6. SlotReservation'
  BY <1>1, <1>2, <1>3, <1>5, ThreadsAssumption
  DEF SlotReservation, SchedulerTypeOK, TypeOK
<1>7. QueueSize'
  <2>1. (Counted \cup {handle[u].mSlot : u \in InWait})' = Counted \cup {handle[u].mSlot : u \in InWait}
    BY <1>1, <1>2, <1>3, ThreadsAssumption DEF Counted, SchedulerTypeOK
  <2>. QED
    BY <1>1, <2>1 DEF QueueSize
<1>8. Steps'
  BY <1>1 DEF Steps, Waits, Pops, SchedulerTypeOK
<1>9. Vacant'
  BY <1>1, <1>2, ThreadsAssumption DEF Vacant, SchedulerTypeOK, TypeOK
<1>10. Clearing \subseteq InWait
  BY DEF Clearing
<1>11. Cleared' /\ SpawnedOnce'
  BY <1>1, <1>2, <1>3, <1>4, <1>10 DEF Cleared, SpawnedOnce, SchedulerTypeOK
<1>12. ASSUME NEW k \in Items PROVE Account(k)'
  <2>1. SlotsOf(k)' = SlotsOf(k) /\ SpilledOf(k)' = SpilledOf(k)
    BY <1>1, <1>2, <1>4 DEF SlotsOf, SpilledOf
  <2>2. PushersOf(k)' = PushersOf(k) /\ PoppersOf(k)' = PoppersOf(k)
    BY <1>1 DEF PushersOf, PoppersOf, Pops, SchedulerTypeOK
  <2>. QED
    BY <1>1, <2>1, <2>2, UnmovedAccount DEF Unmoved, Accounted
<1>. QED
  BY <1>6, <1>7, <1>8, <1>9, <1>11, <1>12 DEF Accounted

LEMMA WaitReleaseKept ==
    ASSUME SchedulerInv, NEW t \in Threads, WaitRelease(t)
    PROVE  Kept'
<1>. USE DEF SchedulerInv, Kept
<1>. DEFINE i == handle[t].mSlot
<1>1. /\ UNCHANGED <<mSize, pc, mine, arg, ret, after, spilled, submitted, runs>>
      /\ at[t] \in {"wait_clear", "wait_release"} /\ pc[t] = "idle"
      /\ at' = [at EXCEPT ![t] = "idle"] /\ handle' = [handle EXCEPT ![t] = NoResult]
  BY DEF WaitRelease, MoveTo
<1>2. t \in InWait /\ InWait \subseteq Threads
  BY <1>1, SchedulerAssumption DEF InWait, Steps, Waits
<1>3. /\ i \in Slots /\ mSlots[i].mState = t
      /\ \A u \in InWait \ {t} : handle[u].mSlot # i
      /\ \A u \in Holding : mine[u] # i
  BY <1>2, Waited
<1>4. /\ \A j \in Slots \ {i} : mSlots'[j] = mSlots[j]
      /\ mSlots'[i].mData = IF at[t] = "wait_clear" THEN Nil ELSE mSlots[i].mData
      /\ mSlots'[i].mState = CONSUMER_READY
  BY <1>3, ReleaseEffect
<1>5. InWait' = InWait \ {t}
  BY <1>1, SchedulerAssumption DEF InWait, SchedulerTypeOK
<1>6. \A u \in InWait' : u \in InWait /\ u # t /\ handle'[u] = handle[u]
  BY <1>1, <1>2, <1>5 DEF SchedulerTypeOK
<1>7. Clearing' = Clearing \ {t}
  BY <1>1, <1>5, SchedulerAssumption DEF InWait, Clearing, SchedulerTypeOK
<1>8. Holding' = Holding /\ t \notin Holding
  BY <1>1 DEF Holding, PushPC, PopPC
<1>9. SlotReservation'
  <2>1. ASSUME NEW j \in Slots, NEW u \in Threads
        PROVE  /\ mSlots'[j].mState = u <=> mSlots[j].mState = u /\ j # i
               /\ u \in InWait' /\ handle'[u].mSlot = j <=>
                    u \in InWait /\ handle[u].mSlot = j /\ j # i
               /\ u \in Holding /\ mine[u] = j => j # i
    BY <1>2, <1>3, <1>4, <1>5, <1>6, ThreadsAssumption
  <2>2. \A u \in InWait' : handle'[u].mSlot \in Slots
    BY <1>2, <1>5, <1>6 DEF SchedulerTypeOK
  <2>3. \A u \in Holding \cap InWait' : mine[u] # handle'[u].mSlot
    BY <1>2, <1>5, <1>6 DEF SlotReservation, SchedulerTypeOK
  <2>. QED
    BY <1>1, <1>8, <2>1, <2>2, <2>3 DEF SlotReservation
<1>10. QueueSize'
  <2>1. Counted' = Counted \cup {i}
    BY <1>1, <1>3, <1>4 DEF Counted
  <2>2. {handle[u].mSlot : u \in InWait} = {handle[u].mSlot : u \in InWait}' \cup {i}
    BY <1>2, <1>5, <1>6
  <2>3. (Counted \cup {handle[u].mSlot : u \in InWait})' = Counted \cup {handle[u].mSlot : u \in InWait}
    BY <2>1, <2>2
  <2>. QED
    BY <1>1, <2>3 DEF QueueSize
<1>11. Steps'
  BY <1>1 DEF Steps, Waits, Pops, SchedulerTypeOK
<1>12. Vacant'
  <2>1. \A j \in Slots : mSlots'[j].mState = PRODUCER_READY => j # i
    BY <1>4 DEF PRODUCER_READY, CONSUMER_READY
  <2>2. \A u \in Threads : pc[u] \in {"push_transfer", "pop_release"} => mine[u] # i /\ mine[u] \in Slots
    BY <1>3 DEF Holding, PushPC, PopPC, SchedulerTypeOK, TypeOK
  <2>. QED
    BY <1>1, <1>4, <2>1, <2>2 DEF Vacant
<1>13. Clearing \subseteq InWait
  BY DEF Clearing
<1>14. Cleared'
  <2>1. ASSUME NEW u \in Clearing'
        PROVE  u \in Clearing /\ handle'[u] = handle[u] /\ handle[u].mSlot \in Slots \ {i}
    BY <1>2, <1>3, <1>5, <1>6, <1>7, <1>13 DEF SchedulerTypeOK
  <2>. QED
    BY <1>1, <1>4, <2>1 DEF Cleared
<1>15. SpawnedOnce'
  BY <1>1 DEF SpawnedOnce
<1>16. ASSUME NEW k \in Items PROVE Account(k)'
  <2>1. k # Nil
    BY TasksAssumption, ItemsAssumption
  <2>2. \A j \in Slots \ {i} : j \in SlotsOf(k)' <=> j \in SlotsOf(k)
    BY <1>3, <1>4, <1>6, <1>7, <1>13, <1>5 DEF SlotsOf
  <2>3. i \in SlotsOf(k)' <=> i \in SlotsOf(k)
    <3>1. CASE at[t] = "wait_clear"
      BY <1>2, <1>3, <1>4, <2>1, <3>1 DEF SlotsOf, Clearing
    <3>2. CASE at[t] = "wait_release"
      <4>1. mSlots'[i].mData = mSlots[i].mData
        BY <1>4, <3>2
      <4>2. \A u \in Clearing \cup Clearing' : u \in InWait \ {t}
        BY <1>5, <1>7, <1>13, <3>2 DEF Clearing
      <4>3. \A u \in Clearing : handle[u].mSlot # i
        BY <1>3, <4>2
      <4>4. \A u \in Clearing' : handle'[u].mSlot # i
        BY <1>3, <1>5, <1>6, <4>2
      <4>. QED
        BY <4>1, <4>3, <4>4 DEF SlotsOf
    <3>. QED
      BY <1>1, <3>1, <3>2
  <2>4. SlotsOf(k)' = SlotsOf(k)
    BY <1>3, <2>2, <2>3 DEF SlotsOf
  <2>5. PushersOf(k)' = PushersOf(k) /\ PoppersOf(k)' = PoppersOf(k) /\ SpilledOf(k)' = SpilledOf(k)
    BY <1>1 DEF PushersOf, PoppersOf, SpilledOf, Pops, SchedulerTypeOK
  <2>. QED
    BY <1>1, <2>4, <2>5, UnmovedAccount DEF Unmoved, Accounted
<1>. QED
  BY <1>9, <1>10, <1>11, <1>12, <1>14, <1>15, <1>16 DEF Accounted

\* TaskHandle::Wait finds the slot reused, or its task already run.
LEMMA WaitMissKept ==
    ASSUME SchedulerInv, NEW t \in Threads, WaitInvoke(t),
           ~(/\ mSlots[handle[t].mSlot].mSerial = handle[t].mSerial
             /\ mSlots[handle[t].mSlot].mData # Nil)
    PROVE  Kept'
<1>. USE DEF SchedulerInv, Kept
<1>1. /\ UNCHANGED <<mSlots, mSize, pc, mine, arg, ret, after, handle, spilled, submitted, runs>>
      /\ at[t] = "wait_owned" /\ pc[t] = "idle" /\ at' = [at EXCEPT ![t] = "wait_release"]
  BY DEF WaitInvoke, From, MoveTo, ringVars
<1>2. InWait' = InWait /\ Holding' = Holding /\ Counted' = Counted
  BY <1>1, SchedulerAssumption DEF InWait, Holding, Counted, SchedulerTypeOK
<1>3. Clearing' = Clearing
  BY <1>1, <1>2, SchedulerAssumption DEF InWait, Clearing, SchedulerTypeOK
<1>4. SlotReservation' /\ QueueSize'
  BY <1>1, <1>2 DEF SlotReservation, QueueSize
<1>5. Steps' /\ Vacant'
  BY <1>1 DEF Steps, Vacant, Waits, Pops, SchedulerTypeOK
<1>6. Cleared' /\ SpawnedOnce'
  BY <1>1, <1>3 DEF Cleared, SpawnedOnce
<1>7. ASSUME NEW k \in Items PROVE Account(k)'
  <2>1. SlotsOf(k)' = SlotsOf(k) /\ SpilledOf(k)' = SpilledOf(k)
    BY <1>1, <1>3 DEF SlotsOf, SpilledOf
  <2>2. PushersOf(k)' = PushersOf(k) /\ PoppersOf(k)' = PoppersOf(k)
    BY <1>1 DEF PushersOf, PoppersOf, Pops, SchedulerTypeOK
  <2>. QED
    BY <1>1, <2>1, <2>2, UnmovedAccount DEF Unmoved, Accounted
<1>. QED
  BY <1>4, <1>5, <1>6, <1>7 DEF Accounted

LEMMA CollectKept ==
    ASSUME SchedulerInv, ShutdownCollect
    PROVE  Kept'
<1>. USE DEF SchedulerInv, Kept
<1>. DEFINE d == ret[Main].mData
            got == ret[Main].mValid /\ d # Nil
<1>1. /\ UNCHANGED <<mSlots, mSize, pc, mine, arg, ret, after, handle, submitted, runs>>
      /\ Main \in Threads /\ at[Main] = "drained" /\ pc[Main] = "idle"
      /\ at' = [at EXCEPT ![Main] = "drain"]
      /\ spilled' = IF got THEN Append(spilled, d) ELSE spilled
      /\ (got => d \in Items) /\ spilled \in Seq(Items)
  BY SchedulerAssumption DEF ShutdownCollect, From, MoveTo, ringVars, SchedulerTypeOK, TypeOK, Values
<1>2. InWait' = InWait /\ Holding' = Holding /\ Counted' = Counted
  BY <1>1, SchedulerAssumption DEF InWait, Holding, Counted, SchedulerTypeOK
<1>3. Clearing' = Clearing
  BY <1>1, <1>2, SchedulerAssumption DEF InWait, Clearing, SchedulerTypeOK
<1>4. SlotReservation' /\ QueueSize'
  BY <1>1, <1>2 DEF SlotReservation, QueueSize
<1>5. Steps' /\ Vacant'
  BY <1>1 DEF Steps, Vacant, Waits, Pops, SchedulerTypeOK
<1>6. Cleared' /\ SpawnedOnce'
  BY <1>1, <1>3 DEF Cleared, SpawnedOnce
<1>7. ASSUME NEW k \in Items PROVE Account(k)'
  <2>1. SlotsOf(k)' = SlotsOf(k) /\ PushersOf(k)' = PushersOf(k)
    BY <1>1, <1>3 DEF SlotsOf, PushersOf, SchedulerTypeOK
  <2>2. PoppersOf(k)' = PoppersOf(k) \ {Main}
    BY <1>1 DEF PoppersOf, Pops, SchedulerTypeOK
  <2>3. CASE got /\ k = d
    <3>1. Main \in PoppersOf(k)
      BY <1>1, <2>3 DEF PoppersOf, Pops
    <3>2. k \in submitted /\ runs[k] = 0 /\ SlotsOf(k) = {} /\ PushersOf(k) = {}
          /\ PoppersOf(k) = {Main} /\ SpilledOf(k) = {}
      BY <3>1, Alone DEF Accounted, NoPlace
    <3>3. SpilledOf(k)' = {Len(spilled) + 1}
      <4>1. spilled' = Append(spilled, k)
        BY <1>1, <2>3
      <4>2. \A n \in DOMAIN spilled : spilled[n] # k
        BY <3>2 DEF SpilledOf
      <4>. QED
        BY <1>1, <4>1, <4>2 DEF SpilledOf
    <3>4. OnePlace(k)'
      BY <2>1, <2>2, <3>2, <3>3 DEF OnePlace
    <3>. QED
      BY <1>1, <3>2, <3>4 DEF Account
  <2>4. CASE ~(got /\ k = d)
    <3>1. Main \notin PoppersOf(k)
      BY <2>4, TasksAssumption, ItemsAssumption DEF PoppersOf
    <3>2. SpilledOf(k)' = SpilledOf(k)
      BY <1>1, <2>4 DEF SpilledOf
    <3>. QED
      BY <1>1, <2>1, <2>2, <3>1, <3>2, UnmovedAccount DEF Unmoved, Accounted
  <2>. QED
    BY <2>3, <2>4
<1>. QED
  BY <1>4, <1>5, <1>6, <1>7 DEF Accounted

-----------------------------------------------------------------------------
(***************************************************************************)
(* Submissions and callbacks                                               *)
(***************************************************************************)
\* What a thread at rest outside the ring changes when it enters RunTask.
LEMMA EnterEffect ==
    ASSUME SchedulerTypeOK, NEW t \in Threads, NEW k \in Items, NEW to, EnterRunTask(t, k, to)
    PROVE  /\ UNCHANGED <<mSlots, mSize>> /\ submitted' = submitted \cup {k}
           /\ pc[t] = "idle" /\ pc' = [pc EXCEPT ![t] = "push_reserve"]
           /\ mine' = [mine EXCEPT ![t] = mine'[t]] /\ arg' = [arg EXCEPT ![t] = k]
           /\ ret' = [ret EXCEPT ![t] = NoResult] /\ at' = [at EXCEPT ![t] = "push"]
           /\ after' = [after EXCEPT ![t] = to]
  BY DEF EnterRunTask, AllocatePushSlot, Goto, MoveTo, SchedulerTypeOK, TypeOK

\* A task that was not submitted is nowhere, and is then at its push only.
LEMMA EnterAccount ==
    ASSUME SchedulerInv, NEW t \in Threads, NEW k \in Items, NEW to, EnterRunTask(t, k, to),
           k \notin submitted, at[t] # "push", runs'[k] = runs[k],
           SlotsOf(k)' \subseteq SlotsOf(k), SpilledOf(k)' = {}
    PROVE  Account(k)'
<1>1. NoPlace(k) /\ runs[k] = 0
  BY DEF SchedulerInv, Kept, Accounted, Account
<1>2. /\ submitted' = submitted \cup {k} /\ arg' = [arg EXCEPT ![t] = k]
      /\ ret' = [ret EXCEPT ![t] = NoResult] /\ at' = [at EXCEPT ![t] = "push"]
  BY EnterEffect DEF SchedulerInv
<1>3. arg \in [Threads -> Values] /\ at \in [Threads -> Places] /\ DOMAIN ret = Threads
  BY DEF SchedulerInv, SchedulerTypeOK, TypeOK
<1>4. PushersOf(k)' = {t}
  BY <1>1, <1>2, <1>3, NoResultType DEF NoPlace, PushersOf
<1>5. PoppersOf(k)' = {}
  BY <1>1, <1>2, <1>3 DEF NoPlace, PoppersOf, Pops
<1>6. OnePlace(k)'
  BY <1>1, <1>4, <1>5 DEF NoPlace, OnePlace
<1>. QED
  BY <1>1, <1>2, <1>6 DEF Account

LEMMA RunTaskKept ==
    ASSUME SchedulerInv, NEW t \in Threads, NEW k \in Roots, RunTask(t, k)
    PROVE  Kept'
<1>. USE DEF SchedulerInv, Kept
<1>0. k \in Items /\ EnterRunTask(t, k, "idle") /\ k \notin submitted /\ at[t] = "idle"
      /\ UNCHANGED <<handle, spilled, runs>>
  BY SchedulerAssumption DEF RunTask, From
<1>1. /\ UNCHANGED <<mSlots, mSize, handle, spilled, runs>> /\ submitted' = submitted \cup {k}
      /\ pc[t] = "idle" /\ pc' = [pc EXCEPT ![t] = "push_reserve"]
      /\ mine' = [mine EXCEPT ![t] = mine'[t]] /\ arg' = [arg EXCEPT ![t] = k]
      /\ ret' = [ret EXCEPT ![t] = NoResult] /\ at' = [at EXCEPT ![t] = "push"]
      /\ after' = [after EXCEPT ![t] = "idle"]
  BY <1>0, EnterEffect
<1>2. InWait' = InWait /\ Holding' = Holding /\ t \notin InWait /\ t \notin Holding
  BY <1>0, <1>1, SchedulerAssumption DEF InWait, Holding, PushPC, PopPC, SchedulerTypeOK, TypeOK
<1>3. Clearing' = Clearing
  BY <1>1, <1>2, SchedulerAssumption DEF InWait, Clearing, SchedulerTypeOK
<1>4. Counted' = Counted
  BY <1>1 DEF Counted, SchedulerTypeOK, TypeOK
<1>5. SlotReservation'
  BY <1>1, <1>2 DEF SlotReservation, SchedulerTypeOK, TypeOK
<1>6. QueueSize'
  BY <1>1, <1>2, <1>4 DEF QueueSize
<1>7. Steps'
  BY <1>0, <1>1, NoResultType DEF Steps, Waits, Pops, SchedulerTypeOK, TypeOK
<1>8. Vacant'
  BY <1>1 DEF Vacant, SchedulerTypeOK, TypeOK
<1>9. Cleared'
  BY <1>1, <1>3 DEF Cleared
<1>10. SpawnedOnce'
  BY <1>0, <1>1, TasksAssumption, ItemsAssumption DEF SpawnedOnce
<1>11. ASSUME NEW j \in Items PROVE Account(j)'
  <2>1. SlotsOf(j)' = SlotsOf(j) /\ SpilledOf(j)' = SpilledOf(j)
    BY <1>1, <1>3 DEF SlotsOf, SpilledOf
  <2>2. CASE j = k
    BY <1>0, <1>1, <2>1, <2>2, EnterAccount DEF Accounted, Account, NoPlace
  <2>3. CASE j # k
    <3>1. PushersOf(j)' = PushersOf(j) /\ PoppersOf(j)' = PoppersOf(j)
      BY <1>0, <1>1, <2>3 DEF PushersOf, PoppersOf, Pops, SchedulerTypeOK, TypeOK
    <3>. QED
      BY <1>1, <2>1, <2>3, <3>1, UnmovedAccount DEF Unmoved, Accounted
  <2>. QED
    BY <2>2, <2>3
<1>. QED
  BY <1>5, <1>6, <1>7, <1>8, <1>9, <1>10, <1>11 DEF Accounted

\* A callback is invoked by a thread that is at rest outside the ring and of
\* RunTask; what it submits was not submitted before.
Invoking(t, k, to) ==
    /\ Invoke(t, k, to) /\ pc[t] = "idle"
    /\ \/ at[t] = "wait_owned" /\ to = "wait_clear"
       \/ at[t] \in Pops \cup {"spill"} /\ to \in {"idle", "size", "spill"}
    /\ k \in submitted /\ runs[k] = 0
    /\ UNCHANGED handle

\* Whether the callback submits a task or not.
LEMMA InvokeEffect ==
    ASSUME SchedulerInv, NEW t \in Threads, NEW k \in Items, NEW to, Invoking(t, k, to)
    PROVE  /\ UNCHANGED <<mSlots, mSize>> /\ handle' = handle /\ runs' = [runs EXCEPT ![k] = 1]
           /\ \A u \in Threads \ {t} :
                /\ pc'[u] = pc[u] /\ mine'[u] = mine[u] /\ arg'[u] = arg[u] /\ ret'[u] = ret[u]
                /\ at'[u] = at[u] /\ after'[u] = after[u]
           /\ pc'[t] \in {"idle", "push_reserve"}
           /\ \/ /\ Spawns[k] = Nil /\ at'[t] = to /\ pc'[t] = "idle" /\ after'[t] = after[t]
                 /\ submitted' = submitted
              \/ /\ Spawns[k] \in Items \ submitted /\ EnterRunTask(t, Spawns[k], to)
                 /\ at'[t] = "push" /\ arg'[t] = Spawns[k] /\ ret'[t] = NoResult
                 /\ after'[t] = to /\ submitted' = submitted \cup {Spawns[k]}
<1>1. runs' = [runs EXCEPT ![k] = 1] /\ handle' = handle
  BY DEF Invoking, Invoke, SchedulerInv, SchedulerTypeOK
<1>2. CASE Spawns[k] = Nil
  BY <1>1, <1>2 DEF Invoking, Invoke, MoveTo, ringVars, SchedulerInv, SchedulerTypeOK
<1>3. CASE Spawns[k] # Nil
  <2>1. Spawns[k] \in Items \ submitted
    BY <1>3, SchedulerAssumption DEF Values, Invoking, SchedulerInv, Kept, SpawnedOnce
  <2>2. EnterRunTask(t, Spawns[k], to)
    BY <1>3 DEF Invoking, Invoke
  <2>3. /\ UNCHANGED <<mSlots, mSize>> /\ submitted' = submitted \cup {Spawns[k]}
        /\ pc' = [pc EXCEPT ![t] = "push_reserve"]
        /\ mine' = [mine EXCEPT ![t] = mine'[t]] /\ arg' = [arg EXCEPT ![t] = Spawns[k]]
        /\ ret' = [ret EXCEPT ![t] = NoResult] /\ at' = [at EXCEPT ![t] = "push"]
        /\ after' = [after EXCEPT ![t] = to]
    BY <2>1, <2>2, EnterEffect DEF SchedulerInv
  <2>4. /\ DOMAIN pc = Threads /\ DOMAIN mine = Threads /\ DOMAIN arg = Threads
        /\ DOMAIN ret = Threads /\ DOMAIN at = Threads /\ DOMAIN after = Threads
    BY DEF SchedulerInv, SchedulerTypeOK, TypeOK
  <2>. QED
    BY <1>1, <2>1, <2>2, <2>3, <2>4
<1>. QED
  BY <1>2, <1>3

LEMMA InvokeKept ==
    ASSUME SchedulerInv, NEW t \in Threads, NEW k \in Items, NEW to, Invoking(t, k, to)
    PROVE  /\ SlotReservation' /\ Steps' /\ Vacant' /\ SpawnedOnce' /\ QueueSize'
           /\ InWait' = InWait
           /\ Clearing' = IF at[t] = "wait_owned" THEN Clearing \cup {t} ELSE Clearing
<1>. USE DEF SchedulerInv, Kept
<1>0. pc[t] = "idle" /\ t \notin Holding
  BY DEF Invoking, Holding, PushPC, PopPC
<1>1. /\ UNCHANGED <<mSlots, mSize>> /\ handle' = handle
      /\ \A u \in Threads \ {t} :
           /\ pc'[u] = pc[u] /\ mine'[u] = mine[u] /\ arg'[u] = arg[u] /\ ret'[u] = ret[u]
           /\ at'[u] = at[u] /\ after'[u] = after[u]
      /\ pc'[t] \in {"idle", "push_reserve"}
  BY InvokeEffect
<1>2. at[t] # "push" /\ (at'[t] = to \/ (at'[t] = "push" /\ after'[t] = to))
  BY InvokeEffect DEF Invoking, Pops
<1>3. \/ at[t] = "wait_owned" /\ to = "wait_clear"
      \/ at[t] \notin Waits /\ to \in {"idle", "size", "spill"}
  BY DEF Invoking, Pops, Waits
<1>4. InWait' = InWait
  BY <1>1, <1>2, <1>3, SchedulerAssumption DEF InWait, Waits
<1>5. Clearing' = IF at[t] = "wait_owned" THEN Clearing \cup {t} ELSE Clearing
  BY <1>1, <1>2, <1>3, <1>4, SchedulerAssumption DEF InWait, Clearing, Waits, Steps
<1>6. Holding' = Holding
  BY <1>0, <1>1 DEF Holding, PushPC, PopPC
<1>7. Counted' = Counted
  BY <1>0, <1>1 DEF Counted
<1>8. SlotReservation'
  BY <1>0, <1>1, <1>4, <1>6 DEF SlotReservation
<1>9. QueueSize'
  BY <1>1, <1>4, <1>7 DEF QueueSize
<1>10. Steps'
  <2>1. \A u \in Threads \ {t} : (pc'[u] = pc[u] /\ at'[u] = at[u] /\ ret'[u] = ret[u]
                                  /\ arg'[u] = arg[u] /\ after'[u] = after[u])
    BY <1>1
  <2>2. /\ at'[t] = "push" => arg'[t] \in Items /\ ~ret'[t].mValid /\ pc'[t] \in {"idle", "push_reserve"}
        /\ at'[t] \notin Pops /\ (at'[t] # "push" => pc'[t] = "idle")
        /\ after'[t] \in {"idle", "wait_clear", "size", "spill"}
    BY <1>0, <1>1, <1>2, <1>3, InvokeEffect, NoResultType DEF Pops, Steps
  <2>3. to = "wait_clear" => t \in Clients
    BY <1>3 DEF Steps, Waits
  <2>4. at'[t] \in Waits \/ (at'[t] = "push" /\ after'[t] = "wait_clear") => to = "wait_clear"
    BY <1>2, <1>3 DEF Waits
  <2>. QED
    BY <1>1, <2>1, <2>2, <2>3, <2>4 DEF Steps
<1>11. Vacant'
  BY <1>0, <1>1 DEF Vacant
<1>12. SpawnedOnce'
  <2>1. runs' = [runs EXCEPT ![k] = 1] /\ runs \in [Items -> Nat]
    BY InvokeEffect DEF SchedulerTypeOK
  <2>2. submitted' = submitted \/ (Spawns[k] \in Items /\ submitted' = submitted \cup {Spawns[k]})
    BY InvokeEffect
  <2>3. ASSUME NEW j \in Items, Spawns[j] \in submitted' PROVE runs'[j] = 1
    <3>1. Spawns[j] \in submitted \/ j = k
      BY <2>2, <2>3, TasksAssumption, ItemsAssumption
    <3>. QED
      BY <2>1, <3>1 DEF SpawnedOnce
  <2>. QED
    BY <2>3 DEF SpawnedOnce
<1>. QED
  BY <1>4, <1>5, <1>8, <1>9, <1>10, <1>11, <1>12

\* The task run is nowhere any more, the one submitted is at its push.
LEMMA InvokeAccount ==
    ASSUME SchedulerInv, NEW t \in Threads, NEW k \in Items, NEW to, Invoking(t, k, to),
           PushersOf(k) = {}, SlotsOf(k)' = {}, PoppersOf(k)' = {}, SpilledOf(k)' = {},
           \A j \in Items \ {k} :
                /\ SlotsOf(j)' = SlotsOf(j) /\ PoppersOf(j)' = PoppersOf(j)
                /\ SpilledOf(j)' = SpilledOf(j) \/ \E n \in SpilledOf(j) : SpilledOf(j)' = {n - 1}
    PROVE  Accounted'
<1>. USE DEF SchedulerInv, Kept
<1>1. /\ runs' = [runs EXCEPT ![k] = 1]
      /\ \A u \in Threads \ {t} : at'[u] = at[u] /\ arg'[u] = arg[u] /\ ret'[u] = ret[u]
      /\ \/ at'[t] = to /\ Spawns[k] = Nil /\ submitted' = submitted
         \/ /\ Spawns[k] \in Items \ submitted /\ EnterRunTask(t, Spawns[k], to)
            /\ at'[t] = "push" /\ arg'[t] = Spawns[k] /\ submitted' = submitted \cup {Spawns[k]}
  BY InvokeEffect
<1>2. at[t] # "push" /\ to # "push" /\ k \in submitted /\ runs \in [Items -> Nat]
  BY DEF Invoking, Pops, SchedulerTypeOK
<1>3. \A j \in Items : j # Spawns[k] => PushersOf(j)' = PushersOf(j)
  BY <1>1, <1>2 DEF PushersOf
<1>4. ASSUME NEW j \in Items PROVE Account(j)'
  <2>1. CASE j = k
    <3>1. NoPlace(k)' /\ k \in submitted'
      BY <1>1, <1>2, <1>3, TasksAssumption, ItemsAssumption DEF NoPlace
    <3>. QED
      BY <1>1, <1>2, <2>1, <3>1 DEF Account
  <2>2. CASE j # k /\ j = Spawns[k]
    <3>1. /\ j \notin submitted /\ EnterRunTask(t, j, to) /\ runs'[j] = runs[j]
      BY <1>1, <1>2, <2>2, TasksAssumption, ItemsAssumption
    <3>2. SpilledOf(j) = {}
      BY <3>1 DEF Accounted, Account, NoPlace
    <3>. QED
      BY <1>2, <2>2, <3>1, <3>2, EnterAccount
  <2>3. CASE j # k /\ j # Spawns[k]
    <3>1. (j \in submitted)' <=> j \in submitted
      BY <1>1, <2>3
    <3>2. runs'[j] = runs[j] /\ PushersOf(j)' = PushersOf(j)
      BY <1>1, <1>2, <1>3, <2>3
    <3>3. CASE SpilledOf(j)' = SpilledOf(j)
      BY <2>3, <3>1, <3>2, <3>3, UnmovedAccount DEF Unmoved, Accounted
    <3>4. CASE \E n \in SpilledOf(j) : SpilledOf(j)' = {n - 1}
      <4>1. PICK n \in SpilledOf(j) : SpilledOf(j)' = {n - 1}
        BY <3>4
      <4>2. /\ SlotsOf(j) = {} /\ PushersOf(j) = {} /\ PoppersOf(j) = {}
            /\ j \in submitted /\ runs[j] = 0
        BY <4>1, Alone DEF Accounted, NoPlace
      <4>3. OnePlace(j)'
        BY <2>3, <3>2, <4>1, <4>2 DEF OnePlace
      <4>. QED
        BY <3>1, <3>2, <4>2, <4>3 DEF Account
    <3>. QED
      BY <2>3, <3>3, <3>4
  <2>. QED
    BY <2>1, <2>2, <2>3
<1>. QED
  BY <1>4 DEF Accounted

\* A worker or the main thread runs the task it has popped.
LEMMA InvokePopped ==
    ASSUME SchedulerInv, NEW t \in Threads, at[t] \in Pops, pc[t] = "idle", ret[t].mValid,
           ret[t].mData # Nil, NEW to \in {"size", "idle"}, Invoke(t, ret[t].mData, to),
           UNCHANGED <<handle, spilled>>
    PROVE  Kept'
<1>. USE DEF SchedulerInv, Kept
<1>. PICK k \in Items : k = ret[t].mData
  BY DEF SchedulerTypeOK, TypeOK, Values
<1>1. t \in PoppersOf(k)
  BY DEF PoppersOf
<1>2. /\ k \in submitted /\ runs[k] = 0 /\ SlotsOf(k) = {} /\ PushersOf(k) = {}
      /\ PoppersOf(k) = {t} /\ SpilledOf(k) = {}
  BY <1>1, Alone DEF Accounted, NoPlace
<1>3. Invoking(t, k, to)
  BY <1>2 DEF Invoking
<1>4. at[t] # "wait_owned"
  BY DEF Pops
<1>5. /\ SlotReservation' /\ Steps' /\ Vacant' /\ SpawnedOnce' /\ QueueSize'
      /\ Clearing' = Clearing
  BY <1>1, <1>3, <1>4, InvokeKept
<1>6. /\ UNCHANGED mSlots /\ runs' = [runs EXCEPT ![k] = 1]
      /\ \A u \in Threads \ {t} : at'[u] = at[u] /\ ret'[u] = ret[u]
      /\ at'[t] \in {"size", "idle", "push"}
  BY <1>1, <1>3, InvokeEffect
<1>7. \A j \in Items : SlotsOf(j)' = SlotsOf(j) /\ SpilledOf(j)' = SpilledOf(j)
  BY <1>5, <1>6 DEF SlotsOf, SpilledOf
<1>8. \A j \in Items : PoppersOf(j)' = PoppersOf(j) \ {t}
  BY <1>6 DEF PoppersOf, Pops
<1>9. \A j \in Items \ {k} : t \notin PoppersOf(j)
  BY DEF PoppersOf
<1>10. Accounted'
  <2>. HIDE DEF SchedulerInv, Kept
  <2>1. /\ PushersOf(k) = {} /\ SlotsOf(k)' = {}
        /\ PoppersOf(k)' = {} /\ SpilledOf(k)' = {}
    BY <1>2, <1>7, <1>8
  <2>2. \A j \in Items \ {k} :
            SlotsOf(j)' = SlotsOf(j) /\ PoppersOf(j)' = PoppersOf(j) /\ SpilledOf(j)' = SpilledOf(j)
    BY <1>7, <1>8, <1>9
  <2>. QED
    BY <1>3, <2>1, <2>2, InvokeAccount
<1>11. Cleared'
  BY <1>2, <1>5, <1>6 DEF Cleared, SchedulerTypeOK
<1>. QED
  BY <1>5, <1>10, <1>11

LEMMA SpillKept ==
    ASSUME SchedulerInv, ShutdownSpill
    PROVE  Kept'
<1>. USE DEF SchedulerInv, Kept
<1>0. spilled # <<>> /\ spilled \in Seq(Items)
  BY DEF ShutdownSpill, SchedulerTypeOK
<1>. PICK k \in Items : k = Head(spilled)
  BY <1>0
<1>1. /\ Main \in Threads /\ at[Main] = "spill" /\ pc[Main] = "idle" /\ spilled # <<>>
      /\ spilled \in Seq(Items) /\ Invoke(Main, k, "spill") /\ spilled' = Tail(spilled)
      /\ handle' = handle
  BY SchedulerAssumption DEF ShutdownSpill, From, Steps, SchedulerTypeOK
<1>2. 1 \in SpilledOf(k)
  BY <1>1 DEF SpilledOf
<1>3. /\ k \in submitted /\ runs[k] = 0 /\ SlotsOf(k) = {} /\ PushersOf(k) = {}
      /\ PoppersOf(k) = {} /\ SpilledOf(k) = {1}
  BY <1>2, Alone DEF Accounted, NoPlace
<1>4. Invoking(Main, k, "spill")
  BY <1>1, <1>3 DEF Invoking
<1>5. /\ SlotReservation' /\ Steps' /\ Vacant' /\ SpawnedOnce' /\ QueueSize'
      /\ Clearing' = Clearing
  BY <1>1, <1>2, <1>4, InvokeKept
<1>6. /\ UNCHANGED mSlots /\ runs' = [runs EXCEPT ![k] = 1]
      /\ \A u \in Threads \ {Main} : at'[u] = at[u] /\ ret'[u] = ret[u]
      /\ at'[Main] \in {"spill", "push"}
  BY <1>1, <1>2, <1>4, InvokeEffect
<1>7. \A j \in Items : SlotsOf(j)' = SlotsOf(j) /\ PoppersOf(j)' = PoppersOf(j)
  BY <1>1, <1>5, <1>6 DEF SlotsOf, PoppersOf, Pops
<1>8. /\ DOMAIN spilled = 1..Len(spilled) /\ Len(spilled) \in Nat
      /\ DOMAIN spilled' = 1..(Len(spilled) - 1)
      /\ \A n \in DOMAIN spilled' : spilled'[n] = spilled[n + 1]
  BY <1>1
<1>9. SpilledOf(k)' = {}
  <2>1. \A n \in DOMAIN spilled' : n + 1 \in DOMAIN spilled /\ n + 1 # 1
    BY <1>8
  <2>2. \A n \in DOMAIN spilled : spilled[n] = k => n = 1
    BY <1>3 DEF SpilledOf
  <2>. QED
    BY <1>8, <2>1, <2>2 DEF SpilledOf
<1>10. ASSUME NEW j \in Items \ {k}
       PROVE  SpilledOf(j)' = SpilledOf(j) \/ \E n \in SpilledOf(j) : SpilledOf(j)' = {n - 1}
  <2>1. CASE SpilledOf(j) = {}
    BY <1>8, <2>1 DEF SpilledOf
  <2>2. CASE SpilledOf(j) # {}
    <3>1. PICK n \in DOMAIN spilled : SpilledOf(j) = {n} /\ spilled[n] = j
      BY <2>2, Alone DEF Accounted, SpilledOf
    <3>2. n # 1
      BY <1>0, <3>1
    <3>3. SpilledOf(j)' = {n - 1}
      <4>1. n - 1 \in DOMAIN spilled' /\ spilled'[n - 1] = j
        BY <1>8, <3>1, <3>2
      <4>2. \A m \in DOMAIN spilled : spilled[m] = j => m = n
        BY <3>1 DEF SpilledOf
      <4>3. \A m \in DOMAIN spilled' : spilled'[m] = j => m = n - 1
        BY <1>8, <3>1, <4>2
      <4>. QED
        BY <4>1, <4>3 DEF SpilledOf
    <3>. QED
      BY <3>1, <3>3
  <2>. QED
    BY <2>1, <2>2
<1>11. Accounted'
  <2>. HIDE DEF SchedulerInv, Kept
  <2>1. /\ PushersOf(k) = {} /\ SlotsOf(k)' = {}
        /\ PoppersOf(k)' = {} /\ SpilledOf(k)' = {}
    BY <1>3, <1>7, <1>9
  <2>. QED
    BY <1>1, <1>4, <1>7, <1>10, <2>1, InvokeAccount
<1>12. Cleared'
  BY <1>1, <1>3, <1>5, <1>6 DEF Cleared, SchedulerTypeOK
<1>. QED
  BY <1>5, <1>11, <1>12

LEMMA WaitInvokeKept ==
    ASSUME SchedulerInv, NEW t \in Threads, WaitInvoke(t),
           mSlots[handle[t].mSlot].mSerial = handle[t].mSerial,
           mSlots[handle[t].mSlot].mData # Nil
    PROVE  Kept'
<1>. USE DEF SchedulerInv, Kept
<1>. DEFINE i == handle[t].mSlot
<1>0. t \in InWait /\ t \notin Clearing
  BY DEF WaitInvoke, From, InWait, Steps, Waits, Clearing
<1>. PICK k \in Items : k = mSlots[i].mData
  BY <1>0, Waited DEF SchedulerTypeOK, TypeOK, Values
<1>1. /\ at[t] = "wait_owned" /\ pc[t] = "idle" /\ Invoke(t, k, "wait_clear")
      /\ UNCHANGED <<handle, spilled>>
  BY DEF WaitInvoke, From
<1>2. t \in InWait /\ t \notin Clearing
  BY <1>0
<1>3. /\ i \in Slots /\ \A u \in InWait \ {t} : handle[u].mSlot # i
  BY <1>2, Waited
<1>4. Clearing \subseteq InWait
  BY DEF Clearing
<1>5. i \in SlotsOf(k)
  BY <1>2, <1>3, <1>4 DEF SlotsOf
<1>6. /\ k \in submitted /\ runs[k] = 0 /\ SlotsOf(k) = {i} /\ PushersOf(k) = {}
      /\ PoppersOf(k) = {} /\ SpilledOf(k) = {}
  BY <1>5, Alone DEF Accounted, NoPlace
<1>7. Invoking(t, k, "wait_clear")
  BY <1>1, <1>6 DEF Invoking
<1>8. /\ SlotReservation' /\ Steps' /\ Vacant' /\ SpawnedOnce' /\ QueueSize'
      /\ Clearing' = Clearing \cup {t}
  BY <1>1, <1>5, <1>7, InvokeKept
<1>9. /\ UNCHANGED mSlots /\ runs' = [runs EXCEPT ![k] = 1]
      /\ \A u \in Threads \ {t} : at'[u] = at[u] /\ ret'[u] = ret[u]
      /\ at'[t] \in {"wait_clear", "push"}
  <2>. HIDE DEF SchedulerInv, Kept
  <2>. QED
    BY <1>7, InvokeEffect
<1>10. \A j \in Items : SlotsOf(j)' = SlotsOf(j) \ {i}
  BY <1>1, <1>8, <1>9 DEF SlotsOf
<1>11. \A j \in Items \ {k} : i \notin SlotsOf(j)
  BY DEF SlotsOf
<1>12. \A j \in Items : PoppersOf(j)' = PoppersOf(j) /\ SpilledOf(j)' = SpilledOf(j)
  BY <1>1, <1>9 DEF PoppersOf, SpilledOf, Pops
<1>13. Cleared'
  <2>1. \A u \in Clearing : mSlots[handle[u].mSlot].mData # k
    BY <1>6 DEF Cleared
  <2>. QED
    BY <1>1, <1>5, <1>8, <1>9, <2>1 DEF Cleared, SchedulerTypeOK
<1>14. Accounted'
  <2>. HIDE DEF SchedulerInv, Kept
  <2>1. /\ PushersOf(k) = {} /\ SlotsOf(k)' = {}
        /\ PoppersOf(k)' = {} /\ SpilledOf(k)' = {}
    BY <1>6, <1>10, <1>12
  <2>2. \A j \in Items \ {k} :
            SlotsOf(j)' = SlotsOf(j) /\ PoppersOf(j)' = PoppersOf(j) /\ SpilledOf(j)' = SpilledOf(j)
    BY <1>10, <1>11, <1>12
  <2>. QED
    BY <1>7, <2>1, <2>2, InvokeAccount
<1>. QED
  BY <1>8, <1>13, <1>14

-----------------------------------------------------------------------------
(***************************************************************************)
(* Steps inside the ring                                                   *)
(***************************************************************************)
LEMMA RingFrame ==
    ASSUME SchedulerInv, UNCHANGED programVars
    PROVE  /\ InWait' = InWait /\ Clearing' = Clearing /\ Clearing \subseteq InWait
           /\ InWait \subseteq Threads
           /\ UNCHANGED <<at, after, handle, spilled, submitted, runs>>
  BY SchedulerAssumption DEF programVars, InWait, Clearing

\* A step that changes at most the state word of one slot and the place of one
\* thread, with its effect on what the thread holds.
Relabels(t, i, word, place) ==
    /\ UNCHANGED programVars /\ UNCHANGED <<mSize, mine, arg, ret>>
    /\ pc' = [pc EXCEPT ![t] = place]
    /\ i \in Slots
    /\ mSlots' = mSlots \/ mSlots' = [mSlots EXCEPT ![i].mState = word]
    /\ mSlots'[i].mState = word

LEMMA RelabelEffect ==
    ASSUME SchedulerInv, NEW t \in Threads, NEW i, NEW word, NEW place,
           Relabels(t, i, word, place)
    PROVE  /\ \A j \in Slots \ {i} : mSlots'[j] = mSlots[j]
           /\ \A j \in Slots : mSlots'[j].mData = mSlots[j].mData
           /\ mSlots'[i].mState = word
           /\ pc'[t] = place /\ \A u \in Threads \ {t} : pc'[u] = pc[u]
<1>1. mSlots \in SlotArrays /\ DOMAIN pc = Threads
  BY DEF SchedulerInv, SchedulerTypeOK, TypeOK, SlotArrays
<1>2. /\ \A j \in Slots \ {i} : mSlots'[j] = mSlots[j]
      /\ \A j \in Slots : mSlots'[j].mData = mSlots[j].mData
  BY <1>1 DEF Relabels, SlotArrays
<1>. QED
  BY <1>1, <1>2 DEF Relabels

LEMMA RelabelAccount ==
    ASSUME SchedulerInv, NEW t \in Threads, NEW i, NEW word, NEW place,
           Relabels(t, i, word, place)
    PROVE  Accounted' /\ Cleared' /\ SpawnedOnce'
<1>. USE DEF SchedulerInv, Kept
<1>1. /\ InWait' = InWait /\ Clearing' = Clearing /\ Clearing \subseteq InWait
      /\ InWait \subseteq Threads /\ UNCHANGED <<at, after, handle, spilled, submitted, runs>>
  BY RingFrame DEF Relabels
<1>2. /\ \A j \in Slots : mSlots'[j].mData = mSlots[j].mData
      /\ UNCHANGED <<mine, arg, ret>>
  BY RelabelEffect DEF Relabels
<1>3. ASSUME NEW k \in Items PROVE Account(k)'
  <2>1. SlotsOf(k)' = SlotsOf(k) /\ SpilledOf(k)' = SpilledOf(k)
    BY <1>1, <1>2 DEF SlotsOf, SpilledOf
  <2>2. PushersOf(k)' = PushersOf(k) /\ PoppersOf(k)' = PoppersOf(k)
    BY <1>1, <1>2 DEF PushersOf, PoppersOf
  <2>. QED
    BY <1>1, <2>1, <2>2, UnmovedAccount DEF Unmoved, Accounted
<1>4. Cleared'
  BY <1>1, <1>2 DEF Cleared, SchedulerTypeOK
<1>. QED
  BY <1>1, <1>3, <1>4 DEF Accounted, SpawnedOnce

\* The compare-exchange that reserves a slot, or does not.
LEMMA ReserveKept ==
    ASSUME SchedulerInv, NEW t \in Threads, ReservePush(t) \/ ReservePop(t),
           UNCHANGED programVars
    PROVE  Kept'
<1>. USE DEF SchedulerInv, Kept
<1>. DEFINE i == mine[t]
<1>1. /\ InWait' = InWait /\ UNCHANGED <<at, after, handle>>
      /\ i \in Slots /\ InWait \subseteq Threads
  BY RingFrame DEF SchedulerTypeOK, TypeOK
<1>2. /\ pc[t] \in {"push_reserve", "pop_reserve"} /\ t \notin Holding
      /\ UNCHANGED <<mSize, mine, arg, ret>>
  BY DEF ReservePush, ReservePop, Goto, Holding, PushPC, PopPC
<1>3. CASE pc' = [pc EXCEPT ![t] = "idle"] /\ mSlots' = mSlots
  <2>1. Relabels(t, i, mSlots[i].mState, "idle")
    BY <1>1, <1>2, <1>3 DEF Relabels
  <2>2. Accounted' /\ Cleared' /\ SpawnedOnce'
    BY <2>1, RelabelAccount
  <2>3. Holding' = Holding /\ Counted' = Counted
    BY <1>2, <1>3 DEF Holding, Counted, PushPC, PopPC, SchedulerTypeOK, TypeOK
  <2>4. SlotReservation' /\ QueueSize'
    BY <1>1, <1>2, <1>3, <2>3 DEF SlotReservation, QueueSize
  <2>5. Steps' /\ Vacant'
    BY <1>1, <1>2, <1>3 DEF Steps, Vacant, SchedulerTypeOK, TypeOK
  <2>. QED
    BY <2>2, <2>4, <2>5
<1>4. ASSUME NEW ready \in {PRODUCER_READY, CONSUMER_READY}, NEW place \in {"push_transfer", "pop_transfer"},
             mSlots[i].mState = ready, ready = PRODUCER_READY <=> place = "push_transfer",
             place = "push_transfer" <=> pc[t] = "push_reserve",
             pc' = [pc EXCEPT ![t] = place], mSlots' = [mSlots EXCEPT ![i].mState = t]
      PROVE  Kept'
  <2>1. Relabels(t, i, t, place)
    BY <1>1, <1>2, <1>4 DEF Relabels, SchedulerTypeOK, TypeOK
  <2>2. Accounted' /\ Cleared' /\ SpawnedOnce'
    BY <2>1, RelabelAccount
  <2>3. /\ \A j \in Slots \ {i} : mSlots'[j] = mSlots[j]
        /\ \A j \in Slots : mSlots'[j].mData = mSlots[j].mData
        /\ mSlots'[i].mState = t
        /\ pc'[t] = place /\ \A u \in Threads \ {t} : pc'[u] = pc[u]
    BY <2>1, RelabelEffect
  <2>4. Holding' = Holding \cup {t}
    BY <2>3 DEF Holding, PushPC, PopPC
  <2>5. \A u \in Threads : u # PRODUCER_READY /\ u # CONSUMER_READY
    BY ThreadsAssumption
  <2>6. SlotReservation'
    <3>2. \A u \in Holding : mine[u] # i
      BY <1>4, <2>5, Reserved
    <3>3. \A u \in InWait : handle[u].mSlot # i
      BY <1>4, <2>5, Waited
    <3>4. ASSUME NEW j \in Slots, NEW u \in Threads
          PROVE  /\ mSlots'[j].mState = u <=> mSlots[j].mState = u \/ (j = i /\ u = t)
                 /\ u \in Holding' /\ mine[u] = j <=> (u \in Holding /\ mine[u] = j) \/ (u = t /\ j = i)
      BY <1>2, <1>4, <2>3, <2>4, <2>5, <3>2
    <3>5. \A u \in Holding' \cap InWait : mine[u] # handle[u].mSlot
      BY <1>1, <2>4, <3>3 DEF SlotReservation, SchedulerTypeOK
    <3>. QED
      BY <1>1, <1>2, <3>4, <3>5 DEF SlotReservation
  <2>7. Counted' = Counted
    BY <1>1, <1>2, <1>4, <2>3, <2>5 DEF Counted, SchedulerTypeOK, TypeOK, PRODUCER_READY, CONSUMER_READY
  <2>8. QueueSize'
    BY <1>1, <1>2, <2>7 DEF QueueSize
  <2>9. Steps'
    BY <1>1, <1>2, <1>4, <2>3 DEF Steps, PushPC, PopPC
  <2>10. Vacant'
    BY <1>1, <1>2, <1>4, <2>3, <2>5 DEF Vacant, SchedulerTypeOK, TypeOK
  <2>. QED
    BY <2>2, <2>6, <2>8, <2>9, <2>10
<1>5. CASE ReservePush(t)
  BY <1>2, <1>3, <1>4, <1>5 DEF ReservePush, Goto, Exchange, PRODUCER_READY, CONSUMER_READY
<1>6. CASE ReservePop(t)
  BY <1>2, <1>3, <1>4, <1>6 DEF ReservePop, Goto, Exchange, PRODUCER_READY, CONSUMER_READY
<1>. QED
  BY <1>5, <1>6

\* The compare-exchange that gives the slot back.
LEMMA ReleaseKept ==
    ASSUME SchedulerInv, NEW t \in Threads, ReleasePush(t) \/ ReleasePop(t),
           UNCHANGED programVars
    PROVE  Kept'
<1>. USE DEF SchedulerInv, Kept
<1>. DEFINE i == mine[t]
<1>1. /\ InWait' = InWait /\ UNCHANGED <<at, after, handle>>
      /\ i \in Slots /\ InWait \subseteq Threads
  BY RingFrame DEF SchedulerTypeOK, TypeOK
<1>2. t \in Holding /\ pc' = [pc EXCEPT ![t] = "idle"] /\ UNCHANGED <<mSize, mine, arg, ret>>
  BY DEF ReleasePush, ReleasePop, Goto, Holding, PushPC, PopPC
<1>3. /\ mSlots[i].mState = t /\ \A u \in Holding \ {t} : mine[u] # i
      /\ \A u \in InWait : handle[u].mSlot # i
  BY <1>2, Reserved
<1>4. PICK ready \in {PRODUCER_READY, CONSUMER_READY} :
          /\ mSlots' = [mSlots EXCEPT ![i].mState = ready]
          /\ ready = CONSUMER_READY <=> pc[t] = "push_release"
          /\ pc[t] \in {"push_release", "pop_release"}
  BY <1>3 DEF ReleasePush, ReleasePop, Goto, Exchange, PRODUCER_READY, CONSUMER_READY
<1>5. Relabels(t, i, ready, "idle")
  BY <1>1, <1>2, <1>4 DEF Relabels, SchedulerTypeOK, TypeOK
<1>6. /\ \A j \in Slots \ {i} : mSlots'[j] = mSlots[j]
      /\ \A j \in Slots : mSlots'[j].mData = mSlots[j].mData
      /\ mSlots'[i].mState = ready
      /\ pc'[t] = "idle" /\ \A u \in Threads \ {t} : pc'[u] = pc[u]
  BY <1>5, RelabelEffect
<1>7. Accounted' /\ Cleared' /\ SpawnedOnce'
  BY <1>5, RelabelAccount
<1>8. \A u \in Threads : u # PRODUCER_READY /\ u # CONSUMER_READY
  BY ThreadsAssumption
<1>9. Holding' = Holding \ {t}
  BY <1>6 DEF Holding, PushPC, PopPC
<1>10. SlotReservation'
  <2>1. ASSUME NEW j \in Slots, NEW u \in Threads
        PROVE  /\ mSlots'[j].mState = u <=> mSlots[j].mState = u /\ j # i
               /\ u \in Holding' /\ mine[u] = j <=> u \in Holding /\ mine[u] = j /\ j # i
               /\ u \in InWait /\ handle[u].mSlot = j => j # i
    BY <1>3, <1>4, <1>6, <1>8, <1>9
  <2>2. \A u \in Holding' \cap InWait : mine[u] # handle[u].mSlot
    BY <1>1, <1>9 DEF SlotReservation, SchedulerTypeOK
  <2>. QED
    BY <1>1, <1>2, <2>1, <2>2 DEF SlotReservation
<1>11. Counted' = Counted
  <2>1. \A j \in Slots \ {i} : j \in Counted' <=> j \in Counted
    BY <1>2, <1>6 DEF Counted
  <2>2. i \in Counted' <=> ready = CONSUMER_READY
    BY <1>1, <1>2, <1>3, <1>6 DEF Counted, Holding, PushPC, PopPC
  <2>3. i \in Counted <=> pc[t] = "push_release"
    <3>1. mSlots[i].mState # CONSUMER_READY
      BY <1>3, <1>8
    <3>2. \A u \in Threads \ {t} : ~(pc[u] \in {"push_release", "pop_transfer"} /\ mine[u] = i)
      BY <1>3 DEF Holding, PushPC, PopPC
    <3>. QED
      BY <1>1, <1>4, <3>1, <3>2 DEF Counted
  <2>. QED
    BY <1>1, <1>4, <2>1, <2>2, <2>3 DEF Counted
<1>12. QueueSize'
  BY <1>1, <1>2, <1>11 DEF QueueSize
<1>13. Steps'
  BY <1>1, <1>2, <1>6 DEF Steps
<1>14. Vacant'
  <2>1. ready = PRODUCER_READY => mSlots[i].mData = Nil
    BY <1>4 DEF Vacant, PRODUCER_READY, CONSUMER_READY
  <2>2. \A j \in Slots : mSlots'[j].mState = PRODUCER_READY => mSlots'[j].mData = Nil
    BY <1>6, <2>1 DEF Vacant
  <2>3. ASSUME NEW u \in Threads, pc'[u] \in {"push_transfer", "pop_release"}
        PROVE  mSlots'[mine[u]].mData = Nil
    <3>1. pc'[u] = pc[u] /\ mine[u] \in Slots
      BY <1>6, <2>3 DEF SchedulerTypeOK, TypeOK
    <3>. QED
      BY <1>6, <2>3, <3>1 DEF Vacant
  <2>. QED
    BY <1>2, <2>2, <2>3 DEF Vacant
<1>. QED
  BY <1>7, <1>10, <1>12, <1>13, <1>14

\* What the transfers change: the slot a thread has reserved, the thread's
\* place and its result.
LEMMA TransferKept ==
    ASSUME SchedulerInv, NEW t \in Threads, TransferPush(t) \/ TransferPop(t),
           UNCHANGED programVars
    PROVE  /\ SlotReservation' /\ Steps' /\ Vacant' /\ Cleared' /\ SpawnedOnce' /\ QueueSize'
           /\ \A j \in Slots \ {mine[t]} : mSlots'[j] = mSlots[j]
           /\ \A u \in Threads \ {t} : ret'[u] = ret[u]
<1>. USE DEF SchedulerInv, Kept
<1>. DEFINE i == mine[t]
<1>1. /\ InWait' = InWait /\ Clearing' = Clearing /\ Clearing \subseteq InWait
      /\ UNCHANGED <<at, after, handle, submitted, runs>>
      /\ i \in Slots /\ InWait \subseteq Threads
  BY RingFrame DEF SchedulerTypeOK, TypeOK
<1>2. PICK place \in {"push_release", "pop_release"} :
          /\ pc' = [pc EXCEPT ![t] = place] /\ UNCHANGED <<mine, arg>>
          /\ place = "push_release" => pc[t] = "push_transfer" /\ mSize' = mSize + 1
          /\ place = "pop_release" => pc[t] = "pop_transfer" /\ mSize' = mSize - 1
  BY DEF TransferPush, TransferPop, Goto
<1>3. t \in Holding
  BY <1>2 DEF Holding, PushPC, PopPC
<1>4. /\ mSlots[i].mState = t /\ \A u \in Holding \ {t} : mine[u] # i
      /\ \A u \in InWait : handle[u].mSlot # i
  BY <1>3, Reserved
<1>5. mSlots \in SlotArrays
  BY DEF SchedulerTypeOK, TypeOK, SlotArrays
<1>6. /\ \A j \in Slots \ {i} : mSlots'[j] = mSlots[j]
      /\ mSlots'[i].mState = t
      /\ place = "pop_release" => mSlots'[i].mData = Nil
  <2>1. CASE TransferPush(t)
    BY <1>1, <1>2, <1>4, <1>5, <2>1 DEF TransferPush, Goto, SlotArrays
  <2>2. CASE TransferPop(t)
    BY <1>1, <1>4, <1>5, <2>2 DEF TransferPop, SlotArrays
  <2>. QED
    BY <2>1, <2>2
<1>7. ret' = [ret EXCEPT ![t] = ret'[t]] /\ ret'[t].mValid /\ DOMAIN ret = Threads /\ DOMAIN pc = Threads
  BY DEF TransferPush, TransferPop, Result, SchedulerTypeOK, TypeOK
<1>8. Holding' = Holding
  BY <1>2, <1>3, <1>7 DEF Holding, PushPC, PopPC
<1>9. SlotReservation'
  <2>1. \A j \in Slots : mSlots'[j].mState = mSlots[j].mState
    BY <1>4, <1>6
  <2>. QED
    BY <1>1, <1>2, <1>8, <2>1 DEF SlotReservation
<1>10. Steps'
  BY <1>1, <1>2, <1>7 DEF Steps, PushPC, PopPC, Pops
<1>11. Vacant'
  <2>1. \A u \in Threads \ {t} : pc'[u] = pc[u] /\ (pc[u] \in {"push_transfer", "pop_release"} => mine[u] \in Slots \ {i})
    BY <1>2, <1>4, <1>7 DEF Holding, PushPC, PopPC, SchedulerTypeOK, TypeOK
  <2>2. mSlots'[i].mState # PRODUCER_READY
    BY <1>6, ThreadsAssumption
  <2>. QED
    BY <1>2, <1>6, <1>7, <2>1, <2>2 DEF Vacant
<1>12. Cleared' /\ SpawnedOnce'
  <2>1. \A u \in Clearing : handle[u].mSlot \in Slots \ {i}
    BY <1>1, <1>4 DEF SchedulerTypeOK
  <2>. QED
    BY <1>1, <1>6, <2>1 DEF Cleared, SpawnedOnce
<1>13. QueueSize'
  <2>. DEFINE W == {handle[u].mSlot : u \in InWait}
  <2>1. W' = W /\ i \notin W /\ Counted \cup W \subseteq Slots /\ (Counted \cup W)' \subseteq Slots
    BY <1>1, <1>4 DEF Counted, SchedulerTypeOK
  <2>2. IsFiniteSet(Counted \cup W) /\ IsFiniteSet((Counted \cup W)')
    BY <2>1, SlotsFinite, FS_Subset
  <2>3. \A j \in Slots \ {i} : j \in Counted' <=> j \in Counted
    BY <1>2, <1>6, <1>7 DEF Counted
  <2>4. mSlots[i].mState # CONSUMER_READY /\ mSlots'[i].mState # CONSUMER_READY
    BY <1>4, <1>6, ThreadsAssumption
  <2>5. \A u \in Threads \ {t} : ~(pc[u] \in {"push_release", "pop_transfer"} /\ mine[u] = i) /\ pc'[u] = pc[u]
    BY <1>2, <1>4, <1>7 DEF Holding, PushPC, PopPC
  <2>6. CASE place = "push_release"
    <3>1. i \notin Counted /\ i \in Counted'
      BY <1>1, <1>2, <1>7, <2>4, <2>5, <2>6 DEF Counted
    <3>2. (Counted \cup W)' = (Counted \cup W) \cup {i}
      BY <1>1, <2>1, <2>3, <3>1 DEF Counted
    <3>3. Cardinality((Counted \cup W)') = Cardinality(Counted \cup W) + 1
      BY <2>1, <2>2, <3>1, <3>2, FS_AddElement
    <3>. QED
      BY <1>2, <2>6, <3>3 DEF QueueSize
  <2>7. CASE place = "pop_release"
    <3>1. i \in Counted /\ i \notin Counted'
      BY <1>1, <1>2, <1>7, <2>4, <2>5, <2>7 DEF Counted
    <3>2. (Counted \cup W)' = (Counted \cup W) \ {i}
      BY <1>1, <2>1, <2>3, <3>1 DEF Counted
    <3>3. Cardinality((Counted \cup W)') = Cardinality(Counted \cup W) - 1
      BY <2>1, <2>2, <3>1, <3>2, FS_RemoveElement
    <3>. QED
      BY <1>2, <2>7, <3>3 DEF QueueSize
  <2>. QED
    BY <2>6, <2>7
<1>. QED
  BY <1>6, <1>7, <1>9, <1>10, <1>11, <1>12, <1>13

\* The task goes from the push to the slot.
LEMMA TransferPushAccount ==
    ASSUME SchedulerInv, NEW t \in Threads, TransferPush(t), UNCHANGED programVars
    PROVE  Accounted'
<1>. USE DEF SchedulerInv, Kept
<1>. DEFINE i == mine[t]
<1>1. /\ Clearing' = Clearing /\ Clearing \subseteq InWait
      /\ UNCHANGED <<at, handle, spilled, submitted, runs>>
  BY RingFrame
<1>2. /\ pc[t] = "push_transfer" /\ t \in Holding /\ arg' = arg /\ i \in Slots
      /\ at[t] = "push" /\ arg[t] \in Items /\ ~ret[t].mValid
  BY DEF TransferPush, Goto, Holding, PushPC, PopPC, Steps, Pops, SchedulerTypeOK, TypeOK
<1>3. /\ \A u \in InWait : handle[u].mSlot # i
      /\ mSlots[i].mData = Nil
  BY <1>2, Reserved DEF Vacant
<1>4. mSlots \in SlotArrays /\ DOMAIN ret = Threads
  BY DEF SchedulerTypeOK, TypeOK, SlotArrays
<1>5. /\ mSlots'[i].mData = arg[t] /\ ret'[t].mValid
      /\ \A j \in Slots \ {i} : mSlots'[j] = mSlots[j]
      /\ \A u \in Threads \ {t} : ret'[u] = ret[u]
  BY <1>2, <1>4, TransferKept DEF TransferPush, Result, SlotArrays
<1>6. ASSUME NEW k \in Items PROVE Account(k)'
  <2>1. k # Nil
    BY TasksAssumption, ItemsAssumption
  <2>2. PushersOf(k)' = PushersOf(k) \ {t} /\ PoppersOf(k)' = PoppersOf(k)
    BY <1>1, <1>2, <1>5 DEF PushersOf, PoppersOf, Pops
  <2>3. SpilledOf(k)' = SpilledOf(k)
    BY <1>1 DEF SpilledOf
  <2>4. \A j \in Slots \ {i} : j \in SlotsOf(k)' <=> j \in SlotsOf(k)
    BY <1>1, <1>5 DEF SlotsOf
  <2>5. i \in SlotsOf(k)' <=> k = arg[t]
    BY <1>1, <1>2, <1>3, <1>5 DEF SlotsOf
  <2>6. i \notin SlotsOf(k)
    BY <1>3, <2>1 DEF SlotsOf
  <2>7. CASE k = arg[t]
    <3>1. t \in PushersOf(k)
      BY <1>2, <2>7 DEF PushersOf
    <3>2. /\ k \in submitted /\ runs[k] = 0 /\ SlotsOf(k) = {} /\ PushersOf(k) = {t}
          /\ PoppersOf(k) = {} /\ SpilledOf(k) = {}
      BY <3>1, Alone DEF Accounted, NoPlace
    <3>3. SlotsOf(k)' = {i}
      <4>1. SlotsOf(k)' \subseteq Slots
        BY DEF SlotsOf
      <4>. QED
        BY <1>2, <2>4, <2>5, <2>7, <3>2, <4>1
    <3>4. OnePlace(k)'
      BY <2>2, <2>3, <3>2, <3>3 DEF OnePlace
    <3>. QED
      BY <1>1, <3>2, <3>4 DEF Account
  <2>8. CASE k # arg[t]
    <3>1. t \notin PushersOf(k)
      BY <2>8 DEF PushersOf
    <3>2. SlotsOf(k)' = SlotsOf(k)
      <4>1. SlotsOf(k) \subseteq Slots /\ SlotsOf(k)' \subseteq Slots
        BY DEF SlotsOf
      <4>. QED
        BY <2>4, <2>5, <2>6, <2>8, <4>1
    <3>. QED
      BY <1>1, <2>2, <2>3, <3>1, <3>2, UnmovedAccount DEF Unmoved, Accounted
  <2>. QED
    BY <2>7, <2>8
<1>. QED
  BY <1>6 DEF Accounted

\* The task goes from the slot to the result of the pop.
LEMMA TransferPopAccount ==
    ASSUME SchedulerInv, NEW t \in Threads, TransferPop(t), UNCHANGED programVars
    PROVE  Accounted'
<1>. USE DEF SchedulerInv, Kept
<1>. DEFINE i == mine[t]
<1>1. /\ Clearing' = Clearing /\ Clearing \subseteq InWait
      /\ UNCHANGED <<at, handle, spilled, submitted, runs>>
  BY RingFrame
<1>2. /\ pc[t] = "pop_transfer" /\ t \in Holding /\ arg' = arg /\ i \in Slots
      /\ at[t] \in Pops /\ at[t] # "push" /\ ~ret[t].mValid
  BY DEF TransferPop, Goto, Holding, PushPC, PopPC, Steps, Pops, SchedulerTypeOK, TypeOK
<1>3. \A u \in InWait : handle[u].mSlot # i
  BY <1>2, Reserved
<1>4. mSlots \in SlotArrays /\ DOMAIN ret = Threads
  BY DEF SchedulerTypeOK, TypeOK, SlotArrays
<1>5. /\ mSlots'[i].mData = Nil /\ ret'[t].mValid /\ ret'[t].mData = mSlots[i].mData
      /\ \A j \in Slots \ {i} : mSlots'[j] = mSlots[j]
      /\ \A u \in Threads \ {t} : ret'[u] = ret[u]
  BY <1>2, <1>4, TransferKept DEF TransferPop, Result, SlotArrays
<1>6. ASSUME NEW k \in Items PROVE Account(k)'
  <2>1. k # Nil
    BY TasksAssumption, ItemsAssumption
  <2>2. PushersOf(k)' = PushersOf(k) /\ t \notin PoppersOf(k)
    BY <1>1, <1>2, <1>5 DEF PushersOf, PoppersOf
  <2>3. SpilledOf(k)' = SpilledOf(k)
    BY <1>1 DEF SpilledOf
  <2>4. SlotsOf(k)' = SlotsOf(k) \ {i}
    BY <1>1, <1>5, <2>1 DEF SlotsOf
  <2>5. i \in SlotsOf(k) <=> mSlots[i].mData = k
    BY <1>1, <1>2, <1>3 DEF SlotsOf
  <2>6. PoppersOf(k)' = IF mSlots[i].mData = k THEN PoppersOf(k) \cup {t} ELSE PoppersOf(k)
    BY <1>1, <1>2, <1>5, <2>2 DEF PoppersOf
  <2>7. CASE mSlots[i].mData = k
    <3>1. /\ k \in submitted /\ runs[k] = 0 /\ SlotsOf(k) = {i} /\ PushersOf(k) = {}
          /\ PoppersOf(k) = {} /\ SpilledOf(k) = {}
      BY <2>5, <2>7, Alone DEF Accounted, NoPlace
    <3>2. OnePlace(k)'
      BY <2>2, <2>3, <2>4, <2>6, <2>7, <3>1 DEF OnePlace
    <3>. QED
      BY <1>1, <3>1, <3>2 DEF Account
  <2>8. CASE mSlots[i].mData # k
    BY <1>1, <2>2, <2>3, <2>4, <2>5, <2>6, <2>8, UnmovedAccount DEF Unmoved, Accounted
  <2>. QED
    BY <2>7, <2>8
<1>. QED
  BY <1>6 DEF Accounted

-----------------------------------------------------------------------------
(***************************************************************************)
(* The invariant and what follows from it                                  *)
(***************************************************************************)
LEMMA InitInv == SchedulerInit => SchedulerInv
<1>. SUFFICES ASSUME SchedulerInit PROVE SchedulerInv
  OBVIOUS
<1>1. Init /\ mSize = 0 /\ spilled = <<>> /\ submitted = {} /\ runs = [k \in Items |-> 0]
  BY DEF SchedulerInit, Init
<1>2. SchedulerTypeOK
  <2>1. TypeOK
    BY <1>1, InitTypeOK
  <2>2. at \in [Threads -> Places] /\ after \in [Threads -> Places]
    BY DEF SchedulerInit, Places
  <2>3. handle \in [Threads -> Handles]
    BY NoResultType DEF SchedulerInit
  <2>4. mAsync \in BOOLEAN /\ mRunning \in BOOLEAN /\ open \in BOOLEAN /\ working \in [Workers -> BOOLEAN]
    BY SchedulerAssumption DEF SchedulerInit
  <2>. QED
    BY <1>1, <2>1, <2>2, <2>3, <2>4 DEF SchedulerTypeOK, Handles
<1>3. /\ \A t \in Threads : pc[t] = "idle" /\ at[t] \in {"loop", "ended", "idle"}
                            /\ after[t] = "idle"
      /\ \A i \in Slots : mSlots[i].mState = PRODUCER_READY /\ mSlots[i].mData = Nil
  BY <1>1 DEF SchedulerInit, Init
<1>4. InWait = {} /\ Holding = {} /\ Clearing = {} /\ Counted = {}
  BY <1>3, SchedulerAssumption
  DEF InWait, Holding, Clearing, Counted, PushPC, PopPC, PRODUCER_READY, CONSUMER_READY
<1>5. SlotReservation
  BY <1>3, <1>4, ThreadsAssumption DEF SlotReservation
<1>6. Steps /\ Vacant /\ Cleared
  BY <1>3, <1>4 DEF Steps, Vacant, Cleared, Waits, Pops
<1>7. QueueSize
  <2>1. Counted \cup {handle[t].mSlot : t \in InWait} = {}
    BY <1>4
  <2>. QED
    BY <1>1, <2>1, FS_EmptySet DEF QueueSize
<1>8. Accounted /\ SpawnedOnce
  <2>1. ASSUME NEW k \in Items PROVE NoPlace(k)
    BY <1>1, <1>3, TasksAssumption, ItemsAssumption DEF NoPlace, SlotsOf, PushersOf, PoppersOf, SpilledOf, Pops
  <2>. QED
    BY <1>1, <2>1 DEF Accounted, Account, SpawnedOnce
<1>. QED
  BY <1>2, <1>5, <1>6, <1>7, <1>8 DEF SchedulerInv, Kept

LEMMA NextKept == SchedulerInv /\ [SchedulerNext]_vars => Kept'
<1>. SUFFICES ASSUME SchedulerInv, [SchedulerNext]_vars PROVE Kept'
  OBVIOUS
<1>1. Main \in Threads /\ Clients \subseteq Threads /\ Workers \subseteq Threads
  BY SchedulerAssumption
<1>2. Steps /\ DOMAIN at = Threads
  BY DEF SchedulerInv, Kept, SchedulerTypeOK
<1>3. ASSUME NEW t \in Threads, InRing(t) PROVE Kept'
  <2>1. CASE TransferPush(t) \/ TransferPop(t)
    BY <1>3, <2>1, TransferKept, TransferPushAccount, TransferPopAccount DEF InRing, Kept
  <2>2. CASE ReservePush(t) \/ ReservePop(t)
    BY <1>3, <2>2, ReserveKept DEF InRing
  <2>3. CASE ReleasePush(t) \/ ReleasePop(t)
    BY <1>3, <2>3, ReleaseKept DEF InRing
  <2>. QED
    BY <1>3, <2>1, <2>2, <2>3 DEF InRing, RingStep
<1>4. ASSUME NEW t \in Threads, WaitInvoke(t) PROVE Kept'
  <2>. DEFINE slot == mSlots[handle[t].mSlot]
  <2>1. CASE slot.mSerial = handle[t].mSerial /\ slot.mData # Nil
    BY <1>4, <2>1, WaitInvokeKept
  <2>2. CASE ~(slot.mSerial = handle[t].mSerial /\ slot.mData # Nil)
    BY <1>4, <2>2, WaitMissKept
  <2>. QED
    BY <2>1, <2>2
<1>5. ASSUME NEW w \in Workers, WorkerStep(w) PROVE Kept'
  <2>1. CASE WorkerLoop(w) \/ WorkerCheckSize(w) \/ WorkerWait(w)
    <3>1. Quiet
      BY <1>1, <1>2, <2>1
      DEF WorkerLoop, WorkerCheckSize, WorkerWait, From, MoveTo, Quiet, Waits, Pops, ringVars
    <3>. QED
      BY <3>1, QuietKept
  <2>2. CASE WorkerTryPop(w)
    <3>1. DrawPop(w, "popped")
      BY <2>2 DEF WorkerTryPop, From, DrawPop, Pops, Waits
    <3>. QED
      BY <1>1, <3>1, DrawPopKept
  <2>3. CASE WorkerInvoke(w) /\ ret[w].mValid /\ ret[w].mData # Nil
    BY <1>1, <2>3, InvokePopped DEF WorkerInvoke, From, Pops
  <2>4. CASE WorkerInvoke(w) /\ ~(ret[w].mValid /\ ret[w].mData # Nil)
    <3>1. Quiet
      BY <1>1, <1>2, <2>4 DEF WorkerInvoke, From, MoveTo, Quiet, Waits, Pops, ringVars
    <3>. QED
      BY <3>1, QuietKept
  <2>. QED
    BY <1>5, <2>1, <2>2, <2>3, <2>4 DEF WorkerStep
<1>6. CASE ShutdownBegin \/ ShutdownOpenFence \/ ShutdownJoin \/ ShutdownEnd
  <2>1. Quiet
    <3>1. CASE ShutdownOpenFence
      BY <1>1, <1>2, <3>1
      DEF ShutdownOpenFence, Released, From, Quiet, Waits, Pops, ringVars, Steps
    <3>2. CASE ShutdownBegin \/ ShutdownJoin \/ ShutdownEnd
      BY <1>1, <1>2, <3>2
      DEF ShutdownBegin, ShutdownJoin, ShutdownEnd, MoveTo, From, Quiet, Waits, Pops, ringVars
    <3>. QED
      BY <1>6, <3>1, <3>2
  <2>. QED
    BY <2>1, QuietKept
<1>7. CASE ShutdownDrain
  <2>1. CASE mSize > 0
    <3>1. DrawPop(Main, "drained")
      BY <1>7, <2>1 DEF ShutdownDrain, From, DrawPop, Pops, Waits
    <3>. QED
      BY <1>1, <3>1, DrawPopKept
  <2>2. CASE ~(mSize > 0)
    <3>1. Quiet
      BY <1>1, <1>2, <1>7, <2>2 DEF ShutdownDrain, From, MoveTo, Quiet, Waits, Pops, ringVars
    <3>. QED
      BY <3>1, QuietKept
  <2>. QED
    BY <2>1, <2>2
<1>8. CASE UpdateSync
  <2>1. DrawPop(Main, "sync_popped")
    BY <1>8 DEF UpdateSync, From, DrawPop, Pops, Waits
  <2>. QED
    BY <1>1, <2>1, DrawPopKept
<1>9. CASE UpdateSyncInvoke
  <2>1. CASE ret[Main].mValid /\ ret[Main].mData # Nil
    BY <1>1, <1>9, <2>1, InvokePopped DEF UpdateSyncInvoke, From, Pops
  <2>2. CASE ~(ret[Main].mValid /\ ret[Main].mData # Nil)
    <3>1. Quiet
      BY <1>1, <1>2, <1>9, <2>2 DEF UpdateSyncInvoke, From, MoveTo, Quiet, Waits, Pops, ringVars
    <3>. QED
      BY <3>1, QuietKept
  <2>. QED
    BY <2>1, <2>2
<1>10. CASE UNCHANGED vars
  <2>1. Quiet
    BY <1>10 DEF vars, programVars, ringVars, Quiet
  <2>. QED
    BY <2>1, QuietKept
<1>. QED
  BY <1>1, <1>3, <1>4, <1>5, <1>6, <1>7, <1>8, <1>9, <1>10, RetryKept, SignalKept,
     WaitReserveKept, WaitReleaseKept, RunTaskKept, CollectKept, SpillKept
  DEF SchedulerNext, CallerStep, ShutdownStep

LEMMA SchedulerInvariance == SchedulerSpec => []SchedulerInv
<1>1. SchedulerInv /\ [SchedulerNext]_vars => SchedulerInv'
  BY NextTypes, NextKept DEF SchedulerInv
<1>. QED
  BY InitInv, <1>1, PTL DEF SchedulerSpec

\* However workers, waiting clients, Shutdown and UpdateSync interleave, and
\* however the callbacks submit further tasks, no task is run twice.
THEOREM TasksRunAtMostOnce == SchedulerSpec => []AtMostOnce
<1>1. SchedulerInv => AtMostOnce
  BY DEF SchedulerInv, Kept, Accounted, Account, AtMostOnce
<1>. QED
  BY <1>1, SchedulerInvariance, PTL

\* A task that is still to be run is in exactly one place: none is dropped when
\* a push fails, a slot is reserved by Wait or the queue is drained; and mSize,
\* by which the workers and Shutdown decide to stop, is exact.
THEOREM TasksNeverLost == SchedulerSpec => []NothingLost
<1>1. ASSUME SchedulerInv, NEW k \in submitted, runs[k] = 0
      PROVE  Cardinality(Holders(k)) = 1
  <2>. USE DEF SchedulerInv, Kept
  <2>1. k \in Items
    BY <1>1 DEF SchedulerTypeOK
  <2>2. OnePlace(k)
    BY <1>1, <2>1 DEF Accounted, Account
  <2>3. SlotsOf(k) = {j \in Slots : mSlots[j].mData = k}
    BY <1>1 DEF SlotsOf, Cleared
  <2>4. Holders(k) = {<<"slot", i>> : i \in SlotsOf(k)} \cup {<<"push", t>> : t \in PushersOf(k)}
                     \cup {<<"pop", t>> : t \in PoppersOf(k)} \cup {<<"spilled", n>> : n \in SpilledOf(k)}
    BY <2>3 DEF Holders, PushersOf, PoppersOf, SpilledOf, Pops
  <2>5. \E x : Holders(k) = {x}
    <3>1. PICK x :
            \/ SlotsOf(k) = {x} /\ PushersOf(k) = {} /\ PoppersOf(k) = {} /\ SpilledOf(k) = {}
            \/ SlotsOf(k) = {} /\ PushersOf(k) = {x} /\ PoppersOf(k) = {} /\ SpilledOf(k) = {}
            \/ SlotsOf(k) = {} /\ PushersOf(k) = {} /\ PoppersOf(k) = {x} /\ SpilledOf(k) = {}
            \/ SlotsOf(k) = {} /\ PushersOf(k) = {} /\ PoppersOf(k) = {} /\ SpilledOf(k) = {x}
      BY <2>2 DEF OnePlace
    <3>2. \E p \in {"slot", "push", "pop", "spilled"} : Holders(k) = {<<p, x>>}
      BY <2>4, <3>1
    <3>. QED
      BY <3>2
  <2>. QED
    BY <2>5, FS_Singleton
<1>2. SchedulerInv => NothingLost
  BY <1>1 DEF NothingLost, SchedulerInv, Kept
<1>. QED
  BY <1>2, SchedulerInvariance, PTL

-----------------------------------------------------------------------------
(***************************************************************************)
(* Shutdown                                                                *)
(***************************************************************************)
Closing == {"open_fence", "join", "drain", "drained", "spill", "closed"}
Joined == {"drain", "drained", "spill", "closed"}

\* Without tasks that submit tasks, nobody is inside RunTask once Shutdown has
\* begun, only its thread pops once the workers have ended, and the queue it
\* finds empty stays so.
ClosingKept ==
    /\ \A t \in Threads :
         /\ at[t] = "push" => mRunning /\ after[t] = "idle" /\ t \in Clients \cup {Main}
         /\ at[t] = "popped" => t \in Workers
         /\ at[t] \in {"drained", "sync_popped"} => t = Main
    /\ at[Main] \in Closing => ~mRunning
    /\ at[Main] \in Joined => \A w \in Workers : at[w] = "ended"
    /\ at[Main] \in {"spill", "closed"} => mSize = 0
    /\ at[Main] = "closed" => spilled = <<>>

\* A callback that submits nothing only takes its thread to its next place.
LEMMA InvokeQuietly ==
    ASSUME NEW t, NEW k, NEW to, Spawns[k] = Nil, Invoke(t, k, to)
    PROVE  MoveTo(t, to) /\ UNCHANGED <<mSize, after>>
  BY DEF Invoke, ringVars

LEMMA ClosingRing ==
    ASSUME SchedulerInv, ClosingKept, NEW t \in Threads, InRing(t)
    PROVE  ClosingKept'
<1>1. UNCHANGED <<mRunning, at, after, spilled>>
  BY DEF InRing, programVars
<1>2. ASSUME at[Main] \in {"spill", "closed"}
      PROVE  mSize' = mSize
  <2>1. \A w \in Workers : at[w] = "ended"
    BY <1>2 DEF ClosingKept, Joined
  <2>2. ~mRunning
    BY <1>2 DEF ClosingKept, Closing
  <2>3. at[t] # "push"
    BY <2>2 DEF ClosingKept
  <2>4. at[t] \notin Pops
    BY <1>2, <2>1 DEF ClosingKept, Pops
  <2>5. pc[t] = "idle"
    BY <2>3, <2>4 DEF SchedulerInv, Kept, Steps
  <2>. QED
    BY <2>5 DEF InRing, RingStep, ReservePush, TransferPush, ReleasePush,
       ReservePop, TransferPop, ReleasePop, Goto
<1>. QED
  BY <1>1, <1>2 DEF ClosingKept

\* Thread t moves to a place that is not one of Shutdown's.
LEMMA ClosingMove ==
    ASSUME SchedulerInv, ClosingKept, NEW t \in Threads, NEW to, MoveTo(t, to),
           UNCHANGED <<mRunning, spilled>>,
           at[Main] \in {"spill", "closed"} => mSize' = mSize,
           at[t] \notin Closing \cup {"ended"}, to \notin Closing,
           \A u \in Threads \ {t} : after'[u] = after[u],
           to = "push" => mRunning /\ after'[t] = "idle" /\ t \in Clients \cup {Main},
           to = "popped" => t \in Workers, to = "sync_popped" => t = Main
    PROVE  ClosingKept'
<1>1. /\ at \in [Threads -> Places] /\ Main \in Threads /\ Workers \subseteq Threads
  BY SchedulerAssumption DEF SchedulerInv, SchedulerTypeOK
<1>2. \A u \in Threads : at'[u] = IF u = t THEN to ELSE at[u]
  BY <1>1 DEF MoveTo
<1>3. /\ at'[Main] \in Closing => at[Main] = at'[Main]
      /\ at'[Main] \in Joined => at[Main] \in Joined /\ \A w \in Workers : at'[w] = "ended"
  <2>1. at'[Main] \in Closing => t # Main /\ at[Main] = at'[Main]
    BY <1>1, <1>2
  <2>2. Joined \subseteq Closing
    BY DEF Joined, Closing
  <2>3. ASSUME at'[Main] \in Joined, NEW w \in Workers PROVE at'[w] = "ended"
    <3>1. at[w] = "ended"
      BY <2>1, <2>2, <2>3 DEF ClosingKept
    <3>. QED
      BY <1>1, <1>2, <3>1
  <2>. QED
    BY <2>1, <2>2, <2>3
<1>4. at'[Main] \in {"spill", "closed"} => at[Main] = at'[Main] /\ mSize' = mSize
  BY <1>3 DEF Closing
<1>5. \A u \in Threads :
         /\ at'[u] = "push" => mRunning' /\ after'[u] = "idle" /\ u \in Clients \cup {Main}
         /\ at'[u] = "popped" => u \in Workers
         /\ at'[u] \in {"drained", "sync_popped"} => u = Main
  BY <1>2 DEF ClosingKept, Closing
<1>6. at'[Main] = "closed" => at[Main] = "closed"
  BY <1>4
<1>. QED
  BY <1>3, <1>4, <1>5, <1>6 DEF ClosingKept

LEMMA ClosingInit == SchedulerInit => ClosingKept
<1>. SUFFICES ASSUME SchedulerInit PROVE ClosingKept
  OBVIOUS
<1>1. \A t \in Threads : at[t] \in {"loop", "ended", "idle"}
  BY DEF SchedulerInit
<1>2. Main \in Threads
  BY SchedulerAssumption
<1>. QED
  BY <1>1, <1>2 DEF ClosingKept, Closing, Joined

LEMMA ClosingShutdown ==
    ASSUME SchedulerInv, ClosingKept, \A k \in Items : Spawns[k] = Nil,
           ShutdownBegin \/ ShutdownStep
    PROVE  ClosingKept'
<1>1. /\ at \in [Threads -> Places] /\ Main \in Threads /\ Workers \subseteq Threads
      /\ spilled \in Seq(Items)
  BY SchedulerAssumption DEF SchedulerInv, SchedulerTypeOK
<1>2. mSize \in Nat
  <2>. DEFINE F == Counted \cup {handle[t].mSlot : t \in InWait}
  <2>1. F \subseteq Slots
    BY SchedulerAssumption DEF Counted, InWait, SchedulerInv, SchedulerTypeOK
  <2>2. Cardinality(F) \in Nat
    BY <2>1, SlotsFinite, FS_Subset, FS_CardinalityType
  <2>. QED
    BY <2>2 DEF SchedulerInv, Kept, QueueSize
<1>3. CASE ShutdownBegin
  <2>1. /\ at' = [at EXCEPT ![Main] = "open_fence"] /\ at[Main] = "idle"
        /\ mRunning' = FALSE /\ UNCHANGED <<after, spilled, mSize>>
        /\ \A t \in Clients : at[t] # "push"
    BY <1>3 DEF ShutdownBegin, From, MoveTo, ClientsIdle, ringVars
  <2>2. \A t \in Threads : at'[t] = IF t = Main THEN "open_fence" ELSE at[t]
    BY <1>1, <2>1
  <2>3. \A t \in Threads : at'[t] # "push"
    BY <1>1, <2>1, <2>2 DEF ClosingKept
  <2>. QED
    BY <1>1, <2>1, <2>2, <2>3 DEF ClosingKept, Closing, Joined
<1>4. CASE ShutdownOpenFence
  <2>1. /\ at' = [Released EXCEPT ![Main] = "join"] /\ at[Main] = "open_fence"
        /\ UNCHANGED <<mRunning, after, spilled, mSize>>
    BY <1>4 DEF ShutdownOpenFence, From, ringVars
  <2>2. \A t \in Threads : at'[t] = IF t = Main THEN "join"
                                    ELSE IF at[t] = "waiting" THEN "loop" ELSE at[t]
    BY <1>1, <2>1 DEF Released
  <2>. QED
    BY <1>1, <2>1, <2>2 DEF ClosingKept, Closing, Joined
<1>5. CASE ShutdownJoin
  <2>1. /\ at' = [at EXCEPT ![Main] = "drain"] /\ at[Main] = "join"
        /\ \A w \in Workers : at[w] = "ended"
        /\ UNCHANGED <<mRunning, after, spilled, mSize>>
    BY <1>5 DEF ShutdownJoin, From, MoveTo, ringVars
  <2>2. \A t \in Threads : at'[t] = IF t = Main THEN "drain" ELSE at[t]
    BY <1>1, <2>1
  <2>3. \A w \in Workers : at'[w] = "ended"
    BY <1>1, <2>1, <2>2
  <2>. QED
    BY <1>1, <2>1, <2>2, <2>3 DEF ClosingKept, Closing
<1>6. ASSUME NEW to \in Joined, MoveTo(Main, to), at[Main] \in Joined,
             UNCHANGED <<mRunning, after>>, to \in {"spill", "closed"} => mSize' = 0,
             to = "closed" => spilled' = <<>>
      PROVE  ClosingKept'
  <2>1. \A t \in Threads : at'[t] = IF t = Main THEN to ELSE at[t]
    BY <1>1, <1>6 DEF MoveTo
  <2>2. \A w \in Workers : at[w] = "ended" /\ w # Main
    BY <1>6 DEF ClosingKept, Joined
  <2>3. ~mRunning
    BY <1>6 DEF ClosingKept, Joined, Closing
  <2>4. \A w \in Workers : at'[w] = "ended"
    BY <1>1, <2>1, <2>2
  <2>5. \A t \in Threads :
           /\ at'[t] # "push"
           /\ at'[t] = "popped" => t \in Workers
           /\ at'[t] \in {"drained", "sync_popped"} => t = Main
    BY <1>6, <2>1, <2>3 DEF ClosingKept, Joined
  <2>6. at'[Main] = to
    BY <1>1, <2>1
  <2>. QED
    BY <1>6, <2>3, <2>4, <2>5, <2>6 DEF ClosingKept
<1>7. CASE ShutdownDrain
  <2>1. at[Main] \in Joined /\ UNCHANGED <<mRunning, after>>
    BY <1>7 DEF ShutdownDrain, From, Joined
  <2>2. CASE mSize > 0
    BY <1>6, <1>7, <2>1, <2>2 DEF ShutdownDrain, Joined
  <2>3. CASE ~(mSize > 0)
    <3>1. mSize' = 0 /\ MoveTo(Main, "spill")
      BY <1>2, <1>7, <2>3 DEF ShutdownDrain, ringVars
    <3>. QED
      BY <1>6, <2>1, <3>1 DEF Joined
  <2>. QED
    BY <2>2, <2>3
<1>8. CASE ShutdownCollect
  BY <1>6, <1>8 DEF ShutdownCollect, From, Joined
<1>9. CASE ShutdownSpill
  <2>1. Head(spilled) \in Items
    BY <1>1, <1>9 DEF ShutdownSpill
  <2>2. MoveTo(Main, "spill") /\ UNCHANGED <<mSize, after>>
    BY <1>9, <2>1, InvokeQuietly DEF ShutdownSpill
  <2>3. at[Main] = "spill" /\ mRunning' = mRunning /\ mSize = 0
    BY <1>9 DEF ShutdownSpill, From, ClosingKept
  <2>. QED
    BY <1>6, <2>2, <2>3 DEF Joined
<1>10. CASE ShutdownEnd
  <2>1. /\ at[Main] = "spill" /\ UNCHANGED <<mRunning, after, mSize, spilled>> /\ mSize = 0
        /\ MoveTo(Main, "closed") /\ spilled = <<>>
    BY <1>10 DEF ShutdownEnd, From, ClosingKept, ringVars
  <2>. QED
    BY <1>6, <2>1 DEF Joined
<1>. QED
  BY <1>3, <1>4, <1>5, <1>7, <1>8, <1>9, <1>10 DEF ShutdownStep

LEMMA ClosingNext ==
    ASSUME SchedulerInv, ClosingKept, \A k \in Items : Spawns[k] = Nil, [SchedulerNext]_vars
    PROVE  ClosingKept'
<1>1. /\ Main \in Threads /\ Clients \subseteq Threads /\ Workers \subseteq Threads
      /\ at \in [Threads -> Places] /\ after \in [Threads -> Places]
      /\ mSlots \in SlotArrays /\ ret \in [Threads -> Handles]
      /\ handle \in [Threads -> Handles]
  BY SchedulerAssumption DEF SchedulerInv, SchedulerTypeOK, TypeOK, SlotArrays, Handles
<1>2. ASSUME NEW t \in Threads, InRing(t) PROVE ClosingKept'
  BY <1>2, ClosingRing
<1>3. ASSUME NEW t \in Threads, RunTaskRetry(t) PROVE ClosingKept'
  BY <1>3 DEF RunTaskRetry, AllocatePushSlot, programVars, ClosingKept
<1>4. ASSUME NEW t \in Threads, RunTaskSignal(t) PROVE ClosingKept'
  <2>1. at[t] = "push" /\ mRunning /\ after[t] = "idle"
    BY <1>4 DEF RunTaskSignal, From, ClosingKept
  <2>2. \A u \in Threads : at'[u] = IF u = t THEN "idle"
                                    ELSE IF at[u] = "waiting" THEN "loop" ELSE at[u]
    BY <1>1, <1>4, <2>1 DEF RunTaskSignal, Released
  <2>3. UNCHANGED <<mRunning, after, spilled>>
    BY <1>4 DEF RunTaskSignal
  <2>4. at'[Main] \notin Closing
    BY <1>1, <2>1, <2>2 DEF ClosingKept, Closing
  <2>. QED
    BY <2>2, <2>3, <2>4 DEF ClosingKept, Closing, Joined
<1>5. ASSUME NEW t \in Threads, WaitInvoke(t) PROVE ClosingKept'
  <2>. DEFINE k == mSlots[handle[t].mSlot].mData
  <2>1. k \in Values
    BY <1>1 DEF SlotArrays, Handles
  <2>2. PICK to \in {"wait_clear", "wait_release"} : MoveTo(t, to) /\ UNCHANGED <<mSize, after>>
    <3>1. k # Nil => Spawns[k] = Nil
      BY <2>1 DEF Values
    <3>. QED
      BY <1>5, <3>1, InvokeQuietly DEF WaitInvoke, ringVars
  <2>3. at[t] = "wait_owned" /\ UNCHANGED <<mRunning, spilled>>
    BY <1>5 DEF WaitInvoke, From
  <2>. QED
    BY <2>2, <2>3, ClosingMove DEF Closing
<1>6. ASSUME NEW t \in Threads, WaitRelease(t) PROVE ClosingKept'
  BY <1>6, ClosingMove DEF WaitRelease, Closing
<1>7. ASSUME NEW t \in Threads, WaitReserve(t) PROVE ClosingKept'
  BY <1>7, ClosingMove DEF WaitReserve, From, Closing
<1>8. ASSUME NEW t \in Threads, NEW k \in Roots, RunTask(t, k) PROVE ClosingKept'
  <2>1. /\ t \in Clients \cup {Main} /\ mRunning /\ at[t] = "idle" /\ MoveTo(t, "push")
        /\ UNCHANGED <<mRunning, spilled, mSize>> /\ after' = [after EXCEPT ![t] = "idle"]
    BY <1>8 DEF RunTask, From, EnterRunTask, AllocatePushSlot
  <2>2. after'[t] = "idle" /\ \A u \in Threads \ {t} : after'[u] = after[u]
    BY <1>1, <2>1
  <2>. QED
    BY <2>1, <2>2, ClosingMove DEF Closing
<1>9. ASSUME NEW w \in Workers, WorkerStep(w) PROVE ClosingKept'
  <2>1. CASE WorkerLoop(w)
    <3>1. CASE working[w]
      BY <1>1, <2>1, <3>1, ClosingMove DEF WorkerLoop, From, Closing, ringVars
    <3>2. CASE ~working[w]
      BY <1>1, <2>1, <3>2, ClosingMove DEF WorkerLoop, From, Closing, ringVars
    <3>. QED
      BY <3>1, <3>2
  <2>2. CASE WorkerTryPop(w)
    BY <1>1, <2>2, ClosingMove DEF WorkerTryPop, From, AllocatePopSlot, Closing
  <2>3. CASE WorkerInvoke(w)
    <3>1. ret[w].mData \in Values
      BY <1>1 DEF Handles
    <3>2. ret[w].mData # Nil => Spawns[ret[w].mData] = Nil
      BY <3>1 DEF Values
    <3>3. MoveTo(w, "size") /\ UNCHANGED <<mSize, after>>
      BY <2>3, <3>2, InvokeQuietly DEF WorkerInvoke, ringVars
    <3>4. at[w] = "popped" /\ UNCHANGED <<mRunning, spilled>>
      BY <2>3 DEF WorkerInvoke, From
    <3>. QED
      BY <1>1, <3>3, <3>4, ClosingMove DEF Closing
  <2>4. CASE WorkerCheckSize(w)
    <3>1. CASE mSize = 0
      BY <1>1, <2>4, <3>1, ClosingMove DEF WorkerCheckSize, From, Closing, ringVars
    <3>2. CASE mSize # 0
      BY <1>1, <2>4, <3>2, ClosingMove DEF WorkerCheckSize, From, Closing, ringVars
    <3>. QED
      BY <3>1, <3>2
  <2>5. CASE WorkerWait(w)
    <3>1. CASE open
      BY <1>1, <2>5, <3>1, ClosingMove DEF WorkerWait, From, Closing, ringVars
    <3>2. CASE ~open
      BY <1>1, <2>5, <3>2, ClosingMove DEF WorkerWait, From, Closing, ringVars
    <3>. QED
      BY <3>1, <3>2
  <2>. QED
    BY <1>9, <2>1, <2>2, <2>3, <2>4, <2>5 DEF WorkerStep
<1>10. CASE ShutdownBegin \/ ShutdownStep
  BY <1>10, ClosingShutdown
<1>11. CASE UpdateSync
  BY <1>1, <1>11, ClosingMove DEF UpdateSync, From, AllocatePopSlot, Closing
<1>12. CASE UpdateSyncInvoke
  <2>1. ret[Main].mData \in Values
    BY <1>1 DEF Handles
  <2>2. ret[Main].mData # Nil => Spawns[ret[Main].mData] = Nil
    BY <2>1 DEF Values
  <2>3. MoveTo(Main, "idle") /\ UNCHANGED <<mSize, after>>
    BY <1>12, <2>2, InvokeQuietly DEF UpdateSyncInvoke, ringVars
  <2>4. at[Main] = "sync_popped" /\ UNCHANGED <<mRunning, spilled>>
    BY <1>12 DEF UpdateSyncInvoke, From
  <2>. QED
    BY <1>1, <2>3, <2>4, ClosingMove DEF Closing
<1>13. CASE UNCHANGED vars
  BY <1>13 DEF vars, programVars, ringVars, ClosingKept
<1>. QED
  BY <1>2, <1>3, <1>4, <1>5, <1>6, <1>7, <1>8, <1>9, <1>10, <1>11, <1>12, <1>13
  DEF SchedulerNext, CallerStep

\* A task that was submitted and is in no place has been run.
LEMMA ClosedIsDone ==
    ASSUME SchedulerInv, ClosingKept, at[Main] = "closed"
    PROVE  mSize = 0 /\ \A k \in submitted : runs[k] = 1
<1>. USE DEF SchedulerInv, Kept
<1>. DEFINE F == Counted \cup {handle[t].mSlot : t \in InWait}
<1>1. mSize = 0 /\ spilled = <<>> /\ ~mRunning /\ \A w \in Workers : at[w] = "ended"
  BY DEF ClosingKept, Closing, Joined
<1>2. F \subseteq Slots /\ Cardinality(F) = 0
  BY <1>1, SchedulerAssumption DEF Counted, InWait, SchedulerTypeOK, QueueSize
<1>3. F = {}
  BY <1>2, SlotsFinite, FS_Subset, FS_EmptySet
<1>4. Counted = {} /\ InWait = {}
  BY <1>3
<1>5. \A t \in Threads : at[t] \notin {"push"} \cup Pops
  BY <1>1 DEF ClosingKept, Pops
<1>6. Holding = {}
  BY <1>5 DEF Holding, Steps, PushPC, PopPC
<1>7. ASSUME NEW i \in Slots PROVE mSlots[i].mState = PRODUCER_READY
  <2>1. mSlots[i].mState \in {PRODUCER_READY, CONSUMER_READY} \cup Threads
    BY DEF SchedulerTypeOK, TypeOK
  <2>2. mSlots[i].mState # CONSUMER_READY
    BY <1>4 DEF Counted
  <2>3. mSlots[i].mState \notin Threads
    BY <1>4, <1>6 DEF SlotReservation
  <2>. QED
    BY <2>1, <2>2, <2>3
<1>8. ASSUME NEW k \in submitted PROVE runs[k] = 1
  <2>1. k \in Items /\ k # Nil
    BY ItemsAssumption DEF SchedulerTypeOK
  <2>2. SlotsOf(k) = {}
    BY <1>7, <2>1 DEF SlotsOf, Vacant
  <2>3. PushersOf(k) = {} /\ PoppersOf(k) = {}
    BY <1>5 DEF PushersOf, PoppersOf
  <2>4. SpilledOf(k) = {}
    BY <1>1 DEF SpilledOf
  <2>5. ~OnePlace(k)
    BY <2>2, <2>3, <2>4 DEF OnePlace
  <2>. QED
    BY <2>1, <2>5 DEF Accounted, Account
<1>. QED
  BY <1>1, <1>8

\* When Shutdown returns, in either mode and whatever the workers and clients
\* were at when it began, every task was run and the queue is empty, provided
\* that no callback submits another task.
THEOREM ShutdownCompletes ==
    ASSUME \A k \in Items : Spawns[k] = Nil
    PROVE  SchedulerSpec => []ClosedMeansDone
<1>1. SchedulerInv /\ SchedulerInv' /\ ClosingKept /\ [SchedulerNext]_vars => ClosingKept'
  BY ClosingNext
<1>2. SchedulerInv /\ ClosingKept => ClosedMeansDone
  BY ClosedIsDone DEF ClosedMeansDone
<1>. QED
  BY <1>1, <1>2, ClosingInit, SchedulerInvariance, PTL DEF SchedulerSpec

-----------------------------------------------------------------------------
(***************************************************************************)
(* The handle names its task                                               *)
(***************************************************************************)
\* The slots ready for a producer, reserved by one or emptied by a consumer.
Empty == {i \in Slots :
    \/ mSlots[i].mState = PRODUCER_READY
    \/ \E t \in Threads : pc[t] \in {"push_transfer", "pop_release"} /\ mine[t] = i}

\* The tasks some TryPush has put in a slot.
Pushed == {k \in submitted : PushersOf(k) = {}}

\* A slot was reused at most once for every task, and one that is not empty
\* still has to be emptied again.
SerialsBounded ==
    \A i \in Slots :
        /\ mSlots[i].mSerial <= 2 * Cardinality(Pushed)
        /\ mSlots[i].mSerial = 2 * Cardinality(Pushed) => i \in Empty

\* The slot of a result has a later serial, or still holds its task.
Names(r) ==
    LET slot == mSlots[r.mSlot] IN
    r.mValid => /\ r.mSerial <= slot.mSerial
                /\ r.mSerial = slot.mSerial => slot.mData \in {r.mData, Nil}

Named ==
    \A t \in Threads :
        /\ Names(handle[t])
        /\ at[t] = "push" => Names(ret[t])
        /\ at[t] = "wait_owned" => handle[t].mValid

Serials == SerialsBounded /\ Named

\* A step that neither fills nor empties a slot: a result is dropped, or becomes
\* the handle of its client.
Still ==
    /\ \A i \in Slots : /\ mSlots'[i].mSerial = mSlots[i].mSerial
                         /\ mSlots'[i].mData \in {mSlots[i].mData, Nil}
    /\ Empty \subseteq Empty'
    /\ Pushed \subseteq Pushed'
    /\ \A t \in Threads :
         /\ \/ handle'[t] \in {handle[t], NoResult}
            \/ at[t] = "push" /\ handle'[t] = ret[t]
         /\ at'[t] = "push" => ret'[t] = NoResult \/ (at[t] = "push" /\ ret'[t] = ret[t])
         /\ at'[t] = "wait_owned" => handle'[t].mValid

ManySerials == IsFiniteSet(Items) /\ 2 * Cardinality(Items) < INVALID_SERIAL

LEMMA PushedCount ==
    ASSUME ManySerials, SchedulerTypeOK
    PROVE  /\ IsFiniteSet(Pushed) /\ Cardinality(Pushed) \in Nat
           /\ 2 * Cardinality(Pushed) < INVALID_SERIAL
<1>1. Pushed \subseteq Items
  BY DEF Pushed, SchedulerTypeOK
<1>2. IsFiniteSet(Pushed) /\ Cardinality(Pushed) <= Cardinality(Items)
  BY <1>1, FS_Subset DEF ManySerials
<1>3. Cardinality(Pushed) \in Nat /\ Cardinality(Items) \in Nat /\ INVALID_SERIAL \in Int
  BY <1>2, FS_CardinalityType, WidthAssumption DEF ManySerials, INVALID_SERIAL
<1>. QED
  BY <1>2, <1>3 DEF ManySerials

LEMMA SlotTypes ==
    ASSUME SchedulerTypeOK, NEW i \in Slots
    PROVE  mSlots[i].mSerial \in Nat /\ mSlots[i].mData \in Values
  BY WidthAssumption DEF SchedulerTypeOK, TypeOK

LEMMA StillSerials ==
    ASSUME ManySerials, SchedulerTypeOK, SchedulerTypeOK', Serials, Still
    PROVE  Serials'
<1>0. /\ \A i \in Slots : mSlots'[i].mSerial = mSlots[i].mSerial
      /\ \A i \in Slots : mSlots'[i].mData \in {mSlots[i].mData, Nil}
      /\ Pushed \subseteq Pushed'
  BY DEF Still
<1>1. Cardinality(Pushed) \in Nat /\ Cardinality(Pushed') \in Nat
      /\ Cardinality(Pushed) <= Cardinality(Pushed')
  <2>1. Pushed' \subseteq Items
    BY DEF SchedulerTypeOK, Pushed
  <2>2. IsFiniteSet(Pushed')
    BY <2>1, FS_Subset DEF ManySerials
  <2>3. Cardinality(Pushed) \in Nat /\ Cardinality(Pushed') \in Nat
    BY <2>2, PushedCount, FS_CardinalityType
  <2>. QED
    BY <1>0, <2>2, <2>3, FS_Subset
<1>2. SerialsBounded'
  <2>1. ASSUME NEW i \in Slots
        PROVE  /\ mSlots'[i].mSerial <= 2 * Cardinality(Pushed')
               /\ mSlots'[i].mSerial = 2 * Cardinality(Pushed') => i \in Empty'
    <3>1. mSlots[i].mSerial \in Nat /\ mSlots'[i].mSerial = mSlots[i].mSerial
      BY <1>0, SlotTypes
    <3>2. /\ mSlots[i].mSerial <= 2 * Cardinality(Pushed)
          /\ mSlots[i].mSerial = 2 * Cardinality(Pushed) => i \in Empty
      BY DEF Serials, SerialsBounded
    <3>3. i \in Empty => i \in Empty'
      BY DEF Still
    <3>. QED
      BY <1>1, <3>1, <3>2, <3>3
  <2>. QED
    BY <2>1 DEF SerialsBounded
<1>3. ASSUME NEW r \in Handles, Names(r) PROVE Names(r)'
  BY <1>0, <1>3 DEF Names, Handles
<1>4. Names(NoResult)
  BY NoResultType DEF Names
<1>5. ASSUME NEW t \in Threads
      PROVE  /\ Names(handle[t])' /\ (at'[t] = "push" => Names(ret[t])')
             /\ at'[t] = "wait_owned" => handle'[t].mValid
  <2>1. handle[t] \in Handles /\ ret[t] \in Handles
    BY DEF SchedulerTypeOK, TypeOK, Handles
  <2>2. Names(handle[t]) /\ (at[t] = "push" => Names(ret[t]))
    BY DEF Serials, Named
  <2>3. \E r \in Handles : Names(r) /\ handle'[t] = r
    BY <1>4, <2>1, <2>2, NoResultType DEF Still
  <2>4. at'[t] = "push" => \E r \in Handles : Names(r) /\ ret'[t] = r
    BY <1>4, <2>1, <2>2, NoResultType DEF Still
  <2>5. Names(handle[t])'
    <3>1. PICK r \in Handles : Names(r) /\ handle'[t] = r
      BY <2>3
    <3>. QED
      BY <1>3, <3>1 DEF Names
  <2>6. at'[t] = "push" => Names(ret[t])'
    <3>1. ASSUME at'[t] = "push" PROVE Names(ret[t])'
      <4>1. PICK r \in Handles : Names(r) /\ ret'[t] = r
        BY <2>4, <3>1
      <4>. QED
        BY <1>3, <4>1 DEF Names
    <3>. QED
      BY <3>1
  <2>. QED
    BY <2>5, <2>6 DEF Still
<1>. QED
  BY <1>2, <1>5 DEF Serials, Named

LEMMA NextSerialCounts ==
    ASSUME NEW s \in Nat, s + 1 < INVALID_SERIAL
    PROVE  NextSerial(s) = s + 1
  BY WidthAssumption DEF NextSerial, INVALID_SERIAL

\* The slot that is filled or emptied gets a serial no earlier result has.
LEMMA TransferSerials ==
    ASSUME ManySerials, SchedulerInv, SchedulerTypeOK', Serials, NEW t \in Threads,
           TransferPush(t) \/ TransferPop(t), UNCHANGED programVars
    PROVE  Serials'
<1>. USE DEF SchedulerInv, Kept
<1>. DEFINE i == mine[t]
            s == mSlots[i].mSerial
<1>1. /\ UNCHANGED <<at, handle, submitted, mine, arg>> /\ i \in Slots
      /\ \A j \in Slots \ {i} : mSlots'[j] = mSlots[j]
      /\ \A u \in Threads \ {t} : ret'[u] = ret[u]
  BY TransferKept DEF programVars, TransferPush, TransferPop, SchedulerTypeOK, TypeOK
<1>2. s \in Nat /\ \A j \in Slots : mSlots[j].mSerial \in Nat
  BY <1>1, SlotTypes
<1>3. /\ pc[t] \in {"push_transfer", "pop_transfer"} /\ pc' = [pc EXCEPT ![t] = pc'[t]]
      /\ DOMAIN pc = Threads
  BY DEF TransferPush, TransferPop, Goto, SchedulerTypeOK, TypeOK
<1>4. t \in Holding
  BY <1>3 DEF Holding, PushPC, PopPC
<1>5. mSlots[i].mState = t /\ \A u \in Holding \ {t} : mine[u] # i
  BY <1>4, Reserved
<1>6. /\ Cardinality(Pushed) \in Nat /\ Cardinality(Pushed') \in Nat
      /\ IsFiniteSet(Pushed) /\ 2 * Cardinality(Pushed) < INVALID_SERIAL
      /\ 2 * Cardinality(Pushed') < INVALID_SERIAL /\ INVALID_SERIAL \in Int
  <2>1. Pushed' \subseteq Items /\ Pushed \subseteq Items
    BY DEF Pushed, SchedulerTypeOK
  <2>2. /\ IsFiniteSet(Pushed) /\ IsFiniteSet(Pushed')
        /\ Cardinality(Pushed) <= Cardinality(Items) /\ Cardinality(Pushed') <= Cardinality(Items)
    BY <2>1, FS_Subset DEF ManySerials
  <2>3. Cardinality(Pushed) \in Nat /\ Cardinality(Pushed') \in Nat /\ Cardinality(Items) \in Nat
    BY <2>2, FS_CardinalityType DEF ManySerials
  <2>. QED
    BY <2>2, <2>3, WidthAssumption DEF ManySerials, INVALID_SERIAL
<1>7. /\ s <= 2 * Cardinality(Pushed) /\ s + 1 <= 2 * Cardinality(Pushed')
      /\ Cardinality(Pushed) <= Cardinality(Pushed')
      /\ s + 1 = 2 * Cardinality(Pushed') => pc[t] = "pop_transfer"
      /\ \A j \in Slots : mSlots[j].mSerial = 2 * Cardinality(Pushed')
                              => mSlots[j].mSerial = 2 * Cardinality(Pushed)
  <2>1. \A j \in Slots : mSlots[j].mSerial <= 2 * Cardinality(Pushed)
    BY DEF Serials, SerialsBounded
  <2>2. CASE TransferPush(t)
    <3>1. pc[t] = "push_transfer" /\ ret' = [ret EXCEPT ![t] = ret'[t]] /\ ret'[t].mValid
      BY <2>2 DEF TransferPush, Goto, Result, SchedulerTypeOK, TypeOK
    <3>2. at[t] = "push" /\ arg[t] \in Items /\ ~ret[t].mValid
      BY <3>1 DEF Steps, PushPC, PopPC
    <3>. PICK k \in Items : k = arg[t]
      BY <3>2
    <3>3. t \in PushersOf(k)
      BY <3>2 DEF PushersOf
    <3>4. k \in submitted /\ PushersOf(k) = {t}
      BY <3>3, Alone DEF Accounted, NoPlace
    <3>5. \A j : PushersOf(j)' = PushersOf(j) \ {t}
      BY <1>1, <3>1 DEF PushersOf
    <3>6. \A j : j # k => t \notin PushersOf(j)
      BY DEF PushersOf
    <3>7. Pushed' = Pushed \cup {k} /\ k \notin Pushed
      BY <1>1, <3>4, <3>5, <3>6 DEF Pushed
    <3>8. Cardinality(Pushed') = Cardinality(Pushed) + 1
      BY <1>6, <3>7, FS_AddElement
    <3>. QED
      BY <1>1, <1>2, <1>6, <2>1, <3>8
  <2>3. CASE TransferPop(t)
    <3>1. pc[t] = "pop_transfer"
      BY <2>3 DEF TransferPop, Goto
    <3>2. at[t] # "push"
      BY <3>1 DEF Steps, PushPC
    <3>3. \A j : PushersOf(j)' = PushersOf(j)
      BY <1>1, <3>2 DEF PushersOf
    <3>4. Pushed' = Pushed
      BY <1>1, <3>3 DEF Pushed
    <3>5. i \notin Empty
      BY <1>5, <3>1, ThreadsAssumption DEF Empty, Holding, PushPC, PopPC
    <3>6. s # 2 * Cardinality(Pushed)
      BY <1>1, <3>5 DEF Serials, SerialsBounded
    <3>. QED
      BY <1>1, <1>2, <1>6, <2>1, <3>1, <3>4, <3>6
  <2>. QED
    BY <2>2, <2>3
<1>8. s + 1 < INVALID_SERIAL
  BY <1>2, <1>6, <1>7
<1>9. /\ mSlots'[i].mSerial = s + 1
      /\ pc[t] = "push_transfer" =>
            ret'[t] = Result(TRUE, i, s + 1, arg[t]) /\ mSlots'[i].mData = arg[t]
      /\ pc'[t] = IF pc[t] = "push_transfer" THEN "push_release" ELSE "pop_release"
  <2>1. NextSerial(s) = s + 1
    BY <1>2, <1>8, NextSerialCounts
  <2>2. mSlots \in SlotArrays /\ DOMAIN ret = Threads
    BY DEF SchedulerTypeOK, TypeOK, SlotArrays
  <2>3. CASE TransferPush(t)
    BY <1>1, <1>3, <2>1, <2>2, <2>3 DEF TransferPush, Goto, SlotArrays
  <2>4. CASE TransferPop(t)
    BY <1>1, <1>3, <2>1, <2>2, <2>4 DEF TransferPop, Goto, SlotArrays
  <2>. QED
    BY <2>3, <2>4
<1>10. SerialsBounded'
  <2>1. ASSUME NEW j \in Slots
        PROVE  /\ mSlots'[j].mSerial <= 2 * Cardinality(Pushed')
               /\ mSlots'[j].mSerial = 2 * Cardinality(Pushed') => j \in Empty'
    <3>1. CASE j = i
      <4>1. s + 1 = 2 * Cardinality(Pushed') => j \in Empty'
        BY <1>1, <1>7, <1>9, <3>1 DEF Empty
      <4>. QED
        BY <1>7, <1>9, <3>1, <4>1
    <3>2. CASE j # i
      <4>1. mSlots'[j] = mSlots[j] /\ mSlots[j].mSerial <= 2 * Cardinality(Pushed)
        BY <1>1, <3>2 DEF Serials, SerialsBounded
      <4>2. mSlots[j].mSerial = 2 * Cardinality(Pushed') => j \in Empty
        BY <1>7 DEF Serials, SerialsBounded
      <4>3. j \in Empty => j \in Empty'
        BY <1>1, <1>3, <3>2, <4>1 DEF Empty
      <4>. QED
        BY <1>2, <1>6, <1>7, <4>1, <4>2, <4>3
    <3>. QED
      BY <3>1, <3>2
  <2>. QED
    BY <2>1 DEF SerialsBounded
<1>11. ASSUME NEW r \in Handles, Names(r) PROVE Names(r)'
  <2>1. CASE r.mSlot = i
    <3>1. r.mValid => r.mSerial <= s
      BY <1>11, <2>1 DEF Names
    <3>2. r.mSerial \in Nat
      BY WidthAssumption DEF Handles, INVALID_SERIAL
    <3>. QED
      BY <1>2, <1>9, <2>1, <3>1, <3>2 DEF Names
  <2>2. CASE r.mSlot # i
    BY <1>1, <1>11, <2>2 DEF Names, Handles
  <2>. QED
    BY <2>1, <2>2
<1>12. ASSUME NEW u \in Threads
       PROVE  /\ Names(handle[u])' /\ (at'[u] = "push" => Names(ret[u])')
              /\ at'[u] = "wait_owned" => handle'[u].mValid
  <2>1. handle[u] \in Handles /\ ret[u] \in Handles
    BY DEF SchedulerTypeOK, TypeOK, Handles
  <2>2. Names(handle[u]) /\ (at[u] = "push" => Names(ret[u]))
        /\ (at[u] = "wait_owned" => handle[u].mValid)
    BY DEF Serials, Named
  <2>3. Names(handle[u])'
    BY <1>1, <1>11, <2>1, <2>2 DEF Names
  <2>4. CASE u # t
    BY <1>1, <1>11, <2>1, <2>2, <2>3, <2>4 DEF Names
  <2>5. CASE u = t
    <3>1. at'[u] = "push" => pc[t] = "push_transfer"
      BY <1>1, <1>3, <2>5 DEF Steps, PushPC
    <3>2. at'[u] = "push" => Names(ret[u])'
      BY <1>2, <1>9, <2>5, <3>1 DEF Names, Result
    <3>. QED
      BY <1>1, <2>2, <2>3, <3>2
  <2>. QED
    BY <2>4, <2>5
<1>. QED
  BY <1>10, <1>12 DEF Serials, Named

LEMMA PushedGrows ==
    ASSUME submitted \subseteq submitted',
           \A u \in Threads : at'[u] = "push" /\ ~ret'[u].mValid =>
                \/ at[u] = "push" /\ ~ret[u].mValid /\ arg'[u] = arg[u]
                \/ arg'[u] \notin submitted
    PROVE  Pushed \subseteq Pushed'
<1>1. ASSUME NEW k \in Pushed PROVE PushersOf(k)' = {}
  BY DEF Pushed, PushersOf
<1>. QED
  BY <1>1 DEF Pushed

\* The compare-exchanges of the ring.
LEMMA RingStill ==
    ASSUME SchedulerInv, Serials, NEW t \in Threads,
           ReservePush(t) \/ ReservePop(t) \/ ReleasePush(t) \/ ReleasePop(t),
           UNCHANGED programVars
    PROVE  Still
<1>. USE DEF SchedulerInv, Kept
<1>. DEFINE i == mine[t]
<1>1. /\ UNCHANGED <<at, handle, submitted, mine, arg, ret>> /\ i \in Slots
      /\ mSlots \in SlotArrays /\ pc \in [Threads -> PCs]
  BY DEF programVars, ReservePush, ReservePop, ReleasePush, ReleasePop,
     SchedulerTypeOK, TypeOK, SlotArrays
<1>2. PICK word : mSlots' = mSlots \/ mSlots' = [mSlots EXCEPT ![i].mState = word]
  BY DEF ReservePush, ReservePop, ReleasePush, ReleasePop, Exchange
<1>3. /\ \A j \in Slots : mSlots'[j].mSerial = mSlots[j].mSerial /\ mSlots'[j].mData = mSlots[j].mData
      /\ \A j \in Slots \ {i} : mSlots'[j] = mSlots[j]
  BY <1>1, <1>2 DEF SlotArrays
<1>4. Empty \subseteq Empty'
  <2>1. pc' = [pc EXCEPT ![t] = pc'[t]]
    BY <1>1 DEF ReservePush, ReservePop, ReleasePush, ReleasePop, Goto
  <2>2. \A j \in Slots \ {i} : j \in Empty => j \in Empty'
    <3>1. pc[t] \in {"push_transfer", "pop_release"} => mine[t] = i
      OBVIOUS
    <3>2. \A u \in Threads \ {t} : pc'[u] = pc[u]
      BY <1>1, <2>1
    <3>. QED
      BY <1>1, <1>3, <3>2 DEF Empty
  <2>3. i \in Empty => i \in Empty'
    <3>1. CASE ReservePush(t)
      <4>1. CASE mSlots[i].mState = PRODUCER_READY
        <5>1. pc'[t] = "push_transfer"
          BY <1>1, <3>1, <4>1 DEF ReservePush, Goto
        <5>. QED
          BY <1>1, <5>1 DEF Empty
      <4>2. CASE mSlots[i].mState # PRODUCER_READY
        <5>1. mSlots' = mSlots /\ pc[t] = "push_reserve"
          BY <3>1, <4>2 DEF ReservePush, Exchange, Goto
        <5>. QED
          BY <1>1, <2>1, <4>2, <5>1 DEF Empty
      <4>. QED
        BY <4>1, <4>2
    <3>2. CASE ReservePop(t)
      <4>1. pc[t] = "pop_reserve"
        BY <3>2 DEF ReservePop, Goto
      <4>2. mSlots[i].mState = PRODUCER_READY => mSlots' = mSlots
        BY <3>2 DEF ReservePop, Exchange, PRODUCER_READY, CONSUMER_READY
      <4>. QED
        BY <1>1, <2>1, <4>1, <4>2 DEF Empty
    <3>3. CASE ReleasePush(t)
      <4>1. pc[t] = "push_release"
        BY <3>3 DEF ReleasePush, Goto
      <4>2. mSlots[i].mState = PRODUCER_READY => mSlots' = mSlots
        BY <3>3, ThreadsAssumption DEF ReleasePush, Exchange
      <4>. QED
        BY <1>1, <2>1, <4>1, <4>2 DEF Empty
    <3>4. CASE ReleasePop(t)
      <4>1. t \in Holding
        BY <3>4 DEF ReleasePop, Goto, Holding, PopPC
      <4>2. mSlots' = [mSlots EXCEPT ![i].mState = PRODUCER_READY]
        BY <3>4, <4>1, Reserved DEF ReleasePop, Exchange
      <4>3. mSlots'[i].mState = PRODUCER_READY
        BY <1>1, <4>2 DEF SlotArrays
      <4>. QED
        BY <1>1, <4>3 DEF Empty
    <3>. QED
      BY <3>1, <3>2, <3>3, <3>4
  <2>4. \A j \in Empty : j \in Slots
    BY DEF Empty
  <2>. QED
    BY <2>2, <2>3, <2>4
<1>5. Pushed \subseteq Pushed'
  BY <1>1, PushedGrows
<1>. QED
  BY <1>1, <1>3, <1>4, <1>5 DEF Still, Serials, Named

\* Thread t moves outside the ring, and drops its last result if it enters it.
LEMMA OutsideStill ==
    ASSUME SchedulerInv, Serials, NEW t \in Threads, pc[t] = "idle",
           UNCHANGED mSlots, submitted \subseteq submitted',
           \A u \in Threads \ {t} : pc'[u] = pc[u] /\ mine'[u] = mine[u] /\ arg'[u] = arg[u]
                                    /\ ret'[u] = ret[u] /\ at'[u] = at[u],
           handle' = handle,
           at'[t] = "push" => ret'[t] = NoResult /\ arg'[t] \notin submitted,
           at'[t] # "wait_owned"
    PROVE  Still
<1>1. Empty \subseteq Empty'
  BY DEF Empty
<1>2. Pushed \subseteq Pushed'
  BY PushedGrows
<1>. QED
  BY <1>1, <1>2 DEF Still, Serials, Named

\* A callback is invoked, and submits what was not submitted before.
LEMMA InvokeStill ==
    ASSUME SchedulerInv, Serials, NEW t \in Threads, NEW k \in Items, NEW to, Invoking(t, k, to)
    PROVE  Still
<1>1. pc[t] = "idle" /\ to # "wait_owned" /\ to # "push"
  BY DEF Invoking
<1>2. /\ UNCHANGED mSlots /\ submitted \subseteq submitted' /\ handle' = handle
      /\ \A u \in Threads \ {t} : pc'[u] = pc[u] /\ mine'[u] = mine[u] /\ arg'[u] = arg[u]
                                  /\ ret'[u] = ret[u] /\ at'[u] = at[u]
      /\ at'[t] = "push" => ret'[t] = NoResult /\ arg'[t] \notin submitted
      /\ at'[t] # "wait_owned"
  BY <1>1, InvokeEffect
<1>. QED
  BY <1>1, <1>2, OutsideStill

\* A task that is still in a place has not been run.
LEMMA HeldNotRun ==
    ASSUME SchedulerInv, NEW k \in Items, ~NoPlace(k)
    PROVE  k \in submitted /\ runs[k] = 0
  BY Alone DEF SchedulerInv, Kept, Accounted

\* The steps outside the ring that invoke no callback and submit nothing.
LEMMA QuietStill ==
    ASSUME SchedulerInv, Serials, UNCHANGED <<mSlots, pc, mine, arg, ret, handle, submitted>>,
           \A u \in Threads : at'[u] \in {"push", "wait_owned"} => at'[u] = at[u]
    PROVE  Still
<1>1. Empty \subseteq Empty'
  BY DEF Empty
<1>2. Pushed \subseteq Pushed'
  BY PushedGrows
<1>. QED
  BY <1>1, <1>2 DEF Still, Serials, Named

LEMMA ClientStill ==
    ASSUME SchedulerInv, Serials, NEW t \in Threads,
           \/ RunTaskRetry(t) \/ RunTaskSignal(t) \/ WaitInvoke(t) \/ WaitRelease(t)
           \/ WaitReserve(t) \/ \E k \in Roots : RunTask(t, k)
    PROVE  Still
<1>. USE DEF SchedulerInv, Kept
<1>1. /\ Main \in Threads /\ Clients \subseteq Threads /\ Workers \subseteq Threads
      /\ at \in [Threads -> Places] /\ after \in [Threads -> Places]
      /\ mSlots \in SlotArrays /\ DOMAIN ret = Threads /\ handle \in [Threads -> Handles]
      /\ DOMAIN pc = Threads /\ DOMAIN mine = Threads /\ DOMAIN arg = Threads
  BY SchedulerAssumption DEF SchedulerTypeOK, TypeOK, SlotArrays, Handles
<1>2. CASE RunTaskRetry(t)
  <2>1. /\ UNCHANGED <<mSlots, at, handle, submitted>> /\ at[t] = "push" /\ pc[t] = "idle"
        /\ ~ret[t].mValid /\ ret' = [ret EXCEPT ![t] = NoResult] /\ arg' = [arg EXCEPT ![t] = arg[t]]
        /\ pc' = [pc EXCEPT ![t] = "push_reserve"] /\ mine' = [mine EXCEPT ![t] = mine'[t]]
    BY <1>1, <1>2 DEF RunTaskRetry, From, AllocatePushSlot, Goto, programVars
  <2>2. \A u \in Threads \ {t} : pc'[u] = pc[u] /\ mine'[u] = mine[u] /\ ret'[u] = ret[u]
    BY <1>1, <2>1
  <2>3. arg' = arg /\ ret'[t] = NoResult
    BY <1>1, <2>1 DEF SchedulerTypeOK, TypeOK
  <2>4. Empty \subseteq Empty'
    BY <2>1, <2>2 DEF Empty
  <2>5. Pushed \subseteq Pushed'
    BY <2>1, <2>2, <2>3, PushedGrows
  <2>. QED
    BY <2>1, <2>2, <2>3, <2>4, <2>5 DEF Still, Serials, Named
<1>3. CASE RunTaskSignal(t)
  <2>1. /\ UNCHANGED <<mSlots, pc, mine, arg, ret, submitted>> /\ at[t] = "push" /\ ret[t].mValid
        /\ at' = [Released EXCEPT ![t] = after[t]]
        /\ handle' \in {handle, [handle EXCEPT ![t] = ret[t]]}
    BY <1>3 DEF RunTaskSignal, From, ringVars
  <2>2. /\ after[t] \notin {"push", "wait_owned"}
        /\ \A u \in Threads : at'[u] = IF u = t THEN after[t]
                                       ELSE IF at[u] = "waiting" THEN "loop" ELSE at[u]
    BY <1>1, <2>1 DEF Released, Steps
  <2>3. \A u \in Threads : \/ handle'[u] = handle[u]
                           \/ u = t /\ handle'[u] = ret[u]
    BY <1>1, <2>1
  <2>4. Empty \subseteq Empty'
    BY <2>1 DEF Empty
  <2>5. Pushed \subseteq Pushed'
    BY <2>1, <2>2, PushedGrows
  <2>6. \A u \in Threads :
           /\ at'[u] = "push" => at[u] = "push"
           /\ at'[u] = "wait_owned" => u # t /\ at[u] = "wait_owned"
    BY <2>2
  <2>. QED
    BY <2>1, <2>3, <2>4, <2>5, <2>6 DEF Still, Serials, Named
<1>4. CASE WaitInvoke(t)
  <2>. DEFINE slot == mSlots[handle[t].mSlot]
  <2>1. at[t] = "wait_owned" /\ pc[t] = "idle" /\ t \in InWait /\ t \notin Clearing
    BY <1>4 DEF WaitInvoke, From, InWait, Clearing, Steps, Waits
  <2>2. CASE slot.mSerial = handle[t].mSerial /\ slot.mData # Nil
    <3>1. handle[t].mSlot \in Slots /\ slot.mData \in Items
      BY <1>1, <2>2 DEF SlotArrays, Handles, Values
    <3>. PICK k \in Items : k = slot.mData
      BY <3>1
    <3>2. \A u \in Clearing : u \in InWait \ {t}
      BY <2>1 DEF Clearing
    <3>3. handle[t].mSlot \in SlotsOf(k)
      BY <2>1, <3>1, <3>2, Waited DEF SlotsOf
    <3>4. k \in submitted /\ runs[k] = 0
      BY <3>3, HeldNotRun DEF NoPlace
    <3>5. Invoking(t, k, "wait_clear")
      BY <1>4, <2>1, <2>2, <3>4 DEF WaitInvoke, Invoking
    <3>. QED
      BY <3>5, InvokeStill
  <2>3. CASE ~(slot.mSerial = handle[t].mSerial /\ slot.mData # Nil)
    <3>1. /\ UNCHANGED <<mSlots, pc, mine, arg, ret, handle, submitted>>
          /\ at' = [at EXCEPT ![t] = "wait_release"]
      BY <1>4, <2>3 DEF WaitInvoke, MoveTo, ringVars
    <3>2. \A u \in Threads : at'[u] \in {"push", "wait_owned"} => at'[u] = at[u]
      BY <1>1, <3>1
    <3>. QED
      BY <3>1, <3>2, QuietStill
  <2>. QED
    BY <2>2, <2>3
<1>5. CASE WaitRelease(t)
  <2>. DEFINE i == handle[t].mSlot
  <2>1. /\ UNCHANGED <<pc, mine, arg, ret, submitted>> /\ at[t] \in {"wait_clear", "wait_release"}
        /\ at' = [at EXCEPT ![t] = "idle"] /\ handle' = [handle EXCEPT ![t] = NoResult]
    BY <1>5 DEF WaitRelease, MoveTo
  <2>2. i \in Slots
    BY <1>1 DEF Handles
  <2>. DEFINE d == IF at[t] = "wait_clear" THEN Nil ELSE mSlots[i].mData
              w == IF mSlots[i].mState = t THEN CONSUMER_READY ELSE mSlots[i].mState
  <2>3. mSlots' = [mSlots EXCEPT ![i].mData = d, ![i].mState = w]
    BY <1>1, <1>5, <2>2 DEF WaitRelease, SlotArrays
  <2>4. d \in {mSlots[i].mData, Nil} /\ (mSlots[i].mState = PRODUCER_READY => w = PRODUCER_READY)
    BY <1>1, ThreadsAssumption
  <2>. HIDE DEF d, w
  <2>5. \A j \in Slots :
           /\ mSlots'[j].mSerial = mSlots[j].mSerial
           /\ mSlots'[j].mData \in {mSlots[j].mData, Nil}
           /\ mSlots[j].mState = PRODUCER_READY => mSlots'[j].mState = PRODUCER_READY
    BY <1>1, <2>2, <2>3, <2>4 DEF SlotArrays
  <2>6. Empty \subseteq Empty'
    BY <2>1, <2>5 DEF Empty
  <2>7. \A u \in Threads :
           /\ handle'[u] = IF u = t THEN NoResult ELSE handle[u]
           /\ at'[u] = IF u = t THEN "idle" ELSE at[u]
    BY <1>1, <2>1
  <2>8. Pushed \subseteq Pushed'
    BY <2>1, <2>7, PushedGrows
  <2>. QED
    BY <2>1, <2>5, <2>6, <2>7, <2>8 DEF Still, Serials, Named
<1>6. CASE WaitReserve(t)
  <2>. DEFINE i == handle[t].mSlot
  <2>1. /\ UNCHANGED <<pc, mine, arg, ret, submitted, handle>> /\ i \in Slots
        /\ at' = [at EXCEPT ![t] = "wait_owned"] /\ handle[t].mValid
        /\ mSlots[i].mState = CONSUMER_READY /\ mSlots' = [mSlots EXCEPT ![i].mState = t]
    BY <1>1, <1>6 DEF WaitReserve, MoveTo, Exchange, Handles
  <2>2. \A j \in Slots :
           /\ mSlots'[j].mSerial = mSlots[j].mSerial
           /\ mSlots'[j].mData = mSlots[j].mData
           /\ mSlots[j].mState = PRODUCER_READY => mSlots'[j].mState = PRODUCER_READY
    BY <1>1, <2>1 DEF SlotArrays, PRODUCER_READY, CONSUMER_READY
  <2>3. Empty \subseteq Empty'
    BY <2>1, <2>2 DEF Empty
  <2>4. \A u \in Threads : at'[u] = IF u = t THEN "wait_owned" ELSE at[u]
    BY <1>1, <2>1
  <2>5. Pushed \subseteq Pushed'
    BY <2>1, <2>4, PushedGrows
  <2>. QED
    BY <2>1, <2>2, <2>3, <2>4, <2>5 DEF Still, Serials, Named
<1>7. ASSUME NEW k \in Roots, RunTask(t, k) PROVE Still
  <2>1. /\ k \in Items /\ k \notin submitted /\ EnterRunTask(t, k, "idle") /\ handle' = handle
    BY <1>7, SchedulerAssumption DEF RunTask
  <2>2. /\ UNCHANGED mSlots /\ submitted' = submitted \cup {k} /\ pc[t] = "idle"
        /\ pc' = [pc EXCEPT ![t] = "push_reserve"]
        /\ mine' = [mine EXCEPT ![t] = mine'[t]] /\ arg' = [arg EXCEPT ![t] = k]
        /\ ret' = [ret EXCEPT ![t] = NoResult] /\ at' = [at EXCEPT ![t] = "push"]
    BY <2>1, EnterEffect
  <2>3. /\ \A u \in Threads \ {t} : pc'[u] = pc[u] /\ mine'[u] = mine[u] /\ arg'[u] = arg[u]
                                    /\ ret'[u] = ret[u] /\ at'[u] = at[u]
        /\ ret'[t] = NoResult /\ arg'[t] = k /\ at'[t] = "push"
    BY <1>1, <2>2
  <2>. QED
    BY <2>1, <2>2, <2>3, OutsideStill
<1>. QED
  BY <1>2, <1>3, <1>4, <1>5, <1>6, <1>7

LEMMA ConsumerStill ==
    ASSUME SchedulerInv, Serials,
           \/ \E w \in Workers : WorkerStep(w)
           \/ ShutdownBegin \/ ShutdownStep \/ UpdateSync \/ UpdateSyncInvoke
    PROVE  Still
<1>. USE DEF SchedulerInv, Kept
<1>1. /\ Main \in Threads /\ Workers \subseteq Threads /\ at \in [Threads -> Places]
      /\ ret \in [Threads -> Handles] /\ spilled \in Seq(Items)
      /\ DOMAIN pc = Threads /\ DOMAIN mine = Threads /\ DOMAIN arg = Threads
  BY SchedulerAssumption DEF SchedulerTypeOK, TypeOK, Handles
<1>2. ASSUME NEW t \in Threads, NEW to \in Places \ {"push", "wait_owned"}, MoveTo(t, to),
             UNCHANGED <<mSlots, pc, mine, arg, ret, handle, submitted>>
      PROVE  Still
  <2>1. \A u \in Threads : at'[u] \in {"push", "wait_owned"} => at'[u] = at[u]
    BY <1>1, <1>2 DEF MoveTo
  <2>. QED
    BY <1>2, <2>1, QuietStill
<1>3. ASSUME NEW t \in Threads, NEW to \in Pops, MoveTo(t, to), AllocatePopSlot(t),
             UNCHANGED <<handle, submitted>>
      PROVE  Still
  <2>1. /\ UNCHANGED mSlots /\ pc[t] = "idle"
        /\ pc' = [pc EXCEPT ![t] = "pop_reserve"] /\ mine' = [mine EXCEPT ![t] = mine'[t]]
        /\ arg' = [arg EXCEPT ![t] = Nil] /\ ret' = [ret EXCEPT ![t] = NoResult]
    BY <1>1, <1>3 DEF AllocatePopSlot, Goto
  <2>2. /\ \A u \in Threads \ {t} : pc'[u] = pc[u] /\ mine'[u] = mine[u] /\ arg'[u] = arg[u]
                                    /\ ret'[u] = ret[u] /\ at'[u] = at[u]
        /\ at'[t] \notin {"push", "wait_owned"}
    BY <1>1, <1>3, <2>1 DEF MoveTo, Pops
  <2>. QED
    BY <1>3, <2>1, <2>2, OutsideStill
<1>4. ASSUME NEW t \in Threads, NEW to \in {"size", "idle"}, at[t] \in Pops, pc[t] = "idle",
             ret[t].mValid, ret[t].mData # Nil, Invoke(t, ret[t].mData, to), UNCHANGED handle
      PROVE  Still
  <2>. PICK k \in Items : k = ret[t].mData
    BY <1>1, <1>4 DEF Handles, Values
  <2>1. t \in PoppersOf(k)
    BY <1>4 DEF PoppersOf
  <2>2. k \in submitted /\ runs[k] = 0
    BY <2>1, HeldNotRun DEF NoPlace
  <2>3. Invoking(t, k, to)
    BY <1>4, <2>2 DEF Invoking
  <2>. QED
    BY <2>3, InvokeStill
<1>5. ASSUME NEW w \in Workers, WorkerStep(w) PROVE Still
  <2>1. CASE WorkerLoop(w) \/ WorkerCheckSize(w) \/ WorkerWait(w)
    <3>1. /\ \E to \in {"update", "ended", "fence", "loop", "waiting"} : MoveTo(w, to)
          /\ UNCHANGED <<mSlots, pc, mine, arg, ret, handle, submitted>>
      BY <2>1 DEF WorkerLoop, WorkerCheckSize, WorkerWait, ringVars
    <3>. QED
      BY <1>1, <1>2, <3>1 DEF Places
  <2>2. CASE WorkerTryPop(w)
    BY <1>1, <1>3, <2>2 DEF WorkerTryPop, Pops
  <2>3. CASE WorkerInvoke(w) /\ ret[w].mValid /\ ret[w].mData # Nil
    BY <1>1, <1>4, <2>3 DEF WorkerInvoke, From, Pops
  <2>4. CASE WorkerInvoke(w) /\ ~(ret[w].mValid /\ ret[w].mData # Nil)
    BY <1>1, <1>2, <2>4 DEF WorkerInvoke, Places, ringVars
  <2>. QED
    BY <1>5, <2>1, <2>2, <2>3, <2>4 DEF WorkerStep
<1>6. CASE ShutdownBegin \/ ShutdownJoin \/ ShutdownEnd \/ ShutdownCollect
  <2>1. /\ \E to \in {"open_fence", "drain", "closed"} : MoveTo(Main, to)
        /\ UNCHANGED <<mSlots, pc, mine, arg, ret, handle, submitted>>
    BY <1>6 DEF ShutdownBegin, ShutdownJoin, ShutdownEnd, ShutdownCollect, ringVars
  <2>. QED
    BY <1>1, <1>2, <2>1 DEF Places
<1>7. CASE ShutdownOpenFence
  <2>1. /\ UNCHANGED <<mSlots, pc, mine, arg, ret, handle, submitted>>
        /\ at' = [Released EXCEPT ![Main] = "join"]
    BY <1>7 DEF ShutdownOpenFence, ringVars
  <2>2. \A u \in Threads : at'[u] = IF u = Main THEN "join"
                                    ELSE IF at[u] = "waiting" THEN "loop" ELSE at[u]
    BY <1>1, <2>1 DEF Released
  <2>. QED
    BY <2>1, <2>2, QuietStill
<1>8. CASE ShutdownDrain
  <2>1. CASE mSize > 0
    BY <1>1, <1>3, <1>8, <2>1 DEF ShutdownDrain, Pops
  <2>2. CASE ~(mSize > 0)
    BY <1>1, <1>2, <1>8, <2>2 DEF ShutdownDrain, Places, ringVars
  <2>. QED
    BY <2>1, <2>2
<1>9. CASE ShutdownSpill
  <2>1. /\ spilled # <<>> /\ at[Main] = "spill" /\ pc[Main] = "idle" /\ handle' = handle
        /\ Invoke(Main, Head(spilled), "spill")
    BY <1>9 DEF ShutdownSpill, From
  <2>5. spilled \in Seq(Items) /\ spilled # <<>>
    BY <1>1, <2>1
  <2>. PICK k \in Items : k = Head(spilled)
    BY <2>5
  <2>2. 1 \in SpilledOf(k)
    BY <2>5 DEF SpilledOf
  <2>3. k \in submitted /\ runs[k] = 0
    BY <2>2, HeldNotRun DEF NoPlace
  <2>4. Invoking(Main, k, "spill")
    BY <2>1, <2>3 DEF Invoking
  <2>. QED
    BY <1>1, <2>4, InvokeStill
<1>10. CASE UpdateSync
  BY <1>1, <1>3, <1>10 DEF UpdateSync, Pops
<1>11. CASE UpdateSyncInvoke
  <2>1. CASE ret[Main].mValid /\ ret[Main].mData # Nil
    BY <1>1, <1>4, <1>11, <2>1 DEF UpdateSyncInvoke, From, Pops
  <2>2. CASE ~(ret[Main].mValid /\ ret[Main].mData # Nil)
    BY <1>1, <1>2, <1>11, <2>2 DEF UpdateSyncInvoke, Places, ringVars
  <2>. QED
    BY <2>1, <2>2
<1>. QED
  BY <1>5, <1>6, <1>7, <1>8, <1>9, <1>10, <1>11 DEF ShutdownStep

LEMMA SerialsNext ==
    ASSUME ManySerials, SchedulerInv, SchedulerInv', Serials, [SchedulerNext]_vars
    PROVE  Serials'
<1>. USE DEF SchedulerInv
<1>1. ASSUME NEW t \in Threads, InRing(t) PROVE Serials'
  <2>1. CASE TransferPush(t) \/ TransferPop(t)
    BY <1>1, <2>1, TransferSerials DEF InRing
  <2>2. CASE ReservePush(t) \/ ReservePop(t) \/ ReleasePush(t) \/ ReleasePop(t)
    BY <1>1, <2>2, RingStill, StillSerials DEF InRing
  <2>. QED
    BY <1>1, <2>1, <2>2 DEF InRing, RingStep
<1>2. CASE UNCHANGED vars
  BY <1>2, QuietStill, StillSerials DEF vars, ringVars, programVars
<1>3. CASE Still
  BY <1>3, StillSerials
<1>. QED
  BY <1>1, <1>2, <1>3, ClientStill, ConsumerStill DEF SchedulerNext, CallerStep

LEMMA SerialsInit == SchedulerInit /\ ManySerials => Serials
<1>. SUFFICES ASSUME SchedulerInit, ManySerials PROVE Serials
  OBVIOUS
<1>1. /\ \A i \in Slots : mSlots[i].mState = PRODUCER_READY /\ mSlots[i].mSerial = 0
      /\ \A t \in Threads : handle[t] = NoResult /\ at[t] \notin {"push", "wait_owned"}
  BY DEF SchedulerInit, Init
<1>2. SerialsBounded
  <2>1. Cardinality(Pushed) \in Nat
    BY InitInv, PushedCount DEF SchedulerInv
  <2>. QED
    BY <1>1, <2>1 DEF SerialsBounded, Empty
<1>. QED
  BY <1>1, <1>2, NoResultType DEF Serials, Named, Names

\* As long as the serial cannot come round, because there are not that many
\* tasks, TaskHandle::Wait runs the task its handle is for or none, and it and
\* the ring never reserve one slot twice.
THEOREM HandlesNameTheirTasks ==
    ASSUME IsFiniteSet(Items), 2 * Cardinality(Items) < INVALID_SERIAL
    PROVE  SchedulerSpec => []HandleNamesTask
<1>1. ManySerials
  BY DEF ManySerials
<1>2. SchedulerInv /\ SchedulerInv' /\ Serials /\ [SchedulerNext]_vars => Serials'
  BY <1>1, SerialsNext
<1>3. SchedulerInit => Serials
  BY <1>1, SerialsInit
<1>4. SchedulerInv /\ Serials => HandleNamesTask
  <2>1. ASSUME SchedulerInv, Serials, NEW t \in Clients, at[t] = "wait_owned",
               mSlots[handle[t].mSlot].mSerial = handle[t].mSerial
        PROVE  mSlots[handle[t].mSlot].mData \in {handle[t].mData, Nil}
    BY <2>1, SchedulerAssumption DEF Serials, Named, Names
  <2>. QED
    BY <2>1 DEF HandleNamesTask, SchedulerInv, Kept
<1>. QED
  BY <1>2, <1>3, <1>4, SchedulerInvariance, PTL DEF SchedulerSpec

=============================================================================
