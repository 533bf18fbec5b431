------------------------ MODULE ConcurrentRingBuffer ------------------------
(***************************************************************************)
(* The lock-free multi-producer multi-consumer ring of                     *)
(* Core/Concurrent/ConcurrentRingBuffer.h.  Every slot carries a state     *)
(* word: ready for a producer, ready for a consumer, or the id of the      *)
(* thread that reserved it.  An operation draws a ticket from an atomic    *)
(* counter, reserves the slot that ticket names by compare-exchange,       *)
(* transfers the data and releases the slot by a second compare-exchange.  *)
(*                                                                         *)
(* One action per access other threads can observe.  The data, the serial  *)
(* and the result are read and written under the reservation, so they are  *)
(* one step with the increment or decrement of mSize, the only word of it  *)
(* that is read without the reservation.                                   *)
(***************************************************************************)
EXTENDS Integers, FiniteSets

CONSTANTS
    Threads,        \* thread ids; distinct from the two ready states
    Items,          \* the values callers push
    Nil,            \* WorkTraits::Default(), the value of an empty slot
    Size,           \* mSlots.size()
    IdModulus,      \* 2^32: mPushId and mPopId are Atomic32
    WordModulus,    \* 2^64: SizeT, to which a signed id is extended
    SerialModulus   \* 2^32: mSerial is Atomic32; INVALID32 is the last value

PRODUCER_READY == "producer_ready"
CONSUMER_READY == "consumer_ready"

ASSUME ThreadsAssumption == /\ PRODUCER_READY \notin Threads
                            /\ CONSUMER_READY \notin Threads
                            /\ IsFiniteSet(Threads)
ASSUME ItemsAssumption == Nil \notin Items
ASSUME SizeAssumption == Size \in Nat \ {0}
ASSUME WidthAssumption == /\ IdModulus \in Nat \ {0}
                          /\ WordModulus \in Nat
                          /\ WordModulus >= IdModulus
                          /\ SerialModulus \in Nat
                          /\ SerialModulus > 2

VARIABLES
    mSlots,     \* index -> [mState, mData, mSerial]
    mPushId,
    mPopId,
    mSize,
    pc,         \* where a thread is in TryPush or TryPop
    mine,       \* the slot its ticket names
    arg,        \* the data a push transfers
    ret         \* the WorkResult of its last call

ringVars == <<mSlots, mPushId, mPopId, mSize, pc, mine, arg, ret>>

Slots == 0..(Size - 1)
INVALID_SERIAL == SerialModulus - 1
Values == Items \cup {Nil}

Result(valid, slot, serial, data) ==
    [mValid |-> valid, mSlot |-> slot, mSerial |-> serial, mData |-> data]

\* ToResultTypeDefault() with mValid false.
NoResult == Result(FALSE, 0, INVALID_SERIAL, Nil)

Init ==
    /\ mSlots = [i \in Slots |->
                    [mState |-> PRODUCER_READY, mData |-> Nil, mSerial |-> 0]]
    /\ mPushId = 0
    /\ mPopId = 0
    /\ mSize = 0
    /\ pc = [t \in Threads |-> "idle"]
    /\ mine = [t \in Threads |-> 0]
    /\ arg = [t \in Threads |-> Nil]
    /\ ret = [t \in Threads |-> NoResult]

-----------------------------------------------------------------------------
NextId(id) == (id + 1) % IdModulus

\* Fault: the remainder of the signed id, negative once the counter wraps.
IndexSigned(id) ==
    IF 2 * id < IdModulus THEN id % Size ELSE -((IdModulus - id) % Size)

\* The id is a signed 32-bit integer converted to SizeT before the remainder.
Index(id) ==
    (IF 2 * id < IdModulus THEN id ELSE WordModulus - IdModulus + id) % Size

\* Fault: a one-bit serial.
NextSerialNarrow(s) == (s + 1) % 2

\* The increment that skips INVALID32.
NextSerial(s) == IF s + 1 >= INVALID_SERIAL THEN 0 ELSE s + 1

\* AtomicCompareExchange on the state word of slot i.
Exchange(i, from, to) ==
    mSlots' = IF mSlots[i].mState = from
                THEN [mSlots EXCEPT ![i].mState = to]
                ELSE mSlots

Goto(t, from, to) == pc[t] = from /\ pc' = [pc EXCEPT ![t] = to]

(***************************************************************************)
(* TryPush                                                                 *)
(***************************************************************************)
AllocatePushSlot(t, v) ==
    /\ Goto(t, "idle", "push_reserve")
    /\ mPushId' = NextId(mPushId)
    /\ mine' = [mine EXCEPT ![t] = Index(mPushId')]
    /\ arg' = [arg EXCEPT ![t] = v]
    /\ ret' = [ret EXCEPT ![t] = NoResult]
    /\ UNCHANGED <<mSlots, mPopId, mSize>>

\* Fault: the result of the compare-exchange is tested for "not full".
ReservePushUnlessFull(t) ==
    /\ IF mSlots[mine[t]].mState # CONSUMER_READY
         THEN Goto(t, "push_reserve", "push_transfer")
         ELSE Goto(t, "push_reserve", "idle")
    /\ Exchange(mine[t], PRODUCER_READY, t)
    /\ UNCHANGED <<mPushId, mPopId, mSize, mine, arg, ret>>

ReservePush(t) ==
    /\ IF mSlots[mine[t]].mState = PRODUCER_READY
         THEN Goto(t, "push_reserve", "push_transfer")
         ELSE Goto(t, "push_reserve", "idle")
    /\ Exchange(mine[t], PRODUCER_READY, t)
    /\ UNCHANGED <<mPushId, mPopId, mSize, mine, arg, ret>>

TransferPush(t) ==
    LET s == NextSerial(mSlots[mine[t]].mSerial) IN
    /\ Goto(t, "push_transfer", "push_release")
    /\ mSlots' = [mSlots EXCEPT ![mine[t]].mData = arg[t],
                                ![mine[t]].mSerial = s]
    /\ mSize' = mSize + 1
    /\ ret' = [ret EXCEPT ![t] = Result(TRUE, mine[t], s, arg[t])]
    /\ UNCHANGED <<mPushId, mPopId, mine, arg>>

ReleasePush(t) ==
    /\ Goto(t, "push_release", "idle")
    /\ Exchange(mine[t], t, CONSUMER_READY)
    /\ UNCHANGED <<mPushId, mPopId, mSize, mine, arg, ret>>

(***************************************************************************)
(* TryPop                                                                  *)
(***************************************************************************)
AllocatePopSlot(t) ==
    /\ Goto(t, "idle", "pop_reserve")
    /\ mPopId' = NextId(mPopId)
    /\ mine' = [mine EXCEPT ![t] = Index(mPopId')]
    /\ arg' = [arg EXCEPT ![t] = Nil]
    /\ ret' = [ret EXCEPT ![t] = NoResult]
    /\ UNCHANGED <<mSlots, mPushId, mSize>>

ReservePop(t) ==
    /\ IF mSlots[mine[t]].mState = CONSUMER_READY
         THEN Goto(t, "pop_reserve", "pop_transfer")
         ELSE Goto(t, "pop_reserve", "idle")
    /\ Exchange(mine[t], CONSUMER_READY, t)
    /\ UNCHANGED <<mPushId, mPopId, mSize, mine, arg, ret>>

\* Fault: the size is left to the consumer of the result.
TransferPopKeepSize(t) ==
    LET slot == mSlots[mine[t]]
        s == NextSerial(slot.mSerial)
    IN
    /\ Goto(t, "pop_transfer", "pop_release")
    /\ ret' = [ret EXCEPT ![t] =
                 Result(TRUE, mine[t], slot.mSerial, slot.mData)]
    /\ mSlots' = [mSlots EXCEPT ![mine[t]].mData = Nil,
                                ![mine[t]].mSerial = s]
    /\ UNCHANGED <<mPushId, mPopId, mSize, mine, arg>>

\* Fault: the result is built after the slot is reset.
TransferPopAfterReset(t) ==
    LET slot == mSlots[mine[t]]
        s == NextSerial(slot.mSerial)
    IN
    /\ Goto(t, "pop_transfer", "pop_release")
    /\ ret' = [ret EXCEPT ![t] = Result(TRUE, mine[t], s, Nil)]
    /\ mSlots' = [mSlots EXCEPT ![mine[t]].mData = Nil,
                                ![mine[t]].mSerial = s]
    /\ mSize' = mSize - 1
    /\ UNCHANGED <<mPushId, mPopId, mine, arg>>

\* The result holds the data and the serial from before the reset.
TransferPop(t) ==
    LET slot == mSlots[mine[t]]
        s == NextSerial(slot.mSerial)
    IN
    /\ Goto(t, "pop_transfer", "pop_release")
    /\ ret' = [ret EXCEPT ![t] =
                 Result(TRUE, mine[t], slot.mSerial, slot.mData)]
    /\ mSlots' = [mSlots EXCEPT ![mine[t]].mData = Nil,
                                ![mine[t]].mSerial = s]
    /\ mSize' = mSize - 1
    /\ UNCHANGED <<mPushId, mPopId, mine, arg>>

\* Fault: the slot goes back to the consumers.
ReleasePopToConsumer(t) ==
    /\ Goto(t, "pop_release", "idle")
    /\ Exchange(mine[t], t, CONSUMER_READY)
    /\ UNCHANGED <<mPushId, mPopId, mSize, mine, arg, ret>>

ReleasePop(t) ==
    /\ Goto(t, "pop_release", "idle")
    /\ Exchange(mine[t], t, PRODUCER_READY)
    /\ UNCHANGED <<mPushId, mPopId, mSize, mine, arg, ret>>

\* A step of thread t inside TryPush or TryPop, after its ticket is drawn.
RingStep(t) ==
    \/ ReservePush(t) \/ TransferPush(t) \/ ReleasePush(t)
    \/ ReservePop(t) \/ TransferPop(t) \/ ReleasePop(t)

Next == \E t \in Threads :
    \/ \E v \in Items : AllocatePushSlot(t, v)
    \/ AllocatePopSlot(t)
    \/ RingStep(t)

Spec == Init /\ [][Next]_ringVars

-----------------------------------------------------------------------------
PushPC == {"push_transfer", "push_release"}
PopPC == {"pop_transfer", "pop_release"}
PCs == {"idle", "push_reserve", "pop_reserve"} \cup PushPC \cup PopPC

Holding == {t \in Threads : pc[t] \in PushPC \cup PopPC}

\* The slots whose item mSize counts.
Counted == {i \in Slots :
    \/ mSlots[i].mState = CONSUMER_READY
    \/ \E t \in Threads : /\ pc[t] \in {"push_release", "pop_transfer"}
                          /\ mine[t] = i}

\* Every variable has its type: the state word of a slot is one of the two
\* ready values or a thread id, as the comments of TryPush assume.
TypeOK ==
    /\ mSlots \in [Slots -> [mState : {PRODUCER_READY, CONSUMER_READY} \cup Threads,
                             mData : Values,
                             mSerial : 0..(SerialModulus - 2)]]
    /\ mPushId \in 0..(IdModulus - 1)
    /\ mPopId \in 0..(IdModulus - 1)
    /\ mSize \in Int
    /\ pc \in [Threads -> PCs]
    /\ mine \in [Threads -> Slots]
    /\ arg \in [Threads -> Values]
    /\ ret \in [Threads -> [mValid : BOOLEAN, mSlot : Slots,
                            mSerial : 0..INVALID_SERIAL, mData : Values]]

\* A slot is touched only under a reservation that one thread holds, and the
\* releasing compare-exchange finds that thread's id (the AssertEx(result ==
\* reserve) of TryPush and TryPop never fires), however tickets collide.
Ownership ==
    \A i \in Slots, t \in Threads :
        mSlots[i].mState = t <=> t \in Holding /\ mine[t] = i

\* mSize, which TaskWorker and TaskScheduler read without any lock, counts
\* exactly the filled slots: an item that a consumer could take is never
\* missed and the counter stays between zero and the capacity.
SizeAccounting == mSize = Cardinality(Counted) /\ mSize \in 0..Size

\* A slot left for a producer is empty and one left for a consumer is full, so
\* a reserved slot never overwrites an item and a pop never returns nothing.
ReadyMeansFilled ==
    \A i \in Slots :
        /\ mSlots[i].mState = PRODUCER_READY => mSlots[i].mData = Nil
        /\ mSlots[i].mState = CONSUMER_READY => mSlots[i].mData \in Items

-----------------------------------------------------------------------------
(***************************************************************************)
(* The ring implements a bounded bag.  A push takes effect when it         *)
(* releases its slot to the consumers, a pop when it reserves one.         *)
(***************************************************************************)
\* The items in the bag.
Contents == [i \in Slots |->
    IF mSlots[i].mState = CONSUMER_READY THEN mSlots[i].mData ELSE Nil]

CallAt(place) == CASE place = "idle" -> "none"
                   [] place \in {"push_reserve"} \cup PushPC -> "push"
                   [] place \in {"pop_reserve"} \cup PopPC -> "pop"

Calls == [t \in Threads |-> CallAt(pc[t])]

\* Before that step of its operation, or when it never got past the first.
Pending(t) == pc[t] \in {"push_reserve", "push_transfer", "push_release", "pop_reserve"}

Effects == [t \in Threads |-> ~Pending(t) /\ (pc[t] = "pop_transfer" \/ ret[t].mValid)]

Transferred == [t \in Threads |->
    CASE pc[t] = "pop_transfer" -> mSlots[mine[t]].mData
      [] arg[t] # Nil -> arg[t]
      [] OTHER -> ret[t].mData]

Bag == INSTANCE ConcurrentBag WITH
    Places <- Slots,
    bag <- Contents,
    call <- Calls,
    taken <- Effects,
    value <- Transferred

\* Whatever the interleaving, the results callers see are those of a bag of at
\* most Size items whose operations happen one at a time: no item is lost,
\* invented, or popped twice.
ImplementsBag == Bag!BagSpec

=============================================================================
