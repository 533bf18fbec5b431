---------------------------- MODULE TaskScheduler ----------------------------
(***************************************************************************)
(* TaskScheduler, TaskWorker, TaskHandle and the ThreadFence they share    *)
(* (Core/Concurrent, Core/Platform/ThreadFence.cpp), over the ring of      *)
(* ConcurrentRingBuffer.  Workers loop in BackgroundUpdate, clients call   *)
(* RunTask and TaskHandle::Wait, the main thread calls Shutdown or, on a   *)
(* synchronous scheduler, RunTask and UpdateSync.                          *)
(*                                                                         *)
(* The items of the ring are tasks.  The callback of a task may itself     *)
(* call RunTask: Spawns names the task it submits.                         *)
(***************************************************************************)
EXTENDS ConcurrentRingBuffer, Sequences

CONSTANTS
    Workers,    \* mWorkerThreads
    Clients,    \* threads that submit tasks and wait for them
    Main,       \* the thread that owns the scheduler
    Modes,      \* the flags Initialize may be given: TRUE is asynchronous
    Roots,      \* the tasks submitted by clients, the others are spawned
    Spawns      \* task -> the task its callback submits, or Nil

ASSUME SchedulerAssumption ==
    /\ Threads = Workers \cup Clients \cup {Main}
    /\ Modes \subseteq BOOLEAN
    /\ Roots \subseteq Items
    /\ Spawns \in [Items -> Values]

\* An item stands for one submission: no task is submitted by two, or by a
\* client and a callback.
ASSUME TasksAssumption ==
    \A j, k \in Items : Spawns[j] \in Items =>
        Spawns[j] \notin Roots /\ (Spawns[j] = Spawns[k] => j = k)

VARIABLES
    mRunning,   \* TaskScheduler::mRunning
    mAsync,     \* TaskScheduler::mAsync
    working,    \* TaskWorker::mRunning of each worker
    open,       \* whether the event of mDispatcherFence is signaled
    at,         \* where a thread is outside the ring's operations
    after,      \* where it goes when the callback or RunTask it is in returns
    handle,     \* the TaskHandle of a client's last RunTask
    spilled,    \* spilledTasks of Shutdown
    submitted,  \* history: the tasks given to RunTask
    runs        \* history: how often the callback of a task was invoked

programVars == <<mRunning, mAsync, working, open, at, after, handle, spilled, submitted, runs>>
vars == <<ringVars, programVars>>

\* The state Initialize(options, async) leaves.
SchedulerInit ==
    /\ Init
    /\ mRunning = TRUE
    /\ mAsync \in Modes
    /\ working = [w \in Workers |-> TRUE]
    /\ open = FALSE
    /\ at = [t \in Threads |->
                IF t \in Workers THEN (IF mAsync THEN "loop" ELSE "ended") ELSE "idle"]
    /\ after = [t \in Threads |-> "idle"]
    /\ handle = [t \in Threads |-> NoResult]
    /\ spilled = <<>>
    /\ submitted = {}
    /\ runs = [k \in Items |-> 0]

-----------------------------------------------------------------------------
MoveTo(t, to) == at' = [at EXCEPT ![t] = to]
From(t, place) == at[t] = place /\ pc[t] = "idle"

\* A thread enters RunTask(k) and tries its first slot.
EnterRunTask(t, k, to) ==
    /\ submitted' = submitted \cup {k}
    /\ AllocatePushSlot(t, k)
    /\ MoveTo(t, "push")
    /\ after' = [after EXCEPT ![t] = to]

\* mCallback.Invoke(mParam), after which the thread continues at "to".
Invoke(t, k, to) ==
    /\ runs' = [runs EXCEPT ![k] = @ + 1]
    /\ IF Spawns[k] = Nil
         THEN MoveTo(t, to) /\ UNCHANGED <<ringVars, submitted, after>>
         ELSE EnterRunTask(t, Spawns[k], to)

\* The threads blocked on the fence resume.
Released == [t \in Threads |-> IF at[t] = "waiting" THEN "loop" ELSE at[t]]

(***************************************************************************)
(* RunTask: TryPush until it succeeds, then pulse the fence.               *)
(***************************************************************************)
RunTask(t, k) ==
    /\ t \in Clients \/ (t = Main /\ ~mAsync)
    /\ From(t, "idle") /\ mRunning
    /\ k \in Roots \ submitted
    /\ EnterRunTask(t, k, "idle")
    /\ UNCHANGED <<mRunning, mAsync, working, open, handle, spilled, runs>>

\* Fault: a failed TryPush is not repeated.
RunTaskGiveUp(t) ==
    /\ From(t, "push") /\ ~ret[t].mValid
    /\ MoveTo(t, after[t])
    /\ UNCHANGED <<ringVars, mRunning, mAsync, working, open, after, handle, spilled, submitted, runs>>

RunTaskRetry(t) ==
    /\ From(t, "push") /\ ~ret[t].mValid
    /\ AllocatePushSlot(t, arg[t])
    /\ UNCHANGED programVars

\* PulseEvent: every waiter resumes and the event is left nonsignaled.  The
\* handle of a RunTask called by a callback is a local variable of that callback.
RunTaskSignal(t) ==
    /\ From(t, "push") /\ ret[t].mValid
    /\ open' = FALSE
    /\ at' = [Released EXCEPT ![t] = after[t]]
    /\ handle' = IF t \in Clients /\ after[t] = "idle"
                    THEN [handle EXCEPT ![t] = ret[t]]
                    ELSE handle
    /\ UNCHANGED <<ringVars, mRunning, mAsync, working, after, spilled, submitted, runs>>

(***************************************************************************)
(* TaskHandle::Wait: runs the task on the calling thread when it is still  *)
(* in its slot, and leaves the slot to be popped by a consumer.            *)
(***************************************************************************)
WaitReserve(t) ==
    /\ t \in Clients /\ From(t, "idle") /\ handle[t].mValid
    /\ mSlots[handle[t].mSlot].mState = CONSUMER_READY
    /\ Exchange(handle[t].mSlot, CONSUMER_READY, t)
    /\ MoveTo(t, "wait_owned")
    /\ UNCHANGED <<mPushId, mPopId, mSize, pc, mine, arg, ret>>
    /\ UNCHANGED <<mRunning, mAsync, working, open, after, handle, spilled, submitted, runs>>

WaitInvoke(t) ==
    LET slot == mSlots[handle[t].mSlot] IN
    /\ From(t, "wait_owned")
    /\ IF slot.mSerial = handle[t].mSerial /\ slot.mData # Nil
         THEN Invoke(t, slot.mData, "wait_clear")
         ELSE MoveTo(t, "wait_release") /\ UNCHANGED <<ringVars, submitted, after, runs>>
    /\ UNCHANGED <<mRunning, mAsync, working, open, handle, spilled>>

\* Fault: the callback stays in the slot.
WaitReleaseKeep(t) ==
    /\ pc[t] = "idle" /\ at[t] \in {"wait_clear", "wait_release"}
    /\ Exchange(handle[t].mSlot, t, CONSUMER_READY)
    /\ MoveTo(t, "idle")
    /\ handle' = [handle EXCEPT ![t] = NoResult]
    /\ UNCHANGED <<mPushId, mPopId, mSize, pc, mine, arg, ret>>
    /\ UNCHANGED <<mRunning, mAsync, working, open, after, spilled, submitted, runs>>

\* Only an invoked callback is cleared.  A caller waits once for a task (as
\* Promise::Wait and Task<T>::Wait do) and then drops the handle.
WaitRelease(t) ==
    LET i == handle[t].mSlot IN
    /\ pc[t] = "idle" /\ at[t] \in {"wait_clear", "wait_release"}
    /\ mSlots' = [mSlots EXCEPT
                    ![i].mData = IF at[t] = "wait_clear" THEN Nil ELSE @,
                    ![i].mState = IF @ = t THEN CONSUMER_READY ELSE @]
    /\ MoveTo(t, "idle")
    /\ handle' = [handle EXCEPT ![t] = NoResult]
    /\ UNCHANGED <<mPushId, mPopId, mSize, pc, mine, arg, ret>>
    /\ UNCHANGED <<mRunning, mAsync, working, open, after, spilled, submitted, runs>>

(***************************************************************************)
(* TaskWorker::BackgroundUpdate                                            *)
(***************************************************************************)
WorkerLoop(w) ==
    /\ From(w, "loop")
    /\ MoveTo(w, IF working[w] THEN "update" ELSE "ended")
    /\ UNCHANGED ringVars
    /\ UNCHANGED <<mRunning, mAsync, working, open, after, handle, spilled, submitted, runs>>

WorkerTryPop(w) ==
    /\ From(w, "update")
    /\ AllocatePopSlot(w)
    /\ MoveTo(w, "popped")
    /\ UNCHANGED <<mRunning, mAsync, working, open, after, handle, spilled, submitted, runs>>

\* A task completed by TaskHandle::Wait is popped with an empty callback.
WorkerInvoke(w) ==
    /\ w \in Workers /\ From(w, "popped")
    /\ IF ret[w].mValid /\ ret[w].mData # Nil
         THEN Invoke(w, ret[w].mData, "size")
         ELSE MoveTo(w, "size") /\ UNCHANGED <<ringVars, submitted, after, runs>>
    /\ UNCHANGED <<mRunning, mAsync, working, open, handle, spilled>>

WorkerCheckSize(w) ==
    /\ From(w, "size")
    /\ MoveTo(w, IF mSize = 0 THEN "fence" ELSE "loop")
    /\ UNCHANGED ringVars
    /\ UNCHANGED <<mRunning, mAsync, working, open, after, handle, spilled, submitted, runs>>

WorkerWait(w) ==
    /\ From(w, "fence")
    /\ MoveTo(w, IF open THEN "loop" ELSE "waiting")
    /\ UNCHANGED ringVars
    /\ UNCHANGED <<mRunning, mAsync, working, open, after, handle, spilled, submitted, runs>>

(***************************************************************************)
(* The owner of the scheduler.  The workers' flags are cleared one by one, *)
(* but each is read by its own worker, which then only ends.               *)
(***************************************************************************)
ClientsIdle == \A t \in Clients : at[t] \notin {"push"}

ShutdownBegin ==
    /\ From(Main, "idle") /\ mRunning /\ ClientsIdle
    /\ mRunning' = FALSE
    /\ working' = [w \in Workers |-> FALSE]
    /\ MoveTo(Main, "open_fence")
    /\ UNCHANGED <<ringVars, mAsync, open, after, handle, spilled, submitted, runs>>

\* Fault: the waiting workers are released but the fence is not left open.
ShutdownPulseFence ==
    /\ From(Main, "open_fence")
    /\ at' = [Released EXCEPT ![Main] = "join"]
    /\ UNCHANGED <<ringVars, mRunning, mAsync, working, open, after, handle, spilled, submitted, runs>>

ShutdownOpenFence ==
    /\ From(Main, "open_fence")
    /\ open' = TRUE
    /\ at' = [Released EXCEPT ![Main] = "join"]
    /\ UNCHANGED <<ringVars, mRunning, mAsync, working, after, handle, spilled, submitted, runs>>

ShutdownJoin ==
    /\ From(Main, "join")
    /\ \A w \in Workers : at[w] = "ended"
    /\ MoveTo(Main, "drain")
    /\ UNCHANGED <<ringVars, mRunning, mAsync, working, open, after, handle, spilled, submitted, runs>>

\* Fault: the queue is not drained.
ShutdownNoDrain ==
    /\ From(Main, "drain")
    /\ MoveTo(Main, "spill")
    /\ UNCHANGED ringVars
    /\ UNCHANGED <<mRunning, mAsync, working, open, after, handle, spilled, submitted, runs>>

ShutdownDrain ==
    /\ From(Main, "drain")
    /\ IF mSize > 0
         THEN AllocatePopSlot(Main) /\ MoveTo(Main, "drained")
         ELSE MoveTo(Main, "spill") /\ UNCHANGED ringVars
    /\ UNCHANGED <<mRunning, mAsync, working, open, after, handle, spilled, submitted, runs>>

\* Fault: the drain ends at the first TryPop that fails.
ShutdownCollectOrStop ==
    /\ From(Main, "drained")
    /\ spilled' = IF ret[Main].mValid /\ ret[Main].mData # Nil
                    THEN Append(spilled, ret[Main].mData)
                    ELSE spilled
    /\ MoveTo(Main, IF ret[Main].mValid THEN "drain" ELSE "spill")
    /\ UNCHANGED <<ringVars, mRunning, mAsync, working, open, after, handle, submitted, runs>>

ShutdownCollect ==
    /\ From(Main, "drained")
    /\ spilled' = IF ret[Main].mValid /\ ret[Main].mData # Nil
                    THEN Append(spilled, ret[Main].mData)
                    ELSE spilled
    /\ MoveTo(Main, "drain")
    /\ UNCHANGED <<ringVars, mRunning, mAsync, working, open, after, handle, submitted, runs>>

ShutdownSpill ==
    /\ From(Main, "spill") /\ spilled # <<>>
    /\ Invoke(Main, Head(spilled), "spill")
    /\ spilled' = Tail(spilled)
    /\ UNCHANGED <<mRunning, mAsync, working, open, handle>>

\* The fence is destroyed; AssertEx(mDispatcherQueue.Size() == 0) follows.
ShutdownEnd ==
    /\ From(Main, "spill") /\ spilled = <<>>
    /\ open' = FALSE
    /\ MoveTo(Main, "closed")
    /\ UNCHANGED <<ringVars, mRunning, mAsync, working, after, handle, spilled, submitted, runs>>

\* UpdateSync: one worker's Update at a time on the calling thread, while the
\* queue is not empty and the budget, which may end at any time, lasts.
UpdateSync ==
    /\ ~mAsync /\ From(Main, "idle") /\ mRunning /\ mSize > 0
    /\ AllocatePopSlot(Main)
    /\ MoveTo(Main, "sync_popped")
    /\ UNCHANGED <<mRunning, mAsync, working, open, after, handle, spilled, submitted, runs>>

UpdateSyncInvoke ==
    /\ From(Main, "sync_popped")
    /\ IF ret[Main].mValid /\ ret[Main].mData # Nil
         THEN Invoke(Main, ret[Main].mData, "idle")
         ELSE MoveTo(Main, "idle") /\ UNCHANGED <<ringVars, submitted, after, runs>>
    /\ UNCHANGED <<mRunning, mAsync, working, open, handle, spilled>>

-----------------------------------------------------------------------------
InRing(t) == RingStep(t) /\ UNCHANGED programVars

CallerStep(t) == RunTaskRetry(t) \/ RunTaskSignal(t) \/ WaitInvoke(t) \/ WaitRelease(t)

WorkerStep(w) ==
    \/ WorkerLoop(w) \/ WorkerTryPop(w) \/ WorkerInvoke(w)
    \/ WorkerCheckSize(w) \/ WorkerWait(w)

ShutdownStep ==
    \/ ShutdownOpenFence \/ ShutdownJoin \/ ShutdownDrain
    \/ ShutdownCollect \/ ShutdownSpill \/ ShutdownEnd

SchedulerNext ==
    \/ \E t \in Threads :
         \/ InRing(t) \/ CallerStep(t) \/ WaitReserve(t)
         \/ \E k \in Roots : RunTask(t, k)
    \/ \E w \in Workers : WorkerStep(w)
    \/ ShutdownBegin \/ ShutdownStep
    \/ UpdateSync \/ UpdateSyncInvoke

SchedulerSpec == SchedulerInit /\ [][SchedulerNext]_vars

\* The operating system runs every thread; clients need not submit or wait.
ThreadFairness ==
    /\ \A t \in Threads : WF_vars(InRing(t)) /\ WF_vars(CallerStep(t))
    /\ \A w \in Workers : WF_vars(WorkerStep(w))
    /\ WF_vars(ShutdownStep) /\ WF_vars(UpdateSyncInvoke)

FairSpec == SchedulerSpec /\ ThreadFairness

\* The owner calls Shutdown, as ~TaskScheduler asserts it must.
ShutdownSpec == FairSpec /\ WF_vars(ShutdownBegin)

-----------------------------------------------------------------------------
Places == {"idle", "push", "wait_owned", "wait_clear", "wait_release",
           "loop", "update", "popped", "size", "fence", "waiting", "ended",
           "open_fence", "join", "drain", "drained", "spill", "closed",
           "sync_popped"}

\* Threads whose TaskHandle::Wait has reserved the slot of its handle.
InWait == {t \in Clients :
    \/ at[t] \in {"wait_owned", "wait_clear", "wait_release"}
    \/ at[t] = "push" /\ after[t] = "wait_clear"}

\* Every variable has its type.
SchedulerTypeOK ==
    /\ TypeOK
    /\ mRunning \in BOOLEAN
    /\ mAsync \in BOOLEAN
    /\ working \in [Workers -> BOOLEAN]
    /\ open \in BOOLEAN
    /\ at \in [Threads -> Places]
    /\ after \in [Threads -> Places]
    /\ handle \in [Threads -> [mValid : BOOLEAN, mSlot : Slots,
                               mSerial : 0..INVALID_SERIAL, mData : Values]]
    /\ spilled \in Seq(Items)
    /\ submitted \subseteq Items
    /\ runs \in [Items -> Nat]

\* A slot is reserved by one operation of one thread, TaskHandle::Wait
\* included, even while the callback Wait runs pushes another task: the
\* AssertEx(result == reserve) of TaskHandle::Wait, TryPush and TryPop hold.
SlotReservation ==
    \A i \in Slots, t \in Threads :
        /\ mSlots[i].mState = t <=> \/ (t \in Holding /\ mine[t] = i)
                                   \/ (t \in InWait /\ handle[t].mSlot = i)
        /\ ~(t \in Holding /\ t \in InWait /\ mine[t] = handle[t].mSlot)

\* mSize also counts the slots TaskHandle::Wait holds: a task it completed
\* stays counted until a consumer pops its empty slot, so that the slot is
\* never skipped and the counter never drifts.
QueueSize ==
    mSize = Cardinality(Counted \cup {handle[t].mSlot : t \in InWait})

\* The callback of a task is invoked at most once, whether a worker, a waiting
\* client, Shutdown or UpdateSync gets to it first.
AtMostOnce == \A k \in Items : runs[k] <= 1

\* The places a task is held in before its callback is invoked: the argument of
\* a push, a slot, the result of a pop or the spilled tasks.
Holders(k) ==
    {<<"slot", i>> : i \in {j \in Slots : mSlots[j].mData = k}}
    \cup {<<"push", t>> : t \in {u \in Threads :
            at[u] = "push" /\ arg[u] = k /\ ~ret[u].mValid}}
    \cup {<<"pop", t>> : t \in {u \in Threads :
            /\ at[u] \in {"popped", "drained", "sync_popped"}
            /\ ret[u].mValid /\ ret[u].mData = k}}
    \cup {<<"spilled", n>> : n \in {m \in DOMAIN spilled : spilled[m] = k}}

\* A task whose callback was not invoked yet is held in exactly one place, and
\* mSize, by which workers and Shutdown decide that none is left, is exact.
NothingLost ==
    QueueSize /\ \A k \in submitted : runs[k] = 0 => Cardinality(Holders(k)) = 1

\* TaskHandle::Wait has its slot to itself and never runs a task other than the
\* one its handle is for: the serial tells a reused slot (as long as the 32-bit
\* serial has not come round).
HandleNamesTask ==
    /\ SlotReservation
    /\ \A t \in Clients :
            LET slot == mSlots[handle[t].mSlot] IN
            at[t] = "wait_owned" /\ slot.mSerial = handle[t].mSerial
                => slot.mData \in {handle[t].mData, Nil}

\* "Shutsdown all the worker/delivery threads then pops off all pending tasks
\* and executes them": when Shutdown returns every submitted task has been run
\* and the queue is empty, as its last AssertEx demands.
ClosedMeansDone ==
    at[Main] = "closed" => mSize = 0 /\ \A k \in submitted : runs[k] = 1

\* Shutdown returns once it is called.
ShutdownReturns == at[Main] = "open_fence" ~> at[Main] = "closed"

\* "tasks run are guaranteed to be completed".
EveryTaskRuns == \A k \in Items : k \in submitted ~> runs[k] = 1

=============================================================================
