------------------------------- MODULE Promise -------------------------------
(***************************************************************************)
(* Promises and the AsyncImpl that runs them (Runtime/Async).  A promise   *)
(* is started by Execute, which hands it to the task scheduler at once, or *)
(* by Queue, which leaves it to the drain thread; any thread that holds it *)
(* may Wait or LazyWait.  The scheduler is the abstract one: a set of      *)
(* tasks each of which is run once, by a worker, by TaskHandle::Wait or by *)
(* Shutdown (what TaskScheduler is checked to provide).                    *)
(*                                                                         *)
(* mState is read and written by separate atomic operations: every load    *)
(* and every store of a shared promise is a step.  An executor calls       *)
(* Resolve (or Reject, which has the same shape) before it returns.        *)
(***************************************************************************)
EXTENDS Integers, Sequences, FiniteSets

CONSTANTS
    Promises,
    Deferred,   \* the promises started by Queue, the others by Execute
    Waits,      \* bound: the <<user, promise, kind>> of the waits to consider
    Chained,    \* promise -> the promise its executor queues, or None
    None,
    Users,      \* threads that start promises and wait for them
    Workers,    \* worker threads of mScheduler
    Drain,      \* mDrainQueueThread
    Main        \* the thread that calls AsyncImpl::Shutdown

Threads == Users \cup Workers \cup {Drain, Main}

ASSUME PromiseAssumption ==
    /\ Deferred \subseteq Promises
    /\ None \notin Promises
    /\ Chained \in [Promises -> Deferred \cup {None}]
    /\ Waits \subseteq Users \X Promises \X {"wait", "lazy"}

\* The threads have different jobs.
ASSUME ThreadsAssumption ==
    /\ Users \cap Workers = {}
    /\ Drain \notin Users \cup Workers
    /\ Main \notin Users \cup Workers \cup {Drain}

VARIABLES
    mState,     \* Promise::mState
    mTask,      \* whether Promise::mTask was assigned
    signaled,   \* whether the event of mStateSignaller is signaled
    mBuffer,    \* AsyncImpl::mBuffer
    mWork,      \* AsyncImpl::mWork
    tasks,      \* the promises whose task is in the scheduler's queue
    mIsRunning, \* AsyncImpl::mIsRunning
    scheduling, \* mScheduler.IsRunning()
    at,         \* where a thread is
    cur,        \* the promise it works on
    back,       \* where it continues after Run or RunPromise
    execs,      \* history: invocations of the executor
    calls,      \* history: invocations of the resolver callbacks
    reported    \* history: the promises with a reported invalid transition

vars == <<mState, mTask, signaled, mBuffer, mWork, tasks, mIsRunning, scheduling,
          at, cur, back, execs, calls, reported>>
promiseVars == <<mState, mTask, signaled>>
asyncVars == <<mBuffer, mWork, tasks, mIsRunning, scheduling>>
history == <<execs, calls, reported>>

Init ==
    /\ mState = [p \in Promises |-> "null"]
    /\ mTask = [p \in Promises |-> FALSE]
    /\ signaled = [p \in Promises |-> FALSE]
    /\ mBuffer = <<>>
    /\ mWork = <<>>
    /\ tasks = {}
    /\ mIsRunning = TRUE
    /\ scheduling = TRUE
    /\ at = [t \in Threads |-> IF t = Drain THEN "drain_loop" ELSE "idle"]
    /\ cur = [t \in Threads |-> None]
    /\ back = [t \in Threads |-> "idle"]
    /\ execs = [p \in Promises |-> 0]
    /\ calls = [p \in Promises |-> 0]
    /\ reported = {}

Fresh(p) == mState[p] \in {"null", "queued"}
Done(p) == mState[p] = "resolved"
Move(t, to) == at' = [at EXCEPT ![t] = to]
Report(t) == reported' = reported \cup {cur[t]}

\* t calls an operation on p that starts at "place" and continues at "to".
Call(t, p, place, to) ==
    /\ Move(t, place)
    /\ cur' = [cur EXCEPT ![t] = p]
    /\ back' = [back EXCEPT ![t] = to]

-----------------------------------------------------------------------------
(***************************************************************************)
(* AsyncImpl::RunPromise                                                   *)
(***************************************************************************)
\* SetState(PROMISE_PENDING): the check ...
RunPromiseCheck(t) ==
    /\ at[t] = "run_promise"
    /\ IF Fresh(cur[t])
         THEN Move(t, "run_pending") /\ UNCHANGED reported
         ELSE Move(t, back[t]) /\ Report(t)
    /\ UNCHANGED <<promiseVars, asyncVars, cur, back, execs, calls>>

\* ... and the store.
RunPromisePending(t) ==
    /\ at[t] = "run_pending"
    /\ mState' = [mState EXCEPT ![cur[t]] = "pending"]
    /\ Move(t, "run_submit")
    /\ UNCHANGED <<mTask, signaled, asyncVars, cur, back, history>>

RunPromiseSubmit(t) ==
    /\ at[t] = "run_submit"
    /\ IF mIsRunning /\ scheduling
         THEN Move(t, "run_settask") /\ tasks' = tasks \cup {cur[t]}
         ELSE Move(t, "run") /\ UNCHANGED tasks
    /\ UNCHANGED <<promiseVars, mBuffer, mWork, mIsRunning, scheduling, cur, back, history>>

\* The task may already have run when the promise learns its handle.
RunPromiseSetTask(t) ==
    /\ at[t] = "run_settask"
    /\ mTask' = [mTask EXCEPT ![cur[t]] = TRUE]
    /\ Move(t, back[t])
    /\ UNCHANGED <<mState, signaled, asyncVars, cur, back, history>>

(***************************************************************************)
(* Promise::Run and, in the executor, Resolve                              *)
(***************************************************************************)
RunLoad(t) ==
    /\ at[t] = "run"
    /\ Move(t, IF Fresh(cur[t]) THEN "run_check" ELSE "exec")
    /\ UNCHANGED <<promiseVars, asyncVars, cur, back, history>>

\* SetState(PROMISE_PENDING), whose result Run ignores.
RunCheck(t) ==
    /\ at[t] = "run_check"
    /\ IF Fresh(cur[t])
         THEN Move(t, "run_store") /\ UNCHANGED reported
         ELSE Move(t, "exec") /\ Report(t)
    /\ UNCHANGED <<promiseVars, asyncVars, cur, back, execs, calls>>

RunStore(t) ==
    /\ at[t] = "run_store"
    /\ mState' = [mState EXCEPT ![cur[t]] = "pending"]
    /\ Move(t, "exec")
    /\ UNCHANGED <<mTask, signaled, asyncVars, cur, back, history>>

\* The executor may queue a promise of its own; then Resolve runs the
\* callbacks if the promise is still pending.
Executor(t) ==
    LET p == cur[t]
        q == Chained[p]
    IN
    /\ at[t] = "exec"
    /\ execs' = [execs EXCEPT ![p] = @ + 1]
    /\ IF q # None /\ mState[q] = "null"
         THEN mBuffer' = Append(mBuffer, q)
         ELSE UNCHANGED mBuffer
    /\ mState' = IF q # None /\ mState[q] = "null"
                   THEN [mState EXCEPT ![q] = "queued"]
                   ELSE mState
    /\ IF mState[p] = "pending"
         THEN Move(t, "resolve") /\ calls' = [calls EXCEPT ![p] = @ + 1]
         ELSE Move(t, back[t]) /\ UNCHANGED calls
    /\ UNCHANGED <<mTask, signaled, mWork, tasks, mIsRunning, scheduling, cur, back, reported>>

\* Fault: the fence of the waiters is not opened.
ResolveCheckNoFence(t) ==
    /\ at[t] = "resolve"
    /\ IF mState[cur[t]] = "pending"
         THEN Move(t, "resolve_store") /\ UNCHANGED reported
         ELSE Move(t, back[t]) /\ Report(t)
    /\ UNCHANGED <<promiseVars, asyncVars, cur, back, execs, calls>>

\* SetState(PROMISE_RESOLVED): the check and the fence, then the store.
ResolveCheck(t) ==
    /\ at[t] = "resolve"
    /\ IF mState[cur[t]] = "pending"
         THEN /\ signaled' = [signaled EXCEPT ![cur[t]] = TRUE]
              /\ Move(t, "resolve_store")
              /\ UNCHANGED reported
         ELSE Move(t, back[t]) /\ Report(t) /\ UNCHANGED signaled
    /\ UNCHANGED <<mState, mTask, asyncVars, cur, back, execs, calls>>

ResolveStore(t) ==
    /\ at[t] = "resolve_store"
    /\ mState' = [mState EXCEPT ![cur[t]] = "resolved"]
    /\ Move(t, back[t])
    /\ UNCHANGED <<mTask, signaled, asyncVars, cur, back, history>>

RunStep(t) ==
    \/ RunPromiseCheck(t) \/ RunPromisePending(t)
    \/ RunPromiseSubmit(t) \/ RunPromiseSetTask(t)
    \/ RunLoad(t) \/ RunCheck(t) \/ RunStore(t)
    \/ Executor(t) \/ ResolveCheck(t) \/ ResolveStore(t)

-----------------------------------------------------------------------------
(***************************************************************************)
(* The users: PromiseImpl::Execute and Queue, Promise::Wait and LazyWait   *)
(***************************************************************************)
Execute(u, p) ==
    /\ at[u] = "idle" /\ mIsRunning
    /\ p \notin Deferred /\ mState[p] = "null"
    /\ \A t \in Threads : cur[t] # p
    /\ Call(u, p, "run_promise", "idle")
    /\ UNCHANGED <<promiseVars, asyncVars, history>>

\* The promise is private to the caller until it is in mBuffer.
Queue(u, p) ==
    /\ at[u] = "idle" /\ mIsRunning
    /\ p \in Deferred /\ mState[p] = "null"
    /\ \A q \in Promises : Chained[q] # p
    /\ mState' = [mState EXCEPT ![p] = "queued"]
    /\ mBuffer' = Append(mBuffer, p)
    /\ UNCHANGED <<mTask, signaled, mWork, tasks, mIsRunning, scheduling, at, cur, back, history>>

\* The caller of Execute or Queue has the promise when the call has returned.
Published(p) == IF p \in Deferred THEN mState[p] # "null" ELSE mTask[p]

StartWait(u, p, kind) ==
    /\ at[u] = "idle" /\ <<u, p, kind>> \in Waits /\ Published(p)
    /\ Call(u, p, kind, "idle")
    /\ UNCHANGED <<promiseVars, asyncVars, history>>

\* IsPending() || IsQueued() loads mState twice.
LoadPending(u) ==
    /\ at[u] \in {"wait", "lazy"}
    /\ IF mState[cur[u]] = "pending"
         THEN Move(u, IF at[u] = "wait" THEN "wait_task" ELSE "lazy_task")
         ELSE Move(u, IF at[u] = "wait" THEN "wait_queued" ELSE "lazy_queued")
    /\ UNCHANGED <<promiseVars, asyncVars, cur, back, history>>

LoadQueued(u) ==
    /\ at[u] \in {"wait_queued", "lazy_queued"}
    /\ IF mState[cur[u]] = "queued"
         THEN Move(u, IF at[u] = "wait_queued" THEN "wait_task" ELSE "lazy_task")
         ELSE Move(u, "returned")
    /\ UNCHANGED <<promiseVars, asyncVars, cur, back, history>>

\* Fault: the task that is run here stays in the queue.
WaitTaskKeep(u) ==
    /\ at[u] = "wait_task"
    /\ IF ~mTask[cur[u]]
         THEN Call(u, cur[u], "run", "returned")
         ELSE IF cur[u] \in tasks
         THEN Call(u, cur[u], "run", "wait_spin")
         ELSE Call(u, cur[u], "wait_spin", "wait_spin")
    /\ UNCHANGED <<promiseVars, asyncVars, history>>

\* Wait: TaskHandle::Wait runs the task here if it is still in the queue;
\* without a task the promise is run here.
WaitTask(u) ==
    /\ at[u] = "wait_task"
    /\ tasks' = IF mTask[cur[u]] THEN tasks \ {cur[u]} ELSE tasks
    /\ IF ~mTask[cur[u]]
         THEN Call(u, cur[u], "run", "returned")
         ELSE IF cur[u] \in tasks
         THEN Call(u, cur[u], "run", "wait_spin")
         ELSE Call(u, cur[u], "wait_spin", "wait_spin")
    /\ UNCHANGED <<promiseVars, mBuffer, mWork, mIsRunning, scheduling, history>>

\* Fault: the loop on IsPending is left out.
WaitSpinOnce(u) ==
    /\ at[u] = "wait_spin"
    /\ Move(u, "returned")
    /\ UNCHANGED <<promiseVars, asyncVars, cur, back, history>>

WaitSpin(u) ==
    /\ at[u] = "wait_spin" /\ mState[cur[u]] # "pending"
    /\ Move(u, "returned")
    /\ UNCHANGED <<promiseVars, asyncVars, cur, back, history>>

LazyWaitTask(u) ==
    /\ at[u] = "lazy_task"
    /\ IF mTask[cur[u]]
         THEN Call(u, cur[u], "lazy_fence", "idle")
         ELSE Call(u, cur[u], "run", "lazy")
    /\ UNCHANGED <<promiseVars, asyncVars, history>>

LazyWaitFence(u) ==
    /\ at[u] = "lazy_fence" /\ signaled[cur[u]]
    /\ Move(u, "lazy")
    /\ UNCHANGED <<promiseVars, asyncVars, cur, back, history>>

Leave(u) ==
    /\ at[u] = "returned"
    /\ Call(u, None, "idle", "idle")
    /\ UNCHANGED <<promiseVars, asyncVars, history>>

WaitStep(u) ==
    \/ LoadPending(u) \/ LoadQueued(u) \/ WaitTask(u) \/ WaitSpin(u)
    \/ LazyWaitTask(u) \/ LazyWaitFence(u) \/ Leave(u)

(***************************************************************************)
(* The workers, the drain thread and Shutdown                              *)
(***************************************************************************)
WorkerTake(w, p) ==
    /\ at[w] = "idle" /\ scheduling /\ p \in tasks
    /\ tasks' = tasks \ {p}
    /\ Call(w, p, "run", "idle")
    /\ UNCHANGED <<promiseVars, mBuffer, mWork, mIsRunning, scheduling, history>>

\* The 100 ms wait on mFence may end at any time; then the buffers are swapped.
DrainSwap ==
    /\ at[Drain] = "drain_loop"
    /\ IF mIsRunning
         THEN /\ mBuffer' = mWork /\ mWork' = mBuffer
              /\ Move(Drain, "drain_next")
         ELSE Move(Drain, "ended") /\ UNCHANGED <<mBuffer, mWork>>
    /\ UNCHANGED <<promiseVars, tasks, mIsRunning, scheduling, cur, back, history>>

DrainNext ==
    /\ at[Drain] = "drain_next"
    /\ IF mWork = <<>>
         THEN Call(Drain, None, "drain_loop", "idle") /\ UNCHANGED mWork
         ELSE /\ IF mState[Head(mWork)] = "queued"
                   THEN Call(Drain, Head(mWork), "run_promise", "drain_next")
                   ELSE UNCHANGED <<at, cur, back>>
              /\ mWork' = Tail(mWork)
    /\ UNCHANGED <<promiseVars, mBuffer, tasks, mIsRunning, scheduling, history>>

ShutdownBegin ==
    /\ at[Main] = "idle" /\ mIsRunning
    /\ \A u \in Users : at[u] = "idle"
    /\ mIsRunning' = FALSE
    /\ Move(Main, "join_drain")
    /\ UNCHANGED <<promiseVars, mBuffer, mWork, tasks, scheduling, cur, back, history>>

\* Fault: the loop visits the buffer the drain thread has emptied.
ShutdownFlushWork ==
    /\ at[Main] = "join_drain" /\ at[Drain] = "ended"
    /\ Move(Main, "flush")
    /\ UNCHANGED <<promiseVars, mBuffer, mWork, tasks, mIsRunning, scheduling, cur, back, history>>

\* The loop over mBuffer visits what it holds when the loop starts.
ShutdownFlush ==
    /\ at[Main] = "join_drain" /\ at[Drain] = "ended"
    /\ mWork' = mBuffer
    /\ Move(Main, "flush")
    /\ UNCHANGED <<promiseVars, mBuffer, tasks, mIsRunning, scheduling, cur, back, history>>

ShutdownFlushNext ==
    /\ at[Main] = "flush" /\ mWork # <<>>
    /\ mWork' = Tail(mWork)
    /\ Call(Main, Head(mWork), "run_promise", "flush")
    /\ UNCHANGED <<promiseVars, mBuffer, tasks, mIsRunning, scheduling, history>>

\* mBuffer.clear(), then mScheduler.Shutdown() stops the workers ...
ShutdownScheduler ==
    /\ at[Main] = "flush" /\ mWork = <<>>
    /\ mBuffer' = <<>>
    /\ scheduling' = FALSE
    /\ Call(Main, None, "join_workers", "idle")
    /\ UNCHANGED <<promiseVars, mWork, tasks, mIsRunning, history>>

\* Fault: the tasks they left are not run.
ShutdownSpillNone ==
    /\ at[Main] = "join_workers"
    /\ \A w \in Workers : at[w] = "idle"
    /\ Call(Main, None, "closed", "idle")
    /\ UNCHANGED <<promiseVars, asyncVars, history>>

\* ... and runs the tasks they left.  A task that TaskHandle::Wait is running
\* keeps its slot in the queue, so the drain waits for it.
ShutdownSpill ==
    /\ at[Main] = "join_workers"
    /\ \A w \in Workers : at[w] = "idle"
    /\ \A u \in Users : back[u] = "wait_spin" => at[u] = "wait_spin"
    /\ IF tasks = {}
         THEN Call(Main, None, "closed", "idle") /\ UNCHANGED tasks
         ELSE \E p \in tasks :
                Call(Main, p, "run", "join_workers") /\ tasks' = tasks \ {p}
    /\ UNCHANGED <<promiseVars, mBuffer, mWork, mIsRunning, scheduling, history>>

ShutdownStep ==
    \/ ShutdownFlush \/ ShutdownFlushNext \/ ShutdownScheduler \/ ShutdownSpill

-----------------------------------------------------------------------------
Next ==
    \/ \E t \in Threads : RunStep(t)
    \/ \E u \in Users :
         \/ \E p \in Promises :
              \/ Execute(u, p) \/ Queue(u, p)
              \/ \E kind \in {"wait", "lazy"} : StartWait(u, p, kind)
         \/ WaitStep(u)
    \/ \E w \in Workers, p \in Promises : WorkerTake(w, p)
    \/ DrainSwap \/ DrainNext
    \/ ShutdownBegin \/ ShutdownStep

Spec == Init /\ [][Next]_vars

\* A thread inside an operation runs on.  What users start, and whether Shutdown
\* is called, is up to them; and a worker that missed the pulse of its fence may
\* sleep for ever (TaskScheduler), so no worker need ever take a task.
FairSpec ==
    /\ Spec
    /\ \A t \in Threads : WF_vars(RunStep(t))
    /\ \A u \in Users : WF_vars(WaitStep(u))
    /\ WF_vars(DrainSwap) /\ WF_vars(DrainNext) /\ WF_vars(ShutdownStep)

-----------------------------------------------------------------------------
\* Where a thread works on no promise.
Between == {"idle", "drain_loop", "drain_next", "ended", "join_drain", "flush",
            "join_workers", "closed"}

\* Every variable has its type, and a thread inside an operation of a promise
\* holds that promise until the operation returns.
TypeOK ==
    /\ mState \in [Promises -> {"null", "queued", "pending", "resolved"}]
    /\ mTask \in [Promises -> BOOLEAN]
    /\ signaled \in [Promises -> BOOLEAN]
    /\ mBuffer \in Seq(Promises) /\ mWork \in Seq(Promises)
    /\ tasks \subseteq Promises
    /\ mIsRunning \in BOOLEAN /\ scheduling \in BOOLEAN
    /\ cur \in [Threads -> Promises \cup {None}]
    /\ \A t \in Threads : at[t] \notin Between => cur[t] # None
    /\ execs \in [Promises -> Nat] /\ calls \in [Promises -> Nat]
    /\ reported \subseteq Promises

\* The promises a waiting thread may find queued and run itself.
Shared == {w[2] : w \in Waits} \cap Deferred

Once(P) == \A p \in P : execs[p] <= 1 /\ calls[p] <= 1

\* The executor of a promise, and the callbacks it resolves, run once, whoever
\* of the workers, the waiting users, the drain thread and Shutdown gets there,
\* and the ReportBugMsgEx calls of SetState stay silent, unless it is waited for
\* while it is queued.
RunsOnce == Once(Promises \ Shared) /\ reported \subseteq Shared

\* They run once in any case, as the tests of queued promises expect.
QueuedRunsOnce == Once(Promises)

\* "Waits for the promise to complete": Wait and LazyWait return with the
\* promise done, even if it is run a second time later.
WaitReturnsDone ==
    \A u \in Users : at[u] = "returned" /\ cur[u] \notin Shared => Done(cur[u])

\* "Guarantee we execute our promises": when Shutdown is over no promise that
\* was started is left queued, or pending unless a user is inside its Wait.
ClosedMeansDone ==
    at[Main] = "closed" =>
      \A p \in Promises :
        \/ mState[p] \in {"null", "resolved"}
        \/ mState[p] = "pending" /\ \E u \in Users : cur[u] = p

\* Every call of a user returns, with no help from the workers: Wait runs the task
\* itself if none has taken it.  Only a LazyWait may sleep on, and only as long
\* as the task of its promise stays in the scheduler's queue.
WaitTerminates ==
    \A u \in Users : []<>(at[u] = "idle" \/ (at[u] = "lazy_fence" /\ cur[u] \in tasks))

\* A promise that is started is eventually done or handed to the scheduler, and
\* Shutdown sees to it that it is done even if no worker ever takes a task.
StartedIsDone ==
    \A p \in Promises :
        /\ []<>(mState[p] = "null" \/ Done(p) \/ p \in tasks)
        /\ (~mIsRunning /\ mState[p] \in {"queued", "pending"}) ~> Done(p)

=============================================================================
