----------------------------- MODULE PromiseProofs -----------------------------
(***************************************************************************)
(* For any number of users, workers and promises: a promise that is not    *)
(* waited for while it is queued runs once, Wait returns with it done, and *)
(* Shutdown leaves none behind.                                            *)
(***************************************************************************)
EXTENDS Promise, SequenceTheorems, TLAPS

\* Where a thread is about to submit a promise, and where it runs it.
Submitting == {"run_promise", "run_pending", "run_submit"}
Running == {"run", "exec", "resolve", "resolve_store"}
Rechecking == {"run_check", "run_store"}
Waiting == {"wait", "lazy", "wait_queued", "lazy_queued", "wait_task", "lazy_task",
            "wait_spin", "lazy_fence", "returned"}
Inside == Submitting \cup {"run_settask"} \cup Running \cup Rechecking

Places == Between \cup Inside \cup Waiting
Backs == {"idle", "returned", "wait_spin", "lazy", "drain_next", "flush", "join_workers"}

\* Whether thread t may be at a, and go to b when Run or RunPromise returns.
Station(t, a, b) ==
    /\ a \in Places /\ b \in Backs
    /\ t \in Users =>
         /\ a \in {"idle"} \cup Inside \cup Waiting
         /\ b \in {"idle", "returned", "wait_spin", "lazy"}
         /\ a \in Submitting => mIsRunning
         /\ a \in Submitting \cup {"run_settask"} => b = "idle"
    /\ t \in Workers => a \in {"idle"} \cup Running \cup Rechecking /\ b = "idle"
    /\ t = Drain =>
         /\ a \in {"drain_loop", "drain_next", "ended"} \cup Inside
         /\ a \in Inside => b = "drain_next"
    /\ t = Main =>
         /\ a \in {"idle", "join_drain", "flush", "join_workers", "closed"} \cup Inside
         /\ a \in Inside => b \in {"flush", "join_workers"}
         /\ a \in Submitting \cup {"run_settask"} => b = "flush"

Stations ==
    /\ at \in [Threads -> Places] /\ back \in [Threads -> Backs]
    /\ \A t \in Threads : Station(t, at[t], back[t])

\* The loop of Shutdown over mBuffer, and what comes after it.
Flushing == at[Main] = "flush" \/ (at[Main] \in Inside /\ back[Main] = "flush")
Spilling ==
    \/ at[Main] \in {"join_workers", "closed"}
    \/ at[Main] \in Inside /\ back[Main] = "join_workers"

Stages ==
    /\ at[Main] # "idle" => ~mIsRunning
    /\ Flushing \/ Spilling => at[Drain] = "ended"
    /\ Spilling => ~scheduling
    /\ at[Drain] \in {"drain_loop", "ended"} /\ ~Flushing => mWork = <<>>
    /\ at[Main] = "closed" => tasks = {} /\ \A w \in Workers : at[w] = "idle"

-----------------------------------------------------------------------------
(***************************************************************************)
(* One execution                                                           *)
(***************************************************************************)
\* What is in a list, by place.  Shutdown copies mBuffer before it visits it.
BufferOf(p) == {n \in DOMAIN mBuffer : mBuffer[n] = p /\ ~Flushing}
WorkOf(p) == {n \in DOMAIN mWork : mWork[n] = p}
CarriersOf(p) == {t \in Threads : cur[t] = p /\ at[t] \in Submitting \cup Running}

AtMostOne(S) == \A x, y \in S : x = y

\* The right to run a promise is held once: by its task, by an entry of a list
\* or by a thread.
HeldOnce(p) ==
    /\ AtMostOne(BufferOf(p)) /\ AtMostOne(WorkOf(p)) /\ AtMostOne(CarriersOf(p))
    /\ p \in tasks => CarriersOf(p) = {}
    /\ BufferOf(p) # {} => WorkOf(p) = {} /\ CarriersOf(p) = {} /\ p \notin tasks
    /\ WorkOf(p) # {} => CarriersOf(p) = {} /\ p \notin tasks

Ran(p, n) == execs[p] = n /\ calls[p] = n

\* Where a thread that works on p is, and will go, says how far p is.
Holder(p, a, b) ==
    /\ a \in {"run_promise", "run_pending"} =>
         mState[p] = (IF p \in Deferred THEN "queued" ELSE "null") /\ Ran(p, 0)
    /\ a \in {"run_submit", "run", "exec"} => mState[p] = "pending" /\ Ran(p, 0)
    /\ a \in {"resolve", "resolve_store"} => mState[p] = "pending" /\ Ran(p, 1)
    /\ a \in Running => b \notin {"returned", "lazy"} /\ (b = "wait_spin" => mTask[p])
    /\ a \notin Rechecking
    /\ a = "run_settask" => mState[p] \in {"pending", "resolved"}
    /\ a \in Waiting => mTask[p]
    /\ a \in {"wait_queued", "lazy_queued", "returned"} => mState[p] = "resolved"

Progress(p) ==
    /\ BufferOf(p) \cup WorkOf(p) # {} =>
         p \in Deferred /\ mState[p] = "queued" /\ Ran(p, 0)
    /\ p \in tasks => mState[p] = "pending" /\ Ran(p, 0)
    /\ \A t \in Threads : cur[t] = p => Holder(p, at[t], back[t])
    /\ p \notin tasks /\ BufferOf(p) \cup WorkOf(p) \cup CarriersOf(p) = {} =>
         (mState[p] \in {"null", "queued"} /\ Ran(p, 0)) \/ (mState[p] = "resolved" /\ Ran(p, 1))
    /\ mTask[p] => mState[p] \in {"pending", "resolved"}

Unshared == Promises \ Shared

OneRun == \A p \in Unshared : HeldOnce(p) /\ Progress(p)

Sound == TypeOK /\ Stations /\ Stages

RunInv == Sound /\ OneRun /\ reported \subseteq Shared

-----------------------------------------------------------------------------
(***************************************************************************)
(* Nothing is left behind                                                  *)
(***************************************************************************)
Starts == {"run_promise", "run_pending"}
Finishes == {"run_submit"} \cup Running \cup Rechecking
Starting(p) == \E t \in Threads : cur[t] = p /\ at[t] \in Starts
Finishing(p) == \E t \in Threads : cur[t] = p /\ at[t] \in Finishes

\* A queued promise is in a list or on its way out of it, a pending one is a
\* task or somebody runs it.
Kept(p) ==
    /\ mState[p] = "queued" => BufferOf(p) \cup WorkOf(p) # {} \/ Starting(p)
    /\ mState[p] = "pending" => p \in tasks \/ Finishing(p)

NotDropped == \A p \in Promises : Kept(p)

Emptied == Spilling => mBuffer = <<>> /\ mWork = <<>>

CloseInv == Sound /\ NotDropped /\ Emptied

-----------------------------------------------------------------------------
(***************************************************************************)
(* Types, stations and stages                                              *)
(***************************************************************************)
LEMMA InitSound == Init => Sound
<1>. SUFFICES ASSUME Init PROVE Sound
  OBVIOUS
<1>1. TypeOK
  BY PromiseAssumption DEF Init, TypeOK, Between
<1>2. Stations
  BY ThreadsAssumption
  DEF Init, Stations, Station, Threads, Places, Backs, Between, Inside, Submitting, Running,
      Rechecking, Waiting
<1>3. Stages
  BY ThreadsAssumption DEF Init, Stages, Flushing, Spilling, Threads
<1>. QED
  BY <1>1, <1>2, <1>3 DEF Sound

\* Thread t moves to a place where it may be.
LEMMA MoveStations ==
    ASSUME Stations, NEW t \in Threads, NEW to, NEW b, Station(t, to, b),
           Move(t, to), back' = [back EXCEPT ![t] = b], mIsRunning' = mIsRunning
    PROVE  Stations'
<1>1. at' \in [Threads -> Places] /\ back' \in [Threads -> Backs]
  BY DEF Stations, Station, Move
<1>2. ASSUME NEW u \in Threads PROVE Station(u, at[u], back[u])'
  <2>1. at'[u] = (IF u = t THEN to ELSE at[u]) /\ back'[u] = (IF u = t THEN b ELSE back[u])
    BY DEF Stations, Move
  <2>2. Station(u, at'[u], back'[u])
    BY <2>1 DEF Stations
  <2>. QED
    BY <2>2 DEF Station
<1>. QED
  BY <1>1, <1>2 DEF Stations

LEMMA CallStations ==
    ASSUME Stations, NEW t \in Threads, NEW p, NEW to, NEW b, Station(t, to, b),
           Call(t, p, to, b), mIsRunning' = mIsRunning
    PROVE  Stations'
  BY MoveStations DEF Call

\* A step of Run or RunPromise stays inside it or returns.
LEMMA RunEffect ==
    ASSUME TypeOK, Stations, NEW t \in Threads, RunStep(t)
    PROVE  /\ at[t] \in Inside /\ cur[t] \in Promises
           /\ \E to \in Inside \cup {back[t]} : Move(t, to) /\ Station(t, to, back[t])
           /\ UNCHANGED <<mWork, mIsRunning, scheduling, cur, back>>
           /\ tasks' = tasks \/ (tasks' = tasks \cup {cur[t]} /\ mIsRunning /\ scheduling)
<1>1. at[t] \in Inside
  BY DEF RunStep, RunPromiseCheck, RunPromisePending, RunPromiseSubmit, RunPromiseSetTask,
     RunLoad, RunCheck, RunStore, Executor, ResolveCheck, ResolveStore,
     Inside, Submitting, Running, Rechecking
<1>2. cur[t] \in Promises
  <2>1. at[t] \notin Between
    BY <1>1 DEF Inside, Submitting, Running, Rechecking, Between
  <2>. QED
    BY <2>1 DEF TypeOK
<1>3. Station(t, at[t], back[t])
  BY DEF Stations
<1>4. Station(t, back[t], back[t])
  BY <1>1, <1>3
  DEF Station, Places, Backs, Between, Inside, Submitting, Running, Rechecking, Waiting
<1>6. \A to \in Running \cup Rechecking : Station(t, to, back[t])
  BY <1>1, <1>3 DEF Station, Places, Inside, Submitting, Running, Rechecking
<1>7. at[t] \in Submitting =>
        \A to \in Submitting \cup {"run_settask"} : Station(t, to, back[t])
  BY <1>3 DEF Station, Places, Inside, Submitting, Running, Rechecking
<1>8. /\ \E to \in Inside \cup {back[t]} : Move(t, to) /\ Station(t, to, back[t])
      /\ UNCHANGED <<mWork, mIsRunning, scheduling, cur, back>>
      /\ tasks' = tasks \/ (tasks' = tasks \cup {cur[t]} /\ mIsRunning /\ scheduling)
  <2>. USE DEF Inside, Submitting, Running, Rechecking
  <2>1. CASE RunPromiseCheck(t)
    BY <1>4, <1>7, <2>1 DEF RunPromiseCheck, asyncVars
  <2>2. CASE RunPromisePending(t)
    BY <1>7, <2>2 DEF RunPromisePending, asyncVars
  <2>3. CASE RunPromiseSubmit(t)
    BY <1>6, <1>7, <2>3 DEF RunPromiseSubmit
  <2>4. CASE RunPromiseSetTask(t)
    BY <1>4, <2>4 DEF RunPromiseSetTask, asyncVars
  <2>5. CASE RunLoad(t)
    BY <1>6, <2>5 DEF RunLoad, asyncVars
  <2>6. CASE RunCheck(t) \/ RunStore(t)
    BY <1>6, <2>6 DEF RunCheck, RunStore, asyncVars
  <2>7. CASE Executor(t)
    BY <1>4, <1>6, <2>7 DEF Executor
  <2>8. CASE ResolveCheck(t) \/ ResolveStore(t)
    BY <1>4, <1>6, <2>8 DEF ResolveCheck, ResolveStore, asyncVars
  <2>. QED
    BY <2>1, <2>2, <2>3, <2>4, <2>5, <2>6, <2>7, <2>8 DEF RunStep
<1>. QED
  BY <1>1, <1>2, <1>8

\* A thread that moves keeps a promise as long as it is inside an operation.
LEMMA HoldsPromise ==
    ASSUME TypeOK, Stations, NEW t \in Threads, NEW to, Move(t, to),
           cur' \in [Threads -> Promises \cup {None}],
           \A u \in Threads \ {t} : cur'[u] = cur[u],
           to \in Between \/ cur'[t] \in Promises
    PROVE  \A u \in Threads : at'[u] \notin Between => cur'[u] # None
  BY PromiseAssumption DEF TypeOK, Stations, Move

LEMMA RunTypes ==
    ASSUME TypeOK, Stations, NEW t \in Threads, RunStep(t)
    PROVE  TypeOK' /\ Stations'
<1>1. cur[t] \in Promises /\ at[t] \in Inside
  BY RunEffect
<1>2. PICK to \in Inside \cup {back[t]} : Move(t, to) /\ Station(t, to, back[t])
  BY RunEffect
<1>3. /\ UNCHANGED <<mWork, mIsRunning, scheduling, cur, back>>
      /\ tasks' = tasks \/ tasks' = tasks \cup {cur[t]}
  BY RunEffect
<1>4. Stations'
  <2>1. back' = [back EXCEPT ![t] = back[t]]
    BY <1>3 DEF Stations
  <2>. QED
    BY <1>2, <1>3, <2>1, MoveStations
<1>5. \A u \in Threads : at'[u] \notin Between => cur'[u] # None
  BY <1>1, <1>2, <1>3, HoldsPromise DEF TypeOK
<1>6. /\ mState' \in [Promises -> {"null", "queued", "pending", "resolved"}]
      /\ mTask' \in [Promises -> BOOLEAN]
      /\ signaled' \in [Promises -> BOOLEAN]
      /\ mBuffer' \in Seq(Promises)
      /\ execs' \in [Promises -> Nat] /\ calls' \in [Promises -> Nat]
      /\ reported' \subseteq Promises
  <2>. USE DEF TypeOK, promiseVars, asyncVars, history, Report
  <2>1. CASE RunPromiseCheck(t) \/ RunCheck(t)
    BY <1>1, <2>1 DEF RunPromiseCheck, RunCheck
  <2>2. CASE RunPromisePending(t) \/ RunStore(t)
    BY <1>1, <2>2 DEF RunPromisePending, RunStore
  <2>3. CASE RunPromiseSubmit(t) \/ RunPromiseSetTask(t) \/ RunLoad(t)
    BY <1>1, <2>3 DEF RunPromiseSubmit, RunPromiseSetTask, RunLoad
  <2>4. CASE Executor(t)
    <3>. DEFINE q == Chained[cur[t]]
    <3>1. q # None => q \in Promises
      BY <1>1, PromiseAssumption
    <3>2. /\ mBuffer' = mBuffer \/ (q # None /\ mBuffer' = Append(mBuffer, q))
          /\ mState' = mState \/ mState' = [mState EXCEPT ![q] = "queued"]
          /\ execs' = [execs EXCEPT ![cur[t]] = @ + 1]
          /\ calls' = calls \/ calls' = [calls EXCEPT ![cur[t]] = @ + 1]
          /\ UNCHANGED <<mTask, signaled, reported>>
      BY <2>4 DEF Executor
    <3>. HIDE DEF q
    <3>3. mBuffer' \in Seq(Promises)
      <4>1. mBuffer \in Seq(Promises)
        OBVIOUS
      <4>2. CASE mBuffer' = mBuffer
        BY <4>1, <4>2
      <4>3. CASE q # None /\ mBuffer' = Append(mBuffer, q)
        BY <3>1, <4>1, <4>3
      <4>. QED
        BY <3>2, <4>2, <4>3
    <3>4. mState' \in [Promises -> {"null", "queued", "pending", "resolved"}]
      BY <3>2
    <3>5. execs' \in [Promises -> Nat]
      BY <1>1, <3>2
    <3>6. calls' \in [Promises -> Nat]
      <4>1. calls \in [Promises -> Nat]
        OBVIOUS
      <4>2. CASE calls' = [calls EXCEPT ![cur[t]] = @ + 1]
        BY <1>1, <4>1, <4>2
      <4>. QED
        BY <3>2, <4>1, <4>2
    <3>. QED
      BY <3>2, <3>3, <3>4, <3>5, <3>6
  <2>5. CASE ResolveCheck(t) \/ ResolveStore(t)
    BY <1>1, <2>5 DEF ResolveCheck, ResolveStore
  <2>. QED
    BY <2>1, <2>2, <2>3, <2>4, <2>5 DEF RunStep
<1>. QED
  BY <1>1, <1>3, <1>4, <1>5, <1>6 DEF TypeOK

\* Steps of a user that only move it, from a wait, with the same promise.
LEMMA WaitEffect ==
    ASSUME TypeOK, Stations, NEW u \in Users, WaitStep(u)
    PROVE  /\ u \in Threads /\ at[u] \in Waiting /\ cur[u] \in Promises
           /\ \E to \in Waiting \cup {"run", "idle"}, b \in {"idle", "returned", "wait_spin", "lazy"} :
                /\ Move(u, to) /\ back' = [back EXCEPT ![u] = b]
                /\ cur' = [cur EXCEPT ![u] = IF to = "idle" THEN None ELSE cur[u]]
           /\ tasks' \subseteq tasks
           /\ UNCHANGED <<promiseVars, mBuffer, mWork, mIsRunning, scheduling, history>>
<1>1. u \in Threads /\ Station(u, at[u], back[u]) /\ back[u] \in {"idle", "returned", "wait_spin", "lazy"}
  BY DEF Stations, Station, Threads
<1>2. at[u] \in Waiting
  BY DEF WaitStep, LoadPending, LoadQueued, WaitTask, WaitSpin, LazyWaitTask, LazyWaitFence,
     Leave, Waiting
<1>3. cur[u] \in Promises
  BY <1>1, <1>2 DEF TypeOK, Waiting, Between
<1>. DEFINE Goes(to, b) ==
       /\ Move(u, to) /\ back' = [back EXCEPT ![u] = b]
       /\ cur' = [cur EXCEPT ![u] = IF to = "idle" THEN None ELSE cur[u]]
<1>4. ASSUME NEW to \in Waiting, Move(u, to), UNCHANGED <<cur, back>>
      PROVE  Goes(to, back[u])
  <2>1. to # "idle"
    BY DEF Waiting
  <2>2. back' = [back EXCEPT ![u] = back[u]] /\ cur' = [cur EXCEPT ![u] = cur[u]]
    BY <1>4 DEF Stations, TypeOK
  <2>. QED
    BY <1>4, <2>1, <2>2
<1>5. ASSUME NEW to \in Waiting \cup {"run"}, NEW b, Call(u, cur[u], to, b)
      PROVE  Goes(to, b)
  <2>1. to # "idle"
    BY DEF Waiting
  <2>. QED
    BY <1>5, <2>1 DEF Call
<1>6. /\ \E to \in Waiting \cup {"run", "idle"}, b \in {"idle", "returned", "wait_spin", "lazy"} : Goes(to, b)
      /\ tasks' \subseteq tasks
      /\ UNCHANGED <<promiseVars, mBuffer, mWork, mIsRunning, scheduling, history>>
  <2>. HIDE DEF Goes
  <2>1. CASE LoadPending(u)
    <3>1. \E to \in Waiting : Move(u, to)
      BY <2>1 DEF LoadPending, Waiting
    <3>. QED
      BY <1>1, <1>4, <2>1, <3>1 DEF LoadPending, asyncVars
  <2>2. CASE LoadQueued(u)
    <3>1. \E to \in Waiting : Move(u, to)
      BY <2>2 DEF LoadQueued, Waiting
    <3>. QED
      BY <1>1, <1>4, <2>2, <3>1 DEF LoadQueued, asyncVars
  <2>3. CASE WaitTask(u)
    <3>1. \E to \in Waiting \cup {"run"}, b \in {"returned", "wait_spin"} : Call(u, cur[u], to, b)
      BY <2>3 DEF WaitTask, Waiting
    <3>. QED
      BY <1>5, <2>3, <3>1 DEF WaitTask
  <2>4. CASE WaitSpin(u)
    BY <1>1, <1>4, <2>4 DEF WaitSpin, Waiting, asyncVars
  <2>5. CASE LazyWaitTask(u)
    <3>1. \E to \in Waiting \cup {"run"}, b \in {"idle", "lazy"} : Call(u, cur[u], to, b)
      BY <2>5 DEF LazyWaitTask, Waiting
    <3>. QED
      BY <1>5, <2>5, <3>1 DEF LazyWaitTask, asyncVars
  <2>6. CASE LazyWaitFence(u)
    BY <1>1, <1>4, <2>6 DEF LazyWaitFence, Waiting, asyncVars
  <2>7. CASE Leave(u)
    BY <2>7 DEF Leave, Call, Goes, asyncVars
  <2>. QED
    BY <2>1, <2>2, <2>3, <2>4, <2>5, <2>6, <2>7 DEF WaitStep
<1>. QED
  BY <1>1, <1>2, <1>3, <1>6

LEMMA WaitTypes ==
    ASSUME TypeOK, Stations, NEW u \in Users, WaitStep(u)
    PROVE  TypeOK' /\ Stations'
<1>1. u \in Threads /\ at[u] \in Waiting /\ cur[u] \in Promises /\ tasks' \subseteq tasks
      /\ UNCHANGED <<promiseVars, mBuffer, mWork, mIsRunning, scheduling, history>>
  BY WaitEffect
<1>2. PICK to \in Waiting \cup {"run", "idle"}, b \in {"idle", "returned", "wait_spin", "lazy"} :
           /\ Move(u, to) /\ back' = [back EXCEPT ![u] = b]
           /\ cur' = [cur EXCEPT ![u] = IF to = "idle" THEN None ELSE cur[u]]
  BY WaitEffect
<1>3. Station(u, to, b)
  BY ThreadsAssumption
  DEF Station, Places, Backs, Inside, Waiting, Running, Rechecking, Submitting, Between
<1>4. Stations'
  BY <1>1, <1>2, <1>3, MoveStations
<1>5. cur' \in [Threads -> Promises \cup {None}] /\ \A v \in Threads \ {u} : cur'[v] = cur[v]
  BY <1>1, <1>2 DEF TypeOK
<1>6. to \in Between \/ cur'[u] \in Promises
  BY <1>1, <1>2 DEF Between, TypeOK
<1>7. \A v \in Threads : at'[v] \notin Between => cur'[v] # None
  BY <1>1, <1>2, <1>5, <1>6, HoldsPromise
<1>. QED
  BY <1>1, <1>4, <1>5, <1>7 DEF TypeOK, promiseVars, history

\* A thread that is in no operation enters one, or none.
LEMMA CallTypes ==
    ASSUME TypeOK, Stations, NEW t \in Threads, NEW p \in Promises \cup {None}, NEW to, NEW b,
           Station(t, to, b), Call(t, p, to, b), to \in Between \/ p \in Promises,
           mIsRunning' = mIsRunning
    PROVE  /\ Stations' /\ cur' \in [Threads -> Promises \cup {None}]
           /\ \A u \in Threads : at'[u] \notin Between => cur'[u] # None
<1>1. Move(t, to) /\ cur' = [cur EXCEPT ![t] = p]
  BY DEF Call
<1>2. /\ cur' \in [Threads -> Promises \cup {None}] /\ cur'[t] = p
      /\ \A u \in Threads \ {t} : cur'[u] = cur[u]
  BY <1>1 DEF TypeOK
<1>. QED
  BY <1>1, <1>2, HoldsPromise, CallStations

\* The steps of users that start or wait for a promise.
LEMMA StartTypes ==
    ASSUME TypeOK, Stations, NEW u \in Users, NEW p \in Promises,
           \/ Execute(u, p) \/ Queue(u, p)
           \/ \E kind \in {"wait", "lazy"} : StartWait(u, p, kind)
    PROVE  TypeOK' /\ Stations'
<1>. USE DEF TypeOK, promiseVars, asyncVars, history
<1>1. u \in Threads
  BY DEF Threads
<1>2. CASE Queue(u, p)
  <2>1. mBuffer' \in Seq(Promises) /\ mState' \in [Promises -> {"null", "queued", "pending", "resolved"}]
    BY <1>2 DEF Queue
  <2>2. Stations'
    BY <1>2 DEF Queue, Stations, Station
  <2>. QED
    BY <1>2, <2>1, <2>2 DEF Queue
<1>3. ASSUME NEW to \in {"run_promise", "wait", "lazy"}, Call(u, p, to, "idle"),
             mIsRunning \/ to # "run_promise",
             UNCHANGED <<promiseVars, asyncVars, history>>
      PROVE  TypeOK' /\ Stations'
  <2>1. Station(u, to, "idle")
    BY <1>3, ThreadsAssumption
    DEF Station, Places, Backs, Inside, Waiting, Running, Rechecking, Submitting, Between
  <2>. QED
    BY <1>1, <1>3, <2>1, CallTypes
<1>. QED
  BY <1>2, <1>3 DEF Execute, StartWait

LEMMA OwnerTypes ==
    ASSUME TypeOK, Stations,
           \/ \E w \in Workers, p \in Promises : WorkerTake(w, p)
           \/ DrainSwap \/ DrainNext \/ ShutdownBegin \/ ShutdownStep
    PROVE  TypeOK' /\ Stations'
<1>. USE DEF TypeOK, promiseVars, asyncVars, history
<1>1. Workers \subseteq Threads /\ Users \subseteq Threads /\ Drain \in Threads /\ Main \in Threads
  BY DEF Threads
<1>2. ASSUME NEW t \in Threads, NEW to \in Between, Move(t, to), UNCHANGED <<cur, back>>
      PROVE  /\ \A u \in Threads : at'[u] \notin Between => cur'[u] # None
             /\ back' = [back EXCEPT ![t] = back[t]]
  <2>1. back' = [back EXCEPT ![t] = back[t]]
    BY <1>2 DEF Stations
  <2>. QED
    BY <1>2, <2>1, HoldsPromise
<1>3. Station(Drain, at[Drain], back[Drain]) /\ Station(Main, at[Main], back[Main])
  BY <1>1 DEF Stations
<1>4. /\ \A w \in Workers : Station(w, "run", "idle")
      /\ \A to \in {"drain_loop", "drain_next", "ended"} : Station(Drain, to, back[Drain]) /\ Station(Drain, to, "idle")
      /\ Station(Drain, "run_promise", "drain_next")
      /\ \A to \in {"join_drain", "flush"} : Station(Main, to, back[Main])
      /\ Station(Main, "run_promise", "flush") /\ Station(Main, "run", "join_workers")
      /\ \A to \in {"join_workers", "closed"} : Station(Main, to, "idle")
  BY <1>3, ThreadsAssumption
  DEF Station, Places, Backs, Inside, Waiting, Running, Rechecking, Submitting, Between
<1>5. ASSUME NEW w \in Workers, NEW p \in Promises, WorkerTake(w, p)
      PROVE  TypeOK' /\ Stations'
  BY <1>1, <1>4, <1>5, CallTypes DEF WorkerTake
<1>6. CASE DrainSwap
  <2>1. PICK to \in {"drain_next", "ended"} : Move(Drain, to)
    BY <1>6 DEF DrainSwap
  <2>2. Stations'
    BY <1>1, <1>2, <1>4, <1>6, <2>1, MoveStations DEF DrainSwap, Between
  <2>. QED
    BY <1>1, <1>2, <1>6, <2>1, <2>2 DEF DrainSwap, Between
<1>7. CASE DrainNext
  <2>1. CASE mWork = <<>>
    BY <1>1, <1>4, <1>7, <2>1, CallTypes DEF DrainNext, Between
  <2>2. CASE mWork # <<>>
    <3>1. Head(mWork) \in Promises /\ Tail(mWork) \in Seq(Promises)
      BY <2>2
    <3>2. CASE mState[Head(mWork)] = "queued"
      BY <1>1, <1>4, <1>7, <2>2, <3>1, <3>2, CallTypes DEF DrainNext
    <3>3. CASE mState[Head(mWork)] # "queued"
      BY <1>7, <2>2, <3>1, <3>3 DEF DrainNext, Stations, Station
    <3>. QED
      BY <3>2, <3>3
  <2>. QED
    BY <2>1, <2>2
<1>8. CASE ShutdownBegin
  <2>1. Move(Main, "join_drain") /\ mIsRunning' = FALSE /\ UNCHANGED <<cur, back>>
        /\ \A u \in Users : at[u] = "idle"
    BY <1>8 DEF ShutdownBegin
  <2>2. Stations'
    <3>1. \A t \in Threads : at'[t] = IF t = Main THEN "join_drain" ELSE at[t]
      BY <1>1, <2>1 DEF Move, Stations
    <3>2. ASSUME NEW t \in Threads PROVE Station(t, at[t], back[t])'
      <4>1. Station(t, at'[t], back[t])
        BY <1>4, <3>1 DEF Stations
      <4>2. t \in Users => at'[t] = "idle"
        BY <2>1, <3>1, ThreadsAssumption
      <4>3. back' = back
        BY <2>1
      <4>. QED
        BY <4>1, <4>2, <4>3 DEF Station, Submitting
    <3>3. at' \in [Threads -> Places]
      BY <1>4, <2>1 DEF Move, Stations, Station
    <3>. QED
      BY <2>1, <3>2, <3>3 DEF Stations
  <2>. QED
    BY <1>1, <1>2, <1>8, <2>1, <2>2 DEF ShutdownBegin, Between
<1>9. CASE ShutdownFlush
  BY <1>1, <1>2, <1>4, <1>9, MoveStations DEF ShutdownFlush, Between
<1>10. CASE ShutdownFlushNext
  <2>1. Head(mWork) \in Promises /\ Tail(mWork) \in Seq(Promises)
    BY <1>10 DEF ShutdownFlushNext
  <2>. QED
    BY <1>1, <1>4, <1>10, <2>1, CallTypes DEF ShutdownFlushNext
<1>11. CASE ShutdownScheduler
  BY <1>1, <1>4, <1>11, CallTypes DEF ShutdownScheduler, Between
<1>12. CASE ShutdownSpill
  <2>1. CASE tasks = {}
    BY <1>1, <1>4, <1>12, <2>1, CallTypes DEF ShutdownSpill, Between
  <2>2. CASE tasks # {}
    <3>. PICK p \in tasks : Call(Main, p, "run", "join_workers") /\ tasks' = tasks \ {p}
      BY <1>12, <2>2 DEF ShutdownSpill
    <3>. QED
      BY <1>1, <1>4, <1>12, CallTypes DEF ShutdownSpill
  <2>. QED
    BY <2>1, <2>2
<1>. QED
  BY <1>5, <1>6, <1>7, <1>8, <1>9, <1>10, <1>11, <1>12 DEF ShutdownStep

-----------------------------------------------------------------------------
\* Where the thread of Shutdown is decides which loops are over.  A step of
\* Run or RunPromise does not change that.
LEMMA RunKeepsLoops ==
    ASSUME TypeOK, Stations, NEW t \in Threads, RunStep(t)
    PROVE  /\ Flushing' <=> Flushing
           /\ Spilling' <=> Spilling
           /\ at'[Main] \in {"idle", "closed"} => at'[Main] = at[Main]
           /\ \A u \in Threads \ {t} : at'[u] = at[u]
           /\ at[t] \in Inside /\ at'[t] \in Inside \cup {back[t]}
<1>1. at[t] \in Inside /\ back' = back
  BY RunEffect
<1>2. PICK to \in Inside \cup {back[t]} : Move(t, to)
  BY RunEffect
<1>3. Main \in Threads /\ Station(Main, at[Main], back[Main])
  BY DEF Threads, Stations
<1>4. \A u \in Threads : at'[u] = IF u = t THEN to ELSE at[u]
  BY <1>2 DEF Move, Stations
<1>5. CASE t # Main
  BY <1>1, <1>3, <1>4, <1>5 DEF Flushing, Spilling
<1>6. CASE t = Main
  <2>1. back[Main] \in {"flush", "join_workers"} /\ Main \notin Users \cup Workers
    BY <1>1, <1>3, <1>6, ThreadsAssumption DEF Station
  <2>2. at'[Main] \in Inside \/ at'[Main] = back[Main]
    BY <1>3, <1>4, <1>6
  <2>3. \A a \in Inside : a \notin {"idle", "closed", "flush", "join_workers"}
    BY DEF Inside, Submitting, Running, Rechecking
  <2>. QED
    BY <1>1, <1>3, <1>4, <1>6, <2>1, <2>2, <2>3 DEF Flushing, Spilling
<1>. QED
  BY <1>1, <1>3, <1>4, <1>5, <1>6

LEMMA RunStages ==
    ASSUME Sound, NEW t \in Threads, RunStep(t)
    PROVE  Stages'
<1>1. TypeOK /\ Stations /\ Stages
  BY DEF Sound
<1>2. /\ Flushing' <=> Flushing
      /\ Spilling' <=> Spilling
      /\ at'[Main] \in {"idle", "closed"} => at'[Main] = at[Main]
      /\ \A u \in Threads \ {t} : at'[u] = at[u]
      /\ at[t] \in Inside /\ at'[t] \in Inside \cup {back[t]}
  BY <1>1, RunKeepsLoops
<1>3. /\ UNCHANGED <<mWork, mIsRunning, scheduling>>
      /\ tasks' = tasks \/ (mIsRunning /\ scheduling)
  BY <1>1, RunEffect
<1>4. Workers \subseteq Threads /\ Drain \in Threads /\ Main \in Threads
  BY DEF Threads
<1>5. "idle" \notin Inside /\ "ended" \notin Inside /\ "drain_loop" \notin Inside
  BY DEF Inside, Submitting, Running, Rechecking
<1>6. at[Main] # "idle" => ~mIsRunning
  BY <1>1 DEF Stages
<1>7. at'[Main] # "idle" => at[Main] # "idle"
  <2>1. CASE t = Main
    BY <1>2, <1>5, <2>1
  <2>2. CASE t # Main
    BY <1>2, <1>4, <2>2
  <2>. QED
    BY <2>1, <2>2
<1>8. at[Drain] = "ended" => at'[Drain] = "ended"
  BY <1>2, <1>4, <1>5
<1>9. at'[Drain] \in {"drain_loop", "ended"} => at[Drain] = at'[Drain]
  <2>1. CASE t = Drain
    <3>1. Station(Drain, at[Drain], back[Drain])
      BY <1>1, <1>4 DEF Stations
    <3>2. back[Drain] = "drain_next"
      BY <1>2, <2>1, <3>1 DEF Station
    <3>. QED
      BY <1>2, <1>5, <2>1, <3>2
  <2>2. CASE t # Drain
    BY <1>2, <1>4, <2>2
  <2>. QED
    BY <2>1, <2>2
<1>10. (at'[Main] # "idle" => ~mIsRunning') /\ (Spilling' => ~scheduling')
  BY <1>1, <1>2, <1>3, <1>6, <1>7 DEF Stages
<1>11. Flushing' \/ Spilling' => at'[Drain] = "ended"
  BY <1>1, <1>2, <1>8 DEF Stages
<1>12. at'[Drain] \in {"drain_loop", "ended"} /\ ~Flushing' => mWork' = <<>>
  BY <1>1, <1>2, <1>3, <1>9 DEF Stages
<1>13. ASSUME at'[Main] = "closed"
       PROVE  tasks' = {} /\ \A w \in Workers : at'[w] = "idle"
  <2>1. at[Main] = "closed"
    BY <1>2, <1>13
  <2>2. tasks = {} /\ ~mIsRunning /\ \A w \in Workers : at[w] = "idle"
    BY <1>1, <2>1 DEF Stages
  <2>3. t \notin Workers
    BY <1>2, <1>5, <2>2
  <2>. QED
    BY <1>2, <1>3, <1>4, <2>2, <2>3
<1>. QED
  BY <1>10, <1>11, <1>12, <1>13 DEF Stages

\* A user's own steps leave the other threads where they are.
LEMMA UserEffect ==
    ASSUME Sound, NEW u \in Users,
           \/ \E p \in Promises :
                \/ Execute(u, p) \/ Queue(u, p)
                \/ \E kind \in {"wait", "lazy"} : StartWait(u, p, kind)
           \/ WaitStep(u)
    PROVE  /\ u \in Threads /\ Main \in Threads /\ Drain \in Threads
           /\ \A t \in Threads \ {u} :
                at'[t] = at[t] /\ cur'[t] = cur[t] /\ back'[t] = back[t]
           /\ at'[Main] = at[Main] /\ at'[Drain] = at[Drain]
           /\ Flushing' <=> Flushing
           /\ Spilling' <=> Spilling
           /\ tasks' \subseteq tasks
           /\ UNCHANGED <<mTask, mWork, mIsRunning, scheduling, history>>
<1>1. TypeOK /\ Stations
  BY DEF Sound
<1>2. u \in Threads /\ Main \in Threads /\ Drain \in Threads /\ u # Main /\ u # Drain
  BY ThreadsAssumption DEF Threads
<1>. DEFINE Own ==
       /\ \A t \in Threads \ {u} : at'[t] = at[t] /\ cur'[t] = cur[t] /\ back'[t] = back[t]
       /\ tasks' \subseteq tasks
       /\ UNCHANGED <<mTask, mWork, mIsRunning, scheduling, history>>
<1>3. Own
  <2>1. CASE WaitStep(u)
    <3>1. PICK to, b : /\ Move(u, to) /\ back' = [back EXCEPT ![u] = b]
                       /\ cur' = [cur EXCEPT ![u] = IF to = "idle" THEN None ELSE cur[u]]
      BY <1>1, <2>1, WaitEffect
    <3>2. tasks' \subseteq tasks /\ UNCHANGED <<promiseVars, mWork, mIsRunning, scheduling, history>>
      BY <1>1, <2>1, WaitEffect
    <3>. QED
      BY <1>1, <3>1, <3>2 DEF Move, TypeOK, Stations, promiseVars
  <2>2. ASSUME NEW p \in Promises, Queue(u, p)
        PROVE  Own
    BY <2>2 DEF Queue
  <2>3. ASSUME NEW p \in Promises, NEW to, Call(u, p, to, "idle"),
               UNCHANGED <<promiseVars, asyncVars, history>>
        PROVE  Own
    BY <1>1, <2>3 DEF Call, Move, TypeOK, Stations, promiseVars, asyncVars
  <2>. QED
    BY <2>1, <2>2, <2>3 DEF Execute, StartWait
<1>. QED
  BY <1>2, <1>3 DEF Flushing, Spilling

LEMMA UserStages ==
    ASSUME Sound, NEW u \in Users,
           \/ \E p \in Promises :
                \/ Execute(u, p) \/ Queue(u, p)
                \/ \E kind \in {"wait", "lazy"} : StartWait(u, p, kind)
           \/ WaitStep(u)
    PROVE  Stages'
<1>1. /\ at'[Main] = at[Main] /\ at'[Drain] = at[Drain]
      /\ Flushing' <=> Flushing
      /\ Spilling' <=> Spilling
      /\ tasks' \subseteq tasks
      /\ UNCHANGED <<mWork, mIsRunning, scheduling>>
      /\ \A t \in Threads \ {u} : at'[t] = at[t]
  BY UserEffect
<1>2. \A w \in Workers : w \in Threads \ {u}
  BY ThreadsAssumption DEF Threads
<1>. QED
  BY <1>1, <1>2 DEF Sound, Stages

LEMMA OwnerStages ==
    ASSUME Sound,
           \/ \E w \in Workers, p \in Promises : WorkerTake(w, p)
           \/ DrainSwap \/ DrainNext \/ ShutdownBegin \/ ShutdownStep
    PROVE  Stages'
<1>. USE DEF Sound, Stages, Flushing, Spilling, promiseVars, asyncVars, history
<1>1. Workers \subseteq Threads /\ Drain \in Threads /\ Main \in Threads
      /\ Main # Drain /\ Main \notin Workers /\ Drain \notin Workers
  BY ThreadsAssumption DEF Threads
<1>2. at \in [Threads -> Places] /\ back \in [Threads -> Backs]
  BY DEF Stations
<1>3. /\ "run_promise" \in Inside /\ "run" \in Inside
      /\ \A a \in Between : a \notin Inside
  BY DEF Inside, Submitting, Running, Rechecking, Between
<1>4. ASSUME NEW w \in Workers, NEW p \in Promises, WorkerTake(w, p)
      PROVE  Stages'
  BY <1>1, <1>2, <1>4 DEF WorkerTake, Call, Move
<1>5. CASE DrainSwap
  <2>1. at[Main] \notin Inside \cup {"flush", "join_workers", "closed"} \/ back[Main] \notin {"flush", "join_workers"}
    BY <1>5 DEF DrainSwap
  <2>. QED
    BY <1>1, <1>2, <1>5, <2>1 DEF DrainSwap, Move
<1>6. CASE DrainNext
  BY <1>1, <1>2, <1>6 DEF DrainNext, Call, Move
<1>7. CASE ShutdownBegin
  BY <1>1, <1>2, <1>3, <1>7 DEF ShutdownBegin, Move, Between
<1>8. CASE ShutdownFlush
  BY <1>1, <1>2, <1>3, <1>8 DEF ShutdownFlush, Move, Between
<1>9. CASE ShutdownFlushNext
  BY <1>1, <1>2, <1>3, <1>9 DEF ShutdownFlushNext, Call, Move
<1>10. CASE ShutdownScheduler
  BY <1>1, <1>2, <1>3, <1>10 DEF ShutdownScheduler, Call, Move, Between
<1>11. CASE ShutdownSpill
  BY <1>1, <1>2, <1>3, <1>11 DEF ShutdownSpill, Call, Move, Between
<1>. QED
  BY <1>4, <1>5, <1>6, <1>7, <1>8, <1>9, <1>10, <1>11 DEF ShutdownStep

LEMMA NextSound == Sound /\ [Next]_vars => Sound'
<1>. SUFFICES ASSUME Sound, [Next]_vars PROVE Sound'
  OBVIOUS
<1>1. TypeOK /\ Stations
  BY DEF Sound
<1>2. ASSUME NEW t \in Threads, RunStep(t) PROVE Sound'
  BY <1>1, <1>2, RunTypes, RunStages DEF Sound
<1>3. ASSUME NEW u \in Users, WaitStep(u) PROVE Sound'
  BY <1>1, <1>3, WaitTypes, UserStages DEF Sound
<1>4. ASSUME NEW u \in Users, NEW p \in Promises,
             \/ Execute(u, p) \/ Queue(u, p)
             \/ \E kind \in {"wait", "lazy"} : StartWait(u, p, kind)
      PROVE  Sound'
  BY <1>1, <1>4, StartTypes, UserStages DEF Sound
<1>5. CASE \/ \E w \in Workers, p \in Promises : WorkerTake(w, p)
           \/ DrainSwap \/ DrainNext \/ ShutdownBegin \/ ShutdownStep
  BY <1>1, <1>5, OwnerTypes, OwnerStages DEF Sound
<1>6. CASE UNCHANGED vars
  BY <1>6
  DEF Sound, TypeOK, Stations, Station, Stages, Flushing, Spilling, vars
<1>. QED
  BY <1>2, <1>3, <1>4, <1>5, <1>6 DEF Next

\* Every variable of the promise system keeps its type, and a thread inside an
\* operation holds the promise it works on.
THEOREM TypeCorrect == Spec => []TypeOK
<1>1. Spec => []Sound
  BY InitSound, NextSound, PTL DEF Spec
<1>2. Sound => TypeOK
  BY DEF Sound
<1>. QED
  BY <1>1, <1>2, PTL

-----------------------------------------------------------------------------
(***************************************************************************)
(* One execution: what a step does to the right to run p                   *)
(***************************************************************************)
Carrying == Submitting \cup Running

\* The right to run p stays where it is, or goes from list to list; thread t
\* does not have it.
LEMMA Shifted ==
    ASSUME NEW p \in Promises, HeldOnce(p), Progress(p), NEW t \in Threads,
           mState'[p] = mState[p], execs'[p] = execs[p], calls'[p] = calls[p],
           mTask[p] => mTask'[p],
           mTask'[p] => mTask[p] \/ mState[p] \in {"pending", "resolved"},
           p \in tasks' <=> p \in tasks,
           AtMostOne(BufferOf(p)'), AtMostOne(WorkOf(p)'), BufferOf(p)' = {} \/ WorkOf(p)' = {},
           BufferOf(p)' \cup WorkOf(p)' = {} <=> BufferOf(p) \cup WorkOf(p) = {},
           \A u \in Threads \ {t} : at'[u] = at[u] /\ cur'[u] = cur[u] /\ back'[u] = back[u],
           cur[t] = p => at[t] \notin Carrying,
           cur'[t] = p => at'[t] \notin Carrying /\ Holder(p, at'[t], back'[t])
    PROVE  HeldOnce(p)' /\ Progress(p)'
<1>1. CarriersOf(p)' = CarriersOf(p)
  BY DEF CarriersOf, Carrying
<1>2. HeldOnce(p)'
  <2>. HIDE DEF CarriersOf
  <2>. QED
    BY <1>1 DEF HeldOnce, AtMostOne
<1>4. ASSUME NEW u \in Threads, cur'[u] = p PROVE Holder(p, at[u], back[u])'
  <2>1. CASE u = t
    <3>1. Holder(p, at'[t], back'[t])
      BY <1>4, <2>1
    <3>. QED
      BY <2>1, <3>1 DEF Holder, Ran
  <2>2. CASE u # t
    <3>1. Holder(p, at[u], back[u]) /\ at'[u] = at[u] /\ back'[u] = back[u]
      BY <1>4, <2>2 DEF Progress
    <3>. QED
      BY <3>1 DEF Holder, Ran
  <2>. QED
    BY <2>1, <2>2
<1>5. BufferOf(p)' \cup WorkOf(p)' # {} <=> BufferOf(p) \cup WorkOf(p) # {}
  OBVIOUS
<1>6. BufferOf(p)' \cup WorkOf(p)' \cup CarriersOf(p)' = {} <=> BufferOf(p) \cup WorkOf(p) \cup CarriersOf(p) = {}
  BY <1>1, <1>5
<1>7. Progress(p)'
  BY <1>4, <1>5, <1>6 DEF Progress, Ran
<1>. QED
  BY <1>2, <1>7

LEMMA Untouched ==
    ASSUME NEW p \in Promises, HeldOnce(p), Progress(p), NEW t \in Threads,
           mState'[p] = mState[p], execs'[p] = execs[p], calls'[p] = calls[p],
           mTask[p] => mTask'[p],
           mTask'[p] => mTask[p] \/ mState[p] \in {"pending", "resolved"},
           p \in tasks' <=> p \in tasks,
           BufferOf(p)' = BufferOf(p),
           AtMostOne(WorkOf(p)'), WorkOf(p)' = {} <=> WorkOf(p) = {},
           \A u \in Threads \ {t} : at'[u] = at[u] /\ cur'[u] = cur[u] /\ back'[u] = back[u],
           cur[t] = p => at[t] \notin Carrying,
           cur'[t] = p => at'[t] \notin Carrying /\ Holder(p, at'[t], back'[t])
    PROVE  HeldOnce(p)' /\ Progress(p)'
<1>1. AtMostOne(BufferOf(p)') /\ (BufferOf(p)' = {} \/ WorkOf(p)' = {})
  BY DEF HeldOnce, AtMostOne
<1>. QED
  BY <1>1, Shifted

\* A thread that runs p has the only right to.
LEMMA Carried ==
    ASSUME NEW p \in Promises, HeldOnce(p), NEW t \in Threads, cur[t] = p, at[t] \in Carrying
    PROVE  /\ p \notin tasks /\ BufferOf(p) = {} /\ WorkOf(p) = {}
           /\ \A u \in Threads \ {t} : cur[u] = p => at[u] \notin Carrying
<1>1. t \in CarriersOf(p)
  BY DEF CarriersOf, Carrying
<1>2. p \notin tasks /\ BufferOf(p) = {} /\ WorkOf(p) = {} /\ \A u \in CarriersOf(p) : u = t
  <2>. HIDE DEF CarriersOf
  <2>. QED
    BY <1>1 DEF HeldOnce, AtMostOne
<1>. QED
  BY <1>2 DEF CarriersOf, Carrying

\* The only thread that has the right to run p keeps it, hands it to a task or
\* has used it.
LEMMA Carry ==
    ASSUME NEW p \in Promises, HeldOnce(p), Progress(p), NEW t \in Threads,
           cur[t] = p, at[t] \in Carrying,
           BufferOf(p)' = {}, WorkOf(p)' = {}, cur' = cur, back' = back,
           \A u \in Threads \ {t} : at'[u] = at[u],
           mTask'[p] = mTask[p],
           mState[p] \in {"pending", "resolved"} => mState'[p] \in {"pending", "resolved"},
           mState[p] = "resolved" => mState'[p] = "resolved",
           Holder(p, at[t], back[t])',
           \/ p \in tasks' /\ at'[t] \notin Carrying /\ mState'[p] = "pending" /\ Ran(p, 0)'
           \/ p \notin tasks' /\ at'[t] \in Carrying
           \/ p \notin tasks' /\ at'[t] \notin Carrying /\ mState'[p] = "resolved" /\ Ran(p, 1)'
    PROVE  HeldOnce(p)' /\ Progress(p)'
<1>1. /\ p \notin tasks
      /\ \A u \in Threads \ {t} : cur[u] = p => at[u] \notin Carrying
  BY Carried
<1>2. CarriersOf(p)' = IF at'[t] \in Carrying THEN {t} ELSE {}
  BY <1>1 DEF CarriersOf, Carrying
<1>3. HeldOnce(p)'
  <2>. HIDE DEF CarriersOf
  <2>. QED
    BY <1>2 DEF HeldOnce, AtMostOne
<1>4. ASSUME NEW u \in Threads, cur'[u] = p PROVE Holder(p, at[u], back[u])'
  <2>1. CASE u = t
    BY <2>1
  <2>2. CASE u # t
    <3>1. Holder(p, at[u], back[u]) /\ at[u] \notin Carrying /\ at'[u] = at[u] /\ back'[u] = back[u]
      BY <1>1, <1>4, <2>2 DEF Progress
    <3>. QED
      BY <3>1 DEF Holder, Ran, Carrying, Submitting, Running
  <2>. QED
    BY <2>1, <2>2
<1>5. p \in tasks' => mState'[p] = "pending" /\ Ran(p, 0)'
  OBVIOUS
<1>6. p \notin tasks' /\ CarriersOf(p)' = {} => mState'[p] = "resolved" /\ Ran(p, 1)'
  BY <1>2
<1>7. mTask'[p] => mState'[p] \in {"pending", "resolved"}
  BY DEF Progress
<1>8. Progress(p)'
  BY <1>4, <1>5, <1>6, <1>7 DEF Progress, Ran
<1>. QED
  BY <1>3, <1>8

-----------------------------------------------------------------------------
\* The right to run p leaves its task, or a list, and a thread t that did not
\* run it goes on with it.
LEMMA Taken ==
    ASSUME NEW p \in Promises, HeldOnce(p), Progress(p), NEW t \in Threads,
           p \in tasks \/ WorkOf(p) # {},
           mState'[p] = mState[p], mTask'[p] = mTask[p],
           execs'[p] = execs[p], calls'[p] = calls[p],
           p \notin tasks', BufferOf(p)' = {}, WorkOf(p)' = {},
           \A u \in Threads \ {t} : at'[u] = at[u] /\ cur'[u] = cur[u] /\ back'[u] = back[u],
           cur'[t] = p, at'[t] = IF p \in tasks THEN "run" ELSE "run_promise",
           back'[t] \notin {"returned", "lazy"}, back'[t] = "wait_spin" => mTask[p]
    PROVE  HeldOnce(p)' /\ Progress(p)'
<1>1. CarriersOf(p) = {}
  <2>. HIDE DEF CarriersOf
  <2>. QED
    BY DEF HeldOnce
<1>2. CarriersOf(p)' = {t}
  BY <1>1 DEF CarriersOf, Submitting, Running
<1>3. HeldOnce(p)'
  <2>. HIDE DEF CarriersOf
  <2>. QED
    BY <1>2 DEF HeldOnce, AtMostOne
<1>4. /\ p \in tasks => mState[p] = "pending" /\ Ran(p, 0)
      /\ p \notin tasks => p \in Deferred /\ mState[p] = "queued" /\ Ran(p, 0)
  BY DEF Progress
<1>5. Holder(p, at[t], back[t])'
  BY <1>4 DEF Holder, Ran, Submitting, Running, Rechecking, Waiting
<1>6. ASSUME NEW u \in Threads, cur'[u] = p PROVE Holder(p, at[u], back[u])'
  <2>1. CASE u = t
    BY <1>5, <2>1
  <2>2. CASE u # t
    <3>1. Holder(p, at[u], back[u]) /\ at'[u] = at[u] /\ back'[u] = back[u]
      BY <1>6, <2>2 DEF Progress
    <3>. QED
      BY <3>1 DEF Holder, Ran
  <2>. QED
    BY <2>1, <2>2
<1>7. mTask'[p] => mState'[p] \in {"pending", "resolved"}
  BY DEF Progress
<1>8. Progress(p)'
  BY <1>2, <1>6, <1>7 DEF Progress
<1>. QED
  BY <1>3, <1>8

\* A promise that nobody has started has no right to run anywhere.
LEMMA NotStarted ==
    ASSUME NEW p \in Promises, HeldOnce(p), Progress(p), mState[p] = "null"
    PROVE  /\ p \notin tasks /\ BufferOf(p) = {} /\ WorkOf(p) = {} /\ Ran(p, 0) /\ ~mTask[p]
           /\ p \in Deferred => CarriersOf(p) = {}
           /\ \A t \in Threads : cur[t] = p => at[t] \notin Waiting \cup {"run_settask"}
           /\ \A t \in Threads : cur[t] = p => at[t] \notin Rechecking
<1>1. p \notin tasks /\ BufferOf(p) = {} /\ WorkOf(p) = {} /\ ~mTask[p]
  BY DEF Progress
<1>2. \A t \in Threads : cur[t] = p => Holder(p, at[t], back[t])
  BY DEF Progress
<1>3. \A t \in Threads : cur[t] = p => at[t] \notin Waiting \cup {"run_settask"} \cup Rechecking
  BY <1>1, <1>2 DEF Holder
<1>4. \A t \in CarriersOf(p) : p \notin Deferred /\ Ran(p, 0)
  BY <1>2 DEF CarriersOf, Holder, Submitting, Running
<1>5. Ran(p, 0)
  BY <1>1, <1>4 DEF Progress
<1>. QED
  BY <1>1, <1>3, <1>4, <1>5

\* A promise that is put in the list of AsyncImpl, or that is put there when
\* Shutdown has copied the list, which is never looked at again.
LEMMA Listed ==
    ASSUME NEW p \in Promises, HeldOnce(p), Progress(p), NEW t \in Threads,
           p \in Deferred, mState[p] = "null", mState'[p] = "queued",
           mTask'[p] = mTask[p], execs'[p] = execs[p], calls'[p] = calls[p],
           p \in tasks' <=> p \in tasks,
           AtMostOne(BufferOf(p)'), WorkOf(p)' = WorkOf(p),
           cur' = cur, \A u \in Threads : cur[u] = p => at'[u] = at[u] /\ back'[u] = back[u]
    PROVE  HeldOnce(p)' /\ Progress(p)'
<1>1. /\ p \notin tasks /\ BufferOf(p) = {} /\ WorkOf(p) = {} /\ Ran(p, 0) /\ ~mTask[p]
      /\ CarriersOf(p) = {}
      /\ \A u \in Threads : cur[u] = p => at[u] \notin Waiting \cup {"run_settask"} \cup Rechecking
  BY NotStarted
<1>2. CarriersOf(p)' = {}
  BY <1>1 DEF CarriersOf
<1>3. HeldOnce(p)'
  <2>. HIDE DEF CarriersOf
  <2>. QED
    BY <1>1, <1>2 DEF HeldOnce, AtMostOne
<1>4. ASSUME NEW u \in Threads, cur'[u] = p PROVE Holder(p, at[u], back[u])'
  <2>1. at'[u] = at[u] /\ at[u] \notin Waiting \cup {"run_settask"} \cup Rechecking
    BY <1>1, <1>4
  <2>2. at[u] \notin Submitting \cup Running
    BY <1>1, <1>4 DEF CarriersOf
  <2>. QED
    BY <2>1, <2>2 DEF Holder, Submitting, Running, Waiting
<1>5. Ran(p, 0)'
  BY <1>1 DEF Ran
<1>6. Progress(p)'
  BY <1>1, <1>4, <1>5 DEF Progress
<1>. QED
  BY <1>3, <1>6

-----------------------------------------------------------------------------
(***************************************************************************)
(* The lists                                                               *)
(***************************************************************************)
LEMMA SameBuffer ==
    ASSUME NEW p \in Promises, mBuffer' = mBuffer, Flushing' <=> Flushing
    PROVE  BufferOf(p)' = BufferOf(p)
  BY DEF BufferOf

LEMMA SameWork ==
    ASSUME NEW p \in Promises, mWork' = mWork
    PROVE  WorkOf(p)' = WorkOf(p)
  BY DEF WorkOf

LEMMA AppendBuffer ==
    ASSUME mBuffer \in Seq(Promises), NEW p \in Promises, NEW q \in Promises,
           mBuffer' = Append(mBuffer, q), Flushing' <=> Flushing
    PROVE  BufferOf(p)' = BufferOf(p) \cup (IF p = q /\ ~Flushing THEN {Len(mBuffer) + 1} ELSE {})
<1>1. /\ Len(mBuffer) \in Nat /\ DOMAIN mBuffer = 1 .. Len(mBuffer)
      /\ DOMAIN mBuffer' = 1 .. Len(mBuffer) + 1
      /\ mBuffer'[Len(mBuffer) + 1] = q
      /\ \A n \in 1 .. Len(mBuffer) : mBuffer'[n] = mBuffer[n]
  OBVIOUS
<1>2. ASSUME NEW n PROVE n \in BufferOf(p)' <=> n \in BufferOf(p) \/ (n = Len(mBuffer) + 1 /\ p = q /\ ~Flushing)
  <2>1. CASE n \in 1 .. Len(mBuffer)
    <3>1. n \in 1 .. Len(mBuffer) + 1 /\ n # Len(mBuffer) + 1 /\ mBuffer'[n] = mBuffer[n]
      BY <1>1, <2>1
    <3>. QED
      BY <1>1, <2>1, <3>1 DEF BufferOf
  <2>2. CASE n = Len(mBuffer) + 1
    <3>1. n \in DOMAIN mBuffer' /\ n \notin DOMAIN mBuffer /\ mBuffer'[n] = q
      BY <1>1, <2>2
    <3>. QED
      BY <2>2, <3>1 DEF BufferOf
  <2>3. CASE n \notin 1 .. Len(mBuffer) + 1
    <3>1. n \notin DOMAIN mBuffer' /\ n \notin DOMAIN mBuffer /\ n # Len(mBuffer) + 1
      BY <1>1, <2>3
    <3>. QED
      BY <3>1 DEF BufferOf
  <2>. QED
    BY <1>1, <2>1, <2>2, <2>3
<1>. QED
  BY <1>2

LEMMA TailWork ==
    ASSUME mWork \in Seq(Promises), mWork # <<>>, mWork' = Tail(mWork), NEW p \in Promises,
           AtMostOne(WorkOf(p))
    PROVE  /\ AtMostOne(WorkOf(p)')
           /\ p = Head(mWork) => WorkOf(p) # {} /\ WorkOf(p)' = {}
           /\ p # Head(mWork) => (WorkOf(p)' = {} <=> WorkOf(p) = {})
<1>1. /\ Len(mWork) \in Nat /\ Len(mWork) > 0 /\ DOMAIN mWork = 1 .. Len(mWork)
      /\ DOMAIN mWork' = 1 .. Len(mWork) - 1
      /\ \A n \in 1 .. Len(mWork) - 1 : mWork'[n] = mWork[n + 1]
      /\ Head(mWork) = mWork[1]
  OBVIOUS
<1>2. ASSUME NEW n \in WorkOf(p)' PROVE n \in Nat /\ n > 0 /\ n + 1 \in WorkOf(p)
  <2>1. n \in 1 .. Len(mWork) - 1 /\ mWork'[n] = p
    BY <1>1 DEF WorkOf
  <2>2. n \in Nat /\ n > 0 /\ n + 1 \in 1 .. Len(mWork) /\ mWork[n + 1] = p
    BY <1>1, <2>1
  <2>. QED
    BY <1>1, <2>2 DEF WorkOf
<1>3. ASSUME NEW n \in WorkOf(p), n # 1 PROVE n - 1 \in WorkOf(p)'
  <2>1. n \in 1 .. Len(mWork) /\ mWork[n] = p
    BY <1>1 DEF WorkOf
  <2>2. n - 1 \in 1 .. Len(mWork) - 1 /\ mWork'[n - 1] = mWork[(n - 1) + 1] /\ (n - 1) + 1 = n
    BY <1>1, <1>3, <2>1
  <2>. QED
    BY <1>1, <2>1, <2>2 DEF WorkOf
<1>4. p = mWork[1] <=> 1 \in WorkOf(p)
  BY <1>1 DEF WorkOf
<1>5. AtMostOne(WorkOf(p)')
  <2>. SUFFICES ASSUME NEW x \in WorkOf(p)', NEW y \in WorkOf(p)' PROVE x = y
    BY DEF AtMostOne
  <2>1. x \in Nat /\ y \in Nat /\ x + 1 = y + 1
    BY <1>2 DEF AtMostOne
  <2>. QED
    BY <2>1
<1>6. p = Head(mWork) => WorkOf(p) # {} /\ WorkOf(p)' = {}
  <2>. SUFFICES ASSUME p = Head(mWork) PROVE WorkOf(p) # {} /\ WorkOf(p)' = {}
    OBVIOUS
  <2>1. 1 \in WorkOf(p)
    BY <1>1, <1>4
  <2>2. ASSUME NEW n \in WorkOf(p)' PROVE FALSE
    <3>1. n \in Nat /\ n > 0 /\ n + 1 = 1
      BY <1>2, <2>1 DEF AtMostOne
    <3>. QED
      BY <3>1
  <2>. QED
    BY <2>1, <2>2
<1>7. p # Head(mWork) => (WorkOf(p)' = {} <=> WorkOf(p) = {})
  <2>. SUFFICES ASSUME p # Head(mWork) PROVE WorkOf(p)' = {} <=> WorkOf(p) = {}
    OBVIOUS
  <2>1. 1 \notin WorkOf(p)
    BY <1>1, <1>4
  <2>. QED
    BY <1>2, <1>3, <2>1
<1>. QED
  BY <1>5, <1>6, <1>7

-----------------------------------------------------------------------------
(***************************************************************************)
(* One execution: the steps of Run and RunPromise                          *)
(***************************************************************************)
\* Thread t works on another promise, which may queue p when it is run.
LEMMA RunOfAnother ==
    ASSUME Sound, NEW p \in Promises, HeldOnce(p), Progress(p), NEW t \in Threads, RunStep(t),
           cur[t] # p
    PROVE  HeldOnce(p)' /\ Progress(p)'
<1>1. TypeOK /\ Stations
  BY DEF Sound
<1>2. Flushing' <=> Flushing
  BY <1>1, RunKeepsLoops
<1>3. cur[t] \in Promises /\ UNCHANGED <<mWork, cur, back>>
      /\ (p \in tasks' <=> p \in tasks)
  BY <1>1, RunEffect
<1>4. \A u \in Threads \ {t} : at'[u] = at[u] /\ cur'[u] = cur[u] /\ back'[u] = back[u]
  BY <1>1, <1>3, RunKeepsLoops
<1>5. AtMostOne(WorkOf(p)') /\ WorkOf(p)' = WorkOf(p)
  BY <1>3, SameWork DEF HeldOnce, AtMostOne
<1>. DEFINE q == Chained[cur[t]]
<1>6. q \in Deferred \cup {None}
  BY <1>3, PromiseAssumption
<1>7. mTask'[p] = mTask[p] /\ execs'[p] = execs[p] /\ calls'[p] = calls[p]
  <2>. USE DEF TypeOK, promiseVars, asyncVars, history
  <2>1. CASE RunPromiseCheck(t) \/ RunCheck(t) \/ RunPromisePending(t) \/ RunStore(t)
    BY <2>1 DEF RunPromiseCheck, RunCheck, RunPromisePending, RunStore
  <2>2. CASE RunPromiseSubmit(t) \/ RunLoad(t) \/ ResolveCheck(t) \/ ResolveStore(t)
    BY <2>2 DEF RunPromiseSubmit, RunLoad, ResolveCheck, ResolveStore
  <2>3. CASE RunPromiseSetTask(t)
    BY <1>1, <2>3 DEF RunPromiseSetTask
  <2>4. CASE Executor(t)
    <3>1. mTask' = mTask /\ execs' = [execs EXCEPT ![cur[t]] = @ + 1]
          /\ (calls' = calls \/ calls' = [calls EXCEPT ![cur[t]] = @ + 1])
      BY <2>4 DEF Executor
    <3>. QED
      BY <1>1, <3>1
  <2>. QED
    BY <2>1, <2>2, <2>3, <2>4 DEF RunStep
<1>8. \/ mBuffer' = mBuffer /\ mState'[p] = mState[p]
      \/ /\ q # None /\ mState[q] = "null" /\ mBuffer' = Append(mBuffer, q)
         /\ mState' = [mState EXCEPT ![q] = "queued"]
  <2>. USE DEF TypeOK, promiseVars, asyncVars, history
  <2>1. CASE Executor(t)
    BY <2>1 DEF Executor
  <2>2. CASE RunPromisePending(t) \/ RunStore(t) \/ ResolveStore(t)
    BY <1>1, <2>2 DEF RunPromisePending, RunStore, ResolveStore
  <2>3. CASE RunPromiseCheck(t) \/ RunCheck(t) \/ RunPromiseSubmit(t) \/ RunPromiseSetTask(t)
             \/ RunLoad(t) \/ ResolveCheck(t)
    BY <2>3 DEF RunPromiseCheck, RunCheck, RunPromiseSubmit, RunPromiseSetTask, RunLoad, ResolveCheck
  <2>. QED
    BY <2>1, <2>2, <2>3 DEF RunStep
<1>. HIDE DEF q
<1>9. ASSUME BufferOf(p)' = BufferOf(p), mState'[p] = mState[p]
      PROVE  HeldOnce(p)' /\ Progress(p)'
  BY <1>3, <1>4, <1>5, <1>7, <1>9, Untouched
<1>10. CASE mBuffer' = mBuffer /\ mState'[p] = mState[p]
  BY <1>2, <1>9, <1>10, SameBuffer
<1>11. CASE /\ q # None /\ mState[q] = "null" /\ mBuffer' = Append(mBuffer, q)
            /\ mState' = [mState EXCEPT ![q] = "queued"]
  <2>1. q \in Deferred /\ q \in Promises /\ mBuffer \in Seq(Promises)
    BY <1>1, <1>6, <1>11, PromiseAssumption DEF TypeOK
  <2>2. BufferOf(p)' = BufferOf(p) \cup (IF p = q /\ ~Flushing THEN {Len(mBuffer) + 1} ELSE {})
    BY <1>2, <1>11, <2>1, AppendBuffer
  <2>3. CASE p # q
    BY <1>1, <1>9, <1>11, <2>2, <2>3 DEF TypeOK
  <2>4. CASE p = q
    <3>1. mState[p] = "null" /\ mState'[p] = "queued" /\ p \in Deferred
      BY <1>1, <1>11, <2>1, <2>4 DEF TypeOK
    <3>2. BufferOf(p) = {}
      BY <3>1, NotStarted
    <3>3. AtMostOne(BufferOf(p)')
      BY <2>2, <3>2 DEF AtMostOne
    <3>4. \A u \in Threads : cur[u] = p => at'[u] = at[u] /\ back'[u] = back[u]
      BY <1>4
    <3>. QED
      BY <1>3, <1>5, <1>7, <3>1, <3>3, <3>4, Listed
  <2>. QED
    BY <2>3, <2>4
<1>. QED
  BY <1>8, <1>10, <1>11

\* Thread t works on p.
LEMMA RunOfOwn ==
    ASSUME Sound, NEW p \in Promises, HeldOnce(p), Progress(p), NEW t \in Threads, RunStep(t),
           cur[t] = p
    PROVE  HeldOnce(p)' /\ Progress(p)' /\ reported' = reported
<1>1. TypeOK /\ Stations
  BY DEF Sound
<1>2. Flushing' <=> Flushing
  BY <1>1, RunKeepsLoops
<1>3. UNCHANGED <<mWork, cur, back>>
  BY <1>1, RunEffect
<1>4. \A u \in Threads \ {t} : at'[u] = at[u] /\ cur'[u] = cur[u] /\ back'[u] = back[u]
  BY <1>1, <1>3, RunKeepsLoops
<1>5. WorkOf(p)' = WorkOf(p)
  BY <1>3, SameWork
<1>6. Holder(p, at[t], back[t])
  BY DEF Progress
<1>7. \A to : Move(t, to) => at'[t] = to
  BY <1>1 DEF Move, Stations
<1>8. back[t] \notin Carrying \cup Waiting \/ at[t] \notin Submitting \cup {"run_settask"}
  <2>1. Station(t, at[t], back[t])
    BY <1>1 DEF Stations
  <2>2. at[t] \in Submitting \cup {"run_settask"} => back[t] \in {"idle", "drain_next", "flush"}
    BY <2>1 DEF Station, Threads, Inside, Submitting, Running, Rechecking
  <2>. QED
    BY <2>2 DEF Carrying, Submitting, Running, Waiting
<1>9. back[t] \in Backs
  BY <1>1 DEF Stations
<1>10. ASSUME mBuffer' = mBuffer PROVE BufferOf(p)' = BufferOf(p)
  BY <1>2, <1>10, SameBuffer
<1>11. ASSUME at[t] \in Carrying
       PROVE  p \notin tasks /\ BufferOf(p) = {} /\ WorkOf(p) = {}
  BY <1>11, Carried
<1>12. ASSUME NEW a \in Backs \ {"returned"}, a \in Waiting => mTask[p]
       PROVE  a \notin Carrying /\ \A b : Holder(p, a, b)
  BY <1>12 DEF Backs, Carrying, Holder, Submitting, Running, Rechecking, Waiting
<1>13. CASE RunPromiseCheck(t)
  <2>1. at[t] = "run_promise" /\ Fresh(cur[t])
    BY <1>6, <1>13 DEF RunPromiseCheck, Holder, Fresh
  <2>2. at'[t] = "run_pending" /\ UNCHANGED <<promiseVars, asyncVars, execs, calls, reported>>
    BY <1>7, <1>13, <2>1 DEF RunPromiseCheck
  <2>3. Holder(p, at[t], back[t])'
    BY <1>3, <1>6, <2>1, <2>2 DEF Holder, Ran, promiseVars, Submitting, Running, Rechecking, Waiting
  <2>. QED
    BY <1>3, <1>4, <1>5, <1>10, <1>11, <2>1, <2>2, <2>3, Carry
    DEF promiseVars, asyncVars, Carrying, Submitting
<1>14. CASE RunPromisePending(t)
  <2>1. at[t] = "run_pending" /\ at'[t] = "run_submit"
        /\ mState' = [mState EXCEPT ![p] = "pending"]
        /\ UNCHANGED <<mTask, asyncVars, history>>
    BY <1>7, <1>14 DEF RunPromisePending
  <2>2. mState'[p] = "pending" /\ mState[p] \notin {"pending", "resolved"}
    BY <1>1, <1>6, <2>1 DEF TypeOK, Holder
  <2>3. Holder(p, at[t], back[t])'
    BY <1>6, <2>1, <2>2 DEF Holder, Ran, history, Submitting, Running, Rechecking, Waiting
  <2>. QED
    BY <1>3, <1>4, <1>5, <1>10, <1>11, <2>1, <2>2, <2>3, Carry
    DEF asyncVars, history, Carrying, Submitting
<1>15. CASE RunPromiseSubmit(t)
  <2>1. /\ at[t] = "run_submit"
        /\ \/ at'[t] = "run_settask" /\ tasks' = tasks \cup {p}
           \/ at'[t] = "run" /\ tasks' = tasks
        /\ UNCHANGED <<promiseVars, mBuffer, history>>
    BY <1>7, <1>15 DEF RunPromiseSubmit
  <2>2. mState[p] = "pending" /\ Ran(p, 0)
    BY <1>6, <2>1 DEF Holder
  <2>3. back[t] \notin {"returned", "lazy", "wait_spin"}
    BY <1>8, <2>1 DEF Submitting, Waiting
  <2>4. Holder(p, at[t], back[t])'
    BY <1>3, <2>1, <2>2, <2>3
    DEF Holder, Ran, promiseVars, history, Submitting, Running, Rechecking, Waiting
  <2>5. Ran(p, 0)'
    BY <2>1, <2>2 DEF Ran, history
  <2>6. at[t] \in Carrying /\ "run" \in Carrying /\ "run_settask" \notin Carrying
    BY <2>1 DEF Carrying, Submitting, Running
  <2>7. mState' = mState /\ mTask' = mTask
    BY <2>1 DEF promiseVars
  <2>8. \/ p \in tasks' /\ at'[t] \notin Carrying
        \/ p \notin tasks' /\ at'[t] \in Carrying
    BY <1>11, <2>1, <2>6
  <2>9. BufferOf(p)' = {} /\ WorkOf(p)' = {}
    BY <1>5, <1>10, <1>11, <2>1, <2>6
  <2>10. HeldOnce(p)' /\ Progress(p)'
    BY <1>3, <1>4, <2>2, <2>4, <2>5, <2>6, <2>7, <2>8, <2>9, Carry
  <2>. QED
    BY <2>1, <2>10 DEF history
<1>16. CASE RunPromiseSetTask(t)
  <2>1. /\ at[t] = "run_settask" /\ at'[t] = back[t] /\ mTask' = [mTask EXCEPT ![p] = TRUE]
        /\ UNCHANGED <<mState, asyncVars, history>>
    BY <1>7, <1>16 DEF RunPromiseSetTask
  <2>2. mState[p] \in {"pending", "resolved"}
    BY <1>6, <2>1 DEF Holder
  <2>3. at[t] \notin Carrying /\ back[t] \notin Carrying \cup Waiting
    BY <1>8, <2>1 DEF Carrying, Submitting, Running
  <2>4. at'[t] \notin Carrying /\ Holder(p, at'[t], back'[t])
    BY <1>9, <1>12, <2>1, <2>3 DEF Waiting
  <2>5. mTask[p] => mTask'[p]
    BY <1>1, <2>1 DEF TypeOK
  <2>6. WorkOf(p)' = {} <=> WorkOf(p) = {}
    BY <1>5
  <2>7. AtMostOne(WorkOf(p)')
    BY <1>5 DEF HeldOnce, AtMostOne
  <2>8. HeldOnce(p)' /\ Progress(p)'
    BY <1>4, <1>10, <2>1, <2>2, <2>3, <2>4, <2>5, <2>6, <2>7, Untouched
    DEF asyncVars, history
  <2>. QED
    BY <2>1, <2>8 DEF history
<1>17. CASE RunLoad(t)
  <2>1. /\ at[t] = "run" /\ UNCHANGED <<promiseVars, asyncVars, history>>
        /\ at'[t] = IF Fresh(p) THEN "run_check" ELSE "exec"
    BY <1>7, <1>17 DEF RunLoad
  <2>2. mState[p] = "pending" /\ Ran(p, 0) /\ back[t] \notin {"returned", "lazy"}
        /\ (back[t] = "wait_spin" => mTask[p])
    BY <1>6, <2>1 DEF Holder, Running
  <2>3. at'[t] = "exec"
    BY <2>1, <2>2 DEF Fresh
  <2>4. Holder(p, at[t], back[t])'
    BY <1>3, <2>1, <2>2, <2>3
    DEF Holder, Ran, promiseVars, history, Submitting, Running, Rechecking, Waiting
  <2>5. at[t] \in Carrying /\ at'[t] \in Carrying
    BY <2>1, <2>3 DEF Carrying, Running
  <2>6. HeldOnce(p)' /\ Progress(p)'
    BY <1>3, <1>4, <1>5, <1>10, <1>11, <2>1, <2>4, <2>5, Carry
    DEF promiseVars, asyncVars
  <2>. QED
    BY <2>1, <2>6 DEF history
<1>18. CASE RunCheck(t) \/ RunStore(t)
  BY <1>6, <1>18 DEF RunCheck, RunStore, Holder, Rechecking
<1>19. CASE Executor(t)
  <2>. DEFINE q == Chained[p]
  <2>1. at[t] = "exec" /\ mState[p] = "pending" /\ Ran(p, 0) /\ back[t] \notin {"returned", "lazy"}
        /\ (back[t] = "wait_spin" => mTask[p])
    BY <1>6, <1>19 DEF Executor, Holder, Running
  <2>2. /\ at'[t] = "resolve"
        /\ execs' = [execs EXCEPT ![p] = @ + 1] /\ calls' = [calls EXCEPT ![p] = @ + 1]
        /\ UNCHANGED <<mTask, tasks, reported>>
    BY <1>7, <1>19, <2>1 DEF Executor
  <2>3. \/ mBuffer' = mBuffer /\ mState' = mState
        \/ /\ q # None /\ mState[q] = "null" /\ mBuffer' = Append(mBuffer, q)
           /\ mState' = [mState EXCEPT ![q] = "queued"]
    BY <1>19 DEF Executor
  <2>4. q \in Deferred \cup {None}
    BY PromiseAssumption
  <2>. HIDE DEF q
  <2>5. at[t] \in Carrying /\ at'[t] \in Carrying
    BY <2>1, <2>2 DEF Carrying, Running
  <2>6. p \notin tasks /\ BufferOf(p) = {} /\ WorkOf(p) = {}
    BY <1>11, <2>5
  <2>7. mState'[p] = "pending" /\ BufferOf(p)' = {}
    <3>1. CASE mBuffer' = mBuffer /\ mState' = mState
      BY <1>10, <2>1, <2>6, <3>1
    <3>2. CASE /\ q # None /\ mState[q] = "null" /\ mBuffer' = Append(mBuffer, q)
               /\ mState' = [mState EXCEPT ![q] = "queued"]
      <4>1. q \in Promises /\ q # p /\ mBuffer \in Seq(Promises)
        BY <1>1, <2>1, <2>4, <3>2, PromiseAssumption DEF TypeOK
      <4>2. BufferOf(p)' = BufferOf(p) \cup (IF p = q /\ ~Flushing THEN {Len(mBuffer) + 1} ELSE {})
        BY <1>2, <3>2, <4>1, AppendBuffer
      <4>. QED
        BY <1>1, <2>1, <2>6, <3>2, <4>1, <4>2 DEF TypeOK
    <3>. QED
      BY <2>3, <3>1, <3>2
  <2>8. execs'[p] = 1 /\ calls'[p] = 1
    BY <1>1, <2>1, <2>2 DEF TypeOK, Ran
  <2>9. Holder(p, at[t], back[t])'
    BY <1>3, <2>1, <2>2, <2>7, <2>8
    DEF Holder, Ran, Submitting, Running, Rechecking, Waiting
  <2>10. HeldOnce(p)' /\ Progress(p)'
    BY <1>3, <1>4, <1>5, <2>1, <2>2, <2>5, <2>6, <2>7, <2>9, Carry
  <2>. QED
    BY <2>2, <2>10
<1>20. CASE ResolveCheck(t)
  <2>1. at[t] = "resolve" /\ mState[p] = "pending" /\ Ran(p, 1) /\ back[t] \notin {"returned", "lazy"}
        /\ (back[t] = "wait_spin" => mTask[p])
    BY <1>6, <1>20 DEF ResolveCheck, Holder, Running
  <2>2. /\ at'[t] = "resolve_store"
        /\ UNCHANGED <<mState, mTask, asyncVars, execs, calls, reported>>
    BY <1>7, <1>20, <2>1 DEF ResolveCheck
  <2>3. Holder(p, at[t], back[t])'
    BY <1>3, <2>1, <2>2
    DEF Holder, Ran, Submitting, Running, Rechecking, Waiting
  <2>4. at[t] \in Carrying /\ at'[t] \in Carrying
    BY <2>1, <2>2 DEF Carrying, Running
  <2>5. HeldOnce(p)' /\ Progress(p)'
    BY <1>3, <1>4, <1>5, <1>10, <1>11, <2>2, <2>3, <2>4, Carry DEF asyncVars
  <2>. QED
    BY <2>2, <2>5
<1>21. CASE ResolveStore(t)
  <2>1. at[t] = "resolve_store" /\ mState[p] = "pending" /\ Ran(p, 1) /\ back[t] \notin {"returned", "lazy"}
        /\ (back[t] = "wait_spin" => mTask[p])
    BY <1>6, <1>21 DEF ResolveStore, Holder, Running
  <2>2. /\ at'[t] = back[t] /\ mState' = [mState EXCEPT ![p] = "resolved"]
        /\ UNCHANGED <<mTask, asyncVars, history>>
    BY <1>7, <1>21 DEF ResolveStore
  <2>3. mState'[p] = "resolved" /\ Ran(p, 1)'
    BY <1>1, <2>1, <2>2 DEF TypeOK, Ran, history
  <2>4. back[t] \in Waiting => mTask'[p]
    BY <1>9, <2>1, <2>2 DEF Backs, Waiting
  <2>5. back[t] \notin Carrying
    BY <1>9 DEF Backs, Carrying, Submitting, Running
  <2>6. Holder(p, at[t], back[t])'
    BY <1>3, <1>9, <2>2, <2>3, <2>4, <2>5
    DEF Holder, Backs, Carrying, Submitting, Running, Rechecking
  <2>7. at[t] \in Carrying
    BY <2>1 DEF Carrying, Running
  <2>8. HeldOnce(p)' /\ Progress(p)'
    BY <1>3, <1>4, <1>5, <1>10, <1>11, <2>1, <2>2, <2>3, <2>5, <2>6, <2>7, Carry
    DEF asyncVars
  <2>. QED
    BY <2>2, <2>8 DEF history
<1>. QED
  BY <1>13, <1>14, <1>15, <1>16, <1>17, <1>18, <1>19, <1>20, <1>21 DEF RunStep, history

LEMMA RunOneRun ==
    ASSUME RunInv, NEW t \in Threads, RunStep(t)
    PROVE  OneRun' /\ reported' \subseteq Shared
<1>1. Sound /\ OneRun /\ reported \subseteq Shared
  BY DEF RunInv
<1>2. cur[t] \in Promises
  BY <1>1, RunEffect DEF Sound
<1>3. ASSUME NEW p \in Unshared PROVE HeldOnce(p)' /\ Progress(p)'
  <2>1. p \in Promises /\ HeldOnce(p) /\ Progress(p)
    BY <1>1 DEF OneRun, Unshared
  <2>. QED
    BY <1>1, <2>1, RunOfAnother, RunOfOwn
<1>4. reported' \subseteq Shared
  <2>1. CASE cur[t] \in Unshared
    BY <1>1, <2>1, RunOfOwn DEF OneRun, Unshared
  <2>2. CASE cur[t] \in Shared
    <3>1. reported' = reported \/ Report(t)
      BY DEF RunStep, RunPromiseCheck, RunPromisePending, RunPromiseSubmit, RunPromiseSetTask,
         RunLoad, RunCheck, RunStore, Executor, ResolveCheck, ResolveStore, history
    <3>. QED
      BY <1>1, <2>2, <3>1 DEF Report
  <2>. QED
    BY <1>2, <2>1, <2>2 DEF Unshared
<1>5. Unshared' = Unshared
  BY DEF Unshared, Shared
<1>. QED
  BY <1>3, <1>4, <1>5 DEF OneRun

-----------------------------------------------------------------------------
(***************************************************************************)
(* One execution: the steps of the users                                   *)
(***************************************************************************)
\* User u leaves the lists alone and does not have the right to run p.
LEMMA UserUntouched ==
    ASSUME Sound, NEW p \in Promises, HeldOnce(p), Progress(p), NEW u \in Threads,
           mState'[p] = mState[p], mTask'[p] = mTask[p], execs'[p] = execs[p], calls'[p] = calls[p],
           p \in tasks' <=> p \in tasks,
           mBuffer' = mBuffer, Flushing' <=> Flushing, mWork' = mWork,
           \A t \in Threads \ {u} : at'[t] = at[t] /\ cur'[t] = cur[t] /\ back'[t] = back[t],
           cur[u] = p => at[u] \notin Carrying,
           cur'[u] = p => at'[u] \notin Carrying /\ Holder(p, at'[u], back'[u])
    PROVE  HeldOnce(p)' /\ Progress(p)'
<1>1. BufferOf(p)' = BufferOf(p) /\ WorkOf(p)' = WorkOf(p)
  BY SameBuffer, SameWork
<1>2. AtMostOne(WorkOf(p)') /\ (WorkOf(p)' = {} <=> WorkOf(p) = {})
  BY <1>1 DEF HeldOnce, AtMostOne
<1>. QED
  BY <1>1, <1>2, Untouched

\* A user with an unshared promise waits for its task.
LEMMA WaitOneRun ==
    ASSUME RunInv, NEW u \in Users, WaitStep(u)
    PROVE  OneRun'
<1>1. Sound /\ OneRun /\ TypeOK /\ Stations
  BY DEF RunInv, Sound
<1>2. /\ u \in Threads /\ at[u] \in Waiting /\ cur[u] \in Promises /\ tasks' \subseteq tasks
      /\ UNCHANGED <<promiseVars, mBuffer, mWork, mIsRunning, scheduling, history>>
  BY <1>1, WaitEffect
<1>3. /\ \A t \in Threads \ {u} : at'[t] = at[t] /\ cur'[t] = cur[t] /\ back'[t] = back[t]
      /\ Flushing' <=> Flushing
  BY <1>1, UserEffect
<1>4. at[u] \notin Carrying
  BY <1>2 DEF Carrying, Submitting, Running, Waiting
<1>5. /\ at'[u] \in Waiting \cup {"run", "idle"} /\ back'[u] \in {"idle", "returned", "wait_spin", "lazy"}
      /\ cur'[u] = IF at'[u] = "idle" THEN None ELSE cur[u]
  <2>1. PICK to \in Waiting \cup {"run", "idle"}, b \in {"idle", "returned", "wait_spin", "lazy"} :
             /\ Move(u, to) /\ back' = [back EXCEPT ![u] = b]
             /\ cur' = [cur EXCEPT ![u] = IF to = "idle" THEN None ELSE cur[u]]
    BY <1>1, WaitEffect
  <2>. QED
    BY <1>1, <1>2, <2>1 DEF Move, TypeOK, Stations
<1>. SUFFICES ASSUME NEW p \in Unshared PROVE HeldOnce(p)' /\ Progress(p)'
  BY DEF OneRun, Unshared, Shared
<1>6. p \in Promises /\ p # None /\ HeldOnce(p) /\ Progress(p)
  BY <1>1, PromiseAssumption DEF OneRun, Unshared
<1>7. ASSUME p \in tasks' <=> p \in tasks,
             cur'[u] = p => at'[u] \notin Carrying /\ Holder(p, at'[u], back'[u])
      PROVE  HeldOnce(p)' /\ Progress(p)'
  BY <1>1, <1>2, <1>3, <1>4, <1>6, <1>7, UserUntouched DEF promiseVars, history
<1>8. CASE cur[u] # p
  <2>1. tasks' = tasks \/ tasks' = tasks \ {cur[u]}
    BY DEF WaitStep, LoadPending, LoadQueued, WaitTask, WaitSpin, LazyWaitTask, LazyWaitFence,
       Leave, asyncVars
  <2>2. cur'[u] # p
    BY <1>5, <1>6, <1>8
  <2>. QED
    BY <1>7, <1>8, <2>1, <2>2
<1>9. CASE cur[u] = p
  <2>1. mTask[p] /\ mState[p] \in {"pending", "resolved"} /\ Holder(p, at[u], back[u])
    BY <1>2, <1>6, <1>9 DEF Progress, Holder
  <2>2. ASSUME NEW a \in Waiting \cup {"idle"},
               a \in {"wait_queued", "lazy_queued", "returned"} => mState[p] = "resolved"
        PROVE  a \notin Carrying /\ \A b : Holder(p, a, b)
    BY <2>1, <2>2 DEF Holder, Carrying, Submitting, Running, Rechecking, Waiting
  <2>3. ASSUME tasks' = tasks, at'[u] \in Waiting \cup {"idle"},
               at'[u] \in {"wait_queued", "lazy_queued", "returned"} => mState[p] = "resolved"
        PROVE  HeldOnce(p)' /\ Progress(p)'
    BY <1>7, <2>2, <2>3
  <2>4. \A to : Move(u, to) => at'[u] = to
    BY <1>1, <1>2 DEF Move, Stations
  <2>5. CASE LoadPending(u)
    <3>1. at'[u] \in IF mState[p] = "pending" THEN {"wait_task", "lazy_task"}
                                              ELSE {"wait_queued", "lazy_queued"}
      BY <1>9, <2>4, <2>5 DEF LoadPending
    <3>2. tasks' = tasks
      BY <2>5 DEF LoadPending, asyncVars
    <3>. QED
      BY <2>1, <2>3, <3>1, <3>2 DEF Waiting
  <2>6. CASE LoadQueued(u)
    <3>1. at'[u] = "returned" /\ mState[p] = "resolved"
      BY <1>9, <2>1, <2>4, <2>6 DEF LoadQueued, Holder
    <3>2. tasks' = tasks
      BY <2>6 DEF LoadQueued, asyncVars
    <3>. QED
      BY <2>3, <3>1, <3>2 DEF Waiting
  <2>7. CASE WaitTask(u)
    <3>1. tasks' = tasks \ {p}
      BY <1>9, <2>1, <2>7 DEF WaitTask
    <3>2. CASE p \in tasks
      <4>1. Call(u, p, "run", "wait_spin")
        BY <1>9, <2>1, <2>7, <3>2 DEF WaitTask
      <4>2. at'[u] = "run" /\ cur'[u] = p /\ back'[u] = "wait_spin"
        BY <1>1, <1>2, <4>1 DEF Call, Move, TypeOK, Stations
      <4>3. BufferOf(p) = {} /\ WorkOf(p) = {}
        BY <1>6, <3>2 DEF HeldOnce
      <4>4. BufferOf(p)' = {} /\ WorkOf(p)' = {}
        BY <1>2, <1>3, <1>6, <4>3, SameBuffer, SameWork
      <4>5. p \notin tasks'
        BY <3>1
      <4>. QED
        BY <1>2, <1>3, <1>6, <2>1, <3>2, <4>2, <4>4, <4>5, Taken DEF promiseVars, history
    <3>3. CASE p \notin tasks
      <4>1. Call(u, p, "wait_spin", "wait_spin")
        BY <1>9, <2>1, <2>7, <3>3 DEF WaitTask
      <4>2. at'[u] = "wait_spin"
        BY <2>4, <4>1 DEF Call
      <4>3. tasks' = tasks
        BY <3>1, <3>3
      <4>. QED
        BY <2>3, <4>2, <4>3 DEF Waiting
    <3>. QED
      BY <3>2, <3>3
  <2>8. CASE WaitSpin(u)
    <3>1. at'[u] = "returned" /\ mState[p] = "resolved" /\ tasks' = tasks
      BY <1>9, <2>1, <2>4, <2>8 DEF WaitSpin, asyncVars
    <3>. QED
      BY <2>3, <3>1 DEF Waiting
  <2>9. CASE LazyWaitTask(u)
    <3>1. at'[u] = "lazy_fence" /\ tasks' = tasks
      BY <1>9, <2>1, <2>4, <2>9 DEF LazyWaitTask, Call, asyncVars
    <3>. QED
      BY <2>3, <3>1 DEF Waiting
  <2>10. CASE LazyWaitFence(u) \/ Leave(u)
    <3>1. at'[u] \in {"lazy", "idle"} /\ tasks' = tasks
      BY <2>4, <2>10 DEF LazyWaitFence, Leave, Call, asyncVars
    <3>. QED
      BY <2>3, <3>1 DEF Waiting
  <2>. QED
    BY <2>5, <2>6, <2>7, <2>8, <2>9, <2>10 DEF WaitStep
<1>. QED
  BY <1>8, <1>9

\* The caller of Execute takes the right to run p; Queue puts it in the list;
\* the caller of Wait does not get it.
LEMMA StartOneRun ==
    ASSUME RunInv, NEW u \in Users, NEW r \in Promises,
           \/ Execute(u, r) \/ Queue(u, r)
           \/ \E kind \in {"wait", "lazy"} : StartWait(u, r, kind)
    PROVE  OneRun'
<1>1. Sound /\ OneRun /\ TypeOK /\ Stations
  BY DEF RunInv, Sound
<1>2. /\ u \in Threads
      /\ \A t \in Threads \ {u} : at'[t] = at[t] /\ cur'[t] = cur[t] /\ back'[t] = back[t]
      /\ Flushing' <=> Flushing
      /\ UNCHANGED <<mTask, mWork, history>>
  BY <1>1, UserEffect
<1>3. at[u] = "idle" /\ "idle" \notin Carrying /\ tasks' = tasks
  BY DEF Execute, Queue, StartWait, Carrying, Submitting, Running, asyncVars
<1>. SUFFICES ASSUME NEW p \in Unshared PROVE HeldOnce(p)' /\ Progress(p)'
  BY DEF OneRun, Unshared, Shared
<1>4. p \in Promises /\ HeldOnce(p) /\ Progress(p)
  BY <1>1 DEF OneRun, Unshared
<1>5. ASSUME mState'[p] = mState[p], mBuffer' = mBuffer,
             cur'[u] = p => at'[u] \notin Carrying /\ Holder(p, at'[u], back'[u])
      PROVE  HeldOnce(p)' /\ Progress(p)'
  BY <1>1, <1>2, <1>3, <1>4, <1>5, UserUntouched DEF history
<1>6. ASSUME NEW to, Call(u, r, to, "idle")
      PROVE  at'[u] = to /\ cur'[u] = r /\ back'[u] = "idle"
  BY <1>1, <1>2, <1>6 DEF Call, Move, TypeOK, Stations
<1>7. CASE Execute(u, r)
  <2>1. /\ r \notin Deferred /\ mState[r] = "null" /\ \A t \in Threads : cur[t] # r
        /\ at'[u] = "run_promise" /\ cur'[u] = r /\ back'[u] = "idle"
        /\ UNCHANGED <<promiseVars, asyncVars>>
    BY <1>6, <1>7 DEF Execute
  <2>2. CASE p # r
    BY <1>5, <2>1, <2>2 DEF promiseVars, asyncVars
  <2>3. CASE p = r
    <3>1. /\ p \notin tasks /\ BufferOf(p) = {} /\ WorkOf(p) = {} /\ Ran(p, 0) /\ ~mTask[p]
      BY <1>4, <2>1, <2>3, NotStarted
    <3>2. BufferOf(p)' = {} /\ WorkOf(p)' = {} /\ p \notin tasks'
      BY <1>2, <1>3, <1>4, <2>1, <3>1, SameBuffer, SameWork DEF asyncVars
    <3>3. CarriersOf(p)' = {u}
      BY <1>2, <2>1, <2>3 DEF CarriersOf, Submitting
    <3>4. HeldOnce(p)'
      <4>. HIDE DEF CarriersOf
      <4>. QED
        BY <3>2, <3>3 DEF HeldOnce, AtMostOne
    <3>5. Holder(p, at[u], back[u])'
      BY <1>2, <2>1, <2>3, <3>1
      DEF Holder, Ran, promiseVars, history, Submitting, Running, Rechecking, Waiting
    <3>6. \A t \in Threads : cur'[t] = p => t = u
      BY <1>2, <2>1, <2>3
    <3>7. \A t \in Threads : cur'[t] = p => Holder(p, at[t], back[t])'
      BY <3>5, <3>6
    <3>8. ~mTask'[p]
      BY <2>1, <3>1 DEF promiseVars
    <3>9. Progress(p)'
      BY <3>2, <3>3, <3>7, <3>8 DEF Progress
    <3>. QED
      BY <3>4, <3>9
  <2>. QED
    BY <2>2, <2>3
<1>8. CASE Queue(u, r)
  <2>1. /\ r \in Deferred /\ mState[r] = "null" /\ mState' = [mState EXCEPT ![r] = "queued"]
        /\ mBuffer' = Append(mBuffer, r) /\ cur' = cur /\ at' = at /\ back' = back
    BY <1>8 DEF Queue
  <2>2. BufferOf(p)' = BufferOf(p) \cup (IF p = r /\ ~Flushing THEN {Len(mBuffer) + 1} ELSE {})
    BY <1>1, <1>2, <1>4, <2>1, AppendBuffer DEF TypeOK
  <2>3. WorkOf(p)' = WorkOf(p)
    BY <1>2, <1>4, SameWork
  <2>4. CASE p # r
    <3>1. AtMostOne(WorkOf(p)') /\ (WorkOf(p)' = {} <=> WorkOf(p) = {})
      BY <1>4, <2>3 DEF HeldOnce, AtMostOne
    <3>2. mState'[p] = mState[p] /\ BufferOf(p)' = BufferOf(p)
      BY <1>1, <2>1, <2>2, <2>4 DEF TypeOK
    <3>3. cur[u] = p => Holder(p, at'[u], back'[u])
      BY <1>2, <1>4, <2>1 DEF Progress
    <3>. QED
      BY <1>2, <1>3, <1>4, <2>1, <3>1, <3>2, <3>3, Untouched DEF history
  <2>5. CASE p = r
    <3>1. mState[p] = "null" /\ mState'[p] = "queued" /\ p \in Deferred
      BY <1>1, <2>1, <2>5 DEF TypeOK
    <3>2. BufferOf(p) = {}
      BY <1>4, <3>1, NotStarted
    <3>3. AtMostOne(BufferOf(p)')
      BY <2>2, <3>2 DEF AtMostOne
    <3>. QED
      BY <1>2, <1>3, <1>4, <2>1, <2>3, <3>1, <3>3, Listed DEF history
  <2>. QED
    BY <2>4, <2>5
<1>9. ASSUME NEW kind \in {"wait", "lazy"}, StartWait(u, r, kind)
      PROVE  HeldOnce(p)' /\ Progress(p)'
  <2>1. /\ <<u, r, kind>> \in Waits /\ Published(r) /\ UNCHANGED <<promiseVars, asyncVars>>
        /\ at'[u] = kind /\ cur'[u] = r /\ back'[u] = "idle"
    BY <1>6, <1>9 DEF StartWait
  <2>2. cur'[u] = p => mTask[p]
    BY <2>1 DEF Published, Unshared, Shared
  <2>3. mTask[p] => at'[u] \notin Carrying /\ Holder(p, at'[u], back'[u])
    BY <2>1 DEF Holder, Carrying, Submitting, Running, Rechecking, Waiting
  <2>. QED
    BY <1>5, <2>1, <2>2, <2>3 DEF promiseVars, asyncVars
<1>. QED
  BY <1>7, <1>8, <1>9

-----------------------------------------------------------------------------
(***************************************************************************)
(* One execution: the workers, the drain thread and Shutdown               *)
(***************************************************************************)
LEMMA BetweenIsOutside ==
    ASSUME NEW a \in Between
    PROVE  a \notin Carrying /\ a \notin Inside /\ \A p, b : Holder(p, a, b)
  BY DEF Between, Carrying, Inside, Holder, Submitting, Running, Rechecking, Waiting

\* Thread t leaves the loop it is in, or takes the task or the entry of r.
LEMMA OwnerMoves ==
    ASSUME Sound, NEW t \in Threads, NEW to, NEW b, NEW p \in Promises \cup {None},
           Call(t, p, to, b)
    PROVE  /\ at'[t] = to /\ cur'[t] = p /\ back'[t] = b
           /\ \A u \in Threads \ {t} : at'[u] = at[u] /\ cur'[u] = cur[u] /\ back'[u] = back[u]
  BY DEF Sound, TypeOK, Stations, Call, Move

\* A task is taken from the queue of the scheduler.
LEMMA TakeOneRun ==
    ASSUME Sound, OneRun, NEW t \in Threads, at[t] \in Between, NEW r \in tasks, NEW b,
           b \notin {"returned", "lazy", "wait_spin"}, Call(t, r, "run", b), tasks' = tasks \ {r},
           Flushing' <=> Flushing,
           UNCHANGED <<promiseVars, mBuffer, mWork, history>>
    PROVE  OneRun'
<1>1. r \in Promises
  BY DEF Sound, TypeOK
<1>2. /\ at'[t] = "run" /\ cur'[t] = r /\ back'[t] = b
      /\ \A u \in Threads \ {t} : at'[u] = at[u] /\ cur'[u] = cur[u] /\ back'[u] = back[u]
  BY <1>1, OwnerMoves
<1>3. at[t] \notin Carrying
  BY BetweenIsOutside
<1>. SUFFICES ASSUME NEW p \in Unshared PROVE HeldOnce(p)' /\ Progress(p)'
  BY DEF OneRun, Unshared, Shared
<1>4. p \in Promises /\ HeldOnce(p) /\ Progress(p)
  BY DEF OneRun, Unshared
<1>5. CASE p = r
  <2>1. BufferOf(p) = {} /\ WorkOf(p) = {} /\ p \in tasks /\ p \notin tasks'
    BY <1>4, <1>5 DEF HeldOnce
  <2>2. BufferOf(p)' = {} /\ WorkOf(p)' = {}
    BY <1>4, <2>1, SameBuffer, SameWork
  <2>. QED
    BY <1>2, <1>4, <1>5, <2>1, <2>2, Taken DEF promiseVars, history
<1>6. CASE p # r
  BY <1>2, <1>3, <1>4, <1>6, UserUntouched DEF promiseVars, history
<1>. QED
  BY <1>5, <1>6

\* The list of entries to start loses its first one, which thread t may start.
LEMMA DrawOneRun ==
    ASSUME Sound, OneRun, NEW t \in Threads, at[t] \in Between, mWork # <<>>, mWork' = Tail(mWork),
           \/ \E b \in {"drain_next", "flush"} : Call(t, Head(mWork), "run_promise", b)
           \/ mState[Head(mWork)] # "queued" /\ UNCHANGED <<at, cur, back>>,
           Flushing' <=> Flushing,
           UNCHANGED <<promiseVars, mBuffer, tasks, history>>
    PROVE  OneRun'
<1>1. mWork \in Seq(Promises) /\ Head(mWork) \in Promises
  BY DEF Sound, TypeOK
<1>2. at[t] \notin Carrying
  BY BetweenIsOutside
<1>. SUFFICES ASSUME NEW p \in Unshared PROVE HeldOnce(p)' /\ Progress(p)'
  BY DEF OneRun, Unshared, Shared
<1>3. p \in Promises /\ HeldOnce(p) /\ Progress(p)
  BY DEF OneRun, Unshared
<1>4. /\ AtMostOne(WorkOf(p)')
      /\ p = Head(mWork) => WorkOf(p) # {} /\ WorkOf(p)' = {}
      /\ p # Head(mWork) => (WorkOf(p)' = {} <=> WorkOf(p) = {})
  BY <1>1, <1>3, TailWork DEF HeldOnce
<1>5. BufferOf(p)' = BufferOf(p)
  BY <1>3, SameBuffer
<1>6. /\ \A u \in Threads \ {t} : at'[u] = at[u] /\ cur'[u] = cur[u] /\ back'[u] = back[u]
      /\ \/ cur'[t] = Head(mWork) /\ at'[t] = "run_promise" /\ back'[t] \in {"drain_next", "flush"}
         \/ mState[Head(mWork)] # "queued" /\ UNCHANGED <<at, cur, back>>
  BY <1>1, OwnerMoves
<1>7. CASE p = Head(mWork)
  <2>1. WorkOf(p) # {} /\ mState[p] = "queued"
    BY <1>3, <1>4, <1>7 DEF Progress
  <2>2. BufferOf(p)' = {} /\ p \notin tasks
    BY <1>3, <1>5, <2>1 DEF HeldOnce
  <2>. QED
    BY <1>3, <1>4, <1>6, <1>7, <2>1, <2>2, Taken DEF promiseVars, history
<1>8. CASE p # Head(mWork)
  <2>1. cur'[t] = p => at'[t] \notin Carrying /\ Holder(p, at'[t], back'[t])
    BY <1>2, <1>3, <1>6, <1>8 DEF Progress
  <2>. QED
    BY <1>2, <1>3, <1>4, <1>5, <1>6, <1>8, <2>1, Untouched DEF promiseVars, history
<1>. QED
  BY <1>7, <1>8

\* The entries of mBuffer become the entries to start.
LEMMA SwapOneRun ==
    ASSUME Sound, OneRun, NEW t \in Threads, at[t] \in Between, NEW to \in Between, Move(t, to),
           mWork = <<>>, ~Flushing, mWork' = mBuffer, mBuffer' = <<>> \/ Flushing',
           UNCHANGED <<promiseVars, tasks, cur, back, history>>
    PROVE  OneRun'
<1>. SUFFICES ASSUME NEW p \in Unshared PROVE HeldOnce(p)' /\ Progress(p)'
  BY DEF OneRun, Unshared, Shared
<1>1. p \in Promises /\ HeldOnce(p) /\ Progress(p)
  BY DEF OneRun, Unshared
<1>2. WorkOf(p) = {}
  BY DEF WorkOf
<1>3. BufferOf(p)' = {}
  BY DEF BufferOf
<1>4. WorkOf(p)' = BufferOf(p)
  BY DEF WorkOf, BufferOf
<1>5. AtMostOne(BufferOf(p)') /\ AtMostOne(WorkOf(p)')
  BY <1>1, <1>3, <1>4 DEF HeldOnce, AtMostOne
<1>6. BufferOf(p)' \cup WorkOf(p)' = {} <=> BufferOf(p) \cup WorkOf(p) = {}
  BY <1>2, <1>3, <1>4
<1>7. at'[t] = to /\ \A u \in Threads \ {t} : at'[u] = at[u]
  BY DEF Sound, Stations, Move
<1>8. at[t] \notin Carrying /\ to \notin Carrying /\ Holder(p, to, back[t])
  BY BetweenIsOutside
<1>9. cur'[t] = p => at'[t] \notin Carrying /\ Holder(p, at'[t], back'[t])
  BY <1>7, <1>8
<1>. QED
  BY <1>1, <1>3, <1>5, <1>6, <1>7, <1>8, <1>9, Shifted DEF promiseVars, history

\* Thread t goes on in its loop.
LEMMA RestOneRun ==
    ASSUME Sound, OneRun, NEW t \in Threads, at[t] \in Between, at'[t] \in Between,
           \A u \in Threads \ {t} : at'[u] = at[u] /\ cur'[u] = cur[u] /\ back'[u] = back[u],
           \/ mBuffer' = mBuffer /\ mWork' = mWork /\ (Flushing' <=> Flushing)
           \/ mBuffer' = <<>> /\ mWork' = <<>> /\ mWork = <<>> /\ Flushing,
           UNCHANGED <<promiseVars, tasks, history>>
    PROVE  OneRun'
<1>. SUFFICES ASSUME NEW p \in Unshared PROVE HeldOnce(p)' /\ Progress(p)'
  BY DEF OneRun, Unshared, Shared
<1>1. p \in Promises /\ HeldOnce(p) /\ Progress(p)
  BY DEF OneRun, Unshared
<1>2. at[t] \notin Carrying /\ at'[t] \notin Carrying /\ Holder(p, at'[t], back'[t])
  BY BetweenIsOutside
<1>3. BufferOf(p)' = BufferOf(p) /\ WorkOf(p)' = WorkOf(p)
  BY DEF BufferOf, WorkOf
<1>4. AtMostOne(WorkOf(p)') /\ (WorkOf(p)' = {} <=> WorkOf(p) = {})
  BY <1>1, <1>3 DEF HeldOnce, AtMostOne
<1>. QED
  BY <1>1, <1>2, <1>3, <1>4, Untouched DEF promiseVars, history

LEMMA OwnerOneRun ==
    ASSUME RunInv,
           \/ \E w \in Workers, p \in Promises : WorkerTake(w, p)
           \/ DrainSwap \/ DrainNext \/ ShutdownBegin \/ ShutdownStep
    PROVE  OneRun'
<1>1. Sound /\ OneRun /\ TypeOK /\ Stations /\ Stages
  BY DEF RunInv, Sound
<1>2. Workers \subseteq Threads /\ Drain \in Threads /\ Main \in Threads
      /\ Main # Drain /\ Main \notin Workers
  BY ThreadsAssumption DEF Threads
<1>3. ASSUME NEW t \in Threads, t # Main, NEW p \in Promises \cup {None}, NEW to, NEW b, Call(t, p, to, b)
      PROVE  Flushing' <=> Flushing
  BY <1>1, <1>2, <1>3, OwnerMoves DEF Flushing
<1>4. ASSUME NEW t \in Threads, NEW to, Move(t, to)
       PROVE  at'[t] = to /\ \A u \in Threads \ {t} : at'[u] = at[u]
  BY <1>1, <1>4 DEF Move, Stations
<1>5. "idle" \in Between /\ "drain_loop" \in Between /\ "drain_next" \in Between /\ "ended" \in Between
      /\ "join_drain" \in Between /\ "flush" \in Between /\ "join_workers" \in Between /\ "closed" \in Between
      /\ "idle" \in Backs
  BY DEF Between, Backs
<1>6. ASSUME NEW w \in Workers, NEW p \in Promises, WorkerTake(w, p)
      PROVE  OneRun'
  BY <1>1, <1>2, <1>3, <1>5, <1>6, TakeOneRun DEF WorkerTake
<1>7. CASE DrainSwap
  <2>1. Flushing' <=> Flushing
    BY <1>1, <1>2, <1>7 DEF DrainSwap, Flushing, Move, Stations
  <2>2. ~Flushing
    BY <1>1, <1>7 DEF DrainSwap, Stages
  <2>3. mWork = <<>>
    BY <1>1, <1>7, <2>2 DEF DrainSwap, Stages
  <2>4. CASE mIsRunning
    BY <1>1, <1>2, <1>5, <1>7, <2>2, <2>3, <2>4, SwapOneRun DEF DrainSwap
  <2>5. CASE ~mIsRunning
    <3>1. Move(Drain, "ended") /\ at[Drain] = "drain_loop"
          /\ UNCHANGED <<mBuffer, mWork, promiseVars, tasks, cur, back, history>>
      BY <1>7, <2>5 DEF DrainSwap
    <3>2. at'[Drain] = "ended" /\ \A u \in Threads \ {Drain} : at'[u] = at[u]
      BY <1>2, <1>4, <3>1
    <3>. QED
      BY <1>1, <1>2, <1>5, <2>1, <3>1, <3>2, RestOneRun
  <2>. QED
    BY <2>4, <2>5
<1>8. CASE DrainNext
  <2>1. CASE mWork = <<>>
    <3>1. Call(Drain, None, "drain_loop", "idle") /\ mBuffer' = mBuffer /\ mWork' = mWork
          /\ at[Drain] = "drain_next" /\ UNCHANGED <<promiseVars, tasks, history>>
      BY <1>8, <2>1 DEF DrainNext
    <3>2. Flushing' <=> Flushing
      BY <1>2, <1>3, <3>1
    <3>3. at'[Drain] = "drain_loop"
          /\ \A u \in Threads \ {Drain} : at'[u] = at[u] /\ cur'[u] = cur[u] /\ back'[u] = back[u]
      BY <1>1, <1>2, <3>1, OwnerMoves
    <3>. QED
      BY <1>1, <1>2, <1>5, <3>1, <3>2, <3>3, RestOneRun
  <2>2. CASE mWork # <<>>
    <3>1. Head(mWork) \in Promises
      BY <1>1, <2>2 DEF TypeOK
    <3>2. \/ Call(Drain, Head(mWork), "run_promise", "drain_next")
          \/ mState[Head(mWork)] # "queued" /\ UNCHANGED <<at, cur, back>>
      BY <1>8, <2>2 DEF DrainNext
    <3>3. Flushing' <=> Flushing
      BY <1>2, <1>3, <3>1, <3>2 DEF Flushing
    <3>4. at[Drain] = "drain_next" /\ mWork' = Tail(mWork)
          /\ UNCHANGED <<promiseVars, mBuffer, tasks, history>>
      BY <1>8, <2>2 DEF DrainNext
    <3>. QED
      BY <1>1, <1>2, <1>5, <2>2, <3>2, <3>3, <3>4, DrawOneRun
  <2>. QED
    BY <2>1, <2>2
<1>9. CASE ShutdownBegin
  <2>1. Flushing' <=> Flushing
    BY <1>1, <1>2, <1>9, BetweenIsOutside, <1>5 DEF ShutdownBegin, Flushing, Move, Stations
  <2>. QED
    <3>1. Move(Main, "join_drain") /\ at[Main] = "idle"
          /\ UNCHANGED <<mBuffer, mWork, promiseVars, tasks, cur, back, history>>
      BY <1>9 DEF ShutdownBegin
    <3>2. at'[Main] = "join_drain" /\ \A u \in Threads \ {Main} : at'[u] = at[u]
      BY <1>2, <1>4, <3>1
    <3>. QED
      BY <1>1, <1>2, <1>5, <2>1, <3>1, <3>2, RestOneRun
<1>10. CASE ShutdownFlush
  <2>1. ~Flushing /\ Flushing'
    BY <1>1, <1>2, <1>10, BetweenIsOutside, <1>5 DEF ShutdownFlush, Flushing, Move, Stations
  <2>2. mWork = <<>>
    BY <1>1, <1>10, <2>1 DEF ShutdownFlush, Stages
  <2>. QED
    BY <1>1, <1>2, <1>5, <1>10, <2>1, <2>2, SwapOneRun DEF ShutdownFlush
<1>11. CASE ShutdownFlushNext
  <2>1. Head(mWork) \in Promises
    BY <1>1, <1>11 DEF TypeOK, ShutdownFlushNext
  <2>2. Call(Main, Head(mWork), "run_promise", "flush") /\ at[Main] = "flush"
    BY <1>11 DEF ShutdownFlushNext
  <2>3. Flushing /\ Flushing'
    BY <1>1, <1>2, <2>1, <2>2, OwnerMoves DEF Flushing, Inside, Submitting
  <2>. QED
    BY <1>1, <1>2, <1>5, <1>11, <2>2, <2>3, DrawOneRun DEF ShutdownFlushNext
<1>12. CASE ShutdownScheduler
  <2>1. Flushing
    BY <1>12 DEF ShutdownScheduler, Flushing
  <2>. QED
    <3>1. Call(Main, None, "join_workers", "idle") /\ at[Main] = "flush"
          /\ mWork = <<>> /\ mBuffer' = <<>>
          /\ UNCHANGED <<mWork, promiseVars, tasks, history>>
      BY <1>12 DEF ShutdownScheduler
    <3>2. at'[Main] = "join_workers"
          /\ \A u \in Threads \ {Main} : at'[u] = at[u] /\ cur'[u] = cur[u] /\ back'[u] = back[u]
      BY <1>1, <1>2, <3>1, OwnerMoves
    <3>. QED
      BY <1>1, <1>2, <1>5, <2>1, <3>1, <3>2, RestOneRun
<1>13. CASE ShutdownSpill
  <2>1. at[Main] = "join_workers" /\ UNCHANGED <<promiseVars, mBuffer, mWork, history>>
    BY <1>13 DEF ShutdownSpill
  <2>2. CASE tasks = {}
    <3>1. Call(Main, None, "closed", "idle") /\ tasks' = tasks
      BY <1>13, <2>2 DEF ShutdownSpill
    <3>2. Flushing' <=> Flushing
      BY <1>1, <1>2, <1>5, <2>1, <3>1, OwnerMoves, BetweenIsOutside DEF Flushing
    <3>3. at'[Main] = "closed"
          /\ \A u \in Threads \ {Main} : at'[u] = at[u] /\ cur'[u] = cur[u] /\ back'[u] = back[u]
      BY <1>1, <1>2, <3>1, OwnerMoves
    <3>. QED
      BY <1>1, <1>2, <1>5, <2>1, <3>1, <3>2, <3>3, RestOneRun
  <2>3. CASE tasks # {}
    <3>1. PICK r \in tasks : Call(Main, r, "run", "join_workers") /\ tasks' = tasks \ {r}
      BY <1>13, <2>3 DEF ShutdownSpill
    <3>2. r \in Promises
      BY <1>1, <3>1 DEF TypeOK
    <3>3. Flushing' <=> Flushing
      BY <1>1, <1>2, <1>5, <2>1, <3>1, <3>2, OwnerMoves, BetweenIsOutside DEF Flushing
    <3>. QED
      BY <1>1, <1>2, <1>5, <2>1, <3>1, <3>3, TakeOneRun
  <2>. QED
    BY <2>2, <2>3
<1>. QED
  BY <1>6, <1>7, <1>8, <1>9, <1>10, <1>11, <1>12, <1>13 DEF ShutdownStep

-----------------------------------------------------------------------------
LEMMA InitRun == Init => RunInv
<1>. SUFFICES ASSUME Init PROVE RunInv
  OBVIOUS
<1>1. Sound
  BY InitSound
<1>2. ASSUME NEW p \in Unshared PROVE HeldOnce(p) /\ Progress(p)
  <2>1. p \in Promises /\ p # None
    BY PromiseAssumption DEF Unshared
  <2>2. BufferOf(p) = {} /\ WorkOf(p) = {} /\ p \notin tasks
    BY DEF Init, BufferOf, WorkOf
  <2>3. \A t \in Threads : cur[t] # p
    BY <2>1 DEF Init
  <2>4. CarriersOf(p) = {}
    BY <2>3 DEF CarriersOf
  <2>5. HeldOnce(p)
    BY <2>2, <2>4 DEF HeldOnce, AtMostOne
  <2>6. mState[p] = "null" /\ Ran(p, 0) /\ ~mTask[p]
    BY <2>1 DEF Init, Ran
  <2>. QED
    BY <2>2, <2>3, <2>5, <2>6 DEF Progress
<1>. QED
  BY <1>1, <1>2 DEF RunInv, OneRun, Init

LEMMA NextRun == RunInv /\ [Next]_vars => RunInv'
<1>. SUFFICES ASSUME RunInv, [Next]_vars PROVE RunInv'
  OBVIOUS
<1>1. Sound' /\ Shared' = Shared
  BY NextSound DEF RunInv, Shared
<1>2. ASSUME NEW t \in Threads, RunStep(t) PROVE RunInv'
  BY <1>1, <1>2, RunOneRun DEF RunInv
<1>3. ASSUME reported' = reported, OneRun' PROVE RunInv'
  BY <1>1, <1>3 DEF RunInv
<1>4. ASSUME NEW u \in Users, WaitStep(u) PROVE RunInv'
  <2>1. reported' = reported
    BY <1>4, UserEffect DEF RunInv, history
  <2>. QED
    BY <1>3, <1>4, <2>1, WaitOneRun
<1>5. ASSUME NEW u \in Users, NEW p \in Promises,
             \/ Execute(u, p) \/ Queue(u, p)
             \/ \E kind \in {"wait", "lazy"} : StartWait(u, p, kind)
      PROVE  RunInv'
  <2>1. reported' = reported
    BY <1>5, UserEffect DEF RunInv, history
  <2>. QED
    BY <1>3, <1>5, <2>1, StartOneRun
<1>6. CASE \/ \E w \in Workers, p \in Promises : WorkerTake(w, p)
           \/ DrainSwap \/ DrainNext \/ ShutdownBegin \/ ShutdownStep
  <2>1. reported' = reported
    BY <1>6
    DEF WorkerTake, DrainSwap, DrainNext, ShutdownBegin, ShutdownStep, ShutdownFlush,
        ShutdownFlushNext, ShutdownScheduler, ShutdownSpill, history
  <2>. QED
    BY <1>3, <1>6, <2>1, OwnerOneRun
<1>7. CASE UNCHANGED vars
  <2>1. ASSUME NEW p \in Unshared PROVE HeldOnce(p)' /\ Progress(p)'
    <3>1. HeldOnce(p) /\ Progress(p)
      BY <2>1 DEF RunInv, OneRun
    <3>2. BufferOf(p)' = BufferOf(p) /\ WorkOf(p)' = WorkOf(p) /\ CarriersOf(p)' = CarriersOf(p)
      BY <1>7 DEF vars, BufferOf, WorkOf, CarriersOf, Flushing
    <3>3. HeldOnce(p)'
      BY <1>7, <3>1, <3>2 DEF HeldOnce, AtMostOne, vars
    <3>4. Progress(p)'
      BY <1>7, <3>1, <3>2 DEF Progress, Holder, Ran, vars
    <3>. QED
      BY <3>3, <3>4
  <2>2. OneRun' /\ reported' = reported
    BY <1>7, <2>1 DEF OneRun, Unshared, Shared, vars
  <2>. QED
    BY <1>3, <2>2
<1>. QED
  BY <1>2, <1>4, <1>5, <1>6, <1>7 DEF Next

LEMMA Runs == Spec => []RunInv
  BY InitRun, NextRun, PTL DEF Spec

\* The executor and the callbacks of a promise that nobody waits for while it
\* is queued run at most once, and SetState refuses none of its transitions
\* (Promise::Run, PromiseImpl::Resolve).
THEOREM RunsOnceHolds == Spec => []RunsOnce
<1>1. RunInv => RunsOnce
  <2>. SUFFICES ASSUME RunInv PROVE RunsOnce
    OBVIOUS
  <2>1. ASSUME NEW p \in Unshared PROVE execs[p] <= 1 /\ calls[p] <= 1
    <3>1. HeldOnce(p) /\ Progress(p)
      BY <2>1 DEF RunInv, OneRun
    <3>2. \E n \in {0, 1} : Ran(p, n)
      <4>1. CASE p \in tasks \/ BufferOf(p) \cup WorkOf(p) # {}
        BY <3>1, <4>1 DEF Progress
      <4>2. CASE CarriersOf(p) # {}
        <5>1. PICK t \in Threads : cur[t] = p /\ at[t] \in Submitting \cup Running
          BY <4>2 DEF CarriersOf
        <5>2. Holder(p, at[t], back[t])
          BY <3>1, <5>1 DEF Progress
        <5>. QED
          BY <5>1, <5>2 DEF Holder, Submitting, Running
      <4>3. CASE p \notin tasks /\ BufferOf(p) \cup WorkOf(p) \cup CarriersOf(p) = {}
        BY <3>1, <4>3 DEF Progress
      <4>. QED
        BY <4>1, <4>2, <4>3
    <3>. QED
      BY <3>2 DEF Ran
  <2>. QED
    BY <2>1 DEF RunsOnce, Once, Unshared, RunInv
<1>. QED
  BY <1>1, Runs, PTL

\* Promise::Wait and LazyWait return with the promise done.
THEOREM WaitMeansDone == Spec => []WaitReturnsDone
<1>1. RunInv => WaitReturnsDone
  <2>. SUFFICES ASSUME RunInv, NEW u \in Users, at[u] = "returned", cur[u] \notin Shared
                PROVE  mState[cur[u]] = "resolved"
    BY DEF WaitReturnsDone, Done
  <2>1. u \in Threads /\ cur[u] \in Promises
    BY DEF Threads, RunInv, Sound, TypeOK, Between
  <2>2. Progress(cur[u])
    BY <2>1 DEF RunInv, OneRun, Unshared
  <2>. QED
    BY <2>1, <2>2 DEF Progress, Holder
<1>. QED
  BY <1>1, Runs, PTL

-----------------------------------------------------------------------------
(***************************************************************************)
(* Nothing is left behind                                                  *)
(***************************************************************************)
\* A step of thread t, which starts and finishes nothing before it.
LEMMA KeptByOthers ==
    ASSUME NEW p \in Promises, Kept(p), NEW t \in Threads, mState'[p] = mState[p],
           cur[t] = p => at[t] \notin Starts \cup Finishes,
           \A u \in Threads \ {t} : at'[u] = at[u] /\ cur'[u] = cur[u],
           mState[p] = "queued" /\ BufferOf(p) \cup WorkOf(p) # {} =>
             BufferOf(p)' \cup WorkOf(p)' # {} \/ Starting(p)',
           p \in tasks => p \in tasks' \/ Finishing(p)'
    PROVE  Kept(p)'
<1>1. Starting(p) => Starting(p)'
  BY DEF Starting
<1>2. Finishing(p) => Finishing(p)'
  BY DEF Finishing
<1>. QED
  BY <1>1, <1>2 DEF Kept

LEMMA RunKeepsBuffer ==
    ASSUME \A p \in Promises : Chained[p] = None, Sound, NEW t \in Threads, RunStep(t)
    PROVE  mBuffer' = mBuffer
<1>1. cur[t] \in Promises
  BY RunEffect DEF Sound
<1>. QED
  BY <1>1
  DEF RunStep, RunPromiseCheck, RunPromisePending, RunPromiseSubmit, RunPromiseSetTask,
      RunLoad, RunCheck, RunStore, Executor, ResolveCheck, ResolveStore, asyncVars

\* What a step of Run or RunPromise does to the state of a promise.
LEMMA RunProgress ==
    ASSUME \A p \in Promises : Chained[p] = None, Sound, NEW t \in Threads, RunStep(t)
    PROVE  /\ \A p \in Promises \ {cur[t]} : mState'[p] = mState[p]
           /\ mState'[cur[t]] = "queued" =>
                /\ mState[cur[t]] = "queued"
                /\ at[t] \in Starts => at'[t] \in Starts
           /\ mState'[cur[t]] = "pending" =>
                /\ mState[cur[t]] = "pending" \/ at'[t] \in Finishes
                /\ at[t] \in Finishes => at'[t] \in Finishes \/ cur[t] \in tasks'
<1>1. cur[t] \in Promises /\ Chained[cur[t]] = None /\ mState \in [Promises -> {"null", "queued", "pending", "resolved"}]
  BY RunEffect DEF Sound, TypeOK
<1>2. \A to : Move(t, to) => at'[t] = to
  BY DEF Sound, Stations, Move
<1>3. \/ mState' = mState
      \/ mState' = [mState EXCEPT ![cur[t]] = "pending"] /\ at'[t] \in Finishes
      \/ mState' = [mState EXCEPT ![cur[t]] = "resolved"]
  <2>1. CASE RunPromisePending(t) \/ RunStore(t)
    BY <1>2, <2>1 DEF RunPromisePending, RunStore, Finishes, Running
  <2>2. CASE Executor(t)
    <3>1. mState' = mState
      BY <1>1, <2>2 DEF Executor
    <3>. QED
      BY <3>1
  <2>3. CASE ResolveStore(t)
    BY <2>3 DEF ResolveStore
  <2>4. CASE \/ RunPromiseCheck(t) \/ RunPromiseSubmit(t) \/ RunPromiseSetTask(t) \/ RunLoad(t)
             \/ RunCheck(t) \/ ResolveCheck(t)
    <3>1. mState' = mState
      BY <2>4
      DEF RunPromiseCheck, RunPromiseSubmit, RunPromiseSetTask, RunLoad, RunCheck,
          ResolveCheck, promiseVars
    <3>. QED
      BY <3>1
  <2>. QED
    BY <2>1, <2>2, <2>3, <2>4 DEF RunStep
<1>4. \A p \in Promises \ {cur[t]} : mState'[p] = mState[p]
  BY <1>1, <1>3
<1>5. mState'[cur[t]] = "queued" => mState[cur[t]] = "queued"
  BY <1>1, <1>3
<1>6. mState'[cur[t]] = "pending" => mState[cur[t]] = "pending" \/ at'[t] \in Finishes
  BY <1>1, <1>3
<1>7. ASSUME mState'[cur[t]] = "queued", at[t] \in Starts PROVE at'[t] \in Starts
  <2>1. CASE at[t] = "run_promise"
    <3>1. RunPromiseCheck(t)
      BY <2>1
      DEF RunStep, RunPromisePending, RunPromiseSubmit, RunPromiseSetTask,
          RunLoad, RunCheck, RunStore, Executor, ResolveCheck, ResolveStore
    <3>. QED
      BY <1>2, <1>5, <1>7, <3>1 DEF RunPromiseCheck, Fresh, Starts
  <2>2. CASE at[t] = "run_pending"
    <3>1. RunPromisePending(t)
      BY <2>2
      DEF RunStep, RunPromiseCheck, RunPromiseSubmit, RunPromiseSetTask,
          RunLoad, RunCheck, RunStore, Executor, ResolveCheck, ResolveStore
    <3>. QED
      BY <1>1, <1>7, <3>1 DEF RunPromisePending
  <2>. QED
    BY <1>7, <2>1, <2>2 DEF Starts
<1>8. ASSUME mState'[cur[t]] = "pending", at[t] \in Finishes
      PROVE  at'[t] \in Finishes \/ cur[t] \in tasks'
  <2>1. at[t] \notin {"run_promise", "run_pending", "run_settask"}
    BY <1>8 DEF Finishes, Running, Rechecking
  <2>2. CASE RunPromiseSubmit(t)
    BY <1>2, <2>2 DEF RunPromiseSubmit, Finishes, Running
  <2>3. CASE RunLoad(t) \/ RunCheck(t) \/ RunStore(t)
    BY <1>2, <2>3 DEF RunLoad, RunCheck, RunStore, Finishes, Running, Rechecking
  <2>4. CASE Executor(t)
    BY <1>1, <1>2, <1>8, <2>4 DEF Executor, Finishes, Running
  <2>5. CASE ResolveCheck(t)
    BY <1>2, <1>8, <2>5 DEF ResolveCheck, Finishes, Running
  <2>6. CASE ResolveStore(t)
    BY <1>1, <1>8, <2>6 DEF ResolveStore
  <2>. QED
    BY <2>1, <2>2, <2>3, <2>4, <2>5, <2>6
    DEF RunStep, RunPromiseCheck, RunPromisePending, RunPromiseSetTask
<1>. QED
  BY <1>4, <1>5, <1>6, <1>7, <1>8

LEMMA RunClose ==
    ASSUME \A p \in Promises : Chained[p] = None, CloseInv, NEW t \in Threads, RunStep(t)
    PROVE  NotDropped' /\ Emptied'
<1>1. Sound /\ NotDropped /\ Emptied /\ TypeOK /\ Stations
  BY DEF CloseInv, Sound
<1>2. /\ Flushing' <=> Flushing
      /\ Spilling' <=> Spilling
      /\ \A u \in Threads \ {t} : at'[u] = at[u]
  BY <1>1, RunKeepsLoops
<1>3. UNCHANGED <<mBuffer, mWork, cur>> /\ tasks \subseteq tasks'
  BY <1>1, RunEffect, RunKeepsBuffer
<1>4. ASSUME NEW p \in Promises PROVE Kept(p)'
  <2>1. Kept(p)
    BY <1>1 DEF NotDropped
  <2>2. BufferOf(p)' = BufferOf(p) /\ WorkOf(p)' = WorkOf(p)
    BY <1>2, <1>3, SameBuffer, SameWork
  <2>3. CASE cur[t] # p
    <3>1. mState'[p] = mState[p]
      BY <1>1, <2>3, RunProgress
    <3>. QED
      BY <1>2, <1>3, <2>1, <2>2, <2>3, <3>1, KeptByOthers
  <2>4. CASE cur[t] = p
    <3>1. /\ mState'[p] = "queued" =>
               mState[p] = "queued" /\ (at[t] \in Starts => at'[t] \in Starts)
          /\ mState'[p] = "pending" =>
               /\ mState[p] = "pending" \/ at'[t] \in Finishes
               /\ at[t] \in Finishes => at'[t] \in Finishes \/ p \in tasks'
      BY <1>1, <2>4, RunProgress
    <3>2. ASSUME mState'[p] = "queued"
          PROVE  BufferOf(p)' \cup WorkOf(p)' # {} \/ Starting(p)'
      <4>1. Starting(p) => Starting(p)'
        BY <1>2, <1>3, <3>1, <3>2 DEF Starting
      <4>. QED
        BY <2>1, <2>2, <3>1, <3>2, <4>1 DEF Kept
    <3>3. ASSUME mState'[p] = "pending" PROVE p \in tasks' \/ Finishing(p)'
      <4>1. at'[t] \in Finishes => Finishing(p)'
        BY <1>3, <2>4 DEF Finishing
      <4>2. Finishing(p) => p \in tasks' \/ Finishing(p)'
        BY <1>2, <1>3, <3>1, <3>3 DEF Finishing
      <4>. QED
        BY <1>3, <2>1, <3>1, <3>3, <4>1, <4>2 DEF Kept
    <3>. QED
      BY <3>2, <3>3 DEF Kept
  <2>. QED
    BY <2>3, <2>4
<1>. QED
  BY <1>1, <1>2, <1>3, <1>4 DEF NotDropped, Emptied

LEMMA WaitClose ==
    ASSUME CloseInv, NEW u \in Users, WaitStep(u)
    PROVE  NotDropped' /\ Emptied'
<1>1. Sound /\ NotDropped /\ Emptied /\ TypeOK /\ Stations
  BY DEF CloseInv, Sound
<1>2. /\ u \in Threads
      /\ \A t \in Threads \ {u} : at'[t] = at[t] /\ cur'[t] = cur[t]
      /\ Flushing' <=> Flushing
      /\ Spilling' <=> Spilling
  BY <1>1, UserEffect
<1>3. /\ at[u] \in Waiting /\ cur[u] \in Promises
      /\ UNCHANGED <<promiseVars, mBuffer, mWork>>
  BY <1>1, WaitEffect
<1>4. at[u] \notin Starts \cup Finishes
  BY <1>3 DEF Waiting, Starts, Finishes, Running, Rechecking
<1>5. tasks' = tasks \/ (tasks' = tasks \ {cur[u]} /\ Call(u, cur[u], "run", "wait_spin"))
  <2>1. CASE WaitTask(u)
    BY <2>1 DEF WaitTask
  <2>. QED
    BY <2>1
    DEF WaitStep, LoadPending, LoadQueued, WaitSpin, LazyWaitTask, LazyWaitFence, Leave, asyncVars
<1>6. ASSUME NEW p \in Promises PROVE Kept(p)'
  <2>1. Kept(p)
    BY <1>1 DEF NotDropped
  <2>2. BufferOf(p)' = BufferOf(p) /\ WorkOf(p)' = WorkOf(p)
    BY <1>2, <1>3, SameBuffer, SameWork
  <2>3. p \in tasks => p \in tasks' \/ Finishing(p)'
    <3>1. CASE tasks' = tasks
      BY <3>1
    <3>2. CASE tasks' = tasks \ {cur[u]} /\ Call(u, cur[u], "run", "wait_spin")
      <4>1. at'[u] = "run" /\ cur'[u] = cur[u]
        BY <1>1, <1>2, <1>3, <3>2, OwnerMoves
      <4>2. p = cur[u] => Finishing(p)'
        BY <1>2, <4>1 DEF Finishing, Finishes, Running
      <4>. QED
        BY <3>2, <4>2
    <3>. QED
      BY <1>5, <3>1, <3>2
  <2>. QED
    BY <1>2, <1>3, <1>4, <2>1, <2>2, <2>3, KeptByOthers DEF promiseVars
<1>. QED
  BY <1>1, <1>2, <1>3, <1>6 DEF NotDropped, Emptied

LEMMA StartClose ==
    ASSUME CloseInv, NEW u \in Users, NEW r \in Promises,
           \/ Execute(u, r) \/ Queue(u, r)
           \/ \E kind \in {"wait", "lazy"} : StartWait(u, r, kind)
    PROVE  NotDropped' /\ Emptied'
<1>1. Sound /\ NotDropped /\ Emptied /\ TypeOK /\ Stations /\ Stages
  BY DEF CloseInv, Sound
<1>2. /\ u \in Threads
      /\ \A t \in Threads \ {u} : at'[t] = at[t] /\ cur'[t] = cur[t]
      /\ Flushing' <=> Flushing
      /\ Spilling' <=> Spilling
      /\ UNCHANGED mWork
  BY <1>1, UserEffect
<1>3. at[u] \notin Starts \cup Finishes /\ tasks' = tasks
  BY DEF Execute, Queue, StartWait, asyncVars, Starts, Finishes, Running, Rechecking
<1>4. CASE mBuffer' = mBuffer /\ mState' = mState
  <2>1. ASSUME NEW p \in Promises PROVE Kept(p)'
    <3>1. Kept(p)
      BY <1>1 DEF NotDropped
    <3>2. BufferOf(p)' = BufferOf(p) /\ WorkOf(p)' = WorkOf(p)
      BY <1>2, <1>4, SameBuffer, SameWork
    <3>. QED
      BY <1>2, <1>3, <1>4, <3>1, <3>2, KeptByOthers
  <2>. QED
    BY <1>1, <1>2, <1>4, <2>1 DEF NotDropped, Emptied
<1>5. CASE Queue(u, r)
  <2>1. mIsRunning /\ mBuffer' = Append(mBuffer, r) /\ mState' = [mState EXCEPT ![r] = "queued"]
    BY <1>5 DEF Queue
  <2>2. ~Flushing /\ ~Spilling
    <3>1. at[Main] = "idle"
      BY <1>1, <2>1 DEF Stages
    <3>2. "idle" \notin Inside
      BY DEF Inside, Submitting, Running, Rechecking
    <3>. QED
      BY <3>1, <3>2 DEF Flushing, Spilling
  <2>3. ASSUME NEW p \in Promises PROVE Kept(p)'
    <3>1. Kept(p)
      BY <1>1 DEF NotDropped
    <3>2. BufferOf(p)' = BufferOf(p) \cup (IF p = r THEN {Len(mBuffer) + 1} ELSE {})
      BY <1>1, <1>2, <2>1, <2>2, AppendBuffer DEF TypeOK
    <3>3. WorkOf(p)' = WorkOf(p)
      BY <1>2, SameWork
    <3>4. CASE p = r
      <4>1. mState'[p] = "queued" /\ BufferOf(p)' # {}
        BY <1>1, <2>1, <3>2, <3>4 DEF TypeOK
      <4>. QED
        BY <4>1 DEF Kept
    <3>5. CASE p # r
      <4>1. mState'[p] = mState[p] /\ BufferOf(p)' = BufferOf(p)
        BY <1>1, <2>1, <3>2, <3>5 DEF TypeOK
      <4>. QED
        BY <1>2, <1>3, <3>1, <3>3, <4>1, KeptByOthers
    <3>. QED
      BY <3>4, <3>5
  <2>. QED
    BY <1>2, <2>2, <2>3 DEF NotDropped, Emptied
<1>. QED
  BY <1>4, <1>5 DEF Execute, StartWait, promiseVars, asyncVars

LEMMA TailKeeps ==
    ASSUME mWork \in Seq(Promises), mWork # <<>>, mWork' = Tail(mWork), NEW p \in Promises,
           WorkOf(p) # {}, p # Head(mWork)
    PROVE  WorkOf(p)' # {}
<1>1. /\ Len(mWork) \in Nat /\ Len(mWork) > 0 /\ DOMAIN mWork = 1 .. Len(mWork)
      /\ DOMAIN mWork' = 1 .. Len(mWork) - 1
      /\ \A n \in 1 .. Len(mWork) - 1 : mWork'[n] = mWork[n + 1]
      /\ Head(mWork) = mWork[1]
  OBVIOUS
<1>2. PICK n \in 1 .. Len(mWork) : mWork[n] = p
  BY <1>1 DEF WorkOf
<1>3. n - 1 \in 1 .. Len(mWork) - 1 /\ mWork'[n - 1] = mWork[(n - 1) + 1] /\ (n - 1) + 1 = n
  BY <1>1, <1>2
<1>4. n - 1 \in WorkOf(p)'
  BY <1>1, <1>2, <1>3 DEF WorkOf
<1>. QED
  BY <1>4

\* Thread t goes on in its loop, and starts or finishes r if it calls it.
LEMMA OwnerClose ==
    ASSUME CloseInv, NEW t \in Threads, at[t] \in Between,
           \A u \in Threads \ {t} : at'[u] = at[u] /\ cur'[u] = cur[u],
           mState' = mState,
           \A p \in Promises : mState[p] = "queued" /\ BufferOf(p) \cup WorkOf(p) # {} =>
             BufferOf(p)' \cup WorkOf(p)' # {} \/ (cur'[t] = p /\ at'[t] = "run_promise"),
           \A p \in tasks : p \in tasks' \/ (cur'[t] = p /\ at'[t] = "run")
    PROVE  NotDropped'
<1>. SUFFICES ASSUME NEW p \in Promises PROVE Kept(p)'
  BY DEF NotDropped
<1>1. Kept(p)
  BY DEF CloseInv, NotDropped
<1>2. at[t] \notin Starts \cup Finishes
  BY DEF Between, Starts, Finishes, Running, Rechecking
<1>3. cur'[t] = p /\ at'[t] = "run_promise" => Starting(p)'
  BY DEF Starting, Starts
<1>4. cur'[t] = p /\ at'[t] = "run" => Finishing(p)'
  BY DEF Finishing, Finishes, Running
<1>5. mState[p] = "queued" /\ BufferOf(p) \cup WorkOf(p) # {} =>
        BufferOf(p)' \cup WorkOf(p)' # {} \/ Starting(p)'
  BY <1>3
<1>6. p \in tasks => p \in tasks' \/ Finishing(p)'
  BY <1>4
<1>. QED
  BY <1>1, <1>2, <1>5, <1>6, KeptByOthers

LEMMA LoopsClose ==
    ASSUME CloseInv,
           \/ \E w \in Workers, p \in Promises : WorkerTake(w, p)
           \/ DrainSwap \/ DrainNext \/ ShutdownBegin \/ ShutdownStep
    PROVE  NotDropped' /\ Emptied'
<1>1. Sound /\ NotDropped /\ Emptied /\ TypeOK /\ Stations /\ Stages
  BY DEF CloseInv, Sound
<1>2. /\ Workers \subseteq Threads /\ Drain \in Threads /\ Main \in Threads
      /\ Main # Drain /\ Main \notin Workers
  BY ThreadsAssumption DEF Threads
<1>3. /\ "idle" \in Between /\ "drain_loop" \in Between /\ "drain_next" \in Between
      /\ "join_drain" \in Between /\ "flush" \in Between /\ "join_workers" \in Between
      /\ "closed" \in Between
      /\ "run_promise" \in Inside /\ "run" \in Inside
      /\ \A a \in Between : a \notin Inside
  BY DEF Between, Inside, Submitting, Running, Rechecking
<1>4. ASSUME NEW t \in Threads, NEW to, Move(t, to)
      PROVE  at'[t] = to /\ \A u \in Threads \ {t} : at'[u] = at[u]
  BY <1>1, <1>4 DEF Move, Stations
<1>5. ASSUME UNCHANGED <<mBuffer, mWork>>, Flushing' <=> Flushing
      PROVE  \A p \in Promises : BufferOf(p)' = BufferOf(p) /\ WorkOf(p)' = WorkOf(p)
  BY <1>5, SameBuffer, SameWork
<1>6. ASSUME NEW w \in Workers, NEW r \in Promises, WorkerTake(w, r)
      PROVE  NotDropped' /\ Emptied'
  <2>1. Call(w, r, "run", "idle") /\ at[w] = "idle" /\ tasks' = tasks \ {r}
        /\ UNCHANGED <<mBuffer, mWork>> /\ mState' = mState
    BY <1>6 DEF WorkerTake, promiseVars
  <2>2. /\ at'[w] = "run" /\ cur'[w] = r
        /\ \A u \in Threads \ {w} : at'[u] = at[u] /\ cur'[u] = cur[u] /\ back'[u] = back[u]
    BY <1>1, <1>2, <2>1, OwnerMoves
  <2>3. (Flushing' <=> Flushing) /\ (Spilling' <=> Spilling)
    BY <1>2, <2>2 DEF Flushing, Spilling
  <2>4. NotDropped'
    BY <1>2, <1>3, <1>5, <2>1, <2>2, <2>3, OwnerClose
  <2>. QED
    BY <1>1, <2>1, <2>3, <2>4 DEF Emptied
<1>7. CASE DrainSwap \/ DrainNext
  <2>1. at[Drain] \in {"drain_loop", "drain_next"} /\ mState' = mState /\ tasks' = tasks
    BY <1>7 DEF DrainSwap, DrainNext, promiseVars
  <2>2. ~Flushing /\ ~Spilling
    BY <1>1, <2>1 DEF Stages
  <2>3. \A u \in Threads \ {Drain} : at'[u] = at[u] /\ cur'[u] = cur[u] /\ back'[u] = back[u]
    <3>1. CASE DrainSwap
      BY <1>2, <1>4, <3>1 DEF DrainSwap
    <3>2. CASE DrainNext
      <4>1. mWork # <<>> => Head(mWork) \in Promises
        BY <1>1 DEF TypeOK
      <4>. QED
        BY <1>1, <1>2, <3>2, <4>1, OwnerMoves DEF DrainNext
    <3>. QED
      BY <1>7, <3>1, <3>2
  <2>4. ~Flushing' /\ ~Spilling'
    BY <1>2, <2>2, <2>3 DEF Flushing, Spilling
  <2>5. ASSUME NEW p \in Promises, mState[p] = "queued", BufferOf(p) \cup WorkOf(p) # {}
        PROVE  BufferOf(p)' \cup WorkOf(p)' # {} \/ (cur'[Drain] = p /\ at'[Drain] = "run_promise")
    <3>1. CASE DrainSwap
      <4>1. UNCHANGED <<mBuffer, mWork>> \/ (mBuffer' = mWork /\ mWork' = mBuffer)
        BY <3>1 DEF DrainSwap
      <4>. QED
        BY <2>2, <2>4, <2>5, <4>1 DEF BufferOf, WorkOf
    <3>2. CASE DrainNext
      <4>1. BufferOf(p)' = BufferOf(p)
        BY <2>2, <2>4, <3>2, SameBuffer DEF DrainNext
      <4>2. CASE mWork = <<>>
        BY <2>5, <3>2, <4>1, <4>2 DEF DrainNext, WorkOf
      <4>3. CASE mWork # <<>> /\ p = Head(mWork)
        <5>1. Call(Drain, p, "run_promise", "drain_next")
          BY <2>5, <3>2, <4>3 DEF DrainNext
        <5>. QED
          BY <1>1, <1>2, <5>1, OwnerMoves
      <4>4. CASE mWork # <<>> /\ p # Head(mWork)
        <5>1. mWork' = Tail(mWork)
          BY <3>2, <4>4 DEF DrainNext
        <5>2. WorkOf(p) # {} => WorkOf(p)' # {}
          BY <1>1, <4>4, <5>1, TailKeeps DEF TypeOK
        <5>. QED
          BY <2>5, <4>1, <5>2
      <4>. QED
        BY <4>2, <4>3, <4>4
    <3>. QED
      BY <1>7, <3>1, <3>2
  <2>6. NotDropped'
    BY <1>2, <1>3, <2>1, <2>3, <2>5, OwnerClose
  <2>. QED
    BY <2>4, <2>6 DEF Emptied
<1>8. CASE ShutdownBegin \/ ShutdownFlush
  <2>1. /\ at[Main] \in {"idle", "join_drain"} /\ mState' = mState /\ tasks' = tasks
        /\ UNCHANGED <<mBuffer, cur, back>>
        /\ \E to \in {"join_drain", "flush"} : Move(Main, to)
    BY <1>8 DEF ShutdownBegin, ShutdownFlush, promiseVars
  <2>2. /\ at'[Main] \in {"join_drain", "flush"}
        /\ \A u \in Threads \ {Main} : at'[u] = at[u] /\ cur'[u] = cur[u]
    BY <1>2, <1>4, <2>1
  <2>3. ~Flushing /\ ~Spilling'
    BY <1>3, <2>1, <2>2 DEF Flushing, Spilling
  <2>4. ASSUME NEW p \in Promises, BufferOf(p) \cup WorkOf(p) # {}
        PROVE  BufferOf(p)' \cup WorkOf(p)' # {}
    <3>1. CASE ShutdownBegin
      <4>1. ~Flushing'
        BY <1>2, <1>3, <1>4, <3>1 DEF ShutdownBegin, Flushing
      <4>. QED
        BY <1>5, <2>3, <2>4, <3>1, <4>1 DEF ShutdownBegin
    <3>2. CASE ShutdownFlush
      <4>1. mWork = <<>> /\ mWork' = mBuffer
        BY <1>1, <2>3, <3>2 DEF ShutdownFlush, Stages
      <4>. QED
        BY <2>4, <4>1 DEF BufferOf, WorkOf
    <3>. QED
      BY <1>8, <3>1, <3>2
  <2>5. NotDropped'
    BY <1>2, <1>3, <2>1, <2>2, <2>4, OwnerClose
  <2>. QED
    BY <2>3, <2>5 DEF Emptied
<1>9. CASE ShutdownFlushNext
  <2>1. /\ at[Main] = "flush" /\ mWork # <<>> /\ mWork' = Tail(mWork) /\ mBuffer' = mBuffer
        /\ Call(Main, Head(mWork), "run_promise", "flush") /\ mState' = mState /\ tasks' = tasks
    BY <1>9 DEF ShutdownFlushNext, promiseVars
  <2>2. Head(mWork) \in Promises
    BY <1>1, <2>1 DEF TypeOK
  <2>3. /\ at'[Main] = "run_promise" /\ cur'[Main] = Head(mWork) /\ back'[Main] = "flush"
        /\ \A u \in Threads \ {Main} : at'[u] = at[u] /\ cur'[u] = cur[u]
    BY <1>1, <1>2, <2>1, <2>2, OwnerMoves
  <2>4. Flushing /\ Flushing' /\ ~Spilling'
    BY <1>3, <2>1, <2>3 DEF Flushing, Spilling
  <2>5. ASSUME NEW p \in Promises, BufferOf(p) \cup WorkOf(p) # {}, p # Head(mWork)
        PROVE  BufferOf(p)' \cup WorkOf(p)' # {}
    <3>1. WorkOf(p) # {} => WorkOf(p)' # {}
      BY <1>1, <2>1, <2>5, TailKeeps DEF TypeOK
    <3>. QED
      BY <2>4, <2>5, <3>1 DEF BufferOf
  <2>6. NotDropped'
    BY <1>2, <1>3, <2>1, <2>3, <2>5, OwnerClose
  <2>. QED
    BY <2>4, <2>6 DEF Emptied
<1>10. CASE ShutdownScheduler
  <2>1. /\ at[Main] = "flush" /\ mWork = <<>> /\ mBuffer' = <<>> /\ mWork' = mWork
        /\ Call(Main, None, "join_workers", "idle") /\ mState' = mState /\ tasks' = tasks
    BY <1>10 DEF ShutdownScheduler, promiseVars
  <2>2. \A u \in Threads \ {Main} : at'[u] = at[u] /\ cur'[u] = cur[u]
    BY <1>1, <1>2, <2>1, OwnerMoves
  <2>3. \A p \in Promises : BufferOf(p) \cup WorkOf(p) = {}
    BY <2>1 DEF BufferOf, WorkOf, Flushing
  <2>4. NotDropped'
    BY <1>2, <1>3, <2>1, <2>2, <2>3, OwnerClose
  <2>. QED
    BY <2>1, <2>4 DEF Emptied
<1>11. CASE ShutdownSpill
  <2>1. at[Main] = "join_workers" /\ UNCHANGED <<mBuffer, mWork>> /\ mState' = mState
    BY <1>11 DEF ShutdownSpill, promiseVars
  <2>2. \/ tasks' = tasks /\ Call(Main, None, "closed", "idle")
        \/ \E r \in tasks : Call(Main, r, "run", "join_workers") /\ tasks' = tasks \ {r}
    BY <1>11 DEF ShutdownSpill
  <2>3. tasks \subseteq Promises
    BY <1>1 DEF TypeOK
  <2>4. /\ \A u \in Threads \ {Main} : at'[u] = at[u] /\ cur'[u] = cur[u]
        /\ \A p \in tasks : p \in tasks' \/ (cur'[Main] = p /\ at'[Main] = "run")
        /\ at'[Main] = "closed" \/ (at'[Main] = "run" /\ back'[Main] = "join_workers")
    BY <1>1, <1>2, <2>2, <2>3, OwnerMoves
  <2>5. ~Flushing /\ ~Flushing' /\ Spilling
    BY <1>3, <2>1, <2>4 DEF Flushing, Spilling
  <2>6. NotDropped'
    BY <1>2, <1>3, <1>5, <2>1, <2>4, <2>5, OwnerClose
  <2>. QED
    BY <1>1, <2>1, <2>5, <2>6 DEF Emptied
<1>. QED
  BY <1>6, <1>7, <1>8, <1>9, <1>10, <1>11 DEF ShutdownStep

LEMMA InitClose == Init => CloseInv
<1>. SUFFICES ASSUME Init PROVE CloseInv
  OBVIOUS
<1>1. Sound
  BY InitSound
<1>2. NotDropped
  BY DEF Init, NotDropped, Kept
<1>3. Emptied
  BY DEF Init, Emptied
<1>. QED
  BY <1>1, <1>2, <1>3 DEF CloseInv

LEMMA NextClose ==
    ASSUME \A p \in Promises : Chained[p] = None, CloseInv, [Next]_vars
    PROVE  CloseInv'
<1>1. Sound'
  BY NextSound DEF CloseInv
<1>2. ASSUME NEW t \in Threads, RunStep(t) PROVE NotDropped' /\ Emptied'
  BY <1>2, RunClose
<1>3. ASSUME NEW u \in Users, WaitStep(u) PROVE NotDropped' /\ Emptied'
  BY <1>3, WaitClose
<1>4. ASSUME NEW u \in Users, NEW p \in Promises,
             \/ Execute(u, p) \/ Queue(u, p)
             \/ \E kind \in {"wait", "lazy"} : StartWait(u, p, kind)
      PROVE  NotDropped' /\ Emptied'
  BY <1>4, StartClose
<1>5. CASE \/ \E w \in Workers, p \in Promises : WorkerTake(w, p)
           \/ DrainSwap \/ DrainNext \/ ShutdownBegin \/ ShutdownStep
  BY <1>1, <1>5, LoopsClose DEF CloseInv
<1>6. CASE UNCHANGED vars
  <2>1. ASSUME NEW p \in Promises PROVE Kept(p)'
    <3>1. Kept(p)
      BY <2>1 DEF CloseInv, NotDropped
    <3>2. BufferOf(p)' = BufferOf(p) /\ WorkOf(p)' = WorkOf(p)
      BY <1>6 DEF vars, BufferOf, WorkOf, Flushing
    <3>3. (Starting(p)' <=> Starting(p)) /\ (Finishing(p)' <=> Finishing(p))
      BY <1>6 DEF vars, Starting, Finishing
    <3>. QED
      BY <1>6, <3>1, <3>2, <3>3 DEF Kept, vars
  <2>2. Emptied'
    BY <1>6 DEF CloseInv, Emptied, Spilling, vars
  <2>. QED
    BY <1>1, <2>1, <2>2 DEF NotDropped, CloseInv
<1>. QED
  BY <1>1, <1>2, <1>3, <1>4, <1>5, <1>6 DEF CloseInv, Next

\* "Guarantee we execute our promises": when AsyncImpl::Shutdown is over, no
\* promise that was started is left queued, or pending unless a user is inside
\* its Wait.  Promises that executors queue during Shutdown are the exception
\* the hypothesis leaves out.
THEOREM ShutdownExecutesAll ==
    ASSUME \A p \in Promises : Chained[p] = None
    PROVE  Spec => []ClosedMeansDone
<1>1. Init => CloseInv
  BY InitClose
<1>2. CloseInv /\ [Next]_vars => CloseInv'
  BY NextClose
<1>3. CloseInv => ClosedMeansDone
  <2>. SUFFICES ASSUME CloseInv, at[Main] = "closed", NEW p \in Promises
                PROVE  \/ mState[p] \in {"null", "resolved"}
                       \/ mState[p] = "pending" /\ \E u \in Users : cur[u] = p
    BY DEF ClosedMeansDone
  <2>1. Sound /\ Kept(p) /\ Emptied /\ Stations /\ Stages
        /\ mState[p] \in {"null", "queued", "pending", "resolved"}
    BY DEF CloseInv, NotDropped, Sound, TypeOK
  <2>2. ~mIsRunning /\ tasks = {} /\ at[Drain] = "ended" /\ mBuffer = <<>> /\ mWork = <<>>
        /\ \A w \in Workers : at[w] = "idle"
    BY <2>1 DEF Stages, Spilling, Emptied
  <2>3. BufferOf(p) \cup WorkOf(p) = {}
    BY <2>2 DEF BufferOf, WorkOf
  <2>4. ASSUME NEW t \in Threads, at[t] \in Starts \cup Finishes
        PROVE  t \in Users /\ at[t] \notin Starts
    <3>1. t \notin Workers \cup {Drain, Main}
      BY <2>2, <2>4 DEF Starts, Finishes, Running, Rechecking
    <3>2. t \in Users /\ Station(t, at[t], back[t])
      BY <2>1, <3>1 DEF Threads, Stations
    <3>. QED
      BY <2>2, <3>2 DEF Station, Starts, Submitting
  <2>5. ~Starting(p) /\ (Finishing(p) => \E u \in Users : cur[u] = p)
    BY <2>4 DEF Starting, Finishing
  <2>. QED
    BY <2>1, <2>2, <2>3, <2>5 DEF Kept
<1>. QED
  BY <1>1, <1>2, <1>3, PTL DEF Spec

================================================================================
