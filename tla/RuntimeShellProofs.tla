------------------------- MODULE RuntimeShellProofs -------------------------
(***************************************************************************)
(* Theorems about RuntimeShell for every value of its constants.           *)
(***************************************************************************)
EXTENDS RuntimeShell, SequenceTheorems, TLAPS

(***************************************************************************)
(* The order of the loop: no task is in it twice.                          *)
(***************************************************************************)
Order(r) ==
  /\ r \in Seq(Task)
  /\ \A i, j \in 1..Len(r) : r[i] = r[j] => i = j

\* The task that runs is gone from the order at its await.
LEMMA TailTasks ==
  ASSUME NEW r, Order(r), r # <<>>
  PROVE  /\ Order(Tail(r))
         /\ \A t \in Task : Contains(Tail(r), t) <=> Contains(r, t) /\ t # Head(r)
<1>1. /\ Tail(r) \in Seq(Task) /\ Len(Tail(r)) = Len(r) - 1 /\ Len(r) \in Nat \ {0}
      /\ \A i \in 1..Len(Tail(r)) : Tail(r)[i] = r[i + 1]
      /\ Head(r) = r[1]
  BY SMT DEF Order
<1>2. Order(Tail(r))
  BY <1>1 DEF Order
<1>3. ASSUME NEW t \in Task PROVE Contains(Tail(r), t) <=> Contains(r, t) /\ t # Head(r)
  <2>1. ASSUME Contains(Tail(r), t) PROVE Contains(r, t) /\ t # Head(r)
    BY <1>1, <2>1 DEF Contains, Order
  <2>2. ASSUME Contains(r, t), t # Head(r) PROVE Contains(Tail(r), t)
    <3>1. PICK i \in 1..Len(r) : r[i] = t
      BY <2>2 DEF Contains
    <3>2. i - 1 \in 1..Len(Tail(r)) /\ Tail(r)[i - 1] = t
      BY <1>1, <2>2, <3>1
    <3> QED BY <3>2 DEF Contains
  <2> QED BY <2>1, <2>2
<1> QED BY <1>2, <1>3

\* Whoever runs is in the order.
LEMMA HeadTask ==
  ASSUME NEW r, Order(r), r # <<>>
  PROVE  Head(r) \in Task /\ Contains(r, Head(r))
<1>1. Len(r) \in Nat \ {0} /\ Head(r) = r[1] /\ r[1] \in Task
  BY DEF Order
<1> QED BY <1>1 DEF Contains

\* A task that is woken is in the order, and whoever runs goes on.
LEMMA WakeTasks ==
  ASSUME NEW r, Order(r), NEW t \in Task
  PROVE  /\ Order(Wake(r, t))
         /\ \A u \in Task : Contains(Wake(r, t), u) <=> Contains(r, u) \/ u = t
         /\ r # <<>> => Wake(r, t) # <<>> /\ Head(Wake(r, t)) = Head(r)
<1>1. CASE Contains(r, t)
  BY <1>1 DEF Wake
<1>2. CASE ~Contains(r, t)
  <2>1. /\ Wake(r, t) = Append(r, t) /\ Append(r, t) \in Seq(Task)
        /\ Len(Append(r, t)) = Len(r) + 1 /\ Len(r) \in Nat
        /\ \A i \in 1..Len(r) : Append(r, t)[i] = r[i]
        /\ Append(r, t)[Len(r) + 1] = t
    BY <1>2 DEF Wake, Order
  <2>2. \A i \in 1..Len(r) : r[i] # t
    BY <1>2 DEF Contains
  <2>3. Order(Append(r, t))
    BY <2>1, <2>2 DEF Order
  <2>4. \A u \in Task : Contains(Append(r, t), u) <=> Contains(r, u) \/ u = t
    BY <2>1 DEF Contains
  <2>5. r # <<>> => Append(r, t) # <<>> /\ Head(Append(r, t)) = Head(r)
    BY <2>1 DEF Order
  <2> QED BY <2>1, <2>3, <2>4, <2>5
<1> QED BY <1>1, <1>2

\* The stop event wakes run() if it waits for it.
LEMMA StopWakesTasks ==
  ASSUME NEW r, Order(r)
  PROVE  /\ Order(StopWakes(r))
         /\ \A u \in Task : Contains(StopWakes(r), u)
                              <=> Contains(r, u) \/ (pc["main"] = "waiting" /\ u = "main")
         /\ r # <<>> => StopWakes(r) # <<>> /\ Head(StopWakes(r)) = Head(r)
BY WakeTasks DEF StopWakes, WakeIf, Task

\* An item wakes the worker if it waits for one.
LEMMA ItemWakesTasks ==
  ASSUME NEW r, Order(r)
  PROVE  /\ Order(ItemWakes(r))
         /\ \A u \in Task : Contains(ItemWakes(r), u)
                              <=> Contains(r, u) \/ (pc["worker"] = "getting" /\ u = "worker")
         /\ r # <<>> => ItemWakes(r) # <<>> /\ Head(ItemWakes(r)) = Head(r)
BY WakeTasks DEF ItemWakes, WakeIf, Task

\* A background task wakes the executor if it waits for one.
LEMMA TaskWakesTasks ==
  ASSUME NEW r, Order(r)
  PROVE  /\ Order(TaskWakes(r))
         /\ \A u \in Task : Contains(TaskWakes(r), u)
                              <=> Contains(r, u) \/ (pc["executor"] = "getting" /\ u = "executor")
         /\ r # <<>> => TaskWakes(r) # <<>> /\ Head(TaskWakes(r)) = Head(r)
BY WakeTasks DEF TaskWakes, WakeIf, Task

\* What a step does to where the tasks are.
LEMMA Moved ==
  ASSUME pc \in Phase, NEW t \in Task, NEW where, Moves(t, where)
  PROVE  pc'[t] = where /\ \A u \in Task : u # t => pc'[u] = pc[u]
BY DEF Phase, Task, Moves

\* A task is where it can be.
LEMMA MovedType ==
  ASSUME pc \in Phase, NEW t \in Task, NEW where, Moves(t, where),
         \/ t = "main" /\ where \in {"waiting", "reader", "drain", "executor", "watcher",
                                     "closing", "exited"}
         \/ t = "worker" /\ where \in {"getting", "looping", "running", "handling", "done"}
         \/ t = "executor" /\ where \in {"getting", "looping", "begun", "running", "done"}
         \/ t = "watcher" /\ where \in {"waiting", "done"}
         \/ t = "reader" /\ where \in {"reading", "failed", "done"}
  PROVE  pc' \in Phase
BY DEF Phase, Task, Moves

-----------------------------------------------------------------------------
(***************************************************************************)
(* Where the tasks are and which of them are scheduled.  run() is          *)
(* scheduled only if what it awaits is there, a task that has ended never  *)
(* is, and a task in the middle of a step is the one that runs.            *)
(***************************************************************************)
Scheduled(t) == Contains(ready, t)

MainMayRun ==
  \/ pc["main"] = "new"
  \/ pc["main"] = "waiting" /\ stopEvent
  \/ pc["main"] = "drain"
  \/ pc["main"] = "reader" /\ pc["reader"] = "done"
  \/ pc["main"] = "executor" /\ pc["executor"] = "done"
  \/ pc["main"] = "watcher" /\ pc["watcher"] = "done"

LoopInv ==
  /\ Order(ready) /\ pc \in Phase /\ cancelled \subseteq Task
  /\ pc["main"] = "new" => /\ \A t \in Task : pc[t] = "new"
                           /\ \A t \in Task : Scheduled(t) => t = "main"
  /\ Scheduled("main") => MainMayRun
  /\ \A t \in {"worker", "executor", "watcher", "reader"} : pc[t] = "done" => ~Scheduled(t)
  /\ pc["reader"] = "failed" => ~Scheduled("reader")
  /\ Scheduled("watcher") => pc["watcher"] = "new" \/ pc["worker"] = "done"
  /\ pc["worker"] \in {"looping", "running"} => Runs("worker")
  /\ pc["worker"] = "new" /\ pc["main"] # "new" => Runs("worker")
  /\ pc["executor"] \in {"looping", "begun"} => Runs("executor")
  /\ pc["main"] = "drain" => Runs("main")
  /\ pc["reader"] # "new" \/ pc["executor"] # "new" => pc["worker"] # "new"
  /\ pc["worker"] # "done" => pc["watcher"] # "done"

(***************************************************************************)
(* How far the session has stopped in each of run()'s phases.              *)
(***************************************************************************)
StopInv ==
  /\ stopEvent \in BOOLEAN /\ stopping \in BOOLEAN
  /\ pc["main"] = "new" => cancelled = {} /\ ~stopping
  /\ pc["main"] \notin {"new", "waiting"} => stopEvent
  /\ pc["main"] \notin {"new", "waiting", "reader"} => pc["reader"] \in {"done", "failed"}
  /\ pc["main"] = "reader" => pc["reader"] \in {"new", "reading", "done"}
  /\ pc["main"] = "reader" /\ pc["reader"] # "done" => "reader" \in cancelled
  /\ "reader" \in cancelled => pc["main"] \notin {"new", "waiting"}
  /\ pc["main"] \in {"executor", "watcher"} => stopping
  /\ stopping => pc["main"] \in {"executor", "watcher", "exited"}
  /\ "executor" \in cancelled => /\ pc["main"] \in {"closing", "exited"}
                                 /\ exitCode \in {"running", "error"}
  /\ pc["main"] = "closing" => "executor" \in cancelled
  /\ "worker" \in cancelled => sigints = 2 \/ pc["main"] \in {"closing", "exited"}
  /\ pc["executor"] = "done" => stopping \/ "executor" \in cancelled
  /\ pc["main"] = "watcher" => pc["executor"] = "done"
  /\ pc["main"] = "exited" => pc["watcher"] = "done"
  /\ exitCode = "running" <=> pc["main"] # "exited"
  /\ taskQueue \in Seq(Nat \cup {Stop})
  /\ ~stopping => ~Contains(taskQueue, Stop)
  /\ LeaseOutlivesWork

ControlInv == LoopInv /\ StopInv

LEMMA ControlRun ==
  ASSUME ControlInv, NEW resume \in BOOLEAN, Run(resume)
  PROVE  ControlInv'
<1> USE DEF ControlInv, Run, Runs
<1>1. /\ pc' \in Phase /\ pc'["main"] = "waiting"
      /\ \A t \in Task : t # "main" => pc'[t] = "new"
  BY Moved, MovedType DEF LoopInv, Task
<1>2. ready' = <<"worker", "executor", "watcher", "reader">>
  OBVIOUS
<1>3. Order(ready') /\ ready' # <<>> /\ Head(ready') = "worker" /\ ~Contains(ready', "main")
  BY <1>2 DEF Order, Task, Contains
<1>4. LoopInv'
  BY <1>1, <1>3 DEF LoopInv, Scheduled, Task, MainMayRun
<1>5. StopInv'
  BY <1>1, <1>3 DEF LoopInv, StopInv, Task, LeaseOutlivesWork, shellVars, taskVars, outside
<1> QED BY <1>4, <1>5

\* The worker's steps.
LEMMA ControlWorker ==
  ASSUME ControlInv, Worker
  PROVE  ControlInv'
<1> USE DEF ControlInv
<1> DEFINE Left(r) == /\ Order(r)
                      /\ \A t \in Task : Contains(r, t) <=> Contains(ready, t) /\ t # "worker"
<1>1. Runs("worker") /\ pc["main"] # "new"
  <2>1. Runs("worker")
    BY DEF Worker, WorkerWaits, WorkerStarts, WorkerStops, WorkerGets, WorkerSuspends,
           WorkerHandles, WorkerFinishes, WorkerCancelled, WorkerFails
  <2> QED BY <2>1, HeadTask DEF LoopInv, Runs, Scheduled, Task
<1>2. Left(Tail(ready))
  BY <1>1, TailTasks DEF LoopInv, Runs
<1>3. CASE WorkerWaits \/ WorkerSuspends
  <2>1. /\ pc' \in Phase /\ pc'["worker"] \in {"getting", "handling"}
        /\ \A t \in Task : t # "worker" => pc'[t] = pc[t]
    BY <1>3, Moved, MovedType DEF WorkerWaits, WorkerSuspends, LoopInv, Task
  <2>2. Left(ready')
    BY <1>2, <1>3 DEF WorkerWaits, WorkerSuspends
  <2>3. LoopInv'
    BY <1>1, <1>3, <2>1, <2>2 DEF LoopInv, Scheduled, Task, MainMayRun, Runs, WorkerWaits,
       WorkerSuspends, WorkerGets, WorkerHandles, shellVars
  <2>4. StopInv'
    BY <1>1, <1>3, <2>1 DEF StopInv, Task, LeaseOutlivesWork, WorkerWaits, WorkerSuspends,
       WorkerGets, WorkerHandles, LoopInv, shellVars, pipeVars, taskVars, outside
  <2> QED BY <2>3, <2>4
<1>4. CASE WorkerStarts \/ WorkerFinishes
  <2>1. /\ pc' \in Phase /\ pc'["worker"] \in {"running", "looping"}
        /\ \A t \in Task : t # "worker" => pc'[t] = pc[t]
    BY <1>4, Moved, MovedType DEF WorkerStarts, WorkerFinishes, LoopInv, Task
  <2>2. ready' = ready
    BY <1>4 DEF WorkerStarts, WorkerFinishes
  <2>3. LoopInv'
    BY <1>1, <1>4, <2>1, <2>2 DEF LoopInv, Scheduled, Task, MainMayRun, Runs, WorkerStarts,
       WorkerFinishes, WorkerGets, WorkerHandles
  <2>4. StopInv'
    BY <1>1, <1>4, <2>1 DEF StopInv, Task, LeaseOutlivesWork, WorkerStarts, WorkerFinishes,
       WorkerGets, WorkerHandles, LoopInv, taskVars, outside
  <2> QED BY <2>3, <2>4
<1>5. CASE WorkerStops \/ WorkerCancelled \/ \E interrupted \in BOOLEAN : WorkerFails(interrupted)
  <2>1. /\ pc' \in Phase /\ pc'["worker"] = "done"
        /\ \A t \in Task : t # "worker" => pc'[t] = pc[t]
    BY <1>5, Moved, MovedType DEF WorkerStops, WorkerCancelled, WorkerFails, LoopInv, Task
  <2>2. stopEvent' \in BOOLEAN /\ (stopEvent => stopEvent')
    BY <1>5 DEF WorkerStops, WorkerCancelled, WorkerFails, StopInv
  <2>3. /\ Order(ready')
        /\ \A t \in Task : Contains(ready', t) =>
             \/ Contains(ready, t) /\ t # "worker"
             \/ t = "watcher"
             \/ t = "main" /\ pc["main"] = "waiting" /\ stopEvent'
    <3>1. CASE ready' = Wake(Tail(ready), "watcher")
      BY <3>1, <1>2, WakeTasks DEF Task
    <3>2. CASE ready' = Wake(StopWakes(Tail(ready)), "watcher") /\ stopEvent'
      <4>1. /\ Order(StopWakes(Tail(ready)))
            /\ \A t \in Task : Contains(StopWakes(Tail(ready)), t)
                  <=> Contains(Tail(ready), t) \/ (pc["main"] = "waiting" /\ t = "main")
        BY <1>2, StopWakesTasks
      <4> QED BY <1>2, <3>2, <4>1, WakeTasks DEF Task
    <3> QED BY <1>5, <3>1, <3>2 DEF WorkerStops, WorkerCancelled, WorkerFails, StopInv
  <2>4. pc["worker"] # "done"
    BY <1>5 DEF WorkerStops, WorkerGets, WorkerCancelled, WorkerFails, WorkerHandles
  <2>5. LoopInv'
    BY <1>1, <1>5, <2>1, <2>2, <2>3, <2>4 DEF LoopInv, Scheduled, Task, MainMayRun, Runs,
       WorkerStops, WorkerCancelled, WorkerFails
  <2>6. StopInv'
    BY <1>1, <1>5, <2>1, <2>2, <2>4 DEF StopInv, Task, LeaseOutlivesWork, WorkerStops,
       WorkerCancelled, WorkerFails, LoopInv, taskVars, outside
  <2> QED BY <2>5, <2>6
<1> QED BY <1>3, <1>4, <1>5 DEF Worker

\* Items and the sentinel go in at the end and come out at the head.
LEMMA TailItems ==
  ASSUME NEW S, NEW q \in Seq(S), q # <<>>
  PROVE  /\ Tail(q) \in Seq(S) /\ Head(q) \in S
         /\ \A e : Contains(Tail(q), e) => Contains(q, e)
         /\ \A e : Contains(q, e) => Contains(Tail(q), e) \/ e = Head(q)
         /\ Contains(q, Head(q))
<1>1. /\ Tail(q) \in Seq(S) /\ Len(Tail(q)) = Len(q) - 1 /\ Len(q) \in Nat \ {0}
      /\ \A i \in 1..Len(Tail(q)) : Tail(q)[i] = q[i + 1]
      /\ Head(q) = q[1] /\ q[1] \in S
  OBVIOUS
<1>2. ASSUME NEW e, Contains(q, e), e # Head(q) PROVE Contains(Tail(q), e)
  <2>1. PICK i \in 1..Len(q) : q[i] = e
    BY <1>2 DEF Contains
  <2>2. i - 1 \in 1..Len(Tail(q)) /\ Tail(q)[i - 1] = e
    BY <1>1, <1>2, <2>1
  <2> QED BY <2>2 DEF Contains
<1> QED BY <1>1, <1>2 DEF Contains

LEMMA AppendItems ==
  ASSUME NEW S, NEW q \in Seq(S), NEW new \in S
  PROVE  /\ Append(q, new) \in Seq(S) /\ Append(q, new) # <<>>
         /\ \A e : Contains(Append(q, new), e) <=> Contains(q, e) \/ e = new
<1>1. /\ Append(q, new) \in Seq(S) /\ Len(Append(q, new)) = Len(q) + 1 /\ Len(q) \in Nat
      /\ \A i \in 1..Len(q) : Append(q, new)[i] = q[i]
      /\ Append(q, new)[Len(q) + 1] = new
  OBVIOUS
<1> QED BY <1>1 DEF Contains

\* The executor's steps.
LEMMA ControlExecutor ==
  ASSUME ControlInv, Executor
  PROVE  ControlInv'
<1> USE DEF ControlInv
<1> DEFINE Left(r) == /\ Order(r)
                      /\ \A t \in Task : Contains(r, t) <=> Contains(ready, t) /\ t # "executor"
<1>1. Runs("executor") /\ pc["main"] # "new"
  <2>1. Runs("executor")
    BY DEF Executor, ExecutorWaits, ExecutorStarts, ExecutorSuspends, ExecutorEnds,
           ExecutorGets, ExecutorFinishes
  <2> QED BY <2>1, HeadTask DEF LoopInv, Runs, Scheduled, Task
<1>2. Left(Tail(ready))
  BY <1>1, TailTasks DEF LoopInv, Runs
<1>3. CASE ExecutorWaits \/ ExecutorSuspends
  <2>1. /\ pc' \in Phase /\ pc'["executor"] \in {"getting", "running"}
        /\ \A t \in Task : t # "executor" => pc'[t] = pc[t]
    BY <1>3, Moved, MovedType DEF ExecutorWaits, ExecutorSuspends, LoopInv, Task
  <2>2. Left(ready')
    BY <1>2, <1>3 DEF ExecutorWaits, ExecutorSuspends
  <2>3. LoopInv'
    BY <1>1, <1>3, <2>1, <2>2 DEF LoopInv, Scheduled, Task, MainMayRun, Runs, ExecutorWaits,
       ExecutorSuspends, ExecutorGets, shellVars
  <2>4. StopInv'
    BY <1>1, <1>3, <2>1 DEF StopInv, Task, LeaseOutlivesWork, ExecutorWaits, ExecutorSuspends,
       ExecutorGets, LoopInv, shellVars, pipeVars, taskVars, outside
  <2> QED BY <2>3, <2>4
<1>4. CASE ExecutorStarts \/ \E status \in {"success", "failure"} : ExecutorFinishes(status)
  <2>1. /\ pc' \in Phase /\ pc'["executor"] \in {"begun", "looping"}
        /\ \A t \in Task : t # "executor" => pc'[t] = pc[t]
    BY <1>4, Moved, MovedType DEF ExecutorStarts, ExecutorFinishes, LoopInv, Task
  <2>2. ready' = ready
    BY <1>4 DEF ExecutorStarts, ExecutorFinishes
  <2>3. LoopInv'
    BY <1>1, <1>4, <2>1, <2>2 DEF LoopInv, Scheduled, Task, MainMayRun, Runs, ExecutorStarts,
       ExecutorFinishes, ExecutorGets, shellVars
  <2>4. taskQueue' \in Seq(Nat \cup {Stop}) /\ (~stopping => ~Contains(taskQueue', Stop))
    <3>1. taskQueue \in Seq(Nat \cup {Stop}) /\ (~stopping => ~Contains(taskQueue, Stop))
      BY DEF StopInv
    <3>2. CASE ExecutorStarts
      <4>1. taskQueue # <<>> /\ taskQueue' = Tail(taskQueue)
        BY <3>2 DEF ExecutorStarts
      <4> QED BY <3>1, <4>1, TailItems
    <3>3. CASE taskQueue' = taskQueue
      BY <3>1, <3>3
    <3> QED BY <1>4, <3>2, <3>3 DEF ExecutorFinishes
  <2>5. StopInv'
    BY <1>1, <1>4, <2>1, <2>4 DEF StopInv, Task, LeaseOutlivesWork, ExecutorStarts,
       ExecutorFinishes, ExecutorGets, LoopInv, shellVars, pipeVars, outside
  <2> QED BY <2>3, <2>5
<1>5. CASE ExecutorEnds
  <2>1. /\ pc' \in Phase /\ pc'["executor"] = "done"
        /\ \A t \in Task : t # "executor" => pc'[t] = pc[t]
    BY <1>5, Moved, MovedType DEF ExecutorEnds, LoopInv, Task
  <2>2. /\ Order(ready')
        /\ \A t \in Task : Contains(ready', t)
             <=> \/ Contains(ready, t) /\ t # "executor"
                 \/ t = "main" /\ pc["main"] = "executor"
    BY <1>2, <1>5, WakeTasks DEF ExecutorEnds, WakeIf, Task
  <2>3. pc["executor"] # "done" /\ (stopping \/ "executor" \in cancelled)
    <3>1. pc["executor"] # "done"
      BY <1>5 DEF ExecutorEnds, ExecutorGets
    <3>2. ASSUME "executor" \notin cancelled PROVE stopping
      <4>1. taskQueue \in Seq(Nat \cup {Stop}) /\ taskQueue # <<>> /\ Head(taskQueue) = Stop
        BY <1>5, <3>2 DEF ExecutorEnds, StopInv
      <4> QED BY <4>1, TailItems DEF StopInv
    <3> QED BY <3>1, <3>2
  <2>4. taskQueue' \in Seq(Nat \cup {Stop}) /\ (~stopping => ~Contains(taskQueue', Stop))
    BY <1>5, TailItems DEF StopInv, ExecutorEnds
  <2>5. LoopInv'
    BY <1>1, <1>5, <2>1, <2>2, <2>3 DEF LoopInv, Scheduled, Task, MainMayRun, Runs,
       ExecutorEnds, shellVars, StopInv
  <2>6. StopInv'
    BY <1>1, <1>5, <2>1, <2>3, <2>4 DEF StopInv, Task, LeaseOutlivesWork, ExecutorEnds,
       LoopInv, shellVars, pipeVars, outside
  <2> QED BY <2>5, <2>6
<1> QED BY <1>3, <1>4, <1>5 DEF Executor

\* The watcher's steps.
LEMMA ControlWatcher ==
  ASSUME ControlInv, WatcherWaits \/ WatcherEnds
  PROVE  ControlInv'
<1> USE DEF ControlInv
<1>1. Runs("watcher") /\ pc["main"] # "new"
  BY HeadTask DEF LoopInv, Runs, Scheduled, Task, WatcherWaits, WatcherEnds
<1>2. /\ Order(Tail(ready))
      /\ \A t \in Task : Contains(Tail(ready), t) <=> Contains(ready, t) /\ t # "watcher"
  BY <1>1, TailTasks DEF LoopInv, Runs
<1>3. CASE WatcherWaits
  <2>1. /\ pc' \in Phase /\ pc'["watcher"] = "waiting"
        /\ \A t \in Task : t # "watcher" => pc'[t] = pc[t]
    BY <1>3, Moved, MovedType DEF WatcherWaits, LoopInv, Task
  <2>2. LoopInv'
    BY <1>1, <1>2, <1>3, <2>1 DEF LoopInv, Scheduled, Task, MainMayRun, Runs, WatcherWaits,
       shellVars
  <2>3. StopInv'
    BY <1>3, <2>1 DEF StopInv, Task, LeaseOutlivesWork, WatcherWaits, LoopInv,
       shellVars, pipeVars, taskVars, outside
  <2> QED BY <2>2, <2>3
<1>4. CASE WatcherEnds
  <2>1. /\ pc' \in Phase /\ pc'["watcher"] = "done"
        /\ \A t \in Task : t # "watcher" => pc'[t] = pc[t]
    BY <1>4, Moved, MovedType DEF WatcherEnds, LoopInv, Task
  <2>2. /\ Order(ready')
        /\ \A t \in Task : Contains(ready', t)
             <=> \/ Contains(ready, t) /\ t # "watcher"
                 \/ t = "main" /\ pc["main"] \in {"waiting", "watcher"}
    BY <1>2, <1>4, WakeTasks DEF WatcherEnds, WakeIf, Task
  <2>3. LoopInv'
    BY <1>1, <1>4, <2>1, <2>2 DEF LoopInv, Scheduled, Task, MainMayRun, Runs, WatcherEnds
  <2>4. StopInv'
    BY <1>1, <1>4, <2>1 DEF StopInv, Task, LeaseOutlivesWork, WatcherEnds, LoopInv,
       pipeVars, taskVars, outside
  <2> QED BY <2>3, <2>4
<1> QED BY <1>3, <1>4

\* The reader's steps: while it may read, run() waits for the stop.
LEMMA ControlReader ==
  ASSUME ControlInv, Reader
  PROVE  ControlInv'
<1> USE DEF ControlInv
<1>1. Runs("reader") /\ pc["main"] # "new" /\ pc["worker"] # "new"
  <2>1. Runs("reader")
    BY DEF Reader, ReaderBegins, ReaderFails, ReaderCancelled, ReaderReads
  <2> QED BY <2>1, HeadTask DEF LoopInv, Runs, Scheduled, Task
<1>2. /\ Order(Tail(ready))
      /\ \A t \in Task : Contains(Tail(ready), t) <=> Contains(ready, t) /\ t # "reader"
  BY <1>1, TailTasks DEF LoopInv, Runs
<1>3. CASE ReaderBegins
  <2>1. /\ pc' \in Phase /\ pc'["reader"] = "reading"
        /\ \A t \in Task : t # "reader" => pc'[t] = pc[t]
    BY <1>3, Moved, MovedType DEF ReaderBegins, LoopInv, Task
  <2>2. LoopInv'
    BY <1>1, <1>2, <1>3, <2>1 DEF LoopInv, Scheduled, Task, MainMayRun, Runs, ReaderBegins,
       shellVars
  <2>3. StopInv'
    BY <1>3, <2>1 DEF StopInv, Task, LeaseOutlivesWork, ReaderBegins, LoopInv,
       shellVars, pipeVars, taskVars, outside
  <2> QED BY <2>2, <2>3
<1>4. CASE ReaderFails \/ \E ends \in BOOLEAN : \E kinds \in Actions(ends) : ReaderReads(ends, kinds)
  <2>1. pc["main"] = "waiting" /\ pc["reader"] = "reading" /\ "reader" \notin cancelled
    BY <1>1, <1>4 DEF LoopInv, StopInv, ReaderFails, ReaderReads
  <2>2. /\ pc' \in Phase /\ pc'["reader"] \in {"reading", "done", "failed"}
        /\ \A t \in Task : t # "reader" => pc'[t] = pc[t]
    BY <1>4, Moved, MovedType DEF ReaderFails, ReaderReads, LoopInv, Task
  <2>3. stopEvent' \in BOOLEAN /\ (stopEvent => stopEvent')
    BY <1>4 DEF ReaderFails, ReaderReads, StopInv
  <2> DEFINE Woken(r) ==
        /\ Order(r)
        /\ \A t \in Task : Contains(r, t) =>
             \/ Contains(ready, t) /\ t # "reader"
             \/ t = "main" /\ stopEvent'
             \/ t = "worker" /\ pc["worker"] = "getting"
  <2>4. Woken(ready')
    <3>1. CASE ReaderFails
      BY <1>2, <3>1, StopWakesTasks DEF ReaderFails, Task
    <3>2. ASSUME NEW ends \in BOOLEAN, NEW kinds \in Actions(ends), ReaderReads(ends, kinds)
          PROVE  Woken(ready')
      <4>1. /\ Order(ItemWakes(Tail(ready)))
            /\ \A u \in Task : Contains(ItemWakes(Tail(ready)), u)
                 <=> Contains(Tail(ready), u) \/ (pc["worker"] = "getting" /\ u = "worker")
        BY <1>2, ItemWakesTasks
      <4>2. \/ ready' \in {Tail(ready), ItemWakes(Tail(ready))}
            \/ ends /\ ready' \in {StopWakes(Tail(ready)), StopWakes(ItemWakes(Tail(ready)))}
        BY <3>2 DEF ReaderReads, ReadWakes
      <4>3. ends => stopEvent'
        BY <3>2 DEF ReaderReads
      <4>4. CASE ready' \in {Tail(ready), ItemWakes(Tail(ready))}
        BY <1>2, <4>1, <4>4
      <4>5. CASE ends /\ ready' = StopWakes(Tail(ready))
        BY <1>2, <4>3, <4>5, StopWakesTasks DEF Task
      <4>6. CASE ends /\ ready' = StopWakes(ItemWakes(Tail(ready)))
        BY <1>2, <4>1, <4>3, <4>6, StopWakesTasks DEF Task
      <4> QED BY <4>2, <4>4, <4>5, <4>6
    <3> QED BY <1>4, <3>1, <3>2
  <2>5. LoopInv'
    BY <1>1, <1>4, <2>1, <2>2, <2>3, <2>4 DEF LoopInv, Scheduled, Task, MainMayRun, Runs,
       ReaderFails, ReaderReads
  <2>6. StopInv'
    BY <1>1, <1>4, <2>1, <2>2, <2>3 DEF StopInv, Task, LeaseOutlivesWork, ReaderFails,
       ReaderReads, LoopInv, pipeVars, taskVars, outside
  <2> QED BY <2>5, <2>6
<1>5. CASE ReaderCancelled
  <2>1. /\ pc["main"] = "reader" /\ pc["reader"] \in {"new", "reading"}
        /\ pc' \in Phase /\ pc'["reader"] = "done"
        /\ \A t \in Task : t # "reader" => pc'[t] = pc[t]
    BY <1>5, Moved, MovedType DEF ReaderCancelled, LoopInv, StopInv, Task
  <2>2. /\ Order(ready')
        /\ \A t \in Task : Contains(ready', t)
             <=> (Contains(ready, t) /\ t # "reader") \/ t = "main"
    BY <1>2, <1>5, WakeTasks DEF ReaderCancelled, Task
  <2>3. LoopInv'
    BY <1>1, <1>5, <2>1, <2>2 DEF LoopInv, Scheduled, Task, MainMayRun, Runs, ReaderCancelled,
       shellVars
  <2>4. StopInv'
    BY <1>5, <2>1 DEF StopInv, Task, LeaseOutlivesWork, ReaderCancelled, LoopInv,
       shellVars, pipeVars, taskVars, outside
  <2> QED BY <2>3, <2>4
<1> QED BY <1>3, <1>4, <1>5 DEF Reader

\* run() from the stop event on.
LEMMA ControlMain ==
  ASSUME ControlInv, MainStops \/ MainStopsQueues \/ MainRaises \/ MainJoins \/ MainCloses
  PROVE  ControlInv'
<1> USE DEF ControlInv
<1>1. CASE MainCloses
  <2>1. /\ pc["main"] = "closing" /\ pc' \in Phase /\ pc'["main"] = "exited"
        /\ \A t \in Task : t # "main" => pc'[t] = pc[t]
    BY <1>1, Moved, MovedType DEF MainCloses, LoopInv, Task
  <2>2. LoopInv'
    BY <1>1, <2>1 DEF LoopInv, Scheduled, Task, MainMayRun, Runs, MainCloses, shellVars, Contains
  <2>3. StopInv'
    BY <1>1, <2>1 DEF StopInv, Task, LeaseOutlivesWork, MainCloses, LoopInv,
       shellVars, pipeVars, taskVars, outside
  <2> QED BY <2>2, <2>3
<1> SUFFICES ASSUME ~MainCloses PROVE ControlInv'
  BY <1>1
<1>2. Runs("main") /\ Scheduled("main")
  BY HeadTask DEF MainStops, MainStopsQueues, MainDrains, MainRaises, MainJoins, LoopInv,
     Runs, Scheduled
<1>3. /\ Order(Tail(ready))
      /\ \A t \in Task : Contains(Tail(ready), t) <=> Contains(ready, t) /\ t # "main"
  BY <1>2, TailTasks DEF LoopInv, Runs
<1>4. MainMayRun
  BY <1>2 DEF LoopInv
<1>5. CASE MainStops
  <2>1. CASE pc["reader"] \in {"done", "failed"}
    <3>1. /\ pc' \in Phase /\ pc'["main"] = "drain"
          /\ \A t \in Task : t # "main" => pc'[t] = pc[t]
      BY <1>5, <2>1, Moved, MovedType DEF MainStops, LoopInv, Task
    <3>2. LoopInv'
      BY <1>2, <1>4, <1>5, <2>1, <3>1 DEF LoopInv, Scheduled, Task, MainMayRun, Runs, MainStops
    <3>3. StopInv'
      BY <1>4, <1>5, <2>1, <3>1 DEF StopInv, Task, LeaseOutlivesWork, MainStops, LoopInv,
         MainMayRun, pipeVars, taskVars, outside
    <3> QED BY <3>2, <3>3
  <2>2. CASE pc["reader"] \notin {"done", "failed"}
    <3>1. /\ pc' \in Phase /\ pc'["main"] = "reader"
          /\ \A t \in Task : t # "main" => pc'[t] = pc[t]
      BY <1>5, <2>2, Moved, MovedType DEF MainStops, LoopInv, Task
    <3>2. /\ Order(ready')
          /\ \A t \in Task : Contains(ready', t)
               <=> (Contains(ready, t) /\ t # "main") \/ t = "reader"
      BY <1>3, <1>5, <2>2, WakeTasks DEF MainStops, Task
    <3>3. LoopInv'
      BY <1>2, <1>4, <1>5, <2>2, <3>1, <3>2 DEF LoopInv, Scheduled, Task, MainMayRun, Runs,
         MainStops
    <3>4. pc["reader"] \in {"new", "reading"}
      BY <2>2 DEF LoopInv, Phase
    <3>5. StopInv'
      BY <1>4, <1>5, <3>1, <3>4 DEF StopInv, Task, LeaseOutlivesWork, MainStops, LoopInv,
         MainMayRun, pipeVars, taskVars, outside
    <3> QED BY <3>3, <3>5
  <2> QED BY <2>1, <2>2
<1>6. CASE MainStopsQueues
  <2>1. /\ pc["main"] \in {"reader", "drain"} /\ pc["reader"] = "done"
        /\ pc' \in Phase /\ pc'["main"] = "executor"
        /\ \A t \in Task : t # "main" => pc'[t] = pc[t]
    BY <1>4, <1>6, Moved, MovedType DEF MainStopsQueues, MainDrains, LoopInv, StopInv, Task,
       MainMayRun
  <2>2. /\ Order(ready')
        /\ \A t \in Task : Contains(ready', t)
             <=> \/ Contains(ready, t) /\ t # "main"
                 \/ pc["worker"] = "getting" /\ t = "worker"
                 \/ pc["executor"] = "getting" /\ t = "executor"
    BY <1>3, <1>6, ItemWakesTasks, TaskWakesTasks DEF MainStopsQueues, Task
  <2>3. LoopInv'
    BY <1>2, <1>6, <2>1, <2>2 DEF LoopInv, Scheduled, Task, MainMayRun, Runs,
       MainStopsQueues, shellVars
  <2>4. stopping' = TRUE /\ taskQueue' \in Seq(Nat \cup {Stop})
    BY <1>6, AppendItems DEF MainStopsQueues, StopInv
  <2>5. StopInv'
    BY <1>4, <1>6, <2>1, <2>4 DEF StopInv, Task, LeaseOutlivesWork, MainStopsQueues, LoopInv,
       shellVars, outside
  <2> QED BY <2>3, <2>5
<1>7. CASE MainRaises
  <2>1. /\ pc["main"] = "drain" /\ pc["reader"] = "failed"
        /\ pc' \in Phase /\ pc'["main"] = "closing"
        /\ \A t \in Task : t # "main" => pc'[t] = pc[t]
    BY <1>4, <1>7, Moved, MovedType DEF MainRaises, MainDrains, LoopInv, StopInv, Task,
       MainMayRun
  <2>2. /\ Order(ready')
        /\ \A t \in Task : Contains(ready', t)
             <=> \/ Contains(ready, t) /\ t # "main"
                 \/ pc["worker"] # "done" /\ t = "worker"
                 \/ pc["executor"] # "done" /\ t = "executor"
    <3>1. /\ Order(CancelWakes("worker", Tail(ready)))
          /\ \A t \in Task : Contains(CancelWakes("worker", Tail(ready)), t)
               <=> \/ Contains(ready, t) /\ t # "main"
                   \/ pc["worker"] # "done" /\ t = "worker"
      BY <1>3, WakeTasks DEF CancelWakes, WakeIf, Task
    <3> QED BY <1>7, <3>1, WakeTasks DEF MainRaises, CancelWakes, WakeIf, Task
  <2>3. LoopInv'
    BY <1>2, <1>7, <2>1, <2>2 DEF LoopInv, Scheduled, Task, MainMayRun, Runs,
       MainRaises, shellVars
  <2>4. StopInv'
    BY <1>7, <2>1 DEF StopInv, Task, LeaseOutlivesWork, MainRaises, LoopInv,
       shellVars, pipeVars, taskVars, outside
  <2> QED BY <2>3, <2>4
<1>8. CASE MainJoins
  <2>1. /\ pc["main"] \in {"executor", "watcher"} /\ pc["executor"] = "done"
        /\ pc' \in Phase /\ pc'["main"] = IF pc["watcher"] = "done" THEN "exited" ELSE "watcher"
        /\ exitCode' = IF pc["watcher"] = "done" THEN Code ELSE exitCode
        /\ \A t \in Task : t # "main" => pc'[t] = pc[t]
    BY <1>4, <1>8, Moved, MovedType DEF MainJoins, LoopInv, StopInv, Task, MainMayRun
  <2>2. LoopInv'
    BY <1>2, <1>3, <1>8, <2>1 DEF LoopInv, Scheduled, Task, MainMayRun, Runs, MainJoins,
       shellVars
  <2>3. StopInv'
    BY <1>8, <2>1 DEF StopInv, Task, LeaseOutlivesWork, MainJoins, LoopInv, Code,
       shellVars, pipeVars, taskVars, outside
  <2> QED BY <2>2, <2>3
<1> QED BY <1>5, <1>6, <1>7, <1>8

\* What comes in between steps.
LEMMA ControlOutside ==
  ASSUME ControlInv, Outside
  PROVE  ControlInv'
<1> USE DEF ControlInv
<1>1. /\ Between /\ pc' = pc
      /\ UNCHANGED <<stopping, exitCode>>
      /\ pc["main"] \notin {"new", "closing", "exited", "drain"}
      /\ pc["worker"] \notin {"looping", "running"} /\ pc["executor"] \notin {"looping", "begun"}
  BY DEF Outside, ModelAnswers, TaskIsOver, Readable, Schedule, Sigint, Sigterm, SubmitEvent,
         SubmitTask, pipeVars, Between, InStep
<1>2. /\ Order(ready')
      /\ ready # <<>> => ready' # <<>> /\ Head(ready') = Head(ready)
      /\ \A t \in Task : Contains(ready', t) =>
           \/ Contains(ready, t)
           \/ t = "main" /\ pc["main"] = "waiting" /\ stopEvent'
           \/ t = "worker" /\ pc["worker"] # "done"
           \/ t = "executor" /\ pc["executor"] # "done"
           \/ t = "reader" /\ pc["reader"] = "reading"
  <2>1. CASE ModelAnswers \/ TaskIsOver \/ Readable
    <3>1. PICK t \in Task : /\ ~Contains(ready, t) /\ ready' = Append(ready, t)
                            /\ \/ t = "worker" /\ pc["worker"] = "handling"
                               \/ t = "executor" /\ pc["executor"] = "running"
                               \/ t = "reader" /\ pc["reader"] = "reading"
      BY <2>1 DEF ModelAnswers, TaskIsOver, Readable, Schedule, Task
    <3>2. ready' = Wake(ready, t)
      BY <3>1 DEF Wake
    <3> QED BY <3>1, <3>2, WakeTasks DEF LoopInv
  <2>2. CASE Sigint
    <3>1. \/ ready' = StopWakes(ready)
          \/ ready' = Wake(StopWakes(ready), "worker") /\ pc["worker"] # "done"
      BY <2>2 DEF Sigint
    <3>2. stopEvent'
      BY <2>2 DEF Sigint
    <3>3. Order(StopWakes(ready))
      BY StopWakesTasks DEF LoopInv
    <3> QED BY <3>1, <3>2, <3>3, StopWakesTasks, WakeTasks DEF LoopInv, Task
  <2>3. CASE Sigterm
    BY <2>3, StopWakesTasks DEF Sigterm, LoopInv
  <2>4. CASE SubmitEvent
    BY <2>4, ItemWakesTasks DEF SubmitEvent, LoopInv
  <2>5. CASE SubmitTask
    BY <2>5, TaskWakesTasks DEF SubmitTask, LoopInv
  <2> QED BY <2>1, <2>2, <2>3, <2>4, <2>5 DEF Outside
<1>3. stopEvent' \in BOOLEAN /\ (stopEvent => stopEvent')
  BY DEF Outside, ModelAnswers, TaskIsOver, Readable, Schedule, Sigint, Sigterm, SubmitEvent,
         SubmitTask, StopInv, shellVars
<1>4. /\ cancelled' \subseteq cancelled \cup {"worker"}
      /\ cancelled \subseteq cancelled'
      /\ "worker" \in cancelled' => "worker" \in cancelled \/ sigints' = 2
      /\ sigints = 2 => sigints' = 2
  BY DEF Outside, ModelAnswers, TaskIsOver, Readable, Schedule, Sigint, Sigterm, SubmitEvent,
         SubmitTask, outside
<1>5. taskQueue' \in Seq(Nat \cup {Stop}) /\ (~stopping => ~Contains(taskQueue', Stop))
  <2>1. CASE SubmitTask
    <3>1. taskQueue' = Append(taskQueue, Len(tasks'))
      BY <2>1 DEF SubmitTask
    <3>2. Len(tasks') \in Nat
      BY <2>1 DEF SubmitTask
    <3> QED BY <3>1, <3>2, AppendItems, SentinelAssumption DEF StopInv
  <2>2. CASE taskQueue' = taskQueue
    BY <2>2 DEF StopInv
  <2> QED BY <2>1, <2>2 DEF Outside, ModelAnswers, TaskIsOver, Readable, Schedule, Sigint,
             Sigterm, SubmitEvent, taskVars
<1>6. LoopInv'
  BY <1>1, <1>2, <1>3, <1>4 DEF LoopInv, Scheduled, Task, MainMayRun, Runs
<1>7. StopInv'
  BY <1>1, <1>3, <1>4, <1>5 DEF StopInv, LeaseOutlivesWork, LoopInv
<1> QED BY <1>6, <1>7

LEMMA ControlStep == ControlInv /\ [Next]_vars => ControlInv'
<1>1. ASSUME ControlInv, UNCHANGED vars PROVE ControlInv'
  <2>1. /\ UNCHANGED loopVars
        /\ UNCHANGED <<stopEvent, stopping, exitCode, taskQueue, sigints>>
    BY <1>1 DEF vars, pipeVars, shellVars, taskVars, outside
  <2>2. LoopInv'
    BY <1>1, <2>1 DEF ControlInv, LoopInv, Scheduled, MainMayRun, Runs, loopVars
  <2>3. StopInv'
    BY <1>1, <2>1 DEF ControlInv, StopInv, LeaseOutlivesWork, loopVars
  <2> QED BY <2>2, <2>3 DEF ControlInv
<1> QED BY <1>1, ControlRun, ControlWorker, ControlExecutor, ControlWatcher, ControlReader,
           ControlMain, ControlOutside DEF Next, Step, Main, Gone

LEMMA ControlInit == Init => ControlInv
<1> SUFFICES ASSUME Init PROVE ControlInv
  OBVIOUS
<1>1. pc \in Phase /\ \A t \in Task : pc[t] = "new"
  BY DEF Init, Phase, Task
<1>2. Order(ready) /\ \A t \in Task : Contains(ready, t) => t = "main"
  BY DEF Init, Order, Contains, Task
<1>3. ~Contains(taskQueue, Stop) /\ taskQueue \in Seq(Nat \cup {Stop})
  BY DEF Init, Contains
<1> QED BY <1>1, <1>2, <1>3 DEF Init, ControlInv, LoopInv, StopInv, Scheduled, MainMayRun,
           Runs, LeaseOutlivesWork, Task

LEMMA ControlHolds == Spec => []ControlInv
BY ControlInit, ControlStep, PTL DEF Spec

\* app.close releases the writer lease only after every task has ended: run()
\* joins the executor, the watcher and with it the worker, and asyncio.run ends
\* what an error of the reader left.
THEOREM NothingOutlivesTheLease == Spec => []LeaseOutlivesWork
<1>1. ControlInv => LeaseOutlivesWork
  BY DEF ControlInv, StopInv
<1> QED BY <1>1, ControlHolds, PTL

-----------------------------------------------------------------------------
(***************************************************************************)
(* The pipeline: the items that were begun are the first ones, in order,   *)
(* and the queue holds all the others until stop() throws them away.       *)
(***************************************************************************)
PipeTypes ==
  /\ submitted \in Seq(Kind) /\ started \in Seq(Nat) /\ queue \in Seq(Nat \cup {Stop})
  /\ current \in 1..Len(submitted) \cup {None}
  /\ pc["main"] = "new" => submitted = <<>> /\ started = <<>> /\ queue = <<>>

PipeInv ==
  /\ PipeTypes
  /\ \A i \in 1..Len(started) : started[i] = i
  /\ Len(started) <= Len(submitted)
  /\ ~stopping => /\ Len(queue) = Len(submitted) - Len(started)
                  /\ \A k \in 1..Len(queue) : queue[k] = Len(started) + k
  /\ stopping => queue \in {<<>>, <<Stop>>}
  /\ current # None <=> pc["worker"] \in {"running", "handling"}

\* Whoever runs, run() has begun, and it begins once.
LEMMA BeginsOnce ==
  ASSUME ControlInv, Next
  PROVE  /\ ~(\E resume \in BOOLEAN : Run(resume)) => pc["main"] # "new"
         /\ pc'["main"] # "new"
<1> USE DEF ControlInv
<1>1. pc["main"] = "new" => ready = <<>> \/ Head(ready) = "main"
  BY HeadTask DEF LoopInv, Scheduled
<1>2. CASE \E resume \in BOOLEAN : Run(resume)
  BY <1>2, Moved DEF Run, LoopInv, Task
<1>3. CASE Worker
  BY <1>1, <1>3, Moved DEF Worker, WorkerWaits, WorkerStarts, WorkerStops, WorkerGets,
     WorkerSuspends, WorkerHandles, WorkerFinishes, WorkerCancelled, WorkerFails, Runs,
     LoopInv, Task, Run
<1>4. CASE Executor
  BY <1>1, <1>4, Moved DEF Executor, ExecutorWaits, ExecutorStarts, ExecutorSuspends,
     ExecutorEnds, ExecutorGets, ExecutorFinishes, Runs, LoopInv, Task, Run
<1>5. CASE WatcherWaits \/ WatcherEnds \/ Reader
  BY <1>1, <1>5, Moved DEF WatcherWaits, WatcherEnds, Reader, ReaderBegins, ReaderReads,
     ReaderFails, ReaderCancelled, Runs, LoopInv, Task, Run
<1>6. CASE MainStops \/ MainStopsQueues \/ MainRaises \/ MainJoins \/ MainCloses
  BY <1>6, Moved DEF MainStops, MainStopsQueues, MainDrains, MainRaises, MainJoins,
     MainCloses, LoopInv, Task
<1>7. CASE Outside
  BY <1>7 DEF Outside, ModelAnswers, TaskIsOver, Readable, Schedule, Sigint, Sigterm,
     SubmitEvent, SubmitTask, Between
<1>8. CASE Gone
  BY <1>8 DEF Gone, vars, loopVars
<1> QED BY <1>2, <1>3, <1>4, <1>5, <1>6, <1>7, <1>8 DEF Next, Step, Main

LEMMA PipeWorker ==
  ASSUME ControlInv, PipeInv, Worker
  PROVE  PipeInv'
<1> USE DEF ControlInv, PipeInv
<1>1. pc["main"] # "new" /\ pc'["main"] # "new"
  BY BeginsOnce DEF Next, Step, Run, Worker, WorkerWaits, WorkerStarts, WorkerStops, WorkerGets,
     WorkerSuspends, WorkerHandles, WorkerFinishes, WorkerCancelled, WorkerFails, Runs
<1>2. CASE WorkerWaits
  <2>1. pc["worker"] \in {"new", "getting", "looping"} /\ pc'["worker"] = "getting"
        /\ UNCHANGED pipeVars
    BY <1>2, Moved DEF WorkerWaits, WorkerGets, LoopInv, Task
  <2> QED BY <1>1, <2>1 DEF PipeTypes, pipeVars
<1>3. CASE WorkerSuspends
  <2>1. pc["worker"] = "running" /\ pc'["worker"] = "handling" /\ UNCHANGED pipeVars
    BY <1>3, Moved DEF WorkerSuspends, LoopInv, Task
  <2> QED BY <1>1, <2>1 DEF PipeTypes, pipeVars
<1>4. CASE WorkerStarts
  <2>1. /\ queue # <<>> /\ Head(queue) # Stop /\ current' = Head(queue)
        /\ started' = Append(started, Head(queue)) /\ queue' = Tail(queue)
        /\ UNCHANGED <<submitted, stopping>> /\ pc'["worker"] = "running"
    BY <1>4, Moved DEF WorkerStarts, LoopInv, Task
  <2>2. ~stopping /\ Head(queue) = Len(started) + 1
        /\ Len(started) + 1 <= Len(submitted) /\ Len(submitted) \in Nat /\ Len(started) \in Nat
    BY <2>1 DEF PipeTypes
  <2>3. /\ Len(queue') = Len(queue) - 1 /\ queue' \in Seq(Nat \cup {Stop})
        /\ \A k \in 1..Len(queue') : queue'[k] = queue[k + 1]
    BY <2>1 DEF PipeTypes
  <2>4. /\ started' \in Seq(Nat) /\ Len(started') = Len(started) + 1
        /\ \A i \in 1..Len(started) : started'[i] = started[i]
        /\ started'[Len(started) + 1] = Len(started) + 1
    BY <2>1, <2>2 DEF PipeTypes
  <2>5. current' \in 1..Len(submitted) /\ current' # None
    BY <2>1, <2>2, SentinelAssumption
  <2>6. PipeTypes'
    BY <1>1, <2>1, <2>3, <2>4, <2>5 DEF PipeTypes
  <2>7. \A i \in 1..Len(started') : started'[i] = i
    BY <2>2, <2>4
  <2>8. /\ Len(queue') = Len(submitted') - Len(started')
        /\ \A k \in 1..Len(queue') : queue'[k] = Len(started') + k
    BY <2>1, <2>2, <2>3, <2>4 DEF PipeTypes
  <2> QED BY <2>1, <2>2, <2>4, <2>5, <2>6, <2>7, <2>8
<1>5. CASE WorkerStops
  <2>1. /\ queue # <<>> /\ Head(queue) = Stop /\ queue' = Tail(queue)
        /\ pc["worker"] \in {"new", "getting", "looping"} /\ pc'["worker"] = "done"
        /\ UNCHANGED <<submitted, stopping, current, started>>
    BY <1>5, Moved DEF WorkerStops, WorkerGets, LoopInv, Task
  <2>2. stopping /\ queue = <<Stop>>
    BY <2>1, SentinelAssumption DEF PipeTypes
  <2>3. queue' = <<>>
    BY <2>1, <2>2
  <2> QED BY <1>1, <2>1, <2>2, <2>3 DEF PipeTypes
<1>6. CASE WorkerFinishes \/ WorkerCancelled \/ \E interrupted \in BOOLEAN : WorkerFails(interrupted)
  <2>1. /\ current' = None /\ UNCHANGED <<submitted, stopping, started, queue>>
        /\ pc'["worker"] \in {"looping", "done"}
    BY <1>6, Moved DEF WorkerFinishes, WorkerCancelled, WorkerFails, LoopInv, Task
  <2> QED BY <1>1, <2>1 DEF PipeTypes
<1> QED BY <1>2, <1>3, <1>4, <1>5, <1>6 DEF Worker

\* The kinds of the lines of one read.
LEMMA ActionKinds ==
  ASSUME NEW ends \in BOOLEAN, NEW kinds \in Actions(ends)
  PROVE  kinds \in Seq(Kind) /\ Len(kinds) \in 0..2
<1>1. \/ kinds = <<>> \/ kinds = <<"chat">> \/ kinds = <<"status">> \/ kinds = <<"chat", "chat">>
  BY DEF Actions
<1>2. CASE kinds = <<>>
  BY <1>2
<1>3. CASE kinds = <<"chat">>
  BY <1>3 DEF Kind
<1>4. CASE kinds = <<"status">>
  BY <1>4 DEF Kind
<1>5. CASE kinds = <<"chat", "chat">>
  BY <1>5 DEF Kind
<1> QED BY <1>1, <1>2, <1>3, <1>4, <1>5

\* A step of another task than the worker leaves the worker where it is.
LEMMA WorkerStays ==
  ASSUME ControlInv, Next, ~Worker
  PROVE  pc'["worker"] = pc["worker"]
<1> USE DEF ControlInv, LoopInv
<1>1. CASE Executor
  BY <1>1, Moved DEF Executor, ExecutorWaits, ExecutorStarts, ExecutorSuspends, ExecutorEnds,
     ExecutorFinishes, Task
<1>2. CASE WatcherWaits \/ WatcherEnds \/ Reader
  BY <1>2, Moved DEF WatcherWaits, WatcherEnds, Reader, ReaderBegins, ReaderReads, ReaderFails,
     ReaderCancelled, Task
<1>3. CASE Main
  BY <1>3, Moved DEF Main, Run, MainStops, MainStopsQueues, MainRaises, MainJoins, MainCloses, Task
<1>4. CASE Outside \/ Gone
  BY <1>4 DEF Outside, ModelAnswers, TaskIsOver, Readable, Schedule, Sigint, Sigterm,
     SubmitEvent, SubmitTask, Gone, vars, loopVars
<1> QED BY <1>1, <1>2, <1>3, <1>4 DEF Next, Step

LEMMA PipeStep == ControlInv /\ PipeInv /\ [Next]_vars => PipeInv'
<1> SUFFICES ASSUME ControlInv, PipeInv, [Next]_vars PROVE PipeInv'
  OBVIOUS
<1> USE DEF ControlInv, PipeInv
<1>1. CASE UNCHANGED vars
  BY <1>1 DEF PipeTypes, vars, loopVars, pipeVars
<1>2. CASE Worker
  BY <1>2, PipeWorker
<1> SUFFICES ASSUME Next, ~Worker PROVE PipeInv'
  BY <1>1, <1>2
<1>3. /\ pc'["worker"] = pc["worker"] /\ pc'["main"] # "new"
      /\ ~(\E resume \in BOOLEAN : Run(resume)) => pc["main"] # "new"
  BY WorkerStays, BeginsOnce
<1>4. ASSUME NEW resume \in BOOLEAN, Run(resume) PROVE PipeInv'
  <2>1. /\ pc["main"] = "new" /\ ~stopping /\ UNCHANGED <<stopping, current, started>>
        /\ submitted = <<>> /\ started = <<>> /\ queue = <<>>
        /\ submitted' = IF resume THEN <<"resume">> ELSE <<>>
        /\ queue' = IF resume THEN <<1>> ELSE <<>>
    BY <1>4 DEF Run, StopInv, PipeTypes
  <2>2. current' = None /\ pc["worker"] \notin {"running", "handling"}
    BY <2>1 DEF PipeTypes, LoopInv, Task
  <2>3. /\ submitted' \in Seq(Kind) /\ queue' \in Seq(Nat \cup {Stop})
        /\ Len(submitted') \in Nat /\ Len(queue') = Len(submitted')
        /\ \A k \in 1..Len(queue') : queue'[k] = k
    <3>1. CASE resume
      <4>1. submitted' = <<"resume">> /\ queue' = <<1>>
        BY <2>1, <3>1
      <4> QED BY <4>1 DEF Kind
    <3>2. CASE ~resume
      BY <2>1, <3>2
    <3> QED BY <3>1, <3>2
  <2>4. started' = <<>> /\ Len(started') = 0
    BY <2>1
  <2> QED BY <1>3, <2>1, <2>2, <2>3, <2>4 DEF PipeTypes
<1>5. ASSUME NEW ends \in BOOLEAN, NEW kinds \in Actions(ends), ReaderReads(ends, kinds)
      PROVE  PipeInv'
  <2>1. ~stopping
    <3>1. pc["reader"] = "reading"
      BY <1>5 DEF ReaderReads
    <3> QED BY <3>1 DEF StopInv
  <2>2. /\ submitted' = submitted \o kinds
        /\ queue' = queue \o [i \in 1..Len(kinds) |-> Len(submitted) + i]
        /\ UNCHANGED <<stopping, current, started>>
    BY <1>5 DEF ReaderReads
  <2>3. kinds \in Seq(Kind) /\ Len(kinds) \in Nat
    BY ActionKinds
  <2>4. submitted' \in Seq(Kind) /\ Len(submitted') = Len(submitted) + Len(kinds)
        /\ Len(submitted) \in Nat
    BY <2>2, <2>3 DEF PipeTypes
  <2> DEFINE new == [i \in 1..Len(kinds) |-> Len(submitted) + i]
  <2>5. new \in Seq(Nat \cup {Stop}) /\ Len(new) = Len(kinds)
        /\ \A i \in 1..Len(kinds) : new[i] = Len(submitted) + i
    BY <2>3, <2>4
  <2> HIDE DEF new
  <2>6. /\ queue' \in Seq(Nat \cup {Stop}) /\ Len(queue') = Len(queue) + Len(kinds)
        /\ \A k \in 1..Len(queue') :
             queue'[k] = IF k <= Len(queue) THEN queue[k] ELSE new[k - Len(queue)]
    BY <2>2, <2>3, <2>5 DEF PipeTypes, new
  <2>7. \A k \in 1..Len(queue') : queue'[k] = Len(started) + k
    <3> SUFFICES ASSUME NEW k \in 1..Len(queue') PROVE queue'[k] = Len(started) + k
      OBVIOUS
    <3>1. Len(started) \in Nat /\ Len(queue) \in Nat /\ Len(queue) = Len(submitted) - Len(started)
      BY <2>1 DEF PipeTypes
    <3>2. CASE k <= Len(queue)
      BY <2>1, <2>6, <3>1, <3>2
    <3>3. CASE ~(k <= Len(queue))
      <4>1. k - Len(queue) \in 1..Len(kinds)
        BY <2>3, <2>6, <3>1, <3>3
      <4> QED BY <2>5, <2>6, <3>1, <3>3, <4>1
    <3> QED BY <3>2, <3>3
  <2>8. Len(started') \in Nat /\ Len(started') <= Len(submitted')
        /\ Len(queue') = Len(submitted') - Len(started')
    <3>1. /\ Len(started') = Len(started) /\ Len(started) \in Nat /\ Len(queue) \in Nat
          /\ Len(started) <= Len(submitted) /\ Len(queue) = Len(submitted) - Len(started)
      BY <2>1, <2>2 DEF PipeTypes
    <3> QED BY <3>1, <2>3, <2>4, <2>6
  <2>9. PipeTypes'
    BY <1>3, <2>2, <2>3, <2>4, <2>6 DEF PipeTypes
  <2> QED BY <1>3, <2>1, <2>2, <2>7, <2>8, <2>9
<1>6. CASE MainStopsQueues
  <2>1. stopping' = TRUE /\ queue' = <<Stop>> /\ UNCHANGED <<submitted, current, started>>
    BY <1>6 DEF MainStopsQueues
  <2> QED BY <1>3, <2>1 DEF PipeTypes
<1>7. CASE SubmitEvent
  <2>1. /\ ~stopping /\ submitted' = Append(submitted, "event")
        /\ queue' = Append(queue, Len(submitted'))
        /\ UNCHANGED <<stopping, current, started>>
    BY <1>7 DEF SubmitEvent
  <2>2. submitted' \in Seq(Kind) /\ Len(submitted') = Len(submitted) + 1 /\ Len(submitted) \in Nat
    BY <2>1 DEF PipeTypes, Kind
  <2>3. /\ queue' \in Seq(Nat \cup {Stop}) /\ Len(queue') = Len(queue) + 1
        /\ \A k \in 1..Len(queue) : queue'[k] = queue[k]
        /\ queue'[Len(queue) + 1] = Len(submitted) + 1
    BY <2>1, <2>2 DEF PipeTypes
  <2>4. /\ Len(started) \in Nat /\ Len(queue) \in Nat
        /\ Len(queue) = Len(submitted) - Len(started)
    BY <2>1 DEF PipeTypes
  <2>5. ASSUME NEW k \in 1..Len(queue') PROVE queue'[k] = Len(started') + k
    <3>1. CASE k = Len(queue) + 1
      BY <2>1, <2>2, <2>3, <2>4, <3>1
    <3>2. CASE k # Len(queue) + 1
      <4> DEFINE n == Len(queue)
      <4>1. n \in Nat /\ k \in 1..(n + 1) /\ k # n + 1
        BY <2>3, <2>4, <3>2
      <4> HIDE DEF n
      <4>2. k \in 1..n
        BY <4>1
      <4>3. k \in 1..Len(queue)
        BY <4>2 DEF n
      <4> QED BY <2>1, <2>3, <4>3
    <3> QED BY <3>1, <3>2
  <2>6. PipeTypes'
    BY <1>3, <2>1, <2>2, <2>3 DEF PipeTypes
  <2> QED BY <1>3, <2>1, <2>2, <2>3, <2>4, <2>5, <2>6
<1>8. CASE UNCHANGED pipeVars /\ ~(\E resume \in BOOLEAN : Run(resume))
  BY <1>3, <1>8 DEF PipeTypes, pipeVars
<1>9. \/ UNCHANGED pipeVars
      \/ \E resume \in BOOLEAN : Run(resume)
      \/ \E ends \in BOOLEAN : \E kinds \in Actions(ends) : ReaderReads(ends, kinds)
      \/ MainStopsQueues \/ SubmitEvent
  <2>1. CASE Executor
    BY <2>1 DEF Executor, ExecutorWaits, ExecutorStarts, ExecutorSuspends, ExecutorEnds,
       ExecutorFinishes
  <2>2. CASE WatcherWaits \/ WatcherEnds \/ Reader
    BY <2>2 DEF WatcherWaits, WatcherEnds, Reader, ReaderBegins, ReaderFails, ReaderCancelled
  <2>3. CASE Main
    BY <2>3 DEF Main, MainStops, MainRaises, MainJoins, MainCloses
  <2>4. CASE Outside \/ Gone
    BY <2>4 DEF Outside, ModelAnswers, TaskIsOver, Readable, Schedule, Sigint, Sigterm,
       SubmitTask, Gone, vars
  <2> QED BY <2>1, <2>2, <2>3, <2>4 DEF Next, Step
<1> QED BY <1>4, <1>5, <1>6, <1>7, <1>8, <1>9

LEMMA PipeInit == Init => PipeInv
<1> SUFFICES ASSUME Init PROVE PipeInv
  OBVIOUS
<1>1. /\ submitted = <<>> /\ started = <<>> /\ queue = <<>> /\ ~stopping /\ current = None
      /\ pc["worker"] = "new"
  BY DEF Init, Task
<1> QED BY <1>1 DEF PipeInv, PipeTypes

LEMMA PipeHolds == Spec => []PipeInv
BY PipeInit, PipeStep, ControlHolds, PTL DEF Spec

\* Every item is handled at most once and in the order of submission: the items
\* that were begun are 1, 2, ... whatever else the loop ran in between.
THEOREM ItemsAreInOrder == Spec => []HandledInOrder
<1>1. PipeInv => HandledInOrder
  BY DEF PipeInv, PipeTypes, HandledInOrder
<1> QED BY <1>1, PipeHolds, PTL

\* Once ProcessingPipeline.stop has run the worker begins nothing: what it can
\* still find in the queue is the sentinel.
THEOREM DrainIsFinal == Spec => NothingBeginsAfterDrain
<1>1. ASSUME PipeInv, [Next]_vars, stopping PROVE started' = started
  <2>1. CASE WorkerStarts
    BY <1>1, <2>1 DEF PipeInv, WorkerStarts
  <2>2. CASE Executor
    BY <2>2 DEF Executor, ExecutorWaits, ExecutorStarts, ExecutorSuspends, ExecutorEnds,
       ExecutorFinishes, pipeVars
  <2>3. CASE WatcherWaits \/ WatcherEnds \/ Reader
    BY <2>3 DEF WatcherWaits, WatcherEnds, Reader, ReaderBegins, ReaderReads, ReaderFails,
       ReaderCancelled, pipeVars
  <2>4. CASE Main
    BY <2>4 DEF Main, Run, MainStops, MainStopsQueues, MainRaises, MainJoins, MainCloses, pipeVars
  <2>5. CASE Outside \/ Gone \/ UNCHANGED vars
    BY <2>5 DEF Outside, ModelAnswers, TaskIsOver, Readable, Schedule, Sigint, Sigterm,
       SubmitEvent, SubmitTask, Gone, vars, pipeVars
  <2>6. CASE Worker /\ ~WorkerStarts
    BY <2>6 DEF Worker, WorkerWaits, WorkerStops, WorkerSuspends, WorkerFinishes,
       WorkerCancelled, WorkerFails, pipeVars
  <2> QED BY <1>1, <2>1, <2>2, <2>3, <2>4, <2>5, <2>6 DEF Next, Step
<1>2. PipeInv /\ [Next]_vars => [stopping => started' = started]_vars
  BY <1>1
<1> QED BY <1>2, PipeHolds, PTL DEF Spec, NothingBeginsAfterDrain

-----------------------------------------------------------------------------
(***************************************************************************)
(* The session state: it is processing only while the worker has a chat    *)
(* item, and from the stop on it is never idle again.                      *)
(***************************************************************************)
SessionInv ==
  /\ session \in {"idle", "processing", "stopping"}
  /\ session = "processing" => current # None /\ Chats(submitted[current])
  /\ pc["main"] \notin {"new", "waiting"} => session # "idle"

LEMMA SessionWorker ==
  ASSUME ControlInv, PipeInv, SessionInv, Worker
  PROVE  SessionInv'
<1> USE DEF ControlInv, PipeInv, SessionInv
<1>1. pc'["main"] = pc["main"] /\ submitted' = submitted
  BY Moved DEF Worker, WorkerWaits, WorkerStarts, WorkerStops, WorkerSuspends, WorkerFinishes,
     WorkerCancelled, WorkerFails, LoopInv, Task, pipeVars
<1>2. pc["main"] \notin {"new", "waiting"} => stopEvent
  BY DEF StopInv
<1>3. CASE WorkerWaits \/ WorkerSuspends
  BY <1>1, <1>3 DEF WorkerWaits, WorkerSuspends, pipeVars, shellVars
<1>4. CASE WorkerStarts
  <2>1. current = None
    BY <1>4 DEF WorkerStarts, WorkerGets
  <2>2. current' = Head(queue) /\ current' # None
    BY <1>4, PipeWorker, Moved DEF WorkerStarts, LoopInv, Task, Worker
  <2>3. session' = IF Chats(submitted'[current']) THEN "processing" ELSE session
    BY <1>1, <1>4, <2>2 DEF WorkerStarts
  <2> QED BY <1>1, <2>1, <2>2, <2>3
<1>5. CASE WorkerStops
  BY <1>1, <1>5 DEF WorkerStops
<1>6. CASE WorkerFinishes \/ WorkerCancelled
  <2>1. session' \in {session, Settled(stopEvent)} /\ current' = None
        /\ (session' = session => current = None \/ session = Settled(stopEvent))
    BY <1>6 DEF WorkerFinishes, WorkerCancelled
  <2>2. session' # "processing"
    BY <2>1 DEF Settled
  <2> QED BY <1>1, <1>2, <2>1, <2>2 DEF Settled
<1>7. CASE \E interrupted \in BOOLEAN : WorkerFails(interrupted)
  <2>1. session' = Settled(stopEvent') /\ (stopEvent => stopEvent')
    BY <1>7 DEF WorkerFails
  <2> QED BY <1>1, <1>2, <2>1 DEF Settled
<1> QED BY <1>3, <1>4, <1>5, <1>6, <1>7 DEF Worker

\* What another task submits leaves the items before it.
LEMMA ItemsStay ==
  ASSUME ControlInv, PipeInv, Next
  PROVE  \A i \in 1..Len(submitted) : i \in 1..Len(submitted') /\ submitted'[i] = submitted[i]
<1> USE DEF ControlInv, PipeInv
<1>1. CASE submitted' = submitted
  BY <1>1
<1>2. CASE \E resume \in BOOLEAN : Run(resume)
  <2>1. submitted = <<>>
    BY <1>2 DEF Run, PipeTypes
  <2> QED BY <2>1
<1>3. ASSUME NEW ends \in BOOLEAN, NEW kinds \in Actions(ends), ReaderReads(ends, kinds)
      PROVE  \A i \in 1..Len(submitted) : i \in 1..Len(submitted') /\ submitted'[i] = submitted[i]
  <2>1. submitted' = submitted \o kinds /\ kinds \in Seq(Kind) /\ submitted \in Seq(Kind)
    BY <1>3, ActionKinds DEF ReaderReads, PipeTypes
  <2> QED BY <2>1
<1>4. CASE SubmitEvent
  <2>1. submitted' = Append(submitted, "event") /\ submitted \in Seq(Kind)
    BY <1>4 DEF SubmitEvent, PipeTypes
  <2> QED BY <2>1
<1>5. \/ submitted' = submitted
      \/ \E resume \in BOOLEAN : Run(resume)
      \/ \E ends \in BOOLEAN : \E kinds \in Actions(ends) : ReaderReads(ends, kinds)
      \/ SubmitEvent
  <2>1. CASE Executor
    BY <2>1 DEF Executor, ExecutorWaits, ExecutorStarts, ExecutorSuspends, ExecutorEnds,
       ExecutorFinishes, pipeVars
  <2>2. CASE WatcherWaits \/ WatcherEnds \/ Reader
    BY <2>2 DEF WatcherWaits, WatcherEnds, Reader, ReaderBegins, ReaderFails, ReaderCancelled,
       pipeVars
  <2>3. CASE Main
    BY <2>3 DEF Main, MainStops, MainStopsQueues, MainRaises, MainJoins, MainCloses, pipeVars
  <2>4. CASE Outside \/ Gone
    BY <2>4 DEF Outside, ModelAnswers, TaskIsOver, Readable, Schedule, Sigint, Sigterm,
       SubmitTask, Gone, vars, pipeVars
  <2>5. CASE Worker
    BY <2>5 DEF Worker, WorkerWaits, WorkerStarts, WorkerStops, WorkerSuspends, WorkerFinishes,
     WorkerCancelled, WorkerFails, pipeVars
  <2> QED BY <2>1, <2>2, <2>3, <2>4, <2>5 DEF Next, Step
<1> QED BY <1>1, <1>2, <1>3, <1>4, <1>5

LEMMA SessionStep == ControlInv /\ PipeInv /\ SessionInv /\ [Next]_vars => SessionInv'
<1> SUFFICES ASSUME ControlInv, PipeInv, SessionInv, [Next]_vars PROVE SessionInv'
  OBVIOUS
<1> USE DEF SessionInv
<1>1. CASE UNCHANGED vars
  BY <1>1 DEF vars, loopVars, pipeVars, shellVars
<1>2. CASE Worker
  BY <1>2, SessionWorker
<1> SUFFICES ASSUME Next, ~Worker PROVE SessionInv'
  BY <1>1, <1>2
<1>3. current' = current
      /\ (current # None => current \in 1..Len(submitted) /\ submitted'[current] = submitted[current])
  <2>1. current' = current
    <3>1. CASE Executor
      BY <3>1 DEF Executor, ExecutorWaits, ExecutorStarts, ExecutorSuspends, ExecutorEnds,
         ExecutorFinishes, pipeVars
    <3>2. CASE WatcherWaits \/ WatcherEnds \/ Reader
      BY <3>2 DEF WatcherWaits, WatcherEnds, Reader, ReaderBegins, ReaderReads, ReaderFails,
         ReaderCancelled, pipeVars
    <3>3. CASE Main
      BY <3>3 DEF Main, Run, MainStops, MainStopsQueues, MainRaises, MainJoins, MainCloses, pipeVars
    <3>4. CASE Outside \/ Gone
      BY <3>4 DEF Outside, ModelAnswers, TaskIsOver, Readable, Schedule, Sigint, Sigterm,
         SubmitEvent, SubmitTask, Gone, vars, pipeVars
    <3> QED BY <3>1, <3>2, <3>3, <3>4 DEF Next, Step
  <2> QED BY <2>1, ItemsStay DEF PipeInv, PipeTypes
<1>4. CASE MainStops
  BY <1>4 DEF MainStops
<1>5. CASE session' = session /\ (pc["main"] \in {"new", "waiting"} => pc'["main"] \in {"new", "waiting"})
  BY <1>3, <1>5 DEF Chats
<1>6. ~MainStops => session' = session
  <2>1. CASE Executor
    BY <2>1 DEF Executor, ExecutorWaits, ExecutorStarts, ExecutorSuspends, ExecutorEnds,
       ExecutorFinishes, shellVars
  <2>2. CASE WatcherWaits \/ WatcherEnds \/ Reader
    BY <2>2 DEF WatcherWaits, WatcherEnds, Reader, ReaderBegins, ReaderReads, ReaderFails,
       ReaderCancelled, shellVars
  <2>3. CASE Main
    BY <2>3 DEF Main, Run, MainStopsQueues, MainRaises, MainJoins, MainCloses, shellVars
  <2>4. CASE Outside \/ Gone
    BY <2>4 DEF Outside, ModelAnswers, TaskIsOver, Readable, Schedule, Sigint, Sigterm,
       SubmitEvent, SubmitTask, Gone, vars, shellVars
  <2> QED BY <2>1, <2>2, <2>3, <2>4 DEF Next, Step
<1>7. ~MainStops => (pc["main"] \in {"new", "waiting"} => pc'["main"] \in {"new", "waiting"})
  <2> USE DEF ControlInv, LoopInv, Task
  <2>1. CASE Executor
    BY <2>1, Moved DEF Executor, ExecutorWaits, ExecutorStarts, ExecutorSuspends, ExecutorEnds,
       ExecutorFinishes
  <2>2. CASE WatcherWaits \/ WatcherEnds \/ Reader
    BY <2>2, Moved DEF WatcherWaits, WatcherEnds, Reader, ReaderBegins, ReaderReads, ReaderFails,
       ReaderCancelled
  <2>3. CASE Main
    BY <2>3, Moved DEF Main, Run, MainStopsQueues, MainDrains, MainRaises, MainJoins, MainCloses
  <2>4. CASE Outside \/ Gone
    BY <2>4 DEF Outside, ModelAnswers, TaskIsOver, Readable, Schedule, Sigint, Sigterm,
       SubmitEvent, SubmitTask, Gone, vars, loopVars
  <2> QED BY <2>1, <2>2, <2>3, <2>4 DEF Next, Step
<1> QED BY <1>4, <1>5, <1>6, <1>7

LEMMA SessionInit == Init => SessionInv
<1>1. Init => pc["main"] = "new"
  BY DEF Init, Task
<1> QED BY <1>1 DEF Init, SessionInv

LEMMA SessionHolds == Spec => []SessionInv
BY SessionInit, SessionStep, ControlHolds, PipeHolds, PTL DEF Spec

\* status_snapshot never fails its validation: whatever the turn, a Ctrl+C or
\* the stop wrote last, a session that is processing has an item.
THEOREM SnapshotsAreValid == Spec => []SnapshotIsValid
<1>1. SessionInv => SnapshotIsValid
  BY DEF SessionInv, SnapshotIsValid
<1> QED BY <1>1, SessionHolds, PTL

\* A process that ends was stopping, however its last turn ended.
THEOREM EndsAreStopping == Spec => []EndsStopping
<1>1. ControlInv /\ PipeInv /\ SessionInv => EndsStopping
  BY DEF ControlInv, StopInv, PipeInv, SessionInv, EndsStopping, LeaseOutlivesWork
<1> QED BY <1>1, ControlHolds, PipeHolds, SessionHolds, PTL

-----------------------------------------------------------------------------
(***************************************************************************)
(* Why the session stopped, and the exit code that follows.                *)
(***************************************************************************)
ReasonInv ==
  /\ reason \in {"eof", "sigint", "sigterm"}
  /\ outcome \in {"none", "ok", "error", "interrupted", "cancelled"}
  /\ exitCode \in ExitCode
  /\ sigints \in Nat /\ sigterms \in Nat
  /\ sigints > 0 => stopEvent
  /\ sigints > 0 /\ sigterms = 0 => reason = "sigint"
  /\ InterruptIs130

LEMMA ReasonStep == ControlInv /\ ReasonInv /\ [Next]_vars => ReasonInv'
<1> SUFFICES ASSUME ControlInv, ReasonInv, [Next]_vars PROVE ReasonInv'
  OBVIOUS
<1> USE DEF ReasonInv, InterruptIs130
<1>1. CASE UNCHANGED vars \/ Gone
  BY <1>1 DEF Gone, vars, shellVars, outside
<1>2. CASE Worker
  <2>1. UNCHANGED <<sigints, sigterms, exitCode>>
    BY <1>2 DEF Worker, WorkerWaits, WorkerStarts, WorkerStops, WorkerSuspends, WorkerFinishes,
       WorkerCancelled, WorkerFails, outside
  <2>2. /\ stopEvent => stopEvent'
        /\ reason' \in {reason, "sigint"}
        /\ outcome' \in {outcome, "ok", "error", "interrupted", "cancelled"}
    BY <1>2 DEF Worker, WorkerWaits, WorkerStarts, WorkerStops, WorkerSuspends, WorkerFinishes,
       WorkerCancelled, WorkerFails, shellVars
  <2> QED BY <2>1, <2>2
<1>3. CASE Executor
  BY <1>3 DEF Executor, ExecutorWaits, ExecutorStarts, ExecutorSuspends, ExecutorEnds,
       ExecutorFinishes, shellVars, outside
<1>4. CASE WatcherWaits \/ WatcherEnds \/ Reader
  <2>1. UNCHANGED <<sigints, sigterms, exitCode, outcome>>
    BY <1>4 DEF WatcherWaits, WatcherEnds, Reader, ReaderBegins, ReaderReads, ReaderFails,
       ReaderCancelled, outside, shellVars
  <2>2. /\ stopEvent => stopEvent'
        /\ reason' \in {reason, EofReason}
    BY <1>4 DEF WatcherWaits, WatcherEnds, Reader, ReaderBegins, ReaderReads, ReaderFails,
       ReaderCancelled, shellVars
  <2> QED BY <2>1, <2>2 DEF EofReason
<1>5. CASE Main
  <2>1. UNCHANGED <<sigints, sigterms, outcome, stopEvent, reason>>
    BY <1>5 DEF Main, Run, MainStops, MainStopsQueues, MainRaises, MainJoins, MainCloses, outside,
       shellVars
  <2>2. exitCode' \in {exitCode, Code, "error"}
    BY <1>5 DEF Main, Run, MainStops, MainStopsQueues, MainRaises, MainJoins, MainCloses
  <2> QED BY <2>1, <2>2 DEF Code, ExitCode
<1>6. CASE ModelAnswers \/ TaskIsOver \/ Readable \/ SubmitEvent \/ SubmitTask
  BY <1>6 DEF ModelAnswers, TaskIsOver, Readable, Schedule, SubmitEvent, SubmitTask, shellVars,
     outside
<1>7. CASE Sigint \/ Sigterm
  <2>1. exitCode = "running" /\ exitCode' = exitCode
    BY <1>7 DEF Sigint, Sigterm, Between, ControlInv, StopInv
  <2> QED BY <1>7, <2>1 DEF Sigint, Sigterm
<1> QED BY <1>1, <1>2, <1>3, <1>4, <1>5, <1>6, <1>7 DEF Next, Step, Outside

LEMMA ReasonHolds == Spec => []ReasonInv
<1>1. Init => ReasonInv
  BY DEF Init, ReasonInv, InterruptIs130, ExitCode
<1> QED BY <1>1, ReasonStep, ControlHolds, PTL DEF Spec

\* Ctrl+C ends in 130 unless SIGTERM or an error came as well: the end of input
\* after it does not take its reason over, and neither does the turn it ends.
THEOREM InterruptsAre130 == Spec => []InterruptIs130
<1>1. ReasonInv => InterruptIs130
  BY DEF ReasonInv
<1> QED BY <1>1, ReasonHolds, PTL

-----------------------------------------------------------------------------
(***************************************************************************)
(* The background executor: the waiting tasks are the ones in its queue,   *)
(* the oldest first, and they are the youngest; a task runs only while the *)
(* executor is at it, or was cancelled at it.                              *)
(***************************************************************************)
QueueInv ==
  /\ tasks \in Seq(Status) /\ taskQueue \in Seq(Nat \cup {Stop})
  /\ \A k \in 1..Len(taskQueue) : taskQueue[k] # Stop => taskQueue[k] \in 1..Len(tasks)
  /\ \A k, l \in 1..Len(taskQueue) :
       k < l => \/ taskQueue[k] = Stop /\ taskQueue[l] # Stop
                \/ taskQueue[k] # Stop /\ taskQueue[l] = Stop
                \/ taskQueue[k] # Stop /\ taskQueue[l] # Stop /\ taskQueue[k] < taskQueue[l]

TaskInv ==
  /\ QueueInv
  /\ \A i \in 1..Len(tasks) : tasks[i] = "waiting" <=> Contains(taskQueue, i)
  /\ \A i, j \in 1..Len(tasks) : i < j /\ tasks[i] \in {"waiting", "running"} => tasks[j] = "waiting"
  /\ \A i \in 1..Len(tasks) : tasks[i] = "running" =>
       pc["executor"] \in {"begun", "running"} \/ "executor" \in cancelled
  /\ pc["executor"] = "done" => ~Contains(taskQueue, Stop) \/ "executor" \in cancelled

\* A step of another task than the executor: it stays where it is, and what is
\* cancelled stays cancelled.
LEMMA ExecutorStays ==
  ASSUME ControlInv, Next, ~Executor
  PROVE  /\ pc'["executor"] = pc["executor"]
         /\ "executor" \in cancelled => "executor" \in cancelled'
         /\ UNCHANGED taskVars \/ MainStopsQueues \/ SubmitTask
<1> USE DEF ControlInv, LoopInv
<1>1. CASE Worker
  BY <1>1, Moved DEF Worker, WorkerWaits, WorkerStarts, WorkerStops, WorkerSuspends,
     WorkerFinishes, WorkerCancelled, WorkerFails, Task
<1>2. CASE WatcherWaits \/ WatcherEnds \/ Reader
  BY <1>2, Moved DEF WatcherWaits, WatcherEnds, Reader, ReaderBegins, ReaderReads, ReaderFails,
     ReaderCancelled, Task
<1>3. CASE Main
  BY <1>3, Moved DEF Main, Run, MainStops, MainStopsQueues, MainRaises, MainJoins, MainCloses, Task
<1>4. CASE Outside \/ Gone
  BY <1>4 DEF Outside, ModelAnswers, TaskIsOver, Readable, Schedule, Sigint, Sigterm,
     SubmitEvent, SubmitTask, Gone, vars, loopVars
<1> QED BY <1>1, <1>2, <1>3, <1>4 DEF Next, Step

\* The executor takes the oldest waiting task.
LEMMA TaskStarts ==
  ASSUME ControlInv, TaskInv, ExecutorStarts
  PROVE  TaskInv'
<1> DEFINE h == Head(taskQueue)
<1>1. /\ pc["executor"] \in {"new", "getting", "looping"} /\ "executor" \notin cancelled
      /\ taskQueue # <<>> /\ h # Stop /\ taskQueue' = Tail(taskQueue)
      /\ tasks' = [tasks EXCEPT ![h] = "running"] /\ pc'["executor"] = "begun"
  BY Moved DEF ExecutorStarts, ExecutorGets, ControlInv, LoopInv, Task
<1>2. /\ taskQueue \in Seq(Nat \cup {Stop}) /\ tasks \in Seq(Status)
      /\ Len(taskQueue) \in Nat \ {0} /\ h = taskQueue[1] /\ h \in 1..Len(tasks)
  BY <1>1 DEF TaskInv, QueueInv
<1>3. /\ Tail(taskQueue) \in Seq(Nat \cup {Stop}) /\ Len(taskQueue') = Len(taskQueue) - 1
      /\ \A k \in 1..Len(taskQueue') : taskQueue'[k] = taskQueue[k + 1]
  BY <1>1, <1>2
<1>4. /\ tasks' \in Seq(Status) /\ Len(tasks') = Len(tasks) /\ Len(tasks) \in Nat
      /\ \A i \in 1..Len(tasks) : tasks'[i] = IF i = h THEN "running" ELSE tasks[i]
  BY <1>1, <1>2 DEF Status
<1>5. tasks[h] = "waiting"
  BY <1>1, <1>2, TailItems DEF TaskInv
<1>6. \A i \in 1..Len(tasks) : tasks[i] # "running"
  BY <1>1 DEF TaskInv
<1>7. ASSUME NEW i \in 1..Len(tasks), i # h, Contains(taskQueue, i) PROVE h < i
  <2>1. PICK k \in 1..Len(taskQueue) : taskQueue[k] = i
    BY <1>7 DEF Contains
  <2>2. k # 1 /\ 1 \in 1..Len(taskQueue)
    BY <1>2, <1>7, <2>1
  <2> QED BY <1>1, <1>2, <2>1, <2>2, SentinelAssumption DEF TaskInv, QueueInv
<1>8. ~Contains(taskQueue', h)
  <2> SUFFICES ASSUME NEW k \in 1..Len(taskQueue'), taskQueue'[k] = h PROVE FALSE
    BY DEF Contains
  <2>1. k + 1 \in 1..Len(taskQueue) /\ taskQueue[k + 1] = h /\ 1 \in 1..Len(taskQueue) /\ 1 < k + 1
    BY <1>2, <1>3
  <2> QED BY <1>1, <1>2, <2>1 DEF TaskInv, QueueInv
<1>9. \A i \in 1..Len(tasks') : tasks'[i] = "waiting" <=> Contains(taskQueue', i)
  <2> SUFFICES ASSUME NEW i \in 1..Len(tasks)
               PROVE  tasks'[i] = "waiting" <=> Contains(taskQueue', i)
    BY <1>4
  <2>1. CASE i = h
    BY <1>4, <1>8, <2>1
  <2>2. CASE i # h
    <3>1. Contains(taskQueue', i) <=> Contains(taskQueue, i)
      BY <1>1, <1>2, <2>2, TailItems
    <3> QED BY <1>4, <2>2, <3>1 DEF TaskInv
  <2> QED BY <2>1, <2>2
<1>10. QueueInv'
  BY <1>1, <1>3, <1>4 DEF TaskInv, QueueInv
<1>11. ASSUME NEW i \in 1..Len(tasks'), NEW j \in 1..Len(tasks'), i < j,
              tasks'[i] \in {"waiting", "running"}
       PROVE  tasks'[j] = "waiting"
  <2>1. i \in 1..Len(tasks) /\ j \in 1..Len(tasks) /\ tasks[i] = "waiting"
    BY <1>4, <1>5, <1>6, <1>11
  <2>2. tasks[j] = "waiting"
    BY <1>11, <2>1 DEF TaskInv
  <2>3. Contains(taskQueue, i)
    BY <2>1 DEF TaskInv
  <2>4. j # h
    BY <1>2, <1>7, <1>11, <2>1, <2>3
  <2> QED BY <1>4, <2>1, <2>2, <2>4
<1> QED BY <1>1, <1>9, <1>10, <1>11 DEF TaskInv

LEMMA TaskStep == ControlInv /\ TaskInv /\ [Next]_vars => TaskInv'
<1> SUFFICES ASSUME ControlInv, TaskInv, [Next]_vars PROVE TaskInv'
  OBVIOUS
<1>1. CASE UNCHANGED vars
  BY <1>1 DEF TaskInv, QueueInv, vars, taskVars, loopVars
<1>2. CASE ExecutorStarts
  BY <1>2, TaskStarts
<1>3. CASE ExecutorWaits \/ ExecutorSuspends
  <2>1. /\ UNCHANGED taskVars /\ UNCHANGED cancelled
        /\ \/ pc["executor"] \in {"new", "getting", "looping"} /\ pc'["executor"] = "getting"
           \/ pc["executor"] = "begun" /\ pc'["executor"] = "running"
    BY <1>3, Moved DEF ExecutorWaits, ExecutorGets, ExecutorSuspends, ControlInv, LoopInv, Task
  <2>2. QueueInv'
    BY <2>1 DEF TaskInv, QueueInv, taskVars
  <2> QED BY <2>1, <2>2 DEF TaskInv, taskVars
<1>4. ASSUME NEW status \in {"success", "failure"}, ExecutorFinishes(status) PROVE TaskInv'
  <2>1. /\ tasks' = [i \in DOMAIN tasks |-> IF tasks[i] = "running" THEN status ELSE tasks[i]]
        /\ UNCHANGED <<taskQueue, cancelled>> /\ pc'["executor"] = "looping"
    BY <1>4, Moved DEF ExecutorFinishes, ControlInv, LoopInv, Task
  <2>2. tasks \in Seq(Status) /\ DOMAIN tasks = 1..Len(tasks) /\ Len(tasks) \in Nat
    BY DEF TaskInv, QueueInv
  <2>3. /\ tasks' \in Seq(Status) /\ Len(tasks') = Len(tasks)
        /\ \A i \in 1..Len(tasks) : tasks'[i] = IF tasks[i] = "running" THEN status ELSE tasks[i]
    <3>1. tasks' \in [1..Len(tasks) -> Status]
      BY <2>1, <2>2 DEF Status
    <3> QED BY <2>1, <2>2, <3>1
  <2>4. QueueInv'
    BY <2>1, <2>3 DEF TaskInv, QueueInv
  <2> QED BY <2>1, <2>3, <2>4 DEF TaskInv
<1>5. CASE ExecutorEnds
  <2>1. pc'["executor"] = "done" /\ UNCHANGED <<tasks, cancelled>>
    BY <1>5, Moved DEF ExecutorEnds, ControlInv, LoopInv, Task
  <2>2. CASE UNCHANGED taskQueue /\ "executor" \in cancelled
    <3>1. QueueInv'
      BY <2>1, <2>2 DEF TaskInv, QueueInv
    <3> QED BY <2>1, <2>2, <3>1 DEF TaskInv
  <2>3. CASE ExecutorGets /\ taskQueue # <<>> /\ Head(taskQueue) = Stop
             /\ taskQueue' = Tail(taskQueue)
    <3>1. /\ taskQueue \in Seq(Nat \cup {Stop}) /\ Len(taskQueue) \in Nat \ {0} /\ taskQueue[1] = Stop
          /\ taskQueue' \in Seq(Nat \cup {Stop}) /\ Len(taskQueue') = Len(taskQueue) - 1
          /\ \A k \in 1..Len(taskQueue') : taskQueue'[k] = taskQueue[k + 1]
      BY <2>3 DEF TaskInv, QueueInv
    <3>2. ~Contains(taskQueue', Stop)
      <4> SUFFICES ASSUME NEW k \in 1..Len(taskQueue'), taskQueue'[k] = Stop PROVE FALSE
        BY DEF Contains
      <4>1. k + 1 \in 1..Len(taskQueue) /\ taskQueue[k + 1] = Stop /\ 1 \in 1..Len(taskQueue)
            /\ 1 < k + 1
        BY <3>1
      <4> QED BY <3>1, <4>1 DEF TaskInv, QueueInv
    <3>3. \A i \in 1..Len(tasks) : Contains(taskQueue', i) <=> Contains(taskQueue, i)
      BY <2>3, <3>1, TailItems, SentinelAssumption
    <3>4. QueueInv'
      <4>1. \A k \in 1..Len(taskQueue') : k + 1 \in 1..Len(taskQueue)
        BY <3>1
      <4>2. tasks' = tasks
        BY <2>1
      <4>3. \A k \in 1..Len(taskQueue') : taskQueue'[k] # Stop => taskQueue'[k] \in 1..Len(tasks')
        BY <3>1, <4>1, <4>2 DEF TaskInv, QueueInv
      <4>4. ASSUME NEW k \in 1..Len(taskQueue'), NEW l \in 1..Len(taskQueue'), k < l
            PROVE  \/ taskQueue'[k] = Stop /\ taskQueue'[l] # Stop
                   \/ taskQueue'[k] # Stop /\ taskQueue'[l] = Stop
                   \/ taskQueue'[k] # Stop /\ taskQueue'[l] # Stop /\ taskQueue'[k] < taskQueue'[l]
        <5>1. k + 1 \in 1..Len(taskQueue) /\ l + 1 \in 1..Len(taskQueue) /\ k + 1 < l + 1
          BY <4>1, <4>4
        <5> QED BY <3>1, <5>1 DEF TaskInv, QueueInv
      <4> QED BY <3>1, <4>2, <4>3, <4>4 DEF TaskInv, QueueInv
    <3>5. pc["executor"] \notin {"begun", "running"}
      BY <2>3 DEF ExecutorGets
    <3> QED BY <2>1, <3>2, <3>3, <3>4, <3>5 DEF TaskInv
  <2> QED BY <1>5, <2>2, <2>3 DEF ExecutorEnds
<1> SUFFICES ASSUME Next, ~Executor PROVE TaskInv'
  BY <1>1, <1>2, <1>3, <1>4, <1>5 DEF Executor
<1>6. CASE UNCHANGED taskVars
  <2>1. QueueInv'
    BY <1>6 DEF TaskInv, QueueInv, taskVars
  <2> QED BY <1>6, <2>1, ExecutorStays DEF TaskInv, taskVars
<1>7. ASSUME NEW new \in Nat \cup {Stop}, taskQueue' = Append(taskQueue, new)
      PROVE  /\ taskQueue' \in Seq(Nat \cup {Stop}) /\ Len(taskQueue') = Len(taskQueue) + 1
             /\ \A k \in 1..Len(taskQueue) : taskQueue'[k] = taskQueue[k]
             /\ taskQueue'[Len(taskQueue) + 1] = new /\ Len(taskQueue) \in Nat
             /\ \A e : Contains(taskQueue', e) <=> Contains(taskQueue, e) \/ e = new
             /\ \A k \in 1..Len(taskQueue') : k \in 1..Len(taskQueue) \/ k = Len(taskQueue) + 1
  BY <1>7, AppendItems DEF TaskInv, QueueInv
<1>8. CASE MainStopsQueues
  <2>1. ~Contains(taskQueue, Stop) /\ pc["executor"] # "done"
    BY <1>8 DEF MainStopsQueues, MainDrains, ControlInv, StopInv
  <2>2. taskQueue' = Append(taskQueue, Stop) /\ UNCHANGED tasks
    BY <1>8 DEF MainStopsQueues
  <2>3. \A k \in 1..Len(taskQueue) : taskQueue[k] # Stop
    BY <2>1 DEF Contains
  <2>4. QueueInv'
    BY <1>7, <2>2, <2>3 DEF TaskInv, QueueInv
  <2>5. \A i \in 1..Len(tasks) : Contains(taskQueue', i) <=> Contains(taskQueue, i)
    <3>1. \A i \in 1..Len(tasks) : i # Stop
      BY SentinelAssumption DEF TaskInv, QueueInv
    <3> QED BY <1>7, <2>2, <3>1
  <2> QED BY <2>1, <2>2, <2>4, <2>5, ExecutorStays DEF TaskInv
<1>9. CASE SubmitTask
  <2>1. /\ tasks' = Append(tasks, "waiting") /\ taskQueue' = Append(taskQueue, Len(tasks'))
    BY <1>9 DEF SubmitTask
  <2>2. /\ tasks \in Seq(Status) /\ Len(tasks) \in Nat
        /\ tasks' \in Seq(Status) /\ Len(tasks') = Len(tasks) + 1
        /\ \A i \in 1..Len(tasks) : tasks'[i] = tasks[i]
        /\ tasks'[Len(tasks) + 1] = "waiting"
        /\ \A i \in 1..Len(tasks') : i \in 1..Len(tasks) \/ i = Len(tasks) + 1
    BY <2>1 DEF TaskInv, QueueInv, Status
  <2>3. \A k \in 1..Len(taskQueue) : taskQueue[k] # Stop => taskQueue[k] < Len(tasks')
    BY <2>2 DEF TaskInv, QueueInv
  <2>4. QueueInv'
    BY <1>7, <2>1, <2>2, <2>3, SentinelAssumption DEF TaskInv, QueueInv
  <2>5. \A i \in 1..Len(tasks') : tasks'[i] = "waiting" <=> Contains(taskQueue', i)
    BY <1>7, <2>1, <2>2 DEF TaskInv
  <2>6. Contains(taskQueue', Stop) <=> Contains(taskQueue, Stop)
    BY <1>7, <2>1, <2>2, SentinelAssumption
  <2> QED BY <2>2, <2>4, <2>5, <2>6, ExecutorStays DEF TaskInv
<1> QED BY <1>6, <1>8, <1>9, ExecutorStays

LEMMA TaskHolds == Spec => []TaskInv
<1>1. Init => TaskInv
  <2> SUFFICES ASSUME Init PROVE TaskInv
    OBVIOUS
  <2>1. tasks = <<>> /\ taskQueue = <<>> /\ pc["executor"] = "new"
    BY DEF Init, Task
  <2> QED BY <2>1 DEF TaskInv, QueueInv, Contains
<1> QED BY <1>1, TaskStep, ControlHolds, PTL DEF Spec

\* A regular end waits for the background tasks submitted before the stop, a
\* failed one among them included, and they ran one after the other.
THEOREM TasksFinish == Spec => []TasksAreFinished
<1>1. ControlInv /\ ReasonInv /\ TaskInv => TasksAreFinished
  <2> SUFFICES ASSUME ControlInv, ReasonInv, TaskInv PROVE TasksAreFinished
    OBVIOUS
  <2>1. DOMAIN tasks = 1..Len(tasks) /\ \A i \in 1..Len(tasks) : tasks[i] \in Status
    BY DEF TaskInv, QueueInv
  <2>2. ASSUME exitCode \in {"0", "130"}
        PROVE  pc["executor"] = "done" /\ "executor" \notin cancelled
    BY <2>2 DEF ControlInv, StopInv, LeaseOutlivesWork
  <2>3. ASSUME exitCode \in {"0", "130"}
        PROVE  /\ ~Contains(taskQueue, Stop)
               /\ \A i \in DOMAIN tasks :
                    tasks[i] \in {"success", "failure"} \/ Contains(taskQueue, i)
    BY <2>1, <2>2, <2>3 DEF TaskInv, Status
  <2>4. ASSUME NEW i \in DOMAIN tasks, NEW j \in DOMAIN tasks, i < j, tasks[j] # "waiting"
        PROVE  tasks[i] \in {"success", "failure"}
    BY <2>1, <2>4 DEF TaskInv, Status
  <2> QED BY <2>3, <2>4 DEF TasksAreFinished
<1> QED BY <1>1, ControlHolds, ReasonHolds, TaskHolds, PTL

\* The types of the session's state.
THEOREM TypesAreKept == Spec => []TypeOK
<1>1. ControlInv /\ PipeInv /\ SessionInv /\ ReasonInv /\ TaskInv => TypeOK
  <2> SUFFICES ASSUME ControlInv, PipeInv, SessionInv, ReasonInv, TaskInv PROVE TypeOK
    OBVIOUS
  <2>1. \A i \in DOMAIN ready : ready[i] \in Task
    BY DEF ControlInv, LoopInv, Order
  <2>2. \A i \in DOMAIN submitted : submitted[i] \in Kind
    BY DEF PipeInv, PipeTypes
  <2>3. DOMAIN submitted = 1..Len(submitted) /\ current \in DOMAIN submitted \cup {None}
    BY DEF PipeInv, PipeTypes
  <2>4. \A i \in DOMAIN queue : queue[i] \in DOMAIN submitted \cup {Stop}
    <3>1. CASE stopping
      <4>1. queue = <<>> \/ queue = <<Stop>>
        BY <3>1 DEF PipeInv
      <4> QED BY <4>1
    <3>2. CASE ~stopping
      <4>1. /\ DOMAIN queue = 1..Len(queue) /\ Len(queue) \in Nat
            /\ Len(started) \in Nat /\ Len(submitted) \in Nat
        BY DEF PipeInv, PipeTypes
      <4> QED BY <2>3, <3>2, <4>1 DEF PipeInv
    <3> QED BY <3>1, <3>2
  <2>5. \A i \in DOMAIN tasks : tasks[i] \in Status
    BY DEF TaskInv, QueueInv
  <2> QED BY <2>1, <2>2, <2>3, <2>4, <2>5 DEF TypeOK, ControlInv, LoopInv, StopInv, SessionInv,
             ReasonInv
<1> QED BY <1>1, ControlHolds, PipeHolds, SessionHolds, ReasonHolds, TaskHolds, PTL

-----------------------------------------------------------------------------
(***************************************************************************)
(* The one action of a pipe: while it waits to be handled, the worker is   *)
(* ahead of run() in the loop's order.                                     *)
(***************************************************************************)
WorkerFirst(r) ==
  \E i \in 1..Len(r) : r[i] = "worker" /\ \A j \in 1..Len(r) : r[j] = "main" => i < j

LEMMA FirstWake ==
  ASSUME NEW r, Order(r), WorkerFirst(r), NEW t \in Task
  PROVE  WorkerFirst(Wake(r, t))
<1>1. CASE Contains(r, t)
  BY <1>1 DEF Wake
<1>2. CASE ~Contains(r, t)
  <2>1. /\ Wake(r, t) = Append(r, t) /\ Len(Append(r, t)) = Len(r) + 1 /\ Len(r) \in Nat
        /\ \A i \in 1..Len(r) : Append(r, t)[i] = r[i]
        /\ \A i \in 1..Len(Append(r, t)) : i \in 1..Len(r) \/ i = Len(r) + 1
    BY <1>2 DEF Wake, Order
  <2>2. PICK i \in 1..Len(r) : r[i] = "worker" /\ \A j \in 1..Len(r) : r[j] = "main" => i < j
    BY DEF WorkerFirst
  <2>3. i \in 1..Len(Append(r, t)) /\ i < Len(r) + 1
    BY <2>1
  <2> QED BY <2>1, <2>2, <2>3 DEF WorkerFirst
<1> QED BY <1>1, <1>2

LEMMA FirstTail ==
  ASSUME NEW r, Order(r), WorkerFirst(r), Head(r) # "worker"
  PROVE  WorkerFirst(Tail(r)) /\ Head(r) # "main" /\ r # <<>>
<1>1. PICK i \in 1..Len(r) : r[i] = "worker" /\ \A j \in 1..Len(r) : r[j] = "main" => i < j
  BY DEF WorkerFirst
<1>2. r # <<>> /\ Len(r) \in Nat \ {0} /\ Head(r) = r[1] /\ 1 \in 1..Len(r) /\ i # 1
  BY <1>1 DEF Order
<1>3. /\ Len(Tail(r)) = Len(r) - 1
      /\ \A j \in 1..Len(Tail(r)) : Tail(r)[j] = r[j + 1] /\ j + 1 \in 1..Len(r)
  BY <1>2 DEF Order
<1>4. Head(r) # "main"
  BY <1>1, <1>2
<1>5. i - 1 \in 1..Len(Tail(r)) /\ Tail(r)[i - 1] = "worker"
  BY <1>1, <1>2, <1>3
<1>6. \A j \in 1..Len(Tail(r)) : Tail(r)[j] = "main" => i - 1 < j
  BY <1>1, <1>3
<1> QED BY <1>2, <1>4, <1>5, <1>6 DEF WorkerFirst

LEMMA FirstAlone ==
  ASSUME NEW r, Order(r), Contains(r, "worker"), ~Contains(r, "main")
  PROVE  WorkerFirst(r)
BY DEF WorkerFirst, Contains

\* Only the end of the input asks for the stop, and the worker did not fail.
Piped ==
  /\ sigints = 0 /\ sigterms = 0 /\ outcome \in {"none", "ok"} /\ source = "pipe"
  /\ \A i \in 1..Len(submitted) : submitted[i] \in {"chat", "status"}

OutcomeInv ==
  /\ pc["worker"] = "done" <=> outcome # "none"
  /\ outcome = "ok" => stopping

PipedInv ==
  /\ Piped /\ pc["reader"] \notin {"done", "failed"} => ~stopEvent /\ submitted = <<>>
  /\ Piped => Len(submitted) <= 1
  /\ Piped /\ Len(started) # Len(submitted) =>
       /\ pc["main"] = "waiting" /\ pc["worker"] \in {"new", "getting", "looping"}
       /\ WorkerFirst(ready)

LEMMA OutcomeStep == ControlInv /\ PipeInv /\ OutcomeInv /\ [Next]_vars => OutcomeInv'
<1> SUFFICES ASSUME ControlInv, PipeInv, OutcomeInv, [Next]_vars PROVE OutcomeInv'
  OBVIOUS
<1> USE DEF OutcomeInv
<1>1. CASE UNCHANGED vars
  BY <1>1 DEF vars, loopVars, pipeVars, shellVars
<1>2. CASE WorkerWaits \/ WorkerStarts \/ WorkerSuspends \/ WorkerFinishes
  <2>1. UNCHANGED <<outcome, stopping>> /\ pc'["worker"] # "done" /\ pc["worker"] # "done"
    BY <1>2, Moved DEF WorkerWaits, WorkerStarts, WorkerSuspends, WorkerFinishes, WorkerGets,
       WorkerHandles, ControlInv, LoopInv, Task, pipeVars, shellVars
  <2> QED BY <2>1
<1>3. CASE WorkerStops
  <2>1. stopping
    <3>1. queue # <<>> /\ Head(queue) = Stop
      BY <1>3 DEF WorkerStops
    <3> QED BY <3>1, SentinelAssumption DEF PipeInv, PipeTypes
  <2>2. outcome' = "ok" /\ stopping' = stopping /\ pc'["worker"] = "done"
    BY <1>3, Moved DEF WorkerStops, ControlInv, LoopInv, Task
  <2> QED BY <2>1, <2>2
<1>4. CASE WorkerCancelled \/ \E interrupted \in BOOLEAN : WorkerFails(interrupted)
  <2>1. outcome' \in {"cancelled", "interrupted", "error"} /\ pc'["worker"] = "done"
    BY <1>4, Moved DEF WorkerCancelled, WorkerFails, ControlInv, LoopInv, Task
  <2> QED BY <2>1
<1>5. CASE Next /\ ~Worker
  <2>1. outcome' = outcome /\ stopping' \in {stopping, TRUE}
    <3>1. CASE Executor
      BY <3>1 DEF Executor, ExecutorWaits, ExecutorStarts, ExecutorSuspends, ExecutorEnds,
         ExecutorFinishes, pipeVars, shellVars
    <3>2. CASE WatcherWaits \/ WatcherEnds \/ Reader
      BY <3>2 DEF WatcherWaits, WatcherEnds, Reader, ReaderBegins, ReaderReads, ReaderFails,
         ReaderCancelled, pipeVars, shellVars
    <3>3. CASE Main
      BY <3>3 DEF Main, Run, MainStops, MainStopsQueues, MainRaises, MainJoins, MainCloses, pipeVars,
         shellVars
    <3>4. CASE Outside \/ Gone
      BY <3>4 DEF Outside, ModelAnswers, TaskIsOver, Readable, Schedule, Sigint, Sigterm,
         SubmitEvent, SubmitTask, Gone, vars, pipeVars, shellVars
    <3> QED BY <1>5, <3>1, <3>2, <3>3, <3>4 DEF Next, Step
  <2> QED BY <1>5, <2>1, WorkerStays
<1> QED BY <1>1, <1>2, <1>3, <1>4, <1>5 DEF Worker

LEMMA OutcomeHolds == Spec => []OutcomeInv
<1>1. Init => OutcomeInv
  BY DEF Init, OutcomeInv, Task
<1> QED BY <1>1, OutcomeStep, ControlHolds, PipeHolds, PTL DEF Spec

\* What is piped and undisturbed was so before.
LEMMA PipedBack ==
  ASSUME ControlInv, PipeInv, ReasonInv, OutcomeInv, Next, Piped'
  PROVE  Piped
<1>1. \A i \in 1..Len(submitted) : submitted[i] \in {"chat", "status"}
  BY ItemsStay DEF Piped
<1>2. CASE Worker
  <2>1. UNCHANGED outside
    BY <1>2 DEF Worker, WorkerWaits, WorkerStarts, WorkerStops, WorkerSuspends, WorkerFinishes,
       WorkerCancelled, WorkerFails
  <2>2. outcome' = outcome \/ pc["worker"] # "done"
    BY <1>2 DEF Worker, WorkerWaits, WorkerStarts, WorkerStops, WorkerGets, WorkerSuspends,
       WorkerHandles, WorkerFinishes, WorkerCancelled, WorkerFails, shellVars
  <2> QED BY <1>1, <2>1, <2>2 DEF Piped, OutcomeInv, outside
<1>3. CASE Sigint \/ Sigterm
  BY <1>3 DEF Sigint, Sigterm, Piped, ReasonInv
<1>4. CASE ~Worker /\ ~Sigint /\ ~Sigterm
  <2>1. UNCHANGED outside /\ outcome' = outcome
    <3>1. CASE Executor
      BY <3>1 DEF Executor, ExecutorWaits, ExecutorStarts, ExecutorSuspends, ExecutorEnds,
         ExecutorFinishes, shellVars
    <3>2. CASE WatcherWaits \/ WatcherEnds \/ Reader
      BY <3>2 DEF WatcherWaits, WatcherEnds, Reader, ReaderBegins, ReaderReads, ReaderFails,
         ReaderCancelled, shellVars
    <3>3. CASE Main
      BY <3>3 DEF Main, Run, MainStops, MainStopsQueues, MainRaises, MainJoins, MainCloses, shellVars
    <3>4. CASE Outside \/ Gone
      BY <1>4, <3>4 DEF Outside, ModelAnswers, TaskIsOver, Readable, Schedule, SubmitEvent,
         SubmitTask, Gone, vars, shellVars
    <3> QED BY <1>4, <3>1, <3>2, <3>3, <3>4 DEF Next, Step
  <2> QED BY <1>1, <2>1 DEF Piped, outside
<1> QED BY <1>2, <1>3, <1>4

\* Until the reader ends nothing is submitted and nobody asks for the stop.
LEMMA PipedWaits ==
  ASSUME ControlInv, PipeInv, OutcomeInv, PipedInv, Next, Piped, Piped',
         pc'["reader"] \notin {"done", "failed"}
  PROVE  ~stopEvent' /\ submitted' = <<>>
<1> USE DEF ControlInv, LoopInv, Task
<1>1. CASE Worker
  <2>1. pc'["reader"] = pc["reader"] /\ UNCHANGED submitted
    BY <1>1, Moved DEF Worker, WorkerWaits, WorkerStarts, WorkerStops, WorkerSuspends,
       WorkerFinishes, WorkerCancelled, WorkerFails, pipeVars
  <2>2. stopEvent' = stopEvent \/ outcome' \in {"interrupted", "error"}
    BY <1>1 DEF Worker, WorkerWaits, WorkerStarts, WorkerStops, WorkerSuspends, WorkerFinishes,
       WorkerCancelled, WorkerFails, shellVars
  <2> QED BY <2>1, <2>2 DEF PipedInv, Piped
<1>2. CASE Executor
  BY <1>2, Moved DEF Executor, ExecutorWaits, ExecutorStarts, ExecutorSuspends, ExecutorEnds,
     ExecutorFinishes, PipedInv, shellVars, pipeVars
<1>3. CASE WatcherWaits
  BY <1>3, Moved DEF WatcherWaits, PipedInv, shellVars, pipeVars
<1>4. CASE WatcherEnds
  <2>1. pc'["reader"] = pc["reader"] /\ stopping
    BY <1>4, Moved DEF WatcherEnds, OutcomeInv, Piped
  <2> QED BY <2>1 DEF StopInv
<1>5. CASE ReaderBegins
  BY <1>5, Moved DEF ReaderBegins, PipedInv, shellVars, pipeVars
<1>6. CASE ReaderFails \/ ReaderCancelled
  BY <1>6, Moved DEF ReaderFails, ReaderCancelled
<1>7. ASSUME NEW ends \in BOOLEAN, NEW kinds \in Actions(ends), ReaderReads(ends, kinds)
      PROVE  FALSE
  <2>1. ends
    BY <1>7 DEF Actions, Piped
  <2> QED BY <1>7, <2>1, Moved DEF ReaderReads
<1>8. ASSUME NEW resume \in BOOLEAN, Run(resume) PROVE ~stopEvent' /\ submitted' = <<>>
  <2>1. ~resume
    <3>1. ASSUME resume PROVE FALSE
      <4>1. submitted' = <<"resume">>
        BY <1>8, <3>1 DEF Run
      <4>2. 1 \in 1..Len(submitted') /\ submitted'[1] = "resume"
        BY <4>1
      <4> QED BY <4>2 DEF Piped
    <3> QED BY <3>1
  <2>2. pc["reader"] = "new" /\ submitted' = submitted /\ stopEvent' = stopEvent
    BY <1>8, <2>1 DEF Run, shellVars
  <2> QED BY <2>2 DEF PipedInv
<1>9. CASE MainStops \/ MainStopsQueues \/ MainRaises \/ MainJoins \/ MainCloses
  <2>1. pc'["reader"] = pc["reader"]
    BY <1>9, Moved DEF MainStops, MainStopsQueues, MainRaises, MainJoins, MainCloses
  <2>2. UNCHANGED <<stopEvent, submitted>>
    BY <1>9 DEF MainStops, MainStopsQueues, MainRaises, MainJoins, MainCloses, shellVars, pipeVars
  <2> QED BY <2>1, <2>2 DEF PipedInv
<1>10. CASE ModelAnswers \/ TaskIsOver \/ Readable \/ SubmitTask \/ Gone
  BY <1>10 DEF ModelAnswers, TaskIsOver, Readable, Schedule, SubmitTask, Gone, vars, loopVars,
     shellVars, pipeVars, PipedInv
<1>11. CASE Sigint \/ Sigterm
  BY <1>11 DEF Sigint, Sigterm, Piped
<1>12. CASE SubmitEvent
  <2>1. submitted' = Append(submitted, "event") /\ submitted \in Seq(Kind)
    BY <1>12 DEF SubmitEvent, PipeInv, PipeTypes
  <2>2. Len(submitted) + 1 \in 1..Len(submitted') /\ submitted'[Len(submitted) + 1] = "event"
    BY <2>1
  <2> QED BY <2>2 DEF Piped
<1> QED BY <1>1, <1>2, <1>3, <1>4, <1>5, <1>6, <1>7, <1>8, <1>9, <1>10, <1>11, <1>12
        DEF Next, Step, Main, Reader, Outside

\* The action is read once, at the end of the input, and the worker is woken for
\* it before run() is woken for the stop.
LEMMA PipedReads ==
  ASSUME ControlInv, PipeInv, OutcomeInv, PipedInv, Piped, NEW ends \in BOOLEAN,
         NEW kinds \in Actions(ends), ReaderReads(ends, kinds)
  PROVE  /\ Len(submitted') <= 1
         /\ kinds # <<>> => /\ pc'["main"] = "waiting" /\ pc'["worker"] = "getting"
                            /\ WorkerFirst(ready')
<1> USE DEF ControlInv
<1>1. ends /\ pc["reader"] = "reading" /\ "reader" \notin cancelled /\ Runs("reader")
  BY DEF ReaderReads, Actions, Piped
<1>2. submitted = <<>> /\ ~stopEvent
  BY <1>1 DEF PipedInv
<1>3. Len(submitted') <= 1
  <2>1. Len(kinds) <= 1
    <3>1. kinds = <<>> \/ kinds = <<"chat">> \/ kinds = <<"status">>
      BY <1>1 DEF Actions
    <3>2. CASE kinds = <<>>
      BY <3>2
    <3>3. CASE kinds = <<"chat">>
      BY <3>3
    <3>4. CASE kinds = <<"status">>
      BY <3>4
    <3> QED BY <3>1, <3>2, <3>3, <3>4
  <2>2. submitted' = kinds
    <3>1. submitted' = submitted \o kinds /\ kinds \in Seq(Kind)
      BY ActionKinds DEF ReaderReads
    <3> QED BY <1>2, <3>1
  <2> QED BY <2>1, <2>2
<1>4. /\ pc["worker"] # "new" /\ pc["main"] = "waiting"
      /\ pc'["worker"] = pc["worker"] /\ pc'["main"] = pc["main"]
  <2>1. pc["main"] # "new" /\ pc["worker"] # "new"
    BY <1>1, HeadTask DEF LoopInv, Runs, Scheduled
  <2>2. pc["main"] = "waiting"
    BY <1>1, <2>1 DEF StopInv
  <2>3. pc'["worker"] = pc["worker"] /\ pc'["main"] = pc["main"]
    BY Moved DEF LoopInv, Task, ReaderReads
  <2> QED BY <2>1, <2>2, <2>3
<1>5. pc["worker"] = "getting"
  <2>1. pc["worker"] \notin {"looping", "running"}
    BY <1>1 DEF LoopInv, Runs
  <2>2. pc["worker"] # "handling"
    <3>1. current \notin 1..Len(submitted)
      BY <1>2
    <3> QED BY <3>1 DEF PipeInv, PipeTypes
  <2>3. pc["worker"] # "done"
    BY <1>4 DEF OutcomeInv, Piped, StopInv
  <2> QED BY <1>4, <2>1, <2>2, <2>3 DEF LoopInv, Phase
<1>6. ASSUME kinds # <<>> PROVE WorkerFirst(ready')
  <2>1. Order(Tail(ready)) /\ ~Contains(Tail(ready), "main")
    BY <1>1, <1>2, <1>4, TailTasks DEF LoopInv, Runs, MainMayRun, Scheduled, Task
  <2>2. /\ Order(Wake(Tail(ready), "worker")) /\ Contains(Wake(Tail(ready), "worker"), "worker")
        /\ ~Contains(Wake(Tail(ready), "worker"), "main")
    BY <2>1, WakeTasks DEF Task
  <2>3. ready' = Wake(Wake(Tail(ready), "worker"), "main")
    BY <1>1, <1>4, <1>5, <1>6 DEF ReaderReads, ReadWakes, StopWakes, ItemWakes, WakeIf
  <2> QED BY <2>2, <2>3, FirstAlone, FirstWake DEF Task
<1> QED BY <1>3, <1>4, <1>5, <1>6

\* As long as the action waits, the steps of the others leave the worker first.
LEMMA PipedStaysFirst ==
  ASSUME ControlInv, PipeInv, OutcomeInv, PipedInv, Next, Piped, Piped',
         Len(started) # Len(submitted)
  PROVE  \/ Len(started') = Len(submitted')
         \/ pc'["main"] = "waiting" /\ pc'["worker"] = pc["worker"] /\ WorkerFirst(ready')
<1> USE DEF ControlInv, LoopInv
<1>1. /\ pc["main"] = "waiting" /\ pc["worker"] \in {"new", "getting", "looping"}
      /\ WorkerFirst(ready) /\ Order(ready)
      /\ "worker" \notin cancelled /\ ~stopping
  BY DEF PipedInv, StopInv, Piped
<1>2. /\ Len(started) = 0 /\ Len(submitted) = 1 /\ queue # <<>> /\ Head(queue) # Stop
      /\ submitted # <<>>
  <2>1. Len(started) \in Nat /\ Len(submitted) \in Nat /\ Len(submitted) <= 1
        /\ Len(started) <= Len(submitted)
    BY DEF PipeInv, PipeTypes, PipedInv
  <2>2. Len(started) = 0 /\ Len(submitted) = 1
    <3>1. \A m, n \in Nat : n <= 1 /\ m <= n /\ m # n => m = 0 /\ n = 1
      OBVIOUS
    <3> QED BY <2>1, <3>1
  <2>3. Len(queue) = 1 /\ queue[1] = 1 /\ queue \in Seq(Nat \cup {Stop})
    BY <1>1, <2>2 DEF PipeInv, PipeTypes
  <2> QED BY <2>2, <2>3, SentinelAssumption
<1>3. pc["reader"] \in {"done", "failed"}
  BY <1>2 DEF PipedInv
<1>4. CASE Worker
  <2>1. CASE WorkerStarts
    <3>1. started \in Seq(Nat) /\ started' = Append(started, Head(queue))
          /\ submitted' = submitted /\ Len(started') = 1
      BY <1>2, <2>1 DEF WorkerStarts, PipeInv, PipeTypes
    <3> QED BY <1>2, <3>1
  <2>2. ~(\/ WorkerWaits \/ WorkerStops \/ WorkerSuspends \/ WorkerFinishes \/ WorkerCancelled
          \/ \E interrupted \in BOOLEAN : WorkerFails(interrupted))
    BY <1>1, <1>2 DEF WorkerWaits, WorkerStops, WorkerSuspends, WorkerFinishes, WorkerCancelled,
       WorkerFails, WorkerHandles
  <2> QED BY <1>4, <2>1, <2>2 DEF Worker
<1>5. /\ WorkerFirst(Tail(ready)) \/ Runs("worker")
      /\ ~Runs("main") /\ ready # <<>>
  <2>1. CASE Head(ready) = "worker"
    BY <1>1, <2>1 DEF Runs, WorkerFirst, Order
  <2>2. CASE Head(ready) # "worker"
    BY <1>1, <2>2, FirstTail DEF Runs
  <2> QED BY <2>1, <2>2
<1>6. CASE Executor
  <2>1. Runs("executor")
    BY <1>6 DEF Executor, ExecutorWaits, ExecutorStarts, ExecutorSuspends, ExecutorEnds,
           ExecutorGets, ExecutorFinishes
  <2>2. ready' \in {ready, Tail(ready)}
    BY <1>1, <1>6 DEF Executor, ExecutorWaits, ExecutorStarts, ExecutorSuspends, ExecutorEnds,
       ExecutorFinishes, WakeIf
  <2>3. pc'["main"] = pc["main"] /\ pc'["worker"] = pc["worker"]
    BY <1>6, Moved DEF Executor, ExecutorWaits, ExecutorStarts, ExecutorSuspends, ExecutorEnds,
       ExecutorFinishes, Task
  <2> QED BY <1>1, <1>5, <2>1, <2>2, <2>3 DEF Runs
<1>7. CASE WatcherWaits
  <2>1. pc'["main"] = pc["main"] /\ pc'["worker"] = pc["worker"]
    BY <1>7, Moved DEF WatcherWaits, Task
  <2> QED BY <1>1, <1>5, <1>7, <2>1 DEF WatcherWaits, Runs
<1>8. ~WatcherEnds /\ ~Main /\ ~Reader
  BY <1>1, <1>3, <1>5 DEF WatcherEnds, Main, Run, MainStops, MainStopsQueues, MainRaises, MainDrains,
     MainJoins, MainCloses, Reader, ReaderBegins, ReaderFails, ReaderReads, ReaderCancelled
<1>9. CASE ModelAnswers \/ TaskIsOver \/ Readable
  <2>1. PICK t \in Task : ~Contains(ready, t) /\ ready' = Append(ready, t) /\ pc' = pc
    BY <1>9 DEF ModelAnswers, TaskIsOver, Readable, Schedule, Task
  <2>2. ready' = Wake(ready, t)
    BY <2>1 DEF Wake
  <2> QED BY <1>1, <2>1, <2>2, FirstWake
<1>10. CASE SubmitTask
  <2>1. ready' \in {ready, Wake(ready, "executor")} /\ pc' = pc
    BY <1>10 DEF SubmitTask, TaskWakes, WakeIf
  <2> QED BY <1>1, <2>1, FirstWake DEF Task
<1>11. CASE Sigint \/ Sigterm
  BY <1>11 DEF Sigint, Sigterm, Piped
<1>12. CASE SubmitEvent
  <2>1. submitted' = Append(submitted, "event") /\ submitted \in Seq(Kind)
    BY <1>12 DEF SubmitEvent, PipeInv, PipeTypes
  <2>2. Len(submitted) + 1 \in 1..Len(submitted') /\ submitted'[Len(submitted) + 1] = "event"
    BY <2>1
  <2> QED BY <2>2 DEF Piped
<1>13. CASE Gone
  BY <1>1, <1>13 DEF Gone
<1> QED BY <1>4, <1>6, <1>7, <1>8, <1>9, <1>10, <1>11, <1>12, <1>13 DEF Next, Step, Outside

\* Nothing else is begun or submitted once all that was piped is handled.
LEMMA PipedStaysHandled ==
  ASSUME ControlInv, PipeInv, PipeInv', OutcomeInv, PipedInv, Next, Piped, Piped',
         Len(started) = Len(submitted), Len(started') # Len(submitted')
  PROVE  \E ends \in BOOLEAN : \E kinds \in Actions(ends) :
           ReaderReads(ends, kinds) /\ kinds # <<>>
<1>1. CASE Worker
  <2>1. Len(started') <= Len(submitted') /\ UNCHANGED submitted
    BY <1>1 DEF PipeInv, Worker, WorkerWaits, WorkerStarts, WorkerStops, WorkerSuspends,
       WorkerFinishes, WorkerCancelled, WorkerFails, pipeVars
  <2>2. started \in Seq(Nat) /\ (started' = started \/ started' = Append(started, Head(queue)))
    BY <1>1 DEF PipeInv, PipeTypes, Worker, WorkerWaits, WorkerStarts, WorkerStops, WorkerSuspends,
       WorkerFinishes, WorkerCancelled, WorkerFails, pipeVars
  <2>3. started' \in Seq(Nat)
    BY DEF PipeInv, PipeTypes
  <2>4. Len(started') \in {Len(started), Len(started) + 1} /\ Len(started) \in Nat
    <3>1. CASE started' = started
      BY <2>2, <3>1
    <3>2. CASE started' = Append(started, Head(queue)) /\ started' # started
      <4>1. CASE queue = <<>>
        BY <1>1, <3>2, <4>1 DEF Worker, WorkerWaits, WorkerStarts, WorkerStops, WorkerSuspends,
           WorkerFinishes, WorkerCancelled, WorkerFails, pipeVars
      <4>2. CASE queue # <<>>
        BY <2>2, <3>2, <4>2 DEF PipeInv, PipeTypes
      <4> QED BY <4>1, <4>2
    <3> QED BY <2>2, <3>1, <3>2
  <2> QED BY <2>1, <2>4
<1>2. CASE \E resume \in BOOLEAN : Run(resume)
  <2>1. PICK resume \in BOOLEAN : Run(resume)
    BY <1>2
  <2>2. UNCHANGED started
    BY <2>1 DEF Run
  <2>3. CASE resume
    <3>1. submitted' = <<"resume">>
      BY <2>1, <2>3 DEF Run
    <3>2. 1 \in 1..Len(submitted') /\ submitted'[1] = "resume"
      BY <3>1
    <3> QED BY <3>2 DEF Piped
  <2>4. CASE ~resume
    BY <2>1, <2>2, <2>4 DEF Run
  <2> QED BY <2>3, <2>4
<1>3. CASE SubmitEvent
  <2>1. submitted' = Append(submitted, "event") /\ submitted \in Seq(Kind)
    BY <1>3 DEF SubmitEvent, PipeInv, PipeTypes
  <2>2. Len(submitted) + 1 \in 1..Len(submitted') /\ submitted'[Len(submitted) + 1] = "event"
    BY <2>1
  <2> QED BY <2>2 DEF Piped
<1>4. ASSUME NEW ends \in BOOLEAN, NEW kinds \in Actions(ends), ReaderReads(ends, kinds)
      PROVE  kinds # <<>>
  <2> SUFFICES ASSUME kinds = <<>> PROVE FALSE
    OBVIOUS
  <2>1. submitted' = submitted \o <<>> /\ submitted \in Seq(Kind) /\ UNCHANGED started
    BY <1>4 DEF ReaderReads, PipeInv, PipeTypes
  <2>2. submitted' = submitted
    BY <2>1
  <2> QED BY <2>1, <2>2
<1>5. CASE UNCHANGED <<submitted, started>>
  BY <1>5
<1>6. \/ Worker \/ UNCHANGED <<submitted, started>> \/ SubmitEvent
      \/ \E resume \in BOOLEAN : Run(resume)
      \/ \E ends \in BOOLEAN : \E kinds \in Actions(ends) : ReaderReads(ends, kinds)
  <2>1. CASE Executor
    BY <2>1 DEF Executor, ExecutorWaits, ExecutorStarts, ExecutorSuspends, ExecutorEnds,
       ExecutorFinishes, pipeVars
  <2>2. CASE WatcherWaits \/ WatcherEnds \/ Reader
    BY <2>2 DEF WatcherWaits, WatcherEnds, Reader, ReaderBegins, ReaderFails, ReaderCancelled,
       pipeVars
  <2>3. CASE Main
    BY <2>3 DEF Main, MainStops, MainStopsQueues, MainRaises, MainJoins, MainCloses, pipeVars
  <2>4. CASE Outside \/ Gone
    BY <2>4 DEF Outside, ModelAnswers, TaskIsOver, Readable, Schedule, Sigint, Sigterm,
       SubmitTask, Gone, vars, pipeVars
  <2> QED BY <2>1, <2>2, <2>3, <2>4 DEF Next, Step
<1> QED BY <1>1, <1>2, <1>3, <1>4, <1>5, <1>6

LEMMA PipedStep ==
  ControlInv /\ PipeInv /\ PipeInv' /\ ReasonInv /\ OutcomeInv /\ PipedInv /\ [Next]_vars
    => PipedInv'
<1> SUFFICES ASSUME ControlInv, PipeInv, PipeInv', ReasonInv, OutcomeInv, PipedInv, [Next]_vars
             PROVE PipedInv'
  OBVIOUS
<1>1. CASE UNCHANGED vars
  BY <1>1 DEF PipedInv, Piped, WorkerFirst, vars, loopVars, pipeVars, shellVars, outside
<1> SUFFICES ASSUME Next PROVE PipedInv'
  BY <1>1
<1> SUFFICES ASSUME Piped' PROVE PipedInv'
  BY DEF PipedInv
<1>2. Piped
  BY PipedBack
<1>3. pc'["reader"] \notin {"done", "failed"} => ~stopEvent' /\ submitted' = <<>>
  BY <1>2, PipedWaits
<1>4. ASSUME NEW ends \in BOOLEAN, NEW kinds \in Actions(ends), ReaderReads(ends, kinds),
             kinds # <<>>
      PROVE  PipedInv'
  BY <1>2, <1>3, <1>4, PipedReads DEF PipedInv
<1>5. Len(submitted') <= 1
  <2>1. CASE submitted' = submitted
    BY <1>2, <2>1 DEF PipedInv
  <2>2. CASE \E ends \in BOOLEAN : \E kinds \in Actions(ends) : ReaderReads(ends, kinds)
    BY <1>2, <2>2, PipedReads
  <2>3. CASE pc'["main"] = "waiting" /\ submitted' \in {<<>>, <<"resume">>}
    <3>1. CASE submitted' = <<>>
      BY <3>1
    <3>2. CASE submitted' = <<"resume">>
      BY <3>2
    <3> QED BY <2>3, <3>1, <3>2
  <2>4. CASE SubmitEvent
    <3>1. submitted' = Append(submitted, "event") /\ submitted \in Seq(Kind)
      BY <2>4 DEF SubmitEvent, PipeInv, PipeTypes
    <3>2. Len(submitted) + 1 \in 1..Len(submitted') /\ submitted'[Len(submitted) + 1] = "event"
      BY <3>1
    <3> QED BY <3>2 DEF Piped
  <2>5. CASE Main
    BY <2>1, <2>3, <2>5, Moved DEF Main, Run, MainStops, MainStopsQueues, MainRaises, MainJoins,
       MainCloses, pipeVars, ControlInv, StopInv, LoopInv, PipeInv, PipeTypes, Task
  <2>6. CASE Worker \/ Executor
    BY <2>1, <2>6 DEF Worker, WorkerWaits, WorkerStarts, WorkerStops, WorkerSuspends,
       WorkerFinishes, WorkerCancelled, WorkerFails, Executor, ExecutorWaits, ExecutorStarts,
       ExecutorSuspends, ExecutorEnds, ExecutorFinishes, pipeVars
  <2>7. CASE WatcherWaits \/ WatcherEnds \/ Reader
    BY <2>1, <2>2, <2>7 DEF WatcherWaits, WatcherEnds, Reader, ReaderBegins, ReaderFails,
       ReaderCancelled, pipeVars
  <2>8. CASE Outside \/ Gone
    BY <2>1, <2>4, <2>8 DEF Outside, ModelAnswers, TaskIsOver, Readable, Schedule, Sigint, Sigterm,
       SubmitTask, Gone, vars, pipeVars
  <2> QED BY <2>5, <2>6, <2>7, <2>8 DEF Next, Step
<1>6. CASE Len(started) # Len(submitted)
  BY <1>2, <1>3, <1>5, <1>6, PipedStaysFirst DEF PipedInv
<1>7. CASE Len(started) = Len(submitted)
  BY <1>2, <1>3, <1>4, <1>5, <1>7, PipedStaysHandled DEF PipedInv
<1> QED BY <1>6, <1>7

LEMMA PipedHolds == Spec => []PipedInv
<1>1. Init => PipedInv
  <2> SUFFICES ASSUME Init PROVE PipedInv
    OBVIOUS
  <2>1. submitted = <<>> /\ started = <<>> /\ ~stopEvent
    BY DEF Init
  <2> QED BY <2>1 DEF PipedInv
<1> QED BY <1>1, PipedStep, ControlHolds, PipeHolds, ReasonHolds, OutcomeHolds, PTL DEF Spec

\* The one action of a pipe is handled although its end requests the stop at
\* once: the worker is woken before run() is, and begins the item before run()
\* can stop the pipeline.
THEOREM PipedActions == Spec => []PipedActionIsHandled
<1>1. ControlInv /\ PipeInv /\ PipedInv => PipedActionIsHandled
  <2> SUFFICES ASSUME ControlInv, PipeInv, PipedInv, Undisturbed, source = "pipe",
                      submitted \in Seq({"chat", "status"})
               PROVE  Len(started) = Len(submitted)
    BY DEF PipedActionIsHandled
  <2>1. Piped
    BY DEF Piped, Undisturbed
  <2>2. pc["main"] # "waiting"
    BY DEF Undisturbed, ControlInv, StopInv
  <2> QED BY <2>1, <2>2 DEF PipedInv
<1> QED BY <1>1, ControlHolds, PipeHolds, PipedHolds, PTL
=============================================================================
