---------------------------- MODULE RuntimeShell ----------------------------
(***************************************************************************)
(* The chat session: RuntimeShell.run with the tasks it creates on one     *)
(* asyncio event loop, the FIFO ProcessingPipeline, the BackgroundExecutor *)
(* and the signal handlers of cli.py.                                      *)
(*                                                                         *)
(* Tasks interleave only where they await.  The loop resumes them in the   *)
(* order their wake-ups were scheduled: ready is that order, and the task  *)
(* at its head runs until its next await.  A step that is longer than one  *)
(* action stays at the head (see InStep); signals, input, model answers    *)
(* and submissions by other code come in between steps.  A chat turn is    *)
(* what the pipeline sees of it: it suspends, it ends, it raises.          *)
(***************************************************************************)
EXTENDS Naturals, Sequences, SequencesExt

CONSTANTS
  None,        \* no current item
  Stop,        \* the None the stop methods put into the queues
  MaxWork      \* bound: items and background tasks submitted

ASSUME BoundsAssumption == MaxWork \in Nat \ {0}

\* The items of the queues are numbers or the sentinel.
ASSUME SentinelAssumption == None \notin Nat /\ Stop \notin Nat

VARIABLES
  ready,       \* the tasks that are scheduled to run, in order
  pc,          \* where each task awaits
  cancelled,   \* tasks that get CancelledError when they run next
  queue,       \* ProcessingPipeline._queue
  submitted,   \* the kinds of all items submitted, by their sequence
  stopping,    \* ProcessingPipeline._stopping
  current,     \* _current_item_id
  started,     \* the items whose handling began, in order
  session,     \* _session_state
  stopEvent,   \* _stop_event
  reason,      \* _stop_reason
  outcome,     \* how the worker task ended
  tasks,       \* the status of every background task, by submission
  taskQueue,   \* BackgroundExecutor._queue
  source,      \* stdin is a pipe or a terminal
  sigints, sigterms,
  exitCode

loopVars  == <<ready, pc, cancelled>>
pipeVars  == <<queue, submitted, stopping, current, started>>
shellVars == <<session, stopEvent, reason, outcome>>
taskVars  == <<tasks, taskQueue>>
outside   == <<source, sigints, sigterms>>
vars == <<loopVars, pipeVars, shellVars, taskVars, outside, exitCode>>

Task == {"main", "worker", "executor", "watcher", "reader"}

Phase ==
  [main     : {"new", "waiting", "reader", "drain", "executor", "watcher",
               "closing", "exited"},
   worker   : {"new", "getting", "looping", "running", "handling", "done"},
   executor : {"new", "getting", "looping", "begun", "running", "done"},
   watcher  : {"new", "waiting", "done"},
   reader   : {"new", "reading", "failed", "done"}]

Kind   == {"resume", "chat", "status", "event"}
Status == {"waiting", "running", "success", "failure"}
ExitCode == {"running", "0", "130", "error"}

-----------------------------------------------------------------------------
(***************************************************************************)
(* The event loop.                                                         *)
(***************************************************************************)
Runs(t) == ready # <<>> /\ Head(ready) = t

\* A task that is scheduled already stays in its place.
Wake(r, t) == IF Contains(r, t) THEN r ELSE Append(r, t)
WakeIf(awaits, r, t) == IF awaits THEN Wake(r, t) ELSE r

\* A task is in the middle of a step: nothing comes in between.
InStep ==
  \/ pc["worker"] \in {"looping", "running"}
  \/ pc["main"] = "drain"
  \/ pc["executor"] \in {"looping", "begun"}

\* Code outside the tasks may run: callbacks of the loop, other coroutines.
Between == ~InStep /\ pc["main"] \notin {"new", "closing", "exited"}

\* Event.set wakes run() if it still waits for the stop.
StopWakes(r) == WakeIf(pc["main"] = "waiting", r, "main")
\* Queue.put wakes the task that waits in get.
ItemWakes(r) == WakeIf(pc["worker"] = "getting", r, "worker")
TaskWakes(r) == WakeIf(pc["executor"] = "getting", r, "executor")

\* The task goes on to its next await.
Moves(t, where) == pc' = [pc EXCEPT ![t] = where]

\* The bound leaves room for n more items or tasks.
Room(n) == Len(submitted) + Len(tasks) + n <= MaxWork

Chats(kind) == kind \in {"resume", "chat", "status"}

-----------------------------------------------------------------------------
Init ==
  /\ ready = <<"main">> /\ cancelled = {}
  /\ pc = [t \in Task |-> "new"]
  /\ queue = <<>> /\ submitted = <<>> /\ stopping = FALSE
  /\ current = None /\ started = <<>>
  /\ session = "idle" /\ stopEvent = FALSE /\ reason = "eof" /\ outcome = "none"
  /\ tasks = <<>> /\ taskQueue = <<>>
  /\ source \in {"pipe", "tty"}
  /\ sigints = 0 /\ sigterms = 0 /\ exitCode = "running"

\* run(): the tasks are created, the resumed turn is queued, the stop awaited.
Run(resume) ==
  /\ Runs("main") /\ pc["main"] = "new"
  /\ ready' = <<"worker", "executor", "watcher", "reader">>
  /\ Moves("main", "waiting")
  /\ IF resume THEN submitted' = <<"resume">> /\ queue' = <<1>>
               ELSE UNCHANGED <<submitted, queue>>
  /\ UNCHANGED <<cancelled, stopping, current, started, shellVars, taskVars,
                 outside, exitCode>>

-----------------------------------------------------------------------------
(***************************************************************************)
(* ProcessingPipeline.run, the worker.                                     *)
(***************************************************************************)
WorkerGets ==
  /\ Runs("worker") /\ "worker" \notin cancelled
  /\ pc["worker"] \in {"new", "getting", "looping"}

WorkerWaits ==
  /\ WorkerGets /\ queue = <<>>
  /\ Moves("worker", "getting")
  /\ ready' = Tail(ready)
  /\ UNCHANGED <<cancelled, pipeVars, shellVars, taskVars, outside, exitCode>>

\* Mutant: the item stays in the queue while it is handled.
WorkerPeeks ==
  /\ WorkerGets /\ queue # <<>> /\ Head(queue) # Stop
  /\ current' = Head(queue)
  /\ started' = Append(started, Head(queue))
  /\ queue' = IF submitted[Head(queue)] = "status" THEN queue ELSE Tail(queue)
  /\ Len(started) <= MaxWork
  /\ session' = IF Chats(submitted[Head(queue)]) THEN "processing" ELSE session
  /\ Moves("worker", "running")
  /\ UNCHANGED <<ready, cancelled, submitted, stopping, stopEvent, reason,
                 outcome, taskVars, outside, exitCode>>

WorkerStarts ==
  /\ WorkerGets /\ queue # <<>> /\ Head(queue) # Stop
  /\ current' = Head(queue)
  /\ started' = Append(started, Head(queue))
  /\ queue' = Tail(queue)
  /\ session' = IF Chats(submitted[Head(queue)]) THEN "processing" ELSE session
  /\ Moves("worker", "running")
  /\ UNCHANGED <<ready, cancelled, submitted, stopping, stopEvent, reason,
                 outcome, taskVars, outside, exitCode>>

WorkerStops ==
  /\ WorkerGets /\ queue # <<>> /\ Head(queue) = Stop
  /\ queue' = Tail(queue)
  /\ Moves("worker", "done")
  /\ outcome' = "ok"
  /\ ready' = Wake(Tail(ready), "watcher")
  /\ UNCHANGED <<cancelled, submitted, stopping, current, started, session,
                 stopEvent, reason, taskVars, outside, exitCode>>

WorkerHandles ==
  /\ Runs("worker") /\ "worker" \notin cancelled
  /\ pc["worker"] \in {"running", "handling"}

\* The turn or the event's handler awaits, once or many times; ":status" does not.
WorkerSuspends ==
  /\ WorkerHandles /\ pc["worker"] = "running" /\ submitted[current] # "status"
  /\ Moves("worker", "handling")
  /\ ready' = Tail(ready)
  /\ UNCHANGED <<cancelled, pipeVars, shellVars, taskVars, outside, exitCode>>

\* Mutant: the session is idle again although a stop was requested.
SettledIdle(stop) == IF Chats(submitted[current]) THEN "idle" ELSE session

\* _handle_chat's finally.
Settled(stop) == IF ~Chats(submitted[current]) THEN session
                 ELSE IF stop THEN "stopping" ELSE "idle"

\* The turn is answered or rejected, the event's handler returned or failed.
WorkerFinishes ==
  /\ WorkerHandles
  /\ session' = Settled(stopEvent)
  /\ current' = None
  /\ Moves("worker", "looping")
  /\ UNCHANGED <<ready, cancelled, queue, submitted, stopping, started, stopEvent,
                 reason, outcome, taskVars, outside, exitCode>>

\* The turn raises: TurnInterrupted requests a stop first, an error just ends
\* the worker.
WorkerFails(interrupted) ==
  /\ WorkerHandles /\ submitted[current] \in {"resume", "chat"}
  /\ stopEvent' = (stopEvent \/ interrupted)
  /\ reason' = IF interrupted THEN "sigint" ELSE reason
  /\ session' = Settled(stopEvent')
  /\ current' = None
  /\ outcome' = IF interrupted THEN "interrupted" ELSE "error"
  /\ Moves("worker", "done")
  /\ ready' = Wake(IF interrupted THEN StopWakes(Tail(ready)) ELSE Tail(ready), "watcher")
  /\ UNCHANGED <<cancelled, queue, submitted, stopping, started, taskVars,
                 outside, exitCode>>

\* Mutant: an aborted turn leaves the session state as it is.
WorkerAbandoned ==
  /\ Runs("worker") /\ "worker" \in cancelled /\ pc["worker"] # "done"
  /\ current' = None
  /\ outcome' = "cancelled"
  /\ Moves("worker", "done")
  /\ ready' = Wake(Tail(ready), "watcher")
  /\ UNCHANGED <<cancelled, queue, submitted, stopping, started, session, stopEvent,
                 reason, taskVars, outside, exitCode>>

\* CancelledError at whatever the worker awaits.
WorkerCancelled ==
  /\ Runs("worker") /\ "worker" \in cancelled /\ pc["worker"] # "done"
  /\ session' = IF current = None THEN session ELSE Settled(stopEvent)
  /\ current' = None
  /\ outcome' = "cancelled"
  /\ Moves("worker", "done")
  /\ ready' = Wake(Tail(ready), "watcher")
  /\ UNCHANGED <<cancelled, queue, submitted, stopping, started, stopEvent,
                 reason, taskVars, outside, exitCode>>

Worker ==
  \/ WorkerWaits \/ WorkerStarts \/ WorkerStops \/ WorkerSuspends
  \/ WorkerFinishes \/ WorkerCancelled
  \/ \E interrupted \in BOOLEAN : WorkerFails(interrupted)


-----------------------------------------------------------------------------
(***************************************************************************)
(* BackgroundExecutor.run.                                                 *)
(***************************************************************************)
ExecutorGets ==
  /\ Runs("executor") /\ "executor" \notin cancelled
  /\ pc["executor"] \in {"new", "getting", "looping"}

ExecutorWaits ==
  /\ ExecutorGets /\ taskQueue = <<>>
  /\ Moves("executor", "getting")
  /\ ready' = Tail(ready)
  /\ UNCHANGED <<cancelled, pipeVars, shellVars, taskVars, outside, exitCode>>

ExecutorStarts ==
  /\ ExecutorGets /\ taskQueue # <<>> /\ Head(taskQueue) # Stop
  /\ taskQueue' = Tail(taskQueue)
  /\ tasks' = [tasks EXCEPT ![Head(taskQueue)] = "running"]
  /\ Moves("executor", "begun")
  /\ UNCHANGED <<ready, cancelled, pipeVars, shellVars, outside, exitCode>>

ExecutorSuspends ==
  /\ Runs("executor") /\ pc["executor"] = "begun"
  /\ Moves("executor", "running")
  /\ ready' = Tail(ready)
  /\ UNCHANGED <<cancelled, pipeVars, shellVars, taskVars, outside, exitCode>>

\* Mutant: a failed task ends the executor.
ExecutorGivesUp(status) ==
  /\ Runs("executor") /\ "executor" \notin cancelled
  /\ pc["executor"] \in {"begun", "running"}
  /\ tasks' = [i \in DOMAIN tasks |-> IF tasks[i] = "running" THEN status ELSE tasks[i]]
  /\ IF status = "failure"
       THEN /\ Moves("executor", "done")
            /\ ready' = WakeIf(pc["main"] = "executor", Tail(ready), "main")
       ELSE Moves("executor", "looping") /\ UNCHANGED ready
  /\ UNCHANGED <<cancelled, pipeVars, shellVars, taskQueue, outside, exitCode>>

\* A failed task keeps its reason and does not stop the next one.
ExecutorFinishes(status) ==
  /\ Runs("executor") /\ "executor" \notin cancelled
  /\ pc["executor"] \in {"begun", "running"}
  /\ tasks' = [i \in DOMAIN tasks |-> IF tasks[i] = "running" THEN status ELSE tasks[i]]
  /\ Moves("executor", "looping")
  /\ UNCHANGED <<ready, cancelled, pipeVars, shellVars, taskQueue, outside, exitCode>>

ExecutorEnds ==
  /\ Runs("executor")
  /\ \/ ExecutorGets /\ taskQueue # <<>> /\ Head(taskQueue) = Stop
        /\ taskQueue' = Tail(taskQueue)
     \/ "executor" \in cancelled /\ pc["executor"] # "done" /\ UNCHANGED taskQueue
  /\ Moves("executor", "done")
  /\ ready' = WakeIf(pc["main"] = "executor", Tail(ready), "main")
  /\ UNCHANGED <<cancelled, pipeVars, shellVars, tasks, outside, exitCode>>

Executor ==
  \/ ExecutorWaits \/ ExecutorStarts \/ ExecutorSuspends \/ ExecutorEnds
  \/ \E status \in {"success", "failure"} : ExecutorFinishes(status)

-----------------------------------------------------------------------------
(***************************************************************************)
(* _watch_worker.                                                          *)
(***************************************************************************)
WatcherWaits ==
  /\ Runs("watcher") /\ pc["watcher"] = "new" /\ pc["worker"] # "done"
  /\ Moves("watcher", "waiting")
  /\ ready' = Tail(ready)
  /\ UNCHANGED <<cancelled, pipeVars, shellVars, taskVars, outside, exitCode>>

WatcherEnds ==
  /\ Runs("watcher") /\ pc["worker"] = "done" /\ pc["watcher"] # "done"
  /\ stopEvent' = TRUE
  /\ Moves("watcher", "done")
  /\ ready' = WakeIf(pc["main"] \in {"waiting", "watcher"}, Tail(ready), "main")
  /\ UNCHANGED <<cancelled, pipeVars, session, reason, outcome, taskVars,
                 outside, exitCode>>

-----------------------------------------------------------------------------
(***************************************************************************)
(* _read_source: InputReader.run over a pipe or the TTY line editor.       *)
(***************************************************************************)
ReaderBegins ==
  /\ Runs("reader") /\ pc["reader"] = "new" /\ "reader" \notin cancelled
  /\ Moves("reader", "reading")
  /\ ready' = Tail(ready)
  /\ UNCHANGED <<cancelled, pipeVars, shellVars, taskVars, outside, exitCode>>

\* A pipe is one action, at its end; a terminal gives lines as they are entered,
\* maybe several in one chunk.  Chunks that complete no action change nothing.
Actions(ends) ==
  LET one == {<<kind>> : kind \in {"chat", "status"}}
  IN  IF ends THEN {<<>>} \cup one
      ELSE IF source = "tty" THEN one \cup {<<"chat", "chat">>} ELSE {}

\* Mutant: the end of input always is the reason of the stop.
EofReasonAlways == "eof"

\* _on_input_eof: a stop that was requested before keeps its reason.
EofReason == IF stopEvent THEN reason ELSE "eof"

\* Mutant: on_eof runs before the last action is emitted.
EofWakesFirst(ends, kinds, r) ==
  LET stopped == IF ends THEN StopWakes(r) ELSE r
  IN  IF kinds # <<>> THEN ItemWakes(stopped) ELSE stopped

ReadWakes(ends, kinds, r) ==
  LET emitted == IF kinds # <<>> THEN ItemWakes(r) ELSE r
  IN  IF ends THEN StopWakes(emitted) ELSE emitted

\* _emit for each action, then on_eof when the input ends.
ReaderReads(ends, kinds) ==
  /\ Runs("reader") /\ pc["reader"] = "reading" /\ "reader" \notin cancelled
  /\ kinds \in Actions(ends)
  /\ Room(Len(kinds))
  /\ submitted' = submitted \o kinds
  /\ queue' = queue \o [i \in 1..Len(kinds) |-> Len(submitted) + i]
  /\ stopEvent' = (stopEvent \/ ends)
  /\ reason' = IF ends THEN EofReason ELSE reason
  /\ Moves("reader", IF ends THEN "done" ELSE "reading")
  /\ ready' = ReadWakes(ends, kinds, Tail(ready))
  /\ UNCHANGED <<cancelled, stopping, current, started, session, outcome,
                 taskVars, outside, exitCode>>

\* A pipe's read raises OSError: on_eof runs in the finally, the error stays
\* in the task.
ReaderFails ==
  /\ Runs("reader") /\ pc["reader"] = "reading" /\ "reader" \notin cancelled
  /\ source = "pipe"
  /\ stopEvent' = TRUE
  /\ reason' = EofReason
  /\ Moves("reader", "failed")
  /\ ready' = StopWakes(Tail(ready))
  /\ UNCHANGED <<cancelled, pipeVars, session, outcome, taskVars, outside, exitCode>>

\* Cancelled by run(), which then waits for it.  A line read but not yet
\* emitted is lost.
ReaderCancelled ==
  /\ Runs("reader") /\ "reader" \in cancelled /\ pc["reader"] \in {"new", "reading"}
  /\ Moves("reader", "done")
  /\ ready' = Wake(Tail(ready), "main")
  /\ UNCHANGED <<cancelled, pipeVars, shellVars, taskVars, outside, exitCode>>

Reader ==
  \/ ReaderBegins \/ ReaderFails \/ ReaderCancelled
  \/ \E ends \in BOOLEAN : \E kinds \in Actions(ends) : ReaderReads(ends, kinds)

-----------------------------------------------------------------------------
(***************************************************************************)
(* run(), from the stop event on.                                          *)
(***************************************************************************)
\* await of a task that is done does not suspend.
MainStops ==
  /\ Runs("main") /\ pc["main"] = "waiting"
  /\ session' = "stopping"
  /\ IF pc["reader"] \in {"done", "failed"}
       THEN /\ Moves("main", "drain")
            /\ UNCHANGED <<ready, cancelled>>
       ELSE /\ Moves("main", "reader")
            /\ cancelled' = cancelled \cup {"reader"}
            /\ ready' = Wake(Tail(ready), "reader")
  /\ UNCHANGED <<pipeVars, stopEvent, reason, outcome, taskVars, outside, exitCode>>

MainDrains == Runs("main") /\ pc["main"] \in {"reader", "drain"}

\* Mutant: stop() does not throw the waiting items away.
StopKeepsQueue ==
  /\ MainDrains /\ pc["reader"] # "failed"
  /\ stopping' = TRUE
  /\ queue' = Append(queue, Stop)
  /\ taskQueue' = Append(taskQueue, Stop)
  /\ Moves("main", "executor")
  /\ ready' = TaskWakes(ItemWakes(Tail(ready)))
  /\ UNCHANGED <<cancelled, submitted, current, started, shellVars, tasks,
                 outside, exitCode>>

\* Mutant: stop() empties the queue but does not end the worker.
StopLeavesWorker ==
  /\ MainDrains /\ pc["reader"] # "failed"
  /\ stopping' = TRUE
  /\ queue' = <<>>
  /\ taskQueue' = Append(taskQueue, Stop)
  /\ Moves("main", "executor")
  /\ ready' = TaskWakes(Tail(ready))
  /\ UNCHANGED <<cancelled, submitted, current, started, shellVars, tasks,
                 outside, exitCode>>

\* pipeline.stop, executor.stop, and the executor is awaited.
MainStopsQueues ==
  /\ MainDrains /\ pc["reader"] # "failed"
  /\ stopping' = TRUE
  /\ queue' = <<Stop>>
  /\ taskQueue' = Append(taskQueue, Stop)
  /\ Moves("main", "executor")
  /\ ready' = TaskWakes(ItemWakes(Tail(ready)))
  /\ UNCHANGED <<cancelled, submitted, current, started, shellVars, tasks,
                 outside, exitCode>>

CancelWakes(t, r) == WakeIf(pc[t] # "done", r, t)

\* The reader's error leaves run() at once; asyncio.run cancels the tasks that
\* are left and waits for them (the watcher follows the worker).
MainRaises ==
  /\ MainDrains /\ pc["reader"] = "failed"
  /\ Moves("main", "closing")
  /\ cancelled' = cancelled \cup {"worker", "executor"}
  /\ ready' = CancelWakes("executor", CancelWakes("worker", Tail(ready)))
  /\ UNCHANGED <<pipeVars, shellVars, taskVars, outside, exitCode>>

\* Mutant: run() returns the reason.
CodeIsReason == reason

\* run() raises the worker's error or returns by the reason; cli.py turns
\* TURN_INTERRUPTED into 130 too.
Code == IF outcome = "error" THEN "error"
        ELSE IF outcome = "interrupted" \/ reason = "sigint" THEN "130" ELSE "0"

\* Mutant: run() returns as soon as the executor has ended.
MainForgetsWorker ==
  /\ Runs("main") /\ pc["main"] \in {"executor", "watcher"}
  /\ ready' = Tail(ready)
  /\ Moves("main", "exited") /\ exitCode' = Code
  /\ UNCHANGED <<cancelled, pipeVars, shellVars, taskVars, outside>>

MainJoins ==
  /\ Runs("main") /\ pc["main"] \in {"executor", "watcher"}
  /\ ready' = Tail(ready)
  /\ IF pc["watcher"] = "done"
       THEN Moves("main", "exited") /\ exitCode' = Code
       ELSE Moves("main", "watcher") /\ UNCHANGED exitCode
  /\ UNCHANGED <<cancelled, pipeVars, shellVars, taskVars, outside>>

MainCloses ==
  /\ pc["main"] = "closing" /\ ready = <<>>
  /\ pc["worker"] = "done" /\ pc["executor"] = "done" /\ pc["watcher"] = "done"
  /\ Moves("main", "exited") /\ exitCode' = "error"
  /\ UNCHANGED <<ready, cancelled, pipeVars, shellVars, taskVars, outside>>

Main ==
  \/ \E resume \in BOOLEAN : Run(resume)
  \/ MainStops \/ MainStopsQueues \/ MainRaises \/ MainJoins \/ MainCloses

-----------------------------------------------------------------------------
(***************************************************************************)
(* What comes in between steps.                                            *)
(***************************************************************************)
Schedule(t) ==
  /\ Between /\ ~Contains(ready, t)
  /\ ready' = Append(ready, t)
  /\ UNCHANGED <<pc, cancelled, pipeVars, shellVars, taskVars, outside, exitCode>>

\* Whatever the turn or the handler awaits is there: the model's answer.
ModelAnswers == pc["worker"] = "handling" /\ Schedule("worker")
TaskIsOver   == pc["executor"] = "running" /\ Schedule("executor")
Readable     == pc["reader"] = "reading" /\ Schedule("reader")

\* Mutant: the second Ctrl+C does what the first did.
SigintOnlyStops ==
  /\ Between /\ sigints < 2
  /\ sigints' = sigints + 1
  /\ stopEvent' = TRUE /\ reason' = "sigint"
  /\ ready' = StopWakes(ready)
  /\ UNCHANGED <<pc, cancelled, pipeVars, session, outcome, taskVars, source,
                 sigterms, exitCode>>

\* The first Ctrl+C is request_stop, the second request_abort.
Sigint ==
  /\ Between /\ sigints < 2
  /\ sigints' = sigints + 1
  /\ stopEvent' = TRUE /\ reason' = "sigint"
  /\ IF sigints = 1 /\ pc["worker"] # "done"
       THEN /\ cancelled' = cancelled \cup {"worker"}
            /\ ready' = Wake(StopWakes(ready), "worker")
       ELSE /\ UNCHANGED cancelled
            /\ ready' = StopWakes(ready)
  /\ UNCHANGED <<pc, pipeVars, session, outcome, taskVars, source,
                 sigterms, exitCode>>

Sigterm ==
  /\ Between /\ sigterms < 1
  /\ sigterms' = sigterms + 1
  /\ stopEvent' = TRUE /\ reason' = "sigterm"
  /\ ready' = StopWakes(ready)
  /\ UNCHANGED <<pc, cancelled, pipeVars, session, outcome, taskVars, source,
                 sigints, exitCode>>

\* pipeline.submit by other code; it raises RUNTIME_STOPPING once stopping.
SubmitEvent ==
  /\ Between /\ ~stopping /\ Room(1)
  /\ submitted' = Append(submitted, "event")
  /\ queue' = Append(queue, Len(submitted'))
  /\ ready' = ItemWakes(ready)
  /\ UNCHANGED <<pc, cancelled, stopping, current, started, shellVars, taskVars,
                 outside, exitCode>>

\* executor.submit; nothing refuses it after the stop.
SubmitTask ==
  /\ Between /\ Room(1)
  /\ tasks' = Append(tasks, "waiting")
  /\ taskQueue' = Append(taskQueue, Len(tasks'))
  /\ ready' = TaskWakes(ready)
  /\ UNCHANGED <<pc, cancelled, pipeVars, shellVars, outside, exitCode>>

Outside ==
  ModelAnswers \/ TaskIsOver \/ Readable \/ Sigint \/ Sigterm \/ SubmitEvent \/ SubmitTask

\* The process is gone.
Gone == pc["main"] = "exited" /\ UNCHANGED vars

Step == Main \/ Worker \/ Executor \/ WatcherWaits \/ WatcherEnds \/ Reader
Next == Step \/ Outside \/ Gone

Spec == Init /\ [][Next]_vars

\* The loop runs what is ready, and background tasks end.  Nothing is assumed
\* of the person, the model or the handlers.
Fairness == WF_vars(Step) /\ WF_vars(TaskIsOver)

FairSpec == Spec /\ Fairness

-----------------------------------------------------------------------------
(***************************************************************************)
(* What the shell promises.                                                *)
(***************************************************************************)
TypeOK ==
  /\ \A i \in DOMAIN ready : ready[i] \in Task
  /\ pc \in Phase
  /\ cancelled \subseteq Task
  /\ \A i \in DOMAIN queue : queue[i] \in DOMAIN submitted \cup {Stop}
  /\ \A i \in DOMAIN submitted : submitted[i] \in Kind
  /\ current \in DOMAIN submitted \cup {None}
  /\ session \in {"idle", "processing", "stopping"}
  /\ stopping \in BOOLEAN /\ stopEvent \in BOOLEAN
  /\ reason \in {"eof", "sigint", "sigterm"}
  /\ outcome \in {"none", "ok", "error", "interrupted", "cancelled"}
  /\ \A i \in DOMAIN tasks : tasks[i] \in Status
  /\ exitCode \in ExitCode

\* Every item is handled at most once and in the order of submission, no item
\* overtakes another (BR-001, BR-002).
HandledInOrder == started = [i \in 1..Len(started) |-> i]

\* Once the pipeline is stopped nothing is begun: what waited is thrown away.
NothingBeginsAfterDrain == [][stopping => started' = started]_vars

\* status_snapshot never fails its validation: a session that is processing
\* has an item, whoever wrote _session_state last.
SnapshotIsValid == session = "processing" => current # None

\* The session state does not return from stopping for good: a process that
\* ends was stopping, however its last turn ended.
EndsStopping == pc["main"] = "exited" => session = "stopping"

\* app.close releases the writer lease only after every task has ended: no
\* turn or background task outlives the lease.
LeaseOutlivesWork ==
  pc["main"] = "exited" =>
    /\ pc["worker"] = "done" /\ pc["executor"] = "done"
    /\ pc["reader"] \in {"done", "failed"}

\* Ctrl+C ends in 130 unless SIGTERM or an error came as well.
InterruptIs130 ==
  exitCode # "running" /\ sigints > 0 /\ sigterms = 0 => exitCode \in {"130", "error"}

\* A regular end waits for the background tasks submitted before the stop, a
\* failed one among them included, and they ran one after the other.
TasksAreFinished ==
  /\ exitCode \in {"0", "130"} =>
       /\ ~Contains(taskQueue, Stop)
       /\ \A i \in DOMAIN tasks :
            tasks[i] \in {"success", "failure"} \/ Contains(taskQueue, i)
  /\ \A i, j \in DOMAIN tasks :
       i < j /\ tasks[j] # "waiting" => tasks[i] \in {"success", "failure"}

\* Nobody interrupted the session and nothing failed in it.
Undisturbed == sigints = 0 /\ sigterms = 0 /\ outcome = "ok" /\ exitCode = "0"

\* The one action of a pipe is handled although its end requests the stop at
\* once: the worker is woken before run() is.
PipedActionIsHandled ==
  Undisturbed /\ source = "pipe" /\ submitted \in Seq({"chat", "status"})
    => Len(started) = Len(submitted)

\* A second Ctrl+C ends the process whatever the model does; after the first,
\* or the end of input, it ends when no turn runs for ever.  Both assume
\* that every background task ends.
AbortEnds == (sigints = 2) ~> (pc["main"] = "exited")
StopEnds  == []<>(pc["worker"] # "handling") => (stopEvent ~> (pc["main"] = "exited"))

(***************************************************************************)
(* What the repository says and the code does not keep.                    *)
(***************************************************************************)
\* The whole of a piped input is one action that is handled once.
PipedInputIsHandled ==
  Undisturbed /\ source = "pipe" /\ ~Contains(submitted, "event")
    => Len(started) = Len(submitted)
=============================================================================
