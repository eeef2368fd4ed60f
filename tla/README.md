# Bai: specification and proofs

TLA+ specifications of Bai (`src/src/bai_agent`), a personal chat agent that keeps its memory as plain
files: an append-only raw archive (`memory/raw/*.jsonl`), one curated long-term document
(`memory/long_term.yaml`) and a turn journal (`memory/.state/turn-transaction.json`). TLC checks the
specifications on small instances; TLAPS proves every safety property they check, and both refinements, for
every value of the constants.

Paths below are relative to `src/src/bai_agent/` unless they begin with `src/`.

1. [The system](#1-the-system)
2. [Modules](#2-modules)
3. [The modules and the code](#3-the-modules-and-the-code): [TurnTransaction](#turntransaction),
   [LongTermStore](#longtermstore), [RuntimeShell](#runtimeshell),
   [ModelCalls, ToolExecution, ModelTurn](#modelcalls-toolexecution-modelturn),
   [LineEditor, InputSession](#lineeditor-inputsession)
4. [Runs and bounds](#4-runs-and-bounds)
5. [Fairness, deadlock, properties](#5-fairness-deadlock-properties)
6. [What the code does not keep](#6-what-the-code-does-not-keep)
7. [What is proved](#7-what-is-proved)
8. [What is not modelled](#8-what-is-not-modelled)
9. [Plan](#9-plan)

## 1. The system

| Component | State it keeps | Operations | Hard behaviour | What makes it correct |
|---|---|---|---|---|
| **Turn transaction** `memory/transaction.py`, `recovery.py` | the journal: PREPARED, READY_PENDING or READY_TO_COMMIT with baseline hashes and the records and document to publish | begin, discard, pending, ready, commit, recover | a crash between any two of the appends, the document's replacement and the unlink; recovery of a recovery | turns are all or nothing; a decided turn rolls forward, an undecided one leaves nothing; no conflict without outside edits |
| **Turn controller** `runtime/controller.py` | the running turn, its staged curation | run_turn (new or resumed), reject, discard_pending | what is written before and after the model calls; which failure keeps the question | an answer is shown only when it is durable; a rejected turn undoes exactly what it did |
| **Raw archive** `memory/archive.py` | records in segment files | append, append_pending_user, append_complete_turn, discard_pending_tail, clear | rollover, torn tails, appending behind a half-published turn | whole turns in order, one open question at most |
| **Long-term store** `memory/long_term.py` | main file, last-valid copy, hash of the last load | initialize, load, commit, publish_target, clear, reset | two replacements that are not atomic together; hand edits between sessions | every source exists; the frontier only moves with curation |
| **Curation** `memory/curation.py` | none: a function of archive and document | next_batch, propose, commit, curate_if_needed | batch boundaries; a document staged over an await | a batch is whole answered turns; the document never runs ahead of the archive |
| **Application and CLI** `application.py`, `cli.py` | writer lease, config snapshot | build_application, chat start-up (discard or resume the pending tail), reload, exit codes | the order load, recover, settle the tail | a start converges, whatever the last process left |
| **Runtime shell** `runtime/shell.py` | session state, stop event and reason, worker error | run, request_stop, request_abort, handlers, status_snapshot | stop, abort and EOF race with the turn that runs; cleanup in `finally` | one item at a time, right exit code, nothing outlives the writer lease |
| **Pipeline** `runtime/pipeline.py` | queue, sequence, current item, stopping | submit, run, stop | drain against a worker that takes the next item | FIFO, at most once, nothing begins after the drain |
| **Background executor** `runtime/executor.py` | queue, task records | submit, run, stop | failures, tasks submitted while stopping | tasks run one by one, a failure does not stop the next |
| **Input sources** `runtime/input_reader.py`, `tty_input.py` | undecoded bytes, buffer, finished texts, pause flag, terminal mode | read_line, pause, resume, close | chunks that split escapes and characters; who reads from the terminal; where the cursor is after a wrap | texts are what the keys mean, once and in order; the screen shows the buffer |
| **Model call gateway** `model_calls/` | call ids used, next numbers, the payload being sent | complete | retry and approval per attempt; ids that outlive turns and reloads | nothing is sent that was not approved; requests are numbered without a gap; a call belongs to one turn |
| **Provider** `providers/deepseek.py` | none | prepare, materialize, send_once | - | wire format |
| **Tools** `tools/` | registry, serial lock | execute (prepare, execute, commit, rollback) | timeout and cancellation in the middle of a write | a write is committed or rolled back |
| **Configuration** `config/`, `application.py` reload | the snapshot, the objects built from it, whether a reload is due | load_config, _reload_config | edits between the readings of a load; files that load and cannot be built | a turn runs on one revision, the newest that is whole |
| **Autonomous loop** `runtime/loops.py` | checkpoint | run (no caller yet) | crash between turn and checkpoint | budgets are never exceeded |
| **Prompt assembly, selection, temporal** `prompting/`, `memory/selection.py`, `temporal.py` | none | assemble, select, annotate_history | budgets, segmentation by time | coverage has no gap, nothing is selected twice |
| **Memory reset** `memory/reset.py` | none | reset all, reset long-term | interruption, an unsettled journal | an interrupted reset leaves a directory that loads |
| **Incidents, credentials, permissions** `security/` | incident file | open, acknowledge, check | - | an open incident blocks model calls |
| **Debugger** `debug/` | the payload shown | decide, clear | it takes the terminal from the reader | what is approved is what is sent; the terminal is given back |
| **State resolver** `states/` | none | resolve | - | - |

How they interact. `cli.py chat` takes the writer lease, `build_application` loads the document and calls
`TurnUnitOfWork.recover`, the CLI discards or resumes a pending question, then `RuntimeShell.run` owns an
asyncio loop until it stops. The shell's reader submits actions to the pipeline; its only worker calls
`run_turn`, which writes the journal, asks the curator and the chat model through the gateway, and publishes
by `TurnUnitOfWork.commit`, which calls the archive and the store. Everything durable happens inside one
turn of one worker; what is concurrent is the event loop around it, the person at the terminal, who also
edits the files of the memory and of the configuration, and the commands that run beside the chat.

The specifications are cut where few facts cross. `RuntimeShell` and `TurnTransaction` meet in two: a turn
is one pipeline item, and the process may die at any moment. `LongTermStore` keeps of a turn what touches
the document's two files; `ModelTurn` keeps of the memory how many turns are answered and curated;
`InputSession` keeps of the worker that it shows a screen and prints.

## 2. Modules

| Module | Models | Kind |
|---|---|---|
| `ChatRecords` | records, documents, and the lookups both sides below use | data and operators |
| `ChatHistory` | what the memory directory promises: a history of whole turns without crashes | abstract specification |
| `TurnTransaction` | one chat process and its memory directory, with crashes and restarts | specification, implements `ChatHistory` |
| `MemoryVersions` | what the long-term memory promises: one chain of versions beside an archive that grows | abstract specification |
| `RuntimeShell` | the chat session's tasks on one event loop | specification |
| `LongTermStore` | the two files of the document under a chat, an editor, a reset and a check, read and written file by file | specification, implements `MemoryVersions` |
| `ModelCalls` | the gateway: identities, attempts, approval, sending, retry | component of `ModelTurn` |
| `ToolExecution` | the tool executor: deadlines, commit, rollback, cancellation | component of `ModelTurn` |
| `ModelTurn` | `run_turn`'s calls and tool rounds over the two, in sessions that reload the configuration | specification, composes `ModelCalls` and `ToolExecution` |
| `LineEditor` | the terminal line editor as functions from bytes to buffer, texts and screen | operators |
| `InputSession` | person, terminal, reader, approval screen and end of the session around it | specification, uses `LineEditor` |
| `TurnTransactionProofs` | lemmas about the operators of `ChatRecords`, invariants of `TurnTransaction`, and that it implements `ChatHistory` | proofs |
| `LongTermStoreProofs` | invariants and action properties of `LongTermStore` | proofs |
| `MemoryVersionsProofs` | `LongTermStore` implements `MemoryVersions` | proofs |
| `RuntimeShellProofs` | invariants and an action property of `RuntimeShell` | proofs |
| `ModelTurnProofs` | invariants and action properties of `ModelTurn` with its two components | proofs |
| `SequenceFolds` | folds over sequences with any step, and induction over numbers and sequences | lemmas |
| `LineEditorProofs` | what the operators of `LineEditor` do to the screen, the buffer and the inputs, and that chunks do not matter | proofs |
| `InputSessionProofs` | invariants of `InputSession`: types, texts, screen, terminal; that no wake-up of the reader is lost | proofs |

The specifications are their own model-checking modules: their parameters are constants and the `.cfg`
files give the values. Operators marked "Mutant" in a comment are not part of a specification. Each is a
plausible mistake in the operation next to it; putting it in the operation's place makes the property named
for it in `PROJECT.json` fail.

## 3. The modules and the code

### TurnTransaction

One action is one durable effect of the code (an `atomic_write` or an `unlink`) or one decision. Between
any two of them the process may crash.

| Variable | Code |
|---|---|
| `raw` | the archive's records in `global_sequence` order. A record is its turn and role: ids and hashes are fresh per turn, so equal content and equal identity are the same thing |
| `journal` | `.state/turn-transaction.json`. `base` and `baseDoc` stand for the two baseline hashes |
| `doc`, `lastValid` | `long_term.yaml` and its last-valid copy: revision, frontier, and the turns cited. The coverage spans partition `1..frontier`, so the frontier stands for them |
| `pc`, `turn`, `resumed`, `staged` | where the process is, `run_turn`'s locals |
| `shown` | turns whose answer went to `on_output` |
| `nextTurn`, `crashes` | fresh turn ids; the bound on crashes |

| Action | Code |
|---|---|
| `Start`, `StartRefused` | `build_application`: `LongTermStore.load` accepts and refreshes the copy, or raises |
| `RecoverNothing`, `RecoverPrepared`, `RecoverDecided` | `TurnUnitOfWork.recover` |
| `BootClean`, `BootDiscard`, `BootResume` | `cli.py` 248-268: the pending tail |
| `BeginTurn` | `run_turn` 203-233, `begin` |
| `SkipCuration`, `StageCuration`, `CurateNow` | `CurationPolicy.next_batch` in closed form; `propose` for a new turn, `curate_if_needed` for a resumed one |
| `Answer`, `AnswerResumed`, `FailRetryable`, `FailHard`, `Reject` | the outcomes `run_turn` distinguishes after the model calls and tools |
| `PublishUser`, `PublishAssistant`, `PublishTarget`, `RefreshLastValid`, `Unlink`, `CommitFails` | `TurnUnitOfWork.commit`, from a turn or from recovery; each step decides from the disk what is missing, as the code does |
| `ShowAnswer`, `Exit`, `Crash` | `on_output`, the end of the shell, power loss |

The merge of the curator's reply (`_merge_document`) may add any subset of the batch's turns as sources and
never drops an item. Record sizes are "fits" or "large" (over `max_record_bytes`). `Init` is the directory
after the first `initialize()`. In this module nobody edits files by hand, so `load` takes its hand-edit
branch only for the pairs a crash leaves (section 6); `LongTermStore` has the edits.

`ChatHistory` is the promise: a turn is answered in one step together with the document staged for it, or
leaves one question behind, which is later answered or dropped; an answer is shown only when the history has
it. The refinement mapping reads the directory as recovery will leave it: from the moment a READY journal is
written, `DecidedLog` and `DecidedDoc` are what the journal decides, whatever part of it is published. All
crashes, restarts and publication steps then stutter.

### LongTermStore

`TurnTransaction` replaces the main file and its copy in two steps; here every *read* is a step too, and five
actors share the files: the chat, `memory reset`, the commands without the lease, a person with an editor, and
crashes. `load` and `commit` are written once, for any process `p`: `at[p]` is where the process is in them,
`job[p]` what the call is for, `doc[p]` the document it holds.

| Variable | Code |
|---|---|
| `main`, `copy` | `long_term.yaml`, `.state/long_term.last-valid.yaml`: revision, coverage, memories with source and creator; or `Broken` |
| `raw`, `pending`, `journal` | the archive's answered turns, the open question, a READY_TO_COMMIT journal |
| `loadedHash`, `readOnly` | the fields of `LongTermStore`, one object per process |
| `base`, `target`, `turn`, `resumed` | `run_turn`'s checkpoint, its staged document, its turn |
| `curated`, `forgotten`, `restarted`, `orphans`, `whole` | history (`orphans`: the questions cut off around the gate), and what a broken file held |

| Action | Code |
|---|---|
| `ReadMain`, `Fallback`, `CompareSame`, `CompareEdited`, `CompareRefused` | `load`: parse, serve the copy, or tell whose the difference is |
| `CheckWrite`, `WriteRefused`, `ReplaceMain`, `RefreshCopy` | `commit`: read-only, sources, hash; the two replacements |
| `StartChat` ... `ExitChat` | `build_application`, `recover`, `run_turn` with its four loads, `publish_target` |
| `BootSettles`, `BootResumes` | the pending tail at the start: there is none, or it is resumed |
| `PassGate`, `GateRefuses`, `CutTail` | `discard_pending`, at the start or of a resumed turn that is rejected: `assert_pending_discardable` reads the main file (`doc["chat"]` keeps what it read), then `discard_pending_tail` cuts |
| `Reject` | the rejection of a new turn: `uow.discard`, no question in the archive |
| `StartReset` ... `EndWiped` | `MemoryResetService.reset`, both scopes; `UnlinkSegment` leaves any prefix of the archive |
| `StartCheck`, `EndCheck` | `memory validate`, `memory source`, `doctor` |
| `AddMemory`, `RemoveMemory`, `BreakFile`, `RepairFile` | a person saves the file; a memory may cite any record, the open question included |

Assumed of the person: the editor saves what it has just read, and nobody edits while a reset runs. Left out:
comments and layout, size limits, a deleted file (`initialize` makes it again), and the undecided journals
(`TurnTransaction`'s matter). A proposal is what `_merge_document` can return: the document with memories of
some of the batch's turns added, but of none that already has one (their aliases are the batch's only, and
repeated texts are skipped).

`MemoryVersions` is the promise: `served` is the document a load returns, and each is made of the one before
it by one accepted edit (`Edited`) or by one curation of the next turns (`Curated`), cites only what the
archive holds when it is served, and takes the next revision. Beside it the archive gets an open question
(`Ask`), which is answered (`Record`) or dropped (`Drop`); what was served may go on citing a dropped one.
The refinement mapping reads `log` and `open` off the archive, and `served` off the last-valid copy, which is
what `load` leaves behind in every case; the main file, the editor, the journal's document and the crashes
between the two replacements are invisible. The chain ends at a `reset all`, after which a journal it left behind may
bring an old document back (section 6); what is promised from then on is only that citations hold.

### RuntimeShell

Python tasks interleave only where they await, and the loop resumes them in the order their wake-ups were
scheduled. `ready` is that order; the task at its head runs until its next await. A step that takes several
actions keeps its task at the head (`InStep`), and nothing else happens in between. Signals, readable input,
model answers, and submissions by other code come between steps (`Between`): they are loop callbacks.

| Variable | Code |
|---|---|
| `pc` | the await each task is at: `main` is `RuntimeShell.run`, `worker` is `ProcessingPipeline.run`, `executor` is `BackgroundExecutor.run`, `watcher` is `_watch_worker`, `reader` is `_read_source` |
| `cancelled` | tasks with a pending `CancelledError` |
| `queue`, `submitted`, `stopping`, `current` | the pipeline: its queue of sequence numbers, the kinds of all items, `_stopping`, `_current_item_id` |
| `started` | the items whose handling began (history) |
| `session`, `stopEvent`, `reason`, `outcome` | `_session_state`, `_stop_event`, `_stop_reason`, how the worker ended (`_worker_error`) |
| `tasks`, `taskQueue` | the executor's records and queue |
| `source`, `sigints`, `sigterms`, `exitCode` | the environment and the result |

The actions are named after the task that takes them. `MainStops`, `MainStopsQueues`, `MainJoins` are the
`finally` block of `run` cut at its awaits; `MainRaises` and `MainCloses` are the way out when awaiting the
reader raises and `asyncio.run` cancels what is left. A turn is what the pipeline sees: it suspends
(`WorkerSuspends`; several awaits in a row are one), ends, raises, or is interrupted from the debugger. A
pipe gives one action, at its end, as `InputReader.run` does; a terminal gives one or two per chunk.

### ModelCalls, ToolExecution, ModelTurn

`ModelTurn` extends the other two; a step of the turn is a step of the gateway, of the executor, or of
`run_turn`. There is one of each, for the code's callers never overlap.

| Variable | Code |
|---|---|
| `seen`, `nextSeq` | `CallIdentityAllocator`: shared by the gateways of chat and curator, handed on when the configuration is reloaded |
| `call`, `gate`, `sender`, `screen`, `reply` | the call in `_complete_assigned`, where it is, `sender_payload`, what the presenter holds, what the caller will get |
| `tool`, `step`, `wrote`, `shielded`, `effect`, `result` | `_execute`'s locals; the effect a write tool has outside the program |
| `phase`, `turn`, `resumed`, `round`, `batch`, `seenCalls`, `events` | `run_turn`'s locals |
| `disk`, `parsed`, `snapshot`, `built`, `required` | the configuration directory, `load_config` between its readings, `AgentApplication.snapshot`, the objects built from one, `_config_reload_required` |
| `pending`, `answered`, `curated`, `staged` | what the turn knows of the memory |

| Action | Code |
|---|---|
| `BeginCall`, `Prepared`, `Blocked`, `Approve`, `NotApproved`, `Send`, `Respond`, `FailAgain`, `FailForGood`, `Retry` | `assign`, the attempt in its order: prepare, guard, show, send, backoff |
| `Resolve`, `PrepareDone`, `ExecuteWrites`, `ExecuteSucceeds`, `Fail`, `CommitDone`, `RecoverDone`, `RecoverFails` | `_execute` and `recover_write`; a tool may have written at any moment of `execute` |
| `CancelCall`, `CancelRunning`, `CancelRevert`, `CancelRecovery` | `CancelledError` at an await: the recovery it starts is shielded, one it meets is not. Met inside the `try` (`executor.py:104`, `:110`) it starts a second, shielded recovery; met outside (`:127`, `:133`, `:145`) it ends the call |
| `StartProcess`, `Boot`, `BeginTurn`, `ReloadConfig` | `load_config` in two steps: it parses the files, and computes the revision from a second reading; then all is built and published, or nothing |
| `AskCurator`, `Curated`, `CuratorErrs`, `AskChat`, `Answer`, `ModelWantsTools`, `RunCall`, `TakeResult`, `Continue`, `RoundLimit`, `DuplicateCall`, `Rejected`, `CallFailed` | `run_turn` and the curation it starts |

A configuration is a name: good, one that `load_config` refuses, one it accepts and the build refuses with a
`BaiError` (any other exception of the build would end the process). Ids of calls are what identifies them:
the curator's is its batch (the code hashes it), the chat's is fresh. Only the read-only
`memory_source_query` is registered today; the write tools are what `ToolRegistry.register` accepts.

### LineEditor, InputSession

`LineEditor` is what `TtyLineEditor` does with bytes, as functions: `Feed(ed, chunk)` decodes as far as
complete characters and sequences reach, and handles each. Next to the buffer it draws the screen, with a
terminal that wraps late and does not split wide characters, exactly where the code writes to it
(`_echo`, `_redraw_current_line`).

`InputSession` has the tasks: `PressKey` puts a key's bytes into the kernel's buffer; `ReadChunk` is
`_on_readable` with any number of them, and one `ConsumeNext` of the fold `Drain` per character or sequence;
`ReaderTakes`, `ReaderWaits`, `ReaderWakes` are `read_line` called by `InputReader.run`, cut at its awaits;
`ApprovalBegins` and `ApprovalEnds` are `decide` with `pause` and `resume`; `ApprovalReads` is Textual's
driver; `Stop` and `Close` are the end. `meant` is what the keys mean to the person who presses them, computed
key by key; it never sees a byte.

Bytes are abstract: "w","c" encode the wide character, "m" a combining one, the parameters of a CSI sequence
are one byte, and of the bytes from `@` to `~` that may end one, three are used (the two with a meaning and
one of an ignored key). The keys are those of a terminal with bracketed paste and the kitty protocol switched on.

## 4. Runs and bounds

| Run | Shows | Bounds |
|---|---|---|
| `turn_safety` | the invariants of the directory, that answered turns are final, `ImplementsHistory`, and that a decided turn is published in the end | five turns, two crashes, both record sizes, a curator that learns; direct limit 2 records, batches of 2 to 5 |
| `store_edits` | the two files under edits, resets and crashes between any two reads and writes, and `ImplementsVersions` | two turns, two edits, two resets, two crashes; checks run when the lease is free |
| `shell_stops` | order, exclusion, exit codes, the end of every task, liveness of stop and abort | three items and background tasks together, two Ctrl+C, one SIGTERM |
| `calls_turn` | approval, numbering, one revision, tool calls and their settlement, and that turns end | two turns, two attempts, two rounds of up to two tool calls, two edits of the configuration, two cancellations |
| `input_lines` | texts, screen, ownership of the terminal, and that what is typed is read | three keys of eleven, two columns, one approval screen, one printed answer |
| `turn_oversize`, `turn_crash_load`, `turn_resume_curates`, `shell_piped`, `store_reset`, `store_check`, `calls_reject` | the disagreements of section 6 | the smallest that reach them |

*Why the bounds are enough.*

- **turn_safety**: curation first falls due with more than two uncurated records, at the second answered
  turn; three turns let a batch be staged, published and cited, and five let a second batch be made behind
  the first with a pending question in between. `MaxBatch = 5` is odd, so the cut to whole turns acts. Two
  crashes reach a crash during the recovery from a crash; a third starts from a disk the second could leave.
- **shell_stops**: three items are the one being handled, the one the worker takes next, and one in the queue
  at the drain. `MaxWork` counts items and background tasks together, so every mixture of three is reached.
  A third Ctrl+C repeats the second, a second SIGTERM the first.
- **store_edits**: two turns give a document that covers one turn while the other is being decided; two
  edits are a break and its repair, or an edit on top of one that is being accepted; two resets and two
  crashes are a reset that is interrupted and one that starts from what it left. The checks are run as their
  documentation describes, with the lease free; `store_check` runs them beside a writer.
- **calls_turn**: one earlier turn makes a batch due in the first turn, so the curator's call, the chat call
  and the next turn's calls follow each other; two attempts are a retry and the last attempt; two tool ids
  over two rounds let the second round repeat an id of the first or run out of rounds; two edits break a
  configuration and repair it, or replace it twice within one load.
- **input_lines**: three keys on two columns fill a row, overflow it and delete, with a wide character that
  does not fit and a combining one on a full row; a chunk may end at any byte of two keys' sequences.

## 5. Fairness, deadlock, properties

*Fairness.* `TurnTransaction`: weak fairness of the start, of recovery, of the choice over the pending tail
and of the steps of `commit`. Commit and recovery have no await; each step is taken once it is possible
unless the process dies. `Start` fair means that somebody starts the program again. Nothing is assumed of
models or people. `RuntimeShell`: weak fairness of the loop (`Step`: what is ready runs) and of background
tasks' ends (`TaskIsOver`). Without the second the second Ctrl+C does not end the process, since `run`
awaits the executor and the executor cancels nothing (`runtime/executor.py:1`). `StopEnds` states its own
assumption on turns: they do not run for ever. `ModelTurn`: weak fairness of the turn's steps while it does
not wait for the person who approves or for a hook (`prepare`, `commit`, `rollback`, `compensate`) of a tool,
which the code runs without a deadline; requests to the model have the SDK's, tools `asyncio.wait_for`'s.
`InputSession`: weak fairness of the reader's task, which the event loop resumes when it is ready; it is
written out with `ReaderReady` and `ReaderSteps` so that TLC need not decode bytes to evaluate it.

*Deadlock* is checked where the process can always go on: in `TurnTransaction` it can be started again (a
refused start is a step that changes nothing), and `RuntimeShell` ends in `exited`, where `Gone` stutters, so
any other stuck state is an error. `ModelTurn` and `InputSession` really stop, when the turns or keys of the
bounds are used up and the session is over; their runs say so.

*Properties of `TurnTransaction`.* `RawWellFormed`, `PreparedTouchesNothing`, `NoConflict`,
`SettledBetweenTurns`, `ShownIsDurable`, `SourcesPublished`, `AnsweredTurnsAreFinal`, `ImplementsHistory`,
`PublishableConverges` (a decided turn whose records fit is published in the end).

*Properties of `RuntimeShell`.* `HandledInOrder` (at most once, in submission order), `SnapshotIsValid`
(":status" never fails `RuntimeStatus` validation), `EndsStopping`, `LeaseOutlivesWork`, `InterruptIs130`,
`TasksAreFinished`, `PipedActionIsHandled`, `NothingBeginsAfterDrain`, `AbortEnds`, `StopEnds`.
`PipedActionIsHandled` is a close call in the code: the reader queues the action and sets the stop event in
one step, and only because the worker's wake-up was scheduled first does the worker take the action before
`run` drops the queue. Swapping the two wake-ups breaks it.

*Properties of `LongTermStore`.* `SourcesExist` (no dangling source in either file, whatever was
interrupted, and no question given up that a memory cites), `AutoIsFromCurator` (an accepted edit is manual
whatever it says), `EditsSurvive` (no saved edit is overwritten unread), `ResetAllEmpties`, and `ImplementsVersions`, which contains that a revision names
one document until a reset of all. `SourcesExist` excepts a question that was cut off around the gate, which
reads the main file only and before the cut: the copy still cited it (section 6), or a person saved the
main file between the two steps. `EditsSurvive` has two exceptions: a save between commit's hash check and its
replacement, which the code cannot avoid, and, once a `reset all` has emptied the document, what a journal
publishes. It is the journal the reset left behind that needs the second; the exception takes in every journal
after the reset, for the model does not tell them apart.

*Properties of `ModelTurn`.* `SendsAreApproved`, `SendsAreNumbered`, `OneTurnPerCall`, `OneRevision`,
`CallsAreAnswered`, `WriteIsSettled`, `TurnEnds`. `OneRevision` holds because `_reload_config` builds
everything before it publishes anything and remembers that a load failed; publishing first breaks it.

*Properties of `InputSession`.* `KeysMeanText`, `ScreenIsBuffer`, `TerminalOwner`, `TypedIsRead`.
`ScreenIsBuffer` is why `_line_layout` simulates the terminal: dividing the width of the text by the width of
the terminal is wrong as soon as a wide character is moved to the next row.

## 6. What the code does not keep

Seven runs check a sentence of the repository and find it violated. `PROJECT.json` quotes the sentences.

- **`turn_crash_load`**: `LongTermStore.commit` replaces `long_term.yaml`, then refreshes the last-valid
  copy. A crash in between leaves memories and a frontier that both differ from the copy, which `load`
  takes for a forbidden hand edit and refuses; the chat does not start although the main file is complete.
- **`turn_oversize`**: a record over `max_record_bytes` is refused only when a decided turn is published.
  The journal stays READY and every start fails the same way.
- **`turn_resume_curates`**: a resumed turn curates at once, before the chat model is asked, although it may
  still be rejected.
- **`shell_piped`**: with `--resume-pending` and a pipe, the end of input requests the stop while the
  resumed turn runs; the drain drops the piped action and the process ends with 0. The same happens to lines
  typed before Ctrl+D while a turn runs.
- **`store_reset`**: after a crash with a decided journal, `memory reset all` empties the document and the
  archive and leaves the journal; the next start publishes the turn again, or refuses to start. A reset that
  was interrupted before it touched the archive lets the start publish the journal's document over the
  emptied one, and with it memories the reset had removed; that is why `EditsSurvive` and
  `ImplementsVersions` stop at a `reset all`.
- **`store_check`**: `memory validate`, `memory source` and `doctor` write: their `load` accepts a hand edit,
  or refreshes the copy with a document a writer has just replaced. The files then name records that are
  gone: those a reset removed, or a question that the edit cites and the chat discards meanwhile.
- **`calls_reject`**: the curator's call id is its batch, and ids are never forgotten: after a rejection the
  next turn asks for the same batch, is refused with MODEL_CALL_IDENTITY_INVALID and ends the process.

Observations without a run, met while modelling:

- `assert_pending_discardable` (`memory/long_term.py:287`) reads `long_term.yaml` and not its last-valid copy. A
  hand edit cites the open question, `--resume-pending` loads it into the copy, the memory is removed again
  while the model is asked, and the turn is rejected: the gate passes, the question is cut off, and the copy
  names a record that is gone. Every later `load` parses the copy and raises SOURCE_RECORD_MISSING, until a
  `reset all`; `turn-transaction.md:110` allows the cut only when no memory cites the record.
  `LongTermStore` has the case; `SourcesExist` excepts it.
- After the first Ctrl+C the worker may still take the next queued item before `run` is resumed and drains
  the queue; "the current turn" is then that item.
- `load_config` parses the files (`config/loader.py:115`) and computes the revision from a second reading
  (`:253`). An edit saved between the two publishes the old settings under the new revision; later reloads
  see that revision and return, so the edit takes effect only after another one. `ModelTurn` has the case;
  `OneRevision` excepts it.
- With a broken main file a turn still stages a curation; its publication is refused as read only, and the
  decided journal blocks every start until the file is repaired. A hand edit during a turn that curates makes
  its decided journal a conflict for good.
- A hand edit of the frontier is accepted when the memories are unchanged.
- A cancellation that meets a rollback which is not shielded (`tools/executor.py:127`, `:133`, `:145`) cuts
  it; `WriteIsSettled` calls this "torn". One that meets a recovery inside the `try` (`:104`, `:110`) cuts it
  too, but a second, shielded one follows. The presenter keeps its payload when its call is cancelled.
- Keys typed ahead are read by the approval screen; an answer printed into a line being typed is erased by
  the redraw of a later backspace; a lone Escape takes the next key with it.

## 7. What is proved

Checked by TLAPS to the last leaf, for every value of the constants the named assumptions allow. An inductive
invariant that is not obviously right was first given to TLC as an invariant of the component's run.

### The turn transaction

For any number of turns and crashes, any settings with `ReservedRecords < MaxRecords` and
`0 < MinBatch <= MaxBatch`, any set of record sizes and any curator replies (`ConstantsAssumption`,
`TurnAssumption`):

| Theorem | States |
|---|---|
| `TypeCorrect` | `Spec => []TypeOK` |
| `BetweenTurnsSettled` | no journal survives a turn: TURN_TRANSACTION_ACTIVE is never raised |
| `RawIsWellFormed` | whole turns, in order, no duplicate, one open question at most |
| `PreparedIsClean` | an undecided turn has changed neither archive nor document |
| `CommitMeetsNoConflict` | TURN_TRANSACTION_CONFLICT is never raised while only this process writes |
| `ShownAnswersAreDurable` | what the user has read stays on disk |
| `SourcesArePublished` | no dangling sources, no frontier past the answered turns |
| `AnsweredTurnsStay` | the action property `AnsweredTurnsAreFinal` |
| `ImplementsChatHistory` | `Spec => ImplementsHistory` |

*The argument.* None of these invariants is inductive alone. `TypeInv` is `TypeOK` and `PhaseInv`, which
says which journal each phase goes with: `run_turn` calls `pending`, `ready` and `discard` without looking,
and `PhaseInv` is why it may. `DiskInv` then describes the disk in every phase:

- `BaseInv`: the journal's turn is younger than the archive it began with, and its target cites only
  records that were there already;
- `ProgressInv`: what is published of a journal is a prefix of what it decided: nothing before the decision,
  then USER, then ASSISTANT, and the document last;
- `LogInv`: the archive is well-formed and older than the next turn id;
- `DocInv`: both copies of the document are supported by the archive;
- `TailInv`: where a pending tail may be, so cutting it off hurts no document;
- `ShownIsDurable`.

`DiskStep` proves it action by action. For a crash the point is that `ProgressInv` does not mention the
process: `PublicationProgress` reads from the disk alone how far a publication got, and so recovery continues
where the last process stopped. `CommitMeetsNoConflict` is a corollary. For the refinement, `StagedInv` adds
that a staged document still fits the archive and the document it was made from when the turn is decided
(it was staged before a model call); `HistoryStep` then maps every action: `Answer` to `AnswerNew`,
`FailRetryable` to `LeavePending`, `AnswerResumed` to `AnswerPending`, `BootDiscard` and the rejection of a
resumed turn to `DropPending`, `CurateNow` to `CurateBeforePending`, `ShowAnswer` to `Show`, all others to a
stutter.

### The long-term store

For any numbers of turns, edits, resets and crashes (`StoreAssumption`, `SentinelAssumption`):

| Theorem | States | With `CheckAnytime` |
|---|---|---|
| `TypesAreKept` | `TypeOK` | either |
| `AutoWasCurated` | `AutoIsFromCurator` | either |
| `FilesNameTheArchive` | `SourcesExist` | `FALSE` |
| `ResetsEmpty` | `ResetAllEmpties` | `FALSE` |
| `RevisionsGrow` | a revision names one document until a reset of all | `FALSE` |
| `EditsAreKept` | `EditsSurvive` | `FALSE` |
| `ImplementsMemoryVersions` | `ImplementsVersions` | `FALSE` |

`~CheckAnytime` is a hypothesis of the theorems that have it, not an assumption of the module. It says that
`memory validate`, `memory source` and `doctor` run while no chat and no reset does, which their documentation
says and the code does not enforce: `store_check` shows `SourcesExist` violated without it.

*The argument.* A step belongs to the person or to one process, and is a step of that process's store object
or one that only begins or ends its calls; `Outside`, `FilesFrame`, `PersonFrame`, `ArchiveFrame` and
`TurnsFrame` say once what a step of each kind can touch, so each invariant is proved on the few steps that
can break it. The invariants build on each other:

- `OneInv`: one process at a time. Every later one uses it: what a process has read of the archive and of the
  documents stays as it is until it writes.
- `EmptiedInv`: a `reset all` reaches the archive only behind two empty files, and its own commit cannot be
  refused; `ResetAllEmpties` needs the second.
- `FreshInv`, `NoteInv`, `DoneInv`: turns are in the archive once; a turn's notes are its own; what a load
  returned is what the copy holds.
- `OpenInv`: whose the open question is. A resumed turn's is its own, a new turn has none, and between gate and
  cut no source of the document the gate has read is the question.
- `SourceInv`: what is on its way into a file is supported by the archive and its open question
  (`SourcesAreValid`); a check of the sources when the document was read is enough only because of `OneInv`.
  What is in a file is supported by these or by a question cut off around the gate (`Known`). By `KnownStays`
  that survives every step but the deletion of segments, which finds both files empty (`EmptiedInv`), and a cut
  of what the gate should have seen: there the main file is the one the gate read, and `OpenInv` says what it
  does not cite, or the question is one of the excepted.
- `GrowInv`: the main file is level with the copy or later, and what is on its way into the files is later
  than the copy. That a person leaves the revision number alone is what makes "level" decide whose the
  difference is.
- `WriteInv`: what is about to be written over the main file was made from what was read there (`Keeps`), and
  a staged document keeps its memories *or* the copy has moved on, in which case the hash refuses it.
- `VersionInv`, for the refinement: the main file is level with the copy or exactly one version ahead of it,
  and a document on its way is the version after the copy. `RefreshCopy` is then the step that serves it;
  `ServedIsValid` (of `SourceInv`) gives its citations. By `QuestionsComeAndGo` every other change of the
  archive is `Ask`, `Drop` or `Record`; the rest stutters until a `reset all`, after which `ServedIsValid` is
  what is left.

### The runtime shell

For any number of items and background tasks (`BoundsAssumption`, `SentinelAssumption`): `TypesAreKept`,
`ItemsAreInOrder` (`HandledInOrder`), `DrainIsFinal` (`NothingBeginsAfterDrain`), `SnapshotsAreValid`
(`SnapshotIsValid`), `EndsAreStopping` (`EndsStopping`), `InterruptsAre130` (`InterruptIs130`), `TasksFinish`
(`TasksAreFinished`), `NothingOutlivesTheLease` (`LeaseOutlivesWork`) and `PipedActions`
(`PipedActionIsHandled`).

*The argument.* `LoopInv` ties the scheduler to the tasks: `ready` has no repetitions, a task that has ended is
never scheduled, `run` is scheduled only if what it awaits is there, and a task inside a step is the one at the
head. `StopInv` says how far the session has stopped in each phase of `run`. The rest follow component by
component: `PipeInv` (what was begun is a prefix of what was submitted and the queue is the rest, until the
drain), `SessionInv`, `ReasonInv`, `TaskInv` (the tasks still waiting are the youngest, in the queue's order).
`PipedInv` is the close call of section 5 as an invariant: while the pipe's action waits to be handled, the
worker stands before `run` in `ready`, and every step between keeps it there.

### The model turn

For any numbers of turns, retries, tool rounds and records, any configurations and any kinds of tools
(`CallAssumption`, `TurnAssumption`): `TypesAreKept`, `WritesAreSettled` (`WriteIsSettled`), `CallsHaveOneTurn`
(`OneTurnPerCall`), `ApprovedSends` (`SendsAreApproved`), `TurnsHaveOneRevision` (`OneRevision`), `SendsFollow`
(`SendsAreNumbered`) and `ToolCallsAreAnswered` (`CallsAreAnswered`).

*The argument.* `ModeInv` is why one set of variables for the gateway and one for the executor is enough: they
are never at work at once, and not outside a turn. `ToolInv` gives each step of `_execute` how far the write is;
`OwnerInv` and `ApprovalInv` follow a call from `assign` to the request; `SnapshotInv` says that no reload ends
while a call is made or after a turn has sent anything. `NumberInv` is the strengthening of `SendsAreNumbered`:
between two calls the allocator stands one past what was sent last, and a turn id is new for the first request
of a turn. `EventsInv` describes `tool_events` as responses followed by their results as far as they go, the
rest being the batch still to run; `CallsAreAnswered` is its case of an empty batch.

### The line editor

For any editor whose parts have their types and whose screen shows its buffer (`Editors`), and any bytes:

| Theorem | States |
|---|---|
| `ChunksDoNotMatter` | `Feed(e, s \o t) = Feed(Feed(e, s), t)` if every CSI sequence in the bytes that ends does so before `_consume_escape` gives it up (`MaxSequence`, counted in the bytes of `LineEditor`, where parameters are one) |

*Induction.* The library's induction theorems take a predicate as a parameter, which the provers cannot
instantiate. `SequenceFolds` has the set of what satisfies the predicate instead: `SetInduction`, from the
well-foundedness of `<`, then `StrongInduction` and `SequenceInduction`. A fold is a recursive function somebody
has to show exists: `IterExists` and `IterUnique` do so for every length, and from them come the laws that are
cited (`FoldedEmpty`, `FoldedAppend`, `FoldedConcat`, `FoldedFront`, `FoldedIn`). The operator folded is a
constant of the module; `LineEditorProofs` instantiates it for the screen, the graphemes, the layout and the
decoder.

*The screen.* `PutCharMoves`: a character touches nothing above the cursor's row. `LineOnScreen`: after any
line, typed from the start of a row, the cursor is `LineLayout(line)` away from there, as many rows as
`_redraw_current_line` goes up; this is where a wide character moved to the next row and a combining one on a
full row come in. `EraseLine`: going up and erasing gives the screen before the line. `RedrawLine` puts the
three together, and `BackspaceIn` has the two cases, a grapheme of the line and the line break before it.

*The bytes.* `HandledFramed`: what a unit does to the editor depends neither on the bytes that wait behind it
nor on the inputs finished before it. `DrainUnfolds` says what the fold over as many steps as there are bytes
computes: the first unit, if it is there, and then the same for the rest; the steps left over find no unit.
`StableReady`: a unit that is complete stays the same when more bytes come; this needs the sequences to end in
time, which is the theorem's hypothesis. `ChunksDoNotMatter` follows by strong induction over the number of
bytes.

### The input session

For any keys of the table `KeyBytes` (`KeysAssumption`), any width of at least two columns (`WidthAssumption`)
and any numbers of keys, screens and answers:

| Theorem | States |
|---|---|
| `TypesAreKept` | `TypeOK` |
| `KeysAreTexts` | `KeysMeanText` |
| `ScreenShowsBuffer` | `ScreenIsBuffer` |
| `TerminalHasOneOwner` | `TerminalOwner` |
| `NoWakeUpIsLost` | a reader that waits to be resumed has somebody who will resume it, and one that waits for bytes holds back no finished input |

*The argument.* `OwnerInv` relates `paused`, the terminal's mode, `close`, and where the reader is; the last two
follow from it. `TypeInv` says that the editor is one of `Editors`, which is `ScreenIsBuffer`, and that it holds
back no complete unit. `KeysMeanText` compares two computations of the same keys and is not inductive:
`TextInv` says that all bytes not yet read, together with the one unit that may have been read in part, are bytes
of whole keys (`Whole`), and that an editor fed with them *now* would agree with the meaning (`Agree`).
Reading a chunk keeps that by `ChunksDoNotMatter`; pressing a key by `ChunksDoNotMatter` and `KeyMeans`, which is
the table of keys one by one; taking an input because what is finished first is handed on first (`SentFirst`) and
what comes after the end of input is not (`SentEndFirst`).

### What is only model-checked

- Liveness (`PublishableConverges`, `StopEnds`, `AbortEnds`, `TurnEnds`, `TypedIsRead`): under fairness and with
  `ENABLED` it is beyond the prover. `NoWakeUpIsLost` is the safety half of `TypedIsRead`.
- The seven violations of section 6, which are counterexamples.

## 8. What is not modelled

*In the modelled parts.* Text and bytes: prompts, token estimation, provenance pointers, YAML layout, wire
format, file modes. Counters, reload warnings, status fields other than the session state and the current
item. The fallback for loops without signal handlers. Torn files: `atomic_write` replaces a file, so a reader
sees one of two contents, and left-over temporary files are ignored by all readers. A second writer with the
lease: the lease excludes it. Segment files: where a segment ends decides only where a reset may be
interrupted, which `LongTermStore` leaves open. `StdinInputSource`: its thread and the batching of lines
without the editor; a pipe is one action at its end. The screen's scrolling and a change of its width.

*Components.*

- Autonomous loop: nothing calls it; the application never builds a runner.
- Prompt assembly, temporal annotation, memory selection: pure functions whose results are shown to the model
  and never written back; a failure of theirs is a hard failure of the turn.
- Incidents, credentials, permissions: scanning and file modes are data and I/O; that a guard may refuse a
  text is an outcome of the modelled steps. `IncidentStore` is reached by the incident commands only.
- State resolver: a constant lookup.

## 9. Plan

1. `RawArchive`: segment files and rollover, shown to implement the sequence of records.
2. Pure algorithms against reference definitions: `validate_complete_coverage` and selection,
   `annotate_history`, the batching of lines.
