-------------------------- MODULE TurnTransaction --------------------------
(***************************************************************************)
(* One chat process and its memory directory: the raw archive, the         *)
(* long-term document with its last-valid copy, and the turn journal       *)
(* .state/turn-transaction.json.                                           *)
(*                                                                         *)
(* Every action is one durable effect (an atomic_write, an unlink) or one  *)
(* decision of the code; a crash may fall between any two of them.  The    *)
(* order is that of build_application (load, recover), cli.py chat         *)
(* (discard or resume the pending tail), SingleTurnController.run_turn     *)
(* (begin, curate, model calls, ready) and TurnUnitOfWork.commit (USER,    *)
(* ASSISTANT, long-term document, unlink).                                 *)
(*                                                                         *)
(* The model calls are one step with the outcomes run_turn distinguishes.  *)
(* Hand edits of long_term.yaml, `memory reset` and a second process are   *)
(* not in this module: between the steps below only this process writes.   *)
(***************************************************************************)
EXTENDS ChatRecords, Integers

CONSTANTS
  None,             \* no journal, no staged document
  Size,             \* record sizes the users and the model may produce
  CuratorLearns,    \* whether the curator's reply may hold new memories
  MaxRecords, ReservedRecords, MinBatch, MaxBatch,  \* [short_term] settings
  MaxTurns,         \* bound: turns begun in a behaviour
  MaxCrashes        \* bound: crashes in a behaviour

VARIABLES
  raw,              \* the raw archive, in global_sequence order
  journal,          \* the turn journal or None
  doc,              \* long_term.yaml
  lastValid,        \* .state/long_term.last-valid.yaml
  pc,               \* where the process is
  turn,             \* the turn run_turn is executing, 0 when there is none
  resumed,          \* run_turn reuses a pending USER record: it has no journal
  staged,           \* curation_proposal.target_document, or None
  shown,            \* the turns whose answer was handed to on_output
  nextTurn,         \* the turn id new_id returns next
  crashes           \* crashes so far

disk == <<raw, journal, doc, lastValid>>
run  == <<turn, resumed, staged>>
vars == <<raw, journal, doc, lastValid, pc, turn, resumed, staged, shown,
          nextTurn, crashes>>

Phase == {"down", "recover", "boot", "idle", "curate", "chat", "commit",
          "refresh", "show"}

JournalState == {"PREPARED", "READY_PENDING", "READY_TO_COMMIT"}

\* assistantSize stands for the assistant record and its size: None is no record.
Journal == [state : JournalState, turn : Turn, base : Seq(Record),
            baseDoc : Document, userSize : Size,
            assistantSize : Size \cup {None}, target : Document \cup {None}]

\* validate_state_fields: only READY_TO_COMMIT holds results, and an answer.
ValidJournal(j) ==
  /\ j \in Journal
  /\ j.state = "READY_TO_COMMIT" <=> j.assistantSize # None
  /\ j.state # "READY_TO_COMMIT" => j.target = None

ASSUME ConstantsAssumption ==
  /\ None \notin Document
  /\ None \notin Journal
  /\ None \notin Size
  /\ Size \subseteq {"fits", "large"}
  /\ CuratorLearns \in BOOLEAN
  /\ {MaxRecords, ReservedRecords, MinBatch, MaxBatch} \subseteq Nat
  /\ ReservedRecords < MaxRecords
  /\ 0 < MinBatch /\ MinBatch <= MaxBatch
  /\ MaxTurns \in Nat /\ MaxCrashes \in Nat
  /\ Turn = 1..MaxTurns

-----------------------------------------------------------------------------
(***************************************************************************)
(* CurationPolicy.next_batch on an archive of whole turns: how many        *)
(* records past the frontier the next batch takes.  Turns are two records, *)
(* the batch grows turn by turn and stops at the first unanswered one.     *)
(***************************************************************************)
DirectLimit == MaxRecords - ReservedRecords
Uncurated   == Len(raw) - doc.frontier

EvenUp(n)   == n + (n % 2)
EvenDown(n) == n - (n % 2)
Least(a, b) == IF a <= b THEN a ELSE b
Most(a, b)  == IF a <= b THEN b ELSE a

\* Mutant: the batch takes one turn too many, be it answered or not.
BatchTakesPending ==
  Least(EvenUp(Most(MinBatch, Uncurated - DirectLimit)) + 2,
        Least(EvenDown(MaxBatch), Uncurated))

BatchSize ==
  Least(EvenUp(Most(MinBatch, Uncurated - DirectLimit)),
        Least(EvenDown(MaxBatch), Answered(raw) - doc.frontier))

BatchDue == Uncurated > DirectLimit /\ BatchSize >= MinBatch

BatchEnd == doc.frontier + BatchSize

\* The documents _merge_document may build from the curator's reply.
Targets ==
  {[revision |-> doc.revision + 1,
    frontier |-> BatchEnd,
    memories |-> doc.memories \cup new] :
      new \in {s \in SUBSET TurnsBetween(raw, doc.frontier + 1, BatchEnd) :
                 CuratorLearns \/ s = {}}}

-----------------------------------------------------------------------------
(***************************************************************************)
(* The state of a commit in progress, read off the disk as commit() does.  *)
(***************************************************************************)
Decided == journal # None /\ journal.state # "PREPARED"

Answers == journal.state = "READY_TO_COMMIT"

UserMissing      == ~Has(raw, User(journal.turn))
AssistantMissing == Answers /\ ~UserMissing /\ ~Has(raw, Assistant(journal.turn))
RawPublished     == ~UserMissing /\ ~AssistantMissing
TargetMissing    == Answers /\ RawPublished /\ journal.target # None
                            /\ doc # journal.target

\* TURN_TRANSACTION_CONFLICT: the disk is neither the baseline nor the goal.
Conflict ==
  \/ UserMissing /\ raw # journal.base
  \/ AssistantMissing /\ raw[Len(raw)] # User(journal.turn)
  \/ TargetMissing /\ doc # journal.baseDoc

\* RAW_RECORD_TOO_LARGE: archive.append refuses the record.
TooLarge ==
  \/ UserMissing /\ journal.userSize = "large"
  \/ AssistantMissing /\ journal.assistantSize = "large"

\* load() accepts a main file whose memories differ from the last-valid copy
\* only if the frontier and the spans are the same (a hand edit).
LoadAccepts == doc.memories = lastValid.memories \/ doc.frontier = lastValid.frontier

\* The process is gone and forgets everything it did not write.
GoDown == pc' = "down" /\ turn' = 0 /\ resumed' = FALSE /\ staged' = None

-----------------------------------------------------------------------------
Init ==
  /\ raw = <<>> /\ journal = None
  /\ doc = EmptyDocument /\ lastValid = EmptyDocument
  /\ pc = "down" /\ turn = 0 /\ resumed = FALSE /\ staged = None
  /\ shown = {} /\ nextTurn = 1 /\ crashes = 0

(***************************************************************************)
(* Start-up: build_application holds the writer lease, loads the document  *)
(* and recovers the journal; then chat settles the pending tail.           *)
(***************************************************************************)
Start ==
  /\ pc = "down" /\ LoadAccepts
  /\ lastValid' = doc
  /\ pc' = "recover"
  /\ UNCHANGED <<raw, journal, doc, run, shown, nextTurn, crashes>>

\* load() raises and the lease is released: nothing has changed.
StartRefused ==
  /\ pc = "down" /\ ~LoadAccepts
  /\ UNCHANGED vars

RecoverNothing ==
  /\ pc = "recover" /\ journal = None
  /\ pc' = "boot"
  /\ UNCHANGED <<disk, run, shown, nextTurn, crashes>>

\* Mutant: recovery throws decided journals away too.
RecoverDropsAny ==
  /\ pc = "recover" /\ journal # None
  /\ journal' = None /\ pc' = "boot"
  /\ UNCHANGED <<raw, doc, lastValid, run, shown, nextTurn, crashes>>

RecoverPrepared ==
  /\ pc = "recover" /\ journal # None /\ ~Decided
  /\ journal' = None
  /\ pc' = "boot"
  /\ UNCHANGED <<raw, doc, lastValid, run, shown, nextTurn, crashes>>

\* Mutant: recovery keeps a decided journal but does not commit it.
RecoverForgets ==
  /\ pc = "recover" /\ Decided
  /\ pc' = "boot"
  /\ UNCHANGED <<disk, run, shown, nextTurn, crashes>>

RecoverDecided ==
  /\ pc = "recover" /\ Decided
  /\ pc' = "commit"
  /\ UNCHANGED <<disk, run, shown, nextTurn, crashes>>

\* Mutant: the pending tail is neither discarded nor resumed.
BootIgnoresTail ==
  /\ pc = "boot" /\ pc' = "idle"
  /\ UNCHANGED <<disk, run, shown, nextTurn, crashes>>

BootClean ==
  /\ pc = "boot" /\ ~PendingTail(raw)
  /\ pc' = "idle"
  /\ UNCHANGED <<disk, run, shown, nextTurn, crashes>>

\* assert_pending_discardable, then discard_pending_tail.
Discardable == Len(raw) > doc.frontier /\ raw[Len(raw)].turn \notin doc.memories

\* Mutant: the tail is cut without looking at its role.
BootDiscardsAny ==
  /\ pc = "boot" /\ Len(raw) > 0 /\ Discardable
  /\ raw' = CutTail(raw) /\ pc' = "idle"
  /\ UNCHANGED <<journal, doc, lastValid, run, shown, nextTurn, crashes>>

BootDiscard ==
  /\ pc = "boot" /\ PendingTail(raw) /\ Discardable
  /\ raw' = CutTail(raw)
  /\ pc' = "idle"
  /\ UNCHANGED <<journal, doc, lastValid, run, shown, nextTurn, crashes>>

\* chat --resume: run_turn reuses the USER record and opens no transaction.
BootResume ==
  /\ pc = "boot" /\ PendingTail(raw)
  /\ turn' = raw[Len(raw)].turn /\ resumed' = TRUE
  /\ pc' = "curate"
  /\ UNCHANGED <<disk, staged, shown, nextTurn, crashes>>

-----------------------------------------------------------------------------
(***************************************************************************)
(* run_turn.                                                               *)
(***************************************************************************)
\* Mutant: the checkpoint hashes the provisional record along.
BeginCapturesLate(size) ==
  /\ pc = "idle" /\ nextTurn \in Turn /\ journal = None
  /\ journal' = [state |-> "PREPARED", turn |-> nextTurn,
                 base |-> Append(raw, User(nextTurn)), baseDoc |-> doc,
                 userSize |-> size, assistantSize |-> None, target |-> None]
  /\ turn' = nextTurn /\ nextTurn' = nextTurn + 1 /\ pc' = "curate"
  /\ UNCHANGED <<raw, doc, lastValid, resumed, staged, shown, crashes>>

BeginTurn(size) ==
  /\ pc = "idle" /\ nextTurn \in Turn
  /\ journal = None
  /\ journal' = [state |-> "PREPARED", turn |-> nextTurn, base |-> raw,
                 baseDoc |-> doc, userSize |-> size, assistantSize |-> None,
                 target |-> None]
  /\ turn' = nextTurn /\ nextTurn' = nextTurn + 1
  /\ pc' = "curate"
  /\ UNCHANGED <<raw, doc, lastValid, resumed, staged, shown, crashes>>

SkipCuration ==
  /\ pc = "curate" /\ ~BatchDue
  /\ pc' = "chat"
  /\ UNCHANGED <<disk, run, shown, nextTurn, crashes>>

\* propose: the new document stays in memory until the turn is answered.
StageCuration ==
  /\ pc = "curate" /\ BatchDue /\ ~resumed
  /\ staged' \in Targets
  /\ pc' = "chat"
  /\ UNCHANGED <<disk, turn, resumed, shown, nextTurn, crashes>>

\* Mutant: a turn with a transaction writes the document at once as well.
CurateAlwaysNow ==
  /\ pc = "curate" /\ BatchDue
  /\ doc' \in Targets /\ pc' = "refresh"
  /\ UNCHANGED <<raw, journal, lastValid, run, shown, nextTurn, crashes>>

\* curate_if_needed: without a transaction the document is written at once.
CurateNow ==
  /\ pc = "curate" /\ BatchDue /\ resumed
  /\ doc' \in Targets
  /\ pc' = "refresh"
  /\ UNCHANGED <<raw, journal, lastValid, run, shown, nextTurn, crashes>>

\* A model call is outstanding: the curator's or the chat model's.
Calling == pc = "chat" \/ (pc = "curate" /\ BatchDue)

\* Mutant: a rejected turn keeps its journal.
RejectKeepsJournal ==
  /\ Calling
  /\ IF resumed THEN Discardable /\ raw' = CutTail(raw) ELSE UNCHANGED raw
  /\ turn' = 0 /\ resumed' = FALSE /\ staged' = None
  /\ pc' \in {"idle", "down"}
  /\ UNCHANGED <<journal, doc, lastValid, shown, nextTurn, crashes>>

\* TurnRejected drops the turn; the debugger's interrupt also ends the shell.
Reject ==
  /\ Calling
  /\ IF resumed
       THEN Discardable /\ raw' = CutTail(raw) /\ UNCHANGED journal
       ELSE journal' = None /\ UNCHANGED raw
  /\ turn' = 0 /\ resumed' = FALSE /\ staged' = None
  /\ pc' \in {"idle", "down"}
  /\ UNCHANGED <<doc, lastValid, shown, nextTurn, crashes>>

\* A retryable, PROVIDER_ or NETWORK_ error keeps the question as pending.
FailRetryable ==
  /\ Calling /\ ~resumed
  /\ journal' = [journal EXCEPT !.state = "READY_PENDING"]
  /\ pc' = "commit"
  /\ UNCHANGED <<raw, doc, lastValid, run, shown, nextTurn, crashes>>

\* Any other error, a cancellation, or any failure of a resumed turn,
\* RAW_RECORD_TOO_LARGE for its answer included, ends the process.
FailHard ==
  /\ pc \in {"curate", "chat"}
  /\ GoDown
  /\ UNCHANGED <<disk, shown, nextTurn, crashes>>

\* Mutant: READY_TO_COMMIT is written without the assistant record.
AnswerWithoutRecord(size) ==
  /\ pc = "chat" /\ ~resumed
  /\ journal' = [journal EXCEPT !.state = "READY_TO_COMMIT", !.target = staged]
  /\ pc' = "commit"
  /\ UNCHANGED <<raw, doc, lastValid, run, shown, nextTurn, crashes>>

Answer(size) ==
  /\ pc = "chat" /\ ~resumed
  /\ journal' = [journal EXCEPT !.state = "READY_TO_COMMIT",
                                !.assistantSize = size, !.target = staged]
  /\ pc' = "commit"
  /\ UNCHANGED <<raw, doc, lastValid, run, shown, nextTurn, crashes>>

AnswerResumed ==
  /\ pc = "chat" /\ resumed
  /\ raw' = Append(raw, Assistant(turn))
  /\ pc' = "show"
  /\ UNCHANGED <<journal, doc, lastValid, run, shown, nextTurn, crashes>>

\* Mutant: the answer is printed before it is persisted.
ShowEarly ==
  /\ pc \in {"show", "commit"} /\ turn # 0
  /\ shown' = shown \cup {turn}
  /\ turn' = 0 /\ resumed' = FALSE /\ staged' = None
  /\ pc' = "idle"
  /\ UNCHANGED <<disk, nextTurn, crashes>>

ShowAnswer ==
  /\ pc = "show"
  /\ shown' = shown \cup {turn}
  /\ turn' = 0 /\ resumed' = FALSE /\ staged' = None
  /\ pc' = "idle"
  /\ UNCHANGED <<disk, nextTurn, crashes>>

-----------------------------------------------------------------------------
(***************************************************************************)
(* TurnUnitOfWork.commit, from run_turn or from recover: idempotent, each  *)
(* step decides from the disk what is still missing.                       *)
(***************************************************************************)
CanPublish == pc = "commit" /\ ~Conflict /\ ~TooLarge

PublishUser ==
  /\ CanPublish /\ UserMissing
  /\ raw' = Append(raw, User(journal.turn))
  /\ UNCHANGED <<journal, doc, lastValid, pc, run, shown, nextTurn, crashes>>

PublishAssistant ==
  /\ CanPublish /\ AssistantMissing
  /\ raw' = Append(raw, Assistant(journal.turn))
  /\ UNCHANGED <<journal, doc, lastValid, pc, run, shown, nextTurn, crashes>>

\* LongTermStore.commit, first half: the main file is replaced.
PublishTarget ==
  /\ CanPublish /\ TargetMissing
  /\ doc' = journal.target
  /\ pc' = "refresh"
  /\ UNCHANGED <<raw, journal, lastValid, run, shown, nextTurn, crashes>>

\* LongTermStore.commit, second half: _refresh_last_valid.
RefreshLastValid ==
  /\ pc = "refresh"
  /\ lastValid' = doc
  /\ pc' = IF journal = None THEN "chat" ELSE "commit"
  /\ UNCHANGED <<raw, journal, doc, run, shown, nextTurn, crashes>>

\* All is published.  run_turn shows the answer, or raises the model's error
\* and so ends the process; recovery goes on with the start-up.
Unlink ==
  /\ CanPublish /\ RawPublished /\ ~TargetMissing
  /\ journal' = None
  /\ \/ turn = 0 /\ pc' = "boot" /\ UNCHANGED run
     \/ turn # 0 /\ Answers /\ pc' = "show" /\ UNCHANGED run
     \/ turn # 0 /\ ~Answers /\ GoDown
  /\ UNCHANGED <<raw, doc, lastValid, shown, nextTurn, crashes>>

\* commit() raises: the journal stays for the next start.
CommitFails ==
  /\ pc = "commit" /\ (Conflict \/ TooLarge)
  /\ GoDown
  /\ UNCHANGED <<disk, shown, nextTurn, crashes>>

-----------------------------------------------------------------------------
\* The shell stops between turns.
Exit ==
  /\ pc = "idle"
  /\ GoDown
  /\ UNCHANGED <<disk, shown, nextTurn, crashes>>

\* Power loss or kill between two durable effects.
Crash ==
  /\ pc # "down" /\ crashes < MaxCrashes
  /\ crashes' = crashes + 1
  /\ GoDown
  /\ UNCHANGED <<disk, shown, nextTurn>>

Recover == RecoverNothing \/ RecoverPrepared \/ RecoverDecided
Boot    == BootClean \/ BootDiscard \/ BootResume
Commit  == PublishUser \/ PublishAssistant \/ PublishTarget \/ Unlink \/ CommitFails

RunTurn ==
  \/ \E size \in Size : BeginTurn(size) \/ Answer(size)
  \/ SkipCuration \/ StageCuration \/ CurateNow
  \/ Reject \/ FailRetryable \/ FailHard \/ AnswerResumed \/ ShowAnswer

Next ==
  \/ Start \/ StartRefused \/ Recover \/ Boot \/ RunTurn
  \/ Commit \/ RefreshLastValid \/ Exit \/ Crash

Spec == Init /\ [][Next]_vars

\* commit() has no await and no exit but its own end, the start-up needs
\* nobody but the person who starts the program again: each of these steps
\* is taken if it stays possible.  Nothing is assumed of the model calls.
Fairness ==
  /\ WF_vars(Start) /\ WF_vars(Recover) /\ WF_vars(Boot)
  /\ WF_vars(Commit) /\ WF_vars(RefreshLastValid)

FairSpec == Spec /\ Fairness

-----------------------------------------------------------------------------
(***************************************************************************)
(* What the protocol guarantees.                                           *)
(***************************************************************************)
\* Every variable has its type, and the journal passes validate_state_fields.
TypeOK ==
  /\ raw \in Seq(Record)
  /\ journal = None \/ ValidJournal(journal)
  /\ doc \in Document /\ lastValid \in Document
  /\ pc \in Phase
  /\ turn \in Turn \cup {0} /\ resumed \in BOOLEAN
  /\ staged \in Document \cup {None}
  /\ shown \subseteq Turn
  /\ nextTurn \in 1..(MaxTurns + 1) /\ crashes \in 0..MaxCrashes

\* The archive is what read_all and discard_pending_tail insist on: whole
\* turns, USER before ASSISTANT, no turn twice, at most one open USER record
\* and that at the end, after every crash in every publication.
RawWellFormed == WellFormed(raw)

\* Until a turn is decided it has touched nothing: rejecting, cancelling or
\* crashing out of it leaves the archive and the document of its checkpoint.
PreparedTouchesNothing ==
  journal # None /\ ~Decided => raw = journal.base /\ doc = journal.baseDoc

\* A decided turn only ever rolls forward: without outside edits commit()
\* never meets a disk that is neither its baseline nor its goal, so
\* TURN_TRANSACTION_CONFLICT is never raised.
NoConflict == pc = "commit" => ~Conflict

\* No journal survives into the next turn: begin never raises
\* TURN_TRANSACTION_ACTIVE, and discarding the tail never meets a journal.
SettledBetweenTurns == pc \in {"boot", "idle", "show"} => journal = None

\* on_output runs after persistence: whatever the user has seen answered is
\* in the archive, and no later crash or recovery takes it away.
ShownIsDurable == \A t \in shown : Complete(raw, t)

\* The document never runs ahead of the archive: it is curated only through
\* answered turns and cites only answered turns, so _validate_sources
\* always passes and a pending tail may always be discarded.
SourcesPublished == Supports(raw, doc) /\ Supports(raw, lastValid)

\* Answered turns are final: no step removes or reorders them.
AnsweredTurnsAreFinal ==
  [][/\ Answered(raw) <= Len(raw')
     /\ \A i \in 1..Answered(raw) : raw'[i] = raw[i]]_vars

(***************************************************************************)
(* The journal hides the steps of a publication: a turn counts as part of  *)
(* the history from the moment its READY journal is written.               *)
(***************************************************************************)
DecidedLog ==
  IF ~Decided THEN raw
  ELSE LET withUser == Append(journal.base, User(journal.turn))
       IN  IF Answers THEN Append(withUser, Assistant(journal.turn)) ELSE withUser

DecidedDoc == IF Decided /\ journal.target # None THEN journal.target ELSE doc

History == INSTANCE ChatHistory WITH log <- DecidedLog, memory <- DecidedDoc

\* Crashes, restarts and the order of the files' updates are invisible: the
\* process implements the crash-free history of whole turns.
ImplementsHistory == History!HistorySpec

\* Nothing refuses the decided turn: its records fit, and so load() can be
\* the only obstacle.
Publishable(t) ==
  /\ Decided /\ journal.turn = t
  /\ journal.userSize = "fits" /\ journal.assistantSize # "large"

\* READY only rolls forward: a decided turn whose records fit is published and
\* its journal disappears, whatever crashes come between, unless a crash in
\* LongTermStore.commit has made the next load() refuse the directory.
PublishableConverges ==
  \A t \in Turn :
    Publishable(t) ~> \/ journal = None /\ Has(raw, User(t))
                      \/ pc = "down" /\ ~LoadAccepts

(***************************************************************************)
(* What the repository says and the code does not keep (see the findings). *)
(***************************************************************************)
\* The directory a crash leaves behind can be loaded at the next start: the
\* long-term document, its sources and its frontier change all or nothing.
CrashLeavesLoadable == pc = "down" => LoadAccepts

\* READY_TO_COMMIT always rolls forward: every decided turn is published,
\* also when its answer is longer than a record may be.
DecidedConverges ==
  \A t \in Turn :
    (Decided /\ journal.turn = t) ~> (journal = None /\ Has(raw, User(t)))

\* A turn that may still be rejected publishes no long-term document.
RejectableTurnPublishesNothing ==
  [][(pc \in {"curate", "chat"}) => doc' = doc]_vars
=============================================================================
