--------------------------- MODULE LongTermStore ---------------------------
(***************************************************************************)
(* The two files of the long-term memory, long_term.yaml and its last-     *)
(* valid copy, under everybody who touches them: the chat process, a       *)
(* person with an editor, `memory reset`, and the commands `memory         *)
(* validate`, `memory source` and `doctor`, which take no writer lease.    *)
(*                                                                         *)
(* Every read and every replacement of a file is a step of its own, so     *)
(* that anybody's steps fall between them.  load and commit are written    *)
(* once, for any process.                                                  *)
(*                                                                         *)
(* An archive is the turns it holds; the order of a turn's two records and *)
(* the undecided states of the journal are TurnTransaction's matter.       *)
(***************************************************************************)
EXTENDS Naturals, Sequences, SequencesExt

CONSTANTS
  None,
  Broken,           \* a payload that is no valid document
  MaxTurns, MaxEdits, MaxResets, MaxCrashes,      \* bounds
  CheckAnytime      \* whether a check may run beside a chat or a reset

VARIABLES
  raw,              \* the archive: its answered turns
  pending,          \* the turn of an unanswered USER record at its end, or 0
  journal,          \* a READY_TO_COMMIT journal, or None
  main, copy,       \* long_term.yaml and long_term.last-valid.yaml
  whole,            \* what a broken main file held before, or None
  at,               \* where each process is
  job,              \* what its current load or commit is for
  doc,              \* the document that load or commit holds
  loadedHash,       \* LongTermStore.loaded_hash: the payload, or None
  readOnly,         \* LongTermStore.read_only
  base,             \* the chat's checkpoint: document at the start of the turn
  target,           \* the chat's staged document, or None
  turn, resumed,    \* run_turn's turn (0: none), resume_pending
  nextTurn, edits, resets, crashes,
  curated,          \* history: the turns the curator made items of
  forgotten,        \* history: the turns begun before the last `reset all`
  restarted,        \* history: whether a `reset all` emptied the document
  orphans           \* history: the questions that were cut off while the copy
                    \* cited them, or after the main file the gate had read
                    \* was saved anew

disk    == <<raw, pending, journal>>
files   == <<main, copy, whole>>
store   == <<doc, loadedHash, readOnly>>
turnVars == <<base, target, turn, resumed>>
bounds  == <<nextTurn, edits, resets, crashes>>
history == <<curated, forgotten, restarted, orphans>>
vars    == <<disk, files, at, job, store, turnVars, bounds, history>>

ASSUME StoreAssumption ==
  /\ {MaxTurns, MaxEdits, MaxResets, MaxCrashes} \subseteq Nat
  /\ CheckAnytime \in BOOLEAN

Process == {"chat", "check", "reset"}
Turn    == 1..MaxTurns

\* A memory is the turn it cites and who made it; its text is the turn's.
Item == [source : Turn, by : {"auto", "manual"}]

\* curated_through_sequence and the coverage spans are the turns covered.
Document == [revision : Nat, covered : Seq(Turn), items : SUBSET Item]

EmptyDocument == [revision |-> 0, covered |-> <<>>, items |-> {}]

Journal == [turn : Turn, raw : Seq(Turn), doc : Document,
            target : Document \cup {None}]

ASSUME SentinelAssumption ==
  Broken # None /\ Broken \notin Document /\ None \notin Document \cup Journal

Location == {"down", "main", "fallback", "copy", "check", "replace", "refresh",
             "done", "boot", "idle", "curator", "ask", "cut", "publish",
             "unlink", "factory", "wipe"}

Job == {"none", "start", "begin", "stage", "curate", "context", "publish",
        "commit", "check", "beforeLong", "beforeAll", "clear", "cleared",
        "emptied"}

-----------------------------------------------------------------------------
Sources(d) == {item.source : item \in d.items}

\* The spans name the first answered turns, and every source of a memory is
\* one of the answered turns or of the others.
Supports(log, others, d) ==
  /\ IsPrefix(d.covered, log)
  /\ Sources(d) \subseteq ToSet(log) \cup others

\* _validate_sources: a source may be the open question at the end.
SourcesAreValid(d) == Supports(raw, {pending}, d)

\* Mutant: whatever the file holds is a document.
ParsesAnything(payload) == TRUE

\* _parse_bytes.
Parses(payload) == payload # Broken /\ SourcesAreValid(payload)

\* Mutant: any valid document lets the open question go.
DiscardableIfValid == Parses(main)

\* assert_pending_discardable: the main file does not name the open question.
Discardable ==
  /\ Parses(main)
  /\ pending \notin Sources(main) \cup ToSet(main.covered)

\* Mutant: an edited memory keeps the creator the person wrote.
AcceptKeepsCreator(edited, previous) ==
  [edited EXCEPT !.revision = previous.revision + 1]

\* What load makes of a hand edit: new and changed memories become manual.
Accept(edited, previous) ==
  [edited EXCEPT !.revision = previous.revision + 1,
     !.items = {IF item \in previous.items THEN item
                ELSE [item EXCEPT !.by = "manual"] : item \in edited.items}]

\* _merge_document: what is known of the first n turns.
Merged(d, n, new) ==
  [revision |-> d.revision + 1,
   covered  |-> SubSeq(raw, 1, n),
   items    |-> d.items \cup {[source |-> t, by |-> "auto"] : t \in new}]

\* A batch is of the next turns; a memory is made of a turn of the batch, if
\* none has its text yet.
Batch(d, n) == ToSet(SubSeq(raw, Len(d.covered) + 1, n))

Proposals(d) ==
  UNION {{Merged(d, n, new) : new \in SUBSET (Batch(d, n) \ Sources(d))} :
           n \in (Len(d.covered) + 1)..Len(raw)}

-----------------------------------------------------------------------------
(***************************************************************************)
(* Processes.                                                              *)
(***************************************************************************)
GoTo(p, where) == at' = [at EXCEPT ![p] = where]

\* Process p starts a load for the given job.
Load(p, for) == GoTo(p, "main") /\ job' = [job EXCEPT ![p] = for]

\* Process p commits document d for the given job.
Commit(p, for, d) ==
  /\ GoTo(p, "check")
  /\ job' = [job EXCEPT ![p] = for]
  /\ doc' = [doc EXCEPT ![p] = d]

\* The process ends; its store object and the turn are forgotten.
End(p) ==
  /\ GoTo(p, "down")
  /\ job' = [job EXCEPT ![p] = "none"]
  /\ doc' = [doc EXCEPT ![p] = None]
  /\ loadedHash' = [loadedHash EXCEPT ![p] = None]
  /\ readOnly' = [readOnly EXCEPT ![p] = FALSE]
  /\ IF p = "chat"
       THEN base' = None /\ target' = None /\ turn' = 0 /\ resumed' = FALSE
       ELSE UNCHANGED turnVars

\* Mutant: a reset of all gives up when the present document is invalid.
RaiseEndsReset(p) == End(p)

\* A BaiError ends the process; only `reset all` goes on when its look at the
\* present document fails.
Raise(p) ==
  IF p = "reset" /\ job[p] = "beforeAll"
    THEN GoTo(p, "factory") /\ UNCHANGED <<job, store, turnVars>>
    ELSE End(p)

\* The writer lease is free, and no check is in the way.
Free == at["chat"] = "down" /\ at["reset"] = "down"
LeaseFree == Free /\ (CheckAnytime \/ at["check"] = "down")
CheckMayRun == CheckAnytime \/ Free

-----------------------------------------------------------------------------
(***************************************************************************)
(* LongTermStore.load.                                                     *)
(***************************************************************************)
ReadMain(p) ==
  /\ at[p] = "main"
  /\ IF Parses(main)
       THEN doc' = [doc EXCEPT ![p] = main] /\ GoTo(p, "copy")
       ELSE UNCHANGED doc /\ GoTo(p, "fallback")
  /\ UNCHANGED <<disk, files, job, loadedHash, readOnly, turnVars, bounds, history>>

\* An invalid main file: the copy is served if it is valid, and nothing may
\* be written.
Fallback(p) ==
  /\ at[p] = "fallback"
  /\ IF Parses(copy)
       THEN /\ doc' = [doc EXCEPT ![p] = copy]
            /\ readOnly' = [readOnly EXCEPT ![p] = TRUE]
            /\ loadedHash' = [loadedHash EXCEPT ![p] = None]
            /\ GoTo(p, "done")
            /\ UNCHANGED <<job, turnVars>>
       ELSE Raise(p)
  /\ UNCHANGED <<disk, files, bounds, history>>

Remember(p) ==
  /\ loadedHash' = [loadedHash EXCEPT ![p] = doc[p]]
  /\ readOnly' = [readOnly EXCEPT ![p] = FALSE]

SameMemories(p) == copy = doc[p] \/ (Parses(copy) /\ doc[p].items = copy.items)

\* The memories are those of the copy: nothing to accept.
CompareSame(p) ==
  /\ at[p] = "copy" /\ SameMemories(p)
  /\ Remember(p) /\ GoTo(p, "refresh")
  /\ UNCHANGED <<disk, files, job, doc, turnVars, bounds, history>>

\* The memories were edited and the frontier was not: load commits the edit.
CompareEdited(p) ==
  /\ at[p] = "copy" /\ ~SameMemories(p)
  /\ Parses(copy) /\ doc[p].covered = copy.covered
  /\ Remember(p)
  /\ doc' = [doc EXCEPT ![p] = Accept(doc[p], copy)]
  /\ GoTo(p, "check")
  /\ UNCHANGED <<disk, files, job, turnVars, bounds, history>>

\* MEMORY_DOCUMENT_INVALID, or the copy itself is invalid.
CompareRefused(p) ==
  /\ at[p] = "copy" /\ ~SameMemories(p)
  /\ ~Parses(copy) \/ doc[p].covered # copy.covered
  /\ Raise(p)
  /\ UNCHANGED <<disk, files, bounds, history>>

(***************************************************************************)
(* LongTermStore.commit.                                                   *)
(***************************************************************************)
\* Not a read-only fallback, sources that exist, and the main file as loaded.
MayWrite(p) ==
  /\ ~readOnly[p]
  /\ SourcesAreValid(doc[p])
  /\ loadedHash[p] \in {None, main}

CheckWrite(p) ==
  /\ at[p] = "check" /\ MayWrite(p)
  /\ GoTo(p, "replace")
  /\ UNCHANGED <<disk, files, job, store, turnVars, bounds, history>>

\* MEMORY_READ_ONLY_FALLBACK, SOURCE_RECORD_MISSING or CONCURRENT_MANUAL_EDIT;
\* only the last is retryable, and keeps the question of a turn that stages.
WriteRefused(p) ==
  /\ at[p] = "check" /\ ~MayWrite(p)
  /\ pending' = IF p = "chat" /\ job[p] = "stage" /\ loadedHash[p] \notin {None, main}
                  THEN turn ELSE pending
  /\ Raise(p)
  /\ UNCHANGED <<raw, journal, files, bounds, history>>

ReplaceMain(p) ==
  /\ at[p] = "replace"
  /\ main' = doc[p] /\ whole' = None
  /\ loadedHash' = [loadedHash EXCEPT ![p] = doc[p]]
  /\ GoTo(p, "refresh")
  /\ UNCHANGED <<disk, copy, job, doc, readOnly, turnVars, bounds, history>>

\* _refresh_last_valid, the end of load and of commit.
RefreshCopy(p) ==
  /\ at[p] = "refresh"
  /\ copy' = doc[p]
  /\ GoTo(p, "done")
  /\ UNCHANGED <<disk, main, whole, job, store, turnVars, bounds, history>>

StoreStep(p) ==
  \/ ReadMain(p) \/ Fallback(p)
  \/ CompareSame(p) \/ CompareEdited(p) \/ CompareRefused(p)
  \/ CheckWrite(p) \/ WriteRefused(p) \/ ReplaceMain(p) \/ RefreshCopy(p)

\* The load or commit process p made for this job has returned doc[p].
Returned(p, for) == at[p] = "done" /\ job[p] = for

-----------------------------------------------------------------------------
(***************************************************************************)
(* The chat process: build_application, recover, cli.py chat, run_turn.    *)
(***************************************************************************)
Init ==
  /\ raw = <<>> /\ pending = 0 /\ journal = None
  /\ main = EmptyDocument /\ copy = EmptyDocument /\ whole = None
  /\ at = [p \in Process |-> "down"] /\ job = [p \in Process |-> "none"]
  /\ doc = [p \in Process |-> None] /\ loadedHash = [p \in Process |-> None]
  /\ readOnly = [p \in Process |-> FALSE]
  /\ base = None /\ target = None /\ turn = 0 /\ resumed = FALSE
  /\ nextTurn = 1 /\ edits = 0 /\ resets = 0 /\ crashes = 0
  /\ curated = {} /\ forgotten = {} /\ restarted = FALSE
  /\ orphans = {}

StartChat ==
  /\ LeaseFree
  /\ Load("chat", "start")
  /\ UNCHANGED <<disk, files, store, turnVars, bounds, history>>

Recover ==
  /\ Returned("chat", "start")
  /\ GoTo("chat", IF journal = None THEN "boot" ELSE "publish")
  /\ UNCHANGED <<disk, files, job, store, turnVars, bounds, history>>

BootSettles ==
  /\ at["chat"] = "boot" /\ pending = 0
  /\ GoTo("chat", "idle")
  /\ UNCHANGED <<disk, files, job, store, turnVars, bounds, history>>

\* discard_pending: an open question is given up at the start, unless it is
\* resumed, and when its resumed turn is rejected.
Discards ==
  \/ at["chat"] = "boot" /\ pending # 0
  \/ at["chat"] \in {"curator", "ask"} /\ resumed

\* The gate reads the main file; the copy is not looked at.
PassGate ==
  /\ Discards /\ Discardable
  /\ doc' = [doc EXCEPT !["chat"] = main]
  /\ GoTo("chat", "cut")
  /\ UNCHANGED <<disk, files, job, loadedHash, readOnly, turnVars, bounds, history>>

\* MEMORY_PENDING_REFERENCED, or the main file is invalid: the question stays.
GateRefuses ==
  /\ Discards /\ ~Discardable
  /\ End("chat")
  /\ UNCHANGED <<disk, files, bounds, history>>

BootResumes ==
  /\ at["chat"] = "boot" /\ pending # 0
  /\ turn' = pending /\ resumed' = TRUE
  /\ Load("chat", "stage")
  /\ UNCHANGED <<disk, files, store, base, target, bounds, history>>

BeginTurn ==
  /\ at["chat"] = "idle" /\ nextTurn <= MaxTurns
  /\ turn' = nextTurn /\ nextTurn' = nextTurn + 1
  /\ Load("chat", "begin")
  /\ UNCHANGED <<disk, files, store, base, target, resumed, edits, resets, crashes,
                 history>>

\* PreTurnCheckpoint.capture.
Checkpoint ==
  /\ Returned("chat", "begin")
  /\ base' = doc["chat"]
  /\ Load("chat", "stage")
  /\ UNCHANGED <<disk, files, store, target, turn, resumed, bounds, history>>

NothingToCurate ==
  /\ Returned("chat", "stage")
  /\ Load("chat", "context")
  /\ UNCHANGED <<disk, files, store, turnVars, bounds, history>>

\* propose: the curator is asked about the next answered turns.
AskCurator ==
  /\ Returned("chat", "stage")
  /\ target' \in Proposals(doc["chat"])
  /\ curated' = curated \cup Sources(target')
  /\ GoTo("chat", "curator")
  /\ UNCHANGED <<disk, files, job, store, base, turn, resumed, bounds,
                 forgotten, restarted, orphans>>

\* The proposal waits for the answer; a resumed turn commits it at once.
CuratorReplies ==
  /\ at["chat"] = "curator"
  /\ IF resumed THEN Commit("chat", "curate", target)
                ELSE Load("chat", "context") /\ UNCHANGED doc
  /\ UNCHANGED <<disk, files, loadedHash, readOnly, turnVars, bounds, history>>

CuratedNow ==
  /\ Returned("chat", "curate")
  /\ Load("chat", "context")
  /\ UNCHANGED <<disk, files, store, turnVars, bounds, history>>

AskModel ==
  /\ Returned("chat", "context")
  /\ GoTo("chat", "ask")
  /\ UNCHANGED <<disk, files, job, store, turnVars, bounds, history>>

ToIdle == GoTo("chat", "idle") /\ turn' = 0 /\ resumed' = FALSE
          /\ base' = None /\ target' = None

Answer ==
  /\ at["chat"] = "ask" /\ ~resumed
  /\ journal' = [turn |-> turn, raw |-> raw, doc |-> base, target |-> target]
  /\ GoTo("chat", "publish")
  /\ UNCHANGED <<raw, pending, files, job, store, turnVars, bounds, history>>

AnswerResumed ==
  /\ at["chat"] = "ask" /\ resumed
  /\ raw' = Append(raw, turn) /\ pending' = 0
  /\ ToIdle
  /\ UNCHANGED <<journal, files, job, store, bounds, history>>

\* A retryable error keeps the question; run_turn raises it.
ModelFails ==
  /\ at["chat"] \in {"curator", "ask"}
  /\ pending' = turn
  /\ End("chat")
  /\ UNCHANGED <<raw, journal, files, bounds, history>>

\* uow.discard: the question of a new turn was never in the archive.
Reject ==
  /\ at["chat"] \in {"curator", "ask"} /\ ~resumed
  /\ ToIdle
  /\ UNCHANGED <<disk, files, job, store, bounds, history>>

\* discard_pending_tail.
CutTail ==
  /\ at["chat"] = "cut"
  /\ pending' = 0
  /\ orphans' = IF pending \in Sources(copy) \/ main # doc["chat"]
                  THEN orphans \cup {pending} ELSE orphans
  /\ ToIdle
  /\ UNCHANGED <<raw, journal, files, job, store, bounds, curated, forgotten, restarted>>

\* The archive is the baseline of the journal, or has a record of its turn.
ArchiveTakesTurn ==
  \/ journal.turn \in ToSet(raw) \/ journal.turn = pending
  \/ raw = journal.raw /\ pending = 0

\* append_complete_turn, idempotent; then the document, if there is one.
PublishTurn ==
  /\ at["chat"] = "publish" /\ ArchiveTakesTurn
  /\ IF journal.turn \in ToSet(raw)
       THEN UNCHANGED <<raw, pending>>
       ELSE raw' = Append(raw, journal.turn) /\ pending' = 0
  /\ IF journal.target = None THEN GoTo("chat", "unlink") /\ UNCHANGED job
                              ELSE Load("chat", "publish")
  /\ UNCHANGED <<journal, files, store, turnVars, bounds, history>>

\* TURN_TRANSACTION_CONFLICT on the archive.
PublishConflict ==
  /\ at["chat"] = "publish" /\ ~ArchiveTakesTurn
  /\ End("chat")
  /\ UNCHANGED <<disk, files, bounds, history>>

\* Mutant: publish_target does not compare with the baseline.
PublishOverAnything ==
  /\ Returned("chat", "publish") /\ doc["chat"] # journal.target
  /\ Commit("chat", "commit", journal.target)
  /\ UNCHANGED <<disk, files, loadedHash, readOnly, turnVars, bounds, history>>

PublishTarget ==
  /\ Returned("chat", "publish")
  /\ doc["chat"] # journal.target /\ doc["chat"] = journal.doc
  /\ Commit("chat", "commit", journal.target)
  /\ UNCHANGED <<disk, files, loadedHash, readOnly, turnVars, bounds, history>>

PublishedBefore ==
  /\ Returned("chat", "publish") /\ doc["chat"] = journal.target
  /\ GoTo("chat", "unlink")
  /\ UNCHANGED <<disk, files, job, store, turnVars, bounds, history>>

\* TURN_TRANSACTION_CONFLICT on the document.
TargetConflict ==
  /\ Returned("chat", "publish")
  /\ doc["chat"] \notin {journal.target, journal.doc}
  /\ End("chat")
  /\ UNCHANGED <<disk, files, bounds, history>>

TargetCommitted ==
  /\ Returned("chat", "commit")
  /\ GoTo("chat", "unlink")
  /\ UNCHANGED <<disk, files, job, store, turnVars, bounds, history>>

\* The turn is over; recovery goes on with the start-up.
Unlink ==
  /\ at["chat"] = "unlink"
  /\ journal' = None
  /\ IF turn = 0 THEN GoTo("chat", "boot") /\ UNCHANGED turnVars ELSE ToIdle
  /\ UNCHANGED <<raw, pending, files, job, store, bounds, history>>

ExitChat ==
  /\ at["chat"] = "idle"
  /\ End("chat")
  /\ UNCHANGED <<disk, files, bounds, history>>

ChatStep ==
  \/ StartChat \/ Recover \/ BootSettles \/ PassGate \/ GateRefuses \/ CutTail
  \/ BootResumes \/ BeginTurn \/ Checkpoint \/ NothingToCurate \/ AskCurator
  \/ CuratorReplies \/ CuratedNow \/ AskModel \/ Answer \/ AnswerResumed
  \/ ModelFails \/ Reject
  \/ PublishTurn \/ PublishConflict \/ PublishTarget \/ PublishedBefore
  \/ TargetConflict \/ TargetCommitted \/ Unlink \/ ExitChat

-----------------------------------------------------------------------------
(***************************************************************************)
(* MemoryResetService.reset.                                               *)
(***************************************************************************)
StartReset ==
  /\ LeaseFree /\ resets < MaxResets
  /\ resets' = resets + 1
  /\ \E scope \in {"beforeLong", "beforeAll"} : Load("reset", scope)
  /\ UNCHANGED <<disk, files, store, turnVars, nextTurn, edits, crashes, history>>

\* clear_long_term_memories initializes once more.
ClearLongTerm ==
  /\ Returned("reset", "beforeLong")
  /\ Load("reset", "clear")
  /\ UNCHANGED <<disk, files, store, turnVars, bounds, history>>

\* Mutant: a cleared document forgets which turns it has covered.
CommitForgotten ==
  /\ Returned("reset", "clear")
  /\ Commit("reset", "cleared",
            [doc["reset"] EXCEPT !.revision = doc["reset"].revision + 1, !.items = {},
                                 !.covered = <<>>])
  /\ UNCHANGED <<disk, files, loadedHash, readOnly, turnVars, bounds, history>>

CommitCleared ==
  /\ Returned("reset", "clear")
  /\ Commit("reset", "cleared",
            [doc["reset"] EXCEPT !.revision = doc["reset"].revision + 1, !.items = {}])
  /\ UNCHANGED <<disk, files, loadedHash, readOnly, turnVars, bounds, history>>

EndCleared ==
  /\ Returned("reset", "cleared")
  /\ End("reset")
  /\ UNCHANGED <<disk, files, bounds, history>>

LookedAtAll ==
  /\ Returned("reset", "beforeAll")
  /\ GoTo("reset", "factory")
  /\ UNCHANGED <<disk, files, job, store, turnVars, bounds, history>>

\* reset_to_factory_state: any main file may be replaced, even an invalid one.
FactoryState ==
  /\ at["reset"] = "factory"
  /\ readOnly' = [readOnly EXCEPT !["reset"] = FALSE]
  /\ loadedHash' = [loadedHash EXCEPT !["reset"] = main]
  /\ Commit("reset", "emptied", EmptyDocument)
  /\ restarted' = TRUE
  /\ UNCHANGED <<disk, files, turnVars, bounds, curated, forgotten, orphans>>

StartWipe ==
  /\ Returned("reset", "emptied")
  /\ GoTo("reset", "wipe")
  /\ UNCHANGED <<disk, files, job, store, turnVars, bounds, history>>

\* archive.clear unlinks the last segment, which may begin between the two
\* records of a turn.
UnlinkSegment ==
  /\ at["reset"] = "wipe" /\ (raw # <<>> \/ pending # 0)
  /\ \/ pending # 0 /\ raw' = raw /\ pending' = 0
     \/ \E n \in 0..(Len(raw) - 1) :
          raw' = SubSeq(raw, 1, n) /\ pending' \in {0, raw[n + 1]}
  /\ UNCHANGED <<journal, files, at, job, store, turnVars, bounds, history>>

EndWiped ==
  /\ at["reset"] = "wipe" /\ raw = <<>> /\ pending = 0
  /\ forgotten' = 1..(nextTurn - 1)
  /\ End("reset")
  /\ UNCHANGED <<disk, files, bounds, curated, restarted, orphans>>

ResetStep ==
  \/ StartReset \/ ClearLongTerm \/ CommitCleared \/ EndCleared \/ LookedAtAll
  \/ FactoryState \/ StartWipe \/ UnlinkSegment \/ EndWiped

-----------------------------------------------------------------------------
(***************************************************************************)
(* `memory validate`, `memory source`, `doctor`: initialize, and report.   *)
(***************************************************************************)
StartCheck ==
  /\ at["check"] = "down" /\ CheckMayRun
  /\ Load("check", "check")
  /\ UNCHANGED <<disk, files, store, turnVars, bounds, history>>

EndCheck ==
  /\ Returned("check", "check")
  /\ End("check")
  /\ UNCHANGED <<disk, files, bounds, history>>

CheckStep == StartCheck \/ EndCheck

(***************************************************************************)
(* A person edits long_term.yaml: memories may be added, with a source     *)
(* that exists, the open question included, or removed; the file may be    *)
(* broken, and repaired.  The editor saves what it has just read, and      *)
(* nobody edits while a reset runs.                                        *)
(***************************************************************************)
PersonSaves ==
  /\ edits < MaxEdits /\ at["reset"] = "down"
  /\ edits' = edits + 1
  /\ UNCHANGED <<disk, copy, at, job, store, turnVars, nextTurn, resets, crashes, history>>

AddMemory ==
  /\ main # Broken
  /\ \E t \in ToSet(raw) \cup ({pending} \ {0}), who \in {"auto", "manual"} :
       /\ t \notin Sources(main)
       /\ main' = [main EXCEPT !.items = @ \cup {[source |-> t, by |-> who]}]
  /\ UNCHANGED whole
  /\ PersonSaves

RemoveMemory ==
  /\ main # Broken
  /\ \E item \in main.items : main' = [main EXCEPT !.items = @ \ {item}]
  /\ UNCHANGED whole
  /\ PersonSaves

BreakFile ==
  /\ main # Broken
  /\ main' = Broken /\ whole' = main
  /\ PersonSaves

RepairFile ==
  /\ main = Broken
  /\ main' = whole /\ whole' = None
  /\ PersonSaves

PersonStep == AddMemory \/ RemoveMemory \/ BreakFile \/ RepairFile

\* Power loss or kill.
Crash(p) ==
  /\ at[p] # "down" /\ crashes < MaxCrashes
  /\ crashes' = crashes + 1
  /\ End(p)
  /\ UNCHANGED <<disk, files, nextTurn, edits, resets, history>>

Next ==
  \/ \E p \in Process : StoreStep(p) \/ Crash(p)
  \/ ChatStep \/ ResetStep \/ CheckStep \/ PersonStep

Spec == Init /\ [][Next]_vars

-----------------------------------------------------------------------------
(***************************************************************************)
(* What the store guarantees.                                              *)
(***************************************************************************)
\* Every variable has its type.
TypeOK ==
  /\ raw \in Seq(Turn) /\ pending \in Turn \cup {0}
  /\ journal \in Journal \cup {None}
  /\ main \in Document \cup {Broken} /\ copy \in Document
  /\ whole \in Document \cup {None}
  /\ at \in [Process -> Location] /\ job \in [Process -> Job]
  /\ doc \in [Process -> Document \cup {None}]
  /\ loadedHash \in [Process -> Document \cup {None, Broken}]
  /\ readOnly \in [Process -> BOOLEAN]
  /\ base \in Document \cup {None} /\ target \in Document \cup {None}
  /\ turn \in Turn \cup {0} /\ resumed \in BOOLEAN
  /\ nextTurn \in 1..(MaxTurns + 1) /\ edits \in 0..MaxEdits
  /\ resets \in 0..MaxResets /\ crashes \in 0..MaxCrashes
  /\ curated \subseteq Turn /\ forgotten \subseteq Turn
  /\ restarted \in BOOLEAN /\ orphans \subseteq Turn \cup {0}

\* Through every edit and every interrupted reset, neither file ever names a
\* record that is not in the archive, and the open question is only given up
\* while no memory cites it: but for the two ways around the gate, which looks
\* at the main file alone, and before the tail is cut.
Known(d) == Supports(raw, {pending} \cup orphans, d)

SourcesExist == (main # Broken => Known(main)) /\ Known(copy)

\* A memory the program calls its own was made by the curator: whatever a
\* person writes in the created_by field, an accepted edit is manual.
AutoIsFromCurator ==
  \A item \in copy.items : item.by = "auto" => item.source \in curated

\* What a person saved is never overwritten unread: the chat and the checks
\* replace the main file only by a document that has all its memories, and
\* others only of turns it newly covers.  There are two exceptions: a save
\* between commit's comparison and its replacement; and once a `reset all` has
\* emptied the document, what a journal publishes, of any journal, for it may
\* be one from before the reset, which does not know of journals.
EditsSurvive ==
  [][\A p \in {"chat", "check"} :
       at[p] = "replace" /\ main' # main /\ loadedHash[p] \in {None, main}
         /\ at'[p] = "refresh" /\ ~(restarted /\ job[p] = "commit")
         => /\ main # Broken
            /\ Sources(main) \subseteq Sources(main')
            /\ Sources(main') \ Sources(main) \subseteq
                 ToSet(main'.covered) \ ToSet(main.covered)]_vars

\* Two files, edits between any two accesses and crashes between the two
\* replacements are invisible to who loads the memory: each document served
\* follows from the one before it by one accepted edit or one curation, and
\* none is skipped, until a `reset all`.  So a revision names one document,
\* which the cursors of memory_source_query depend on.
Versions == INSTANCE MemoryVersions WITH log <- raw, open <- pending, served <- copy

ImplementsVersions == Versions!VersionsSpec

\* `memory reset all` ends only with nothing left, whatever state of the two
\* files it began with.
ResetAllEmpties ==
  [][at["reset"] # "down" /\ at'["reset"] = "down" /\ crashes' = crashes
       /\ job["reset"] \in {"beforeAll", "emptied"}
     => raw' = <<>> /\ pending' = 0 /\ main' = EmptyDocument /\ copy' = EmptyDocument]_vars

\* README and contracts/cli.md: after `memory reset all` the directory is in
\* its first-start state, so no turn of before it comes back.
ResetForgets == at["reset"] = "down" => ToSet(raw) \cap forgotten = {}
=============================================================================
