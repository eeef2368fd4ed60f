---------------------------- MODULE ChatHistory ----------------------------
(***************************************************************************)
(* What the memory directory promises to the person who chats: a history   *)
(* of turns in which every turn appears whole or as one unanswered USER    *)
(* record at the very end, in a single indivisible step together with the  *)
(* long-term document curated on its way, and a display that never shows   *)
(* an answer before the history holds it.  Crashes do not exist here.      *)
(*                                                                         *)
(* TurnTransaction, which has files, a journal, crashes and restarts,      *)
(* implements this specification.                                          *)
(***************************************************************************)
EXTENDS ChatRecords

VARIABLES log,      \* the raw history, as the reader of the archive sees it
          memory,   \* the long-term document
          shown     \* the turns whose answer was printed

historyVars == <<log, memory, shown>>

\* m is what one curation of the answered part of the history may publish:
\* a next revision that moves the frontier forward, forgets nothing, and
\* whose new memories cite only records of the batch between the frontiers.
Curated(m) ==
  /\ m \in Document
  /\ m.revision = memory.revision + 1
  /\ memory.frontier < m.frontier
  /\ m.frontier <= Answered(log)
  /\ memory.memories \subseteq m.memories
  /\ m.memories \ memory.memories \subseteq
        TurnsBetween(log, memory.frontier + 1, m.frontier)

Fresh(t) == ~Has(log, User(t)) /\ ~Has(log, Assistant(t))

HistoryInit ==
  /\ log = <<>>
  /\ memory = EmptyDocument
  /\ shown = {}

\* A new turn is answered: both records and the staged document at once.
AnswerNew(t) ==
  /\ ~PendingTail(log)
  /\ Fresh(t)
  /\ log' = Append(Append(log, User(t)), Assistant(t))
  /\ memory' = memory \/ Curated(memory')
  /\ UNCHANGED shown

\* A new turn whose model call failed for good leaves its question behind.
LeavePending(t) ==
  /\ ~PendingTail(log)
  /\ Fresh(t)
  /\ log' = Append(log, User(t))
  /\ UNCHANGED <<memory, shown>>

\* The unanswered question at the end is answered.
AnswerPending ==
  /\ PendingTail(log)
  /\ log' = Append(log, Assistant(log[Len(log)].turn))
  /\ UNCHANGED <<memory, shown>>

\* The unanswered question at the end is dropped; nothing else ever is.
DropPending ==
  /\ PendingTail(log)
  /\ log' = CutTail(log)
  /\ UNCHANGED <<memory, shown>>

\* While a question is pending, the answered turns before it are curated.
CurateBeforePending ==
  /\ PendingTail(log)
  /\ Curated(memory')
  /\ UNCHANGED <<log, shown>>

\* The answer of a turn the history holds is printed.
Show(t) ==
  /\ Complete(log, t)
  /\ shown' = shown \cup {t}
  /\ UNCHANGED <<log, memory>>

HistoryNext ==
  \/ \E t \in Turn : AnswerNew(t) \/ LeavePending(t) \/ Show(t)
  \/ AnswerPending
  \/ DropPending
  \/ CurateBeforePending

HistorySpec == HistoryInit /\ [][HistoryNext]_historyVars
=============================================================================
