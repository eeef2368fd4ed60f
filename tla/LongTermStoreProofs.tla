------------------------ MODULE LongTermStoreProofs ------------------------
(***************************************************************************)
(* Theorems about LongTermStore for every value of its constants.          *)
(***************************************************************************)
EXTENDS LongTermStore, SequenceTheorems, TLAPS

InStore == {"main", "fallback", "copy", "check", "replace", "refresh", "done"}

(***************************************************************************)
(* The types, in parts, and what a process holds where it is: a document   *)
(* once it has read one, a turn while it works on one, a journal while it  *)
(* publishes one.                                                          *)
(***************************************************************************)
FileTypes ==
  /\ main \in Document \cup {Broken} /\ copy \in Document
  /\ whole \in Document \cup {None}
  /\ main = Broken => whole \in Document

ProcessTypes ==
  /\ at \in [Process -> Location] /\ job \in [Process -> Job]
  /\ doc \in [Process -> Document \cup {None}]
  /\ loadedHash \in [Process -> Document \cup {None, Broken}]
  /\ readOnly \in [Process -> BOOLEAN]
  /\ \A p \in Process :
       at[p] \in {"copy", "check", "replace", "refresh", "done", "curator", "cut"}
         => doc[p] \in Document

\* The chat works on a turn, from its first load to the answer.
InTurn ==
  \/ at["chat"] \in {"curator", "ask"}
  \/ at["chat"] \in InStore /\ job["chat"] \in {"begin", "stage", "curate", "context"}

TurnTypes ==
  /\ base \in Document \cup {None} /\ target \in Document \cup {None}
  /\ turn \in Turn \cup {0} /\ resumed \in BOOLEAN
  /\ InTurn => turn \in Turn
  /\ InTurn /\ (at["chat"] \in InStore => job["chat"] # "begin")
       => resumed \/ base \in Document
  /\ at["chat"] = "curator" => target \in Document /\ job["chat"] = "stage"

DiskTypes ==
  /\ raw \in Seq(Turn) /\ pending \in Turn \cup {0}
  /\ journal \in Journal \cup {None}
  /\ at["chat"] = "publish" => journal # None
  /\ at["chat"] \in InStore /\ job["chat"] \in {"publish", "commit"}
       => journal # None /\ journal.target # None

CountTypes ==
  /\ nextTurn \in 1..(MaxTurns + 1) /\ edits \in 0..MaxEdits
  /\ resets \in 0..MaxResets /\ crashes \in 0..MaxCrashes
  /\ curated \subseteq Turn /\ forgotten \subseteq Turn
  /\ restarted \in BOOLEAN /\ orphans \subseteq Turn \cup {0}

TypeInv == FileTypes /\ ProcessTypes /\ TurnTypes /\ DiskTypes /\ CountTypes

-----------------------------------------------------------------------------
(***************************************************************************)
(* Documents.                                                              *)
(***************************************************************************)
LEMMA EmptyIsDocument == EmptyDocument \in Document
<1>1. <<>> \in Seq(Turn)
  OBVIOUS
<1> QED BY <1>1 DEF EmptyDocument, Document

\* Nothing of it but the number and the frontier is left.
LEMMA Cleared ==
  ASSUME NEW d \in Document
  PROVE  /\ [d EXCEPT !.revision = d.revision + 1, !.items = {}] \in Document
         /\ [d EXCEPT !.revision = d.revision + 1, !.items = {}].revision = d.revision + 1
         /\ [d EXCEPT !.revision = d.revision + 1, !.items = {}].items = {}
<1>1. d.revision + 1 \in Nat /\ {} \in SUBSET Item
  BY DEF Document
<1> QED BY <1>1 DEF Document

\* An accepted edit: the next revision of the copy, over the same turns, and
\* what the copy did not have is manual.
LEMMA Accepted ==
  ASSUME NEW d \in Document, NEW c \in Document
  PROVE  /\ Accept(d, c) \in Document
         /\ Accept(d, c).revision = c.revision + 1
         /\ Accept(d, c).covered = d.covered
         /\ \A item \in Accept(d, c).items : item \in c.items \/ item.by = "manual"
         /\ Sources(Accept(d, c)) = Sources(d)
<1> DEFINE kept(item) == IF item \in c.items THEN item ELSE [item EXCEPT !.by = "manual"]
           new == {kept(item) : item \in d.items}
<1>1. /\ d.revision \in Nat /\ d.covered \in Seq(Turn) /\ d.items \subseteq Item
      /\ c.revision \in Nat
  BY DEF Document
<1>2. \A item \in d.items : /\ kept(item) \in Item /\ kept(item).source = item.source
                            /\ kept(item) \in c.items \/ kept(item).by = "manual"
  BY <1>1 DEF Item
<1>3. Accept(d, c) = [d EXCEPT !.revision = c.revision + 1, !.items = new]
  BY DEF Accept
<1> HIDE DEF kept
<1>4. new \subseteq Item /\ \A item \in new : item \in c.items \/ item.by = "manual"
  BY <1>1, <1>2
<1>5. {item.source : item \in new} = {item.source : item \in d.items}
  BY <1>1, <1>2
<1> HIDE DEF new
<1>6. /\ Accept(d, c).revision = c.revision + 1 /\ Accept(d, c).covered = d.covered
      /\ Accept(d, c).items = new /\ Accept(d, c) \in Document
  <2>1. c.revision + 1 \in Nat /\ new \in SUBSET Item
    BY <1>1, <1>4
  <2> QED BY <2>1, <1>3 DEF Document
<1>7. Sources(Accept(d, c)) = Sources(d)
  BY <1>5, <1>6 DEF Sources
<1> QED BY <1>4, <1>6, <1>7

\* A proposal: the next revision, of a document over the first turns, with all
\* its memories and others of the turns of the batch.
LEMMA Proposed ==
  ASSUME raw \in Seq(Turn), NEW d \in Document, NEW t \in Proposals(d)
  PROVE  /\ t \in Document
         /\ t.revision = d.revision + 1
         /\ d.items \subseteq t.items
         /\ \E n \in 1..Len(raw) :
              /\ t.covered = SubSeq(raw, 1, n) /\ Len(d.covered) < n
              /\ \A item \in t.items \ d.items :
                   /\ item.by = "auto" /\ item.source \notin Sources(d)
                   /\ item.source \in ToSet(SubSeq(raw, Len(d.covered) + 1, n))
<1>1. PICK n \in (Len(d.covered) + 1)..Len(raw) :
        \E new \in SUBSET (Batch(d, n) \ Sources(d)) : t = Merged(d, n, new)
  BY DEF Proposals
<1>0. PICK new \in SUBSET (Batch(d, n) \ Sources(d)) : t = Merged(d, n, new)
  BY <1>1
<1>2. d.revision \in Nat /\ d.covered \in Seq(Turn) /\ d.items \subseteq Item
  BY DEF Document
<1>3. n \in 1..Len(raw) /\ Len(d.covered) < n
  <2>1. Len(d.covered) \in Nat /\ Len(raw) \in Nat
    BY <1>2
  <2> QED BY <2>1
<1>4. SubSeq(raw, 1, n) \in Seq(Turn)
  BY <1>3
<1>5. Batch(d, n) \subseteq Turn
  <2> DEFINE next == SubSeq(raw, Len(d.covered) + 1, n)
  <2>1. next \in Seq(Turn)
    BY <1>2, <1>3
  <2> HIDE DEF next
  <2>2. ToSet(next) \subseteq Turn
    BY <2>1 DEF ToSet
  <2> QED BY <2>2 DEF Batch, next
<1> DEFINE fresh == {[source |-> s, by |-> "auto"] : s \in new}
<1>6. /\ fresh \subseteq Item
      /\ \A item \in fresh : /\ item.by = "auto" /\ item.source \notin Sources(d)
                             /\ item.source \in Batch(d, n)
  BY <1>0, <1>5 DEF Item
<1> HIDE DEF fresh
<1>7. /\ t.items = d.items \cup fresh /\ t.covered = SubSeq(raw, 1, n)
      /\ t.revision = d.revision + 1
  BY <1>0 DEF Merged, fresh
<1>8. t \in Document
  BY <1>0, <1>2, <1>4, <1>6 DEF Document, Merged, fresh
<1> QED BY <1>3, <1>6, <1>7, <1>8 DEF Batch

-----------------------------------------------------------------------------
(***************************************************************************)
(* The types.                                                              *)
(***************************************************************************)
LEMMA Bounds == MaxTurns \in Nat /\ MaxEdits \in Nat /\ MaxResets \in Nat /\ MaxCrashes \in Nat
BY StoreAssumption

LEMMA TypesInit == Init => TypeInv
<1> SUFFICES ASSUME Init PROVE TypeInv
  OBVIOUS
<1>1. FileTypes
  BY EmptyIsDocument, SentinelAssumption DEF Init, FileTypes
<1>2. ProcessTypes
  BY DEF Init, ProcessTypes, Process, Location, Job
<1>3. TurnTypes
  BY DEF Init, TurnTypes, InTurn, Process, InStore
<1>4. DiskTypes
  BY DEF Init, DiskTypes, Process, InStore
<1>5. CountTypes
  <2>1. /\ nextTurn \in 1..(MaxTurns + 1) /\ edits \in 0..MaxEdits
        /\ resets \in 0..MaxResets /\ crashes \in 0..MaxCrashes
    BY Bounds DEF Init
  <2> QED BY <2>1 DEF Init, CountTypes
<1> QED BY <1>1, <1>2, <1>3, <1>4, <1>5 DEF TypeInv

\* The two files change in a load, in a commit and in a person's editor only.
LEMMA FilesAlone ==
  (\E p \in Process : Crash(p)) \/ ChatStep \/ ResetStep \/ CheckStep => UNCHANGED files
<1>1. ASSUME NEW p \in Process, Crash(p) PROVE UNCHANGED files
  BY <1>1 DEF Crash
<1>2. ASSUME ChatStep PROVE UNCHANGED files
  BY <1>2 DEF ChatStep, StartChat, Recover, BootSettles, PassGate, GateRefuses, CutTail,
      BootResumes, BeginTurn, Checkpoint, NothingToCurate, AskCurator, CuratorReplies,
      CuratedNow, AskModel, Answer, AnswerResumed, ModelFails, Reject, PublishTurn,
      PublishConflict, PublishTarget, PublishedBefore, TargetConflict, TargetCommitted, Unlink,
      ExitChat
<1>3. ASSUME ResetStep \/ CheckStep PROVE UNCHANGED files
  BY <1>3 DEF ResetStep, StartReset, ClearLongTerm, CommitCleared, EndCleared, LookedAtAll,
      FactoryState, StartWipe, UnlinkSegment, EndWiped, CheckStep, StartCheck, EndCheck
<1> QED BY <1>1, <1>2, <1>3

LEMMA FilesFrame ==
  Next => UNCHANGED files \/ PersonStep
            \/ \E p \in Process : ReplaceMain(p) \/ RefreshCopy(p)
<1>1. ASSUME NEW p \in Process, StoreStep(p)
      PROVE  UNCHANGED files \/ ReplaceMain(p) \/ RefreshCopy(p)
  BY <1>1 DEF StoreStep, ReadMain, Fallback, CompareSame, CompareEdited, CompareRefused,
              CheckWrite, WriteRefused
<1> QED BY <1>1, FilesAlone DEF Next

\* What a person saves is a document, or broken; only the memories differ.
LEMMA PersonSavesDocument ==
  ASSUME TypeInv, PersonStep
  PROVE  \/ main' = Broken /\ main \in Document /\ whole' = main
         \/ main = Broken /\ main' = whole /\ main' \in Document
         \/ /\ main \in Document /\ main' \in Document /\ main # Broken /\ main' # Broken
            /\ main'.revision = main.revision /\ main'.covered = main.covered
            /\ Sources(main') \subseteq Sources(main) \cup ToSet(raw) \cup {pending}
            /\ whole' = whole
<1> USE DEF TypeInv, FileTypes
<1>1. CASE AddMemory
  <2>1. PICK t \in ToSet(raw) \cup ({pending} \ {0}), who \in {"auto", "manual"} :
          main' = [main EXCEPT !.items = @ \cup {[source |-> t, by |-> who]}]
    BY <1>1 DEF AddMemory
  <2>2. t \in Turn
    BY <2>1 DEF DiskTypes, ToSet
  <2>3. main \in Document /\ main.items \cup {[source |-> t, by |-> who]} \in SUBSET Item
    BY <1>1, <2>2 DEF AddMemory, Document, Item
  <2>4. /\ main' \in Document /\ main'.revision = main.revision
        /\ main'.covered = main.covered
        /\ main'.items = main.items \cup {[source |-> t, by |-> who]}
    BY <2>1, <2>3 DEF Document
  <2>5. Sources(main') \subseteq Sources(main) \cup ToSet(raw) \cup {pending}
    BY <2>1, <2>4 DEF Sources
  <2> QED BY <2>3, <2>4, <2>5, <1>1, SentinelAssumption DEF AddMemory
<1>2. CASE RemoveMemory
  <2>1. PICK item \in main.items : main' = [main EXCEPT !.items = @ \ {item}]
    BY <1>2 DEF RemoveMemory
  <2>2. main \in Document /\ main.items \ {item} \in SUBSET Item
    BY <1>2 DEF RemoveMemory, Document
  <2>3. /\ main' \in Document /\ main'.revision = main.revision
        /\ main'.covered = main.covered /\ main'.items = main.items \ {item}
    BY <2>1, <2>2 DEF Document
  <2>4. Sources(main') \subseteq Sources(main) \cup ToSet(raw) \cup {pending}
    BY <2>3 DEF Sources
  <2> QED BY <2>2, <2>3, <2>4, <1>2, SentinelAssumption DEF RemoveMemory
<1>3. CASE BreakFile
  BY <1>3 DEF BreakFile
<1>4. CASE RepairFile
  BY <1>4 DEF RepairFile
<1> QED BY <1>1, <1>2, <1>3, <1>4 DEF PersonStep

\* A person's save leaves the copy and the processes alone.
LEMMA PersonFrame ==
  PersonStep => UNCHANGED <<disk, copy, at, job, store, turnVars, nextTurn, resets,
                            crashes, history>> /\ at["reset"] = "down"
BY DEF PersonStep, AddMemory, RemoveMemory, BreakFile, RepairFile, PersonSaves

LEMMA FilesNext == TypeInv /\ Next => FileTypes'
<1> SUFFICES ASSUME TypeInv, Next PROVE FileTypes'
  OBVIOUS
<1> USE DEF TypeInv, FileTypes
<1>1. ASSUME UNCHANGED files PROVE FileTypes'
  BY <1>1 DEF files
<1>2. ASSUME NEW p \in Process, ReplaceMain(p) PROVE FileTypes'
  <2>1. doc[p] \in Document
    BY <1>2 DEF ReplaceMain, ProcessTypes
  <2> QED BY <2>1, <1>2, SentinelAssumption DEF ReplaceMain
<1>3. ASSUME NEW p \in Process, RefreshCopy(p) PROVE FileTypes'
  BY <1>3 DEF RefreshCopy, ProcessTypes
<1>4. ASSUME PersonStep PROVE FileTypes'
  <2>1. copy' = copy
    BY <1>4, PersonFrame
  <2>2. whole' \in Document \cup {None}
    BY <1>4 DEF PersonStep, AddMemory, RemoveMemory, BreakFile, RepairFile
  <2> QED BY <1>4, <2>1, <2>2, PersonSavesDocument, SentinelAssumption
<1> QED BY FilesFrame, <1>1, <1>2, <1>3, <1>4

LEMMA EndTypes ==
  ASSUME ProcessTypes, NEW p \in Process, End(p)
  PROVE  ProcessTypes'
BY DEF ProcessTypes, End, GoTo, Process, Location, Job

LEMMA StoreStepTypes ==
  ASSUME TypeInv, NEW p \in Process, StoreStep(p)
  PROVE  ProcessTypes'
<1> USE DEF ProcessTypes, GoTo, Process, Location, Job
<1>0. ProcessTypes /\ FileTypes
  BY DEF TypeInv
<1>1. ASSUME Raise(p) PROVE at' \in [Process -> Location] /\ ProcessTypes' 
  BY <1>0, <1>1, EndTypes DEF Raise, store
<1>2. CASE ReadMain(p)
  BY <1>0, <1>2 DEF ReadMain, Parses, FileTypes
<1>3. CASE Fallback(p)
  <2>1. CASE Parses(copy)
    <3>1. readOnly' \in [Process -> BOOLEAN]
      <4>1. readOnly' = [readOnly EXCEPT ![p] = TRUE] /\ readOnly \in [Process -> BOOLEAN]
        BY <1>0, <1>3, <2>1 DEF Fallback
      <4> HIDE DEF Process
      <4> QED BY <4>1
    <3>2. loadedHash' \in [Process -> Document \cup {None, Broken}] /\ job' = job
      BY <1>0, <1>3, <2>1 DEF Fallback
    <3>3. /\ at' \in [Process -> Location] /\ doc' \in [Process -> Document \cup {None}]
          /\ \A q \in Process :
               at'[q] \in {"copy", "check", "replace", "refresh", "done", "curator", "cut"}
                 => doc'[q] \in Document
      BY <1>0, <1>3, <2>1 DEF Fallback, FileTypes
    <3> QED BY <1>0, <3>1, <3>2, <3>3
  <2>2. CASE ~Parses(copy)
    BY <1>1, <1>3, <2>2 DEF Fallback
  <2> QED BY <2>1, <2>2
<1>4. CASE CompareSame(p)
  BY <1>0, <1>4 DEF CompareSame, Remember
<1>5. CASE CompareEdited(p)
  <2>1. Accept(doc[p], copy) \in Document /\ doc[p] \in Document
    BY <1>0, <1>5, Accepted DEF CompareEdited, FileTypes
  <2> QED BY <1>0, <1>5, <2>1 DEF CompareEdited, Remember
<1>6. CASE CompareRefused(p)
  BY <1>1, <1>6 DEF CompareRefused
<1>7. CASE CheckWrite(p)
  BY <1>0, <1>7 DEF CheckWrite, store
<1>8. CASE WriteRefused(p)
  BY <1>1, <1>8 DEF WriteRefused
<1>9. CASE ReplaceMain(p)
  BY <1>0, <1>9 DEF ReplaceMain
<1>10. CASE RefreshCopy(p)
  BY <1>0, <1>10 DEF RefreshCopy, store
<1> QED BY <1>2, <1>3, <1>4, <1>5, <1>6, <1>7, <1>8, <1>9, <1>10 DEF StoreStep

LEMMA ChatStepTypes ==
  ASSUME TypeInv, ChatStep
  PROVE  ProcessTypes'
<1> USE DEF ProcessTypes, GoTo, Load, Process, Location, Job, store
<1>0. ProcessTypes /\ FileTypes /\ "chat" \in Process
  BY DEF TypeInv
<1>1. CASE StartChat \/ Recover \/ BootSettles \/ BootResumes \/ BeginTurn
  BY <1>0, <1>1 DEF StartChat, Recover, BootSettles, BootResumes, BeginTurn
<1>2. CASE GateRefuses \/ ModelFails \/ PublishConflict \/ TargetConflict \/ ExitChat
  BY <1>0, <1>2, EndTypes DEF GateRefuses, ModelFails, PublishConflict, TargetConflict, ExitChat
<1>3. CASE Checkpoint \/ NothingToCurate \/ CuratedNow \/ AskModel \/ Answer
  BY <1>0, <1>3 DEF Checkpoint, NothingToCurate, CuratedNow, AskModel, Answer
<1>4. CASE AskCurator
  BY <1>0, <1>4 DEF AskCurator, Returned
<1>5. CASE CuratorReplies
  BY <1>0, <1>5 DEF CuratorReplies, Commit, TypeInv, TurnTypes
<1>6. CASE AnswerResumed \/ Reject \/ CutTail
  BY <1>0, <1>6 DEF AnswerResumed, Reject, CutTail, ToIdle
<1>7. CASE PublishTurn \/ PublishedBefore \/ TargetCommitted \/ Unlink
  BY <1>0, <1>7 DEF PublishTurn, PublishedBefore, TargetCommitted, Unlink, ToIdle
<1>8. CASE PublishTarget
  <2>1. journal.target \in Document
    BY <1>8 DEF PublishTarget, Returned, TypeInv, DiskTypes, InStore, Journal
  <2> QED BY <1>0, <1>8, <2>1 DEF PublishTarget, Commit
<1>9. CASE PassGate
  BY <1>0, <1>9 DEF PassGate, Discardable, Parses, FileTypes
<1> QED BY <1>1, <1>2, <1>3, <1>4, <1>5, <1>6, <1>7, <1>8, <1>9 DEF ChatStep

LEMMA OtherStepTypes ==
  ASSUME TypeInv, ResetStep \/ CheckStep
  PROVE  ProcessTypes'
<1> USE DEF ProcessTypes, GoTo, Load, Commit, Process, Location, Job, store
<1>0. ProcessTypes /\ FileTypes
  BY DEF TypeInv
<1>1. CASE StartReset \/ StartCheck \/ ClearLongTerm \/ LookedAtAll \/ StartWipe
  BY <1>0, <1>1 DEF StartReset, StartCheck, ClearLongTerm, LookedAtAll, StartWipe
<1>2. CASE EndCleared \/ EndWiped \/ EndCheck
  BY <1>0, <1>2, EndTypes DEF EndCleared, EndWiped, EndCheck
<1>3. CASE CommitCleared
  <2>1. doc["reset"] \in Document
    BY <1>0, <1>3 DEF CommitCleared, Returned
  <2>2. [doc["reset"] EXCEPT !.revision = doc["reset"].revision + 1, !.items = {}] \in Document
    BY <2>1, Cleared
  <2> QED BY <1>0, <1>3, <2>2 DEF CommitCleared
<1>4. CASE FactoryState
  BY <1>0, <1>4, EmptyIsDocument DEF FactoryState, FileTypes
<1>5. CASE UnlinkSegment
  BY <1>0, <1>5 DEF UnlinkSegment
<1> QED BY <1>1, <1>2, <1>3, <1>4, <1>5 DEF ResetStep, CheckStep

\* What a process does, the person aside.
StepOf(p) ==
  \/ StoreStep(p) \/ Crash(p)
  \/ p = "chat" /\ ChatStep
  \/ p = "reset" /\ ResetStep
  \/ p = "check" /\ CheckStep

LEMMA Steps == Next => PersonStep \/ \E p \in Process : StepOf(p)
BY DEF Next, StepOf, Process

LEMMA StepIsNext == ASSUME NEW p \in Process, StepOf(p) PROVE Next
BY DEF Next, StepOf

\* The place, the job and the store object of a process are its own.
LEMMA ProcessFrame ==
  ASSUME ProcessTypes, NEW p \in Process, StepOf(p), NEW q \in Process, q # p
  PROVE  /\ at'[q] = at[q] /\ job'[q] = job[q] /\ doc'[q] = doc[q]
         /\ loadedHash'[q] = loadedHash[q] /\ readOnly'[q] = readOnly[q]
<1> USE DEF ProcessTypes, GoTo, Process, store
<1>1. ASSUME End(p) PROVE /\ at'[q] = at[q] /\ job'[q] = job[q] /\ doc'[q] = doc[q]
                          /\ loadedHash'[q] = loadedHash[q] /\ readOnly'[q] = readOnly[q]
  BY <1>1 DEF End
<1>2. ASSUME Raise(p) PROVE /\ at'[q] = at[q] /\ job'[q] = job[q] /\ doc'[q] = doc[q]
                            /\ loadedHash'[q] = loadedHash[q] /\ readOnly'[q] = readOnly[q]
  BY <1>1, <1>2 DEF Raise
<1>3. CASE StoreStep(p)
  BY <1>2, <1>3 DEF StoreStep, ReadMain, Fallback, CompareSame, CompareEdited, CompareRefused,
                    CheckWrite, WriteRefused, ReplaceMain, RefreshCopy, Remember
<1>4. CASE Crash(p)
  BY <1>1, <1>4 DEF Crash
<1>5. CASE p = "chat" /\ ChatStep
  <2>1. CASE StartChat \/ Recover \/ BootSettles \/ PassGate \/ GateRefuses
             \/ BootResumes \/ BeginTurn
    BY <1>1, <1>5, <2>1 DEF StartChat, Recover, BootSettles, PassGate, GateRefuses, BootResumes,
                            BeginTurn, Load
  <2>2. CASE Checkpoint \/ NothingToCurate \/ AskCurator \/ CuratorReplies \/ CuratedNow \/ AskModel
    BY <1>5, <2>2 DEF Checkpoint, NothingToCurate, AskCurator, CuratorReplies, CuratedNow,
                      AskModel, Load, Commit
  <2>3. CASE Answer \/ AnswerResumed \/ ModelFails \/ Reject \/ CutTail
    BY <1>1, <1>5, <2>3 DEF Answer, AnswerResumed, ModelFails, Reject, CutTail, ToIdle
  <2>4. CASE PublishTurn \/ PublishConflict \/ PublishTarget \/ PublishedBefore \/ TargetConflict
    BY <1>1, <1>5, <2>4 DEF PublishTurn, PublishConflict, PublishTarget, PublishedBefore,
                            TargetConflict, Load, Commit
  <2>5. CASE TargetCommitted \/ Unlink \/ ExitChat
    BY <1>1, <1>5, <2>5 DEF TargetCommitted, Unlink, ExitChat, ToIdle
  <2> QED BY <1>5, <2>1, <2>2, <2>3, <2>4, <2>5 DEF ChatStep
<1>6. CASE p = "reset" /\ ResetStep
  BY <1>1, <1>6 DEF ResetStep, StartReset, ClearLongTerm, CommitCleared, EndCleared, LookedAtAll,
                    FactoryState, StartWipe, UnlinkSegment, EndWiped, Load, Commit
<1>7. CASE p = "check" /\ CheckStep
  BY <1>1, <1>7 DEF CheckStep, StartCheck, EndCheck, Load
<1> QED BY <1>3, <1>4, <1>5, <1>6, <1>7 DEF StepOf

\* The turn is the chat's.
LEMMA TurnFrame ==
  ASSUME NEW p \in Process, p # "chat", StepOf(p)
  PROVE  UNCHANGED turnVars
<1>1. ASSUME End(p) \/ Raise(p) PROVE UNCHANGED turnVars
  BY <1>1 DEF End, Raise
<1>2. CASE StoreStep(p) \/ Crash(p)
  BY <1>1, <1>2 DEF StoreStep, ReadMain, Fallback, CompareSame, CompareEdited, CompareRefused,
                    CheckWrite, WriteRefused, ReplaceMain, RefreshCopy, Crash
<1>3. CASE p = "reset" /\ ResetStep
  BY <1>1, <1>3 DEF ResetStep, StartReset, ClearLongTerm, CommitCleared, EndCleared, LookedAtAll,
                    FactoryState, StartWipe, UnlinkSegment, EndWiped
<1>4. CASE p = "check" /\ CheckStep
  BY <1>1, <1>4 DEF CheckStep, StartCheck, EndCheck
<1> QED BY <1>2, <1>3, <1>4 DEF StepOf

LEMMA ProcessNext == TypeInv /\ Next => ProcessTypes'
<1> SUFFICES ASSUME TypeInv, Next PROVE ProcessTypes'
  OBVIOUS
<1>1. CASE PersonStep
  BY <1>1, PersonFrame DEF store, TypeInv, ProcessTypes
<1>2. ASSUME NEW p \in Process, Crash(p) PROVE ProcessTypes'
  BY <1>2, EndTypes DEF Crash, TypeInv
<1> QED BY <1>1, <1>2, StoreStepTypes, ChatStepTypes, OtherStepTypes DEF Next

\* The chat's own steps and those of its store object.
LEMMA ChatFrame ==
  ASSUME ProcessTypes, Next, ~StepOf("chat")
  PROVE  UNCHANGED <<turnVars, at["chat"], job["chat"], doc["chat"], loadedHash["chat"],
                     readOnly["chat"]>>
<1>1. CASE PersonStep
  BY <1>1, PersonFrame DEF store
<1>2. ASSUME NEW p \in Process, p # "chat", StepOf(p)
      PROVE  UNCHANGED <<turnVars, at["chat"], job["chat"], doc["chat"], loadedHash["chat"],
                         readOnly["chat"]>>
  BY <1>2, ProcessFrame, TurnFrame DEF Process
<1> QED BY <1>1, <1>2, Steps

\* A store object takes no turn on; when it fails the turn is over.
LEMMA ChatStores ==
  ASSUME ProcessTypes, StoreStep("chat")
  PROVE  \/ /\ UNCHANGED <<turnVars, job>>
            /\ at["chat"] \in InStore /\ at'["chat"] \in InStore
         \/ at'["chat"] = "down" /\ base' = None /\ target' = None /\ turn' = 0
            /\ resumed' = FALSE /\ job'["chat"] = "none"
<1> USE DEF ProcessTypes, GoTo, Process, InStore, store
<1>1. ASSUME Raise("chat")
      PROVE  at'["chat"] = "down" /\ base' = None /\ target' = None /\ turn' = 0
             /\ resumed' = FALSE /\ job'["chat"] = "none"
  BY <1>1 DEF Raise, End
<1> QED BY <1>1 DEF StoreStep, ReadMain, Fallback, CompareSame, CompareEdited, CompareRefused,
                    CheckWrite, WriteRefused, ReplaceMain, RefreshCopy, Remember

LEMMA TurnNext == TypeInv /\ Next => TurnTypes'
<1> SUFFICES ASSUME TypeInv, Next PROVE TurnTypes'
  OBVIOUS
<1> USE DEF TurnTypes, InTurn, InStore, GoTo, Load, Commit, Process
<1>0. TurnTypes /\ ProcessTypes /\ DiskTypes /\ CountTypes /\ FileTypes
  BY DEF TypeInv
<1>1. CASE ~StepOf("chat")
  BY <1>0, <1>1, ChatFrame DEF turnVars
<1>2. CASE StoreStep("chat")
  BY <1>0, <1>2, ChatStores DEF turnVars
<1>3. ASSUME End("chat") PROVE TurnTypes'
  BY <1>0, <1>3 DEF End, ProcessTypes
<1>4. CASE Crash("chat")
  BY <1>3, <1>4 DEF Crash
<1>5. CASE ChatStep
  <2> USE DEF ProcessTypes
  <2>1. CASE StartChat \/ Recover \/ BootSettles \/ PassGate
    BY <1>0, <2>1 DEF StartChat, Recover, BootSettles, PassGate, turnVars
  <2>2. CASE GateRefuses \/ ModelFails \/ PublishConflict \/ TargetConflict \/ ExitChat
    BY <1>3, <2>2 DEF GateRefuses, ModelFails, PublishConflict, TargetConflict, ExitChat
  <2>3. CASE BootResumes
    BY <1>0, <2>3 DEF BootResumes, DiskTypes
  <2>4. CASE BeginTurn
    <3>1. nextTurn \in Turn
      BY <1>0, <2>4, Bounds DEF BeginTurn, CountTypes, Turn
    <3> QED BY <1>0, <2>4, <3>1 DEF BeginTurn
  <2>5. CASE Checkpoint \/ NothingToCurate \/ CuratedNow \/ AskModel
    BY <1>0, <2>5 DEF Checkpoint, NothingToCurate, CuratedNow, AskModel, Returned, turnVars
  <2>6. CASE AskCurator
    <3>1. target' \in Document
      BY <1>0, <2>6, Proposed DEF AskCurator, Returned, DiskTypes
    <3> QED BY <1>0, <2>6, <3>1 DEF AskCurator, Returned
  <2>7. CASE CuratorReplies
    BY <1>0, <2>7 DEF CuratorReplies, turnVars
  <2>8. CASE Answer \/ AnswerResumed \/ Reject \/ CutTail
    BY <1>0, <2>8 DEF Answer, AnswerResumed, Reject, CutTail, ToIdle, turnVars
  <2>9. CASE PublishTurn \/ PublishTarget \/ PublishedBefore \/ TargetCommitted \/ Unlink
    BY <1>0, <2>9 DEF PublishTurn, PublishTarget, PublishedBefore, TargetCommitted, Unlink,
                      ToIdle, turnVars
  <2> QED BY <1>5, <2>1, <2>2, <2>3, <2>4, <2>5, <2>6, <2>7, <2>8, <2>9 DEF ChatStep
<1> QED BY <1>1, <1>2, <1>4, <1>5 DEF StepOf

LEMMA CountNext == TypeInv /\ Next => CountTypes'
<1> SUFFICES ASSUME TypeInv, Next PROVE CountTypes'
  OBVIOUS
<1> USE DEF CountTypes, history, bounds
<1>0. CountTypes /\ TurnTypes
  BY DEF TypeInv
<1>1. CASE PersonStep
  BY <1>0, <1>1, Bounds DEF PersonStep, AddMemory, RemoveMemory, BreakFile, RepairFile,
                            PersonSaves
<1>2. ASSUME NEW p \in Process, Crash(p) PROVE CountTypes'
  BY <1>0, <1>2, Bounds DEF Crash
<1>3. ASSUME NEW p \in Process, StoreStep(p) PROVE CountTypes'
  BY <1>0, <1>3 DEF StoreStep, ReadMain, Fallback, CompareSame, CompareEdited, CompareRefused,
                    CheckWrite, WriteRefused, ReplaceMain, RefreshCopy
<1>4. CASE BeginTurn
  BY <1>0, <1>4, Bounds DEF BeginTurn
<1>5. CASE AskCurator
  <2>1. /\ raw \in Seq(Turn) /\ doc["chat"] \in Document
    BY <1>5 DEF AskCurator, Returned, TypeInv, DiskTypes, ProcessTypes, Process
  <2>2. target' \in Document
    BY <1>5, <2>1, Proposed DEF AskCurator
  <2>3. Sources(target') \subseteq Turn
    BY <2>2 DEF Document, Item, Sources
  <2> QED BY <1>0, <1>5, <2>3 DEF AskCurator
<1>6. CASE ChatStep /\ ~BeginTurn /\ ~AskCurator /\ ~CutTail
  BY <1>0, <1>6 DEF ChatStep, StartChat, Recover, BootSettles, PassGate, GateRefuses, BootResumes,
      Checkpoint, NothingToCurate, CuratorReplies, CuratedNow, AskModel, Answer,
      AnswerResumed, ModelFails, Reject, PublishTurn, PublishConflict, PublishTarget,
      PublishedBefore, TargetConflict, TargetCommitted, Unlink, ExitChat
<1>7. CASE ResetStep
  <2>1. CASE StartReset
    BY <1>0, <2>1, Bounds DEF StartReset
  <2>2. CASE FactoryState
    BY <1>0, <2>2 DEF FactoryState
  <2>3. CASE EndWiped
    <3>1. 1..(nextTurn - 1) \subseteq Turn
      BY <1>0, Bounds DEF Turn
    <3> QED BY <1>0, <2>3, <3>1 DEF EndWiped
  <2>4. CASE ClearLongTerm \/ CommitCleared \/ EndCleared \/ LookedAtAll \/ StartWipe \/ UnlinkSegment
    BY <1>0, <2>4 DEF ClearLongTerm, CommitCleared, EndCleared, LookedAtAll, StartWipe,
                      UnlinkSegment
  <2> QED BY <1>7, <2>1, <2>2, <2>3, <2>4 DEF ResetStep
<1>8. CASE CheckStep
  BY <1>0, <1>8 DEF CheckStep, StartCheck, EndCheck
<1>9. CASE CutTail
  <2>1. pending \in Turn \cup {0}
    BY DEF TypeInv, DiskTypes
  <2> QED BY <1>0, <1>9, <2>1 DEF CutTail
<1> QED BY <1>1, <1>2, <1>3, <1>4, <1>5, <1>6, <1>7, <1>8, <1>9 DEF Next

\* The archive and the journal change in these steps only.
LEMMA ArchiveFrame ==
  Next => \/ UNCHANGED <<raw, journal>>
          \/ Answer \/ AnswerResumed \/ PublishTurn \/ Unlink \/ UnlinkSegment
<1> USE DEF disk
<1>1. PersonStep => UNCHANGED <<raw, journal>>
  BY PersonFrame
<1>2. ASSUME NEW p \in Process, StoreStep(p) \/ Crash(p) PROVE UNCHANGED <<raw, journal>>
  BY <1>2 DEF StoreStep, ReadMain, Fallback, CompareSame, CompareEdited, CompareRefused,
              CheckWrite, WriteRefused, ReplaceMain, RefreshCopy, Crash
<1>3. ASSUME ChatStep
      PROVE  UNCHANGED <<raw, journal>> \/ Answer \/ AnswerResumed \/ PublishTurn \/ Unlink
  BY <1>3 DEF ChatStep, StartChat, Recover, BootSettles, PassGate, GateRefuses, CutTail,
      BootResumes, BeginTurn, Checkpoint, NothingToCurate, AskCurator, CuratorReplies,
      CuratedNow, AskModel, ModelFails, Reject, PublishConflict, PublishTarget, PublishedBefore,
      TargetConflict, TargetCommitted, ExitChat
<1>4. ASSUME ResetStep \/ CheckStep PROVE UNCHANGED <<raw, journal>> \/ UnlinkSegment
  BY <1>4 DEF ResetStep, StartReset, ClearLongTerm, CommitCleared, EndCleared, LookedAtAll,
      FactoryState, StartWipe, EndWiped, CheckStep, StartCheck, EndCheck
<1> QED BY <1>1, <1>2, <1>3, <1>4 DEF Next

LEMMA RawNext == TypeInv /\ Next => raw' \in Seq(Turn)
<1> SUFFICES ASSUME TypeInv, Next PROVE raw' \in Seq(Turn)
  OBVIOUS
<1>0. raw \in Seq(Turn)
  BY DEF TypeInv, DiskTypes
<1>1. CASE AnswerResumed
  <2>1. turn \in Turn
    BY <1>1 DEF AnswerResumed, TypeInv, TurnTypes, InTurn
  <2> QED BY <1>0, <1>1, <2>1 DEF AnswerResumed
<1>2. CASE PublishTurn
  <2>1. journal.turn \in Turn
    BY <1>2 DEF PublishTurn, TypeInv, DiskTypes, Journal
  <2> QED BY <1>0, <1>2, <2>1 DEF PublishTurn
<1>3. CASE UnlinkSegment
  <2>1. \A n \in 0..(Len(raw) - 1) : SubSeq(raw, 1, n) \in Seq(Turn)
    BY <1>0
  <2> QED BY <1>0, <1>3, <2>1 DEF UnlinkSegment
<1> QED BY <1>0, <1>1, <1>2, <1>3, ArchiveFrame DEF Answer, Unlink

LEMMA PendingNext == TypeInv /\ Next => pending' \in Turn \cup {0}
<1> SUFFICES ASSUME TypeInv, Next PROVE pending' \in Turn \cup {0}
  OBVIOUS
<1> USE DEF disk
<1>0. pending \in Turn \cup {0} /\ turn \in Turn \cup {0} /\ raw \in Seq(Turn)
  BY DEF TypeInv, DiskTypes, TurnTypes
<1>1. CASE PersonStep
  BY <1>0, <1>1, PersonFrame
<1>2. ASSUME NEW p \in Process, StoreStep(p) \/ Crash(p) PROVE pending' \in Turn \cup {0}
  BY <1>0, <1>2 DEF StoreStep, ReadMain, Fallback, CompareSame, CompareEdited, CompareRefused,
              CheckWrite, WriteRefused, ReplaceMain, RefreshCopy, Crash
<1>3. CASE ChatStep
  BY <1>0, <1>3 DEF ChatStep, StartChat, Recover, BootSettles, PassGate, GateRefuses, CutTail,
      BootResumes, BeginTurn, Checkpoint, NothingToCurate, AskCurator, CuratorReplies,
      CuratedNow, AskModel, ModelFails, Reject, PublishConflict, PublishTarget, PublishedBefore,
      TargetConflict, TargetCommitted, ExitChat, Answer, AnswerResumed, PublishTurn, Unlink
<1>4. CASE UnlinkSegment
  <2>1. \A n \in 0..(Len(raw) - 1) : raw[n + 1] \in Turn
    BY <1>0
  <2> QED BY <1>0, <1>4, <2>1 DEF UnlinkSegment
<1>5. CASE CheckStep \/ (ResetStep /\ ~UnlinkSegment)
  BY <1>0, <1>5 DEF ResetStep, StartReset, ClearLongTerm, CommitCleared, EndCleared, LookedAtAll,
      FactoryState, StartWipe, EndWiped, CheckStep, StartCheck, EndCheck
<1> QED BY <1>1, <1>2, <1>3, <1>4, <1>5 DEF Next

LEMMA JournalNext ==
  TypeInv /\ Next =>
    /\ journal' \in Journal \cup {None}
    /\ at'["chat"] = "publish" => journal' # None
    /\ at'["chat"] \in InStore /\ job'["chat"] \in {"publish", "commit"}
         => journal' # None /\ journal'.target # None
<1> DEFINE Held == /\ at["chat"] = "publish" => journal # None
                   /\ at["chat"] \in InStore /\ job["chat"] \in {"publish", "commit"}
                        => journal # None /\ journal.target # None
<1> SUFFICES ASSUME TypeInv, Next PROVE journal' \in Journal \cup {None} /\ Held'
  OBVIOUS
<1>0. /\ journal \in Journal \cup {None} /\ Held
      /\ "chat" \in Process /\ at \in [Process -> Location] /\ job \in [Process -> Job]
  BY DEF TypeInv, DiskTypes, ProcessTypes, Process
<1>1. CASE Answer
  <2>1. [turn |-> turn, raw |-> raw, doc |-> base, target |-> target] \in Journal
    BY <1>1 DEF Answer, TypeInv, TurnTypes, DiskTypes, InTurn, InStore, Journal
  <2> QED BY <1>0, <1>1, <2>1, SentinelAssumption DEF Answer, GoTo, InStore
<1>2. CASE ~Answer /\ ~Unlink
  <2>1. journal' = journal
    BY <1>2, ArchiveFrame DEF AnswerResumed, PublishTurn, UnlinkSegment
  <2>2. CASE ~StepOf("chat")
    BY <1>0, <2>1, <2>2, ChatFrame DEF TypeInv
  <2>3. CASE StoreStep("chat")
    <3>1. ProcessTypes
      BY DEF TypeInv
    <3> QED BY <1>0, <2>1, <2>3, <3>1, ChatStores DEF InStore
  <2>4. ASSUME End("chat") PROVE Held'
    BY <1>0, <2>4 DEF End, GoTo, InStore
  <2>5. CASE Crash("chat")
    BY <1>0, <2>1, <2>4, <2>5 DEF Crash
  <2>6. CASE GateRefuses \/ ModelFails \/ PublishConflict \/ TargetConflict \/ ExitChat
    BY <1>0, <2>1, <2>4, <2>6 DEF GateRefuses, ModelFails, PublishConflict, TargetConflict, ExitChat
  <2>7. CASE ChatStep /\ ~(GateRefuses \/ ModelFails \/ PublishConflict
                            \/ TargetConflict \/ ExitChat)
    BY <1>0, <1>2, <2>1, <2>7 DEF ChatStep, StartChat, Recover, BootSettles, PassGate, CutTail,
        BootResumes, BeginTurn, Checkpoint, NothingToCurate, AskCurator, CuratorReplies,
        CuratedNow, AskModel, AnswerResumed, Reject, PublishTurn, PublishTarget,
        PublishedBefore, TargetCommitted,
        GoTo, Load, Commit, ToIdle, InStore, Returned
  <2> QED BY <1>0, <2>1, <2>2, <2>3, <2>5, <2>6, <2>7 DEF StepOf
<1>3. CASE Unlink
  BY <1>0, <1>3 DEF Unlink, GoTo, InStore, ToIdle
<1> QED BY <1>1, <1>2, <1>3

LEMMA TypesHold == Spec => []TypeInv
<1>1. TypeInv /\ [Next]_vars => TypeInv'
  <2> SUFFICES ASSUME TypeInv, [Next]_vars PROVE TypeInv'
    OBVIOUS
  <2>1. CASE Next
    <3>1. DiskTypes'
      BY <2>1, RawNext, PendingNext, JournalNext DEF DiskTypes
    <3> QED BY <2>1, <3>1, FilesNext, ProcessNext, TurnNext, CountNext DEF TypeInv
  <2>2. CASE UNCHANGED vars
    BY <2>2 DEF TypeInv, FileTypes, ProcessTypes, TurnTypes, DiskTypes, CountTypes, InTurn, vars,
                disk, files, store, turnVars, bounds, history
  <2> QED BY <2>1, <2>2
<1> QED BY <1>1, TypesInit, PTL DEF Spec

\* Every variable has its type: what a load or a commit holds is a document,
\* whatever the two files hold, and no check, reset or chat mistakes a broken
\* file or an absent one for one (LongTermStore.load, commit).
THEOREM TypesAreKept == Spec => []TypeOK
<1>1. TypeInv => TypeOK
  BY DEF TypeInv, FileTypes, ProcessTypes, TurnTypes, DiskTypes, CountTypes, TypeOK
<1> QED BY <1>1, TypesHold, PTL

-----------------------------------------------------------------------------
(***************************************************************************)
(* Who made a memory.  A main file may say anything; what has passed a     *)
(* load or a proposal says "auto" of the curator's memories only.          *)
(***************************************************************************)
FromCurator(d) == \A item \in d.items : item.by = "auto" => item.source \in curated

CreatorInv ==
  /\ FromCurator(copy)
  /\ target # None => FromCurator(target)
  /\ journal # None /\ journal.target # None => FromCurator(journal.target)
  /\ \A p \in Process :
       at[p] \in {"check", "replace", "refresh", "done", "curator"} => FromCurator(doc[p])

\* The curator only adds to what it has made items of.
LEMMA CuratedGrows == Next => curated \subseteq curated'
<1> USE DEF history
<1>1. PersonStep => curated \subseteq curated'
  BY PersonFrame
<1>2. ASSUME NEW p \in Process, StoreStep(p) \/ Crash(p) PROVE curated \subseteq curated'
  BY <1>2 DEF StoreStep, ReadMain, Fallback, CompareSame, CompareEdited, CompareRefused,
              CheckWrite, WriteRefused, ReplaceMain, RefreshCopy, Crash
<1>3. ASSUME ChatStep PROVE curated \subseteq curated'
  BY <1>3 DEF ChatStep, StartChat, Recover, BootSettles, PassGate, GateRefuses, CutTail,
      BootResumes, BeginTurn, Checkpoint, NothingToCurate, AskCurator, CuratorReplies,
      CuratedNow, AskModel, Answer, AnswerResumed, ModelFails, Reject, PublishTurn,
      PublishConflict, PublishTarget, PublishedBefore, TargetConflict, TargetCommitted, Unlink,
      ExitChat
<1>4. ASSUME ResetStep \/ CheckStep PROVE curated \subseteq curated'
  BY <1>4 DEF ResetStep, StartReset, ClearLongTerm, CommitCleared, EndCleared, LookedAtAll,
      FactoryState, StartWipe, UnlinkSegment, EndWiped, CheckStep, StartCheck, EndCheck
<1> QED BY <1>1, <1>2, <1>3, <1>4 DEF Next

\* The documents a process holds after a step of its own.
LEMMA CreatorOfProcess ==
  ASSUME TypeInv, CreatorInv, NEW p \in Process, StepOf(p),
         at'[p] \in {"check", "replace", "refresh", "done", "curator"}
  PROVE  FromCurator(doc'[p])
<1> USE DEF CreatorInv, TypeInv, ProcessTypes, GoTo, store
<1>1. ASSUME End(p) PROVE FALSE
  BY <1>1 DEF End
<1>2. ASSUME Raise(p) PROVE FALSE
  BY <1>1, <1>2 DEF Raise
<1>3. CASE CompareSame(p)
  BY <1>3 DEF CompareSame, SameMemories, FromCurator
<1>4. CASE CompareEdited(p)
  <2>1. copy \in Document /\ doc[p] \in Document
    BY <1>4 DEF CompareEdited, FileTypes
  <2>2. \A item \in Accept(doc[p], copy).items : item \in copy.items \/ item.by = "manual"
    BY <2>1, Accepted
  <2>3. doc'[p] = Accept(doc[p], copy)
    BY <1>4 DEF CompareEdited
  <2> QED BY <2>2, <2>3 DEF FromCurator
<1>5. CASE StoreStep(p) /\ ~CompareSame(p) /\ ~CompareEdited(p)
  BY <1>2, <1>5 DEF StoreStep, ReadMain, Fallback, CompareRefused, CheckWrite, WriteRefused,
                    ReplaceMain, RefreshCopy
<1>6. CASE Crash(p)
  BY <1>1, <1>6 DEF Crash
<1>7. CASE p = "chat" /\ ChatStep
  <2>1. ASSUME StartChat \/ Recover \/ BootSettles \/ PassGate \/ GateRefuses \/ BootResumes
               \/ BeginTurn
        PROVE  FALSE
    BY <1>1, <1>7, <2>1 DEF StartChat, Recover, BootSettles, PassGate, GateRefuses, BootResumes,
                            BeginTurn, Load
  <2>2. ASSUME Checkpoint \/ NothingToCurate \/ CuratedNow \/ AskModel \/ Answer PROVE FALSE
    BY <1>7, <2>2 DEF Checkpoint, NothingToCurate, CuratedNow, AskModel, Answer, Load
  <2>3. CASE AskCurator
    BY <1>7, <2>3 DEF AskCurator, Returned
  <2>4. CASE CuratorReplies
    <3>1. target # None
      BY <2>4, SentinelAssumption DEF CuratorReplies, TurnTypes
    <3> QED BY <1>7, <2>4, <3>1 DEF CuratorReplies, Commit, Load
  <2>5. ASSUME AnswerResumed \/ ModelFails \/ Reject \/ CutTail \/ PublishTurn \/ PublishConflict
        PROVE  FALSE
    BY <1>1, <1>7, <2>5 DEF AnswerResumed, ModelFails, Reject, CutTail, PublishTurn,
        PublishConflict, ToIdle, Load
  <2>6. CASE PublishTarget
    <3>1. journal # None /\ journal.target # None
      BY <2>6 DEF PublishTarget, Returned, DiskTypes, InStore
    <3> QED BY <1>7, <2>6, <3>1 DEF PublishTarget, Commit
  <2>7. ASSUME PublishedBefore \/ TargetConflict \/ TargetCommitted \/ Unlink \/ ExitChat
        PROVE  FALSE
    BY <1>1, <1>7, <2>7 DEF PublishedBefore, TargetConflict, TargetCommitted, Unlink, ExitChat,
                            ToIdle
  <2> QED BY <1>7, <2>1, <2>2, <2>3, <2>4, <2>5, <2>6, <2>7 DEF ChatStep
<1>8. CASE p = "reset" /\ ResetStep
  <2>1. CASE CommitCleared
    <3>1. doc["reset"] \in Document
      BY <1>8, <2>1 DEF CommitCleared, Returned
    <3>2. doc'["reset"].items = {}
      BY <1>8, <2>1, <3>1, Cleared DEF CommitCleared, Commit
    <3> QED BY <1>8, <3>2 DEF FromCurator
  <2>2. CASE FactoryState
    BY <1>8, <2>2 DEF FactoryState, Commit, FromCurator, EmptyDocument
  <2>3. ASSUME StartReset \/ ClearLongTerm \/ EndCleared \/ LookedAtAll \/ StartWipe
               \/ UnlinkSegment \/ EndWiped
        PROVE  FALSE
    BY <1>1, <1>8, <2>3 DEF StartReset, ClearLongTerm, EndCleared, LookedAtAll, StartWipe,
                            UnlinkSegment, EndWiped, Load
  <2> QED BY <1>8, <2>1, <2>2, <2>3 DEF ResetStep
<1>9. CASE p = "check" /\ CheckStep
  BY <1>1, <1>9 DEF CheckStep, StartCheck, EndCheck, Load
<1> QED BY <1>3, <1>4, <1>5, <1>6, <1>7, <1>8, <1>9 DEF StepOf

LEMMA CreatorStep == TypeInv /\ CreatorInv /\ [Next]_vars => CreatorInv'
<1> SUFFICES ASSUME TypeInv, CreatorInv, [Next]_vars PROVE CreatorInv'
  OBVIOUS
<1> USE DEF CreatorInv
<1>1. CASE UNCHANGED vars
  BY <1>1 DEF FromCurator, vars, disk, files, store, turnVars, bounds, history
<1>2. CASE Next
  <2>0. ProcessTypes
    BY DEF TypeInv
  <2>1. \A d, e : FromCurator(d) /\ e.items = d.items => FromCurator(e)'
    BY <1>2, CuratedGrows DEF FromCurator
  <2>2. FromCurator(copy)'
    <3>1. CASE UNCHANGED files \/ PersonStep
      BY <2>1, <3>1, PersonFrame DEF files
    <3>2. ASSUME NEW p \in Process, ReplaceMain(p) PROVE FromCurator(copy)'
      BY <2>1, <3>2 DEF ReplaceMain
    <3>3. ASSUME NEW p \in Process, RefreshCopy(p) PROVE FromCurator(copy)'
      BY <2>1, <3>3 DEF RefreshCopy
    <3> QED BY <1>2, <3>1, <3>2, <3>3, FilesFrame
  <2>3. target' # None => FromCurator(target)'
    <3>1. CASE target' = target \/ target' = None
      BY <2>1, <3>1
    <3>2. CASE AskCurator
      <4>1. curated' = curated \cup Sources(target')
        BY <3>2 DEF AskCurator
      <4> QED BY <4>1 DEF FromCurator, Sources
    <3>3. CASE ~AskCurator
      <4>1. CASE ~StepOf("chat")
        BY <1>2, <2>0, <3>1, <4>1, ChatFrame DEF turnVars
      <4>2. CASE StoreStep("chat")
        BY <2>0, <3>1, <4>2, ChatStores DEF turnVars
      <4>3. CASE Crash("chat")
        BY <3>1, <4>3 DEF Crash, End
      <4>4. CASE ChatStep
        BY <3>1, <3>3, <4>4 DEF ChatStep, StartChat, Recover, BootSettles, PassGate,
            GateRefuses, CutTail, BootResumes, BeginTurn, Checkpoint, NothingToCurate,
            CuratorReplies, CuratedNow, AskModel, Answer, AnswerResumed, ModelFails, Reject,
            PublishTurn, PublishConflict, PublishTarget, PublishedBefore, TargetConflict,
            TargetCommitted, Unlink, ExitChat, ToIdle, End, turnVars
      <4> QED BY <4>1, <4>2, <4>3, <4>4 DEF StepOf
    <3> QED BY <3>2, <3>3
  <2>4. journal' # None /\ journal'.target # None => FromCurator(journal.target)'
    <3>1. CASE UNCHANGED journal
      BY <2>1, <3>1
    <3>2. CASE Answer
      BY <2>1, <3>2 DEF Answer
    <3> QED BY <1>2, <3>1, <3>2, ArchiveFrame DEF AnswerResumed, PublishTurn, Unlink, UnlinkSegment
  <2>5. ASSUME NEW q \in Process,
               at'[q] \in {"check", "replace", "refresh", "done", "curator"}
        PROVE  FromCurator(doc[q])'
    <3>1. CASE FromCurator(doc'[q])
      BY <2>1, <3>1
    <3>2. CASE PersonStep
      BY <2>5, <3>1, <3>2, PersonFrame DEF store
    <3>3. ASSUME NEW p \in Process, StepOf(p) PROVE FromCurator(doc'[q])
      BY <2>0, <2>5, <3>3, CreatorOfProcess, ProcessFrame
    <3> QED BY <1>2, <3>1, <3>2, <3>3, Steps
  <2> QED BY <2>2, <2>3, <2>4, <2>5
<1> QED BY <1>1, <1>2

\* A memory the copy calls the program's own was made by the curator: whatever
\* a person writes in the created_by field, an accepted edit is manual
\* (LongTermStore.load), through crashes, resets and checks at any moment.
THEOREM AutoWasCurated == Spec => []AutoIsFromCurator
<1>1. Init => CreatorInv
  BY DEF Init, CreatorInv, FromCurator, EmptyDocument, Process
<1>2. CreatorInv => AutoIsFromCurator
  BY DEF CreatorInv, FromCurator, AutoIsFromCurator
<1> QED BY <1>1, <1>2, CreatorStep, TypesHold, PTL DEF Spec

-----------------------------------------------------------------------------
(***************************************************************************)
(* One process at a time, where no check runs beside a chat or a reset.    *)
(***************************************************************************)
OneInv == \A p, q \in Process : at[p] # "down" /\ at[q] # "down" => p = q

LEMMA OneStep ==
  ASSUME ~CheckAnytime, TypeInv, OneInv, NEW p \in Process, StepOf(p)
  PROVE  \A q \in Process \ {p} : at[q] = "down" /\ at'[q] = "down"
<1>1. ASSUME at[p] = "down"
      PROVE  (p = "chat" /\ StartChat) \/ (p = "reset" /\ StartReset) \/ (p = "check" /\ StartCheck)
  <2>1. ~StoreStep(p) /\ ~Crash(p)
    BY <1>1 DEF StoreStep, ReadMain, Fallback, CompareSame, CompareEdited, CompareRefused,
                CheckWrite, WriteRefused, ReplaceMain, RefreshCopy, Crash
  <2>2. p = "chat" /\ ChatStep => StartChat
    BY <1>1 DEF ChatStep, Recover, BootSettles, PassGate, GateRefuses, CutTail, BootResumes,
        BeginTurn, Checkpoint, NothingToCurate, AskCurator, CuratorReplies, CuratedNow,
        AskModel, Answer, AnswerResumed, ModelFails, Reject, PublishTurn, PublishConflict,
        PublishTarget, PublishedBefore, TargetConflict, TargetCommitted, Unlink, ExitChat,
        Returned, Discards
  <2>3. p = "reset" /\ ResetStep => StartReset
    BY <1>1 DEF ResetStep, ClearLongTerm, CommitCleared, EndCleared, LookedAtAll, FactoryState,
        StartWipe, UnlinkSegment, EndWiped, Returned
  <2>4. p = "check" /\ CheckStep => StartCheck
    BY <1>1 DEF CheckStep, EndCheck, Returned
  <2> QED BY <2>1, <2>2, <2>3, <2>4 DEF StepOf
<1>2. \A q \in Process \ {p} : at[q] = "down"
  BY <1>1 DEF StartChat, StartReset, StartCheck, LeaseFree, CheckMayRun, Free, OneInv, Process
<1> QED BY <1>2, ProcessFrame DEF TypeInv

LEMMA OneHolds ==
  ASSUME ~CheckAnytime
  PROVE  Spec => []OneInv
<1>1. Init => OneInv
  BY DEF Init, OneInv
<1>2. TypeInv /\ OneInv /\ [Next]_vars => OneInv'
  <2> SUFFICES ASSUME TypeInv, OneInv, [Next]_vars PROVE OneInv'
    OBVIOUS
  <2>1. CASE PersonStep \/ UNCHANGED vars
    BY <2>1, PersonFrame DEF OneInv, vars
  <2>2. ASSUME NEW p \in Process, StepOf(p) PROVE OneInv'
    BY <2>2, OneStep DEF OneInv
  <2> QED BY <2>1, <2>2, Steps
<1> QED BY <1>1, <1>2, TypesHold, PTL DEF Spec

\* How a process comes to where it reads and writes: by a step of its store
\* object, but for the documents that are committed and the proposal.
LEMMA Outside ==
  ASSUME ProcessTypes, NEW p \in Process, StepOf(p), ~StoreStep(p)
  PROVE  /\ at'[p] \notin {"fallback", "copy", "replace", "refresh", "done"}
         /\ at'[p] = "curator" => p = "chat" /\ AskCurator
         /\ at'[p] = "check" => \/ p = "chat" /\ (CuratorReplies \/ PublishTarget)
                                \/ p = "reset" /\ (CommitCleared \/ FactoryState)
<1> USE DEF ProcessTypes, GoTo, Load
<1>1. ASSUME End(p) PROVE at'[p] = "down"
  BY <1>1 DEF End
<1>2. CASE Crash(p)
  BY <1>1, <1>2 DEF Crash
<1>3. CASE p = "chat" /\ ChatStep
  <2>1. CASE GateRefuses \/ ModelFails \/ PublishConflict \/ TargetConflict \/ ExitChat
    BY <1>1, <1>3, <2>1 DEF GateRefuses, ModelFails, PublishConflict, TargetConflict, ExitChat
  <2>2. CASE AskCurator
    <3>1. at'[p] = "curator"
      BY <1>3, <2>2 DEF AskCurator
    <3> QED BY <1>3, <2>2, <3>1
  <2>3. CASE CuratorReplies \/ PublishTarget
    <3>1. at'[p] \in {"check", "main"}
      BY <1>3, <2>3 DEF CuratorReplies, PublishTarget, Commit
    <3> QED BY <1>3, <2>3, <3>1
  <2>4. ASSUME StartChat \/ Recover \/ BootSettles \/ PassGate \/ BootResumes \/ BeginTurn
               \/ Checkpoint \/ NothingToCurate \/ CuratedNow \/ AskModel \/ Answer
               \/ AnswerResumed \/ Reject \/ CutTail \/ PublishTurn \/ PublishedBefore
               \/ TargetCommitted \/ Unlink
        PROVE  at'[p] \in {"main", "boot", "idle", "ask", "cut", "publish", "unlink"}
    BY <1>3, <2>4 DEF StartChat, Recover, BootSettles, PassGate, BootResumes, BeginTurn,
        Checkpoint, NothingToCurate, CuratedNow, AskModel, Answer, AnswerResumed, Reject, CutTail,
        PublishTurn, PublishedBefore, TargetCommitted, Unlink, ToIdle
  <2> QED BY <1>3, <2>1, <2>2, <2>3, <2>4 DEF ChatStep
<1>4. CASE p = "reset" /\ ResetStep
  <2>1. CASE CommitCleared \/ FactoryState
    <3>1. at'[p] = "check"
      BY <1>4, <2>1 DEF CommitCleared, FactoryState, Commit
    <3> QED BY <1>4, <2>1, <3>1
  <2>2. ASSUME StartReset \/ ClearLongTerm \/ EndCleared \/ LookedAtAll \/ StartWipe
               \/ UnlinkSegment \/ EndWiped
        PROVE  at'[p] \in {"main", "down", "factory", "wipe"}
    BY <1>1, <1>4, <2>2 DEF StartReset, ClearLongTerm, EndCleared, LookedAtAll, StartWipe,
        UnlinkSegment, EndWiped
  <2> QED BY <1>4, <2>1, <2>2 DEF ResetStep
<1>5. CASE p = "check" /\ CheckStep
  BY <1>1, <1>5 DEF CheckStep, StartCheck, EndCheck
<1> QED BY <1>2, <1>3, <1>4, <1>5 DEF StepOf

-----------------------------------------------------------------------------
(***************************************************************************)
(* A `reset all`, once it has nothing of the document to keep, empties the *)
(* two files before it touches the archive.                                *)
(***************************************************************************)
EmptiedInv ==
  /\ at["reset"] = "wipe" => job["reset"] = "emptied"
  /\ at["reset"] = "factory" => job["reset"] = "beforeAll"
  /\ job["reset"] = "emptied" =>
       /\ at["reset"] \in {"check", "replace", "refresh", "done", "wipe"}
       /\ doc["reset"] = EmptyDocument
       /\ at["reset"] = "check" => loadedHash["reset"] = main /\ ~readOnly["reset"]
       /\ at["reset"] \in {"refresh", "done", "wipe"} => main = EmptyDocument
       /\ at["reset"] \in {"done", "wipe"} => copy = EmptyDocument

LEMMA EmptiedHolds ==
  ASSUME ~CheckAnytime
  PROVE  Spec => []EmptiedInv
<1>1. Init => EmptiedInv
  BY DEF Init, EmptiedInv, Process
<1>2. TypeInv /\ OneInv /\ EmptiedInv /\ [Next]_vars => EmptiedInv'
  <2> SUFFICES ASSUME TypeInv, OneInv, EmptiedInv, [Next]_vars PROVE EmptiedInv'
    OBVIOUS
  <2> USE DEF EmptiedInv
  <2>0. ProcessTypes /\ "reset" \in Process
    BY DEF TypeInv, Process
  <2>1. CASE UNCHANGED vars
    BY <2>1 DEF vars, files, store
  <2>2. CASE PersonStep
    BY <2>2, PersonFrame
  <2>3. ASSUME NEW p \in Process, StepOf(p), p # "reset" PROVE EmptiedInv'
    BY <2>0, <2>3, OneStep, ProcessFrame
  <2> USE <2>0 DEF ProcessTypes, GoTo, Load, Commit, files, store
  <2>4. ASSUME End("reset") PROVE EmptiedInv'
    BY <2>4 DEF End
  <2>5. ASSUME Raise("reset") PROVE EmptiedInv'
    BY <2>4, <2>5 DEF Raise
  <2>6. CASE StoreStep("reset")
    BY <2>5, <2>6 DEF StoreStep, ReadMain, Fallback, CompareSame, CompareEdited, CompareRefused,
                      CheckWrite, WriteRefused, ReplaceMain, RefreshCopy, Remember
  <2>7. CASE Crash("reset")
    BY <2>4, <2>7 DEF Crash
  <2>8. CASE ResetStep
    BY <2>4, <2>8 DEF ResetStep, StartReset, ClearLongTerm, CommitCleared, EndCleared,
        LookedAtAll, FactoryState, StartWipe, UnlinkSegment, EndWiped, Returned
  <2> QED BY <2>1, <2>2, <2>3, <2>6, <2>7, <2>8, Steps DEF StepOf
<1> QED BY <1>1, <1>2, TypesHold, OneHolds, PTL DEF Spec

-----------------------------------------------------------------------------
(***************************************************************************)
(* What an archive supports.                                               *)
(***************************************************************************)
LEMMA SupportsEmpty ==
  ASSUME NEW log \in Seq(Turn), NEW others
  PROVE  Supports(log, others, EmptyDocument)
<1>1. Len(<<>>) = 0 /\ Len(log) \in Nat
  OBVIOUS
<1>2. SubSeq(<<>>, 1, 0) = <<>> /\ SubSeq(log, 1, 0) = <<>>
  BY SubSeqEmpty
<1> QED BY <1>1, <1>2 DEF Supports, Sources, EmptyDocument, IsPrefix

\* The others a document cites are all that counts of them.
LEMMA SupportsMore ==
  ASSUME NEW log, NEW others, NEW more, NEW d, Supports(log, others, d),
         Sources(d) \cap others \subseteq ToSet(log) \cup more
  PROVE  Supports(log, more, d)
BY DEF Supports

\* No document cites turn 0, which stands for no question.
LEMMA SourcesAreTurns ==
  ASSUME NEW d \in Document
  PROVE  Sources(d) \subseteq Turn /\ 0 \notin Sources(d)
<1>1. 0 \notin Turn
  BY Bounds DEF Turn
<1>2. \A item \in d.items : item.source \in Turn
  BY DEF Document, Item
<1> QED BY <1>1, <1>2 DEF Sources

LEMMA SupportsAppend ==
  ASSUME NEW log \in Seq(Turn), NEW t \in Turn, NEW others, NEW more, NEW d \in Document,
         Supports(log, others, d), others \subseteq {0, t} \cup more
  PROVE  Supports(Append(log, t), more, d)
<1> DEFINE longer == Append(log, t)
           c == d.covered
<1>1. /\ c \in Seq(Turn) /\ Len(c) \in Nat /\ Len(log) \in Nat
      /\ longer \in Seq(Turn) /\ Len(longer) = Len(log) + 1
      /\ DOMAIN log = 1..Len(log) /\ DOMAIN longer = 1..(Len(log) + 1)
      /\ longer[Len(log) + 1] = t /\ \A i \in 1..Len(log) : longer[i] = log[i]
  BY AppendProperties, LenProperties DEF Document
<1> HIDE DEF longer, c
<1>2. Len(c) <= Len(log) /\ SubSeq(c, 1, Len(c)) = SubSeq(log, 1, Len(c))
  BY DEF Supports, IsPrefix, c
<1>3. SubSeq(longer, 1, Len(c)) = SubSeq(log, 1, Len(c))
  BY <1>1, <1>2
<1>4. IsPrefix(c, longer)
  BY <1>1, <1>2, <1>3 DEF IsPrefix
<1>5. ToSet(log) \cup {t} \subseteq ToSet(longer)
  BY <1>1 DEF ToSet
<1>6. Sources(d) \subseteq ToSet(longer) \cup more
  BY <1>5, SourcesAreTurns DEF Supports
<1> QED BY <1>4, <1>6 DEF Supports, longer, c

\* A document over the same turns whose other sources are supported.
LEMMA SupportsEdited ==
  ASSUME NEW log, NEW others, NEW d, NEW e, Supports(log, others, d), e.covered = d.covered,
         Sources(e) \subseteq Sources(d) \cup ToSet(log) \cup others
  PROVE  Supports(log, others, e)
BY DEF Supports

\* `memory reset all` ends only with nothing left, whatever state of the two
\* files and of the archive it began with: its look at the document may fail,
\* its own commit cannot (MemoryResetService.reset, reset_to_factory_state).
THEOREM ResetsEmpty ==
  ASSUME ~CheckAnytime
  PROVE  Spec => ResetAllEmpties
<1> DEFINE Ends == /\ at["reset"] # "down" /\ at'["reset"] = "down" /\ crashes' = crashes
                   /\ job["reset"] \in {"beforeAll", "emptied"}
           Empty == raw' = <<>> /\ pending' = 0 /\ main' = EmptyDocument /\ copy' = EmptyDocument
<1>1. TypeInv /\ OneInv /\ EmptiedInv /\ [Next]_vars => [Ends => Empty]_vars
  <2> SUFFICES ASSUME TypeInv, OneInv, EmptiedInv, Next, Ends PROVE Empty
    BY DEF vars
  <2>0. ProcessTypes /\ "reset" \in Process
    BY DEF TypeInv, Process
  <2>1. StepOf("reset")
    BY <2>0, Steps, PersonFrame, ProcessFrame
  <2>2. ~Crash("reset")
    BY DEF Crash, TypeInv, CountTypes
  <2>3. ASSUME StoreStep("reset") PROVE FALSE
    <3>1. Raise("reset")
      BY <2>0, <2>3 DEF StoreStep, ReadMain, Fallback, CompareSame, CompareEdited, CompareRefused,
                        CheckWrite, WriteRefused, ReplaceMain, RefreshCopy, ProcessTypes, GoTo
    <3>2. job["reset"] = "emptied"
      BY <2>0, <3>1 DEF Raise, GoTo, ProcessTypes
    <3>3. at["reset"] = "check" /\ ~MayWrite("reset")
      BY <2>0, <2>3, <3>2 DEF EmptiedInv, StoreStep, ReadMain, Fallback, CompareSame,
          CompareEdited, CompareRefused, CheckWrite, WriteRefused, ReplaceMain, RefreshCopy,
          ProcessTypes, GoTo
    <3>4. MayWrite("reset")
      BY <3>2, <3>3, SupportsEmpty DEF MayWrite, SourcesAreValid, EmptiedInv, TypeInv, DiskTypes
    <3> QED BY <3>3, <3>4
  <2>4. ResetStep
    BY <2>1, <2>2, <2>3 DEF StepOf
  <2>5. EndWiped
    BY <2>0, <2>4 DEF ResetStep, StartReset, ClearLongTerm, CommitCleared, EndCleared,
        LookedAtAll, FactoryState, StartWipe, UnlinkSegment, Returned, ProcessTypes, GoTo, Load,
        Commit
  <2> QED BY <2>5 DEF EndWiped, EmptiedInv, disk, files
<1> QED BY <1>1, TypesHold, OneHolds, EmptiedHolds, PTL DEF Spec, ResetAllEmpties

-----------------------------------------------------------------------------
(***************************************************************************)
(* Turns.  Each has a number of its own, and is in the archive once.       *)
(***************************************************************************)
FreshInv ==
  /\ \A i, j \in DOMAIN raw : raw[i] = raw[j] => i = j
  /\ \A i \in DOMAIN raw : raw[i] < nextTurn /\ raw[i] # pending
  /\ pending < nextTurn /\ turn < nextTurn
  /\ journal # None => journal.turn < nextTurn
  /\ InTurn => turn \notin ToSet(raw)

LEMMA NumbersFrame == Next => UNCHANGED nextTurn \/ BeginTurn
<1> USE DEF bounds
<1>1. PersonStep => UNCHANGED nextTurn
  BY PersonFrame
<1>2. ASSUME NEW p \in Process, StoreStep(p) \/ Crash(p) PROVE UNCHANGED nextTurn
  BY <1>2 DEF StoreStep, ReadMain, Fallback, CompareSame, CompareEdited, CompareRefused,
              CheckWrite, WriteRefused, ReplaceMain, RefreshCopy, Crash
<1>3. ASSUME ChatStep PROVE UNCHANGED nextTurn \/ BeginTurn
  BY <1>3 DEF ChatStep, StartChat, Recover, BootSettles, PassGate, GateRefuses, CutTail,
      BootResumes, Checkpoint, NothingToCurate, AskCurator, CuratorReplies, CuratedNow,
      AskModel, Answer, AnswerResumed, ModelFails, Reject, PublishTurn, PublishConflict,
      PublishTarget, PublishedBefore, TargetConflict, TargetCommitted, Unlink, ExitChat
<1>4. ASSUME ResetStep \/ CheckStep PROVE UNCHANGED nextTurn
  BY <1>4 DEF ResetStep, StartReset, ClearLongTerm, CommitCleared, EndCleared, LookedAtAll,
      FactoryState, StartWipe, UnlinkSegment, EndWiped, CheckStep, StartCheck, EndCheck
<1> QED BY <1>1, <1>2, <1>3, <1>4 DEF Next

\* An open question is that of the turn at work, or one cut off by a reset.
LEMMA PendingFrame ==
  ASSUME TypeInv, Next
  PROVE  pending' \in {pending, 0} \/ UnlinkSegment \/ (InTurn /\ pending' = turn)
<1> USE DEF disk
<1>1. CASE PersonStep
  BY <1>1, PersonFrame
<1>2. CASE \E p \in Process : StoreStep(p)
  BY <1>2 DEF StoreStep, ReadMain, Fallback, CompareSame, CompareEdited, CompareRefused,
              CheckWrite, WriteRefused, ReplaceMain, RefreshCopy, InTurn, InStore
<1>3. CASE (\E p \in Process : Crash(p)) \/ CheckStep
  BY <1>3 DEF Crash, CheckStep, StartCheck, EndCheck
<1>4. CASE ChatStep
  BY <1>4 DEF ChatStep, StartChat, Recover, BootSettles, PassGate, GateRefuses, CutTail,
      BootResumes, BeginTurn, Checkpoint, NothingToCurate, AskCurator, CuratorReplies,
      CuratedNow, AskModel, Answer, AnswerResumed, ModelFails, Reject, PublishTurn,
      PublishConflict, PublishTarget, PublishedBefore, TargetConflict, TargetCommitted, Unlink,
      ExitChat, InTurn
<1>5. CASE ResetStep
  BY <1>5 DEF ResetStep, StartReset, ClearLongTerm, CommitCleared, EndCleared, LookedAtAll,
      FactoryState, StartWipe, EndWiped
<1> QED BY <1>1, <1>2, <1>3, <1>4, <1>5 DEF Next

\* A turn begins with a new number, or is the open question; nothing else of it
\* changes until it is over.
LEMMA TurnsFrame ==
  ASSUME TypeInv, Next
  PROVE  /\ turn' \in {turn, 0} \/ BeginTurn \/ BootResumes
         /\ InTurn' => (InTurn /\ turn' = turn) \/ BeginTurn \/ BootResumes
<1> USE DEF InTurn, InStore, GoTo, Load, Commit
<1>0. /\ "chat" \in Process /\ at \in [Process -> Location] /\ job \in [Process -> Job]
      /\ ProcessTypes
  BY DEF TypeInv, ProcessTypes, Process
<1>1. CASE ~StepOf("chat")
  BY <1>0, <1>1, ChatFrame DEF turnVars
<1>2. CASE StoreStep("chat")
  BY <1>0, <1>2, ChatStores DEF turnVars
<1>3. ASSUME End("chat") PROVE turn' = 0 /\ ~InTurn'
  BY <1>0, <1>3 DEF End
<1>4. CASE Crash("chat")
  BY <1>3, <1>4 DEF Crash
<1>5. CASE GateRefuses \/ ModelFails \/ PublishConflict \/ TargetConflict \/ ExitChat
  BY <1>3, <1>5 DEF GateRefuses, ModelFails, PublishConflict, TargetConflict, ExitChat
<1>6. CASE Checkpoint \/ NothingToCurate \/ AskCurator \/ CuratorReplies \/ CuratedNow \/ AskModel
  BY <1>0, <1>6 DEF Checkpoint, NothingToCurate, AskCurator, CuratorReplies, CuratedNow, AskModel,
                    Returned, turnVars
<1>7. CASE \/ StartChat \/ Recover \/ BootSettles \/ PassGate
           \/ Answer \/ AnswerResumed \/ Reject \/ CutTail
  BY <1>0, <1>7 DEF StartChat, Recover, BootSettles, PassGate, Answer, AnswerResumed, Reject,
                    CutTail, ToIdle, turnVars
<1>8. CASE PublishTurn \/ PublishTarget \/ PublishedBefore \/ TargetCommitted \/ Unlink
  BY <1>0, <1>8 DEF PublishTurn, PublishTarget, PublishedBefore, TargetCommitted, Unlink, ToIdle,
                    turnVars
<1> QED BY <1>1, <1>2, <1>4, <1>5, <1>6, <1>7, <1>8 DEF StepOf, ChatStep

\* A turn that is not in the archive is appended to it.
LEMMA FreshAppend ==
  ASSUME NEW log \in Seq(Turn), NEW t \in Turn, t \notin ToSet(log),
         \A i, j \in DOMAIN log : log[i] = log[j] => i = j
  PROVE  /\ \A i, j \in DOMAIN Append(log, t) : Append(log, t)[i] = Append(log, t)[j] => i = j
         /\ ToSet(Append(log, t)) = ToSet(log) \cup {t}
<1> DEFINE longer == Append(log, t)
           n == Len(log)
<1>1. /\ n \in Nat /\ longer \in Seq(Turn) /\ DOMAIN log = 1..n /\ DOMAIN longer = 1..(n + 1)
      /\ longer[n + 1] = t /\ \A i \in 1..n : longer[i] = log[i]
  BY AppendProperties, LenProperties
<1>2. \A i \in 1..n : log[i] # t
  BY <1>1 DEF ToSet
<1> HIDE DEF longer, n
<1>3. \A i, j \in DOMAIN longer : longer[i] = longer[j] => i = j
  BY <1>1, <1>2
<1>4. ToSet(longer) = ToSet(log) \cup {t}
  BY <1>1 DEF ToSet
<1> QED BY <1>3, <1>4 DEF longer

\* Cutting a segment leaves some first turns and perhaps the question of the next.
LEMMA FreshCut ==
  ASSUME TypeInv, FreshInv, UnlinkSegment
  PROVE  /\ \A i, j \in DOMAIN raw' : raw'[i] = raw'[j] => i = j
         /\ \A i \in DOMAIN raw' : raw'[i] < nextTurn /\ raw'[i] # pending'
         /\ pending' < nextTurn
<1>0. /\ raw \in Seq(Turn) /\ Len(raw) \in Nat /\ DOMAIN raw = 1..Len(raw)
      /\ \A i \in 1..Len(raw) : raw[i] \in Nat \ {0}
      /\ nextTurn \in Nat \ {0}
  BY Bounds, LenProperties DEF TypeInv, DiskTypes, CountTypes, Turn
<1>1. CASE raw' = raw /\ pending' = 0
  BY <1>0, <1>1 DEF FreshInv
<1>2. ASSUME NEW n \in 0..(Len(raw) - 1), raw' = SubSeq(raw, 1, n), pending' \in {0, raw[n + 1]}
      PROVE  /\ \A i, j \in DOMAIN raw' : raw'[i] = raw'[j] => i = j
             /\ \A i \in DOMAIN raw' : raw'[i] < nextTurn /\ raw'[i] # pending'
             /\ pending' < nextTurn
  <2> DEFINE l == Len(raw)
  <2>1. l \in Nat /\ n \in Nat /\ n < l
    BY <1>0
  <2>2. /\ DOMAIN raw' = 1..n
        /\ \A i \in 1..n : raw'[i] = raw[i]
    BY <1>0, <1>2, <2>1
  <2> HIDE DEF l
  <2>3. n + 1 \in 1..l /\ 1..n \subseteq 1..l
    BY <2>1
  <2>4. n + 1 \in DOMAIN raw /\ 1..n \subseteq DOMAIN raw /\ n + 1 \notin 1..n
    BY <1>0, <2>1, <2>3 DEF l
  <2>5. \A i, j \in DOMAIN raw' : raw'[i] = raw'[j] => i = j
    BY <2>2, <2>4 DEF FreshInv
  <2>6. raw[n + 1] < nextTurn /\ \A i \in 1..n : raw[i] < nextTurn /\ raw[i] # raw[n + 1]
    BY <2>4 DEF FreshInv
  <2>7. \A i \in 1..n : raw[i] # 0
    BY <1>0, <2>4
  <2> QED BY <1>0, <1>2, <2>2, <2>5, <2>6, <2>7
<1> QED BY <1>1, <1>2 DEF UnlinkSegment

LEMMA FreshStep ==
  ASSUME ~CheckAnytime
  PROVE  TypeInv /\ OneInv /\ FreshInv /\ [Next]_vars => FreshInv'
<1> SUFFICES ASSUME TypeInv, OneInv, FreshInv, [Next]_vars PROVE FreshInv'
  OBVIOUS
<1>1. CASE UNCHANGED vars
  BY <1>1 DEF FreshInv, InTurn, vars, disk, turnVars, bounds
<1>2. CASE Next
  <2>0. /\ raw \in Seq(Turn) /\ nextTurn \in Nat \ {0} /\ pending \in Nat /\ turn \in Nat
        /\ journal \in Journal \cup {None}
        /\ \A i \in DOMAIN raw : raw[i] \in Nat \ {0} /\ raw[i] \in Turn
        /\ 0 \notin Turn /\ Turn \subseteq Nat
    BY Bounds, LenProperties DEF TypeInv, DiskTypes, TurnTypes, CountTypes, Turn
  <2>1. nextTurn' \in Nat /\ nextTurn <= nextTurn'
    BY <1>2, <2>0, NumbersFrame DEF BeginTurn
  <2>2. turn' < nextTurn'
    <3>1. CASE BeginTurn
      BY <2>0, <3>1 DEF BeginTurn
    <3>2. CASE BootResumes
      BY <2>0, <2>1, <3>2 DEF BootResumes, FreshInv
    <3> QED BY <1>2, <2>0, <2>1, <3>1, <3>2, TurnsFrame DEF FreshInv
  <2>3. journal' # None => journal'.turn < nextTurn'
    <3>1. CASE Answer
      BY <2>0, <2>1, <3>1 DEF Answer, FreshInv
    <3>2. CASE ~Answer
      <4>1. journal' \in {journal, None}
        BY <1>2, <3>2, ArchiveFrame DEF AnswerResumed, PublishTurn, Unlink, UnlinkSegment
      <4>2. journal # None => journal.turn \in Nat
        BY <2>0 DEF Journal
      <4> QED BY <2>0, <2>1, <4>1, <4>2 DEF FreshInv
    <3> QED BY <3>1, <3>2
  <2>4. CASE UnlinkSegment
    <3>1. at["chat"] = "down" /\ at' = at /\ nextTurn' = nextTurn
      BY <2>4 DEF UnlinkSegment, OneInv, Process, bounds
    <3>2. ~InTurn'
      BY <3>1 DEF InTurn, InStore
    <3> QED BY <2>2, <2>3, <2>4, <3>1, <3>2, FreshCut DEF FreshInv
  <2>5. ASSUME NEW t \in Turn, t < nextTurn, t \notin ToSet(raw), raw' = Append(raw, t),
               pending' = 0, ~InTurn'
        PROVE  FreshInv'
    <3>1. /\ \A i, j \in DOMAIN raw' : raw'[i] = raw'[j] => i = j
          /\ ToSet(raw') = ToSet(raw) \cup {t}
      BY <2>0, <2>5, FreshAppend DEF FreshInv
    <3>2. \A u \in ToSet(raw) : u < nextTurn /\ u \in Nat \ {0}
      BY <2>0 DEF ToSet, FreshInv
    <3>3. \A u \in ToSet(raw') : u < nextTurn' /\ u # 0
      BY <2>0, <2>1, <2>5, <3>1, <3>2
    <3>4. \A i \in DOMAIN raw' : raw'[i] < nextTurn' /\ raw'[i] # pending'
      BY <2>5, <3>3 DEF ToSet
    <3> QED BY <2>0, <2>1, <2>2, <2>3, <2>5, <3>1, <3>4 DEF FreshInv
  <2>6. CASE AnswerResumed
    <3>1. turn \in Turn /\ turn \notin ToSet(raw) /\ turn < nextTurn
      BY <2>6 DEF AnswerResumed, FreshInv, InTurn, TypeInv, TurnTypes
    <3>2. ~InTurn'
      BY <2>6 DEF AnswerResumed, ToIdle, GoTo, InTurn, InStore, TypeInv, ProcessTypes, Process
    <3> QED BY <2>5, <2>6, <3>1, <3>2 DEF AnswerResumed
  <2>7. CASE raw' = raw
    <3>1. pending' < nextTurn' /\ \A i \in DOMAIN raw : raw[i] < nextTurn' /\ raw[i] # pending'
      <4>1. CASE pending' \in {pending, 0}
        BY <2>0, <2>1, <4>1 DEF FreshInv
      <4>2. CASE InTurn /\ pending' = turn
        BY <2>0, <2>1, <4>2 DEF FreshInv, ToSet
      <4>3. CASE UnlinkSegment
        BY <2>4, <2>7, <4>3 DEF FreshInv
      <4> QED BY <1>2, <4>1, <4>2, <4>3, PendingFrame
    <3>2. InTurn' => turn' \notin ToSet(raw)
      <4>1. CASE BeginTurn
        BY <2>0, <4>1 DEF BeginTurn, FreshInv, ToSet
      <4>2. CASE BootResumes
        BY <2>0, <4>2 DEF BootResumes, FreshInv, ToSet
      <4> QED BY <1>2, <4>1, <4>2, TurnsFrame DEF FreshInv
    <3> QED BY <2>2, <2>3, <2>7, <3>1, <3>2 DEF FreshInv
  <2>8. CASE PublishTurn /\ raw' # raw
    <3>1. journal \in Journal /\ journal # None
      BY <2>8 DEF PublishTurn, TypeInv, DiskTypes
    <3>2. journal.turn \in Turn /\ journal.turn < nextTurn
      BY <3>1 DEF Journal, FreshInv
    <3>3. ~InTurn'
      BY <2>8 DEF PublishTurn, Load, GoTo, InTurn, InStore, TypeInv, ProcessTypes, Process
    <3> QED BY <2>5, <2>8, <3>2, <3>3 DEF PublishTurn
  <2> QED BY <1>2, <2>4, <2>6, <2>7, <2>8, ArchiveFrame DEF Answer, Unlink
<1> QED BY <1>1, <1>2

LEMMA FreshHolds ==
  ASSUME ~CheckAnytime
  PROVE  Spec => []FreshInv
<1>1. Init => FreshInv
  BY DEF Init, FreshInv, InTurn, InStore, Process
<1> QED BY <1>1, FreshStep, TypesHold, OneHolds, PTL DEF Spec

-----------------------------------------------------------------------------
(***************************************************************************)
(* What a turn has noted: nothing before it has begun, no proposal before  *)
(* it has its checkpoint.  What a load returns is what the copy now holds. *)
(***************************************************************************)
NoteInv ==
  /\ at["chat"] \in {"down", "boot", "idle"} => turn = 0
  /\ at["chat"] \in InStore /\ job["chat"] = "start" => turn = 0
  /\ turn = 0 => base = None /\ target = None
  /\ at["chat"] \in InStore /\ job["chat"] = "begin" => target = None

DoneInv == \A p \in Process : at[p] \in {"done", "curator"} => doc[p] = copy

LEMMA NoteHolds == Spec => []NoteInv
<1>1. Init => NoteInv
  BY DEF Init, NoteInv, InStore, Process
<1>2. TypeInv /\ NoteInv /\ [Next]_vars => NoteInv'
  <2> SUFFICES ASSUME TypeInv, NoteInv, [Next]_vars PROVE NoteInv'
    OBVIOUS
  <2> USE DEF NoteInv, InStore, GoTo, Load, Commit
  <2>0. /\ "chat" \in Process /\ at \in [Process -> Location] /\ job \in [Process -> Job]
        /\ ProcessTypes
    BY DEF TypeInv, ProcessTypes, Process
  <2>1. CASE UNCHANGED vars
    BY <2>1 DEF vars, turnVars
  <2>2. CASE Next /\ ~StepOf("chat")
    BY <2>0, <2>2, ChatFrame DEF turnVars
  <2>3. CASE StoreStep("chat")
    BY <2>0, <2>3, ChatStores DEF turnVars
  <2>4. ASSUME End("chat") PROVE NoteInv'
    BY <2>0, <2>4 DEF End
  <2>5. CASE Crash("chat")
    BY <2>4, <2>5 DEF Crash
  <2>6. CASE GateRefuses \/ ModelFails \/ PublishConflict \/ TargetConflict \/ ExitChat
    BY <2>4, <2>6 DEF GateRefuses, ModelFails, PublishConflict, TargetConflict, ExitChat
  <2>7. CASE BootResumes \/ BeginTurn
    <3>1. nextTurn # 0
      BY DEF TypeInv, CountTypes
    <3> QED BY <2>0, <2>7, <3>1 DEF BootResumes, BeginTurn
  <2>8. CASE Checkpoint \/ AskCurator
    <3>1. turn # 0
      BY <2>8, Bounds DEF Checkpoint, AskCurator, Returned, TypeInv, TurnTypes, InTurn, Turn
    <3> QED BY <2>0, <2>8, <3>1 DEF Checkpoint, AskCurator, Returned
  <2>9. CASE NothingToCurate \/ CuratorReplies \/ CuratedNow \/ AskModel
    BY <2>0, <2>9 DEF NothingToCurate, CuratorReplies, CuratedNow, AskModel, Returned, turnVars
  <2>10. CASE \/ StartChat \/ Recover \/ BootSettles \/ PassGate
              \/ Answer \/ AnswerResumed \/ Reject \/ CutTail
    BY <2>0, <2>10 DEF StartChat, Recover, BootSettles, PassGate, Answer, AnswerResumed, Reject,
                       CutTail, ToIdle, Returned, LeaseFree, Free, turnVars
  <2>11. CASE PublishTurn \/ PublishTarget \/ PublishedBefore \/ TargetCommitted \/ Unlink
    BY <2>0, <2>11 DEF PublishTurn, PublishTarget, PublishedBefore, TargetCommitted, Unlink,
                       ToIdle, turnVars
  <2> QED BY <2>1, <2>2, <2>3, <2>5, <2>6, <2>7, <2>8, <2>9, <2>10, <2>11 DEF StepOf, ChatStep
<1> QED BY <1>1, <1>2, TypesHold, PTL DEF Spec

\* Only a load's and a commit's last step, or a load from the copy, returns.
LEMMA DoneOfProcess ==
  ASSUME TypeInv, DoneInv, NEW p \in Process, StepOf(p), at'[p] \in {"done", "curator"}
  PROVE  doc'[p] = copy'
<1> USE DEF TypeInv, ProcessTypes, GoTo, store, files, DoneInv
<1>1. ASSUME Raise(p) PROVE at'[p] \in {"down", "factory"}
  BY <1>1 DEF Raise, End
<1>2. CASE StoreStep(p)
  BY <1>1, <1>2 DEF StoreStep, ReadMain, Fallback, CompareSame, CompareEdited, CompareRefused,
                    CheckWrite, WriteRefused, ReplaceMain, RefreshCopy
<1>3. CASE ~StoreStep(p)
  <2>1. p = "chat" /\ AskCurator
    BY <1>3, Outside
  <2> QED BY <2>1 DEF AskCurator, Returned
<1> QED BY <1>2, <1>3

LEMMA DoneHolds ==
  ASSUME ~CheckAnytime
  PROVE  Spec => []DoneInv
<1>1. Init => DoneInv
  BY DEF Init, DoneInv
<1>2. TypeInv /\ OneInv /\ DoneInv /\ [Next]_vars => DoneInv'
  <2> SUFFICES ASSUME TypeInv, OneInv, DoneInv, [Next]_vars PROVE DoneInv'
    OBVIOUS
  <2>1. CASE PersonStep \/ UNCHANGED vars
    BY <2>1, PersonFrame DEF DoneInv, vars, files, store
  <2>2. ASSUME NEW p \in Process, StepOf(p) PROVE DoneInv'
    BY <2>2, OneStep, DoneOfProcess DEF DoneInv
  <2> QED BY <2>1, <2>2, Steps
<1> QED BY <1>1, <1>2, TypesHold, OneHolds, PTL DEF Spec

-----------------------------------------------------------------------------
(***************************************************************************)
(* The open question.  While a turn of its own is open none is in the      *)
(* archive; a resumed turn is the open question's, until it is answered,   *)
(* kept, or cut off; the gate was passed by a document that does not cite  *)
(* it.                                                                     *)
(***************************************************************************)
OpenInv ==
  /\ resumed => (InTurn \/ at["chat"] = "cut") /\ turn # 0 /\ pending = turn
  /\ turn # 0 /\ ~resumed => pending = 0
  /\ at["chat"] = "idle" => pending = 0
  /\ at["chat"] = "cut" => pending # 0 /\ pending \notin Sources(doc["chat"])

\* The archive and its open question change in these steps only.
LEMMA OpenFrame ==
  Next => \/ UNCHANGED <<raw, pending, orphans>>
          \/ WriteRefused("chat") \/ ModelFails \/ AnswerResumed \/ PublishTurn \/ CutTail
          \/ UnlinkSegment
<1> USE DEF disk, history
<1>1. PersonStep => UNCHANGED <<raw, pending, orphans>>
  BY PersonFrame
<1>2. ASSUME NEW p \in Process, StoreStep(p) \/ Crash(p)
      PROVE  UNCHANGED <<raw, pending, orphans>> \/ WriteRefused("chat")
  BY <1>2 DEF StoreStep, ReadMain, Fallback, CompareSame, CompareEdited, CompareRefused,
              CheckWrite, WriteRefused, ReplaceMain, RefreshCopy, Crash
<1>3. ASSUME ChatStep
      PROVE  \/ UNCHANGED <<raw, pending, orphans>>
             \/ ModelFails \/ AnswerResumed \/ PublishTurn \/ CutTail
  BY <1>3 DEF ChatStep, StartChat, Recover, BootSettles, PassGate, GateRefuses, BootResumes,
      BeginTurn, Checkpoint, NothingToCurate, AskCurator, CuratorReplies, CuratedNow, AskModel,
      Answer, Reject, PublishConflict, PublishTarget, PublishedBefore, TargetConflict,
      TargetCommitted, Unlink, ExitChat
<1>4. ASSUME ResetStep \/ CheckStep
      PROVE  UNCHANGED <<raw, pending, orphans>> \/ UnlinkSegment
  BY <1>4 DEF ResetStep, StartReset, ClearLongTerm, CommitCleared, EndCleared, LookedAtAll,
      FactoryState, StartWipe, EndWiped, CheckStep, StartCheck, EndCheck
<1> QED BY <1>1, <1>2, <1>3, <1>4 DEF Next

LEMMA OpenHolds ==
  ASSUME ~CheckAnytime
  PROVE  Spec => []OpenInv
<1>1. Init => OpenInv
  BY DEF Init, OpenInv, Process
<1>2. TypeInv /\ OneInv /\ NoteInv /\ OpenInv /\ [Next]_vars => OpenInv'
  <2> SUFFICES ASSUME TypeInv, OneInv, NoteInv, OpenInv, [Next]_vars PROVE OpenInv'
    OBVIOUS
  <2> USE DEF OpenInv, InTurn, InStore, GoTo, Load, Commit
  <2>0. /\ "chat" \in Process /\ at \in [Process -> Location] /\ job \in [Process -> Job]
        /\ doc \in [Process -> Document \cup {None}]
        /\ ProcessTypes
    BY DEF TypeInv, ProcessTypes, Process
  <2>1. CASE UNCHANGED vars
    BY <2>1 DEF vars, disk, store, turnVars
  <2>2. CASE UnlinkSegment
    <3>1. at["chat"] = "down" /\ at' = at /\ turn' = turn /\ resumed' = resumed
      BY <2>2 DEF UnlinkSegment, OneInv, Process, turnVars
    <3> QED BY <3>1 DEF NoteInv
  <2>3. CASE Next /\ ~StepOf("chat") /\ ~UnlinkSegment
    <3>1. pending' = pending
      BY <2>0, <2>3, OpenFrame DEF StepOf, StoreStep, ChatStep
    <3> QED BY <2>0, <2>3, <3>1, ChatFrame DEF turnVars
  <2>4. ASSUME End("chat") PROVE OpenInv'
    BY <2>0, <2>4 DEF End
  <2>5. CASE StoreStep("chat")
    <3>1. ASSUME Raise("chat") PROVE OpenInv'
      BY <2>4, <3>1 DEF Raise
    <3>2. CASE WriteRefused("chat")
      BY <3>1, <3>2 DEF WriteRefused
    <3>3. CASE ~WriteRefused("chat")
      <4>1. pending' = pending
        BY <2>5, <3>3 DEF StoreStep, ReadMain, Fallback, CompareSame, CompareEdited,
           CompareRefused, CheckWrite, ReplaceMain, RefreshCopy, disk
      <4>2. CASE UNCHANGED <<turnVars, job>> /\ at["chat"] \in InStore /\ at'["chat"] \in InStore
        BY <4>1, <4>2 DEF turnVars
      <4>3. CASE at'["chat"] = "down" /\ turn' = 0 /\ resumed' = FALSE
        BY <4>3
      <4> QED BY <2>0, <2>5, <4>2, <4>3, ChatStores
    <3> QED BY <3>2, <3>3
  <2>6. CASE Crash("chat")
    BY <2>4, <2>6 DEF Crash
  <2>7. CASE GateRefuses \/ ModelFails \/ PublishConflict \/ TargetConflict \/ ExitChat
    BY <2>4, <2>7 DEF GateRefuses, ModelFails, PublishConflict, TargetConflict, ExitChat
  <2>8. CASE StartChat \/ Recover \/ BootSettles
    BY <2>0, <2>8 DEF StartChat, Recover, BootSettles, Returned, LeaseFree, Free, disk, turnVars
  <2>9. CASE PassGate
    <3>1. /\ at'["chat"] = "cut" /\ doc'["chat"] = main /\ UNCHANGED <<pending, turn, resumed>>
          /\ pending \notin Sources(main)
      BY <2>0, <2>9 DEF PassGate, Discardable, disk, turnVars
    <3>2. pending # 0
      BY <2>9 DEF PassGate, Discards
    <3> QED BY <3>1, <3>2 DEF Sources
  <2>10. CASE CutTail \/ AnswerResumed
    BY <2>0, <2>10 DEF CutTail, AnswerResumed, ToIdle
  <2>11. CASE Reject
    <3>1. turn # 0
      BY <2>11, Bounds DEF Reject, TypeInv, TurnTypes, Turn
    <3> QED BY <2>0, <2>11, <3>1 DEF Reject, ToIdle, disk
  <2>12. CASE BootResumes \/ BeginTurn
    <3>1. nextTurn # 0
      BY DEF TypeInv, CountTypes
    <3> QED BY <2>0, <2>12, <3>1 DEF BootResumes, BeginTurn, disk
  <2>13. CASE Checkpoint \/ NothingToCurate \/ AskCurator \/ CuratorReplies \/ CuratedNow \/ AskModel
    BY <2>0, <2>13 DEF Checkpoint, NothingToCurate, AskCurator, CuratorReplies, CuratedNow,
                       AskModel, Returned, disk, turnVars
  <2>14. CASE Answer \/ PublishTurn
    BY <2>0, <2>14 DEF Answer, PublishTurn, turnVars
  <2>15. CASE PublishTarget \/ PublishedBefore \/ TargetCommitted
    BY <2>0, <2>15 DEF PublishTarget, PublishedBefore, TargetCommitted, Returned, disk, turnVars
  <2>16. CASE Unlink
    BY <2>0, <2>16 DEF Unlink, ToIdle, turnVars
  <2> QED BY <2>1, <2>2, <2>3, <2>5, <2>6, <2>7, <2>8, <2>9, <2>10, <2>11, <2>12, <2>13, <2>14,
             <2>15, <2>16 DEF StepOf, ChatStep
<1> QED BY <1>1, <1>2, TypesHold, OneHolds, NoteHolds, PTL DEF Spec

-----------------------------------------------------------------------------
(***************************************************************************)
(* What is in a file names the archive, its open question, or one that was *)
(* cut off around the gate.  What is about to be written was checked       *)
(* against the archive while nobody else is there to change it.            *)
(***************************************************************************)
SourceInv ==
  /\ main # Broken => Known(main)
  /\ main = Broken => Known(whole)
  /\ Known(copy)
  /\ \A p \in Process :
       at[p] \in {"copy", "replace", "refresh"} => SourcesAreValid(doc[p])

\* A document that the archive and its open question support is known.
LEMMA ValidIsKnown == ASSUME NEW d, SourcesAreValid(d) PROVE Known(d)
BY DEF SourcesAreValid, Known, Supports

\* What is known stays known, except to who cuts the archive: an open question
\* is answered, kept, or remembered as an orphan of those that cite it.
LEMMA KnownStays ==
  ASSUME TypeInv, OpenInv, Next, ~UnlinkSegment, NEW d \in Document, Known(d),
         CutTail => pending \in orphans' \/ pending \notin Sources(d)
  PROVE  Known(d)'
<1>0. /\ raw \in Seq(Turn) /\ pending \in Turn \cup {0} /\ turn \in Turn \cup {0}
      /\ 0 \notin Sources(d) /\ Supports(raw, {pending} \cup orphans, d)
  BY SourcesAreTurns DEF TypeInv, DiskTypes, TurnTypes, Known
<1>1. CASE UNCHANGED <<raw, pending, orphans>>
  BY <1>0, <1>1 DEF Known, Supports, Sources
<1>2. ASSUME raw' = raw, Sources(d) \cap ({pending} \cup orphans) \subseteq {pending'} \cup orphans'
      PROVE  Known(d)'
  <2>1. Supports(raw, {pending'} \cup orphans', d)
    BY <1>0, <1>2, SupportsMore
  <2> QED BY <1>2, <2>1 DEF Known, Supports, Sources
<1>3. ASSUME NEW t \in Turn, raw' = Append(raw, t), pending \in {0, t}, orphans' = orphans
      PROVE  Known(d)'
  <2>1. Supports(Append(raw, t), {pending'} \cup orphans, d)
    <3>1. {pending} \cup orphans \subseteq {0, t} \cup ({pending'} \cup orphans)
      BY <1>3
    <3> QED BY <1>0, <3>1, SupportsAppend
  <2> QED BY <1>3, <2>1 DEF Known, Supports, Sources
<1>4. CASE WriteRefused("chat") \/ ModelFails
  <2>1. raw' = raw /\ orphans' = orphans /\ pending' \in {pending, turn}
    BY <1>4 DEF WriteRefused, ModelFails, history
  <2>2. pending' # pending => turn # 0 /\ pending \in {0, turn}
    <3>1. pending' # pending => InTurn
      BY <1>4 DEF WriteRefused, ModelFails, InTurn, InStore
    <3>2. InTurn => turn # 0
      BY Bounds DEF TypeInv, TurnTypes, Turn
    <3> QED BY <3>1, <3>2 DEF OpenInv
  <2> QED BY <1>0, <1>2, <2>1, <2>2
<1>5. CASE AnswerResumed
  <2>1. turn \in Turn
    BY <1>5 DEF AnswerResumed, TypeInv, TurnTypes, InTurn
  <2> QED BY <1>3, <1>5, <2>1 DEF AnswerResumed, OpenInv, history
<1>6. CASE PublishTurn
  <2>1. journal.turn \in Turn
    BY <1>6 DEF PublishTurn, TypeInv, DiskTypes, Journal
  <2> QED BY <1>1, <1>3, <1>6, <2>1 DEF PublishTurn, ArchiveTakesTurn, history
<1>7. CASE CutTail
  BY <1>0, <1>2, <1>7 DEF CutTail
<1> QED BY <1>1, <1>4, <1>5, <1>6, <1>7, OpenFrame

LEMMA SourceOfProcess ==
  ASSUME TypeInv, SourceInv, NEW p \in Process, StoreStep(p),
         at'[p] \in {"copy", "replace", "refresh"}
  PROVE  raw' = raw /\ pending' = pending /\ SourcesAreValid(doc'[p])
<1> USE DEF TypeInv, ProcessTypes, GoTo, store, disk
<1>1. ASSUME Raise(p) PROVE FALSE
  BY <1>1 DEF Raise, End
<1> QED BY <1>1 DEF StoreStep, ReadMain, Fallback, CompareSame, CompareEdited, CompareRefused,
                    CheckWrite, WriteRefused, ReplaceMain, RefreshCopy, SourceInv, Parses, MayWrite

LEMMA SourceStep ==
  ASSUME ~CheckAnytime
  PROVE  TypeInv /\ OneInv /\ EmptiedInv /\ OpenInv /\ SourceInv /\ [Next]_vars => SourceInv'
<1> SUFFICES ASSUME TypeInv, OneInv, EmptiedInv, OpenInv, SourceInv, [Next]_vars PROVE SourceInv'
  OBVIOUS
<1>0. /\ raw \in Seq(Turn) /\ copy \in Document
      /\ main # Broken => main \in Document
      /\ main = Broken => whole \in Document
  BY DEF TypeInv, FileTypes, DiskTypes
<1>1. CASE UNCHANGED vars
  BY <1>1 DEF SourceInv, SourcesAreValid, Known, Supports, Sources, vars, disk, files, store,
              history
<1>2. CASE PersonStep
  <2>1. UNCHANGED <<raw, pending, orphans, copy, at, doc>>
    BY <1>2, PersonFrame DEF disk, store, history
  <2>2. (main' # Broken => Known(main')) /\ (main' = Broken => Known(whole'))
    <3>1. ASSUME main # Broken, main'.covered = main.covered,
                 Sources(main') \subseteq Sources(main) \cup ToSet(raw) \cup {pending}
          PROVE  Known(main')
      BY <3>1, SupportsEdited DEF SourceInv, Known
    <3> QED BY <1>0, <1>2, <3>1, PersonSavesDocument, SentinelAssumption DEF SourceInv
  <2> QED BY <2>1, <2>2 DEF SourceInv, SourcesAreValid, Known, Supports, Sources
<1>3. ASSUME NEW p \in Process, StepOf(p) PROVE SourceInv'
  <2>0. Next
    BY <1>3, StepIsNext
  <2>1. \A q \in Process \ {p} : at'[q] = "down"
    BY <1>3, OneStep
  <2>2. at'[p] \in {"copy", "replace", "refresh"} => SourcesAreValid(doc[p])'
    <3>1. CASE StoreStep(p)
      BY <3>1, SourceOfProcess DEF SourcesAreValid, Supports, Sources
    <3>2. CASE ~StoreStep(p)
      BY <1>3, <3>2, Outside DEF TypeInv
    <3> QED BY <3>1, <3>2
  <2>3. CASE UnlinkSegment
    <3>1. main' = EmptyDocument /\ copy' = EmptyDocument /\ main' # Broken
      BY <2>3, EmptyIsDocument, SentinelAssumption DEF UnlinkSegment, EmptiedInv, files
    <3>2. raw' \in Seq(Turn)
      BY <2>0, RawNext
    <3>3. Known(main)' /\ Known(copy)'
      BY <3>1, <3>2, SupportsEmpty DEF Known
    <3> QED BY <2>1, <2>2, <3>1, <3>3 DEF SourceInv
  <2>4. CASE StoreStep(p) /\ (ReplaceMain(p) \/ RefreshCopy(p))
    <3>1. /\ UNCHANGED <<raw, pending, orphans>>
          /\ doc[p] \in Document /\ Known(doc[p])
          /\ \/ main' = doc[p] /\ copy' = copy
             \/ main' = main /\ whole' = whole /\ copy' = doc[p]
      BY <2>4, ValidIsKnown
         DEF ReplaceMain, RefreshCopy, SourceInv, TypeInv, ProcessTypes, disk, history
    <3>2. (main' # Broken => Known(main')) /\ (main' = Broken => Known(whole')) /\ Known(copy')
      BY <3>1, SentinelAssumption DEF SourceInv
    <3> QED BY <2>1, <2>2, <3>1, <3>2 DEF SourceInv, Known, Supports, Sources
  <2>5. CASE ~UnlinkSegment /\ ~ReplaceMain(p) /\ ~RefreshCopy(p)
    <3>1. UNCHANGED files
      <4>1. CASE StoreStep(p)
        BY <2>5, <4>1 DEF StoreStep, ReadMain, Fallback, CompareSame, CompareEdited,
                          CompareRefused, CheckWrite, WriteRefused
      <4>2. CASE ~StoreStep(p)
        BY <1>3, <4>2, FilesAlone DEF StepOf
      <4> QED BY <4>1, <4>2
    <3>2. CutTail => /\ pending \in orphans' \/ pending \notin Sources(copy)
                     /\ pending \in orphans' \/ main = doc["chat"]
      BY DEF CutTail
    <3>3. CutTail => pending \notin Sources(doc["chat"]) /\ doc["chat"] # Broken
      BY SentinelAssumption DEF CutTail, OpenInv, TypeInv, ProcessTypes, Process
    <3>4. Known(copy)'
      <4>1. Known(copy) /\ copy' = copy
        BY <3>1 DEF SourceInv, files
      <4>2. \A d \in {copy} : Known(d)'
        BY <1>0, <2>0, <2>5, <3>2, <4>1, KnownStays
      <4> QED BY <4>1, <4>2 DEF Known, Supports, Sources
    <3>5. (main # Broken => Known(main))'
      <4>1. CASE main # Broken
        <5>1. Known(main) /\ main' = main
          BY <3>1, <4>1 DEF SourceInv, files
        <5>2. \A d \in {main} : Known(d)'
          BY <1>0, <2>0, <2>5, <3>2, <3>3, <4>1, <5>1, KnownStays
        <5> QED BY <5>1, <5>2 DEF Known, Supports, Sources
      <4>2. CASE main = Broken
        BY <3>1, <4>2 DEF files
      <4> QED BY <4>1, <4>2
    <3>6. (main = Broken => Known(whole))'
      <4>1. CASE main = Broken
        <5>1. Known(whole) /\ whole' = whole
          BY <3>1, <4>1 DEF SourceInv, files
        <5>2. \A d \in {whole} : Known(d)'
          BY <1>0, <2>0, <2>5, <3>2, <3>3, <4>1, <5>1, KnownStays
        <5> QED BY <5>1, <5>2 DEF Known, Supports, Sources
      <4>2. CASE main # Broken
        BY <3>1, <4>2 DEF files
      <4> QED BY <4>1, <4>2
    <3> QED BY <2>1, <2>2, <3>4, <3>5, <3>6 DEF SourceInv
  <2> QED BY <1>3, <2>3, <2>4, <2>5 DEF StoreStep
<1> QED BY <1>1, <1>2, <1>3, Steps

LEMMA SourceHolds ==
  ASSUME ~CheckAnytime
  PROVE  Spec => []SourceInv
<1>1. Init => SourceInv
  <2>1. <<>> \in Seq(Turn)
    OBVIOUS
  <2> QED BY <2>1, SupportsEmpty, EmptyIsDocument, SentinelAssumption DEF Init, SourceInv, Known
<1> QED BY <1>1, SourceStep, TypesHold, OneHolds, EmptiedHolds, OpenHolds, PTL DEF Spec

\* With no check beside a writer, neither file ever names a record that is not
\* in the archive, except a question that was cut off around the gate: while
\* the copy cited it, or after the main file the gate had read was saved anew.
\* So the gate keeps every other memory that cites the open question, and no
\* edit, crash or interrupted reset loses a source (LongTermStore.commit,
\* assert_pending_discardable, MemoryResetService.reset's order).
THEOREM FilesNameTheArchive ==
  ASSUME ~CheckAnytime
  PROVE  Spec => []SourcesExist
<1>1. SourceInv => SourcesExist
  BY DEF SourceInv, SourcesExist
<1> QED BY <1>1, SourceHolds, PTL

-----------------------------------------------------------------------------
(***************************************************************************)
(* Revisions, until a reset of all starts them again.  The main file is    *)
(* never behind the copy, and level with what a load has read of it,       *)
(* because a person leaves the number alone; a document on its way into    *)
(* the two files is later than the copy; a journal's is later than the     *)
(* document it was made from.                                              *)
(***************************************************************************)
Later(d, c) == d.revision > c.revision
Level(d, c) == d.revision = c.revision /\ d.covered = c.covered

\* The main file, or what it was before a person broke it.
Saved == IF main = Broken THEN whole ELSE main

GrowParts ==
  /\ Later(Saved, copy) \/ Level(Saved, copy)
  /\ \A p \in Process :
       /\ at[p] \in {"copy", "refresh"} => Level(Saved, doc[p])
       /\ at[p] = "refresh" => doc[p] = copy \/ Later(doc[p], copy)
       /\ at[p] \in {"check", "replace"} => Later(doc[p], copy)
  /\ at["chat"] = "curator" => Later(target, copy)
  /\ base # None => base = copy \/ Later(copy, base)
  /\ base # None /\ target # None => Later(target, base)
  /\ journal # None /\ journal.target # None => Later(journal.target, journal.doc)

GrowInv == restarted \/ GrowParts

LEMMA RestartFrame == Next => UNCHANGED restarted \/ (FactoryState /\ restarted')
<1> USE DEF history
<1>1. PersonStep => UNCHANGED restarted
  BY PersonFrame
<1>2. ASSUME NEW p \in Process, StoreStep(p) \/ Crash(p) PROVE UNCHANGED restarted
  BY <1>2 DEF StoreStep, ReadMain, Fallback, CompareSame, CompareEdited, CompareRefused,
              CheckWrite, WriteRefused, ReplaceMain, RefreshCopy, Crash
<1>3. ASSUME ChatStep PROVE UNCHANGED restarted
  BY <1>3 DEF ChatStep, StartChat, Recover, BootSettles, PassGate, GateRefuses, CutTail,
      BootResumes, BeginTurn, Checkpoint, NothingToCurate, AskCurator, CuratorReplies,
      CuratedNow, AskModel, Answer, AnswerResumed, ModelFails, Reject, PublishTurn,
      PublishConflict, PublishTarget, PublishedBefore, TargetConflict, TargetCommitted, Unlink,
      ExitChat
<1>4. ASSUME ResetStep \/ CheckStep PROVE UNCHANGED restarted \/ (FactoryState /\ restarted')
  BY <1>4 DEF ResetStep, StartReset, ClearLongTerm, CommitCleared, EndCleared, LookedAtAll,
      FactoryState, StartWipe, UnlinkSegment, EndWiped, CheckStep, StartCheck, EndCheck
<1> QED BY <1>1, <1>2, <1>3, <1>4 DEF Next

\* A turn notes a document when it begins and a proposal when it stages; both
\* are dropped with it.
LEMMA NotesFrame ==
  ASSUME ProcessTypes, Next
  PROVE  /\ base' \in {base, None} \/ Checkpoint
         /\ target' \in {target, None} \/ AskCurator
<1> USE DEF turnVars
<1>1. CASE ~StepOf("chat")
  BY <1>1, ChatFrame
<1>2. CASE StoreStep("chat")
  BY <1>2, ChatStores
<1>3. CASE Crash("chat")
  BY <1>3 DEF Crash, End
<1>4. CASE ChatStep
  BY <1>4 DEF ChatStep, StartChat, Recover, BootSettles, PassGate, GateRefuses, CutTail,
      BootResumes, BeginTurn, Checkpoint, NothingToCurate, AskCurator, CuratorReplies,
      CuratedNow, AskModel, Answer, AnswerResumed, ModelFails, Reject, PublishTurn,
      PublishConflict, PublishTarget, PublishedBefore, TargetConflict, TargetCommitted, Unlink,
      ExitChat, ToIdle, End
<1> QED BY <1>1, <1>2, <1>3, <1>4 DEF StepOf

\* Documents of the same revision, frontier and memories are the same.
LEMMA SameDocument ==
  ASSUME NEW d \in Document, NEW c \in Document, Level(d, c), d.items = c.items
  PROVE  d = c
BY DEF Document, Level

LEMMA SavedIsDocument == FileTypes => Saved \in Document
BY DEF FileTypes, Saved

\* What a step of a store object makes of the revisions.
LEMMA GrowOfStore ==
  ASSUME TypeInv, GrowParts, NEW p \in Process, StoreStep(p)
  PROVE  /\ Later(Saved, copy)' \/ Level(Saved, copy)'
         /\ copy' = copy \/ Later(copy', copy)
         /\ at'[p] \in {"copy", "refresh"} => Level(Saved, doc[p])'
         /\ at'[p] = "refresh" => doc'[p] = copy' \/ Later(doc'[p], copy')
         /\ at'[p] \in {"check", "replace"} => Later(doc'[p], copy')
<1> USE DEF ProcessTypes, GoTo, store, files
<1>0. /\ ProcessTypes /\ FileTypes /\ Saved \in Document /\ copy \in Document
      /\ \A d \in Document : d.revision \in Nat
  BY SavedIsDocument DEF TypeInv, FileTypes, Document
<1>1. ASSUME Raise(p) PROVE at'[p] \in {"down", "factory"}
  BY <1>0, <1>1 DEF Raise, End
<1>2. CASE CompareSame(p)
  <2>1. /\ doc[p] \in Document /\ Level(Saved, doc[p]) /\ doc'[p] = doc[p]
        /\ copy' = copy /\ Saved' = Saved /\ at'[p] = "refresh"
    BY <1>0, <1>2 DEF CompareSame, GrowParts, Saved
  <2>2. doc[p] = copy \/ Later(doc[p], copy)
    <3>1. doc[p] = copy \/ doc[p].items = copy.items
      BY <1>2 DEF CompareSame, SameMemories
    <3> QED BY <1>0, <2>1, <3>1, SameDocument DEF GrowParts, Level, Later
  <2> QED BY <2>1, <2>2 DEF GrowParts
<1>3. CASE CompareEdited(p)
  <2>1. doc[p] \in Document /\ doc'[p] = Accept(doc[p], copy) /\ at'[p] = "check"
        /\ copy' = copy /\ Saved' = Saved
    BY <1>0, <1>3 DEF CompareEdited, Saved
  <2>2. doc'[p].revision = copy.revision + 1
    BY <1>0, <2>1, Accepted
  <2> QED BY <1>0, <2>1, <2>2 DEF GrowParts, Later
<1>4. CASE ReplaceMain(p)
  <2>1. /\ main' = doc[p] /\ doc[p] \in Document /\ doc' = doc /\ copy' = copy
        /\ at'[p] = "refresh" /\ Later(doc[p], copy)
    BY <1>0, <1>4 DEF ReplaceMain, GrowParts
  <2>2. Saved' = doc[p]
    BY <2>1, SentinelAssumption DEF Saved
  <2> QED BY <2>1, <2>2 DEF Level
<1>5. CASE RefreshCopy(p)
  <2>1. copy' = doc[p] /\ Saved' = Saved /\ at'[p] = "done"
    BY <1>0, <1>5 DEF RefreshCopy, Saved
  <2> QED BY <1>5, <2>1 DEF RefreshCopy, GrowParts, Level
<1>6. CASE ReadMain(p)
  <2>1. copy' = copy /\ Saved' = Saved
    BY <1>6 DEF ReadMain, Saved
  <2>2. at'[p] = "copy" => doc'[p] = Saved
    BY <1>0, <1>6 DEF ReadMain, Parses, Saved
  <2>3. at'[p] \in {"copy", "fallback"}
    BY <1>0, <1>6 DEF ReadMain
  <2> QED BY <2>1, <2>2, <2>3 DEF GrowParts, Level
<1>7. CASE CheckWrite(p)
  BY <1>0, <1>7 DEF CheckWrite, GrowParts, Saved
<1>8. CASE Fallback(p) \/ CompareRefused(p) \/ WriteRefused(p)
  <2>1. copy' = copy /\ Saved' = Saved
    BY <1>8 DEF Fallback, CompareRefused, WriteRefused, Saved
  <2>2. at'[p] \in {"done", "down", "factory"}
    BY <1>0, <1>1, <1>8 DEF Fallback, CompareRefused, WriteRefused
  <2> QED BY <2>1, <2>2 DEF GrowParts
<1> QED BY <1>2, <1>3, <1>4, <1>5, <1>6, <1>7, <1>8 DEF StoreStep

\* A person's save changes neither number nor frontier.
LEMMA SavedByPerson ==
  ASSUME TypeInv, PersonStep
  PROVE  Saved'.revision = Saved.revision /\ Saved'.covered = Saved.covered
<1>1. CASE main' = Broken /\ main \in Document /\ whole' = main
  BY <1>1, SentinelAssumption DEF Saved
<1>2. CASE main = Broken /\ main' = whole /\ main' \in Document
  BY <1>2, SentinelAssumption DEF Saved
<1>3. CASE /\ main # Broken /\ main' # Broken
           /\ main'.revision = main.revision /\ main'.covered = main.covered
  BY <1>3 DEF Saved
<1> QED BY <1>1, <1>2, <1>3, PersonSavesDocument

LEMMA GrowStep ==
  ASSUME ~CheckAnytime
  PROVE  TypeInv /\ OneInv /\ DoneInv /\ NoteInv /\ GrowInv /\ [Next]_vars => GrowInv'
<1> SUFFICES ASSUME TypeInv, OneInv, DoneInv, NoteInv, GrowInv, [Next]_vars, ~restarted'
             PROVE  GrowParts'
  BY DEF GrowInv
<1>0. /\ ProcessTypes /\ FileTypes /\ Saved \in Document /\ copy \in Document
      /\ \A d \in Document : d.revision \in Nat
      /\ raw \in Seq(Turn)
  BY SavedIsDocument DEF TypeInv, FileTypes, DiskTypes, Document
<1>1. CASE UNCHANGED vars
  BY <1>1 DEF GrowInv, GrowParts, Later, Level, Saved, vars, disk, files, store, turnVars, history
<1>2. CASE PersonStep
  <2>1. GrowParts /\ UNCHANGED <<copy, at, doc, base, target, journal>>
    BY <1>2, PersonFrame DEF GrowInv, history, store, turnVars, disk
  <2> QED BY <1>2, <2>1, SavedByPerson DEF GrowParts, Later, Level
<1>3. ASSUME NEW p \in Process, StepOf(p) PROVE GrowParts'
  <2>0. GrowParts /\ ~FactoryState /\ Next
    <3>1. Next /\ ~FactoryState
      BY <1>3, StepIsNext DEF FactoryState
    <3> QED BY <3>1, RestartFrame DEF GrowInv
  <2>1. \A q \in Process \ {p} : at[q] = "down" /\ at'[q] = "down"
    BY <1>3, OneStep
  <2>2. /\ Later(Saved, copy)' \/ Level(Saved, copy)'
        /\ copy' = copy \/ Later(copy', copy)
        /\ at'[p] \in {"copy", "refresh"} => Level(Saved, doc[p])'
        /\ at'[p] = "refresh" => doc'[p] = copy' \/ Later(doc'[p], copy')
        /\ at'[p] \in {"check", "replace"} => Later(doc'[p], copy')
    <3>1. CASE StoreStep(p)
      BY <2>0, <3>1, GrowOfStore
    <3>2. CASE ~StoreStep(p)
      <4>1. copy' = copy /\ Saved' = Saved
        BY <1>3, <3>2, FilesAlone DEF StepOf, files, Saved
      <4>2. at'[p] \notin {"copy", "replace", "refresh"}
        BY <1>0, <1>3, <3>2, Outside
      <4>3. ASSUME at'[p] = "check" PROVE Later(doc'[p], copy)
        <5>1. CASE p = "chat" /\ CuratorReplies
          BY <1>0, <2>0, <4>3, <5>1
             DEF CuratorReplies, Commit, Load, GoTo, GrowParts, ProcessTypes
        <5>2. CASE p = "chat" /\ PublishTarget
          <6>1. /\ doc["chat"] = copy /\ journal # None /\ journal.target # None
                /\ doc'["chat"] = journal.target /\ journal.doc = copy
            BY <1>0, <5>2 DEF PublishTarget, Commit, Returned, ProcessTypes, DoneInv, TypeInv,
                              DiskTypes, InStore
          <6> QED BY <2>0, <5>2, <6>1 DEF GrowParts
        <5>3. CASE p = "reset" /\ CommitCleared
          <6>1. doc["reset"] = copy
            BY <5>3 DEF CommitCleared, Returned, DoneInv
          <6>2. doc'["reset"] = [copy EXCEPT !.revision = copy.revision + 1, !.items = {}]
            BY <1>0, <5>3, <6>1 DEF CommitCleared, Commit, ProcessTypes
          <6>3. doc'["reset"].revision = copy.revision + 1 /\ copy.revision \in Nat
            BY <1>0, <6>2, Cleared
          <6> QED BY <5>3, <6>3 DEF Later
        <5> QED BY <1>0, <1>3, <2>0, <3>2, <4>3, <5>1, <5>2, <5>3, Outside
      <4> QED BY <2>0, <4>1, <4>2, <4>3 DEF GrowParts, Later, Level
    <3> QED BY <3>1, <3>2
  <2>3. copy' \in Document
    BY <2>0, FilesNext DEF FileTypes
  <2>4. \A q \in Process :
          /\ at'[q] \in {"copy", "refresh"} => Level(Saved, doc[q])'
          /\ at'[q] = "refresh" => doc'[q] = copy' \/ Later(doc'[q], copy')
          /\ at'[q] \in {"check", "replace"} => Later(doc'[q], copy')
    BY <2>1, <2>2
  <2>5. ASSUME AskCurator PROVE target'.revision = copy.revision + 1 /\ doc["chat"] = copy
    <3>1. doc["chat"] = copy /\ target' \in Proposals(doc["chat"])
      BY <2>5 DEF AskCurator, Returned, DoneInv, Process
    <3> QED BY <1>0, <3>1, Proposed
  <2>6. at'["chat"] = "curator" => Later(target', copy')
    <3> SUFFICES ASSUME at'["chat"] = "curator" PROVE Later(target', copy')
      OBVIOUS
    <3>1. p = "chat" /\ ~StoreStep("chat")
      <4>1. p = "chat"
        BY <2>1 DEF Process
      <4>2. ~StoreStep("chat")
        BY <1>0, ChatStores DEF InStore
      <4> QED BY <4>1, <4>2
    <3>2. AskCurator
      BY <1>0, <1>3, <3>1, Outside
    <3>3. copy' = copy
      BY <3>2 DEF AskCurator, files
    <3> QED BY <1>0, <2>5, <3>2, <3>3 DEF Later
  <2>7. base' # None => base' = copy' \/ Later(copy', base')
    <3>1. CASE base' \in {base, None}
      <4>1. base \in Document \cup {None}
        BY DEF TypeInv, TurnTypes
      <4> QED BY <1>0, <2>0, <2>2, <2>3, <3>1, <4>1 DEF GrowParts, Later
    <3>2. CASE Checkpoint
      BY <3>2 DEF Checkpoint, Returned, DoneInv, Process, files
    <3> QED BY <1>0, <2>0, <3>1, <3>2, NotesFrame
  <2>8. base' # None /\ target' # None => Later(target', base')
    <3>1. CASE Checkpoint
      BY <3>1 DEF Checkpoint, Returned, NoteInv, InStore
    <3>2. CASE AskCurator
      <4>1. base' = base /\ base \in Document \cup {None}
        BY <3>2 DEF AskCurator, TypeInv, TurnTypes
      <4> QED BY <1>0, <2>0, <2>5, <3>2, <4>1 DEF GrowParts, Later
    <3>3. CASE base' \in {base, None} /\ target' \in {target, None}
      BY <2>0, <3>3 DEF GrowParts, Later
    <3> QED BY <1>0, <2>0, <3>1, <3>2, <3>3, NotesFrame
  <2>9. journal' # None /\ journal'.target # None => Later(journal'.target, journal'.doc)
    <3>1. CASE Answer
      <4>1. base # None
        BY <3>1, SentinelAssumption DEF Answer, TypeInv, TurnTypes, InTurn, InStore
      <4> QED BY <2>0, <3>1, <4>1 DEF Answer, GrowParts
    <3>2. CASE ~Answer
      <4>1. journal' \in {journal, None}
        BY <2>0, <3>2, ArchiveFrame DEF AnswerResumed, PublishTurn, Unlink, UnlinkSegment
      <4> QED BY <2>0, <4>1 DEF GrowParts
    <3> QED BY <3>1, <3>2
  <2> QED BY <2>2, <2>4, <2>6, <2>7, <2>8, <2>9 DEF GrowParts
<1> QED BY <1>1, <1>2, <1>3, Steps

LEMMA GrowHolds ==
  ASSUME ~CheckAnytime
  PROVE  Spec => []GrowInv
<1>1. Init => GrowInv
  BY SentinelAssumption, EmptyIsDocument
     DEF Init, GrowInv, GrowParts, Process, Level, Saved
<1> QED BY <1>1, GrowStep, TypesHold, OneHolds, DoneHolds, NoteHolds, PTL DEF Spec

\* What load serves next is later than what it served before.
LEMMA CopyGrows ==
  ASSUME TypeInv, GrowInv, Next, ~restarted'
  PROVE  copy' = copy \/ Later(copy', copy)
<1>1. GrowParts
  BY RestartFrame DEF GrowInv
<1>2. ASSUME NEW p \in Process, RefreshCopy(p) PROVE copy' = copy \/ Later(copy', copy)
  BY <1>1, <1>2, GrowOfStore DEF StoreStep
<1> QED BY <1>2, FilesFrame, PersonFrame DEF files, ReplaceMain

\* A revision names one document, until a reset of all starts the numbers
\* again: what load serves next has a higher one, through edits that leave the
\* number alone, a cleared document and crashes between the two replacements
\* (the cursors of memory_source_query depend on it).
RevisionGrows ==
  [][copy' # copy => copy'.revision > copy.revision \/ restarted]_vars

\* Until a reset of all, what load serves next has a higher revision than what
\* it served before, through edits that leave the number alone, a cleared
\* document and crashes between the two replacements (LongTermStore.load,
\* commit and _refresh_last_valid).
THEOREM RevisionsGrow ==
  ASSUME ~CheckAnytime
  PROVE  Spec => RevisionGrows
<1>1. TypeInv /\ GrowInv /\ [Next]_vars
        => [copy' # copy => copy'.revision > copy.revision \/ restarted]_vars
  <2> SUFFICES ASSUME TypeInv, GrowInv, Next, copy' # copy, ~restarted PROVE Later(copy', copy)
    BY DEF Later, vars, files
  <2>1. ~restarted'
    BY RestartFrame DEF FactoryState, files
  <2> QED BY <2>1, CopyGrows
<1> QED BY <1>1, TypesHold, GrowHolds, PTL DEF Spec, RevisionGrows

-----------------------------------------------------------------------------
(***************************************************************************)
(* What is written over the main file was made from what was read there.   *)
(* A proposal has all memories of the document it was made from, and       *)
(* others only of turns it newly covers; so has an accepted edit, and so   *)
(* has a journal's document when it is published over its own baseline.    *)
(***************************************************************************)
Keeps(m, d) ==
  /\ Sources(m) \subseteq Sources(d)
  /\ Sources(d) \ Sources(m) \subseteq ToSet(d.covered) \ ToSet(m.covered)

WriterInv(p) ==
  /\ at[p] \in {"check", "replace"} =>
       \/ readOnly[p]
       \/ /\ loadedHash[p] \notin {None, Broken}
          /\ Keeps(loadedHash[p], doc[p]) \/ (restarted /\ job[p] = "commit")
  /\ at[p] = "replace" => ~readOnly[p]
  /\ at[p] \in {"refresh", "done", "curator"} => readOnly[p] \/ loadedHash[p] = doc[p]

StagedInv ==
  /\ at["chat"] = "curator" => Keeps(copy, target)
  /\ ~restarted /\ base # None /\ target # None => Keeps(base, target) \/ Later(copy, base)
  /\ ~restarted /\ journal # None /\ journal.target # None
       => Keeps(journal.doc, journal.target) \/ Later(copy, journal.doc)

WriteInv == WriterInv("chat") /\ WriterInv("check") /\ StagedInv

\* The turns of a batch are none of those covered before.
LEMMA NewlyCovered ==
  ASSUME NEW log \in Seq(Turn), \A i, j \in DOMAIN log : log[i] = log[j] => i = j,
         NEW c \in Seq(Turn), IsPrefix(c, log),
         NEW n \in 1..Len(log), Len(c) < n
  PROVE  ToSet(SubSeq(log, Len(c) + 1, n)) \subseteq ToSet(SubSeq(log, 1, n)) \ ToSet(c)
<1> DEFINE m == Len(c)
           l == Len(log)
           first == SubSeq(log, 1, n)
           rest == SubSeq(log, m + 1, n)
<1>1. m \in Nat /\ l \in Nat /\ n \in 1..l /\ m < n
  OBVIOUS
<1>2. DOMAIN first = 1..n /\ \A i \in 1..n : first[i] = log[i]
  BY <1>1
<1>3. DOMAIN rest = 1..(n - m) /\ \A i \in 1..(n - m) : rest[i] = log[m + i]
  <2>1. m + 1 \in 1..(l + 1) /\ n \in m..l
    BY <1>1
  <2> HIDE DEF m
  <2>2. rest \in Seq(Turn) /\ Len(rest) = n - m
    BY <1>1, <2>1
  <2>3. \A i \in 1..(n - m) : rest[i] = log[(m + 1) + i - 1]
    BY <1>1, <2>1, <2>2
  <2>4. \A i \in 1..(n - m) : (m + 1) + i - 1 = m + i
    BY <1>1
  <2> QED BY <2>2, <2>3, <2>4, LenProperties
<1>4. DOMAIN c = 1..m /\ \A i \in 1..m : c[i] = log[i]
  <2>1. SubSeq(c, 1, m) = SubSeq(log, 1, m) /\ m <= l
    BY DEF IsPrefix
  <2>2. \A i \in 1..m : SubSeq(c, 1, m)[i] = c[i] /\ SubSeq(log, 1, m)[i] = log[i]
    BY <1>1
  <2> QED BY <2>1, <2>2, LenProperties
<1>5. DOMAIN log = 1..l
  BY LenProperties
<1> HIDE DEF m, l, first, rest
<1>6. ASSUME NEW i \in 1..(n - m)
      PROVE  rest[i] \in ToSet(first) /\ rest[i] \notin ToSet(c)
  <2>1. m + i \in 1..n /\ m + i \in 1..l
    BY <1>1
  <2>2. rest[i] = first[m + i] /\ rest[i] = log[m + i]
    BY <1>2, <1>3, <2>1
  <2>3. \A j \in 1..m : j \in 1..l /\ j # m + i
    BY <1>1
  <2>4. \A j \in 1..m : c[j] # log[m + i]
    BY <1>4, <1>5, <2>1, <2>3
  <2> QED BY <1>2, <1>4, <2>1, <2>2, <2>4 DEF ToSet
<1>7. ToSet(rest) \subseteq ToSet(first) \ ToSet(c)
  BY <1>3, <1>6 DEF ToSet
<1> QED BY <1>7 DEF rest, first, m

LEMMA ProposalKeeps ==
  ASSUME raw \in Seq(Turn), \A i, j \in DOMAIN raw : raw[i] = raw[j] => i = j,
         NEW d \in Document, IsPrefix(d.covered, raw), NEW t \in Proposals(d)
  PROVE  Keeps(d, t)
<1>1. PICK n \in 1..Len(raw) :
        /\ t.covered = SubSeq(raw, 1, n) /\ Len(d.covered) < n
        /\ \A item \in t.items \ d.items :
             item.source \in ToSet(SubSeq(raw, Len(d.covered) + 1, n))
  BY Proposed
<1>2. d.covered \in Seq(Turn) /\ IsPrefix(d.covered, raw)
  BY DEF Document
<1>3. ToSet(SubSeq(raw, Len(d.covered) + 1, n)) \subseteq ToSet(t.covered) \ ToSet(d.covered)
  BY <1>1, <1>2, NewlyCovered
<1>4. Sources(d) \subseteq Sources(t)
  BY Proposed DEF Sources
<1>5. Sources(t) \ Sources(d) \subseteq ToSet(t.covered) \ ToSet(d.covered)
  BY <1>1, <1>3 DEF Sources
<1> QED BY <1>4, <1>5 DEF Keeps

LEMMA WriterOfStore ==
  ASSUME TypeInv, NEW p \in Process, WriterInv(p), StoreStep(p)
  PROVE  WriterInv(p)'
<1> USE DEF WriterInv, ProcessTypes, GoTo, Remember, store
<1>0. /\ ProcessTypes /\ copy \in Document
      /\ \A d \in Document : d # None /\ d # Broken
  BY SentinelAssumption DEF TypeInv, FileTypes
<1>1. ASSUME Raise(p) PROVE at'[p] \in {"down", "factory"}
  BY <1>0, <1>1 DEF Raise, End
<1>2. restarted' = restarted
  BY DEF StoreStep, ReadMain, Fallback, CompareSame, CompareEdited, CompareRefused,
         CheckWrite, WriteRefused, ReplaceMain, RefreshCopy, history
<1>3. CASE ReadMain(p)
  BY <1>0, <1>3 DEF ReadMain
<1>4. CASE Fallback(p)
  <2>1. CASE Parses(copy)
    <3>1. at'[p] = "done" /\ readOnly' = [readOnly EXCEPT ![p] = TRUE]
      BY <1>0, <1>4, <2>1 DEF Fallback
    <3> QED BY <1>0, <3>1
  <2>2. CASE ~Parses(copy)
    BY <1>1, <1>4, <2>2 DEF Fallback
  <2> QED BY <2>1, <2>2
<1>5. CASE CompareSame(p)
  BY <1>0, <1>5 DEF CompareSame
<1>6. CASE CompareEdited(p)
  <2>1. doc[p] \in Document /\ doc'[p] = Accept(doc[p], copy) /\ at'[p] = "check"
        /\ loadedHash'[p] = doc[p]
    BY <1>0, <1>6 DEF CompareEdited
  <2>2. Keeps(doc[p], doc'[p])
    BY <1>0, <2>1, Accepted DEF Keeps
  <2>3. WriterInv(p)'
    BY <1>0, <2>1, <2>2 DEF Keeps, Sources
  <2> QED BY <2>3
<1>7. CASE CheckWrite(p)
  <2>1. /\ at[p] = "check" /\ at'[p] = "replace" /\ ~readOnly[p]
        /\ UNCHANGED <<job, doc, loadedHash, readOnly>>
    BY <1>0, <1>7 DEF CheckWrite, MayWrite
  <2> QED BY <1>2, <2>1 DEF Keeps, Sources
<1>8. CASE ReplaceMain(p)
  BY <1>0, <1>8 DEF ReplaceMain
<1>9. CASE RefreshCopy(p)
  BY <1>0, <1>9 DEF RefreshCopy
<1>10. CASE CompareRefused(p) \/ WriteRefused(p)
  BY <1>1, <1>10 DEF CompareRefused, WriteRefused
<1> QED BY <1>3, <1>4, <1>5, <1>6, <1>7, <1>8, <1>9, <1>10 DEF StoreStep

\* The documents that are committed from outside the store object.
LEMMA WriterOfOther ==
  ASSUME TypeInv, DoneInv, WriteInv, NEW p \in {"chat", "check"}, StepOf(p), ~StoreStep(p)
  PROVE  WriterInv(p)'
<1> USE DEF ProcessTypes, GoTo
<1>0. /\ ProcessTypes /\ p \in Process /\ copy \in Document /\ copy.revision \in Nat
      /\ \A d \in Document : d # None /\ d # Broken
  BY SentinelAssumption DEF TypeInv, FileTypes, Process, Document
<1>1. WriterInv(p)
  BY DEF WriteInv
<1>2. /\ at'[p] \notin {"copy", "replace", "refresh", "done"}
      /\ at'[p] = "curator" => p = "chat" /\ AskCurator
      /\ at'[p] = "check" => p = "chat" /\ (CuratorReplies \/ PublishTarget)
  BY <1>0, Outside
<1>3. CASE p = "chat" /\ AskCurator
  <2>1. at["chat"] = "done" /\ at'["chat"] = "curator" /\ UNCHANGED <<doc, loadedHash, readOnly>>
    BY <1>0, <1>3 DEF AskCurator, Returned, store
  <2> QED BY <1>1, <1>3, <2>1 DEF WriterInv
<1>4. CASE p = "chat" /\ at'[p] = "check" /\ CuratorReplies
  <2>1. /\ at["chat"] = "curator" /\ at'["chat"] = "check" /\ doc'["chat"] = target
        /\ doc["chat"] = copy /\ UNCHANGED <<loadedHash, readOnly>>
    BY <1>0, <1>4 DEF CuratorReplies, Commit, Load, DoneInv
  <2>2. Keeps(copy, target)
    BY <2>1 DEF WriteInv, StagedInv
  <2> QED BY <1>0, <1>1, <1>4, <2>1, <2>2 DEF WriterInv, Keeps, Sources
<1>5. CASE p = "chat" /\ at'[p] = "check" /\ PublishTarget
  <2>1. /\ at["chat"] = "done" /\ at'["chat"] = "check" /\ doc'["chat"] = journal.target
        /\ doc["chat"] = copy /\ journal.doc = copy /\ job'["chat"] = "commit"
        /\ journal # None /\ journal.target # None
        /\ UNCHANGED <<loadedHash, readOnly, restarted>>
    BY <1>0, <1>5 DEF PublishTarget, Returned, Commit, DoneInv, history, TypeInv, DiskTypes, InStore
  <2>2. restarted \/ Keeps(copy, journal.target)
    BY <1>0, <2>1 DEF WriteInv, StagedInv, Later
  <2> QED BY <1>0, <1>1, <1>5, <2>1, <2>2 DEF WriterInv, Keeps, Sources
<1>6. CASE at'[p] \notin {"check", "curator"}
  BY <1>2, <1>6 DEF WriterInv
<1> QED BY <1>2, <1>3, <1>4, <1>5, <1>6

LEMMA StagedStep ==
  ASSUME ~CheckAnytime
  PROVE  TypeInv /\ OneInv /\ DoneInv /\ NoteInv /\ FreshInv /\ SourceInv /\ GrowInv
           /\ StagedInv /\ Next => StagedInv'
<1> SUFFICES ASSUME TypeInv, OneInv, DoneInv, NoteInv, FreshInv, SourceInv, GrowInv,
                    StagedInv, Next
             PROVE  StagedInv'
  OBVIOUS
<1>0. /\ ProcessTypes /\ copy \in Document /\ copy' \in Document /\ raw \in Seq(Turn)
      /\ "chat" \in Process
      /\ \A d \in Document : d.revision \in Nat
  BY FilesNext DEF TypeInv, FileTypes, DiskTypes, Process, Document
<1>1. ASSUME AskCurator PROVE Keeps(copy, target') /\ doc["chat"] = copy
  <2>1. doc["chat"] = copy /\ target' \in Proposals(doc["chat"])
    BY <1>1 DEF AskCurator, Returned, DoneInv, Process
  <2> QED BY <1>0, <2>1, ProposalKeeps DEF FreshInv, SourceInv, Known, Supports
<1>2. ASSUME ~restarted'
      PROVE  ~restarted /\ (copy' = copy \/ Later(copy', copy))
  BY <1>2, CopyGrows, RestartFrame
<1>3. at'["chat"] = "curator" => Keeps(copy', target')
  <2> SUFFICES ASSUME at'["chat"] = "curator" PROVE Keeps(copy', target')
    OBVIOUS
  <2>1. CASE AskCurator
    <3>1. copy' = copy
      BY <2>1 DEF AskCurator, files
    <3> QED BY <1>1, <2>1, <3>1
  <2>2. CASE StepOf("chat") /\ ~AskCurator
    <3>1. ~StoreStep("chat")
      BY <1>0, ChatStores DEF InStore
    <3> QED BY <1>0, <2>2, <3>1, Outside
  <2>3. CASE ~StepOf("chat")
    <3>1. at["chat"] = "curator" /\ target' = target
      BY <1>0, <2>3, ChatFrame DEF turnVars
    <3>2. copy' = copy
      <4>1. CASE PersonStep
        BY <4>1, PersonFrame
      <4>2. ASSUME NEW p \in Process, StepOf(p) PROVE FALSE
        BY <1>0, <2>3, <3>1, <4>2, OneStep
      <4> QED BY <4>1, <4>2, Steps
    <3> QED BY <3>1, <3>2 DEF StagedInv, Keeps, Sources
  <2> QED BY <2>1, <2>2, <2>3
<1>4. ASSUME NEW d \in Document, NEW t, ~restarted', Keeps(d, t) \/ Later(copy, d)
      PROVE  Keeps(d, t) \/ Later(copy', d)
  <2>1. d.revision \in Nat /\ copy.revision \in Nat /\ copy'.revision \in Nat
    BY <1>0
  <2> QED BY <1>2, <1>4, <2>1 DEF Later
<1>5. ~restarted' /\ base' # None /\ target' # None => Keeps(base', target') \/ Later(copy', base')
  <2> SUFFICES ASSUME ~restarted', base' # None, target' # None
               PROVE  Keeps(base', target') \/ Later(copy', base')
    OBVIOUS
  <2>0. ~restarted /\ base \in Document \cup {None}
    BY <1>2 DEF TypeInv, TurnTypes
  <2>1. CASE Checkpoint
    BY <2>1 DEF Checkpoint, Returned, NoteInv, InStore
  <2>2. CASE AskCurator
    <3>1. base' = base /\ copy' = copy
      BY <2>2 DEF AskCurator, files
    <3>2. base = copy \/ Later(copy, base)
      BY <2>0, <3>1 DEF GrowInv, GrowParts
    <3> QED BY <1>1, <2>2, <3>1, <3>2
  <2>3. CASE base' = base /\ target' = target
    BY <1>4, <2>0, <2>3 DEF StagedInv
  <2> QED BY <1>0, <2>1, <2>2, <2>3, NotesFrame
<1>6. ~restarted' /\ journal' # None /\ journal'.target # None
        => Keeps(journal'.doc, journal'.target) \/ Later(copy', journal'.doc)
  <2> SUFFICES ASSUME ~restarted', journal' # None, journal'.target # None
               PROVE  Keeps(journal'.doc, journal'.target) \/ Later(copy', journal'.doc)
    OBVIOUS
  <2>1. CASE Answer
    <3>1. base \in Document /\ base # None
      BY <2>1, SentinelAssumption DEF Answer, TypeInv, TurnTypes, InTurn, InStore
    <3>2. journal'.doc = base /\ journal'.target = target
      BY <2>1 DEF Answer
    <3>3. Keeps(base, target) \/ Later(copy, base)
      BY <1>2, <3>1, <3>2 DEF StagedInv
    <3> QED BY <1>4, <3>1, <3>2, <3>3
  <2>2. CASE ~Answer
    <3>1. journal' = journal
      BY <2>2, ArchiveFrame DEF AnswerResumed, PublishTurn, Unlink, UnlinkSegment
    <3>2. journal.doc \in Document
      BY <3>1 DEF TypeInv, DiskTypes, Journal
    <3> QED BY <1>2, <1>4, <3>1, <3>2 DEF StagedInv
  <2> QED BY <2>1, <2>2
<1> QED BY <1>3, <1>5, <1>6 DEF StagedInv, Keeps, Sources, Later

LEMMA WriteHolds ==
  ASSUME ~CheckAnytime
  PROVE  Spec => []WriteInv
<1>1. Init => WriteInv
  BY DEF Init, WriteInv, WriterInv, StagedInv, Process
<1>2. TypeInv /\ OneInv /\ DoneInv /\ NoteInv /\ FreshInv /\ SourceInv /\ GrowInv
        /\ WriteInv /\ [Next]_vars => WriteInv'
  <2> SUFFICES ASSUME TypeInv, OneInv, DoneInv, NoteInv, FreshInv, SourceInv, GrowInv,
                      WriteInv, [Next]_vars
               PROVE  WriteInv'
    OBVIOUS
  <2>1. CASE UNCHANGED vars
    BY <2>1 DEF WriteInv, WriterInv, StagedInv, Keeps, Sources, Later, vars, disk, files, store,
                turnVars, history
  <2>2. CASE Next
    <3>1. ASSUME NEW q \in {"chat", "check"} PROVE WriterInv(q)'
      <4>0. ProcessTypes /\ q \in Process /\ WriterInv(q)
        BY DEF TypeInv, Process, WriteInv
      <4>1. CASE StepOf(q)
        BY <4>0, <4>1, WriterOfStore, WriterOfOther
      <4>2. CASE ~StepOf(q)
        <5>1. UNCHANGED <<at[q], job[q], doc[q], loadedHash[q], readOnly[q]>>
          <6>1. PersonStep => UNCHANGED <<at[q], job[q], doc[q], loadedHash[q], readOnly[q]>>
            BY PersonFrame DEF store
          <6> QED BY <2>2, <4>0, <4>2, <6>1, Steps, ProcessFrame
        <5>2. restarted => restarted'
          BY <2>2, RestartFrame
        <5> QED BY <4>0, <5>1, <5>2 DEF WriterInv, Keeps, Sources
      <4> QED BY <4>1, <4>2
    <3> QED BY <2>2, <3>1, StagedStep DEF WriteInv
  <2> QED BY <2>1, <2>2
<1> QED BY <1>1, <1>2, TypesHold, OneHolds, DoneHolds, NoteHolds, FreshHolds, SourceHolds,
       GrowHolds, PTL DEF Spec

\* What a person saved is not overwritten unread: the chat and the checks
\* replace the main file only by a document that has all its memories, and
\* others only of turns it newly covers.  The exceptions are a save between
\* commit's comparison and its replacement, and, once a `reset all` has emptied
\* the document, what any journal publishes (LongTermStore.commit,
\* publish_target).
THEOREM EditsAreKept ==
  ASSUME ~CheckAnytime
  PROVE  Spec => EditsSurvive
<1>1. TypeInv /\ WriteInv /\ [Next]_vars
        => [\A p \in {"chat", "check"} :
              at[p] = "replace" /\ main' # main /\ loadedHash[p] \in {None, main}
                /\ at'[p] = "refresh" /\ ~(restarted /\ job[p] = "commit")
                => /\ main # Broken
                   /\ Sources(main) \subseteq Sources(main')
                   /\ Sources(main') \ Sources(main) \subseteq
                        ToSet(main'.covered) \ ToSet(main.covered)]_vars
  <2> SUFFICES ASSUME TypeInv, WriteInv, Next, NEW p \in {"chat", "check"},
                      at[p] = "replace", main' # main, loadedHash[p] \in {None, main},
                      at'[p] = "refresh", ~(restarted /\ job[p] = "commit")
               PROVE  main # Broken /\ Keeps(main, main')
    BY DEF vars, files, Keeps, Sources
  <2>0. ProcessTypes /\ p \in Process /\ WriterInv(p)
    BY DEF TypeInv, Process, WriteInv
  <2>1. StepOf(p)
    BY <2>0, Steps, PersonFrame, ProcessFrame
  <2>2. StoreStep(p)
    BY <2>0, <2>1, Outside
  <2>3. ReplaceMain(p)
    BY <2>0, <2>2 DEF StoreStep, ReadMain, Fallback, CompareSame, CompareEdited, CompareRefused,
                      CheckWrite, WriteRefused, RefreshCopy
  <2>4. main' = doc[p] /\ loadedHash[p] = main /\ main # Broken /\ Keeps(main, doc[p])
    BY <2>0, <2>3 DEF ReplaceMain, WriterInv
  <2> QED BY <2>4
<1> QED BY <1>1, TypesHold, WriteHolds, PTL DEF Spec, EditsSurvive
=============================================================================
