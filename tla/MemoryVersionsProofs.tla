------------------------- MODULE MemoryVersionsProofs -------------------------
(***************************************************************************)
(* LongTermStore implements MemoryVersions: every step of the processes    *)
(* and of the person is a step of the chain of versions, or leaves it.     *)
(***************************************************************************)
EXTENDS LongTermStoreProofs

\* Document d is at most the version after c, going by number and frontier.
Ahead(c, d) ==
  /\ d.revision = c.revision + 1
  /\ d.covered = c.covered \/ IsStrictPrefix(c.covered, d.covered)

(***************************************************************************)
(* The main file is level with the copy or one version ahead of it, a      *)
(* document on its way into the two files is the version after the copy,   *)
(* and a proposal the version after the document it was made from, until   *)
(* another version is served.                                              *)
(***************************************************************************)
VersionParts ==
  /\ Level(Saved, copy) \/ Ahead(copy, Saved)
  /\ \A p \in Process :
       /\ at[p] = "refresh" => doc[p] = copy \/ Versions!Version(copy, doc[p])
       /\ at[p] \in {"check", "replace"} => Versions!Version(copy, doc[p])
  /\ at["chat"] = "curator" => Versions!Version(copy, target)
  /\ base # None /\ target # None => Versions!Version(base, target) \/ Later(copy, base)
  /\ journal # None /\ journal.target # None
       => Versions!Version(journal.doc, journal.target) \/ Later(copy, journal.doc)

VersionInv == restarted \/ VersionParts

-----------------------------------------------------------------------------
\* The helpers are the same here and in the instance.
LEMMA SameHelpers ==
  ASSUME NEW s, NEW t
  PROVE  /\ Versions!ToSet(s) = ToSet(s)
         /\ Versions!IsPrefix(s, t) = IsPrefix(s, t)
         /\ Versions!IsStrictPrefix(s, t) = IsStrictPrefix(s, t)
BY DEF Versions!ToSet, ToSet, Versions!IsPrefix, IsPrefix, Versions!IsStrictPrefix, IsStrictPrefix

LEMMA VersionIsAhead ==
  ASSUME NEW c, NEW d, Versions!Version(c, d)
  PROVE  Ahead(c, d)
BY SameHelpers
   DEF Versions!Version, Versions!Edited, Versions!Curated, Versions!NextRevision, Ahead

\* With the same memories, one version ahead is the next version: an edit that
\* was taken back, or a batch without new memories.
LEMMA SameMemoriesAhead ==
  ASSUME NEW c, NEW d, Ahead(c, d), d.items = c.items
  PROVE  Versions!Version(c, d)
BY SameHelpers
   DEF Versions!Version, Versions!Edited, Versions!Curated, Versions!NextRevision, Ahead

LEMMA AcceptedIsVersion ==
  ASSUME NEW d \in Document, NEW c \in Document, d.covered = c.covered
  PROVE  Versions!Version(c, Accept(d, c))
BY Accepted DEF Versions!Version, Versions!Edited, Versions!NextRevision

LEMMA ClearedIsVersion ==
  ASSUME NEW c \in Document
  PROVE  Versions!Version(c, [c EXCEPT !.revision = c.revision + 1, !.items = {}])
<1> DEFINE d == [c EXCEPT !.revision = c.revision + 1, !.items = {}]
<1>1. d.revision = c.revision + 1 /\ d.items = {}
  BY Cleared
<1>2. d.covered = c.covered
  BY DEF Document
<1> HIDE DEF d
<1>3. Versions!Version(c, d)
  BY <1>1, <1>2 DEF Versions!Version, Versions!Edited, Versions!NextRevision
<1> QED BY <1>3 DEF d

\* A first part of the archive is a strict prefix of a longer one.
LEMMA PrefixOfFirst ==
  ASSUME NEW log \in Seq(Turn), NEW c \in Seq(Turn), IsPrefix(c, log),
         NEW n \in 1..Len(log), Len(c) < n
  PROVE  IsStrictPrefix(c, SubSeq(log, 1, n))
<1> DEFINE m == Len(c)
           l == Len(log)
           first == SubSeq(log, 1, n)
<1>1. m \in Nat /\ l \in Nat /\ n \in 1..l /\ m < n
  OBVIOUS
<1>2. /\ first \in Seq(Turn) /\ Len(first) = n
      /\ \A i \in 1..n : first[i] = log[i]
  BY <1>1
<1>3. SubSeq(first, 1, m) = SubSeq(log, 1, m)
  <2> HIDE DEF first
  <2>1. /\ SubSeq(first, 1, m) \in Seq(Turn) /\ Len(SubSeq(first, 1, m)) = m
        /\ SubSeq(log, 1, m) \in Seq(Turn) /\ Len(SubSeq(log, 1, m)) = m
    BY <1>1, <1>2
  <2>2. \A i \in 1..m : SubSeq(first, 1, m)[i] = first[i] /\ SubSeq(log, 1, m)[i] = log[i]
    BY <1>1, <1>2
  <2>3. \A i \in 1..m : first[i] = log[i]
    BY <1>1, <1>2
  <2> QED BY <2>1, <2>2, <2>3, SeqEqual
<1>4. SubSeq(c, 1, m) = SubSeq(log, 1, m)
  BY DEF IsPrefix
<1>5. c # first
  BY <1>1, <1>2
<1> QED BY <1>1, <1>2, <1>3, <1>4, <1>5 DEF IsStrictPrefix, IsPrefix

LEMMA ProposalIsVersion ==
  ASSUME raw \in Seq(Turn), \A i, j \in DOMAIN raw : raw[i] = raw[j] => i = j,
         NEW d \in Document, IsPrefix(d.covered, raw), NEW t \in Proposals(d)
  PROVE  Versions!Version(d, t)
<1>1. PICK n \in 1..Len(raw) :
        /\ t.covered = SubSeq(raw, 1, n) /\ Len(d.covered) < n
        /\ \A item \in t.items \ d.items :
             /\ item.by = "auto" /\ item.source \notin Sources(d)
             /\ item.source \in ToSet(SubSeq(raw, Len(d.covered) + 1, n))
  BY Proposed
<1>2. d.covered \in Seq(Turn) /\ IsPrefix(d.covered, raw)
  BY DEF Document
<1>3. ToSet(SubSeq(raw, Len(d.covered) + 1, n)) \subseteq ToSet(t.covered) \ ToSet(d.covered)
  BY <1>1, <1>2, NewlyCovered
<1>4. IsStrictPrefix(d.covered, t.covered)
  BY <1>1, <1>2, PrefixOfFirst
<1>5. t.revision = d.revision + 1 /\ d.items \subseteq t.items
  BY Proposed
<1>6. ASSUME NEW item \in t.items \ d.items, NEW known \in d.items
      PROVE  known.source # item.source
  BY <1>1, <1>6 DEF Sources
<1>7. Versions!Curated(d, t)
  BY <1>1, <1>3, <1>4, <1>5, <1>6, SameHelpers DEF Versions!Curated, Versions!NextRevision
<1> QED BY <1>7 DEF Versions!Version

-----------------------------------------------------------------------------
(***************************************************************************)
(* The chain goes on.                                                      *)
(***************************************************************************)
\* What a step of a store object makes of the versions.
LEMMA VersionOfStore ==
  ASSUME TypeInv, GrowParts, VersionParts, NEW p \in Process, StoreStep(p)
  PROVE  /\ Level(Saved, copy)' \/ Ahead(copy, Saved)'
         /\ copy' = copy \/ Versions!Version(copy, copy')
         /\ at'[p] = "refresh" => doc'[p] = copy' \/ Versions!Version(copy', doc'[p])
         /\ at'[p] \in {"check", "replace"} => Versions!Version(copy', doc'[p])
<1> USE DEF ProcessTypes, GoTo, store, files
<1>0. ProcessTypes /\ copy \in Document
  BY DEF TypeInv, FileTypes
<1>1. ASSUME Raise(p) PROVE at'[p] \in {"down", "factory"}
  BY <1>0, <1>1 DEF Raise, End
<1>2. CASE CompareSame(p)
  <2>1. /\ doc[p] \in Document /\ Level(Saved, doc[p]) /\ doc'[p] = doc[p]
        /\ copy' = copy /\ Saved' = Saved /\ at'[p] = "refresh"
    BY <1>0, <1>2 DEF CompareSame, GrowParts, Saved
  <2>2. doc[p] = copy \/ Versions!Version(copy, doc[p])
    <3>1. doc[p] = copy \/ doc[p].items = copy.items
      BY <1>2 DEF CompareSame, SameMemories
    <3>2. CASE doc[p].items = copy.items /\ Level(Saved, copy)
      <4>1. Level(doc[p], copy)
        BY <2>1, <3>2 DEF Level
      <4> QED BY <1>0, <2>1, <3>2, <4>1, SameDocument
    <3>3. CASE doc[p].items = copy.items /\ Ahead(copy, Saved)
      <4>1. Ahead(copy, doc[p])
        BY <2>1, <3>3 DEF Level, Ahead
      <4> QED BY <3>3, <4>1, SameMemoriesAhead
    <3> QED BY <3>1, <3>2, <3>3 DEF VersionParts
  <2> QED BY <2>1, <2>2 DEF VersionParts, Level, Ahead
<1>3. CASE CompareEdited(p)
  <2>1. doc[p] \in Document /\ doc'[p] = Accept(doc[p], copy) /\ at'[p] = "check"
        /\ copy' = copy /\ Saved' = Saved /\ doc[p].covered = copy.covered
    BY <1>0, <1>3 DEF CompareEdited, Saved
  <2>2. Versions!Version(copy, doc'[p])
    BY <1>0, <2>1, AcceptedIsVersion
  <2> QED BY <2>1, <2>2 DEF VersionParts, Level, Ahead
<1>4. CASE ReplaceMain(p)
  <2>1. /\ main' = doc[p] /\ doc[p] \in Document /\ doc' = doc /\ copy' = copy
        /\ at'[p] = "refresh" /\ Versions!Version(copy, doc[p])
    BY <1>0, <1>4 DEF ReplaceMain, VersionParts
  <2>2. Saved' = doc[p]
    BY <2>1, SentinelAssumption DEF Saved
  <2>3. Ahead(copy, doc[p])
    BY <2>1, VersionIsAhead
  <2> QED BY <2>1, <2>2, <2>3 DEF Ahead
<1>5. CASE RefreshCopy(p)
  <2>1. copy' = doc[p] /\ Saved' = Saved /\ at'[p] = "done" /\ Level(Saved, doc[p])
    BY <1>0, <1>5 DEF RefreshCopy, Saved, GrowParts
  <2> QED BY <1>5, <2>1 DEF RefreshCopy, VersionParts, Level
<1>6. CASE CheckWrite(p)
  BY <1>0, <1>6 DEF CheckWrite, VersionParts, Saved, Level, Ahead
<1>7. CASE ReadMain(p) \/ Fallback(p) \/ CompareRefused(p) \/ WriteRefused(p)
  <2>1. copy' = copy /\ Saved' = Saved
    BY <1>7 DEF ReadMain, Fallback, CompareRefused, WriteRefused, Saved
  <2>2. at'[p] \in {"copy", "fallback", "done", "down", "factory"}
    BY <1>0, <1>1, <1>7 DEF ReadMain, Fallback, CompareRefused, WriteRefused
  <2> QED BY <2>1, <2>2 DEF VersionParts, Level, Ahead
<1> QED BY <1>2, <1>3, <1>4, <1>5, <1>6, <1>7 DEF StoreStep

\* Each document served is the version after the one before it.
LEMMA CopyFollows ==
  ASSUME TypeInv, GrowInv, VersionInv, Next, ~restarted'
  PROVE  copy' = copy \/ Versions!Version(copy, copy')
<1>1. GrowParts /\ VersionParts
  BY RestartFrame DEF GrowInv, VersionInv
<1>2. ASSUME NEW p \in Process, RefreshCopy(p)
      PROVE  copy' = copy \/ Versions!Version(copy, copy')
  BY <1>1, <1>2, VersionOfStore DEF StoreStep
<1> QED BY <1>2, FilesFrame, PersonFrame DEF files, ReplaceMain

LEMMA VersionStep ==
  ASSUME ~CheckAnytime
  PROVE  TypeInv /\ OneInv /\ DoneInv /\ NoteInv /\ FreshInv /\ SourceInv /\ GrowInv
           /\ VersionInv /\ [Next]_vars => VersionInv'
<1> SUFFICES ASSUME TypeInv, OneInv, DoneInv, NoteInv, FreshInv, SourceInv, GrowInv, VersionInv,
                    [Next]_vars, ~restarted'
             PROVE  VersionParts'
  BY DEF VersionInv
<1> DEFINE V(c, d) == Versions!Version(c, d)
<1>0. /\ ProcessTypes /\ FileTypes /\ copy \in Document /\ raw \in Seq(Turn)
      /\ \A d \in Document : d.revision \in Nat
  BY DEF TypeInv, FileTypes, DiskTypes, Document
<1> USE DEF VersionParts, V
<1>1. CASE UNCHANGED vars
  <2>1. VersionParts /\ Saved' = Saved
        /\ UNCHANGED <<copy, at, doc, base, target, journal>>
    BY <1>1 DEF VersionInv, Saved, vars, disk, files, store, turnVars, history
  <2> QED BY <2>1 DEF Level, Ahead, Later
<1>2. CASE PersonStep
  <2>1. VersionParts /\ UNCHANGED <<copy, at, doc, base, target, journal>>
    BY <1>2, PersonFrame DEF VersionInv, history, store, turnVars, disk
  <2> QED BY <1>2, <2>1, SavedByPerson DEF Later, Level, Ahead
<1>3. ASSUME NEW p \in Process, StepOf(p) PROVE VersionParts'
  <2>0. GrowParts /\ VersionParts /\ ~FactoryState /\ Next
    <3>1. Next /\ ~FactoryState
      BY <1>3, StepIsNext DEF FactoryState
    <3> QED BY <3>1, RestartFrame DEF GrowInv, VersionInv
  <2>1. \A q \in Process \ {p} : at[q] = "down" /\ at'[q] = "down"
    BY <1>3, OneStep
  <2>2. copy' \in Document /\ (copy' = copy \/ Later(copy', copy))
    BY <2>0, FilesNext, CopyGrows DEF FileTypes
  <2>3. /\ Level(Saved, copy)' \/ Ahead(copy, Saved)'
        /\ at'[p] = "refresh" => doc'[p] = copy' \/ V(copy', doc'[p])
        /\ at'[p] \in {"check", "replace"} => V(copy', doc'[p])
    <3>1. CASE StoreStep(p)
      BY <2>0, <3>1, VersionOfStore
    <3>2. CASE ~StoreStep(p)
      <4>1. copy' = copy /\ Saved' = Saved
        BY <1>3, <3>2, FilesAlone DEF StepOf, files, Saved
      <4>2. at'[p] \notin {"replace", "refresh"}
        BY <1>0, <1>3, <3>2, Outside
      <4>3. ASSUME at'[p] = "check" PROVE V(copy, doc'[p])
        <5>1. CASE p = "chat" /\ CuratorReplies
          BY <1>0, <2>0, <4>3, <5>1 DEF CuratorReplies, Commit, Load, GoTo, ProcessTypes
        <5>2. CASE p = "chat" /\ PublishTarget
          <6>1. /\ doc["chat"] = copy /\ journal # None /\ journal.target # None
                /\ doc'["chat"] = journal.target /\ journal.doc = copy
            BY <1>0, <5>2 DEF PublishTarget, Commit, Returned, ProcessTypes, DoneInv, TypeInv,
                              DiskTypes, InStore
          <6> QED BY <1>0, <2>0, <5>2, <6>1 DEF Later
        <5>3. CASE p = "reset" /\ CommitCleared
          <6>1. doc["reset"] = copy
            BY <5>3 DEF CommitCleared, Returned, DoneInv
          <6>2. doc'["reset"] = [copy EXCEPT !.revision = copy.revision + 1, !.items = {}]
            BY <1>0, <5>3, <6>1 DEF CommitCleared, Commit, ProcessTypes
          <6> QED BY <1>0, <5>3, <6>2, ClearedIsVersion
        <5> QED BY <1>0, <1>3, <2>0, <3>2, <4>3, <5>1, <5>2, <5>3, Outside
      <4> QED BY <2>0, <4>1, <4>2, <4>3 DEF Later, Level, Ahead
    <3> QED BY <3>1, <3>2
  <2>4. \A q \in Process :
          /\ at'[q] = "refresh" => doc'[q] = copy' \/ V(copy', doc'[q])
          /\ at'[q] \in {"check", "replace"} => V(copy', doc'[q])
    BY <2>1, <2>3
  <2>5. ASSUME AskCurator PROVE V(copy, target') /\ doc["chat"] = copy
    <3>1. doc["chat"] = copy /\ target' \in Proposals(doc["chat"])
      BY <2>5 DEF AskCurator, Returned, DoneInv, Process
    <3> QED BY <1>0, <3>1, ProposalIsVersion DEF FreshInv, SourceInv, Known, Supports
  <2>6. at'["chat"] = "curator" => V(copy', target')
    <3> SUFFICES ASSUME at'["chat"] = "curator" PROVE V(copy', target')
      OBVIOUS
    <3>1. p = "chat"
      BY <2>1 DEF Process
    <3>2. ~StoreStep("chat")
      BY <1>0, ChatStores DEF InStore
    <3>3. AskCurator
      BY <1>0, <1>3, <3>1, <3>2, Outside
    <3>4. copy' = copy
      BY <3>3 DEF AskCurator, files
    <3> QED BY <2>5, <3>3, <3>4
  <2>7. ASSUME NEW d \in Document, NEW t, V(d, t) \/ Later(copy, d)
        PROVE  V(d, t) \/ Later(copy', d)
    <3>1. d.revision \in Nat /\ copy.revision \in Nat /\ copy'.revision \in Nat
      BY <1>0, <2>2
    <3> QED BY <2>2, <2>7, <3>1 DEF Later
  <2>8. base' # None /\ target' # None => V(base', target') \/ Later(copy', base')
    <3> SUFFICES ASSUME base' # None, target' # None
                 PROVE  V(base', target') \/ Later(copy', base')
      OBVIOUS
    <3>1. CASE Checkpoint
      BY <3>1 DEF Checkpoint, Returned, NoteInv, InStore
    <3>2. CASE AskCurator
      <4>1. base' = base /\ copy' = copy
        BY <3>2 DEF AskCurator, files
      <4>2. base = copy \/ Later(copy, base)
        BY <2>0, <4>1 DEF GrowParts
      <4> QED BY <2>5, <3>2, <4>1, <4>2
    <3>3. CASE base' = base /\ target' = target
      <4>1. base \in Document
        BY <3>3 DEF TypeInv, TurnTypes
      <4> QED BY <2>0, <2>7, <3>3, <4>1
    <3> QED BY <1>0, <2>0, <3>1, <3>2, <3>3, NotesFrame
  <2>9. journal' # None /\ journal'.target # None
          => V(journal'.doc, journal'.target) \/ Later(copy', journal'.doc)
    <3> SUFFICES ASSUME journal' # None, journal'.target # None
                 PROVE  V(journal'.doc, journal'.target) \/ Later(copy', journal'.doc)
      OBVIOUS
    <3>1. CASE Answer
      <4>1. base \in Document /\ base # None
        BY <3>1, SentinelAssumption DEF Answer, TypeInv, TurnTypes, InTurn, InStore
      <4>2. journal'.doc = base /\ journal'.target = target
        BY <3>1 DEF Answer
      <4> QED BY <2>0, <2>7, <4>1, <4>2
    <3>2. CASE ~Answer
      <4>1. journal' = journal
        BY <2>0, <3>2, ArchiveFrame DEF AnswerResumed, PublishTurn, Unlink, UnlinkSegment
      <4>2. journal.doc \in Document
        BY <4>1 DEF TypeInv, DiskTypes, Journal
      <4> QED BY <2>0, <2>7, <4>1, <4>2
    <3> QED BY <3>1, <3>2
  <2> QED BY <2>3, <2>4, <2>6, <2>8, <2>9
<1> QED BY <1>1, <1>2, <1>3, Steps

LEMMA VersionHolds ==
  ASSUME ~CheckAnytime
  PROVE  Spec => []VersionInv
<1>1. Init => VersionInv
  BY SentinelAssumption, EmptyIsDocument
     DEF Init, VersionInv, VersionParts, Process, Level, Saved
<1> QED BY <1>1, VersionStep, TypesHold, OneHolds, DoneHolds, NoteHolds, FreshHolds, SourceHolds,
           GrowHolds, PTL DEF Spec

-----------------------------------------------------------------------------
(***************************************************************************)
(* The refinement.                                                         *)
(***************************************************************************)
\* The archive is cleared by a reset of all only.
WipeInv == job["reset"] = "emptied" => restarted

LEMMA WipeHolds == Spec => []WipeInv
<1>1. Init => WipeInv
  BY DEF Init, WipeInv, Process
<1>2. TypeInv /\ WipeInv /\ [Next]_vars => WipeInv'
  <2> SUFFICES ASSUME TypeInv, WipeInv, [Next]_vars, job'["reset"] = "emptied", ~restarted'
               PROVE  FALSE
    BY DEF WipeInv
  <2>0. ProcessTypes /\ "reset" \in Process /\ (Next => ~restarted /\ ~FactoryState)
    BY RestartFrame DEF TypeInv, Process, FactoryState
  <2>1. CASE UNCHANGED vars
    BY <2>1 DEF WipeInv, vars, history
  <2>2. CASE PersonStep
    BY <2>2, PersonFrame DEF WipeInv, history
  <2>3. ASSUME NEW p \in Process, StepOf(p), p # "reset" PROVE FALSE
    <3>1. Next /\ job'["reset"] = job["reset"]
      BY <2>0, <2>3, StepIsNext, ProcessFrame
    <3> QED BY <2>0, <3>1 DEF WipeInv
  <2>4. CASE StepOf("reset")
    <3>0. Next
      BY <2>0, <2>4, StepIsNext
    <3> USE <2>0, <3>0 DEF ProcessTypes, GoTo, Load, Commit, WipeInv, store
    <3>1. ASSUME End("reset") PROVE FALSE
      BY <3>1 DEF End
    <3>2. ASSUME Raise("reset") PROVE FALSE
      BY <3>1, <3>2 DEF Raise
    <3>3. CASE StoreStep("reset")
      BY <3>2, <3>3 DEF StoreStep, ReadMain, Fallback, CompareSame, CompareEdited,
                        CompareRefused, CheckWrite, WriteRefused, ReplaceMain, RefreshCopy
    <3>4. CASE Crash("reset")
      BY <3>1, <3>4 DEF Crash
    <3>5. CASE ResetStep
      BY <3>1, <3>5 DEF ResetStep, StartReset, ClearLongTerm, CommitCleared, EndCleared,
                        LookedAtAll, StartWipe, UnlinkSegment, EndWiped
    <3> QED BY <2>4, <3>3, <3>4, <3>5 DEF StepOf
  <2> QED BY <2>1, <2>2, <2>3, <2>4, Steps
<1> QED BY <1>1, <1>2, TypesHold, PTL DEF Spec

\* What an archive and a question support cites them.
LEMMA SupportedCites ==
  ASSUME NEW log, NEW question, NEW d, Supports(log, {question}, d)
  PROVE  Versions!Cites(d, log, question)
<1>1. \A item \in d.items : item.source \in ToSet(log) \cup {question}
  BY DEF Supports, Sources
<1> QED BY <1>1, SameHelpers DEF Supports, Versions!Cites

\* What is served next was checked against the archive and its open question,
\* and nobody has changed them since.
LEMMA ServedIsValid ==
  ASSUME TypeInv, SourceInv, Next, copy' # copy
  PROVE  /\ UNCHANGED <<raw, pending>>
         /\ Versions!Cites(copy', raw, pending)
<1>1. PICK p \in Process : RefreshCopy(p)
  BY FilesFrame, PersonFrame DEF files, ReplaceMain
<1>2. /\ UNCHANGED <<raw, pending>> /\ copy' = doc[p]
      /\ Supports(raw, {pending}, doc[p])
  BY <1>1 DEF RefreshCopy, SourceInv, SourcesAreValid, disk
<1> QED BY <1>2, SupportedCites

\* A turn joins the archive once, and a question open then is the one answered.
LEMMA ArchiveGrows ==
  ASSUME TypeInv, FreshInv, OpenInv, EmptiedInv, WipeInv, Next, ~restarted', raw' # raw
  PROVE  /\ \E t \in Turn \ ToSet(raw) : pending \in {0, t} /\ raw' = Append(raw, t)
         /\ pending' = 0
<1>1. CASE AnswerResumed
  BY <1>1 DEF AnswerResumed, FreshInv, OpenInv, InTurn, TypeInv, TurnTypes
<1>2. CASE PublishTurn
  BY <1>2 DEF PublishTurn, ArchiveTakesTurn, TypeInv, DiskTypes, Journal
<1>3. ~UnlinkSegment
  BY RestartFrame DEF UnlinkSegment, EmptiedInv, WipeInv
<1> QED BY <1>1, <1>2, <1>3, ArchiveFrame DEF Answer, Unlink

\* A question is opened by a turn that gives up, or dropped behind the gate.
LEMMA QuestionsComeAndGo ==
  ASSUME TypeInv, FreshInv, OpenInv, EmptiedInv, WipeInv, Next, ~restarted', raw' = raw,
         pending' # pending
  PROVE  \/ pending = 0 /\ pending' \in Turn \ ToSet(raw)
         \/ pending # 0 /\ pending' = 0
<1>1. CASE WriteRefused("chat") \/ ModelFails
  <2>1. InTurn /\ pending' = turn
    BY <1>1 DEF WriteRefused, ModelFails, InTurn, InStore
  <2>2. turn \in Turn \ ToSet(raw)
    BY <2>1 DEF FreshInv, TypeInv, TurnTypes
  <2>3. pending \in {0, turn}
    BY <2>2, Bounds DEF OpenInv, Turn
  <2> QED BY <2>1, <2>2, <2>3
<1>2. CASE CutTail
  BY <1>2 DEF CutTail
<1>3. CASE PublishTurn
  <2>1. raw \in Seq(Turn)
    BY DEF TypeInv, DiskTypes
  <2>2. raw' = Append(raw, journal.turn)
    BY <1>3 DEF PublishTurn
  <2> QED BY <2>1, <2>2
<1>4. CASE AnswerResumed
  <2>1. raw \in Seq(Turn)
    BY DEF TypeInv, DiskTypes
  <2>2. raw' = Append(raw, turn)
    BY <1>4 DEF AnswerResumed
  <2> QED BY <2>1, <2>2
<1>5. ~UnlinkSegment
  BY RestartFrame DEF UnlinkSegment, EmptiedInv, WipeInv
<1> QED BY <1>1, <1>2, <1>3, <1>4, <1>5, OpenFrame

\* Seen through its copy, the store with its two files, with edits between any
\* two accesses of them and crashes between the two replacements, implements
\* the chain of versions: no version is skipped, none is made of anything but
\* the one before it, and each cites the archive or its open question when it
\* is served, a hand edit that cites the question included (LongTermStore.load,
\* commit, _refresh_last_valid, _validate_sources; CurationService.propose,
\* publish_target, discard_pending_tail).
THEOREM ImplementsMemoryVersions ==
  ASSUME ~CheckAnytime
  PROVE  Spec => ImplementsVersions
<1>1. Init => Versions!VersionsInit
  BY DEF Init, Versions!VersionsInit, EmptyDocument
<1>2. TypeInv /\ OneInv /\ EmptiedInv /\ FreshInv /\ OpenInv /\ SourceInv /\ GrowInv
        /\ VersionInv /\ WipeInv /\ [Next]_vars
        => [Versions!VersionsNext]_(Versions!versionVars)
  <2> SUFFICES ASSUME TypeInv, OneInv, EmptiedInv, FreshInv, OpenInv, SourceInv, GrowInv,
                      VersionInv, WipeInv, [Next]_vars
               PROVE  Versions!VersionsNext \/ UNCHANGED <<raw, pending, copy, restarted>>
    BY DEF Versions!versionVars
  <2>1. CASE UNCHANGED vars
    BY <2>1 DEF vars, disk, files, history
  <2>2. CASE Next /\ restarted'
    <3>1. copy' # copy => Versions!Cites(copy', raw', pending')
      BY <2>2, ServedIsValid
    <3> QED BY <2>2, <3>1 DEF Versions!VersionsNext, Versions!AfterRestart
  <2>3. CASE Next /\ ~restarted'
    <3>1. restarted' = restarted
      BY <2>3, RestartFrame
    <3>2. CASE raw' # raw
      <4>1. pending' = 0
        BY <2>3, <3>2, ArchiveGrows
      <4>2. PICK t \in Turn \ ToSet(raw) : pending \in {0, t} /\ raw' = Append(raw, t)
        BY <2>3, <3>2, ArchiveGrows
      <4>3. copy' = copy
        BY <2>3, <3>2, ServedIsValid
      <4> QED BY <3>1, <4>1, <4>2, <4>3, SameHelpers DEF Versions!VersionsNext, Versions!Record
    <3>3. CASE raw' = raw /\ pending' # pending
      <4>1. copy' = copy
        BY <2>3, <3>3, ServedIsValid
      <4>2. \/ pending = 0 /\ pending' \in Turn \ ToSet(raw)
            \/ pending # 0 /\ pending' = 0
        BY <2>3, <3>3, QuestionsComeAndGo
      <4> QED BY <3>1, <3>3, <4>1, <4>2, SameHelpers
              DEF Versions!VersionsNext, Versions!Ask, Versions!Drop
    <3>4. CASE copy' # copy
      <4>1. Versions!Version(copy, copy')
        BY <2>3, <3>4, CopyFollows
      <4>2. UNCHANGED <<raw, pending>> /\ Versions!Cites(copy', raw, pending)
        BY <2>3, <3>4, ServedIsValid
      <4> QED BY <3>1, <4>1, <4>2 DEF Versions!VersionsNext, Versions!Serve
    <3> QED BY <3>1, <3>2, <3>3, <3>4
  <2> QED BY <2>1, <2>2, <2>3
<1> QED BY <1>1, <1>2, TypesHold, OneHolds, EmptiedHolds, FreshHolds, OpenHolds, SourceHolds,
           GrowHolds, VersionHolds, WipeHolds, PTL
        DEF Spec, ImplementsVersions, Versions!VersionsSpec
=============================================================================
