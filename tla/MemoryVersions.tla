---------------------------- MODULE MemoryVersions ----------------------------
(***************************************************************************)
(* What the long-term memory promises to whoever loads it: one chain of    *)
(* versions, each made of the one before it by one accepted edit or by one *)
(* curation of the next turns, beside an archive that only grows, with an  *)
(* open question at its end that is answered or dropped.  There are no     *)
(* files, no copy, no editor at the wrong moment and no crashes.  A        *)
(* `reset all` ends the chain; what is served after it is only promised to *)
(* cite the archive.                                                       *)
(*                                                                         *)
(* LongTermStore implements this specification.                            *)
(***************************************************************************)
EXTENDS Naturals, Sequences, SequencesExt

CONSTANT Turn

VARIABLES log,          \* the answered turns
          open,         \* the open question, or 0
          served,       \* the document that is served
          restarted     \* whether a `reset all` ended the chain

versionVars == <<log, open, served, restarted>>

NextRevision(old, new) == new.revision = old.revision + 1

\* The frontier stays, and a memory is an old one or a person's.
Edited(old, new) ==
  /\ NextRevision(old, new)
  /\ new.covered = old.covered
  /\ \A item \in new.items \ old.items : item.by = "manual"

\* More turns are covered, nothing is forgotten, and a new memory is the
\* curator's, of a turn that is newly covered and had none.
Curated(old, new) ==
  /\ NextRevision(old, new)
  /\ IsStrictPrefix(old.covered, new.covered)
  /\ old.items \subseteq new.items
  /\ \A item \in new.items \ old.items :
       /\ item.by = "auto"
       /\ item.source \in ToSet(new.covered) \ ToSet(old.covered)
       /\ \A known \in old.items : known.source # item.source

Version(old, new) == Edited(old, new) \/ Curated(old, new)

\* A document is served with sources that exist when it is.
Cites(d, turns, question) ==
  /\ IsPrefix(d.covered, turns)
  /\ \A item \in d.items : item.source \in ToSet(turns) \cup {question}

VersionsInit ==
  /\ log = <<>> /\ open = 0
  /\ served = [revision |-> 0, covered |-> <<>>, items |-> {}]
  /\ restarted = FALSE

Ask ==
  /\ open = 0 /\ open' \in Turn \ ToSet(log)
  /\ UNCHANGED <<log, served, restarted>>

\* What is served may go on citing a question that is dropped.
Drop ==
  /\ open # 0 /\ open' = 0
  /\ UNCHANGED <<log, served, restarted>>

\* A turn is recorded whole; if a question was open, it is the one answered.
Record ==
  /\ \E t \in Turn \ ToSet(log) : open \in {0, t} /\ log' = Append(log, t)
  /\ open' = 0
  /\ UNCHANGED <<served, restarted>>

Serve ==
  /\ Version(served, served') /\ Cites(served', log, open)
  /\ UNCHANGED <<log, open, restarted>>

AfterRestart == restarted' /\ (served' # served => Cites(served', log', open'))

VersionsNext == Ask \/ Drop \/ Record \/ Serve \/ AfterRestart

VersionsSpec == VersionsInit /\ [][VersionsNext]_versionVars
=============================================================================
