---------------------------- MODULE ChatRecords ----------------------------
(***************************************************************************)
(* The two kinds of durable data of the memory directory, abstracted to    *)
(* what the persistence protocol tells apart.                              *)
(*                                                                         *)
(* A raw record is the role it has in its turn: record ids, contents and   *)
(* hashes identify exactly one <<turn, role>> pair, because a turn id and  *)
(* its record ids are drawn fresh for every turn (new_id).                 *)
(*                                                                         *)
(* A long-term document is its revision, the global sequence number it has *)
(* curated through, and the turns its memories cite as sources.  The       *)
(* coverage spans always partition 1..frontier, so the frontier stands for *)
(* them too.                                                               *)
(***************************************************************************)
EXTENDS Naturals, Sequences

CONSTANT Turn                \* the turn ids the behaviour may use

ASSUME TurnAssumption == Turn \subseteq Nat

Role == {"user", "assistant"}
Record == [turn : Turn, role : Role]

User(t)      == [turn |-> t, role |-> "user"]
Assistant(t) == [turn |-> t, role |-> "assistant"]

Document == [revision : Nat, frontier : Nat, memories : SUBSET Turn]

EmptyDocument == [revision |-> 0, frontier |-> 0, memories |-> {}]

-----------------------------------------------------------------------------

\* Some position of the archive holds the record (a lookup by record id).
Has(log, record) == \E i \in 1..Len(log) : log[i] = record

\* pending_turn: the archive ends with a USER record nobody answered.
PendingTail(log) == Len(log) > 0 /\ log[Len(log)].role = "user"

\* The number of records that belong to answered turns.
Answered(log) == IF PendingTail(log) THEN Len(log) - 1 ELSE Len(log)

\* The archive with its last record cut off.
CutTail(log) == SubSeq(log, 1, Len(log) - 1)

\* Both records of turn t are in the archive.
Complete(log, t) == Has(log, User(t)) /\ Has(log, Assistant(t))

\* Whole turns, USER before ASSISTANT, in the order they were begun, no record
\* twice, and at most one open USER record, at the end.
WellFormed(log) ==
  /\ \A i \in 1..Len(log) :
        IF i % 2 = 1 THEN log[i].role = "user"
                     ELSE log[i] = Assistant(log[i - 1].turn)
  /\ \A i, j \in 1..Len(log) : i < j => log[i].turn <= log[j].turn
  /\ \A i, j \in 1..Len(log) : log[i] = log[j] => i = j

\* Document d is curated only through answered turns of the archive and cites
\* only answered turns, so _validate_sources passes.
Supports(log, d) ==
  /\ d.frontier <= Answered(log)
  /\ \A t \in d.memories : Complete(log, t)

\* The turns of the records numbered lo to hi.
TurnsBetween(log, lo, hi) == {log[i].turn : i \in lo..hi}
=============================================================================
