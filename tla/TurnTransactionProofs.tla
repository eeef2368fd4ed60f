----------------------- MODULE TurnTransactionProofs -----------------------
(***************************************************************************)
(* Theorems about TurnTransaction for every value of its constants: the    *)
(* archive's operators, the invariants of the turn, and its refinement of  *)
(* ChatHistory.                                                            *)
(***************************************************************************)
EXTENDS TurnTransaction, Integers, SequenceTheorems, TLAPS

(***************************************************************************)
(* What appending a record and cutting the tail off do to an archive.      *)
(***************************************************************************)
\* Every turn of the archive was begun before turn t.
Before(log, t) == \A i \in 1..Len(log) : log[i].turn < t

-----------------------------------------------------------------------------
LEMMA PrefixProperties ==
  ASSUME NEW R, NEW log \in Seq(R), NEW n \in Nat, n <= Len(log)
  PROVE  /\ SubSeq(log, 1, n) \in Seq(R)
         /\ Len(SubSeq(log, 1, n)) = n
         /\ \A i \in 1..n : SubSeq(log, 1, n)[i] = log[i]
<1>1. Len(log) \in Nat
  BY LenProperties
<1>2. \A i \in 1..n : log[i] \in R
  BY <1>1, ElementOfSeq
<1> QED
  BY <1>1, <1>2, SMTT(30)

LEMMA CutTailProperties ==
  ASSUME NEW R, NEW log \in Seq(R), Len(log) > 0
  PROVE  /\ CutTail(log) \in Seq(R)
         /\ Len(CutTail(log)) = Len(log) - 1
         /\ \A i \in 1..(Len(log) - 1) : CutTail(log)[i] = log[i]
<1>1. Len(log) - 1 \in Nat /\ Len(log) - 1 <= Len(log)
  BY LenProperties
<1> QED
  BY <1>1, PrefixProperties, Zenon DEF CutTail

LEMMA RecordsOfTurns == \A t \in Turn : User(t) \in Record /\ Assistant(t) \in Record
  BY DEF Record, Role, User, Assistant

LEMMA TailHasTurn ==
  ASSUME NEW log \in Seq(Record), PendingTail(log)
  PROVE  log[Len(log)] \in Record /\ log[Len(log)].turn \in Turn
<1>1. Len(log) \in 1..Len(log)
  BY LenProperties DEF PendingTail
<1>2. log[Len(log)] \in Record
  BY <1>1, ElementOfSeq
<1> QED
  BY <1>2 DEF Record

\* A record is one of the two its turn has, by its role.
LEMMA RecordByRole ==
  ASSUME NEW r \in Record
  PROVE  /\ r.turn \in Turn /\ r.turn \in Nat
         /\ r.role = "user" => r = User(r.turn)
         /\ r.role # "user" => r = Assistant(r.turn)
<1>1. r.turn \in Turn /\ r.role \in Role /\ r = [turn |-> r.turn, role |-> r.role]
  BY DEF Record
<1> QED
  BY <1>1, TurnAssumption DEF Role, User, Assistant

LEMMA AnsweredBounds ==
  ASSUME NEW log \in Seq(Record)
  PROVE  /\ Len(log) \in Nat /\ Answered(log) \in Nat
         /\ Answered(log) <= Len(log)
         /\ ~PendingTail(log) => Answered(log) = Len(log)
         /\ PendingTail(log) => Answered(log) = Len(log) - 1 /\ Len(log) > 0
  BY LenProperties DEF Answered, PendingTail

\* The elements of an archive with one more record.
LEMMA AppendedRecords ==
  ASSUME NEW log \in Seq(Record), NEW r \in Record
  PROVE  /\ Append(log, r) \in Seq(Record)
         /\ Len(Append(log, r)) = Len(log) + 1
         /\ Len(log) \in Nat
         /\ \A i \in 1..Len(log) : Append(log, r)[i] = log[i]
         /\ Append(log, r)[Len(log) + 1] = r
  BY AppendProperties, LenProperties

LEMMA AppendKeeps ==
  ASSUME NEW log \in Seq(Record), NEW r \in Record
  PROVE  /\ \A x : Has(log, x) => Has(Append(log, r), x)
         /\ Has(Append(log, r), r)
         /\ \A x : Has(Append(log, r), x) => x = r \/ Has(log, x)
         /\ \A t : Complete(log, t) => Complete(Append(log, r), t)
<1> DEFINE new == Append(log, r)
<1>1. /\ Len(new) = Len(log) + 1 /\ Len(log) \in Nat
      /\ \A i \in 1..Len(log) : new[i] = log[i]
      /\ new[Len(log) + 1] = r
  BY AppendedRecords
<1> HIDE DEF new
<1>2. \A x : Has(log, x) => Has(new, x)
  BY <1>1 DEF Has
<1>3. Has(new, r)
  BY <1>1 DEF Has
<1>4. \A x : Has(new, x) => x = r \/ Has(log, x)
  <2> SUFFICES ASSUME NEW x, Has(new, x), x # r
               PROVE  Has(log, x)
    OBVIOUS
  <2>1. PICK i \in 1..Len(new) : new[i] = x
    BY DEF Has
  <2>2. i \in 1..Len(log)
    BY <1>1, <2>1
  <2> QED
    BY <1>1, <2>1, <2>2 DEF Has
<1>5. \A t : Complete(log, t) => Complete(new, t)
  BY <1>2 DEF Complete
<1> QED
  BY <1>2, <1>3, <1>4, <1>5 DEF new

LEMMA AppendPending ==
  ASSUME NEW log \in Seq(Record), NEW r \in Record
  PROVE  /\ PendingTail(Append(log, r)) <=> r.role = "user"
         /\ Answered(log) <= Answered(Append(log, r))
         /\ r.role = "user" => Answered(Append(log, r)) = Len(log)
         /\ r.role # "user" => Answered(Append(log, r)) = Len(log) + 1
  BY AppendedRecords, AnsweredBounds DEF PendingTail, Answered

\* What an archive supports, a longer one supports.
LEMMA AppendSupports ==
  ASSUME NEW log \in Seq(Record), NEW r \in Record,
         NEW d \in Document, Supports(log, d)
  PROVE  Supports(Append(log, r), d)
<1>1. d.frontier \in Nat
  BY DEF Document
<1>2. Answered(log) \in Nat /\ Answered(Append(log, r)) \in Nat
  BY AnsweredBounds, AppendedRecords
<1> QED
  BY <1>1, <1>2, AppendPending, AppendKeeps DEF Supports

\* Cutting a pending tail takes only the pending record away.
LEMMA CutPending ==
  ASSUME NEW log \in Seq(Record), PendingTail(log), WellFormed(log)
  PROVE  /\ CutTail(log) \in Seq(Record)
         /\ WellFormed(CutTail(log)) /\ ~PendingTail(CutTail(log))
         /\ Answered(CutTail(log)) = Answered(log)
         /\ \A t : Complete(log, t) => Complete(CutTail(log), t)
         /\ \A t : Before(log, t) => Before(CutTail(log), t)
<1> DEFINE cut == CutTail(log)
           n   == Len(log)
<1>1. /\ n \in Nat /\ n > 0 /\ log[n].role = "user"
      /\ cut \in Seq(Record) /\ Len(cut) = n - 1
      /\ \A i \in 1..(n - 1) : cut[i] = log[i]
  BY CutTailProperties, LenProperties DEF PendingTail
<1> HIDE DEF cut, n
<1>2. /\ \A i \in 1..n : IF i % 2 = 1 THEN log[i].role = "user"
                                     ELSE log[i] = Assistant(log[i - 1].turn)
      /\ \A i, j \in 1..n : i < j => log[i].turn <= log[j].turn
      /\ \A i, j \in 1..n : log[i] = log[j] => i = j
  BY DEF WellFormed, n
<1>3. n % 2 = 1
  <2> SUFFICES ASSUME n % 2 # 1 PROVE FALSE
    OBVIOUS
  <2>1. log[n] = Assistant(log[n - 1].turn)
    BY <1>1, <1>2
  <2> QED
    BY <1>1, <2>1 DEF Assistant
<1>4. WellFormed(cut)
  <2>1. \A i \in 1..(n - 1) : IF i % 2 = 1 THEN cut[i].role = "user"
                                           ELSE cut[i] = Assistant(cut[i - 1].turn)
    <3> SUFFICES ASSUME NEW i \in 1..(n - 1)
                 PROVE  IF i % 2 = 1 THEN cut[i].role = "user"
                                     ELSE cut[i] = Assistant(cut[i - 1].turn)
      OBVIOUS
    <3>1. CASE i % 2 = 1
      <4>1. i \in 1..n /\ cut[i] = log[i]
        BY <1>1
      <4>2. log[i].role = "user"
        BY <1>2, <3>1, <4>1
      <4> QED
        BY <3>1, <4>1, <4>2
    <3>2. CASE i % 2 # 1
      <4>1. i - 1 \in 1..(n - 1) /\ i \in 1..n
        BY <1>1, <3>2
      <4> QED
        BY <1>1, <1>2, <3>2, <4>1
    <3> QED
      BY <3>1, <3>2
  <2>2. \A i, j \in 1..(n - 1) : i < j => cut[i].turn <= cut[j].turn
    <3>1. \A i \in 1..(n - 1) : i \in 1..n /\ cut[i] = log[i]
      BY <1>1
    <3> QED BY <1>2, <3>1
  <2>3. \A i, j \in 1..(n - 1) : cut[i] = cut[j] => i = j
    <3>1. \A i \in 1..(n - 1) : i \in 1..n /\ cut[i] = log[i]
      BY <1>1
    <3> QED BY <1>2, <3>1
  <2> QED
    BY <1>1, <2>1, <2>2, <2>3 DEF WellFormed
<1>5. ~PendingTail(cut)
  <2> SUFFICES ASSUME n - 1 > 0, cut[n - 1].role = "user" PROVE FALSE
    BY <1>1 DEF PendingTail
  <2>1. n - 1 \in 1..n /\ (n - 1) % 2 # 1 /\ n - 1 \in 1..(n - 1)
    BY <1>1, <1>3
  <2>2. cut[n - 1] = Assistant(log[n - 1 - 1].turn)
    BY <1>1, <1>2, <2>1
  <2> QED
    BY <2>2 DEF Assistant
<1>6. Answered(cut) = Answered(log)
  BY <1>1, <1>5 DEF Answered, n
<1>7. ASSUME NEW t, Complete(log, t) PROVE Complete(cut, t)
  <2>1. PICK i \in 1..n : log[i] = User(t)
    BY <1>7 DEF Complete, Has, n
  <2>2. PICK j \in 1..n : log[j] = Assistant(t)
    BY <1>7 DEF Complete, Has, n
  <2>3. j # n
    BY <1>1, <2>2 DEF Assistant
  <2>4. i # n
    <3> SUFFICES ASSUME i = n PROVE FALSE
      OBVIOUS
    <3>1. log[j].role # "user" /\ log[j].turn = t /\ log[j] # log[n]
      BY <1>1, <2>2 DEF Assistant
    <3>2. j % 2 # 1
      BY <1>2, <3>1
    <3>3. j \in 1..n /\ j - 1 \in 1..n /\ j < n /\ (j - 1) % 2 = 1
      <4>1. j \in Int /\ 1 <= j /\ j < n
        BY <1>1, <2>3
      <4>2. j # 1
        BY <3>2
      <4>3. (j - 1) % 2 = 1
        BY <3>2, <4>1
      <4> QED
        BY <1>1, <4>1, <4>2, <4>3
    <3>4. log[j] = Assistant(log[j - 1].turn)
      BY <1>2, <3>2, <3>3
    <3>5. log[j - 1].role = "user" /\ log[j - 1].turn = t
      <4>1. log[j - 1].role = "user"
        BY <1>2, <3>3
      <4>2. log[j - 1].turn = t
        BY <3>1, <3>4 DEF Assistant
      <4> QED
        BY <4>1, <4>2
    <3>6. log[j - 1] \in Record
      BY <3>3, ElementOfSeq DEF n
    <3>7. log[j - 1] = User(t)
      BY <3>5, <3>6, RecordByRole
    <3>8. j - 1 = n
      <4>1. log[j - 1] = log[n] /\ n \in 1..n
        BY <1>1, <2>1, <3>7
      <4> DEFINE k == j - 1
      <4>2. k \in 1..n /\ log[k] = log[n]
        BY <3>3, <4>1
      <4> HIDE DEF k
      <4>3. k = n
        BY <1>2, <4>1, <4>2
      <4> QED
        BY <4>3 DEF k
    <3>9. j < n
      BY <3>3
    <3> QED
      BY <1>1, <3>8, <3>9
  <2>5. i \in 1..(n - 1) /\ j \in 1..(n - 1)
    BY <1>1, <2>3, <2>4
  <2>6. cut[i] = User(t) /\ cut[j] = Assistant(t)
    BY <1>1, <2>1, <2>2, <2>5
  <2> QED
    BY <1>1, <2>5, <2>6 DEF Complete, Has
<1>8. ASSUME NEW t, Before(log, t) PROVE Before(cut, t)
  BY <1>1, <1>8 DEF Before, n
<1> QED
  BY <1>1, <1>4, <1>5, <1>6, <1>7, <1>8 DEF cut

\* No record of a turn can be in an archive of earlier turns.
LEMMA BeforeIsFresh ==
  ASSUME NEW log \in Seq(Record), NEW t \in Turn, Before(log, t)
  PROVE  ~Has(log, User(t)) /\ ~Has(log, Assistant(t))
<1> SUFFICES ASSUME NEW i \in 1..Len(log), log[i].turn = t
             PROVE  FALSE
  BY DEF Has, User, Assistant
<1>1. log[i].turn < t /\ t \in Nat
  BY TurnAssumption DEF Before
<1> QED
  BY <1>1

\* The last position of an archive of whole turns is even.
LEMMA WholeTurnsAreEven ==
  ASSUME NEW log \in Seq(Record), WellFormed(log), ~PendingTail(log)
  PROVE  Len(log) % 2 = 0
<1>1. Len(log) \in Nat
  BY LenProperties
<1>2. CASE Len(log) = 0
  BY <1>2
<1>3. CASE Len(log) # 0
  <2>1. Len(log) \in 1..Len(log) /\ log[Len(log)].role # "user"
    BY <1>1, <1>3 DEF PendingTail
  <2>2. Len(log) % 2 # 1
    BY <2>1 DEF WellFormed
  <2> QED
    BY <1>1, <2>2
<1> QED
  BY <1>2, <1>3

\* An archive with a pending tail has an odd number of records.
LEMMA PendingTailIsOdd ==
  ASSUME NEW log \in Seq(Record), WellFormed(log), PendingTail(log)
  PROVE  Len(log) % 2 = 1
<1>1. Len(log) \in 1..Len(log) /\ log[Len(log)].role = "user"
  BY LenProperties DEF PendingTail
<1>2. CASE Len(log) % 2 # 1
  <2>1. log[Len(log)] = Assistant(log[Len(log) - 1].turn)
    BY <1>1, <1>2 DEF WellFormed
  <2> QED
    BY <1>1, <2>1 DEF Assistant
<1> QED
  BY <1>2

\* The steps every append of a record keeps well-formed have in common.
LEMMA AppendWellFormed ==
  ASSUME NEW log \in Seq(Record), NEW r \in Record, WellFormed(log),
         ~Has(log, r),
         \A i \in 1..Len(log) : log[i].turn <= r.turn,
         IF (Len(log) + 1) % 2 = 1 THEN r.role = "user"
                                   ELSE r = Assistant(log[Len(log)].turn)
  PROVE  WellFormed(Append(log, r))
<1> DEFINE new == Append(log, r)
           n   == Len(log)
<1>1. /\ n \in Nat /\ Len(new) = n + 1
      /\ \A i \in 1..n : new[i] = log[i]
      /\ new[n + 1] = r
      /\ \A i \in 1..n : log[i] # r
      /\ \A i \in 1..n : log[i].turn <= r.turn
      /\ r.turn \in Nat
  BY AppendedRecords, RecordByRole DEF Has
<1>2. /\ (n + 1) % 2 = 1 => r.role = "user"
      /\ (n + 1) % 2 # 1 => r = Assistant(log[n].turn)
  OBVIOUS
<1>3. /\ \A i \in 1..n : i % 2 = 1 => log[i].role = "user"
      /\ \A i \in 1..n : i % 2 # 1 => log[i] = Assistant(log[i - 1].turn)
      /\ \A i, j \in 1..n : i < j => log[i].turn <= log[j].turn
      /\ \A i, j \in 1..n : log[i] = log[j] => i = j
  BY DEF WellFormed
<1> HIDE DEF new, n
<1>4. ASSUME NEW i \in 1..(n + 1), i % 2 = 1
      PROVE  new[i].role = "user"
  <2>1. CASE i = n + 1
    BY <1>1, <1>2, <1>4, <2>1
  <2>2. CASE i \in 1..n
    BY <1>1, <1>3, <1>4, <2>2
  <2> QED
    BY <1>1, <2>1, <2>2
<1>5. ASSUME NEW i \in 1..(n + 1), i % 2 # 1
      PROVE  new[i] = Assistant(new[i - 1].turn)
  <2>1. i - 1 \in 1..n
    <3>1. i \in Int /\ 1 <= i /\ i <= n + 1
      BY <1>1
    <3>2. i # 1
      BY <1>5
    <3> QED
      BY <1>1, <3>1, <3>2
  <2>2. CASE i = n + 1
    <3>1. i - 1 = n /\ new[n] = log[n] /\ (n + 1) % 2 # 1
      BY <1>1, <1>5, <2>1, <2>2
    <3> QED
      BY <1>1, <1>2, <2>2, <3>1
  <2>3. CASE i \in 1..n
    BY <1>1, <1>3, <1>5, <2>1, <2>3
  <2> QED
    BY <1>1, <2>2, <2>3
<1>6. ASSUME NEW i \in 1..(n + 1), NEW j \in 1..(n + 1), i < j
      PROVE  new[i].turn <= new[j].turn
  <2>1. i \in 1..n
    BY <1>1, <1>6
  <2>2. CASE j = n + 1
    BY <1>1, <2>1, <2>2
  <2>3. CASE j \in 1..n
    BY <1>1, <1>3, <1>6, <2>1, <2>3
  <2> QED
    BY <1>1, <2>2, <2>3
<1>7. ASSUME NEW i \in 1..(n + 1), NEW j \in 1..(n + 1), new[i] = new[j]
      PROVE  i = j
  <2>1. i = n + 1 \/ i \in 1..n
    BY <1>1
  <2>2. j = n + 1 \/ j \in 1..n
    BY <1>1
  <2> QED
    BY <1>1, <1>3, <1>7, <2>1, <2>2
<1> QED
  BY <1>1, <1>4, <1>5, <1>6, <1>7 DEF WellFormed, new

LEMMA AppendUser ==
  ASSUME NEW log \in Seq(Record), NEW t \in Turn, WellFormed(log),
         ~PendingTail(log), Before(log, t)
  PROVE  /\ WellFormed(Append(log, User(t)))
         /\ \A u \in Nat : t < u => Before(Append(log, User(t)), u)
<1>1. User(t) \in Record /\ User(t).role = "user" /\ User(t).turn = t /\ t \in Nat
  BY RecordsOfTurns, TurnAssumption DEF User
<1>2. \A i \in 1..Len(log) : log[i].turn \in Nat /\ log[i].turn < t
  BY ElementOfSeq, RecordByRole DEF Before
<1>3. (Len(log) + 1) % 2 = 1
  BY WholeTurnsAreEven, LenProperties
<1>4. \A i \in 1..Len(log) : log[i].turn <= User(t).turn
  BY <1>1, <1>2
<1>5. WellFormed(Append(log, User(t)))
  BY <1>1, <1>3, <1>4, BeforeIsFresh, AppendWellFormed
<1>6. ASSUME NEW u \in Nat, t < u PROVE Before(Append(log, User(t)), u)
  <2> SUFFICES ASSUME NEW i \in 1..(Len(log) + 1)
               PROVE  Append(log, User(t))[i].turn < u
    BY <1>1, AppendedRecords DEF Before
  <2>1. CASE i \in 1..Len(log)
    BY <1>1, <1>2, <1>6, <2>1, AppendedRecords
  <2>2. CASE i = Len(log) + 1
    BY <1>1, <1>6, <2>2, AppendedRecords
  <2> QED
    BY <2>1, <2>2, LenProperties
<1> QED
  BY <1>5, <1>6

LEMMA AppendAssistant ==
  ASSUME NEW log \in Seq(Record), NEW t \in Turn, WellFormed(log),
         PendingTail(log), log[Len(log)].turn = t
  PROVE  /\ WellFormed(Append(log, Assistant(t)))
         /\ Complete(Append(log, Assistant(t)), t)
         /\ ~Has(log, Assistant(t))
         /\ \A u : Before(log, u) => Before(Append(log, Assistant(t)), u)
<1> DEFINE n == Len(log)
<1>1. /\ Assistant(t) \in Record /\ Assistant(t).role # "user"
      /\ Assistant(t).turn = t /\ t \in Nat
  BY RecordsOfTurns, TurnAssumption DEF Assistant
<1>2. n \in Nat /\ n > 0 /\ n \in 1..n /\ log[n] = User(t)
  BY LenProperties, TailHasTurn, RecordByRole DEF PendingTail
<1>3. n % 2 = 1
  BY PendingTailIsOdd
<1>4. ~Has(log, Assistant(t))
  <2> SUFFICES ASSUME NEW i \in 1..n, log[i] = Assistant(t)
               PROVE  FALSE
    BY DEF Has
  <2>1. i % 2 # 1 /\ i # n
    BY <1>1, <1>2 DEF WellFormed, User
  <2>2. i \in Int /\ 1 <= i /\ i < n /\ i # 1
    BY <1>2, <2>1
  <2>3. i - 1 \in 1..n /\ i - 1 < n /\ (i - 1) % 2 = 1
    BY <2>1, <2>2, <1>2
  <2>4. log[i] = Assistant(log[i - 1].turn)
    BY <2>1 DEF WellFormed
  <2>5. log[i - 1].turn = t
    BY <1>1, <2>4 DEF Assistant
  <2>6. log[i - 1] \in Record /\ log[i - 1].role = "user"
    BY <2>3, ElementOfSeq DEF WellFormed
  <2>7. log[i - 1] = log[n]
    BY <1>2, <2>5, <2>6, RecordByRole
  <2>8. i - 1 = n
    BY <1>2, <2>3, <2>7 DEF WellFormed
  <2> QED
    BY <2>3, <2>8
<1>5. \A i \in 1..n : log[i].turn <= Assistant(t).turn
  <2> SUFFICES ASSUME NEW i \in 1..n PROVE log[i].turn <= t
    BY <1>1
  <2>1. CASE i = n
    BY <1>1, <2>1
  <2>2. CASE i # n
    BY <1>2, <2>2 DEF WellFormed
  <2> QED
    BY <2>1, <2>2
<1>6. (n + 1) % 2 # 1
  BY <1>2, <1>3
<1>7. WellFormed(Append(log, Assistant(t)))
  BY <1>1, <1>4, <1>5, <1>6, AppendWellFormed
<1>8. Complete(Append(log, Assistant(t)), t)
  BY <1>1, <1>2, AppendKeeps DEF Complete, Has
<1>9. ASSUME NEW u, Before(log, u) PROVE Before(Append(log, Assistant(t)), u)
  <2> SUFFICES ASSUME NEW i \in 1..(n + 1)
               PROVE  Append(log, Assistant(t))[i].turn < u
    BY <1>1, AppendedRecords DEF Before
  <2>1. CASE i \in 1..n
    BY <1>1, <1>9, <2>1, AppendedRecords DEF Before
  <2>2. CASE i = n + 1
    BY <1>1, <1>2, <1>9, <2>2, AppendedRecords DEF Before
  <2> QED
    BY <1>2, <2>1, <2>2
<1> QED
  BY <1>4, <1>7, <1>8, <1>9

\* Whatever stands before the pending tail belongs to an answered turn.
LEMMA AnsweredIsComplete ==
  ASSUME NEW log \in Seq(Record), WellFormed(log), NEW i \in 1..Answered(log)
  PROVE  Complete(log, log[i].turn)
<1> DEFINE n == Len(log)
<1>1. /\ n \in Nat /\ Answered(log) \in Nat /\ Answered(log) <= n
      /\ i \in 1..n /\ log[i] \in Record
  BY AnsweredBounds, ElementOfSeq
<1>2. CASE i % 2 = 1
  <2>1. log[i] = User(log[i].turn)
    BY <1>1, <1>2, RecordByRole DEF WellFormed
  <2>2. i # n
    BY <1>1, <1>2, <2>1, AnsweredBounds DEF PendingTail, User
  <2>3. i + 1 \in 1..n /\ (i + 1) % 2 # 1 /\ i + 1 - 1 = i
    BY <1>1, <1>2, <2>2
  <2>4. log[i + 1] = Assistant(log[i].turn)
    BY <2>3 DEF WellFormed
  <2> QED
    BY <1>1, <2>1, <2>3, <2>4 DEF Complete, Has
<1>3. CASE i % 2 # 1
  <2>1. i # 1 /\ i \in Int /\ 1 <= i
    BY <1>3
  <2>2. i - 1 \in 1..n /\ (i - 1) % 2 = 1
    BY <1>1, <1>3, <2>1
  <2>3. log[i] = Assistant(log[i - 1].turn)
    BY <1>1, <1>3 DEF WellFormed
  <2>4. log[i - 1] = User(log[i - 1].turn)
    BY <2>2, ElementOfSeq, RecordByRole DEF WellFormed
  <2>5. log[i].turn = log[i - 1].turn
    BY <2>3 DEF Assistant
  <2> QED
    BY <1>1, <2>2, <2>3, <2>4, <2>5 DEF Complete, Has
<1> QED
  BY <1>2, <1>3

-----------------------------------------------------------------------------
(***************************************************************************)
(* Which journal each phase of the process goes with.  This is what run_turn *)
(* relies on when it calls discard, pending, ready and begin without looking. *)
(***************************************************************************)
PhaseInv ==
  /\ pc \in {"boot", "idle", "show"} => journal = None
  /\ pc \in {"curate", "chat"} =>
       IF resumed THEN journal = None
                  ELSE journal # None /\ journal.state = "PREPARED" /\ journal.turn = turn
  /\ pc = "commit" => Decided
  /\ pc = "refresh" => journal = None \/ (Decided /\ Answers)
  /\ pc \in {"show", "curate", "chat"} => turn \in Turn
  /\ pc \in {"commit", "refresh"} /\ journal # None => turn \in {0, journal.turn}
  /\ pc = "refresh" /\ journal = None => turn \in Turn /\ resumed
  /\ pc \in {"down", "recover", "boot", "idle"} => turn = 0
  /\ turn = 0 => ~resumed /\ staged = None
  /\ pc = "commit" \/ (pc = "refresh" /\ journal # None) => ~resumed

TypeInv == TypeOK /\ PhaseInv

-----------------------------------------------------------------------------
LEMMA BatchBounds ==
  ASSUME TypeOK, BatchDue
  PROVE  /\ BatchEnd \in Nat
         /\ doc.frontier < BatchEnd
         /\ BatchEnd <= Answered(raw)
         /\ Answered(raw) <= Len(raw)
<1>1. /\ Len(raw) \in Nat
      /\ doc.frontier \in Nat
  BY LenProperties DEF TypeOK, Document
<1>2. /\ MinBatch \in Nat /\ 0 < MinBatch
      /\ MaxBatch \in Nat /\ MaxRecords \in Nat /\ ReservedRecords \in Nat
  BY ConstantsAssumption
<1>3. Answered(raw) \in Int /\ Answered(raw) <= Len(raw)
  BY <1>1 DEF Answered, PendingTail
<1>4. Uncurated - DirectLimit \in Int
  BY <1>1, <1>2 DEF Uncurated, DirectLimit
<1>5. EvenUp(Most(MinBatch, Uncurated - DirectLimit)) \in Int
      /\ EvenDown(MaxBatch) \in Int
  BY <1>2, <1>4 DEF EvenUp, EvenDown, Most
<1>6. BatchSize \in Int /\ BatchSize <= Answered(raw) - doc.frontier
  BY <1>1, <1>3, <1>5 DEF BatchSize, Least
<1>7. BatchSize >= MinBatch
  BY DEF BatchDue
<1>. QED
  BY <1>1, <1>2, <1>3, <1>6, <1>7 DEF BatchEnd

LEMMA TargetsAreDocuments ==
  ASSUME TypeOK, BatchDue
  PROVE  Targets \subseteq Document
<1> DEFINE T == TurnsBetween(raw, doc.frontier + 1, BatchEnd)
<1>1. /\ BatchEnd \in Nat /\ BatchEnd <= Len(raw)
      /\ doc.frontier \in Nat /\ doc.revision \in Nat
      /\ doc.memories \in SUBSET Turn
      /\ Len(raw) \in Nat
  BY BatchBounds, LenProperties DEF TypeOK, Document, Answered
<1>2. T \subseteq Turn
  <2> SUFFICES ASSUME NEW i \in (doc.frontier + 1)..BatchEnd
               PROVE  raw[i].turn \in Turn
    BY DEF TurnsBetween
  <2>1. i \in 1..Len(raw)
    BY <1>1
  <2>2. raw[i] \in Record
    BY <2>1, ElementOfSeq DEF TypeOK
  <2> QED
    BY <2>2 DEF Record
<1>3. SUFFICES ASSUME NEW new \in SUBSET T
               PROVE  [revision |-> doc.revision + 1, frontier |-> BatchEnd,
                       memories |-> doc.memories \cup new] \in Document
  BY DEF Targets
<1> QED
  BY <1>1, <1>2 DEF Document

LEMMA ZeroIsNoTurn == 0 \notin Turn
  BY ConstantsAssumption

-----------------------------------------------------------------------------
LEMMA TypeInit == Init => TypeInv
<1> SUFFICES ASSUME Init PROVE TypeInv
  OBVIOUS
<1>1. EmptyDocument \in Document
  BY DEF EmptyDocument, Document
<1>2. 1 \in 1..(MaxTurns + 1) /\ 0 \in 0..MaxCrashes
  BY ConstantsAssumption
<1>3. TypeOK
  BY <1>1, <1>2, EmptySeq DEF Init, TypeOK, Phase
<1>4. PhaseInv
  BY DEF Init, PhaseInv
<1> QED
  BY <1>3, <1>4 DEF TypeInv

LEMMA TypeStep == TypeInv /\ [Next]_vars => TypeInv'
<1> SUFFICES ASSUME TypeInv, [Next]_vars
             PROVE  TypeInv'
  OBVIOUS
<1> USE DEF TypeInv, TypeOK, PhaseInv, Phase, Decided, Answers
<1>1. CASE Start
  BY <1>1 DEF Start, run
<1>2. CASE StartRefused
  BY <1>2 DEF StartRefused, vars
<1>3. CASE RecoverNothing
  BY <1>3 DEF RecoverNothing, disk, run
<1>4. CASE RecoverPrepared
  BY <1>4 DEF RecoverPrepared, run
<1>5. CASE RecoverDecided
  BY <1>5 DEF RecoverDecided, disk, run
<1>6. CASE BootClean
  BY <1>6 DEF BootClean, disk, run
<1>7. CASE BootDiscard
  BY <1>7, CutTailProperties DEF BootDiscard, PendingTail, run
<1>8. CASE BootResume
  BY <1>8, TailHasTurn, ZeroIsNoTurn DEF BootResume, disk
<1>9. ASSUME NEW size \in Size, BeginTurn(size)
      PROVE  TypeInv'
  <2>1. ValidJournal(journal')
    BY <1>9, ConstantsAssumption DEF BeginTurn, ValidJournal, Journal, JournalState
  <2>2. nextTurn \in 1..MaxTurns /\ nextTurn' = nextTurn + 1 /\ MaxTurns \in Nat
    BY <1>9, ConstantsAssumption DEF BeginTurn
  <2>3. nextTurn' \in 1..(MaxTurns + 1)
    BY <2>2
  <2>4. journal' # None
    BY <2>1, ConstantsAssumption DEF ValidJournal
  <2> QED
    BY <1>9, <2>1, <2>3, <2>4 DEF BeginTurn
<1>10. CASE SkipCuration
  BY <1>10 DEF SkipCuration, disk, run
<1>11. CASE StageCuration
  BY <1>11, TargetsAreDocuments, ZeroIsNoTurn DEF StageCuration, disk
<1>12. CASE CurateNow
  BY <1>12, TargetsAreDocuments DEF CurateNow, run
<1>13. CASE Reject
  <2>1. raw' \in Seq(Record)
    <3>1. CASE resumed
      <4>1. Discardable /\ raw' = CutTail(raw)
        BY <1>13, <3>1 DEF Reject
      <4>2. CutTail(raw) \in Seq(Record)
        BY <4>1, CutTailProperties, LenProperties DEF Discardable, Document
      <4> QED
        BY <4>1, <4>2
    <3>2. CASE ~resumed
      BY <1>13, <3>2 DEF Reject
    <3> QED
      BY <3>1, <3>2
  <2>2. journal' = None
    BY <1>13 DEF Reject, Calling
  <2> QED
    BY <1>13, <2>1, <2>2 DEF Reject
<1>14. CASE FailRetryable
  BY <1>14, ConstantsAssumption
     DEF FailRetryable, Calling, ValidJournal, Journal, JournalState, run
<1>15. CASE FailHard
  BY <1>15 DEF FailHard, GoDown, disk
<1>16. ASSUME NEW size \in Size, Answer(size)
       PROVE  TypeInv'
  BY <1>16, ConstantsAssumption
     DEF Answer, ValidJournal, Journal, JournalState, run
<1>17. CASE AnswerResumed
  BY <1>17, RecordsOfTurns, AppendProperties DEF AnswerResumed, run
<1>18. CASE ShowAnswer
  BY <1>18 DEF ShowAnswer, disk
<1>19. CASE PublishUser
  <2>1. journal.turn \in Turn
    BY <1>19 DEF PublishUser, CanPublish, ValidJournal, Journal
  <2> QED
    BY <1>19, <2>1, RecordsOfTurns, AppendProperties DEF PublishUser, CanPublish, run
<1>20. CASE PublishAssistant
  <2>1. journal.turn \in Turn
    BY <1>20 DEF PublishAssistant, CanPublish, ValidJournal, Journal
  <2> QED
    BY <1>20, <2>1, RecordsOfTurns, AppendProperties DEF PublishAssistant, CanPublish, run
<1>21. CASE PublishTarget
  BY <1>21 DEF PublishTarget, CanPublish, TargetMissing, ValidJournal, Journal, run
<1>22. CASE RefreshLastValid
  BY <1>22 DEF RefreshLastValid, run
<1>23. CASE Unlink
  <2>1. journal' = None /\ journal.turn \in Turn /\ pc = "commit"
    BY <1>23 DEF Unlink, CanPublish, ValidJournal, Journal
  <2>2. CASE turn = 0 /\ pc' = "boot" /\ UNCHANGED run
    BY <1>23, <2>1, <2>2 DEF Unlink, run
  <2>3. CASE turn # 0 /\ Answers /\ pc' = "show" /\ UNCHANGED run
    BY <1>23, <2>1, <2>3 DEF Unlink, run
  <2>4. CASE turn # 0 /\ ~Answers /\ GoDown
    BY <1>23, <2>1, <2>4 DEF Unlink, GoDown
  <2> QED
    BY <1>23, <2>2, <2>3, <2>4 DEF Unlink
<1>24. CASE CommitFails
  BY <1>24 DEF CommitFails, GoDown, disk
<1>25. CASE Exit
  BY <1>25 DEF Exit, GoDown, disk
<1>26. CASE Crash
  <2>1. crashes' \in 0..MaxCrashes
    BY <1>26, ConstantsAssumption DEF Crash
  <2> QED
    BY <1>26, <2>1 DEF Crash, GoDown, disk
<1>27. CASE UNCHANGED vars
  BY <1>27 DEF vars
<1> QED
  BY <1>1, <1>2, <1>3, <1>4, <1>5, <1>6, <1>7, <1>8, <1>9, <1>10, <1>11,
     <1>12, <1>13, <1>14, <1>15, <1>16, <1>17, <1>18, <1>19, <1>20, <1>21,
     <1>22, <1>23, <1>24, <1>25, <1>26, <1>27
     DEF Next, Recover, Boot, RunTurn, Commit

\* TypeOK and PhaseInv hold in every reachable state.
THEOREM TypeInvariant == Spec => []TypeInv
<1>1. Init => TypeInv
  BY TypeInit
<1>2. TypeInv /\ [Next]_vars => TypeInv'
  BY TypeStep
<1> QED
  BY <1>1, <1>2, PTL DEF Spec

\* Every variable keeps its type, and only READY_TO_COMMIT journals hold
\* results.
THEOREM TypeCorrect == Spec => []TypeOK
<1>1. TypeInv => TypeOK
  BY DEF TypeInv
<1> QED
  BY <1>1, TypeInvariant, PTL

\* begin never finds an unsettled transaction, nor does the pending tail's
\* discard: TURN_TRANSACTION_ACTIVE is never raised.
THEOREM BetweenTurnsSettled == Spec => []SettledBetweenTurns
<1>1. TypeInv => SettledBetweenTurns
  BY DEF TypeInv, PhaseInv, SettledBetweenTurns
<1> QED
  BY <1>1, TypeInvariant, PTL

-----------------------------------------------------------------------------
(***************************************************************************)
(* What the disk looks like in every phase: a journal knows the archive    *)
(* and the document it began with, and what is published of it is a prefix *)
(* of what it decided.  PreparedTouchesNothing, NoConflict, RawWellFormed, *)
(* ShownIsDurable and SourcesPublished are not inductive alone; they       *)
(* follow from this.                                                       *)
(***************************************************************************)
WithUser(j)   == Append(j.base, User(j.turn))
WithAnswer(j) == Append(WithUser(j), Assistant(j.turn))

\* The turn of the journal is younger than all the archive it began with, and
\* its target needs no record that was not there already.
BaseInv ==
  journal # None =>
    /\ WellFormed(journal.base) /\ ~PendingTail(journal.base)
    /\ Before(journal.base, journal.turn) /\ journal.turn < nextTurn
    /\ journal.target # None => Supports(journal.base, journal.target)

\* How far the journal is published: nothing before the decision, then the
\* records one by one, the document last.
ProgressInv ==
  journal # None =>
    /\ \/ raw = journal.base
       \/ Decided /\ raw = WithUser(journal)
       \/ Decided /\ Answers /\ raw = WithAnswer(journal)
    /\ \/ doc = journal.baseDoc
       \/ /\ Decided /\ Answers /\ raw = WithAnswer(journal)
          /\ journal.target # None /\ doc = journal.target

LogInv == WellFormed(raw) /\ Before(raw, nextTurn)

DocInv ==
  /\ Supports(raw, doc) /\ Supports(raw, lastValid)
  /\ staged # None => Supports(raw, staged)

TailInv ==
  /\ pc = "idle" => ~PendingTail(raw)
  /\ resumed /\ pc \in {"curate", "chat", "refresh"} =>
       PendingTail(raw) /\ raw[Len(raw)].turn = turn
  /\ pc = "show" => Complete(raw, turn) /\ ~PendingTail(raw)

DiskInv ==
  BaseInv /\ ProgressInv /\ LogInv /\ DocInv /\ TailInv /\ ShownIsDurable

LEMMA EmptyArchive ==
  /\ WellFormed(<<>>) /\ ~PendingTail(<<>>) /\ \A t : Before(<<>>, t)
  /\ Supports(<<>>, EmptyDocument)
<1>1. Len(<<>>) = 0
  BY EmptySeq
<1>2. \A i \in 1..Len(<<>>) : FALSE
  BY <1>1
<1> QED
  BY <1>1, <1>2
     DEF WellFormed, PendingTail, Before, Supports, EmptyDocument, Answered

LEMMA DiskInit == Init => DiskInv
  BY EmptyArchive
     DEF Init, DiskInv, BaseInv, ProgressInv, LogInv, DocInv, TailInv, ShownIsDurable

\* The archive a journal publishes, step by step.
LEMMA PublishedArchive ==
  ASSUME TypeInv, BaseInv, journal # None
  PROVE  /\ journal.turn \in Turn
         /\ journal.base \in Seq(Record)
         /\ ~Has(journal.base, User(journal.turn))
         /\ ~Has(journal.base, Assistant(journal.turn))
         /\ WithUser(journal) \in Seq(Record)
         /\ WellFormed(WithUser(journal))
         /\ Before(WithUser(journal), nextTurn)
         /\ PendingTail(WithUser(journal))
         /\ WithUser(journal)[Len(WithUser(journal))] = User(journal.turn)
         /\ Has(WithUser(journal), User(journal.turn))
         /\ ~Has(WithUser(journal), Assistant(journal.turn))
         /\ WithAnswer(journal) \in Seq(Record)
         /\ WellFormed(WithAnswer(journal))
         /\ Before(WithAnswer(journal), nextTurn)
         /\ ~PendingTail(WithAnswer(journal))
         /\ Complete(WithAnswer(journal), journal.turn)
<1> DEFINE t == journal.turn
           base == journal.base
           u == Append(base, User(t))
           a == Append(u, Assistant(t))
<1>1. t \in Turn /\ base \in Seq(Record) /\ nextTurn \in Nat
  BY ConstantsAssumption DEF TypeInv, TypeOK, ValidJournal, Journal
<1>2. WellFormed(base) /\ ~PendingTail(base) /\ Before(base, t) /\ t < nextTurn
  BY DEF BaseInv
<1>3. User(t) \in Record /\ Assistant(t) \in Record
  BY <1>1, RecordsOfTurns
<1> HIDE DEF t, base
<1>4. /\ ~Has(base, User(t)) /\ ~Has(base, Assistant(t))
      /\ u \in Seq(Record) /\ WellFormed(u) /\ Before(u, nextTurn)
  BY <1>1, <1>2, <1>3, BeforeIsFresh, AppendUser, AppendedRecords
<1>5. Len(u) = Len(base) + 1 /\ u[Len(base) + 1] = User(t) /\ Len(base) \in Nat
  BY <1>1, <1>3, AppendedRecords
<1>6. PendingTail(u) /\ u[Len(u)] = User(t) /\ u[Len(u)].turn = t
  BY <1>5 DEF PendingTail, User
<1>7. Has(u, User(t))
  BY <1>1, <1>3, AppendKeeps
<1> HIDE DEF u
<1>8. /\ ~Has(u, Assistant(t)) /\ WellFormed(a) /\ Before(a, nextTurn)
      /\ Complete(a, t)
  BY <1>1, <1>4, <1>6, AppendAssistant
<1>9. a \in Seq(Record) /\ ~PendingTail(a)
  BY <1>3, <1>4, AppendedRecords, AppendPending DEF Assistant
<1> QED
  BY <1>1, <1>4, <1>6, <1>7, <1>8, <1>9 DEF WithUser, WithAnswer, t, base, u

\* What is still missing says how far the publication is.
LEMMA PublicationProgress ==
  ASSUME TypeInv, BaseInv, ProgressInv, Decided
  PROVE  /\ UserMissing => raw = journal.base
         /\ AssistantMissing => Answers /\ raw = WithUser(journal)
         /\ Answers /\ RawPublished => raw = WithAnswer(journal)
         /\ TargetMissing =>
              Answers /\ raw = WithAnswer(journal) /\ doc = journal.baseDoc
<1>1. journal # None
  BY DEF Decided
<1>2. Has(WithAnswer(journal), User(journal.turn)) /\
      Has(WithAnswer(journal), Assistant(journal.turn))
  BY <1>1, PublishedArchive DEF Complete
<1> QED
  BY <1>1, <1>2, PublishedArchive
     DEF ProgressInv, UserMissing, AssistantMissing, RawPublished, TargetMissing

\* A batch cites answered turns of the archive only.
LEMMA TargetsAreSupported ==
  ASSUME TypeInv, LogInv, Supports(raw, doc), BatchDue, NEW d \in Targets
  PROVE  d \in Document /\ Supports(raw, d)
<1>1. TypeOK
  BY DEF TypeInv
<1>2. /\ BatchEnd \in Nat /\ doc.frontier \in Nat
      /\ BatchEnd <= Answered(raw)
      /\ raw \in Seq(Record)
  BY <1>1, BatchBounds DEF TypeOK, Document
<1>3. PICK new \in SUBSET TurnsBetween(raw, doc.frontier + 1, BatchEnd) :
        d = [revision |-> doc.revision + 1, frontier |-> BatchEnd,
             memories |-> doc.memories \cup new]
  BY DEF Targets
<1>4. ASSUME NEW t \in new PROVE Complete(raw, t)
  <2>1. PICK i \in (doc.frontier + 1)..BatchEnd : raw[i].turn = t
    BY <1>3, <1>4 DEF TurnsBetween
  <2>2. i \in 1..Answered(raw)
    BY <1>2, AnsweredBounds
  <2> QED
    BY <1>2, <2>1, <2>2, AnsweredIsComplete DEF LogInv
<1>5. d.frontier = BatchEnd /\ d.memories = doc.memories \cup new
  BY <1>3
<1>6. Supports(raw, d)
  BY <1>2, <1>4, <1>5 DEF Supports
<1> QED
  BY <1>1, <1>6, TargetsAreDocuments

\* What a longer archive keeps.
LEMMA LongerArchive ==
  ASSUME NEW log \in Seq(Record), NEW r \in Record
  PROVE  /\ \A d \in Document : Supports(log, d) => Supports(Append(log, r), d)
         /\ \A t : Complete(log, t) => Complete(Append(log, r), t)
  BY AppendSupports, AppendKeeps

\* What the archive keeps when its pending tail is cut off.
LEMMA ShorterArchive ==
  ASSUME NEW log \in Seq(Record), PendingTail(log), WellFormed(log)
  PROVE  /\ WellFormed(CutTail(log)) /\ ~PendingTail(CutTail(log))
         /\ \A d : Supports(log, d) => Supports(CutTail(log), d)
         /\ \A t : Complete(log, t) => Complete(CutTail(log), t)
         /\ \A t : Before(log, t) => Before(CutTail(log), t)
  BY CutPending DEF Supports

LEMMA DiskStep == TypeInv /\ DiskInv /\ [Next]_vars => DiskInv'
<1> SUFFICES ASSUME TypeInv, DiskInv, [Next]_vars
             PROVE  DiskInv'
  OBVIOUS
<1> USE DEF DiskInv, BaseInv, ProgressInv, LogInv, DocInv, TailInv, ShownIsDurable,
            Decided, Answers
<1>0. /\ raw \in Seq(Record) /\ doc \in Document /\ lastValid \in Document
      /\ staged # None => staged \in Document
      /\ nextTurn \in Nat
  BY ConstantsAssumption DEF TypeInv, TypeOK
<1>1. CASE Start
  BY <1>1 DEF Start, run, WithUser, WithAnswer
<1>2. CASE StartRefused
  BY <1>2 DEF StartRefused, vars, WithUser, WithAnswer
<1>3. CASE RecoverNothing
  BY <1>3 DEF RecoverNothing, disk, run, WithUser, WithAnswer
<1>4. CASE RecoverPrepared
  BY <1>4 DEF RecoverPrepared, run
<1>5. CASE RecoverDecided
  BY <1>5 DEF RecoverDecided, disk, run, WithUser, WithAnswer
<1>6. CASE BootClean
  BY <1>6 DEF BootClean, disk, run, WithUser, WithAnswer
<1>7. CASE BootDiscard
  <2>1. journal = None
    BY <1>7 DEF BootDiscard, TypeInv, PhaseInv
  <2> QED
    BY <1>0, <1>7, <2>1, ShorterArchive DEF BootDiscard, run
<1>8. CASE BootResume
  BY <1>8 DEF BootResume, disk, WithUser, WithAnswer
<1>9. ASSUME NEW size \in Size, BeginTurn(size)
      PROVE  DiskInv'
  <2>1. /\ journal' # None /\ journal'.base = raw /\ journal'.baseDoc = doc
        /\ journal'.turn = nextTurn /\ journal'.target = None
        /\ journal'.state = "PREPARED"
    <3>1. journal' \in Journal
      BY <1>9, ConstantsAssumption DEF BeginTurn, Journal, JournalState, TypeInv, TypeOK
    <3> QED
      BY <1>9, <3>1, ConstantsAssumption DEF BeginTurn
  <2>2. Before(raw, nextTurn) /\ nextTurn < nextTurn' /\ Before(raw, nextTurn')
    <3>1. nextTurn' = nextTurn + 1
      BY <1>9 DEF BeginTurn
    <3>2. \A i \in 1..Len(raw) : raw[i].turn \in Nat
      BY <1>0, ElementOfSeq, RecordByRole
    <3> QED
      BY <1>0, <3>1, <3>2 DEF Before
  <2> QED
    BY <1>9, <2>1, <2>2 DEF BeginTurn, TypeInv, PhaseInv
<1>10. CASE SkipCuration
  BY <1>10 DEF SkipCuration, disk, run, WithUser, WithAnswer
<1>11. CASE StageCuration
  <2>1. Supports(raw, staged')
    BY <1>11, TargetsAreSupported DEF StageCuration
  <2> QED
    BY <1>11, <2>1 DEF StageCuration, disk, WithUser, WithAnswer
<1>12. CASE CurateNow
  <2>1. Supports(raw, doc')
    BY <1>12, TargetsAreSupported DEF CurateNow
  <2>2. journal = None
    BY <1>12 DEF CurateNow, TypeInv, PhaseInv
  <2> QED
    BY <1>12, <2>1, <2>2 DEF CurateNow, run
<1>13. CASE Reject
  <2>1. journal' = None
    BY <1>13 DEF Reject, Calling, TypeInv, PhaseInv
  <2>2. CASE resumed
    <3>1. PendingTail(raw) /\ raw' = CutTail(raw)
      BY <1>13, <2>2 DEF Reject, Calling
    <3> QED
      BY <1>0, <1>13, <2>1, <3>1, ShorterArchive DEF Reject
  <2>3. CASE ~resumed
    <3>1. raw' = raw /\ ~PendingTail(raw)
      BY <1>13, <2>3 DEF Reject, Calling, TypeInv, PhaseInv
    <3> QED
      BY <1>13, <2>1, <3>1 DEF Reject
  <2> QED
    BY <2>2, <2>3
<1>14. CASE FailRetryable
  <2>1. /\ journal # None /\ journal' # None
        /\ journal'.base = journal.base /\ journal'.baseDoc = journal.baseDoc
        /\ journal'.turn = journal.turn /\ journal'.target = journal.target
        /\ journal'.state = "READY_PENDING" /\ journal.state = "PREPARED"
    BY <1>14, ConstantsAssumption
       DEF FailRetryable, Calling, TypeInv, TypeOK, PhaseInv, ValidJournal, Journal,
           JournalState
  <2> QED
    BY <1>14, <2>1 DEF FailRetryable, run, TypeInv, PhaseInv
<1>15. CASE FailHard
  BY <1>15 DEF FailHard, GoDown, disk, WithUser, WithAnswer
<1>16. ASSUME NEW size \in Size, Answer(size)
       PROVE  DiskInv'
  <2>1. /\ journal # None /\ journal' # None
        /\ journal'.base = journal.base /\ journal'.baseDoc = journal.baseDoc
        /\ journal'.turn = journal.turn /\ journal'.target = staged
        /\ journal'.state = "READY_TO_COMMIT" /\ journal.state = "PREPARED"
    BY <1>16, ConstantsAssumption
       DEF Answer, TypeInv, TypeOK, PhaseInv, ValidJournal, Journal, JournalState
  <2> QED
    BY <1>16, <2>1 DEF Answer, run, TypeInv, PhaseInv
<1>17. CASE AnswerResumed
  <2>1. /\ journal = None /\ turn \in Turn /\ PendingTail(raw)
        /\ raw[Len(raw)].turn = turn
    BY <1>17 DEF AnswerResumed, TypeInv, PhaseInv
  <2>2. Assistant(turn) \in Record /\ Assistant(turn).role # "user"
    BY <2>1, RecordsOfTurns DEF Assistant
  <2>3. /\ WellFormed(raw') /\ Before(raw', nextTurn) /\ Complete(raw', turn)
        /\ ~PendingTail(raw')
    BY <1>0, <1>17, <2>1, <2>2, AppendAssistant, AppendPending DEF AnswerResumed
  <2> QED
    BY <1>0, <1>17, <2>1, <2>2, <2>3, LongerArchive DEF AnswerResumed, run
<1>18. CASE ShowAnswer
  BY <1>18 DEF ShowAnswer, disk, WithUser, WithAnswer
<1>19. CASE PublishUser
  <2>1. journal # None /\ Decided /\ pc = "commit" /\ UserMissing
    BY <1>19 DEF PublishUser, CanPublish, TypeInv, PhaseInv
  <2>2. raw = journal.base /\ raw' = WithUser(journal)
    BY <1>19, <2>1, PublicationProgress DEF PublishUser, WithUser
  <2>3. /\ User(journal.turn) \in Record
        /\ WellFormed(raw') /\ Before(raw', nextTurn)
    BY <2>1, <2>2, PublishedArchive, RecordsOfTurns
  <2>4. doc = journal.baseDoc
    BY <1>0, <2>1, <2>2, PublishedArchive DEF UserMissing, Complete
  <2>5. ProgressInv' /\ BaseInv' /\ LogInv' /\ TailInv'
    BY <1>19, <2>1, <2>2, <2>3, <2>4
       DEF PublishUser, CanPublish, run, WithUser, WithAnswer
  <2>6. DocInv' /\ ShownIsDurable'
    BY <1>0, <1>19, <2>3, LongerArchive DEF PublishUser, run
  <2> QED
    BY <2>5, <2>6
<1>20. CASE PublishAssistant
  <2>1. journal # None /\ Decided /\ pc = "commit" /\ AssistantMissing
    BY <1>20 DEF PublishAssistant, CanPublish, TypeInv, PhaseInv
  <2>2. Answers /\ raw = WithUser(journal) /\ raw' = WithAnswer(journal)
    BY <1>20, <2>1, PublicationProgress DEF PublishAssistant, WithAnswer
  <2>3. /\ Assistant(journal.turn) \in Record
        /\ WellFormed(raw') /\ Before(raw', nextTurn)
    BY <2>1, <2>2, PublishedArchive, RecordsOfTurns
  <2>4. doc = journal.baseDoc
    BY <1>0, <2>1, <2>2, PublishedArchive DEF AssistantMissing, Complete
  <2>5. ProgressInv' /\ BaseInv' /\ LogInv' /\ TailInv'
    BY <1>20, <2>1, <2>2, <2>3, <2>4
       DEF PublishAssistant, CanPublish, run, WithUser, WithAnswer
  <2>6. DocInv' /\ ShownIsDurable'
    BY <1>0, <1>20, <2>3, LongerArchive DEF PublishAssistant, run
  <2> QED
    BY <2>5, <2>6
<1>21. CASE PublishTarget
  <2>1. journal # None /\ Decided /\ pc = "commit" /\ TargetMissing
    BY <1>21 DEF PublishTarget, CanPublish, TypeInv, PhaseInv
  <2>2. Answers /\ raw = WithAnswer(journal) /\ journal.target # None
    BY <2>1, PublicationProgress DEF TargetMissing
  <2>3. Supports(raw, journal.target)
    <3>1. Supports(journal.base, journal.target) /\ journal.target \in Document
      BY <2>1, <2>2 DEF TypeInv, TypeOK, ValidJournal, Journal
    <3>2. journal.base \in Seq(Record) /\ WithUser(journal) \in Seq(Record)
      BY <2>1, PublishedArchive
    <3>3. User(journal.turn) \in Record /\ Assistant(journal.turn) \in Record
      BY <2>1, PublishedArchive, RecordsOfTurns
    <3>4. Supports(WithUser(journal), journal.target)
      BY <3>1, <3>2, <3>3, AppendSupports DEF WithUser
    <3> QED
      BY <2>2, <3>1, <3>2, <3>3, <3>4, AppendSupports DEF WithAnswer
  <2> QED
    BY <1>21, <2>1, <2>2, <2>3 DEF PublishTarget, run, WithUser, WithAnswer, TypeInv, PhaseInv
<1>22. CASE RefreshLastValid
  BY <1>22 DEF RefreshLastValid, run, WithUser, WithAnswer
<1>23. CASE Unlink
  <2>1. journal # None /\ Decided /\ pc = "commit" /\ journal' = None
    BY <1>23 DEF Unlink, CanPublish, TypeInv, PhaseInv
  <2>2. CASE turn = 0 /\ pc' = "boot" /\ UNCHANGED run
    BY <1>23, <2>1, <2>2 DEF Unlink, run
  <2>3. CASE turn # 0 /\ Answers /\ pc' = "show" /\ UNCHANGED run
    <3>1. raw = WithAnswer(journal) /\ turn = journal.turn
      BY <1>23, <2>1, <2>3, PublicationProgress DEF Unlink, TypeInv, PhaseInv
    <3>2. Complete(raw, turn) /\ ~PendingTail(raw)
      BY <2>1, <3>1, PublishedArchive
    <3> QED
      BY <1>23, <2>1, <2>3, <3>2 DEF Unlink, run
  <2>4. CASE turn # 0 /\ ~Answers /\ GoDown
    BY <1>23, <2>1, <2>4 DEF Unlink, GoDown
  <2> QED
    BY <1>23, <2>2, <2>3, <2>4 DEF Unlink
<1>24. CASE CommitFails
  BY <1>24 DEF CommitFails, GoDown, disk, WithUser, WithAnswer
<1>25. CASE Exit
  BY <1>25 DEF Exit, GoDown, disk, WithUser, WithAnswer
<1>26. CASE Crash
  BY <1>26 DEF Crash, GoDown, disk, WithUser, WithAnswer
<1>27. CASE UNCHANGED vars
  BY <1>27 DEF vars, WithUser, WithAnswer
<1> QED
  BY <1>1, <1>2, <1>3, <1>4, <1>5, <1>6, <1>7, <1>8, <1>9, <1>10, <1>11,
     <1>12, <1>13, <1>14, <1>15, <1>16, <1>17, <1>18, <1>19, <1>20, <1>21,
     <1>22, <1>23, <1>24, <1>25, <1>26, <1>27
     DEF Next, Recover, Boot, RunTurn, Commit

\* TypeInv and DiskInv hold in every reachable state.
THEOREM DiskInvariant == Spec => [](TypeInv /\ DiskInv)
<1>1. Init => TypeInv /\ DiskInv
  BY TypeInit, DiskInit
<1>2. (TypeInv /\ DiskInv) /\ [Next]_vars => (TypeInv /\ DiskInv)'
  BY TypeStep, DiskStep
<1> QED
  BY <1>1, <1>2, PTL DEF Spec

\* The archive is made of whole turns in every reachable state, so read_all
\* and discard_pending_tail never find it damaged.
THEOREM RawIsWellFormed == Spec => []RawWellFormed
<1>1. DiskInv => RawWellFormed
  BY DEF DiskInv, LogInv, RawWellFormed
<1> QED
  BY <1>1, DiskInvariant, PTL

\* A turn that is not decided has changed neither the archive nor the document.
THEOREM PreparedIsClean == Spec => []PreparedTouchesNothing
<1>1. DiskInv => PreparedTouchesNothing
  BY DEF DiskInv, ProgressInv, PreparedTouchesNothing
<1> QED
  BY <1>1, DiskInvariant, PTL

\* commit never raises TURN_TRANSACTION_CONFLICT while only it writes.
THEOREM CommitMeetsNoConflict == Spec => []NoConflict
<1>1. TypeInv /\ DiskInv => NoConflict
  <2> SUFFICES ASSUME TypeInv, DiskInv, pc = "commit"
               PROVE  ~Conflict
    BY DEF NoConflict
  <2>1. Decided
    BY DEF TypeInv, PhaseInv
  <2>2. journal # None
    BY <2>1 DEF Decided
  <2>3. /\ UserMissing => raw = journal.base
        /\ AssistantMissing => raw = WithUser(journal)
        /\ TargetMissing => doc = journal.baseDoc
    BY <2>1, PublicationProgress DEF DiskInv
  <2>4. WithUser(journal)[Len(WithUser(journal))] = User(journal.turn)
    BY <2>2, PublishedArchive DEF DiskInv
  <2> QED
    BY <2>3, <2>4 DEF Conflict
<1> QED
  BY <1>1, DiskInvariant, PTL

\* An answer the user has seen is in the archive for good.
THEOREM ShownAnswersAreDurable == Spec => []ShownIsDurable
<1>1. DiskInv => ShownIsDurable
  BY DEF DiskInv
<1> QED
  BY <1>1, DiskInvariant, PTL

\* Main file and last-valid copy cite answered turns only.
THEOREM SourcesArePublished == Spec => []SourcesPublished
<1>1. DiskInv => SourcesPublished
  BY DEF DiskInv, DocInv, SourcesPublished
<1> QED
  BY <1>1, DiskInvariant, PTL

-----------------------------------------------------------------------------
(***************************************************************************)
(* No step removes an answered turn.                                       *)
(***************************************************************************)
\* The archive changes only at its end: one record more, or the tail cut off.
LEMMA ArchiveSteps ==
  ASSUME TypeInv, DiskInv, [Next]_vars
  PROVE  \/ raw' = raw
         \/ \E r \in Record : raw' = Append(raw, r)
         \/ PendingTail(raw) /\ raw' = CutTail(raw)
<1> DEFINE Goal == \/ raw' = raw
                   \/ \E r \in Record : raw' = Append(raw, r)
                   \/ PendingTail(raw) /\ raw' = CutTail(raw)
<1>1. CASE BootDiscard
  BY <1>1 DEF BootDiscard
<1>2. CASE Reject
  BY <1>2 DEF Reject, Calling, DiskInv, TailInv
<1>3. CASE AnswerResumed
  BY <1>3, RecordsOfTurns DEF AnswerResumed, TypeInv, PhaseInv
<1>4. CASE PublishUser \/ PublishAssistant
  <2>1. User(journal.turn) \in Record /\ Assistant(journal.turn) \in Record
    BY <1>4, RecordsOfTurns, PublishedArchive
       DEF PublishUser, PublishAssistant, CanPublish, TypeInv, PhaseInv, DiskInv, Decided
  <2> QED
    BY <1>4, <2>1 DEF PublishUser, PublishAssistant
<1>5. ASSUME NEW size \in Size, BeginTurn(size) \/ Answer(size) PROVE Goal
  BY <1>5 DEF BeginTurn, Answer
<1>6. CASE Start \/ StartRefused \/ Recover \/ BootClean \/ BootResume
  BY <1>6 DEF Start, StartRefused, Recover, RecoverNothing, RecoverPrepared,
              RecoverDecided, BootClean, BootResume, vars, disk
<1>7. CASE SkipCuration \/ StageCuration \/ CurateNow \/ FailRetryable \/ FailHard \/ ShowAnswer
  BY <1>7 DEF SkipCuration, StageCuration, CurateNow, FailRetryable, FailHard, ShowAnswer, disk
<1>8. CASE PublishTarget \/ Unlink \/ CommitFails \/ RefreshLastValid \/ Exit \/ Crash
  BY <1>8 DEF PublishTarget, Unlink, CommitFails, RefreshLastValid, Exit, Crash, disk
<1>9. CASE UNCHANGED vars
  BY <1>9 DEF vars
<1> QED
  BY <1>1, <1>2, <1>3, <1>4, <1>5, <1>6, <1>7, <1>8, <1>9
     DEF Next, Boot, RunTurn, Commit

\* Answered turns are never removed or reordered, by no step of any process.
THEOREM AnsweredTurnsStay == Spec => AnsweredTurnsAreFinal
<1> DEFINE Kept == /\ Answered(raw) <= Len(raw')
                   /\ \A i \in 1..Answered(raw) : raw'[i] = raw[i]
<1>1. TypeInv /\ DiskInv /\ [Next]_vars => [Kept]_vars
  <2> SUFFICES ASSUME TypeInv, DiskInv, [Next]_vars
               PROVE  Kept
    OBVIOUS
  <2>1. raw \in Seq(Record)
    BY DEF TypeInv, TypeOK
  <2>2. CASE raw' = raw
    BY <2>1, <2>2, AnsweredBounds
  <2>3. ASSUME NEW r \in Record, raw' = Append(raw, r) PROVE Kept
    <3>1. Len(raw') = Len(raw) + 1 /\ \A i \in 1..Len(raw) : raw'[i] = raw[i]
      BY <2>1, <2>3, AppendedRecords
    <3>2. Answered(raw) \in Nat /\ Len(raw) \in Nat /\ Answered(raw) <= Len(raw)
      BY <2>1, AnsweredBounds
    <3> QED
      BY <3>1, <3>2
  <2>4. CASE PendingTail(raw) /\ raw' = CutTail(raw)
    <3>1. Answered(raw) = Len(raw) - 1 /\ Len(raw) > 0 /\ Len(raw) \in Nat
      BY <2>1, <2>4, AnsweredBounds
    <3>2. /\ Len(raw') = Len(raw) - 1
          /\ \A i \in 1..(Len(raw) - 1) : raw'[i] = raw[i]
      BY <2>1, <2>4, <3>1, CutTailProperties
    <3> QED
      BY <3>1, <3>2
  <2> QED
    BY <2>2, <2>3, <2>4, ArchiveSteps
<1> QED
  BY <1>1, DiskInvariant, PTL DEF Spec, AnsweredTurnsAreFinal

-----------------------------------------------------------------------------
(***************************************************************************)
(* TurnTransaction implements ChatHistory: every step of the process is a  *)
(* step of the crash-free history or leaves it as it is.                   *)
(***************************************************************************)
\* Document d is what one curation of the archive may make of document m.
Curates(log, m, d) ==
  /\ d \in Document
  /\ d.revision = m.revision + 1
  /\ m.frontier < d.frontier
  /\ d.frontier <= Answered(log)
  /\ m.memories \subseteq d.memories
  /\ d.memories \ m.memories \subseteq TurnsBetween(log, m.frontier + 1, d.frontier)

\* The staged document still fits the archive and the document it was made
\* from when the turn is decided.
StagedInv ==
  /\ resumed \/ pc = "curate" => staged = None
  /\ pc = "chat" /\ staged # None => Curates(raw, doc, staged)

HistoryInv == TypeInv /\ DiskInv /\ StagedInv

-----------------------------------------------------------------------------
LEMMA TargetsCurate ==
  ASSUME TypeInv, BatchDue, NEW d \in Targets
  PROVE  Curates(raw, doc, d)
<1>1. TypeOK
  BY DEF TypeInv
<1>2. /\ BatchEnd \in Nat /\ doc.frontier < BatchEnd /\ BatchEnd <= Answered(raw)
      /\ d \in Document
  BY <1>1, BatchBounds, TargetsAreDocuments
<1>3. PICK new \in SUBSET TurnsBetween(raw, doc.frontier + 1, BatchEnd) :
        d = [revision |-> doc.revision + 1, frontier |-> BatchEnd,
             memories |-> doc.memories \cup new]
  BY DEF Targets
<1>4. /\ d.revision = doc.revision + 1 /\ d.frontier = BatchEnd
      /\ d.memories = doc.memories \cup new
  BY <1>3
<1> QED
  BY <1>2, <1>3, <1>4 DEF Curates

LEMMA StagedInit == Init => StagedInv
  BY DEF Init, StagedInv

LEMMA StagedStep == TypeInv /\ StagedInv /\ [Next]_vars => StagedInv'
<1> SUFFICES ASSUME TypeInv, StagedInv, [Next]_vars
             PROVE  StagedInv'
  OBVIOUS
<1> USE DEF StagedInv
<1>1. CASE StageCuration
  <2>1. Curates(raw, doc, staged')
    BY <1>1, TargetsCurate DEF StageCuration
  <2> QED
    BY <1>1, <2>1 DEF StageCuration, disk
<1>2. CASE SkipCuration
  BY <1>2 DEF SkipCuration, run
<1>3. CASE RefreshLastValid
  BY <1>3 DEF RefreshLastValid, run, TypeInv, PhaseInv
<1>4. CASE BootResume
  BY <1>4 DEF BootResume, TypeInv, PhaseInv
<1>5. ASSUME NEW size \in Size, BeginTurn(size) PROVE StagedInv'
  BY <1>5 DEF BeginTurn, TypeInv, PhaseInv
<1>6. ASSUME NEW size \in Size, Answer(size) PROVE StagedInv'
  BY <1>6 DEF Answer, run
<1>7. CASE Start \/ StartRefused \/ Recover \/ BootClean \/ BootDiscard
  BY <1>7 DEF Start, StartRefused, Recover, RecoverNothing, RecoverPrepared,
              RecoverDecided, BootClean, BootDiscard, vars, run
<1>8. CASE CurateNow \/ Reject \/ FailRetryable \/ FailHard \/ AnswerResumed \/ ShowAnswer
  BY <1>8 DEF CurateNow, Reject, FailRetryable, FailHard, AnswerResumed, ShowAnswer,
              GoDown, run
<1>9. CASE PublishUser \/ PublishAssistant \/ PublishTarget \/ CommitFails \/ Exit \/ Crash
  BY <1>9 DEF PublishUser, PublishAssistant, PublishTarget, CanPublish, CommitFails,
              Exit, Crash, GoDown, run
<1>10. CASE Unlink
  BY <1>10 DEF Unlink, CanPublish, GoDown, run
<1>11. CASE UNCHANGED vars
  BY <1>11 DEF vars
<1> QED
  BY <1>1, <1>2, <1>3, <1>4, <1>5, <1>6, <1>7, <1>8, <1>9, <1>10, <1>11
     DEF Next, Boot, RunTurn, Commit

-----------------------------------------------------------------------------
(***************************************************************************)
(* The history in terms of the disk.                                       *)
(***************************************************************************)
historyView == <<DecidedLog, DecidedDoc, shown>>

LEMMA UndecidedHistory ==
  ASSUME ~Decided
  PROVE  DecidedLog = raw /\ DecidedDoc = doc
  BY DEF DecidedLog, DecidedDoc

LEMMA DecidedHistory ==
  ASSUME Decided
  PROVE  /\ Answers => DecidedLog = WithAnswer(journal)
         /\ ~Answers => DecidedLog = WithUser(journal)
         /\ journal.target # None => DecidedDoc = journal.target
         /\ journal.target = None => DecidedDoc = doc
  BY DEF DecidedLog, DecidedDoc, WithUser, WithAnswer

\* When the journal goes, the disk is what the journal decided.
LEMMA PublishedHistory ==
  ASSUME TypeInv, DiskInv, Decided, RawPublished, ~TargetMissing
  PROVE  raw = DecidedLog /\ doc = DecidedDoc
<1>1. journal # None /\ BaseInv /\ ProgressInv
  BY DEF Decided, DiskInv
<1>2. Answers => raw = WithAnswer(journal)
  BY <1>1, PublicationProgress
<1>3. ~Answers => raw = WithUser(journal)
  BY <1>1, PublishedArchive DEF ProgressInv, RawPublished, UserMissing
<1>4. ~Answers => journal.target = None
  BY <1>1 DEF TypeInv, TypeOK, ValidJournal, Answers
<1>5. journal.target # None => doc = journal.target
  BY <1>4 DEF TargetMissing
<1> QED
  BY <1>2, <1>3, <1>4, <1>5, DecidedHistory

\* The operators ChatHistory inherits from ChatRecords are those of this module.
LEMMA SameOperators ==
  /\ History!EmptyDocument = EmptyDocument /\ History!Document = Document
  /\ \A t : History!User(t) = User(t) /\ History!Assistant(t) = Assistant(t)
  /\ \A l : /\ History!PendingTail(l) = PendingTail(l)
            /\ History!Answered(l) = Answered(l)
            /\ History!CutTail(l) = CutTail(l)
  /\ \A l, t : History!Complete(l, t) = Complete(l, t)
  /\ \A l, r : History!Has(l, r) = Has(l, r)
  /\ \A l, lo, hi : History!TurnsBetween(l, lo, hi) = TurnsBetween(l, lo, hi)
<1>1. /\ History!EmptyDocument = EmptyDocument /\ History!Document = Document
      /\ \A t : History!User(t) = User(t) /\ History!Assistant(t) = Assistant(t)
      /\ \A l : History!PendingTail(l) = PendingTail(l)
      /\ \A l : History!CutTail(l) = CutTail(l)
      /\ \A l, r : History!Has(l, r) = Has(l, r)
      /\ \A l, lo, hi : History!TurnsBetween(l, lo, hi) = TurnsBetween(l, lo, hi)
  BY DEF History!EmptyDocument, EmptyDocument, History!Document, Document,
         History!User, User, History!Assistant, Assistant, History!PendingTail,
         PendingTail, History!CutTail, CutTail, History!Has, Has,
         History!TurnsBetween, TurnsBetween
<1>2. \A l : History!Answered(l) = Answered(l)
  BY <1>1 DEF History!Answered, Answered
<1>3. \A l, t : History!Complete(l, t) = Complete(l, t)
  BY <1>1 DEF History!Complete, Complete
<1> QED
  BY <1>1, <1>2, <1>3

LEMMA HistoryStart == Init => History!HistoryInit
  BY UndecidedHistory, SameOperators DEF Init, Decided, History!HistoryInit

-----------------------------------------------------------------------------
(***************************************************************************)
(* Each step of the process, seen through the journal.                     *)
(***************************************************************************)
HistoryStepOrStutter == History!HistoryNext \/ UNCHANGED historyView

\* A step that leaves the three files alone leaves the history alone.
LEMMA FilesStutter ==
  ASSUME UNCHANGED <<raw, journal, doc, shown>>
  PROVE  UNCHANGED historyView
  BY DEF historyView, DecidedLog, DecidedDoc, Decided, Answers

\* So does one that opens or drops an undecided journal.
LEMMA UndecidedStutter ==
  ASSUME ~Decided, ~Decided', UNCHANGED <<raw, doc, shown>>
  PROVE  UNCHANGED historyView
<1>1. DecidedLog = raw /\ DecidedDoc = doc
  BY UndecidedHistory
<1>2. DecidedLog' = raw' /\ DecidedDoc' = doc'
  BY DEF DecidedLog, DecidedDoc
<1> QED
  BY <1>1, <1>2 DEF historyView

\* The process takes a step no history shows: it starts, stops, looks, decides
\* nothing, or moves the files towards what the journal says.
LEMMA StutteringSteps ==
  ASSUME TypeInv, DiskInv,
         \/ Start \/ StartRefused \/ Recover \/ BootClean \/ BootResume
         \/ SkipCuration \/ StageCuration \/ FailHard \/ RefreshLastValid
         \/ CommitFails \/ Exit \/ Crash \/ UNCHANGED vars
         \/ PublishUser \/ PublishAssistant \/ PublishTarget
         \/ \E size \in Size : BeginTurn(size)
  PROVE  UNCHANGED historyView
<1>1. CASE Start \/ StartRefused \/ RecoverNothing \/ RecoverDecided \/ BootClean \/ BootResume
  BY <1>1, FilesStutter DEF Start, StartRefused, RecoverNothing, RecoverDecided,
                            BootClean, BootResume, vars, disk
<1>2. CASE SkipCuration \/ StageCuration \/ FailHard \/ RefreshLastValid \/ CommitFails
  BY <1>2, FilesStutter DEF SkipCuration, StageCuration, FailHard, RefreshLastValid,
                            CommitFails, disk
<1>3. CASE Exit \/ Crash \/ UNCHANGED vars
  BY <1>3, FilesStutter DEF Exit, Crash, vars, disk
<1>4. CASE RecoverPrepared
  BY <1>4, UndecidedStutter DEF RecoverPrepared, Decided
<1>5. ASSUME NEW size \in Size, BeginTurn(size)
      PROVE  UNCHANGED historyView
  <2>1. journal' \in Journal
    BY <1>5, ConstantsAssumption DEF BeginTurn, Journal, JournalState, TypeInv, TypeOK
  <2>2. ~Decided /\ ~Decided'
    BY <1>5, <2>1 DEF BeginTurn, Decided
  <2> QED
    BY <1>5, <2>2, UndecidedStutter DEF BeginTurn
<1>6. CASE PublishUser \/ PublishAssistant
  BY <1>6 DEF PublishUser, PublishAssistant, CanPublish, TypeInv, PhaseInv, historyView,
              DecidedLog, DecidedDoc, Decided, Answers
<1>7. CASE PublishTarget
  BY <1>7 DEF PublishTarget, CanPublish, TargetMissing, TypeInv, PhaseInv, historyView,
              DecidedLog, DecidedDoc, Decided, Answers
<1> QED
  BY <1>1, <1>2, <1>3, <1>4, <1>5, <1>6, <1>7 DEF Recover

LEMMA UnlinkStutters ==
  ASSUME TypeInv, DiskInv, Unlink
  PROVE  UNCHANGED historyView
<1>1. Decided /\ raw = DecidedLog /\ doc = DecidedDoc
  BY PublishedHistory DEF Unlink, CanPublish, TypeInv, PhaseInv
<1>2. ~Decided' /\ raw' = raw /\ doc' = doc /\ shown' = shown
  BY DEF Unlink, Decided
<1>3. DecidedLog' = raw' /\ DecidedDoc' = doc'
  BY <1>2 DEF DecidedLog, DecidedDoc
<1> QED
  BY <1>1, <1>2, <1>3 DEF historyView

\* The steps of a process without a journal change the history directly.
LEMMA DirectSteps ==
  ASSUME HistoryInv, BootDiscard \/ Reject \/ CurateNow \/ AnswerResumed \/ ShowAnswer
  PROVE  HistoryStepOrStutter
<1> USE DEF HistoryInv
<1>1. CASE BootDiscard \/ (Reject /\ resumed)
  <2>1. /\ PendingTail(raw) /\ raw' = CutTail(raw) /\ ~Decided /\ ~Decided'
        /\ doc' = doc /\ shown' = shown
    BY <1>1 DEF BootDiscard, Reject, Calling, Decided, TypeInv, PhaseInv, DiskInv, TailInv
  <2>2. /\ DecidedLog = raw /\ DecidedDoc = doc
        /\ DecidedLog' = raw' /\ DecidedDoc' = doc'
    BY <2>1, UndecidedHistory DEF DecidedLog, DecidedDoc
  <2>3. History!DropPending
    BY <2>1, <2>2, SameOperators DEF History!DropPending
  <2> QED
    BY <2>3 DEF HistoryStepOrStutter, History!HistoryNext
<1>2. CASE Reject /\ ~resumed
  BY <1>2, UndecidedStutter
     DEF Reject, Calling, Decided, TypeInv, PhaseInv, HistoryStepOrStutter
<1>3. CASE CurateNow
  <2>1. /\ PendingTail(raw) /\ raw' = raw /\ ~Decided /\ ~Decided' /\ shown' = shown
        /\ Curates(raw, doc, doc')
    BY <1>3, TargetsCurate
       DEF CurateNow, Decided, TypeInv, PhaseInv, DiskInv, TailInv
  <2>2. /\ DecidedLog = raw /\ DecidedDoc = doc
        /\ DecidedLog' = raw' /\ DecidedDoc' = doc'
    BY <2>1, UndecidedHistory DEF DecidedLog, DecidedDoc
  <2>3. History!Curated(DecidedDoc')
    BY <2>1, <2>2, SameOperators DEF History!Curated, Curates
  <2>4. History!CurateBeforePending
    BY <2>1, <2>2, <2>3, SameOperators DEF History!CurateBeforePending
  <2> QED
    BY <2>4 DEF HistoryStepOrStutter, History!HistoryNext
<1>4. CASE AnswerResumed
  <2>1. /\ PendingTail(raw) /\ raw' = Append(raw, Assistant(raw[Len(raw)].turn))
        /\ ~Decided /\ ~Decided' /\ doc' = doc /\ shown' = shown
    BY <1>4 DEF AnswerResumed, Decided, TypeInv, PhaseInv, DiskInv, TailInv
  <2>2. /\ DecidedLog = raw /\ DecidedDoc = doc
        /\ DecidedLog' = raw' /\ DecidedDoc' = doc'
    BY <2>1, UndecidedHistory DEF DecidedLog, DecidedDoc
  <2>3. History!AnswerPending
    BY <2>1, <2>2, SameOperators DEF History!AnswerPending
  <2> QED
    BY <2>3 DEF HistoryStepOrStutter, History!HistoryNext
<1>5. CASE ShowAnswer
  <2>1. /\ Complete(raw, turn) /\ turn \in Turn /\ shown' = shown \cup {turn}
        /\ ~Decided /\ ~Decided' /\ raw' = raw /\ doc' = doc
    BY <1>5 DEF ShowAnswer, Decided, TypeInv, PhaseInv, DiskInv, TailInv, disk
  <2>2. /\ DecidedLog = raw /\ DecidedDoc = doc
        /\ DecidedLog' = raw' /\ DecidedDoc' = doc'
    BY <2>1, UndecidedHistory DEF DecidedLog, DecidedDoc
  <2>3. History!Show(turn)
    BY <2>1, <2>2, SameOperators DEF History!Show
  <2> QED
    BY <2>1, <2>3 DEF HistoryStepOrStutter, History!HistoryNext
<1> QED
  BY <1>1, <1>2, <1>3, <1>4, <1>5

\* A decision is the whole turn: the records the journal will publish and the
\* document it will put in place, at once.
LEMMA DecidingSteps ==
  ASSUME HistoryInv, FailRetryable \/ \E size \in Size : Answer(size)
  PROVE  HistoryStepOrStutter
<1>1. /\ journal # None /\ ~Decided /\ journal.turn \in Turn
      /\ raw = journal.base /\ ~PendingTail(raw)
      /\ ~Has(raw, User(journal.turn)) /\ ~Has(raw, Assistant(journal.turn))
  <2>1. journal # None /\ journal.state = "PREPARED"
    BY DEF FailRetryable, Answer, Calling, HistoryInv, TypeInv, PhaseInv
  <2>2. raw = journal.base /\ ~PendingTail(journal.base)
    BY <2>1 DEF HistoryInv, DiskInv, ProgressInv, BaseInv, Decided
  <2> QED
    BY <2>1, <2>2, PublishedArchive DEF HistoryInv, DiskInv, Decided
<1>2. DecidedLog = raw /\ DecidedDoc = doc
  BY <1>1, UndecidedHistory
<1>3. History!Fresh(journal.turn) /\ ~History!PendingTail(DecidedLog)
  BY <1>1, <1>2, SameOperators DEF History!Fresh
<1>4. CASE FailRetryable
  <2>1. /\ journal' # None /\ journal'.state = "READY_PENDING"
        /\ journal'.turn = journal.turn /\ journal'.base = journal.base
        /\ journal'.target = None /\ doc' = doc /\ shown' = shown
    BY <1>1, <1>4, ConstantsAssumption
       DEF FailRetryable, HistoryInv, TypeInv, TypeOK, ValidJournal, Journal,
           JournalState, Decided
  <2>2. DecidedLog' = Append(raw, User(journal.turn)) /\ DecidedDoc' = doc
    BY <1>1, <2>1 DEF DecidedLog, DecidedDoc, Decided, Answers, User
  <2>3. History!LeavePending(journal.turn)
    BY <1>2, <1>3, <2>1, <2>2, SameOperators DEF History!LeavePending
  <2> QED
    BY <1>1, <2>3 DEF HistoryStepOrStutter, History!HistoryNext
<1>5. ASSUME NEW size \in Size, Answer(size)
      PROVE  HistoryStepOrStutter
  <2>1. /\ journal' # None /\ journal'.state = "READY_TO_COMMIT"
        /\ journal'.turn = journal.turn /\ journal'.base = journal.base
        /\ journal'.target = staged /\ doc' = doc /\ shown' = shown
    <3>1. journal \in Journal /\ staged \in Document \cup {None}
      BY <1>1 DEF HistoryInv, TypeInv, TypeOK, ValidJournal
    <3>2. journal' = [journal EXCEPT !.state = "READY_TO_COMMIT",
                                     !.assistantSize = size, !.target = staged]
      BY <1>5 DEF Answer
    <3>3. journal' \in Journal
      BY <3>1, <3>2 DEF Journal, JournalState
    <3>4. journal' # None
      BY <3>3, ConstantsAssumption
    <3> QED
      BY <1>5, <3>1, <3>2, <3>4 DEF Answer, Journal
  <2>2. /\ DecidedLog' = Append(Append(raw, User(journal.turn)), Assistant(journal.turn))
        /\ DecidedDoc' = IF staged # None THEN staged ELSE doc
    BY <1>1, <2>1 DEF DecidedLog, DecidedDoc, Decided, Answers, User, Assistant
  <2>3. staged # None => Curates(raw, doc, staged)
    BY <1>5 DEF Answer, HistoryInv, StagedInv
  <2>4. DecidedDoc' = DecidedDoc \/ History!Curated(DecidedDoc')
    BY <1>2, <2>2, <2>3, SameOperators DEF History!Curated, Curates
  <2>5. History!AnswerNew(journal.turn)
    BY <1>2, <1>3, <2>1, <2>2, <2>4, SameOperators DEF History!AnswerNew
  <2> QED
    BY <1>1, <2>5 DEF HistoryStepOrStutter, History!HistoryNext
<1> QED
  BY <1>4, <1>5

LEMMA HistoryStep == HistoryInv /\ [Next]_vars => HistoryStepOrStutter
<1> SUFFICES ASSUME HistoryInv, [Next]_vars
             PROVE  HistoryStepOrStutter
  OBVIOUS
<1>1. CASE \/ Start \/ StartRefused \/ Recover \/ BootClean \/ BootResume
           \/ SkipCuration \/ StageCuration \/ FailHard \/ RefreshLastValid
           \/ CommitFails \/ Exit \/ Crash \/ UNCHANGED vars
           \/ PublishUser \/ PublishAssistant \/ PublishTarget
           \/ \E size \in Size : BeginTurn(size)
  BY <1>1, StutteringSteps DEF HistoryInv, HistoryStepOrStutter
<1>2. CASE Unlink
  BY <1>2, UnlinkStutters DEF HistoryInv, HistoryStepOrStutter
<1>3. CASE BootDiscard \/ Reject \/ CurateNow \/ AnswerResumed \/ ShowAnswer
  BY <1>3, DirectSteps
<1>4. CASE FailRetryable \/ \E size \in Size : Answer(size)
  BY <1>4, DecidingSteps
<1> QED
  BY <1>1, <1>2, <1>3, <1>4 DEF Next, Boot, RunTurn, Commit

\* Seen through its journal, the process with its crashes, restarts and
\* one-file-at-a-time publication implements the crash-free history of whole
\* turns (TurnUnitOfWork, run_turn, recover).
THEOREM ImplementsChatHistory == Spec => ImplementsHistory
<1>1. Init => HistoryInv
  BY TypeInit, DiskInit, StagedInit DEF HistoryInv
<1>2. HistoryInv /\ [Next]_vars => HistoryInv'
  BY TypeStep, DiskStep, StagedStep DEF HistoryInv
<1>3. HistoryInv /\ [Next]_vars => [History!HistoryNext]_(History!historyVars)
  BY HistoryStep DEF HistoryStepOrStutter, historyView, History!historyVars
<1> QED
  BY <1>1, <1>2, <1>3, HistoryStart, PTL
     DEF Spec, ImplementsHistory, History!HistorySpec
=============================================================================
