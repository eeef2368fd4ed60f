-------------------------- MODULE InputSessionProofs --------------------------
(***************************************************************************)
(* Theorems about InputSession for every value of its constants: any keys  *)
(* of the table, any width, any numbers of keys, approval screens and      *)
(* answers.  What one byte, one unit and one chunk of bytes do to the      *)
(* editor is proved in LineEditorProofs.                                   *)
(***************************************************************************)
EXTENDS InputSession, LineEditorProofs

(***************************************************************************)
(* Who may have the terminal.  It is the worker's from pause to resume,    *)
(* and nobody's after close; the reader is in its wait only while it is    *)
(* the editor's, and waits to be resumed only while somebody will resume   *)
(* it.                                                                     *)
(***************************************************************************)
OwnerInv ==
  /\ approving <=> paused
  /\ paused => ~raw
  /\ reader = "wait" => ~paused /\ raw /\ ed.results = <<>>
  /\ reader = "parked" => paused
  /\ stopping => reader \in {"ended", "cancelled"}
  /\ closed => stopping /\ ~approving /\ ~raw

LEMMA OwnerStep == OwnerInv /\ [Next]_vars => OwnerInv'
<1> SUFFICES ASSUME OwnerInv, [Next]_vars PROVE OwnerInv'
  OBVIOUS
<1> USE DEF OwnerInv
<1>1. CASE PressKey
  BY <1>1 DEF PressKey
<1>2. CASE ReaderTakes
  BY <1>2 DEF ReaderTakes
<1>3. CASE ReaderWaits
  BY <1>3 DEF ReaderWaits
<1>4. CASE ReaderWakes
  BY <1>4 DEF ReaderWakes
<1>5. CASE ReadChunk
  BY <1>5 DEF ReadChunk
<1>6. CASE HangUp
  BY <1>6 DEF HangUp
<1>7. CASE ApprovalBegins
  BY <1>7 DEF ApprovalBegins, Pause
<1>8. CASE ApprovalReads
  BY <1>8 DEF ApprovalReads
<1>9. CASE ApprovalEnds
  BY <1>9 DEF ApprovalEnds, Resume
<1>10. CASE PrintAnswer
  BY <1>10 DEF PrintAnswer
<1>11. CASE Stop
  BY <1>11 DEF Stop
<1>12. CASE Close
  BY <1>12 DEF Close
<1>13. CASE UNCHANGED vars
  BY <1>13 DEF vars
<1> QED BY <1>1, <1>2, <1>3, <1>4, <1>5, <1>6, <1>7, <1>8, <1>9, <1>10, <1>11, <1>12, <1>13
        DEF Next, ReaderTask

LEMMA OwnerHolds == Spec => []OwnerInv
<1>1. Init => OwnerInv
  BY DEF Init, OwnerInv, NewEditor
<1> QED BY <1>1, OwnerStep, PTL DEF Spec

\* While the approval screen runs, and after the end, the terminal is in the
\* mode the program found it in and the editor does not read from it: an
\* approval that outlives the stop included (TtyLineEditor.pause, resume,
\* close; InputReader's cancellation).
THEOREM TerminalHasOneOwner == Spec => []TerminalOwner
<1>1. OwnerInv => TerminalOwner
  BY DEF OwnerInv, TerminalOwner
<1> QED BY <1>1, OwnerHolds, PTL

\* No wake-up is lost: a reader that waits to be resumed is one whose editor is
\* paused, and one that waits for bytes holds back no finished input; so every
\* other state of the reader is one it leaves by itself (read_line's loop over
\* the resume event and the future, pause, resume).
WakeUpIsDue ==
  /\ reader = "parked" => approving
  /\ reader = "wait" => ed.results = <<>>

THEOREM NoWakeUpIsLost == Spec => []WakeUpIsDue
<1>1. OwnerInv => WakeUpIsDue
  BY DEF OwnerInv, WakeUpIsDue
<1> QED BY <1>1, OwnerHolds, PTL

-----------------------------------------------------------------------------
(***************************************************************************)
(* The inputs that were finished, and the texts handed on for them: those  *)
(* before the first end of input.                                          *)
(***************************************************************************)
OnSent == INSTANCE SequenceFolds WITH Step <- Emit

HasEnd(results) == \E i \in 1..Len(results) : results[i] = EndOfInput

TextsOf(results) ==
  LET end == {i \in DOMAIN results : results[i] = EndOfInput}
  IN IF end = {} THEN results ELSE SubSeq(results, 1, Min(end) - 1)

Sent(base, results) == FoldLeft(Emit, base, TextsOf(results))

LEMMA ResultsAreSent == \A results : Results(results) = Sent(actions, results)
BY DEF Results, Sent, TextsOf

LEMMA SentIsFold == \A base, results : Sent(base, results) = OnSent!Folded(base, TextsOf(results))
BY DEF Sent, FoldLeft, MapThenFoldSet, Max, OnSent!Folded, OnSent!FoldLeft,
       OnSent!MapThenFoldSet, OnSent!Max

LEMMA TextIsNotEnd == \A text \in Seq(Character) : text # EndOfInput /\ text \in Inputs
<1> SUFFICES ASSUME NEW text \in Seq(Character), text = EndOfInput PROVE FALSE
  BY DEF Inputs
<1>1. Len(text) = 1 /\ text[1] = "EOF"
  BY DEF EndOfInput
<1>2. text[1] \in Character
  BY <1>1
<1> QED BY <1>1, <1>2 DEF Character, Printable, Ascii, Finals

LEMMA TextsWithoutEnd ==
  ASSUME NEW results \in Seq(Inputs), ~HasEnd(results)
  PROVE  TextsOf(results) = results
<1>1. {i \in DOMAIN results : results[i] = EndOfInput} = {}
  BY DEF HasEnd
<1> QED BY <1>1 DEF TextsOf

LEMMA TextsBeforeEnd ==
  ASSUME NEW results \in Seq(Inputs), NEW m \in 1..Len(results), results[m] = EndOfInput,
         \A i \in 1..(m - 1) : results[i] # EndOfInput
  PROVE  TextsOf(results) = SubSeq(results, 1, m - 1)
<1> DEFINE end == {i \in DOMAIN results : results[i] = EndOfInput}
<1>1. DOMAIN results = 1..Len(results) /\ Len(results) \in Nat
  OBVIOUS
<1>2. m \in end /\ end \in SUBSET Nat
  BY <1>1
<1>3. \A i \in end : m <= i
  <2> SUFFICES ASSUME NEW i \in 1..Len(results), results[i] = EndOfInput, i < m PROVE FALSE
    BY <1>1
  <2>1. i \in 1..(m - 1)
    BY <1>1
  <2> QED BY <2>1
<1>4. TextsOf(results) = SubSeq(results, 1, Min(end) - 1)
  BY <1>2 DEF TextsOf
<1> HIDE DEF end
<1>5. OnScreen!Min(end) = m
  BY <1>2, <1>3, OnScreen!MinIs
<1> QED BY <1>4, <1>5 DEF Min, OnScreen!Min

LEMMA FirstEnd ==
  ASSUME NEW results \in Seq(Inputs), HasEnd(results)
  PROVE  \E m \in 1..Len(results) :
           results[m] = EndOfInput /\ \A i \in 1..(m - 1) : results[i] # EndOfInput
<1> DEFINE end == {i \in 1..Len(results) : results[i] = EndOfInput}
<1>1. Len(results) \in Nat /\ end \in SUBSET Nat /\ end # {}
  BY DEF HasEnd
<1> DEFINE m == OnScreen!Min(end)
<1>2. m \in end /\ \A i \in end : m <= i
  BY <1>1, OnScreen!MinExists
<1> HIDE DEF m
<1>3. ASSUME NEW i \in 1..(m - 1) PROVE results[i] # EndOfInput
  <2>1. i \in 1..Len(results) /\ i < m
    BY <1>1, <1>2
  <2> QED BY <1>1, <1>2, <2>1
<1> QED BY <1>2, <1>3

\* A text after texts is handed on after them.
LEMMA SentText ==
  ASSUME NEW base, NEW rs \in Seq(Inputs), ~HasEnd(rs), NEW text \in Seq(Character)
  PROVE  /\ Sent(base, Append(rs, text)) = Emit(Sent(base, rs), text)
         /\ ~HasEnd(Append(rs, text))
<1> DEFINE more == Append(rs, text)
<1>1. text \in Inputs /\ text # EndOfInput
  BY TextIsNotEnd
<1>2. more \in Seq(Inputs) /\ ~HasEnd(more)
  BY <1>1 DEF HasEnd
<1>3. TextsOf(rs) = rs
  BY TextsWithoutEnd
<1>4. OnSent!Folded(base, more) = Emit(OnSent!Folded(base, rs), text)
  BY <1>1, OnSent!FoldedAppend
<1> HIDE DEF more
<1>5. TextsOf(more) = more
  BY <1>2, TextsWithoutEnd
<1> QED BY <1>2, <1>3, <1>4, <1>5, SentIsFold DEF more

LEMMA SentEnd ==
  ASSUME NEW base, NEW rs \in Seq(Inputs), ~HasEnd(rs)
  PROVE  /\ Sent(base, Append(rs, EndOfInput)) = Sent(base, rs)
         /\ HasEnd(Append(rs, EndOfInput))
<1> DEFINE more == Append(rs, EndOfInput)
           m == Len(rs) + 1
<1>1. EndOfInput \in Inputs
  BY DEF Inputs
<1>2. /\ more \in Seq(Inputs) /\ Len(more) = m /\ m \in 1..m /\ more[m] = EndOfInput
      /\ \A i \in 1..Len(rs) : more[i] = rs[i]
  BY <1>1, AppendElements
<1>3. m - 1 = Len(rs) /\ \A i \in 1..(m - 1) : rs[i] # EndOfInput
  BY DEF HasEnd
<1>4. SubSeq(more, 1, Len(rs)) = rs
  <2> DEFINE a == SubSeq(more, 1, Len(rs))
  <2> HIDE DEF more
  <2>1. a \in Seq(Inputs) /\ Len(a) = Len(rs) /\ \A i \in 1..Len(rs) : a[i] = more[i]
    BY <1>2
  <2> HIDE DEF a
  <2>2. a = rs
    BY <1>2, <2>1, SameSequence
  <2> QED BY <2>2 DEF a
<1> HIDE DEF more, m
<1>5. TextsOf(more) = SubSeq(more, 1, m - 1)
  BY <1>2, <1>3, TextsBeforeEnd
<1>6. TextsOf(rs) = rs
  BY TextsWithoutEnd
<1> QED BY <1>2, <1>3, <1>4, <1>5, <1>6 DEF Sent, HasEnd, more

\* After the end nothing counts.
LEMMA SentAfterEnd ==
  ASSUME NEW base, NEW rs \in Seq(Inputs), HasEnd(rs), NEW more \in Seq(Inputs)
  PROVE  Sent(base, rs \o more) = Sent(base, rs) /\ HasEnd(rs \o more)
<1> DEFINE all == rs \o more
<1>1. /\ all \in Seq(Inputs) /\ Len(rs) \in Nat /\ Len(all) \in Nat /\ Len(rs) <= Len(all)
      /\ \A i \in 1..Len(rs) : all[i] = rs[i]
  OBVIOUS
<1>2. PICK m \in 1..Len(rs) :
        rs[m] = EndOfInput /\ \A i \in 1..(m - 1) : rs[i] # EndOfInput
  BY FirstEnd
<1>3. m - 1 \in 0..Len(rs)
  BY <1>1
<1>4. SubSeq(all, 1, m - 1) = SubSeq(rs, 1, m - 1)
  BY <1>3, CutConcat
<1> HIDE DEF all
<1>5. m \in 1..Len(all) /\ all[m] = EndOfInput
  BY <1>1, <1>2
<1>6. \A i \in 1..(m - 1) : all[i] # EndOfInput
  <2> SUFFICES ASSUME NEW i \in 1..(m - 1) PROVE all[i] # EndOfInput
    OBVIOUS
  <2>1. i \in 1..Len(rs)
    BY <1>1
  <2> QED BY <1>1, <1>2, <2>1
<1>7. TextsOf(all) = SubSeq(all, 1, m - 1)
  BY <1>1, <1>5, <1>6, TextsBeforeEnd
<1>8. TextsOf(rs) = SubSeq(rs, 1, m - 1)
  BY <1>2, TextsBeforeEnd
<1> QED BY <1>4, <1>5, <1>7, <1>8 DEF Sent, HasEnd, all

\* The first input is handed on first.
LEMMA SentFirst ==
  ASSUME NEW base, NEW h \in Seq(Character), NEW rest \in Seq(Inputs)
  PROVE  /\ Sent(base, <<h>> \o rest) = Sent(Emit(base, h), rest)
         /\ HasEnd(<<h>> \o rest) <=> HasEnd(rest)
<1> DEFINE one == <<h>>
           all == one \o rest
<1>1. h \in Inputs /\ h # EndOfInput
  BY TextIsNotEnd
<1>2. one \in Seq(Inputs) /\ Len(one) = 1 /\ one[1] = h
  BY <1>1
<1> HIDE DEF one
<1>3. /\ all \in Seq(Inputs) /\ Len(rest) \in Nat /\ Len(all) = 1 + Len(rest)
      /\ all[1] = h /\ \A i \in 1..Len(rest) : all[1 + i] = rest[i]
  <2>1. one \in Seq(Inputs) /\ Len(rest) \in Nat
    BY <1>2
  <2>2. /\ all \in Seq(Inputs) /\ Len(all) = Len(one) + Len(rest)
        /\ \A i \in 1..Len(one) : all[i] = one[i]
        /\ \A i \in 1..Len(rest) : all[Len(one) + i] = rest[i]
    BY <2>1, ConcatElements
  <2> HIDE DEF all
  <2> QED BY <1>2, <2>1, <2>2
<1>4. \A t \in Seq(Inputs) : OnSent!Folded(base, one \o t) = OnSent!Folded(Emit(base, h), t)
  BY <1>1, OnSent!FoldedFront DEF one
<1>5. CASE ~HasEnd(rest)
  <2>1. ~HasEnd(all)
    <3> SUFFICES ASSUME NEW i \in 1..(1 + Len(rest)), all[i] = EndOfInput PROVE FALSE
      BY <1>3 DEF HasEnd
    <3>1. i - 1 \in 1..Len(rest) /\ 1 + (i - 1) = i
      BY <1>1, <1>3
    <3> QED BY <1>3, <1>5, <3>1 DEF HasEnd
  <2>2. TextsOf(rest) = rest
    BY <1>5, TextsWithoutEnd
  <2> HIDE DEF all
  <2>3. TextsOf(all) = all
    BY <1>3, <2>1, TextsWithoutEnd
  <2>4. Sent(base, all) = Sent(Emit(base, h), rest)
    BY <1>4, <2>2, <2>3, SentIsFold DEF all
  <2> QED BY <1>5, <2>1, <2>4 DEF all, one
<1>6. CASE HasEnd(rest)
  <2>1. PICK m \in 1..Len(rest) :
          rest[m] = EndOfInput /\ \A i \in 1..(m - 1) : rest[i] # EndOfInput
    BY <1>6, FirstEnd
  <2> DEFINE a == SubSeq(rest, 1, m - 1)
             b == SubSeq(rest, m - 1 + 1, Len(rest))
  <2>2. m - 1 \in 0..Len(rest)
    BY <1>3
  <2>3. a \in Seq(Inputs) /\ b \in Seq(Inputs) /\ Len(a) = m - 1 /\ a \o b = rest
    BY <2>2, Cut
  <2> HIDE DEF a, b
  <2> DEFINE oa == one \o a
  <2>4. oa \in Seq(Inputs) /\ Len(oa) = m /\ one \o (a \o b) = oa \o b
    <3>1. one \in Seq(Inputs) /\ a \in Seq(Inputs) /\ b \in Seq(Inputs)
      BY <1>2, <2>3
    <3>2. /\ oa \in Seq(Inputs) /\ Len(oa) = Len(one) + Len(a)
          /\ one \o (a \o b) = oa \o b
      BY <3>1, ConcatElements, ConcatThree
    <3>3. 1 + (m - 1) = m
      BY <1>3
    <3> HIDE DEF oa
    <3> QED BY <1>2, <2>3, <3>2, <3>3
  <2> HIDE DEF oa
  <2>5. SubSeq(oa \o b, 1, Len(oa)) = oa
    BY <2>3, <2>4, CutAt
  <2>6. SubSeq(all, 1, m) = oa
    BY <2>3, <2>4, <2>5
  <2> HIDE DEF all
  <2>7. m + 1 \in 1..Len(all) /\ all[m + 1] = EndOfInput
    <3>1. all[1 + m] = rest[m]
      BY <1>3
    <3>2. 1 + m = m + 1 /\ m + 1 \in 1..(1 + Len(rest))
      BY <1>3
    <3> QED BY <1>3, <2>1, <3>1, <3>2
  <2>8. ASSUME NEW i \in 1..(m + 1 - 1) PROVE all[i] # EndOfInput
    <3>1. CASE i = 1
      BY <1>1, <1>3, <3>1
    <3>2. CASE i # 1
      <4>1. i - 1 \in 1..(m - 1) /\ i - 1 \in 1..Len(rest) /\ 1 + (i - 1) = i
        BY <1>3, <3>2
      <4>2. all[1 + (i - 1)] = rest[i - 1] /\ rest[i - 1] # EndOfInput
        BY <1>3, <2>1, <4>1
      <4> QED BY <4>1, <4>2
    <3> QED BY <3>1, <3>2
  <2>9. TextsOf(all) = SubSeq(all, 1, m + 1 - 1)
    <3> DEFINE next == m + 1
    <3>1. /\ all \in Seq(Inputs) /\ next \in 1..Len(all) /\ all[next] = EndOfInput
          /\ \A i \in 1..(next - 1) : all[i] # EndOfInput
      BY <1>3, <2>7, <2>8
    <3> HIDE DEF next
    <3>2. TextsOf(all) = SubSeq(all, 1, next - 1)
      BY <3>1, TextsBeforeEnd
    <3> QED BY <3>2 DEF next
  <2>10. TextsOf(rest) = a
    BY <2>1, TextsBeforeEnd DEF a
  <2>11. m + 1 - 1 = m
    OBVIOUS
  <2>12. Sent(base, all) = OnSent!Folded(base, oa)
    BY <2>6, <2>9, <2>11, SentIsFold
  <2>13. OnSent!Folded(base, oa) = OnSent!Folded(Emit(base, h), a)
    BY <1>4, <2>3 DEF oa
  <2> QED BY <1>6, <2>7, <2>10, <2>12, <2>13, SentIsFold DEF HasEnd, all, one
<1> QED BY <1>5, <1>6

LEMMA SentEndFirst ==
  ASSUME NEW base, NEW rest \in Seq(Inputs)
  PROVE  Sent(base, <<EndOfInput>> \o rest) = base /\ HasEnd(<<EndOfInput>> \o rest)
<1> DEFINE none == <<>>
           one == Append(none, EndOfInput)
<1>1. EndOfInput \in Inputs
  BY DEF Inputs
<1>2. one = <<EndOfInput>> /\ none \in Seq(Inputs) /\ ~HasEnd(none) /\ one \in Seq(Inputs)
  BY <1>1 DEF HasEnd
<1> HIDE DEF none
<1>3. Sent(base, one) = Sent(base, none) /\ HasEnd(one)
  BY <1>2, SentEnd
<1>4. Sent(base, none) = base
  <2>1. TextsOf(none) = none
    BY <1>2, TextsWithoutEnd
  <2> QED BY <2>1, SentIsFold, OnSent!FoldedEmpty DEF none
<1> HIDE DEF one
<1>5. Sent(base, one \o rest) = Sent(base, one) /\ HasEnd(one \o rest)
  BY <1>2, <1>3, SentAfterEnd
<1> QED BY <1>2, <1>3, <1>4, <1>5

-----------------------------------------------------------------------------
(***************************************************************************)
(* Bytes of whole keys, the first of which may have been read in part:     *)
(* every sequence in them ends within them, four bytes on at the latest.   *)
(***************************************************************************)
Whole(bytes) ==
  \A i \in 1..Len(bytes) : bytes[i] = "ESC" =>
    /\ i + 1 <= Len(bytes)
    /\ bytes[i + 1] = "[" =>
         \E j \in 1..Len(bytes) : i + 2 <= j /\ j <= i + 3 /\ bytes[j] \in Finals

LEMMA WholeIsShort ==
  ASSUME NEW bytes \in Seq(Byte), Whole(bytes)
  PROVE  ShortSequences(bytes)
<1> SUFFICES ASSUME NEW i \in 1..Len(bytes), NEW j \in 1..Len(bytes),
                    i + 2 <= j, bytes[i] = "ESC", bytes[i + 1] = "[", bytes[j] \in Finals,
                    \A k \in (i + 2)..(j - 1) : bytes[k] \notin Finals
             PROVE  j - i <= MaxSequence
  BY DEF ShortSequences
<1>1. PICK k \in 1..Len(bytes) : i + 2 <= k /\ k <= i + 3 /\ bytes[k] \in Finals
  BY DEF Whole
<1>2. j <= k
  <2> SUFFICES ASSUME k < j PROVE FALSE
    OBVIOUS
  <2>1. k \in (i + 2)..(j - 1)
    BY <1>1
  <2> QED BY <1>1, <2>1
<1> QED BY <1>1, <1>2 DEF MaxSequence

LEMMA WholeConcat ==
  ASSUME NEW a \in Seq(Byte), NEW b \in Seq(Byte), Whole(a), Whole(b)
  PROVE  Whole(a \o b)
<1> DEFINE c == a \o b
           n == Len(a)
<1>1. /\ n \in Nat /\ Len(b) \in Nat /\ Len(c) = n + Len(b)
      /\ \A i \in 1..n : c[i] = a[i]
      /\ \A i \in 1..Len(b) : c[n + i] = b[i]
  OBVIOUS
<1> HIDE DEF c, n
<1> SUFFICES ASSUME NEW i \in 1..Len(c), c[i] = "ESC"
             PROVE  /\ i + 1 <= Len(c)
                    /\ c[i + 1] = "[" =>
                         \E j \in 1..Len(c) : i + 2 <= j /\ j <= i + 3 /\ c[j] \in Finals
  BY DEF Whole, c
<1>2. CASE i <= n
  <2>1. i \in 1..n /\ a[i] = "ESC"
    BY <1>1, <1>2
  <2>2. i + 1 <= n
    BY <2>1 DEF Whole, n
  <2>3. i + 1 \in 1..n /\ c[i + 1] = a[i + 1]
    BY <1>1, <2>1, <2>2
  <2>4. ASSUME a[i + 1] = "["
        PROVE  \E j \in 1..Len(c) : i + 2 <= j /\ j <= i + 3 /\ c[j] \in Finals
    <3>1. PICK j \in 1..n : i + 2 <= j /\ j <= i + 3 /\ a[j] \in Finals
      BY <2>1, <2>4 DEF Whole, n
    <3>2. j \in 1..Len(c) /\ c[j] = a[j]
      BY <1>1
    <3> QED BY <3>1, <3>2
  <2> QED BY <1>1, <2>2, <2>3, <2>4
<1>3. CASE i > n
  <2> DEFINE k == i - n
  <2>1. k \in 1..Len(b) /\ n + k = i
    BY <1>1, <1>3
  <2> HIDE DEF k
  <2>2. b[k] = "ESC"
    BY <1>1, <2>1
  <2>3. k + 1 <= Len(b)
    BY <2>1, <2>2 DEF Whole
  <2>4. c[i + 1] = b[k + 1]
    <3>1. k + 1 \in 1..Len(b) /\ n + (k + 1) = i + 1
      BY <1>1, <2>1, <2>3
    <3>2. c[n + (k + 1)] = b[k + 1]
      BY <1>1, <3>1
    <3> QED BY <3>1, <3>2
  <2>5. ASSUME b[k + 1] = "["
        PROVE  \E j \in 1..Len(c) : i + 2 <= j /\ j <= i + 3 /\ c[j] \in Finals
    <3>1. PICK j \in 1..Len(b) : k + 2 <= j /\ j <= k + 3 /\ b[j] \in Finals
      BY <2>1, <2>2, <2>5 DEF Whole
    <3>2. n + j \in 1..Len(c) /\ c[n + j] = b[j] /\ i + 2 <= n + j /\ n + j <= i + 3
      BY <1>1, <2>1, <3>1
    <3> QED BY <3>1, <3>2
  <2> QED BY <1>1, <2>1, <2>3, <2>4, <2>5
<1> QED BY <1>1, <1>2, <1>3

LEMMA WholeSuffix ==
  ASSUME NEW s, NEW c, Suffix(s, c), Whole(c)
  PROVE  Whole(s)
<1>1. PICK u \in Seq(Byte) : c = u \o s
  BY DEF Suffix
<1> DEFINE n == Len(u)
<1>2. s \in Seq(Byte)
  BY DEF Suffix
<1>3. /\ n \in Nat /\ Len(s) \in Nat /\ Len(c) = n + Len(s)
      /\ \A i \in 1..Len(s) : c[n + i] = s[i]
  BY <1>1, <1>2
<1> HIDE DEF n
<1> SUFFICES ASSUME NEW k \in 1..Len(s), s[k] = "ESC"
             PROVE  /\ k + 1 <= Len(s)
                    /\ s[k + 1] = "[" =>
                         \E j \in 1..Len(s) : k + 2 <= j /\ j <= k + 3 /\ s[j] \in Finals
  BY DEF Whole
<1> DEFINE i == n + k
<1>4. i \in 1..Len(c) /\ c[i] = "ESC" /\ i \in Nat /\ k \in Nat
  BY <1>3
<1>5. k + 1 <= Len(s)
  <2>1. i + 1 <= Len(c)
    BY <1>4 DEF Whole
  <2> QED BY <1>3, <2>1
<1>6. c[i + 1] = s[k + 1]
  <2>1. k + 1 \in 1..Len(s) /\ n + (k + 1) = i + 1
    BY <1>3, <1>5
  <2>2. c[n + (k + 1)] = s[k + 1]
    BY <1>3, <2>1
  <2> QED BY <2>1, <2>2
<1>7. ASSUME s[k + 1] = "["
      PROVE  \E j \in 1..Len(s) : k + 2 <= j /\ j <= k + 3 /\ s[j] \in Finals
  <2>1. PICK j \in 1..Len(c) : i + 2 <= j /\ j <= i + 3 /\ c[j] \in Finals
    <3> HIDE DEF i
    <3> QED BY <1>4, <1>6, <1>7 DEF Whole
  <2>2. j - n \in 1..Len(s) /\ n + (j - n) = j /\ k + 2 <= j - n /\ j - n <= k + 3
    BY <1>3, <1>4, <2>1
  <2>3. c[n + (j - n)] = s[j - n]
    BY <1>3, <2>2
  <2> QED BY <2>1, <2>2, <2>3
<1> QED BY <1>5, <1>7

LEMMA KeysListed ==
  /\ DOMAIN KeyBytes = {"a", "wide", "mark", "enter", "shiftEnter", "altEnter", "ctrlJ",
                        "backspace", "ctrlD", "arrow", "paste"}
  /\ KeyBytes["a"] = <<"a">> /\ KeyBytes["wide"] = <<"w", "c">> /\ KeyBytes["mark"] = <<"m">>
  /\ KeyBytes["enter"] = <<"CR">> /\ KeyBytes["ctrlJ"] = <<"LF">>
  /\ KeyBytes["shiftEnter"] = <<"ESC", "[", "13;2", "u">>
  /\ KeyBytes["altEnter"] = <<"ESC", "CR">> /\ KeyBytes["backspace"] = <<"BS">>
  /\ KeyBytes["ctrlD"] = <<"EOT">> /\ KeyBytes["arrow"] = <<"ESC", "[", "A">>
  /\ KeyBytes["paste"] = PasteStart \o <<"a", "CR">> \o PasteEnd
BY DEF KeyBytes

LEMMA WholeTwo ==
  ASSUME NEW c \in Byte, NEW d \in Byte, d # "ESC", c = "ESC" => d # "["
  PROVE  <<c, d>> \in Seq(Byte) /\ Whole(<<c, d>>)
<1> DEFINE b == <<c, d>>
<1>1. b \in Seq(Byte) /\ Len(b) = 2 /\ b[1] = c /\ b[2] = d
  OBVIOUS
<1> HIDE DEF b
<1>2. \A i \in 1..Len(b) : b[i] = "ESC" => i = 1
  BY <1>1
<1>3. Whole(b)
  BY <1>1, <1>2 DEF Whole
<1> QED BY <1>1, <1>3 DEF b

\* A CSI sequence of three or four bytes.
Csi(b) ==
  /\ b \in Seq(Byte) /\ Len(b) \in {3, 4}
  /\ b[1] = "ESC" /\ b[2] = "[" /\ b[Len(b)] \in Finals
  /\ b[3] \in {"200", "201", "13;2", "A"} /\ (Len(b) = 4 => b[3] # "A")

LEMMA CsiListed ==
  /\ \A c \in {"200", "201", "13;2"}, d \in Finals : Csi(<<"ESC", "[", c, d>>)
  /\ Csi(<<"ESC", "[", "A">>)
<1>1. {"ESC", "[", "200", "201", "13;2", "A"} \cup Finals \subseteq Byte /\ "A" \in Finals
  BY DEF Byte, Ascii, Finals
<1>2. ASSUME NEW c \in {"200", "201", "13;2"}, NEW d \in Finals
      PROVE  Csi(<<"ESC", "[", c, d>>)
  <2> DEFINE b == <<"ESC", "[", c, d>>
  <2>1. "ESC" \in Byte /\ "[" \in Byte /\ c \in Byte /\ d \in Byte
    BY <1>1
  <2>2. /\ b \in Seq(Byte) /\ Len(b) = 4
        /\ b[1] = "ESC" /\ b[2] = "[" /\ b[3] = c /\ b[4] = d
    BY <2>1, ThreeOrFour
  <2> HIDE DEF b
  <2>3. c # "A" /\ c \in {"200", "201", "13;2", "A"}
    OBVIOUS
  <2>4. b[Len(b)] = d /\ Len(b) \in {3, 4}
    <3>1. b[4] = d /\ Len(b) = 4
      BY <2>2
    <3>2. b[Len(b)] = d
      BY <3>1, Zenon
    <3>3. Len(b) \in {3, 4}
      BY <3>1
    <3> QED BY <3>2, <3>3
  <2>5. Csi(b)
    BY <2>2, <2>3, <2>4 DEF Csi
  <2> QED BY <2>5 DEF b
<1>3. Csi(<<"ESC", "[", "A">>)
  <2> DEFINE b == <<"ESC", "[", "A">>
  <2>1. "ESC" \in Byte /\ "[" \in Byte /\ "A" \in Byte
    BY <1>1
  <2>2. /\ b \in Seq(Byte) /\ Len(b) = 3
        /\ b[1] = "ESC" /\ b[2] = "[" /\ b[3] = "A"
    BY <2>1, ThreeOrFour
  <2> HIDE DEF b
  <2>3. b[Len(b)] = "A" /\ Len(b) \in {3, 4} /\ Len(b) # 4
    BY <2>2
  <2>4. Csi(b)
    BY <1>1, <2>2, <2>3 DEF Csi
  <2> QED BY <2>4 DEF b
<1> QED BY <1>2, <1>3

LEMMA WholeCsi ==
  ASSUME NEW b, Csi(b)
  PROVE  b \in Seq(Byte) /\ Whole(b)
<1>1. /\ b \in Seq(Byte) /\ Len(b) \in {3, 4} /\ b[Len(b)] \in Finals /\ b[3] # "ESC"
      /\ b[2] # "ESC" /\ b[Len(b)] # "ESC"
  BY DEF Csi, Finals
<1>2. \A i \in 1..Len(b) : b[i] = "ESC" => i = 1
  <2> SUFFICES ASSUME NEW i \in 1..Len(b), i # 1 PROVE b[i] # "ESC"
    OBVIOUS
  <2>1. i = 2 \/ i = 3 \/ i = Len(b)
    BY <1>1
  <2> QED BY <1>1, <2>1
<1>3. Len(b) \in 1..Len(b) /\ 3 <= Len(b) /\ Len(b) <= 4
  BY <1>1
<1> QED BY <1>1, <1>2, <1>3 DEF Whole

LEMMA WholeKeys ==
  \A key \in DOMAIN KeyBytes : KeyBytes[key] \in Seq(Byte) /\ Whole(KeyBytes[key])
<1>1. Byte = {"a", "m", "[", "200", "201", "13;2", "~", "u", "A", "CR", "LF", "w", "c",
                "ESC", "BS", "EOT"}
  BY DEF Byte, Ascii, Breaks, Finals
<1>2. ASSUME NEW c \in Byte, c # "ESC" PROVE <<c>> \in Seq(Byte) /\ Whole(<<c>>)
  BY <1>2 DEF Whole
<1>3. <<"w", "c">> \in Seq(Byte) /\ Whole(<<"w", "c">>)
  BY <1>1, WholeTwo
<1>4. <<"ESC", "CR">> \in Seq(Byte) /\ Whole(<<"ESC", "CR">>)
  BY <1>1, WholeTwo
<1>5. <<"ESC", "[", "A">> \in Seq(Byte) /\ Whole(<<"ESC", "[", "A">>)
  BY CsiListed, WholeCsi
<1>6. <<"ESC", "[", "13;2", "u">> \in Seq(Byte) /\ Whole(<<"ESC", "[", "13;2", "u">>)
  BY CsiListed, WholeCsi DEF Finals
<1>7. PasteStart \in Seq(Byte) /\ Whole(PasteStart)
  BY CsiListed, WholeCsi DEF Finals, PasteStart
<1>8. PasteEnd \in Seq(Byte) /\ Whole(PasteEnd)
  BY CsiListed, WholeCsi DEF Finals, PasteEnd
<1> DEFINE inside == <<"a", "CR">>
           front == PasteStart \o inside
           all == front \o PasteEnd
<1>9. inside \in Seq(Byte) /\ Whole(inside)
  BY <1>1, WholeTwo
<1> HIDE DEF inside
<1>10. front \in Seq(Byte) /\ Whole(front)
  BY <1>7, <1>9, WholeConcat
<1> HIDE DEF front
<1>11. all \in Seq(Byte) /\ Whole(all)
  BY <1>8, <1>10, WholeConcat
<1>12. KeyBytes["paste"] = all
  BY KeysListed DEF inside, front
<1> HIDE DEF all
<1>13. ASSUME NEW key \in DOMAIN KeyBytes
       PROVE  KeyBytes[key] \in Seq(Byte) /\ Whole(KeyBytes[key])
  <2>1. CASE key \in {"a", "mark", "enter", "ctrlJ", "backspace", "ctrlD"}
    <3>1. \E c \in Byte : c # "ESC" /\ KeyBytes[key] = <<c>>
      BY <1>1, <2>1, KeysListed
    <3> QED BY <1>2, <3>1
  <2>2. CASE key = "wide"
    BY <1>3, <2>2, KeysListed
  <2>3. CASE key = "shiftEnter"
    BY <1>6, <2>3, KeysListed
  <2>4. CASE key = "altEnter"
    BY <1>4, <2>4, KeysListed
  <2>5. CASE key = "arrow"
    BY <1>5, <2>5, KeysListed
  <2>6. CASE key = "paste"
    BY <1>11, <1>12, <2>6
  <2> QED BY <2>1, <2>2, <2>3, <2>4, <2>5, <2>6, KeysListed
<1> QED BY <1>13

-----------------------------------------------------------------------------
(***************************************************************************)
(* What the bytes of a key do.                                             *)
(***************************************************************************)
\* Nothing is pending: the bytes of whole keys are read key by key.
LEMMA FeedWhole ==
  ASSUME NEW e \in Editors, e.pending = <<>>,
         NEW s \in Seq(Byte), NEW t \in Seq(Byte), Whole(s), Whole(t)
  PROVE  Feed(e, s \o t) = Feed(Feed(e, s), t)
<1> DEFINE st == s \o t
<1>1. st \in Seq(Byte) /\ Whole(st)
  BY WholeConcat
<1> HIDE DEF st
<1>2. <<>> \o st = st
  BY <1>1
<1>3. ShortSequences(e.pending \o st)
  BY <1>1, <1>2, WholeIsShort
<1> QED BY <1>3, ChunksDoNotMatter DEF st

LEMMA FeedByte ==
  ASSUME NEW e \in Editors, e.pending = <<>>, NEW c \in Byte, c \notin {"ESC", "w", "c"}
  PROVE  /\ Feed(e, <<c>>) = HandleChar(e, c)
         /\ Feed(e, <<c>>) \in Editors /\ Feed(e, <<c>>).pending = <<>>
<1> DEFINE u == <<c>>
<1>1. u \in Seq(Byte) /\ u # <<>> /\ Len(u) = 1 /\ u[1] = c /\ u # <<"c">>
  OBVIOUS
<1>2. Decode(u) = c
  <2>1. u # <<"w", "c">>
    OBVIOUS
  <2> QED BY <1>1, <2>1 DEF Decode
<1> HIDE DEF u
<1>3. Ready(u) = Len(u)
  BY <1>1 DEF Ready, CharLength
<1>4. Handled(e, u) = HandleChar(e, c)
  BY <1>1, <1>2 DEF Handled
<1>5. Feed(e, u) = Handled(e, u) /\ Feed(e, u) \in Editors /\ Feed(e, u).pending = <<>>
  BY <1>1, <1>3, FeedUnit
<1> QED BY <1>4, <1>5 DEF u

LEMMA FeedWide ==
  ASSUME NEW e \in Editors, e.pending = <<>>
  PROVE  /\ Feed(e, <<"w", "c">>) = HandleChar(e, "W")
         /\ Feed(e, <<"w", "c">>) \in Editors /\ Feed(e, <<"w", "c">>).pending = <<>>
<1> DEFINE u == <<"w", "c">>
<1>1. u \in Seq(Byte) /\ Len(u) = 2 /\ u[1] = "w"
  <2>1. "w" \in Byte /\ "c" \in Byte
    BY DEF Byte
  <2> QED BY <2>1
<1>2. Decode(u) = "W"
  BY DEF Decode
<1> HIDE DEF u
<1>3. Ready(u) = Len(u) /\ u # <<>>
  BY <1>1 DEF Ready, CharLength
<1>4. Handled(e, u) = HandleChar(e, "W")
  BY <1>1, <1>2 DEF Handled
<1>5. Feed(e, u) = Handled(e, u) /\ Feed(e, u) \in Editors /\ Feed(e, u).pending = <<>>
  BY <1>1, <1>3, FeedUnit
<1> QED BY <1>4, <1>5 DEF u

LEMMA FeedEscape ==
  ASSUME NEW e \in Editors, e.pending = <<>>, NEW u,
         Csi(u) \/ u = <<"ESC", "CR">>
  PROVE  /\ Feed(e, u) = HandleEscape(e, u)
         /\ Feed(e, u) \in Editors /\ Feed(e, u).pending = <<>>
<1>1. u \in Seq(Byte) /\ u # <<>> /\ u[1] = "ESC" /\ Ready(u) = Len(u)
  <2>1. CASE u = <<"ESC", "CR">>
    <3>1. "ESC" \in Byte /\ "CR" \in Byte
      BY DEF Byte, Breaks
    <3>2. u \in Seq(Byte) /\ Len(u) = 2 /\ u[1] = "ESC" /\ u[2] = "CR"
      BY <2>1, <3>1
    <3>3. u # <<>> /\ Ready(u) = EscapeLength(u)
      BY <3>2 DEF Ready
    <3> QED BY <3>2, <3>3 DEF EscapeLength
  <2>2. CASE Csi(u)
    <3>1. /\ u \in Seq(Byte) /\ Len(u) \in {3, 4} /\ u[1] = "ESC" /\ u[2] = "["
          /\ u[Len(u)] \in Finals /\ (Len(u) = 4 => u[3] \notin Finals)
      BY <2>2 DEF Csi, Finals
    <3>2. u # <<>> /\ Ready(u) = EscapeLength(u)
      BY <3>1 DEF Ready
    <3>3. Ends(u) = {Len(u)}
      <4>1. \A i \in 3..Len(u) : i = Len(u) \/ (i = 3 /\ Len(u) = 4)
        BY <3>1
      <4>2. Len(u) \in 3..Len(u)
        <5> DEFINE n == Len(u)
        <5>1. n \in {3, 4}
          BY <3>1
        <5> HIDE DEF n
        <5>2. n \in 3..n
          BY <5>1
        <5> QED BY <5>2 DEF n
      <4> QED BY <3>1, <4>1, <4>2 DEF Ends
    <3>4. Min(Ends(u)) = Len(u)
      BY <3>1, <3>3, EndsMin
    <3>5. EscapeLength(u) = Min(Ends(u))
      BY <3>1, <3>3 DEF EscapeLength, Ends
    <3> QED BY <3>1, <3>2, <3>4, <3>5
  <2> QED BY <2>1, <2>2
<1>2. Handled(e, u) = HandleEscape(e, u)
  BY <1>1 DEF Handled
<1> QED BY <1>1, <1>2, FeedUnit

LEMMA InsertDoes ==
  ASSUME NEW e \in Editors, NEW c \in Character
  PROVE  /\ Insert(e, c).buffer = e.buffer \o <<c>> /\ Insert(e, c).results = e.results
         /\ Insert(e, c).paste = e.paste
<1>1. e \in Fields
  BY DEF Editors, Fields
<1>2. Append(e.buffer, c) = e.buffer \o <<c>>
  <2> DEFINE text == e.buffer
  <2>1. text \in Seq(Character)
    BY <1>1 DEF Fields
  <2> HIDE DEF text
  <2>2. Append(text, c) = text \o <<c>>
    BY <2>1
  <2> QED BY <2>2 DEF text
<1> QED BY <1>1, <1>2 DEF Insert, Fields

\* A character that is typed, or is in a paste.
LEMMA HandleCharInserts ==
  ASSUME NEW e \in Editors, NEW c \in {"a", "m", "W", "LF"}
  PROVE  HandleChar(e, c) = Insert(e, IF c = "LF" THEN "NL" ELSE c)
<1>1. e.paste \in BOOLEAN /\ {"CR", "LF", "BS", "EOT"} \cap Printable = {}
  BY DEF Editors, Printable, Ascii, Finals
<1>2. {"a", "m", "W"} \subseteq Printable
  BY DEF Printable, Ascii
<1>3. CASE c = "LF"
  BY <1>1, <1>3 DEF HandleChar, Breaks
<1>4. CASE c # "LF"
  BY <1>1, <1>2, <1>4 DEF HandleChar, Breaks
<1> QED BY <1>3, <1>4

\* PasteStart, what is pasted, PasteEnd.
LEMMA FeedPaste ==
  ASSUME NEW e \in Editors, e.pending = <<>>, ~e.paste
  PROVE  LET f == Feed(e, PasteStart \o <<"a", "CR">> \o PasteEnd)
         IN /\ f \in Editors /\ f.pending = <<>> /\ ~f.paste
            /\ f.results = e.results /\ f.buffer = e.buffer \o <<"a", "NL">>
<1> DEFINE one == <<"a">>
           two == <<"CR">>
           inside == one \o two
           front == PasteStart \o inside
           text == e.buffer \o <<"a">>
<1>1. inside = <<"a", "CR">> /\ "a" \in Byte /\ "CR" \in Byte /\ "a" \in Character /\ "NL" \in Character
  <2>1. "a" \in Byte /\ "CR" \in Byte /\ "a" \in Character /\ "NL" \in Character
    BY DEF Byte, Ascii, Breaks, Character, Printable
  <2> QED BY <2>1, TwoOnes
<1>2. /\ one \in Seq(Byte) /\ Whole(one) /\ two \in Seq(Byte) /\ Whole(two)
  <2>1. DOMAIN KeyBytes = DOMAIN KeyBytes /\ "a" \in DOMAIN KeyBytes /\ "enter" \in DOMAIN KeyBytes
    BY KeysListed
  <2>2. KeyBytes["a"] = one /\ KeyBytes["enter"] = two
    BY KeysListed
  <2> HIDE DEF one, two
  <2> QED BY <2>1, <2>2, WholeKeys
<1>3. /\ Csi(PasteStart) /\ Csi(PasteEnd) /\ PasteStart # PasteEnd
      /\ PasteStart \notin ShiftEnter /\ PasteEnd \notin ShiftEnter
  <2>1. Csi(PasteStart) /\ Csi(PasteEnd)
    BY CsiListed DEF PasteStart, PasteEnd, Finals
  <2>2. PasteStart # PasteEnd /\ PasteStart \notin ShiftEnter /\ PasteEnd \notin ShiftEnter
    BY DEF PasteStart, PasteEnd, ShiftEnter
  <2> QED BY <2>1, <2>2
<1>4. PasteStart \in Seq(Byte) /\ Whole(PasteStart) /\ PasteEnd \in Seq(Byte) /\ Whole(PasteEnd)
  BY <1>3, WholeCsi
<1> HIDE DEF one, two
<1>5. inside \in Seq(Byte) /\ Whole(inside)
  BY <1>2, WholeConcat
<1> HIDE DEF inside
<1>6. front \in Seq(Byte) /\ Whole(front)
  BY <1>4, <1>5, WholeConcat
<1> HIDE DEF front
<1> DEFINE e1 == Feed(e, PasteStart)
           e2 == Feed(e1, one)
           e3 == Feed(e2, two)
           e4 == Feed(e3, PasteEnd)
<1>7. e \in Fields
  BY DEF Editors, Fields
<1>8. /\ e1 \in Editors /\ e1.pending = <<>> /\ e1.paste
      /\ e1.buffer = e.buffer /\ e1.results = e.results
  <2>1. e1 = HandleEscape(e, PasteStart) /\ e1 \in Editors /\ e1.pending = <<>>
    BY <1>3, FeedEscape
  <2>2. HandleEscape(e, PasteStart) = SetPaste(e, TRUE)
    BY <1>3 DEF HandleEscape, SetPaste
  <2> QED BY <1>7, <2>1, <2>2 DEF SetPaste, Fields
<1> HIDE DEF e1
<1>9. /\ e2 \in Editors /\ e2.pending = <<>> /\ e2.paste
      /\ e2.buffer = text /\ e2.results = e.results
  <2>1. e2 = HandleChar(e1, "a") /\ e2 \in Editors /\ e2.pending = <<>>
    BY <1>1, <1>8, FeedByte DEF one
  <2>2. HandleChar(e1, "a") = Insert(e1, "a")
    BY <1>8, HandleCharInserts
  <2> HIDE DEF e2
  <2> QED BY <1>1, <1>8, <2>1, <2>2, InsertDoes
<1> HIDE DEF e2, text
<1>10. /\ e3 \in Editors /\ e3.pending = <<>> /\ e3.paste
       /\ e3.buffer = text \o <<"NL">> /\ e3.results = e.results
  <2>1. e3 = HandleChar(e2, "CR") /\ e3 \in Editors /\ e3.pending = <<>>
    BY <1>1, <1>9, FeedByte DEF two
  <2>2. HandleChar(e2, "CR") = Insert(e2, "NL")
    BY <1>9 DEF HandleChar, Breaks
  <2> HIDE DEF e3
  <2>3. e3 = Insert(e2, "NL") /\ "NL" \in Character
    BY <1>1, <2>1, <2>2
  <2> QED BY <1>9, <2>1, <2>3, InsertDoes
<1> HIDE DEF e3
<1>11. /\ e4 \in Editors /\ e4.pending = <<>> /\ ~e4.paste
       /\ e4.buffer = e3.buffer /\ e4.results = e3.results
  <2>1. e4 = HandleEscape(e3, PasteEnd) /\ e4 \in Editors /\ e4.pending = <<>>
    BY <1>3, <1>10, FeedEscape
  <2>2. HandleEscape(e3, PasteEnd) = SetPaste(e3, FALSE)
    BY <1>3 DEF HandleEscape, SetPaste
  <2>3. e3 \in Fields
    BY <1>10 DEF Editors, Fields
  <2> QED BY <2>1, <2>2, <2>3 DEF SetPaste, Fields
<1> HIDE DEF e4
<1>12. text \o <<"NL">> = e.buffer \o <<"a", "NL">>
  <2> DEFINE old == e.buffer
             x == <<"a">>
             y == <<"NL">>
  <2>1. /\ old \in Seq(Character) /\ x \in Seq(Character) /\ y \in Seq(Character)
        /\ x \o y = <<"a", "NL">>
    BY <1>1, <1>7, TwoOnes DEF Fields
  <2>2. text = old \o x
    BY DEF text
  <2> HIDE DEF old, x, y
  <2>3. old \in Seq(Character) /\ x \in Seq(Character) /\ y \in Seq(Character)
    BY <2>1
  <2>4. old \o (x \o y) = (old \o x) \o y
    BY <2>3, ConcatThree
  <2> QED BY <2>1, <2>2, <2>4 DEF old, y
<1>13. Feed(e, front \o PasteEnd) = e4
  <2>1. Feed(e, front \o PasteEnd) = Feed(Feed(e, front), PasteEnd)
    BY <1>4, <1>6, FeedWhole
  <2>2. Feed(e, front) = Feed(e1, inside)
    BY <1>4, <1>5, FeedWhole DEF front, e1
  <2>3. Feed(e1, inside) = e3
    BY <1>2, <1>8, FeedWhole DEF inside, e2, e3
  <2> QED BY <2>1, <2>2, <2>3 DEF e4
<1>14. front \o PasteEnd = PasteStart \o <<"a", "CR">> \o PasteEnd
  BY <1>1 DEF front
<1> QED BY <1>10, <1>11, <1>12, <1>13, <1>14

LEMMA FeedKey ==
  ASSUME NEW e \in Editors, e.pending = <<>>, ~e.paste, NEW key \in DOMAIN KeyBytes
  PROVE  LET f == Feed(e, KeyBytes[key])
         IN /\ f \in Editors /\ f.pending = <<>>
            /\ key = "ctrlD" /\ e.buffer = <<>> => f.results = Append(e.results, EndOfInput)
            /\ key \in {"enter", "ctrlD"} /\ ~(key = "ctrlD" /\ e.buffer = <<>>) =>
                 f.results = Append(e.results, e.buffer) /\ f.buffer = <<>> /\ ~f.paste
            /\ key = "backspace" =>
                 /\ f.results = e.results /\ ~f.paste
                 /\ f.buffer = IF e.buffer = <<>> THEN <<>>
                               ELSE IF Last(e.buffer) = "NL" THEN Front(e.buffer)
                                    ELSE DropGrapheme(e.buffer)
            /\ key \notin {"enter", "ctrlD", "backspace"} =>
                 f.results = e.results /\ ~f.paste /\ f.buffer = e.buffer \o Typed[key]
<1> DEFINE f == Feed(e, KeyBytes[key])
<1>1. e \in Fields /\ e.buffer \in Seq(Character)
  BY DEF Editors, Fields
<1>2. {"CR", "LF", "BS", "EOT"} \cap Printable = {}
  BY DEF Printable, Ascii, Finals
<1>3. {"a", "m", "CR", "LF", "BS", "EOT"} \subseteq Byte
  BY DEF Byte, Ascii, Breaks
<1>4. {"a", "m", "W", "NL"} \subseteq Character
  BY DEF Character, Printable, Ascii
<1>5. CASE key = "a"
  <2>1. f = HandleChar(e, "a") /\ f \in Editors /\ f.pending = <<>>
    BY <1>3, <1>5, FeedByte, KeysListed
  <2>2. HandleChar(e, "a") = Insert(e, "a")
    BY HandleCharInserts
  <2>3. Typed["a"] = <<"a">>
    BY DEF Typed
  <2> QED BY <1>4, <1>5, <2>1, <2>2, <2>3, InsertDoes
<1>6. CASE key = "mark"
  <2>1. f = HandleChar(e, "m") /\ f \in Editors /\ f.pending = <<>>
    BY <1>3, <1>6, FeedByte, KeysListed
  <2>2. HandleChar(e, "m") = Insert(e, "m")
    BY HandleCharInserts
  <2>3. Typed["mark"] = <<"m">>
    BY DEF Typed
  <2> QED BY <1>4, <1>6, <2>1, <2>2, <2>3, InsertDoes
<1>7. CASE key = "wide"
  <2>1. f = HandleChar(e, "W") /\ f \in Editors /\ f.pending = <<>>
    BY <1>7, FeedWide, KeysListed
  <2>2. HandleChar(e, "W") = Insert(e, "W")
    BY HandleCharInserts
  <2>3. Typed["wide"] = <<"W">>
    BY DEF Typed
  <2> QED BY <1>4, <1>7, <2>1, <2>2, <2>3, InsertDoes
<1>8. CASE key = "ctrlJ"
  <2>1. f = HandleChar(e, "LF") /\ f \in Editors /\ f.pending = <<>>
    BY <1>3, <1>8, FeedByte, KeysListed
  <2>2. HandleChar(e, "LF") = Insert(e, "NL")
    BY HandleCharInserts
  <2>3. Typed["ctrlJ"] = <<"NL">>
    BY DEF Typed
  <2> QED BY <1>4, <1>8, <2>1, <2>2, <2>3, InsertDoes
<1>9. CASE key \in {"shiftEnter", "altEnter"}
  <2> DEFINE u == KeyBytes[key]
  <2>1. (Csi(u) \/ u = <<"ESC", "CR">>) /\ u \in ShiftEnter
    BY <1>9, KeysListed, CsiListed DEF ShiftEnter, Finals
  <2>2. PasteStart \notin ShiftEnter /\ PasteEnd \notin ShiftEnter
    BY DEF PasteStart, PasteEnd, ShiftEnter
  <2> HIDE DEF u
  <2>3. Feed(e, u) = HandleEscape(e, u) /\ Feed(e, u) \in Editors /\ Feed(e, u).pending = <<>>
    BY <2>1, FeedEscape
  <2>4. HandleEscape(e, u) = Insert(e, "NL")
    BY <2>1, <2>2 DEF HandleEscape
  <2>5. Typed[key] = <<"NL">>
    BY <1>9 DEF Typed
  <2> QED BY <1>4, <1>9, <2>3, <2>4, <2>5, InsertDoes DEF u
<1>10. CASE key = "arrow"
  <2> DEFINE u == KeyBytes[key]
  <2>1. Csi(u) /\ u = <<"ESC", "[", "A">>
    BY <1>10, KeysListed, CsiListed
  <2>2. u \notin ShiftEnter /\ u # PasteStart /\ u # PasteEnd
    BY <2>1 DEF PasteStart, PasteEnd, ShiftEnter
  <2> HIDE DEF u
  <2>3. Feed(e, u) = HandleEscape(e, u) /\ Feed(e, u) \in Editors /\ Feed(e, u).pending = <<>>
    BY <2>1, FeedEscape
  <2>4. HandleEscape(e, u) = e
    BY <2>2 DEF HandleEscape
  <2>5. Typed[key] = <<>> /\ e.buffer \o <<>> = e.buffer
    BY <1>1, <1>10 DEF Typed
  <2> QED BY <1>10, <2>3, <2>4, <2>5 DEF u
<1>11. CASE key = "paste"
  <2>1. Typed["paste"] = <<"a", "NL">>
    BY DEF Typed
  <2> QED BY <1>11, <2>1, FeedPaste, KeysListed
<1>12. CASE key = "backspace"
  <2>1. f = HandleChar(e, "BS") /\ f \in Editors /\ f.pending = <<>>
    BY <1>3, <1>12, FeedByte, KeysListed
  <2>2. HandleChar(e, "BS") = Backspace(e)
    BY <1>2 DEF HandleChar, Breaks
  <2>3. Backspace(e).results = e.results /\ Backspace(e).paste = e.paste
    BY <1>1, BackspaceIn DEF Edits, Fields
  <2> QED BY <1>12, <2>1, <2>2, <2>3, BackspaceIn
<1>13. CASE key = "enter" \/ (key = "ctrlD" /\ e.buffer # <<>>)
  <2> DEFINE c == IF key = "enter" THEN "CR" ELSE "EOT"
  <2>1. KeyBytes[key] = <<c>> /\ c \in {"CR", "EOT"}
    BY <1>13, KeysListed
  <2>2. HandleChar(e, c) = Submit(e)
    BY <1>2, <1>13 DEF HandleChar, Breaks
  <2> HIDE DEF c
  <2>3. f = HandleChar(e, c) /\ f \in Editors /\ f.pending = <<>>
    BY <1>3, <2>1, FeedByte
  <2>4. /\ Submit(e).results = Append(e.results, e.buffer) /\ Submit(e).buffer = <<>>
        /\ Submit(e).paste = e.paste
    BY <1>1 DEF Submit, Fields
  <2> QED BY <1>13, <2>2, <2>3, <2>4
<1>14. CASE key = "ctrlD" /\ e.buffer = <<>>
  <2>1. f = HandleChar(e, "EOT") /\ f \in Editors /\ f.pending = <<>>
    BY <1>3, <1>14, FeedByte, KeysListed
  <2>2. HandleChar(e, "EOT") = [e EXCEPT !.results = Append(@, EndOfInput)]
    BY <1>2, <1>14 DEF HandleChar, Breaks
  <2> QED BY <1>1, <1>14, <2>1, <2>2 DEF Fields
<1> QED BY <1>5, <1>6, <1>7, <1>8, <1>9, <1>10, <1>11, <1>12, <1>13, <1>14, KeysListed

\* The bytes of a key do what the key means.
LEMMA KeyMeans ==
  ASSUME NEW e \in Editors, e.pending = <<>>, ~e.paste, NEW key \in DOMAIN KeyBytes,
         ~HasEnd(e.results), NEW base,
         NEW m, m = [text |-> e.buffer, sent |-> Sent(base, e.results), eof |-> FALSE]
  PROVE  LET f == Feed(e, KeyBytes[key])
             n == Means(m, key)
         IN /\ Sent(base, f.results) = n.sent
            /\ HasEnd(f.results) <=> n.eof
            /\ ~n.eof => f.buffer = n.text /\ f.pending = <<>> /\ ~f.paste
            /\ n = [text |-> n.text, sent |-> n.sent, eof |-> n.eof] /\ n.eof \in BOOLEAN
<1> DEFINE f == Feed(e, KeyBytes[key])
           n == Means(m, key)
<1>1. e.results \in Seq(Inputs) /\ e.buffer \in Seq(Character)
  BY DEF Editors
<1>2. m.text = e.buffer /\ m.sent = Sent(base, e.results) /\ m.eof = FALSE
  OBVIOUS
<1>3. f \in Editors /\ f.pending = <<>>
  BY FeedKey
<1>4. CASE key = "ctrlD" /\ e.buffer = <<>>
  <2>1. n = [m EXCEPT !.eof = TRUE]
    BY <1>2, <1>4 DEF Means
  <2>2. f.results = Append(e.results, EndOfInput)
    BY <1>4, FeedKey
  <2> HIDE DEF f, n
  <2>3. n.eof = TRUE /\ n.sent = m.sent /\ n.text = m.text
        /\ n = [text |-> n.text, sent |-> n.sent, eof |-> n.eof]
    BY <2>1
  <2> QED BY <1>1, <1>2, <2>2, <2>3, SentEnd DEF f, n
<1>5. CASE key \in {"enter", "ctrlD"} /\ ~(key = "ctrlD" /\ e.buffer = <<>>)
  <2>1. n = [m EXCEPT !.text = <<>>, !.sent = Emit(m.sent, m.text)]
    BY <1>2, <1>5 DEF Means
  <2>2. f.results = Append(e.results, e.buffer) /\ f.buffer = <<>> /\ ~f.paste
    BY <1>5, FeedKey
  <2> HIDE DEF f, n
  <2>3. n.eof = FALSE /\ n.sent = Emit(m.sent, m.text) /\ n.text = <<>>
        /\ n = [text |-> n.text, sent |-> n.sent, eof |-> n.eof]
    BY <2>1
  <2> QED BY <1>1, <1>2, <1>3, <2>2, <2>3, SentText DEF f, n
<1>6. CASE key = "backspace"
  <2>1. n = IF e.buffer = <<>> THEN m
            ELSE [m EXCEPT !.text = IF Last(m.text) = "NL" THEN Front(m.text)
                                                           ELSE DropGrapheme(m.text)]
    BY <1>2, <1>6 DEF Means
  <2>2. /\ f.results = e.results /\ ~f.paste
        /\ f.buffer = IF e.buffer = <<>> THEN <<>>
                      ELSE IF Last(e.buffer) = "NL" THEN Front(e.buffer)
                           ELSE DropGrapheme(e.buffer)
    BY <1>6, FeedKey
  <2> HIDE DEF f, n
  <2>3. n.eof = FALSE /\ n.sent = m.sent /\ n.text = f.buffer
        /\ n = [text |-> n.text, sent |-> n.sent, eof |-> n.eof]
    BY <1>2, <2>1, <2>2
  <2> QED BY <1>2, <1>3, <2>2, <2>3 DEF f, n
<1>7. CASE key \notin {"enter", "ctrlD", "backspace"}
  <2>1. n = [m EXCEPT !.text = m.text \o Typed[key]]
    BY <1>2, <1>7 DEF Means
  <2>2. f.results = e.results /\ ~f.paste /\ f.buffer = e.buffer \o Typed[key]
    BY <1>7, FeedKey
  <2> HIDE DEF f, n
  <2>3. n.eof = FALSE /\ n.sent = m.sent /\ n.text = m.text \o Typed[key]
        /\ n = [text |-> n.text, sent |-> n.sent, eof |-> n.eof]
    BY <2>1
  <2> QED BY <1>2, <1>3, <2>2, <2>3 DEF f, n
<1> QED BY <1>4, <1>5, <1>6, <1>7

-----------------------------------------------------------------------------
(***************************************************************************)
(* The keys and the texts.  e is the editor, bytes what it has not read,   *)
(* handed what has been handed on, and over whether the reader is done;    *)
(* m is what the keys mean.                                                *)
(***************************************************************************)
IsMeaning(m) == m = [text |-> m.text, sent |-> m.sent, eof |-> m.eof] /\ m.eof \in BOOLEAN

Agree(e, bytes, handed, over, m) ==
  LET all == Feed(e, bytes)
  IN /\ ~over => Sent(handed, all.results) = m.sent /\ (HasEnd(all.results) <=> m.eof)
     /\ over => handed = m.sent /\ m.eof
     /\ ~m.eof => all.buffer = m.text /\ all.pending = <<>> /\ ~all.paste

LEMMA MeaningStays ==
  ASSUME NEW m, IsMeaning(m), NEW key
  PROVE  IsMeaning(Means(m, key))
<1>1. CASE m.eof
  BY <1>1 DEF Means
<1>2. CASE ~m.eof /\ key = "ctrlD" /\ m.text = <<>>
  BY <1>2 DEF Means, IsMeaning
<1>3. CASE ~m.eof /\ (key = "enter" \/ (key = "ctrlD" /\ m.text # <<>>))
  BY <1>3 DEF Means, IsMeaning
<1>4. CASE ~m.eof /\ key = "backspace"
  BY <1>4 DEF Means, IsMeaning
<1>5. CASE ~m.eof /\ key \notin {"ctrlD", "enter", "backspace"}
  BY <1>5 DEF Means, IsMeaning
<1> QED BY <1>1, <1>2, <1>3, <1>4, <1>5

\* A key is pressed.
LEMMA KeyAgrees ==
  ASSUME NEW e \in Editors, NEW bytes \in Seq(Byte), Whole(e.pending \o bytes),
         NEW handed, NEW over \in BOOLEAN, NEW m, IsMeaning(m),
         Agree(e, bytes, handed, over, m), NEW key \in DOMAIN KeyBytes
  PROVE  /\ Whole(e.pending \o (bytes \o KeyBytes[key]))
         /\ Agree(e, bytes \o KeyBytes[key], handed, over, Means(m, key))
<1> DEFINE p == e.pending
           b == KeyBytes[key]
           pb == p \o bytes
           all == Feed(e, bytes)
           more == Feed(e, bytes \o b)
<1>1. p \in Seq(Byte) /\ b \in Seq(Byte) /\ Whole(b) /\ m.eof \in BOOLEAN
  BY WholeKeys DEF Editors, IsMeaning
<1> HIDE DEF b
<1>2. Whole(p \o (bytes \o b)) /\ p \o (bytes \o b) \in Seq(Byte)
  <2> HIDE DEF p
  <2>1. p \o (bytes \o b) = (p \o bytes) \o b
    BY <1>1, ConcatThree
  <2>2. pb \in Seq(Byte) /\ Whole(pb)
    BY <1>1 DEF p
  <2> HIDE DEF pb
  <2>3. Whole(pb \o b) /\ pb \o b \in Seq(Byte)
    BY <1>1, <2>2, WholeConcat
  <2> QED BY <2>1, <2>3 DEF pb
<1>3. more = Feed(all, b)
  <2>1. ShortSequences(p \o (bytes \o b))
    BY <1>2, WholeIsShort
  <2> QED BY <1>1, <2>1, ChunksDoNotMatter
<1>4. all \in Editors /\ all.results \in Seq(Inputs)
  BY FeedIn DEF Editors
<1> HIDE DEF all, more
<1>5. CASE m.eof
  <2>1. Means(m, key) = m
    BY <1>5 DEF Means
  <2>2. CASE ~over
    <3>1. HasEnd(all.results) /\ Sent(handed, all.results) = m.sent
      BY <1>5, <2>2 DEF Agree, all
    <3>2. PICK rest \in Seq(Inputs) : more.results = all.results \o rest
      BY <1>1, <1>3, <1>4, FeedAppends
    <3>3. /\ Sent(handed, all.results \o rest) = Sent(handed, all.results)
          /\ HasEnd(all.results \o rest)
      BY <1>4, <3>1, SentAfterEnd
    <3> QED BY <1>2, <1>5, <2>1, <2>2, <3>1, <3>2, <3>3 DEF Agree, b, more
  <2>3. CASE over
    BY <1>2, <1>5, <2>1, <2>3 DEF Agree, b
  <2> QED BY <2>2, <2>3
<1>6. CASE ~m.eof
  <2>1. ~over
    BY <1>6 DEF Agree
  <2>2. /\ ~HasEnd(all.results) /\ Sent(handed, all.results) = m.sent
        /\ all.buffer = m.text /\ all.pending = <<>> /\ ~all.paste
    BY <1>6, <2>1 DEF Agree, all
  <2>3. m = [text |-> all.buffer, sent |-> Sent(handed, all.results), eof |-> FALSE]
    BY <1>1, <1>6, <2>2 DEF IsMeaning
  <2> DEFINE n == Means(m, key)
  <2>4. /\ Sent(handed, more.results) = n.sent
        /\ HasEnd(more.results) <=> n.eof
        /\ ~n.eof => more.buffer = n.text /\ more.pending = <<>> /\ ~more.paste
    BY <1>3, <1>4, <2>2, <2>3, KeyMeans DEF b
  <2> QED BY <1>2, <2>1, <2>4 DEF Agree, b, more
<1> QED BY <1>1, <1>5, <1>6

\* Some of the bytes are read.
LEMMA ChunkAgrees ==
  ASSUME NEW e \in Editors, NEW s \in Seq(Byte), NEW t \in Seq(Byte),
         Whole(e.pending \o (s \o t)), NEW handed, NEW over, NEW m,
         Agree(e, s \o t, handed, over, m)
  PROVE  /\ Whole(Feed(e, s).pending \o t)
         /\ Agree(Feed(e, s), t, handed, over, m)
<1> DEFINE p == e.pending
           f == Feed(e, s)
           ps == p \o s
<1>1. p \in Seq(Byte) /\ p \o (s \o t) \in Seq(Byte)
  BY DEF Editors
<1>2. Feed(f, t) = Feed(e, s \o t)
  <2>1. ShortSequences(p \o (s \o t))
    BY <1>1, WholeIsShort
  <2> QED BY <2>1, ChunksDoNotMatter
<1>3. Suffix(f.pending, ps)
  BY FeedIn
<1>4. p \o (s \o t) = ps \o t
  <2> HIDE DEF p
  <2> QED BY <1>1, ConcatThree
<1> HIDE DEF f, ps
<1>5. Suffix(f.pending \o t, ps \o t)
  BY <1>3, SuffixConcat
<1>6. Whole(f.pending \o t)
  BY <1>4, <1>5, WholeSuffix
<1> QED BY <1>2, <1>6 DEF Agree, f

\* The terminal hangs up when everything has been read.
LEMMA EndAgrees ==
  ASSUME NEW e \in Editors, Ready(e.pending) = 0, Whole(e.pending \o <<>>),
         NEW handed, NEW over \in BOOLEAN, ~over, NEW m, IsMeaning(m), ~m.eof,
         Agree(e, <<>>, handed, over, m)
  PROVE  /\ Finish(e, EndOfInput) \in Editors /\ Finish(e, EndOfInput).pending = e.pending
         /\ Agree(Finish(e, EndOfInput), <<>>, handed, over, [m EXCEPT !.eof = TRUE])
<1> DEFINE f == Finish(e, EndOfInput)
           n == [m EXCEPT !.eof = TRUE]
<1>1. EndOfInput \in Inputs /\ <<>> \in Seq(Byte) /\ <<>> \in Seq(Inputs)
  BY DEF Inputs
<1>2. f \in Editors /\ f.pending = e.pending
  BY <1>1, FinishFramed DEF Framed
<1>3. e.results \in Seq(Inputs) /\ f.results = Append(e.results, EndOfInput)
  BY DEF Editors, Finish
<1>4. Feed(e, <<>>) = e /\ Feed(f, <<>>) = f
  <2> HIDE DEF f
  <2> QED BY <1>2, FeedNothing
<1>5. ~HasEnd(e.results) /\ Sent(handed, e.results) = m.sent
  BY <1>4 DEF Agree
<1>6. HasEnd(f.results) /\ Sent(handed, f.results) = m.sent
  BY <1>3, <1>5, SentEnd
<1>7. n.eof = TRUE /\ n.sent = m.sent
  BY DEF IsMeaning
<1> HIDE DEF f, n
<1>8. Agree(f, <<>>, handed, over, n)
  BY <1>4, <1>6, <1>7 DEF Agree
<1> QED BY <1>2, <1>8 DEF f, n

\* The first finished input is taken.
LEMMA TakeAgrees ==
  ASSUME NEW e \in Editors, Ready(e.pending) = 0, e.results # <<>>, NEW bytes \in Seq(Byte),
         NEW handed, NEW m, IsMeaning(m), Agree(e, bytes, handed, FALSE, m)
  PROVE  LET f == [e EXCEPT !.results = Tail(@)]
             h == Head(e.results)
         IN /\ f \in Editors /\ f.pending = e.pending /\ h \in Inputs
            /\ h = EndOfInput => Agree(f, bytes, handed, TRUE, m)
            /\ h # EndOfInput => Agree(f, bytes, Emit(handed, h), FALSE, m)
<1> DEFINE rs == e.results
           h == Head(rs)
           rest == Tail(rs)
           f == [e EXCEPT !.results = rest]
           one == <<h>>
           all == Feed(e, bytes)
           later == Feed(f, bytes)
<1>1. /\ e \in Fields /\ e.screen = PutText(FreshScreen, e.buffer)
      /\ rs \in Seq(Inputs) /\ rs # <<>> /\ e.pending \in Seq(Byte)
  BY DEF Editors, Fields
<1>2. h \in Inputs /\ rest \in Seq(Inputs) /\ rs = <<h>> \o rest
  <2> HIDE DEF rs
  <2> QED BY <1>1
<1> HIDE DEF h, rest
<1>3. f \in Editors /\ f.pending = e.pending
  BY <1>1, <1>2 DEF Editors, Fields
<1>4. With(f, e.pending, one) = e
  BY <1>1, <1>2 DEF With, Fields
<1>5. one \in Seq(Inputs)
  BY <1>2
<1> HIDE DEF f, one
<1>6. later \in Editors /\ later.pending \in Seq(Byte) /\ later.results \in Seq(Inputs)
  BY <1>3, FeedIn DEF Editors
<1>7. all = With(later, later.pending, one)
  BY <1>3, <1>4, <1>5, FeedFramed
<1> HIDE DEF later, all
<1>8. /\ all.results = one \o later.results /\ all.buffer = later.buffer
      /\ all.pending = later.pending /\ all.paste = later.paste
  BY <1>5, <1>6, <1>7, WithIn
<1>9. /\ Sent(handed, all.results) = m.sent /\ (HasEnd(all.results) <=> m.eof)
      /\ ~m.eof => all.buffer = m.text /\ all.pending = <<>> /\ ~all.paste
  BY DEF Agree, all
<1>10. CASE h = EndOfInput
  <2>1. Sent(handed, all.results) = handed /\ HasEnd(all.results)
    BY <1>6, <1>8, <1>10, SentEndFirst DEF one
  <2>2. handed = m.sent /\ m.eof
    BY <1>9, <2>1
  <2>3. Agree(f, bytes, handed, TRUE, m)
    BY <2>2 DEF Agree
  <2> QED BY <1>2, <1>3, <1>10, <2>3 DEF f, h, rest
<1>11. CASE h # EndOfInput
  <2>1. h \in Seq(Character)
    BY <1>2, <1>11 DEF Inputs
  <2>2. /\ Sent(handed, all.results) = Sent(Emit(handed, h), later.results)
        /\ HasEnd(all.results) <=> HasEnd(later.results)
    <3> DEFINE others == later.results
    <3>1. others \in Seq(Inputs) /\ all.results = <<h>> \o others
      BY <1>6, <1>8 DEF one
    <3> HIDE DEF others
    <3>2. /\ Sent(handed, <<h>> \o others) = Sent(Emit(handed, h), others)
          /\ HasEnd(<<h>> \o others) <=> HasEnd(others)
      BY <2>1, <3>1, SentFirst
    <3> QED BY <3>1, <3>2 DEF others
  <2>3. Agree(f, bytes, Emit(handed, h), FALSE, m)
    BY <1>8, <1>9, <2>2 DEF Agree, later
  <2> QED BY <1>2, <1>3, <1>11, <2>3 DEF f, h, rest
<1> QED BY <1>10, <1>11
-----------------------------------------------------------------------------
(***************************************************************************)
(* Types.                                                                  *)
(***************************************************************************)
Texts == {t \in Seq(Character) : ~Blank(t)}

TypeInv ==
  /\ ed \in Editors /\ Ready(ed.pending) = 0
  /\ kernel \in Seq(Byte)
  /\ reader \in Reader
  /\ paused \in BOOLEAN /\ raw \in BOOLEAN /\ closed \in BOOLEAN
  /\ approving \in BOOLEAN /\ stopping \in BOOLEAN /\ taken \in BOOLEAN /\ mixed \in BOOLEAN
  /\ actions \in Seq(Texts)
  /\ IsMeaning(meant)

LEMMA StrippedIn ==
  ASSUME NEW text \in Seq(Character), ~Blank(text)
  PROVE  Stripped(text) \in Texts
<1> DEFINE kept == {i \in DOMAIN text : text[i] # "NL"}
           n == OnScreen!Max(kept)
           set == {0} \cup kept
           out == SubSeq(text, 1, n)
<1>1. DOMAIN text = 1..Len(text) /\ Len(text) \in Nat
  OBVIOUS
<1>2. kept \in SUBSET (1..Len(text)) /\ kept # {}
  BY <1>1 DEF Blank
<1>3. n \in kept /\ \A y \in kept : n >= y
  <2> HIDE DEF kept
  <2> QED BY <1>1, <1>2, OnScreen!MaxExists
<1> HIDE DEF n
<1>4. n \in 1..Len(text) /\ text[n] # "NL"
  BY <1>1, <1>3
<1>5. n \in set /\ set \in SUBSET Nat /\ \A y \in set : n >= y
  BY <1>1, <1>2, <1>3, <1>4
<1>6. Stripped(text) = SubSeq(text, 1, Max(set))
  BY DEF Stripped
<1> HIDE DEF set
<1>7. OnScreen!Max(set) = n
  BY <1>5, OnScreen!MaxIs
<1>8. Stripped(text) = out
  BY <1>6, <1>7 DEF Max, OnScreen!Max
<1>9. out \in Seq(Character) /\ n \in DOMAIN out /\ out[n] = text[n]
  BY <1>1, <1>4
<1>10. ~Blank(out)
  BY <1>4, <1>9 DEF Blank
<1> QED BY <1>8, <1>9, <1>10 DEF Texts

LEMMA EmitIn ==
  ASSUME NEW sent \in Seq(Texts), NEW text \in Seq(Character)
  PROVE  Emit(sent, text) \in Seq(Texts)
<1>1. CASE Blank(text)
  BY <1>1 DEF Emit
<1>2. CASE ~Blank(text)
  <2> DEFINE t == Stripped(text)
  <2>1. t \in Texts
    BY <1>2, StrippedIn
  <2>2. Emit(sent, text) = Append(sent, t)
    BY <1>2 DEF Emit
  <2> HIDE DEF t
  <2> QED BY <2>1, <2>2
<1> QED BY <1>1, <1>2

LEMMA NewEditorIn == NewEditor \in Editors /\ Ready(NewEditor.pending) = 0
<1>1. FreshScreen = PutText(FreshScreen, <<>>) /\ FreshScreen \in Screens
  BY FreshScreenIn, PutTextSteps
<1>2. <<>> \in Seq(Byte) /\ <<>> \in Seq(Character) /\ <<>> \in Seq(Inputs)
  OBVIOUS
<1> QED BY <1>1, <1>2 DEF NewEditor, Editors, Ready

LEMMA TypeInitially == Init => TypeInv
<1> SUFFICES ASSUME Init PROVE TypeInv
  OBVIOUS
<1>1. kernel = <<>> /\ actions = <<>> /\ <<>> \in Seq(Byte) /\ <<>> \in Seq(Texts)
  BY DEF Init
<1> QED BY <1>1, NewEditorIn DEF Init, TypeInv, Reader, IsMeaning

LEMMA TypeStep == TypeInv /\ [Next]_vars => TypeInv'
<1> SUFFICES ASSUME TypeInv, [Next]_vars PROVE TypeInv'
  OBVIOUS
<1> USE DEF TypeInv
<1>1. CASE PressKey
  <2>1. PICK key \in Keys : kernel' = kernel \o KeyBytes[key] /\ meant' = Means(meant, key)
    BY <1>1 DEF PressKey
  <2>2. key \in DOMAIN KeyBytes
    BY KeysAssumption
  <2> DEFINE b == KeyBytes[key]
  <2>3. b \in Seq(Byte)
    BY <2>2, WholeKeys
  <2> HIDE DEF b
  <2>4. kernel' \in Seq(Byte)
    BY <2>1, <2>3 DEF b
  <2>5. IsMeaning(meant')
    BY <2>1, MeaningStays
  <2> QED BY <1>1, <2>4, <2>5 DEF PressKey, IsMeaning
<1>2. CASE ReaderTakes
  <2>1. ed.results # <<>> /\ ed' = [ed EXCEPT !.results = Tail(@)] /\ kernel \in Seq(Byte)
    BY <1>2 DEF ReaderTakes
  <2>2. ed' \in Editors /\ ed'.pending = ed.pending /\ Head(ed.results) \in Inputs
    <3> DEFINE rs == ed.results
               rest == Tail(rs)
    <3>1. /\ ed \in Fields /\ ed.screen = PutText(FreshScreen, ed.buffer)
          /\ rs \in Seq(Inputs) /\ rs # <<>>
      BY <2>1 DEF Editors, Fields
    <3>2. Head(rs) \in Inputs /\ rest \in Seq(Inputs)
      <4> HIDE DEF rs
      <4> QED BY <3>1
    <3> HIDE DEF rest
    <3>3. ed' = [ed EXCEPT !.results = rest]
      BY <2>1 DEF rest
    <3> QED BY <3>1, <3>2, <3>3 DEF Editors, Fields
  <2>3. actions' \in Seq(Texts) /\ reader' \in Reader
    <3>1. CASE Head(ed.results) = EndOfInput
      BY <1>2, <3>1 DEF ReaderTakes, Reader
    <3>2. CASE Head(ed.results) # EndOfInput
      BY <1>2, <2>2, <3>2, EmitIn DEF ReaderTakes, Inputs
    <3> QED BY <3>1, <3>2
  <2> QED BY <1>2, <2>2, <2>3 DEF ReaderTakes, IsMeaning
<1>3. CASE ReaderWaits
  BY <1>3 DEF ReaderWaits, Reader
<1>4. CASE ReaderWakes
  BY <1>4 DEF ReaderWakes, Reader
<1>5. CASE ReadChunk
  <2>1. PICK n \in DOMAIN kernel :
          /\ ed' = Feed(ed, SubSeq(kernel, 1, n))
          /\ kernel' = SubSeq(kernel, n + 1, Len(kernel))
          /\ mixed' = (mixed /\ Feed(ed, SubSeq(kernel, 1, n)).results = <<>>)
    BY <1>5 DEF ReadChunk
  <2>2. n \in 0..Len(kernel)
    OBVIOUS
  <2> DEFINE s == SubSeq(kernel, 1, n)
             t == SubSeq(kernel, n + 1, Len(kernel))
  <2>3. s \in Seq(Byte) /\ t \in Seq(Byte)
    BY <2>2, Cut
  <2> HIDE DEF s, t
  <2>4. ed' \in Editors /\ Ready(ed'.pending) = 0
    BY <2>1, <2>3, FeedIn DEF s
  <2>5. kernel' \in Seq(Byte) /\ mixed' \in BOOLEAN
    BY <2>1, <2>3 DEF t
  <2> QED BY <1>5, <2>4, <2>5 DEF ReadChunk, Reader, IsMeaning
<1>6. CASE HangUp
  <2>1. ed' = Finish(ed, EndOfInput) /\ meant' = [meant EXCEPT !.eof = TRUE]
    BY <1>6 DEF HangUp, Finish
  <2>2. ed' \in Editors /\ ed'.pending = ed.pending
    <3>1. EndOfInput \in Inputs /\ <<>> \in Seq(Byte) /\ <<>> \in Seq(Inputs)
      BY DEF Inputs
    <3> QED BY <2>1, <3>1, FinishFramed DEF Framed
  <2>3. IsMeaning(meant')
    BY <2>1 DEF IsMeaning
  <2> QED BY <1>6, <2>2, <2>3 DEF HangUp, Reader, IsMeaning
<1>7. CASE ApprovalBegins
  BY <1>7 DEF ApprovalBegins, Pause, Reader
<1>8. CASE ApprovalReads
  <2>1. PICK n \in DOMAIN kernel : kernel' = SubSeq(kernel, n + 1, Len(kernel))
    BY <1>8 DEF ApprovalReads
  <2>2. n \in 0..Len(kernel)
    OBVIOUS
  <2>3. kernel' \in Seq(Byte)
    BY <2>1, <2>2, Cut
  <2> QED BY <1>8, <2>3 DEF ApprovalReads
<1>9. CASE ApprovalEnds
  BY <1>9 DEF ApprovalEnds, Resume, Reader
<1>10. CASE PrintAnswer
  BY <1>10 DEF PrintAnswer
<1>11. CASE Stop
  BY <1>11 DEF Stop, Reader
<1>12. CASE Close
  BY <1>12 DEF Close
<1>13. CASE UNCHANGED vars
  BY <1>13 DEF vars
<1> QED BY <1>1, <1>2, <1>3, <1>4, <1>5, <1>6, <1>7, <1>8, <1>9, <1>10, <1>11, <1>12, <1>13
        DEF Next, ReaderTask

LEMMA TypeHolds == Spec => []TypeInv
BY TypeInitially, TypeStep, PTL DEF Spec

-----------------------------------------------------------------------------
(***************************************************************************)
(* As long as the approval screen has read no bytes, the texts agree with  *)
(* the keys, and with the bytes that are not yet read they will.           *)
(***************************************************************************)
TextInv ==
  ~taken => /\ Whole(ed.pending \o kernel)
            /\ Agree(ed, kernel, actions, reader = "ended", meant)

LEMMA TextInitially == Init => TextInv
<1> SUFFICES ASSUME Init PROVE TextInv
  OBVIOUS
<1> DEFINE none == <<>>
<1>1. Feed(NewEditor, none) = NewEditor
  BY NewEditorIn, FeedNothing
<1>2. none \o none = none /\ none \in Seq(Inputs) /\ Len(none) = 0
  OBVIOUS
<1>3. /\ ed = NewEditor /\ kernel = none /\ actions = none /\ reader # "ended"
      /\ NewEditor.pending = none /\ NewEditor.buffer = none /\ NewEditor.results = none
      /\ NewEditor.paste = FALSE
      /\ meant.text = none /\ meant.sent = none /\ meant.eof = FALSE
  BY DEF Init, NewEditor
<1> HIDE DEF none
<1>4. ~HasEnd(none) /\ Whole(none)
  BY <1>2 DEF HasEnd, Whole
<1>5. Sent(none, none) = none
  <2>1. TextsOf(none) = none
    BY <1>2, <1>4, TextsWithoutEnd
  <2>2. OnSent!Folded(none, none) = none
    BY OnSent!FoldedEmpty DEF none
  <2> QED BY <2>1, <2>2, SentIsFold
<1> QED BY <1>1, <1>2, <1>3, <1>4, <1>5 DEF TextInv, Agree

LEMMA TextStep == TypeInv /\ TextInv /\ [Next]_vars => TextInv'
<1> SUFFICES ASSUME TypeInv, TextInv, [Next]_vars, ~taken' PROVE TextInv'
  BY DEF TextInv
<1>1. CASE PressKey
  <2>1. PICK key \in Keys : kernel' = kernel \o KeyBytes[key] /\ meant' = Means(meant, key)
    BY <1>1 DEF PressKey
  <2>2. UNCHANGED <<ed, reader, actions, taken>> /\ ~taken
    BY <1>1 DEF PressKey
  <2>3. key \in DOMAIN KeyBytes
    BY KeysAssumption
  <2>4. /\ Whole(ed.pending \o (kernel \o KeyBytes[key]))
        /\ Agree(ed, kernel \o KeyBytes[key], actions, reader = "ended", Means(meant, key))
    BY <2>2, <2>3, KeyAgrees DEF TypeInv, TextInv
  <2> QED BY <2>1, <2>2, <2>4 DEF TextInv
<1>2. CASE ReaderTakes
  <2>1. /\ reader = "top" /\ ed.results # <<>> /\ ed' = [ed EXCEPT !.results = Tail(@)]
        /\ UNCHANGED <<kernel, meant, taken>> /\ ~taken
    BY <1>2 DEF ReaderTakes
  <2>2. Agree(ed, kernel, actions, FALSE, meant)
    BY <2>1 DEF TextInv
  <2> DEFINE h == Head(ed.results)
             f == [ed EXCEPT !.results = Tail(@)]
  <2>3. /\ f.pending = ed.pending
        /\ h = EndOfInput => Agree(f, kernel, actions, TRUE, meant)
        /\ h # EndOfInput => Agree(f, kernel, Emit(actions, h), FALSE, meant)
    BY <2>1, <2>2, TakeAgrees DEF TypeInv
  <2>4. CASE h = EndOfInput
    <3>1. reader' = "ended" /\ actions' = actions
      BY <1>2, <2>4 DEF ReaderTakes
    <3> HIDE DEF f
    <3>2. ed' = f
      BY <2>1 DEF f
    <3> QED BY <2>1, <2>3, <2>4, <3>1, <3>2 DEF TextInv
  <2>5. CASE h # EndOfInput
    <3>1. reader' = "top" /\ actions' = Emit(actions, h)
      BY <1>2, <2>1, <2>5 DEF ReaderTakes
    <3> HIDE DEF f, h
    <3>2. ed' = f
      BY <2>1 DEF f
    <3> QED BY <2>1, <2>3, <2>5, <3>1, <3>2 DEF TextInv
  <2> QED BY <2>4, <2>5
<1>3. CASE ReaderWaits
  BY <1>3 DEF ReaderWaits, TextInv
<1>4. CASE ReaderWakes
  BY <1>4 DEF ReaderWakes, TextInv
<1>5. CASE ReadChunk
  <2>1. PICK n \in DOMAIN kernel :
          /\ ed' = Feed(ed, SubSeq(kernel, 1, n))
          /\ kernel' = SubSeq(kernel, n + 1, Len(kernel))
    BY <1>5 DEF ReadChunk
  <2>2. n \in 0..Len(kernel)
    BY DEF TypeInv
  <2> DEFINE s == SubSeq(kernel, 1, n)
             t == SubSeq(kernel, n + 1, Len(kernel))
  <2>3. s \in Seq(Byte) /\ t \in Seq(Byte) /\ s \o t = kernel
    BY <2>2, Cut DEF TypeInv
  <2> HIDE DEF s, t
  <2>4. /\ reader = "wait" /\ reader' = "woken" /\ UNCHANGED <<actions, meant, taken>> /\ ~taken
    BY <1>5 DEF ReadChunk
  <2>5. /\ Whole(Feed(ed, s).pending \o t)
        /\ Agree(Feed(ed, s), t, actions, FALSE, meant)
    BY <2>3, <2>4, ChunkAgrees DEF TypeInv, TextInv
  <2>6. ed' = Feed(ed, s) /\ kernel' = t
    BY <2>1 DEF s, t
  <2> QED BY <2>4, <2>5, <2>6 DEF TextInv
<1>6. CASE HangUp
  <2>1. /\ ed' = Finish(ed, EndOfInput) /\ meant' = [meant EXCEPT !.eof = TRUE]
        /\ reader = "wait" /\ reader' = "woken" /\ ~meant.eof
        /\ kernel = <<>> /\ UNCHANGED <<kernel, actions, taken>> /\ ~taken
    BY <1>6 DEF HangUp, Finish
  <2>2. Whole(ed.pending \o <<>>) /\ Agree(ed, <<>>, actions, FALSE, meant)
    BY <2>1 DEF TextInv
  <2>3. /\ Finish(ed, EndOfInput).pending = ed.pending
        /\ Agree(Finish(ed, EndOfInput), <<>>, actions, FALSE, [meant EXCEPT !.eof = TRUE])
    BY <2>1, <2>2, EndAgrees DEF TypeInv
  <2> QED BY <2>1, <2>2, <2>3 DEF TextInv
<1>7. CASE ApprovalBegins
  BY <1>7 DEF ApprovalBegins, Pause, TextInv
<1>8. CASE ApprovalReads
  BY <1>8 DEF ApprovalReads
<1>9. CASE ApprovalEnds
  BY <1>9 DEF ApprovalEnds, Resume, TextInv
<1>10. CASE PrintAnswer
  BY <1>10 DEF PrintAnswer, TextInv
<1>11. CASE Stop
  BY <1>11 DEF Stop, TextInv
<1>12. CASE Close
  BY <1>12 DEF Close, TextInv
<1>13. CASE UNCHANGED vars
  BY <1>13 DEF vars, TextInv
<1> QED BY <1>1, <1>2, <1>3, <1>4, <1>5, <1>6, <1>7, <1>8, <1>9, <1>10, <1>11, <1>12, <1>13
        DEF Next, ReaderTask

LEMMA TextHolds == Spec => []TextInv
BY TypeHolds, TextInitially, TextStep, PTL DEF Spec

-----------------------------------------------------------------------------
\* Every variable has its type: texts are made of decoded characters, a text
\* that is handed on is not blank, and what is pending is the beginning of one
\* character or sequence (TtyLineEditor._feed, _consume_utf8, _consume_escape,
\* InputReader.run).
THEOREM TypesAreKept == Spec => []TypeOK
<1>1. TypeInv => TypeOK
  <2> SUFFICES ASSUME TypeInv PROVE TypeOK
    OBVIOUS
  <2>1. /\ ed.buffer \in Seq(Character) /\ ed.paste \in BOOLEAN
        /\ ed.results \in Seq(Inputs) /\ ed.pending \in Seq(Byte)
    BY DEF TypeInv, Editors
  <2>2. \A t \in Seq(Character) : IsText(t)
    BY DEF IsText, ToSet
  <2>3. \A i \in DOMAIN ed.results : ed.results[i] = EndOfInput \/ IsText(ed.results[i])
    <3>1. \A i \in DOMAIN ed.results : ed.results[i] \in Inputs
      BY <2>1
    <3> QED BY <2>2, <3>1 DEF Inputs
  <2>4. ToSet(ed.pending) \cup ToSet(kernel) \subseteq Byte
    BY <2>1 DEF TypeInv, ToSet
  <2>5. \A i \in DOMAIN actions : IsText(actions[i]) /\ ~Blank(actions[i])
    <3>1. \A i \in DOMAIN actions : actions[i] \in Texts
      BY DEF TypeInv
    <3> QED BY <2>2, <3>1 DEF Texts
  <2> QED BY <2>1, <2>2, <2>3, <2>4, <2>5 DEF TypeInv, TypeOK, IsMeaning
<1> QED BY <1>1, TypeHolds, PTL

\* As long as the approval screen has taken no bytes away, the texts handed on
\* and the line being typed are what the keys pressed mean: wherever os.read
\* cuts the bytes, whatever keys they are, however wide the terminal, and
\* whenever the reader is paused, resumed or stopped (_feed, _consume_escape,
\* read_line, InputReader.run).
THEOREM KeysAreTexts == Spec => []KeysMeanText
<1>1. TextInv => KeysMeanText
  BY ResultsAreSent DEF TextInv, Agree, KeysMeanText
<1> QED BY <1>1, TextHolds, PTL

\* As long as no answer has been printed into the line, the screen shows the
\* text being typed as if it had been typed anew below the same row: after any
\* keys, on a terminal of any width (_line_layout, _backspace, _delete_newline).
THEOREM ScreenShowsBuffer == Spec => []ScreenIsBuffer
<1>1. TypeInv => ScreenIsBuffer
  BY DEF TypeInv, Editors, ScreenIsBuffer
<1> QED BY <1>1, TypeHolds, PTL
=============================================================================
