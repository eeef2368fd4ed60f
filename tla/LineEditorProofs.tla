--------------------------- MODULE LineEditorProofs ---------------------------
(***************************************************************************)
(* Proofs about LineEditor: what the screen shows, and what the bytes mean *)
(* however they are cut.                                                   *)
(***************************************************************************)
EXTENDS LineEditor, SequenceTheorems, TLAPS

(***************************************************************************)
(* Sequences.                                                              *)
(***************************************************************************)
LEMMA SameSequence ==
  ASSUME NEW E, NEW s \in Seq(E), NEW t \in Seq(E), Len(s) = Len(t),
         \A i \in 1..Len(s) : s[i] = t[i]
  PROVE  s = t
OBVIOUS

LEMMA AppendElements ==
  ASSUME NEW E, NEW s \in Seq(E), NEW c \in E
  PROVE  /\ Append(s, c) \in Seq(E) /\ Len(Append(s, c)) = Len(s) + 1
         /\ \A i \in 1..Len(s) : Append(s, c)[i] = s[i]
         /\ Append(s, c)[Len(s) + 1] = c
OBVIOUS

LEMMA ConcatElements ==
  ASSUME NEW E, NEW s \in Seq(E), NEW t \in Seq(E)
  PROVE  /\ s \o t \in Seq(E) /\ Len(s \o t) = Len(s) + Len(t)
         /\ \A i \in 1..Len(s) : (s \o t)[i] = s[i]
         /\ \A i \in 1..Len(t) : (s \o t)[Len(s) + i] = t[i]
OBVIOUS

LEMMA ConcatThree ==
  ASSUME NEW E, NEW s \in Seq(E), NEW t \in Seq(E), NEW u \in Seq(E)
  PROVE  s \o (t \o u) = (s \o t) \o u
OBVIOUS

LEMMA ThreeOrFour ==
  ASSUME NEW E, NEW p \in E, NEW q \in E, NEW r \in E, NEW t \in E
  PROVE  /\ <<p, q, r>> \in Seq(E) /\ Len(<<p, q, r>>) = 3
         /\ <<p, q, r>>[1] = p /\ <<p, q, r>>[2] = q /\ <<p, q, r>>[3] = r
         /\ <<p, q, r, t>> \in Seq(E) /\ Len(<<p, q, r, t>>) = 4
         /\ <<p, q, r, t>>[1] = p /\ <<p, q, r, t>>[2] = q
         /\ <<p, q, r, t>>[3] = r /\ <<p, q, r, t>>[4] = t
OBVIOUS

LEMMA TwoOnes ==
  ASSUME NEW E, NEW a \in E, NEW b \in E
  PROVE  <<a>> \in Seq(E) /\ <<b>> \in Seq(E) /\ <<a>> \o <<b>> = <<a, b>>
<1> DEFINE s == <<a>>
           t == <<b>>
           u == s \o t
           v == <<a, b>>
<1>1. s \in Seq(E) /\ Len(s) = 1 /\ s[1] = a
  OBVIOUS
<1>2. t \in Seq(E) /\ Len(t) = 1 /\ t[1] = b
  OBVIOUS
<1>3. v \in Seq(E) /\ Len(v) = 2 /\ v[1] = a /\ v[2] = b
  OBVIOUS
<1> HIDE DEF s, t, v
<1>4. /\ u \in Seq(E) /\ Len(u) = Len(s) + Len(t)
      /\ \A i \in 1..Len(s) : u[i] = s[i]
      /\ \A i \in 1..Len(t) : u[Len(s) + i] = t[i]
  <2>1. s \in Seq(E) /\ t \in Seq(E)
    BY <1>1, <1>2
  <2> QED BY <2>1, ConcatElements
<1> HIDE DEF u
<1>5. Len(u) = 2 /\ u[1] = a /\ u[2] = b
  BY <1>1, <1>2, <1>4
<1>6. u = v
  <2>1. \A i \in 1..Len(u) : u[i] = v[i]
    BY <1>3, <1>5
  <2> QED BY <1>3, <1>4, <1>5, <2>1, SameSequence
<1> QED BY <1>1, <1>2, <1>6 DEF s, t, u, v

LEMMA ReplaceLast ==
  ASSUME NEW E, NEW s \in Seq(E), NEW c \in E, NEW d \in E
  PROVE  [Append(s, c) EXCEPT ![Len(s) + 1] = d] = Append(s, d)
<1> DEFINE n == Len(s) + 1
           old == Append(s, c)
           a == [old EXCEPT ![n] = d]
           b == Append(s, d)
<1>1. /\ old \in Seq(E) /\ Len(old) = n /\ b \in Seq(E) /\ Len(b) = n /\ n \in 1..n
      /\ \A i \in 1..Len(s) : old[i] = s[i] /\ b[i] = s[i]
      /\ b[n] = d
  BY AppendElements
<1> HIDE DEF old, b
<1>2. a \in Seq(E) /\ Len(a) = n /\ \A i \in 1..n : a[i] = IF i = n THEN d ELSE old[i]
  BY <1>1
<1>3. \A i \in 1..n : i = n \/ i \in 1..Len(s)
  OBVIOUS
<1> HIDE DEF a, n
<1>4. \A i \in 1..n : a[i] = b[i]
  BY <1>1, <1>2, <1>3
<1>5. a = b
  BY <1>1, <1>2, <1>4, SameSequence
<1> QED BY <1>5 DEF a, b, old, n

LEMMA FirstElement ==
  ASSUME NEW E, NEW s \in Seq(E), Len(s) >= 1
  PROVE  SubSeq(s, 1, 1) = <<s[1]>>
<1> DEFINE a == SubSeq(s, 1, 1)
           b == <<s[1]>>
<1>1. a \in Seq(E) /\ Len(a) = 1 /\ a[1] = s[1]
  OBVIOUS
<1>2. s[1] \in E
  OBVIOUS
<1>3. b \in Seq(E) /\ Len(b) = 1 /\ b[1] = s[1]
  BY <1>2
<1> HIDE DEF a, b
<1>4. a = b
  BY <1>1, <1>3, SameSequence
<1> QED BY <1>4 DEF a, b

LEMMA FirstTwoElements ==
  ASSUME NEW E, NEW s \in Seq(E), Len(s) >= 2
  PROVE  SubSeq(s, 1, 2) = <<s[1], s[2]>>
<1> DEFINE a == SubSeq(s, 1, 2)
           b == <<s[1], s[2]>>
<1>1. a \in Seq(E) /\ Len(a) = 2 /\ a[1] = s[1] /\ a[2] = s[2]
  OBVIOUS
<1>2. s[1] \in E /\ s[2] \in E
  OBVIOUS
<1>3. b \in Seq(E) /\ Len(b) = 2 /\ b[1] = s[1] /\ b[2] = s[2]
  BY <1>2
<1> HIDE DEF a, b
<1>4. \A i \in 1..2 : a[i] = b[i]
  BY <1>1, <1>3
<1>5. a = b
  BY <1>1, <1>3, <1>4, SameSequence
<1> QED BY <1>5 DEF a, b

\* A sequence is its first elements and the rest.
LEMMA Cut ==
  ASSUME NEW E, NEW s \in Seq(E), NEW n \in 0..Len(s)
  PROVE  /\ SubSeq(s, 1, n) \in Seq(E) /\ SubSeq(s, n + 1, Len(s)) \in Seq(E)
         /\ Len(SubSeq(s, 1, n)) = n /\ Len(SubSeq(s, n + 1, Len(s))) = Len(s) - n
         /\ SubSeq(s, 1, n) \o SubSeq(s, n + 1, Len(s)) = s
<1> DEFINE a == SubSeq(s, 1, n)
           b == SubSeq(s, n + 1, Len(s))
           c == a \o b
<1>1. /\ a \in Seq(E) /\ Len(a) = n /\ \A i \in 1..n : a[i] = s[i]
      /\ b \in Seq(E) /\ Len(b) = Len(s) - n /\ \A i \in 1..(Len(s) - n) : b[i] = s[n + i]
  OBVIOUS
<1> HIDE DEF a, b
<1>2. /\ c \in Seq(E) /\ Len(c) = Len(s)
      /\ \A i \in 1..n : c[i] = a[i]
      /\ \A i \in 1..(Len(s) - n) : c[n + i] = b[i]
  BY <1>1
<1> HIDE DEF c
<1>3. ASSUME NEW i \in 1..Len(s) PROVE c[i] = s[i]
  <2>1. CASE i <= n
    <3>1. i \in 1..n
      BY <2>1
    <3> QED BY <1>1, <1>2, <3>1
  <2>2. CASE i > n
    <3>1. i - n \in 1..(Len(s) - n) /\ n + (i - n) = i
      BY <2>2
    <3>2. c[n + (i - n)] = b[i - n] /\ b[i - n] = s[n + (i - n)]
      BY <1>1, <1>2, <3>1
    <3> QED BY <3>1, <3>2
  <2> QED BY <2>1, <2>2
<1>4. c = s
  BY <1>2, <1>3, SameSequence
<1> QED BY <1>1, <1>4 DEF a, b, c

\* Two parts of which the first is as long as n are the parts at n.
LEMMA CutAt ==
  ASSUME NEW E, NEW a \in Seq(E), NEW b \in Seq(E)
  PROVE  /\ SubSeq(a \o b, 1, Len(a)) = a
         /\ SubSeq(a \o b, Len(a) + 1, Len(a \o b)) = b
<1> DEFINE c == a \o b
           n == Len(a)
           a1 == SubSeq(c, 1, n)
           b1 == SubSeq(c, n + 1, Len(c))
<1>1. /\ c \in Seq(E) /\ n \in Nat /\ Len(c) = n + Len(b) /\ Len(b) \in Nat
      /\ \A i \in 1..n : c[i] = a[i]
      /\ \A i \in 1..Len(b) : c[n + i] = b[i]
  OBVIOUS
<1> HIDE DEF c, n
<1>2. a1 \in Seq(E) /\ Len(a1) = n /\ \A i \in 1..n : a1[i] = c[i]
  BY <1>1
<1>3. b1 \in Seq(E) /\ Len(b1) = Len(b) /\ \A i \in 1..Len(b) : b1[i] = c[n + i]
  BY <1>1
<1> HIDE DEF a1, b1
<1>4. a1 = a
  BY <1>1, <1>2, SameSequence DEF n
<1>5. b1 = b
  BY <1>1, <1>3, SameSequence
<1> QED BY <1>4, <1>5 DEF a1, b1, c, n

\* What comes after a sequence does not change where it is cut.
LEMMA CutConcat ==
  ASSUME NEW E, NEW s \in Seq(E), NEW t \in Seq(E), NEW n \in 0..Len(s)
  PROVE  /\ SubSeq(s \o t, 1, n) = SubSeq(s, 1, n)
         /\ SubSeq(s \o t, n + 1, Len(s \o t)) = SubSeq(s, n + 1, Len(s)) \o t
<1> DEFINE a == SubSeq(s, 1, n)
           b == SubSeq(s, n + 1, Len(s))
<1>1. a \in Seq(E) /\ b \in Seq(E)
  BY Cut
<1>2. Len(a) = n /\ a \o b = s
  BY Cut
<1> HIDE DEF a, b
<1> DEFINE bt == b \o t
<1>3. (a \o b) \o t = a \o bt /\ bt \in Seq(E)
  BY <1>1
<1> HIDE DEF bt
<1>4. SubSeq(a \o bt, 1, Len(a)) = a /\ SubSeq(a \o bt, Len(a) + 1, Len(a \o bt)) = bt
  BY <1>1, <1>3, CutAt
<1> QED BY <1>2, <1>3, <1>4 DEF a, b, bt

LEMMA FrontAndLast ==
  ASSUME NEW E, NEW s \in Seq(E), s # <<>>, NEW t \in Seq(E), Len(t) = Len(s) - 1,
         \A i \in 1..(Len(s) - 1) : t[i] = s[i]
  PROVE  Append(t, s[Len(s)]) = s
<1> DEFINE n == Len(s)
           b == Append(t, s[n])
<1>1. n \in Nat /\ n >= 1 /\ s[n] \in E /\ Len(t) + 1 = n
  OBVIOUS
<1>2. /\ b \in Seq(E) /\ Len(b) = n /\ b[n] = s[n] /\ \A i \in 1..Len(t) : b[i] = t[i]
  BY <1>1, AppendElements
<1>3. \A i \in 1..n : i = n \/ i \in 1..(n - 1)
  BY <1>1
<1> HIDE DEF b
<1>4. \A i \in 1..n : b[i] = s[i]
  BY <1>1, <1>2, <1>3
<1>5. b = s
  BY <1>2, <1>4, SameSequence
<1> QED BY <1>5 DEF b

(***************************************************************************)
(* The folds of the editor.                                                *)
(***************************************************************************)
AddToGraphemes(gs, c) ==
  IF Cells(c) = 0 /\ gs # <<>> THEN [gs EXCEPT ![Len(gs)] = Append(@, c)]
                               ELSE Append(gs, <<c>>)

Advance(at, g) ==
  LET width == Cells(g[1])
  IN IF at.col + width <= Width THEN [at EXCEPT !.col = @ + width]
                                ELSE [row |-> at.row + 1, col |-> width]

NextUnit(e, byte) == ConsumeNext(e)

OnScreen == INSTANCE SequenceFolds WITH Step <- PutChar
OnGraphemes == INSTANCE SequenceFolds WITH Step <- AddToGraphemes
OnLayout == INSTANCE SequenceFolds WITH Step <- Advance
OnUnits == INSTANCE SequenceFolds WITH Step <- NextUnit

LEMMA PutTextIsFold == \A s, text : PutText(s, text) = OnScreen!Folded(s, text)
BY DEF PutText, FoldLeft, MapThenFoldSet, Max, OnScreen!Folded, OnScreen!FoldLeft,
       OnScreen!MapThenFoldSet, OnScreen!Max

LEMMA GraphemesIsFold == \A line : Graphemes(line) = OnGraphemes!Folded(<<>>, line)
BY DEF Graphemes, AddToGraphemes, FoldLeft, MapThenFoldSet, Max, OnGraphemes!Folded,
       OnGraphemes!FoldLeft, OnGraphemes!MapThenFoldSet, OnGraphemes!Max

Origin == [row |-> 0, col |-> 0]

LEMMA LayoutIsFold == \A line : LineLayout(line) = OnLayout!Folded(Origin, Graphemes(line))
BY DEF LineLayout, Origin, Advance, FoldLeft, MapThenFoldSet, Max, OnLayout!Folded,
       OnLayout!FoldLeft, OnLayout!MapThenFoldSet, OnLayout!Max

LEMMA DrainIsFold == \A e : Drain(e) = OnUnits!Folded(e, e.pending)
BY DEF Drain, NextUnit, FoldLeft, MapThenFoldSet, Max, OnUnits!Folded,
       OnUnits!FoldLeft, OnUnits!MapThenFoldSet, OnUnits!Max

-----------------------------------------------------------------------------
(***************************************************************************)
(* The screen.  The cursor rests at the end of the last row.               *)
(***************************************************************************)
Cell == Seq(Character \cup {"#"})

Screens == {s \in [rows : Seq(Seq(Cell)), row : Nat, col : Nat] :
              /\ s.row = Len(s.rows) /\ s.row >= 2
              /\ s.col = Len(s.rows[s.row])}

\* The rows above the row r are the same on both.
SameAbove(r, s, t) == \A i \in 1..(r - 1) : s.rows[i] = t.rows[i]

LEMMA CellsOfCharacter ==
  \A c \in Character : /\ Cells(c) \in 0..2
                       /\ Cells(c) = 2 <=> c = "W"
                       /\ Cells(c) = 0 <=> c \in {"m", "BS", "EOT"}
BY DEF Cells, Character

LEMMA ScreenIn ==
  ASSUME NEW rows \in Seq(Seq(Cell)), Len(rows) >= 2
  PROVE  [rows |-> rows, row |-> Len(rows), col |-> Len(rows[Len(rows)])] \in Screens
<1>1. Len(rows) \in Nat /\ rows[Len(rows)] \in Seq(Cell)
  OBVIOUS
<1>2. Len(rows[Len(rows)]) \in Nat
  BY <1>1
<1> QED BY <1>1, <1>2 DEF Screens

LEMMA FreshScreenIn == FreshScreen \in Screens
<1>1. <<"#">> \in Cell /\ <<>> \in Seq(Cell)
  BY DEF Cell
<1>2. <<<<"#">>>> \in Seq(Cell)
  BY <1>1
<1> DEFINE rows == <<<<<<"#">>>>, <<>>>>
<1>3. rows \in Seq(Seq(Cell)) /\ Len(rows) = 2 /\ rows[2] = <<>>
  BY <1>1, <1>2
<1>4. Len(<<>>) = 0
  OBVIOUS
<1>5. FreshScreen = [rows |-> rows, row |-> 2, col |-> 0]
  BY DEF FreshScreen
<1>6. FreshScreen = [rows |-> rows, row |-> Len(rows), col |-> Len(rows[Len(rows)])]
  BY <1>3, <1>4, <1>5
<1> HIDE DEF rows
<1>7. Len(rows) >= 2
  BY <1>3
<1> QED BY <1>3, <1>6, <1>7, ScreenIn

\* A new row is below all others and empty.
LEMMA NewRowAdds ==
  ASSUME NEW s \in Screens
  PROVE  /\ NewRow(s) \in Screens
         /\ NewRow(s).row = s.row + 1 /\ NewRow(s).col = 0
         /\ NewRow(s).rows = Append(s.rows, <<>>)
<1>1. s.rows \in Seq(Seq(Cell)) /\ s.row \in Nat /\ s.row = Len(s.rows) /\ s.row >= 2
  BY DEF Screens
<1> DEFINE rows == Append(s.rows, <<>>)
<1>2. NewRow(s) = [rows |-> rows, row |-> s.row + 1, col |-> 0]
  BY <1>1 DEF NewRow
<1>3. <<>> \in Seq(Cell)
  OBVIOUS
<1>4. rows \in Seq(Seq(Cell)) /\ Len(rows) = s.row + 1 /\ rows[s.row + 1] = <<>>
  BY <1>1, <1>3
<1> HIDE DEF rows
<1>5. NewRow(s) \in Screens
  <2>1. Len(<<>>) = 0 /\ s.row + 1 >= 2
    BY <1>1
  <2> QED BY <1>2, <1>4, <2>1, ScreenIn
<1> QED BY <1>2, <1>5 DEF rows

\* What is put at the end of the row makes it longer by its width.
LEMMA PutAtAdds ==
  ASSUME NEW s \in Screens, NEW c \in Character, Cells(c) # 0
  PROVE  /\ PutAt(s, c) \in Screens
         /\ PutAt(s, c).row = s.row /\ PutAt(s, c).col = s.col + Cells(c)
         /\ SameAbove(s.row, PutAt(s, c), s)
<1>1. /\ s \in [rows : Seq(Seq(Cell)), row : Nat, col : Nat]
      /\ s.row = Len(s.rows) /\ s.row >= 2 /\ s.col = Len(s.rows[s.row])
  BY DEF Screens
<1> DEFINE old == s.rows[s.row]
           new == IF c = "W" THEN <<<<c>>, <<>>>> ELSE <<<<c>>>>
           row == SubSeq(old, 1, s.col) \o new \o SubSeq(old, s.col + Cells(c) + 1, Len(old))
<1>2. old \in Seq(Cell) /\ s.col = Len(old)
  BY <1>1
<1>3. new \in Seq(Cell) /\ Len(new) = Cells(c)
  <2>1. <<c>> \in Cell /\ <<>> \in Cell
    BY DEF Cell
  <2>2. CASE c = "W"
    BY <2>1, <2>2, CellsOfCharacter
  <2>3. CASE c # "W"
    <3>1. Cells(c) = 1
      BY <2>3, CellsOfCharacter
    <3> QED BY <2>1, <2>3, <3>1
  <2> QED BY <2>2, <2>3
<1>4. row \in Seq(Cell) /\ Len(row) = s.col + Cells(c)
  <2> HIDE DEF old, new
  <2>1. Cells(c) \in Nat
    BY CellsOfCharacter
  <2>2. SubSeq(old, 1, s.col) = old
    BY <1>2
  <2>3. SubSeq(old, s.col + Cells(c) + 1, Len(old)) = <<>>
    BY <1>2, <2>1
  <2> QED BY <1>2, <1>3, <2>2, <2>3
<1>5. PutAt(s, c) = [s EXCEPT !.rows[s.row] = row, !.col = @ + Cells(c)]
  BY DEF PutAt
<1> HIDE DEF row
<1>6. /\ PutAt(s, c) = [rows |-> [s.rows EXCEPT ![s.row] = row], row |-> s.row,
                        col |-> s.col + Cells(c)]
  BY <1>1, <1>5
<1> DEFINE rows == [s.rows EXCEPT ![s.row] = row]
<1>7. /\ rows \in Seq(Seq(Cell)) /\ Len(rows) = s.row /\ rows[s.row] = row
      /\ \A i \in 1..(s.row - 1) : rows[i] = s.rows[i]
  BY <1>1, <1>4
<1> HIDE DEF rows
<1>8. PutAt(s, c) = [rows |-> rows, row |-> s.row, col |-> s.col + Cells(c)]
  BY <1>6 DEF rows
<1>9. s.col + Cells(c) \in Nat
  BY <1>1, CellsOfCharacter
<1> QED BY <1>1, <1>4, <1>7, <1>8, <1>9 DEF Screens, SameAbove

\* A combining character joins the cell before the cursor, if there is one.
LEMMA MarkJoins ==
  ASSUME NEW s \in Screens
  PROVE  /\ PutChar(s, "m") \in Screens
         /\ PutChar(s, "m").row = s.row /\ PutChar(s, "m").col = s.col
         /\ SameAbove(s.row, PutChar(s, "m"), s)
<1>1. /\ s \in [rows : Seq(Seq(Cell)), row : Nat, col : Nat]
      /\ s.row = Len(s.rows) /\ s.row >= 2 /\ s.col = Len(s.rows[s.row])
  BY DEF Screens
<1>2. CASE s.col = 0
  BY <1>2 DEF PutChar, SameAbove
<1>3. CASE s.col # 0
  <2> DEFINE old == s.rows[s.row]
             cell == Append(old[s.col], "m")
             row == [old EXCEPT ![s.col] = cell]
             rows == [s.rows EXCEPT ![s.row] = row]
  <2>1. old \in Seq(Cell) /\ s.col \in 1..Len(old)
    BY <1>1, <1>3
  <2>2. cell \in Cell
    <3>1. old[s.col] \in Cell /\ "m" \in Character \cup {"#"}
      BY <2>1 DEF Character, Printable, Ascii
    <3> QED BY <3>1 DEF Cell
  <2>3. row \in Seq(Cell) /\ Len(row) = s.col
    BY <1>1, <2>1, <2>2
  <2>4. PutChar(s, "m") = [rows |-> rows, row |-> s.row, col |-> s.col]
    <3>1. PutChar(s, "m") = [s EXCEPT !.rows[s.row][s.col] = cell]
      BY <1>3 DEF PutChar
    <3>2. @ = [s EXCEPT !.rows = rows]
      BY <1>1, <2>1
    <3> QED BY <1>1, <3>1, <3>2
  <2> HIDE DEF row
  <2>5. /\ rows \in Seq(Seq(Cell)) /\ Len(rows) = s.row /\ rows[s.row] = row
        /\ \A i \in 1..(s.row - 1) : rows[i] = s.rows[i]
    BY <1>1, <2>3
  <2> HIDE DEF rows
  <2> QED BY <1>1, <2>3, <2>4, <2>5 DEF Screens, SameAbove
<1> QED BY <1>2, <1>3

\* What one character does to the screen and to the cursor.
LEMMA PutCharMoves ==
  ASSUME NEW s \in Screens, NEW c \in Character
  PROVE  /\ PutChar(s, c) \in Screens
         /\ SameAbove(s.row, PutChar(s, c), s)
         /\ c = "NL" => PutChar(s, c) = NewRow(s)
         /\ Cells(c) = 0 => PutChar(s, c).row = s.row /\ PutChar(s, c).col = s.col
         /\ c # "NL" /\ Cells(c) # 0 =>
              IF s.col + Cells(c) <= Width
                THEN PutChar(s, c).row = s.row /\ PutChar(s, c).col = s.col + Cells(c)
                ELSE PutChar(s, c).row = s.row + 1 /\ PutChar(s, c).col = Cells(c)
<1>1. s.row \in Nat /\ s.col \in Nat /\ s.rows \in Seq(Seq(Cell)) /\ s.row = Len(s.rows)
  BY DEF Screens
<1>2. SameAbove(s.row, NewRow(s), s) /\ NewRow(s).row = s.row + 1 /\ NewRow(s).col = 0
      /\ NewRow(s) \in Screens
  <2>1. <<>> \in Seq(Cell)
    OBVIOUS
  <2>2. \A i \in 1..(s.row - 1) : Append(s.rows, <<>>)[i] = s.rows[i]
    BY <1>1, <2>1
  <2> QED BY <2>2, NewRowAdds DEF SameAbove
<1>3. CASE c = "NL"
  BY <1>2, <1>3 DEF PutChar, Cells
<1>4. CASE c = "m"
  BY <1>4, MarkJoins DEF Cells
<1>5. CASE c \in {"BS", "EOT"}
  <2>1. PutChar(s, c) = s
    BY <1>5 DEF PutChar
  <2> QED BY <1>5, <2>1 DEF SameAbove, Cells
<1>6. CASE c # "NL" /\ Cells(c) # 0
  <2>1. Cells(c) \in 1..2 /\ c # "m" /\ c \notin {"BS", "EOT"}
    BY <1>6, CellsOfCharacter
  <2>2. CASE s.col + Cells(c) <= Width
    <3>1. PutChar(s, c) = PutAt(s, c)
      BY <1>1, <1>6, <2>1, <2>2, WidthAssumption DEF PutChar
    <3> QED BY <1>6, <2>2, <3>1, PutAtAdds
  <2>3. CASE ~(s.col + Cells(c) <= Width)
    <3>1. PutChar(s, c) = PutAt(NewRow(s), c)
      BY <1>1, <1>6, <2>1, <2>3, WidthAssumption DEF PutChar
    <3> DEFINE t == NewRow(s)
    <3>2. t \in Screens /\ t.row = s.row + 1 /\ t.col = 0 /\ SameAbove(s.row, t, s)
      BY <1>2
    <3> HIDE DEF t
    <3>3. /\ PutAt(t, c) \in Screens /\ PutAt(t, c).row = s.row + 1
          /\ PutAt(t, c).col = Cells(c) /\ SameAbove(t.row, PutAt(t, c), t)
      BY <1>6, <2>1, <3>2, PutAtAdds
    <3>4. SameAbove(s.row, PutAt(t, c), s)
      BY <1>1, <3>2, <3>3 DEF SameAbove
    <3> QED BY <1>6, <2>3, <3>1, <3>3, <3>4 DEF t
  <2> QED BY <2>2, <2>3
<1>7. Cells(c) = 0 => c \in {"m", "BS", "EOT"}
  BY CellsOfCharacter
<1> QED BY <1>3, <1>4, <1>5, <1>6, <1>7

\* What a text does to the screen, character after character.
LEMMA PutTextSteps ==
  /\ \A s : PutText(s, <<>>) = s
  /\ \A s : \A t \in Seq(Character) : \A c \in Character :
       PutText(s, Append(t, c)) = PutChar(PutText(s, t), c)
  /\ \A s : \A t, u \in Seq(Character) : PutText(s, t \o u) = PutText(PutText(s, t), u)
  /\ \A s \in Screens : \A t \in Seq(Character) : PutText(s, t) \in Screens
<1>1. \A s : PutText(s, <<>>) = s
  BY PutTextIsFold, OnScreen!FoldedEmpty
<1>2. ASSUME NEW s, NEW t \in Seq(Character), NEW c \in Character
      PROVE  PutText(s, Append(t, c)) = PutChar(PutText(s, t), c)
  <2>1. OnScreen!Folded(s, Append(t, c)) = PutChar(OnScreen!Folded(s, t), c)
    BY OnScreen!FoldedAppend
  <2> QED BY <2>1, PutTextIsFold, Zenon
<1>3. ASSUME NEW s, NEW t \in Seq(Character), NEW u \in Seq(Character)
      PROVE  PutText(s, t \o u) = PutText(PutText(s, t), u)
  <2>1. OnScreen!Folded(s, t \o u) = OnScreen!Folded(OnScreen!Folded(s, t), u)
    BY OnScreen!FoldedConcat
  <2> QED BY <2>1, PutTextIsFold, Zenon
<1>4. ASSUME NEW s \in Screens, NEW t \in Seq(Character)
      PROVE  PutText(s, t) \in Screens
  <2>1. \A x \in Screens : \A c \in Character : PutChar(x, c) \in Screens
    BY PutCharMoves
  <2>2. OnScreen!Folded(s, t) \in Screens
    BY <2>1, OnScreen!FoldedIn
  <2> QED BY <2>2, PutTextIsFold
<1> QED BY <1>1, <1>2, <1>3, <1>4

-----------------------------------------------------------------------------
(***************************************************************************)
(* Graphemes, and the place of the cursor that _line_layout computes.      *)
(***************************************************************************)
Grapheme == Seq(Character) \ {<<>>}

LEMMA GraphemesSteps ==
  /\ Graphemes(<<>>) = <<>>
  /\ \A t \in Seq(Character) : \A c \in Character :
       Graphemes(Append(t, c)) = AddToGraphemes(Graphemes(t), c)
<1>1. Graphemes(<<>>) = <<>>
  BY GraphemesIsFold, OnGraphemes!FoldedEmpty
<1>2. ASSUME NEW t \in Seq(Character), NEW c \in Character
      PROVE  Graphemes(Append(t, c)) = AddToGraphemes(Graphemes(t), c)
  <2>1. OnGraphemes!Folded(<<>>, Append(t, c)) = AddToGraphemes(OnGraphemes!Folded(<<>>, t), c)
    BY OnGraphemes!FoldedAppend
  <2> QED BY <2>1, GraphemesIsFold, Zenon
<1> QED BY <1>1, <1>2

\* One more character makes one more grapheme, or makes the last one longer.
LEMMA AddToGraphemesAdds ==
  ASSUME NEW gs \in Seq(Grapheme), NEW c \in Character
  PROVE  /\ AddToGraphemes(gs, c) \in Seq(Grapheme)
         /\ AddToGraphemes(gs, c) # <<>>
         /\ Cells(c) # 0 \/ gs = <<>> => Last(AddToGraphemes(gs, c)) = <<c>>
         /\ Cells(c) = 0 /\ gs # <<>> =>
              Len(Last(AddToGraphemes(gs, c))) = Len(Last(gs)) + 1
<1>1. CASE Cells(c) = 0 /\ gs # <<>>
  <2> DEFINE n == Len(gs)
             g == Append(gs[n], c)
             new == [gs EXCEPT ![n] = g]
  <2>1. AddToGraphemes(gs, c) = new
    BY <1>1 DEF AddToGraphemes
  <2>2. n \in 1..Len(gs) /\ gs[n] \in Grapheme
    BY <1>1
  <2>3. g \in Grapheme /\ Len(g) = Len(gs[n]) + 1
    BY <2>2 DEF Grapheme
  <2>4. new \in Seq(Grapheme) /\ Len(new) = n /\ new[n] = g
    <3> HIDE DEF g
    <3> QED BY <2>2, <2>3
  <2> HIDE DEF g
  <2>5. new # <<>>
    BY <2>2, <2>4
  <2> QED BY <1>1, <2>1, <2>3, <2>4, <2>5 DEF Last
<1>2. CASE ~(Cells(c) = 0 /\ gs # <<>>)
  <2>1. AddToGraphemes(gs, c) = Append(gs, <<c>>)
    BY <1>2 DEF AddToGraphemes
  <2>2. <<c>> \in Grapheme
    BY DEF Grapheme
  <2> DEFINE one == <<c>>
             new == Append(gs, one)
  <2>3. new \in Seq(Grapheme) /\ Len(new) = Len(gs) + 1 /\ new[Len(gs) + 1] = one
    <3> HIDE DEF one
    <3> QED BY <2>2 DEF one
  <2> HIDE DEF one
  <2>4. new # <<>>
    BY <2>3
  <2>5. Last(new) = one
    BY <2>3 DEF Last
  <2> QED BY <1>2, <2>1, <2>3, <2>4, <2>5 DEF one
<1> QED BY <1>1, <1>2

\* A line that is not empty ends with a grapheme that is not empty and no
\* longer than the line.
LEMMA GraphemesOfText ==
  \A t \in Seq(Character) :
    /\ Graphemes(t) \in Seq(Grapheme)
    /\ t # <<>> => /\ Graphemes(t) # <<>>
                   /\ Len(Last(Graphemes(t))) \in 1..Len(t)
<1> DEFINE Good(t) == /\ Graphemes(t) \in Seq(Grapheme)
                      /\ t # <<>> => /\ Graphemes(t) # <<>>
                                     /\ Len(Last(Graphemes(t))) \in 1..Len(t)
           S == {t \in Seq(Character) : Good(t)}
<1>1. <<>> \in S
  <2> DEFINE none == <<>>
  <2>1. none \in Seq(Character) /\ none \in Seq(Grapheme)
    OBVIOUS
  <2>2. Graphemes(none) = none
    BY GraphemesSteps
  <2>3. Good(none)
    BY <2>1, <2>2
  <2> HIDE DEF Good
  <2> QED BY <2>1, <2>3
<1>2. ASSUME NEW t \in Seq(Character), NEW c \in Character, t \in S
      PROVE  Append(t, c) \in S
  <2> DEFINE gs == Graphemes(t)
             u == Append(t, c)
  <2>1. gs \in Seq(Grapheme) /\ (t # <<>> => Len(Last(gs)) \in 1..Len(t))
    BY <1>2
  <2>2. Graphemes(u) = AddToGraphemes(gs, c)
    BY GraphemesSteps
  <2>3. u \in Seq(Character) /\ Len(u) = Len(t) + 1 /\ Len(t) \in Nat
    OBVIOUS
  <2>4. t = <<>> => gs = <<>>
    BY GraphemesSteps
  <2> HIDE DEF gs, u
  <2>5. /\ Graphemes(u) \in Seq(Grapheme) /\ Graphemes(u) # <<>>
    BY <2>1, <2>2, AddToGraphemesAdds
  <2>6. Len(Last(Graphemes(u))) \in 1..Len(u)
    <3>1. CASE Cells(c) # 0 \/ gs = <<>>
      <4>1. Last(Graphemes(u)) = <<c>>
        BY <2>1, <2>2, <3>1, AddToGraphemesAdds
      <4>2. Len(<<c>>) = 1
        OBVIOUS
      <4> QED BY <2>3, <4>1, <4>2
    <3>2. CASE Cells(c) = 0 /\ gs # <<>>
      <4>1. Len(Last(Graphemes(u))) = Len(Last(gs)) + 1
        BY <2>1, <2>2, <3>2, AddToGraphemesAdds
      <4> QED BY <2>1, <2>3, <2>4, <3>2, <4>1
    <3> QED BY <3>1, <3>2
  <2>7. Good(u)
    BY <2>5, <2>6
  <2> QED BY <2>3, <2>7 DEF u
<1> HIDE DEF S
<1>3. Seq(Character) \subseteq S
  BY <1>1, <1>2, OnGraphemes!SequenceInduction
<1> QED BY <1>3 DEF S

Places == [row : Nat, col : Nat]

\* The cursor's place after some graphemes.
Layout(gs) == OnLayout!Folded(Origin, gs)

LEMMA AdvancePlace ==
  ASSUME NEW at \in Places, NEW g, Cells(g[1]) \in 0..2
  PROVE  Advance(at, g) \in Places
<1>1. /\ at.row \in Nat /\ at.col \in Nat /\ Cells(g[1]) \in Nat
      /\ at = [row |-> at.row, col |-> at.col]
  BY DEF Places
<1>2. \/ Advance(at, g) = [row |-> at.row, col |-> at.col + Cells(g[1])]
      \/ Advance(at, g) = [row |-> at.row + 1, col |-> Cells(g[1])]
  BY <1>1 DEF Advance
<1> QED BY <1>1, <1>2 DEF Places

LEMMA LayoutSteps ==
  /\ Layout(<<>>) = Origin
  /\ \A gs \in Seq(Grapheme) : \A g \in Grapheme : Layout(Append(gs, g)) = Advance(Layout(gs), g)
  /\ \A gs \in Seq(Grapheme) : Layout(gs) \in Places
<1>1. Layout(<<>>) = Origin
  BY OnLayout!FoldedEmpty DEF Layout
<1>2. ASSUME NEW gs \in Seq(Grapheme), NEW g \in Grapheme
      PROVE  Layout(Append(gs, g)) = Advance(Layout(gs), g)
  BY OnLayout!FoldedAppend DEF Layout
<1>3. \A g \in Grapheme : Cells(g[1]) \in 0..2
  <2>1. \A g \in Grapheme : g[1] \in Character
    BY DEF Grapheme
  <2> QED BY <2>1, CellsOfCharacter
<1>4. Origin \in Places /\ \A at \in Places : \A g \in Grapheme : Advance(at, g) \in Places
  BY <1>3, AdvancePlace DEF Origin, Places
<1>5. \A gs \in Seq(Grapheme) : Layout(gs) \in Places
  BY <1>4, OnLayout!FoldedIn DEF Layout
<1> QED BY <1>1, <1>2, <1>5

\* A character moves the cursor by its width; without width, not at all.
LEMMA LayoutAppend ==
  ASSUME NEW t \in Seq(Character), NEW c \in Character
  PROVE  /\ LineLayout(t) \in Places
         /\ LineLayout(Append(t, c)) = IF Cells(c) = 0 THEN LineLayout(t)
                                                       ELSE Advance(LineLayout(t), <<c>>)
<1> DEFINE gs == Graphemes(t)
           new == Graphemes(Append(t, c))
<1>1. gs \in Seq(Grapheme) /\ new = AddToGraphemes(gs, c)
  BY GraphemesOfText, GraphemesSteps
<1>2. LineLayout(t) = Layout(gs) /\ LineLayout(Append(t, c)) = Layout(new)
  BY LayoutIsFold DEF Layout
<1> HIDE DEF gs, new
<1>3. LineLayout(t) \in Places
  BY <1>1, <1>2, LayoutSteps
<1>4. CASE Cells(c) = 0 /\ gs # <<>>
  <2>1. PICK front \in Seq(Grapheme) : \E g \in Grapheme : gs = Append(front, g)
    BY <1>1, <1>4, SequenceEmptyOrAppend
  <2>2. PICK g \in Grapheme : gs = Append(front, g)
    BY <2>1
  <2> DEFINE h == Append(g, c)
  <2>3. h \in Grapheme /\ h[1] = g[1]
    BY DEF Grapheme
  <2>4. AddToGraphemes(gs, c) = [gs EXCEPT ![Len(gs)] = Append(gs[Len(gs)], c)]
    BY <1>4 DEF AddToGraphemes
  <2>5. Len(gs) = Len(front) + 1 /\ gs[Len(gs)] = g
    BY <2>2
  <2> HIDE DEF h
  <2>6. [gs EXCEPT ![Len(gs)] = h] = Append(front, h)
    BY <2>2, <2>3, <2>5, ReplaceLast
  <2>7. new = Append(front, h)
    BY <1>1, <2>4, <2>5, <2>6 DEF h
  <2>8. Layout(new) = Advance(Layout(front), h) /\ Layout(gs) = Advance(Layout(front), g)
    BY <2>2, <2>3, <2>7, LayoutSteps
  <2>9. Advance(Layout(front), h) = Advance(Layout(front), g)
    BY <2>3 DEF Advance
  <2> QED BY <1>2, <1>3, <1>4, <2>8, <2>9
<1>5. CASE ~(Cells(c) = 0 /\ gs # <<>>)
  <2> DEFINE one == <<c>>
  <2>1. one \in Grapheme /\ one[1] = c
    BY DEF Grapheme
  <2>2. new = Append(gs, one)
    BY <1>1, <1>5 DEF AddToGraphemes
  <2> HIDE DEF one
  <2>3. Layout(new) = Advance(Layout(gs), one)
    BY <1>1, <2>1, <2>2, LayoutSteps
  <2>4. CASE Cells(c) # 0
    BY <1>2, <1>3, <2>3, <2>4 DEF one
  <2>5. CASE Cells(c) = 0
    <3>1. Layout(gs) = Origin
      BY <1>5, <2>5, LayoutSteps
    <3>2. Advance(Origin, one) = Origin
      BY <2>1, <2>5, WidthAssumption DEF Advance, Origin
    <3> QED BY <1>2, <1>3, <2>3, <2>5, <3>1, <3>2
  <2> QED BY <2>4, <2>5
<1> QED BY <1>4, <1>5

LEMMA LayoutOfNothing == LineLayout(<<>>) = Origin
BY LayoutIsFold, GraphemesSteps, OnLayout!FoldedEmpty

-----------------------------------------------------------------------------
(***************************************************************************)
(* A line on the screen: where it ends is what _line_layout computes, and  *)
(* going back that far and erasing leaves what was above it.               *)
(***************************************************************************)
\* A screen whose cursor is at the start of an empty row.
AtLineStart(s) == s \in Screens /\ s.col = 0

InLine == Character \ {"NL"}

\* The cursor after a line is below its start as far as the layout says.
LEMMA LineOnScreen ==
  ASSUME NEW s \in Screens, s.col = 0
  PROVE  \A line \in Seq(InLine) :
           /\ PutText(s, line) \in Screens
           /\ SameAbove(s.row, PutText(s, line), s)
           /\ PutText(s, line).row = s.row + LineLayout(line).row
           /\ PutText(s, line).col = LineLayout(line).col
           /\ LineLayout(line) \in Places
<1> DEFINE Good(line) == /\ PutText(s, line) \in Screens
                         /\ SameAbove(s.row, PutText(s, line), s)
                         /\ PutText(s, line).row = s.row + LineLayout(line).row
                         /\ PutText(s, line).col = LineLayout(line).col
                         /\ LineLayout(line) \in Places
           S == {line \in Seq(InLine) : Good(line)}
<1>1. <<>> \in S
  <2>1. PutText(s, <<>>) = s /\ LineLayout(<<>>) = Origin
    BY PutTextSteps, LayoutOfNothing
  <2>2. s.row \in Nat
    BY DEF Screens
  <2>3. Good(<<>>)
    BY <2>1, <2>2 DEF Origin, Places, SameAbove
  <2>4. <<>> \in Seq(InLine)
    OBVIOUS
  <2> HIDE DEF Good
  <2> QED BY <2>3, <2>4
<1>2. ASSUME NEW t \in Seq(InLine), NEW c \in InLine, t \in S
      PROVE  Append(t, c) \in S
  <2> DEFINE u == Append(t, c)
             old == PutText(s, t)
             at == LineLayout(t)
  <2>1. t \in Seq(Character) /\ c \in Character /\ c # "NL" /\ u \in Seq(InLine)
    BY DEF InLine
  <2>2. PutText(s, u) = PutChar(old, c)
    BY <2>1, PutTextSteps
  <2>3. /\ old \in Screens /\ SameAbove(s.row, old, s) /\ at \in Places
        /\ old.row = s.row + at.row /\ old.col = at.col
    BY <1>2
  <2>4. LineLayout(u) = IF Cells(c) = 0 THEN at ELSE Advance(at, <<c>>)
    BY <2>1, LayoutAppend
  <2> HIDE DEF u, old, at
  <2>5. /\ s.row \in Nat /\ at.row \in Nat /\ at.col \in Nat /\ Cells(c) \in 0..2
        /\ at = [row |-> at.row, col |-> at.col]
    BY <2>1, <2>3, CellsOfCharacter DEF Screens, Places
  <2>6. PutChar(old, c) \in Screens /\ SameAbove(old.row, PutChar(old, c), old)
    BY <2>1, <2>3, PutCharMoves
  <2>7. SameAbove(s.row, PutChar(old, c), s)
    BY <2>3, <2>5, <2>6 DEF SameAbove
  <2>8. CASE Cells(c) = 0
    <3>1. PutChar(old, c).row = old.row /\ PutChar(old, c).col = old.col
      BY <2>1, <2>3, <2>8, PutCharMoves
    <3>2. Good(u)
      BY <2>2, <2>3, <2>4, <2>6, <2>7, <2>8, <3>1
    <3> QED BY <2>1, <3>2 DEF u
  <2>9. CASE Cells(c) # 0
    <3>1. Advance(at, <<c>>) = IF at.col + Cells(c) <= Width
                                 THEN [row |-> at.row, col |-> at.col + Cells(c)]
                                 ELSE [row |-> at.row + 1, col |-> Cells(c)]
      BY <2>5 DEF Advance
    <3>2. Advance(at, <<c>>) \in Places
      BY <2>5, <3>1 DEF Places
    <3>3. IF old.col + Cells(c) <= Width
            THEN PutChar(old, c).row = old.row /\ PutChar(old, c).col = old.col + Cells(c)
            ELSE PutChar(old, c).row = old.row + 1 /\ PutChar(old, c).col = Cells(c)
      BY <2>1, <2>3, <2>9, PutCharMoves
    <3>4. /\ PutText(s, u).row = s.row + LineLayout(u).row
          /\ PutText(s, u).col = LineLayout(u).col
        <4>1. CASE at.col + Cells(c) <= Width
        BY <2>2, <2>3, <2>4, <2>9, <3>1, <3>3, <4>1
      <4>2. CASE ~(at.col + Cells(c) <= Width)
        <5>1. s.row + (at.row + 1) = s.row + at.row + 1
          BY <2>5
        <5> QED BY <2>2, <2>3, <2>4, <2>9, <3>1, <3>3, <4>2, <5>1
      <4> QED BY <4>1, <4>2
    <3>5. Good(u)
      BY <2>2, <2>4, <2>6, <2>7, <2>9, <3>2, <3>4
    <3> QED BY <2>1, <3>5 DEF u
  <2> QED BY <2>5, <2>8, <2>9
<1> HIDE DEF S
<1>3. Seq(InLine) \subseteq S
  BY <1>1, <1>2, OnScreen!SequenceInduction
<1> QED BY <1>3 DEF S

\* From anywhere below, back to the row where the line began: the screen is
\* as it was before the line.
LEMMA EraseLine ==
  ASSUME NEW s \in Screens, s.col = 0, NEW t \in Screens, NEW up \in Nat,
         t.row = s.row + up, SameAbove(s.row, t, s)
  PROVE  BackAndErase(t, up) = s
<1>1. /\ s \in [rows : Seq(Seq(Cell)), row : Nat, col : Nat]
      /\ s.row = Len(s.rows) /\ s.row >= 2 /\ s.col = Len(s.rows[s.row])
      /\ t.rows \in Seq(Seq(Cell)) /\ t.row = Len(t.rows) /\ t.row \in Nat
  BY DEF Screens
<1>2. Least(up, t.row - 1) = up
  BY <1>1 DEF Least
<1> DEFINE above == SubSeq(t.rows, 1, s.row - 1)
<1>3. BackAndErase(t, up) = [rows |-> Append(above, <<>>), row |-> s.row, col |-> 0]
  <2>1. t.row - Least(up, t.row - 1) = s.row
    <3>1. t.row - Least(up, t.row - 1) = t.row - up
      BY <1>2
    <3>2. s.row \in Nat /\ t.row = s.row + up
      BY <1>1
    <3> QED BY <3>1, <3>2
  <2>2. BackAndErase(t, up) = LET row == t.row - Least(up, t.row - 1)
                              IN [rows |-> Append(SubSeq(t.rows, 1, row - 1), <<>>), row |-> row, col |-> 0]
    BY DEF BackAndErase
  <2> QED BY <2>1, <2>2
<1>4. /\ above \in Seq(Seq(Cell)) /\ Len(above) = s.row - 1
      /\ \A i \in 1..(s.row - 1) : above[i] = t.rows[i]
  <2> DEFINE rows == t.rows
             n == s.row - 1
  <2>1. rows \in Seq(Seq(Cell)) /\ n \in 0..Len(rows)
    BY <1>1
  <2> HIDE DEF rows, n
  <2>2. /\ SubSeq(rows, 1, n) \in Seq(Seq(Cell)) /\ Len(SubSeq(rows, 1, n)) = n
        /\ \A i \in 1..n : SubSeq(rows, 1, n)[i] = rows[i]
    BY <2>1
  <2> QED BY <2>2 DEF rows, n
<1> HIDE DEF above
<1>5. s.rows[s.row] = <<>> /\ s.rows[s.row] \in Seq(Cell)
  BY <1>1
<1>6. Append(above, s.rows[s.row]) = s.rows
  <2>1. Len(above) = Len(s.rows) - 1 /\ s.rows # <<>>
    BY <1>1, <1>4
  <2>2. \A i \in 1..(Len(s.rows) - 1) : above[i] = s.rows[i]
    BY <1>1, <1>4 DEF SameAbove
  <2> QED BY <1>1, <1>4, <2>1, <2>2, FrontAndLast
<1>7. s = [rows |-> s.rows, row |-> s.row, col |-> 0]
  BY <1>1
<1> QED BY <1>3, <1>5, <1>6, <1>7

-----------------------------------------------------------------------------
(***************************************************************************)
(* Lines of a text: what is after the last line break.                     *)
(***************************************************************************)
Lines(before, line) ==
  /\ before \in Seq(Character) /\ line \in Seq(InLine)
  /\ before = <<>> \/ Last(before) = "NL"

LEMMA InLineText == \A line \in Seq(InLine) : line \in Seq(Character)
BY DEF InLine

\* Every text has a last line.
LEMMA LastLine ==
  \A text \in Seq(Character) : \E before, line : Lines(before, line) /\ text = before \o line
<1> DEFINE S == {text \in Seq(Character) :
                   \E before, line : Lines(before, line) /\ text = before \o line}
<1>1. <<>> \in S
  <2>1. Lines(<<>>, <<>>) /\ <<>> = <<>> \o <<>> /\ <<>> \in Seq(Character)
    BY DEF Lines
  <2> QED BY <2>1
<1>2. ASSUME NEW t \in Seq(Character), NEW c \in Character, t \in S
      PROVE  Append(t, c) \in S
  <2>1. Append(t, c) \in Seq(Character)
    OBVIOUS
  <2>2. CASE c = "NL"
    <3> DEFINE all == Append(t, c)
    <3>1. Last(all) = "NL" /\ all \o <<>> = all
      BY <2>2 DEF Last
    <3>2. <<>> \in Seq(InLine)
      OBVIOUS
    <3> HIDE DEF all
    <3>3. Lines(all, <<>>)
      BY <2>1, <3>1, <3>2 DEF Lines, all
    <3> QED BY <2>1, <3>1, <3>3 DEF all
  <2>3. CASE c # "NL"
    <3>1. PICK before, line : Lines(before, line) /\ t = before \o line
      BY <1>2
    <3> DEFINE longer == Append(line, c)
    <3>2. longer \in Seq(InLine)
      BY <2>3, <3>1 DEF Lines, InLine
    <3>3. Append(t, c) = before \o longer
      <4>1. before \in Seq(Character) /\ line \in Seq(Character)
        BY <3>1, InLineText DEF Lines
      <4> HIDE DEF longer
      <4>2. Append(before \o line, c) = before \o Append(line, c)
        BY <4>1, SMTT(30)
      <4> QED BY <3>1, <4>2 DEF longer
    <3> HIDE DEF longer
    <3>4. Lines(before, longer)
      BY <3>1, <3>2 DEF Lines
    <3> QED BY <2>1, <3>3, <3>4
  <2> QED BY <2>2, <2>3
<1> HIDE DEF S
<1>3. Seq(Character) \subseteq S
  BY <1>1, <1>2, OnScreen!SequenceInduction
<1> QED BY <1>3 DEF S

\* LineStart and LineOf find it.
LEMMA LineFound ==
  ASSUME NEW before, NEW line, Lines(before, line)
  PROVE  LineOf(before \o line) = line
<1> DEFINE text == before \o line
           n == Len(before)
           breaks == {i \in DOMAIN text : text[i] = "NL"}
<1>1. /\ before \in Seq(Character) /\ line \in Seq(Character) /\ text \in Seq(Character)
      /\ n \in Nat /\ Len(text) = n + Len(line) /\ DOMAIN text = 1..Len(text)
      /\ \A i \in 1..n : text[i] = before[i]
      /\ \A i \in 1..Len(line) : text[n + i] = line[i]
  BY InLineText DEF Lines
<1>2. \A i \in 1..Len(line) : line[i] # "NL"
  BY DEF Lines, InLine
<1>3. n # 0 => text[n] = "NL"
  BY <1>1 DEF Lines, Last
<1>4. \A i \in breaks : i <= n
  <2> SUFFICES ASSUME NEW i \in 1..Len(text), i > n PROVE text[i] # "NL"
    BY <1>1
  <2>1. i - n \in 1..Len(line) /\ n + (i - n) = i
    BY <1>1
  <2> QED BY <1>1, <1>2, <2>1
<1>5. n \in {0} \cup breaks
  BY <1>1, <1>3
<1>6. {0} \cup breaks \in SUBSET Nat /\ \A i \in {0} \cup breaks : n >= i
  BY <1>1, <1>4
<1>7. LineStart(text) = n
  <2> DEFINE set == {0} \cup breaks
  <2>1. n \in set /\ set \in SUBSET Nat /\ \A i \in set : n >= i
    BY <1>5, <1>6
  <2>2. LineStart(text) = Max(set)
    BY DEF LineStart
  <2> HIDE DEF set
  <2>3. OnScreen!Max(set) = n
    BY <2>1, OnScreen!MaxIs
  <2> QED BY <2>2, <2>3 DEF Max, OnScreen!Max
<1>8. SubSeq(text, n + 1, Len(text)) = line
  <2> DEFINE a == SubSeq(text, n + 1, Len(text))
  <2>1. a \in Seq(Character) /\ Len(a) = Len(line) /\ \A i \in 1..Len(line) : a[i] = text[n + i]
    BY <1>1
  <2> HIDE DEF a
  <2>2. a = line
    BY <1>1, <2>1, SameSequence
  <2> QED BY <2>2 DEF a
<1> QED BY <1>7, <1>8 DEF LineOf

\* Where a line begins, the cursor is at the start of an empty row.
LEMMA LineStartsRow ==
  ASSUME NEW before, NEW line, Lines(before, line)
  PROVE  PutText(FreshScreen, before) \in Screens /\ PutText(FreshScreen, before).col = 0
<1>1. PutText(FreshScreen, before) \in Screens
  BY FreshScreenIn, PutTextSteps DEF Lines
<1>2. CASE before = <<>>
  BY <1>1, <1>2, PutTextSteps DEF FreshScreen
<1>3. CASE before # <<>>
  <2>1. PICK t \in Seq(Character) : \E c \in Character : before = Append(t, c)
    BY <1>3, SequenceEmptyOrAppend DEF Lines
  <2>2. PICK c \in Character : before = Append(t, c)
    BY <2>1
  <2>3. c = "NL"
    BY <1>3, <2>2 DEF Lines, Last
  <2> DEFINE s == PutText(FreshScreen, t)
  <2>4. s \in Screens /\ PutText(FreshScreen, before) = PutChar(s, c)
    BY <2>2, FreshScreenIn, PutTextSteps
  <2> HIDE DEF s
  <2>5. PutChar(s, c) = NewRow(s)
    BY <2>3, <2>4, PutCharMoves
  <2> QED BY <1>1, <2>4, <2>5, NewRowAdds
<1> QED BY <1>2, <1>3

\* A text without its last grapheme ends in the same line.
LEMMA DropGraphemeOfLine ==
  ASSUME NEW before, NEW line, Lines(before, line), line # <<>>
  PROVE  \E short : Lines(before, short) /\ DropGrapheme(before \o line) = before \o short
<1> DEFINE text == before \o line
           k == Len(Last(Graphemes(line)))
           m == Len(line) - k
           short == SubSeq(line, 1, m)
<1>1. /\ before \in Seq(Character) /\ line \in Seq(Character) /\ line \in Seq(InLine)
      /\ LineOf(text) = line
  BY InLineText, LineFound DEF Lines
<1>2. k \in 1..Len(line)
  BY <1>1, GraphemesOfText
<1> HIDE DEF k
<1>3. m \in Nat /\ m <= Len(line) /\ Len(text) - k = Len(before) + m
  BY <1>1, <1>2
<1>4. DropGrapheme(text) = SubSeq(text, 1, Len(before) + m)
  BY <1>1, <1>3 DEF DropGrapheme, k
<1> HIDE DEF m
<1>5. /\ short \in Seq(InLine) /\ short \in Seq(Character)
      /\ Len(short) = m /\ \A i \in 1..m : short[i] = line[i]
  BY <1>1, <1>3
<1> HIDE DEF short
<1> DEFINE a == SubSeq(text, 1, Len(before) + m)
           b == before \o short
<1>6. a = b
  <2>1. /\ text \in Seq(Character) /\ Len(text) = Len(before) + Len(line)
        /\ \A i \in 1..Len(before) : text[i] = before[i]
        /\ \A i \in 1..Len(line) : text[Len(before) + i] = line[i]
    BY <1>1
  <2> HIDE DEF text
  <2>2. /\ a \in Seq(Character) /\ Len(a) = Len(before) + m
        /\ \A i \in 1..(Len(before) + m) : a[i] = text[i]
    BY <1>1, <1>3, <2>1
  <2>3. /\ b \in Seq(Character) /\ Len(b) = Len(before) + m
        /\ \A i \in 1..Len(before) : b[i] = before[i]
        /\ \A i \in 1..m : b[Len(before) + i] = short[i]
    BY <1>1, <1>3, <1>5
  <2> HIDE DEF a, b
  <2>4. ASSUME NEW i \in 1..(Len(before) + m) PROVE a[i] = b[i]
    <3>1. CASE i <= Len(before)
      BY <1>1, <2>1, <2>2, <2>3, <3>1
    <3>2. CASE i > Len(before)
      <4>1. i - Len(before) \in 1..m /\ Len(before) + (i - Len(before)) = i
        BY <1>1, <1>3, <3>2
      <4>2. i - Len(before) \in 1..Len(line)
        BY <1>1, <1>3, <4>1
      <4> DEFINE j == i - Len(before)
      <4>3. text[Len(before) + j] = line[j] /\ b[Len(before) + j] = short[j] /\ short[j] = line[j]
        BY <1>5, <2>1, <2>3, <4>1, <4>2
      <4>4. a[i] = text[i]
        BY <2>2
      <4> QED BY <4>1, <4>3, <4>4
    <3> QED BY <1>1, <1>3, <3>1, <3>2
  <2> QED BY <2>2, <2>3, <2>4, SameSequence
<1>7. Lines(before, short)
  BY <1>5 DEF Lines
<1> QED BY <1>4, <1>6, <1>7

\* What was drawn for a line is gone when the line is drawn again.
LEMMA RedrawLine ==
  ASSUME NEW before, NEW line, NEW short, Lines(before, line), Lines(before, short),
         NEW t \in Screens, NEW up \in Nat,
         t.row = PutText(FreshScreen, before \o line).row + up - LineLayout(line).row,
         SameAbove(PutText(FreshScreen, before).row, t, PutText(FreshScreen, before))
  PROVE  PutText(BackAndErase(t, up), LineOf(before \o short))
           = PutText(FreshScreen, before \o short)
<1> DEFINE s == PutText(FreshScreen, before)
<1>1. s \in Screens /\ s.col = 0
  BY LineStartsRow
<1>2. /\ before \in Seq(Character) /\ line \in Seq(Character) /\ line \in Seq(InLine)
      /\ short \in Seq(Character)
  BY InLineText DEF Lines
<1>3. PutText(FreshScreen, before \o line) = PutText(s, line)
  BY <1>2, PutTextSteps
<1>4. PutText(FreshScreen, before \o short) = PutText(s, short)
  BY <1>2, PutTextSteps
<1>5. SameAbove(s.row, t, s)
  OBVIOUS
<1>6. t.row = PutText(s, line).row + up - LineLayout(line).row
  BY <1>3
<1> HIDE DEF s
<1>7. PutText(s, line).row = s.row + LineLayout(line).row /\ LineLayout(line) \in Places
  BY <1>1, <1>2, LineOnScreen
<1>8. t.row = s.row + up
  <2>1. s.row \in Nat /\ LineLayout(line).row \in Nat
    BY <1>1, <1>7 DEF Screens, Places
  <2> QED BY <1>6, <1>7, <2>1
<1>9. BackAndErase(t, up) = s
  BY <1>1, <1>5, <1>8, EraseLine
<1> QED BY <1>4, <1>9, LineFound

-----------------------------------------------------------------------------
(***************************************************************************)
(* The editors: every part has its type, and the screen shows the buffer.  *)
(***************************************************************************)
Inputs == Seq(Character) \cup {EndOfInput}

Editors ==
  {e \in [pending : Seq(Byte), paste : BOOLEAN, buffer : Seq(Character),
          results : Seq(Inputs), screen : Screens] :
     e.screen = PutText(FreshScreen, e.buffer)}

\* Only the buffer and the screen are others.
Edits(e, new) == new = [e EXCEPT !.buffer = new.buffer, !.screen = new.screen]

LEMMA RedrawIn ==
  ASSUME NEW e \in Editors, NEW text \in Seq(Character), NEW up,
         PutText(BackAndErase(e.screen, up), LineOf(text)) = PutText(FreshScreen, text)
  PROVE  /\ Redraw(e, up, text) \in Editors /\ Edits(e, Redraw(e, up, text))
         /\ Redraw(e, up, text).buffer = text
<1>1. /\ e \in [pending : Seq(Byte), paste : BOOLEAN, buffer : Seq(Character),
                results : Seq(Inputs), screen : Screens]
      /\ e.screen = PutText(FreshScreen, e.buffer)
  BY DEF Editors
<1>2. PutText(FreshScreen, text) \in Screens
  BY FreshScreenIn, PutTextSteps
<1>3. Redraw(e, up, text) = [e EXCEPT !.buffer = text, !.screen = PutText(FreshScreen, text)]
  BY DEF Redraw
<1> QED BY <1>1, <1>2, <1>3 DEF Editors, Edits

\* Deleting a character or a line break.
LEMMA BackspaceIn ==
  ASSUME NEW e \in Editors
  PROVE  /\ Backspace(e) \in Editors /\ Edits(e, Backspace(e))
         /\ Backspace(e).buffer = IF e.buffer = <<>> THEN <<>>
                                  ELSE IF Last(e.buffer) = "NL" THEN Front(e.buffer)
                                       ELSE DropGrapheme(e.buffer)
<1>1. /\ e \in [pending : Seq(Byte), paste : BOOLEAN, buffer : Seq(Character),
                results : Seq(Inputs), screen : Screens]
      /\ e.screen = PutText(FreshScreen, e.buffer)
  BY DEF Editors
<1>3. CASE e.buffer = <<>>
  BY <1>1, <1>3 DEF Backspace, Edits
<1>4. CASE e.buffer # <<>> /\ Last(e.buffer) = "NL"
  <2> DEFINE joined == Front(e.buffer)
  <2>1. joined \in Seq(Character) /\ e.buffer = Append(joined, "NL") /\ "NL" \in Character
    BY <1>1, <1>4, FrontAndLast DEF Front, Last, Character
  <2> HIDE DEF joined
  <2>2. PICK before, line : Lines(before, line) /\ joined = before \o line
    BY <2>1, LastLine
  <2> DEFINE s == PutText(FreshScreen, before)
             s1 == PutText(FreshScreen, joined)
             at == LineLayout(line)
  <2>3. /\ before \in Seq(Character) /\ line \in Seq(Character) /\ line \in Seq(InLine)
        /\ s \in Screens /\ s.col = 0 /\ s1 = PutText(s, line)
    BY <2>2, InLineText, LineStartsRow, PutTextSteps DEF Lines
  <2>4. e.screen = PutChar(s1, "NL")
    BY <1>1, <2>1, PutTextSteps
  <2> HIDE DEF s, s1
  <2>5. s1 \in Screens /\ SameAbove(s.row, s1, s) /\ s1.row = s.row + at.row /\ at \in Places
    BY <2>3, LineOnScreen
  <2>6. /\ e.screen \in Screens /\ e.screen = NewRow(s1) /\ SameAbove(s1.row, e.screen, s1)
        /\ e.screen.row = s1.row + 1
    BY <2>1, <2>4, <2>5, PutCharMoves, NewRowAdds
  <2>7. s.row \in Nat /\ at.row \in Nat /\ s1.row \in Nat /\ at.row + 1 \in Nat
    <3>1. s.row \in Nat /\ s1.row \in Nat /\ at.row \in Nat
      BY <2>3, <2>5 DEF Screens, Places
    <3> QED BY <3>1
  <2>8. SameAbove(s.row, e.screen, s)
    BY <2>5, <2>6, <2>7 DEF SameAbove
  <2>9. e.screen.row = s1.row + (at.row + 1) - at.row
    BY <2>6, <2>7
  <2>10. PutText(BackAndErase(e.screen, at.row + 1), LineOf(joined)) = PutText(FreshScreen, joined)
    <3>1. e.screen.row = PutText(FreshScreen, before \o line).row + (at.row + 1) - at.row
      BY <2>2, <2>9 DEF s1
    <3> QED BY <2>2, <2>6, <2>7, <2>8, <3>1, RedrawLine DEF s
  <2>11. Backspace(e) = Redraw(e, at.row + 1, joined)
    BY <1>4, <2>2, LineFound DEF Backspace, joined
  <2> QED BY <1>4, <2>1, <2>10, <2>11, RedrawIn DEF joined
<1>5. CASE e.buffer # <<>> /\ Last(e.buffer) # "NL"
  <2>1. PICK before, line : Lines(before, line) /\ e.buffer = before \o line
    BY <1>1, LastLine
  <2>2. /\ before \in Seq(Character) /\ line \in Seq(Character) /\ line \in Seq(InLine)
    BY <2>1, InLineText DEF Lines
  <2>3. line # <<>>
    <3>1. line = <<>> => e.buffer = before
      BY <2>1, <2>2
    <3> QED BY <1>5, <2>1, <3>1 DEF Lines
  <2>4. PICK short : Lines(before, short) /\ DropGrapheme(e.buffer) = before \o short
    BY <2>1, <2>3, DropGraphemeOfLine
  <2> DEFINE s == PutText(FreshScreen, before)
             at == LineLayout(line)
             text == before \o short
  <2>5. s \in Screens /\ s.col = 0 /\ e.screen = PutText(s, line)
    BY <1>1, <2>1, <2>2, LineStartsRow, PutTextSteps
  <2>6. e.screen \in Screens /\ SameAbove(s.row, e.screen, s) /\ at \in Places
        /\ e.screen.row = s.row + at.row
    <3> HIDE DEF s
    <3> QED BY <2>2, <2>5, LineOnScreen
  <2>7. at.row \in Nat /\ e.screen.row \in Nat
    BY <2>6 DEF Places, Screens
  <2>8. e.screen.row = PutText(FreshScreen, before \o line).row + at.row - at.row
    BY <1>1, <2>1, <2>7
  <2>9. PutText(BackAndErase(e.screen, at.row), LineOf(text)) = PutText(FreshScreen, text)
    BY <2>1, <2>4, <2>6, <2>7, <2>8, RedrawLine
  <2>10. Backspace(e) = Redraw(e, at.row, text)
    BY <1>5, <2>1, <2>4, LineFound DEF Backspace
  <2>11. text \in Seq(Character)
    BY <2>2, <2>4, InLineText DEF Lines
  <2>12. text = DropGrapheme(e.buffer)
    BY <2>4
  <2> HIDE DEF text, at
  <2>13. /\ Redraw(e, at.row, text) \in Editors /\ Edits(e, Redraw(e, at.row, text))
         /\ Redraw(e, at.row, text).buffer = text
    BY <2>9, <2>11, RedrawIn
  <2> QED BY <1>5, <2>10, <2>12, <2>13
<1> QED BY <1>3, <1>4, <1>5

-----------------------------------------------------------------------------
(***************************************************************************)
(* What one character or one sequence does depends on neither the bytes    *)
(* that wait nor the inputs already finished: it keeps them, and may add   *)
(* one input to these.                                                     *)
(***************************************************************************)
Fields == [pending : Seq(Byte), paste : BOOLEAN, buffer : Seq(Character),
           results : Seq(Inputs), screen : Screens]

\* The same editor with other bytes that wait and with more inputs before.
With(e, p, r) == [e EXCEPT !.pending = p, !.results = r \o @]

\* new is what a step makes of e, other what it makes of With(e, p, r).
Framed(e, new, other, p, r) ==
  /\ new \in Editors
  /\ new.pending = e.pending
  /\ other = With(new, p, r)

LEMMA WithIn ==
  ASSUME NEW e \in Editors, NEW p \in Seq(Byte), NEW r \in Seq(Inputs)
  PROVE  /\ With(e, p, r) \in Editors
         /\ With(e, p, r).pending = p /\ With(e, p, r).results = r \o e.results
         /\ With(e, p, r).buffer = e.buffer /\ With(e, p, r).paste = e.paste
         /\ With(e, p, r).screen = e.screen
<1>1. e \in Fields /\ e.screen = PutText(FreshScreen, e.buffer)
  BY DEF Editors, Fields
<1>2. r \o e.results \in Seq(Inputs)
  BY <1>1 DEF Fields
<1> QED BY <1>1, <1>2 DEF With, Editors, Fields

LEMMA InsertFramed ==
  ASSUME NEW e \in Editors, NEW c \in Character, NEW p \in Seq(Byte), NEW r \in Seq(Inputs)
  PROVE  Framed(e, Insert(e, c), Insert(With(e, p, r), c), p, r)
<1>1. e \in Fields /\ e.screen = PutText(FreshScreen, e.buffer)
  BY DEF Editors, Fields
<1>2. /\ PutChar(e.screen, c) = PutText(FreshScreen, Append(e.buffer, c))
      /\ PutChar(e.screen, c) \in Screens /\ Append(e.buffer, c) \in Seq(Character)
  BY <1>1, PutTextSteps, PutCharMoves DEF Fields
<1>3. Insert(e, c) = [e EXCEPT !.buffer = Append(e.buffer, c), !.screen = PutChar(e.screen, c)]
  BY <1>1 DEF Insert, Fields
<1>4. Insert(e, c) \in Editors
  <2> DEFINE text == Append(e.buffer, c)
             shown == PutChar(e.screen, c)
  <2>1. text \in Seq(Character) /\ shown \in Screens /\ shown = PutText(FreshScreen, text)
    BY <1>2
  <2>2. Insert(e, c) = [e EXCEPT !.buffer = text, !.screen = shown]
    BY <1>3
  <2> HIDE DEF text, shown
  <2> QED BY <1>1, <2>1, <2>2 DEF Editors, Fields
<1>5. Insert(With(e, p, r), c) = With(Insert(e, c), p, r)
  BY <1>1 DEF Insert, With, Fields
<1> QED BY <1>1, <1>3, <1>4, <1>5 DEF Framed, Fields

LEMMA SubmitFramed ==
  ASSUME NEW e \in Editors, NEW p \in Seq(Byte), NEW r \in Seq(Inputs)
  PROVE  Framed(e, Submit(e), Submit(With(e, p, r)), p, r)
<1>1. e \in Fields /\ e.screen = PutText(FreshScreen, e.buffer)
  BY DEF Editors, Fields
<1>2. /\ FreshScreen = PutText(FreshScreen, <<>>) /\ FreshScreen \in Screens
      /\ <<>> \in Seq(Character)
  BY FreshScreenIn, PutTextSteps
<1> DEFINE more == Append(e.results, e.buffer)
<1>3. e.results \in Seq(Inputs) /\ e.buffer \in Inputs /\ more \in Seq(Inputs)
  BY <1>1 DEF Fields, Inputs
<1>4. Append(r \o e.results, e.buffer) = r \o more
  <2> DEFINE rs == e.results
             text == e.buffer
  <2>1. rs \in Seq(Inputs) /\ text \in Inputs
    BY <1>3
  <2> HIDE DEF rs, text, more
  <2>2. Append(r \o rs, text) = r \o Append(rs, text)
    BY <2>1, SMTT(30)
  <2> QED BY <2>2 DEF rs, text, more
<1>5. Submit(e) = [e EXCEPT !.results = more, !.buffer = <<>>, !.screen = FreshScreen]
  BY <1>1 DEF Submit, Fields
<1>6. Submit(With(e, p, r)) = [e EXCEPT !.pending = p, !.results = Append(r \o e.results, e.buffer),
                                        !.buffer = <<>>, !.screen = FreshScreen]
  BY <1>1 DEF Submit, With, Fields
<1> HIDE DEF more
<1>7. Submit(e) \in Editors /\ Submit(e).pending = e.pending
  BY <1>1, <1>2, <1>3, <1>5 DEF Editors, Fields
<1>8. With(Submit(e), p, r) = [e EXCEPT !.pending = p, !.results = r \o more,
                                        !.buffer = <<>>, !.screen = FreshScreen]
  BY <1>1, <1>5 DEF With, Fields
<1> QED BY <1>4, <1>6, <1>7, <1>8 DEF Framed

Finish(e, x) == [e EXCEPT !.results = Append(@, x)]

LEMMA FinishFramed ==
  ASSUME NEW e \in Editors, NEW x \in Inputs, NEW p \in Seq(Byte), NEW r \in Seq(Inputs)
  PROVE  Framed(e, Finish(e, x), Finish(With(e, p, r), x), p, r)
<1>1. e \in Fields /\ e.screen = PutText(FreshScreen, e.buffer)
  BY DEF Editors, Fields
<1> DEFINE more == Append(e.results, x)
<1>2. e.results \in Seq(Inputs) /\ more \in Seq(Inputs)
  BY <1>1 DEF Fields
<1>3. Append(r \o e.results, x) = r \o more
  <2> DEFINE rs == e.results
  <2>1. rs \in Seq(Inputs)
    BY <1>2
  <2> HIDE DEF rs
  <2>2. Append(r \o rs, x) = r \o Append(rs, x)
    BY <2>1, SMTT(30)
  <2> QED BY <2>2 DEF rs
<1>4. Finish(e, x) = [e EXCEPT !.results = more]
  BY <1>1 DEF Finish, Fields
<1>5. Finish(With(e, p, r), x) = [e EXCEPT !.pending = p, !.results = Append(r \o e.results, x)]
  BY <1>1 DEF Finish, With, Fields
<1> HIDE DEF more
<1>6. Finish(e, x) \in Editors /\ Finish(e, x).pending = e.pending
  BY <1>1, <1>2, <1>4 DEF Editors, Fields
<1>7. With(Finish(e, x), p, r) = [e EXCEPT !.pending = p, !.results = r \o more]
  BY <1>1, <1>4 DEF With, Fields
<1> QED BY <1>3, <1>5, <1>6, <1>7 DEF Framed

LEMMA BackspaceFramed ==
  ASSUME NEW e \in Editors, NEW p \in Seq(Byte), NEW r \in Seq(Inputs)
  PROVE  Framed(e, Backspace(e), Backspace(With(e, p, r)), p, r)
<1>1. e \in Fields
  BY DEF Editors, Fields
<1>2. Backspace(e) \in Editors /\ Edits(e, Backspace(e))
  BY BackspaceIn
<1>3. Backspace(e).pending = e.pending
  BY <1>1, <1>2 DEF Edits, Fields
<1>4. Backspace(With(e, p, r)) = With(Backspace(e), p, r)
  <2>1. \A up, text : Redraw(With(e, p, r), up, text) = With(Redraw(e, up, text), p, r)
    BY <1>1 DEF Redraw, With, Fields
  <2>2. With(e, p, r).buffer = e.buffer
    BY <1>1 DEF With, Fields
  <2> QED BY <2>1, <2>2, Zenon DEF Backspace
<1> QED BY <1>2, <1>3, <1>4 DEF Framed

SetPaste(e, on) == [e EXCEPT !.paste = on]

LEMMA PasteFramed ==
  ASSUME NEW e \in Editors, NEW on \in BOOLEAN, NEW p \in Seq(Byte), NEW r \in Seq(Inputs)
  PROVE  Framed(e, SetPaste(e, on), SetPaste(With(e, p, r), on), p, r)
BY DEF Framed, With, Editors, SetPaste

LEMMA NothingFramed ==
  ASSUME NEW e \in Editors, NEW p \in Seq(Byte), NEW r \in Seq(Inputs)
  PROVE  Framed(e, e, With(e, p, r), p, r)
BY DEF Framed

\* What Decode makes of the bytes of a character.
Decoded == (Character \ {"NL"}) \cup Breaks

LEMMA HandleCharFramed ==
  ASSUME NEW e \in Editors, NEW c \in Decoded, NEW p \in Seq(Byte), NEW r \in Seq(Inputs)
  PROVE  Framed(e, HandleChar(e, c), HandleChar(With(e, p, r), c), p, r)
<1> DEFINE f == With(e, p, r)
<1>1. f.paste = e.paste /\ f.buffer = e.buffer /\ e.paste \in BOOLEAN
  BY WithIn DEF Editors
<1>2. "NL" \in Character /\ EndOfInput \in Inputs
  BY DEF Character, Inputs
<1>3. c \notin Breaks => c \in Character
  BY DEF Decoded
<1>7. {"CR", "LF", "BS", "EOT"} \cap Printable = {}
  BY DEF Printable, Ascii, Finals
<1> HIDE DEF f
<1>4. CASE c \in Breaks /\ e.paste
  <2>1. HandleChar(e, c) = Insert(e, "NL") /\ HandleChar(f, c) = Insert(f, "NL")
    BY <1>1, <1>4 DEF HandleChar, Breaks
  <2> QED BY <1>2, <2>1, InsertFramed DEF f
<1>5. CASE c \notin Breaks /\ e.paste
  <2>1. HandleChar(e, c) = Insert(e, c) /\ HandleChar(f, c) = Insert(f, c)
    BY <1>1, <1>5 DEF HandleChar, Breaks
  <2> QED BY <1>3, <1>5, <2>1, InsertFramed DEF f
<1>6. CASE ~e.paste
  <2>1. CASE c = "CR"
    <3>1. HandleChar(e, c) = Submit(e) /\ HandleChar(f, c) = Submit(f)
      BY <1>1, <1>6, <1>7, <2>1 DEF HandleChar, Breaks
    <3> QED BY <3>1, SubmitFramed DEF f
  <2>2. CASE c = "LF"
    <3>1. HandleChar(e, c) = Insert(e, "NL") /\ HandleChar(f, c) = Insert(f, "NL")
      BY <1>1, <1>6, <1>7, <2>2 DEF HandleChar, Breaks
    <3> QED BY <1>2, <3>1, InsertFramed DEF f
  <2>3. CASE c = "BS"
    <3>1. HandleChar(e, c) = Backspace(e) /\ HandleChar(f, c) = Backspace(f)
      BY <1>1, <1>6, <1>7, <2>3 DEF HandleChar, Breaks
    <3> QED BY <3>1, BackspaceFramed DEF f
  <2>4. CASE c = "EOT" /\ e.buffer = <<>>
    <3>1. HandleChar(e, c) = Finish(e, EndOfInput) /\ HandleChar(f, c) = Finish(f, EndOfInput)
      BY <1>1, <1>6, <1>7, <2>4 DEF HandleChar, Breaks, Finish
    <3> QED BY <1>2, <3>1, FinishFramed DEF f
  <2>5. CASE c = "EOT" /\ e.buffer # <<>>
    <3>1. HandleChar(e, c) = Submit(e) /\ HandleChar(f, c) = Submit(f)
      BY <1>1, <1>6, <1>7, <2>5 DEF HandleChar, Breaks
    <3> QED BY <3>1, SubmitFramed DEF f
  <2>6. CASE c \in Printable
    <3>1. HandleChar(e, c) = Insert(e, c) /\ HandleChar(f, c) = Insert(f, c)
      BY <1>1, <1>6, <1>7, <2>6 DEF HandleChar, Breaks
    <3>2. c \in Character
      BY <2>6 DEF Character
    <3> QED BY <3>1, <3>2, InsertFramed DEF f
  <2>7. CASE c \notin Printable \cup {"CR", "LF", "BS", "EOT"}
    <3>1. HandleChar(e, c) = e /\ HandleChar(f, c) = f
      BY <1>1, <1>6, <1>7, <2>7 DEF HandleChar, Breaks
    <3> QED BY <3>1, NothingFramed DEF f
  <2> QED BY <2>1, <2>2, <2>3, <2>4, <2>5, <2>6, <2>7
<1> QED BY <1>1, <1>4, <1>5, <1>6

LEMMA HandleEscapeFramed ==
  ASSUME NEW e \in Editors, NEW sequence, NEW p \in Seq(Byte), NEW r \in Seq(Inputs)
  PROVE  Framed(e, HandleEscape(e, sequence), HandleEscape(With(e, p, r), sequence), p, r)
<1> DEFINE f == With(e, p, r)
<1>1. f.paste = e.paste /\ e.paste \in BOOLEAN /\ "NL" \in Character
  BY WithIn DEF Editors, Character
<1>2. PasteStart # PasteEnd /\ PasteStart \notin ShiftEnter /\ PasteEnd \notin ShiftEnter
  BY DEF PasteStart, PasteEnd, ShiftEnter
<1> HIDE DEF f
<1>3. CASE sequence = PasteStart
  <2>1. /\ HandleEscape(e, sequence) = SetPaste(e, TRUE)
        /\ HandleEscape(f, sequence) = SetPaste(f, TRUE)
    BY <1>2, <1>3 DEF HandleEscape, SetPaste
  <2> QED BY <2>1, PasteFramed DEF f
<1>4. CASE sequence = PasteEnd
  <2>1. /\ HandleEscape(e, sequence) = SetPaste(e, FALSE)
        /\ HandleEscape(f, sequence) = SetPaste(f, FALSE)
    BY <1>2, <1>4 DEF HandleEscape, SetPaste
  <2> QED BY <2>1, PasteFramed DEF f
<1>5. CASE sequence \in ShiftEnter /\ ~e.paste
  <2>1. /\ HandleEscape(e, sequence) = Insert(e, "NL")
        /\ HandleEscape(f, sequence) = Insert(f, "NL")
    BY <1>1, <1>2, <1>5 DEF HandleEscape
  <2> QED BY <1>1, <2>1, InsertFramed DEF f
<1>6. CASE sequence \notin {PasteStart, PasteEnd} /\ ~(sequence \in ShiftEnter /\ ~e.paste)
  <2>1. HandleEscape(e, sequence) = e /\ HandleEscape(f, sequence) = f
    BY <1>1, <1>6 DEF HandleEscape
  <2> QED BY <2>1, NothingFramed DEF f
<1> QED BY <1>3, <1>4, <1>5, <1>6

-----------------------------------------------------------------------------
(***************************************************************************)
(* The units of the bytes.                                                 *)
(***************************************************************************)
Ends(bytes) == {i \in 3..Len(bytes) : bytes[i] \in Finals}

LEMMA EndsMin ==
  ASSUME NEW bytes \in Seq(Byte), Ends(bytes) # {}
  PROVE  Min(Ends(bytes)) \in Ends(bytes) /\ \A i \in Ends(bytes) : Min(Ends(bytes)) <= i
<1> DEFINE s == Ends(bytes)
<1>1. s \in SUBSET Nat /\ s # {}
  BY DEF Ends
<1> HIDE DEF s
<1>2. OnScreen!Min(s) \in s /\ \A y \in s : OnScreen!Min(s) <= y
  BY <1>1, OnScreen!MinExists
<1>3. OnScreen!Min(s) = Min(s)
  BY DEF Min, OnScreen!Min
<1> QED BY <1>2, <1>3 DEF s

LEMMA ReadyRange ==
  ASSUME NEW bytes \in Seq(Byte)
  PROVE  /\ Ready(bytes) \in 0..Len(bytes)
         /\ bytes = <<>> => Ready(bytes) = 0
<1>1. Len(bytes) \in Nat /\ (bytes # <<>> => Len(bytes) >= 1)
  OBVIOUS
<1>2. CASE bytes = <<>>
  BY <1>1, <1>2 DEF Ready
<1>3. CASE bytes # <<>> /\ bytes[1] # "ESC"
  <2>1. Ready(bytes) = CharLength(bytes)
    BY <1>3 DEF Ready
  <2> QED BY <1>1, <1>3, <2>1 DEF CharLength
<1>4. CASE bytes # <<>> /\ bytes[1] = "ESC"
  <2>1. Ready(bytes) = EscapeLength(bytes)
    BY <1>4 DEF Ready
  <2>2. CASE Ends(bytes) = {}
    BY <1>1, <1>4, <2>1, <2>2 DEF EscapeLength, Ends
  <2>3. CASE Ends(bytes) # {}
    <3>1. Min(Ends(bytes)) \in 0..Len(bytes)
      BY <1>1, <2>3, EndsMin DEF Ends
    <3> QED BY <1>1, <1>4, <2>1, <2>3, <3>1 DEF EscapeLength, Ends
  <2> QED BY <2>2, <2>3
<1> QED BY <1>2, <1>3, <1>4

LEMMA DecodeIn ==
  ASSUME NEW bytes \in Seq(Byte), bytes # <<>>, bytes[1] # "ESC", Ready(bytes) # 0
  PROVE  Decode(SubSeq(bytes, 1, Ready(bytes))) \in Decoded
<1>1. Len(bytes) \in Nat /\ Len(bytes) >= 1 /\ bytes[1] \in Byte
  OBVIOUS
<1>2. Ready(bytes) = CharLength(bytes)
  BY DEF Ready
<1>3. /\ {"?", "W", "?^"} \subseteq Decoded
      /\ \A b \in Byte : b \notin {"w", "c", "ESC"} => b \in Decoded
  BY DEF Decoded, Character, Printable, Breaks, Byte, Ascii, Finals
<1>4. CASE bytes[1] # "w"
  <2>1. Ready(bytes) = 1
    BY <1>2, <1>4 DEF CharLength
  <2> DEFINE u == SubSeq(bytes, 1, 1)
  <2>2. u = <<bytes[1]>>
    BY <1>1, FirstElement
  <2>3. Decode(u) = IF bytes[1] = "c" THEN "?" ELSE bytes[1]
    BY <2>2 DEF Decode
  <2> QED BY <1>1, <1>3, <1>4, <2>1, <2>3
<1>5. CASE bytes[1] = "w"
  <2>1. Ready(bytes) = 2 /\ Len(bytes) >= 2
    BY <1>1, <1>2, <1>5 DEF CharLength
  <2> DEFINE u == SubSeq(bytes, 1, 2)
  <2>2. u = <<bytes[1], bytes[2]>>
    BY <2>1, FirstTwoElements
  <2>3. Decode(u) \in {"W", "?", "?^"}
    BY <2>2 DEF Decode
  <2> QED BY <1>3, <2>1, <2>3
<1> QED BY <1>4, <1>5

\* What one unit does.
Handled(e, unit) ==
  IF unit[1] = "ESC" THEN HandleEscape(e, unit) ELSE HandleChar(e, Decode(unit))

LEMMA ConsumeIsHandled ==
  ASSUME NEW e, NEW n
  PROVE  Consume(e, n) = Handled([e EXCEPT !.pending = SubSeq(e.pending, n + 1, Len(e.pending))],
                                 SubSeq(e.pending, 1, n))
BY DEF Consume, Handled

LEMMA HandledFramed ==
  ASSUME NEW e \in Editors, NEW bytes \in Seq(Byte), Ready(bytes) # 0,
         NEW p \in Seq(Byte), NEW r \in Seq(Inputs)
  PROVE  LET unit == SubSeq(bytes, 1, Ready(bytes))
         IN Framed(e, Handled(e, unit), Handled(With(e, p, r), unit), p, r)
<1> DEFINE n == Ready(bytes)
           unit == SubSeq(bytes, 1, n)
<1>1. n \in 1..Len(bytes) /\ bytes # <<>>
  BY ReadyRange
<1> HIDE DEF n
<1>2. unit[1] = bytes[1]
  BY <1>1
<1>3. bytes[1] # "ESC" => Decode(unit) \in Decoded
  BY <1>1, DecodeIn DEF n
<1> HIDE DEF unit
<1>4. CASE bytes[1] = "ESC"
  <2>1. Framed(e, HandleEscape(e, unit), HandleEscape(With(e, p, r), unit), p, r)
    BY HandleEscapeFramed
  <2> QED BY <1>2, <1>4, <2>1 DEF Handled, unit, n
<1>5. CASE bytes[1] # "ESC"
  <2>1. Framed(e, HandleChar(e, Decode(unit)), HandleChar(With(e, p, r), Decode(unit)), p, r)
    BY <1>3, <1>5, HandleCharFramed
  <2> QED BY <1>2, <1>5, <2>1 DEF Handled, unit, n
<1> QED BY <1>4, <1>5

\* The bytes without the next unit.
After(bytes) == SubSeq(bytes, Ready(bytes) + 1, Len(bytes))

\* One unit is consumed in the same way whatever comes after it and whatever
\* inputs were finished before.
LEMMA ConsumeNextFramed ==
  ASSUME NEW e \in Editors, Ready(e.pending) # 0
  PROVE  /\ ConsumeNext(e) \in Editors
         /\ ConsumeNext(e).pending = After(e.pending)
         /\ \A x \in Seq(Byte), r \in Seq(Inputs) :
              Ready(e.pending \o x) = Ready(e.pending) =>
                ConsumeNext(With(e, e.pending \o x, r))
                  = With(ConsumeNext(e), After(e.pending) \o x, r)
<1> DEFINE b == e.pending
           n == Ready(b)
           unit == SubSeq(b, 1, n)
           rest == SubSeq(b, n + 1, Len(b))
           g == With(e, rest, <<>>)
<1>1. b \in Seq(Byte) /\ e \in Fields
  BY DEF Editors, Fields
<1> HIDE DEF b
<1>2. n \in 1..Len(b) /\ rest \in Seq(Byte) /\ <<>> \in Seq(Inputs)
  <2>1. n \in 1..Len(b)
    BY <1>1, ReadyRange DEF b
  <2> HIDE DEF n
  <2> QED BY <1>1, <2>1
<1>3. g = [e EXCEPT !.pending = rest]
  <2>1. <<>> \o e.results = e.results
    BY <1>1 DEF Fields
  <2> QED BY <1>1, <2>1 DEF With, Fields
<1>4. g \in Editors /\ g.pending = rest
  BY <1>2, WithIn
<1>5. ConsumeNext(e) = Handled(g, unit)
  BY <1>2, <1>3, ConsumeIsHandled DEF ConsumeNext, b
<1> HIDE DEF g
<1>6. \A p \in Seq(Byte), r \in Seq(Inputs) :
        Framed(g, Handled(g, unit), Handled(With(g, p, r), unit), p, r)
  BY <1>1, <1>4, HandledFramed DEF b
<1>7. ConsumeNext(e) \in Editors /\ ConsumeNext(e).pending = rest
  BY <1>2, <1>4, <1>5, <1>6 DEF Framed
<1>8. ASSUME NEW x \in Seq(Byte), NEW r \in Seq(Inputs), Ready(b \o x) = n
      PROVE  ConsumeNext(With(e, b \o x, r)) = With(ConsumeNext(e), rest \o x, r)
  <2> DEFINE f == With(e, b \o x, r)
             bx == b \o x
  <2>1. bx \in Seq(Byte) /\ f.pending = bx
    <3>1. bx \in Seq(Byte)
      BY <1>1
    <3> HIDE DEF bx
    <3>2. With(e, bx, r).pending = bx
      BY <3>1, WithIn
    <3> QED BY <3>1, <3>2 DEF bx
  <2>2. SubSeq(bx, 1, n) = unit /\ SubSeq(bx, n + 1, Len(bx)) = rest \o x
    <3>1. n \in 0..Len(b) /\ b \in Seq(Byte)
      BY <1>1, <1>2
    <3> HIDE DEF n
    <3> QED BY <3>1, CutConcat
  <2>3. rest \o x \in Seq(Byte)
    BY <1>2
  <2>4. [f EXCEPT !.pending = rest \o x] = With(g, rest \o x, r)
    BY <1>1, <1>3 DEF With, Fields
  <2> HIDE DEF f, bx, unit, rest
  <2>5. ConsumeNext(f) = Consume(f, n)
    BY <1>2, <1>8, <2>1 DEF ConsumeNext, bx
  <2>6. ConsumeNext(f) = Handled(With(g, rest \o x, r), unit)
    BY <2>1, <2>2, <2>4, <2>5, ConsumeIsHandled
  <2>7. Framed(g, Handled(g, unit), Handled(With(g, rest \o x, r), unit), rest \o x, r)
    BY <1>6, <2>3
  <2> QED BY <1>5, <2>6, <2>7 DEF Framed, f
<1> QED BY <1>7, <1>8 DEF After, b

-----------------------------------------------------------------------------
(***************************************************************************)
(* Draining the bytes: unit after unit, until the next is not all there.   *)
(***************************************************************************)
LEMMA ConsumeNextShortens ==
  ASSUME NEW e \in Editors, Ready(e.pending) # 0
  PROVE  /\ ConsumeNext(e) \in Editors
         /\ Len(ConsumeNext(e).pending) < Len(e.pending)
<1>1. e.pending \in Seq(Byte)
  BY DEF Editors
<1> DEFINE b == e.pending
           n == Ready(b)
<1>2. n \in 1..Len(b) /\ b \in Seq(Byte)
  BY <1>1, ReadyRange
<1>3. ConsumeNext(e) \in Editors /\ ConsumeNext(e).pending = SubSeq(b, n + 1, Len(b))
  BY ConsumeNextFramed DEF After
<1> HIDE DEF n, b
<1>4. Len(SubSeq(b, n + 1, Len(b))) = Len(b) - n
  BY <1>2, Cut
<1> QED BY <1>2, <1>3, <1>4 DEF b

\* A set with each editor that has no unit, and with each from which one unit
\* leads into it, has them all.
LEMMA EditorInduction ==
  ASSUME NEW S,
         \A e \in Editors : Ready(e.pending) = 0 => e \in S,
         \A e \in Editors : Ready(e.pending) # 0 /\ ConsumeNext(e) \in S => e \in S
  PROVE  Editors \subseteq S
<1> DEFINE T == {n \in Nat : \A e \in Editors : Len(e.pending) = n => e \in S}
<1>1. ASSUME NEW n \in Nat, \A m \in Nat : m < n => m \in T PROVE n \in T
  <2> SUFFICES ASSUME NEW e \in Editors, Len(e.pending) = n, Ready(e.pending) # 0
               PROVE  e \in S
    OBVIOUS
  <2> DEFINE f == ConsumeNext(e)
  <2>1. f \in Editors /\ Len(f.pending) < n
    BY ConsumeNextShortens
  <2>2. Len(f.pending) \in Nat
    BY <2>1 DEF Editors
  <2> HIDE DEF f
  <2>3. f \in S
    BY <1>1, <2>1, <2>2
  <2> QED BY <2>3 DEF f
<1> HIDE DEF T
<1>2. Nat \subseteq T
  BY <1>1, OnScreen!StrongInduction
<1>3. ASSUME NEW e \in Editors PROVE e \in S
  <2>1. Len(e.pending) \in Nat
    BY DEF Editors
  <2> QED BY <1>2, <2>1 DEF T
<1> QED BY <1>3

\* A fold over any sequence that is long enough drains.
LEMMA FoldDrains ==
  \A e \in Editors : \A t \in Seq(Byte) :
    Len(t) >= Len(e.pending) => OnUnits!Folded(e, t) = Drain(e)
<1> DEFINE S == {e \in Editors : \A t \in Seq(Byte) :
                   Len(t) >= Len(e.pending) => OnUnits!Folded(e, t) = Drain(e)}
<1>1. ASSUME NEW e \in Editors, Ready(e.pending) = 0 PROVE e \in S
  <2>1. NextUnit(e, e) = e /\ \A byte : NextUnit(e, byte) = e
    BY <1>1 DEF NextUnit, ConsumeNext
  <2>2. \A t \in Seq(Byte) : OnUnits!Folded(e, t) = e
    <3>1. e \in {e} /\ \A x \in {e} : \A byte \in Byte : NextUnit(x, byte) \in {e}
      BY <2>1
    <3>2. \A t \in Seq(Byte) : OnUnits!Folded(e, t) \in {e}
      BY <3>1, OnUnits!FoldedIn
    <3> QED BY <3>2
  <2>3. e.pending \in Seq(Byte)
    BY DEF Editors
  <2> QED BY <2>2, <2>3, DrainIsFold
<1>2. ASSUME NEW e \in Editors, Ready(e.pending) # 0, ConsumeNext(e) \in S PROVE e \in S
  <2> DEFINE f == ConsumeNext(e)
             b == e.pending
  <2>1. f \in Editors /\ Len(f.pending) < Len(b) /\ b \in Seq(Byte) /\ f.pending \in Seq(Byte)
    BY <1>2, ConsumeNextShortens DEF Editors
  <2>2. \A t \in Seq(Byte) : Len(t) >= Len(f.pending) => OnUnits!Folded(f, t) = Drain(f)
    BY <1>2
  <2>3. \A byte : NextUnit(e, byte) = f
    BY DEF NextUnit
  <2> HIDE DEF f, b
  <2>4. ASSUME NEW t \in Seq(Byte), Len(t) >= Len(b) PROVE OnUnits!Folded(e, t) = Drain(f)
    <3>1. Len(b) \in Nat /\ Len(f.pending) \in Nat
      BY <2>1
    <3>2. t # <<>>
      BY <2>1, <2>4, <3>1
    <3> DEFINE c == Head(t)
               u == Tail(t)
    <3>3. c \in Byte /\ u \in Seq(Byte) /\ t = <<c>> \o u /\ Len(u) = Len(t) - 1
      BY <3>2
    <3> HIDE DEF c, u
    <3>4. OnUnits!Folded(e, t) = OnUnits!Folded(NextUnit(e, c), u)
      BY <3>3, OnUnits!FoldedFront
    <3>5. Len(u) >= Len(f.pending)
      BY <2>1, <2>4, <3>1, <3>3
    <3> QED BY <2>2, <2>3, <3>3, <3>4, <3>5
  <2>5. OnUnits!Folded(e, b) = Drain(f)
    BY <2>1, <2>4
  <2>6. Drain(e) = Drain(f)
    BY <2>5, DrainIsFold DEF b
  <2> QED BY <2>4, <2>6 DEF b
<1> HIDE DEF S
<1>3. Editors \subseteq S
  BY <1>1, <1>2, EditorInduction
<1> QED BY <1>3 DEF S

LEMMA DrainUnfolds ==
  ASSUME NEW e \in Editors
  PROVE  /\ Ready(e.pending) = 0 => Drain(e) = e
         /\ Ready(e.pending) # 0 => Drain(e) = Drain(ConsumeNext(e))
<1>1. e.pending \in Seq(Byte)
  BY DEF Editors
<1>2. CASE Ready(e.pending) = 0
  <2>1. \A byte : NextUnit(e, byte) = e
    BY <1>2 DEF NextUnit, ConsumeNext
  <2>2. e \in {e} /\ \A x \in {e} : \A byte \in Byte : NextUnit(x, byte) \in {e}
    BY <2>1
  <2>3. OnUnits!Folded(e, e.pending) \in {e}
    BY <1>1, <2>2, OnUnits!FoldedIn
  <2> QED BY <1>2, <2>3, DrainIsFold
<1>3. CASE Ready(e.pending) # 0
  <2> DEFINE f == ConsumeNext(e)
             t == e.pending
             c == Head(t)
             u == Tail(t)
  <2>1. f \in Editors /\ Len(f.pending) < Len(t) /\ f.pending \in Seq(Byte)
    BY <1>3, ConsumeNextShortens DEF Editors
  <2>2. t \in Seq(Byte) /\ t # <<>>
    BY <1>1, <1>3, ReadyRange
  <2>3. NextUnit(e, c) = f
    BY DEF NextUnit
  <2>4. Drain(e) = OnUnits!Folded(e, t)
    BY DrainIsFold
  <2> HIDE DEF f, t
  <2>5. c \in Byte /\ u \in Seq(Byte) /\ t = <<c>> \o u /\ Len(u) = Len(t) - 1
    BY <2>2
  <2> HIDE DEF c, u
  <2>6. OnUnits!Folded(e, t) = OnUnits!Folded(NextUnit(e, c), u)
    BY <2>5, OnUnits!FoldedFront
  <2>7. Len(u) >= Len(f.pending)
    BY <2>1, <2>2, <2>5
  <2>8. OnUnits!Folded(f, u) = Drain(f)
    BY <2>1, <2>5, <2>7, FoldDrains
  <2> QED BY <1>3, <2>3, <2>4, <2>6, <2>8 DEF f
<1> QED BY <1>2, <1>3

\* The last bytes.
Suffix(s, b) == s \in Seq(Byte) /\ \E u \in Seq(Byte) : b = u \o s

LEMMA SuffixOfSuffix ==
  ASSUME NEW s, NEW b, NEW c, Suffix(s, b), Suffix(b, c)
  PROVE  Suffix(s, c)
<1>1. PICK u \in Seq(Byte) : b = u \o s
  BY DEF Suffix
<1>2. PICK v \in Seq(Byte) : c = v \o b
  BY DEF Suffix
<1>3. s \in Seq(Byte)
  BY DEF Suffix
<1>4. v \o u \in Seq(Byte) /\ v \o (u \o s) = (v \o u) \o s
  BY <1>1, <1>2, <1>3
<1> QED BY <1>1, <1>2, <1>3, <1>4 DEF Suffix

LEMMA SuffixConcat ==
  ASSUME NEW s, NEW b, NEW x \in Seq(Byte), Suffix(s, b)
  PROVE  Suffix(s \o x, b \o x)
<1>1. PICK u \in Seq(Byte) : b = u \o s
  BY DEF Suffix
<1>2. s \in Seq(Byte)
  BY DEF Suffix
<1>3. s \o x \in Seq(Byte) /\ (u \o s) \o x = u \o (s \o x)
  BY <1>1, <1>2
<1> QED BY <1>1, <1>3 DEF Suffix

LEMMA SuffixOfItself ==
  ASSUME NEW b \in Seq(Byte)
  PROVE  Suffix(b, b)
<1>1. <<>> \in Seq(Byte) /\ b = <<>> \o b
  OBVIOUS
<1> QED BY <1>1 DEF Suffix

LEMMA AfterIsSuffix ==
  ASSUME NEW b \in Seq(Byte)
  PROVE  Suffix(After(b), b)
<1> DEFINE n == Ready(b)
           u == SubSeq(b, 1, n)
           s == SubSeq(b, n + 1, Len(b))
<1>1. n \in 0..Len(b)
  BY ReadyRange
<1> HIDE DEF n
<1>2. u \in Seq(Byte) /\ s \in Seq(Byte) /\ u \o s = b
  BY <1>1, Cut
<1> HIDE DEF u, s
<1>3. Suffix(s, b)
  BY <1>2 DEF Suffix
<1> QED BY <1>3 DEF After, s, n

\* Every CSI sequence that ends does so before it is given up.
ShortSequences(bytes) ==
  \A i, j \in 1..Len(bytes) :
    /\ i + 2 <= j /\ bytes[i] = "ESC" /\ bytes[i + 1] = "[" /\ bytes[j] \in Finals
    /\ \A k \in (i + 2)..(j - 1) : bytes[k] \notin Finals
    => j - i <= MaxSequence

LEMMA SuffixIsShort ==
  ASSUME NEW s, NEW b, Suffix(s, b), ShortSequences(b)
  PROVE  ShortSequences(s)
<1>1. PICK u \in Seq(Byte) : b = u \o s
  BY DEF Suffix
<1> DEFINE n == Len(u)
<1>2. s \in Seq(Byte)
  BY DEF Suffix
<1>3. /\ n \in Nat /\ Len(s) \in Nat /\ Len(b) = n + Len(s)
      /\ \A i \in 1..Len(s) : b[n + i] = s[i] /\ n + i \in 1..Len(b)
  BY <1>1, <1>2
<1> HIDE DEF n
<1>4. ASSUME NEW i \in 1..Len(s), NEW j \in 1..Len(s),
             i + 2 <= j, s[i] = "ESC", s[i + 1] = "[", s[j] \in Finals,
             \A k \in (i + 2)..(j - 1) : s[k] \notin Finals
      PROVE  j - i <= MaxSequence
  <2>1. n + i \in 1..Len(b) /\ n + j \in 1..Len(b) /\ i + 1 \in 1..Len(s)
    BY <1>3, <1>4
  <2>2. b[n + i] = "ESC" /\ b[n + i + 1] = "[" /\ b[n + j] \in Finals
    <3>1. b[n + (i + 1)] = s[i + 1] /\ n + (i + 1) = n + i + 1
      BY <1>3, <2>1
    <3> QED BY <1>3, <1>4, <3>1
  <2>3. ASSUME NEW k \in (n + i + 2)..(n + j - 1) PROVE b[k] \notin Finals
    <3>1. k - n \in (i + 2)..(j - 1) /\ k - n \in 1..Len(s) /\ n + (k - n) = k
      BY <1>3
    <3>2. s[k - n] \notin Finals
      BY <1>4, <3>1
    <3>3. b[n + (k - n)] = s[k - n]
      BY <1>3, <3>1
    <3> QED BY <3>1, <3>2, <3>3
  <2> DEFINE p == n + i
             q == n + j
  <2>4. /\ p \in 1..Len(b) /\ q \in 1..Len(b) /\ p + 2 <= q /\ q - p = j - i
        /\ b[p] = "ESC" /\ b[p + 1] = "[" /\ b[q] \in Finals
        /\ \A k \in (p + 2)..(q - 1) : b[k] \notin Finals
    <3>1. p + 2 <= q /\ q - p = j - i
      BY <1>3, <1>4
    <3>2. \A k \in (p + 2)..(q - 1) : b[k] \notin Finals
      BY <1>3, <2>3
    <3>3. b[p] = "ESC" /\ b[p + 1] = "[" /\ b[q] \in Finals
      BY <2>2
    <3>4. p \in 1..Len(b) /\ q \in 1..Len(b)
      BY <2>1
    <3> QED BY <3>1, <3>2, <3>3, <3>4
  <2> HIDE DEF p, q
  <2> QED BY <2>4 DEF ShortSequences
<1> QED BY <1>4 DEF ShortSequences

\* What is ready stays ready, as long as it is.
LEMMA StableReady ==
  ASSUME NEW b \in Seq(Byte), NEW x \in Seq(Byte), Ready(b) # 0,
         x = <<>> \/ ShortSequences(b \o x)
  PROVE  Ready(b \o x) = Ready(b)
<1> DEFINE c == b \o x
<1>1. CASE x = <<>>
  <2>1. b \o x = b
    BY <1>1
  <2> QED BY <2>1
<1>2. CASE ShortSequences(c)
  <2>1. b # <<>>
    BY ReadyRange
  <2>2. /\ c \in Seq(Byte) /\ c # <<>> /\ Len(b) \in Nat /\ Len(c) \in Nat
        /\ 1 <= Len(b) /\ Len(b) <= Len(c)
        /\ \A i \in 1..Len(b) : c[i] = b[i]
    BY <2>1
  <2> HIDE DEF c
  <2>3. c[1] = b[1] /\ (2 <= Len(b) => c[2] = b[2])
    BY <2>2
  <2>4. CASE b[1] # "ESC"
    <3>1. Ready(b) = CharLength(b) /\ Ready(c) = CharLength(c)
      BY <2>1, <2>2, <2>3, <2>4 DEF Ready
    <3> QED BY <2>2, <2>3, <3>1 DEF CharLength, c
  <2>5. CASE b[1] = "ESC"
    <3>1. Ready(b) = EscapeLength(b) /\ Ready(c) = EscapeLength(c)
      BY <2>1, <2>2, <2>3, <2>5 DEF Ready
    <3>2. Len(b) >= 2
      BY <2>2, <3>1 DEF EscapeLength
    <3>3. CASE b[2] # "["
      BY <2>2, <2>3, <3>1, <3>2, <3>3 DEF EscapeLength, c
    <3>4. CASE b[2] = "[" /\ Ends(b) # {}
      <4> DEFINE m == Min(Ends(b))
      <4>1. m \in Ends(b) /\ \A i \in Ends(b) : m <= i
        BY <3>4, EndsMin
      <4> HIDE DEF m
      <4>2. m \in 3..Len(b) /\ b[m] \in Finals
        BY <4>1 DEF Ends
      <4>3. m \in Ends(c)
        BY <2>2, <4>2 DEF Ends
      <4>4. ASSUME NEW i \in Ends(c) PROVE m <= i
        <5>1. i \in 3..Len(c) /\ c[i] \in Finals
          BY DEF Ends
        <5>2. CASE i <= Len(b)
          <6>1. i \in 3..Len(b) /\ i \in 1..Len(b)
            BY <2>2, <5>1, <5>2
          <6> QED BY <2>2, <4>1, <5>1, <6>1 DEF Ends
        <5> QED BY <2>2, <4>2, <5>1, <5>2
      <4>5. OnScreen!Min(Ends(c)) = m
        <5>1. Ends(c) \in SUBSET Nat
          BY <2>2 DEF Ends
        <5> QED BY <4>3, <4>4, <5>1, OnScreen!MinIs
      <4>6. Min(Ends(c)) = m
        BY <4>5 DEF Min, OnScreen!Min
      <4>7. EscapeLength(b) = m
        BY <3>2, <3>4 DEF EscapeLength, Ends, m
      <4>8. EscapeLength(c) = Min(Ends(c))
        BY <2>2, <2>3, <3>2, <3>4, <4>3 DEF EscapeLength, Ends
      <4> QED BY <3>1, <4>6, <4>7, <4>8 DEF c
    <3>5. CASE b[2] = "[" /\ Ends(b) = {}
      <4>1. EscapeLength(b) = 2 /\ Len(b) > MaxSequence
        BY <3>1, <3>2, <3>5 DEF EscapeLength, Ends
      <4>2. Ends(c) = {}
        <5> SUFFICES ASSUME Ends(c) # {} PROVE FALSE
          OBVIOUS
        <5> DEFINE m == Min(Ends(c))
        <5>1. m \in Ends(c) /\ \A i \in Ends(c) : m <= i
          BY <2>2, EndsMin
        <5> HIDE DEF m
        <5>2. m \in 3..Len(c) /\ c[m] \in Finals
          BY <5>1 DEF Ends
        <5>3. m > Len(b)
          <6> SUFFICES ASSUME m <= Len(b) PROVE FALSE
            BY <2>2, <5>2
          <6>1. m \in 3..Len(b) /\ m \in 1..Len(b)
            BY <2>2, <5>2
          <6>2. m \in Ends(b)
            BY <2>2, <5>2, <6>1 DEF Ends
          <6> QED BY <3>5, <6>2
        <5>4. ASSUME NEW k \in (1 + 2)..(m - 1) PROVE c[k] \notin Finals
          <6>1. k \in 3..Len(c) /\ k < m
            BY <2>2, <5>2
          <6> QED BY <2>2, <5>1, <5>2, <6>1 DEF Ends
        <5>5. 1 \in 1..Len(c) /\ m \in 1..Len(c) /\ 1 + 2 <= m /\ c[1] = "ESC" /\ c[1 + 1] = "["
          BY <2>2, <2>3, <2>5, <3>2, <3>5, <5>2
        <5>6. m - 1 <= MaxSequence
          BY <1>2, <5>2, <5>4, <5>5 DEF ShortSequences
        <5> QED BY <2>2, <4>1, <5>2, <5>3, <5>6 DEF MaxSequence
      <4>3. EscapeLength(c) = 2
        BY <2>2, <2>3, <3>2, <3>5, <4>1, <4>2 DEF EscapeLength, Ends, MaxSequence
      <4> QED BY <3>1, <4>1, <4>3 DEF c
    <3> QED BY <3>3, <3>4, <3>5
  <2> QED BY <2>4, <2>5
<1> QED BY <1>1, <1>2 DEF c

\* Draining leaves the beginning of one unit.
LEMMA DrainIn ==
  ASSUME NEW e \in Editors
  PROVE  /\ Drain(e) \in Editors /\ Ready(Drain(e).pending) = 0
         /\ Suffix(Drain(e).pending, e.pending)
<1> DEFINE S == {x \in Editors : /\ Drain(x) \in Editors /\ Ready(Drain(x).pending) = 0
                                 /\ Suffix(Drain(x).pending, x.pending)}
<1>1. ASSUME NEW x \in Editors, Ready(x.pending) = 0 PROVE x \in S
  <2>1. Drain(x) = x /\ x.pending \in Seq(Byte)
    BY <1>1, DrainUnfolds DEF Editors
  <2> QED BY <1>1, <2>1, SuffixOfItself
<1>2. ASSUME NEW x \in Editors, Ready(x.pending) # 0, ConsumeNext(x) \in S PROVE x \in S
  <2>1. Drain(x) = Drain(ConsumeNext(x)) /\ x.pending \in Seq(Byte)
    BY <1>2, DrainUnfolds DEF Editors
  <2>2. Suffix(ConsumeNext(x).pending, x.pending)
    BY <1>2, <2>1, ConsumeNextFramed, AfterIsSuffix
  <2>3. Suffix(Drain(x).pending, x.pending)
    BY <1>2, <2>1, <2>2, SuffixOfSuffix
  <2> QED BY <1>2, <2>1, <2>3
<1> HIDE DEF S
<1>3. Editors \subseteq S
  BY <1>1, <1>2, EditorInduction
<1> QED BY <1>3 DEF S

\* Draining first, or reading more first, makes no difference; nor do the
\* inputs that were finished before.
LEMMA DrainFirst ==
  ASSUME NEW x \in Seq(Byte), NEW r \in Seq(Inputs)
  PROVE  \A e \in Editors :
           x = <<>> \/ ShortSequences(e.pending \o x) =>
             Drain(With(e, e.pending \o x, r)) = Drain(With(Drain(e), Drain(e).pending \o x, r))
<1> DEFINE Same(e) == x = <<>> \/ ShortSequences(e.pending \o x) =>
             Drain(With(e, e.pending \o x, r)) = Drain(With(Drain(e), Drain(e).pending \o x, r))
           S == {e \in Editors : Same(e)}
<1>1. ASSUME NEW e \in Editors, Ready(e.pending) = 0 PROVE e \in S
  BY <1>1, DrainUnfolds
<1>2. ASSUME NEW e \in Editors, Ready(e.pending) # 0, ConsumeNext(e) \in S PROVE e \in S
  <2> DEFINE f == ConsumeNext(e)
             b == e.pending
             bx == b \o x
             fx == f.pending \o x
  <2>1. f \in Editors /\ b \in Seq(Byte) /\ f.pending = After(b) /\ f.pending \in Seq(Byte)
    BY <1>2, ConsumeNextFramed DEF Editors
  <2>2. Same(f)
    BY <1>2
  <2>3. Drain(e) = Drain(f)
    BY <1>2, DrainUnfolds
  <2> SUFFICES ASSUME x = <<>> \/ ShortSequences(bx)
               PROVE  Drain(With(e, bx, r)) = Drain(With(Drain(e), Drain(e).pending \o x, r))
    OBVIOUS
  <2>4. Ready(bx) = Ready(b) /\ bx \in Seq(Byte)
    BY <1>2, <2>1, StableReady
  <2>5. ConsumeNext(With(e, bx, r)) = With(f, fx, r)
    BY <1>2, <2>1, <2>4, ConsumeNextFramed
  <2>6. Suffix(fx, bx)
    <3>1. Suffix(f.pending, b)
      BY <2>1, AfterIsSuffix
    <3> HIDE DEF f, b
    <3> QED BY <3>1, SuffixConcat
  <2>7. x = <<>> \/ ShortSequences(fx)
    BY <2>6, SuffixIsShort
  <2> HIDE DEF f, bx
  <2>8. With(e, bx, r) \in Editors /\ With(e, bx, r).pending = bx
    BY <2>4, WithIn
  <2>9. Drain(With(e, bx, r)) = Drain(With(f, fx, r))
    BY <1>2, <2>4, <2>5, <2>8, DrainUnfolds
  <2> QED BY <2>2, <2>3, <2>7, <2>9
<1> HIDE DEF S
<1>3. Editors \subseteq S
  BY <1>1, <1>2, EditorInduction
<1> QED BY <1>3 DEF S

LEMMA FeedIsDrain ==
  ASSUME NEW e \in Editors, NEW x \in Seq(Byte)
  PROVE  /\ Feed(e, x) = Drain(With(e, e.pending \o x, <<>>))
         /\ With(e, e.pending \o x, <<>>) \in Editors
         /\ With(e, e.pending \o x, <<>>).pending = e.pending \o x
<1> DEFINE p == e.pending \o x
<1>1. e \in Fields
  BY DEF Editors, Fields
<1>2. p \in Seq(Byte) /\ <<>> \in Seq(Inputs) /\ <<>> \o e.results = e.results
  BY <1>1 DEF Fields
<1>3. [e EXCEPT !.pending = p] = With(e, p, <<>>)
  BY <1>1, <1>2 DEF With, Fields
<1>4. Feed(e, x) = Drain([e EXCEPT !.pending = p])
  BY DEF Feed
<1> HIDE DEF p
<1>5. With(e, p, <<>>) \in Editors /\ With(e, p, <<>>).pending = p
  BY <1>2, WithIn
<1> QED BY <1>3, <1>4, <1>5 DEF p

LEMMA FeedIn ==
  ASSUME NEW e \in Editors, NEW x \in Seq(Byte)
  PROVE  /\ Feed(e, x) \in Editors /\ Ready(Feed(e, x).pending) = 0
         /\ Suffix(Feed(e, x).pending, e.pending \o x)
BY FeedIsDrain, DrainIn

\* However the bytes are cut into the chunks that os.read returns, they mean
\* the same: _feed of two chunks, one after the other, is _feed of both at
\* once, if no CSI sequence is longer than _consume_escape waits for.  (A
\* longer one is given up, or not, by how much of it has been read.)
THEOREM ChunksDoNotMatter ==
  ASSUME NEW e \in Editors, NEW s \in Seq(Byte), NEW t \in Seq(Byte),
         ShortSequences(e.pending \o (s \o t))
  PROVE  Feed(e, s \o t) = Feed(Feed(e, s), t)
<1> DEFINE none == <<>>
           p == e.pending
           ps == p \o s
           g == With(e, ps, none)
           f == Drain(g)
<1>1. p \in Seq(Byte) /\ none \in Seq(Inputs) /\ s \o t \in Seq(Byte) /\ ps \in Seq(Byte)
  BY DEF Editors
<1>2. p \o (s \o t) = ps \o t
  <2>1. p \in Seq(Byte)
    BY <1>1
  <2> HIDE DEF p
  <2> QED BY <2>1
<1>3. Feed(e, s) = f /\ g \in Editors /\ g.pending = ps
  BY FeedIsDrain
<1>4. Feed(e, s \o t) = Drain(With(e, ps \o t, none))
  BY <1>1, <1>2, FeedIsDrain
<1> HIDE DEF none, ps
<1>5. f \in Editors
  BY <1>3, DrainIn
<1>6. With(g, ps \o t, none) = With(e, ps \o t, none)
  <2> DEFINE rs == e.results
  <2>1. rs \in Seq(Inputs)
    BY DEF Editors
  <2> HIDE DEF rs
  <2>3. none \o (none \o rs) = none \o rs
    BY <2>1 DEF none
  <2>2. e \in Fields
    BY DEF Editors, Fields
  <2> QED BY <2>2, <2>3 DEF With, Fields, rs
<1>7. Drain(With(g, g.pending \o t, none)) = Drain(With(f, f.pending \o t, none))
  <2>1. ShortSequences(g.pending \o t)
    BY <1>2, <1>3
  <2> HIDE DEF f, g
  <2> QED BY <1>1, <1>3, <2>1, DrainFirst DEF f
<1> HIDE DEF f, g
<1>8. Feed(f, t) = Drain(With(f, f.pending \o t, none))
  BY <1>5, FeedIsDrain DEF none
<1> QED BY <1>3, <1>4, <1>6, <1>7, <1>8

\* Draining does not look at the inputs that were finished before.
LEMMA DrainFramed ==
  ASSUME NEW e \in Editors, NEW r \in Seq(Inputs)
  PROVE  Drain(With(e, e.pending, r)) = With(Drain(e), Drain(e).pending, r)
<1> DEFINE none == <<>>
           f == Drain(e)
           g == With(f, f.pending, r)
<1>1. e.pending \in Seq(Byte) /\ f \in Editors /\ f.pending \in Seq(Byte) /\ Ready(f.pending) = 0
  BY DrainIn DEF Editors
<1>2. e.pending \o none = e.pending /\ f.pending \o none = f.pending /\ none \in Seq(Byte)
  BY <1>1
<1> HIDE DEF f
<1>3. g \in Editors /\ g.pending = f.pending
  BY <1>1, WithIn
<1>4. Drain(With(e, e.pending \o none, r)) = Drain(With(f, f.pending \o none, r))
  BY <1>2, DrainFirst DEF f
<1> HIDE DEF g
<1>5. Drain(g) = g
  BY <1>1, <1>3, DrainUnfolds
<1> QED BY <1>2, <1>4, <1>5 DEF f, g

\* Nothing more is read: nothing is done.
LEMMA FeedNothing ==
  ASSUME NEW e \in Editors, Ready(e.pending) = 0
  PROVE  Feed(e, <<>>) = e
<1>1. e \in Fields /\ <<>> \in Seq(Byte)
  BY DEF Editors, Fields
<1>2. e.pending \o <<>> = e.pending /\ <<>> \o e.results = e.results
  BY <1>1 DEF Fields
<1>3. With(e, e.pending, <<>>) = e
  BY <1>1, <1>2 DEF With, Fields
<1> QED BY <1>1, <1>2, <1>3, FeedIsDrain, DrainUnfolds

\* The inputs that were finished before stay in front.
LEMMA FeedFramed ==
  ASSUME NEW e \in Editors, NEW x \in Seq(Byte), NEW r \in Seq(Inputs)
  PROVE  Feed(With(e, e.pending, r), x) = With(Feed(e, x), Feed(e, x).pending, r)
<1> DEFINE p == e.pending
           q == p \o x
           none == <<>>
           g == With(e, q, none)
<1>1. e \in Fields /\ p \in Seq(Byte) /\ none \in Seq(Inputs) /\ q \in Seq(Byte)
  BY DEF Editors, Fields
<1>2. Feed(e, x) = Drain(g) /\ g \in Editors /\ g.pending = q
  BY FeedIsDrain
<1>3. With(e, p, r) \in Editors /\ With(e, p, r).pending = p
  BY <1>1, WithIn
<1>4. Feed(With(e, p, r), x) = Drain(With(With(e, p, r), q, none))
  BY <1>3, FeedIsDrain
<1>5. With(With(e, p, r), q, none) = With(g, q, r)
  <2> DEFINE rs == e.results
  <2>1. rs \in Seq(Inputs)
    BY <1>1 DEF Fields
  <2> HIDE DEF rs, p, q
  <2>2. none \o (r \o rs) = r \o (none \o rs)
    BY <2>1
  <2> QED BY <1>1, <2>2 DEF With, Fields, rs
<1> HIDE DEF g, q
<1>6. Drain(With(g, g.pending, r)) = With(Drain(g), Drain(g).pending, r)
  BY <1>2, DrainFramed
<1> QED BY <1>2, <1>4, <1>5, <1>6

\* What comes in after finished inputs finishes others after them.
LEMMA FeedAppends ==
  ASSUME NEW e \in Editors, NEW x \in Seq(Byte)
  PROVE  \E more \in Seq(Inputs) : Feed(e, x).results = e.results \o more
<1> DEFINE rs == e.results
           p == e.pending
           g == [e EXCEPT !.results = <<>>]
           f == Feed(g, x)
<1>1. e \in Fields /\ e.screen = PutText(FreshScreen, e.buffer) /\ <<>> \in Seq(Inputs)
  BY DEF Editors, Fields
<1>2. g \in Editors /\ g.pending = p /\ p \in Seq(Byte) /\ rs \in Seq(Inputs)
  BY <1>1 DEF Editors, Fields
<1>3. With(g, p, rs) = e
  <2>1. rs \o <<>> = rs
    BY <1>2
  <2> QED BY <1>1, <2>1 DEF With, Fields
<1> HIDE DEF g
<1>4. f \in Editors /\ f.pending \in Seq(Byte) /\ f.results \in Seq(Inputs)
  BY <1>2, FeedIn DEF Editors
<1> HIDE DEF p, rs
<1>5. Feed(With(g, p, rs), x) = With(f, f.pending, rs)
  BY <1>2, FeedFramed
<1> HIDE DEF f
<1>6. With(f, f.pending, rs).results = rs \o f.results
  BY <1>2, <1>4, WithIn
<1> QED BY <1>3, <1>4, <1>5, <1>6 DEF rs

\* The bytes of one unit, and no others.
LEMMA FeedUnit ==
  ASSUME NEW e \in Editors, e.pending = <<>>,
         NEW u \in Seq(Byte), u # <<>>, Ready(u) = Len(u)
  PROVE  /\ Feed(e, u) = Handled(e, u)
         /\ Feed(e, u) \in Editors /\ Feed(e, u).pending = <<>>
<1> DEFINE g == With(e, u, <<>>)
           n == Len(u)
<1>1. e \in Fields /\ <<>> \in Seq(Inputs) /\ n \in Nat /\ n >= 1 /\ n \in 0..n
  BY DEF Editors, Fields
<1>2. /\ SubSeq(u, 1, n) = u /\ SubSeq(u, n + 1, Len(u)) = <<>> /\ <<>> \o u = u
      /\ <<>> \o e.results = e.results
  BY <1>1 DEF Fields
<1>3. Feed(e, u) = Drain(g) /\ g \in Editors /\ g.pending = u
  <2> DEFINE p == e.pending \o u
  <2>1. p = u
    BY <1>2
  <2>2. /\ Feed(e, u) = Drain(With(e, p, <<>>)) /\ With(e, p, <<>>) \in Editors
        /\ With(e, p, <<>>).pending = p
    BY FeedIsDrain
  <2> HIDE DEF p
  <2> QED BY <2>1, <2>2
<1>4. [g EXCEPT !.pending = <<>>] = e
  BY <1>1, <1>2 DEF With, Fields
<1> HIDE DEF g
<1>5. ConsumeNext(g) = Handled(e, u)
  <2>1. ConsumeNext(g) = Consume(g, n)
    BY <1>1, <1>3 DEF ConsumeNext
  <2> HIDE DEF n
  <2>2. Consume(g, n) = Handled([g EXCEPT !.pending = SubSeq(u, n + 1, Len(u))], SubSeq(u, 1, n))
    BY <1>3, ConsumeIsHandled
  <2> QED BY <1>2, <1>4, <2>1, <2>2
<1>6. Handled(e, u) \in Editors /\ Handled(e, u).pending = <<>>
  <2>1. Ready(u) # 0
    BY <1>1
  <2>2. Framed(e, Handled(e, SubSeq(u, 1, Ready(u))),
               Handled(With(e, u, <<>>), SubSeq(u, 1, Ready(u))), u, <<>>)
    BY <1>1, <2>1, HandledFramed
  <2> QED BY <1>2, <2>2 DEF Framed
<1>7. Drain(Handled(e, u)) = Handled(e, u)
  <2>1. Ready(<<>>) = 0
    BY DEF Ready
  <2> QED BY <1>6, <2>1, DrainUnfolds
<1> QED BY <1>1, <1>3, <1>5, <1>6, <1>7, DrainUnfolds
=============================================================================
