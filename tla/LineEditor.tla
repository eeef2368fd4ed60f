------------------------------ MODULE LineEditor ------------------------------
(***************************************************************************)
(* TtyLineEditor without its reader: what the bytes of the terminal do to  *)
(* the buffer, to the finished inputs and, by their echo, to the screen.   *)
(*                                                                         *)
(* Bytes and characters are strings.  "w" and "c" are the two bytes of the *)
(* wide character "W", "m" is a combining character, any other byte is a   *)
(* character; the parameters of a CSI sequence are one byte, and of the    *)
(* bytes "@" to "~" that end one, Finals has three: the two with a meaning *)
(* and one of an ignored key.  A line break in a text is "NL".  The screen *)
(* is as high as need be: scrolling and a change of its width are left     *)
(* out.                                                                    *)
(***************************************************************************)
EXTENDS Naturals, Sequences, SequencesExt

CONSTANT Width      \* columns of the terminal
ASSUME WidthAssumption == Width \in Nat /\ Width >= 2

Breaks == {"CR", "LF"}
Finals == {"~", "u", "A"}
Ascii  == {"a", "m", "[", "200", "201", "13;2"} \cup Finals
Byte   == Ascii \cup Breaks \cup {"w", "c", "ESC", "BS", "EOT"}

\* "?" is what is shown for bytes that are no UTF-8, "?^" for a "?" and a
\* control character.
Printable == Ascii \cup {"W", "?"}
Character == Printable \cup {"NL", "BS", "EOT", "?^"}

PasteStart == <<"ESC", "[", "200", "~">>
PasteEnd   == <<"ESC", "[", "201", "~">>
ShiftEnter == {<<"ESC", "[", "13;2", "u">>, <<"ESC", "CR">>}

EndOfInput == <<"EOF">>

-----------------------------------------------------------------------------
(***************************************************************************)
(* The terminal: a cursor that may rest behind the last column, where the  *)
(* next character wraps; a wide character is not split.                    *)
(***************************************************************************)
Cells(c) == IF c = "W" THEN 2 ELSE IF c \in {"m", "BS", "EOT"} THEN 0 ELSE 1

\* One row that is not the editor's, and the row where a line starts.
FreshScreen == [rows |-> <<<<<<"#">>>>, <<>>>>, row |-> 2, col |-> 0]

NewRow(s) ==
  [rows |-> IF s.row = Len(s.rows) THEN Append(s.rows, <<>>) ELSE s.rows,
   row |-> s.row + 1, col |-> 0]

PutAt(s, c) ==
  LET row == s.rows[s.row]
      new == IF c = "W" THEN <<<<c>>, <<>>>> ELSE <<<<c>>>>
  IN [s EXCEPT !.rows[s.row] = SubSeq(row, 1, s.col) \o new
                                 \o SubSeq(row, s.col + Cells(c) + 1, Len(row)),
               !.col = @ + Cells(c)]

PutChar(s, c) ==
  CASE c = "NL" -> NewRow(s)
    [] c \in {"BS", "EOT"} -> s
    [] c = "m" -> IF s.col = 0 THEN s ELSE [s EXCEPT !.rows[s.row][s.col] = Append(@, "m")]
    [] OTHER -> PutAt(IF s.col + Cells(c) > Width THEN NewRow(s) ELSE s, c)

PutText(s, text) == FoldLeft(PutChar, s, text)

Least(i, j) == IF i < j THEN i ELSE j

\* CR, cursor up, erase to the end of the screen.
BackAndErase(s, up) ==
  LET row == s.row - Least(up, s.row - 1)
  IN [rows |-> Append(SubSeq(s.rows, 1, row - 1), <<>>), row |-> row, col |-> 0]

-----------------------------------------------------------------------------
(***************************************************************************)
(* The buffer.                                                             *)
(***************************************************************************)
NewEditor ==
  [pending |-> <<>>, paste |-> FALSE, buffer |-> <<>>, results |-> <<>>,
   screen |-> FreshScreen]

\* A character without width is part of the grapheme before it.
Graphemes(line) ==
  FoldLeft(LAMBDA gs, c : IF Cells(c) = 0 /\ gs # <<>>
                            THEN [gs EXCEPT ![Len(gs)] = Append(@, c)]
                            ELSE Append(gs, <<c>>),
           <<>>, line)

\* Mutant: as if every row were full.
LayoutByDivision(line) ==
  LET cells == FoldLeft(LAMBDA n, c : n + Cells(c), 0, line)
  IN [row |-> cells \div Width, col |-> cells % Width]

\* _line_layout: row and column of the cursor after the line.
LineLayout(line) ==
  FoldLeft(LAMBDA at, g :
             LET width == Cells(g[1])
             IN IF at.col + width <= Width THEN [at EXCEPT !.col = @ + width]
                                           ELSE [row |-> at.row + 1, col |-> width],
           [row |-> 0, col |-> 0], Graphemes(line))

\* Index of the last line break, which is not part of the line.
LineStart(text) == Max({0} \cup {i \in DOMAIN text : text[i] = "NL"})
LineOf(text) == SubSeq(text, LineStart(text) + 1, Len(text))

Redraw(ed, up, text) ==
  [ed EXCEPT !.buffer = text, !.screen = PutText(BackAndErase(@, up), LineOf(text))]

Insert(ed, c) ==
  [ed EXCEPT !.buffer = Append(@, c), !.screen = PutChar(@, c)]

DropGrapheme(text) ==
  SubSeq(text, 1, Len(text) - Len(Last(Graphemes(LineOf(text)))))

\* _backspace and _delete_newline.
Backspace(ed) ==
  IF ed.buffer = <<>> THEN ed
  ELSE IF Last(ed.buffer) = "NL"
    THEN LET joined == Front(ed.buffer)
         IN Redraw(ed, LineLayout(LineOf(joined)).row + 1, joined)
    ELSE Redraw(ed, LineLayout(LineOf(ed.buffer)).row, DropGrapheme(ed.buffer))

\* The screen starts again below the text that was sent.
Submit(ed) ==
  [ed EXCEPT !.results = Append(@, ed.buffer), !.buffer = <<>>, !.screen = FreshScreen]

-----------------------------------------------------------------------------
(***************************************************************************)
(* The bytes.                                                              *)
(***************************************************************************)
\* In a paste every character is text.
HandleChar(ed, c) ==
  CASE c \in Breaks /\ ed.paste -> Insert(ed, "NL")
    [] c \notin Breaks /\ ed.paste -> Insert(ed, c)
    [] c = "CR" /\ ~ed.paste -> Submit(ed)
    [] c = "LF" /\ ~ed.paste -> Insert(ed, "NL")
    [] c = "BS" /\ ~ed.paste -> Backspace(ed)
    [] c = "EOT" /\ ~ed.paste ->
         IF ed.buffer = <<>> THEN [ed EXCEPT !.results = Append(@, EndOfInput)] ELSE Submit(ed)
    [] c \in Printable /\ ~ed.paste -> Insert(ed, c)
    [] OTHER -> ed

\* Any other sequence is ignored.
HandleEscape(ed, sequence) ==
  CASE sequence = PasteStart -> [ed EXCEPT !.paste = TRUE]
    [] sequence = PasteEnd -> [ed EXCEPT !.paste = FALSE]
    [] sequence \in ShiftEnter /\ ~ed.paste -> Insert(ed, "NL")
    [] OTHER -> ed

\* How many bytes make the next character; 0 if they are not all there.
CharLength(bytes) ==
  IF bytes[1] # "w" THEN 1 ELSE IF Len(bytes) < 2 THEN 0 ELSE 2

\* Mutant: a sequence is as long as what has been read of it.
EscapeSoFar(bytes) ==
  LET ends == {i \in 3..Len(bytes) : bytes[i] \in Finals}
  IN IF Len(bytes) < 2 THEN 1
     ELSE IF bytes[2] # "[" THEN 2 ELSE IF ends # {} THEN Min(ends) ELSE Len(bytes)

MaxSequence == 64

\* How many bytes make the next escape sequence.  An ESC and a byte are one;
\* a CSI sequence that does not end is given up after 64 bytes.
EscapeLength(bytes) ==
  LET ends == {i \in 3..Len(bytes) : bytes[i] \in Finals}
  IN IF Len(bytes) < 2 THEN 0
     ELSE IF bytes[2] # "[" THEN 2
     ELSE IF ends # {} THEN Min(ends)
     ELSE IF Len(bytes) > MaxSequence THEN 2 ELSE 0

\* A lead byte takes the next one with it: if that is a control character the
\* two are not printable.
Decode(bytes) ==
  CASE bytes = <<"w", "c">> -> "W"
    [] Len(bytes) = 1 -> IF bytes = <<"c">> THEN "?" ELSE bytes[1]
    [] OTHER -> IF bytes[2] \in Ascii \cup {"w"} THEN "?" ELSE "?^"

Consume(ed, n) ==
  LET unit == SubSeq(ed.pending, 1, n)
      rest == [ed EXCEPT !.pending = SubSeq(@, n + 1, Len(@))]
  IN IF unit[1] = "ESC" THEN HandleEscape(rest, unit) ELSE HandleChar(rest, Decode(unit))

Ready(bytes) ==
  IF bytes = <<>> THEN 0
  ELSE IF bytes[1] = "ESC" THEN EscapeLength(bytes) ELSE CharLength(bytes)

\* The next unit, if its bytes are all there.
ConsumeNext(ed) ==
  LET n == Ready(ed.pending) IN IF n = 0 THEN ed ELSE Consume(ed, n)

\* There are no more units than bytes.
Drain(ed) == FoldLeft(LAMBDA e, byte : ConsumeNext(e), ed, ed.pending)

Feed(ed, chunk) == Drain([ed EXCEPT !.pending = @ \o chunk])
=============================================================================
