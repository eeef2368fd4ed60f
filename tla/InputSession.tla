----------------------------- MODULE InputSession -----------------------------
(***************************************************************************)
(* The chat's input at a terminal: a person who types, the bytes that the  *)
(* kernel holds, the task of InputReader with TtyLineEditor.read_line, the *)
(* worker, which takes the terminal away for the approval screen and       *)
(* prints answers, and the end of the session.                             *)
(*                                                                         *)
(* A step of a task ends where the code awaits; add_reader calls back      *)
(* between them.  What the person does in the approval screen is left out. *)
(***************************************************************************)
EXTENDS LineEditor

CONSTANTS
  Keys,             \* the keys the person uses
  MaxKeys,          \* bound: keys pressed
  Backlog,          \* bound: bytes waiting when a key is pressed
  MaxScreens,       \* bound: approval screens
  MaxOutputs        \* bound: answers printed

VARIABLES
  ed,               \* the editor's _pending, _paste_mode, _buffer, _results, and the screen
  kernel,           \* bytes typed and not read
  reader,           \* where the reader's task is
  paused, raw, closed,         \* the editor's flags; raw is the terminal's mode, too
  approving,        \* whether the approval screen runs
  stopping,         \* whether the shell has left its wait for the stop event
  actions,          \* texts handed to on_action
  meant,            \* history: what the keys pressed mean
  taken,            \* history: the approval screen has read bytes
  mixed,            \* an answer was printed into the line being typed
  keys, screens, outputs       \* counters of the bounds

vars == <<ed, kernel, reader, paused, raw, closed, approving, stopping, actions,
          meant, taken, mixed, keys, screens, outputs>>

\* "wait": a future and add_reader; "woken": the future is done; "parked" and
\* "unparked": the resume event, not set and set.
Reader == {"top", "wait", "woken", "parked", "unparked", "ended", "cancelled"}

Init ==
  /\ ed = NewEditor /\ kernel = <<>> /\ reader = "top"
  /\ paused = FALSE /\ raw = FALSE /\ closed = FALSE
  /\ approving = FALSE /\ stopping = FALSE /\ actions = <<>>
  /\ meant = [text |-> <<>>, sent |-> <<>>, eof |-> FALSE]
  /\ taken = FALSE /\ mixed = FALSE
  /\ keys = 0 /\ screens = 0 /\ outputs = 0

-----------------------------------------------------------------------------
(***************************************************************************)
(* InputReader.run: a text is one input, unless it is blank.               *)
(***************************************************************************)
Blank(text) == \A i \in DOMAIN text : text[i] = "NL"

Stripped(text) ==
  SubSeq(text, 1, Max({0} \cup {i \in DOMAIN text : text[i] # "NL"}))

\* Mutant: blank texts are handed on, too.
EmitBlank(sent, text) == Append(sent, Stripped(text))

Emit(sent, text) == IF Blank(text) THEN sent ELSE Append(sent, Stripped(text))

(***************************************************************************)
(* The keys: their bytes, as the terminal sends them with the protocols    *)
(* switched on, and their meaning.                                         *)
(***************************************************************************)
KeyBytes ==
  [a |-> <<"a">>, wide |-> <<"w", "c">>, mark |-> <<"m">>,
   enter |-> <<"CR">>, shiftEnter |-> <<"ESC", "[", "13;2", "u">>,
   altEnter |-> <<"ESC", "CR">>, ctrlJ |-> <<"LF">>, backspace |-> <<"BS">>,
   ctrlD |-> <<"EOT">>, arrow |-> <<"ESC", "[", "A">>,
   paste |-> PasteStart \o <<"a", "CR">> \o PasteEnd]

ASSUME KeysAssumption == Keys \subseteq DOMAIN KeyBytes

Typed ==
  [a |-> <<"a">>, wide |-> <<"W">>, mark |-> <<"m">>,
   shiftEnter |-> <<"NL">>, altEnter |-> <<"NL">>, ctrlJ |-> <<"NL">>,
   arrow |-> <<>>, paste |-> <<"a", "NL">>]

Means(m, key) ==
  IF m.eof THEN m
  ELSE CASE key = "ctrlD" /\ m.text = <<>> -> [m EXCEPT !.eof = TRUE]
         [] key = "enter" \/ (key = "ctrlD" /\ m.text # <<>>) ->
              [m EXCEPT !.text = <<>>, !.sent = Emit(@, m.text)]
         [] key = "backspace" ->
              IF m.text = <<>> THEN m
              ELSE [m EXCEPT !.text = IF Last(@) = "NL" THEN Front(@) ELSE DropGrapheme(@)]
         [] OTHER -> [m EXCEPT !.text = @ \o Typed[key]]

\* A combining character is not typed at the start of a line.
PressKey ==
  /\ keys < MaxKeys /\ ~approving /\ ~stopping /\ Len(kernel) <= Backlog
  /\ \E key \in Keys :
       /\ key = "mark" => LineOf(meant.text) # <<>>
       /\ kernel' = kernel \o KeyBytes[key]
       /\ meant' = Means(meant, key)
  /\ keys' = keys + 1
  /\ UNCHANGED <<ed, reader, paused, raw, closed, approving, stopping, actions, taken,
                 mixed, screens, outputs>>

-----------------------------------------------------------------------------
(***************************************************************************)
(* The reader's task: read_line, called again and again by run.            *)
(***************************************************************************)
ReaderTakes ==
  /\ reader = "top" /\ ed.results # <<>>
  /\ ed' = [ed EXCEPT !.results = Tail(@)]
  /\ IF Head(ed.results) = EndOfInput
       THEN reader' = "ended" /\ UNCHANGED actions
       ELSE actions' = Emit(actions, Head(ed.results)) /\ UNCHANGED reader
  /\ UNCHANGED <<kernel, paused, raw, closed, approving, stopping, meant, taken, mixed,
                 keys, screens, outputs>>

\* Only a read_line that runs has anybody waiting for the resume event.
ReaderWaits ==
  /\ reader = "top" /\ ed.results = <<>>
  /\ IF paused THEN reader' = "parked" /\ UNCHANGED raw
               ELSE reader' = "wait" /\ raw' = TRUE
  /\ UNCHANGED <<ed, kernel, paused, closed, approving, stopping, actions, meant, taken,
                 mixed, keys, screens, outputs>>

ReaderWakes ==
  /\ reader \in {"woken", "unparked"}
  /\ reader' = "top"
  /\ UNCHANGED <<ed, kernel, paused, raw, closed, approving, stopping, actions, meant,
                 taken, mixed, keys, screens, outputs>>

\* _on_readable: os.read returns some of the bytes, and the future is done.
ReadChunk ==
  /\ reader = "wait" /\ kernel # <<>>
  /\ \E n \in DOMAIN kernel :
       /\ ed' = Feed(ed, SubSeq(kernel, 1, n))
       /\ kernel' = SubSeq(kernel, n + 1, Len(kernel))
       /\ mixed' = (mixed /\ Feed(ed, SubSeq(kernel, 1, n)).results = <<>>)
  /\ reader' = "woken"
  /\ UNCHANGED <<paused, raw, closed, approving, stopping, actions, meant, taken,
                 keys, screens, outputs>>

\* The terminal hangs up: os.read returns nothing, or fails.
HangUp ==
  /\ reader = "wait" /\ kernel = <<>> /\ ~meant.eof
  /\ ed' = [ed EXCEPT !.results = Append(@, EndOfInput)]
  /\ meant' = [meant EXCEPT !.eof = TRUE]
  /\ reader' = "woken"
  /\ UNCHANGED <<kernel, paused, raw, closed, approving, stopping, actions, taken, mixed,
                 keys, screens, outputs>>

-----------------------------------------------------------------------------
(***************************************************************************)
(* The worker.                                                             *)
(***************************************************************************)
\* Mutant: the reader is not woken and goes on reading.
PauseKeepsReader ==
  /\ paused' = TRUE /\ raw' = FALSE
  /\ UNCHANGED reader

Pause ==
  /\ paused' = TRUE /\ raw' = FALSE
  /\ reader' = IF reader = "wait" THEN "woken" ELSE reader

\* Mutant: the resume event is not set.
ResumeForgets ==
  /\ paused' = FALSE /\ raw' = TRUE
  /\ UNCHANGED reader

Resume ==
  /\ paused' = FALSE /\ raw' = TRUE
  /\ reader' = IF reader = "parked" THEN "unparked" ELSE reader

\* TextualApprovalPresenter.decide
ApprovalBegins ==
  /\ ~approving /\ ~closed /\ screens < MaxScreens
  /\ approving' = TRUE /\ screens' = screens + 1
  /\ Pause
  /\ UNCHANGED <<ed, kernel, closed, stopping, actions, meant, taken, mixed, keys, outputs>>

\* Textual's driver reads what is there; it restores the terminal it found.
ApprovalReads ==
  /\ approving /\ kernel # <<>>
  /\ \E n \in DOMAIN kernel : kernel' = SubSeq(kernel, n + 1, Len(kernel))
  /\ taken' = TRUE
  /\ UNCHANGED <<ed, reader, paused, raw, closed, approving, stopping, actions, meant,
                 mixed, keys, screens, outputs>>

\* A decision, an error or a cancellation.
ApprovalEnds ==
  /\ approving
  /\ approving' = FALSE
  /\ Resume
  /\ UNCHANGED <<ed, kernel, closed, stopping, actions, meant, taken, mixed, keys, screens,
                 outputs>>

\* on_output is print: the screen is shared with the line being typed.
PrintAnswer ==
  /\ ~approving /\ ~stopping /\ outputs < MaxOutputs
  /\ outputs' = outputs + 1
  /\ mixed' = (mixed \/ ed.buffer # <<>>)
  /\ UNCHANGED <<ed, kernel, reader, paused, raw, closed, approving, stopping, actions,
                 meant, taken, keys, screens>>

-----------------------------------------------------------------------------
(***************************************************************************)
(* The end: run leaves its wait and cancels the reader; the worker may     *)
(* still be at work; main closes the editor when all tasks are done.       *)
(***************************************************************************)
Stop ==
  /\ ~stopping
  /\ stopping' = TRUE
  /\ reader' = IF reader = "ended" THEN "ended" ELSE "cancelled"
  /\ UNCHANGED <<ed, kernel, paused, raw, closed, approving, actions, meant, taken, mixed,
                 keys, screens, outputs>>

Close ==
  /\ stopping /\ ~approving /\ ~closed
  /\ closed' = TRUE /\ raw' = FALSE
  /\ UNCHANGED <<ed, kernel, reader, paused, approving, stopping, actions, meant, taken,
                 mixed, keys, screens, outputs>>

ReaderTask == ReaderTakes \/ ReaderWaits \/ ReaderWakes \/ ReadChunk

Next ==
  \/ PressKey \/ ReaderTask \/ HangUp
  \/ ApprovalBegins \/ ApprovalReads \/ ApprovalEnds \/ PrintAnswer
  \/ Stop \/ Close

Spec == Init /\ [][Next]_vars

\* When a step of the reader's task is possible, and that it was taken.
ReaderReady ==
  reader \in {"top", "woken", "unparked"} \/ (reader = "wait" /\ kernel # <<>>)
ReaderSteps ==
  (reader' # reader \/ ed' # ed) /\ UNCHANGED <<paused, stopping>>

\* The event loop runs what is ready: this is WF_vars(ReaderTask), written out
\* so that it can be checked without reading the bytes again.
FairSpec == Spec /\ ([]<>~ReaderReady \/ []<><<ReaderSteps>>_vars)

-----------------------------------------------------------------------------
(***************************************************************************)
(* What is checked.                                                        *)
(***************************************************************************)
IsText(t) == ToSet(t) \subseteq Character

\* Every variable has its type: texts hold characters, never bytes of one or
\* of a sequence, and _pending holds the beginning of one unit.
TypeOK ==
  /\ IsText(ed.buffer) /\ ed.paste \in BOOLEAN
  /\ \A i \in DOMAIN ed.results : ed.results[i] = EndOfInput \/ IsText(ed.results[i])
  /\ ToSet(ed.pending) \cup ToSet(kernel) \subseteq Byte
  /\ Ready(ed.pending) = 0
  /\ reader \in Reader
  /\ {paused, raw, closed, approving, stopping, taken, mixed, meant.eof} \subseteq BOOLEAN
  /\ \A i \in DOMAIN actions : IsText(actions[i]) /\ ~Blank(actions[i])

\* However the bytes are cut into chunks, and wherever the approval screen or
\* the end comes between them, the texts handed on and the line being typed
\* are what the keys mean, and with the bytes still unread they are what all
\* keys so far mean (_feed, _consume_escape, read_line, pause, resume).
Results(results) ==
  LET end == {i \in DOMAIN results : results[i] = EndOfInput}
      texts == IF end = {} THEN results ELSE SubSeq(results, 1, Min(end) - 1)
  IN FoldLeft(Emit, actions, texts)

KeysMeanText ==
  ~taken =>
    LET all == Feed(ed, kernel)
    IN /\ (IF reader = "ended" THEN actions ELSE Results(all.results)) = meant.sent
       /\ ~meant.eof => all.buffer = meant.text /\ all.pending = <<>> /\ ~all.paste

\* What is on the screen is the text being typed, as a terminal shows it when
\* it is typed anew below the same row: nothing of a deleted character stays
\* and nothing above is erased (_line_layout, _backspace, _delete_newline).
ScreenIsBuffer ==
  ~mixed => ed.screen = PutText(FreshScreen, ed.buffer)

\* While the approval screen runs, and after the end, the terminal is in the
\* mode the program found it in, and the editor does not read from it
\* (pause, resume, close).
TerminalOwner ==
  approving \/ closed => ~raw /\ reader # "wait"

\* What is typed is read, unless an approval screen stays for good or the
\* session ends: no wake-up is lost between pause, resume and the reader.
TypedIsRead ==
  kernel # <<>> ~> (kernel = <<>> \/ reader \in {"ended", "cancelled"} \/ []approving)
=============================================================================
