----------------------------- MODULE TerminalEditor -----------------------------
(***************************************************************************)
(* The line editor of a windowed Terminal (kernel/terminal.cpp): the key   *)
(* presses TaskTerminal hands to Terminal::InputKey, the line buffer, the  *)
(* cursor column, the command history deque and Terminal::HistoryUpDown.   *)
(* The line buffer is the sequence _linebuf[0 .. _linebuf_index - 1]: the  *)
(* bytes after the index are never read, because '\n' writes the          *)
(* terminator at the index and HistoryUpDown copies one with strcpy.  The  *)
(* cursor row, scrolling and drawing are left out.  ExecuteLine is         *)
(* abstracted to the characters it prints: any sequence of at most         *)
(* MaxOutput half-width, full-width or newline characters, which          *)
(* Terminal::Print(char32_t) lays out; an empty line prints nothing.       *)
(***************************************************************************)
EXTENDS Integers, Sequences, SequencesExt

CONSTANTS Chars,        \* the printable ascii values the keys produce
          kColumns,     \* Terminal::kColumns
          kLineMax,     \* Terminal::kLineMax
          HistorySize,  \* _cmd_history.resize(8) in the constructor
          MaxOutput     \* bound on the characters one command prints

\* The ascii values InputKey tells apart besides the printable ones.
Newline == "LF"
Backspace == "BS"
NoAscii == "NUL"
Ascii == Chars \cup {Newline, Backspace, NoAscii}

\* The keycodes of the arrow keys (InputKey 430-436).
DownArrow == 81   \* 0x51
UpArrow == 82     \* 0x52

\* What Print(char32_t) tells apart in a printed character.
OutputChars == {"newline", "hankaku", "zenkaku"}
Outputs == BoundedSeq(OutputChars, MaxOutput)

VARIABLES
  linebuf,            \* _linebuf[0 .. _linebuf_index - 1]
  cursor_x,           \* _cursor.x
  cmd_history,        \* _cmd_history, front first
  cmd_history_index,  \* _cmd_history_index
  committed           \* history: the non-empty lines Enter took, newest first

editor_vars == <<linebuf, cursor_x, cmd_history, cmd_history_index, committed>>

\* The constructor prints the prompt ">" at column 0 (terminal.cpp 366) and
\* resizes the history to HistorySize empty lines (line 374).
Init ==
  /\ linebuf = << >>
  /\ cursor_x = 1
  /\ cmd_history = [i \in 1 .. HistorySize |-> << >>]
  /\ cmd_history_index = -1
  /\ committed = << >>

\* Terminal::Print(char32_t) (terminal.cpp 929-965) on the cursor column of a
\* windowed terminal: a newline goes to column 0; a half-width character at
\* column kColumns first wraps, then takes one cell; a full-width one wraps
\* from column kColumns - 1 on and takes two.
PrintChar(x, c) ==
  CASE c = "newline" -> 0
    [] c = "hankaku" -> (IF x = kColumns THEN 0 ELSE x) + 1
    [] c = "zenkaku" -> (IF x >= kColumns - 1 THEN 0 ELSE x) + 2

\* Terminal::Print(const char*) (terminal.cpp 888-909): Print(char32_t) on
\* every character in turn.
PrintString(x, s) == FoldLeft(PrintChar, x, s)

\* Mutant: the line is pushed at the back of the deque.
EnterPushBack ==
  IF linebuf /= << >> THEN Tail(cmd_history) \o <<linebuf>> ELSE cmd_history

\* The history update of '\n' (terminal.cpp 392-395): a non-empty line
\* replaces the oldest entry, pop_back then push_front.
EnterHistory ==
  IF linebuf /= << >> THEN <<linebuf>> \o Front(cmd_history) ELSE cmd_history

\* InputKey on '\n' (terminal.cpp 389-408): terminate and record the line,
\* reset the index and the history position, go to column 0 of the next
\* row, run the line, then print the prompt.
Enter ==
  /\ cmd_history' = EnterHistory
  /\ committed' = IF linebuf /= << >>
                    THEN SubSeq(<<linebuf>> \o committed, 1,
                                IF Len(committed) < HistorySize
                                  THEN Len(committed) + 1 ELSE HistorySize)
                    ELSE committed
  /\ linebuf' = << >>
  /\ cmd_history_index' = -1
  /\ \E out \in Outputs :
       /\ linebuf = << >> => out = << >>
       /\ cursor_x' = PrintChar(PrintString(0, out), "hankaku")

\* InputKey on '\b' (terminal.cpp 409-420): the cursor moves back while it
\* is right of column 1, and the line loses its last character if it has
\* one.  Column 1 is right of the prompt only when the prompt is at 0, so
\* after a command whose output did not end with a newline the cursor can
\* move back over the prompt and the output.
Erase ==
  /\ cursor_x > 1
  /\ cursor_x' = cursor_x - 1
  /\ linebuf' = IF linebuf /= << >> THEN Front(linebuf) ELSE linebuf
  /\ UNCHANGED <<cmd_history, cmd_history_index, committed>>

\* The room test of terminal.cpp 422: the cursor is left of the last column
\* and the buffer keeps a byte for the terminator.
HasRoom == cursor_x < kColumns - 1 /\ Len(linebuf) < kLineMax - 1

\* InputKey on any other non-zero ascii (terminal.cpp 421-428) when there is
\* room: the character is appended and the cursor moves on.
Type(c) ==
  /\ HasRoom
  /\ cursor_x' = cursor_x + 1
  /\ linebuf' = Append(linebuf, c)
  /\ UNCHANGED <<cmd_history, cmd_history_index, committed>>

\* Terminal::HistoryUpDown (terminal.cpp 978-1004): down (-1) moves towards
\* the newest entry and then to -1, up (1) towards the oldest while an entry
\* is left; the line becomes the entry at the index, or empty at -1, and the
\* cursor goes to its end.
HistoryUpDown(direction) ==
  LET idx == IF direction = -1 /\ cmd_history_index >= 0
               THEN cmd_history_index - 1
             ELSE IF direction = 1 /\ cmd_history_index + 1 < Len(cmd_history)
               THEN cmd_history_index + 1
             ELSE cmd_history_index
      line == IF idx >= 0 THEN cmd_history[idx + 1] ELSE << >>
  IN  /\ cmd_history_index' = idx
      /\ linebuf' = line
      /\ cursor_x' = Len(line) + 1
      /\ UNCHANGED <<cmd_history, committed>>

\* The keys InputKey does nothing for: ascii 0 and not an arrow.
Ignored(keycode, ascii) == ascii = NoAscii /\ keycode \notin {DownArrow, UpArrow}

\* Terminal::InputKey (terminal.cpp 385-440) for a key press that is not
\* Ignored.
InputKey(keycode, ascii) ==
  \/ ascii = Newline /\ Enter
  \/ ascii = Backspace /\ Erase
  \/ ascii = Backspace /\ cursor_x <= 1 /\ UNCHANGED editor_vars
  \/ ascii \in Chars /\ Type(ascii)
  \/ ascii \in Chars /\ ~HasRoom /\ UNCHANGED editor_vars
  \/ ascii = NoAscii /\ keycode = DownArrow /\ HistoryUpDown(-1)
  \/ ascii = NoAscii /\ keycode = UpArrow /\ HistoryUpDown(1)

-----------------------------------------------------------------------------
IsLine(l) == l \in Seq(Chars) /\ Len(l) <= kLineMax - 1

EditorTypeOK ==
  /\ IsLine(linebuf)
  /\ cursor_x \in 0 .. kColumns
  /\ Len(cmd_history) = HistorySize /\ \A i \in 1 .. HistorySize : IsLine(cmd_history[i])
  /\ cmd_history_index \in -1 .. HistorySize - 1
  /\ Len(committed) <= HistorySize
  /\ \A i \in DOMAIN committed : IsLine(committed[i]) /\ committed[i] /= << >>

\* The line HistoryUpDown shows for a history position, read from the
\* record of the lines entered rather than from the deque: the idx-th most
\* recent non-empty line, or nothing past the lines entered and at -1.
Recalled(idx) ==
  IF idx >= 0 /\ idx < Len(committed) THEN committed[idx + 1] ELSE << >>
================================================================================
