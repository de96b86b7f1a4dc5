------------------------------ MODULE Console ------------------------------
(***************************************************************************)
(* The kernel console (console.cpp) that printk writes to.  The console   *)
(* keeps a text buffer of kRows rows of kColumns+1 bytes and a cursor, and *)
(* draws each character with WriteAscii as it puts it.  When the cursor    *)
(* passes the last row, NewLine scrolls: it moves the drawn rows up (in a  *)
(* window) or clears the whole writer (on the bare frame buffer), copies   *)
(* the buffer rows up, redraws them with WriteString and clears the last   *)
(* buffer row.                                                             *)
(*                                                                         *)
(* What is drawn is modelled by what WriteAscii does: it sets the glyph's  *)
(* foreground pixels and leaves the others, so a cell of the surface holds *)
(* the set of glyphs drawn into it since it was last filled.  Characters   *)
(* are ASCII model values; printed is the history of everything put.      *)
(***************************************************************************)
EXTENDS Integers, Sequences, SequencesExt

CONSTANTS
  kRows, kColumns,  \* Console::kRows, Console::kColumns
  Chars,            \* the printable characters printk writes
  MaxText,          \* bound on the characters printed in a behaviour
  MaxPut            \* bound on the length of one PutString argument

VARIABLES
  buffer,         \* _buffer[kRows][kColumns + 1]
  cursor_row,     \* _cursor_row
  cursor_column,  \* _cursor_column
  target,         \* "screen" before SetWindow, "window" after (_window)
  surface,        \* the glyphs drawn on the current writer, per cell
  printed         \* history: every character put, in order

console_vars == <<buffer, cursor_row, cursor_column, target, surface, printed>>

NL == "\n"
NUL == "NUL"
Rows == 0..(kRows - 1)
Cols == 0..kColumns
EmptyRow == [c \in Cols |-> NUL]
BlankRow == [c \in Cols |-> {}]

(* WriteString(writer, {0, 16 * row}, _buffer[row]): the glyphs of the     *)
(* row up to its NUL, drawn over what the cells hold.                      *)
RowText(row) ==
  LET len == CHOOSE n \in Cols : row[n] = NUL /\ \A i \in 0..(n - 1) : row[i] # NUL
  IN  [i \in 1..len |-> row[i - 1]]

WriteString(cells, row) ==
  [c \in Cols |-> IF c < Len(RowText(row)) THEN cells[c] \cup {row[c]} ELSE cells[c]]

(* A console state as PutString sees it.                                   *)
St(b, r, c, s) == [buffer |-> b, row |-> r, col |-> c, surface |-> s]

(* Mutant of NewLineSt: the window's last row is not filled after Move.    *)
NewLineStNoFill(st, win) ==
  IF st.row < kRows - 1
  THEN St(st.buffer, st.row + 1, 0, st.surface)
  ELSE LET b == [r \in Rows |-> IF r < kRows - 1 THEN st.buffer[r + 1] ELSE EmptyRow]
           moved == IF win
                    THEN [r \in Rows |-> IF r < kRows - 1 THEN st.surface[r + 1] ELSE st.surface[r]]
                    ELSE [r \in Rows |-> BlankRow]
       IN  St(b, st.row, 0,
              [r \in Rows |-> IF r < kRows - 1 THEN WriteString(moved[r], b[r]) ELSE moved[r]])

(* NewLine(), lines 73-94.                                                 *)
NewLineSt(st, win) ==
  IF st.row < kRows - 1
  THEN St(st.buffer, st.row + 1, 0, st.surface)
  ELSE LET b == [r \in Rows |-> IF r < kRows - 1 THEN st.buffer[r + 1] ELSE EmptyRow]
           \* Move({0,0}, rows 1..) and fill the last row, or fill it all
           moved == IF win
                    THEN [r \in Rows |-> IF r < kRows - 1 THEN st.surface[r + 1] ELSE BlankRow]
                    ELSE [r \in Rows |-> BlankRow]
       IN  St(b, st.row, 0,
              [r \in Rows |-> IF r < kRows - 1 THEN WriteString(moved[r], b[r]) ELSE moved[r]])

(* One character of PutString's loop, lines 21-27: a character past       *)
(* column kColumns - 2 is dropped.                                         *)
PutCharSt(st, ch, win) ==
  IF ch = NL THEN NewLineSt(st, win)
  ELSE IF st.col < kColumns - 1
  THEN St([st.buffer EXCEPT ![st.row][st.col] = ch], st.row, st.col + 1,
          [st.surface EXCEPT ![st.row][st.col] = @ \cup {ch}])
  ELSE st

RECURSIVE PutStringSt(_, _, _)
PutStringSt(st, s, win) ==
  IF s = <<>> THEN st ELSE PutStringSt(PutCharSt(st, Head(s), win), Tail(s), win)

(* Refresh(): fill the writer, then draw every row.                        *)
Refresh(b) == [r \in Rows |-> WriteString(BlankRow, b[r])]

ConsoleTypeOK ==
  /\ buffer \in [Rows -> [Cols -> Chars \cup {NUL}]]
  /\ cursor_row \in Rows
  /\ cursor_column \in 0..(kColumns - 1)
  /\ target \in {"screen", "window"}
  /\ surface \in [Rows -> [Cols -> SUBSET Chars]]
  /\ printed \in Seq(Chars \cup {NL})

(* InitializeConsole: the constructor zeroes the buffer, then              *)
(* SetWriter(screen_pixel_writer) refreshes the frame buffer.              *)
ConsoleInit ==
  /\ buffer = [r \in Rows |-> EmptyRow]
  /\ cursor_row = 0
  /\ cursor_column = 0
  /\ target = "screen"
  /\ surface = Refresh([r \in Rows |-> EmptyRow])
  /\ printed = <<>>

(* Console::PutString(s) for one printk; the trailing                      *)
(* layer_manager->Draw(_layer_id) only copies the window to the screen.    *)
PutString(s) ==
  LET st == PutStringSt(St(buffer, cursor_row, cursor_column, surface), s,
                        target = "window")
  IN  /\ Len(printed) + Len(s) <= MaxText
      /\ buffer' = st.buffer
      /\ cursor_row' = st.row
      /\ cursor_column' = st.col
      /\ surface' = st.surface
      /\ printed' = printed \o s
      /\ UNCHANGED target

(* Console::SetWindow(console_window) in InitializeLayer: the early return *)
(* when the window is already set, then Refresh() into the new window.     *)
SetWindow ==
  /\ target # "window"
  /\ target' = "window"
  /\ surface' = Refresh(buffer)
  /\ UNCHANGED <<buffer, cursor_row, cursor_column, printed>>

ConsoleNext ==
  \/ \E s \in BoundedSeq(Chars \cup {NL}, MaxPut) \ {<<>>} : PutString(s)
  \/ SetWindow

(* The lines of a text: split at each newline.                            *)
TextLines(t) ==
  FoldLeft(LAMBDA ls, ch : IF ch = NL THEN Append(ls, <<>>)
                           ELSE [ls EXCEPT ![Len(ls)] = Append(@, ch)],
           <<<<>>>>, t)

(* What a console of kRows rows of kColumns - 1 visible characters should  *)
(* show after printing t: its last kRows lines, each cut to its first      *)
(* kColumns - 1 characters.                                                *)
Shown(t) ==
  LET ls == TextLines(t)
      n  == Len(ls)
      from == IF n > kRows THEN n - kRows + 1 ELSE 1
  IN [i \in 1..(n - from + 1) |->
        LET l == ls[from + i - 1]
        IN  SubSeq(l, 1, IF Len(l) < kColumns - 1 THEN Len(l) ELSE kColumns - 1)]

(* After any sequence of printk calls, with or without the switch to the   *)
(* console window, each cell of the console's writer holds exactly the     *)
(* glyph of the character the tail of the printed text puts there (one     *)
(* glyph, no leftover of a scrolled-away line), and the cursor is just     *)
(* after the last line's visible text.                                     *)
ConsoleShowsTail ==
  LET sh == Shown(printed) IN
  /\ cursor_row = Len(sh) - 1
  /\ cursor_column = Len(sh[Len(sh)])
  /\ \A r \in Rows, c \in Cols :
       surface[r][c] = IF r < Len(sh) /\ c < Len(sh[r + 1]) THEN {sh[r + 1][c + 1]} ELSE {}

=============================================================================
