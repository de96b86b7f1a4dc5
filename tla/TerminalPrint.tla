--------------------------- MODULE TerminalPrint ---------------------------
(***************************************************************************)
(* What a terminal does with the bytes an application, a pipe or the cat   *)
(* command writes to it: TerminalFileDescriptor::Write(buf, len) calls     *)
(* Terminal::Print(s, len) (terminal.cpp), whose loop decodes one UTF-8    *)
(* character at s[i] with ConvertUTF8To32 (font.cpp), prints it with       *)
(* Print(char32_t) and advances i by the number of bytes decoded.  Print   *)
(* of a character moves the cursor: one column for a half-width character *)
(* (IsHankaku), two for a full-width one, wrapping and scrolling at the    *)
(* window's edges.                                                         *)
(*                                                                         *)
(* The bytes are integers 0..255.  Memory past the written bytes is the    *)
(* NUL vsprintf appends and then bytes left in its buffer (Junk), which a  *)
(* multi-byte decode at the end may read.                                  *)
(***************************************************************************)
EXTENDS Integers, Sequences, Bitwise

CONSTANTS
  kRows, kColumns,  \* Terminal::kRows, Terminal::kColumns
  Texts,            \* the byte strings a caller may write
  Junk,             \* the bytes that may follow the terminating NUL
  MaxWrites         \* bound on the writes in a behaviour

VARIABLES
  mem,       \* s[0..]: the written bytes, a NUL, then leftover bytes
  len,       \* the len argument (ptrlen)
  i,         \* the loop index i
  pc,        \* "idle" or "loop" (inside Print's while loop)
  cursor,    \* _cursor
  writes     \* number of writes so far (bound)

print_vars == <<mem, len, i, pc, cursor, writes>>

kBox == 9633      \* U'\u25A1' (a white square), printed for a code point 0
kNewline == 10

(* CountUTF8Size(c): the length a lead byte announces, 0 for a byte that   *)
(* cannot start a character.                                               *)
CountUTF8Size(c) ==
  CASE c < 128              -> 1
    [] 192 <= c /\ c < 224  -> 2
    [] 224 <= c /\ c < 240  -> 3
    [] 240 <= c /\ c < 248  -> 4
    [] OTHER                -> 0

(* ConvertUTF8To32(&s[k]): the code point and the bytes it took, {0, 0}    *)
(* for a byte that cannot start a character.  It reads the continuation    *)
(* bytes without checking them, or the end of the buffer.                  *)
ConvertUTF8To32(m, k) ==
  LET b(j) == m[k + j + 1]
      low(j) == b(j) & 63
  IN CASE CountUTF8Size(b(0)) = 1 -> [u32 |-> b(0), bytes |-> 1]
       [] CountUTF8Size(b(0)) = 2 ->
            [u32 |-> (b(0) & 31) * 2^6 + low(1), bytes |-> 2]
       [] CountUTF8Size(b(0)) = 3 ->
            [u32 |-> (b(0) & 15) * 2^12 + low(1) * 2^6 + low(2), bytes |-> 3]
       [] CountUTF8Size(b(0)) = 4 ->
            [u32 |-> (b(0) & 7) * 2^18 + low(1) * 2^12 + low(2) * 2^6 + low(3),
             bytes |-> 4]
       [] OTHER -> [u32 |-> 0, bytes |-> 0]

IsHankaku(c) == c <= 127

(* The newline lambda of Print(char32_t): ScrollOneLine keeps the cursor   *)
(* on the last row.                                                        *)
NewlineAt(cur) ==
  [x |-> 0, y |-> IF cur.y < kRows - 1 THEN cur.y + 1 ELSE cur.y]

(* Terminal::Print(char32_t c) on a shown window: the cursor after c.      *)
PrintChar(cur, c) ==
  CASE c = kNewline -> NewlineAt(cur)
    [] IsHankaku(c) ->
         LET at == IF cur.x = kColumns THEN NewlineAt(cur) ELSE cur
         IN [at EXCEPT !.x = @ + 1]
    [] OTHER ->
         LET at == IF cur.x >= kColumns - 1 THEN NewlineAt(cur) ELSE cur
         IN [at EXCEPT !.x = @ + 2]

PrintTypeOK ==
  /\ pc \in {"idle", "loop"}
  /\ cursor \in [x : 0..kColumns, y : 0..(kRows - 1)]
  /\ i \in Nat /\ len \in Nat
  /\ writes \in 0..MaxWrites

PrintInit ==
  /\ mem = <<0>>
  /\ len = 0
  /\ i = 0
  /\ pc = "idle"
  /\ cursor = [x |-> 0, y |-> 0]
  /\ writes = 0

(* TerminalFileDescriptor::Write(buf, len) enters Print(buf, len): the     *)
(* cursor is hidden and i = 0.                                             *)
Write(t, junk) ==
  /\ pc = "idle"
  /\ writes < MaxWrites
  /\ writes' = writes + 1
  /\ mem' = t \o <<0>> \o junk
  /\ len' = Len(t)
  /\ i' = 0
  /\ pc' = "loop"
  /\ UNCHANGED cursor

(* One turn of the loop while(s[i] && i < ptrlen): decode, print the code  *)
(* point or a box for 0, advance i by the bytes decoded.                   *)
PrintStep ==
  LET d == ConvertUTF8To32(mem, i) IN
  /\ pc = "loop"
  /\ mem[i + 1] # 0 /\ i < len
  /\ cursor' = PrintChar(cursor, IF d.u32 # 0 THEN d.u32 ELSE kBox)
  /\ i' = i + d.bytes
  /\ UNCHANGED <<mem, len, pc, writes>>

(* The loop ends: the cursor is drawn again and a DrawArea message for the *)
(* rows printed goes to the main task; Write calls Redraw and returns.     *)
PrintDone ==
  /\ pc = "loop"
  /\ ~(mem[i + 1] # 0 /\ i < len)
  /\ pc' = "idle"
  /\ UNCHANGED <<mem, len, i, cursor, writes>>

PrintNext ==
  \/ \E t \in Texts, junk \in Junk : Write(t, junk)
  \/ PrintStep
  \/ PrintDone

(* The terminal task runs whenever it is ready (the scheduler's round     *)
(* robin), so a loop turn that is enabled is eventually taken.             *)
PrintFairness == WF_print_vars(PrintStep \/ PrintDone)

PrintSpec == PrintInit /\ [][PrintNext]_print_vars /\ PrintFairness

(* Every Write returns: the loop of Terminal::Print ends for every byte    *)
(* string, as its own fallback of printing U+25A1 for a character it       *)
(* cannot decode means it to.                                              *)
PrintReturns == (pc = "loop") ~> (pc = "idle")

=============================================================================
