--------------------------- MODULE MCTerminalPrint ---------------------------
(***************************************************************************)
(* Writes to a terminal of the byte strings cat and applications produce: *)
(* ASCII with a newline, a two-byte and a three-byte UTF-8 character, and  *)
(* a byte of a Latin-1 or binary file (0xA9) that is no UTF-8 lead byte.   *)
(***************************************************************************)
EXTENDS TerminalPrint

\* "A\n", U+00E9, U+3042, and 0xA9 (the copyright sign in Latin-1) then "A"
MCTexts == { <<65, 10>>, <<195, 169>>, <<227, 129, 130>>, <<169, 65>> }

\* whatever the rest of vsprintf's buffer holds
MCJunk == { <<0, 0, 0>>, <<65, 65, 65>> }
=============================================================================
