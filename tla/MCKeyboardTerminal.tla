--------------------------- MODULE MCKeyboardTerminal ---------------------------
EXTENDS KeyboardTerminal

\* The HID usage IDs of the keys of the model: 'a', Enter, Backspace and
\* the down and up arrows.
MCKeyCodes == {0, 4, 40, 42, 81, 82}
MCKeyAscii == [k \in MCKeyCodes \ {0} |->
                 CASE k = 4 -> "a"
                   [] k = 40 -> "LF"
                   [] k = 42 -> "BS"
                   [] OTHER -> "NUL"]
================================================================================
