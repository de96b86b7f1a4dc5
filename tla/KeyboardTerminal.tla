---------------------------- MODULE KeyboardTerminal ----------------------------
(***************************************************************************)
(* The USB keyboard driver (HidKeyboard) feeding the line editor of the    *)
(* active terminal (TerminalEditor).  Every NotifyKeyPush becomes a        *)
(* kKeyPush message that main's loop forwards, through layer_task_map, to  *)
(* the task of the active window (main.cpp 482-515); the terminal task     *)
(* takes the messages from its queue in order and hands the presses to     *)
(* Terminal::InputKey (terminal.cpp 1079-1093).  The two queues, main's    *)
(* and the terminal's, are FIFO and nothing else reads key messages, so    *)
(* they are one queue here, keyq.  The keycode-to-ascii table is built by  *)
(* the keyboard observer, which this repository does not contain; KeyAscii *)
(* gives it for the keys of the model.                                     *)
(***************************************************************************)
EXTENDS Integers, Sequences, SequencesExt

CONSTANTS KeyCodes, ReportKeys, KeyAscii,
          Chars, kColumns, kLineMax, HistorySize, MaxOutput,
          MaxPending   \* bound on the key messages queued for the terminal

VARIABLES buf, prev_buf, notified, down,
          linebuf, cursor_x, cmd_history, cmd_history_index, committed,
          keyq         \* the kKeyPush messages on their way to the terminal

KB == INSTANCE HidKeyboard
ED == INSTANCE TerminalEditor

keyboard_vars == <<buf, prev_buf, notified, down>>
editor_vars == <<linebuf, cursor_x, cmd_history, cmd_history_index, committed>>
vars == <<keyboard_vars, editor_vars, keyq>>

Init == KB!Init /\ ED!Init /\ keyq = << >>

\* A report reaches the driver; each notification is queued for the
\* terminal, releases included (main forwards both).
ReportArrives(r) ==
  /\ Len(keyq) + Len(KB!KeyEvents(prev_buf, r)) <= MaxPending
  /\ KB!ReceiveReport(r)
  /\ keyq' = keyq \o KB!KeyEvents(prev_buf, r)
  /\ UNCHANGED editor_vars

\* TaskTerminal's kKeyPush case (terminal.cpp 1079-1093): a press goes to
\* InputKey; a release, and a press InputKey ignores, change nothing.
TerminalKeyPush ==
  /\ keyq /= << >>
  /\ LET key == Head(keyq).key
         ascii == KeyAscii[key]
     IN  \/ Head(keyq).press /\ ~ED!Ignored(key, ascii) /\ ED!InputKey(key, ascii)
         \/ (~Head(keyq).press \/ ED!Ignored(key, ascii)) /\ UNCHANGED editor_vars
  /\ keyq' = Tail(keyq)
  /\ UNCHANGED keyboard_vars

Next ==
  \/ \E r \in KB!Reports : ReportArrives(r)
  \/ TerminalKeyPush

Spec == Init /\ [][Next]_vars

-----------------------------------------------------------------------------
TypeOK ==
  /\ KB!TypeOK
  /\ ED!EditorTypeOK
  /\ keyq \in Seq([key : KeyCodes \ {0}, press : BOOLEAN])
  /\ Len(keyq) <= MaxPending

\* Edge detection (keyboard.cpp 40-53, the "multiple press support"): after
\* every report, the keys the observer has been told are down are exactly
\* the non-zero scan codes of that report, however many keys changed at once
\* and whatever slots they moved between.
ObserverInSync == KB!ObserverInSync

\* Every NotifyKeyPush of a report is an edge (keyboard.cpp 49-53): a key is
\* reported pressed only when the observer has it up, released only when
\* it has it down, and no key twice for one report.
NotificationsAreEdges == [][KB!EdgeNotifications]_keyboard_vars

\* Command history (terminal.cpp 392-395 with HistoryUpDown 978-1004):
\* whenever the terminal handles an up or down arrow press, the history
\* position stays inside the deque and the line it shows is the one that
\* many Enters back, counting only non-empty lines and at most HistorySize
\* of them, or an empty line past them.  It needs the deque pre-filled with
\* empty lines, the pop_back before each push_front, the skip of empty lines
\* and both index guards to agree.
HistoryRecall ==
  [][ (keyq /= << >> /\ keyq' = Tail(keyq) /\ Head(keyq).press
       /\ Head(keyq).key \in {ED!DownArrow, ED!UpArrow})
      => /\ cmd_history_index' \in -1 .. HistorySize - 1
         /\ linebuf' = ED!Recalled(cmd_history_index') ]_vars
================================================================================
