------------------------------ MODULE HidKeyboard ------------------------------
(***************************************************************************)
(* HIDKeyboardDriver of usb/classdriver/keyboard.cpp on top of             *)
(* HIDBaseDriver::OnInterruptCompleted (usb/classdriver/hid.cpp): every    *)
(* boot report the keyboard sends is compared with the previous one, one   *)
(* key-push notification (keycode, pressed or released) goes to the       *)
(* observer per key whose presence changed, and the report becomes the     *)
(* previous one.  The modifier byte is passed through unchanged and is     *)
(* left out; a report is its scan-code bytes (bytes 2 .. 7).               *)
(***************************************************************************)
EXTENDS Naturals, Sequences, SequencesExt

CONSTANTS KeyCodes,    \* the values a scan-code byte may take; 0 = no key
          ReportKeys   \* scan-code bytes per report (6 in the boot report)

Slots == 1 .. ReportKeys
Reports == [Slots -> KeyCodes]
NoKeys == [i \in Slots |-> 0]

VARIABLES
  buf,        \* the scan-code bytes of _buf, the report just received
  prev_buf,   \* the scan-code bytes of _previous_buf
  notified,   \* the NotifyKeyPush calls of the last OnDataReceived, in order
  down        \* the keys the observer has been told are pressed (history)

vars == <<buf, prev_buf, notified, down>>

\* The driver is allocated from the zero-filled USB memory pool, which is
\* never reused, and its buffers have no initializer: both start all zero.
Init ==
  /\ buf = NoKeys
  /\ prev_buf = NoKeys
  /\ notified = << >>
  /\ down = {}

\* std::bitset<256>::set over bytes 2 .. 7 (keyboard.cpp 40-45): the set of
\* byte values in a report, 0 included.
Presence(r) == ToSet(r)

\* Mutant: changed as prev | current.
ChangedUnion(p, c) == Presence(p) \cup Presence(c)

\* changed = prev ^ current (keyboard.cpp 46)
Changed(p, c) == SymDiff(Presence(p), Presence(c))

\* Mutant: pressed as changed & prev.
PressedFromPrevious(p, c) == Changed(p, c) \cap Presence(p)

\* pressed = changed & current (keyboard.cpp 47)
Pressed(p, c) == Changed(p, c) \cap Presence(c)

\* A finite set of numbers as a sequence in increasing order.
RECURSIVE Ascending(_)
Ascending(S) == IF S = {} THEN << >> ELSE <<Min(S)>> \o Ascending(S \ {Min(S)})

\* The loop of keyboard.cpp 49-53 over key = lo .. 255: one notification per
\* changed key, in increasing keycode order.
ScanKeys(lo, p, c) ==
  LET keys == Ascending({k \in Changed(p, c) : lo <= k /\ k <= 255})
  IN  [i \in DOMAIN keys |-> [key |-> keys[i], press |-> keys[i] \in Pressed(p, c)]]

\* Mutant: the loop starts at key 0.
KeyEventsFromZero(p, c) == ScanKeys(0, p, c)

\* HIDKeyboardDriver::OnDataReceived (keyboard.cpp 26-55): the loop starts
\* at key 1, so byte value 0 (an empty slot) is never notified.
KeyEvents(p, c) == ScanKeys(1, p, c)

\* What the observer knows after a notification.
Observe(held, ev) == IF ev.press THEN held \cup {ev.key} ELSE held \ {ev.key}

\* HIDBaseDriver::OnInterruptCompleted (hid.cpp 47-55) for a report r:
\* OnDataReceived, the copy into _previous_buf, and the next interrupt-in
\* (which the xHCI model tracks).
ReceiveReport(r) ==
  LET evs == KeyEvents(prev_buf, r) IN
  /\ buf' = r
  /\ notified' = evs
  /\ prev_buf' = r
  /\ down' = FoldLeft(Observe, down, evs)

Next == \E r \in Reports : ReceiveReport(r)

Spec == Init /\ [][Next]_vars

-----------------------------------------------------------------------------
TypeOK ==
  /\ buf \in Reports /\ prev_buf \in Reports
  /\ notified \in Seq([key : 1 .. 255, press : BOOLEAN])
  /\ down \subseteq 1 .. 255

\* Edge detection (keyboard.cpp 40-53, the "multiple press support"): after
\* every report, the keys the observer has been told are down are exactly
\* the non-zero scan codes of that report, however many keys changed at once
\* and whatever slots they moved between.
ObserverInSync == down = Presence(buf) \ {0}

\* A step whose notifications are all edges: a key is reported pressed only
\* when the observer has it up, released only when it has it down, and no
\* key is reported twice for one report.
EdgeNotifications ==
  \A i \in 1 .. Len(notified') :
    /\ notified'[i].press = (notified'[i].key \notin down)
    /\ \A j \in 1 .. Len(notified') : i < j => notified'[i].key /= notified'[j].key

=============================================================================
