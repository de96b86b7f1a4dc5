\* Two scan-code slots and five keys; a 4-column terminal, so a line holds at
\* most two characters; two history entries, so a third line evicts one;
\* commands print at most two characters.
CONSTANTS
  KeyCodes <- MCKeyCodes
  KeyAscii <- MCKeyAscii
  ReportKeys = 2
  Chars = {"a"}
  kColumns = 4
  kLineMax = 6
  HistorySize = 2
  MaxOutput = 2
  MaxPending = 2

SPECIFICATION Spec
INVARIANT TypeOK
INVARIANT ObserverInSync
PROPERTY NotificationsAreEdges
PROPERTY HistoryRecall
