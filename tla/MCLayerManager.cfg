CONSTANTS
  T1 = T1
  T2 = T2
  Terminals <- MCTerminals
  MaxMsgs <- MCMaxMsgs
SYMMETRY Perms
SPECIFICATION Spec
CHECK_DEADLOCK FALSE
INVARIANT TypeOK
INVARIANT StackWellFormed
INVARIANT ActiveJustBelowMouse
INVARIANT TaskMapMatchesTerminals
