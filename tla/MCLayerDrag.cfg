CONSTANTS
  T1 = T1
  T2 = T2
  Terminals <- MCTerminals
  MaxMsgs <- MCDragMaxMsgs
SYMMETRY Perms
SPECIFICATION Spec
CHECK_DEADLOCK FALSE
INVARIANT NoNullDereference
