\* A terminal of 2 rows of 3 columns: the cursor wraps and scrolls within
\* two writes.
CONSTANTS
  kRows = 2
  kColumns = 3
  Texts <- MCTexts
  Junk <- MCJunk
  MaxWrites = 2
SPECIFICATION PrintSpec
\* The writer stops after MaxWrites writes.
CHECK_DEADLOCK FALSE
PROPERTY PrintReturns
