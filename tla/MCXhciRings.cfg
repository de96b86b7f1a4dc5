\* A command ring of 4 slots (3 usable, a Link TRB every third push) and an
\* event ring of 3 slots: both wrap many times within the search, and the
\* event ring fills up so that the controller has to wait.  Two commands
\* tell any reordering, loss or duplication apart.
CONSTANTS
  CN = 4
  EN = 3
  c1 = c1
  c2 = c2
  Cmds <- MCCmds
SPECIFICATION Spec
INVARIANT TypeOK CompletionsFollowCommands
PROPERTY CommandRingIsFifo EventRingIsFifo
