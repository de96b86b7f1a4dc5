\* TaskB before count reaches 10000, with the wall clock: TaskB's
\* task.Sleep() runs with interrupts enabled (main.cpp 161).
CONSTANTS
  MaxTasks = 4
  MaxMsgs = 1
  Budget = 2
  InitRoles <- MCRolesTaskB
  SubCommands = {"cat", "echo"}
  kPipeData = 2
  MaxPipeBytes = 3
  ReadLens = {1}
  TaskBStart = "count"
  DebugKeys = FALSE
SPECIFICATION SpecUnprotected
INVARIANT ContextsHoldOwnTask
