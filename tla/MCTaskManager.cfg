\* Main, idle, the wall clock and a terminal, with room for one more task (a
\* pipe's right-hand side or a terminal opened with F2).
CONSTANTS
  MaxTasks = 5
  MaxMsgs = 1
  Budget = 2
  InitRoles <- MCRoles
  SubCommands = {"cat", "echo"}
  kPipeData = 2
  MaxPipeBytes = 3
  ReadLens = {1}
  TaskBStart = "loop"
SPECIFICATION Spec
INVARIANT TypeOK RunQueuesMatchReady CurrentLevelIsHighest ContextsHoldOwnTask PipeDelivers
PROPERTY ReadyTaskRuns WaitFinishReturns
