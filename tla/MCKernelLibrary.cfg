\* TimerManager: the real frequency (kTaskTimerPeriod = 2, half a second =
\* 50 ticks) over two and a half wall-clock periods.
\* MemoryManager: a bitmap of 3 lines of 4 bits, the maps of MCMemoryMaps.
\* UsbMemory: a pool of 128 units of 16 bytes at a base aligned to 64 bytes
\* but not to a boundary; five calls fill it.
\* Console: 3 rows of 3 columns (2 visible), so that lines are cut and the
\* console scrolls within the bound on the printed text.
\* RpnShell: the real argv_len and argbuf_len; lines of up to 6 characters
\* after "rpn" hold up to three words.
\* TerminalPrint: 2 rows of 3 columns, so that half- and full-width
\* characters wrap and scroll within three writes.
CONSTANTS
  kTimerFreq = 100
  MaxTick = 250
  StartWindow = 3
  kBitsPerMapLine = 4
  MapLines = 3
  MemoryMaps <- MCMemoryMaps
  kHeapFrames = 2
  MaxRequest = 3
  MaxBlocks = 4
  SizeBits = 16
  PoolBase = 12
  kMemoryPollSize = 128
  Requests <- MCRequests
  MaxCalls = 5
  kRows = 3
  kColumns = 3
  Chars = {"a", "b"}
  MaxText = 7
  MaxPut = 2
  Cmd = Cmd
  CmdLen = 3
  LineChars = {" ", "1", "2", "+", "-"}
  MaxLine = 6
  MaxLines = 1
  ArgvLen = 32
  ArgbufLen = 3840
  UBResults = {0, 7}
  TermRows = 2
  TermColumns = 3
  Texts <- MCTexts
  Junk <- MCJunk
  MaxWrites = 3
SPECIFICATION Spec
\* The timer part stops at MaxTick, the memory part halts when the heap
\* does not fit, and the pool, console, shell and print parts stop at their bounds.
CHECK_DEADLOCK FALSE
INVARIANT TypeOK
INVARIANT TaskTimerArmed
INVARIANT PeriodicTimersInPhase
INVARIANT BlocksOwnAvailableFrames
INVARIANT NoOverrun
INVARIANT PoolAllocationsSound
INVARIANT ConsoleShowsTail
INVARIANT RpnMatchesReference
PROPERTY TimersFireWhenDue
PROPERTY AllocateIsFirstFit
