--------------------------- MODULE MCKernelLibrary ---------------------------
(***************************************************************************)
(* The kernel's sequential services, checked side by side in one model:    *)
(* the timer queue, the frame allocator, the USB DMA pool, the console, a  *)
(* terminal line running the rpn application, and a terminal printing      *)
(* well-formed UTF-8.  None of them shares state with another, so a        *)
(* behaviour exercises one part, chosen in the initial state, while the    *)
(* others stay in an initial state of their own: the state spaces add up   *)
(* instead of multiplying.                                                 *)
(***************************************************************************)
EXTENDS UsbMemory, Console, RpnShell

CONSTANTS
  \* TimerManager
  kTimerFreq, MaxTick, StartWindow,
  \* MemoryManager
  kBitsPerMapLine, MapLines, MemoryMaps, kHeapFrames, MaxRequest, MaxBlocks, SizeBits,
  \* TerminalPrint
  TermRows, TermColumns, Texts, Junk, MaxWrites

VARIABLES
  part,
  tick, timers, mbox, started, origin,
  alloc_map, range_start, range_end, overrun, phase, memory_map, next,
  available_end, blocks, result,
  mem, len, i, pc, cursor, writes

TM == INSTANCE TimerManager
MM == INSTANCE MemoryManager
TP == INSTANCE TerminalPrint WITH kRows <- TermRows, kColumns <- TermColumns

timer_vars == <<tick, timers, mbox, started, origin>>
memory_vars == <<alloc_map, range_start, range_end, overrun, phase, memory_map,
                 next, available_end, blocks, result>>
print_vars == <<mem, len, i, pc, cursor, writes>>
all_vars == <<part, timer_vars, memory_vars, pool_vars, console_vars, shell_vars,
              print_vars>>

Parts == {"timer", "memory", "pool", "console", "shell", "print"}

(* Each part starts in any of its initial states when it is the one that   *)
(* runs, and in one fixed initial state otherwise.                         *)
Init ==
  /\ part \in Parts
  /\ TM!Init /\ (part # "timer" => tick = 0)
  /\ MM!Init /\ (part # "memory" => memory_map = CHOOSE m \in MemoryMaps : TRUE)
  /\ PoolInit
  /\ ConsoleInit
  /\ ShellInit
  /\ TP!PrintInit

Next ==
  \/ part = "timer" /\ TM!Next
     /\ UNCHANGED <<part, memory_vars, pool_vars, console_vars, shell_vars, print_vars>>
  \/ part = "memory" /\ MM!Next
     /\ UNCHANGED <<part, timer_vars, pool_vars, console_vars, shell_vars, print_vars>>
  \/ part = "pool" /\ PoolNext
     /\ UNCHANGED <<part, timer_vars, memory_vars, console_vars, shell_vars, print_vars>>
  \/ part = "console" /\ ConsoleNext
     /\ UNCHANGED <<part, timer_vars, memory_vars, pool_vars, shell_vars, print_vars>>
  \/ part = "shell" /\ ShellNext
     /\ UNCHANGED <<part, timer_vars, memory_vars, pool_vars, console_vars, print_vars>>
  \/ part = "print" /\ TP!PrintNext
     /\ UNCHANGED <<part, timer_vars, memory_vars, pool_vars, console_vars, shell_vars>>

Spec == Init /\ [][Next]_all_vars

-----------------------------------------------------------------------------
(* The type invariants of the six parts; for the terminal, the cursor      *)
(* never leaves columns 0..kColumns and rows 0..kRows-1.                   *)
TypeOK ==
  /\ part \in Parts
  /\ TM!TypeOK /\ MM!TypeOK /\ PoolTypeOK /\ ConsoleTypeOK /\ ShellTypeOK
  /\ TP!PrintTypeOK

(* TimerManager::Tick fires exactly the due timers, in timeout order       *)
(* (timer.cpp), see TimerManager.                                          *)
TimersFireWhenDue == TM!TimersFireWhenDue

(* The task timer stays armed within kTaskTimerPeriod (timer.cpp,          *)
(* task.cpp), see TimerManager.                                            *)
TaskTimerArmed == TM!TaskTimerArmed

(* Periodic timers re-armed from their timeout never drift nor multiply   *)
(* (main.cpp, terminal.cpp), see TimerManager.                             *)
PeriodicTimersInPhase == TM!PeriodicTimersInPhase

(* Blocks from BitmapMemoryManager::Allocate lie in available frames and   *)
(* are disjoint (memory_manager.cpp), see MemoryManager.                   *)
BlocksOwnAvailableFrames == MM!BlocksOwnAvailableFrames

(* No GetBit or SetBit of the frame bitmap reaches past _alloc_map         *)
(* (memory_manager.cpp), see MemoryManager.                                *)
NoOverrun == MM!NoOverrun

(* Allocate returns the first fit (memory_manager.cpp), see MemoryManager. *)
AllocateIsFirstFit == MM!AllocateIsFirstFit

-----------------------------------------------------------------------------
(* Memory maps laid out as firmware lays them out, for a bitmap of 3 lines *)
(* of 4 bits: sorted, non-overlapping descriptors, holes between some,     *)
(* reserved regions between and after the available ones, and one map too *)
(* small for the heap.                                                     *)
D(start, pages, avail) == [start |-> start, pages |-> pages, avail |-> avail]

MCMemoryMaps ==
  { << D(0, 3, TRUE), D(3, 2, FALSE), D(5, 7, TRUE) >>,
    << D(0, 2, TRUE), D(4, 4, TRUE), D(8, 2, FALSE) >>,
    << D(0, 1, FALSE), D(1, 5, TRUE), D(6, 1, FALSE), D(7, 3, TRUE), D(10, 2, FALSE) >>,
    << D(0, 2, TRUE), D(2, 10, FALSE) >> }

R(size, alignment, boundary) ==
  [size |-> size, alignment |-> alignment, boundary |-> boundary]

(* The callers' requests in units of 16 bytes, with a pool of 2 KiB: an    *)
(* AllocArray<Device*>(9, 0, 0), a device context pointer array (64, 4096)*)
(* scaled to (4, 16), a ring of 32 TRBs (64, 64 KiB) scaled to a boundary  *)
(* of 64, and an odd-sized class driver (0, 0).                            *)
MCRequests ==
  { R(5, 0, 0), R(5, 4, 16), R(32, 4, 64), R(3, 0, 0) }

(* Well-formed UTF-8 as applications and cat write it: "A\n", U+00E9 (two  *)
(* bytes), U+3042 (three bytes, full width), and "A" before U+3042.        *)
MCTexts == { <<65, 10>>, <<195, 169>>, <<227, 129, 130>>, <<65, 227, 129, 130>> }
MCJunk == { <<0, 0, 0>> }
=============================================================================
