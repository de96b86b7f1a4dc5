# TLA+ models of the MikanOS-class kernel: the USB xHCI stack and beyond

This directory holds TLA+ specifications of parts of the kernel under `src/`,
the TLC configurations that check them, and `PROJECT.json`, which lists:

- every component and its status;
- every run and what it checks;
- the mutants that show each property can fail;
- the source lines each definition translates (the map);
- the findings and the hazards.

The core is the USB host-controller driver (`src/kernel/usb/`). It is
specified in `spec.md`, and it is the part of the kernel with real
concurrency: the driver and the xHC run at the same time.

## 1. The system and its parts

| Part | Source | State | Operations | Interacts with |
|---|---|---|---|---|
| Producer rings (command ring, transfer rings) | `usb/xhci/ring.cpp` `Ring` | `_buf`, `_write_index`, `_cycle_bit` | `Initialize`, `Push` (Link TRB and cycle flip at the last slot) | The xHC consumes them by cycle bit. The doorbell tells the xHC there is work. |
| Event ring | `ring.cpp`/`ring.hpp` `EventRing` | `_buf`, `_cycle_bit`, ERDP register | `Initialize`, `HasFront`, `Front`, `Pop` | The xHC writes events. `ProcessEvents` drains them. |
| Enumeration state machine | `usb/xhci/xhci.cpp` | `addressing_port` (file global), each port's `ConfigPhase` | `ResetPort`, `EnableSlot`, `AddressDevice`, `InitializeDevice`, `ConfigureEndPoints`, `On*Event`, `ProcessEvent(s)` | Pushes commands. Reads PORTSC. Calls into `Device`. |
| Ports | `usb/xhci/port.cpp`/`.hpp` | `_config_phase`, PORTSC | `Reset` (busy-waits), `ClearPortResetChange`, status reads | The enumeration state machine. |
| Device | `usb/xhci/device.cpp` | `_setup_stage_map`, `_event_waiters`, `_initialize_phase`, `_is_initialized`, the transfer rings, the class drivers | `ControlIn`/`ControlOut`/`InterruptIn`, `OnTransferEventReceived`, `OnControlCompleted`, `InitializePhase2..4`, `StartInitialize`, `OnEndpointsConfigured` | Its class drivers and its EP0 ring. |
| DeviceManager | `usb/xhci/devmgr.cpp` | `_devices[0..max_slots]`, DCBAA | `AllocDevice`, `FindBySlot`, `LoadDCBAA` | `AddressDevice`. |
| HID class driver | `usb/classdriver/hid.cpp` | `_initialize_phase`, `_buf`, `_previous_buf` | `OnEndpointsConfigured` (SET_PROTOCOL), `OnControlCompleted` (first interrupt-in), `OnInterruptCompleted` (report, resubmit) | `Device`, and the keyboard or mouse subclass. |
| HID keyboard | `usb/classdriver/keyboard.cpp` | observers | `OnDataReceived` (bitset edge detection), `NotifyKeyPush` | The kernel's keyboard observer. |
| USB memory pool | `usb/memory.cpp` | `alloc_ptr` | `AllocMem` (bump), `FreeMem` (no-op) | Every DMA buffer. |
| Main loop and messages | `main.cpp`, `message.hpp` | main's `_msgs` (a `std::deque` in its `Task`) | interrupt handlers and tasks call `SendMessage`; the loop receives under `cli`, sleeps when empty, dispatches | `ProcessEvents` on `kInterruptXHCI`; answers `kLayerOps`; forwards keys; the debug keys `s`/`w` sleep and wake TaskB. |
| Task manager | `task.cpp` | `_runnning[0..3]`, `_current_level`, `_level_changed`, `_tasks`, each task's level, `ReadyOrRunning`, `_msgs` and saved context, `_finish_tasks`, `_finish_waiter` | `NewTask`, `Wakeup`, `Sleep`, `SendMessage`, `RotateCurrentRunQueue`, `SwitchTask`, `Finish`, `WaitFinish` | The timer interrupt calls `SwitchTask`; every task's message loop sleeps on an empty queue. |
| Timer manager | `timer.cpp`/`timer.hpp` | `_tick`, `_timers` (a `std::priority_queue` ordered by the reversed `operator<`) | `AddTimer`, `Tick`, `LAPICTimerOnInterrupt` | Sends `kTimerTimeout` to main (cursor), the wall clock and terminals (blink), which re-arm; the task timer makes the interrupt call `SwitchTask`. |
| Memory manager | `memory_manager.cpp` | `_alloc_map` (one bit per 4 KiB frame), `_range_start`, `_range_end` | `Allocate` (first fit), `Free`, `MarkAllocated`, `SetMemoryRange`; `InitializeMemoryManager` scans the UEFI memory map and allocates the heap | Paging, the heap (`program_break`), task stacks. |
| Layers and windows | `layer.cpp`, `window.cpp` | `_layers`, `_layer_stack`, `_last_id`, the active layer, `layer_task_map` | `NewLayer`, `RemoveLayer`, `SetIndex`, `Hide`, `FindLayer`, `GetIndex`, `Draw`, `ActiveLayer::Activate`, `CloseLayer` | Main builds the boot windows; the mouse activates, drags and closes windows; terminals open and close theirs; `layer_task_map` routes keys and window messages to the owning task. |
| Mouse cursor and drag | `mouse.cpp` | previous buttons, `_drag_layer_id`, the layer last pressed | `OnInterrupt` (run by main from the HID mouse observer) | Layers; `kWindowClose` to the active window's task. |
| FAT32 filesystem | `fat.cpp`/`fat.hpp` | the FAT, the directory entries, each `FileDescriptor`'s cursors | `FindFile`, `CreateFile`, `AllocateEntry`, `ExtendCluster`, `AllocateClusterChain`, `FileDescriptor::Write`/`Read`, `DeleteFile`, `FreeCluster` | The terminal's `> file` redirect and `rm`, application file I/O. |
| Terminal line editor | `terminal.cpp` `Terminal` | `_linebuf`, `_linebuf_index`, `_cursor`, `_cmd_history` (a `std::deque` of 8 lines), `_cmd_history_index` | `InputKey`, `HistoryUpDown`, `Print`, `ExecuteLine` | Key presses come from main's forwarding of the keyboard observer's `kKeyPush` messages to the active window's task; `ExecuteLine` runs the commands. |
| Console | `console.cpp` | `_buffer`, `_cursor_row`, `_cursor_column`, `_window`/`_writer` | `PutString` (with `NewLine`'s scroll), `Refresh`, `SetWriter`, `SetWindow` | `printk` writes to it; `InitializeLayer` moves it into a window. |
| Terminal output and applications | `terminal.cpp`, `font.cpp`, `apps/rpn/rpn.cpp` | `_cursor`, `_last_exit_code` | `Print(s, len)` with `ConvertUTF8To32`, `Print(char32_t)`, `TerminalFileDescriptor::Write`; `ExecuteFile` with `MakeArgv`; rpn's `main` | Applications and `cat` write to the terminal through its file descriptor; a line runs an application, whose `exit` value becomes `$?`. |
| Graphics, logger, boot loader, other apps | the remaining files | | | |

How the USB parts interact:
1. The xHC posts an event and raises the MSI.
2. The interrupt handler pushes `kInterruptXHCI` onto the main queue.
3. The main loop (`main.cpp` 459-460) calls `usb::xhci::ProcessEvents`.
4. `ProcessEvents` drains the event ring. For each event, `ProcessEvent` dispatches on its type to one of:
   - `OnPortStatusChangeEvent`, which leads to `ResetPort` or `EnableSlot`;
   - `OnCommandCompletionEvent`, which leads to `AddressDevice`, `InitializeDevice` or the class drivers' `OnEndpointsConfigured`;
   - `OnTransferEvent`, which leads to `Device::OnTransferEventReceived`, then the bring-up phases or the HID driver, and then `ConfigureEndPoints`.
5. Every handler that pushes a command or a transfer rings a doorbell.
6. The xHC executes the command or transfer and posts the completion.

Enable Slot and Address Device completions do not say which port they are for.
The file-global `addressing_port` token stands in for that, and it is what
serialises enumeration across ports.

Behaviour that is hard to test, and that the models reach:
- the interleaving of several ports' events with command and transfer completions;
- a port queued while another holds the token, and its promotion later;
- completions that arrive after other events;
- rings wrapping many times;
- transfers failing;
- the controller running out of device slots;
- keys pressed and released several at a time.

How the scheduler parts interact: every task's loop is `cli; ReceiveMessage;
if none, Sleep; sti`. `SendMessage` appends to the task's `_msgs` and calls
`Wakeup`, which appends a sleeping task to the queue of its level. The LAPIC
timer interrupt runs `Tick`, which sends the due timers' messages, and every
`kTaskTimerPeriod` (2) ticks `SwitchTask`, which saves the interrupted
registers in `CurrentTask()`'s context, rotates the current level's queue and
restores the new front task. Interrupts can come between any two steps a task
runs with interrupts enabled; that is where the scheduler's hard cases are.

## 2. Modules

| Module | Models | Kind |
|---|---|---|
| `TrbQueue` | A bounded FIFO queue: `Enq`, `Deq` | Abstract specification of what both kinds of ring promise |
| `Ring` | `Ring::Initialize`, `Ring::Push` with the xHC consuming by cycle bit and following Link TRBs | Detailed; refines `TrbQueue` |
| `EventRing` | `EventRing::Initialize`, `HasFront`, `Front`, `Pop` with the xHC posting with its producer cycle state | Detailed; refines `TrbQueue` |
| `XhciRings` (`MCXhciRings`) | The command ring (`Ring`) and the event ring (`EventRing`), each on its own variables, coupled by a controller that posts a completion for every command it fetches; `issued` records the commands the driver awaits | Composition; checks both refinements of `TrbQueue` |
| `XhciEnumeration` (`MCXhciEnumeration`) | The driver of `xhci.cpp`, `device.cpp`, `devmgr.cpp`, `port.cpp` and `hid.cpp`, against a controller and devices that behave as the xHCI and USB specifications say | Composition of the driver components and the hardware |
| `HidKeyboard` | `HIDKeyboardDriver::OnDataReceived` with `HIDBaseDriver::OnInterruptCompleted`'s copy to the previous buffer | Pure algorithm (edge detection), checked against a reference (the keys of the report) |
| `TerminalEditor` | `Terminal::InputKey`, `HistoryUpDown`, the history deque and the cursor column laid out by `Print(char32_t)` | Detailed; `HistoryRecall` checks the deque against a plain record of the lines entered |
| `KeyboardTerminal` (`MCKeyboardTerminal`) | `HidKeyboard` feeding `TerminalEditor` through main's `kKeyPush` forwarding and `TaskTerminal`'s message loop | Composition |
| `TaskManager` (`MCTaskManager`) | `task.cpp`'s `TaskManager` with the tasks that call it (main's loop, TaskB, the wall clock, terminals and a piped subtask) and the timer and xHCI interrupts | Composition of the scheduler, its callers and preemption |
| `TaskManagerUnprotected` (`MCTaskBRaces`) | `TaskManager` plus the two scheduler calls made with interrupts enabled: TaskB's own `task.Sleep()` and main's `Sleep(taskb_id)`/`Wakeup(taskb_id)` on the `s`/`w` keys | Extension, used by the two violation runs |
| `TimerManager` | `timer.cpp`'s `TimerManager` with the periodic timers of main, the wall clock and a terminal | Detailed; `Tick`'s loop is the recursive operator `Expire` |
| `MemoryManager` | `BitmapMemoryManager` and `InitializeMemoryManager`: the boot scan of the memory map, `SetMemoryRange`, `InitializeHeap`, then `Allocate`/`Free` calls | Detailed; `Allocate` is a recursive operator checked against the reference `FirstFit` |
| `Fat32` (`MCFat32`) | The FAT and the root directory under the terminal's `> file` redirect: `FindFile`, `CreateFile`/`AllocateEntry`, `FileDescriptor::Write` with `AllocateClusterChain`/`ExtendCluster` | Detailed; chain walks are recursive operators |
| `Fat32Delete` (`MCFat32Delete`) | `Fat32` plus `rm`: `DeleteFile` and `FreeCluster` | Extension used by the violation run |
| `UsbMemory` | `usb/memory.cpp`'s DMA pool: `AllocMem` over the bump pointer `alloc_ptr` for the callers' (size, alignment, boundary) requests | Detailed |
| `Console` | `console.cpp`: the constructor and `SetWriter` at boot, `PutString` with `NewLine`'s scroll, `Refresh` and `SetWindow` | Detailed; checked against the reference `Shown`, the tail of the text printed |
| `RpnShell` | A terminal line running `apps/rpn`: `InputKey`, `ExecuteLine`'s argument split, `ExecuteFile`'s `MakeArgv`, rpn's `main`, `Push` and `Pop`, and the exit code | Pure algorithms as recursive operators, checked against the grammar of Reverse Polish expressions |
| `TerminalPrint` (`MCTerminalPrint`) | `TerminalFileDescriptor::Write`, `Terminal::Print(s, len)`'s UTF-8 loop and `Print(char32_t)`'s cursor, with `font.cpp`'s `CountUTF8Size`, `ConvertUTF8To32` and `IsHankaku` | Detailed; used by the violation run |
| `MCKernelLibrary` | `TimerManager`, `MemoryManager`, `UsbMemory`, `Console`, `RpnShell` and `TerminalPrint` side by side: the part that runs is chosen in the initial state and the others keep a fixed initial state | Union of independent components, so that their state spaces add up |
| `LayerManager` (`MCLayerManager`) | The layer stack of `layer.cpp` with `ActiveLayer` and `layer_task_map`, driven by main's mouse handler and F2, the wall clock's windows and terminals that open, close, `cat` their stdin and pipe | Detailed |

### Ring

Variables:
- `buf`, `write_index` and `cycle_bit` are `_buf`, `_write_index` and `_cycle_bit`. A TRB is abstracted to its type (zero, Normal or Link), a payload and its cycle bit.
- `deq` and `ccs` are the xHC's dequeue index and consumer cycle state.

Actions:
- `DriverPush` is `Push` under the callers' discipline: a push never overwrites a slot the xHC has not consumed. `Ring::Push` itself has no room check; the enumeration model shows that at most one command and one control transfer per device is outstanding.
- `Fetch` and `FollowLink` are the xHC.

Properties:
- `ProducerBoundary` says the xHC's walk over matching cycle bits stops exactly at the driver's write index.
- The refinement mapping takes the payloads of the Normal TRBs the xHC will still consume, in order, to the abstract queue. `RingIsFifo` is `TrbQueue`'s specification under that mapping.

### EventRing

Variables:
- `buf`, `erdp` and `cycle_bit` are the software side.
- `enq` and `pcs` are the xHC's enqueue index and producer cycle state.

Actions:
- `Consume` is one iteration of `ProcessEvents`: `HasFront`, then `Pop`.
- `Post` is the xHC. It never fills the slot just before ERDP.

Properties:
- The events visible from ERDP are mapped to `TrbQueue`, giving `EventRingIsFifo`.

### XhciRings

`Ring` and `EventRing` are instantiated on separate variables (`CR`, `ER`).
`IssueCommand` is a command push and doorbell (`EnableSlot` and the other
command senders), `ExecuteCommand` is the xHC fetching a command and posting
its completion in one step (it waits while the event ring is full), and
`ProcessEvent` drains a completion. `RingIsFifo` and `EventRingIsFifo` of the
two ring modules are checked here, as `CommandRingIsFifo` and
`EventRingIsFifo`.

### XhciEnumeration

Variables:

| Variable | Code |
|---|---|
| `phase` | `Port::_config_phase` |
| `addressing_port` | `addressing_port` |
| `connected`, `enabled`, `prc`, `speed` | PORTSC bits |
| `dev` | `DeviceManager::_devices` |

A device record holds the parts of `Device` the driver's decisions depend on:
- `inputPort`: the Input Context's port;
- `ctxPort`: the Device Context's port, written by the xHC on Address Device;
- `ep0mps`: EP0's max packet size;
- `initPhase` and `initialized`;
- `driver` and `hidPhase`: the HID driver's phase;
- `setupMap` (`_setup_stage_map`);
- `waiters` (`_event_waiters`);
- `ep0Next`: the next EP0 TRB index;
- `intrRing`: whether the interrupt-in ring is allocated.

`cmdRing` and `evRing` are sequences. That abstraction is justified by the two
ring refinements. `hwSlots`, `pendingPSC`, `ctrlXfer` and `intrXfer` are the
controller's state: enabled slots, latched port changes, and queued transfers.

Actions:
- `ProcessEvent` is `ProcessEvent` with the whole handler it calls. Each disjunct is one handler:
  - `OnPortStatusChangeReset`, `OnPortStatusChangeEnableSlot`, `OnPortStatusChangeInvalid`;
  - `OnEnableSlotCompleted`, `OnAddressDeviceCompleted`, `OnConfigureEndpointCompleted`;
  - `OnTransferEvent`.
- The helpers those handlers call are named after the code: `ResetPort`, `AddressDevice`, `InitializeDevice`, `ConfigureEndPoints`, `ControlIn`, `ControlOut`, `InterruptIn`, `InitializePhase2..4`, and so on. Each returns or primes exactly what the C++ function writes.
- An error return leaves the state as the code leaves it at that point, and the event is popped all the same.
- The xHC and the user are actions of their own:
  - `Connect` (a device plugged into a free port);
  - `PostPortStatusChange`;
  - `ExecuteCommand` (Enable Slot picks a free slot or fails with slot 0; Address Device copies the port into the Device Context);
  - `CompleteControlTransfer` and `CompleteInterruptTransfer`, each of which may complete with an error when `TransferErrors` is TRUE.

Modelling decisions:
- **`Port::Reset`.** It spins until the xHC clears PR. It is folded into the handler that calls it: the port comes out enabled, with PRC set and a change latched.
- **`PortAt(0)`.** It reads `_ports[-1]`, which is `_er._interrupter`. Its `_config_phase` field lands on the interrupter's ERSTBA low word, a 64-byte-aligned address that is never a phase the code tests. The model calls it `"Unmapped"`.
- **The kind of device.** Descriptor bytes are abstracted to the device's kind: `"Keyboard"` or `"Mouse"` (a HID class driver is found) or `"Other"` (no class driver; the device stops in phase 3, as the code does).
- **Setup-stage keys.** They are TRB indices on the EP0 ring. A device issues at most 4 control transfers (10 TRBs) on a 32-slot ring, so no index is reused.

### HidKeyboard

Variables:
- `buf` and `prev_buf` are the scan-code bytes of `_buf` and `_previous_buf`.
- `notified` is the list of `NotifyKeyPush` calls of the last report.
- `down` is what the observer has been told is held.

The single action `ReceiveReport` is `OnInterruptCompleted`: `OnDataReceived`,
then the copy. The loop over keys 1..255 is `ScanKeys`, which lists the changed
keys in ascending order (`Ascending`); this is equivalent to the ascending loop.
The module is checked inside `KeyboardTerminal`.

### TerminalEditor and KeyboardTerminal

Variables of `TerminalEditor`:
- `linebuf` is `_linebuf[0 .. _linebuf_index - 1]`; the bytes past the index are never read, since `'\n'` writes the terminator there and `HistoryUpDown` copies one with `strcpy`;
- `cursor_x` is `_cursor.x` (the row, scrolling and drawing are left out);
- `cmd_history` is the deque, front first, and `cmd_history_index` its index;
- `committed` is a history variable: the last `HistorySize` non-empty lines entered, newest first, kept by a plain rule rather than by the deque.

`InputKey` is one disjunct per branch of the code: `Enter` (`'\n'`: record
the line with `pop_back`/`push_front` if it is non-empty, reset, run, print
the prompt), `Erase` (`'\b'` right of column 1) and the no-op at column 1,
`Type` when `HasRoom` and the no-op when not, and `HistoryUpDown(-1)`/`(1)`
for the down and up arrows. `ExecuteLine` is abstracted to what it prints: any
sequence of at most `MaxOutput` half-width, full-width or newline characters,
laid out by `PrintChar`, the cursor arithmetic of `Print(char32_t)`; an empty
line prints nothing. `rm`'s failure message and applications print without a
final newline, so the prompt can land anywhere on the row.

`KeyboardTerminal` declares both modules' variables and `keyq`, the `kKeyPush`
messages between the driver and the terminal. `ReportArrives` is a report with
its notifications queued (main forwards presses and releases to the active
window's task, `main.cpp` 482-515); `TerminalKeyPush` is `TaskTerminal`'s
`kKeyPush` case, `InputKey` for a press and nothing for a release or a key
`InputKey` ignores. Main's queue and the terminal's are both FIFO and nothing
else takes key messages, so one queue stands for both. The terminal is taken
to be the active window. The keycode-to-ascii table belongs to the kernel's
keyboard observer, which is not in the repository; `MCKeyAscii` gives the HID
usage table's values for the keys of the model.

### TaskManager

`tm` is a record with the fields of `TaskManager` and of its tasks
(`running` is `_runnning`, `ready` is `_ready_or_running`, `msgs` counts a
task's `_msgs`). The scheduler operations are operators from one `tm` to the
next, so that a caller's step can be built from several of them, as the code
calls them. `cpu` is the execution on the processor and `ctx[t]` the execution
saved in task `t`'s `TaskContext`: an execution is named by the task whose
code it is, so `ctx[t] = t` says that `t`'s context holds `t`'s own registers.
`pc` is where each task's code is; a section under `cli` is one step, and code
run with interrupts enabled is cut into the steps an interrupt can fall
between: TaskB's `task.Sleep()` (flag, rotate, `SwitchContext`) and main's
`Sleep(taskb_id)` (`std::remove`, then `erase`). Those two are the actions of
`TaskManagerUnprotected`, which adds them to `TaskManager`'s next-state
relation; `TaskManager` alone is the kernel with every scheduler call made
under `cli`. `TimerInterrupt` is
`LAPICTimerOnInterrupt`: one due timer message at most, and optionally
`SwitchTask`. `budget` bounds the interrupt messages of a behaviour.

The pipe `a | b` is modelled with its data path. When the terminal's
`TerminalLoop` starts the subtask (`terminal.cpp` 500-523), it goes to
`"write"`. There `PipeWrite` is one pass of `PipeDescriptor::Write`'s loop:
one `kPipe` message of at most `kPipeData` bytes, with an interrupt possible
between passes. `FinishWrite` sends the length-0 message and goes on to
`WaitFinish`. The subtask's `SubStart` picks its command from `SubCommands`.
`cat` with no argument reads `_files[0]`, which is the pipe, through
`PipeRead`. `echo` never reads its stdin and prints once. `pipe[s]` holds the
`PipeDescriptor`'s `_len` and `_closed`, and `q` is `s`'s message queue in
order: pipe lengths, plus `NotPipe` for each key main forwards to the subtask
while `layer_task_map` points at it. The writer's progress and the bytes
`Read` returned are in `pipe[s]` too. `cat`'s `ReadDelim` is not in the
source tree, so the reader calls `Read(buf, n)` with `n` from `ReadLens`.
Each positive read may send one draw message to main (`PrintsToParent`), which
is `PrintToFD` on the parent's terminal ending in `Redraw`. A send through
the `Task&` to a subtask that has finished changes nothing the model
tracks. `NoSendToFinishedTask` states that this never happens.

### TimerManager

`timers` is the set of queued `Timer`s; `Top` is the `priority_queue`'s top
under `operator<` (`Less`), and `Expire` is `Tick`'s loop: it re-arms the task
timer at `_tick + kTaskTimerPeriod` and sends every other due timer, in the
order the heap yields them. `mbox[o]` holds the timeouts of the messages owner
`o` has not read yet; `Handle(o)` reads one and re-arms from its timeout, as
all three owners' loops do. `StdinRead` is the terminal's other reader of
its queue: while `cat` or an application reads stdin,
`TerminalFileDescriptor::Read` (`terminal.cpp` 1116-1128) takes the timeout
message and drops it without `add_blink_timer`. When the user runs `cat` is
open, so either reader may take a given message. Time is `Tick`, which any
step may precede, so a task can read its message arbitrarily late.

### MemoryManager

`alloc_map[l]` is the set of set bits of map line `l` (`kBitsPerMapLine`
bits, `MapLines` lines); `range_start`/`range_end` are the members of the same
name. The boot is three actions in the code's order: `ScanDescriptor` is one
iteration of the loop at lines 115-137 (a gap before an available
descriptor is marked, a reserved descriptor is marked from `available_end`,
with the `size_t` subtraction kept modulo `2^SizeBits`); `SetMemoryRange`
is line 139; `InitializeHeap` calls `Allocate(kHeapFrames)` and either
moves to `run` or halts (line 145). After boot, `AllocateCall` and
`FreeCall` stand for the kernel's later callers. `Allocate` is the code's
two nested loops as the recursive `Inner` (the `for` over `i`) and
`Allocate` (the `while` over `start_frame_id`). `overrun` records a
`MarkAllocated` that would write past `_alloc_map`, which has no bound check.

### UsbMemory

`alloc_ptr` is `usb::alloc_ptr`, starting at the pool's base `PoolBase`;
`AllocMem(r)` is the whole function: `AlignStep` (lines 22-24), `BoundaryStep`
(25-30) and the end check (32-35), which returns `nullptr` with `alloc_ptr`
already moved. `allocs` is the history of the blocks returned, which
`PoolAllocationsSound` reads. `FreeMem` is empty and is no action. Addresses
are in 16-byte units; the requests are the callers' `AllocArray` calls scaled
to those units.

### Console

`buffer`, `cursor_row` and `cursor_column` are the members of the same names;
`target` is whether `_window` is set. `surface[r][c]` is the set of glyphs
drawn into a cell of the current writer since it was last filled:
`WriteAscii` and `WriteString` set foreground pixels only, and
`FillRectangle` empties cells. `PutString(s)` is one `printk`: the loop over
`s` with `PutCharSt` and `NewLineSt`, which in a window moves rows 1.. up and
fills the last row, and on the frame buffer fills everything, then redraws
rows 0..kRows-2 from the buffer. `SetWindow` is `InitializeLayer`'s
`console->SetWindow`, with its early return and `Refresh`. `printed` is the
history of the text printed; `Shown(printed)` is what a console should show.

### RpnShell

`linebuf` is the line after the command word `Cmd` (rpn). `TypeChar` is
`InputKey`'s append; `ExecuteLine` is `InputKey`'s Enter branch: `LineArg`
splits the line at the first space as `ExecuteLine` does, `ExecuteFile`
builds argv with `MakeArgv` (`ArgvLoop` is its `while` loop) and runs
`RpnMain`, and `ExitCodes` is the dispatch that sets `_last_exit_code`.
`RpnLoop` is rpn's loop with `stack` as a sequence; a `Pop` on an empty stack
reads `stack[-1]`, which is undefined, so its result is any of `UBResults`.
The ELF loading and the page maps are left out.

### TerminalPrint

`mem` is the buffer `s` written (the text, the NUL `vsprintf` leaves and the
bytes after it), `len` and `i` are `ptrlen` and `i` of `Print(s, len)`, `pc`
says whether the loop runs, and `cursor` is `_cursor`. `Write` enters the
loop, `PrintStep` is one turn (`ConvertUTF8To32`, `PrintChar`, `i +=
bytes`) and `PrintDone` the end, with the cursor drawn again and the draw
message sent.

### Fat32 and Fat32Delete

`fat` is the FAT (entries 0 and 1 hold the media and end markers);
`dirent[c][i]` is entry `i` of directory cluster `c`, whose `name` is a model
value, `"end"` (first byte 0) or `"deleted"` (0xe5); `fd` is the one open
`FileDescriptor` of the redirect, with `_wr_off`, `_wr_cluster` and
`_wr_cluster_off`. `RedirectOpen` is `ExecuteLine`'s redirect (terminal.cpp
479-499) with `FindFile` or `CreateFile`; `Write(len)` is
`FileDescriptor::Write`, with its loop as the recursive `WriteLoop` and the
per-cluster count `min(len, bytes_per_cluster - _wr_cluster_off)` exactly as
line 468 has it; `RedirectClose` is the restore of `_files[1]` (line 758),
which drops the descriptor. `Rm` (Fat32Delete) is `DeleteFile` with
`FreeCluster`. `wild` records a write that reaches a cluster outside the data
region.

### LayerManager

`lm` holds the state of `LayerManager`, `ActiveLayer` and `layer_task_map`:
- `layers` is the set of ids in `_layers`;
- `stack` is `_layer_stack` as a sequence of ids, with `NoLayer` standing for a null `Layer*`;
- `last_id` and `active` are `_last_id` and `_active_layer`;
- `titled` is the set of windows whose title is drawn active (`ToplevelWindow::Activate`/`Deactivate`);
- `draggable` is the set of draggable layers;
- `task_map` is `layer_task_map`;
- `msgs[t]` is the window messages waiting in terminal `t`'s queue;
- `fault` records a dereference of a null `Layer*`, after which no step is taken.

The LayerManager operations (`SetIndex`, `Hide`, `RemoveLayer`, `Activate`,
`CloseLayer`) are operators from one `lm` to the next, as in `TaskManager`,
so that each step is built from the calls its handler makes. `SetIndex`
follows the code's quirks:
- it clamps the index to the size;
- it takes the new position before the erase and moves it to `end() - 1` when it is at or past the end;
- it passes a negative index to `Hide` as an id.

The initial state is the one `InitializeLayer`, main's three windows and
`InitializeMouse` leave, computed with these operators.

Main runs at level 3 and the other tasks at level 1, so main's mouse handler
(`OnInterrupt`, reached through the HID mouse observer from `ProcessEvents`)
and its key handling are each one step. A task's `cli` section is one step.
The steps are:
- `TerminalStart`: `TaskTerminal`'s window, map entry and activation;
- `WallclockWindows`: the wall clock's two windows at index 2;
- `TerminalReceive`: the loop's handling of `kWindowActive` and of `kWindowClose` (`CloseLayer`);
- `TerminalCat`, `StdinRead` and `StdinEof`: `cat` reading the terminal's stdin;
- `TerminalPipe` and `PipeEnd`: the `layer_task_map` redirect to a pipe's subtask and its restore.

The cursor position is not modelled. A press lands on any layer of the stack
but the cursor's own, in its title bar, its close button or elsewhere.
Keys reach a terminal only when its window is active and it has handled its
window messages.

## 3. Runs

| Run | Config | Expect | What it shows |
|---|---|---|---|
| `xhci_rings` | `MCXhciRings.cfg` | pass | A 4-slot command ring wrapping again and again is a FIFO queue of capacity 3 (`CommandRingIsFifo`), A 3-slot event ring drained by `HasFront`/`Pop` is a FIFO of the events posted (`EventRingIsFifo`). The completions drained are those of the issued commands, in issue order (`CompletionsFollowCommands`). |
| `enumeration` | `MCXhciEnumeration.cfg` | pass | With two ports, two slots, keyboard or non-HID devices, full or high speed, and hot plug, see the list of properties below. |
| `enumeration_last_port` | `MCXhciLastPort.cfg` | violation | `ConnectedHidConfigured` fails. A keyboard on port 2 queued behind port 1 stays `WaitingAddressed` with the token free, because the promote loop scans `PortAt(0..MaxPorts-1)`. |
| `keyboard_terminal` | `MCKeyboardTerminal.cfg` | pass | Reports of two slots over `a`, Enter, Backspace and the arrows, typed into a terminal. After every report the observer's held keys are exactly the report's keys (`ObserverInSync`), and every notification is a real edge (`NotificationsAreEdges`). Every up or down arrow the terminal handles leaves the history index inside the deque and shows the line that many non-empty Enters back, or an empty line past them (`HistoryRecall`). |
| `task_scheduler` | `MCTaskManager.cfg` | pass | With main, idle, a worker and a terminal, F2 terminals, a piped subtask, preemption and messages: each ready task is queued once at its level and no sleeping task is queued (`RunQueuesMatchReady`); the current level is the highest non-empty one unless a change is flagged (`CurrentLevelIsHighest`); every task off the processor has its own registers saved (`ContextsHoldOwnTask`); `cat` on the right of a pipe gets every byte written to it once, chunked in 2-byte messages and read 1 byte at a time with keys forwarded in between, and has them all when `Read` returns 0 (`PipeDelivers`); every ready task gets the processor (`ReadyTaskRuns`); every `WaitFinish` returns (`WaitFinishReturns`). |
| `taskb_self_sleep` | `MCTaskBSleep.cfg` | violation | `ContextsHoldOwnTask` fails. A task-timer switch between TaskB's `RotateCurrentRunQueue(true)` and `SwitchContext` saves TaskB's registers in the next task's context. |
| `kernel_library` | `MCKernelLibrary.cfg` | pass | Six independent parts. Timers: `Tick` fires exactly the due timers (`TimersFireWhenDue`); exactly one task timer is queued, due within 2 ticks (`TaskTimerArmed`); main's cursor timer and the wall clock's timer are never lost nor doubled, the terminal's blink timer is never doubled, and every periodic timer stays on its first timeout's grid however late its task reads the message (`PeriodicTimersInPhase`). Frames: for four sorted memory maps, the scan marks every frame that is not available and the heap and later blocks are disjoint available frames (`BlocksOwnAvailableFrames`), each `Allocate` returns the first fit in `[1, available_end)` (`AllocateIsFirstFit`, an action property) and no write leaves the bitmap (`NoOverrun`). USB pool: every block is inside the pool, aligned, within its boundary and disjoint from the others, for every order of requests (`PoolAllocationsSound`). Console: after any `printk` texts, before and after `SetWindow`, every cell holds exactly the glyph of the last lines printed and the cursor is after them (`ConsoleShowsTail`). Shell: a line `rpn` followed by a well-formed expression exits with its value (`RpnMatchesReference`). Terminal printing of well-formed UTF-8 keeps the cursor in the window (`TypeOK`). |
| `fat_files` | `MCFat32.cfg` | pass | Creating and writing two files through `> file` redirects, reopening and appending, and the root directory growing a second cluster: the FAT stays disjoint acyclic chains, each owned by one entry, with the media entries intact and no write outside the data region (`FatIsForest`); each file's size is within its chain (`SizeWithinChain`); each file is found by `FindFile` at its own entry (`FilesFindable`). |
| `fat_delete_reuse` | `MCFat32Delete.cfg` | violation | `FilesOwnTheirClusters` fails. `rm a` frees `a`'s chain and marks its entry 0xe5; `> a` reuses the entry, and `CreateFile` leaves the old first cluster in it, so the new file starts at a free cluster and a write that fills it continues in cluster 0. |
| `desktop_layers` | `MCLayerManager.cfg` | pass | Over the boot windows, the wall clock's windows, two terminals (one at boot, one by F2) and any sequence of presses, drags, close clicks, clicks on the background button, `cat` on stdin and pipes: the stack is duplicate-free, holds only live layers and has the cursor on top (`StackWellFormed`); the active window exists and is directly below the cursor (`ActiveJustBelowMouse`); `layer_task_map` has exactly the running terminals' windows, each mapped to its terminal or, during a pipe, to the subtask, and a closed terminal's window is gone (`TaskMapMatchesTerminals`). |
| `print_invalid_utf8` | `MCTerminalPrint.cfg` | violation | `PrintReturns` fails. A write of a byte that cannot start a UTF-8 character (here the continuation byte 0xA9, as in Latin-1 text) makes `ConvertUTF8To32` return 0 bytes; `Print`'s loop prints a box and never advances `i`, so the write never returns. |
| `drag_closed_layer` | `MCLayerDrag.cfg` | violation | `NoNullDereference` fails. The sequence is: press a terminal's close button and release it; press its title bar; the terminal handles the queued `kWindowClose` and removes the layer; the next mouse event while the button is held calls `MoveRelative` on the removed id, and `FindLayer` returns null. |

Properties checked by the `enumeration` run:
- `AddressingToken`: a port is in ResettingPort, EnablingSlot or AddressingDevice exactly when it holds `addressing_port`.
- `DevicePerPort`: a port past EnablingSlot has exactly one device, and no other port has one.
- `SetupStageCorrelation`: the setup-stage map equals the control transfers still in flight, each with its request.
- `HidPolling`: exactly one interrupt-in is outstanding once SET_PROTOCOL completes.
- `TokenReleased`: whoever takes the token gives it back.
- `HidDeviceStartsPolling`: a HID device that reaches InitializingDevice ends up Configured and polled.

Every property of a passing run has a mutant in `PROJECT.json`: a plausible bug
in a mapped definition under which TLC finds that property violated. Examples:
- `ResetPort` without the token test;
- `Push` without the cycle flip;
- the setup-stage entry never erased;
- `ConfigureEndPoints` triggered in any phase;
- the key loop starting at 0.

### Bounds

| Model | Bounds | Why they are enough |
|---|---|---|
| XhciRings | command ring `CN = 4`, 2 commands | The ring wraps every 3 pushes and the search runs through many laps, so every position of the Link TRB and both cycle values are covered. Two payloads tell any reordering, loss or duplication apart. |
| XhciRings | event ring `EN = 3` | Same reasoning; the event ring also fills, so the controller must wait before it executes the next command. |
| Enumeration | 2 ports | One device can be queued behind another, and the last-port bug needs exactly that. |
| Enumeration | 2 slots | Every device gets a slot. |
| Enumeration | speeds {1, 3} | Both EP0 sizes and both interval formulas' speed classes. |
| Enumeration | `EvCap = 3` | The xHC can post a port change, a command completion and a transfer completion before the driver drains any. |
| TaskManager | `MaxTasks = 5`, `MaxMsgs = 1`, `Budget = 2`, `kPipeData = 2`, `MaxPipeBytes = 3`, `ReadLens = {1}`, `SubCommands = {"cat", "echo"}` | Main, idle and two started tasks leave one id for F2 or a piped subtask. One message per queue is enough for every sleep/wakeup transition, and it makes the writer wait for the reader. Two interrupt messages are enough to reach the terminal and start a pipe. Three bytes in 2-byte messages give a `Write` of two passes, and a 1-byte `Read` of a 2-byte message leaves bytes in `_data`. The violation run needs only 4 tasks. |
| TimerManager | `kTimerFreq = 100`, `MaxTick = 250`, `StartWindow = 3` | The code's own constants (task period 2, half a second 50). 250 ticks cover two wall-clock re-arms and four blink and cursor periods, with timers of different owners due on the same tick. |
| KeyboardTerminal | 2 scan-code slots instead of 6, keycodes {0, 4, 40, 42, 81, 82}, `MaxPending = 2` | Empty slots, two keys changing at once (a press and a release in one report), duplicates, and every branch of `InputKey`. Two queued messages let a report arrive while the terminal has not handled the last one. |
| TerminalEditor | `kColumns = 4`, `kLineMax = 6`, `HistorySize = 2`, `MaxOutput = 2`, one printable character | A line holds at most two characters, so lines of length 1 and 2 tell history entries apart; a third non-empty line evicts the oldest; `kLineMax > kColumns` as in the code (128 > 60), so the column test is the one that stops typing; two output characters reach the wrap at `kColumns` (two full-width ones) and every prompt column. |
| MemoryManager | `kBitsPerMapLine = 4`, `MapLines = 3` (12 frames), heap of 2 frames, requests of 1-3 frames, at most 4 blocks, `SizeBits = 16` | Three map lines make blocks and gaps cross line boundaries; the maps put available memory at the end, before a reserved tail, between reserved regions, and too little for the heap, so both `InitializeHeap` outcomes, every branch of the scan, and `Allocate`'s three exits (found, busy, end of range) occur. |
| LayerManager | 2 terminals (symmetric), at most 1 waiting window message per terminal in the pass run and 2 in the drag run | Two terminals make activation move focus between terminal windows, and let one close while the other is active. One message already lets a deactivation wait while a close is sent. The drag run allows 2, so that a queued activation and a queued close can also wait together; the crash itself is reachable with 1 as well, once the terminal has taken its activation message. The layer ids reach 11, past every boot index `SetIndex` is given. |
| TimerManager, MemoryManager in `kernel_library` | as above | The library run keeps the bounds of the earlier separate runs; the timer part is most of its 0.9 million states. |
| UsbMemory | pool of 128 units at base 12, 4 requests, 5 calls | The base is not a multiple of the alignments, so the first request is moved; the 32-unit ring with a 64-unit boundary crosses a boundary after the small requests, and five calls fill the pool, so the failing end check happens. |
| Console | `kRows = 3`, `kColumns = 3`, 2 characters, 7 characters printed, 2 per `printk` | Lines longer than the 2 visible columns are cut, 7 characters with newlines scroll more than once in both modes, and `SetWindow` can come before, between or after the scrolls. |
| RpnShell | tail of at most 6 characters over `{" ", "1", "2", "+", "-"}`, 1 line | Six characters hold `1 2 -`-style expressions with both operators, an underflow, extra spaces and a mistyped command; two digits tell `a - b` from `b - a`. |
| TerminalPrint | `kRows = 2`, `kColumns = 3`, 3 writes | Half- and full-width characters wrap at the right edge and scroll on the last row; the violation run needs one write. |
| Fat32 | `NC = 14` clusters, 2 entries and 2 bytes per cluster, names `a`, `b`, writes of 1-3 bytes, files up to 4 bytes | Two entries per cluster make the root directory grow a cluster when the second name is created; writes of 3 bytes into 2-byte clusters cross boundaries and extend chains. 14 clusters is the smallest volume these bounds never fill (16 and 18 give the same state count). |

### Fairness

`XhciEnumeration` assumes weak fairness of:
- `ProcessEvent`: the xHC interrupt is delivered and the main loop always gets back to `ProcessEvents`, which drains the ring;
- `ExecuteCommand`: the xHC executes every command it is rung for;
- `PostPortStatusChange`: a latched change is posted;
- `CompleteControlTransfer`: a device answers its control requests.

`TaskManager` assumes weak fairness of the task-timer interrupt (the LAPIC
timer is periodic and `LAPICTimerOnInterrupt` runs with the task timer always
armed, which `TaskTimerArmed` checks) and strong fairness of each task's
steps: a task that keeps getting the processor runs its next step before the
next tick. The interrupt messages themselves are not fair. `TimerManager` has
no liveness property; its time stops at `MaxTick`, so its run has
`CHECK_DEADLOCK FALSE`.

Neither plugging a device nor a HID report arriving is fair: a keyboard may
never be typed on. The runs with `CHECK_DEADLOCK FALSE` are those where the
system may really stop. Once every device is configured, or stuck in a phase
the code cannot leave, the driver idles in the main loop waiting for an
interrupt.

`TerminalPrint` assumes weak fairness of the loop's steps: the terminal task is ready while it prints and the round robin gives it the processor (`ReadyTaskRuns`), so an enabled turn of the loop is eventually taken. `PrintReturns` asks that every write return under that fairness, and fails for a byte the decoder rejects.

`UsbMemory`, `Console` and `RpnShell` have no liveness property: their operations are loops over finite input. `kernel_library` has `CHECK_DEADLOCK FALSE` because every part stops at its bound (`MaxTick`, `MaxCalls`, `MaxText`, `MaxLines`, `MaxWrites`) or where the code halts (the heap).

`MemoryManager` and `Fat32` have no liveness property: their operations
return and nothing waits. The memory run stops when the heap cannot be
allocated (the code halts), so it has `CHECK_DEADLOCK FALSE`; the FAT run
checks deadlock.

`KeyboardTerminal` has no liveness property: a key press reaches the editor as soon as the terminal task runs, which `task_scheduler`'s `ReadyTaskRuns` covers. Its run checks deadlock; `MaxPending` blocks reports only until the terminal takes a message.

`LayerManager` has no liveness property. A close click need not be honoured, because `cat` drops it (section 4). Its runs have `CHECK_DEADLOCK FALSE`, for two reasons: the desktop may stop once both terminals are closed, and a null dereference freezes the model.

## 4. What is not modelled, and why

- **Controller bring-up.** This covers `Controller::Initialize`, `Run`, `RequestHCOwnership` and `SwitchEchi2Xhci`. They are straight-line register sequences with busy waits. The model starts in the state they leave: rings empty, ports of connected devices latched.
- **Descriptor byte parsing.** `ConfigurationDescriptorReader` and `DescriptorDynamicCast` are data conversion. A device's kind stands for its descriptors.
- **Disconnects.** The code never handles a disconnect; hot unplug is a non-goal of the spec.
- **The HID mouse driver.** Only its header is in `src/`.
- **`usb/arraymap.hpp`** (not in `src/`). The two maps are modelled as sets; their capacities (16 and 4) are never reached.
- **Data races on library containers.** The wall clock and the terminal call `AddTimer` with interrupts enabled, and a terminal writes `layer_task_map` and main calls `Wakeup(taskb_id)` without `cli`. What an interrupt in the middle of a `std::priority_queue`, `std::map` or `std::deque` update does depends on the library's code; the models take those calls as atomic and list them as hazards.
- **`ChangeLevelRunning`.** Every caller passes level -1, so it returns at once; its missing `return` after the not-front branch is unreachable.
- **`ArrayQueue`** (`queue.hpp`). It is used nowhere: the message queues are the tasks' `std::deque`s.
- **The freed stack in `Finish`.** The task's stack is freed before `Finish` stops using it; the models have no heap.
- **A pipe writing to a finished task.** This is a configuration, not a run. `PipeDescriptor` keeps a `Task&` to the right-hand side (`terminal.hpp:107`). `Finish` destroys that `Task`, but the left-hand side goes on writing and calls `FinishWrite` (`terminal.cpp:746`). Take a copy of `MCTaskManager.cfg` with `SubCommands = {"echo"}` and `INVARIANT NoSendToFinishedTask`. TLC then shows `echo` finishing while its terminal is still at `"write"`: the task timer switches away right after the subtask is woken. After that, `Task::SendMessage` and `Wakeup` run on freed memory. This is the `task.cpp:249` hazard, and every run slot is in use.
- **Recorded but not run.** Two divergences found while modelling enumeration are stated as definitions of `XhciEnumeration` but have no run: the speed switch at `xhci.cpp:153` falls through, giving SuperSpeed EP0 64 bytes (`Ep0PacketSizeBySpeed`), and a failed control transfer leaves its setup-stage entry for good (`SetupStageCorrelation` with `TransferErrors = TRUE`). The transfer error is in the hazard list.
- **The bytes a FAT write copies.** `FileDescriptor::Write` copies `min(len, ...)` per cluster instead of `min(len - total, ...)` (line 468), so a write crossing a cluster copies more than `len` bytes, and when `ExtendCluster` appends several clusters the write skips to the last one (line 460). The model has no file contents, so both are a hazard with a note, as is `FreeCluster(0)` clearing FAT[0]. `DeleteFile`'s read of the entry before a cluster's first (line 364) is a nondeterministic long-name flag in `Rm`.
- **FAT reads, subdirectories and names.** `Read` and `Load` change only a read cursor; `FindFile`'s path walk into subdirectories, long file names and the 8.3 conversion are text processing. Names are model values and only the root directory is modelled.
- **Two terminals writing files at once.** The FAT has no lock, and terminals are preempted; composing `Fat32` with the scheduler is out of TLC's reach at useful bounds.
- **`Stat`** only reads the bitmap.
- **The terminal's lost blink timer.** `TimerManager` models `cat` dropping a `kTimerTimeout` (`StdinRead`), so `PeriodicTimersInPhase` requires only at most one blink timer of the terminal. With `outstanding = 1` required of the terminal as well, TLC shows the timeout read during `cat` and the terminal left with no timer: its cursor never blinks again. Every run slot is in use, so this is a hazard (`terminal.cpp:1126`) and not a violation run.
- **Window messages lost by `cat` and pipes.** `TerminalFileDescriptor::Read` drops every non-key message, and during a pipe `layer_task_map` sends window messages to the subtask, which drops them. `TerminalKnowsFocus` states that an idle terminal with no waiting message knows whether it is active. TLC breaks it through the pipe path, so no run checks it; it is a hazard.
- **Layer positions, regions and drawing.** `Move`, `GetWindowRegion`, `Draw` and `ProcessLayerMessage` are geometry and pixels. The kMouseMove and kMouseButton messages go to the active window's task, and no terminal reads them.
- **Two earlier violation runs, now configurations.** `XhciEnumeration` still has the slot-exhaustion completion. With `MaxSlots = 1`, `Speeds = {3}` and `INVARIANT Slot0Reserved` in a copy of `MCXhciEnumeration.cfg`, TLC shows the failed Enable Slot's slot id 0 getting a Device, with `LoadDCBAA(0)` overwriting the scratchpad pointer (`xhci.cpp:233`). `TaskManagerUnprotected` still has main's `Sleep(taskb_id)` in two halves. With `TaskBStart = "loop"`, `DebugKeys = TRUE` and `PROPERTY ReadyTaskRuns` in a copy of `MCTaskBSleep.cfg`, TLC shows a task woken between `std::remove` and `erase` (`task.cpp:15`) dropped from its run queue for good. Both are hazards.
- **The terminal's commands.** `ExecuteLine`'s commands other than the redirect, `rm`, `cat` on stdin and pipes are device and text I/O: `lspci`, `lsusb`, `ls`, `fatdump`, `memstat`, `date`, and the app loader `ExecuteFile` with its page tables. In `TerminalEditor` they are the characters they print.
- **The prompt column.** `InputKey`'s backspace test `_cursor.x > 1` assumes the prompt is at column 0. After output without a final newline, backspace moves the cursor over the prompt and the output. `TerminalEditor` reaches that state, but no run states a property about the screen row. It is a hazard.
- **`noterm cat`.** The subtask reads its parent's queue and calls `Sleep` on the parent, which returns at once, so it spins with interrupts disabled. The task model has no task that sleeps another one and keeps running, so this is a hazard only.
- **Pixels.** `graphics.cpp`, `frame_buffer.cpp` and the glyph bitmaps of `WriteAscii`/`WriteUnicode` turn characters into pixels. `Console` models a drawn cell as the set of glyphs drawn into it, which is what scrolling can get wrong.
- **rpn's stack underflow.** `Pop` on an empty stack reads `stack[-1]` and leaves `stack_ptr` at -2. The model takes the result as any value of `UBResults` and `RpnMatchesReference` is only about well-formed expressions, so an underflowing line is covered by no property.
- **The USB pool exhausted.** `AllocArray` returns `nullptr` when the pool is full, and `DeviceManager::AllocDevice` (`devmgr.cpp:36`) uses the result with placement new, unchecked. The enumeration model never runs out of pool, so this is not checked.
- **Other applications.** `blocks`, `cube` and `fault` draw through system calls or fault on purpose; `hello.c` prints a string.
- **The UEFI loader and paging.** `MikanLoaderPkg/Main.c` is a straight-line sequence of firmware calls; the page-table code sets up address translation, which has no state machine a model checker helps with at useful bounds.

## 5. Plan

Done: the USB stack (sitting 1); the scheduler with its callers and
preemption, the races of two unprotected `Sleep` calls, and the timer manager
(sitting 2); the physical memory manager with the boot scan, and the FAT
create/write/delete paths with the cluster-reuse finding, and the layer
stack with the mouse, the terminals' windows and the drag crash (sitting 3);
the terminal's line editor and command history fed by the keyboard driver
(sitting 4); the pipe's data path between two terminal tasks (sitting 5); the USB DMA pool,
the console, rpn run from a terminal line, and the terminal's UTF-8 printing
with its hang on an invalid byte, with the sequential services checked in one
union run (sitting 6).

Later sittings, in order:
1. FAT `Read` with its cursor.
2. Layer positions with `FindLayerByPosition`, so that a click's target follows from the stack order.
