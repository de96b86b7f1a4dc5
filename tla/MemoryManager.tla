---------------------------- MODULE MemoryManager ----------------------------
(***************************************************************************)
(* The physical frame allocator of memory_manager.cpp: BitmapMemoryManager *)
(* with its bitmap of kFrameCount bits in lines of kBitsPerMapLine, its    *)
(* first-fit Allocate, Free and MarkAllocated, and the boot sequence that  *)
(* fills it: InitializeMemoryManager walks the UEFI memory map, marks what *)
(* is not available, sets the range and allocates the kernel heap          *)
(* (InitializeHeap).  After boot, callers allocate and free blocks.        *)
(* Addresses are counted in frames (kUEFIPageSize = kBytesPerFrame).       *)
(***************************************************************************)
EXTENDS Naturals, Sequences, FiniteSetsExt

CONSTANTS kBitsPerMapLine,  \* bits in one MapLineType
          MapLines,         \* the lines of _alloc_map
          MemoryMaps,       \* the memory maps the firmware may hand over
          kHeapFrames,      \* the frames InitializeHeap allocates
          MaxRequest,       \* bound on num_frames of a later Allocate
          MaxBlocks,        \* bound on the blocks held at once
          SizeBits          \* the width of size_t

kFrameCount == kBitsPerMapLine * MapLines
Frames == 0 .. kFrameCount - 1
\* size_t arithmetic.
SizeT(x) == x % (2 ^ SizeBits)
\* kNullFrame: FrameID{numeric_limits<size_t>::max()}.
kNullFrame == 2 ^ SizeBits - 1

\* A memory descriptor: first frame, number of pages, and IsAvailable(type).
Descriptors == [start : Nat, pages : Nat, avail : BOOLEAN]

VARIABLES alloc_map,      \* _alloc_map: line -> the set bits of that line
          range_start,    \* _range_start
          range_end,      \* _range_end
          overrun,        \* a GetBit or SetBit went past the end of _alloc_map
          phase,          \* "scan", "heap", "run" or "halt"
          memory_map,     \* the memory map being walked
          next,           \* the index of the next descriptor
          available_end,  \* available_end, in frames
          blocks,         \* the blocks Allocate returned and nobody freed
          result          \* the value of the last Allocate

vars == <<alloc_map, range_start, range_end, overrun, phase, memory_map, next,
          available_end, blocks, result>>

-----------------------------------------------------------------------------
(* The bitmap.                                                             *)

Line(f) == f \div kBitsPerMapLine
Bit(f) == f % kBitsPerMapLine

\* GetBit: the bit of the frame's line.
GetBit(m, f) == Line(f) < MapLines /\ Bit(f) \in m[Line(f)]

\* The frames of [s, s + n) that lie in the bitmap.
Touched(s, n) == {f \in Frames : s <= f /\ f < s + n}

\* SetBit(frame, v) for every frame of [s, s + n).
SetBits(m, s, n, v) ==
  [l \in DOMAIN m |->
     LET bits == {Bit(f) : f \in {g \in Touched(s, n) : Line(g) = l}}
     IN  IF v THEN m[l] \cup bits ELSE m[l] \ bits]

\* Whether frames [s, s + n) reach past _alloc_map.
PastMap(s, n) == n > 0 /\ s + n > kFrameCount

\* Mutant of MarkAllocated: the loop runs while i <= num_frames.
MarkAllocatedInclusive(m, s, n) ==
  [map |-> SetBits(m, s, n + 1, TRUE), past |-> PastMap(s, n + 1)]

\* MarkAllocated(start_frame, num_frames): SetBit(.., true) on each frame;
\* the bitmap it leaves, and whether it wrote past _alloc_map.
MarkAllocated(m, s, n) == [map |-> SetBits(m, s, n, TRUE), past |-> PastMap(s, n)]

-----------------------------------------------------------------------------
(* Allocate.                                                               *)

RECURSIVE InnerPastEnd(_, _, _, _, _)
\* Mutant of Inner: the end-of-range test is start_frame_id + i > _range_end.
InnerPastEnd(m, s, i, n, hi) ==
  IF i = n THEN [r |-> "found", i |-> i]
  ELSE IF s + i > hi THEN [r |-> "end", i |-> i]
  ELSE IF GetBit(m, s + i) THEN [r |-> "busy", i |-> i]
  ELSE InnerPastEnd(m, s, i + 1, n, hi)

RECURSIVE Inner(_, _, _, _, _)
\* The inner for loop of Allocate from i: it finds num_frames clear frames,
\* or runs into the end of the range (kNoEnoughMemory), or breaks at the
\* first allocated frame.
Inner(m, s, i, n, hi) ==
  IF i = n THEN [r |-> "found", i |-> i]
  ELSE IF s + i >= hi THEN [r |-> "end", i |-> i]
  ELSE IF GetBit(m, s + i) THEN [r |-> "busy", i |-> i]
  ELSE Inner(m, s, i + 1, n, hi)

RECURSIVE Allocate(_, _, _, _)

\* Mutant of Allocate: a scan that runs into the end of the range returns
\* the frame it stopped at.
AllocateEndFrame(m, s, n, hi) ==
  IF s >= hi THEN [frame |-> kNullFrame, ok |-> FALSE]
  ELSE LET r == Inner(m, s, 0, n, hi) IN
       IF r.r = "found" THEN [frame |-> s, ok |-> TRUE]
       ELSE IF r.r = "end" THEN [frame |-> s + r.i, ok |-> FALSE]
       ELSE Allocate(m, s + r.i + 1, n, hi)

\* The outer while loop of Allocate from start_frame_id s: on a break at
\* frame s + i it resumes at s + i + 1.
Allocate(m, s, n, hi) ==
  IF s >= hi THEN [frame |-> kNullFrame, ok |-> FALSE]
  ELSE LET r == Inner(m, s, 0, n, hi) IN
       IF r.r = "found" THEN [frame |-> s, ok |-> TRUE]
       ELSE IF r.r = "end" THEN [frame |-> kNullFrame, ok |-> FALSE]
       ELSE Allocate(m, s + r.i + 1, n, hi)

\* The reference: the lowest start of num_frames clear frames that all lie
\* in [range_start, range_end), or kNullFrame.
Fits(m, s, n, hi) == s + n <= hi /\ \A f \in s .. s + n - 1 : ~GetBit(m, f)
FirstFit(m, n, lo, hi) ==
  LET c == {s \in lo .. hi - 1 : Fits(m, s, n, hi)}
  IN  IF c = {} THEN kNullFrame ELSE Min(c)

-----------------------------------------------------------------------------
(* Boot: InitializeMemoryManager and InitializeHeap.                       *)

\* The constructor: a zeroed bitmap (the object lives in a static buffer)
\* covering [0, kFrameCount); the firmware's memory map.
Init == /\ alloc_map = [l \in 0 .. MapLines - 1 |-> {}]
        /\ range_start = 0
        /\ range_end = kFrameCount
        /\ overrun = FALSE
        /\ phase = "scan"
        /\ memory_map \in MemoryMaps
        /\ next = 1
        /\ available_end = 0
        /\ blocks = {}
        /\ result = [frame |-> kNullFrame, ok |-> FALSE]

\* Mutant of ScanDescriptor: the hole before an available descriptor is not
\* marked.
ScanDescriptorNoGap ==
  LET d == memory_map[next]
      physical_end == d.start + d.pages
  IN  /\ phase = "scan" /\ next <= Len(memory_map)
      /\ IF d.avail
         THEN /\ available_end' = physical_end
              /\ UNCHANGED <<alloc_map, overrun>>
         ELSE LET w == MarkAllocated(alloc_map, available_end, SizeT(physical_end - available_end)) IN
              /\ alloc_map' = w.map
              /\ overrun' = (overrun \/ w.past)
              /\ UNCHANGED available_end
      /\ next' = next + 1
      /\ UNCHANGED <<range_start, range_end, phase, memory_map, blocks, result>>

\* One descriptor of the loop of InitializeMemoryManager: an available one
\* marks the hole between available_end and its start and moves
\* available_end to its end; any other marks everything from available_end
\* to its end, as size_t (physical_end - available_end) frames.
ScanDescriptor ==
  LET d == memory_map[next]
      physical_end == d.start + d.pages
  IN  /\ phase = "scan" /\ next <= Len(memory_map)
      /\ IF d.avail
         THEN /\ available_end' = physical_end
              /\ IF available_end < d.start
                 THEN LET w == MarkAllocated(alloc_map, available_end, d.start - available_end) IN
                      /\ alloc_map' = w.map
                      /\ overrun' = (overrun \/ w.past)
                 ELSE UNCHANGED <<alloc_map, overrun>>
         ELSE LET w == MarkAllocated(alloc_map, available_end, SizeT(physical_end - available_end)) IN
              /\ alloc_map' = w.map
              /\ overrun' = (overrun \/ w.past)
              /\ UNCHANGED available_end
      /\ next' = next + 1
      /\ UNCHANGED <<range_start, range_end, phase, memory_map, blocks, result>>

\* SetMemoryRange(FrameID{1}, FrameID{available_end}).
SetMemoryRange ==
  /\ phase = "scan" /\ next > Len(memory_map)
  /\ range_start' = 1
  /\ range_end' = available_end
  /\ phase' = "heap"
  /\ UNCHANGED <<alloc_map, overrun, memory_map, next, available_end, blocks, result>>

\* The effect of Allocate(num_frames) on the manager: on success the frames
\* are marked.  A success has read and set frames up to frame + n - 1, a
\* failure has read up to _range_end - 1: past _alloc_map, an overrun.
AllocateStep(n) ==
  LET r == Allocate(alloc_map, range_start, n, range_end) IN
  /\ result' = r
  /\ alloc_map' = IF r.ok THEN MarkAllocated(alloc_map, r.frame, n).map ELSE alloc_map
  /\ overrun' = (overrun \/ IF r.ok THEN MarkAllocated(alloc_map, r.frame, n).past
                                   ELSE range_start < range_end /\ range_end > kFrameCount)
  /\ blocks' = IF r.ok THEN blocks \cup {[start |-> r.frame, n |-> n]} ELSE blocks

\* InitializeHeap: Allocate(kHeapFrames); on failure the kernel logs and
\* halts.
InitializeHeap ==
  /\ phase = "heap"
  /\ AllocateStep(kHeapFrames)
  /\ phase' = IF result'.ok THEN "run" ELSE "halt"
  /\ UNCHANGED <<range_start, range_end, memory_map, next, available_end>>

-----------------------------------------------------------------------------
(* After boot.                                                             *)

AllocateCall(n) ==
  /\ phase = "run" /\ Cardinality(blocks) < MaxBlocks
  /\ AllocateStep(n)
  /\ UNCHANGED <<range_start, range_end, phase, memory_map, next, available_end>>

\* Free(start_frame, num_frames) of a block its owner holds.
FreeCall(b) ==
  /\ phase = "run"
  /\ alloc_map' = SetBits(alloc_map, b.start, b.n, FALSE)
  /\ overrun' = (overrun \/ PastMap(b.start, b.n))
  /\ blocks' = blocks \ {b}
  /\ UNCHANGED <<range_start, range_end, phase, memory_map, next, available_end, result>>

Next == \/ ScanDescriptor \/ SetMemoryRange \/ InitializeHeap
        \/ \E n \in 1 .. MaxRequest : AllocateCall(n)
        \/ \E b \in blocks : FreeCall(b)

Spec == Init /\ [][Next]_vars

-----------------------------------------------------------------------------
TypeOK == /\ alloc_map \in [0 .. MapLines - 1 -> SUBSET (0 .. kBitsPerMapLine - 1)]
          /\ phase \in {"scan", "heap", "run", "halt"}
          /\ blocks \subseteq [start : Frames, n : 1 .. kFrameCount]
          /\ result \in [frame : Frames \cup {kNullFrame}, ok : BOOLEAN]

\* The frames the memory map lists as available.
AvailableFrames == UNION {memory_map[i].start .. memory_map[i].start + memory_map[i].pages - 1 :
                            i \in {j \in DOMAIN memory_map : memory_map[j].avail}}

\* Every block handed out, the heap included, lies in frames the firmware
\* reported available, never frame 0, and is marked in the bitmap; no two
\* blocks share a frame.  This rests on the memory-map walk marking every
\* hole and reserved region, on the range starting at 1, and on Allocate
\* testing every frame it returns.
BlocksOwnAvailableFrames ==
  /\ \A b \in blocks : \A f \in b.start .. b.start + b.n - 1 :
        f \in AvailableFrames \ {0} /\ GetBit(alloc_map, f)
  /\ \A b, c \in blocks :
        b /= c => (b.start .. b.start + b.n - 1) \cap (c.start .. c.start + c.n - 1) = {}

\* Allocate returns the first fit: the lowest start of num_frames clear
\* frames inside the range, or kNullFrame when there is none.
AllocateIsFirstFit ==
  [][\A n \in 1 .. MaxRequest :
       (AllocateCall(n) \/ (n = kHeapFrames /\ InitializeHeap))
         => result'.frame = FirstFit(alloc_map, n, range_start, range_end)]_vars

\* No GetBit or SetBit reaches past _alloc_map.
NoOverrun == ~overrun
=============================================================================
