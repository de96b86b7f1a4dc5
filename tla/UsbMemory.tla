----------------------------- MODULE UsbMemory -----------------------------
(***************************************************************************)
(* The USB driver's DMA memory pool (usb/memory.cpp).  A static array of   *)
(* kMemoryPollSize bytes, aligned to 64, is handed out by a bump pointer   *)
(* alloc_ptr: AllocMem(size, alignment, boundary) first rounds alloc_ptr   *)
(* up to the alignment, then, when the block would cross the next          *)
(* multiple of boundary, moves it to that multiple, and fails with nullptr *)
(* when the block would pass the end of the pool.  FreeMem does nothing,   *)
(* so the pool only grows.                                                 *)
(*                                                                         *)
(* Addresses are integers in a scaled unit; a request is one of the        *)
(* (size, alignment, boundary) triples the callers pass.                   *)
(***************************************************************************)
EXTENDS Integers, FiniteSets, TLC

CONSTANTS
  PoolBase,        \* reinterpret_cast<uintptr_t>(memory_pool), a multiple of 64
  kMemoryPollSize, \* the pool's size
  Requests,        \* set of [size, alignment, boundary] the callers pass
  MaxCalls         \* bound on the number of AllocMem calls

VARIABLES
  alloc_ptr,   \* usb::alloc_ptr
  allocs,      \* the blocks AllocMem has returned (history)
  calls        \* number of AllocMem calls so far (bound)

pool_vars == <<alloc_ptr, allocs, calls>>

PoolEnd == PoolBase + kMemoryPollSize

(* Align(value, alignment): (value + alignment - 1) & ~(alignment - 1).    *)
(* For the power-of-two alignments every caller passes, masking off the    *)
(* low bits is subtracting the remainder.                                  *)
Align(value, alignment) ==
  LET s == value + alignment - 1 IN s - (s % alignment)

PoolTypeOK ==
  /\ alloc_ptr \in PoolBase..(PoolEnd + 2 * kMemoryPollSize)
  /\ allocs \subseteq [addr : Nat, size : Nat, alignment : Nat, boundary : Nat]
  /\ calls \in 0..MaxCalls

PoolInit ==
  /\ alloc_ptr = PoolBase
  /\ allocs = {}
  /\ calls = 0

(* The pointer after the alignment step, lines 22-24.                      *)
AlignStep(p, r) ==
  IF r.alignment > 0 THEN Align(p, r.alignment) ELSE p

(* The pointer after the boundary step, lines 25-30.                       *)
BoundaryStep(p, r) ==
  IF r.boundary > 0 /\ p + r.size > Align(p, r.boundary)
  THEN Align(p, r.boundary)
  ELSE p

(* Mutant of AllocMem: the boundary step before the alignment step.       *)
AllocMemBoundaryFirst(r) ==
  LET p == AlignStep(BoundaryStep(alloc_ptr, r), r) IN
  /\ calls < MaxCalls
  /\ calls' = calls + 1
  /\ IF p + r.size > PoolEnd
     THEN /\ alloc_ptr' = p
          /\ UNCHANGED allocs
     ELSE /\ alloc_ptr' = p + r.size
          /\ allocs' = allocs \cup {[addr |-> p] @@ r}

(* AllocMem(size, alignment, boundary): both steps assign alloc_ptr before *)
(* the end-of-pool check, so a failed call still moves it.                 *)
AllocMem(r) ==
  LET p == BoundaryStep(AlignStep(alloc_ptr, r), r) IN
  /\ calls < MaxCalls
  /\ calls' = calls + 1
  /\ IF p + r.size > PoolEnd
     THEN /\ alloc_ptr' = p
          /\ UNCHANGED allocs
     ELSE /\ alloc_ptr' = p + r.size
          /\ allocs' = allocs \cup {[addr |-> p] @@ r}

PoolNext == \E r \in Requests : AllocMem(r)

(* Every block AllocMem has returned lies inside memory_pool, starts at a  *)
(* multiple of its alignment, does not cross a multiple of its boundary    *)
(* (the xHC's rule for rings and contexts) and overlaps no other block:    *)
(* the alignment step, the boundary step and the end check of AllocMem     *)
(* must compose for every order of the callers' requests.                  *)
PoolAllocationsSound ==
  /\ \A a \in allocs :
       /\ PoolBase <= a.addr /\ a.addr + a.size <= PoolEnd
       /\ a.alignment > 0 => a.addr % a.alignment = 0
       /\ a.boundary > 0 /\ a.size <= a.boundary =>
            a.addr \div a.boundary = (a.addr + a.size - 1) \div a.boundary
  /\ \A a, b \in allocs :
       a # b => a.addr + a.size <= b.addr \/ b.addr + b.size <= a.addr

=============================================================================
