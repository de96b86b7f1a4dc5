------------------------------ MODULE EventRing ------------------------------
(***************************************************************************)
(* The primary event ring of usb/xhci/ring.cpp (class EventRing): a single *)
(* segment of N TRBs written by the xHC and drained by software.  The      *)
(* controller writes each event with its producer cycle state and flips    *)
(* that state when it wraps; it never writes the slot before the dequeue   *)
(* pointer (ERDP) software last wrote.  Software sees an event when the    *)
(* slot at ERDP carries the cycle bit it expects (HasFront), and Pop moves *)
(* ERDP one slot on, wrapping to the segment base and flipping the         *)
(* expected cycle bit.                                                     *)
(***************************************************************************)
EXTENDS Naturals, Sequences

CONSTANTS N,       \* _buf_size, the segment size (Initialize(32, ...))
          Values   \* the events the controller may post

ASSUME N >= 2

VARIABLES buf,        \* _buf: slot -> [val, cycle]
          erdp,       \* the ERDP register, as a slot index
          cycle_bit,  \* _cycle_bit, the cycle bit software expects
          enq,        \* the controller's enqueue index (hardware)
          pcs         \* the controller's producer cycle state (hardware)

vars == <<buf, erdp, cycle_bit, enq, pcs>>

Slots == 0 .. N - 1

\* EventRing::Initialize: a zero-filled segment (every cycle bit 0), the
\* expected cycle bit 1, ERDP at the segment base.  The controller starts
\* enqueuing at the base with producer cycle state 1.
Init == /\ buf = [i \in Slots |-> [val |-> "none", cycle |-> 0]]
        /\ erdp = 0
        /\ cycle_bit = 1
        /\ enq = 0
        /\ pcs = 1

\* EventRing::HasFront
HasFront == buf[erdp].cycle = cycle_bit

\* EventRing::Front
Front == buf[erdp].val

\* Mutant of Pop: the expected cycle bit is not flipped at the wrap.
PopKeepCycle ==
  /\ erdp' = IF erdp + 1 = N THEN 0 ELSE erdp + 1
  /\ UNCHANGED cycle_bit

\* Mutant of Pop: the end of the segment is tested one TRB late.
PopLateWrap ==
  IF erdp + 1 > N
  THEN /\ erdp' = 0
       /\ cycle_bit' = 1 - cycle_bit
  ELSE /\ erdp' = erdp + 1
       /\ UNCHANGED cycle_bit

\* EventRing::Pop: ERDP moves one TRB on; crossing the end of the segment
\* wraps to its base and flips the expected cycle bit.  The new pointer is
\* written back to ERDP, which is how the controller learns of the space.
Pop == IF erdp + 1 = N
       THEN /\ erdp' = 0
            /\ cycle_bit' = 1 - cycle_bit
       ELSE /\ erdp' = erdp + 1
            /\ UNCHANGED cycle_bit

\* ProcessEvent consumes one event: it reads it only after HasFront, then
\* pops it.  What it does with the event is the subject of XhciEnumeration.
Consume == /\ HasFront
           /\ Pop
           /\ UNCHANGED <<buf, enq, pcs>>

\* The controller posts an event unless the ring is full, i.e. unless the
\* slot after its enqueue index is the one ERDP points at.
Post(v) == /\ (enq + 1) % N /= erdp
           /\ buf' = [buf EXCEPT ![enq] = [val |-> v, cycle |-> pcs]]
           /\ IF enq + 1 = N THEN enq' = 0 /\ pcs' = 1 - pcs
                             ELSE enq' = enq + 1 /\ UNCHANGED pcs
           /\ UNCHANGED <<erdp, cycle_bit>>

Next == Consume \/ \E v \in Values : Post(v)

Spec == Init /\ [][Next]_vars

-----------------------------------------------------------------------------
TypeOK == /\ buf \in [Slots -> [val : Values \cup {"none"}, cycle : {0, 1}]]
          /\ erdp \in Slots /\ enq \in Slots
          /\ cycle_bit \in {0, 1} /\ pcs \in {0, 1}

\* The events software will still see, oldest first: from ERDP while the
\* cycle bit is the expected one, wrapping with a flip at the segment end.
RECURSIVE Visible(_, _, _)
Visible(i, c, fuel) ==
  IF fuel = 0 \/ buf[i].cycle /= c THEN << >>
  ELSE << buf[i].val >> \o
       (IF i + 1 = N THEN Visible(0, 1 - c, fuel - 1)
                     ELSE Visible(i + 1, c, fuel - 1))

Pending == Visible(erdp, cycle_bit, N)

\* Refinement: what ProcessEvents drains is a FIFO queue of the events the
\* controller posted, with room for N - 1: no event is skipped, read twice
\* or read stale after any number of wraps of either side.
Fifo == INSTANCE TrbQueue WITH queue <- Pending, Capacity <- N - 1
EventRingIsFifo == Fifo!QSpec
=============================================================================
