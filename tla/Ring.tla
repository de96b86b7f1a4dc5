-------------------------------- MODULE Ring --------------------------------
(***************************************************************************)
(* The producer ring of usb/xhci/ring.cpp (class Ring), used for the       *)
(* command ring and for every transfer ring, together with the xHC that    *)
(* consumes it.  Software only writes: Push stores a TRB with the ring's   *)
(* cycle bit, and when the write index reaches the last slot it writes a   *)
(* Link TRB with toggle_cycle set, wraps to slot 0 and flips its cycle     *)
(* bit.  The controller consumes a slot only while the slot's cycle bit    *)
(* equals its consumer cycle state, and follows a Link TRB back to slot 0, *)
(* toggling that state.                                                    *)
(***************************************************************************)
EXTENDS Naturals, Sequences

CONSTANTS N,       \* _buf_size, the number of TRB slots (Initialize(32))
          Values   \* payloads of the TRBs the driver pushes

ASSUME N >= 2

VARIABLES buf,           \* _buf: slot -> [type, val, cycle]
          write_index,   \* _write_index
          cycle_bit,     \* _cycle_bit, the producer cycle state
          deq,           \* the controller's dequeue index (hardware)
          ccs            \* the controller's consumer cycle state (hardware)

vars == <<buf, write_index, cycle_bit, deq, ccs>>

Slots == 0 .. N - 1
TrbTypes == {"Zero", "Normal", "Link"}
Trbs == [type : TrbTypes, val : Values \cup {"none"}, cycle : {0, 1}]

\* AllocArray zero-fills the buffer, so every slot starts as a TRB of type 0
\* whose cycle bit is 0.
ZeroTrb == [type |-> "Zero", val |-> "none", cycle |-> 0]

\* Ring::Initialize: cycle bit 1, write index 0, a zeroed buffer.  The
\* controller is told the ring's cycle state through CRCR (command ring) or
\* the endpoint context's dequeue_cycle_state (transfer ring), both 1.
Init == /\ buf = [i \in Slots |-> ZeroTrb]
        /\ write_index = 0
        /\ cycle_bit = 1
        /\ deq = 0
        /\ ccs = 1

\* Mutant of Push: the Link TRB is written with the flipped cycle bit.
PushLinkFlipped(v) ==
  LET wi   == write_index + 1
      data == [buf EXCEPT ![write_index] =
                 [type |-> "Normal", val |-> v, cycle |-> cycle_bit]]
  IN  IF wi = N - 1
      THEN /\ buf' = [data EXCEPT ![wi] =
                        [type |-> "Link", val |-> "none", cycle |-> 1 - cycle_bit]]
           /\ write_index' = 0
           /\ cycle_bit' = 1 - cycle_bit
      ELSE /\ buf' = data
           /\ write_index' = wi
           /\ UNCHANGED cycle_bit

\* Ring::Push: the TRB goes to the write index with the low bit of its last
\* word replaced by the cycle bit; if the next index is the last slot, a Link
\* TRB (toggle_cycle) carrying the current cycle bit is written there, the
\* index returns to 0 and the cycle bit flips.
Push(v) ==
  LET wi   == write_index + 1
      data == [buf EXCEPT ![write_index] =
                 [type |-> "Normal", val |-> v, cycle |-> cycle_bit]]
  IN  IF wi = N - 1
      THEN /\ buf' = [data EXCEPT ![wi] =
                        [type |-> "Link", val |-> "none", cycle |-> cycle_bit]]
           /\ write_index' = 0
           /\ cycle_bit' = 1 - cycle_bit
      ELSE /\ buf' = data
           /\ write_index' = wi
           /\ UNCHANGED cycle_bit

\* The slots the controller has still to consume, in order: walk from the
\* dequeue index while the cycle bit matches, following Link TRBs.
RECURSIVE Walk(_, _, _)
Walk(i, c, fuel) ==
  IF fuel = 0 \/ buf[i].cycle /= c THEN << >>
  ELSE IF buf[i].type = "Link" THEN << i >> \o Walk(0, 1 - c, fuel - 1)
  ELSE << i >> \o Walk(i + 1, c, fuel - 1)

PendingSlots == Walk(deq, ccs, 2 * N)

\* The payloads of the pending data TRBs, oldest first.
Outstanding ==
  LET data == SelectSeq(PendingSlots, LAMBDA i : buf[i].type = "Normal")
  IN  [k \in 1 .. Len(data) |-> buf[data[k]].val]

\* The slots one Push writes: the write index, and the last slot when the
\* push wraps.
WrittenSlots == IF write_index + 1 = N - 1 THEN {write_index, N - 1}
                ELSE {write_index}

\* Mutant of DriverPush: a push without room, as when a caller queues more
\* TRBs than the ring holds before the controller consumes them.
DriverPushNoRoom(v) == /\ Push(v)
                       /\ UNCHANGED <<deq, ccs>>

\* The driver never overwrites a slot the controller has not consumed yet:
\* a command or a transfer is pushed only after the previous ones of its
\* kind completed (see XhciEnumeration), so a ring of 32 slots never holds
\* more than a handful.  Ring::Push itself does not check this.
DriverPush(v) == /\ \A k \in 1 .. Len(PendingSlots) : PendingSlots[k] \notin WrittenSlots
                 /\ Push(v)
                 /\ UNCHANGED <<deq, ccs>>

\* The xHC fetches the TRB at its dequeue index when its cycle bit matches.
Fetch == /\ buf[deq].cycle = ccs
         /\ buf[deq].type = "Normal"
         /\ deq' = deq + 1
         /\ UNCHANGED <<buf, write_index, cycle_bit, ccs>>

\* A Link TRB with toggle_cycle sends the controller back to slot 0.
FollowLink == /\ buf[deq].cycle = ccs
              /\ buf[deq].type = "Link"
              /\ deq' = 0
              /\ ccs' = 1 - ccs
              /\ UNCHANGED <<buf, write_index, cycle_bit>>

Next == (\E v \in Values : DriverPush(v)) \/ Fetch \/ FollowLink

Spec == Init /\ [][Next]_vars

-----------------------------------------------------------------------------
TypeOK == /\ buf \in [Slots -> Trbs]
          /\ write_index \in 0 .. N - 2
          /\ cycle_bit \in {0, 1}
          /\ deq \in Slots
          /\ ccs \in {0, 1}

\* Refinement: the ring, read by the controller through the cycle-bit
\* protocol, is a FIFO queue of the pushed TRBs with room for N - 1 of them.
\* Every push of Ring::Push becomes exactly one Enq, every fetch one Deq, and
\* a Link TRB or a wrap never loses, duplicates or reorders a TRB.
Fifo == INSTANCE TrbQueue WITH queue <- Outstanding, Capacity <- N - 1
RingIsFifo == Fifo!QSpec
=============================================================================
