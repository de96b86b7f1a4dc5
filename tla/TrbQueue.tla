------------------------------ MODULE TrbQueue ------------------------------
(***************************************************************************)
(* What a TRB ring promises its two ends: a bounded first-in first-out     *)
(* queue.  The producer appends a TRB, the consumer takes the oldest one.  *)
(* Ring (command and transfer rings) and EventRing are shown to implement  *)
(* this specification; XhciEnumeration uses it directly for the command    *)
(* ring and the primary event ring.                                        *)
(***************************************************************************)
EXTENDS Sequences, Naturals

CONSTANTS Values,    \* the TRB payloads the producer may write
          Capacity   \* the most TRBs that may be outstanding at once

VARIABLE queue

QTypeOK == queue \in Seq(Values) /\ Len(queue) <= Capacity

QInit == queue = << >>

Enq(v) == /\ Len(queue) < Capacity
          /\ queue' = Append(queue, v)

Deq == /\ queue /= << >>
       /\ queue' = Tail(queue)

QNext == (\E v \in Values : Enq(v)) \/ Deq

QSpec == QInit /\ [][QNext]_queue
=============================================================================
