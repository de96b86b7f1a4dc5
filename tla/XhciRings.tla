------------------------------ MODULE XhciRings ------------------------------
(***************************************************************************)
(* The command ring and the primary event ring together, as the driver     *)
(* and the xHC use them: the driver pushes commands with Ring::Push, the   *)
(* controller fetches each one and posts its completion on the event ring, *)
(* and ProcessEvents drains the completions with HasFront and Pop.  Each   *)
(* ring is the module that models it, instantiated on its own variables.   *)
(***************************************************************************)
EXTENDS Naturals, Sequences

CONSTANTS CN,     \* slots of the command ring
          EN,     \* slots of the event ring segment
          Cmds    \* the commands the driver may issue

VARIABLES cbuf, cwrite, ccycle, cdeq, cccs,   \* Ring (the command ring)
          ebuf, erdp, ecycle, enq, pcs,       \* EventRing
          issued  \* the commands pushed whose completion the driver has not drained

cvars == <<cbuf, cwrite, ccycle, cdeq, cccs>>
evars == <<ebuf, erdp, ecycle, enq, pcs>>
vars == <<cvars, evars, issued>>

CR == INSTANCE Ring WITH buf <- cbuf, write_index <- cwrite, cycle_bit <- ccycle,
                         deq <- cdeq, ccs <- cccs, N <- CN, Values <- Cmds
ER == INSTANCE EventRing WITH buf <- ebuf, cycle_bit <- ecycle, N <- EN,
                              Values <- Cmds

Init == CR!Init /\ ER!Init /\ issued = << >>

\* The driver pushes a command (and rings the doorbell).
IssueCommand(v) == /\ CR!DriverPush(v)
                   /\ issued' = Append(issued, v)
                   /\ UNCHANGED evars

\* The controller follows the command ring's Link TRB.
FollowLink == CR!FollowLink /\ UNCHANGED <<evars, issued>>

\* The controller executes the command at its dequeue pointer and posts the
\* Command Completion Event for it; it waits while the event ring is full.
ExecuteCommand == /\ CR!Fetch
                  /\ ER!Post(cbuf[cdeq].val)
                  /\ UNCHANGED issued

\* ProcessEvent drains one completion.
ProcessEvent == /\ ER!Consume
                /\ issued' = Tail(issued)
                /\ UNCHANGED cvars

Next == \/ \E v \in Cmds : IssueCommand(v)
        \/ FollowLink \/ ExecuteCommand \/ ProcessEvent

Spec == Init /\ [][Next]_vars

-----------------------------------------------------------------------------
TypeOK == CR!TypeOK /\ ER!TypeOK

\* Every command the driver issued and has not seen completed is either a
\* completion waiting in the event ring or a TRB the controller has still
\* to fetch, in issue order: the completions ProcessEvents drains come for
\* the commands in the order Ring::Push queued them, none lost or repeated,
\* across the wraps of both rings.
CompletionsFollowCommands == issued = ER!Pending \o CR!Outstanding

\* Refinement of TrbQueue by each ring, in the composition.
CommandRingIsFifo == CR!RingIsFifo
EventRingIsFifo == ER!EventRingIsFifo
=============================================================================
