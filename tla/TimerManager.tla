---------------------------- MODULE TimerManager ----------------------------
(***************************************************************************)
(* The timer manager of timer.cpp: a priority queue of Timers ordered by   *)
(* operator< of timer.hpp, the tick counter, and Tick(), which the LAPIC   *)
(* timer interrupt calls every 1/kTimerFreq s.  Due timers become          *)
(* kTimerTimeout messages to their task; the task timer (value             *)
(* kTaskTimerValue) is re-armed kTaskTimerPeriod ticks ahead and makes the *)
(* interrupt switch tasks.  The tasks with periodic timers re-arm them     *)
(* from the timeout carried by the message: main's text-box cursor         *)
(* (main.cpp), the wall clock (main.cpp TaskWallclock) and a terminal's    *)
(* cursor blink (terminal.cpp).                                            *)
(***************************************************************************)
EXTENDS Integers, Sequences, FiniteSets

CONSTANTS kTimerFreq,   \* ticks per second (timer.hpp)
          MaxTick,      \* bound on _tick
          StartWindow   \* the last tick of boot, and of the first timer of the wall clock or a terminal

\* static_cast<int>(kTimerFreq * 0.02) and static_cast<int>(kTimerFreq * 0.5)
kTaskTimerPeriod == (kTimerFreq * 2) \div 100
kTimer05Sec == kTimerFreq \div 2
\* std::numeric_limits<int>::min()
kTaskTimerValue == -2147483647 - 1
kTextboxCursorTimer == 1
\* numeric_limits<unsigned long>::max(), the sentinel's timeout: a tick no
\* run reaches (nor any machine: 2^64 ticks at 100 Hz).
ULongMax == MaxTick + 1
NoTask == "none"

\* The tasks that own a periodic timer.
Owners == {"main", "wallclock", "terminal"}
Values == {kTaskTimerValue, kTextboxCursorTimer, 0}
Timers == [timeout : 0 .. ULongMax + kTimerFreq, value : Values,
           task : Owners \cup {NoTask}]

Timer(timeout, value, task) == [timeout |-> timeout, value |-> value, task |-> task]

VARIABLES tick,      \* _tick
          timers,    \* the Timers in _timers
          mbox,      \* the timeouts of the kTimerTimeout messages each owner has not read
          started,   \* the owners whose task has added its first timer
          origin     \* the timeout of each owner's first timer

vars == <<tick, timers, mbox, started, origin>>

\* TimerManager(): the sentinel that never expires.  Then main adds the
\* cursor timer at the absolute tick kTimer05Sec (main.cpp 388-390) and
\* InitializeTask the task timer at CurrentTick() + kTaskTimerPeriod
\* (task.cpp 352-353); the LAPIC timer, started at main.cpp 383, may have
\* ticked a few times in between.
Init == /\ tick \in 0 .. StartWindow
        /\ timers = {Timer(ULongMax, 0, NoTask),
                     Timer(kTimer05Sec, kTextboxCursorTimer, "main"),
                     Timer(tick + kTaskTimerPeriod, kTaskTimerValue, "main")}
        /\ mbox = [o \in Owners |-> << >>]
        /\ started = {"main"}
        /\ origin = [o \in Owners |-> IF o = "main" THEN kTimer05Sec ELSE 0]

-----------------------------------------------------------------------------
\* Mutant of Less: the comparison the other way round.
LessByEarliest(lhs, rhs) == lhs.timeout < rhs.timeout

\* operator<(lhs, rhs) is lhs.Timeout() > rhs.Timeout(), so the top of the
\* priority queue, a timer no other is greater than, has the earliest timeout.
Less(lhs, rhs) == lhs.timeout > rhs.timeout

\* _timers.top(); equal timeouts leave the heap's choice open, and the
\* model takes one of them.
Top(ts) == CHOOSE t \in ts : \A u \in ts : ~Less(t, u)

RECURSIVE Expire(_, _, _, _)

\* Mutant of Expire: the task timer is re-armed with Timer's arguments
\* swapped.
ExpireSwapped(ts, now, sent, task_timeout) ==
  LET t == Top(ts) IN
  IF t.timeout > now
  THEN [rest |-> ts, sent |-> sent, task_timeout |-> task_timeout]
  ELSE IF t.value = kTaskTimerValue
  THEN Expire((ts \ {t}) \cup {Timer(ULongMax + kTimerFreq, now + kTaskTimerPeriod, "main")},
              now, sent, TRUE)
  ELSE Expire(ts \ {t}, now, Append(sent, t), task_timeout)

\* Mutant of Expire: the expired task timer is popped and not pushed again.
ExpireNoRearm(ts, now, sent, task_timeout) ==
  LET t == Top(ts) IN
  IF t.timeout > now
  THEN [rest |-> ts, sent |-> sent, task_timeout |-> task_timeout]
  ELSE IF t.value = kTaskTimerValue
  THEN Expire(ts \ {t}, now, sent, TRUE)
  ELSE Expire(ts \ {t}, now, Append(sent, t), task_timeout)

\* The loop of Tick(): while the top timer is due, the task timer is
\* re-armed at now + kTaskTimerPeriod and any other timer is sent to its
\* task and popped.  The result is the remaining timers, the timers sent,
\* in order, and whether the task timer expired.
Expire(ts, now, sent, task_timeout) ==
  LET t == Top(ts) IN
  IF t.timeout > now
  THEN [rest |-> ts, sent |-> sent, task_timeout |-> task_timeout]
  ELSE IF t.value = kTaskTimerValue
  THEN Expire((ts \ {t}) \cup {Timer(now + kTaskTimerPeriod, kTaskTimerValue, "main")},
              now, sent, TRUE)
  ELSE Expire(ts \ {t}, now, Append(sent, t), task_timeout)

\* Tick(): the tick advances and the due timers expire; each message goes
\* to its task's queue through task_manager->SendMessage.
Tick ==
  /\ tick < MaxTick
  /\ LET r == Expire(timers, tick + 1, << >>, FALSE) IN
     /\ tick' = tick + 1
     /\ timers' = r.rest
     /\ mbox' = [o \in Owners |->
                   mbox[o] \o [i \in 1 .. Len(SelectSeq(r.sent, LAMBDA t : t.task = o))
                                 |-> SelectSeq(r.sent, LAMBDA t : t.task = o)[i].timeout]]
  /\ UNCHANGED <<started, origin>>

-----------------------------------------------------------------------------
(* The owners of the periodic timers.                                      *)

Period(o) == IF o = "wallclock" THEN kTimerFreq ELSE kTimer05Sec

\* The first timer: the wall clock's expires at once (Timer{CurrentTick(),
\* 1, task_id}, main.cpp 296-297), a terminal's blink half a second ahead
\* (add_blink_timer(CurrentTick()), terminal.cpp 1048-1052).
FirstTimeout(o) == IF o = "wallclock" THEN tick ELSE tick + kTimer05Sec

Start(o) ==
  /\ o \notin started /\ tick <= StartWindow
  /\ timers' = timers \cup {Timer(FirstTimeout(o), 1, o)}
  /\ started' = started \cup {o}
  /\ origin' = [origin EXCEPT ![o] = FirstTimeout(o)]
  /\ UNCHANGED <<tick, mbox>>

\* Mutant of Rearm: the next timeout is counted from the current tick.
RearmFromNow(o, timeout) == Timer(tick + Period(o), 1, o)

\* The re-armed timer: msg->arg.timer.timeout + kTimer05Sec for main's
\* cursor (main.cpp 467-472), + kTimerFreq for the wall clock (main.cpp
\* 309-313), add_blink_timer(msg->arg.timer.timeout) for a terminal
\* (terminal.cpp 1066-1067).
Rearm(o, timeout) == Timer(timeout + Period(o), 1, o)

\* The owner reads its oldest kTimerTimeout message and re-arms.
Handle(o) ==
  /\ mbox[o] /= << >>
  /\ timers' = timers \cup {Rearm(o, Head(mbox[o]))}
  /\ mbox' = [mbox EXCEPT ![o] = Tail(@)]
  /\ UNCHANGED <<tick, started, origin>>

\* While `cat` or an application reads the terminal's stdin,
\* TerminalFileDescriptor::Read takes the terminal task's messages from the
\* same queue and drops every one that is not a key press: the timeout is
\* read and no blink timer is added.  Which of the two loops reads a given
\* message depends on when the user runs `cat` and ends it with Ctrl-D,
\* which any step may precede, so either may read it.
StdinRead ==
  /\ mbox["terminal"] /= << >>
  /\ mbox' = [mbox EXCEPT !["terminal"] = Tail(@)]
  /\ UNCHANGED <<tick, timers, started, origin>>

Next == Tick \/ StdinRead \/ \E o \in Owners : Start(o) \/ Handle(o)

Spec == Init /\ [][Next]_vars

-----------------------------------------------------------------------------
TypeOK == /\ tick \in 0 .. MaxTick
          /\ timers \subseteq Timers
          /\ mbox \in [Owners -> Seq(Nat)]
          /\ started \subseteq Owners

\* A Tick fires exactly the timers that are due: every timer still queued
\* after it lies in the future, and every timer it removed or sent was due.
\* This rests on operator< being the reverse of the timeout order, so that
\* top() is the earliest timer and the loop stops at the first one not due.
TimersFireWhenDue ==
  [][Tick => /\ \A t \in timers' : t.timeout > tick'
             /\ \A t \in timers \ timers' : t.timeout <= tick']_vars

\* Exactly one task timer is queued at any time and it expires within
\* kTaskTimerPeriod ticks: preemption never stops.
TaskTimerArmed ==
  \E t \in timers :
    /\ t.value = kTaskTimerValue
    /\ tick < t.timeout /\ t.timeout <= tick + kTaskTimerPeriod
    /\ \A u \in timers : u.value = kTaskTimerValue => u = t

\* Main's cursor timer and the wall clock's timer are never lost nor
\* doubled: each has exactly one timer or one unread timeout message
\* outstanding.  The terminal's blink timer is never doubled, though a
\* timeout read by `cat` loses it.  Every owner's timeouts stay on the grid
\* of its first timer, however late the task reads the message: re-arming
\* from the message's timeout never drifts.
PeriodicTimersInPhase ==
  \A o \in started :
    LET mine == {t \in timers : t.task = o /\ t.value /= kTaskTimerValue}
        outstanding == Cardinality(mine) + Len(mbox[o])
    IN  /\ IF o = "terminal" THEN outstanding <= 1 ELSE outstanding = 1
        /\ \A t \in mine : (t.timeout - origin[o]) % Period(o) = 0
        /\ \A i \in 1 .. Len(mbox[o]) : (mbox[o][i] - origin[o]) % Period(o) = 0
=============================================================================
