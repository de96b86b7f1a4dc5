------------------------- MODULE TaskManagerUnprotected -------------------------
(***************************************************************************)
(* The two scheduler calls the kernel makes with interrupts enabled, added *)
(* to the scheduler of TaskManager: TaskB's own task.Sleep() at count ==   *)
(* 10000 (main.cpp 160-162) and main's Sleep(taskb_id) / Wakeup(taskb_id)  *)
(* for the 's' / 'w' keys on TaskB's window (main.cpp 488-494).  Each is   *)
(* cut at the points where a timer interrupt changes its outcome.          *)
(***************************************************************************)
EXTENDS TaskManager

CONSTANT DebugKeys   \* whether the 's' / 'w' keys of TaskB's window are used

\* 'w' on TaskB's window: Wakeup(taskb_id), whole, as no interrupt handler
\* touches TaskB's queue entry.
MainWakeupTaskB ==
  /\ DebugKeys /\ TaskBId /= NoTask
  /\ Running(MainTask, "loop") /\ tm.msgs[MainTask] > 0
  /\ tm' = Wakeup(Receive(tm, MainTask), TaskBId)
  /\ UNCHANGED <<cpu, ctx, pc, role, sub, iter, budget, pipe_vars>>

\* 's' on TaskB's window: Sleep(taskb_id) for TaskB, which is not the
\* current task (main is); its Erase is cut after std::remove, which has
\* moved the kept tasks to the front and leaves iter at the first remnant.
MainSleepTaskB ==
  /\ DebugKeys /\ TaskBId /= NoTask
  /\ Running(MainTask, "loop") /\ tm.msgs[MainTask] > 0
  /\ LET m    == Receive(tm, MainTask)
         q    == m.running[m.level[TaskBId]]
         kept == Erase(q, TaskBId)
     IN  /\ m.ready[TaskBId] /\ TaskBId /= CurrentTask(m)
         /\ tm' = [m EXCEPT !.ready[TaskBId] = FALSE,
                    !.running[m.level[TaskBId]] = kept \o SubSeq(q, Len(kept) + 1, Len(q))]
         /\ iter' = Len(kept) + 1
  /\ pc' = [pc EXCEPT ![MainTask] = "erase"]
  /\ UNCHANGED <<cpu, ctx, role, sub, budget, pipe_vars>>

\* The second half of that Erase: erase(iter, end()) with the end taken now,
\* so whatever the queue gained since std::remove goes with the remnant.
MainEraseEnd ==
  /\ Running(MainTask, "erase")
  /\ tm' = [tm EXCEPT !.running[tm.level[TaskBId]] = SubSeq(@, 1, iter - 1)]
  /\ pc' = [pc EXCEPT ![MainTask] = "loop"]
  /\ iter' = 0
  /\ UNCHANGED <<cpu, ctx, role, sub, budget, pipe_vars>>

\* TaskB's task.Sleep() at count == 10000: the flag (task.cpp 165-168), then
\* the front test and RotateCurrentRunQueue(true) (170-173), then
\* SwitchContext (174).
TaskBSleepFlag(e) ==
  /\ role[e] = "taskb" /\ Running(e, "count")
  /\ IF tm.ready[e]
     THEN /\ tm' = [tm EXCEPT !.ready[e] = FALSE]
          /\ pc' = [pc EXCEPT ![e] = "sleep_rotate"]
     ELSE /\ pc' = [pc EXCEPT ![e] = "loop"]
          /\ UNCHANGED tm
  /\ UNCHANGED <<cpu, ctx, role, sub, iter, budget, pipe_vars>>

TaskBSleepRotate(e) ==
  /\ Running(e, "sleep_rotate")
  /\ IF e = CurrentTask(tm)
     THEN /\ tm' = RotateCurrentRunQueue(tm, TRUE)
          /\ pc' = [pc EXCEPT ![e] = "sleep_switch"]
     ELSE /\ tm' = [tm EXCEPT !.running[tm.level[e]] = Erase(@, e)]
          /\ pc' = [pc EXCEPT ![e] = "loop"]
  /\ UNCHANGED <<cpu, ctx, role, sub, iter, budget, pipe_vars>>

TaskBSleepSwitch(e) ==
  /\ Running(e, "sleep_switch")
  /\ LET c == [ctx EXCEPT ![e] = cpu]
     IN  /\ ctx' = c
         /\ cpu' = c[CurrentTask(tm)]
  /\ pc' = [pc EXCEPT ![e] = "loop"]
  /\ UNCHANGED <<tm, role, sub, iter, budget, pipe_vars>>

RunUnprotected(e) ==
  \/ Run(e)
  \/ e = MainTask /\ (MainWakeupTaskB \/ MainSleepTaskB \/ MainEraseEnd)
  \/ TaskBSleepFlag(e) \/ TaskBSleepRotate(e) \/ TaskBSleepSwitch(e)

NextUnprotected ==
  \/ \E to \in TimerOwners \cup {NoTask}, sw \in BOOLEAN : TimerInterrupt(to, sw)
  \/ DeviceInterrupt
  \/ \E e \in Ids : RunUnprotected(e)

\* The fairness of TaskManager, over the tasks' steps including these.
SpecUnprotected ==
  /\ Init /\ [][NextUnprotected]_vars
  /\ WF_vars(\E to \in TimerOwners \cup {NoTask} : TimerInterrupt(to, TRUE))
  /\ \A e \in Ids : SF_vars(RunUnprotected(e))
=============================================================================
