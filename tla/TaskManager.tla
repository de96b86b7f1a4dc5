----------------------------- MODULE TaskManager -----------------------------
(***************************************************************************)
(* The preemptive multilevel scheduler of task.cpp (TaskManager) and the   *)
(* tasks of main.cpp and terminal.cpp that drive it, on one CPU whose       *)
(* timer interrupt (timer.cpp LAPICTimerOnInterrupt) may fire whenever     *)
(* interrupts are enabled.                                                  *)
(*                                                                         *)
(* tm mirrors the TaskManager object and the Task fields it reads: the run *)
(* queues _runnning[0..kMaxLevel], _current_level, _level_changed, the ids *)
(* in _tasks, _last_id, every task's _level, _ready_or_running and the     *)
(* number of messages in _msgs, and _finish_tasks / _finish_waiter.       *)
(* cpu is the execution the processor is running and ctx[t] the execution  *)
(* saved in task t's TaskContext: an execution is named by the task whose  *)
(* code it is, so ctx[t] = t says that t's context really holds t.         *)
(* pc[e] is where execution e is in its code.  A section between cli and   *)
(* sti is one atomic step; code the callers run with interrupts enabled is *)
(* split at the points where the timer interrupt changes the outcome.      *)
(***************************************************************************)
EXTENDS Integers, Sequences, SequencesExt

CONSTANTS MaxTasks,   \* bound on _last_id: ids 1 .. MaxTasks
          MaxMsgs,    \* bound on the messages waiting in one task's _msgs
          Budget,     \* bound on the interrupts that deliver a message
          InitRoles,  \* the tasks main creates before its loop (main.cpp 409-419)
          TaskBStart, \* "count": TaskB has not yet reached count == 10000
          SubCommands,   \* what a pipe's right-hand side runs: "cat" reads
                         \* its stdin to the end, "echo" never reads it
          kPipeData,     \* sizeof(Message::arg.pipe.data)
          MaxPipeBytes,  \* bound on the bytes a left-hand side writes
          ReadLens       \* the len arguments the reader passes to Read

kMaxLevel == 3
Levels == 0 .. kMaxLevel
kDefaultLevel == 1
MainTask == 1
IdleTask == 2
NoTask == 0
Ids == 1 .. MaxTasks

\* What each task runs: main and idle (TaskManager()), "worker" (the loop of
\* TaskWallclock, and TaskB's inner loop), "taskb" (TaskB, which also sleeps
\* itself once at count == 10000), "terminal" (TaskTerminal) and "sub" (a
\* TaskTerminal started for the right side of a pipe, exit_after_command).
Labels == {"loop", "count", "sleep_rotate", "sleep_switch", "erase", "write",
           "wait", "start", "read", "finish", "done", "none"}
Roles == {"main", "idle", "worker", "taskb", "terminal", "sub", "none"}
TaskBId == IF \E i \in DOMAIN InitRoles : InitRoles[i] = "taskb"
           THEN 2 + CHOOSE i \in DOMAIN InitRoles : InitRoles[i] = "taskb"
           ELSE NoTask

VARIABLES tm, cpu, ctx, pc, role, sub, iter, budget,
          pipe       \* pipe[s]: the PipeDescriptor whose _task is the sub s

pipe_vars == <<pipe>>
vars == <<tm, cpu, ctx, pc, role, sub, iter, budget, pipe>>

\* A message in a sub's _msgs: a kPipe message with its arg.pipe.len, or
\* any other message (the keys main forwards to the task of the layer).
NotPipe == -1
PipeMsgs == 0 .. kPipeData \cup {NotPipe}

\* The PipeDescriptor state (_len, _closed), the sub's queue in order, the
\* command the sub runs, and what the writer has done: the bytes of the
\* current Write still unsent, the bytes sent in all, and what Read
\* returned in all.
NoPipe == [cmd |-> "none", q |-> << >>, wleft |-> 0, written |-> 0,
           got |-> 0, left |-> 0, closed |-> FALSE]

-----------------------------------------------------------------------------
(* The TaskManager operations, as functions of the manager's state.        *)

\* The anonymous Erase: std::remove followed by erase.
Erase(q, t) == SelectSeq(q, LAMBDA x : x /= t)

CurrentTask(m) == Head(m.running[m.current_level])

NonEmptyLevels(r) == {lv \in Levels : r[lv] /= << >>}

\* Mutant of RotateCurrentRunQueue: the level scan runs upwards from 0.
RotateScanUp(m, current_sleep) ==
  LET q  == m.running[m.current_level]
      q1 == IF current_sleep THEN Tail(q) ELSE Append(Tail(q), Head(q))
      r  == [m.running EXCEPT ![m.current_level] = q1]
      changed == m.level_changed \/ q1 = << >>
  IN  [m EXCEPT !.running = r, !.level_changed = FALSE,
                !.current_level = IF changed /\ NonEmptyLevels(r) /= {}
                                  THEN Min(NonEmptyLevels(r)) ELSE @]

\* The front task of the current level leaves it (current_sleep) or goes to
\* its back; if that level emptied or a wakeup flagged a level change, the
\* highest non-empty level becomes current.
RotateCurrentRunQueue(m, current_sleep) ==
  LET q  == m.running[m.current_level]
      q1 == IF current_sleep THEN Tail(q) ELSE Append(Tail(q), Head(q))
      r  == [m.running EXCEPT ![m.current_level] = q1]
      changed == m.level_changed \/ q1 = << >>
  IN  [m EXCEPT !.running = r, !.level_changed = FALSE,
                !.current_level = IF changed /\ NonEmptyLevels(r) /= {}
                                  THEN Max(NonEmptyLevels(r)) ELSE @]

\* Mutant of Wakeup: the ReadyOrRunning test is dropped.
WakeupTwice(m, t) ==
  [m EXCEPT !.ready[t] = TRUE, !.running[m.level[t]] = Append(@, t),
            !.level_changed = @ \/ m.level[t] > m.current_level]

\* Mutant of Wakeup: a wakeup to a higher level does not flag the change.
WakeupNoLevelChange(m, t) ==
  IF m.ready[t] THEN m
  ELSE [m EXCEPT !.ready[t] = TRUE, !.running[m.level[t]] = Append(@, t)]

\* Wakeup(task, -1): a task already ready or running goes to
\* ChangeLevelRunning, which returns at once for level -1; otherwise it is
\* appended to the queue of its own level, flagging a change of level when
\* that level is above the current one.  Every caller passes level -1.
Wakeup(m, t) ==
  IF m.ready[t] THEN m
  ELSE [m EXCEPT !.ready[t] = TRUE, !.running[m.level[t]] = Append(@, t),
                 !.level_changed = @ \/ m.level[t] > m.current_level]

\* TaskManager::SendMessage: an unknown id is kNoSuchTask; otherwise
\* Task::SendMessage queues the message and wakes the task.
SendMessage(m, id) ==
  IF id \notin m.tasks THEN m
  ELSE Wakeup([m EXCEPT !.msgs[id] = @ + 1], id)

\* Mutant of NewTask: _last_id is not advanced.
NewTaskSameId(m) == [m EXCEPT !.tasks = @ \cup {m.last_id + 1}]

\* NewTask: the next id; the Task starts at kDefaultLevel, not ready.
NewTask(m) == [m EXCEPT !.last_id = @ + 1, !.tasks = @ \cup {m.last_id + 1}]

\* The run-queue part of Sleep(task): nothing for a task that is not ready;
\* the current task leaves its queue through RotateCurrentRunQueue(true);
\* any other task is erased from the queue of its level.
SleepQueues(m, t) ==
  IF ~m.ready[t] THEN m
  ELSE LET m1 == [m EXCEPT !.ready[t] = FALSE]
       IN  IF t = CurrentTask(m) THEN RotateCurrentRunQueue(m1, TRUE)
           ELSE [m1 EXCEPT !.running[m.level[t]] = Erase(@, t)]

\* Sleep(task) from state m, with its SwitchContext: the processor's
\* execution is saved in the sleeping task's context and the new current
\* task's context is loaded.
SleepTask(m, t) ==
  LET m2 == SleepQueues(m, t)
      c  == [ctx EXCEPT ![t] = cpu]
  IN  /\ tm' = m2
      /\ IF m.ready[t] /\ t = CurrentTask(m)
         THEN ctx' = c /\ cpu' = c[CurrentTask(m2)]
         ELSE UNCHANGED <<ctx, cpu>>

\* Mutant of SwitchTask: the new current task's context is never restored.
SwitchTaskNoRestore(m) ==
  /\ tm' = RotateCurrentRunQueue(m, FALSE)
  /\ ctx' = [ctx EXCEPT ![CurrentTask(m)] = cpu]
  /\ UNCHANGED cpu

\* SwitchTask(ctx_stack): the interrupted execution is saved in the current
\* task's context, the current queue rotates, and the new current task's
\* context is restored when it is not the task that was rotated.
SwitchTask(m) ==
  LET cur == CurrentTask(m)
      c   == [ctx EXCEPT ![cur] = cpu]
      m1  == RotateCurrentRunQueue(m, FALSE)
  IN  /\ tm' = m1
      /\ ctx' = c
      /\ cpu' = IF CurrentTask(m1) /= cur THEN c[CurrentTask(m1)] ELSE cpu

\* Mutant of Finish: the task waiting for the finished one is not woken.
FinishNoWakeup(m, e) ==
  LET m1 == RotateCurrentRunQueue(m, TRUE)
      t  == CurrentTask(m)
      m2 == [m1 EXCEPT !.tasks = @ \ {t}, !.finish_tasks = @ \cup {t},
                       !.finish_waiter[t] = NoTask]
  IN  /\ tm' = m2
      /\ cpu' = ctx[CurrentTask(m2)]
      /\ pc' = [pc EXCEPT ![e] = "done"]

\* Finish(exit_code): the current task leaves the run queue and _tasks, its
\* exit code is recorded, a task waiting for it is woken, and the new current
\* task's context is restored.
Finish(m, e) ==
  LET m1 == RotateCurrentRunQueue(m, TRUE)
      t  == CurrentTask(m)
      w  == m.finish_waiter[t]
      m2 == [m1 EXCEPT !.tasks = @ \ {t}, !.finish_tasks = @ \cup {t},
                       !.finish_waiter[t] = NoTask]
      m3 == IF w /= NoTask THEN Wakeup(m2, w) ELSE m2
  IN  /\ tm' = m3
      /\ cpu' = ctx[CurrentTask(m3)]
      /\ pc' = [pc EXCEPT ![e] = "done"]

-----------------------------------------------------------------------------
(* The initial state: TaskManager() has made main (level kMaxLevel, the    *)
(* current task) and idle (level 0); main then creates the tasks of        *)
(* InitRoles with NewTask().InitContext(...).Wakeup(), each at level 1 and *)
(* each with a context that holds its own entry point.                     *)

InitRole(t) == IF t = MainTask THEN "main"
               ELSE IF t = IdleTask THEN "idle"
               ELSE IF t - 2 \in DOMAIN InitRoles THEN InitRoles[t - 2]
               ELSE "none"

Init ==
  LET created == {t \in Ids : InitRole(t) /= "none"}
  IN
  /\ tm = [running |-> [lv \in Levels |->
                          CASE lv = kMaxLevel -> << MainTask >>
                            [] lv = 0         -> << IdleTask >>
                            [] lv = kDefaultLevel ->
                                 [i \in DOMAIN InitRoles |-> i + 2]
                            [] OTHER -> << >>],
           current_level |-> kMaxLevel,
           level_changed |-> FALSE,
           tasks         |-> created,
           last_id       |-> 2 + Len(InitRoles),
           level   |-> [t \in Ids |-> IF t = MainTask THEN kMaxLevel
                                      ELSE IF t = IdleTask THEN 0
                                      ELSE kDefaultLevel],
           ready   |-> [t \in Ids |-> t \in created],
           msgs    |-> [t \in Ids |-> 0],
           finish_tasks  |-> {},
           finish_waiter |-> [t \in Ids |-> NoTask]]
  /\ cpu = MainTask
  /\ ctx = [t \in Ids |-> t]
  /\ role = [t \in Ids |-> InitRole(t)]
  /\ pc = [t \in Ids |-> IF InitRole(t) = "taskb" THEN TaskBStart
                         ELSE IF InitRole(t) = "none" THEN "none"
                         ELSE "loop"]
  /\ sub = [t \in Ids |-> NoTask]
  /\ iter = 0
  /\ budget = Budget
  /\ pipe = [t \in Ids |-> NoPipe]

-----------------------------------------------------------------------------
(* The tasks.  Execution e takes a step only while the processor runs it.   *)

Running(e, label) == cpu = e /\ pc[e] = label

\* cli; ReceiveMessage(); if there is none, Sleep() and sti: the idiom of
\* every message loop.  The message is taken out of _msgs.
NoMessage(e) == /\ tm.msgs[e] = 0
                /\ SleepTask(tm, e)
                /\ UNCHANGED <<pc, role, sub, iter, budget, pipe_vars>>

Receive(m, e) == [m EXCEPT !.msgs[e] = @ - 1]

\* A SendMessage under cli to a task whose _msgs has room.
Send(m, id) == /\ m.msgs[id] < MaxMsgs
               /\ tm' = SendMessage(m, id)

\* A new task made by NewTask().InitContext(...).Wakeup().
Spawn(m, r, e, next) ==
  LET id == m.last_id + 1 IN
  /\ m.last_id < MaxTasks
  /\ tm' = Wakeup(NewTask(m), id)
  /\ role' = [role EXCEPT ![id] = r]
  /\ pc' = [pc EXCEPT ![id] = IF r = "sub" THEN "start" ELSE "loop",
                      ![e] = next]

\* The main loop (main.cpp 446-523).  A message is an xHCI event or a timer
\* (no scheduler call), a kLayerOps to answer with kLayerOpsFinish or a key
\* to forward to the task of the active layer, or F2 (a new terminal).  The
\* 's' / 'w' keys on TaskB's window are in TaskManagerUnprotected.
MainLoop ==
  /\ Running(MainTask, "loop")
  /\ \/ NoMessage(MainTask)
     \/ /\ tm.msgs[MainTask] > 0
        /\ LET m == Receive(tm, MainTask) IN
           \/ /\ tm' = m
              /\ UNCHANGED <<pc, role, pipe>>
           \/ /\ \E t \in m.tasks \ {MainTask, IdleTask} :
                   /\ Send(m, t)
                   /\ pipe' = IF role[t] = "sub"
                              THEN [pipe EXCEPT ![t].q = Append(@, NotPipe)]
                              ELSE pipe
              /\ UNCHANGED <<pc, role>>
           \/ /\ Spawn(m, "terminal", MainTask, "loop")
              /\ UNCHANGED pipe
        /\ UNCHANGED <<cpu, ctx, sub, iter, budget>>

\* A worker's message loop (TaskWallclock main.cpp 298-315, TaskB main.cpp
\* 164-182): each message may make it send one to main.
WorkerLoop(e) ==
  /\ role[e] \in {"worker", "taskb"}
  /\ cpu = e /\ pc[e] \in {"loop", "count"}
  /\ \/ NoMessage(e)
     \/ /\ tm.msgs[e] > 0
        /\ LET m == Receive(tm, e) IN
           \/ tm' = m
           \/ Send(m, MainTask)
        /\ UNCHANGED <<cpu, ctx, pc, role, sub, iter, budget, pipe_vars>>

\* The terminal's message loop (terminal.cpp 1054-1103): a key or a blink
\* may send a draw message to main; a command line "a | b" starts the
\* right-hand side as a new task (509-522) and then waits for it (745-751);
\* kWindowClose finishes the terminal (1097-1101).
TerminalLoop(e) ==
  /\ role[e] = "terminal" /\ Running(e, "loop")
  /\ \/ NoMessage(e)
     \/ /\ tm.msgs[e] > 0
        /\ LET m == Receive(tm, e) IN
           \/ /\ \/ tm' = m
                 \/ Send(m, MainTask)
              /\ UNCHANGED <<cpu, ctx, pc, role, sub, pipe>>
           \/ /\ Spawn(m, "sub", e, "write")
              /\ sub' = [sub EXCEPT ![e] = m.last_id + 1]
              /\ pipe' = [pipe EXCEPT ![m.last_id + 1] = NoPipe]
              /\ UNCHANGED <<cpu, ctx>>
           \/ /\ Finish(m, e)
              /\ UNCHANGED <<ctx, role, sub, pipe>>
        /\ UNCHANGED <<iter, budget>>

\* WaitFinish(subtask_id) under cli (task.cpp 262-278): take the exit code
\* if the task has finished, otherwise register as its waiter and sleep;
\* after any wakeup the loop tests again.
WaitFinish(e) ==
  /\ Running(e, "wait")
  /\ LET s == sub[e] IN
     IF s \in tm.finish_tasks
     THEN /\ tm' = [tm EXCEPT !.finish_tasks = @ \ {s}]
          /\ pc' = [pc EXCEPT ![e] = "loop"]
          /\ UNCHANGED <<cpu, ctx>>
     ELSE /\ SleepTask([tm EXCEPT !.finish_waiter[s] = e], e)
          /\ UNCHANGED pc
  /\ UNCHANGED <<role, sub, iter, budget, pipe_vars>>

\* The piped task runs its command and calls Finish under cli
\* (terminal.cpp 1041-1046).
SubFinish(e) ==
  /\ role[e] = "sub" /\ Running(e, "finish")
  /\ Finish(tm, e)
  /\ UNCHANGED <<ctx, role, sub, iter, budget, pipe_vars>>

-----------------------------------------------------------------------------
(* The pipe (terminal.cpp 1161-1224).  The terminal's left-hand command    *)
(* writes to _files[1] = pipe_fd and then calls FinishWrite (746); the     *)
(* PipeDescriptor holds a Task& to the sub, so a send after the sub has    *)
(* finished goes to a Task that Finish has destroyed: Task::SendMessage on *)
(* freed memory, which the model takes to change nothing it tracks.       *)

\* _task.SendMessage(msg) under cli for a kPipe message of length len,
\* with p the pipe records the sender has updated.
PipeSend(s, len, p) ==
  IF s \in tm.tasks
  THEN /\ tm.msgs[s] < MaxMsgs
       /\ tm' = SendMessage(tm, s)
       /\ pipe' = [p EXCEPT ![s].q = Append(@, len)]
  ELSE /\ pipe' = p
       /\ UNCHANGED tm

\* One pass of the loop of PipeDescriptor::Write (1203-1216): the next
\* min(len - sent_bytes, sizeof data) bytes go out in one message, with
\* interrupts enabled between two passes.  The command calls Write(len)
\* again once the last call has sent everything.
PipeWrite(e) ==
  LET s == sub[e] IN
  /\ role[e] = "terminal" /\ Running(e, "write")
  /\ \E len \in 1 .. MaxPipeBytes :
       /\ IF pipe[s].wleft > 0 THEN len = pipe[s].wleft
          ELSE pipe[s].written + len <= MaxPipeBytes
       /\ LET c == Min({len, kPipeData}) IN
          PipeSend(s, c, [pipe EXCEPT ![s].wleft = len - c, ![s].written = @ + c])
  /\ UNCHANGED <<cpu, ctx, pc, role, sub, iter, budget>>

\* The command has returned: pipe_fd->FinishWrite() (746, 1218-1224) sends
\* a kPipe message of length 0, then WaitFinish.
FinishWrite(e) ==
  /\ role[e] = "terminal" /\ Running(e, "write")
  /\ pipe[sub[e]].wleft = 0
  /\ PipeSend(sub[e], 0, pipe)
  /\ pc' = [pc EXCEPT ![e] = "wait"]
  /\ UNCHANGED <<cpu, ctx, role, sub, iter, budget>>

\* What the sub's command prints goes to _files[1], the parent's terminal:
\* PrintToFD ends in Terminal::Redraw, a draw message to main.  cat prints
\* the line ReadDelim (not in the source tree) has collected, which the
\* model lets happen after any Read that returned bytes.
PrintsToParent(m) == tm' = m \/ Send(m, MainTask)

\* TaskTerminal for the sub runs ExecuteLine(subcommand): "cat" with no
\* argument reads _files[0] = pipe_fd (623-627); "echo" prints its
\* argument and returns.
SubStart(e) ==
  /\ role[e] = "sub" /\ Running(e, "start")
  /\ \E cmd \in SubCommands :
       /\ pipe' = [pipe EXCEPT ![e].cmd = cmd]
       /\ pc' = [pc EXCEPT ![e] = IF cmd = "cat" THEN "read" ELSE "finish"]
       /\ IF cmd = "cat" THEN UNCHANGED tm ELSE PrintsToParent(tm)
  /\ UNCHANGED <<cpu, ctx, role, sub, iter, budget>>

\* Mutant of ReadMessage: the message type is not tested, so a forwarded
\* key, whose arg.pipe.len byte is zero, reads as the end of the pipe.
ReadMessageNoTypeCheck(e, n) ==
  LET m == Receive(tm, e)
      h == IF Head(pipe[e].q) = NotPipe THEN 0 ELSE Head(pipe[e].q)
  IN  IF h = 0
      THEN /\ tm' = m
           /\ pipe' = [pipe EXCEPT ![e].q = Tail(@), ![e].closed = TRUE]
           /\ pc' = [pc EXCEPT ![e] = "finish"]
      ELSE /\ PrintsToParent(m)
           /\ pipe' = [pipe EXCEPT ![e].q = Tail(@), ![e].got = @ + Min({h, n}),
                                   ![e].left = h - Min({h, n})]
           /\ UNCHANGED pc

\* The message loop of Read (1177-1200), one message: one that is not
\* kPipe is skipped, length 0 sets _closed and returns 0, anything else is
\* copied up to n bytes and the rest kept in _data / _len.
ReadMessage(e, n) ==
  LET m == Receive(tm, e)
      h == Head(pipe[e].q)
  IN  CASE h = NotPipe ->
             /\ tm' = m
             /\ pipe' = [pipe EXCEPT ![e].q = Tail(@)]
             /\ UNCHANGED pc
        [] h = 0 ->
             /\ tm' = m
             /\ pipe' = [pipe EXCEPT ![e].q = Tail(@), ![e].closed = TRUE]
             /\ pc' = [pc EXCEPT ![e] = "finish"]
        [] OTHER ->
             /\ PrintsToParent(m)
             /\ pipe' = [pipe EXCEPT ![e].q = Tail(@), ![e].got = @ + Min({h, n}),
                                     ![e].left = h - Min({h, n})]
             /\ UNCHANGED pc

\* PipeDescriptor::Read(buf, n) (1164-1201) called by cat's loop: bytes
\* left over from the last message come first; after the close it returns
\* 0; otherwise it sleeps until a message arrives (cli; ReceiveMessage;
\* Sleep) and reads it.  A return of 0 ends cat's loop.
PipeRead(e, n) ==
  LET p == pipe[e] IN
  /\ role[e] = "sub" /\ Running(e, "read")
  /\ \/ /\ p.left > 0
        /\ pipe' = [pipe EXCEPT ![e].got = @ + Min({p.left, n}),
                                 ![e].left = @ - Min({p.left, n})]
        /\ PrintsToParent(tm)
        /\ UNCHANGED <<cpu, ctx, pc>>
     \/ /\ p.left = 0 /\ p.closed
        /\ pc' = [pc EXCEPT ![e] = "finish"]
        /\ UNCHANGED <<tm, cpu, ctx, pipe>>
     \/ /\ p.left = 0 /\ ~p.closed /\ tm.msgs[e] = 0
        /\ SleepTask(tm, e)
        /\ UNCHANGED <<pc, pipe>>
     \/ /\ p.left = 0 /\ ~p.closed /\ tm.msgs[e] > 0
        /\ ReadMessage(e, n)
        /\ UNCHANGED <<cpu, ctx>>
  /\ UNCHANGED <<role, sub, iter, budget>>

Run(e) == \/ e = MainTask /\ MainLoop
          \/ WorkerLoop(e)
          \/ TerminalLoop(e) \/ PipeWrite(e) \/ FinishWrite(e) \/ WaitFinish(e)
          \/ SubStart(e) \/ \E n \in ReadLens : PipeRead(e, n)
          \/ SubFinish(e)


-----------------------------------------------------------------------------
(* Interrupts, taken whenever the running code has interrupts enabled.     *)

\* The tasks with a timer: main's text-box cursor, the wall clock, and every
\* terminal's blink timer; a timer of a finished task stays queued and its
\* message is dropped by SendMessage.
TimerOwners == {t \in Ids : role[t] \in {"main", "worker", "terminal"}}

\* LAPICTimerOnInterrupt: Tick() sends the timer messages that are due (at
\* most one is modelled per tick) and reports whether the task timer
\* expired, in which case SwitchTask(ctx_stack) runs.
TimerInterrupt(to, switch) ==
  /\ to /= NoTask \/ switch
  /\ to /= NoTask => budget > 0 /\ tm.msgs[to] < MaxMsgs
  /\ budget' = IF to = NoTask THEN budget ELSE budget - 1
  /\ LET m == IF to = NoTask THEN tm ELSE SendMessage(tm, to) IN
     IF switch THEN SwitchTask(m)
     ELSE tm' = m /\ UNCHANGED <<cpu, ctx>>
  /\ UNCHANGED <<pc, role, sub, iter, pipe_vars>>

\* The xHCI interrupt posts kInterruptXHCI to main (task 1).
DeviceInterrupt ==
  /\ budget > 0 /\ tm.msgs[MainTask] < MaxMsgs
  /\ tm' = SendMessage(tm, MainTask)
  /\ budget' = budget - 1
  /\ UNCHANGED <<cpu, ctx, pc, role, sub, iter, pipe_vars>>

Next == \/ \E to \in TimerOwners \cup {NoTask}, sw \in BOOLEAN : TimerInterrupt(to, sw)
        \/ DeviceInterrupt
        \/ \E e \in Ids : Run(e)

\* The task timer expires every kTaskTimerPeriod ticks for ever; a task that
\* keeps getting the processor gets to run its code between two ticks.
Fairness == /\ WF_vars(\E to \in TimerOwners \cup {NoTask} : TimerInterrupt(to, TRUE))
            /\ \A e \in Ids : SF_vars(Run(e))

Spec == Init /\ [][Next]_vars /\ Fairness

-----------------------------------------------------------------------------
TypeOK ==
  /\ tm.running \in [Levels -> Seq(Ids)]
  /\ tm.current_level \in Levels
  /\ tm.level_changed \in BOOLEAN
  /\ tm.last_id \in 0 .. MaxTasks
  /\ tm.tasks \subseteq 1 .. tm.last_id
  /\ tm.level \in [Ids -> Levels]
  /\ tm.ready \in [Ids -> BOOLEAN]
  /\ tm.msgs \in [Ids -> 0 .. MaxMsgs]
  /\ tm.finish_tasks \subseteq Ids
  /\ tm.finish_waiter \in [Ids -> Ids \cup {NoTask}]
  /\ cpu \in Ids
  /\ ctx \in [Ids -> Ids]
  /\ pc \in [Ids -> Labels]
  /\ role \in [Ids -> Roles]
  /\ sub \in [Ids -> Ids \cup {NoTask}]
  /\ budget \in 0 .. Budget
  /\ \A t \in Ids :
       /\ pipe[t].cmd \in SubCommands \cup {"none"}
       /\ pipe[t].q \in Seq(PipeMsgs)
       /\ {pipe[t].wleft, pipe[t].written, pipe[t].got} \subseteq 0 .. MaxPipeBytes
       /\ pipe[t].left \in 0 .. kPipeData
       /\ pipe[t].closed \in BOOLEAN

Occurrences(q, t) == Cardinality({i \in DOMAIN q : q[i] = t})

\* The run queues hold exactly the live tasks whose _ready_or_running is
\* set, each once and in the queue of its own _level: Wakeup's
\* ReadyOrRunning test, Sleep's erase, RotateCurrentRunQueue and Finish
\* together never lose a ready task nor queue one twice.
RunQueuesMatchReady ==
  \A t \in Ids, lv \in Levels :
    Occurrences(tm.running[lv], t) =
      IF t \in tm.tasks /\ tm.ready[t] /\ lv = tm.level[t] THEN 1 ELSE 0

\* CurrentTask() always exists, and unless a wakeup has flagged a level
\* change that the next RotateCurrentRunQueue will act on, no level above
\* _current_level has a ready task (a higher-level task is never skipped).
CurrentLevelIsHighest ==
  /\ tm.running[tm.current_level] /= << >>
  /\ ~tm.level_changed =>
       \A lv \in Levels : lv > tm.current_level => tm.running[lv] = << >>

\* Every live task that is not on the processor has its own execution saved
\* in its TaskContext: SwitchTask, Sleep's SwitchContext and Finish's
\* RestoreContext never save one task's registers into another's context.
ContextsHoldOwnTask == \A t \in tm.tasks \ {cpu} : ctx[t] = t

\* A ready task other than idle eventually gets the processor (or sleeps or
\* finishes first): the rotation of SwitchTask and the level scan of
\* RotateCurrentRunQueue starve nobody once main stops receiving messages.
ReadyTaskRuns ==
  \A t \in Ids \ {IdleTask} :
    (t \in tm.tasks /\ tm.ready[t]) ~> (cpu = t \/ t \notin tm.tasks \/ ~tm.ready[t])

\* A terminal waiting in WaitFinish for its piped task eventually gets the
\* exit code: Finish records it and wakes the waiter, whichever of the two
\* runs first.
WaitFinishReturns == \A t \in Ids : pc[t] = "wait" ~> pc[t] = "loop"

\* The bytes of the kPipe messages waiting in a sub's queue.
QueuedBytes(q) == FoldLeft(LAMBDA acc, x : IF x > 0 THEN acc + x ELSE acc, 0, q)

\* Every byte the left-hand side of a pipe writes reaches cat once: while
\* the pipe is open the bytes written are those Read returned, those kept
\* in _data and those still queued, and when cat's Read returns 0 it has
\* returned them all.  Write's chunking, Read's leftover _len, the skip of
\* the keys main forwards to the sub and the close on length 0 are all in it.
PipeDelivers ==
  \A s \in Ids :
    role[s] = "sub" /\ pipe[s].cmd /= "echo" =>
      /\ pipe[s].written = pipe[s].got + pipe[s].left + QueuedBytes(pipe[s].q)
      /\ pc[s] \in {"finish", "done"} => pipe[s].got = pipe[s].written

\* The left-hand side of a pipe writes only while the task it writes to is
\* alive: ExecuteLine's writes to pipe_fd and its FinishWrite reach the sub
\* through the Task& of PipeDescriptor, which Finish may have destroyed.
NoSendToFinishedTask ==
  \A e \in Ids : role[e] = "terminal" /\ pc[e] = "write" => sub[e] \in tm.tasks

=============================================================================
