---------------------------- MODULE LayerManager ----------------------------
(***************************************************************************)
(* The window stack of layer.cpp (LayerManager, ActiveLayer, CloseLayer)    *)
(* as the kernel's tasks drive it: main's mouse handler (mouse.cpp          *)
(* MouseCursor::OnInterrupt, run from ProcessEvents), main's F2 key, the    *)
(* wall clock's windows, and the terminals of terminal.cpp, which open a    *)
(* window, read kWindowActive and kWindowClose, run `cat` on their stdin    *)
(* and pipes.                                                               *)
(*                                                                         *)
(* lm mirrors the LayerManager, the ActiveLayer and layer_task_map: the ids *)
(* of the layers in _layers, _layer_stack as a sequence of ids (NoLayer for *)
(* a null pointer), _last_id, _active_layer, the windows whose title is     *)
(* drawn active, the draggable layers, layer_task_map, and the window       *)
(* messages waiting in each terminal's _msgs.  Main runs at level 3 and the *)
(* other tasks at level 1 (task.cpp), so a main handler is never preempted  *)
(* by them and is one step; a task's section between cli and sti is one    *)
(* step.  Positions and drawing are not modelled: a click may land on any   *)
(* layer in the stack but the mouse's own.                                  *)
(***************************************************************************)
EXTENDS Integers, Sequences, SequencesExt, Functions

CONSTANTS Terminals,   \* TaskTerminal tasks that open a window
          MaxMsgs      \* bound on the window messages waiting for one terminal

NoLayer == 0
kIntMax == 2147483647          \* std::numeric_limits<int>::max()
\* The ids NewLayer hands out at boot, in the order of main.cpp 363-406.
kBgLayer == 1
kButtonLayer == 2
kConsoleLayer == 3
kMainWindowLayer == 4
kTextWindowLayer == 5
kTaskBWindowLayer == 6
kMouseLayer == 7
Sub == "sub"                   \* a pipe's subtask, as a layer_task_map value
Msgs == [type : {"active"}, on : BOOLEAN] \cup [type : {"close"}, layer : Nat]
States == {"none", "woken", "idle", "stdin", "pipe", "done"}

VARIABLES lm,          \* the LayerManager, ActiveLayer and layer_task_map
          mouse,       \* MouseCursor: _previous_buttons' left bit, _drag_layer_id, _previous_mouse_down_layer
          term,        \* each terminal: where its task is, its _layer_id, window_isactive
          transparent, \* globalTransparent != 0xff
          wallclock    \* TaskWallclock has created its windows

vars == <<lm, mouse, term, transparent, wallclock>>

-----------------------------------------------------------------------------
(* LayerManager and ActiveLayer, as functions of lm.                        *)

FindLayer(m, id) == IF id \in m.layers THEN id ELSE NoLayer

\* The stack index of layer id, -1 when it is not in the stack.
GetIndex(m, id) == SelectInSeq(m.stack, LAMBDA l : l = id) - 1

\* Mutant of NewLayer: _last_id++ in place of ++_last_id.
NewLayerPostIncrement(m) == [m EXCEPT !.last_id = @ + 1, !.layers = @ \cup {m.last_id}]

NewLayer(m) == [m EXCEPT !.last_id = @ + 1, !.layers = @ \cup {m.last_id + 1}]

Hide(m, id) ==
  LET i == SelectInSeq(m.stack, LAMBDA l : l = FindLayer(m, id))
  IN  IF i > 0 THEN [m EXCEPT !.stack = RemoveAt(@, i)] ELSE m

\* A negative index is passed to Hide in place of the id.  The new position
\* is taken before the erase and moved to end() - 1 when the erase left it
\* at or past the end.
SetIndex(m, id, index) ==
  IF index < 0 THEN Hide(m, index)
  ELSE LET idx   == Min({index, Len(m.stack)})
           layer == FindLayer(m, id)
           old   == SelectInSeq(m.stack, LAMBDA l : l = layer)
           rest  == RemoveAt(m.stack, old)
           at    == IF idx >= Len(rest) THEN Len(rest) - 1 ELSE idx
       IN  [m EXCEPT !.stack = IF old > 0 THEN InsertAt(rest, at + 1, layer)
                                          ELSE InsertAt(@, idx + 1, layer)]

\* Mutant of RemoveLayer: the layer is erased from _layers only.
RemoveLayerKeepStack(m, id) == [m EXCEPT !.layers = @ \ {id}]

RemoveLayer(m, id) == [Hide(m, id) EXCEPT !.layers = @ \ {id}]

\* SendWindowActiveMessage: to the task layer_task_map names.  A pipe's
\* subtask drops what is not kPipe (PipeDescriptor::Read), so a message to
\* it changes nothing the model follows.
SendWindowActive(m, l, on) ==
  IF l \in DOMAIN m.task_map /\ m.task_map[l] \in Terminals
  THEN [m EXCEPT !.msgs[m.task_map[l]] = Append(@, [type |-> "active", on |-> on])]
  ELSE m

\* A Layer* that FindLayer returned null for is dereferenced.
Deref(m, id) == IF FindLayer(m, id) = NoLayer THEN [m EXCEPT !.fault = TRUE] ELSE m

Deactivated(m) ==
  IF m.active = NoLayer THEN m
  ELSE SendWindowActive([Deref(m, m.active) EXCEPT !.titled = @ \ {m.active}],
                        m.active, FALSE)

\* Mutant of Activated: the active layer is not first put at index 0.
ActivatedNoBottom(m) ==
  IF m.active = NoLayer THEN m
  ELSE LET m1 == [Deref(m, m.active) EXCEPT !.titled = @ \cup {m.active}]
           m2 == SetIndex(m1, m1.active, GetIndex(m1, kMouseLayer) - 1)
       IN  SendWindowActive(m2, m.active, TRUE)

Activated(m) ==
  IF m.active = NoLayer THEN m
  ELSE LET m1 == SetIndex([Deref(m, m.active) EXCEPT !.titled = @ \cup {m.active}],
                          m.active, 0)
           m2 == SetIndex(m1, m1.active, GetIndex(m1, kMouseLayer) - 1)
       IN  SendWindowActive(m2, m.active, TRUE)

Activate(m, id) ==
  IF m.active = id THEN m ELSE Activated([Deactivated(m) EXCEPT !.active = id])

\* Mutant of CloseLayer: the layer_task_map entry is left behind.
CloseLayerKeepMap(m, l) ==
  IF FindLayer(m, l) = NoLayer THEN m
  ELSE RemoveLayer(Activate(m, NoLayer), l)

CloseLayer(m, l) ==
  IF FindLayer(m, l) = NoLayer THEN m
  ELSE LET r == RemoveLayer(Activate(m, NoLayer), l)
       IN  [r EXCEPT !.task_map = Restrict(@, DOMAIN @ \ {l})]

-----------------------------------------------------------------------------
(* Boot: InitializeLayer, the three windows of main, InitializeMouse.       *)

Window(m, draggable) ==
  LET n == NewLayer(m)
  IN  IF draggable THEN [n EXCEPT !.draggable = @ \cup {n.last_id}] ELSE n

\* SetIndex(id, numeric_limits<int>::max()) right after NewLayer.
OnTop(m) == SetIndex(m, m.last_id, kIntMax)

NoLayers == [layers |-> {}, stack |-> << >>, last_id |-> 0, active |-> NoLayer,
             titled |-> {}, draggable |-> {}, task_map |-> [l \in {} |-> Sub],
             msgs |-> [t \in Terminals |-> << >>], fault |-> FALSE]

InitializeLayer ==
  SetIndex(SetIndex(SetIndex(Window(Window(Window(NoLayers, FALSE), FALSE), FALSE),
                             kBgLayer, 0), kConsoleLayer, 1), kButtonLayer, 2)

BootWindows ==
  OnTop(Window(OnTop(Window(OnTop(Window(InitializeLayer, TRUE)), TRUE)), TRUE))

InitializeMouse == OnTop(Window(BootWindows, FALSE))

\* main wakes one terminal before its loop (main.cpp 412-414).
Init == /\ lm = InitializeMouse
        /\ mouse = [left |-> FALSE, drag |-> NoLayer, down |-> NoLayer]
        /\ \E t0 \in Terminals :
             term = [t \in Terminals |->
                       [state |-> IF t = t0 THEN "woken" ELSE "none",
                        layer |-> NoLayer, isactive |-> FALSE]]
        /\ transparent = FALSE
        /\ wallclock = FALSE

-----------------------------------------------------------------------------
(* The steps of the tasks.                                                  *)

\* Each terminal has at most MaxMsgs window messages waiting.
Bounded(m) == \A t \in Terminals : Len(m.msgs[t]) <= MaxMsgs

\* F2 on main's kKeyPush path (main.cpp 483-502): a key for the text window
\* or TaskB's window is taken by them first.
PressF2 ==
  /\ ~lm.fault
  /\ lm.active \notin {kTextWindowLayer, kTaskBWindowLayer}
  /\ \E t \in Terminals : /\ term[t].state = "none"
                          /\ term' = [term EXCEPT ![t].state = "woken"]
  /\ UNCHANGED <<lm, mouse, transparent, wallclock>>

\* TaskTerminal's first cli section (terminal.cpp 1016-1024) with the
\* Terminal constructor's NewLayer (366-370); window_isactive starts false.
TerminalStart(t) ==
  /\ ~lm.fault /\ term[t].state = "woken"
  /\ LET n == Window(lm, TRUE)
         l == n.last_id
         m == Activate([n EXCEPT !.task_map = @ @@ (l :> t)], l)
     IN  /\ Bounded(m)
         /\ lm' = m
         /\ term' = [term EXCEPT ![t] = [state |-> "idle", layer |-> l, isactive |-> FALSE]]
  /\ UNCHANGED <<mouse, transparent, wallclock>>

\* TaskWallclock's cli section: the date and clock windows at index 2.
WallclockWindows ==
  /\ ~lm.fault /\ ~wallclock
  /\ LET d == Window(lm, FALSE)
         c == Window(d, FALSE)
     IN  lm' = SetIndex(SetIndex(c, d.last_id, 2), c.last_id, 2)
  /\ wallclock' = TRUE
  /\ UNCHANGED <<mouse, term, transparent>>

\* LayerManager::MoveRelative reads FindLayer(id)->GetWindow(); the
\* position itself is not modelled.
MoveRelative(m, id) == Deref(m, id)

\* SendCloseMessage with FindActiveLayerTask: kWindowClose for the active
\* layer to the task layer_task_map names.
SendClose(m) ==
  LET act == m.active
  IN  IF /\ FindLayer(m, act) /= NoLayer
         /\ act \in DOMAIN m.task_map /\ m.task_map[act] \in Terminals
      THEN [m EXCEPT !.msgs[m.task_map[act]] =
                       Append(@, [type |-> "close", layer |-> act])]
      ELSE m

\* MouseCursor::OnInterrupt: the left button's edges, FindLayerByPosition
\* giving target, and the region of its window.  The kMouseMove and
\* kMouseButton messages it sends are dropped by every receiver here.
OnInterrupt(left, target, region) ==
  LET press   == ~mouse.left /\ left
      hold    == mouse.left /\ left
      release == mouse.left /\ ~left
      grab    == press /\ target \in lm.draggable
      close   == IF grab /\ region = "close" THEN target ELSE NoLayer
      drag    == CASE grab /\ region = "title" -> target
                   [] release                  -> NoLayer
                   [] OTHER                    -> mouse.drag
      m1      == CASE press                        -> Activate(lm, IF grab THEN target ELSE NoLayer)
                   [] hold /\ mouse.drag /= NoLayer -> MoveRelative(lm, mouse.drag)
                   [] OTHER                        -> lm
      click   == release /\ mouse.drag = NoLayer /\ target = mouse.down
      m2      == IF drag = NoLayer /\ close /= NoLayer THEN SendClose(m1) ELSE m1
  IN  /\ Bounded(m2)
      /\ lm' = m2
      /\ mouse' = [left |-> left, drag |-> drag,
                   down |-> CASE press -> target [] release -> NoLayer [] OTHER -> mouse.down]
      \* the background button's OnClick handler (layer.cpp 355-364)
      /\ transparent' = IF click /\ target = kButtonLayer THEN ~transparent ELSE transparent

\* OnInterrupt looks up the layer under the cursor only on a button edge, and
\* the window region only when a press hits a draggable window.
MouseEvent ==
  /\ ~lm.fault
  /\ \E left \in BOOLEAN :
       \E target \in IF left = mouse.left THEN {NoLayer}
                     ELSE ToSet(lm.stack) \ {kMouseLayer} :
         \E region \in IF left /\ target \in lm.draggable
                       THEN {"title", "close", "other"} ELSE {"other"} :
           OnInterrupt(left, target, region)
  /\ UNCHANGED <<term, wallclock>>

\* Keys reach t: main forwards kKeyPush to layer_task_map[active] (main.cpp
\* 503-507), after the window messages already waiting for t.
KeysReach(t) == /\ lm.active = term[t].layer
                /\ lm.active \in DOMAIN lm.task_map /\ lm.task_map[lm.active] = t
                /\ lm.msgs[t] = << >>

\* TaskTerminal's loop (terminal.cpp 1056-1101): kWindowActive sets
\* window_isactive; kWindowClose runs CloseLayer and then Finish.
TerminalReceive(t) ==
  /\ ~lm.fault /\ term[t].state = "idle" /\ lm.msgs[t] /= << >>
  /\ LET msg == Head(lm.msgs[t])
         m   == [lm EXCEPT !.msgs[t] = Tail(@)]
     IN  IF msg.type = "active"
         THEN /\ lm' = m
              /\ term' = [term EXCEPT ![t].isactive = msg.on]
         ELSE /\ lm' = CloseLayer(m, msg.layer)
              /\ term' = [term EXCEPT ![t].state = "done"]
  /\ UNCHANGED <<mouse, transparent, wallclock>>

\* `cat` without a file (terminal.cpp 623-626) reads stdin.
TerminalCat(t) ==
  /\ ~lm.fault /\ term[t].state = "idle" /\ KeysReach(t)
  /\ term' = [term EXCEPT ![t].state = "stdin"]
  /\ UNCHANGED <<lm, mouse, transparent, wallclock>>

\* TerminalFileDescriptor::Read (1112-1128) receives the terminal's own
\* messages and drops every one that is not a key push.
StdinRead(t) ==
  /\ ~lm.fault /\ term[t].state = "stdin" /\ lm.msgs[t] /= << >>
  /\ lm' = [lm EXCEPT !.msgs[t] = Tail(@)]
  /\ UNCHANGED <<mouse, term, transparent, wallclock>>

\* Ctrl+D (1130-1138) ends the read, and cat returns to the loop.
StdinEof(t) ==
  /\ ~lm.fault /\ term[t].state = "stdin" /\ KeysReach(t)
  /\ term' = [term EXCEPT ![t].state = "idle"]
  /\ UNCHANGED <<lm, mouse, transparent, wallclock>>

\* A command line with '|' (503-523): the subtask takes the window's
\* layer_task_map entry.
TerminalPipe(t) ==
  /\ ~lm.fault /\ term[t].state = "idle" /\ KeysReach(t)
  /\ lm' = [lm EXCEPT !.task_map[term[t].layer] = Sub]
  /\ term' = [term EXCEPT ![t].state = "pipe"]
  /\ UNCHANGED <<mouse, transparent, wallclock>>

\* WaitFinish returns and the entry is given back, under cli (740-749).
PipeEnd(t) ==
  /\ ~lm.fault /\ term[t].state = "pipe"
  /\ lm' = [lm EXCEPT !.task_map[term[t].layer] = t]
  /\ term' = [term EXCEPT ![t].state = "idle"]
  /\ UNCHANGED <<mouse, transparent, wallclock>>

Next == \/ PressF2 \/ WallclockWindows \/ MouseEvent
        \/ \E t \in Terminals : \/ TerminalStart(t) \/ TerminalReceive(t)
                                \/ TerminalCat(t) \/ StdinRead(t) \/ StdinEof(t)
                                \/ TerminalPipe(t) \/ PipeEnd(t)

Spec == Init /\ [][Next]_vars

-----------------------------------------------------------------------------
MaxId == kMouseLayer + 2 + Cardinality(Terminals)
LayerIds == 1 .. MaxId

TypeOK ==
  /\ lm.layers \subseteq LayerIds /\ lm.last_id \in 0 .. MaxId
  /\ lm.stack \in Seq(LayerIds \cup {NoLayer})
  /\ lm.active \in LayerIds \cup {NoLayer}
  /\ lm.titled \subseteq LayerIds /\ lm.draggable \subseteq LayerIds
  /\ DOMAIN lm.task_map \subseteq LayerIds
  /\ \A l \in DOMAIN lm.task_map : lm.task_map[l] \in Terminals \cup {Sub}
  /\ lm.msgs \in [Terminals -> Seq(Msgs)] /\ lm.fault \in BOOLEAN
  /\ mouse \in [left : BOOLEAN, drag : LayerIds \cup {NoLayer}, down : LayerIds \cup {NoLayer}]
  /\ term \in [Terminals -> [state : States, layer : LayerIds \cup {NoLayer},
                             isactive : BOOLEAN]]
  /\ transparent \in BOOLEAN /\ wallclock \in BOOLEAN

\* The stack holds every layer at most once, no removed layer and no null
\* Layer*, with the mouse cursor on top: SetIndex's erase-and-insert, the
\* clamp to end() - 1, Hide and RemoveLayer keep it so across boot, the
\* wall clock's insertions, activations and closes.
StackWellFormed == /\ IsInjective(lm.stack)
                   /\ ToSet(lm.stack) \subseteq lm.layers
                   /\ Last(lm.stack) = kMouseLayer

\* The active window exists and is drawn directly below the mouse cursor:
\* ActiveLayer::Activate's two SetIndex calls put it there whether or not
\* it was in the stack, and CloseLayer clears the active layer before it
\* removes one.
ActiveJustBelowMouse ==
  lm.active /= NoLayer =>
    /\ lm.active \in lm.layers
    /\ Len(lm.stack) >= 2 /\ lm.stack[Len(lm.stack) - 1] = lm.active

\* layer_task_map routes each window to the task that owns it: a running
\* terminal's window to the terminal, to the subtask while a pipe runs, and
\* a closed terminal's window is gone from both the map and the layers.
TaskMapMatchesTerminals ==
  /\ DOMAIN lm.task_map =
       {term[t].layer : t \in {u \in Terminals : term[u].state \in {"idle", "stdin", "pipe"}}}
  /\ \A t \in Terminals :
       LET l == term[t].layer IN
       /\ term[t].state \in {"idle", "stdin"} => lm.task_map[l] = t /\ l \in lm.layers
       /\ term[t].state = "pipe" => lm.task_map[l] = Sub /\ l \in lm.layers
       /\ term[t].state = "done" => l \notin lm.layers

\* No handler dereferences a Layer* that FindLayer returned null for: the
\* layer a drag or an activation names is still there when main uses it.
NoNullDereference == ~lm.fault

\* A terminal that is back in its loop with no window message waiting
\* knows whether its window is the active one (window_isactive, which
\* decides whether its cursor blinks).
TerminalKnowsFocus ==
  \A t \in Terminals :
    term[t].state = "idle" /\ lm.msgs[t] = << >> =>
      term[t].isactive = (lm.active = term[t].layer)
=============================================================================
