--------------------------- MODULE BufferManager ---------------------------
(***************************************************************************)
(* The window that lists a display's buffers with a checkbox for each      *)
(* (src/src/vx/gtk/vx_gtk_buffer_manager.c).  Every message about a layer  *)
(* or a buffer is applied to the renderer under the display's mutex and    *)
(* then, outside of it, to the manager's list; a thread of its own builds  *)
(* the window anew from the list, under GDK's lock.  A click on a checkbox *)
(* is a message too, sent while GTK holds that lock.                       *)
(***************************************************************************)
EXTENDS Integers, Sequences, FiniteSets, SequencesExt

CONSTANTS
  Layers, Worlds, Names,   \* numbers of layers, worlds and buffers, in the order of their ids and names
  Orders,                  \* draw orders
  Bogus,                   \* the draw order of a buffer not swapped yet: 10101210
  Users,                   \* threads that send messages
  MaxMessages              \* bound on the messages of all

Gtk == "gtk"
Layout == "layout"
Nobody == "none"
Senders == Users \cup {Gtk}

VARIABLES
  worldOf,     \* the world each layer shows
  rendered,    \* the renderer: layers' disabled buffers, worlds' draw orders of buffers
  list,        \* man->layers: [layer -> draw order and buffers]
  required,    \* man->layout_update_required
  running,     \* man->running
  view,        \* the window: layers, each with its checkboxes, from the top down
  layoutPc,    \* layout_thread
  gdkLock,     \* who holds GDK's lock
  mutex,       \* who holds man->mutex
  call,        \* the message each sender is about to apply to the list
  senderPc,    \* how far it is
  destroyPc,   \* vx_gtk_buffer_manager_destroy
  overlapped,  \* history: two messages were under way together
  sent         \* number of messages

vars == <<worldOf, rendered, list, required, running, view, layoutPc, gdkLock, mutex, call,
          senderPc, destroyPc, overlapped, sent>>

NoMessage == [type |-> "none"]
Empty == [x \in {} |-> 0]
With(f, x, v) == [y \in DOMAIN f \cup {x} |-> IF y = x THEN v ELSE f[y]]

\* layer_info_compare and buffer_info_compare: draw orders first, then ids or names.
Sorted(f) == SortSeq(SetToSeq(DOMAIN f), LAMBDA x, y :
  f[x].order < f[y].order \/ (f[x].order = f[y].order /\ x < y))

Listing ==
  LET ls == Sorted(list)
  IN [i \in 1 .. Len(ls) |->
        LET bs == Sorted(list[ls[i]].buffers)
        IN [layer |-> ls[i],
            boxes |-> [j \in 1 .. Len(bs) |->
                         [name |-> bs[j], on |-> list[ls[i]].buffers[bs[j]].enabled]]]]

-----------------------------------------------------------------------------
(* Senders: the renderer first. *)

Messages ==
  [type : {"info"}, layer : Layers, order : Orders]
    \cup [type : {"codes"}, world : Worlds, name : Names, order : Orders]
    \cup [type : {"enabled"}, layer : Layers, name : Names, on : BOOLEAN]

\* Layers are advertised before the buffers of their world are, and before they are
\* told about one.
MaySend(m) ==
  CASE m.type = "info" -> TRUE
    [] m.type = "codes" -> \E l \in DOMAIN list : worldOf[l] = m.world
    [] m.type = "enabled" -> m.layer \in DOMAIN list

ApplyToRenderer(m) ==
  rendered' =
    CASE m.type = "info" ->
           IF m.layer \in DOMAIN rendered.off THEN rendered
           ELSE [rendered EXCEPT !.off = With(@, m.layer, {})]
      [] m.type = "codes" -> [rendered EXCEPT !.orders[m.world] = With(@, m.name, m.order)]
      [] m.type = "enabled" ->
           [rendered EXCEPT !.off[m.layer] = IF m.on THEN @ \ {m.name} ELSE @ \cup {m.name}]

Send(s, m) ==
  /\ ApplyToRenderer(m)
  /\ sent < MaxMessages /\ sent' = sent + 1
  /\ call' = [call EXCEPT ![s] = m]
  /\ senderPc' = [senderPc EXCEPT ![s] = "list"]
  /\ overlapped' = (overlapped \/ \E o \in Senders \ {s} : senderPc[o] # "idle")

UserSend(s) ==
  /\ senderPc[s] = "idle" /\ destroyPc = "not called"
  /\ \E m \in Messages : MaySend(m) /\ Send(s, m)
  /\ UNCHANGED <<worldOf, list, required, running, view, layoutPc, gdkLock, mutex, destroyPc>>

\* GTK turns the box over itself before buffer_checkbox_changed is called.
Click(i, j) ==
  /\ senderPc[Gtk] = "idle" /\ destroyPc = "not called" /\ gdkLock = Nobody
  /\ gdkLock' = Gtk
  /\ view' = [view EXCEPT ![i].boxes[j].on = ~@]
  /\ Send(Gtk, [type |-> "enabled", layer |-> view[i].layer, name |-> view[i].boxes[j].name,
                on |-> ~view[i].boxes[j].on])
  /\ UNCHANGED <<worldOf, list, required, running, layoutPc, mutex, destroyPc>>

-----------------------------------------------------------------------------
(* Then the manager's list. *)

NewBuffer == [enabled |-> TRUE, order |-> Bogus]

EnsureBuffer(info, name) ==
  IF name \in DOMAIN info.buffers THEN info
  ELSE [info EXCEPT !.buffers = With(@, name, NewBuffer)]

\* buffer_enabled: the list afterwards.
BufferEnabled(m) ==
  IF m.layer \notin DOMAIN list THEN list
  ELSE [list EXCEPT ![m.layer] = [EnsureBuffer(@, m.name) EXCEPT !.buffers[m.name].enabled = m.on]]

\* Mutant of Found: the first layer is taken.
Found_Any(world) == DOMAIN list
\* process_buffer adds the buffer to the first layer it finds that shows its world.
Found(world) == {l \in DOMAIN list : worldOf[l] = world}

ProcessBuffer(m, l) ==
  [list EXCEPT ![l] = [EnsureBuffer(@, m.name) EXCEPT !.buffers[m.name].order = m.order]]

\* process_layer: a new layer's draw order is not kept.
ProcessLayer(m) ==
  IF m.layer \in DOMAIN list THEN [list EXCEPT ![m.layer].order = m.order]
  ELSE With(list, m.layer, [order |-> 0, buffers |-> Empty])

\* Mutant of Updates: only what is new is shown.
Updates_New(before, after) ==
  \E l \in DOMAIN after : l \notin DOMAIN before \/ DOMAIN after[l].buffers # DOMAIN before[l].buffers
Updates(before, after) == before # after

ApplyToList(s) ==
  /\ senderPc[s] = "list" /\ mutex = Nobody
  /\ LET m == call[s]
     IN CASE m.type = "info" -> list' = ProcessLayer(m)
          [] m.type = "codes" -> \E l \in Found(m.world) : list' = ProcessBuffer(m, l)
          [] m.type = "enabled" -> list' = BufferEnabled(m)
  /\ senderPc' = [senderPc EXCEPT ![s] = IF Updates(list, list') THEN "queue" ELSE "return"]
  /\ UNCHANGED <<worldOf, rendered, required, running, view, layoutPc, gdkLock, mutex, call,
                 destroyPc, overlapped, sent>>

\* Mutant of Signalled: the layout thread is not woken.
Signalled_Not == layoutPc
Signalled == IF layoutPc = "waiting" THEN "woken" ELSE layoutPc

QueueUpdateView(s) ==
  /\ senderPc[s] = "queue" /\ mutex = Nobody
  /\ required' = TRUE
  /\ layoutPc' = Signalled
  /\ senderPc' = [senderPc EXCEPT ![s] = "return"]
  /\ UNCHANGED <<worldOf, rendered, list, running, view, gdkLock, mutex, call, destroyPc,
                 overlapped, sent>>

Return(s) ==
  /\ senderPc[s] = "return"
  /\ senderPc' = [senderPc EXCEPT ![s] = "idle"]
  /\ call' = [call EXCEPT ![s] = NoMessage]
  /\ gdkLock' = IF s = Gtk THEN Nobody ELSE gdkLock
  /\ UNCHANGED <<worldOf, rendered, list, required, running, view, layoutPc, mutex, destroyPc,
                 overlapped, sent>>

Sender(s) == ApplyToList(s) \/ QueueUpdateView(s) \/ Return(s)

-----------------------------------------------------------------------------
(* layout_thread *)

StartThread ==
  /\ layoutPc = "starting"
  /\ running' = TRUE
  /\ layoutPc' = "top"
  /\ UNCHANGED <<required, view, gdkLock, mutex>>

\* The condition is looked at under the mutex, at first and after every waking.
Check ==
  /\ layoutPc \in {"top", "woken"} /\ mutex = Nobody
  /\ IF ~required /\ running
     THEN layoutPc' = "waiting" /\ UNCHANGED required
     ELSE /\ required' = FALSE
          /\ layoutPc' = IF running THEN "gdk" ELSE "done"
  /\ UNCHANGED <<running, view, gdkLock, mutex>>

Spurious ==
  /\ layoutPc = "waiting"
  /\ layoutPc' = "woken"
  /\ UNCHANGED <<required, running, view, gdkLock, mutex>>

EnterGdk ==
  /\ layoutPc = "gdk" /\ gdkLock = Nobody
  /\ gdkLock' = Layout
  /\ layoutPc' = "mutex"
  /\ UNCHANGED <<required, running, view, mutex>>

LockList ==
  /\ layoutPc = "mutex" /\ mutex = Nobody
  /\ mutex' = Layout
  /\ layoutPc' = "rebuild"
  /\ UNCHANGED <<required, running, view, gdkLock>>

Rebuild ==
  /\ layoutPc = "rebuild"
  /\ view' = Listing
  /\ mutex' = Nobody /\ gdkLock' = Nobody
  /\ layoutPc' = IF running THEN "top" ELSE "done"
  /\ UNCHANGED <<required, running>>

LayoutThread ==
  /\ StartThread \/ Check \/ EnterGdk \/ LockList \/ Rebuild
  /\ UNCHANGED <<worldOf, rendered, list, call, senderPc, destroyPc, overlapped, sent>>

-----------------------------------------------------------------------------
(* vx_gtk_buffer_manager_destroy, after the last message and without GDK's lock.
   The thread sets running itself: it must have started. *)

StopRunning ==
  /\ destroyPc = "not called" /\ layoutPc # "starting"
  /\ \A s \in Senders : senderPc[s] = "idle"
  /\ running' = FALSE
  /\ destroyPc' = "signal"
  /\ UNCHANGED layoutPc

Wake ==
  /\ destroyPc = "signal" /\ mutex = Nobody
  /\ layoutPc' = Signalled
  /\ destroyPc' = "join"
  /\ UNCHANGED running

Join ==
  /\ destroyPc = "join" /\ layoutPc = "done"
  /\ destroyPc' = "returned"
  /\ UNCHANGED <<running, layoutPc>>

Destroyer ==
  /\ StopRunning \/ Wake \/ Join
  /\ UNCHANGED <<worldOf, rendered, list, required, view, gdkLock, mutex, call, senderPc,
                 overlapped, sent>>

Init ==
  /\ worldOf \in [Layers -> Worlds]
  /\ rendered = [off |-> Empty, orders |-> [w \in Worlds |-> Empty]]
  /\ list = Empty /\ required = FALSE /\ running = FALSE /\ view = <<>>
  /\ layoutPc = "starting" /\ gdkLock = Nobody /\ mutex = Nobody
  /\ call = [s \in Senders |-> NoMessage]
  /\ senderPc = [s \in Senders |-> "idle"]
  /\ destroyPc = "not called" /\ overlapped = FALSE /\ sent = 0

Next ==
  \/ \E s \in Users : UserSend(s)
  \/ \E i \in 1 .. Len(view) : \E j \in 1 .. Len(view[i].boxes) : Click(i, j)
  \/ \E s \in Senders : Sender(s)
  \/ LayoutThread
  \/ Spurious /\ UNCHANGED <<worldOf, rendered, list, call, senderPc, destroyPc, overlapped, sent>>
  \/ Destroyer

\* The layout thread needs the mutex and GDK's lock, which are free again and again.
Fairness ==
  /\ SF_vars(LayoutThread)
  /\ \A s \in Senders : WF_vars(Sender(s))
  /\ WF_vars(destroyPc # "not called" /\ Destroyer)

Spec == Init /\ [][Next]_vars /\ Fairness

-----------------------------------------------------------------------------
Quiet == \A s \in Senders : senderPc[s] = "idle"

\* Once all that was sent is applied, one message after the other, the list has the
\* renderer's checkmarks, and where a world is in one layer only its buffers with the
\* renderer's draw orders.
ListMatchesRenderer ==
  Quiet /\ ~overlapped =>
    \A l \in DOMAIN list :
      /\ \A b \in DOMAIN list[l].buffers : list[l].buffers[b].enabled <=> b \notin rendered.off[l]
      /\ (\A o \in DOMAIN list \ {l} : worldOf[o] # worldOf[l]) =>
           \A b \in DOMAIN rendered.orders[worldOf[l]] :
             /\ b \in DOMAIN list[l].buffers
             /\ list[l].buffers[b].order = rendered.orders[worldOf[l]][b]

\* The window comes to show the list as it is, whatever is clicked and sent meanwhile,
\* unless it is destroyed; no thread waits for ever for a lock another holds.
WindowCatchesUp == view # Listing ~> (view = Listing \/ ~running)

\* Destroying the manager comes to an end.
DestroyReturns == destroyPc # "not called" ~> destroyPc = "returned"
=============================================================================
