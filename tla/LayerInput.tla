------------------------------ MODULE LayerInput ------------------------------
(***************************************************************************)
(* A layer between its display and its handlers (src/src/vx/vx_layer.c),   *)
(* and the events that GTK's thread makes of the mouse and the keyboard    *)
(* (src/src/vx/gtk/vx_gtk_display_source.c).  An event is offered to the   *)
(* handlers in their order until one takes it, under a mutex.  The queue   *)
(* between the two threads is that of GtkEvents: here the next event waits.  *)
(***************************************************************************)
EXTENDS Integers, Sequences, FiniteSets, SequencesExt

CONSTANTS
  Handlers,
  OrderOf,     \* dispatch_order of each handler
  Buttons,     \* of the mouse
  MenuButton,  \* the one that opens the menu while control is held
  DrawOrders,  \* of the layer
  MaxEvents    \* bound on what the user does

Absent == "none"
NoEvent == [type |-> "none"]

VARIABLES
  held,        \* the buttons that are down
  mask,        \* button_mask
  menuOpen,    \* the context menu takes the mouse's events
  sure,        \* history: no release went to the menu since the mouse moved
  handlers,    \* event_handlers
  event,       \* the event being offered, with the handlers that would take it
  offered,     \* how many handlers had it
  taken,       \* history: who took the last event
  display,     \* disp
  drawOrder,   \* draw_order
  told,        \* what the display was told of the layer since it got it
  events       \* number of events

mouseVars == <<held, mask, menuOpen, sure>>
offerVars == <<event, offered, taken>>
layerVars == <<display, drawOrder, told>>
vars == <<mouseVars, handlers, offerVars, layerVars, events>>

-----------------------------------------------------------------------------
(* GTK's thread. *)

\* The display passes events to its listeners only.
Dispatch(type, buttons) ==
  /\ event = NoEvent /\ display # Absent
  /\ events < MaxEvents /\ events' = events + 1
  /\ \E wanted \in SUBSET Handlers :
       event' = [type |-> type, mask |-> buttons, wanted |-> wanted]
  /\ offered' = 0 /\ taken' = Absent
  /\ UNCHANGED <<handlers, layerVars>>

\* gtk_button_press: with control the button opens the menu, and there is no event.
Press(b, control) ==
  /\ b \notin held /\ ~menuOpen
  /\ held' = held \cup {b} /\ mask' = mask \cup {b}
  /\ UNCHANGED sure
  /\ IF control /\ b = MenuButton
     THEN menuOpen' = TRUE /\ UNCHANGED <<handlers, offerVars, layerVars, events>>
     ELSE Dispatch("press", mask') /\ UNCHANGED menuOpen

Release(b) ==
  /\ b \in held /\ ~menuOpen
  /\ held' = held \ {b} /\ mask' = mask \ {b}
  /\ Dispatch("release", mask')
  /\ UNCHANGED <<menuOpen, sure>>

\* The menu has the mouse until it is closed.
ReleaseOnMenu(b) ==
  /\ b \in held /\ menuOpen
  /\ held' = held \ {b} /\ sure' = FALSE
  /\ UNCHANGED <<mask, menuOpen, handlers, offerVars, layerVars, events>>
CloseMenu ==
  /\ menuOpen
  /\ menuOpen' = FALSE
  /\ UNCHANGED <<held, mask, sure, handlers, offerVars, layerVars, events>>

\* Mutant of MaskFrom: buttons are only added.
MaskFrom_Added(state) == mask \cup state
\* update_button_by_state: GTK's state has a bit for every button.
MaskFrom(state) == state

\* gtk_motion
Move ==
  /\ ~menuOpen
  /\ mask' = MaskFrom(held) /\ sure' = TRUE
  /\ Dispatch("motion", mask')
  /\ UNCHANGED <<held, menuOpen>>

Scroll ==
  /\ ~menuOpen
  /\ Dispatch("scroll", mask)
  /\ UNCHANGED mouseVars

\* gtk_key_press, gtk_key_release
Key == Dispatch("key", {}) /\ UNCHANGED mouseVars

-----------------------------------------------------------------------------
(* The thread that dispatches events. *)

\* Mutant of Refused: every handler is asked.
Refused_Always(h) == TRUE
Refused(h) == h \notin event.wanted

\* event_dispatch_touch, event_dispatch_mouse, event_dispatch_key
Offer ==
  /\ event # NoEvent /\ offered < Len(handlers)
  /\ LET h == handlers[offered + 1]
     IN /\ taken' = IF h \in event.wanted THEN h ELSE taken
        /\ IF Refused(h) THEN offered' = offered + 1 /\ UNCHANGED event
           ELSE event' = NoEvent /\ offered' = 0
  /\ UNCHANGED <<mouseVars, handlers, layerVars, events>>

EndOffer ==
  /\ event # NoEvent /\ offered = Len(handlers)
  /\ event' = NoEvent /\ offered' = 0
  /\ UNCHANGED <<mouseVars, handlers, taken, layerVars, events>>

-----------------------------------------------------------------------------
(* The program. *)

\* Mutant of Orders: handlers stay in the order they were added.
Orders_AsAdded(hs) == {hs}
\* zarray_sort with zvx_event_handler_compare: any order among equals.
Orders(hs) ==
  {p \in {[i \in 1 .. Len(hs) |-> hs[f[i]]] : f \in [1 .. Len(hs) -> 1 .. Len(hs)]} :
     /\ ToSet(p) = ToSet(hs)
     /\ \A i, j \in 1 .. Len(hs) : i < j => OrderOf[p[i]] <= OrderOf[p[j]]}

\* vx_layer_add_event_handler, when the mutex is free.
AddEventHandler(h) ==
  /\ h \notin ToSet(handlers) /\ event = NoEvent
  /\ handlers' \in Orders(Append(handlers, h))
  /\ UNCHANGED <<mouseVars, offerVars, layerVars, events>>

\* Mutant of Known: a display is only told of changes.
Known_Later == <<>>
\* What a display knows once send_layer_info_codes sent its codes.
Known == <<drawOrder>>

\* vx_layer_set_display; the display drops what it knows with its last listener.
SetDisplay ==
  /\ display = Absent /\ display' = "display"
  /\ told' = Known
  /\ UNCHANGED <<mouseVars, handlers, offerVars, drawOrder, events>>
UnsetDisplay ==
  /\ display # Absent /\ event = NoEvent
  /\ display' = Absent /\ told' = <<>>
  /\ UNCHANGED <<mouseVars, handlers, offerVars, drawOrder, events>>

\* vx_layer_set_draw_order, vx_layer_set_background_color
SetDrawOrder ==
  /\ drawOrder' \in DrawOrders
  /\ told' = IF display = Absent THEN <<>> ELSE <<drawOrder'>>
  /\ UNCHANGED <<mouseVars, handlers, offerVars, display, events>>

Init ==
  /\ held = {} /\ mask = {} /\ menuOpen = FALSE /\ sure = TRUE
  /\ handlers = <<>> /\ event = NoEvent /\ offered = 0 /\ taken = Absent
  /\ display = Absent /\ drawOrder \in DrawOrders /\ told = <<>> /\ events = 0

Next ==
  \/ \E b \in Buttons : (\E c \in BOOLEAN : Press(b, c)) \/ Release(b) \/ ReleaseOnMenu(b)
  \/ CloseMenu \/ Move \/ Scroll \/ Key
  \/ Offer \/ EndOffer
  \/ \E h \in Handlers : AddEventHandler(h)
  \/ SetDisplay \/ UnsetDisplay \/ SetDrawOrder

Spec == Init /\ [][Next]_vars

-----------------------------------------------------------------------------
\* The buttons of an event are those that are down, unless the menu took a release and
\* the mouse has not moved since.
ButtonsAreDown ==
  [][event = NoEvent /\ event' # NoEvent /\ event'.type # "key" /\ sure' =>
       event'.mask = held']_vars

\* Of the handlers that would take an event the first in order has it, and no other.
FirstTakes ==
  [][event # NoEvent /\ event' = NoEvent =>
       LET wanting == event.wanted \cap ToSet(handlers)
       IN IF wanting = {} THEN taken' = Absent
          ELSE taken' \in wanting /\ \A h \in wanting : OrderOf[taken'] <= OrderOf[h]]_vars

\* The display has the layer's present draw order.
DisplayKnowsLayer == display # Absent => told = <<drawOrder>>
=============================================================================
