----------------------------- MODULE GtkEvents -----------------------------
(***************************************************************************)
(* The events of a GTK display: GTK's thread picks the layer that a mouse  *)
(* or key event is for, and the render thread notices which cameras moved. *)
(* Both queue events for the listeners, and the dispatch thread calls the  *)
(* listeners with each.  The events it hands on are numbered in the order  *)
(* they are queued.                                                        *)
(***************************************************************************)
EXTENDS Naturals, Sequences, FiniteSets, SequencesExt

CONSTANTS
  NoEvent,      (* NULL, no event                                          *)
  Layers,       (* layer ids, not 0                                        *)
  Listeners,
  MaxEvents,    (* bound: events handed to the dispatch thread             *)
  Buttons,      (* of the mouse                                            *)
  MaxCamera,    (* bound: how often a camera moves                         *)
  FirstIsPress  (* the first mouse event after the first frame may have a  *)
                (* button down                                             *)

NoLayer == 0

VARIABLES
  layers,       (* layer_info_map: layer -> where its camera is, a number  *)
  drawn,        (* last_render_info: layer -> where its camera was         *)
  frames,       (* last_render_info is there                               *)
  before,       (* the camera positions of the frame before                *)
  renderPc,     (* "top", "compare"                                        *)
  lastButtons,  (* those of last_mouse_event, or NoEvent                   *)
  pressedLayer, (* mouse_pressed_layer_id                                  *)
  event,        (* the last mouse or key event queued, or NoEvent          *)
  told,         (* layer -> position in the last camera event queued       *)
  pressOver,    (* history: the layer under the last press, while a button *)
                (* is held, or NoLayer                                     *)
  crashed       (* a NULL camera position was copied                       *)

VARIABLES
  queue,        (* dispatch_queue                                          *)
  batch,        (* the events dispatch_run has taken                       *)
  calling,      (* the listeners still to be called with Head(batch),      *)
                (* while dispatch_run holds listener_mutex                 *)
  dispatchPc,   (* "top", "batch", "calling"                               *)
  listeners,    (* state->listeners                                        *)
  sent,         (* events queued so far                                    *)
  heard         (* history: listener -> the last event it was called with, *)
                (* or that was done with when it was added                 *)

cameraVars == <<layers, drawn, frames, before, renderPc, told>>
mouseVars == <<lastButtons, pressedLayer, event, pressOver, crashed>>
vars == <<cameraVars, mouseVars>>
dispatchVars == <<queue, batch, calling, dispatchPc, listeners, sent, heard>>

-----------------------------------------------------------------------------
(* Layers and cameras.                                                     *)

\* process_layer, for a new layer
AddLayer(layer) ==
  /\ layer \notin DOMAIN layers
  /\ layers' = [l \in DOMAIN layers \cup {layer} |-> IF l = layer THEN 0 ELSE layers[l]]
  /\ UNCHANGED <<drawn, frames, before, renderPc, told, mouseVars>>

\* An event handler or a program moves a camera.
MoveCamera(layer) ==
  /\ layers[layer] < MaxCamera
  /\ layers' = [layers EXCEPT ![layer] = @ + 1]
  /\ UNCHANGED <<drawn, frames, before, renderPc, told, mouseVars>>

\* render_loop, under the mutex: the cameras the frame is drawn with.
Render ==
  /\ renderPc = "top"
  /\ before' = drawn
  /\ drawn' = layers
  /\ frames' = TRUE
  /\ renderPc' = "compare"
  /\ UNCHANGED <<layers, told, mouseVars>>

\* Mutant of Moved: a camera that is drawn for the first time has not moved.
Moved_Known(layer) == layer \in DOMAIN before /\ before[layer] # drawn[layer]

\* The camera differs from the frame before, or was not in it.
Moved(layer) == layer \in DOMAIN before => before[layer] # drawn[layer]

\* render_loop, after the mutex: an event for each camera that moved.
Compare ==
  /\ renderPc = "compare"
  /\ told' = [l \in DOMAIN told \cup {m \in DOMAIN drawn : Moved(m)} |->
                IF l \in DOMAIN drawn /\ Moved(l) THEN drawn[l] ELSE told[l]]
  /\ renderPc' = "top"
  /\ UNCHANGED <<layers, drawn, frames, before, mouseVars>>

-----------------------------------------------------------------------------
(* vx_gtk_display_dispatch_mouse and _key.                                 *)

\* Mutant of Clicked: letting a button go is a click as well.
Clicked_AnyChange(old, new) == old # new

\* A button is down that was not.
Clicked(old, new) == new \ old # {}

\* The layer that a mouse event over a layer is for.
Focus(over, new) ==
  IF new # {} /\ ~Clicked(lastButtons, new) THEN pressedLayer ELSE over

\* Mutant of Ignored: an event outside every layer is handled like any other.
Ignored_First(over) == lastButtons = NoEvent

\* The first event of all, and whatever happens outside every layer, only
\* leaves its buttons behind.
Ignored(over) == lastButtons = NoEvent \/ over = NoLayer

\* over is what pick_layer finds: a layer of the last frame, or NoLayer.
Mouse(over, buttons) ==
  /\ ~crashed
  /\ frames
  /\ over \in DOMAIN drawn \cup {NoLayer}
  /\ lastButtons = NoEvent => FirstIsPress \/ buttons = {}
  /\ lastButtons' = buttons
  /\ pressOver' = IF buttons = {} THEN NoLayer
                  ELSE IF lastButtons = NoEvent \/ buttons \ lastButtons # {} THEN over
                  ELSE pressOver
  /\ pressedLayer' = IF Ignored(over) THEN pressedLayer ELSE Focus(over, buttons)
  /\ crashed' = (~Ignored(over) /\ pressedLayer' \notin DOMAIN drawn)
  /\ event' = IF Ignored(over) \/ crashed' THEN event
              ELSE [type |-> "mouse", layer |-> pressedLayer', buttons |-> buttons]
  /\ UNCHANGED cameraVars

\* A key goes where the mouse went last.
Key ==
  /\ ~crashed
  /\ event' = [type |-> "key", layer |-> pressedLayer, buttons |-> {}]
  /\ UNCHANGED <<cameraVars, lastButtons, pressedLayer, pressOver, crashed>>

-----------------------------------------------------------------------------
Init ==
  /\ layers = <<>> /\ drawn = <<>> /\ before = <<>> /\ told = <<>>
  /\ frames = FALSE
  /\ renderPc = "top"
  /\ lastButtons = NoEvent
  /\ pressedLayer = NoLayer
  /\ event = NoEvent
  /\ pressOver = NoLayer
  /\ crashed = FALSE

Next ==
  \/ \E layer \in Layers : AddLayer(layer)
  \/ \E layer \in DOMAIN layers : MoveCamera(layer)
  \/ Render \/ Compare
  \/ \E over \in Layers \cup {NoLayer}, buttons \in SUBSET Buttons : Mouse(over, buttons)
  \/ Key

-----------------------------------------------------------------------------
\* The last position of a camera that listeners are told of is the one the last
\* frame was drawn with, new layers included.
CamerasTold == renderPc = "top" => told = drawn

\* While buttons stay down mouse events go to the layer on which the last one was
\* pressed, whatever layer the mouse passes over and whichever other button is
\* let go.
DragStays ==
  pressOver # NoLayer /\ event # NoEvent =>
    (event.type = "mouse" /\ event.buttons # {} => event.layer = pressOver)

\* A mouse event finds a camera position to be handed on with, unless the button
\* held was pressed outside every layer, before the mouse was on any.
NeverCrashes == crashed => lastButtons # {} /\ pressOver = NoLayer

\* "Each time the mouse is pushed down, the layer_id is set to the layer under
\* the mouse."
PressPicksLayer == pressOver # NoLayer => pressedLayer = pressOver

-----------------------------------------------------------------------------
(* The dispatch thread.                                                    *)

\* dispatch_event
Dispatch ==
  /\ sent < MaxEvents
  /\ sent' = sent + 1
  /\ queue' = Append(queue, sent')
  /\ UNCHANGED <<batch, calling, dispatchPc, listeners, heard>>

Emptied == <<>>

\* Mutant of Taken: one event is taken.
Taken_First == <<Head(queue)>>

Taken == queue

\* dispatch_run, under dispatch_mutex
TakeEvents ==
  /\ dispatchPc = "top"
  /\ queue # <<>>
  /\ batch' = batch \o Taken
  /\ queue' = Emptied
  /\ dispatchPc' = "batch"
  /\ UNCHANGED <<calling, listeners, sent, heard>>

\* listener_mutex is taken for each event.
BeginCalls ==
  /\ dispatchPc = "batch"
  /\ IF batch = <<>>
     THEN dispatchPc' = "top" /\ UNCHANGED calling
     ELSE dispatchPc' = "calling" /\ calling' = listeners
  /\ UNCHANGED <<queue, batch, listeners, sent, heard>>

Call ==
  /\ dispatchPc = "calling"
  /\ calling # <<>>
  /\ heard' = [heard EXCEPT ![Head(calling)] = Head(batch)]
  /\ calling' = Tail(calling)
  /\ UNCHANGED <<queue, batch, dispatchPc, listeners, sent>>

EndCalls ==
  /\ dispatchPc = "calling"
  /\ calling = <<>>
  /\ batch' = Tail(batch)
  /\ dispatchPc' = "batch"
  /\ UNCHANGED <<queue, calling, listeners, sent, heard>>

DispatchRun == TakeEvents \/ BeginCalls \/ Call \/ EndCalls

-----------------------------------------------------------------------------
\* Mutant of MayChangeListeners: listener_mutex is not waited for.
MayChangeListeners_Always == TRUE

MayChangeListeners == dispatchPc # "calling"

\* add_listener: the new listener will be called with all that is still queued.
AddListener(l) ==
  /\ MayChangeListeners
  /\ ~Contains(listeners, l)
  /\ listeners' = Append(listeners, l)
  /\ heard' = [heard EXCEPT ![l] = sent - Len(queue) - Len(batch)]
  /\ UNCHANGED <<queue, batch, calling, dispatchPc, sent>>

\* remove_listener
RemoveListener(i) ==
  /\ MayChangeListeners
  /\ listeners' = RemoveAt(listeners, i)
  /\ UNCHANGED <<queue, batch, calling, dispatchPc, sent, heard>>

-----------------------------------------------------------------------------
DispatchInit ==
  /\ queue = <<>> /\ batch = <<>> /\ calling = <<>>
  /\ dispatchPc = "top"
  /\ listeners = <<>>
  /\ sent = 0
  /\ heard = [l \in Listeners |-> 0]

DispatchNext ==
  \/ Dispatch
  \/ DispatchRun
  \/ \E l \in Listeners : AddListener(l)
  \/ \E i \in 1 .. Len(listeners) : RemoveListener(i)

-----------------------------------------------------------------------------
\* From its addition to its removal a listener is called once with every event,
\* in the order the events were queued, whoever comes and goes meanwhile, and it
\* is not called after remove_listener has returned.
CalledInOrder ==
  [][ \A l \in Listeners :
        dispatchPc = "calling" /\ calling # <<>> /\ Head(calling) = l /\ calling' = Tail(calling)
        => Contains(listeners, l) /\ Head(batch) = heard[l] + 1 ]_dispatchVars

\* Every event queued reaches every listener that stays: whenever events stop
\* coming, all of them get to know the last one.
AllHear == \A l \in Listeners : []<>(Contains(listeners, l) => heard[l] = sent)
=============================================================================
