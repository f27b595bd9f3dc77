----------------------------- MODULE MCWindows -----------------------------
(***************************************************************************)
(* The windows of a program for TLC, in one model.  The modules share no   *)
(* state: the first state picks the one that runs.                         *)
(***************************************************************************)
EXTENDS Integers, Sequences, FiniteSets

CONSTANTS
  None, Callers, MaxCalls,
  Sizes, MaxChanges, MaxResizes,
  Listeners, Layers, Buttons, MaxQueued, MaxCamera,
  Clicks, Corner, Frames,
  Worlds, Names, BufferOrders, Bogus, Users, MaxMessages,
  Letters, Space, NoCharacter, MaxLength, MaxLines, HistorySize, Entered, MaxKeys, MaxPrints,
  Handlers, OrderOf, MenuButton, DrawOrders, MaxEvents

\* The console's commands so far, and the order of a layer's handlers, for TLC.
MCEntered == {<<>>, << <<"a", "a">>, <<"a", " ">> >>}
MCOrderOf == [h \in {"console", "camera"} |-> IF h = "console" THEN 0 ELSE 1]

VARIABLES
  part,
  tasks, running, workerPc, job, callerPc, ran, destroyPc, calls, pastCheck, order,
  scene, changed, paneSize, mapped, pane, gdkLock, pixbufs, curIdx, fboSize, renderPc,
  want, rendered, shot, resizes,
  queue, batch, calling, dispatchPc, listeners, queued, heard,
  layers, drawn, frames, before, comparePc, lastButtons, pressedLayer, event, told,
  pressOver, crashed,
  settingMask, pointsClicked, imgPtr, imgLock, imagePc, curImg, mask, eventPc, click, guiPc,
  worldOf, checked, list, required, managed, view, layoutPc, gtkOwner, listMutex, call,
  senderPc, endPc, overlapped, messages,
  focus, command, history, consoleList, selected, consoleMutex, consolePc, picture,
  back, consoleShown, recalled, aborted, raced, keys, prints,
  held, buttons, menuOpen, sure, handlers, offer, offered, taken, display, drawOrder,
  known, events

Task == INSTANCE TaskThread

Render == INSTANCE GtkRender WITH NoFrame <- None, EarlyFrames <- FALSE

Events == INSTANCE GtkEvents WITH
  MaxEvents <- MaxQueued, sent <- queued, NoEvent <- None, FirstIsPress <- FALSE,
  renderPc <- comparePc

Mask == INSTANCE MaskSelection WITH renderPc <- guiPc

Buffers == INSTANCE BufferManager WITH Orders <- BufferOrders,
  rendered <- checked, running <- managed, gdkLock <- gtkOwner, mutex <- listMutex,
  destroyPc <- endPc, sent <- messages

Console == INSTANCE VxConsole WITH
  mutex <- consoleMutex, pc <- consolePc, shown <- consoleShown, commands <- consoleList,
  crashed <- aborted

Input == INSTANCE LayerInput WITH event <- offer, told <- known, mask <- buttons

taskVars     == <<tasks, running, workerPc, job, callerPc, ran, destroyPc, calls,
                  pastCheck, order>>
renderVars   == <<scene, changed, paneSize, mapped, pane, gdkLock, pixbufs, curIdx,
                  fboSize, renderPc, want, rendered, shot, resizes>>
dispatchVars == <<queue, batch, calling, dispatchPc, listeners, queued, heard>>
eventVars    == <<layers, drawn, frames, before, comparePc, lastButtons, pressedLayer,
                  event, told, pressOver, crashed>>
maskVars     == <<settingMask, pointsClicked, imgPtr, imgLock, imagePc, curImg, mask,
                  eventPc, click, guiPc>>
listVars     == <<worldOf, checked, list, required, managed, view, layoutPc, gtkOwner,
                  listMutex, call, senderPc, endPc, overlapped, messages>>
consoleVars == <<focus, command, history, consoleList, selected, consoleMutex,
                 consolePc, picture, back, consoleShown, recalled, aborted, raced,
                 keys, prints>>
inputVars == <<held, buttons, menuOpen, sure, handlers, offer, offered, taken,
               display, drawOrder, known, events>>

vars == <<part, taskVars, renderVars, dispatchVars, eventVars, maskVars, listVars,
          consoleVars, inputVars>>

Init ==
  /\ part \in {"task_thread", "render", "dispatch", "events", "mask",
              "buffers", "console", "input"}
  /\ Task!Init /\ Render!Init /\ Events!DispatchInit /\ Events!Init
  /\ Mask!Init /\ Buffers!Init /\ Console!Init /\ Input!Init
  /\ \A l \in Layers :
       part # "buffers" \/ (\A k \in Layers : l <= k) => worldOf[l] = CHOOSE w \in Worlds : TRUE
  /\ part # "task_thread" => job = CHOOSE c \in Callers : TRUE
  /\ part # "console" => consoleList = <<>>
  /\ part # "input" => drawOrder = 0

\* A step of one part leaves the others alone.
Step(name, A) ==
  /\ part = name /\ A
  /\ UNCHANGED part
  /\ name # "task_thread" => UNCHANGED taskVars
  /\ name # "render" => UNCHANGED renderVars
  /\ name # "dispatch" => UNCHANGED dispatchVars
  /\ name # "events" => UNCHANGED eventVars
  /\ name # "mask" => UNCHANGED maskVars
  /\ name # "buffers" => UNCHANGED listVars
  /\ name # "console" => UNCHANGED consoleVars
  /\ name # "input" => UNCHANGED inputVars

Next ==
  \/ Step("task_thread", Task!Next)
  \/ Step("render", Render!Next)
  \/ Step("dispatch", Events!DispatchNext)
  \/ Step("events", Events!Next)
  \/ Step("mask", Mask!Next)
  \/ Step("buffers", Buffers!Next)
  \/ Step("console", Console!Next)
  \/ Step("input", Input!Next)

\* The threads of the program and of GTK go on.  The render thread shares the
\* display's mutex with screenshots, and the layout thread GDK's lock with GTK, so they
\* are only sure to get them again and again; a window is given a size when it is shown.
\* Only one part runs: a disjunction is fair to the one action of it that may happen.
Fairness ==
  /\ WF_vars(\/ Step("task_thread", Task!Worker)
             \/ Step("render", Render!RenderLoop)
             \/ Step("dispatch", Events!DispatchRun)
             \/ Step("buffers", \E s \in Users : Buffers!Sender(s)))
  /\ WF_vars(\/ Step("task_thread", Task!Destroyer)
             \/ Step("render", Render!EndShot)
             \/ Step("buffers", Buffers!Sender("gtk")))
  /\ WF_vars(\/ Step("render", Render!Expose)
             \/ Step("buffers", endPc # "not called" /\ Buffers!Destroyer))
  /\ WF_vars(Step("render", paneSize = 0 /\ \E size \in Sizes : Render!Resize(size)))
  /\ \A c \in Callers : WF_vars(Step("task_thread", Task!Wait(c) \/ Task!Return(c)))
  /\ SF_vars(\/ Step("render", Render!Draw)
             \/ Step("buffers", Buffers!LayoutThread))

Spec == Init /\ [][Next]_vars /\ Fairness

-----------------------------------------------------------------------------
\* What is shown, saved or drawn is one finished picture, of a console too, and the
\* mask's points on it stay few (GtkRender, MaskSelection, VxConsole).
PicturesAreWhole ==
  /\ Render!ShowsWhole /\ Mask!FrameReadIsWhole /\ Mask!PointsBounded
  /\ Console!ShowsConsole
\* It stays that picture for as long as it is read (GtkRender, MaskSelection).
PicturesKept == Render!ShotIsWhole /\ Mask!FrameKeptWhileRead
\* A task is reported run only after it ran (TaskThread).
ReturnsWhenRun == Task!ReturnsWhenRun
\* Tasks run in the order they were queued, a listener hears every event once and in
\* order while it is listed, and of a layer's handlers the first that wants an event has
\* it, with the buttons that are down; a completion takes the place of the last token
\* (TaskThread, GtkEvents, LayerInput, VxConsole).
InOrder ==
  /\ Task!RunInOrder /\ Events!CalledInOrder /\ Input!FirstTakes /\ Input!ButtonsAreDown
  /\ Console!CompletesToken
\* Whoever waits for a task is told, and whoever destroys the thread or the manager of
\* buffers (TaskThread, BufferManager).
CallsReturn == Task!CallsReturn /\ Task!DestroyReturns /\ Buffers!DestroyReturns
\* The last change and the last resize reach the screen, the list of buffers its
\* window, and every event the listeners (GtkRender, BufferManager, GtkEvents).
ReachesUser ==
  (part = "render" => Render!ShowsLatest) /\ Buffers!WindowCatchesUp /\ Events!AllHear
\* Listeners know the cameras as they were drawn last, a drag stays with the layer it
\* began on, and no event is made of a camera that is not there; the console brings back
\* what was entered, and aborts in two cases only (GtkEvents, VxConsole).
EventsGoWhereMeant ==
  /\ Events!CamerasTold /\ Events!DragStays /\ Events!NeverCrashes
  /\ Console!RecallsEntered /\ Console!AbortsOnlyThere
\* The list of buffers and what the display knows of a layer are as they should be
\* (BufferManager, LayerInput).
DisplayIsKnown == Buffers!ListMatchesRenderer /\ Input!DisplayKnowsLayer
=============================================================================
