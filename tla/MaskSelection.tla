--------------------------- MODULE MaskSelection ---------------------------
(***************************************************************************)
(* The laundry program's choice of an image region.  Three threads share a *)
(* VxGui: the image thread (ImageManager::run) hands it camera frames      *)
(* until the user leaves mask mode and then takes the mask; the GTK thread *)
(* handles clicks and keys; the render thread draws, and for drawing adds  *)
(* the two other corners to the clicked points and takes them away again.  *)
(* imgLock_ guards the frame; nothing guards pointsClicked_ or settingMask.*)
(*                                                                         *)
(* Each operation on the vector of points is one step here; popping from   *)
(* it when it is empty, which is undefined, ends the render thread here    *)
(* (its size wraps around, and the next loop over it leaves the memory).   *)
(***************************************************************************)
EXTENDS Integers, Sequences, SequencesExt

CONSTANTS
  Clicks,   (* places the user may click at                                *)
  Corner,   (* a corner of the mask computed from two clicks, not in Clicks *)
  Frames,   (* bound: frames told apart, 0 .. Frames - 1                   *)
  None      (* NULL                                                        *)

VARIABLES
  settingMask,   (* VxGui::settingMask                                     *)
  pointsClicked, (* VxGui::pointsClicked_                                  *)
  imgPtr,        (* VxGui::imgPtr_: the frame shown, wholly copied or not  *)
  imgLock,       (* holder of VxGui::imgLock_, or "free"                   *)
  imagePc,       (* where the image thread is in ImageManager::run         *)
  curImg,        (* ImageManager::curImgPtr_                               *)
  mask,          (* the points setMaskFilter got                           *)
  eventPc,       (* where the GTK thread is in an event handler            *)
  click,         (* the click it handles                                   *)
  renderPc       (* where the render thread is in render                   *)

imageVars == <<imagePc, curImg, mask>>
eventVars == <<eventPc, click>>
vars == <<settingMask, pointsClicked, imgPtr, imgLock, imageVars, eventVars,
          renderPc>>

-----------------------------------------------------------------------------
(* The image thread.                                                       *)

\* The camera is open; mask mode begins.
StartMaskMode ==
  /\ imagePc = "start"
  /\ settingMask' = TRUE
  /\ imagePc' = "loop"
  /\ UNCHANGED <<pointsClicked, imgPtr, imgLock, curImg, mask, eventVars, renderPc>>

\* while (settingMask): the next frame replaces the image manager's own copy.
GetImageFrame ==
  /\ imagePc = "loop"
  /\ settingMask
  /\ curImg' = IF curImg = None THEN 0 ELSE (curImg + 1) % Frames
  /\ imagePc' = "update"
  /\ UNCHANGED <<settingMask, pointsClicked, imgPtr, imgLock, mask, eventVars, renderPc>>

\* Mutant of UpdateImage: the frame is replaced without taking the lock.
UpdateImage_Unlocked ==
  /\ imagePc = "update"
  /\ imgPtr' = [frame |-> curImg, whole |-> FALSE]
  /\ imagePc' = "copy"
  /\ UNCHANGED <<settingMask, pointsClicked, imgLock, curImg, mask, eventVars, renderPc>>

\* updateImage destroys the frame shown and makes room for the new one ...
UpdateImage ==
  /\ imagePc = "update"
  /\ imgLock = "free"
  /\ imgLock' = "image"
  /\ imgPtr' = [frame |-> curImg, whole |-> FALSE]
  /\ imagePc' = "copy"
  /\ UNCHANGED <<settingMask, pointsClicked, curImg, mask, eventVars, renderPc>>

\* ... and copies it there.
CopyImage ==
  /\ imagePc = "copy"
  /\ imgPtr' = [imgPtr EXCEPT !.whole = TRUE]
  /\ imgLock' = "free"
  /\ imagePc' = "loop"
  /\ UNCHANGED <<settingMask, pointsClicked, curImg, mask, eventVars, renderPc>>

SetMaskFilter ==
  /\ imagePc = "loop"
  /\ ~settingMask
  /\ mask' = pointsClicked
  /\ imagePc' = "done"
  /\ UNCHANGED <<settingMask, pointsClicked, imgPtr, imgLock, curImg, eventVars, renderPc>>

ImageThread ==
  StartMaskMode \/ GetImageFrame \/ UpdateImage \/ CopyImage \/ SetMaskFilter

-----------------------------------------------------------------------------
(* The GTK thread: addMaskPoint, storeMaskPts, saveImg.                    *)

\* Mutant of AddMaskPoint: a third click is added to the two.
AddMaskPoint_Third(p) ==
  /\ eventPc = "idle"
  /\ settingMask
  /\ Len(pointsClicked) <= 5
  /\ click' = p
  /\ eventPc' = "push"
  /\ UNCHANGED <<settingMask, pointsClicked, imgPtr, imgLock, imageVars, renderPc>>

\* A third click starts the selection anew.
AddMaskPoint(p) ==
  /\ eventPc = "idle"
  /\ settingMask
  /\ click' = p
  /\ pointsClicked' = IF Len(pointsClicked) >= 2 THEN <<>> ELSE pointsClicked
  /\ eventPc' = "push"
  /\ UNCHANGED <<settingMask, imgPtr, imgLock, imageVars, renderPc>>

PushMaskPoint ==
  /\ eventPc = "push"
  /\ pointsClicked' = Append(pointsClicked, click)
  /\ eventPc' = "idle"
  /\ click' = None
  /\ UNCHANGED <<settingMask, imgPtr, imgLock, imageVars, renderPc>>

\* ENTER leaves mask mode, if two points are stored.
StoreMaskPts ==
  /\ eventPc = "idle"
  /\ Len(pointsClicked) = 2
  /\ settingMask
  /\ settingMask' = FALSE
  /\ UNCHANGED <<pointsClicked, imgPtr, imgLock, imageVars, eventVars, renderPc>>

SaveImg ==
  /\ eventPc = "idle"
  /\ imgPtr # None     \* writing a frame before there is one ends the process
  /\ imgLock = "free"
  /\ imgLock' = "event"
  /\ eventPc' = "save"
  /\ UNCHANGED <<settingMask, pointsClicked, imgPtr, imageVars, click, renderPc>>

SaveImgDone ==
  /\ eventPc = "save"
  /\ imgLock' = "free"
  /\ eventPc' = "idle"
  /\ UNCHANGED <<settingMask, pointsClicked, imgPtr, imageVars, click, renderPc>>

GtkThread ==
  \/ \E p \in Clicks : AddMaskPoint(p)
  \/ PushMaskPoint
  \/ StoreMaskPts
  \/ SaveImg
  \/ SaveImgDone

-----------------------------------------------------------------------------
(* The render thread.                                                      *)

RenderTo(label) ==
  /\ renderPc' = label
  /\ UNCHANGED <<settingMask, imgPtr, imageVars, eventVars>>

\* Mutant of Render: the lock is not taken.
Render_Unlocked ==
  /\ renderPc = "idle"
  /\ RenderTo("draw")
  /\ UNCHANGED <<pointsClicked, imgLock>>

Render ==
  /\ renderPc = "idle"
  /\ imgLock = "free"
  /\ imgLock' = "render"
  /\ RenderTo("draw")
  /\ UNCHANGED pointsClicked

\* The frame, if any, is drawn, and the mask on it in mask mode.
DrawImage ==
  /\ renderPc = "draw"
  /\ RenderTo(IF imgPtr # None /\ settingMask THEN "plot" ELSE "unlock")
  /\ UNCHANGED <<pointsClicked, imgLock>>

\* plotMaskPosition appends two corners to two clicked points ...
PlotMaskPosition ==
  /\ renderPc = "plot"
  /\ RenderTo(IF Len(pointsClicked) = 2 THEN "corner3" ELSE "count")
  /\ UNCHANGED <<pointsClicked, imgLock>>

PushCorner ==
  /\ renderPc \in {"corner3", "corner4"}
  /\ pointsClicked' = Append(pointsClicked, Corner)
  /\ RenderTo(IF renderPc = "corner3" THEN "corner4" ELSE "count")
  /\ UNCHANGED imgLock

\* ... and after drawing removes two points from four.
CountPoints ==
  /\ renderPc = "count"
  /\ RenderTo(IF Len(pointsClicked) = 4 THEN "pop4" ELSE "unlock")
  /\ UNCHANGED <<pointsClicked, imgLock>>

PopPoint ==
  /\ renderPc \in {"pop4", "pop3"}
  /\ IF pointsClicked = <<>>
     THEN RenderTo("crashed") /\ UNCHANGED pointsClicked
     ELSE /\ pointsClicked' = Front(pointsClicked)
          /\ RenderTo(IF renderPc = "pop4" THEN "pop3" ELSE "unlock")
  /\ UNCHANGED imgLock

RenderDone ==
  /\ renderPc = "unlock"
  /\ imgLock' = "free"
  /\ RenderTo("idle")
  /\ UNCHANGED pointsClicked

RenderThread ==
  \/ Render
  \/ DrawImage
  \/ PlotMaskPosition
  \/ PushCorner
  \/ CountPoints
  \/ PopPoint
  \/ RenderDone

-----------------------------------------------------------------------------
Init ==
  /\ settingMask = FALSE
  /\ pointsClicked = <<>>
  /\ imgPtr = None
  /\ imgLock = "free"
  /\ imagePc = "start"
  /\ curImg = None
  /\ mask = None
  /\ eventPc = "idle"
  /\ click = None
  /\ renderPc = "idle"

Next == ImageThread \/ GtkThread \/ RenderThread

Spec == Init /\ [][Next]_vars

-----------------------------------------------------------------------------
TypeOK ==
  /\ settingMask \in BOOLEAN
  /\ pointsClicked \in Seq(Clicks \cup {Corner})
  /\ imgPtr \in [frame : 0 .. Frames - 1, whole : BOOLEAN] \cup {None}
  /\ imgLock \in {"free", "image", "event", "render"}
  /\ imagePc \in {"start", "loop", "update", "copy", "done"}
  /\ curImg \in 0 .. Frames - 1 \cup {None}
  /\ mask \in Seq(Clicks \cup {Corner}) \cup {None}
  /\ eventPc \in {"idle", "push", "save"}
  /\ click \in Clicks \cup {None}
  /\ eventPc = "push" => click # None
  /\ renderPc \in {"idle", "draw", "plot", "corner3", "corner4", "count",
                   "pop4", "pop3", "unlock", "crashed"}

Reading == renderPc \notin {"idle", "crashed"} \/ eventPc = "save"

\* A frame that is drawn or saved is a whole one (updateImage copies it in
\* place under imgLock_; render and saveImg read it under imgLock_).
FrameReadIsWhole == (Reading /\ imgPtr # None) => imgPtr.whole

\* Nobody replaces, and so frees, a frame while it is drawn or saved.
FrameKeptWhileRead == [][(Reading /\ Reading') => imgPtr' = imgPtr]_vars

\* At no time do more points exist than the corners of a mask and one click
\* that came in while they were drawn.
PointsBounded == Len(pointsClicked) <= 5

\* storeMaskPts's comment, "exit mask mode, given that 2 points have been
\* clicked": mask mode ends with two points of the user's.
MaskFromTwoClicks ==
  [][ (settingMask /\ ~settingMask') =>
        /\ Len(pointsClicked) = 2
        /\ \A i \in 1 .. 2 : pointsClicked[i] \in Clicks ]_vars
=============================================================================
