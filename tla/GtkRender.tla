----------------------------- MODULE GtkRender -----------------------------
(***************************************************************************)
(* The render thread of a GTK display: it draws the scene into one of two  *)
(* pixel buffers while the window shows the other.  Programs change the    *)
(* scene through send_codes and send_resources, GTK resizes and exposes    *)
(* the window's pane, and the user takes screenshots.  A step under the    *)
(* display's mutex is one action, and so is a blocking call of the GL      *)
(* thread.                                                                 *)
(***************************************************************************)
EXTENDS Naturals

CONSTANTS
  NoFrame,      (* no picture, no buffer                                   *)
  Sizes,        (* sizes a pane is given                                   *)
  MaxChanges,   (* bound: changes of the scene                             *)
  MaxResizes,   (* bound: resizes of the pane                              *)
  EarlyFrames   (* a frame may be ready before the pane's first exposure   *)

VARIABLES
  scene,        (* version of layers, cameras, codes and resources         *)
  changed,      (* glrend->change_since_last_render                        *)
  paneSize,     (* priv->width and height; 0 before the first allocation   *)
  mapped,       (* priv->pixMap is there                                   *)
  pane,         (* priv->pixBuf: the index of a buffer, or NoFrame         *)
  gdkLock,      (* gdk_threads_enter without gdk_threads_leave             *)
  pixbufs,      (* 0..1 -> [size, shows, upright]                          *)
  curIdx,       (* state->cur_pb_idx, the next one to be drawn             *)
  fboSize,      (* 0: no frame buffer object yet                           *)
  renderPc,     (* "top", "draw", "drawn", "flip", "show", "movie"         *)
  want,         (* rbuf.width and height                                   *)
  rendered,     (* rbuf.rendered                                           *)
  shot,         (* [buffer, whole]: the picture a screenshot is saving     *)
  resizes

renderVars == <<renderPc, want, rendered, pixbufs, curIdx, fboSize>>
vars == <<scene, changed, paneSize, mapped, pane, gdkLock, renderVars, shot, resizes>>

NoShot == [buffer |-> NoFrame, whole |-> TRUE]

\* The buffer drawn last.
LastIdx == 1 - curIdx

-----------------------------------------------------------------------------
(* Programs, and GTK's thread.                                             *)

\* The calls of the renderer that set change_since_last_render: a layer, codes,
\* resources, another projection or viewport.  send_codes holds the mutex while
\* it saves a screenshot.
Change ==
  /\ shot = NoShot
  /\ scene < MaxChanges
  /\ scene' = scene + 1
  /\ changed' = TRUE
  /\ UNCHANGED <<paneSize, mapped, pane, gdkLock, renderVars, shot, resizes>>

\* gtku_image_pane_size_allocate
Resize(size) ==
  /\ ~gdkLock
  /\ size # paneSize
  /\ resizes < MaxResizes
  /\ paneSize' = size
  /\ resizes' = resizes + 1
  /\ UNCHANGED <<scene, changed, mapped, pane, gdkLock, renderVars, shot>>

\* gtku_image_pane_expose
Expose ==
  /\ ~gdkLock
  /\ paneSize # 0
  /\ ~mapped
  /\ mapped' = TRUE
  /\ UNCHANGED <<scene, changed, paneSize, pane, gdkLock, renderVars, shot, resizes>>

\* Mutant of ShotIdx: the buffer that is drawn next.
ShotIdx_Current == curIdx

ShotIdx == LastIdx

\* screen_shot: gdk_pixbuf_save takes its time, under the display's mutex.  It is
\* whole if the render thread has put its last frame away.
BeginShot ==
  /\ shot = NoShot
  /\ pixbufs[ShotIdx].size # 0
  /\ shot' = [buffer |-> ShotIdx, whole |-> renderPc \in {"top", "draw"}]
  /\ UNCHANGED <<scene, changed, paneSize, mapped, pane, gdkLock, renderVars, resizes>>

EndShot ==
  /\ shot # NoShot
  /\ shot' = NoShot
  /\ UNCHANGED <<scene, changed, paneSize, mapped, pane, gdkLock, renderVars, resizes>>

-----------------------------------------------------------------------------
(* render_loop.                                                            *)

\* A buffer of another size is freed and allocated again, without the mutex.
Prepare ==
  /\ renderPc = "top"
  /\ paneSize # 0
  /\ want' = paneSize
  /\ pixbufs' = IF pixbufs[curIdx].size = paneSize THEN pixbufs
                ELSE [pixbufs EXCEPT ![curIdx] =
                        [size |-> paneSize, shows |-> NoFrame, upright |-> TRUE]]
  /\ renderPc' = "draw"
  /\ UNCHANGED <<scene, changed, paneSize, mapped, pane, gdkLock, curIdx, fboSize,
                 rendered, shot, resizes>>

\* Mutant of MustDraw: a new frame buffer object is not drawn into at once.
MustDraw_Changed(size) == changed

\* render_task: there is something new, or a frame buffer object of this size has
\* just been made.
MustDraw(size) == changed \/ fboSize # size

\* render_task on the GL thread: the frame is drawn and read back bottom up.
Draw ==
  /\ renderPc = "draw"
  /\ shot = NoShot
  /\ rendered' = MustDraw(want)
  /\ fboSize' = want
  /\ changed' = FALSE
  /\ pixbufs' = IF ~MustDraw(want) THEN pixbufs
                ELSE [pixbufs EXCEPT ![curIdx].shows = scene, ![curIdx].upright = FALSE]
  /\ renderPc' = "drawn"
  /\ UNCHANGED <<scene, paneSize, mapped, pane, gdkLock, curIdx, want, shot, resizes>>

\* Mutant of Swapped: the buffers change places after every loop.
Swapped_Always == 1 - curIdx

\* The other buffer is drawn next if this one was drawn now.
Swapped == IF rendered THEN 1 - curIdx ELSE curIdx

Swap ==
  /\ renderPc = "drawn"
  /\ curIdx' = Swapped
  /\ renderPc' = IF rendered THEN "flip" ELSE "movie"
  /\ UNCHANGED <<scene, changed, paneSize, mapped, pane, gdkLock, want, rendered,
                 pixbufs, fboSize, shot, resizes>>

Flip ==
  /\ renderPc = "flip"
  /\ pixbufs' = [pixbufs EXCEPT ![LastIdx].upright = TRUE]
  /\ renderPc' = "show"
  /\ UNCHANGED <<scene, changed, paneSize, mapped, pane, gdkLock, want, rendered,
                 curIdx, fboSize, shot, resizes>>

\* gtku_image_pane_set_buffer, which keeps the lock when there is no pixMap.
Show ==
  /\ renderPc = "show"
  /\ ~gdkLock
  /\ mapped \/ EarlyFrames
  /\ pane' = LastIdx
  /\ gdkLock' = ~mapped
  /\ renderPc' = "movie"
  /\ UNCHANGED <<scene, changed, paneSize, mapped, want, rendered, pixbufs, curIdx,
                 fboSize, shot, resizes>>

\* A movie in progress is given a copy of the buffer drawn last.
Record ==
  /\ renderPc = "movie"
  /\ renderPc' = "top"
  /\ UNCHANGED <<scene, changed, paneSize, mapped, pane, gdkLock, want, rendered,
                 pixbufs, curIdx, fboSize, shot, resizes>>

RenderLoop == Prepare \/ Draw \/ Swap \/ Flip \/ Show \/ Record

-----------------------------------------------------------------------------
Init ==
  /\ scene = 0
  /\ changed = FALSE
  /\ paneSize = 0
  /\ mapped = FALSE
  /\ pane = NoFrame
  /\ gdkLock = FALSE
  /\ pixbufs = [i \in 0..1 |-> [size |-> 0, shows |-> NoFrame, upright |-> TRUE]]
  /\ curIdx = 0
  /\ fboSize = 0
  /\ renderPc = "top"
  /\ want = 0
  /\ rendered = FALSE
  /\ shot = NoShot
  /\ resizes = 0

Next ==
  \/ Change
  \/ \E size \in Sizes : Resize(size)
  \/ Expose
  \/ BeginShot \/ EndShot
  \/ RenderLoop

-----------------------------------------------------------------------------
\* What the pane shows, and what a movie is given, is a finished picture, the
\* right way up: nothing draws into it, or frees it, meanwhile.
ShowsWhole ==
  /\ pane # NoFrame => pixbufs[pane].shows # NoFrame /\ pixbufs[pane].upright
  /\ renderPc = "movie" => pixbufs[LastIdx].shows # NoFrame /\ pixbufs[LastIdx].upright

\* A screenshot begun while the render thread was not handing over a frame saves
\* one picture, although the thread goes on and may reallocate a buffer.
ShotIsWhole ==
  [][ shot.buffer # NoFrame /\ shot.whole => pixbufs'[shot.buffer] = pixbufs[shot.buffer] ]_vars

\* After the last change and the last resize the pane shows the scene as it is,
\* in its size: no change is missed between two frames.
ShowsLatest ==
  <>[]( /\ pane # NoFrame
        /\ pixbufs[pane].shows = scene
        /\ pixbufs[pane].size = paneSize )

\* "Other functions must be robust to seeing null pointers for pixMap and pixBuf":
\* whoever enters GDK's lock leaves it, so that GTK's thread can go on.
RobustToNullPixMap == ~gdkLock
=============================================================================
