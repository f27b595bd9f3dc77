----------------------------- MODULE CameraMgr -----------------------------
(***************************************************************************)
(* The camera manager of a layer and the event handler that drives it: a   *)
(* camera moves from where it is seen to its target in a given time.  A    *)
(* camera position is a number here (eye, lookat and up stand for points   *)
(* in space), and time is counted in frames or less.  Every call is made   *)
(* under the display's mutex.                                              *)
(***************************************************************************)
EXTENDS Integers

CONSTANTS
  None,           (* NULL                                                  *)
  Positions,      (* positions that programs and users ask for             *)
  Durations,      (* animate_ms                                            *)
  MaxTime,        (* bound: the clock stops here                           *)
  MaxCommands     (* bound: calls                                          *)

VARIABLES
  now,            (* vx_util_mtime()                                       *)
  pos0, mtime0,   (* eye0, lookat0, up0: what was shown last               *)
  pos1, mtime1,   (* eye1, lookat1, up1: the target, and when to be there  *)
  saved,          (* saved_eye, saved_lookat, saved_up                     *)
  fit,            (* state->fit: [to, mtime], or None                      *)
  following,      (* follow_lastpos, or None                               *)
  bookmark,       (* the bookmark under one function key, or None          *)
  manip,          (* manip_in_progress: "none", "pan", "rotate"            *)
  commands,
  asked,          (* history: the target of the last command               *)
  askedDefault,   (* history: that of the last command with set_default    *)
  askedBookmark,  (* history: the target when the bookmark was set         *)
  seen            (* history: where the last frame showed the camera       *)

camVars == <<pos0, mtime0, pos1, mtime1, saved, fit, following>>
handlerVars == <<bookmark, manip>>
historyVars == <<asked, askedDefault, askedBookmark, seen>>
vars == <<now, camVars, handlerVars, commands, historyVars>>

Command == commands < MaxCommands /\ commands' = commands + 1

\* Mutant of WithoutFit: a fit that is pending will be carried out.
WithoutFit_Kept == fit

\* default_destroy_fit
WithoutFit == None

-----------------------------------------------------------------------------
(* Commands of programs (process_camera_codes).                            *)

MoveTo(x, ms) ==
  /\ pos1' = x
  /\ mtime1' = now + ms

\* default_cam_mgr_lookat.  default_key_event and OP_PROJ_* call set_cam_pos, which
\* leaves a pending fit alone.
Lookat(x, setDefault, ms) ==
  /\ Command
  /\ MoveTo(x, ms)
  /\ fit' = WithoutFit
  /\ following' = None
  /\ saved' = IF setDefault THEN x ELSE saved
  /\ asked' = x
  /\ askedDefault' = IF setDefault THEN x ELSE askedDefault
  /\ UNCHANGED <<now, pos0, mtime0, handlerVars, askedBookmark, seen>>

\* default_cam_mgr_fit2D, which waits for the viewport of the next frame.  (With
\* set_default it would save the target it replaces; no program asks for that.)
Fit2D(x, ms) ==
  /\ Command
  /\ fit' = [to |-> x, mtime |-> now + ms]
  /\ following' = None
  /\ asked' = x
  /\ UNCHANGED <<now, pos0, mtime0, pos1, mtime1, saved, handlerVars, askedDefault,
                 askedBookmark, seen>>

\* default_cam_mgr_defaults
Defaults(ms) ==
  /\ Command
  /\ MoveTo(saved, ms)
  /\ fit' = WithoutFit
  /\ asked' = askedDefault
  /\ UNCHANGED <<now, pos0, mtime0, saved, following, handlerVars, askedDefault,
                 askedBookmark, seen>>

\* OP_PROJ_ORTHO and OP_PROJ_PERSPECTIVE: the target again, at once.
Projection ==
  /\ Command
  /\ MoveTo(pos1, 0)
  /\ following' = None
  /\ UNCHANGED <<now, pos0, mtime0, saved, fit, handlerVars, historyVars>>

\* default_cam_mgr_follow: the target moves as far as what it follows.
Follow(x, ms) ==
  /\ Command
  /\ IF following = None
     THEN UNCHANGED <<pos1, mtime1, asked>>
     ELSE /\ MoveTo(pos1 + x - following, ms)
          /\ asked' = IF fit = None THEN asked + x - following ELSE asked
  /\ following' = x
  /\ UNCHANGED <<now, pos0, mtime0, saved, fit, handlerVars, askedDefault,
                 askedBookmark, seen>>

-----------------------------------------------------------------------------
(* Users: default_event_handler.                                           *)

Press(kind) ==
  /\ manip = "none"
  /\ manip' = kind
  /\ UNCHANGED <<now, camVars, bookmark, commands, historyVars>>

\* A pan moves what was seen last (and so does a zoom); a rotation turns the
\* target.
Drag(d, ms) ==
  /\ manip # "none"
  /\ Command
  /\ LET x == IF manip = "pan" THEN pos0 + d ELSE pos1 + d
     IN MoveTo(x, ms) /\ asked' = x
  /\ fit' = WithoutFit
  /\ following' = None
  /\ UNCHANGED <<now, pos0, mtime0, saved, handlerVars, askedDefault,
                 askedBookmark, seen>>

\* A button is let go, or a modifier key pressed.
Release ==
  /\ manip # "none"
  /\ manip' = "none"
  /\ UNCHANGED <<now, camVars, bookmark, commands, historyVars>>

\* Ctrl and a function key; not before the next frame when a fit is pending.
SetBookmark ==
  /\ fit = None
  /\ bookmark' = pos1
  /\ askedBookmark' = asked
  /\ UNCHANGED <<now, camVars, manip, commands, asked, askedDefault, seen>>

\* The function key alone: default_cam_mgr_set_cam_pos.
GoToBookmark(ms) ==
  /\ bookmark # None
  /\ fit = None
  /\ Command
  /\ MoveTo(bookmark, ms)
  /\ following' = None
  /\ asked' = askedBookmark
  /\ UNCHANGED <<now, pos0, mtime0, saved, fit, handlerVars, askedDefault,
                 askedBookmark, seen>>

-----------------------------------------------------------------------------
(* A frame: default_cam_mgr_get_cam_pos.                                   *)

Target == IF fit = None THEN pos1 ELSE fit.to
Due == IF fit = None THEN mtime1 ELSE fit.mtime

\* On the way the camera is where it was in proportion to the time.
Shown ==
  IF now > Due THEN Target
  ELSE IF now <= mtime0 THEN pos0
  ELSE pos0 + ((Target - pos0) * (now - mtime0)) \div (Due - mtime0)

\* Mutant of Departure: the camera's way always begins where it was at first.
Departure_Kept == pos0

\* What is shown now is where the rest of the way begins.
Departure == Shown

Frame ==
  /\ pos0' = Departure
  /\ mtime0' = now
  /\ pos1' = Target
  /\ mtime1' = Due
  /\ fit' = None
  /\ seen' = Shown
  /\ UNCHANGED <<now, saved, following, handlerVars, commands, asked, askedDefault,
                 askedBookmark>>

Tick ==
  /\ now < MaxTime
  /\ now' = now + 1
  /\ UNCHANGED <<camVars, handlerVars, commands, historyVars>>

-----------------------------------------------------------------------------
\* default_cam_mgr_create; the first frame comes later.
Init ==
  /\ now = 1
  /\ pos1 \in Positions
  /\ mtime1 = 0
  /\ pos0 = pos1
  /\ mtime0 = 0
  /\ saved = pos1
  /\ fit = None
  /\ following = None
  /\ bookmark = None
  /\ manip = "none"
  /\ commands = 0
  /\ asked = pos1
  /\ askedDefault = pos1
  /\ askedBookmark = pos1
  /\ seen = pos1

Next ==
  \/ \E x \in Positions, ms \in Durations :
       \/ \E setDefault \in BOOLEAN : Lookat(x, setDefault, ms)
       \/ Fit2D(x, ms)
       \/ Follow(x, ms)
       \/ Drag(x, ms)
  \/ \E ms \in Durations : Defaults(ms) \/ GoToBookmark(ms)
  \/ Projection
  \/ \E kind \in {"pan", "rotate"} : Press(kind)
  \/ Release
  \/ SetBookmark
  \/ Frame
  \/ Tick

-----------------------------------------------------------------------------
\* Once its time is over the camera shows what was asked for last, by whatever
\* mixture of commands, drags, bookmarks and resets: none of them is undone by an
\* earlier one that was still under way or waiting for a frame.
ArrivesAsAsked ==
  [][ mtime0' # mtime0 /\ now > Due => Shown = asked ]_vars

\* The camera never jumps: until it is due, every frame shows it between where
\* the frame before showed it and its target, whatever was asked in between.
MovesTowards ==
  [][ (mtime0' # mtime0 /\ now <= Due) =>
        \/ seen <= seen' /\ seen' <= Target
        \/ Target <= seen' /\ seen' <= seen ]_vars
=============================================================================
