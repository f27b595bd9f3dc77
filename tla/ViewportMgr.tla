----------------------------- MODULE ViewportMgr -----------------------------
(***************************************************************************)
(* Where a layer is in its window (src/src/vx/vx_viewport_mgr.c), along    *)
(* one axis: x and y, whose top is its far end, are computed alike.  A     *)
(* program asks for a share of the window, or for a size at an edge or in  *)
(* the middle, to be reached over a time; the render loop asks for the     *)
(* place in pixels at the window's present size.                           *)
(*                                                                         *)
(* A share is kept as a float: times the size it came from it may give one *)
(* pixel less.  Half a pixel may be rounded either way.                    *)
(***************************************************************************)
EXTENDS Integers

CONSTANTS
  Windows,     \* sizes of the window
  Shares,      \* places in shares of the window: [at, size : [num, den]]
  Sizes, Offsets, \* of places in pixels
  Durations,   \* animate_ms
  MaxTime,     \* bound on the time
  MaxChanges   \* bound on the targets set and the windows resized

Anchors == {"near", "middle", "far"}
Unseen == [at |-> -1, size |-> -1]

VARIABLES
  window, now,
  mode,      \* "rel" or "abs"
  rel0, abs0, mtime0,          \* the place when it was last asked for
  rel1, align1, mtime1,        \* the target in either mode, and when to be there
  shown, shownIn,              \* history: the last answer, and the window's size then
  changes      \* number of targets set and windows resized

current == <<rel0, abs0, mtime0, shown, shownIn>>
target  == <<mode, rel1, align1, mtime1>>
vars == <<window, now, target, current, changes>>

Change == changes < MaxChanges /\ changes' = changes + 1

Whole(part) == [num |-> part, den |-> 1]

\* absolute_viewport
Pixels(share) ==
  LET n == window * share.num
      q == n \div share.den
  IN IF n % share.den = 0 /\ share.num \notin {0, share.den} THEN {q - 1, q} ELSE {q}
InPixels(place) == {[at |-> a, size |-> s] : a \in Pixels(place.at), s \in Pixels(place.size)}

\* get_abs_aligned
Aligned ==
  [at |-> align1.offset + CASE align1.anchor = "near" -> 0
                            [] align1.anchor = "middle" -> window \div 2 - align1.size \div 2
                            [] align1.anchor = "far" -> window - 1 - align1.size,
   size |-> align1.size]

Targets == IF mode = "rel" THEN InPixels(rel1) ELSE {Aligned}

\* Mutant of Sources: the place in pixels is not brought up to date.
Sources_Kept == {abs0}
\* abs0 as the interpolation takes it.
Sources ==
  IF mode = "rel" THEN InPixels(rel0) ELSE IF mtime0 = 0 THEN {Aligned} ELSE {abs0}

Rounded(n, d) == IF (2 * n) % d = 0 /\ n % d # 0 THEN {n \div d, n \div d + 1}
                 ELSE {(2 * n + d) \div (2 * d)}

Between(from, to, since) ==
  LET d == mtime1 - since
      Mix(x, y) == Rounded(x * (mtime1 - now) + y * (now - since), d)
  IN {[at |-> a, size |-> s] : a \in Mix(from.at, to.at), s \in Mix(from.size, to.size)}

Places(from, to, since) ==
  CASE now >= mtime1 -> {to}
    [] now < mtime1 /\ now <= since -> {from}
    [] OTHER -> Between(from, to, since)

\* Mutant of ShareOf: the share is only kept in relative mode.
ShareOf_RelOnly(place) ==
  IF mode = "abs" THEN rel0
  ELSE [at |-> [num |-> place.at, den |-> window], size |-> [num |-> place.size, den |-> window]]
ShareOf(place) ==
  [at |-> [num |-> place.at, den |-> window], size |-> [num |-> place.size, den |-> window]]

GetPos ==
  /\ \E from \in Sources, to \in Targets :
       \E place \in Places(from, to, IF mtime0 = 0 THEN now ELSE mtime0) :
         /\ abs0' = place /\ shown' = place
         /\ rel0' = ShareOf(place)
  /\ mtime0' = now
  /\ shownIn' = window
  /\ UNCHANGED <<window, now, target, changes>>

SetRel ==
  /\ Change
  /\ rel1' \in Shares
  /\ \E d \in Durations : mtime1' = now + d
  /\ mode' = "rel"
  /\ UNCHANGED <<window, now, align1, current>>

SetAbs ==
  /\ Change
  /\ align1' \in [anchor : Anchors, offset : Offsets, size : Sizes]
  /\ \E d \in Durations : mtime1' = now + d
  /\ mode' = "abs"
  /\ UNCHANGED <<window, now, rel1, current>>

Resize ==
  /\ Change
  /\ window' \in Windows \ {window}
  /\ UNCHANGED <<now, target, current>>

\* The render loop asks at every turn: time does not pass otherwise.
Tick ==
  /\ mtime0 = now /\ now < MaxTime
  /\ now' = now + 1
  /\ UNCHANGED <<window, target, current, changes>>

FillsWindow == [at |-> Whole(0), size |-> Whole(1)]

Init ==
  /\ window \in Windows /\ now = 1
  /\ mode = "rel" /\ rel0 = FillsWindow /\ rel1 = FillsWindow
  /\ abs0 = [at |-> 0, size |-> 0] /\ mtime0 = 0 /\ mtime1 = 0
  /\ align1 = [anchor |-> "middle", offset |-> 0, size |-> 0]
  /\ shown = Unseen /\ shownIn = window /\ changes = 0

Next == GetPos \/ SetRel \/ SetAbs \/ Resize \/ Tick

Spec == Init /\ [][Next]_vars

-----------------------------------------------------------------------------
\* x is between y and z, up to a pixel.
Within(x, y, z) == (y - 1 <= x /\ x <= z + 1) \/ (z - 1 <= x /\ x <= y + 1)

\* Where the last answer is in the present window: its share in relative mode.
Stood(x) == IF mode = "rel" THEN (x * window) \div shownIn ELSE x

\* An answer is between the last one and the target; before any time has passed it is
\* the last one.
Approaches ==
  \E to \in Targets :
    /\ Within(shown'.at, Stood(shown.at), to.at)
    /\ Within(shown'.size, Stood(shown.size), to.size)
    /\ (now = mtime0 /\ now < mtime1) =>
         /\ shown'.at - Stood(shown.at) \in -1 .. 1
         /\ shown'.size - Stood(shown.size) \in -1 .. 1

\* A layer moves from where it was seen last towards its target, without a jump and
\* without going too far, whatever is asked of it and however the window is resized;
\* before any time has passed it has not moved.
MovesTowards == [][GetPos /\ shown # Unseen => Approaches]_vars
=============================================================================
