--------------------------- MODULE WindowsProofs ---------------------------
(***************************************************************************)
(* Proofs about the windows of a program, as MCWindows puts their parts    *)
(* together.                                                               *)
(***************************************************************************)
EXTENDS MCWindows, WellFoundedInduction, TLAPS

\* NULL is neither the number of a buffer nor a version of the scene; a pane has a size.
RenderFits == None \notin Nat /\ Sizes \subseteq Nat \ {0}

-----------------------------------------------------------------------------
(* The render thread of a display.                                         *)

RenderTypes ==
  /\ scene \in Nat
  /\ paneSize \in Nat
  /\ curIdx \in 0 .. 1
  /\ pane \in {None, 0, 1}
  /\ pixbufs \in [0 .. 1 -> [size : Nat, shows : Nat \cup {None}, upright : BOOLEAN]]
  /\ rendered \in BOOLEAN
  /\ renderPc \in {"top", "draw", "drawn", "flip", "show", "movie"}

Shown(i) == pixbufs[i].shows # None /\ pixbufs[i].upright

\* The pane has the buffer drawn last, or for as long as the next is turned the right
\* way up and handed over, the one before.
PaneIsLast ==
  pane # None =>
    /\ Shown(pane)
    /\ pane = IF renderPc \in {"flip", "show"} THEN curIdx ELSE 1 - curIdx

\* Until a frame buffer object has been made nothing was drawn; from then on the pane has
\* a picture.
FirstIsDrawn ==
  /\ renderPc \in {"top", "draw"} => fboSize = 0 \/ pane # None
  /\ renderPc = "draw" => want # 0
  /\ renderPc = "drawn" => IF rendered THEN pixbufs[curIdx].shows # None ELSE pane # None
  /\ renderPc = "flip" => pixbufs[1 - curIdx].shows # None
  /\ renderPc = "show" => Shown(1 - curIdx)
  /\ renderPc = "movie" => pane # None

\* A screenshot that was begun in time holds the thread off the buffer it saves.
ShotIsLast ==
  shot.buffer # None /\ shot.whole => renderPc \in {"top", "draw"} /\ shot.buffer = 1 - curIdx

RenderInv == RenderTypes /\ PaneIsLast /\ FirstIsDrawn /\ ShotIsLast

LEMMA OtherBuffer ==
  ASSUME NEW i \in 0 .. 1
  PROVE  1 - i \in 0 .. 1 /\ 1 - i # i /\ 1 - (1 - i) = i
OBVIOUS

LEMMA RenderStays ==
  ASSUME RenderFits, RenderInv, [Render!Next]_renderVars
  PROVE  RenderInv'
<1> USE DEF RenderInv, RenderTypes, PaneIsLast, FirstIsDrawn, ShotIsLast, Shown
<1>0. 1 - curIdx \in 0 .. 1 /\ 1 - curIdx # curIdx /\ 1 - (1 - curIdx) = curIdx
  BY OtherBuffer
<1>1. CASE Render!Change
  BY <1>1 DEF Render!Change, Render!renderVars
<1>2. ASSUME NEW s \in Sizes, Render!Resize(s) PROVE RenderInv'
  BY <1>2 DEF RenderFits, Render!Resize, Render!renderVars
<1>3. CASE Render!Expose
  BY <1>3 DEF Render!Expose, Render!renderVars
<1>4. CASE Render!BeginShot
  BY <1>4 DEF Render!BeginShot, Render!ShotIdx, Render!LastIdx, Render!renderVars
<1>5. CASE Render!EndShot
  BY <1>5 DEF Render!EndShot, Render!NoShot, Render!renderVars
<1>6. CASE Render!Prepare
  <2>1. \A i \in 0 .. 1 : i # curIdx => pixbufs'[i] = pixbufs[i]
    BY <1>6 DEF Render!Prepare
  <2>2. pixbufs' \in [0 .. 1 -> [size : Nat, shows : Nat \cup {None}, upright : BOOLEAN]]
    BY <1>6 DEF Render!Prepare
  <2> QED
    BY <1>0, <1>6, <2>1, <2>2 DEF Render!Prepare
<1>7. CASE Render!Draw
  <2>1. \A i \in 0 .. 1 : i # curIdx => pixbufs'[i] = pixbufs[i]
    BY <1>7 DEF Render!Draw
  <2>2. pixbufs' \in [0 .. 1 -> [size : Nat, shows : Nat \cup {None}, upright : BOOLEAN]]
    BY <1>7 DEF Render!Draw
  <2>3. rendered' => pixbufs'[curIdx].shows # None
    BY <1>7 DEF Render!Draw, RenderFits
  <2>4. ~rendered' => pane # None
    BY <1>7 DEF Render!Draw, Render!MustDraw
  <2>5. shot.buffer = None
    BY <1>7 DEF Render!Draw, Render!NoShot
  <2>6. rendered' \in BOOLEAN
    BY <1>7 DEF Render!Draw, Render!MustDraw
  <2>7. renderPc = "draw" /\ renderPc' = "drawn"
        /\ UNCHANGED <<scene, paneSize, pane, curIdx, shot>>
    BY <1>7 DEF Render!Draw
  <2>8. RenderTypes'
    BY <2>2, <2>6, <2>7
  <2>9. PaneIsLast'
    BY <1>0, <2>1, <2>7
  <2>10. FirstIsDrawn'
    BY <2>3, <2>4, <2>7
  <2> QED
    BY <2>5, <2>7, <2>8, <2>9, <2>10
<1>8. CASE Render!Swap
  <2>1. curIdx' \in 0 .. 1
    BY <1>0, <1>8 DEF Render!Swap, Render!Swapped
  <2> QED
    BY <1>0, <1>8, <2>1 DEF Render!Swap, Render!Swapped
<1>9. CASE Render!Flip
  <2>1. /\ renderPc = "flip" /\ renderPc' = "show"
        /\ pixbufs' = [pixbufs EXCEPT ![1 - curIdx].upright = TRUE]
        /\ UNCHANGED <<scene, paneSize, pane, want, rendered, curIdx, fboSize, shot>>
    BY <1>9 DEF Render!Flip, Render!LastIdx
  <2>2. \A i \in 0 .. 1 : i # 1 - curIdx => pixbufs'[i] = pixbufs[i]
    BY <2>1
  <2>3. pixbufs' \in [0 .. 1 -> [size : Nat, shows : Nat \cup {None}, upright : BOOLEAN]]
    BY <1>0, <2>1
  <2>4. pixbufs'[1 - curIdx].shows = pixbufs[1 - curIdx].shows /\ pixbufs'[1 - curIdx].upright
    BY <1>0, <2>1
  <2> QED
    BY <1>0, <2>1, <2>2, <2>3, <2>4
<1>10. CASE Render!Show
  <2>1. /\ renderPc = "show" /\ renderPc' = "movie" /\ pane' = 1 - curIdx
        /\ UNCHANGED <<scene, paneSize, pixbufs, want, rendered, curIdx, fboSize, shot>>
    BY <1>10 DEF Render!Show, Render!LastIdx
  <2>2. pane' # None /\ pane' \in {None, 0, 1}
    BY <1>0, <2>1 DEF RenderFits
  <2> QED
    BY <1>0, <2>1, <2>2
<1>11. CASE Render!Record
  BY <1>11 DEF Render!Record
<1>12. CASE UNCHANGED renderVars
  BY <1>12 DEF renderVars
<1> QED
  BY <1>1, <1>2, <1>3, <1>4, <1>5, <1>6, <1>7, <1>8, <1>9, <1>10, <1>11, <1>12
     DEF Render!Next, Render!RenderLoop

LEMMA RenderInvariant ==
  ASSUME RenderFits
  PROVE  Render!Init /\ [][Render!Next]_renderVars => []RenderInv
<1>1. Render!Init => RenderInv
  <2> HAVE Render!Init
  <2>1. [size |-> 0, shows |-> None, upright |-> TRUE]
          \in [size : Nat, shows : Nat \cup {None}, upright : BOOLEAN]
    <3>1. 0 \in Nat /\ None \in Nat \cup {None} /\ TRUE \in BOOLEAN
      OBVIOUS
    <3> QED
      BY <3>1, Zenon
  <2>2. pixbufs \in [0 .. 1 -> [size : Nat, shows : Nat \cup {None}, upright : BOOLEAN]]
    BY <2>1, Zenon DEF Render!Init
  <2>3. curIdx \in 0 .. 1 /\ scene \in Nat /\ paneSize \in Nat
    BY DEF Render!Init
  <2>4. /\ pane \in {None, 0, 1} /\ rendered \in BOOLEAN
        /\ renderPc \in {"top", "draw", "drawn", "flip", "show", "movie"}
    BY Zenon DEF Render!Init
  <2>5. RenderTypes
    BY <2>2, <2>3, <2>4, Zenon DEF RenderTypes
  <2> QED
    BY <2>5 DEF Render!Init, Render!NoShot, RenderInv, PaneIsLast, FirstIsDrawn, ShotIsLast
<1> QED
  BY <1>1, RenderStays, PTL

\* What the pane shows and a movie is given is a finished picture.
LEMMA ShownIsWhole ==
  ASSUME RenderFits
  PROVE  Render!Init /\ [][Render!Next]_renderVars => []Render!ShowsWhole
<1>1. RenderInv => Render!ShowsWhole
  BY DEF RenderInv, PaneIsLast, FirstIsDrawn, Shown, Render!ShowsWhole, Render!LastIdx
<1> QED
  BY <1>1, RenderInvariant, PTL

\* What a screenshot saves stays as it is.
LEMMA ShotStaysWhole ==
  ASSUME RenderFits
  PROVE  Render!Init /\ [][Render!Next]_renderVars
         => [][shot.buffer # None /\ shot.whole
                 => pixbufs'[shot.buffer] = pixbufs[shot.buffer]]_renderVars
<1>1. RenderInv /\ [Render!Next]_renderVars
      => [shot.buffer # None /\ shot.whole
            => pixbufs'[shot.buffer] = pixbufs[shot.buffer]]_renderVars
  <2> SUFFICES ASSUME RenderInv, Render!Next, shot.buffer # None, shot.whole
               PROVE  pixbufs'[shot.buffer] = pixbufs[shot.buffer]
    OBVIOUS
  <2>1. /\ renderPc \in {"top", "draw"} /\ shot.buffer = 1 - curIdx
        /\ 1 - curIdx \in 0 .. 1 /\ 1 - curIdx # curIdx
    BY OtherBuffer DEF RenderInv, RenderTypes, ShotIsLast
  <2>2. ~Render!Draw
    BY DEF Render!Draw, Render!NoShot
  <2>3. CASE Render!Prepare
    BY <2>1, <2>3 DEF Render!Prepare, RenderInv, RenderTypes
  <2>4. CASE UNCHANGED pixbufs
    BY <2>4
  <2> QED
    BY <2>1, <2>2, <2>3, <2>4
       DEF Render!Next, Render!RenderLoop, Render!Change, Render!Resize, Render!Expose,
           Render!BeginShot, Render!EndShot, Render!Swap, Render!Flip, Render!Show,
           Render!Record, Render!renderVars
<1> QED
  BY <1>1, RenderInvariant, PTL
-----------------------------------------------------------------------------
(* The console.                                                            *)

Typed == Letters \cup {Space, NoCharacter}

\* Keys that type are none of those that do something else, a space is no letter, and
\* the commands that were entered were typed.
ConsoleFits ==
  /\ Space \notin Letters
  /\ {Console!Shift, "escape", "tab", "enter", "backspace", "up", "down"} \cap Typed = {}
  /\ HistorySize \in Nat \ {0}
  /\ Entered \subseteq Seq(Seq(Typed))

\* The console's mutex is held for as long as a key is handled.
KeysHoldMutex ==
  /\ consolePc \in [Console!Threads -> {"idle", "draw", "add", "swap"}]
  /\ picture = [t \in Console!Threads |-> picture[t]]
  /\ consolePc["keys"] # "draw"
  /\ consolePc["keys"] # "idle" => consoleMutex # "nobody"

\* Unless a print met a key one thread at most is drawing, and what it composed, what it
\* added and what it showed is the console as it is.
OneDraws ==
  ~raced =>
    /\ consolePc["keys"] = "idle" \/ consolePc["program"] = "idle"
    /\ (\A t \in Console!Threads : consolePc[t] = "idle")
         => back = <<>> /\ consoleShown = <<Console!Picture>>
    /\ \A t \in Console!Threads :
         /\ consolePc[t] \in {"draw", "add"} => back = <<>>
         /\ consolePc[t] = "add" => picture[t] = Console!Picture
         /\ consolePc[t] = "swap" => back = <<Console!Picture>>

LEMMA DrawingStays ==
  ASSUME KeysHoldMutex, OneDraws, [Console!Next]_consoleVars
  PROVE  KeysHoldMutex' /\ OneDraws'
<1> USE DEF KeysHoldMutex, OneDraws
<1>0. Console!Threads = {"keys", "program"}
  BY DEF Console!Threads, Console!Keys, Console!Program
<1>1. ASSUME NEW key \in Console!KeyCodes, Console!PressKey(key)
      PROVE  KeysHoldMutex' /\ OneDraws'
  <2>1. /\ consolePc["keys"] = "idle" /\ ~raced
        /\ picture' = [picture EXCEPT !["keys"] = Console!Picture']
        /\ consolePc' = [consolePc EXCEPT !["keys"] = "add"]
        /\ consoleMutex' = "keys" /\ raced' = (consolePc["program"] # "idle")
        /\ UNCHANGED <<back, consoleShown>>
    BY <1>1 DEF Console!PressKey, Console!Keys, Console!Program
  <2> QED
    BY <1>0, <2>1
<1>2. CASE Console!ConsolePrint
  <2>1. /\ consolePc["program"] = "idle" /\ consoleMutex = "nobody"
        /\ consolePc' = [consolePc EXCEPT !["program"] = "draw"]
        /\ UNCHANGED <<consoleMutex, picture, back, consoleShown, raced>>
    BY <1>2 DEF Console!ConsolePrint, Console!Program, Console!Nobody
  <2> QED
    BY <1>0, <2>1
<1>3. ASSUME UNCHANGED Console!typed PROVE Console!Picture' = Console!Picture
  BY <1>3 DEF Console!typed, Console!Picture
<1>4. CASE Console!Compose
  <2>1. /\ consolePc["program"] = "draw" /\ Console!Picture' = Console!Picture
        /\ picture' = [picture EXCEPT !["program"] = Console!Picture]
        /\ consolePc' = [consolePc EXCEPT !["program"] = "add"]
        /\ raced' = (raced \/ consolePc["keys"] # "idle")
        /\ UNCHANGED <<consoleMutex, back, consoleShown>>
    BY <1>3, <1>4 DEF Console!Compose, Console!Keys, Console!Program
  <2> QED
    BY <1>0, <2>1
<1>5. ASSUME NEW t \in Console!Threads, Console!AddBack(t)
      PROVE  KeysHoldMutex' /\ OneDraws'
  <2>1. /\ consolePc[t] = "add" /\ Console!Picture' = Console!Picture
        /\ back' = Append(back, picture[t])
        /\ consolePc' = [consolePc EXCEPT ![t] = "swap"]
        /\ UNCHANGED <<picture, consoleMutex, consoleShown, raced>>
    BY <1>3, <1>5 DEF Console!AddBack
  <2>2. ASSUME NEW p PROVE Append(<<>>, p) = <<p>>
    OBVIOUS
  <2>3. ~raced => back' = Append(<<>>, Console!Picture)
    BY <2>1
  <2>4. ~raced => back' = <<Console!Picture>>
    BY <2>2, <2>3, Zenon
  <2> QED
    BY <1>0, <2>1, <2>4
<1>6. ASSUME NEW t \in Console!Threads, Console!Swap(t)
      PROVE  KeysHoldMutex' /\ OneDraws'
  <2>1. /\ consolePc[t] = "swap" /\ Console!Picture' = Console!Picture
        /\ back' = <<>> /\ consoleShown' = back
        /\ consolePc' = [consolePc EXCEPT ![t] = "idle"]
        /\ consoleMutex' = IF t = "keys" THEN "nobody" ELSE consoleMutex
        /\ UNCHANGED <<picture, raced>>
    BY <1>3, <1>6 DEF Console!Swap, Console!Left, Console!Keys, Console!Nobody
  <2> QED
    BY <1>0, <2>1
<1>7. CASE UNCHANGED consoleVars
  BY <1>7 DEF consoleVars, Console!Picture
<1> QED
  BY <1>1, <1>2, <1>4, <1>5, <1>6, <1>7 DEF Console!Next

\* When nothing is being drawn the screen shows the console as it is.
LEMMA ConsoleIsShown ==
  Console!Init /\ [][Console!Next]_consoleVars => []Console!ShowsConsole
<1>1. Console!Init => KeysHoldMutex /\ OneDraws
  BY DEF Console!Init, KeysHoldMutex, OneDraws, Console!Threads, Console!Keys,
         Console!Program, Console!Picture
<1>2. KeysHoldMutex /\ OneDraws => Console!ShowsConsole
  BY DEF OneDraws, Console!ShowsConsole
<1> QED
  BY <1>1, <1>2, DrawingStays, PTL

LEMMA TypedStays ==
  ASSUME NEW S, NEW s \in Seq(S), NEW n \in Nat, n <= Len(s)
  PROVE  SubSeq(s, 1, n) \in Seq(S) /\ Len(SubSeq(s, 1, n)) = n
OBVIOUS

LEMMA AddedStays ==
  ASSUME NEW S, NEW lines \in Seq(S), NEW line \in S, NEW max \in Nat \ {0}
  PROVE  Console!Added(lines, max, line) \in Seq(S)
<1>1. Len(lines) = max => lines # <<>>
  OBVIOUS
<1>2. lines # <<>> => Tail(lines) \in Seq(S)
  OBVIOUS
<1> QED
  BY <1>1, <1>2 DEF Console!Added

\* What is typed, and what UP and DOWN find.
LinesAreTyped ==
  /\ command \in Seq(Typed)
  /\ consoleList \in Seq(Seq(Typed))
  /\ selected \in Int /\ selected >= -1

\* Where a recalled line is on the screen and its place is known, it is the line entered.
LineIsRecalled ==
  recalled /\ selected < Len(consoleList) =>
    selected >= 0 /\ command = consoleList[Len(consoleList) - selected]

LEMMA CompletionsAreTyped ==
  ASSUME NEW c \in Console!Completions(command)
  PROVE  c \in Seq(Letters) /\ Len(c) >= 1
<1>1. PICK n \in 1 .. 2 : c \in [1 .. n -> Letters]
  BY DEF Console!Completions
<1> QED
  BY <1>1

\* A set of naturals has a least member, and one of bounded naturals a greatest.
LEMMA LeastNatural ==
  ASSUME NEW S \in SUBSET Nat, S # {}
  PROVE  \E x \in S : \A y \in S : x <= y
<1> DEFINE R == OpToRel(<, Nat)
<1>1. IsWellFoundedOn(R, Nat)
  BY NatLessThanWellFounded
<1>2. \A x, y \in Nat : <<y, x>> \in R <=> y < x
  BY DEF OpToRel
<1> HIDE DEF R
<1>3. PICK x \in S : \A y \in S : ~ (<<y, x>> \in R)
  BY <1>1, WFMin
<1>4. ASSUME NEW y \in S PROVE x <= y
  <2>1. x \in Nat /\ y \in Nat /\ ~(y < x)
    BY <1>2, <1>3
  <2> QED
    BY <2>1
<1> QED
  BY <1>4

LEMMA GreatestNatural ==
  ASSUME NEW m \in Nat, NEW S \in SUBSET (0 .. m), S # {}
  PROVE  \E x \in S : \A y \in S : y <= x
<1> DEFINE T == {m - x : x \in S}
<1>1. T \in SUBSET Nat /\ T # {}
  <2>1. \A x \in S : m - x \in Nat
    OBVIOUS
  <2>2. PICK x \in S : TRUE
    OBVIOUS
  <2>3. m - x \in T
    OBVIOUS
  <2> QED
    BY <2>1, <2>3
<1>2. PICK t \in T : \A u \in T : t <= u
  BY <1>1, LeastNatural
<1>3. PICK x \in S : t = m - x
  BY <1>2
<1>4. ASSUME NEW y \in S PROVE y <= x
  <2>1. x \in 0 .. m /\ y \in 0 .. m /\ m - x <= m - y
    BY <1>2, <1>3
  <2> QED
    BY <2>1
<1> QED
  BY <1>4

\* The part of a completion that has been typed, when there is one.
Overlaps(hay, needle, k) ==
  LET max == IF Len(needle) > Len(hay) THEN Len(hay) ELSE Len(needle)
  IN /\ k \in 0 .. max
     /\ max - k < Len(needle)
     /\ SubSeq(hay, Len(hay) - k + 1, Len(hay)) = SubSeq(needle, 1, k)

LEMMA OverlapIsLongest ==
  ASSUME NEW S, NEW hay \in Seq(S), NEW T, NEW needle \in Seq(T),
         NEW n, n = Console!Overlap(hay, needle)
  PROVE  \/ n = -1 /\ \A k : ~Overlaps(hay, needle, k)
         \/ Overlaps(hay, needle, n) /\ \A k : Overlaps(hay, needle, k) => k <= n
<1> DEFINE max == IF Len(needle) > Len(hay) THEN Len(hay) ELSE Len(needle)
           ks  == {k \in 0 .. max :
                     /\ max - k < Len(needle)
                     /\ SubSeq(hay, Len(hay) - k + 1, Len(hay)) = SubSeq(needle, 1, k)}
<1>1. \A k : k \in ks <=> Overlaps(hay, needle, k)
  BY DEF Overlaps
<1>2. n = IF ks = {} THEN -1 ELSE CHOOSE k \in ks : \A j \in ks : k >= j
  BY DEF Console!Overlap
<1>3. ASSUME ks # {} PROVE n \in ks /\ \A j \in ks : j <= n
  <2>1. max \in Nat /\ ks \in SUBSET (0 .. max)
    OBVIOUS
  <2>2. PICK x \in ks : \A j \in ks : j <= x
    BY <1>3, <2>1, GreatestNatural
  <2>3. \A j \in ks : x >= j
    BY <2>1, <2>2
  <2>4. n = CHOOSE k \in ks : \A j \in ks : k >= j
    BY <1>2, <1>3
  <2> HIDE DEF ks
  <2>5. n \in ks /\ \A j \in ks : n >= j
    BY <2>3, <2>4, Zenon
  <2> QED
    BY <2>1, <2>5
<1> HIDE DEF ks
<1> QED
  BY <1>1, <1>2, <1>3

\* Where the last token begins: after the last space.
LEMMA TokenFollowsSpace ==
  ASSUME NEW S, NEW line \in Seq(S), NEW t, t = Console!TokenAt(line)
  PROVE  /\ t \in 1 .. Len(line) + 1
         /\ t > 1 => line[t - 1] = Space
         /\ \A i \in t .. Len(line) : line[i] # Space
<1> DEFINE spaces == {i \in 1 .. Len(line) : line[i] = Space}
<1>1. t = IF spaces = {} THEN 1 ELSE 1 + CHOOSE i \in spaces : \A j \in spaces : j <= i
  BY DEF Console!TokenAt
<1>2. Len(line) \in Nat
  OBVIOUS
<1>3. CASE spaces = {}
  BY <1>1, <1>2, <1>3
<1>4. CASE spaces # {}
  <2>1. spaces \in SUBSET (0 .. Len(line))
    BY <1>2
  <2>2. PICK x \in spaces : \A j \in spaces : j <= x
    BY <1>2, <1>4, <2>1, GreatestNatural
  <2> DEFINE i == CHOOSE i \in spaces : \A j \in spaces : j <= i
  <2>3. i \in spaces /\ \A j \in spaces : j <= i
    BY <2>2, Zenon
  <2>4. t = 1 + i
    BY <1>1, <1>4
  <2> HIDE DEF i
  <2>5. i \in 1 .. Len(line) /\ line[i] = Space
    BY <2>3
  <2>6. ASSUME NEW k \in t .. Len(line) PROVE line[k] # Space
    <3>1. k \in 1 .. Len(line) /\ ~(k <= i)
      BY <1>2, <2>4, <2>5
    <3> QED
      BY <2>3, <3>1
  <2> QED
    BY <1>2, <2>4, <2>5, <2>6
<1> QED
  BY <1>3, <1>4

\* The last token is among the overlaps, unless a space was typed last.
LEMMA TokenOverlaps ==
  ASSUME ConsoleFits, command \in Seq(Typed), NEW c \in Console!Completions(command),
         command # <<>> => command[Len(command)] # Space
  PROVE  Overlaps(command, c, (Len(command) - Console!TokenAt(command)) + 1)
<1> DEFINE t == Console!TokenAt(command)
<1> DEFINE k == (Len(command) - t) + 1
<1>1. /\ t \in 1 .. Len(command) + 1
      /\ t > 1 => command[t - 1] = Space
  BY TokenFollowsSpace
<1>2. c \in Seq(Letters) /\ Len(c) >= 1
  BY CompletionsAreTyped
<1>3. Console!IsPrefix(SubSeq(command, t, Len(command)), c)
  BY DEF Console!Completions
<1> HIDE DEF t
<1>4. Len(command) \in Nat /\ k \in 0 .. Len(command) /\ Len(command) - k + 1 = t
  BY <1>1
<1>5. Len(SubSeq(command, t, Len(command))) = k
  BY <1>1
<1>6. k <= Len(c) /\ SubSeq(command, t, Len(command)) = SubSeq(c, 1, k)
  <2>1. SubSeq(SubSeq(command, t, Len(command)), 1, k) = SubSeq(command, t, Len(command))
    BY <1>1, <1>5
  <2> QED
    BY <1>3, <1>5, <2>1 DEF Console!IsPrefix
<1>7. command # <<>> => k >= 1
  BY <1>1
<1> HIDE DEF k
<1>8. Len(command) = 0 => command = <<>>
  OBVIOUS
<1> DEFINE max == IF Len(c) > Len(command) THEN Len(command) ELSE Len(c)
<1>9. k \in 0 .. max /\ max - k < Len(c)
  BY <1>2, <1>4, <1>6, <1>7, <1>8
<1>10. SubSeq(command, Len(command) - k + 1, Len(command)) = SubSeq(c, 1, k)
  BY <1>4, <1>6
<1>11. Overlaps(command, c, k)
  BY <1>9, <1>10 DEF Overlaps
<1> QED
  BY <1>11 DEF k, t

LEMMA RecallingStays ==
  ASSUME ConsoleFits, LinesAreTyped, LineIsRecalled, [Console!Next]_consoleVars
  PROVE  LinesAreTyped' /\ LineIsRecalled'
<1> DEFINE Goal == LinesAreTyped' /\ LineIsRecalled'
<1> USE DEF LinesAreTyped, LineIsRecalled
<1>1. CASE Console!Escape
  BY <1>1 DEF Console!Escape
<1>2. CASE Console!Tab
  <2>1. ASSUME NEW c \in Console!Completions(command), Console!Complete(c)
        PROVE  command' \in Seq(Typed) /\ (recalled' => recalled /\ command' = command)
    <3>1. PICK n : n = Console!Overlap(command, c)
      OBVIOUS
    <3>2. c \in Seq(Typed)
      BY CompletionsAreTyped DEF Typed
    <3>3. n \in Int /\ (n >= 0 => n <= Len(command))
      BY <3>1, <3>2, OverlapIsLongest DEF Overlaps
    <3>4. n >= 0 => SubSeq(command, 1, Len(command) - n) \o c \in Seq(Typed)
      BY <3>2, <3>3
    <3>5. CASE n < 0
      BY <2>1, <3>1, <3>5 DEF Console!Complete
    <3>6. CASE ~(n < 0)
      <4>1. /\ command' = SubSeq(command, 1, Len(command) - n) \o c
            /\ recalled' = (recalled /\ command' = command)
        BY <2>1, <3>1, <3>6 DEF Console!Complete
      <4>2. command' \in Seq(Typed)
        BY <3>3, <3>4, <3>6, <4>1
      <4> QED
        BY <4>1, <4>2, Zenon
    <3> QED
      BY <3>5, <3>6
  <2> QED
    BY <1>2, <2>1 DEF Console!Tab
<1>3. CASE Console!Enter
  <2>1. consoleList' \in Seq(Seq(Typed))
    BY <1>3, AddedStays DEF Console!Enter, ConsoleFits
  <2> QED
    BY <1>3, <2>1 DEF Console!Enter
<1>4. CASE Console!Backspace
  <2>1. command # <<>> => Console!Front(command) \in Seq(Typed)
    BY DEF Console!Front
  <2> QED
    BY <1>4, <2>1 DEF Console!Backspace
<1>5. CASE Console!Up
  <2>1. ASSUME selected + 1 < Len(consoleList)
        PROVE  consoleList[Len(consoleList) - (selected + 1)] \in Seq(Typed)
    <3>1. Len(consoleList) - (selected + 1) \in 1 .. Len(consoleList)
      BY <2>1
    <3> QED
      BY <3>1
  <2> QED
    BY <1>5, <2>1 DEF Console!Up, Console!Recall
<1>6. CASE Console!Down
  <2>1. ASSUME selected - 1 < Len(consoleList), selected - 1 >= 0
        PROVE  consoleList[Len(consoleList) - (selected - 1)] \in Seq(Typed)
    <3>1. Len(consoleList) - (selected - 1) \in 1 .. Len(consoleList)
      BY <2>1
    <3> QED
      BY <3>1
  <2>2. CASE selected - 1 < 0
    <3>1. /\ selected' = -1 /\ command' = <<>> /\ ~recalled'
          /\ UNCHANGED consoleList
      BY <1>6, <2>2 DEF Console!Down, Console!Below
    <3> QED
      BY <3>1
  <2>3. CASE ~(selected - 1 < 0) /\ selected - 1 >= Len(consoleList)
    BY <1>6, <2>3 DEF Console!Down
  <2>4. CASE ~(selected - 1 < 0) /\ ~(selected - 1 >= Len(consoleList))
    BY <1>6, <2>1, <2>4 DEF Console!Down, Console!Recall
  <2> QED
    BY <2>2, <2>3, <2>4
<1>7. ASSUME NEW letter \in Typed, Console!Type(letter) PROVE Goal
  BY <1>7 DEF Console!Type
<1>8. ASSUME NEW key \in Console!KeyCodes, Console!PressKey(key) PROVE Goal
  <2>1. Console!Handled(key)
    BY <1>8 DEF Console!PressKey
  <2>2. CASE UNCHANGED <<command, consoleList, selected, recalled>>
    BY <2>2
  <2> QED
    BY <1>1, <1>2, <1>3, <1>4, <1>5, <1>6, <1>7, <2>1, <2>2 DEF Console!Handled, Typed
<1>9. CASE UNCHANGED <<command, consoleList, selected, recalled>>
  BY <1>9
<1>10. CASE Console!ConsolePrint
  BY <1>9, <1>10 DEF Console!ConsolePrint
<1>11. CASE UNCHANGED Console!typed
  BY <1>9, <1>11 DEF Console!typed
<1>12. CASE UNCHANGED consoleVars
  BY <1>9, <1>12 DEF consoleVars
<1> QED
  BY <1>8, <1>10, <1>11, <1>12
     DEF Console!Next, Console!Compose, Console!AddBack, Console!Swap

\* UP and DOWN bring back what was entered.
LEMMA EnteredIsRecalled ==
  ASSUME ConsoleFits
  PROVE  Console!Init /\ [][Console!Next]_consoleVars
         => [](LinesAreTyped /\ Console!RecallsEntered)
<1>1. Console!Init => LinesAreTyped /\ LineIsRecalled
  <2> HAVE Console!Init
  <2>1. command = <<>> /\ consoleList \in Entered /\ selected = -1 /\ ~recalled
    BY DEF Console!Init
  <2>2. consoleList \in Seq(Seq(Typed))
    BY <2>1 DEF ConsoleFits
  <2>3. command \in Seq(Typed)
    BY <2>1
  <2> QED
    BY <2>1, <2>2, <2>3 DEF LinesAreTyped, LineIsRecalled
<1>2. LinesAreTyped /\ LineIsRecalled => Console!RecallsEntered
  BY DEF LinesAreTyped, LineIsRecalled, Console!RecallsEntered
<1> QED
  BY <1>1, <1>2, RecallingStays, PTL

\* Whatever is completed, other than after a space, has been begun on the line.
LEMMA AbortsAfterSpace ==
  ASSUME ConsoleFits, command \in Seq(Typed), NEW c \in Console!Completions(command),
         Console!Overlap(command, c) < 0
  PROVE  command # <<>> /\ command[Len(command)] = Space
<1>1. PICK n : n = Console!Overlap(command, c)
  OBVIOUS
<1>2. c \in Seq(Letters)
  BY CompletionsAreTyped
<1>3. \A k : ~Overlaps(command, c, k)
  <2>1. Overlaps(command, c, n) => n \in Nat
    BY <1>2 DEF Overlaps
  <2>2. ~Overlaps(command, c, n)
    BY <1>1, <2>1
  <2> QED
    BY <1>1, <1>2, <2>2, OverlapIsLongest
<1> QED
  BY <1>3, TokenOverlaps

LEMMA AbortingStays ==
  ASSUME ConsoleFits, LinesAreTyped, Console!AbortsOnlyThere, [Console!Next]_consoleVars
  PROVE  Console!AbortsOnlyThere'
<1> DEFINE Goal == Console!AbortsOnlyThere'
<1> USE DEF Console!AbortsOnlyThere
<1>1. CASE aborted = "no" /\ aborted' = "no"
  BY <1>1
<1>2. CASE aborted = "no" /\ Console!Tab
  <2>1. CASE UNCHANGED aborted
    BY <1>1, <1>2, <2>1
  <2>2. ASSUME NEW c \in Console!Completions(command), Console!Complete(c) PROVE Goal
    <3>1. CASE Console!Overlap(command, c) < 0
      <4>1. command # <<>> /\ command[Len(command)] = Space
        BY <3>1, AbortsAfterSpace DEF LinesAreTyped
      <4>2. aborted' = "tab" /\ command' = command
        BY <2>2, <3>1 DEF Console!Complete
      <4> QED
        BY <4>1, <4>2 DEF Console!Last
    <3>2. CASE ~(Console!Overlap(command, c) < 0)
      BY <1>2, <2>2, <3>2 DEF Console!Complete
    <3> QED
      BY <3>1, <3>2
  <2> QED
    BY <1>2, <2>1, <2>2 DEF Console!Tab
<1>3. CASE aborted = "no" /\ Console!Down
  <2>1. CASE aborted' = "no"
    BY <1>3, <2>1
  <2>2. CASE aborted' # "no"
    <3>1. ~(selected - 1 < 0) /\ selected - 1 >= Len(consoleList)
      BY <1>3, <2>2 DEF Console!Down, LinesAreTyped
    <3>2. selected' = selected - 1 /\ aborted' = "down" /\ consoleList' = consoleList
      BY <1>3, <3>1 DEF Console!Down
    <3> QED
      BY <3>1, <3>2
  <2> QED
    BY <2>1, <2>2
<1>4. ASSUME NEW key \in Console!KeyCodes, Console!PressKey(key) PROVE Goal
  <2>1. aborted = "no" /\ Console!Handled(key)
    BY <1>4 DEF Console!PressKey
  <2>2. CASE UNCHANGED aborted
    BY <1>1, <2>1, <2>2
  <2> QED
    BY <1>2, <1>3, <2>1, <2>2
       DEF Console!Handled, Console!Escape, Console!Enter, Console!Backspace, Console!Up,
           Console!Type
<1>5. CASE aborted = "no" /\ UNCHANGED aborted
  BY <1>1, <1>5
<1>6. CASE UNCHANGED consoleVars
  BY <1>6 DEF consoleVars, Console!Last
<1> QED
  BY <1>4, <1>5, <1>6
     DEF Console!Next, Console!ConsolePrint, Console!Compose, Console!AddBack, Console!Swap,
         Console!typed

\* The console aborts in two cases only.
LEMMA ConsoleAborts ==
  ASSUME ConsoleFits
  PROVE  Console!Init /\ [][Console!Next]_consoleVars => []Console!AbortsOnlyThere
<1>1. Console!Init => Console!AbortsOnlyThere
  BY DEF Console!Init, Console!AbortsOnlyThere
<1> QED
  BY <1>1, EnteredIsRecalled, AbortingStays, PTL

LEMMA InSuffix ==
  ASSUME NEW S, NEW s \in Seq(S), NEW a \in 0 .. Len(s), NEW i \in a + 1 .. Len(s)
  PROVE  i - a \in 1 .. Len(s) - a /\ SubSeq(s, a + 1, Len(s))[i - a] = s[i]
<1>1. /\ a \in Int /\ Len(s) \in Int /\ i \in Int
      /\ 0 <= a /\ a <= Len(s) /\ a + 1 <= i /\ i <= Len(s)
  OBVIOUS
<1>2. i - a \in 1 .. Len(s) - a
  BY <1>1
<1>3. PICK k : k = i - a
  OBVIOUS
<1>4. k \in 1 .. Len(s) - a /\ a + k = i
  BY <1>1, <1>2, <1>3
<1>5. SubSeq(s, a + 1, Len(s))[k] = s[a + k]
  BY <1>1, <1>4
<1> QED
  BY <1>2, <1>3, <1>4, <1>5

\* A word without a space that ends the line is no longer than its last token.
LEMMA OverlapIsToken ==
  ASSUME ConsoleFits, command \in Seq(Typed), NEW c \in Console!Completions(command),
         NEW n, n = Console!Overlap(command, c), n >= 0
  PROVE  n \in 0 .. Len(command) /\ Len(command) - n = Console!TokenAt(command) - 1
<1>1. PICK t : t = Console!TokenAt(command)
  OBVIOUS
<1>2. /\ t \in 1 .. Len(command) + 1
      /\ t > 1 => command[t - 1] = Space
      /\ \A i \in t .. Len(command) : command[i] # Space
  BY <1>1, TokenFollowsSpace
<1>3. c \in Seq(Letters) /\ Len(c) >= 1
  BY CompletionsAreTyped
<1>4. Overlaps(command, c, n) /\ \A k : Overlaps(command, c, k) => k <= n
  BY <1>3, OverlapIsLongest
<1>5. n \in 0 .. Len(command) /\ n <= Len(c)
  BY <1>3, <1>4 DEF Overlaps
<1>6. Len(command) \in Nat /\ Len(command) - n \in 0 .. Len(command)
  BY <1>5
<1> DEFINE a == Len(command) - n
<1>7. SubSeq(command, a + 1, Len(command)) = SubSeq(c, 1, n)
  BY <1>4 DEF Overlaps
<1>8. ASSUME NEW i \in 1 .. Len(command), i >= (Len(command) - n) + 1
      PROVE  command[i] # Space
  <2>1. PICK k : k = i - a
    OBVIOUS
  <2>2. PICK b : b = a
    OBVIOUS
  <2>3. b \in 0 .. Len(command) /\ i \in b + 1 .. Len(command) /\ n = Len(command) - b
    <3>1. /\ Len(command) \in Int /\ n \in Int /\ i \in Int /\ i <= Len(command)
          /\ b = Len(command) - n /\ i >= b + 1 /\ 0 <= n /\ n <= Len(command)
      BY <1>5, <1>6, <1>8, <2>2
    <3> QED
      BY <3>1
  <2>4. k \in 1 .. n /\ SubSeq(command, a + 1, Len(command))[k] = command[i]
    BY <2>1, <2>2, <2>3, InSuffix
  <2>5. SubSeq(c, 1, n)[k] \in Letters
    BY <1>3, <1>5, <2>4
  <2> QED
    BY <1>7, <2>4, <2>5 DEF ConsoleFits
<1>9. t - 1 <= Len(command) - n
  BY <1>2, <1>5, <1>6, <1>8
<1>10. Len(command) - n <= t - 1
  <2>1. CASE command # <<>> => command[Len(command)] # Space
    <3>1. (Len(command) - t) + 1 <= n
      BY <1>1, <1>4, <2>1, TokenOverlaps
    <3> QED
      BY <1>2, <1>5, <1>6, <3>1
  <2>2. CASE command # <<>> /\ command[Len(command)] = Space
    BY <1>2, <1>5, <1>6, <2>2
  <2> QED
    BY <2>1, <2>2
<1> QED
  BY <1>1, <1>2, <1>5, <1>6, <1>9, <1>10

\* A completion takes the place of the last token.
LEMMA TokenIsCompleted ==
  ASSUME ConsoleFits
  PROVE  Console!Init /\ [][Console!Next]_consoleVars
         => [][Console!PressKey("tab") /\ command' # command =>
                 \E c \in Console!Completions(command) :
                   command' = SubSeq(command, 1, Console!TokenAt(command) - 1) \o c]_consoleVars
<1>1. LinesAreTyped /\ [Console!Next]_consoleVars
      => [Console!PressKey("tab") /\ command' # command =>
            \E c \in Console!Completions(command) :
              command' = SubSeq(command, 1, Console!TokenAt(command) - 1) \o c]_consoleVars
  <2> SUFFICES ASSUME LinesAreTyped, Console!PressKey("tab"), command' # command
               PROVE  \E c \in Console!Completions(command) :
                        command' = SubSeq(command, 1, Console!TokenAt(command) - 1) \o c
    OBVIOUS
  <2>1. "tab" \notin Typed
    BY DEF ConsoleFits
  <2>2. Console!Tab
    BY <2>1 DEF Console!PressKey, Console!Handled, Console!Shift, Typed
  <2>3. PICK c \in Console!Completions(command) : Console!Complete(c)
    BY <2>2 DEF Console!Tab
  <2>4. PICK n : n = Console!Overlap(command, c)
    OBVIOUS
  <2>5. ~(n < 0) /\ command' = SubSeq(command, 1, Len(command) - n) \o c
    BY <2>3, <2>4 DEF Console!Complete
  <2>6. n >= 0
    <3>1. c \in Seq(Letters)
      BY CompletionsAreTyped
    <3>2. n = -1 \/ n >= 0
      BY <2>4, <3>1, OverlapIsLongest DEF LinesAreTyped, Overlaps
    <3> QED
      BY <2>5, <3>2
  <2>7. Len(command) - n = Console!TokenAt(command) - 1
    BY <2>4, <2>6, OverlapIsToken DEF LinesAreTyped
  <2> QED
    BY <2>5, <2>7
<1> QED
  BY <1>1, EnteredIsRecalled, PTL
-----------------------------------------------------------------------------
(* Cameras, and the mouse.                                                 *)

IsMap(f) == f = [x \in DOMAIN f |-> f[x]]

\* Layers are not removed; listeners were told of the frame before until the cameras of
\* this one are compared with it.
CamerasKnown ==
  /\ IsMap(layers) /\ IsMap(drawn) /\ IsMap(before)
  /\ DOMAIN before \subseteq DOMAIN drawn /\ DOMAIN drawn \subseteq DOMAIN layers
  /\ comparePc \in {"top", "compare"}
  /\ told = IF comparePc = "top" THEN drawn ELSE before

\* The layer pressed is the one under the last press, and it was drawn.
PressIsKept ==
  pressOver # 0 => pressedLayer = pressOver /\ pressOver \in DOMAIN drawn

LEMMA CamerasStay ==
  ASSUME CamerasKnown, [Events!Next]_eventVars
  PROVE  CamerasKnown' /\ DOMAIN drawn \subseteq DOMAIN drawn'
<1> DEFINE Goal == CamerasKnown' /\ DOMAIN drawn \subseteq DOMAIN drawn'
<1> USE DEF CamerasKnown, IsMap
<1>1. ASSUME NEW l \in Layers, Events!AddLayer(l) PROVE Goal
  BY <1>1 DEF Events!AddLayer
<1>2. ASSUME NEW l \in DOMAIN layers, Events!MoveCamera(l) PROVE Goal
  BY <1>2 DEF Events!MoveCamera
<1>3. CASE Events!Render
  BY <1>3 DEF Events!Render
<1>4. CASE Events!Compare
  <2>1. UNCHANGED <<layers, drawn, before>> /\ comparePc = "compare" /\ comparePc' = "top"
    BY <1>4 DEF Events!Compare
  <2>2. told = before
    BY <2>1
  <2> DEFINE D == DOMAIN before \cup {m \in DOMAIN drawn : Events!Moved(m)}
  <2>3. told' = [l \in D |->
                   IF l \in DOMAIN drawn /\ Events!Moved(l) THEN drawn[l] ELSE before[l]]
    BY <1>4, <2>2 DEF Events!Compare
  <2>4. D = DOMAIN drawn
    BY DEF Events!Moved
  <2>5. ASSUME NEW l \in DOMAIN drawn
        PROVE  drawn[l] = IF l \in DOMAIN drawn /\ Events!Moved(l) THEN drawn[l] ELSE before[l]
    BY DEF Events!Moved
  <2> HIDE DEF D
  <2>6. told' = [l \in DOMAIN drawn |-> drawn[l]]
    BY <2>3, <2>4, <2>5, Zenon
  <2> QED
    BY <2>1, <2>6
<1>5. ASSUME UNCHANGED <<layers, drawn, before, comparePc, told>> PROVE Goal
  BY <1>5
<1> QED
  BY <1>1, <1>2, <1>3, <1>4, <1>5
     DEF Events!Next, Events!Mouse, Events!Key, Events!cameraVars, eventVars

LEMMA PressStays ==
  ASSUME CamerasKnown, PressIsKept, Events!DragStays, Events!NeverCrashes,
         [Events!Next]_eventVars
  PROVE  PressIsKept' /\ Events!DragStays' /\ Events!NeverCrashes'
<1> DEFINE Goal == PressIsKept' /\ Events!DragStays' /\ Events!NeverCrashes'
<1> USE DEF PressIsKept, Events!DragStays, Events!NeverCrashes, Events!NoLayer
<1>1. ASSUME UNCHANGED <<lastButtons, pressedLayer, event, pressOver, crashed>>
      PROVE  Goal
  BY <1>1, CamerasStay
<1>2. CASE Events!Key
  BY <1>2 DEF Events!Key, Events!cameraVars
<1>3. ASSUME NEW over \in Layers \cup {0}, NEW b \in SUBSET Buttons, Events!Mouse(over, b)
      PROVE  Goal
  <2>1. /\ ~crashed /\ over \in DOMAIN drawn \cup {0}
        /\ lastButtons = None => b = {}
        /\ lastButtons' = b
        /\ pressOver' = IF b = {} THEN 0
                        ELSE IF lastButtons = None \/ b \ lastButtons # {} THEN over
                        ELSE pressOver
        /\ pressedLayer' = IF Events!Ignored(over) THEN pressedLayer
                           ELSE Events!Focus(over, b)
        /\ crashed' = (~Events!Ignored(over) /\ pressedLayer' \notin DOMAIN drawn)
        /\ event' = IF Events!Ignored(over) \/ crashed' THEN event
                    ELSE [type |-> "mouse", layer |-> pressedLayer', buttons |-> b]
        /\ drawn' = drawn
    BY <1>3 DEF Events!Mouse, Events!cameraVars
  <2>2. CASE Events!Ignored(over)
    <3>1. pressedLayer' = pressedLayer /\ event' = event /\ ~crashed'
      BY <2>1, <2>2
    <3>2. pressOver' # 0 => pressOver' = pressOver
      BY <2>1, <2>2 DEF Events!Ignored
    <3> QED
      BY <2>1, <3>1, <3>2
  <2>3. CASE ~Events!Ignored(over)
    <3>1. lastButtons # None /\ over \in DOMAIN drawn
      BY <2>1, <2>3 DEF Events!Ignored
    <3>2. CASE b = {} \/ Events!Clicked(lastButtons, b)
      <4>1. pressedLayer' = over
        BY <2>1, <2>3, <3>2 DEF Events!Focus
      <4>2. ~crashed' /\ event' = [type |-> "mouse", layer |-> over, buttons |-> b]
        BY <2>1, <2>3, <3>1, <4>1
      <4>3. pressOver' \in {0, over}
        BY <2>1, <3>1, <3>2 DEF Events!Clicked
      <4> QED
        BY <2>1, <3>1, <4>1, <4>2, <4>3
    <3>3. CASE b # {} /\ ~Events!Clicked(lastButtons, b)
      <4>1. pressedLayer' = pressedLayer /\ pressOver' = pressOver
        BY <2>1, <2>3, <3>1, <3>3 DEF Events!Focus, Events!Clicked
      <4>2. pressOver # 0 => ~crashed'
        BY <2>1, <4>1
      <4>3. ~crashed' => event' = [type |-> "mouse", layer |-> pressedLayer, buttons |-> b]
        BY <2>1, <2>3, <4>1
      <4> QED
        BY <2>1, <3>3, <4>1, <4>2, <4>3
    <3> QED
      BY <3>2, <3>3
  <2> QED
    BY <2>2, <2>3
<1> QED
  BY <1>1, <1>2, <1>3
     DEF Events!Next, Events!AddLayer, Events!MoveCamera, Events!Render, Events!Compare,
         Events!mouseVars, eventVars

\* Listeners know the cameras drawn last, a drag stays with its layer, and every event
\* finds a camera.
LEMMA EventsArePlaced ==
  Events!Init /\ [][Events!Next]_eventVars
  => [](Events!CamerasTold /\ Events!DragStays /\ Events!NeverCrashes)
<1>1. Events!Init => /\ CamerasKnown /\ PressIsKept
                     /\ Events!DragStays /\ Events!NeverCrashes
  BY DEF Events!Init, CamerasKnown, IsMap, PressIsKept, Events!DragStays,
         Events!NeverCrashes, Events!NoLayer
<1>2. CamerasKnown => Events!CamerasTold
  BY DEF CamerasKnown, Events!CamerasTold
<1> QED
  BY <1>1, <1>2, CamerasStay, PressStays, PTL

-----------------------------------------------------------------------------
(* Listeners.                                                              *)

\* What every listener was called with before the events that still wait.
Base == (queued - Len(queue)) - Len(batch)

\* The events that wait are the last that were made, in order.
EventsWait ==
  /\ queue \in Seq(Nat) /\ batch \in Seq(Nat) /\ queued \in Nat
  /\ Len(queue) + Len(batch) <= queued
  /\ \A i \in 1 .. Len(batch) : batch[i] = Base + i
  /\ \A i \in 1 .. Len(queue) : queue[i] = (Base + Len(batch)) + i
  /\ dispatchPc \in {"top", "batch", "calling"}
  /\ dispatchPc = "top" => batch = <<>>
  /\ dispatchPc = "calling" => batch # <<>>

LEMMA TailOf ==
  ASSUME NEW S, NEW s \in Seq(S), s # <<>>
  PROVE  /\ Tail(s) \in Seq(S) /\ Len(s) \in Nat /\ Len(s) >= 1
         /\ Len(Tail(s)) = Len(s) - 1 /\ Head(s) = s[1] /\ Head(s) \in S
         /\ \A i \in 1 .. Len(Tail(s)) : Tail(s)[i] = s[i + 1]
OBVIOUS

LEMMA WaitingStays ==
  ASSUME EventsWait, [Events!DispatchNext]_dispatchVars
  PROVE  /\ EventsWait'
         /\ Base' = IF Events!EndCalls THEN Base + 1 ELSE Base
<1> DEFINE Goal == EventsWait' /\ Base' = IF Events!EndCalls THEN Base + 1 ELSE Base
<1>0. /\ Len(queue) \in Nat /\ Len(batch) \in Nat /\ queued \in Nat
      /\ Base = (queued - Len(queue)) - Len(batch) /\ Base \in Nat
  BY DEF EventsWait, Base
<1>1. CASE Events!Dispatch
  <2>1. /\ queued' = queued + 1 /\ UNCHANGED <<batch, dispatchPc>>
        /\ ~Events!EndCalls
    BY <1>0, <1>1 DEF Events!Dispatch, Events!EndCalls
  <2>2. queue' = Append(queue, queued + 1)
    BY <1>1 DEF Events!Dispatch
  <2>3. /\ queue' \in Seq(Nat) /\ Len(queue') = Len(queue) + 1
        /\ \A i \in 1 .. Len(queue) : queue'[i] = queue[i]
        /\ queue'[Len(queue) + 1] = queued + 1
    BY <1>0, <2>2 DEF EventsWait
  <2>4. Base' = Base
    BY <1>0, <2>1, <2>3 DEF Base
  <2>5. ASSUME NEW i \in 1 .. Len(queue') PROVE queue'[i] = (Base + Len(batch)) + i
    <3>1. CASE i \in 1 .. Len(queue)
      BY <2>3, <3>1 DEF EventsWait
    <3>2. CASE i = Len(queue) + 1
      BY <1>0, <2>3, <3>2
    <3> QED
      BY <1>0, <2>3, <3>1, <3>2
  <2> QED
    BY <1>0, <2>1, <2>3, <2>4, <2>5 DEF EventsWait
<1>2. CASE Events!TakeEvents
  <2>1. /\ dispatchPc = "top" /\ dispatchPc' = "batch" /\ queue' = <<>> /\ batch = <<>>
        /\ batch' = batch \o queue /\ queued' = queued /\ ~Events!EndCalls
    BY <1>2 DEF Events!TakeEvents, Events!Taken, Events!Emptied, Events!EndCalls, EventsWait
  <2>2. batch' = queue /\ Len(batch) = 0
    BY <2>1 DEF EventsWait
  <2>3. Base' = Base
    BY <1>0, <2>1, <2>2 DEF Base
  <2>4. queue' \in Seq(Nat) /\ Len(queue') = 0
    BY <2>1
  <2>5. \A i \in 1 .. Len(batch') : batch'[i] = Base' + i
    <3>1. ASSUME NEW i \in 1 .. Len(queue) PROVE queue[i] = Base + i
      <4>1. queue[i] = (Base + Len(batch)) + i /\ Len(batch) = 0
        BY <2>2 DEF EventsWait
      <4> QED
        BY <1>0, <4>1
    <3> QED
      BY <2>2, <2>3, <3>1, Zenon
  <2> QED
    BY <1>0, <2>1, <2>2, <2>3, <2>4, <2>5 DEF EventsWait
<1>3. CASE Events!EndCalls
  <2>1. /\ dispatchPc = "calling" /\ dispatchPc' = "batch" /\ batch # <<>>
        /\ batch' = Tail(batch) /\ UNCHANGED <<queue, queued>>
    BY <1>3 DEF Events!EndCalls, EventsWait
  <2>2. PICK t : t = Tail(batch)
    OBVIOUS
  <2>3. /\ t \in Seq(Nat) /\ Len(t) = Len(batch) - 1 /\ Len(batch) >= 1
        /\ \A i \in 1 .. Len(t) : t[i] = batch[i + 1]
    BY <2>1, <2>2, TailOf DEF EventsWait
  <2>4. batch' = t
    BY <2>1, <2>2
  <2>5. Base' = Base + 1
    BY <1>0, <2>1, <2>3, <2>4 DEF Base
  <2>6. ASSUME NEW i \in 1 .. Len(t) PROVE t[i] = (Base + 1) + i
    <3>1. i + 1 \in 1 .. Len(batch)
      BY <1>0, <2>3
    <3>2. t[i] = Base + (i + 1)
      BY <2>3, <3>1 DEF EventsWait
    <3> QED
      BY <1>0, <3>2
  <2>7. \A i \in 1 .. Len(queue) : queue[i] = ((Base + 1) + Len(t)) + i
    BY <1>0, <2>3 DEF EventsWait
  <2> QED
    BY <1>0, <1>3, <2>1, <2>3, <2>4, <2>5, <2>6, <2>7 DEF EventsWait
<1>4. CASE Events!BeginCalls
  <2>1. UNCHANGED <<queue, batch, queued>> /\ ~Events!EndCalls
    BY <1>4 DEF Events!BeginCalls, Events!EndCalls
  <2>2. Base' = Base
    BY <2>1 DEF Base
  <2> QED
    BY <1>4, <2>1, <2>2 DEF EventsWait, Events!BeginCalls
<1>5. ASSUME UNCHANGED <<queue, batch, queued, dispatchPc>> PROVE Goal
  <2>1. Base' = Base
    BY <1>5 DEF Base
  <2>2. ~Events!EndCalls
    BY <1>5 DEF Events!EndCalls, EventsWait
  <2> QED
    BY <1>5, <2>1, <2>2 DEF EventsWait
<1> QED
  BY <1>1, <1>2, <1>3, <1>4, <1>5
     DEF Events!DispatchNext, Events!DispatchRun, Events!Call, Events!AddListener,
         Events!RemoveListener, dispatchVars

\* How many listeners have been called with the event that is handed on.
Called == IF dispatchPc = "calling" THEN Len(listeners) - Len(calling) ELSE 0

\* Who is still to be called are the last of the listeners, each of them listed once, and
\* the others were called with the first of the events that wait.
ListenersHear ==
  /\ listeners \in Seq(Listeners) /\ calling \in Seq(Listeners)
  /\ \A i, j \in 1 .. Len(listeners) : listeners[i] = listeners[j] => i = j
  /\ heard \in [Listeners -> Nat]
  /\ dispatchPc = "calling" =>
       /\ Len(calling) <= Len(listeners)
       /\ \A i \in 1 .. Len(calling) :
            calling[i] = listeners[(Len(listeners) - Len(calling)) + i]
  /\ \A i \in 1 .. Len(listeners) :
       heard[listeners[i]] = IF i <= Called THEN Base + 1 ELSE Base

LEMMA WithoutOne ==
  ASSUME NEW S, NEW s \in Seq(S), NEW i \in 1 .. Len(s)
  PROVE  /\ Events!RemoveAt(s, i) \in Seq(S) /\ Len(Events!RemoveAt(s, i)) = Len(s) - 1
         /\ \A j \in 1 .. Len(s) - 1 :
              Events!RemoveAt(s, i)[j] = IF j < i THEN s[j] ELSE s[j + 1]
<1>1. PICK a : a = SubSeq(s, 1, i - 1)
  OBVIOUS
<1>2. PICK b : b = SubSeq(s, i + 1, Len(s))
  OBVIOUS
<1>3. a \in Seq(S) /\ Len(a) = i - 1 /\ \A j \in 1 .. i - 1 : a[j] = s[j]
  BY <1>1
<1>4. b \in Seq(S) /\ Len(b) = Len(s) - i /\ \A j \in 1 .. Len(s) - i : b[j] = s[i + j]
  BY <1>2
<1>5. PICK c : c = a \o b
  OBVIOUS
<1>6. c \in Seq(S) /\ Len(c) = Len(s) - 1
  BY <1>3, <1>4, <1>5
<1>7. ASSUME NEW j \in 1 .. Len(s) - 1 PROVE c[j] = IF j < i THEN s[j] ELSE s[j + 1]
  <2>1. CASE j < i
    BY <1>3, <1>4, <1>5, <2>1
  <2>2. CASE ~(j < i)
    <3>1. j - (i - 1) \in 1 .. Len(s) - i /\ i + (j - (i - 1)) = j + 1
      BY <2>2
    <3>2. c[j] = b[j - (i - 1)]
      BY <1>3, <1>4, <1>5, <2>2
    <3> QED
      BY <1>4, <2>2, <3>1, <3>2
  <2> QED
    BY <2>1, <2>2
<1> QED
  BY <1>1, <1>2, <1>5, <1>6, <1>7 DEF Events!RemoveAt

LEMMA HearingStays ==
  ASSUME EventsWait, ListenersHear, [Events!DispatchNext]_dispatchVars
  PROVE  ListenersHear'
<1>0. /\ Len(listeners) \in Nat /\ Len(calling) \in Nat /\ Base \in Nat
      /\ Called \in 0 .. Len(listeners)
  BY DEF EventsWait, Base, ListenersHear, Called
<1>1. CASE Events!Dispatch \/ Events!TakeEvents
  <2>1. /\ UNCHANGED <<calling, listeners, heard>> /\ Base' = Base
        /\ dispatchPc = "calling" <=> dispatchPc' = "calling"
    BY <1>1, WaitingStays
       DEF Events!Dispatch, Events!TakeEvents, Events!EndCalls, Events!DispatchNext,
           Events!DispatchRun
  <2>2. Called' = Called
    BY <2>1 DEF Called
  <2> QED
    BY <2>1, <2>2 DEF ListenersHear
<1>2. CASE Events!BeginCalls
  <2>1. /\ UNCHANGED <<listeners, heard>> /\ dispatchPc = "batch" /\ Base' = Base
    BY <1>2, WaitingStays
       DEF Events!BeginCalls, Events!EndCalls, Events!DispatchNext, Events!DispatchRun
  <2>2. \/ dispatchPc' = "top" /\ calling' = calling
        \/ dispatchPc' = "calling" /\ calling' = listeners
    BY <1>2 DEF Events!BeginCalls
  <2>3. Called' = 0 /\ Called = 0
    BY <1>0, <2>1, <2>2 DEF Called
  <2> QED
    BY <1>0, <2>1, <2>2, <2>3 DEF ListenersHear
<1>3. CASE Events!Call
  <2>1. /\ dispatchPc = "calling" /\ dispatchPc' = "calling" /\ calling # <<>>
        /\ heard' = [heard EXCEPT ![Head(calling)] = Head(batch)]
        /\ calling' = Tail(calling) /\ UNCHANGED <<listeners, batch>> /\ Base' = Base
    BY <1>3, WaitingStays
       DEF Events!Call, Events!EndCalls, Events!DispatchNext, Events!DispatchRun
  <2>2. PICK t : t = Tail(calling)
    OBVIOUS
  <2>3. /\ t \in Seq(Listeners) /\ Len(calling) >= 1 /\ Len(t) = Len(calling) - 1
        /\ \A i \in 1 .. Len(t) : t[i] = calling[i + 1]
        /\ Head(calling) = calling[1]
    BY <2>1, <2>2, TailOf DEF ListenersHear
  <2>4. Head(batch) = Base + 1
    <3>1. batch # <<>> /\ batch \in Seq(Nat)
      BY <2>1 DEF EventsWait
    <3>2. Head(batch) = batch[1] /\ 1 \in 1 .. Len(batch)
      BY <3>1, TailOf
    <3> QED
      BY <3>2 DEF EventsWait
  <2>5. Called' = Called + 1 /\ Called + 1 \in 1 .. Len(listeners)
    BY <1>0, <2>1, <2>2, <2>3 DEF Called
  <2>6. Head(calling) = listeners[Called + 1]
    BY <1>0, <2>1, <2>3 DEF Called, ListenersHear
  <2>7. heard' \in [Listeners -> Nat]
    BY <1>0, <2>1, <2>4 DEF ListenersHear
  <2>8. ASSUME NEW i \in 1 .. Len(listeners)
        PROVE  heard'[listeners[i]] = IF i <= Called + 1 THEN Base + 1 ELSE Base
    <3>1. listeners[i] \in Listeners
      BY DEF ListenersHear
    <3>2. CASE i = Called + 1
      BY <1>0, <2>1, <2>4, <2>6, <3>1, <3>2 DEF ListenersHear
    <3>3. CASE i # Called + 1
      <4>1. listeners[i] # Head(calling)
        BY <2>5, <2>6, <3>3 DEF ListenersHear
      <4>2. heard'[listeners[i]] = heard[listeners[i]]
        BY <2>1, <3>1, <4>1 DEF ListenersHear
      <4>3. i <= Called + 1 <=> i <= Called
        BY <1>0, <3>3
      <4> QED
        BY <4>2, <4>3 DEF ListenersHear
    <3> QED
      BY <3>2, <3>3
  <2>9. ASSUME NEW i \in 1 .. Len(t)
        PROVE  t[i] = listeners[(Len(listeners) - Len(t)) + i]
    <3>1. i + 1 \in 1 .. Len(calling)
      BY <1>0, <2>3
    <3>2. t[i] = listeners[(Len(listeners) - Len(calling)) + (i + 1)]
      BY <2>1, <2>3, <3>1 DEF ListenersHear
    <3>3. (Len(listeners) - Len(calling)) + (i + 1) = (Len(listeners) - Len(t)) + i
      BY <1>0, <2>3
    <3> QED
      BY <3>2, <3>3
  <2>10. calling' = t
    BY <2>1, <2>2
  <2>11. Len(t) <= Len(listeners)
    BY <1>0, <2>1, <2>3 DEF ListenersHear
  <2> QED
    BY <2>1, <2>3, <2>5, <2>7, <2>8, <2>9, <2>10, <2>11 DEF ListenersHear
<1>4. CASE Events!EndCalls
  <2>1. /\ UNCHANGED <<calling, listeners, heard>> /\ Base' = Base + 1
        /\ dispatchPc = "calling" /\ dispatchPc' = "batch" /\ calling = <<>>
    BY <1>4, WaitingStays DEF Events!EndCalls, Events!DispatchNext, Events!DispatchRun
  <2>2. Called' = 0 /\ Called = Len(listeners)
    <3>1. Len(calling) = 0
      BY <2>1
    <3> QED
      BY <1>0, <2>1, <3>1 DEF Called
  <2> QED
    BY <1>0, <2>1, <2>2 DEF ListenersHear
<1>5. ASSUME NEW l \in Listeners, Events!AddListener(l) PROVE ListenersHear'
  <2>1. /\ dispatchPc # "calling" /\ dispatchPc' = dispatchPc /\ calling' = calling
        /\ ~Events!Contains(listeners, l)
        /\ listeners' = Append(listeners, l)
        /\ heard' = [heard EXCEPT ![l] = Base] /\ Base' = Base
    BY <1>5, WaitingStays
       DEF Events!AddListener, Events!MayChangeListeners, Events!EndCalls,
           Events!DispatchNext, Base
  <2>2. PICK s : s = Append(listeners, l)
    OBVIOUS
  <2>3. /\ s \in Seq(Listeners) /\ Len(s) = Len(listeners) + 1 /\ s[Len(listeners) + 1] = l
        /\ \A i \in 1 .. Len(listeners) : s[i] = listeners[i]
    BY <2>2 DEF ListenersHear
  <2>4. \A i \in 1 .. Len(listeners) : listeners[i] # l
    BY <2>1 DEF Events!Contains
  <2>5. \A i \in 1 .. Len(s) : i \in 1 .. Len(listeners) \/ i = Len(listeners) + 1
    BY <1>0, <2>3
  <2>6. ASSUME NEW i \in 1 .. Len(s), NEW j \in 1 .. Len(s), s[i] = s[j] PROVE i = j
    <3>1. CASE i \in 1 .. Len(listeners) /\ j \in 1 .. Len(listeners)
      BY <2>3, <2>6, <3>1 DEF ListenersHear
    <3>2. CASE i = Len(listeners) + 1 \/ j = Len(listeners) + 1
      BY <2>3, <2>4, <2>5, <2>6, <3>2
    <3> QED
      BY <2>5, <3>1, <3>2
  <2>7. Called' = 0 /\ Called = 0
    BY <2>1 DEF Called
  <2>8. heard' \in [Listeners -> Nat]
    BY <1>0, <2>1 DEF ListenersHear
  <2>9. ASSUME NEW i \in 1 .. Len(s) PROVE heard'[s[i]] = Base
    <3>1. CASE i = Len(listeners) + 1
      BY <2>1, <2>3, <3>1 DEF ListenersHear
    <3>2. CASE i \in 1 .. Len(listeners)
      <4>1. s[i] = listeners[i] /\ s[i] # l /\ s[i] \in Listeners
        BY <2>3, <2>4, <3>2 DEF ListenersHear
      <4>2. heard[s[i]] = Base
        BY <1>0, <2>7, <3>2, <4>1 DEF ListenersHear
      <4> QED
        BY <2>1, <4>1, <4>2 DEF ListenersHear
    <3> QED
      BY <2>5, <3>1, <3>2
  <2>10. listeners' = s
    BY <2>1, <2>2
  <2>11. \A i \in 1 .. Len(s) : ~(i <= 0)
    OBVIOUS
  <2> QED
    BY <2>1, <2>3, <2>6, <2>7, <2>8, <2>9, <2>10, <2>11 DEF ListenersHear
<1>6. ASSUME NEW i \in 1 .. Len(listeners), Events!RemoveListener(i) PROVE ListenersHear'
  <2>1. /\ dispatchPc # "calling" /\ dispatchPc' = dispatchPc /\ UNCHANGED <<calling, heard>>
        /\ listeners' = Events!RemoveAt(listeners, i) /\ Base' = Base
    BY <1>6, WaitingStays
       DEF Events!RemoveListener, Events!MayChangeListeners, Events!EndCalls,
           Events!DispatchNext
  <2>2. PICK s : s = Events!RemoveAt(listeners, i)
    OBVIOUS
  <2>3. /\ s \in Seq(Listeners) /\ Len(s) = Len(listeners) - 1
        /\ \A j \in 1 .. Len(listeners) - 1 :
             s[j] = IF j < i THEN listeners[j] ELSE listeners[j + 1]
    BY <2>2, WithoutOne DEF ListenersHear
  <2>4. ASSUME NEW j \in 1 .. Len(s)
        PROVE  \E k \in 1 .. Len(listeners) :
                 s[j] = listeners[k] /\ k = IF j < i THEN j ELSE j + 1
    BY <1>0, <2>3
  <2>5. \A j, k \in 1 .. Len(s) : s[j] = s[k] => j = k
    <3>1. SUFFICES ASSUME NEW j \in 1 .. Len(s), NEW k \in 1 .. Len(s), s[j] = s[k]
                   PROVE  j = k
      OBVIOUS
    <3>2. PICK a \in 1 .. Len(listeners) : s[j] = listeners[a] /\ a = IF j < i THEN j ELSE j + 1
      BY <2>4
    <3>3. PICK b \in 1 .. Len(listeners) : s[k] = listeners[b] /\ b = IF k < i THEN k ELSE k + 1
      BY <2>4
    <3>4. a = b
      BY <3>1, <3>2, <3>3 DEF ListenersHear
    <3> QED
      BY <3>2, <3>3, <3>4
  <2>6. Called' = 0 /\ Called = 0
    BY <2>1 DEF Called
  <2>7. ASSUME NEW j \in 1 .. Len(s) PROVE heard[s[j]] = Base
    <3>1. PICK k \in 1 .. Len(listeners) : s[j] = listeners[k]
      BY <2>4
    <3> QED
      BY <1>0, <2>6, <3>1 DEF ListenersHear
  <2>8. listeners' = s
    BY <2>1, <2>2
  <2>9. \A j \in 1 .. Len(s) : ~(j <= 0)
    OBVIOUS
  <2> QED
    BY <2>1, <2>3, <2>5, <2>6, <2>7, <2>8, <2>9 DEF ListenersHear
<1>7. CASE UNCHANGED dispatchVars
  BY <1>7 DEF dispatchVars, ListenersHear, Called, Base
<1> QED
  BY <1>1, <1>2, <1>3, <1>4, <1>5, <1>6, <1>7 DEF Events!DispatchNext, Events!DispatchRun

\* Each listener hears the events one after the other.
LEMMA HeardInOrder ==
  Events!DispatchInit /\ [][Events!DispatchNext]_dispatchVars
  => [][\A l \in Listeners :
          dispatchPc = "calling" /\ calling # <<>> /\ Head(calling) = l
            /\ calling' = Tail(calling)
          => Events!Contains(listeners, l) /\ Head(batch) = heard[l] + 1]_dispatchVars
<1>1. Events!DispatchInit => EventsWait /\ ListenersHear
  <2> HAVE Events!DispatchInit
  <2>1. /\ queue = <<>> /\ batch = <<>> /\ calling = <<>> /\ listeners = <<>>
        /\ dispatchPc = "top" /\ queued = 0 /\ heard = [l \in Listeners |-> 0]
    BY DEF Events!DispatchInit
  <2>2. <<>> \in Seq(Nat) /\ <<>> \in Seq(Listeners)
    OBVIOUS
  <2>3. PICK e \in Seq(Nat) : e = <<>>
    BY <2>2
  <2>4. PICK n \in Seq(Listeners) : n = <<>>
    BY <2>2
  <2>5. e \in Seq(Nat) /\ e \in Seq(Listeners) /\ Len(e) = 0 /\ e = <<>>
    BY <2>3, <2>4
  <2> QED
    BY <2>1, <2>3, <2>5 DEF EventsWait, ListenersHear, Called, Base
<1>2. EventsWait /\ ListenersHear
      => \A l \in Listeners :
           dispatchPc = "calling" /\ calling # <<>> /\ Head(calling) = l
           => Events!Contains(listeners, l) /\ Head(batch) = heard[l] + 1
  <2> SUFFICES ASSUME EventsWait, ListenersHear, dispatchPc = "calling", calling # <<>>
               PROVE  /\ Events!Contains(listeners, Head(calling))
                      /\ Head(batch) = heard[Head(calling)] + 1
    OBVIOUS
  <2>0. Len(listeners) \in Nat /\ Len(calling) \in Nat /\ Len(calling) <= Len(listeners)
    BY DEF ListenersHear
  <2>1. PICK n \in Nat : n = Len(listeners) - Len(calling)
    <3>1. Len(listeners) - Len(calling) \in Nat
      BY <2>0
    <3> QED
      BY <3>1
  <2>2. Called = n /\ n + 1 \in 1 .. Len(listeners)
    BY <2>1, TailOf DEF Called, ListenersHear
  <2>3. Head(calling) = listeners[n + 1]
    BY <2>1, TailOf DEF ListenersHear
  <2>4. heard[Head(calling)] = Base
    BY <2>2, <2>3 DEF ListenersHear
  <2>5. Head(batch) = Base + 1
    BY TailOf DEF EventsWait
  <2> QED
    BY <2>2, <2>3, <2>4, <2>5 DEF Events!Contains
<1>3. EventsWait /\ ListenersHear
      => [\A l \in Listeners :
            dispatchPc = "calling" /\ calling # <<>> /\ Head(calling) = l
              /\ calling' = Tail(calling)
            => Events!Contains(listeners, l) /\ Head(batch) = heard[l] + 1]_dispatchVars
  BY <1>2
<1>4. EventsWait /\ ListenersHear /\ [Events!DispatchNext]_dispatchVars
      => EventsWait' /\ ListenersHear'
  BY WaitingStays, HearingStays
<1> QED
  BY <1>1, <1>3, <1>4, PTL
-----------------------------------------------------------------------------
(* A layer's handlers, the buttons and the display.                        *)

InputFits == OrderOf \in [Handlers -> Int]

\* Handlers stay in order, and those that had the event that is offered did not want it.
OfferedInOrder ==
  /\ handlers \in Seq(Handlers)
  /\ \A i, j \in 1 .. Len(handlers) : i < j => OrderOf[handlers[i]] <= OrderOf[handlers[j]]
  /\ offered \in 0 .. Len(handlers)
  /\ offer # Input!NoEvent =>
       taken = Input!Absent /\ \A i \in 1 .. offered : handlers[i] \notin offer.wanted
  /\ offer = Input!NoEvent => offered = 0

ButtonsKnown == sure => buttons = held

LEMMA EventIsMade ==
  ASSUME NEW type, NEW down, Input!Dispatch(type, down)
  PROVE  /\ offer = Input!NoEvent /\ offered' = 0 /\ taken' = Input!Absent
         /\ UNCHANGED <<handlers, display, drawOrder, known>>
         /\ offer' # Input!NoEvent => offer'.type = type /\ offer'.mask = down
BY DEF Input!Dispatch, Input!layerVars

LEMMA InputStays ==
  ASSUME InputFits, OfferedInOrder, ButtonsKnown, Input!DisplayKnowsLayer,
         [Input!Next]_inputVars
  PROVE  OfferedInOrder' /\ ButtonsKnown' /\ Input!DisplayKnowsLayer'
<1> DEFINE Goal == OfferedInOrder' /\ ButtonsKnown' /\ Input!DisplayKnowsLayer'
<1> USE DEF ButtonsKnown, Input!DisplayKnowsLayer
<1>1. ASSUME NEW type, NEW down, Input!Dispatch(type, down)
      PROVE  OfferedInOrder' /\ Input!DisplayKnowsLayer'
  <2>1. /\ offered' = 0 /\ taken' = Input!Absent /\ 0 \in 0 .. Len(handlers)
        /\ UNCHANGED <<handlers, display, drawOrder, known>>
    BY <1>1, EventIsMade DEF OfferedInOrder
  <2>2. \A i : i \notin 1 .. 0
    OBVIOUS
  <2> QED
    BY <2>1, <2>2 DEF OfferedInOrder
<1>2. ASSUME UNCHANGED <<handlers, offer, offered, taken>> PROVE OfferedInOrder'
  BY <1>2 DEF OfferedInOrder
<1>3. ASSUME UNCHANGED <<display, drawOrder, known>> PROVE Input!DisplayKnowsLayer'
  BY <1>3
<1>4. ASSUME NEW b \in Buttons, NEW c \in BOOLEAN, Input!Press(b, c) PROVE Goal
  <2>1. ButtonsKnown'
    BY <1>4 DEF Input!Press
  <2> QED
    BY <1>1, <1>2, <1>3, <1>4, <2>1 DEF Input!Press, Input!offerVars, Input!layerVars
<1>5. ASSUME NEW b \in Buttons, Input!Release(b) PROVE Goal
  BY <1>1, <1>5 DEF Input!Release
<1>6. ASSUME NEW b \in Buttons, Input!ReleaseOnMenu(b) PROVE Goal
  BY <1>2, <1>3, <1>6 DEF Input!ReleaseOnMenu, Input!offerVars, Input!layerVars
<1>7. CASE Input!CloseMenu
  BY <1>2, <1>3, <1>7 DEF Input!CloseMenu, Input!offerVars, Input!layerVars
<1>8. CASE Input!Move
  BY <1>1, <1>8 DEF Input!Move, Input!MaskFrom
<1>9. CASE Input!Scroll \/ Input!Key
  BY <1>1, <1>9 DEF Input!Scroll, Input!Key, Input!mouseVars
<1>10. CASE Input!Offer
  <2>1. /\ offer # Input!NoEvent /\ offered < Len(handlers)
        /\ UNCHANGED <<buttons, held, sure, handlers, display, drawOrder, known>>
    BY <1>10 DEF Input!Offer, Input!mouseVars, Input!layerVars
  <2>2. CASE handlers[offered + 1] \in offer.wanted
    <3>1. offer' = Input!NoEvent /\ offered' = 0
      BY <1>10, <2>2 DEF Input!Offer, Input!Refused
    <3> QED
      BY <2>1, <3>1 DEF OfferedInOrder
  <2>3. CASE handlers[offered + 1] \notin offer.wanted
    <3>1. offer' = offer /\ taken' = taken /\ offered' = offered + 1
      BY <1>10, <2>3 DEF Input!Offer, Input!Refused
    <3>2. offered + 1 \in 0 .. Len(handlers)
      BY <2>1 DEF OfferedInOrder
    <3>3. ASSUME NEW i \in 1 .. offered + 1 PROVE handlers[i] \notin offer.wanted
      BY <2>1, <2>3 DEF OfferedInOrder
    <3> QED
      BY <2>1, <3>1, <3>2, <3>3 DEF OfferedInOrder
  <2> QED
    BY <2>2, <2>3
<1>11. CASE Input!EndOffer
  BY <1>11 DEF Input!EndOffer, Input!mouseVars, Input!layerVars, OfferedInOrder
<1>12. ASSUME NEW h \in Handlers, Input!AddEventHandler(h) PROVE Goal
  <2>1. /\ offer = Input!NoEvent /\ handlers' \in Input!Orders(Append(handlers, h))
        /\ UNCHANGED <<buttons, held, sure, display, drawOrder, known, offer, offered>>
    BY <1>12 DEF Input!AddEventHandler, Input!mouseVars, Input!layerVars, Input!offerVars
  <2>2. Append(handlers, h) \in Seq(Handlers)
    BY DEF OfferedInOrder
  <2>3. PICK hs \in Seq(Handlers) : hs = Append(handlers, h)
    BY <2>2
  <2>4. PICK f \in [1 .. Len(hs) -> 1 .. Len(hs)] : handlers' = [i \in 1 .. Len(hs) |-> hs[f[i]]]
    BY <2>1, <2>3 DEF Input!Orders
  <2>5. \A i \in 1 .. Len(hs) : hs[f[i]] \in Handlers
    OBVIOUS
  <2>6. handlers' \in Seq(Handlers) /\ Len(handlers') = Len(hs)
    BY <2>4, <2>5
  <2>7. \A i, j \in 1 .. Len(hs) : i < j => OrderOf[handlers'[i]] <= OrderOf[handlers'[j]]
    BY <2>1, <2>3 DEF Input!Orders
  <2>8. offered = 0 /\ offered' = 0
    BY <2>1 DEF OfferedInOrder
  <2> QED
    BY <2>1, <2>6, <2>7, <2>8 DEF OfferedInOrder
<1>13. CASE Input!SetDisplay \/ Input!UnsetDisplay \/ Input!SetDrawOrder
  <2>1. UNCHANGED <<buttons, held, sure, handlers, offer, offered, taken>>
    BY <1>13 DEF Input!SetDisplay, Input!UnsetDisplay, Input!SetDrawOrder, Input!mouseVars,
                 Input!offerVars
  <2>2. Input!DisplayKnowsLayer'
    BY <1>13 DEF Input!SetDisplay, Input!UnsetDisplay, Input!SetDrawOrder, Input!Known
  <2> QED
    BY <1>2, <2>1, <2>2
<1>14. CASE UNCHANGED inputVars
  BY <1>2, <1>3, <1>14 DEF inputVars
<1> QED
  BY <1>4, <1>5, <1>6, <1>7, <1>8, <1>9, <1>10, <1>11, <1>12, <1>13, <1>14
     DEF Input!Next

LEMMA InputInvariant ==
  ASSUME InputFits
  PROVE  Input!Init /\ [][Input!Next]_inputVars
         => [](OfferedInOrder /\ ButtonsKnown /\ Input!DisplayKnowsLayer)
<1>1. Input!Init => OfferedInOrder /\ ButtonsKnown /\ Input!DisplayKnowsLayer
  <2> HAVE Input!Init
  <2>1. /\ handlers = <<>> /\ offer = Input!NoEvent /\ offered = 0 /\ display = Input!Absent
        /\ held = {} /\ buttons = {}
    BY DEF Input!Init
  <2>2. <<>> \in Seq(Handlers)
    OBVIOUS
  <2>3. PICK e \in Seq(Handlers) : e = <<>>
    BY <2>2
  <2>4. e \in Seq(Handlers) /\ Len(e) = 0 /\ e = <<>>
    BY <2>3
  <2> QED
    BY <2>1, <2>4 DEF OfferedInOrder, ButtonsKnown, Input!DisplayKnowsLayer
<1> QED
  BY <1>1, InputStays, PTL

\* The first of the handlers that want an event has it.
LEMMA FirstHasIt ==
  ASSUME InputFits
  PROVE  Input!Init /\ [][Input!Next]_inputVars
         => [][offer # Input!NoEvent /\ offer' = Input!NoEvent =>
                 LET wanting == offer.wanted \cap Input!ToSet(handlers)
                 IN IF wanting = {} THEN taken' = Input!Absent
                    ELSE taken' \in wanting
                           /\ \A h \in wanting : OrderOf[taken'] <= OrderOf[h]]_inputVars
<1>1. OfferedInOrder /\ [Input!Next]_inputVars
      => [offer # Input!NoEvent /\ offer' = Input!NoEvent =>
            LET wanting == offer.wanted \cap Input!ToSet(handlers)
            IN IF wanting = {} THEN taken' = Input!Absent
               ELSE taken' \in wanting
                      /\ \A h \in wanting : OrderOf[taken'] <= OrderOf[h]]_inputVars
  <2> DEFINE wanting == offer.wanted \cap Input!ToSet(handlers)
  <2> SUFFICES ASSUME OfferedInOrder, Input!Next, offer # Input!NoEvent,
                      offer' = Input!NoEvent
               PROVE  IF wanting = {} THEN taken' = Input!Absent
                      ELSE taken' \in wanting /\ \A h \in wanting : OrderOf[taken'] <= OrderOf[h]
    OBVIOUS
  <2>1. Input!Offer \/ Input!EndOffer
    BY DEF Input!Next, Input!Press, Input!Release, Input!ReleaseOnMenu, Input!CloseMenu,
           Input!Move, Input!Scroll, Input!Key, Input!Dispatch, Input!AddEventHandler,
           Input!SetDisplay, Input!UnsetDisplay, Input!SetDrawOrder, Input!offerVars
  <2>2. Input!ToSet(handlers) = {handlers[i] : i \in 1 .. Len(handlers)}
    BY DEF Input!ToSet, OfferedInOrder
  <2>3. CASE Input!Offer
    <3>1. /\ offered < Len(handlers) /\ handlers[offered + 1] \in offer.wanted
          /\ taken' = handlers[offered + 1]
      BY <2>3 DEF Input!Offer, Input!Refused
    <3>2. offered + 1 \in 1 .. Len(handlers)
      BY <3>1 DEF OfferedInOrder
    <3>3. taken' \in wanting
      BY <2>2, <3>1, <3>2
    <3>4. ASSUME NEW h \in wanting PROVE OrderOf[taken'] <= OrderOf[h]
      <4>1. PICK i \in 1 .. Len(handlers) : h = handlers[i]
        BY <2>2
      <4>2. i > offered
        BY <4>1 DEF OfferedInOrder
      <4>3. OrderOf[handlers[offered + 1]] \in Int
        BY <3>2 DEF OfferedInOrder, InputFits
      <4> QED
        BY <3>1, <3>2, <4>1, <4>2, <4>3 DEF OfferedInOrder
    <3> QED
      BY <3>3, <3>4
  <2>4. CASE Input!EndOffer
    <3>1. wanting = {}
      BY <2>2, <2>4 DEF Input!EndOffer, OfferedInOrder
    <3> QED
      BY <2>4, <3>1 DEF Input!EndOffer, OfferedInOrder
  <2> QED
    BY <2>1, <2>3, <2>4
<1> QED
  BY <1>1, InputInvariant, PTL

\* Events have the buttons that are down.
LEMMA ButtonsOfEvents ==
  ASSUME InputFits
  PROVE  Input!Init /\ [][Input!Next]_inputVars
         => [][offer = Input!NoEvent /\ offer' # Input!NoEvent /\ offer'.type # "key" /\ sure'
                 => offer'.mask = held']_inputVars
<1>1. ButtonsKnown /\ [Input!Next]_inputVars
      => [offer = Input!NoEvent /\ offer' # Input!NoEvent /\ offer'.type # "key" /\ sure'
            => offer'.mask = held']_inputVars
  <2> SUFFICES ASSUME ButtonsKnown, Input!Next, offer = Input!NoEvent,
                      offer' # Input!NoEvent, offer'.type # "key", sure'
               PROVE  offer'.mask = held'
    OBVIOUS
  <2>1. ~Input!Key
    BY EventIsMade DEF Input!Key
  <2>2. \/ \E b \in Buttons : (\E c \in BOOLEAN : Input!Press(b, c)) \/ Input!Release(b)
        \/ Input!Move \/ Input!Scroll
    BY <2>1
       DEF Input!Next, Input!ReleaseOnMenu, Input!CloseMenu, Input!Offer, Input!EndOffer,
           Input!AddEventHandler, Input!SetDisplay, Input!UnsetDisplay, Input!SetDrawOrder,
           Input!offerVars
  <2>3. ASSUME NEW b \in Buttons, NEW c \in BOOLEAN, Input!Press(b, c)
        PROVE  offer'.mask = held'
    BY <2>3, EventIsMade DEF Input!Press, Input!offerVars, ButtonsKnown
  <2>4. ASSUME NEW b \in Buttons, Input!Release(b) PROVE offer'.mask = held'
    BY <2>4, EventIsMade DEF Input!Release, ButtonsKnown
  <2>5. CASE Input!Move
    BY <2>5, EventIsMade DEF Input!Move, Input!MaskFrom
  <2>6. CASE Input!Scroll
    BY <2>6, EventIsMade DEF Input!Scroll, Input!mouseVars, ButtonsKnown
  <2> QED
    BY <2>2, <2>3, <2>4, <2>5, <2>6
<1> QED
  BY <1>1, InputInvariant, PTL
-----------------------------------------------------------------------------
(* The list of buffers and the renderer.                                   *)

IsBuffer(b) == b = [enabled |-> b.enabled, order |-> b.order]

IsLayer(info) ==
  /\ info = [order |-> info.order, buffers |-> info.buffers]
  /\ IsMap(info.buffers)
  /\ \A b \in DOMAIN info.buffers : IsBuffer(info.buffers[b])

\* A list has the checkmarks of a renderer that has these buffers off in each layer, and
\* where a layer is alone in its world the draw orders that its buffers have there.
Fits(lst, off, orders) ==
  /\ IsMap(lst) /\ IsMap(off) /\ DOMAIN off = DOMAIN lst /\ DOMAIN lst \subseteq Layers
  /\ IsMap(orders) /\ DOMAIN orders = Worlds
  /\ \A w \in Worlds : IsMap(orders[w])
  /\ \A l \in DOMAIN lst :
       /\ IsLayer(lst[l])
       /\ off[l] \subseteq DOMAIN lst[l].buffers
       /\ \A b \in DOMAIN lst[l].buffers : lst[l].buffers[b].enabled <=> b \notin off[l]
       /\ (\A o \in DOMAIN lst \ {l} : worldOf[o] # worldOf[l]) =>
            \A b \in DOMAIN orders[worldOf[l]] :
              /\ b \in DOMAIN lst[l].buffers
              /\ lst[l].buffers[b].order = orders[worldOf[l]][b]
  /\ \A w \in Worlds : DOMAIN orders[w] # {} => \E l \in DOMAIN lst : worldOf[l] = w

LEMMA WithOne ==
  ASSUME NEW f, NEW x, NEW v, NEW g, g = Buffers!With(f, x, v)
  PROVE  /\ IsMap(g) /\ DOMAIN g = DOMAIN f \cup {x} /\ g[x] = v
         /\ \A y \in DOMAIN f : y # x => g[y] = f[y]
BY DEF Buffers!With, IsMap

LEMMA OneChanged ==
  ASSUME NEW f, NEW x \in DOMAIN f, NEW v, NEW g, g = [f EXCEPT ![x] = v]
  PROVE  /\ IsMap(g) /\ DOMAIN g = DOMAIN f
         /\ \A y \in DOMAIN f : g[y] = IF y = x THEN v ELSE f[y]
BY DEF IsMap

\* What a layer becomes: it has the buffer, the buffer has this draw order, or this
\* checkmark, and nothing else changed.
HasBuffer(e, info, name) ==
  /\ IsLayer(e) /\ DOMAIN e.buffers = DOMAIN info.buffers \cup {name}
  /\ \A b \in DOMAIN info.buffers : e.buffers[b] = info.buffers[b]
  /\ name \notin DOMAIN info.buffers => e.buffers[name].enabled

HasOrder(g, e, name, v) ==
  /\ IsLayer(g) /\ DOMAIN g.buffers = DOMAIN e.buffers
  /\ \A b \in DOMAIN e.buffers :
       /\ g.buffers[b].enabled = e.buffers[b].enabled
       /\ g.buffers[b].order = IF b = name THEN v ELSE e.buffers[b].order

HasCheck(g, e, name, v) ==
  /\ IsLayer(g) /\ DOMAIN g.buffers = DOMAIN e.buffers
  /\ \A b \in DOMAIN e.buffers :
       /\ g.buffers[b].order = e.buffers[b].order
       /\ g.buffers[b].enabled = IF b = name THEN v ELSE e.buffers[b].enabled

LEMMA Ensured ==
  ASSUME NEW info, IsLayer(info), NEW name, NEW e, e = Buffers!EnsureBuffer(info, name)
  PROVE  HasBuffer(e, info, name)
<1> USE DEF HasBuffer
<1>1. CASE name \in DOMAIN info.buffers
  BY <1>1 DEF Buffers!EnsureBuffer
<1>2. CASE name \notin DOMAIN info.buffers
  <2>1. PICK g : g = Buffers!With(info.buffers, name, Buffers!NewBuffer)
    OBVIOUS
  <2>2. e = [info EXCEPT !.buffers = g]
    BY <1>2, <2>1 DEF Buffers!EnsureBuffer
  <2>3. e = [order |-> info.order, buffers |-> g]
    BY <2>2 DEF IsLayer
  <2>4. e.buffers = g
    BY <2>3
  <2>5. /\ IsMap(g) /\ DOMAIN g = DOMAIN info.buffers \cup {name}
        /\ g[name] = Buffers!NewBuffer
        /\ \A b \in DOMAIN info.buffers : g[b] = info.buffers[b]
    <3>1. PICK f : f = info.buffers
      OBVIOUS
    <3>2. g = Buffers!With(f, name, Buffers!NewBuffer)
      BY <2>1, <3>1
    <3> QED
      BY <1>2, <3>1, <3>2 DEF Buffers!With, IsMap
  <2>6. /\ IsBuffer(g[name]) /\ g[name].enabled = TRUE /\ g[name].order = Bogus
    BY <2>5 DEF Buffers!NewBuffer, IsBuffer
  <2>7. \A b \in DOMAIN g : IsBuffer(g[b])
    BY <2>5, <2>6 DEF IsLayer
  <2>8. IsLayer(e)
    BY <2>3, <2>4, <2>5, <2>7 DEF IsLayer
  <2> QED
    BY <1>2, <2>4, <2>5, <2>6, <2>8
<1> QED
  BY <1>1, <1>2

LEMMA OrderGiven ==
  ASSUME NEW e, IsLayer(e), NEW name \in DOMAIN e.buffers, NEW v,
         NEW g, g = [e EXCEPT !.buffers[name].order = v]
  PROVE  HasOrder(g, e, name, v)
<1>1. PICK bs : bs = [e.buffers EXCEPT ![name].order = v]
  OBVIOUS
<1>2. g = [order |-> e.order, buffers |-> bs]
  BY <1>1 DEF IsLayer
<1>3. g.buffers = bs
  BY <1>2
<1>4. PICK n : n = [e.buffers[name] EXCEPT !.order = v]
  OBVIOUS
<1>5. n = [enabled |-> e.buffers[name].enabled, order |-> v]
  BY <1>4 DEF IsLayer, IsBuffer
<1> USE DEF HasOrder
<1>6. n.enabled = e.buffers[name].enabled /\ n.order = v /\ IsBuffer(n)
  BY <1>5 DEF IsBuffer
<1>7. bs = [b \in DOMAIN e.buffers |-> IF b = name THEN n ELSE e.buffers[b]]
  BY <1>1, <1>4 DEF IsLayer, IsMap
<1> QED
  BY <1>2, <1>3, <1>6, <1>7 DEF IsLayer, IsMap

LEMMA EnabledGiven ==
  ASSUME NEW e, IsLayer(e), NEW name \in DOMAIN e.buffers, NEW v,
         NEW g, g = [e EXCEPT !.buffers[name].enabled = v]
  PROVE  HasCheck(g, e, name, v)
<1>1. PICK bs : bs = [e.buffers EXCEPT ![name].enabled = v]
  OBVIOUS
<1>2. g = [order |-> e.order, buffers |-> bs]
  BY <1>1 DEF IsLayer
<1>3. g.buffers = bs
  BY <1>2
<1>4. PICK n : n = [e.buffers[name] EXCEPT !.enabled = v]
  OBVIOUS
<1>5. n = [enabled |-> v, order |-> e.buffers[name].order]
  BY <1>4 DEF IsLayer, IsBuffer
<1> USE DEF HasCheck
<1>6. n.order = e.buffers[name].order /\ n.enabled = v /\ IsBuffer(n)
  BY <1>5 DEF IsBuffer
<1>7. bs = [b \in DOMAIN e.buffers |-> IF b = name THEN n ELSE e.buffers[b]]
  BY <1>1, <1>4 DEF IsLayer, IsMap
<1> QED
  BY <1>2, <1>3, <1>6, <1>7 DEF IsLayer, IsMap

\* What a message makes of a renderer.
Renders(m, off, orders, off2, orders2) ==
  \/ /\ m.type = "info" /\ m.layer \in Layers /\ orders2 = orders
     /\ off2 = IF m.layer \in DOMAIN off THEN off ELSE Buffers!With(off, m.layer, {})
  \/ /\ m.type = "codes" /\ off2 = off
     /\ m.world \in Worlds /\ \E l \in DOMAIN list : worldOf[l] = m.world
     /\ orders2 = [orders EXCEPT ![m.world] = Buffers!With(@, m.name, m.order)]
  \/ /\ m.type = "enabled" /\ orders2 = orders
     /\ off2 = [off EXCEPT ![m.layer] = IF m.on THEN @ \ {m.name} ELSE @ \cup {m.name}]

LEMMA LayerIsListed ==
  ASSUME worldOf \in [Layers -> Worlds],
         NEW off, NEW orders, NEW off2, NEW orders2, NEW m, NEW lst,
         Fits(list, off, orders), Renders(m, off, orders, off2, orders2),
         m.type = "info", lst = Buffers!ProcessLayer(m)
  PROVE  Fits(lst, off2, orders2)
<1>0. /\ orders2 = orders /\ m.layer \in Layers
      /\ off2 = IF m.layer \in DOMAIN off THEN off ELSE Buffers!With(off, m.layer, {})
  BY DEF Renders
<1>1. CASE m.layer \in DOMAIN list
  <2>1. lst = [list EXCEPT ![m.layer].order = m.order] /\ off2 = off
    BY <1>0, <1>1 DEF Buffers!ProcessLayer, Fits
  <2>2. PICK i : i = [list[m.layer] EXCEPT !.order = m.order]
    OBVIOUS
  <2>3. i = [order |-> m.order, buffers |-> list[m.layer].buffers]
    BY <1>1, <2>2 DEF Fits, IsLayer
  <2>4. IsLayer(i) /\ i.buffers = list[m.layer].buffers
    BY <1>1, <2>3 DEF Fits, IsLayer
  <2>5. PICK x \in DOMAIN list : x = m.layer
    BY <1>1
  <2>6. lst = [list EXCEPT ![x] = i]
    BY <2>1, <2>2, <2>5
  <2>7. /\ IsMap(lst) /\ DOMAIN lst = DOMAIN list
        /\ \A l \in DOMAIN list : lst[l] = IF l = m.layer THEN i ELSE list[l]
    BY <2>5, <2>6, OneChanged
  <2>8. \A l \in DOMAIN list : IsLayer(lst[l]) /\ lst[l].buffers = list[l].buffers
    BY <2>4, <2>7 DEF Fits
  <2> QED
    BY <1>0, <2>1, <2>7, <2>8 DEF Fits
<1>2. CASE m.layer \notin DOMAIN list
  <2>1. PICK i : i = [order |-> 0, buffers |-> Buffers!Empty]
    OBVIOUS
  <2>2. lst = Buffers!With(list, m.layer, i) /\ off2 = Buffers!With(off, m.layer, {})
    BY <1>0, <1>2, <2>1 DEF Buffers!ProcessLayer, Fits
  <2>3. IsLayer(i) /\ DOMAIN i.buffers = {}
    BY <2>1 DEF Buffers!Empty, IsLayer, IsMap
  <2>4. /\ IsMap(lst) /\ DOMAIN lst = DOMAIN list \cup {m.layer} /\ lst[m.layer] = i
        /\ \A l \in DOMAIN list : lst[l] = list[l]
    BY <1>2, <2>2 DEF Buffers!With, IsMap
  <2>5. /\ IsMap(off2) /\ DOMAIN off2 = DOMAIN lst /\ off2[m.layer] = {}
        /\ \A l \in DOMAIN list : off2[l] = off[l]
    BY <1>2, <2>2, <2>4 DEF Fits, Buffers!With, IsMap
  <2>6. ASSUME NEW l \in DOMAIN list
        PROVE  /\ IsLayer(lst[l]) /\ off2[l] \subseteq DOMAIN lst[l].buffers
               /\ \A b \in DOMAIN lst[l].buffers : lst[l].buffers[b].enabled <=> b \notin off2[l]
               /\ (\A o \in DOMAIN lst \ {l} : worldOf[o] # worldOf[l]) =>
                    \A b \in DOMAIN orders[worldOf[l]] :
                      /\ b \in DOMAIN lst[l].buffers
                      /\ lst[l].buffers[b].order = orders[worldOf[l]][b]
    BY <2>4, <2>5 DEF Fits
  <2>7. ASSUME \A o \in DOMAIN lst \ {m.layer} : worldOf[o] # worldOf[m.layer],
               worldOf[m.layer] \in Worlds
        PROVE  DOMAIN orders[worldOf[m.layer]] = {}
    BY <1>2, <2>4, <2>7 DEF Fits
  <2>8. worldOf[m.layer] \in Worlds
    BY <1>0
  <2> QED
    BY <1>0, <2>3, <2>4, <2>5, <2>6, <2>7, <2>8 DEF Fits
<1> QED
  BY <1>1, <1>2

LEMMA BufferIsListed ==
  ASSUME worldOf \in [Layers -> Worlds],
         NEW off, NEW orders, NEW off2, NEW orders2, NEW m, NEW lst, NEW l0,
         Fits(list, off, orders), Renders(m, off, orders, off2, orders2),
         m.type = "codes", l0 \in Buffers!Found(m.world), lst = Buffers!ProcessBuffer(m, l0)
  PROVE  Fits(lst, off2, orders2)
<1>0. /\ off2 = off /\ m.world \in Worlds
      /\ orders2 = [orders EXCEPT ![m.world] = Buffers!With(@, m.name, m.order)]
  BY DEF Renders
<1>1. l0 \in DOMAIN list /\ worldOf[l0] = m.world
  BY DEF Buffers!Found
<1>2. PICK name : name = m.name
  OBVIOUS
<1>3. PICK i : i = list[l0] /\ IsLayer(i)
  BY <1>1 DEF Fits
<1>4. PICK e : e = Buffers!EnsureBuffer(i, name)
  OBVIOUS
<1>5. /\ IsLayer(e) /\ DOMAIN e.buffers = DOMAIN list[l0].buffers \cup {m.name}
      /\ \A b \in DOMAIN list[l0].buffers : e.buffers[b] = list[l0].buffers[b]
      /\ m.name \notin DOMAIN list[l0].buffers => e.buffers[m.name].enabled
  <2>1. HasBuffer(e, i, name)
    BY <1>4, <1>3, Ensured
  <2> QED
    BY <1>2, <1>3, <2>1 DEF HasBuffer
<1>6. name \in DOMAIN e.buffers
  BY <1>5, <1>2
<1>7. PICK g : g = [e EXCEPT !.buffers[name].order = m.order]
  OBVIOUS
<1>8. /\ IsLayer(g) /\ DOMAIN g.buffers = DOMAIN e.buffers
      /\ \A b \in DOMAIN e.buffers :
           /\ g.buffers[b].enabled = e.buffers[b].enabled
           /\ g.buffers[b].order = IF b = m.name THEN m.order ELSE e.buffers[b].order
  <2>1. PICK v : v = m.order
    OBVIOUS
  <2> QED
    <3>1. HasOrder(g, e, name, v)
      BY <1>5, <1>7, <1>6, <2>1, OrderGiven
    <3> QED
      BY <1>2, <2>1, <3>1 DEF HasOrder
<1>9. /\ IsMap(lst) /\ DOMAIN lst = DOMAIN list
      /\ \A l \in DOMAIN list : lst[l] = IF l = l0 THEN g ELSE list[l]
  <2>1. lst = [list EXCEPT ![l0] = g]
    BY <1>4, <1>7, <1>2, <1>3 DEF Buffers!ProcessBuffer
  <2> QED
    BY <1>1, <2>1, OneChanged
<1>10. PICK w : w = Buffers!With(orders[m.world], m.name, m.order)
  OBVIOUS
<1>11. /\ IsMap(w) /\ DOMAIN w = DOMAIN orders[m.world] \cup {m.name} /\ w[m.name] = m.order
      /\ \A b \in DOMAIN orders[m.world] : b # m.name => w[b] = orders[m.world][b]
  BY <1>10 DEF Buffers!With, IsMap
<1>12. /\ IsMap(orders2) /\ DOMAIN orders2 = Worlds
      /\ \A v \in Worlds : orders2[v] = IF v = m.world THEN w ELSE orders[v]
  <2>1. PICK x : x = m.world
    OBVIOUS
  <2>2. orders2 = [orders EXCEPT ![x] = w] /\ x \in DOMAIN orders
    BY <1>0, <1>10, <2>1 DEF Fits
  <2> QED
    BY <2>1, <2>2, OneChanged DEF Fits
<1>13. ASSUME NEW l \in DOMAIN list
       PROVE  /\ IsLayer(lst[l]) /\ off[l] \subseteq DOMAIN lst[l].buffers
              /\ \A b \in DOMAIN lst[l].buffers : lst[l].buffers[b].enabled <=> b \notin off[l]
  <2>1. CASE l # l0
    BY <1>9, <2>1 DEF Fits
  <2>2. CASE l = l0
    <3>1. lst[l] = g
      BY <1>9, <2>2
    <3>2. off[l0] \subseteq DOMAIN list[l0].buffers
      BY <1>1 DEF Fits
    <3>3. ASSUME NEW b \in DOMAIN g.buffers PROVE g.buffers[b].enabled <=> b \notin off[l0]
      <4>1. CASE b \in DOMAIN list[l0].buffers
        BY <1>1, <1>5, <1>8, <4>1 DEF Fits
      <4>2. CASE b \notin DOMAIN list[l0].buffers
        BY <1>5, <1>8, <3>2, <4>2
      <4> QED
        BY <4>1, <4>2
    <3> QED
      BY <1>5, <1>8, <2>2, <3>1, <3>2, <3>3
  <2> QED
    BY <2>1, <2>2
<1>14. ASSUME NEW l \in DOMAIN list, \A o \in DOMAIN list \ {l} : worldOf[o] # worldOf[l],
              worldOf[l] \in Worlds, NEW b \in DOMAIN orders2[worldOf[l]]
       PROVE  b \in DOMAIN lst[l].buffers /\ lst[l].buffers[b].order = orders2[worldOf[l]][b]
  <2>1. CASE l # l0
    <3>1. worldOf[l] # m.world
      BY <1>1, <1>14, <2>1
    <3> QED
      BY <1>9, <1>12, <1>14, <2>1, <3>1 DEF Fits
  <2>2. CASE l = l0
    <3>1. lst[l] = g /\ orders2[worldOf[l]] = w
      BY <1>1, <1>9, <1>12, <1>14, <2>2
    <3>2. \A a \in DOMAIN orders[m.world] :
            a \in DOMAIN list[l0].buffers /\ list[l0].buffers[a].order = orders[m.world][a]
      BY <1>1, <1>14, <2>2 DEF Fits
    <3>3. CASE b = m.name
      BY <1>5, <1>8, <1>11, <3>1, <3>3
    <3>4. CASE b # m.name
      BY <1>5, <1>8, <1>11, <1>14, <3>1, <3>2, <3>4
    <3> QED
      BY <3>3, <3>4
  <2> QED
    BY <2>1, <2>2
<1>15. \A v \in Worlds : IsMap(orders2[v])
  BY <1>11, <1>12 DEF Fits
<1>16. \A v \in Worlds : DOMAIN orders2[v] # {} => \E l \in DOMAIN lst : worldOf[l] = v
  BY <1>1, <1>9, <1>12 DEF Fits
<1>17. \A l \in DOMAIN list : worldOf[l] \in Worlds
  BY DEF Fits
<1> QED
  BY <1>0, <1>9, <1>12, <1>13, <1>14, <1>15, <1>16, <1>17 DEF Fits

LEMMA CheckIsListed ==
  ASSUME worldOf \in [Layers -> Worlds],
         NEW off, NEW orders, NEW off2, NEW orders2, NEW m, NEW lst,
         Fits(list, off, orders), Renders(m, off, orders, off2, orders2),
         m.type = "enabled", lst = Buffers!BufferEnabled(m)
  PROVE  Fits(lst, off2, orders2)
<1>0. /\ orders2 = orders
      /\ off2 = [off EXCEPT ![m.layer] = IF m.on THEN @ \ {m.name} ELSE @ \cup {m.name}]
  BY DEF Renders
<1>1. CASE m.layer \notin DOMAIN list
  <2>1. lst = list
    BY <1>1 DEF Buffers!BufferEnabled
  <2>2. off2 = off
    BY <1>0, <1>1 DEF Fits, IsMap
  <2> QED
    BY <1>0, <2>1, <2>2
<1>2. CASE m.layer \in DOMAIN list
  <2>1. PICK l0 \in DOMAIN list : l0 = m.layer
    BY <1>2
  <2>2. PICK name : name = m.name
    OBVIOUS
  <2>3. PICK i : i = list[l0] /\ IsLayer(i)
    BY DEF Fits
  <2>4. PICK e : e = Buffers!EnsureBuffer(i, name)
    OBVIOUS
  <2>5. /\ IsLayer(e) /\ DOMAIN e.buffers = DOMAIN list[l0].buffers \cup {m.name}
        /\ \A b \in DOMAIN list[l0].buffers : e.buffers[b] = list[l0].buffers[b]
    <3>1. HasBuffer(e, i, name)
      BY <2>4, <2>3, Ensured
    <3> QED
      BY <2>2, <2>3, <3>1 DEF HasBuffer
  <2>6. name \in DOMAIN e.buffers
    BY <2>5, <2>2
  <2>7. PICK g : g = [e EXCEPT !.buffers[name].enabled = m.on]
    OBVIOUS
  <2>8. /\ IsLayer(g) /\ DOMAIN g.buffers = DOMAIN e.buffers
        /\ \A b \in DOMAIN e.buffers :
             /\ g.buffers[b].order = e.buffers[b].order
             /\ g.buffers[b].enabled = IF b = m.name THEN m.on ELSE e.buffers[b].enabled
    <3>1. PICK v : v = m.on
      OBVIOUS
    <3> QED
      <4>1. HasCheck(g, e, name, v)
        BY <2>5, <2>7, <2>6, <3>1, EnabledGiven
      <4> QED
        BY <2>2, <3>1, <4>1 DEF HasCheck
  <2>9. /\ IsMap(lst) /\ DOMAIN lst = DOMAIN list
        /\ \A l \in DOMAIN list : lst[l] = IF l = l0 THEN g ELSE list[l]
    <3>1. lst = [list EXCEPT ![l0] = g]
      BY <1>2, <2>1, <2>4, <2>7, <2>2, <2>3 DEF Buffers!BufferEnabled
    <3> QED
      BY <3>1, OneChanged
  <2>10. /\ IsMap(off2) /\ DOMAIN off2 = DOMAIN list
        /\ \A l \in DOMAIN list :
             off2[l] = IF l # l0 THEN off[l]
                       ELSE IF m.on THEN off[l0] \ {m.name} ELSE off[l0] \cup {m.name}
    <3>1. PICK v : v = IF m.on THEN off[l0] \ {m.name} ELSE off[l0] \cup {m.name}
      OBVIOUS
    <3>2. off2 = [off EXCEPT ![l0] = v] /\ l0 \in DOMAIN off /\ DOMAIN off = DOMAIN list
      BY <1>0, <2>1, <3>1 DEF Fits
    <3>3. /\ IsMap(off2) /\ DOMAIN off2 = DOMAIN off
          /\ \A y \in DOMAIN off : off2[y] = IF y = l0 THEN v ELSE off[y]
      BY <3>2, OneChanged
    <3> QED
      BY <3>1, <3>2, <3>3
  <2>11. off[l0] \subseteq DOMAIN list[l0].buffers
    BY DEF Fits
  <2>12. ASSUME NEW l \in DOMAIN list
        PROVE  /\ IsLayer(lst[l]) /\ off2[l] \subseteq DOMAIN lst[l].buffers
               /\ \A b \in DOMAIN lst[l].buffers : lst[l].buffers[b].enabled <=> b \notin off2[l]
    <3>1. CASE l # l0
      BY <2>9, <2>10, <3>1 DEF Fits
    <3>2. CASE l = l0
      <4>1. lst[l] = g /\ off2[l] = IF m.on THEN off[l0] \ {m.name} ELSE off[l0] \cup {m.name}
        BY <2>9, <2>10, <3>2
      <4>2. off2[l] \subseteq DOMAIN g.buffers
        BY <2>5, <2>8, <2>11, <4>1
      <4>3. ASSUME NEW b \in DOMAIN g.buffers PROVE g.buffers[b].enabled <=> b \notin off2[l]
        <5>1. CASE b = m.name
          BY <2>8, <4>1, <5>1
        <5>2. CASE b # m.name
          <6>1. b \in DOMAIN list[l0].buffers /\ (list[l0].buffers[b].enabled <=> b \notin off[l0])
            BY <2>5, <2>8, <5>2 DEF Fits
          <6> QED
            BY <2>5, <2>8, <4>1, <5>2, <6>1
        <5> QED
          BY <5>1, <5>2
      <4> QED
        BY <2>8, <4>1, <4>2, <4>3
    <3> QED
      BY <3>1, <3>2
  <2>13. ASSUME NEW l \in DOMAIN list, \A o \in DOMAIN list \ {l} : worldOf[o] # worldOf[l],
                NEW b \in DOMAIN orders[worldOf[l]]
         PROVE  b \in DOMAIN lst[l].buffers /\ lst[l].buffers[b].order = orders[worldOf[l]][b]
    <3>1. b \in DOMAIN list[l].buffers /\ list[l].buffers[b].order = orders[worldOf[l]][b]
      BY <2>13 DEF Fits
    <3>2. CASE l # l0
      BY <2>9, <3>1, <3>2
    <3>3. CASE l = l0
      BY <2>5, <2>8, <2>9, <3>1, <3>3
    <3> QED
      BY <3>2, <3>3
  <2> QED
    BY <1>0, <2>9, <2>10, <2>12, <2>13 DEF Fits
<1> QED
  BY <1>1, <1>2

\* Without two messages under way together the list follows the renderer: it fits it, or
\* what it was before the message that is about to be applied to the list.
SendersKnown ==
  /\ worldOf \in [Layers -> Worlds]
  /\ DOMAIN senderPc = Buffers!Senders /\ DOMAIN call = Buffers!Senders

OneSends ==
  ~overlapped =>
    \A s, o \in Buffers!Senders : senderPc[s] # "idle" /\ senderPc[o] # "idle" => s = o

ListFollows ==
  ~overlapped =>
    \E off, orders :
      /\ Fits(list, off, orders)
      /\ \A s \in Buffers!Senders : senderPc[s] = "list" =>
           \E off2, orders2 : /\ checked = [off |-> off2, orders |-> orders2]
                              /\ Renders(call[s], off, orders, off2, orders2)
      /\ (\A s \in Buffers!Senders : senderPc[s] # "list")
           => checked = [off |-> off, orders |-> orders]

\* A message that may be sent.
Sendable(m) ==
  \/ m.type = "info" /\ m.layer \in Layers
  \/ m.type = "codes" /\ m.world \in Worlds /\ \E l \in DOMAIN list : worldOf[l] = m.world
  \/ m.type = "enabled"

LEMMA RendererFollows ==
  ASSUME NEW off, NEW orders, checked = [off |-> off, orders |-> orders],
         NEW m, Sendable(m), Buffers!ApplyToRenderer(m)
  PROVE  \E off2, orders2 : /\ checked' = [off |-> off2, orders |-> orders2]
                            /\ Renders(m, off, orders, off2, orders2)
<1>0. checked.off = off /\ checked.orders = orders
  OBVIOUS
<1>1. CASE m.type = "info"
  <2>1. PICK off2 : off2 = IF m.layer \in DOMAIN off THEN off ELSE Buffers!With(off, m.layer, {})
    OBVIOUS
  <2>2. checked' = [off |-> off2, orders |-> orders]
    <3>1. CASE m.layer \in DOMAIN off
      BY <1>0, <1>1, <2>1, <3>1 DEF Buffers!ApplyToRenderer
    <3>2. CASE m.layer \notin DOMAIN off
      <4>1. off2 = Buffers!With(off, m.layer, {})
        BY <2>1, <3>2
      <4>2. checked' = [checked EXCEPT !.off = Buffers!With(@, m.layer, {})]
        BY <1>0, <1>1, <3>2 DEF Buffers!ApplyToRenderer
      <4>3. checked' = [checked EXCEPT !.off = off2]
        BY <1>0, <4>1, <4>2
      <4> QED
        BY <4>3
    <3> QED
      BY <3>1, <3>2
  <2>3. Renders(m, off, orders, off2, orders)
    BY <1>1, <2>1 DEF Renders, Sendable
  <2> QED
    BY <2>2, <2>3
<1>2. CASE m.type = "codes"
  <2>1. PICK orders2 : orders2 = [orders EXCEPT ![m.world] = Buffers!With(@, m.name, m.order)]
    OBVIOUS
  <2>2. checked' = [checked EXCEPT !.orders[m.world] = Buffers!With(@, m.name, m.order)]
    BY <1>2 DEF Buffers!ApplyToRenderer
  <2>3. checked' = [checked EXCEPT !.orders = orders2]
    BY <1>0, <2>1, <2>2
  <2>4. checked' = [off |-> off, orders |-> orders2]
    BY <2>3
  <2>5. Renders(m, off, orders, off, orders2)
    BY <1>2, <2>1 DEF Renders, Sendable
  <2> QED
    BY <2>4, <2>5
<1>3. CASE m.type = "enabled"
  <2>1. PICK off2 : off2 = [off EXCEPT ![m.layer] = IF m.on THEN @ \ {m.name} ELSE @ \cup {m.name}]
    OBVIOUS
  <2>2. checked' = [checked EXCEPT !.off[m.layer] = IF m.on THEN @ \ {m.name} ELSE @ \cup {m.name}]
    BY <1>3 DEF Buffers!ApplyToRenderer
  <2>3. checked' = [checked EXCEPT !.off = off2]
    BY <1>0, <2>1, <2>2
  <2>4. checked' = [off |-> off2, orders |-> orders]
    BY <2>3
  <2>5. Renders(m, off, orders, off2, orders)
    BY <1>3, <2>1 DEF Renders
  <2> QED
    BY <2>4, <2>5
<1> QED
  BY <1>1, <1>2, <1>3 DEF Sendable

LEMMA SendingStays ==
  ASSUME SendersKnown, OneSends, ListFollows, NEW s \in Buffers!Senders, NEW m,
         senderPc[s] = "idle", Sendable(m), Buffers!Send(s, m), UNCHANGED <<worldOf, list>>
  PROVE  SendersKnown' /\ OneSends' /\ ListFollows'
<1>1. /\ Buffers!ApplyToRenderer(m)
      /\ call' = [call EXCEPT ![s] = m]
      /\ senderPc' = [senderPc EXCEPT ![s] = "list"]
      /\ overlapped' = (overlapped \/ \E o \in Buffers!Senders \ {s} : senderPc[o] # "idle")
  BY DEF Buffers!Send
<1>2. SendersKnown'
  BY <1>1 DEF SendersKnown
<1>3. \A o \in Buffers!Senders :
        /\ senderPc'[o] = IF o = s THEN "list" ELSE senderPc[o]
        /\ call'[o] = IF o = s THEN m ELSE call[o]
  BY <1>1 DEF SendersKnown
<1>4. ASSUME ~overlapped'
      PROVE  ~overlapped /\ \A o \in Buffers!Senders : senderPc[o] = "idle"
  BY <1>1, <1>4
<1>5. OneSends'
  BY <1>3, <1>4 DEF OneSends
<1>6. ASSUME ~overlapped'
      PROVE  \E off, orders :
               /\ Fits(list, off, orders)'
               /\ \A o \in Buffers!Senders : senderPc'[o] = "list" =>
                    \E off2, orders2 : /\ checked' = [off |-> off2, orders |-> orders2]
                                       /\ Renders(call[o], off, orders, off2, orders2)'
               /\ (\A o \in Buffers!Senders : senderPc'[o] # "list")
                    => checked' = [off |-> off, orders |-> orders]
  <2>1. PICK off, orders : Fits(list, off, orders) /\ checked = [off |-> off, orders |-> orders]
    BY <1>4, <1>6 DEF ListFollows
  <2>2. PICK off2, orders2 : /\ checked' = [off |-> off2, orders |-> orders2]
                             /\ Renders(m, off, orders, off2, orders2)
    BY <1>1, <2>1, RendererFollows
  <2>3. Fits(list, off, orders)'
    BY <2>1 DEF Fits
  <2>4. PICK n : n = call'[s]
    OBVIOUS
  <2>5. n = m
    BY <1>3, <2>4
  <2>6. Renders(call[s], off, orders, off2, orders2)'
    BY <2>2, <2>4, <2>5 DEF Renders
  <2>7. \A o \in Buffers!Senders : senderPc'[o] = "list" => o = s
    BY <1>3, <1>4, <1>6
  <2> QED
    BY <1>3, <2>2, <2>3, <2>6, <2>7
<1>7. ListFollows'
  BY <1>6 DEF ListFollows
<1> QED
  BY <1>2, <1>5, <1>7

LEMMA ApplyingStays ==
  ASSUME SendersKnown, OneSends, ListFollows, NEW s \in Buffers!Senders,
         Buffers!ApplyToList(s)
  PROVE  SendersKnown' /\ OneSends' /\ ListFollows'
<1>1. /\ senderPc[s] = "list"
      /\ \/ call[s].type = "info" /\ list' = Buffers!ProcessLayer(call[s])
         \/ /\ call[s].type = "codes"
            /\ \E l \in Buffers!Found(call[s].world) : list' = Buffers!ProcessBuffer(call[s], l)
         \/ call[s].type = "enabled" /\ list' = Buffers!BufferEnabled(call[s])
         \/ call[s].type \notin {"info", "codes", "enabled"}
      /\ \E pc \in {"queue", "return"} : senderPc' = [senderPc EXCEPT ![s] = pc]
      /\ UNCHANGED <<worldOf, checked, call, overlapped>>
  BY DEF Buffers!ApplyToList
<1>2. SendersKnown'
  BY <1>1 DEF SendersKnown
<1>3. \A o \in Buffers!Senders :
        /\ o # s => senderPc'[o] = senderPc[o]
        /\ senderPc'[s] # "list"
  BY <1>1 DEF SendersKnown
<1>4. OneSends'
  BY <1>1, <1>3 DEF OneSends
<1>5. ASSUME ~overlapped
      PROVE  /\ \A o \in Buffers!Senders : senderPc'[o] # "list"
             /\ \E off, orders : Fits(list, off, orders)' /\ checked' = [off |-> off, orders |-> orders]
  <2>1. PICK off, orders :
          \A o \in Buffers!Senders : senderPc[o] = "list" =>
             \E off2, orders2 : /\ checked = [off |-> off2, orders |-> orders2]
                                /\ Fits(list, off, orders)
                                /\ Renders(call[o], off, orders, off2, orders2)
    BY <1>5 DEF ListFollows
  <2>2. PICK off2, orders2 : /\ checked = [off |-> off2, orders |-> orders2]
                             /\ Fits(list, off, orders)
                             /\ Renders(call[s], off, orders, off2, orders2)
    BY <1>1, <2>1
  <2>3. PICK m : m = call[s]
    OBVIOUS
  <2>4. PICK lst : lst = list'
    OBVIOUS
  <2>5. Renders(m, off, orders, off2, orders2)
    BY <2>2, <2>3
  <2>6. Fits(lst, off2, orders2)
    <3>1. CASE m.type = "info"
      BY <1>1, <2>2, <2>3, <2>4, <2>5, <3>1, LayerIsListed DEF SendersKnown
    <3>2. CASE m.type = "codes"
      <4>1. PICK l : l \in Buffers!Found(m.world) /\ lst = Buffers!ProcessBuffer(m, l)
        BY <1>1, <2>3, <2>4, <3>2
      <4> QED
        BY <2>2, <2>5, <3>2, <4>1, BufferIsListed DEF SendersKnown
    <3>3. CASE m.type = "enabled"
      BY <1>1, <2>2, <2>3, <2>4, <2>5, <3>3, CheckIsListed DEF SendersKnown
    <3> QED
      BY <2>5, <3>1, <3>2, <3>3 DEF Renders
  <2>7. Fits(list, off2, orders2)'
    BY <1>1, <2>4, <2>6 DEF Fits
  <2>8. \A o \in Buffers!Senders : senderPc'[o] # "list"
    BY <1>1, <1>3, <1>5 DEF OneSends
  <2> QED
    BY <1>1, <2>2, <2>7, <2>8
<1>6. ListFollows'
  BY <1>1, <1>5 DEF ListFollows
<1> QED
  BY <1>2, <1>4, <1>6

LEMMA ListStays ==
  ASSUME SendersKnown, OneSends, ListFollows, [Buffers!Next]_listVars
  PROVE  SendersKnown' /\ OneSends' /\ ListFollows'
<1> DEFINE Goal == SendersKnown' /\ OneSends' /\ ListFollows'
<1>1. ASSUME NEW s \in Users, Buffers!UserSend(s) PROVE Goal
  <2>1. PICK m \in Buffers!Messages : Buffers!MaySend(m) /\ Buffers!Send(s, m)
    BY <1>1 DEF Buffers!UserSend
  <2>2. Sendable(m)
    BY <2>1 DEF Buffers!Messages, Buffers!MaySend, Sendable
  <2>3. senderPc[s] = "idle" /\ UNCHANGED <<worldOf, list>> /\ s \in Buffers!Senders
    BY <1>1 DEF Buffers!UserSend, Buffers!Senders
  <2> QED
    BY <2>1, <2>2, <2>3, SendingStays
<1>2. ASSUME NEW i, NEW j, Buffers!Click(i, j) PROVE Goal
  <2>1. PICK m : m = [type |-> "enabled", layer |-> view[i].layer, name |-> view[i].boxes[j].name,
                      on |-> ~view[i].boxes[j].on]
    OBVIOUS
  <2>2. Sendable(m)
    BY <2>1 DEF Sendable
  <2>3. /\ senderPc["gtk"] = "idle" /\ UNCHANGED <<worldOf, list>>
        /\ "gtk" \in Buffers!Senders /\ Buffers!Send("gtk", m)
    BY <1>2, <2>1 DEF Buffers!Click, Buffers!Senders, Buffers!Gtk
  <2> QED
    BY <2>2, <2>3, SendingStays
<1>3. ASSUME UNCHANGED <<worldOf, list, checked, overlapped>>,
             DOMAIN senderPc' = DOMAIN senderPc, DOMAIN call' = DOMAIN call,
             \A s \in Buffers!Senders :
               /\ senderPc'[s] # "idle" => senderPc[s] # "idle"
               /\ senderPc'[s] = "list" <=> senderPc[s] = "list"
               /\ senderPc[s] = "list" => call'[s] = call[s]
      PROVE  Goal
  <2>1. SendersKnown' /\ OneSends'
    BY <1>3 DEF SendersKnown, OneSends
  <2>2. ASSUME NEW off, NEW orders, Fits(list, off, orders) PROVE Fits(list, off, orders)'
    BY <1>3, <2>2 DEF Fits
  <2>3. ASSUME NEW s \in Buffers!Senders, senderPc[s] = "list", NEW off, NEW orders,
               NEW off2, NEW orders2, Renders(call[s], off, orders, off2, orders2)
        PROVE  Renders(call[s], off, orders, off2, orders2)'
    BY <1>3, <2>3 DEF Renders
  <2>4. ListFollows'
    BY <1>3, <2>2, <2>3 DEF ListFollows
  <2> QED
    BY <2>1, <2>4
<1>4. ASSUME NEW s \in Buffers!Senders, Buffers!QueueUpdateView(s) \/ Buffers!Return(s)
      PROVE  Goal
  <2>1. /\ senderPc[s] \in {"queue", "return"}
        /\ UNCHANGED <<worldOf, list, checked, overlapped>>
        /\ \E pc \in {"return", "idle"} : senderPc' = [senderPc EXCEPT ![s] = pc]
        /\ call' = call \/ call' = [call EXCEPT ![s] = Buffers!NoMessage]
    BY <1>4 DEF Buffers!QueueUpdateView, Buffers!Return
  <2>2. DOMAIN senderPc' = DOMAIN senderPc /\ DOMAIN call' = DOMAIN call
    BY <2>1
  <2>3. ASSUME NEW o \in Buffers!Senders
        PROVE  /\ senderPc'[o] # "idle" => senderPc[o] # "idle"
               /\ senderPc'[o] = "list" <=> senderPc[o] = "list"
               /\ senderPc[o] = "list" => call'[o] = call[o]
    BY <2>1 DEF SendersKnown
  <2> QED
    BY <1>3, <2>1, <2>2, <2>3
<1>5. ASSUME UNCHANGED <<worldOf, list, checked, overlapped, senderPc, call>> PROVE Goal
  BY <1>3, <1>5
<1>6. CASE Buffers!LayoutThread \/ Buffers!Destroyer
  BY <1>5, <1>6 DEF Buffers!LayoutThread, Buffers!Destroyer
<1>7. CASE UNCHANGED listVars
  BY <1>5, <1>7 DEF listVars
<1> QED
  BY <1>1, <1>2, <1>4, <1>5, <1>6, <1>7, ApplyingStays DEF Buffers!Next, Buffers!Sender

\* When all is applied, one message after the other, the list is as the renderer is.
LEMMA ListIsRight ==
  Buffers!Init /\ [][Buffers!Next]_listVars => []Buffers!ListMatchesRenderer
<1>1. Buffers!Init => SendersKnown /\ OneSends /\ ListFollows
  <2> HAVE Buffers!Init
  <2>1. /\ worldOf \in [Layers -> Worlds] /\ list = Buffers!Empty
        /\ checked = [off |-> Buffers!Empty, orders |-> [w \in Worlds |-> Buffers!Empty]]
        /\ call = [s \in Buffers!Senders |-> Buffers!NoMessage]
        /\ senderPc = [s \in Buffers!Senders |-> "idle"]
    BY DEF Buffers!Init
  <2>2. PICK e : e = Buffers!Empty
    OBVIOUS
  <2>3. IsMap(e) /\ DOMAIN e = {}
    BY <2>2 DEF Buffers!Empty, IsMap
  <2>4. PICK orders : orders = [w \in Worlds |-> e]
    OBVIOUS
  <2>5. IsMap(orders) /\ DOMAIN orders = Worlds /\ \A w \in Worlds : orders[w] = e
    BY <2>4 DEF IsMap
  <2>6. Fits(list, e, orders) /\ checked = [off |-> e, orders |-> orders]
    BY <2>1, <2>2, <2>3, <2>4, <2>5 DEF Fits
  <2>7. \A s \in Buffers!Senders : senderPc[s] = "idle"
    BY <2>1
  <2>8. SendersKnown /\ OneSends
    BY <2>1, <2>7 DEF SendersKnown, OneSends
  <2> QED
    BY <2>6, <2>7, <2>8 DEF ListFollows
<1>2. SendersKnown /\ ListFollows => Buffers!ListMatchesRenderer
  <2> SUFFICES ASSUME ListFollows, Buffers!Quiet, ~overlapped
               PROVE  Buffers!ListMatchesRenderer
    BY DEF Buffers!ListMatchesRenderer
  <2>1. PICK off, orders : Fits(list, off, orders) /\ checked = [off |-> off, orders |-> orders]
    BY DEF ListFollows, Buffers!Quiet
  <2>2. checked.off = off /\ checked.orders = orders
    BY <2>1
  <2> QED
    BY <2>1, <2>2 DEF Fits, Buffers!ListMatchesRenderer
<1> QED
  BY <1>1, <1>2, ListStays, PTL

-----------------------------------------------------------------------------
(* The task thread.                                                        *)

InCall == {"queued", "waiting"}

\* What ReturnsWhenRun rests on: a caller has one task, which is either queued or with the
\* worker, and stays in its call until it is told.
TasksAreCallers ==
  /\ tasks \in Seq(Callers)
  /\ job \in Callers
  /\ callerPc \in [Callers -> InCall \cup {"idle", "woken"}]
  /\ ran \in [Callers -> BOOLEAN]
  /\ \A i, j \in 1 .. Len(tasks) : tasks[i] = tasks[j] => i = j
  /\ \A i \in 1 .. Len(tasks) : callerPc[tasks[i]] \in InCall

JobIsTaken ==
  /\ workerPc \in {"run", "report"} =>
       /\ callerPc[job] \in InCall
       /\ \A i \in 1 .. Len(tasks) : tasks[i] # job
  /\ workerPc = "report" => ran[job]

\* What RunInOrder rests on: what is queued are the tasks that were, in their order, and
\* once the destroyer empties the queue the worker is gone.
QueueIsOrder ==
  /\ order \in Seq(Callers)
  /\ destroyPc \in {"flushing", "gone"} => workerPc = "exited"
  /\ destroyPc \notin {"flushing", "gone"} =>
       IF workerPc = "run" THEN order # <<>> /\ Head(order) = job /\ Tail(order) = tasks
       ELSE order = tasks

\* Taking the first task.
LEMMA FirstIsTaken ==
  ASSUME NEW q \in Seq(Callers), q # <<>>
  PROVE  /\ Task!RemoveAt(q, 1) = Tail(q) /\ q[1] = Head(q) /\ Head(q) \in Callers
         /\ Tail(q) \in Seq(Callers) /\ Len(q) \in Nat \ {0}
         /\ Len(Tail(q)) = Len(q) - 1
         /\ \A i \in 1 .. Len(Tail(q)) : i + 1 \in 1 .. Len(q) /\ Tail(q)[i] = q[i + 1]
<1>1. /\ q[1] = Head(q) /\ Head(q) \in Callers
      /\ Tail(q) \in Seq(Callers) /\ Len(q) \in Nat \ {0}
      /\ Len(Tail(q)) = Len(q) - 1
      /\ \A i \in 1 .. Len(Tail(q)) : i + 1 \in 1 .. Len(q) /\ Tail(q)[i] = q[i + 1]
  OBVIOUS
<1>2. SubSeq(q, 1, 0) = <<>> /\ SubSeq(q, 2, Len(q)) = Tail(q)
  OBVIOUS
<1>3. Task!RemoveAt(q, 1) = SubSeq(q, 1, 1 - 1) \o SubSeq(q, 1 + 1, Len(q))
  BY DEF Task!RemoveAt
<1>4. <<>> \o Tail(q) = Tail(q)
  BY <1>1
<1> QED
  BY <1>1, <1>2, <1>3, <1>4

\* Queueing a task.
LEMMA LastIsQueued ==
  ASSUME NEW q \in Seq(Callers), NEW c \in Callers
  PROVE  /\ Append(q, c) \in Seq(Callers) /\ Append(q, c) # <<>> /\ Len(q) \in Nat
         /\ Len(Append(q, c)) = Len(q) + 1
         /\ \A i \in 1 .. Len(q) : i \in 1 .. Len(q) + 1 /\ Append(q, c)[i] = q[i]
         /\ Append(q, c)[Len(q) + 1] = c
         /\ q # <<>> =>
              Head(Append(q, c)) = Head(q) /\ Tail(Append(q, c)) = Append(Tail(q), c)
OBVIOUS

\* Each step on the tasks, their callers and the job.
LEMMA TasksStay ==
  ASSUME TasksAreCallers, JobIsTaken, [Task!Next]_(Task!vars)
  PROVE  TasksAreCallers' /\ JobIsTaken'
<1> USE DEF TasksAreCallers, JobIsTaken, InCall
<1>1. ASSUME NEW c \in Callers, Task!Schedule(c) PROVE TasksAreCallers' /\ JobIsTaken'
  <2>1. /\ callerPc[c] = "idle" /\ tasks' = Append(tasks, c) /\ job' = job
        /\ callerPc' = [callerPc EXCEPT ![c] = "queued"]
        /\ ran' = [ran EXCEPT ![c] = FALSE]
        /\ workerPc' = IF workerPc = "wait" THEN "woken" ELSE workerPc
    BY <1>1 DEF Task!Schedule, Task!ttVars
  <2>2. /\ tasks' \in Seq(Callers) /\ Len(tasks) \in Nat /\ Len(tasks') = Len(tasks) + 1
        /\ \A i \in 1 .. Len(tasks) : tasks'[i] = tasks[i]
        /\ tasks'[Len(tasks) + 1] = c
    BY <2>1, LastIsQueued
  <2>3. \A i \in 1 .. Len(tasks') : i \in 1 .. Len(tasks) \/ i = Len(tasks) + 1
    BY <2>2
  <2>4. \A i \in 1 .. Len(tasks) : tasks[i] # c
    BY <2>1
  <2>5. TasksAreCallers'
    BY <2>1, <2>2, <2>3, <2>4
  <2>6. workerPc' \in {"run", "report"} => workerPc' = workerPc /\ job # c
    BY <2>1
  <2>7. JobIsTaken'
    BY <2>1, <2>2, <2>3, <2>6
  <2> QED
    BY <2>5, <2>7
<1>2. ASSUME NEW c \in Callers, Task!Wait(c) PROVE TasksAreCallers' /\ JobIsTaken'
  BY <1>2 DEF Task!Wait, Task!ttVars
<1>3. ASSUME NEW c \in Callers, Task!Return(c) PROVE TasksAreCallers' /\ JobIsTaken'
  BY <1>3 DEF Task!Return, Task!ttVars
<1>4. CASE Task!Take
  <2>1. CASE tasks = <<>>
    BY <1>4, <2>1 DEF Task!Take
  <2>2. CASE tasks # <<>>
    <3>1. /\ job' = tasks[1] /\ tasks' = Task!RemoveAt(tasks, 1) /\ workerPc' = "run"
          /\ UNCHANGED <<callerPc, ran>>
      BY <1>4, <2>2 DEF Task!Take, Task!Picked
    <3>2. /\ Task!RemoveAt(tasks, 1) = Tail(tasks) /\ tasks[1] \in Callers
          /\ Tail(tasks) \in Seq(Callers) /\ Len(tasks) \in Nat \ {0}
          /\ Len(Tail(tasks)) = Len(tasks) - 1
          /\ \A i \in 1 .. Len(Tail(tasks)) :
               i + 1 \in 1 .. Len(tasks) /\ Tail(tasks)[i] = tasks[i + 1]
      BY <2>2, FirstIsTaken
    <3>3. /\ tasks' \in Seq(Callers) /\ Len(tasks) \in Nat \ {0} /\ job' \in Callers
          /\ Len(tasks') = Len(tasks) - 1
          /\ \A i \in 1 .. Len(tasks') : i + 1 \in 1 .. Len(tasks) /\ tasks'[i] = tasks[i + 1]
      BY <3>2, <3>1
    <3>4. 1 \in 1 .. Len(tasks) /\ \A i \in 1 .. Len(tasks') : i + 1 # 1 /\ i \in Int
      BY <3>3
    <3>5. \A i, j \in 1 .. Len(tasks') : i + 1 = j + 1 => i = j
      BY <3>4
    <3>6. TasksAreCallers'
      BY <3>1, <3>3, <3>5
    <3>7. JobIsTaken'
      BY <3>1, <3>3, <3>4
    <3> QED
      BY <3>6, <3>7
  <2> QED
    BY <2>1, <2>2
<1>5. CASE Task!Run
  BY <1>5 DEF Task!Run, Task!ttVars
<1>6. CASE Task!Report
  BY <1>6 DEF Task!Report, Task!Told, Task!ttVars
<1>7. CASE Task!Flush
  <2>1. /\ tasks # <<>> /\ tasks' = Tail(tasks) /\ callerPc' = Task!Told(Head(tasks))
        /\ UNCHANGED <<job, ran, workerPc>>
    BY <1>7 DEF Task!Flush, Task!Flushed
  <2>2. /\ tasks' \in Seq(Callers) /\ Len(tasks) \in Nat \ {0} /\ Head(tasks) = tasks[1]
        /\ Head(tasks) \in Callers /\ Len(tasks') = Len(tasks) - 1
        /\ \A i \in 1 .. Len(tasks') : i + 1 \in 1 .. Len(tasks) /\ tasks'[i] = tasks[i + 1]
    BY <2>1, FirstIsTaken
  <2>3. 1 \in 1 .. Len(tasks) /\ \A i \in 1 .. Len(tasks') : i + 1 # 1 /\ i \in Int
    BY <2>2
  <2>4. \A i, j \in 1 .. Len(tasks') : i + 1 = j + 1 => i = j
    BY <2>3
  <2>5. /\ callerPc' \in [Callers -> InCall \cup {"idle", "woken"}]
        /\ \A c \in Callers \ {Head(tasks)} : callerPc'[c] = callerPc[c]
    BY <2>1, <2>2 DEF Task!Told
  <2>6. \A i \in 1 .. Len(tasks') : tasks'[i] \in Callers \ {Head(tasks)}
    BY <2>2, <2>3
  <2>7. TasksAreCallers'
    BY <2>1, <2>2, <2>4, <2>5, <2>6
  <2>8. JobIsTaken'
    BY <2>1, <2>2, <2>3, <2>5
  <2> QED
    BY <2>7, <2>8
<1>8. CASE UNCHANGED <<tasks, job, callerPc, ran>> /\ workerPc' \notin {"run", "report"}
  BY <1>8
<1>9. CASE UNCHANGED <<tasks, job, callerPc, ran, workerPc>>
  BY <1>9
<1>10. Task!Top \/ Task!Woken \/ Task!Spurious \/ Task!SignalWorker =>
         UNCHANGED <<tasks, job, callerPc, ran>>
           /\ (workerPc' \notin {"run", "report"} \/ UNCHANGED workerPc)
  BY DEF Task!Top, Task!Woken, Task!Spurious, Task!SignalWorker, Task!ttVars
<1> QED
  BY <1>1, <1>2, <1>3, <1>4, <1>5, <1>6, <1>7, <1>8, <1>9, <1>10
     DEF Task!Next, Task!Worker, Task!Destroyer, Task!ClearRunning, Task!Join, Task!Free,
         Task!vars, Task!ttVars

\* A caller is told only after its task was run, or once the thread is gone, for any number
\* of callers, whenever they call and whenever the thread is destroyed.
THEOREM ToldAfterRun == Task!Init /\ [][Task!Next]_(Task!vars) => []Task!ReturnsWhenRun
<1> DEFINE Inv == TasksAreCallers /\ JobIsTaken /\ Task!ReturnsWhenRun
<1>1. Task!Init => Inv
  BY DEF Task!Init, TasksAreCallers, JobIsTaken, Task!ReturnsWhenRun, InCall
<1>2. Inv /\ [Task!Next]_(Task!vars) => Inv'
  <2> SUFFICES ASSUME Inv, [Task!Next]_(Task!vars) PROVE Task!ReturnsWhenRun'
    BY TasksStay
  <2> USE DEF Task!ReturnsWhenRun, TasksAreCallers
  <2>1. ASSUME NEW c \in Callers, Task!Schedule(c) PROVE Task!ReturnsWhenRun'
    BY <2>1 DEF Task!Schedule
  <2>2. ASSUME NEW c \in Callers, Task!Wait(c) \/ Task!Return(c) PROVE Task!ReturnsWhenRun'
    BY <2>2 DEF Task!Wait, Task!Return
  <2>3. CASE Task!Run
    BY <2>3 DEF Task!Run
  <2>4. CASE Task!Report
    BY <2>4 DEF Task!Report, Task!Told, JobIsTaken
  <2>5. CASE Task!Flush
    BY <2>5, FirstIsTaken DEF Task!Flush, Task!Flushed, Task!Told
  <2>6. CASE UNCHANGED <<callerPc, ran>>
              /\ (destroyPc \in {"flushing", "gone"} => destroyPc' \in {"flushing", "gone"})
    BY <2>6
  <2> QED
    BY <2>1, <2>2, <2>3, <2>4, <2>5, <2>6
       DEF Task!Next, Task!Worker, Task!Top, Task!Take, Task!Woken, Task!Spurious,
           Task!ClearRunning, Task!Destroyer, Task!SignalWorker, Task!Join, Task!Free,
           Task!vars
<1> QED
  BY <1>1, <1>2, PTL

\* Each step on the queue and its history.
LEMMA OrderStays ==
  ASSUME TasksAreCallers, QueueIsOrder, [Task!Next]_(Task!vars)
  PROVE  QueueIsOrder'
<1> USE DEF TasksAreCallers, QueueIsOrder
<1>1. ASSUME NEW c \in Callers, Task!Schedule(c) PROVE QueueIsOrder'
  <2>1. /\ destroyPc = "none" /\ destroyPc' = destroyPc /\ job' = job
        /\ tasks' = Append(tasks, c) /\ order' = Append(order, c)
        /\ workerPc' = "run" <=> workerPc = "run"
    BY <1>1 DEF Task!Schedule
  <2>2. order' \in Seq(Callers) /\ order' # <<>>
    BY <2>1, LastIsQueued
  <2>3. CASE workerPc = "run"
    <3>1. order # <<>> /\ Head(order) = job /\ Tail(order) = tasks
      BY <2>1, <2>3
    <3>2. Head(order') = Head(order) /\ Tail(order') = Append(Tail(order), c)
      BY <2>1, <3>1, LastIsQueued
    <3> QED
      BY <2>1, <2>2, <2>3, <3>1, <3>2
  <2>4. CASE workerPc # "run"
    BY <2>1, <2>2, <2>4
  <2> QED
    BY <2>3, <2>4
<1>2. CASE Task!Take
  <2>1. CASE tasks = <<>>
    BY <1>2, <2>1 DEF Task!Take
  <2>2. CASE tasks # <<>>
    <3>1. /\ workerPc = "lock" /\ workerPc' = "run" /\ job' = tasks[1]
          /\ tasks' = Task!RemoveAt(tasks, 1) /\ UNCHANGED <<destroyPc, order>>
      BY <1>2, <2>2 DEF Task!Take, Task!Picked
    <3>2. Task!RemoveAt(tasks, 1) = Tail(tasks) /\ tasks[1] = Head(tasks)
      BY <2>2, FirstIsTaken
    <3>3. order = tasks /\ destroyPc \notin {"flushing", "gone"}
      BY <3>1
    <3> QED
      BY <2>2, <3>1, <3>2, <3>3
  <2> QED
    BY <2>1, <2>2
<1>3. CASE Task!Run
  <2>1. /\ workerPc = "run" /\ workerPc' = "report" /\ order' = Tail(order)
        /\ UNCHANGED <<tasks, job, destroyPc>>
    BY <1>3 DEF Task!Run, Task!ttVars
  <2>2. order # <<>> /\ Tail(order) = tasks /\ destroyPc \notin {"flushing", "gone"}
    BY <2>1
  <2> QED
    BY <2>1, <2>2
<1>4. CASE Task!Flush
  <2>1. /\ destroyPc = "flushing" /\ UNCHANGED <<destroyPc, order, workerPc>>
    BY <1>4 DEF Task!Flush
  <2> QED
    BY <2>1
<1>5. CASE Task!Join
  BY <1>5 DEF Task!Join, Task!ttVars
<1>6. CASE Task!Free
  BY <1>6 DEF Task!Free, Task!ttVars
<1>7. CASE UNCHANGED <<tasks, job, order>> /\ workerPc \notin {"run", "exited"}
            /\ workerPc' # "run"
            /\ (destroyPc' = destroyPc \/ destroyPc' \notin {"flushing", "gone"})
  BY <1>7
<1>8. CASE UNCHANGED <<tasks, job, order, workerPc>>
            /\ (destroyPc' = destroyPc
                 \/ {destroyPc, destroyPc'} \cap {"flushing", "gone"} = {})
  BY <1>8
<1>9. ASSUME NEW c \in Callers, Task!Wait(c) \/ Task!Return(c)
      PROVE  UNCHANGED <<tasks, job, order, workerPc, destroyPc>>
  BY <1>9 DEF Task!Wait, Task!Return, Task!ttVars
<1>10. Task!Top \/ Task!Woken \/ Task!Spurious \/ Task!Report =>
         /\ UNCHANGED <<tasks, job, order, destroyPc>>
         /\ workerPc \notin {"run", "exited"} /\ workerPc' # "run"
  BY DEF Task!Top, Task!Woken, Task!Spurious, Task!Report, Task!ttVars
<1>11. Task!ClearRunning \/ Task!SignalWorker =>
         /\ UNCHANGED <<tasks, job, order>>
         /\ {destroyPc, destroyPc'} \cap {"flushing", "gone"} = {}
         /\ workerPc' = workerPc \/ (workerPc = "wait" /\ workerPc' = "woken")
  BY DEF Task!ClearRunning, Task!SignalWorker, Task!ttVars
<1>12. CASE Task!ClearRunning \/ Task!SignalWorker
  BY <1>12, <1>11, <1>7, <1>8
<1> QED
  BY <1>1, <1>2, <1>3, <1>4, <1>5, <1>6, <1>7, <1>8, <1>9, <1>10, <1>12
     DEF Task!Next, Task!Worker, Task!Destroyer, Task!vars, Task!ttVars

\* Tasks are run in the order they were queued, for any number of callers.
THEOREM TasksRunInOrder == Task!Init /\ [][Task!Next]_(Task!vars) => Task!RunInOrder
<1> DEFINE Inv == TasksAreCallers /\ JobIsTaken /\ QueueIsOrder
<1>1. Task!Init => Inv
  BY DEF Task!Init, TasksAreCallers, JobIsTaken, QueueIsOrder, InCall
<1>2. Inv /\ [Task!Next]_(Task!vars) => Inv'
  BY TasksStay, OrderStays
<1>3. Inv /\ [Task!Next]_(Task!vars)
        => [workerPc = "run" /\ workerPc' = "report" => Head(order) = job]_(Task!vars)
  BY DEF QueueIsOrder
<1> QED
  BY <1>1, <1>2, <1>3, PTL DEF Task!RunInOrder

-----------------------------------------------------------------------------
(* The choice of an image region.                                          *)

\* Where a thread has to be for imgLock_ to be its own; a frame is in pieces only while
\* the image thread copies it.
LockHeld ==
  /\ imagePc = "copy" => imgLock = "image" /\ imgPtr # None
  /\ eventPc = "save" => imgLock = "event"
  /\ guiPc \notin {"idle", "crashed"} => imgLock = "render"
  /\ imgPtr # None => \E frame, whole : imgPtr = [frame |-> frame, whole |-> whole]
  /\ imgPtr # None /\ imagePc # "copy" => imgPtr.whole

\* LockHeld is an invariant.
LEMMA LockHeldInvariant ==
  ASSUME \A frame, whole : [frame |-> frame, whole |-> whole] # None
  PROVE  Mask!Spec => []LockHeld
<1>1. Mask!Init => LockHeld
  BY DEF Mask!Init, LockHeld
<1>2. LockHeld /\ [Mask!Next]_(Mask!vars) => LockHeld'
  <2> SUFFICES ASSUME LockHeld, [Mask!Next]_(Mask!vars) PROVE LockHeld'
    OBVIOUS
  <2> USE DEF LockHeld
  <2>1. CASE Mask!ImageThread
    <3>1. CASE Mask!StartMaskMode \/ Mask!GetImageFrame \/ Mask!SetMaskFilter
      BY <3>1 DEF Mask!StartMaskMode, Mask!GetImageFrame, Mask!SetMaskFilter,
                  Mask!imageVars, Mask!eventVars
    <3>2. CASE Mask!UpdateImage
      BY <3>2 DEF Mask!UpdateImage, Mask!imageVars, Mask!eventVars
    <3>3. CASE Mask!CopyImage
      BY <3>3 DEF Mask!CopyImage, Mask!imageVars, Mask!eventVars
    <3> QED
      BY <2>1, <3>1, <3>2, <3>3 DEF Mask!ImageThread
  <2>2. CASE Mask!GtkThread
    <3>1. ASSUME NEW p \in Clicks, Mask!AddMaskPoint(p) PROVE LockHeld'
      BY <3>1 DEF Mask!AddMaskPoint, Mask!imageVars
    <3>2. CASE Mask!PushMaskPoint \/ Mask!StoreMaskPts
      BY <3>2 DEF Mask!PushMaskPoint, Mask!StoreMaskPts, Mask!imageVars, Mask!eventVars
    <3>3. CASE Mask!SaveImg
      BY <3>3 DEF Mask!SaveImg, Mask!imageVars
    <3>4. CASE Mask!SaveImgDone
      BY <3>4 DEF Mask!SaveImgDone, Mask!imageVars
    <3> QED
      BY <2>2, <3>1, <3>2, <3>3, <3>4 DEF Mask!GtkThread
  <2>3. CASE Mask!RenderThread
    BY <2>3 DEF Mask!RenderThread, Mask!Render, Mask!DrawImage, Mask!PlotMaskPosition,
                Mask!PushCorner, Mask!CountPoints, Mask!PopPoint, Mask!RenderDone,
                Mask!RenderTo, Mask!imageVars, Mask!eventVars
  <2>4. CASE UNCHANGED Mask!vars
    BY <2>4 DEF Mask!vars, Mask!imageVars, Mask!eventVars
  <2> QED
    BY <2>1, <2>2, <2>3, <2>4 DEF Mask!Next
<1> QED
  BY <1>1, <1>2, PTL DEF Mask!Spec

\* Whatever the clicks and however many the frames, what is drawn or saved is a whole
\* frame (imgLock_ is held from before the old frame is freed until the new one is
\* copied).
THEOREM ReadsWholeFrames ==
  ASSUME \A frame, whole : [frame |-> frame, whole |-> whole] # None
  PROVE  Mask!Spec => []Mask!FrameReadIsWhole
<1>1. LockHeld => Mask!FrameReadIsWhole
  BY DEF LockHeld, Mask!FrameReadIsWhole, Mask!Reading
<1> QED
  BY <1>1, LockHeldInvariant, PTL

\* No frame is freed under who draws or saves it.
THEOREM FrameOutlivesReading ==
  ASSUME \A frame, whole : [frame |-> frame, whole |-> whole] # None
  PROVE  Mask!Spec => Mask!FrameKeptWhileRead
<1>1. LockHeld /\ [Mask!Next]_(Mask!vars)
        => [(Mask!Reading /\ Mask!Reading') => imgPtr' = imgPtr]_(Mask!vars)
  <2> SUFFICES ASSUME LockHeld, Mask!Next, Mask!Reading, imgPtr' # imgPtr PROVE FALSE
    BY DEF Mask!vars, Mask!imageVars, Mask!eventVars
  <2>1. Mask!UpdateImage \/ Mask!CopyImage
    BY DEF Mask!Next, Mask!ImageThread, Mask!GtkThread, Mask!RenderThread,
           Mask!StartMaskMode, Mask!GetImageFrame, Mask!SetMaskFilter, Mask!AddMaskPoint,
           Mask!PushMaskPoint, Mask!StoreMaskPts, Mask!SaveImg, Mask!SaveImgDone,
           Mask!Render, Mask!DrawImage, Mask!PlotMaskPosition, Mask!PushCorner,
           Mask!CountPoints, Mask!PopPoint, Mask!RenderDone, Mask!RenderTo
  <2> QED
    BY <2>1 DEF Mask!UpdateImage, Mask!CopyImage, Mask!Reading, LockHeld
<1> QED
  BY <1>1, LockHeldInvariant, PTL DEF Mask!Spec, Mask!FrameKeptWhileRead

\* A click has been accepted and its point is yet to come.
Coming == IF eventPc = "push" THEN 1 ELSE 0

\* How many points there may be, with the one to come, while the render thread adds its
\* corners and takes two points away.
MostPoints ==
  IF guiPc = "corner3" THEN 3 ELSE IF guiPc \in {"corner4", "pop3"} THEN 4 ELSE 5

\* What PointsBounded rests on.
FewPoints ==
  /\ pointsClicked \in Seq(Clicks \cup {Corner, None})
  /\ click \in Clicks \cup {None}
  /\ Len(pointsClicked) + Coming <= MostPoints

\* Taking the last point away.
LEMMA FrontIsShorter ==
  ASSUME NEW S, NEW seq \in Seq(S), seq # <<>>
  PROVE  Mask!Front(seq) \in Seq(S) /\ Len(Mask!Front(seq)) = Len(seq) - 1
<1>1. Len(seq) - 1 \in 0 .. Len(seq)
  OBVIOUS
<1>2. ASSUME NEW n \in 0 .. Len(seq)
      PROVE  SubSeq(seq, 1, n) \in Seq(S) /\ Len(SubSeq(seq, 1, n)) = n
  OBVIOUS
<1> QED
  BY <1>1, <1>2 DEF Mask!Front

\* Each step on the vector of points.
LEMMA FewPointsStep == ASSUME FewPoints, [Mask!Next]_(Mask!vars) PROVE FewPoints'
<1> USE DEF FewPoints
<1>1. CASE Mask!ImageThread
  BY <1>1 DEF Mask!ImageThread, Mask!StartMaskMode, Mask!GetImageFrame, Mask!UpdateImage,
              Mask!CopyImage, Mask!SetMaskFilter, Coming, MostPoints, Mask!eventVars
<1>2. CASE Mask!GtkThread
  <2>1. ASSUME NEW p \in Clicks, Mask!AddMaskPoint(p) PROVE FewPoints'
    <3>1. /\ eventPc' = "push" /\ click' = p /\ guiPc' = guiPc
          /\ pointsClicked' = IF Len(pointsClicked) >= 2 THEN <<>> ELSE pointsClicked
      BY <2>1 DEF Mask!AddMaskPoint
    <3>2. pointsClicked' \in Seq(Clicks \cup {Corner, None}) /\ Len(pointsClicked') <= 1
      BY <3>1
    <3> QED
      BY <3>1, <3>2 DEF Coming, MostPoints
  <2>2. CASE Mask!PushMaskPoint
    <3>1. /\ eventPc = "push" /\ eventPc' = "idle" /\ click' = None /\ guiPc' = guiPc
          /\ pointsClicked' = Append(pointsClicked, click)
      BY <2>2 DEF Mask!PushMaskPoint
    <3>2. /\ pointsClicked' \in Seq(Clicks \cup {Corner, None})
          /\ Len(pointsClicked') = Len(pointsClicked) + 1
      BY <3>1
    <3> QED
      BY <3>1, <3>2 DEF Coming, MostPoints
  <2>3. CASE Mask!StoreMaskPts \/ Mask!SaveImg \/ Mask!SaveImgDone
    BY <2>3 DEF Mask!StoreMaskPts, Mask!SaveImg, Mask!SaveImgDone, Coming, MostPoints,
                Mask!eventVars
  <2> QED
    BY <1>2, <2>1, <2>2, <2>3 DEF Mask!GtkThread
<1>3. CASE Mask!RenderThread
  <2> USE DEF Mask!RenderTo, Mask!eventVars
  <2>1. CASE Mask!PushCorner
    <3>1. /\ guiPc \in {"corner3", "corner4"} /\ UNCHANGED <<eventPc, click>>
          /\ guiPc' = IF guiPc = "corner3" THEN "corner4" ELSE "count"
          /\ pointsClicked' = Append(pointsClicked, Corner)
      BY <2>1 DEF Mask!PushCorner
    <3>2. /\ pointsClicked' \in Seq(Clicks \cup {Corner, None})
          /\ Len(pointsClicked') = Len(pointsClicked) + 1
      BY <3>1
    <3> QED
      BY <3>1, <3>2 DEF Coming, MostPoints
  <2>2. CASE Mask!PopPoint
    <3>1. guiPc \in {"pop4", "pop3"} /\ UNCHANGED <<eventPc, click>>
      BY <2>2 DEF Mask!PopPoint
    <3>2. CASE pointsClicked = <<>>
      <4>1. guiPc' = "crashed" /\ pointsClicked' = pointsClicked
        BY <2>2, <3>2 DEF Mask!PopPoint
      <4> QED
        BY <3>1, <3>2, <4>1 DEF Coming, MostPoints
    <3>3. CASE pointsClicked # <<>>
      <4>1. /\ guiPc' = IF guiPc = "pop4" THEN "pop3" ELSE "unlock"
            /\ pointsClicked' = Mask!Front(pointsClicked)
        BY <2>2, <3>3 DEF Mask!PopPoint
      <4>2. Len(pointsClicked) \in Nat \ {0}
        BY <3>3
      <4>4. /\ pointsClicked' \in Seq(Clicks \cup {Corner, None})
            /\ Len(pointsClicked') = Len(pointsClicked) - 1
        BY <3>3, <4>1, FrontIsShorter
      <4>5. Coming' = Coming /\ Coming \in {0, 1} /\ Len(pointsClicked) \in Nat
        BY <3>1, <4>2 DEF Coming
      <4>6. Len(pointsClicked) + Coming <= MostPoints
        OBVIOUS
      <4>7. CASE guiPc = "pop4"
        <5>1. MostPoints = 5 /\ MostPoints' = 4
          BY <4>1, <4>7 DEF MostPoints
        <5>2. Len(pointsClicked)' + Coming' <= MostPoints'
          BY <4>4, <4>5, <4>6, <5>1
        <5> QED
          BY <3>1, <4>4, <5>2
      <4>8. CASE guiPc = "pop3"
        <5>1. MostPoints = 4 /\ MostPoints' = 5
          BY <4>1, <4>8 DEF MostPoints
        <5>2. Len(pointsClicked)' + Coming' <= MostPoints'
          BY <4>4, <4>5, <4>6, <5>1
        <5> QED
          BY <3>1, <4>4, <5>2
      <4> QED
        BY <3>1, <4>7, <4>8
    <3> QED
      BY <3>2, <3>3
  <2>3. CASE Mask!Render \/ Mask!DrawImage \/ Mask!CountPoints \/ Mask!RenderDone
    <3>1. /\ UNCHANGED <<pointsClicked, eventPc, click>>
          /\ guiPc \in {"idle", "draw", "count", "unlock"}
          /\ guiPc' \in {"draw", "plot", "unlock", "pop4", "idle"}
      BY <2>3 DEF Mask!Render, Mask!DrawImage, Mask!CountPoints, Mask!RenderDone
    <3> QED
      BY <3>1 DEF Coming, MostPoints
  <2>4. CASE Mask!PlotMaskPosition
    <3>1. /\ UNCHANGED <<pointsClicked, eventPc, click>>
          /\ guiPc = "plot"
          /\ guiPc' = IF Len(pointsClicked) = 2 THEN "corner3" ELSE "count"
      BY <2>4 DEF Mask!PlotMaskPosition
    <3>2. Coming' = Coming /\ Coming \in {0, 1} /\ Len(pointsClicked) \in Nat
      BY <3>1 DEF Coming
    <3>3. MostPoints = 5 /\ MostPoints' = IF Len(pointsClicked) = 2 THEN 3 ELSE 5
      BY <3>1 DEF MostPoints
    <3>4. Len(pointsClicked) + Coming <= MostPoints
      OBVIOUS
    <3>5. Len(pointsClicked) = 2 => Len(pointsClicked) + Coming <= 3
      BY <3>2
    <3>6. Len(pointsClicked') + Coming' <= MostPoints'
      BY <3>1, <3>2, <3>3, <3>4, <3>5
    <3> QED
      BY <3>1, <3>6
  <2> QED
    BY <1>3, <2>1, <2>2, <2>3, <2>4 DEF Mask!RenderThread
<1>4. CASE UNCHANGED Mask!vars
  BY <1>4 DEF Mask!vars, Mask!eventVars, Coming, MostPoints
<1> QED
  BY <1>1, <1>2, <1>3, <1>4 DEF Mask!Next

\* Though nothing guards the points that the clicks and the drawing of the mask share,
\* there are never more than the four corners and one click.
THEOREM PointsStayFew == Mask!Spec => []Mask!PointsBounded
<1>1. Mask!Init => FewPoints
  BY DEF Mask!Init, FewPoints, Coming, MostPoints
<1>2. FewPoints => Mask!PointsBounded
  BY DEF FewPoints, Mask!PointsBounded, Coming, MostPoints
<1> QED
  BY <1>1, <1>2, FewPointsStep, PTL DEF Mask!Spec

-----------------------------------------------------------------------------
(* All of them: each step of MCWindows is a step of one part, or of none.  *)

\* The steps of MCWindows that are a part's: of the task thread, the render thread,
LEMMA TasksRun == Spec => Task!Init /\ [][Task!Next]_taskVars
<1>1. Init => Task!Init
  BY DEF Init
<1>2. [Next]_vars => [Task!Next]_taskVars
  BY DEF Next, Step, vars, taskVars
<1> QED
  BY <1>1, <1>2, PTL DEF Spec

LEMMA RenderRuns == Spec => Render!Init /\ [][Render!Next]_renderVars
<1>1. Init => Render!Init
  BY DEF Init
<1>2. [Next]_vars => [Render!Next]_renderVars
  BY DEF Next, Step, vars, renderVars
<1> QED
  BY <1>1, <1>2, PTL DEF Spec

\* of GTK's events, twice, and of the choice of a mask,
LEMMA DispatchRuns == Spec => Events!DispatchInit /\ [][Events!DispatchNext]_dispatchVars
<1>1. Init => Events!DispatchInit
  BY DEF Init
<1>2. [Next]_vars => [Events!DispatchNext]_dispatchVars
  BY DEF Next, Step, vars, dispatchVars
<1> QED
  BY <1>1, <1>2, PTL DEF Spec

LEMMA EventsRun == Spec => Events!Init /\ [][Events!Next]_eventVars
<1>1. Init => Events!Init
  BY DEF Init
<1>2. [Next]_vars => [Events!Next]_eventVars
  BY DEF Next, Step, vars, eventVars
<1> QED
  BY <1>1, <1>2, PTL DEF Spec

LEMMA MaskRuns == Spec => Mask!Spec
<1>1. Init => Mask!Init
  BY DEF Init
<1>2. [Next]_vars => [Mask!Next]_maskVars
  BY DEF Next, Step, vars, maskVars
<1>3. [Mask!Next]_maskVars => [Mask!Next]_(Mask!vars)
  BY DEF maskVars, Mask!vars, Mask!imageVars, Mask!eventVars
<1> QED
  BY <1>1, <1>2, <1>3, PTL DEF Spec, Mask!Spec

\* and of the list of buffers, the console and a layer's input.
LEMMA ListRuns == Spec => Buffers!Init /\ [][Buffers!Next]_listVars
<1>1. Init => Buffers!Init
  BY DEF Init
<1>2. [Next]_vars => [Buffers!Next]_listVars
  BY DEF Next, Step, vars, listVars
<1> QED
  BY <1>1, <1>2, PTL DEF Spec

LEMMA ConsoleRuns == Spec => Console!Init /\ [][Console!Next]_consoleVars
<1>1. Init => Console!Init
  BY DEF Init
<1>2. [Next]_vars => [Console!Next]_consoleVars
  BY DEF Next, Step, vars, consoleVars
<1> QED
  BY <1>1, <1>2, PTL DEF Spec

LEMMA InputRuns == Spec => Input!Init /\ [][Input!Next]_inputVars
<1>1. Init => Input!Init
  BY DEF Init
<1>2. [Next]_vars => [Input!Next]_inputVars
  BY DEF Next, Step, vars, inputVars
<1> QED
  BY <1>1, <1>2, PTL DEF Spec

\* Whatever changes, is resized, clicked or typed, and in whatever order the threads go on:
\* what is shown, saved or drawn is one finished picture, of a console too, and the mask's
\* points on it stay few.
THEOREM PicturesStayWhole ==
  ASSUME RenderFits, \A frame, whole : [frame |-> frame, whole |-> whole] # None
  PROVE  Spec => []PicturesAreWhole
<1>1. Mask!Spec => []Mask!FrameReadIsWhole
  BY ReadsWholeFrames
<1>2. Mask!Spec => []Mask!PointsBounded
  BY PointsStayFew
<1> QED
  BY <1>1, <1>2, RenderRuns, MaskRuns, ConsoleRuns, ShownIsWhole, ConsoleIsShown, PTL
     DEF PicturesAreWhole

\* It stays that picture for as long as it is read: a screenshot holds the render thread
\* off its buffer, and imgLock_ the image thread off its frame.
THEOREM PicturesStay ==
  ASSUME RenderFits, \A frame, whole : [frame |-> frame, whole |-> whole] # None
  PROVE  Spec => PicturesKept
<1> DEFINE Kept == shot.buffer # None /\ shot.whole
                     => pixbufs'[shot.buffer] = pixbufs[shot.buffer]
<1>1. Mask!Spec => Mask!FrameKeptWhileRead
  BY FrameOutlivesReading
<1>2. [Kept]_renderVars => [Kept]_(Render!vars)
  BY DEF renderVars, Render!vars, Render!renderVars
<1>3. Render!ShotIsWhole <=> [][Kept]_(Render!vars)
  BY DEF Render!ShotIsWhole
<1>4. Render!Init /\ [][Render!Next]_renderVars => [][Kept]_renderVars
  BY ShotStaysWhole
<1>5. Spec => Render!ShotIsWhole
  BY <1>2, <1>3, <1>4, RenderRuns, PTL
<1> QED
  BY <1>1, <1>5, MaskRuns, PTL DEF PicturesKept

\* A caller is told that its task has run only after it did, unless the thread is being
\* destroyed.
THEOREM CallersAreToldInTime == Spec => []ReturnsWhenRun
<1>1. Task!Init /\ [][Task!Next]_(Task!vars) => []Task!ReturnsWhenRun
  BY ToldAfterRun
<1>2. [Task!Next]_taskVars => [Task!Next]_(Task!vars)
  BY DEF taskVars, Task!vars, Task!ttVars
<1> QED
  BY <1>1, <1>2, TasksRun, PTL DEF ReturnsWhenRun

\* Tasks run in the order they were queued, listeners hear events in theirs, the first
\* handler that wants an event has it, with the buttons that are down, and a completion
\* takes the place of the last token.
THEOREM AllInOrder ==
  ASSUME ConsoleFits, InputFits
  PROVE  Spec => InOrder
<1>1. Spec => Task!RunInOrder
  <2>1. Task!Init /\ [][Task!Next]_(Task!vars) => Task!RunInOrder
    BY TasksRunInOrder
  <2>2. [Task!Next]_taskVars => [Task!Next]_(Task!vars)
    BY DEF taskVars, Task!vars, Task!ttVars
  <2> QED
    BY <2>1, <2>2, TasksRun, PTL
<1>2. Spec => Events!CalledInOrder
  <2> DEFINE CallsNext ==
        \A l \in Listeners :
          dispatchPc = "calling" /\ calling # <<>> /\ Head(calling) = l
            /\ calling' = Tail(calling)
          => Events!Contains(listeners, l) /\ Head(batch) = heard[l] + 1
  <2>1. Events!DispatchInit /\ [][Events!DispatchNext]_dispatchVars => [][CallsNext]_dispatchVars
    BY HeardInOrder
  <2>2. [CallsNext]_dispatchVars => [CallsNext]_(Events!dispatchVars)
    BY DEF dispatchVars, Events!dispatchVars
  <2>3. Events!CalledInOrder <=> [][CallsNext]_(Events!dispatchVars)
    BY DEF Events!CalledInOrder
  <2> QED
    BY <2>1, <2>2, <2>3, DispatchRuns, PTL
<1>3. Spec => Input!FirstTakes
  <2> DEFINE First ==
        offer # Input!NoEvent /\ offer' = Input!NoEvent =>
          LET wanting == offer.wanted \cap Input!ToSet(handlers)
          IN IF wanting = {} THEN taken' = Input!Absent
             ELSE taken' \in wanting /\ \A h \in wanting : OrderOf[taken'] <= OrderOf[h]
  <2>1. Input!Init /\ [][Input!Next]_inputVars => [][First]_inputVars
    BY FirstHasIt
  <2>2. [First]_inputVars => [First]_(Input!vars)
    BY DEF inputVars, Input!vars, Input!mouseVars, Input!offerVars, Input!layerVars
  <2>3. Input!FirstTakes <=> [][First]_(Input!vars)
    BY DEF Input!FirstTakes
  <2> QED
    BY <2>1, <2>2, <2>3, InputRuns, PTL
<1>4. Spec => Input!ButtonsAreDown
  <2> DEFINE Down ==
        offer = Input!NoEvent /\ offer' # Input!NoEvent /\ offer'.type # "key" /\ sure' =>
          offer'.mask = held'
  <2>1. Input!Init /\ [][Input!Next]_inputVars => [][Down]_inputVars
    BY ButtonsOfEvents
  <2>2. [Down]_inputVars => [Down]_(Input!vars)
    BY DEF inputVars, Input!vars, Input!mouseVars, Input!offerVars, Input!layerVars
  <2>3. Input!ButtonsAreDown <=> [][Down]_(Input!vars)
    BY DEF Input!ButtonsAreDown
  <2> QED
    BY <2>1, <2>2, <2>3, InputRuns, PTL
<1>5. Spec => Console!CompletesToken
  <2> DEFINE Completed ==
        Console!PressKey("tab") /\ command' # command =>
          \E c \in Console!Completions(command) :
            command' = SubSeq(command, 1, Console!TokenAt(command) - 1) \o c
  <2>1. Console!Init /\ [][Console!Next]_consoleVars => [][Completed]_consoleVars
    BY TokenIsCompleted
  <2>2. [Completed]_consoleVars => [Completed]_(Console!vars)
    BY DEF consoleVars, Console!vars, Console!typed
  <2>3. Console!CompletesToken <=> [][Completed]_(Console!vars)
    BY DEF Console!CompletesToken
  <2> QED
    BY <2>1, <2>2, <2>3, ConsoleRuns, PTL
<1> QED
  BY <1>1, <1>2, <1>3, <1>4, <1>5, PTL DEF InOrder

\* Listeners know the cameras as they were drawn last, a drag stays with the layer it began
\* on, no event is made of a camera that is not there; the console brings back what was
\* entered, and aborts in two cases only.
THEOREM EventsGoThere ==
  ASSUME ConsoleFits
  PROVE  Spec => []EventsGoWhereMeant
BY EventsArePlaced, EnteredIsRecalled, ConsoleAborts, EventsRun, ConsoleRuns, PTL
   DEF EventsGoWhereMeant

\* Once every message is applied, the window's list of buffers is the renderer's; and the
\* display has the draw order its layer has.
THEOREM DisplayStaysKnown ==
  ASSUME InputFits
  PROVE  Spec => []DisplayIsKnown
BY ListIsRight, InputInvariant, ListRuns, InputRuns, PTL DEF DisplayIsKnown
=============================================================================
