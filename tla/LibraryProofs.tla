--------------------------- MODULE LibraryProofs ---------------------------
(***************************************************************************)
(* The parts of the libraries about which something is proved, in one      *)
(* model, and the proofs: image sources, their features and URLs, the      *)
(* camera, viewports, parameter windows and displays on other computers.   *)
(* The parts have nothing to do with each other: the first state picks the *)
(* one that runs.  MCLibrary adds the other libraries and values for TLC.  *)
(***************************************************************************)
EXTENDS Integers, Sequences, FiniteSets, WellFoundedInduction, TLAPS

CONSTANTS
  NoFrame, Unmapped, NumBuffers, MaxFrames, MaxStarts, MaxSets,
  LogLength, MaxEntries,
  Positions, Windows, Shares, Sizes, Offsets, Durations, MaxTime, MaxCommands, MaxChanges,
  None, RemoteBuffers, RemoteResources, RemoteFrames, SentFrames, WireSize,
  ParamNames, ParamListeners, ParamInitials, ParamValues, ParamRanges, ParamRows,
  MaxWidgets, MaxCalls,
  Drivers, SourceUrls, UrlFeatures, NumberOf, MaxValue

VARIABLES
  source,
  incoming, outgoing, contents, userBuffers, streaming, v4l2Starts, v4l2Taken, v4l2Last,
  ring, free, current, callerPc, ringStarts, ringTaken,
  record, cutShort, logLoop, lastFrame, nextFrame, given, outcome,
  files, pos, loop, again, result, aborted,
  usbControl, absolute, trigger, embed, setResult, usbAsked, usbSets,
  control, balance, strobe, frameInfo, selected, imager, asked, sets,
  now, pos0, mtime0, pos1, mtime1, saved, fit, following, bookmark, manip, commands,
  askedOfCamera, askedDefault, askedBookmark, seen,
  server, wire, viewer, mutex, message, pc, front, frontResc, sent,
  window, time, mode, rel0, abs0, since, rel1, align1, due, place, shownIn, changes,
  api, widgets, entries, listeners, underWay, keyFile, calls, heard,
  tool, linePc, options, said, toks, next, letter, okay, values, extras, url, parts,
  param, camera

V4l2 == INSTANCE V4l2Camera WITH
  starts <- v4l2Starts, taken <- v4l2Taken, lastLent <- v4l2Last

Ring == INSTANCE Dc1394Camera WITH
  starts <- ringStarts, taken <- ringTaken

Replay == INSTANCE ReplaySource WITH loop <- logLoop, dirLoop <- loop

UsbSet == INSTANCE UsbFeatures WITH
  MaxSets <- MaxSets + 1, control <- usbControl, result <- setResult, asked <- usbAsked,
  sets <- usbSets

Camera == INSTANCE CameraMgr WITH asked <- askedOfCamera

Remote == INSTANCE RemoteView WITH
  Buffers <- RemoteBuffers, Resources <- RemoteResources, Frames <- RemoteFrames,
  MaxFrames <- SentFrames, MaxWire <- WireSize

Viewport == INSTANCE ViewportMgr WITH
  now <- time, mtime0 <- since, mtime1 <- due, shown <- place

Params == INSTANCE ParamWidget WITH
  Names <- ParamNames, Listeners <- ParamListeners, Initials <- ParamInitials,
  Values <- ParamValues, Ranges <- ParamRanges, RowLists <- ParamRows,
  stack <- underWay, file <- keyFile

Opt(s, l, t, d) == [short |-> s, long |-> l, type |-> t, default |-> d]
Token(d, t) == [dashes |-> d, text |-> t, quoted |-> FALSE]
Say(f, l, v) == [form |-> f, long |-> l, value |-> v]
Plain == Token(0, <<"w">>)
Sayings ==
  {Say("--long", "verbose", Plain), Say("--long value", "verbose", Token(0, <<"false">>)),
   Say("--long=value", "verbose", Token(0, <<"false">>)), Say("-s", "verbose", Plain),
   Say("--long", "file", Plain), Say("--long=value", "file", [Plain EXCEPT !.quoted = TRUE]),
   Say("--long value", "file", Token(1, <<"v">>)), Say("-s", "file", Plain),
   Say("-s value", "file", Plain), Say("-s value", "file", Token(2, <<"w">>)),
   Say("-bs value", "file", Plain), Say("--long", "unknown", Plain),
   Say("token", "", Plain), Say("token", "", Token(1, <<"5">>)),
   Say("token", "", Token(1, <<"x", "v">>))}

Line == INSTANCE CommandLine WITH
  Options <- {Opt("v", "verbose", "bool", "false"), Opt("f", "file", "string", "w"),
              Opt("f", "fast", "bool", "true")},
  Digits <- {"5"}, Items <- Sayings, MaxItems <- 3,
  Urls <- SourceUrls, Features <- UrlFeatures, Number <- NumberOf, pc <- linePc

\* The camera's parameters in a URL come out as they were put in, and a format is asked
\* for by its number once; print's and the like may come out as anything.
ASSUME UrlAssumption ==
  /\ {"fidx", "format"} \cap UrlFeatures = {}
  /\ \A u \in SourceUrls :
       LET parsed == Line!Parsed(Line!Joined(u)).params
           ForCamera == UrlFeatures \cup {"fidx", "format"}
       IN /\ u.params \in Seq(STRING \X STRING) /\ Len(parsed) = Len(u.params)
          /\ \A i \in 1 .. Len(u.params) :
               /\ parsed[i][1] = <<u.params[i][1]>>
               /\ u.params[i][1] \in ForCamera => parsed[i][2] = <<u.params[i][2]>>
               /\ \A j \in 1 .. i :
                    u.params[i][1] = "fidx" /\ u.params[j][1] = "fidx" =>
                      u.params[j][2] = u.params[i][2]

v4l2Vars == <<incoming, outgoing, contents, userBuffers, streaming, v4l2Starts,
              v4l2Taken, v4l2Last>>
ringVars == <<ring, free, current, callerPc, ringStarts, ringTaken>>
logVars  == <<record, cutShort, logLoop, lastFrame, nextFrame, given, outcome>>
fileVars == <<files, pos, loop, again, result, aborted>>
usbSetVars  == <<usbControl, absolute, trigger, embed, setResult, usbAsked, usbSets>>
ringSetVars == <<control, balance, strobe, frameInfo, selected, imager, asked, sets>>
cameraVars == <<now, pos0, mtime0, pos1, mtime1, saved, fit, following, bookmark,
                manip, commands, askedOfCamera, askedDefault, askedBookmark, seen>>
remoteVars == <<server, wire, viewer, mutex, message, pc, front, frontResc, sent>>
viewportVars == <<window, time, mode, rel0, abs0, since, rel1, align1, due, place,
                  shownIn, changes>>
paramVars == <<api, widgets, entries, listeners, underWay, keyFile, calls, heard>>
lineVars == <<tool, linePc, options, said, toks, next, letter, okay, values, extras,
              url, parts, param, camera>>

partsVars == <<source, v4l2Vars, ringVars, logVars, fileVars, usbSetVars, ringSetVars,
               cameraVars, remoteVars, viewportVars, paramVars, lineVars>>

Init ==
  /\ source # "islog" => cutShort = FALSE
  /\ source # "camera" => pos0 = CHOOSE p \in Positions : TRUE
  /\ source # "viewport" => window = CHOOSE w \in Windows : TRUE
  /\ source # "parameters" => api = "pw" /\ keyFile = <<>>
  /\ source # "command line" => tool = "getopt"
  /\ source # "filedir" => files = << [type |-> "png", good |-> TRUE] >>
  /\ V4l2!Init /\ Ring!Init /\ Replay!LogInit /\ Replay!DirInit
  /\ UsbSet!Init /\ Ring!FeatureInit
  /\ Camera!Init /\ Remote!Init /\ Viewport!Init /\ Params!Init /\ Line!Init

\* A step of one part leaves the others alone.
Step(part, A) ==
  /\ source = part /\ A
  /\ UNCHANGED source
  /\ part # "v4l2" => UNCHANGED v4l2Vars
  /\ part # "dc1394" => UNCHANGED ringVars
  /\ part # "islog" => UNCHANGED logVars
  /\ part # "filedir" => UNCHANGED fileVars
  /\ part # "pgusb features" => UNCHANGED usbSetVars
  /\ part # "dc1394 features" => UNCHANGED ringSetVars
  /\ part # "camera" => UNCHANGED cameraVars
  /\ part # "remote" => UNCHANGED remoteVars
  /\ part # "viewport" => UNCHANGED viewportVars
  /\ part # "parameters" => UNCHANGED paramVars
  /\ part # "command line" => UNCHANGED lineVars

Next ==
  \/ Step("v4l2", V4l2!Next)
  \/ Step("dc1394", Ring!Next)
  \/ Step("islog", Replay!LogNext)
  \/ Step("filedir", Replay!DirNext)
  \/ Step("pgusb features", UsbSet!Next)
  \/ Step("dc1394 features", Ring!FeatureNext)
  \/ Step("camera", Camera!Next)
  \/ Step("remote", Remote!Next)
  \/ Step("viewport", Viewport!Next)
  \/ Step("parameters", Params!Next)
  \/ Step("command line", Line!Next)

Spec == Init /\ [][Next]_partsVars

-----------------------------------------------------------------------------
\* No buffer is lost or has two owners, no caller gets a frame older than the last
\* but one, and a directory's replay never leaves the list of its files (V4l2Camera,
\* Dc1394Camera, ReplaySource).
BuffersAccounted == V4l2!BuffersAccounted /\ Ring!BuffersAccounted /\ Replay!PosInFiles
\* No frame changes while it is lent, none comes twice or late, the caller gets the newest
\* whole frame, and a log is replayed in its order (V4l2Camera, Dc1394Camera, ReplaySource).
SourcesDeliver == V4l2!KeepsPromise /\ Ring!GetsNewest /\ Replay!InLogOrder
\* What was set stays set and in force, whatever is set next, and whoever listens
\* knows of it; a camera is set up as its URL says (UsbFeatures, Dc1394Camera,
\* ParamWidget, CommandLine).
SettingsHold ==
  /\ UsbSet!SettingsHold /\ UsbSet!ValueInForce /\ Ring!SettingsHold
  /\ Ring!HdrBitsApart /\ Params!HeardIsCurrent /\ Line!CameraSetAsAsked
\* What was saved of a window's parameters comes back when it is loaded, whatever its
\* listeners are told of meanwhile (ParamWidget).
SavedComesBack == Params!SavedComesBack
\* A viewer has the resources its codes name whenever it draws, and what the resource
\* manager has on record is what was sent (RemoteView).
ViewerKeepsUp == Remote!ViewerHasResources /\ Remote!RecordMatchesWire
\* The camera ends where it was last told to go, and it and a layer in its window get to
\* their places without a jump (CameraMgr, ViewportMgr).
CameraArrives == Camera!ArrivesAsAsked /\ Camera!MovesTowards /\ Viewport!MovesTowards

-----------------------------------------------------------------------------
\* An unmapped buffer is none with a frame, ...
QueueFits == NumBuffers \in Nat /\ \A n : [no |-> n] # Unmapped

\* ... and NULL is no record of the log.
LogFits == LogLength \in Nat /\ NoFrame \notin Nat

-----------------------------------------------------------------------------
(* The Video4Linux driver.                                                 *)

Distinct(s) == \A i, j \in 1 .. Len(s) : s[i] = s[j] => i = j

\* What V4l2!BuffersAccounted rests on: no buffer is in two places ...
QueuesApart ==
  /\ incoming \in Seq(V4l2!Buffers) /\ outgoing \in Seq(V4l2!Buffers)
  /\ userBuffers \subseteq V4l2!Buffers
  /\ Distinct(incoming) /\ Distinct(outgoing)
  /\ \A i \in 1 .. Len(incoming), j \in 1 .. Len(outgoing) : incoming[i] # outgoing[j]
  /\ \A i \in 1 .. Len(incoming) : incoming[i] \notin userBuffers
  /\ \A i \in 1 .. Len(outgoing) : outgoing[i] \notin userBuffers

\* ... and the filled ones hold frames newer than any lent.
FilledAreNewer ==
  /\ contents \in [V4l2!Buffers -> Nat \cup {Unmapped}]
  /\ v4l2Taken \in Nat /\ v4l2Last \in 0 .. v4l2Taken
  /\ \A i \in 1 .. Len(outgoing) : contents[outgoing[i]] \in (v4l2Last + 1) .. v4l2Taken
  /\ \A i, j \in 1 .. Len(outgoing) :
       i < j => contents[outgoing[i]] < contents[outgoing[j]]

\* The head of a queue of distinct buffers is in it no more when it is taken off.
LEMMA HeadLeaves ==
  ASSUME NEW s \in Seq(V4l2!Buffers), s # <<>>, Distinct(s)
  PROVE  /\ Head(s) \in V4l2!Buffers /\ Head(s) = s[1] /\ 1 \in 1 .. Len(s)
         /\ Tail(s) \in Seq(V4l2!Buffers) /\ Distinct(Tail(s))
         /\ Len(Tail(s)) = Len(s) - 1
         /\ \A i \in 1 .. Len(Tail(s)) :
              Tail(s)[i] = s[i + 1] /\ i + 1 \in 1 .. Len(s) /\ Tail(s)[i] # Head(s)
<1>1. /\ Head(s) \in V4l2!Buffers /\ Head(s) = s[1] /\ 1 \in 1 .. Len(s)
      /\ Tail(s) \in Seq(V4l2!Buffers) /\ Len(Tail(s)) = Len(s) - 1
  OBVIOUS
<1>2. \A i \in 1 .. Len(Tail(s)) : Tail(s)[i] = s[i + 1] /\ i + 1 \in 1 .. Len(s)
  OBVIOUS
<1>3. \A i \in 1 .. Len(Tail(s)) : Tail(s)[i] # Head(s)
  BY <1>1, <1>2 DEF Distinct
<1>4. Distinct(Tail(s))
  BY <1>1, <1>2 DEF Distinct
<1> QED
  BY <1>1, <1>2, <1>3, <1>4

\* A buffer that is not in a queue can be put at its end.
LEMMA AppendKeepsDistinct ==
  ASSUME NEW s \in Seq(V4l2!Buffers), NEW b \in V4l2!Buffers, Distinct(s),
         \A i \in 1 .. Len(s) : s[i] # b
  PROVE  /\ Append(s, b) \in Seq(V4l2!Buffers) /\ Distinct(Append(s, b))
         /\ Len(Append(s, b)) = Len(s) + 1
         /\ \A i \in 1 .. Len(s) : Append(s, b)[i] = s[i]
         /\ Append(s, b)[Len(s) + 1] = b
<1>1. /\ Append(s, b) \in Seq(V4l2!Buffers) /\ Len(Append(s, b)) = Len(s) + 1 /\ Len(s) \in Nat
      /\ \A i \in 1 .. Len(s) : Append(s, b)[i] = s[i]
      /\ Append(s, b)[Len(s) + 1] = b
  OBVIOUS
<1>2. \A i \in 1 .. Len(s) + 1 : i \in 1 .. Len(s) \/ i = Len(s) + 1
  BY <1>1
<1>3. Distinct(Append(s, b))
  BY <1>1, <1>2 DEF Distinct
<1> QED
  BY <1>1, <1>3

\* The camera fills the oldest queued buffer.
LEMMA QueueFills ==
  ASSUME QueuesApart, FilledAreNewer, V4l2!Capture PROVE QueuesApart' /\ FilledAreNewer'
<1>1. CASE UNCHANGED <<V4l2!queueVars, contents>>
  BY <1>1 DEF V4l2!Capture, V4l2!queueVars, QueuesApart, FilledAreNewer
<1>2. CASE /\ incoming # <<>>
           /\ incoming' = Tail(incoming)
           /\ outgoing' = Append(outgoing, Head(incoming))
           /\ contents' = [contents EXCEPT ![Head(incoming)] = v4l2Taken']
  <2> DEFINE h == Head(incoming)
  <2>1. /\ v4l2Taken' = v4l2Taken + 1 /\ v4l2Last' = v4l2Last /\ userBuffers' = userBuffers
        /\ v4l2Taken \in Nat /\ v4l2Last \in 0 .. v4l2Taken
    BY DEF V4l2!Capture, FilledAreNewer
  <2>2. /\ incoming \in Seq(V4l2!Buffers) /\ outgoing \in Seq(V4l2!Buffers)
        /\ Distinct(incoming) /\ Distinct(outgoing)
        /\ userBuffers \subseteq V4l2!Buffers
    BY DEF QueuesApart
  <2>3. /\ h \in V4l2!Buffers /\ h = incoming[1] /\ 1 \in 1 .. Len(incoming)
        /\ incoming' \in Seq(V4l2!Buffers) /\ Distinct(incoming')
        /\ \A i \in 1 .. Len(incoming') : \E k \in 1 .. Len(incoming) :
             incoming'[i] = incoming[k] /\ incoming'[i] # h
    BY <1>2, <2>2, HeadLeaves
  <2>4. h \notin userBuffers /\ \A i \in 1 .. Len(outgoing) : outgoing[i] # h
    BY <2>3 DEF QueuesApart
  <2> HIDE DEF h
  <2>5. outgoing' = Append(outgoing, h) /\ contents' = [contents EXCEPT ![h] = v4l2Taken']
    BY <1>2 DEF h
  <2>6. /\ outgoing' \in Seq(V4l2!Buffers) /\ Distinct(outgoing')
        /\ Len(outgoing') = Len(outgoing) + 1 /\ Len(outgoing) \in Nat
        /\ \A i \in 1 .. Len(outgoing) : outgoing'[i] = outgoing[i]
        /\ outgoing'[Len(outgoing) + 1] = h
    BY <2>2, <2>3, <2>4, <2>5, AppendKeepsDistinct
  <2>7. \A i \in 1 .. Len(outgoing') :
          \/ i \in 1 .. Len(outgoing) /\ outgoing'[i] = outgoing[i]
          \/ i = Len(outgoing) + 1 /\ outgoing'[i] = h
    BY <2>6
  <2>8. \A i \in 1 .. Len(outgoing) : outgoing[i] \in V4l2!Buffers
    BY <2>2
  <2>9. /\ contents' \in [V4l2!Buffers -> Nat \cup {Unmapped}]
        /\ contents'[h] = v4l2Taken'
        /\ \A i \in 1 .. Len(outgoing) : contents'[outgoing[i]] = contents[outgoing[i]]
    BY <2>1, <2>3, <2>4, <2>5, <2>8 DEF FilledAreNewer
  <2>10. QueuesApart'
    <3>1. \A i \in 1 .. Len(incoming'), j \in 1 .. Len(outgoing') :
            incoming'[i] # outgoing'[j]
      <4> SUFFICES ASSUME NEW i \in 1 .. Len(incoming'), NEW j \in 1 .. Len(outgoing')
                   PROVE  incoming'[i] # outgoing'[j]
        OBVIOUS
      <4>1. PICK k \in 1 .. Len(incoming) : incoming'[i] = incoming[k] /\ incoming'[i] # h
        BY <2>3
      <4>2. \A m \in 1 .. Len(outgoing) : incoming[k] # outgoing[m]
        BY DEF QueuesApart
      <4> QED
        BY <2>7, <4>1, <4>2
    <3>2. \A i \in 1 .. Len(incoming') : incoming'[i] \notin userBuffers'
      BY <2>1, <2>3 DEF QueuesApart
    <3>3. \A i \in 1 .. Len(outgoing') : outgoing'[i] \notin userBuffers'
      BY <2>1, <2>4, <2>7 DEF QueuesApart
    <3> QED
      BY <2>1, <2>2, <2>3, <2>6, <3>1, <3>2, <3>3 DEF QueuesApart
  <2>11. \A i \in 1 .. Len(outgoing) : contents[outgoing[i]] \in (v4l2Last + 1) .. v4l2Taken
    BY DEF FilledAreNewer
  <2>12. \A i \in 1 .. Len(outgoing') : contents'[outgoing'[i]] \in (v4l2Last' + 1) .. v4l2Taken'
    BY <2>1, <2>7, <2>9, <2>11
  <2>13. \A i, j \in 1 .. Len(outgoing') :
           i < j => contents'[outgoing'[i]] < contents'[outgoing'[j]]
    <3> SUFFICES ASSUME NEW i \in 1 .. Len(outgoing'), NEW j \in 1 .. Len(outgoing'), i < j
                 PROVE  contents'[outgoing'[i]] < contents'[outgoing'[j]]
      OBVIOUS
    <3>1. i \in 1 .. Len(outgoing) /\ contents'[outgoing'[i]] = contents[outgoing[i]]
      BY <2>6, <2>9
    <3>2. CASE j \in 1 .. Len(outgoing)
      BY <2>6, <2>9, <3>1, <3>2 DEF FilledAreNewer
    <3>3. CASE j = Len(outgoing) + 1
      BY <2>1, <2>6, <2>9, <2>11, <3>1, <3>3
    <3> QED
      BY <2>7, <3>2, <3>3
  <2>14. v4l2Taken' \in Nat /\ v4l2Last' \in 0 .. v4l2Taken'
    BY <2>1
  <2> QED
    BY <2>9, <2>10, <2>12, <2>13, <2>14 DEF FilledAreNewer
<1> QED
  BY <1>1, <1>2 DEF V4l2!Capture

\* The oldest filled buffer is lent: what it holds is newer than what was lent before,
\* and older than what the other buffers hold.
LEMMA QueueLends ==
  ASSUME QueuesApart, FilledAreNewer, V4l2!GetFrame
  PROVE  /\ QueuesApart' /\ FilledAreNewer'
         /\ Head(outgoing) \in V4l2!Buffers \ userBuffers
         /\ contents[Head(outgoing)] \in (v4l2Last + 1) .. v4l2Taken
<1> DEFINE h == Head(outgoing)
<1>1. /\ outgoing # <<>> /\ outgoing' = Tail(outgoing) /\ incoming' = incoming
      /\ userBuffers' = userBuffers \cup {h}
      /\ v4l2Last' = contents[h] /\ contents' = contents /\ v4l2Taken' = v4l2Taken
  BY DEF V4l2!GetFrame
<1>2. /\ incoming \in Seq(V4l2!Buffers) /\ outgoing \in Seq(V4l2!Buffers) /\ Distinct(outgoing)
      /\ userBuffers \subseteq V4l2!Buffers
  BY DEF QueuesApart
<1>3. /\ h \in V4l2!Buffers /\ h = outgoing[1] /\ 1 \in 1 .. Len(outgoing)
      /\ outgoing' \in Seq(V4l2!Buffers) /\ Distinct(outgoing')
      /\ Len(outgoing') = Len(outgoing) - 1
      /\ \A i \in 1 .. Len(outgoing') :
           outgoing'[i] = outgoing[i + 1] /\ i + 1 \in 1 .. Len(outgoing) /\ outgoing'[i] # h
  BY <1>1, <1>2, HeadLeaves
<1>4. h \notin userBuffers /\ contents[h] \in (v4l2Last + 1) .. v4l2Taken
  BY <1>3 DEF QueuesApart, FilledAreNewer
<1>5. \A i \in 1 .. Len(incoming) : incoming[i] # h
  BY <1>3 DEF QueuesApart
<1> HIDE DEF h
<1>6. QueuesApart'
  BY <1>1, <1>2, <1>3, <1>5 DEF QueuesApart
<1>7. \A i \in 1 .. Len(outgoing') : contents[outgoing'[i]] \in (contents[h] + 1) .. v4l2Taken
  <2> SUFFICES ASSUME NEW i \in 1 .. Len(outgoing')
               PROVE  contents[outgoing'[i]] \in (contents[h] + 1) .. v4l2Taken
    OBVIOUS
  <2>1. i + 1 \in 1 .. Len(outgoing) /\ 1 < i + 1 /\ outgoing'[i] = outgoing[i + 1]
    BY <1>3
  <2>2. contents[outgoing[i + 1]] \in (v4l2Last + 1) .. v4l2Taken
        /\ contents[outgoing[1]] < contents[outgoing[i + 1]]
    BY <1>3, <2>1 DEF FilledAreNewer
  <2>3. v4l2Last \in Nat /\ v4l2Taken \in Nat
    BY DEF FilledAreNewer
  <2> QED
    BY <1>3, <1>4, <2>1, <2>2, <2>3
<1>8. \A i, j \in 1 .. Len(outgoing') :
        i < j => contents[outgoing'[i]] < contents[outgoing'[j]]
  <2> SUFFICES ASSUME NEW i \in 1 .. Len(outgoing'), NEW j \in 1 .. Len(outgoing'), i < j
               PROVE  contents[outgoing'[i]] < contents[outgoing'[j]]
    OBVIOUS
  <2>1. /\ i + 1 \in 1 .. Len(outgoing) /\ j + 1 \in 1 .. Len(outgoing) /\ i + 1 < j + 1
        /\ outgoing'[i] = outgoing[i + 1] /\ outgoing'[j] = outgoing[j + 1]
    BY <1>3
  <2> QED
    BY <2>1 DEF FilledAreNewer
<1>9. v4l2Taken \in Nat /\ contents[h] \in 0 .. v4l2Taken
      /\ contents \in [V4l2!Buffers -> Nat \cup {Unmapped}]
  BY <1>4 DEF FilledAreNewer
<1>10. FilledAreNewer'
  BY <1>1, <1>7, <1>8, <1>9 DEF FilledAreNewer
<1> QED
  BY <1>3, <1>4, <1>6, <1>10 DEF h

\* A buffer the caller gives back goes to the end of the empty ones.
LEMMA QueueTakesBack ==
  ASSUME QueuesApart, FilledAreNewer, NEW b \in V4l2!Buffers, V4l2!ReleaseFrame(b)
  PROVE  QueuesApart' /\ FilledAreNewer'
<1>1. /\ b \in userBuffers /\ userBuffers' = userBuffers \ {b}
      /\ incoming' = Append(incoming, b) /\ outgoing' = outgoing
      /\ UNCHANGED <<contents, v4l2Taken, v4l2Last>>
  BY DEF V4l2!ReleaseFrame, V4l2!Requeue
<1>2. FilledAreNewer'
  BY <1>1 DEF FilledAreNewer
<1>3. /\ incoming \in Seq(V4l2!Buffers) /\ Distinct(incoming)
      /\ \A i \in 1 .. Len(incoming) : incoming[i] # b
      /\ \A i \in 1 .. Len(outgoing) : outgoing[i] # b
  BY <1>1 DEF QueuesApart
<1>4. /\ incoming' \in Seq(V4l2!Buffers) /\ Distinct(incoming')
      /\ Len(incoming') = Len(incoming) + 1 /\ Len(incoming) \in Nat
      /\ \A i \in 1 .. Len(incoming) : incoming'[i] = incoming[i]
      /\ incoming'[Len(incoming) + 1] = b
  BY <1>1, <1>3, AppendKeepsDistinct
<1>5. \A i \in 1 .. Len(incoming') :
        \/ i \in 1 .. Len(incoming) /\ incoming'[i] = incoming[i]
        \/ incoming'[i] = b
  BY <1>4
<1>6. QueuesApart'
  BY <1>1, <1>3, <1>4, <1>5 DEF QueuesApart
<1> QED
  BY <1>2, <1>6

\* QueuesApart and FilledAreNewer are an invariant.
LEMMA QueuesInvariant ==
  ASSUME NumBuffers \in Nat
  PROVE  V4l2!Spec => [](QueuesApart /\ FilledAreNewer)
<1>1. V4l2!Init => QueuesApart /\ FilledAreNewer
  BY DEF V4l2!Init, V4l2!Off, QueuesApart, FilledAreNewer, Distinct
<1>2. QueuesApart /\ FilledAreNewer /\ [V4l2!Next]_(V4l2!vars) => (QueuesApart /\ FilledAreNewer)'
  <2> SUFFICES ASSUME QueuesApart, FilledAreNewer, [V4l2!Next]_(V4l2!vars)
               PROVE  QueuesApart' /\ FilledAreNewer'
    OBVIOUS
  <2>1. CASE V4l2!Start
    <3>1. PICK queued \in 0 .. NumBuffers :
            /\ incoming' = [k \in 1 .. queued |-> k]
            /\ contents' = [b \in V4l2!Buffers |-> IF b <= queued + 1 THEN 0 ELSE Unmapped]
      BY <2>1 DEF V4l2!Start
    <3>2. /\ outgoing' = <<>> /\ userBuffers' = {}
          /\ v4l2Taken' = v4l2Taken /\ v4l2Last' = v4l2Last
      BY <2>1 DEF V4l2!Start, V4l2!Off
    <3>3. /\ incoming' \in Seq(V4l2!Buffers) /\ Len(incoming') = queued
          /\ \A i \in 1 .. queued : incoming'[i] = i
      BY <3>1 DEF V4l2!Buffers
    <3>4. Distinct(incoming')
      BY <3>3 DEF Distinct
    <3>5. QueuesApart'
      BY <3>2, <3>3, <3>4 DEF QueuesApart, Distinct
    <3>6. contents' \in [V4l2!Buffers -> Nat \cup {Unmapped}]
      BY <3>1
    <3> QED
      BY <3>2, <3>5, <3>6 DEF FilledAreNewer
  <2>2. CASE V4l2!Stop
    <3>1. /\ incoming' = <<>> /\ outgoing' = <<>> /\ userBuffers' = {}
          /\ contents' = [b \in V4l2!Buffers |-> Unmapped]
          /\ v4l2Taken' = v4l2Taken /\ v4l2Last' = v4l2Last
      BY <2>2 DEF V4l2!Stop
    <3>2. QueuesApart'
      BY <3>1 DEF QueuesApart, Distinct
    <3> QED
      BY <3>1, <3>2 DEF FilledAreNewer
  <2>3. CASE UNCHANGED V4l2!vars
    BY <2>3 DEF V4l2!vars, V4l2!queueVars, QueuesApart, FilledAreNewer
  <2> QED
    BY <2>1, <2>2, <2>3, QueueFills, QueueLends, QueueTakesBack DEF V4l2!Next
<1> QED
  BY <1>1, <1>2, PTL DEF V4l2!Spec

\* However many buffers the kernel was given, none is ever in two places, and they come
\* out in the order they were filled.
LEMMA NoBufferTwice ==
  ASSUME NumBuffers \in Nat
  PROVE  V4l2!Spec => []V4l2!BuffersAccounted
<1>1. QueuesApart /\ FilledAreNewer => V4l2!BuffersAccounted
  <2> SUFFICES ASSUME QueuesApart, FilledAreNewer PROVE V4l2!BuffersAccounted
    OBVIOUS
  <2> DEFINE all == incoming \o outgoing
  <2>1. /\ all \in Seq(V4l2!Buffers) /\ Len(all) = Len(incoming) + Len(outgoing)
        /\ Len(incoming) \in Nat /\ Len(outgoing) \in Nat
        /\ DOMAIN all = 1 .. Len(all) /\ DOMAIN outgoing = 1 .. Len(outgoing)
    BY DEF QueuesApart
  <2>2. \A i \in 1 .. Len(all) :
          \/ i \in 1 .. Len(incoming) /\ all[i] = incoming[i]
          \/ i - Len(incoming) \in 1 .. Len(outgoing) /\ all[i] = outgoing[i - Len(incoming)]
    BY DEF QueuesApart
  <2> HIDE DEF all
  <2>3. V4l2!IsInjective(all)
    <3>1. ASSUME NEW i \in 1 .. Len(all), NEW j \in 1 .. Len(all), all[i] = all[j] PROVE i = j
      <4>1. CASE i \in 1 .. Len(incoming) /\ all[i] = incoming[i]
        <5>1. CASE j \in 1 .. Len(incoming) /\ all[j] = incoming[j]
          BY <3>1, <4>1, <5>1 DEF QueuesApart, Distinct
        <5>2. CASE /\ j - Len(incoming) \in 1 .. Len(outgoing)
                   /\ all[j] = outgoing[j - Len(incoming)]
          BY <3>1, <4>1, <5>2 DEF QueuesApart
        <5> QED
          BY <2>2, <5>1, <5>2
      <4>2. CASE /\ i - Len(incoming) \in 1 .. Len(outgoing)
                 /\ all[i] = outgoing[i - Len(incoming)]
        <5>1. PICK k \in 1 .. Len(outgoing) : k = i - Len(incoming) /\ all[i] = outgoing[k]
          BY <4>2
        <5>2. CASE j \in 1 .. Len(incoming) /\ all[j] = incoming[j]
          BY <3>1, <5>1, <5>2 DEF QueuesApart
        <5>3. CASE /\ j - Len(incoming) \in 1 .. Len(outgoing)
                   /\ all[j] = outgoing[j - Len(incoming)]
          <6>1. PICK m \in 1 .. Len(outgoing) : m = j - Len(incoming) /\ all[j] = outgoing[m]
            BY <5>3
          <6>2. k = m
            BY <3>1, <5>1, <6>1 DEF QueuesApart, Distinct
          <6> QED
            BY <2>1, <5>1, <6>1, <6>2
        <5> QED
          BY <2>2, <5>2, <5>3
      <4> QED
        BY <2>2, <4>1, <4>2
    <3> QED
      BY <2>1, <3>1 DEF V4l2!IsInjective
  <2>4. \A i \in 1 .. Len(all) : all[i] \notin userBuffers
    BY <2>2 DEF QueuesApart
  <2>5. V4l2!Range(all) \cap userBuffers = {}
    BY <2>1, <2>4 DEF V4l2!Range
  <2> QED
    BY <2>1, <2>3, <2>5 DEF V4l2!BuffersAccounted, FilledAreNewer, all
<1> QED
  BY <1>1, QueuesInvariant, PTL

\* The driver implements FrameSource for any number of buffers: frames come in the order
\* they were taken, none twice, and the camera writes into no buffer the caller holds.
LEMMA V4l2KeepsPromise ==
  ASSUME QueueFits
  PROVE  V4l2!Spec => V4l2!KeepsPromise
<1>0. NumBuffers \in Nat /\ \A n : [no |-> n] # Unmapped
  BY DEF QueueFits
<1>1. V4l2!Init => V4l2!Promised!Init
  BY DEF V4l2!Init, V4l2!Off, V4l2!Promised!Init, V4l2!LentFrames
<1>2. QueuesApart /\ FilledAreNewer /\ [V4l2!Next]_(V4l2!vars)
      => [V4l2!Promised!Next]_(V4l2!Promised!vars)
  <2> SUFFICES ASSUME QueuesApart, FilledAreNewer, [V4l2!Next]_(V4l2!vars)
               PROVE  [V4l2!Promised!Next]_(V4l2!Promised!vars)
    OBVIOUS
  <2>1. CASE V4l2!Start \/ V4l2!Stop
    BY <2>1 DEF V4l2!Start, V4l2!Stop, V4l2!Off, V4l2!LentFrames, V4l2!Promised!vars
  <2>2. CASE V4l2!Capture
    <3>1. \A b \in userBuffers : contents'[b] = contents[b]
      BY <2>2, HeadLeaves DEF V4l2!Capture, V4l2!queueVars, QueuesApart, FilledAreNewer
    <3> QED
      BY <2>2, <3>1 DEF V4l2!Capture, V4l2!LentFrames, V4l2!Promised!vars
  <2>3. CASE V4l2!GetFrame
    <3> DEFINE h == Head(outgoing)
    <3>1. /\ h \in V4l2!Buffers /\ h \notin userBuffers
          /\ contents[h] \in Nat /\ contents[h] > v4l2Last
      BY <2>3, QueueLends DEF FilledAreNewer
    <3>2. userBuffers' = userBuffers \cup {h} /\ contents' = contents
          /\ v4l2Last' = contents[h]
      BY <2>3 DEF V4l2!GetFrame
    <3> HIDE DEF h
    <3>3. V4l2!LentFrames[h] = Unmapped /\ V4l2!LentFrames'[h] = [no |-> contents[h]]
          /\ \A b \in V4l2!Buffers \ {h} : V4l2!LentFrames'[b] = V4l2!LentFrames[b]
      BY <3>1, <3>2 DEF V4l2!LentFrames
    <3>4. V4l2!Promised!Lend(h)
      BY <1>0, <3>1, <3>2, <3>3 DEF V4l2!Promised!Lend
    <3> QED
      BY <3>1, <3>4 DEF V4l2!Promised!Next
  <2>4. ASSUME NEW b \in V4l2!Buffers, V4l2!ReleaseFrame(b) PROVE V4l2!Promised!Return(b)
    BY <1>0, <2>4 DEF V4l2!ReleaseFrame, V4l2!LentFrames, V4l2!Promised!Return
  <2>5. CASE UNCHANGED V4l2!vars
    BY <2>5 DEF V4l2!vars, V4l2!LentFrames, V4l2!Promised!vars
  <2> QED
    BY <2>1, <2>2, <2>3, <2>4, <2>5 DEF V4l2!Next, V4l2!Promised!Next
<1> QED
  BY <1>0, <1>1, <1>2, QueuesInvariant, PTL DEF V4l2!Spec, V4l2!Promised!Spec, V4l2!KeepsPromise
-----------------------------------------------------------------------------
(* The FireWire driver's ring.                                             *)

RingFrames == [no : Nat, corrupt : BOOLEAN]

\* Whatever the ring holds are frames, and the buffers are counted.
RingInv ==
  /\ ring \in Seq(RingFrames) /\ free \in Nat /\ ringTaken \in Nat
  /\ Ring!BuffersAccounted

\* A frame is taken off a ring that is not empty, and its buffer goes to the caller or back.
LEMMA DequeueCounts ==
  ASSUME RingInv, Ring!Dequeue
  PROVE  /\ RingInv'
         /\ callerPc' = "using" => ring' = <<>> /\ ~current'.corrupt
<1>1. /\ callerPc = "get" /\ ring # <<>> /\ ring' = Tail(ring) /\ ringTaken' = ringTaken
      /\ \/ /\ Ring!PassedOver(Head(ring))
            /\ free' = free + 1 /\ callerPc' = callerPc
         \/ /\ ~Ring!PassedOver(Head(ring))
            /\ current' = Head(ring) /\ callerPc' = "using" /\ free' = free
  BY DEF Ring!Dequeue, Ring!FreeAfterPassing
<1>2. /\ ring \in Seq(RingFrames) /\ free \in Nat /\ ringTaken \in Nat
      /\ Len(ring) + free = NumBuffers
  BY <1>1 DEF RingInv, Ring!BuffersAccounted, Ring!Capturing
<1>3. /\ ring' \in Seq(RingFrames) /\ Len(ring') = Len(ring) - 1 /\ Len(ring) \in Nat \ {0}
  BY <1>1, <1>2
<1>4. free' \in Nat /\ ringTaken' \in Nat
  BY <1>1, <1>2
<1>5. Len(ring') + free' + (IF callerPc' = "using" THEN 1 ELSE 0) = NumBuffers
  BY <1>1, <1>2, <1>3
<1>6. RingInv'
  BY <1>3, <1>4, <1>5 DEF RingInv, Ring!BuffersAccounted
<1>7. ASSUME callerPc' = "using" PROVE ring' = <<>> /\ ~current'.corrupt
  <2>1. ~Ring!PassedOver(Head(ring)) /\ current' = Head(ring)
    BY <1>1, <1>7
  <2>2. ~(Ring!FramesBehind > 0) /\ ~Head(ring).corrupt
    BY <2>1 DEF Ring!PassedOver
  <2>3. Len(ring) = 1
    BY <1>3, <2>2 DEF Ring!FramesBehind
  <2>4. ring' = <<>>
    BY <1>3, <2>3
  <2> QED
    BY <2>1, <2>2, <2>4
<1> QED
  BY <1>6, <1>7

\* The ring's count is kept by every step of the driver and of libdc1394.
LEMMA RingKeepsCount ==
  ASSUME NumBuffers \in Nat, RingInv, Ring!Next PROVE RingInv'
<1>1. CASE Ring!StartCall
  BY <1>1 DEF Ring!StartCall, Ring!ringVars, RingInv, Ring!BuffersAccounted, Ring!Capturing
<1>2. CASE Ring!StartDone
  <2>1. CASE callerPc' = "idle" /\ ring' = <<>> /\ free' = NumBuffers
    BY <1>2, <2>1 DEF Ring!StartDone, RingInv, Ring!BuffersAccounted
  <2>2. CASE callerPc' \in {"restart", "failed"} /\ UNCHANGED Ring!ringVars
    BY <1>2, <2>2
    DEF Ring!StartDone, Ring!ringVars, RingInv, Ring!BuffersAccounted, Ring!Capturing
  <2> QED
    BY <1>2, <2>1, <2>2 DEF Ring!StartDone
<1>3. CASE Ring!Capture
  <2>1. /\ callerPc' = callerPc /\ ringTaken' = ringTaken + 1 /\ callerPc \in {"idle", "get", "using"}
        /\ Len(ring) + free + (IF callerPc = "using" THEN 1 ELSE 0) = NumBuffers
        /\ ring \in Seq(RingFrames) /\ free \in Nat /\ ringTaken' \in Nat
    BY <1>3 DEF Ring!Capture, Ring!Capturing, RingInv, Ring!BuffersAccounted
  <2>2. CASE UNCHANGED Ring!ringVars
    BY <2>1, <2>2 DEF Ring!ringVars, RingInv, Ring!BuffersAccounted
  <2>3. CASE free > 0
    <3>1. PICK corrupt \in BOOLEAN :
            /\ ring' = Append(ring, [no |-> ringTaken', corrupt |-> corrupt])
            /\ free' = free - 1
      BY <1>3, <2>3 DEF Ring!Capture
    <3>2. [no |-> ringTaken', corrupt |-> corrupt] \in RingFrames
      BY <2>1 DEF RingFrames
    <3>3. ring' \in Seq(RingFrames) /\ Len(ring') = Len(ring) + 1 /\ Len(ring) \in Nat
      BY <2>1, <3>1, <3>2
    <3> QED
      BY <2>1, <2>3, <3>1, <3>3 DEF RingInv, Ring!BuffersAccounted
  <2> QED
    BY <1>3, <2>2, <2>3 DEF Ring!Capture
<1>4. CASE Ring!GetFrame
  BY <1>4 DEF Ring!GetFrame, Ring!ringVars, RingInv, Ring!BuffersAccounted, Ring!Capturing
<1>5. CASE Ring!Dequeue
  BY <1>5, DequeueCounts
<1>6. CASE Ring!ReleaseFrame
  <2>1. /\ callerPc = "using" /\ callerPc' = "idle" /\ ring' = ring /\ free' = free + 1
        /\ ringTaken' = ringTaken
    BY <1>6 DEF Ring!ReleaseFrame
  <2>2. /\ ring \in Seq(RingFrames) /\ free \in Nat /\ ringTaken \in Nat
        /\ Len(ring) + free + 1 = NumBuffers
    BY <2>1 DEF RingInv, Ring!BuffersAccounted, Ring!Capturing
  <2> QED
    BY <2>1, <2>2 DEF RingInv, Ring!BuffersAccounted
<1>7. CASE Ring!Stop
  BY <1>7 DEF Ring!Stop, RingInv, Ring!BuffersAccounted, Ring!Capturing
<1> QED
  BY <1>1, <1>2, <1>3, <1>4, <1>5, <1>6, <1>7 DEF Ring!Next

\* No buffer is ever lost to the ring, however many there are.
LEMMA RingLosesNothing ==
  ASSUME NumBuffers \in Nat
  PROVE  Ring!Spec => []RingInv
<1>1. Ring!Init => RingInv
  BY DEF Ring!Init, RingInv, Ring!BuffersAccounted, Ring!Capturing
<1>2. RingInv /\ [Ring!Next]_(Ring!vars) => RingInv'
  <2>1. RingInv /\ UNCHANGED Ring!vars => RingInv'
    BY DEF Ring!vars, Ring!ringVars, RingInv, Ring!BuffersAccounted, Ring!Capturing
  <2> QED
    BY <2>1, RingKeepsCount
<1> QED
  BY <1>1, <1>2, PTL DEF Ring!Spec

\* get_frame returns with the newest whole frame, however many have piled up.
LEMMA RingGivesNewest ==
  ASSUME NumBuffers \in Nat
  PROVE  Ring!Spec => Ring!GetsNewest
<1> DEFINE Newest == (callerPc = "get" /\ callerPc' = "using") => ring' = <<>> /\ ~current'.corrupt
<1>1. RingInv /\ [Ring!Next]_(Ring!vars) => [Newest]_(Ring!vars)
  <2> SUFFICES ASSUME RingInv, Ring!Next, callerPc = "get", callerPc' = "using"
               PROVE  ring' = <<>> /\ ~current'.corrupt
    BY DEF Newest
  <2>1. Ring!Dequeue
    BY DEF Ring!Next, Ring!StartCall, Ring!StartDone, Ring!Capture, Ring!GetFrame,
           Ring!ReleaseFrame, Ring!Stop
  <2> QED
    BY <2>1, DequeueCounts
<1>2. Ring!GetsNewest <=> [][Newest]_(Ring!vars)
  BY DEF Ring!GetsNewest, Newest
<1> HIDE DEF Newest
<1> QED
  BY <1>1, <1>2, RingLosesNothing, PTL DEF Ring!Spec

-----------------------------------------------------------------------------
(* The sources that replay.                                                *)

\* The log: what the caller has is in last_frame's buffer, the record before next_frame; the
\* file stands behind next_frame, or at the end of the log.
LogInv ==
  /\ record \in Nat /\ nextFrame \in Nat /\ 1 \in Replay!Records
  /\ lastFrame \in Nat \cup {NoFrame}
  /\ given.data = lastFrame
  /\ nextFrame = Replay!Following(lastFrame)
  /\ \/ record = nextFrame
     \/ record + 1 \notin Replay!Records /\ nextFrame + 1 \notin Replay!Records

\* Once a record is read the one before it is handed out.
LEMMA RecordComesNext ==
  ASSUME LogFits, LogInv, Replay!LogNext
  PROVE  /\ LogInv'
         /\ given' # given => given'.data = Replay!Following(given.data)
         /\ given'.data = lastFrame'
<1> USE DEF LogFits, Replay!Following
<1>1. CASE Replay!LogGetFrame \/ Replay!LogGetFrameLooping
  <2>1. PICK new \in {record + 1, 1} :
          /\ Replay!HandOut(new)
          /\ new = record + 1 => record + 1 \in Replay!Records \/ new = 1
          /\ new # record + 1 => record + 1 \notin Replay!Records
    BY <1>1 DEF Replay!LogGetFrame, Replay!LogGetFrameLooping
  <2>2. /\ record' = new /\ lastFrame' = nextFrame /\ nextFrame' = new
        /\ given' = [data |-> lastFrame', utime |-> new] /\ cutShort' = cutShort
    BY <2>1 DEF Replay!HandOut, Replay!NewLast, Replay!GivenTime
  <2>3. record \in Nat /\ nextFrame \in Nat /\ 1 \in Replay!Records
        /\ nextFrame = Replay!Following(lastFrame) /\ given.data = lastFrame
    BY DEF LogInv
  <2>4. Replay!Records' = Replay!Records
    BY <2>2 DEF Replay!Records
  <2>5. new = IF nextFrame + 1 \in Replay!Records THEN nextFrame + 1 ELSE 1
    BY <2>1, <2>3 DEF LogInv
  <2>6. new = Replay!Following(nextFrame)
    BY <2>3, <2>5
  <2>7. given'.data = nextFrame
    BY <2>2
  <2>8. LogInv'
    BY <2>2, <2>3, <2>4, <2>6, <2>7 DEF LogInv
  <2> QED
    BY <2>2, <2>3, <2>7, <2>8
<1>2. CASE Replay!LogGetFrameAtEnd
  <2>1. /\ record + 1 \notin Replay!Records /\ record' = LogLength
        /\ UNCHANGED <<cutShort, logLoop, lastFrame, nextFrame, given>>
    BY <1>2 DEF Replay!LogGetFrameAtEnd
  <2>2. Replay!Records' = Replay!Records /\ LogLength + 1 \notin Replay!Records
    BY <2>1 DEF Replay!Records
  <2>3. nextFrame + 1 \notin Replay!Records
    BY <2>1 DEF LogInv
  <2> QED
    BY <2>1, <2>2, <2>3 DEF LogInv
<1>3. CASE Replay!LogSetLoop
  <2>1. UNCHANGED <<record, cutShort, lastFrame, nextFrame, given, outcome>>
    BY <1>3 DEF Replay!LogSetLoop
  <2>2. Replay!Records' = Replay!Records
    BY <2>1 DEF Replay!Records
  <2> QED
    BY <2>1, <2>2 DEF LogInv
<1> QED
  BY <1>1, <1>2, <1>3 DEF Replay!LogNext
\* Looping or not, the records are handed out in the log's order.
LEMMA LogStaysInOrder ==
  ASSUME LogFits
  PROVE  Replay!LogSpec => Replay!InLogOrder
<1> DEFINE NextRecord ==
      /\ given' # given => given'.data = Replay!Following(given.data)
      /\ given'.data = lastFrame'
<1>1. Replay!LogInit => LogInv
  BY DEF LogFits, Replay!LogInit, Replay!NoneGiven, Replay!Following, LogInv
<1>2. LogInv /\ [Replay!LogNext]_(Replay!logVars) => LogInv' /\ [NextRecord]_(Replay!logVars)
  <2>1. LogInv /\ UNCHANGED Replay!logVars => LogInv'
    BY DEF LogInv, Replay!logVars, Replay!Records, Replay!Following
  <2> QED
    BY <2>1, RecordComesNext DEF LogFits, NextRecord
<1>3. Replay!InLogOrder <=> [][NextRecord]_(Replay!logVars)
  BY DEF Replay!InLogOrder, NextRecord
<1> HIDE DEF NextRecord
<1> QED
  BY <1>1, <1>2, <1>3, PTL DEF Replay!LogSpec

\* The directory: what add_path let in is of a type get_frame knows, and there is one.
ListInv ==
  /\ \E n \in Nat \ {0} : files \in [1 .. n -> {entry \in Replay!Entries : Replay!Keeps(entry)}]
  /\ pos \in 0 .. Len(files)

\* So each call reads one file, and pos never passes the last.
LEMMA PosStaysInFiles ==
  ASSUME MaxEntries \in Nat
  PROVE  Replay!DirSpec => []Replay!PosInFiles
<1>1. Replay!DirInit => ListInv
  <2> SUFFICES ASSUME Replay!DirInit PROVE ListInv
    OBVIOUS
  <2>1. PICK n \in 1 .. MaxEntries :
          files \in [1 .. n -> {entry \in Replay!Entries : Replay!Keeps(entry)}]
    BY DEF Replay!DirInit
  <2>2. Len(files) = n /\ pos = 0
    BY <2>1 DEF Replay!DirInit
  <2> QED
    BY <2>1, <2>2 DEF ListInv
<1>2. ListInv /\ [Replay!DirNext]_(Replay!dirVars) => ListInv'
  <2> SUFFICES ASSUME ListInv, [Replay!DirNext]_(Replay!dirVars) PROVE ListInv'
    OBVIOUS
  <2>1. PICK n \in Nat \ {0} :
          files \in [1 .. n -> {entry \in Replay!Entries : Replay!Keeps(entry)}]
    BY DEF ListInv
  <2>2. Len(files) = n /\ pos \in 0 .. n
    BY <2>1 DEF ListInv
  <2>3. \A p \in 0 .. n - 1 : files[p + 1].type # "other"
    BY <2>1 DEF Replay!Keeps
  <2>4. files' = files
    BY DEF Replay!DirNext, Replay!DirGetFrame, Replay!DirGetFrameLooping, Replay!ReadAt,
           Replay!DirGetFrameAtEnd, Replay!DirSetLoop, Replay!dirVars
  <2>5. ASSUME NEW p \in 0 .. n - 1, Replay!ReadAt(p) PROVE pos' \in 0 .. n
    BY <2>3, <2>5 DEF Replay!ReadAt
  <2>6. pos' \in 0 .. n
    <3>1. CASE Replay!DirGetFrame
      BY <2>2, <2>5, <3>1 DEF Replay!DirGetFrame
    <3>2. CASE Replay!DirGetFrameLooping
      BY <2>2, <2>5, <3>2 DEF Replay!DirGetFrameLooping
    <3>3. CASE UNCHANGED pos
      BY <2>2, <3>3
    <3> QED
      BY <3>1, <3>2, <3>3
      DEF Replay!DirNext, Replay!DirGetFrameAtEnd, Replay!DirSetLoop, Replay!dirVars
  <2> QED
    BY <2>1, <2>2, <2>4, <2>6 DEF ListInv
<1>3. ListInv => Replay!PosInFiles
  BY DEF ListInv, Replay!PosInFiles
<1> QED
  BY <1>1, <1>2, <1>3, PTL DEF Replay!DirSpec

-----------------------------------------------------------------------------
(* Whole numbers and their parts.                                          *)

\* A number over another, downwards, stays among the whole numbers it is among.
LEMMA DivIs ==
  ASSUME NEW a \in Int, NEW m \in Nat \ {0}
  PROVE  /\ a \div m \in Int /\ (a \div m) * m <= a /\ a < (a \div m) * m + m
         /\ a % m = a - (a \div m) * m
OBVIOUS

LEMMA TimesGrows ==
  ASSUME NEW x \in Int, NEW y \in Int, NEW m \in Nat \ {0}, x < y
  PROVE  x * m + m <= y * m
OBVIOUS

LEMMA DivStaysWithin ==
  ASSUME NEW a \in Int, NEW m \in Nat \ {0}, NEW x \in Int
  PROVE  (a <= x * m => a \div m <= x) /\ (x * m <= a => x <= a \div m)
<1>1. PICK q \in Int : q = a \div m /\ q * m <= a /\ a < q * m + m
  BY DivIs
<1>2. x < q => x * m + m <= q * m
  BY TimesGrows
<1>3. q < x => q * m + m <= x * m
  BY TimesGrows
<1>4. x * m \in Int /\ q * m \in Int
  OBVIOUS
<1> QED
  BY <1>1, <1>2, <1>3, <1>4

-----------------------------------------------------------------------------
(* The camera of a layer.                                                  *)

\* Positions and times are numbers, NULL is none, nor a fit.
CameraFits ==
  /\ Positions \subseteq Int /\ Durations \subseteq Nat /\ None \notin Int
  /\ \A p, t : [to |-> p, mtime |-> t] # None

Fits == [to : Int, mtime : Int]

\* The target is what was asked for last, and so is what it may be set back to; what was
\* shown last is where the way begins.
CameraInv ==
  /\ now \in Int /\ pos0 \in Int /\ mtime0 \in Int /\ pos1 \in Int /\ mtime1 \in Int
  /\ saved \in Int /\ fit \in Fits \cup {None} /\ following \in Int \cup {None}
  /\ bookmark \in Int \cup {None}
  /\ Camera!Target = askedOfCamera /\ saved = askedDefault
  /\ bookmark # None => bookmark = askedBookmark
  /\ seen = pos0

\* On its way the camera is between where it began and its target.
LEMMA WayIsBetween ==
  ASSUME NEW p \in Int, NEW t \in Int, NEW k \in Nat, NEW m \in Nat \ {0}, k <= m
  PROVE  LET s == p + ((t - p) * k) \div m
         IN s \in Int /\ ((p <= s /\ s <= t) \/ (t <= s /\ s <= p))
<1> DEFINE d == t - p
           a == d * k
<1>1. d \in Int /\ a \in Int
  OBVIOUS
<1>2. /\ d >= 0 => 0 <= a /\ a <= d * m
      /\ d <= 0 => a <= 0 /\ d * m <= a
  <2>1. ASSUME NEW e \in Nat PROVE 0 <= e * k /\ e * k <= e * m
    <3>1. PICK r \in Nat : m = k + r
      <4>1. m - k \in Nat /\ m = k + (m - k)
        OBVIOUS
      <4> QED
        BY <4>1
    <3>2. e * m = e * k + e * r /\ e * r \in Nat /\ e * k \in Nat
      BY <3>1
    <3> QED
      BY <3>2
  <2>2. CASE d >= 0
    BY <1>1, <2>1, <2>2
  <2>3. CASE d <= 0
    <3>1. PICK e \in Nat : d = -e
      BY <1>1, <2>3
    <3>2. 0 <= e * k /\ e * k <= e * m /\ e * k \in Int /\ e * m \in Int
      BY <2>1
    <3>3. d * k = -(e * k) /\ d * m = -(e * m)
      BY <3>1
    <3> QED
      BY <1>1, <3>1, <3>2, <3>3
  <2> QED
    BY <1>1, <2>2, <2>3
<1> HIDE DEF a
<1>3. a \div m \in Int
  BY <1>1, DivIs
<1>4. 0 * m = 0
  OBVIOUS
<1>5. CASE d >= 0
  <2>1. 0 <= a \div m /\ a \div m <= d
    BY <1>1, <1>2, <1>4, <1>5, DivStaysWithin
  <2> QED
    BY <1>3, <2>1 DEF a
<1>6. CASE d <= 0
  <2>1. a \div m <= 0 /\ d <= a \div m
    BY <1>1, <1>2, <1>4, <1>6, DivStaysWithin
  <2> QED
    BY <1>3, <2>1 DEF a
<1> QED
  BY <1>1, <1>5, <1>6

LEMMA ShownIsBetween ==
  ASSUME CameraFits, CameraInv
  PROVE  /\ Camera!Target \in Int /\ Camera!Due \in Int /\ Camera!Shown \in Int
         /\ now <= Camera!Due =>
              \/ pos0 <= Camera!Shown /\ Camera!Shown <= Camera!Target
              \/ Camera!Target <= Camera!Shown /\ Camera!Shown <= pos0
<1>1. PICK t \in Int, until \in Int : t = Camera!Target /\ until = Camera!Due
  BY DEF CameraInv, Camera!Target, Camera!Due, Fits
<1>2. PICK p \in Int, from \in Int, at \in Int : p = pos0 /\ from = mtime0 /\ at = now
  BY DEF CameraInv
<1>3. Camera!Shown = IF at > until THEN t ELSE IF at <= from THEN p
                     ELSE p + ((t - p) * (at - from)) \div (until - from)
  BY <1>1, <1>2 DEF Camera!Shown
<1>4. CASE at > until
  BY <1>1, <1>2, <1>3, <1>4
<1>5. CASE at <= until /\ at <= from
  <2>1. Camera!Shown = p
    BY <1>3, <1>5
  <2> QED
    BY <1>1, <1>2, <2>1
<1>6. CASE at <= until /\ at > from
  <2>1. PICK k \in Nat, m \in Nat \ {0} : k = at - from /\ m = until - from /\ k <= m
    <3>1. at - from \in Nat /\ until - from \in Nat \ {0} /\ at - from <= until - from
      BY <1>6
    <3> QED
      BY <3>1
  <2>2. Camera!Shown = p + ((t - p) * k) \div m
    BY <1>3, <1>6, <2>1
  <2>3. /\ p + ((t - p) * k) \div m \in Int
        /\ \/ p <= p + ((t - p) * k) \div m /\ p + ((t - p) * k) \div m <= t
           \/ t <= p + ((t - p) * k) \div m /\ p + ((t - p) * k) \div m <= p
    BY <2>1, WayIsBetween
  <2> QED
    BY <1>1, <1>2, <2>2, <2>3
<1> QED
  BY <1>4, <1>5, <1>6

LEMMA CameraArrivesAndMoves ==
  ASSUME CameraFits
  PROVE  Camera!Init /\ [][Camera!Next]_cameraVars
         => Camera!ArrivesAsAsked /\ Camera!MovesTowards
<1>1. Camera!Init => CameraInv
  BY DEF Camera!Init, CameraInv, CameraFits, Camera!Target
<1>2. CameraInv /\ [Camera!Next]_cameraVars => CameraInv'
  <2> SUFFICES ASSUME CameraInv, [Camera!Next]_cameraVars PROVE CameraInv'
    OBVIOUS
  <2>1. \A ms \in Durations : ms \in Int
    BY DEF CameraFits
  <2>2. ASSUME NEW x \in Positions, NEW ms \in Durations, NEW b \in BOOLEAN,
               Camera!Lookat(x, b, ms)
        PROVE  CameraInv'
    BY <2>1, <2>2 DEF Camera!Lookat, CameraInv, CameraFits, Camera!Target, Camera!MoveTo,
                 Camera!WithoutFit, Camera!handlerVars
  <2>3. ASSUME NEW x \in Positions, NEW ms \in Durations, Camera!Fit2D(x, ms)
        PROVE  CameraInv'
    BY <2>1, <2>3 DEF Camera!Fit2D, CameraInv, CameraFits, Camera!Target, Camera!handlerVars, Fits
  <2>4. ASSUME NEW x \in Positions, NEW ms \in Durations, Camera!Follow(x, ms)
        PROVE  CameraInv'
    BY <2>1, <2>4 DEF Camera!Follow, CameraInv, CameraFits, Camera!Target, Camera!MoveTo,
                 Camera!handlerVars, Fits
  <2>5. ASSUME NEW x \in Positions, NEW ms \in Durations, Camera!Drag(x, ms)
        PROVE  CameraInv'
    BY <2>1, <2>5 DEF Camera!Drag, CameraInv, CameraFits, Camera!Target, Camera!MoveTo,
                 Camera!WithoutFit, Camera!handlerVars
  <2>6. ASSUME NEW ms \in Durations, Camera!Defaults(ms) \/ Camera!GoToBookmark(ms)
        PROVE  CameraInv'
    BY <2>1, <2>6 DEF Camera!Defaults, Camera!GoToBookmark, CameraInv, CameraFits, Camera!Target,
                 Camera!MoveTo, Camera!WithoutFit, Camera!handlerVars
  <2>7. CASE Camera!Projection
    BY <2>7 DEF Camera!Projection, CameraInv, CameraFits, Camera!Target,
                 Camera!MoveTo, Camera!handlerVars, Camera!historyVars
  <2>8. CASE Camera!SetBookmark
    BY <2>8 DEF Camera!SetBookmark, CameraInv, Camera!Target, Camera!camVars
  <2>9. CASE Camera!Frame
    <3>1. Camera!Target \in Int /\ Camera!Due \in Int /\ Camera!Shown \in Int
      BY ShownIsBetween
    <3>2. /\ pos0' = Camera!Shown /\ mtime0' = now /\ pos1' = Camera!Target
          /\ mtime1' = Camera!Due /\ fit' = None /\ seen' = Camera!Shown
          /\ UNCHANGED <<now, saved, following, bookmark, askedOfCamera, askedDefault,
                         askedBookmark>>
      BY <2>9 DEF Camera!Frame, Camera!Departure, Camera!handlerVars
    <3>3. Camera!Target' = pos1'
      BY <3>2 DEF Camera!Target
    <3>4. Camera!Target' = askedOfCamera'
      BY <3>2, <3>3 DEF CameraInv
    <3> QED
      BY <3>1, <3>2, <3>4 DEF CameraInv
  <2>10. CASE Camera!Tick \/ Camera!Release \/ (\E kind \in {"pan", "rotate"} : Camera!Press(kind))
              \/ UNCHANGED cameraVars
    <3>1. /\ now' \in {now, now + 1}
          /\ UNCHANGED <<pos0, mtime0, pos1, mtime1, saved, fit, following, bookmark,
                         askedOfCamera, askedDefault, askedBookmark, seen>>
      BY <2>10 DEF Camera!Tick, Camera!Release, Camera!Press, Camera!camVars,
                   Camera!handlerVars, Camera!historyVars, cameraVars
    <3>2. Camera!Target' = Camera!Target
      BY <3>1 DEF Camera!Target
    <3> QED
      BY <3>1, <3>2 DEF CameraInv
  <2> QED
    BY <2>2, <2>3, <2>4, <2>5, <2>6, <2>7, <2>8, <2>9, <2>10 DEF Camera!Next
<1>3. [Camera!Next]_cameraVars /\ mtime0' # mtime0 => Camera!Frame
  BY DEF Camera!Next, Camera!Lookat, Camera!Fit2D, Camera!Follow, Camera!Drag, Camera!Defaults,
         Camera!GoToBookmark, Camera!Projection, Camera!Press, Camera!Release,
         Camera!SetBookmark, Camera!Tick, cameraVars, Camera!camVars
<1>4. CameraInv /\ [Camera!Next]_cameraVars
      => [mtime0' # mtime0 /\ now > Camera!Due => Camera!Shown = askedOfCamera]_(Camera!vars)
  BY DEF CameraInv, Camera!Shown
<1>5. CameraInv /\ [Camera!Next]_cameraVars
      => [(mtime0' # mtime0 /\ now <= Camera!Due) =>
            \/ seen <= seen' /\ seen' <= Camera!Target
            \/ Camera!Target <= seen' /\ seen' <= seen]_(Camera!vars)
  BY <1>3, ShownIsBetween DEF CameraInv, Camera!Frame
<1> QED
  BY <1>1, <1>2, <1>4, <1>5, PTL DEF Camera!ArrivesAsAsked, Camera!MovesTowards

-----------------------------------------------------------------------------
(* The place of a layer in its window.                                     *)

\* Shares of the window, and places in pixels.
ShareRecords == [at : [num : Int, den : Nat \ {0}], size : [num : Int, den : Nat \ {0}]]
PixelRecords == [at : Int, size : Int]

\* Windows of some size, and numbers for the rest.
ViewportFits ==
  /\ Windows \subseteq Nat \ {0} /\ Shares \subseteq ShareRecords
  /\ Sizes \subseteq Int /\ Offsets \subseteq Int /\ Durations \subseteq Nat

\* What was answered last is where the way begins, as a share of the window then.
ViewportInv ==
  /\ window \in Nat \ {0} /\ shownIn \in Nat \ {0} /\ time \in Nat \ {0}
  /\ mode \in {"rel", "abs"} /\ since \in Int /\ due \in Int
  /\ rel0 \in ShareRecords /\ rel1 \in ShareRecords
  /\ abs0 \in PixelRecords /\ place \in PixelRecords
  /\ align1 \in [anchor : {"near", "middle", "far"}, offset : Int, size : Int]
  /\ place # Viewport!Unseen =>
       /\ since # 0 /\ abs0 = place
       /\ rel0 = [at |-> [num |-> place.at, den |-> shownIn],
                  size |-> [num |-> place.size, den |-> shownIn]]

\* A whole number in the middle of two, when it is one or the other half of it.
LEMMA RoundedIsWithin ==
  ASSUME NEW n \in Int, NEW d \in Nat \ {0}, NEW lo \in Int, NEW hi \in Int,
         lo * d <= n, n <= hi * d, NEW r \in Viewport!Rounded(n, d)
  PROVE  r \in Int /\ lo <= r /\ r <= hi
<1>1. CASE (2 * n) % d = 0 /\ n % d # 0
  <2>1. r \in {n \div d, n \div d + 1}
    BY <1>1 DEF Viewport!Rounded
  <2>2. n \div d \in Int /\ lo <= n \div d /\ n \div d <= hi
    BY DivIs, DivStaysWithin
  <2>3. n \div d # hi
    <3>1. ASSUME n \div d = hi PROVE FALSE
      <4>1. n % d = n - hi * d /\ hi * d <= n
        BY <3>1, DivIs
      <4>2. hi * d \in Int
        OBVIOUS
      <4>3. n % d = 0
        BY <4>1, <4>2
      <4> QED
        BY <1>1, <4>3
    <3> QED
      BY <3>1
  <2> QED
    BY <2>1, <2>2, <2>3
<1>2. CASE ~((2 * n) % d = 0 /\ n % d # 0)
  <2>1. r = (2 * n + d) \div (2 * d)
    BY <1>2 DEF Viewport!Rounded
  <2>2. PICK a \in Int, m \in Nat \ {0} : a = 2 * n + d /\ m = 2 * d
    OBVIOUS
  <2>3. lo * m = 2 * (lo * d) /\ hi * m = 2 * (hi * d)
    BY <2>2
  <2>4. PICK u \in Int, v \in Int : u = lo * d /\ v = hi * d
    OBVIOUS
  <2>5. lo * m <= a /\ a < hi * m + m
    BY <2>2, <2>3, <2>4
  <2>6. (hi + 1) * m = hi * m + m
    OBVIOUS
  <2>7. PICK q \in Int : q = a \div m /\ q * m <= a /\ lo <= q
    BY <2>5, DivIs, DivStaysWithin
  <2>8. ~(hi < q)
    <3>1. hi < q => hi * m + m <= q * m
      BY TimesGrows
    <3>2. hi * m \in Int /\ q * m \in Int
      OBVIOUS
    <3> QED
      BY <2>5, <2>7, <3>1, <3>2
  <2> QED
    BY <2>1, <2>2, <2>7, <2>8
<1> QED
  BY <1>1, <1>2

\* A mean of two is between them.
LEMMA MeanIsBetween ==
  ASSUME NEW x \in Int, NEW y \in Int, NEW k \in Nat, NEW j \in Nat, x <= y
  PROVE  /\ x * (k + j) <= x * k + y * j /\ x * k + y * j <= y * (k + j)
         /\ x * (k + j) <= y * k + x * j /\ y * k + x * j <= y * (k + j)
<1>1. PICK e \in Nat : y = x + e
  <2>1. y - x \in Nat /\ y = x + (y - x)
    OBVIOUS
  <2> QED
    BY <2>1
<1>2. /\ x * (k + j) = x * k + x * j
      /\ y * (k + j) = (x * k + x * j) + (e * k + e * j)
      /\ y * k = x * k + e * k /\ y * j = x * j + e * j
  BY <1>1
<1>3. /\ x * k \in Int /\ x * j \in Int /\ e * k \in Nat /\ e * j \in Nat
  OBVIOUS
<1> QED
  BY <1>2, <1>3

LEMMA RoundedIsBetween ==
  ASSUME NEW x \in Int, NEW y \in Int, NEW k \in Nat, NEW j \in Nat, k + j > 0,
         NEW r \in Viewport!Rounded(x * k + y * j, k + j)
  PROVE  r \in Int /\ ((x <= r /\ r <= y) \/ (y <= r /\ r <= x))
<1>1. PICK d \in Nat \ {0}, n \in Int : d = k + j /\ n = x * k + y * j
  <2>1. k + j \in Nat \ {0} /\ x * k + y * j \in Int
    OBVIOUS
  <2> QED
    BY <2>1
<1>2. r \in Viewport!Rounded(n, d)
  BY <1>1
<1>3. CASE x <= y
  <2>1. x * d <= n /\ n <= y * d
    BY <1>1, <1>3, MeanIsBetween
  <2> QED
    BY <1>2, <2>1, RoundedIsWithin
<1>4. CASE y <= x
  <2>1. y * d <= n /\ n <= x * d
    BY <1>1, <1>4, MeanIsBetween
  <2> QED
    BY <1>2, <2>1, RoundedIsWithin
<1> QED
  BY <1>3, <1>4

\* A share of the window in pixels, but for what its float may lack.
LEMMA PixelsAre ==
  ASSUME window \in Nat \ {0}, NEW a \in Int, NEW d \in Nat \ {0},
         NEW q \in Viewport!Pixels([num |-> a, den |-> d])
  PROVE  /\ (a * window) \div d \in Int /\ q \in Int
         /\ q \in {(a * window) \div d - 1, (a * window) \div d}
<1>1. PICK n \in Int : n = window * a /\ n = a * window
  OBVIOUS
<1>2. n \div d \in Int
  BY DivIs
<1>3. q \in {n \div d - 1, n \div d}
  BY <1>1 DEF Viewport!Pixels
<1> QED
  BY <1>1, <1>2, <1>3

LEMMA InPixelsAre ==
  ASSUME window \in Nat \ {0}, NEW share \in ShareRecords, NEW p \in Viewport!InPixels(share)
  PROVE  p \in PixelRecords
<1>1. PICK a \in Viewport!Pixels(share.at), s \in Viewport!Pixels(share.size) :
        p = [at |-> a, size |-> s]
  BY DEF Viewport!InPixels
<1>2. PICK n \in Int, d \in Nat \ {0} : share.at = [num |-> n, den |-> d]
  BY DEF ShareRecords
<1>3. PICK m \in Int, e \in Nat \ {0} : share.size = [num |-> m, den |-> e]
  BY DEF ShareRecords
<1>4. a \in Int /\ s \in Int
  BY <1>2, <1>3, PixelsAre
<1> QED
  BY <1>1, <1>4 DEF PixelRecords

\* x is where a side on the way from f to t is at the time given.
OnTheWay(f, t, at, from, until, x) ==
  IF at >= until THEN x = t
  ELSE IF at <= from THEN x = f
  ELSE x \in Viewport!Rounded(f * (until - at) + t * (at - from), until - from)

\* Along one side: from where the layer stood, but for a pixel, towards its target.
LEMMA SideMoves ==
  ASSUME NEW s \in Int, NEW f \in {s - 1, s}, NEW t \in Int,
         NEW at \in Int, NEW from \in Int, NEW until \in Int,
         NEW r,
         OnTheWay(f, t, at, from, until, r)
  PROVE  /\ r \in Int
         /\ Viewport!Within(r, s, t)
         /\ at = from /\ at < until => r - s \in -1 .. 1
<1> USE DEF Viewport!Within, OnTheWay
<1>1. CASE at >= until
  BY <1>1
<1>2. CASE at < until /\ at <= from
  <2>1. r = f
    BY <1>2
  <2> QED
    BY <2>1
<1>3. CASE at < until /\ at > from
  <2>1. PICK k \in Nat, j \in Nat : k = until - at /\ j = at - from /\ k + j = until - from /\ k + j > 0
    BY <1>3
  <2>2. r \in Viewport!Rounded(f * k + t * j, k + j)
    BY <1>3, <2>1
  <2>3. f \in Int
    OBVIOUS
  <2>4. r \in Int /\ ((f <= r /\ r <= t) \/ (t <= r /\ r <= f))
    BY <2>1, <2>2, <2>3, RoundedIsBetween
  <2> QED
    BY <1>3, <2>4
<1> QED
  BY <1>1, <1>2, <1>3

LEMMA PlaceIs ==
  ASSUME time \in Int, due \in Int, NEW s \in Int, NEW from \in PixelRecords, NEW end \in PixelRecords,
         NEW p \in Viewport!Places(from, end, s)
  PROVE  /\ OnTheWay(from.at, end.at, time, s, due, p.at)
         /\ OnTheWay(from.size, end.size, time, s, due, p.size)
         /\ p \in PixelRecords
<1> USE DEF OnTheWay
<1>1. CASE time >= due
  <2>1. p = end
    BY <1>1 DEF Viewport!Places
  <2> QED
    BY <1>1, <2>1
<1>2. CASE time < due /\ time <= s
  <2>1. p = from
    BY <1>2 DEF Viewport!Places
  <2> QED
    BY <1>2, <2>1
<1>3. CASE time < due /\ time > s
  <2>1. p \in Viewport!Between(from, end, s)
    BY <1>3 DEF Viewport!Places
  <2> DEFINE A == Viewport!Rounded(from.at * (due - time) + end.at * (time - s), due - s)
             B == Viewport!Rounded(from.size * (due - time) + end.size * (time - s), due - s)
  <2>0. Viewport!Between(from, end, s) = {[at |-> a, size |-> b] : a \in A, b \in B}
    BY DEF Viewport!Between
  <2> HIDE DEF A, B
  <2>2. PICK a \in A, b \in B : p = [at |-> a, size |-> b]
    BY <2>0, <2>1
  <2> USE DEF A, B
  <2>3. p.at = a /\ p.size = b
    BY <2>2
  <2>4. from.at \in Int /\ end.at \in Int /\ from.size \in Int /\ end.size \in Int
    BY DEF PixelRecords
  <2>5. a \in Int /\ b \in Int
    <3>1. PICK k \in Nat, j \in Nat : k = due - time /\ j = time - s /\ k + j = due - s /\ k + j > 0
      BY <1>3
    <3>2. PICK x \in Int, y \in Int, u \in Int, v \in Int :
            x = from.at /\ y = end.at /\ u = from.size /\ v = end.size
      BY <2>4
    <3>3. /\ a \in Viewport!Rounded(x * k + y * j, k + j)
          /\ b \in Viewport!Rounded(u * k + v * j, k + j)
      BY <3>1, <3>2
    <3> QED
      BY <3>1, <3>3, RoundedIsBetween
  <2> QED
    BY <1>3, <2>2, <2>3, <2>5 DEF PixelRecords
<1> QED
  BY <1>1, <1>2, <1>3

LEMMA AlignedIs ==
  ASSUME ViewportInv
  PROVE  Viewport!Aligned \in PixelRecords
<1>1. PICK c \in {"near", "middle", "far"}, o \in Int, s \in Int :
        align1 = [anchor |-> c, offset |-> o, size |-> s]
  BY DEF ViewportInv
<1>2. PICK w \in Nat \ {0} : w = window
  BY DEF ViewportInv
<1>3. w \div 2 \in Int /\ s \div 2 \in Int
  BY DivIs
<1>4. \E x \in Int : Viewport!Aligned = [at |-> o + x, size |-> s]
  <2>1. align1.anchor = c /\ align1.offset = o /\ align1.size = s
    BY <1>1
  <2>2. CASE c = "near"
    BY <1>2, <2>1, <2>2 DEF Viewport!Aligned
  <2>3. CASE c = "middle"
    <3>1. Viewport!Aligned = [at |-> o + (w \div 2 - s \div 2), size |-> s]
      BY <1>2, <2>1, <2>3 DEF Viewport!Aligned
    <3>2. PICK v \in Int : v = w \div 2 - s \div 2
      BY <1>3
    <3> QED
      BY <3>1, <3>2
  <2>4. CASE c = "far"
    <3>1. Viewport!Aligned = [at |-> o + (w - 1 - s), size |-> s]
      BY <1>2, <2>1, <2>4 DEF Viewport!Aligned
    <3>2. PICK v \in Int : v = w - 1 - s
      OBVIOUS
    <3> QED
      BY <3>1, <3>2
  <2> QED
    BY <2>2, <2>3, <2>4
<1> QED
  BY <1>4 DEF PixelRecords

\* Where a way begins and where it ends.
LEMMA EndsArePixels ==
  ASSUME ViewportInv
  PROVE  /\ \A from \in Viewport!Sources : from \in PixelRecords
         /\ \A end \in Viewport!Targets : end \in PixelRecords
<1>1. window \in Nat \ {0} /\ rel0 \in ShareRecords /\ rel1 \in ShareRecords
      /\ abs0 \in PixelRecords
  BY DEF ViewportInv
<1>2. \A p \in Viewport!InPixels(rel0) : p \in PixelRecords
  BY <1>1, InPixelsAre
<1>3. \A p \in Viewport!InPixels(rel1) : p \in PixelRecords
  BY <1>1, InPixelsAre
<1> QED
  BY <1>1, <1>2, <1>3, AlignedIs DEF Viewport!Sources, Viewport!Targets

LEMMA ViewportInvStays ==
  ASSUME ViewportFits
  PROVE  ViewportInv /\ [Viewport!Next]_viewportVars => ViewportInv'
<1> SUFFICES ASSUME ViewportInv, [Viewport!Next]_viewportVars PROVE ViewportInv'
  OBVIOUS
<1>1. CASE Viewport!GetPos
  <2>1. PICK from \in Viewport!Sources, end \in Viewport!Targets :
          \E p \in Viewport!Places(from, end, IF since = 0 THEN time ELSE since) :
             abs0' = p /\ place' = p /\ rel0' = Viewport!ShareOf(p)
    BY <1>1 DEF Viewport!GetPos
  <2>2. PICK p \in Viewport!Places(from, end, IF since = 0 THEN time ELSE since) :
          abs0' = p /\ place' = p /\ rel0' = Viewport!ShareOf(p)
    BY <2>1
  <2>3. /\ time \in Nat \ {0} /\ due \in Int /\ since \in Int /\ window \in Nat \ {0}
        /\ rel1 \in ShareRecords
    BY DEF ViewportInv
  <2>4. p \in PixelRecords
    <3>1. PICK s \in Int : s = IF since = 0 THEN time ELSE since
      BY <2>3
    <3> QED
      BY <2>2, <2>3, <3>1, EndsArePixels, PlaceIs
  <2>5. since' = time /\ shownIn' = window
        /\ UNCHANGED <<window, time, mode, rel1, align1, due, changes>>
    BY <1>1 DEF Viewport!GetPos, Viewport!target
  <2>6. rel0' = [at |-> [num |-> p.at, den |-> window], size |-> [num |-> p.size, den |-> window]]
    BY <2>2 DEF Viewport!ShareOf
  <2>7. rel0' \in ShareRecords
    BY <2>3, <2>4, <2>6 DEF ShareRecords, PixelRecords
  <2> QED
    BY <2>2, <2>3, <2>4, <2>5, <2>6, <2>7 DEF ViewportInv
<1>2. CASE Viewport!SetRel
  <2>1. /\ rel1' \in ShareRecords /\ due' \in Int /\ mode' = "rel"
        /\ UNCHANGED <<window, time, align1, rel0, abs0, since, place, shownIn>>
    BY <1>2 DEF Viewport!SetRel, ViewportFits, Viewport!current, ViewportInv
  <2> QED
    BY <2>1 DEF ViewportInv, Viewport!Unseen
<1>3. CASE Viewport!SetAbs
  <2>1. /\ due' \in Int /\ mode' = "abs"
        /\ UNCHANGED <<window, time, rel1, rel0, abs0, since, place, shownIn>>
    BY <1>3 DEF Viewport!SetAbs, ViewportFits, Viewport!current, ViewportInv
  <2>2. align1' \in [anchor : {"near", "middle", "far"}, offset : Int, size : Int]
    BY <1>3 DEF Viewport!SetAbs, ViewportFits, Viewport!Anchors
  <2> QED
    BY <2>1, <2>2 DEF ViewportInv, Viewport!Unseen
<1>4. CASE Viewport!Resize \/ Viewport!Tick \/ UNCHANGED viewportVars
  <2>1. /\ window' \in Nat \ {0} /\ time' \in Nat \ {0}
        /\ UNCHANGED <<mode, rel0, abs0, since, rel1, align1, due, place, shownIn>>
    <3>1. CASE Viewport!Resize
      BY <3>1 DEF Viewport!Resize, ViewportFits, Viewport!current, Viewport!target, ViewportInv
    <3>2. CASE Viewport!Tick
      <4>1. time' = time + 1 /\ UNCHANGED <<window, Viewport!target, Viewport!current>>
        BY <3>2 DEF Viewport!Tick
      <4> QED
        BY <4>1 DEF Viewport!current, Viewport!target, ViewportInv
    <3>3. CASE UNCHANGED viewportVars
      BY <3>3 DEF viewportVars, ViewportInv
    <3> QED
      BY <1>4, <3>1, <3>2, <3>3
  <2> QED
    BY <2>1 DEF ViewportInv, Viewport!Unseen
<1> QED
  BY <1>1, <1>2, <1>3, <1>4 DEF Viewport!Next

LEMMA LayerMoves ==
  ASSUME ViewportInv, Viewport!GetPos, place # Viewport!Unseen
  PROVE  Viewport!Approaches
<1>1. /\ since # 0 /\ abs0 = place /\ time \in Int /\ due \in Int /\ since \in Int
      /\ window \in Nat \ {0} /\ shownIn \in Nat \ {0} /\ mode \in {"rel", "abs"}
      /\ place \in PixelRecords
      /\ rel0 = [at |-> [num |-> place.at, den |-> shownIn],
                 size |-> [num |-> place.size, den |-> shownIn]]
  BY DEF ViewportInv
<1>2. PICK from \in Viewport!Sources, end \in Viewport!Targets :
        place' \in Viewport!Places(from, end, since)
  BY <1>1 DEF Viewport!GetPos
<1>3. from \in PixelRecords /\ end \in PixelRecords
  BY EndsArePixels
<1>4. PICK p \in Viewport!Places(from, end, since) : p = place'
  BY <1>2
<1>5. PICK x \in Int, y \in Int, e \in Int, g \in Int, v \in Int, u \in Int :
        /\ x = place.at /\ y = place.size /\ e = from.at /\ g = from.size
        /\ v = end.at /\ u = end.size
  BY <1>1, <1>3 DEF PixelRecords
<1>6. /\ Viewport!Stood(x) \in Int /\ e \in {Viewport!Stood(x) - 1, Viewport!Stood(x)}
      /\ Viewport!Stood(y) \in Int /\ g \in {Viewport!Stood(y) - 1, Viewport!Stood(y)}
  <2>1. CASE mode = "rel"
    <3>1. from \in Viewport!InPixels(rel0)
      BY <2>1 DEF Viewport!Sources
    <3>2. rel0.at = [num |-> x, den |-> shownIn] /\ rel0.size = [num |-> y, den |-> shownIn]
      BY <1>1, <1>5
    <3>3. PICK a \in Viewport!Pixels([num |-> x, den |-> shownIn]),
               b \in Viewport!Pixels([num |-> y, den |-> shownIn]) :
            from = [at |-> a, size |-> b]
      BY <3>1, <3>2 DEF Viewport!InPixels
    <3>4. e = a /\ g = b
      BY <1>5, <3>3
    <3>5. /\ Viewport!Stood(x) = (x * window) \div shownIn
          /\ Viewport!Stood(y) = (y * window) \div shownIn
      BY <2>1 DEF Viewport!Stood
    <3>6. /\ (x * window) \div shownIn \in Int
          /\ a \in {(x * window) \div shownIn - 1, (x * window) \div shownIn}
      BY <1>1, PixelsAre
    <3>7. /\ (y * window) \div shownIn \in Int
          /\ b \in {(y * window) \div shownIn - 1, (y * window) \div shownIn}
      BY <1>1, PixelsAre
    <3> QED
      BY <3>4, <3>5, <3>6, <3>7
  <2>2. CASE mode = "abs"
    <3>1. from = place
      BY <1>1, <2>2 DEF Viewport!Sources
    <3>2. Viewport!Stood(x) = x /\ Viewport!Stood(y) = y
      BY <2>2 DEF Viewport!Stood
    <3> QED
      BY <1>5, <3>1, <3>2
  <2> QED
    BY <1>1, <2>1, <2>2
<1>7. PICK k \in Int, h \in Int : k = Viewport!Stood(x) /\ h = Viewport!Stood(y)
  BY <1>6
<1>8. PICK at \in Int, start0 \in Int, until \in Int : at = time /\ start0 = since /\ until = due
  BY <1>1
<1>9. PICK l, q : l = p.at /\ q = p.size
  OBVIOUS
<1>10. /\ OnTheWay(e, v, at, start0, until, l)
       /\ OnTheWay(g, u, at, start0, until, q)
  BY <1>1, <1>3, <1>5, <1>8, <1>9, PlaceIs
<1>11. /\ Viewport!Within(l, k, v)
       /\ at = start0 /\ at < until => l - k \in -1 .. 1
  <2>1. e \in {k - 1, k}
    BY <1>6, <1>7
  <2> QED
    BY <1>10, <2>1, SideMoves
<1>12. /\ Viewport!Within(q, h, u)
       /\ at = start0 /\ at < until => q - h \in -1 .. 1
  <2>1. g \in {h - 1, h}
    BY <1>6, <1>7
  <2> QED
    BY <1>10, <2>1, SideMoves
<1> QED
  BY <1>4, <1>5, <1>7, <1>8, <1>9, <1>11, <1>12 DEF Viewport!Approaches

LEMMA LayerMovesTowards ==
  ASSUME ViewportFits
  PROVE  Viewport!Spec => Viewport!MovesTowards
<1>1. Viewport!Init => ViewportInv
  BY DEF Viewport!Init, Viewport!FillsWindow, Viewport!Whole, Viewport!Unseen, ViewportInv,
         ViewportFits, ShareRecords, PixelRecords
<1>2. ViewportInv /\ [Viewport!Next]_viewportVars => ViewportInv'
  BY ViewportInvStays
<1>3. ViewportInv /\ [Viewport!Next]_viewportVars
      => [Viewport!GetPos /\ place # Viewport!Unseen => Viewport!Approaches]_(Viewport!vars)
  BY LayerMoves
<1>4. [Viewport!Next]_(Viewport!vars) => [Viewport!Next]_viewportVars
  BY DEF viewportVars, Viewport!vars, Viewport!current, Viewport!target
<1> QED
  BY <1>1, <1>2, <1>3, <1>4, PTL DEF Viewport!Spec, Viewport!MovesTowards

-----------------------------------------------------------------------------
(* A USB camera's features.                                                *)

\* A feature that was not set has no number, so nothing can be read for it.
FeaturesFit == None \notin Nat

UsbControl ==
  [on : BOOLEAN, auto : BOOLEAN, push : BOOLEAN, abs : BOOLEAN, ub : Nat, vr : Nat]
UsbTrigger == [on : BOOLEAN, high : BOOLEAN, source : Nat, mode : Nat]

UsbTypes ==
  /\ usbControl \in [UsbSet!Simple -> UsbControl]
  /\ absolute \in Nat
  /\ trigger \in UsbTrigger
  /\ embed \in SUBSET {"timestamp", "gain"}
  /\ usbAsked \in [UsbSet!Features -> Nat \cup {None}]

\* A mode that was asked for is the register's, or the manual one it became; a value
\* that was is the camera's, which is in manual mode and takes it from there.
ModeHeld(c, m) ==
  m # None => UsbSet!ModeOf(c) = m \/ (m = 3 /\ UsbSet!ModeOf(c) = 2)
ValueHeld(c, isAbs, held, m) ==
  m # None => held = m /\ UsbSet!ModeOf(c) = 2 /\ c.abs = isAbs

ShutterHeld ==
  /\ ModeHeld(usbControl["shutter"], usbAsked[<<"shutter", "mode">>])
  /\ ValueHeld(usbControl["shutter"], TRUE, absolute, usbAsked[<<"shutter", "value">>])
BalanceHeld ==
  LET c == usbControl["white-balance"] IN
  /\ ModeHeld(c, usbAsked[<<"white-balance", "mode">>])
  /\ ValueHeld(c, FALSE, c.ub, usbAsked[<<"white-balance", "ub">>])
  /\ ValueHeld(c, FALSE, c.vr, usbAsked[<<"white-balance", "vr">>])
TriggerHeld ==
  /\ usbAsked[<<"trigger", "enabled">>] \in {None, UsbSet!EnabledOf(trigger)}
  /\ usbAsked[<<"trigger", "source">>] \in {None, trigger.source}
  /\ usbAsked[<<"trigger", "mode">>] \in {None, trigger.mode}
EmbedHeld ==
  \A part \in {"timestamp", "gain"} :
    usbAsked[<<"embed", part>>] \in {None, IF part \in embed THEN 1 ELSE 0}

\* What the two properties rest on, register by register.
UsbInv == UsbTypes /\ ShutterHeld /\ BalanceHeld /\ TriggerHeld /\ EmbedHeld

LEMMA FeaturesAre ==
  /\ UsbSet!Features =
       {<<"shutter", "mode">>, <<"shutter", "value">>,
        <<"white-balance", "mode">>, <<"white-balance", "ub">>, <<"white-balance", "vr">>,
        <<"trigger", "enabled">>, <<"trigger", "source">>, <<"trigger", "mode">>,
        <<"embed", "timestamp">>, <<"embed", "gain">>}
  /\ UsbSet!Simple = {"shutter", "white-balance"}
  /\ UsbSet!Parts("shutter") = {"mode", "value"}
  /\ UsbSet!Parts("white-balance") = {"mode", "ub", "vr"}
BY DEF UsbSet!Features, UsbSet!Parts, UsbSet!Simple

\* What is written for a feature with values is its register's content.
LEMMA WrittenMode ==
  ASSUME NEW v \in Nat
  PROVE  /\ UsbSet!WithMode(v) \in UsbControl
         /\ v \in 0 .. 3 => UsbSet!ModeOf(UsbSet!WithMode(v)) = v
<1>1. PICK p \in BOOLEAN, q \in BOOLEAN, r \in BOOLEAN :
        (p <=> v # 0) /\ (q <=> v = 1) /\ (r <=> v = 3)
  OBVIOUS
<1>2. UsbSet!WithMode(v) =
        [on |-> p, auto |-> q, push |-> r, abs |-> FALSE, ub |-> 0, vr |-> 0]
  BY <1>1, Zenon DEF UsbSet!WithMode
<1>3. UsbSet!WithMode(v) \in UsbControl
  BY <1>2 DEF UsbControl
<1>4. PICK c : c = UsbSet!WithMode(v)
  OBVIOUS
<1>5. c.on = p /\ c.auto = q /\ c.push = r
  BY <1>2, <1>4
<1>6. v \in 0 .. 3 => UsbSet!ModeOf(c) = v
  BY <1>1, <1>5 DEF UsbSet!ModeOf
<1> QED
  BY <1>3, <1>4, <1>6

LEMMA WrittenManual ==
  ASSUME NEW isAbs \in BOOLEAN, NEW n \in Nat, NEW m \in Nat
  PROVE  LET c == UsbSet!InManual(isAbs, n, m) IN
         c \in UsbControl /\ UsbSet!ModeOf(c) = 2 /\ c.abs = isAbs /\ c.ub = n /\ c.vr = m
BY DEF UsbSet!InManual, UsbSet!ModeOf, UsbControl

LEMMA UsbInvHolds == FeaturesFit /\ UsbInv => UsbSet!SettingsHold /\ UsbSet!ValueInForce
<1> SUFFICES ASSUME FeaturesFit, UsbInv
             PROVE  UsbSet!SettingsHold /\ UsbSet!ValueInForce
  OBVIOUS
<1>1. ASSUME NEW f \in UsbSet!Features, usbAsked[f] # None
      PROVE  \/ UsbSet!Get(f) = usbAsked[f]
             \/ f[1] \in UsbSet!Simple /\ f[2] = "mode" /\ usbAsked[f] = 3 /\ UsbSet!Get(f) = 2
  <2>1. CASE f \in {<<"shutter", "mode">>, <<"shutter", "value">>}
    BY <1>1, <2>1 DEF UsbInv, ShutterHeld, ModeHeld, ValueHeld, UsbSet!Get, UsbSet!Simple,
                      UsbSet!Absolute
  <2>2. CASE f \in {<<"white-balance", "mode">>, <<"white-balance", "ub">>,
                    <<"white-balance", "vr">>}
    <3>1. PICK c : c = usbControl["white-balance"]
      OBVIOUS
    <3>2. CASE f = <<"white-balance", "mode">>
      <4>1. UsbSet!Get(f) = UsbSet!ModeOf(c)
        BY <3>1, <3>2 DEF UsbSet!Get
      <4> QED
        BY <1>1, <3>1, <3>2, <4>1 DEF UsbInv, BalanceHeld, ModeHeld, UsbSet!Simple
    <3>3. CASE f = <<"white-balance", "ub">>
      <4>1. UsbSet!Get(f) = c["ub"]
        BY <3>1, <3>3 DEF UsbSet!Get, UsbSet!Field, UsbSet!Absolute
      <4> QED
        BY <1>1, <3>1, <3>3, <4>1 DEF UsbInv, BalanceHeld, ValueHeld
    <3>4. CASE f = <<"white-balance", "vr">>
      <4>1. UsbSet!Get(f) = c["vr"]
        BY <3>1, <3>4 DEF UsbSet!Get, UsbSet!Field, UsbSet!Absolute
      <4> QED
        BY <1>1, <3>1, <3>4, <4>1 DEF UsbInv, BalanceHeld, ValueHeld
    <3> QED
      BY <2>2, <3>2, <3>3, <3>4
  <2>3. CASE f \in {<<"trigger", "enabled">>, <<"trigger", "source">>, <<"trigger", "mode">>}
    BY <1>1, <2>3 DEF UsbInv, UsbTypes, UsbTrigger, TriggerHeld, UsbSet!Get
  <2>4. CASE f \in {<<"embed", "timestamp">>, <<"embed", "gain">>}
    BY <1>1, <2>4 DEF UsbInv, EmbedHeld, UsbSet!Get
  <2> QED
    BY <1>1, <2>1, <2>2, <2>3, <2>4, FeaturesAre
<1>2. ASSUME NEW reg \in UsbSet!Simple, NEW part \in UsbSet!Parts(reg) \ {"mode"},
             usbAsked[<<reg, part>>] # None
      PROVE  /\ UsbSet!ModeOf(usbControl[reg]) = 2
             /\ usbControl[reg].abs = (reg \in UsbSet!Absolute)
  <2>1. CASE reg = "shutter"
    <3>1. part = "value"
      BY <1>2, <2>1, FeaturesAre
    <3> QED
      BY <1>2, <2>1, <3>1 DEF UsbInv, ShutterHeld, ValueHeld, UsbSet!Absolute
  <2>2. CASE reg = "white-balance"
    <3>1. part = "ub" \/ part = "vr"
      BY <1>2, <2>2, FeaturesAre
    <3>2. /\ UsbSet!ModeOf(usbControl["white-balance"]) = 2
          /\ usbControl["white-balance"].abs = FALSE
      BY <1>2, <2>2, <3>1 DEF UsbInv, BalanceHeld, ValueHeld
    <3>3. (reg \in UsbSet!Absolute) = FALSE
      BY <2>2 DEF UsbSet!Absolute
    <3> QED
      BY <2>2, <3>2, <3>3
  <2> QED
    BY <1>2, <2>1, <2>2, FeaturesAre
<1> QED
  BY <1>1, <1>2 DEF UsbSet!SettingsHold, UsbSet!ValueInForce

LEMMA UsbInvInit == UsbSet!Init => UsbInv
<1> SUFFICES ASSUME UsbSet!Init PROVE UsbInv
  OBVIOUS
<1>1. PICK c : c = UsbSet!InManual(FALSE, 0, 0)
  OBVIOUS
<1>2. [c EXCEPT !.auto = TRUE] \in UsbControl
  <2>1. c \in UsbControl
    BY <1>1, WrittenManual
  <2> QED
    BY <2>1 DEF UsbControl
<1>3. UsbTypes
  BY <1>1, <1>2 DEF UsbSet!Init, UsbTypes, UsbTrigger
<1>4. \A f \in UsbSet!Features : usbAsked[f] = None
  BY DEF UsbSet!Init
<1> QED
  BY <1>3, <1>4, FeaturesAre
     DEF UsbInv, ShutterHeld, BalanceHeld, TriggerHeld, EmbedHeld, ModeHeld, ValueHeld

\* What Set does to the settings kept, one register at a time.
LEMMA UsbSetKeeps ==
  ASSUME FeaturesFit, UsbInv, NEW f \in UsbSet!Features, NEW v \in Nat,
         UsbSet!Set(f, v), UsbSet!Accepts(f, v)
  PROVE  UsbInv'
<1>1. /\ UsbSet!Write(f, v)
      /\ usbAsked' = [g \in UsbSet!Features |->
                        IF g = f THEN v
                        ELSE IF UsbSet!Overwrites(f, g) THEN None ELSE usbAsked[g]]
  BY DEF UsbSet!Set
<1>2. usbAsked' \in [UsbSet!Features -> Nat \cup {None}]
  BY <1>1 DEF UsbInv, UsbTypes
<1>3. /\ f[1] # "shutter" =>
           /\ usbAsked'[<<"shutter", "mode">>] = usbAsked[<<"shutter", "mode">>]
           /\ usbAsked'[<<"shutter", "value">>] = usbAsked[<<"shutter", "value">>]
      /\ f[1] # "white-balance" =>
           /\ usbAsked'[<<"white-balance", "mode">>] = usbAsked[<<"white-balance", "mode">>]
           /\ usbAsked'[<<"white-balance", "ub">>] = usbAsked[<<"white-balance", "ub">>]
           /\ usbAsked'[<<"white-balance", "vr">>] = usbAsked[<<"white-balance", "vr">>]
      /\ f[1] # "trigger" =>
           /\ usbAsked'[<<"trigger", "enabled">>] = usbAsked[<<"trigger", "enabled">>]
           /\ usbAsked'[<<"trigger", "source">>] = usbAsked[<<"trigger", "source">>]
           /\ usbAsked'[<<"trigger", "mode">>] = usbAsked[<<"trigger", "mode">>]
      /\ f[1] # "embed" =>
           \A part \in {"timestamp", "gain"} :
             usbAsked'[<<"embed", part>>] = usbAsked[<<"embed", part>>]
  <2>1. \A g \in UsbSet!Features : f[1] # g[1] => usbAsked'[g] = usbAsked[g]
    BY <1>1 DEF UsbSet!Overwrites
  <2> QED
    BY <2>1, FeaturesAre
<1>4. \A g \in UsbSet!Features : f[1] \notin UsbSet!Simple /\ g # f => usbAsked'[g] = usbAsked[g]
  BY <1>1 DEF UsbSet!Overwrites
<1>5. CASE f \in {<<"embed", "timestamp">>, <<"embed", "gain">>}
  <2>1. /\ embed' = IF v = 1 THEN embed \cup {f[2]} ELSE embed \ {f[2]}
        /\ UNCHANGED <<usbControl, absolute, trigger>>
    BY <1>1, <1>5 DEF UsbSet!Write, UsbSet!Simple, UsbSet!Absolute
  <2>2. v \in {0, 1}
    BY <1>5 DEF UsbSet!Accepts, UsbSet!Simple
  <2>3. UsbTypes'
    <3>1. f[2] \in {"timestamp", "gain"}
      BY <1>5
    <3> QED
      BY <1>2, <2>1, <3>1 DEF UsbInv, UsbTypes
  <2>4. ShutterHeld' /\ BalanceHeld'
    BY <1>3, <1>5, <2>1 DEF UsbInv, ShutterHeld, BalanceHeld, ModeHeld, ValueHeld
  <2>5. TriggerHeld'
    BY <1>3, <1>5, <2>1 DEF UsbInv, TriggerHeld
  <2>6. EmbedHeld'
    <3>1. SUFFICES ASSUME NEW part \in {"timestamp", "gain"}
                   PROVE  usbAsked'[<<"embed", part>>] \in
                            {None, IF part \in embed' THEN 1 ELSE 0}
      BY DEF EmbedHeld
    <3>2. CASE part = f[2]
      BY <1>1, <1>5, <2>1, <2>2, <3>2
    <3>3. CASE part # f[2]
      <4>1. usbAsked'[<<"embed", part>>] = usbAsked[<<"embed", part>>]
        BY <1>4, <1>5, <3>1, <3>3, FeaturesAre
      <4>2. part \in embed' <=> part \in embed
        BY <2>1, <3>3
      <4> QED
        BY <4>1, <4>2 DEF UsbInv, EmbedHeld
    <3> QED
      BY <3>2, <3>3
  <2> QED
    BY <2>3, <2>4, <2>5, <2>6 DEF UsbInv
<1>6. CASE f \in {<<"trigger", "enabled">>, <<"trigger", "source">>, <<"trigger", "mode">>}
  <2>1. /\ trigger' = IF f[2] = "enabled" THEN UsbSet!WithEnabled(trigger, v)
                      ELSE [trigger EXCEPT ![f[2]] = v]
        /\ UNCHANGED <<usbControl, absolute, embed>>
    BY <1>1, <1>6 DEF UsbSet!Write, UsbSet!Simple, UsbSet!Absolute
  <2>2. trigger \in UsbTrigger
    BY DEF UsbInv, UsbTypes
  <2>3. /\ trigger' \in UsbTrigger
        /\ f[2] # "enabled" => UsbSet!EnabledOf(trigger') = UsbSet!EnabledOf(trigger)
        /\ f[2] # "source" => trigger'.source = trigger.source
        /\ f[2] # "mode" => trigger'.mode = trigger.mode
        /\ f[2] = "enabled" => UsbSet!EnabledOf(trigger') = v
        /\ f[2] = "source" => trigger'.source = v
        /\ f[2] = "mode" => trigger'.mode = v
    <3>1. CASE f = <<"trigger", "enabled">>
      <4>1. v \in 0 .. 2
        BY <3>1 DEF UsbSet!Accepts
      <4>2. PICK p \in BOOLEAN, q \in BOOLEAN :
              /\ p <=> v # 0
              /\ q <=> (IF v = 0 THEN trigger.high ELSE v = 2)
        OBVIOUS
      <4>3. trigger' = [on |-> p, high |-> q, source |-> trigger.source, mode |-> trigger.mode]
        <5>1. trigger' = UsbSet!WithEnabled(trigger, v)
          BY <2>1, <3>1
        <5> QED
          BY <2>2, <4>2, <5>1 DEF UsbTrigger, UsbSet!WithEnabled
      <4> QED
        BY <2>2, <3>1, <4>1, <4>2, <4>3 DEF UsbTrigger, UsbSet!EnabledOf
    <3>2. CASE f = <<"trigger", "source">>
      <4>1. trigger' = [on |-> trigger.on, high |-> trigger.high, source |-> v,
                        mode |-> trigger.mode]
        BY <2>1, <2>2, <3>2 DEF UsbTrigger
      <4> QED
        BY <2>2, <3>2, <4>1 DEF UsbTrigger, UsbSet!EnabledOf
    <3>3. CASE f = <<"trigger", "mode">>
      <4>1. trigger' = [on |-> trigger.on, high |-> trigger.high, source |-> trigger.source,
                        mode |-> v]
        BY <2>1, <2>2, <3>3 DEF UsbTrigger
      <4> QED
        BY <2>2, <3>3, <4>1 DEF UsbTrigger, UsbSet!EnabledOf
    <3> QED
      BY <1>6, <3>1, <3>2, <3>3
  <2>4. UsbTypes'
    BY <1>2, <1>6, <2>1, <2>3 DEF UsbInv, UsbTypes
  <2>5. ShutterHeld' /\ BalanceHeld'
    BY <1>3, <1>6, <2>1 DEF UsbInv, ShutterHeld, BalanceHeld, ModeHeld, ValueHeld
  <2>6. EmbedHeld'
    BY <1>3, <1>6, <2>1 DEF UsbInv, EmbedHeld
  <2>7. TriggerHeld'
    BY <1>1, <1>4, <1>6, <2>3, FeaturesAre DEF UsbInv, TriggerHeld, UsbSet!Simple
  <2> QED
    BY <2>4, <2>5, <2>6, <2>7 DEF UsbInv
<1>7. CASE f \in {<<"white-balance", "mode">>, <<"white-balance", "ub">>,
                  <<"white-balance", "vr">>}
  <2>1. PICK c \in UsbControl : c = usbControl["white-balance"]
    BY FeaturesAre DEF UsbInv, UsbTypes
  <2>2. /\ usbControl' = [usbControl EXCEPT !["white-balance"] =
                            IF f[2] = "mode" THEN UsbSet!WithMode(v)
                            ELSE UsbSet!WithValue(c, f[2], v)]
        /\ UNCHANGED <<absolute, trigger, embed>>
    BY <1>1, <1>7, <2>1 DEF UsbSet!Write, UsbSet!Simple, UsbSet!Absolute
  <2>3. PICK d : d = IF f[2] = "mode" THEN UsbSet!WithMode(v)
                     ELSE UsbSet!WithValue(c, f[2], v)
    OBVIOUS
  <2>4. /\ d \in UsbControl
        /\ f[2] = "mode" => UsbSet!ModeOf(d) = v
        /\ f[2] # "mode" =>
             /\ UsbSet!ModeOf(d) = 2 /\ d.abs = FALSE
             /\ d.ub = IF f[2] = "ub" THEN v ELSE c.ub
             /\ d.vr = IF f[2] = "vr" THEN v ELSE c.vr
    <3>1. CASE f[2] = "mode"
      <4>1. v \in 0 .. 3
        BY <1>7, <3>1 DEF UsbSet!Accepts, UsbSet!Simple
      <4>2. d = UsbSet!WithMode(v)
        BY <2>3, <3>1
      <4> QED
        BY <3>1, <4>1, <4>2, WrittenMode
    <3>2. CASE f[2] # "mode"
      <4>1. PICK n \in Nat, m \in Nat : /\ n = IF f[2] = "vr" THEN c.ub ELSE v
                                        /\ m = IF f[2] = "vr" THEN v ELSE c.vr
        BY <2>1 DEF UsbControl
      <4>2. d = UsbSet!InManual(FALSE, n, m)
        BY <2>3, <3>2, <4>1 DEF UsbSet!WithValue
      <4>3. f[2] \in {"ub", "vr"}
        BY <1>7, <3>2
      <4>4. d \in UsbControl /\ UsbSet!ModeOf(d) = 2 /\ d.abs = FALSE /\ d.ub = n /\ d.vr = m
        <5>1. PICK isAbs \in BOOLEAN : isAbs = FALSE
          OBVIOUS
        <5>2. d = UsbSet!InManual(isAbs, n, m)
          BY <4>2, <5>1
        <5>3. d \in UsbControl /\ UsbSet!ModeOf(d) = 2 /\ d.abs = isAbs /\ d.ub = n /\ d.vr = m
          BY <5>2, WrittenManual
        <5> QED
          BY <5>1, <5>3
      <4> QED
        BY <3>2, <4>1, <4>3, <4>4
    <3> QED
      BY <3>1, <3>2
  <2>5. usbControl' \in [UsbSet!Simple -> UsbControl] /\ usbControl'["white-balance"] = d
        /\ usbControl'["shutter"] = usbControl["shutter"]
    BY <2>2, <2>3, <2>4, FeaturesAre DEF UsbInv, UsbTypes
  <2>6. UsbTypes'
    BY <1>2, <2>2, <2>5 DEF UsbInv, UsbTypes
  <2>7. ShutterHeld'
    BY <1>3, <1>7, <2>2, <2>5 DEF UsbInv, ShutterHeld, ModeHeld, ValueHeld
  <2>8. TriggerHeld' /\ EmbedHeld'
    BY <1>3, <1>7, <2>2 DEF UsbInv, TriggerHeld, EmbedHeld
  <2>9. /\ ModeHeld(d, usbAsked'[<<"white-balance", "mode">>])
        /\ ValueHeld(d, FALSE, d.ub, usbAsked'[<<"white-balance", "ub">>])
        /\ ValueHeld(d, FALSE, d.vr, usbAsked'[<<"white-balance", "vr">>])
    <3>1. /\ <<"white-balance", "mode">> \in UsbSet!Features
          /\ <<"white-balance", "ub">> \in UsbSet!Features
          /\ <<"white-balance", "vr">> \in UsbSet!Features
      BY FeaturesAre
    <3>2. CASE f[2] = "mode"
      <4>1. /\ usbAsked'[<<"white-balance", "mode">>] = v
            /\ usbAsked'[<<"white-balance", "ub">>] = None
            /\ usbAsked'[<<"white-balance", "vr">>] = None
        BY <1>1, <1>7, <3>1, <3>2 DEF UsbSet!Overwrites, UsbSet!Simple
      <4> QED
        BY <2>4, <3>2, <4>1 DEF ModeHeld, ValueHeld
    <3>3. CASE f[2] # "mode"
      <4>1. /\ usbAsked'[<<"white-balance", "mode">>] = None
            /\ usbAsked'[<<"white-balance", "ub">>] =
                 IF f[2] = "ub" THEN v ELSE usbAsked[<<"white-balance", "ub">>]
            /\ usbAsked'[<<"white-balance", "vr">>] =
                 IF f[2] = "vr" THEN v ELSE usbAsked[<<"white-balance", "vr">>]
        BY <1>1, <1>7, <3>1, <3>3 DEF UsbSet!Overwrites, UsbSet!Simple
      <4>2. /\ ValueHeld(c, FALSE, c.ub, usbAsked[<<"white-balance", "ub">>])
            /\ ValueHeld(c, FALSE, c.vr, usbAsked[<<"white-balance", "vr">>])
        BY <2>1 DEF UsbInv, BalanceHeld
      <4> QED
        BY <2>4, <3>3, <4>1, <4>2 DEF ModeHeld, ValueHeld
    <3> QED
      BY <3>2, <3>3
  <2>10. BalanceHeld'
    BY <2>5, <2>9 DEF BalanceHeld, ModeHeld, ValueHeld
  <2> QED
    BY <2>6, <2>7, <2>8, <2>10 DEF UsbInv
<1>8. CASE f \in {<<"shutter", "mode">>, <<"shutter", "value">>}
  <2>1. PICK d : d = IF f[2] = "mode" THEN UsbSet!WithMode(v) ELSE UsbSet!Manual
    OBVIOUS
  <2>2. /\ usbControl' = [usbControl EXCEPT !["shutter"] = d]
        /\ absolute' = IF f[2] = "mode" THEN absolute ELSE v
        /\ UNCHANGED <<trigger, embed>>
    BY <1>1, <1>8, <2>1 DEF UsbSet!Write, UsbSet!Simple, UsbSet!Absolute
  <2>3. /\ d \in UsbControl
        /\ f[2] = "mode" => UsbSet!ModeOf(d) = v
        /\ f[2] # "mode" => UsbSet!ModeOf(d) = 2 /\ d.abs = TRUE
    <3>1. CASE f[2] = "mode"
      <4>1. v \in 0 .. 3
        BY <1>8, <3>1 DEF UsbSet!Accepts, UsbSet!Simple
      <4>2. d = UsbSet!WithMode(v)
        BY <2>1, <3>1
      <4> QED
        BY <3>1, <4>1, <4>2, WrittenMode
    <3>2. CASE f[2] # "mode"
      <4>1. d = UsbSet!InManual(TRUE, 0, 0)
        BY <2>1, <3>2 DEF UsbSet!Manual
      <4>2. PICK isAbs \in BOOLEAN : isAbs = TRUE
        OBVIOUS
      <4>3. d = UsbSet!InManual(isAbs, 0, 0)
        BY <4>1, <4>2
      <4>4. d \in UsbControl /\ UsbSet!ModeOf(d) = 2 /\ d.abs = isAbs
        BY <4>3, WrittenManual
      <4> QED
        BY <3>2, <4>2, <4>4
    <3> QED
      BY <3>1, <3>2
  <2>4. usbControl' \in [UsbSet!Simple -> UsbControl] /\ usbControl'["shutter"] = d
        /\ usbControl'["white-balance"] = usbControl["white-balance"]
    BY <2>2, <2>3, FeaturesAre DEF UsbInv, UsbTypes
  <2>5. UsbTypes'
    BY <1>2, <2>2, <2>4 DEF UsbInv, UsbTypes
  <2>6. BalanceHeld'
    BY <1>3, <1>8, <2>4 DEF UsbInv, BalanceHeld, ModeHeld, ValueHeld
  <2>7. TriggerHeld' /\ EmbedHeld'
    BY <1>3, <1>8, <2>2 DEF UsbInv, TriggerHeld, EmbedHeld
  <2>8. ModeHeld(d, usbAsked'[<<"shutter", "mode">>])
        /\ ValueHeld(d, TRUE, absolute', usbAsked'[<<"shutter", "value">>])
    <3>1. <<"shutter", "mode">> \in UsbSet!Features /\ <<"shutter", "value">> \in UsbSet!Features
      BY FeaturesAre
    <3>2. /\ usbAsked'[<<"shutter", "mode">>] = IF f[2] = "mode" THEN v ELSE None
          /\ usbAsked'[<<"shutter", "value">>] = IF f[2] = "mode" THEN None ELSE v
      BY <1>1, <1>8, <3>1 DEF UsbSet!Overwrites, UsbSet!Simple
    <3> QED
      BY <2>2, <2>3, <3>2 DEF ModeHeld, ValueHeld
  <2>9. ShutterHeld'
    BY <2>4, <2>8 DEF ShutterHeld, ModeHeld, ValueHeld
  <2> QED
    BY <2>5, <2>6, <2>7, <2>9 DEF UsbInv
<1> QED
  BY <1>5, <1>6, <1>7, <1>8, FeaturesAre

\* The camera adjusts what was left to it, and so what was not asked for.
LEMMA UsbAdjustKeeps ==
  ASSUME FeaturesFit, UsbInv, NEW reg \in UsbSet!Simple, UsbSet!Adjust(reg)
  PROVE  UsbInv'
<1>1. PICK v \in UsbSet!Values :
        /\ usbControl' = [usbControl EXCEPT ![reg] =
             [on |-> TRUE, auto |-> @.auto, push |-> FALSE, abs |-> @.abs, ub |-> v, vr |-> v]]
        /\ absolute' = IF reg \in UsbSet!Absolute THEN v ELSE absolute
  BY DEF UsbSet!Adjust
<1>2. v \in Nat
  BY DEF UsbSet!Values
<1>3. PICK c \in UsbControl : c = usbControl[reg]
  BY DEF UsbInv, UsbTypes
<1>4. c.on /\ (c.auto \/ c.push)
  BY <1>3 DEF UsbSet!Adjust
<1>5. PICK d : d = [on |-> TRUE, auto |-> c.auto, push |-> FALSE, abs |-> c.abs,
                    ub |-> v, vr |-> v]
  OBVIOUS
<1>6. usbControl' = [usbControl EXCEPT ![reg] = d]
  BY <1>1, <1>3, <1>5
<1>7. /\ d \in UsbControl
      /\ UsbSet!ModeOf(c) # 2
      /\ UsbSet!ModeOf(d) = UsbSet!ModeOf(c) \/ (UsbSet!ModeOf(c) = 3 /\ UsbSet!ModeOf(d) = 2)
  BY <1>2, <1>3, <1>4, <1>5 DEF UsbControl, UsbSet!ModeOf
<1>8. UNCHANGED <<trigger, embed, usbAsked>>
  BY DEF UsbSet!Adjust
<1>9. /\ usbControl' \in [UsbSet!Simple -> UsbControl]
      /\ usbControl'[reg] = d
      /\ \A r \in UsbSet!Simple : r # reg => usbControl'[r] = usbControl[r]
  BY <1>6, <1>7 DEF UsbInv, UsbTypes
<1>10. UsbTypes'
  BY <1>1, <1>2, <1>8, <1>9 DEF UsbInv, UsbTypes
<1>11. TriggerHeld' /\ EmbedHeld'
  BY <1>8 DEF UsbInv, TriggerHeld, EmbedHeld
<1>12. \A isAbs, held, n, m :
         /\ ModeHeld(c, m) => ModeHeld(d, m)
         /\ ValueHeld(c, isAbs, held, m) => ValueHeld(d, isAbs, n, m)
  BY <1>7 DEF ModeHeld, ValueHeld
<1>13. CASE reg = "shutter"
  <2>1. /\ ModeHeld(d, usbAsked[<<"shutter", "mode">>])
        /\ ValueHeld(d, TRUE, absolute', usbAsked[<<"shutter", "value">>])
    BY <1>3, <1>12, <1>13 DEF UsbInv, ShutterHeld
  <2>2. ShutterHeld'
    BY <1>8, <1>9, <1>13, <2>1 DEF ShutterHeld, ModeHeld, ValueHeld
  <2>3. BalanceHeld'
    BY <1>8, <1>9, <1>13, FeaturesAre DEF UsbInv, BalanceHeld, ModeHeld, ValueHeld
  <2> QED
    BY <1>10, <1>11, <2>2, <2>3 DEF UsbInv
<1>14. CASE reg = "white-balance"
  <2>1. /\ ModeHeld(d, usbAsked[<<"white-balance", "mode">>])
        /\ ValueHeld(d, FALSE, d.ub, usbAsked[<<"white-balance", "ub">>])
        /\ ValueHeld(d, FALSE, d.vr, usbAsked[<<"white-balance", "vr">>])
    BY <1>3, <1>12, <1>14 DEF UsbInv, BalanceHeld
  <2>2. BalanceHeld'
    BY <1>8, <1>9, <1>14, <2>1 DEF BalanceHeld, ModeHeld, ValueHeld
  <2>3. absolute' = absolute
    BY <1>1, <1>14 DEF UsbSet!Absolute
  <2>4. ShutterHeld'
    BY <1>8, <1>9, <1>14, <2>3, FeaturesAre DEF UsbInv, ShutterHeld, ModeHeld, ValueHeld
  <2> QED
    BY <1>10, <1>11, <2>2, <2>4 DEF UsbInv
<1> QED
  BY <1>13, <1>14, FeaturesAre

\* When the second write fails, what was asked of the register is forgotten.
LEMMA UsbAbortKeeps ==
  ASSUME FeaturesFit, UsbInv, NEW f \in UsbSet!Features, UsbSet!SetAborts(f)
  PROVE  UsbInv'
<1>1. f = <<"shutter", "value">>
  BY FeaturesAre DEF UsbSet!SetAborts, UsbSet!Absolute
<1>2. PICK d : d = UsbSet!Manual
  OBVIOUS
<1>3. /\ usbControl' = [usbControl EXCEPT !["shutter"] = d]
      /\ usbAsked' = [g \in UsbSet!Features |-> IF g[1] = "shutter" THEN None ELSE usbAsked[g]]
      /\ UNCHANGED <<absolute, trigger, embed>>
  BY <1>1, <1>2 DEF UsbSet!SetAborts
<1>4. d \in UsbControl
  <2>1. PICK isAbs \in BOOLEAN : isAbs = TRUE
    OBVIOUS
  <2>2. d = UsbSet!InManual(isAbs, 0, 0)
    BY <1>2, <2>1 DEF UsbSet!Manual
  <2> QED
    BY <2>2, WrittenManual
<1>5. /\ usbControl' \in [UsbSet!Simple -> UsbControl]
      /\ usbControl'["white-balance"] = usbControl["white-balance"]
  BY <1>3, <1>4, FeaturesAre DEF UsbInv, UsbTypes
<1>6. /\ usbAsked' \in [UsbSet!Features -> Nat \cup {None}]
      /\ usbAsked'[<<"shutter", "mode">>] = None /\ usbAsked'[<<"shutter", "value">>] = None
      /\ \A g \in UsbSet!Features : g[1] # "shutter" => usbAsked'[g] = usbAsked[g]
  BY <1>3, FeaturesAre DEF UsbInv, UsbTypes
<1>7. UsbTypes'
  BY <1>3, <1>5, <1>6 DEF UsbInv, UsbTypes
<1>8. ShutterHeld'
  BY <1>6 DEF ShutterHeld, ModeHeld, ValueHeld
<1>9. /\ usbAsked'[<<"white-balance", "mode">>] = usbAsked[<<"white-balance", "mode">>]
      /\ usbAsked'[<<"white-balance", "ub">>] = usbAsked[<<"white-balance", "ub">>]
      /\ usbAsked'[<<"white-balance", "vr">>] = usbAsked[<<"white-balance", "vr">>]
      /\ usbAsked'[<<"trigger", "enabled">>] = usbAsked[<<"trigger", "enabled">>]
      /\ usbAsked'[<<"trigger", "source">>] = usbAsked[<<"trigger", "source">>]
      /\ usbAsked'[<<"trigger", "mode">>] = usbAsked[<<"trigger", "mode">>]
      /\ \A part \in {"timestamp", "gain"} :
           usbAsked'[<<"embed", part>>] = usbAsked[<<"embed", part>>]
  BY <1>6, FeaturesAre
<1>10. BalanceHeld'
  BY <1>5, <1>9 DEF UsbInv, BalanceHeld, ModeHeld, ValueHeld
<1>11. TriggerHeld' /\ EmbedHeld'
  BY <1>3, <1>9 DEF UsbInv, TriggerHeld, EmbedHeld
<1> QED
  BY <1>7, <1>8, <1>10, <1>11 DEF UsbInv

LEMMA UsbInvStays ==
  ASSUME FeaturesFit
  PROVE  UsbInv /\ [UsbSet!Next]_usbSetVars => UsbInv'
<1> SUFFICES ASSUME UsbInv, [UsbSet!Next]_usbSetVars PROVE UsbInv'
  OBVIOUS
<1>1. ASSUME UNCHANGED <<usbControl, absolute, trigger, embed, usbAsked>> PROVE UsbInv'
  BY <1>1 DEF UsbInv, UsbTypes, ShutterHeld, BalanceHeld, TriggerHeld, EmbedHeld, ModeHeld,
              ValueHeld
<1>2. CASE UNCHANGED usbSetVars
  BY <1>1, <1>2 DEF usbSetVars
<1>3. ASSUME NEW f \in UsbSet!Features, NEW v \in UsbSet!Inputs(f),
             UsbSet!Set(f, v) \/ UsbSet!SetFails(f, v)
      PROVE  UsbInv'
  <2>1. v \in Nat
    BY <1>3, FeaturesAre DEF UsbSet!Inputs, UsbSet!Values
  <2>2. CASE UsbSet!Set(f, v) /\ UsbSet!Accepts(f, v)
    BY <2>1, <2>2, UsbSetKeeps
  <2>3. CASE UsbSet!Set(f, v) /\ ~UsbSet!Accepts(f, v)
    BY <1>1, <2>3 DEF UsbSet!Set
  <2>4. CASE UsbSet!SetFails(f, v)
    BY <1>1, <2>4 DEF UsbSet!SetFails
  <2> QED
    BY <1>3, <2>2, <2>3, <2>4
<1> QED
  BY <1>2, <1>3, UsbAbortKeeps, UsbAdjustKeeps DEF UsbSet!Next

-----------------------------------------------------------------------------
(* A FireWire camera's features.                                           *)

RingTypes ==
  /\ control \in [Ring!Automatic -> [on : BOOLEAN, manual : BOOLEAN, abs : BOOLEAN,
                                     value : Nat, absolute : Nat]]
  /\ balance \in [on : BOOLEAN, manual : BOOLEAN, abs : BOOLEAN, red : Nat, blue : Nat]
  /\ strobe \in [on : BOOLEAN, high : BOOLEAN, delay : Nat \X Nat, duration : Nat \X Nat]
  /\ frameInfo \in SUBSET {"timestamps", "counter"}
  /\ imager \in [{"0x0f", "0x0a"} -> [hdr : BOOLEAN, knee : BOOLEAN]]
  /\ asked \in [Ring!Features -> Nat \cup {None}]

AsBit(b) == IF b THEN 1 ELSE 0

\* What was asked of each register is in it.
AutomaticHeld ==
  \A reg \in Ring!Automatic :
    /\ asked[<<reg, "manual">>] \in {None, AsBit(control[reg].manual)}
    /\ asked[<<reg, "value">>] \in
         {None, IF reg = "shutter" THEN control[reg].absolute ELSE control[reg].value}
WhiteHeld ==
  /\ asked[<<"white-balance", "manual">>] \in {None, AsBit(balance.on)}
  /\ asked[<<"white-balance", "red">>] \in {None, balance.red}
  /\ asked[<<"white-balance", "blue">>] \in {None, balance.blue}
StrobeHeld ==
  /\ asked[<<"strobe", "manual">>] \in {None, AsBit(strobe.on)}
  /\ asked[<<"strobe", "polarity">>] \in {None, AsBit(strobe.high)}
  /\ asked[<<"strobe", "delay">>] \in {None, Ring!Number(Ring!Field(strobe.delay))}
  /\ asked[<<"strobe", "duration">>] \in {None, Ring!Number(Ring!Field(strobe.duration))}
InfoHeld ==
  \A part \in {"timestamps", "counter"} :
    asked[<<"frame", part>>] \in {None, AsBit(part \in frameInfo)}
HdrHeld ==
  /\ ~imager["0x0f"].knee /\ ~imager["0x0a"].hdr
  /\ asked[<<"hdr", "enable">>] # None =>
       /\ asked[<<"hdr", "enable">>] = AsBit(imager["0x0f"].hdr)
       /\ imager["0x0f"].hdr = imager["0x0a"].knee

FeatureInv ==
  RingTypes /\ AutomaticHeld /\ WhiteHeld /\ StrobeHeld /\ InfoHeld /\ HdrHeld

LEMMA RingFeaturesAre ==
  /\ Ring!Features =
       {<<"exposure", "manual">>, <<"exposure", "value">>,
        <<"shutter", "manual">>, <<"shutter", "value">>,
        <<"white-balance", "manual">>, <<"white-balance", "red">>, <<"white-balance", "blue">>,
        <<"strobe", "manual">>, <<"strobe", "polarity">>, <<"strobe", "delay">>,
        <<"strobe", "duration">>, <<"frame", "timestamps">>, <<"frame", "counter">>,
        <<"hdr", "enable">>}
  /\ Ring!Automatic = {"exposure", "shutter"}
BY DEF Ring!Features, Ring!Automatic

LEMMA FeatureInvHolds == FeatureInv => Ring!SettingsHold /\ Ring!HdrBitsApart
<1> SUFFICES ASSUME FeatureInv PROVE Ring!SettingsHold /\ Ring!HdrBitsApart
  OBVIOUS
<1>1. ASSUME NEW f \in Ring!Features, asked[f] # None PROVE Ring!Get(f) = asked[f]
  <2>1. CASE f \in {<<"exposure", "manual">>, <<"exposure", "value">>,
                    <<"shutter", "manual">>, <<"shutter", "value">>}
    BY <1>1, <2>1 DEF FeatureInv, AutomaticHeld, AsBit, Ring!Get, Ring!Automatic, Ring!Absolute
  <2>2. CASE f \in {<<"white-balance", "manual">>, <<"white-balance", "red">>,
                    <<"white-balance", "blue">>}
    BY <1>1, <2>2 DEF FeatureInv, RingTypes, WhiteHeld, AsBit, Ring!Get, Ring!Automatic
  <2>3. CASE f \in {<<"strobe", "manual">>, <<"strobe", "polarity">>, <<"strobe", "delay">>,
                    <<"strobe", "duration">>}
    BY <1>1, <2>3 DEF FeatureInv, RingTypes, StrobeHeld, AsBit, Ring!Get, Ring!Automatic
  <2>4. CASE f \in {<<"frame", "timestamps">>, <<"frame", "counter">>}
    BY <1>1, <2>4 DEF FeatureInv, InfoHeld, AsBit, Ring!Get, Ring!Automatic
  <2>5. CASE f = <<"hdr", "enable">>
    BY <1>1, <2>5 DEF FeatureInv, HdrHeld, AsBit, Ring!Get, Ring!Automatic
  <2> QED
    BY <1>1, <2>1, <2>2, <2>3, <2>4, <2>5, RingFeaturesAre
<1>2. Ring!HdrBitsApart
  BY DEF FeatureInv, HdrHeld, Ring!HdrBitsApart
<1> QED
  BY <1>1, <1>2 DEF Ring!SettingsHold

LEMMA FeatureInvInit == Ring!FeatureInit => FeatureInv
<1> SUFFICES ASSUME Ring!FeatureInit PROVE FeatureInv
  OBVIOUS
<1>1. RingTypes
  BY DEF Ring!FeatureInit, RingTypes
<1>2. \A f \in Ring!Features : asked[f] = None
  BY DEF Ring!FeatureInit
<1>3. ~imager["0x0f"].knee /\ ~imager["0x0a"].hdr
  BY DEF Ring!FeatureInit
<1> QED
  BY <1>1, <1>2, <1>3, RingFeaturesAre
     DEF FeatureInv, AutomaticHeld, WhiteHeld, StrobeHeld, InfoHeld, HdrHeld
\* Asking for one feature leaves what was asked of the others.
LEMMA AskedElsewhere ==
  ASSUME RingTypes, NEW f \in Ring!Features, NEW v \in Nat \cup {None},
         asked' = [asked EXCEPT ![f] = v]
  PROVE  /\ asked' \in [Ring!Features -> Nat \cup {None}]
         /\ asked'[f] = v
         /\ UNCHANGED control /\ f[1] \notin Ring!Automatic /\ AutomaticHeld => AutomaticHeld'
         /\ UNCHANGED balance /\ f[1] # "white-balance" /\ WhiteHeld => WhiteHeld'
         /\ UNCHANGED strobe /\ f[1] # "strobe" /\ StrobeHeld => StrobeHeld'
         /\ UNCHANGED frameInfo /\ f[1] # "frame" /\ InfoHeld => InfoHeld'
         /\ UNCHANGED imager /\ f[1] # "hdr" /\ HdrHeld => HdrHeld'
<1>1. /\ asked' \in [Ring!Features -> Nat \cup {None}]
      /\ asked'[f] = v
      /\ \A g \in Ring!Features : g[1] # f[1] => asked'[g] = asked[g]
  BY DEF RingTypes
<1>2. f[1] \notin Ring!Automatic =>
        \A reg \in Ring!Automatic : /\ asked'[<<reg, "manual">>] = asked[<<reg, "manual">>]
                                    /\ asked'[<<reg, "value">>] = asked[<<reg, "value">>]
  BY <1>1, RingFeaturesAre
<1>3. f[1] # "white-balance" =>
        /\ asked'[<<"white-balance", "manual">>] = asked[<<"white-balance", "manual">>]
        /\ asked'[<<"white-balance", "red">>] = asked[<<"white-balance", "red">>]
        /\ asked'[<<"white-balance", "blue">>] = asked[<<"white-balance", "blue">>]
  BY <1>1, RingFeaturesAre
<1>4. f[1] # "strobe" =>
        /\ asked'[<<"strobe", "manual">>] = asked[<<"strobe", "manual">>]
        /\ asked'[<<"strobe", "polarity">>] = asked[<<"strobe", "polarity">>]
        /\ asked'[<<"strobe", "delay">>] = asked[<<"strobe", "delay">>]
        /\ asked'[<<"strobe", "duration">>] = asked[<<"strobe", "duration">>]
  BY <1>1, RingFeaturesAre
<1>5. f[1] # "frame" => \A part \in {"timestamps", "counter"} :
                          asked'[<<"frame", part>>] = asked[<<"frame", part>>]
  BY <1>1, RingFeaturesAre
<1>6. f[1] # "hdr" => asked'[<<"hdr", "enable">>] = asked[<<"hdr", "enable">>]
  BY <1>1, RingFeaturesAre
<1>7. UNCHANGED control /\ f[1] \notin Ring!Automatic /\ AutomaticHeld => AutomaticHeld'
  BY <1>2 DEF AutomaticHeld, AsBit
<1>8. UNCHANGED balance /\ f[1] # "white-balance" /\ WhiteHeld => WhiteHeld'
  BY <1>3 DEF WhiteHeld, AsBit
<1>9. UNCHANGED strobe /\ f[1] # "strobe" /\ StrobeHeld => StrobeHeld'
  BY <1>4 DEF StrobeHeld, AsBit, Ring!Number, Ring!Field
<1>10. UNCHANGED frameInfo /\ f[1] # "frame" /\ InfoHeld => InfoHeld'
  BY <1>5 DEF InfoHeld, AsBit
<1>11. UNCHANGED imager /\ f[1] # "hdr" /\ HdrHeld => HdrHeld'
  BY <1>6 DEF HdrHeld, AsBit
<1> QED
  BY <1>1, <1>7, <1>8, <1>9, <1>10, <1>11

\* The mode and the value of an automatic feature are parts of one register.
LEMMA AutomaticSet ==
  ASSUME FeatureInv, NEW reg \in Ring!Automatic, NEW v \in 0 .. 1,
         Ring!SetMode(reg, v) \/ Ring!SetValue(reg, v)
  PROVE  FeatureInv'
<1>1. PICK c \in [on : BOOLEAN, manual : BOOLEAN, abs : BOOLEAN, value : Nat, absolute : Nat] :
        c = control[reg]
  BY DEF FeatureInv, RingTypes
<1>2. /\ <<reg, "manual">> \in Ring!Features /\ <<reg, "value">> \in Ring!Features
      /\ reg \notin {"white-balance", "strobe", "frame", "hdr"}
      /\ <<reg, "manual">>[1] = reg /\ <<reg, "value">>[1] = reg
  BY RingFeaturesAre
<1>3. UNCHANGED <<balance, strobe, frameInfo, imager>>
  BY DEF Ring!SetMode, Ring!SetValue
<1>4. CASE Ring!SetMode(reg, v)
  <2>1. asked' = [asked EXCEPT ![<<reg, "manual">>] = v]
    BY <1>4 DEF Ring!SetMode, Ring!Setting
  <2>2. PICK isAbs \in BOOLEAN, isManual \in BOOLEAN :
          (isAbs <=> reg \in Ring!Absolute) /\ (isManual <=> v # 0)
    OBVIOUS
  <2>3. PICK d : d = [on |-> TRUE, manual |-> isManual, abs |-> isAbs,
                      value |-> c.value, absolute |-> c.absolute]
    OBVIOUS
  <2>4. control' = [control EXCEPT ![reg] = d]
    <3>1. control' = [control EXCEPT ![reg] =
            [on |-> TRUE, manual |-> v # 0, abs |-> reg \in Ring!Absolute,
             value |-> @.value, absolute |-> @.absolute]]
      BY <1>4 DEF Ring!SetMode
    <3>2. d = [on |-> TRUE, manual |-> v # 0, abs |-> reg \in Ring!Absolute,
               value |-> c.value, absolute |-> c.absolute]
      <4>1. (v # 0) = isManual /\ (reg \in Ring!Absolute) = isAbs
        BY <2>2
      <4> QED
        BY <2>3, <4>1, Zenon
    <3> QED
      BY <1>1, <3>1, <3>2, Zenon
  <2>5. /\ control' \in [Ring!Automatic -> [on : BOOLEAN, manual : BOOLEAN, abs : BOOLEAN,
                                            value : Nat, absolute : Nat]]
        /\ control'[reg] = d
        /\ \A r \in Ring!Automatic : r # reg => control'[r] = control[r]
    BY <1>1, <2>3, <2>4 DEF FeatureInv, RingTypes
  <2>6. /\ asked'[<<reg, "manual">>] = v
        /\ asked'[<<reg, "value">>] = asked[<<reg, "value">>]
        /\ \A r \in Ring!Automatic : r # reg =>
             /\ asked'[<<r, "manual">>] = asked[<<r, "manual">>]
             /\ asked'[<<r, "value">>] = asked[<<r, "value">>]
    BY <1>2, <2>1, RingFeaturesAre DEF FeatureInv, RingTypes
  <2>7. AsBit(d.manual) = v
    BY <2>2, <2>3 DEF AsBit
  <2>8. AutomaticHeld'
    BY <1>1, <2>3, <2>5, <2>6, <2>7, RingFeaturesAre DEF FeatureInv, AutomaticHeld, AsBit
  <2>9. PICK f \in Ring!Features : f = <<reg, "manual">> /\ f[1] = reg
    BY <1>2
  <2>10. asked' = [asked EXCEPT ![f] = v] /\ v \in Nat \cup {None}
    BY <2>1, <2>9
  <2>11. /\ asked' \in [Ring!Features -> Nat \cup {None}]
         /\ WhiteHeld' /\ StrobeHeld' /\ InfoHeld' /\ HdrHeld'
    BY <1>2, <1>3, <2>9, <2>10, AskedElsewhere DEF FeatureInv
  <2>12. RingTypes'
    BY <1>3, <2>5, <2>11 DEF FeatureInv, RingTypes
  <2> QED
    BY <2>8, <2>11, <2>12 DEF FeatureInv
<1>5. CASE Ring!SetValue(reg, v)
  <2>1. asked' = [asked EXCEPT ![<<reg, "value">>] = v]
    BY <1>5 DEF Ring!SetValue, Ring!Setting
  <2>2. PICK d : d = IF reg \in Ring!Absolute THEN [c EXCEPT !.absolute = v]
                     ELSE [c EXCEPT !.value = v]
    OBVIOUS
  <2>3. control' = [control EXCEPT ![reg] = d]
    BY <1>1, <1>5, <2>2 DEF FeatureInv, RingTypes, Ring!SetValue
  <2>4. /\ d \in [on : BOOLEAN, manual : BOOLEAN, abs : BOOLEAN, value : Nat, absolute : Nat]
        /\ d.manual = c.manual
        /\ v = IF reg = "shutter" THEN d.absolute ELSE d.value
    BY <1>1, <2>2, RingFeaturesAre DEF Ring!Absolute
  <2>5. /\ control' \in [Ring!Automatic -> [on : BOOLEAN, manual : BOOLEAN, abs : BOOLEAN,
                                            value : Nat, absolute : Nat]]
        /\ control'[reg] = d
        /\ \A r \in Ring!Automatic : r # reg => control'[r] = control[r]
    BY <2>3, <2>4 DEF FeatureInv, RingTypes
  <2>6. /\ asked'[<<reg, "value">>] = v
        /\ asked'[<<reg, "manual">>] = asked[<<reg, "manual">>]
        /\ \A r \in Ring!Automatic : r # reg =>
             /\ asked'[<<r, "manual">>] = asked[<<r, "manual">>]
             /\ asked'[<<r, "value">>] = asked[<<r, "value">>]
    BY <1>2, <2>1, RingFeaturesAre DEF FeatureInv, RingTypes
  <2>8. AutomaticHeld'
    BY <1>1, <2>4, <2>5, <2>6, RingFeaturesAre DEF FeatureInv, AutomaticHeld, AsBit
  <2>9. PICK f \in Ring!Features : f = <<reg, "value">> /\ f[1] = reg
    BY <1>2
  <2>10. asked' = [asked EXCEPT ![f] = v] /\ v \in Nat \cup {None}
    BY <2>1, <2>9
  <2>11. /\ asked' \in [Ring!Features -> Nat \cup {None}]
         /\ WhiteHeld' /\ StrobeHeld' /\ InfoHeld' /\ HdrHeld'
    BY <1>2, <1>3, <2>9, <2>10, AskedElsewhere DEF FeatureInv
  <2>12. RingTypes'
    BY <1>3, <2>5, <2>11 DEF FeatureInv, RingTypes
  <2> QED
    BY <2>8, <2>11, <2>12 DEF FeatureInv
<1> QED
  BY <1>4, <1>5

\* The white balance's numbers are written back with the one that is set.
LEMMA BalanceSet ==
  ASSUME FeatureInv, NEW v \in 0 .. 1,
         Ring!SetBalanceMode(v) \/ \E part \in {"red", "blue"} : Ring!SetBalance(part, v)
  PROVE  FeatureInv'
<1>1. UNCHANGED <<control, strobe, frameInfo, imager>>
  BY DEF Ring!SetBalanceMode, Ring!SetBalance
<1>2. PICK f \in Ring!Features :
        /\ asked' = [asked EXCEPT ![f] = v] /\ f[1] = "white-balance"
        /\ \/ f = <<"white-balance", "manual">> /\ Ring!SetBalanceMode(v)
           \/ f = <<"white-balance", "red">> /\ Ring!SetBalance("red", v)
           \/ f = <<"white-balance", "blue">> /\ Ring!SetBalance("blue", v)
  BY RingFeaturesAre DEF Ring!SetBalanceMode, Ring!SetBalance, Ring!Setting
<1>3. v \in Nat \cup {None} /\ f[1] \notin Ring!Automatic
  BY <1>2, RingFeaturesAre
<1>4. /\ asked' \in [Ring!Features -> Nat \cup {None}] /\ asked'[f] = v
      /\ AutomaticHeld' /\ StrobeHeld' /\ InfoHeld' /\ HdrHeld'
  BY <1>1, <1>2, <1>3, AskedElsewhere DEF FeatureInv
<1>5. \A g \in Ring!Features : g # f => asked'[g] = asked[g]
  BY <1>2 DEF FeatureInv, RingTypes
<1>6. balance \in [on : BOOLEAN, manual : BOOLEAN, abs : BOOLEAN, red : Nat, blue : Nat]
  BY DEF FeatureInv, RingTypes
<1>7. /\ balance' \in [on : BOOLEAN, manual : BOOLEAN, abs : BOOLEAN, red : Nat, blue : Nat]
      /\ AsBit(balance'.on) = IF f[2] = "manual" THEN v ELSE AsBit(balance.on)
      /\ balance'.red = IF f[2] = "red" THEN v ELSE balance.red
      /\ balance'.blue = IF f[2] = "blue" THEN v ELSE balance.blue
  <2>1. CASE f = <<"white-balance", "manual">>
    <3>1. PICK p \in BOOLEAN, q \in BOOLEAN : (p <=> v = 1) /\ p = (v = 1) /\ q = (balance.manual \/ v = 1)
      OBVIOUS
    <3>2. balance' = [on |-> p, manual |-> q, abs |-> FALSE, red |-> balance.red,
                      blue |-> balance.blue]
      BY <1>2, <1>6, <2>1, <3>1 DEF Ring!SetBalanceMode
    <3>3. AsBit(p) = v
      BY <3>1 DEF AsBit
    <3>4. balance'.on = p
      BY <3>2
    <3> QED
      BY <1>6, <2>1, <3>2, <3>3, <3>4
  <2>2. CASE f # <<"white-balance", "manual">>
    <3>1. PICK part \in {"red", "blue"} : part = f[2] /\ Ring!SetBalance(part, v)
      BY <1>2, <2>2
    <3>2. PICK e : e = [balance EXCEPT ![part] = v]
      OBVIOUS
    <3>3. balance' = [e EXCEPT !.abs = FALSE]
      BY <3>1, <3>2 DEF Ring!SetBalance, Ring!OneOf
    <3>4. /\ e \in [on : BOOLEAN, manual : BOOLEAN, abs : BOOLEAN, red : Nat, blue : Nat]
          /\ e.on = balance.on
          /\ e.red = IF part = "red" THEN v ELSE balance.red
          /\ e.blue = IF part = "blue" THEN v ELSE balance.blue
      <4>1. CASE part = "red"
        BY <1>6, <3>2, <4>1
      <4>2. CASE part = "blue"
        BY <1>6, <3>2, <4>2
      <4> QED
        BY <3>1, <4>1, <4>2
    <3>5. /\ balance' \in [on : BOOLEAN, manual : BOOLEAN, abs : BOOLEAN, red : Nat, blue : Nat]
          /\ balance'.on = e.on /\ balance'.red = e.red /\ balance'.blue = e.blue
      BY <3>3, <3>4
    <3> QED
      BY <3>1, <3>4, <3>5
  <2> QED
    BY <2>1, <2>2
<1>8. WhiteHeld'
  <2>1. WhiteHeld
    BY DEF FeatureInv
  <2> QED
    BY <1>2, <1>4, <1>5, <1>7, <2>1, RingFeaturesAre DEF WhiteHeld
<1>9. RingTypes'
  BY <1>1, <1>4, <1>7 DEF FeatureInv, RingTypes
<1> QED
  BY <1>4, <1>8, <1>9 DEF FeatureInv

\* A number of the strobe goes through flip_endianness on its way there and back.
LEMMA BitsComeBack ==
  ASSUME NEW v \in 0 .. 3
  PROVE  /\ Ring!Field(Ring!Bits(v)) \in Nat \X Nat
         /\ Ring!Number(Ring!Field(Ring!Field(Ring!Bits(v)))) = v
<1>1. v \div 2 \in Nat /\ v % 2 \in Nat /\ 2 * (v \div 2) + (v % 2) = v
  BY v \in Int, 2 \in Int, SMT
<1>2. Ring!Field(Ring!Field(Ring!Bits(v))) = <<v \div 2, v % 2>>
  BY DEF Ring!Field, Ring!Bits
<1> QED
  BY <1>1, <1>2 DEF Ring!Field, Ring!Bits, Ring!Number

LEMMA StrobeSet ==
  ASSUME FeatureInv, NEW part \in {"manual", "polarity", "delay", "duration"},
         NEW v \in 0 .. 3, part \in {"manual", "polarity"} => v \in 0 .. 1,
         Ring!SetStrobe(part, v)
  PROVE  FeatureInv'
<1>1. UNCHANGED <<control, balance, frameInfo, imager>>
  BY DEF Ring!SetStrobe
<1>2. PICK f \in Ring!Features :
        asked' = [asked EXCEPT ![f] = v] /\ f[1] = "strobe" /\ f = <<"strobe", part>>
  BY RingFeaturesAre DEF Ring!SetStrobe, Ring!Setting
<1>3. v \in Nat \cup {None} /\ f[1] \notin Ring!Automatic
  BY <1>2, RingFeaturesAre
<1>4. /\ asked' \in [Ring!Features -> Nat \cup {None}] /\ asked'[f] = v
      /\ AutomaticHeld' /\ WhiteHeld' /\ InfoHeld' /\ HdrHeld'
  BY <1>1, <1>2, <1>3, AskedElsewhere DEF FeatureInv
<1>5. \A g \in Ring!Features : g # f => asked'[g] = asked[g]
  BY <1>2 DEF FeatureInv, RingTypes
<1>6. strobe \in [on : BOOLEAN, high : BOOLEAN, delay : Nat \X Nat, duration : Nat \X Nat]
  BY DEF FeatureInv, RingTypes
<1>7. /\ strobe' \in [on : BOOLEAN, high : BOOLEAN, delay : Nat \X Nat, duration : Nat \X Nat]
      /\ AsBit(strobe'.on) = IF part = "manual" THEN v ELSE AsBit(strobe.on)
      /\ AsBit(strobe'.high) = IF part = "polarity" THEN v ELSE AsBit(strobe.high)
      /\ Ring!Number(Ring!Field(strobe'.delay)) =
           IF part = "delay" THEN v ELSE Ring!Number(Ring!Field(strobe.delay))
      /\ Ring!Number(Ring!Field(strobe'.duration)) =
           IF part = "duration" THEN v ELSE Ring!Number(Ring!Field(strobe.duration))
  <2>1. CASE part = "manual"
    <3>1. PICK p \in BOOLEAN : (p <=> v = 1) /\ p = (v = 1)
      OBVIOUS
    <3>2. strobe' = [strobe EXCEPT !.on = p]
      BY <2>1, <3>1 DEF Ring!SetStrobe
    <3>3. AsBit(p) = v
      BY <2>1, <3>1 DEF AsBit
    <3> QED
      BY <1>6, <2>1, <3>2, <3>3
  <2>2. CASE part = "polarity"
    <3>1. PICK p \in BOOLEAN : (p <=> v = 1) /\ p = (v = 1)
      OBVIOUS
    <3>2. strobe' = [strobe EXCEPT !.high = p]
      BY <2>2, <3>1 DEF Ring!SetStrobe
    <3>3. AsBit(p) = v
      BY <2>2, <3>1 DEF AsBit
    <3> QED
      BY <1>6, <2>2, <3>2, <3>3
  <2>3. CASE part \in {"delay", "duration"}
    <3>1. PICK b : b = Ring!Field(Ring!Bits(v))
      OBVIOUS
    <3>2. strobe' = [strobe EXCEPT ![part] = b]
      BY <2>3, <3>1 DEF Ring!SetStrobe
    <3>3. b \in Nat \X Nat /\ Ring!Number(Ring!Field(b)) = v
      BY <3>1, BitsComeBack
    <3>4. CASE part = "delay"
      BY <1>6, <3>2, <3>3, <3>4
    <3>5. CASE part = "duration"
      BY <1>6, <3>2, <3>3, <3>5
    <3> QED
      BY <2>3, <3>4, <3>5
  <2> QED
    BY <2>1, <2>2, <2>3
<1>8. StrobeHeld'
  <2>1. StrobeHeld
    BY DEF FeatureInv
  <2> QED
    BY <1>2, <1>4, <1>5, <1>7, <2>1, RingFeaturesAre DEF StrobeHeld
<1>9. RingTypes'
  BY <1>1, <1>4, <1>7 DEF FeatureInv, RingTypes
<1> QED
  BY <1>4, <1>8, <1>9 DEF FeatureInv

LEMMA InfoSet ==
  ASSUME FeatureInv, NEW part \in {"timestamps", "counter"}, NEW v \in 0 .. 1,
         Ring!SetFrameInfo(part, v)
  PROVE  FeatureInv'
<1>1. UNCHANGED <<control, balance, strobe, imager>>
  BY DEF Ring!SetFrameInfo
<1>2. PICK f \in Ring!Features :
        asked' = [asked EXCEPT ![f] = v] /\ f[1] = "frame" /\ f = <<"frame", part>>
  BY RingFeaturesAre DEF Ring!SetFrameInfo, Ring!Setting
<1>3. v \in Nat \cup {None} /\ f[1] \notin Ring!Automatic
  BY <1>2, RingFeaturesAre
<1>4. /\ asked' \in [Ring!Features -> Nat \cup {None}] /\ asked'[f] = v
      /\ AutomaticHeld' /\ WhiteHeld' /\ StrobeHeld' /\ HdrHeld'
  BY <1>1, <1>2, <1>3, AskedElsewhere DEF FeatureInv
<1>5. \A g \in Ring!Features : g # f => asked'[g] = asked[g]
  BY <1>2 DEF FeatureInv, RingTypes
<1>6. frameInfo' = IF v = 1 THEN frameInfo \cup {part} ELSE frameInfo \ {part}
  BY DEF Ring!SetFrameInfo
<1>7. InfoHeld'
  <2>1. SUFFICES ASSUME NEW q \in {"timestamps", "counter"}
                 PROVE  asked'[<<"frame", q>>] \in {None, AsBit(q \in frameInfo')}
    BY DEF InfoHeld, AsBit
  <2>2. CASE q = part
    BY <1>2, <1>4, <1>6, <2>2 DEF AsBit
  <2>3. CASE q # part
    <3>1. asked'[<<"frame", q>>] = asked[<<"frame", q>>]
      BY <1>2, <1>5, <2>3, RingFeaturesAre
    <3>2. q \in frameInfo' <=> q \in frameInfo
      BY <1>6, <2>3
    <3> QED
      BY <3>1, <3>2 DEF FeatureInv, InfoHeld, AsBit
  <2> QED
    BY <2>2, <2>3
<1>8. RingTypes'
  BY <1>1, <1>4, <1>6 DEF FeatureInv, RingTypes
<1> QED
  BY <1>4, <1>7, <1>8 DEF FeatureInv

\* HDR's two bits are in two registers, and agree unless it is unknown whether it is on.
LEMMA HdrSet ==
  ASSUME FeatureInv, NEW v \in 0 .. 1, Ring!SetHdr(v)
  PROVE  FeatureInv'
<1>1. UNCHANGED <<control, balance, strobe, frameInfo>>
  BY DEF Ring!SetHdr
<1>2. PICK p \in BOOLEAN : (p <=> v = 1) /\ p = (v = 1)
  OBVIOUS
<1>3. PICK one : one = [imager EXCEPT !["0x0f"].hdr = p]
  OBVIOUS
<1>4. PICK two : two = [one EXCEPT !["0x0a"].knee = p]
  OBVIOUS
<1>5. imager \in [{"0x0f", "0x0a"} -> [hdr : BOOLEAN, knee : BOOLEAN]]
  BY DEF FeatureInv, RingTypes
<1>6. /\ one \in [{"0x0f", "0x0a"} -> [hdr : BOOLEAN, knee : BOOLEAN]]
      /\ one["0x0f"].hdr = p /\ one["0x0f"].knee = imager["0x0f"].knee
      /\ one["0x0a"] = imager["0x0a"]
  BY <1>3, <1>5
<1>7. /\ two \in [{"0x0f", "0x0a"} -> [hdr : BOOLEAN, knee : BOOLEAN]]
      /\ two["0x0a"].knee = p /\ two["0x0a"].hdr = one["0x0a"].hdr
      /\ two["0x0f"] = one["0x0f"]
  BY <1>4, <1>6
<1>8. PICK f \in Ring!Features : f = <<"hdr", "enable">> /\ f[1] = "hdr"
  BY RingFeaturesAre
<1>9. \/ imager' \in {imager, one} /\ asked' = [asked EXCEPT ![f] = None]
      \/ imager' = two /\ asked' = [asked EXCEPT ![f] = v]
  BY <1>2, <1>3, <1>4, <1>8 DEF Ring!SetHdr, Ring!Second
<1>10. PICK w \in {None, v} :
         /\ asked' = [asked EXCEPT ![f] = w]
         /\ (w = None /\ imager' \in {imager, one}) \/ (w = v /\ imager' = two)
  <2>1. CASE imager' \in {imager, one} /\ asked' = [asked EXCEPT ![f] = None]
    BY <2>1, Zenon
  <2>2. CASE imager' = two /\ asked' = [asked EXCEPT ![f] = v]
    BY <2>2, Zenon
  <2> QED
    BY <1>9, <2>1, <2>2
<1>11. /\ asked' \in [Ring!Features -> Nat \cup {None}] /\ asked'[f] = w
       /\ AutomaticHeld' /\ WhiteHeld' /\ StrobeHeld' /\ InfoHeld'
  <2>1. w \in Nat \cup {None} /\ f[1] \notin Ring!Automatic
    BY <1>8, <1>10, RingFeaturesAre
  <2> QED
    BY <1>1, <1>8, <1>10, <2>1, AskedElsewhere DEF FeatureInv
<1>12. ~imager'["0x0f"].knee /\ ~imager'["0x0a"].hdr
  BY <1>6, <1>7, <1>10 DEF FeatureInv, HdrHeld
<1>13. w # None => w = AsBit(imager'["0x0f"].hdr) /\ imager'["0x0f"].hdr = imager'["0x0a"].knee
  BY <1>2, <1>6, <1>7, <1>10 DEF AsBit
<1>14. HdrHeld'
  BY <1>8, <1>11, <1>12, <1>13 DEF HdrHeld, AsBit
<1>15. RingTypes'
  BY <1>1, <1>5, <1>6, <1>7, <1>10, <1>11 DEF FeatureInv, RingTypes
<1> QED
  BY <1>11, <1>14, <1>15 DEF FeatureInv

LEMMA RingAdjusts ==
  ASSUME FeatureInv, NEW reg \in Ring!Automatic, Ring!Adjust(reg)
  PROVE  FeatureInv'
<1>1. PICK v \in 0 .. 1 :
        /\ control' = [control EXCEPT ![reg] =
             [on |-> TRUE, manual |-> FALSE, abs |-> @.abs, value |-> v, absolute |-> v]]
        /\ asked' = [asked EXCEPT ![<<reg, "value">>] = None]
  BY DEF Ring!Adjust
<1>2. PICK c \in [on : BOOLEAN, manual : BOOLEAN, abs : BOOLEAN, value : Nat, absolute : Nat] :
        c = control[reg]
  BY DEF FeatureInv, RingTypes
<1>3. PICK d : d = [on |-> TRUE, manual |-> FALSE, abs |-> c.abs, value |-> v, absolute |-> v]
  OBVIOUS
<1>4. control' = [control EXCEPT ![reg] = d]
  BY <1>1, <1>2, <1>3
<1>5. /\ control' \in [Ring!Automatic -> [on : BOOLEAN, manual : BOOLEAN, abs : BOOLEAN,
                                          value : Nat, absolute : Nat]]
      /\ control'[reg] = d
      /\ \A r \in Ring!Automatic : r # reg => control'[r] = control[r]
  <2>1. d \in [on : BOOLEAN, manual : BOOLEAN, abs : BOOLEAN, value : Nat, absolute : Nat]
    BY <1>3
  <2> QED
    BY <1>4, <2>1 DEF FeatureInv, RingTypes
<1>6. AsBit(d.manual) = AsBit(c.manual)
  <2>1. ~c.manual /\ ~d.manual
    BY <1>2, <1>3 DEF Ring!Adjust
  <2> QED
    BY <2>1 DEF AsBit
<1>7. PICK f \in Ring!Features : f = <<reg, "value">> /\ f[1] = reg
  BY RingFeaturesAre
<1>8. asked' = [asked EXCEPT ![f] = None] /\ None \in Nat \cup {None}
  BY <1>1, <1>7
<1>9. UNCHANGED <<balance, strobe, frameInfo, imager>> /\ reg \notin {"white-balance", "strobe", "frame", "hdr"}
  BY RingFeaturesAre DEF Ring!Adjust
<1>10. /\ asked' \in [Ring!Features -> Nat \cup {None}]
       /\ WhiteHeld' /\ StrobeHeld' /\ InfoHeld' /\ HdrHeld'
  BY <1>7, <1>8, <1>9, AskedElsewhere DEF FeatureInv
<1>11. /\ asked'[<<reg, "value">>] = None
       /\ asked'[<<reg, "manual">>] = asked[<<reg, "manual">>]
       /\ \A r \in Ring!Automatic : r # reg =>
            /\ asked'[<<r, "manual">>] = asked[<<r, "manual">>]
            /\ asked'[<<r, "value">>] = asked[<<r, "value">>]
  BY <1>7, <1>8, RingFeaturesAre DEF FeatureInv, RingTypes
<1>12. AutomaticHeld'
  BY <1>2, <1>5, <1>6, <1>11, RingFeaturesAre DEF FeatureInv, AutomaticHeld, AsBit
<1>13. RingTypes'
  BY <1>5, <1>9, <1>10 DEF FeatureInv, RingTypes
<1> QED
  BY <1>10, <1>12, <1>13 DEF FeatureInv

LEMMA FeatureInvStays == FeatureInv /\ [Ring!FeatureNext]_ringSetVars => FeatureInv'
<1> SUFFICES ASSUME FeatureInv, [Ring!FeatureNext]_ringSetVars PROVE FeatureInv'
  OBVIOUS
<1>1. CASE UNCHANGED <<control, balance, strobe, frameInfo, imager, asked>>
  BY <1>1 DEF FeatureInv, RingTypes, AutomaticHeld, WhiteHeld, StrobeHeld, InfoHeld, HdrHeld,
              AsBit, Ring!Number, Ring!Field
<1>2. CASE UNCHANGED ringSetVars
  BY <1>1, <1>2 DEF ringSetVars
<1>3. CASE Ring!ReadHdr
  BY <1>1, <1>3 DEF Ring!ReadHdr
<1>4. ASSUME NEW v \in 0 .. 1,
             \/ \E reg \in Ring!Automatic : Ring!SetMode(reg, v) \/ Ring!SetValue(reg, v)
             \/ Ring!SetBalanceMode(v)
             \/ \E part \in {"red", "blue"} : Ring!SetBalance(part, v)
             \/ \E part \in {"manual", "polarity"} : Ring!SetStrobe(part, v)
             \/ \E part \in {"timestamps", "counter"} : Ring!SetFrameInfo(part, v)
             \/ Ring!SetHdr(v)
      PROVE  FeatureInv'
  <2>1. ASSUME NEW part \in {"manual", "polarity"}, Ring!SetStrobe(part, v)
        PROVE  FeatureInv'
    <3>1. part \in {"manual", "polarity", "delay", "duration"} /\ v \in 0 .. 3
      OBVIOUS
    <3> QED
      BY <2>1, <3>1, StrobeSet
  <2> QED
    BY <1>4, <2>1, AutomaticSet, BalanceSet, InfoSet, HdrSet
<1>5. ASSUME NEW v \in 0 .. 3, NEW part \in {"delay", "duration"}, Ring!SetStrobe(part, v)
      PROVE  FeatureInv'
  BY <1>5, StrobeSet
<1> QED
  BY <1>2, <1>3, <1>4, <1>5, RingAdjusts DEF Ring!FeatureNext

-----------------------------------------------------------------------------
(* A camera that is set up by a URL.                                       *)

\* The parameters of the URL up to the nth that set a feature, or the format.
SetsUpTo(f, n) ==
  {i \in 1 .. n : url.params[i][1] = f /\ NumberOf[url.params[i][2]] <= MaxValue}
FormatsUpTo(n) == {i \in 1 .. n : url.params[i][1] \in {"fidx", "format"}}
Refused(i) == url.params[i][1] \in UrlFeatures /\ url.params[i][2] \notin DOMAIN NumberOf

\* The camera is as the first n parameters ask for.
SetUpTo(n) ==
  /\ \A f \in UrlFeatures :
       IF SetsUpTo(f, n) = {} THEN camera.features[f] = 0
       ELSE \E m \in SetsUpTo(f, n) : /\ \A i \in SetsUpTo(f, n) : i <= m
                                      /\ camera.features[f] = NumberOf[url.params[m][2]]
  /\ IF FormatsUpTo(n) = {} THEN camera.format = <<>>
     ELSE \E m \in FormatsUpTo(n) : /\ \A i \in FormatsUpTo(n) : i <= m
                                    /\ camera.format = <<url.params[m][2]>>
  /\ \A i \in 1 .. n : ~Refused(i)

\* What Line!CameraSetAsAsked rests on: up to the parameter that comes next the camera is
\* set up, and when it is open the next one is refused or there is none.
UrlInv ==
  /\ linePc = "closed" => param = 1
  /\ linePc \in {"params", "open"} =>
       /\ url \in SourceUrls /\ parts = Line!Parsed(Line!Joined(url))
       /\ \E form, feats : camera = [format |-> form, features |-> feats]
       /\ DOMAIN camera.features = UrlFeatures
       /\ param \in 1 .. Len(url.params) + 1
       /\ SetUpTo(param - 1)
       /\ linePc = "open" => param = Len(url.params) + 1 \/ Refused(param)

LEMMA UrlParamsAre ==
  ASSUME NEW u \in SourceUrls
  PROVE  /\ Len(u.params) \in Nat /\ DOMAIN u.params = 1 .. Len(u.params)
<1>1. u.params \in Seq(STRING \X STRING)
  BY UrlAssumption
<1> QED
  BY <1>1

LEMMA GreatestIs ==
  ASSUME NEW S \in SUBSET Nat, NEW m \in S, \A i \in S : i <= m
  PROVE  Line!Max(S) = m
<1>1. \A x \in S : (\A y \in S : x >= y) => x = m
  <2> SUFFICES ASSUME NEW x \in S, \A y \in S : x >= y PROVE x = m
    OBVIOUS
  <2>1. x >= m /\ x <= m /\ x \in Nat /\ m \in Nat
    OBVIOUS
  <2> QED
    BY <2>1
<1>2. \A y \in S : m >= y
  OBVIOUS
<1> QED
  BY <1>1, <1>2 DEF Line!Max

LEMMA UrlInvHolds == UrlInv => Line!CameraSetAsAsked
<1> SUFFICES ASSUME UrlInv, linePc = "open" PROVE Line!CameraSetAsAsked
  BY DEF Line!CameraSetAsAsked
<1> DEFINE handled == {i \in DOMAIN url.params : \A j \in 1 .. i :
                         ~(url.params[j][1] \in UrlFeatures
                           /\ url.params[j][2] \notin DOMAIN NumberOf)}
           formats == {i \in handled : url.params[i][1] \in {"fidx", "format"}}
           Sets(f) == {i \in handled : url.params[i][1] = f
                                       /\ NumberOf[url.params[i][2]] <= MaxValue}
<1>1. url \in SourceUrls /\ param \in 1 .. Len(url.params) + 1
  BY DEF UrlInv
<1>2. Len(url.params) \in Nat /\ DOMAIN url.params = 1 .. Len(url.params)
  BY <1>1, UrlParamsAre
<1>3. PICK n \in 0 .. Len(url.params) :
        SetUpTo(n) /\ (n = Len(url.params) \/ Refused(n + 1))
  <2>1. param - 1 \in 0 .. Len(url.params) /\ param = (param - 1) + 1
    BY <1>1, <1>2
  <2> QED
    BY <1>2, <2>1 DEF UrlInv
<1>4. handled = 1 .. n
  <2>1. \A i \in 1 .. n : ~Refused(i)
    BY <1>3 DEF SetUpTo
  <2>2. \A i \in 1 .. n : i \in handled
    BY <1>2, <2>1 DEF Refused
  <2>3. ASSUME NEW i \in handled PROVE i \in 1 .. n
    <3>1. i \in 1 .. Len(url.params) /\ \A j \in 1 .. i : ~Refused(j)
      BY <1>2 DEF Refused
    <3>2. CASE n = Len(url.params)
      BY <3>1, <3>2
    <3>3. CASE Refused(n + 1)
      <4>1. n + 1 \notin 1 .. i
        BY <3>1, <3>3
      <4> QED
        BY <1>2, <3>1, <4>1
    <3> QED
      BY <1>3, <3>2, <3>3
  <2> QED
    BY <2>2, <2>3
<1>5. formats = FormatsUpTo(n) /\ \A f : Sets(f) = SetsUpTo(f, n)
  BY <1>4 DEF FormatsUpTo, SetsUpTo
<1>6. FormatsUpTo(n) \in SUBSET Nat /\ \A f : SetsUpTo(f, n) \in SUBSET Nat
  BY DEF FormatsUpTo, SetsUpTo
<1> HIDE DEF handled, formats, Sets
<1>7. camera.format = IF formats = {} THEN <<>> ELSE <<url.params[Line!Max(formats)][2]>>
  <2>1. CASE formats = {}
    BY <1>3, <1>5, <2>1 DEF SetUpTo
  <2>2. CASE formats # {}
    <3>1. PICK m \in formats : /\ \A i \in formats : i <= m
                               /\ camera.format = <<url.params[m][2]>>
      BY <1>3, <1>5, <2>2 DEF SetUpTo
    <3>2. Line!Max(formats) = m
      BY <1>5, <1>6, <3>1, GreatestIs
    <3> QED
      BY <2>2, <3>1, <3>2
  <2> QED
    BY <2>1, <2>2
<1>8. ASSUME NEW f \in UrlFeatures
      PROVE  camera.features[f] =
               IF Sets(f) = {} THEN 0 ELSE NumberOf[url.params[Line!Max(Sets(f))][2]]
  <2>1. CASE Sets(f) = {}
    BY <1>3, <1>5, <2>1 DEF SetUpTo
  <2>2. CASE Sets(f) # {}
    <3>1. PICK m \in Sets(f) : /\ \A i \in Sets(f) : i <= m
                               /\ camera.features[f] = NumberOf[url.params[m][2]]
      BY <1>3, <1>5, <2>2 DEF SetUpTo
    <3>2. Sets(f) \in SUBSET Nat
      BY <1>5, <1>6
    <3>3. Line!Max(Sets(f)) = m
      BY <3>1, <3>2, GreatestIs
    <3> QED
      BY <2>2, <3>1, <3>3
  <2> QED
    BY <2>1, <2>2
<1> QED
  BY <1>7, <1>8 DEF Line!CameraSetAsAsked, handled, formats, Sets

LEMMA LeastNumber ==
  ASSUME NEW S \in SUBSET Nat, S # {}
  PROVE  \E x \in S : \A y \in S : x <= y
<1> DEFINE R == OpToRel(<, Nat)
<1>1. IsWellFoundedOn(R, Nat)
  BY NatLessThanWellFounded
<1>2. \A x, y \in Nat : <<y, x>> \in R <=> y < x
  BY DEF OpToRel
<1> HIDE DEF R
<1>3. PICK x \in S : \A y \in S : ~ (<<y, x>> \in R)
  BY <1>1, WFMin
<1>4. ASSUME NEW y \in S PROVE x <= y
  <2>1. x \in Nat /\ y \in Nat /\ ~(y < x)
    BY <1>2, <1>3
  <2> QED
    BY <2>1
<1> QED
  BY <1>4

\* What is read of the next parameter.
LEMMA ParameterIs ==
  ASSUME UrlInv, Line!Handling
  PROVE  /\ url \in SourceUrls /\ Len(url.params) \in Nat
         /\ param \in 1 .. Len(url.params) /\ linePc = "params"
         /\ Line!Key = <<url.params[param][1]>>
         /\ url.params[param][1] \in UrlFeatures \cup {"fidx", "format"} =>
              Line!Value = <<url.params[param][2]>>
         /\ Line!Key = <<"fidx">> => Line!First(<<"fidx">>) = <<url.params[param][2]>>
<1>1. /\ linePc = "params" /\ url \in SourceUrls /\ param \in 1 .. Len(url.params) + 1
      /\ parts = Line!Parsed(Line!Joined(url)) /\ param <= Len(parts.params)
  BY DEF UrlInv, Line!Handling
<1>2. Len(url.params) \in Nat
  BY <1>1, UrlParamsAre
<1>3. /\ Len(parts.params) = Len(url.params)
      /\ \A i \in 1 .. Len(url.params) :
           /\ parts.params[i][1] = <<url.params[i][1]>>
           /\ url.params[i][1] \in UrlFeatures \cup {"fidx", "format"} =>
                parts.params[i][2] = <<url.params[i][2]>>
           /\ \A j \in 1 .. i :
                url.params[i][1] = "fidx" /\ url.params[j][1] = "fidx" =>
                  url.params[j][2] = url.params[i][2]
  BY <1>1, UrlAssumption
<1>4. param \in 1 .. Len(url.params)
  BY <1>1, <1>2, <1>3
<1>5. /\ Line!Key = <<url.params[param][1]>>
      /\ url.params[param][1] \in UrlFeatures \cup {"fidx", "format"} =>
           Line!Value = <<url.params[param][2]>>
  BY <1>3, <1>4 DEF Line!Key, Line!Value
<1>6. ASSUME Line!Key = <<"fidx">> PROVE Line!First(<<"fidx">>) = <<url.params[param][2]>>
  <2> DEFINE named == {i \in 1 .. Len(url.params) : url.params[i][1] = "fidx"}
             first == CHOOSE i \in 1 .. Len(parts.params) :
                        /\ parts.params[i][1] = <<"fidx">>
                        /\ \A j \in 1 .. i - 1 : parts.params[j][1] # <<"fidx">>
  <2>1. url.params[param][1] = "fidx"
    BY <1>5, <1>6
  <2>2. \A i \in 1 .. Len(url.params) : parts.params[i][1] = <<"fidx">> <=> i \in named
    BY <1>3
  <2>3. PICK i \in named : \A j \in named : i <= j
    <3>1. named \in SUBSET Nat /\ param \in named
      BY <1>4, <2>1
    <3> HIDE DEF named
    <3> QED
      BY <3>1, LeastNumber
  <2>4. /\ i \in 1 .. Len(parts.params) /\ parts.params[i][1] = <<"fidx">>
        /\ \A j \in 1 .. i - 1 : parts.params[j][1] # <<"fidx">>
    <3>1. ASSUME NEW j \in 1 .. i - 1 PROVE parts.params[j][1] # <<"fidx">>
      <4>1. j \in 1 .. Len(url.params) /\ ~(i <= j)
        BY <1>2
      <4> QED
        BY <2>2, <2>3, <4>1
    <3> QED
      BY <1>3, <2>2, <3>1
  <2>5. first \in 1 .. Len(url.params) /\ parts.params[first][1] = <<"fidx">>
    BY <1>3, <2>4
  <2> HIDE DEF first
  <2>6. url.params[first][1] = "fidx"
    BY <2>2, <2>5
  <2>7. url.params[first][2] = url.params[param][2]
    BY <1>2, <1>3, <1>4, <2>1, <2>5, <2>6
  <2>8. parts.params[first][2] = <<url.params[first][2]>>
    BY <1>3, <2>5, <2>6
  <2> QED
    BY <2>7, <2>8 DEF Line!First, first
<1> QED
  BY <1>1, <1>2, <1>4, <1>5, <1>6

\* Parameter n + 1 sets the feature of its name, if the camera takes its value, or the
\* format.
LEMMA OneMoreSet ==
  ASSUME NEW n \in Nat
  PROVE  /\ \A f : SetsUpTo(f, n + 1) =
                     IF /\ url.params[n + 1][1] = f
                        /\ NumberOf[url.params[n + 1][2]] <= MaxValue
                     THEN SetsUpTo(f, n) \cup {n + 1} ELSE SetsUpTo(f, n)
         /\ FormatsUpTo(n + 1) =
              IF url.params[n + 1][1] \in {"fidx", "format"}
              THEN FormatsUpTo(n) \cup {n + 1} ELSE FormatsUpTo(n)
         /\ \A f : SetsUpTo(f, n) \subseteq 1 .. n
         /\ FormatsUpTo(n) \subseteq 1 .. n
<1>1. 1 .. n + 1 = (1 .. n) \cup {n + 1}
  OBVIOUS
<1> QED
  BY <1>1 DEF SetsUpTo, FormatsUpTo

\* The camera once n + 1 parameters are handled: what the last of them sets, and else what
\* it was.
LEMMA OneMoreSetUp ==
  ASSUME NEW n \in Nat, SetUpTo(n), ~Refused(n + 1), url' = url,
         \A f \in UrlFeatures :
           camera'.features[f] =
             IF /\ url.params[n + 1][1] = f
                /\ NumberOf[url.params[n + 1][2]] <= MaxValue
             THEN NumberOf[url.params[n + 1][2]] ELSE camera.features[f],
         camera'.format =
           IF url.params[n + 1][1] \in {"fidx", "format"}
           THEN <<url.params[n + 1][2]>> ELSE camera.format
  PROVE  SetUpTo(n + 1)'
<1>1. /\ \A f : SetsUpTo(f, n)' = SetsUpTo(f, n) /\ SetsUpTo(f, n + 1)' = SetsUpTo(f, n + 1)
      /\ FormatsUpTo(n)' = FormatsUpTo(n) /\ FormatsUpTo(n + 1)' = FormatsUpTo(n + 1)
  BY DEF SetsUpTo, FormatsUpTo
<1>2. \A i \in 1 .. n + 1 : ~Refused(i)'
  <2>1. \A i \in 1 .. n + 1 : i \in 1 .. n \/ i = n + 1
    OBVIOUS
  <2>2. \A i : Refused(i)' <=> Refused(i)
    BY DEF Refused
  <2> QED
    BY <2>1, <2>2 DEF SetUpTo
<1>3. ASSUME NEW f \in UrlFeatures
      PROVE  IF SetsUpTo(f, n + 1) = {} THEN camera'.features[f] = 0
             ELSE \E m \in SetsUpTo(f, n + 1) :
                    /\ \A i \in SetsUpTo(f, n + 1) : i <= m
                    /\ camera'.features[f] = NumberOf[url.params[m][2]]
  <2>1. CASE /\ url.params[n + 1][1] = f
             /\ NumberOf[url.params[n + 1][2]] <= MaxValue
    <3>1. SetsUpTo(f, n + 1) = SetsUpTo(f, n) \cup {n + 1} /\ SetsUpTo(f, n) \subseteq 1 .. n
      BY <2>1, OneMoreSet
    <3>2. \A i \in SetsUpTo(f, n + 1) : i <= n + 1
      BY <3>1
    <3> QED
      BY <2>1, <3>1, <3>2
  <2>2. CASE ~(/\ url.params[n + 1][1] = f
               /\ NumberOf[url.params[n + 1][2]] <= MaxValue)
    <3>1. SetsUpTo(f, n + 1) = SetsUpTo(f, n)
      BY <2>2, OneMoreSet
    <3>2. camera'.features[f] = camera.features[f]
      BY <2>2
    <3> QED
      BY <3>1, <3>2 DEF SetUpTo
  <2> QED
    BY <2>1, <2>2
<1>4. IF FormatsUpTo(n + 1) = {} THEN camera'.format = <<>>
      ELSE \E m \in FormatsUpTo(n + 1) : /\ \A i \in FormatsUpTo(n + 1) : i <= m
                                         /\ camera'.format = <<url.params[m][2]>>
  <2>1. CASE url.params[n + 1][1] \in {"fidx", "format"}
    <3>1. FormatsUpTo(n + 1) = FormatsUpTo(n) \cup {n + 1} /\ FormatsUpTo(n) \subseteq 1 .. n
      BY <2>1, OneMoreSet
    <3>2. \A i \in FormatsUpTo(n + 1) : i <= n + 1
      BY <3>1
    <3> QED
      BY <2>1, <3>1, <3>2
  <2>2. CASE url.params[n + 1][1] \notin {"fidx", "format"}
    <3>1. FormatsUpTo(n + 1) = FormatsUpTo(n) /\ camera'.format = camera.format
      BY <2>2, OneMoreSet
    <3> QED
      BY <3>1 DEF SetUpTo
  <2> QED
    BY <2>1, <2>2
<1> QED
  BY <1>1, <1>2, <1>3, <1>4 DEF SetUpTo

LEMMA UrlInvInit == Line!Init => UrlInv
<1> SUFFICES ASSUME Line!Init PROVE UrlInv
  OBVIOUS
<1>1. linePc \in {"declare", "closed"} /\ param = 1
  BY DEF Line!Init
<1> QED
  BY <1>1 DEF UrlInv

LEMMA UrlOpens == ASSUME UrlInv, Line!Open PROVE UrlInv'
<1>1. linePc = "closed" /\ param' = 1
  BY DEF Line!Open, UrlInv
<1>2. CASE linePc' = "failed"
  BY <1>2 DEF UrlInv
<1>3. CASE linePc' = "params"
  <2>1. /\ url' \in SourceUrls /\ parts' = Line!Parsed(Line!Joined(url'))
        /\ camera' = [format |-> <<>>, features |-> [f \in UrlFeatures |-> 0]]
    BY <1>3 DEF Line!Open
  <2>2. Len(url'.params) \in Nat
    BY <2>1, UrlParamsAre
  <2>3. SetUpTo(0)'
    <3>1. 1 .. 0 = {}
      OBVIOUS
    <3>2. (\A f : SetsUpTo(f, 0) = {})' /\ (FormatsUpTo(0) = {})'
      BY <3>1 DEF SetsUpTo, FormatsUpTo
    <3> QED
      BY <2>1, <3>1, <3>2 DEF SetUpTo
  <2>4. param' \in 1 .. Len(url'.params) + 1 /\ param' - 1 = 0
    BY <1>1, <2>2
  <2>5. SetUpTo(param - 1)'
    BY <2>3, <2>4
  <2> QED
    BY <1>3, <2>1, <2>4, <2>5 DEF UrlInv
<1> QED
  BY <1>2, <1>3 DEF Line!Open

\* A parameter is handled.
LEMMA UrlGoesOn ==
  ASSUME UrlInv, Line!Handling, param' = param + 1, UNCHANGED <<linePc, url, parts>>,
         ~Refused(param),
         \E form, feats : camera' = [format |-> form, features |-> feats],
         DOMAIN camera'.features = UrlFeatures,
         \A f \in UrlFeatures :
           camera'.features[f] =
             IF /\ url.params[param][1] = f
                /\ NumberOf[url.params[param][2]] <= MaxValue
             THEN NumberOf[url.params[param][2]] ELSE camera.features[f],
         camera'.format =
           IF url.params[param][1] \in {"fidx", "format"}
           THEN <<url.params[param][2]>> ELSE camera.format
  PROVE  UrlInv'
<1>1. /\ url \in SourceUrls /\ Len(url.params) \in Nat
      /\ param \in 1 .. Len(url.params) /\ linePc = "params"
  BY ParameterIs
<1>2. parts = Line!Parsed(Line!Joined(url)) /\ SetUpTo(param - 1)
  BY <1>1 DEF UrlInv
<1>3. PICK n \in Nat : n = param - 1
  BY <1>1
<1>4. param = n + 1 /\ param' - 1 = n + 1
  BY <1>1, <1>3
<1>5. SetUpTo(n + 1)'
  BY <1>2, <1>3, <1>4, OneMoreSetUp
<1>6. SetUpTo(param - 1)'
  BY <1>4, <1>5
<1>7. param' \in 1 .. Len(url'.params) + 1
  BY <1>1
<1> QED
  BY <1>1, <1>2, <1>6, <1>7 DEF UrlInv

LEMMA UrlSetsFormat == ASSUME UrlInv, Line!SetFormat PROVE UrlInv'
<1> USE DEF Line!SetFormat
<1>1. /\ url.params[param][1] \in {"fidx", "format"}
      /\ camera' = [camera EXCEPT !.format = <<url.params[param][2]>>]
  BY ParameterIs
<1>2. \A f \in UrlFeatures : url.params[param][1] # f
  BY <1>1, UrlAssumption
<1>3. ~Refused(param)
  BY <1>2 DEF Refused
<1>4. PICK form, feats : camera = [format |-> form, features |-> feats]
  BY ParameterIs DEF UrlInv
<1>5. camera' = [format |-> <<url.params[param][2]>>, features |-> feats]
  BY <1>1, <1>4
<1>6. DOMAIN feats = UrlFeatures
  BY <1>4, ParameterIs DEF UrlInv
<1> QED
  BY <1>1, <1>2, <1>3, <1>4, <1>5, <1>6, UrlGoesOn

LEMMA UrlSetsFeature == ASSUME UrlInv, Line!SetFeature PROVE UrlInv'
<1>1. /\ url \in SourceUrls /\ Len(url.params) \in Nat
      /\ param \in 1 .. Len(url.params) /\ linePc = "params"
      /\ Line!Key = <<url.params[param][1]>>
  BY ParameterIs DEF Line!SetFeature
<1>2. PICK f \in UrlFeatures :
        /\ Line!Key = <<f>>
        /\ IF Len(Line!Value) = 1 /\ Line!Value[1] \in DOMAIN NumberOf
           THEN /\ camera' = IF NumberOf[Line!Value[1]] <= MaxValue
                             THEN [camera EXCEPT !.features[f] = NumberOf[Line!Value[1]]]
                             ELSE camera
                /\ param' = param + 1
                /\ UNCHANGED linePc
           ELSE linePc' = "open" /\ UNCHANGED <<param, camera>>
  BY DEF Line!SetFeature
<1>3. url.params[param][1] = f
  BY <1>1, <1>2
<1>4. Line!Value = <<url.params[param][2]>>
  BY <1>3, ParameterIs DEF Line!SetFeature
<1>5. Len(Line!Value) = 1 /\ Line!Value[1] = url.params[param][2]
  BY <1>4
<1>6. PICK form, feats : camera = [format |-> form, features |-> feats]
  BY <1>1 DEF UrlInv
<1>7. UNCHANGED <<url, parts>> /\ DOMAIN feats = UrlFeatures
  BY <1>1, <1>6 DEF Line!SetFeature, UrlInv
<1>8. CASE url.params[param][2] \in DOMAIN NumberOf
  <2>1. ~Refused(param) /\ url.params[param][1] \notin {"fidx", "format"}
    BY <1>3, <1>8, UrlAssumption DEF Refused
  <2>2. /\ param' = param + 1 /\ UNCHANGED linePc
        /\ camera' = IF NumberOf[url.params[param][2]] <= MaxValue
                     THEN [camera EXCEPT !.features[f] = NumberOf[url.params[param][2]]]
                     ELSE camera
    BY <1>2, <1>5, <1>8
  <2>3. camera' = [format |-> form,
                   features |-> IF NumberOf[url.params[param][2]] <= MaxValue
                                THEN [feats EXCEPT ![f] = NumberOf[url.params[param][2]]]
                                ELSE feats]
    BY <1>6, <2>2
  <2>4. /\ camera'.format = camera.format /\ DOMAIN camera'.features = UrlFeatures
        /\ \A g \in UrlFeatures :
             camera'.features[g] =
               IF /\ url.params[param][1] = g
                  /\ NumberOf[url.params[param][2]] <= MaxValue
               THEN NumberOf[url.params[param][2]] ELSE camera.features[g]
    BY <1>3, <1>6, <1>7, <2>3
  <2>5. \E h, g : camera' = [format |-> h, features |-> g]
    BY <2>3
  <2>6. Line!Handling
    BY DEF Line!SetFeature
  <2> QED
    BY <1>7, <2>1, <2>2, <2>4, <2>5, <2>6, UrlGoesOn
<1>9. CASE url.params[param][2] \notin DOMAIN NumberOf
  <2>1. linePc' = "open" /\ UNCHANGED <<param, camera>>
    BY <1>2, <1>5, <1>9
  <2>2. Refused(param)'
    BY <1>3, <1>7, <1>9, <2>1 DEF Refused
  <2>3. SetUpTo(param - 1) /\ UNCHANGED <<url, param, camera>>
    BY <1>1, <1>7, <2>1 DEF UrlInv
  <2>4. SetUpTo(param - 1)'
    BY <2>3 DEF Refused, SetUpTo, SetsUpTo, FormatsUpTo
  <2> QED
    BY <1>1, <1>7, <2>1, <2>2, <2>4 DEF UrlInv
<1> QED
  BY <1>8, <1>9

LEMMA UrlPassesOver == ASSUME UrlInv, Line!PassOver PROVE UrlInv'
<1> USE DEF Line!PassOver
<1>1. Line!Key = <<url.params[param][1]>>
  BY ParameterIs
<1>2. url.params[param][1] \notin UrlFeatures \cup {"fidx", "format"}
  BY <1>1
<1>3. ~Refused(param)
  BY <1>2 DEF Refused
<1>4. \E form, feats : camera = [format |-> form, features |-> feats]
  BY ParameterIs DEF UrlInv
<1>5. DOMAIN camera.features = UrlFeatures
  BY ParameterIs DEF UrlInv
<1> QED
  BY <1>2, <1>3, <1>4, <1>5, UrlGoesOn

LEMMA UrlIsOpen == ASSUME UrlInv, Line!Opened PROVE UrlInv'
<1>1. linePc = "params" /\ linePc' = "open" /\ UNCHANGED <<url, parts, param, camera>>
      /\ ~(param <= Len(parts.params))
  BY DEF Line!Opened, Line!Handling, Line!urlVars
<1>2. url \in SourceUrls /\ param \in 1 .. Len(url.params) + 1
      /\ parts = Line!Parsed(Line!Joined(url))
  BY <1>1 DEF UrlInv
<1>3. Len(parts.params) = Len(url.params) /\ Len(url.params) \in Nat
  BY <1>2, UrlAssumption, UrlParamsAre
<1>4. param = Len(url.params) + 1
  BY <1>1, <1>2, <1>3
<1>5. SetUpTo(param - 1)' <=> SetUpTo(param - 1)
  BY <1>1 DEF Refused, SetUpTo, SetsUpTo, FormatsUpTo
<1> QED
  BY <1>1, <1>4, <1>5 DEF UrlInv

LEMMA UrlInvStays == UrlInv /\ [Line!Next]_lineVars => UrlInv'
<1> SUFFICES ASSUME UrlInv, [Line!Next]_lineVars PROVE UrlInv'
  OBVIOUS
<1>1. CASE /\ UNCHANGED Line!urlVars
           /\ \/ linePc' \in {"declare", "exited", "parse", "block", "parsed"}
              \/ UNCHANGED linePc
  <2>1. UNCHANGED <<url, parts, param, camera>>
    BY <1>1 DEF Line!urlVars
  <2> QED
    BY <1>1, <2>1 DEF UrlInv, Refused, SetUpTo, SetsUpTo, FormatsUpTo
<1>2. CASE Line!Declare \/ Line!Start \/ Line!ParseLong \/ Line!ParseArgument \/ Line!Finish
  BY <1>1, <1>2 DEF Line!Declare, Line!Start, Line!ParseLong, Line!ParseArgument, Line!Finish
<1>3. CASE \/ Line!OpenBlock \/ Line!NegativeNumber \/ Line!UnknownLetter
           \/ Line!ShortOption \/ Line!CloseBlock
  BY <1>1, <1>3 DEF Line!OpenBlock, Line!NegativeNumber, Line!UnknownLetter,
     Line!ShortOption, Line!CloseBlock
<1>4. CASE UNCHANGED lineVars
  BY <1>1, <1>4 DEF lineVars, Line!urlVars
<1> QED
  BY <1>2, <1>3, <1>4, UrlOpens, UrlSetsFormat, UrlSetsFeature, UrlPassesOver, UrlIsOpen
     DEF Line!Next

-----------------------------------------------------------------------------
(* A window's parameters, and who listens to them.                         *)

IsSequence(s) == \E S : s \in Seq(S)

WidgetIs(w) ==
  /\ \E n, t, v, r, g, rs, s : w = [name |-> n, type |-> t, value |-> v, range |-> r,
                                   given |-> g, rows |-> rs, shown |-> s]
  /\ w.type \in {"int", "double", "box", "check", "toggle", "enum", "button"}

CallIs(c) ==
  /\ \E d, n, l, i, v : c = [does |-> d, name |-> n, left |-> l, in |-> i, value |-> v]
  /\ c.does \in {"tell", "set", "load"}
  /\ c.does = "tell" => c.left \subseteq ParamListeners
  /\ c.does = "set" => Params!Param(c.name) \in DOMAIN entries
  /\ c.does = "load" => c.left \subseteq Params!Kept

FitStack(s) == IsSequence(s) /\ \A j \in 1 .. Len(s) : CallIs(s[j])

ParamTypes ==
  /\ IsSequence(widgets) /\ \A i \in 1 .. Len(widgets) : WidgetIs(widgets[i])
  /\ DOMAIN entries \subseteq {"param", "box"} \X ParamNames
  /\ \A k \in DOMAIN entries :
       entries[k] \in 1 .. Len(widgets) /\ widgets[entries[k]].name = k[2]
  /\ listeners \subseteq ParamListeners
  /\ DOMAIN heard = ParamListeners /\ \A l \in ParamListeners : DOMAIN heard[l] = DOMAIN entries
  /\ FitStack(underWay)
  /\ calls \in Nat /\ (underWay # <<>> => calls > 0)

\* A call in s is to tell l of the parameter of k.
Owed(s, l, k) ==
  \E j \in 1 .. Len(s) : s[j].does = "tell" /\ s[j].name = k[2] /\ l \in s[j].left

\* What Params!HeardIsCurrent rests on.
ParamInv ==
  /\ ParamTypes
  /\ \A l \in listeners, k \in DOMAIN entries :
       heard[l][k] = Params!Reading(Params!Widget(k)) \/ Owed(underWay, l, k)

\* What is left of the calls under way still is to tell whom they were to tell.
GoesOn(s) == FitStack(s) /\ \A l, k : Owed(underWay, l, k) => Owed(s, l, k)

LEMMA ParamInvHolds == ParamInv => Params!HeardIsCurrent
<1> SUFFICES ASSUME ParamInv PROVE Params!HeardIsCurrent
  OBVIOUS
<1>1. DOMAIN underWay = 1 .. Len(underWay)
  BY DEF ParamInv, ParamTypes, FitStack, IsSequence
<1> QED
  BY <1>1 DEF Params!HeardIsCurrent, ParamInv, Owed

LEMMA ParamInvInit == Params!Init => ParamInv
<1> SUFFICES ASSUME Params!Init PROVE ParamInv
  OBVIOUS
<1>1. /\ widgets = <<>> /\ entries = <<>> /\ listeners = ParamListeners /\ underWay = <<>>
      /\ calls = 0 /\ heard = [l \in ParamListeners |-> <<>>]
  BY DEF Params!Init
<1>2. <<>> \in Seq({}) /\ Len(<<>>) = 0 /\ DOMAIN <<>> = {}
  OBVIOUS
<1>3. DOMAIN entries = {}
  BY <1>1, <1>2
<1>4. IsSequence(widgets) /\ FitStack(underWay) /\ Len(widgets) = 0
  BY <1>1, <1>2 DEF IsSequence, FitStack
<1>5. ParamTypes
  BY <1>1, <1>2, <1>3, <1>4 DEF ParamTypes
<1> QED
  BY <1>3, <1>5 DEF ParamInv

LEMMA SequenceGrows ==
  ASSUME NEW s, NEW e, IsSequence(s)
  PROVE  /\ IsSequence(Append(s, e)) /\ Len(s) \in Nat /\ Len(Append(s, e)) = Len(s) + 1
         /\ \A i \in 1 .. Len(s) : Append(s, e)[i] = s[i]
         /\ Append(s, e)[Len(s) + 1] = e
<1>1. PICK S : s \in Seq(S)
  BY DEF IsSequence
<1>2. PICK T : T = S \cup {e}
  OBVIOUS
<1>3. s \in Seq(T) /\ e \in T
  <2>1. S \subseteq T
    BY <1>2
  <2> QED
    BY <1>1, <1>2, <2>1
<1>4. Append(s, e) \in Seq(T)
  BY <1>3
<1> QED
  BY <1>3, <1>4 DEF IsSequence

LEMMA SequenceShrinks ==
  ASSUME NEW s, IsSequence(s), s # <<>>
  PROVE  LET b == SubSeq(s, 1, Len(s) - 1)
         IN /\ IsSequence(b) /\ Len(s) \in Nat \ {0} /\ Len(b) = Len(s) - 1
            /\ \A i \in 1 .. Len(s) - 1 : b[i] = s[i]
<1>1. PICK S : s \in Seq(S)
  BY DEF IsSequence
<1>2. Len(s) \in Nat \ {0}
  BY <1>1
<1>3. PICK b : b = SubSeq(s, 1, Len(s) - 1)
  OBVIOUS
<1>4. b = [i \in 1 .. Len(s) - 1 |-> s[i]]
  BY <1>1, <1>2, <1>3
<1>5. Len(b) = Len(s) - 1 /\ \A i \in 1 .. Len(s) - 1 : b[i] = s[i]
  BY <1>2, <1>4
<1>6. b \in Seq(S)
  <2>1. \A i \in 1 .. Len(s) - 1 : s[i] \in S
    BY <1>1, <1>2
  <2> QED
    BY <1>2, <1>4, <2>1
<1> QED
  BY <1>2, <1>3, <1>5, <1>6 DEF IsSequence

\* Another call to tell of n.
LEMMA ToldOfMore ==
  ASSUME NEW s, NEW n, FitStack(s), listeners \subseteq ParamListeners
  PROVE  /\ FitStack(Params!Told(s, n)) /\ Params!Told(s, n) # <<>>
         /\ \A l, k : Owed(s, l, k) => Owed(Params!Told(s, n), l, k)
         /\ \A l \in listeners : \A k : k[2] = n => Owed(Params!Told(s, n), l, k)
<1>1. PICK c : c = [does |-> "tell", name |-> n, left |-> listeners,
                    in |-> Params!Nobody, value |-> 0]
  OBVIOUS
<1>2. PICK t : t = Append(s, c) /\ t = Params!Told(s, n)
  BY <1>1 DEF Params!Told, Params!Call
<1>3. /\ IsSequence(t) /\ Len(s) \in Nat /\ Len(t) = Len(s) + 1
      /\ \A i \in 1 .. Len(s) : t[i] = s[i]
      /\ t[Len(s) + 1] = c
  <2>1. IsSequence(s)
    BY DEF FitStack
  <2>2. /\ IsSequence(Append(s, c)) /\ Len(s) \in Nat /\ Len(Append(s, c)) = Len(s) + 1
        /\ \A i \in 1 .. Len(s) : Append(s, c)[i] = s[i]
        /\ Append(s, c)[Len(s) + 1] = c
    BY <2>1, SequenceGrows
  <2> QED
    BY <1>2, <2>2
<1>4. CallIs(c)
  BY <1>1 DEF CallIs
<1>5. FitStack(t)
  <2>1. \A j \in 1 .. Len(t) : j \in 1 .. Len(s) \/ j = Len(s) + 1
    BY <1>3
  <2> QED
    BY <1>3, <1>4, <2>1 DEF FitStack
<1>6. t # <<>>
  BY <1>3
<1>7. \A l, k : Owed(s, l, k) => Owed(t, l, k)
  <2>1. \A j \in 1 .. Len(s) : j \in 1 .. Len(t)
    BY <1>3
  <2> QED
    BY <1>3, <2>1 DEF Owed
<1>8. \A l \in listeners : \A k : k[2] = n => Owed(t, l, k)
  <2>1. Len(s) + 1 \in 1 .. Len(t)
    BY <1>3
  <2> QED
    BY <1>1, <1>3, <2>1 DEF Owed
<1> QED
  BY <1>2, <1>5, <1>6, <1>7, <1>8

LEMMA ParamIsThere ==
  ASSUME ParamTypes, NEW n \in Params!Params
  PROVE  /\ <<"param", n>> \in DOMAIN entries /\ Params!Param(n) = <<"param", n>>
         /\ entries[Params!Param(n)] \in 1 .. Len(widgets)
         /\ widgets[entries[Params!Param(n)]].name = n
<1>1. PICK e \in DOMAIN entries : e[1] = "param" /\ e[2] = n
  BY DEF Params!Params
<1>2. e \in {"param", "box"} \X ParamNames
  BY DEF ParamTypes
<1>3. e = <<"param", n>>
  BY <1>1, <1>2
<1> QED
  BY <1>1, <1>3 DEF ParamTypes, Params!Param

\* A call under way goes on with what is left of it, s, and changes at most widget i, into w:
\* either its parameter reads as before, or it is told of.
LEMMA ParamStep ==
  ASSUME ParamInv, UNCHANGED <<entries, listeners, heard>>, calls' \in Nat,
         underWay' # <<>> => calls' > 0,
         NEW s, GoesOn(s),
         NEW i \in 1 .. Len(widgets), NEW w, WidgetIs(w), w.name = widgets[i].name,
         w.type = widgets[i].type, widgets' = [widgets EXCEPT ![i] = w],
         \/ underWay' = Params!Told(s, widgets[i].name)
         \/ underWay' = s /\ Params!Reading(w) = Params!Reading(widgets[i])
  PROVE  ParamInv'
<1>1. PICK S : widgets \in Seq(S)
  BY DEF ParamInv, ParamTypes, IsSequence
<1>2. PICK T : T = S \cup {w}
  OBVIOUS
<1>3. widgets \in Seq(T) /\ w \in T
  <2>1. S \subseteq T
    BY <1>2
  <2> QED
    BY <1>1, <1>2, <2>1
<1>4. /\ widgets' \in Seq(T) /\ Len(widgets') = Len(widgets) /\ Len(widgets) \in Nat
      /\ \A j \in 1 .. Len(widgets) : widgets'[j] = IF j = i THEN w ELSE widgets[j]
  BY <1>3
<1>5. /\ FitStack(underWay') /\ \A l, k : Owed(underWay, l, k) => Owed(underWay', l, k)
  BY ToldOfMore DEF ParamInv, ParamTypes, GoesOn
<1>6. Params!Kept' = Params!Kept
  <2>1. Params!Params' = Params!Params
    BY DEF Params!Params
  <2>2. \A n \in Params!Params : Params!Widget(Params!Param(n))'.type
                                   = Params!Widget(Params!Param(n)).type
    <3> SUFFICES ASSUME NEW n \in Params!Params
                 PROVE  widgets'[entries[<<"param", n>>]].type
                          = widgets[entries[<<"param", n>>]].type
      BY DEF Params!Widget, Params!Param
    <3>1. <<"param", n>> \in DOMAIN entries
      BY ParamIsThere DEF ParamInv
    <3> QED
      BY <1>4, <3>1 DEF ParamInv, ParamTypes
  <2> QED
    BY <2>1, <2>2 DEF Params!Kept
<1>7. \A c : CallIs(c) <=> CallIs(c)'
  BY <1>6 DEF CallIs, Params!Param
<1>8. FitStack(underWay)'
  BY <1>5, <1>7 DEF FitStack
<1>9. ParamTypes'
  <2>1. IsSequence(widgets)'
    BY <1>4 DEF IsSequence
  <2>2. \A j \in 1 .. Len(widgets) : WidgetIs(widgets[j])'
    BY <1>4 DEF ParamInv, ParamTypes
  <2> QED
    BY <1>4, <1>8, <2>1, <2>2 DEF ParamInv, ParamTypes
<1>10. ASSUME NEW l \in listeners, NEW k \in DOMAIN entries
       PROVE  heard[l][k] = Params!Reading(widgets'[entries[k]]) \/ Owed(underWay', l, k)
  <2>1. heard[l][k] = Params!Reading(widgets[entries[k]]) \/ Owed(underWay, l, k)
    BY DEF ParamInv, Params!Widget
  <2>2. entries[k] \in 1 .. Len(widgets) /\ widgets[entries[k]].name = k[2]
    BY DEF ParamInv, ParamTypes
  <2>3. CASE entries[k] = i /\ underWay' = Params!Told(s, widgets[i].name)
    BY <2>2, <2>3, ToldOfMore DEF ParamInv, ParamTypes, GoesOn
  <2>4. CASE entries[k] = i /\ Params!Reading(w) = Params!Reading(widgets[i])
    BY <1>4, <1>5, <2>1, <2>2, <2>4
  <2>5. CASE entries[k] # i
    BY <1>4, <1>5, <2>1, <2>2, <2>5
  <2> QED
    BY <2>3, <2>4, <2>5
<1> QED
  BY <1>9, <1>10 DEF ParamInv, Params!Widget

\* No value changes, and whoever is to be told still is.
LEMMA NothingChanges ==
  ASSUME ParamInv, UNCHANGED <<widgets, entries, heard>>, listeners' \subseteq listeners,
         calls' \in Nat, underWay' # <<>> => calls' > 0, GoesOn(underWay')
  PROVE  ParamInv'
<1>1. \A c : CallIs(c) <=> CallIs(c)'
  BY DEF CallIs, Params!Param, Params!Kept, Params!Params, Params!Widget
<1>2. FitStack(underWay)'
  BY <1>1 DEF FitStack, GoesOn
<1>3. ParamTypes'
  <2>1. IsSequence(widgets)'
    BY DEF ParamInv, ParamTypes, IsSequence
  <2>2. \A i \in 1 .. Len(widgets) : WidgetIs(widgets[i])'
    BY DEF ParamInv, ParamTypes
  <2> QED
    BY <1>2, <2>1, <2>2 DEF ParamInv, ParamTypes
<1>4. ASSUME NEW l \in listeners', NEW k \in DOMAIN entries
      PROVE  heard[l][k] = Params!Reading(widgets[entries[k]]) \/ Owed(underWay', l, k)
  BY DEF ParamInv, Params!Widget, GoesOn
<1> QED
  BY <1>3, <1>4 DEF ParamInv, Params!Widget

LEMMA ValueChanges ==
  ASSUME ParamInv, UNCHANGED <<entries, listeners, heard>>, calls' \in Nat,
         underWay' # <<>> => calls' > 0, NEW s, GoesOn(s),
         NEW i \in 1 .. Len(widgets), NEW v, Params!Change(i, v, s)
  PROVE  ParamInv'
<1>1. IsSequence(widgets) /\ WidgetIs(widgets[i])
  BY DEF ParamInv, ParamTypes
<1>2. PICK n, t, u, r, g, rs, h :
        widgets[i] = [name |-> n, type |-> t, value |-> u, range |-> r, given |-> g,
                      rows |-> rs, shown |-> h]
  BY <1>1 DEF WidgetIs
<1>3. PICK w : w = [name |-> n, type |-> t, value |-> v, range |-> r, given |-> g,
                    rows |-> rs, shown |-> h]
  OBVIOUS
<1>4. WidgetIs(w) /\ w.name = widgets[i].name /\ w.type = widgets[i].type
  <2>1. w.name = widgets[i].name /\ w.type = widgets[i].type
    BY <1>2, <1>3
  <2>2. w.type \in {"int", "double", "box", "check", "toggle", "enum", "button"}
    BY <1>1, <2>1 DEF WidgetIs
  <2> QED
    BY <1>3, <2>1, <2>2 DEF WidgetIs
<1>5. widgets' = [widgets EXCEPT ![i] = w]
  <2>1. widgets' = [widgets EXCEPT ![i].value = v]
    BY DEF Params!Change
  <2>2. [widgets EXCEPT ![i].value = v] = [widgets EXCEPT ![i] = [widgets[i] EXCEPT !.value = v]]
    OBVIOUS
  <2>3. [widgets[i] EXCEPT !.value = v] = w
    BY <1>2, <1>3
  <2> QED
    BY <2>1, <2>2, <2>3
<1>6. CASE v # u
  <2>1. underWay' = Params!Told(s, widgets[i].name)
    BY <1>2, <1>6 DEF Params!Change
  <2> QED
    BY <1>4, <1>5, <2>1, ParamStep
<1>7. CASE v = u
  <2>1. w = widgets[i] /\ underWay' = s
    BY <1>2, <1>3, <1>7 DEF Params!Change
  <2> QED
    BY <1>4, <1>5, <2>1, ParamStep
<1> QED
  BY <1>6, <1>7

LEMMA ValueIsSet ==
  ASSUME ParamInv, UNCHANGED <<entries, listeners, heard>>, calls' \in Nat,
         underWay' # <<>> => calls' > 0, NEW s, GoesOn(s),
         NEW i \in 1 .. Len(widgets), NEW v, Params!SetTo(i, v, s)
  PROVE  ParamInv'
BY ValueChanges DEF Params!SetTo

LEMMA ParameterIsSet ==
  ASSUME ParamInv, UNCHANGED <<entries, listeners, heard>>, calls' \in Nat,
         underWay' # <<>> => calls' > 0, NEW s, GoesOn(s),
         NEW n \in Params!Kept, NEW v, Params!SetParam(n, v, s)
  PROVE  ParamInv'
<1>1. n \in Params!Params /\ Params!Widget(Params!Param(n)).type # "button"
  BY DEF Params!Kept
<1>2. PICK i \in 1 .. Len(widgets) : i = entries[Params!Param(n)]
  BY <1>1, ParamIsThere DEF ParamInv
<1>3. WidgetIs(widgets[i]) /\ Params!Widget(Params!Param(n)) = widgets[i]
  BY <1>2 DEF ParamInv, ParamTypes, Params!Widget
<1>4. CASE widgets' = widgets /\ underWay' = s
  BY <1>4, NothingChanges
<1>5. CASE widgets[i].type \in Params!Numbers
  <2>1. Params!SetNumber(n, v, s)
    BY <1>3, <1>5 DEF Params!SetParam
  <2> QED
    BY <1>2, <2>1, ValueIsSet DEF Params!SetNumber
<1>6. CASE widgets[i].type \in Params!Buttons
  <2>1. Params!SetBool(n, v, s)
    BY <1>3, <1>6 DEF Params!SetParam
  <2> QED
    BY <1>2, <1>4, <2>1, ValueIsSet DEF Params!SetBool
<1>7. CASE widgets[i].type = "enum"
  <2>1. Params!SetEnum(n, v, s)
    BY <1>3, <1>7 DEF Params!SetParam
  <2> QED
    BY <1>2, <1>4, <2>1, ValueChanges DEF Params!SetEnum
<1> QED
  BY <1>1, <1>3, <1>5, <1>6, <1>7 DEF WidgetIs, Params!Numbers, Params!Buttons

\* The widgets "more" come at the end, keys lead to those of them that "at" tells, and their
\* values are known.
Added(more, keys, at) ==
  /\ IsSequence(more) /\ \A i \in 1 .. Len(more) : WidgetIs(more[i])
  /\ widgets' = widgets \o more
  /\ keys \subseteq {"param", "box"} \X ParamNames
  /\ DOMAIN entries' = DOMAIN entries \cup keys
  /\ \A k \in DOMAIN entries : k \notin keys => entries'[k] = entries[k]
  /\ \A k \in keys : /\ at[k] \in 1 .. Len(more) /\ more[at[k]].name = k[2]
                     /\ entries'[k] = Len(widgets) + at[k]
  /\ DOMAIN heard' = ParamListeners
  /\ \A l \in ParamListeners :
       /\ DOMAIN heard'[l] = DOMAIN entries'
       /\ \A k \in DOMAIN entries : k \notin keys => heard'[l][k] = heard[l][k]
       /\ \A k \in keys : heard'[l][k] = Params!Reading(more[at[k]])

LEMMA WidgetsAreAdded ==
  ASSUME ParamInv, Params!Adding, NEW more, NEW keys, NEW at, Added(more, keys, at)
  PROVE  ParamInv'
<1> USE DEF Added
<1>1. calls = 0 /\ UNCHANGED <<listeners, underWay, calls>>
  BY DEF Params!Adding
<1>2. underWay = <<>> /\ IsSequence(widgets)
  BY <1>1 DEF ParamInv, ParamTypes
<1>3. Len(underWay) = 0 /\ \A l, k : ~Owed(underWay, l, k)
  BY <1>2 DEF Owed
<1>4. PICK S : widgets \in Seq(S) /\ more \in Seq(S)
  <2>1. PICK A, B : widgets \in Seq(A) /\ more \in Seq(B)
    BY <1>2 DEF IsSequence
  <2>2. PICK S : S = A \cup B
    OBVIOUS
  <2>3. A \subseteq S /\ B \subseteq S
    BY <2>2
  <2>4. widgets \in Seq(S)
    BY <2>1, <2>3
  <2>5. more \in Seq(S)
    BY <2>1, <2>3
  <2> QED
    BY <2>4, <2>5
<1>5. /\ widgets' \in Seq(S) /\ Len(widgets') = Len(widgets) + Len(more)
      /\ Len(widgets) \in Nat /\ Len(more) \in Nat
      /\ \A i \in 1 .. Len(widgets) : widgets'[i] = widgets[i]
      /\ \A i \in 1 .. Len(more) : widgets'[Len(widgets) + i] = more[i]
  BY <1>4
<1>6. IsSequence(widgets)'
  BY <1>5 DEF IsSequence
<1>7. ASSUME NEW i \in 1 .. Len(widgets') PROVE WidgetIs(widgets'[i])
  <2>1. CASE i \in 1 .. Len(widgets)
    BY <1>5, <2>1 DEF ParamInv, ParamTypes
  <2>2. CASE i \notin 1 .. Len(widgets)
    <3>1. i - Len(widgets) \in 1 .. Len(more) /\ i = Len(widgets) + (i - Len(widgets))
      BY <1>5, <2>2
    <3>2. widgets'[i] = more[i - Len(widgets)]
      BY <1>5, <3>1
    <3> QED
      BY <3>1, <3>2
  <2> QED
    BY <2>1, <2>2
<1>8. ASSUME NEW k \in DOMAIN entries'
      PROVE  /\ entries'[k] \in 1 .. Len(widgets') /\ widgets'[entries'[k]].name = k[2]
             /\ \A l \in ParamListeners :
                  l \in listeners => heard'[l][k] = Params!Reading(widgets'[entries'[k]])
  <2>1. CASE k \in keys
    <3>1. at[k] \in 1 .. Len(more) /\ entries'[k] = Len(widgets) + at[k]
      BY <2>1
    <3>2. entries'[k] \in 1 .. Len(widgets') /\ widgets'[entries'[k]] = more[at[k]]
      BY <1>5, <3>1
    <3> QED
      BY <2>1, <3>2
  <2>2. CASE k \notin keys
    <3>1. k \in DOMAIN entries /\ entries'[k] = entries[k]
      BY <2>2
    <3>2. entries[k] \in 1 .. Len(widgets) /\ widgets[entries[k]].name = k[2]
      BY <3>1 DEF ParamInv, ParamTypes
    <3>3. widgets'[entries'[k]] = widgets[entries[k]] /\ entries'[k] \in 1 .. Len(widgets')
      BY <1>5, <3>1, <3>2
    <3>4. ASSUME NEW l \in ParamListeners, l \in listeners
          PROVE  heard'[l][k] = Params!Reading(widgets'[entries'[k]])
      <4>1. heard[l][k] = Params!Reading(widgets[entries[k]])
        BY <1>3, <3>1, <3>4 DEF ParamInv, Params!Widget
      <4> QED
        BY <2>2, <3>1, <3>3, <4>1
    <3> QED
      BY <3>2, <3>3, <3>4
  <2> QED
    BY <2>1, <2>2
<1>9. FitStack(underWay)'
  BY <1>1, <1>2, <1>3 DEF FitStack, IsSequence, ParamInv, ParamTypes
<1>10. ParamTypes'
  <2>1. \A i \in 1 .. Len(widgets)' : WidgetIs(widgets[i])'
    BY <1>7
  <2> QED
    BY <1>1, <1>2, <1>6, <1>8, <1>9, <2>1 DEF ParamInv, ParamTypes
<1> QED
  BY <1>1, <1>8, <1>10 DEF ParamInv, ParamTypes, Params!Widget

LEMMA WidgetIsAdded ==
  ASSUME ParamInv, Params!Adding, NEW table \in {"param", "box"}, NEW w, WidgetIs(w),
         w.name \in ParamNames, Params!Insert(table, w)
  PROVE  ParamInv'
<1>1. PICK more : more = <<w>>
  OBVIOUS
<1>2. PICK keys : keys = {<<table, w.name>>}
  OBVIOUS
<1>3. PICK at : at = [k \in keys |-> 1]
  OBVIOUS
<1>4. /\ IsSequence(more) /\ Len(more) = 1 /\ more[1] = w
      /\ \A i \in 1 .. Len(more) : WidgetIs(more[i])
  <2>1. more \in Seq({w}) /\ Len(more) = 1 /\ more[1] = w
    BY <1>1
  <2> QED
    BY <2>1 DEF IsSequence
<1>5. widgets' = widgets \o more
  <2>1. PICK S : widgets \in Seq(S)
    BY DEF ParamInv, ParamTypes, IsSequence
  <2>2. PICK T : T = S \cup {w}
    OBVIOUS
  <2>3. S \subseteq T /\ w \in T
    BY <2>2
  <2>4. widgets \in Seq(T)
    BY <2>1, <2>3
  <2>5. Append(widgets, w) = widgets \o <<w>>
    BY <2>3, <2>4
  <2> QED
    BY <1>1, <2>5 DEF Params!Insert
<1>6. /\ DOMAIN entries' = DOMAIN entries \cup keys
      /\ \A k \in DOMAIN entries : k \notin keys => entries'[k] = entries[k]
      /\ \A k \in keys : entries'[k] = Len(widgets) + 1
  BY <1>2 DEF Params!Insert, Params!Put
<1>7. \A k \in keys : /\ at[k] \in 1 .. Len(more) /\ more[at[k]].name = k[2]
                     /\ entries'[k] = Len(widgets) + at[k]
  <2>1. \A k \in keys : at[k] = 1 /\ k[2] = w.name
    BY <1>2, <1>3
  <2> QED
    BY <1>4, <1>6, <2>1
<1>8. /\ DOMAIN heard' = ParamListeners
      /\ \A l \in ParamListeners :
           heard'[l] = [k \in DOMAIN heard[l] \cup keys |->
                          IF k = <<table, w.name>> THEN Params!Reading(w) ELSE heard[l][k]]
  BY <1>2 DEF Params!Insert, Params!Put
<1>9. ASSUME NEW l \in ParamListeners
      PROVE  /\ DOMAIN heard'[l] = DOMAIN entries'
             /\ \A k \in DOMAIN entries : k \notin keys => heard'[l][k] = heard[l][k]
             /\ \A k \in keys : heard'[l][k] = Params!Reading(more[at[k]])
  <2>1. DOMAIN heard[l] = DOMAIN entries
    BY DEF ParamInv, ParamTypes
  <2>2. PICK r : r = Params!Reading(w)
    OBVIOUS
  <2>3. heard'[l] = [k \in DOMAIN entries \cup keys |->
                      IF k = <<table, w.name>> THEN r ELSE heard[l][k]]
    BY <1>8, <2>1, <2>2
  <2>4. /\ DOMAIN heard'[l] = DOMAIN entries \cup keys
        /\ \A k \in DOMAIN entries : k \notin keys => heard'[l][k] = heard[l][k]
        /\ \A k \in keys : heard'[l][k] = r
    BY <1>2, <2>3
  <2>5. \A k \in keys : more[at[k]] = w
    BY <1>2, <1>3, <1>4
  <2> QED
    BY <1>6, <2>2, <2>4, <2>5
<1>10. keys \subseteq {"param", "box"} \X ParamNames
  BY <1>2
<1> QED
  <2>1. Added(more, keys, at)
    BY <1>4, <1>5, <1>6, <1>7, <1>8, <1>9, <1>10 DEF Added
  <2> QED
    BY <2>1, WidgetsAreAdded

LEMMA RowIs ==
  ASSUME NEW t \in {"check", "toggle", "button"}, NEW n \in ParamNames, NEW also \in ParamNames,
         NEW on, NEW alsoOn, NEW row, row = Params!Row(t, n, also, on, alsoOn)
  PROVE  /\ IsSequence(row) /\ Len(row) \in {1, 2}
         /\ \A i \in 1 .. Len(row) : /\ WidgetIs(row[i]) /\ row[i].name \in ParamNames
                                     /\ Params!Reading(row[i]) = row[i].value
                                     /\ row[i].type = t
         /\ \A i, j \in 1 .. Len(row) : row[i].name = row[j].name => i = j
<1>1. PICK twice \in BOOLEAN : twice <=> (also = n \/ also \in Params!Params)
  OBVIOUS
<1>2. PICK first : first = [name |-> n, type |-> t, value |-> on, range |-> <<0, 1>>,
                            given |-> <<0, 1>>, rows |-> <<>>, shown |-> ~twice]
  OBVIOUS
<1>3. PICK second : second = [name |-> also, type |-> t, value |-> alsoOn, range |-> <<0, 1>>,
                              given |-> <<0, 1>>, rows |-> <<>>, shown |-> TRUE]
  OBVIOUS
<1>4. row = IF twice THEN <<first>> ELSE <<first>> \o <<second>>
  <2>1. first = [Params!New(n, t, on, <<0, 1>>, <<>>) EXCEPT !.shown =
                    ~(also = n \/ also \in Params!Params)]
    BY <1>1, <1>2 DEF Params!New
  <2>2. second = Params!New(also, t, alsoOn, <<0, 1>>, <<>>)
    BY <1>3 DEF Params!New
  <2>3. row = <<first>> \o (IF also = n \/ also \in Params!Params THEN <<>> ELSE <<second>>)
    BY <2>1, <2>2 DEF Params!Row
  <2>4. <<first>> \o <<>> = <<first>>
    <3>1. <<first>> \in Seq({first})
      OBVIOUS
    <3> QED
      BY <3>1
  <2> QED
    BY <1>1, <2>3, <2>4
<1>5. /\ WidgetIs(first) /\ WidgetIs(second) /\ first.name = n /\ second.name = also
      /\ first.type = t /\ second.type = t
  BY <1>2, <1>3 DEF WidgetIs
<1>6. Params!Reading(first) = first.value /\ Params!Reading(second) = second.value
  BY <1>2, <1>3 DEF Params!Reading
<1>7. CASE twice
  <2>1. row \in Seq({first}) /\ Len(row) = 1 /\ row[1] = first
    BY <1>4, <1>7
  <2> QED
    BY <1>5, <1>6, <2>1 DEF IsSequence
<1>8. CASE ~twice
  <2>1. row \in Seq({first, second}) /\ Len(row) = 2 /\ row[1] = first /\ row[2] = second
    <3>1. PICK a, b : a = <<first>> /\ b = <<second>>
      OBVIOUS
    <3>2. a \in Seq({first, second}) /\ b \in Seq({first, second})
      BY <3>1
    <3>3. PICK c : c = a \o b
      OBVIOUS
    <3>4. /\ c \in Seq({first, second}) /\ Len(c) = Len(a) + Len(b)
          /\ \A i \in 1 .. Len(a) : c[i] = a[i]
          /\ \A i \in 1 .. Len(b) : c[Len(a) + i] = b[i]
      BY <3>2, <3>3
    <3>5. Len(a) = 1 /\ Len(b) = 1 /\ a[1] = first /\ b[1] = second
      BY <3>1
    <3>6. Len(c) = 2 /\ c[1] = first /\ c[2] = second
      <4>1. 1 \in 1 .. Len(a) /\ 1 \in 1 .. Len(b) /\ Len(a) + 1 = 2
        BY <3>5
      <4> QED
        BY <3>4, <3>5, <4>1
    <3> QED
      BY <1>4, <1>8, <3>1, <3>3, <3>4, <3>6
  <2>2. first.name # second.name
    BY <1>1, <1>5, <1>8
  <2>3. 1 .. Len(row) = {1, 2}
    BY <2>1
  <2>4. \A i, j \in 1 .. Len(row) : row[i].name = row[j].name => i = j
    BY <2>1, <2>2, <2>3
  <2> QED
    BY <1>5, <1>6, <2>1, <2>3, <2>4 DEF IsSequence
<1> QED
  BY <1>7, <1>8

LEMMA RowIsAdded ==
  ASSUME ParamInv, Params!Adding, NEW t \in {"check", "toggle", "button"},
         NEW n \in ParamNames, NEW also \in ParamNames, NEW on, NEW alsoOn,
         Params!InsertRow(Params!Row(t, n, also, on, alsoOn))
  PROVE  ParamInv'
<1>1. PICK row : row = Params!Row(t, n, also, on, alsoOn)
  OBVIOUS
<1>2. /\ IsSequence(row) /\ Len(row) \in {1, 2}
      /\ \A i \in 1 .. Len(row) : /\ WidgetIs(row[i]) /\ row[i].name \in ParamNames
                                  /\ Params!Reading(row[i]) = row[i].value
      /\ \A i, j \in 1 .. Len(row) : row[i].name = row[j].name => i = j
  BY <1>1, RowIs
<1>3. DOMAIN row = 1 .. Len(row)
  BY <1>2 DEF IsSequence
<1>4. PICK keys : keys = {<<"param", row[i].name>> : i \in DOMAIN row}
  OBVIOUS
<1>5. PICK at : at = [k \in keys |-> CHOOSE i \in DOMAIN row : <<"param", row[i].name>> = k]
  OBVIOUS
<1>6. ASSUME NEW k \in keys PROVE at[k] \in 1 .. Len(row) /\ row[at[k]].name = k[2]
  <2>1. \E i \in DOMAIN row : <<"param", row[i].name>> = k
    BY <1>4
  <2>2. at[k] \in DOMAIN row /\ <<"param", row[at[k]].name>> = k
    BY <1>5, <2>1
  <2> QED
    BY <1>3, <2>2
<1>7. /\ widgets' = widgets \o row
      /\ entries' = [k \in DOMAIN entries \cup keys |->
                       IF k \in keys THEN Len(widgets) + at[k] ELSE entries[k]]
      /\ heard' = [l \in ParamListeners |-> [k \in DOMAIN entries \cup keys |->
                     IF k \in keys THEN row[at[k]].value ELSE heard[l][k]]]
  BY <1>1, <1>4, <1>5 DEF Params!InsertRow, Params!Param
<1>8. keys \subseteq {"param", "box"} \X ParamNames
  BY <1>2, <1>3, <1>4
<1>9. Added(row, keys, at)
  <2>1. \A k \in keys : Params!Reading(row[at[k]]) = row[at[k]].value
    BY <1>2, <1>6
  <2>2. \A l \in ParamListeners :
          /\ DOMAIN heard'[l] = DOMAIN entries'
          /\ \A k \in DOMAIN entries : k \notin keys => heard'[l][k] = heard[l][k]
          /\ \A k \in keys : heard'[l][k] = Params!Reading(row[at[k]])
    BY <1>7, <2>1
  <2> QED
    BY <1>2, <1>6, <1>7, <1>8, <2>2 DEF Added
<1> QED
  BY <1>9, WidgetsAreAdded

LEMMA AddingKeeps ==
  ASSUME ParamInv,
         \/ Params!AddNumber \/ Params!AddSlider \/ Params!AddBox \/ Params!AddEnum
         \/ Params!AddBooleans \/ Params!AddButtons
         \/ Params!AddCheckBoxes \/ Params!AddPushButtons
  PROVE  ParamInv'
<1> DEFINE Types == {"int", "double", "box", "check", "toggle", "enum", "button"}
<1>1. \A n \in ParamNames, t \in Types : \A v, r, rows :
        LET w == Params!New(n, t, v, r, rows) IN WidgetIs(w) /\ w.name \in ParamNames
  <2> SUFFICES ASSUME NEW n \in ParamNames, NEW t \in Types, NEW v, NEW r, NEW rows, NEW w,
                      w = [name |-> n, type |-> t, value |-> v, range |-> r, given |-> r,
                           rows |-> rows, shown |-> TRUE]
               PROVE  WidgetIs(w) /\ w.name \in ParamNames
    BY DEF Params!New
  <2>1. w.name \in ParamNames /\ w.type \in Types
    OBVIOUS
  <2> QED
    BY <2>1 DEF WidgetIs
<1>2. CASE Params!AddNumber
  <2>1. PICK n \in ParamNames, t \in {"int", "double"} : \E v, r :
          Params!Insert("param", Params!New(n, t, v, r, <<>>))
    BY <1>2 DEF Params!AddNumber
  <2> QED
    BY <1>1, <1>2, <2>1, WidgetIsAdded DEF Params!AddNumber
<1>3. CASE Params!AddSlider
  <2>1. PICK n \in ParamNames, t \in {"int", "double"} : \E v, r :
          Params!Insert("param", Params!New(n, t, v, r, <<>>))
    BY <1>3 DEF Params!AddSlider
  <2> QED
    BY <1>1, <1>3, <2>1, WidgetIsAdded DEF Params!AddSlider
<1>4. CASE Params!AddBox
  <2>1. PICK n \in ParamNames :
          \E v : Params!Insert("box", Params!New(n, "box", v, <<-1, 1000>>, <<>>))
    BY <1>4 DEF Params!AddBox
  <2> QED
    BY <1>1, <1>4, <2>1, WidgetIsAdded DEF Params!AddBox
<1>5. CASE Params!AddEnum
  <2>1. PICK n \in ParamNames :
          \E rows, i : Params!Insert("param", Params!New(n, "enum", i, <<>>, rows))
    BY <1>5 DEF Params!AddEnum
  <2> QED
    BY <1>1, <1>5, <2>1, WidgetIsAdded DEF Params!AddEnum
<1>6. CASE Params!AddBooleans
  BY <1>6, RowIsAdded DEF Params!AddBooleans, Params!Buttons
<1>7. CASE Params!AddButtons
  BY <1>7, RowIsAdded DEF Params!AddButtons
<1>8. CASE Params!AddCheckBoxes
  BY <1>8, RowIsAdded DEF Params!AddCheckBoxes
<1>9. CASE Params!AddPushButtons
  BY <1>9, RowIsAdded DEF Params!AddPushButtons
<1> QED
  BY <1>2, <1>3, <1>4, <1>5, <1>6, <1>7, <1>8, <1>9

\* A program or the user does something.
LEMMA ActIs ==
  ASSUME ParamInv, Params!Act
  PROVE  calls' \in Nat /\ calls' > 0 /\ GoesOn(underWay)
<1>1. calls \in Nat /\ calls' = calls + 1
  BY DEF Params!Act, ParamInv, ParamTypes
<1> QED
  BY <1>1 DEF ParamInv, ParamTypes, GoesOn

\* One more call is under way.
LEMMA CallGoesOn ==
  ASSUME ParamInv, NEW c, CallIs(c)
  PROVE  GoesOn(Append(underWay, c)) /\ Append(underWay, c) # <<>>
<1>1. PICK t : t = Append(underWay, c)
  OBVIOUS
<1>2. /\ IsSequence(t) /\ Len(underWay) \in Nat /\ Len(t) = Len(underWay) + 1
      /\ \A i \in 1 .. Len(underWay) : t[i] = underWay[i]
      /\ t[Len(underWay) + 1] = c
  <2>1. IsSequence(underWay)
    BY DEF ParamInv, ParamTypes, FitStack
  <2>2. /\ IsSequence(Append(underWay, c)) /\ Len(underWay) \in Nat
        /\ Len(Append(underWay, c)) = Len(underWay) + 1
        /\ \A i \in 1 .. Len(underWay) : Append(underWay, c)[i] = underWay[i]
        /\ Append(underWay, c)[Len(underWay) + 1] = c
    BY <2>1, SequenceGrows
  <2> QED
    BY <1>1, <2>2
<1>3. FitStack(t)
  <2>1. \A j \in 1 .. Len(t) : j \in 1 .. Len(underWay) \/ j = Len(underWay) + 1
    BY <1>2
  <2> QED
    BY <1>2, <2>1 DEF FitStack, ParamInv, ParamTypes
<1>4. \A l, k : Owed(underWay, l, k) => Owed(t, l, k)
  <2>1. \A j \in 1 .. Len(underWay) : j \in 1 .. Len(t)
    BY <1>2
  <2> QED
    BY <1>2, <2>1 DEF Owed
<1>5. t # <<>>
  <2>1. Len(t) # 0
    BY <1>2
  <2> QED
    BY <2>1
<1> QED
  BY <1>1, <1>3, <1>4, <1>5 DEF GoesOn

LEMMA SettingKeeps ==
  ASSUME ParamInv, Params!Set \/ Params!SetInPg \/ Params!UserChanges \/ Params!Notify
  PROVE  ParamInv'
<1>1. /\ UNCHANGED <<entries, listeners, heard>> /\ calls' \in Nat
      /\ underWay' # <<>> => calls' > 0
      /\ GoesOn(underWay)
  BY ActIs DEF Params!Set, Params!SetInPg, Params!UserChanges, Params!Notify, Params!Alters
<1>2. CASE Params!Set
  BY <1>1, <1>2, ParameterIsSet DEF Params!Set
<1>3. CASE Params!SetInPg
  <2>1. PICK n \in Params!Kept, v \in ParamValues :
          Params!SetTo(entries[Params!Param(n)], v, underWay)
    BY <1>3 DEF Params!SetInPg
  <2>2. entries[Params!Param(n)] \in 1 .. Len(widgets)
    BY ParamIsThere DEF Params!Kept, ParamInv
  <2> QED
    BY <1>1, <2>1, <2>2, ValueIsSet
<1>4. ASSUME NEW n, widgets' = widgets, underWay' = Params!Told(underWay, n)
      PROVE  ParamInv'
  <2>1. FitStack(underWay) /\ listeners \subseteq ParamListeners
    BY DEF ParamInv, ParamTypes
  <2>2. /\ FitStack(Params!Told(underWay, n)) /\ Params!Told(underWay, n) # <<>>
        /\ \A l, k : Owed(underWay, l, k) => Owed(Params!Told(underWay, n), l, k)
    BY <2>1, ToldOfMore
  <2>3. GoesOn(underWay')
    BY <1>4, <2>2 DEF GoesOn
  <2> QED
    BY <1>1, <1>4, <2>3, NothingChanges
<1>5. CASE Params!Notify
  BY <1>4, <1>5 DEF Params!Notify
<1>6. CASE Params!UserChanges
  <2>1. PICK i \in DOMAIN widgets, v \in ParamValues :
          LET w == widgets[i] IN
          CASE w.type \in Params!Numbers -> Params!SetTo(i, v, underWay)
            [] w.type \in Params!Buttons -> Params!SetTo(i, 1 - w.value, underWay)
            [] w.type = "enum" -> v \in DOMAIN w.rows /\ Params!Change(i, v, underWay)
            [] w.type = "button" -> widgets' = widgets /\ underWay' = Params!Told(underWay, w.name)
    BY <1>6 DEF Params!UserChanges
  <2>2. i \in 1 .. Len(widgets) /\ WidgetIs(widgets[i])
    BY DEF ParamInv, ParamTypes, IsSequence
  <2>3. \/ \E u : Params!SetTo(i, u, underWay)
        \/ Params!Change(i, v, underWay)
        \/ widgets' = widgets /\ underWay' = Params!Told(underWay, widgets[i].name)
    BY <2>1, <2>2 DEF WidgetIs, Params!Numbers, Params!Buttons
  <2> QED
    BY <1>1, <1>4, <2>2, <2>3, ValueIsSet, ValueChanges
<1> QED
  BY <1>2, <1>3, <1>5, <1>6

LEMMA SetCallIs ==
  ASSUME NEW n, NEW v
  PROVE  [Params!Call("set", n, {}) EXCEPT !.value = v] =
           [does |-> "set", name |-> n, left |-> {}, in |-> Params!Nobody, value |-> v]
<1>1. PICK d : d = Params!Call("set", n, {})
  OBVIOUS
<1>2. d = [does |-> "set", name |-> n, left |-> {}, in |-> Params!Nobody, value |-> 0]
  BY <1>1 DEF Params!Call
<1>3. [d EXCEPT !.value = v] =
        [does |-> "set", name |-> n, left |-> {}, in |-> Params!Nobody, value |-> v]
  BY <1>2
<1> QED
  BY <1>1, <1>3

LEMMA ModifyingKeeps ==
  ASSUME ParamInv, Params!ModifyNumber \/ Params!ModifyEnum \/ Params!ClearEnum
  PROVE  ParamInv'
<1>1. /\ UNCHANGED <<entries, listeners, heard>> /\ calls' \in Nat
      /\ underWay' # <<>> => calls' > 0
      /\ GoesOn(underWay)
  BY ActIs DEF Params!ModifyNumber, Params!ModifyEnum, Params!ClearEnum, Params!Alters
<1>2. CASE Params!ModifyNumber
  <2>1. PICK n \in Params!Params, r \in ParamRanges, v \in ParamValues :
          LET i == entries[Params!Param(n)]
              w == widgets[i]
              s == Append(underWay, [Params!Call("set", n, {}) EXCEPT !.value = v])
          IN /\ w.type \in Params!Numbers
             /\ widgets' = [widgets EXCEPT ![i].range = r, ![i].value = Params!Clamp(w.value, r)]
             /\ underWay' = IF widgets'[i].value # w.value THEN Params!Told(s, n) ELSE s
    BY <1>2 DEF Params!ModifyNumber
  <2>2. PICK i \in 1 .. Len(widgets) : i = entries[Params!Param(n)] /\ widgets[i].name = n
    BY ParamIsThere DEF ParamInv
  <2>3. WidgetIs(widgets[i]) /\ IsSequence(widgets) /\ widgets[i].type \in Params!Numbers
    BY <2>1, <2>2 DEF ParamInv, ParamTypes
  <2>4. PICK t, u, q, g, rs, h :
          widgets[i] = [name |-> n, type |-> t, value |-> u, range |-> q, given |-> g,
                        rows |-> rs, shown |-> h]
    BY <2>2, <2>3 DEF WidgetIs
  <2>5. PICK c : c = [does |-> "set", name |-> n, left |-> {}, in |-> Params!Nobody, value |-> v]
    OBVIOUS
  <2>6. CallIs(c)
    BY <2>5, ParamIsThere DEF CallIs, ParamInv
  <2>7. PICK s : s = Append(underWay, c) /\ GoesOn(s)
    BY <2>6, CallGoesOn
  <2>8. s = Append(underWay, [Params!Call("set", n, {}) EXCEPT !.value = v])
    <3>1. [Params!Call("set", n, {}) EXCEPT !.value = v] = c
      BY <2>5, SetCallIs
    <3> QED
      BY <2>7, <3>1
  <2>9. PICK x : x = Params!Clamp(u, r)
    OBVIOUS
  <2>10. PICK w : w = [name |-> n, type |-> t, value |-> x, range |-> r, given |-> g,
                       rows |-> rs, shown |-> h]
    OBVIOUS
  <2>11. WidgetIs(w) /\ w.name = widgets[i].name /\ w.type = widgets[i].type
    <3>1. w.name = widgets[i].name /\ w.type = widgets[i].type
      BY <2>4, <2>10
    <3>2. w.type \in {"int", "double", "box", "check", "toggle", "enum", "button"}
      BY <2>3, <3>1 DEF WidgetIs
    <3> QED
      BY <2>10, <3>1, <3>2 DEF WidgetIs
  <2>12. widgets' = [widgets EXCEPT ![i] = w]
    <3>1. widgets' = [widgets EXCEPT ![i].range = r, ![i].value = x]
      BY <2>1, <2>2, <2>4, <2>9
    <3>2. [widgets EXCEPT ![i].range = r, ![i].value = x]
            = [widgets EXCEPT ![i] = [widgets[i] EXCEPT !.range = r, !.value = x]]
      OBVIOUS
    <3>3. [widgets[i] EXCEPT !.range = r, !.value = x]
            = [[widgets[i] EXCEPT !.range = r] EXCEPT !.value = x]
      OBVIOUS
    <3>4. PICK a : a = [widgets[i] EXCEPT !.range = r]
      OBVIOUS
    <3>5. a = [name |-> n, type |-> t, value |-> u, range |-> r, given |-> g,
                           rows |-> rs, shown |-> h]
      BY <2>4, <3>4
    <3>6. [a EXCEPT !.value = x] = w
      BY <2>10, <3>5
    <3> QED
      BY <3>1, <3>2, <3>3, <3>4, <3>6
  <2>13. widgets'[i].value = x /\ widgets[i].value = u
    <3>1. i \in DOMAIN widgets
      BY <2>3 DEF IsSequence
    <3> QED
      BY <2>4, <2>10, <2>12, <3>1
  <2>14. underWay' = IF x # u THEN Params!Told(s, n) ELSE s
    BY <2>1, <2>2, <2>8, <2>13
  <2>15. \/ underWay' = Params!Told(s, widgets[i].name)
         \/ underWay' = s /\ Params!Reading(w) = Params!Reading(widgets[i])
    BY <2>2, <2>3, <2>4, <2>10, <2>14 DEF Params!Reading, Params!Numbers
  <2> QED
    BY <1>1, <2>7, <2>11, <2>12, <2>15, ParamStep
<1>3. ASSUME NEW n \in Params!Params, NEW rows, NEW x,
             LET i == entries[Params!Param(n)]
             IN /\ widgets' = [widgets EXCEPT ![i].rows = rows, ![i].value = x]
                /\ underWay' = Params!Told(underWay, n)
      PROVE  ParamInv'
  <2>1. PICK i \in 1 .. Len(widgets) : i = entries[Params!Param(n)] /\ widgets[i].name = n
    BY ParamIsThere DEF ParamInv
  <2>2. WidgetIs(widgets[i])
    BY <2>1 DEF ParamInv, ParamTypes
  <2>3. PICK t, u, q, g, rs, h :
          widgets[i] = [name |-> n, type |-> t, value |-> u, range |-> q, given |-> g,
                        rows |-> rs, shown |-> h]
    BY <2>1, <2>2 DEF WidgetIs
  <2>4. PICK w : w = [name |-> n, type |-> t, value |-> x, range |-> q, given |-> g,
                      rows |-> rows, shown |-> h]
    OBVIOUS
  <2>5. WidgetIs(w) /\ w.name = widgets[i].name /\ w.type = widgets[i].type
    <3>1. w.name = widgets[i].name /\ w.type = widgets[i].type
      BY <2>3, <2>4
    <3>2. w.type \in {"int", "double", "box", "check", "toggle", "enum", "button"}
      BY <2>2, <3>1 DEF WidgetIs
    <3> QED
      BY <2>4, <3>1, <3>2 DEF WidgetIs
  <2>6. widgets' = [widgets EXCEPT ![i] = w]
    <3>1. widgets' = [widgets EXCEPT ![i].rows = rows, ![i].value = x]
      BY <1>3, <2>1
    <3>2. [widgets EXCEPT ![i].rows = rows, ![i].value = x]
            = [widgets EXCEPT ![i] = [widgets[i] EXCEPT !.rows = rows, !.value = x]]
      OBVIOUS
    <3>3. [widgets[i] EXCEPT !.rows = rows, !.value = x]
            = [[widgets[i] EXCEPT !.rows = rows] EXCEPT !.value = x]
      OBVIOUS
    <3>4. PICK a : a = [widgets[i] EXCEPT !.rows = rows]
      OBVIOUS
    <3>5. a = [name |-> n, type |-> t, value |-> u, range |-> q, given |-> g,
                           rows |-> rows, shown |-> h]
      BY <2>3, <3>4
    <3>6. [a EXCEPT !.value = x] = w
      BY <2>4, <3>5
    <3> QED
      BY <3>1, <3>2, <3>3, <3>4, <3>6
  <2>7. underWay' = Params!Told(underWay, widgets[i].name)
    BY <1>3, <2>1
  <2> QED
    BY <1>1, <2>5, <2>6, <2>7, ParamStep
<1>4. CASE Params!ModifyEnum
  <2>1. PICK n \in Params!Params, v \in ParamValues :
          LET i == entries[Params!Param(n)]
              w == widgets[i]
          IN /\ widgets' = [widgets EXCEPT ![i].rows = Append(@, v), ![i].value = Len(w.rows) + 1]
             /\ underWay' = Params!Told(underWay, n)
    BY <1>4 DEF Params!ModifyEnum
  <2>2. \E rows : rows = Append(widgets[entries[Params!Param(n)]].rows, v)
    OBVIOUS
  <2> QED
    BY <1>3, <2>1, <2>2
<1>5. CASE Params!ClearEnum
  <2>1. PICK n \in Params!Params :
          LET i == entries[Params!Param(n)]
          IN /\ widgets' = [widgets EXCEPT ![i].rows = <<0>>, ![i].value = 1]
             /\ underWay' = Params!Told(underWay, n)
    BY <1>5 DEF Params!ClearEnum
  <2> QED
    BY <1>3, <2>1
<1> QED
  BY <1>2, <1>4, <1>5

\* The calls under way below the one on top, and with another one on top.
LEMMA BelowGoesOn ==
  ASSUME ParamInv, underWay # <<>>
  PROVE  /\ CallIs(Params!Top) /\ FitStack(Params!Below) /\ calls > 0
         /\ Params!Top.does # "tell" \/ Params!Top.left = {} => GoesOn(Params!Below)
         /\ \A c : CallIs(c) => /\ FitStack(Append(Params!Below, c))
                                /\ Append(Params!Below, c) # <<>>
                                /\ \/ Params!Top.does # "tell"
                                   \/ /\ c.does = "tell" /\ c.name = Params!Top.name
                                      /\ Params!Top.left \subseteq c.left
                                   => GoesOn(Append(Params!Below, c))
         /\ \A c : c.does = "tell" /\ c.name = Params!Top.name =>
              \A l, k : /\ Params!Top.name = k[2] /\ l \in Params!Top.left => l \in c.left
                        /\ Owed(underWay, l, k)
                => Owed(Append(Params!Below, c), l, k)
<1>1. PICK b : b = Params!Below
  OBVIOUS
<1>2. /\ IsSequence(b) /\ Len(underWay) \in Nat \ {0} /\ Len(b) = Len(underWay) - 1
      /\ \A i \in 1 .. Len(underWay) - 1 : b[i] = underWay[i]
  BY <1>1, SequenceShrinks DEF Params!Below, ParamInv, ParamTypes, FitStack
<1>3. PICK n \in Nat : n = Len(b) /\ n + 1 = Len(underWay)
  BY <1>2
<1>4. /\ 1 .. Len(underWay) = (1 .. n) \cup {n + 1} /\ Params!Top = underWay[n + 1]
      /\ \A i \in 1 .. n : b[i] = underWay[i]
  BY <1>2, <1>3 DEF Params!Top
<1>5. FitStack(b) /\ CallIs(Params!Top) /\ calls > 0
  BY <1>2, <1>3, <1>4 DEF FitStack, ParamInv, ParamTypes
<1>6. ASSUME NEW l, NEW k, Owed(underWay, l, k)
      PROVE  \/ Owed(b, l, k)
             \/ /\ Params!Top.does = "tell" /\ Params!Top.name = k[2]
                /\ l \in Params!Top.left
  BY <1>3, <1>4, <1>6 DEF Owed
<1>7. ASSUME NEW c
      PROVE  /\ CallIs(c) => FitStack(Append(b, c)) /\ Append(b, c) # <<>>
             /\ \A l, k : Owed(b, l, k) => Owed(Append(b, c), l, k)
             /\ \A l, k : c.does = "tell" /\ c.name = k[2] /\ l \in c.left
                            => Owed(Append(b, c), l, k)
  <2>1. PICK t : t = Append(b, c)
    OBVIOUS
  <2>2. /\ IsSequence(Append(b, c)) /\ Len(Append(b, c)) = Len(b) + 1
        /\ \A i \in 1 .. Len(b) : Append(b, c)[i] = b[i]
        /\ Append(b, c)[Len(b) + 1] = c
    BY <1>2, SequenceGrows
  <2>3. /\ IsSequence(t) /\ Len(t) = n + 1 /\ \A i \in 1 .. n : t[i] = b[i]
        /\ t[n + 1] = c
    BY <1>3, <2>1, <2>2
  <2>4. 1 .. Len(t) = (1 .. n) \cup {n + 1} /\ t # <<>>
    BY <2>3
  <2>5. CallIs(c) => FitStack(t)
    BY <1>3, <1>5, <2>3, <2>4 DEF FitStack
  <2>6. \A l, k : Owed(b, l, k) => Owed(t, l, k)
    BY <1>3, <2>3, <2>4 DEF Owed
  <2>7. \A l, k : c.does = "tell" /\ c.name = k[2] /\ l \in c.left => Owed(t, l, k)
    BY <2>3, <2>4 DEF Owed
  <2> QED
    BY <2>1, <2>4, <2>5, <2>6, <2>7
<1>8. Params!Top.does # "tell" \/ Params!Top.left = {} => GoesOn(b)
  BY <1>5, <1>6 DEF GoesOn
<1>9. ASSUME NEW c, CallIs(c),
             \/ Params!Top.does # "tell"
             \/ /\ c.does = "tell" /\ c.name = Params!Top.name
                /\ Params!Top.left \subseteq c.left
      PROVE  GoesOn(Append(b, c))
  BY <1>6, <1>7, <1>9 DEF GoesOn
<1>10. ASSUME NEW c, c.does = "tell", c.name = Params!Top.name, NEW l, NEW k,
              Params!Top.name = k[2] /\ l \in Params!Top.left => l \in c.left,
              Owed(underWay, l, k)
       PROVE  Owed(Append(b, c), l, k)
  BY <1>6, <1>7, <1>10
<1> QED
  BY <1>1, <1>5, <1>7, <1>8, <1>9, <1>10

LEMMA CallsReturn ==
  ASSUME ParamInv,
         \/ Params!ListenerReturns \/ Params!TellReturns \/ Params!LoadReturns
         \/ Params!SetValue \/ Params!LoadParam
  PROVE  ParamInv'
<1>1. /\ underWay # <<>> /\ UNCHANGED <<entries, listeners, heard, calls>>
      /\ listeners' \subseteq listeners /\ calls' \in Nat /\ calls' > 0
      /\ calls \in Nat /\ calls > 0
  <2>1. underWay # <<>> /\ UNCHANGED <<entries, listeners, heard, calls>>
    BY DEF Params!ListenerReturns, Params!TellReturns, Params!LoadReturns, Params!SetValue,
           Params!LoadParam, Params!Keeps
  <2> QED
    BY <2>1 DEF ParamInv, ParamTypes
<1>2. CallIs(Params!Top)
  BY <1>1, BelowGoesOn
<1>3. PICK d, n, s, g, v :
        Params!Top = [does |-> d, name |-> n, left |-> s, in |-> g, value |-> v]
  BY <1>2 DEF CallIs
<1>4. CASE Params!ListenerReturns
  <2>1. PICK c : c = [does |-> d, name |-> n, left |-> s, in |-> Params!Nobody, value |-> v]
    OBVIOUS
  <2>2. [Params!Top EXCEPT !.in = Params!Nobody] = c
    BY <1>3, <2>1
  <2>3. underWay' = Append(Params!Below, c) /\ UNCHANGED widgets /\ Params!Top.does = "tell"
    BY <1>4, <2>2 DEF Params!ListenerReturns
  <2>4. CallIs(c) /\ c.does = "tell" /\ c.name = Params!Top.name /\ c.left = Params!Top.left
    BY <1>2, <1>3, <2>1, <2>3 DEF CallIs
  <2>5. GoesOn(underWay')
    BY <1>1, <2>3, <2>4, BelowGoesOn
  <2> QED
    BY <1>1, <2>3, <2>5, NothingChanges
<1>5. CASE Params!TellReturns \/ Params!LoadReturns
  <2>1. /\ underWay' = Params!Below /\ UNCHANGED widgets
        /\ Params!Top.left = {}
    BY <1>5 DEF Params!TellReturns, Params!LoadReturns
  <2>2. GoesOn(underWay')
    BY <1>1, <2>1, BelowGoesOn
  <2> QED
    BY <1>1, <2>1, <2>2, NothingChanges
<1>6. CASE Params!SetValue
  <2>1. Params!Top.does = "set" /\ Params!SetTo(entries[Params!Param(n)], v, Params!Below)
    BY <1>3, <1>6 DEF Params!SetValue
  <2>2. GoesOn(Params!Below)
    BY <1>1, <2>1, BelowGoesOn
  <2>3. Params!Param(n) \in DOMAIN entries
    BY <1>2, <1>3, <2>1 DEF CallIs
  <2>4. entries[Params!Param(n)] \in 1 .. Len(widgets)
    BY <2>3 DEF ParamInv, ParamTypes
  <2> QED
    BY <1>1, <2>1, <2>2, <2>4, ValueIsSet
<1>7. CASE Params!LoadParam
  <2>1. PICK m \in s :
          Params!SetParam(m, keyFile[m], Append(Params!Below, [Params!Top EXCEPT !.left = s \ {m}]))
    BY <1>3, <1>7 DEF Params!LoadParam
  <2>2. Params!Top.does = "load" /\ d = "load" /\ s \subseteq Params!Kept
    BY <1>2, <1>3, <1>7 DEF Params!LoadParam, CallIs
  <2>3. PICK c : c = [does |-> d, name |-> n, left |-> s \ {m}, in |-> g, value |-> v]
    OBVIOUS
  <2>4. [Params!Top EXCEPT !.left = s \ {m}] = c
    BY <1>3, <2>3
  <2>5. CallIs(c)
    BY <2>2, <2>3 DEF CallIs
  <2>6. GoesOn(Append(Params!Below, c))
    BY <1>1, <2>2, <2>5, BelowGoesOn
  <2> QED
    BY <1>1, <2>1, <2>2, <2>4, <2>6, ParameterIsSet
<1> QED
  BY <1>4, <1>5, <1>6, <1>7

\* Whoever is called knows the parameter's value, and is to be told no more.
LEMMA TellingKeeps == ASSUME ParamInv, Params!Tell PROVE ParamInv'
<1>1. /\ underWay # <<>> /\ UNCHANGED <<entries, listeners, calls, widgets>>
      /\ Params!Top.does = "tell"
  BY DEF Params!Tell, Params!Keeps
<1>2. PICK l \in Params!Top.left :
        /\ underWay' = Append(Params!Below,
                         [Params!Top EXCEPT !.left = Params!Top.left \ {l}, !.in = l])
        /\ heard' = [heard EXCEPT ![l] = [k \in DOMAIN heard[l] |->
                       IF k \in Params!Tables(Params!Top.name)
                       THEN Params!Reading(Params!Widget(k)) ELSE heard[l][k]]]
  BY DEF Params!Tell
<1>3. CallIs(Params!Top) /\ calls > 0
  BY <1>1, BelowGoesOn
<1>4. PICK d, n, s, g, v :
        Params!Top = [does |-> d, name |-> n, left |-> s, in |-> g, value |-> v]
  BY <1>3 DEF CallIs
<1>5. PICK c : c = [does |-> d, name |-> n, left |-> s \ {l}, in |-> l, value |-> v]
  OBVIOUS
<1>6. [Params!Top EXCEPT !.left = Params!Top.left \ {l}, !.in = l] = c
  <2>1. [Params!Top EXCEPT !.left = Params!Top.left \ {l}, !.in = l]
          = [[Params!Top EXCEPT !.left = Params!Top.left \ {l}] EXCEPT !.in = l]
    OBVIOUS
  <2>2. PICK a : a = [Params!Top EXCEPT !.left = Params!Top.left \ {l}]
    OBVIOUS
  <2>3. a = [does |-> d, name |-> n, left |-> s \ {l}, in |-> g, value |-> v]
    BY <1>4, <2>2
  <2>4. [a EXCEPT !.in = l] = c
    BY <1>5, <2>3
  <2> QED
    BY <2>1, <2>2, <2>4
<1>7. underWay' = Append(Params!Below, c)
  BY <1>2, <1>6
<1>8. /\ CallIs(c) /\ c.does = "tell" /\ c.name = Params!Top.name /\ d = "tell"
      /\ Params!Top.left = s /\ Params!Top.name = n /\ l \in ParamListeners
  BY <1>1, <1>2, <1>3, <1>4, <1>5 DEF CallIs
<1>9. FitStack(underWay')
  BY <1>1, <1>7, <1>8, BelowGoesOn
<1>10. \A x : CallIs(x) <=> CallIs(x)'
  BY <1>1 DEF CallIs, Params!Param, Params!Kept, Params!Params, Params!Widget
<1>11. FitStack(underWay)'
  BY <1>9, <1>10 DEF FitStack
<1>12. /\ DOMAIN heard' = ParamListeners
       /\ \A m \in ParamListeners : DOMAIN heard'[m] = DOMAIN entries
       /\ \A m \in ParamListeners \ {l} : heard'[m] = heard[m]
       /\ \A k \in DOMAIN entries : heard'[l][k] =
            IF k \in Params!Tables(n) THEN Params!Reading(Params!Widget(k)) ELSE heard[l][k]
  <2>1. /\ DOMAIN heard = ParamListeners
        /\ \A m \in ParamListeners : DOMAIN heard[m] = DOMAIN entries
    BY DEF ParamInv, ParamTypes
  <2> QED
    BY <1>2, <1>8, <2>1
<1>13. ParamTypes'
  <2>1. IsSequence(widgets)'
    BY <1>1 DEF ParamInv, ParamTypes, IsSequence
  <2>2. \A i \in 1 .. Len(widgets) : WidgetIs(widgets[i])'
    BY <1>1 DEF ParamInv, ParamTypes
  <2> QED
    BY <1>1, <1>3, <1>11, <1>12, <2>1, <2>2 DEF ParamInv, ParamTypes
<1>14. ASSUME NEW m \in listeners, NEW k \in DOMAIN entries
       PROVE  \/ heard'[m][k] = Params!Reading(Params!Widget(k))
              \/ Owed(underWay', m, k)
  <2>1. heard[m][k] = Params!Reading(Params!Widget(k)) \/ Owed(underWay, m, k)
    BY DEF ParamInv
  <2>2. m \in ParamListeners
    BY DEF ParamInv, ParamTypes
  <2>3. (m \in s => m \in c.left) /\ Owed(underWay, m, k) => Owed(underWay', m, k)
    BY <1>1, <1>7, <1>8, BelowGoesOn
  <2>4. CASE m # l
    BY <1>5, <1>12, <2>1, <2>2, <2>3, <2>4
  <2>5. CASE m = l /\ k[2] = n
    <3>1. k \in Params!Tables(n)
      BY <2>5 DEF Params!Tables
    <3> QED
      BY <1>12, <2>5, <3>1
  <2>6. CASE m = l /\ k[2] # n
    <3>1. heard'[m][k] = heard[m][k]
      BY <1>12, <2>6 DEF Params!Tables
    <3>2. Owed(underWay, m, k) => Owed(underWay', m, k)
      BY <1>1, <1>7, <1>8, <2>6, BelowGoesOn
    <3> QED
      BY <2>1, <3>1, <3>2
  <2> QED
    BY <2>4, <2>5, <2>6
<1> QED
  BY <1>1, <1>13, <1>14 DEF ParamInv, Params!Widget

\* Listeners come and go, and values are saved and begin to be loaded.
LEMMA ListeningKeeps ==
  ASSUME ParamInv,
         Params!AddListener \/ Params!RemoveListener \/ Params!Save \/ Params!Load
  PROVE  ParamInv'
<1>1. /\ UNCHANGED <<widgets, entries>> /\ calls' \in Nat /\ calls' > 0
      /\ GoesOn(underWay)
  BY ActIs DEF Params!AddListener, Params!RemoveListener, Params!Save, Params!Load
<1>2. CASE Params!RemoveListener \/ Params!Save
  <2>1. UNCHANGED <<heard, underWay>> /\ listeners' \subseteq listeners
    BY <1>2 DEF Params!RemoveListener, Params!Save
  <2> QED
    BY <1>1, <2>1, NothingChanges
<1>3. CASE Params!Load
  <2>1. /\ underWay' = Append(underWay, [Params!Call("load", "", Params!Kept \cap DOMAIN keyFile)
                                           EXCEPT !.value = calls'])
        /\ UNCHANGED <<heard, listeners>>
    BY <1>3 DEF Params!Load
  <2>2. PICK d : d = Params!Call("load", "", Params!Kept \cap DOMAIN keyFile)
    OBVIOUS
  <2>3. PICK c : c = [d EXCEPT !.value = calls']
    OBVIOUS
  <2>4. c = [does |-> "load", name |-> "", left |-> Params!Kept \cap DOMAIN keyFile,
             in |-> Params!Nobody, value |-> calls']
    BY <2>2, <2>3 DEF Params!Call
  <2>5. CallIs(c)
    BY <2>4 DEF CallIs
  <2>6. GoesOn(underWay')
    BY <2>1, <2>2, <2>3, <2>5, CallGoesOn
  <2> QED
    BY <1>1, <2>1, <2>6, NothingChanges
<1>4. CASE Params!AddListener
  <2>1. PICK l \in ParamListeners :
          /\ listeners' = listeners \cup {l}
          /\ heard' = [heard EXCEPT ![l] =
                         [k \in DOMAIN entries |-> Params!Reading(Params!Widget(k))]]
    BY <1>4 DEF Params!AddListener
  <2>2. UNCHANGED underWay
    BY <1>4 DEF Params!AddListener
  <2>3. /\ DOMAIN heard' = ParamListeners /\ listeners' \subseteq ParamListeners
        /\ \A m \in ParamListeners : DOMAIN heard'[m] = DOMAIN entries
        /\ \A m \in ParamListeners \ {l} : heard'[m] = heard[m]
        /\ \A k \in DOMAIN entries : heard'[l][k] = Params!Reading(Params!Widget(k))
    <3>1. /\ DOMAIN heard = ParamListeners /\ listeners \subseteq ParamListeners
          /\ \A m \in ParamListeners : DOMAIN heard[m] = DOMAIN entries
      BY DEF ParamInv, ParamTypes
    <3> QED
      BY <2>1, <3>1
  <2>4. ParamTypes'
    <3>1. IsSequence(widgets)'
      BY <1>1 DEF ParamInv, ParamTypes, IsSequence
    <3>2. \A i \in 1 .. Len(widgets) : WidgetIs(widgets[i])'
      BY <1>1 DEF ParamInv, ParamTypes
    <3>3. \A x : CallIs(x) <=> CallIs(x)'
      BY <1>1 DEF CallIs, Params!Param, Params!Kept, Params!Params, Params!Widget
    <3>4. FitStack(underWay)'
      BY <2>2, <3>3 DEF FitStack, ParamInv, ParamTypes
    <3> QED
      BY <1>1, <2>3, <3>1, <3>2, <3>4 DEF ParamInv, ParamTypes
  <2>5. ASSUME NEW m \in listeners', NEW k \in DOMAIN entries
        PROVE  \/ heard'[m][k] = Params!Reading(Params!Widget(k))
               \/ Owed(underWay', m, k)
    <3>1. CASE m = l
      BY <2>3, <3>1
    <3>2. CASE m # l
      <4>1. m \in listeners /\ m \in ParamListeners \ {l}
        BY <2>1, <2>3, <3>2
      <4> QED
        BY <2>2, <2>3, <4>1 DEF ParamInv
    <3> QED
      BY <3>1, <3>2
  <2> QED
    BY <1>1, <2>4, <2>5 DEF ParamInv, Params!Widget
<1> QED
  BY <1>2, <1>3, <1>4

LEMMA ParamInvStays == ParamInv /\ [Params!Next]_paramVars => ParamInv'
<1> SUFFICES ASSUME ParamInv, [Params!Next]_paramVars PROVE ParamInv'
  OBVIOUS
<1>1. CASE UNCHANGED paramVars
  <2>1. /\ UNCHANGED <<widgets, entries, heard, listeners, calls, underWay>>
        /\ listeners' \subseteq listeners
    BY <1>1 DEF paramVars
  <2>2. calls' \in Nat /\ (underWay' # <<>> => calls' > 0) /\ GoesOn(underWay')
    BY <2>1 DEF ParamInv, ParamTypes, GoesOn
  <2> QED
    BY <2>1, <2>2, NothingChanges
<1> QED
  BY <1>1, AddingKeeps, SettingKeeps, ModifyingKeeps, CallsReturn, TellingKeeps,
     ListeningKeeps DEF Params!Next

-----------------------------------------------------------------------------
(* Parameters saved and loaded again.                                      *)

\* An enum's options are a sequence.
RowsFit == \A rows \in ParamRows : IsSequence(rows)

\* A widget for which v was in the file, as loading it leaves it.
ComesBack(w, v) ==
  CASE w.type \in Params!Numbers ->
         Params!Reading(w) =
           Params!Clamp(IF w.type = "double" THEN Params!Clamp(v, w.given) ELSE v, w.range)
    [] w.type = "check" -> v \in {0, 1} => Params!Reading(w) = v
    [] w.type = "enum" -> v \in {w.rows[i] : i \in DOMAIN w.rows} => Params!Reading(w) = v
    [] OTHER -> TRUE

\* The parameters of the file that are not as it has them.
Missing ==
  {n \in Params!Kept \cap DOMAIN keyFile :
     ~ComesBack(Params!Widget(Params!Param(n)), keyFile[n])}

RowsInOrder ==
  \A i \in 1 .. Len(widgets) : widgets[i].type = "enum" => IsSequence(widgets[i].rows)

\* If nothing has been done since a call in s began to load, the calls above only tell
\* of changes, and what is missing it has still to load.
LoadsInHand(s, count, missing) ==
  \A i \in 1 .. Len(s) : s[i].does = "load" =>
    /\ s[i].value \in Nat /\ s[i].value <= count
    /\ s[i].value = count =>
         /\ \A j \in 1 .. Len(s) : i < j => s[j].does = "tell"
         /\ missing \subseteq s[i].left

LoadInv == ParamInv /\ RowsInOrder /\ LoadsInHand(underWay, calls, Missing)

\* Something has been done since any load in s began.
AllEarlier(s, count) ==
  \A i \in 1 .. Len(s) : s[i].does = "load" => s[i].value \in Nat /\ s[i].value < count

LEMMA EarlierInHand ==
  ASSUME NEW s, NEW count \in Nat, AllEarlier(s, count), NEW missing
  PROVE  LoadsInHand(s, count, missing)
BY DEF AllEarlier, LoadsInHand

LEMMA NowEarlier ==
  ASSUME NEW s, NEW count \in Nat, NEW missing, LoadsInHand(s, count, missing)
  PROVE  AllEarlier(s, count + 1)
BY DEF AllEarlier, LoadsInHand

LEMMA TellOnTop ==
  ASSUME NEW s, IsSequence(s), NEW count \in Nat, NEW missing,
         LoadsInHand(s, count, missing), NEW c, c.does = "tell"
  PROVE  LoadsInHand(Append(s, c), count, missing)
<1>1. PICK t : t = Append(s, c)
  OBVIOUS
<1>2. /\ Len(s) \in Nat /\ Len(t) = Len(s) + 1 /\ t[Len(s) + 1] = c
      /\ \A i \in 1 .. Len(s) : t[i] = s[i]
  BY <1>1, SequenceGrows
<1>3. \A i \in 1 .. Len(t) : i \in 1 .. Len(s) \/ t[i].does = "tell"
  BY <1>2
<1>4. ASSUME NEW i \in 1 .. Len(t), t[i].does = "load"
      PROVE  /\ t[i].value \in Nat /\ t[i].value <= count
             /\ t[i].value = count =>
                  /\ \A j \in 1 .. Len(t) : i < j => t[j].does = "tell"
                  /\ missing \subseteq t[i].left
  <2>1. i \in 1 .. Len(s)
    BY <1>3, <1>4
  <2> QED
    BY <1>2, <1>3, <1>4, <2>1 DEF LoadsInHand
<1> QED
  BY <1>1, <1>4 DEF LoadsInHand

LEMMA CallOnTop ==
  ASSUME NEW s, IsSequence(s), NEW count \in Nat, NEW missing, AllEarlier(s, count), NEW c,
         c.does = "load" => /\ c.value \in Nat /\ c.value <= count
                            /\ c.value = count => missing \subseteq c.left
  PROVE  LoadsInHand(Append(s, c), count, missing)
<1>1. PICK t : t = Append(s, c)
  OBVIOUS
<1>2. /\ Len(s) \in Nat /\ Len(t) = Len(s) + 1 /\ t[Len(s) + 1] = c
      /\ \A i \in 1 .. Len(s) : t[i] = s[i]
  BY <1>1, SequenceGrows
<1>3. ASSUME NEW i \in 1 .. Len(t), t[i].does = "load"
      PROVE  /\ t[i].value \in Nat /\ t[i].value <= count
             /\ t[i].value = count =>
                  /\ \A j \in 1 .. Len(t) : i < j => t[j].does = "tell"
                  /\ missing \subseteq t[i].left
  <2>1. CASE i \in 1 .. Len(s)
    BY <1>2, <1>3, <2>1 DEF AllEarlier
  <2>2. CASE i \notin 1 .. Len(s)
    <3>1. i = Len(s) + 1 /\ t[i] = c
      BY <1>2, <2>2
    <3>2. \A j \in 1 .. Len(t) : ~(i < j)
      BY <1>2, <3>1
    <3> QED
      BY <1>3, <3>1, <3>2
  <2> QED
    BY <2>1, <2>2
<1> QED
  BY <1>1, <1>3 DEF LoadsInHand

LEMMA TopGone ==
  ASSUME NEW s, IsSequence(s), s # <<>>, NEW count \in Nat, NEW missing,
         LoadsInHand(s, count, missing)
  PROVE  LET b == SubSeq(s, 1, Len(s) - 1)
         IN /\ IsSequence(b) /\ LoadsInHand(b, count, missing)
            /\ s[Len(s)].does # "tell" => AllEarlier(b, count)
            /\ s[Len(s)].does = "load" => s[Len(s)].value \in Nat /\ s[Len(s)].value <= count
            /\ s[Len(s)].does = "load" /\ s[Len(s)].value = count =>
                 missing \subseteq s[Len(s)].left
<1>1. PICK b : b = SubSeq(s, 1, Len(s) - 1)
  OBVIOUS
<1>2. /\ IsSequence(b) /\ Len(s) \in Nat \ {0} /\ Len(b) = Len(s) - 1
      /\ \A i \in 1 .. Len(s) - 1 : b[i] = s[i]
  BY <1>1, SequenceShrinks
<1>3. Len(s) \in 1 .. Len(s) /\ \A i \in 1 .. Len(b) : i \in 1 .. Len(s) /\ b[i] = s[i] /\ i < Len(s)
  BY <1>2
<1>4. LoadsInHand(b, count, missing)
  BY <1>3 DEF LoadsInHand
<1>5. s[Len(s)].does # "tell" => AllEarlier(b, count)
  <2> SUFFICES ASSUME s[Len(s)].does # "tell", NEW i \in 1 .. Len(b), b[i].does = "load"
               PROVE  b[i].value \in Nat /\ b[i].value < count
    BY DEF AllEarlier
  <2>1. s[i].value \in Nat /\ s[i].value <= count /\ s[i].value # count
    BY <1>3 DEF LoadsInHand
  <2> QED
    BY <1>3, <2>1
<1>6. /\ s[Len(s)].does = "load" => s[Len(s)].value \in Nat /\ s[Len(s)].value <= count
      /\ s[Len(s)].does = "load" /\ s[Len(s)].value = count => missing \subseteq s[Len(s)].left
  BY <1>3 DEF LoadsInHand
<1> QED
  BY <1>1, <1>2, <1>4, <1>5, <1>6

LEMMA ToldInHand ==
  ASSUME NEW s, IsSequence(s), NEW count \in Nat, NEW missing,
         LoadsInHand(s, count, missing), NEW n
  PROVE  LoadsInHand(Params!Told(s, n), count, missing)
<1>1. PICK c : c = Params!Call("tell", n, listeners)
  OBVIOUS
<1>2. c.does = "tell"
  BY <1>1 DEF Params!Call
<1> QED
  BY <1>1, <1>2, TellOnTop DEF Params!Told

\* Only the value of widget i may be another one.
OnlyItsValue(i) ==
  /\ Len(widgets') = Len(widgets)
  /\ \A j \in 1 .. Len(widgets) : j # i => widgets'[j] = widgets[j]
  /\ widgets'[i].type = widgets[i].type /\ widgets'[i].rows = widgets[i].rows
  /\ widgets'[i].range = widgets[i].range /\ widgets'[i].given = widgets[i].given

\* The call goes on, or first tells of a change.
GoesOnWith(s) == underWay' = s \/ \E n : underWay' = Params!Told(s, n)

LEMMA ChangeIs ==
  ASSUME ParamInv, NEW i \in 1 .. Len(widgets), NEW v, NEW s, Params!Change(i, v, s)
  PROVE  OnlyItsValue(i) /\ widgets'[i].value = v /\ GoesOnWith(s)
<1>1. PICK S : widgets \in Seq(S)
  BY DEF ParamInv, ParamTypes, IsSequence
<1>2. WidgetIs(widgets[i]) /\ i \in DOMAIN widgets
  BY <1>1 DEF ParamInv, ParamTypes
<1>3. PICK n, t, u, r, g, rs, h :
        widgets[i] = [name |-> n, type |-> t, value |-> u, range |-> r, given |-> g,
                      rows |-> rs, shown |-> h]
  BY <1>2 DEF WidgetIs
<1>4. PICK w : w = [name |-> n, type |-> t, value |-> v, range |-> r, given |-> g,
                    rows |-> rs, shown |-> h]
  OBVIOUS
<1>5. widgets' = [widgets EXCEPT ![i] = w]
  <2>1. widgets' = [widgets EXCEPT ![i].value = v]
    BY DEF Params!Change
  <2>2. [widgets EXCEPT ![i].value = v] = [widgets EXCEPT ![i] = [widgets[i] EXCEPT !.value = v]]
    OBVIOUS
  <2>3. [widgets[i] EXCEPT !.value = v] = w
    BY <1>3, <1>4
  <2> QED
    BY <2>1, <2>2, <2>3
<1>6. /\ widgets'[i] = w /\ Len(widgets') = Len(widgets)
      /\ \A j \in 1 .. Len(widgets) : j # i => widgets'[j] = widgets[j]
  BY <1>1, <1>2, <1>5
<1>7. GoesOnWith(s)
  BY DEF Params!Change, GoesOnWith
<1> QED
  BY <1>3, <1>4, <1>6, <1>7 DEF OnlyItsValue

LEMMA SetToIs ==
  ASSUME ParamInv, NEW i \in 1 .. Len(widgets), NEW v, NEW s, Params!SetTo(i, v, s)
  PROVE  OnlyItsValue(i) /\ GoesOnWith(s)
BY ChangeIs DEF Params!SetTo

LEMMA SetComesBack ==
  ASSUME ParamInv, RowsInOrder, NEW n \in Params!Kept, NEW v, NEW s, Params!SetParam(n, v, s)
  PROVE  /\ OnlyItsValue(entries[Params!Param(n)]) /\ GoesOnWith(s)
         /\ ComesBack(widgets'[entries[Params!Param(n)]], v)
<1>1. n \in Params!Params /\ Params!Widget(Params!Param(n)).type # "button"
  BY DEF Params!Kept
<1>2. PICK i \in 1 .. Len(widgets) : i = entries[Params!Param(n)]
  BY <1>1, ParamIsThere DEF ParamInv
<1>3. PICK w : w = widgets[i] /\ w = Params!Widget(Params!Param(n))
  BY <1>2 DEF Params!Widget
<1>4. w.type \in {"int", "double", "box", "check", "toggle", "enum"}
  BY <1>1, <1>2, <1>3 DEF ParamInv, ParamTypes, WidgetIs
<1>5. ASSUME widgets' = widgets, underWay' = s
      PROVE  OnlyItsValue(i) /\ GoesOnWith(s) /\ widgets'[i] = w
  BY <1>3, <1>5 DEF OnlyItsValue, GoesOnWith
<1>6. ASSUME NEW x, Params!Change(i, x, s)
      PROVE  /\ OnlyItsValue(i) /\ GoesOnWith(s) /\ widgets'[i].value = x
             /\ widgets'[i].type = w.type /\ widgets'[i].rows = w.rows
             /\ widgets'[i].range = w.range /\ widgets'[i].given = w.given
  BY <1>3, <1>6, ChangeIs DEF OnlyItsValue
<1>7. CASE w.type \in Params!Numbers
  <2>1. PICK x : x = Params!Clamp(IF w.type = "double" THEN Params!Clamp(v, w.given) ELSE v,
                                  w.range)
    OBVIOUS
  <2>2. Params!Change(i, x, s)
    BY <1>2, <1>3, <1>7, <2>1
       DEF Params!SetParam, Params!SetNumber, Params!SetTo
  <2>3. Params!Reading(widgets'[i]) = x
    BY <1>6, <1>7, <2>2 DEF Params!Reading, Params!Numbers
  <2> QED
    <3>1. PICK y : y = widgets'[i]
      OBVIOUS
    <3>2. y.type = w.type /\ y.range = w.range /\ y.given = w.given
      BY <1>6, <2>2, <3>1
    <3>3. Params!Reading(y) =
            Params!Clamp(IF y.type = "double" THEN Params!Clamp(v, y.given) ELSE v, y.range)
      BY <2>1, <2>3, <3>1, <3>2
    <3>4. y.type \in Params!Numbers
      BY <1>7, <3>2
    <3>5. ComesBack(y, v)
      BY <3>3, <3>4 DEF ComesBack, Params!Numbers
    <3> QED
      BY <1>2, <1>6, <2>2, <3>1, <3>5
<1>8. CASE w.type = "toggle"
  <2>1. widgets' = widgets /\ underWay' = s
    BY <1>3, <1>8 DEF Params!SetParam, Params!Buttons, Params!SetBool
  <2> QED
    BY <1>2, <1>5, <1>8, <2>1 DEF ComesBack, Params!Numbers
<1>9. CASE w.type = "check"
  <2>1. IF v \in {0, 1} THEN Params!Change(i, v, s) ELSE widgets' = widgets /\ underWay' = s
    BY <1>2, <1>3, <1>9
       DEF Params!SetParam, Params!Buttons, Params!Numbers, Params!SetBool, Params!SetTo
  <2>2. CASE v \in {0, 1}
    <3>1. Params!Reading(widgets'[i]) = v
      BY <1>6, <1>9, <2>1, <2>2 DEF Params!Reading
    <3> QED
      BY <1>2, <1>6, <1>9, <2>1, <2>2, <3>1 DEF ComesBack, Params!Numbers
  <2>3. CASE v \notin {0, 1}
    BY <1>2, <1>5, <1>9, <2>1, <2>3 DEF ComesBack, Params!Numbers
  <2> QED
    BY <2>2, <2>3
<1>10. CASE w.type = "enum"
  <2>1. PICK rows : rows = Params!MatchingRows(w, v)
    OBVIOUS
  <2>2. IF rows # {} THEN Params!Change(i, CHOOSE r \in rows : TRUE, s)
        ELSE widgets' = widgets /\ underWay' = s
    BY <1>2, <1>3, <1>10, <2>1
       DEF Params!SetParam, Params!SetEnum
  <2>3. \A r \in rows : w.rows[r] = v
    BY <2>1 DEF Params!MatchingRows
  <2>4. CASE rows # {}
    <3>1. PICK r \in rows : Params!Change(i, r, s)
      BY <2>2, <2>4
    <3>2. Params!Reading(widgets'[i]) = v
      BY <1>6, <1>10, <2>3, <3>1 DEF Params!Reading
    <3> QED
      BY <1>2, <1>6, <1>10, <3>1, <3>2 DEF ComesBack, Params!Numbers
  <2>5. CASE rows = {}
    <3>1. v \notin {w.rows[k] : k \in DOMAIN w.rows}
      <4> SUFFICES ASSUME NEW k \in DOMAIN w.rows, w.rows[k] = v PROVE FALSE
        OBVIOUS
      <4>1. IsSequence(w.rows)
        BY <1>3, <1>10 DEF RowsInOrder
      <4>2. DOMAIN w.rows = 1 .. Len(w.rows) /\ Len(w.rows) \in Nat
        BY <4>1 DEF IsSequence
      <4>3. PICK those : those = {m \in DOMAIN w.rows : w.rows[m] = v}
        OBVIOUS
      <4>4. PICK m \in those : \A j \in those : m <= j
        <5>1. those \in SUBSET Nat /\ those # {}
          BY <4>2, <4>3
        <5> QED
          BY <5>1, LeastNumber
      <4>5. \A j \in 1 .. m - 1 : j \in DOMAIN w.rows /\ j \notin those
        <5>1. m \in 1 .. Len(w.rows)
          BY <4>2, <4>3
        <5>2. \A j \in 1 .. m - 1 : j \in 1 .. Len(w.rows) /\ ~(m <= j)
          BY <4>2, <5>1
        <5> QED
          BY <4>2, <4>4, <5>2
      <4>6. m \in rows
        BY <2>1, <4>3, <4>4, <4>5 DEF Params!MatchingRows
      <4> QED
        BY <2>5, <4>6
    <3> QED
      BY <1>2, <1>5, <1>10, <2>2, <2>5, <3>1 DEF ComesBack, Params!Numbers
  <2> QED
    BY <2>4, <2>5
<1> QED
  BY <1>4, <1>7, <1>8, <1>9, <1>10 DEF Params!Numbers

\* The kinds of widgets and the options of enums are the same.
SameOptions ==
  /\ Len(widgets') = Len(widgets)
  /\ \A j \in 1 .. Len(widgets) : /\ widgets'[j].type = widgets[j].type
                                  /\ widgets'[j].rows = widgets[j].rows

LEMMA OptionsAreSame ==
  ASSUME ParamInv, RowsInOrder
  PROVE  /\ UNCHANGED widgets => SameOptions
         /\ \A i : OnlyItsValue(i) => SameOptions
         /\ SameOptions => RowsInOrder'
<1>1. UNCHANGED widgets => SameOptions
  BY DEF SameOptions
<1>2. ASSUME NEW i, OnlyItsValue(i) PROVE SameOptions
  <2>1. ASSUME NEW j \in 1 .. Len(widgets)
        PROVE  widgets'[j].type = widgets[j].type /\ widgets'[j].rows = widgets[j].rows
    BY <1>2 DEF OnlyItsValue
  <2> QED
    BY <1>2, <2>1 DEF OnlyItsValue, SameOptions
<1>3. SameOptions => RowsInOrder'
  BY DEF SameOptions, RowsInOrder, IsSequence
<1> QED
  BY <1>1, <1>2, <1>3

LEMMA KeptIsSame ==
  ASSUME ParamInv, UNCHANGED entries, SameOptions
  PROVE  Params!Kept' = Params!Kept
<1>1. Params!Params' = Params!Params
  BY DEF Params!Params
<1>2. ASSUME NEW n \in Params!Params
      PROVE  widgets'[entries[Params!Param(n)]].type = widgets[entries[Params!Param(n)]].type
  BY ParamIsThere DEF ParamInv, SameOptions
<1>3. \A n : Params!Param(n)' = Params!Param(n)
  BY DEF Params!Param
<1> QED
  BY <1>1, <1>2, <1>3 DEF Params!Kept, Params!Widget

LEMMA LoadInvInit == Params!Init => LoadInv
<1> SUFFICES ASSUME Params!Init PROVE LoadInv
  OBVIOUS
<1>1. widgets = <<>> /\ underWay = <<>>
  BY DEF Params!Init
<1>2. RowsInOrder /\ LoadsInHand(underWay, calls, Missing)
  BY <1>1 DEF RowsInOrder, LoadsInHand
<1> QED
  BY <1>2, ParamInvInit DEF LoadInv

LEMMA StackIs ==
  ASSUME LoadInv
  PROVE  /\ IsSequence(underWay) /\ calls \in Nat
         /\ LoadsInHand(underWay, calls, Missing)
BY DEF LoadInv, ParamInv, ParamTypes, FitStack

\* Whatever is done, no load under way is of that moment.
LEMMA ActWithLoads ==
  ASSUME LoadInv, Params!Act
  PROVE  /\ calls' = calls + 1 /\ calls' \in Nat
         /\ AllEarlier(underWay, calls')
         /\ \A m : LoadsInHand(underWay, calls', m)
         /\ \A m : GoesOnWith(underWay) => LoadsInHand(underWay', calls', m)
<1>1. calls' = calls + 1 /\ calls' \in Nat /\ IsSequence(underWay)
  BY StackIs DEF Params!Act
<1>2. AllEarlier(underWay, calls')
  BY <1>1, StackIs, NowEarlier
<1>3. \A m : LoadsInHand(underWay, calls', m)
  BY <1>1, <1>2, EarlierInHand
<1>4. ASSUME NEW m, GoesOnWith(underWay) PROVE LoadsInHand(underWay', calls', m)
  <2>1. CASE underWay' = underWay
    BY <1>3, <2>1
  <2>2. CASE \E n : underWay' = Params!Told(underWay, n)
    BY <1>1, <1>3, <2>2, ToldInHand
  <2> QED
    BY <1>4, <2>1, <2>2 DEF GoesOnWith
<1> QED
  BY <1>1, <1>2, <1>3, <1>4

LEMMA SettingWithLoads ==
  ASSUME LoadInv, Params!Set \/ Params!SetInPg \/ Params!UserChanges \/ Params!Notify
  PROVE  RowsInOrder' /\ LoadsInHand(underWay', calls', Missing')
<1>1. ParamInv /\ RowsInOrder /\ Params!Act
  BY DEF LoadInv, Params!Set, Params!SetInPg, Params!UserChanges, Params!Notify, Params!Alters
<1>2. SameOptions /\ GoesOnWith(underWay)
  <2>1. CASE Params!Set
    BY <1>1, <2>1, SetComesBack, OptionsAreSame DEF Params!Set
  <2>2. CASE Params!SetInPg
    <3>1. PICK n \in Params!Kept, v \in ParamValues :
            Params!SetTo(entries[Params!Param(n)], v, underWay)
      BY <2>2 DEF Params!SetInPg
    <3>2. entries[Params!Param(n)] \in 1 .. Len(widgets)
      BY <1>1, ParamIsThere DEF Params!Kept, ParamInv
    <3> QED
      BY <1>1, <3>1, <3>2, SetToIs, OptionsAreSame
  <2>3. CASE Params!Notify
    BY <1>1, <2>3, OptionsAreSame DEF Params!Notify, GoesOnWith
  <2>4. CASE Params!UserChanges
    <3>1. PICK i \in DOMAIN widgets, v \in ParamValues :
            LET w == widgets[i] IN
            CASE w.type \in Params!Numbers -> Params!SetTo(i, v, underWay)
              [] w.type \in Params!Buttons -> Params!SetTo(i, 1 - w.value, underWay)
              [] w.type = "enum" -> v \in DOMAIN w.rows /\ Params!Change(i, v, underWay)
              [] w.type = "button" ->
                   widgets' = widgets /\ underWay' = Params!Told(underWay, w.name)
      BY <2>4 DEF Params!UserChanges
    <3>2. i \in 1 .. Len(widgets) /\ WidgetIs(widgets[i])
      BY <1>1 DEF ParamInv, ParamTypes, IsSequence
    <3>3. \/ \E u : Params!SetTo(i, u, underWay)
          \/ Params!Change(i, v, underWay)
          \/ widgets' = widgets /\ underWay' = Params!Told(underWay, widgets[i].name)
      BY <3>1, <3>2 DEF WidgetIs, Params!Numbers, Params!Buttons
    <3>4. CASE widgets' = widgets /\ underWay' = Params!Told(underWay, widgets[i].name)
      BY <1>1, <3>4, OptionsAreSame DEF GoesOnWith
    <3> QED
      BY <1>1, <3>2, <3>3, <3>4, SetToIs, ChangeIs, OptionsAreSame
  <2> QED
    BY <2>1, <2>2, <2>3, <2>4
<1> QED
  BY <1>1, <1>2, OptionsAreSame, ActWithLoads

LEMMA ListeningWithLoads ==
  ASSUME LoadInv,
         Params!AddListener \/ Params!RemoveListener \/ Params!Save \/ Params!Load
  PROVE  RowsInOrder' /\ LoadsInHand(underWay', calls', Missing')
<1>1. ParamInv /\ RowsInOrder /\ Params!Act /\ UNCHANGED <<widgets, entries>>
  BY DEF LoadInv, Params!AddListener, Params!RemoveListener, Params!Save, Params!Load
<1>2. RowsInOrder'
  BY <1>1, OptionsAreSame
<1>3. CASE ~Params!Load
  <2>1. UNCHANGED underWay
    BY <1>3 DEF Params!AddListener, Params!RemoveListener, Params!Save
  <2> QED
    BY <1>1, <1>2, <2>1, ActWithLoads
<1>4. CASE Params!Load
  <2>1. PICK d : d = Params!Call("load", "", Params!Kept \cap DOMAIN keyFile)
    OBVIOUS
  <2>2. PICK c : c = [d EXCEPT !.value = calls']
    OBVIOUS
  <2>3. underWay' = Append(underWay, c) /\ UNCHANGED keyFile
    BY <1>4, <2>1, <2>2 DEF Params!Load
  <2>4. c.value = calls' /\ c.left = Params!Kept \cap DOMAIN keyFile
    BY <2>1, <2>2 DEF Params!Call
  <2>5. Params!Kept' = Params!Kept
    BY <1>1 DEF Params!Kept, Params!Params, Params!Widget, Params!Param
  <2>6. Missing' \subseteq c.left
    BY <2>3, <2>4, <2>5 DEF Missing
  <2>7. calls' \in Nat /\ AllEarlier(underWay, calls') /\ IsSequence(underWay)
    BY <1>1, ActWithLoads, StackIs
  <2>8. PICK m : m = Missing'
    OBVIOUS
  <2>9. LoadsInHand(Append(underWay, c), calls', m)
    BY <2>4, <2>6, <2>7, <2>8, CallOnTop
  <2> QED
    BY <1>2, <2>3, <2>8, <2>9
<1> QED
  BY <1>3, <1>4

LEMMA ModifyingWithLoads ==
  ASSUME LoadInv, Params!ModifyNumber \/ Params!ModifyEnum \/ Params!ClearEnum
  PROVE  RowsInOrder' /\ LoadsInHand(underWay', calls', Missing')
<1>1. ParamInv /\ RowsInOrder /\ Params!Act
  BY DEF LoadInv, Params!ModifyNumber, Params!ModifyEnum, Params!ClearEnum, Params!Alters
<1>2. calls' \in Nat /\ AllEarlier(underWay, calls') /\ IsSequence(underWay)
  BY <1>1, ActWithLoads, StackIs
<1>3. PICK S : widgets \in Seq(S)
  BY <1>1 DEF ParamInv, ParamTypes, IsSequence
<1>4. CASE Params!ModifyNumber
  <2>1. PICK n \in Params!Params, r \in ParamRanges, v \in ParamValues :
          LET i == entries[Params!Param(n)]
              w == widgets[i]
              s == Append(underWay, [Params!Call("set", n, {}) EXCEPT !.value = v])
          IN /\ w.type \in Params!Numbers
             /\ widgets' = [widgets EXCEPT ![i].range = r, ![i].value = Params!Clamp(w.value, r)]
             /\ underWay' = IF widgets'[i].value # w.value THEN Params!Told(s, n) ELSE s
    BY <1>4 DEF Params!ModifyNumber
  <2>2. PICK i \in 1 .. Len(widgets) : i = entries[Params!Param(n)]
    BY <1>1, ParamIsThere DEF ParamInv
  <2>3. widgets[i].type \in Params!Numbers /\ WidgetIs(widgets[i])
    BY <1>1, <2>1, <2>2 DEF ParamInv, ParamTypes
  <2>4. RowsInOrder'
    <3>1. PICK w, x : /\ w = [widgets[i] EXCEPT !.range = r, !.value = x]
                      /\ widgets' = [widgets EXCEPT ![i].range = r, ![i].value = x]
      BY <2>1, <2>2
    <3>2. [widgets EXCEPT ![i].range = r, ![i].value = x] = [widgets EXCEPT ![i] = w]
      BY <3>1
    <3>3. w.type = widgets[i].type /\ w.rows = widgets[i].rows
      BY <2>3, <3>1 DEF WidgetIs
    <3>4. /\ Len(widgets') = Len(widgets)
          /\ \A j \in 1 .. Len(widgets) : widgets'[j] = IF j = i THEN w ELSE widgets[j]
      BY <1>3, <3>1, <3>2
    <3>5. SameOptions
      BY <3>3, <3>4 DEF SameOptions
    <3> QED
      BY <1>1, <3>5, OptionsAreSame
  <2>5. PICK c : /\ c.does = "set"
                 /\ c = [Params!Call("set", n, {}) EXCEPT !.value = v]
    BY SetCallIs
  <2>6. PICK s : s = Append(underWay, c) /\ IsSequence(s)
    BY <1>2, SequenceGrows
  <2>7. \A m : LoadsInHand(s, calls', m)
    BY <1>2, <2>5, <2>6, CallOnTop
  <2>8. underWay' = s \/ underWay' = Params!Told(s, n)
    BY <2>1, <2>5, <2>6
  <2>9. \A m : LoadsInHand(underWay', calls', m)
    BY <1>2, <2>6, <2>7, <2>8, ToldInHand
  <2> QED
    BY <2>4, <2>9
<1>5. ASSUME NEW n \in Params!Params, NEW rows, IsSequence(rows), NEW x,
             LET i == entries[Params!Param(n)]
             IN /\ widgets' = [widgets EXCEPT ![i].rows = rows, ![i].value = x]
                /\ underWay' = Params!Told(underWay, n)
      PROVE  RowsInOrder' /\ LoadsInHand(underWay', calls', Missing')
  <2>1. PICK i \in 1 .. Len(widgets) : i = entries[Params!Param(n)]
    BY <1>1, ParamIsThere DEF ParamInv
  <2>2. WidgetIs(widgets[i])
    BY <1>1 DEF ParamInv, ParamTypes
  <2>3. PICK w : w = [widgets[i] EXCEPT !.rows = rows, !.value = x]
    OBVIOUS
  <2>4. w.rows = rows
    BY <2>2, <2>3 DEF WidgetIs
  <2>5. widgets' = [widgets EXCEPT ![i] = w]
    BY <1>5, <2>1, <2>3
  <2>6. /\ Len(widgets') = Len(widgets)
        /\ \A j \in 1 .. Len(widgets) : widgets'[j] = IF j = i THEN w ELSE widgets[j]
    BY <1>3, <2>5
  <2>7. RowsInOrder'
    <3> SUFFICES ASSUME NEW j \in 1 .. Len(widgets), widgets'[j].type = "enum"
                 PROVE  IsSequence(widgets'[j].rows)
      BY <2>6 DEF RowsInOrder, IsSequence
    <3> QED
      BY <1>1, <1>5, <2>4, <2>6 DEF RowsInOrder
  <2>8. GoesOnWith(underWay)
    BY <1>5 DEF GoesOnWith
  <2> QED
    BY <1>1, <2>7, <2>8, ActWithLoads
<1>6. CASE Params!ModifyEnum
  <2>1. PICK n \in Params!Params, v \in ParamValues :
          LET i == entries[Params!Param(n)]
              w == widgets[i]
          IN /\ w.type = "enum"
             /\ widgets' = [widgets EXCEPT ![i].rows = Append(@, v), ![i].value = Len(w.rows) + 1]
             /\ underWay' = Params!Told(underWay, n)
    BY <1>6 DEF Params!ModifyEnum
  <2>2. PICK i \in 1 .. Len(widgets) : i = entries[Params!Param(n)]
    BY <1>1, ParamIsThere DEF ParamInv
  <2>3. IsSequence(widgets[i].rows)
    BY <1>1, <2>1, <2>2 DEF RowsInOrder
  <2>4. PICK rows : rows = Append(widgets[i].rows, v) /\ IsSequence(rows)
    BY <2>3, SequenceGrows
  <2> QED
    BY <1>5, <2>1, <2>2, <2>4
<1>7. CASE Params!ClearEnum
  <2>1. PICK n \in Params!Params :
          LET i == entries[Params!Param(n)]
          IN /\ widgets' = [widgets EXCEPT ![i].rows = <<0>>, ![i].value = 1]
             /\ underWay' = Params!Told(underWay, n)
    BY <1>7 DEF Params!ClearEnum
  <2>2. <<0>> \in Seq({0})
    OBVIOUS
  <2>3. IsSequence(<<0>>)
    BY <2>2 DEF IsSequence
  <2> QED
    BY <1>5, <2>1, <2>3
<1> QED
  BY <1>4, <1>6, <1>7

\* A widget that is added has its options in order.
OptionsInOrder(w) == w.type = "enum" => IsSequence(w.rows)

LEMMA AddedInOrder ==
  ASSUME LoadInv, Params!Adding, NEW more, IsSequence(more),
         \A i \in 1 .. Len(more) : OptionsInOrder(more[i]),
         widgets' = widgets \o more
  PROVE  RowsInOrder'
<1>1. PICK S : widgets \in Seq(S) /\ more \in Seq(S)
  <2>1. PICK A, B : widgets \in Seq(A) /\ more \in Seq(B)
    BY DEF LoadInv, ParamInv, ParamTypes, IsSequence
  <2>2. PICK S : S = A \cup B
    OBVIOUS
  <2>3. A \subseteq S /\ B \subseteq S
    BY <2>2
  <2>4. widgets \in Seq(S)
    BY <2>1, <2>3
  <2>5. more \in Seq(S)
    BY <2>1, <2>3
  <2> QED
    BY <2>4, <2>5
<1>2. /\ Len(widgets') = Len(widgets) + Len(more)
      /\ Len(widgets) \in Nat /\ Len(more) \in Nat
      /\ \A i \in 1 .. Len(widgets) : widgets'[i] = widgets[i]
      /\ \A i \in 1 .. Len(more) : widgets'[Len(widgets) + i] = more[i]
  BY <1>1
<1>3. ASSUME NEW i \in 1 .. Len(widgets') PROVE OptionsInOrder(widgets'[i])
  <2>1. CASE i \in 1 .. Len(widgets)
    BY <1>2, <2>1 DEF LoadInv, RowsInOrder, OptionsInOrder
  <2>2. CASE i \notin 1 .. Len(widgets)
    <3>1. i - Len(widgets) \in 1 .. Len(more) /\ i = Len(widgets) + (i - Len(widgets))
      BY <1>2, <2>2
    <3>2. widgets'[i] = more[i - Len(widgets)]
      BY <1>2, <3>1
    <3> QED
      BY <3>1, <3>2
  <2> QED
    BY <2>1, <2>2
<1> QED
  BY <1>3 DEF RowsInOrder, OptionsInOrder, IsSequence

LEMMA AddingWithLoads ==
  ASSUME LoadInv, RowsFit,
         \/ Params!AddNumber \/ Params!AddSlider \/ Params!AddBox \/ Params!AddEnum
         \/ Params!AddBooleans \/ Params!AddButtons
         \/ Params!AddCheckBoxes \/ Params!AddPushButtons
  PROVE  RowsInOrder' /\ LoadsInHand(underWay', calls', Missing')
<1>1. Params!Adding
  BY DEF Params!AddNumber, Params!AddSlider, Params!AddBox, Params!AddEnum,
         Params!AddBooleans, Params!AddButtons, Params!AddCheckBoxes, Params!AddPushButtons
<1>2. underWay' = <<>>
  BY <1>1 DEF Params!Adding, LoadInv, ParamInv, ParamTypes
<1>3. LoadsInHand(underWay', calls', Missing')
  BY <1>2 DEF LoadsInHand
<1>4. ASSUME NEW w, OptionsInOrder(w), NEW table, Params!Insert(table, w)
      PROVE  RowsInOrder'
  <2>1. PICK more : more = <<w>>
    OBVIOUS
  <2>2. more \in Seq({w}) /\ Len(more) = 1 /\ more[1] = w
    BY <2>1
  <2>3. widgets' = Append(widgets, w)
    BY <1>4 DEF Params!Insert
  <2>4. IsSequence(widgets)
    BY DEF LoadInv, ParamInv, ParamTypes
  <2>5. /\ Len(widgets) \in Nat /\ Len(widgets') = Len(widgets) + 1
        /\ \A i \in 1 .. Len(widgets) : widgets'[i] = widgets[i]
        /\ widgets'[Len(widgets) + 1] = w
    BY <2>3, <2>4, SequenceGrows
  <2>6. ASSUME NEW i \in 1 .. Len(widgets') PROVE OptionsInOrder(widgets'[i])
    <3>1. i \in 1 .. Len(widgets) \/ i = Len(widgets) + 1
      BY <2>5
    <3> QED
      BY <1>4, <2>5, <3>1 DEF LoadInv, RowsInOrder, OptionsInOrder
  <2> QED
    BY <2>6 DEF RowsInOrder, OptionsInOrder, IsSequence
<1>5. ASSUME NEW t \in {"check", "toggle", "button"},
             NEW n \in ParamNames, NEW also \in ParamNames, NEW on, NEW alsoOn,
             Params!InsertRow(Params!Row(t, n, also, on, alsoOn))
      PROVE  RowsInOrder'
  <2>1. PICK row : row = Params!Row(t, n, also, on, alsoOn)
    OBVIOUS
  <2>2. IsSequence(row) /\ \A i \in 1 .. Len(row) : row[i].type = t
    BY <2>1, RowIs
  <2>3. \A i \in 1 .. Len(row) : OptionsInOrder(row[i])
    BY <2>2 DEF OptionsInOrder
  <2>4. widgets' = widgets \o row
    BY <1>5, <2>1 DEF Params!InsertRow
  <2> QED
    BY <1>1, <2>2, <2>3, <2>4, AddedInOrder
<1>6. \A n, t, v, r, rows : t # "enum" \/ IsSequence(rows) =>
        OptionsInOrder(Params!New(n, t, v, r, rows))
  BY DEF OptionsInOrder, Params!New
<1>7. CASE Params!AddNumber \/ Params!AddSlider \/ Params!AddBox
  <2>1. CASE Params!AddNumber
    <3>1. PICK n \in ParamNames, t \in {"int", "double"} : \E v, r :
            Params!Insert("param", Params!New(n, t, v, r, <<>>))
      BY <2>1 DEF Params!AddNumber
    <3> QED
      BY <1>3, <1>4, <1>6, <3>1
  <2>2. CASE Params!AddSlider
    <3>1. PICK n \in ParamNames, t \in {"int", "double"} : \E v, r :
            Params!Insert("param", Params!New(n, t, v, r, <<>>))
      BY <2>2 DEF Params!AddSlider
    <3> QED
      BY <1>3, <1>4, <1>6, <3>1
  <2>3. CASE Params!AddBox
    <3>1. PICK n \in ParamNames :
            \E v : Params!Insert("box", Params!New(n, "box", v, <<-1, 1000>>, <<>>))
      BY <2>3 DEF Params!AddBox
    <3> QED
      BY <1>3, <1>4, <1>6, <3>1
  <2> QED
    BY <1>7, <2>1, <2>2, <2>3
<1>8. CASE Params!AddEnum
  <2>1. PICK n \in ParamNames, rows \in ParamRows :
          \E i : Params!Insert("param", Params!New(n, "enum", i, <<>>, rows))
    BY <1>8 DEF Params!AddEnum
  <2> QED
    BY <1>3, <1>4, <1>6, <2>1 DEF RowsFit
<1>9. CASE Params!AddBooleans
  BY <1>3, <1>5, <1>9 DEF Params!AddBooleans, Params!Buttons
<1>10. CASE Params!AddButtons
  BY <1>3, <1>5, <1>10 DEF Params!AddButtons
<1>11. CASE Params!AddCheckBoxes
  BY <1>3, <1>5, <1>11 DEF Params!AddCheckBoxes
<1>12. CASE Params!AddPushButtons
  BY <1>3, <1>5, <1>12 DEF Params!AddPushButtons
<1> QED
  BY <1>7, <1>8, <1>9, <1>10, <1>11, <1>12

LEMMA ReturningWithLoads ==
  ASSUME LoadInv,
         \/ Params!Tell \/ Params!ListenerReturns \/ Params!TellReturns
         \/ Params!LoadReturns \/ Params!SetValue
  PROVE  RowsInOrder' /\ LoadsInHand(underWay', calls', Missing')
<1>1. /\ underWay # <<>> /\ UNCHANGED <<entries, keyFile, calls>>
      /\ ParamInv /\ RowsInOrder
  BY DEF LoadInv, Params!Tell, Params!ListenerReturns, Params!TellReturns, Params!LoadReturns,
         Params!SetValue, Params!Keeps
<1>2. PICK b : b = Params!Below
  OBVIOUS
<1>3. /\ IsSequence(b) /\ calls \in Nat /\ LoadsInHand(b, calls, Missing)
      /\ Params!Top.does # "tell" => AllEarlier(b, calls)
  BY <1>1, <1>2, StackIs, TopGone DEF Params!Below, Params!Top
<1>4. CASE ~Params!SetValue
  <2>1. UNCHANGED widgets
    BY <1>4 DEF Params!Tell, Params!ListenerReturns, Params!TellReturns, Params!LoadReturns
  <2>2. Missing' = Missing
    BY <1>1, <2>1
       DEF Missing, Params!Kept, Params!Params, Params!Widget, Params!Param
  <2>3. PICK m : m = Missing
    OBVIOUS
  <2>4. LoadsInHand(underWay', calls, m)
    <3>1. CASE Params!TellReturns \/ Params!LoadReturns
      BY <1>2, <1>3, <2>3, <3>1 DEF Params!TellReturns, Params!LoadReturns
    <3>2. CASE Params!Tell \/ Params!ListenerReturns
      <4>1. CallIs(Params!Top) /\ Params!Top.does = "tell"
        BY <1>1, <3>2, BelowGoesOn DEF Params!Tell, Params!ListenerReturns
      <4>2. PICK c : c.does = "tell" /\ underWay' = Append(b, c)
        <5>1. PICK d, n, l, i, v :
                Params!Top = [does |-> d, name |-> n, left |-> l, in |-> i, value |-> v]
          BY <4>1 DEF CallIs
        <5>2. \A x, y : [[Params!Top EXCEPT !.left = x, !.in = y] EXCEPT !.in = y].does = d
          BY <5>1
        <5>3. \A x, y : /\ [Params!Top EXCEPT !.left = x, !.in = y].does = "tell"
                        /\ [Params!Top EXCEPT !.in = y].does = "tell"
          BY <4>1, <5>1
        <5> QED
          BY <1>2, <3>2, <5>3 DEF Params!Tell, Params!ListenerReturns
      <4> QED
        BY <1>3, <2>3, <4>2, TellOnTop
    <3> QED
      BY <1>4, <3>1, <3>2
  <2> QED
    BY <1>1, <2>1, <2>2, <2>3, <2>4, OptionsAreSame
<1>5. CASE Params!SetValue
  <2>1. Params!Top.does = "set" /\ Params!SetTo(entries[Params!Param(Params!Top.name)],
                                                Params!Top.value, b)
    BY <1>2, <1>5 DEF Params!SetValue
  <2>2. CallIs(Params!Top)
    BY <1>1, BelowGoesOn
  <2>3. entries[Params!Param(Params!Top.name)] \in 1 .. Len(widgets)
    BY <1>1, <2>1, <2>2 DEF CallIs, ParamInv, ParamTypes
  <2>4. SameOptions /\ GoesOnWith(b)
    BY <1>1, <2>1, <2>3, SetToIs, OptionsAreSame
  <2>5. \A m : LoadsInHand(b, calls, m)
    BY <1>3, <2>1, EarlierInHand
  <2>6. \A m : LoadsInHand(underWay', calls, m)
    BY <1>3, <2>4, <2>5, ToldInHand DEF GoesOnWith
  <2> QED
    BY <1>1, <2>4, <2>6, OptionsAreSame
<1> QED
  BY <1>4, <1>5

LEMMA LoadingGoesOn ==
  ASSUME LoadInv, Params!LoadParam
  PROVE  RowsInOrder' /\ LoadsInHand(underWay', calls', Missing')
<1>1. /\ underWay # <<>> /\ UNCHANGED <<entries, keyFile, calls>>
      /\ ParamInv /\ RowsInOrder /\ Params!Top.does = "load"
  BY DEF LoadInv, Params!LoadParam, Params!Keeps
<1>2. PICK b : b = Params!Below
  OBVIOUS
<1>3. PICK t : t = Params!Top
  OBVIOUS
<1>4. /\ IsSequence(b) /\ calls \in Nat /\ AllEarlier(b, calls)
      /\ t.value \in Nat /\ t.value <= calls
      /\ t.value = calls => Missing \subseteq t.left
  BY <1>1, <1>2, <1>3, StackIs, TopGone DEF Params!Below, Params!Top
<1>5. CallIs(t) /\ t.does = "load"
  BY <1>1, <1>3, BelowGoesOn
<1>6. PICK n \in t.left :
        Params!SetParam(n, keyFile[n], Append(b, [t EXCEPT !.left = t.left \ {n}]))
  BY <1>2, <1>3 DEF Params!LoadParam
<1>7. n \in Params!Kept /\ t.left \subseteq Params!Kept
  BY <1>5 DEF CallIs
<1>8. PICK c : c = [t EXCEPT !.left = t.left \ {n}]
  OBVIOUS
<1>9. c.does = "load" /\ c.value = t.value /\ c.left = t.left \ {n}
  BY <1>5, <1>8 DEF CallIs
<1>10. PICK s : s = Append(b, c) /\ IsSequence(s)
  BY <1>4, SequenceGrows
<1>11. PICK i \in 1 .. Len(widgets) : i = entries[Params!Param(n)] /\ widgets[i].name = n
  BY <1>1, <1>7, ParamIsThere DEF ParamInv, Params!Kept
<1>12. OnlyItsValue(i) /\ GoesOnWith(s) /\ ComesBack(widgets'[i], keyFile[n])
  BY <1>1, <1>6, <1>7, <1>8, <1>10, <1>11, SetComesBack
<1>13. SameOptions
  BY <1>1, <1>12, OptionsAreSame
<1>14. Missing' \subseteq Missing \ {n}
  <2>1. Params!Kept' = Params!Kept
    BY <1>1, <1>13, KeptIsSame
  <2>2. \A m : Params!Param(m)' = Params!Param(m)
    BY DEF Params!Param
  <2>3. ASSUME NEW m \in Params!Kept, m # n
        PROVE  widgets'[entries[Params!Param(m)]] = widgets[entries[Params!Param(m)]]
    <3>1. PICK j \in 1 .. Len(widgets) : j = entries[Params!Param(m)] /\ widgets[j].name = m
      BY <1>1, ParamIsThere DEF ParamInv, Params!Kept
    <3>2. j # i
      BY <1>11, <2>3, <3>1
    <3> QED
      BY <1>12, <3>1, <3>2 DEF OnlyItsValue
  <2> SUFFICES ASSUME NEW m \in Missing' PROVE m \in Missing /\ m # n
    OBVIOUS
  <2>4. /\ m \in Params!Kept \cap DOMAIN keyFile
        /\ ~ComesBack(widgets'[entries[Params!Param(m)]], keyFile[m])
    BY <1>1, <2>1, <2>2 DEF Missing, Params!Widget
  <2>5. m # n
    BY <1>11, <1>12, <2>4
  <2> QED
    BY <2>3, <2>4, <2>5 DEF Missing, Params!Widget
<1>15. PICK m : m = Missing'
  OBVIOUS
<1>16. LoadsInHand(s, calls, m)
  BY <1>4, <1>9, <1>10, <1>14, <1>15, CallOnTop
<1>17. LoadsInHand(underWay', calls, m)
  BY <1>4, <1>10, <1>12, <1>16, ToldInHand DEF GoesOnWith
<1> QED
  BY <1>1, <1>13, <1>15, <1>17, OptionsAreSame

LEMMA LoadInvStays == RowsFit /\ LoadInv /\ [Params!Next]_paramVars => LoadInv'
<1> SUFFICES ASSUME RowsFit, LoadInv, [Params!Next]_paramVars PROVE LoadInv'
  OBVIOUS
<1>1. ParamInv'
  BY ParamInvStays DEF LoadInv
<1>2. CASE UNCHANGED paramVars
  <2>1. UNCHANGED <<widgets, entries, keyFile, underWay, calls>>
    BY <1>2 DEF paramVars
  <2>2. Missing' = Missing
    BY <2>1 DEF Missing, Params!Kept, Params!Params, Params!Widget, Params!Param
  <2>3. RowsInOrder'
    BY <2>1 DEF LoadInv, RowsInOrder, IsSequence
  <2> QED
    BY <1>1, <2>1, <2>2, <2>3 DEF LoadInv
<1>3. CASE Params!Next
  <2>1. RowsInOrder' /\ LoadsInHand(underWay', calls', Missing')
    BY <1>3, AddingWithLoads, SettingWithLoads, ModifyingWithLoads, ListeningWithLoads,
       ReturningWithLoads, LoadingGoesOn DEF Params!Next
  <2> QED
    BY <1>1, <2>1 DEF LoadInv
<1> QED
  BY <1>2, <1>3

\* When a load that nothing disturbed returns, nothing is missing.
LEMMA LoadIsWhole ==
  ASSUME LoadInv, Params!LoadReturns, Params!Top.value = calls,
         NEW n \in Params!Kept \cap DOMAIN keyFile
  PROVE  ComesBack(Params!Widget(Params!Param(n)), keyFile[n])
<1>1. underWay # <<>> /\ Params!Top.does = "load" /\ Params!Top.left = {}
  BY DEF Params!LoadReturns
<1>2. Missing \subseteq {}
  BY <1>1, StackIs, TopGone DEF Params!Top
<1> QED
  BY <1>2 DEF Missing

LEMMA LoadsComeBack ==
  ASSUME RowsFit
  PROVE  Params!Init /\ [][Params!Next]_paramVars => Params!SavedComesBack
<1> DEFINE Whole ==
      Params!LoadReturns /\ Params!Top.value = calls =>
        \A n \in Params!Kept \cap DOMAIN keyFile :
          ComesBack(Params!Widget(Params!Param(n)), keyFile[n])
<1>1. LoadInv => Whole
  BY LoadIsWhole
<1>2. LoadInv /\ [Params!Next]_paramVars => [Whole]_(Params!vars)
  BY <1>1
<1>3. Params!SavedComesBack <=> [][Whole]_(Params!vars)
  BY DEF Params!SavedComesBack, ComesBack, Params!Get
<1> HIDE DEF Whole
<1> QED
  BY <1>2, <1>3, LoadInvInit, LoadInvStays, PTL

-----------------------------------------------------------------------------
(* A display on another computer.                                          *)

ToDelete == [type : {"dealloc"}, ids : SUBSET RemoteResources]
ToAdd == [type : {"add"}, ids : SUBSET RemoteResources]
ToShow == [type : {"codes"}, buffer : RemoteBuffers, ids : SUBSET RemoteResources]
Messages == ToDelete \cup ToAdd \cup ToShow

\* Frames use the display's resources; NULL is no buffer, set of resources or message.
RemoteFits ==
  /\ RemoteFrames \in [RemoteBuffers -> SUBSET (SUBSET RemoteResources)]
  /\ None \notin RemoteBuffers \cup Messages \cup (SUBSET RemoteResources)
  /\ None # Remote!NoMessage

Screen == [claims : [RemoteBuffers -> SUBSET RemoteResources], remote : SUBSET RemoteResources,
           held : SUBSET RemoteResources, dealloc : SUBSET RemoteResources,
           codes : [RemoteBuffers -> {None} \cup SUBSET RemoteResources]]

RemoteTypes ==
  /\ server \in Screen
  /\ viewer \in Screen
  /\ wire \in Seq(Messages)
  /\ mutex \in RemoteBuffers \cup {None}
  /\ message \in [RemoteBuffers -> Messages \cup {Remote!NoMessage, None}]
  /\ pc \in [RemoteBuffers -> {"idle", "claim", "resources", "codes", "release"}]
  /\ front \in [RemoteBuffers -> SUBSET RemoteResources]
  /\ frontResc \in [RemoteBuffers -> SUBSET RemoteResources]

\* What a viewer's display still gets, the message being written included.
InFlight ==
  IF mutex = None \/ message[mutex] = Remote!NoMessage THEN wire
  ELSE Append(wire, message[mutex])

\* The last that happened up to k, of what turns something on and off, turned it on.
StaysOn(ons, offs, k) == \E i \in ons : i <= k /\ \A j \in offs : i < j => k < j

AddsIn(disp, s, r) ==
  {i \in 0 .. Len(s) : IF i = 0 THEN r \in disp.held \ disp.dealloc
                       ELSE s[i].type = "add" /\ r \in s[i].ids}
DeletesIn(s, r) == {i \in 1 .. Len(s) : s[i].type = "dealloc" /\ r \in s[i].ids}
NamesIn(disp, s, b, r) ==
  {i \in 0 .. Len(s) : IF i = 0 THEN disp.codes[b] # None /\ r \in disp.codes[b]
                       ELSE s[i].type = "codes" /\ s[i].buffer = b /\ r \in s[i].ids}
CodesIn(s, b) == {i \in 1 .. Len(s) : s[i].type = "codes" /\ s[i].buffer = b}

\* After k messages of s the display has r, and its codes for b name r.
HasIt(disp, s, r, k) == StaysOn(AddsIn(disp, s, r), DeletesIn(s, r), k)
NamesIt(disp, s, b, r, k) == StaysOn(NamesIn(disp, s, b, r), CodesIn(s, b), k)

\* At every moment to come the codes name what is there, and only what is there is
\* deleted; in the end the display has what is on record.
Served(disp, s) ==
  /\ \A b \in RemoteBuffers, r \in RemoteResources, k \in 0 .. Len(s) :
       NamesIt(disp, s, b, r, k) => HasIt(disp, s, r, k)
  /\ \A k \in 1 .. Len(s), r \in RemoteResources :
       s[k].type = "dealloc" /\ r \in s[k].ids => HasIt(disp, s, r, k - 1)
OnRecord(disp, s, remote) ==
  \A r \in RemoteResources : HasIt(disp, s, r, Len(s)) <=> r \in remote
\* The last codes for b name resources of the set only.
NamedWithin(disp, s, b, set) ==
  \A r \in RemoteResources : NamesIt(disp, s, b, r, Len(s)) => r \in set

\* How far a buffer's world is with its frame: what it claims, what is on record of it
\* and what the codes on the way may name.
Progress(b) ==
  /\ message[b] # None <=> mutex = b
  /\ mutex = b => pc[b] # "idle"
  /\ server.claims[b] =
       IF pc[b] = "idle" \/ (pc[b] = "claim" /\ mutex # b) THEN frontResc[b]
       ELSE IF pc[b] = "release" /\ mutex = b THEN front[b]
       ELSE frontResc[b] \cup front[b]
  /\ (pc[b] = "claim" /\ mutex = b) \/ (pc[b] = "resources" /\ mutex # b)
       \/ server.claims[b] \subseteq server.remote
  /\ NamedWithin(viewer, InFlight, b, server.claims[b])
  /\ pc[b] = "release" \/ (pc[b] = "codes" /\ mutex = b) =>
       NamedWithin(viewer, InFlight, b, front[b])

RemoteInv ==
  /\ RemoteTypes
  /\ viewer.dealloc \subseteq viewer.held
  /\ Served(viewer, InFlight)
  /\ OnRecord(viewer, InFlight, server.remote)
  /\ \A b \in RemoteBuffers : Progress(b)

LEMMA OnAtStart ==
  ASSUME NEW ons \in SUBSET Nat, NEW offs \in SUBSET (Nat \ {0})
  PROVE  StaysOn(ons, offs, 0) <=> 0 \in ons
BY DEF StaysOn

LEMMA OnNext ==
  ASSUME NEW ons \in SUBSET Nat, NEW offs \in SUBSET Nat, NEW k \in Nat
  PROVE  StaysOn(ons, offs, k + 1) <=>
           k + 1 \in ons \/ (StaysOn(ons, offs, k) /\ k + 1 \notin offs)
<1>1. ASSUME StaysOn(ons, offs, k + 1), k + 1 \notin ons
      PROVE  StaysOn(ons, offs, k) /\ k + 1 \notin offs
  <2>1. PICK i \in ons : i <= k + 1 /\ \A j \in offs : i < j => k + 1 < j
    BY <1>1 DEF StaysOn
  <2>2. i \in Nat /\ i <= k
    BY <2>1, <1>1
  <2>3. \A j \in offs : i < j => k < j
    BY <2>1, <2>2
  <2>4. k + 1 \notin offs
    BY <2>1, <2>2
  <2> QED
    BY <2>2, <2>3, <2>4 DEF StaysOn
<1>2. ASSUME k + 1 \in ons
      PROVE  StaysOn(ons, offs, k + 1)
  BY <1>2 DEF StaysOn
<1>3. ASSUME StaysOn(ons, offs, k), k + 1 \notin offs
      PROVE  StaysOn(ons, offs, k + 1)
  <2>1. PICK i \in ons : i <= k /\ \A j \in offs : i < j => k < j
    BY <1>3 DEF StaysOn
  <2>2. \A j \in offs : i < j => k + 1 < j
    BY <2>1, <1>3
  <2> QED
    BY <2>1, <2>2 DEF StaysOn
<1> QED
  BY <1>1, <1>2, <1>3

LEMMA OnSame ==
  ASSUME NEW ons \in SUBSET Nat, NEW offs \in SUBSET Nat, NEW k \in Nat,
         NEW ons2 \in SUBSET Nat, NEW offs2 \in SUBSET Nat,
         \A i \in 0 .. k : (i \in ons <=> i \in ons2) /\ (i \in offs <=> i \in offs2)
  PROVE  StaysOn(ons, offs, k) <=> StaysOn(ons2, offs2, k)
<1>1. ASSUME StaysOn(ons, offs, k) PROVE StaysOn(ons2, offs2, k)
  <2>1. PICK i \in ons : i <= k /\ \A j \in offs : i < j => k < j
    BY <1>1 DEF StaysOn
  <2>2. i \in ons2
    BY <2>1
  <2>3. ASSUME NEW j \in offs2, i < j PROVE k < j
    BY <2>1, <2>3
  <2> QED
    BY <2>1, <2>2, <2>3 DEF StaysOn
<1>2. ASSUME StaysOn(ons2, offs2, k) PROVE StaysOn(ons, offs, k)
  <2>1. PICK i \in ons2 : i <= k /\ \A j \in offs2 : i < j => k < j
    BY <1>2 DEF StaysOn
  <2>2. i \in ons
    BY <2>1
  <2>3. ASSUME NEW j \in offs, i < j PROVE k < j
    BY <2>1, <2>3
  <2> QED
    BY <2>1, <2>2, <2>3 DEF StaysOn
<1> QED
  BY <1>1, <1>2

\* The first event taken into the state before the second.
LEMMA OnShifted ==
  ASSUME NEW ons \in SUBSET Nat, NEW offs \in SUBSET (Nat \ {0}), NEW k \in Nat,
         NEW ons2 \in SUBSET Nat, NEW offs2 \in SUBSET (Nat \ {0}),
         0 \in ons2 <=> 1 \in ons \/ (0 \in ons /\ 1 \notin offs),
         \A i \in Nat \ {0} : (i \in ons2 <=> i + 1 \in ons) /\ (i \in offs2 <=> i + 1 \in offs)
  PROVE  StaysOn(ons2, offs2, k) <=> StaysOn(ons, offs, k + 1)
<1>1. ASSUME StaysOn(ons2, offs2, k) PROVE StaysOn(ons, offs, k + 1)
  <2>1. PICK i \in ons2 : i <= k /\ \A j \in offs2 : i < j => k < j
    BY <1>1 DEF StaysOn
  <2>2. \A j \in offs : i + 1 < j => k + 1 < j
    <3>1. SUFFICES ASSUME NEW j \in offs, i + 1 < j PROVE k + 1 < j
      OBVIOUS
    <3>2. j - 1 \in Nat \ {0} /\ (j - 1) + 1 = j
      BY <3>1
    <3>3. j - 1 \in offs2
      BY <3>1, <3>2
    <3> QED
      BY <2>1, <3>1, <3>2, <3>3
  <2>3. CASE i # 0
    <3>1. i + 1 \in ons
      BY <2>1, <2>3
    <3> QED
      BY <2>1, <2>2, <3>1 DEF StaysOn
  <2>4. CASE i = 0 /\ 1 \in ons
    BY <2>1, <2>2, <2>4 DEF StaysOn
  <2>5. CASE i = 0 /\ 1 \notin ons
    <3>1. 0 \in ons /\ 1 \notin offs
      BY <2>1, <2>5
    <3>2. \A j \in offs : 0 < j => k + 1 < j
      BY <2>2, <2>5, <3>1
    <3> QED
      BY <3>1, <3>2 DEF StaysOn
  <2> QED
    BY <2>3, <2>4, <2>5
<1>2. ASSUME StaysOn(ons, offs, k + 1) PROVE StaysOn(ons2, offs2, k)
  <2>1. PICK i \in ons : i <= k + 1 /\ \A j \in offs : i < j => k + 1 < j
    BY <1>2 DEF StaysOn
  <2>2. CASE i = 0
    <3>1. 0 \in ons2
      BY <2>1, <2>2
    <3>2. \A j \in offs2 : 0 < j => k < j
      BY <2>1, <2>2
    <3> QED
      BY <3>1, <3>2 DEF StaysOn
  <2>3. CASE i # 0
    <3>1. i - 1 \in Nat /\ i - 1 <= k /\ (i - 1) + 1 = i
      BY <2>1, <2>3
    <3>2. i - 1 \in ons2
      BY <2>1, <2>3, <3>1
    <3>3. \A j \in offs2 : i - 1 < j => k < j
      BY <2>1, <2>3
    <3> QED
      BY <3>1, <3>2, <3>3 DEF StaysOn
  <2> QED
    BY <2>2, <2>3
<1> QED
  BY <1>1, <1>2

LEMMA EventsAreNumbers ==
  ASSUME NEW disp, NEW s \in Seq(Messages), NEW b, NEW r
  PROVE  /\ AddsIn(disp, s, r) \in SUBSET Nat /\ DeletesIn(s, r) \in SUBSET (Nat \ {0})
         /\ NamesIn(disp, s, b, r) \in SUBSET Nat /\ CodesIn(s, b) \in SUBSET (Nat \ {0})
         /\ Len(s) \in Nat
<1>1. Len(s) \in Nat
  OBVIOUS
<1> QED
  BY <1>1 DEF AddsIn, DeletesIn, NamesIn, CodesIn

LEMMA AtStart ==
  ASSUME NEW disp, NEW s \in Seq(Messages), NEW b, NEW r
  PROVE  /\ HasIt(disp, s, r, 0) <=> r \in disp.held \ disp.dealloc
         /\ NamesIt(disp, s, b, r, 0) <=> disp.codes[b] # None /\ r \in disp.codes[b]
<1>1. 0 \in AddsIn(disp, s, r) <=> r \in disp.held \ disp.dealloc
  BY EventsAreNumbers DEF AddsIn
<1>2. 0 \in NamesIn(disp, s, b, r) <=> disp.codes[b] # None /\ r \in disp.codes[b]
  BY EventsAreNumbers DEF NamesIn
<1> QED
  BY <1>1, <1>2, OnAtStart, EventsAreNumbers DEF HasIt, NamesIt

\* What a message at the end of the stream does, and what came before keeps its place.
LEMMA Appended ==
  ASSUME NEW s \in Seq(Messages), NEW m \in Messages
  PROVE  /\ Append(s, m) \in Seq(Messages) /\ Len(Append(s, m)) = Len(s) + 1
         /\ Append(s, m)[Len(s) + 1] = m
         /\ \A i \in 1 .. Len(s) : Append(s, m)[i] = s[i]
OBVIOUS

LEMMA BeforeAppended ==
  ASSUME NEW disp, NEW s \in Seq(Messages), NEW m \in Messages, NEW b, NEW r,
         NEW k \in 0 .. Len(s)
  PROVE  /\ HasIt(disp, Append(s, m), r, k) <=> HasIt(disp, s, r, k)
         /\ NamesIt(disp, Append(s, m), b, r, k) <=> NamesIt(disp, s, b, r, k)
<1> DEFINE t == Append(s, m)
<1>1. t \in Seq(Messages) /\ Len(t) = Len(s) + 1 /\ Len(s) \in Nat /\ k \in Nat
  BY Appended
<1>2. \A i \in 1 .. Len(s) : t[i] = s[i]
  BY Appended
<1> HIDE DEF t
<1>3. \A i \in 0 .. k : /\ i \in AddsIn(disp, t, r) <=> i \in AddsIn(disp, s, r)
                        /\ i \in DeletesIn(t, r) <=> i \in DeletesIn(s, r)
  BY <1>1, <1>2 DEF AddsIn, DeletesIn
<1>4. \A i \in 0 .. k : /\ i \in NamesIn(disp, t, b, r) <=> i \in NamesIn(disp, s, b, r)
                        /\ i \in CodesIn(t, b) <=> i \in CodesIn(s, b)
  BY <1>1, <1>2 DEF NamesIn, CodesIn
<1>5. HasIt(disp, t, r, k) <=> HasIt(disp, s, r, k)
  BY <1>1, <1>3, EventsAreNumbers, OnSame DEF HasIt
<1>6. NamesIt(disp, t, b, r, k) <=> NamesIt(disp, s, b, r, k)
  BY <1>1, <1>4, EventsAreNumbers, OnSame DEF NamesIt
<1> QED
  BY <1>5, <1>6 DEF t

LEMMA AfterAppended ==
  ASSUME NEW disp, NEW s \in Seq(Messages), NEW m \in Messages, NEW b, NEW r
  PROVE  /\ HasIt(disp, Append(s, m), r, Len(s) + 1) <=>
              \/ m.type = "add" /\ r \in m.ids
              \/ HasIt(disp, s, r, Len(s)) /\ ~(m.type = "dealloc" /\ r \in m.ids)
         /\ NamesIt(disp, Append(s, m), b, r, Len(s) + 1) <=>
              \/ m.type = "codes" /\ m.buffer = b /\ r \in m.ids
              \/ NamesIt(disp, s, b, r, Len(s)) /\ ~(m.type = "codes" /\ m.buffer = b)
<1> DEFINE t == Append(s, m)
           n == Len(s)
<1>1. t \in Seq(Messages) /\ Len(t) = n + 1 /\ n \in Nat /\ n \in 0 .. Len(s)
  BY Appended
<1>2. t[n + 1] = m
  BY Appended
<1>3. /\ HasIt(disp, t, r, n) <=> HasIt(disp, s, r, n)
      /\ NamesIt(disp, t, b, r, n) <=> NamesIt(disp, s, b, r, n)
  BY <1>1, BeforeAppended
<1> HIDE DEF t, n
<1>4. /\ n + 1 \in AddsIn(disp, t, r) <=> m.type = "add" /\ r \in m.ids
      /\ n + 1 \in DeletesIn(t, r) <=> m.type = "dealloc" /\ r \in m.ids
  BY <1>1, <1>2 DEF AddsIn, DeletesIn
<1>5. /\ n + 1 \in NamesIn(disp, t, b, r) <=> m.type = "codes" /\ m.buffer = b /\ r \in m.ids
      /\ n + 1 \in CodesIn(t, b) <=> m.type = "codes" /\ m.buffer = b
  BY <1>1, <1>2 DEF NamesIn, CodesIn
<1>6. HasIt(disp, t, r, n + 1) <=>
        \/ m.type = "add" /\ r \in m.ids
        \/ HasIt(disp, s, r, n) /\ ~(m.type = "dealloc" /\ r \in m.ids)
  <2>1. AddsIn(disp, t, r) \in SUBSET Nat /\ DeletesIn(t, r) \in SUBSET Nat
    BY <1>1, EventsAreNumbers
  <2>2. StaysOn(AddsIn(disp, t, r), DeletesIn(t, r), n + 1) <=>
          \/ n + 1 \in AddsIn(disp, t, r)
          \/ StaysOn(AddsIn(disp, t, r), DeletesIn(t, r), n) /\ n + 1 \notin DeletesIn(t, r)
    BY <1>1, <2>1, OnNext
  <2> QED
    BY <1>3, <1>4, <2>2 DEF HasIt
<1>7. NamesIt(disp, t, b, r, n + 1) <=>
        \/ m.type = "codes" /\ m.buffer = b /\ r \in m.ids
        \/ NamesIt(disp, s, b, r, n) /\ ~(m.type = "codes" /\ m.buffer = b)
  <2>1. NamesIn(disp, t, b, r) \in SUBSET Nat /\ CodesIn(t, b) \in SUBSET Nat
    BY <1>1, EventsAreNumbers
  <2>2. StaysOn(NamesIn(disp, t, b, r), CodesIn(t, b), n + 1) <=>
          \/ n + 1 \in NamesIn(disp, t, b, r)
          \/ StaysOn(NamesIn(disp, t, b, r), CodesIn(t, b), n) /\ n + 1 \notin CodesIn(t, b)
    BY <1>1, <2>1, OnNext
  <2> QED
    BY <1>3, <1>5, <2>2 DEF NamesIt
<1> QED
  BY <1>6, <1>7 DEF t, n

\* The viewer does what the first message says: only the start of the stream moves.
LEMMA ReceivedHas ==
  ASSUME NEW disp, NEW after, NEW s \in Seq(Messages), s # <<>>, NEW r,
         r \in after.held \ after.dealloc <=>
           \/ s[1].type = "add" /\ r \in s[1].ids
           \/ r \in disp.held \ disp.dealloc /\ ~(s[1].type = "dealloc" /\ r \in s[1].ids),
         NEW k \in Nat
  PROVE  HasIt(after, Tail(s), r, k) <=> HasIt(disp, s, r, k + 1)
<1> DEFINE t == Tail(s)
<1>1. t \in Seq(Messages) /\ Len(s) = Len(t) + 1 /\ Len(t) \in Nat
  OBVIOUS
<1>2. \A i \in 1 .. Len(t) : t[i] = s[i + 1]
  OBVIOUS
<1> HIDE DEF t
<1>3. 0 \in AddsIn(after, t, r) <=>
        1 \in AddsIn(disp, s, r) \/ (0 \in AddsIn(disp, s, r) /\ 1 \notin DeletesIn(s, r))
  BY <1>1 DEF AddsIn, DeletesIn
<1>4. \A i \in Nat \ {0} : /\ i \in AddsIn(after, t, r) <=> i + 1 \in AddsIn(disp, s, r)
                           /\ i \in DeletesIn(t, r) <=> i + 1 \in DeletesIn(s, r)
  BY <1>1, <1>2 DEF AddsIn, DeletesIn
<1>5. HasIt(after, t, r, k) <=> HasIt(disp, s, r, k + 1)
  BY <1>1, <1>3, <1>4, EventsAreNumbers, OnShifted DEF HasIt
<1> QED
  BY <1>5 DEF t

LEMMA ReceivedNames ==
  ASSUME NEW disp, NEW after, NEW s \in Seq(Messages), s # <<>>, NEW b, NEW r,
         after.codes[b] # None /\ r \in after.codes[b] <=>
           \/ s[1].type = "codes" /\ s[1].buffer = b /\ r \in s[1].ids
           \/ disp.codes[b] # None /\ r \in disp.codes[b]
                /\ ~(s[1].type = "codes" /\ s[1].buffer = b),
         NEW k \in Nat
  PROVE  NamesIt(after, Tail(s), b, r, k) <=> NamesIt(disp, s, b, r, k + 1)
<1> DEFINE t == Tail(s)
<1>1. t \in Seq(Messages) /\ Len(s) = Len(t) + 1 /\ Len(t) \in Nat
  OBVIOUS
<1>2. \A i \in 1 .. Len(t) : t[i] = s[i + 1]
  OBVIOUS
<1> HIDE DEF t
<1>3. 0 \in NamesIn(after, t, b, r) <=>
        1 \in NamesIn(disp, s, b, r) \/ (0 \in NamesIn(disp, s, b, r) /\ 1 \notin CodesIn(s, b))
  BY <1>1 DEF NamesIn, CodesIn
<1>4. \A i \in Nat \ {0} : /\ i \in NamesIn(after, t, b, r) <=> i + 1 \in NamesIn(disp, s, b, r)
                           /\ i \in CodesIn(t, b) <=> i + 1 \in CodesIn(s, b)
  BY <1>1, <1>2 DEF NamesIn, CodesIn
<1>5. NamesIt(after, t, b, r, k) <=> NamesIt(disp, s, b, r, k + 1)
  BY <1>1, <1>3, <1>4, EventsAreNumbers, OnShifted DEF NamesIt
<1> QED
  BY <1>5 DEF t

\* What may be sent: to delete and to name what the display will have then.
MaySend(m, remote) == m.type \in {"dealloc", "codes"} => m.ids \subseteq remote

LEMMA ServedSending ==
  ASSUME NEW disp, NEW s \in Seq(Messages), NEW m \in Messages,
         NEW remote \in SUBSET RemoteResources,
         Served(disp, s), OnRecord(disp, s, remote), MaySend(m, remote),
         \A b \in RemoteBuffers :
           m.type = "dealloc" => NamedWithin(disp, s, b, remote \ m.ids)
  PROVE  Served(disp, Append(s, m))
<1> DEFINE t == Append(s, m)
           n == Len(s)
<1>1. t \in Seq(Messages) /\ Len(t) = n + 1 /\ n \in Nat /\ t[n + 1] = m
  BY Appended
<1>2. \A i \in 1 .. n : t[i] = s[i]
  BY Appended
<1>3. \A b \in RemoteBuffers, r \in RemoteResources, k \in 0 .. n :
        /\ HasIt(disp, t, r, k) <=> HasIt(disp, s, r, k)
        /\ NamesIt(disp, t, b, r, k) <=> NamesIt(disp, s, b, r, k)
  BY BeforeAppended
<1>4. \A b \in RemoteBuffers, r \in RemoteResources :
        /\ HasIt(disp, t, r, n + 1) <=>
             \/ m.type = "add" /\ r \in m.ids
             \/ HasIt(disp, s, r, n) /\ ~(m.type = "dealloc" /\ r \in m.ids)
        /\ NamesIt(disp, t, b, r, n + 1) <=>
             \/ m.type = "codes" /\ m.buffer = b /\ r \in m.ids
             \/ NamesIt(disp, s, b, r, n) /\ ~(m.type = "codes" /\ m.buffer = b)
  BY AfterAppended
<1>5. \A r \in RemoteResources : HasIt(disp, s, r, n) <=> r \in remote
  BY DEF OnRecord
<1>6. \A r \in RemoteResources, k \in 0 .. n : HasIt(disp, t, r, k) <=> HasIt(disp, s, r, k)
  <2>1. SUFFICES ASSUME NEW r \in RemoteResources, NEW k \in 0 .. n
                 PROVE  HasIt(disp, t, r, k) <=> HasIt(disp, s, r, k)
    OBVIOUS
  <2> QED
    BY BeforeAppended
<1> HIDE DEF t, n
<1>7. ASSUME NEW b \in RemoteBuffers, NEW r \in RemoteResources, NEW k \in 0 .. n + 1,
             NamesIt(disp, t, b, r, k)
      PROVE  HasIt(disp, t, r, k)
  <2>1. CASE k # n + 1
    <3>1. k \in 0 .. n
      BY <1>1, <2>1
    <3> QED
      BY <1>3, <1>7, <3>1 DEF Served, n
  <2>2. CASE k = n + 1 /\ m.type = "codes" /\ m.buffer = b /\ r \in m.ids
    <3>1. r \in remote
      BY <2>2 DEF MaySend
    <3> QED
      BY <1>4, <1>5, <2>2, <3>1
  <2>3. CASE k = n + 1 /\ NamesIt(disp, s, b, r, n)
    <3>1. HasIt(disp, s, r, n)
      BY <1>1, <2>3 DEF Served, n
    <3>2. m.type = "dealloc" => r \notin m.ids
      BY <2>3 DEF NamedWithin, n
    <3> QED
      BY <1>4, <2>3, <3>1, <3>2
  <2> QED
    BY <1>4, <1>7, <2>1, <2>2, <2>3
<1>8. ASSUME NEW k \in 1 .. n + 1, NEW r \in RemoteResources,
             t[k].type = "dealloc", r \in t[k].ids
      PROVE  HasIt(disp, t, r, k - 1)
  <2>1. k - 1 \in 0 .. n
    BY <1>1
  <2>2. CASE k # n + 1
    <3>1. k \in 1 .. n
      BY <1>1, <2>2
    <3>2. HasIt(disp, s, r, k - 1)
      BY <1>2, <1>8, <3>1 DEF Served, n
    <3> QED
      BY <1>6, <2>1, <3>2
  <2>3. CASE k = n + 1
    <3>1. r \in remote
      BY <1>1, <1>8, <2>3 DEF MaySend
    <3>2. k - 1 = n
      BY <1>1, <2>3
    <3> QED
      BY <1>5, <1>6, <2>1, <3>1, <3>2
  <2> QED
    BY <2>2, <2>3
<1>9. Len(t) = n + 1
  BY <1>1
<1>10. Served(disp, t)
  BY <1>7, <1>8, <1>9 DEF Served
<1> QED
  BY <1>10 DEF t

LEMMA OnRecordSending ==
  ASSUME NEW disp, NEW s \in Seq(Messages), NEW m \in Messages,
         NEW remote \in SUBSET RemoteResources, OnRecord(disp, s, remote)
  PROVE  /\ m.type = "add" => OnRecord(disp, Append(s, m), remote \cup m.ids)
         /\ m.type = "dealloc" => OnRecord(disp, Append(s, m), remote \ m.ids)
         /\ m.type = "codes" => OnRecord(disp, Append(s, m), remote)
<1>1. Len(Append(s, m)) = Len(s) + 1
  BY Appended
<1>2. \A r \in RemoteResources :
        HasIt(disp, Append(s, m), r, Len(s) + 1) <=>
          \/ m.type = "add" /\ r \in m.ids
          \/ HasIt(disp, s, r, Len(s)) /\ ~(m.type = "dealloc" /\ r \in m.ids)
  <2>1. SUFFICES ASSUME NEW r \in RemoteResources
                 PROVE  HasIt(disp, Append(s, m), r, Len(s) + 1) <=>
                          \/ m.type = "add" /\ r \in m.ids
                          \/ HasIt(disp, s, r, Len(s)) /\ ~(m.type = "dealloc" /\ r \in m.ids)
    OBVIOUS
  <2> QED
    BY AfterAppended
<1> QED
  BY <1>1, <1>2 DEF OnRecord

LEMMA NamedSending ==
  ASSUME NEW disp, NEW s \in Seq(Messages), NEW m \in Messages, NEW b \in RemoteBuffers,
         NEW set
  PROVE  /\ NamedWithin(disp, s, b, set) /\ ~(m.type = "codes" /\ m.buffer = b) =>
              NamedWithin(disp, Append(s, m), b, set)
         /\ m.type = "codes" /\ m.buffer = b /\ m.ids \subseteq set =>
              NamedWithin(disp, Append(s, m), b, set)
<1>1. Len(Append(s, m)) = Len(s) + 1
  BY Appended
<1>2. \A r \in RemoteResources :
        NamesIt(disp, Append(s, m), b, r, Len(s) + 1) <=>
             \/ m.type = "codes" /\ m.buffer = b /\ r \in m.ids
             \/ NamesIt(disp, s, b, r, Len(s)) /\ ~(m.type = "codes" /\ m.buffer = b)
  BY AfterAppended
<1> QED
  BY <1>1, <1>2 DEF NamedWithin

\* Two displays that start a stream with the same resources and codes fare alike.
LEMMA StartsAlike ==
  ASSUME NEW disp, NEW after, NEW s \in Seq(Messages),
         after.held \ after.dealloc = disp.held \ disp.dealloc, after.codes = disp.codes
  PROVE  /\ Served(disp, s) => Served(after, s)
         /\ \A remote : OnRecord(disp, s, remote) => OnRecord(after, s, remote)
         /\ \A b, set : NamedWithin(disp, s, b, set) => NamedWithin(after, s, b, set)
<1>1. \A r : AddsIn(after, s, r) = AddsIn(disp, s, r)
  BY DEF AddsIn
<1>2. \A b, r : NamesIn(after, s, b, r) = NamesIn(disp, s, b, r)
  BY DEF NamesIn
<1>3. \A r, k : HasIt(after, s, r, k) <=> HasIt(disp, s, r, k)
  BY <1>1 DEF HasIt
<1>4. \A b, r, k : NamesIt(after, s, b, r, k) <=> NamesIt(disp, s, b, r, k)
  BY <1>2 DEF NamesIt
<1> QED
  BY <1>3, <1>4 DEF Served, OnRecord, NamedWithin

\* What a received message makes of the display.
Follows(disp, after, m) ==
  /\ \A r \in RemoteResources :
       r \in after.held \ after.dealloc <=>
         \/ m.type = "add" /\ r \in m.ids
         \/ r \in disp.held \ disp.dealloc /\ ~(m.type = "dealloc" /\ r \in m.ids)
  /\ \A b \in RemoteBuffers, r \in RemoteResources :
       after.codes[b] # None /\ r \in after.codes[b] <=>
         \/ m.type = "codes" /\ m.buffer = b /\ r \in m.ids
         \/ disp.codes[b] # None /\ r \in disp.codes[b] /\ ~(m.type = "codes" /\ m.buffer = b)

LEMMA ServedReceiving ==
  ASSUME NEW disp, NEW after, NEW s \in Seq(Messages), s # <<>>, Follows(disp, after, s[1])
  PROVE  /\ Served(disp, s) => Served(after, Tail(s))
         /\ \A remote : OnRecord(disp, s, remote) => OnRecord(after, Tail(s), remote)
         /\ \A b \in RemoteBuffers : \A set :
              NamedWithin(disp, s, b, set) => NamedWithin(after, Tail(s), b, set)
<1> DEFINE t == Tail(s)
<1>1. t \in Seq(Messages) /\ Len(s) = Len(t) + 1 /\ Len(t) \in Nat
  OBVIOUS
<1>2. \A i \in 1 .. Len(t) : t[i] = s[i + 1]
  OBVIOUS
<1>3. ASSUME NEW r \in RemoteResources, NEW k \in Nat
      PROVE  HasIt(after, t, r, k) <=> HasIt(disp, s, r, k + 1)
  BY ReceivedHas DEF Follows
<1>4. ASSUME NEW b \in RemoteBuffers, NEW r \in RemoteResources, NEW k \in Nat
      PROVE  NamesIt(after, t, b, r, k) <=> NamesIt(disp, s, b, r, k + 1)
  BY ReceivedNames DEF Follows
<1> HIDE DEF t
<1>5. ASSUME Served(disp, s) PROVE Served(after, t)
  <2>1. ASSUME NEW b \in RemoteBuffers, NEW r \in RemoteResources, NEW k \in 0 .. Len(t),
               NamesIt(after, t, b, r, k)
        PROVE  HasIt(after, t, r, k)
    <3>1. k \in Nat /\ k + 1 \in 0 .. Len(s)
      BY <1>1
    <3>2. NamesIt(disp, s, b, r, k + 1)
      BY <1>4, <2>1, <3>1
    <3>3. HasIt(disp, s, r, k + 1)
      BY <1>5, <3>1, <3>2 DEF Served
    <3> QED
      BY <1>3, <3>1, <3>3
  <2>2. ASSUME NEW k \in 1 .. Len(t), NEW r \in RemoteResources,
               t[k].type = "dealloc", r \in t[k].ids
        PROVE  HasIt(after, t, r, k - 1)
    <3>1. k + 1 \in 1 .. Len(s) /\ k - 1 \in Nat /\ (k - 1) + 1 = (k + 1) - 1
      BY <1>1
    <3>2. s[k + 1].type = "dealloc" /\ r \in s[k + 1].ids
      BY <1>2, <2>2
    <3>3. HasIt(disp, s, r, (k + 1) - 1)
      BY <1>5, <3>1, <3>2 DEF Served
    <3> QED
      BY <1>3, <3>1, <3>3
  <2> QED
    BY <2>1, <2>2 DEF Served
<1>6. ASSUME NEW remote, OnRecord(disp, s, remote) PROVE OnRecord(after, t, remote)
  BY <1>1, <1>3, <1>6 DEF OnRecord
<1>7. ASSUME NEW b \in RemoteBuffers, NEW set, NamedWithin(disp, s, b, set)
      PROVE  NamedWithin(after, t, b, set)
  BY <1>1, <1>4, <1>7 DEF NamedWithin
<1> QED
  BY <1>5, <1>6, <1>7 DEF t

\* A record changed in several fields at a time.
LEMMA SeveralChanged ==
  ASSUME NEW disp \in Screen, NEW claims, NEW remote, NEW held, NEW dealloc
  PROVE  /\ [disp EXCEPT !.claims = claims, !.remote = remote, !.dealloc = dealloc] =
              [[[disp EXCEPT !.claims = claims] EXCEPT !.remote = remote]
                 EXCEPT !.dealloc = dealloc]
         /\ [disp EXCEPT !.remote = remote, !.held = held, !.dealloc = dealloc] =
              [[[disp EXCEPT !.remote = remote] EXCEPT !.held = held] EXCEPT !.dealloc = dealloc]
         /\ [disp EXCEPT !.held = held, !.dealloc = dealloc] =
              [[disp EXCEPT !.held = held] EXCEPT !.dealloc = dealloc]
OBVIOUS

LEMMA OneChanged ==
  ASSUME NEW disp \in Screen
  PROVE  /\ \A claims \in [RemoteBuffers -> SUBSET RemoteResources] :
              LET after == [disp EXCEPT !.claims = claims] IN
              /\ after \in Screen /\ after.claims = claims /\ after.remote = disp.remote
              /\ after.held = disp.held /\ after.dealloc = disp.dealloc
              /\ after.codes = disp.codes
         /\ \A remote \in SUBSET RemoteResources :
              LET after == [disp EXCEPT !.remote = remote] IN
              /\ after \in Screen /\ after.claims = disp.claims /\ after.remote = remote
              /\ after.held = disp.held /\ after.dealloc = disp.dealloc
              /\ after.codes = disp.codes
         /\ \A held \in SUBSET RemoteResources :
              LET after == [disp EXCEPT !.held = held] IN
              /\ after \in Screen /\ after.claims = disp.claims /\ after.remote = disp.remote
              /\ after.held = held /\ after.dealloc = disp.dealloc
              /\ after.codes = disp.codes
         /\ \A dealloc \in SUBSET RemoteResources :
              LET after == [disp EXCEPT !.dealloc = dealloc] IN
              /\ after \in Screen /\ after.claims = disp.claims /\ after.remote = disp.remote
              /\ after.held = disp.held /\ after.dealloc = dealloc
              /\ after.codes = disp.codes
         /\ \A shows \in [RemoteBuffers -> {None} \cup SUBSET RemoteResources] :
              LET after == [disp EXCEPT !.codes = shows] IN
              /\ after \in Screen /\ after.claims = disp.claims /\ after.remote = disp.remote
              /\ after.held = disp.held /\ after.dealloc = disp.dealloc
              /\ after.codes = shows
BY DEF Screen

\* The claim of a buffer is replaced: what is no longer claimed goes off the record.
LEMMA ClaimSent ==
  ASSUME RemoteTypes, NEW b \in RemoteBuffers, NEW claim \in SUBSET RemoteResources,
         Remote!SendClaim(b, claim)
  PROVE  \E unused \in SUBSET RemoteResources :
           /\ unused = server.claims[b] \ UNION {server'.claims[c] : c \in RemoteBuffers}
           /\ server' \in Screen
           /\ server'.claims = [server.claims EXCEPT ![b] = claim]
           /\ server'.remote = server.remote \ unused
           /\ message' = [message EXCEPT ![b] = Remote!Dealloc(unused)]
<1> DEFINE claims == [server.claims EXCEPT ![b] = claim]
           unused == server.claims[b] \ Remote!Claimed(claims)
           cleared == [server EXCEPT !.dealloc = {}]
           after == Remote!BufferResources(cleared, b, claim)
<1>1. server \in Screen /\ server.claims \in [RemoteBuffers -> SUBSET RemoteResources]
  BY DEF RemoteTypes, Screen
<1>2. claims \in [RemoteBuffers -> SUBSET RemoteResources]
  BY <1>1
<1>3. unused \in SUBSET RemoteResources
  BY <1>1
<1>4. /\ cleared \in Screen /\ cleared.claims = server.claims
      /\ cleared.remote = server.remote /\ cleared.dealloc = {}
  BY <1>1, OneChanged
<1>5. after = [cleared EXCEPT !.claims = claims, !.remote = server.remote \ unused,
                              !.dealloc = {} \cup unused]
  BY <1>4 DEF Remote!BufferResources
<1>6. server' = [after EXCEPT !.dealloc = {}]
      /\ message' = [message EXCEPT ![b] = Remote!Dealloc(after.dealloc)]
  BY DEF Remote!SendClaim
<1>7. server.remote \ unused \in SUBSET RemoteResources /\ {} \cup unused = unused
  BY <1>1 DEF Screen
<1>8. Remote!Claimed(claims) = UNION {claims[c] : c \in RemoteBuffers}
  BY DEF Remote!Claimed
<1> HIDE DEF cleared, claims, unused, after
<1>9. PICK first : first = [cleared EXCEPT !.claims = claims]
  OBVIOUS
<1>10. PICK second : second = [first EXCEPT !.remote = server.remote \ unused]
  OBVIOUS
<1>11. after = [second EXCEPT !.dealloc = unused]
  BY <1>4, <1>5, <1>7, <1>9, <1>10, SeveralChanged
<1>12. first \in Screen /\ first.claims = claims
  BY <1>2, <1>4, <1>9, OneChanged
<1>13. second \in Screen /\ second.claims = claims /\ second.remote = server.remote \ unused
  BY <1>7, <1>10, <1>12, OneChanged
<1>14. /\ after \in Screen /\ after.claims = claims /\ after.remote = server.remote \ unused
       /\ after.dealloc = unused
  BY <1>3, <1>11, <1>13, OneChanged
<1>15. /\ server' \in Screen /\ server'.claims = claims
       /\ server'.remote = server.remote \ unused
  BY <1>6, <1>14, OneChanged
<1>16. unused = server.claims[b] \ UNION {server'.claims[c] : c \in RemoteBuffers}
  BY <1>8, <1>15 DEF unused
<1> QED
  BY <1>3, <1>6, <1>14, <1>15, <1>16 DEF claims

\* What is to be sent goes on the record.
LEMMA ResourcesSent ==
  ASSUME RemoteTypes, NEW b \in RemoteBuffers, NEW set \in SUBSET RemoteResources,
         server' = [Remote!AddResources([server EXCEPT !.held = {}], set) EXCEPT !.held = {}]
  PROVE  /\ server' \in Screen /\ server'.claims = server.claims
         /\ server'.remote = server.remote \cup set
         /\ Remote!AddResources([server EXCEPT !.held = {}], set).held = set \ server.remote
<1> DEFINE cleared == [server EXCEPT !.held = {}]
           after == Remote!AddResources(cleared, set)
           sending == set \ server.remote
<1>1. server \in Screen /\ server.remote \in SUBSET RemoteResources
        /\ server.dealloc \in SUBSET RemoteResources
  BY DEF RemoteTypes, Screen
<1>2. /\ cleared \in Screen /\ cleared.claims = server.claims
      /\ cleared.remote = server.remote /\ cleared.held = {} /\ cleared.dealloc = server.dealloc
  BY <1>1, OneChanged
<1>3. after = [cleared EXCEPT !.remote = server.remote \cup sending,
                              !.held = {} \cup sending, !.dealloc = server.dealloc \ sending]
  BY <1>2 DEF Remote!AddResources, after
<1>4. /\ server.remote \cup sending \in SUBSET RemoteResources
      /\ sending \in SUBSET RemoteResources /\ {} \cup sending = sending
      /\ server.dealloc \ sending \in SUBSET RemoteResources
      /\ server.remote \cup sending = server.remote \cup set
  BY <1>1
<1> PICK kept \in SUBSET RemoteResources : kept = server.dealloc \ sending
  BY <1>4
<1> HIDE DEF cleared, sending, after
<1>5. PICK first : first = [cleared EXCEPT !.remote = server.remote \cup sending]
  OBVIOUS
<1>6. PICK second : second = [first EXCEPT !.held = sending]
  OBVIOUS
<1>7. after = [second EXCEPT !.dealloc = kept]
  BY <1>2, <1>3, <1>4, <1>5, <1>6, SeveralChanged
<1>8. /\ first \in Screen /\ first.claims = server.claims
      /\ first.remote = server.remote \cup sending
  BY <1>2, <1>4, <1>5, OneChanged
<1>9. /\ second \in Screen /\ second.claims = server.claims
      /\ second.remote = server.remote \cup sending /\ second.held = sending
  BY <1>4, <1>6, <1>8, OneChanged
<1>10. /\ after \in Screen /\ after.claims = server.claims
       /\ after.remote = server.remote \cup sending /\ after.held = sending
  BY <1>7, <1>9, OneChanged
<1>11. server' = [after EXCEPT !.held = {}]
  BY DEF after, cleared
<1> PICK none \in SUBSET RemoteResources : none = {}
  OBVIOUS
<1>12. /\ server' \in Screen /\ server'.claims = server.claims
       /\ server'.remote = server.remote \cup sending
  <2>1. \A s \in Screen :
          LET final == [s EXCEPT !.held = none] IN
          final \in Screen /\ final.claims = s.claims /\ final.remote = s.remote
    BY OneChanged
  <2>2. server' = [after EXCEPT !.held = none]
    BY <1>11
  <2> QED
    BY <1>10, <2>1, <2>2
<1> QED
  BY <1>4, <1>10, <1>12 DEF sending, after, cleared

\* A message the viewer gets: it never deletes what it does not hold.
LEMMA MessageApplied ==
  ASSUME RemoteFits, NEW disp \in Screen, NEW m \in Messages,
         disp.dealloc \subseteq disp.held,
         m.type = "dealloc" => m.ids \subseteq disp.held
  PROVE  /\ Remote!Apply(disp, m) \in Screen
         /\ Follows(disp, Remote!Apply(disp, m), m)
         /\ Remote!Apply(disp, m).dealloc \subseteq Remote!Apply(disp, m).held
<1> DEFINE after == Remote!Apply(disp, m)
<1>1. /\ disp.held \in SUBSET RemoteResources /\ disp.dealloc \in SUBSET RemoteResources
      /\ disp.codes \in [RemoteBuffers -> {None} \cup SUBSET RemoteResources]
  BY DEF Screen
<1>2. CASE m \in ToDelete
  <2>1. m.type = "dealloc" /\ m.ids \in SUBSET RemoteResources
    BY <1>2 DEF ToDelete
  <2>2. after = [disp EXCEPT !.dealloc = disp.dealloc \cup m.ids]
    BY <2>1 DEF Remote!Apply
  <2>3. disp.dealloc \cup m.ids \in SUBSET RemoteResources
    BY <1>1, <2>1
  <2> HIDE DEF after
  <2>4. /\ after \in Screen /\ after.held = disp.held /\ after.codes = disp.codes
        /\ after.dealloc = disp.dealloc \cup m.ids
    BY <2>2, <2>3, OneChanged
  <2>5. Follows(disp, after, m)
    BY <2>1, <2>4 DEF Follows
  <2> QED
    BY <2>1, <2>4, <2>5 DEF after
<1>3. CASE m \in ToAdd
  <2>1. m.type = "add" /\ m.ids \in SUBSET RemoteResources
    BY <1>3 DEF ToAdd
  <2>2. after = [disp EXCEPT !.held = disp.held \cup m.ids, !.dealloc = disp.dealloc \ m.ids]
    BY <2>1 DEF Remote!Apply
  <2>3. disp.held \cup m.ids \in SUBSET RemoteResources
        /\ disp.dealloc \ m.ids \in SUBSET RemoteResources
    BY <1>1, <2>1
  <2> HIDE DEF after
  <2>4. PICK first : first = [disp EXCEPT !.held = disp.held \cup m.ids]
    OBVIOUS
  <2>5. after = [first EXCEPT !.dealloc = disp.dealloc \ m.ids]
    BY <2>2, <2>4, SeveralChanged
  <2>6. first \in Screen /\ first.held = disp.held \cup m.ids /\ first.codes = disp.codes
    BY <2>3, <2>4, OneChanged
  <2>7. /\ after \in Screen /\ after.held = disp.held \cup m.ids /\ after.codes = disp.codes
        /\ after.dealloc = disp.dealloc \ m.ids
    BY <2>3, <2>5, <2>6, OneChanged
  <2>8. Follows(disp, after, m)
    BY <2>1, <2>7 DEF Follows
  <2> QED
    BY <2>7, <2>8 DEF after
<1>4. CASE m \in ToShow
  <2>1. m.type = "codes" /\ m.buffer \in RemoteBuffers /\ m.ids \in SUBSET RemoteResources
    BY <1>4 DEF ToShow
  <2>2. after = [disp EXCEPT !.codes[m.buffer] = m.ids]
    BY <2>1 DEF Remote!Apply, Remote!SetRenderCodes
  <2>3. after = [disp EXCEPT !.codes = [disp.codes EXCEPT ![m.buffer] = m.ids]]
    BY <2>2 DEF Screen
  <2>4. [disp.codes EXCEPT ![m.buffer] = m.ids]
          \in [RemoteBuffers -> {None} \cup SUBSET RemoteResources]
    BY <1>1, <2>1
  <2> HIDE DEF after
  <2>5. /\ after \in Screen /\ after.held = disp.held /\ after.dealloc = disp.dealloc
        /\ after.codes = [disp.codes EXCEPT ![m.buffer] = m.ids]
    BY <2>3, <2>4, OneChanged
  <2>6. m.ids # None
    BY <2>1 DEF RemoteFits
  <2>7. \A b \in RemoteBuffers :
          after.codes[b] = IF b = m.buffer THEN m.ids ELSE disp.codes[b]
    BY <1>1, <2>1, <2>5
  <2>8. Follows(disp, after, m)
    BY <2>1, <2>5, <2>6, <2>7 DEF Follows
  <2> QED
    BY <2>5, <2>8 DEF after
<1> QED
  BY <1>2, <1>3, <1>4 DEF Messages

-----------------------------------------------------------------------------
LEMMA MessagesDiffer == Remote!NoMessage \notin Messages
BY DEF Remote!NoMessage, Messages, ToDelete, ToAdd, ToShow

LEMMA InFlightIsSent ==
  ASSUME RemoteFits, RemoteTypes, \A b \in RemoteBuffers : Progress(b)
  PROVE  /\ InFlight \in Seq(Messages)
         /\ mutex = None => InFlight = wire
         /\ InFlight = wire \/ \E m \in Messages : InFlight = Append(wire, m)
<1>1. CASE mutex = None \/ message[mutex] = Remote!NoMessage
  BY <1>1 DEF InFlight, RemoteTypes
<1>2. CASE mutex # None /\ message[mutex] # Remote!NoMessage
  <2>1. mutex \in RemoteBuffers
    BY <1>2 DEF RemoteTypes
  <2>2. message[mutex] # None
    BY <2>1 DEF Progress
  <2>3. message[mutex] \in Messages
    BY <1>2, <2>1, <2>2 DEF RemoteTypes
  <2>4. InFlight = Append(wire, message[mutex])
    BY <1>2 DEF InFlight
  <2> QED
    BY <1>2, <2>3, <2>4 DEF RemoteTypes
<1> QED
  BY <1>1, <1>2

LEMMA RemoteStart == RemoteFits /\ Remote!Init => RemoteInv
<1> SUFFICES ASSUME RemoteFits, Remote!Init PROVE RemoteInv
  OBVIOUS
<1> USE DEF Remote!Init
<1>1. Remote!EmptyDisplay \in Screen
  BY DEF Remote!EmptyDisplay, Screen
<1>2. RemoteTypes
  BY <1>1 DEF RemoteTypes
<1>3. /\ viewer.dealloc = {} /\ viewer.held = {} /\ server.remote = {}
      /\ \A b \in RemoteBuffers : viewer.codes[b] = None /\ server.claims[b] = {}
  BY DEF Remote!EmptyDisplay
<1>4. InFlight = <<>> /\ Len(InFlight) = 0 /\ InFlight \in Seq(Messages)
  BY DEF InFlight
<1>5. ASSUME NEW b \in RemoteBuffers, NEW r PROVE ~NamesIt(viewer, InFlight, b, r, 0)
  BY <1>3, <1>4, AtStart
<1>6. ASSUME NEW r PROVE ~HasIt(viewer, InFlight, r, 0)
  BY <1>3, <1>4, AtStart
<1>7. Served(viewer, InFlight)
  BY <1>4, <1>5 DEF Served
<1>8. OnRecord(viewer, InFlight, server.remote)
  BY <1>3, <1>4, <1>6 DEF OnRecord
<1>9. \A b \in RemoteBuffers : \A set : NamedWithin(viewer, InFlight, b, set)
  BY <1>4, <1>5 DEF NamedWithin
<1>10. \A b \in RemoteBuffers : Progress(b)
  BY <1>3, <1>9 DEF Progress, RemoteFits
<1> QED
  BY <1>2, <1>3, <1>7, <1>8, <1>10 DEF RemoteInv

LEMMA FrameBegins ==
  ASSUME RemoteFits, RemoteInv, NEW b \in RemoteBuffers, NEW frame \in RemoteFrames[b],
         Remote!BeginFrame(b, frame)
  PROVE  RemoteInv'
<1> USE DEF Remote!BeginFrame
<1>1. frame \in SUBSET RemoteResources
  BY DEF RemoteFits
<1>2. /\ pc[b] = "idle" /\ pc' = [pc EXCEPT ![b] = "claim"]
      /\ front' = [front EXCEPT ![b] = frame] /\ frontResc' = frontResc
      /\ server' = server /\ viewer' = viewer /\ wire' = wire /\ mutex' = mutex
      /\ message' = message
  OBVIOUS
<1>3. RemoteTypes'
  BY <1>1, <1>2 DEF RemoteInv, RemoteTypes
<1>4. InFlight' = InFlight
  BY <1>2 DEF InFlight
<1>5. ASSUME NEW c \in RemoteBuffers PROVE Progress(c)'
  <2>1. Progress(c)
    BY DEF RemoteInv
  <2>2. CASE c = b
    <3>1. pc'[c] = "claim" /\ mutex # c
      BY <1>2, <2>1, <2>2 DEF RemoteInv, RemoteTypes, Progress
    <3> QED
      BY <1>2, <1>4, <2>1, <2>2, <3>1 DEF Progress
  <2>3. CASE c # b
    <3>1. pc'[c] = pc[c] /\ front'[c] = front[c]
      BY <1>2, <2>3
    <3> QED
      BY <1>2, <1>4, <2>1, <3>1 DEF Progress
  <2> QED
    BY <2>2, <2>3
<1> QED
  BY <1>2, <1>3, <1>4, <1>5 DEF RemoteInv

LEMMA MessageWritten ==
  ASSUME RemoteFits, RemoteInv, NEW b \in RemoteBuffers, Remote!Write(b)
  PROVE  RemoteInv'
<1>1. /\ message[b] # None
      /\ \/ message[b] = Remote!NoMessage /\ wire' = wire
         \/ message[b] # Remote!NoMessage /\ wire' = Append(wire, message[b])
      /\ message' = [message EXCEPT ![b] = None] /\ mutex' = None
      /\ server' = server /\ viewer' = viewer /\ front' = front
      /\ frontResc' = IF pc[b] = "release" THEN [frontResc EXCEPT ![b] = front[b]]
                      ELSE frontResc
  BY DEF Remote!Write
<1>2. pc' = [pc EXCEPT ![b] = CASE pc[b] = "claim" -> "resources"
                                [] pc[b] = "resources" -> "codes"
                                [] pc[b] = "codes" -> "release"
                                [] pc[b] = "release" -> "idle"]
  BY DEF Remote!Write
<1>3. RemoteTypes /\ \A c \in RemoteBuffers : Progress(c)
  BY DEF RemoteInv
<1>4. mutex = b /\ pc[b] \in {"claim", "resources", "codes", "release"} /\ b # None
  BY <1>1, <1>3 DEF Progress, RemoteTypes, RemoteFits
<1>5. InFlight' = InFlight
  BY <1>1, <1>4 DEF InFlight
<1>6. RemoteTypes'
  <2>1. message[b] = Remote!NoMessage \/ message[b] \in Messages
    BY <1>1, <1>3 DEF RemoteTypes
  <2>2. wire' \in Seq(Messages)
    BY <1>1, <1>3, <2>1 DEF RemoteTypes
  <2>3. message' \in [RemoteBuffers -> Messages \cup {Remote!NoMessage, None}]
    BY <1>1, <1>3 DEF RemoteTypes
  <2>4. pc' \in [RemoteBuffers -> {"idle", "claim", "resources", "codes", "release"}]
    BY <1>2, <1>3, <1>4 DEF RemoteTypes
  <2>5. frontResc' \in [RemoteBuffers -> SUBSET RemoteResources]
    BY <1>1, <1>3 DEF RemoteTypes
  <2> QED
    BY <1>1, <1>3, <2>2, <2>3, <2>4, <2>5 DEF RemoteTypes
<1>7. ASSUME NEW c \in RemoteBuffers PROVE Progress(c)'
  <2>1. Progress(c) /\ c # None
    BY <1>3 DEF RemoteFits
  <2>2. CASE c # b
    <3>1. /\ pc'[c] = pc[c] /\ frontResc'[c] = frontResc[c] /\ message'[c] = message[c]
          /\ mutex # c /\ mutex' # c
      BY <1>1, <1>2, <1>3, <1>4, <2>1, <2>2 DEF RemoteTypes
    <3> QED
      BY <1>1, <1>5, <2>1, <3>1 DEF Progress
  <2>3. CASE c = b
    <3>1. message'[c] = None /\ mutex' # c
      BY <1>1, <1>3, <2>1, <2>3 DEF RemoteTypes
    <3>2. CASE pc[b] = "claim"
      <4>1. pc'[c] = "resources" /\ frontResc' = frontResc
        BY <1>1, <1>2, <1>3, <2>3, <3>2 DEF RemoteTypes
      <4> QED
        BY <1>1, <1>4, <1>5, <2>1, <2>3, <3>1, <3>2, <4>1 DEF Progress
    <3>3. CASE pc[b] = "resources"
      <4>1. pc'[c] = "codes" /\ frontResc' = frontResc
        BY <1>1, <1>2, <1>3, <2>3, <3>3 DEF RemoteTypes
      <4> QED
        BY <1>1, <1>4, <1>5, <2>1, <2>3, <3>1, <3>3, <4>1 DEF Progress
    <3>4. CASE pc[b] = "codes"
      <4>1. pc'[c] = "release" /\ frontResc' = frontResc
        BY <1>1, <1>2, <1>3, <2>3, <3>4 DEF RemoteTypes
      <4> QED
        BY <1>1, <1>4, <1>5, <2>1, <2>3, <3>1, <3>4, <4>1 DEF Progress
    <3>5. CASE pc[b] = "release"
      <4>1. pc'[c] = "idle" /\ frontResc'[c] = front[c]
        BY <1>1, <1>2, <1>3, <2>3, <3>5 DEF RemoteTypes
      <4> QED
        BY <1>1, <1>4, <1>5, <2>1, <2>3, <3>1, <3>5, <4>1 DEF Progress
    <3> QED
      BY <1>4, <3>2, <3>3, <3>4, <3>5
  <2> QED
    BY <2>2, <2>3
<1> QED
  BY <1>1, <1>5, <1>6, <1>7 DEF RemoteInv

\* A call of the display: its message joins what is in flight.
LEMMA CallBegins ==
  ASSUME RemoteFits, RemoteInv, NEW b \in RemoteBuffers, mutex = None, mutex' = b,
         NEW m \in Messages \cup {Remote!NoMessage}, message' = [message EXCEPT ![b] = m],
         wire' = wire
  PROVE  /\ InFlight = wire /\ InFlight \in Seq(Messages)
         /\ m = Remote!NoMessage => InFlight' = InFlight
         /\ m # Remote!NoMessage => m \in Messages /\ InFlight' = Append(InFlight, m)
         /\ message' \in [RemoteBuffers -> Messages \cup {Remote!NoMessage, None}]
         /\ \A c \in RemoteBuffers : message'[c] # None <=> mutex' = c
         /\ b # None
<1>1. message \in [RemoteBuffers -> Messages \cup {Remote!NoMessage, None}] /\ b # None
        /\ wire \in Seq(Messages)
  BY DEF RemoteInv, RemoteTypes, RemoteFits
<1>2. InFlight = wire
  BY DEF InFlight
<1>3. message'[b] = m /\ m # None
  <2>1. m # None
    BY DEF RemoteFits
  <2>2. message'[b] = m
    BY <1>1
  <2> QED
    BY <2>1, <2>2
<1>4. InFlight' = IF m = Remote!NoMessage THEN wire ELSE Append(wire, m)
  BY <1>1, <1>3 DEF InFlight
<1>5. \A c \in RemoteBuffers : message[c] = None
  BY <1>1 DEF RemoteInv, Progress, RemoteFits
<1>6. \A c \in RemoteBuffers : message'[c] # None <=> mutex' = c
  BY <1>1, <1>3, <1>5
<1> QED
  BY <1>1, <1>2, <1>4, <1>6

LEMMA ClaimCalled ==
  ASSUME RemoteFits, RemoteInv, NEW b \in RemoteBuffers, mutex = None, mutex' = b,
         pc[b] = "claim", Remote!SendClaim(b, frontResc[b] \cup front[b]),
         UNCHANGED <<wire, viewer, pc, front, frontResc>>
  PROVE  RemoteInv'
<1> DEFINE claim == frontResc[b] \cup front[b]
<1>1. RemoteTypes /\ \A c \in RemoteBuffers : Progress(c)
  BY DEF RemoteInv
<1>2. claim \in SUBSET RemoteResources /\ server.claims[b] = frontResc[b]
  BY <1>1 DEF RemoteTypes, Progress, RemoteFits
<1> SUFFICES ASSUME Remote!SendClaim(b, claim) PROVE RemoteInv'
  OBVIOUS
<1> HIDE DEF claim
<1>3. PICK unused \in SUBSET RemoteResources :
        /\ unused = server.claims[b] \ UNION {server'.claims[c] : c \in RemoteBuffers}
        /\ server' \in Screen
        /\ server'.claims = [server.claims EXCEPT ![b] = claim]
        /\ server'.remote = server.remote \ unused
        /\ message' = [message EXCEPT ![b] = Remote!Dealloc(unused)]
  BY <1>1, <1>2, ClaimSent
<1>4. server'.claims[b] = claim
      /\ \A c \in RemoteBuffers \ {b} : server'.claims[c] = server.claims[c]
  BY <1>1, <1>3 DEF RemoteTypes, Screen
<1>5. unused = {}
  BY <1>2, <1>3, <1>4 DEF claim
<1>6. server'.remote = server.remote
      /\ message' = [message EXCEPT ![b] = Remote!NoMessage]
  BY <1>3, <1>5 DEF Remote!Dealloc
<1>7. /\ InFlight' = InFlight /\ \A c \in RemoteBuffers : message'[c] # None <=> mutex' = c
      /\ message' \in [RemoteBuffers -> Messages \cup {Remote!NoMessage, None}]
      /\ b # None
  BY <1>6, CallBegins
<1>8. RemoteTypes'
  BY <1>1, <1>3, <1>7 DEF RemoteTypes
<1>9. ASSUME NEW c \in RemoteBuffers PROVE Progress(c)'
  <2>1. Progress(c) /\ NamedWithin(viewer, InFlight, c, server.claims[c])
    BY <1>1 DEF Progress
  <2>2. CASE c # b
    BY <1>4, <1>6, <1>7, <2>1, <2>2 DEF Progress, RemoteFits
  <2>3. CASE c = b
    <3>1. NamedWithin(viewer, InFlight, c, claim)
      BY <1>2, <2>1, <2>3 DEF NamedWithin, claim
    <3> QED
      BY <1>4, <1>7, <2>3, <3>1 DEF Progress, claim
  <2> QED
    BY <2>2, <2>3
<1> QED
  BY <1>6, <1>7, <1>8, <1>9 DEF RemoteInv

LEMMA ResourcesCalled ==
  ASSUME RemoteFits, RemoteInv, NEW b \in RemoteBuffers, mutex = None, mutex' = b,
         pc[b] = "resources",
         LET after == Remote!AddResources([server EXCEPT !.held = {}], frontResc[b] \cup front[b])
         IN /\ server' = [after EXCEPT !.held = {}]
            /\ message' = [message EXCEPT ![b] = Remote!Add(after.held)],
         UNCHANGED <<wire, viewer, pc, front, frontResc>>
  PROVE  RemoteInv'
<1> DEFINE set == frontResc[b] \cup front[b]
           m == Remote!Add(set \ server.remote)
<1>1. RemoteTypes /\ \A c \in RemoteBuffers : Progress(c)
  BY DEF RemoteInv
<1>2. set \in SUBSET RemoteResources /\ server.claims[b] = set
  BY <1>1 DEF RemoteTypes, Progress, RemoteFits
<1>3. /\ server' \in Screen /\ server'.claims = server.claims
      /\ server'.remote = server.remote \cup set
      /\ message' = [message EXCEPT ![b] = m]
  BY <1>1, <1>2, ResourcesSent
<1>4. /\ m \in Messages /\ m.type = "add" /\ m.ids = set \ server.remote
      /\ m # Remote!NoMessage
  BY <1>2 DEF Remote!Add, Remote!NoMessage, Messages, ToAdd
<1>5. /\ InFlight \in Seq(Messages) /\ InFlight' = Append(InFlight, m)
      /\ \A c \in RemoteBuffers : message'[c] # None <=> mutex' = c
      /\ message' \in [RemoteBuffers -> Messages \cup {Remote!NoMessage, None}]
      /\ b # None
  <2> HIDE DEF m
  <2> QED
    BY <1>3, <1>4, CallBegins
<1>6. RemoteTypes'
  BY <1>1, <1>3, <1>5 DEF RemoteTypes
<1>7. server.remote \in SUBSET RemoteResources
  BY <1>1 DEF RemoteTypes, Screen
<1> HIDE DEF m
<1>8. Served(viewer, Append(InFlight, m))
  BY <1>4, <1>5, <1>7, ServedSending DEF RemoteInv, MaySend
<1>9. OnRecord(viewer, Append(InFlight, m), server'.remote)
  <2>1. OnRecord(viewer, Append(InFlight, m), server.remote \cup m.ids)
    BY <1>4, <1>5, <1>7, OnRecordSending DEF RemoteInv
  <2>2. server.remote \cup m.ids = server'.remote
    BY <1>3, <1>4
  <2> QED
    BY <2>1, <2>2
<1>10. \A c \in RemoteBuffers : \A s : NamedWithin(viewer, InFlight, c, s) =>
          NamedWithin(viewer, Append(InFlight, m), c, s)
  BY <1>4, <1>5, NamedSending
<1>11. ASSUME NEW c \in RemoteBuffers PROVE Progress(c)'
  <2>1. Progress(c)
    BY <1>1
  <2>2. CASE c # b
    BY <1>3, <1>5, <1>10, <2>1, <2>2 DEF Progress, RemoteFits
  <2>3. CASE c = b
    BY <1>2, <1>3, <1>5, <1>10, <2>1, <2>3 DEF Progress
  <2> QED
    BY <2>2, <2>3
<1> QED
  BY <1>5, <1>6, <1>8, <1>9, <1>11 DEF RemoteInv

LEMMA CodesCalled ==
  ASSUME RemoteFits, RemoteInv, NEW b \in RemoteBuffers, mutex = None, mutex' = b,
         pc[b] = "codes", message' = [message EXCEPT ![b] = Remote!Codes(b, front[b])],
         UNCHANGED <<server, wire, viewer, pc, front, frontResc>>
  PROVE  RemoteInv'
<1> DEFINE m == Remote!Codes(b, front[b])
<1>1. RemoteTypes /\ \A c \in RemoteBuffers : Progress(c)
  BY DEF RemoteInv
<1>2. /\ front[b] \in SUBSET RemoteResources /\ server.remote \in SUBSET RemoteResources
      /\ server.claims[b] = frontResc[b] \cup front[b] /\ server.claims[b] \subseteq server.remote
  BY <1>1 DEF RemoteTypes, Screen, Progress
<1>3. /\ m \in Messages /\ m.type = "codes" /\ m.buffer = b /\ m.ids = front[b]
      /\ m # Remote!NoMessage
  BY <1>2 DEF Remote!Codes, Remote!NoMessage, Messages, ToShow
<1> SUFFICES ASSUME message' = [message EXCEPT ![b] = m] PROVE RemoteInv'
  OBVIOUS
<1> HIDE DEF m
<1>4. /\ InFlight \in Seq(Messages) /\ InFlight' = Append(InFlight, m)
      /\ \A c \in RemoteBuffers : message'[c] # None <=> mutex' = c
      /\ message' \in [RemoteBuffers -> Messages \cup {Remote!NoMessage, None}]
      /\ b # None
  BY <1>3, CallBegins
<1>5. RemoteTypes'
  BY <1>1, <1>4 DEF RemoteTypes
<1>6. Served(viewer, Append(InFlight, m))
  <2>1. m.ids \subseteq server.remote
    BY <1>2, <1>3
  <2> QED
    BY <1>2, <1>3, <1>4, <2>1, ServedSending DEF RemoteInv, MaySend
<1>7. OnRecord(viewer, Append(InFlight, m), server.remote)
  BY <1>2, <1>3, <1>4, OnRecordSending DEF RemoteInv
<1>8. ASSUME NEW c \in RemoteBuffers PROVE Progress(c)'
  <2>1. Progress(c)
    BY <1>1
  <2>2. CASE c # b
    <3>1. \A s : NamedWithin(viewer, InFlight, c, s) =>
            NamedWithin(viewer, Append(InFlight, m), c, s)
      BY <1>3, <1>4, <2>2, NamedSending
    <3> QED
      BY <1>4, <2>1, <2>2, <3>1 DEF Progress, RemoteFits
  <2>3. CASE c = b
    <3>1. NamedWithin(viewer, Append(InFlight, m), b, front[b])
      BY <1>3, <1>4, NamedSending
    <3>2. NamedWithin(viewer, Append(InFlight, m), b, server.claims[b])
      BY <1>2, <1>3, <1>4, NamedSending
    <3> QED
      BY <1>2, <1>4, <2>1, <2>3, <3>1, <3>2 DEF Progress
  <2> QED
    BY <2>2, <2>3
<1> QED
  BY <1>4, <1>5, <1>6, <1>7, <1>8 DEF RemoteInv

LEMMA ReleaseCalled ==
  ASSUME RemoteFits, RemoteInv, NEW b \in RemoteBuffers, mutex = None, mutex' = b,
         pc[b] = "release", Remote!SendClaim(b, front[b]),
         UNCHANGED <<wire, viewer, pc, front, frontResc>>
  PROVE  RemoteInv'
<1>1. RemoteTypes /\ \A c \in RemoteBuffers : Progress(c)
  BY DEF RemoteInv
<1>2. /\ front[b] \in SUBSET RemoteResources /\ server.remote \in SUBSET RemoteResources
      /\ server.claims[b] = frontResc[b] \cup front[b] /\ server.claims[b] \subseteq server.remote
      /\ NamedWithin(viewer, InFlight, b, front[b])
  BY <1>1 DEF RemoteTypes, Screen, Progress, RemoteFits
<1>3. PICK unused \in SUBSET RemoteResources :
        /\ unused = server.claims[b] \ UNION {server'.claims[c] : c \in RemoteBuffers}
        /\ server' \in Screen
        /\ server'.claims = [server.claims EXCEPT ![b] = front[b]]
        /\ server'.remote = server.remote \ unused
        /\ message' = [message EXCEPT ![b] = Remote!Dealloc(unused)]
  BY <1>1, <1>2, ClaimSent
<1>4. server'.claims[b] = front[b]
      /\ \A c \in RemoteBuffers \ {b} : server'.claims[c] = server.claims[c]
  BY <1>1, <1>3 DEF RemoteTypes, Screen
<1>5. PICK m : m = Remote!Dealloc(unused)
  OBVIOUS
<1>6. /\ unused = {} => m = Remote!NoMessage
      /\ unused # {} => m \in Messages /\ m.type = "dealloc" /\ m.ids = unused
  BY <1>3, <1>5 DEF Remote!Dealloc, Messages, ToDelete
<1>7. unused # {} => m # Remote!NoMessage
  BY <1>6, MessagesDiffer
<1>8. /\ InFlight \in Seq(Messages)
      /\ unused = {} => InFlight' = InFlight
      /\ unused # {} => InFlight' = Append(InFlight, m)
      /\ \A c \in RemoteBuffers : message'[c] # None <=> mutex' = c
      /\ message' \in [RemoteBuffers -> Messages \cup {Remote!NoMessage, None}]
      /\ b # None
  <2>1. m \in Messages \cup {Remote!NoMessage} /\ message' = [message EXCEPT ![b] = m]
    BY <1>3, <1>5, <1>6
  <2> QED
    BY <1>6, <1>7, <2>1, CallBegins
<1>9. RemoteTypes'
  BY <1>1, <1>3, <1>8 DEF RemoteTypes
<1>10. \A c \in RemoteBuffers : server'.claims[c] \cap unused = {}
  BY <1>3
<1>11. \A c \in RemoteBuffers : NamedWithin(viewer, InFlight, c, server'.claims[c])
  <2>1. SUFFICES ASSUME NEW c \in RemoteBuffers
                 PROVE  NamedWithin(viewer, InFlight, c, server'.claims[c])
    OBVIOUS
  <2>2. CASE c = b
    BY <1>2, <1>4, <2>2
  <2>3. CASE c # b
    BY <1>1, <1>4, <2>3 DEF Progress
  <2> QED
    BY <2>2, <2>3
<1>12. \A c \in RemoteBuffers : NamedWithin(viewer, InFlight, c, server.remote)
  <2>1. Len(InFlight) \in 0 .. Len(InFlight)
    BY <1>8
  <2> QED
    BY <2>1 DEF NamedWithin, RemoteInv, Served, OnRecord
<1>13. \A c \in RemoteBuffers : NamedWithin(viewer, InFlight, c, server.remote \ unused)
  BY <1>10, <1>11, <1>12 DEF NamedWithin
<1>14. Served(viewer, InFlight') /\ OnRecord(viewer, InFlight', server'.remote)
  <2>1. CASE unused = {}
    <3>1. server'.remote = server.remote
      BY <1>3, <2>1
    <3> QED
      BY <1>8, <2>1, <3>1 DEF RemoteInv
  <2>2. CASE unused # {}
    <3>1. m.ids \subseteq server.remote
      BY <1>2, <1>3, <1>6, <2>2
    <3>2. Served(viewer, Append(InFlight, m))
      BY <1>2, <1>6, <1>8, <1>13, <2>2, <3>1, ServedSending DEF RemoteInv, MaySend
    <3>3. OnRecord(viewer, Append(InFlight, m), server.remote \ unused)
      BY <1>2, <1>6, <1>8, <2>2, OnRecordSending DEF RemoteInv
    <3> QED
      BY <1>3, <1>8, <2>2, <3>2, <3>3
  <2> QED
    BY <2>1, <2>2
<1>15. \A c \in RemoteBuffers : \A s : NamedWithin(viewer, InFlight, c, s) =>
          NamedWithin(viewer, InFlight', c, s)
  <2>1. CASE unused = {}
    BY <1>8, <2>1
  <2>2. CASE unused # {}
    <3>1. \A c \in RemoteBuffers : \A s : NamedWithin(viewer, InFlight, c, s) =>
            NamedWithin(viewer, Append(InFlight, m), c, s)
      BY <1>6, <1>8, <2>2, NamedSending
    <3> QED
      BY <1>8, <2>2, <3>1
  <2> QED
    BY <2>1, <2>2
<1>16. ASSUME NEW c \in RemoteBuffers PROVE Progress(c)'
  <2>1. Progress(c) /\ NamedWithin(viewer, InFlight', c, server'.claims[c])
    BY <1>1, <1>11, <1>15
  <2>2. CASE c # b
    <3>1. server'.claims[c] = server.claims[c] /\ server'.claims[c] \cap unused = {}
      BY <1>4, <1>10, <2>2
    <3>2. server.claims[c] \subseteq server.remote => server'.claims[c] \subseteq server'.remote
      BY <1>3, <3>1
    <3>3. mutex # c /\ mutex' # c
      BY <2>2 DEF RemoteFits
    <3>4. message'[c] # None <=> mutex' = c
      BY <1>8
    <3>5. pc'[c] = pc[c] /\ front' = front /\ frontResc' = frontResc /\ viewer' = viewer
      OBVIOUS
    <3> QED
      BY <1>15, <2>1, <3>1, <3>2, <3>3, <3>4, <3>5 DEF Progress
  <2>3. CASE c = b
    <3>1. server'.claims[b] \subseteq server'.remote
      BY <1>2, <1>3, <1>4, <1>10
    <3>2. NamedWithin(viewer, InFlight', b, front[b])
      BY <1>2, <1>15
    <3> QED
      BY <1>4, <1>8, <2>1, <2>3, <3>1, <3>2 DEF Progress
  <2> QED
    BY <2>2, <2>3
<1> QED
  BY <1>9, <1>14, <1>16 DEF RemoteInv

\* The first message in flight reaches the viewer.
LEMMA MessageReceived ==
  ASSUME RemoteFits, RemoteInv, Remote!Receive
  PROVE  RemoteInv'
<1>1. /\ wire # <<>> /\ viewer' = Remote!Apply(viewer, Head(wire)) /\ wire' = Tail(wire)
      /\ server' = server /\ mutex' = mutex /\ message' = message /\ pc' = pc
      /\ front' = front /\ frontResc' = frontResc
  BY DEF Remote!Receive, Remote!worldVars
<1>2. RemoteTypes /\ \A c \in RemoteBuffers : Progress(c)
  BY DEF RemoteInv
<1>3. wire \in Seq(Messages) /\ viewer \in Screen
  BY <1>2 DEF RemoteTypes
<1>4. PICK s \in Seq(Messages) : s = InFlight
  BY <1>2, InFlightIsSent
<1>5. s # <<>> /\ s[1] = Head(wire) /\ InFlight' = Tail(s)
  <2>1. CASE mutex = None \/ message[mutex] = Remote!NoMessage
    <3>1. s = wire /\ InFlight' = Tail(wire)
      BY <1>1, <1>4, <2>1 DEF InFlight
    <3> QED
      BY <1>1, <1>3, <3>1
  <2>2. CASE mutex # None /\ message[mutex] # Remote!NoMessage
    <3>1. PICK m : m = message[mutex]
      OBVIOUS
    <3>2. mutex \in RemoteBuffers
      BY <1>2, <2>2 DEF RemoteTypes
    <3>3. m # None
      BY <1>2, <3>1, <3>2 DEF Progress
    <3>4. m \in Messages
      BY <1>2, <2>2, <3>1, <3>2, <3>3 DEF RemoteTypes
    <3>5. s = Append(wire, m) /\ InFlight' = Append(Tail(wire), m)
      BY <1>1, <1>4, <2>2, <3>1 DEF InFlight
    <3>6. Append(Tail(wire), m) = Tail(Append(wire, m))
      BY <1>1, <1>3, <3>4
    <3>7. Append(wire, m) # <<>> /\ Append(wire, m)[1] = Head(wire)
      BY <1>1, <1>3, <3>4
    <3> QED
      BY <3>5, <3>6, <3>7
  <2> QED
    BY <2>1, <2>2
<1>6. PICK m \in Messages : m = Head(wire)
  BY <1>1, <1>3
<1>7. /\ viewer.dealloc \subseteq viewer.held /\ Served(viewer, s)
      /\ OnRecord(viewer, s, server.remote)
  BY <1>4 DEF RemoteInv
<1>8. m.type = "dealloc" => m.ids \subseteq viewer.held
  <2>1. SUFFICES ASSUME m.type = "dealloc", NEW r \in m.ids PROVE r \in viewer.held
    OBVIOUS
  <2>2. r \in RemoteResources
    BY <2>1 DEF Messages, ToDelete, ToAdd, ToShow
  <2>3. 1 \in 1 .. Len(s) /\ 1 - 1 = 0
    BY <1>5
  <2>4. HasIt(viewer, s, r, 0)
    BY <1>5, <1>6, <1>7, <2>1, <2>2, <2>3 DEF Served
  <2> QED
    BY <2>4, AtStart
<1>9. /\ viewer' \in Screen /\ Follows(viewer, viewer', m)
      /\ viewer'.dealloc \subseteq viewer'.held
  BY <1>1, <1>3, <1>6, <1>7, <1>8, MessageApplied
<1>10. s[1] = m
  BY <1>5, <1>6
<1>11. /\ Served(viewer', Tail(s)) /\ OnRecord(viewer', Tail(s), server.remote)
       /\ \A c \in RemoteBuffers : \A set :
            NamedWithin(viewer, s, c, set) => NamedWithin(viewer', Tail(s), c, set)
  BY <1>5, <1>7, <1>9, <1>10, ServedReceiving
<1>12. RemoteTypes'
  <2>1. Tail(wire) \in Seq(Messages)
    BY <1>1, <1>3
  <2> QED
    BY <1>1, <1>2, <1>9, <2>1 DEF RemoteTypes
<1>13. ASSUME NEW c \in RemoteBuffers PROVE Progress(c)'
  BY <1>1, <1>2, <1>4, <1>5, <1>11 DEF Progress
<1> QED
  BY <1>1, <1>5, <1>9, <1>11, <1>12, <1>13 DEF RemoteInv

LEMMA FrameDrawn ==
  ASSUME RemoteFits, RemoteInv, Remote!Draw
  PROVE  RemoteInv'
<1>1. /\ viewer' = Remote!DrawFrame(viewer) /\ wire' = wire
      /\ server' = server /\ mutex' = mutex /\ message' = message /\ pc' = pc
      /\ front' = front /\ frontResc' = frontResc
  BY DEF Remote!Draw, Remote!worldVars
<1>2. RemoteTypes /\ \A c \in RemoteBuffers : Progress(c)
  BY DEF RemoteInv
<1>3. viewer \in Screen
  BY <1>2 DEF RemoteTypes
<1>4. PICK left \in SUBSET RemoteResources, none \in SUBSET RemoteResources :
        left = viewer.held \ viewer.dealloc /\ none = {}
  BY <1>3 DEF Screen
<1>5. viewer' = [viewer EXCEPT !.held = left, !.dealloc = none]
  BY <1>1, <1>4 DEF Remote!DrawFrame
<1>6. PICK first : first = [viewer EXCEPT !.held = left]
  OBVIOUS
<1>7. first \in Screen /\ first.held = left /\ first.codes = viewer.codes
  BY <1>3, <1>6, OneChanged
<1>8. PICK second : second = [first EXCEPT !.dealloc = none]
  OBVIOUS
<1>9. /\ second \in Screen /\ second.held = left /\ second.codes = viewer.codes
      /\ second.dealloc = {}
  BY <1>4, <1>7, <1>8, OneChanged
<1>10. viewer' = second
  BY <1>3, <1>5, <1>6, <1>8, SeveralChanged
<1>11. /\ viewer' \in Screen /\ viewer'.codes = viewer.codes /\ viewer'.dealloc = {}
       /\ viewer'.held \ viewer'.dealloc = viewer.held \ viewer.dealloc
  BY <1>4, <1>9, <1>10
<1>12. InFlight' = InFlight /\ InFlight \in Seq(Messages)
  BY <1>1, <1>2, InFlightIsSent DEF InFlight
<1>13. /\ Served(viewer', InFlight) /\ OnRecord(viewer', InFlight, server.remote)
       /\ \A c, set : NamedWithin(viewer, InFlight, c, set) => NamedWithin(viewer', InFlight, c, set)
  BY <1>11, <1>12, StartsAlike DEF RemoteInv
<1>14. RemoteTypes'
  BY <1>1, <1>2, <1>11 DEF RemoteTypes
<1>15. ASSUME NEW c \in RemoteBuffers PROVE Progress(c)'
  BY <1>1, <1>2, <1>12, <1>13 DEF Progress
<1> QED
  BY <1>1, <1>11, <1>12, <1>13, <1>14, <1>15 DEF RemoteInv

LEMMA CallMade ==
  ASSUME RemoteFits, RemoteInv, NEW b \in RemoteBuffers, Remote!BeginCall(b)
  PROVE  RemoteInv'
<1>1. /\ mutex = None /\ mutex' = b
      /\ UNCHANGED <<wire, viewer, pc, front, frontResc>>
  BY DEF Remote!BeginCall, Remote!MayCall, Remote!worldVars
<1>2. CASE pc[b] = "claim" /\ Remote!SendClaim(b, frontResc[b] \cup front[b])
  BY <1>1, <1>2, ClaimCalled
<1>3. CASE /\ pc[b] = "resources"
           /\ LET after == Remote!AddResources([server EXCEPT !.held = {}],
                                               frontResc[b] \cup front[b])
              IN /\ server' = [after EXCEPT !.held = {}]
                 /\ message' = [message EXCEPT ![b] = Remote!Add(after.held)]
  BY <1>1, <1>3, ResourcesCalled
<1>4. CASE /\ pc[b] = "codes" /\ server' = server
           /\ message' = [message EXCEPT ![b] = Remote!Codes(b, front[b])]
  BY <1>1, <1>4, CodesCalled
<1>5. CASE pc[b] = "release" /\ Remote!SendClaim(b, front[b])
  BY <1>1, <1>5, ReleaseCalled
<1> QED
  BY <1>2, <1>3, <1>4, <1>5 DEF Remote!BeginCall

LEMMA RemoteStays ==
  ASSUME RemoteFits
  PROVE  RemoteInv /\ [Remote!Next]_remoteVars => RemoteInv'
<1> SUFFICES ASSUME RemoteInv, [Remote!Next]_remoteVars PROVE RemoteInv'
  OBVIOUS
<1>1. ASSUME NEW b \in RemoteBuffers, NEW frame \in RemoteFrames[b],
             Remote!BeginFrame(b, frame)
      PROVE  RemoteInv'
  BY <1>1, FrameBegins
<1>2. ASSUME NEW b \in RemoteBuffers, Remote!BeginCall(b) PROVE RemoteInv'
  BY <1>2, CallMade
<1>3. ASSUME NEW b \in RemoteBuffers, Remote!Write(b) PROVE RemoteInv'
  BY <1>3, MessageWritten
<1>4. CASE Remote!Receive
  BY <1>4, MessageReceived
<1>5. CASE Remote!Draw
  BY <1>5, FrameDrawn
<1>6. CASE UNCHANGED remoteVars
  <2>1. /\ server' = server /\ wire' = wire /\ viewer' = viewer /\ mutex' = mutex
        /\ message' = message /\ pc' = pc /\ front' = front /\ frontResc' = frontResc
    BY <1>6 DEF remoteVars
  <2>2. InFlight' = InFlight
    BY <2>1 DEF InFlight
  <2> QED
    BY <2>1, <2>2 DEF RemoteInv, RemoteTypes, Progress
<1> QED
  BY <1>1, <1>2, <1>3, <1>4, <1>5, <1>6 DEF Remote!Next

\* The wire is a part of what is in flight.
LEMMA RemoteHolds ==
  ASSUME RemoteFits, RemoteInv
  PROVE  Remote!ViewerHasResources /\ Remote!RecordMatchesWire
<1>1. RemoteTypes /\ \A c \in RemoteBuffers : Progress(c)
  BY DEF RemoteInv
<1>2. /\ wire \in Seq(Messages) /\ Len(wire) \in Nat /\ InFlight \in Seq(Messages)
      /\ mutex = None => InFlight = wire
  BY <1>1, InFlightIsSent DEF RemoteTypes
<1>3. ASSUME NEW r, NEW k \in 0 .. Len(wire)
      PROVE  HasIt(viewer, InFlight, r, k) <=> HasIt(viewer, wire, r, k)
  <2>1. CASE InFlight = wire
    BY <2>1
  <2>2. ASSUME NEW m \in Messages, InFlight = Append(wire, m)
        PROVE  HasIt(viewer, InFlight, r, k) <=> HasIt(viewer, wire, r, k)
    BY <1>2, <2>2, BeforeAppended
  <2> QED
    BY <1>1, <2>1, <2>2, InFlightIsSent
<1>4. Len(wire) <= Len(InFlight) /\ \A k \in 1 .. Len(wire) : InFlight[k] = wire[k]
  <2>1. CASE InFlight = wire
    BY <1>2, <2>1
  <2>2. ASSUME NEW m \in Messages, InFlight = Append(wire, m)
        PROVE  Len(wire) <= Len(InFlight) /\ \A k \in 1 .. Len(wire) : InFlight[k] = wire[k]
    BY <1>2, <2>2, Appended
  <2> QED
    BY <1>1, <2>1, <2>2, InFlightIsSent
<1>5. ASSUME NEW k, NEW r \in RemoteResources
      PROVE  r \in Remote!HasAfter(k) <=> HasIt(viewer, wire, r, k)
  BY DEF Remote!HasAfter, Remote!Comes, Remote!Goes, HasIt, StaysOn, AddsIn, DeletesIn
<1>6. Remote!ViewerHasResources
  <2>1. SUFFICES ASSUME NEW b \in RemoteBuffers, viewer.codes[b] # None, NEW r \in viewer.codes[b]
                 PROVE  r \in viewer.held \ viewer.dealloc
    BY DEF Remote!ViewerHasResources
  <2>2. r \in RemoteResources
    BY <1>1, <2>1 DEF RemoteTypes, Screen
  <2>3. NamesIt(viewer, InFlight, b, r, 0) /\ 0 \in 0 .. Len(InFlight)
    <3>1. PICK s \in Seq(Messages) : s = InFlight
      BY <1>2
    <3>2. NamesIt(viewer, s, b, r, 0) <=> viewer.codes[b] # None /\ r \in viewer.codes[b]
      BY AtStart
    <3>3. 0 \in 0 .. Len(s)
      OBVIOUS
    <3> QED
      BY <2>1, <3>1, <3>2, <3>3
  <2>4. HasIt(viewer, InFlight, r, 0)
    BY <2>2, <2>3 DEF RemoteInv, Served
  <2> QED
    BY <1>2, <2>4, AtStart
<1>7. mutex = None => Remote!HasAfter(Len(wire)) = server.remote
  <2>1. SUFFICES ASSUME mutex = None PROVE Remote!HasAfter(Len(wire)) = server.remote
    OBVIOUS
  <2>2. \A r \in RemoteResources : r \in Remote!HasAfter(Len(wire)) <=> r \in server.remote
    BY <1>2, <1>5, <2>1 DEF RemoteInv, OnRecord
  <2>3. Remote!HasAfter(Len(wire)) \subseteq RemoteResources
        /\ server.remote \subseteq RemoteResources
    BY <1>1 DEF Remote!HasAfter, RemoteTypes, Screen
  <2> QED
    BY <2>2, <2>3
<1>8. ASSUME NEW k \in 1 .. Len(wire), wire[k].type = "dealloc"
      PROVE  wire[k].ids \subseteq Remote!HasAfter(k - 1)
  <2>1. SUFFICES ASSUME NEW r \in wire[k].ids PROVE r \in Remote!HasAfter(k - 1)
    OBVIOUS
  <2>2. wire[k] \in Messages
    BY <1>2
  <2>3. r \in RemoteResources
    BY <2>1, <2>2 DEF Messages, ToDelete, ToAdd, ToShow
  <2>4. k \in 1 .. Len(InFlight) /\ k - 1 \in 0 .. Len(wire)
    BY <1>2, <1>4
  <2>5. HasIt(viewer, InFlight, r, k - 1)
    BY <1>4, <1>8, <2>1, <2>3, <2>4 DEF RemoteInv, Served
  <2> QED
    BY <1>3, <1>5, <2>3, <2>4, <2>5
<1> QED
  BY <1>6, <1>7, <1>8 DEF Remote!RecordMatchesWire, RemoteInv

-----------------------------------------------------------------------------
(* Together: each part of the whole is its own specification.              *)

LEMMA V4l2Runs == Spec => V4l2!Spec
<1>1. Init => V4l2!Init
  BY DEF Init
<1>2. [Next]_partsVars => [V4l2!Next]_v4l2Vars
  BY DEF Next, Step, partsVars
<1>3. [V4l2!Next]_v4l2Vars => [V4l2!Next]_(V4l2!vars)
  BY DEF v4l2Vars, V4l2!vars, V4l2!queueVars
<1> QED
  BY <1>1, <1>2, <1>3, PTL DEF Spec, V4l2!Spec

LEMMA RingRuns == Spec => Ring!Spec
<1>1. Init => Ring!Init
  BY DEF Init
<1>2. [Next]_partsVars => [Ring!Next]_ringVars
  BY DEF Next, Step, partsVars
<1>3. [Ring!Next]_ringVars => [Ring!Next]_(Ring!vars)
  BY DEF ringVars, Ring!vars, Ring!ringVars
<1> QED
  BY <1>1, <1>2, <1>3, PTL DEF Spec, Ring!Spec

LEMMA LogRuns == Spec => Replay!LogSpec
<1>1. Init => Replay!LogInit
  BY DEF Init
<1>2. [Next]_partsVars => [Replay!LogNext]_logVars
  BY DEF Next, Step, partsVars
<1>3. [Replay!LogNext]_logVars => [Replay!LogNext]_(Replay!logVars)
  BY DEF logVars, Replay!logVars
<1> QED
  BY <1>1, <1>2, <1>3, PTL DEF Spec, Replay!LogSpec

LEMMA DirectoryRuns == Spec => Replay!DirSpec
<1>1. Init => Replay!DirInit
  BY DEF Init
<1>2. [Next]_partsVars => [Replay!DirNext]_fileVars
  BY DEF Next, Step, partsVars
<1>3. [Replay!DirNext]_fileVars => [Replay!DirNext]_(Replay!dirVars)
  BY DEF fileVars, Replay!dirVars
<1> QED
  BY <1>1, <1>2, <1>3, PTL DEF Spec, Replay!DirSpec

\* For any number of buffers and of files, no buffer of a camera driver is lost or in two
\* places, filled ones come out in their order, and a directory's replay stays in its list.
THEOREM BuffersStayAccounted ==
  ASSUME NumBuffers \in Nat, MaxEntries \in Nat
  PROVE  Spec => []BuffersAccounted
<1>1. RingInv => Ring!BuffersAccounted
  BY DEF RingInv
<1> QED
  BY <1>1, NoBufferTwice, RingLosesNothing, PosStaysInFiles, V4l2Runs, RingRuns,
     DirectoryRuns, PTL DEF BuffersAccounted

\* No lent frame changes, none comes twice or late, the caller of the FireWire driver gets
\* the newest whole frame and the log's records come in their order: for any number of
\* buffers and records.
THEOREM SourcesKeepDelivering ==
  ASSUME QueueFits, LogFits
  PROVE  Spec => SourcesDeliver
<1>1. NumBuffers \in Nat
  BY DEF QueueFits
<1> QED
  BY <1>1, V4l2KeepsPromise, RingGivesNewest, LogStaysInOrder, V4l2Runs, RingRuns, LogRuns,
     PTL DEF SourcesDeliver

LEMMA CameraRuns == Spec => Camera!Init /\ [][Camera!Next]_cameraVars
<1>1. Init => Camera!Init
  BY DEF Init
<1>2. [Next]_partsVars => [Camera!Next]_cameraVars
  BY DEF Next, Step, partsVars
<1> QED
  BY <1>1, <1>2, PTL DEF Spec

LEMMA ViewportRuns == Spec => Viewport!Spec
<1>1. Init => Viewport!Init
  BY DEF Init
<1>2. [Next]_partsVars => [Viewport!Next]_viewportVars
  BY DEF Next, Step, partsVars
<1>3. [Viewport!Next]_viewportVars => [Viewport!Next]_(Viewport!vars)
  BY DEF viewportVars, Viewport!vars, Viewport!current, Viewport!target
<1> QED
  BY <1>1, <1>2, <1>3, PTL DEF Spec, Viewport!Spec

\* A camera ends where it was last sent by the time given and a layer moves towards its
\* place without a jump, for any positions, windows, shares, sizes and times.
THEOREM CameraIsTakenThere ==
  ASSUME CameraFits, ViewportFits
  PROVE  Spec => CameraArrives
BY CameraRuns, CameraArrivesAndMoves, ViewportRuns, LayerMovesTowards, PTL DEF CameraArrives

LEMMA UsbFeaturesRun == Spec => UsbSet!Init /\ [][UsbSet!Next]_usbSetVars
<1>1. Init => UsbSet!Init
  BY DEF Init
<1>2. [Next]_partsVars => [UsbSet!Next]_usbSetVars
  BY DEF Next, Step, partsVars
<1> QED
  BY <1>1, <1>2, PTL DEF Spec

LEMMA RingFeaturesRun == Spec => Ring!FeatureInit /\ [][Ring!FeatureNext]_ringSetVars
<1>1. Init => Ring!FeatureInit
  BY DEF Init
<1>2. [Next]_partsVars => [Ring!FeatureNext]_ringSetVars
  BY DEF Next, Step, partsVars
<1> QED
  BY <1>1, <1>2, PTL DEF Spec

LEMMA UrlsRun == Spec => Line!Init /\ [][Line!Next]_lineVars
<1>1. Init => Line!Init
  BY DEF Init
<1>2. [Next]_partsVars => [Line!Next]_lineVars
  BY DEF Next, Step, partsVars
<1> QED
  BY <1>1, <1>2, PTL DEF Spec

LEMMA ParametersRun == Spec => Params!Init /\ [][Params!Next]_paramVars
<1>1. Init => Params!Init
  BY DEF Init
<1>2. [Next]_partsVars => [Params!Next]_paramVars
  BY DEF Next, Step, partsVars
<1> QED
  BY <1>1, <1>2, PTL DEF Spec

\* What was set on a camera stays set and in force whatever is set next, a camera is set up
\* as its URL says, and whoever listens to a parameter knows its value however the calls
\* nest: for any parameters, listeners and URLs that come apart.
THEOREM SettingsStayHeld ==
  ASSUME FeaturesFit
  PROVE  Spec => []SettingsHold
<1>1. Spec => []UsbInv
  BY UsbFeaturesRun, UsbInvInit, UsbInvStays, PTL
<1>2. Spec => []FeatureInv
  BY RingFeaturesRun, FeatureInvInit, FeatureInvStays, PTL
<1>3. Spec => []UrlInv
  BY UrlsRun, UrlInvInit, UrlInvStays, PTL
<1>4. Spec => []ParamInv
  BY ParametersRun, ParamInvInit, ParamInvStays, PTL
<1>5. UsbInv /\ FeatureInv /\ UrlInv /\ ParamInv => SettingsHold
  BY UsbInvHolds, FeatureInvHolds, UrlInvHolds, ParamInvHolds DEF SettingsHold
<1> QED
  BY <1>1, <1>2, <1>3, <1>4, <1>5, PTL

\* A load of a key file that nobody disturbs leaves each parameter as the file has it, with
\* all the calls to listeners in between: for any parameters, ranges, options and files.
THEOREM SavedIsLoaded ==
  ASSUME RowsFit
  PROVE  Spec => SavedComesBack
BY ParametersRun, LoadsComeBack, PTL DEF SavedComesBack

LEMMA RemoteRuns == Spec => Remote!Init /\ [][Remote!Next]_remoteVars
<1>1. Init => Remote!Init
  BY DEF Init
<1>2. [Next]_partsVars => [Remote!Next]_remoteVars
  BY DEF Next, Step, partsVars
<1> QED
  BY <1>1, <1>2, PTL DEF Spec

\* The viewer of a display on another computer has the resources its codes name however
\* the messages of the worlds are interleaved and however many are on the way: for any
\* buffers, resources, frames and size of the socket's buffer.
THEOREM ViewerIsKeptUp ==
  ASSUME RemoteFits
  PROVE  Spec => []ViewerKeepsUp
<1>1. RemoteInv => ViewerKeepsUp
  BY RemoteHolds DEF ViewerKeepsUp
<1> QED
  BY <1>1, RemoteRuns, RemoteStart, RemoteStays, PTL
=============================================================================
