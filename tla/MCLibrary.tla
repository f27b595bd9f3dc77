----------------------------- MODULE MCLibrary -----------------------------
(***************************************************************************)
(* The libraries for TLC, in one model: the parts of LibraryProofs, and    *)
(* containers, files, vx objects, texts, plans and images besides.         *)
(* They have nothing to do with each other: the first state picks the part *)
(* that runs.                                                              *)
(***************************************************************************)
EXTENDS LibraryProofs

CONSTANT SceneObjects

VARIABLES
  buckets, size, iter, returned, map, remaining,
  extra, tokenPc, tokType, str, prev, raw,
  elements, stack, child, configPc, consumed, configSets,
  buffers, codes, resources, open, scope, meant, count, drawn,
  grid, distances, spreading, planPhase, start, goal, queue, costs, predecessors, path,
  format, to, width, height, pad, sample, convertPc, atX, atY, out, narrow, rgb,
  text, anchor, style, textLines, textPc, lineNo, textPos, fragNo, penX, penY,
  fragmentsDrawn

MCRemoteFrames == [b \in RemoteBuffers |-> (SUBSET RemoteResources) \ {{}}]

\* The whole window, and the far half of it.
MCShares == {[at |-> [num |-> 0, den |-> 1], size |-> [num |-> 1, den |-> 1]],
             [at |-> [num |-> 1, den |-> 2], size |-> [num |-> 1, den |-> 2]]}

MCRanges == {<<0, 1>>, <<-1, 0>>}
MCRows == {<<2, 1>>}

UrlOf(protocol, host, port, where, params) ==
  [protocol |-> protocol, host |-> host, port |-> port, path |-> where, params |-> params]
MCUrls ==
  {UrlOf("pgusb", h, p, <<>>, ps) : h \in {<<>>, <<"287157">>}, p \in {"", "7000"},
     ps \in {<<>>, << <<"gain", "4">> >>,
             << <<"fidx", "4">>, <<"gain", "x">>, <<"shutter", "4">> >>,
             << <<"gain", "9">>, <<"gain", "5">>, <<"format", "GRAY">>, <<"print", "">> >>}}
  \union
  {UrlOf("tcp", h, "", <<"/", "tmp", "/", "w">>, ps) : h \in {<<>>, <<"287157">>},
     ps \in {<<>>, << <<"format", "x">>, <<"shutter", "9">>, <<"fidx", "4">> >>}}
  \union {UrlOf("http", <<"287157">>, "", <<>>, <<>>)}

MCNumberOf == [n \in {"4", "5", "9"} |-> IF n = "4" THEN 4 ELSE IF n = "5" THEN 5 ELSE 9]

\* Two of the keys share a bucket of two, and other two one of four.
Table == INSTANCE ZHash WITH
  Keys <- {"a", "b", "c", "d"}, Values <- {1, 2},
  Hash <- [a |-> 0, b |-> 2, c |-> 4, d |-> 1],
  InitialBuckets <- 1, InitialCapacity <- 1, RehashRatio <- 1, MaxBuckets <- 4

Config == INSTANCE ConfigFile WITH
  Names <- {"a", "b"}, Quoted <- {"x"}, MaxTokens <- 11, MaxSets <- 1,
  BufferSize <- 4, pc <- configPc, sets <- configSets

\* Linking puts the two attributes of a shader at 1 and 0.
Scene == INSTANCE VxScene WITH
  Location <- [shader \in {"single-color", "multi-colored", "texture"} |->
                 CASE shader = "single-color" -> [position |-> 0]
                   [] shader = "multi-colored" -> [position |-> 1, color |-> 0]
                   [] shader = "texture" -> [texIn |-> 0]],
  MaxObjects <- SceneObjects, MaxBuffers <- 2

GridOf(occupied, unknown) ==
  [c \in (0 .. 4) \X (0 .. 3) |->
     IF c \in occupied THEN "occupied" ELSE IF c \in unknown THEN "unknown" ELSE "free"]
Grids == {GridOf({<<2, 1>>}, {<<3, 0>>}), GridOf({<<2, 0>>, <<4, 0>>}, {<<0, 1>>}),
          GridOf({<<0, 0>>, <<4, 3>>}, {}), GridOf({2} \X (0 .. 3), {})}

Planner == INSTANCE MotionPlanner WITH
  Width <- 5, Height <- 4, Maps <- Grids,
  Positions <- {<<0, 0>>, <<3, 5>>}, Goals <- {<<-1, 0>>, <<9, 7>>, <<9, 1>>},
  RobotRadius <- 1200, MaxDistanceWithCost <- 12000, MetersPerCell <- 20,
  map <- grid, phase <- planPhase

Convert == INSTANCE ImageConvert WITH
  Formats <- {"BAYER_GBRG", "BAYER_GBRG16", "BAYER_RGGB", "BAYER_RGGB16", "GRAY8", "GRAY16",
              "RGB", "BGRA", "RGBA", "YUYV", "YU12", "MJPEG"},
  Widths <- {2, 6}, Heights <- {2, 4}, Pads <- {0, 1}, Levels <- {0, 128, 255},
  pc <- convertPc, x <- atX, y <- atY

MarkedUp ==
  {<<"a", "b", "nl", "b">>,
   <<"<<", "serif-36", "right", ">>", "a", "nl", "nl", "b", "<<", "#red", ">>", "z", "a">>,
   <<"a", "<<", "center", ">>", "nl", "b", "a", "b", "<<", "serif", "left", "#red", ">>", "a">>,
   <<"<<", ">>", "nl", "b", "<<", "unknown", "center", ">>", "b", "nl",
     "<<", "#red", ">>", "a", "b", "b">>}

Text == INSTANCE VxText WITH
  Texts <- MarkedUp,
  Anchors <- [h : {"left", "center", "right"}, v : {"top", "center", "bottom"}, round : BOOLEAN],
  Effect <- [o \in {"serif", "serif-36", "#red", "left", "right", "center"} |->
               CASE o = "serif" -> [font |-> "serif"]
                 [] o = "serif-36" -> [font |-> "serif", size |-> 36]
                 [] o = "#red" -> [colour |-> "red"]
                 [] OTHER -> [justification |-> o]],
  Code <- [c \in {" ", "a", "b", "~"} |->
             CASE c = " " -> 0 [] c = "a" -> 1 [] c = "b" -> 2 [] c = "~" -> 3],
  LastCharacter <- "~",
  Advance <- [f \in {"monospaced", "serif"} |->
                [n \in 0 .. 3 |-> IF f = "serif" THEN 4 + n ELSE 5]],
  Width <- [f \in {"monospaced", "serif"} |->
              [n \in 0 .. 3 |-> IF f = "serif" THEN 3 + n ELSE 3]],
  TileHeight <- [f \in {"monospaced", "serif"} |-> IF f = "serif" THEN 9 ELSE 8],
  TileWidth <- 7, TileDim <- 2, NativePoints <- 128,
  lines <- textLines, pc <- textPc, pos <- textPos, x <- penX, y <- penY,
  drawn <- fragmentsDrawn

tableVars   == <<buckets, size, iter, returned, map, remaining>>
tokenVars   == <<extra, tokenPc, tokType, str, prev, raw>>
configVars  == <<elements, stack, child, configPc, consumed, configSets>>
sceneVars   == <<buffers, codes, resources, open, scope, meant, count, drawn>>
plannerVars == <<grid, distances, spreading, planPhase, start, goal, queue, costs,
                 predecessors, path>>
convertVars == <<format, to, width, height, pad, sample, convertPc, atX, atY, out,
                 narrow, rgb>>
textVars == <<text, anchor, style, textLines, textPc, lineNo, textPos, fragNo, penX,
              penY, fragmentsDrawn>>

vars == <<partsVars, tableVars, tokenVars, configVars, sceneVars, plannerVars,
          convertVars, textVars>>

Sources == {"v4l2", "dc1394", "islog", "filedir",
            "pgusb features", "dc1394 features", "zhash", "tokens", "config", "scene",
            "camera", "remote", "viewport", "planner", "parameters", "command line",
            "convert", "text"}

LibraryInit ==
  /\ source \in Sources
  /\ source # "convert" =>
       /\ format = "RGB" /\ to = "u32" /\ width = 2 /\ height = 2 /\ pad = 0
       /\ sample = [y1 |-> 0, y2 |-> 0, u |-> 0, v |-> 0]
  /\ source # "text" =>
       text = <<"a", "b", "nl", "b">> /\ anchor = [h |-> "left", v |-> "top", round |-> FALSE]
  /\ Init
  /\ Table!Init /\ Config!TokenInit /\ Config!Init /\ Scene!Init
  /\ Planner!Init /\ Text!Init /\ Convert!Init

\* A step of a part, LibraryProofs' parts among them, leaves the others alone.
OtherStep(part, A) ==
  /\ Step(part, A)
  /\ part # "zhash" => UNCHANGED tableVars
  /\ part # "tokens" => UNCHANGED tokenVars
  /\ part # "config" => UNCHANGED configVars
  /\ part # "scene" => UNCHANGED sceneVars
  /\ part # "planner" => UNCHANGED plannerVars
  /\ part # "convert" => UNCHANGED convertVars
  /\ part # "text" => UNCHANGED textVars

LibraryNext ==
  \/ /\ Next
     /\ UNCHANGED <<tableVars, tokenVars, configVars, sceneVars, plannerVars, convertVars,
                    textVars>>
  \/ OtherStep("zhash", Table!Next)
  \/ OtherStep("tokens", Config!TokenNext)
  \/ OtherStep("config", Config!Next)
  \/ OtherStep("scene", Scene!Next)
  \/ OtherStep("planner", Planner!Next)
  \/ OtherStep("convert", Convert!Next)
  \/ OtherStep("text", Text!Next)

\* Its first states are Init's and its steps Next's, or they leave partsVars alone: what
\* LibraryProofs shows of Spec holds of it.
LibrarySpec == LibraryInit /\ [][LibraryNext]_vars

-----------------------------------------------------------------------------
\* The hash table is the map its caller built, tokens end where they should, and the
\* tree of a configuration says what its file says; a planned path is a way from the start
\* to the goal that keeps clear of obstacles; a command line says what was meant, a URL comes
\* apart into its parts, and a converted image has the colours of the camera's (ZHash,
\* ConfigFile, MotionPlanner, CommandLine, ImageConvert).
ResultsAreRight ==
  /\ Table!TableIsMap /\ Config!TokensAreWhole /\ Config!TreeIsText
  /\ Planner!DistancesAreTrue /\ Planner!PathIsClear /\ Planner!FailsOnlyIfNone
  /\ Line!LineParsedAsMeant /\ Line!UrlComesApart
  /\ Convert!EveryPixelWritten /\ Convert!ColoursFromTheirPixels
  /\ Convert!ComputedColoursAreTrue
\* An iteration misses nothing whatever is removed through it, and a value that was
\* set is what is found (ZHash, ConfigFile).
ReadsWhatIsThere == Table!IterationIsComplete /\ Config!SetIsSeen
\* A tree of objects is drawn as it was built, and a text is laid out as its codes say
\* (VxScene, VxText).
DrawnAsBuilt ==
  /\ Scene!DrawnAsBuilt /\ Scene!ResourcesSent
  /\ Text!ReadsAsWritten /\ Text!LaidOut /\ Text!GlyphsFill
\* The depth test is on or off for an object and everything inside it (VxScene).
DepthTestIsScoped == Scene!DepthTestIsScoped
=============================================================================
