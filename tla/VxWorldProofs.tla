--------------------------- MODULE VxWorldProofs ---------------------------
(***************************************************************************)
(* The display always holds what it draws with, for any number of worlds,  *)
(* buffers, layers, displays and resources: when layers join between two   *)
(* frames, leave only once they have been sent what was there, and no two  *)
(* layers of one world share a display (each assumption is necessary).     *)
(* And under the same assumptions it keeps nothing for longer than that.   *)
(***************************************************************************)
EXTENDS Integers, VxWorld, TLAPS

Orderly ==
  /\ ~JoinMidSwap
  /\ ~LeaveEarly
  /\ \A l, k \in Layers :
       (WorldOf[l] = WorldOf[k] /\ DisplayOf[l] = DisplayOf[k]) => l = k

Replaying == {"again", "resourcesAgain", "codesAgain"}

Serving == {"swap", "resources", "codes", "release", "resourcesAgain", "codesAgain"}

Listening(l) == layerPc[l] \in {"listed", "joined"}

\* The types of the variables, without the order of the queues.
Types ==
  /\ pending \in [Buffers -> SUBSET Resources]
  /\ front \in [Buffers -> {None} \cup SUBSET Resources]
  /\ frontResc \in [Buffers -> SUBSET Resources]
  /\ layerPc \in [Layers -> {"new", "listed", "joined", "removed", "gone"}]
  /\ bufferQueue \in [Worlds -> Seq(Buffers)]
  /\ listenerQueue \in [Worlds -> Seq(Layers)]
  /\ pc \in [Worlds -> {"wait"} \cup Replaying \cup Serving]
  /\ buffer \in [Worlds -> Buffers \cup {None}]
  /\ listener \in [Worlds -> Layers \cup {None}]
  /\ todo \in [Worlds -> SUBSET Buffers]
  /\ display \in [Displays -> Display]

\* A world only works on buffers and layers of its own, and a layer whose
\* replay is queued or under way has not left.
OwnWork ==
  \A w \in Worlds :
    /\ \A i \in DOMAIN bufferQueue[w] : WorldOf[bufferQueue[w][i]] = w
    /\ \A i \in DOMAIN listenerQueue[w] :
         /\ WorldOf[listenerQueue[w][i]] = w
         /\ layerPc[listenerQueue[w][i]] = "joined"
    /\ pc[w] \in Serving => buffer[w] \in Buffers /\ WorldOf[buffer[w]] = w
    /\ pc[w] \in Replaying =>
         /\ listener[w] \in Layers
         /\ WorldOf[listener[w]] = w
         /\ layerPc[listener[w]] = "joined"
         /\ \A b \in todo[w] : WorldOf[b] = w /\ front[b] # None
    /\ pc[w] \in Serving \ {"swap"} => front[buffer[w]] # None

\* The thread is between the first and the last message about b's new frame.
UnderWay(b) == MidSwap(WorldOf[b]) /\ buffer[WorldOf[b]] = b

\* The cached resources are those of the front, but for a swap under way.
FrontCached ==
  \A b \in Buffers : (front[b] # None /\ ~UnderWay(b)) => frontResc[b] = front[b]

\* What a display draws with is claimed and has been sent.
Sound(disp) ==
  \A b \in Buffers :
    disp.codes[b] # None =>
      disp.codes[b] \subseteq disp.claims[b] /\ disp.codes[b] \subseteq disp.remote

\* The manager's record of the renderer.
Right(disp) == disp.remote = disp.held \ disp.dealloc

DisplaysSound == \A d \in Displays : Sound(display[d]) /\ Right(display[d])

\* A layer's display, as far as the buffers of the layer's world go.
Follows(l, b) ==
  LET disp == display[DisplayOf[l]]
      w == WorldOf[b]
  IN
  /\ layerPc[l] = "new" => disp.codes[b] = None
  /\ Listening(l) =>
       /\ (disp.codes[b] # None /\ ~(UnderWay(b) /\ pc[w] = "release"))
             => disp.codes[b] \subseteq frontResc[b]
       /\ (UnderWay(b) /\ pc[w] \in {"resources", "codes"})
             => AllResources(b) \subseteq disp.claims[b]
       /\ (UnderWay(b) /\ pc[w] = "codes") => AllResources(b) \subseteq disp.remote
       /\ (UnderWay(b) /\ pc[w] = "release") => disp.codes[b] = front[b]
  /\ (listener[w] = l /\ buffer[w] = b) =>
       /\ pc[w] \in {"resourcesAgain", "codesAgain"} => frontResc[b] \subseteq disp.claims[b]
       /\ pc[w] = "codesAgain" => frontResc[b] \subseteq disp.remote

LayersFollow ==
  \A l \in Layers, b \in Buffers : WorldOf[l] = WorldOf[b] => Follows(l, b)

IInv == Types /\ OwnWork /\ FrontCached /\ DisplaysSound /\ LayersFollow

-----------------------------------------------------------------------------
(* What a call does to a display.                                          *)

\* Replacing a claim loses nothing that some buffer still claims.
LEMMA BufferResourcesFacts ==
  ASSUME NEW disp \in Display, NEW b \in Buffers, NEW claim \in SUBSET Resources,
         NEW r, r = BufferResources(disp, b, claim)
  PROVE  /\ r \in Display
         /\ r.codes = disp.codes
         /\ r.claims = [disp.claims EXCEPT ![b] = claim]
         /\ \A c \in Buffers : disp.remote \cap r.claims[c] \subseteq r.remote
         /\ Right(disp) => Right(r)
<1> DEFINE claims == [disp.claims EXCEPT ![b] = claim]
           unused == disp.claims[b] \ Claimed(claims)
<1>1. claims \in [Buffers -> SUBSET Resources] /\ unused \subseteq Resources
  BY DEF Display
<1>2. r = [disp EXCEPT !.claims = claims, !.remote = disp.remote \ unused,
                       !.dealloc = disp.dealloc \cup unused]
  BY DEF BufferResources
<1>3. /\ r.claims = claims
      /\ r.remote = disp.remote \ unused
      /\ r.dealloc = disp.dealloc \cup unused
      /\ r.held = disp.held
      /\ r.codes = disp.codes
  BY <1>2 DEF Display
<1>4. r \in Display
  BY <1>1, <1>2 DEF Display
<1>5. \A c \in Buffers : claims[c] \subseteq Claimed(claims)
  BY DEF Claimed
<1>6. \A c \in Buffers : disp.remote \cap r.claims[c] \subseteq r.remote
  BY <1>3, <1>5
<1>7. Right(disp) => Right(r)
  BY <1>3 DEF Right
<1> QED
  BY <1>3, <1>4, <1>6, <1>7

\* After resources were sent the display has them.
LEMMA AddResourcesFacts ==
  ASSUME NEW disp \in Display, NEW resources \in SUBSET Resources,
         NEW r, r = AddResources(disp, resources)
  PROVE  /\ r \in Display
         /\ r.codes = disp.codes
         /\ r.claims = disp.claims
         /\ r.remote = disp.remote \cup resources
         /\ Right(disp) => Right(r)
BY DEF AddResources, Display, Right

\* Render codes change nothing else.
LEMMA SetRenderCodesFacts ==
  ASSUME NEW disp \in Display, NEW b \in Buffers,
         NEW codes \in {None} \cup SUBSET Resources,
         NEW r, r = SetRenderCodes(disp, b, codes)
  PROVE  /\ r \in Display
         /\ r.codes = [disp.codes EXCEPT ![b] = codes]
         /\ r.claims = disp.claims
         /\ r.remote = disp.remote
         /\ Right(disp) => Right(r)
BY DEF SetRenderCodes, Display, Right

\* Drawing deletes what the manager knows to be deleted.
LEMMA DrawFrameFacts ==
  ASSUME NEW disp \in Display, NEW r, r = DrawFrame(disp)
  PROVE  /\ r \in Display
         /\ r.codes = disp.codes
         /\ r.claims = disp.claims
         /\ r.remote = disp.remote
         /\ Right(disp) => Right(r)
BY DEF DrawFrame, Display, Right

-----------------------------------------------------------------------------
(* What a step leaves alone.                                               *)

\* A display call about b0 does no harm to other buffers.
Gentle(disp, r, b0) ==
  /\ r \in Display
  /\ \A b \in Buffers \ {b0} : r.codes[b] = disp.codes[b] /\ r.claims[b] = disp.claims[b]
  /\ \A b \in Buffers : disp.remote \cap r.claims[b] \subseteq r.remote
  /\ Right(disp) => Right(r)

\* Steps that only make calls about b0 keep what the layers of any world have
\* of another buffer, unless they begin or end its swap.
LEMMA OthersFollow ==
  ASSUME Types, Types', UNCHANGED layerPc,
         NEW b0, \A d \in Displays : Gentle(display[d], display'[d], b0),
         NEW l \in Layers, NEW b \in Buffers \ {b0}, WorldOf[l] = WorldOf[b],
         front'[b] = front[b], frontResc'[b] = frontResc[b],
         \/ /\ pc'[WorldOf[b]] = pc[WorldOf[b]]
            /\ buffer'[WorldOf[b]] = buffer[WorldOf[b]]
            /\ listener'[WorldOf[b]] = listener[WorldOf[b]]
         \/ /\ buffer'[WorldOf[b]] # b
            /\ ~(UnderWay(b) /\ pc[WorldOf[b]] = "release"),
         Follows(l, b)
  PROVE  Follows(l, b)'
<1> DEFINE old == display[DisplayOf[l]]
           new == display'[DisplayOf[l]]
<1>1. /\ new.codes[b] = old.codes[b]
      /\ new.claims[b] = old.claims[b]
      /\ old.remote \cap new.claims[b] \subseteq new.remote
  BY VxWorldAssumption DEF Gentle
<1>2. AllResources(b)' = AllResources(b)
  BY DEF AllResources
<1>3. CASE /\ pc'[WorldOf[b]] = pc[WorldOf[b]]
           /\ buffer'[WorldOf[b]] = buffer[WorldOf[b]]
           /\ listener'[WorldOf[b]] = listener[WorldOf[b]]
  <2>1. UnderWay(b)' = UnderWay(b)
    BY <1>3 DEF UnderWay, MidSwap
  <2> QED
    BY <1>1, <1>2, <1>3, <2>1 DEF Follows, Listening
<1>4. CASE /\ buffer'[WorldOf[b]] # b
           /\ ~(UnderWay(b) /\ pc[WorldOf[b]] = "release")
  <2>1. ~UnderWay(b)'
    BY <1>4 DEF UnderWay
  <2> QED
    BY <1>1, <1>4, <2>1 DEF Follows, Listening
<1> QED
  BY <1>3, <1>4

\* Nothing is drawn at first, so nothing is missing.
LEMMA InvInit == Init => IInv
<1> SUFFICES ASSUME Init PROVE IInv
  OBVIOUS
<1> USE DEF Init
<1>1. EmptyDisplay \in Display
  BY DEF EmptyDisplay, Display
<1>2. Types
  BY <1>1 DEF Types
<1>3. OwnWork
  BY DEF OwnWork, Serving, Replaying
<1>4. FrontCached
  BY DEF FrontCached
<1>5. DisplaysSound
  BY DEF DisplaysSound, Sound, Right, EmptyDisplay
<1>6. LayersFollow
  BY VxWorldAssumption DEF LayersFollow, Follows, Listening, EmptyDisplay, UnderWay, MidSwap
<1> QED
  BY <1>2, <1>3, <1>4, <1>5, <1>6 DEF IInv
-----------------------------------------------------------------------------
(* The programs and the layers.                                            *)

\* What the strengthening says of the threads and the displays depends on
\* neither the programs nor the frames they have pending.
LEMMA Frame ==
  ASSUME OwnWork, FrontCached, DisplaysSound, LayersFollow,
         UNCHANGED <<front, frontResc, layerPc, queueVars, threadVars, display>>
  PROVE  OwnWork' /\ FrontCached' /\ DisplaysSound' /\ LayersFollow'
BY DEF OwnWork, FrontCached, DisplaysSound, LayersFollow, Follows, Listening,
       UnderWay, MidSwap, AllResources, Sound, Right, queueVars, threadVars

\* vx_buffer_swap's first critical section.
LEMMA SwapStep ==
  ASSUME IInv, NEW b \in Buffers, NEW frame \in Frames[b], Swap(b, frame)
  PROVE  IInv'
<1>1. frame \in SUBSET Resources
  BY VxWorldAssumption
<1>2. Types'
  BY <1>1 DEF IInv, Types, Swap, queueVars, threadVars
<1> QED
  BY <1>2, Frame DEF IInv, Swap

\* Its second one: a buffer is queued at its own world.
LEMMA FlagSwapStep ==
  ASSUME IInv, NEW b \in Buffers, FlagSwap(b)
  PROVE  IInv'
<1> DEFINE w == WorldOf[b]
<1> USE DEF IInv, FlagSwap, bufferVars, threadVars
<1>1. w \in Worlds
  BY VxWorldAssumption
<1>2. Types'
  BY <1>1 DEF Types
<1>3. OwnWork'
  <2> SUFFICES ASSUME NEW v \in Worlds, NEW i \in DOMAIN bufferQueue'[v]
               PROVE  WorldOf[bufferQueue'[v][i]] = v
    BY DEF OwnWork
  <2>1. CASE bufferQueue'[v] = bufferQueue[v]
    BY <2>1 DEF OwnWork
  <2>2. CASE v = w /\ bufferQueue'[v] = Append(bufferQueue[v], b)
    BY <2>2, <1>1 DEF OwnWork, Types
  <2> QED
    BY <2>1, <2>2, <1>1 DEF Types
<1>4. FrontCached' /\ DisplaysSound' /\ LayersFollow'
  BY DEF FrontCached, DisplaysSound, LayersFollow, Follows, Listening, UnderWay,
         MidSwap, AllResources, Sound, Right
<1> QED
  BY <1>2, <1>3, <1>4

\* A layer that moves on keeps what it follows, unless it begins to listen.
LEMMA MovedFollow ==
  ASSUME IInv, NEW l \in Layers, NEW from, NEW to \in {"joined", "removed", "gone"},
         MoveLayer(l, from, to), to = "joined" => from = "listed"
  PROVE  FrontCached' /\ DisplaysSound' /\ LayersFollow'
<1> USE DEF MoveLayer, bufferVars, threadVars
<1>1. FrontCached' /\ DisplaysSound'
  BY DEF IInv, FrontCached, DisplaysSound, Sound, Right, UnderWay, MidSwap
<1>2. ASSUME NEW k \in Layers
      PROVE  /\ layerPc'[k] = "new" => layerPc[k] = "new"
             /\ Listening(k)' => Listening(k)
  BY DEF IInv, Types, Listening
<1>3. LayersFollow'
  <2> SUFFICES ASSUME NEW k \in Layers, NEW b \in Buffers, WorldOf[k] = WorldOf[b]
               PROVE  Follows(k, b)'
    BY DEF LayersFollow
  <2>1. Follows(k, b)
    BY DEF IInv, LayersFollow
  <2> QED
    BY <2>1, <1>2 DEF Follows, UnderWay, MidSwap, AllResources
<1> QED
  BY <1>1, <1>3

\* vx_world_add_listener, when no frame is half sent: whatever the layer's
\* display shows of the world's buffers, it shows nothing yet.
LEMMA AddListenerStep ==
  ASSUME Orderly, IInv, NEW l \in Layers, AddListener(l)
  PROVE  IInv'
<1> USE DEF AddListener, MoveLayer, bufferVars, threadVars, IInv
<1>1. Types'
  BY DEF Types
<1>2. OwnWork'
  BY DEF OwnWork, Types
<1>3. FrontCached' /\ DisplaysSound'
  BY DEF FrontCached, DisplaysSound, Sound, Right, UnderWay, MidSwap
<1>4. LayersFollow'
  <2> SUFFICES ASSUME NEW k \in Layers, NEW b \in Buffers, WorldOf[k] = WorldOf[b]
               PROVE  Follows(k, b)'
    BY DEF LayersFollow
  <2>1. Follows(k, b)
    BY DEF LayersFollow
  <2>2. CASE k = l
    <3>1. ~UnderWay(b) /\ ~UnderWay(b)'
      BY <2>2 DEF UnderWay, MidSwap, Orderly
    <3>2. display[DisplayOf[k]].codes[b] = None
      BY <2>1, <2>2 DEF Follows
    <3>3. layerPc'[k] # "new"
      BY <2>2 DEF Types
    <3> QED
      BY <2>1, <3>1, <3>2, <3>3 DEF Follows
  <2>3. CASE k # l
    <3>1. layerPc'[k] = layerPc[k]
      BY <2>3 DEF Types
    <3> QED
      BY <2>1, <3>1 DEF Follows, Listening, UnderWay, MidSwap, AllResources
  <2> QED
    BY <2>2, <2>3
<1> QED
  BY <1>1, <1>2, <1>3, <1>4

\* It waits for the replay at its own world.
LEMMA QueueListenerStep ==
  ASSUME IInv, NEW l \in Layers, QueueListener(l)
  PROVE  IInv'
<1> DEFINE w == WorldOf[l]
<1> USE DEF QueueListener
<1>1. w \in Worlds
  BY VxWorldAssumption
<1>2. Types'
  BY <1>1 DEF IInv, Types, MoveLayer, bufferVars, threadVars
<1>3. OwnWork'
  <2> USE DEF MoveLayer, bufferVars, threadVars
  <2>1. layerPc'[l] = "joined" /\ \A k \in Layers : layerPc[k] = "joined" => layerPc'[k] = "joined"
    BY DEF IInv, Types
  <2>2. ASSUME NEW v \in Worlds, NEW i \in DOMAIN listenerQueue'[v]
        PROVE  /\ WorldOf[listenerQueue'[v][i]] = v
               /\ layerPc'[listenerQueue'[v][i]] = "joined"
    <3>1. CASE v # w
      <4>1. listenerQueue'[v] = listenerQueue[v]
        BY <3>1, <1>1 DEF IInv, Types
      <4>2. listenerQueue[v][i] \in Layers
        BY <4>1 DEF IInv, Types
      <4> QED
        BY <4>1, <4>2, <2>1 DEF IInv, OwnWork
    <3>2. CASE v = w
      <4>1. listenerQueue'[v] = Append(listenerQueue[v], l) /\ listenerQueue[v] \in Seq(Layers)
        BY <3>2, <1>1 DEF IInv, Types
      <4>2. CASE i = Len(listenerQueue[v]) + 1
        BY <4>1, <4>2, <3>2, <2>1
      <4>3. CASE i \in DOMAIN listenerQueue[v]
        <5>1. listenerQueue'[v][i] = listenerQueue[v][i] /\ listenerQueue[v][i] \in Layers
          BY <4>1, <4>3
        <5> QED
          BY <5>1, <4>3, <2>1 DEF IInv, OwnWork
      <4> QED
        BY <4>1, <4>2, <4>3
    <3> QED
      BY <3>1, <3>2
  <2> QED
    BY <2>1, <2>2 DEF IInv, OwnWork
<1>4. FrontCached' /\ DisplaysSound' /\ LayersFollow'
  BY MovedFollow
<1> QED
  BY <1>2, <1>3, <1>4 DEF IInv

\* A layer that leaves, or gives up its display, is awaited by no world.
LEMMA LeaveStep ==
  ASSUME Orderly, IInv, NEW l \in Layers, RemoveListener(l) \/ ForgetDisplay(l)
  PROVE  IInv'
<1> USE DEF RemoveListener, ForgetDisplay
<1>1. Types'
  BY DEF IInv, Types, MoveLayer, bufferVars, threadVars
<1>2. OwnWork'
  <2>1. ASSUME NEW k \in Layers, layerPc[k] = "joined", Awaited(k)
        PROVE  layerPc'[k] = "joined"
    BY <2>1 DEF IInv, Types, MoveLayer, Orderly
  <2>2. ASSUME NEW w \in Worlds, NEW i \in DOMAIN listenerQueue[w]
        PROVE  layerPc'[listenerQueue[w][i]] = "joined"
    <3>1. listenerQueue[w][i] \in Layers
      BY DEF IInv, Types
    <3>2. WorldOf[listenerQueue[w][i]] = w /\ layerPc[listenerQueue[w][i]] = "joined"
      BY DEF IInv, OwnWork
    <3>3. Awaited(listenerQueue[w][i])
      BY <3>2 DEF Awaited
    <3> QED
      BY <2>1, <3>1, <3>2, <3>3
  <2>3. ASSUME NEW w \in Worlds, pc[w] \in Replaying
        PROVE  layerPc'[listener[w]] = "joined"
    <3>1. listener[w] \in Layers /\ WorldOf[listener[w]] = w /\ layerPc[listener[w]] = "joined"
      BY <2>3 DEF IInv, OwnWork
    <3> QED
      BY <2>1, <3>1 DEF Awaited
  <2> QED
    BY <2>2, <2>3 DEF IInv, OwnWork, MoveLayer, bufferVars, threadVars
<1>3. FrontCached' /\ DisplaysSound' /\ LayersFollow'
  BY MovedFollow
<1> QED
  BY <1>1, <1>2, <1>3 DEF IInv
-----------------------------------------------------------------------------
(* A world's thread.                                                       *)

\* Taking the first element moves the others up.
LEMMA TailIndex ==
  ASSUME NEW S, NEW queue \in Seq(S), queue # <<>>, NEW i \in DOMAIN Tail(queue)
  PROVE  i + 1 \in DOMAIN queue /\ Tail(queue)[i] = queue[i + 1]
OBVIOUS

\* Steps of the thread between the messages, and the rest of the invariant.
LEMMA QuietFollow ==
  ASSUME IInv, NEW w \in Worlds,
         UNCHANGED <<front, frontResc, layerPc, display>>,
         \A v \in Worlds \ {w} : /\ pc'[v] = pc[v]
                                 /\ buffer'[v] = buffer[v]
                                 /\ listener'[v] = listener[v],
         pc[w] \in {"wait", "again"}, pc'[w] \in {"wait", "again", "swap"}
  PROVE  FrontCached' /\ DisplaysSound' /\ LayersFollow'
<1>1. ASSUME NEW b \in Buffers PROVE UnderWay(b)' <=> UnderWay(b)
  BY VxWorldAssumption DEF UnderWay, MidSwap
<1>2. FrontCached' /\ DisplaysSound'
  BY <1>1 DEF IInv, FrontCached, DisplaysSound, Sound, Right
<1>3. LayersFollow'
  <2> SUFFICES ASSUME NEW k \in Layers, NEW b \in Buffers, WorldOf[k] = WorldOf[b]
               PROVE  Follows(k, b)'
    BY DEF LayersFollow
  <2>1. Follows(k, b)
    BY DEF IInv, LayersFollow
  <2>2. CASE WorldOf[b] = w
    <3>1. ~UnderWay(b) /\ ~UnderWay(b)'
      BY <2>2 DEF UnderWay, MidSwap
    <3> QED
      BY <2>1, <2>2, <3>1 DEF Follows, Listening
  <2>3. CASE WorldOf[b] # w
    <3>1. WorldOf[b] \in Worlds \ {w}
      BY <2>3, VxWorldAssumption
    <3> QED
      BY <2>1, <3>1, <1>1 DEF Follows, Listening, AllResources
  <2> QED
    BY <2>2, <2>3
<1> QED
  BY <1>2, <1>3

\* The replay to the oldest new listener begins: it is still there.
LEMMA TakeListenerStep ==
  ASSUME IInv, NEW w \in Worlds, TakeListener(w)
  PROVE  IInv'
<1> USE DEF TakeListener, Goto, Unchanged
<1> DEFINE l == Head(listenerQueue[w])
<1>1. /\ listenerQueue[w] \in Seq(Layers)
      /\ listenerQueue[w] # <<>>
  BY DEF IInv, Types
<1>2. l \in Layers /\ WorldOf[l] = w /\ layerPc[l] = "joined"
  BY <1>1 DEF IInv, OwnWork
<1>3. {b \in BuffersOf(w) : front[b] # None} \in SUBSET Buffers
  BY DEF BuffersOf
<1>4. Types'
  BY <1>1, <1>2, <1>3 DEF IInv, Types, bufferVars, Replaying, Serving
<1>5. OwnWork'
  <2>1. ASSUME NEW v \in Worlds, NEW i \in DOMAIN listenerQueue'[v]
        PROVE  /\ WorldOf[listenerQueue'[v][i]] = v
               /\ layerPc'[listenerQueue'[v][i]] = "joined"
    <3>1. CASE v = w
      <4>1. listenerQueue'[v] = Tail(listenerQueue[w])
        BY <3>1 DEF IInv, Types
      <4>2. i \in DOMAIN Tail(listenerQueue[w])
        BY <4>1
      <4>3. i + 1 \in DOMAIN listenerQueue[w] /\ listenerQueue'[v][i] = listenerQueue[w][i + 1]
        BY ONLY <1>1, <4>1, <4>2, TailIndex
      <4> QED
        BY <3>1, <4>3 DEF IInv, OwnWork
    <3>2. CASE v # w
      BY <3>2 DEF IInv, OwnWork, Types
    <3> QED
      BY <3>1, <3>2
  <2>2. ASSUME NEW v \in Worlds \ {w}
        PROVE  /\ pc'[v] = pc[v]
               /\ buffer'[v] = buffer[v]
               /\ listener'[v] = listener[v]
               /\ todo'[v] = todo[v]
    BY DEF IInv, Types
  <2>3. /\ pc'[w] = "again"
        /\ listener'[w] = l
        /\ todo'[w] = {b \in BuffersOf(w) : front[b] # None}
    BY DEF IInv, Types
  <2>4. \A b \in todo'[w] : WorldOf[b] = w /\ front[b] # None
    BY <2>3 DEF BuffersOf
  <2> QED
    BY <1>2, <2>1, <2>2, <2>3, <2>4 DEF IInv, OwnWork, Serving, Replaying, bufferVars
<1>6. FrontCached' /\ DisplaysSound' /\ LayersFollow'
  BY QuietFollow DEF IInv, Types, bufferVars
<1> QED
  BY <1>4, <1>5, <1>6 DEF IInv

\* The replay ends.
LEMMA AgainDoneStep ==
  ASSUME IInv, NEW w \in Worlds, AgainDone(w)
  PROVE  IInv'
<1> USE DEF AgainDone, Goto, Unchanged
<1>1. Types'
  BY DEF IInv, Types, bufferVars, queueVars
<1>2. OwnWork'
  BY DEF IInv, Types, OwnWork, Serving, Replaying, bufferVars, queueVars
<1>3. FrontCached' /\ DisplaysSound' /\ LayersFollow'
  BY QuietFollow DEF IInv, Types, bufferVars
<1> QED
  BY <1>1, <1>2, <1>3 DEF IInv

\* The oldest swapped buffer is taken: it is one of this world's.
LEMMA TakeBufferStep ==
  ASSUME IInv, NEW w \in Worlds, TakeBuffer(w)
  PROVE  IInv'
<1> USE DEF TakeBuffer, Goto, Unchanged
<1>1. bufferQueue[w] \in Seq(Buffers) /\ bufferQueue[w] # <<>>
  BY DEF IInv, Types
<1>2. Head(bufferQueue[w]) \in Buffers /\ WorldOf[Head(bufferQueue[w])] = w
  BY <1>1 DEF IInv, OwnWork
<1>3. Types'
  BY <1>1, <1>2 DEF IInv, Types, bufferVars, Serving
<1>4. OwnWork'
  <2>1. ASSUME NEW v \in Worlds, NEW i \in DOMAIN bufferQueue'[v]
        PROVE  WorldOf[bufferQueue'[v][i]] = v
    <3>1. CASE v = w
      <4>1. bufferQueue'[v] = Tail(bufferQueue[w])
        BY <3>1 DEF IInv, Types
      <4>2. i \in DOMAIN Tail(bufferQueue[w])
        BY <4>1
      <4>3. i + 1 \in DOMAIN bufferQueue[w] /\ bufferQueue'[v][i] = bufferQueue[w][i + 1]
        BY ONLY <1>1, <4>1, <4>2, TailIndex
      <4> QED
        BY <3>1, <4>3 DEF IInv, OwnWork
    <3>2. CASE v # w
      BY <3>2 DEF IInv, OwnWork, Types
    <3> QED
      BY <3>1, <3>2
  <2>2. ASSUME NEW v \in Worlds \ {w}
        PROVE  pc'[v] = pc[v] /\ buffer'[v] = buffer[v]
    BY DEF IInv, Types
  <2>3. pc'[w] = "swap" /\ buffer'[w] = Head(bufferQueue[w])
    BY DEF IInv, Types
  <2> QED
    BY <1>2, <2>1, <2>2, <2>3 DEF IInv, OwnWork, Serving, Replaying, bufferVars
<1>5. FrontCached' /\ DisplaysSound' /\ LayersFollow'
  BY QuietFollow DEF IInv, Types, bufferVars
<1> QED
  BY <1>3, <1>4, <1>5 DEF IInv
-----------------------------------------------------------------------------
(* The messages.                                                           *)

\* What every message of w's thread has in common: it is about the one buffer
\* b0 it works on, which the thread of no other world does.
Serves(w, b0) ==
  /\ WorldOf[b0] = w
  /\ UNCHANGED <<layerPc, queueVars>>
  /\ pc[w] \in {"again"} \cup Serving
  /\ pc[w] \in Serving => buffer[w] = b0
  /\ buffer'[w] \in {b0, None}
  /\ pc'[w] \in Serving => buffer'[w] = b0 /\ front'[b0] # None
  /\ pc'[w] \in Replaying => pc[w] \in Replaying /\ listener'[w] = listener[w]
  /\ \A v \in Worlds : todo'[v] \subseteq todo[v]
  /\ \A v \in Worlds \ {w} : /\ pc'[v] = pc[v]
                             /\ buffer'[v] = buffer[v]
                             /\ listener'[v] = listener[v]
  /\ \A b \in Buffers : front[b] # None => front'[b] # None
  /\ \A b \in Buffers \ {b0} : front'[b] = front[b] /\ frontResc'[b] = frontResc[b]

\* A message keeps the strengthening when it does for its buffer.
LEMMA ServeStep ==
  ASSUME IInv, Types', NEW w \in Worlds, NEW b0 \in Buffers, Serves(w, b0),
         \A d \in Displays : Gentle(display[d], display'[d], b0),
         \A d \in Displays :
           display'[d].codes[b0] # None =>
             /\ display'[d].codes[b0] \subseteq display'[d].claims[b0]
             /\ display'[d].codes[b0] \subseteq display'[d].remote,
         (front'[b0] # None /\ ~UnderWay(b0)') => frontResc'[b0] = front'[b0],
         \A l \in Layers : WorldOf[l] = w => Follows(l, b0)'
  PROVE  IInv'
<1>1. OwnWork'
  <2>1. ASSUME NEW v \in Worlds
        PROVE  /\ \A i \in DOMAIN bufferQueue'[v] : WorldOf[bufferQueue'[v][i]] = v
               /\ \A i \in DOMAIN listenerQueue'[v] :
                    /\ WorldOf[listenerQueue'[v][i]] = v
                    /\ layerPc'[listenerQueue'[v][i]] = "joined"
    BY DEF IInv, OwnWork, Serves, queueVars
  <2>2. ASSUME NEW v \in Worlds \ {w}
        PROVE  /\ pc'[v] \in Serving => buffer'[v] \in Buffers /\ WorldOf[buffer'[v]] = v
               /\ pc'[v] \in Serving \ {"swap"} => front'[buffer'[v]] # None
    BY DEF IInv, OwnWork, Serves, Serving
  <2>3. /\ pc'[w] \in Serving => buffer'[w] \in Buffers /\ WorldOf[buffer'[w]] = w
        /\ pc'[w] \in Serving \ {"swap"} => front'[buffer'[w]] # None
    BY DEF Serves
  <2>4. ASSUME NEW v \in Worlds, pc'[v] \in Replaying
        PROVE  /\ listener'[v] \in Layers
               /\ WorldOf[listener'[v]] = v
               /\ layerPc'[listener'[v]] = "joined"
               /\ \A b \in todo'[v] : WorldOf[b] = v /\ front'[b] # None
    <3>1. pc[v] \in Replaying /\ listener'[v] = listener[v]
      BY <2>4 DEF Serves
    <3>2. \A b \in todo'[v] : b \in Buffers /\ b \in todo[v]
      BY DEF IInv, Types, Serves
    <3> QED
      BY <3>1, <3>2 DEF IInv, OwnWork, Serves
  <2> QED
    BY <2>1, <2>2, <2>3, <2>4 DEF OwnWork
<1>2. ASSUME NEW b \in Buffers \ {b0}, WorldOf[b] = w
      PROVE  ~UnderWay(b) /\ ~UnderWay(b)' /\ buffer'[w] # b
  BY <1>2, VxWorldAssumption DEF Serves, UnderWay, MidSwap, Serving
<1>3. ASSUME NEW b \in Buffers, WorldOf[b] # w
      PROVE  /\ pc'[WorldOf[b]] = pc[WorldOf[b]]
             /\ buffer'[WorldOf[b]] = buffer[WorldOf[b]]
             /\ listener'[WorldOf[b]] = listener[WorldOf[b]]
             /\ UnderWay(b)' = UnderWay(b)
  BY <1>3, VxWorldAssumption DEF Serves, UnderWay, MidSwap
<1>4. FrontCached'
  BY <1>2, <1>3 DEF IInv, FrontCached, Serves
<1>5. DisplaysSound'
  <2> SUFFICES ASSUME NEW d \in Displays PROVE Sound(display'[d]) /\ Right(display'[d])
    BY DEF DisplaysSound
  <2>1. Sound(display[d]) /\ Right(display[d]) /\ Gentle(display[d], display'[d], b0)
    BY DEF IInv, DisplaysSound
  <2> QED
    BY <2>1 DEF Sound, Gentle
<1>6. LayersFollow'
  <2> SUFFICES ASSUME NEW l \in Layers, NEW b \in Buffers, WorldOf[l] = WorldOf[b]
               PROVE  Follows(l, b)'
    BY DEF LayersFollow
  <2>1. CASE b = b0
    BY <2>1 DEF Serves
  <2>2. CASE b # b0
    <3>1. /\ Follows(l, b)
          /\ front'[b] = front[b]
          /\ frontResc'[b] = frontResc[b]
          /\ UNCHANGED layerPc
      BY <2>2 DEF IInv, LayersFollow, Serves
    <3> QED
      BY <2>2, <3>1, <1>2, <1>3, OthersFollow DEF IInv
  <2> QED
    BY <2>1, <2>2
<1> QED
  BY <1>1, <1>4, <1>5, <1>6 DEF IInv

\* The displays of a world's listeners.
ShownOn(w) == {DisplayOf[l] : l \in Listeners(w)}

\* A display that is told nothing is as it was, and so is what it shows.
LEMMA SameIsGentle ==
  ASSUME NEW disp \in Display, NEW b0 \in Buffers
  PROVE  Gentle(disp, disp, b0)
BY DEF Gentle

\* Each of the three calls is about one buffer.
LEMMA CallsAreGentle ==
  ASSUME NEW disp \in Display, NEW b0 \in Buffers, NEW claim \in SUBSET Resources,
         NEW codes \in {None} \cup SUBSET Resources
  PROVE  /\ Gentle(disp, BufferResources(disp, b0, claim), b0)
         /\ Gentle(disp, AddResources(disp, claim), b0)
         /\ Gentle(disp, SetRenderCodes(disp, b0, codes), b0)
<1>1. Gentle(disp, BufferResources(disp, b0, claim), b0)
  <2> SUFFICES ASSUME NEW r, r = BufferResources(disp, b0, claim)
               PROVE  Gentle(disp, r, b0)
    OBVIOUS
  <2>1. /\ r \in Display
        /\ r.codes = disp.codes
        /\ r.claims = [disp.claims EXCEPT ![b0] = claim]
        /\ \A c \in Buffers : disp.remote \cap r.claims[c] \subseteq r.remote
        /\ Right(disp) => Right(r)
    BY BufferResourcesFacts
  <2> QED
    BY <2>1 DEF Gentle, Display
<1>2. Gentle(disp, AddResources(disp, claim), b0)
  <2> SUFFICES ASSUME NEW r, r = AddResources(disp, claim)
               PROVE  Gentle(disp, r, b0)
    OBVIOUS
  <2>1. /\ r \in Display
        /\ r.codes = disp.codes
        /\ r.claims = disp.claims
        /\ r.remote = disp.remote \cup claim
        /\ Right(disp) => Right(r)
    BY AddResourcesFacts
  <2> QED
    BY <2>1 DEF Gentle
<1>3. Gentle(disp, SetRenderCodes(disp, b0, codes), b0)
  <2> SUFFICES ASSUME NEW r, r = SetRenderCodes(disp, b0, codes)
               PROVE  Gentle(disp, r, b0)
    OBVIOUS
  <2>1. /\ r \in Display
        /\ r.codes = [disp.codes EXCEPT ![b0] = codes]
        /\ r.claims = disp.claims
        /\ r.remote = disp.remote
        /\ Right(disp) => Right(r)
    BY SetRenderCodesFacts
  <2> QED
    BY <2>1 DEF Gentle, Display
<1> QED
  BY <1>1, <1>2, <1>3

\* What a display shows of a world is what one of its listeners follows.
LEMMA ShownIsFollowed ==
  ASSUME IInv, NEW w \in Worlds, NEW b \in Buffers, WorldOf[b] = w,
         NEW d \in ShownOn(w)
  PROVE  /\ d \in Displays
         /\ \E l \in Layers : /\ WorldOf[l] = w
                              /\ DisplayOf[l] = d
                              /\ Listening(l)
                              /\ Follows(l, b)
BY VxWorldAssumption DEF ShownOn, Listeners, Listening, IInv, LayersFollow

\* A layer that listens is told everything.
LEMMA ListeningIsShown ==
  ASSUME NEW l \in Layers
  PROVE  /\ DisplayOf[l] \in Displays
         /\ Listening(l) => DisplayOf[l] \in ShownOn(WorldOf[l])
BY VxWorldAssumption DEF ShownOn, Listeners, Listening

\* The claim on the last and the new frame: what is drawn until the new codes
\* come is still claimed.
LEMMA DelayedSwapStep ==
  ASSUME IInv, NEW w \in Worlds, DelayedSwap(w)
  PROVE  IInv'
<1> PICK b0 \in Buffers : b0 = buffer[w]
  BY DEF IInv, OwnWork, Serving, DelayedSwap
<1> DEFINE claim == frontResc[b0] \cup pending[b0]
<1>1. /\ WorldOf[b0] = w
      /\ pc[w] = "swap"
      /\ claim \in SUBSET Resources
      /\ pending[b0] \in SUBSET Resources
  BY DEF IInv, Types, OwnWork, Serving, DelayedSwap
<1>2. /\ front' = [front EXCEPT ![b0] = pending[b0]]
      /\ pending' = [pending EXCEPT ![b0] = {}]
      /\ pc' = [pc EXCEPT ![w] = "resources"]
      /\ UNCHANGED <<frontResc, queueVars, buffer, listener, todo, layerPc>>
  BY DEF DelayedSwap, Goto, Unchanged
<1>3. display' = [d \in Displays |-> IF d \in ShownOn(w) THEN BufferResources(display[d], b0, claim)
                                                         ELSE display[d]]
  BY DEF DelayedSwap, TellAll, ShownOn
<1> HIDE DEF claim
<1>4. ASSUME NEW d \in Displays
      PROVE  /\ display[d] \in Display
             /\ Gentle(display[d], display'[d], b0)
             /\ display'[d].codes = display[d].codes
             /\ d \in ShownOn(w) => display'[d].claims[b0] = claim
             /\ d \notin ShownOn(w) => display'[d] = display[d]
  <2>1. display[d] \in Display
    BY DEF IInv, Types
  <2>2. CASE d \in ShownOn(w)
    <3>1. display'[d] = BufferResources(display[d], b0, claim)
      BY <1>3, <2>2
    <3>2. /\ display'[d].codes = display[d].codes
          /\ display'[d].claims = [display[d].claims EXCEPT ![b0] = claim]
      BY <1>1, <2>1, <3>1, BufferResourcesFacts
    <3>3. Gentle(display[d], display'[d], b0)
      BY <1>1, <2>1, <3>1, CallsAreGentle
    <3>4. display'[d].claims[b0] = claim
      BY <2>1, <3>2 DEF Display
    <3> QED
      BY <2>1, <2>2, <3>2, <3>3, <3>4
  <2>3. CASE d \notin ShownOn(w)
    BY <1>1, <1>3, <2>1, <2>3, SameIsGentle
  <2> QED
    BY <2>2, <2>3, <2>1
<1>5. Types'
  BY <1>1, <1>2, <1>3, <1>4 DEF IInv, Types, queueVars, Serving, Gentle
<1>6. Serves(w, b0)
  BY <1>1, <1>2, VxDisplayAssumption DEF IInv, Types, Serves, Serving, Replaying
<1>7. ASSUME NEW d \in Displays, display'[d].codes[b0] # None
      PROVE  /\ display'[d].codes[b0] \subseteq display'[d].claims[b0]
             /\ display'[d].codes[b0] \subseteq display'[d].remote
  <2>1. /\ display[d].codes[b0] \subseteq display[d].claims[b0]
        /\ display[d].codes[b0] \subseteq display[d].remote
    BY <1>1, <1>4, <1>7 DEF IInv, DisplaysSound, Sound
  <2>2. CASE d \in ShownOn(w)
    <3>1. display[d].codes[b0] \subseteq frontResc[b0]
      BY <1>1, <1>4, <1>7, <2>2, ShownIsFollowed DEF Follows
    <3> QED
      BY <1>1, <1>4, <2>1, <2>2, <3>1 DEF Gentle, claim
  <2> QED
    BY <1>4, <2>1, <2>2
<1>8. UnderWay(b0)'
  BY <1>1, <1>2 DEF UnderWay, MidSwap, IInv, Types
<1>9. ASSUME NEW l \in Layers, WorldOf[l] = w
      PROVE  Follows(l, b0)'
  <2>1. Follows(l, b0) /\ DisplayOf[l] \in Displays
    BY <1>1, <1>9, ListeningIsShown DEF IInv, LayersFollow
  <2>2. ~UnderWay(b0) /\ pc'[w] = "resources"
    BY <1>1, <1>2 DEF UnderWay, MidSwap, IInv, Types
  <2>3. AllResources(b0)' = claim
    BY <1>1, <1>2 DEF AllResources, claim, IInv, Types
  <2>4. Listening(l) => display'[DisplayOf[l]].claims[b0] = claim
    BY <1>4, <1>9, <2>1, ListeningIsShown
  <2> QED
    BY <1>1, <1>2, <1>4, <2>1, <2>2, <2>3, <2>4 DEF Follows, Listening
<1> QED
  BY <1>1, <1>4, <1>5, <1>6, <1>7, <1>8, <1>9, ServeStep

\* The last and the new frame's resources are there.
LEMMA SendResourcesStep ==
  ASSUME IInv, NEW w \in Worlds, SendResources(w)
  PROVE  IInv'
<1> PICK b0 \in Buffers : b0 = buffer[w]
  BY DEF IInv, OwnWork, Serving, SendResources
<1> DEFINE resources == AllResources(b0)
<1>1. /\ WorldOf[b0] = w
      /\ pc[w] = "resources"
      /\ front[b0] # None
      /\ resources \in SUBSET Resources
  BY DEF IInv, Types, OwnWork, Serving, SendResources, AllResources
<1>2. /\ pc' = [pc EXCEPT ![w] = "codes"]
      /\ UNCHANGED <<bufferVars, queueVars, buffer, listener, todo, layerPc>>
  BY DEF SendResources, Goto, Unchanged
<1>3. display' = [d \in Displays |-> IF d \in ShownOn(w) THEN AddResources(display[d], resources)
                                                         ELSE display[d]]
  BY DEF SendResources, TellAll, ShownOn
<1>4. resources' = resources
  BY <1>2 DEF AllResources, bufferVars
<1> HIDE DEF resources
<1>5. ASSUME NEW d \in Displays
      PROVE  /\ Gentle(display[d], display'[d], b0)
             /\ display'[d].codes = display[d].codes
             /\ display'[d].claims = display[d].claims
             /\ display[d].remote \subseteq display'[d].remote
             /\ d \in ShownOn(w) => resources \subseteq display'[d].remote
  <2>1. display[d] \in Display
    BY DEF IInv, Types
  <2>2. CASE d \in ShownOn(w)
    <3>1. display'[d] = AddResources(display[d], resources)
      BY <1>3, <2>2
    <3>2. /\ display'[d].codes = display[d].codes
          /\ display'[d].claims = display[d].claims
          /\ display'[d].remote = display[d].remote \cup resources
      BY <1>1, <2>1, <3>1, AddResourcesFacts
    <3> QED
      BY <1>1, <2>1, <3>1, <3>2, CallsAreGentle
  <2>3. CASE d \notin ShownOn(w)
    BY <1>3, <2>1, <2>3, SameIsGentle
  <2> QED
    BY <2>2, <2>3
<1>6. Types'
  BY <1>2, <1>3, <1>5 DEF IInv, Types, bufferVars, queueVars, Serving, Gentle
<1>7. Serves(w, b0)
  BY <1>1, <1>2 DEF IInv, Types, Serves, Serving, Replaying, bufferVars
<1>8. ASSUME NEW d \in Displays, display'[d].codes[b0] # None
      PROVE  /\ display'[d].codes[b0] \subseteq display'[d].claims[b0]
             /\ display'[d].codes[b0] \subseteq display'[d].remote
  BY <1>5, <1>8 DEF IInv, DisplaysSound, Sound
<1>9. UnderWay(b0) /\ UnderWay(b0)' /\ pc'[w] = "codes"
  BY <1>1, <1>2 DEF UnderWay, MidSwap, IInv, Types
<1>10. ASSUME NEW l \in Layers, WorldOf[l] = w
       PROVE  Follows(l, b0)'
  <2>1. Follows(l, b0) /\ DisplayOf[l] \in Displays
    BY <1>1, <1>10, ListeningIsShown DEF IInv, LayersFollow
  <2>2. Listening(l) => resources \subseteq display'[DisplayOf[l]].remote
    BY <1>5, <1>10, ListeningIsShown
  <2> QED
    BY <1>1, <1>2, <1>4, <1>5, <1>9, <2>1, <2>2 DEF Follows, Listening, bufferVars, resources
<1> QED
  BY <1>1, <1>5, <1>6, <1>7, <1>8, <1>9, <1>10, ServeStep

\* The new frame is drawn from now on.  A layer that is yet to join shows
\* nothing of it: its display has no other layer of this world.
LEMMA SendRenderCodesStep ==
  ASSUME Orderly, IInv, NEW w \in Worlds, SendRenderCodes(w)
  PROVE  IInv'
<1> PICK b0 \in Buffers : b0 = buffer[w]
  BY DEF IInv, OwnWork, Serving, SendRenderCodes
<1> DEFINE codes == front[b0]
<1>1. /\ WorldOf[b0] = w
      /\ pc[w] = "codes"
      /\ codes # None
      /\ codes \in {None} \cup SUBSET Resources
  BY DEF IInv, Types, OwnWork, Serving, SendRenderCodes
<1>2. /\ pc' = [pc EXCEPT ![w] = "release"]
      /\ UNCHANGED <<bufferVars, queueVars, buffer, listener, todo, layerPc>>
  BY DEF SendRenderCodes, Goto, Unchanged
<1>3. display' = [d \in Displays |-> IF d \in ShownOn(w) THEN SetRenderCodes(display[d], b0, codes)
                                                         ELSE display[d]]
  BY DEF SendRenderCodes, TellAll, ShownOn
<1>4. codes' = codes
  BY <1>2 DEF bufferVars
<1> HIDE DEF codes
<1>5. ASSUME NEW d \in Displays
      PROVE  /\ Gentle(display[d], display'[d], b0)
             /\ display'[d].claims = display[d].claims
             /\ display'[d].remote = display[d].remote
             /\ d \in ShownOn(w) => display'[d].codes[b0] = codes
             /\ d \notin ShownOn(w) => display'[d].codes = display[d].codes
  <2>1. display[d] \in Display
    BY DEF IInv, Types
  <2>2. CASE d \in ShownOn(w)
    <3>1. display'[d] = SetRenderCodes(display[d], b0, codes)
      BY <1>3, <2>2
    <3>2. /\ display'[d].codes = [display[d].codes EXCEPT ![b0] = codes]
          /\ display'[d].claims = display[d].claims
          /\ display'[d].remote = display[d].remote
      BY <1>1, <2>1, <3>1, SetRenderCodesFacts
    <3>3. Gentle(display[d], display'[d], b0)
      BY <1>1, <2>1, <3>1, CallsAreGentle
    <3>4. display'[d].codes[b0] = codes
      BY <2>1, <3>2 DEF Display
    <3> QED
      BY <2>1, <2>2, <3>2, <3>3, <3>4
  <2>3. CASE d \notin ShownOn(w)
    BY <1>3, <2>1, <2>3, SameIsGentle
  <2> QED
    BY <2>2, <2>3
<1>6. Types'
  BY <1>2, <1>3, <1>5 DEF IInv, Types, bufferVars, queueVars, Serving, Gentle
<1>7. Serves(w, b0)
  BY <1>1, <1>2, <1>4 DEF IInv, Types, Serves, Serving, Replaying, bufferVars, codes
<1>8. UnderWay(b0) /\ UnderWay(b0)' /\ pc'[w] = "release"
  BY <1>1, <1>2 DEF UnderWay, MidSwap, IInv, Types
<1>9. ASSUME NEW d \in Displays, display'[d].codes[b0] # None
      PROVE  /\ display'[d].codes[b0] \subseteq display'[d].claims[b0]
             /\ display'[d].codes[b0] \subseteq display'[d].remote
  <2>1. CASE d \in ShownOn(w)
    <3>1. /\ AllResources(b0) \subseteq display[d].claims[b0]
          /\ AllResources(b0) \subseteq display[d].remote
      BY <1>1, <1>8, <2>1, ShownIsFollowed DEF Follows
    <3> QED
      BY <1>5, <2>1, <3>1 DEF AllResources, codes
  <2>2. CASE d \notin ShownOn(w)
    BY <1>5, <1>9, <2>2 DEF IInv, DisplaysSound, Sound
  <2> QED
    BY <2>1, <2>2
<1>10. ASSUME NEW l \in Layers, WorldOf[l] = w
       PROVE  Follows(l, b0)'
  <2>1. Follows(l, b0) /\ DisplayOf[l] \in Displays
    BY <1>1, <1>10, ListeningIsShown DEF IInv, LayersFollow
  <2>2. Listening(l) => display'[DisplayOf[l]].codes[b0] = codes
    BY <1>5, <1>10, ListeningIsShown
  <2>3. DisplayOf[l] \in ShownOn(w) => Listening(l)
    BY <1>10 DEF ShownOn, Listeners, Listening, Orderly
  <2>4. layerPc[l] = "new" => ~Listening(l)
    BY DEF Listening
  <2> QED
    BY <1>1, <1>2, <1>5, <1>8, <2>1, <2>2, <2>3, <2>4 DEF Follows, Listening, bufferVars, codes
<1> QED
  BY <1>1, <1>5, <1>6, <1>7, <1>8, <1>9, <1>10, ServeStep

\* The last frame's claim is given up: its codes are gone.
LEMMA ClaimActualStep ==
  ASSUME IInv, NEW w \in Worlds, ClaimActual(w)
  PROVE  IInv'
<1> PICK b0 \in Buffers : b0 = buffer[w]
  BY DEF IInv, OwnWork, Serving, ClaimActual
<1> DEFINE claim == front[b0]
<1>1. /\ WorldOf[b0] = w
      /\ pc[w] = "release"
      /\ claim \in SUBSET Resources
  BY DEF IInv, Types, OwnWork, Serving, ClaimActual
<1>2. /\ frontResc' = [frontResc EXCEPT ![b0] = claim]
      /\ buffer' = [buffer EXCEPT ![w] = None]
      /\ pc' = [pc EXCEPT ![w] = "wait"]
      /\ UNCHANGED <<pending, front, queueVars, listener, todo, layerPc>>
  BY DEF ClaimActual, Goto, Unchanged
<1>3. display' = [d \in Displays |-> IF d \in ShownOn(w) THEN BufferResources(display[d], b0, claim)
                                                         ELSE display[d]]
  BY DEF ClaimActual, TellAll, ShownOn
<1> HIDE DEF claim
<1>4. ASSUME NEW d \in Displays
      PROVE  /\ display[d] \in Display
             /\ Gentle(display[d], display'[d], b0)
             /\ display'[d].codes = display[d].codes
             /\ d \in ShownOn(w) => display'[d].claims[b0] = claim
             /\ d \notin ShownOn(w) => display'[d] = display[d]
  <2>1. display[d] \in Display
    BY DEF IInv, Types
  <2>2. CASE d \in ShownOn(w)
    <3>1. display'[d] = BufferResources(display[d], b0, claim)
      BY <1>3, <2>2
    <3>2. /\ display'[d].codes = display[d].codes
          /\ display'[d].claims = [display[d].claims EXCEPT ![b0] = claim]
      BY <1>1, <2>1, <3>1, BufferResourcesFacts
    <3>3. Gentle(display[d], display'[d], b0)
      BY <1>1, <2>1, <3>1, CallsAreGentle
    <3>4. display'[d].claims[b0] = claim
      BY <2>1, <3>2 DEF Display
    <3> QED
      BY <2>1, <2>2, <3>2, <3>3, <3>4
  <2>3. CASE d \notin ShownOn(w)
    BY <1>1, <1>3, <2>1, <2>3, SameIsGentle
  <2> QED
    BY <2>2, <2>3, <2>1
<1>5. Types'
  BY <1>1, <1>2, <1>3, <1>4 DEF IInv, Types, queueVars, Gentle
<1>6. Serves(w, b0)
  BY <1>1, <1>2 DEF IInv, Types, Serves, Serving, Replaying
<1>7. UnderWay(b0) /\ ~UnderWay(b0)' /\ pc'[w] = "wait"
  BY <1>1, <1>2 DEF UnderWay, MidSwap, IInv, Types
<1>8. ASSUME NEW d \in ShownOn(w)
      PROVE  display[d].codes[b0] = claim
  BY <1>1, <1>7, ShownIsFollowed DEF Follows, claim
<1>9. ASSUME NEW d \in Displays, display'[d].codes[b0] # None
      PROVE  /\ display'[d].codes[b0] \subseteq display'[d].claims[b0]
             /\ display'[d].codes[b0] \subseteq display'[d].remote
  <2>1. /\ display[d].codes[b0] \subseteq display[d].claims[b0]
        /\ display[d].codes[b0] \subseteq display[d].remote
    BY <1>4, <1>9 DEF IInv, DisplaysSound, Sound
  <2> QED
    BY <1>4, <1>8, <2>1 DEF Gentle
<1>10. frontResc'[b0] = front'[b0] /\ frontResc'[b0] = claim
  BY <1>1, <1>2 DEF IInv, Types, claim
<1>11. ASSUME NEW l \in Layers, WorldOf[l] = w
       PROVE  Follows(l, b0)'
  <2>1. Follows(l, b0) /\ DisplayOf[l] \in Displays
    BY <1>1, <1>11, ListeningIsShown DEF IInv, LayersFollow
  <2>2. Listening(l) => display'[DisplayOf[l]].codes[b0] = claim
    BY <1>4, <1>8, <1>11, <2>1, ListeningIsShown
  <2> QED
    BY <1>1, <1>2, <1>4, <1>7, <1>10, <2>1, <2>2 DEF Follows, Listening
<1> QED
  BY <1>1, <1>4, <1>5, <1>6, <1>9, <1>10, <1>11, ServeStep
-----------------------------------------------------------------------------
(* The replay to a new listener.                                           *)

\* The layer it is for is there, and the only one of its world on its display.
LEMMA ReplayFacts ==
  ASSUME Orderly, IInv, NEW w \in Worlds, pc[w] \in Replaying
  PROVE  /\ listener[w] \in Layers
         /\ WorldOf[listener[w]] = w
         /\ Listening(listener[w])
         /\ layerPc[listener[w]] = "joined"
         /\ DisplayOf[listener[w]] \in Displays
         /\ \A l \in Layers : (WorldOf[l] = w /\ DisplayOf[l] = DisplayOf[listener[w]])
                                => l = listener[w]
BY VxWorldAssumption DEF IInv, OwnWork, Listening, Orderly

\* The claim on a frame that the listener has or gets.
LEMMA ClaimAgainStep ==
  ASSUME Orderly, IInv, NEW w \in Worlds, ClaimAgain(w)
  PROVE  IInv'
<1> DEFINE l0 == listener[w]
           d0 == DisplayOf[l0]
<1>1. PICK b0 \in todo[w] :
        /\ Tell(w, BufferResources(Again(w), b0, frontResc[b0]))
        /\ buffer' = [buffer EXCEPT ![w] = b0]
        /\ todo' = [todo EXCEPT ![w] = @ \ {b0}]
  BY DEF ClaimAgain
<1>2. /\ pc[w] = "again"
      /\ pc' = [pc EXCEPT ![w] = "resourcesAgain"]
      /\ UNCHANGED <<bufferVars, queueVars, listener, layerPc>>
  BY DEF ClaimAgain, Goto, Unchanged
<1>3. /\ b0 \in Buffers
      /\ WorldOf[b0] = w
      /\ front[b0] # None
      /\ frontResc[b0] \in SUBSET Resources
  BY <1>2 DEF IInv, Types, OwnWork, Replaying
<1>4. /\ l0 \in Layers
      /\ WorldOf[l0] = w
      /\ Listening(l0)
      /\ layerPc[l0] = "joined"
      /\ d0 \in Displays
      /\ \A l \in Layers : (WorldOf[l] = w /\ DisplayOf[l] = d0) => l = l0
  BY <1>2, ReplayFacts DEF Replaying
<1>5. display' = [display EXCEPT ![d0] = BufferResources(display[d0], b0, frontResc[b0])]
  BY <1>1 DEF Tell, Again
<1>6. listener'[w] = l0
  BY <1>2
<1> HIDE DEF l0, d0
<1>7. /\ display[d0] \in Display
      /\ display'[d0] = BufferResources(display[d0], b0, frontResc[b0])
      /\ \A d \in Displays \ {d0} : display'[d] = display[d]
  BY <1>4, <1>5 DEF IInv, Types
<1>8. /\ display'[d0].codes = display[d0].codes
      /\ display'[d0].claims = [display[d0].claims EXCEPT ![b0] = frontResc[b0]]
  BY <1>3, <1>7, BufferResourcesFacts
<1>9. display'[d0].claims[b0] = frontResc[b0]
  BY <1>3, <1>7, <1>8 DEF Display
<1>10. ASSUME NEW d \in Displays
       PROVE  /\ Gentle(display[d], display'[d], b0)
              /\ display'[d].codes = display[d].codes
  <2>1. display[d] \in Display
    BY DEF IInv, Types
  <2>2. CASE d = d0
    <3>1. Gentle(display[d0], display'[d0], b0)
      BY <1>3, <1>7, CallsAreGentle
    <3> QED
      BY <1>8, <2>2, <3>1
  <2>3. CASE d # d0
    <3>1. display'[d] = display[d]
      BY <1>7, <2>3
    <3> QED
      BY <1>3, <2>1, <3>1, SameIsGentle
  <2> QED
    BY <2>2, <2>3
<1>11. Types'
  <2>1. display' \in [Displays -> Display]
    BY <1>5, <1>10 DEF IInv, Types, Gentle
  <2> QED
    BY <1>1, <1>2, <1>3, <2>1 DEF IInv, Types, bufferVars, queueVars, Serving
<1>12. Serves(w, b0)
  BY <1>1, <1>2, <1>3 DEF IInv, Types, Serves, Serving, Replaying, bufferVars
<1>13. Follows(l0, b0) /\ ~UnderWay(b0) /\ ~UnderWay(b0)' /\ pc'[w] = "resourcesAgain"
  BY <1>2, <1>3, <1>4 DEF UnderWay, MidSwap, IInv, Types, LayersFollow
<1>14. ASSUME NEW d \in Displays, display'[d].codes[b0] # None
       PROVE  /\ display'[d].codes[b0] \subseteq display'[d].claims[b0]
              /\ display'[d].codes[b0] \subseteq display'[d].remote
  <2>1. /\ display[d].codes[b0] \subseteq display[d].claims[b0]
        /\ display[d].codes[b0] \subseteq display[d].remote
        /\ display'[d].codes[b0] = display[d].codes[b0]
    BY <1>3, <1>10, <1>14 DEF IInv, DisplaysSound, Sound
  <2>2. CASE d = d0
    <3>1. display[d].codes[b0] \subseteq frontResc[b0]
      BY <1>4, <1>13, <1>14, <2>1, <2>2 DEF Follows, d0
    <3> QED
      BY <1>3, <1>9, <1>10, <2>1, <2>2, <3>1 DEF Gentle
  <2>3. CASE d # d0
    BY <1>7, <2>1, <2>3
  <2> QED
    BY <2>2, <2>3
<1>15. (front'[b0] # None /\ ~UnderWay(b0)') => frontResc'[b0] = front'[b0]
  BY <1>2, <1>3, <1>13 DEF IInv, FrontCached, bufferVars
<1>16. ASSUME NEW l \in Layers, WorldOf[l] = w
       PROVE  Follows(l, b0)'
  <2>1. Follows(l, b0) /\ DisplayOf[l] \in Displays
    BY <1>3, <1>16, VxWorldAssumption DEF IInv, LayersFollow
  <2>2. l = l0 => display'[DisplayOf[l]].claims[b0] = frontResc[b0]
    BY <1>9 DEF d0
  <2> QED
    BY <1>2, <1>3, <1>6, <1>10, <1>13, <2>1, <2>2 DEF Follows, Listening, bufferVars
<1> QED
  BY <1>3, <1>10, <1>11, <1>12, <1>14, <1>15, <1>16, ServeStep

\* Its resources.
LEMMA ResourcesAgainStep ==
  ASSUME Orderly, IInv, NEW w \in Worlds, ResourcesAgain(w)
  PROVE  IInv'
<1> DEFINE l0 == listener[w]
           d0 == DisplayOf[l0]
<1> PICK b0 \in Buffers : b0 = buffer[w]
  BY DEF IInv, OwnWork, Serving, ResourcesAgain
<1>1. /\ pc[w] = "resourcesAgain"
      /\ pc' = [pc EXCEPT ![w] = "codesAgain"]
      /\ UNCHANGED <<bufferVars, queueVars, buffer, listener, todo, layerPc>>
  BY DEF ResourcesAgain, Goto, Unchanged
<1>2. /\ WorldOf[b0] = w
      /\ front[b0] # None
      /\ frontResc[b0] \in SUBSET Resources
  BY <1>1 DEF IInv, Types, OwnWork, Serving
<1>3. /\ l0 \in Layers
      /\ WorldOf[l0] = w
      /\ d0 \in Displays
  BY <1>1, ReplayFacts DEF Replaying
<1>4. display' = [display EXCEPT ![d0] = AddResources(display[d0], frontResc[b0])]
  BY DEF ResourcesAgain, Tell, Again
<1>5. listener'[w] = l0
  BY <1>1
<1> HIDE DEF l0, d0
<1>6. /\ display[d0] \in Display
      /\ display'[d0] = AddResources(display[d0], frontResc[b0])
      /\ \A d \in Displays \ {d0} : display'[d] = display[d]
  BY <1>3, <1>4 DEF IInv, Types
<1>7. /\ display'[d0].codes = display[d0].codes
      /\ display'[d0].claims = display[d0].claims
      /\ display'[d0].remote = display[d0].remote \cup frontResc[b0]
  BY <1>2, <1>6, AddResourcesFacts
<1>8. ASSUME NEW d \in Displays
      PROVE  /\ Gentle(display[d], display'[d], b0)
             /\ display'[d].codes = display[d].codes
             /\ display'[d].claims = display[d].claims
             /\ display[d].remote \subseteq display'[d].remote
  <2>1. display[d] \in Display
    BY DEF IInv, Types
  <2>2. CASE d = d0
    <3>1. Gentle(display[d0], display'[d0], b0)
      BY <1>2, <1>6, CallsAreGentle
    <3> QED
      BY <1>7, <2>2, <3>1
  <2>3. CASE d # d0
    <3>1. display'[d] = display[d]
      BY <1>6, <2>3
    <3> QED
      BY <2>1, <3>1, SameIsGentle
  <2> QED
    BY <2>2, <2>3
<1>9. Types'
  <2>1. display' \in [Displays -> Display]
    BY <1>4, <1>8 DEF IInv, Types, Gentle
  <2> QED
    BY <1>1, <2>1 DEF IInv, Types, bufferVars, queueVars, Serving
<1>10. Serves(w, b0)
  BY <1>1, <1>2 DEF IInv, Types, Serves, Serving, Replaying, bufferVars
<1>11. ~UnderWay(b0) /\ ~UnderWay(b0)' /\ pc'[w] = "codesAgain"
  BY <1>1, <1>2 DEF UnderWay, MidSwap, IInv, Types
<1>12. ASSUME NEW d \in Displays, display'[d].codes[b0] # None
       PROVE  /\ display'[d].codes[b0] \subseteq display'[d].claims[b0]
              /\ display'[d].codes[b0] \subseteq display'[d].remote
  BY <1>8, <1>12 DEF IInv, DisplaysSound, Sound
<1>13. (front'[b0] # None /\ ~UnderWay(b0)') => frontResc'[b0] = front'[b0]
  BY <1>1, <1>11 DEF IInv, FrontCached, bufferVars
<1>14. ASSUME NEW l \in Layers, WorldOf[l] = w
       PROVE  Follows(l, b0)'
  <2>1. Follows(l, b0) /\ DisplayOf[l] \in Displays
    BY <1>2, <1>14, VxWorldAssumption DEF IInv, LayersFollow
  <2>2. l = l0 => frontResc[b0] \subseteq display'[DisplayOf[l]].remote
    BY <1>7 DEF d0
  <2> QED
    BY <1>1, <1>2, <1>5, <1>8, <1>11, <2>1, <2>2 DEF Follows, Listening, bufferVars
<1> QED
  BY <1>8, <1>9, <1>10, <1>12, <1>13, <1>14, ServeStep

\* Its codes: what they name was claimed and sent to this display.
LEMMA CodesAgainStep ==
  ASSUME Orderly, IInv, NEW w \in Worlds, CodesAgain(w)
  PROVE  IInv'
<1> DEFINE l0 == listener[w]
           d0 == DisplayOf[l0]
<1> PICK b0 \in Buffers : b0 = buffer[w]
  BY DEF IInv, OwnWork, Serving, CodesAgain
<1>1. /\ pc[w] = "codesAgain"
      /\ pc' = [pc EXCEPT ![w] = "again"]
      /\ buffer' = [buffer EXCEPT ![w] = None]
      /\ UNCHANGED <<bufferVars, queueVars, listener, todo, layerPc>>
  BY DEF CodesAgain, Goto, Unchanged
<1>2. /\ WorldOf[b0] = w
      /\ front[b0] # None
      /\ front[b0] \in SUBSET Resources
  BY <1>1 DEF IInv, Types, OwnWork, Serving
<1>3. /\ l0 \in Layers
      /\ WorldOf[l0] = w
      /\ layerPc[l0] = "joined"
      /\ d0 \in Displays
      /\ \A l \in Layers : (WorldOf[l] = w /\ DisplayOf[l] = d0) => l = l0
  BY <1>1, ReplayFacts DEF Replaying
<1>4. display' = [display EXCEPT ![d0] = SetRenderCodes(display[d0], b0, front[b0])]
  BY DEF CodesAgain, Tell, Again
<1>5. listener[w] = l0
  OBVIOUS
<1> HIDE DEF l0, d0
<1>6. /\ display[d0] \in Display
      /\ display'[d0] = SetRenderCodes(display[d0], b0, front[b0])
      /\ \A d \in Displays \ {d0} : display'[d] = display[d]
  BY <1>3, <1>4 DEF IInv, Types
<1>7. /\ display'[d0].codes = [display[d0].codes EXCEPT ![b0] = front[b0]]
      /\ display'[d0].claims = display[d0].claims
      /\ display'[d0].remote = display[d0].remote
  BY <1>2, <1>6, SetRenderCodesFacts
<1>8. display'[d0].codes[b0] = front[b0]
  BY <1>6, <1>7 DEF Display
<1>9. ASSUME NEW d \in Displays
      PROVE  Gentle(display[d], display'[d], b0)
  <2>1. display[d] \in Display
    BY DEF IInv, Types
  <2>2. CASE d = d0
    BY <1>2, <1>6, <2>2, CallsAreGentle
  <2>3. CASE d # d0
    <3>1. display'[d] = display[d]
      BY <1>6, <2>3
    <3> QED
      BY <2>1, <3>1, SameIsGentle
  <2> QED
    BY <2>2, <2>3
<1>10. Types'
  <2>1. display' \in [Displays -> Display]
    BY <1>4, <1>9 DEF IInv, Types, Gentle
  <2> QED
    BY <1>1, <2>1 DEF IInv, Types, bufferVars, queueVars, Replaying
<1>11. Serves(w, b0)
  BY <1>1, <1>2 DEF IInv, Types, Serves, Serving, Replaying, bufferVars
<1>12. ~UnderWay(b0) /\ ~UnderWay(b0)' /\ pc'[w] = "again"
  BY <1>1, <1>2 DEF UnderWay, MidSwap, IInv, Types
<1>13. frontResc[b0] = front[b0]
  BY <1>2, <1>12 DEF IInv, FrontCached
<1>14. ASSUME NEW d \in Displays, display'[d].codes[b0] # None
       PROVE  /\ display'[d].codes[b0] \subseteq display'[d].claims[b0]
              /\ display'[d].codes[b0] \subseteq display'[d].remote
  <2>1. CASE d = d0
    <3>1. Follows(l0, b0)
      BY <1>2, <1>3 DEF IInv, LayersFollow
    <3>2. /\ frontResc[b0] \subseteq display[d0].claims[b0]
          /\ frontResc[b0] \subseteq display[d0].remote
      BY <1>1, <1>2, <1>5, <3>1 DEF Follows, d0
    <3> QED
      BY <1>7, <1>8, <1>13, <2>1, <3>2
  <2>2. CASE d # d0
    <3>1. display'[d] = display[d]
      BY <1>6, <2>2
    <3> QED
      BY <1>14, <3>1 DEF IInv, DisplaysSound, Sound
  <2> QED
    BY <2>1, <2>2
<1>15. (front'[b0] # None /\ ~UnderWay(b0)') => frontResc'[b0] = front'[b0]
  BY <1>1, <1>13 DEF bufferVars
<1>16. ASSUME NEW l \in Layers, WorldOf[l] = w
       PROVE  Follows(l, b0)'
  <2>1. Follows(l, b0) /\ DisplayOf[l] \in Displays
    BY <1>2, <1>16, VxWorldAssumption DEF IInv, LayersFollow
  <2>2. CASE l = l0
    <3>1. display'[DisplayOf[l]].codes[b0] \subseteq frontResc'[b0]
      BY <1>1, <1>8, <1>13, <2>2 DEF d0, bufferVars
    <3> QED
      BY <1>1, <1>2, <1>3, <1>12, <2>1, <2>2, <3>1 DEF Follows, Listening
  <2>3. CASE l # l0
    <3>1. display'[DisplayOf[l]] = display[DisplayOf[l]]
      BY <1>3, <1>6, <1>16, <2>1, <2>3
    <3> QED
      BY <1>1, <1>2, <1>12, <2>1, <3>1 DEF Follows, Listening, bufferVars
  <2> QED
    BY <2>2, <2>3
<1> QED
  BY <1>9, <1>10, <1>11, <1>14, <1>15, <1>16, ServeStep
-----------------------------------------------------------------------------
(* The renderer, and all steps.                                            *)

\* Drawing a frame changes nothing of what is drawn.
LEMMA RenderStep ==
  ASSUME IInv, NEW d0 \in Displays, Render(d0)
  PROVE  IInv'
<1> USE DEF Render
<1>1. ASSUME NEW d \in Displays
      PROVE  /\ display'[d] \in Display
             /\ display'[d].codes = display[d].codes
             /\ display'[d].claims = display[d].claims
             /\ display'[d].remote = display[d].remote
             /\ Right(display[d]) => Right(display'[d])
  <2>1. display[d] \in Display
    BY DEF IInv, Types
  <2>2. CASE d = d0
    <3>1. display'[d] = DrawFrame(display[d])
      BY <2>2 DEF IInv, Types
    <3> QED
      BY <2>1, <3>1, DrawFrameFacts
  <2>3. CASE d # d0
    BY <2>1, <2>3 DEF IInv, Types
  <2> QED
    BY <2>2, <2>3
<1>2. Types'
  <2>1. display' \in [Displays -> Display]
    BY <1>1 DEF IInv, Types
  <2> QED
    BY <2>1 DEF IInv, Types, bufferVars, queueVars, threadVars
<1>3. OwnWork' /\ FrontCached'
  BY DEF IInv, OwnWork, FrontCached, UnderWay, MidSwap, bufferVars, queueVars, threadVars
<1>4. DisplaysSound'
  BY <1>1 DEF IInv, DisplaysSound, Sound
<1>5. LayersFollow'
  <2> SUFFICES ASSUME NEW l \in Layers, NEW b \in Buffers, WorldOf[l] = WorldOf[b]
               PROVE  Follows(l, b)'
    BY DEF LayersFollow
  <2>1. Follows(l, b) /\ DisplayOf[l] \in Displays
    BY VxWorldAssumption DEF IInv, LayersFollow
  <2>2. UnderWay(b)' = UnderWay(b) /\ AllResources(b)' = AllResources(b)
    BY DEF UnderWay, MidSwap, AllResources, bufferVars, threadVars
  <2> QED
    BY <1>1, <2>1, <2>2 DEF Follows, Listening, bufferVars, threadVars
<1> QED
  BY <1>2, <1>3, <1>4, <1>5 DEF IInv

\* Every step of every program, layer, world and renderer.
LEMMA InvStep == ASSUME Orderly PROVE IInv /\ [Next]_vars => IInv'
<1> SUFFICES ASSUME IInv, [Next]_vars PROVE IInv'
  OBVIOUS
<1>1. CASE UNCHANGED vars
  <2>1. Types'
    BY <1>1 DEF IInv, Types, vars, bufferVars, queueVars, threadVars
  <2> QED
    BY <1>1, <2>1, Frame DEF IInv, vars, bufferVars
<1>2. ASSUME NEW b \in Buffers, NEW frame \in Frames[b], Swap(b, frame) PROVE IInv'
  BY <1>2, SwapStep
<1>3. ASSUME NEW b \in Buffers, FlagSwap(b) PROVE IInv'
  BY <1>3, FlagSwapStep
<1>4. ASSUME NEW l \in Layers, AddListener(l) PROVE IInv'
  BY <1>4, AddListenerStep
<1>5. ASSUME NEW l \in Layers, QueueListener(l) PROVE IInv'
  BY <1>5, QueueListenerStep
<1>6. ASSUME NEW l \in Layers, RemoveListener(l) \/ ForgetDisplay(l) PROVE IInv'
  BY <1>6, LeaveStep
<1>7. ASSUME NEW w \in Worlds, ProcessThread(w) PROVE IInv'
  BY <1>7, TakeListenerStep, ClaimAgainStep, ResourcesAgainStep, CodesAgainStep,
     AgainDoneStep, TakeBufferStep, DelayedSwapStep, SendResourcesStep,
     SendRenderCodesStep, ClaimActualStep DEF ProcessThread
<1>8. ASSUME NEW d \in Displays, Render(d) PROVE IInv'
  BY <1>8, RenderStep
<1> QED
  BY <1>1, <1>2, <1>3, <1>4, <1>5, <1>6, <1>7, <1>8 DEF Next

\* The strengthening always holds.
LEMMA Invariance == ASSUME Orderly PROVE Spec => []IInv
<1>1. Init => IInv
  BY InvInit
<1>2. IInv /\ [Next]_vars => IInv'
  BY InvStep
<1> QED
  BY <1>1, <1>2, PTL DEF Spec

\* Whatever a display draws is there to be drawn with, and not about to be
\* deleted, whoever swaps, joins, leaves or renders.
THEOREM DrawsWithWhatItHas == ASSUME Orderly PROVE Spec => []RenderHasResources
<1>1. IInv => RenderHasResources
  BY DEF IInv, DisplaysSound, Sound, Right, RenderHasResources
<1> QED
  BY <1>1, Invariance, PTL

\* The resource manager's record of the renderer's resources is right.
THEOREM RecordIsRight == ASSUME Orderly PROVE Spec => []ManagerKnowsRenderer
<1>1. IInv => ManagerKnowsRenderer
  BY DEF IInv, DisplaysSound, Right, ManagerKnowsRenderer
<1> QED
  BY <1>1, Invariance, PTL
-----------------------------------------------------------------------------
(* Nothing is kept for longer than it is needed: a second strengthening, on *)
(* top of the first.                                                        *)

\* The replay of b to layer l is between its first and its last message.
Replays(l, b) ==
  LET w == WorldOf[b]
  IN listener[w] = l /\ buffer[w] = b /\ pc[w] \in {"resourcesAgain", "codesAgain"}

Drawn(disp, b) == IF disp.codes[b] = None THEN {} ELSE disp.codes[b]

\* What a layer's display claims for b is no more than what is drawn of b, but
\* while messages about it are under way.
Tight(l, b) ==
  LET disp == display[DisplayOf[l]] IN
  Listening(l) =>
    /\ UnderWay(b) => disp.claims[b] \subseteq AllResources(b)
    /\ (UnderWay(b) /\ pc[WorldOf[b]] # "resources") => disp.claims[b] \subseteq disp.remote
    /\ ~UnderWay(b) => disp.claims[b] \subseteq frontResc[b]
    /\ (~UnderWay(b) /\ ~Replays(l, b)) => disp.claims[b] \subseteq Drawn(disp, b)

LayersTight ==
  \A l \in Layers, b \in Buffers : WorldOf[l] = WorldOf[b] => Tight(l, b)

\* What a display was sent is claimed.
NothingStray == \A d \in Displays : display[d].remote \subseteq Claimed(display[d].claims)

\* Some layer of b's world has come to listen on display d.
Shown(d, b) == \E l \in Layers : WorldOf[l] = WorldOf[b] /\ DisplayOf[l] = d /\ layerPc[l] # "new"

\* Only displays of layers that have come to listen have claims.
OnlyShownClaimed ==
  \A d \in Displays, b \in Buffers : display[d].claims[b] # {} => Shown(d, b)

Neat == LayersTight /\ NothingStray /\ OnlyShownClaimed

\* What the step does to the claims is what ClaimsEndAfterSending asks.
ClaimsEndWell ==
  \A d \in Displays :
    Claimed(display[d].claims) \ Claimed(display'[d].claims) \subseteq display[d].remote

\* Nothing is claimed at first, so nothing too much.
LEMMA NeatInit == Init => Neat
BY DEF Init, Neat, LayersTight, Tight, Listening, NothingStray, OnlyShownClaimed, EmptyDisplay

\* Steps without messages of a world, unless a layer begins to listen.
LEMMA NeatStays ==
  ASSUME Neat, UNCHANGED <<front, frontResc>>,
         \A d \in Displays : /\ display'[d].claims = display[d].claims
                             /\ display'[d].codes = display[d].codes
                             /\ display'[d].remote = display[d].remote,
         \A l \in Layers : /\ Listening(l)' => Listening(l)
                           /\ layerPc'[l] = "new" => layerPc[l] = "new",
         \A b \in Buffers : /\ UnderWay(b)' <=> UnderWay(b)
                            /\ UnderWay(b) => pc'[WorldOf[b]] = pc[WorldOf[b]],
         \A l \in Layers, b \in Buffers : Replays(l, b)' <=> Replays(l, b)
  PROVE  Neat' /\ ClaimsEndWell
<1>1. LayersTight'
  <2> SUFFICES ASSUME NEW l \in Layers, NEW b \in Buffers, WorldOf[l] = WorldOf[b]
               PROVE  Tight(l, b)'
    BY DEF LayersTight
  <2>1. Tight(l, b) /\ DisplayOf[l] \in Displays
    BY VxWorldAssumption DEF Neat, LayersTight
  <2>2. Drawn(display[DisplayOf[l]], b)' = Drawn(display[DisplayOf[l]], b)
    BY <2>1 DEF Drawn
  <2> QED
    BY <2>1, <2>2 DEF Tight, AllResources
<1>2. NothingStray'
  BY DEF Neat, NothingStray
<1>3. OnlyShownClaimed'
  BY DEF Neat, OnlyShownClaimed, Shown
<1>4. ClaimsEndWell
  BY DEF ClaimsEndWell
<1> QED
  BY <1>1, <1>2, <1>3, <1>4 DEF Neat

\* vx_world_add_listener: the new layer's display claims nothing of its world's
\* buffers, for no other layer of that world has ever been on it.
LEMMA NeatAddListener ==
  ASSUME Orderly, IInv, Neat, NEW l \in Layers, AddListener(l)
  PROVE  Neat' /\ ClaimsEndWell
<1> USE DEF AddListener, MoveLayer, bufferVars, threadVars
<1>1. /\ layerPc[l] = "new"
      /\ layerPc'[l] = "listed"
      /\ \A k \in Layers \ {l} : layerPc'[k] = layerPc[k]
  BY DEF IInv, Types
<1>2. ASSUME NEW b \in Buffers, WorldOf[l] = WorldOf[b]
      PROVE  display[DisplayOf[l]].claims[b] = {}
  <2>1. ~ Shown(DisplayOf[l], b)
    BY <1>1, <1>2 DEF Shown, Orderly
  <2> QED
    BY <2>1, VxWorldAssumption DEF Neat, OnlyShownClaimed
<1>3. LayersTight'
  <2> SUFFICES ASSUME NEW k \in Layers, NEW b \in Buffers, WorldOf[k] = WorldOf[b]
               PROVE  Tight(k, b)'
    BY DEF LayersTight
  <2>1. CASE k = l
    BY <2>1, <1>2 DEF Tight
  <2>2. CASE k # l
    <3>1. Tight(k, b)
      BY DEF Neat, LayersTight
    <3> QED
      BY <2>2, <3>1, <1>1 DEF Tight, Listening, UnderWay, MidSwap, Replays, AllResources
  <2> QED
    BY <2>1, <2>2
<1>4. NothingStray'
  BY DEF Neat, NothingStray
<1>5. OnlyShownClaimed'
  <2>1. ASSUME NEW d \in Displays, NEW b \in Buffers, Shown(d, b)
        PROVE  Shown(d, b)'
    BY <1>1, <2>1 DEF Shown
  <2> QED
    BY <2>1 DEF Neat, OnlyShownClaimed
<1>6. ClaimsEndWell
  BY DEF ClaimsEndWell
<1> QED
  BY <1>3, <1>4, <1>5, <1>6 DEF Neat

\* A message keeps displays neat when it does for its buffer.
LEMMA NeatServe ==
  ASSUME IInv, Neat, NEW w \in Worlds, NEW b0 \in Buffers, Serves(w, b0),
         \A d \in Displays : Gentle(display[d], display'[d], b0),
         \A d \in Displays :
           /\ display'[d].remote \subseteq Claimed(display'[d].claims)
           /\ display[d].claims[b0] \ display'[d].claims[b0] \subseteq display[d].remote
           /\ display'[d].claims[b0] # {} => Shown(d, b0),
         \A l \in Layers : WorldOf[l] = w => Tight(l, b0)'
  PROVE  Neat' /\ ClaimsEndWell
<1>1. ASSUME NEW b \in Buffers \ {b0}, WorldOf[b] = w
      PROVE  /\ ~UnderWay(b) /\ ~UnderWay(b)'
             /\ \A l \in Layers : ~Replays(l, b) /\ ~Replays(l, b)'
  <2>1. buffer'[w] # b /\ (pc[w] \in Serving => buffer[w] # b)
    BY VxWorldAssumption DEF Serves
  <2> QED
    BY <1>1, <2>1 DEF UnderWay, MidSwap, Serving, Replays
<1>2. ASSUME NEW b \in Buffers, WorldOf[b] # w
      PROVE  /\ pc'[WorldOf[b]] = pc[WorldOf[b]]
             /\ UnderWay(b)' = UnderWay(b)
             /\ \A l \in Layers : Replays(l, b)' = Replays(l, b)
  BY <1>2, VxWorldAssumption DEF Serves, UnderWay, MidSwap, Replays
<1>3. LayersTight'
  <2> SUFFICES ASSUME NEW l \in Layers, NEW b \in Buffers, WorldOf[l] = WorldOf[b]
               PROVE  Tight(l, b)'
    BY DEF LayersTight
  <2>1. CASE b = b0
    BY <2>1 DEF Serves
  <2>2. CASE b # b0
    <3> DEFINE old == display[DisplayOf[l]]
               new == display'[DisplayOf[l]]
    <3>1. Tight(l, b) /\ DisplayOf[l] \in Displays
      BY VxWorldAssumption DEF Neat, LayersTight
    <3>2. /\ new.claims[b] = old.claims[b]
          /\ Drawn(new, b) = Drawn(old, b)
          /\ old.remote \cap new.claims[b] \subseteq new.remote
      BY <2>2, <3>1 DEF Gentle, Drawn
    <3>3. /\ AllResources(b)' = AllResources(b)
          /\ frontResc'[b] = frontResc[b]
          /\ Listening(l)' = Listening(l)
      BY <2>2 DEF Serves, AllResources, Listening
    <3> HIDE DEF old, new
    <3>4. CASE WorldOf[b] = w
      <4>1. ~UnderWay(b) /\ ~UnderWay(b)' /\ ~Replays(l, b) /\ ~Replays(l, b)'
        BY <1>1, <2>2, <3>4
      <4> QED
        BY <3>1, <3>2, <3>3, <4>1 DEF Tight, old, new
    <3>5. CASE WorldOf[b] # w
      <4>1. /\ pc'[WorldOf[b]] = pc[WorldOf[b]]
            /\ UnderWay(b)' = UnderWay(b)
            /\ Replays(l, b)' = Replays(l, b)
        BY <1>2, <3>5
      <4> QED
        BY <3>1, <3>2, <3>3, <4>1 DEF Tight, old, new
    <3> QED
      BY <3>4, <3>5
  <2> QED
    BY <2>1, <2>2
<1>4. NothingStray'
  BY DEF NothingStray
<1>5. OnlyShownClaimed'
  <2> SUFFICES ASSUME NEW d \in Displays, NEW b \in Buffers, display'[d].claims[b] # {}
               PROVE  Shown(d, b)'
    BY DEF OnlyShownClaimed
  <2>1. Shown(d, b)
    BY DEF Neat, OnlyShownClaimed, Gentle
  <2> QED
    BY <2>1 DEF Shown, Serves
<1>6. ClaimsEndWell
  <2> SUFFICES ASSUME NEW d \in Displays, NEW b \in Buffers, NEW x \in display[d].claims[b],
                      x \notin Claimed(display'[d].claims)
               PROVE  x \in display[d].remote
    BY DEF ClaimsEndWell, Claimed
  <2>1. x \notin display'[d].claims[b]
    BY DEF Claimed
  <2>2. b = b0
    BY <2>1 DEF Gentle
  <2> QED
    BY <2>1, <2>2
<1> QED
  BY <1>3, <1>4, <1>5, <1>6 DEF Neat

\* Replacing the claim leaves nothing on the display that nobody claims.
LEMMA BufferResourcesTidy ==
  ASSUME NEW disp \in Display, NEW b \in Buffers, NEW claim \in SUBSET Resources,
         NEW r, r = BufferResources(disp, b, claim),
         disp.remote \subseteq Claimed(disp.claims)
  PROVE  r.remote \subseteq Claimed(r.claims)
<1> DEFINE claims == [disp.claims EXCEPT ![b] = claim]
           unused == disp.claims[b] \ Claimed(claims)
<1>1. r.claims = claims /\ r.remote = disp.remote \ unused
  BY DEF BufferResources, Display
<1>2. ASSUME NEW x \in disp.remote, x \notin unused
      PROVE  x \in Claimed(claims)
  <2>1. PICK c \in Buffers : x \in disp.claims[c]
    BY DEF Claimed
  <2>2. CASE c = b
    BY <1>2, <2>1, <2>2
  <2>3. CASE c # b
    <3>1. claims[c] = disp.claims[c]
      BY <2>3 DEF Display
    <3> HIDE DEF claims
    <3> QED
      BY <2>1, <3>1 DEF Claimed
  <2> QED
    BY <2>2, <2>3
<1> QED
  BY <1>1, <1>2

\* What a display shows of a world is what one of its listeners draws.
LEMMA ShownIsTight ==
  ASSUME IInv, Neat, NEW w \in Worlds, NEW b \in Buffers, WorldOf[b] = w,
         NEW d \in ShownOn(w)
  PROVE  /\ d \in Displays
         /\ Shown(d, b)
         /\ \E l \in Layers : /\ WorldOf[l] = w
                              /\ DisplayOf[l] = d
                              /\ Listening(l)
                              /\ Follows(l, b)
                              /\ Tight(l, b)
BY VxWorldAssumption DEF ShownOn, Listeners, Listening, IInv, LayersFollow, Neat,
                         LayersTight, Shown

\* The claim on the last and the new frame includes the old one.
LEMMA NeatDelayedSwap ==
  ASSUME IInv, Neat, NEW w \in Worlds, DelayedSwap(w)
  PROVE  Neat' /\ ClaimsEndWell
<1> PICK b0 \in Buffers : b0 = buffer[w]
  BY DEF IInv, OwnWork, Serving, DelayedSwap
<1> DEFINE claim == frontResc[b0] \cup pending[b0]
<1>1. /\ WorldOf[b0] = w
      /\ pc[w] = "swap"
      /\ claim \in SUBSET Resources
      /\ pending[b0] \in SUBSET Resources
  BY DEF IInv, Types, OwnWork, Serving, DelayedSwap
<1>2. /\ front' = [front EXCEPT ![b0] = pending[b0]]
      /\ pc' = [pc EXCEPT ![w] = "resources"]
      /\ UNCHANGED <<frontResc, queueVars, buffer, listener, todo, layerPc>>
  BY DEF DelayedSwap, Goto, Unchanged
<1>3. display' = [d \in Displays |-> IF d \in ShownOn(w) THEN BufferResources(display[d], b0, claim)
                                                         ELSE display[d]]
  BY DEF DelayedSwap, TellAll, ShownOn
<1>4. AllResources(b0)' = claim
  BY <1>1, <1>2 DEF AllResources, IInv, Types
<1>5. ~UnderWay(b0) /\ UnderWay(b0)' /\ pc'[w] = "resources"
  BY <1>1, <1>2 DEF UnderWay, MidSwap, IInv, Types
<1>6. Serves(w, b0)
  BY <1>1, <1>2, VxDisplayAssumption DEF IInv, Types, Serves, Serving, Replaying
<1>7. frontResc[b0] \subseteq claim
  OBVIOUS
<1> HIDE DEF claim
<1>8. ASSUME NEW d \in Displays
      PROVE  /\ Gentle(display[d], display'[d], b0)
             /\ display'[d].remote \subseteq Claimed(display'[d].claims)
             /\ display[d].claims[b0] \subseteq display'[d].claims[b0]
             /\ display'[d].claims[b0] # {} => Shown(d, b0)
             /\ d \in ShownOn(w) => display'[d].claims[b0] = claim
  <2>1. display[d] \in Display /\ display[d].remote \subseteq Claimed(display[d].claims)
    BY DEF IInv, Types, Neat, NothingStray
  <2>2. CASE d \in ShownOn(w)
    <3>1. display'[d] = BufferResources(display[d], b0, claim)
      BY <1>3, <2>2
    <3>2. display'[d].claims[b0] = claim
      <4>1. display'[d].claims = [display[d].claims EXCEPT ![b0] = claim]
        BY <1>1, <2>1, <3>1, BufferResourcesFacts
      <4> QED
        BY <2>1, <4>1 DEF Display
    <3>3. Gentle(display[d], display'[d], b0)
      BY <1>1, <2>1, <3>1, CallsAreGentle
    <3>4. display[d].claims[b0] \subseteq frontResc[b0] /\ Shown(d, b0)
      BY <1>1, <1>5, <2>2, ShownIsTight DEF Tight
    <3>5. display'[d].remote \subseteq Claimed(display'[d].claims)
      BY <1>1, <2>1, <3>1, BufferResourcesTidy
    <3> QED
      BY <1>7, <3>2, <3>3, <3>4, <3>5
  <2>3. CASE d \notin ShownOn(w)
    <3>1. display'[d] = display[d]
      BY <1>3, <2>3
    <3> QED
      BY <2>1, <2>3, <3>1, SameIsGentle DEF Neat, OnlyShownClaimed
  <2> QED
    BY <2>2, <2>3
<1>9. ASSUME NEW l \in Layers, WorldOf[l] = w
      PROVE  Tight(l, b0)'
  <2>1. Listening(l)' => display'[DisplayOf[l]].claims[b0] = claim
    BY <1>2, <1>8, <1>9, ListeningIsShown DEF Listening
  <2> QED
    BY <1>1, <1>4, <1>5, <2>1 DEF Tight
<1> QED
  BY <1>1, <1>6, <1>8, <1>9, NeatServe

\* All that is claimed is sent.
LEMMA NeatSendResources ==
  ASSUME IInv, Neat, NEW w \in Worlds, SendResources(w)
  PROVE  Neat' /\ ClaimsEndWell
<1> PICK b0 \in Buffers : b0 = buffer[w]
  BY DEF IInv, OwnWork, Serving, SendResources
<1> DEFINE resources == AllResources(b0)
<1>1. /\ WorldOf[b0] = w
      /\ pc[w] = "resources"
      /\ front[b0] # None
      /\ resources \in SUBSET Resources
  BY DEF IInv, Types, OwnWork, Serving, SendResources, AllResources
<1>2. /\ pc' = [pc EXCEPT ![w] = "codes"]
      /\ UNCHANGED <<bufferVars, queueVars, buffer, listener, todo, layerPc>>
  BY DEF SendResources, Goto, Unchanged
<1>3. display' = [d \in Displays |-> IF d \in ShownOn(w) THEN AddResources(display[d], resources)
                                                         ELSE display[d]]
  BY DEF SendResources, TellAll, ShownOn
<1>4. resources' = resources
  BY <1>2 DEF AllResources, bufferVars
<1>5. UnderWay(b0) /\ UnderWay(b0)' /\ pc'[w] = "codes"
  BY <1>1, <1>2 DEF UnderWay, MidSwap, IInv, Types
<1>6. Serves(w, b0)
  BY <1>1, <1>2 DEF IInv, Types, Serves, Serving, Replaying, bufferVars
<1> HIDE DEF resources
<1>7. ASSUME NEW d \in Displays
      PROVE  /\ Gentle(display[d], display'[d], b0)
             /\ display'[d].remote \subseteq Claimed(display'[d].claims)
             /\ display'[d].claims = display[d].claims
             /\ display'[d].claims[b0] # {} => Shown(d, b0)
             /\ d \in ShownOn(w) => /\ display[d].claims[b0] \subseteq resources
                                    /\ resources \subseteq display'[d].remote
  <2>1. display[d] \in Display /\ display[d].remote \subseteq Claimed(display[d].claims)
    BY DEF IInv, Types, Neat, NothingStray
  <2>2. CASE d \in ShownOn(w)
    <3>1. display'[d] = AddResources(display[d], resources)
      BY <1>3, <2>2
    <3>2. /\ display'[d].claims = display[d].claims
          /\ display'[d].remote = display[d].remote \cup resources
      BY <1>1, <2>1, <3>1, AddResourcesFacts
    <3>3. Gentle(display[d], display'[d], b0)
      BY <1>1, <2>1, <3>1, CallsAreGentle
    <3>4. /\ Shown(d, b0)
          /\ display[d].claims[b0] \subseteq resources
          /\ resources \subseteq display[d].claims[b0]
      BY <1>1, <1>5, <2>2, ShownIsTight DEF Tight, Follows, resources
    <3>5. resources \subseteq Claimed(display[d].claims)
      BY <3>4 DEF Claimed
    <3> QED
      BY <2>1, <3>2, <3>3, <3>4, <3>5
  <2>3. CASE d \notin ShownOn(w)
    <3>1. display'[d] = display[d]
      BY <1>3, <2>3
    <3> QED
      BY <2>1, <2>3, <3>1, SameIsGentle DEF Neat, OnlyShownClaimed
  <2> QED
    BY <2>2, <2>3
<1>8. ASSUME NEW l \in Layers, WorldOf[l] = w
      PROVE  Tight(l, b0)'
  <2>1. Listening(l)' => /\ display'[DisplayOf[l]].claims[b0] \subseteq resources
                         /\ resources \subseteq display'[DisplayOf[l]].remote
    BY <1>2, <1>7, <1>8, ListeningIsShown DEF Listening
  <2> QED
    BY <1>1, <1>4, <1>5, <2>1 DEF Tight, resources
<1> QED
  BY <1>1, <1>6, <1>7, <1>8, NeatServe

\* The codes claim nothing and delete nothing.
LEMMA NeatSendRenderCodes ==
  ASSUME IInv, Neat, NEW w \in Worlds, SendRenderCodes(w)
  PROVE  Neat' /\ ClaimsEndWell
<1> PICK b0 \in Buffers : b0 = buffer[w]
  BY DEF IInv, OwnWork, Serving, SendRenderCodes
<1> DEFINE codes == front[b0]
<1>1. /\ WorldOf[b0] = w
      /\ pc[w] = "codes"
      /\ codes # None
      /\ codes \in {None} \cup SUBSET Resources
  BY DEF IInv, Types, OwnWork, Serving, SendRenderCodes
<1>2. /\ pc' = [pc EXCEPT ![w] = "release"]
      /\ UNCHANGED <<bufferVars, queueVars, buffer, listener, todo, layerPc>>
  BY DEF SendRenderCodes, Goto, Unchanged
<1>3. display' = [d \in Displays |-> IF d \in ShownOn(w) THEN SetRenderCodes(display[d], b0, codes)
                                                         ELSE display[d]]
  BY DEF SendRenderCodes, TellAll, ShownOn
<1>4. UnderWay(b0) /\ UnderWay(b0)' /\ pc'[w] = "release"
  BY <1>1, <1>2 DEF UnderWay, MidSwap, IInv, Types
<1>5. Serves(w, b0) /\ AllResources(b0)' = AllResources(b0)
  BY <1>1, <1>2 DEF IInv, Types, Serves, Serving, Replaying, bufferVars, AllResources
<1> HIDE DEF codes
<1>6. ASSUME NEW d \in Displays
      PROVE  /\ Gentle(display[d], display'[d], b0)
             /\ display'[d].claims = display[d].claims
             /\ display'[d].remote = display[d].remote
  <2>1. display[d] \in Display
    BY DEF IInv, Types
  <2>2. CASE d \in ShownOn(w)
    <3>1. display'[d] = SetRenderCodes(display[d], b0, codes)
      BY <1>3, <2>2
    <3>2. /\ display'[d].codes = [display[d].codes EXCEPT ![b0] = codes]
          /\ display'[d].claims = display[d].claims
          /\ display'[d].remote = display[d].remote
      BY <1>1, <2>1, <3>1, SetRenderCodesFacts
    <3>3. Gentle(display[d], display'[d], b0)
      BY <1>1, <2>1, <3>1, CallsAreGentle
    <3> QED
      BY <3>2, <3>3
  <2>3. CASE d \notin ShownOn(w)
    BY <1>3, <2>1, <2>3, SameIsGentle
  <2> QED
    BY <2>2, <2>3
<1>7. ASSUME NEW d \in Displays
      PROVE  /\ display'[d].remote \subseteq Claimed(display'[d].claims)
             /\ display'[d].claims[b0] # {} => Shown(d, b0)
  BY <1>6 DEF Neat, NothingStray, OnlyShownClaimed
<1>8. ASSUME NEW l \in Layers, WorldOf[l] = w
      PROVE  Tight(l, b0)'
  <2>1. Tight(l, b0) /\ DisplayOf[l] \in Displays
    BY <1>1, <1>8, VxWorldAssumption DEF Neat, LayersTight
  <2> QED
    BY <1>1, <1>2, <1>4, <1>5, <1>6, <2>1 DEF Tight, Listening
<1> QED
  BY <1>1, <1>5, <1>6, <1>7, <1>8, NeatServe

\* The claim that is given up was on resources that were sent.
LEMMA NeatClaimActual ==
  ASSUME IInv, Neat, NEW w \in Worlds, ClaimActual(w)
  PROVE  Neat' /\ ClaimsEndWell
<1> PICK b0 \in Buffers : b0 = buffer[w]
  BY DEF IInv, OwnWork, Serving, ClaimActual
<1> DEFINE claim == front[b0]
<1>1. /\ WorldOf[b0] = w
      /\ pc[w] = "release"
      /\ claim \in SUBSET Resources
      /\ claim # None
  BY VxDisplayAssumption DEF IInv, Types, OwnWork, Serving, ClaimActual
<1>2. /\ frontResc' = [frontResc EXCEPT ![b0] = claim]
      /\ buffer' = [buffer EXCEPT ![w] = None]
      /\ pc' = [pc EXCEPT ![w] = "wait"]
      /\ UNCHANGED <<pending, front, queueVars, listener, todo, layerPc>>
  BY DEF ClaimActual, Goto, Unchanged
<1>3. display' = [d \in Displays |-> IF d \in ShownOn(w) THEN BufferResources(display[d], b0, claim)
                                                         ELSE display[d]]
  BY DEF ClaimActual, TellAll, ShownOn
<1>4. UnderWay(b0) /\ ~UnderWay(b0)' /\ pc'[w] = "wait" /\ frontResc'[b0] = claim
  BY <1>1, <1>2 DEF UnderWay, MidSwap, IInv, Types
<1>5. Serves(w, b0)
  BY <1>1, <1>2 DEF IInv, Types, Serves, Serving, Replaying
<1>6. ASSUME NEW d \in ShownOn(w)
      PROVE  /\ display[d].codes[b0] = claim
             /\ display[d].claims[b0] \subseteq display[d].remote
             /\ Shown(d, b0)
  BY <1>1, <1>4, ShownIsTight DEF Follows, Tight
<1> HIDE DEF claim
<1>7. ASSUME NEW d \in Displays
      PROVE  /\ Gentle(display[d], display'[d], b0)
             /\ display'[d].remote \subseteq Claimed(display'[d].claims)
             /\ display[d].claims[b0] \ display'[d].claims[b0] \subseteq display[d].remote
             /\ display'[d].claims[b0] # {} => Shown(d, b0)
             /\ d \in ShownOn(w) => /\ display'[d].claims[b0] = claim
                                    /\ display'[d].codes[b0] = claim
  <2>1. display[d] \in Display /\ display[d].remote \subseteq Claimed(display[d].claims)
    BY DEF IInv, Types, Neat, NothingStray
  <2>2. CASE d \in ShownOn(w)
    <3>1. display'[d] = BufferResources(display[d], b0, claim)
      BY <1>3, <2>2
    <3>2. display'[d].claims[b0] = claim /\ display'[d].codes = display[d].codes
      <4>1. /\ display'[d].claims = [display[d].claims EXCEPT ![b0] = claim]
            /\ display'[d].codes = display[d].codes
        BY <1>1, <2>1, <3>1, BufferResourcesFacts
      <4> QED
        BY <2>1, <4>1 DEF Display
    <3>3. Gentle(display[d], display'[d], b0)
      BY <1>1, <2>1, <3>1, CallsAreGentle
    <3>4. display'[d].remote \subseteq Claimed(display'[d].claims)
      BY <1>1, <2>1, <3>1, BufferResourcesTidy
    <3> QED
      BY <1>6, <2>2, <3>2, <3>3, <3>4
  <2>3. CASE d \notin ShownOn(w)
    <3>1. display'[d] = display[d]
      BY <1>3, <2>3
    <3> QED
      BY <2>1, <2>3, <3>1, SameIsGentle DEF Neat, OnlyShownClaimed
  <2> QED
    BY <2>2, <2>3
<1>8. ASSUME NEW l \in Layers, WorldOf[l] = w
      PROVE  Tight(l, b0)'
  <2>1. Listening(l)' => /\ display'[DisplayOf[l]].claims[b0] = claim
                         /\ display'[DisplayOf[l]].codes[b0] = claim
    BY <1>2, <1>7, <1>8, ListeningIsShown DEF Listening
  <2> QED
    BY <1>1, <1>4, <2>1 DEF Tight, Drawn
<1> QED
  BY <1>1, <1>5, <1>7, <1>8, NeatServe

\* The replay's claim includes what the new listener's display has claimed.
LEMMA NeatClaimAgain ==
  ASSUME Orderly, IInv, Neat, NEW w \in Worlds, ClaimAgain(w)
  PROVE  Neat' /\ ClaimsEndWell
<1> DEFINE l0 == listener[w]
           d0 == DisplayOf[l0]
<1>1. PICK b0 \in todo[w] :
        /\ Tell(w, BufferResources(Again(w), b0, frontResc[b0]))
        /\ buffer' = [buffer EXCEPT ![w] = b0]
        /\ todo' = [todo EXCEPT ![w] = @ \ {b0}]
  BY DEF ClaimAgain
<1>2. /\ pc[w] = "again"
      /\ pc' = [pc EXCEPT ![w] = "resourcesAgain"]
      /\ UNCHANGED <<bufferVars, queueVars, listener, layerPc>>
  BY DEF ClaimAgain, Goto, Unchanged
<1>3. /\ b0 \in Buffers
      /\ WorldOf[b0] = w
      /\ frontResc[b0] \in SUBSET Resources
  BY <1>2 DEF IInv, Types, OwnWork, Replaying
<1>4. /\ l0 \in Layers
      /\ WorldOf[l0] = w
      /\ Listening(l0)
      /\ layerPc[l0] = "joined"
      /\ d0 \in Displays
      /\ \A l \in Layers : (WorldOf[l] = w /\ DisplayOf[l] = d0) => l = l0
  BY <1>2, ReplayFacts DEF Replaying
<1>5. display' = [display EXCEPT ![d0] = BufferResources(display[d0], b0, frontResc[b0])]
  BY <1>1 DEF Tell, Again
<1>6. Serves(w, b0)
  BY <1>1, <1>2, <1>3 DEF IInv, Types, Serves, OwnWork, Serving, Replaying, bufferVars
<1>7. /\ ~UnderWay(b0) /\ ~UnderWay(b0)'
      /\ \A l \in Layers : ~Replays(l, b0) /\ (l = l0 => Replays(l, b0)')
  BY <1>1, <1>2, <1>3 DEF UnderWay, MidSwap, Replays, IInv, Types
<1> HIDE DEF l0, d0
<1>8. Tight(l0, b0) /\ Shown(d0, b0)
  BY <1>3, <1>4 DEF Neat, LayersTight, Shown, d0
<1>9. display[d0].claims[b0] \subseteq frontResc[b0]
  BY <1>4, <1>7, <1>8 DEF Tight, d0
<1>10. ASSUME NEW d \in Displays
       PROVE  /\ Gentle(display[d], display'[d], b0)
              /\ display'[d].remote \subseteq Claimed(display'[d].claims)
              /\ display[d].claims[b0] \subseteq display'[d].claims[b0]
              /\ display'[d].claims[b0] # {} => Shown(d, b0)
              /\ d = d0 => display'[d].claims[b0] = frontResc[b0]
              /\ d # d0 => display'[d] = display[d]
  <2>1. display[d] \in Display /\ display[d].remote \subseteq Claimed(display[d].claims)
    BY DEF IInv, Types, Neat, NothingStray
  <2>2. CASE d = d0
    <3>1. display'[d] = BufferResources(display[d], b0, frontResc[b0])
      BY <1>5, <2>2 DEF IInv, Types
    <3>2. display'[d].claims[b0] = frontResc[b0]
      <4>1. display'[d].claims = [display[d].claims EXCEPT ![b0] = frontResc[b0]]
        BY <1>3, <2>1, <3>1, BufferResourcesFacts
      <4> QED
        BY <1>3, <2>1, <4>1 DEF Display
    <3>3. Gentle(display[d], display'[d], b0)
      BY <1>3, <2>1, <3>1, CallsAreGentle
    <3>4. display'[d].remote \subseteq Claimed(display'[d].claims)
      BY <1>3, <2>1, <3>1, BufferResourcesTidy
    <3> QED
      BY <1>8, <1>9, <2>2, <3>2, <3>3, <3>4
  <2>3. CASE d # d0
    <3>1. display'[d] = display[d]
      BY <1>5, <2>3 DEF IInv, Types
    <3> QED
      BY <1>3, <2>1, <2>3, <3>1, SameIsGentle DEF Neat, OnlyShownClaimed
  <2> QED
    BY <2>2, <2>3
<1>11. ASSUME NEW l \in Layers, WorldOf[l] = w
       PROVE  Tight(l, b0)'
  <2>1. CASE l = l0
    <3>1. display'[DisplayOf[l]].claims[b0] = frontResc'[b0]
      BY <1>2, <1>4, <1>10, <2>1 DEF d0, bufferVars
    <3> QED
      BY <1>7, <2>1, <3>1 DEF Tight
  <2>2. CASE l # l0
    <3>1. Tight(l, b0) /\ DisplayOf[l] \in Displays /\ DisplayOf[l] # d0
      BY <1>3, <1>4, <1>11, <2>2, VxWorldAssumption DEF Neat, LayersTight
    <3>2. display'[DisplayOf[l]] = display[DisplayOf[l]]
      BY <1>10, <3>1
    <3> QED
      BY <1>2, <1>7, <3>1, <3>2 DEF Tight, Listening, bufferVars
  <2> QED
    BY <2>1, <2>2
<1> QED
  BY <1>3, <1>6, <1>10, <1>11, NeatServe

\* It is sent what is claimed.
LEMMA NeatResourcesAgain ==
  ASSUME Orderly, IInv, Neat, NEW w \in Worlds, ResourcesAgain(w)
  PROVE  Neat' /\ ClaimsEndWell
<1> DEFINE l0 == listener[w]
           d0 == DisplayOf[l0]
<1> PICK b0 \in Buffers : b0 = buffer[w]
  BY DEF IInv, OwnWork, Serving, ResourcesAgain
<1>1. /\ pc[w] = "resourcesAgain"
      /\ pc' = [pc EXCEPT ![w] = "codesAgain"]
      /\ UNCHANGED <<bufferVars, queueVars, buffer, listener, todo, layerPc>>
  BY DEF ResourcesAgain, Goto, Unchanged
<1>2. /\ WorldOf[b0] = w
      /\ frontResc[b0] \in SUBSET Resources
  BY <1>1 DEF IInv, Types, OwnWork, Serving
<1>3. /\ l0 \in Layers
      /\ WorldOf[l0] = w
      /\ d0 \in Displays
  BY <1>1, ReplayFacts DEF Replaying
<1>4. display' = [display EXCEPT ![d0] = AddResources(display[d0], frontResc[b0])]
  BY DEF ResourcesAgain, Tell, Again
<1>5. Serves(w, b0)
  BY <1>1, <1>2 DEF IInv, Types, OwnWork, Serves, Serving, Replaying, bufferVars
<1>6. /\ ~UnderWay(b0) /\ ~UnderWay(b0)'
      /\ \A l \in Layers : Replays(l, b0)' = Replays(l, b0)
  BY <1>1, <1>2 DEF UnderWay, MidSwap, Replays, IInv, Types
<1>7. frontResc[b0] \subseteq display[d0].claims[b0]
  BY <1>1, <1>2, <1>3 DEF IInv, LayersFollow, Follows
<1> HIDE DEF l0, d0
<1>8. ASSUME NEW d \in Displays
      PROVE  /\ Gentle(display[d], display'[d], b0)
             /\ display'[d].remote \subseteq Claimed(display'[d].claims)
             /\ display'[d].claims = display[d].claims
             /\ display'[d].codes = display[d].codes
  <2>1. display[d] \in Display /\ display[d].remote \subseteq Claimed(display[d].claims)
    BY DEF IInv, Types, Neat, NothingStray
  <2>2. CASE d = d0
    <3>1. display'[d] = AddResources(display[d], frontResc[b0])
      BY <1>4, <2>2 DEF IInv, Types
    <3>2. /\ display'[d].claims = display[d].claims
          /\ display'[d].codes = display[d].codes
          /\ display'[d].remote = display[d].remote \cup frontResc[b0]
      BY <1>2, <2>1, <3>1, AddResourcesFacts
    <3>3. Gentle(display[d], display'[d], b0)
      BY <1>2, <2>1, <3>1, CallsAreGentle
    <3>4. frontResc[b0] \subseteq Claimed(display[d].claims)
      BY <1>7, <2>2 DEF Claimed
    <3> QED
      BY <2>1, <3>2, <3>3, <3>4
  <2>3. CASE d # d0
    <3>1. display'[d] = display[d]
      BY <1>4, <2>3 DEF IInv, Types
    <3> QED
      BY <2>1, <3>1, SameIsGentle
  <2> QED
    BY <2>2, <2>3
<1>9. ASSUME NEW d \in Displays, display'[d].claims[b0] # {}
      PROVE  Shown(d, b0)
  BY <1>8, <1>9 DEF Neat, OnlyShownClaimed
<1>10. ASSUME NEW l \in Layers, WorldOf[l] = w
       PROVE  Tight(l, b0)'
  <2>1. Tight(l, b0) /\ DisplayOf[l] \in Displays
    BY <1>2, <1>10, VxWorldAssumption DEF Neat, LayersTight
  <2>2. Drawn(display[DisplayOf[l]], b0)' = Drawn(display[DisplayOf[l]], b0)
    BY <1>8, <2>1 DEF Drawn
  <2> QED
    BY <1>1, <1>6, <1>8, <2>1, <2>2 DEF Tight, Listening, bufferVars
<1> QED
  BY <1>5, <1>8, <1>9, <1>10, NeatServe

\* All that is claimed is drawn with.
LEMMA NeatCodesAgain ==
  ASSUME Orderly, IInv, Neat, NEW w \in Worlds, CodesAgain(w)
  PROVE  Neat' /\ ClaimsEndWell
<1> DEFINE l0 == listener[w]
           d0 == DisplayOf[l0]
<1> PICK b0 \in Buffers : b0 = buffer[w]
  BY DEF IInv, OwnWork, Serving, CodesAgain
<1>1. /\ pc[w] = "codesAgain"
      /\ pc' = [pc EXCEPT ![w] = "again"]
      /\ buffer' = [buffer EXCEPT ![w] = None]
      /\ UNCHANGED <<bufferVars, queueVars, listener, todo, layerPc>>
  BY DEF CodesAgain, Goto, Unchanged
<1>2. /\ WorldOf[b0] = w
      /\ front[b0] # None
      /\ front[b0] \in {None} \cup SUBSET Resources
  BY <1>1 DEF IInv, Types, OwnWork, Serving
<1>3. /\ l0 \in Layers
      /\ WorldOf[l0] = w
      /\ layerPc[l0] = "joined"
      /\ d0 \in Displays
      /\ \A l \in Layers : (WorldOf[l] = w /\ DisplayOf[l] = d0) => l = l0
  BY <1>1, ReplayFacts DEF Replaying
<1>4. display' = [display EXCEPT ![d0] = SetRenderCodes(display[d0], b0, front[b0])]
  BY DEF CodesAgain, Tell, Again
<1>5. Serves(w, b0)
  BY <1>1, <1>2 DEF IInv, Types, OwnWork, Serves, Serving, Replaying, bufferVars
<1>6. /\ ~UnderWay(b0) /\ ~UnderWay(b0)'
      /\ \A l \in Layers : (Replays(l, b0) => l = l0) /\ ~Replays(l, b0)'
  BY <1>1, <1>2 DEF UnderWay, MidSwap, Replays, IInv, Types
<1>7. frontResc[b0] = front[b0]
  BY <1>2, <1>6 DEF IInv, FrontCached
<1> HIDE DEF l0, d0
<1>8. ASSUME NEW d \in Displays
      PROVE  /\ Gentle(display[d], display'[d], b0)
             /\ display'[d].claims = display[d].claims
             /\ display'[d].remote = display[d].remote
             /\ d = d0 => display'[d].codes[b0] = front[b0]
             /\ d # d0 => display'[d] = display[d]
  <2>1. display[d] \in Display
    BY DEF IInv, Types
  <2>2. CASE d = d0
    <3>1. display'[d] = SetRenderCodes(display[d], b0, front[b0])
      BY <1>4, <2>2 DEF IInv, Types
    <3>2. /\ display'[d].codes = [display[d].codes EXCEPT ![b0] = front[b0]]
          /\ display'[d].claims = display[d].claims
          /\ display'[d].remote = display[d].remote
      BY <1>2, <2>1, <3>1, SetRenderCodesFacts
    <3>3. Gentle(display[d], display'[d], b0)
      BY <1>2, <2>1, <3>1, CallsAreGentle
    <3>4. display'[d].codes[b0] = front[b0]
      BY <2>1, <3>2 DEF Display
    <3> QED
      BY <2>2, <3>2, <3>3, <3>4
  <2>3. CASE d # d0
    <3>1. display'[d] = display[d]
      BY <1>4, <2>3 DEF IInv, Types
    <3> QED
      BY <2>1, <2>3, <3>1, SameIsGentle
  <2> QED
    BY <2>2, <2>3
<1>9. ASSUME NEW d \in Displays
      PROVE  /\ display'[d].remote \subseteq Claimed(display'[d].claims)
             /\ display'[d].claims[b0] # {} => Shown(d, b0)
  BY <1>8 DEF Neat, NothingStray, OnlyShownClaimed
<1>10. ASSUME NEW l \in Layers, WorldOf[l] = w
       PROVE  Tight(l, b0)'
  <2>1. Tight(l, b0) /\ DisplayOf[l] \in Displays
    BY <1>2, <1>10, VxWorldAssumption DEF Neat, LayersTight
  <2>2. CASE l = l0
    <3>1. Drawn(display[DisplayOf[l]], b0)' = frontResc[b0]
      BY <1>2, <1>3, <1>7, <1>8, <2>1, <2>2 DEF Drawn, d0
    <3> QED
      BY <1>1, <1>6, <1>8, <2>1, <3>1 DEF Tight, Listening, bufferVars
  <2>3. CASE l # l0
    <3>1. display'[DisplayOf[l]] = display[DisplayOf[l]]
      BY <1>3, <1>8, <1>10, <2>1, <2>3
    <3>2. Drawn(display[DisplayOf[l]], b0)' = Drawn(display[DisplayOf[l]], b0)
      BY <3>1 DEF Drawn
    <3> QED
      BY <1>1, <1>6, <2>1, <2>3, <3>1, <3>2 DEF Tight, Listening, bufferVars
  <2> QED
    BY <2>2, <2>3
<1> QED
  BY <1>5, <1>8, <1>9, <1>10, NeatServe

\* Every step.
LEMMA NeatStep == ASSUME Orderly, IInv, Neat, [Next]_vars PROVE Neat' /\ ClaimsEndWell
<1>1. CASE UNCHANGED vars
  BY <1>1, NeatStays DEF vars, bufferVars, threadVars, Listening, UnderWay, MidSwap, Replays
<1>2. ASSUME NEW b \in Buffers, NEW frame \in Frames[b], Swap(b, frame)
      PROVE  Neat' /\ ClaimsEndWell
  BY <1>2, NeatStays DEF Swap, threadVars, Listening, UnderWay, MidSwap, Replays
<1>3. ASSUME NEW b \in Buffers, FlagSwap(b) PROVE Neat' /\ ClaimsEndWell
  BY <1>3, NeatStays DEF FlagSwap, bufferVars, threadVars, Listening, UnderWay, MidSwap, Replays
<1>4. ASSUME NEW l \in Layers, AddListener(l) PROVE Neat' /\ ClaimsEndWell
  BY <1>4, NeatAddListener
<1>5. ASSUME NEW l \in Layers, QueueListener(l) \/ RemoveListener(l) \/ ForgetDisplay(l)
      PROVE  Neat' /\ ClaimsEndWell
  <2>1. \A k \in Layers : /\ Listening(k)' => Listening(k)
                          /\ layerPc'[k] = "new" => layerPc[k] = "new"
    BY <1>5 DEF IInv, Types, QueueListener, RemoveListener, ForgetDisplay, MoveLayer, Listening
  <2>2. UNCHANGED <<bufferVars, threadVars, display>>
    BY <1>5 DEF QueueListener, RemoveListener, ForgetDisplay, MoveLayer
  <2> QED
    BY <2>1, <2>2, NeatStays DEF bufferVars, threadVars, UnderWay, MidSwap, Replays
<1>6. ASSUME NEW w \in Worlds, TakeListener(w) \/ AgainDone(w) \/ TakeBuffer(w)
      PROVE  Neat' /\ ClaimsEndWell
  <2>1. /\ UNCHANGED <<bufferVars, layerPc, display>>
        /\ pc[w] \in {"wait", "again"}
        /\ pc'[w] \in {"wait", "again", "swap"}
        /\ \A v \in Worlds \ {w} : /\ pc'[v] = pc[v]
                                   /\ buffer'[v] = buffer[v]
                                   /\ listener'[v] = listener[v]
    BY <1>6 DEF IInv, Types, TakeListener, AgainDone, TakeBuffer, Goto, Unchanged
  <2>2. \A b \in Buffers : /\ UnderWay(b)' <=> UnderWay(b)
                           /\ UnderWay(b) => pc'[WorldOf[b]] = pc[WorldOf[b]]
                           /\ \A l \in Layers : Replays(l, b)' <=> Replays(l, b)
    BY <2>1, VxWorldAssumption DEF UnderWay, MidSwap, Replays
  <2> QED
    BY <2>1, <2>2, NeatStays DEF bufferVars, Listening
<1>7. ASSUME NEW w \in Worlds, ProcessThread(w) PROVE Neat' /\ ClaimsEndWell
  BY <1>6, <1>7, NeatClaimAgain, NeatResourcesAgain, NeatCodesAgain, NeatDelayedSwap,
     NeatSendResources, NeatSendRenderCodes, NeatClaimActual DEF ProcessThread
<1>8. ASSUME NEW d0 \in Displays, Render(d0) PROVE Neat' /\ ClaimsEndWell
  <2>1. ASSUME NEW d \in Displays
        PROVE  /\ display'[d].claims = display[d].claims
               /\ display'[d].codes = display[d].codes
               /\ display'[d].remote = display[d].remote
    <3>1. display[d] \in Display
      BY DEF IInv, Types
    <3>2. CASE d = d0
      <4>1. display'[d] = DrawFrame(display[d])
        BY <1>8, <3>2 DEF Render, IInv, Types
      <4> QED
        BY <3>1, <4>1, DrawFrameFacts
    <3>3. CASE d # d0
      BY <1>8, <3>3 DEF Render, IInv, Types
    <3> QED
      BY <3>2, <3>3
  <2> QED
    BY <1>8, <2>1, NeatStays DEF Render, bufferVars, threadVars, Listening, UnderWay,
                                 MidSwap, Replays
<1> QED
  BY <1>1, <1>2, <1>3, <1>4, <1>5, <1>7, <1>8 DEF Next

\* Both strengthenings always hold.
LEMMA NeatInvariance == ASSUME Orderly PROVE Spec => [](IInv /\ Neat)
<1>1. Init => IInv /\ Neat
  BY InvInit, NeatInit
<1>2. (IInv /\ Neat) /\ [Next]_vars => (IInv /\ Neat)'
  BY InvStep, NeatStep
<1> QED
  BY <1>1, <1>2, PTL DEF Spec

\* When all is quiet every display holds only resources that it draws with,
\* whoever swapped, joined and left before (vx_resc_manager.c's live sets).
THEOREM NothingIsLeaked == ASSUME Orderly PROVE Spec => []NothingLeaked
<1>1. ASSUME Quiet, IInv, Neat, NEW d \in Displays, NEW x \in display[d].remote
      PROVE  \E b \in Buffers : display[d].codes[b] # None /\ x \in display[d].codes[b]
  <2>1. PICK b \in Buffers : x \in display[d].claims[b]
    BY <1>1 DEF Neat, NothingStray, Claimed
  <2>2. PICK l \in Layers : WorldOf[l] = WorldOf[b] /\ DisplayOf[l] = d /\ layerPc[l] # "new"
    BY <1>1, <2>1 DEF Neat, OnlyShownClaimed, Shown
  <2>3. Listening(l) /\ Tight(l, b)
    BY <1>1, <2>2 DEF Quiet, Listening, Neat, LayersTight
  <2>4. ~UnderWay(b) /\ ~Replays(l, b)
    BY <1>1, VxWorldAssumption DEF Quiet, UnderWay, MidSwap, Replays
  <2>5. x \in Drawn(display[d], b)
    BY <2>1, <2>2, <2>3, <2>4 DEF Tight
  <2> QED
    BY <2>5 DEF Drawn
<1>2. IInv /\ Neat => NothingLeaked
  BY <1>1 DEF NothingLeaked
<1> QED
  BY <1>2, NeatInvariance, PTL

\* A claim that its last holder gives up is on resources the display was sent,
\* as vx_resc_manager_buffer_resources asserts.
THEOREM ClaimsEndSent == ASSUME Orderly PROVE Spec => ClaimsEndAfterSending
<1>1. IInv /\ Neat /\ [Next]_vars =>
        [ \A d \in Displays :
            Claimed(display[d].claims) \ Claimed(display'[d].claims)
              \subseteq display[d].remote ]_vars
  BY NeatStep DEF ClaimsEndWell
<1> QED
  BY <1>1, NeatInvariance, PTL DEF Spec, ClaimsEndAfterSending
=============================================================================
