------------------------------ MODULE VxWorld ------------------------------
(***************************************************************************)
(* The worlds of the vx library.  Programs fill a buffer's back and swap   *)
(* it; a thread of the world serializes what was swapped and sends it to   *)
(* the world's listeners, the layers, each on a display.  A frame stands   *)
(* for the set of resources it uses, a buffer with nothing in it for {}.   *)
(*                                                                         *)
(* A notification of all listeners is one step: it holds listener_mutex,   *)
(* so none comes or goes meanwhile, and its calls to different displays do *)
(* not depend on each other.                                               *)
(***************************************************************************)
EXTENDS Sequences, VxDisplay, TLC

CONSTANTS
  Worlds,
  Displays,
  Layers,
  WorldOf,      (* the world of each buffer and each layer                 *)
  DisplayOf,    (* the display of each layer                               *)
  Frames,       (* the sets of resources each buffer's program draws with  *)
  JoinMidSwap,  (* whether a layer may join while the world sends a frame  *)
  Leaving,      (* layers that may leave                                   *)
  LeaveEarly    (* whether they may before they were sent what was there   *)

ASSUME VxWorldAssumption ==
  /\ None \notin Buffers \cup Layers
  /\ WorldOf \in [Buffers \cup Layers -> Worlds]
  /\ DisplayOf \in [Layers -> Displays]
  /\ Frames \in [Buffers -> SUBSET ((SUBSET Resources) \ {{}})]
  /\ JoinMidSwap \in BOOLEAN
  /\ Leaving \subseteq Layers
  /\ LeaveEarly \in BOOLEAN

VARIABLES
  pending,       (* buffer->pending_objs                                   *)
  front,         (* buffer->front_objs; None before the first serialization*)
  frontResc,     (* buffer->front_resc                                     *)
  swapPc,        (* where a buffer's program is in vx_buffer_swap          *)
  layerPc,       (* where a layer is in vx_layer_set_display               *)
  bufferQueue,   (* world->buffer_queue                                    *)
  listenerQueue, (* world->listener_queue                                  *)
  pc,            (* where the world's thread is in run_process             *)
  buffer,        (* the buffer it serializes or sends again, or None       *)
  listener,      (* the new listener it took from the queue, or None       *)
  todo,          (* buffers it has yet to look at for the new listener     *)
  display        (* the displays                                           *)

bufferVars == <<pending, front, frontResc>>
queueVars == <<bufferQueue, listenerQueue>>
threadVars == <<pc, buffer, listener, todo>>
vars == <<bufferVars, swapPc, layerPc, queueVars, threadVars, display>>

BuffersOf(w) == {b \in Buffers : WorldOf[b] = w}

\* The layers in world->listeners.
Listeners(w) == {l \in Layers : WorldOf[l] = w /\ layerPc[l] \in {"listed", "joined"}}

-----------------------------------------------------------------------------
(* The programs: vx_buffer_swap.                                           *)

\* Frames that were not serialized in time are dropped.
Swap(b, frame) ==
  /\ swapPc[b] = "idle"
  /\ pending' = [pending EXCEPT ![b] = frame]
  /\ swapPc' = [swapPc EXCEPT ![b] = "flag"]
  /\ UNCHANGED <<front, frontResc, layerPc, queueVars, threadVars, display>>

\* Mutant of FlagSwap: a buffer under way is taken for one still queued.
FlagSwap_NotUnderWay(b) ==
  LET w == WorldOf[b] IN
  /\ swapPc[b] = "flag"
  /\ bufferQueue' = IF buffer[w] = b \/ \E i \in DOMAIN bufferQueue[w] : bufferQueue[w][i] = b
                    THEN bufferQueue
                    ELSE [bufferQueue EXCEPT ![w] = Append(@, b)]
  /\ swapPc' = [swapPc EXCEPT ![b] = "idle"]
  /\ UNCHANGED <<bufferVars, layerPc, listenerQueue, threadVars, display>>

\* The buffer is queued unless it is in the queue already.
FlagSwap(b) ==
  LET w == WorldOf[b] IN
  /\ swapPc[b] = "flag"
  /\ bufferQueue' = IF \E i \in DOMAIN bufferQueue[w] : bufferQueue[w][i] = b
                    THEN bufferQueue
                    ELSE [bufferQueue EXCEPT ![w] = Append(@, b)]
  /\ swapPc' = [swapPc EXCEPT ![b] = "idle"]
  /\ UNCHANGED <<bufferVars, layerPc, listenerQueue, threadVars, display>>

-----------------------------------------------------------------------------
(* The layers: vx_layer_set_display.                                       *)

\* Some, not all, of the four messages about a frame have been sent.
MidSwap(w) == pc[w] \in {"resources", "codes", "release"}

MoveLayer(l, from, to) ==
  /\ layerPc[l] = from
  /\ layerPc' = [layerPc EXCEPT ![l] = to]
  /\ UNCHANGED <<bufferVars, swapPc, bufferQueue, threadVars, display>>

\* vx_world_add_listener: first into listeners, to get what is sent from now on.
AddListener(l) ==
  /\ JoinMidSwap \/ ~MidSwap(WorldOf[l])
  /\ MoveLayer(l, "new", "listed")
  /\ UNCHANGED listenerQueue

\* Then into the queue, to get what was sent before.
QueueListener(l) ==
  /\ MoveLayer(l, "listed", "joined")
  /\ listenerQueue' = [listenerQueue EXCEPT ![WorldOf[l]] = Append(@, l)]

\* A listener whose replay is queued or under way.
Awaited(l) ==
  LET w == WorldOf[l] IN
  listener[w] = l \/ \E i \in DOMAIN listenerQueue[w] : listenerQueue[w][i] = l

\* vx_world_remove_listener leaves listener_queue as it is.
RemoveListener(l) ==
  /\ l \in Leaving
  /\ LeaveEarly \/ ~Awaited(l)
  /\ MoveLayer(l, "joined", "removed")
  /\ UNCHANGED listenerQueue

\* vl->disp = NULL
ForgetDisplay(l) ==
  /\ MoveLayer(l, "removed", "gone")
  /\ UNCHANGED listenerQueue

-----------------------------------------------------------------------------
(* A world's thread: run_process and, called by it, delayed_swap.          *)

Unchanged == UNCHANGED <<swapPc, layerPc>>

Goto(w, label) == pc' = [pc EXCEPT ![w] = label]

\* Mutant of TakeListener: swaps are served before new listeners.
TakeListener_Last(w) ==
  /\ pc[w] = "wait"
  /\ bufferQueue[w] = <<>>
  /\ listenerQueue[w] # <<>>
  /\ listener' = [listener EXCEPT ![w] = Head(listenerQueue[w])]
  /\ listenerQueue' = [listenerQueue EXCEPT ![w] = Tail(@)]
  /\ todo' = [todo EXCEPT ![w] = {b \in BuffersOf(w) : front[b] # None}]
  /\ Goto(w, "again")
  /\ UNCHANGED <<bufferVars, bufferQueue, buffer, display>> /\ Unchanged

\* New listeners take priority.  One is sent every buffer serialized so far.
TakeListener(w) ==
  /\ pc[w] = "wait"
  /\ listenerQueue[w] # <<>>
  /\ listener' = [listener EXCEPT ![w] = Head(listenerQueue[w])]
  /\ listenerQueue' = [listenerQueue EXCEPT ![w] = Tail(@)]
  /\ todo' = [todo EXCEPT ![w] = {b \in BuffersOf(w) : front[b] # None}]
  /\ Goto(w, "again")
  /\ UNCHANGED <<bufferVars, bufferQueue, buffer, display>> /\ Unchanged

\* A call to the one listener; send_codes asserts that it has a display.
Tell(w, disp) ==
  /\ layerPc[listener[w]] # "gone"
  /\ display' = [display EXCEPT ![DisplayOf[listener[w]]] = disp]

Again(w) == display[DisplayOf[listener[w]]]

ClaimAgain(w) ==
  /\ pc[w] = "again"
  /\ \E b \in todo[w] :
       /\ Tell(w, BufferResources(Again(w), b, frontResc[b]))
       /\ buffer' = [buffer EXCEPT ![w] = b]
       /\ todo' = [todo EXCEPT ![w] = @ \ {b}]
  /\ Goto(w, "resourcesAgain")
  /\ UNCHANGED <<bufferVars, queueVars, listener>> /\ Unchanged

ResourcesAgain(w) ==
  /\ pc[w] = "resourcesAgain"
  /\ Tell(w, AddResources(Again(w), frontResc[buffer[w]]))
  /\ Goto(w, "codesAgain")
  /\ UNCHANGED <<bufferVars, queueVars, buffer, listener, todo>> /\ Unchanged

CodesAgain(w) ==
  /\ pc[w] = "codesAgain"
  /\ Tell(w, SetRenderCodes(Again(w), buffer[w], front[buffer[w]]))
  /\ buffer' = [buffer EXCEPT ![w] = None]
  /\ Goto(w, "again")
  /\ UNCHANGED <<bufferVars, queueVars, listener, todo>> /\ Unchanged

AgainDone(w) ==
  /\ pc[w] = "again"
  /\ todo[w] = {}
  /\ listener' = [listener EXCEPT ![w] = None]
  /\ Goto(w, "wait")
  /\ UNCHANGED <<bufferVars, queueVars, buffer, todo, display>> /\ Unchanged

TakeBuffer(w) ==
  /\ pc[w] = "wait"
  /\ listenerQueue[w] = <<>>
  /\ bufferQueue[w] # <<>>
  /\ buffer' = [buffer EXCEPT ![w] = Head(bufferQueue[w])]
  /\ bufferQueue' = [bufferQueue EXCEPT ![w] = Tail(@)]
  /\ Goto(w, "swap")
  /\ UNCHANGED <<bufferVars, listenerQueue, listener, todo, display>> /\ Unchanged

\* A call to every listener of the world.
TellAll(w, call(_)) ==
  LET shownOn == {DisplayOf[l] : l \in Listeners(w)}
  IN display' = [d \in Displays |-> IF d \in shownOn THEN call(display[d]) ELSE display[d]]

\* The resources of the last frame and of this one.
AllResources(b) == frontResc[b] \cup front[b]

\* Mutant of DelayedSwap: only the new frame's resources are claimed.
DelayedSwap_NewOnly(w) ==
  LET b == buffer[w] IN
  /\ pc[w] = "swap"
  /\ front' = [front EXCEPT ![b] = pending[b]]
  /\ pending' = [pending EXCEPT ![b] = {}]
  /\ TellAll(w, LAMBDA disp : BufferResources(disp, b, pending[b]))
  /\ Goto(w, "resources")
  /\ UNCHANGED <<frontResc, queueVars, buffer, listener, todo>> /\ Unchanged

\* What is pending becomes the front, and nothing is pending any more.  Use of
\* the union of the last frame and the current frame is claimed: one step with
\* the exchange, for only this thread reads front.
DelayedSwap(w) ==
  LET b == buffer[w] IN
  /\ pc[w] = "swap"
  /\ front' = [front EXCEPT ![b] = pending[b]]
  /\ pending' = [pending EXCEPT ![b] = {}]
  /\ TellAll(w, LAMBDA disp : BufferResources(disp, b, frontResc[b] \cup pending[b]))
  /\ Goto(w, "resources")
  /\ UNCHANGED <<frontResc, queueVars, buffer, listener, todo>> /\ Unchanged

SendResources(w) ==
  /\ pc[w] = "resources"
  /\ TellAll(w, LAMBDA disp : AddResources(disp, AllResources(buffer[w])))
  /\ Goto(w, "codes")
  /\ UNCHANGED <<bufferVars, queueVars, buffer, listener, todo>> /\ Unchanged

SendRenderCodes(w) ==
  /\ pc[w] = "codes"
  /\ TellAll(w, LAMBDA disp : SetRenderCodes(disp, buffer[w], front[buffer[w]]))
  /\ Goto(w, "release")
  /\ UNCHANGED <<bufferVars, queueVars, buffer, listener, todo>> /\ Unchanged

\* Mutant of ClaimActual: the claim on the last frame's resources is kept.
ClaimActual_Kept(w) ==
  LET b == buffer[w] IN
  /\ pc[w] = "release"
  /\ frontResc' = [frontResc EXCEPT ![b] = front[b]]
  /\ buffer' = [buffer EXCEPT ![w] = None]
  /\ Goto(w, "wait")
  /\ UNCHANGED <<pending, front, queueVars, listener, todo, display>> /\ Unchanged

\* Claim the set of resources which are in use now.
ClaimActual(w) ==
  LET b == buffer[w] IN
  /\ pc[w] = "release"
  /\ TellAll(w, LAMBDA disp : BufferResources(disp, b, front[b]))
  /\ frontResc' = [frontResc EXCEPT ![b] = front[b]]
  /\ buffer' = [buffer EXCEPT ![w] = None]
  /\ Goto(w, "wait")
  /\ UNCHANGED <<pending, front, queueVars, listener, todo>> /\ Unchanged

ProcessThread(w) ==
  \/ TakeListener(w)
  \/ ClaimAgain(w)
  \/ ResourcesAgain(w)
  \/ CodesAgain(w)
  \/ AgainDone(w)
  \/ TakeBuffer(w)
  \/ DelayedSwap(w)
  \/ SendResources(w)
  \/ SendRenderCodes(w)
  \/ ClaimActual(w)

\* The display's render thread.
Render(d) ==
  /\ display' = [display EXCEPT ![d] = DrawFrame(@)]
  /\ UNCHANGED <<bufferVars, swapPc, layerPc, queueVars, threadVars>>

-----------------------------------------------------------------------------
Init ==
  /\ pending = [b \in Buffers |-> {}]
  /\ front = [b \in Buffers |-> None]
  /\ frontResc = [b \in Buffers |-> {}]
  /\ swapPc = [b \in Buffers |-> "idle"]
  /\ layerPc = [l \in Layers |-> "new"]
  /\ bufferQueue = [w \in Worlds |-> <<>>]
  /\ listenerQueue = [w \in Worlds |-> <<>>]
  /\ pc = [w \in Worlds |-> "wait"]
  /\ buffer = [w \in Worlds |-> None]
  /\ listener = [w \in Worlds |-> None]
  /\ todo = [w \in Worlds |-> {}]
  /\ display = [d \in Displays |-> EmptyDisplay]

Next ==
  \/ \E b \in Buffers : \E frame \in Frames[b] : Swap(b, frame)
  \/ \E b \in Buffers : FlagSwap(b)
  \/ \E l \in Layers : AddListener(l)
  \/ \E l \in Layers : QueueListener(l)
  \/ \E l \in Layers : RemoveListener(l)
  \/ \E l \in Layers : ForgetDisplay(l)
  \/ \E w \in Worlds : ProcessThread(w)
  \/ \E d \in Displays : Render(d)

Spec == Init /\ [][Next]_vars

\* Threads in the middle of a call go on; nobody has to swap, join or leave.
FairSpec ==
  /\ Spec
  /\ \A w \in Worlds : WF_vars(ProcessThread(w))
  /\ \A b \in Buffers : WF_vars(FlagSwap(b))
  /\ \A l \in Layers : WF_vars(QueueListener(l))

-----------------------------------------------------------------------------
\* Types.  In a world's queue, "duplicates are prohibited".
TypeOK ==
  /\ pending \in [Buffers -> SUBSET Resources]
  /\ front \in [Buffers -> {None} \cup SUBSET Resources]
  /\ frontResc \in [Buffers -> SUBSET Resources]
  /\ swapPc \in [Buffers -> {"idle", "flag"}]
  /\ layerPc \in [Layers -> {"new", "listed", "joined", "removed", "gone"}]
  /\ bufferQueue \in [Worlds -> Seq(Buffers)]
  /\ \A w \in Worlds : \A i, j \in DOMAIN bufferQueue[w] :
       bufferQueue[w][i] = bufferQueue[w][j] => i = j
  /\ listenerQueue \in [Worlds -> Seq(Layers)]
  /\ pc \in [Worlds -> {"wait", "again", "resourcesAgain", "codesAgain",
                        "swap", "resources", "codes", "release"}]
  /\ buffer \in [Worlds -> Buffers \cup {None}]
  /\ listener \in [Worlds -> Layers \cup {None}]
  /\ todo \in [Worlds -> SUBSET Buffers]
  /\ display \in [Displays -> Display]

\* Whenever a frame is drawn, every resource named by the render codes of any
\* buffer is there (render_program: "This should never fail!").
RenderHasResources ==
  \A d \in Displays, b \in Buffers :
    display[d].codes[b] # None =>
      display[d].codes[b] \subseteq display[d].held \ display[d].dealloc

\* The manager's record of what the GL context holds is right, so nothing is
\* sent twice, flagged for deletion twice or unflagged in vain, all of which
\* the renderer asserts (vx_gl_renderer_remove_resources, _add_resources).
ManagerKnowsRenderer ==
  \A d \in Displays : display[d].remote = display[d].held \ display[d].dealloc

\* A claim that is given up, by its last holder, is on a resource that the
\* display was sent (asserted in vx_resc_manager_buffer_resources).
ClaimsEndAfterSending ==
  [][ \A d \in Displays :
        Claimed(display[d].claims) \ Claimed(display'[d].claims)
          \subseteq display[d].remote ]_vars

Quiet ==
  /\ \A w \in Worlds : pc[w] = "wait" /\ bufferQueue[w] = <<>> /\ listenerQueue[w] = <<>>
  /\ \A b \in Buffers : swapPc[b] = "idle"
  /\ \A l \in Layers : layerPc[l] \in {"new", "joined"}

\* When all is quiet a display holds no resource that is not drawn with.
NothingLeaked ==
  Quiet => \A d \in Displays :
             display[d].remote \subseteq
               UNION {display[d].codes[b] : b \in {c \in Buffers : display[d].codes[c] # None}}

\* When all is quiet every layer's display shows a frame that the buffer's
\* program drew, and not the empty one that a swap puts in its place when it
\* is serialized ("To make the objects appear, you must 'swap' the buffer").
SwappedFrameIsShown ==
  Quiet => \A l \in Layers, b \in Buffers :
             (layerPc[l] = "joined" /\ WorldOf[b] = WorldOf[l] /\ front[b] # None)
               => display[DisplayOf[l]].codes[b] \in Frames[b]

\* A frame that is pending gets serialized unless a newer one takes its place
\* (run_process takes what vx_buffer_swap flagged).
SwapIsSerialized ==
  \A b \in Buffers : \A frame \in Frames[b] :
    pending[b] = frame ~> front[b] = frame \/ pending[b] \in Frames[b] \ {frame}

\* "All buffers will eventually get serialized to a new listener", unless it is
\* removed, however many swaps go on (vx_world.c's header comment).
NewListenerIsServed ==
  \A l \in Layers, b \in Buffers :
    (layerPc[l] = "joined" /\ WorldOf[b] = WorldOf[l] /\ front[b] # None)
      ~> display[DisplayOf[l]].codes[b] # None \/ layerPc[l] # "joined"

-----------------------------------------------------------------------------
(* For TLC: one buffer in each of two worlds that share a display, or two  *)
(* buffers in one world.                                                   *)
CONSTANTS w1, w2, b1, b2, l1, l2, d1, d2, r1, r2

\* One program keeps changing what it draws, the other always draws the same.
MCFrames == [b \in Buffers |-> IF b = b1 THEN {{r1}, {r2}} ELSE {{r1}}]

\* Two worlds, each with a layer on the one display.
MCTwoWorlds == b1 :> w1 @@ b2 :> w2 @@ l1 :> w1 @@ l2 :> w2
MCOneDisplay == l1 :> d1 @@ l2 :> d1

\* One world with two layers, on displays of their own.
MCOneWorld == [x \in Buffers \cup Layers |-> w1]
MCOwnDisplay == [l \in Layers |-> IF l = l1 THEN d1 ELSE d2]

\* Both always draw the same.
MCStillFrames == [b \in Buffers |-> {{r1}}]
=============================================================================
