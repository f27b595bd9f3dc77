----------------------------- MODULE RemoteView -----------------------------
(***************************************************************************)
(* A display on another computer: the program's side (vx_tcp_display)      *)
(* keeps the resource manager and writes what is left to send to a socket, *)
(* the remote viewer applies it to a GTK display that has no resource      *)
(* manager of its own.  Worlds, each with a thread and one buffer here,    *)
(* send their frames concurrently.                                         *)
(***************************************************************************)
EXTENDS VxDisplay, Naturals, Sequences

CONSTANTS
  Frames,       (* buffer -> sets of resources a frame may use             *)
  MaxFrames,    (* bound: frames of each buffer                            *)
  MaxWire       (* the messages that fit into the socket                   *)

VARIABLES
  server,       (* the resource manager: claims and remote of a Display    *)
  wire,         (* messages on the way                                     *)
  viewer,       (* the viewer's Display                                    *)
  mutex,        (* state->state_mutex: the buffer whose world holds it     *)
  message,      (* buffer -> what its world is about to write              *)
  pc,           (* buffer -> "idle", or the call delayed_swap makes next:  *)
                (* "claim", "resources", "codes", "release"                *)
  front,        (* buffer -> resources of the frame being sent             *)
  frontResc,    (* buffer -> those of the frame before                     *)
  sent          (* buffer -> frames begun                                  *)

worldVars == <<pc, front, frontResc, sent>>
vars == <<server, wire, viewer, mutex, message, worldVars>>

NoMessage == [type |-> "none"]
Dealloc(ids) == IF ids = {} THEN NoMessage ELSE [type |-> "dealloc", ids |-> ids]
Add(ids) == [type |-> "add", ids |-> ids]
Codes(b, ids) == [type |-> "codes", buffer |-> b, ids |-> ids]

-----------------------------------------------------------------------------
(* The program's side.                                                     *)

BeginFrame(b, frame) ==
  /\ pc[b] = "idle"
  /\ sent[b] < MaxFrames
  /\ front' = [front EXCEPT ![b] = frame]
  /\ sent' = [sent EXCEPT ![b] = @ + 1]
  /\ pc' = [pc EXCEPT ![b] = "claim"]
  /\ UNCHANGED <<server, wire, viewer, mutex, message, frontResc>>

\* Mutant of MayCall: the calls of two worlds overlap.
MayCall_Always == TRUE

\* The state mutex "ensures the mgr state is consistent with what is actually
\* transmitted on the wire".
MayCall == mutex = None

\* The call of the display that sends a buffer's claim.
SendClaim(b, claim) ==
  LET after == BufferResources([server EXCEPT !.dealloc = {}], b, claim)
  IN /\ server' = [after EXCEPT !.dealloc = {}]
     /\ message' = [message EXCEPT ![b] = Dealloc(after.dealloc)]

\* send_codes and send_resources of vx_tcp_display, up to the write.
BeginCall(b) ==
  /\ pc[b] # "idle"
  /\ message[b] = None
  /\ MayCall
  /\ mutex' = b
  /\ \/ /\ pc[b] = "claim"
        /\ SendClaim(b, frontResc[b] \cup front[b])
     \/ /\ pc[b] = "resources"
        /\ LET after == AddResources([server EXCEPT !.held = {}], frontResc[b] \cup front[b])
           IN /\ server' = [after EXCEPT !.held = {}]
              /\ message' = [message EXCEPT ![b] = Add(after.held)]
     \/ /\ pc[b] = "codes"
        /\ message' = [message EXCEPT ![b] = Codes(b, front[b])]
        /\ UNCHANGED server
     \/ /\ pc[b] = "release"
        /\ SendClaim(b, front[b])
  /\ UNCHANGED <<wire, viewer, worldVars>>

\* write_code_data, which waits for the viewer when the socket is full.
Write(b) ==
  /\ message[b] # None
  /\ IF message[b] = NoMessage THEN UNCHANGED wire
     ELSE Len(wire) < MaxWire /\ wire' = Append(wire, message[b])
  /\ message' = [message EXCEPT ![b] = None]
  /\ mutex' = None
  /\ pc' = [pc EXCEPT ![b] = CASE @ = "claim" -> "resources"
                                [] @ = "resources" -> "codes"
                                [] @ = "codes" -> "release"
                                [] @ = "release" -> "idle"]
  /\ frontResc' = IF pc[b] = "release" THEN [frontResc EXCEPT ![b] = front[b]] ELSE frontResc
  /\ UNCHANGED <<server, viewer, front, sent>>

-----------------------------------------------------------------------------
(* The viewer's side.                                                      *)

\* Mutant of Apply: resources that come again stay flagged for deletion.
Apply_Flagged(disp, m) ==
  CASE m.type = "dealloc" -> [disp EXCEPT !.dealloc = @ \cup m.ids]
    [] m.type = "add"     -> [disp EXCEPT !.held = @ \cup m.ids]
    [] m.type = "codes"   -> SetRenderCodes(disp, m.buffer, m.ids)

\* listen_run hands a message to the GTK display, which passes resources through.
Apply(disp, m) ==
  CASE m.type = "dealloc" -> [disp EXCEPT !.dealloc = @ \cup m.ids]
    [] m.type = "add"     -> [disp EXCEPT !.held = @ \cup m.ids, !.dealloc = @ \ m.ids]
    [] m.type = "codes"   -> SetRenderCodes(disp, m.buffer, m.ids)

Receive ==
  /\ wire # <<>>
  /\ viewer' = Apply(viewer, Head(wire))
  /\ wire' = Tail(wire)
  /\ UNCHANGED <<server, mutex, message, worldVars>>

\* The viewer's render thread.
Draw ==
  /\ viewer' = DrawFrame(viewer)
  /\ UNCHANGED <<server, wire, mutex, message, worldVars>>

-----------------------------------------------------------------------------
Init ==
  /\ server = EmptyDisplay
  /\ viewer = EmptyDisplay
  /\ wire = <<>>
  /\ mutex = None
  /\ message = [b \in Buffers |-> None]
  /\ pc = [b \in Buffers |-> "idle"]
  /\ front = [b \in Buffers |-> {}]
  /\ frontResc = [b \in Buffers |-> {}]
  /\ sent = [b \in Buffers |-> 0]

Next ==
  \/ \E b \in Buffers : \E frame \in Frames[b] : BeginFrame(b, frame)
  \/ \E b \in Buffers : BeginCall(b) \/ Write(b)
  \/ Receive
  \/ Draw

-----------------------------------------------------------------------------
\* Whenever the viewer draws, it holds what the codes of every buffer name, and is
\* not about to delete it, however the worlds' messages are interleaved and
\* however far the viewer is behind.
ViewerHasResources ==
  \A b \in Buffers :
    viewer.codes[b] # None => viewer.codes[b] \subseteq viewer.held \ viewer.dealloc

\* The messages after which the viewer has r, 0 when it has it now, and those after
\* which it no longer does.
Comes(r) ==
  {i \in 0 .. Len(wire) : IF i = 0 THEN r \in viewer.held \ viewer.dealloc
                          ELSE wire[i].type = "add" /\ r \in wire[i].ids}
Goes(r) == {i \in 1 .. Len(wire) : wire[i].type = "dealloc" /\ r \in wire[i].ids}

\* What the viewer has, and will not delete, once it got the first k messages.
HasAfter(k) ==
  {r \in Resources : \E i \in Comes(r) : i <= k /\ \A j \in Goes(r) : i < j => k < j}

\* "Ensures the mgr state is consistent with what is actually transmitted on the
\* wire": once the viewer has caught up it has what the resource manager has on
\* record, and as the renderer asserts it is never told to delete what it has not got.
RecordMatchesWire ==
  /\ mutex = None => HasAfter(Len(wire)) = server.remote
  /\ \A k \in 1 .. Len(wire) : wire[k].type = "dealloc" => wire[k].ids \subseteq HasAfter(k - 1)
  /\ viewer.dealloc \subseteq viewer.held
=============================================================================
