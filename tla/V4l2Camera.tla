----------------------------- MODULE V4l2Camera -----------------------------
(***************************************************************************)
(* The Video4Linux driver: the buffers of the kernel's queue are mapped    *)
(* into the process, taken out filled (get_frame) and queued again         *)
(* (release_frame).                                                        *)
(***************************************************************************)
EXTENDS Naturals, Sequences, FiniteSets, Functions

CONSTANTS
  NumBuffers,  (* NUM_BUFFERS                                              *)
  MaxFrames,   (* bound: the frames the camera takes                       *)
  MaxStarts,   (* bound: the times start is called                         *)
  Unmapped     (* a buffer that is not mapped, a frame that is not lent    *)

Buffers == 1 .. NumBuffers

VARIABLES
  incoming,    (* kernel: the buffers queued to be filled, in order        *)
  outgoing,    (* kernel: the filled buffers, oldest first                 *)
  contents,    (* buffer -> the frame in it, Unmapped when it is not mapped *)
  userBuffers, (* the buffers the caller holds                             *)
  streaming,
  starts,
  taken,       (* the frames the camera has taken                          *)
  lastLent     (* history: the newest frame lent                           *)

queueVars == <<incoming, outgoing>>
vars == <<queueVars, contents, userBuffers, streaming, starts, taken, lastLent>>

Off ==
  /\ incoming = <<>>
  /\ outgoing = <<>>
  /\ contents = [b \in Buffers |-> Unmapped]
  /\ userBuffers = {}
  /\ streaming = FALSE

\* start maps and queues the buffers one by one and gives up queueing, but not
\* starting, when the kernel refuses one.
Start ==
  /\ Off
  /\ starts < MaxStarts
  /\ \E queued \in 0 .. NumBuffers :
       /\ incoming' = [k \in 1 .. queued |-> k]
       /\ contents' = [b \in Buffers |-> IF b <= queued + 1 THEN 0 ELSE Unmapped]
  /\ streaming' = TRUE
  /\ starts' = starts + 1
  /\ UNCHANGED <<outgoing, userBuffers, taken, lastLent>>

\* Kernel: the camera fills the oldest queued buffer, or the frame is lost.
Capture ==
  /\ streaming
  /\ taken < MaxFrames
  /\ taken' = taken + 1
  /\ \/ /\ incoming # <<>>
        /\ incoming' = Tail(incoming)
        /\ outgoing' = Append(outgoing, Head(incoming))
        /\ contents' = [contents EXCEPT ![Head(incoming)] = taken']
     \/ UNCHANGED <<queueVars, contents>>
  /\ UNCHANGED <<userBuffers, streaming, starts, lastLent>>

\* get_frame: select waits for a filled buffer, VIDIOC_DQBUF takes it out.
GetFrame ==
  /\ streaming
  /\ outgoing # <<>>
  /\ userBuffers' = userBuffers \cup {Head(outgoing)}
  /\ lastLent' = contents[Head(outgoing)]
  /\ outgoing' = Tail(outgoing)
  /\ UNCHANGED <<incoming, contents, streaming, starts, taken>>

\* Mutant of Requeue: the buffer goes back with its filled ones.
Requeue_Filled(b) ==
  /\ outgoing' = Append(outgoing, b)
  /\ UNCHANGED incoming

Requeue(b) ==
  /\ incoming' = Append(incoming, b)
  /\ UNCHANGED outgoing

\* release_frame finds the buffer by its address and queues it.
ReleaseFrame(b) ==
  /\ b \in userBuffers
  /\ userBuffers' = userBuffers \ {b}
  /\ Requeue(b)
  /\ UNCHANGED <<contents, streaming, starts, taken, lastLent>>

\* stop: VIDIOC_STREAMOFF empties the kernel's queues; unmapping fails at the
\* first buffer start did not map.
Stop ==
  /\ streaming
  /\ userBuffers = {}
  /\ incoming' = <<>>
  /\ outgoing' = <<>>
  /\ contents' = [b \in Buffers |-> Unmapped]
  /\ streaming' = FALSE
  /\ UNCHANGED <<userBuffers, starts, taken, lastLent>>

Init ==
  /\ Off
  /\ starts = 0
  /\ taken = 0
  /\ lastLent = 0

Next ==
  \/ Start
  \/ Capture
  \/ GetFrame
  \/ \E b \in Buffers : ReleaseFrame(b)
  \/ Stop

Spec == Init /\ [][Next]_vars

-----------------------------------------------------------------------------
\* Every buffer that was queued at start is in one place: with the kernel, empty
\* or filled, or with the caller; and those that are filled come out in the
\* order they were filled.
BuffersAccounted ==
  /\ IsInjective(incoming \o outgoing)
  /\ Range(incoming \o outgoing) \cap userBuffers = {}
  /\ \A i, j \in DOMAIN outgoing :
       i < j => contents[outgoing[i]] < contents[outgoing[j]]

LentFrames ==
  [b \in Buffers |-> IF b \in userBuffers THEN [no |-> contents[b]] ELSE Unmapped]

Promised == INSTANCE FrameSource WITH
  Slots <- Buffers, None <- Unmapped, lent <- LentFrames, last <- lastLent

\* The queue is a frame source: see FrameSource.
KeepsPromise == Promised!Spec
=============================================================================
