----------------------------- MODULE TcpCamera -----------------------------
(***************************************************************************)
(* The TCP image source: a reader thread finds frames in the stream of a   *)
(* server, keeps the newest, and connects again when the stream breaks;    *)
(* the caller waits for a frame and takes it away with its buffer.         *)
(***************************************************************************)
EXTENDS Naturals

CONSTANTS
  Word,           (* the bytes of the synchronization word                 *)
  MessageLength,  (* the bytes of a frame on the wire, with that word      *)
  MaxFrames,      (* bound: the frames the server sends                    *)
  MaxConnections, (* bound: the connections made                           *)
  NoFrame         (* impl->data when it is NULL                            *)

VARIABLES
  readerPc,       (* "connect", "sync", "body", "store", "crashed"         *)
  at,             (* how far into a frame's bytes the stream is            *)
  sending,        (* the frame those bytes are of                          *)
  frame,          (* the frame the reader has just read                    *)
  latest,         (* impl->data, a frame with the buffer it is in          *)
  user,           (* the frame the caller holds                            *)
  connections,    (* the connections made                                  *)
  lastLent        (* history: the newest frame lent                        *)

streamVars == <<at, sending>>
vars == <<readerPc, streamVars, frame, latest, user, connections, lastLent>>

\* The server may be in the middle of a frame when it takes the connection.
Connect ==
  /\ readerPc = "connect"
  /\ connections < MaxConnections
  /\ connections' = connections + 1
  /\ readerPc' = "sync"
  /\ at' \in 0 .. MessageLength - 1
  /\ UNCHANGED <<sending, frame, latest, user, lastLent>>

\* The error path closes the FILE that was never opened.
ConnectFails ==
  /\ readerPc = "connect"
  /\ readerPc' = "crashed"
  /\ UNCHANGED <<streamVars, frame, latest, user, connections, lastLent>>

\* Mutant of Aligned: a word that only overlaps the start of a frame will do.
Aligned_Overlapping == at = 0 \/ at + Word > MessageLength

\* The word read is the synchronization word.
Aligned == at = 0

\* Mutant of NextAt: a frame's worth of bytes is passed over.
NextAt_SameAgain == at

\* Where the stream is after a word.
NextAt == (at + Word) % MessageLength

\* read_u64 and the comparison; words are read one after the other, and one
\* that is not the synchronization word is passed over whole.
ReadWord ==
  /\ readerPc = "sync"
  /\ sending <= MaxFrames
  /\ IF Aligned
     THEN /\ readerPc' = "body"
          /\ UNCHANGED streamVars
     ELSE /\ at' = NextAt
          /\ sending' = IF at + Word >= MessageLength THEN sending + 1 ELSE sending
          /\ UNCHANGED readerPc
  /\ UNCHANGED <<frame, latest, user, connections, lastLent>>

\* The header and the data after it, from wherever the stream is.
ReadBody ==
  /\ readerPc = "body"
  /\ frame' = [no |-> sending, whole |-> at = 0]
  /\ sending' = sending + 1
  /\ readerPc' = "store"
  /\ UNCHANGED <<at, latest, user, connections, lastLent>>

\* A read fails: the socket is closed and the thread sleeps and connects again.
\* What was sent meanwhile is lost.
Disconnect ==
  /\ readerPc \in {"sync", "body"}
  /\ connections < MaxConnections
  /\ readerPc' = "connect"
  /\ sending' \in sending .. sending + 1
  /\ UNCHANGED <<at, frame, latest, user, connections, lastLent>>

\* Under the mutex: the frame nobody took is freed.
Store ==
  /\ readerPc = "store"
  /\ latest' = frame
  /\ readerPc' = "sync"
  /\ UNCHANGED <<streamVars, frame, user, connections, lastLent>>

\* Mutant of Left: the frame stays where it is.
Left_Behind == latest

\* What get_frame leaves in impl->data.
Left == NoFrame

\* get_frame, which waits for a frame; get_format and set_format change nothing.
GetFrame ==
  /\ readerPc # "crashed"
  /\ user = NoFrame
  /\ latest # NoFrame
  /\ user' = latest
  /\ lastLent' = latest.no
  /\ latest' = Left
  /\ UNCHANGED <<readerPc, streamVars, frame, connections>>

\* release_frame frees the buffer.
ReleaseFrame ==
  /\ readerPc # "crashed"
  /\ user # NoFrame
  /\ user' = NoFrame
  /\ UNCHANGED <<readerPc, streamVars, frame, latest, connections, lastLent>>

Init ==
  /\ readerPc = "connect"
  /\ at = 0
  /\ sending = 1
  /\ frame = NoFrame
  /\ latest = NoFrame
  /\ user = NoFrame
  /\ connections = 0
  /\ lastLent = 0

Reader == Connect \/ ReadWord \/ ReadBody \/ Store

Next ==
  \/ Reader
  \/ ConnectFails
  \/ Disconnect
  \/ GetFrame
  \/ ReleaseFrame

Spec == Init /\ [][Next]_vars

-----------------------------------------------------------------------------
\* What the caller gets is one frame of the server's, even when the connection
\* was made in the middle of one.
FramesAreWhole == \A f \in {latest, user} \ {NoFrame} : f.whole

\* A reader that has connected finds the start of a frame, wherever in the
\* stream it began to read words of eight bytes: a frame's length has no factor
\* in common with that.  Unless the server has no more to send or breaks off.
FindsSync ==
  readerPc = "sync" ~> (readerPc # "sync" \/ sending > MaxFrames)

LentFrames == [s \in {1} |-> user]

Promised == INSTANCE FrameSource WITH
  Slots <- {1}, None <- NoFrame, lent <- LentFrames, last <- lastLent

\* The reader and the caller make a frame source: see FrameSource.
KeepsPromise == Promised!Spec

=============================================================================
