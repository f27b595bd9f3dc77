---------------------------- MODULE DynamixelBus ----------------------------
(***************************************************************************)
(* The serial bus of the servos: send_command writes a request, hunts for  *)
(* the header of a response in what the line delivers, reads the body, and *)
(* tries again when any of that fails and the caller asked for retries.    *)
(*                                                                         *)
(* The line is a sequence of pieces: four-byte headers, bodies, and junk.  *)
(* Nothing ever flushes it, so what one attempt leaves the next one reads. *)
(* A byte pair ff ff within a body is not modelled, nor a header cut short.*)
(***************************************************************************)
EXTENDS Integers, Sequences

CONSTANTS
  Ids,        (* servo ids on the bus                                      *)
  MaxCalls,   (* bound: calls made                                         *)
  Faults,     (* what may befall a request or its response                 *)
  UnwrittenSum, (* whether memory never written may have a right checksum  *)
  None        (* NULL                                                      *)

ASSUME DynamixelBusAssumption ==
  /\ MaxCalls \in Nat \ {0}
  /\ Faults \subseteq {"lost", "noise", "corrupt", "truncated", "late"}
  /\ UnwrittenSum \in BOOLEAN

VARIABLES
  pc,         (* where send_command is; "idle" outside it                  *)
  call,       (* its arguments: the servo and whether to retry             *)
  callNo,     (* history: calls begun                                      *)
  wire,       (* pieces sent by servos and not yet read                    *)
  response,   (* what the last call returned                               *)
  executed    (* history: times the servo carried this call out (2: more)  *)

vars == <<pc, call, callNo, wire, response, executed>>

Calls == [id : Ids, retry : BOOLEAN]

\* Error codes: none; in errormask (angle limit, voltage, overload); others.
Codes == {"none", "masked", "other"}

Headers == [part : {"header"}, call : 1 .. MaxCalls, id : Ids, short : BOOLEAN]

Bodies == [part : {"body"}, call : 0 .. MaxCalls, code : Codes, sumOk : BOOLEAN]

ASSUME NoneAssumption == None \notin Calls \cup Bodies

Header(n, id) == [part |-> "header", call |-> n, id |-> id, short |-> FALSE]
ShortHeader(n, id) == [part |-> "header", call |-> n, id |-> id, short |-> TRUE]
Body(n, code) == [part |-> "body", call |-> n, code |-> code, sumOk |-> TRUE]
BadBody(n) == [part |-> "body", call |-> n, code |-> "none", sumOk |-> FALSE]
Junk == [part |-> "junk"]

\* What memory that was never written may pass for: a body of no call.
Garbage == {BadBody(0)} \cup (IF UnwrittenSum THEN {Body(0, "none")} ELSE {})

\* A servo's response to call n as it may come out of the line.
Response(n, id, code) ==
  { <<Header(n, id), Body(n, code)>> }
    \cup (IF "lost" \in Faults THEN {<<>>} ELSE {})
    \cup (IF "noise" \in Faults THEN {<<Junk, Header(n, id), Body(n, code)>>} ELSE {})
    \cup (IF "corrupt" \in Faults
          THEN { <<Header(n, id), BadBody(n)>>,
                 <<ShortHeader(n, id), Body(n, code)>>,
                 <<Junk, Body(n, code)>> }
               \cup { <<Header(n, other), Body(n, code)>> : other \in Ids \ {id} }
          ELSE {})
    \cup (IF "truncated" \in Faults THEN {<<Header(n, id)>>} ELSE {})

-----------------------------------------------------------------------------
Call ==
  /\ pc = "idle"
  /\ callNo < MaxCalls
  /\ call' \in Calls
  /\ callNo' = callNo + 1
  /\ executed' = 0
  /\ response' = None
  /\ pc' = "send"
  /\ UNCHANGED wire

Executes == executed' = IF executed = 0 THEN 1 ELSE 2

\* The request is written.  The servo carries it out and responds, or never
\* gets it; one that reports another error may not have carried it out.
Write(code) ==
  /\ pc = "send"
  /\ Executes \/ (code = "other" /\ UNCHANGED executed)
  /\ \E pieces \in Response(callNo, call.id, code) : wire' = wire \o pieces
  /\ pc' = "header"
  /\ UNCHANGED <<call, callNo, response>>

WriteLost ==
  /\ pc = "send"
  /\ "lost" \in Faults
  /\ pc' = "header"
  /\ UNCHANGED <<call, callNo, wire, response, executed>>

\* Mutant of Again: the caller's wish not to retry is ignored.
Again_Always == TRUE

\* while (retry && bus->retry_enable); nothing ever clears retry_enable.
Again == call.retry

Fail ==
  /\ pc' = IF Again THEN "send" ELSE "idle"
  /\ response' = None

Keep == UNCHANGED <<call, callNo, executed>>

\* Mutant of Silence: the timeout is shorter than a servo takes to respond.
Silence_Short == TRUE

\* Nothing (more) came in TIMEOUT_MS.
Silence == wire = <<>> \/ "late" \in Faults

HeaderTimeout ==
  /\ pc = "header"
  /\ Silence
  /\ Fail
  /\ Keep
  /\ UNCHANGED wire

\* Mutant of SkipByte: the buffer is not shifted.
SkipByte_Unshifted ==
  /\ pc = "header"
  /\ wire # <<>>
  /\ Head(wire).part # "header"
  /\ Keep
  /\ UNCHANGED <<wire, pc, response>>

\* Synchronizing: bytes are dropped until two sync bytes lead the buffer.
SkipByte ==
  /\ pc = "header"
  /\ wire # <<>>
  /\ Head(wire).part # "header"
  /\ wire' = Tail(wire)
  /\ Keep
  /\ UNCHANGED <<pc, response>>

RightHeader(h) == h.id = call.id /\ ~h.short

\* A header of another servo or with no room for a body fails the attempt;
\* the body that follows it stays in the line.
ReadHeader ==
  /\ pc = "header"
  /\ wire # <<>>
  /\ Head(wire).part = "header"
  /\ wire' = Tail(wire)
  /\ IF RightHeader(Head(wire)) THEN pc' = "body" /\ UNCHANGED response ELSE Fail
  /\ Keep

\* Mutant of Accepted: the checksum is not compared.
Accepted_BadSum(body) == body.code # "other"

\* The checksum is right, and the error code none or one of errormask.
Accepted(body) == body.sumOk /\ body.code # "other"

Check(body) ==
  /\ IF Accepted(body) THEN pc' = "idle" /\ response' = body ELSE Fail
  /\ Keep

\* The body is read; anything else found in its place fails the checksum.
ReadBody ==
  /\ pc = "body"
  /\ wire # <<>>
  /\ wire' = Tail(wire)
  /\ Check(IF Head(wire).part = "body" THEN Head(wire) ELSE BadBody(0))

\* Too few bytes came, but the checksum is compared all the same, over
\* whatever the buffer held before.
BodyTimeout ==
  /\ pc = "body"
  /\ Silence
  /\ \E body \in Garbage : Check(body)
  /\ UNCHANGED wire

Init ==
  /\ pc = "idle"
  /\ call = None
  /\ callNo = 0
  /\ wire = <<>>
  /\ response = None
  /\ executed = 0

Next ==
  \/ Call
  \/ \E code \in Codes : Write(code)
  \/ WriteLost
  \/ HeaderTimeout
  \/ SkipByte
  \/ ReadHeader
  \/ ReadBody
  \/ BodyTimeout

Spec == Init /\ [][Next]_vars

\* send_command keeps running, and the line is not always at fault: of
\* infinitely many attempts some get a clean answer.
CleanWrite ==
  /\ Write("none")
  /\ wire' = wire \o <<Header(callNo, call.id), Body(callNo, "none")>>

Running == HeaderTimeout \/ SkipByte \/ ReadHeader \/ ReadBody \/ BodyTimeout

Writing == WriteLost \/ \E code \in Codes : Write(code)

FairSpec ==
  Spec /\ WF_vars(Running) /\ WF_vars(Writing) /\ SF_vars(CleanWrite)

-----------------------------------------------------------------------------
TypeOK ==
  /\ pc \in {"idle", "send", "header", "body"}
  /\ call \in Calls \cup {None}
  /\ pc # "idle" => call \in Calls
  /\ callNo \in 0 .. MaxCalls
  /\ wire \in Seq(Headers \cup Bodies \cup {Junk})
  /\ response \in Bodies \cup {None}
  /\ executed \in 0 .. 2

\* The bodies and junk a failed attempt leaves in the line are harmless, for
\* no header is ever left there to be taken for the next response's
\* (send_command_raw never flushes the line).
NoStaleHeader ==
  pc \in {"idle", "send"} => \A i \in DOMAIN wire : wire[i].part # "header"

\* A returned response is the one the servo gave to this very call
\* (send_command_raw's comment: "The error code, body, and checksum of the
\* response are returned").
AnswersItsRequest ==
  (pc = "idle" /\ response # None) => response.call = callNo

\* send_command keeps what RemoteCall promises: an answer means that the servo
\* carried the call out, NULL that no retry was asked for, in which case the
\* servo did not do it twice.
Abstract ==
  INSTANCE RemoteCall WITH
    calling <- IF pc = "idle" THEN None ELSE call,
    outcome <- IF callNo = 0 \/ pc # "idle" THEN None
               ELSE IF response = None THEN "null" ELSE "answer"

KeepsPromise == Abstract!Spec

\* A call ends, with retries as without, if the line works now and then
\* (the do-while of serial_bus_send_command has no other way out).
CallReturns == pc # "idle" ~> pc = "idle"
=============================================================================
