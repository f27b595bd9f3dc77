---------------------------- MODULE RobotProofs ----------------------------
(***************************************************************************)
(* Proofs about the programs of MCRobot and the devices they talk to.      *)
(*                                                                         *)
(* First about DynamixelBus, for any number of servos and of calls, when   *)
(* responses come within the timeout and unwritten memory fails the        *)
(* checksum (without either the properties are violated, see the runs).    *)
(* Then about a servo, the lidar, the USB camera and the TCP image source, *)
(* and last about all of them, as MCRobot puts them together.              *)
(***************************************************************************)
EXTENDS MCRobot, FiniteSetTheorems, WellFoundedInduction, TLAPS

Timely == "late" \notin Faults /\ ~UnwrittenSum

Pieces == Headers \cup Bodies \cup {Junk}

\* A body that may only pass for the response to call n, carried out done
\* times, if it was carried out.
Answer(p, n, done) ==
  /\ p.part = "body"
  /\ p.sumOk => p.call = n /\ (p.code # "other" => done > 0)

\* A header is the last piece but one at most, and the call's answer follows.
AnswerFollows(w, n, done) ==
  \A i \in DOMAIN w :
    w[i].part = "header" =>
      /\ Len(w) <= i + 1
      /\ \A j \in DOMAIN w : j > i => Answer(w[j], n, done)

\* The strengthening of NoStaleHeader that each step preserves.
WireInv ==
  /\ NoStaleHeader
  /\ pc # "idle" => callNo > 0
  /\ pc = "header" => AnswerFollows(wire, callNo, executed)
  /\ pc = "body" => /\ Len(wire) <= 1
                    /\ \A j \in DOMAIN wire : Answer(wire[j], callNo, executed)
  /\ (pc = "send" /\ ~call.retry) => executed = 0

IInv == TypeOK /\ WireInv /\ AnswersItsRequest

\* Every response a servo may give is made of pieces, and a header in it is
\* followed by its answer.
LEMMA ResponseShape ==
  ASSUME NEW code \in Codes, NEW n \in 1 .. MaxCalls, NEW id \in Ids,
         NEW pieces \in Response(n, id, code), NEW done \in 0 .. 2,
         code # "other" => done > 0
  PROVE  pieces \in Seq(Pieces) /\ AnswerFollows(pieces, n, done)
<1> DEFINE H == Header(n, id)
           B == Body(n, code)
<1>1. /\ H \in Pieces
      /\ B \in Pieces
      /\ BadBody(n) \in Pieces
      /\ ShortHeader(n, id) \in Pieces
      /\ Junk \in Pieces
      /\ \A other \in Ids : Header(n, other) \in Pieces
  BY DynamixelBusAssumption
     DEF Pieces, Headers, Bodies, Header, ShortHeader, Body, BadBody, Codes
<1>2. /\ Answer(B, n, done)
      /\ Answer(BadBody(n), n, done)
      /\ B.part = "body"
      /\ BadBody(n).part = "body"
      /\ Junk.part = "junk"
  BY DEF Answer, Body, BadBody, Junk
<1> DEFINE Two == {B, BadBody(n)}
<1>3. ASSUME NEW h \in Pieces, NEW b \in Two
      PROVE  <<h, b>> \in Seq(Pieces) /\ AnswerFollows(<<h, b>>, n, done)
  BY <1>1, <1>2 DEF AnswerFollows
<1>4. <<>> \in Seq(Pieces) /\ AnswerFollows(<<>>, n, done)
  BY DEF AnswerFollows
<1>5. <<H>> \in Seq(Pieces) /\ AnswerFollows(<<H>>, n, done)
  BY <1>1 DEF AnswerFollows
<1>6. <<Junk, H, B>> \in Seq(Pieces) /\ AnswerFollows(<<Junk, H, B>>, n, done)
  BY <1>1, <1>2 DEF AnswerFollows
<1>7. \/ pieces \in {<<>>, <<H>>, <<Junk, H, B>>}
      \/ \E h \in Pieces, b \in Two : pieces = <<h, b>>
  BY <1>1 DEF Response
<1> QED BY <1>3, <1>4, <1>5, <1>6, <1>7

\* Appended to a line with no header in it, a response keeps its shape.
LEMMA AppendResponse ==
  ASSUME NEW w \in Seq(Pieces), NEW p \in Seq(Pieces), NEW n, NEW done,
         \A i \in DOMAIN w : w[i].part # "header", AnswerFollows(p, n, done)
  PROVE  w \o p \in Seq(Pieces) /\ AnswerFollows(w \o p, n, done)
<1> DEFINE c == w \o p
<1>1. c \in Seq(Pieces) /\ Len(c) = Len(w) + Len(p) /\ Len(w) \in Nat /\ Len(p) \in Nat
  OBVIOUS
<1>2. DOMAIN c = 1 .. Len(c) /\ DOMAIN p = 1 .. Len(p) /\ DOMAIN w = 1 .. Len(w)
  BY <1>1
<1>3. \A i \in DOMAIN c : c[i] = IF i <= Len(w) THEN w[i] ELSE p[i - Len(w)]
  BY <1>1, <1>2
<1> HIDE DEF c
<1>4. ASSUME NEW i \in DOMAIN c, c[i].part = "header"
      PROVE  Len(c) <= i + 1 /\ \A j \in DOMAIN c : j > i => Answer(c[j], n, done)
  <2>1. i > Len(w)
    BY <1>1, <1>2, <1>3, <1>4
  <2> DEFINE k == i - Len(w)
  <2>2. k \in DOMAIN p /\ p[k].part = "header"
    BY <2>1, <1>1, <1>2, <1>3, <1>4
  <2>3. Len(p) <= k + 1 /\ \A j \in DOMAIN p : j > k => Answer(p[j], n, done)
    BY <2>2 DEF AnswerFollows
  <2>4. ASSUME NEW j \in DOMAIN c, j > i PROVE Answer(c[j], n, done)
    <3>1. j - Len(w) \in DOMAIN p /\ j - Len(w) > k /\ c[j] = p[j - Len(w)]
      BY <2>1, <2>4, <1>1, <1>2, <1>3
    <3> QED BY <3>1, <2>3
  <2> QED BY <2>3, <2>4, <1>1, <1>2
<1>5. AnswerFollows(c, n, done)
  BY <1>4 DEF AnswerFollows
<1> QED BY <1>1, <1>5 DEF c

\* What follows the first piece of a line.
LEMMA TailOfLine ==
  ASSUME NEW w \in Seq(Pieces), w # <<>>
  PROVE  /\ Tail(w) \in Seq(Pieces)
         /\ Head(w) = w[1] /\ w[1] \in Pieces /\ 1 \in DOMAIN w
         /\ Len(w) \in Nat /\ Len(Tail(w)) = Len(w) - 1
         /\ DOMAIN w = 1 .. Len(w) /\ DOMAIN Tail(w) = 1 .. Len(w) - 1
         /\ \A i \in DOMAIN Tail(w) : i + 1 \in DOMAIN w /\ Tail(w)[i] = w[i + 1]
OBVIOUS

-----------------------------------------------------------------------------
(* The inductive invariant.                                                *)

\* Initially the line is empty and no call was made.
LEMMA InvInit == Init => IInv
<1> SUFFICES ASSUME Init PROVE IInv
  OBVIOUS
<1>1. TypeOK
  BY DynamixelBusAssumption DEF Init, TypeOK
<1> QED BY <1>1 DEF Init, IInv, WireInv, NoStaleHeader, AnswersItsRequest, AnswerFollows

\* A failed attempt that leaves no header in the line preserves the invariant.
LEMMA FailStep ==
  ASSUME IInv, Fail, Keep, pc \in {"header", "body"},
         wire' \in Seq(Pieces), \A i \in DOMAIN wire' : wire'[i].part # "header"
  PROVE  IInv'
<1>1. TypeOK'
  BY DEF IInv, TypeOK, Fail, Keep, Pieces
<1>2. pc' \in {"send", "idle"} /\ (pc' = "send" => call.retry) /\ response' = None
  BY DEF Fail, Again
<1>3. callNo' > 0 /\ call' = call
  BY DEF IInv, WireInv, Keep
<1>4. WireInv'
  BY <1>2, <1>3 DEF WireInv, NoStaleHeader
<1> QED BY <1>1, <1>2, <1>4 DEF IInv, AnswersItsRequest

\* The end of an attempt whose body, if it passes, is the answer to the call.
LEMMA CheckStep ==
  ASSUME IInv, pc = "body", NEW body \in Bodies, Check(body),
         Accepted(body) => body.call = callNo,
         wire' \in Seq(Pieces), \A i \in DOMAIN wire' : wire'[i].part # "header"
  PROVE  IInv'
<1>1. CASE Accepted(body)
  <2>1. pc' = "idle" /\ response' = body /\ UNCHANGED <<call, callNo, executed>>
    BY <1>1 DEF Check, Keep
  <2>2. TypeOK'
    BY <2>1 DEF IInv, TypeOK, Pieces
  <2>3. WireInv' /\ AnswersItsRequest'
    BY <2>1, <1>1 DEF IInv, WireInv, NoStaleHeader, AnswersItsRequest
  <2> QED BY <2>2, <2>3 DEF IInv
<1>2. CASE ~Accepted(body)
  BY <1>2, FailStep DEF Check
<1> QED BY <1>1, <1>2

\* Every step preserves the invariant.
LEMMA InvStep == ASSUME Timely PROVE IInv /\ [Next]_vars => IInv'
<1> SUFFICES ASSUME IInv, [Next]_vars PROVE IInv'
  OBVIOUS
<1>0. wire \in Seq(Pieces) /\ callNo \in 0 .. MaxCalls /\ MaxCalls \in Nat
  BY DynamixelBusAssumption DEF IInv, TypeOK, Pieces
<1>1. CASE Call
  <2>1. /\ pc = "idle" /\ pc' = "send" /\ callNo' = callNo + 1 /\ callNo < MaxCalls
        /\ call' \in Calls /\ executed' = 0 /\ response' = None /\ wire' = wire
    BY <1>1 DEF Call
  <2>2. TypeOK'
    BY <2>1, <1>0 DEF IInv, TypeOK
  <2>3. WireInv' /\ AnswersItsRequest'
    BY <2>1, <1>0 DEF IInv, WireInv, NoStaleHeader, AnswersItsRequest
  <2> QED BY <2>2, <2>3 DEF IInv
<1>2. ASSUME NEW code \in Codes, Write(code) PROVE IInv'
  <2>1. PICK pieces \in Response(callNo, call.id, code) : wire' = wire \o pieces
    BY <1>2 DEF Write
  <2>2. /\ pc = "send" /\ pc' = "header"
        /\ UNCHANGED <<call, callNo, response>>
        /\ call \in Calls /\ call.id \in Ids /\ callNo \in 1 .. MaxCalls
    BY <1>2, <1>0 DEF Write, IInv, TypeOK, WireInv, Calls
  <2>3. executed' \in 0 .. 2 /\ (code # "other" => executed' > 0)
    BY <1>2 DEF Write, Executes, IInv, TypeOK
  <2>4. pieces \in Seq(Pieces) /\ AnswerFollows(pieces, callNo, executed')
    BY <2>1, <2>2, <2>3, ResponseShape
  <2>5. wire' \in Seq(Pieces) /\ AnswerFollows(wire', callNo', executed')
    BY <2>1, <2>2, <2>4, <1>0, AppendResponse DEF IInv, WireInv, NoStaleHeader
  <2>6. TypeOK'
    BY <2>2, <2>3, <2>5 DEF IInv, TypeOK, Pieces
  <2>7. WireInv' /\ AnswersItsRequest'
    BY <2>2, <2>5, <1>0 DEF WireInv, NoStaleHeader, AnswersItsRequest
  <2> QED BY <2>6, <2>7 DEF IInv
<1>3. CASE WriteLost
  <2>1. pc = "send" /\ pc' = "header" /\ UNCHANGED <<call, callNo, wire, response, executed>>
    BY <1>3 DEF WriteLost
  <2>2. TypeOK'
    BY <2>1 DEF IInv, TypeOK
  <2>3. WireInv' /\ AnswersItsRequest'
    BY <2>1 DEF IInv, WireInv, NoStaleHeader, AnswersItsRequest, AnswerFollows
  <2> QED BY <2>2, <2>3 DEF IInv
<1>4. CASE HeaderTimeout
  <2>1. wire = <<>>
    BY <1>4 DEF HeaderTimeout, Silence, Timely
  <2> QED BY <2>1, <1>4, <1>0, FailStep DEF HeaderTimeout
<1>5. CASE SkipByte
  <2>1. /\ pc = "header" /\ wire # <<>> /\ wire[1].part # "header" /\ wire' = Tail(wire)
        /\ UNCHANGED <<pc, call, callNo, response, executed>>
    BY <1>5 DEF SkipByte, Keep
  <2>2. TypeOK'
    BY <2>1, <1>0 DEF IInv, TypeOK, Pieces
  <2>3. AnswerFollows(wire', callNo', executed')
    <3>1. AnswerFollows(wire, callNo, executed)
      BY <2>1 DEF IInv, WireInv
    <3> QED BY <3>1, <2>1, <1>0, TailOfLine DEF AnswerFollows
  <2>4. WireInv' /\ AnswersItsRequest'
    BY <2>1, <2>3 DEF IInv, WireInv, NoStaleHeader, AnswersItsRequest
  <2> QED BY <2>2, <2>4 DEF IInv
<1>6. CASE ReadHeader
  <2>1. /\ pc = "header" /\ wire # <<>> /\ wire[1].part = "header" /\ wire' = Tail(wire)
        /\ UNCHANGED <<call, callNo, executed>>
    BY <1>6 DEF ReadHeader, Keep
  <2>2. /\ wire' \in Seq(Pieces)
        /\ Len(wire') <= 1
        /\ \A j \in DOMAIN wire' : Answer(wire'[j], callNo, executed)
    <3>1. AnswerFollows(wire, callNo, executed)
      BY <2>1 DEF IInv, WireInv
    <3>2. /\ wire' \in Seq(Pieces) /\ 1 \in DOMAIN wire
          /\ Len(wire) \in Nat /\ Len(wire') = Len(wire) - 1
          /\ DOMAIN wire = 1 .. Len(wire) /\ DOMAIN wire' = 1 .. Len(wire) - 1
          /\ \A i \in DOMAIN wire' : i + 1 \in DOMAIN wire /\ wire'[i] = wire[i + 1]
      BY <2>1, <1>0, TailOfLine
    <3>3. Len(wire) <= 2 /\ \A j \in DOMAIN wire : j > 1 => Answer(wire[j], callNo, executed)
      BY <3>1, <3>2, <2>1 DEF AnswerFollows
    <3>4. ASSUME NEW j \in DOMAIN wire' PROVE Answer(wire'[j], callNo, executed)
      <4>1. j + 1 > 1 /\ j + 1 \in DOMAIN wire /\ wire'[j] = wire[j + 1]
        BY <3>2
      <4> QED BY <4>1, <3>3
    <3> QED BY <3>2, <3>3, <3>4
  <2>3. CASE RightHeader(Head(wire))
    <3>1. pc' = "body" /\ UNCHANGED response
      BY <1>6, <2>3 DEF ReadHeader
    <3>2. TypeOK'
      BY <3>1, <2>1, <2>2 DEF IInv, TypeOK, Pieces
    <3>3. WireInv' /\ AnswersItsRequest'
      BY <3>1, <2>1, <2>2 DEF IInv, WireInv, NoStaleHeader, AnswersItsRequest
    <3> QED BY <3>2, <3>3 DEF IInv
  <2>4. CASE ~RightHeader(Head(wire))
    BY <2>4, <1>6, <2>1, <2>2, FailStep DEF ReadHeader, Answer
  <2> QED BY <2>3, <2>4
<1>7. CASE ReadBody
  <2>1. pc = "body" /\ wire # <<>> /\ wire' = Tail(wire)
    BY <1>7 DEF ReadBody
  <2>2. Len(wire) <= 1 /\ \A j \in DOMAIN wire : Answer(wire[j], callNo, executed)
    BY <2>1 DEF IInv, WireInv
  <2>3. /\ wire' \in Seq(Pieces) /\ Head(wire) \in Pieces
        /\ Answer(Head(wire), callNo, executed)
        /\ DOMAIN wire' = {}
    BY <2>1, <2>2, <1>0, TailOfLine
  <2>4. Head(wire) \in Bodies /\ Check(Head(wire))
    BY <1>7, <2>3 DEF ReadBody, Answer, Pieces, Headers, Bodies, Junk
  <2>5. Accepted(Head(wire)) => Head(wire).call = callNo
    BY <2>3 DEF Accepted, Answer
  <2> QED BY <2>1, <2>3, <2>4, <2>5, CheckStep
<1>8. CASE BodyTimeout
  <2>1. pc = "body" /\ wire = <<>> /\ wire' = wire /\ Check(BadBody(0))
    BY <1>8 DEF BodyTimeout, Silence, Garbage, Timely
  <2>2. BadBody(0) \in Bodies /\ ~Accepted(BadBody(0))
    BY <1>0 DEF BadBody, Bodies, Codes, Accepted
  <2> QED BY <2>1, <2>2, <1>0, CheckStep
<1>9. CASE UNCHANGED vars
  BY <1>9 DEF vars, IInv, TypeOK, WireInv, NoStaleHeader, AnswersItsRequest
<1> QED BY <1>1, <1>2, <1>3, <1>4, <1>5, <1>6, <1>7, <1>8, <1>9 DEF Next

\* The invariant holds throughout.
LEMMA Invariance == ASSUME Timely PROVE Spec => []IInv
<1>1. IInv /\ [Next]_vars => IInv'
  BY InvStep
<1> QED BY <1>1, InvInit, PTL DEF Spec

-----------------------------------------------------------------------------
\* The bus's variables keep their types, whatever the line does within the
\* timeout (send_command_raw, serial_bus_send_command).
THEOREM TypeCorrect == ASSUME Timely PROVE Spec => []TypeOK
<1>1. IInv => TypeOK
  BY DEF IInv
<1> QED BY <1>1, Invariance, PTL

\* No attempt leaves a header in the line for the next one to take for its
\* own (send_command_raw, which never flushes the line).
THEOREM LineHoldsNoStaleHeader == ASSUME Timely PROVE Spec => []NoStaleHeader
<1>1. IInv => NoStaleHeader
  BY DEF IInv, WireInv
<1> QED BY <1>1, Invariance, PTL

\* What send_command returns is the servo's response to that very call.
THEOREM ResponseAnswersRequest == ASSUME Timely PROVE Spec => []AnswersItsRequest
<1>1. IInv => AnswersItsRequest
  BY DEF IInv
<1> QED BY <1>1, Invariance, PTL

\* send_command implements RemoteCall: an answer means that the servo carried
\* out the call, NULL is only returned to callers that asked for no retry, and
\* for these the servo carries it out once at most.
THEOREM BusKeepsPromise == ASSUME Timely PROVE Spec => KeepsPromise
<1>1. Init => Abstract!Init
  BY DEF Init, Abstract!Init
<1>2. IInv /\ [Next]_vars => [Abstract!Next]_(Abstract!callVars)
  <2> SUFFICES ASSUME IInv, [Next]_vars PROVE [Abstract!Next]_(Abstract!callVars)
    OBVIOUS
  <2> USE DEF Abstract!Next, Abstract!callVars, Abstract!Begin, Abstract!Execute, Abstract!Return
  <2>0. /\ call \in Calls \cup {None} /\ None \notin Calls \cup Bodies
        /\ pc # "idle" => call \in Calls /\ callNo \in Nat /\ callNo > 0
    BY NoneAssumption, DynamixelBusAssumption DEF IInv, TypeOK, WireInv
  <2>1. CASE Call
    <3>1. callNo' # 0
      BY <2>1, DynamixelBusAssumption DEF Call, IInv, TypeOK
    <3> QED BY <2>1, <2>0, <3>1 DEF Call
  <2>2. ASSUME NEW code \in Codes, Write(code) PROVE [Abstract!Next]_(Abstract!callVars)
    <3>1. pc = "send" /\ pc' = "header" /\ UNCHANGED <<call, callNo>>
      BY <2>2 DEF Write
    <3>2. (executed = 0 \/ call.retry) /\ call # None /\ call.retry \in BOOLEAN
      BY <3>1, <2>0 DEF IInv, WireInv, Calls
    <3> QED BY <3>1, <3>2, <2>2 DEF Write, Executes
  <2>3. ASSUME Fail, Keep, pc \in {"header", "body"}
        PROVE  [Abstract!Next]_(Abstract!callVars)
    <3>1. call.retry \in BOOLEAN /\ call # None /\ callNo # 0 /\ callNo' = callNo
      BY <2>3, <2>0 DEF Calls, Keep
    <3> QED BY <2>3, <3>1 DEF Fail, Keep, Again
  <2>4. ASSUME NEW body \in Bodies, Check(body), pc = "body", Accepted(body) => executed > 0
        PROVE  [Abstract!Next]_(Abstract!callVars)
    <3>1. CASE Accepted(body)
      BY <3>1, <2>4, <2>0 DEF Check, Keep
    <3>2. CASE ~Accepted(body)
      BY <3>2, <2>3, <2>4 DEF Check
    <3> QED BY <3>1, <3>2
  <2>5. CASE WriteLost
    BY <2>5 DEF WriteLost
  <2>6. CASE HeaderTimeout
    BY <2>6, <2>3 DEF HeaderTimeout
  <2>7. CASE SkipByte
    BY <2>7 DEF SkipByte, Keep
  <2>8. CASE ReadHeader
    <3>1. CASE RightHeader(Head(wire))
      BY <3>1, <2>8 DEF ReadHeader, Keep
    <3>2. CASE ~RightHeader(Head(wire))
      BY <3>2, <2>8, <2>3 DEF ReadHeader
    <3> QED BY <3>1, <3>2
  <2>9. CASE ReadBody
    <3>1. wire \in Seq(Pieces) /\ wire # <<>> /\ pc = "body"
      BY <2>9 DEF ReadBody, IInv, TypeOK, Pieces
    <3>2. Answer(Head(wire), callNo, executed) /\ Head(wire) \in Pieces
      BY <3>1, TailOfLine DEF IInv, WireInv
    <3>3. Head(wire) \in Bodies /\ Check(Head(wire))
      BY <2>9, <3>2 DEF ReadBody, Answer, Pieces, Headers, Bodies, Junk
    <3> QED BY <3>1, <3>2, <3>3, <2>4 DEF Accepted, Answer
  <2>10. CASE BodyTimeout
    <3>1. pc = "body" /\ Check(BadBody(0))
      BY <2>10, Timely DEF BodyTimeout, Garbage, Timely
    <3>2. BadBody(0) \in Bodies /\ ~Accepted(BadBody(0))
      BY DynamixelBusAssumption DEF BadBody, Bodies, Codes, Accepted
    <3> QED BY <3>1, <3>2, <2>4
  <2>11. CASE UNCHANGED vars
    BY <2>11 DEF vars
  <2> QED BY <2>1, <2>2, <2>5, <2>6, <2>7, <2>8, <2>9, <2>10, <2>11 DEF Next
<1> QED BY <1>1, <1>2, Invariance, PTL DEF Spec, KeepsPromise, Abstract!Spec

-----------------------------------------------------------------------------
(* A servo.                                                                *)

\* The mode the device has is the one of the servo's limits once it is not in doubt, for
\* any number of calls, read or set, that fail or are carried out unanswered.
LEMMA ModeStaysKnown == Servo!Spec => []Servo!ModeIsKnown
<1> DEFINE Known == Servo!ModeIsKnown /\ limits \in Servo!Limits
<1>1. Servo!Init => Known
  BY DEF Servo!Init, Servo!ModeIsKnown
<1>2. Known /\ [Servo!Next]_servoVars => Known'
  <2> SUFFICES ASSUME Known, [Servo!Next]_servoVars PROVE Known'
    OBVIOUS
  <2>1. ASSUME NEW wheel \in BOOLEAN, Servo!SetContinuousMode(wheel) PROVE Known'
    <3> DEFINE newLimits == Servo!LimitsFor(wheel)
    <3>1. newLimits \in Servo!Limits
      BY DEF Servo!LimitsFor, Servo!Limits
    <3>2. wheel = (\A i \in 1 .. 4 : newLimits[i] = 0)
      <4>1. CASE wheel = TRUE
        BY <4>1 DEF Servo!LimitsFor
      <4>2. CASE wheel = FALSE
        <5>1. newLimits = <<0, 0, 1, 1>>
          BY <4>2 DEF Servo!LimitsFor
        <5>2. newLimits[3] # 0
          BY <5>1
        <5> HIDE DEF newLimits
        <5>3. (\A i \in 1 .. 4 : newLimits[i] = 0) = FALSE
          BY <5>2
        <5> QED
          BY <4>2, <5>3
      <4> QED
        BY <4>1, <4>2
    <3>3. rotationMode' = wheel
      BY <2>1 DEF Servo!SetContinuousMode
    <3> HIDE DEF newLimits
    <3>4. CASE (Servo!EnsureFails \/ Servo!EnsureWriteFails(newLimits)) /\ doubtful' = TRUE
      BY <3>1, <3>4 DEF Servo!ModeIsKnown, Servo!EnsureFails, Servo!EnsureWriteFails
    <3>5. CASE Servo!EnsureSame(newLimits) /\ doubtful' = FALSE
      <4>1. limits = newLimits /\ limits' = limits
        BY <3>1, <3>5 DEF Servo!EnsureSame, Servo!Differ, Servo!Limits
      <4> QED
        BY <3>2, <3>3, <4>1 DEF Servo!ModeIsKnown
    <3>6. CASE Servo!EnsureWrites(newLimits) /\ doubtful' = FALSE
      BY <3>1, <3>2, <3>3, <3>6 DEF Servo!EnsureWrites, Servo!ModeIsKnown
    <3> QED
      BY <2>1, <3>4, <3>5, <3>6 DEF Servo!SetContinuousMode, newLimits
  <2>2. CASE Servo!ReadRotationMode
    <3>1. limits' = limits
      BY <2>2 DEF Servo!ReadRotationMode
    <3>2. CASE rotationMode' = Servo!IsWheel
      BY <3>1, <3>2 DEF Servo!IsWheel, Servo!ModeIsKnown
    <3>3. CASE UNCHANGED <<rotationMode, doubtful>>
      BY <3>1, <3>3 DEF Servo!ModeIsKnown
    <3> QED
      BY <2>2, <3>2, <3>3 DEF Servo!ReadRotationMode
  <2>3. CASE UNCHANGED servoVars
    BY <2>3 DEF servoVars, Servo!ModeIsKnown
  <2> QED
    BY <2>1, <2>2, <2>3 DEF Servo!Next
<1> QED
  BY <1>1, <1>2, PTL DEF Servo!Spec, Servo!vars, servoVars

\* A call that asks for the mode the limits already have leaves the EEPROM alone.
LEMMA EepromIsSpared == Servo!Spec => Servo!EepromSpared
<1>1. [Servo!Next]_servoVars
      => [(limits = Servo!LimitsFor(rotationMode') /\ calls' # calls)
            => writes' = writes]_servoVars
  <2> SUFFICES ASSUME Servo!Next, limits = Servo!LimitsFor(rotationMode')
               PROVE  writes' = writes
    OBVIOUS
  <2>1. ASSUME NEW wheel \in BOOLEAN, Servo!SetContinuousMode(wheel) PROVE writes' = writes
    <3>1. ~Servo!Differ(Servo!LimitsFor(wheel))
      BY <2>1 DEF Servo!SetContinuousMode, Servo!Differ
    <3> QED
      BY <2>1, <3>1
         DEF Servo!SetContinuousMode, Servo!EnsureSame, Servo!EnsureWrites,
             Servo!EnsureFails, Servo!EnsureWriteFails
  <2> QED
    BY <2>1 DEF Servo!Next, Servo!ReadRotationMode
<1> QED
  BY <1>1, PTL DEF Servo!Spec, Servo!EepromSpared, Servo!vars, servoVars

-----------------------------------------------------------------------------
(* The lidar.                                                              *)

\* What a lidar sends is samples of at least a byte, in revolutions of at least a sample.
LidarFits == Revolution \in Nat \ {0} /\ SampleSize \in Nat \ {0}

LidarBytes == {Lidar!Byte(n) : n \in Nat} \cup {Lidar!Answer(of) : of \in {"health", "info", "scan"}}

Samples == [1 .. SampleSize -> LidarBytes]

\* The q-th sample, and the first samples of the v-th revolution.
IsSample(b, q) == \A k \in 1 .. SampleSize : b[k] = Lidar!Byte((SampleSize * q + k) - 1)

IsScan(s, v) ==
  /\ Len(s) <= Revolution
  /\ \A i \in 1 .. Len(s) : IsSample(s[i], (Revolution * v + i) - 1)

\* What ScansAreComplete says of a scan.
IsRevolution(s) ==
  /\ Len(s) = Revolution
  /\ \A i \in 1 .. Revolution : \A k \in 1 .. SampleSize :
       /\ s[i][k].byte = k
       /\ s[i][k].sample % Revolution = i - 1
       /\ s[i][k].sample = s[1][1].sample + i - 1

LidarTypes ==
  /\ sent \in Nat
  /\ lidarLine \in Seq(LidarBytes)
  /\ buf \in Samples
  /\ have \in 0 .. SampleSize
  /\ scan \in Seq(Samples)

\* The bytes of q are the last of the first n sent.
SentBefore(q, n) ==
  /\ Len(q) <= n
  /\ \A i \in 1 .. Len(q) : q[i] = Lidar!Byte(((n - Len(q)) + i) - 1)

\* Where the bytes on the line come from.
LineIsSent ==
  /\ lidarPc \in {"start", "ask info", "ask scan"} =>
       lidarLine = <<>> /\ sent = 0 /\ ~scanning /\ scan = <<>>
  /\ lidarPc \in {"health", "info"} =>
       lidarLine # <<>> /\ Tail(lidarLine) = <<>> /\ sent = 0 /\ ~scanning /\ scan = <<>>
  /\ lidarPc = "descriptor" =>
       /\ lidarLine # <<>> /\ scan = <<>>
       /\ SentBefore(Tail(lidarLine), sent) /\ Len(Tail(lidarLine)) = sent
  /\ lidarPc \in {"loop", "read"} => SentBefore(lidarLine, sent)

\* What was read of the sample under way.
Got == IF lidarPc = "read" THEN have ELSE 0

\* All that was read of the line is in the scan or in the sample under way.
ScanIsRead ==
  lidarPc \in {"loop", "read"} =>
    \E v \in Nat :
      /\ IsScan(scan, v)
      /\ sent - Len(lidarLine) = SampleSize * (Revolution * v + Len(scan)) + Got
      /\ \A k \in 1 .. Got :
           buf[k] = Lidar!Byte((SampleSize * (Revolution * v + Len(scan)) + k) - 1)

LidarInv ==
  /\ LidarTypes /\ LineIsSent /\ ScanIsRead
  /\ published = None \/ IsRevolution(published)

LEMMA ByteOfSample ==
  ASSUME LidarFits, NEW q \in Nat, NEW k \in 1 .. SampleSize
  PROVE  Lidar!Byte((SampleSize * q + k) - 1)
           = [sample |-> q, byte |-> k, start |-> q % Revolution = 0]
<1>1. ASSUME NEW s \in Nat \ {0}, NEW r \in 0 .. s - 1
      PROVE  (s * q + r) \div s = q /\ (s * q + r) % s = r
  OBVIOUS
<1>2. k - 1 \in 0 .. SampleSize - 1 /\ (k - 1) + 1 = k /\ SampleSize \in Nat \ {0}
  BY DEF LidarFits
<1>3. ASSUME NEW s \in Nat \ {0} PROVE (s * q + k) - 1 = s * q + (k - 1)
  OBVIOUS
<1>4. /\ ((SampleSize * q + k) - 1) \div SampleSize = q
      /\ ((SampleSize * q + k) - 1) % SampleSize = k - 1
  BY <1>1, <1>2, <1>3
<1> QED
  BY <1>2, <1>4 DEF Lidar!Byte

\* Where in its revolution a sample is.
LEMMA PlaceInRevolution ==
  ASSUME NEW r \in Nat \ {0}, NEW v \in Nat, NEW n \in 0 .. r
  PROVE  /\ r * v + n \in Nat
         /\ n < r => (r * v + n) % r = n
         /\ n = r => (r * v + n) % r = 0 /\ r * v + n = r * (v + 1)
<1>1. r * v \in Nat
  OBVIOUS
<1>2. n < r => (r * v + n) % r = n
  OBVIOUS
<1>3. v + 1 \in Nat /\ r * v + r = r * (v + 1) /\ r * (v + 1) = r * (v + 1) + 0
  OBVIOUS
<1>4. (r * (v + 1) + 0) % r = 0
  BY <1>3
<1> QED
  BY <1>1, <1>2, <1>3, <1>4

\* A sample joins the scan, or opens another when the scan is empty or a whole revolution.
LEMMA SampleJoins ==
  ASSUME LidarFits, NEW v \in Nat, NEW s \in Seq(Samples), NEW b \in Samples, IsScan(s, v),
         IsSample(b, Revolution * v + Len(s))
  PROVE  /\ Append(s, b) \in Seq(Samples) /\ <<b>> \in Seq(Samples)
         /\ Len(Append(s, b)) = Len(s) + 1 /\ Len(<<b>>) = 1
         /\ Lidar!Opens(b[1]) <=> Len(s) \in {0, Revolution}
         /\ Len(s) < Revolution => IsScan(Append(s, b), v)
         /\ Len(s) = Revolution => IsScan(<<b>>, v + 1)
         /\ Len(s) = 0 => IsScan(<<b>>, v)
<1> USE DEF LidarFits, IsScan
<1>1. /\ Append(s, b) \in Seq(Samples) /\ <<b>> \in Seq(Samples) /\ Len(s) \in 0 .. Revolution
      /\ Len(Append(s, b)) = Len(s) + 1 /\ Len(<<b>>) = 1 /\ <<b>>[1] = b
      /\ \A i \in 1 .. Len(s) : Append(s, b)[i] = s[i]
      /\ Append(s, b)[Len(s) + 1] = b
  OBVIOUS
<1>2. Revolution * v + Len(s) \in Nat
  BY <1>1, PlaceInRevolution
<1>3. b[1] = Lidar!Byte((SampleSize * (Revolution * v + Len(s)) + 1) - 1) /\ 1 \in 1 .. SampleSize
  BY DEF IsSample
<1>4. b[1] = [sample |-> Revolution * v + Len(s), byte |-> 1,
              start |-> (Revolution * v + Len(s)) % Revolution = 0]
  BY <1>2, <1>3, ByteOfSample
<1>5. Lidar!Opens(b[1]) <=> (Revolution * v + Len(s)) % Revolution = 0
  <2>1. b[1].byte = 1 /\ b[1].start = ((Revolution * v + Len(s)) % Revolution = 0)
    BY <1>4
  <2> QED
    BY <2>1, Zenon DEF Lidar!Opens
<1>6. Lidar!Opens(b[1]) <=> Len(s) \in {0, Revolution}
  <2>1. Len(s) < Revolution => (Revolution * v + Len(s)) % Revolution = Len(s)
    BY <1>1, PlaceInRevolution
  <2>2. Len(s) = Revolution => (Revolution * v + Len(s)) % Revolution = 0
    BY <1>1, PlaceInRevolution
  <2>3. Len(s) < Revolution \/ Len(s) = Revolution
    BY <1>1
  <2> QED
    BY <1>5, <2>1, <2>2, <2>3
<1>7. ASSUME NEW a \in Nat, NEW l \in Nat PROVE ((a + (l + 1)) - 1) = a + l
  OBVIOUS
<1>8. Revolution * v \in Nat
  OBVIOUS
<1>9. IsSample(b, (Revolution * v + (Len(s) + 1)) - 1)
  BY <1>1, <1>7, <1>8
<1>10. ASSUME Len(s) < Revolution PROVE IsScan(Append(s, b), v)
  <2>1. Len(Append(s, b)) <= Revolution
    BY <1>1, <1>10
  <2>2. ASSUME NEW i \in 1 .. Len(Append(s, b))
        PROVE IsSample(Append(s, b)[i], (Revolution * v + i) - 1)
    <3>1. i \in 1 .. Len(s) \/ i = Len(s) + 1
      BY <1>1
    <3>2. CASE i \in 1 .. Len(s)
      BY <1>1, <3>2
    <3>3. CASE i = Len(s) + 1
      BY <1>1, <1>9, <3>3
    <3> QED
      BY <3>1, <3>2, <3>3
  <2> QED
    BY <2>1, <2>2
<1>11. ASSUME Len(s) = 0 PROVE IsScan(<<b>>, v)
  <2>1. IsSample(b, (Revolution * v + 1) - 1)
    BY <1>9, <1>11
  <2> QED
    BY <1>1, <2>1
<1>12. ASSUME Len(s) = Revolution PROVE IsScan(<<b>>, v + 1)
  <2>1. Revolution * v + Len(s) = Revolution * (v + 1) /\ Revolution * (v + 1) \in Nat
    BY <1>1, <1>2, <1>12, PlaceInRevolution
  <2>2. (Revolution * (v + 1) + 1) - 1 = Revolution * (v + 1)
    BY <2>1
  <2>3. IsSample(b, (Revolution * (v + 1) + 1) - 1)
    BY <2>1, <2>2
  <2> QED
    BY <1>1, <2>3
<1> QED
  BY <1>1, <1>6, <1>10, <1>11, <1>12

\* A whole revolution's samples are as ScansAreComplete says.
LEMMA RevolutionIsWhole ==
  ASSUME LidarFits, NEW v \in Nat, NEW s \in Seq(Samples), IsScan(s, v), Len(s) = Revolution
  PROVE  IsRevolution(s)
<1>1. ASSUME NEW i \in 1 .. Revolution, NEW k \in 1 .. SampleSize
      PROVE  /\ s[i][k].byte = k
             /\ s[i][k].sample % Revolution = i - 1
             /\ s[i][k].sample = Revolution * v + (i - 1)
  <2>1. i - 1 \in 0 .. Revolution /\ i - 1 < Revolution /\ Revolution \in Nat \ {0}
    BY DEF LidarFits
  <2>2. Revolution * v \in Nat
    BY <2>1
  <2>3. (Revolution * v + i) - 1 = Revolution * v + (i - 1)
    BY <2>1, <2>2
  <2>4. /\ Revolution * v + (i - 1) \in Nat
        /\ (Revolution * v + (i - 1)) % Revolution = i - 1
    BY <2>1, PlaceInRevolution
  <2>5. s[i][k] = Lidar!Byte((SampleSize * (Revolution * v + (i - 1)) + k) - 1)
    BY <2>3 DEF IsScan, IsSample
  <2>6. s[i][k] = [sample |-> Revolution * v + (i - 1), byte |-> k,
                   start |-> (Revolution * v + (i - 1)) % Revolution = 0]
    BY <2>4, <2>5, ByteOfSample
  <2> QED
    BY <2>4, <2>6
<1>2. 1 \in 1 .. Revolution /\ 1 \in 1 .. SampleSize /\ Revolution * v \in Nat
  BY DEF LidarFits
<1>3. s[1][1].sample = Revolution * v
  <2>1. s[1][1].sample = Revolution * v + (1 - 1)
    BY <1>1, <1>2
  <2> QED
    BY <1>2, <2>1
<1> QED
  BY <1>1, <1>3 DEF IsRevolution

\* Taking the first byte off the line, and putting another on it.
LEMMA ByteLeaves ==
  ASSUME NEW q \in Seq(LidarBytes), q # <<>>
  PROVE  /\ Tail(q) \in Seq(LidarBytes) /\ Head(q) \in LidarBytes /\ Head(q) = q[1]
         /\ Len(q) \in Nat \ {0} /\ Len(Tail(q)) = Len(q) - 1
         /\ \A i \in 1 .. Len(Tail(q)) : i + 1 \in 1 .. Len(q) /\ Tail(q)[i] = q[i + 1]
OBVIOUS

LEMMA ByteJoins ==
  ASSUME NEW q \in Seq(LidarBytes), NEW b \in LidarBytes
  PROVE  /\ Append(q, b) \in Seq(LidarBytes) /\ Append(q, b) # <<>>
         /\ Len(q) \in Nat /\ Len(Append(q, b)) = Len(q) + 1
         /\ \A i \in 1 .. Len(Append(q, b)) :
              \/ i \in 1 .. Len(q) /\ Append(q, b)[i] = q[i]
              \/ i = Len(q) + 1 /\ Append(q, b)[i] = b
         /\ q = <<>> => Tail(Append(q, b)) = <<>>
         /\ q # <<>> => Tail(Append(q, b)) = Append(Tail(q), b)
<1>1. q = <<>> => Tail(Append(q, b)) = <<>>
  <2>1. ASSUME NEW t, t = Tail(<<b>>) PROVE t = <<>>
    <3>1. t \in Seq(LidarBytes) /\ Len(t) = 0
      BY <2>1
    <3> QED
      BY <3>1
  <2>2. Append(<<>>, b) = <<b>>
    OBVIOUS
  <2> QED
    BY <2>1, <2>2
<1>2. q # <<>> => Tail(Append(q, b)) = Append(Tail(q), b)
  OBVIOUS
<1>3. /\ Append(q, b) \in Seq(LidarBytes) /\ Append(q, b) # <<>>
      /\ Len(q) \in Nat /\ Len(Append(q, b)) = Len(q) + 1
      /\ \A i \in 1 .. Len(q) : Append(q, b)[i] = q[i]
      /\ Append(q, b)[Len(q) + 1] = b
  OBVIOUS
<1>4. \A i \in 1 .. Len(q) + 1 : i \in 1 .. Len(q) \/ i = Len(q) + 1
  BY <1>3
<1> QED
  BY <1>1, <1>2, <1>3, <1>4

LEMMA SentLeaves ==
  ASSUME NEW q \in Seq(LidarBytes), NEW n \in Nat, SentBefore(q, n), q # <<>>
  PROVE  /\ SentBefore(Tail(q), n) /\ Head(q) = Lidar!Byte(n - Len(q))
         /\ n - Len(Tail(q)) = (n - Len(q)) + 1
<1>1. /\ Len(q) \in Nat \ {0} /\ Len(Tail(q)) = Len(q) - 1 /\ Head(q) = q[1] /\ Len(q) <= n
      /\ \A i \in 1 .. Len(Tail(q)) : i + 1 \in 1 .. Len(q) /\ Tail(q)[i] = q[i + 1]
      /\ \A i \in 1 .. Len(q) : q[i] = Lidar!Byte(((n - Len(q)) + i) - 1)
  BY ByteLeaves DEF SentBefore
<1>2. /\ 1 \in 1 .. Len(q) /\ ((n - Len(q)) + 1) - 1 = n - Len(q)
      /\ n - Len(Tail(q)) = (n - Len(q)) + 1 /\ Len(Tail(q)) <= n
  BY <1>1
<1>3. ASSUME NEW i \in 1 .. Len(Tail(q))
      PROVE  Tail(q)[i] = Lidar!Byte(((n - Len(Tail(q))) + i) - 1)
  <2>1. ((n - Len(q)) + (i + 1)) - 1 = ((n - Len(Tail(q))) + i) - 1
    BY <1>1
  <2> QED
    BY <1>1, <2>1
<1> QED
  BY <1>1, <1>2, <1>3 DEF SentBefore

LEMMA SentJoins ==
  ASSUME NEW q \in Seq(LidarBytes), NEW n \in Nat, SentBefore(q, n)
  PROVE  /\ Lidar!Byte(n) \in LidarBytes /\ SentBefore(Append(q, Lidar!Byte(n)), n + 1)
         /\ (n + 1) - Len(Append(q, Lidar!Byte(n))) = n - Len(q)
         /\ Len(q) = n => Len(Append(q, Lidar!Byte(n))) = n + 1
<1> DEFINE r == Append(q, Lidar!Byte(n))
<1>1. Lidar!Byte(n) \in LidarBytes
  BY DEF LidarBytes
<1>2. /\ Len(q) \in Nat /\ Len(r) = Len(q) + 1 /\ Len(q) <= n
      /\ \A i \in 1 .. Len(r) :
           \/ i \in 1 .. Len(q) /\ r[i] = q[i]
           \/ i = Len(q) + 1 /\ r[i] = Lidar!Byte(n)
      /\ \A i \in 1 .. Len(q) : q[i] = Lidar!Byte(((n - Len(q)) + i) - 1)
  BY <1>1, ByteJoins DEF SentBefore
<1> HIDE DEF r
<1>3. (n + 1) - Len(r) = n - Len(q) /\ Len(r) <= n + 1
  BY <1>2
<1>4. ASSUME NEW i \in 1 .. Len(r) PROVE r[i] = Lidar!Byte((((n + 1) - Len(r)) + i) - 1)
  <2>1. i = Len(q) + 1 => ((n - Len(q)) + i) - 1 = n
    BY <1>2
  <2> QED
    BY <1>2, <1>3, <2>1
<1>5. SentBefore(r, n + 1)
  BY <1>3, <1>4 DEF SentBefore
<1> QED
  BY <1>1, <1>2, <1>3, <1>5 DEF r

\* Each step on what is read and what is on the line.
LEMMA LidarTypesStay ==
  ASSUME LidarFits, LidarTypes, Lidar!Next
  PROVE  LidarTypes'
<1> USE DEF LidarTypes
<1>1. ASSUME NEW of \in {"health", "info", "scan"}, Lidar!Request(of),
             UNCHANGED <<sent, buf, have, scan>>
      PROVE  LidarTypes'
  <2>1. Lidar!Answer(of) \in LidarBytes
    BY DEF LidarBytes
  <2> QED
    BY <1>1, <2>1, ByteJoins DEF Lidar!Request
<1>2. CASE Lidar!ReadHealth \/ Lidar!ReadInfo \/ Lidar!ReadDescriptor
  BY <1>2, ByteLeaves DEF Lidar!ReadHealth, Lidar!ReadInfo, Lidar!ReadDescriptor, Lidar!lidar
<1>3. CASE Lidar!Loop
  <2>1. have' = 0 /\ UNCHANGED <<sent, lidarLine, buf, scan>> /\ 0 \in 0 .. SampleSize
    BY <1>3 DEF Lidar!Loop, Lidar!lidar, LidarFits
  <2> QED
    BY <2>1
<1>4. CASE Lidar!ReadByte
  <2>1. /\ lidarLine # <<>> /\ have < SampleSize /\ lidarLine' = Tail(lidarLine)
        /\ buf' = [buf EXCEPT ![have + 1] = Head(lidarLine)]
        /\ have' = have + 1 /\ UNCHANGED <<sent, scan>>
    BY <1>4 DEF Lidar!ReadByte, Lidar!lidar
  <2>2. Head(lidarLine) \in LidarBytes /\ Tail(lidarLine) \in Seq(LidarBytes)
    BY <2>1, ByteLeaves
  <2>3. have' \in 0 .. SampleSize
    BY <2>1 DEF LidarFits
  <2>4. buf' \in Samples
    BY <2>1, <2>2 DEF Samples
  <2> QED
    BY <2>1, <2>2, <2>3, <2>4
<1>5. CASE Lidar!ReadSample
  <2>1. /\ scan' \in {Append(<<>>, buf), Append(scan, buf)}
        /\ UNCHANGED <<sent, lidarLine, buf, have>>
    BY <1>5 DEF Lidar!ReadSample, Lidar!Take, Lidar!lidar
  <2>2. ASSUME NEW s \in Seq(Samples), NEW b \in Samples
        PROVE  Append(<<>>, b) \in Seq(Samples) /\ Append(s, b) \in Seq(Samples)
    OBVIOUS
  <2> QED
    BY <2>1, <2>2
<1>6. CASE Lidar!SendByte
  <2>1. /\ sent' = sent + 1 /\ lidarLine' = Append(lidarLine, Lidar!Byte(sent))
        /\ UNCHANGED <<buf, have, scan>>
    BY <1>6 DEF Lidar!SendByte
  <2>2. Lidar!Byte(sent) \in LidarBytes
    BY DEF LidarBytes
  <2> QED
    BY <2>1, <2>2, ByteJoins
<1>7. CASE Lidar!ReadNothing \/ Lidar!Signal
  BY <1>7 DEF Lidar!ReadNothing, Lidar!Signal, Lidar!lidar
<1>8. CASE Lidar!AskHealth \/ Lidar!AskInfo \/ Lidar!AskScan
  BY <1>8, <1>1 DEF Lidar!AskHealth, Lidar!AskInfo, Lidar!AskScan
<1> QED
  BY <1>2, <1>3, <1>4, <1>5, <1>6, <1>7, <1>8 DEF Lidar!Next, Lidar!Driver

LEMMA LineStays ==
  ASSUME LidarFits, LidarTypes, LineIsSent, Lidar!Next
  PROVE  LineIsSent'
<1>1. CASE Lidar!AskHealth \/ Lidar!AskInfo
  <2>1. PICK of \in {"health", "info"} :
          /\ lidarLine = <<>> /\ sent' = 0 /\ ~scanning' /\ scan' = <<>>
          /\ lidarPc' \in {"health", "info"}
          /\ lidarLine' = Append(lidarLine, Lidar!Answer(of))
    BY <1>1 DEF Lidar!AskHealth, Lidar!AskInfo, Lidar!Request, LineIsSent
  <2>2. Lidar!Answer(of) \in LidarBytes /\ lidarLine \in Seq(LidarBytes)
    BY <2>1 DEF LidarBytes, LidarTypes
  <2>3. lidarLine' # <<>> /\ Tail(lidarLine') = <<>>
    BY <2>1, <2>2, ByteJoins
  <2> QED
    BY <2>1, <2>3 DEF LineIsSent
<1>2. CASE Lidar!ReadHealth \/ Lidar!ReadInfo
  <2>1. /\ lidarPc \in {"health", "info"} /\ lidarLine' = Tail(lidarLine)
        /\ lidarPc' \in {"ask info", "ask scan", "done"}
        /\ UNCHANGED <<sent, scanning, scan>>
    BY <1>2 DEF Lidar!ReadHealth, Lidar!ReadInfo, Lidar!lidar
  <2>2. Tail(lidarLine) = <<>> /\ sent = 0 /\ ~scanning /\ scan = <<>>
    BY <2>1 DEF LineIsSent
  <2> QED
    BY <2>1, <2>2 DEF LineIsSent
<1>3. CASE Lidar!AskScan
  <2>1. /\ lidarLine = <<>> /\ lidarLine' = Append(lidarLine, Lidar!Answer("scan"))
        /\ lidarPc' = "descriptor" /\ sent' = 0 /\ scan' = <<>>
    BY <1>3 DEF Lidar!AskScan, Lidar!Request, LineIsSent
  <2>2. lidarLine' # <<>> /\ Tail(lidarLine') = <<>> /\ Len(<<>>) = 0
    BY <2>1
  <2>3. SentBefore(<<>>, 0)
    BY DEF SentBefore
  <2> QED
    BY <2>1, <2>2, <2>3 DEF LineIsSent
<1>4. CASE Lidar!ReadDescriptor
  <2>1. /\ lidarLine' = Tail(lidarLine) /\ lidarPc' = "loop" /\ sent' = sent
        /\ SentBefore(Tail(lidarLine), sent)
    BY <1>4 DEF Lidar!ReadDescriptor, Lidar!lidar, LineIsSent
  <2>2. SentBefore(lidarLine', sent')
    BY <2>1
  <2> QED
    BY <2>1, <2>2 DEF LineIsSent
<1>5. CASE Lidar!ReadByte
  <2>1. /\ lidarLine # <<>> /\ lidarLine' = Tail(lidarLine) /\ lidarPc' = "read"
        /\ SentBefore(lidarLine, sent) /\ sent' = sent
    BY <1>5 DEF Lidar!ReadByte, Lidar!lidar, LineIsSent
  <2>2. SentBefore(lidarLine', sent')
    BY <2>1, SentLeaves DEF LidarTypes
  <2> QED
    BY <2>1, <2>2 DEF LineIsSent
<1>6. CASE Lidar!SendByte
  <2>1. /\ scanning \/ sent % SampleSize # 0
        /\ sent' = sent + 1 /\ lidarLine' = Append(lidarLine, Lidar!Byte(sent))
        /\ UNCHANGED <<lidarPc, scanning, scan>> /\ sent \in Nat
        /\ lidarLine \in Seq(LidarBytes)
    BY <1>6 DEF Lidar!SendByte, LidarTypes
  <2>2. CASE lidarPc = "descriptor"
    <3>1. /\ lidarLine # <<>> /\ SentBefore(Tail(lidarLine), sent)
          /\ Len(Tail(lidarLine)) = sent /\ scan = <<>>
      BY <2>2 DEF LineIsSent
    <3>2. Tail(lidarLine) \in Seq(LidarBytes) /\ Lidar!Byte(sent) \in LidarBytes
      BY <2>1, <3>1, ByteLeaves DEF LidarBytes
    <3>3. /\ Tail(lidarLine') = Append(Tail(lidarLine), Lidar!Byte(sent))
          /\ lidarLine' # <<>>
      BY <2>1, <3>1, <3>2, ByteJoins
    <3>4. SentBefore(Tail(lidarLine'), sent') /\ Len(Tail(lidarLine')) = sent'
      BY <2>1, <3>1, <3>2, <3>3, SentJoins
    <3> QED
      BY <2>1, <2>2, <3>1, <3>3, <3>4 DEF LineIsSent
  <2>3. CASE lidarPc \in {"loop", "read"}
    <3>1. SentBefore(lidarLine, sent)
      BY <2>3 DEF LineIsSent
    <3>2. SentBefore(lidarLine', sent')
      BY <2>1, <3>1, SentJoins
    <3> QED
      BY <2>1, <2>3, <3>2 DEF LineIsSent
  <2>4. lidarPc \notin {"start", "ask info", "ask scan", "health", "info"}
    <3>1. 0 % SampleSize = 0
      BY DEF LidarFits
    <3> QED
      BY <2>1, <3>1 DEF LineIsSent
  <2> QED
    BY <2>1, <2>2, <2>3, <2>4 DEF LineIsSent
<1>7. CASE Lidar!Loop
  BY <1>7 DEF Lidar!Loop, Lidar!lidar, LineIsSent
<1>8. CASE Lidar!ReadSample
  BY <1>8 DEF Lidar!ReadSample, Lidar!lidar, LineIsSent
<1>9. CASE Lidar!ReadNothing
  BY <1>9 DEF Lidar!ReadNothing, Lidar!lidar, LineIsSent
<1>10. CASE Lidar!Signal
  BY <1>10 DEF Lidar!Signal, LineIsSent
<1> QED
  BY <1>1, <1>2, <1>3, <1>4, <1>5, <1>6, <1>7, <1>8, <1>9, <1>10
     DEF Lidar!Next, Lidar!Driver

\* Each step on the scan.
LEMMA ScanStays ==
  ASSUME LidarFits, LidarTypes, LineIsSent, ScanIsRead, Lidar!Next
  PROVE  ScanIsRead'
<1> DEFINE Q(v, n) == Revolution * v + n
<1>1. CASE Lidar!ReadDescriptor
  <2>1. /\ lidarLine' = Tail(lidarLine) /\ lidarPc' = "loop" /\ UNCHANGED <<sent, scan>>
        /\ Len(Tail(lidarLine)) = sent /\ scan = <<>> /\ sent \in Nat
    BY <1>1 DEF Lidar!ReadDescriptor, Lidar!lidar, LineIsSent, LidarTypes
  <2>2. /\ IsScan(<<>>, 0) /\ Len(<<>>) = 0 /\ sent - sent = 0
        /\ SampleSize * (Revolution * 0 + 0) + 0 = 0
    BY <2>1 DEF IsScan, LidarFits
  <2>3. Got' = 0
    BY <2>1 DEF Got
  <2> QED
    BY <2>1, <2>2, <2>3 DEF ScanIsRead
<1>2. CASE Lidar!ReadByte
  <2>1. /\ lidarLine # <<>> /\ lidarLine' = Tail(lidarLine)
        /\ lidarPc = "read" /\ lidarPc' = "read" /\ have < SampleSize
        /\ buf' = [buf EXCEPT ![have + 1] = Head(lidarLine)] /\ have' = have + 1
        /\ UNCHANGED <<sent, scan>> /\ SentBefore(lidarLine, sent)
    BY <1>2 DEF Lidar!ReadByte, Lidar!lidar, LineIsSent
  <2>2. /\ Head(lidarLine) = Lidar!Byte(sent - Len(lidarLine))
        /\ sent' - Len(lidarLine') = (sent - Len(lidarLine)) + 1
    BY <2>1, SentLeaves DEF LidarTypes
  <2>3. PICK v \in Nat :
          /\ IsScan(scan, v)
          /\ sent - Len(lidarLine) = SampleSize * Q(v, Len(scan)) + have
          /\ \A k \in 1 .. have :
               buf[k] = Lidar!Byte((SampleSize * Q(v, Len(scan)) + k) - 1)
    BY <2>1 DEF ScanIsRead, Got
  <2>4. SampleSize * Q(v, Len(scan)) \in Nat /\ have \in Nat
    BY DEF LidarTypes, LidarFits
  <2> HIDE DEF Q
  <2>5. /\ sent' - Len(lidarLine') = SampleSize * Q(v, Len(scan)) + have'
        /\ sent - Len(lidarLine) = (SampleSize * Q(v, Len(scan)) + (have + 1)) - 1
    BY <2>1, <2>2, <2>3, <2>4
  <2>6. ASSUME NEW k \in 1 .. have'
        PROVE  buf'[k] = Lidar!Byte((SampleSize * Q(v, Len(scan)) + k) - 1)
    <3>1. k \in 1 .. SampleSize /\ (k \in 1 .. have \/ k = have + 1)
      BY <2>1, <2>4 DEF LidarFits
    <3>2. buf'[k] = IF k = have + 1 THEN Head(lidarLine) ELSE buf[k]
      BY <2>1, <3>1 DEF LidarTypes, Samples
    <3> QED
      BY <2>2, <2>3, <2>4, <2>5, <3>1, <3>2
  <2>7. Got' = have'
    BY <2>1 DEF Got
  <2> QED
    BY <2>1, <2>3, <2>5, <2>6, <2>7 DEF ScanIsRead, Q
<1>3. CASE Lidar!ReadSample
  <2>1. /\ lidarPc = "read" /\ lidarPc' = "loop" /\ have = SampleSize
        /\ scan' = Append(IF Lidar!Opens(buf[1]) THEN <<>> ELSE scan, buf)
        /\ UNCHANGED <<sent, lidarLine, buf>>
    BY <1>3 DEF Lidar!ReadSample, Lidar!Take, Lidar!lidar
  <2>2. PICK v \in Nat :
          /\ IsScan(scan, v)
          /\ sent - Len(lidarLine) = SampleSize * Q(v, Len(scan)) + SampleSize
          /\ IsSample(buf, Q(v, Len(scan)))
    BY <2>1 DEF ScanIsRead, Got, IsSample
  <2>3. /\ scan \in Seq(Samples) /\ buf \in Samples /\ Len(scan) \in 0 .. Revolution
    BY <2>2 DEF LidarTypes, IsScan
  <2>4. /\ Len(Append(scan, buf)) = Len(scan) + 1 /\ Len(<<buf>>) = 1
        /\ Lidar!Opens(buf[1]) <=> Len(scan) \in {0, Revolution}
        /\ Len(scan) < Revolution => IsScan(Append(scan, buf), v)
        /\ Len(scan) = Revolution => IsScan(<<buf>>, v + 1)
        /\ Len(scan) = 0 => IsScan(<<buf>>, v)
    BY <2>2, <2>3, SampleJoins
  <2>5. /\ SampleSize * Q(v, Len(scan)) + SampleSize = SampleSize * (Q(v, Len(scan)) + 1)
        /\ Q(v, Len(scan)) + 1 = Q(v, Len(scan) + 1)
        /\ Len(scan) = Revolution => Q(v, Len(scan)) + 1 = Q(v + 1, 1)
        /\ SampleSize * (Q(v, Len(scan)) + 1) \in Nat
    BY <2>3 DEF LidarFits
  <2>6. Got' = 0 /\ SampleSize \in Nat
    BY <2>1 DEF Got, LidarFits
  <2> HIDE DEF Q
  <2>7. ASSUME NEW w \in Nat, IsScan(scan', w), Q(w, Len(scan')) = Q(v, Len(scan)) + 1
        PROVE  ScanIsRead'
    <3>1. sent' - Len(lidarLine') = SampleSize * Q(w, Len(scan')) + 0
      <4>1. sent - Len(lidarLine) = SampleSize * (Q(v, Len(scan)) + 1)
        BY <2>2, <2>5
      <4>2. ASSUME NEW n \in Nat PROVE n + 0 = n
        OBVIOUS
      <4> QED
        BY <2>1, <2>5, <2>7, <4>1, <4>2
    <3>2. \A k \in 1 .. 0 :
            buf'[k] = Lidar!Byte((SampleSize * Q(w, Len(scan')) + k) - 1)
      OBVIOUS
    <3> QED
      BY <2>6, <2>7, <3>1, <3>2 DEF ScanIsRead, Q
  <2>8. CASE Lidar!Opens(buf[1])
    <3>1. scan' = <<buf>>
      BY <2>1, <2>8
    <3>2. CASE Len(scan) = 0
      BY <2>4, <2>5, <2>7, <3>1, <3>2
    <3>3. CASE Len(scan) = Revolution
      <4>1. v + 1 \in Nat
        OBVIOUS
      <4> QED
        BY <2>4, <2>5, <2>7, <3>1, <3>3, <4>1
    <3> QED
      BY <2>4, <2>8, <3>2, <3>3
  <2>9. CASE ~Lidar!Opens(buf[1])
    <3>1. scan' = Append(scan, buf) /\ Len(scan) < Revolution
      BY <2>1, <2>3, <2>4, <2>9 DEF LidarFits
    <3> QED
      BY <2>4, <2>5, <2>7, <3>1
  <2> QED
    BY <2>8, <2>9
<1>4. CASE Lidar!Loop
  <2>1. /\ lidarPc = "loop" /\ have' = 0 /\ lidarPc' \in {"done", "read"}
        /\ UNCHANGED <<sent, lidarLine, buf, scan>>
    BY <1>4 DEF Lidar!Loop, Lidar!lidar
  <2>2. Got = 0 /\ Got' = 0
    BY <2>1 DEF Got
  <2> QED
    BY <2>1, <2>2 DEF ScanIsRead
<1>5. CASE Lidar!ReadNothing
  <2>1. /\ lidarPc = "read" /\ have = 0 /\ lidarPc' = "loop"
        /\ UNCHANGED <<sent, lidarLine, buf, scan>>
    BY <1>5 DEF Lidar!ReadNothing, Lidar!lidar
  <2>2. Got = 0 /\ Got' = 0
    BY <2>1 DEF Got
  <2> QED
    BY <2>1, <2>2 DEF ScanIsRead
<1>6. CASE Lidar!SendByte
  <2>1. /\ sent' = sent + 1 /\ lidarLine' = Append(lidarLine, Lidar!Byte(sent))
        /\ UNCHANGED <<lidarPc, buf, have, scan>>
    BY <1>6 DEF Lidar!SendByte
  <2>2. lidarPc \in {"loop", "read"} => sent' - Len(lidarLine') = sent - Len(lidarLine)
    BY <2>1, SentJoins DEF LineIsSent, LidarTypes
  <2>3. Got' = Got
    BY <2>1 DEF Got
  <2> QED
    BY <2>1, <2>2, <2>3 DEF ScanIsRead
<1>7. CASE Lidar!Signal
  BY <1>7 DEF Lidar!Signal, ScanIsRead, Got
<1>8. CASE lidarPc' \notin {"loop", "read"}
  BY <1>8 DEF ScanIsRead
<1>9. Lidar!AskHealth \/ Lidar!ReadHealth \/ Lidar!AskInfo \/ Lidar!ReadInfo \/ Lidar!AskScan
        => lidarPc' \notin {"loop", "read"}
  BY DEF Lidar!AskHealth, Lidar!ReadHealth, Lidar!AskInfo, Lidar!ReadInfo, Lidar!AskScan
<1> QED
  BY <1>1, <1>2, <1>3, <1>4, <1>5, <1>6, <1>7, <1>8, <1>9 DEF Lidar!Next, Lidar!Driver

\* Each step on the last scan published: it was a scan that another sample opens.
LEMMA PublishedStays ==
  ASSUME LidarFits, LidarTypes, ScanIsRead, Lidar!Next,
         published = None \/ IsRevolution(published)
  PROVE  published' = None \/ IsRevolution(published')
<1>1. CASE Lidar!ReadSample
  <2>1. /\ lidarPc = "read" /\ have = SampleSize
        /\ published' = IF Lidar!Opens(buf[1]) /\ scan # <<>> THEN scan ELSE published
    BY <1>1 DEF Lidar!ReadSample, Lidar!Take
  <2>2. PICK v \in Nat : IsScan(scan, v) /\ IsSample(buf, Revolution * v + Len(scan))
    BY <2>1 DEF ScanIsRead, Got, IsSample
  <2>3. Lidar!Opens(buf[1]) <=> Len(scan) \in {0, Revolution}
    BY <2>2, SampleJoins DEF LidarTypes
  <2>4. scan \in Seq(Samples) /\ (Len(scan) = 0 => scan = <<>>)
    BY DEF LidarTypes
  <2>5. Len(scan) = Revolution => IsRevolution(scan)
    BY <2>2, <2>4, RevolutionIsWhole
  <2> QED
    BY <2>1, <2>3, <2>4, <2>5
<1>2. CASE published' = published
  BY <1>2
<1>3. Lidar!Next => Lidar!ReadSample \/ published' = published
  BY DEF Lidar!Next, Lidar!Driver, Lidar!AskHealth, Lidar!ReadHealth, Lidar!AskInfo,
         Lidar!ReadInfo, Lidar!AskScan, Lidar!ReadDescriptor, Lidar!Loop, Lidar!ReadByte,
         Lidar!ReadNothing, Lidar!SendByte, Lidar!Signal
<1> QED
  BY <1>1, <1>2, <1>3

\* While the lidar sends the rest of a sample in time, each scan published is one
\* revolution, from its first sample to its last, of samples that are whole.
LEMMA ScansStayComplete ==
  ASSUME LidarFits
  PROVE  Lidar!Init /\ [][Lidar!Next]_lidarVars => []Lidar!ScansAreComplete
<1>1. Lidar!Init => LidarInv
  <2> SUFFICES ASSUME Lidar!Init PROVE LidarInv
    OBVIOUS
  <2>1. /\ sent = 0 /\ lidarLine = <<>> /\ have = 0 /\ scan = <<>> /\ lidarPc = "start"
        /\ ~scanning /\ published = None
        /\ buf = [k \in 1 .. SampleSize |-> Lidar!Byte(k - 1)]
    BY DEF Lidar!Init
  <2>2. ASSUME NEW k \in 1 .. SampleSize PROVE Lidar!Byte(k - 1) \in LidarBytes
    <3>1. k - 1 \in Nat
      OBVIOUS
    <3> QED
      BY <3>1 DEF LidarBytes
  <2>3. LidarTypes
    BY <2>1, <2>2 DEF LidarTypes, Samples, LidarFits
  <2> QED
    BY <2>1, <2>3 DEF LidarInv, LineIsSent, ScanIsRead
<1>2. LidarInv /\ [Lidar!Next]_lidarVars => LidarInv'
  <2> SUFFICES ASSUME LidarInv, [Lidar!Next]_lidarVars PROVE LidarInv'
    OBVIOUS
  <2>1. CASE Lidar!Next
    <3>1. LidarTypes' /\ LineIsSent' /\ ScanIsRead'
      BY <2>1, LidarTypesStay, LineStays, ScanStays DEF LidarInv
    <3>2. published' = None \/ IsRevolution(published')
      BY <2>1, PublishedStays DEF LidarInv
    <3> QED
      BY <3>1, <3>2 DEF LidarInv
  <2>2. CASE UNCHANGED lidarVars
    <3>1. LidarTypes'
      BY <2>2 DEF LidarInv, LidarTypes, lidarVars
    <3>2. LineIsSent'
      BY <2>2 DEF LidarInv, LineIsSent, lidarVars
    <3>3. ScanIsRead'
      BY <2>2 DEF LidarInv, ScanIsRead, Got, lidarVars
    <3>4. published' = None \/ IsRevolution(published')
      BY <2>2 DEF LidarInv, lidarVars
    <3> QED
      BY <3>1, <3>2, <3>3, <3>4 DEF LidarInv
  <2> QED
    BY <2>1, <2>2
<1>3. LidarInv => Lidar!ScansAreComplete
  BY DEF LidarInv, IsRevolution, Lidar!ScansAreComplete
<1> QED
  BY <1>1, <1>2, <1>3, PTL

-----------------------------------------------------------------------------
(* The USB camera.                                                         *)

\* Sizes of at least a unit, and a packet size that keeps the driver in step.
\* An image that was never written is none that was.
UsbFits ==
  /\ NumImages \in Nat
  /\ {FrameSize, TransferSize, PacketMax, PacketUnit} \subseteq Nat \ {0}
  /\ Usb!GoodPacketSizes # {}
  /\ \A n \in Nat : NoData \notin [1 .. n -> [frame : Nat, unit : Nat] \cup {NoData}]

UsbUnits == [frame : Nat, unit : Nat]

UsbTypes ==
  /\ perFrame \in Nat \ {0}
  /\ next \in UsbUnits /\ next.unit \in 1 .. perFrame
  /\ transfer \in [ok : BOOLEAN, units : Seq(UsbUnits)]
  /\ curIdx \in 0 .. NumImages
  /\ curOffset \in 0 .. perFrame - 1
  /\ missed \in BOOLEAN
  /\ status \in [1 .. NumImages -> {-2, -1, 0, 1, 2}]
  /\ data \in [1 .. NumImages -> {NoData} \cup [1 .. perFrame -> UsbUnits \cup {NoData}]]
  /\ onTime \in [1 .. NumImages -> BOOLEAN]

\* A set of naturals has a least member.
LEMMA LeastNatural ==
  ASSUME NEW S \in SUBSET Nat, S # {}
  PROVE  \E x \in S : \A y \in S : x <= y
<1> DEFINE R == OpToRel(<, Nat)
<1>1. IsWellFoundedOn(R, Nat)
  BY NatLessThanWellFounded
<1>2. \A x, y \in Nat : <<y, x>> \in R <=> y < x
  BY DEF OpToRel
<1> HIDE DEF R
<1>3. PICK x \in S : \A y \in S : ~ (<<y, x>> \in R)
  BY <1>1, WFMin
<1>4. ASSUME NEW y \in S PROVE x <= y
  <2>1. x \in Nat /\ y \in Nat /\ ~(y < x)
    BY <1>2, <1>3
  <2> QED
    BY <2>1
<1> QED
  BY <1>4

LEMMA MinIsLeast ==
  ASSUME NEW S \in SUBSET Nat, S # {}
  PROVE  Usb!Min(S) \in S /\ \A y \in S : Usb!Min(S) <= y
BY LeastNatural DEF Usb!Min

LEMMA MinOfTwo ==
  ASSUME NEW a \in Int, NEW b \in Int
  PROVE  Usb!Min({a, b}) = IF a <= b THEN a ELSE b
<1>1. \A x \in {a, b} : (\A y \in {a, b} : x <= y) <=> x = (IF a <= b THEN a ELSE b)
  OBVIOUS
<1> QED
  BY <1>1 DEF Usb!Min

LEMMA MaxIsGreatest ==
  ASSUME NEW S \in SUBSET Int, NEW n \in S, \A m \in S : m <= n
  PROVE  Usb!Max(S) = n
<1>1. \A m \in S : (\A y \in S : m >= y) => m = n
  OBVIOUS
<1> QED
  BY <1>1 DEF Usb!Max

\* A frame and the padding of its last packet are at least a unit.
LEMMA FrameIsSome ==
  ASSUME UsbFits, NEW p \in Usb!PacketSizes
  PROVE  Usb!RoundUp(FrameSize, p) \in Nat \ {0}
<1> DEFINE PS == { PacketMax - k * PacketUnit : k \in 0 .. (PacketMax - 1) \div PacketUnit }
<1>1. ASSUME NEW k \in 0 .. (PacketMax - 1) \div PacketUnit
      PROVE  PacketMax - k * PacketUnit \in 1 .. PacketMax
  <2>1. ASSUME NEW a \in Nat, NEW b \in Nat \ {0}, NEW j \in 0 .. (a \div b)
        PROVE j * b <= a /\ j * b \in Nat
    OBVIOUS
  <2>2. PacketMax - 1 \in Nat /\ PacketMax \in Nat \ {0} /\ PacketUnit \in Nat \ {0}
    BY DEF UsbFits
  <2>3. k * PacketUnit <= PacketMax - 1 /\ k * PacketUnit \in Nat
    BY <2>1, <2>2
  <2> QED
    BY <2>2, <2>3
<1>2. Usb!GoodPacketSizes \subseteq 1 .. PacketMax
  BY <1>1 DEF Usb!GoodPacketSizes
<1>3. PacketMax \in Nat \ {0} /\ FrameSize \in Nat \ {0}
  BY DEF UsbFits
<1>4. \E m \in Usb!GoodPacketSizes : \A q \in Usb!GoodPacketSizes : m >= q
  <2> DEFINE T == { PacketMax - q : q \in Usb!GoodPacketSizes }
  <2>0. Usb!GoodPacketSizes # {}
    BY DEF UsbFits
  <2>1. T \subseteq Nat /\ T # {}
    <3>1. ASSUME NEW q \in Usb!GoodPacketSizes PROVE PacketMax - q \in Nat
      <4>1. q \in 1 .. PacketMax
        BY <1>2
      <4> QED
        BY <1>3, <4>1
    <3> QED
      BY <2>0, <3>1
  <2>2. PICK t \in T : \A u \in T : t <= u
    BY <2>1, LeastNatural
  <2>3. PICK m \in Usb!GoodPacketSizes : t = PacketMax - m
    BY <2>2
  <2>4. ASSUME NEW q \in Usb!GoodPacketSizes PROVE m >= q
    <3>1. PacketMax - m <= PacketMax - q
      BY <2>2, <2>3
    <3>2. m \in 1 .. PacketMax /\ q \in 1 .. PacketMax
      BY <1>2
    <3> QED
      BY <1>3, <3>1, <3>2
  <2> QED
    BY <2>4
<1>5. Usb!Max(Usb!GoodPacketSizes) \in Usb!GoodPacketSizes
  BY <1>4 DEF Usb!Max
<1>6. p \in Nat \ {0}
  <2>1. p \in Usb!GoodPacketSizes \/ p = PacketMax
    BY <1>5 DEF Usb!PacketSizes
  <2>2. p \in Usb!GoodPacketSizes => p \in 1 .. PacketMax
    BY <1>2
  <2> QED
    BY <1>3, <2>1, <2>2
<1>7. ASSUME NEW n \in Nat \ {0}, NEW m \in Nat \ {0}
      PROVE  ((n + m - 1) \div m) * m \in Nat \ {0}
  OBVIOUS
<1> QED
  BY <1>3, <1>6, <1>7 DEF Usb!RoundUp

\* The images that wait are numbered 1 and, for as long as the callback that finished the
\* second of them goes on, 2; one is being filled, if any, which is the current one.
UsbPool ==
  /\ \A i, j \in 1 .. NumImages : status[i] > 0 /\ status[i] = status[j] => i = j
  /\ \A i \in 1 .. NumImages :
       status[i] = 2 => workerPc = "rest" /\ \E j \in 1 .. NumImages : status[j] = 1
  /\ \A i \in 1 .. NumImages : status[i] = -1 => i = curIdx /\ workerPc # "rest"
  /\ phase # "off" /\ curIdx # 0 /\ workerPc # "rest" => status[curIdx] = -1
  /\ phase = "off" => workerPc = "idle" /\ \A i \in 1 .. NumImages : status[i] = 0

\* get_empty_frame, when no image is being filled.
LEMMA EmptyTaken ==
  ASSUME NumImages \in Nat, status \in [1 .. NumImages -> {-2, -1, 0, 1, 2}],
         \A i, j \in 1 .. NumImages : status[i] > 0 /\ status[i] = status[j] => i = j,
         \A i \in 1 .. NumImages : status[i] # -1,
         Usb!GetEmptyFrame
  PROVE  /\ curIdx' \in 0 .. NumImages
         /\ status' \in [1 .. NumImages -> {-2, -1, 0, 1}]
         /\ \A i \in 1 .. NumImages : status'[i] = -1 <=> i = curIdx'
         /\ \A i \in 1 .. NumImages : status'[i] = 1 => status[i] > 0
         /\ \A i, j \in 1 .. NumImages : status'[i] = 1 /\ status'[j] = 1 => i = j
         /\ \A i \in 1 .. NumImages : status'[i] = -2 => status[i] = -2
<1> DEFINE R == Usb!Recycled
           n == Usb!NewestReady
<1>1. /\ R \in [1 .. NumImages -> {-2, 0, 1}]
      /\ \A i \in 1 .. NumImages :
           /\ R[i] = 1 => status[i] > 0 /\ status[i] = n
           /\ R[i] = -2 => status[i] = -2
  <2>1. \A i \in 1 .. NumImages :
          R[i] = IF status[i] > 0 THEN IF status[i] = n THEN 1 ELSE 0 ELSE status[i]
    BY DEF Usb!Recycled, Usb!Ready, Usb!Images, Usb!Empty
  <2>2. R = [i \in 1 .. NumImages |-> R[i]]
    BY DEF Usb!Recycled, Usb!Images
  <2> HIDE DEF R, n
  <2>3. ASSUME NEW i \in 1 .. NumImages
        PROVE  /\ R[i] \in {-2, 0, 1}
               /\ R[i] = 1 => status[i] > 0 /\ status[i] = n
               /\ R[i] = -2 => status[i] = -2
    <3>1. status[i] \in {-2, 0, 1, 2}
      OBVIOUS
    <3> QED
      BY <2>1, <3>1
  <2> QED
    BY <2>2, <2>3
<1>2. /\ curIdx' = IF Usb!Unused = {} THEN 0 ELSE Usb!Min(Usb!Unused)
      /\ status' = [i \in 1 .. NumImages |-> IF i = curIdx' THEN -1 ELSE R[i]]
  BY DEF Usb!GetEmptyFrame, Usb!Nobody, Usb!Filling, Usb!Images
<1>3. curIdx' \in 0 .. NumImages
  <2>1. Usb!Unused \in SUBSET (1 .. NumImages)
    BY DEF Usb!Unused, Usb!Images
  <2>2. Usb!Unused \in SUBSET Nat
    BY <2>1
  <2>3. Usb!Unused # {} => Usb!Min(Usb!Unused) \in 1 .. NumImages
    BY <2>1, <2>2, MinIsLeast
  <2> QED
    BY <1>2, <2>3
<1> HIDE DEF R, n
<1>4. status' \in [1 .. NumImages -> {-2, -1, 0, 1}]
  BY <1>1, <1>2
<1>5. ASSUME NEW i \in 1 .. NumImages
      PROVE  /\ status'[i] = -1 <=> i = curIdx'
             /\ status'[i] = 1 => status[i] > 0 /\ status[i] = n
             /\ status'[i] = -2 => status[i] = -2
  <2>1. status'[i] = IF i = curIdx' THEN -1 ELSE R[i]
    BY <1>2
  <2>2. R[i] \in {-2, 0, 1}
    BY <1>1
  <2> QED
    BY <1>1, <2>1, <2>2
<1>6. \A i, j \in 1 .. NumImages : status'[i] = 1 /\ status'[j] = 1 => i = j
  BY <1>5
<1> QED
  BY <1>3, <1>4, <1>5, <1>6

\* What a finished image is numbered, when one waits at most.
LEMMA NewestIs ==
  ASSUME status \in [1 .. NumImages -> {-2, -1, 0, 1}]
  PROVE  Usb!NewestReady = IF \E i \in 1 .. NumImages : status[i] = 1 THEN 1 ELSE 0
<1> DEFINE S == {0} \cup { status[i] : i \in Usb!Ready }
<1>1. S \subseteq {0, 1} /\ 0 \in S /\ (1 \in S <=> \E i \in 1 .. NumImages : status[i] = 1)
  BY DEF Usb!Ready, Usb!Images
<1>2. Usb!NewestReady = Usb!Max(S)
  BY DEF Usb!NewestReady
<1> HIDE DEF S
<1>3. CASE 1 \in S
  <2>1. S \in SUBSET Int /\ \A m \in S : m <= 1
    BY <1>1
  <2> QED
    BY <1>1, <1>2, <1>3, <2>1, MaxIsGreatest
<1>4. CASE 1 \notin S
  <2>1. S \in SUBSET Int /\ \A m \in S : m <= 0
    BY <1>1, <1>4
  <2> QED
    BY <1>1, <1>2, <1>4, <2>1, MaxIsGreatest
<1> QED
  BY <1>3, <1>4

\* Each step on the pool.
LEMMA UsbPoolStays ==
  ASSUME NumImages \in Nat, curIdx \in 0 .. NumImages,
         status \in [1 .. NumImages -> {-2, -1, 0, 1, 2}], UsbPool, Usb!Next
  PROVE  /\ curIdx' \in 0 .. NumImages
         /\ status' \in [1 .. NumImages -> {-2, -1, 0, 1, 2}] /\ UsbPool'
<1> USE DEF Usb!Images
<1> DEFINE Goal == /\ curIdx' \in 0 .. NumImages
                   /\ status' \in [1 .. NumImages -> {-2, -1, 0, 1, 2}] /\ UsbPool'
<1>1. CASE Usb!Start
  <2>1. /\ status' = [i \in 1 .. NumImages |-> 0] /\ curIdx' = 0 /\ phase' = "on"
        /\ phase = "off" /\ workerPc' = workerPc
    BY <1>1 DEF Usb!Start, Usb!Empty, Usb!Nobody
  <2> QED
    BY <2>1 DEF UsbPool
<1>2. ASSUME NEW i \in 1 .. NumImages, Usb!GetFrame(i) PROVE Goal
  <2>1. /\ phase = "on" /\ status[i] = 1
        /\ status' = [j \in 1 .. NumImages |-> IF j = i THEN -2
                       ELSE IF status[j] >= 1 THEN status[j] - 1 ELSE status[j]]
        /\ UNCHANGED <<curIdx, workerPc, phase>>
    BY <1>2 DEF Usb!GetFrame, Usb!Taken, Usb!Lent, Usb!fillVars
  <2>2. ASSUME NEW j \in 1 .. NumImages
        PROVE  /\ status'[j] \in {-2, -1, 0, 1}
               /\ status'[j] = 1 <=> status[j] = 2
               /\ status'[j] = -1 <=> status[j] = -1
    <3>1. status[j] \in {-2, -1, 0, 1, 2} /\ (status[j] = 1 => j = i)
      BY <2>1 DEF UsbPool
    <3> QED
      BY <2>1, <3>1
  <2>3. status' \in [1 .. NumImages -> {-2, -1, 0, 1}]
    BY <2>1, <2>2
  <2>4. UsbPool'
    BY <2>1, <2>2, <2>3 DEF UsbPool
  <2> QED
    BY <2>1, <2>3, <2>4
<1>3. ASSUME NEW i \in 1 .. NumImages, Usb!ReleaseFrame(i) PROVE Goal
  <2>1. /\ status[i] = -2 /\ status' = [status EXCEPT ![i] = 0]
        /\ UNCHANGED <<curIdx, workerPc, phase>>
    BY <1>3 DEF Usb!ReleaseFrame, Usb!PutBack, Usb!Lent, Usb!Empty, Usb!fillVars
  <2>2. UsbPool'
    BY <2>1 DEF UsbPool
  <2> QED
    BY <2>1, <2>2
<1>4. CASE Usb!CallbackStart
  <2>1. /\ workerPc = "idle" /\ workerPc' = "copy" /\ phase # "off" /\ phase' = phase
        /\ IF curIdx = 0 THEN Usb!GetEmptyFrame ELSE UNCHANGED <<status, curIdx>>
    BY <1>4 DEF Usb!CallbackStart, Usb!Nobody
  <2>2. CASE curIdx = 0
    <3>1. \A i \in 1 .. NumImages : status[i] # -1
      BY <2>2 DEF UsbPool
    <3>2. \A i, j \in 1 .. NumImages : status[i] > 0 /\ status[i] = status[j] => i = j
      BY DEF UsbPool
    <3>3. /\ curIdx' \in 0 .. NumImages
          /\ status' \in [1 .. NumImages -> {-2, -1, 0, 1}]
          /\ \A i \in 1 .. NumImages : status'[i] = -1 <=> i = curIdx'
          /\ \A i, j \in 1 .. NumImages : status'[i] = 1 /\ status'[j] = 1 => i = j
      BY <2>1, <2>2, <3>1, <3>2, EmptyTaken
    <3>4. UsbPool'
      BY <2>1, <3>3 DEF UsbPool
    <3> QED
      BY <3>3, <3>4
  <2>3. CASE curIdx # 0
    BY <2>1, <2>3 DEF UsbPool
  <2> QED
    BY <2>2, <2>3
<1>5. CASE Usb!CopyRest
  <2>1. /\ workerPc = "rest" /\ workerPc' = "resubmit" /\ phase' = phase /\ Usb!GetEmptyFrame
        /\ phase # "off"
    BY <1>5 DEF Usb!CopyRest, UsbPool
  <2>2. \A i \in 1 .. NumImages : status[i] # -1
    BY <2>1 DEF UsbPool
  <2>3. \A i, j \in 1 .. NumImages : status[i] > 0 /\ status[i] = status[j] => i = j
    BY DEF UsbPool
  <2>4. /\ curIdx' \in 0 .. NumImages
        /\ status' \in [1 .. NumImages -> {-2, -1, 0, 1}]
        /\ \A i \in 1 .. NumImages : status'[i] = -1 <=> i = curIdx'
        /\ \A i, j \in 1 .. NumImages : status'[i] = 1 /\ status'[j] = 1 => i = j
    BY <2>1, <2>2, <2>3, EmptyTaken
  <2>5. UsbPool'
    BY <2>1, <2>4 DEF UsbPool
  <2> QED
    BY <2>4, <2>5
<1>6. CASE Usb!CopyLast
  <2>1. /\ workerPc = "copy" /\ workerPc' = "rest" /\ curIdx # 0
        /\ status' = [status EXCEPT ![curIdx] = Usb!NewestReady + 1]
        /\ UNCHANGED <<curIdx, phase>>
    BY <1>6 DEF Usb!CopyLast, Usb!fillVars, Usb!Nobody
  <2>2. /\ curIdx \in 1 .. NumImages /\ status[curIdx] = -1 /\ phase # "off"
        /\ \A i \in 1 .. NumImages : status[i] # 2
        /\ \A i \in 1 .. NumImages : status[i] = -1 => i = curIdx
    BY <2>1 DEF UsbPool
  <2>3. status \in [1 .. NumImages -> {-2, -1, 0, 1}]
    BY <2>2
  <2>4. Usb!NewestReady = IF \E i \in 1 .. NumImages : status[i] = 1 THEN 1 ELSE 0
    BY <2>3, NewestIs
  <2>5. ASSUME \E i \in 1 .. NumImages : status[i] = 1 PROVE Goal
    <3>0. Usb!NewestReady = 1 /\ 1 + 1 = 2
      BY <2>4, <2>5
    <3>1. status' = [status EXCEPT ![curIdx] = 2]
      BY <2>1, <3>0
    <3> QED
      BY <2>1, <2>2, <2>5, <3>1 DEF UsbPool
  <2>6. ASSUME ~ \E i \in 1 .. NumImages : status[i] = 1 PROVE Goal
    <3>1. status' = [status EXCEPT ![curIdx] = 1]
      BY <2>1, <2>4, <2>6
    <3> QED
      BY <2>1, <2>2, <2>6, <3>1 DEF UsbPool
  <2> QED
    BY <2>5, <2>6
<1>7. CASE Usb!FinishStop
  <2>1. /\ status' = [i \in 1 .. NumImages |-> 0] /\ phase' = "off" /\ workerPc = "idle"
        /\ UNCHANGED <<curIdx, workerPc>>
    BY <1>7 DEF Usb!FinishStop, Usb!Empty, Usb!fillVars
  <2> QED
    BY <2>1 DEF UsbPool
<1>8. ASSUME UNCHANGED <<status, curIdx>>, phase # "off", phase' # "off",
             {workerPc, workerPc'} \subseteq {"idle", "copy", "resubmit"}
      PROVE  Goal
  BY <1>8 DEF UsbPool
<1>9. ASSUME UNCHANGED <<status, curIdx, phase, workerPc>> PROVE Goal
  BY <1>9 DEF UsbPool
<1>10. CASE Usb!Drop \/ Usb!CopyPart \/ Usb!Resubmit
  <2>1. /\ UNCHANGED <<status, curIdx, phase>> /\ workerPc # "idle"
        /\ {workerPc, workerPc'} \subseteq {"idle", "copy", "resubmit"}
    BY <1>10 DEF Usb!Drop, Usb!CopyPart, Usb!Resubmit, Usb!poolVars, Usb!fillVars
  <2>2. phase # "off"
    BY <2>1 DEF UsbPool
  <2> QED
    BY <2>1, <2>2, <1>8
<1>11. CASE Usb!Stop
  <2>1. /\ UNCHANGED <<status, curIdx, workerPc>> /\ phase = "on" /\ phase' = "stopping"
    BY <1>11 DEF Usb!Stop, Usb!poolVars, Usb!fillVars
  <2> QED
    BY <2>1 DEF UsbPool
<1>12. CASE Usb!StopCallback
  BY <1>12, <1>9 DEF Usb!StopCallback, Usb!poolVars, Usb!fillVars
<1> QED
  BY <1>1, <1>2, <1>3, <1>4, <1>5, <1>6, <1>7, <1>10, <1>11, <1>12
     DEF Usb!Next, Usb!Callback, Usb!Caller

\* What is numbered so is one of the last two frames.
LEMMA PoolIsShort ==
  ASSUME NumImages \in Nat, status \in [1 .. NumImages -> {-2, -1, 0, 1, 2}], UsbPool
  PROVE  Usb!QueueIsShort
<1> DEFINE S == { status[i] : i \in Usb!Ready }
<1>1. /\ Usb!Ready = {i \in 1 .. NumImages : status[i] \in {1, 2}}
      /\ Usb!Images = 1 .. NumImages
  BY DEF Usb!Ready, Usb!Images
<1>2. \A i \in Usb!Images : status[i] = Usb!Filling => i = curIdx
  BY <1>1 DEF UsbPool, Usb!Filling
<1>3. \A i, j \in 1 .. NumImages : status[i] > 0 /\ status[i] = status[j] => i = j
  BY DEF UsbPool
<1>4. \A T : Usb!Cardinality(T) = Cardinality(T)
  BY DEF Usb!Cardinality, Cardinality
<1>5. CASE \A i \in 1 .. NumImages : status[i] \notin {1, 2}
  <2>1. Usb!Ready = {}
    BY <1>1, <1>5
  <2>2. Usb!Cardinality(Usb!Ready) = 0
    BY <1>4, <2>1, FS_EmptySet
  <2>3. S = {} /\ 1 .. Usb!Cardinality(Usb!Ready) = {} /\ Usb!Cardinality(Usb!Ready) <= 2
    BY <2>1, <2>2
  <2> QED
    BY <1>2, <2>3, Zenon DEF Usb!QueueIsShort
<1>6. ASSUME NEW i \in 1 .. NumImages, status[i] = 1,
             \A j \in 1 .. NumImages : status[j] # 2
      PROVE  Usb!QueueIsShort
  <2>1. Usb!Ready = {i}
    BY <1>1, <1>3, <1>6
  <2>2. Usb!Cardinality(Usb!Ready) = 1
    BY <1>4, <2>1, FS_Singleton
  <2>3. S = {1}
    BY <1>6, <2>1
  <2>4. 1 .. 1 = {1}
    OBVIOUS
  <2> QED
    BY <1>2, <2>2, <2>3, <2>4 DEF Usb!QueueIsShort
<1>7. ASSUME NEW i \in 1 .. NumImages, status[i] = 1,
             NEW j \in 1 .. NumImages, status[j] = 2
      PROVE  Usb!QueueIsShort
  <2>1. Usb!Ready = {i} \cup {j} /\ j \notin {i}
    BY <1>1, <1>3, <1>7
  <2>2. IsFiniteSet({i}) /\ Cardinality({i}) = 1
    BY FS_Singleton
  <2>3. Cardinality({i} \cup {j}) = Cardinality({i}) + 1
    BY <2>1, <2>2, FS_AddElement
  <2>4. Cardinality(Usb!Ready) = 2
    <3>1. 1 + 1 = 2
      OBVIOUS
    <3> QED
      BY <2>1, <2>2, <2>3, <3>1
  <2>5. S = {1, 2} /\ 1 .. 2 = {1, 2}
    BY <1>7, <2>1
  <2> QED
    BY <1>4, <1>2, <2>4, <2>5 DEF Usb!QueueIsShort
<1>8. \A j \in 1 .. NumImages : status[j] = 2 => \E i \in 1 .. NumImages : status[i] = 1
  BY DEF UsbPool
<1> QED
  BY <1>5, <1>6, <1>7, <1>8

\* A transfer of the callback's is no longer than a frame, and one that is not full ends it.
UsbSync ==
  workerPc \in {"copy", "rest"} =>
    /\ Len(transfer.units) <= perFrame
    /\ transfer.ok /\ Len(transfer.units) # TransferSize => next.unit = 1
    /\ workerPc = "rest" => transfer.ok

\* The first n units of d are those of frame f.
Filled(d, n, f) ==
  n > 0 => d # NoData /\ \A k \in 1 .. n : d[k] = [frame |-> f, unit |-> k]

\* What the camera sends: from the next unit on, as much as a transfer or the frame holds.
LEMMA SentIs ==
  ASSUME TransferSize \in Nat \ {0}, perFrame \in Nat \ {0},
         next \in UsbUnits, next.unit \in 1 .. perFrame
  PROVE  \E n \in 1 .. perFrame :
           /\ Usb!Sent \in Seq(UsbUnits) /\ Len(Usb!Sent) = n /\ n <= TransferSize
           /\ \A k \in 1 .. n :
                Usb!Sent[k] = [frame |-> next.frame, unit |-> (next.unit + k) - 1]
           /\ next.unit + n <= perFrame + 1
           /\ n # TransferSize => next.unit + n = perFrame + 1
           /\ Usb!After(Usb!Sent[Len(Usb!Sent)])
                = IF next.unit + n = perFrame + 1 THEN [frame |-> next.frame + 1, unit |-> 1]
                  ELSE [frame |-> next.frame, unit |-> next.unit + n]
<1> DEFINE n == Usb!Min({TransferSize, perFrame - next.unit + 1})
<1>1. /\ n \in 1 .. perFrame /\ n <= TransferSize /\ next.unit + n <= perFrame + 1
      /\ n # TransferSize => next.unit + n = perFrame + 1
  <2>1. n = IF TransferSize <= perFrame - next.unit + 1 THEN TransferSize
            ELSE perFrame - next.unit + 1
    BY MinOfTwo
  <2> HIDE DEF n
  <2> QED
    BY <2>1
<1>2. Usb!Sent = [k \in 1 .. n |-> [next EXCEPT !.unit = next.unit + k - 1]]
  BY DEF Usb!Sent
<1> HIDE DEF n
<1>3. next.frame \in Nat /\ next = [frame |-> next.frame, unit |-> next.unit]
  BY DEF UsbUnits
<1>4. ASSUME NEW k \in 1 .. n
      PROVE  /\ Usb!Sent[k] = [frame |-> next.frame, unit |-> (next.unit + k) - 1]
             /\ Usb!Sent[k] \in UsbUnits
  <2>1. next.unit + k - 1 = (next.unit + k) - 1 /\ (next.unit + k) - 1 \in Nat
    BY <1>1
  <2>2. Usb!Sent[k] = [next EXCEPT !.unit = (next.unit + k) - 1]
    BY <1>2, <2>1
  <2>3. [next EXCEPT !.unit = (next.unit + k) - 1]
          = [frame |-> next.frame, unit |-> (next.unit + k) - 1]
    BY DEF UsbUnits
  <2> QED
    BY <1>3, <2>1, <2>2, <2>3 DEF UsbUnits
<1>5. Usb!Sent \in Seq(UsbUnits) /\ Len(Usb!Sent) = n
  <2>1. Usb!Sent = [k \in 1 .. n |-> Usb!Sent[k]] /\ n \in Nat
    BY <1>1, <1>2
  <2>2. Usb!Sent \in [1 .. n -> UsbUnits]
    BY <1>4, <2>1
  <2> QED
    BY <2>1, <2>2
<1>6. Usb!Sent[Len(Usb!Sent)] = [frame |-> next.frame, unit |-> (next.unit + n) - 1]
  BY <1>1, <1>4, <1>5
<1>7. /\ (next.unit + n) - 1 = perFrame <=> next.unit + n = perFrame + 1
      /\ ((next.unit + n) - 1) + 1 = next.unit + n
  BY <1>1
<1>8. Usb!After(Usb!Sent[Len(Usb!Sent)])
        = IF next.unit + n = perFrame + 1 THEN [frame |-> next.frame + 1, unit |-> 1]
          ELSE [frame |-> next.frame, unit |-> next.unit + n]
  BY <1>6, <1>7 DEF Usb!After
<1> QED
  BY <1>1, <1>4, <1>5, <1>8

\* What copying a transfer into an image leaves there.
LEMMA WrittenIs ==
  ASSUME UsbFits, perFrame \in Nat \ {0},
         NEW old \in {NoData} \cup [1 .. perFrame -> UsbUnits \cup {NoData}],
         NEW o \in 0 .. perFrame - 1, NEW u \in Seq(UsbUnits), o + Len(u) <= perFrame
  PROVE  /\ Usb!Written(old, o, u) \in [1 .. perFrame -> UsbUnits \cup {NoData}]
         /\ \A f \in Nat :
              /\ Filled(old, o, f)
              /\ \A k \in 1 .. Len(u) : u[k] = [frame |-> f, unit |-> o + k]
              => Filled(Usb!Written(old, o, u), o + Len(u), f)
<1> DEFINE w == Usb!Written(old, o, u)
<1>1. w = [k \in 1 .. perFrame |->
             IF k \in o + 1 .. o + Len(u) THEN u[k - o]
             ELSE IF old = NoData THEN NoData ELSE old[k]]
  BY DEF Usb!Written
<1> HIDE DEF w
<1>2. ASSUME NEW k \in 1 .. perFrame, k \in o + 1 .. o + Len(u)
      PROVE  k - o \in 1 .. Len(u) /\ u[k - o] \in UsbUnits /\ w[k] = u[k - o] /\ o + (k - o) = k
  <2>1. k - o \in 1 .. Len(u) /\ o + (k - o) = k
    BY <1>2
  <2> QED
    BY <1>1, <1>2, <2>1
<1>3. ASSUME NEW k \in 1 .. perFrame, k \notin o + 1 .. o + Len(u)
      PROVE  /\ w[k] \in UsbUnits \cup {NoData}
             /\ w[k] = IF old = NoData THEN NoData ELSE old[k]
  BY <1>1, <1>3
<1>4. w \in [1 .. perFrame -> UsbUnits \cup {NoData}]
  <2>1. \A k \in 1 .. perFrame : w[k] \in UsbUnits \cup {NoData}
    BY <1>2, <1>3
  <2>2. w = [k \in 1 .. perFrame |-> w[k]]
    BY <1>1
  <2> QED
    BY <2>1, <2>2
<1>5. w # NoData
  BY <1>4 DEF UsbFits, UsbUnits
<1>6. ASSUME NEW f \in Nat, Filled(old, o, f),
             \A k \in 1 .. Len(u) : u[k] = [frame |-> f, unit |-> o + k],
             NEW k \in 1 .. o + Len(u)
      PROVE  w[k] = [frame |-> f, unit |-> k]
  <2>1. k \in 1 .. perFrame
    BY <1>6
  <2>2. CASE k \in o + 1 .. o + Len(u)
    BY <1>2, <1>6, <2>1, <2>2
  <2>3. CASE k \notin o + 1 .. o + Len(u)
    <3>1. k \in 1 .. o /\ o > 0
      BY <2>3
    <3> QED
      BY <1>3, <1>6, <2>1, <2>3, <3>1 DEF Filled
  <2> QED
    BY <2>2, <2>3
<1>7. \A f \in Nat :
        /\ Filled(old, o, f)
        /\ \A k \in 1 .. Len(u) : u[k] = [frame |-> f, unit |-> o + k]
        => Filled(w, o + Len(u), f)
  BY <1>5, <1>6 DEF Filled
<1> QED
  BY <1>4, <1>7 DEF w

\* The transfer goes on where the current image ends, with frame f.
GoesOn(f) ==
  /\ 0 < Len(transfer.units) /\ curOffset + Len(transfer.units) <= perFrame
  /\ \A k \in 1 .. Len(transfer.units) :
       transfer.units[k] = [frame |-> f, unit |-> curOffset + k]
  /\ curIdx # 0 => Filled(data[curIdx], curOffset, f)
  /\ IF curOffset + Len(transfer.units) = perFrame THEN next.unit = 1
     ELSE next = [frame |-> f, unit |-> (curOffset + Len(transfer.units)) + 1]

\* While nothing is missed, what comes next is what the current image lacks.
UsbInStep ==
  phase # "off" /\ ~missed =>
    /\ curIdx = 0 => curOffset = 0
    /\ workerPc \in {"idle", "resubmit"} =>
         /\ next.unit = curOffset + 1
         /\ curIdx # 0 => Filled(data[curIdx], curOffset, next.frame)
    /\ workerPc = "copy" /\ transfer.ok =>
         \/ Len(transfer.units) = 0 /\ next.unit = 1
         \/ \E f \in Nat : GoesOn(f)
    /\ workerPc = "rest" =>
         Len(transfer.units) = perFrame - curOffset /\ next.unit = 1

UsbWhole ==
  \A i \in 1 .. NumImages :
    status[i] \in {-2, 1, 2} /\ onTime[i] => \E f \in Nat : Filled(data[i], perFrame, f)

UsbInv == UsbTypes /\ UsbPool /\ UsbSync /\ UsbInStep /\ UsbWhole

\* Each step of the callback, and then the others.
LEMMA CallbackStarts ==
  ASSUME UsbFits, UsbInv, Usb!CallbackStart
  PROVE  UsbInv'
<1> USE DEF UsbInv
<1>1. /\ workerPc = "idle" /\ phase # "off" /\ workerPc' = "copy" /\ Usb!Outcome
      /\ IF curIdx = 0 THEN Usb!GetEmptyFrame ELSE UNCHANGED <<status, curIdx>>
      /\ UNCHANGED <<data, onTime, curOffset, perFrame, phase, missed>>
  BY DEF Usb!CallbackStart, Usb!Nobody
<1>2. /\ curIdx' \in 0 .. NumImages
      /\ status' \in [1 .. NumImages -> {-2, -1, 0, 1, 2}] /\ UsbPool'
  BY UsbPoolStays DEF UsbFits, UsbTypes, Usb!Next, Usb!Callback
<1>3. PICK n \in 1 .. perFrame :
        /\ Usb!Sent \in Seq(UsbUnits) /\ Len(Usb!Sent) = n /\ n <= TransferSize
        /\ \A k \in 1 .. n :
             Usb!Sent[k] = [frame |-> next.frame, unit |-> (next.unit + k) - 1]
        /\ next.unit + n <= perFrame + 1
        /\ n # TransferSize => next.unit + n = perFrame + 1
        /\ Usb!After(Usb!Sent[Len(Usb!Sent)])
             = IF next.unit + n = perFrame + 1 THEN [frame |-> next.frame + 1, unit |-> 1]
               ELSE [frame |-> next.frame, unit |-> next.unit + n]
  BY SentIs DEF UsbFits, UsbTypes
<1>4. /\ perFrame \in Nat \ {0} /\ next.frame \in Nat /\ next.unit \in 1 .. perFrame
      /\ curOffset \in 0 .. perFrame - 1
  BY DEF UsbTypes, UsbUnits
<1> DEFINE after == IF next.unit + n = perFrame + 1 THEN [frame |-> next.frame + 1, unit |-> 1]
                    ELSE [frame |-> next.frame, unit |-> next.unit + n]
<1>5. \/ transfer' = [ok |-> TRUE, units |-> Usb!Sent] /\ next' = after
      \/ transfer' = [ok |-> FALSE, units |-> <<>>] /\ next' \in {after, next}
      \/ /\ transfer' = [ok |-> TRUE, units |-> <<>>]
         /\ next' = [frame |-> next.frame + 1, unit |-> 1]
  BY <1>1, <1>3 DEF Usb!Outcome, Usb!Delivered, Usb!NoUnits, Usb!Failed
<1>6. after \in UsbUnits /\ after.unit \in 1 .. perFrame
  <2>1. CASE next.unit + n = perFrame + 1
    BY <1>4, <2>1 DEF UsbUnits
  <2>2. CASE next.unit + n # perFrame + 1
    <3>1. next.unit \in 1 .. perFrame /\ next.unit + n <= perFrame + 1 /\ perFrame \in Nat
      BY <1>3, <1>4
    <3>2. next.unit + n \in 1 .. perFrame
      BY <2>2, <3>1
    <3> QED
      BY <1>4, <2>2, <3>2 DEF UsbUnits
  <2> QED
    BY <2>1, <2>2
<1> HIDE DEF after
<1>7. /\ next' \in UsbUnits /\ next'.unit \in 1 .. perFrame
      /\ transfer' \in [ok : BOOLEAN, units : Seq(UsbUnits)]
      /\ Len(transfer'.units) <= perFrame
  <2>1. [frame |-> next.frame + 1, unit |-> 1] \in UsbUnits /\ 1 \in 1 .. perFrame
    BY <1>4 DEF UsbUnits
  <2>2. Len(<<>>) = 0 /\ <<>> \in Seq(UsbUnits) /\ 0 <= perFrame /\ n <= perFrame
    BY <1>4
  <2>3. next \in UsbUnits
    BY DEF UsbTypes
  <2>4. next' \in UsbUnits /\ next'.unit \in 1 .. perFrame
    BY <1>4, <1>5, <1>6, <2>1, <2>3
  <2>5. TRUE \in BOOLEAN /\ FALSE \in BOOLEAN /\ Usb!Sent \in Seq(UsbUnits) /\ Len(Usb!Sent) <= perFrame
    BY <1>3, <2>2
  <2>6. /\ transfer' \in [ok : BOOLEAN, units : Seq(UsbUnits)]
        /\ Len(transfer'.units) <= perFrame
    <3>1. PICK u \in Seq(UsbUnits) : Len(u) <= perFrame /\ transfer'.units = u
            /\ \E b \in BOOLEAN : transfer' = [ok |-> b, units |-> u]
      <4>1. CASE transfer' = [ok |-> TRUE, units |-> Usb!Sent]
        BY <2>5, <4>1
      <4>2. CASE \E b \in BOOLEAN : transfer' = [ok |-> b, units |-> <<>>]
        <5>1. PICK e \in Seq(UsbUnits) : e = <<>> /\ Len(e) <= perFrame
          BY <2>2
        <5>2. PICK b \in BOOLEAN : transfer' = [ok |-> b, units |-> e]
          BY <4>2, <5>1
        <5>3. transfer'.units = e
          BY <5>2
        <5> QED
          BY <5>1, <5>2, <5>3
      <4> QED
        BY <1>5, <4>1, <4>2
    <3> QED
      BY <3>1
  <2> QED
    BY <2>4, <2>6
<1>8. UsbTypes'
  BY <1>1, <1>2, <1>7 DEF UsbTypes
<1>9. transfer'.ok /\ Len(transfer'.units) # TransferSize => next'.unit = 1
  <2>1. n # TransferSize => after.unit = 1
    BY <1>3 DEF after
  <2> QED
    BY <1>3, <1>5, <2>1
<1>10. UsbSync'
  BY <1>1, <1>7, <1>9 DEF UsbSync
<1>11. UsbWhole'
  <2>1. \A i \in 1 .. NumImages : status'[i] \in {-2, 1, 2} => status[i] \in {-2, 1, 2}
    <3>1. CASE curIdx = 0
      <4>1. \A i \in 1 .. NumImages : status[i] # -1
        BY <3>1 DEF UsbPool
      <4>2. \A i, j \in 1 .. NumImages : status[i] > 0 /\ status[i] = status[j] => i = j
        BY DEF UsbPool
      <4>3. /\ status' \in [1 .. NumImages -> {-2, -1, 0, 1}]
            /\ \A i \in 1 .. NumImages : status'[i] = 1 => status[i] > 0
            /\ \A i \in 1 .. NumImages : status'[i] = -2 => status[i] = -2
        BY <1>1, <3>1, <4>1, <4>2, EmptyTaken DEF UsbTypes, UsbFits
      <4>4. \A i \in 1 .. NumImages :
              status[i] \in {-2, -1, 0, 1, 2} /\ status'[i] \in {-2, -1, 0, 1}
        BY <4>3 DEF UsbTypes
      <4> QED
        BY <4>3, <4>4
    <3>2. CASE curIdx # 0
      BY <1>1, <3>2
    <3> QED
      BY <3>1, <3>2
  <2> QED
    BY <1>1, <2>1 DEF UsbWhole
<1>12. ASSUME ~missed
       PROVE  /\ curIdx' = 0 => curOffset = 0
              /\ transfer'.ok => \/ Len(transfer'.units) = 0 /\ next'.unit = 1
                                 \/ \E f \in Nat : GoesOn(f)'
  <2>1. /\ next.unit = curOffset + 1
        /\ curIdx = 0 => curOffset = 0
        /\ curIdx # 0 => Filled(data[curIdx], curOffset, next.frame) /\ curIdx' = curIdx
    BY <1>1, <1>12 DEF UsbInStep
  <2>2. curIdx' # 0 => Filled(data[curIdx'], curOffset, next.frame)
    BY <2>1 DEF Filled
  <2>3. CASE transfer' = [ok |-> TRUE, units |-> Usb!Sent] /\ next' = after
    <3>1. transfer'.units = Usb!Sent /\ Len(transfer'.units) = n
      BY <1>3, <2>3
    <3>2. 0 < n /\ curOffset + n <= perFrame
      BY <1>3, <1>4, <2>1
    <3>3. ASSUME NEW k \in 1 .. n
          PROVE  Usb!Sent[k] = [frame |-> next.frame, unit |-> curOffset + k]
      <4>1. (next.unit + k) - 1 = curOffset + k
        BY <1>4, <2>1
      <4> QED
        BY <1>3, <4>1
    <3>4. IF curOffset + n = perFrame THEN next'.unit = 1
          ELSE next' = [frame |-> next.frame, unit |-> (curOffset + n) + 1]
      <4>1. /\ next.unit + n = perFrame + 1 <=> curOffset + n = perFrame
            /\ next.unit + n = (curOffset + n) + 1
        BY <1>3, <1>4, <2>1
      <4> QED
        BY <2>3, <4>1 DEF after
    <3>5. PICK f \in Nat : f = next.frame
      BY <1>4
    <3>6. GoesOn(f)'
      BY <1>1, <2>2, <3>1, <3>2, <3>3, <3>4, <3>5 DEF GoesOn
    <3> QED
      BY <2>1, <3>6
  <2>4. CASE ~transfer'.ok \/ (transfer'.units = <<>> /\ next'.unit = 1)
    BY <2>1, <2>4
  <2> QED
    BY <1>5, <2>1, <2>3, <2>4
<1>13. UsbInStep'
  BY <1>1, <1>12 DEF UsbInStep
<1> QED
  BY <1>2, <1>8, <1>10, <1>11, <1>13

\* get_empty_frame gives no image that waits or is lent to the callback.
LEMMA EmptyKeeps ==
  ASSUME UsbFits, UsbTypes, UsbPool, \A i \in 1 .. NumImages : status[i] # -1,
         Usb!GetEmptyFrame
  PROVE  \A i \in 1 .. NumImages :
           status'[i] \in {-2, 1, 2} => status[i] \in {-2, 1, 2} /\ i # curIdx'
<1>1. \A i, j \in 1 .. NumImages : status[i] > 0 /\ status[i] = status[j] => i = j
  BY DEF UsbPool
<1>2. /\ status' \in [1 .. NumImages -> {-2, -1, 0, 1}]
      /\ \A i \in 1 .. NumImages : status'[i] = -1 <=> i = curIdx'
      /\ \A i \in 1 .. NumImages : status'[i] = 1 => status[i] > 0
      /\ \A i \in 1 .. NumImages : status'[i] = -2 => status[i] = -2
  BY <1>1, EmptyTaken DEF UsbTypes, UsbFits
<1>3. ASSUME NEW i \in 1 .. NumImages, status'[i] \in {-2, 1, 2}
      PROVE  status[i] \in {-2, 1, 2} /\ i # curIdx'
  <2>1. status[i] \in {-2, -1, 0, 1, 2} /\ status'[i] \in {-2, 1}
    BY <1>2, <1>3 DEF UsbTypes
  <2>2. status'[i] # -1
    BY <2>1
  <2> QED
    BY <1>2, <2>1, <2>2
<1> QED
  BY <1>3

LEMMA PartCopied ==
  ASSUME UsbFits, UsbInv, Usb!CopyPart
  PROVE  UsbInv'
<1> USE DEF UsbInv
<1> DEFINE o == curOffset
           n == Len(transfer.units)
           w == Usb!Written(data[curIdx], o, transfer.units)
<1>0. /\ curIdx' \in 0 .. NumImages
      /\ status' \in [1 .. NumImages -> {-2, -1, 0, 1, 2}] /\ UsbPool'
  BY UsbPoolStays DEF UsbFits, UsbTypes, Usb!Next, Usb!Callback
<1>1. /\ workerPc = "copy" /\ workerPc' = "resubmit" /\ transfer.ok /\ curIdx # 0
      /\ data' = [data EXCEPT ![curIdx] = w]
      /\ missed' = (missed /\ n = TransferSize)
      /\ UNCHANGED <<status, onTime, curIdx, perFrame, transfer, phase, next>>
  BY DEF Usb!CopyPart, Usb!Nobody, Usb!IsShort
<1>2. /\ perFrame \in Nat \ {0} /\ o \in 0 .. perFrame - 1 /\ n \in Nat
      /\ transfer.units \in Seq(UsbUnits) /\ curIdx \in 1 .. NumImages
      /\ TransferSize \in Nat \ {0}
  BY <1>1 DEF UsbTypes, UsbFits
<1>3. /\ o + n < perFrame
      /\ curOffset' = IF n # TransferSize THEN 0 ELSE o + n
  <2>1. Usb!CopySize = IF perFrame - o <= n THEN perFrame - o ELSE n
    BY <1>2, MinOfTwo DEF Usb!CopySize, Usb!Room
  <2>2. Usb!CopySize < perFrame - o
    BY DEF Usb!CopyPart, Usb!Room
  <2>3. Usb!CopySize = n /\ o + n < perFrame
    BY <1>2, <2>1, <2>2
  <2> QED
    BY <2>3 DEF Usb!CopyPart, Usb!OffsetAfter, Usb!IsShort
<1>4. data[curIdx] \in {NoData} \cup [1 .. perFrame -> UsbUnits \cup {NoData}]
  BY <1>2 DEF UsbTypes
<1>5. /\ w \in [1 .. perFrame -> UsbUnits \cup {NoData}]
      /\ \A f \in Nat :
           /\ Filled(data[curIdx], o, f)
           /\ \A k \in 1 .. n : transfer.units[k] = [frame |-> f, unit |-> o + k]
           => Filled(w, o + n, f)
  <2>1. PICK old \in {NoData} \cup [1 .. perFrame -> UsbUnits \cup {NoData}], v \in Seq(UsbUnits),
             p \in 0 .. perFrame - 1 :
          old = data[curIdx] /\ v = transfer.units /\ p = curOffset
    BY <1>2, <1>4
  <2>2. p + Len(v) <= perFrame
    BY <1>2, <1>3, <2>1
  <2>3. /\ Usb!Written(old, p, v) \in [1 .. perFrame -> UsbUnits \cup {NoData}]
        /\ \A f \in Nat :
             /\ Filled(old, p, f)
             /\ \A k \in 1 .. Len(v) : v[k] = [frame |-> f, unit |-> p + k]
             => Filled(Usb!Written(old, p, v), p + Len(v), f)
    BY <1>2, <2>2, WrittenIs
  <2> QED
    BY <2>1, <2>3
<1> HIDE DEF w
<1>6. UsbTypes'
  <2>1. curOffset' \in 0 .. perFrame - 1
    BY <1>2, <1>3
  <2>2. data' \in [1 .. NumImages -> {NoData} \cup [1 .. perFrame -> UsbUnits \cup {NoData}]]
    BY <1>1, <1>2, <1>5 DEF UsbTypes
  <2>3. missed' \in BOOLEAN
    BY <1>1
  <2> QED
    BY <1>0, <1>1, <2>1, <2>2, <2>3 DEF UsbTypes
<1>7. UsbSync'
  BY <1>1 DEF UsbSync
<1>8. UsbWhole'
  <2>1. \A i \in 1 .. NumImages : status[i] \in {-2, 1, 2} => i # curIdx
    <3>1. status[curIdx] = -1
      BY <1>1 DEF UsbPool
    <3> QED
      BY <3>1
  <2>2. \A i \in 1 .. NumImages : i # curIdx => data'[i] = data[i]
    BY <1>1 DEF UsbTypes
  <2> QED
    BY <1>1, <2>1, <2>2 DEF UsbWhole
<1>9. ASSUME phase # "off", ~missed'
      PROVE  next.unit = curOffset' + 1 /\ Filled(w, curOffset', next.frame)
  <2>1. CASE n # TransferSize
    <3>1. next.unit = 1 /\ curOffset' = 0
      BY <1>1, <1>3, <2>1 DEF UsbSync
    <3> QED
      BY <3>1 DEF Filled
  <2>2. CASE n = TransferSize
    <3>1. ~missed /\ n # 0
      BY <1>1, <1>2, <1>9, <2>2
    <3>2. PICK f \in Nat : GoesOn(f)
      BY <1>1, <1>9, <3>1 DEF UsbInStep
    <3>3. next = [frame |-> f, unit |-> (o + n) + 1]
      BY <1>2, <1>3, <3>2 DEF GoesOn
    <3>4. Filled(w, o + n, f)
      BY <1>1, <1>5, <3>2 DEF GoesOn
    <3> QED
      BY <1>3, <2>2, <3>3, <3>4
  <2> QED
    BY <2>1, <2>2
<1>10. UsbInStep'
  <2>1. data'[curIdx] = w
    BY <1>1, <1>2 DEF UsbTypes
  <2> QED
    BY <1>1, <1>9, <2>1 DEF UsbInStep
<1> QED
  BY <1>0, <1>6, <1>7, <1>8, <1>10

LEMMA LastCopied ==
  ASSUME UsbFits, UsbInv, Usb!CopyLast
  PROVE  UsbInv'
<1> USE DEF UsbInv
<1> DEFINE o == curOffset
           n == Len(transfer.units)
           r == perFrame - o
           u == SubSeq(transfer.units, 1, r)
           w == Usb!Written(data[curIdx], o, u)
<1>0. /\ curIdx' \in 0 .. NumImages
      /\ status' \in [1 .. NumImages -> {-2, -1, 0, 1, 2}] /\ UsbPool'
  BY UsbPoolStays DEF UsbFits, UsbTypes, Usb!Next, Usb!Callback
<1>1. /\ workerPc = "copy" /\ workerPc' = "rest" /\ transfer.ok /\ curIdx # 0
      /\ Usb!CopySize = r
      /\ data' = [data EXCEPT ![curIdx] = w]
      /\ onTime' = [onTime EXCEPT ![curIdx] = ~missed]
      /\ status' = [status EXCEPT ![curIdx] = Usb!NewestReady + 1]
      /\ UNCHANGED <<curIdx, curOffset, perFrame, transfer, phase, next, missed>>
  BY DEF Usb!CopyLast, Usb!Nobody, Usb!Room, Usb!fillVars
<1>2. /\ perFrame \in Nat \ {0} /\ o \in 0 .. perFrame - 1 /\ n \in Nat
      /\ transfer.units \in Seq(UsbUnits) /\ curIdx \in 1 .. NumImages
      /\ missed \in BOOLEAN
  BY <1>1 DEF UsbTypes, UsbFits
<1>3. r \in 1 .. n /\ o + r = perFrame
  <2>1. Usb!CopySize = IF perFrame - o <= n THEN perFrame - o ELSE n
    BY <1>2, MinOfTwo DEF Usb!CopySize, Usb!Room
  <2> QED
    BY <1>1, <1>2, <2>1
<1>4. data[curIdx] \in {NoData} \cup [1 .. perFrame -> UsbUnits \cup {NoData}]
  BY <1>2 DEF UsbTypes
<1> HIDE DEF r
<1>5. u \in Seq(UsbUnits) /\ Len(u) = r /\ \A k \in 1 .. r : u[k] = transfer.units[k]
  BY <1>2, <1>3
<1> HIDE DEF u
<1>6. /\ w \in [1 .. perFrame -> UsbUnits \cup {NoData}]
      /\ \A f \in Nat :
           /\ Filled(data[curIdx], o, f)
           /\ \A k \in 1 .. r : u[k] = [frame |-> f, unit |-> o + k]
           => Filled(w, perFrame, f)
  <2>1. PICK old \in {NoData} \cup [1 .. perFrame -> UsbUnits \cup {NoData}],
             p \in 0 .. perFrame - 1 : old = data[curIdx] /\ p = curOffset
    BY <1>2, <1>4
  <2>2. p + Len(u) = perFrame /\ p + Len(u) <= perFrame
    BY <1>2, <1>3, <1>5, <2>1
  <2>3. /\ Usb!Written(old, p, u) \in [1 .. perFrame -> UsbUnits \cup {NoData}]
        /\ \A f \in Nat :
             /\ Filled(old, p, f)
             /\ \A k \in 1 .. Len(u) : u[k] = [frame |-> f, unit |-> p + k]
             => Filled(Usb!Written(old, p, u), p + Len(u), f)
    BY <1>2, <1>5, <2>2, WrittenIs
  <2> QED
    BY <1>5, <2>1, <2>2, <2>3
<1> HIDE DEF w
<1>7. UsbTypes'
  <2>1. data' \in [1 .. NumImages -> {NoData} \cup [1 .. perFrame -> UsbUnits \cup {NoData}]]
    BY <1>1, <1>2, <1>6 DEF UsbTypes
  <2>2. onTime' \in [1 .. NumImages -> BOOLEAN]
    BY <1>1, <1>2 DEF UsbTypes
  <2> QED
    BY <1>0, <1>1, <2>1, <2>2 DEF UsbTypes
<1>8. UsbSync'
  BY <1>1 DEF UsbSync
<1>9. ASSUME ~missed
      PROVE  /\ n = perFrame - curOffset /\ next.unit = 1
             /\ \E f \in Nat : Filled(w, perFrame, f)
  <2>1. n # 0 /\ phase # "off"
    BY <1>1, <1>3 DEF UsbPool
  <2>2. PICK f \in Nat : GoesOn(f)
    BY <1>1, <1>9, <2>1 DEF UsbInStep
  <2>3. n = r
    BY <1>2, <1>3, <2>2 DEF GoesOn
  <2>4. next.unit = 1
    BY <1>3, <2>2, <2>3 DEF GoesOn
  <2>5. Filled(w, perFrame, f)
    BY <1>1, <1>5, <1>6, <2>2, <2>3 DEF GoesOn
  <2> QED
    BY <2>3, <2>4, <2>5 DEF r
<1>10. UsbInStep'
  BY <1>1, <1>9 DEF UsbInStep
<1>11. UsbWhole'
  <2>1. ASSUME NEW i \in 1 .. NumImages, i # curIdx
        PROVE  data'[i] = data[i] /\ onTime'[i] = onTime[i] /\ status'[i] = status[i]
    BY <1>1, <2>1 DEF UsbTypes
  <2>2. data'[curIdx] = w /\ onTime'[curIdx] = ~missed
    BY <1>1, <1>2 DEF UsbTypes
  <2>3. ASSUME NEW i \in 1 .. NumImages, status'[i] \in {-2, 1, 2}, onTime'[i]
        PROVE  \E f \in Nat : Filled(data'[i], perFrame, f)
    <3>1. CASE i = curIdx
      BY <1>9, <2>2, <2>3, <3>1
    <3>2. CASE i # curIdx
      BY <2>1, <2>3, <3>2 DEF UsbWhole
    <3> QED
      BY <3>1, <3>2
  <2> QED
    BY <1>1, <2>3 DEF UsbWhole
<1> QED
  BY <1>0, <1>7, <1>8, <1>10, <1>11

LEMMA RestCopied ==
  ASSUME UsbFits, UsbInv, Usb!CopyRest
  PROVE  UsbInv'
<1> USE DEF UsbInv
<1> DEFINE n == Len(transfer.units)
           c == Usb!CopySize
           u == SubSeq(transfer.units, c + 1, n)
           w == Usb!Written(data[curIdx'], 0, u)
<1>0. /\ curIdx' \in 0 .. NumImages
      /\ status' \in [1 .. NumImages -> {-2, -1, 0, 1, 2}] /\ UsbPool'
  BY UsbPoolStays DEF UsbFits, UsbTypes, Usb!Next, Usb!Callback
<1>1. /\ workerPc = "rest" /\ workerPc' = "resubmit" /\ transfer.ok
      /\ Usb!GetEmptyFrame
      /\ data' = IF curIdx' = 0 THEN data ELSE [data EXCEPT ![curIdx'] = w]
      /\ curOffset' = IF n # TransferSize \/ curIdx' = 0 THEN 0 ELSE Len(u)
      /\ missed' = (missed /\ n = TransferSize)
      /\ UNCHANGED <<onTime, perFrame, transfer, phase, next>>
  BY DEF Usb!CopyRest, Usb!Nobody, Usb!IsShort, Usb!OffsetAfter, UsbSync
<1>2. /\ perFrame \in Nat \ {0} /\ curOffset \in 0 .. perFrame - 1 /\ n \in 0 .. perFrame
      /\ transfer.units \in Seq(UsbUnits)
  BY <1>1 DEF UsbTypes, UsbSync
<1>3. c \in 0 .. n /\ n - c <= perFrame - 1 /\ (n = perFrame - curOffset => c = n)
  <2>1. c = IF perFrame - curOffset <= n THEN perFrame - curOffset ELSE n
    BY <1>2, MinOfTwo DEF Usb!CopySize, Usb!Room
  <2> HIDE DEF c
  <2> QED
    BY <1>2, <2>1
<1> HIDE DEF c
<1>4. u \in Seq(UsbUnits) /\ Len(u) = n - c /\ Len(u) \in 0 .. perFrame - 1
  BY <1>2, <1>3
<1> HIDE DEF u
<1>5. curIdx' # 0 => w \in [1 .. perFrame -> UsbUnits \cup {NoData}]
  <2>1. ASSUME curIdx' # 0 PROVE w \in [1 .. perFrame -> UsbUnits \cup {NoData}]
    <3>1. PICK old \in {NoData} \cup [1 .. perFrame -> UsbUnits \cup {NoData}] :
            old = data[curIdx']
      BY <1>0, <2>1 DEF UsbTypes
    <3>2. 0 \in 0 .. perFrame - 1 /\ 0 + Len(u) <= perFrame
      BY <1>2, <1>4
    <3>3. Usb!Written(old, 0, u) \in [1 .. perFrame -> UsbUnits \cup {NoData}]
      BY <1>2, <1>4, <3>2, WrittenIs
    <3> QED
      BY <3>1, <3>3
  <2> QED
    BY <2>1
<1> HIDE DEF w
<1>6. UsbTypes'
  <2>1. data' \in [1 .. NumImages -> {NoData} \cup [1 .. perFrame -> UsbUnits \cup {NoData}]]
    <3>1. data \in [1 .. NumImages -> {NoData} \cup [1 .. perFrame -> UsbUnits \cup {NoData}]]
      BY DEF UsbTypes
    <3>2. CASE curIdx' = 0
      BY <1>1, <3>1, <3>2
    <3>3. CASE curIdx' # 0
      <4>1. data' = [data EXCEPT ![curIdx'] = w]
        BY <1>1, <3>3
      <4>2. w \in {NoData} \cup [1 .. perFrame -> UsbUnits \cup {NoData}]
        BY <1>5, <3>3
      <4> QED
        BY <3>1, <4>1, <4>2
    <3> QED
      BY <3>2, <3>3
  <2>2. curOffset' \in 0 .. perFrame - 1
    BY <1>1, <1>2, <1>4
  <2>3. missed' \in BOOLEAN
    BY <1>1
  <2> QED
    BY <1>0, <1>1, <2>1, <2>2, <2>3 DEF UsbTypes
<1>7. UsbSync'
  BY <1>1 DEF UsbSync
<1>8. ASSUME phase # "off", ~missed'
      PROVE  next.unit = 1 /\ curOffset' = 0
  <2>1. CASE n # TransferSize
    BY <1>1, <2>1 DEF UsbSync
  <2>2. CASE n = TransferSize
    <3>1. n = perFrame - curOffset /\ next.unit = 1
      BY <1>1, <1>8, <2>2 DEF UsbInStep
    <3>2. Len(u) = 0
      BY <1>2, <1>3, <1>4, <3>1
    <3> QED
      BY <1>1, <3>1, <3>2
  <2> QED
    BY <2>1, <2>2
<1>9. UsbInStep'
  <2>1. \A d, f : Filled(d, 0, f)
    BY DEF Filled
  <2>2. ASSUME phase # "off", ~missed'
        PROVE  /\ next.unit = curOffset' + 1
               /\ Filled(data'[curIdx'], curOffset', next.frame)
    <3>1. next.unit = 1 /\ curOffset' = 0
      BY <1>8, <2>2
    <3> QED
      BY <2>1, <3>1
  <2> QED
    BY <1>1, <1>8, <2>2 DEF UsbInStep
<1>10. UsbWhole'
  <2>1. \A i \in 1 .. NumImages : status[i] # -1
    BY <1>1 DEF UsbPool
  <2>2. \A i \in 1 .. NumImages :
          status'[i] \in {-2, 1, 2} => status[i] \in {-2, 1, 2} /\ i # curIdx'
    BY <1>1, <2>1, EmptyKeeps
  <2>3. \A i \in 1 .. NumImages : i # curIdx' => data'[i] = data[i]
    BY <1>1 DEF UsbTypes
  <2> QED
    BY <1>1, <2>2, <2>3 DEF UsbWhole
<1> QED
  BY <1>0, <1>6, <1>7, <1>9, <1>10

LEMMA TransferLeft ==
  ASSUME UsbFits, UsbInv, Usb!Drop \/ Usb!Resubmit
  PROVE  UsbInv'
<1> USE DEF UsbInv
<1>1. UsbPool'
  BY UsbPoolStays DEF UsbFits, UsbTypes, Usb!Next, Usb!Callback
<1>2. /\ UNCHANGED <<status, data, onTime, curIdx, curOffset, perFrame, transfer, phase, next>>
      /\ \/ workerPc' = "resubmit" /\ missed' = TRUE
         \/ workerPc = "resubmit" /\ workerPc' = "idle" /\ missed' = missed
  BY DEF Usb!Drop, Usb!Resubmit, Usb!poolVars, Usb!fillVars
<1>3. UsbTypes'
  BY <1>2 DEF UsbTypes
<1>4. UsbSync'
  BY <1>2 DEF UsbSync
<1>5. UsbInStep'
  BY <1>2 DEF UsbInStep
<1>6. UsbWhole'
  BY <1>2 DEF UsbWhole
<1> QED
  BY <1>1, <1>3, <1>4, <1>5, <1>6

LEMMA Restarted ==
  ASSUME UsbFits, UsbInv, Usb!Start
  PROVE  UsbInv'
<1> USE DEF UsbInv
<1>1. /\ curIdx' \in 0 .. NumImages
      /\ status' \in [1 .. NumImages -> {-2, -1, 0, 1, 2}] /\ UsbPool'
  BY UsbPoolStays DEF UsbFits, UsbTypes, Usb!Next, Usb!Caller
<1>2. PICK p \in Usb!PacketSizes : perFrame' = Usb!RoundUp(FrameSize, p)
  BY DEF Usb!Start
<1>3. perFrame' \in Nat \ {0}
  BY <1>2, FrameIsSome
<1>4. /\ phase = "off" /\ status' = [i \in 1 .. NumImages |-> 0]
      /\ data' = [i \in 1 .. NumImages |-> NoData]
      /\ onTime' = [i \in 1 .. NumImages |-> TRUE]
      /\ curIdx' = 0 /\ curOffset' = 0 /\ missed' = FALSE
      /\ next' = [frame |-> next.frame + 1, unit |-> 1]
      /\ workerPc' = workerPc /\ transfer' = transfer
  BY DEF Usb!Start, Usb!Images, Usb!Empty, Usb!Nobody
<1>5. workerPc = "idle"
  BY <1>4 DEF UsbPool
<1>6. UsbTypes'
  <2>1. next' \in UsbUnits /\ next'.unit = 1 /\ 1 \in 1 .. perFrame'
    BY <1>3, <1>4 DEF UsbTypes, UsbUnits
  <2>2. curOffset' \in 0 .. perFrame' - 1
    <3>1. \A n \in Nat \ {0} : 0 \in 0 .. n - 1
      OBVIOUS
    <3> QED
      BY <1>3, <1>4, <3>1
  <2>3. data' \in [1 .. NumImages -> {NoData} \cup [1 .. perFrame' -> UsbUnits \cup {NoData}]]
    BY <1>4
  <2> QED
    BY <1>1, <1>3, <1>4, <2>1, <2>2, <2>3 DEF UsbTypes
<1>7. UsbSync'
  BY <1>4, <1>5 DEF UsbSync
<1>8. UsbInStep'
  <2>1. next'.unit = curOffset' + 1
    BY <1>4
  <2> QED
    BY <1>4, <1>5, <2>1 DEF UsbInStep
<1>9. UsbWhole'
  BY <1>4 DEF UsbWhole
<1> QED
  BY <1>1, <1>6, <1>7, <1>8, <1>9

LEMMA Called ==
  ASSUME UsbFits, UsbInv,
         \/ Usb!Stop \/ Usb!StopCallback \/ Usb!FinishStop
         \/ \E i \in Usb!Images : Usb!GetFrame(i) \/ Usb!ReleaseFrame(i)
  PROVE  UsbInv'
<1> USE DEF UsbInv
<1>1. /\ status' \in [1 .. NumImages -> {-2, -1, 0, 1, 2}] /\ UsbPool'
  BY UsbPoolStays DEF UsbFits, UsbTypes, Usb!Next, Usb!Caller
<1>2. /\ UNCHANGED <<curIdx, curOffset, perFrame, transfer, next, missed, workerPc>>
      /\ phase' # "off" => phase # "off"
      /\ \/ data' = data /\ onTime' = onTime
         \/ /\ phase' = "off" /\ data' = [i \in 1 .. NumImages |-> NoData]
            /\ onTime' = [i \in 1 .. NumImages |-> TRUE]
            /\ status' = [i \in 1 .. NumImages |-> 0]
  BY DEF Usb!Stop, Usb!StopCallback, Usb!FinishStop, Usb!GetFrame, Usb!ReleaseFrame,
         Usb!poolVars, Usb!fillVars, Usb!Images, Usb!Empty
<1>3. UsbTypes'
  BY <1>1, <1>2 DEF UsbTypes
<1>4. UsbSync'
  BY <1>2 DEF UsbSync
<1>5. UsbInStep'
  <2>1. phase' = "off" => UsbInStep'
    BY DEF UsbInStep
  <2>2. phase' # "off" => data' = data
    BY <1>2
  <2> QED
    BY <1>2, <2>1, <2>2 DEF UsbInStep, GoesOn
<1>6. UsbWhole'
  <2>1. ASSUME NEW i \in 1 .. NumImages, data' = data, status'[i] \in {-2, 1, 2}
        PROVE  status[i] \in {-2, 1, 2}
    <3>1. CASE status' = status
      BY <2>1, <3>1
    <3>2. ASSUME NEW j \in 1 .. NumImages, Usb!GetFrame(j) PROVE status[i] \in {-2, 1, 2}
      <4>1. /\ status[j] = 1
            /\ status'[i] = IF i = j THEN -2
                            ELSE IF status[i] >= 1 THEN status[i] - 1 ELSE status[i]
        BY <3>2 DEF Usb!GetFrame, Usb!Taken, Usb!Images, Usb!Lent
      <4>2. status[i] \in {-2, -1, 0, 1, 2}
        BY DEF UsbTypes
      <4> QED
        BY <2>1, <4>1, <4>2
    <3>3. ASSUME NEW j \in 1 .. NumImages, Usb!ReleaseFrame(j) PROVE status[i] \in {-2, 1, 2}
      <4>1. status' = [status EXCEPT ![j] = 0]
        BY <3>3 DEF Usb!ReleaseFrame, Usb!PutBack, Usb!Empty
      <4> QED
        BY <2>1, <4>1 DEF UsbTypes
    <3>4. CASE Usb!FinishStop
      BY <2>1, <3>4 DEF Usb!FinishStop, Usb!Empty, Usb!Images
    <3>5. Usb!Stop \/ Usb!StopCallback => status' = status
      BY DEF Usb!Stop, Usb!StopCallback, Usb!poolVars
    <3> QED
      BY <3>1, <3>2, <3>3, <3>4, <3>5 DEF Usb!Images
  <2>2. CASE data' = data /\ onTime' = onTime
    BY <1>2, <2>1, <2>2 DEF UsbWhole
  <2>3. CASE status' = [i \in 1 .. NumImages |-> 0]
    BY <2>3 DEF UsbWhole
  <2> QED
    BY <1>2, <2>2, <2>3
<1> QED
  BY <1>1, <1>2, <1>3, <1>4, <1>5, <1>6

LEMMA UsbStutters ==
  ASSUME UsbInv, UNCHANGED usbVars
  PROVE  UsbInv'
<1> USE DEF UsbInv
<1>1. UNCHANGED <<status, data, onTime, curIdx, curOffset, perFrame, workerPc, transfer,
                  phase, next, missed>>
  BY DEF usbVars
<1>2. UsbTypes' /\ UsbPool' /\ UsbSync'
  BY <1>1 DEF UsbTypes, UsbPool, UsbSync
<1>3. UsbInStep'
  BY <1>1 DEF UsbInStep, GoesOn
<1>4. UsbWhole'
  BY <1>1 DEF UsbWhole
<1> QED
  BY <1>2, <1>3, <1>4

LEMMA UsbInvInit ==
  ASSUME UsbFits
  PROVE  Usb!Init => UsbInv
<1> SUFFICES ASSUME Usb!Init PROVE UsbInv
  OBVIOUS
<1>1. /\ status = [i \in 1 .. NumImages |-> 0] /\ data = [i \in 1 .. NumImages |-> NoData]
      /\ onTime = [i \in 1 .. NumImages |-> TRUE] /\ curIdx = 0 /\ curOffset = 0
      /\ perFrame = FrameSize /\ workerPc = "idle" /\ phase = "off" /\ missed = FALSE
      /\ next = [frame |-> 0, unit |-> 1]
      /\ transfer = [ok |-> FALSE, units |-> <<>>]
  BY DEF Usb!Init, Usb!Images, Usb!Empty, Usb!Nobody, Usb!Failed
<1>2. FrameSize \in Nat \ {0} /\ NumImages \in Nat
  BY DEF UsbFits
<1>3. transfer \in [ok : BOOLEAN, units : Seq(UsbUnits)]
  <2>1. <<>> \in Seq(UsbUnits)
    OBVIOUS
  <2>2. PICK e \in Seq(UsbUnits) : e = <<>>
    BY <2>1
  <2>3. transfer = [ok |-> FALSE, units |-> e]
    BY <1>1, <2>2
  <2> QED
    BY <2>3
<1>4. next \in UsbUnits /\ next.unit \in 1 .. perFrame
  BY <1>1, <1>2 DEF UsbUnits
<1>5. curOffset \in 0 .. perFrame - 1 /\ curIdx \in 0 .. NumImages
  BY <1>1, <1>2
<1>6. UsbTypes
  BY <1>1, <1>2, <1>3, <1>4, <1>5 DEF UsbTypes
<1> QED
  BY <1>1, <1>6 DEF UsbInv, UsbPool, UsbSync, UsbInStep, UsbWhole

LEMMA UsbInvStep ==
  ASSUME UsbFits
  PROVE  UsbInv /\ [Usb!Next]_usbVars => UsbInv'
BY CallbackStarts, PartCopied, LastCopied, RestCopied, TransferLeft, Restarted, Called,
   UsbStutters DEF Usb!Next, Usb!Callback, Usb!Caller

\* What the camera driver keeps, whatever the camera sends and the caller holds.
LEMMA FramesStayWhole ==
  ASSUME UsbFits
  PROVE  Usb!Init /\ [][Usb!Next]_usbVars => [](Usb!QueueIsShort /\ Usb!FramesAreWhole)
<1>1. UsbInv => Usb!QueueIsShort /\ Usb!FramesAreWhole
  <2> SUFFICES ASSUME UsbInv PROVE Usb!QueueIsShort /\ Usb!FramesAreWhole
    OBVIOUS
  <2>1. Usb!QueueIsShort
    BY PoolIsShort DEF UsbInv, UsbFits, UsbTypes
  <2>2. ASSUME NEW i \in 1 .. NumImages, status[i] > 0 \/ status[i] = -2, onTime[i]
        PROVE  Usb!Whole(data[i])
    <3>1. status[i] \in {-2, 1, 2} /\ perFrame \in Nat \ {0}
      BY <2>2 DEF UsbInv, UsbTypes
    <3>2. PICK f \in Nat : Filled(data[i], perFrame, f)
      BY <2>2, <3>1 DEF UsbInv, UsbWhole
    <3>3. \A k \in 1 .. perFrame : data[i][k] = [frame |-> f, unit |-> k]
      BY <3>1, <3>2 DEF Filled
    <3>4. data[i][1].frame = f
      <4>1. 1 \in 1 .. perFrame
        BY <3>1
      <4>2. data[i][1] = [frame |-> f, unit |-> 1]
        BY <3>3, <4>1
      <4> QED
        BY <4>2
    <3> QED
      BY <3>3, <3>4 DEF Usb!Whole
  <2>3. Usb!FramesAreWhole
    BY <2>2 DEF Usb!FramesAreWhole, Usb!Images, Usb!Lent
  <2> QED
    BY <2>1, <2>3
<1> QED
  BY <1>1, UsbInvInit, UsbInvStep, PTL

\* What follows is about the order of the frames.  An image has its first unit, ...
HasFirst(d) == d # NoData /\ d[1] \in UsbUnits /\ d[1].unit >= 1

\* ... the images that wait and the last one lent are older than frame f, ...
Before(f) ==
  /\ usbLast < f
  /\ \A i \in 1 .. NumImages : status[i] \in {1, 2} => data[i][1].frame < f

\* ... and the current one, if it was begun, has its first unit from at least as far back as
\* it is filled: unit u of frame f comes next.
AheadOf(f, u) ==
  /\ Before(f)
  /\ curOffset > 0 =>
       /\ HasFirst(data[curIdx]) /\ Before(data[curIdx][1].frame)
       /\ \/ data[curIdx][1].frame < f
          \/ data[curIdx][1].frame = f /\ data[curIdx][1].unit + curOffset <= u

\* Units are consecutive, from unit u of frame f up to the camera's next one.
UnitsFrom(f, u) ==
  /\ \A k \in 1 .. Len(transfer.units) :
       transfer.units[k] = [frame |-> f, unit |-> (u + k) - 1]
  /\ u + Len(transfer.units) <= perFrame + 1
  /\ f < next.frame \/ (f = next.frame /\ u + Len(transfer.units) = next.unit)

\* The images that wait are in the order of their frames, after the last one lent.
ReadyInOrder ==
  /\ \A i \in 1 .. NumImages :
       status[i] \in {1, 2} => HasFirst(data[i]) /\ usbLast < data[i][1].frame
  /\ \A i, j \in 1 .. NumImages :
       status[i] = 1 /\ status[j] = 2 => data[i][1].frame < data[j][1].frame

\* What comes is newer than all there is, wherever the callback stands.
ComesNewer ==
  /\ workerPc \in {"idle", "resubmit"} => AheadOf(next.frame, next.unit)
  /\ workerPc = "copy" =>
       \E f \in Nat, u \in Nat \ {0} :
         /\ AheadOf(f, u)
         /\ IF transfer.ok THEN UnitsFrom(f, u) ELSE f = next.frame /\ u = next.unit
  /\ workerPc = "rest" =>
       \E f \in Nat, u \in Nat \ {0} :
         /\ UnitsFrom(f, u)
         /\ Before(IF Usb!CopySize < Len(transfer.units) THEN f ELSE next.frame)

UsbOrder ==
  /\ usbLast \in Nat
  /\ curIdx = 0 => curOffset = 0
  /\ phase = "stopping" => \A i \in 1 .. NumImages : status[i] # -2
  /\ phase = "off" => usbLast <= next.frame
  /\ phase # "off" => ReadyInOrder /\ ComesNewer

\* A step takes images out of those that wait, the one with number 1 to be lent, if any.
Thins ==
  /\ \/ usbLast' = usbLast
     \/ \E i \in 1 .. NumImages : status[i] = 1 /\ usbLast' = data[i][1].frame
  /\ \A i \in 1 .. NumImages :
       status'[i] \in {1, 2} => status[i] \in {1, 2} /\ data'[i] = data[i]

LEMMA BeforeStays ==
  ASSUME Thins, NEW f, Before(f)
  PROVE  Before(f)'
BY DEF Thins, Before

\* What is older than frame f is older than the next ones.
LEMMA AheadGrows ==
  ASSUME UsbTypes, UsbOrder, phase # "off", NEW f \in Nat, NEW u \in Nat, AheadOf(f, u),
         NEW g \in Nat, NEW v \in Nat, f < g \/ (f = g /\ u <= v)
  PROVE  AheadOf(g, v)
<1>1. Before(g)
  <2>1. \A i \in 1 .. NumImages :
          status[i] \in {1, 2} => data[i][1].frame \in Nat /\ data[i][1].frame < f
    BY DEF AheadOf, Before, UsbOrder, ReadyInOrder, HasFirst, UsbUnits
  <2>2. usbLast \in Nat /\ usbLast < f
    BY DEF UsbOrder, AheadOf, Before
  <2> QED
    BY <2>1, <2>2 DEF Before
<1>2. ASSUME curOffset > 0
      PROVE  \/ data[curIdx][1].frame < g
             \/ data[curIdx][1].frame = g /\ data[curIdx][1].unit + curOffset <= v
  <2>1. PICK a \in Nat, b \in Nat : a = data[curIdx][1].frame /\ b = data[curIdx][1].unit
    BY <1>2 DEF AheadOf, HasFirst, UsbUnits
  <2>2. a < f \/ (a = f /\ b + curOffset <= u)
    BY <1>2, <2>1 DEF AheadOf
  <2>3. PICK o \in Nat : o = curOffset
    BY DEF UsbTypes
  <2>4. a < g \/ (a = g /\ b + o <= v)
    BY <2>2, <2>3
  <2> QED
    BY <2>1, <2>3, <2>4
<1> QED
  BY <1>1, <1>2 DEF AheadOf

LEMMA AheadStays ==
  ASSUME Thins, NEW f, NEW u, AheadOf(f, u),
         curOffset' > 0 => /\ curOffset' = curOffset /\ curIdx' = curIdx
                           /\ data'[curIdx] = data[curIdx]
  PROVE  AheadOf(f, u)'
<1>1. Before(f)'
  BY BeforeStays DEF AheadOf
<1>2. ASSUME curOffset' > 0
      PROVE  /\ HasFirst(data[curIdx])' /\ Before(data[curIdx][1].frame)'
             /\ \/ data'[curIdx'][1].frame < f
                \/ data'[curIdx'][1].frame = f /\ data'[curIdx'][1].unit + curOffset' <= u
  <2>1. PICK g : g = data[curIdx][1].frame
    OBVIOUS
  <2>2. Before(g)
    BY <1>2, <2>1 DEF AheadOf
  <2>3. Before(g)'
    BY <2>2, BeforeStays
  <2>4. data'[curIdx'] = data[curIdx] /\ curOffset' = curOffset /\ curOffset > 0
    BY <1>2
  <2>5. usbLast' < g /\ \A i \in 1 .. NumImages : status'[i] \in {1, 2} => data'[i][1].frame < g
    BY <2>3 DEF Before
  <2>6. Before(data[curIdx][1].frame)'
    BY <2>1, <2>4, <2>5 DEF Before
  <2> QED
    BY <2>4, <2>6 DEF AheadOf, HasFirst
<1> QED
  BY <1>1, <1>2 DEF AheadOf

\* The pool changes, and the callback stays where it is.
LEMMA ComesStays ==
  ASSUME Thins, UNCHANGED <<data, curIdx, curOffset, perFrame, workerPc, transfer, next>>,
         ComesNewer
  PROVE  ComesNewer'
<1>1. \A f, u : AheadOf(f, u) => AheadOf(f, u)'
  <2>1. ASSUME NEW f, NEW u, AheadOf(f, u) PROVE AheadOf(f, u)'
    BY <2>1, AheadStays
  <2> QED
    BY <2>1
<1>2. \A f : Before(f) => Before(f)'
  <2>1. ASSUME NEW f, Before(f) PROVE Before(f)'
    BY <2>1, BeforeStays
  <2> QED
    BY <2>1
<1>3. \A f, u : UnitsFrom(f, u)' <=> UnitsFrom(f, u)
  BY DEF UnitsFrom
<1>4. Usb!CopySize' = Usb!CopySize
  BY DEF Usb!CopySize, Usb!Room
<1>5. workerPc \in {"idle", "resubmit"} => AheadOf(next.frame, next.unit)'
  <2>1. PICK f, u : f = next.frame /\ u = next.unit
    OBVIOUS
  <2>2. next' = next
    OBVIOUS
  <2>3. AheadOf(f, u)' => AheadOf(next.frame, next.unit)'
    BY <2>1, <2>2 DEF AheadOf, Before
  <2>4. workerPc \in {"idle", "resubmit"} => AheadOf(f, u)
    BY <2>1 DEF ComesNewer
  <2> QED
    BY <1>1, <2>3, <2>4
<1>6. ASSUME workerPc = "copy"
      PROVE  \E f \in Nat, u \in Nat \ {0} :
               AheadOf(f, u)' /\ IF transfer.ok THEN UnitsFrom(f, u)'
                                 ELSE f = next.frame /\ u = next.unit
  <2>1. PICK f \in Nat, u \in Nat \ {0} :
          AheadOf(f, u) /\ IF transfer.ok THEN UnitsFrom(f, u)
                           ELSE f = next.frame /\ u = next.unit
    BY <1>6 DEF ComesNewer
  <2> QED
    BY <1>1, <1>3, <2>1
<1>7. ASSUME workerPc = "rest"
      PROVE  \E f \in Nat, u \in Nat \ {0} :
               UnitsFrom(f, u)' /\ Before(IF Usb!CopySize < Len(transfer.units) THEN f
                                          ELSE next.frame)'
  <2>1. PICK f \in Nat, u \in Nat \ {0} :
          /\ UnitsFrom(f, u)
          /\ Before(IF Usb!CopySize < Len(transfer.units) THEN f ELSE next.frame)
    BY <1>7 DEF ComesNewer
  <2>2. PICK g : g = IF Usb!CopySize < Len(transfer.units) THEN f ELSE next.frame
    OBVIOUS
  <2>3. Before(g)'
    BY <1>2, <2>1, <2>2
  <2>4. Before(IF Usb!CopySize < Len(transfer.units) THEN f ELSE next.frame)'
    BY <1>4, <2>2, <2>3 DEF Before
  <2> QED
    BY <1>3, <2>1, <2>4
<1> QED
  BY <1>5, <1>6, <1>7 DEF ComesNewer

\* The caller's steps.
LEMMA CallKeepsOrder ==
  ASSUME UsbFits, UsbInv, UsbOrder,
         \/ Usb!Stop \/ Usb!StopCallback
         \/ \E i \in Usb!Images : Usb!GetFrame(i) \/ Usb!ReleaseFrame(i)
  PROVE  UsbOrder'
<1>1. UNCHANGED <<data, curIdx, curOffset, perFrame, workerPc, transfer, next>>
  BY DEF Usb!Stop, Usb!StopCallback, Usb!GetFrame, Usb!ReleaseFrame, Usb!poolVars, Usb!fillVars
<1>2. CASE Usb!Stop \/ Usb!StopCallback
  <2>1. UNCHANGED <<status, usbLast>> /\ phase # "off" /\ phase' # "off"
    BY <1>2 DEF Usb!Stop, Usb!StopCallback, Usb!poolVars
  <2>2. Thins
    BY <1>1, <2>1 DEF Thins
  <2>3. ComesNewer' /\ ReadyInOrder'
    BY <1>1, <2>1, <2>2, ComesStays DEF UsbOrder, ReadyInOrder
  <2>4. \A i \in 1 .. NumImages : status[i] # -2
    BY <1>2, <2>1 DEF Usb!Stop, Usb!StopCallback, Usb!Images, Usb!Lent, UsbOrder
  <2> QED
    BY <1>1, <2>1, <2>3, <2>4 DEF UsbOrder
<1>3. ASSUME NEW i \in 1 .. NumImages, Usb!GetFrame(i)
      PROVE  UsbOrder'
  <2>1. /\ status[i] = 1 /\ usbLast' = data[i][1].frame /\ phase = "on" /\ phase' = "on"
        /\ \A j \in 1 .. NumImages :
             status'[j] = IF j = i THEN -2
                          ELSE IF status[j] >= 1 THEN status[j] - 1 ELSE status[j]
    BY <1>3 DEF Usb!GetFrame, Usb!Taken, Usb!Images, Usb!Lent
  <2>2. \A j \in 1 .. NumImages : status'[j] \in {1, 2} => status[j] = 2 /\ status'[j] = 1
    <3>1. ASSUME NEW j \in 1 .. NumImages, status'[j] \in {1, 2}
          PROVE  status[j] = 2 /\ status'[j] = 1
      <4>1. j # i /\ status[j] \in {-2, -1, 0, 1, 2}
        BY <2>1, <3>1 DEF UsbInv, UsbTypes
      <4>2. status[j] # 1
        BY <2>1, <4>1 DEF UsbInv, UsbPool
      <4> QED
        BY <2>1, <3>1, <4>1, <4>2
    <3> QED
      BY <3>1
  <2>3. Thins
    BY <1>1, <2>1, <2>2 DEF Thins
  <2>4. ComesNewer'
    BY <1>1, <2>1, <2>3, ComesStays DEF UsbOrder
  <2>5. ReadyInOrder /\ usbLast' \in Nat
    BY <2>1 DEF UsbOrder, ReadyInOrder, HasFirst, UsbUnits
  <2>6. ReadyInOrder'
    BY <1>1, <2>1, <2>2, <2>5 DEF ReadyInOrder
  <2> QED
    BY <1>1, <2>1, <2>4, <2>5, <2>6 DEF UsbOrder
<1>4. ASSUME NEW i \in 1 .. NumImages, Usb!ReleaseFrame(i)
      PROVE  UsbOrder'
  <2>1. /\ status[i] = -2 /\ usbLast' = usbLast /\ phase' = phase
        /\ \A j \in 1 .. NumImages : status'[j] = IF j = i THEN 0 ELSE status[j]
    BY <1>4 DEF Usb!ReleaseFrame, Usb!PutBack, Usb!Empty, Usb!Lent, UsbInv, UsbTypes
  <2>2. \A j \in 1 .. NumImages : status'[j] \in {1, 2} => status[j] = status'[j]
    BY <2>1
  <2>3. Thins
    BY <1>1, <2>1, <2>2 DEF Thins
  <2>4. phase # "off" => ComesNewer'
    BY <1>1, <2>1, <2>3, ComesStays DEF UsbOrder
  <2>5. phase # "off" => ReadyInOrder'
    BY <1>1, <2>1, <2>2 DEF ReadyInOrder, UsbOrder
  <2>6. phase = "stopping" => \A j \in 1 .. NumImages : status'[j] # -2
    BY <2>1 DEF UsbOrder
  <2> QED
    BY <1>1, <2>1, <2>4, <2>5, <2>6 DEF UsbOrder
<1> QED
  BY <1>2, <1>3, <1>4 DEF Usb!Images

\* The camera starts and stops.
LEMMA StartKeepsOrder ==
  ASSUME UsbFits, UsbInv, UsbOrder, Usb!Start \/ Usb!FinishStop
  PROVE  UsbOrder'
<1>1. workerPc = "idle" /\ workerPc' = workerPc /\ usbLast' = usbLast /\ next.frame \in Nat
  BY DEF Usb!Start, Usb!FinishStop, UsbInv, UsbPool, UsbTypes, UsbUnits
<1>2. CASE Usb!Start
  <2>1. /\ phase = "off" /\ phase' = "on" /\ curIdx' = 0 /\ curOffset' = 0
        /\ \A i \in 1 .. NumImages : status'[i] = 0
        /\ next' = [frame |-> next.frame + 1, unit |-> 1]
    BY <1>2 DEF Usb!Start, Usb!Images, Usb!Empty, Usb!Nobody
  <2>2. usbLast' < next.frame + 1 /\ usbLast' \in Nat /\ next'.frame = next.frame + 1
    BY <1>1, <2>1 DEF UsbOrder
  <2>3. Before(next.frame)'
    BY <2>1, <2>2 DEF Before
  <2>4. AheadOf(next.frame, next.unit)'
    BY <2>1, <2>3 DEF AheadOf
  <2>5. ComesNewer' /\ ReadyInOrder'
    BY <1>1, <2>1, <2>4 DEF ComesNewer, ReadyInOrder
  <2> QED
    BY <2>1, <2>2, <2>5 DEF UsbOrder
<1>3. CASE Usb!FinishStop
  <2>1. phase = "stopping" /\ phase' = "off" /\ UNCHANGED <<curIdx, curOffset, next>>
    BY <1>3 DEF Usb!FinishStop, Usb!fillVars
  <2>2. usbLast < next.frame
    BY <1>1, <2>1 DEF UsbOrder, ComesNewer, AheadOf, Before
  <2>3. usbLast' <= next'.frame
    BY <1>1, <2>1, <2>2 DEF UsbOrder
  <2> QED
    BY <1>1, <2>1, <2>3 DEF UsbOrder
<1> QED
  BY <1>2, <1>3

\* The units of the transfer end at the camera's next one.
LEMMA UnitsEnd ==
  ASSUME UsbTypes, NEW f \in Nat, NEW u \in Nat \ {0}, UnitsFrom(f, u)
  PROVE  /\ f < next.frame \/ (f = next.frame /\ u + Len(transfer.units) = next.unit)
         /\ f < next.frame \/ (f = next.frame /\ u <= next.unit)
         /\ next.frame \in Nat /\ next.unit \in Nat /\ Len(transfer.units) \in Nat
<1>1. Len(transfer.units) \in Nat /\ next.frame \in Nat /\ next.unit \in Nat
  BY DEF UsbTypes, UsbUnits
<1> QED
  BY <1>1 DEF UnitsFrom

LEMMA LeavingKeepsOrder ==
  ASSUME UsbFits, UsbInv, UsbOrder, Usb!Drop \/ Usb!Resubmit
  PROVE  UsbOrder'
<1>1. /\ UNCHANGED <<status, data, onTime, curIdx, curOffset, perFrame, phase, next, usbLast>>
      /\ workerPc' \in {"idle", "resubmit"} /\ workerPc \in {"copy", "resubmit"}
  BY DEF Usb!Drop, Usb!Resubmit, Usb!poolVars, Usb!fillVars
<1>2. phase # "off"
  BY <1>1 DEF UsbInv, UsbPool
<1>3. AheadOf(next.frame, next.unit)
  <2>1. ASSUME workerPc = "copy" PROVE AheadOf(next.frame, next.unit)
    <3>1. PICK f \in Nat, u \in Nat \ {0} :
            AheadOf(f, u) /\ IF transfer.ok THEN UnitsFrom(f, u)
                             ELSE f = next.frame /\ u = next.unit
      BY <1>2, <2>1 DEF UsbOrder, ComesNewer
    <3>2. PICK g \in Nat, v \in Nat : g = next.frame /\ v = next.unit
      BY DEF UsbInv, UsbTypes, UsbUnits
    <3>3. f < g \/ (f = g /\ u <= v)
      BY <3>1, <3>2, UnitsEnd DEF UsbInv
    <3>4. AheadOf(g, v)
      BY <1>2, <3>1, <3>3, AheadGrows DEF UsbInv
    <3> QED
      BY <3>2, <3>4
  <2> QED
    BY <1>1, <1>2, <2>1 DEF UsbOrder, ComesNewer
<1>4. AheadOf(next.frame, next.unit)'
  BY <1>1, <1>3 DEF AheadOf, Before, HasFirst
<1>5. ComesNewer' /\ ReadyInOrder'
  BY <1>1, <1>2, <1>4 DEF ComesNewer, ReadyInOrder, UsbOrder
<1> QED
  BY <1>1, <1>5 DEF UsbOrder

\* get_empty_frame, when no image is being filled, takes images out of those that wait.
LEMMA EmptyThins ==
  ASSUME UsbFits, UsbTypes, UsbPool, \A i \in 1 .. NumImages : status[i] # -1,
         Usb!GetEmptyFrame, usbLast' = usbLast,
         \A i \in 1 .. NumImages : i # curIdx' => data'[i] = data[i]
  PROVE  /\ Thins
         /\ \A i \in 1 .. NumImages : status'[i] # 2
         /\ \A i \in 1 .. NumImages : status'[i] = -2 => status[i] = -2
<1>1. \A i, j \in 1 .. NumImages : status[i] > 0 /\ status[i] = status[j] => i = j
  BY DEF UsbPool
<1>2. /\ status' \in [1 .. NumImages -> {-2, -1, 0, 1}]
      /\ \A i \in 1 .. NumImages : status'[i] = -1 <=> i = curIdx'
      /\ \A i \in 1 .. NumImages : status'[i] = 1 => status[i] > 0
      /\ \A i \in 1 .. NumImages : status'[i] = -2 => status[i] = -2
  BY <1>1, EmptyTaken DEF UsbTypes, UsbFits
<1>3. ASSUME NEW i \in 1 .. NumImages, status'[i] \in {1, 2}
      PROVE  status[i] \in {1, 2} /\ data'[i] = data[i]
  <2>1. status'[i] = 1 /\ status[i] \in {-2, -1, 0, 1, 2}
    BY <1>2, <1>3 DEF UsbTypes
  <2> QED
    BY <1>2, <2>1
<1>4. \A i \in 1 .. NumImages : status'[i] # 2
  BY <1>2
<1> QED
  BY <1>2, <1>3, <1>4 DEF Thins

\* ... and leaves those that wait in order.
LEMMA EmptyKeepsReady ==
  ASSUME UsbOrder, phase # "off", Thins, usbLast' = usbLast,
         \A i \in 1 .. NumImages : status'[i] # 2
  PROVE  ReadyInOrder'
<1>1. \A i \in 1 .. NumImages :
        status'[i] \in {1, 2} => HasFirst(data'[i]) /\ usbLast' < data'[i][1].frame
  BY DEF UsbOrder, Thins, ReadyInOrder
<1> QED
  BY <1>1 DEF ReadyInOrder, HasFirst

LEMMA CallbackStartsInOrder ==
  ASSUME UsbFits, UsbInv, UsbOrder, Usb!CallbackStart
  PROVE  UsbOrder'
<1>1. /\ workerPc = "idle" /\ phase # "off" /\ workerPc' = "copy" /\ Usb!Outcome
      /\ IF curIdx = 0 THEN Usb!GetEmptyFrame ELSE UNCHANGED <<status, curIdx>>
      /\ UNCHANGED <<data, onTime, curOffset, perFrame, phase, missed, usbLast>>
  BY DEF Usb!CallbackStart, Usb!Nobody
<1>2. PICK n \in 1 .. perFrame :
        /\ Len(Usb!Sent) = n
        /\ \A k \in 1 .. n :
             Usb!Sent[k] = [frame |-> next.frame, unit |-> (next.unit + k) - 1]
        /\ next.unit + n <= perFrame + 1
        /\ Usb!After(Usb!Sent[Len(Usb!Sent)])
             = IF next.unit + n = perFrame + 1 THEN [frame |-> next.frame + 1, unit |-> 1]
               ELSE [frame |-> next.frame, unit |-> next.unit + n]
  BY SentIs DEF UsbFits, UsbInv, UsbTypes
<1>3. PICK f \in Nat, u \in Nat \ {0} : f = next.frame /\ u = next.unit
  BY DEF UsbInv, UsbTypes, UsbUnits
<1>4. AheadOf(f, u)
  BY <1>1, <1>3 DEF UsbOrder, ComesNewer
<1>5. perFrame \in Nat \ {0} /\ curOffset \in Nat
  BY DEF UsbInv, UsbTypes
<1>6. /\ Thins
      /\ \A i \in 1 .. NumImages : status'[i] = -2 => status[i] = -2
      /\ ReadyInOrder'
      /\ curOffset' > 0 => curIdx' = curIdx
  <2>1. CASE curIdx = 0
    <3>1. \A i \in 1 .. NumImages : status[i] # -1
      BY <2>1 DEF UsbInv, UsbPool
    <3>2. /\ Thins /\ \A i \in 1 .. NumImages : status'[i] # 2
          /\ \A i \in 1 .. NumImages : status'[i] = -2 => status[i] = -2
      BY <1>1, <2>1, <3>1, EmptyThins DEF UsbInv
    <3>3. ReadyInOrder'
      BY <1>1, <3>2, EmptyKeepsReady
    <3>4. ~ (curOffset' > 0)
      BY <1>1, <2>1 DEF UsbOrder
    <3> QED
      BY <3>2, <3>3, <3>4
  <2>2. CASE curIdx # 0
    <3>1. UNCHANGED <<status, curIdx>>
      BY <1>1, <2>2
    <3>2. Thins
      BY <1>1, <3>1 DEF Thins
    <3>3. ReadyInOrder'
      BY <1>1, <3>1 DEF UsbOrder, ReadyInOrder
    <3> QED
      BY <3>1, <3>2, <3>3
  <2> QED
    BY <2>1, <2>2
<1>7. \A g, v : AheadOf(g, v) => AheadOf(g, v)'
  <2>1. ASSUME NEW g, NEW v, AheadOf(g, v) PROVE AheadOf(g, v)'
    BY <1>1, <1>6, <2>1, AheadStays
  <2> QED
    BY <2>1
<1>8. /\ f < f + 1 /\ f + 1 \in Nat /\ u + n \in Nat \ {0} /\ u <= u + n
  BY <1>3, <1>5
<1>9. \/ transfer' = [ok |-> TRUE, units |-> Usb!Sent]
         /\ (f < next'.frame \/ (f = next'.frame /\ u + n = next'.unit))
      \/ /\ transfer' = [ok |-> FALSE, units |-> <<>>]
         /\ \E g \in Nat, v \in Nat \ {0} :
              g = next'.frame /\ v = next'.unit /\ (f < g \/ (f = g /\ u <= v))
      \/ /\ transfer' = [ok |-> TRUE, units |-> <<>>]
         /\ next' = [frame |-> f + 1, unit |-> 1]
  <2>1. \/ transfer' = [ok |-> TRUE, units |-> Usb!Sent]
           /\ next' = Usb!After(Usb!Sent[Len(Usb!Sent)])
        \/ /\ transfer' = [ok |-> FALSE, units |-> <<>>]
           /\ next' \in {Usb!After(Usb!Sent[Len(Usb!Sent)]), next}
        \/ /\ transfer' = [ok |-> TRUE, units |-> <<>>]
           /\ next' = [frame |-> f + 1, unit |-> 1]
    BY <1>1, <1>3 DEF Usb!Outcome, Usb!Delivered, Usb!NoUnits, Usb!Failed
  <2>2. PICK a \in {[frame |-> f + 1, unit |-> 1], [frame |-> f, unit |-> u + n]} :
          a = Usb!After(Usb!Sent[Len(Usb!Sent)])
    BY <1>2, <1>3
  <2>3. /\ f < a.frame \/ (f = a.frame /\ u + n = a.unit)
        /\ a.frame \in Nat /\ a.unit \in Nat \ {0}
        /\ f < a.frame \/ (f = a.frame /\ u <= a.unit)
    BY <1>8, <2>2
  <2>4. \E g \in Nat, v \in Nat \ {0} :
          g = a.frame /\ v = a.unit /\ (f < g \/ (f = g /\ u <= v))
    BY <2>3
  <2>5. \E g \in Nat, v \in Nat \ {0} :
          g = next.frame /\ v = next.unit /\ (f < g \/ (f = g /\ u <= v))
    BY <1>3
  <2>6. /\ next' = a => \E g \in Nat, v \in Nat \ {0} :
             g = next'.frame /\ v = next'.unit /\ (f < g \/ (f = g /\ u <= v))
        /\ next' = next => \E g \in Nat, v \in Nat \ {0} :
             g = next'.frame /\ v = next'.unit /\ (f < g \/ (f = g /\ u <= v))
    BY <2>4, <2>5
  <2> QED
    BY <2>1, <2>2, <2>3, <2>6
<1>10. \E g \in Nat, v \in Nat \ {0} :
         AheadOf(g, v)' /\ IF transfer'.ok THEN UnitsFrom(g, v)'
                           ELSE g = next'.frame /\ v = next'.unit
  <2>1. CASE transfer' = [ok |-> TRUE, units |-> Usb!Sent]
             /\ (f < next'.frame \/ (f = next'.frame /\ u + n = next'.unit))
    <3>1. Len(transfer'.units) = n /\ transfer'.units = Usb!Sent /\ transfer'.ok
      BY <1>2, <2>1
    <3>2. UnitsFrom(f, u)'
      BY <1>1, <1>2, <1>3, <2>1, <3>1 DEF UnitsFrom
    <3> QED
      BY <1>4, <1>7, <3>1, <3>2
  <2>2. ASSUME transfer' = [ok |-> FALSE, units |-> <<>>],
               NEW g \in Nat, NEW v \in Nat \ {0},
               g = next'.frame, v = next'.unit, f < g \/ (f = g /\ u <= v)
        PROVE  \E h \in Nat, w \in Nat \ {0} :
                 AheadOf(h, w)' /\ IF transfer'.ok THEN UnitsFrom(h, w)'
                                   ELSE h = next'.frame /\ w = next'.unit
    <3>1. AheadOf(g, v)
      BY <1>1, <1>4, <2>2, AheadGrows DEF UsbInv
    <3>2. AheadOf(g, v)' /\ ~transfer'.ok
      BY <1>7, <2>2, <3>1
    <3> QED
      BY <2>2, <3>2
  <2>3. CASE transfer' = [ok |-> TRUE, units |-> <<>>] /\ next' = [frame |-> f + 1, unit |-> 1]
    <3>1. PICK g \in Nat : g = f + 1
      BY <1>8
    <3>2. AheadOf(g, 1)
      BY <1>1, <1>4, <3>1, AheadGrows DEF UsbInv
    <3>3. Len(transfer'.units) = 0 /\ transfer'.ok /\ next'.frame = g /\ next'.unit = 1
      BY <2>3, <3>1
    <3>4. UnitsFrom(g, 1)'
      BY <1>1, <1>5, <3>3 DEF UnitsFrom
    <3>5. 1 \in Nat \ {0} /\ AheadOf(g, 1)'
      BY <1>7, <3>2
    <3> QED
      BY <3>3, <3>4, <3>5
  <2> QED
    BY <1>9, <2>1, <2>2, <2>3
<1>11. ComesNewer'
  BY <1>1, <1>10 DEF ComesNewer
<1>12. curIdx' = 0 => curOffset' = 0
  <2>1. CASE curIdx = 0
    BY <1>1, <2>1 DEF UsbOrder
  <2>2. CASE curIdx # 0
    BY <1>1, <2>2
  <2> QED
    BY <2>1, <2>2
<1> QED
  BY <1>1, <1>6, <1>11, <1>12 DEF UsbOrder

\* What is copied behind what the image holds leaves its first unit alone.
LEMMA FirstStays ==
  ASSUME UsbFits, perFrame \in Nat \ {0},
         NEW old \in {NoData} \cup [1 .. perFrame -> UsbUnits \cup {NoData}],
         NEW o \in 0 .. perFrame - 1, NEW units \in Seq(UsbUnits), o + Len(units) <= perFrame
  PROVE  /\ Usb!Written(old, o, units) # NoData
         /\ o = 0 /\ Len(units) > 0 => Usb!Written(old, o, units)[1] = units[1]
         /\ o > 0 /\ old # NoData => Usb!Written(old, o, units)[1] = old[1]
<1>1. 1 \in 1 .. perFrame /\ (o > 0 => 1 \notin o + 1 .. o + Len(units))
      /\ (o = 0 /\ Len(units) > 0 => 1 \in o + 1 .. o + Len(units) /\ 1 - o = 1)
  OBVIOUS
<1>2. Usb!Written(old, o, units)[1] =
        IF 1 \in o + 1 .. o + Len(units) THEN units[1 - o]
        ELSE IF old = NoData THEN NoData ELSE old[1]
  BY <1>1 DEF Usb!Written
<1>3. Usb!Written(old, o, units) # NoData
  <2>1. Usb!Written(old, o, units) \in [1 .. perFrame -> UsbUnits \cup {NoData}]
    BY WrittenIs
  <2> QED
    BY <2>1 DEF UsbFits, UsbUnits
<1> QED
  BY <1>1, <1>2, <1>3

LEMMA PartCopiedInOrder ==
  ASSUME UsbFits, UsbInv, UsbOrder, Usb!CopyPart
  PROVE  UsbOrder'
<1> DEFINE o == curOffset
           n == Len(transfer.units)
           w == Usb!Written(data[curIdx], o, transfer.units)
<1>1. /\ workerPc = "copy" /\ workerPc' = "resubmit" /\ transfer.ok /\ curIdx # 0
      /\ data' = [data EXCEPT ![curIdx] = w] /\ Usb!CopySize < perFrame - o
      /\ curOffset' = IF n # TransferSize THEN 0 ELSE o + Usb!CopySize
      /\ UNCHANGED <<status, curIdx, perFrame, transfer, phase, next, usbLast>>
  BY DEF Usb!CopyPart, Usb!Nobody, Usb!IsShort, Usb!OffsetAfter, Usb!Room
<1>2. /\ perFrame \in Nat \ {0} /\ o \in 0 .. perFrame - 1 /\ n \in Nat
      /\ transfer.units \in Seq(UsbUnits) /\ curIdx \in 1 .. NumImages
      /\ data \in [1 .. NumImages -> {NoData} \cup [1 .. perFrame -> UsbUnits \cup {NoData}]]
      /\ TransferSize \in Nat \ {0} /\ phase # "off"
  BY <1>1 DEF UsbInv, UsbTypes, UsbPool, UsbFits
<1>3. Usb!CopySize = n /\ o + n <= perFrame
  <2>1. Usb!CopySize = IF perFrame - o <= n THEN perFrame - o ELSE n
    BY <1>2, MinOfTwo DEF Usb!CopySize, Usb!Room
  <2> QED
    BY <1>1, <1>2, <2>1
<1>4. PICK f \in Nat, u \in Nat \ {0} : AheadOf(f, u) /\ UnitsFrom(f, u)
  BY <1>1, <1>2 DEF UsbOrder, ComesNewer
<1>5. PICK g \in Nat, v \in Nat : g = next.frame /\ v = next.unit
  BY DEF UsbInv, UsbTypes, UsbUnits
<1>6. (f < g \/ (f = g /\ u + n = v)) /\ (f < g \/ (f = g /\ u <= v))
  BY <1>4, <1>5, UnitsEnd DEF UsbInv
<1>7. AheadOf(g, v)
  BY <1>2, <1>4, <1>6, AheadGrows DEF UsbInv
<1>8. \A i \in 1 .. NumImages : i # curIdx => data'[i] = data[i]
  BY <1>1, <1>2
<1>9. \A i \in 1 .. NumImages : status[i] \in {1, 2} => i # curIdx
  <2>1. status[curIdx] = -1
    BY <1>1, <1>2 DEF UsbInv, UsbPool
  <2> QED
    BY <2>1
<1>10. \A h : Before(h)' <=> Before(h)
  BY <1>1, <1>8, <1>9 DEF Before
<1>11. /\ w # NoData
       /\ o = 0 /\ n > 0 => w[1] = transfer.units[1]
       /\ o > 0 /\ data[curIdx] # NoData => w[1] = data[curIdx][1]
  <2>1. PICK old \in {NoData} \cup [1 .. perFrame -> UsbUnits \cup {NoData}],
             p \in 0 .. perFrame - 1 : old = data[curIdx] /\ p = curOffset
    BY <1>2
  <2>2. p + Len(transfer.units) <= perFrame
    BY <1>3, <2>1
  <2>3. /\ Usb!Written(old, p, transfer.units) # NoData
        /\ p = 0 /\ n > 0 => Usb!Written(old, p, transfer.units)[1] = transfer.units[1]
        /\ p > 0 /\ old # NoData => Usb!Written(old, p, transfer.units)[1] = old[1]
    BY <1>2, <2>2, FirstStays
  <2> QED
    BY <2>1, <2>3
<1>12. PICK d : d = w
  OBVIOUS
<1>13. data'[curIdx] = d
  BY <1>1, <1>2, <1>12
<1> HIDE DEF w
<1>14. ASSUME curOffset' > 0
       PROVE  /\ HasFirst(d) /\ Before(d[1].frame)
              /\ d[1].frame < g \/ (d[1].frame = g /\ d[1].unit + curOffset' <= v)
  <2>1. n = TransferSize /\ n > 0 /\ curOffset' = o + n
    BY <1>1, <1>2, <1>3, <1>14
  <2>2. CASE o = 0
    <3>1. transfer.units[1] = [frame |-> f, unit |-> (u + 1) - 1] /\ (u + 1) - 1 = u
      BY <1>2, <1>4, <2>1 DEF UnitsFrom
    <3>2. d[1] = [frame |-> f, unit |-> u] /\ d[1].frame = f /\ d[1].unit = u
      BY <1>11, <1>12, <2>1, <2>2, <3>1
    <3>3. HasFirst(d)
      BY <1>11, <1>12, <3>2 DEF HasFirst, UsbUnits
    <3>4. Before(f) /\ curOffset' = n
      BY <1>2, <1>4, <2>1, <2>2 DEF AheadOf
    <3> QED
      BY <1>6, <3>2, <3>3, <3>4
  <2>3. CASE o > 0
    <3>1. /\ HasFirst(data[curIdx]) /\ Before(data[curIdx][1].frame)
          /\ \/ data[curIdx][1].frame < f
             \/ data[curIdx][1].frame = f /\ data[curIdx][1].unit + o <= u
      BY <1>4, <2>3 DEF AheadOf
    <3>2. d[1] = data[curIdx][1] /\ HasFirst(d)
      BY <1>11, <1>12, <2>3, <3>1 DEF HasFirst
    <3>3. PICK a \in Nat, b \in Nat : a = d[1].frame /\ b = d[1].unit
      BY <3>2 DEF HasFirst, UsbUnits
    <3>4. a < f \/ (a = f /\ b + o <= u)
      BY <3>1, <3>2, <3>3
    <3>5. a < g \/ (a = g /\ b + curOffset' <= v)
      BY <1>2, <1>6, <2>1, <3>4
    <3> QED
      BY <3>1, <3>2, <3>3, <3>5
  <2> QED
    BY <1>2, <2>2, <2>3
<1>15. AheadOf(next.frame, next.unit)'
  <2>1. Before(g)' /\ next'.frame = g /\ next'.unit = v
    BY <1>1, <1>5, <1>7, <1>10 DEF AheadOf
  <2>2. Before(next.frame)'
    BY <2>1 DEF Before
  <2>3. ASSUME curOffset' > 0 PROVE Before(data[curIdx][1].frame)'
    <3>1. Before(d[1].frame)'
      BY <1>10, <1>14, <2>3
    <3>2. data'[curIdx'] = d
      BY <1>1, <1>13
    <3> QED
      BY <3>1, <3>2 DEF Before
  <2>4. data'[curIdx'] = d
    BY <1>1, <1>13
  <2> QED
    BY <1>14, <2>1, <2>2, <2>3, <2>4 DEF AheadOf, HasFirst
<1>16. ReadyInOrder'
  <2>1. ReadyInOrder
    BY <1>2 DEF UsbOrder
  <2> QED
    BY <1>1, <1>8, <1>9, <2>1 DEF ReadyInOrder, HasFirst
<1> QED
  BY <1>1, <1>2, <1>15, <1>16 DEF UsbOrder, ComesNewer

LEMMA LastCopiedInOrder ==
  ASSUME UsbFits, UsbInv, UsbOrder, Usb!CopyLast
  PROVE  UsbOrder'
<1> DEFINE o == curOffset
           n == Len(transfer.units)
           c == Usb!CopySize
           units == SubSeq(transfer.units, 1, c)
           w == Usb!Written(data[curIdx], o, units)
<1>1. /\ workerPc = "copy" /\ workerPc' = "rest" /\ transfer.ok /\ curIdx # 0
      /\ c = perFrame - o
      /\ data' = [data EXCEPT ![curIdx] = w]
      /\ status' = [status EXCEPT ![curIdx] = Usb!NewestReady + 1]
      /\ UNCHANGED <<curIdx, curOffset, perFrame, transfer, phase, next, usbLast>>
  BY DEF Usb!CopyLast, Usb!Nobody, Usb!Room, Usb!fillVars
<1>2. /\ perFrame \in Nat \ {0} /\ o \in 0 .. perFrame - 1 /\ n \in Nat
      /\ transfer.units \in Seq(UsbUnits) /\ curIdx \in 1 .. NumImages
      /\ data \in [1 .. NumImages -> {NoData} \cup [1 .. perFrame -> UsbUnits \cup {NoData}]]
      /\ phase # "off" /\ next.unit \in 1 .. perFrame
  BY <1>1 DEF UsbInv, UsbTypes, UsbPool, UsbFits
<1>3. c \in 1 .. n /\ o + c = perFrame
  <2>1. c = IF perFrame - o <= n THEN perFrame - o ELSE n
    <3>1. perFrame - o \in Int /\ n \in Int
      BY <1>2
    <3> QED
      BY <3>1, MinOfTwo DEF Usb!CopySize, Usb!Room
  <2>2. PICK x \in Nat, y \in Nat, z \in Nat \ {0} : x = o /\ y = n /\ z = perFrame /\ x < z
    BY <1>2
  <2> HIDE DEF c
  <2> QED
    BY <1>1, <2>1, <2>2
<1>4. Usb!CopySize' = c
  BY <1>1 DEF Usb!CopySize, Usb!Room
<1> HIDE DEF c
<1>5. units \in Seq(UsbUnits) /\ Len(units) = c /\ units[1] = transfer.units[1]
  BY <1>2, <1>3
<1> HIDE DEF units
<1>6. PICK f \in Nat, u \in Nat \ {0} : AheadOf(f, u) /\ UnitsFrom(f, u)
  BY <1>1, <1>2 DEF UsbOrder, ComesNewer
<1>7. PICK g \in Nat, v \in Nat : g = next.frame /\ v = next.unit
  BY DEF UsbInv, UsbTypes, UsbUnits
<1>8. /\ f < g \/ (f = g /\ u + n = v)
      /\ f < g \/ (f = g /\ u <= v)
      /\ u + n <= perFrame + 1 /\ v <= perFrame
  BY <1>2, <1>6, <1>7, UnitsEnd DEF UsbInv, UnitsFrom
<1>9. Before(f) /\ Before(g)
  BY <1>2, <1>6, <1>8, AheadGrows DEF UsbInv, AheadOf
<1>10. /\ w # NoData
       /\ o = 0 => w[1] = transfer.units[1]
       /\ o > 0 /\ data[curIdx] # NoData => w[1] = data[curIdx][1]
  <2>1. PICK old \in {NoData} \cup [1 .. perFrame -> UsbUnits \cup {NoData}],
             p \in 0 .. perFrame - 1 : old = data[curIdx] /\ p = curOffset
    BY <1>2
  <2>2. PICK x \in Seq(UsbUnits) : x = units
    BY <1>5
  <2>3. p + Len(x) <= perFrame /\ Len(x) > 0
    BY <1>2, <1>3, <1>5, <2>1, <2>2
  <2>4. perFrame \in Nat \ {0} /\ p + Len(x) <= perFrame
    BY <1>2, <2>3
  <2>5. /\ Usb!Written(old, p, x) # NoData
        /\ p = 0 /\ Len(x) > 0 => Usb!Written(old, p, x)[1] = x[1]
        /\ p > 0 /\ old # NoData => Usb!Written(old, p, x)[1] = old[1]
    BY <2>4, FirstStays
  <2> QED
    BY <1>5, <2>1, <2>2, <2>3, <2>5
<1>11. PICK d : d = w
  OBVIOUS
<1>12. data'[curIdx] = d /\ \A i \in 1 .. NumImages : i # curIdx => data'[i] = data[i]
  BY <1>1, <1>2, <1>11
<1> HIDE DEF w
<1>13. PICK a \in Nat, b \in Nat \ {0} :
         /\ d # NoData /\ d[1] = [frame |-> a, unit |-> b] /\ Before(a)
         /\ a < f \/ (a = f /\ b + o <= u)
  <2>1. CASE o = 0
    <3>1. transfer.units[1] = [frame |-> f, unit |-> (u + 1) - 1] /\ (u + 1) - 1 = u
      BY <1>2, <1>3, <1>6 DEF UnitsFrom
    <3>2. d # NoData /\ d[1] = [frame |-> f, unit |-> u] /\ u + o <= u
      BY <1>10, <1>11, <2>1, <3>1
    <3> QED
      BY <1>9, <3>2
  <2>2. CASE o > 0
    <3>1. /\ HasFirst(data[curIdx]) /\ Before(data[curIdx][1].frame)
          /\ \/ data[curIdx][1].frame < f
             \/ data[curIdx][1].frame = f /\ data[curIdx][1].unit + o <= u
      BY <1>6, <2>2 DEF AheadOf
    <3>2. d # NoData /\ d[1] = data[curIdx][1]
      BY <1>10, <1>11, <2>2, <3>1 DEF HasFirst
    <3>3. PICK a \in Nat, b \in Nat : d[1] = [frame |-> a, unit |-> b] /\ b >= 1
      BY <3>1, <3>2 DEF HasFirst, UsbUnits
    <3>4. d[1].frame = a /\ d[1].unit = b
      BY <3>3
    <3> QED
      BY <3>1, <3>2, <3>3, <3>4
  <2>3. o = 0 \/ o > 0
    BY <1>2
  <2> QED
    BY <2>1, <2>2, <2>3
<1>14. d[1].frame = a /\ HasFirst(d)
  <2>1. d[1].frame = a /\ d[1].unit = b
    BY <1>13
  <2> QED
    BY <1>13, <2>1 DEF HasFirst, UsbUnits
<1>15. (c < n => a < f) /\ (~(c < n) => a < g)
  BY <1>2, <1>3, <1>8, <1>13
<1>16. /\ status'[curIdx] \in {1, 2}
       /\ \A i \in 1 .. NumImages : i # curIdx => status'[i] = status[i] /\ status'[i] # 2
       /\ status'[curIdx] = 1 => \A i \in 1 .. NumImages : i # curIdx => status[i] # 1
       /\ status' \in [1 .. NumImages -> {-2, -1, 0, 1, 2}]
  <2>1. status \in [1 .. NumImages -> {-2, -1, 0, 1}]
    BY <1>1 DEF UsbInv, UsbPool, UsbTypes
  <2>2. Usb!NewestReady = IF \E i \in 1 .. NumImages : status[i] = 1 THEN 1 ELSE 0
    BY <2>1, NewestIs
  <2> QED
    BY <1>1, <1>2, <2>1, <2>2
<1>17. ReadyInOrder'
  <2>1. ReadyInOrder /\ usbLast < a
    BY <1>2, <1>13 DEF UsbOrder, Before
  <2>2. ASSUME NEW i \in 1 .. NumImages, status'[i] \in {1, 2}
        PROVE  HasFirst(data'[i]) /\ usbLast < data'[i][1].frame
    <3>1. CASE i = curIdx
      BY <1>12, <1>14, <2>1, <3>1
    <3>2. CASE i # curIdx
      BY <1>12, <1>16, <2>1, <2>2, <3>2 DEF ReadyInOrder
    <3> QED
      BY <3>1, <3>2
  <2>3. ASSUME NEW i \in 1 .. NumImages, NEW j \in 1 .. NumImages,
               status'[i] = 1, status'[j] = 2
        PROVE  data'[i][1].frame < data'[j][1].frame
    <3>1. j = curIdx /\ i # curIdx /\ status[i] = 1
      BY <1>16, <2>3
    <3>2. data'[j] = d /\ data'[i] = data[i]
      BY <1>12, <3>1
    <3>3. data[i][1].frame < a
      BY <1>13, <3>1 DEF Before
    <3> QED
      BY <1>14, <3>2, <3>3
  <2> QED
    BY <1>1, <2>2, <2>3 DEF ReadyInOrder, HasFirst
<1>18. ASSUME NEW h, Before(h), a < h PROVE Before(h)'
  <2>1. ASSUME NEW i \in 1 .. NumImages, status'[i] \in {1, 2}
        PROVE  data'[i][1].frame < h
    <3>1. CASE i = curIdx
      BY <1>12, <1>14, <1>18, <3>1
    <3>2. CASE i # curIdx
      BY <1>12, <1>16, <1>18, <2>1, <3>2 DEF Before
    <3> QED
      BY <3>1, <3>2
  <2> QED
    BY <1>1, <1>18, <2>1 DEF Before
<1>19. Before(IF Usb!CopySize < Len(transfer.units) THEN f ELSE next.frame)'
  <2>1. CASE c < n
    <3>1. Before(f)'
      BY <1>9, <1>15, <1>18, <2>1
    <3> QED
      BY <1>1, <1>4, <2>1, <3>1 DEF Before
  <2>2. CASE ~(c < n)
    <3>1. Before(g)'
      BY <1>9, <1>15, <1>18, <2>2
    <3> QED
      BY <1>1, <1>4, <1>7, <2>2, <3>1 DEF Before
  <2> QED
    BY <2>1, <2>2
<1>20. UnitsFrom(f, u)'
  BY <1>1, <1>6 DEF UnitsFrom
<1>21. ComesNewer'
  BY <1>1, <1>19, <1>20 DEF ComesNewer
<1>22. phase = "stopping" => \A i \in 1 .. NumImages : status'[i] # -2
  <2>1. ASSUME phase = "stopping", NEW i \in 1 .. NumImages PROVE status'[i] # -2
    <3>1. CASE i = curIdx
      BY <1>16, <3>1
    <3>2. CASE i # curIdx
      BY <1>16, <2>1, <3>2 DEF UsbOrder
    <3> QED
      BY <3>1, <3>2
  <2> QED
    BY <2>1
<1> QED
  BY <1>1, <1>2, <1>17, <1>21, <1>22 DEF UsbOrder

LEMMA RestCopiedInOrder ==
  ASSUME UsbFits, UsbInv, UsbOrder, Usb!CopyRest
  PROVE  UsbOrder'
<1> DEFINE n == Len(transfer.units)
           c == Usb!CopySize
           units == SubSeq(transfer.units, c + 1, n)
           w == Usb!Written(data[curIdx'], 0, units)
<1>1. /\ workerPc = "rest" /\ workerPc' = "resubmit" /\ Usb!GetEmptyFrame
      /\ data' = IF curIdx' = 0 THEN data ELSE [data EXCEPT ![curIdx'] = w]
      /\ curOffset' = IF n # TransferSize \/ curIdx' = 0 THEN 0 ELSE Len(units)
      /\ UNCHANGED <<perFrame, transfer, phase, next, usbLast>>
  BY DEF Usb!CopyRest, Usb!Nobody, Usb!IsShort, Usb!OffsetAfter, UsbSync
<1>2. /\ perFrame \in Nat \ {0} /\ curOffset \in 0 .. perFrame - 1 /\ n \in 0 .. perFrame
      /\ transfer.units \in Seq(UsbUnits) /\ phase # "off"
      /\ data \in [1 .. NumImages -> {NoData} \cup [1 .. perFrame -> UsbUnits \cup {NoData}]]
  BY <1>1 DEF UsbInv, UsbTypes, UsbSync, UsbPool
<1>3. c \in 0 .. n /\ n - c <= perFrame - 1
  <2>1. c = IF perFrame - curOffset <= n THEN perFrame - curOffset ELSE n
    BY <1>2, MinOfTwo DEF Usb!CopySize, Usb!Room
  <2> HIDE DEF c
  <2> QED
    BY <1>2, <2>1
<1>4. PICK f \in Nat, u \in Nat \ {0} : UnitsFrom(f, u) /\ Before(IF c < n THEN f ELSE next.frame)
  BY <1>1, <1>2 DEF UsbOrder, ComesNewer
<1> HIDE DEF c
<1>5. /\ units \in Seq(UsbUnits) /\ Len(units) = n - c
      /\ c < n => units[1] = transfer.units[c + 1]
  BY <1>2, <1>3
<1> HIDE DEF units
<1>6. PICK g \in Nat, v \in Nat : g = next.frame /\ v = next.unit
  BY DEF UsbInv, UsbTypes, UsbUnits
<1>7. (f < g \/ (f = g /\ u + n = v)) /\ (f < g \/ (f = g /\ u <= v))
  BY <1>4, <1>6, UnitsEnd DEF UsbInv
<1>8. \A i \in 1 .. NumImages : status[i] # -1
  BY <1>1 DEF UsbInv, UsbPool
<1>9. \A i \in 1 .. NumImages : i # curIdx' => data'[i] = data[i]
  BY <1>1, <1>2
<1>10. /\ Thins /\ \A i \in 1 .. NumImages : status'[i] # 2
       /\ \A i \in 1 .. NumImages : status'[i] = -2 => status[i] = -2
  BY <1>1, <1>8, <1>9, EmptyThins DEF UsbInv
<1>11. ReadyInOrder'
  BY <1>1, <1>2, <1>10, EmptyKeepsReady
<1>12. Before(g)
  <2>1. CASE c < n
    <3>1. Before(f)
      BY <1>4, <2>1
    <3>2. \A i \in 1 .. NumImages : status[i] \in {1, 2} => data[i][1].frame \in Nat
      BY <1>2 DEF UsbOrder, ReadyInOrder, HasFirst, UsbUnits
    <3> QED
      BY <1>7, <3>1, <3>2 DEF Before, UsbOrder
  <2>2. CASE ~(c < n)
    BY <1>4, <1>6, <2>2
  <2> QED
    BY <2>1, <2>2
<1>13. Before(g)'
  BY <1>10, <1>12, BeforeStays
<1>14. ASSUME curOffset' > 0
       PROVE  /\ HasFirst(data'[curIdx']) /\ data'[curIdx'][1].frame = f /\ Before(f)'
              /\ data'[curIdx'][1].unit + curOffset' = u + n
  <2>1. /\ curIdx' # 0 /\ curOffset' = n - c /\ c < n
        /\ data' = [data EXCEPT ![curIdx'] = w]
    BY <1>1, <1>2, <1>3, <1>5, <1>14
  <2>2. curIdx' \in 1 .. NumImages
    <3>1. \A i, j \in 1 .. NumImages : status[i] > 0 /\ status[i] = status[j] => i = j
      BY DEF UsbInv, UsbPool
    <3>2. curIdx' \in 0 .. NumImages
      BY <1>1, <1>8, <3>1, EmptyTaken DEF UsbInv, UsbTypes, UsbFits
    <3> QED
      BY <2>1, <3>2 DEF UsbFits
  <2>3. PICK old \in {NoData} \cup [1 .. perFrame -> UsbUnits \cup {NoData}] : old = data[curIdx']
    BY <1>2, <2>2
  <2>4. 0 \in 0 .. perFrame - 1 /\ 0 + Len(units) <= perFrame /\ Len(units) > 0
    BY <1>2, <1>3, <1>5, <2>1
  <2>5. w # NoData /\ w[1] = units[1]
    <3>1. Usb!Written(old, 0, units) # NoData /\ Usb!Written(old, 0, units)[1] = units[1]
      BY <1>2, <1>5, <2>4, FirstStays
    <3> QED
      BY <2>3, <3>1
  <2>6. units[1] = [frame |-> f, unit |-> (u + (c + 1)) - 1]
    <3>1. c + 1 \in 1 .. n
      BY <1>2, <1>3, <2>1
    <3>2. transfer.units[c + 1] = [frame |-> f, unit |-> (u + (c + 1)) - 1]
      BY <1>4, <3>1 DEF UnitsFrom
    <3> QED
      BY <1>5, <2>1, <3>2
  <2>7. /\ (u + (c + 1)) - 1 = u + c /\ u + c \in Nat /\ u + c >= 1
        /\ (u + c) + (n - c) = u + n
    <3>1. PICK x \in Nat, y \in Nat : x = c /\ y = n
      BY <1>2, <1>3
    <3>2. /\ (u + (x + 1)) - 1 = u + x /\ u + x \in Nat /\ u + x >= 1
          /\ (u + x) + (y - x) = u + y
      OBVIOUS
    <3> QED
      BY <3>1, <3>2
  <2>8. data'[curIdx'] # NoData /\ data'[curIdx'][1] = [frame |-> f, unit |-> u + c]
    BY <1>2, <2>1, <2>2, <2>5, <2>6, <2>7
  <2>9. data'[curIdx'][1].frame = f /\ data'[curIdx'][1].unit = u + c
    BY <2>8
  <2>10. HasFirst(data'[curIdx'])
    BY <2>7, <2>8, <2>9 DEF HasFirst, UsbUnits
  <2>11. Before(f)'
    BY <1>4, <1>10, <2>1, BeforeStays
  <2> QED
    BY <2>1, <2>7, <2>9, <2>10, <2>11
<1>15. AheadOf(next.frame, next.unit)'
  <2>1. next'.frame = g /\ next'.unit = v
    BY <1>1, <1>6
  <2>2. Before(next.frame)'
    BY <1>13, <2>1 DEF Before
  <2>3. ASSUME curOffset' > 0 PROVE Before(data[curIdx][1].frame)'
    BY <1>14, <2>3 DEF Before
  <2> QED
    BY <1>7, <1>14, <2>1, <2>2, <2>3 DEF AheadOf, HasFirst
<1>16. curIdx' = 0 => curOffset' = 0
  BY <1>1
<1> QED
  BY <1>1, <1>2, <1>10, <1>11, <1>15, <1>16 DEF UsbOrder, ComesNewer

LEMMA OrderStutters ==
  ASSUME UsbOrder, UNCHANGED usbVars
  PROVE  UsbOrder'
<1>1. UNCHANGED <<status, data, onTime, curIdx, curOffset, perFrame, workerPc, transfer,
                  phase, next, usbLast>>
  BY DEF usbVars
<1>2. Thins
  BY <1>1 DEF Thins
<1>3. phase # "off" => ComesNewer' /\ ReadyInOrder'
  BY <1>1, <1>2, ComesStays DEF UsbOrder, ReadyInOrder
<1> QED
  BY <1>1, <1>3 DEF UsbOrder

\* get_empty_frame leaves the images alone that are lent.
LEMMA EmptyLeavesLent ==
  ASSUME UsbFits, UsbTypes, UsbPool, \A i \in 1 .. NumImages : status[i] # -1,
         Usb!GetEmptyFrame, NEW i \in 1 .. NumImages
  PROVE  /\ status'[i] = -2 <=> status[i] = -2
         /\ status[i] = -2 => i # curIdx'
<1>1. \A j, k \in 1 .. NumImages : status[j] > 0 /\ status[j] = status[k] => j = k
  BY DEF UsbPool
<1>2. status'[i] = -2 => status[i] = -2
  BY <1>1, EmptyTaken DEF UsbTypes, UsbFits
<1>3. ASSUME status[i] = -2 PROVE status'[i] = -2 /\ i # curIdx'
  <2>1. Usb!Recycled[i] = -2
    BY <1>3 DEF Usb!Recycled, Usb!Ready, Usb!Images
  <2>2. i \notin Usb!Unused
    BY <2>1 DEF Usb!Unused, Usb!Empty
  <2>3. Usb!Unused # {} => Usb!Min(Usb!Unused) \in Usb!Unused
    <3>1. Usb!Unused \in SUBSET Nat
      BY DEF Usb!Unused, Usb!Images
    <3> QED
      BY <3>1, MinIsLeast
  <2>4. i # curIdx'
    BY <2>2, <2>3 DEF Usb!GetEmptyFrame, Usb!Nobody
  <2> QED
    BY <2>1, <2>4 DEF Usb!GetEmptyFrame, Usb!Images
<1> QED
  BY <1>2, <1>3

\* Only get_frame and release_frame change what is lent.
LEMMA LentStays ==
  ASSUME UsbFits, UsbInv, UsbOrder,
         \/ Usb!Callback \/ Usb!Start \/ Usb!Stop \/ Usb!StopCallback \/ Usb!FinishStop
         \/ UNCHANGED usbVars
  PROVE  UNCHANGED <<Usb!LentFrames, usbLast>>
<1>1. ASSUME usbLast' = usbLast,
             \A i \in 1 .. NumImages :
               /\ status'[i] = -2 <=> status[i] = -2
               /\ status[i] = -2 => data'[i] = data[i]
      PROVE  UNCHANGED <<Usb!LentFrames, usbLast>>
  BY <1>1 DEF Usb!LentFrames, Usb!Images, Usb!Lent
<1>2. ASSUME NumImages \in Nat, status \in [1 .. NumImages -> {-2, -1, 0, 1, 2}],
             data \in [1 .. NumImages -> {NoData} \cup [1 .. perFrame -> UsbUnits \cup {NoData}]],
             curIdx \in 0 .. NumImages
      PROVE  UNCHANGED <<Usb!LentFrames, usbLast>>
  <2>1. CASE Usb!CallbackStart
    <3>1. /\ UNCHANGED <<data, usbLast>>
          /\ IF curIdx = 0 THEN Usb!GetEmptyFrame ELSE UNCHANGED <<status, curIdx>>
          /\ phase # "off" /\ workerPc = "idle"
      BY <2>1 DEF Usb!CallbackStart, Usb!Nobody
    <3>2. CASE curIdx = 0
      <4>1. \A i \in 1 .. NumImages : status[i] # -1
        BY <3>2 DEF UsbInv, UsbPool
      <4>2. \A i \in 1 .. NumImages : status'[i] = -2 <=> status[i] = -2
        BY <3>1, <3>2, <4>1, EmptyLeavesLent DEF UsbInv
      <4> QED
        BY <1>1, <3>1, <4>2
    <3>3. CASE curIdx # 0
      BY <1>1, <3>1, <3>3
    <3> QED
      BY <3>2, <3>3
  <2>2. CASE Usb!CopyPart
    <3>1. /\ UNCHANGED <<status, usbLast>> /\ curIdx # 0 /\ workerPc = "copy"
          /\ \A i \in 1 .. NumImages : i # curIdx => data'[i] = data[i]
      BY <1>2, <2>2 DEF Usb!CopyPart, Usb!Nobody
    <3>2. status[curIdx] = -1
      BY <3>1 DEF UsbInv, UsbPool
    <3>3. \A i \in 1 .. NumImages : status[i] = -2 => data'[i] = data[i]
      BY <3>1, <3>2
    <3> QED
      BY <1>1, <3>1, <3>3
  <2>3. CASE Usb!CopyLast
    <3>1. /\ usbLast' = usbLast /\ curIdx # 0 /\ workerPc = "copy"
          /\ \A i \in 1 .. NumImages :
               i # curIdx => data'[i] = data[i] /\ status'[i] = status[i]
          /\ curIdx \in 1 .. NumImages => status'[curIdx] = Usb!NewestReady + 1
      BY <1>2, <2>3 DEF Usb!CopyLast, Usb!Nobody
    <3>2. status[curIdx] = -1
      BY <3>1 DEF UsbInv, UsbPool
    <3>3. Usb!NewestReady \in {0, 1}
      <4>1. status \in [1 .. NumImages -> {-2, -1, 0, 1}]
        BY <1>2, <3>1 DEF UsbInv, UsbPool
      <4> QED
        BY <4>1, NewestIs
    <3>4. ASSUME NEW i \in 1 .. NumImages
          PROVE  /\ status'[i] = -2 <=> status[i] = -2
                 /\ status[i] = -2 => data'[i] = data[i]
      <4>1. CASE i = curIdx
        <5>1. status'[i] = Usb!NewestReady + 1 /\ status[i] = -1
          BY <3>1, <3>2, <4>1
        <5>2. status'[i] \in {1, 2}
          BY <3>3, <5>1
        <5> QED
          BY <5>1, <5>2
      <4>2. CASE i # curIdx
        BY <3>1, <4>2
      <4> QED
        BY <4>1, <4>2
    <3> QED
      BY <1>1, <3>1, <3>4
  <2>4. CASE Usb!CopyRest
    <3>1. /\ usbLast' = usbLast /\ workerPc = "rest" /\ Usb!GetEmptyFrame
          /\ \A i \in 1 .. NumImages : i # curIdx' => data'[i] = data[i]
      BY <1>2, <2>4 DEF Usb!CopyRest, Usb!Nobody
    <3>2. \A i \in 1 .. NumImages : status[i] # -1
      BY <3>1 DEF UsbInv, UsbPool
    <3>3. ASSUME NEW i \in 1 .. NumImages
          PROVE  /\ status'[i] = -2 <=> status[i] = -2
                 /\ status[i] = -2 => data'[i] = data[i]
      BY <3>1, <3>2, EmptyLeavesLent DEF UsbInv
    <3> QED
      BY <1>1, <3>1, <3>3
  <2>5. CASE Usb!Start
    <3>1. /\ usbLast' = usbLast /\ phase = "off"
          /\ \A i \in 1 .. NumImages : status'[i] = 0
      BY <2>5 DEF Usb!Start, Usb!Images, Usb!Empty
    <3>2. \A i \in 1 .. NumImages : status[i] = 0
      BY <3>1 DEF UsbInv, UsbPool
    <3> QED
      BY <1>1, <3>1, <3>2
  <2>6. CASE Usb!FinishStop
    <3>1. /\ usbLast' = usbLast /\ phase = "stopping"
          /\ \A i \in 1 .. NumImages : status'[i] = 0
      BY <2>6 DEF Usb!FinishStop, Usb!Images, Usb!Empty
    <3>2. \A i \in 1 .. NumImages : status[i] # -2
      BY <3>1 DEF UsbOrder
    <3> QED
      BY <1>1, <3>1, <3>2
  <2>7. CASE Usb!Drop \/ Usb!Resubmit \/ Usb!Stop \/ Usb!StopCallback \/ UNCHANGED usbVars
    <3>1. UNCHANGED <<status, data, usbLast>>
      BY <2>7 DEF Usb!Drop, Usb!Resubmit, Usb!Stop, Usb!StopCallback, Usb!poolVars, usbVars
    <3> QED
      BY <1>1, <3>1
  <2> QED
    BY <2>1, <2>2, <2>3, <2>4, <2>5, <2>6, <2>7 DEF Usb!Callback
<1> QED
  BY <1>2 DEF UsbInv, UsbTypes, UsbFits

\* No frame that is lent is NULL.
LentFits == \A no, units : [no |-> no, units |-> units] # NoData

\* Those two are a frame source's.
LEMMA CallsAreFrameSource ==
  ASSUME UsbFits, LentFits, UsbInv, UsbOrder, NEW i \in 1 .. NumImages,
         Usb!GetFrame(i) \/ Usb!ReleaseFrame(i)
  PROVE  Usb!Promised!Next
<1>1. status[i] \in {-2, 1} /\ data' = data /\ i \in Usb!Images
  BY DEF Usb!GetFrame, Usb!ReleaseFrame, Usb!Lent, Usb!Images
<1>2. \A j \in 1 .. NumImages :
        /\ Usb!LentFrames[j] = IF status[j] = -2 THEN [no |-> data[j][1].frame, units |-> data[j]]
                               ELSE NoData
        /\ Usb!LentFrames'[j] = IF status'[j] = -2 THEN [no |-> data[j][1].frame, units |-> data[j]]
                                ELSE NoData
  BY <1>1 DEF Usb!LentFrames, Usb!Images, Usb!Lent
<1>3. CASE Usb!GetFrame(i)
  <2>1. /\ status[i] = 1 /\ usbLast' = data[i][1].frame /\ phase = "on"
        /\ \A j \in 1 .. NumImages :
             status'[j] = IF j = i THEN -2
                          ELSE IF status[j] >= 1 THEN status[j] - 1 ELSE status[j]
    BY <1>3 DEF Usb!GetFrame, Usb!Taken, Usb!Images, Usb!Lent
  <2>2. ASSUME NEW j \in 1 .. NumImages, j # i PROVE status'[j] = -2 <=> status[j] = -2
    <3>1. status[j] \in {-2, -1, 0, 1, 2}
      BY DEF UsbInv, UsbTypes
    <3> QED
      BY <2>1, <2>2, <3>1
  <2>3. HasFirst(data[i]) /\ usbLast < data[i][1].frame /\ usbLast \in Nat
    BY <2>1 DEF UsbOrder, ReadyInOrder
  <2>4. /\ Usb!LentFrames[i] = NoData
        /\ Usb!LentFrames'[i] = [no |-> data[i][1].frame, units |-> data[i]]
    BY <1>2, <2>1
  <2>5. Usb!LentFrames'[i] # NoData /\ Usb!LentFrames'[i].no = data[i][1].frame
    BY <2>4 DEF LentFits
  <2>6. data[i][1].frame > usbLast
    BY <2>3 DEF HasFirst, UsbUnits
  <2>7. \A j \in Usb!Images \ {i} : Usb!LentFrames'[j] = Usb!LentFrames[j]
    BY <1>2, <2>2 DEF Usb!Images
  <2>8. Usb!Promised!Lend(i)
    BY <2>1, <2>4, <2>5, <2>6, <2>7 DEF Usb!Promised!Lend
  <2> QED
    BY <1>1, <2>8 DEF Usb!Promised!Next
<1>4. CASE Usb!ReleaseFrame(i)
  <2>1. /\ status[i] = -2 /\ usbLast' = usbLast
        /\ \A j \in 1 .. NumImages : status'[j] = IF j = i THEN 0 ELSE status[j]
    BY <1>4 DEF Usb!ReleaseFrame, Usb!PutBack, Usb!Empty, Usb!Lent, UsbInv, UsbTypes
  <2>2. Usb!LentFrames[i] # NoData
    BY <1>2, <2>1 DEF LentFits
  <2>3. Usb!LentFrames' = [Usb!LentFrames EXCEPT ![i] = NoData]
    <3>1. /\ Usb!LentFrames' = [j \in 1 .. NumImages |-> Usb!LentFrames'[j]]
          /\ Usb!LentFrames = [j \in 1 .. NumImages |-> Usb!LentFrames[j]]
      BY DEF Usb!LentFrames, Usb!Images
    <3>2. ASSUME NEW j \in 1 .. NumImages
          PROVE  Usb!LentFrames'[j] = IF j = i THEN NoData ELSE Usb!LentFrames[j]
      <4>1. CASE j = i
        <5>1. status'[j] # -2
          BY <2>1, <4>1
        <5> QED
          BY <1>2, <4>1, <5>1
      <4>2. CASE j # i
        <5>1. status'[j] = status[j]
          BY <2>1, <4>2
        <5> QED
          BY <1>2, <4>2, <5>1
      <4> QED
        BY <4>1, <4>2
    <3> QED
      BY <3>1, <3>2
  <2>4. Usb!Promised!Return(i)
    BY <2>1, <2>2, <2>3 DEF Usb!Promised!Return
  <2> QED
    BY <1>1, <2>4 DEF Usb!Promised!Next
<1> QED
  BY <1>3, <1>4

\* All but one of n images.
LEMMA AllButOne ==
  ASSUME NEW n \in Nat, NEW T \in SUBSET (1 .. n),
         \A i, j \in 1 .. n : i \notin T /\ j \notin T => i = j
  PROVE  Usb!Cardinality(T) >= n - 1
<1>1. IsFiniteSet(1 .. n) /\ Cardinality(1 .. n) = n
  BY FS_Interval
<1>2. Cardinality(T) >= n - 1
  <2>1. CASE T = 1 .. n
    BY <1>1, <2>1
  <2>2. CASE T # 1 .. n
    <3>1. PICK i \in 1 .. n : i \notin T
      BY <2>2
    <3>2. T = (1 .. n) \ {i}
      BY <3>1
    <3>3. Cardinality((1 .. n) \ {i}) = n - 1
      BY <1>1, FS_RemoveElement
    <3>4. Cardinality(T) = n - 1 /\ n - 1 \in Int
      BY <3>2, <3>3
    <3> QED
      BY <3>4
  <2> QED
    BY <2>1, <2>2
<1> QED
  BY <1>2 DEF Usb!Cardinality, Cardinality

\* There is no image to fill only if all but one are lent.
LEMMA RunsOut ==
  ASSUME UsbFits, UsbInv, [Usb!Next]_usbVars,
         workerPc = "idle", workerPc' = "copy", curIdx' = 0
  PROVE  Usb!Cardinality({ i \in 1 .. NumImages : status[i] = -2 }) >= NumImages - 1
<1>1. Usb!CallbackStart
  BY DEF Usb!Next, Usb!Callback, Usb!Caller, Usb!CallbackStart, Usb!Drop, Usb!CopyPart,
         Usb!CopyLast, Usb!CopyRest, Usb!Resubmit, Usb!StopCallback, Usb!Start, Usb!Stop,
         Usb!FinishStop, Usb!GetFrame, Usb!ReleaseFrame, usbVars
<1>2. curIdx = 0 /\ Usb!GetEmptyFrame
  BY <1>1 DEF Usb!CallbackStart, Usb!Nobody
<1>3. Usb!Unused = {}
  <2>1. Usb!Unused \in SUBSET Nat /\ 0 \notin Usb!Unused
    BY DEF Usb!Unused, Usb!Images
  <2>2. Usb!Unused # {} => Usb!Min(Usb!Unused) \in Usb!Unused
    BY <2>1, MinIsLeast
  <2> QED
    BY <1>2, <2>1, <2>2 DEF Usb!GetEmptyFrame, Usb!Nobody
<1>4. ASSUME NEW i \in 1 .. NumImages, status[i] # -2
      PROVE  status[i] > 0 /\ status[i] = Usb!NewestReady
  <2>1. status[i] # -1
    BY <1>2 DEF UsbInv, UsbPool
  <2>2. Usb!Recycled[i] # 0
    BY <1>3 DEF Usb!Unused, Usb!Images, Usb!Empty
  <2>3. Usb!Recycled[i] = IF status[i] > 0 THEN IF status[i] = Usb!NewestReady THEN 1 ELSE 0
                          ELSE status[i]
    BY DEF Usb!Recycled, Usb!Ready, Usb!Images, Usb!Empty
  <2>4. status[i] \in {-2, -1, 0, 1, 2}
    BY DEF UsbInv, UsbTypes
  <2> QED
    BY <1>4, <2>1, <2>2, <2>3, <2>4
<1>5. ASSUME NEW i \in 1 .. NumImages, NEW j \in 1 .. NumImages, status[i] # -2, status[j] # -2
      PROVE  i = j
  BY <1>4, <1>5 DEF UsbInv, UsbPool
<1>6. PICK T \in SUBSET (1 .. NumImages) : T = { i \in 1 .. NumImages : status[i] = -2 }
  OBVIOUS
<1>7. \A i, j \in 1 .. NumImages : i \notin T /\ j \notin T => i = j
  BY <1>5, <1>6
<1>8. Usb!Cardinality(T) >= NumImages - 1
  BY <1>7, AllButOne DEF UsbFits
<1> QED
  BY <1>6, <1>8

\* Both.
LEMMA UsbLendsSoundly ==
  ASSUME UsbFits, LentFits
  PROVE  Usb!Init /\ [][Usb!Next]_usbVars => Usb!KeepsPromise /\ Usb!RunsOutOnlyIfHeld
<1>1. Usb!Init => UsbInv /\ UsbOrder
  <2> SUFFICES ASSUME Usb!Init PROVE UsbInv /\ UsbOrder
    OBVIOUS
  <2>1. curIdx = 0 /\ curOffset = 0 /\ phase = "off" /\ usbLast = 0 /\ next.frame = 0
    BY DEF Usb!Init, Usb!Nobody
  <2>2. UsbOrder
    BY <2>1 DEF UsbOrder
  <2> QED
    BY <2>2, UsbInvInit
<1>2. UsbInv /\ UsbOrder /\ [Usb!Next]_usbVars => (UsbInv /\ UsbOrder)'
  BY UsbInvStep, CallKeepsOrder, StartKeepsOrder, LeavingKeepsOrder, CallbackStartsInOrder,
     PartCopiedInOrder, LastCopiedInOrder, RestCopiedInOrder, OrderStutters
     DEF Usb!Next, Usb!Callback, Usb!Caller
<1>3. Usb!Init => Usb!Promised!Init
  BY DEF Usb!Init, Usb!Promised!Init, Usb!LentFrames, Usb!Empty, Usb!Lent
<1>4. UsbInv /\ UsbOrder /\ [Usb!Next]_usbVars => [Usb!Promised!Next]_(Usb!Promised!vars)
  <2> SUFFICES ASSUME UsbInv, UsbOrder, [Usb!Next]_usbVars
               PROVE  [Usb!Promised!Next]_(Usb!Promised!vars)
    OBVIOUS
  <2>1. CASE \E i \in Usb!Images : Usb!GetFrame(i) \/ Usb!ReleaseFrame(i)
    BY <2>1, CallsAreFrameSource DEF Usb!Images
  <2>2. CASE UNCHANGED <<Usb!LentFrames, usbLast>>
    BY <2>2 DEF Usb!Promised!vars
  <2> QED
    BY <2>1, <2>2, LentStays DEF Usb!Next, Usb!Caller
<1>5. UsbInv /\ UsbOrder /\ [Usb!Next]_usbVars
      => [ workerPc = "idle" /\ workerPc' = "copy" /\ curIdx' = Usb!Nobody =>
             Usb!Cardinality({ i \in Usb!Images : status[i] = Usb!Lent }) >= NumImages - 1
         ]_(Usb!vars)
  BY RunsOut DEF Usb!Nobody, Usb!Images, Usb!Lent
<1> QED
  BY <1>1, <1>2, <1>3, <1>4, <1>5, PTL
     DEF Usb!Promised!Spec, Usb!KeepsPromise, Usb!RunsOutOnlyIfHeld

-----------------------------------------------------------------------------
(* The TCP image source, for any lengths and bounds.                       *)

\* NULL is not a frame.
TcpFits == \A no, whole : [no |-> no, whole |-> whole] # NoFrame

\* A frame newer than those before it was the next to be sent, and a body is read
\* only from its start.
Ordered ==
  /\ tcpLast \in Nat /\ sending \in Nat /\ tcpLast < sending
  /\ latest # NoFrame => latest.whole /\ latest.no \in (tcpLast + 1) .. (sending - 1)
  /\ user # NoFrame => user.whole /\ user.no = tcpLast
  /\ readerPc = "body" => at = 0
  /\ readerPc = "store" =>
       /\ frame # NoFrame /\ frame.whole
       /\ frame.no \in (tcpLast + 1) .. (sending - 1)
       /\ latest # NoFrame => latest.no < frame.no

\* Ordered is an invariant.
LEMMA OrderedInvariant ==
  ASSUME TcpFits
  PROVE  Tcp!Spec => []Ordered
<1>1. Tcp!Init => Ordered
  BY DEF Tcp!Init, Ordered
<1>2. Ordered /\ [Tcp!Next]_tcpVars => Ordered'
  <2> SUFFICES ASSUME Ordered, [Tcp!Next]_tcpVars PROVE Ordered'
    OBVIOUS
  <2> USE DEF Ordered
  <2>1. CASE Tcp!Connect
    BY <2>1 DEF Tcp!Connect
  <2>2. CASE Tcp!ReadWord
    BY <2>2 DEF Tcp!ReadWord, Tcp!Aligned, Tcp!streamVars
  <2>3. CASE Tcp!ReadBody
    <3>1. at = 0 /\ frame' = [no |-> sending, whole |-> at = 0] /\ sending' = sending + 1
          /\ readerPc' = "store" /\ UNCHANGED <<at, latest, user, connections, tcpLast>>
      BY <2>3 DEF Tcp!ReadBody
    <3>2. frame' = [no |-> sending, whole |-> TRUE]
      BY <3>1
    <3>3. frame' # NoFrame /\ frame'.no = sending /\ frame'.whole
      BY <3>2 DEF TcpFits
    <3> QED
      BY <3>1, <3>3
  <2>4. CASE Tcp!Store
    BY <2>4 DEF Tcp!Store, Tcp!streamVars
  <2>5. CASE Tcp!ConnectFails
    BY <2>5 DEF Tcp!ConnectFails, Tcp!streamVars
  <2>6. CASE Tcp!Disconnect
    BY <2>6 DEF Tcp!Disconnect
  <2>7. CASE Tcp!GetFrame
    BY <2>7 DEF Tcp!GetFrame, Tcp!Left, Tcp!streamVars
  <2>8. CASE Tcp!ReleaseFrame
    BY <2>8 DEF Tcp!ReleaseFrame, Tcp!streamVars
  <2>9. CASE UNCHANGED tcpVars
    BY <2>9 DEF tcpVars
  <2> QED
    BY <2>1, <2>2, <2>3, <2>4, <2>5, <2>6, <2>7, <2>8, <2>9 DEF Tcp!Next, Tcp!Reader
<1>3. [Tcp!Next]_(Tcp!vars) => [Tcp!Next]_tcpVars
  BY DEF tcpVars, Tcp!vars, Tcp!streamVars
<1> QED
  BY <1>1, <1>2, <1>3, PTL DEF Tcp!Spec

\* However often the stream breaks in the middle of a frame, the caller only gets frames
\* read from their start (the search for the synchronization word).
THEOREM WholeFramesOnly ==
  ASSUME TcpFits
  PROVE  Tcp!Spec => []Tcp!FramesAreWhole
<1>1. Ordered => Tcp!FramesAreWhole
  BY DEF Ordered, Tcp!FramesAreWhole
<1> QED
  BY <1>1, OrderedInvariant, PTL

\* The reader and the caller implement FrameSource: frames come in their order, none
\* twice, and stay as they are until they are given back.
THEOREM TcpKeepsPromise ==
  ASSUME TcpFits
  PROVE  Tcp!Spec => Tcp!KeepsPromise
<1>1. Tcp!Init => Tcp!Promised!Init
  BY DEF Tcp!Init, Tcp!Promised!Init, Tcp!LentFrames
<1>2. Ordered /\ [Tcp!Next]_tcpVars => [Tcp!Promised!Next]_(Tcp!Promised!vars)
  <2> SUFFICES ASSUME Ordered, [Tcp!Next]_tcpVars
               PROVE  [Tcp!Promised!Next]_(Tcp!Promised!vars)
    OBVIOUS
  <2>1. CASE Tcp!GetFrame
    <3>1. /\ Tcp!LentFrames[1] = NoFrame /\ Tcp!LentFrames'[1] = latest
          /\ latest # NoFrame /\ latest.no > tcpLast /\ tcpLast' = latest.no
      BY <2>1 DEF Tcp!GetFrame, Tcp!LentFrames, Ordered
    <3>2. Tcp!Promised!Lend(1)
      BY <3>1 DEF Tcp!Promised!Lend
    <3> QED
      BY <3>2 DEF Tcp!Promised!Next
  <2>2. CASE Tcp!ReleaseFrame
    <3>1. Tcp!Promised!Return(1)
      BY <2>2 DEF Tcp!ReleaseFrame, Tcp!Promised!Return, Tcp!LentFrames
    <3> QED
      BY <3>1 DEF Tcp!Promised!Next
  <2>3. CASE UNCHANGED <<user, tcpLast>>
    BY <2>3 DEF Tcp!Promised!vars, Tcp!LentFrames
  <2>4. CASE Tcp!Reader \/ Tcp!ConnectFails \/ Tcp!Disconnect \/ UNCHANGED tcpVars
    BY <2>3, <2>4
       DEF Tcp!Reader, Tcp!Connect, Tcp!ReadWord, Tcp!ReadBody, Tcp!Store,
           Tcp!ConnectFails, Tcp!Disconnect, tcpVars
  <2> QED
    BY <2>1, <2>2, <2>4 DEF Tcp!Next
<1>3. [Tcp!Next]_(Tcp!vars) => [Tcp!Next]_tcpVars
  BY DEF tcpVars, Tcp!vars, Tcp!streamVars
<1> QED
  BY <1>1, <1>2, <1>3, OrderedInvariant, PTL
     DEF Tcp!Spec, Tcp!Promised!Spec, Tcp!KeepsPromise

-----------------------------------------------------------------------------
(* All of them: each step of MCRobot is a step of one part, or of none.    *)

\* The steps of MCRobot that are a part's: of a servo, and of the Maebot's clock.
LEMMA ServoRuns == RobotSpec => Servo!Spec
<1>1. RobotInit => Servo!Init
  BY DEF RobotInit
<1>2. [RobotNext]_robotVars => [Servo!Next]_servoVars
  BY DEF RobotNext, Step, robotVars, servoVars
<1> QED
  BY <1>1, <1>2, PTL DEF RobotSpec, Servo!Spec, Servo!vars, servoVars

LEMMA ClockRuns == RobotSpec => Maebot!ClockSpec
<1>1. RobotInit => Maebot!ClockInit
  BY DEF RobotInit
<1>2. [RobotNext]_robotVars => [Maebot!ClockNext]_clockVars
  BY DEF RobotNext, Step, robotVars, clockVars
<1> QED
  BY <1>1, <1>2, PTL DEF RobotSpec, Maebot!ClockSpec, Maebot!clockVars, clockVars

\* Of the Maebot's commands, the lidar, and the two cameras.
LEMMA CommandsRun == RobotSpec => Maebot!CommandInit /\ [][Maebot!CommandNext]_commandVars
<1>1. RobotInit => Maebot!CommandInit
  BY DEF RobotInit
<1>2. [RobotNext]_robotVars => [Maebot!CommandNext]_commandVars
  BY DEF RobotNext, Step, robotVars, commandVars
<1> QED
  BY <1>1, <1>2, PTL DEF RobotSpec

LEMMA LidarRuns == RobotSpec => Lidar!Init /\ [][Lidar!Next]_lidarVars
<1>1. RobotInit => Lidar!Init
  BY DEF RobotInit
<1>2. [RobotNext]_robotVars => [Lidar!Next]_lidarVars
  BY DEF RobotNext, Step, robotVars, lidarVars
<1> QED
  BY <1>1, <1>2, PTL DEF RobotSpec

LEMMA UsbRuns == RobotSpec => Usb!Init /\ [][Usb!Next]_usbVars
<1>1. RobotInit => Usb!Init
  BY DEF RobotInit
<1>2. [RobotNext]_robotVars => [Usb!Next]_usbVars
  BY DEF RobotNext, Step, robotVars, usbVars
<1> QED
  BY <1>1, <1>2, PTL DEF RobotSpec

LEMMA TcpRuns == RobotSpec => Tcp!Spec
<1>1. RobotInit => Tcp!Init
  BY DEF RobotInit
<1>2. [RobotNext]_robotVars => [Tcp!Next]_(Tcp!vars)
  BY DEF RobotNext, Step, robotVars, tcpVars, Tcp!vars, Tcp!streamVars
<1> QED
  BY <1>1, <1>2, PTL DEF RobotSpec, Tcp!Spec

\* What the drivers take the mode of a servo and the offset to the Maebot's clock to be is
\* right, and the time stamps they give out are no further off than the limit promises,
\* while the numbers of the clock's requests do not come round.
THEOREM DriversStayInformed ==
  ASSUME Maebot!ClockFits
  PROVE  RobotSpec => []DriversKnowDevices
<1>1. Maebot!ClockSpec => [](Maebot!OffsetIsClose /\ Maebot!StampsAreClose)
  BY Maebot!OffsetStaysKnown
<1> QED
  BY <1>1, ModeStaysKnown, ServoRuns, ClockRuns, PTL DEF DriversKnowDevices

\* The bytes of two commands do not mix, nor those of two revolutions of the lidar in a
\* scan, nor those of two frames of a camera: for revolutions, frames, packets and pools
\* of any size that start and the lidar accept, whatever is lost on the way.
THEOREM BytesAreKeptApart ==
  ASSUME None \notin Maebot!Threads, LidarFits, UsbFits, TcpFits
  PROVE  RobotSpec => []BytesStayTogether
<1>1. RobotSpec => []Maebot!CommandsApart
  <2>1. Maebot!CommandInit /\ [][Maebot!CommandNext]_(Maebot!commandVars)
        => []Maebot!CommandsApart
    BY Maebot!BytesOfOneThread
  <2>2. [Maebot!CommandNext]_commandVars => [Maebot!CommandNext]_(Maebot!commandVars)
    BY DEF commandVars, Maebot!commandVars, Maebot!sendVars, Maebot!ledVars
  <2> QED
    BY <2>1, <2>2, CommandsRun, PTL
<1>2. RobotSpec => []Lidar!ScansAreComplete
  BY LidarRuns, ScansStayComplete, PTL
<1>3. RobotSpec => [](Usb!QueueIsShort /\ Usb!FramesAreWhole)
  BY UsbRuns, FramesStayWhole, PTL
<1>4. RobotSpec => []Tcp!FramesAreWhole
  BY TcpRuns, WholeFramesOnly, PTL
<1> QED
  BY <1>1, <1>2, <1>3, <1>4, PTL DEF BytesStayTogether

\* However often a servo is asked for the mode it has, its EEPROM is left alone.
THEOREM EepromStaysSpared == RobotSpec => EepromSpared
BY EepromIsSpared, ServoRuns, PTL DEF EepromSpared

\* No frame of a camera changes while it is lent, none comes twice or late, and the USB
\* camera has no image to fill only while the caller holds all but one, whatever the
\* cameras send, for a pool, frames and packets of any size that start accepts.
THEOREM FramesAreLentSoundly ==
  ASSUME UsbFits, LentFits, TcpFits
  PROVE  RobotSpec => FramesLentSoundly
BY UsbRuns, UsbLendsSoundly, TcpRuns, TcpKeepsPromise, PTL DEF FramesLentSoundly
=============================================================================
