---------------------------- MODULE MaebotDriver ----------------------------
(***************************************************************************)
(* maebot_driver, the program between LCM and the Maebot's controller, the *)
(* SAMA5, in two parts that share no state here.                           *)
(*                                                                         *)
(* How the host comes to know the clock of the controller:                 *)
(* poll_sync_thread asks for its time now and then and lets the            *)
(* uncertainty of what is known grow; sama5_reader_thread takes the        *)
(* responses from the line, keeps the offset of the best round trip, and   *)
(* stamps every other response with the host's time.  Time passes only     *)
(* while the poll thread sleeps: what sending takes is not counted in      *)
(* Interval.  The line may lose a request or a response, or spoil one, and *)
(* may be as slow as it likes.                                             *)
(*                                                                         *)
(* How commands get out: the poll threads and the handlers of LCM messages *)
(* share the line to the controller under mutex_tx; the colours of the two *)
(* top LEDs go through the state to leds_write_thread, which waits for     *)
(* leds_cond and writes them to the I2C bus.  The n-th message on          *)
(* MAEBOT_LEDS_COMMAND asks for colour n on both LEDs.                     *)
(***************************************************************************)
EXTENDS Integers, Sequences, FiniteSets, TLAPS

CONSTANT None

CONSTANTS
  Interval,   (* between two sync requests                                 *)
  Growth,     (* duncertainty: how far the clocks may drift in Interval    *)
  Limit,      (* with more uncertainty than this responses are dropped     *)
  Unknown,    (* INT64_MAX: the uncertainty before the first sync          *)
  Ahead0,     (* host time less device time at the start                   *)
  XidCount,   (* 2^16                                                      *)
  MaxTime,    (* bound                                                     *)
  MaxLine     (* bound: responses in the line                              *)

VARIABLES
  now,        (* the host's clock                                          *)
  ahead,      (* the host's clock less the device's: the true offset       *)
  wakeAt,     (* when poll_sync_thread wakes                               *)
  lastXid,    (* sync_last_xid                                             *)
  request,    (* the sync request on its way to the device, or None        *)
  line,       (* responses on their way back                               *)
  reading,    (* the response whose first byte has been read, or None      *)
  offset,     (* utime_offset                                              *)
  uncertainty, (* utime_offset_uncertainty                                 *)
  published   (* history: how far off the last stamp given out is          *)

clockVars == <<now, ahead, wakeAt, lastXid, request, line, reading, offset, uncertainty,
               published>>

Distance(a, b) == IF a < b THEN b - a ELSE a - b

-----------------------------------------------------------------------------
\* Mutant of Grown: the drift since the last sync is forgotten.
Grown_Not(u) == u

\* The sum that overflows INT64_MAX is negative and put back there.
Grown(u) == IF u = Unknown THEN Unknown ELSE u + Growth

\* One turn of poll_sync_thread: what is known has aged by an Interval, and
\* the device is asked again.  The first turn has no sleep before it.
PollSync ==
  /\ now = wakeAt
  /\ wakeAt' = now + Interval
  /\ uncertainty' = IF now = 0 THEN uncertainty ELSE Grown(uncertainty)
  /\ lastXid' = (lastXid + 1) % XidCount
  /\ request' \in {None, [xid |-> lastXid', sent |-> now]}
  /\ UNCHANGED <<now, ahead, line, reading, offset, published>>

\* The device stamps what it sends: the response to a sync, which repeats
\* the time of the request, or one to another request.
Respond ==
  /\ Len(line) < MaxLine
  /\ \/ /\ request # None
        /\ request' = None
        /\ line' = Append(line, [sync |-> TRUE, xid |-> request.xid, sent |-> request.sent,
                                 device |-> now - ahead, stamped |-> now])
     \/ /\ request' = request
        /\ line' = Append(line, [sync |-> FALSE, device |-> now - ahead, stamped |-> now])
  /\ UNCHANGED <<now, ahead, wakeAt, lastXid, reading, offset, uncertainty, published>>

\* A response is lost, or its checksum comes out wrong and it is dropped.
Lose ==
  /\ line # <<>>
  /\ line' = Tail(line)
  /\ UNCHANGED <<now, ahead, wakeAt, lastXid, request, reading, offset, uncertainty,
                 published>>

\* Between two turns of the poll thread the clocks drift by Growth at most: as soon as
\* it sleeps.
Tick ==
  /\ now < wakeAt
  /\ now < MaxTime
  /\ now' = now + 1
  /\ IF now = wakeAt - Interval THEN ahead' \in (ahead - Growth) .. (ahead + Growth)
     ELSE ahead' = ahead
  /\ UNCHANGED <<wakeAt, lastXid, request, line, reading, offset, uncertainty, published>>

-----------------------------------------------------------------------------
\* The reader: capture_utime and response.utime, before the rest is read.
Capture ==
  /\ reading = None
  /\ line # <<>>
  /\ reading' = [response |-> Head(line), captured |-> now,
                 utime |-> offset + Head(line).device]
  /\ line' = Tail(line)
  /\ UNCHANGED <<now, ahead, wakeAt, lastXid, request, offset, uncertainty, published>>

\* utime_offset: the device is taken to have answered midway.
BestOffset(send, recv, device) == (send \div 2 + recv \div 2) - device

\* response_sync: only the response to the last request counts, and only if
\* the round trip was shorter than what is known is uncertain.  No round
\* trip takes no time (the assertion).
Sync ==
  /\ reading # None
  /\ LET r == reading.response IN
     /\ r.sync
     /\ IF r.xid = lastXid /\ reading.captured - r.sent < uncertainty
        THEN /\ reading.captured > r.sent
             /\ uncertainty' = reading.captured - r.sent
             /\ offset' = BestOffset(r.sent, reading.captured, r.device)
        ELSE UNCHANGED <<offset, uncertainty>>
  /\ reading' = None
  /\ UNCHANGED <<now, ahead, wakeAt, lastXid, request, line, published>>

\* Mutant of Dropped: a response is stamped whatever is known of the clock.
Dropped_Never == FALSE

\* Dropping response due to high offset error.
Dropped == uncertainty > Limit

\* Any other response is published with the time it was stamped, in the
\* host's time, or dropped.
Publish ==
  /\ reading # None
  /\ ~reading.response.sync
  /\ published' = IF Dropped THEN published
                  ELSE Distance(reading.utime, reading.response.stamped)
  /\ reading' = None
  /\ UNCHANGED <<now, ahead, wakeAt, lastXid, request, line, offset, uncertainty>>

ClockInit ==
  /\ now = 0 /\ ahead = Ahead0 /\ wakeAt = 0
  /\ lastXid = 0
  /\ request = None /\ line = <<>> /\ reading = None
  /\ offset = 0 /\ uncertainty = Unknown
  /\ published = 0

ClockNext == PollSync \/ Respond \/ Lose \/ Tick \/ Capture \/ Sync \/ Publish

ClockSpec == ClockInit /\ [][ClockNext]_clockVars

-----------------------------------------------------------------------------
\* utime_offset is never further from the truth than
\* utime_offset_uncertainty says, but for the drift of the sleep that is not
\* over yet (response_sync keeps the best round trip, poll_sync_thread ages
\* it, each at its own pace).
OffsetIsClose ==
  uncertainty # Unknown => Distance(offset, ahead) <= uncertainty + Growth

\* No response is given out with a time that is off by more than the limit
\* promises, however long it lay in the line ("handlers go HERE where we know
\* we have a reasonable time offset").
StampsAreClose == published <= Limit + 2 * Growth

-----------------------------------------------------------------------------
(* Commands.                                                               *)

CONSTANTS
  Pollers,      (* threads that only send requests                         *)
  Handler,      (* lcm_handle_thread                                       *)
  MaxCommands,  (* bound: messages                                         *)
  MaxPolls      (* bound: requests                                         *)

Threads == Pollers \cup {Handler}

VARIABLES
  pc,        (* per thread: where it is                                    *)
  txOwner,   (* who holds mutex_tx, or None                                *)
  packet,    (* what the controller has of the packet now coming in        *)
  asked,     (* LED messages handled or in hand                            *)
  polled,    (* history: requests sent                                     *)
  colours,   (* leds_left, leds_right                                      *)
  ledPc,     (* leds_write_thread: "wait", "woken", "left"; at I2C "write" *)
  writing,   (* the colours it has read                                    *)
  shown,     (* what the LEDs show                                         *)
  woken      (* history: the last message whose broadcast woke the thread  *)

sendVars == <<pc, txOwner, packet, asked, polled>>
ledVars  == <<ledPc, writing, shown>>
commandVars == <<sendVars, colours, ledVars, woken>>

Led == {"left", "right"}

Parts == <<"header", "data", "checksum">>

-----------------------------------------------------------------------------
\* A poll thread wakes, and a message is handled: on_diff_drive does no more
\* than send a command, as the polls do; on_leds sends one for the bottom
\* LEDs first.
Poll(t) ==
  /\ t \in Pollers
  /\ pc[t] = "idle"
  /\ polled < MaxPolls
  /\ polled' = polled + 1
  /\ pc' = [pc EXCEPT ![t] = "lock"]
  /\ UNCHANGED <<txOwner, packet, asked, colours, ledVars, woken>>

OnLeds ==
  /\ pc[Handler] = "idle"
  /\ asked < MaxCommands
  /\ asked' = asked + 1
  /\ pc' = [pc EXCEPT ![Handler] = "lock"]
  /\ UNCHANGED <<txOwner, packet, polled, colours, ledVars, woken>>

\* Mutant of TxFree: the mutex is not taken.
TxFree_Always == TRUE

TxFree == txOwner = None

\* actual_send_command_to_sama5: byte by byte, under mutex_tx.
Lock(t) ==
  /\ pc[t] = "lock"
  /\ TxFree
  /\ txOwner' = t
  /\ pc' = [pc EXCEPT ![t] = Parts[1]]
  /\ UNCHANGED <<packet, asked, polled, colours, ledVars, woken>>

AfterSending(t) == IF t = Handler THEN "store" ELSE "idle"

\* With the checksum the controller takes the packet, whole or not.
Write(t) ==
  /\ \E k \in DOMAIN Parts :
       /\ pc[t] = Parts[k]
       /\ packet' = Append(packet, [by |-> t, part |-> Parts[k]])
       /\ pc' = [pc EXCEPT ![t] = IF k = Len(Parts) THEN "unlock" ELSE Parts[k + 1]]
  /\ UNCHANGED <<txOwner, asked, polled, colours, ledVars, woken>>

Unlock(t) ==
  /\ pc[t] = "unlock"
  /\ packet' = <<>>
  /\ txOwner' = None
  /\ pc' = [pc EXCEPT ![t] = AfterSending(t)]
  /\ UNCHANGED <<asked, polled, colours, ledVars, woken>>

-----------------------------------------------------------------------------
\* Mutant of Stored: the colours are stored after the broadcast, not before.
Stored_Later == [led \in Led |-> asked - 1]

\* The colours the message asks for, as leds_left and leds_right.
Stored == [led \in Led |-> asked]

\* on_leds: the top LEDs.  The LED thread does not take mutex_state to read
\* them, but no two handlers run at once.
StoreLeft ==
  /\ pc[Handler] = "store"
  /\ colours' = [colours EXCEPT !["left"] = Stored["left"]]
  /\ pc' = [pc EXCEPT ![Handler] = "store right"]
  /\ UNCHANGED <<txOwner, packet, asked, polled, ledVars, woken>>

StoreRight ==
  /\ pc[Handler] = "store right"
  /\ colours' = [colours EXCEPT !["right"] = Stored["right"]]
  /\ pc' = [pc EXCEPT ![Handler] = "signal"]
  /\ UNCHANGED <<txOwner, packet, asked, polled, ledVars, woken>>

\* pthread_cond_broadcast wakes the thread if it waits, and is lost if not.
Broadcast ==
  /\ pc[Handler] = "signal"
  /\ IF ledPc = "wait" THEN ledPc' = "woken" /\ woken' = asked
     ELSE UNCHANGED <<ledPc, woken>>
  /\ pc' = [pc EXCEPT ![Handler] = "idle"]
  /\ UNCHANGED <<txOwner, packet, asked, polled, colours, writing, shown>>

\* leds_write_thread reads the two colours one after the other and writes
\* them to the bus; then it waits again, whatever has come in between.
ReadRight ==
  /\ ledPc = "woken"
  /\ writing' = [writing EXCEPT !["right"] = colours["right"]]
  /\ ledPc' = "left"
  /\ UNCHANGED <<sendVars, colours, shown, woken>>

ReadLeft ==
  /\ ledPc = "left"
  /\ writing' = [writing EXCEPT !["left"] = colours["left"]]
  /\ ledPc' = "write"
  /\ UNCHANGED <<sendVars, colours, shown, woken>>

LedsWrite ==
  /\ ledPc = "write"
  /\ shown' = writing
  /\ ledPc' = "wait"
  /\ UNCHANGED <<sendVars, colours, writing, woken>>

CommandInit ==
  /\ pc = [t \in Threads |-> "idle"]
  /\ txOwner = None /\ packet = <<>>
  /\ asked = 0 /\ polled = 0
  /\ colours = [led \in Led |-> 0]
  /\ ledPc = "wait" /\ writing = [led \in Led |-> 0] /\ shown = [led \in Led |-> 0]
  /\ woken = 0

Sending(t) == Lock(t) \/ Write(t) \/ Unlock(t)

LedThread == ReadRight \/ ReadLeft \/ LedsWrite

Storing == StoreLeft \/ StoreRight \/ Broadcast

CommandNext ==
  \/ \E t \in Threads : Poll(t) \/ Sending(t)
  \/ OnLeds \/ Storing \/ LedThread

\* The threads run.
CommandSpec ==
  /\ CommandInit /\ [][CommandNext]_commandVars
  /\ \A t \in Threads : SF_commandVars(Sending(t))
  /\ WF_commandVars(Storing) /\ WF_commandVars(LedThread)

-----------------------------------------------------------------------------
\* The controller never gets the bytes of two commands mixed, though seven
\* threads write to the line a byte at a time (mutex_tx).
CommandsApart ==
  \A i, j \in DOMAIN packet : packet[i].by = packet[j].by

\* Colours whose broadcast wakes the LED thread come out on both LEDs, or
\* newer ones do, though the thread reads them without the mutex.  (A
\* broadcast made while the thread writes is lost: those colours may never
\* be shown.)
WokenIsShown ==
  \A n \in 1 .. MaxCommands :
    woken = n ~> \A led \in Led : shown[led] >= n

-----------------------------------------------------------------------------
(* Proof.                                                                  *)

Sent == {"header", "data", "checksum", "unlock"}

Places == Sent \cup {"idle", "lock", "store", "store right", "signal"}

Bytes == [by : Threads, part : Sent]

\* What CommandsApart rests on: who is among the bytes of a command holds mutex_tx ...
HolderSends ==
  /\ pc \in [Threads -> Places]
  /\ \A t \in Threads : pc[t] \in Sent => txOwner = t

\* ... and what the controller has got is the holder's.
PacketIsHolders ==
  /\ packet \in Seq(Bytes)
  /\ \A i \in 1 .. Len(packet) : packet[i].by = txOwner
  /\ txOwner = None => packet = <<>>

\* The parts of a command.
LEMMA PartsInOrder ==
  /\ DOMAIN Parts = {1, 2, 3} /\ Len(Parts) = 3
  /\ Parts[1] = "header" /\ Parts[2] = "data" /\ Parts[3] = "checksum"
BY DEF Parts

\* One byte more of a command.
LEMMA WriteSends ==
  ASSUME NEW t \in Threads, Write(t)
  PROVE  /\ pc[t] \in Sent /\ txOwner' = txOwner
         /\ \E to \in Sent : pc' = [pc EXCEPT ![t] = to]
         /\ \E part \in Sent : packet' = Append(packet, [by |-> t, part |-> part])
<1>1. PICK k \in {1, 2, 3} :
        /\ pc[t] = Parts[k]
        /\ packet' = Append(packet, [by |-> t, part |-> Parts[k]])
        /\ pc' = [pc EXCEPT ![t] = IF k = 3 THEN "unlock" ELSE Parts[k + 1]]
        /\ txOwner' = txOwner
  BY PartsInOrder DEF Write
<1>2. Parts[k] \in Sent
      /\ (IF k = 3 THEN "unlock" ELSE Parts[k + 1]) \in Sent
  BY PartsInOrder DEF Sent
<1>3. \E to \in Sent : pc' = [pc EXCEPT ![t] = to]
  <2> USE <1>2
  <2> WITNESS (IF k = 3 THEN "unlock" ELSE Parts[k + 1]) \in Sent
  <2> QED
    BY <1>1
<1>4. \E part \in Sent : packet' = Append(packet, [by |-> t, part |-> part])
  <2> USE <1>2
  <2> WITNESS Parts[k] \in Sent
  <2> QED
    BY <1>1
<1> QED
  BY <1>1, <1>2, <1>3, <1>4

\* Whatever is fair, no step mixes the bytes of two commands.
LEMMA BytesOfOneThread ==
  ASSUME None \notin Threads
  PROVE  CommandInit /\ [][CommandNext]_commandVars => []CommandsApart
<1>1. CommandInit => HolderSends /\ PacketIsHolders
  BY DEF CommandInit, HolderSends, PacketIsHolders, Places, Sent
<1>2. HolderSends /\ [CommandNext]_commandVars => HolderSends'
  <2> SUFFICES ASSUME HolderSends, [CommandNext]_commandVars PROVE HolderSends'
    OBVIOUS
  <2> USE DEF HolderSends, Places, Sent
  <2>1. ASSUME NEW t \in Threads, Poll(t) PROVE HolderSends'
    BY <2>1 DEF Poll
  <2>2. ASSUME NEW t \in Threads, Lock(t) PROVE HolderSends'
    BY <2>2 DEF Lock, TxFree, Parts
  <2>3. ASSUME NEW t \in Threads, Write(t) PROVE HolderSends'
    <3>1. /\ pc[t] \in Sent /\ txOwner' = txOwner
          /\ \E to \in Sent : pc' = [pc EXCEPT ![t] = to]
      BY <2>3, WriteSends
    <3>2. PICK to \in Sent : pc' = [pc EXCEPT ![t] = to]
      BY <3>1
    <3>3. pc'[t] \in Sent /\ \A u \in Threads \ {t} : pc'[u] = pc[u]
      BY <3>2
    <3>4. pc' \in [Threads -> Places]
      BY <3>2
    <3> QED
      BY <3>1, <3>3, <3>4
  <2>4. ASSUME NEW t \in Threads, Unlock(t) PROVE HolderSends'
    BY <2>4 DEF Unlock, AfterSending
  <2>5. CASE OnLeds
    BY <2>5 DEF OnLeds, Threads
  <2>6. CASE Storing
    BY <2>6 DEF Storing, StoreLeft, StoreRight, Broadcast, Threads
  <2>7. CASE LedThread \/ UNCHANGED commandVars
    BY <2>7 DEF LedThread, ReadRight, ReadLeft, LedsWrite, commandVars, sendVars
  <2> QED
    BY <2>1, <2>2, <2>3, <2>4, <2>5, <2>6, <2>7 DEF CommandNext, Sending
<1>3. HolderSends /\ PacketIsHolders /\ [CommandNext]_commandVars => PacketIsHolders'
  <2> SUFFICES ASSUME HolderSends, PacketIsHolders, [CommandNext]_commandVars
               PROVE PacketIsHolders'
    OBVIOUS
  <2>1. ASSUME NEW t \in Threads, Lock(t) PROVE PacketIsHolders'
    BY <2>1 DEF Lock, TxFree, PacketIsHolders
  <2>2. ASSUME NEW t \in Threads, Write(t) PROVE PacketIsHolders'
    <3>1. /\ pc[t] \in Sent /\ txOwner' = txOwner
          /\ \E part \in Sent : packet' = Append(packet, [by |-> t, part |-> part])
      BY <2>2, WriteSends
    <3>2. txOwner = t /\ txOwner # None
      BY <3>1 DEF HolderSends
    <3>3. PICK part \in Sent : packet' = Append(packet, [by |-> t, part |-> part])
      BY <3>1
    <3>4. [by |-> t, part |-> part] \in Bytes
      BY DEF Bytes
    <3> QED
      BY <3>1, <3>2, <3>3, <3>4 DEF PacketIsHolders
  <2>3. ASSUME NEW t \in Threads, Unlock(t) PROVE PacketIsHolders'
    BY <2>3 DEF Unlock, PacketIsHolders
  <2>4. CASE UNCHANGED <<txOwner, packet>>
    BY <2>4 DEF PacketIsHolders
  <2> QED
    BY <2>1, <2>2, <2>3, <2>4
       DEF CommandNext, Sending, Poll, OnLeds, Storing, StoreLeft, StoreRight, Broadcast,
           LedThread, ReadRight, ReadLeft, LedsWrite, commandVars, sendVars
<1>4. PacketIsHolders => CommandsApart
  <2>1. packet \in Seq(Bytes) => DOMAIN packet = 1 .. Len(packet)
    OBVIOUS
  <2> QED
    BY <2>1 DEF PacketIsHolders, CommandsApart
<1> QED
  BY <1>1, <1>2, <1>3, <1>4, PTL

\* However many threads send commands to the controller, their bytes stay apart.
THEOREM CommandsStayApart ==
  ASSUME None \notin Threads
  PROVE  CommandSpec => []CommandsApart
BY BytesOfOneThread, PTL DEF CommandSpec

-----------------------------------------------------------------------------
\* The clock.  The constants are times; a request's number does not come round again
\* while the program is watched (for nine hours, as the options are by default).
ClockFits ==
  /\ Interval \in Nat \ {0} /\ Growth \in Nat /\ Limit \in Nat
  /\ Unknown \in Int /\ Unknown > Limit
  /\ Ahead0 \in Int
  /\ XidCount \in Nat \ {0} /\ MaxTime \in Nat /\ MaxTime < XidCount * Interval

Xids == 0 .. XidCount - 1

Requests == [xid : Xids, sent : Int]

Responses ==
  [sync : {TRUE}, xid : Xids, sent : Int, device : Int, stamped : Int]
    \cup [sync : {FALSE}, device : Int, stamped : Int]

Readings == [response : Responses, captured : Int, utime : Int]

\* When the request of that number is sent.
SentAt(xid) == Interval * (IF xid = 0 THEN XidCount - 1 ELSE xid - 1)

\* The host's clock less the device's when the device stamped the response.
AheadAt(r) == r.stamped - r.device

\* How far the clocks may have drifted since the poll thread last ran.
Drift == IF now = wakeAt - Interval THEN 0 ELSE Growth

\* The poll thread's turns and the numbers of its requests go together.
TurnsAreCounted ==
  /\ now \in Nat /\ now <= MaxTime /\ wakeAt \in Nat /\ lastXid \in Xids
  /\ \/ now = 0 /\ wakeAt = 0 /\ lastXid = 0 /\ uncertainty = Unknown
     \/ /\ wakeAt = SentAt(lastXid) + Interval
        /\ wakeAt - Interval <= now /\ now <= wakeAt /\ wakeAt > 0

\* A request on its way says when it was sent.
RequestIsDated ==
  request # None =>
    request \in Requests /\ request.sent = SentAt(request.xid) /\ request.sent <= now

\* A response tells how the clocks were when it was stamped, and if that was since the
\* poll thread last ran they have not drifted far.
Timely(r) ==
  /\ r \in Responses
  /\ r.stamped <= now
  /\ r.stamped = now => AheadAt(r) = ahead
  /\ r.stamped >= wakeAt - Interval => Distance(AheadAt(r), ahead) <= Drift
  /\ r.sync => r.sent = SentAt(r.xid) /\ r.sent <= r.stamped

\* What is known of the clock, in the middle of an interval.
OffsetIsCloser ==
  /\ ahead \in Int /\ offset \in Int /\ uncertainty \in Int
  /\ uncertainty # Unknown => Distance(offset, ahead) <= uncertainty + Drift

\* It is close enough to what it was when a response still to come was stamped ...
CloseTo(r) == uncertainty # Unknown => Distance(offset, AheadAt(r)) <= uncertainty + 2 * Growth

\* ... as the responses come in the order they were stamped.
LineIsTimely ==
  /\ line \in Seq(Responses)
  /\ \A i \in 1 .. Len(line) : Timely(line[i]) /\ CloseTo(line[i])
  /\ \A i, j \in 1 .. Len(line) : i <= j => line[i].stamped <= line[j].stamped

\* The one being read came before the line, and has its stamp already.
ReadingIsTimely ==
  reading # None =>
    /\ reading \in Readings
    /\ Timely(reading.response)
    /\ reading.response.stamped <= reading.captured /\ reading.captured <= now
    /\ \A i \in 1 .. Len(line) : reading.response.stamped <= line[i].stamped
    /\ ~reading.response.sync /\ uncertainty # Unknown =>
         Distance(reading.utime, reading.response.stamped) <= uncertainty + 2 * Growth

StampIsClose == published \in Int /\ StampsAreClose

\* What OffsetIsClose and StampsAreClose rest on.
ClockIsKnown ==
  /\ TurnsAreCounted /\ RequestIsDated /\ OffsetIsCloser
  /\ LineIsTimely /\ ReadingIsTimely /\ StampIsClose

\* The next request has the next number.
LEMMA NextIsDated ==
  ASSUME ClockFits, NEW n \in Xids, NEW t \in Nat, t <= MaxTime,
         (n = 0 /\ t = 0) \/ t = SentAt(n) + Interval
  PROVE  (n + 1) % XidCount \in Xids /\ SentAt((n + 1) % XidCount) = t
<1>1. n + 1 <= XidCount /\ XidCount \in Nat \ {0} /\ n \in Nat
  BY DEF ClockFits, Xids
<1>2. (n + 1) % XidCount = IF n + 1 = XidCount THEN 0 ELSE n + 1
  BY <1>1
<1>3. (n + 1) % XidCount \in Xids
  BY <1>1, <1>2 DEF Xids
<1>4. Interval \in Nat \ {0} /\ t < XidCount * Interval
  BY DEF ClockFits
<1>5. CASE n = 0 /\ t = 0
  <2>1. Interval * 0 = 0
    BY <1>4
  <2> QED
    BY <1>1, <1>2, <1>3, <1>5, <2>1 DEF SentAt
<1>6. CASE t = SentAt(n) + Interval
  <2>1. n # 0
    <3> SUFFICES ASSUME n = 0 PROVE FALSE
      OBVIOUS
    <3>1. t = Interval * (XidCount - 1) + Interval
      BY <1>6 DEF SentAt
    <3>2. Interval * (XidCount - 1) + Interval = XidCount * Interval
      BY <1>1, <1>4
    <3> QED
      BY <1>4, <3>1, <3>2
  <2>2. t = Interval * (n - 1) + Interval
    BY <1>6, <2>1 DEF SentAt
  <2>3. t = Interval * n
    BY <1>1, <1>4, <2>2
  <2>4. SentAt((n + 1) % XidCount) = Interval * n
    BY <1>1, <1>2 DEF SentAt
  <2> QED
    BY <1>3, <2>3, <2>4
<1> QED
  BY <1>5, <1>6

\* When the requests are sent.
LEMMA SentIsATime ==
  ASSUME ClockFits, NEW n \in Xids
  PROVE  SentAt(n) \in Nat
<1>1. Interval \in Nat /\ (IF n = 0 THEN XidCount - 1 ELSE n - 1) \in Nat
  BY DEF ClockFits, Xids
<1>2. \A i, j \in Nat : i * j \in Nat
  OBVIOUS
<1> QED
  BY <1>1, <1>2 DEF SentAt

\* Distances.
LEMMA DistanceIs ==
  ASSUME NEW a \in Int, NEW b \in Int
  PROVE  /\ Distance(a, b) \in Nat
         /\ \A d \in Int : Distance(a, b) <= d <=> a <= b + d /\ b <= a + d
BY DEF Distance

LEMMA DifferenceBack ==
  ASSUME NEW a \in Int, NEW b \in Int
  PROVE  a - (a - b) = b
OBVIOUS

LEMMA DistanceMoves ==
  ASSUME NEW a \in Int, NEW b \in Int, NEW c \in Int
  PROVE  Distance(a + c, b) = Distance(a, b - c)
BY DEF Distance

LEMMA Triangle ==
  ASSUME NEW a \in Int, NEW b \in Int, NEW c \in Int, NEW d \in Int, NEW e \in Int,
         Distance(a, b) <= d, Distance(b, c) <= e
  PROVE  Distance(a, c) <= d + e
BY DEF Distance

LEMMA DriftIsShort ==
  ASSUME NEW a \in Int, NEW g \in Nat, NEW b \in (a - g) .. (a + g)
  PROVE  b \in Int /\ b <= a + g /\ a <= b + g /\ Distance(a, b) <= g
BY DEF Distance

\* The middle of a round trip is no further from any time in it than the trip takes.
LEMMA MidwayIsClose ==
  ASSUME NEW s \in Nat, NEW c \in Nat, NEW t \in Int, s < c, s <= t, t <= c
  PROVE  /\ s \div 2 + c \div 2 \in Int
         /\ s \div 2 + c \div 2 <= t + (c - s) /\ t <= s \div 2 + c \div 2 + (c - s)
<1>1. /\ s \div 2 \in Int /\ 2 * (s \div 2) <= s /\ s <= 2 * (s \div 2) + 1
      /\ c \div 2 \in Int /\ 2 * (c \div 2) <= c /\ c <= 2 * (c \div 2) + 1
  OBVIOUS
<1> QED
  BY <1>1

\* What a response is made of.
LEMMA ResponseFields ==
  ASSUME NEW r \in Responses
  PROVE  /\ r.device \in Int /\ r.stamped \in Int /\ AheadAt(r) \in Int
         /\ r.sync => r.xid \in Xids /\ r.sent \in Int
<1>1. CASE r \in [sync : {TRUE}, xid : Xids, sent : Int, device : Int, stamped : Int]
  <2>1. r.device \in Int /\ r.stamped \in Int
    BY <1>1
  <2>2. r.xid \in Xids /\ r.sent \in Int
    BY <1>1
  <2> QED
    BY <2>1, <2>2 DEF AheadAt
<1>2. CASE r \in [sync : {FALSE}, device : Int, stamped : Int]
  <2>1. r.device \in Int /\ r.stamped \in Int
    BY <1>2
  <2>2. ~r.sync
    BY <1>2
  <2> QED
    BY <2>1, <2>2 DEF AheadAt
<1> QED
  BY <1>1, <1>2 DEF Responses

\* The response that counts answers the request of this turn, and the clocks cannot have
\* drifted more than once since.
LEMMA SyncIsRecent ==
  ASSUME ClockFits, TurnsAreCounted, ReadingIsTimely, reading # None,
         reading.response.sync, reading.response.xid = lastXid,
         reading.captured > reading.response.sent
  PROVE  LET r == reading.response IN
         /\ r \in Responses /\ r.sent \in Nat /\ reading.captured \in Nat
         /\ r.sent = wakeAt - Interval /\ r.sent <= r.stamped
         /\ r.stamped <= reading.captured /\ reading.captured <= now /\ now > 0
         /\ Distance(AheadAt(r), ahead) <= Growth /\ Drift = Growth
<1> DEFINE r == reading.response
<1>1. /\ r \in Responses /\ Timely(r) /\ reading.captured \in Int
      /\ r.stamped <= reading.captured /\ reading.captured <= now
  BY DEF ReadingIsTimely, Readings
<1>2. r.sent = SentAt(r.xid) /\ r.sent <= r.stamped /\ r.xid \in Xids
  BY <1>1, ResponseFields DEF Timely
<1>3. r.sent \in Nat /\ r.stamped \in Int
  BY <1>1, <1>2, SentIsATime, ResponseFields
<1>4. now \in Nat /\ wakeAt \in Nat /\ Interval \in Nat
  BY DEF TurnsAreCounted, ClockFits
<1>5. reading.captured > r.sent
  OBVIOUS
<1>6. now > 0 /\ reading.captured \in Nat
  BY <1>1, <1>3, <1>4, <1>5
<1>7. wakeAt = SentAt(lastXid) + Interval
  BY <1>6 DEF TurnsAreCounted
<1>8. r.sent = wakeAt - Interval
  BY <1>2, <1>3, <1>4, <1>7
<1>9. now # wakeAt - Interval
  BY <1>1, <1>3, <1>4, <1>5, <1>8
<1>10. Drift = Growth
  BY <1>9 DEF Drift
<1>11. r.stamped >= wakeAt - Interval
  BY <1>2, <1>3, <1>4, <1>8
<1> QED
  BY <1>1, <1>2, <1>3, <1>6, <1>8, <1>10, <1>11 DEF Timely

\* The poll thread's turns stay counted.
LEMMA TurnsStayCounted ==
  ASSUME ClockFits, TurnsAreCounted, ReadingIsTimely, [ClockNext]_clockVars
  PROVE  TurnsAreCounted'
<1> USE DEF TurnsAreCounted
<1>1. CASE PollSync
  <2>1. /\ now = wakeAt /\ now' = now /\ wakeAt' = now + Interval
        /\ lastXid' = (lastXid + 1) % XidCount
    BY <1>1 DEF PollSync
  <2>2. lastXid' \in Xids /\ SentAt(lastXid') = now
    BY <2>1, NextIsDated
  <2>3. SentAt(lastXid)' = SentAt(lastXid')
    BY DEF SentAt
  <2> QED
    BY <2>1, <2>2, <2>3 DEF ClockFits
<1>2. CASE Tick
  <2>1. now' = now + 1 /\ now < wakeAt /\ now < MaxTime /\ UNCHANGED <<wakeAt, lastXid>>
    BY <1>2 DEF Tick
  <2>2. SentAt(lastXid)' = SentAt(lastXid)
    BY <2>1 DEF SentAt
  <2> QED
    BY <2>1, <2>2 DEF ClockFits
<1>3. CASE Sync
  <2>1. UNCHANGED <<now, wakeAt, lastXid>>
    BY <1>3 DEF Sync
  <2>2. SentAt(lastXid)' = SentAt(lastXid)
    BY <2>1 DEF SentAt
  <2>3. CASE UNCHANGED uncertainty
    BY <2>1, <2>2, <2>3
  <2>4. CASE uncertainty' # uncertainty
    <3>1. /\ reading # None /\ reading.response.sync /\ reading.response.xid = lastXid
          /\ reading.captured > reading.response.sent
      BY <1>3, <2>4 DEF Sync
    <3>2. now > 0
      BY <3>1, SyncIsRecent
    <3> QED
      BY <2>1, <2>2, <3>2
  <2> QED
    BY <2>3, <2>4
<1>4. CASE UNCHANGED <<now, wakeAt, lastXid, uncertainty>>
  <2>1. SentAt(lastXid)' = SentAt(lastXid)
    BY <1>4 DEF SentAt
  <2> QED
    BY <1>4, <2>1
<1> QED
  BY <1>1, <1>2, <1>3, <1>4
     DEF ClockNext, Respond, Lose, Capture, Publish, clockVars

\* What a response tells stays true.
LEMMA TimelyStays ==
  ASSUME ClockFits, TurnsAreCounted, ahead \in Int, NEW r, Timely(r),
         PollSync \/ Tick \/ UNCHANGED <<now, ahead, wakeAt>>
  PROVE  Timely(r)'
<1> USE DEF Timely
<1>1. r.stamped \in Int /\ AheadAt(r) \in Int
  BY ResponseFields
<1>2. AheadAt(r)' = AheadAt(r) /\ (r.sync => SentAt(r.xid)' = SentAt(r.xid))
  BY DEF AheadAt, SentAt
<1>3. now \in Nat /\ wakeAt \in Nat /\ Growth \in Nat /\ Interval \in Nat \ {0}
  BY DEF TurnsAreCounted, ClockFits
<1>4. CASE PollSync
  <2>1. now' = now /\ ahead' = ahead /\ wakeAt' = now + Interval
    BY <1>4 DEF PollSync
  <2>2. Drift' = 0
    BY <1>3, <2>1 DEF Drift
  <2>3. r.stamped >= wakeAt' - Interval => r.stamped = now
    BY <1>1, <1>3, <2>1
  <2>4. AheadAt(r) = ahead => Distance(AheadAt(r), ahead') <= 0
    BY <1>1, <2>1 DEF Distance
  <2> QED
    BY <1>2, <2>1, <2>2, <2>3, <2>4 DEF Distance
<1>5. CASE Tick
  <2>1. /\ now < wakeAt /\ now' = now + 1 /\ wakeAt' = wakeAt
        /\ IF now = wakeAt - Interval THEN ahead' \in (ahead - Growth) .. (ahead + Growth)
           ELSE ahead' = ahead
    BY <1>5 DEF Tick
  <2>2. r.stamped <= now' /\ r.stamped # now'
    BY <1>1, <1>3, <2>1
  <2>3. wakeAt - Interval <= now
    BY <1>3, <2>1 DEF TurnsAreCounted
  <2>4. Drift' = Growth
    BY <1>3, <2>1, <2>3 DEF Drift
  <2>5. r.stamped >= wakeAt - Interval => Distance(AheadAt(r), ahead') <= Growth
    <3>1. CASE now = wakeAt - Interval
      <4>1. ahead' \in (ahead - Growth) .. (ahead + Growth)
        BY <2>1, <3>1
      <4>2. r.stamped >= wakeAt - Interval => r.stamped = now
        BY <1>1, <1>3, <3>1
      <4>3. AheadAt(r) = ahead => Distance(AheadAt(r), ahead') <= Growth
        BY <1>3, <4>1, DriftIsShort
      <4> QED
        BY <4>2, <4>3
    <3>2. CASE now # wakeAt - Interval
      BY <2>1, <3>2 DEF Drift
    <3> QED
      BY <3>1, <3>2
  <2> QED
    BY <1>2, <2>1, <2>2, <2>4, <2>5 DEF Distance
<1>6. CASE UNCHANGED <<now, ahead, wakeAt>>
  BY <1>2, <1>6 DEF Drift, Distance
<1> QED
  BY <1>4, <1>5, <1>6

\* So does how far off the offset is: what is known of the clock only ages.
LEMMA AgingIsSafe ==
  ASSUME ClockFits, NEW d \in Int, NEW u \in Int, u # Unknown => d <= u + 2 * Growth,
         NEW v \in {u, Grown(u)}
  PROVE  v \in Int /\ (v # Unknown => d <= v + 2 * Growth)
<1>1. Growth \in Nat /\ Unknown \in Int
  BY DEF ClockFits
<1>2. v = u \/ (v = Unknown /\ u = Unknown) \/ (v = u + Growth /\ u # Unknown)
  BY DEF Grown
<1> QED
  BY <1>1, <1>2

LEMMA CloseStays ==
  ASSUME ClockFits, NEW r \in Responses, CloseTo(r), offset \in Int, uncertainty \in Int,
         offset' = offset, uncertainty' \in {uncertainty, Grown(uncertainty)}
  PROVE  CloseTo(r)'
<1>1. Distance(offset, AheadAt(r)) \in Int
  BY ResponseFields, DistanceIs
<1>2. uncertainty' # Unknown => Distance(offset, AheadAt(r)) <= uncertainty' + 2 * Growth
  BY <1>1, AgingIsSafe DEF CloseTo
<1>3. AheadAt(r)' = AheadAt(r)
  BY DEF AheadAt
<1> QED
  BY <1>2, <1>3 DEF CloseTo, Distance

\* The offset of the best round trip is no further off than the trip took, for the response
\* it rests on, and for what comes after it on the line.
LEMMA SyncIsClose ==
  ASSUME ClockFits, TurnsAreCounted, ReadingIsTimely, ahead \in Int, Sync,
         <<offset, uncertainty>>' # <<offset, uncertainty>>
  PROVE  /\ offset' \in Int /\ uncertainty' \in Nat /\ Drift = Growth
         /\ UNCHANGED <<now, ahead, wakeAt>>
         /\ Distance(offset', ahead) <= uncertainty' + Growth
         /\ \A r \in Responses :
              Timely(r) /\ reading.response.stamped <= r.stamped =>
                Distance(offset', AheadAt(r)) <= uncertainty' + 2 * Growth
<1> DEFINE r == reading.response
           mid == r.sent \div 2 + reading.captured \div 2
           trip == reading.captured - r.sent
<1>1. /\ reading # None /\ r.sync /\ r.xid = lastXid /\ reading.captured > r.sent
      /\ uncertainty' = trip /\ offset' = mid - r.device
      /\ UNCHANGED <<now, ahead, wakeAt>>
  <2>1. r.xid = lastXid /\ reading.captured - r.sent < uncertainty
    BY Zenon DEF Sync
  <2>2. /\ reading.captured > r.sent /\ uncertainty' = trip
        /\ offset' = BestOffset(r.sent, reading.captured, r.device)
    BY <2>1 DEF Sync
  <2>3. reading # None /\ r.sync /\ UNCHANGED <<now, ahead, wakeAt>>
    BY Zenon DEF Sync
  <2>4. offset' = mid - r.device
    BY <2>2, Zenon DEF BestOffset
  <2> QED
    BY <2>1, <2>2, <2>3, <2>4, Zenon
<1>2. /\ r \in Responses /\ r.sent \in Nat /\ reading.captured \in Nat
      /\ r.sent = wakeAt - Interval /\ r.sent <= r.stamped
      /\ r.stamped <= reading.captured
      /\ Distance(AheadAt(r), ahead) <= Growth /\ Drift = Growth
  BY <1>1, SyncIsRecent
<1>3. r.device \in Int /\ r.stamped \in Int /\ AheadAt(r) \in Int
      /\ AheadAt(r) = r.stamped - r.device
  BY <1>2, ResponseFields DEF AheadAt
<1>4. trip \in Nat /\ Growth \in Nat
  BY <1>1, <1>2 DEF ClockFits
<1>5. mid \in Int /\ mid <= r.stamped + trip /\ r.stamped <= mid + trip
  BY <1>1, <1>2, <1>3, MidwayIsClose
<1> HIDE DEF mid, trip, r
<1>6. offset' \in Int /\ Distance(offset', AheadAt(r)) <= trip
  <2>1. ASSUME NEW m \in Int, m <= r.stamped + trip, r.stamped <= m + trip
        PROVE  m - r.device \in Int /\ Distance(m - r.device, r.stamped - r.device) <= trip
    BY <1>3, <1>4, <2>1 DEF Distance
  <2> QED
    BY <1>1, <1>3, <1>5, <2>1
<1>7. Distance(offset', ahead) <= trip + Growth
  BY <1>2, <1>3, <1>4, <1>6, Triangle
<1>8. ASSUME NEW q \in Responses, Timely(q), r.stamped <= q.stamped
      PROVE  Distance(offset', AheadAt(q)) <= trip + 2 * Growth
  <2>1. q.stamped \in Int /\ AheadAt(q) \in Int
    BY ResponseFields
  <2>2. wakeAt \in Nat /\ Interval \in Nat
    BY DEF TurnsAreCounted, ClockFits
  <2>3. q.stamped >= wakeAt - Interval
    BY <1>2, <1>3, <1>8, <2>1, <2>2
  <2>4. Distance(AheadAt(q), ahead) <= Growth
    BY <1>2, <1>8, <2>3 DEF Timely
  <2>5. Distance(ahead, AheadAt(q)) <= Growth
    BY <1>4, <2>1, <2>4, DistanceIs
  <2>6. Distance(offset', AheadAt(q)) <= (trip + Growth) + Growth
    BY <1>4, <1>6, <1>7, <2>1, <2>5, Triangle
  <2> QED
    BY <1>4, <2>6
<1> QED
  BY <1>1, <1>2, <1>4, <1>6, <1>7, <1>8 DEF r

\* So the offset stays as close to the truth as its uncertainty says.
LEMMA OffsetStaysClose ==
  ASSUME ClockFits, TurnsAreCounted, ReadingIsTimely, OffsetIsCloser, [ClockNext]_clockVars
  PROVE  OffsetIsCloser'
<1> USE DEF OffsetIsCloser
<1>1. now \in Nat /\ wakeAt \in Nat /\ Interval \in Nat \ {0} /\ Growth \in Nat
      /\ Unknown \in Int
  BY DEF TurnsAreCounted, ClockFits
<1>2. Distance(offset, ahead) \in Nat
  BY DistanceIs
<1>3. CASE PollSync
  <2>1. /\ now = wakeAt /\ now' = now /\ wakeAt' = now + Interval
        /\ ahead' = ahead /\ offset' = offset
        /\ uncertainty' = IF now = 0 THEN uncertainty ELSE Grown(uncertainty)
    BY <1>3 DEF PollSync
  <2>2. Drift = Growth /\ Drift' = 0
    BY <1>1, <2>1 DEF Drift
  <2>3. CASE now = 0
    <3>1. uncertainty' = Unknown
      BY <2>1, <2>3 DEF TurnsAreCounted
    <3> QED
      BY <1>1, <2>1, <3>1
  <2>4. CASE now # 0
    <3>1. ASSUME NEW u \in Int, NEW d \in Int, u # Unknown => d <= u + Growth
          PROVE  Grown(u) \in Int /\ (Grown(u) # Unknown => d <= Grown(u) + 0)
      BY <1>1, <3>1 DEF Grown
    <3> QED
      BY <1>2, <2>1, <2>2, <2>4, <3>1
  <2> QED
    BY <2>3, <2>4
<1>4. CASE Tick
  <2>1. /\ now' = now + 1 /\ now < wakeAt /\ UNCHANGED <<wakeAt, offset, uncertainty>>
        /\ IF now = wakeAt - Interval THEN ahead' \in (ahead - Growth) .. (ahead + Growth)
           ELSE ahead' = ahead
    BY <1>4 DEF Tick
  <2>2. wakeAt - Interval <= now
    BY <1>1, <2>1 DEF TurnsAreCounted
  <2>3. Drift' = Growth
    BY <1>1, <2>1, <2>2 DEF Drift
  <2>4. CASE now = wakeAt - Interval
    <3>1. Drift = 0 /\ ahead' \in Int /\ Distance(ahead, ahead') <= Growth
      BY <1>1, <2>1, <2>4, DriftIsShort DEF Drift
    <3>2. uncertainty # Unknown => Distance(offset, ahead) <= uncertainty
      BY <3>1
    <3>3. uncertainty # Unknown => Distance(offset, ahead') <= uncertainty + Growth
      BY <1>1, <3>1, <3>2, Triangle
    <3> QED
      BY <2>1, <2>3, <3>1, <3>3
  <2>5. CASE now # wakeAt - Interval
    BY <2>1, <2>3, <2>5 DEF Drift
  <2> QED
    BY <2>4, <2>5
<1>5. CASE Sync /\ <<offset, uncertainty>>' # <<offset, uncertainty>>
  <2>1. /\ offset' \in Int /\ uncertainty' \in Nat /\ Drift = Growth
        /\ UNCHANGED <<now, ahead, wakeAt>>
        /\ Distance(offset', ahead) <= uncertainty' + Growth
    BY <1>5, SyncIsClose
  <2>2. Drift' = Growth
    BY <2>1 DEF Drift
  <2> QED
    BY <2>1, <2>2
<1>6. CASE UNCHANGED <<now, ahead, wakeAt, offset, uncertainty>>
  BY <1>6 DEF Drift
<1>7. Sync => UNCHANGED <<now, ahead, wakeAt>>
  BY DEF Sync
<1> QED
  BY <1>3, <1>4, <1>5, <1>6, <1>7
     DEF ClockNext, Respond, Lose, Capture, Publish, clockVars

\* Whatever a step does, a response that is not the one Sync takes stays timely and close.
LEMMA ResponseStays ==
  ASSUME ClockFits, TurnsAreCounted, ReadingIsTimely, OffsetIsCloser, [ClockNext]_clockVars,
         NEW r \in Responses, Timely(r), CloseTo(r),
         Sync => reading.response.stamped <= r.stamped
  PROVE  Timely(r)' /\ CloseTo(r)'
<1> USE DEF OffsetIsCloser
<1>1. CASE Sync /\ <<offset, uncertainty>>' # <<offset, uncertainty>>
  <2>1. /\ UNCHANGED <<now, ahead, wakeAt>>
        /\ Distance(offset', AheadAt(r)) <= uncertainty' + 2 * Growth
    BY <1>1, SyncIsClose
  <2>2. AheadAt(r)' = AheadAt(r)
    BY DEF AheadAt
  <2> QED
    BY <2>1, <2>2, TimelyStays DEF CloseTo
<1>2. CASE ~(Sync /\ <<offset, uncertainty>>' # <<offset, uncertainty>>)
  <2>1. PollSync \/ Tick \/ UNCHANGED <<now, ahead, wakeAt>>
    BY DEF ClockNext, Respond, Lose, Capture, Sync, Publish, clockVars
  <2>2. offset' = offset /\ uncertainty' \in {uncertainty, Grown(uncertainty)}
    BY <1>2
       DEF ClockNext, PollSync, Respond, Lose, Tick, Capture, Sync, Publish, clockVars
  <2> QED
    BY <2>1, <2>2, TimelyStays, CloseStays
<1> QED
  BY <1>1, <1>2

\* A new response is both.
LEMMA NewIsTimely ==
  ASSUME ClockFits, TurnsAreCounted, OffsetIsCloser, NEW r \in Responses,
         r.stamped = now, AheadAt(r) = ahead, r.sync => r.sent = SentAt(r.xid) /\ r.sent <= now
  PROVE  Timely(r) /\ CloseTo(r)
<1>1. /\ now \in Nat /\ Growth \in Nat
      /\ ahead \in Int /\ offset \in Int /\ uncertainty \in Int
  BY DEF TurnsAreCounted, ClockFits, OffsetIsCloser
<1>2. Distance(AheadAt(r), ahead) = 0 /\ 0 <= Drift
  BY <1>1 DEF Distance, Drift
<1>3. Drift \in Nat /\ Drift <= Growth /\ Distance(offset, ahead) \in Nat
  <2>1. Distance(offset, ahead) \in Nat
    BY <1>1, DistanceIs
  <2>2. Drift = 0 \/ Drift = Growth
    BY DEF Drift
  <2> QED
    BY <1>1, <2>1, <2>2
<1>4. uncertainty # Unknown => Distance(offset, ahead) <= uncertainty + 2 * Growth
  BY <1>1, <1>3 DEF OffsetIsCloser
<1>5. Timely(r)
  BY <1>1, <1>2 DEF Timely
<1>6. CloseTo(r)
  BY <1>4, Zenon DEF CloseTo
<1> QED
  BY <1>5, <1>6

\* The responses the device makes.
LEMMA SyncResponse ==
  ASSUME NEW x \in Xids, NEW s \in Int, NEW a \in Int, NEW t \in Int,
         NEW r, r = [sync |-> TRUE, xid |-> x, sent |-> s, device |-> t - a, stamped |-> t]
  PROVE  /\ r \in Responses /\ r.sync /\ r.xid = x /\ r.sent = s
         /\ r.stamped = t /\ AheadAt(r) = a
<1>1. t - a \in Int /\ t - (t - a) = a
  OBVIOUS
<1>2. r \in [sync : {TRUE}, xid : Xids, sent : Int, device : Int, stamped : Int]
  BY <1>1
<1> QED
  BY <1>1, <1>2 DEF Responses, AheadAt

LEMMA OtherResponse ==
  ASSUME NEW a \in Int, NEW t \in Int,
         NEW r, r = [sync |-> FALSE, device |-> t - a, stamped |-> t]
  PROVE  r \in Responses /\ ~r.sync /\ r.stamped = t /\ AheadAt(r) = a
<1>1. t - a \in Int /\ t - (t - a) = a
  OBVIOUS
<1>2. r \in [sync : {FALSE}, device : Int, stamped : Int]
  BY <1>1
<1> QED
  BY <1>1, <1>2 DEF Responses, AheadAt

\* What Respond puts on the line.
LEMMA RespondAdds ==
  ASSUME ClockFits, TurnsAreCounted, OffsetIsCloser, RequestIsDated, Respond
  PROVE  \E r \in Responses :
           /\ line' = Append(line, r) /\ r.stamped = now /\ Timely(r) /\ CloseTo(r)
<1>1. now \in Int /\ ahead \in Int
  BY DEF TurnsAreCounted, OffsetIsCloser
<1>2. ASSUME request # None,
             NEW r, r = [sync |-> TRUE, xid |-> request.xid, sent |-> request.sent,
                         device |-> now - ahead, stamped |-> now]
      PROVE  r \in Responses /\ r.stamped = now /\ Timely(r) /\ CloseTo(r)
  <2>1. request.xid \in Xids /\ request.sent \in Int
        /\ request.sent = SentAt(request.xid) /\ request.sent <= now
    BY <1>2 DEF RequestIsDated, Requests
  <2>2. /\ r \in Responses /\ r.sync /\ r.xid = request.xid /\ r.sent = request.sent
        /\ r.stamped = now /\ AheadAt(r) = ahead
    BY <1>1, <1>2, <2>1, SyncResponse
  <2> QED
    BY <2>1, <2>2, NewIsTimely
<1>3. ASSUME NEW r, r = [sync |-> FALSE, device |-> now - ahead, stamped |-> now]
      PROVE  r \in Responses /\ r.stamped = now /\ Timely(r) /\ CloseTo(r)
  <2>1. r \in Responses /\ ~r.sync /\ r.stamped = now /\ AheadAt(r) = ahead
    BY <1>1, <1>3, OtherResponse
  <2> QED
    BY <2>1, NewIsTimely
<1> QED
  BY <1>2, <1>3 DEF Respond

\* Queues.
LEMMA TailShifts ==
  ASSUME NEW S, NEW q \in Seq(S), q # <<>>
  PROVE  /\ Tail(q) \in Seq(S) /\ Len(q) \in Nat \ {0} /\ Head(q) = q[1] /\ Head(q) \in S
         /\ \A i \in 1 .. Len(Tail(q)) :
              i + 1 \in 1 .. Len(q) /\ 1 <= i + 1 /\ Tail(q)[i] = q[i + 1]
         /\ \A i, j \in 1 .. Len(Tail(q)) : i <= j => i + 1 <= j + 1
OBVIOUS

LEMMA AppendAdds ==
  ASSUME NEW S, NEW q \in Seq(S), NEW e \in S
  PROVE  /\ Append(q, e) \in Seq(S) /\ Len(q) \in Nat
         /\ \A i \in 1 .. Len(Append(q, e)) :
              (i \in 1 .. Len(q) /\ Append(q, e)[i] = q[i])
                \/ (i = Len(q) + 1 /\ Append(q, e)[i] = e)
OBVIOUS

\* The line stays timely.
LEMMA LineStaysTimely ==
  ASSUME ClockFits, TurnsAreCounted, RequestIsDated, OffsetIsCloser, LineIsTimely,
         ReadingIsTimely, [ClockNext]_clockVars
  PROVE  LineIsTimely'
<1>1. line \in Seq(Responses) /\ \A i \in 1 .. Len(line) : line[i] \in Responses
  BY DEF LineIsTimely
<1>2. ASSUME NEW i \in 1 .. Len(line)
      PROVE  \A r : r = line[i] => Timely(r)' /\ CloseTo(r)'
  <2>1. Sync => reading.response.stamped <= line[i].stamped
    BY DEF Sync, ReadingIsTimely
  <2>2. Timely(line[i]) /\ CloseTo(line[i]) /\ line[i] \in Responses
    BY <1>1 DEF LineIsTimely
  <2> QED
    BY <2>1, <2>2, ResponseStays
<1>3. CASE UNCHANGED line
  BY <1>1, <1>2, <1>3 DEF LineIsTimely
<1>4. CASE line # <<>> /\ line' = Tail(line)
  <2>1. /\ Tail(line) \in Seq(Responses)
        /\ \A i \in 1 .. Len(Tail(line)) :
             i + 1 \in 1 .. Len(line) /\ Tail(line)[i] = line[i + 1]
        /\ \A i, j \in 1 .. Len(Tail(line)) : i <= j => i + 1 <= j + 1
    BY <1>1, <1>4, TailShifts
  <2>2. \A i \in 1 .. Len(line') : \A r : r = line'[i] => Timely(r)' /\ CloseTo(r)'
    BY <1>2, <1>4, <2>1
  <2>3. \A i, j \in 1 .. Len(line') : i <= j => line'[i].stamped <= line'[j].stamped
    BY <1>4, <2>1 DEF LineIsTimely
  <2> QED
    BY <1>4, <2>1, <2>2, <2>3 DEF LineIsTimely
<1>5. CASE Respond
  <2>1. PICK e \in Responses :
          line' = Append(line, e) /\ e.stamped = now /\ Timely(e) /\ CloseTo(e)
    BY <1>5, RespondAdds
  <2>2. ~Sync
    BY <1>5 DEF Respond, Sync
  <2>3. Timely(e)' /\ CloseTo(e)'
    BY <2>1, <2>2, ResponseStays
  <2>4. /\ line' \in Seq(Responses) /\ Len(line) \in Nat
        /\ \A i \in 1 .. Len(line') :
             (i \in 1 .. Len(line) /\ line'[i] = line[i]) \/ (i = Len(line) + 1 /\ line'[i] = e)
    BY <1>1, <2>1, AppendAdds
  <2>5. \A i \in 1 .. Len(line') : \A r : r = line'[i] => Timely(r)' /\ CloseTo(r)'
    BY <1>2, <2>3, <2>4
  <2>6. \A i \in 1 .. Len(line) : line[i].stamped <= now
    BY DEF LineIsTimely, Timely
  <2>7. ASSUME NEW i \in 1 .. Len(line'), NEW j \in 1 .. Len(line'), i <= j
        PROVE  line'[i].stamped <= line'[j].stamped
    <3>1. CASE j \in 1 .. Len(line) /\ line'[j] = line[j]
      <4>1. i \in 1 .. Len(line) /\ line'[i] = line[i]
        BY <2>4, <2>7, <3>1
      <4> QED
        BY <2>7, <3>1, <4>1 DEF LineIsTimely
    <3>2. CASE line'[j] = e
      <4>1. now <= now
        BY DEF TurnsAreCounted
      <4> QED
        BY <2>1, <2>4, <2>6, <3>2, <4>1
    <3> QED
      BY <2>4, <3>1, <3>2
  <2> QED
    BY <2>4, <2>5, <2>7 DEF LineIsTimely
<1> QED
  BY <1>3, <1>4, <1>5
     DEF ClockNext, PollSync, Lose, Tick, Capture, Sync, Publish, clockVars

\* So does the response being read.
LEMMA ReadingStaysTimely ==
  ASSUME ClockFits, TurnsAreCounted, RequestIsDated, OffsetIsCloser, LineIsTimely,
         ReadingIsTimely, [ClockNext]_clockVars
  PROVE  ReadingIsTimely'
<1>1. line \in Seq(Responses) /\ \A i \in 1 .. Len(line) : line[i] \in Responses
  BY DEF LineIsTimely
<1>2. CASE Sync \/ Publish
  BY <1>2 DEF Sync, Publish, ReadingIsTimely
<1>3. CASE Capture
  <2>1. /\ line # <<>> /\ line' = Tail(line) /\ UNCHANGED <<now, ahead, wakeAt, uncertainty>>
        /\ reading' = [response |-> Head(line), captured |-> now,
                       utime |-> offset + Head(line).device]
    BY <1>3 DEF Capture
  <2> DEFINE r == Head(line)
  <2>2. /\ r = line[1] /\ r \in Responses /\ 1 \in 1 .. Len(line)
        /\ \A i \in 1 .. Len(Tail(line)) :
             i + 1 \in 1 .. Len(line) /\ 1 <= i + 1 /\ Tail(line)[i] = line[i + 1]
    BY <1>1, <2>1, TailShifts
  <2>3. Timely(r) /\ CloseTo(r)
    BY <2>2 DEF LineIsTimely
  <2>4. /\ r.device \in Int /\ r.stamped \in Int /\ r.stamped <= now
        /\ now \in Int /\ offset \in Int /\ AheadAt(r) = r.stamped - r.device
    BY <2>2, <2>3, ResponseFields DEF Timely, TurnsAreCounted, OffsetIsCloser, AheadAt
  <2> HIDE DEF r
  <2>5. reading' \in Readings /\ reading'.response = r /\ reading'.captured = now
        /\ reading'.utime = offset + r.device
    BY <2>1, <2>2, <2>4 DEF Readings, r
  <2>6. Distance(offset + r.device, r.stamped) = Distance(offset, AheadAt(r))
    BY <2>4, DistanceMoves
  <2>7. \A q : q = reading'.response => Timely(q)'
    BY <1>3, <2>1, <2>3, <2>5, TimelyStays DEF OffsetIsCloser
  <2>8. \A i \in 1 .. Len(line') : r.stamped <= line'[i].stamped
    BY <2>1, <2>2 DEF LineIsTimely
  <2>9. uncertainty' # Unknown =>
          Distance(reading'.utime, reading'.response.stamped) <= uncertainty' + 2 * Growth
    BY <2>1, <2>3, <2>5, <2>6 DEF CloseTo
  <2> QED
    BY <2>1, <2>4, <2>5, <2>7, <2>8, <2>9 DEF ReadingIsTimely
<1>4. CASE UNCHANGED reading /\ ~Sync /\ reading # None
  <2> DEFINE r == reading.response
  <2>1. /\ reading \in Readings /\ r \in Responses /\ Timely(r) /\ reading.captured \in Int
        /\ r.stamped <= reading.captured /\ reading.captured <= now
        /\ reading.utime \in Int
    BY <1>4 DEF ReadingIsTimely, Readings
  <2>2. \A q : q = reading'.response => Timely(q)'
    <3>1. PollSync \/ Tick \/ UNCHANGED <<now, ahead, wakeAt>>
      BY DEF ClockNext, Respond, Lose, Capture, Sync, Publish, clockVars
    <3> QED
      BY <1>4, <2>1, <3>1, TimelyStays DEF OffsetIsCloser
  <2>3. reading.captured <= now'
    <3>1. now' = now \/ now' = now + 1
      BY DEF ClockNext, PollSync, Respond, Lose, Tick, Capture, Sync, Publish, clockVars
    <3>2. now \in Int
      BY DEF TurnsAreCounted
    <3> QED
      BY <2>1, <3>1, <3>2
  <2>4. \A i \in 1 .. Len(line') : r.stamped <= line'[i].stamped
    <3>1. CASE UNCHANGED line
      BY <1>4, <3>1 DEF ReadingIsTimely
    <3>2. CASE line # <<>> /\ line' = Tail(line)
      BY <1>1, <1>4, <3>2, TailShifts DEF ReadingIsTimely
    <3>3. CASE Respond
      <4>1. PICK e \in Responses : line' = Append(line, e) /\ e.stamped = now
        BY <3>3, RespondAdds
      <4>2. r.stamped <= now
        BY <2>1 DEF Timely
      <4> QED
        BY <1>1, <1>4, <4>1, <4>2, AppendAdds DEF ReadingIsTimely
    <3> QED
      BY <3>1, <3>2, <3>3
         DEF ClockNext, PollSync, Lose, Tick, Capture, Sync, Publish, clockVars
  <2>5. ~r.sync /\ uncertainty' # Unknown =>
          Distance(reading.utime, r.stamped) <= uncertainty' + 2 * Growth
    <3>1. uncertainty' \in {uncertainty, Grown(uncertainty)}
      BY <1>4
         DEF ClockNext, PollSync, Respond, Lose, Tick, Capture, Sync, Publish, clockVars
    <3>2. uncertainty \in Int /\ Distance(reading.utime, r.stamped) \in Int
      <4>1. reading.utime \in Int /\ r.stamped \in Int
        BY <2>1, ResponseFields
      <4>2. Distance(reading.utime, r.stamped) \in Nat
        BY <4>1, DistanceIs
      <4> QED
        BY <4>2 DEF OffsetIsCloser
    <3>3. ~r.sync /\ uncertainty # Unknown =>
            Distance(reading.utime, r.stamped) <= uncertainty + 2 * Growth
      BY <1>4 DEF ReadingIsTimely
    <3>4. ASSUME ~r.sync
          PROVE  uncertainty' # Unknown =>
                   Distance(reading.utime, r.stamped) <= uncertainty' + 2 * Growth
      BY <3>1, <3>2, <3>3, <3>4, AgingIsSafe
    <3> QED
      BY <3>4
  <2> QED
    BY <1>4, <2>1, <2>2, <2>3, <2>4, <2>5 DEF ReadingIsTimely
<1>5. CASE UNCHANGED reading /\ reading = None
  BY <1>5 DEF ReadingIsTimely
<1> QED
  BY <1>2, <1>3, <1>4, <1>5 DEF ClockNext, PollSync, Respond, Lose, Tick, clockVars

\* Each step on all that is known.
LEMMA ClockStep ==
  ASSUME ClockFits, ClockIsKnown, [ClockNext]_clockVars
  PROVE  ClockIsKnown'
<1> USE DEF ClockIsKnown
<1>1. TurnsAreCounted'
  BY TurnsStayCounted
<1>2. RequestIsDated'
  <2>1. CASE PollSync
    <3>1. /\ request' = None \/ request' = [xid |-> lastXid', sent |-> now]
          /\ now = wakeAt /\ now' = now /\ lastXid' = (lastXid + 1) % XidCount
      BY <2>1 DEF PollSync
    <3>2. now \in Nat /\ lastXid' \in Xids /\ SentAt(lastXid') = now
      BY <3>1, NextIsDated DEF TurnsAreCounted
    <3>3. \A x : SentAt(x)' = SentAt(x)
      BY DEF SentAt
    <3>4. CASE request' = [xid |-> lastXid', sent |-> now]
      <4>1. request' \in Requests /\ request'.xid = lastXid' /\ request'.sent = now
        BY <3>2, <3>4 DEF Requests
      <4>2. \A x : x = request'.xid => SentAt(x)' = now
        BY <3>2, <3>3, <4>1
      <4>3. request'.sent <= now'
        BY <3>1, <3>2, <4>1
      <4> QED
        BY <4>1, <4>2, <4>3 DEF RequestIsDated
    <3>5. CASE request' = None
      BY <3>5 DEF RequestIsDated
    <3> QED
      BY <3>1, <3>4, <3>5
  <2>2. CASE request' = None
    BY <2>2 DEF RequestIsDated
  <2>3. CASE UNCHANGED request /\ now' \in {now, now + 1}
    <3>1. request # None =>
            /\ request \in Requests /\ request.sent \in Int
            /\ request.sent = SentAt(request.xid) /\ request.sent <= now
      BY DEF RequestIsDated, Requests
    <3>2. now \in Int
      BY DEF TurnsAreCounted
    <3>3. request # None => request.sent <= now'
      BY <2>3, <3>1, <3>2
    <3>4. SentAt(request.xid)' = SentAt(request'.xid)
      BY DEF SentAt
    <3> QED
      BY <2>3, <3>1, <3>3, <3>4 DEF RequestIsDated
  <2> QED
    BY <2>1, <2>2, <2>3
       DEF ClockNext, Respond, Lose, Tick, Capture, Sync, Publish, clockVars
<1>3. OffsetIsCloser'
  BY OffsetStaysClose
<1>4. LineIsTimely'
  BY LineStaysTimely
<1>5. ReadingIsTimely'
  BY ReadingStaysTimely
<1>6. StampIsClose'
  <2>1. CASE Publish /\ ~Dropped
    <3>1. /\ reading # None /\ ~reading.response.sync
          /\ published' = Distance(reading.utime, reading.response.stamped)
          /\ ~(uncertainty > Limit)
      BY <2>1 DEF Publish, Dropped
    <3>2. /\ uncertainty \in Int /\ Limit \in Nat /\ Unknown \in Int /\ Unknown > Limit
          /\ Growth \in Nat
      BY DEF OffsetIsCloser, ClockFits
    <3>3. uncertainty # Unknown
      BY <3>1, <3>2
    <3>4. published' <= uncertainty + 2 * Growth
      BY <3>1, <3>3 DEF ReadingIsTimely
    <3>5. reading.utime \in Int /\ reading.response.stamped \in Int
      <4>1. reading.utime \in Int /\ reading.response \in Responses
        BY <3>1 DEF ReadingIsTimely, Readings
      <4> QED
        BY <4>1, ResponseFields
    <3>6. published' \in Int
      <4>1. Distance(reading.utime, reading.response.stamped) \in Nat
        BY <3>5, DistanceIs
      <4> QED
        BY <3>1, <4>1
    <3> QED
      BY <3>1, <3>2, <3>4, <3>6 DEF StampIsClose, StampsAreClose
  <2>2. CASE UNCHANGED published
    BY <2>2 DEF StampIsClose, StampsAreClose
  <2> QED
    BY <2>1, <2>2
       DEF ClockNext, PollSync, Respond, Lose, Tick, Capture, Sync, Publish, clockVars
<1> QED
  BY <1>1, <1>2, <1>3, <1>4, <1>5, <1>6

\* The host never takes the device's clock to be further off than the uncertainty and one
\* interval's drift allow, whatever the line loses or delays.
THEOREM OffsetStaysKnown ==
  ASSUME ClockFits
  PROVE  ClockSpec => [](OffsetIsClose /\ StampsAreClose)
<1>1. ClockInit => ClockIsKnown
  <2> SUFFICES ASSUME ClockInit PROVE ClockIsKnown
    OBVIOUS
  <2> USE DEF ClockInit
  <2>1. TurnsAreCounted
    BY DEF TurnsAreCounted, ClockFits, Xids
  <2>2. RequestIsDated /\ ReadingIsTimely
    BY DEF RequestIsDated, ReadingIsTimely
  <2>3. OffsetIsCloser
    BY DEF OffsetIsCloser, ClockFits
  <2>4. LineIsTimely
    BY DEF LineIsTimely
  <2>5. StampIsClose
    BY DEF StampIsClose, StampsAreClose, ClockFits
  <2> QED
    BY <2>1, <2>2, <2>3, <2>4, <2>5 DEF ClockIsKnown
<1>2. ClockIsKnown => OffsetIsClose /\ StampsAreClose
  <2> SUFFICES ASSUME ClockIsKnown PROVE OffsetIsClose /\ StampsAreClose
    OBVIOUS
  <2> USE DEF ClockIsKnown
  <2>1. /\ uncertainty \in Int /\ Growth \in Nat /\ Distance(offset, ahead) \in Nat
        /\ Drift = 0 \/ Drift = Growth
    <3>1. offset \in Int /\ ahead \in Int
      BY DEF OffsetIsCloser
    <3> QED
      BY <3>1, DistanceIs DEF OffsetIsCloser, ClockFits, Drift
  <2> QED
    BY <2>1 DEF OffsetIsCloser, OffsetIsClose, StampIsClose
<1> QED
  BY <1>1, <1>2, ClockStep, PTL DEF ClockSpec
=============================================================================
