----------------------------- MODULE UsbCamera -----------------------------
(***************************************************************************)
(* The Point Grey USB camera driver: libusb's thread copies transfers into *)
(* a pool of images (callback), the caller takes finished images out of it *)
(* and puts them back.  Frames reach the host as transfers that are full   *)
(* but for the last of each, which is how the driver keeps in step.        *)
(***************************************************************************)
EXTENDS Integers, Sequences, FiniteSets, FiniteSetsExt

CONSTANTS
  NumImages,     (* impl->nimages                                          *)
  NumTransfers,  (* impl->ntransfers                                       *)
  TransferSize,  (* impl->transfer_size, and the size of a USB packet, in  *)
                 (* the unit in which a frame is counted                   *)
  FrameSize,     (* impl->bytes_per_frame                                  *)
  PacketMax,     (* the camera's packet_max and packet_unit                *)
  PacketUnit,
  MaxFrames,     (* bound: the frames the camera takes                     *)
  MaxStarts,     (* bound: the times start is called                       *)
  MaxLent,       (* the frames a caller holds at a time                    *)
  SubmitFails,   (* whether libusb_submit_transfer may fail                *)
  NoData         (* an image that was never written                        *)

Images == 1 .. NumImages

Nobody == 0      \* current_frame_index when it is -1

Empty   == 0     \* an image's status; the ready ones are numbered from 1
Filling == -1
Lent    == -2

VARIABLES
  status,     (* image -> images[i].status                                 *)
  data,       (* image -> what is in it: for each unit, its frame and place *)
  onTime,     (* history: image -> nothing was missed while it was filled  *)
  curIdx,     (* current_frame_index                                       *)
  curOffset,  (* current_frame_offset                                      *)
  perFrame,   (* bytes_transferred_per_frame                               *)
  workerPc,   (* where the worker is in callback                           *)
  transfer,   (* the transfer callback was called with                     *)
  inFlight,   (* the transfers libusb holds                                *)
  submitted,  (* transfers_submitted                                       *)
  consume,    (* consume_transfers_flag                                    *)
  phase,      (* "off", "on", or "stopping": the caller is in stop         *)
  starts,     (* how often start was called                                *)
  next,       (* the next unit the camera sends: its frame and place       *)
  missed,     (* history: data was dropped since the last short transfer   *)
  lastLent    (* history: the newest frame lent                            *)

poolVars == <<status, data, onTime>>
fillVars == <<curIdx, curOffset>>
usbVars  == <<inFlight, submitted, consume>>
vars == <<poolVars, fillVars, usbVars, perFrame, workerPc, transfer, phase,
          starts, next, missed, lastLent>>

-----------------------------------------------------------------------------
(* start: the packet size and the transfers.                               *)

RoundUp(n, m) == ((n + m - 1) \div m) * m

\* The packet sizes that make the last packet of a frame a short one.
GoodPacketSizes ==
  { p \in { PacketMax - k * PacketUnit : k \in 0 .. (PacketMax - 1) \div PacketUnit } :
      RoundUp(FrameSize, p) % TransferSize # 0 }

\* start exits if there is none; the camera may keep the size it had, PacketMax.
PacketSizes == {Max(GoodPacketSizes), PacketMax}

Sizes == { RoundUp(FrameSize, p) : p \in PacketSizes }

Start ==
  /\ phase = "off"
  /\ starts < MaxStarts
  /\ \E p \in PacketSizes : perFrame' = RoundUp(FrameSize, p)
  /\ status' = [i \in Images |-> Empty]
  /\ data' = [i \in Images |-> NoData]
  /\ onTime' = [i \in Images |-> TRUE]
  /\ curIdx' = Nobody
  /\ curOffset' = 0
  /\ inFlight' = NumTransfers
  /\ submitted' = NumTransfers
  /\ consume' = FALSE
  /\ phase' = "on"
  /\ starts' = starts + 1
  /\ next' = [frame |-> next.frame + 1, unit |-> 1]
  /\ missed' = FALSE
  /\ UNCHANGED <<workerPc, transfer, lastLent>>

-----------------------------------------------------------------------------
(* The pool; each operation holds queue_mutex.                             *)

Ready == { i \in Images : status[i] > 0 }

NewestReady == Max({0} \cup { status[i] : i \in Ready })

\* Mutant of Recycled: the images that wait are kept.
Recycled_KeepingAll == status

\* Of the images that wait, all but the newest are dropped.
Recycled ==
  [i \in Images |->
     IF i \notin Ready THEN status[i]
     ELSE IF status[i] = NewestReady THEN 1 ELSE Empty]

Unused == { i \in Images : Recycled[i] = Empty }

\* get_empty_frame
GetEmptyFrame ==
  /\ curIdx' = IF Unused = {} THEN Nobody ELSE Min(Unused)
  /\ status' = [i \in Images |-> IF i = curIdx' THEN Filling ELSE Recycled[i]]

\* get_ready_frame: the others move up.
Taken(i) ==
  [j \in Images |-> IF j = i THEN Lent
                    ELSE IF status[j] >= 1 THEN status[j] - 1 ELSE status[j]]

\* get_frame, which waits for a ready image.
GetFrame(i) ==
  /\ phase = "on"
  /\ Cardinality({ j \in Images : status[j] = Lent }) < MaxLent
  /\ status[i] = 1
  /\ status' = Taken(i)
  /\ lastLent' = data[i][1].frame
  /\ UNCHANGED <<data, onTime, fillVars, usbVars, perFrame, workerPc, transfer,
                 phase, starts, next, missed>>

\* Mutant of PutBack: the image is made ready instead.
PutBack_Ready(i) == [status EXCEPT ![i] = NewestReady + 1]

\* put_empty_frame
PutBack(i) == [status EXCEPT ![i] = Empty]

\* release_frame
ReleaseFrame(i) ==
  /\ status[i] = Lent
  /\ status' = PutBack(i)
  /\ UNCHANGED <<data, onTime, fillVars, usbVars, perFrame, workerPc, transfer,
                 phase, starts, next, missed, lastLent>>

-----------------------------------------------------------------------------
(* What the camera sends (external).                                       *)

After(n) ==
  IF n.unit = perFrame THEN [frame |-> n.frame + 1, unit |-> 1]
  ELSE [n EXCEPT !.unit = n.unit + 1]

\* A full transfer, or what is left of the frame.
Sent == [k \in 1 .. Min({TransferSize, perFrame - next.unit + 1}) |->
           [next EXCEPT !.unit = next.unit + k - 1]]

Delivered == [ok |-> TRUE,  units |-> Sent]
NoUnits   == [ok |-> TRUE,  units |-> <<>>]
Failed    == [ok |-> FALSE, units |-> <<>>]

Taking == next.frame <= MaxFrames

\* The camera sends on, or the transfer fails and its data is lost; the camera
\* gives up a frame and says so with an empty transfer; nothing comes in time.
\* Once the flag is set the transfer was cancelled.
Outcome ==
  \/ /\ Taking /\ ~consume
     /\ transfer' \in {Delivered, Failed}
     /\ next' = After(Sent[Len(Sent)])
  \/ /\ Taking /\ ~consume
     /\ transfer' = NoUnits
     /\ next' = [frame |-> next.frame + 1, unit |-> 1]
  \/ /\ transfer' = Failed
     /\ UNCHANGED next

-----------------------------------------------------------------------------
(* callback, in the worker thread.                                         *)

CallbackStart ==
  /\ phase # "off"
  /\ workerPc = "idle"
  /\ inFlight > 0
  /\ Outcome
  /\ inFlight' = inFlight - 1
  /\ IF curIdx = Nobody THEN GetEmptyFrame ELSE UNCHANGED <<status, curIdx>>
  /\ workerPc' = "copy"
  /\ UNCHANGED <<data, onTime, curOffset, submitted, consume, perFrame, phase,
                 starts, missed, lastLent>>

IsShort == Len(transfer.units) # TransferSize

Room == perFrame - curOffset

CopySize == Min({Room, Len(transfer.units)})

Written(old, offset, units) ==
  [k \in 1 .. perFrame |->
     IF k \in offset + 1 .. offset + Len(units) THEN units[k - offset]
     ELSE IF old = NoData THEN NoData ELSE old[k]]

\* Mutant of OffsetAfter: a short transfer does not start the frame over.
OffsetAfter_NoSync(offset) == offset

\* A short transfer ends a frame, whether the image is full or not.
OffsetAfter(offset) == IF IsShort THEN 0 ELSE offset

Drop ==
  /\ workerPc = "copy"
  /\ ~transfer.ok \/ curIdx = Nobody
  /\ missed' = TRUE
  /\ workerPc' = "resubmit"
  /\ UNCHANGED <<poolVars, fillVars, usbVars, perFrame, transfer, phase, starts,
                 next, lastLent>>

\* The image is not full yet.
CopyPart ==
  /\ workerPc = "copy"
  /\ transfer.ok /\ curIdx # Nobody
  /\ CopySize < Room
  /\ data' = [data EXCEPT ![curIdx] = Written(@, curOffset, transfer.units)]
  /\ curOffset' = OffsetAfter(curOffset + CopySize)
  /\ missed' = (missed /\ ~IsShort)
  /\ workerPc' = "resubmit"
  /\ UNCHANGED <<status, onTime, curIdx, usbVars, perFrame, transfer, phase,
                 starts, next, lastLent>>

\* The image is full: put_ready_frame.
CopyLast ==
  /\ workerPc = "copy"
  /\ transfer.ok /\ curIdx # Nobody
  /\ CopySize = Room
  /\ data' = [data EXCEPT ![curIdx] =
                Written(@, curOffset, SubSeq(transfer.units, 1, CopySize))]
  /\ onTime' = [onTime EXCEPT ![curIdx] = ~missed]
  /\ status' = [status EXCEPT ![curIdx] = NewestReady + 1]
  /\ workerPc' = "rest"
  /\ UNCHANGED <<fillVars, usbVars, perFrame, transfer, phase, starts, next,
                 missed, lastLent>>

\* What is left of the transfer goes into another image, if there is one.
CopyRest ==
  /\ workerPc = "rest"
  /\ GetEmptyFrame
  /\ LET rest == SubSeq(transfer.units, CopySize + 1, Len(transfer.units))
     IN /\ data' = IF curIdx' = Nobody THEN data
                   ELSE [data EXCEPT ![curIdx'] = Written(@, 0, rest)]
        /\ curOffset' = OffsetAfter(IF curIdx' = Nobody THEN 0 ELSE Len(rest))
  /\ missed' = (missed /\ ~IsShort)
  /\ workerPc' = "resubmit"
  /\ UNCHANGED <<onTime, usbVars, perFrame, transfer, phase, starts, next, lastLent>>

\* Mutant of MayResubmit: the transfers are kept going.
MayResubmit_Always == TRUE

MayResubmit == ~consume

\* Under pending_transaction_mutex.  A transfer counts as submitted even when
\* submitting it failed.
Resubmit ==
  /\ workerPc = "resubmit"
  /\ IF MayResubmit
     THEN /\ inFlight' \in {inFlight + 1} \cup (IF SubmitFails THEN {inFlight} ELSE {})
          /\ UNCHANGED submitted
     ELSE /\ submitted' = submitted - 1
          /\ UNCHANGED inFlight
  /\ workerPc' = "idle"
  /\ UNCHANGED <<poolVars, fillVars, consume, perFrame, transfer, phase, starts,
                 next, missed, lastLent>>

-----------------------------------------------------------------------------
(* stop: a command to the camera, whose completion ends the transfers.     *)

Stop ==
  /\ phase = "on"
  /\ \A i \in Images : status[i] # Lent
  /\ phase' = "stopping"
  /\ UNCHANGED <<poolVars, fillVars, usbVars, perFrame, workerPc, transfer,
                 starts, next, missed, lastLent>>

StopCallback ==
  /\ phase = "stopping"
  /\ workerPc = "idle"
  /\ ~consume
  /\ consume' = TRUE
  /\ UNCHANGED <<poolVars, fillVars, inFlight, submitted, perFrame, workerPc,
                 transfer, phase, starts, next, missed, lastLent>>

\* The loop in stop is over; the worker is joined and everything is freed.
FinishStop ==
  /\ phase = "stopping"
  /\ consume
  /\ submitted = 0
  /\ workerPc = "idle"
  /\ phase' = "off"
  /\ status' = [i \in Images |-> Empty]
  /\ data' = [i \in Images |-> NoData]
  /\ onTime' = [i \in Images |-> TRUE]
  /\ UNCHANGED <<fillVars, usbVars, perFrame, workerPc, transfer, starts, next,
                 missed, lastLent>>

-----------------------------------------------------------------------------
Init ==
  /\ status = [i \in Images |-> Empty]
  /\ data = [i \in Images |-> NoData]
  /\ onTime = [i \in Images |-> TRUE]
  /\ curIdx = Nobody
  /\ curOffset = 0
  /\ perFrame = FrameSize
  /\ workerPc = "idle"
  /\ transfer = Failed
  /\ inFlight = 0
  /\ submitted = 0
  /\ consume = FALSE
  /\ phase = "off"
  /\ starts = 0
  /\ next = [frame |-> 0, unit |-> 1]
  /\ missed = FALSE
  /\ lastLent = 0

Callback == CallbackStart \/ Drop \/ CopyPart \/ CopyLast \/ CopyRest \/ Resubmit

Caller == Start \/ Stop \/ FinishStop \/ \E i \in Images : GetFrame(i) \/ ReleaseFrame(i)

Next == Callback \/ StopCallback \/ Caller

Spec == Init /\ [][Next]_vars

-----------------------------------------------------------------------------
TypeOK ==
  /\ status \in [Images -> Lent .. NumImages]
  /\ onTime \in [Images -> BOOLEAN]
  /\ curIdx \in Images \cup {Nobody}
  /\ curOffset \in 0 .. perFrame
  /\ perFrame \in Sizes \cup {FrameSize}
  /\ workerPc \in {"idle", "copy", "rest", "resubmit"}
  /\ inFlight \in 0 .. NumTransfers
  /\ submitted \in 0 .. NumTransfers
  /\ phase \in {"off", "on", "stopping"}
  /\ \A i \in Images : data[i] = NoData \/ DOMAIN data[i] = 1 .. perFrame

\* The images that wait are numbered from 1 without a gap, there are never more
\* than two of them (a caller gets one of the last two frames), and the only
\* image being filled is the current one.
QueueIsShort ==
  /\ { status[i] : i \in Ready } = 1 .. Cardinality(Ready)
  /\ Cardinality(Ready) <= 2
  /\ \A i \in Images : status[i] = Filling => i = curIdx

\* One frame, every unit at its place.
Whole(d) == \A k \in 1 .. perFrame :
              d[k] = [frame |-> d[1].frame, unit |-> k]

\* A frame the caller can get is one the camera took, unless data was dropped
\* after the last short transfer: losing anything but the end of a frame costs
\* that frame only.
FramesAreWhole ==
  \A i \in Images :
    (status[i] > 0 \/ status[i] = Lent) /\ onTime[i] => Whole(data[i])

\* "Ran out of frame buffers" is the caller's doing: it holds all but one.
RunsOutOnlyIfHeld ==
  [][ workerPc = "idle" /\ workerPc' = "copy" /\ curIdx' = Nobody =>
        Cardinality({ i \in Images : status[i] = Lent }) >= NumImages - 1 ]_vars

\* A transfer that libusb did not take back counts as pending forever.
TransferForgotten == submitted > inFlight + (IF workerPc = "idle" THEN 0 ELSE 1)

\* stop returns, whatever the transfers were doing, unless submitting one
\* failed; nothing is freed under the worker.
StopReturns == (phase = "stopping") ~> (phase = "off" \/ TransferForgotten)

LentFrames ==
  [i \in Images |-> IF status[i] = Lent THEN [no |-> data[i][1].frame, units |-> data[i]]
                    ELSE NoData]

Promised == INSTANCE FrameSource WITH
  Slots <- Images, None <- NoData, lent <- LentFrames, last <- lastLent

\* The pool is a frame source: see FrameSource.
KeepsPromise == Promised!Spec
=============================================================================
