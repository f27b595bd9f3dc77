------------------------------ MODULE MCRobot ------------------------------
(***************************************************************************)
(* Programs and the devices they talk to over a line, for TLC, in one      *)
(* model: the servo bus, a servo, the Maebot driver, the lidar driver, the *)
(* USB camera and the TCP image source.  They have nothing to do with each *)
(* other: the first state picks the one that runs.                         *)
(***************************************************************************)
EXTENDS DynamixelBus

CONSTANTS
  NoData, NoFrame,
  MaxServoCalls,
  Interval, Growth, Limit, Unknown, Ahead0, XidCount, MaxTime, MaxLine, MaxCommands,
  MaxPolls,
  Revolution, SampleSize, MaxBytes,
  NumImages, NumTransfers, TransferSize, FrameSize, PacketMax, PacketUnit, MaxUsbFrames,
  MaxStarts, MaxLent,
  Word, MessageLength, MaxTcpFrames, MaxConnections

VARIABLES
  part,
  limits, rotationMode, doubtful, writes, crashed, calls,
  now, ahead, wakeAt, lastXid, request, line, reading, offset, uncertainty, stampError,
  thread, txOwner, packet, asked, polled, colours, ledPc, writing, shown, woken,
  lidarPc, halt, signalled, health, scanning, sent, lidarLine, buf, have, scan, published,
  status, data, onTime, curIdx, curOffset, perFrame, workerPc, transfer,
  inFlight, submitted, consume, phase, usbStarts, next, missed, usbLast,
  readerPc, at, sending, frame, latest, user, connections, tcpLast

Servo == INSTANCE DynamixelDevice WITH MaxCalls <- MaxServoCalls

Maebot == INSTANCE MaebotDriver WITH
  published <- stampError, Pollers <- {"poll"}, Handler <- "lcm", pc <- thread

\* The lidar sends the rest of a sample in time: see the run that lets it stall.
Lidar == INSTANCE RPLidar WITH Stalls <- FALSE, pc <- lidarPc, line <- lidarLine

Usb == INSTANCE UsbCamera WITH
  MaxFrames <- MaxUsbFrames, SubmitFails <- TRUE, starts <- usbStarts, lastLent <- usbLast

Tcp == INSTANCE TcpCamera WITH MaxFrames <- MaxTcpFrames, lastLent <- tcpLast

servoVars   == <<limits, rotationMode, doubtful, writes, crashed, calls>>
clockVars   == <<now, ahead, wakeAt, lastXid, request, line, reading, offset,
                 uncertainty, stampError>>
commandVars == <<thread, txOwner, packet, asked, polled, colours, ledPc, writing, shown,
                 woken>>
lidarVars   == <<lidarPc, halt, signalled, health, scanning, sent, lidarLine, buf, have,
                 scan, published>>

usbVars  == <<status, data, onTime, curIdx, curOffset, perFrame, workerPc, transfer,
              inFlight, submitted, consume, phase, usbStarts, next, missed, usbLast>>
tcpVars  == <<readerPc, at, sending, frame, latest, user, connections, tcpLast>>

robotVars == <<part, vars, servoVars, clockVars, commandVars, lidarVars,
               usbVars, tcpVars>>

Parts == {"bus", "servo", "clock", "commands", "lidar", "pgusb", "tcp"}

RobotInit ==
  /\ part \in Parts
  /\ Init /\ Servo!Init /\ Maebot!ClockInit /\ Maebot!CommandInit /\ Lidar!Init
  /\ Usb!Init /\ Tcp!Init
  /\ part # "servo" => limits = <<0, 0, 1, 1>>
  /\ part # "lidar" => health = "good"

\* A step of one part leaves the others alone.
Step(p, A) ==
  /\ part = p /\ A
  /\ UNCHANGED part
  /\ p # "bus" => UNCHANGED vars
  /\ p # "servo" => UNCHANGED servoVars
  /\ p # "clock" => UNCHANGED clockVars
  /\ p # "commands" => UNCHANGED commandVars
  /\ p # "lidar" => UNCHANGED lidarVars
  /\ p # "pgusb" => UNCHANGED usbVars
  /\ p # "tcp" => UNCHANGED tcpVars

RobotNext ==
  \/ Step("bus", Next)
  \/ Step("servo", Servo!Next)
  \/ Step("clock", Maebot!ClockNext)
  \/ Step("commands", Maebot!CommandNext)
  \/ Step("lidar", Lidar!Next)
  \/ Step("pgusb", Usb!Next)
  \/ Step("tcp", Tcp!Next)

\* The threads go on (libusb's handles every transfer, which completes or times out);
\* of infinitely many attempts on the bus some get a clean answer, the reply to a stop
\* command comes, a waiting sender gets the lock, and the lidar finishes a sample it has
\* begun.  As one part runs, fairness of a step of any of them is fairness of each.
Fairness ==
  /\ WF_robotVars(\/ Step("bus", Running) \/ Step("commands", Maebot!Storing)
                  \/ Step("lidar", Lidar!Driver)
                  \/ Step("pgusb", Usb!Callback) \/ Step("tcp", Tcp!Reader))
  /\ WF_robotVars(\/ Step("bus", Writing) \/ Step("commands", Maebot!LedThread)
                  \/ Step("lidar", Lidar!SendByte /\ sent % 2 # 0)
                  \/ Step("pgusb", Usb!FinishStop))
  /\ SF_robotVars(\/ Step("bus", CleanWrite) \/ Step("commands", Maebot!Sending("poll"))
                  \/ Step("pgusb", Usb!StopCallback))
  /\ SF_robotVars(Step("commands", Maebot!Sending("lcm")))

RobotSpec == RobotInit /\ [][RobotNext]_robotVars /\ Fairness

-----------------------------------------------------------------------------
\* A device writes a servo's EEPROM only where it differs (DynamixelDevice).
EepromSpared == Servo!EepromSpared
\* What the programs take their devices to be is right: the mode of a servo, the
\* offset to the controller's clock, and no time stamp is off by more than the limit
\* (DynamixelDevice, MaebotDriver).
DriversKnowDevices == Servo!ModeIsKnown /\ Maebot!OffsetIsClose /\ Maebot!StampsAreClose
\* The bytes of two commands do not mix on the way to the Maebot, nor those of two
\* revolutions in a scan, nor those of two frames of a camera, of which only the newest
\* waits (MaebotDriver, RPLidar, UsbCamera, TcpCamera).
BytesStayTogether ==
  /\ Maebot!CommandsApart /\ Lidar!ScansAreComplete
  /\ Usb!FramesAreWhole /\ Tcp!FramesAreWhole /\ Usb!QueueIsShort
\* Every wait ends: a call on the servo bus, colours that wake the LED thread, the
\* lidar driver after a signal, stopping the USB camera, and a reader that lost its place
\* in a stream finds it again (DynamixelBus, MaebotDriver, RPLidar, UsbCamera,
\* TcpCamera).
WaitsEnd ==
  /\ CallReturns /\ Maebot!WokenIsShown /\ Lidar!SignalEnds
  /\ Usb!StopReturns /\ Tcp!FindsSync
\* No frame changes while it is lent, none comes twice or late, and
\* images run out only if the caller holds them (UsbCamera, TcpCamera).
FramesLentSoundly ==
  /\ Usb!KeepsPromise /\ Tcp!KeepsPromise
  /\ Usb!RunsOutOnlyIfHeld
=============================================================================
