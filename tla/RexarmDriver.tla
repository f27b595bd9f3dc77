---------------------------- MODULE RexarmDriver ----------------------------
(***************************************************************************)
(* rexarm_driver: the process that owns the serial bus of the arm.  Its    *)
(* driver thread turns command lists received on ARM_COMMAND into goal     *)
(* registers of the servos, skipping the commands that repeat the last one *)
(* it sent; its status thread reads every servo and publishes ARM_STATUS.  *)
(* Both use the bus under serial_lock.                                     *)
(*                                                                         *)
(* The two LCM channels between the arm controller and this process come   *)
(* first: ARM_COMMAND (to the driver) and ARM_STATUS (from it).  LCM is a  *)
(* library outside src/, modelled from how lcm_publish and lcm_handle are  *)
(* used: a publish never blocks and reports nothing, a subscriber has a    *)
(* bounded queue that keeps the order of the messages it holds, and a      *)
(* message may be lost before it is handled.                               *)
(*                                                                         *)
(* Angles are counted in servo position steps: a full turn is Circle, the  *)
(* servo accepts MinAngle..MaxAngle and its registers hold the angle's     *)
(* offset from MinAngle.  A servo id here is the code's id plus one.       *)
(***************************************************************************)
EXTENDS Integers, Sequences

CONSTANTS
  Capacity,     (* Messages a subscriber's queue holds.                    *)
  Lossy         (* Whether the multicast transport loses messages.         *)

ASSUME ArmLcmAssumption ==
  /\ Capacity \in Nat \ {0}
  /\ Lossy \in BOOLEAN

CONSTANTS
  NumServos,    (* num_servos                                              *)
  Circle,       (* position steps in a full turn (2 pi)                    *)
  MinAngle,     (* get_min_position_radians                                *)
  MaxAngle,     (* get_max_position_radians                                *)
  FullScale,    (* 0x3ff: the register value of speed or torque 1.0        *)
  ByteBits,     (* bits in one register byte: 8                            *)
  ByteBase,     (* values of one register byte: 0x100                      *)
  Second,       (* the 1000000 us after which a repeated command is resent *)
  PowerOnRaw,   (* raw positions a servo may be found in at the start      *)
  FreedBytes    (* what the two bytes of a freed response may read as      *)

ASSUME RexarmAssumption ==
  /\ NumServos \in Nat \ {0}
  /\ Circle \in Nat \ {0}
  /\ MinAngle \in Int
  /\ MaxAngle \in Int
  /\ MinAngle <= MaxAngle
  /\ FullScale \in Nat \ {0}
  /\ ByteBits \in Nat \ {0}
  /\ ByteBase \in Nat \ {0}
  /\ Second \in Nat \ {0}
  /\ PowerOnRaw \subseteq 0 .. (MaxAngle - MinAngle)
  /\ FreedBytes \subseteq Nat

VARIABLES
  armCommand,   (* Command lists published and not yet handled.            *)
  armStatus     (* Status lists published and not yet handled.             *)

lcmVars == <<armCommand, armStatus>>

\* A publish on a full queue drops the new message, silently.
Deliver(queue, msg) ==
  IF Len(queue) < Capacity THEN Append(queue, msg) ELSE queue

PublishCommand(msg) == armCommand' = Deliver(armCommand, msg)

PublishStatus(msg) == armStatus' = Deliver(armStatus, msg)

LcmInit ==
  /\ armCommand = <<>>
  /\ armStatus = <<>>

\* The network loses the oldest message still queued.
LoseCommand ==
  /\ Lossy
  /\ armCommand # <<>>
  /\ armCommand' = Tail(armCommand)
  /\ UNCHANGED armStatus

LoseStatus ==
  /\ Lossy
  /\ armStatus # <<>>
  /\ armStatus' = Tail(armStatus)
  /\ UNCHANGED armCommand

VARIABLES
  cmds,         (* arm_state->cmds, the command list last received         *)
  lastCmds,     (* last_cmds, per servo the command last sent              *)
  driverPc,     (* where the driver thread is in driver_loop               *)
  driverIdx,    (* the id its loop over cmds has reached                   *)
  relay,        (* posv as read back while stopping a servo, else 0        *)
  serialLock,   (* serial_lock: its holder, or "free"                      *)
  statusPc,     (* where the status thread is in status_loop               *)
  statusIdx,    (* the id its loop over the servos has reached             *)
  stats,        (* the status list it fills in                             *)
  servo,        (* the servos: goal, speed and torque registers, position  *)
  sentAt        (* history: utime of the command last written to a servo   *)

driverVars == <<cmds, lastCmds, driverPc, driverIdx, relay>>
statusVars == <<statusPc, statusIdx, stats>>
servoVars  == <<servo, sentAt>>
rexarmVars == <<driverVars, serialLock, statusVars, servoVars>>

Servos == 1 .. NumServos

Command == [utime : Nat, pos : Int, speed : Int, torque : Int]

Raw == 0 .. (MaxAngle - MinAngle)

Servo == [goal : Nat, speed : 0 .. FullScale, torque : 0 .. FullScale, pos : Raw]

Status == [pos : Int, speed : {-1, 0, 1}]

NoCommand == [utime |-> 0, pos |-> 0, speed |-> 0, torque |-> 0]

-----------------------------------------------------------------------------
(* The conversions between radians and servo registers.                    *)

Clamp(lo, hi, x) == IF x > hi THEN hi ELSE IF x < lo THEN lo ELSE x

\* mod2pi: the equivalent angle in [-Circle/2, Circle/2).
Mod2pi(a) == ((a + Circle \div 2) % Circle) - Circle \div 2

\* Mutants of ToRaw: the range clamp forgotten; the offset forgotten.
ToRaw_Unclamped(a) == Mod2pi(a) - MinAngle

ToRaw_NoOffset(a) == Clamp(MinAngle, MaxAngle, Mod2pi(a))

ToRaw(a) == Clamp(MinAngle, MaxAngle, Mod2pi(a)) - MinAngle

ToAngle(raw) == raw + MinAngle

\* The goal relayed to a servo that is to stop at raw.  The low byte is kept;
\* the high byte is the truth value of raw > ByteBits (the code writes
\* (posv > 8) where (posv >> 8) is meant).
RelayGoal(raw) ==
  (raw % ByteBase) + (IF raw > ByteBits THEN ByteBase ELSE 0)

\* speedfrac < 1/0x3ff, after dynamixel_set_goal's caller clamped it.
Stops(cmd) == Clamp(0, FullScale, cmd.speed) < 1

\* Speed register 0 means full speed in joint mode, so stopping writes 1.
SpeedRegister(cmd) == IF Stops(cmd) THEN 1 ELSE Clamp(0, FullScale, cmd.speed)

TorqueRegister(cmd) == Clamp(0, FullScale, cmd.torque)

\* The status of a servo: a reading of its speed has the sign of its motion,
\* or is zero when it is read between two steps of the motor.
Readings(s) ==
  { [pos |-> ToAngle(s.pos), speed |-> v] :
      v \in IF s.torque = 0 \/ s.goal = s.pos THEN {0}
            ELSE IF s.goal > s.pos THEN {0, 1} ELSE {0, -1} }

-----------------------------------------------------------------------------
(* The driver thread.                                                      *)

\* lcm_handle_timeout returns after command_handler took one message; the
\* handler keeps the first num_servos commands of a longer list.
DriverReceive ==
  /\ driverPc = "handle"
  /\ armCommand # <<>>
  /\ armCommand' = Tail(armCommand)
  /\ LET msg == Head(armCommand)
     IN cmds' = IF Len(msg) > NumServos THEN SubSeq(msg, 1, NumServos) ELSE msg
  /\ driverPc' = "lock"
  /\ UNCHANGED <<armStatus, lastCmds, driverIdx, relay, serialLock, statusVars,
                 servoVars>>

\* Mutant of DriverLock: the bus is used without waiting for serial_lock.
DriverLock_Barging ==
  /\ driverPc = "lock"
  /\ serialLock' = "driver"
  /\ driverPc' = "apply"
  /\ driverIdx' = 1
  /\ UNCHANGED <<lcmVars, cmds, lastCmds, relay, statusVars, servoVars>>

DriverLock ==
  /\ driverPc = "lock"
  /\ serialLock = "free"
  /\ serialLock' = "driver"
  /\ driverPc' = "apply"
  /\ driverIdx' = 1
  /\ UNCHANGED <<lcmVars, cmds, lastCmds, relay, statusVars, servoVars>>

\* Mutants of Update: one of its tests forgotten.
Update_IgnoringTorque(cmd, last) ==
  \/ cmd.utime - last.utime > Second
  \/ last.pos # cmd.pos
  \/ last.speed # cmd.speed

Update_IgnoringPosition(cmd, last) ==
  \/ cmd.utime - last.utime > Second
  \/ last.speed # cmd.speed
  \/ last.torque # cmd.torque

Update_IgnoringAge(cmd, last) ==
  \/ last.pos # cmd.pos
  \/ last.speed # cmd.speed
  \/ last.torque # cmd.torque

\* Whether the command differs from the last one sent, or is a second newer.
Update(cmd, last) ==
  \/ cmd.utime - last.utime > Second
  \/ last.pos # cmd.pos
  \/ last.speed # cmd.speed
  \/ last.torque # cmd.torque

DriverSkip ==
  /\ driverPc = "apply"
  /\ driverIdx <= Len(cmds)
  /\ ~Update(cmds[driverIdx], lastCmds[driverIdx])
  /\ driverIdx' = driverIdx + 1
  /\ UNCHANGED <<lcmVars, cmds, lastCmds, driverPc, relay, serialLock,
                 statusVars, servoVars>>

\* set_goal writes position, speed and torque in one instruction.  A moving
\* goal ends set_goal there; a stop goes on to relay the position.
DriverSetGoal ==
  /\ driverPc = "apply"
  /\ driverIdx <= Len(cmds)
  /\ LET cmd == cmds[driverIdx]
     IN /\ Update(cmd, lastCmds[driverIdx])
        /\ servo' = [servo EXCEPT
                       ![driverIdx].goal = ToRaw(cmd.pos),
                       ![driverIdx].speed = SpeedRegister(cmd),
                       ![driverIdx].torque = TorqueRegister(cmd)]
        /\ sentAt' = [sentAt EXCEPT ![driverIdx] = cmd.utime]
        /\ IF Stops(cmd)
           THEN /\ driverPc' = "relayRead"
                /\ UNCHANGED <<lastCmds, driverIdx>>
           ELSE /\ lastCmds' = [lastCmds EXCEPT ![driverIdx] = cmd]
                /\ driverIdx' = driverIdx + 1
                /\ UNCHANGED driverPc
  /\ UNCHANGED <<lcmVars, cmds, relay, serialLock, statusVars>>

\* The stopping servo's present position is read back.  The response is freed
\* before its bytes are used, so they may no longer be the position.
DriverRelayRead ==
  /\ driverPc = "relayRead"
  /\ relay' \in {servo[driverIdx].pos} \cup FreedBytes
  /\ driverPc' = "relayWrite"
  /\ UNCHANGED <<lcmVars, cmds, lastCmds, driverIdx, serialLock, statusVars,
                 servoVars>>

\* What was read is written as the servo's goal, which ends set_goal.
DriverRelayWrite ==
  /\ driverPc = "relayWrite"
  /\ servo' = [servo EXCEPT ![driverIdx].goal = RelayGoal(relay)]
  /\ lastCmds' = [lastCmds EXCEPT ![driverIdx] = cmds[driverIdx]]
  /\ driverIdx' = driverIdx + 1
  /\ driverPc' = "apply"
  /\ relay' = 0
  /\ UNCHANGED <<lcmVars, cmds, serialLock, statusVars, sentAt>>

DriverUnlock ==
  /\ driverPc = "apply"
  /\ driverIdx > Len(cmds)
  /\ serialLock' = "free"
  /\ driverPc' = "handle"
  /\ driverIdx' = 1
  /\ UNCHANGED <<lcmVars, cmds, lastCmds, relay, statusVars, servoVars>>

Driver ==
  \/ DriverReceive
  \/ DriverLock
  \/ DriverSkip
  \/ DriverSetGoal
  \/ DriverRelayRead
  \/ DriverRelayWrite
  \/ DriverUnlock

-----------------------------------------------------------------------------
(* The status thread.                                                      *)

\* Mutant of StatusLock: the bus is used without waiting for serial_lock.
StatusLock_Barging ==
  /\ statusPc = "lock"
  /\ serialLock' = "status"
  /\ statusPc' = "read"
  /\ statusIdx' = 1
  /\ UNCHANGED <<lcmVars, driverVars, stats, servoVars>>

StatusLock ==
  /\ statusPc = "lock"
  /\ serialLock = "free"
  /\ serialLock' = "status"
  /\ statusPc' = "read"
  /\ statusIdx' = 1
  /\ UNCHANGED <<lcmVars, driverVars, stats, servoVars>>

StatusRead ==
  /\ statusPc = "read"
  /\ statusIdx <= NumServos
  /\ \E reading \in Readings(servo[statusIdx]) :
       stats' = [stats EXCEPT ![statusIdx] = reading]
  /\ statusIdx' = statusIdx + 1
  /\ UNCHANGED <<lcmVars, driverVars, serialLock, statusPc, servoVars>>

StatusUnlock ==
  /\ statusPc = "read"
  /\ statusIdx > NumServos
  /\ serialLock' = "free"
  /\ statusPc' = "publish"
  /\ statusIdx' = 1
  /\ UNCHANGED <<lcmVars, driverVars, stats, servoVars>>

\* Publish, then sleep out the rest of the 1/15 s period.
StatusPublish ==
  /\ statusPc = "publish"
  /\ PublishStatus(stats)
  /\ statusPc' = "lock"
  /\ UNCHANGED <<armCommand, driverVars, serialLock, statusIdx, stats,
                 servoVars>>

StatusThread == StatusLock \/ StatusRead \/ StatusUnlock \/ StatusPublish

-----------------------------------------------------------------------------
(* The servos.                                                             *)

\* A servo with torque moves one step towards its goal, within its range.
ServoMove(id) ==
  LET s == servo[id]
      next == IF s.goal > s.pos THEN s.pos + 1 ELSE s.pos - 1
  IN /\ s.torque > 0
     /\ s.goal # s.pos
     /\ next \in Raw
     /\ servo' = [servo EXCEPT ![id].pos = next]
     /\ UNCHANGED <<lcmVars, driverVars, serialLock, statusVars, sentAt>>

ServosMove == \E id \in Servos : ServoMove(id)

\* A powered-up servo holds its position at full speed and torque.
PoweredUp(pos) ==
  [goal |-> pos, speed |-> 0, torque |-> FullScale, pos |-> pos]

\* A servo loses power for a moment and forgets its goal.
ServoReset(id) ==
  /\ servo' = [servo EXCEPT ![id] = PoweredUp(@.pos)]
  /\ UNCHANGED <<lcmVars, driverVars, serialLock, statusVars, sentAt>>

-----------------------------------------------------------------------------
RexarmInit ==
  /\ cmds = <<>>
  /\ lastCmds = [id \in Servos |-> NoCommand]
  /\ driverPc = "handle"
  /\ driverIdx = 1
  /\ relay = 0
  /\ serialLock = "free"
  /\ statusPc = "lock"
  /\ statusIdx = 1
  /\ stats = [id \in Servos |-> [pos |-> 0, speed |-> 0]]
  /\ servo \in [Servos -> { PoweredUp(pos) : pos \in PowerOnRaw }]
  /\ sentAt = [id \in Servos |-> 0]

RexarmNext == Driver \/ StatusThread \/ ServosMove
=============================================================================
