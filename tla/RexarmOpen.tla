----------------------------- MODULE RexarmOpen -----------------------------
(***************************************************************************)
(* The arm driver alone, facing peers that may publish any command list of *)
(* CommandLists at any time and consume the statuses when they like.       *)
(***************************************************************************)
EXTENDS RexarmDriver

CONSTANT CommandLists   (* The lists some peer may publish.                *)

ASSUME CommandListsAssumption == CommandLists \subseteq Seq(Command)

vars == <<lcmVars, rexarmVars>>

PeerPublish ==
  /\ \E msg \in CommandLists : PublishCommand(msg)
  /\ UNCHANGED <<armStatus, rexarmVars>>

PeerHandleStatus ==
  /\ armStatus # <<>>
  /\ armStatus' = Tail(armStatus)
  /\ UNCHANGED <<armCommand, rexarmVars>>

Loss == (LoseCommand \/ LoseStatus) /\ UNCHANGED rexarmVars

ServosReset == \E id \in Servos : ServoReset(id)

Init == LcmInit /\ RexarmInit

Next ==
  \/ RexarmNext
  \/ PeerPublish
  \/ PeerHandleStatus
  \/ Loss
  \/ ServosReset

Spec == Init /\ [][Next]_vars

-----------------------------------------------------------------------------
TypeOK ==
  /\ armCommand \in Seq(Seq(Command))
  /\ armStatus \in Seq([Servos -> Status])
  /\ cmds \in Seq(Command)
  /\ lastCmds \in [Servos -> Command]
  /\ driverPc \in {"handle", "lock", "apply", "relayRead", "relayWrite"}
  /\ driverIdx \in 1 .. NumServos + 1
  /\ relay \in Nat
  /\ serialLock \in {"free", "driver", "status"}
  /\ statusPc \in {"lock", "read", "publish"}
  /\ statusIdx \in 1 .. NumServos + 1
  /\ stats \in [Servos -> Status]
  /\ servo \in [Servos -> Servo]
  /\ sentAt \in [Servos -> Nat]

DriverOnBus == driverPc \in {"apply", "relayRead", "relayWrite"}

StatusOnBus == statusPc = "read"

\* The servo half-way through set_goal, which is not yet recorded.
BeingSet(id) == driverPc \in {"relayRead", "relayWrite"} /\ driverIdx = id

\* Speed register 0 is only ever the power-up value.
Commanded(id) == servo[id].speed # 0

InForce(id, cmd) ==
  /\ servo[id].speed = SpeedRegister(cmd)
  /\ servo[id].torque = TorqueRegister(cmd)
  /\ ~Stops(cmd) => servo[id].goal = ToRaw(cmd.pos)

\* The half-duplex bus has one user at a time, so no thread reads the answer
\* to the other's request (serial_lock in status_loop and driver_loop).
BusExclusive ==
  /\ ~(DriverOnBus /\ StatusOnBus)
  /\ DriverOnBus => serialLock = "driver"
  /\ StatusOnBus => serialLock = "status"

\* Between two command lists, every servo commanded since it powered up is
\* carrying out the newest list: skipping a command as a repetition never
\* leaves an older goal standing (driver_loop's update test and last_cmds).
NewestListInForce ==
  driverPc = "handle" =>
    \A id \in 1 .. Len(cmds) : Commanded(id) => InForce(id, cmds[id])

\* Between two command lists no servo's goal was last written from a command
\* more than a second older than the newest (the 1000000 in driver_loop).
ResentEverySecond ==
  driverPc = "handle" =>
    \A id \in 1 .. Len(cmds) : cmds[id].utime - sentAt[id] <= Second

\* While the status thread goes from the first servo to the last, no goal is
\* written: a status list describes the arm under a single set of goals.
Registers == [id \in Servos |->
                <<servo[id].goal, servo[id].speed, servo[id].torque>>]

SnapshotUnderOneGoal ==
  [][ (statusPc = "read" /\ ~ServosReset) => Registers' = Registers ]_vars

\* Servos that are only told to stop, where they stand, do not move
\* (dynamixel_set_joint_goal_default's comment: "Handle speed == 0 case [...]
\* by relaying current position back to servo").
NoServoMoves == [][\A id \in Servos : servo'[id].pos = servo[id].pos]_vars

-----------------------------------------------------------------------------
(* Lists for TLC: shorter than, as long as and longer than an arm of two   *)
(* servos, that move, stop and idle, new and repeated.  And one servo that *)
(* is told to stop where it stands.                                        *)

Move(u, p) == [utime |-> u, pos |-> p, speed |-> 2, torque |-> 1]
Stop(u)    == [utime |-> u, pos |-> 0, speed |-> 0, torque |-> 1]

MCCommandLists ==
  { <<Move(2, 2), Stop(2)>>,
    <<Move(4, 2)>>,
    <<Stop(4), NoCommand, Move(4, 0)>> }

StopAt(p) == [utime |-> 2, pos |-> p, speed |-> 0, torque |-> 1]

MCStopAt3 == {<<StopAt(3)>>}
=============================================================================
