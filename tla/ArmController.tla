--------------------------- MODULE ArmController ---------------------------
(***************************************************************************)
(* The arm controller: one thread runs a script of moves, each a command   *)
(* list published once on ARM_COMMAND and then awaited by polling the      *)
(* newest status list; a second thread stores the status lists received on *)
(* ARM_STATUS.  Each critical section on statusMutex is one step.          *)
(*                                                                         *)
(* It is composed with the driver of the same arm: the two exchange lists  *)
(* through the LCM channels and agree on NumServos and on the angles.      *)
(***************************************************************************)
EXTENDS RexarmDriver

CONSTANTS
  Joint1,       (* JOINT1_SERVO, as a servo id of the driver module        *)
  Joint3,       (* JOINT3_SERVO                                            *)
  Script,       (* The moves to make, in order                             *)
  MoveSpeed,    (* MOVE_SPEED and WRIST_SPEED, in register steps           *)
  HighTorque,   (* HIGH_TORQUE, in register steps                          *)
  CloseGripper, (* CLOSE_GRIPPER                                           *)
  ExtendDelta,  (* EXTEND_JOINT3_DELTA                                     *)
  Error,        (* ERROR: a joint this close to its target has arrived     *)
  GripError,    (* GRIP_ERROR                                              *)
  Pause         (* Time between two commands, in the unit of Second        *)

ASSUME ArmControllerAssumption ==
  /\ Joint1 \in Servos
  /\ Joint3 \in Servos
  /\ MoveSpeed \in 1 .. FullScale
  /\ HighTorque \in 1 .. FullScale
  /\ CloseGripper \in Int
  /\ ExtendDelta \in Nat
  /\ Error \in Nat \ {0}
  /\ GripError \in Nat \ {0}
  /\ Pause \in Nat

VARIABLES
  scriptIdx,      (* the move of Script under way                          *)
  controlPc,      (* where the script's thread is in that move             *)
  controlIdx,     (* the id its loop over the servos has reached           *)
  cmd,            (* the command list it composes or awaits                *)
  joint1Position, (* run's local of that name                              *)
  statusList      (* statusList.statuses                                   *)

controlVars == <<scriptIdx, controlPc, controlIdx, cmd, joint1Position>>
armVars     == <<controlVars, statusList>>

Gripper == NumServos

Angles == [Servos -> Int]

\* The moves a script is made of.
MoveTo(thetas)    == [op |-> "moveTo", thetas |-> thetas]
GoHome            == [op |-> "goHome"]
SampleJoint1      == [op |-> "sample"]
SetJoint(j, t)    == [op |-> "setJoint", joint |-> j, theta |-> t, relative |-> FALSE]
AddToJoint1(step) == [op |-> "setJoint", joint |-> Joint1, theta |-> step, relative |-> TRUE]
SetGripper(t)     == [op |-> "setGripper", joint |-> Gripper, theta |-> t, relative |-> FALSE]
GoWhereNoBall     == [op |-> "goWhereNoBallHasGoneBefore"]

\* run: reach out, lift joint 3, swing joint 1 on, lift joint 3 again, grip and
\* go home.
RunScript(reach, lift, swing, liftMore) ==
  << MoveTo(reach), SampleJoint1, SetJoint(Joint3, lift), AddToJoint1(swing),
     SetJoint(Joint3, liftMore), SetGripper(CloseGripper), GoHome >>

CurrentOp == Script[scriptIdx]

Running == scriptIdx <= Len(Script)

\* utime_now() for the commands of the move under way; the epoch is long past.
Now == (scriptIdx * Pause) + Second + 1

MoveCommand(theta) ==
  [utime |-> Now, pos |-> theta, speed |-> MoveSpeed, torque |-> HighTorque]

StopCommand(theta) ==
  [utime |-> Now, pos |-> theta, speed |-> 0, torque |-> HighTorque]

AngleDiff(a, b) == LET d == Mod2pi(a - b) IN IF d < 0 THEN -d ELSE d

-----------------------------------------------------------------------------
(* moveTo and goHome command every servo at once, and wait.                *)

\* Mutant of HomeAngles: the gripper's own command forgotten.
HomeAngles_Opening == [id \in Servos |-> 0]

\* All angles are zero in goHome, but for the gripper, which is closed.
HomeAngles == [id \in Servos |-> IF id = Gripper THEN CloseGripper ELSE 0]

MoveAll(thetas) ==
  /\ cmd' = [id \in Servos |-> MoveCommand(thetas[id])]
  /\ PublishCommand(cmd')
  /\ controlPc' = "wait"
  /\ UNCHANGED <<armStatus, rexarmVars, scriptIdx, controlIdx, joint1Position,
                 statusList>>

StartMoveTo ==
  /\ Running
  /\ controlPc = "next"
  /\ CurrentOp.op = "moveTo"
  /\ MoveAll(CurrentOp.thetas)

StartGoHome ==
  /\ Running
  /\ controlPc = "next"
  /\ CurrentOp.op = "goHome"
  /\ MoveAll(HomeAngles)

\* Joint 3 is moved towards zero by ExtendDelta (away from it below zero), the
\* others are stopped, all from one copy of the status list.
StartGoWhereNoBall ==
  /\ Running
  /\ controlPc = "next"
  /\ CurrentOp.op = "goWhereNoBallHasGoneBefore"
  /\ LET theta == statusList[Joint3].pos
         target == IF theta < 0 THEN theta + ExtendDelta ELSE theta - ExtendDelta
     IN cmd' = [id \in Servos |-> IF id = Joint3 THEN MoveCommand(target)
                                  ELSE StopCommand(statusList[id].pos)]
  /\ PublishCommand(cmd')
  /\ controlPc' = "wait"
  /\ UNCHANGED <<armStatus, rexarmVars, scriptIdx, controlIdx, joint1Position,
                 statusList>>

\* wait: every servo but the last has arrived, and the gripper is slow.
AllArrived ==
  /\ \A id \in Servos \ {Gripper} :
       AngleDiff(statusList[id].pos, cmd[id].pos) < Error
  /\ statusList[Gripper].speed < 1

Advance ==
  /\ scriptIdx' = scriptIdx + 1
  /\ controlPc' = "next"
  /\ UNCHANGED <<lcmVars, rexarmVars, controlIdx, cmd, statusList>>

Wait ==
  /\ controlPc = "wait"
  /\ AllArrived
  /\ Advance
  /\ UNCHANGED joint1Position

\* run reads joint 1's position between moveTo and the first setJoint.
ReadJoint1 ==
  /\ Running
  /\ controlPc = "next"
  /\ CurrentOp.op = "sample"
  /\ joint1Position' = statusList[Joint1].pos
  /\ Advance

-----------------------------------------------------------------------------
(* setJoint and setGripper command one servo and stop the others where the *)
(* status list says they are, the list being locked anew for each.         *)

Theta ==
  IF CurrentOp.relative THEN joint1Position + CurrentOp.theta
  ELSE CurrentOp.theta

StartSetJoint ==
  /\ Running
  /\ controlPc = "next"
  /\ CurrentOp.op \in {"setJoint", "setGripper"}
  /\ cmd' = [id \in Servos |-> NoCommand]
  /\ controlIdx' = 1
  /\ controlPc' = "compose"
  /\ UNCHANGED <<lcmVars, rexarmVars, scriptIdx, joint1Position, statusList>>

\* The loop ends before the gripper, whose command stays all zeros.
ComposeStop ==
  /\ controlPc = "compose"
  /\ controlIdx < Gripper
  /\ cmd' = [cmd EXCEPT ![controlIdx] = StopCommand(statusList[controlIdx].pos)]
  /\ controlIdx' = controlIdx + 1
  /\ UNCHANGED <<lcmVars, rexarmVars, scriptIdx, controlPc, joint1Position,
                 statusList>>

PublishJoint ==
  /\ controlPc = "compose"
  /\ controlIdx = Gripper
  /\ cmd' = [cmd EXCEPT ![CurrentOp.joint] = MoveCommand(Theta)]
  /\ PublishCommand(cmd')
  /\ controlPc' = "poll"
  /\ controlIdx' = 1
  /\ UNCHANGED <<armStatus, rexarmVars, scriptIdx, joint1Position, statusList>>

\* Mutant of JointArrived: the tolerance itself is let through.
JointArrived_Loose ==
  AngleDiff(statusList[CurrentOp.joint].pos, Theta)
    <= (IF CurrentOp.op = "setGripper" THEN GripError ELSE Error)

JointArrived ==
  AngleDiff(statusList[CurrentOp.joint].pos, Theta)
    < (IF CurrentOp.op = "setGripper" THEN GripError ELSE Error)

Poll ==
  /\ controlPc = "poll"
  /\ JointArrived
  /\ Advance
  /\ UNCHANGED joint1Position

-----------------------------------------------------------------------------
\* The status thread stores a status list whole.
HandleStatusMsg ==
  /\ armStatus # <<>>
  /\ armStatus' = Tail(armStatus)
  /\ statusList' = Head(armStatus)
  /\ UNCHANGED <<armCommand, rexarmVars, controlVars>>

\* Until a status list arrives every status is zero.
ArmInit ==
  /\ scriptIdx = 1
  /\ controlPc = "next"
  /\ controlIdx = 1
  /\ cmd = [id \in Servos |-> NoCommand]
  /\ joint1Position = 0
  /\ statusList = [id \in Servos |-> [pos |-> 0, speed |-> 0]]

Control ==
  \/ StartMoveTo
  \/ StartGoHome
  \/ StartGoWhereNoBall
  \/ Wait
  \/ ReadJoint1
  \/ StartSetJoint
  \/ ComposeStop
  \/ PublishJoint
  \/ Poll

ArmNext == Control \/ HandleStatusMsg
=============================================================================
