----------------------------- MODULE ArmProofs -----------------------------
(***************************************************************************)
(* The arm's invariants for every number of servos, every range of angles  *)
(* and every script that closes the gripper once.                          *)
(***************************************************************************)
EXTENDS ArmSystem, TLAPS

\* The driver meets the controller as it meets any peer that publishes lists
\* of one command per servo: what RexarmProofs proves holds in this system too.
Open == INSTANCE RexarmProofs WITH CommandLists <- [Servos -> Command]

\* The moves of a script, and the ones that may come before and after the one
\* that closes the gripper.
Moves ==
  [op : {"moveTo"}, thetas : Angles]
    \cup [op : {"goHome", "sample", "goWhereNoBallHasGoneBefore"}]
    \cup [op : {"setJoint"}, joint : {Joint1, Joint3}, theta : Int, relative : BOOLEAN]
    \cup {SetGripper(CloseGripper)}

\* A raw position where the gripper passes for closed (setGripper's test).
Closed(raw) == AngleDiff(ToAngle(raw), CloseGripper) < GripError

\* The positions below all of these.
Opened == { raw \in Raw : \A r \in 0 .. raw : ~Closed(r) }

\* A script as run's: the gripper is opened, or left alone, until it is closed,
\* and then kept closed.  The gripper is not found closed and not sent there by
\* the wrong goal a stopping servo is given, and no angle but its own is it.
ScriptGrips ==
  /\ Script \in Seq(Moves)
  /\ \A k \in 1 .. Len(Script) :
       /\ Script[k].op = "moveTo" => ToRaw(Script[k].thetas[Gripper]) \in Opened
       /\ Script[k].op = "goHome" =>
            \E m \in 1 .. k : Script[m].op = "setGripper"
       /\ Script[k].op = "setGripper" =>
            \A m \in k + 1 .. Len(Script) : Script[m].op \in {"goHome", "sample"}
  /\ Joint1 # Gripper /\ Joint3 # Gripper
  /\ 0 \in MinAngle .. MaxAngle /\ CloseGripper \in MinAngle .. MaxAngle
  /\ -(Circle \div 2) <= MinAngle /\ MaxAngle < Circle - (Circle \div 2)
  /\ PowerOnRaw \subseteq Opened
  /\ ToRaw(0) \in Opened
  /\ 2 * ByteBase - 1 \in Opened

-----------------------------------------------------------------------------
\* Where the controller is in its script.
ControlInv ==
  /\ TypeOK
  /\ controlPc # "next" => Running
  /\ controlPc = "wait" =>
       CurrentOp.op \in {"moveTo", "goHome", "goWhereNoBallHasGoneBefore"}
  /\ controlPc \in {"compose", "poll"} => CurrentOp.op \in {"setJoint", "setGripper"}
  /\ controlPc = "compose" => cmd[Gripper] = NoCommand
  /\ armCommand \in Seq([Servos -> Command])
  /\ cmds = <<>> \/ cmds \in [Servos -> Command]

\* The gripper's command is the one that closes it, or one that does not.
Grips(c) == c.pos = CloseGripper /\ c.speed = MoveSpeed /\ c.torque = HighTorque

Frees(c) == c.torque = 0 \/ ToRaw(c.pos) \in Opened

SetsGripper(k) == k \in 1 .. Len(Script) /\ Script[k].op = "setGripper"

\* Whether the gripper has been told to close, and whether that was seen done.
Told ==
  \E k \in 1 .. scriptIdx :
    SetsGripper(k) /\ (k = scriptIdx => controlPc = "poll")

Gripped == \E k \in 1 .. scriptIdx - 1 : SetsGripper(k)

\* Once the gripper's command closes it, so does every later one on its way.
AllGrip(lists) == \A i \in 1 .. Len(lists) : Grips(lists[i][Gripper])

LinedUp(lists, told) ==
  \A i \in 1 .. Len(lists) :
    IF Grips(lists[i][Gripper])
    THEN told /\ \A j \in i .. Len(lists) : Grips(lists[j][Gripper])
    ELSE Frees(lists[i][Gripper])

ListsInOrder ==
  /\ LinedUp(armCommand, Told)
  /\ cmds # <<>> => IF Grips(cmds[Gripper]) THEN Told /\ AllGrip(armCommand)
                    ELSE Frees(cmds[Gripper])

\* The command last sent to the gripper is the one that closes it.
Applied == Grips(lastCmds[Gripper])

SeenOpen(s) == \E raw \in Opened : s.pos = ToAngle(raw)

ServoGrips ==
  servo[Gripper].torque > 0 /\ servo[Gripper].goal = ToRaw(CloseGripper)

ServoOpen ==
  /\ servo[Gripper].pos \in Opened
  /\ servo[Gripper].torque = 0 \/ servo[Gripper].goal \in Opened

AllOpen(lists) == \A i \in 1 .. Len(lists) : SeenOpen(lists[i][Gripper])

AllSeenOpen ==
  /\ SeenOpen(stats[Gripper])
  /\ AllOpen(armStatus)
  /\ SeenOpen(statusList[Gripper])

\* Until then it is open and seen open; from then on it keeps to the closed goal.
GripState ==
  IF Applied
  THEN Told /\ cmds # <<>> /\ Grips(cmds[Gripper]) /\ AllGrip(armCommand) /\ ServoGrips
  ELSE ~Gripped /\ ServoOpen /\ AllSeenOpen

GripInv == ControlInv /\ ListsInOrder /\ GripState

-----------------------------------------------------------------------------
(* What the conversions return.                                            *)

\* An angle of half a turn to either side is itself (mod2pi).
LEMMA WithinTurn ==
  ASSUME NEW a \in Int, -(Circle \div 2) <= a, a < Circle - (Circle \div 2)
  PROVE  Mod2pi(a) = a
<1>1. PICK h \in Int : h = Circle \div 2
  BY RexarmAssumption
<1>2. a + h \in 0 .. Circle - 1
  BY <1>1, RexarmAssumption
<1>3. (a + h) % Circle = a + h
  BY <1>1, <1>2, RexarmAssumption
<1> QED
  BY <1>1, <1>3 DEF Mod2pi

\* Angles within the servo's range and raw positions are the same thing.
LEMMA RawOfAngle ==
  ASSUME ScriptGrips
  PROVE  /\ \A a \in MinAngle .. MaxAngle :
              ToRaw(a) = a - MinAngle /\ ToRaw(a) \in Raw /\ ToAngle(ToRaw(a)) = a
         /\ \A raw \in Raw : ToAngle(raw) \in Int /\ ToRaw(ToAngle(raw)) = raw
<1>1. ASSUME NEW a \in MinAngle .. MaxAngle
      PROVE  ToRaw(a) = a - MinAngle /\ ToRaw(a) \in Raw /\ ToAngle(ToRaw(a)) = a
  <2>0. PICK h \in Int : h = Circle \div 2
    BY RexarmAssumption
  <2>1. Mod2pi(a) = a
    <3>1. -h <= a /\ a < Circle - h /\ a \in Int
      BY <2>0, RexarmAssumption DEF ScriptGrips
    <3> QED
      BY <2>0, <3>1, WithinTurn
  <2>2. Clamp(MinAngle, MaxAngle, a) = a
    BY RexarmAssumption DEF Clamp
  <2> QED
    BY <2>1, <2>2, RexarmAssumption DEF ToRaw, Raw, ToAngle
<1>2. ASSUME NEW raw \in Raw
      PROVE  ToAngle(raw) \in Int /\ ToRaw(ToAngle(raw)) = raw
  <2>1. ToAngle(raw) \in MinAngle .. MaxAngle /\ ToAngle(raw) - MinAngle = raw
    BY RexarmAssumption DEF Raw, ToAngle
  <2> QED
    BY <1>1, <2>1
<1> QED
  BY <1>1, <1>2

\* The closed goal is a closed position.
LEMMA ClosedIsNotOpened ==
  ASSUME ScriptGrips
  PROVE  ToRaw(CloseGripper) \notin Opened
<1>1. ToRaw(CloseGripper) \in Raw /\ ToAngle(ToRaw(CloseGripper)) = CloseGripper
  BY RawOfAngle DEF ScriptGrips
<1>2. Mod2pi(CloseGripper - CloseGripper) = 0
  <2>1. PICK h \in Int : h = Circle \div 2 /\ 0 <= h /\ h < Circle
    BY RexarmAssumption
  <2>2. CloseGripper - CloseGripper = 0
    BY ArmControllerAssumption
  <2> QED
    BY <2>1, <2>2, WithinTurn, RexarmAssumption
<1>3. Closed(ToRaw(CloseGripper))
  BY <1>1, <1>2, ArmControllerAssumption DEF Closed, AngleDiff
<1>4. ToRaw(CloseGripper) \in 0 .. ToRaw(CloseGripper)
  BY <1>1, RexarmAssumption DEF Raw
<1> QED
  BY <1>3, <1>4 DEF Opened

\* Below an open position all are.
LEMMA BelowOpened ==
  ASSUME NEW raw \in Opened, NEW r \in 0 .. raw
  PROVE  r \in Opened
<1>1. raw \in Raw /\ raw \in Nat /\ r \in Raw
  BY RexarmAssumption DEF Opened, Raw
<1>2. \A q \in 0 .. r : q \in 0 .. raw
  BY <1>1
<1> QED
  BY <1>1, <1>2 DEF Opened

\* A step towards an open goal from an open position ends in one.
LEMMA StaysOpened ==
  ASSUME NEW p \in Opened, NEW g \in Opened, p # g
  PROVE  (IF g > p THEN p + 1 ELSE p - 1) \in Opened
<1>1. p \in Nat /\ g \in Nat
  BY RexarmAssumption DEF Opened, Raw
<1>2. CASE g > p
  <2>1. p + 1 \in 0 .. g
    BY <1>1, <1>2
  <2> QED
    BY <1>2, <2>1, BelowOpened
<1>3. CASE ~(g > p)
  <2>1. p - 1 \in 0 .. p
    BY <1>1, <1>3
  <2> QED
    BY <1>3, <2>1, BelowOpened
<1> QED
  BY <1>2, <1>3

\* The wrong goal relayed to a stopping gripper is an open one.
LEMMA RelayedIsOpened ==
  ASSUME ScriptGrips, NEW raw \in Nat
  PROVE  RelayGoal(raw) \in Opened
<1>1. PICK low \in Nat : low = raw % ByteBase /\ low < ByteBase
  BY RexarmAssumption
<1>2. RelayGoal(raw) \in 0 .. 2 * ByteBase - 1
  BY <1>1, RexarmAssumption DEF RelayGoal
<1> QED
  BY <1>2, BelowOpened DEF ScriptGrips

\* A command that closes the gripper moves it, with torque, to the closed goal,
\* and is none of those that leave it open.
LEMMA GripsOrFrees ==
  ASSUME ScriptGrips, NEW c, Grips(c)
  PROVE  /\ ~Frees(c) /\ ~Stops(c)
         /\ TorqueRegister(c) > 0
         /\ ToRaw(c.pos) = ToRaw(CloseGripper)
<1>1. /\ c.speed = MoveSpeed /\ c.torque = HighTorque /\ c.pos = CloseGripper
      /\ MoveSpeed \in 1 .. FullScale /\ HighTorque \in 1 .. FullScale
  BY ArmControllerAssumption DEF Grips
<1>2. ~Frees(c)
  BY <1>1, ClosedIsNotOpened DEF Frees
<1>3. ~Stops(c) /\ TorqueRegister(c) > 0
  BY <1>1, RexarmAssumption DEF Stops, TorqueRegister, Clamp
<1> QED
  BY <1>1, <1>2, <1>3

-----------------------------------------------------------------------------
(* What is in a queue after a step.                                        *)

LEMMA Delivered ==
  ASSUME NEW S, NEW q \in Seq(S), NEW msg \in S
  PROVE  /\ Deliver(q, msg) \in Seq(S)
         /\ \A i \in 1 .. Len(Deliver(q, msg)) :
              \/ Deliver(q, msg)[i] = msg /\ i = Len(Deliver(q, msg))
              \/ i \in 1 .. Len(q) /\ Deliver(q, msg)[i] = q[i]
BY DEF Deliver

LEMMA Taken ==
  ASSUME NEW S, NEW q \in Seq(S), q # <<>>, NEW p, p = Tail(q)
  PROVE  /\ p \in Seq(S) /\ Head(q) \in S /\ Head(q) = q[1]
         /\ 1 \in 1 .. Len(q)
         /\ Len(p) = Len(q) - 1
         /\ \A i \in 1 .. Len(p) : i + 1 \in 1 .. Len(q) /\ p[i] = q[i + 1]
BY DEF Deliver

-----------------------------------------------------------------------------
(* The controller's moves.                                                 *)

\* The fields a move has.
LEMMA MoveFields ==
  ASSUME ScriptGrips, NEW k \in 1 .. Len(Script)
  PROVE  /\ Script[k].op \in {"moveTo", "goHome", "sample", "setJoint", "setGripper",
                              "goWhereNoBallHasGoneBefore"}
         /\ Script[k].op = "moveTo" => Script[k].thetas \in Angles
         /\ Script[k].op = "setJoint" =>
              /\ Script[k].joint \in Servos \ {Gripper}
              /\ Script[k].theta \in Int /\ Script[k].relative \in BOOLEAN
         /\ Script[k].op = "setGripper" => Script[k] = SetGripper(CloseGripper)
<1>1. PICK m \in Moves : m = Script[k]
  BY DEF ScriptGrips
<1>2. {Joint1, Joint3} \subseteq Servos \ {Gripper}
  BY ArmControllerAssumption DEF ScriptGrips
<1>3. CASE m \in [op : {"moveTo"}, thetas : Angles]
  <2>1. m.op = "moveTo" /\ m.thetas \in Angles
    BY <1>3
  <2> QED
    BY <1>1, <2>1
<1>4. CASE m \in [op : {"goHome", "sample", "goWhereNoBallHasGoneBefore"}]
  <2>1. m.op \in {"goHome", "sample", "goWhereNoBallHasGoneBefore"}
    BY <1>4
  <2> QED
    BY <1>1, <2>1
<1>5. CASE m \in [op : {"setJoint"}, joint : {Joint1, Joint3}, theta : Int,
                 relative : BOOLEAN]
  <2>1. m.op = "setJoint" /\ m.joint \in {Joint1, Joint3} /\ m.theta \in Int
        /\ m.relative \in BOOLEAN
    BY <1>5
  <2> QED
    BY <1>1, <1>2, <2>1
<1>6. CASE m = SetGripper(CloseGripper)
  <2>1. m.op = "setGripper"
    BY <1>6 DEF SetGripper
  <2> QED
    BY <1>1, <1>6, <2>1
<1> QED
  BY <1>3, <1>4, <1>5, <1>6 DEF Moves

LEMMA GripperIsServo == Gripper \in Servos /\ Gripper \in Nat
BY RexarmAssumption DEF Gripper, Servos

\* The commands the controller makes are commands.
LEMMA CommandTypes ==
  ASSUME NEW theta \in Int, scriptIdx \in Nat
  PROVE  /\ MoveCommand(theta) \in Command
         /\ StopCommand(theta) \in Command
         /\ NoCommand \in Command
<1>1. scriptIdx * Pause \in Nat
  BY ArmControllerAssumption
<1>2. Now \in Nat
  BY <1>1, RexarmAssumption DEF Now
<1>3. MoveSpeed \in Int /\ HighTorque \in Int
  BY ArmControllerAssumption, RexarmAssumption
<1> QED
  BY <1>2, <1>3 DEF MoveCommand, StopCommand, NoCommand, Command

\* A step that publishes a list gives every servo one command.
Published ==
  /\ cmd' \in [Servos -> Command]
  /\ PublishCommand(cmd')
  /\ UNCHANGED <<armStatus, rexarmVars>>

LEMMA MoveAllPublishes ==
  ASSUME ScriptGrips, TypeOK, StartMoveTo \/ StartGoHome \/ StartGoWhereNoBall
  PROVE  Published
<1>0. scriptIdx \in Nat /\ (Running => scriptIdx \in 1 .. Len(Script))
  BY DEF TypeOK, Running, ScriptGrips
<1>1. CASE StartMoveTo
  <2>1. CurrentOp.thetas \in Angles
    BY <1>0, <1>1, MoveFields DEF StartMoveTo, CurrentOp
  <2>2. \A id \in Servos : CurrentOp.thetas[id] \in Int
    BY <2>1 DEF Angles
  <2>3. \A id \in Servos : MoveCommand(CurrentOp.thetas[id]) \in Command
    BY <1>0, <1>1, <2>2, CommandTypes DEF TypeOK
  <2> QED
    BY <1>1, <2>3 DEF StartMoveTo, MoveAll, Published
<1>2. CASE StartGoHome
  <2>1. \A id \in Servos : HomeAngles[id] \in Int
    BY ArmControllerAssumption DEF HomeAngles
  <2>2. \A id \in Servos : MoveCommand(HomeAngles[id]) \in Command
    BY <2>1, CommandTypes DEF TypeOK
  <2> QED
    BY <1>2, <2>2 DEF StartGoHome, MoveAll, Published
<1>3. CASE StartGoWhereNoBall
  <2>1. \A id \in Servos : statusList[id].pos \in Int
    BY DEF TypeOK, Status
  <2>2. PICK target \in Int :
          cmd' = [id \in Servos |-> IF id = Joint3 THEN MoveCommand(target)
                                    ELSE StopCommand(statusList[id].pos)]
    BY <1>3, <2>1, ArmControllerAssumption DEF StartGoWhereNoBall
  <2>3. MoveCommand(target) \in Command
        /\ \A id \in Servos : StopCommand(statusList[id].pos) \in Command
    BY <2>1, CommandTypes DEF TypeOK
  <2>4. cmd' \in [Servos -> Command]
    BY <2>2, <2>3
  <2> QED
    BY <1>3, <2>4 DEF StartGoWhereNoBall, Published
<1> QED
  BY <1>1, <1>2, <1>3

LEMMA PublishJointPublishes ==
  ASSUME ScriptGrips, ControlInv, PublishJoint
  PROVE  Published
<1>0. scriptIdx \in Nat /\ scriptIdx \in 1 .. Len(Script) /\ CurrentOp.op \in {"setJoint", "setGripper"}
  BY DEF ControlInv, TypeOK, Running, ScriptGrips, PublishJoint
<1>1. CurrentOp.joint \in Servos /\ CurrentOp.theta \in Int
  BY <1>0, MoveFields, GripperIsServo, ArmControllerAssumption DEF CurrentOp, SetGripper
<1>2. Theta \in Int
  BY <1>1 DEF Theta, ControlInv, TypeOK
<1>3. MoveCommand(Theta) \in Command
  BY <1>0, <1>2, CommandTypes
<1>4. cmd' \in [Servos -> Command]
  BY <1>1, <1>3 DEF PublishJoint, ControlInv, TypeOK
<1> QED
  BY <1>4 DEF PublishJoint, Published

\* A list of one command per servo is taken whole by command_handler.
LEMMA WholeList ==
  ASSUME NEW list \in [Servos -> Command]
  PROVE  list \in Seq(Command) /\ Len(list) = NumServos /\ list # <<>>
<1>1. list \in Seq(Command) /\ Len(list) = NumServos
  BY RexarmAssumption DEF Servos
<1> QED
  BY <1>1, RexarmAssumption

\* What RexarmProofs assumes of a peer's lists.
LEMMA PeerLists == [Servos -> Command] \subseteq Seq(Open!Command)
BY WholeList DEF Command, Open!Command

-----------------------------------------------------------------------------
(* Every step is one the driver expects of its peers.                      *)

LEMMA DriverStep == RexarmNext => Open!RexarmNext
<1>1. ASSUME Driver PROVE Open!Driver
  <2> USE DEF lcmVars, driverVars, statusVars, servoVars, Open!lcmVars, Open!driverVars,
              Open!statusVars, Open!servoVars
  <2>1. DriverReceive => Open!DriverReceive
    BY DEF DriverReceive, Open!DriverReceive
  <2>2. DriverLock => Open!DriverLock
    BY DEF DriverLock, Open!DriverLock
  <2>3. DriverSkip => Open!DriverSkip
    BY DEF DriverSkip, Open!DriverSkip, Update, Open!Update
  <2>4. DriverSetGoal => Open!DriverSetGoal
    BY DEF DriverSetGoal, Open!DriverSetGoal, Update, Open!Update, ToRaw, Open!ToRaw,
           Stops, Open!Stops, SpeedRegister, Open!SpeedRegister, TorqueRegister,
           Open!TorqueRegister, Clamp, Open!Clamp, Mod2pi, Open!Mod2pi
  <2>5. DriverRelayRead => Open!DriverRelayRead
    BY DEF DriverRelayRead, Open!DriverRelayRead
  <2>6. DriverRelayWrite => Open!DriverRelayWrite
    BY DEF DriverRelayWrite, Open!DriverRelayWrite, RelayGoal, Open!RelayGoal
  <2>7. DriverUnlock => Open!DriverUnlock
    BY DEF DriverUnlock, Open!DriverUnlock
  <2> QED
    BY <1>1, <2>1, <2>2, <2>3, <2>4, <2>5, <2>6, <2>7 DEF Driver, Open!Driver
<1>2. ASSUME StatusThread PROVE Open!StatusThread
  <2> USE DEF lcmVars, driverVars, statusVars, servoVars, Open!lcmVars, Open!driverVars,
              Open!statusVars, Open!servoVars
  <2>1. StatusLock => Open!StatusLock
    BY DEF StatusLock, Open!StatusLock
  <2>2. StatusRead => Open!StatusRead
    BY DEF StatusRead, Open!StatusRead, Readings, Open!Readings, ToAngle, Open!ToAngle
  <2>3. StatusUnlock => Open!StatusUnlock
    BY DEF StatusUnlock, Open!StatusUnlock
  <2>4. StatusPublish => Open!StatusPublish
    BY DEF StatusPublish, Open!StatusPublish, PublishStatus, Open!PublishStatus, Deliver,
           Open!Deliver
  <2> QED
    BY <1>2, <2>1, <2>2, <2>3, <2>4 DEF StatusThread, Open!StatusThread
<1>3. ASSUME ServosMove PROVE Open!ServosMove
  BY <1>3 DEF ServosMove, Open!ServosMove, ServoMove, Open!ServoMove, Servos, Open!Servos,
              Raw, Open!Raw, lcmVars, driverVars, statusVars, Open!lcmVars,
              Open!driverVars, Open!statusVars
<1> QED
  BY <1>1, <1>2, <1>3 DEF RexarmNext, Open!RexarmNext

PublishesOne == StartMoveTo \/ StartGoHome \/ StartGoWhereNoBall \/ PublishJoint

\* What a step does to the lists on their way.
ListsStep ==
  \/ UNCHANGED <<armCommand, cmds>>
  \/ DriverReceive /\ armCommand # <<>> /\ armCommand' = Tail(armCommand) /\ cmds' = Head(armCommand)
  \/ LoseCommand /\ UNCHANGED <<cmds, rexarmVars, armVars>>
  \/ PublishesOne /\ Published /\ UNCHANGED cmds

LEMMA ListsSteps ==
  ASSUME ScriptGrips, ControlInv, [Next]_vars
  PROVE  ListsStep
<1> USE DEF lcmVars, driverVars, statusVars, servoVars, rexarmVars
<1>1. CASE Driver
  <2>1. CASE DriverReceive
    <3>1. armCommand # <<>> /\ Head(armCommand) \in [Servos -> Command]
      BY <2>1 DEF DriverReceive, ControlInv
    <3>2. Len(Head(armCommand)) = NumServos
      BY <3>1, WholeList
    <3>3. cmds' = Head(armCommand) /\ armCommand' = Tail(armCommand)
      BY <2>1, <3>2, RexarmAssumption DEF DriverReceive
    <3> QED
      BY <2>1, <3>1, <3>3 DEF ListsStep
  <2>2. CASE DriverLock \/ DriverSkip \/ DriverSetGoal \/ DriverRelayRead
             \/ DriverRelayWrite \/ DriverUnlock
    BY <2>2 DEF DriverLock, DriverSkip, DriverSetGoal, DriverRelayRead,
                DriverRelayWrite, DriverUnlock, ListsStep
  <2> QED
    BY <1>1, <2>1, <2>2 DEF Driver
<1>2. CASE StatusThread
  BY <1>2 DEF StatusThread, StatusLock, StatusRead, StatusUnlock, StatusPublish, ListsStep
<1>3. CASE ServosMove
  BY <1>3 DEF ServosMove, ServoMove, ListsStep
<1>4. CASE StartMoveTo \/ StartGoHome \/ StartGoWhereNoBall
  BY <1>4, MoveAllPublishes DEF ControlInv, ListsStep, Published, PublishesOne
<1>5. CASE PublishJoint
  BY <1>5, PublishJointPublishes DEF ListsStep, Published, PublishesOne
<1>6. CASE Wait \/ ReadJoint1 \/ StartSetJoint \/ ComposeStop \/ Poll \/ HandleStatusMsg
  BY <1>6 DEF Wait, ReadJoint1, StartSetJoint, ComposeStop, Poll, HandleStatusMsg, Advance,
              ListsStep
<1>7. CASE Loss
  BY <1>7 DEF Loss, LoseCommand, LoseStatus, ListsStep
<1>8. CASE UNCHANGED vars
  BY <1>8 DEF vars, ListsStep
<1> QED
  BY <1>1, <1>2, <1>3, <1>4, <1>5, <1>6, <1>7, <1>8
     DEF Next, InDriverProcess, InController, RexarmNext, ArmNext, Control

LEMMA OpenStep ==
  ASSUME ScriptGrips, ControlInv, [Next]_vars
  PROVE  [Open!Next]_(Open!vars)
<1> USE DEF Open!lcmVars, Open!driverVars, Open!statusVars, Open!servoVars,
            Open!rexarmVars, Open!vars
<1> USE DEF lcmVars, driverVars, statusVars, servoVars, rexarmVars
<1>1. CASE RexarmNext
  BY <1>1, DriverStep DEF Open!Next
<1>2. ASSUME Published PROVE Open!PeerPublish
  BY <1>2 DEF Published, Open!PeerPublish, PublishCommand, Open!PublishCommand, Deliver,
              Open!Deliver
<1>3. CASE StartMoveTo \/ StartGoHome \/ StartGoWhereNoBall
  BY <1>2, <1>3, MoveAllPublishes DEF ControlInv, Open!Next
<1>4. CASE PublishJoint
  BY <1>2, <1>4, PublishJointPublishes DEF Open!Next
<1>5. CASE HandleStatusMsg
  <2>1. Open!PeerHandleStatus
    BY <1>5 DEF HandleStatusMsg, Open!PeerHandleStatus
  <2> QED
    BY <2>1 DEF Open!Next
<1>6. CASE Wait \/ ReadJoint1 \/ StartSetJoint \/ ComposeStop \/ Poll
  BY <1>6 DEF Wait, ReadJoint1, StartSetJoint, ComposeStop, Poll, Advance
<1>7. CASE Loss
  <2>1. Open!Loss
    BY <1>7 DEF Loss, LoseCommand, LoseStatus, Open!Loss, Open!LoseCommand,
                Open!LoseStatus
  <2> QED
    BY <2>1 DEF Open!Next
<1>8. CASE UNCHANGED vars
  BY <1>8 DEF vars
<1> QED
  BY <1>1, <1>3, <1>4, <1>5, <1>6, <1>7, <1>8
     DEF Next, InDriverProcess, InController, ArmNext, Control

\* At the start nothing was published, and nobody was told anything.
LEMMA ArmStart ==
  ASSUME ScriptGrips, Init
  PROVE  ControlInv /\ Open!Init
<1> USE DEF Init, LcmInit, RexarmInit, ArmInit
<1>1. Open!Init
  BY DEF Open!Init, Open!LcmInit, Open!RexarmInit, Servos, Open!Servos, NoCommand,
         Open!NoCommand, PoweredUp, Open!PoweredUp
<1>2. servo \in [Servos -> Servo]
  <2>1. \A pos \in PowerOnRaw : PoweredUp(pos) \in Servo
    BY RexarmAssumption DEF PoweredUp, Servo, Raw
  <2> QED
    BY <2>1
<1>3. NoCommand \in Command /\ [pos |-> 0, speed |-> 0] \in Status
  BY DEF NoCommand, Command, Status
<1>4. Gripper \in Nat \ {0} /\ Len(Script) \in Nat
  BY RexarmAssumption DEF Gripper, ScriptGrips
<1>5. TypeOK
  BY <1>2, <1>3, <1>4 DEF TypeOK
<1> QED
  BY <1>1, <1>5 DEF ControlInv

\* What the queue of commands may hold, whatever the step.
LEMMA ListsTyped ==
  ASSUME ControlInv, ListsStep
  PROVE  /\ armCommand' \in Seq([Servos -> Command])
         /\ cmds' = <<>> \/ cmds' \in [Servos -> Command]
<1>1. armCommand \in Seq([Servos -> Command]) /\ (cmds = <<>> \/ cmds \in [Servos -> Command])
  BY DEF ControlInv
<1>2. CASE UNCHANGED <<armCommand, cmds>>
  BY <1>1, <1>2
<1>3. CASE DriverReceive /\ armCommand # <<>> /\ armCommand' = Tail(armCommand) /\ cmds' = Head(armCommand)
  BY <1>1, <1>3, Taken
<1>4. CASE LoseCommand /\ UNCHANGED <<cmds, rexarmVars, armVars>>
  BY <1>1, <1>4, Taken DEF LoseCommand
<1>5. CASE PublishesOne /\ Published /\ UNCHANGED cmds
  BY <1>1, <1>5, Delivered DEF Published, PublishCommand
<1> QED
  BY <1>2, <1>3, <1>4, <1>5 DEF ListsStep

\* The controller keeps to its script.
LEMMA ControlStep ==
  ASSUME ScriptGrips, ControlInv, Open!TypeOK', [Next]_vars
  PROVE  ControlInv'
<1> DEFINE Place ==
      /\ scriptIdx \in 1 .. Len(Script) + 1
      /\ controlPc \in {"next", "compose", "wait", "poll"}
      /\ controlIdx \in 1 .. Gripper
      /\ cmd \in [Servos -> Command]
      /\ joint1Position \in Int
      /\ statusList \in [Servos -> Status]
      /\ controlPc # "next" => Running
      /\ controlPc = "wait" =>
           CurrentOp.op \in {"moveTo", "goHome", "goWhereNoBallHasGoneBefore"}
      /\ controlPc \in {"compose", "poll"} => CurrentOp.op \in {"setJoint", "setGripper"}
      /\ controlPc = "compose" => cmd[Gripper] = NoCommand
<1>1. armStatus' \in Seq([Servos -> Status]) /\ servo' \in [Servos -> Servo]
  BY DEF Open!TypeOK, Servos, Open!Servos, Status, Open!Status, Servo, Open!Servo, Raw,
         Open!Raw
<1>2. /\ armCommand' \in Seq([Servos -> Command])
      /\ cmds' = <<>> \/ cmds' \in [Servos -> Command]
  BY ListsSteps, ListsTyped
<1>3. reached' \subseteq Servos /\ atRest' \subseteq Servos
  <2>1. CASE Track
    BY <2>1 DEF Track, ControlInv, TypeOK
  <2>2. CASE UNCHANGED historyVars
    BY <2>2 DEF historyVars, ControlInv, TypeOK
  <2> QED
    BY <2>1, <2>2 DEF Next, InDriverProcess, InController, vars
<1>4. Place
  BY DEF ControlInv, TypeOK
<1>5. Place'
  <2>0. /\ Len(Script) \in Nat /\ scriptIdx \in Nat /\ Gripper \in Servos /\ Gripper \in Nat
        /\ (Running => scriptIdx \in 1 .. Len(Script))
    BY <1>4, GripperIsServo DEF ScriptGrips, Running
  <2>1. CASE UNCHANGED armVars
    BY <1>4, <2>1 DEF armVars, controlVars, Running, CurrentOp
  <2>2. CASE StartMoveTo \/ StartGoHome \/ StartGoWhereNoBall
    <3>1. cmd' \in [Servos -> Command]
      BY <2>2, MoveAllPublishes DEF ControlInv, Published
    <3>2. /\ controlPc' = "wait" /\ Running
          /\ CurrentOp.op \in {"moveTo", "goHome", "goWhereNoBallHasGoneBefore"}
          /\ UNCHANGED <<scriptIdx, controlIdx, joint1Position, statusList>>
      BY <2>2 DEF StartMoveTo, StartGoHome, StartGoWhereNoBall, MoveAll
    <3> QED
      BY <1>4, <3>1, <3>2 DEF Running, CurrentOp
  <2>3. CASE Wait \/ Poll
    <3>1. /\ scriptIdx' = scriptIdx + 1 /\ controlPc' = "next" /\ Running
          /\ UNCHANGED <<controlIdx, cmd, statusList, joint1Position>>
      BY <1>4, <2>3 DEF Wait, Poll, Advance
    <3> QED
      BY <1>4, <2>0, <3>1
  <2>4. CASE ReadJoint1
    <3>1. /\ scriptIdx' = scriptIdx + 1 /\ controlPc' = "next" /\ Running
          /\ UNCHANGED <<controlIdx, cmd, statusList>>
          /\ joint1Position' = statusList[Joint1].pos
      BY <2>4 DEF ReadJoint1, Advance
    <3>2. joint1Position' \in Int
      BY <1>4, <3>1, ArmControllerAssumption DEF Status
    <3> QED
      BY <1>4, <2>0, <3>1, <3>2
  <2>5. CASE StartSetJoint
    <3>1. NoCommand \in Command
      BY DEF NoCommand, Command
    <3>2. /\ cmd' = [id \in Servos |-> NoCommand] /\ controlIdx' = 1
          /\ controlPc' = "compose" /\ Running
          /\ CurrentOp.op \in {"setJoint", "setGripper"}
          /\ UNCHANGED <<scriptIdx, joint1Position, statusList>>
      BY <2>5 DEF StartSetJoint
    <3> QED
      BY <1>4, <2>0, <3>1, <3>2, RexarmAssumption DEF Running, CurrentOp, Servos
  <2>6. CASE ComposeStop
    <3>1. /\ controlPc = "compose" /\ controlIdx < Gripper
          /\ cmd' = [cmd EXCEPT ![controlIdx] = StopCommand(statusList[controlIdx].pos)]
          /\ controlIdx' = controlIdx + 1
          /\ UNCHANGED <<scriptIdx, controlPc, joint1Position, statusList>>
      BY <2>6 DEF ComposeStop
    <3>2. controlIdx \in Servos /\ controlIdx \in Nat /\ controlIdx # Gripper
      BY <1>4, <2>0, <3>1, RexarmAssumption DEF Servos, Gripper
    <3>3. StopCommand(statusList[controlIdx].pos) \in Command
      BY <1>4, <2>0, <3>2, CommandTypes DEF Status
    <3>4. cmd' \in [Servos -> Command] /\ cmd'[Gripper] = cmd[Gripper]
      BY <1>4, <2>0, <3>1, <3>2, <3>3
    <3>5. controlIdx' \in 1 .. Gripper
      BY <1>4, <2>0, <3>1, <3>2
    <3> QED
      BY <1>4, <3>1, <3>4, <3>5 DEF Running, CurrentOp
  <2>7. CASE PublishJoint
    <3>1. cmd' \in [Servos -> Command]
      BY <2>7, PublishJointPublishes DEF Published
    <3>2. /\ controlPc = "compose" /\ controlPc' = "poll" /\ controlIdx' = 1
          /\ UNCHANGED <<scriptIdx, joint1Position, statusList>>
      BY <2>7 DEF PublishJoint
    <3>3. controlIdx' \in 1 .. Gripper
      BY <2>0, <3>2, RexarmAssumption DEF Servos
    <3> QED
      BY <1>4, <3>1, <3>2, <3>3 DEF Running, CurrentOp
  <2>8. CASE HandleStatusMsg
    <3>1. statusList' = Head(armStatus) /\ armStatus # <<>>
          /\ UNCHANGED <<scriptIdx, controlPc, controlIdx, cmd, joint1Position>>
      BY <2>8 DEF HandleStatusMsg, controlVars
    <3>2. statusList' \in [Servos -> Status]
      BY <3>1 DEF ControlInv, TypeOK
    <3> QED
      BY <1>4, <3>1, <3>2 DEF Running, CurrentOp
  <2> QED
    BY <2>1, <2>2, <2>3, <2>4, <2>5, <2>6, <2>7, <2>8
       DEF Next, InDriverProcess, InController, ArmNext, Control, Loss, vars
<1> QED
  BY <1>1, <1>2, <1>3, <1>5 DEF ControlInv, TypeOK

-----------------------------------------------------------------------------
(* When the gripper is told to close, and by which lists.                  *)

\* What was told stays told, and being told comes before being seen done.
LEMMA ToldSteps ==
  ASSUME ScriptGrips, ControlInv, [Next]_vars
  PROVE  /\ Told => Told'
         /\ Gripped' => Gripped \/ (Poll /\ SetsGripper(scriptIdx))
         /\ Told' => Told \/ (PublishJoint /\ SetsGripper(scriptIdx))
<1>0. scriptIdx \in Nat /\ scriptIdx \in 1 .. Len(Script) + 1
  BY DEF ControlInv, TypeOK, ScriptGrips
<1>1. CASE UNCHANGED <<scriptIdx, controlPc>>
  BY <1>1 DEF Told, Gripped
<1>2. CASE scriptIdx' = scriptIdx /\ controlPc = "next" /\ controlPc' \in {"wait", "compose"}
  BY <1>2 DEF Told, Gripped
<1>3. CASE PublishJoint
  <2>1. scriptIdx' = scriptIdx /\ controlPc = "compose" /\ controlPc' = "poll"
    BY <1>3 DEF PublishJoint
  <2> QED
    BY <1>3, <2>1 DEF Told, Gripped
<1>4. CASE Wait \/ ReadJoint1 \/ Poll
  <2>1. /\ scriptIdx' = scriptIdx + 1 /\ controlPc' = "next"
        /\ scriptIdx \in 1 .. Len(Script)
    BY <1>0, <1>4 DEF Wait, ReadJoint1, Poll, Advance, ControlInv, Running, ScriptGrips
  <2>2. SetsGripper(scriptIdx) => Poll
    BY <1>4 DEF Wait, ReadJoint1, SetsGripper, ControlInv, CurrentOp
  <2>3. Poll => controlPc = "poll"
    BY DEF Poll
  <2>4. \A k : k \in 1 .. scriptIdx' - 1 <=> k \in 1 .. scriptIdx
    BY <1>0, <2>1
  <2>5. \A k \in 1 .. scriptIdx : k # scriptIdx => k \in 1 .. scriptIdx - 1
    BY <1>0
  <2>6. Gripped' <=> \E k \in 1 .. scriptIdx : SetsGripper(k)
    BY <2>4 DEF Gripped
  <2>7. Told' <=> \E k \in 1 .. scriptIdx : SetsGripper(k)
    BY <1>0, <2>1, <2>4 DEF Told
  <2>8. Told <=> \E k \in 1 .. scriptIdx : SetsGripper(k)
    <3>1. ASSUME NEW k \in 1 .. scriptIdx, SetsGripper(k) PROVE Told
      BY <2>2, <2>3, <3>1 DEF Told
    <3> QED
      BY <3>1 DEF Told
  <2> QED
    BY <2>2, <2>5, <2>6, <2>7, <2>8 DEF Gripped
<1>5. CASE StartMoveTo \/ StartGoHome \/ StartGoWhereNoBall \/ StartSetJoint
  BY <1>2, <1>5 DEF StartMoveTo, StartGoHome, StartGoWhereNoBall, StartSetJoint, MoveAll
<1>6. CASE ComposeStop \/ HandleStatusMsg
  BY <1>1, <1>6 DEF ComposeStop, HandleStatusMsg, controlVars
<1>7. CASE UNCHANGED armVars
  BY <1>1, <1>7 DEF armVars, controlVars
<1> QED
  BY <1>3, <1>4, <1>5, <1>6, <1>7
     DEF Next, InDriverProcess, InController, ArmNext, Control, Loss, vars

LEMMA GrippedIsTold == scriptIdx \in Nat /\ Gripped => Told
BY DEF Gripped, Told

\* A list published once the gripper was told to close closes it, one from before
\* leaves it open.
LEMMA PublishedGrips ==
  ASSUME ScriptGrips, ControlInv, GripState, [Next]_vars, PublishesOne
  PROVE  IF Told' THEN Grips(cmd'[Gripper]) ELSE Frees(cmd'[Gripper])
<1>0. /\ scriptIdx \in Nat /\ scriptIdx \in 1 .. Len(Script) /\ Len(Script) \in Nat
      /\ Gripper \in Servos
  BY GripperIsServo
     DEF ControlInv, TypeOK, ScriptGrips, StartMoveTo, StartGoHome, StartGoWhereNoBall,
         PublishJoint, Running, PublishesOne
<1>1. Told => CurrentOp.op \in {"goHome", "sample"} \/ controlPc = "poll"
  <2> SUFFICES ASSUME Told, controlPc # "poll" PROVE CurrentOp.op \in {"goHome", "sample"}
    OBVIOUS
  <2>1. PICK k \in 1 .. scriptIdx : SetsGripper(k) /\ k # scriptIdx
    BY DEF Told
  <2>2. scriptIdx \in k + 1 .. Len(Script)
    BY <1>0, <2>1
  <2> QED
    BY <2>1, <2>2 DEF ScriptGrips, SetsGripper, CurrentOp
<1>2. CASE StartMoveTo
  <2>1. ~Told'
    BY <1>1, <1>2, ToldSteps DEF StartMoveTo, PublishJoint
  <2>2. cmd'[Gripper].pos = CurrentOp.thetas[Gripper]
    BY <1>0, <1>2 DEF StartMoveTo, MoveAll, MoveCommand
  <2>3. ToRaw(CurrentOp.thetas[Gripper]) \in Opened
    BY <1>0, <1>2 DEF StartMoveTo, CurrentOp, ScriptGrips
  <2> QED
    BY <2>1, <2>2, <2>3 DEF Frees
<1>3. CASE StartGoHome
  <2>1. PICK m \in 1 .. scriptIdx : Script[m].op = "setGripper"
    BY <1>0, <1>3 DEF StartGoHome, CurrentOp, ScriptGrips
  <2>2. m # scriptIdx /\ SetsGripper(m)
    BY <1>0, <1>3, <2>1 DEF StartGoHome, CurrentOp, SetsGripper
  <2>3. Told'
    BY <2>2, ToldSteps DEF Told
  <2>4. cmd'[Gripper] = MoveCommand(CloseGripper)
    BY <1>0, <1>3 DEF StartGoHome, MoveAll, HomeAngles
  <2> QED
    BY <2>3, <2>4 DEF Grips, MoveCommand
<1>4. CASE StartGoWhereNoBall
  <2>1. ~Told /\ ~Told'
    BY <1>1, <1>4, ToldSteps DEF StartGoWhereNoBall, PublishJoint
  <2>2. cmd'[Gripper].pos = statusList[Gripper].pos
    BY <1>0, <1>4 DEF StartGoWhereNoBall, StopCommand, ScriptGrips
  <2>3. SeenOpen(statusList[Gripper])
    BY <2>1 DEF GripState, AllSeenOpen
  <2>4. PICK raw \in Opened : cmd'[Gripper].pos = ToAngle(raw)
    BY <2>2, <2>3 DEF SeenOpen
  <2>5. ToRaw(cmd'[Gripper].pos) = raw
    BY <2>4, RawOfAngle DEF Opened
  <2> QED
    BY <2>1, <2>5 DEF Frees
<1>5. CASE PublishJoint
  <2>0. CurrentOp.op \in {"setJoint", "setGripper"} /\ cmd \in [Servos -> Command]
        /\ cmd[Gripper] = NoCommand /\ scriptIdx' = scriptIdx /\ controlPc' = "poll"
        /\ controlPc = "compose"
        /\ cmd' = [cmd EXCEPT ![CurrentOp.joint] = MoveCommand(Theta)]
    BY <1>5 DEF PublishJoint, ControlInv, TypeOK
  <2>1. CASE CurrentOp.op = "setJoint"
    <3>1. CurrentOp.joint \in Servos \ {Gripper}
      BY <1>0, <2>1, MoveFields DEF CurrentOp
    <3>2. cmd'[Gripper] = NoCommand
      BY <2>0, <3>1
    <3>3. ~Told'
      BY <1>1, <2>0, <2>1, ToldSteps DEF SetsGripper, CurrentOp
    <3> QED
      BY <3>2, <3>3 DEF Frees, NoCommand
  <2>2. CASE CurrentOp.op = "setGripper"
    <3>1. CurrentOp = SetGripper(CloseGripper)
      BY <1>0, <2>2, MoveFields DEF CurrentOp
    <3>2. Theta = CloseGripper /\ CurrentOp.joint = Gripper
      BY <3>1 DEF Theta, SetGripper
    <3>3. cmd'[Gripper] = MoveCommand(CloseGripper)
      BY <1>0, <2>0, <3>2
    <3>4. Told'
      BY <1>0, <2>0, <2>2 DEF Told, SetsGripper, CurrentOp
    <3> QED
      BY <3>3, <3>4 DEF Grips, MoveCommand
  <2> QED
    BY <2>0, <2>1, <2>2
<1> QED
  BY <1>2, <1>3, <1>4, <1>5 DEF PublishesOne

\* Taking the first list from the queue, and adding one to it.
LEMMA TakenLinedUp ==
  ASSUME NEW S, NEW q \in Seq(S), q # <<>>, NEW told \in BOOLEAN, LinedUp(q, told)
  PROVE  /\ LinedUp(Tail(q), told)
         /\ IF Grips(Head(q)[Gripper]) THEN told /\ AllGrip(Tail(q))
            ELSE Frees(Head(q)[Gripper])
<1>0. PICK p \in Seq(S) : p = Tail(q)
  BY Taken
<1>1. /\ p = Tail(q) /\ Head(q) = q[1] /\ 1 \in 1 .. Len(q) /\ Len(q) \in Nat
      /\ \A i \in 1 .. Len(p) : i + 1 \in 1 .. Len(q) /\ p[i] = q[i + 1]
      /\ Len(p) = Len(q) - 1
  BY <1>0, Taken
<1>2. ASSUME NEW i \in 1 .. Len(p), Grips(p[i][Gripper])
      PROVE  told /\ \A j \in i .. Len(p) : Grips(p[j][Gripper])
  <2>1. told /\ \A j \in i + 1 .. Len(q) : Grips(q[j][Gripper])
    BY <1>1, <1>2 DEF LinedUp
  <2>2. ASSUME NEW j \in i .. Len(p) PROVE Grips(p[j][Gripper])
    <3>1. j \in 1 .. Len(p) /\ j + 1 \in i + 1 .. Len(q)
      BY <1>1
    <3> QED
      BY <1>1, <2>1, <3>1
  <2> QED
    BY <2>1, <2>2
<1>3. ASSUME NEW i \in 1 .. Len(p), ~Grips(p[i][Gripper]) PROVE Frees(p[i][Gripper])
  BY <1>1, <1>3 DEF LinedUp
<1>4. LinedUp(p, told)
  BY <1>2, <1>3 DEF LinedUp
<1>5. ASSUME Grips(q[1][Gripper]) PROVE told /\ AllGrip(p)
  <2>1. told /\ \A j \in 1 .. Len(q) : Grips(q[j][Gripper])
    BY <1>1, <1>5 DEF LinedUp
  <2> QED
    BY <1>1, <2>1 DEF AllGrip
<1>6. ~Grips(q[1][Gripper]) => Frees(q[1][Gripper])
  BY <1>1 DEF LinedUp
<1> QED
  BY <1>1, <1>4, <1>5, <1>6

LEMMA DeliveredLinedUp ==
  ASSUME NEW S, NEW q \in Seq(S), NEW msg \in S, NEW told \in BOOLEAN,
         NEW now \in BOOLEAN, told => now, LinedUp(q, told),
         IF now THEN Grips(msg[Gripper]) ELSE Frees(msg[Gripper]),
         \A c : Grips(c) => ~Frees(c)
  PROVE  /\ LinedUp(Deliver(q, msg), now)
         /\ now /\ AllGrip(q) => AllGrip(Deliver(q, msg))
<1>1. PICK p \in Seq(S) :
        /\ p = Deliver(q, msg)
        /\ \A i \in 1 .. Len(p) : \/ p[i] = msg /\ i = Len(p)
                                  \/ i \in 1 .. Len(q) /\ p[i] = q[i]
  BY Delivered
<1>2. ASSUME NEW i \in 1 .. Len(p), Grips(p[i][Gripper])
      PROVE  now /\ \A j \in i .. Len(p) : Grips(p[j][Gripper])
  <2>1. now
    BY <1>1, <1>2 DEF LinedUp
  <2>2. ASSUME NEW j \in i .. Len(p) PROVE Grips(p[j][Gripper])
    <3>1. j \in 1 .. Len(p)
      OBVIOUS
    <3>2. CASE p[j] = msg
      BY <2>1, <3>2
    <3>3. CASE j \in 1 .. Len(q) /\ p[j] = q[j]
      <4>1. CASE i \in 1 .. Len(q) /\ p[i] = q[i]
        <5>1. j \in i .. Len(q)
          BY <3>3
        <5>2. \A k \in i .. Len(q) : Grips(q[k][Gripper])
          BY <1>2, <4>1 DEF LinedUp
        <5> QED
          BY <3>3, <5>1, <5>2
      <4>2. CASE p[i] = msg /\ i = Len(p)
        <5>1. j = i
          BY <4>2
        <5> QED
          BY <1>2, <5>1
      <4> QED
        BY <1>1, <4>1, <4>2
    <3> QED
      BY <1>1, <3>1, <3>2, <3>3
  <2> QED
    BY <2>1, <2>2
<1>3. ASSUME NEW i \in 1 .. Len(p), ~Grips(p[i][Gripper]) PROVE Frees(p[i][Gripper])
  BY <1>1, <1>3 DEF LinedUp
<1>4. LinedUp(p, now)
  BY <1>2, <1>3 DEF LinedUp
<1>5. now /\ AllGrip(q) => AllGrip(p)
  BY <1>1 DEF AllGrip
<1> QED
  BY <1>1, <1>4, <1>5

\* The lists on their way stay in order.
LEMMA ListsOrderStep ==
  ASSUME ScriptGrips, GripInv, [Next]_vars
  PROVE  ListsInOrder' /\ (Told /\ AllGrip(armCommand) => AllGrip(armCommand'))
<1> DEFINE S == [Servos -> Command]
<1>0. /\ ControlInv /\ ListsInOrder /\ GripState
      /\ armCommand \in Seq(S)
      /\ Told => Told'
      /\ Told \in BOOLEAN /\ Told' \in BOOLEAN
  BY ToldSteps DEF GripInv, ControlInv, Told
<1>x. \A c : Grips(c) => ~Frees(c)
  BY GripsOrFrees
<1>e. LinedUp(armCommand, Told) => LinedUp(armCommand, Told')
  BY <1>0 DEF LinedUp
<1>1. CASE UNCHANGED <<armCommand, cmds>>
  BY <1>0, <1>1, <1>e DEF ListsInOrder
<1>2. CASE DriverReceive /\ armCommand # <<>> /\ armCommand' = Tail(armCommand)
           /\ cmds' = Head(armCommand)
  <2>1. /\ LinedUp(armCommand', Told')
        /\ IF Grips(cmds'[Gripper]) THEN Told' /\ AllGrip(armCommand')
           ELSE Frees(cmds'[Gripper])
    BY <1>0, <1>2, <1>e, TakenLinedUp DEF ListsInOrder
  <2>2. AllGrip(armCommand) => AllGrip(armCommand')
    BY <1>0, <1>2, Taken DEF AllGrip
  <2> QED
    BY <2>1, <2>2 DEF ListsInOrder
<1>3. CASE LoseCommand /\ UNCHANGED <<cmds, rexarmVars, armVars>>
  <2>0. armCommand' = Tail(armCommand) /\ armCommand # <<>> /\ cmds' = cmds
    BY <1>3 DEF LoseCommand
  <2>1. LinedUp(armCommand', Told')
    BY <1>0, <2>0, <1>e, TakenLinedUp DEF ListsInOrder
  <2>2. AllGrip(armCommand) => AllGrip(armCommand')
    BY <1>0, <2>0, Taken DEF AllGrip
  <2> QED
    BY <1>0, <2>0, <2>1, <2>2 DEF ListsInOrder
<1>4. CASE PublishesOne /\ Published /\ UNCHANGED cmds
  <2>1. IF Told' THEN Grips(cmd'[Gripper]) ELSE Frees(cmd'[Gripper])
    BY <1>0, <1>4, PublishedGrips
  <2>2. armCommand' = Deliver(armCommand, cmd') /\ cmd' \in S
    BY <1>4 DEF Published, PublishCommand
  <2>3. /\ LinedUp(armCommand', Told')
        /\ Told' /\ AllGrip(armCommand) => AllGrip(armCommand')
    <3> HIDE DEF S
    <3> QED
      BY <1>0, <1>x, <2>1, <2>2, DeliveredLinedUp DEF ListsInOrder
  <2> QED
    BY <1>0, <1>4, <2>3 DEF ListsInOrder
<1> QED
  BY <1>0, <1>1, <1>2, <1>3, <1>4, ListsSteps DEF ListsStep

-----------------------------------------------------------------------------
(* What the steps do to the gripper.                                       *)

\* A servo that is being stopped is not being told to close.
LEMMA RelayingFrees ==
  ASSUME ScriptGrips, Open!IInv, ControlInv,
         driverPc \in {"relayRead", "relayWrite"}, driverIdx = Gripper
  PROVE  /\ cmds # <<>> /\ ~Grips(cmds[Gripper])
         /\ relay \in Nat
<1>1. Open!LoopBounds /\ Open!LastInForce /\ Open!TypeOK
  BY DEF Open!IInv
<1>2. Gripper \in Open!Servos /\ Open!BeingSet(Gripper)
  BY GripperIsServo DEF Open!Servos, Servos, Open!BeingSet
<1>3. Stops(cmds[Gripper])
  BY <1>1, <1>2 DEF Open!LastInForce, Open!Stops, Stops, Open!Clamp, Clamp
<1>4. Gripper <= Len(cmds) /\ Gripper \in Nat \ {0}
  BY <1>1, RexarmAssumption DEF Open!LoopBounds, Gripper
<1> QED
  BY <1>1, <1>3, <1>4, GripsOrFrees DEF Open!TypeOK

\* What a step does to the gripper's registers, position and last command.
GripperStep ==
  \/ servo'[Gripper] = servo[Gripper] /\ lastCmds'[Gripper] = lastCmds[Gripper]
  \/ /\ servo'[Gripper] = [servo[Gripper] EXCEPT
          !.goal = ToRaw(cmds[Gripper].pos), !.speed = SpeedRegister(cmds[Gripper]),
          !.torque = TorqueRegister(cmds[Gripper])]
     /\ lastCmds'[Gripper] = IF Stops(cmds[Gripper]) THEN lastCmds[Gripper]
                             ELSE cmds[Gripper]
     /\ cmds # <<>> /\ UNCHANGED <<armCommand, cmds>>
  \/ /\ \E raw \in Nat : servo'[Gripper] = [servo[Gripper] EXCEPT !.goal = RelayGoal(raw)]
     /\ lastCmds'[Gripper] = cmds[Gripper]
     /\ cmds # <<>> /\ ~Grips(cmds[Gripper]) /\ UNCHANGED <<armCommand, cmds>>
  \/ /\ servo[Gripper].torque > 0 /\ servo[Gripper].goal # servo[Gripper].pos
     /\ servo'[Gripper] = [servo[Gripper] EXCEPT !.pos =
          IF servo[Gripper].goal > servo[Gripper].pos THEN servo[Gripper].pos + 1
          ELSE servo[Gripper].pos - 1]
     /\ lastCmds'[Gripper] = lastCmds[Gripper]

LEMMA GripperSteps ==
  ASSUME ScriptGrips, ControlInv, Open!IInv, [Next]_vars
  PROVE  GripperStep
<1> USE DEF lcmVars, driverVars, statusVars, servoVars, rexarmVars
<1>0. /\ servo \in [Servos -> Servo] /\ lastCmds \in [Servos -> Command]
      /\ Gripper \in Servos /\ driverIdx \in Nat
  BY GripperIsServo
     DEF ControlInv, TypeOK, Open!IInv, Open!TypeOK, Open!Command, Command, Open!Servos,
         Servos
<1>1. CASE UNCHANGED <<servo, lastCmds>>
  BY <1>1 DEF GripperStep
<1>2. CASE Driver
  <2>1. CASE DriverSetGoal
    <3>1. CASE driverIdx = Gripper
      <4>1. /\ Gripper <= Len(cmds) /\ Gripper \in Nat \ {0}
            /\ UNCHANGED <<armCommand, cmds>>
        BY <2>1, <3>1, RexarmAssumption DEF DriverSetGoal, Gripper
      <4>2. cmds # <<>>
        BY <4>1
      <4>3. /\ servo' = [servo EXCEPT
                 ![Gripper].goal = ToRaw(cmds[Gripper].pos),
                 ![Gripper].speed = SpeedRegister(cmds[Gripper]),
                 ![Gripper].torque = TorqueRegister(cmds[Gripper])]
            /\ IF Stops(cmds[Gripper]) THEN lastCmds' = lastCmds
               ELSE lastCmds' = [lastCmds EXCEPT ![Gripper] = cmds[Gripper]]
        BY <2>1, <3>1 DEF DriverSetGoal
      <4>4. lastCmds'[Gripper] = IF Stops(cmds[Gripper]) THEN lastCmds[Gripper]
                                 ELSE cmds[Gripper]
        BY <1>0, <4>3
      <4>5. servo'[Gripper] = [servo[Gripper] EXCEPT
          !.goal = ToRaw(cmds[Gripper].pos), !.speed = SpeedRegister(cmds[Gripper]),
          !.torque = TorqueRegister(cmds[Gripper])]
        BY <1>0, <4>3
      <4> QED
        BY <4>1, <4>2, <4>4, <4>5 DEF GripperStep
    <3>2. CASE driverIdx # Gripper
      <4>1. servo'[Gripper] = servo[Gripper] /\ lastCmds'[Gripper] = lastCmds[Gripper]
        BY <1>0, <2>1, <3>2 DEF DriverSetGoal
      <4> QED
        BY <4>1 DEF GripperStep
    <3> QED
      BY <3>1, <3>2
  <2>2. CASE DriverRelayWrite
    <3>1. CASE driverIdx = Gripper
      <4>1. cmds # <<>> /\ ~Grips(cmds[Gripper]) /\ relay \in Nat
        BY <2>2, <3>1, RelayingFrees DEF DriverRelayWrite
      <4>2. /\ servo'[Gripper] = [servo[Gripper] EXCEPT !.goal = RelayGoal(relay)]
            /\ lastCmds'[Gripper] = cmds[Gripper] /\ UNCHANGED <<armCommand, cmds>>
        BY <1>0, <2>2, <3>1 DEF DriverRelayWrite
      <4> QED
        BY <4>1, <4>2 DEF GripperStep
    <3>2. CASE driverIdx # Gripper
      <4>1. servo'[Gripper] = servo[Gripper] /\ lastCmds'[Gripper] = lastCmds[Gripper]
        BY <1>0, <2>2, <3>2 DEF DriverRelayWrite
      <4> QED
        BY <4>1 DEF GripperStep
    <3> QED
      BY <3>1, <3>2
  <2>3. CASE DriverReceive \/ DriverLock \/ DriverSkip \/ DriverRelayRead \/ DriverUnlock
    BY <1>1, <2>3 DEF DriverReceive, DriverLock, DriverSkip, DriverRelayRead, DriverUnlock
  <2> QED
    BY <1>2, <2>1, <2>2, <2>3 DEF Driver
<1>3. CASE StatusThread
  BY <1>1, <1>3 DEF StatusThread, StatusLock, StatusRead, StatusUnlock, StatusPublish
<1>4. CASE ServosMove
  <2>1. PICK id \in Servos : ServoMove(id)
    BY <1>4 DEF ServosMove
  <2>2. CASE id = Gripper
    <3>1. /\ servo[Gripper].torque > 0 /\ servo[Gripper].goal # servo[Gripper].pos
          /\ servo'[Gripper] = [servo[Gripper] EXCEPT !.pos =
               IF servo[Gripper].goal > servo[Gripper].pos THEN servo[Gripper].pos + 1
               ELSE servo[Gripper].pos - 1]
          /\ lastCmds' = lastCmds
      BY <1>0, <2>1, <2>2 DEF ServoMove
    <3> QED
      BY <3>1 DEF GripperStep
  <2>3. CASE id # Gripper
    <3>1. servo'[Gripper] = servo[Gripper] /\ lastCmds' = lastCmds
      BY <1>0, <2>1, <2>3 DEF ServoMove
    <3> QED
      BY <3>1 DEF GripperStep
  <2> QED
    BY <2>2, <2>3
<1>5. CASE ArmNext
  BY <1>1, <1>5, MoveAllPublishes
     DEF ArmNext, Control, StartMoveTo, StartGoHome, StartGoWhereNoBall, MoveAll, Wait,
         ReadJoint1, StartSetJoint, ComposeStop, PublishJoint, Poll, HandleStatusMsg, Advance
<1>6. CASE Loss \/ UNCHANGED vars
  BY <1>1, <1>6 DEF Loss, LoseCommand, LoseStatus, vars
<1> QED
  BY <1>2, <1>3, <1>4, <1>5, <1>6 DEF Next, InDriverProcess, InController, RexarmNext

\* The gripper is open until its closing command is carried out, and holds on after.
LEMMA RegistersStep ==
  ASSUME ScriptGrips, GripInv, Open!IInv, [Next]_vars
  PROVE  /\ Applied => Applied' /\ ServoGrips'
         /\ ~Applied /\ ~Applied' => ServoOpen'
         /\ ~Applied /\ Applied' =>
              /\ ServoGrips' /\ Told /\ UNCHANGED <<armCommand, cmds>>
              /\ cmds # <<>> /\ Grips(cmds[Gripper]) /\ AllGrip(armCommand)
<1> DEFINE s == servo[Gripper]
           c == cmds[Gripper]
<1>0. /\ ControlInv /\ ListsInOrder /\ GripState /\ GripperStep
      /\ s \in Servo /\ s.goal \in Nat /\ s.pos \in Nat
      /\ \A d : Grips(d) => ~Frees(d)
  <2>1. ControlInv /\ ListsInOrder /\ GripState
    BY DEF GripInv
  <2>2. GripperStep
    BY <2>1, GripperSteps
  <2>3. s \in Servo
    BY <2>1, GripperIsServo DEF ControlInv, TypeOK
  <2>4. s.goal \in Nat /\ s.pos \in Nat
    BY <2>3, RexarmAssumption DEF Servo, Raw
  <2>5. \A d : Grips(d) => ~Frees(d)
    BY GripsOrFrees
  <2> QED
    BY <2>1, <2>2, <2>3, <2>4, <2>5
<1>1. CASE servo'[Gripper] = s /\ lastCmds'[Gripper] = lastCmds[Gripper]
  BY <1>0, <1>1 DEF GripState, Applied, ServoGrips, ServoOpen
<1>2. CASE /\ servo'[Gripper] = [s EXCEPT !.goal = ToRaw(c.pos),
                !.speed = SpeedRegister(c), !.torque = TorqueRegister(c)]
           /\ lastCmds'[Gripper] = IF Stops(c) THEN lastCmds[Gripper] ELSE c
           /\ cmds # <<>> /\ UNCHANGED <<armCommand, cmds>>
  <2>1. /\ servo'[Gripper].goal = ToRaw(c.pos) /\ servo'[Gripper].pos = s.pos
        /\ servo'[Gripper].torque = TorqueRegister(c)
    BY <1>0, <1>2 DEF Servo
  <2>2. CASE Grips(c)
    <3>1. ServoGrips' /\ lastCmds'[Gripper] = c
      BY <1>2, <2>1, <2>2, GripsOrFrees DEF ServoGrips
    <3>2. Told /\ AllGrip(armCommand)
      BY <1>0, <1>2, <2>2 DEF ListsInOrder
    <3> QED
      BY <1>2, <2>2, <3>1, <3>2 DEF Applied
  <2>3. CASE ~Grips(c)
    <3>1. ~Applied
      BY <1>0, <2>3 DEF GripState
    <3>2. ~Applied'
      BY <1>2, <2>3, <3>1 DEF Applied
    <3>3. Frees(c)
      BY <1>0, <1>2, <2>3 DEF ListsInOrder
    <3>4. c.torque = 0 => TorqueRegister(c) = 0
      BY RexarmAssumption DEF TorqueRegister, Clamp
    <3>5. s.pos \in Opened
      BY <1>0, <3>1 DEF GripState, ServoOpen
    <3>6. ServoOpen'
      BY <2>1, <3>3, <3>4, <3>5 DEF ServoOpen, Frees
    <3> QED
      BY <3>1, <3>2, <3>6
  <2> QED
    BY <2>2, <2>3
<1>3. CASE /\ \E raw \in Nat : servo'[Gripper] = [s EXCEPT !.goal = RelayGoal(raw)]
           /\ lastCmds'[Gripper] = c
           /\ cmds # <<>> /\ ~Grips(c) /\ UNCHANGED <<armCommand, cmds>>
  <2>1. ~Applied /\ ~Applied'
    BY <1>0, <1>3 DEF GripState, Applied
  <2>2. PICK raw \in Nat : servo'[Gripper] = [s EXCEPT !.goal = RelayGoal(raw)]
    BY <1>3
  <2>3. servo'[Gripper].goal = RelayGoal(raw) /\ servo'[Gripper].pos = s.pos
    BY <1>0, <2>2 DEF Servo
  <2>4. ServoOpen'
    BY <1>0, <2>1, <2>3, RelayedIsOpened DEF GripState, ServoOpen
  <2> QED
    BY <2>1, <2>4
<1>4. CASE /\ s.torque > 0 /\ s.goal # s.pos
           /\ servo'[Gripper] = [s EXCEPT !.pos =
                IF s.goal > s.pos THEN s.pos + 1 ELSE s.pos - 1]
           /\ lastCmds'[Gripper] = lastCmds[Gripper]
  <2>1. /\ servo'[Gripper].goal = s.goal /\ servo'[Gripper].torque = s.torque
        /\ servo'[Gripper].pos = IF s.goal > s.pos THEN s.pos + 1 ELSE s.pos - 1
    BY <1>0, <1>4 DEF Servo
  <2>2. Applied' <=> Applied
    BY <1>4 DEF Applied
  <2>3. CASE Applied
    BY <1>0, <2>1, <2>2, <2>3 DEF GripState, ServoGrips
  <2>4. CASE ~Applied
    <3>1. s.pos \in Opened /\ s.goal \in Opened
      BY <1>0, <1>4, <2>4 DEF GripState, ServoOpen
    <3>2. servo'[Gripper].pos \in Opened
      BY <1>4, <2>1, <3>1, StaysOpened
    <3>3. ServoOpen'
      BY <2>1, <3>1, <3>2 DEF ServoOpen
    <3> QED
      BY <2>2, <2>4, <3>3
  <2> QED
    BY <2>3, <2>4
<1> QED
  BY <1>0, <1>1, <1>2, <1>3, <1>4 DEF GripperStep

LEMMA OpenLists ==
  ASSUME NEW S, NEW q \in Seq(S), AllOpen(q)
  PROVE  /\ \A msg \in S : SeenOpen(msg[Gripper]) => AllOpen(Deliver(q, msg))
         /\ q # <<>> => AllOpen(Tail(q)) /\ SeenOpen(Head(q)[Gripper])
<1>1. ASSUME NEW msg \in S, SeenOpen(msg[Gripper]) PROVE AllOpen(Deliver(q, msg))
  <2>1. PICK p \in Seq(S) :
          /\ p = Deliver(q, msg)
          /\ \A i \in 1 .. Len(p) : p[i] = msg \/ (i \in 1 .. Len(q) /\ p[i] = q[i])
    BY Delivered
  <2> QED
    BY <1>1, <2>1 DEF AllOpen
<1>2. ASSUME q # <<>> PROVE AllOpen(Tail(q)) /\ SeenOpen(Head(q)[Gripper])
  <2>0. PICK p : p = Tail(q)
    OBVIOUS
  <2>1. \A i \in 1 .. Len(p) : i + 1 \in 1 .. Len(q) /\ p[i] = q[i + 1]
    BY <1>2, <2>0, Taken
  <2>2. Head(q) = q[1] /\ 1 \in 1 .. Len(q)
    BY <1>2, Taken
  <2> QED
    BY <2>0, <2>1, <2>2 DEF AllOpen
<1> QED
  BY <1>1, <1>2

\* While the gripper is open every reading of it on its way says so.
LEMMA SeenStep ==
  ASSUME ControlInv, Open!IInv, ServoOpen, AllSeenOpen, [Next]_vars
  PROVE  AllSeenOpen'
<1> USE DEF lcmVars, driverVars, statusVars, servoVars, rexarmVars
<1>0. /\ armStatus \in Seq([Servos -> Status]) /\ stats \in [Servos -> Status]
      /\ servo[Gripper].pos \in Opened
      /\ Gripper \in Servos
  BY GripperIsServo
     DEF ControlInv, TypeOK, Open!IInv, Open!TypeOK, Open!Status, Status, Open!Servos,
         Servos, ServoOpen
<1>a. /\ SeenOpen(stats[Gripper]) => AllOpen(Deliver(armStatus, stats))
      /\ armStatus # <<>> => AllOpen(Tail(armStatus)) /\ SeenOpen(Head(armStatus)[Gripper])
  BY <1>0, OpenLists DEF AllSeenOpen
<1>1. CASE UNCHANGED <<stats, armStatus, statusList>>
  BY <1>1 DEF AllSeenOpen
<1>2. CASE StatusRead
  <2>1. PICK reading \in Readings(servo[statusIdx]) :
          stats' = [stats EXCEPT ![statusIdx] = reading]
    BY <1>2 DEF StatusRead
  <2>2. UNCHANGED <<armStatus, statusList>>
    <3>1. UNCHANGED armStatus
      BY <1>2 DEF StatusRead
    <3>2. UNCHANGED statusList
      BY <1>2 DEF StatusRead, Next, InDriverProcess, InController, ArmNext, Control,
         armVars, StartMoveTo, StartGoHome, StartGoWhereNoBall, MoveAll, Wait, ReadJoint1,
         StartSetJoint, ComposeStop, PublishJoint, Poll, HandleStatusMsg, Advance, Loss, vars
    <3> QED
      BY <3>1, <3>2
  <2>3. SeenOpen(stats'[Gripper])
    <3>1. CASE statusIdx = Gripper
      <4>1. reading.pos = ToAngle(servo[Gripper].pos) /\ stats'[Gripper] = reading
        BY <1>0, <2>1, <3>1 DEF Readings
      <4> QED
        BY <1>0, <4>1 DEF SeenOpen
    <3>2. CASE statusIdx # Gripper
      <4>1. stats'[Gripper] = stats[Gripper]
        BY <1>0, <2>1, <3>2
      <4> QED
        BY <4>1 DEF AllSeenOpen
    <3> QED
      BY <3>1, <3>2
  <2> QED
    BY <2>2, <2>3 DEF AllSeenOpen
<1>3. CASE StatusPublish /\ UNCHANGED armVars
  <2>1. armStatus' = Deliver(armStatus, stats) /\ UNCHANGED <<stats, statusList>>
    BY <1>3 DEF StatusPublish, PublishStatus, armVars
  <2>2. AllOpen(armStatus')
    BY <1>a, <2>1 DEF AllSeenOpen
  <2> QED
    BY <2>1, <2>2 DEF AllSeenOpen
<1>4. CASE HandleStatusMsg
  <2>1. /\ armStatus # <<>> /\ armStatus' = Tail(armStatus) /\ statusList' = Head(armStatus)
        /\ UNCHANGED stats
    BY <1>4 DEF HandleStatusMsg
  <2>2. AllOpen(armStatus') /\ SeenOpen(statusList'[Gripper])
    BY <1>a, <2>1
  <2> QED
    BY <2>1, <2>2 DEF AllSeenOpen
<1>5. CASE LoseStatus /\ UNCHANGED <<rexarmVars, armVars>>
  <2>1. armStatus # <<>> /\ armStatus' = Tail(armStatus) /\ UNCHANGED <<stats, statusList>>
    BY <1>5 DEF LoseStatus, armVars
  <2>2. AllOpen(armStatus')
    BY <1>a, <2>1
  <2> QED
    BY <2>1, <2>2 DEF AllSeenOpen
<1>6. CASE InDriverProcess(Driver \/ ServosMove \/ StatusLock \/ StatusUnlock)
  BY <1>1, <1>6
     DEF InDriverProcess, armVars, Driver, ServosMove, ServoMove, DriverReceive, DriverLock,
         DriverSkip, DriverSetGoal, DriverRelayRead, DriverRelayWrite, DriverUnlock,
         StatusLock, StatusUnlock
<1>7. CASE Control
  BY <1>1, <1>7
     DEF Control, StartMoveTo, StartGoHome, StartGoWhereNoBall, MoveAll, Wait, ReadJoint1,
         StartSetJoint, ComposeStop, PublishJoint, Poll, Advance
<1>8. CASE UNCHANGED vars \/ (LoseCommand /\ UNCHANGED <<rexarmVars, armVars>>)
  BY <1>1, <1>8 DEF vars, LoseCommand, armVars
<1> QED
  BY <1>2, <1>3, <1>4, <1>5, <1>6, <1>7, <1>8
     DEF Next, InDriverProcess, InController, RexarmNext, StatusThread, ArmNext, Loss
\* The gripper is not found closed before it has been told to close.
LEMMA FoundClosedSteps ==
  ASSUME ScriptGrips, ControlInv, SeenOpen(statusList[Gripper]), Poll
  PROVE  ~SetsGripper(scriptIdx)
<1> SUFFICES ASSUME SetsGripper(scriptIdx) PROVE FALSE
  OBVIOUS
<1>1. CurrentOp = SetGripper(CloseGripper)
  BY MoveFields DEF CurrentOp, SetsGripper
<1>2. /\ CurrentOp.op = "setGripper" /\ CurrentOp.joint = Gripper
      /\ CurrentOp.theta = CloseGripper /\ CurrentOp.relative = FALSE
  BY <1>1 DEF SetGripper
<1>3. AngleDiff(statusList[Gripper].pos, CloseGripper) < GripError
  BY <1>2 DEF Poll, JointArrived, Theta
<1>4. PICK raw \in Opened : statusList[Gripper].pos = ToAngle(raw)
  BY DEF SeenOpen
<1>5. raw \in 0 .. raw
  BY <1>4, RexarmAssumption DEF Opened, Raw
<1> QED
  BY <1>3, <1>4, <1>5 DEF Opened, Closed

\* The list last taken closes the gripper if the one before it did.
LEMMA KeptGripping ==
  ASSUME ScriptGrips, ControlInv, [Next]_vars,
         AllGrip(armCommand), cmds # <<>>, Grips(cmds[Gripper])
  PROVE  cmds' # <<>> /\ Grips(cmds'[Gripper])
<1>1. CASE DriverReceive /\ armCommand # <<>> /\ armCommand' = Tail(armCommand)
           /\ cmds' = Head(armCommand)
  <2>1. /\ Head(armCommand) = armCommand[1] /\ 1 \in 1 .. Len(armCommand)
        /\ Head(armCommand) \in [Servos -> Command]
    BY <1>1, Taken DEF ControlInv
  <2> QED
    BY <1>1, <2>1, WholeList DEF AllGrip
<1>2. CASE UNCHANGED cmds
  BY <1>2
<1> QED
  BY <1>1, <1>2, ListsSteps DEF ListsStep

\* The gripper's own state goes from open to closing, and not back.
LEMMA GripStateStep ==
  ASSUME ScriptGrips, GripInv, Open!IInv, [Next]_vars
  PROVE  GripState'
<1>0. ControlInv /\ GripState
  BY DEF GripInv
<1>1. /\ Applied => Applied' /\ ServoGrips'
      /\ ~Applied /\ ~Applied' => ServoOpen'
      /\ ~Applied /\ Applied' =>
           /\ ServoGrips' /\ Told /\ UNCHANGED <<armCommand, cmds>>
           /\ cmds # <<>> /\ Grips(cmds[Gripper]) /\ AllGrip(armCommand)
  BY RegistersStep
<1>2. Told /\ AllGrip(armCommand) => AllGrip(armCommand')
  BY ListsOrderStep
<1>3. /\ Told => Told'
      /\ Gripped' => Gripped \/ (Poll /\ SetsGripper(scriptIdx))
  BY <1>0, ToldSteps
<1>4. CASE Applied
  <2>1. Told /\ cmds # <<>> /\ Grips(cmds[Gripper]) /\ AllGrip(armCommand)
    BY <1>0, <1>4 DEF GripState
  <2>2. cmds' # <<>> /\ Grips(cmds'[Gripper])
    BY <1>0, <2>1, KeptGripping
  <2>3. Applied' /\ ServoGrips' /\ Told' /\ AllGrip(armCommand')
    BY <1>1, <1>2, <1>3, <1>4, <2>1
  <2> QED
    BY <2>2, <2>3 DEF GripState
<1>5. CASE ~Applied /\ Applied'
  <2>1. /\ ServoGrips' /\ Told /\ UNCHANGED <<armCommand, cmds>>
        /\ cmds # <<>> /\ Grips(cmds[Gripper]) /\ AllGrip(armCommand)
    BY <1>1, <1>5
  <2>2. Told'
    BY <1>3, <2>1
  <2> QED
    BY <1>2, <1>5, <2>1, <2>2 DEF GripState
<1>6. CASE ~Applied /\ ~Applied'
  <2>1. ~Gripped /\ ServoOpen /\ AllSeenOpen
    BY <1>0, <1>6 DEF GripState
  <2>2. ServoOpen' /\ AllSeenOpen'
    BY <1>0, <1>1, <1>6, <2>1, SeenStep
  <2>3. SeenOpen(statusList[Gripper])
    BY <2>1 DEF AllSeenOpen
  <2>4. ~Gripped'
    BY <1>0, <1>3, <2>1, <2>3, FoundClosedSteps
  <2> QED
    BY <1>6, <2>2, <2>4 DEF GripState
<1> QED
  BY <1>4, <1>5, <1>6

-----------------------------------------------------------------------------
IInv == GripInv /\ Open!IInv

\* At the start the gripper is open, and has been told nothing.
LEMMA InvInit ==
  ASSUME ScriptGrips, Init
  PROVE  IInv
<1>0. ControlInv /\ Open!IInv
  BY ArmStart, PeerLists, ArmLcmAssumption, RexarmAssumption, Open!InvInit
<1> USE DEF Init, LcmInit, RexarmInit, ArmInit
<1>1. ListsInOrder
  BY DEF ListsInOrder, LinedUp
<1>2. PICK pos \in PowerOnRaw : servo[Gripper] = PoweredUp(pos)
  BY GripperIsServo
<1>3. ServoOpen
  BY <1>2 DEF ServoOpen, PoweredUp, ScriptGrips
<1>4. SeenOpen([pos |-> 0, speed |-> 0])
  <2>1. ToRaw(0) \in Opened /\ ToAngle(ToRaw(0)) = 0
    BY RawOfAngle DEF ScriptGrips
  <2> QED
    BY <2>1 DEF SeenOpen
<1>5. AllSeenOpen
  BY <1>4, GripperIsServo DEF AllSeenOpen, AllOpen
<1>6. ~Applied
  BY GripperIsServo, ArmControllerAssumption, RexarmAssumption
     DEF Applied, Grips, NoCommand
<1>7. ~Gripped
  BY DEF Gripped
<1> QED
  BY <1>0, <1>1, <1>3, <1>5, <1>6, <1>7 DEF IInv, GripInv, GripState

LEMMA InvStep ==
  ASSUME ScriptGrips, IInv, [Next]_vars
  PROVE  IInv'
<1>0. GripInv /\ ControlInv /\ Open!IInv
  BY DEF IInv, GripInv
<1>1. Open!IInv'
  BY <1>0, OpenStep, PeerLists, ArmLcmAssumption, RexarmAssumption, Open!InvStep
<1>2. ControlInv'
  BY <1>0, <1>1, ControlStep DEF Open!IInv
<1>3. ListsInOrder' /\ GripState'
  BY <1>0, ListsOrderStep, GripStateStep
<1> QED
  BY <1>1, <1>2, <1>3 DEF IInv, GripInv

\* Once its closing is over the gripper has been told, and obeys.
LEMMA InvHolds == IInv => GripHeld
<1> SUFFICES ASSUME IInv, Gripped PROVE ServoGrips
  BY DEF GripHeld, Gripped, SetsGripper, ServoGrips, IInv, GripInv, ControlInv, TypeOK
<1> QED
  BY DEF IInv, GripInv, GripState

LEMMA Invariance ==
  ASSUME ScriptGrips
  PROVE  Spec => []IInv
<1>1. Init => IInv
  BY InvInit
<1>2. IInv /\ [Next]_vars => IInv'
  BY InvStep
<1> QED
  BY <1>1, <1>2, PTL DEF Spec

\* Every variable of the arm keeps its type: the script's index stays within
\* the script, the controller's loop within the servos, and what it publishes
\* and stores are whole lists (run and its threads).
THEOREM TypeCorrect ==
  ASSUME ScriptGrips
  PROVE  Spec => []TypeOK
<1>1. IInv => TypeOK
  BY DEF IInv, GripInv, ControlInv
<1> QED
  BY <1>1, Invariance, PTL

\* What the gripper has closed on it holds to the end of the script, whatever
\* the other servos are told, however the channels lose and delay the lists.
THEOREM GripStaysHeld ==
  ASSUME ScriptGrips
  PROVE  Spec => []GripHeld
<1>1. IInv => GripHeld
  BY InvHolds
<1> QED
  BY <1>1, Invariance, PTL

\* The arm is the open driver with one particular peer: what RexarmProofs
\* shows of the driver among any peers holds between this controller and it.
THEOREM ArmIsOpenDriver ==
  ASSUME ScriptGrips
  PROVE  Spec => Open!Spec
<1>1. Init => Open!Init
  BY ArmStart
<1>2. IInv /\ [Next]_vars => [Open!Next]_(Open!vars)
  BY OpenStep DEF IInv, GripInv
<1> QED
  BY <1>1, <1>2, Invariance, PTL DEF Spec, Open!Spec
=============================================================================
