---------------------------- MODULE RexarmProofs ----------------------------
(***************************************************************************)
(* The arm driver's invariants for every number of servos, every range of  *)
(* angles and every set of command lists.                                  *)
(***************************************************************************)
EXTENDS RexarmOpen, TLAPS

\* Where the driver thread's loop can be, given where the thread is.
LoopBounds ==
  /\ Len(cmds) <= NumServos
  /\ driverPc \in {"handle", "lock"} => driverIdx = 1
  /\ driverPc \in {"relayRead", "relayWrite"} => driverIdx <= Len(cmds)

\* last_cmds records what the servos were told, but for the one being set.
LastInForce ==
  \A id \in Servos :
    IF BeingSet(id)
    THEN /\ Commanded(id) => InForce(id, cmds[id])
         /\ Stops(cmds[id])
         /\ sentAt[id] = cmds[id].utime
    ELSE /\ Commanded(id) => InForce(id, lastCmds[id])
         /\ sentAt[id] = lastCmds[id].utime

\* The ids the driver thread has finished with in the current list.
Done ==
  IF driverPc = "handle" THEN 1 .. Len(cmds)
  ELSE IF driverPc = "lock" THEN {}
  ELSE 1 .. driverIdx - 1

DoneAgree ==
  \A id \in Done : id <= Len(cmds) => ~Update(cmds[id], lastCmds[id])

IInv == TypeOK /\ LoopBounds /\ BusExclusive /\ LastInForce /\ DoneAgree

-----------------------------------------------------------------------------
(* What the conversions return.                                            *)

\* Clamp returns a value of its range (dmax and dmin in the code).
LEMMA ClampRange ==
  ASSUME NEW lo \in Int, NEW hi \in Int, lo <= hi, NEW x \in Int
  PROVE  Clamp(lo, hi, x) \in lo .. hi
BY DEF Clamp

\* mod2pi returns an integer.
LEMMA Mod2piInt ==
  ASSUME NEW a \in Int
  PROVE  Mod2pi(a) \in Int
BY RexarmAssumption DEF Mod2pi

\* The goal register written for any angle is a position the servo can reach
\* (the range clamp of dynamixel_set_joint_goal_default).
LEMMA ToRawRange ==
  ASSUME NEW a \in Int
  PROVE  ToRaw(a) \in Raw /\ ToRaw(a) \in Nat
<1>1. Clamp(MinAngle, MaxAngle, Mod2pi(a)) \in MinAngle .. MaxAngle
  BY Mod2piInt, ClampRange, RexarmAssumption
<1> QED
  BY <1>1, RexarmAssumption DEF ToRaw, Raw

\* Any two register bytes relayed to a stopping servo form a natural number.
LEMMA RelayGoalNat ==
  ASSUME NEW raw \in Nat
  PROVE  RelayGoal(raw) \in Nat
BY RexarmAssumption DEF RelayGoal

\* No command writes speed register 0, which would be full speed.
LEMMA RegisterRanges ==
  ASSUME NEW c \in Command
  PROVE  /\ SpeedRegister(c) \in 1 .. FullScale
         /\ TorqueRegister(c) \in 0 .. FullScale
         /\ Stops(c) \in BOOLEAN
<1>0. c.speed \in Int /\ c.torque \in Int
  BY DEF Command
<1>1. Clamp(0, FullScale, c.speed) \in 0 .. FullScale
  BY <1>0, RexarmAssumption DEF Clamp
<1>2. Clamp(0, FullScale, c.torque) \in 0 .. FullScale
  BY <1>0, RexarmAssumption DEF Clamp
<1> QED
  BY <1>1, <1>2, RexarmAssumption DEF SpeedRegister, TorqueRegister, Stops

\* command_handler keeps at most num_servos commands.
LEMMA Truncated ==
  ASSUME NEW msg \in Seq(Command), NEW list,
         list = IF Len(msg) > NumServos THEN SubSeq(msg, 1, NumServos) ELSE msg
  PROVE  list \in Seq(Command) /\ Len(list) <= NumServos
BY RexarmAssumption

\* A publish leaves a queue of messages a queue of messages.
LEMMA DeliverSeq ==
  ASSUME NEW S, NEW q \in Seq(S), NEW msg \in S
  PROVE  Deliver(q, msg) \in Seq(S)
BY DEF Deliver

-----------------------------------------------------------------------------
\* The driver's types hold in every state: indices stay within the arm,
\* goals and registers within what the servos accept (driver_loop and
\* dynamixel_set_joint_goal_default).
LEMMA TypeInit == Init => TypeOK
<1> SUFFICES ASSUME Init PROVE TypeOK
  OBVIOUS
<1> USE DEF Init, LcmInit, RexarmInit
<1>1. NoCommand \in Command
  BY DEF NoCommand, Command
<1>2. \A pos \in PowerOnRaw : PoweredUp(pos) \in Servo
  BY RexarmAssumption DEF PoweredUp, Servo, Raw
<1>3. servo \in [Servos -> Servo]
  BY <1>2
<1>4. [pos |-> 0, speed |-> 0] \in Status
  BY DEF Status
<1> QED
  BY <1>1, <1>3, <1>4, RexarmAssumption DEF TypeOK, Servos

\* Each step of the driver, the servos, the channels and the peers keeps them.
LEMMA TypeStep == TypeOK /\ LoopBounds /\ [Next]_vars => TypeOK'
<1> SUFFICES ASSUME TypeOK, LoopBounds, [Next]_vars PROVE TypeOK'
  OBVIOUS
<1> USE DEF TypeOK, lcmVars, driverVars, statusVars, servoVars, rexarmVars
<1>0. Len(cmds) \in Nat /\ \A i \in 1 .. Len(cmds) : cmds[i] \in Command
  OBVIOUS
<1>1. CASE DriverReceive
  <2>1. Head(armCommand) \in Seq(Command) /\ Tail(armCommand) \in Seq(Seq(Command))
    BY <1>1 DEF DriverReceive
  <2>2. cmds' \in Seq(Command)
    BY <1>1, <2>1, Truncated DEF DriverReceive
  <2> QED
    BY <1>1, <2>1, <2>2 DEF DriverReceive
<1>2. CASE DriverLock
  BY <1>2, RexarmAssumption DEF DriverLock
<1>3. CASE DriverSkip
  BY <1>3, RexarmAssumption DEF DriverSkip, LoopBounds
<1>4. CASE DriverSetGoal
  <2> DEFINE c == cmds[driverIdx]
             s == [servo[driverIdx] EXCEPT !.goal = ToRaw(c.pos),
                      !.speed = SpeedRegister(c), !.torque = TorqueRegister(c)]
  <2>1. driverIdx \in Servos /\ c \in Command
    BY <1>0, <1>4, RexarmAssumption DEF DriverSetGoal, LoopBounds, Servos
  <2>2. c.pos \in Int /\ c.utime \in Nat
    BY <2>1 DEF Command
  <2>3. s \in Servo
    <3>1. ToRaw(c.pos) \in Nat
      BY <2>2, ToRawRange
    <3>2. SpeedRegister(c) \in 0 .. FullScale /\ TorqueRegister(c) \in 0 .. FullScale
      BY <2>1, RegisterRanges, RexarmAssumption
    <3> QED
      BY <2>1, <3>1, <3>2 DEF Servo
  <2>4. servo' = [servo EXCEPT ![driverIdx] = s]
    BY <1>4, <2>1 DEF DriverSetGoal
  <2>5. servo' \in [Servos -> Servo]
    BY <2>1, <2>3, <2>4
  <2>6. sentAt' \in [Servos -> Nat]
    BY <1>4, <2>1, <2>2 DEF DriverSetGoal
  <2>7. lastCmds' \in [Servos -> Command]
    BY <1>4, <2>1 DEF DriverSetGoal
  <2>8. driverIdx' \in 1 .. NumServos + 1
    BY <1>4, <2>1, RexarmAssumption DEF DriverSetGoal, Servos
  <2> QED
    BY <1>4, <2>5, <2>6, <2>7, <2>8 DEF DriverSetGoal
<1>5. CASE DriverRelayRead
  <2>1. driverIdx \in Servos
    BY <1>0, <1>5, RexarmAssumption DEF DriverRelayRead, LoopBounds, Servos
  <2>2. servo[driverIdx].pos \in Nat
    BY <2>1 DEF Servo, Raw
  <2>3. relay' \in Nat
    BY <1>5, <2>2, RexarmAssumption DEF DriverRelayRead
  <2> QED
    BY <1>5, <2>3 DEF DriverRelayRead
<1>6. CASE DriverRelayWrite
  <2> DEFINE s == [servo[driverIdx] EXCEPT !.goal = RelayGoal(relay)]
  <2>1. driverIdx \in Servos /\ cmds[driverIdx] \in Command
    BY <1>0, <1>6, RexarmAssumption DEF DriverRelayWrite, LoopBounds, Servos
  <2>2. s \in Servo
    BY <2>1, RelayGoalNat DEF Servo
  <2>3. servo' = [servo EXCEPT ![driverIdx] = s]
    BY <1>6, <2>1 DEF DriverRelayWrite
  <2>4. servo' \in [Servos -> Servo]
    BY <2>1, <2>2, <2>3
  <2>5. lastCmds' \in [Servos -> Command]
    BY <1>6, <2>1 DEF DriverRelayWrite
  <2>6. driverIdx' \in 1 .. NumServos + 1
    <3>1. driverIdx' = driverIdx + 1
      BY <1>6 DEF DriverRelayWrite
    <3> QED
      BY <2>1, <3>1, RexarmAssumption DEF Servos
  <2> QED
    BY <1>6, <2>4, <2>5, <2>6 DEF DriverRelayWrite
<1>7. CASE DriverUnlock
  BY <1>7, RexarmAssumption DEF DriverUnlock
<1>8. CASE StatusLock
  BY <1>8, RexarmAssumption DEF StatusLock
<1>9. CASE StatusRead
  <2>1. statusIdx \in Servos
    BY <1>9 DEF StatusRead, Servos
  <2>2. PICK r \in Readings(servo[statusIdx]) :
          stats' = [stats EXCEPT ![statusIdx] = r]
    BY <1>9 DEF StatusRead
  <2>3. servo[statusIdx].pos \in Int
    BY <2>1 DEF Servo, Raw
  <2>4. PICK v \in {-1, 0, 1} : r = [pos |-> ToAngle(servo[statusIdx].pos), speed |-> v]
    BY <2>2 DEF Readings
  <2>5. ToAngle(servo[statusIdx].pos) \in Int
    BY <2>3, RexarmAssumption DEF ToAngle
  <2>6. r \in Status
    BY <2>4, <2>5 DEF Status
  <2>7. stats' \in [Servos -> Status]
    BY <2>1, <2>2, <2>6
  <2> QED
    BY <1>9, <2>7, RexarmAssumption DEF StatusRead
<1>10. CASE StatusUnlock
  BY <1>10, RexarmAssumption DEF StatusUnlock
<1>11. CASE StatusPublish
  <2>1. armStatus' \in Seq([Servos -> Status])
    BY <1>11, DeliverSeq DEF StatusPublish, PublishStatus
  <2> QED
    BY <1>11, <2>1 DEF StatusPublish
<1>12. CASE ServosMove
  <2>1. PICK id \in Servos : ServoMove(id)
    BY <1>12 DEF ServosMove
  <2> DEFINE p == IF servo[id].goal > servo[id].pos THEN servo[id].pos + 1
                  ELSE servo[id].pos - 1
             s == [servo[id] EXCEPT !.pos = p]
  <2>2. p \in Raw
    BY <2>1 DEF ServoMove
  <2>3. s \in Servo
    BY <2>2 DEF Servo
  <2>4. servo' = [servo EXCEPT ![id] = s]
    BY <2>1 DEF ServoMove
  <2>5. servo' \in [Servos -> Servo]
    BY <2>3, <2>4
  <2> QED
    BY <2>1, <2>5 DEF ServoMove
<1>13. CASE PeerPublish
  <2>1. PICK msg \in CommandLists : PublishCommand(msg)
    BY <1>13 DEF PeerPublish
  <2>2. armCommand' \in Seq(Seq(Command))
    BY <2>1, DeliverSeq, CommandListsAssumption DEF PublishCommand
  <2> QED
    BY <1>13, <2>2 DEF PeerPublish
<1>14. CASE PeerHandleStatus
  BY <1>14 DEF PeerHandleStatus
<1>15. CASE Loss
  <2>1. CASE LoseCommand
    BY <1>15, <2>1 DEF Loss, LoseCommand
  <2>2. CASE LoseStatus
    BY <1>15, <2>2 DEF Loss, LoseStatus
  <2> QED
    BY <1>15, <2>1, <2>2 DEF Loss
<1>16. CASE ServosReset
  <2>1. PICK id \in Servos : ServoReset(id)
    BY <1>16 DEF ServosReset
  <2>2. PoweredUp(servo[id].pos) \in Servo
    BY RexarmAssumption DEF PoweredUp, Servo, Raw
  <2>3. servo' \in [Servos -> Servo]
    BY <2>1, <2>2 DEF ServoReset
  <2> QED
    BY <2>1, <2>3 DEF ServoReset
<1>17. CASE UNCHANGED vars
  BY <1>17 DEF vars
<1> QED
  BY <1>1, <1>2, <1>3, <1>4, <1>5, <1>6, <1>7, <1>8, <1>9, <1>10, <1>11, <1>12,
     <1>13, <1>14, <1>15, <1>16, <1>17
     DEF Next, RexarmNext, Driver, StatusThread

-----------------------------------------------------------------------------
\* A step that leaves the driver thread, the records and the registers alone
\* leaves what they say about each other alone.
LEMMA Frame ==
  ASSUME LastInForce, DoneAgree,
         cmds' = cmds, lastCmds' = lastCmds, sentAt' = sentAt,
         driverPc' = driverPc, driverIdx' = driverIdx,
         \A id \in Servos : \/ /\ servo'[id].goal = servo[id].goal
                               /\ servo'[id].speed = servo[id].speed
                               /\ servo'[id].torque = servo[id].torque
                            \/ servo'[id].speed = 0
  PROVE  LastInForce' /\ DoneAgree'
<1>1. \A id \in Servos : BeingSet(id)' <=> BeingSet(id)
  BY DEF BeingSet
<1>2. \A id \in Servos : \/ (Commanded(id)' <=> Commanded(id)) /\ \A c : InForce(id, c)' <=> InForce(id, c)
                         \/ ~Commanded(id)'
  BY DEF Commanded, InForce
<1>3. LastInForce'
  BY <1>1, <1>2 DEF LastInForce
<1>4. Done' = Done
  BY DEF Done
<1> QED
  BY <1>3, <1>4 DEF DoneAgree

\* A command equal to the last one but for its time asks for the same registers.
LEMMA SameRegisters ==
  ASSUME NEW a \in Command, NEW b \in Command, ~Update(a, b), NEW id, InForce(id, b)
  PROVE  InForce(id, a)
BY DEF Update, InForce, SpeedRegister, TorqueRegister, Stops

\* The strengthened invariant holds when both processes have just started.
LEMMA InvInit == Init => IInv
<1> SUFFICES ASSUME Init PROVE IInv
  OBVIOUS
<1>1. TypeOK
  BY TypeInit
<1> USE DEF Init, LcmInit, RexarmInit
<1>2. LoopBounds /\ BusExclusive
  BY RexarmAssumption DEF LoopBounds, BusExclusive, DriverOnBus, StatusOnBus
<1>3. LastInForce
  BY DEF LastInForce, BeingSet, Commanded, PoweredUp, NoCommand
<1>4. DoneAgree
  BY DEF DoneAgree, Done
<1> QED
  BY <1>1, <1>2, <1>3, <1>4 DEF IInv

\* Every step of the driver's two threads, of the servos, of LCM and of the
\* peers preserves the strengthened invariant.
LEMMA InvStep == IInv /\ [Next]_vars => IInv'
<1> SUFFICES ASSUME IInv, [Next]_vars PROVE IInv'
  OBVIOUS
<1> USE DEF lcmVars, driverVars, statusVars, servoVars, rexarmVars
<1>0. TypeOK /\ LoopBounds /\ BusExclusive /\ LastInForce /\ DoneAgree
  BY DEF IInv
<1>t. TypeOK'
  BY <1>0, TypeStep
<1>l. /\ Len(cmds) \in Nat
      /\ \A id \in 1 .. Len(cmds) : id \in Servos /\ cmds[id] \in Command
      /\ driverIdx \in 1 .. NumServos + 1
  BY <1>0, RexarmAssumption DEF TypeOK, LoopBounds, Servos
<1> SUFFICES LoopBounds' /\ BusExclusive' /\ LastInForce' /\ DoneAgree'
  BY <1>t DEF IInv
<1> USE DEF BusExclusive, DriverOnBus, StatusOnBus
<1>1. CASE DriverReceive
  <2>0. Head(armCommand) \in Seq(Command)
    BY <1>0, <1>1 DEF DriverReceive, TypeOK
  <2>1. LoopBounds'
    <3>1. Len(cmds') <= NumServos
      BY <1>1, <2>0, Truncated DEF DriverReceive
    <3> QED
      BY <1>0, <1>1, <3>1 DEF DriverReceive, LoopBounds
  <2>2. LastInForce'
    BY <1>0, <1>1 DEF DriverReceive, LastInForce, BeingSet, Commanded, InForce
  <2>3. DoneAgree'
    BY <1>1 DEF DriverReceive, DoneAgree, Done
  <2> QED
    BY <1>0, <1>1, <2>1, <2>2, <2>3 DEF DriverReceive
<1>2. CASE DriverLock
  <2>1. LastInForce'
    BY <1>0, <1>2 DEF DriverLock, LastInForce, BeingSet, Commanded, InForce
  <2>2. DoneAgree'
    BY <1>2 DEF DriverLock, DoneAgree, Done
  <2> QED
    BY <1>0, <1>2, <2>1, <2>2 DEF DriverLock, LoopBounds
<1>3. CASE DriverSkip
  <2>1. LastInForce'
    BY <1>0, <1>3 DEF DriverSkip, LastInForce, BeingSet, Commanded, InForce
  <2>2. DoneAgree'
    BY <1>0, <1>l, <1>3 DEF DriverSkip, DoneAgree, Done
  <2> QED
    BY <1>0, <1>l, <1>3, <2>1, <2>2 DEF DriverSkip, LoopBounds
<1>4. CASE DriverSetGoal
  <2> DEFINE d == driverIdx
             c == cmds[driverIdx]
  <2>1. d \in Servos /\ c \in Command /\ driverPc = "apply" /\ d <= Len(cmds)
    BY <1>l, <1>4 DEF DriverSetGoal
  <2>2. /\ servo'[d].goal = ToRaw(c.pos)
        /\ servo'[d].speed = SpeedRegister(c)
        /\ servo'[d].torque = TorqueRegister(c)
        /\ sentAt'[d] = c.utime
    BY <1>0, <1>4, <2>1 DEF DriverSetGoal, TypeOK, Servo
  <2>3. \A id \in Servos \ {d} : servo'[id] = servo[id] /\ sentAt'[id] = sentAt[id]
    BY <1>0, <1>4, <2>1 DEF DriverSetGoal, TypeOK
  <2>4. CASE Stops(c)
    <3>1. driverPc' = "relayRead" /\ lastCmds' = lastCmds /\ driverIdx' = d /\ cmds' = cmds
      BY <1>4, <2>4 DEF DriverSetGoal
    <3>2. \A id \in Servos : BeingSet(id)' <=> id = d
      BY <3>1 DEF BeingSet
    <3>3. InForce(d, c)' /\ Stops(c)
      BY <2>2, <2>4, <3>1 DEF InForce
    <3>4. LastInForce'
      BY <1>0, <2>1, <2>2, <2>3, <3>1, <3>2, <3>3
         DEF LastInForce, BeingSet, Commanded, InForce
    <3>5. DoneAgree'
      BY <1>0, <2>1, <3>1 DEF DoneAgree, Done
    <3> QED
      BY <1>0, <1>4, <2>1, <3>1, <3>4, <3>5 DEF DriverSetGoal, LoopBounds
  <2>5. CASE ~Stops(c)
    <3>1. driverPc' = "apply" /\ driverIdx' = d + 1 /\ cmds' = cmds
      BY <1>4, <2>1, <2>5 DEF DriverSetGoal
    <3>2. lastCmds' = [lastCmds EXCEPT ![d] = c]
      BY <1>4, <2>5 DEF DriverSetGoal
    <3>3. lastCmds'[d] = c /\ \A id \in Servos \ {d} : lastCmds'[id] = lastCmds[id]
      BY <1>0, <2>1, <3>2 DEF TypeOK
    <3>4. LastInForce'
      BY <1>0, <2>1, <2>2, <2>3, <3>1, <3>3
         DEF LastInForce, BeingSet, Commanded, InForce
    <3>5. ~Update(c, c)
      BY <2>1, RexarmAssumption DEF Update, Command
    <3>6. DoneAgree'
      <4> SUFFICES ASSUME NEW id \in 1 .. d, id <= Len(cmds)
                   PROVE  ~Update(cmds[id], lastCmds'[id])
        BY <1>l, <3>1 DEF DoneAgree, Done
      <4>1. CASE id = d
        BY <3>3, <3>5, <4>1
      <4>2. CASE id # d
        <5>1. id \in 1 .. d - 1 /\ id \in Servos
          BY <1>l, <4>2
        <5> QED
          BY <1>0, <2>1, <3>3, <4>2, <5>1 DEF DoneAgree, Done
      <4> QED
        BY <4>1, <4>2
    <3> QED
      BY <1>0, <1>4, <3>1, <3>4, <3>6 DEF DriverSetGoal, LoopBounds
  <2> QED
    BY <2>4, <2>5
<1>5. CASE DriverRelayRead
  <2>1. LastInForce'
    BY <1>0, <1>5 DEF DriverRelayRead, LastInForce, BeingSet, Commanded, InForce
  <2>2. DoneAgree'
    BY <1>0, <1>5 DEF DriverRelayRead, DoneAgree, Done
  <2> QED
    BY <1>0, <1>5, <2>1, <2>2 DEF DriverRelayRead, LoopBounds
<1>6. CASE DriverRelayWrite
  <2> DEFINE d == driverIdx
             c == cmds[driverIdx]
  <2>1. d <= Len(cmds) /\ d \in Servos /\ c \in Command /\ BeingSet(d)
    BY <1>0, <1>l, <1>6 DEF DriverRelayWrite, LoopBounds, BeingSet
  <2>2. /\ driverPc' = "apply" /\ driverIdx' = d + 1
        /\ cmds' = cmds /\ sentAt' = sentAt
    BY <1>6 DEF DriverRelayWrite
  <2>3. lastCmds'[d] = c /\ \A id \in Servos \ {d} : lastCmds'[id] = lastCmds[id]
    BY <1>0, <1>6, <2>1 DEF DriverRelayWrite, TypeOK
  <2>4. /\ servo'[d].speed = servo[d].speed
        /\ servo'[d].torque = servo[d].torque
        /\ \A id \in Servos \ {d} : servo'[id] = servo[id]
    BY <1>0, <1>6, <2>1 DEF DriverRelayWrite, TypeOK, Servo
  <2>5. (Commanded(d) => InForce(d, c)) /\ Stops(c) /\ sentAt[d] = c.utime
    BY <1>0, <2>1 DEF LastInForce
  <2>6. LastInForce'
    BY <1>0, <2>1, <2>2, <2>3, <2>4, <2>5
       DEF LastInForce, BeingSet, Commanded, InForce
  <2>7. ~Update(c, c)
    BY <2>1, RexarmAssumption DEF Update, Command
  <2>8. DoneAgree'
    <3> SUFFICES ASSUME NEW id \in 1 .. d, id <= Len(cmds)
                 PROVE  ~Update(cmds[id], lastCmds'[id])
      BY <1>l, <2>2 DEF DoneAgree, Done
    <3>1. CASE id = d
      BY <2>3, <2>7, <3>1
    <3>2. CASE id # d
      <4>1. id \in 1 .. d - 1 /\ id \in Servos
        BY <1>l, <3>2
      <4> QED
        BY <1>0, <1>6, <2>3, <3>2, <4>1 DEF DriverRelayWrite, DoneAgree, Done
    <3> QED
      BY <3>1, <3>2
  <2> QED
    BY <1>0, <1>6, <2>2, <2>6, <2>8 DEF DriverRelayWrite, LoopBounds
<1>7. CASE DriverUnlock
  <2>1. LastInForce'
    BY <1>0, <1>7 DEF DriverUnlock, LastInForce, BeingSet, Commanded, InForce
  <2>2. DoneAgree'
    BY <1>0, <1>l, <1>7 DEF DriverUnlock, DoneAgree, Done
  <2> QED
    BY <1>0, <1>7, <2>1, <2>2 DEF DriverUnlock, LoopBounds
<1>8. CASE StatusLock
  <2>1. LastInForce' /\ DoneAgree'
    BY <1>0, <1>8, Frame DEF StatusLock
  <2> QED
    BY <1>0, <1>8, <2>1 DEF StatusLock, LoopBounds
<1>9. CASE StatusRead
  <2>1. LastInForce' /\ DoneAgree'
    BY <1>0, <1>9, Frame DEF StatusRead
  <2> QED
    BY <1>0, <1>9, <2>1 DEF StatusRead, LoopBounds
<1>10. CASE StatusUnlock
  <2>1. LastInForce' /\ DoneAgree'
    BY <1>0, <1>10, Frame DEF StatusUnlock
  <2> QED
    BY <1>0, <1>10, <2>1 DEF StatusUnlock, LoopBounds
<1>11. CASE StatusPublish
  <2>1. LastInForce' /\ DoneAgree'
    BY <1>0, <1>11, Frame DEF StatusPublish
  <2> QED
    BY <1>0, <1>11, <2>1 DEF StatusPublish, LoopBounds
<1>12. CASE ServosMove
  <2>1. PICK i \in Servos : ServoMove(i)
    BY <1>12 DEF ServosMove
  <2>2. \A id \in Servos : /\ servo'[id].goal = servo[id].goal
                           /\ servo'[id].speed = servo[id].speed
                           /\ servo'[id].torque = servo[id].torque
    BY <1>0, <2>1 DEF ServoMove, TypeOK, Servo
  <2>3. LastInForce' /\ DoneAgree'
    BY <1>0, <2>1, <2>2, Frame DEF ServoMove
  <2> QED
    BY <1>0, <2>1, <2>3 DEF ServoMove, LoopBounds
<1>13. CASE PeerPublish
  <2>1. LastInForce' /\ DoneAgree'
    BY <1>0, <1>13, Frame DEF PeerPublish
  <2> QED
    BY <1>0, <1>13, <2>1 DEF PeerPublish, LoopBounds
<1>14. CASE PeerHandleStatus
  <2>1. LastInForce' /\ DoneAgree'
    BY <1>0, <1>14, Frame DEF PeerHandleStatus
  <2> QED
    BY <1>0, <1>14, <2>1 DEF PeerHandleStatus, LoopBounds
<1>15. CASE Loss
  <2>1. LastInForce' /\ DoneAgree'
    BY <1>0, <1>15, Frame DEF Loss
  <2> QED
    BY <1>0, <1>15, <2>1 DEF Loss, LoopBounds
<1>16. CASE ServosReset
  <2>1. PICK i \in Servos : ServoReset(i)
    BY <1>16 DEF ServosReset
  <2>2. servo'[i].speed = 0 /\ \A id \in Servos \ {i} : servo'[id] = servo[id]
    BY <1>0, <2>1 DEF ServoReset, TypeOK, PoweredUp
  <2>3. LastInForce' /\ DoneAgree'
    BY <1>0, <2>1, <2>2, Frame DEF ServoReset
  <2> QED
    BY <1>0, <2>1, <2>3 DEF ServoReset, LoopBounds
<1>17. CASE UNCHANGED vars
  <2>1. LastInForce' /\ DoneAgree'
    BY <1>0, <1>17, Frame DEF vars
  <2> QED
    BY <1>0, <1>17, <2>1 DEF vars, LoopBounds
<1> QED
  BY <1>1, <1>2, <1>3, <1>4, <1>5, <1>6, <1>7, <1>8, <1>9, <1>10, <1>11, <1>12,
     <1>13, <1>14, <1>15, <1>16, <1>17
     DEF Next, RexarmNext, Driver, StatusThread

\* The invariant holds in every reachable state.
LEMMA Invariance == Spec => []IInv
<1>1. Init => IInv
  BY InvInit
<1>2. IInv /\ [Next]_vars => IInv'
  BY InvStep
<1> QED
  BY <1>1, <1>2, PTL DEF Spec

-----------------------------------------------------------------------------
\* Every variable keeps its type: no index of driver_loop or status_loop leaves
\* the arm, no goal or register leaves what the servo accepts.
THEOREM TypeCorrect == Spec => []TypeOK
<1>1. IInv => TypeOK
  BY DEF IInv
<1> QED
  BY <1>1, Invariance, PTL

\* serial_lock keeps the two threads of the driver from using the bus at once.
THEOREM BusIsExclusive == Spec => []BusExclusive
<1>1. IInv => BusExclusive
  BY DEF IInv
<1> QED
  BY <1>1, Invariance, PTL

\* Skipping repeated commands never leaves an older goal standing: between two
\* lists each servo commanded since power-up obeys the newest list.
THEOREM NewestListIsInForce == Spec => []NewestListInForce
<1>1. IInv => NewestListInForce
  <2> SUFFICES ASSUME IInv, driverPc = "handle", NEW id \in 1 .. Len(cmds), Commanded(id)
               PROVE  InForce(id, cmds[id])
    BY DEF NewestListInForce
  <2>1. id \in Servos /\ cmds[id] \in Command /\ lastCmds[id] \in Command
    BY RexarmAssumption DEF IInv, TypeOK, LoopBounds, Servos
  <2>2. ~Update(cmds[id], lastCmds[id])
    BY DEF IInv, DoneAgree, Done
  <2>3. InForce(id, lastCmds[id])
    BY <2>1 DEF IInv, LastInForce, BeingSet
  <2> QED
    BY <2>1, <2>2, <2>3, SameRegisters
<1> QED
  BY <1>1, Invariance, PTL

\* A repeated command is skipped for at most a second of its publisher's clock.
THEOREM ResentWithinASecond == Spec => []ResentEverySecond
<1>1. IInv => ResentEverySecond
  <2> SUFFICES ASSUME IInv, driverPc = "handle", NEW id \in 1 .. Len(cmds)
               PROVE  cmds[id].utime - sentAt[id] <= Second
    BY DEF ResentEverySecond
  <2>0. id \in Servos /\ cmds[id] \in Command
    BY RexarmAssumption DEF IInv, TypeOK, LoopBounds, Servos
  <2>1. id \in Servos /\ cmds[id].utime \in Nat
    BY <2>0 DEF Command
  <2>2. ~Update(cmds[id], lastCmds[id])
    BY DEF IInv, DoneAgree, Done
  <2>3. sentAt[id] = lastCmds[id].utime /\ sentAt[id] \in Nat
    BY <2>1 DEF IInv, TypeOK, LastInForce, BeingSet
  <2> QED
    BY <2>1, <2>2, <2>3, RexarmAssumption DEF Update
<1> QED
  BY <1>1, Invariance, PTL

\* A status list is read under one set of goals: the driver thread writes a register
\* only while it holds serial_lock, and the status thread holds it while it reads.
THEOREM SnapshotIsUnderOneGoal == Spec => SnapshotUnderOneGoal
<1>1. ASSUME IInv, [Next]_vars, statusPc = "read", ~ServosReset
      PROVE  Registers' = Registers
  <2>0. ~DriverOnBus /\ servo \in [Servos -> Servo]
    BY <1>1 DEF IInv, BusExclusive, StatusOnBus, TypeOK
  <2>1. CASE servo' = servo
    BY <2>1 DEF Registers, Servos
  <2>2. CASE ServosMove
    <3>1. PICK i \in Servos : ServoMove(i)
      BY <2>2 DEF ServosMove
    <3>2. \A id \in Servos : /\ servo'[id].goal = servo[id].goal
                             /\ servo'[id].speed = servo[id].speed
                             /\ servo'[id].torque = servo[id].torque
      BY <2>0, <3>1 DEF ServoMove, Servo
    <3> QED
      BY <3>2 DEF Registers, Servos
  <2>3. CASE Driver
    BY <2>0, <2>1, <2>3
       DEF Driver, DriverOnBus, DriverReceive, DriverLock, DriverSkip, DriverSetGoal,
           DriverRelayRead, DriverRelayWrite, DriverUnlock, servoVars
  <2>4. CASE StatusThread
    BY <2>1, <2>4
       DEF StatusThread, StatusLock, StatusRead, StatusUnlock, StatusPublish, servoVars
  <2>5. CASE PeerPublish \/ PeerHandleStatus \/ Loss \/ UNCHANGED vars
    BY <2>1, <2>5
       DEF PeerPublish, PeerHandleStatus, Loss, vars, rexarmVars, servoVars
  <2> QED
    BY <1>1, <2>2, <2>3, <2>4, <2>5 DEF Next, RexarmNext
<1>2. IInv /\ [Next]_vars
        => [(statusPc = "read" /\ ~ServosReset) => Registers' = Registers]_vars
  BY <1>1
<1> QED
  BY <1>2, Invariance, PTL DEF Spec, SnapshotUnderOneGoal
=============================================================================
