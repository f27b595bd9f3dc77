----------------------------- MODULE ArmSystem -----------------------------
(***************************************************************************)
(* The arm: the controller's two threads, the driver's two threads, the    *)
(* servos, and the LCM channels between the processes.                     *)
(***************************************************************************)
EXTENDS ArmController

VARIABLES
  reached,      (* history: the servos that, since the command under way   *)
                (* was published, have been at the angle it asks for       *)
  atRest        (* history: the servos the last completed move left under  *)
                (* a goal of their own (it told the others to stop)        *)

historyVars == <<reached, atRest>>

vars == <<lcmVars, rexarmVars, armVars, historyVars>>

\* Whether a servo at raw position pos is at the angle c commands.
At(pos, c) == AngleDiff(ToAngle(pos), c.pos) < Error

Publishing == controlPc' \in {"wait", "poll"} /\ controlPc' # controlPc

Completing == controlPc \in {"wait", "poll"} /\ controlPc' = "next"

Track ==
  /\ reached' = IF Publishing
                THEN { id \in Servos : At(servo[id].pos, cmd'[id]) }
                ELSE reached \cup { id \in Servos : At(servo'[id].pos, cmd[id]) }
  /\ atRest' = IF Completing THEN { id \in Servos : ~Stops(cmd[id]) } ELSE atRest

Loss == (LoseCommand \/ LoseStatus) /\ UNCHANGED <<rexarmVars, armVars>>

Init ==
  /\ LcmInit
  /\ RexarmInit
  /\ ArmInit
  /\ reached = {}
  /\ atRest = Servos

InDriverProcess(A) == A /\ UNCHANGED armVars /\ Track

InController(A) == A /\ Track

Next ==
  \/ InDriverProcess(RexarmNext)
  \/ InController(ArmNext)
  \/ Loss /\ UNCHANGED historyVars

Spec == Init /\ [][Next]_vars

\* Every thread runs, every servo with torque moves.  The driver gets the bus
\* although the status thread keeps taking it, because that one sleeps
\* between two rounds (usleep in status_loop).
Fairness ==
  /\ SF_vars(InDriverProcess(DriverLock))
  /\ WF_vars(InDriverProcess(Driver))
  /\ WF_vars(InDriverProcess(StatusThread))
  /\ \A id \in Servos : WF_vars(InDriverProcess(ServoMove(id)))
  /\ WF_vars(InController(Control))
  /\ WF_vars(InController(HandleStatusMsg))

FairSpec == Spec /\ Fairness

-----------------------------------------------------------------------------
TypeOK ==
  /\ armCommand \in Seq([Servos -> Command])
  /\ armStatus \in Seq([Servos -> Status])
  /\ servo \in [Servos -> Servo]
  /\ scriptIdx \in 1 .. Len(Script) + 1
  /\ controlPc \in {"next", "compose", "wait", "poll"}
  /\ controlIdx \in 1 .. Gripper
  /\ cmd \in [Servos -> Command]
  /\ joint1Position \in Int
  /\ statusList \in [Servos -> Status]
  /\ reached \subseteq Servos
  /\ atRest \subseteq Servos

Awaited == IF controlPc = "wait" THEN Servos \ {Gripper} ELSE {CurrentOp.joint}

\* "successful move" is only printed for a move that was made: no command is
\* taken for done because of status lists read before it took effect, for any
\* servo that had not been told to stop before (a stopped servo drifts, see
\* RelayGoal, and may be seen passing its next target).  This is about the
\* polling of statusList in wait, setJoint and setGripper.
SuccessfulMoveWasMade ==
  [][ (Wait \/ Poll) => (Awaited \cap atRest) \subseteq reached ]_vars

\* From the end of setGripper(CLOSE_GRIPPER) to the end of the script the
\* gripper keeps torque and its closed goal, whatever the other servos are
\* told: what run has gripped it carries home.
GripHeld ==
  (\E k \in 1 .. scriptIdx - 1 : Script[k].op = "setGripper") =>
    /\ servo[Gripper].torque > 0
    /\ servo[Gripper].goal = ToRaw(CloseGripper)

\* Without losses every move is found done and the script reaches its end:
\* neither skipped repetitions, nor stopped servos, nor status lists from
\* before a command keep a wait from ending (run; each wait has no timeout).
ScriptFinishes == <>(~Running)
=============================================================================
