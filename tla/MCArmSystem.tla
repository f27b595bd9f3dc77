---------------------------- MODULE MCArmSystem ----------------------------
(***************************************************************************)
(* ArmSystem for TLC, in two instances over the same variables: one whose  *)
(* channels lose messages, and one with fairness whose channels do not.    *)
(* The first state picks one.  What ArmProofs shows of each holds here.    *)
(***************************************************************************)
EXTENDS ArmProofs

VARIABLE losses   \* whether the channels of this behaviour lose messages

MCMinAngle == -2

\* run's script on joint 1, joint 3 and the gripper.
MCRun == RunScript(<<1, -1, 0>>, 1, 1, 0)

Lossless == INSTANCE ArmProofs WITH
  Lossy <- FALSE, Script <- MCRun, PowerOnRaw <- {2}, Pause <- 0

\* The one move that is not in run's script, and then run's.
MCEveryMove == <<GoWhereNoBall>> \o MCRun

\* Both scripts grip, and let go of nothing gripped.
ASSUME ScriptsGrip == ScriptGrips /\ Lossless!ScriptGrips

armVarsAll == <<losses, vars>>

ArmSystemInit == losses \in BOOLEAN /\ IF losses THEN Init ELSE Lossless!Init

WithLosses(A) == losses /\ A /\ UNCHANGED losses
Without(A) == ~losses /\ A /\ UNCHANGED losses

ArmSystemNext == WithLosses(Next) \/ Without(Lossless!Next)

\* As in ArmSystem.
LosslessFairness ==
  /\ SF_armVarsAll(Without(Lossless!InDriverProcess(Lossless!DriverLock)))
  /\ WF_armVarsAll(Without(Lossless!InDriverProcess(Lossless!Driver)))
  /\ WF_armVarsAll(Without(Lossless!InDriverProcess(Lossless!StatusThread)))
  /\ \A id \in Servos : WF_armVarsAll(Without(Lossless!InDriverProcess(Lossless!ServoMove(id))))
  /\ WF_armVarsAll(Without(Lossless!InController(Lossless!Control)))
  /\ WF_armVarsAll(Without(Lossless!InController(Lossless!HandleStatusMsg)))

ArmSystemSpec == ArmSystemInit /\ [][ArmSystemNext]_armVarsAll /\ LosslessFairness

-----------------------------------------------------------------------------
\* What run has gripped it carries home (ArmSystem).
GripIsHeld == IF losses THEN GripHeld ELSE Lossless!GripHeld
\* No move is reported as made that was not made (ArmSystem).
MovesWereMade ==
  [][ /\ WithLosses(Wait \/ Poll) => (Awaited \cap atRest) \subseteq reached
      /\ Without(Lossless!Wait \/ Lossless!Poll)
           => (Lossless!Awaited \cap atRest) \subseteq reached ]_armVarsAll
\* Without losses the script reaches its end (ArmSystem).
ScriptIsDone == ~losses => Lossless!ScriptFinishes

-----------------------------------------------------------------------------
ArmIInv == IF losses THEN IInv ELSE Lossless!IInv

\* What ArmProofs assumes of its constants holds of the second instance's.
LEMMA LosslessAssumptions ==
  /\ {2} \subseteq 0 .. (MaxAngle - MinAngle)
  /\ FALSE \in BOOLEAN /\ 0 \in Nat
  /\ Servos = Lossless!Servos
BY ScriptsGrip DEF Lossless!ScriptGrips, Lossless!Opened, Lossless!Raw, Servos, Lossless!Servos

LEMMA ArmInvInit == ArmSystemInit => ArmIInv
<1> SUFFICES ASSUME ArmSystemInit PROVE ArmIInv
  OBVIOUS
<1>1. CASE losses
  BY <1>1, InvInit, ScriptsGrip DEF ArmSystemInit, ArmIInv
<1>2. CASE ~losses
  BY <1>2, Lossless!InvInit, ScriptsGrip, LosslessAssumptions, ArmLcmAssumption,
     RexarmAssumption, ArmControllerAssumption
     DEF ArmSystemInit, ArmIInv
<1> QED
  BY <1>1, <1>2

LEMMA ArmInvStep == ArmIInv /\ [ArmSystemNext]_armVarsAll => ArmIInv'
<1> SUFFICES ASSUME ArmIInv, [ArmSystemNext]_armVarsAll PROVE ArmIInv'
  OBVIOUS
<1>1. losses' = losses
  BY DEF ArmSystemNext, WithLosses, Without, armVarsAll
<1>2. CASE losses
  <2>1. [Next]_vars
    BY <1>2 DEF ArmSystemNext, WithLosses, Without, armVarsAll
  <2> QED
    BY <1>1, <1>2, <2>1, InvStep, ScriptsGrip DEF ArmIInv
<1>3. CASE ~losses
  <2>1. [Lossless!Next]_(Lossless!vars)
    BY <1>3
       DEF ArmSystemNext, WithLosses, Without, armVarsAll, vars, Lossless!vars, lcmVars,
           Lossless!lcmVars, rexarmVars, Lossless!rexarmVars, driverVars,
           Lossless!driverVars, statusVars, Lossless!statusVars, servoVars,
           Lossless!servoVars, armVars, Lossless!armVars, controlVars,
           Lossless!controlVars, historyVars, Lossless!historyVars
  <2> QED
    BY <1>1, <1>3, <2>1, Lossless!InvStep, ScriptsGrip, LosslessAssumptions,
       ArmLcmAssumption, RexarmAssumption, ArmControllerAssumption
       DEF ArmIInv
<1> QED
  BY <1>2, <1>3

\* Whether the channels lose lists or not, what run has gripped it carries home
\* (setGripper, goHome and the driver's last_cmds).
THEOREM GripStaysHeldEverywhere == ArmSystemSpec => []GripIsHeld
<1>1. ArmIInv => GripIsHeld
  BY InvHolds, Lossless!InvHolds, LosslessAssumptions, ArmLcmAssumption, RexarmAssumption,
     ArmControllerAssumption
     DEF ArmIInv, GripIsHeld
<1> QED
  BY <1>1, ArmInvInit, ArmInvStep, PTL DEF ArmSystemSpec
=============================================================================
