-------------------------- MODULE DynamixelDevice --------------------------
(***************************************************************************)
(* One servo as its dynamixel_device_t sees it: the rotation mode, which   *)
(* the device caches and set_goal goes by, and the EEPROM, which wears out *)
(* and is written only when it has to be.  (RexarmDriver has set_goal.)    *)
(*                                                                         *)
(* The four bytes of the angle limits stand for the EEPROM; a byte is 0 or *)
(* not, and all zero is wheel mode.  A call without retries may fail       *)
(* before the servo has carried it out or after; one with retries ends     *)
(* only with an answer.                                                    *)
(***************************************************************************)
EXTENDS Integers, Sequences

CONSTANTS
  MaxCalls     (* bound: calls made                                        *)

VARIABLES
  limits,      (* the servo's angle limits, CW then CCW                    *)
  rotationMode, (* device->rotation_mode: TRUE for wheel                   *)
  doubtful,    (* history: the mode was never read, or setting it failed   *)
  writes,      (* history: writes to the EEPROM                            *)
  crashed,     (* dynamixel_msg_dump was given NULL                        *)
  calls        (* calls made                                               *)

vars == <<limits, rotationMode, doubtful, writes, crashed, calls>>

Limits == [1 .. 4 -> {0, 1}]

\* set_rotation_mode: 0 to 0 for a wheel, 0 to fff for a joint (MX; AX: 3ff).
LimitsFor(wheel) == IF wheel THEN <<0, 0, 0, 0>> ELSE <<0, 0, 1, 1>>

Call == ~crashed /\ calls < MaxCalls /\ calls' = calls + 1

-----------------------------------------------------------------------------
\* Mutant of Differ: the EEPROM is written whatever it holds.
Differ_Always(asked) == TRUE

Differ(asked) == \E i \in 1 .. 4 : limits[i] # asked[i]

\* ensure_EEPROM reads, and writes what differs.  A read that returned an
\* error is returned; one that returned nothing is printed first, which
\* ends the program.
EnsureFails ==
  /\ crashed' \in BOOLEAN
  /\ UNCHANGED <<limits, writes>>

EnsureSame(asked) ==
  /\ ~Differ(asked)
  /\ UNCHANGED <<limits, writes, crashed>>

EnsureWrites(asked) ==
  /\ Differ(asked)
  /\ limits' = asked
  /\ writes' = writes + 1
  /\ UNCHANGED crashed

\* The write is not answered, or answered with an error; then it may not
\* have been carried out.
EnsureWriteFails(asked) ==
  /\ Differ(asked)
  /\ limits' \in {limits, asked}
  /\ writes' = IF limits' = asked THEN writes + 1 ELSE writes
  /\ crashed' \in BOOLEAN

\* set_continuous_mode: the mode is cached whether or not the servo has it.
SetContinuousMode(wheel) ==
  /\ Call
  /\ \/ /\ EnsureSame(LimitsFor(wheel)) \/ EnsureWrites(LimitsFor(wheel))
        /\ doubtful' = FALSE
     \/ /\ EnsureFails \/ EnsureWriteFails(LimitsFor(wheel))
        /\ doubtful' = TRUE
  /\ rotationMode' = wheel

\* Mutant of IsWheel: one byte less is looked at.
IsWheel_OneLess == \A i \in 1 .. 3 : limits[i] = 0

\* read_rotation_mode: the mode is cached if the answer has the right length.
IsWheel == \A i \in 1 .. 4 : limits[i] = 0

ReadRotationMode ==
  /\ Call
  /\ \/ rotationMode' = IsWheel /\ doubtful' = FALSE
     \/ UNCHANGED <<rotationMode, doubtful>>
  /\ UNCHANGED <<limits, writes, crashed>>

\* dynamixel_device_create takes it that the servo is in joint mode.
Init ==
  /\ limits \in Limits
  /\ rotationMode = FALSE
  /\ doubtful = TRUE
  /\ writes = 0
  /\ crashed = FALSE
  /\ calls = 0

Next ==
  \/ \E wheel \in BOOLEAN : SetContinuousMode(wheel)
  \/ ReadRotationMode

Spec == Init /\ [][Next]_vars

-----------------------------------------------------------------------------
\* Once the mode was read, or set without failure, what the device takes it
\* to be is what the servo's limits make it, so that the next goal is of the
\* kind the servo takes (rotation_mode, which the assertions of the two
\* set-goal functions go by).
ModeIsKnown == ~doubtful => rotationMode = (\A i \in 1 .. 4 : limits[i] = 0)

\* A mode that is not in doubt can be set to what it is as often as one
\* likes: the EEPROM is not written ("Aborting in order to avoid EEPROM
\* wear-out").
EepromSpared ==
  [][ (limits = LimitsFor(rotationMode') /\ calls' # calls) => writes' = writes ]_vars

=============================================================================
