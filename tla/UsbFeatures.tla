---------------------------- MODULE UsbFeatures ----------------------------
(***************************************************************************)
(* The features of a Point Grey USB camera: each is a part of a control    *)
(* register that it shares with others, is set by writing the register     *)
(* anew, and is read back from it.  A value has one bit here.              *)
(***************************************************************************)
EXTENDS Naturals

CONSTANTS
  None,       (* nothing asked, or no longer                               *)
  MaxSets     (* bound: settings                                           *)

Values == 0 .. 1

\* A feature whose value is set as a floating-point number, and the white balance,
\* with two numbers in a register; the others are like it with one.
Simple   == {"shutter", "white-balance"}
Absolute == {"shutter"}

Parts(reg) ==
  IF reg = "white-balance" THEN {"mode", "ub", "vr"}
  ELSE IF reg \in Simple THEN {"mode", "value"}
  ELSE IF reg = "trigger" THEN {"enabled", "source", "mode"}
  ELSE {"timestamp", "gain"}

Features == UNION { {reg} \X Parts(reg) : reg \in Simple \cup {"trigger", "embed"} }

VARIABLES
  control,    (* feature's register -> its bits                            *)
  absolute,   (* the value at absolute_csr                                 *)
  trigger,    (* the trigger's register                                    *)
  embed,      (* the bits set in the frame info register                   *)
  result,     (* what set_feature_value returned last, or "aborted"        *)
  asked,      (* history: feature -> what it was set to                    *)
  sets

vars == <<control, absolute, trigger, embed, result, asked, sets>>

\* A register in manual mode, with the kind of its value and the values in it.
InManual(isAbs, ub, vr) ==
  [on |-> TRUE, auto |-> FALSE, push |-> FALSE, abs |-> isAbs, ub |-> ub, vr |-> vr]

\* The value of a feature that has one is where the white balance has ub.
Field(part) == IF part = "vr" THEN "vr" ELSE "ub"

-----------------------------------------------------------------------------
(* get_value                                                               *)

ModeOf(c) == CASE ~c.on          -> 0
               [] c.on /\ c.auto -> 1
               [] c.on /\ ~c.auto /\ ~c.push -> 2
               [] OTHER -> 3

EnabledOf(t) == IF ~t.on THEN 0 ELSE IF ~t.high THEN 1 ELSE 2

Get(f) ==
  LET reg == f[1]
      part == f[2]
  IN IF reg = "embed" THEN (IF part \in embed THEN 1 ELSE 0)
     ELSE IF reg = "trigger" THEN (IF part = "enabled" THEN EnabledOf(trigger) ELSE trigger[part])
     ELSE IF part = "mode" THEN ModeOf(control[reg])
     ELSE IF reg \in Absolute THEN absolute
     ELSE control[reg][Field(part)]

-----------------------------------------------------------------------------
(* set_value: what is written, or that the value is refused.               *)

\* simple_mode_set_value does not look at what the register holds.
WithMode(v) ==
  [on |-> v # 0, auto |-> v = 1, push |-> v = 3, abs |-> FALSE, ub |-> 0, vr |-> 0]

\* Mutant of WithValue: the register is not read before it is written.
WithValue_Alone(c, part, v) ==
  InManual(FALSE, IF part = "vr" THEN 0 ELSE v, IF part = "vr" THEN v ELSE 0)

\* Mutant of WithValue: the mode stays as it was.
WithValue_SameMode(c, part, v) == [c EXCEPT !.on = TRUE, ![Field(part)] = v]

\* simple_value_set_value keeps the other value, and makes the mode manual.
WithValue(c, part, v) ==
  InManual(FALSE, IF part = "vr" THEN c.ub ELSE v, IF part = "vr" THEN v ELSE c.vr)

\* simple_value_set_absolute_value
Manual == InManual(TRUE, 0, 0)

\* off leaves the polarity alone
WithEnabled(t, v) ==
  [t EXCEPT !.on = (v # 0), !.high = IF v = 0 THEN @ ELSE v = 2]

\* The numbers tried: those of the type, as far as the bits here go, and one more
\* where there are others that are refused.
Inputs(f) ==
  CASE f[2] = "enabled" -> 0..3
    [] f[2] = "source" -> {0, 1, 4}
    [] f = <<"trigger", "mode">> -> {0, 1, 16}
    [] f[1] \in Simple /\ f[2] = "mode" -> 0..4
    [] f[1] = "embed" -> 0..2
    [] OTHER -> Values

Accepts(f, v) ==
  /\ f[2] = "enabled" => v <= 2
  /\ f[2] = "source" => v < 4
  /\ f = <<"trigger", "mode">> => v < 16
  /\ f[1] \in Simple /\ f[2] = "mode" => v <= 3
  /\ f[1] = "embed" => v <= 1

Write(f, v) ==
  LET reg == f[1]
      part == f[2]
  IN \/ /\ reg = "embed"
        /\ embed' = IF v = 1 THEN embed \cup {part} ELSE embed \ {part}
        /\ UNCHANGED <<control, absolute, trigger>>
     \/ /\ reg = "trigger"
        /\ trigger' = IF part = "enabled" THEN WithEnabled(trigger, v)
                      ELSE [trigger EXCEPT ![part] = v]
        /\ UNCHANGED <<control, absolute, embed>>
     \/ /\ reg \in Simple /\ part = "mode"
        /\ control' = [control EXCEPT ![reg] = WithMode(v)]
        /\ UNCHANGED <<absolute, trigger, embed>>
     \/ /\ reg \in Absolute /\ part # "mode"
        /\ control' = [control EXCEPT ![reg] = Manual]
        /\ absolute' = v
        /\ UNCHANGED <<trigger, embed>>
     \/ /\ reg \in Simple \ Absolute /\ part # "mode"
        /\ control' = [control EXCEPT ![reg] = WithValue(@, part, v)]
        /\ UNCHANGED <<absolute, trigger, embed>>

\* Writing a mode clears the values beside it; setting a value sets the mode.
Overwrites(f, g) ==
  f[1] \in Simple /\ g[1] = f[1] /\ (f[2] = "mode") # (g[2] = "mode")

Set(f, v) ==
  /\ result # "aborted"
  /\ sets < MaxSets
  /\ sets' = sets + 1
  /\ IF Accepts(f, v)
     THEN /\ Write(f, v)
          /\ result' = "ok"
          /\ asked' = [g \in Features |-> IF g = f THEN v
                                          ELSE IF Overwrites(f, g) THEN None ELSE asked[g]]
     ELSE /\ result' = "refused"
          /\ UNCHANGED <<control, absolute, trigger, embed, asked>>

\* The control transfer fails.  Only a value's setter says so when it was the
\* write.
SetFails(f, v) ==
  /\ result # "aborted"
  /\ sets < MaxSets
  /\ sets' = sets + 1
  /\ result' \in {"ok"} \cup (IF f[1] \in Simple /\ f[2] # "mode" THEN {"refused"} ELSE {})
  /\ UNCHANGED <<control, absolute, trigger, embed, asked>>

\* The second write of an absolute value failed: an assertion ends the program.
SetAborts(f) ==
  /\ result # "aborted"
  /\ f[1] \in Absolute /\ f[2] # "mode"
  /\ sets < MaxSets
  /\ sets' = sets + 1
  /\ control' = [control EXCEPT ![f[1]] = Manual]
  /\ result' = "aborted"
  /\ asked' = [g \in Features |-> IF g[1] = f[1] THEN None ELSE asked[g]]
  /\ UNCHANGED <<absolute, trigger, embed>>

\* The camera (external): in automatic mode it chooses the values, and in one-push
\* mode once.
Adjust(reg) ==
  /\ result # "aborted"
  /\ control[reg].on
  /\ control[reg].auto \/ control[reg].push
  /\ \E v \in Values :
       /\ control' = [control EXCEPT ![reg] =
            [on |-> TRUE, auto |-> @.auto, push |-> FALSE, abs |-> @.abs, ub |-> v, vr |-> v]]
       /\ absolute' = IF reg \in Absolute THEN v ELSE absolute
  /\ UNCHANGED <<trigger, embed, result, asked, sets>>

-----------------------------------------------------------------------------
Init ==
  /\ control = [reg \in Simple |-> [InManual(FALSE, 0, 0) EXCEPT !.auto = TRUE]]
  /\ absolute = 0
  /\ trigger = [on |-> FALSE, high |-> TRUE, source |-> 0, mode |-> 0]
  /\ embed = {}
  /\ result = "ok"
  /\ asked = [f \in Features |-> None]
  /\ sets = 0

Next ==
  \/ \E f \in Features : (\E v \in Inputs(f) : Set(f, v) \/ SetFails(f, v)) \/ SetAborts(f)
  \/ \E reg \in Simple : Adjust(reg)

-----------------------------------------------------------------------------
\* Every feature that was set reads back as it was set, whatever else was set
\* after it in the same registers and whatever the camera adjusts by itself; only
\* a feature's mode and its values undo each other, and a one-push mode ends as
\* manual.
SettingsHold ==
  \A f \in Features :
    asked[f] # None =>
      \/ Get(f) = asked[f]
      \/ f[1] \in Simple /\ f[2] = "mode" /\ asked[f] = 3 /\ Get(f) = 2

\* A value that was set is one the camera works with: nothing is adjusted behind
\* the caller's back, and a floating-point value is not set aside for a stale
\* integer.
ValueInForce ==
  \A reg \in Simple : \A part \in Parts(reg) \ {"mode"} :
    asked[<<reg, part>>] # None =>
      /\ ModeOf(control[reg]) = 2
      /\ control[reg].abs = (reg \in Absolute)
=============================================================================
