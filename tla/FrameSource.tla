---------------------------- MODULE FrameSource ----------------------------
(***************************************************************************)
(* What a camera driver behind image_source_t promises its caller: frames  *)
(* come in the order they were taken, none twice, and a frame the caller   *)
(* holds stays as it is until the caller gives it back.                    *)
(***************************************************************************)
EXTENDS Naturals

CONSTANTS
  Slots,   (* The places a frame can be lent from                          *)
  None     (* A place from which nothing is lent                           *)

VARIABLES
  lent,    (* slot -> the frame lent from it: its number and its contents  *)
  last     (* The number of the newest frame ever lent, 0 before the first *)

vars == <<lent, last>>

Init ==
  /\ lent = [s \in Slots |-> None]
  /\ last = 0

\* get_frame: any newer frame, from any free place; frames may be skipped.
Lend(s) ==
  /\ lent[s] = None
  /\ lent'[s] # None
  /\ lent'[s].no > last
  /\ last' = lent'[s].no
  /\ \A t \in Slots \ {s} : lent'[t] = lent[t]

\* release_frame.
Return(s) ==
  /\ lent[s] # None
  /\ lent' = [lent EXCEPT ![s] = None]
  /\ UNCHANGED last

Next == \E s \in Slots : Lend(s) \/ Return(s)

Spec == Init /\ [][Next]_vars
=============================================================================
