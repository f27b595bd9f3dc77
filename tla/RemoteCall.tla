----------------------------- MODULE RemoteCall -----------------------------
(***************************************************************************)
(* What bus->send_command promises its callers: one call at a time, each   *)
(* carried out by the addressed servo before an answer is returned for it, *)
(* and given up without an answer only if the caller asked for no retry, in *)
(* which case the servo carried it out once at most.                       *)
(***************************************************************************)
EXTENDS Integers

CONSTANTS Calls, None

VARIABLES
  calling,    \* the call under way, or None
  executed,   \* times the servo carried it out: 0, 1 or 2 (more than once)
  outcome     \* how the last call ended: "answer", "null", or None before

callVars == <<calling, executed, outcome>>

Init == calling = None /\ executed = 0 /\ outcome = None

Begin ==
  /\ calling = None
  /\ calling' \in Calls
  /\ executed' = 0
  /\ outcome' = None

Execute ==
  /\ calling # None
  /\ executed = 0 \/ calling.retry
  /\ executed' = IF executed = 0 THEN 1 ELSE 2
  /\ UNCHANGED <<calling, outcome>>

Return ==
  /\ calling # None
  /\ \/ executed > 0 /\ outcome' = "answer"
     \/ ~calling.retry /\ outcome' = "null"
  /\ calling' = None
  /\ UNCHANGED executed

Next == Begin \/ Execute \/ Return

Spec == Init /\ [][Next]_callVars
=============================================================================
