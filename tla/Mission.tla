------------------------------ MODULE Mission ------------------------------
(***************************************************************************)
(* What the flight software promises, whatever its programs do inside: the *)
(* mission goes through its five phases in order and never back, the wire  *)
(* burns once, after the flight and before any wheel turns, it is put out, *)
(* and the rover is handed over to RUN standing still.                     *)
(***************************************************************************)
VARIABLES
  phase,
  wire,     \* the nichrome wire: "unused", "burning", "spent"
  wheels    \* some motor pin is high

vars == <<phase, wire, wheels>>

Init == phase = "STANDBY" /\ wire = "unused" /\ wheels = FALSE

Launch   == phase = "STANDBY" /\ phase' = "FRYING" /\ UNCHANGED <<wire, wheels>>
Separate == phase = "FRYING" /\ phase' = "START" /\ UNCHANGED <<wire, wheels>>

Ignite ==
  /\ phase = "START" /\ wire = "unused" /\ ~wheels
  /\ wire' = "burning"
  /\ UNCHANGED <<phase, wheels>>

PutOut ==
  /\ phase = "START" /\ wire = "burning"
  /\ wire' = "spent"
  /\ UNCHANGED <<phase, wheels>>

Drive ==
  /\ phase \in {"START", "RUN", "GOAL"} /\ wire = "spent"
  /\ wheels' = ~wheels
  /\ UNCHANGED <<phase, wire>>

HandOver ==
  /\ phase = "START" /\ wire = "spent"
  /\ phase' = "RUN"
  /\ wheels' = FALSE
  /\ UNCHANGED wire

Arrive == phase = "RUN" /\ phase' = "GOAL" /\ UNCHANGED <<wire, wheels>>

Next == Launch \/ Separate \/ Ignite \/ PutOut \/ Drive \/ HandOver \/ Arrive

Safe == Init /\ [][Next]_vars
Spec == Safe /\ WF_vars(PutOut)
=============================================================================
