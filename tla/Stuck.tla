------------------------------- MODULE Stuck -------------------------------
(***************************************************************************)
(* Stuck of ProGram_RUN.cpp, the manoeuvre that frees the rover: spin one  *)
(* way, spin the other way, drive on, and try again if the position moved  *)
(* by less than 0.5.  It is called from the calibration (caller "start")   *)
(* and from the two drives of loop_main_RUN ("drive" and "cone").  The     *)
(* recursion is a tail call, so a frame is just n and the position before. *)
(***************************************************************************)
EXTENDS CanSatGlobals

\* Every caller passes g_coordlatitude and g_coordlongtitude without gps_mux:
\* the call is two reads, in the order the compiler chooses.
CallStuck(k, c) ==
  /\ pc' = "stuck_call"
  /\ pending' = {"lat", "lon"}
  /\ n' = k
  /\ caller' = c
  /\ UNCHANGED before

StuckArgument(c) ==
  /\ pc = "stuck_call"
  /\ c \in pending
  /\ before' = [before EXCEPT ![c] = coord[c]]
  /\ pending' = pending \ {c}
  /\ IF pending = {c}
       THEN pc' = "stuck_left" /\ out' = SetLevel({}, SpinLeft)
       ELSE UNCHANGED <<pc, out>>
  /\ UNCHANGED <<currentState, envVars, imuVars, elapsed, gpsVars, bodySet, n,
                 caller, runVars, ESP32S3>>

\* Seeded fault: only one of the two pins of the first spin is cleared.
StuckSpinRight_KeepsPin ==
  /\ Goto("stuck_left", "stuck_right")
  /\ out' = SetLevel({"RMOTOR_FRONT"}, SpinRight)
  /\ UNCHANGED <<currentState, envVars, imuVars, elapsed, gpsVars, bodySet,
                 manoeuvre, runVars, ESP32S3>>

StuckSpinRight ==
  /\ Goto("stuck_left", "stuck_right")
  /\ out' = SetLevel(SpinLeft, SpinRight)
  /\ UNCHANGED <<currentState, envVars, imuVars, elapsed, gpsVars, bodySet,
                 manoeuvre, runVars, ESP32S3>>

\* Announced as driving forward; the pins are the two of the right motor.
StuckForward ==
  /\ Goto("stuck_right", "stuck_forward")
  /\ out' = SetLevel(SpinRight, RightOnly)
  /\ UNCHANGED <<currentState, envVars, imuVars, elapsed, gpsVars, bodySet,
                 manoeuvre, runVars, ESP32S3>>

StillStuck == Dist(before, coord) < Half

Continuation == [start |-> "switch", drive |-> "cone_check", cone |-> "search_check"]

\* Seeded fault: the calibration is repeated once the rover is free.
ReturnFromStuck_CalibratesAgain ==
  /\ pc' = IF caller = "start" THEN "cal_before" ELSE Continuation[caller]
  /\ n' = 0
  /\ caller' = "none"
  /\ before' = NoFix
  /\ UNCHANGED <<pending, currentState>>

\* Stuck returns: the calibration gives up on its vector and loop_START moves
\* to RUN, a drive goes on with the statement after its call.
ReturnFromStuck ==
  /\ pc' = Continuation[caller]
  /\ currentState' = IF caller = "start" THEN "RUN" ELSE currentState
  /\ n' = 0
  /\ caller' = "none"
  /\ before' = NoFix
  /\ UNCHANGED pending

\* Seeded fault: n is not counted down.
StuckAgain_KeepsN ==
  /\ pc = "stuck_forward"
  /\ MuxFree
  /\ out' = SetLevel(RightOnly, {})
  /\ StillStuck /\ n >= 1
  /\ CallStuck(n, caller)
  /\ UNCHANGED <<currentState, envVars, imuVars, elapsed, gpsVars, bodySet,
                 runVars, ESP32S3>>

StuckAgain ==
  /\ pc = "stuck_forward"
  /\ MuxFree
  /\ out' = SetLevel(RightOnly, {})
  /\ StillStuck /\ n >= 1
  /\ CallStuck(n - 1, caller)
  /\ UNCHANGED <<currentState, envVars, imuVars, elapsed, gpsVars, bodySet,
                 runVars, ESP32S3>>

StuckEnd ==
  /\ pc = "stuck_forward"
  /\ MuxFree
  /\ out' = SetLevel(RightOnly, {})
  /\ ~(StillStuck /\ n >= 1)
  /\ ReturnFromStuck
  /\ UNCHANGED <<envVars, imuVars, elapsed, gpsVars, bodySet, runVars, ESP32S3>>

Unstick ==
  \/ \E c \in {"lat", "lon"} : StuckArgument(c)
  \/ StuckSpinRight \/ StuckForward \/ StuckAgain \/ StuckEnd
=============================================================================
