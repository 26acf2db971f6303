------------------------------- MODULE Start -------------------------------
(***************************************************************************)
(* ProGram_START.cpp: cut the parachute with the nichrome wire, then drive *)
(* ahead for 5 s to find the heading of the body from two positions.       *)
(***************************************************************************)
EXTENDS Stuck

\* setup_START, and loop_START up to the 1.5 s burn.  It zeroes the body vector.
StartBurn ==
  /\ Selected("START")
  /\ pc' = "burn"
  /\ out' = SetLevel(MotorPin, {"NICROM"})
  /\ bodySet' = FALSE
  /\ UNCHANGED <<currentState, envVars, imuVars, elapsed, gpsVars, manoeuvre,
                 runVars, ESP32S3>>

\* Seeded fault: the wire is not switched off.
BurnEnd_KeepsWire ==
  /\ Goto("burn", "cal_before")
  /\ UNCHANGED <<currentState, out, envVars, imuVars, elapsed, gpsVars, bodySet,
                 manoeuvre, runVars, ESP32S3>>

BurnEnd ==
  /\ Goto("burn", "cal_before")
  /\ out' = SetLevel({"NICROM"}, {})
  /\ UNCHANGED <<currentState, envVars, imuVars, elapsed, gpsVars, bodySet,
                 manoeuvre, runVars, ESP32S3>>

CalibrateDrive ==
  /\ Goto("cal_before", "cal_drive")
  /\ MuxFree
  /\ before' = coord
  /\ out' = SetLevel({}, Ahead)
  /\ UNCHANGED <<currentState, envVars, imuVars, elapsed, gpsVars, bodySet,
                 pending, n, caller, runVars, ESP32S3>>

NotMoved == Dist(before, coord) < Moved

\* Seeded fault: the motors run on after the calibration drive.
CalibrateOk_KeepsDriving ==
  /\ Goto("cal_drive", "switch")
  /\ MuxFree
  /\ ~NotMoved
  /\ bodySet' = TRUE
  /\ before' = NoFix
  /\ currentState' = "RUN"
  /\ UNCHANGED <<out, envVars, imuVars, elapsed, gpsVars, pending, n, caller,
                 runVars, ESP32S3>>

\* The drive moved the rover: the heading is fixed and loop_START moves on.
CalibrateOk ==
  /\ Goto("cal_drive", "switch")
  /\ MuxFree
  /\ out' = SetLevel(Ahead, {})
  /\ ~NotMoved
  /\ bodySet' = TRUE
  /\ before' = NoFix
  /\ currentState' = "RUN"
  /\ UNCHANGED <<envVars, imuVars, elapsed, gpsVars, pending, n, caller, runVars,
                 ESP32S3>>

\* It did not: calibrateBodyVector gives up when n <= 0 and runs Stuck(n - 1)
\* otherwise.  Either way it returns without a heading.
CalibrateStuck ==
  /\ pc = "cal_drive"
  /\ MuxFree
  /\ out' = SetLevel(Ahead, {})
  /\ NotMoved
  /\ IF CalibrateRetry <= 0
       THEN /\ pc' = "switch"
            /\ currentState' = "RUN"
            /\ before' = NoFix
            /\ UNCHANGED <<pending, n, caller>>
       ELSE /\ CallStuck(CalibrateRetry - 1, "start")
            /\ UNCHANGED currentState
  /\ UNCHANGED <<envVars, imuVars, elapsed, gpsVars, bodySet, runVars, ESP32S3>>

Start == StartBurn \/ BurnEnd \/ CalibrateDrive \/ CalibrateOk \/ CalibrateStuck
=============================================================================
