------------------------------ MODULE Standby ------------------------------
(***************************************************************************)
(* ProGram_STANDBY.cpp.  A pass that reads the camera pin low only sends   *)
(* telemetry and leaves the state as it is.                                *)
(***************************************************************************)
EXTENDS CanSatGlobals

\* The camera pin reads high.  The ten announcements that follow do not read
\* it again, so they are one wait together with the 10 s after them.
StandbyRecognise ==
  /\ Selected("STANDBY")
  /\ cameraPin = 1
  /\ pc' = "standby_wait"
  /\ UNCHANGED <<currentState, out, envVars, imuVars, elapsed, gpsVars, bodySet,
                 manoeuvre, runVars, ESP32S3>>

StandbyDone ==
  /\ Goto("standby_wait", "switch")
  /\ out' = SetLevel({}, {"TXD_S3"})
  /\ currentState' = "FRYING"
  /\ UNCHANGED <<envVars, imuVars, elapsed, gpsVars, bodySet, manoeuvre,
                 runVars, ESP32S3>>
=============================================================================
