-------------------------------- MODULE Run --------------------------------
(***************************************************************************)
(* ProGram_RUN.cpp: turn to the goal and drive in 1 s steps, look for the  *)
(* cone when the goal is near, and report GOAL when the cone is in sight   *)
(* and the goal is nearer than 1.0.                                        *)
(***************************************************************************)
EXTENDS Stuck

RunEnter ==
  /\ Selected("RUN")
  /\ IF gpsReady
       THEN pc' = "drive_check" /\ UNCHANGED retry
       ELSE pc' = "gps_stanby" /\ retry' = GpsStanbyMaxRetry
  /\ UNCHANGED <<currentState, out, envVars, imuVars, elapsed, gpsVars, bodySet,
                 manoeuvre, gpsReady, Here, DistanceABS, DistanceNumberABS, ESP32S3>>

-----------------------------------------------------------------------------
(***************************************************************************)
(* GPS_STANBY.  Whatever it finds, loop_main_RUN takes the GPS for ready.  *)
(***************************************************************************)
AtTarget == coord = Target  \* each coordinate within GPS_ERROR_THRESHOLD_DEG

GpsAcquired ==
  /\ Goto("gps_stanby", "drive_check")
  /\ retry > 0 /\ MuxFree /\ AtTarget
  /\ gpsReady' = TRUE
  /\ retry' = 0
  /\ UNCHANGED <<currentState, out, envVars, imuVars, elapsed, gpsVars, bodySet,
                 manoeuvre, Here, DistanceABS, DistanceNumberABS, ESP32S3>>

\* Seeded fault: one try too many.
GpsRetry_OneMore ==
  /\ pc = "gps_stanby"
  /\ retry >= 0 /\ MuxFree /\ ~AtTarget
  /\ retry' = retry - 1
  /\ UNCHANGED <<currentState, pc, out, envVars, imuVars, elapsed, gpsVars, bodySet,
                 manoeuvre, gpsReady, Here, DistanceABS, DistanceNumberABS, ESP32S3>>

GpsRetry ==
  /\ pc = "gps_stanby"
  /\ retry > 0 /\ MuxFree /\ ~AtTarget
  /\ retry' = retry - 1
  /\ UNCHANGED <<currentState, pc, out, envVars, imuVars, elapsed, gpsVars, bodySet,
                 manoeuvre, gpsReady, Here, DistanceABS, DistanceNumberABS, ESP32S3>>

GpsGiveUp ==
  /\ Goto("gps_stanby", "drive_check")
  /\ retry <= 0
  /\ gpsReady' = TRUE
  /\ UNCHANGED <<currentState, out, envVars, imuVars, elapsed, gpsVars, bodySet,
                 manoeuvre, retry, Here, DistanceABS, DistanceNumberABS, ESP32S3>>

-----------------------------------------------------------------------------
(***************************************************************************)
(* The two drives.                                                         *)
(***************************************************************************)

\* Seeded fault: the distance to the goal in place of the length of the drive.
DriveCheck_ByGoal ==
  /\ pc = "drive_check"
  /\ pc' = IF ~ESP32S3 /\ DistanceNumberABS >= Three THEN "navigate" ELSE "cone_check"
  /\ UNCHANGED <<currentState, out, envVars, imuVars, elapsed, gpsVars, bodySet,
                 manoeuvre, runVars, ESP32S3>>

DriveCheck ==
  /\ pc = "drive_check"
  /\ pc' = IF ~ESP32S3 /\ DistanceABS >= Three THEN "navigate" ELSE "cone_check"
  /\ UNCHANGED <<currentState, out, envVars, imuVars, elapsed, gpsVars, bodySet,
                 manoeuvre, runVars, ESP32S3>>

\* getYaw() + lotate_degree may fall on either side of -2..2.  Without a body
\* vector lotate_degree is 0 or 180 and the yaw is in 0..360: never below -2.
Turns == {"stop", "right"} \cup (IF bodySet THEN {"left"} ELSE {})

\* loop_Make_Body_lotate.  A turn sets its two pins and clears none.
Lotate(turn) ==
  out' = CASE turn = "stop"  -> SetLevel(MotorPin, {})
           [] turn = "right" -> SetLevel({}, SpinLeft)
           [] turn = "left"  -> SetLevel({}, SpinRight)

\* Seeded fault: the position is read without gps_mux.
Navigate_Unlocked ==
  /\ Goto("navigate", "drive_before")
  /\ Here' = coord
  /\ \E turn \in Turns : Lotate(turn)
  /\ caller' = "drive"
  /\ UNCHANGED <<currentState, envVars, imuVars, elapsed, gpsVars, bodySet, before,
                 pending, n, gpsReady, retry, DistanceABS, DistanceNumberABS, ESP32S3>>

\* Cul_NAVVec, LotateCul and loop_Make_Body_lotate.
Navigate ==
  /\ Goto("navigate", "drive_before")
  /\ MuxFree
  /\ Here' = coord
  /\ \E turn \in Turns : Lotate(turn)
  /\ caller' = "drive"
  /\ UNCHANGED <<currentState, envVars, imuVars, elapsed, gpsVars, bodySet, before,
                 pending, n, gpsReady, retry, DistanceABS, DistanceNumberABS, ESP32S3>>

\* Read the position and set the pins of the right motor for 1 s.
DriveBefore ==
  /\ Goto("drive_before", "drive_after")
  /\ MuxFree
  /\ before' = coord
  /\ out' = SetLevel({}, RightOnly)
  /\ UNCHANGED <<currentState, envVars, imuVars, elapsed, gpsVars, bodySet, pending,
                 n, caller, runVars, ESP32S3>>

\* Read the position again; DistanceToGoal measures from Here.  The motor pins
\* stay as they are, and Stuck runs when the drive covered less than 0.5.
DriveAfter ==
  /\ pc = "drive_after"
  /\ MuxFree
  /\ DistanceABS' = Dist(before, coord)
  /\ DistanceNumberABS' = Dist(Target, Here)
  /\ IF DistanceABS' < Half
       THEN CallStuck(StuckRetryMax, caller) /\ UNCHANGED currentState
       ELSE /\ pc' = Continuation[caller]
            /\ caller' = "none"
            /\ before' = NoFix
            /\ UNCHANGED <<currentState, pending, n>>
  /\ UNCHANGED <<out, envVars, imuVars, elapsed, gpsVars, bodySet, gpsReady, retry,
                 Here, ESP32S3>>

-----------------------------------------------------------------------------
(***************************************************************************)
(* With the cone in sight, and in search of it.                            *)
(***************************************************************************)

\* Seeded fault: the length of the drive in place of the distance to the goal.
ConeCheck_ByDrive ==
  /\ pc = "cone_check"
  /\ IF ~ESP32S3
       THEN pc' = "search_check" /\ UNCHANGED <<currentState, caller>>
       ELSE IF DistanceABS < One
         THEN pc' = "search_check" /\ currentState' = "GOAL" /\ UNCHANGED caller
         ELSE pc' = "drive_before" /\ caller' = "cone" /\ UNCHANGED currentState
  /\ UNCHANGED <<out, envVars, imuVars, elapsed, gpsVars, bodySet, before, pending,
                 n, runVars, ESP32S3>>

ConeCheck ==
  /\ pc = "cone_check"
  /\ IF ~ESP32S3
       THEN pc' = "search_check" /\ UNCHANGED <<currentState, caller>>
       ELSE IF DistanceNumberABS < One
         THEN pc' = "search_check" /\ currentState' = "GOAL" /\ UNCHANGED caller
         ELSE pc' = "drive_before" /\ caller' = "cone" /\ UNCHANGED currentState
  /\ UNCHANGED <<out, envVars, imuVars, elapsed, gpsVars, bodySet, before, pending,
                 n, runVars, ESP32S3>>

SearchCheck ==
  /\ pc = "search_check"
  /\ pc' = IF ~ESP32S3 /\ DistanceNumberABS < Three THEN "search" ELSE "switch"
  /\ UNCHANGED <<currentState, out, envVars, imuVars, elapsed, gpsVars, bodySet,
                 manoeuvre, runVars, ESP32S3>>

SearchSpin ==
  /\ pc = "search"
  /\ ~ESP32S3
  /\ out' = SetLevel({}, SpinRight)
  /\ UNCHANGED <<currentState, pc, envVars, imuVars, elapsed, gpsVars, bodySet,
                 manoeuvre, runVars, ESP32S3>>

SearchEnd ==
  /\ Goto("search", "switch")
  /\ ESP32S3
  /\ UNCHANGED <<currentState, out, envVars, imuVars, elapsed, gpsVars, bodySet,
                 manoeuvre, runVars, ESP32S3>>

Run ==
  \/ RunEnter   \/ GpsAcquired \/ GpsRetry    \/ GpsGiveUp
  \/ DriveCheck \/ Navigate    \/ DriveBefore \/ DriveAfter
  \/ ConeCheck  \/ SearchCheck \/ SearchSpin  \/ SearchEnd
=============================================================================
