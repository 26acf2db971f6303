------------------------------- MODULE CanSat -------------------------------
(***************************************************************************)
(* The flight software: app_main (MainAction.cpp), the dispatch of         *)
(* CanSat_state_logic (CanSatState.cpp), the five programs, gpsTask, the   *)
(* cone receiver, and the world that drives the two input pins.            *)
(***************************************************************************)
EXTENDS Standby, Frying, Start, Run, Gps

Init ==
  /\ currentState = "STANDBY"
  /\ pc = "boot"
  /\ out = [p \in OutPin |-> 0]
  /\ cameraPin \in {0, 1} /\ fallPin \in {0, 1}
  /\ bnoReady = FALSE /\ impact = FALSE /\ elapsed = 0
  /\ coord = NoFix /\ writing = {}
  /\ bodySet = FALSE
  /\ before = NoFix /\ pending = {} /\ n = 0 /\ caller = "none"
  /\ gpsReady = FALSE /\ retry = 0 /\ Here = NoFix
  /\ DistanceABS = Three /\ DistanceNumberABS = Three
  /\ ESP32S3 = FALSE

\* initImu finds the BNO055 or not; startGpsTask; CanSat_state_logic.
Boot ==
  /\ Goto("boot", "switch")
  /\ bnoReady' \in BOOLEAN
  /\ UNCHANGED <<currentState, out, envVars, impact, elapsed, gpsVars, bodySet,
                 manoeuvre, runVars, ESP32S3>>

\* loop_GOAL never returns.  It leaves the pins as they are.
Goal ==
  /\ Selected("GOAL")
  /\ pc' = "goal"
  /\ UNCHANGED <<currentState, out, envVars, imuVars, elapsed, gpsVars, bodySet,
                 manoeuvre, runVars, ESP32S3>>

\* Seeded fault: the levels of the pin are swapped.
Gazouhantei_Inverted ==
  LET value == IF ReceiverReadsPin THEN cameraPin ELSE RXD_PIN_S3sense
  IN  /\ ReceiverBuilt
      /\ ESP32S3' = IF value = 0 THEN TRUE ELSE IF value = 1 THEN FALSE ELSE ESP32S3
      /\ UNCHANGED <<currentState, pc, out, envVars, imuVars, elapsed, gpsVars,
                     bodySet, manoeuvre, runVars>>

\* Seeded fault: whatever is not 0 counts as a cone.
Gazouhantei_NotZero ==
  LET value == IF ReceiverReadsPin THEN cameraPin ELSE RXD_PIN_S3sense
  IN  /\ ReceiverBuilt
      /\ ESP32S3' = (value # 0)
      /\ UNCHANGED <<currentState, pc, out, envVars, imuVars, elapsed, gpsVars,
                     bodySet, manoeuvre, runVars>>

\* Gazouhantei of ESP32S3SenseReceiver.cpp.  CMakeLists.txt leaves the file out
\* of the build, and what it compares is the number of the pin.
Gazouhantei ==
  LET value == IF ReceiverReadsPin THEN cameraPin ELSE RXD_PIN_S3sense
  IN  /\ ReceiverBuilt
      /\ ESP32S3' = IF value = 1 THEN TRUE ELSE IF value = 0 THEN FALSE ELSE ESP32S3
      /\ UNCHANGED <<currentState, pc, out, envVars, imuVars, elapsed, gpsVars,
                     bodySet, manoeuvre, runVars>>

\* The camera board changes its mind; the fall pin is pulled or put back.
Environment ==
  /\ \/ cameraPin' = 1 - cameraPin /\ UNCHANGED fallPin
     \/ fallPin' = 1 - fallPin /\ UNCHANGED cameraPin
  /\ UNCHANGED <<currentState, pc, out, imuVars, elapsed, gpsVars, bodySet,
                 manoeuvre, runVars, ESP32S3>>

MainTask ==
  \/ Boot \/ StandbyRecognise \/ StandbyDone \/ Frying \/ Start \/ Unstick \/ Run
  \/ Goal

Next == MainTask \/ GpsTask \/ Gazouhantei \/ Environment

(***************************************************************************)
(* Fairness.  No task is starved: the main task shares its core with       *)
(* gpsTask, which sleeps 1 s in every period.  For the same reason a spin  *)
(* on gps_mux ends, although gpsTask may take the lock again and again     *)
(* (strong fairness of the steps that take it).  A critical section ends,  *)
(* and a receiver that is built keeps running.                             *)
(***************************************************************************)
LockedStep ==
  \/ CalibrateDrive \/ CalibrateOk \/ CalibrateStuck
  \/ StuckAgain     \/ StuckEnd
  \/ GpsAcquired    \/ GpsRetry
  \/ Navigate       \/ DriveBefore \/ DriveAfter

Fairness ==
  /\ WF_vars(MainTask)
  /\ SF_vars(LockedStep)
  /\ WF_vars(\E f \in Fixes : StoreLongitude(f))
  /\ WF_vars(Gazouhantei)

Spec == Init /\ [][Next]_vars /\ Fairness

-----------------------------------------------------------------------------
(***************************************************************************)
(* Properties of the code.                                                 *)
(***************************************************************************)
Place == {"boot", "switch", "standby_wait", "fry_loop", "fry_decide", "fry_settle",
          "burn", "cal_before", "cal_drive", "stuck_call", "stuck_left",
          "stuck_right", "stuck_forward", "gps_stanby", "drive_check", "navigate",
          "drive_before", "drive_after", "cone_check", "search_check", "search",
          "goal"}
StuckPlace == {"stuck_call", "stuck_left", "stuck_right", "stuck_forward"}
DrivePlace == {"drive_before", "drive_after"}
WholeFix == Fixes \cup {NoFix}

\* Every variable has its type.
TypeOK ==
  /\ currentState \in CanSatState
  /\ pc \in Place
  /\ out \in [OutPin -> {0, 1}]
  /\ cameraPin \in {0, 1} /\ fallPin \in {0, 1}
  /\ bnoReady \in BOOLEAN /\ impact \in BOOLEAN
  /\ elapsed \in 0..FlyTimeout
  /\ coord \in Position
  /\ writing \in SUBSET Fixes
  /\ bodySet \in BOOLEAN
  /\ before \in Position
  /\ pending \in SUBSET {"lat", "lon"}
  /\ n \in 0..CalibrateRetry \cup 0..StuckRetryMax
  /\ caller \in {"none", "start", "drive", "cone"}
  /\ gpsReady \in BOOLEAN
  /\ retry \in 0..GpsStanbyMaxRetry
  /\ Here \in Position
  /\ DistanceABS \in Distance /\ DistanceNumberABS \in Distance
  /\ ESP32S3 \in BOOLEAN

\* The software keeps the promises of Mission: the order of the phases, the one
\* burn of the wire with the wheels at rest, the standing hand-over to RUN, and
\* that the wire is put out.
Wire ==
  IF out["NICROM"] = 1 THEN "burning"
  ELSE IF currentState \in {"STANDBY", "FRYING"} \/ Selected("START") THEN "unused"
  ELSE "spent"
Wheels == HighMotors # {}
M == INSTANCE Mission WITH phase <- currentState, wire <- Wire, wheels <- Wheels
MissionKept == M!Spec

\* However the motor pins stood when Stuck was called, after each of its attempts
\* all four are low.
AttemptEndsWithMotorsOff ==
  [][pc = "stuck_forward" /\ pc' # "stuck_forward" => HighMotors' = {}]_vars

\* A calibration drive that got stuck is not made up for: once Stuck has freed the
\* rover it goes over to RUN, and to the end of the flight its turns are computed from
\* the body vector (0, 0).
StuckCalibrationIsFinal ==
  [](pc = "stuck_call" /\ caller = "start" => [](~bodySet))

\* GOAL is only ever reported when the position the distance was last measured
\* from is nearer than 1.0 to the goal.
GoalIsNear == currentState = "GOAL" => Dist(Target, Here) < One

\* A position read under gps_mux is one that gpsTask stored, both coordinates.
LockedReadsAreWhole ==
  /\ Here \in WholeFix
  /\ pc \in {"cal_drive", "drive_after"} => before \in WholeFix

\* Once the fall pin stays out, a rover in FRYING reaches RUN: the 2 s timeout
\* backs up the impact, also when both tests after the loop are missed.
SeparationEndsInRun ==
  <>[](fallPin = 1) => (currentState = "FRYING" ~> currentState = "RUN")

\* Stuck runs out of attempts and returns to its caller.
UnstickReturns ==
  pc = "stuck_call" ~> pc \in {"switch", "cone_check", "search_check"}

\* Every step of Stuck brings its end nearer, whatever gpsTask does to the position
\* between them: the five legs of an attempt come in order, and a new attempt takes
\* one from n.  Behind UnstickReturns.
LegsLeft ==
  5 * n + CASE pc = "stuck_call"    -> IF pending = {"lat", "lon"} THEN 5 ELSE 4
            [] pc = "stuck_left"    -> 3
            [] pc = "stuck_right"   -> 2
            [] pc = "stuck_forward" -> 1
UnstickCountsDown ==
  [][{pc, pc'} \subseteq StuckPlace
       => LegsLeft' < LegsLeft \/ UNCHANGED <<pc, out, manoeuvre>>]_vars

\* As built, with no task that writes the cone flag, a rover in RUN comes to steer
\* no more: loop_main_RUN compares the length of the last drive, not the distance
\* to the goal, with 3.0, and a drive is only that long when the position jumps.
SteeringStops == currentState = "RUN" ~> [](pc # "navigate")

\* As long as no receiver reads the pin, a drive shorter than 3.0 is the last one:
\* the length it left in DistanceABS is never measured again, and with it the rover
\* neither turns to the goal nor drives.  Behind SteeringStops.
ConeIsRead == ReceiverBuilt /\ ReceiverReadsPin
ShortDriveIsLast ==
  [][~ConeIsRead /\ DistanceABS < Three
       => /\ DistanceABS' = DistanceABS
          /\ pc' \notin {"navigate"} \cup DrivePlace]_vars

\* Nor does the mission reach GOAL, with a receiver that compares the pin's number, 26,
\* as little as with none: the number is neither of the two levels it is compared with.
GoalNeedsReceiver == ~ConeIsRead => currentState # "GOAL"

\* When the camera goes on seeing the cone, the search for it ends.
ConeEndsSearch == <>[](cameraPin = 1) => (pc = "search" ~> pc = "switch")

-----------------------------------------------------------------------------
(***************************************************************************)
(* The inductive invariant behind the safety properties (CanSatProofs).    *)
(***************************************************************************)
\* Where the main task can stand in each phase, and whom it returns to.
PlaceInv ==
  /\ pc \in {"boot", "standby_wait"} => currentState = "STANDBY"
  /\ pc \in {"fry_loop", "fry_decide", "fry_settle"} => currentState = "FRYING"
  /\ pc \in {"burn", "cal_before", "cal_drive"} => currentState = "START"
  /\ pc \in StuckPlace =>
       /\ caller # "none"
       /\ currentState = IF caller = "start" THEN "START" ELSE "RUN"
  /\ pc \in DrivePlace => caller \in {"drive", "cone"}
  /\ pc \in DrivePlace \cup {"gps_stanby", "drive_check", "navigate", "cone_check"}
       => currentState = "RUN"
  /\ pc \in {"search_check", "search"} => currentState \in {"RUN", "GOAL"}
  /\ pc = "goal" => currentState = "GOAL"

\* The wire burns at one place; the pins each manoeuvre can rely on.
PinInv ==
  /\ out["NICROM"] = 1 <=> pc = "burn"
  /\ \/ currentState \in {"STANDBY", "FRYING"}
     \/ Selected("START")
     \/ pc \in {"burn", "cal_before"}
     => HighMotors = {}
  /\ pc = "cal_drive" => HighMotors \subseteq Ahead
  /\ pc = "stuck_right" => HighMotors \cap SpinLeft = {}
  /\ pc = "stuck_forward" => HighMotors \subseteq RightOnly

\* The distance belongs to Here, but for the stretch between Cul_NAVVec and
\* DistanceToGoal, and until it is measured for the first time.
DistanceInv ==
  /\ \/ DistanceNumberABS = Dist(Target, Here)
     \/ DistanceNumberABS = Three
     \/ pc \in DrivePlace /\ caller = "drive"
  /\ GoalIsNear

\* While gps_mux is free the shared position is one that gpsTask stored; while it
\* is held the latitude is already the new one.
PositionInv ==
  /\ MuxFree => coord \in WholeFix
  /\ \A f \in writing : coord.lat = f.lat
  /\ LockedReadsAreWhole

\* What a mission without the receiver comes down to: the flag stays FALSE, and the
\* places of a drive are only reached with a length of 3.0 left by the one before.
BlindInv ==
  ~ConeIsRead =>
    /\ ~ESP32S3 /\ currentState # "GOAL"
    /\ pc \in {"navigate"} \cup DrivePlace => DistanceABS = Three

IInv == TypeOK /\ PlaceInv /\ PinInv /\ DistanceInv /\ PositionInv
=============================================================================
