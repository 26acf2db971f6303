--------------------------- MODULE CanSatGlobals ---------------------------
(***************************************************************************)
(* What every program of the flight software shares                        *)
(* (main/CanSat_EachFileConnect.hpp and the globals it declares): the      *)
(* mission state, the output pins, the position that gpsTask publishes,    *)
(* the last acceleration sample and the cone flag.                         *)
(*                                                                         *)
(* The software runs on a dual-core ESP32 under FreeRTOS.  The main task   *)
(* runs the five programs one after the other; gpsTask writes the position *)
(* from a task of its own; a third task may own the cone flag.  `pc' is    *)
(* where the main task stands: one action leads from one vTaskDelay, lock  *)
(* or read of shared state to the next.                                    *)
(***************************************************************************)
EXTENDS Integers

CONSTANTS
  Fixes,              \* the positions a valid fix may report
  Target,             \* DEST_LAT, DEST_LON
  FlyTimeout,         \* the 2 s of loop_FRYING, in its 100 ms periods
  CalibrateRetry,     \* n of loop_START
  StuckRetryMax,      \* STUCK_RETRY_MAX
  GpsStanbyMaxRetry,  \* GPS_STANBY_MAX_RETRY
  ReceiverBuilt,      \* is a task that writes ESP32S3 part of the build?
  ReceiverReadsPin    \* does it read the pin, or compare the pin's number?

(***************************************************************************)
(* A position is a pair of coordinates in units of 0.0001 degree, the      *)
(* resolution of the finest threshold the programs compare with.           *)
(***************************************************************************)
Position == [lat : Int, lon : Int]
NoFix == [lat |-> 0, lon |-> 0]  \* g_coordlatitude, g_coordlongtitude at reset

ASSUME PositionAssumption == Fixes \subseteq Position /\ Target \in Position
ASSUME RetryAssumption ==
  /\ FlyTimeout \in Nat \ {0}
  /\ CalibrateRetry \in Nat
  /\ StuckRetryMax \in Nat
  /\ GpsStanbyMaxRetry \in Nat
ASSUME ReceiverAssumption == ReceiverBuilt \in BOOLEAN /\ ReceiverReadsPin \in BOOLEAN

VARIABLES
  currentState,        \* the CanSatState
  pc,                  \* where the main task stands
  out,                 \* level of every output pin
  cameraPin,           \* level the camera board drives on RXD_PIN_S3sense
  fallPin,             \* level of FALLOUT_PIN_BLUP: 1 once the pin is pulled out
  bnoReady,            \* s_bnoReady: the IMU answered at start-up
  impact,              \* g_accel.z >= 30.0 in the last sample
  elapsed,             \* time since startTime in loop_FRYING
  coord,               \* g_coordlatitude, g_coordlongtitude
  writing,             \* the fix gpsTask is storing while it holds gps_mux, or {}
  bodySet,             \* g_bodyEast, g_bodyNorth hold a heading, not (0, 0)
  before,              \* position before the current manoeuvre
  pending,             \* coordinates of Stuck's arguments not yet read
  n,                   \* n of the running Stuck
  caller,              \* the call site Stuck or the current drive returns to
  gpsReady,            \* gpsReady of loop_main_RUN
  retry,               \* retry of the running GPS_STANBY
  Here,                \* Here
  DistanceABS,         \* DistanceABS of loop_main_RUN: length of the last drive
  DistanceNumberABS,   \* DistanceNumberABS: distance to the goal
  ESP32S3              \* ESP32S3: the cone is in sight

envVars    == <<cameraPin, fallPin>>
imuVars    == <<bnoReady, impact>>
gpsVars    == <<coord, writing>>
manoeuvre  == <<before, pending, n, caller>>
runVars    == <<gpsReady, retry, Here, DistanceABS, DistanceNumberABS>>
vars == <<currentState, pc, out, cameraPin, fallPin, bnoReady, impact, elapsed,
          coord, writing, bodySet, before, pending, n, caller, gpsReady,
          retry, Here, DistanceABS, DistanceNumberABS, ESP32S3>>

CanSatState == {"STANDBY", "FRYING", "START", "RUN", "GOAL"}

-----------------------------------------------------------------------------
(***************************************************************************)
(* Output pins.                                                            *)
(***************************************************************************)
MotorPin == {"RMOTOR_FRONT", "RMOTOR_BACK", "LMOTOR_FRONT", "LMOTOR_BACK"}
OutPin   == MotorPin \cup {"NICROM", "TXD_S3"}
RXD_PIN_S3sense == 26  \* the number of the pin, not its level

\* gpio_set_level: `lows' to 0, then `highs' to 1, the other pins kept.
SetLevel(lows, highs) ==
  [p \in OutPin |-> IF p \in highs THEN 1 ELSE IF p \in lows THEN 0 ELSE out[p]]

SpinLeft  == {"RMOTOR_FRONT", "LMOTOR_BACK"}
SpinRight == {"RMOTOR_BACK", "LMOTOR_FRONT"}
Ahead     == {"RMOTOR_FRONT", "LMOTOR_FRONT"}
RightOnly == {"RMOTOR_FRONT", "RMOTOR_BACK"}  \* what ProGram_RUN.cpp drives with

HighMotors == {p \in MotorPin : out[p] = 1}

-----------------------------------------------------------------------------
(***************************************************************************)
(* Distances.  The programs compare sqrt(dlat^2 + dlon^2), in degrees,     *)
(* with four thresholds; a distance is the number of them that it reaches, *)
(* so that d < 0.5 reads d < Half.  999.0f, the start value, reaches all.  *)
(***************************************************************************)
Moved == 1   \* 0.00005
Half  == 2   \* 0.5
One   == 3   \* 1.0
Three == 4   \* 3.0
Distance == 0..Three

\* The two bounds on each coordinate keep the squares inside 32 bits.
Within(p, q, r) ==
  LET dlat == p.lat - q.lat
      dlon == p.lon - q.lon
  IN  /\ -r < dlat /\ dlat < r
      /\ -r < dlon /\ dlon < r
      /\ dlat * dlat + dlon * dlon < r * r

Dist(p, q) == IF p = q THEN 0
              ELSE IF Within(p, q, 5000) THEN Moved
              ELSE IF Within(p, q, 10000) THEN Half
              ELSE IF Within(p, q, 30000) THEN One
              ELSE Three

-----------------------------------------------------------------------------
(***************************************************************************)
(* The main task.                                                          *)
(***************************************************************************)

\* The switch of CanSat_state_logic has selected the program of state s.
Selected(s) == pc = "switch" /\ currentState = s

Goto(from, to) == pc = from /\ pc' = to

\* gps_mux is free; gpsTask holds it from its first store to its second.
MuxFree == writing = {}
=============================================================================
