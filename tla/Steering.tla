------------------------------ MODULE Steering ------------------------------
(***************************************************************************)
(* The geometry of ProGram_RUN.cpp, which Run reduces to the turns it can  *)
(* end in: Cul_NAVVec, LotateCul and loop_Make_Body_lotate, with the       *)
(* heading that the IMU reports.                                           *)
(*                                                                         *)
(* Vectors have one of eight directions, and components of -1, 0 and 1:    *)
(* their length matters to no angle.  Angles are in degrees.  (0, 0) is    *)
(* the body vector before a calibration, and Nav at the target.            *)
(***************************************************************************)
EXTENDS Imu

CONSTANTS Headings   \* the headings of the rover, clockwise from north

ASSUME HeadingAssumption == Headings \subseteq 0..359

VARIABLES
  body,          \* g_bodyEast, g_bodyNorth
  Nav,           \* Nav: x points north, along the latitude, and y east
  heading,       \* where the rover was heading at the last turn
  yaw,           \* what getYaw returned for it
  lotate_degree,
  turn           \* the branch of loop_Make_Body_lotate

steerVars == <<body, Nav, heading, yaw, lotate_degree, turn>>
vars == <<imuVars, steerVars>>

Angle == {-135, -90, -45, 0, 45, 90, 135, 180}

\* The signs of sine and cosine.
Sin(a) == IF a \in {45, 90, 135} THEN 1 ELSE IF a \in {0, 180} THEN 0 ELSE -1
Cos(a) == IF a \in {-45, 0, 45} THEN 1 ELSE IF a \in {-90, 90} THEN 0 ELSE -1
Sign(x) == IF x > 0 THEN 1 ELSE IF x < 0 THEN -1 ELSE 0

\* std::atan2, in degrees, on the vectors of the eight directions.
Atan2(y, x) == CHOOSE a \in Angle : Sin(a) = Sign(y) /\ Cos(a) = Sign(x)

BodyOf(bearing) == [east |-> Sin(bearing), north |-> Cos(bearing)]
NavOf(bearing)  == [x |-> Cos(bearing), y |-> Sin(bearing)]
NoBody == [east |-> 0, north |-> 0]
NoNav  == [x |-> 0, y |-> 0]

-----------------------------------------------------------------------------
\* Seeded fault: the terms of the cross product change places.
LotateCul_Swapped(nav) ==
  LET dot   == nav.x * body.east + nav.y * body.north
      cross == nav.y * body.east - nav.x * body.north
  IN  IF dot = 0 /\ cross = 0 THEN {0, 180} ELSE {Atan2(cross, dot)}

\* If either vector is (0, 0), the signs of the zeros decide between 0 and 180, and if
\* one is the opposite of the other, between 180 and -180.
LotateCul(nav) ==
  LET dot   == nav.x * body.east + nav.y * body.north
      cross == nav.x * body.north - nav.y * body.east
  IN  IF dot = 0 /\ cross = 0 THEN {0, 180}
      ELSE IF cross = 0 /\ dot < 0 THEN {-180, 180}
      ELSE {Atan2(cross, dot)}

\* Seeded fault: the sum is brought back to -180..180.
LotateNumber_Folded == ((yaw' + lotate_degree' + 180) % 360) - 180

LotateNumber == yaw' + lotate_degree'

Turn == IF LotateNumber \in -2..2 THEN "stop"
        ELSE IF LotateNumber > 2 THEN "right" ELSE "left"

\* NavVector: Cul_NAVVec, LotateCul, loop_Make_Body_lotate.
Navigate ==
  /\ Booted
  /\ Nav' \in {NavOf(b) : b \in Angle} \cup {NoNav}
  /\ lotate_degree' \in LotateCul(Nav')
  /\ heading' \in Headings
  /\ yaw' = getYaw(heading')
  /\ turn' = Turn
  /\ UNCHANGED <<imuVars, body>>

\* calibrateBodyVector, when its drive has moved the rover.  It is done once.
Calibrate ==
  /\ Booted
  /\ body = NoBody /\ turn = "none"
  /\ body' \in {BodyOf(b) : b \in Angle}
  /\ UNCHANGED <<imuVars, Nav, heading, yaw, lotate_degree, turn>>

Init ==
  /\ ImuInit
  /\ body = NoBody /\ Nav = NoNav
  /\ heading \in Headings /\ yaw = 0
  /\ lotate_degree = 0 /\ turn = "none"

Next ==
  \/ (InitImu \/ ImuWorld \/ \E high \in BOOLEAN : UpdateAccel(high)) /\ UNCHANGED steerVars
  \/ Navigate \/ Calibrate

\* Of initImu, and of the chip, which boots in less than a second.
Spec == Init /\ [][Next]_vars
        /\ WF_vars(InitImu /\ UNCHANGED steerVars)
        /\ WF_vars(ChipBoots /\ UNCHANGED steerVars)

-----------------------------------------------------------------------------
\* Every variable has its type.
TypeOK ==
  /\ ImuTypeOK
  /\ body \in [east : -1..1, north : -1..1] /\ Nav \in [x : -1..1, y : -1..1]
  /\ heading \in Headings /\ yaw \in Headings \cup {0}
  /\ lotate_degree \in Angle \cup {-180}
  /\ turn \in {"none", "stop", "right", "left"}

\* Run takes over the turns that are possible, and only those: a rover without a
\* body vector never turns "left".
TurnAsInRun == body = NoBody => turn # "left"

\* The yaw is in 0..360 and lotate_degree in -180..180.  Their sum is not brought
\* back to one turn, so no heading ends a turn by more than 2 degrees that
\* lotate_degree asks for: the rover spins on in the one direction.
PositiveNeverStops == lotate_degree > 2 => turn = "right"

\* Where a rover with a heading and a body vector takes its correction to be done:
\* not where the target is, but at the bearing of the body, of the time of its
\* calibration, plus that of the target less 90 degrees.
Bearing(v) == CHOOSE b \in Angle : Cos(b) = v[1] /\ Sin(b) = v[2]
Off(a) == IF (a % 360) > 180 THEN 360 - (a % 360) ELSE a % 360
StopsMirrored ==
  turn = "stop" /\ body # NoBody /\ Nav # NoNav /\ yaw = heading =>
    Off(heading - (Bearing(<<body.north, body.east>>)
                     + Bearing(<<Nav.x, Nav.y>>) - 90)) <= 2

\* main/ProGram_RUN.cpp:23 and :146: Nav is the direction of the target, and the
\* correction of the body's direction is reported as ended.
StopFacesTarget ==
  turn = "stop" /\ body # NoBody /\ Nav # NoNav /\ yaw = heading =>
    Off(heading - Bearing(<<Nav.x, Nav.y>>)) <= 2
=============================================================================
