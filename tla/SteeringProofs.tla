--------------------------- MODULE SteeringProofs ---------------------------
(***************************************************************************)
(* The safety properties of Imu and Steering, for any number of tries and  *)
(* any headings.                                                           *)
(*                                                                         *)
(* ReadyFuses speaks of the end of initImu; what it rests on is what each  *)
(* step before it leaves in the chip and in the two variables that carry   *)
(* the mode over the change of the clock (FusionInv).                      *)
(***************************************************************************)
EXTENDS Steering, TLAPS

\* The mode that is to be restored, and, if nothing went wrong behind the code, the
\* state of the chip.
FusionInv ==
  /\ ready => at = "ready"
  /\ at = "crystal_config" => opMode = "NDOF"
  /\ at \in {"crystal_on", "crystal_mode"} => modeback = "NDOF"
  /\ ~disturbed =>
       /\ at \in {"await", "crystal_on", "crystal_mode"} => chip.mode = "CONFIG"
       /\ at \in {"crystal_mode", "ready"} => chip.crystal
       /\ at = "ready" => chip.mode = "NDOF"
       /\ at \in {"trigger", "start", "crystal_config", "crystal_on", "crystal_mode",
                 "ready"} => chip.power = "up"

ChipType == chip \in [power : {"off", "booting", "up"}, mode : Mode, crystal : BOOLEAN]

\* The turn and the sum it was made by.
TurnInv == TurnAsInRun /\ PositiveNeverStops

BodyType == body \in [east : -1..1, north : -1..1]

SteeringInv == ChipType /\ FusionInv /\ BodyType /\ TurnInv

-----------------------------------------------------------------------------
\* What a write can do to the chip.
LEMMA WriteType ==
  ASSUME ChipType, NEW effect, Write(effect),
         effect \in [power : {"off", "booting", "up"}, mode : Mode, crystal : BOOLEAN]
  PROVE  ChipType'
BY DEF Write, ChipType

LEMMA EffectTypes ==
  ASSUME ChipType
  PROVE  /\ \A m : InMode(m).power = chip.power
         /\ \A on : OnCrystal(on).power = chip.power
         /\ \A p \in {"off", "booting", "up"} :
              Woken(p) \in [power : {"off", "booting", "up"}, mode : Mode, crystal : BOOLEAN]
         /\ \A m \in Mode :
              InMode(m) \in [power : {"off", "booting", "up"}, mode : Mode, crystal : BOOLEAN]
         /\ \A on \in BOOLEAN :
              OnCrystal(on) \in [power : {"off", "booting", "up"}, mode : Mode,
                                 crystal : BOOLEAN]
BY DEF ChipType, Woken, InMode, OnCrystal, Mode

\* The steps of initImu.
LEMMA InitImuFuses == ChipType /\ FusionInv /\ InitImu => ChipType' /\ FusionInv'
<1>. SUFFICES ASSUME ChipType, FusionInv, InitImu
              PROVE  ChipType' /\ FusionInv'
  OBVIOUS
<1>. USE DEF driverVars, Step
<1>1. CASE Detect \/ NotDetected \/ CheckId \/ AwaitReset
  BY <1>1 DEF Detect, NotDetected, CheckId, AwaitReset, Answers, ChipType, FusionInv
<1>2. CASE Configure
  <2>1. ChipType'
    BY <1>2, WriteType, EffectTypes DEF Configure, SetMode, Mode
  <2>. QED
    BY <1>2, <2>1 DEF Configure, SetMode, Write, FusionInv
<1>3. CASE Reset
  <2>1. ChipType'
    BY <1>3, WriteType, EffectTypes DEF Reset
  <2>. QED
    BY <1>3, <2>1 DEF Reset, Write, Woken, FusionInv
<1>4. CASE ClearTrigger
  <2>1. ChipType'
    BY <1>4, WriteType, EffectTypes DEF ClearTrigger
  <2>. QED
    BY <1>4, <2>1, EffectTypes DEF ClearTrigger, Write, FusionInv
<1>5. CASE StartFusion
  <2>1. ChipType'
    BY <1>5, WriteType, EffectTypes DEF StartFusion, SetMode, Mode
  <2>. QED
    BY <1>5, <2>1, EffectTypes DEF StartFusion, SetMode, Write, FusionInv
<1>6. CASE CrystalConfig
  <2>1. ChipType'
    BY <1>6, WriteType, EffectTypes DEF CrystalConfig, SetMode, Mode
  <2>2. (chip' = InMode("CONFIG") /\ disturbed' = disturbed) \/ disturbed'
    BY <1>6 DEF CrystalConfig, SetMode, Write
  <2>3. chip' = InMode("CONFIG") => chip'.mode = "CONFIG"
    BY DEF InMode, ChipType
  <2>. QED
    BY <1>6, <2>1, <2>2, <2>3, EffectTypes DEF CrystalConfig, SetMode, FusionInv
<1>7. CASE CrystalOn
  <2>1. ChipType'
    BY <1>7, WriteType, EffectTypes DEF CrystalOn
  <2>2. (chip' = OnCrystal(TRUE) /\ disturbed' = disturbed) \/ disturbed'
    BY <1>7 DEF CrystalOn, Write
  <2>3. chip' = OnCrystal(TRUE) /\ chip.mode = "CONFIG"
          => chip'.mode = "CONFIG" /\ chip'.crystal
    BY DEF OnCrystal, ChipType
  <2>. QED
    BY <1>7, <2>1, <2>2, <2>3, EffectTypes DEF CrystalOn, FusionInv
<1>8. CASE CrystalMode
  <2>1. modeback = "NDOF"
    BY <1>8 DEF CrystalMode, FusionInv
  <2>2. ChipType'
    BY <1>8, <2>1, WriteType, EffectTypes DEF CrystalMode, Mode
  <2>3. (chip' = InMode("NDOF") /\ disturbed' = disturbed) \/ disturbed'
    BY <1>8, <2>1 DEF CrystalMode, Write
  <2>4. chip' = InMode("NDOF") => chip'.mode = "NDOF" /\ chip'.crystal = chip.crystal
    BY DEF InMode, ChipType
  <2>. QED
    BY <1>8, <2>2, <2>3, <2>4, EffectTypes DEF CrystalMode, FusionInv
<1>. QED
  BY <1>1, <1>2, <1>3, <1>4, <1>5, <1>6, <1>7, <1>8 DEF InitImu

\* The chip and the bus: a reset behind the code is remembered where it matters.
LEMMA WorldFuses == ChipType /\ FusionInv /\ ImuWorld => ChipType' /\ FusionInv'
<1>. SUFFICES ASSUME ChipType, FusionInv, ImuWorld
              PROVE  ChipType' /\ FusionInv'
  OBVIOUS
<1>. USE DEF driverVars
<1>1. CASE PowerLost
  <2>1. ChipType' /\ chip'.mode = "CONFIG"
    BY <1>1 DEF PowerLost, Woken, ChipType, Mode
  <2>. QED
    BY <1>1, <2>1 DEF PowerLost, FusionInv
<1>2. CASE PowerBack
  <2>1. ChipType' /\ chip'.mode = "CONFIG" /\ chip'.crystal = FALSE
    BY <1>2 DEF PowerBack, Woken, ChipType, Mode
  <2>. QED
    BY <1>2, <2>1 DEF PowerBack, FusionInv
<1>3. CASE ChipBoots
  <2>1. ChipType' /\ chip'.mode = chip.mode /\ chip'.crystal = chip.crystal
      /\ chip'.power = "up"
    BY <1>3 DEF ChipBoots, ChipType
  <2>. QED
    BY <1>3, <2>1 DEF ChipBoots, FusionInv
<1>4. CASE BusChanges
  BY <1>4 DEF BusChanges, ChipType, FusionInv
<1>. QED
  BY <1>1, <1>2, <1>3, <1>4 DEF ImuWorld

-----------------------------------------------------------------------------
\* Every vector but (0, 0) has an angle.
LEMMA Atan2Type ==
  ASSUME NEW y \in Int, NEW x \in Int, ~(x = 0 /\ y = 0)
  PROVE  Atan2(y, x) \in Angle
<1>1. \E a \in Angle : Sin(a) = Sign(y) /\ Cos(a) = Sign(x)
  <2>1. CASE x > 0 /\ y > 0
    BY <2>1 DEF Sin, Cos, Sign, Angle
  <2>2. CASE x > 0 /\ y = 0
    BY <2>2 DEF Sin, Cos, Sign, Angle
  <2>3. CASE x > 0 /\ y < 0
    BY <2>3 DEF Sin, Cos, Sign, Angle
  <2>4. CASE x = 0 /\ y > 0
    BY <2>4 DEF Sin, Cos, Sign, Angle
  <2>5. CASE x = 0 /\ y < 0
    BY <2>5 DEF Sin, Cos, Sign, Angle
  <2>6. CASE x < 0 /\ y > 0
    BY <2>6 DEF Sin, Cos, Sign, Angle
  <2>7. CASE x < 0 /\ y = 0
    BY <2>7 DEF Sin, Cos, Sign, Angle
  <2>8. CASE x < 0 /\ y < 0
    BY <2>8 DEF Sin, Cos, Sign, Angle
  <2>. QED
    BY <2>1, <2>2, <2>3, <2>4, <2>5, <2>6, <2>7, <2>8
<1>. QED
  BY <1>1 DEF Atan2

\* The turn: without a body vector the sum is not negative, and a lotate_degree of
\* more than 2 is not made up for by any yaw.
LEMMA NavigateTurn == BodyType /\ Navigate => TurnInv'
<1>. SUFFICES ASSUME BodyType, Navigate
              PROVE  TurnInv'
  OBVIOUS
<1>1. Nav' \in [x : -1..1, y : -1..1]
  BY DEF Navigate, NavOf, NoNav, Sin, Cos, Angle
<1>. DEFINE dot   == Nav'.x * body.east + Nav'.y * body.north
            cross == Nav'.x * body.north - Nav'.y * body.east
<1>2. body.east \in -1..1 /\ body.north \in -1..1 /\ Nav'.x \in -1..1 /\ Nav'.y \in -1..1
  BY <1>1 DEF BodyType
<1>m. \A a, b \in -1..1 : a * b \in -1..1
  OBVIOUS
<1>3. dot \in Int /\ cross \in Int
  <2>1. /\ Nav'.x * body.east \in -1..1 /\ Nav'.y * body.north \in -1..1
        /\ Nav'.x * body.north \in -1..1 /\ Nav'.y * body.east \in -1..1
    BY <1>2, <1>m, Zenon
  <2>. QED
    BY <2>1
<1>4. body = NoBody => dot = 0 /\ cross = 0
  BY <1>2 DEF NoBody
<1>. HIDE DEF dot, cross
<1>5. lotate_degree' \in IF dot = 0 /\ cross = 0 THEN {0, 180}
                         ELSE {Atan2(cross, dot), -180, 180}
  BY DEF Navigate, LotateCul, dot, cross
<1>6. /\ lotate_degree' \in Angle \cup {-180}
      /\ body = NoBody => lotate_degree' \in {0, 180}
  BY <1>3, <1>4, <1>5, Atan2Type DEF Angle
<1>7. yaw' \in 0..359 /\ turn' = Turn /\ body' = body
  BY HeadingAssumption DEF Navigate, getYaw
<1>8. lotate_degree' \in -180..180
  BY <1>6 DEF Angle
<1>t. turn' = IF LotateNumber \in -2..2 THEN "stop"
              ELSE IF LotateNumber > 2 THEN "right" ELSE "left"
  BY <1>7 DEF Turn
<1>s. ASSUME NEW y \in 0..359, NEW l \in -180..180
      PROVE  /\ l > 2 => y + l > 2 /\ y + l \notin -2..2
             /\ l \in {0, 180} => y + l > 2 \/ y + l \in -2..2
  OBVIOUS
<1>9. /\ lotate_degree' > 2 => LotateNumber > 2 /\ LotateNumber \notin -2..2
      /\ lotate_degree' \in {0, 180} => LotateNumber > 2 \/ LotateNumber \in -2..2
  BY <1>7, <1>8, <1>s, Zenon DEF LotateNumber
<1>10. /\ lotate_degree' > 2 => turn' = "right"
       /\ lotate_degree' \in {0, 180} => turn' # "left"
  BY <1>t, <1>9
<1>. QED
  BY <1>6, <1>7, <1>10 DEF TurnInv, TurnAsInRun, PositiveNeverStops

\* Every step keeps the invariant.
LEMMA NextSteering == SteeringInv /\ [Next]_vars => SteeringInv'
<1>. SUFFICES ASSUME SteeringInv, [Next]_vars
              PROVE  SteeringInv'
  OBVIOUS
<1>. USE DEF SteeringInv, driverVars, imuVars, steerVars
<1>s. UNCHANGED steerVars => BodyType' /\ TurnInv'
  BY DEF BodyType, TurnInv, TurnAsInRun, PositiveNeverStops
<1>i. UNCHANGED imuVars => ChipType' /\ FusionInv'
  BY DEF ChipType, FusionInv
<1>1. CASE InitImu /\ UNCHANGED steerVars
  BY <1>1, <1>s, InitImuFuses
<1>2. CASE ImuWorld /\ UNCHANGED steerVars
  BY <1>2, <1>s, WorldFuses
<1>3. ASSUME NEW high \in BOOLEAN, UpdateAccel(high), UNCHANGED steerVars
      PROVE  SteeringInv'
  <2>2. ChipType' /\ FusionInv'
    BY <1>3 DEF UpdateAccel, ChipType, FusionInv
  <2>. QED
    BY <1>3, <1>s, <2>2
<1>4. CASE Navigate
  <2>1. UNCHANGED imuVars /\ UNCHANGED body
    BY <1>4 DEF Navigate
  <2>2. BodyType'
    BY <2>1 DEF BodyType
  <2>. QED
    BY <1>4, <1>i, <2>1, <2>2, NavigateTurn
<1>5. CASE Calibrate
  <2>1. BodyType'
    BY <1>5 DEF Calibrate, BodyType, BodyOf, Sin, Cos, Angle
  <2>2. TurnInv'
    BY <1>5 DEF Calibrate, TurnInv, TurnAsInRun, PositiveNeverStops
  <2>. QED
    BY <1>5, <1>i, <2>1, <2>2 DEF Calibrate
<1>6. CASE UNCHANGED vars
  BY <1>6, <1>i, <1>s DEF vars
<1>. QED
  BY <1>1, <1>2, <1>3, <1>4, <1>5, <1>6 DEF Next

\* At reset nothing has been read and nothing turned.
LEMMA InitSteering == Init => SteeringInv
<1>. SUFFICES ASSUME Init
              PROVE  SteeringInv
  OBVIOUS
<1>1. ChipType /\ FusionInv
  BY DEF Init, ImuInit, ChipType, FusionInv, Mode
<1>2. BodyType /\ TurnInv
  BY DEF Init, BodyType, NoBody, TurnInv, TurnAsInRun, PositiveNeverStops
<1>. QED
  BY <1>1, <1>2 DEF SteeringInv

THEOREM SteeringInvariant == Spec => []SteeringInv
BY InitSteering, NextSteering, PTL DEF Spec

\* s_bnoReady means that the chip fuses, on its crystal, as long as no write was
\* lost and nothing reset the chip behind the code.
THEOREM FusesWhenReady == Spec => []ReadyFuses
<1>1. SteeringInv => ReadyFuses
  BY DEF SteeringInv, FusionInv, ReadyFuses
<1>. QED
  BY <1>1, SteeringInvariant, PTL

\* For every heading: no yaw ends a turn by more than 2 degrees.
THEOREM TurnsOneWay == Spec => []PositiveNeverStops
<1>1. SteeringInv => PositiveNeverStops
  BY DEF SteeringInv, TurnInv
<1>. QED
  BY <1>1, SteeringInvariant, PTL

\* The turns that Run chooses from are all that a rover without a vector can make.
THEOREM TurnsAsInRun == Spec => []TurnAsInRun
<1>1. SteeringInv => TurnAsInRun
  BY DEF SteeringInv, TurnInv
<1>. QED
  BY <1>1, SteeringInvariant, PTL

-----------------------------------------------------------------------------
(***************************************************************************)
(* Types, and the geometry of a turn that stops.                           *)
(***************************************************************************)

\* The vectors have one of the eight directions, or none.
VectorInv ==
  /\ body \in {BodyOf(b) : b \in Angle} \cup {NoBody}
  /\ Nav \in {NavOf(b) : b \in Angle} \cup {NoNav}

\* initImu and the samples keep the types of the driver.
LEMMA ImuTypes ==
  ASSUME ImuTypeOK, InitImu \/ ImuWorld \/ \E high \in BOOLEAN : UpdateAccel(high)
  PROVE  ImuTypeOK'
<1>. USE DEF driverVars, Step
<1>t. ChipType /\ "CONFIG" \in Mode /\ "NDOF" \in Mode
  BY DEF ImuTypeOK, ChipType, Mode
<1>d. DetectTries \in Nat
  BY DetectAssumption
<1>1. CASE Detect \/ NotDetected \/ CheckId \/ AwaitReset
  BY <1>1, <1>d DEF Detect, NotDetected, CheckId, AwaitReset, ImuTypeOK, ImuPlace
<1>2. ASSUME NEW m \in Mode, NEW from, NEW to \in ImuPlace, SetMode(m, from, to),
             modeback' \in Mode
      PROVE  ImuTypeOK'
  <2>1. ChipType' /\ disturbed' \in BOOLEAN
    BY <1>2, <1>t, WriteType, EffectTypes DEF SetMode, Write, ImuTypeOK
  <2>. QED
    BY <1>2, <2>1 DEF SetMode, ImuTypeOK, ChipType
<1>3. CASE Configure \/ StartFusion
  <2>1. modeback' \in Mode
    BY <1>3 DEF Configure, StartFusion, ImuTypeOK
  <2>. QED
    BY <1>2, <1>3, <1>t, <2>1 DEF Configure, StartFusion, ImuPlace
<1>4. CASE CrystalConfig
  <2>1. modeback' \in Mode
    BY <1>4 DEF CrystalConfig, ImuTypeOK
  <2>. QED
    BY <1>2, <1>4, <1>t, <2>1 DEF CrystalConfig, ImuPlace
<1>5. CASE Reset \/ ClearTrigger \/ CrystalOn
  <2>1. ChipType' /\ disturbed' \in BOOLEAN
    BY <1>5, <1>t, WriteType, EffectTypes
       DEF Reset, ClearTrigger, CrystalOn, Write, ImuTypeOK
  <2>. QED
    BY <1>5, <2>1 DEF Reset, ClearTrigger, CrystalOn, ImuTypeOK, ImuPlace, ChipType
<1>6. CASE CrystalMode
  <2>0. modeback \in Mode
    BY DEF ImuTypeOK
  <2>1. ChipType' /\ disturbed' \in BOOLEAN
    BY <1>6, <1>t, <2>0, WriteType, EffectTypes DEF CrystalMode, Write, ImuTypeOK
  <2>. QED
    BY <1>6, <2>1 DEF CrystalMode, ImuTypeOK, ImuPlace, ChipType
<1>7. CASE ImuWorld
  <2>1. ChipType'
    BY <1>7, <1>t, EffectTypes
       DEF ImuWorld, PowerLost, PowerBack, ChipBoots, BusChanges, ChipType
  <2>2. disturbed' \in BOOLEAN /\ bus' \in BOOLEAN
    BY <1>7 DEF ImuWorld, PowerLost, PowerBack, ChipBoots, BusChanges, ImuTypeOK
  <2>3. UNCHANGED <<at, tries, opMode, modeback, ready, impact>>
    BY <1>7 DEF ImuWorld, PowerLost, PowerBack, ChipBoots, BusChanges
  <2>. QED
    BY <2>1, <2>2, <2>3 DEF ImuTypeOK, ChipType
<1>8. ASSUME NEW high \in BOOLEAN, UpdateAccel(high)
      PROVE  ImuTypeOK'
  BY <1>8 DEF UpdateAccel, ImuTypeOK, Measures, Answers
<1>. QED
  BY <1>1, <1>3, <1>4, <1>5, <1>6, <1>7, <1>8 DEF InitImu

\* Every direction is given by the signs of its sine and cosine,
LEMMA Directions ==
  ASSUME NEW a \in Angle, NEW c \in Angle, Sin(a) = Sin(c), Cos(a) = Cos(c)
  PROVE  a = c
BY DEF Angle, Sin, Cos

\* so that what CHOOSE picks is that direction.
LEMMA Atan2Is ==
  ASSUME NEW a \in Angle, NEW y, NEW x, Sin(a) = Sign(y), Cos(a) = Sign(x)
  PROVE  Atan2(y, x) = a
<1>1. \A c \in Angle : Sin(c) = Sign(y) /\ Cos(c) = Sign(x) => c = a
  BY Directions
<1>. QED
  BY <1>1, Zenon DEF Atan2

LEMMA BearingIs ==
  ASSUME NEW a \in Angle
  PROVE  Bearing(<<Cos(a), Sin(a)>>) = a
<1>1. \A c \in Angle : Cos(c) = <<Cos(a), Sin(a)>>[1] /\ Sin(c) = <<Cos(a), Sin(a)>>[2]
                         => c = a
  BY Directions
<1>2. Cos(a) = <<Cos(a), Sin(a)>>[1] /\ Sin(a) = <<Cos(a), Sin(a)>>[2]
  OBVIOUS
<1>. QED
  BY <1>1, <1>2, Zenon DEF Bearing

\* The angle of LotateCul: north and east have changed places in it, and the angle
\* between the vectors has become 90 degrees less the sum of their bearings.
LEMMA Mirror ==
  ASSUME NEW b \in Angle, NEW n \in Angle
  PROVE  \E k \in {-1, 0, 1} :
           Atan2(Cos(n) * Cos(b) - Sin(n) * Sin(b), Cos(n) * Sin(b) + Sin(n) * Cos(b))
             = 90 - (b + n) + 360 * k
<1>. DEFINE cross == Cos(n) * Cos(b) - Sin(n) * Sin(b)
            dot == Cos(n) * Sin(b) + Sin(n) * Cos(b)
<1>1. \E k \in {-1, 0, 1} :
        /\ 90 - (b + n) + 360 * k \in Angle
        /\ Sin(90 - (b + n) + 360 * k) = Sign(cross)
        /\ Cos(90 - (b + n) + 360 * k) = Sign(dot)
  <2>. USE DEF Angle, Sin, Cos, Sign
  <2>1. CASE b = -135
    BY <2>1
  <2>2. CASE b = -90
    BY <2>2
  <2>3. CASE b = -45
    BY <2>3
  <2>4. CASE b = 0
    BY <2>4
  <2>5. CASE b = 45
    BY <2>5
  <2>6. CASE b = 90
    BY <2>6
  <2>7. CASE b = 135
    BY <2>7
  <2>8. CASE b = 180
    BY <2>8
  <2>. QED
    BY <2>1, <2>2, <2>3, <2>4, <2>5, <2>6, <2>7, <2>8
<1>. HIDE DEF cross, dot
<1>2. \E k \in {-1, 0, 1} : Atan2(cross, dot) = 90 - (b + n) + 360 * k
  BY <1>1, Atan2Is
<1>. QED
  BY <1>2 DEF cross, dot

\* Adding a whole turn to an angle does not change how far it is off.
LEMMA WholeTurn ==
  ASSUME NEW x \in -2..2, NEW k \in {-1, 0, 1}
  PROVE  Off(x + 360 * k) <= 2
BY DEF Off

\* The angle that LotateCul gives to a rover that has its vector, with a target.
LEMMA NavigateAngle ==
  ASSUME Navigate, NEW b \in Angle, NEW n \in Angle, body = BodyOf(b), Nav' = NavOf(n)
  PROVE  \E k \in {-1, 0, 1} : lotate_degree' = 90 - (b + n) + 360 * k
<1>. DEFINE cross == Cos(n) * Cos(b) - Sin(n) * Sin(b)
            dot == Cos(n) * Sin(b) + Sin(n) * Cos(b)
<1>1. ~(dot = 0 /\ cross = 0)
  BY DEF Angle, Sin, Cos
<1>2. LotateCul(Nav') = IF cross = 0 /\ dot < 0 THEN {-180, 180} ELSE {Atan2(cross, dot)}
  <2>1. /\ Nav'.x = Cos(n) /\ Nav'.y = Sin(n)
        /\ body.east = Sin(b) /\ body.north = Cos(b)
    BY DEF BodyOf, NavOf
  <2>2. LotateCul(Nav') = IF dot = 0 /\ cross = 0 THEN {0, 180}
                          ELSE IF cross = 0 /\ dot < 0 THEN {-180, 180}
                          ELSE {Atan2(cross, dot)}
    BY <2>1 DEF LotateCul
  <2>. QED
    BY <1>1, <2>2
<1>3. PICK k \in {-1, 0, 1} : Atan2(cross, dot) = 90 - (b + n) + 360 * k
  BY Mirror
<1>d. dot \in -2..2
  BY DEF Angle, Sin, Cos
<1>. HIDE DEF cross, dot
<1>4. CASE cross = 0 /\ dot < 0
  <2>1. Atan2(cross, dot) = 180
    <3>1. 180 \in Angle /\ Sin(180) = Sign(cross) /\ Cos(180) = Sign(dot)
      BY <1>4, <1>d DEF Angle, Sin, Cos, Sign
    <3>. QED
      BY <3>1, Atan2Is
  <2>2. b + n \in -270..360
    BY DEF Angle
  <2>3. k # -1 /\ -180 = 90 - (b + n) + 360 * (k - 1)
    BY <1>3, <2>1, <2>2
  <2>4. lotate_degree' = 180 \/ lotate_degree' = -180
    BY <1>2, <1>4 DEF Navigate
  <2>5. k - 1 \in {-1, 0, 1}
    BY <2>3
  <2>. QED
    BY <1>3, <2>1, <2>3, <2>4, <2>5
<1>5. CASE ~(cross = 0 /\ dot < 0)
  <2>1. lotate_degree' = Atan2(cross, dot)
    BY <1>2, <1>5 DEF Navigate
  <2>. QED
    BY <1>3, <2>1
<1>. QED
  BY <1>4, <1>5

\* Where a turn stops: LotateNumber is the heading less the mirrored bearing, but for
\* whole turns.
LEMMA NavigateMirrors ==
  ASSUME VectorInv, Navigate
  PROVE  StopsMirrored'
<1>. SUFFICES ASSUME turn' = "stop", body' # NoBody, Nav' # NoNav, yaw' = heading'
              PROVE  Off(heading' - (Bearing(<<body'.north, body'.east>>)
                                       + Bearing(<<Nav'.x, Nav'.y>>) - 90)) <= 2
  BY DEF StopsMirrored
<1>1. PICK b \in Angle : body = BodyOf(b) /\ body' = BodyOf(b)
  BY DEF VectorInv, Navigate
<1>2. PICK n \in Angle : Nav' = NavOf(n)
  BY DEF Navigate
<1>3. /\ Bearing(<<body'.north, body'.east>>) = b
      /\ Bearing(<<Nav'.x, Nav'.y>>) = n
  <2>1. body'.north = Cos(b) /\ body'.east = Sin(b) /\ Nav'.x = Cos(n) /\ Nav'.y = Sin(n)
    BY <1>1, <1>2 DEF BodyOf, NavOf
  <2>. QED
    BY <2>1, BearingIs
<1>4. PICK k \in {-1, 0, 1} : lotate_degree' = 90 - (b + n) + 360 * k
  BY <1>1, <1>2, NavigateAngle
<1>5. b \in Int /\ n \in Int /\ heading' \in Int
  BY HeadingAssumption DEF Angle, Navigate
<1>6. yaw' + lotate_degree' \in -2..2
  BY DEF Navigate, Turn, LotateNumber
<1>. DEFINE x == yaw' + lotate_degree'
<1>7. heading' - (b + n - 90) = x + 360 * (-k)
  BY <1>4, <1>5
<1>8. -k \in {-1, 0, 1}
  OBVIOUS
<1>. HIDE DEF x
<1>9. Off(x + 360 * (-k)) <= 2
  BY <1>6, <1>8, WholeTurn DEF x
<1>. QED
  BY <1>3, <1>7, <1>9

\* What a turn reads and makes of it has its type.
LEMMA NavigateTypes ==
  ASSUME TypeOK, VectorInv, Navigate
  PROVE  TypeOK' /\ VectorInv'
<1>1. VectorInv'
  BY DEF Navigate, VectorInv
<1>2. Nav' \in [x : -1..1, y : -1..1] /\ body' = body
  BY DEF Navigate, NavOf, NoNav, Sin, Cos, Angle
<1>3. lotate_degree' \in Angle \cup {-180}
  <2>. DEFINE dot   == Nav'.x * body.east + Nav'.y * body.north
              cross == Nav'.x * body.north - Nav'.y * body.east
  <2>1. dot \in Int /\ cross \in Int
    <3>1. /\ body.east \in -1..1 /\ body.north \in -1..1
          /\ Nav'.x \in -1..1 /\ Nav'.y \in -1..1
      BY <1>2 DEF TypeOK
    <3>2. \A a, b \in -1..1 : a * b \in -1..1
      OBVIOUS
    <3>3. /\ Nav'.x * body.east \in -1..1 /\ Nav'.y * body.north \in -1..1
          /\ Nav'.x * body.north \in -1..1 /\ Nav'.y * body.east \in -1..1
      BY <3>1, <3>2, Zenon
    <3>. QED
      BY <3>3
  <2>. HIDE DEF dot, cross
  <2>2. lotate_degree' \in IF dot = 0 /\ cross = 0 THEN {0, 180}
                           ELSE {Atan2(cross, dot), -180, 180}
    BY DEF Navigate, LotateCul, dot, cross
  <2>. QED
    BY <2>1, <2>2, Atan2Type DEF Angle
<1>4. UNCHANGED imuVars => ImuTypeOK' = ImuTypeOK
  BY DEF imuVars, driverVars, ImuTypeOK
<1>5. heading' \in Headings /\ yaw' \in Headings \cup {0}
  BY DEF Navigate, getYaw
<1>6. turn' \in {"none", "stop", "right", "left"}
  BY DEF Navigate, Turn
<1>. QED
  BY <1>1, <1>2, <1>3, <1>4, <1>5, <1>6 DEF TypeOK, Navigate

\* Every step keeps the types, the directions, and what is said of a stop.
LEMMA NextTypes ==
  ASSUME TypeOK, VectorInv, StopsMirrored, [Next]_vars
  PROVE  TypeOK' /\ VectorInv' /\ StopsMirrored'
<1>s. ASSUME UNCHANGED steerVars, ImuTypeOK'
      PROVE  TypeOK' /\ VectorInv' /\ StopsMirrored'
  BY <1>s DEF steerVars, TypeOK, VectorInv, StopsMirrored
<1>i. UNCHANGED imuVars => ImuTypeOK'
  BY DEF imuVars, driverVars, ImuTypeOK, TypeOK
<1>1. CASE /\ InitImu \/ ImuWorld \/ \E high \in BOOLEAN : UpdateAccel(high)
           /\ UNCHANGED steerVars
  BY <1>1, <1>s, ImuTypes DEF TypeOK
<1>2. CASE Navigate
  BY <1>2, NavigateTypes, NavigateMirrors
<1>3. CASE Calibrate
  <2>1. /\ UNCHANGED <<imuVars, Nav, heading, yaw, lotate_degree, turn>>
        /\ body' \in {BodyOf(b) : b \in Angle} /\ turn' = "none"
    BY <1>3 DEF Calibrate
  <2>2. body' \in [east : -1..1, north : -1..1]
    BY <2>1 DEF BodyOf, Sin, Cos, Angle
  <2>. QED
    BY <1>i, <2>1, <2>2 DEF TypeOK, VectorInv, StopsMirrored
<1>4. CASE UNCHANGED vars
  BY <1>4, <1>i, <1>s DEF vars
<1>. QED
  BY <1>1, <1>2, <1>3, <1>4 DEF Next

LEMMA InitTypes == Init => TypeOK /\ VectorInv /\ StopsMirrored
<1>. SUFFICES ASSUME Init
              PROVE  TypeOK /\ VectorInv /\ StopsMirrored
  OBVIOUS
<1>1. ImuTypeOK
  <2>1. DetectTries \in 0..DetectTries
    BY DetectAssumption
  <2>2. chip \in [power : {"off", "booting", "up"}, mode : Mode, crystal : BOOLEAN]
    BY DEF Init, ImuInit, Mode
  <2>. QED
    BY <2>1, <2>2 DEF Init, ImuInit, ImuTypeOK, ImuPlace, Mode
<1>. QED
  BY <1>1 DEF Init, TypeOK, VectorInv, StopsMirrored, NoBody, NoNav, Angle

LEMMA TypesInvariant == Spec => [](TypeOK /\ VectorInv /\ StopsMirrored)
BY InitTypes, NextTypes, PTL DEF Spec

\* Type correctness, with the steps of the chip and of the bus.
THEOREM SteeringTypeCorrect == Spec => []TypeOK
BY TypesInvariant, PTL

\* For every heading, and every direction of the body and of the target: a correction
\* that ends by the chip's heading ends at the mirrored bearing.
THEOREM StopsAtMirror == Spec => []StopsMirrored
BY TypesInvariant, PTL

=============================================================================
