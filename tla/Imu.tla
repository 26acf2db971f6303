-------------------------------- MODULE Imu --------------------------------
(***************************************************************************)
(* 九軸センサー専用コード.cpp and the part of Adafruit_BNO055 it calls:     *)
(* initImu finds the BNO055, resets it, puts it into the fusion mode and   *)
(* changes it over to its crystal; updateAccel and getYaw read it.         *)
(*                                                                         *)
(* No result of a write or of a read is looked at.  The chip may lose its  *)
(* power, and the bus may fail, at any moment; the chip keeps its mode     *)
(* when the ESP32 alone is reset.                                          *)
(***************************************************************************)
EXTENDS Integers

CONSTANTS DetectTries    \* the 850 ms of begin, in its tries of 10 ms

ASSUME DetectAssumption == DetectTries \in Nat \ {0}

VARIABLES
  chip,       \* the BNO055: its power, its mode, and its clock
  bus,        \* does the bus work?
  at,         \* where the main task stands in initImu
  tries,      \* timeout of begin
  opMode,     \* _mode of the library
  modeback,   \* modeback of setExtCrystalUse
  ready,      \* s_bnoReady
  disturbed,  \* history: a write was lost, or the chip was reset behind the code
  impact      \* g_accel.z >= 30.0

driverVars == <<tries, opMode, modeback, ready>>
imuVars == <<chip, bus, at, driverVars, disturbed, impact>>

Mode == {"CONFIG", "NDOF"}

\* What setMode, the trigger and a reset do to the chip (external).  It takes a
\* new clock in the configuration mode only.
Woken(power) == [power |-> power, mode |-> "CONFIG", crystal |-> FALSE]
InMode(m) == [chip EXCEPT !.mode = m]
OnCrystal(on) == IF chip.mode = "CONFIG" THEN [chip EXCEPT !.crystal = on] ELSE chip

Answers == bus /\ chip.power = "up"

\* write8.  The result is ignored.
Write(effect) ==
  IF Answers
    THEN chip' = effect /\ UNCHANGED disturbed
    ELSE UNCHANGED chip /\ disturbed' = TRUE

Step(from, to) == at = from /\ at' = to

-----------------------------------------------------------------------------
(***************************************************************************)
(* Adafruit_BNO055::begin.                                                 *)
(***************************************************************************)

\* Seeded fault: the timeout is not counted down.
Detect_Untimed ==
  /\ at = "detect" /\ tries > 0
  /\ IF Answers THEN at' = "check_id" ELSE UNCHANGED at
  /\ UNCHANGED <<chip, bus, driverVars, disturbed, impact>>

\* Seeded fault: one try too many.
Detect_OneMore ==
  /\ at = "detect" /\ tries >= 0
  /\ IF Answers
       THEN at' = "check_id" /\ UNCHANGED tries
       ELSE tries' = tries - 1 /\ UNCHANGED at
  /\ UNCHANGED <<chip, bus, opMode, modeback, ready, disturbed, impact>>

\* i2c_dev->begin(): does the address answer?
Detect ==
  /\ at = "detect" /\ tries > 0
  /\ IF Answers
       THEN at' = "check_id" /\ UNCHANGED tries
       ELSE tries' = tries - 1 /\ UNCHANGED at
  /\ UNCHANGED <<chip, bus, opMode, modeback, ready, disturbed, impact>>

NotDetected ==
  /\ Step("detect", "failed")
  /\ tries = 0
  /\ UNCHANGED <<chip, bus, driverVars, disturbed, impact>>

\* A failed read leaves the number of the register, 0, in place of the id.  The
\* id is read a second time, a second later, before begin gives up.
CheckId ==
  /\ at \in {"check_id", "check_again"}
  /\ at' = IF Answers THEN "config" ELSE IF at = "check_id" THEN "check_again" ELSE "failed"
  /\ UNCHANGED <<chip, bus, driverVars, disturbed, impact>>

\* setMode, from one place to the next.
SetMode(m, from, to) ==
  /\ Step(from, to)
  /\ opMode' = m
  /\ Write(InMode(m))
  /\ UNCHANGED <<bus, tries, ready, impact>>

Configure == SetMode("CONFIG", "config", "reset") /\ UNCHANGED modeback

Reset ==
  /\ Step("reset", "await")
  /\ Write(Woken("booting"))
  /\ UNCHANGED <<bus, driverVars, impact>>

\* The loop has no timeout.
AwaitReset ==
  /\ Step("await", "trigger")
  /\ Answers
  /\ UNCHANGED <<chip, bus, driverVars, disturbed, impact>>

\* The power mode and the page are those the chip has after its reset.
ClearTrigger ==
  /\ Step("trigger", "start")
  /\ Write(OnCrystal(FALSE))
  /\ UNCHANGED <<bus, driverVars, impact>>

StartFusion == SetMode("NDOF", "start", "crystal_config") /\ UNCHANGED modeback

-----------------------------------------------------------------------------
(***************************************************************************)
(* setExtCrystalUse, and the end of initImu.                               *)
(***************************************************************************)

\* Seeded fault: the mode is remembered after it has been changed.
CrystalConfig_Late ==
  /\ modeback' = "CONFIG"
  /\ SetMode("CONFIG", "crystal_config", "crystal_on")

CrystalConfig ==
  /\ modeback' = opMode
  /\ SetMode("CONFIG", "crystal_config", "crystal_on")

CrystalOn ==
  /\ Step("crystal_on", "crystal_mode")
  /\ Write(OnCrystal(TRUE))
  /\ UNCHANGED <<bus, driverVars, impact>>

CrystalMode ==
  /\ Step("crystal_mode", "ready")
  /\ opMode' = modeback
  /\ Write(InMode(modeback))
  /\ ready' = TRUE
  /\ UNCHANGED <<bus, tries, modeback, impact>>

InitImu ==
  \/ Detect \/ NotDetected \/ CheckId \/ Configure \/ Reset \/ AwaitReset
  \/ ClearTrigger \/ StartFusion \/ CrystalConfig \/ CrystalOn \/ CrystalMode

-----------------------------------------------------------------------------
(***************************************************************************)
(* Reading.                                                                *)
(***************************************************************************)
Booted == at \in {"ready", "failed"}

\* getVector: the buffer is cleared, and a failed read leaves it so.  A chip in
\* the configuration mode has 0 in its registers (external).
Measures == Answers /\ chip.mode = "NDOF"

UpdateAccel(high) ==
  /\ Booted /\ ready
  /\ impact' = (Measures /\ high)
  /\ UNCHANGED <<chip, bus, at, driverVars, disturbed>>

\* In degrees, from 0 to 360, 0 being where the chip takes north to be.
getYaw(heading) == IF ready /\ Measures THEN heading ELSE 0

-----------------------------------------------------------------------------
(***************************************************************************)
(* The chip and the bus (external).                                        *)
(***************************************************************************)
PowerLost ==
  /\ chip.power # "off"
  /\ chip' = Woken("off")
  /\ disturbed' = (disturbed \/ at \in {"trigger", "start", "crystal_config",
                                        "crystal_on", "crystal_mode", "ready"})
  /\ UNCHANGED <<bus, at, driverVars, impact>>

PowerBack ==
  /\ chip.power = "off"
  /\ chip' = Woken("booting")
  /\ UNCHANGED <<bus, at, driverVars, disturbed, impact>>

ChipBoots ==
  /\ chip.power = "booting"
  /\ chip' = [chip EXCEPT !.power = "up"]
  /\ UNCHANGED <<bus, at, driverVars, disturbed, impact>>

BusChanges ==
  /\ bus' = ~bus
  /\ UNCHANGED <<chip, at, driverVars, disturbed, impact>>

ImuWorld == PowerLost \/ PowerBack \/ ChipBoots \/ BusChanges

ImuInit ==
  /\ chip \in [power : {"off", "booting"}, mode : {"CONFIG"}, crystal : {FALSE}]
           \cup [power : {"up"}, mode : Mode, crystal : BOOLEAN]
  /\ bus \in BOOLEAN
  /\ at = "detect" /\ tries = DetectTries
  /\ opMode = "CONFIG" /\ modeback = "CONFIG"
  /\ ready = FALSE /\ disturbed = FALSE
  /\ impact = FALSE

-----------------------------------------------------------------------------
(***************************************************************************)
(* Properties of the code.                                                 *)
(***************************************************************************)
ImuPlace == {"detect", "check_id", "check_again", "config", "reset", "await",
             "trigger", "start", "crystal_config", "crystal_on", "crystal_mode",
             "ready", "failed"}
ImuTypeOK ==
  /\ chip \in [power : {"off", "booting", "up"}, mode : Mode, crystal : BOOLEAN]
  /\ bus \in BOOLEAN
  /\ at \in ImuPlace
  /\ tries \in 0..DetectTries
  /\ opMode \in Mode /\ modeback \in Mode
  /\ ready \in BOOLEAN /\ disturbed \in BOOLEAN
  /\ impact \in BOOLEAN

\* s_bnoReady says that the chip is in the fusion mode, on its crystal, whatever
\* state it was found in and however slowly it came back from its reset; only a
\* write that was lost, or a reset of the chip behind the code, belies it.
ReadyFuses == ready /\ ~disturbed => chip.mode = "NDOF" /\ chip.crystal

\* initImu ends, with or without a chip, but for the one loop without a timeout:
\* a chip that no longer answers after its reset keeps the mission from starting.
InitEnds == <>Booted \/ (<>[](at = "await") /\ []<>~Answers)
=============================================================================
