# A TLA+ model of the CanSat 2026 flight software

The repository holds the firmware of a CanSat rover: it is carried up, separates
from its carrier, cuts its parachute with a nichrome wire, drives to a goal by GPS
and IMU, and looks for a cone with a camera board. The firmware is C++ on ESP-IDF
(FreeRTOS, two cores, 1000 Hz tick, reboot on panic). There is no README, no test
and no other document: the code, its comments and the telemetry texts it sends are
all there is, and the model is translated from the code.

This directory holds TLA+ modules of the flight software, TLC configurations that
check them on small instances, and proofs that the TLA+ proof system checks for
every value of the constants. `PROJECT.json` lists runs, theorems, hazards and, for
every definition, the source lines it stands for.

## 1. Inventory

| Component | Source | State it keeps | Operations |
|---|---|---|---|
| Boot, dispatch | `main/MainAction.cpp`, `main/CanSatState.cpp`, `main/CanSat_EachFileConnect.hpp`, `main/PIN_WIRE.hpp` | `currentState`; the output pins | `app_main`, `CanSat_state_logic` |
| STANDBY | `main/ProGram_STANDBY.cpp` | none of its own | `loop_STANBY` |
| FRYING | `main/ProGram_FRYING.cpp` | `startTime` | `setup_FRYING`, `loop_FRYING` |
| START | `main/ProGram_START.cpp` | `g_bodyEast`, `g_bodyNorth` (and three globals that nobody reads) | `setup_START`, `loop_START`, `calibrateBodyVector` |
| RUN | `main/ProGram_RUN.cpp` | `gpsReady`, `DistanceABS`, `Here`, `Nav`, `lotate_degree`, `DistanceNumberABS`, `ESP32S3` | `loop_main_RUN`, `GPS_STANBY`, `Cul_NAVVec`, `LotateCul`, `loop_Make_Body_lotate`, `DistanceToGoal`, `Stuck` |
| GOAL | `main/ProGram_GOAL.cpp` | none | `loop_GOAL` |
| GPS driver | `components.sencer/GPS用コード.cpp` | `g_coordlatitude`, `g_coordlongtitude`, the `coord` of the task, a static field buffer | `gpsTask`, `getGpsCoordinate`, NMEA parsing |
| IMU driver | `components.sencer/九軸センサー専用コード.cpp` | `s_bnoReady`, `g_accel` | `initImu`, `updateAccel`, `getYaw` |
| Telemetry | `main/telemetry.cpp` | `esp_now_init_started`, `is_radio_active`, `current_channel`, the radio | `ensure_esp_now_started`, `start_esp_now`, sends, console, `setTelemetryChannel` |
| Cone receiver | `components.sencer/ESP32S3SenseReceiver.cpp` (not in `main/CMakeLists.txt`) | writes `ESP32S3` | `Gazouhantei` |
| Test pins | `FinalGuidance_ImageRecognition_Test/main/PIN_WIRE.hpp` | - | - |
| Vendored | `components/`, `managed_components/`, `build/` | - | - |

**How they interact.** The main task runs the five programs one after the other, each
blocking for seconds in `vTaskDelay`. `gpsTask` is a task of its own and publishes
each fix through two globals under the spin lock `gps_mux`; the programs read them,
with the lock in most places and without it where they call `Stuck`. The cone flag
`ESP32S3` is written by a third task, if by any, and read by RUN with no lock. Both
the main task and `gpsTask` send telemetry; the first to do so starts the radio and
creates a console task. The camera board and the fall pin are two input pins.

**What is hard.** The position changes between any two statements of a program. One
pass of RUN tests the cone flag four times and it may differ each time. The FRYING
loop reads its timer three times. Motor pins are set by one function and expected to
be low by another. The distance that decides on GOAL is older than the drive it
follows. `Stuck` is entered from three places. The radio is started by one of two
tasks while the other waits. The IMU driver looks at no result of its bus. The receiver
sends while gpsTask sleeps, into a buffer of a few seconds. A reset leaves nothing of
the program, and a panic the pins as they were.

**What makes each part correct.**

* Dispatch and programs: the phases come in order and never back; the wire burns
  once, after the flight, with the wheels at rest, and is put out; RUN is entered
  standing still. Separation leads to RUN. Every call of `Stuck` returns.
* START, RUN: positions are whole fixes; `Stuck` leaves the motors off; GOAL is
  reported near the goal; the search ends when the cone is seen.
* GPS: what is published is a fix that was received, not too old and never older than
  the one before; a reader under the lock sees both coordinates of one fix; after
  silence or noise fixes come again.
* IMU and navigation: `s_bnoReady` is set on a chip that fuses; `initImu` ends; the turn
  is the one that reduces the angle to the goal.
* Telemetry: the radio is started once, nobody sends before it is up, nobody waits
  for ever, and the reported channel is the radio's.
* The board: a start of the radio that fails costs no mission; a mission that a reset
  cuts off keeps its order from STANDBY on, and is flown again.

## 2. The modules

```
CanSatGlobals     shared globals, pins, distances, constants and their assumptions
 |- Gps           the publication of a fix: two stores under gps_mux
 |- Standby, Frying
 |- Stuck         the manoeuvre that frees the rover
 |   |- Start     burn and calibration
 |   '- Run       the drive to the goal
 '- CanSat        EXTENDS all of these; boot, GOAL, receiver, input pins; Spec
     |- Mission          (INSTANCE M) the abstract specification
     |- CanSatClaims     what comments and messages say and the code does not do
     |   '- MCCanSat
     |- CanSatProofs     the inductive invariant and the safety theorems
     |   '- CanSatRefinement   CanSat implements the safety part of Mission
     '- Flight           CanSat with Telemetry (INSTANCE Radio) on a board that resets
         |- MCFlight
         '- FlightProofs       (EXTENDS CanSatRefinement, too)

Telemetry         telemetry.cpp: the start of the radio, the channel, panics
 |- Link                (INSTANCE L) the abstract specification of the start
 |- MCTelemetry
 '- TelemetryProofs     (FlightProofs INSTANCEs it as Proved)

GpsDriver         receiver, UART buffer, parser and gpsTask; implements Gps (INSTANCE Feed)
 |- MCGpsDriver
 '- GpsDriverProofs    types and the refinement of Gps
     '- GpsDriverAges  the ages of the lines, and what is published in which order

Imu               initImu and the samples, against a chip and a bus that fail
 '- Steering      the angles of RUN, with the heading that Imu reports
     |- MCSteering
     '- SteeringProofs
```

The MC modules hold values for TLC. Definitions whose comment begins "Seeded fault" are
variants of the definition after them, used by no specification; they are there to show
that each property can fail. `PROJECT.json` pairs them with the properties.

### CanSat

**State.** Variables have the names of the source's where it has them. `pc` is where
the main task stands; one action leads from one delay, lock or read of shared state
to the next, so that `gpsTask`, the receiver and the pins interleave wherever the
program can really be interrupted to a visible effect. Three groups of statements are
one action: those between two delays that only touch the task's own variables and
output pins; a critical section of the reader; the ten announcements of STANDBY.
gpsTask's own critical section is two actions, `StoreLatitude` and `StoreLongitude`,
because a reader without the lock sees the moment between them; `writing` is the fix
it is storing while it holds the lock.

**Stuck** calls itself with new arguments as its last statement, so a frame is just
`n` and the position before, and `caller` says where the outermost call returns to.
The two arguments of a call are two reads of volatile globals in an order C++ does
not fix: `pending` holds the coordinates not yet read, in either order.

**Data that is abstracted.** A position is a pair of integers in units of 0.0001
degree, the finest threshold of the programs; a distance is the number of the four
thresholds (0.00005, 0.5, 1.0, 3.0) it reaches, computed with the source's formula.
The vertical acceleration is the side of 30 m/s^2 it is on. The body vector is the
fact that it was found. The turn that `loop_Make_Body_lotate` chooses is any of those
`Steering` shows to be possible: without a body vector never the left one.
`elapsed` counts the 2 s of FRYING in its periods of 100 ms; a turn of the loop takes
one or two of them, and two reads of the timer with no delay between them are at most
`ReadGap` = 1 apart.

**Mission** has three variables, the phase, the wire and whether a wheel turns. In
the refinement `phase` is `currentState`, `wire` is read off the nichrome pin and the
point of the program, `wheels` is whether any motor pin is high.

### Telemetry and Flight

**Telemetry** is parameterised by the tasks that send, those that call
`setTelemetryChannel`, the requests, and the channels the driver refuses. The start
is cut where a step may fail or writes what another task reads. A failed
`ESP_ERROR_CHECK` panics and reboots (`Abort`); `MaxReboots` bounds how often.

**Link** is what the senders can rely on: the link is down, rising or up; the first to ask
makes it rise, it comes up in one step, lets in whoever asked, and stays up; it can fail
only while it rises, before anybody has sent. In the refinement `link` is read off the two
flags, `asking` and `sending` off the places of the senders, and the seven places of the
start but the last are one.

**Flight** puts the radio under the mission. A send that finds the radio active changes
nothing in the model, so the only sends that are steps are those that may block: the
main task's first text, which STANDBY sends (`announced`: it has been sent), and the
position that gpsTask has published and not yet sent (`owes`). The main task leaves
STANDBY only after its text; gpsTask stores the next fix only after it has sent the
last. `Restart` gives every variable of the program its initial value and leaves the
levels of the camera pin and the fall pin, which belong to the world. It happens when a
step of the radio's start fails (`Panic`) and, in any state, when the supply breaks down
(`Brownout`). The panic handler restarts the program, and the output pins keep their
levels; nothing in the program lowers the pin of the wire before the end of the burn. Of
a brownout the model assumes that it resets the chip as a whole, so that no pin is driven
after it, as at power-up: this is a property of the chip and its detector
(`CONFIG_ESP_BROWNOUT_DET`), not of a line of the repository.

### GpsDriver

Time passes in whole seconds: while gpsTask sleeps, or waits for a byte. A line is a
record of its kind, whether its checksum is right, its status letter, the position its
sender meant and its age. The receiver sends one `Burst` of sentences a second and has a
`signal`: a position, none (status V), noise that may damage any of the lines, or
silence. A line that finds the UART buffer full is lost, and one that fills
it is cut: `Arrive` leaves open which of the two happens. The line that was cut runs into
the next that finds room (`cut`), and both are damaged, however good the signal. `parsed` is gpsTask's `coord`
together with the ages of the two lines it came from. `nmea_to_decimal` is modelled by
what it computes, in minutes of arc, with the direction letter; a damaged line carries a
position (`Garbled`) that no receiver reports, so that accepting one would show.

`get_field` returns one static buffer and `parse_gprmc` calls it twice in the arguments
of one call: C++ leaves the order open. `RawFirst` says that the number is cut out first:
then the letter has replaced it when `atof` reads it, and the result is 0. The object
file of the GPS code in `build/` has this order: in `parse_gprmc`, field 3 is cut out
before field 4. `GpsDriver_claim_position` and the theorem
`BuildPublishesNothing` are about it; the run `GpsDriver` and `DriverImplementsGps` are
about the other order, which shows that nothing else is wrong with the publication. What
the build publishes, (0, 0) for ever, is among the behaviours of `Gps`: a receiver that
never has a fix. The runs of `CanSat` therefore cover the build as well as the program
with that one line repaired.

### Imu and Steering

**Imu** has one action for each write or wait of `begin`, `setMode` and
`setExtCrystalUse`, because the chip may lose its power, and the bus may fail, between
any two of them. The chip is its power (off, booting, up), its mode and its clock. It is
found in any state, since it stays powered when the ESP32 alone is reset. `disturbed` is
a history variable: a write did not arrive, or the chip lost its power after its reset.

**Steering** has the vectors of `Cul_NAVVec` and of the calibration in eight directions;
with components of -1, 0 and 1 their products, `atan2` and the sum with the yaw are
exact. If either vector is (0, 0), the signs of the zeros decide between 0 and 180, and if
one is the opposite of the other, between 180 and -180; the model leaves both open. (-180
takes a cross product of -0 and a negative dot product: with a vector (0, 0), whose zeros
are positive, the dot product is 0 when the cross product is -0.) Run's control is not repeated here: `Navigate` is one call of
`NavVector` with any target direction and any heading.

## 3. What is checked

`tlc -workers 2 -config <run>.cfg <module>`; deadlock is checked everywhere.

| Run | Instance | What it shows | States |
|---|---|---|---|
| `CanSat_built` | the constants of the source (20 periods, 10, 10 and 5 retries), target (0, 0), no receiver; two fixes 1.5 apart | The build as it is. Types; locked reads are whole; the mission refines `Mission`, the wire goes out (`MissionKept`); separation leads to RUN; `Stuck` returns (`UnstickReturns`), every step of it counting down (`UnstickCountsDown`); the rover stops steering (`SteeringStops`), for no drive follows one shorter than 3.0 (`ShortDriveIsLast`) | 171,424 |
| `CanSat_cone` | 3 periods, 2, 1 and 1 retries, target set, a receiver that reads the pin; fixes 0.7 and 1.5 from the goal and 0.8 apart | The system that `ProGram_RUN.cpp:26` asks for. The inductive invariant; GOAL is near; `Mission`; every attempt of `Stuck` ends with the motors off; a calibration that got stuck is final (`StuckCalibrationIsFinal`); the search ends | 162,848 |
| `Flight` | 3 periods, 1, 0 and 1 retries, the receiver as its source compares, one reset | The radio starts while the mission stands by; so that a panic, which leaves the pins alone, finds nothing under current (`PanicLeavesAllOff`); `Mission` between resets; GOAL is out of reach (`GoalNeedsReceiver`); a mission cut off anywhere is flown again (`RestartResumes`) | 142,584 |
| `Telemetry_built` | two senders, console, two reboots, requests 0, 1, 13, 14 | The start refines `Link` (`LinkKept`); its order, the channel, and that every wait ends | 648 |
| `Telemetry_api` | the same with a caller of `setTelemetryChannel`, a driver that refuses channel 13, one reboot | The start still runs once, nobody sends early, nobody waits for nothing (`WaitIsServed`) | 48,838 |
| `GpsDriver` | bursts of RMC and GGA, a buffer of 3 lines, 4 attempts, 1 or 2 s between calls; one fix north-east and one south-west | What is published is a reported position (`ImplementsGps`), of bounded age, and so are the satellites and the altitude sent with it (`Fresh`); never an older one after a newer (`NeverBackward`); fixes come again after any outage (`FixesKeepComing`) | 245,780 |
| `Steering` | 2 tries of detection, headings 0, 2, 3, 45, 88, 90, 180, 270, 358 | What `s_bnoReady` is worth; when `initImu` ends; which turns are possible and where they stop | 134,700 |
| `*_claim_*` | one property each | What a comment or a message says and the code does not do: section 5 | refuted |

**Bounds.** In `CanSat_built` nothing is bounded that the code does not bound: the
counts are the source's. Two fixes are enough for any pair of reads to agree, differ,
or be torn, and together with the reset position they lie on both sides of every
threshold that decides in that run; `CanSat_cone` has distances in every band. Its
smaller counts still go through first attempt, further attempt and giving up.

`Flight` multiplies these states by those of the radio and has smaller counts still.
`FlyTimeout` is 3: with 2, every pass of FRYING could run out between its two last tests
and the mission could stay there, which the 20 periods of the source exclude. Fixes, a
retry of the calibration and one of the GPS wait are there. One reset is enough for the
safety properties (between resets everything starts from the same state) and is what
`RestartResumes` is about: a mission is cut off in any state and flown again. A supply
that breaks down at every burn would of course never let the mission through.

`Telemetry`'s two reboots allow a failed start, a second one and a good one.

In `GpsDriver` the sizes of the source are scaled in proportion: 1024 bytes are some
seconds of sentences, 20 lines are several bursts. With 3 lines in the buffer, 4 attempts
and bursts of 2, the buffer overflows, a call fails by silence, by noise and by a mixture,
and RMC and GGA of one call come from different bursts. A call is followed by 1 s of delay
and by logging and telemetry of less than another (`MaxSleep`). Ages count to `AgeLimit`
7, above the bound 6 that `Fresh` compares them with: 3 s in the buffer (`Waited`) and
the 3 s in which a call that has one sentence may spend its other attempts. The bound is
reached in this instance: it cannot be stated lower. `DetectTries` stands for the 85 tries
of `begin`: 2 go through a failed, a further and a last one. The headings are five of the
eight directions and both sides of both ends of the band of 2 degrees.

**Fairness.** The main task is weakly fair: FreeRTOS schedules it whenever gpsTask, the
console and the WiFi tasks above it sleep, which they do in every period. Its steps
that take `gps_mux` are strongly fair: gpsTask takes the lock again and again, but for
two stores in a second, so a spin on it ends. gpsTask's second store is weakly fair (a
critical section is not interrupted), and so is the receiver if it is built. Nothing
is assumed of the GPS, of the input pins or of the order of tasks. Liveness that needs
the world says so: `SeparationEndsInRun` needs the fall pin to stay out,
`ConeEndsSearch` the camera to go on seeing the cone, `RestartResumes` both pins to keep
their levels. In `Telemetry` a task that has begun a send is scheduled until it is done;
nobody has to begin one, and a step of the start may panic instead. `Flight` has the
fairness of both, and the main task does begin its first text. In `GpsDriver` gpsTask is
weakly fair: it has the highest priority in the program, and seconds pass. In `Steering`
the steps of `initImu` and the boot of the chip are weakly fair; the bus, the power and
the samples are not.

## 4. What is proved

For every value of the constants, from the named assumptions on them: the fixes are
positions and the target is one, the counts are naturals (the period count positive), the
receiver switches are Booleans; in `Telemetry` the senders, the callers and the console
are different tasks, and requests are integers; in `GpsDriver` no reported position is
(0, 0) or the `Garbled` one, a burst is a sequence of sentence kinds and the bounds are
naturals; in `Steering` headings are whole degrees below 360. TLC evaluates the
assumptions in every run.

`CanSatProofs`: `IInv` is inductive (`Inductive`). It is the conjunction of

* `TypeOK`, with `n` and `retry` between 0 and the counts of the source;
* `PlaceInv`: which phase and which caller belong to each program point. `TypeOK` is
  not inductive without it: where `Stuck` returns to depends on the caller;
* `PinInv`: the nichrome pin is high at one program point exactly; the motors are off
  in STANDBY, FRYING, before and during the burn; which pins each leg of `Stuck` and
  the calibration drive can find high;
* `DistanceInv`: `DistanceNumberABS` is the distance of `Here`, or was never measured,
  or the task is between the statements that assign `Here` and the distance;
* `PositionInv`: the shared position is a fix while the lock is free, and has the
  latitude of the new fix while it is held.

One lemma per conjunct, one step per action. From it: `TypeCorrect`, `GoalNear`,
`ReadsWhole`, `MotorsOff` (an action property: only two actions leave the last leg, and
`PinInv` says that at most the right motor's pins are high in it), and `StuckCountsDown`:
inside `Stuck` every step takes one from the legs that are left, 5 for each attempt that
`n` still allows, whatever gpsTask does to the position. That is all of `UnstickReturns`
but the scheduling.

`CalibratedOnce`: `BodyInv` says that no phase before RUN has a body vector, and
`Vectorless`, with which a calibration enters `Stuck`, is kept by every step, for `Stuck`
returns behind the calibration and no phase leads back to START. `StuckCalibrationIsFinal`
follows: the rover that was freed steers by (0, 0) to the end of its flight.

For a program whose receiver does not read the pin (`~ConeIsRead`: none is built, or it
compares the pin's number), `BlindInv` adds that the flag is down and that a drive is only
entered with a `DistanceABS` of 3.0. From it `NeverAtGoal` and `LastDrive`: the first drive
shorter than 3.0 is the last, for every target and every sequence of fixes. The first is
proved for `Flight` as well (`FlightNeverAtGoal`).

`CanSatRefinement`: `MissionSafe`, every step of the code is a step of `Mission` or
leaves its variables alone. The burn needs `PinInv` (the motors are off in START before
the drive), the hand-over to RUN needs it again (the calibration drive and `Stuck`
clear all the pins they can have found high).

`TelemetryProofs`: `RadioTypeCorrect`, `StartInOrder`, `StartIsOnce`, `SendIsReady` for
any set of senders and callers, from `StartInv`: as long as a task is in the start the
first flag is set and the second is not, and the driver is as far as that task.
`WaitServed` needs one more part, `Served`: the first flag stands for the second or for a
task in the start; it is what the start would break by giving up without a panic.
`LinkSafe`: every step is a step of `Link` or leaves its variables alone; a step of the
start other than the last does (`LinkStutters`), and `StartInv` says that the last one and
the panic find the link rising and nobody sending.
`ChannelInHand` and `ChannelIsTrue`, for no callers and no refused channel, from
`ChannelInv`: whoever has set the radio is about to record it, and nobody else is at it.

`FlightProofs`: the conjunction of `IInv`, the types of the composition and `RadioFirst`
is inductive (`FlightInductive`), hence `FlightTypeCorrect`, `FlightInvariant` (all that
`CanSat`'s proofs rest on holds on a board that resets), `PanicLeavesNothingOn` and
`FlightMotorsOff`. `StartsInStandby` alone is
not: a state that has left STANDBY with the radio down would satisfy it, and gpsTask could
then begin the start. `RadioFirst` adds that the main task does not leave before it has
sent, that whoever has sent has found the radio active, and that nobody starts an active
radio (`RadioStartsInStandby`). `FlightKeepsMission`, for any number of resets: a step
without a reset is a step of `CanSat` or of the radio, and `CanSatRefinement` has done the
rest. That a reset re-establishes `IInv` is a lemma of its own (`ResetIInv`). For a panic
it rests on `RadioFirst`, too: the radio is not active yet, so the main task waits in
STANDBY, where `PinInv` has all the pins low that the panic keeps (`PanicAtRest`). For a
brownout it rests on the assumption of section 2 that the chip's reset lowers them; so do,
after a brownout, `FlightMotorsOff` and `FlightKeepsMission`. The radio of
the composition is proved by `TelemetryProofs` itself, instantiated with the two tasks of
`Flight`: a step without a reset is one of `Telemetry`'s or leaves the radio alone
(`RadioSteps`), a reset, at any moment, begins the invariants anew, and
`FlightSendsReady` and `FlightWaitServed` follow.

`GpsDriverProofs`: `DriverInv` says that a whole RMC line with status A carries a reported
position, anywhere in the buffer; that a valid `parsed` was taken from
such a line; that `writing` and the shared position are as far as the task's place; and
that a call has made fewer than `MaxAttempts` attempts while it reads. The lemma
`Converts`: `nmea_to_decimal` gives back the signed minutes for every coordinate, or 0 if
the number was overwritten by the letter. From them `DriverTypeCorrect`, `DriverImplementsGps` (the other
order) and `BuildPublishesNothing` (the order of the build), for every burst, buffer and
set of positions.

`GpsDriverAges`: how old a line is follows from its place. A line at place `i` of the
buffer has seen the lines before it leave, in at most `MaxSleep` seconds for each two of
them, since every call takes two lines at least or finds the buffer empty (`WaitInv`; `Due`
is what the running call still owes). Once a call has one of its two
sentences, each further second costs an attempt (`CallInv`). Hence `AgesInvariant` and
`PublishedIsFresh`, for every buffer, burst and number of attempts. `AgesInvariant` leaves
out a driver with one attempt, which publishes nothing; the source has 20.
`PositionsInOrder` says `NeverBackward` under two conditions that the source meets and the
run states: a burst has one RMC sentence (`OneRMC`; with two, both have the age of the
burst), and `AgeLimit` is above the ages that occur (`ToldApart`; ages at the limit cannot
be told apart). By `OrderInv` the positions in the buffer are in order, and younger than the one in
hand, which is younger than the published one.

`SteeringProofs`: `FusionInv` follows the chip's mode, its clock and `_mode` through the
steps of `initImu` as long as nothing was disturbed: `FusesWhenReady` is its last line.
`TurnsOneWay` and `TurnsAsInRun` follow for every set of headings.
`SteeringTypeCorrect` and `StopsAtMirror` rest on the geometry of the eight directions: the
lemma `Mirror` computes the angle of `LotateCul` from the two bearings, up to whole turns,
and finds 90 degrees less their sum where the difference of the two was meant. No heading
ends a correction anywhere else.

**Only model-checked.** Liveness, which under fairness is out of the prover's reach:
`WF(PutOut)` of `Mission` (in `MissionKept`), the fairness of `Link` (in `LinkKept`),
`SeparationEndsInRun`, `UnstickReturns`, `SteeringStops`, `ConeEndsSearch`, `WaitEnds`,
`FixesKeepComing`, `InitEnds`, `RestartResumes`. What three of them rest on is proved:
`UnstickCountsDown`, `ShortDriveIsLast`, `WaitIsServed`. Every invariant and every action
property of a run has its theorem; those of `NeverBackward` and the channel have the
hypotheses named above.

## 5. Where the code and its own words differ

Each is a run that TLC refutes with a short behaviour; `PROJECT.json` quotes the line.

| Run | The code |
|---|---|
| `GpsDriver_claim_position` | overwrites each coordinate with its direction before it is converted, and publishes (0, 0) |
| `Steering_claim_target` | ends the correction of its direction facing away from the target: north and east change places, and the yaw is taken for an angle to the body vector |
| `CanSat_claim_whole` | calls `Stuck` with two unlocked reads |
| `CanSat_claim_arrival` | reports arrival by a position the rover has left |
| `CanSat_claim_goal` | may report GOAL and then search for the cone without end |

Seen in the code and given no run of their own, because a look at the lines shows
them:

* A turn and a spin start with the pins the drive before left high
  (`ProGram_RUN.cpp:35`).
* `Stuck` makes 11 attempts where the maximum is 10 (`ProGram_RUN.cpp:71`, `:19`).
* The cone receiver compares the number of the camera pin, not its level
  (`ESP32S3SenseReceiver.cpp:12`).
* A switch of the channel is logged although the driver refused it (`telemetry.cpp:41`,
  `:44`).
* The message of a turn says right (`ProGram_RUN.cpp:153`), the comment before it
  anticlockwise (`:152`).
* "No NMEA data" is logged also when lines came and no complete pair of them
  (`GPS用コード.cpp:203`), and sentences of receivers that begin them with `$GN` are never
  taken (`:105`).
* STANDBY announces a wait of 5 minutes for the GPS (`ProGram_STANDBY.cpp:25`) and
  waits 10 s; it announces ten recognitions and reads the pin once.
* START is for the landed CanSat (`ProGram_START.cpp:1`) and is also entered by the 2 s
  timeout.
* `GPS_STANBY` reports the GPS as acquired (`ProGram_RUN.cpp:180`) when the position is
  the *target*, which before the first fix is (0, 0) like the target of the source.
* "Driving forward" in RUN (`ProGram_RUN.cpp:53`) is both pins of the right motor.

Four more are properties that hold. `StuckCalibrationIsFinal`: a calibration drive that
got stuck is not repeated when the rover is free (`ProGram_START.cpp:77`), although RUN
computes its turns from the body vector it was to find (`ProGram_RUN.cpp:9`).
`SteeringStops`: RUN repeats its drive only while the *last drive* was 3.0 degrees or
longer, not while the goal is that far, so the rover steers once or twice and then idles.
`PositiveNeverStops`: the sum of yaw and angle is not brought back to one turn, so no
heading ends a turn by a positive angle.
`StopsMirrored`: where a turn does end, it is at the bearing of the body plus that of the
target less 90 degrees. And with no receiver in the build the flag is never raised and
GOAL is never reached.

## 6. What is not modelled

* The vendored code, by far the most of the repository's lines: the Adafruit libraries but
  for the calls listed under `Imu`, and `managed_components/` (LittleFS, the Zigbee
  libraries, cJSON and others that the program never calls), `build/` and the generated
  configuration. It is not this program's logic, and most of it is headers, tables and
  drivers whose state is that of the hardware. The program's own code is about 1100
  lines, of which the modules translate nearly all.
* In the GPS: characters, the computation of the checksum, speed and course, which nobody
  reads. The depth of gpsTask's stack, on which the line buffer lies and the radio is
  started, is a matter of the compiler and of a closed library.
* In the telemetry: the texts. With a driver that refuses a channel, or with callers of
  `setTelemetryChannel` (no task calls it), the reported channel may be wrong;
  `ChannelAgrees` is checked and proved without them.
* Of the samples in FRYING: `impact` has any value if the IMU was found, and so also the
  value it has when every read fails (FALSE throughout); `Imu` has the way from the chip
  to the sample, and no property of its own about it.
* In RUN and GOAL: whether the rover comes closer. The geometry is checked for single
  turns (`Steering`), and where the drive leads is left to the world: after it any fix
  may come. GOAL leaves the pins as they are; nothing says that it should not.
* Resets: more than one per behaviour in TLC (the proofs have any number), and one that
  comes back at each burn. A brownout that leaves the output pins as they were: the model
  takes it for a reset of the whole chip. With the pin of the wire kept high, the wire
  would burn from the reset to the end of the next burn.
* The I2C and UART drivers, but for failing; the pins of the image recognition test,
  which is another firmware.

## 7. Plan

1. *Done*: `CanSatGlobals` to `CanSat`, `Mission`, `CanSatClaims`, `Telemetry`, their
   runs and proofs.
2. *Done*: `GpsDriver`, parser and static buffer included, the refinement of `Gps` and
   its proof.
3. *Done*: `Imu` and `Steering`, their runs and safety proofs.
4. *Done*: `Flight`, the composition of `CanSat` and `Telemetry` with resets, and its
   proofs.
5. *Done*: the order of ages in the buffer (`Fresh`, `NeverBackward`), the mirror of
   `StopsMirrored`, the bounds of the retry counts, `Link` and its refinement, the radio
   of `Flight` across resets and its pins at a panic, what is left of the mission without a receiver.
6. Open: `Link` and the countdown of `Stuck` for `Flight`; a countdown for the loops of
   FRYING and of `gpsTask`'s calls; `Flight` with `Steering` in place of the choice of
   turns, so that the turn after a reset depends on what the chip kept.
