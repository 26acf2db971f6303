----------------------------- MODULE GpsDriver -----------------------------
(***************************************************************************)
(* GPS用コード.cpp: the GPS receiver sends a burst of NMEA sentences every  *)
(* second, the UART driver keeps the lines that fit into its buffer, and   *)
(* gpsTask reads lines until it has an RMC and a GGA sentence, publishes   *)
(* the position, and sleeps for a second.                                  *)
(*                                                                         *)
(* Time passes in seconds, while the task sleeps or waits for a byte; what *)
(* is in the buffer is read in no time.  A line carries its age in seconds *)
(* and the position that its sender meant, in minutes of arc.              *)
(***************************************************************************)
EXTENDS Integers, Sequences

CONSTANTS
  Fixes,         \* the positions the receiver may report
  Burst,         \* the kinds of the sentences of one second, in their order
  Capacity,      \* the lines that fit into the UART buffer (BUF_SIZE bytes)
  MaxAttempts,   \* the 20 lines of getGpsCoordinate
  MaxSleep,      \* seconds from the end of one call to the next, at most
  AgeLimit,      \* bound of the model: ages are not told apart from here on
  RawFirst       \* does the build evaluate the first argument first?

Position == [lat : Int, lon : Int]
NoFix == [lat |-> 0, lon |-> 0]
Garbled == [lat |-> 1, lon |-> 1]   \* what a damaged line may be taken for

ASSUME FixesAssumption == Fixes \subseteq Position \ {NoFix, Garbled}
ASSUME BurstAssumption == Burst \in Seq({"RMC", "GGA", "other"})
ASSUME BoundAssumption ==
  /\ Capacity \in Nat /\ MaxAttempts \in Nat \ {0}
  /\ MaxSleep \in Nat \ {0} /\ AgeLimit \in Nat
ASSUME OrderAssumption == RawFirst \in BOOLEAN

VARIABLES
  signal,    \* what the receiver is sending: "good", "void", "noisy", "none"
  buffer,    \* the lines in the UART buffer, the oldest first
  cut,       \* the last line that came in has no end, the buffer being full
  at,        \* where gpsTask stands
  attempt,   \* attempt of getGpsCoordinate
  got,       \* got_rmc, got_gga: the kinds parsed in this call
  parsed,    \* coord of gpsTask, with the ages of the two lines it came from
  passed,    \* seconds since the call ended
  coord,     \* g_coordlatitude, g_coordlongtitude
  writing,   \* the position gpsTask is storing while it holds gps_mux, or {}
  age        \* age of the published position

taskVars == <<at, attempt, got, parsed, passed>>
pubVars  == <<coord, writing>>
vars == <<signal, buffer, cut, taskVars, pubVars, age>>

Age == 0..AgeLimit
Older(a) == IF a < AgeLimit THEN a + 1 ELSE a

-----------------------------------------------------------------------------
(***************************************************************************)
(* The receiver and the line to it (external).  Without a position it      *)
(* sends sentences with status V and empty fields.  Noise damages lines.   *)
(* A byte that finds the buffer full cuts the line it belongs to, which    *)
(* then runs into the next one that finds room: both are damaged.          *)
(***************************************************************************)
Line(k, f) ==
  [kind   |-> k,
   whole  |-> TRUE,
   status |-> IF k = "RMC" /\ f # NoFix THEN "A" ELSE "V",
   fix    |-> IF k = "RMC" THEN f ELSE NoFix,
   age    |-> 0]

Damaged(l) ==
  [l EXCEPT !.whole = FALSE, !.fix = IF l.kind = "RMC" THEN Garbled ELSE @]

Noise == IF signal = "noisy" THEN SUBSET DOMAIN Burst ELSE {{}}

Sent ==
  { [i \in DOMAIN Burst |->
       IF i \in damaged THEN Damaged(Line(Burst[i], f)) ELSE Line(Burst[i], f)] :
      f \in IF signal = "void" THEN {NoFix} ELSE Fixes,
      damaged \in {lost \cup (IF cut THEN {1} ELSE {}) : lost \in Noise} }

Signal == {"good", "void", "noisy", "none"}
SignalChanges ==
  /\ signal' \in Signal
  /\ UNCHANGED <<buffer, cut, taskVars, pubVars, age>>

\* The lines that fit stay, one second older; the rest of a burst is lost.
Received(lines) ==
  LET all == [i \in DOMAIN buffer |-> [buffer[i] EXCEPT !.age = Older(@)]] \o lines
  IN  SubSeq(all, 1, IF Len(all) < Capacity THEN Len(all) ELSE Capacity)

CutLast(b) == [b EXCEPT ![Len(b)] = Damaged(@)]

\* What of `lines' is lost ends with a line, or in the middle of one.  A line without
\* an end waits for the next that finds room, but read_nmea_line gives it up when
\* nothing comes.
Arrive(lines) ==
  \/ /\ buffer' = Received(lines)
     /\ cut' = (cut /\ buffer # <<>> /\ (lines = <<>> \/ Len(buffer) = Capacity))
  \/ /\ Len(buffer) + Len(lines) > Capacity
     /\ buffer' = CutLast(Received(lines))
     /\ cut' = TRUE

\* A second passes in which the receiver sends `lines'.
Second(lines) ==
  /\ Arrive(lines)
  /\ parsed' = [parsed EXCEPT !.rmc = Older(@), !.gga = Older(@)]
  /\ age' = Older(age)
  /\ UNCHANGED <<signal, pubVars>>

-----------------------------------------------------------------------------
(***************************************************************************)
(* Parsing.                                                                *)
(***************************************************************************)

\* How the receiver writes m minutes of arc: ddmm, without the sign (external).
Abs(m) == IF m < 0 THEN -m ELSE m
RawOf(m) == 100 * (Abs(m) \div 60) + (Abs(m) % 60)

\* Seeded fault: the direction is left out of account.
nmea_to_decimal_Unsigned(raw, direction) ==
  60 * (raw \div 100) + (raw - 100 * (raw \div 100))

\* The result is in minutes of arc, too.
nmea_to_decimal(raw, direction) ==
  LET degrees == raw \div 100
      minutes == raw - 100 * degrees
      decimal == 60 * degrees + minutes
  IN  IF direction \in {"S", "W"} THEN -decimal ELSE decimal

\* Both arguments are calls of get_field, which returns its one static buffer.
\* If the field with the number is cut out first, the letter replaces it before
\* nmea_to_decimal reads it, and atof finds no number in the letter.
Coordinate(m, positive, negative) ==
  nmea_to_decimal(IF RawFirst THEN 0 ELSE RawOf(m),
                  IF m < 0 THEN negative ELSE positive)

Accepted(l) == l.kind \in {"RMC", "GGA"} \ got /\ l.whole

\* Seeded fault: the warning status counts as valid.
Parse_StatusV(l) ==
  IF l.kind = "GGA" THEN [parsed EXCEPT !.gga = l.age]
  ELSE [parsed EXCEPT !.is_valid = (l.status = "V"), !.rmc = l.age,
                      !.lat = Coordinate(l.fix.lat, "N", "S"),
                      !.lon = Coordinate(l.fix.lon, "E", "W")]

\* parse_gprmc, parse_gpgga.
Parse(l) ==
  IF l.kind = "GGA" THEN [parsed EXCEPT !.gga = l.age]
  ELSE [parsed EXCEPT !.is_valid = (l.status = "A"), !.rmc = l.age,
                      !.lat = Coordinate(l.fix.lat, "N", "S"),
                      !.lon = Coordinate(l.fix.lon, "E", "W")]

-----------------------------------------------------------------------------
(***************************************************************************)
(* gpsTask.                                                                *)
(***************************************************************************)

\* Seeded fault: is_valid is looked at, and the result of the call is not.
EndAttempt_IgnoresTimeout ==
  /\ attempt' = attempt + 1
  /\ at' = IF got' = {"RMC", "GGA"} \/ attempt' = MaxAttempts
             THEN IF parsed'.is_valid THEN "store_latitude" ELSE "sleep"
             ELSE "read"
  /\ UNCHANGED passed

\* The end of one turn of the loop in getGpsCoordinate, and of the call: gpsTask
\* publishes what is complete and valid.
EndAttempt ==
  /\ attempt' = attempt + 1
  /\ at' = IF got' = {"RMC", "GGA"}
             THEN IF parsed'.is_valid THEN "store_latitude" ELSE "sleep"
             ELSE IF attempt' = MaxAttempts THEN "sleep" ELSE "read"
  /\ UNCHANGED passed

ReadLine ==
  /\ at = "read" /\ buffer # <<>>
  /\ buffer' = Tail(buffer)
  /\ IF Accepted(Head(buffer))
       THEN got' = got \cup {Head(buffer).kind} /\ parsed' = Parse(Head(buffer))
       ELSE UNCHANGED <<got, parsed>>
  /\ EndAttempt
  /\ UNCHANGED <<signal, cut, pubVars, age>>

\* read_nmea_line waits for a byte, and the next burst comes within the second.
AwaitBurst ==
  /\ at = "read" /\ buffer = <<>>
  /\ signal # "none"
  /\ \E lines \in Sent : Second(lines)
  /\ UNCHANGED <<at, attempt, got, passed>>

\* It does not: the attempt fails.
ReadTimeout ==
  /\ at = "read" /\ buffer = <<>>
  /\ signal = "none"
  /\ Second(<<>>)
  /\ UNCHANGED got
  /\ EndAttempt

StoreLatitude ==
  /\ at = "store_latitude"
  /\ writing' = {[lat |-> parsed.lat, lon |-> parsed.lon]}
  /\ coord' = [coord EXCEPT !.lat = parsed.lat]
  /\ at' = "store_longitude"
  /\ UNCHANGED <<signal, buffer, cut, attempt, got, parsed, passed, age>>

StoreLongitude ==
  /\ at = "store_longitude"
  /\ writing' = {}
  /\ coord' = [coord EXCEPT !.lon = parsed.lon]
  /\ age' = parsed.rmc
  /\ at' = "sleep"
  /\ UNCHANGED <<signal, buffer, cut, attempt, got, parsed, passed>>

\* sendGpsTelemetry and vTaskDelay: the receiver goes on sending.
Sleep ==
  /\ at = "sleep" /\ passed < MaxSleep
  /\ passed' = passed + 1
  /\ \E lines \in IF signal = "none" THEN {<<>>} ELSE Sent : Second(lines)
  /\ UNCHANGED <<at, attempt, got>>

\* Seeded fault: attempt is not reset.
Wake_KeepsAttempt ==
  /\ at = "sleep" /\ passed >= 1
  /\ at' = "read" /\ passed' = 0 /\ got' = {}
  /\ parsed' = [parsed EXCEPT !.rmc = AgeLimit, !.gga = AgeLimit]
  /\ UNCHANGED <<signal, buffer, cut, attempt, pubVars, age>>

\* Seeded fault: got_rmc and got_gga are kept from call to call.
Wake_KeepsGot ==
  /\ at = "sleep" /\ passed >= 1
  /\ at' = "read" /\ passed' = 0 /\ attempt' = 0
  /\ UNCHANGED <<signal, buffer, cut, got, parsed, pubVars, age>>

Wake ==
  /\ at = "sleep" /\ passed >= 1
  /\ at' = "read" /\ passed' = 0 /\ attempt' = 0 /\ got' = {}
  /\ parsed' = [parsed EXCEPT !.rmc = AgeLimit, !.gga = AgeLimit]
  /\ UNCHANGED <<signal, buffer, cut, pubVars, age>>

GpsTask ==
  \/ ReadLine \/ AwaitBurst \/ ReadTimeout \/ StoreLatitude \/ StoreLongitude
  \/ Sleep    \/ Wake

Next == GpsTask \/ SignalChanges

Init ==
  /\ signal \in Signal
  /\ buffer = <<>> /\ cut = FALSE
  /\ at = "read" /\ attempt = 0 /\ got = {} /\ passed = 0
  /\ parsed = [lat |-> 0, lon |-> 0, is_valid |-> FALSE, 
               rmc |-> AgeLimit, gga |-> AgeLimit]
  /\ coord = NoFix /\ writing = {}
  /\ age = AgeLimit

\* gpsTask has the highest priority of the tasks of the program, and time passes.
Spec == Init /\ [][Next]_vars /\ WF_vars(GpsTask)

-----------------------------------------------------------------------------
(***************************************************************************)
(* Properties of the code.                                                 *)
(***************************************************************************)

\* Every variable has its type.
TypeOK ==
  /\ signal \in Signal
  /\ buffer \in Seq([kind : {"RMC", "GGA", "other"}, whole : BOOLEAN,
                     status : {"A", "V"}, fix : Position, age : Age])
  /\ cut \in BOOLEAN
  /\ at \in {"read", "store_latitude", "store_longitude", "sleep"}
  /\ attempt \in 0..MaxAttempts
  /\ got \subseteq {"RMC", "GGA"}
  /\ parsed \in [lat : Int, lon : Int, is_valid : BOOLEAN, rmc : Age, gga : Age]
  /\ passed \in 0..MaxSleep
  /\ coord \in Position
  /\ writing \subseteq Position
  /\ age \in Age

\* What gpsTask publishes is what Gps, and with it CanSat, takes it to publish: both
\* coordinates of one position that the receiver has reported, south and west
\* included, never one of a damaged line or of a sentence without a position.
Feed == INSTANCE Gps WITH
  currentState <- "RUN", pc <- "switch", out <- <<>>, cameraPin <- 0, fallPin <- 0,
  bnoReady <- FALSE, impact <- FALSE, elapsed <- 0, bodySet <- FALSE,
  before <- NoFix, pending <- {}, n <- 0, caller <- "none", gpsReady <- FALSE,
  retry <- 0, Here <- NoFix, DistanceABS <- 0, DistanceNumberABS <- 0,
  ESP32S3 <- FALSE, Target <- NoFix, FlyTimeout <- 1, CalibrateRetry <- 0,
  StuckRetryMax <- 0, GpsStanbyMaxRetry <- 0, ReceiverBuilt <- FALSE,
  ReceiverReadsPin <- FALSE
ImplementsGps == [][Feed!GpsTask]_pubVars

\* Each call takes two lines from the buffer, and the next one begins at most MaxSleep
\* seconds later: a line is at most this old when its turn comes.
Waited == (MaxSleep * (Capacity + 1) - 1) \div 2

\* RMC and GGA are collected over many lines of several seconds.  Neither the position
\* that is published nor the satellites and the altitude sent with it are older than
\* the wait in the buffer and the attempts of the call.
Fresh ==
  at = "store_latitude" =>
    /\ parsed.rmc <= Waited + MaxAttempts - 1
    /\ parsed.gga <= Waited + MaxAttempts - 1

\* No position is published that was measured before, or is, the last one.
NeverBackward == [][at = "store_longitude" /\ at' = "sleep" => age' < age]_vars

\* As long as the receiver has a position and the line to it is good, positions
\* keep being published, also after a time of noise or silence, whatever it left
\* in the buffer.
FixesKeepComing == <>[](signal = "good") => []<>(at = "store_latitude")

-----------------------------------------------------------------------------
\* GPS用コード.cpp:57: nmea_to_decimal turns ddmm.mmmm into degrees.  In the build
\* the number is overwritten before it is read: nothing that the receiver has
\* reported is ever published.
PublishedIsReceived ==
  [][at = "store_longitude" /\ at' = "sleep" => coord' \in Fixes]_vars

=============================================================================
