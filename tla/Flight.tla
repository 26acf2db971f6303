------------------------------- MODULE Flight -------------------------------
(***************************************************************************)
(* The flight software on a board that resets: CanSat together with        *)
(* Telemetry.  The first text that the main task sends, in STANDBY, and    *)
(* the first position that gpsTask sends start the radio, or wait for it;  *)
(* a failed start panics, a brownout resets the board in any phase.  What  *)
(* outlives a reset is outside of the program: the levels of the two input *)
(* pins, and those of the output pins if the chip itself goes on.          *)
(*                                                                         *)
(* A send that finds the radio active changes nothing but the packet that  *)
(* goes out; only the sends that may not are steps here.                   *)
(***************************************************************************)
EXTENDS CanSat

CONSTANTS MaxReboots   \* bound of the model: resets of one behaviour

ASSUME RebootAssumption == MaxReboots \in Nat

VARIABLES
  esp_now_init_started, is_radio_active, current_channel, stack, tuned, console,
  place, request, reboots,   \* of Telemetry
  announced,                 \* the main task has sent its first text
  owes                       \* gpsTask has a position to send

Sender == {"main", "gpsTask"}

Radio == INSTANCE Telemetry WITH
  Caller <- {}, Console <- "telemetryConsole", Request <- {}, Refused <- {}

radioVars  == <<esp_now_init_started, is_radio_active, current_channel, stack, tuned,
                console, place, request, reboots>>
linkVars   == <<announced, owes>>
flightVars == <<vars, radioVars, linkVars>>

FlightInit == Init /\ Radio!Init /\ announced = FALSE /\ owes = FALSE

-----------------------------------------------------------------------------
\* The first text is sent in STANDBY, in a pass that finds the camera pin high as
\* well as in one that does not.  No program goes on before its text is sent.
SendsText == ~announced /\ pc \in {"switch", "standby_wait"}

\* Seeded fault: the text is sent by a task of its own.
MainStep_Unannounced == MainTask /\ UNCHANGED <<radioVars, linkVars>>

MainStep ==
  /\ MainTask
  /\ place["main"] = "idle"
  /\ announced \/ Boot \/ StandbyRecognise
  /\ UNCHANGED <<radioVars, linkVars>>

\* gpsTask sends each position before it reads the next.
GpsStep ==
  /\ \E f \in Fixes :
       \/ ~owes /\ StoreLatitude(f) /\ UNCHANGED owes
       \/ StoreLongitude(f) /\ owes' = ~is_radio_active
  /\ UNCHANGED <<radioVars, announced>>

Ensure(t) ==
  /\ IF t = "main" THEN SendsText ELSE owes
  /\ Radio!Ensure(t)
  /\ UNCHANGED <<vars, linkVars>>

RadioStarts(t) ==
  /\ Radio!Wait(t) \/ Radio!Start(t) \/ Radio!Tune(t) \/ Radio!Record(t)
  /\ UNCHANGED <<vars, linkVars>>

Send(t) ==
  /\ Radio!Send(t)
  /\ announced' = (announced \/ t = "main")
  /\ owes' = (owes /\ t # "gpsTask")
  /\ UNCHANGED vars

RadioStep == \E t \in Sender : Ensure(t) \/ RadioStarts(t) \/ Send(t)

WorldStep == (Gazouhantei \/ Environment) /\ UNCHANGED <<radioVars, linkVars>>

-----------------------------------------------------------------------------
(***************************************************************************)
(* Resets.                                                                 *)
(***************************************************************************)
\* Every variable of the program is initialised anew.
Restart ==
  /\ currentState' = "STANDBY"
  /\ pc' = "boot"
  /\ bnoReady' = FALSE /\ impact' = FALSE /\ elapsed' = 0
  /\ coord' = NoFix /\ writing' = {}
  /\ bodySet' = FALSE
  /\ before' = NoFix /\ pending' = {} /\ n' = 0 /\ caller' = "none"
  /\ gpsReady' = FALSE /\ retry' = 0 /\ Here' = NoFix
  /\ DistanceABS' = Three /\ DistanceNumberABS' = Three
  /\ ESP32S3' = FALSE
  /\ announced' = FALSE /\ owes' = FALSE
  /\ UNCHANGED envVars

\* ESP_ERROR_CHECK fails in start_esp_now; the panic handler restarts the program.  The
\* pins keep their levels, and no line of the program lowers that of the wire before
\* the end of the burn.
Panic == Restart /\ UNCHANGED out /\ \E t \in Sender : Radio!Abort(t)

\* The supply breaks down, with the motors or the wire under current for example.
\* Assumed of the chip (external): the detector resets it as a whole, and its pins
\* drive nothing then, as at power-up.
Brownout == Restart /\ out' = [p \in OutPin |-> 0] /\ Radio!Reboot

Reset == Panic \/ Brownout

FlightNext == MainStep \/ GpsStep \/ RadioStep \/ WorldStep \/ Reset

(***************************************************************************)
(* Fairness: that of CanSat, and the main task comes to send its text.     *)
(***************************************************************************)
FlightFairness ==
  /\ WF_flightVars(MainStep)
  /\ SF_flightVars(MainStep /\ LockedStep)
  /\ WF_flightVars(GpsStep /\ \E f \in Fixes : StoreLongitude(f))
  /\ \A t \in Sender : WF_flightVars(Ensure(t) \/ RadioStarts(t) \/ Send(t))
  /\ WF_flightVars(WorldStep /\ Gazouhantei)

FlightSpec == FlightInit /\ [][FlightNext]_flightVars /\ FlightFairness

-----------------------------------------------------------------------------
(***************************************************************************)
(* Properties of the code.                                                 *)
(***************************************************************************)

\* Every variable has its type.
FlightTypeOK == TypeOK /\ Radio!TypeOK /\ announced \in BOOLEAN /\ owes \in BOOLEAN

\* The radio is started before the mission has left STANDBY, whichever task starts
\* it: a start that fails reboots a board that has nothing to lose.
StartsInStandby == (\E t \in Sender : Radio!InStart(t)) => currentState = "STANDBY"

\* A panic leaves the pins as they are, and after it the wire would go on burning, and
\* the motors turning, through the whole of STANDBY.  It finds them all off, since
\* the radio is started before anything is driven.
PanicLeavesAllOff ==
  [][Panic => HighMotors' = {} /\ out'["NICROM"] = 0]_flightVars

\* Between two resets the software keeps the promises of Mission; after one, the
\* mission begins anew, and burns its wire anew.
MissionBetweenResets ==
  [][reboots' = reboots => M!Next \/ UNCHANGED M!vars]_flightVars

\* A mission that was reset is flown to RUN again and stays there, wherever it was
\* cut off, if the camera still shows what was on the pad and the fall pin is out.
RestartResumes ==
  <>[](cameraPin = 1 /\ fallPin = 1) => <>[](currentState \in {"RUN", "GOAL"})

-----------------------------------------------------------------------------
(***************************************************************************)
(* The inductive invariant behind StartsInStandby (FlightProofs).          *)
(***************************************************************************)
RadioFirst ==
  /\ place \in [Radio!Task -> Radio!Starting \cup {"idle", "wait", "send", "store"}]
  /\ reboots \in Nat
  /\ Radio!StartsOnce
  /\ is_radio_active => esp_now_init_started
  /\ \A t \in Sender :
       /\ Radio!InStart(t) => esp_now_init_started
       /\ place[t] = "send" => is_radio_active
  /\ announced => is_radio_active
  /\ ~announced => currentState = "STANDBY" /\ pc \in {"boot", "switch", "standby_wait"}
=============================================================================
