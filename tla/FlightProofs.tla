---------------------------- MODULE FlightProofs ----------------------------
(***************************************************************************)
(* The safety properties of Flight.                                        *)
(*                                                                         *)
(* StartsInStandby is not inductive: that the main task has not left       *)
(* STANDBY while a sender starts the radio follows from the order of two   *)
(* facts, the first text sent only once the radio is active and no phase   *)
(* left before the first text (RadioFirst).  The pins that a panic leaves  *)
(* as they are rest on the same facts.                                     *)
(***************************************************************************)
EXTENDS Flight, CanSatRefinement

\* Steps of the programs are steps of CanSat.
LEMMA ProgramStep ==
  MainStep \/ GpsStep \/ WorldStep \/ UNCHANGED vars => [Next]_vars
BY DEF MainStep, GpsStep, WorldStep, Next, GpsTask

\* The radio's steps leave the programs alone.
LEMMA RadioStutter == RadioStep => UNCHANGED vars
BY DEF RadioStep, Ensure, RadioStarts, Send

\* A panic comes before the main task has sent its first text: it waits in STANDBY,
\* with nothing driven.
LEMMA PanicAtRest ==
  IInv /\ RadioFirst /\ Panic => /\ HighMotors = {} /\ HighMotors' = {}
                                /\ out["NICROM"] = 0 /\ out'["NICROM"] = 0
<1>. SUFFICES ASSUME IInv, RadioFirst, Panic
              PROVE  /\ HighMotors = {} /\ HighMotors' = {}
                     /\ out["NICROM"] = 0 /\ out'["NICROM"] = 0
  OBVIOUS
<1>1. PICK t \in Sender : Radio!InStart(t)
  BY DEF Panic, Radio!Abort, Radio!InStart, Radio!Starting
<1>2. ~is_radio_active
  BY <1>1 DEF RadioFirst, Radio!StartsOnce
<1>3. currentState = "STANDBY" /\ pc # "burn"
  BY <1>2 DEF RadioFirst
<1>4. HighMotors = {} /\ out["NICROM"] # 1
  BY <1>3 DEF IInv, PinInv
<1>5. out["NICROM"] \in {0, 1}
  BY DEF IInv, TypeOK, OutPin
<1>6. UNCHANGED <<out, HighMotors>>
  BY DEF Panic, HighMotors
<1>. QED
  BY <1>4, <1>5, <1>6

\* A reset finds or makes the pins as they are at power-up.
LEMMA ResetPins ==
  IInv /\ RadioFirst /\ Reset => /\ Restart
                                /\ out' \in [OutPin -> {0, 1}]
                                /\ HighMotors' = {} /\ out'["NICROM"] = 0
<1>. SUFFICES ASSUME IInv, RadioFirst, Reset
              PROVE  /\ Restart
                     /\ out' \in [OutPin -> {0, 1}]
                     /\ HighMotors' = {} /\ out'["NICROM"] = 0
  OBVIOUS
<1>1. CASE Panic
  BY <1>1, PanicAtRest DEF Panic, IInv, TypeOK
<1>2. CASE Brownout
  BY <1>2 DEF Brownout, HighMotors, OutPin
<1>. QED
  BY <1>1, <1>2 DEF Reset

\* It leads to a state in which the invariant of the programs holds again.
LEMMA ResetIInv == IInv /\ RadioFirst /\ Reset => IInv'
<1>. SUFFICES ASSUME IInv, RadioFirst, Reset
              PROVE  IInv'
  OBVIOUS
<1>r. /\ Restart
      /\ out' \in [OutPin -> {0, 1}]
      /\ HighMotors' = {} /\ out'["NICROM"] = 0
  BY ResetPins
<1>1. TypeOK'
  <2>1. NoFix \in Position /\ Three \in Distance /\ 0 \in 0..FlyTimeout
    BY RetryAssumption DEF NoFix, Position, Distance, Three
  <2>2. n' \in 0..StuckRetryMax /\ retry' \in 0..GpsStanbyMaxRetry
    BY <1>r, RetryAssumption DEF Restart
  <2>. QED
    BY <1>r, <2>1, <2>2 DEF Restart, IInv, TypeOK, Place, CanSatState, envVars
<1>2. PlaceInv'
  BY <1>r DEF Restart, PlaceInv, StuckPlace, DrivePlace
<1>3. PinInv'
  BY <1>r DEF Restart, PinInv
<1>4. DistanceInv'
  BY <1>r DEF Restart, DistanceInv, GoalIsNear
<1>5. PositionInv'
  BY <1>r DEF Restart, PositionInv, LockedReadsAreWhole, WholeFix, MuxFree
<1>. QED
  BY <1>1, <1>2, <1>3, <1>4, <1>5 DEF IInv

\* The invariant of the programs survives the radio and any number of resets.
LEMMA FlightIInv == IInv /\ RadioFirst /\ [FlightNext]_flightVars => IInv'
<1>. SUFFICES ASSUME IInv, RadioFirst, [FlightNext]_flightVars
              PROVE  IInv'
  OBVIOUS
<1>n. ASSUME [Next]_vars
      PROVE  IInv'
  BY <1>n, NextTypeOK, NextPlaceInv, NextPinInv, NextDistanceInv, NextPositionInv
  DEF IInv
<1>1. CASE MainStep \/ GpsStep \/ WorldStep
  BY <1>1, <1>n, ProgramStep
<1>2. CASE RadioStep
  BY <1>2, <1>n, RadioStutter
<1>3. CASE Reset
  BY <1>3, ResetIInv
<1>4. CASE UNCHANGED flightVars
  BY <1>4, <1>n DEF flightVars
<1>. QED
  BY <1>1, <1>2, <1>3, <1>4 DEF FlightNext

-----------------------------------------------------------------------------
\* Every variable starts with its type.
LEMMA InitFlightTypeOK == FlightInit => FlightTypeOK
<1>. SUFFICES ASSUME FlightInit
              PROVE  FlightTypeOK
  OBVIOUS
<1>1. 1 \in Radio!Channel /\ 0 \in 0..MaxReboots
  BY RebootAssumption DEF Radio!Channel
<1>2. /\ place \in [Radio!Task -> Radio!Starting \cup {"idle", "wait", "send", "store"}]
      /\ request \in [Radio!Task -> Radio!Channel]
  BY <1>1 DEF FlightInit, Radio!Init, Radio!Everywhere
<1>. QED
  BY <1>1, <1>2, InitTypeOK DEF FlightInit, Radio!Init, FlightTypeOK, Radio!TypeOK

\* Every step keeps the types.
LEMMA NextFlightTypeOK ==
  IInv /\ RadioFirst /\ FlightTypeOK /\ [FlightNext]_flightVars => FlightTypeOK'
<1>. SUFFICES ASSUME IInv, RadioFirst, FlightTypeOK, [FlightNext]_flightVars
              PROVE  FlightTypeOK'
  OBVIOUS
<1>t. Sender \subseteq Radio!Task
  BY DEF Radio!Task
<1>p. TypeOK'
  BY FlightIInv DEF IInv
<1>. USE DEF FlightTypeOK, Radio!TypeOK, Radio!Starting
<1>u. ASSUME UNCHANGED radioVars, announced' \in BOOLEAN, owes' \in BOOLEAN
      PROVE  FlightTypeOK'
  BY <1>u, <1>p DEF radioVars
<1>1. CASE MainStep \/ GpsStep \/ WorldStep
  BY <1>1, <1>u DEF MainStep, GpsStep, WorldStep, linkVars
<1>2. ASSUME NEW t \in Sender, Ensure(t) \/ Send(t)
      PROVE  FlightTypeOK'
  BY <1>2, <1>t, <1>p DEF Ensure, Send, Radio!Ensure, Radio!Send, Radio!Move, Radio!flags,
     Radio!radio, linkVars
<1>3. ASSUME NEW t \in Sender, RadioStarts(t)
      PROVE  FlightTypeOK'
  <2>. USE <1>p, <1>t DEF Radio!Move, Radio!flags, Radio!radio
  <2>u. announced' \in BOOLEAN /\ owes' \in BOOLEAN
    BY <1>3 DEF RadioStarts, linkVars
  <2>1. CASE Radio!Wait(t) \/ Radio!Tune(t) \/ Radio!Record(t)
    BY <2>1, <2>u DEF Radio!Wait, Radio!Tune, Radio!Record
  <2>2. CASE Radio!StartWifi(t) \/ Radio!StartEspNow(t) \/ Radio!AddPeer(t)
    BY <2>2, <2>u DEF Radio!StartWifi, Radio!StartEspNow, Radio!AddPeer
  <2>3. CASE Radio!CreateConsole(t) \/ Radio!Activate(t)
    BY <2>3, <2>u DEF Radio!CreateConsole, Radio!Activate
  <2>. QED
    BY <1>3, <2>1, <2>2, <2>3 DEF RadioStarts, Radio!Start
<1>4. CASE Reset
  <2>1. Radio!Reboot /\ announced' = FALSE /\ owes' = FALSE
    BY <1>4 DEF Reset, Panic, Brownout, Restart, Radio!Abort
  <2>2. 1 \in Radio!Channel /\ reboots' \in 0..MaxReboots
    BY <2>1, RebootAssumption DEF Radio!Channel, Radio!Reboot
  <2>3. /\ place' \in [Radio!Task -> Radio!Starting \cup {"idle", "wait", "send", "store"}]
        /\ request' \in [Radio!Task -> Radio!Channel]
    BY <2>1, <2>2 DEF Radio!Reboot, Radio!Everywhere
  <2>. QED
    BY <2>1, <2>2, <2>3, <1>p DEF Radio!Reboot
<1>5. CASE UNCHANGED flightVars
  BY <1>5, <1>u DEF flightVars, linkVars
<1>. QED
  BY <1>1, <1>2, <1>3, <1>4, <1>5 DEF FlightNext, RadioStep

-----------------------------------------------------------------------------
\* At power-up nobody sends and the mission stands by.
LEMMA InitRadioFirst == FlightInit => RadioFirst
BY RebootAssumption DEF FlightInit, Init, RadioFirst, Sender, Radio!Init, Radio!Everywhere,
   Radio!Task, Radio!StartsOnce, Radio!InStart, Radio!Starting

\* Every step keeps the order: the radio first, then the text, then the phases.
LEMMA NextRadioFirst == RadioFirst /\ [FlightNext]_flightVars => RadioFirst'
<1>. SUFFICES ASSUME RadioFirst, [FlightNext]_flightVars
              PROVE  RadioFirst'
  OBVIOUS
<1>t. Sender \subseteq Radio!Task
  BY DEF Radio!Task
<1>. USE DEF RadioFirst, Radio!StartsOnce, Radio!InStart, Radio!Starting
<1>u. ASSUME UNCHANGED radioVars, UNCHANGED announced,
             ~announced => /\ currentState' = currentState
                           /\ pc' \in {"boot", "switch", "standby_wait"}
      PROVE  RadioFirst'
  BY <1>u DEF radioVars, Radio!Task
<1>1. CASE MainStep
  <2>1. ~announced => currentState' = currentState /\ pc' \in {"switch", "standby_wait"}
    BY <1>1 DEF MainStep, Boot, StandbyRecognise, Goto
  <2>. QED
    BY <1>1, <2>1, <1>u DEF MainStep, linkVars
<1>2. CASE GpsStep \/ WorldStep
  <2>1. UNCHANGED <<currentState, pc>>
    BY <1>2 DEF GpsStep, WorldStep, StoreLatitude, StoreLongitude, Gazouhantei, Environment
  <2>. QED
    BY <1>2, <2>1, <1>u DEF GpsStep, WorldStep, linkVars
<1>3. ASSUME NEW t \in Sender, Ensure(t)
      PROVE  RadioFirst'
  BY <1>3, <1>t DEF Ensure, Radio!Ensure, Radio!Move, vars, linkVars
<1>4. ASSUME NEW t \in Sender, RadioStarts(t)
      PROVE  RadioFirst'
  <2>. USE <1>t DEF Radio!Move, Radio!flags, Radio!radio
  <2>u. UNCHANGED <<currentState, pc, announced>>
    BY <1>4 DEF RadioStarts, vars, linkVars
  <2>1. CASE Radio!Wait(t) \/ Radio!Tune(t) \/ Radio!Record(t)
    BY <2>1, <2>u DEF Radio!Wait, Radio!Tune, Radio!Record
  <2>2. CASE Radio!StartWifi(t) \/ Radio!StartEspNow(t) \/ Radio!AddPeer(t)
    BY <2>2, <2>u DEF Radio!StartWifi, Radio!StartEspNow, Radio!AddPeer
  <2>3. CASE Radio!CreateConsole(t)
    BY <2>3, <2>u DEF Radio!CreateConsole
  <2>4. CASE Radio!Activate(t)
    BY <2>4, <2>u DEF Radio!Activate
  <2>. QED
    BY <1>4, <2>1, <2>2, <2>3, <2>4 DEF RadioStarts, Radio!Start
<1>5. ASSUME NEW t \in Sender, Send(t)
      PROVE  RadioFirst'
  BY <1>5, <1>t DEF Send, Radio!Send, Radio!Move, Radio!flags, vars
<1>6. CASE Reset
  BY <1>6, <1>t DEF Reset, Panic, Brownout, Radio!Abort, Radio!Reboot, Radio!Everywhere, Restart
<1>7. CASE UNCHANGED flightVars
  BY <1>7, <1>u DEF flightVars, linkVars, vars
<1>. QED
  BY <1>1, <1>2, <1>3, <1>4, <1>5, <1>6, <1>7 DEF FlightNext, RadioStep

\* The invariants together.
LEMMA FlightInductive == FlightSpec => [](IInv /\ FlightTypeOK /\ RadioFirst)
<1>1. FlightInit => IInv /\ FlightTypeOK /\ RadioFirst
  BY InitIInv, InitFlightTypeOK, InitRadioFirst DEF FlightInit
<1>2. IInv /\ FlightTypeOK /\ RadioFirst /\ [FlightNext]_flightVars
      => (IInv /\ FlightTypeOK /\ RadioFirst)'
  BY FlightIInv, NextFlightTypeOK, NextRadioFirst
<1>. QED
  BY <1>1, <1>2, PTL DEF FlightSpec

\* What the proofs of CanSat rest on holds also on a board that resets: the distance
\* is the one to Here, the position whole while gps_mux is free, the pins as every
\* manoeuvre expects them.
THEOREM FlightInvariant == FlightSpec => []IInv
BY FlightInductive, PTL

\* No panic leaves the wire under current, or a motor turning.
THEOREM PanicLeavesNothingOn == FlightSpec => PanicLeavesAllOff
<1>. DEFINE Off == Panic => HighMotors' = {} /\ out'["NICROM"] = 0
<1>1. IInv /\ RadioFirst /\ [FlightNext]_flightVars => [Off]_flightVars
  BY PanicAtRest
<1>. QED
  BY <1>1, FlightInductive, PTL DEF FlightSpec, PanicLeavesAllOff

\* An attempt of Stuck that a reset cuts off ends with the motors off as well.
THEOREM FlightMotorsOff == FlightSpec => AttemptEndsWithMotorsOff
<1>. DEFINE Off == pc = "stuck_forward" /\ pc' # "stuck_forward" => HighMotors' = {}
<1>1. ASSUME IInv, RadioFirst, [FlightNext]_flightVars
      PROVE  Off
  <2>n. ASSUME [Next]_vars
        PROVE  Off
    BY <1>1, <2>n, AttemptEnds
  <2>1. CASE MainStep \/ GpsStep \/ WorldStep
    BY <2>1, <2>n, ProgramStep
  <2>2. CASE RadioStep \/ UNCHANGED flightVars
    BY <2>2, <2>n, RadioStutter DEF flightVars
  <2>3. CASE Reset
    BY <1>1, <2>3, ResetPins
  <2>. QED
    BY <1>1, <2>1, <2>2, <2>3 DEF FlightNext
<1>2. IInv /\ RadioFirst /\ [FlightNext]_flightVars => [Off]_vars
  BY <1>1
<1>. QED
  BY <1>2, FlightInductive, PTL DEF FlightSpec, AttemptEndsWithMotorsOff

\* With the receiver as written, or none, no number of restarts brings the mission
\* to GOAL.
THEOREM FlightNeverAtGoal == FlightSpec => []GoalNeedsReceiver
<1>1. FlightInit => BlindInv
  BY InitBlindInv DEF FlightInit
<1>2. ASSUME IInv, BlindInv, [FlightNext]_flightVars
      PROVE  BlindInv'
  <2>n. ASSUME [Next]_vars
        PROVE  BlindInv'
    BY <1>2, <2>n, NextBlindInv DEF IInv
  <2>1. CASE MainStep \/ GpsStep \/ WorldStep
    BY <2>1, <2>n, ProgramStep
  <2>2. CASE RadioStep \/ UNCHANGED flightVars
    BY <2>2, <2>n, RadioStutter DEF flightVars
  <2>3. CASE Reset
    BY <2>3 DEF Reset, Panic, Brownout, Restart, BlindInv, DrivePlace, ConeIsRead
  <2>. QED
    BY <1>2, <2>1, <2>2, <2>3 DEF FlightNext
<1>3. BlindInv => GoalNeedsReceiver
  BY DEF BlindInv, GoalNeedsReceiver
<1>. QED
  BY <1>1, <1>2, <1>3, FlightInductive, PTL DEF FlightSpec

\* Every variable keeps its type, resets included.
THEOREM FlightTypeCorrect == FlightSpec => []FlightTypeOK
BY FlightInductive, PTL

\* Whichever task's first send starts the radio, and however they interleave, the
\* mission stands by until the start is over: a start that fails costs no mission.
THEOREM RadioStartsInStandby == FlightSpec => []StartsInStandby
<1>1. RadioFirst => StartsInStandby
  BY DEF RadioFirst, StartsInStandby, Radio!StartsOnce
<1>. QED
  BY <1>1, FlightInductive, PTL

\* Between two resets the phases, the wire and the wheels behave as Mission says,
\* whatever the two tasks and the radio do.
THEOREM FlightKeepsMission == FlightSpec => MissionBetweenResets
<1>1. ASSUME IInv, RadioFirst, [FlightNext]_flightVars, reboots' = reboots
      PROVE  M!Next \/ UNCHANGED M!vars
  <2>n. ASSUME [Next]_vars
        PROVE  M!Next \/ UNCHANGED M!vars
    BY <1>1, <2>n, StepMission
  <2>1. CASE MainStep \/ GpsStep \/ WorldStep
    BY <2>1, <2>n, ProgramStep
  <2>2. CASE RadioStep
    BY <2>2, <2>n, RadioStutter
  <2>3. CASE Reset
    BY <1>1, <2>3 DEF Reset, Panic, Brownout, Radio!Abort, Radio!Reboot, RadioFirst
  <2>4. CASE UNCHANGED flightVars
    BY <2>4, <2>n DEF flightVars
  <2>. QED
    BY <1>1, <2>1, <2>2, <2>3, <2>4 DEF FlightNext
<1>. QED
  BY <1>1, FlightInductive, PTL DEF FlightSpec, MissionBetweenResets

-----------------------------------------------------------------------------
(***************************************************************************)
(* The radio in the composition keeps the promises of Telemetry.  Its      *)
(* proofs are those of TelemetryProofs, with the two tasks of Flight for   *)
(* the senders and with nobody who asks for a channel; the one step they   *)
(* do not know is the brownout.                                            *)
(***************************************************************************)
Proved == INSTANCE TelemetryProofs WITH
  Caller <- {}, Console <- "telemetryConsole", Request <- {}, Refused <- {}

\* Both instances say the same.
LEMMA SameRadio ==
  /\ Radio!TypeOK <=> Proved!TypeOK
  /\ Radio!StartInv <=> Proved!StartInv
  /\ Radio!Served <=> Proved!Served
<1>1. Radio!TypeOK <=> Proved!TypeOK
  BY DEF Radio!TypeOK, Proved!TypeOK, Radio!Starting, Proved!Starting, Radio!Channel,
     Proved!Channel, Radio!Task, Proved!Task
<1>2. Radio!StartInv <=> Proved!StartInv
  BY DEF Radio!StartInv, Proved!StartInv, Radio!StartsOnce, Proved!StartsOnce,
     Radio!Progress, Proved!Progress, Radio!Up, Proved!Up, Radio!InStart,
     Proved!InStart, Radio!Starting, Proved!Starting
<1>3. Radio!Served <=> Proved!Served
  BY DEF Radio!Served, Proved!Served, Radio!InStart, Proved!InStart, Radio!Starting,
     Proved!Starting
<1>. QED
  BY <1>1, <1>2, <1>3

\* Between two resets every step of the composition is a step of Telemetry or leaves
\* the radio alone.
LEMMA RadioSteps ==
  ASSUME [FlightNext]_flightVars, ~Reset
  PROVE  [Proved!Next]_(Proved!vars)
<1>. USE DEF Radio!Move, Proved!Move, Radio!flags, Proved!flags, Radio!radio,
     Proved!radio
<1>u. ASSUME UNCHANGED radioVars
      PROVE  UNCHANGED Proved!vars
  BY <1>u DEF radioVars, Proved!vars
<1>1. CASE MainStep \/ GpsStep \/ WorldStep \/ UNCHANGED flightVars
  BY <1>1, <1>u DEF MainStep, GpsStep, WorldStep, flightVars
<1>2. ASSUME NEW t \in Sender, Ensure(t) \/ Send(t)
      PROVE  Proved!Next
  BY <1>2 DEF Ensure, Send, Radio!Ensure, Radio!Send, Proved!Next, Proved!Ensure,
     Proved!Send
<1>3. ASSUME NEW t \in Sender, RadioStarts(t)
      PROVE  Proved!Next
  <2>t. t \in Proved!Task
    BY DEF Proved!Task
  <2>1. CASE Radio!Wait(t)
    BY <2>1 DEF Radio!Wait, Proved!Wait, Proved!Next
  <2>2. CASE Radio!Tune(t) \/ Radio!Record(t)
    BY <2>2, <2>t DEF Radio!Tune, Radio!Record, Proved!Tune, Proved!Record, Proved!Next
  <2>3. CASE Radio!Start(t)
    <3>1. Proved!Start(t)
      BY <2>3 DEF Radio!Start, Radio!StartWifi, Radio!StartEspNow, Radio!AddPeer,
         Radio!CreateConsole, Radio!Activate, Radio!Channel, Proved!Start,
         Proved!StartWifi, Proved!StartEspNow, Proved!AddPeer, Proved!CreateConsole,
         Proved!Activate, Proved!Channel
    <3>. QED
      BY <3>1 DEF Proved!Next
  <2>. QED
    BY <1>3, <2>1, <2>2, <2>3 DEF RadioStarts
<1>. QED
  BY <1>1, <1>2, <1>3 DEF FlightNext, RadioStep

\* Resets included, the order of the start holds, and nobody waits for nothing.
LEMMA FlightRadio == FlightSpec => [](Radio!StartInv /\ Radio!Served)
<1>a. Proved!TaskAssumption /\ Proved!RequestAssumption
  BY RebootAssumption DEF Sender, Proved!TaskAssumption, Proved!RequestAssumption
<1>t. Sender \subseteq Radio!Task
  BY DEF Radio!Task
<1>i. ASSUME \A t \in Sender : place[t] = "idle", stack = "off", console = FALSE,
             esp_now_init_started = FALSE, is_radio_active = FALSE
      PROVE  Radio!StartInv /\ Radio!Served
  BY <1>i DEF Radio!StartInv, Radio!Served, Radio!StartsOnce, Radio!Progress, Radio!Up,
     Radio!InStart, Radio!Starting
<1>1. FlightInit => Radio!StartInv /\ Radio!Served
  BY <1>i, <1>t DEF FlightInit, Radio!Init, Radio!Everywhere
<1>2. ASSUME FlightTypeOK, Radio!StartInv, Radio!Served, [FlightNext]_flightVars
      PROVE  (Radio!StartInv /\ Radio!Served)'
  <2>1. CASE Reset
    <3>1. /\ \A t \in Sender : place'[t] = "idle"
          /\ stack' = "off" /\ console' = FALSE
          /\ esp_now_init_started' = FALSE /\ is_radio_active' = FALSE
      BY <2>1, <1>t DEF Reset, Panic, Brownout, Radio!Abort, Radio!Reboot, Radio!Everywhere
    <3>. QED
      BY <3>1 DEF Radio!StartInv, Radio!Served, Radio!StartsOnce, Radio!Progress,
         Radio!Up, Radio!InStart, Radio!Starting
  <2>2. CASE ~Reset
    <3>1. Proved!TypeOK /\ Proved!StartInv /\ Proved!Served
      BY <1>2, SameRadio DEF FlightTypeOK
    <3>2. Proved!StartInv' /\ Proved!Served'
      BY <1>a, <1>2, <2>2, <3>1, RadioSteps, Proved!NextStartInv, Proved!NextServed
    <3>. QED
      BY <3>2, SameRadio, PTL
  <2>. QED
    BY <2>1, <2>2
<1>. QED
  BY <1>1, <1>2, FlightInductive, PTL DEF FlightSpec

\* On a board that panics and browns out, too, no task sends before ESP-NOW is up.
THEOREM FlightSendsReady == FlightSpec => []Radio!SendsWhenReady
<1>1. Radio!StartInv => Radio!SendsWhenReady
  BY DEF Radio!StartInv, Radio!Progress, Radio!Up, Radio!SendsWhenReady
<1>. QED
  BY <1>1, FlightRadio, PTL

\* And whoever waits for the radio waits for a task that is starting it.
THEOREM FlightWaitServed == FlightSpec => []Radio!WaitIsServed
<1>1. Radio!Served => Radio!WaitIsServed
  BY DEF Radio!Served, Radio!WaitIsServed
<1>. QED
  BY <1>1, FlightRadio, PTL
=============================================================================
