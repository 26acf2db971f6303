-------------------------- MODULE CanSatRefinement --------------------------
(***************************************************************************)
(* CanSat implements the safety part of Mission: the initial states map to *)
(* its initial state and every step maps to one of its steps or to a       *)
(* stutter, under the invariant of CanSatProofs.                           *)
(***************************************************************************)
EXTENDS CanSatProofs

USE DEF envVars, imuVars, gpsVars, manoeuvre, runVars, Selected, Goto, MuxFree

\* At reset no pin is high and the mission stands by.
LEMMA InitMission == Init => M!Init
BY DEF Init, M!Init, Wire, Wheels, HighMotors, OutPin

\* A step of the code is a step of Mission or leaves its three variables alone.
LEMMA StepMission == IInv /\ [Next]_vars => [M!Next]_(M!vars)
<1>. SUFFICES ASSUME IInv, [Next]_vars
              PROVE  M!Next \/ UNCHANGED M!vars
  OBVIOUS
<1>i. TypeOK /\ PlaceInv /\ PinInv /\ PinInv'
  BY NextPinInv DEF IInv
<1>s. ASSUME NEW lows, NEW highs, out' = SetLevel(lows, highs)
      PROVE  /\ HighMotors' = (HighMotors \ lows) \cup (highs \cap MotorPin)
             /\ out'["NICROM"] = IF "NICROM" \in highs THEN 1
                                 ELSE IF "NICROM" \in lows THEN 0 ELSE out["NICROM"]
  BY <1>i, <1>s, SetLevelEffect
<1>k. ASSUME UNCHANGED out
      PROVE  UNCHANGED Wheels
  BY <1>k DEF HighMotors, Wheels
\* A step that leaves the pins and the phase alone, and is not at the dispatch.
<1>u. ASSUME UNCHANGED <<out, currentState>>,
             currentState = "START" => UNCHANGED pc
      PROVE  UNCHANGED M!vars
  BY <1>u, <1>k DEF M!vars, Wire
\* A step of a manoeuvre: the phase stays, the wire is spent before and after it.
<1>d. ASSUME UNCHANGED currentState, currentState \in {"START", "RUN", "GOAL"},
             pc # "burn", pc' # "burn",
             currentState = "START" => pc # "switch" /\ pc' # "switch"
      PROVE  M!Next \/ UNCHANGED M!vars
  <2>1. Wire = "spent" /\ Wire' = "spent"
    BY <1>d, <1>i DEF Wire, PinInv
  <2>. QED
    BY <1>d, <2>1 DEF M!Next, M!Drive, M!vars, Wheels
\* The end of START: the phase moves to RUN and the motors are off.
<1>h. ASSUME currentState = "START", currentState' = "RUN", HighMotors' = {},
             pc \notin {"burn", "switch"}, pc' # "burn"
      PROVE  M!Next
  <2>1. Wire = "spent" /\ Wire' = "spent"
    BY <1>h, <1>i DEF Wire, PinInv
  <2>. QED
    BY <1>h, <2>1 DEF M!Next, M!HandOver, Wheels
<1>1. CASE Boot \/ StandbyRecognise \/ Goal
  BY <1>1, <1>i, <1>u DEF Boot, StandbyRecognise, Goal, PlaceInv
<1>2. CASE StandbyDone
  <2>1. /\ currentState = "STANDBY" /\ currentState' = "FRYING"
        /\ UNCHANGED <<HighMotors, out["NICROM"]>>
    BY <1>2, <1>i, <1>s DEF StandbyDone, PlaceInv, MotorPin
  <2>. QED
    BY <2>1 DEF M!Next, M!Launch, Wire, Wheels
<1>3. CASE FryingPinOut \/ FryingSample \/ FryingLoopEnd \/ FryingImpact \/ FryingMissed
  BY <1>3, <1>i, <1>u DEF FryingPinOut, FryingSample, FryingLoopEnd, FryingImpact,
     FryingMissed, PlaceInv
<1>4. CASE FryingTimedOut \/ FryingSettled
  <2>1. /\ currentState = "FRYING" /\ currentState' = "START" /\ pc' = "switch"
        /\ UNCHANGED out
    BY <1>4, <1>i DEF FryingTimedOut, FryingSettled, PlaceInv
  <2>. QED
    BY <2>1, <1>k DEF M!Next, M!Separate, Wire
<1>5. CASE StartBurn
  <2>1. HighMotors = {} /\ Wire = "unused"
    BY <1>5, <1>i DEF StartBurn, PinInv, Wire
  <2>2. Wire' = "burning" /\ HighMotors' = {}
    BY <1>5, <1>i DEF StartBurn, PinInv, Wire, TypeOK
  <2>. QED
    BY <1>5, <2>1, <2>2 DEF StartBurn, M!Next, M!Ignite, Wheels
<1>6. CASE BurnEnd
  <2>1. currentState = "START" /\ HighMotors = {} /\ HighMotors' = {}
    BY <1>6, <1>i DEF BurnEnd, PinInv, PlaceInv
  <2>2. Wire = "burning" /\ Wire' = "spent"
    BY <1>6, <2>1, <1>i DEF BurnEnd, PinInv, Wire
  <2>. QED
    BY <1>6, <2>1, <2>2 DEF BurnEnd, M!Next, M!PutOut, Wheels
<1>7. CASE CalibrateDrive
  BY <1>7, <1>d, <1>i DEF CalibrateDrive, PlaceInv
<1>8. CASE CalibrateOk
  <2>1. HighMotors' = {}
    BY <1>8, <1>i, <1>s DEF CalibrateOk, PinInv, Ahead
  <2>. QED
    BY <1>8, <1>i, <1>h, <2>1 DEF CalibrateOk, PlaceInv
<1>9. CASE CalibrateStuck
  <2>1. HighMotors' = {}
    BY <1>9, <1>i, <1>s DEF CalibrateStuck, PinInv, Ahead
  <2>2. CASE currentState' = "RUN"
    BY <1>9, <1>i, <1>h, <2>1, <2>2 DEF CalibrateStuck, CallStuck, PlaceInv
  <2>3. CASE UNCHANGED currentState
    BY <1>9, <1>i, <1>d, <2>3 DEF CalibrateStuck, CallStuck, PlaceInv
  <2>. QED
    BY <1>9, <2>2, <2>3 DEF CalibrateStuck
<1>10. CASE Unstick
  <2>. USE DEF PlaceInv, StuckPlace
  <2>1. ASSUME NEW c \in {"lat", "lon"}, StuckArgument(c)
        PROVE  M!Next \/ UNCHANGED M!vars
    BY <2>1, <1>d, <1>i DEF StuckArgument
  <2>2. CASE StuckSpinRight \/ StuckForward
    BY <2>2, <1>d, <1>i DEF StuckSpinRight, StuckForward
  <2>3. CASE StuckAgain
    BY <2>3, <1>d, <1>i DEF StuckAgain, CallStuck
  <2>4. CASE StuckEnd
    <3>1. HighMotors' = {}
      BY <2>4, <1>i, <1>s DEF StuckEnd, PinInv
    <3>2. CASE caller = "start"
      BY <2>4, <3>1, <3>2, <1>h, <1>i DEF StuckEnd, ReturnFromStuck, Continuation
    <3>3. CASE caller \in {"drive", "cone"}
      BY <2>4, <3>3, <1>d, <1>i DEF StuckEnd, ReturnFromStuck, Continuation
    <3>. QED
      BY <2>4, <3>2, <3>3, <1>i DEF StuckEnd, TypeOK
  <2>. QED
    BY <1>10, <2>1, <2>2, <2>3, <2>4 DEF Unstick
<1>11. CASE Run
  <2>. USE DEF PlaceInv, DrivePlace
  <2>1. CASE RunEnter \/ GpsAcquired \/ GpsRetry \/ GpsGiveUp
    BY <2>1, <1>u, <1>i DEF RunEnter, GpsAcquired, GpsRetry, GpsGiveUp
  <2>2. CASE DriveCheck \/ SearchCheck \/ SearchEnd
    BY <2>2, <1>u, <1>i DEF DriveCheck, SearchCheck, SearchEnd
  <2>3. CASE Navigate \/ DriveBefore \/ SearchSpin
    BY <2>3, <1>d, <1>i DEF Navigate, DriveBefore, SearchSpin
  <2>4. CASE DriveAfter
    <3>1. caller \in {"drive", "cone"}
      BY <2>4, <1>i DEF DriveAfter
    <3>. QED
      BY <2>4, <3>1, <1>d, <1>i DEF DriveAfter, CallStuck, Continuation
  <2>5. CASE ConeCheck
    <3>1. currentState = "RUN" /\ Wire = "spent" /\ Wire' = "spent" /\ UNCHANGED Wheels
      BY <2>5, <1>i, <1>k DEF ConeCheck, Wire, PinInv
    <3>. QED
      BY <2>5, <3>1 DEF ConeCheck, M!Next, M!Arrive, M!vars
  <2>. QED
    BY <1>11, <2>1, <2>2, <2>3, <2>4, <2>5 DEF Run
<1>12. CASE GpsTask \/ Gazouhantei \/ Environment \/ UNCHANGED vars
  BY <1>12, <1>u
  DEF GpsTask, StoreLatitude, StoreLongitude, Gazouhantei, Environment, vars
<1>. QED
  BY <1>1, <1>2, <1>3, <1>4, <1>5, <1>6, <1>7, <1>8, <1>9, <1>10, <1>11, <1>12
  DEF Next, MainTask, Frying, Start

\* However gpsTask, the receiver and the two pins interleave with the programs, the
\* phases, the wire and the wheels of the code behave as Mission says.
THEOREM MissionSafe == Spec => M!Safe
<1>1. Init => M!Init
  BY InitMission
<1>2. IInv /\ [Next]_vars => [M!Next]_(M!vars)
  BY StepMission
<1>. QED
  BY <1>1, <1>2, Inductive, PTL DEF Spec, M!Safe
=============================================================================
