---------------------------- MODULE CanSatProofs ----------------------------
(***************************************************************************)
(* The safety properties of CanSat, proved for every set of fixes, every   *)
(* target, every number of retries, and with or without the receiver.      *)
(*                                                                         *)
(* None of them is inductive.  GoalIsNear needs to know where between the  *)
(* measurement and the test of the distance the main task stands;          *)
(* AttemptEndsWithMotorsOff which pins each leg of Stuck can find high;    *)
(* LockedReadsAreWhole that the position is whole while gps_mux is free.   *)
(* IInv is the conjunction of those facts, one lemma below for each part.  *)
(***************************************************************************)
EXTENDS CanSat, TLAPS

\* A distance is always one of the five bands.
LEMMA DistType ==
  ASSUME NEW p, NEW q
  PROVE  Dist(p, q) \in Distance
BY DEF Dist, Distance, Moved, Half, One, Three

\* gpio_set_level changes the pins it is given and keeps the rest.
LEMMA SetLevelEffect ==
  ASSUME TypeOK, NEW lows, NEW highs, out' = SetLevel(lows, highs)
  PROVE  /\ out' \in [OutPin -> {0, 1}]
         /\ HighMotors' = (HighMotors \ lows) \cup (highs \cap MotorPin)
         /\ out'["NICROM"] = IF "NICROM" \in highs THEN 1
                             ELSE IF "NICROM" \in lows THEN 0 ELSE out["NICROM"]
<1>1. out' \in [OutPin -> {0, 1}]
  BY DEF TypeOK, SetLevel
<1>2. MotorPin \subseteq OutPin /\ "NICROM" \in OutPin
  BY DEF OutPin
<1>3. \A p \in OutPin :
        out'[p] = IF p \in highs THEN 1 ELSE IF p \in lows THEN 0 ELSE out[p]
  BY DEF SetLevel
<1>4. HighMotors' = (HighMotors \ lows) \cup (highs \cap MotorPin)
  BY <1>2, <1>3 DEF HighMotors
<1>. QED
  BY <1>1, <1>2, <1>3, <1>4

\* Evaluating one argument of Stuck leaves `before' a position.
LEMMA ArgumentType ==
  ASSUME TypeOK, NEW c \in {"lat", "lon"}
  PROVE  [before EXCEPT ![c] = coord[c]] \in Position
<1>1. CASE c = "lat"
  BY <1>1 DEF TypeOK, Position
<1>2. CASE c = "lon"
  BY <1>2 DEF TypeOK, Position
<1>. QED
  BY <1>1, <1>2

-----------------------------------------------------------------------------
USE DEF envVars, imuVars, gpsVars, manoeuvre, runVars, Selected, Goto, MuxFree

\* The globals at reset have their types.
LEMMA InitTypeOK == Init => TypeOK
<1>. SUFFICES ASSUME Init
              PROVE  TypeOK
  OBVIOUS
<1>1. NoFix \in Position /\ Three \in Distance /\ 0 \in 0..FlyTimeout
  BY RetryAssumption DEF Position, NoFix, Distance, Three
<1>2. out \in [OutPin -> {0, 1}]
  BY DEF Init
<1>3. n \in 0..StuckRetryMax /\ retry \in 0..GpsStanbyMaxRetry
  BY RetryAssumption DEF Init
<1>. QED
  BY <1>1, <1>2, <1>3 DEF Init, TypeOK, Place, CanSatState

\* Every step keeps the types; PlaceInv says that a manoeuvre has a caller to
\* return to, and the guards of the retries that no count becomes negative.
LEMMA NextTypeOK == TypeOK /\ PlaceInv /\ [Next]_vars => TypeOK'
<1>. SUFFICES ASSUME TypeOK, PlaceInv, [Next]_vars
              PROVE  TypeOK'
  OBVIOUS
<1>c. /\ FlyTimeout \in Nat \ {0}
      /\ CalibrateRetry \in Nat
      /\ StuckRetryMax \in Nat
      /\ GpsStanbyMaxRetry \in Nat
      /\ Fixes \subseteq Position
      /\ NoFix \in Position
  BY RetryAssumption, PositionAssumption DEF NoFix, Position
<1>o. ASSUME NEW lows, NEW highs, out' = SetLevel(lows, highs)
      PROVE  out' \in [OutPin -> {0, 1}]
  BY <1>o, SetLevelEffect
<1>. USE DEF TypeOK, CanSatState, Place
<1>1. CASE Boot
  BY <1>1 DEF Boot
<1>2. CASE StandbyRecognise
  BY <1>2 DEF StandbyRecognise
<1>3. CASE StandbyDone
  BY <1>3, <1>o DEF StandbyDone
<1>4. CASE Frying
  <2>1. CASE FryingPinOut
    BY <2>1, <1>c DEF FryingPinOut
  <2>2. CASE FryingSample
    BY <2>2, <1>c DEF FryingSample, After, UpdateAccel
  <2>3. CASE FryingLoopEnd
    BY <2>3 DEF FryingLoopEnd
  <2>4. CASE FryingTimedOut
    BY <2>4, <1>c DEF FryingTimedOut
  <2>5. CASE FryingImpact
    BY <2>5, <1>c DEF FryingImpact
  <2>6. CASE FryingMissed
    BY <2>6, <1>c DEF FryingMissed
  <2>7. CASE FryingSettled
    BY <2>7 DEF FryingSettled
  <2>. QED
    BY <1>4, <2>1, <2>2, <2>3, <2>4, <2>5, <2>6, <2>7 DEF Frying
<1>5. CASE Start
  <2>1. CASE StartBurn
    BY <2>1, <1>o DEF StartBurn
  <2>2. CASE BurnEnd
    BY <2>2, <1>o DEF BurnEnd
  <2>3. CASE CalibrateDrive
    BY <2>3, <1>o DEF CalibrateDrive
  <2>4. CASE CalibrateOk
    BY <2>4, <1>o, <1>c DEF CalibrateOk
  <2>5. CASE CalibrateStuck
    <3>1. out' \in [OutPin -> {0, 1}]
      BY <2>5, <1>o DEF CalibrateStuck
    <3>2. CASE CalibrateRetry <= 0
      BY <2>5, <3>1, <3>2, <1>c DEF CalibrateStuck
    <3>3. CASE ~(CalibrateRetry <= 0)
      BY <2>5, <3>1, <3>3, <1>c DEF CalibrateStuck, CallStuck
    <3>. QED
      BY <3>2, <3>3
  <2>. QED
    BY <1>5, <2>1, <2>2, <2>3, <2>4, <2>5 DEF Start
<1>6. CASE Unstick
  <2>1. ASSUME NEW c \in {"lat", "lon"}, StuckArgument(c)
        PROVE  TypeOK'
    <3>1. before' \in Position
      BY <2>1, ArgumentType DEF StuckArgument
    <3>2. out' \in [OutPin -> {0, 1}]
      BY <2>1, <1>o DEF StuckArgument
    <3>. QED
      BY <2>1, <3>1, <3>2 DEF StuckArgument
  <2>2. CASE StuckSpinRight
    BY <2>2, <1>o DEF StuckSpinRight
  <2>3. CASE StuckForward
    BY <2>3, <1>o DEF StuckForward
  <2>4. CASE StuckAgain
    <3>1. n' \in 0..CalibrateRetry \cup 0..StuckRetryMax
      BY <2>4, <1>c DEF StuckAgain, CallStuck
    <3>. QED
      BY <2>4, <3>1, <1>o DEF StuckAgain, CallStuck
  <2>5. CASE StuckEnd
    <3>1. out' \in [OutPin -> {0, 1}]
      BY <2>5, <1>o DEF StuckEnd
    <3>2. caller \in {"start", "drive", "cone"}
      BY <2>5 DEF StuckEnd, PlaceInv, StuckPlace
    <3>3. pc' \in {"switch", "cone_check", "search_check"}
      BY <2>5, <3>2 DEF StuckEnd, ReturnFromStuck, Continuation
    <3>. QED
      BY <2>5, <3>1, <3>3, <1>c DEF StuckEnd, ReturnFromStuck
  <2>. QED
    BY <1>6, <2>1, <2>2, <2>3, <2>4, <2>5 DEF Unstick
<1>7. CASE Run
  <2>1. CASE RunEnter
    BY <2>1, <1>c DEF RunEnter
  <2>2. CASE GpsAcquired
    BY <2>2, <1>c DEF GpsAcquired
  <2>3. CASE GpsRetry
    BY <2>3, <1>c DEF GpsRetry
  <2>4. CASE GpsGiveUp
    BY <2>4 DEF GpsGiveUp
  <2>5. CASE DriveCheck
    BY <2>5 DEF DriveCheck
  <2>6. CASE Navigate
    <3>1. out' \in [OutPin -> {0, 1}]
      BY <2>6, <1>o DEF Navigate, Lotate, Turns
    <3>. QED
      BY <2>6, <3>1 DEF Navigate
  <2>7. CASE DriveBefore
    BY <2>7, <1>o DEF DriveBefore
  <2>8. CASE DriveAfter
    <3>1. DistanceABS' \in Distance /\ DistanceNumberABS' \in Distance
      BY <2>8, DistType DEF DriveAfter
    <3>2. CASE DistanceABS' < Half
      BY <2>8, <3>1, <3>2, <1>c DEF DriveAfter, CallStuck
    <3>3. CASE ~(DistanceABS' < Half)
      <4>1. caller \in {"drive", "cone"}
        BY <2>8 DEF DriveAfter, PlaceInv, DrivePlace
      <4>2. pc' \in {"cone_check", "search_check"}
        BY <2>8, <3>3, <4>1 DEF DriveAfter, Continuation
      <4>3. /\ UNCHANGED <<currentState, pending, n, out, envVars, imuVars, elapsed,
                           gpsVars, bodySet, gpsReady, retry, Here, ESP32S3>>
            /\ caller' = "none" /\ before' = NoFix
        BY <2>8, <3>3 DEF DriveAfter
      <4>. QED
        BY <3>1, <4>2, <4>3, <1>c
    <3>. QED
      BY <3>2, <3>3
  <2>9. CASE ConeCheck
    BY <2>9 DEF ConeCheck
  <2>10. CASE SearchCheck
    BY <2>10 DEF SearchCheck
  <2>11. CASE SearchSpin
    BY <2>11, <1>o DEF SearchSpin
  <2>12. CASE SearchEnd
    BY <2>12 DEF SearchEnd
  <2>. QED
    BY <1>7, <2>1, <2>2, <2>3, <2>4, <2>5, <2>6, <2>7, <2>8, <2>9, <2>10, <2>11,
       <2>12 DEF Run
<1>8. CASE Goal
  BY <1>8 DEF Goal
<1>9. CASE GpsTask
  <2>1. ASSUME NEW f \in Fixes, StoreLatitude(f)
        PROVE  TypeOK'
    BY <2>1, <1>c DEF StoreLatitude, Position
  <2>2. ASSUME NEW f \in Fixes, StoreLongitude(f)
        PROVE  TypeOK'
    BY <2>2, <1>c DEF StoreLongitude, Position
  <2>. QED
    BY <1>9, <2>1, <2>2 DEF GpsTask
<1>10. CASE Gazouhantei
  <2>1. ESP32S3' \in BOOLEAN
    BY <1>10, Zenon DEF Gazouhantei
  <2>2. UNCHANGED <<currentState, pc, out, envVars, imuVars, elapsed, gpsVars,
                    bodySet, manoeuvre, runVars>>
    BY <1>10 DEF Gazouhantei
  <2>. QED
    BY <2>1, <2>2
<1>11. CASE Environment
  BY <1>11 DEF Environment
<1>12. CASE UNCHANGED vars
  BY <1>12 DEF vars
<1>. QED
  BY <1>1, <1>2, <1>3, <1>4, <1>5, <1>6, <1>7, <1>8, <1>9, <1>10, <1>11, <1>12
  DEF Next, MainTask

-----------------------------------------------------------------------------
\* Every step keeps the relation of program point, phase and caller.
LEMMA NextPlaceInv == TypeOK /\ PlaceInv /\ [Next]_vars => PlaceInv'
<1>. SUFFICES ASSUME TypeOK, PlaceInv, [Next]_vars
              PROVE  PlaceInv'
  OBVIOUS
<1>u. ASSUME UNCHANGED <<currentState, pc, caller>>
      PROVE  PlaceInv'
  BY <1>u DEF PlaceInv, StuckPlace, DrivePlace
<1>. USE DEF PlaceInv, StuckPlace, DrivePlace
<1>1. CASE Boot \/ StandbyRecognise \/ StandbyDone \/ Goal
  BY <1>1 DEF Boot, StandbyRecognise, StandbyDone, Goal
<1>2. CASE FryingPinOut \/ FryingLoopEnd \/ FryingImpact
  BY <1>2 DEF FryingPinOut, FryingLoopEnd, FryingImpact
<1>3. CASE FryingTimedOut \/ FryingMissed \/ FryingSettled
  BY <1>3 DEF FryingTimedOut, FryingMissed, FryingSettled
<1>4. CASE StartBurn \/ BurnEnd \/ CalibrateDrive \/ CalibrateOk
  BY <1>4 DEF StartBurn, BurnEnd, CalibrateDrive, CalibrateOk
<1>5. CASE CalibrateStuck
  BY <1>5 DEF CalibrateStuck, CallStuck
<1>6. CASE Unstick
  <2>1. ASSUME NEW c \in {"lat", "lon"}, StuckArgument(c)
        PROVE  PlaceInv'
    BY <2>1 DEF StuckArgument
  <2>2. CASE StuckSpinRight \/ StuckForward
    BY <2>2 DEF StuckSpinRight, StuckForward
  <2>3. CASE StuckAgain
    BY <2>3 DEF StuckAgain, CallStuck
  <2>4. CASE StuckEnd
    <3>1. caller \in {"start", "drive", "cone"}
      BY <2>4 DEF StuckEnd, TypeOK
    <3>. QED
      BY <2>4, <3>1 DEF StuckEnd, ReturnFromStuck, Continuation
  <2>. QED
    BY <1>6, <2>1, <2>2, <2>3, <2>4 DEF Unstick
<1>7. CASE Run
  <2>1. CASE RunEnter \/ GpsAcquired \/ GpsRetry \/ GpsGiveUp
    BY <2>1 DEF RunEnter, GpsAcquired, GpsRetry, GpsGiveUp
  <2>2. CASE DriveCheck \/ Navigate \/ DriveBefore
    BY <2>2 DEF DriveCheck, Navigate, DriveBefore
  <2>3. CASE DriveAfter
    BY <2>3 DEF DriveAfter, CallStuck, Continuation
  <2>4. CASE ConeCheck
    BY <2>4 DEF ConeCheck
  <2>5. CASE SearchCheck \/ SearchSpin \/ SearchEnd
    BY <2>5 DEF SearchCheck, SearchSpin, SearchEnd
  <2>. QED
    BY <1>7, <2>1, <2>2, <2>3, <2>4, <2>5 DEF Run
<1>8. CASE FryingSample \/ GpsTask \/ Gazouhantei \/ Environment
  BY <1>8, <1>u DEF FryingSample, GpsTask, StoreLatitude, StoreLongitude,
                    Gazouhantei, Environment
<1>9. CASE UNCHANGED vars
  BY <1>9, <1>u DEF vars
<1>. QED
  BY <1>1, <1>2, <1>3, <1>4, <1>5, <1>6, <1>7, <1>8, <1>9
  DEF Next, MainTask, Frying, Start

-----------------------------------------------------------------------------
\* Every step keeps what is known of the pins at each program point.
LEMMA NextPinInv == TypeOK /\ PlaceInv /\ PinInv /\ [Next]_vars => PinInv'
<1>. SUFFICES ASSUME TypeOK, PlaceInv, PinInv, [Next]_vars
              PROVE  PinInv'
  OBVIOUS
<1>s. ASSUME NEW lows, NEW highs, out' = SetLevel(lows, highs)
      PROVE  /\ HighMotors' = (HighMotors \ lows) \cup (highs \cap MotorPin)
             /\ out'["NICROM"] = IF "NICROM" \in highs THEN 1
                                 ELSE IF "NICROM" \in lows THEN 0 ELSE out["NICROM"]
  BY <1>s, SetLevelEffect
<1>k. ASSUME UNCHANGED out
      PROVE  UNCHANGED HighMotors
  BY <1>k DEF HighMotors
<1>m. HighMotors \subseteq MotorPin
  BY DEF HighMotors
<1>. USE DEF PinInv
<1>1. CASE Boot \/ StandbyRecognise \/ Goal
  BY <1>1, <1>k DEF Boot, StandbyRecognise, Goal, PlaceInv
<1>2. CASE StandbyDone
  BY <1>2, <1>s DEF StandbyDone, MotorPin, PlaceInv
<1>3. CASE Frying
  BY <1>3, <1>k DEF Frying, FryingPinOut, FryingSample, FryingLoopEnd, FryingTimedOut,
     FryingImpact, FryingMissed, FryingSettled, PlaceInv
<1>4. CASE StartBurn
  <2>1. out' = SetLevel(MotorPin, {"NICROM"}) /\ pc' = "burn" /\ currentState' = "START"
    BY <1>4 DEF StartBurn
  <2>2. /\ HighMotors' = (HighMotors \ MotorPin) \cup ({"NICROM"} \cap MotorPin)
        /\ out'["NICROM"] = 1
    BY <2>1, <1>s
  <2>3. "NICROM" \notin MotorPin
    BY DEF MotorPin
  <2>4. HighMotors' = {}
    BY <2>2, <2>3, <1>m
  <2>. QED
    BY <2>1, <2>2, <2>4
<1>5. CASE BurnEnd
  <2>1. HighMotors' = HighMotors /\ out'["NICROM"] = 0
    BY <1>5, <1>s, <1>m DEF BurnEnd, MotorPin
  <2>. QED
    BY <1>5, <2>1 DEF BurnEnd
<1>6. CASE CalibrateDrive
  <2>1. /\ HighMotors' = HighMotors \cup (Ahead \cap MotorPin)
        /\ out'["NICROM"] = out["NICROM"]
    BY <1>6, <1>s DEF CalibrateDrive, Ahead
  <2>2. HighMotors = {} /\ currentState' = "START"
    BY <1>6 DEF CalibrateDrive, PlaceInv
  <2>. QED
    BY <1>6, <2>1, <2>2 DEF CalibrateDrive
<1>7. CASE CalibrateOk
  BY <1>7, <1>s, <1>m DEF CalibrateOk, MotorPin, PlaceInv, Ahead
<1>8. CASE CalibrateStuck
  BY <1>8, <1>s, <1>m DEF CalibrateStuck, CallStuck, MotorPin, PlaceInv, Ahead
<1>9. CASE Unstick
  <2>. USE DEF PlaceInv, StuckPlace
  <2>1. ASSUME NEW c \in {"lat", "lon"}, StuckArgument(c)
        PROVE  PinInv'
    BY <2>1, <1>s, <1>k DEF StuckArgument, SpinLeft
  <2>2. CASE StuckSpinRight
    BY <2>2, <1>s DEF StuckSpinRight, SpinLeft, SpinRight
  <2>3. CASE StuckForward
    <3>1. /\ HighMotors' = (HighMotors \ SpinRight) \cup (RightOnly \cap MotorPin)
          /\ out'["NICROM"] = out["NICROM"]
      BY <2>3, <1>s DEF StuckForward, SpinRight, RightOnly
    <3>2. HighMotors \ SpinRight \subseteq RightOnly
      BY <2>3, <1>m DEF StuckForward, SpinLeft, SpinRight, RightOnly, MotorPin
    <3>. QED
      BY <2>3, <3>1, <3>2 DEF StuckForward
  <2>4. CASE StuckAgain
    BY <2>4, <1>s DEF StuckAgain, CallStuck, RightOnly
  <2>5. CASE StuckEnd
    <3>1. HighMotors' = {} /\ out'["NICROM"] = out["NICROM"]
      BY <2>5, <1>s DEF StuckEnd, RightOnly
    <3>2. caller \in {"start", "drive", "cone"}
      BY <2>5 DEF StuckEnd, TypeOK
    <3>3. pc' \in {"switch", "cone_check", "search_check"}
      BY <2>5, <3>2 DEF StuckEnd, ReturnFromStuck, Continuation
    <3>. QED
      BY <2>5, <3>1, <3>3 DEF StuckEnd
  <2>. QED
    BY <1>9, <2>1, <2>2, <2>3, <2>4, <2>5 DEF Unstick
<1>10. CASE Run
  <2>. USE DEF PlaceInv, DrivePlace
  <2>1. CASE RunEnter \/ GpsAcquired \/ GpsRetry \/ GpsGiveUp
    BY <2>1, <1>k DEF RunEnter, GpsAcquired, GpsRetry, GpsGiveUp
  <2>2. CASE DriveCheck \/ ConeCheck \/ SearchCheck \/ SearchEnd
    BY <2>2, <1>k DEF DriveCheck, ConeCheck, SearchCheck, SearchEnd
  <2>3. CASE Navigate
    BY <2>3, <1>s DEF Navigate, Lotate, Turns, MotorPin, SpinLeft, SpinRight
  <2>4. CASE DriveBefore
    BY <2>4, <1>s DEF DriveBefore, RightOnly
  <2>5. CASE DriveAfter
    BY <2>5, <1>k DEF DriveAfter, CallStuck, Continuation
  <2>6. CASE SearchSpin
    BY <2>6, <1>s DEF SearchSpin, SpinRight
  <2>. QED
    BY <1>10, <2>1, <2>2, <2>3, <2>4, <2>5, <2>6 DEF Run
<1>11. CASE GpsTask \/ Gazouhantei \/ Environment
  BY <1>11, <1>k DEF GpsTask, StoreLatitude, StoreLongitude, Gazouhantei, Environment
<1>12. CASE UNCHANGED vars
  BY <1>12, <1>k DEF vars
<1>. QED
  BY <1>1, <1>2, <1>3, <1>4, <1>5, <1>6, <1>7, <1>8, <1>9, <1>10, <1>11, <1>12
  DEF Next, MainTask, Start

-----------------------------------------------------------------------------
\* Every step keeps the distance to the goal the distance from Here, but for the
\* stretch between the two statements that assign them.
LEMMA NextDistanceInv ==
  TypeOK /\ PlaceInv /\ DistanceInv /\ [Next]_vars => DistanceInv'
<1>. SUFFICES ASSUME TypeOK, PlaceInv, DistanceInv, [Next]_vars
              PROVE  DistanceInv'
  OBVIOUS
<1>u. ASSUME UNCHANGED <<Here, DistanceNumberABS, currentState, pc, caller>>
      PROVE  DistanceInv'
  BY <1>u DEF DistanceInv, GoalIsNear, DrivePlace
<1>q. ASSUME UNCHANGED <<Here, DistanceNumberABS>>, pc \notin DrivePlace,
             currentState' = "GOAL" => currentState = "GOAL"
      PROVE  DistanceInv'
  BY <1>q DEF DistanceInv, GoalIsNear
<1>1. CASE Boot \/ StandbyRecognise \/ StandbyDone \/ Goal
  BY <1>1, <1>q DEF Boot, StandbyRecognise, StandbyDone, Goal, DrivePlace
<1>2. CASE Frying
  BY <1>2, <1>q DEF Frying, FryingPinOut, FryingSample, FryingLoopEnd, FryingTimedOut,
     FryingImpact, FryingMissed, FryingSettled, DrivePlace
<1>3. CASE Start
  BY <1>3, <1>q DEF Start, StartBurn, BurnEnd, CalibrateDrive, CalibrateOk,
     CalibrateStuck, CallStuck, DrivePlace
<1>4. CASE Unstick
  BY <1>4, <1>q DEF Unstick, StuckArgument, StuckSpinRight, StuckForward, StuckAgain,
     StuckEnd, CallStuck, ReturnFromStuck, DrivePlace
<1>5. CASE RunEnter \/ GpsAcquired \/ GpsRetry \/ GpsGiveUp \/ DriveCheck
  BY <1>5, <1>q DEF RunEnter, GpsAcquired, GpsRetry, GpsGiveUp, DriveCheck, DrivePlace
<1>6. CASE Navigate
  BY <1>6 DEF Navigate, DistanceInv, GoalIsNear, DrivePlace, PlaceInv
<1>7. CASE DriveBefore
  BY <1>7 DEF DriveBefore, DistanceInv, GoalIsNear, DrivePlace, PlaceInv
<1>8. CASE DriveAfter
  <2>1. /\ DistanceNumberABS' = Dist(Target, Here) /\ UNCHANGED <<Here, currentState>>
        /\ currentState = "RUN"
    BY <1>8 DEF DriveAfter, PlaceInv, DrivePlace
  <2>2. Dist(Target, Here)' = Dist(Target, Here)
    BY <2>1 DEF Dist, Within
  <2>. QED
    BY <2>1, <2>2 DEF DistanceInv, GoalIsNear
<1>9. CASE ConeCheck
  <2>1. Dist(Target, Here)' = Dist(Target, Here)
    BY <1>9 DEF ConeCheck, Dist, Within
  <2>2. \/ DistanceNumberABS = Dist(Target, Here)
        \/ DistanceNumberABS = Three
    BY <1>9 DEF ConeCheck, DistanceInv, DrivePlace
  <2>3. DistanceNumberABS < One => DistanceNumberABS = Dist(Target, Here)
    BY <2>2 DEF One, Three
  <2>. QED
    BY <1>9, <2>1, <2>2, <2>3 DEF ConeCheck, DistanceInv, GoalIsNear, PlaceInv
<1>10. CASE SearchCheck \/ SearchSpin \/ SearchEnd
  BY <1>10, <1>q DEF SearchCheck, SearchSpin, SearchEnd, DrivePlace
<1>11. CASE GpsTask \/ Gazouhantei \/ Environment \/ UNCHANGED vars
  BY <1>11, <1>u
  DEF GpsTask, StoreLatitude, StoreLongitude, Gazouhantei, Environment, vars
<1>. QED
  BY <1>1, <1>2, <1>3, <1>4, <1>5, <1>6, <1>7, <1>8, <1>9, <1>10, <1>11
  DEF Next, MainTask, Run

-----------------------------------------------------------------------------
\* Every step keeps the position whole while gps_mux is free.
LEMMA NextPositionInv ==
  TypeOK /\ PlaceInv /\ PositionInv /\ [Next]_vars => PositionInv'
<1>. SUFFICES ASSUME TypeOK, PlaceInv, PositionInv, [Next]_vars
              PROVE  PositionInv'
  OBVIOUS
<1>. USE DEF PositionInv, LockedReadsAreWhole
<1>1. CASE Boot \/ StandbyRecognise \/ StandbyDone \/ Goal
  BY <1>1 DEF Boot, StandbyRecognise, StandbyDone, Goal
<1>2. CASE Frying
  BY <1>2 DEF Frying, FryingPinOut, FryingSample, FryingLoopEnd, FryingTimedOut,
     FryingImpact, FryingMissed, FryingSettled
<1>3. CASE Start
  BY <1>3 DEF Start, StartBurn, BurnEnd, CalibrateDrive, CalibrateOk,
     CalibrateStuck, CallStuck
<1>4. CASE Unstick
  <2>. SUFFICES UNCHANGED <<coord, writing, Here>> /\ pc' \notin {"cal_drive", "drive_after"}
    OBVIOUS
  <2>1. CASE \E c \in {"lat", "lon"} : StuckArgument(c)
    BY <2>1 DEF StuckArgument
  <2>2. CASE StuckSpinRight \/ StuckForward
    BY <2>2 DEF StuckSpinRight, StuckForward
  <2>3. CASE StuckAgain
    BY <2>3 DEF StuckAgain, CallStuck
  <2>4. CASE StuckEnd
    <3>1. caller \in {"start", "drive", "cone"}
      BY <2>4 DEF StuckEnd, TypeOK, PlaceInv, StuckPlace
    <3>. QED
      BY <2>4, <3>1 DEF StuckEnd, ReturnFromStuck, Continuation
  <2>. QED
    BY <1>4, <2>1, <2>2, <2>3, <2>4 DEF Unstick
<1>5. CASE RunEnter \/ GpsAcquired \/ GpsRetry \/ GpsGiveUp \/ DriveCheck
  BY <1>5 DEF RunEnter, GpsAcquired, GpsRetry, GpsGiveUp, DriveCheck
<1>6. CASE Navigate
  BY <1>6 DEF Navigate
<1>7. CASE DriveBefore
  BY <1>7 DEF DriveBefore
<1>8. CASE DriveAfter
  <2>1. caller \in {"drive", "cone"}
    BY <1>8 DEF DriveAfter, PlaceInv, DrivePlace
  <2>2. UNCHANGED <<coord, writing, Here>> /\ pc' \notin {"cal_drive", "drive_after"}
    BY <1>8, <2>1 DEF DriveAfter, CallStuck, Continuation
  <2>. QED
    BY <2>2
<1>9. CASE ConeCheck
  BY <1>9 DEF ConeCheck
<1>10. CASE SearchCheck \/ SearchSpin \/ SearchEnd
  BY <1>10 DEF SearchCheck, SearchSpin, SearchEnd
<1>11. CASE Gazouhantei \/ Environment \/ UNCHANGED vars
  BY <1>11 DEF Gazouhantei, Environment, vars
<1>12. ASSUME NEW f \in Fixes, StoreLatitude(f)
       PROVE  PositionInv'
  BY <1>12, PositionAssumption DEF StoreLatitude, TypeOK, Position, WholeFix
<1>13. ASSUME NEW f \in Fixes, StoreLongitude(f)
       PROVE  PositionInv'
  <2>1. coord' = f
    BY <1>13, PositionAssumption DEF StoreLongitude, TypeOK, Position
  <2>. QED
    BY <1>13, <2>1 DEF StoreLongitude, WholeFix
<1>. QED
  BY <1>1, <1>2, <1>3, <1>4, <1>5, <1>6, <1>7, <1>8, <1>9, <1>10, <1>11, <1>12, <1>13
  DEF Next, MainTask, Run, GpsTask

-----------------------------------------------------------------------------
(***************************************************************************)
(* The invariant and what follows from it.                                 *)
(***************************************************************************)

\* The software starts in the invariant.
LEMMA InitIInv == Init => IInv
<1>. SUFFICES ASSUME Init
              PROVE  IInv
  OBVIOUS
<1>1. TypeOK
  BY InitTypeOK
<1>2. PlaceInv
  BY DEF Init, PlaceInv, StuckPlace, DrivePlace
<1>3. PinInv
  BY DEF Init, PinInv, HighMotors, OutPin
<1>4. DistanceInv
  BY DEF Init, DistanceInv, GoalIsNear
<1>5. PositionInv
  BY DEF Init, PositionInv, LockedReadsAreWhole, WholeFix
<1>. QED
  BY <1>1, <1>2, <1>3, <1>4, <1>5 DEF IInv

\* No step of any task leads out of the invariant: IInv is inductive.
THEOREM Inductive == Spec => []IInv
<1>1. Init => IInv
  BY InitIInv
<1>2. IInv /\ [Next]_vars => IInv'
  BY NextTypeOK, NextPlaceInv, NextPinInv, NextDistanceInv, NextPositionInv DEF IInv
<1>. QED
  BY <1>1, <1>2, PTL DEF Spec

\* The globals and locals of the programs keep their types; in particular retry
\* and n stay between 0 and the counts of the source, and Stuck always knows where
\* to return to.
THEOREM TypeCorrect == Spec => []TypeOK
<1>1. IInv => TypeOK
  BY DEF IInv
<1>. QED
  BY <1>1, Inductive, PTL

\* loop_main_RUN reports GOAL only after a distance below 1.0, measured from the
\* position Here, however gpsTask and the receiver interleave with the drives.
THEOREM GoalNear == Spec => []GoalIsNear
<1>1. IInv => GoalIsNear
  BY DEF IInv, DistanceInv
<1>. QED
  BY <1>1, Inductive, PTL

\* Whatever gpsTask stores and when, a position read under gps_mux has the latitude
\* and the longitude of one and the same fix (or is the one at reset).
THEOREM ReadsWhole == Spec => []LockedReadsAreWhole
<1>1. IInv => LockedReadsAreWhole
  BY DEF IInv, PositionInv
<1>. QED
  BY <1>1, Inductive, PTL

\* The two steps that end an attempt clear the pins of the right motor, and no other
\* pin is high before them.
LEMMA AttemptEnds ==
  ASSUME IInv, [Next]_vars, pc = "stuck_forward", pc' # "stuck_forward"
  PROVE  HighMotors' = {}
<1>1. StuckAgain \/ StuckEnd
  BY DEF Next, MainTask, Boot, StandbyRecognise, StandbyDone, Frying,
     FryingPinOut, FryingSample, FryingLoopEnd, FryingTimedOut, FryingImpact,
     FryingMissed, FryingSettled, Start, StartBurn, BurnEnd, CalibrateDrive,
     CalibrateOk, CalibrateStuck, Unstick, StuckArgument, StuckSpinRight,
     StuckForward, Run, RunEnter, GpsAcquired, GpsRetry, GpsGiveUp, DriveCheck,
     Navigate, DriveBefore, DriveAfter, ConeCheck, SearchCheck, SearchSpin,
     SearchEnd, Goal, GpsTask, StoreLatitude, StoreLongitude, Gazouhantei,
     Environment, vars
<1>2. out' = SetLevel(RightOnly, {})
  BY <1>1 DEF StuckAgain, StuckEnd
<1>3. HighMotors' = HighMotors \ RightOnly
  BY <1>2, SetLevelEffect DEF IInv
<1>4. HighMotors \subseteq RightOnly
  BY DEF IInv, PinInv
<1>. QED
  BY <1>3, <1>4

\* Stuck may be called with any motor pins high (a turn left them so), and every
\* attempt of it still ends with all four low.
THEOREM MotorsOff == Spec => AttemptEndsWithMotorsOff
<1>1. IInv /\ [Next]_vars
        => (pc = "stuck_forward" /\ pc' # "stuck_forward" => HighMotors' = {})
  BY AttemptEnds
<1>. QED
  BY <1>1, Inductive, PTL DEF Spec, AttemptEndsWithMotorsOff

\* Stuck ends after at most n + 1 attempts of five legs each: every step inside it
\* takes one from the legs that are left, a number that is never negative.
THEOREM StuckCountsDown == Spec => UnstickCountsDown
<1>. DEFINE Down == {pc, pc'} \subseteq StuckPlace
                      => LegsLeft' < LegsLeft \/ UNCHANGED <<pc, out, manoeuvre>>
<1>1. ASSUME IInv, [Next]_vars
      PROVE  Down
  <2>. SUFFICES ASSUME pc \in StuckPlace, pc' \in StuckPlace,
                       ~UNCHANGED <<pc, out, manoeuvre>>
                PROVE  LegsLeft' < LegsLeft
    OBVIOUS
  <2>n. n \in Nat
    BY <1>1 DEF IInv, TypeOK
  <2>u. Unstick
    BY <1>1 DEF StuckPlace, Next, MainTask, Boot, StandbyRecognise, StandbyDone, Frying,
       FryingPinOut, FryingSample, FryingLoopEnd, FryingTimedOut, FryingImpact,
       FryingMissed, FryingSettled, Start, StartBurn, BurnEnd, CalibrateDrive,
       CalibrateOk, CalibrateStuck, Run, RunEnter, GpsAcquired, GpsRetry, GpsGiveUp,
       DriveCheck, Navigate, DriveBefore, DriveAfter, ConeCheck, SearchCheck,
       SearchSpin, SearchEnd, Goal, GpsTask, StoreLatitude, StoreLongitude,
       Gazouhantei, Environment, vars
  <2>1. ASSUME NEW c \in {"lat", "lon"}, StuckArgument(c)
        PROVE  LegsLeft' < LegsLeft
    <3>1. CASE pending = {c}
      <4>1. pc = "stuck_call" /\ pc' = "stuck_left" /\ n' = n
        BY <2>1, <3>1 DEF StuckArgument
      <4>2. pending # {"lat", "lon"}
        BY <3>1
      <4>. QED
        BY <2>n, <4>1, <4>2 DEF LegsLeft
    <3>2. CASE pending # {c}
      <4>1. pc = "stuck_call" /\ pc' = "stuck_call" /\ n' = n
        BY <2>1, <3>2 DEF StuckArgument
      <4>2. pending = {"lat", "lon"} /\ pending' # {"lat", "lon"}
        BY <1>1, <2>1, <3>2 DEF StuckArgument, IInv, TypeOK
      <4>. QED
        BY <2>n, <4>1, <4>2 DEF LegsLeft
    <3>. QED
      BY <3>1, <3>2
  <2>2. CASE StuckSpinRight \/ StuckForward
    BY <2>2, <2>n DEF StuckSpinRight, StuckForward, LegsLeft
  <2>3. CASE StuckAgain
    <3>1. /\ pc = "stuck_forward" /\ pc' = "stuck_call"
          /\ pending' = {"lat", "lon"} /\ n' = n - 1
      BY <2>3 DEF StuckAgain, CallStuck
    <3>. QED
      BY <2>n, <3>1 DEF LegsLeft
  <2>4. CASE StuckEnd
    <3>1. caller \in {"start", "drive", "cone"}
      BY <1>1, <2>4 DEF StuckEnd, IInv, TypeOK, PlaceInv, StuckPlace
    <3>. QED
      BY <2>4, <3>1 DEF StuckEnd, ReturnFromStuck, Continuation, StuckPlace
  <2>. QED
    BY <2>u, <2>1, <2>2, <2>3, <2>4 DEF Unstick
<1>2. IInv /\ [Next]_vars => [Down]_vars
  BY <1>1
<1>. QED
  BY <1>2, Inductive, PTL DEF Spec, UnstickCountsDown

-----------------------------------------------------------------------------
(***************************************************************************)
(* After a calibration that got stuck.                                     *)
(***************************************************************************)

\* The body vector is (0, 0) up to the calibration, which sets it only as the
\* phase changes to RUN.
BodyInv == currentState \in {"STANDBY", "FRYING", "START"} => ~bodySet

\* In Stuck on behalf of the calibration, or in a later phase, without a vector.
Vectorless ==
  /\ ~bodySet
  /\ \/ pc \in StuckPlace /\ caller = "start"
     \/ currentState \in {"RUN", "GOAL"}

\* No phase before RUN is entered with a vector, and none is set in it to stay in it.
LEMMA NextBodyInv == TypeOK /\ PlaceInv /\ BodyInv /\ [Next]_vars => BodyInv'
<1>. SUFFICES ASSUME TypeOK, PlaceInv, BodyInv, [Next]_vars
              PROVE  BodyInv'
  OBVIOUS
<1>. USE DEF BodyInv
<1>1. CASE Boot \/ StandbyRecognise \/ StandbyDone \/ Goal
  <2>1. bodySet' = bodySet
    BY <1>1 DEF Boot, StandbyRecognise, StandbyDone, Goal
  <2>2. currentState \in {"RUN", "GOAL"} => currentState' \in {"RUN", "GOAL"}
    BY <1>1 DEF Boot, StandbyRecognise, StandbyDone, Goal, PlaceInv
  <2>. QED
    BY <2>1, <2>2 DEF TypeOK, CanSatState
<1>2. CASE Frying
  BY <1>2 DEF Frying, FryingPinOut, FryingSample, FryingLoopEnd, FryingTimedOut,
     FryingImpact, FryingMissed, FryingSettled, PlaceInv
<1>3. CASE Start
  BY <1>3 DEF Start, StartBurn, BurnEnd, CalibrateDrive, CalibrateOk, CalibrateStuck
<1>4. CASE Unstick
  BY <1>4 DEF Unstick, StuckArgument, StuckSpinRight, StuckForward, StuckAgain,
     StuckEnd, ReturnFromStuck
<1>5. CASE Run
  BY <1>5 DEF Run, RunEnter, GpsAcquired, GpsRetry, GpsGiveUp, DriveCheck, Navigate,
     DriveBefore, DriveAfter, ConeCheck, SearchCheck, SearchSpin, SearchEnd
<1>6. CASE GpsTask \/ Gazouhantei \/ Environment \/ UNCHANGED vars
  BY <1>6 DEF GpsTask, StoreLatitude, StoreLongitude, Gazouhantei, Environment, vars
<1>. QED
  BY <1>1, <1>2, <1>3, <1>4, <1>5, <1>6 DEF Next, MainTask

\* Stuck returns to the calibration's caller, not to the calibration, and no phase
\* leads back from RUN to START.
LEMMA NextVectorless == TypeOK /\ PlaceInv /\ Vectorless /\ [Next]_vars => Vectorless'
<1>. SUFFICES ASSUME TypeOK, PlaceInv, Vectorless, [Next]_vars
              PROVE  Vectorless'
  OBVIOUS
<1>. USE DEF Vectorless
<1>1. CASE Boot \/ StandbyRecognise \/ StandbyDone \/ Frying
  BY <1>1 DEF Boot, StandbyRecognise, StandbyDone, Frying, FryingPinOut, FryingSample,
     FryingLoopEnd, FryingTimedOut, FryingImpact, FryingMissed, FryingSettled, PlaceInv,
     StuckPlace
<1>2. CASE Start
  BY <1>2 DEF Start, StartBurn, BurnEnd, CalibrateDrive, CalibrateOk, CalibrateStuck,
     PlaceInv, StuckPlace
<1>3. CASE Unstick
  <2>. USE DEF StuckPlace
  <2>1. CASE \E c \in {"lat", "lon"} : StuckArgument(c)
    BY <2>1 DEF StuckArgument
  <2>2. CASE StuckSpinRight \/ StuckForward
    BY <2>2 DEF StuckSpinRight, StuckForward
  <2>3. CASE StuckAgain
    BY <2>3 DEF StuckAgain, CallStuck
  <2>4. CASE StuckEnd
    BY <2>4 DEF StuckEnd, ReturnFromStuck, PlaceInv
  <2>. QED
    BY <1>3, <2>1, <2>2, <2>3, <2>4 DEF Unstick
<1>4. CASE Run
  <2>1. currentState \in {"RUN", "GOAL"}
    BY <1>4 DEF Run, RunEnter, GpsAcquired, GpsRetry, GpsGiveUp, DriveCheck, Navigate,
       DriveBefore, DriveAfter, ConeCheck, SearchCheck, SearchSpin, SearchEnd,
       StuckPlace
  <2>2. currentState' \in {"RUN", "GOAL"} /\ bodySet' = bodySet
    BY <1>4, <2>1 DEF Run, RunEnter, GpsAcquired, GpsRetry, GpsGiveUp, DriveCheck,
       Navigate, DriveBefore, DriveAfter, ConeCheck, SearchCheck, SearchSpin, SearchEnd
  <2>. QED
    BY <2>2
<1>5. CASE Goal
  BY <1>5 DEF Goal, StuckPlace
<1>6. CASE GpsTask \/ Gazouhantei \/ Environment \/ UNCHANGED vars
  <2>1. UNCHANGED <<currentState, pc, caller, bodySet>>
    BY <1>6 DEF GpsTask, StoreLatitude, StoreLongitude, Gazouhantei, Environment, vars
  <2>. QED
    BY <2>1
<1>. QED
  BY <1>1, <1>2, <1>3, <1>4, <1>5, <1>6 DEF Next, MainTask

\* calibrateBodyVector returns after Stuck whether or not the rover is free, so a
\* flight whose calibration drive got stuck has no body vector to its end.
THEOREM CalibratedOnce == Spec => StuckCalibrationIsFinal
<1>. DEFINE GotStuck == pc = "stuck_call" /\ caller = "start"
<1>1. Init => BodyInv
  BY DEF Init, BodyInv
<1>2. IInv /\ BodyInv /\ [Next]_vars => BodyInv'
  BY NextBodyInv DEF IInv
<1>3. IInv /\ BodyInv /\ GotStuck => Vectorless
  BY DEF IInv, PlaceInv, BodyInv, Vectorless, StuckPlace
<1>4. IInv /\ Vectorless /\ [Next]_vars => Vectorless'
  BY NextVectorless DEF IInv
<1>5. Vectorless => ~bodySet
  BY DEF Vectorless
<1>. QED
  BY <1>1, <1>2, <1>3, <1>4, <1>5, Inductive, PTL DEF Spec, StuckCalibrationIsFinal

-----------------------------------------------------------------------------
(***************************************************************************)
(* Without a receiver that reads the pin.                                  *)
(***************************************************************************)

\* The software starts with the flag down and the length of a drive at 999.
LEMMA InitBlindInv == Init => BlindInv
BY DEF Init, BlindInv, DrivePlace

\* No step raises the flag, and none comes to a drive on a length below 3.0.
LEMMA NextBlindInv == TypeOK /\ PlaceInv /\ BlindInv /\ [Next]_vars => BlindInv'
<1>. SUFFICES ASSUME TypeOK, PlaceInv, BlindInv, [Next]_vars, ~ConeIsRead
              PROVE  /\ ~ESP32S3' /\ currentState' # "GOAL"
                     /\ pc' \in {"navigate"} \cup DrivePlace => DistanceABS' = Three
  BY DEF BlindInv, ConeIsRead
<1>b. /\ ~ESP32S3 /\ currentState # "GOAL"
      /\ pc \in {"navigate"} \cup DrivePlace => DistanceABS = Three
  BY DEF BlindInv
<1>. USE <1>b DEF DrivePlace
<1>1. CASE Boot \/ StandbyRecognise \/ StandbyDone \/ Goal
  BY <1>1 DEF Boot, StandbyRecognise, StandbyDone, Goal
<1>2. CASE Frying
  BY <1>2 DEF Frying, FryingPinOut, FryingSample, FryingLoopEnd, FryingTimedOut,
     FryingImpact, FryingMissed, FryingSettled
<1>3. CASE Start
  BY <1>3 DEF Start, StartBurn, BurnEnd, CalibrateDrive, CalibrateOk, CalibrateStuck,
     CallStuck
<1>4. CASE Unstick
  <2>1. ASSUME NEW c \in {"lat", "lon"}, StuckArgument(c)
        PROVE  ~ESP32S3' /\ currentState' # "GOAL" /\ pc' \notin {"navigate"} \cup DrivePlace
    BY <2>1 DEF StuckArgument
  <2>2. CASE StuckSpinRight \/ StuckForward \/ StuckAgain
    BY <2>2 DEF StuckSpinRight, StuckForward, StuckAgain, CallStuck
  <2>3. CASE StuckEnd
    <3>1. caller \in {"start", "drive", "cone"}
      BY <2>3 DEF StuckEnd, TypeOK, PlaceInv, StuckPlace
    <3>. QED
      BY <2>3, <3>1 DEF StuckEnd, ReturnFromStuck, Continuation
  <2>. QED
    BY <1>4, <2>1, <2>2, <2>3 DEF Unstick
<1>5. CASE Run
  <2>1. CASE RunEnter \/ GpsAcquired \/ GpsRetry \/ GpsGiveUp
    BY <2>1 DEF RunEnter, GpsAcquired, GpsRetry, GpsGiveUp
  <2>2. CASE DriveCheck
    BY <2>2 DEF DriveCheck, TypeOK, Distance, Three
  <2>3. CASE Navigate \/ DriveBefore
    BY <2>3 DEF Navigate, DriveBefore
  <2>4. CASE DriveAfter
    <3>1. caller \in {"drive", "cone"}
      BY <2>4 DEF DriveAfter, PlaceInv
    <3>. QED
      BY <2>4, <3>1 DEF DriveAfter, CallStuck, Continuation
  <2>5. CASE ConeCheck \/ SearchCheck \/ SearchSpin \/ SearchEnd
    BY <2>5 DEF ConeCheck, SearchCheck, SearchSpin, SearchEnd
  <2>. QED
    BY <1>5, <2>1, <2>2, <2>3, <2>4, <2>5 DEF Run
<1>6. CASE Gazouhantei
  <2>1. ReceiverBuilt /\ ~ReceiverReadsPin
    BY <1>6 DEF Gazouhantei, ConeIsRead
  <2>2. ESP32S3' = ESP32S3
    BY <1>6, <2>1 DEF Gazouhantei, RXD_PIN_S3sense
  <2>3. UNCHANGED <<currentState, pc, DistanceABS>>
    BY <1>6 DEF Gazouhantei
  <2>. QED
    BY <2>2, <2>3
<1>7. CASE GpsTask \/ Environment \/ UNCHANGED vars
  BY <1>7 DEF GpsTask, StoreLatitude, StoreLongitude, Environment, vars
<1>. QED
  BY <1>1, <1>2, <1>3, <1>4, <1>5, <1>6, <1>7 DEF Next, MainTask

\* The invariant without the receiver, as built and as its source compares.
LEMMA BlindInvariant == Spec => [](IInv /\ BlindInv)
<1>1. Init => BlindInv
  BY InitBlindInv
<1>2. IInv /\ BlindInv /\ [Next]_vars => BlindInv'
  BY NextBlindInv DEF IInv
<1>. QED
  BY <1>1, <1>2, Inductive, PTL DEF Spec

\* loop_main_RUN never moves to GOAL in the build, nor with the receiver as written.
THEOREM NeverAtGoal == Spec => []GoalNeedsReceiver
<1>1. BlindInv => GoalNeedsReceiver
  BY DEF BlindInv, GoalNeedsReceiver
<1>. QED
  BY <1>1, BlindInvariant, PTL

\* Only a drive measures DistanceABS, and without the flag only a length of 3.0
\* leads to a drive: after the first shorter one there is no other, whatever fixes
\* come and wherever the goal is.
THEOREM LastDrive == Spec => ShortDriveIsLast
<1>. DEFINE Stays == ~ConeIsRead /\ DistanceABS < Three
                       => /\ DistanceABS' = DistanceABS
                          /\ pc' \notin {"navigate"} \cup DrivePlace
<1>1. ASSUME IInv, BlindInv, [Next]_vars, ~ConeIsRead, DistanceABS < Three
      PROVE  /\ DistanceABS' = DistanceABS
             /\ pc' \notin {"navigate"} \cup DrivePlace
  <2>1. pc \notin {"navigate"} \cup DrivePlace
    BY <1>1 DEF BlindInv, DrivePlace, Three
  <2>2. DistanceABS' = DistanceABS
    BY <1>1, <2>1 DEF DrivePlace, Next, MainTask, Boot, StandbyRecognise, StandbyDone, Frying,
       FryingPinOut, FryingSample, FryingLoopEnd, FryingTimedOut, FryingImpact,
       FryingMissed, FryingSettled, Start, StartBurn, BurnEnd, CalibrateDrive,
       CalibrateOk, CalibrateStuck, Unstick, StuckArgument, StuckSpinRight,
       StuckForward, StuckAgain, StuckEnd, Run, RunEnter, GpsAcquired, GpsRetry,
       GpsGiveUp, DriveCheck, Navigate, DriveBefore, DriveAfter, ConeCheck,
       SearchCheck, SearchSpin, SearchEnd, Goal, GpsTask, StoreLatitude,
       StoreLongitude, Gazouhantei, Environment, vars
  <2>3. BlindInv'
    BY <1>1, NextBlindInv DEF IInv
  <2>. QED
    BY <1>1, <2>2, <2>3 DEF BlindInv, DrivePlace, ConeIsRead, Three
<1>2. IInv /\ BlindInv /\ [Next]_vars => [Stays]_vars
  BY <1>1
<1>. QED
  BY <1>2, BlindInvariant, PTL DEF Spec, ShortDriveIsLast
=============================================================================
