------------------------------- MODULE Frying -------------------------------
(***************************************************************************)
(* ProGram_FRYING.cpp.  `elapsed' is esp_timer_get_time() - startTime in   *)
(* units of 100 ms, kept at FlyTimeout once it is reached.  One turn of    *)
(* the loop takes 1 or 2 units (the delay, the IMU read, the radio).       *)
(* Between two reads of the timer with no delay between them at most       *)
(* ReadGap units pass: the higher-priority tasks are short.                *)
(***************************************************************************)
EXTENDS CanSatGlobals

ReadGap == 1

After(d) == IF elapsed + d < FlyTimeout THEN elapsed + d ELSE FlyTimeout

\* updateAccel: without the IMU the sample stays what it was.
UpdateAccel == impact' \in (IF bnoReady THEN BOOLEAN ELSE {impact})

FryingPinOut ==
  /\ Selected("FRYING")
  /\ fallPin = 1
  /\ pc' = "fry_loop"
  /\ elapsed' = 0
  /\ UNCHANGED <<currentState, out, envVars, imuVars, gpsVars, bodySet,
                 manoeuvre, runVars, ESP32S3>>

FryingSample ==
  /\ pc = "fry_loop"
  /\ elapsed < FlyTimeout
  /\ ~impact
  /\ UpdateAccel
  /\ \E d \in 1..2 : elapsed' = After(d)
  /\ UNCHANGED <<currentState, pc, out, envVars, bnoReady, gpsVars, bodySet,
                 manoeuvre, runVars, ESP32S3>>

FryingLoopEnd ==
  /\ Goto("fry_loop", "fry_decide")
  /\ elapsed >= FlyTimeout \/ impact
  /\ UNCHANGED <<currentState, out, envVars, imuVars, elapsed, gpsVars, bodySet,
                 manoeuvre, runVars, ESP32S3>>

\* Seeded fault: `>' for `>=' in the test after the loop.
FryingTimedOut_Strict ==
  /\ Goto("fry_decide", "switch")
  /\ \E d \in 0..ReadGap : After(d) > FlyTimeout
  /\ elapsed' = 0
  /\ currentState' = "START"
  /\ UNCHANGED <<out, envVars, imuVars, gpsVars, bodySet, manoeuvre, runVars,
                 ESP32S3>>

\* The first test after the loop finds the 2 s over.
FryingTimedOut ==
  /\ Goto("fry_decide", "switch")
  /\ \E d \in 0..ReadGap : elapsed + d >= FlyTimeout
  /\ elapsed' = 0
  /\ currentState' = "START"
  /\ UNCHANGED <<out, envVars, imuVars, gpsVars, bodySet, manoeuvre, runVars,
                 ESP32S3>>

\* Both tests after the loop find the 2 s not over, and the sample is high.
FryingImpact ==
  /\ Goto("fry_decide", "fry_settle")
  /\ elapsed < FlyTimeout /\ impact
  /\ elapsed' = 0
  /\ UNCHANGED <<currentState, out, envVars, imuVars, gpsVars, bodySet,
                 manoeuvre, runVars, ESP32S3>>

\* The 2 s end between the two tests: neither branch is taken and the program
\* is selected again, still in FRYING.
FryingMissed ==
  /\ Goto("fry_decide", "switch")
  /\ \E d1, d2 \in 0..ReadGap :
       elapsed + d1 < FlyTimeout /\ elapsed + d1 + d2 >= FlyTimeout
  /\ elapsed' = 0
  /\ UNCHANGED <<currentState, out, envVars, imuVars, gpsVars, bodySet,
                 manoeuvre, runVars, ESP32S3>>

FryingSettled ==
  /\ Goto("fry_settle", "switch")
  /\ currentState' = "START"
  /\ UNCHANGED <<out, envVars, imuVars, elapsed, gpsVars, bodySet, manoeuvre,
                 runVars, ESP32S3>>

Frying ==
  \/ FryingPinOut  \/ FryingSample \/ FryingLoopEnd \/ FryingTimedOut
  \/ FryingImpact  \/ FryingMissed \/ FryingSettled
=============================================================================
