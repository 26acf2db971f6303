---------------------------- MODULE MCTelemetry ----------------------------
(***************************************************************************)
(* Values for model checking Telemetry: the two tasks that send, the       *)
(* console, and one task that calls setTelemetryChannel in the run that    *)
(* has one.                                                                *)
(***************************************************************************)
EXTENDS Telemetry

CONSTANTS main, gpsTask, telemetryConsole, api

MCSender == {main, gpsTask}
Nobody == {}
Api == {api}

\* Both ends of the valid range and the numbers next to them.
MCRequest == {0, 1, 13, 14}
NoneRefused == {}
HighestRefused == {13}
=============================================================================
