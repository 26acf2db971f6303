SPECIFICATION Spec
CONSTANTS
  main = main
  gpsTask = gpsTask
  telemetryConsole = telemetryConsole
  api = api
  Console = telemetryConsole
  Sender <- MCSender
  Caller <- Api
  Request <- MCRequest
  Refused <- HighestRefused
  MaxReboots = 1
INVARIANTS StartsOnce SendsWhenReady WaitIsServed
