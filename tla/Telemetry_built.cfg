SPECIFICATION Spec
CONSTANTS
  main = main
  gpsTask = gpsTask
  telemetryConsole = telemetryConsole
  api = api
  Console = telemetryConsole
  Sender <- MCSender
  Caller <- Nobody
  Request <- MCRequest
  Refused <- NoneRefused
  MaxReboots = 2
INVARIANTS TypeOK StartInv ChannelInv ChannelAgrees
PROPERTIES WaitEnds LinkKept
