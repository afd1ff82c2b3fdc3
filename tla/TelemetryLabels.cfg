SPECIFICATION TelemetrySpec
CONSTANTS
  Hosts <- MCHosts
  InitialBackoff = 1
  MaxBackoff = 3
  NoSensor = NoSensor
INVARIANTS
  NoOtherSocket
