SPECIFICATION TelemetryFairSpec
CONSTANTS
  Hosts <- MCHosts
  InitialBackoff = 1
  MaxBackoff = 3
  NoSensor = NoSensor
INVARIANTS
  SourcesConsistent
PROPERTIES
  SensorIsOwn
  SourcesRecover
