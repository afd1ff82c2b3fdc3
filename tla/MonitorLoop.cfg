SPECIFICATION FairMonitorSpec
CONSTANTS
  InitialBackoff = 1
  MaxBackoff = 3
  Timeout = 2
  ZeroLimit = 2
  MaxWidth = 2
  MaxStep = 1
  DownCount = 2
  UpCount = 2
  CooldownDown = 2
  CooldownUp = 1
  MinDwell = 1
  DegradedDown = 3
  DegradedUp = 2
  DegradedDwell = 1
INVARIANTS
  DomainPure
  CalmBeforeUpgrade
PROPERTIES
  DowngradeRetried
  ImplementsPerf
  EmergencyNarrows
  TimeoutEscalates
  HardwareRecovers
