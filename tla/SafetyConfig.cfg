SPECIFICATION LimitsSpec
CONSTANTS
  Awaited = {w1}
  Application = {a1}
  Field = {"ceiling", "skew"}
  MaxGeneration = 2
INVARIANTS
  FreshLimits
CHECK_DEADLOCK FALSE
