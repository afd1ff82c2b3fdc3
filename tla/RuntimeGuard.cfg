SPECIFICATION FairSpec
CONSTANTS
  Executor = {a1, a2}
  Controller = {a1}
  Telemetry = {m1}
  NoThread = NoThread
  MaxDepth = 1
INVARIANTS
  DrainedStaysDrained
  TransitionsOnSSE41
PROPERTIES
  ImplementsWideGate
  StopReturns
