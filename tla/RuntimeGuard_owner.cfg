SPECIFICATION Spec
CONSTANTS
  Executor = {a1, a2}
  Controller = {a1}
  Telemetry = {m1}
  NoThread = NoThread
  MaxDepth = 1
PROPERTIES
  OnlyOwnerEnters
