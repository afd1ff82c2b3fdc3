SPECIFICATION ThreadsSpec
CONSTANTS
  Thread = {t1, t2, t3, t4}
  Handle = {h1, h2, h3}
  NoThread = NoThread
  NoHandle = NoHandle
  Caller = {c1, c2, c3}
  Worker = {w1, w2}
  Nobody = Nobody
INVARIANTS
  NoUseAfterFree
  MonitorHasResources
  StopClaimHeld
  ReportIsCurrent
PROPERTIES
  StopRequestIsFinal
  CallsReturn
  StopComplete
  StopReturns
