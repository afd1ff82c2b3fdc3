SPECIFICATION FairSpec
CONSTANTS
  Controller = {c1}
  Worker = {w1, w2}
  Acceptor = {s1}
  Listener = {l1}
  Client = {k1}
  WorkerCount = 2
  QueueLimit = 1
  Nobody = Nobody
  c1 = c1
  w1 = w1
  w2 = w2
  s1 = s1
  l1 = l1
  k1 = k1
PROPERTIES
  FailedStartReturns
