SPECIFICATION FairSpec
CONSTANTS
  Context = {c1, c2, c3}
  Cpu = {k1, k2}
  NoCpu = NoCpu
  Nobody = Nobody
  Window = 1
  MaxHold = 1
  c1 = c1
  c2 = c2
  c3 = c3
  k1 = k1
  k2 = k2
INVARIANTS
  UsersCounted
  AuthorityIsCurrent
  LossNarrows
PROPERTIES
  CallsReturn
