SPECIFICATION FairSpec
CONSTANTS
  Thread = {a1, s1}
  App = {a1}
  a1 = a1
  s1 = s1
  Nobody = Nobody
  AllowedMax = 2
  HostMax = 2
  Variants = {0, 2}
  SizeMax = 2
  MaxTotal = 2
INVARIANTS
  AttestationSound
  AdmissionBalanced
  ExactCover
  RunsSupportedCode
PROPERTIES
  CallsReturn
