CONSTANTS
  r1 = r1
  r2 = r2
  w1 = w1
  w2 = w2
  Records = {r1, r2}
  Workers = {w1, w2}
  Policies <- MCPolicies
  MaxParams = 1
  MaxFaults = 1
SPECIFICATION FairSpec
INVARIANTS
  TypeOK
  NoStrayFiles
  GoneAudioIsAccounted
PROPERTIES
  SweepsTakeOnlyExcess
  SweepsCatchUp
