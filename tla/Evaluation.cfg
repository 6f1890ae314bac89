CONSTANTS
  c1 = c1
  c2 = c2
  c3 = c3
  m1 = m1
  m2 = m2
  r1 = r1
  r2 = r2
  w1 = w1
  w2 = w2
  record = record
  said = said
  other = other
  Clips = {c1, c2, c3}
  Origin <- MCOrigin
  Upload = Upload
  Kept = {c1}
  Texts = {said}
  Requesters = {w1, w2}
  MaxEvents = 4
  Runs = {r1, r2}
  Models = {m1, m2}
  Plan <- MCPlan
  Output <- MCOutput
  Reference <- MCReference
  Error = Error
  Voice = {m1}
  Limit = 4
  Recent = 1
  NoRun = NoRun
SPECIFICATION FairSpec
INVARIANTS
  ClipsAreTakenOnce
  SamplesOwnAudio
  RunsAreWhatTheyShow
PROPERTIES
  RunsGiveBack
CHECK_DEADLOCK FALSE
