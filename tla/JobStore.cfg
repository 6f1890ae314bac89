CONSTANTS
  j1 = j1
  j2 = j2
  j3 = j3
  j4 = j4
  Jobs <- MCJobs
  MaxJobs = 2
  Ttl = 1
  MaxClock = 2
SPECIFICATION Spec
SYMMETRY Symmetry
INVARIANTS
  TypeOK
  WorkMeetsJob
  BoundedByLoad
PROPERTIES
  OnceTerminal
  ResultsAreKept
CHECK_DEADLOCK FALSE
