CONSTANTS
  a = a
  b = b
  c = c
  t1 = t1
  t2 = t2
  Models = {a,b,c}
  Registered = {a,b,c}
  Tasks = {t1,t2}
  LockIds = {1,2,3,4,5}
  NoLock = NoLock
  NoModel = NoModel
  MaxLoaded = 2
  MaxVersion = 1
  MaxAdrift = 1
SPECIFICATION Spec
SYMMETRY Perms
INVARIANTS
  TypeOK
  WithinCapacity
PROPERTY EvictsLeastRecentlyUsed

