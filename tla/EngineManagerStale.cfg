CONSTANTS
  a = a
  t1 = t1
  t2 = t2
  Models = {a}
  Registered = {}
  Tasks = {t1,t2}
  LockIds = {1,2,3}
  NoLock = NoLock
  NoModel = NoModel
  MaxLoaded = 1
  MaxVersion = 2
  MaxAdrift = 1
SPECIFICATION FairSpec
INVARIANT NoReplacedWeightsServe

