CONSTANTS
  Threads = {t1, t2, t3}
  Keys = {k1, k2}
  Objs = {o1, o2, o3}
  NoKey = NoKey
  NoObj = NoObj
  Nobody = Nobody
  MaxGen = 3
SPECIFICATION FairSpec
INVARIANT MutualExclusion
INVARIANT MapMatchesUsers
INVARIANT HolderCanRelease
PROPERTY AcquireReturns
PROPERTY ImplementsMutexPerKey
