CONSTANTS
  Procs = {p1, p2}
  NoOne = NoOne
  MaxIndex = 3
  MaxLosses = 1
SPECIFICATION FairSpec
INVARIANT NoConflictUnderLock
PROPERTY ImplementsAtomicDB
PROPERTY CallReturns
