SPECIFICATION MCSpec
CONSTANTS
  None = None
  p1 = p1  p2 = p2  i1 = i1  i2 = i2  i3 = i3
  Procs = {p1, p2}
  Ids = {i1, i2, i3}
  Names = {n1, n2}
  Devs = {d1, d2}
  Paths = {a, b}
  Kinds = {"shared", "block", "raw"}
  Requests = {}
  Failing = {"kvdb", "fs", "mount"}
  MaxCrashes = 1
INVARIANT ReadyHasData NamesUnique 
PROPERTY DeletedIsGone
CHECK_DEADLOCK FALSE
