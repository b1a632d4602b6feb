CONSTANTS
  p1 = p1
  d1 = d1
  a = a
  b = b
  c = c
  Procs = {p1}
  Workers = {w1}
  Devices = {d1}
  Paths = {a, b, c}
  Allowed = {a, b}
  NoChattr = {b}
  Requests <- WithReload
  Deletes = {"no", "now", "wait"}
  Failing = {"fs", "chattr", "mount", "unmount", "rmdir"}
  MaxStack = 2
  MaxTasks = 1
  MaxRestarts = 1
SPECIFICATION Spec
INVARIANT TypeOK
INVARIANT ReadOnlyWhileMounted
INVARIANT TableMatchesKernel
