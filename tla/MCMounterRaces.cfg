CONSTANTS
  p1 = p1
  p2 = p2
  p3 = p3
  d1 = d1
  d2 = d2
  a = a
  Procs = {p1, p2, p3}
  Workers = {p2}
  Devices = {d1, d2}
  Paths = {a}
  Allowed = {a}
  NoChattr = {}
  Requests <- Meeting
  Deletes = {"no", "now"}
  Failing = {"unmount"}
  MaxStack = 2
  MaxTasks = 0
  MaxRestarts = 0
SPECIFICATION RacesSpec
INVARIANT EntriesAreMounted
PROPERTY CallsReturn
PROPERTY RemovedAfterDelay
 
