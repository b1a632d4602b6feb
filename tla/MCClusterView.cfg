CONSTANTS
  Self = self
  Peers = {p1}
  Size = 1
  Events = {"read", "read error", "slow start", "disable", "rejoin", "remove self"}
  MaxIndex = 4
  MaxFailures = 1
SPECIFICATION MCSpec
PROPERTY VersionsInOrder
PROPERTY CalmGossipConverges
PROPERTY CalmJoinIsNotified
PROPERTY CalmDownIsCached
CHECK_DEADLOCK FALSE
