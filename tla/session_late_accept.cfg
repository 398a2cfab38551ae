\* What network.cpp:2401 asserts of every distribution of the topology.
SPECIFICATION Spec
CHECK_DEADLOCK FALSE
CONSTANTS
  NumJoiners = 3
  Ungatherable = {3}
  MaxPlayers = 4
  MayLeave = {2}
  Uninitialized = {"connecting", "disconnect"}
INVARIANT DistributedWhileGathering
