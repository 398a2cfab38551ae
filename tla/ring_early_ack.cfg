\* A player crashes after it has passed the packet on, but before its
\* acknowledgement has arrived.
SPECIFICATION Spec
CHECK_DEADLOCK FALSE
CONSTANTS
  N = 3
  Server = 1
  MayCrash = {0}
  MaxRequired = 1
  MaxWords = 2
  MaxHasty = 1
  QuitSplit = FALSE
  Alien = 99
INVARIANTS
  NoEarlyAck
