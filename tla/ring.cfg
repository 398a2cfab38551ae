\* Three players, whose server may crash and one of whom may be dropped without
\* need, and a game of two flags each; deadlock is not checked, as everybody leaves
\* in the end.
SPECIFICATION FairSpec
CHECK_DEADLOCK FALSE
CONSTANTS
  N = 3
  Server = 1
  MayCrash = {1}
  MaxRequired = 1
  MaxWords = 2
  MaxHasty = 1
  QuitSplit = FALSE
  Alien = 99
INVARIANTS
  RingTypeOK
  StreamsAgree
  AckMeansReceived
  OneServer
  NothingLeftBehind
PROPERTIES
  RingGoesOn
