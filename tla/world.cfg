\* The local player, another one and a zombie, in two levels of three ticks.
SPECIFICATION FairSpec
CONSTANTS
  N = 3
  Me = 0
  Zombies = {2}
  Predicting = {TRUE, FALSE}
  QueueSize = 3 \* ACTION_QUEUE_BUFFER_DIAMETER
  UnconfirmedSize = 2
  MaxTick = 3
  MaxLevel = 2
  PregameTicks = 1
  ReadyInTime = TRUE
INVARIANTS
  WorldTypeOK
  WorldIsConfirmed
  NoFlagsLost
  GameQueueStocked
  OwnFlagsPredictedOnce
  NothingDiscarded
PROPERTIES
  GameCatchesUp
