\* Two spokes, and a third player that may be dropped, two ticks of the game
\* and bandwidth reduction.
SPECIFICATION GameSpec
CONSTANTS
  NumPlayers = 3
  LocalPlayer = 0
  MaxTick = 2
  RealGameTick = 0
  QueueSize = 2
  PregameWindow = 1
  SpokeWindow = 1
  PregameSilence = 1
  InGameSilence = 1
  SendPeriod = 1
  RecoverySendPeriod = 1
  MinimumSendPeriod = 1
  BandwidthReduction = TRUE
  OutgoingQueueSize = 2
  MaxProvided = 1
  SpokePregameSilence = 1
  SpokeInGameSilence = 1
  SpokeRecoveryPeriod = 1
  Observed = {0, 1}
  Absent = {}
  NetworkCapacity = 1
  RecentFlags = 1
  FullUpdate = 1
  GameQueueSize = 2
  MostUnread = 0
CONSTRAINT ObservedStay
INVARIANT SpokesInStep
PROPERTY InLockstep
