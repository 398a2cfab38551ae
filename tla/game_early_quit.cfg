\* The hub and two spokes, as in game_spokes, and one tick more.
SPECIFICATION GameSpec
CONSTANTS
  NumPlayers = 3
  LocalPlayer = 2
  MaxTick = 3
  RealGameTick = 1
  QueueSize = 3
  PregameWindow = 1
  SpokeWindow = 1
  PregameSilence = 1
  InGameSilence = 1
  SendPeriod = 1
  RecoverySendPeriod = 1
  MinimumSendPeriod = 0
  BandwidthReduction = FALSE
  OutgoingQueueSize = 2
  MaxProvided = 1
  SpokePregameSilence = 1
  SpokeInGameSilence = 1
  SpokeRecoveryPeriod = 1
  Observed = {1, 2}
  Absent = {0}
  NetworkCapacity = 1
  RecentFlags = 1
  FullUpdate = 2
  GameQueueSize = 2
  MostUnread = 1
INVARIANT SenderConnected
