\* The hub and two spokes that may fall silent, give up or quit, an absent third
\* player, packets that overtake each other, a pregame tick and one of the game, which may
\* leave its word unread.
SPECIFICATION GameSpec
CONSTANTS
  NumPlayers = 3
  LocalPlayer = 2
  MaxTick = 2
  RealGameTick = 1
  QueueSize = 3
  PregameWindow = 1
  SpokeWindow = 1
  PregameSilence = 1
  InGameSilence = 1
  SendPeriod = 1
  RecoverySendPeriod = 1
  MinimumSendPeriod = 0
  BandwidthReduction = FALSE
  OutgoingQueueSize = 1
  MaxProvided = 1
  SpokePregameSilence = 1
  SpokeInGameSilence = 1
  SpokeRecoveryPeriod = 1
  Observed = {1, 2}
  Absent = {0}
  NetworkCapacity = 2
  RecentFlags = 1
  FullUpdate = 2
  GameQueueSize = 2
  MostUnread = 1
INVARIANTS
  GameTypeOK
  SpokesInStep
  HubAssumptionsMet
PROPERTY InLockstep
