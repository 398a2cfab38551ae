\* Three players, two ticks to play, a queue as long, bandwidth reduction on.
SPECIFICATION FairSpec
CONSTANTS
  NumPlayers = 3
  LocalPlayer = 0
  MaxTick = 2
  RealGameTick = 0
  QueueSize = 2
  PregameWindow = 1
  SpokeWindow = 2
  PregameSilence = 1
  InGameSilence = 1
  SendPeriod = 1
  RecoverySendPeriod = 1
  MinimumSendPeriod = 1
  BandwidthReduction = TRUE
INVARIANTS
  TypeOK
  AssertionsHold
  WaitingSetsExact
  SendableFlagsQueued
  FlagsInTheirTick
  MadeUpFlagsReflected
PROPERTIES
  NetDeadTickFinal
  OnlyMinorityMadeUp
  GracefulCleanupEnds
