\* Two players fall silent together.
SPECIFICATION Spec
CONSTANTS
  NumPlayers = 3
  LocalPlayer = 0
  MaxTick = 2
  RealGameTick = 0
  QueueSize = 2
  PregameWindow = 1
  SpokeWindow = 2
  PregameSilence = 1
  InGameSilence = 1
  SendPeriod = 1
  RecoverySendPeriod = 1
  MinimumSendPeriod = 1
  BandwidthReduction = TRUE
INVARIANT NoAcknowledgementBeforeSending
