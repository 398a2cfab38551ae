\* Three joiners, one that may leave and one that may not be gatherable; deadlock
\* is not checked, as set-up ends.
SPECIFICATION FairSpec
CHECK_DEADLOCK FALSE
CONSTANTS
  NumJoiners = 3
  Ungatherable = {3}
  MaxPlayers = 4
  MayLeave = {2}
  Uninitialized = {"connecting", "disconnect"}
INVARIANTS
  SessionTypeOK
  MembersAreClients
  EverybodyUpToDate
  StartedAlike
PROPERTIES
  LeaversDropped
  StartReachesAll
