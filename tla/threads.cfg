\* The threads of a machine with the hub, of one without, and of one in a ring.
SPECIFICATION Spec
CONSTANTS
  Tasks = {"hub", "spoke", "resend", "server"}
  Setups = {"hub", "spoke", "ring"}
INVARIANTS
  ThreadsTypeOK
  OneLateCall
  DataOutlivesTicks
  RemovedTasksGone
PROPERTIES
  ResetFound
  ShutdownEnds
