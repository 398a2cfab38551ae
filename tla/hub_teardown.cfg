\* What hub_cleanup says of the rest of its cleanup, once the hub has stopped.
SPECIFICATION Spec
CONSTANTS
  Tasks = {"hub", "spoke", "resend", "server"}
  Setups = {"hub"}
INVARIANT HubDataOutlivesPackets
