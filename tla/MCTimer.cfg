CONSTANTS
  Channels = {0, 1, 2}
  Keep = {2}
  Allow = {}
SPECIFICATION FairSpec
INVARIANTS TickKept RegisteredReachable
PROPERTIES NoMadeUpTick TickDelivered
