CONSTANTS
  Cores = {0, 1}
  Sources = {1, 2}
  MaxPriority = 2
  Shared = "no"
  BaseApi <- FirstCoreApi
  CallbackApi = {"ipi_send"}
  MaxDepth = 8
SPECIFICATION FairSpec
INVARIANTS NestingByPriority StackBounded RegistersRestored GatewayReopens
PROPERTIES IpiNotLost HighestServed
