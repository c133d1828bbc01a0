SPECIFICATION Spec
CONSTANTS
  Cores = {0, 1}
  Api = {"lock"}
  Strayers = {}
  MaxDepth = 1
  MaxCalls = 2
  Spent = {}
INVARIANT MutualExclusion
CHECK_DEADLOCK FALSE
