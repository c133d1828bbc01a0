SPECIFICATION MCFairSpec
CONSTANTS
  Cores = {0, 1, 2}
  Api = {"trylock"}
  Strayers = {2}
  MaxDepth = 2
  MaxCalls = 0
  Spent = {2}
INVARIANTS TypeOK MutualExclusion FieldsAgree HolderNotExpelled
PROPERTIES ImplementsRecursiveLock CallsReturn
CHECK_DEADLOCK FALSE
