SPECIFICATION FairSpec
CONSTANTS
  Funcs = {f1, f2}
  MaxCalls = 3
  MaxInds = 2
  MaxResend = 1
  Envs = {"timely", "prompt", "silent"}
  NoCall = NoCall
  NoFunc = NoFunc
  Self = Self
  Node = Node
CHECK_DEADLOCK FALSE
INVARIANTS
  NoAbort IdleClean CallbackOwn StreamsRegistered
PROPERTIES ServiceSpec CallsReturn
