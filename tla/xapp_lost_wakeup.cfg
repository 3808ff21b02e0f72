SPECIFICATION Spec
CONSTANTS
  Funcs = {f1, f2}
  MaxCalls = 1
  MaxInds = 0
  MaxResend = 0
  Envs = {"prompt"}
  NoCall = NoCall
  NoFunc = NoFunc
  Self = Self
  Node = Node
CHECK_DEADLOCK FALSE
INVARIANT WaitAnswered
