SPECIFICATION Spec
CONSTANTS
  XApps <- TwoXapps
  Nodes = {n1}
  Funcs = {"MAC", "RC"}
  Uses <- SharedUses
  Workers = {w1, w2}
  FirstReqId = 4
  ReqIdMod = 8
  MaxLocal = 1
  MaxServed = 4
  MaxInds = 0
  SlowNodes = FALSE
  XAppsLeave = FALSE
  NoReq = NoReq
  NoNode = NoNode
CHECK_DEADLOCK FALSE
INVARIANT AnswersExpected
