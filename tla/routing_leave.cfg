SPECIFICATION FairSpec
CONSTANTS
  XApps <- OneXapp
  Nodes = {n1}
  Funcs = {"MAC", "RC"}
  Uses <- OneUse
  Workers = {w1, w2}
  FirstReqId = 6
  ReqIdMod = 8
  MaxLocal = 2
  MaxServed = 4
  MaxInds = 1
  SlowNodes = TRUE
  XAppsLeave = TRUE
  NoReq = NoReq
  NoNode = NoNode
CHECK_DEADLOCK FALSE
INVARIANT NoAbort
PROPERTIES RoutesReclaimed RequestsAnswered
