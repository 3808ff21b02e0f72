SPECIFICATION Spec
CONSTANTS
  XApps <- TwoXapps
  Nodes = {n1}
  Funcs = {"MAC", "RC"}
  Uses <- DisjointUses
  Workers = {w1, w2}
  FirstReqId = 4
  ReqIdMod = 8
  MaxLocal = 2
  MaxServed = 4
  MaxInds = 1
  SlowNodes = FALSE
  XAppsLeave = FALSE
  NoReq = NoReq
  NoNode = NoNode
CHECK_DEADLOCK FALSE
SYMMETRY WorkerSymmetry
INVARIANTS
  NoAbort RoutesOneToOne AnswersExpected DeletesOwnSubscription
  SubscriptionsServed PendingRouted
PROPERTY ServiceSpec
