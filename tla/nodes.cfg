SPECIFICATION FairSpec
CONSTANTS
  Nodes = {n1, n2}
  XApps = {x1}
  Workers = {w1, w2}
  MaxJoins = 2
  MaxResends = 1
  MaxReqs = 1
  Envs = {"calm", "repeats", "leaves", "hasty"}
  NoMsg = NoMsg
CHECK_DEADLOCK FALSE
INVARIANTS
  NoAbort RegistriesAgree AnsweredIsReachable
PROPERTIES NodesSettle StopCompletes
