SPECIFICATION Spec
CONSTANTS
  Nodes = {n1}
  XApps = {x1}
  Workers = {w1, w2}
  MaxJoins = 1
  MaxResends = 1
  MaxReqs = 1
  Envs = {"leaves"}
  NoMsg = NoMsg
CHECK_DEADLOCK FALSE
INVARIANT LookupsFound
