SPECIFICATION FairSpec
CONSTANTS
  Procs = {p1, p2}
  Addrs = {a1, a2}
  FirstId = 2
  IdMod = 4
  MaxUnread = 2
  MaxIds = 3
  Envs = {"timely", "slow", "reused"}
CHECK_DEADLOCK FALSE
INVARIANT IdsLeadHome
PROPERTIES LivingKeepSubscriptions XappsConnect GoneReclaimed
