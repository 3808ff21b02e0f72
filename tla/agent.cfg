SPECIFICATION FairSpec
CONSTANTS
  Ids = {id1, id2}
  RanThreads = {t1, t2}
  Digits = 4
  MaxEvents = 2
  MaxSetups = 2
  MaxLost = 1
  MaxReqs = 2
  Envs = {"calm", "rough"}
  NoId = NoId
  NoMsg = NoMsg
CHECK_DEADLOCK FALSE
INVARIANTS
  NoAbort PipeMatchesQueue StreamsAgree RanInformed
PROPERTIES EventsSent SetupCompletes
