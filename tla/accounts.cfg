SPECIFICATION Spec
CONSTANTS
  Platforms = {"linux", "darwin", "bare"}
  MaxFaults = 1
  MaxWrites = 1
  Logins = {l1}
  Ops = {o1, o2}
  MaxTokens = 2
  MaxRestarts = 1
  MaxServers = 2
  NotifyCap = 2
  MaxPairings = 2
SYMMETRY Alike
CHECK_DEADLOCK FALSE
INVARIANTS
  TypeOK
  NewestTokenIsKept
  
  AnswersOwnTurn
PROPERTIES
  DeadLoginsStayDead
