\* Two prompts to one session, aborts and deletes.
SPECIFICATION Spec
CONSTANTS
  Prompts = {p1, p2}
  Sessions = {s1}
  NoPrompt = NoPrompt
  SessionOf <- OneSession
  Routed = {}
  Required = {}
  Signatures = {"edit"}
  Mutating = {"edit"}
  MaxIterations = 2
  MaxToolRounds = 2
  MaxToolsPerRound = 1
  MaxRepeatedCalls = 2
  MaxFallbacks = 0
  StoreMayFail = TRUE
INVARIANTS
  TypeOK
  OneRunPerSession
  RunsDoNotInterleave
  
CHECK_DEADLOCK FALSE
