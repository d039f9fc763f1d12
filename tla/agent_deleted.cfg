\* A session deleted under a run: what the browser promises when it asks for confirmation.
SPECIFICATION Spec
CONSTANTS
  Prompts = {p1}
  Sessions = {s1}
  NoPrompt = NoPrompt
  SessionOf <- OneSession
  Routed = {}
  Required = {}
  Signatures = {"edit"}
  Mutating = {"edit"}
  MaxIterations = 2
  MaxToolRounds = 2
  MaxToolsPerRound = 1
  MaxRepeatedCalls = 2
  MaxFallbacks = 0
  StoreMayFail = TRUE
INVARIANTS
  DeletedStaysDeleted
CHECK_DEADLOCK FALSE
