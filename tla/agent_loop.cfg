\* One routed run that must execute something, in depth; its tools may wait for ever.
SPECIFICATION FairSpec
CONSTANTS
  Prompts = {p1}
  Sessions = {s1}
  NoPrompt = NoPrompt
  SessionOf <- OneSession
  Routed = {p1}
  Required = {p1}
  Signatures = {"edit", "read"}
  Mutating = {"edit"}
  MaxIterations = 3
  MaxToolRounds = 2
  MaxToolsPerRound = 2
  MaxRepeatedCalls = 2
  MaxFallbacks = 1
  StoreMayFail = TRUE
INVARIANTS
  LoopIsBounded
  NoFinalWithoutWork
  EffectsRecorded

  
CHECK_DEADLOCK FALSE
