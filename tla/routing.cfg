SPECIFICATION Spec
CONSTANTS
  r1 = r1
  r2 = r2
  Models <- ThreeModels
  Provider <- Owners
  Default <- Traits0
  Settings <- Choices
  Analyses <- Prompts
  Runs = {r1, r2}
  MaxFallbacks = 2
  MaxSaves = 1
  MaxChanges = 1
SYMMETRY Alike
CHECK_DEADLOCK FALSE
INVARIANTS
  TypeOK
PROPERTIES
  NoReturnWhileCooling
  
