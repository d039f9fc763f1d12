SPECIFICATION Spec
CONSTANTS
  ToolCommands = {commandA}
  PanelCommands = {commandB}
  Stoppers = {browser}
  Calls = {callA, callB}
  Plugins = {plugin}
  Projects = {projectA, projectB}
  Threads = {t1, t2}
  Clients = {1, 2, 3}
  MaxOperations = 3
  MaxFailures = 1
  MaxRestarts = 1
CHECK_DEADLOCK FALSE
INVARIANTS
  TypeOK
  NoPanic
  
PROPERTIES
  CommandReturns
  WokenByExit
