\* A question of the session on screen, a channel with one slot, two reads under way.
SPECIFICATION AFairSpec
CONSTANTS
  t1 = t1
  h1 = h1
  Asks = {a1}
  Handlers = {h1}
  Sessions = {t1}
  NoSession = NoSession
  NoAsk = NoAsk
  SessionOf <- AllSelected
  Count <- One
  MaxAnswers = 2
  Selected = t1
  Slots = 1
  MaxLoads = 2
INVARIANTS
  TypeOK
  FirstAnswerWins
  
  ListedWhileAsked
PROPERTIES
  AskReturns
  
