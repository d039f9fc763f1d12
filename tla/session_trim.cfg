\* One session whose messages outgrow both limits of a snapshot; three never do.
SPECIFICATION FairSpec
CONSTANTS
  s1 = s1
  Sessions = {s1}
  NoSession = NoSession
  MaxSessions = 1
  MaxMessages = 5
  MaxBytes = 6
  Sizes = {1, 2}
  MaxWrites = 6
INVARIANTS
  TranscriptFits
PROPERTIES
  SaveEnds
