\* Failed writes, torn files, failed loads and stops; one session more than the cap.
SPECIFICATION Spec
CONSTANTS
  s1 = s1
  s2 = s2
  s3 = s3
  Sessions = {s1, s2, s3}
  NoSession = NoSession
  MaxSessions = 2
  MaxMessages = 2
  MaxBytes = 2
  Sizes = {1}
  MaxWrites = 3
SYMMETRY SameSessions
INVARIANTS
  TypeOK
  AckedIsDurable
  RemovedStaysRemoved
  FilesMatchIndex
