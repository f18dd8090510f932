SPECIFICATION Spec
CONSTANTS
  None = None
  OutboxLimit = 4
  JournalLimit = 4
  SequenceMax = 20
  c1 = c1
  c2 = c2
  m0 = m0
  m1 = m1
  id0 = id0
  idX = idX
  idY = idY
  idA = idA
  idB = idB
  d1 = d1
  d2 = d2
  d3 = d3
  Commands = {c1, c2}
  CommandData <- MCCommandData
  Malformed = {m0, m1}
  CommandIds = {id0, idX, idY, idA, idB}
  Digests = {d1, d2, d3}
  Retention = 1
  Script <- Crowded
  InitialPosition <- MCInitialPosition
  InitialCredentialGeneration = 1
  MaxFaults = 5
CHECK_DEADLOCK FALSE
INVARIANTS
  TypeOK
  FatalOnlyAtIntake
  ReportByNewCredential
  SettledIsDurable
  NothingLeftBehind
