SPECIFICATION Spec
CONSTANTS
  None = None
  OutboxLimit = 4
  JournalLimit = 2
  SequenceMax = 5
  c1 = c1
  c1x = c1x
  c2 = c2
  idA = idA
  idB = idB
  d1 = d1
  d2 = d2
  d3 = d3
  Commands = {c1, c1x, c2}
  CommandData <- MCCommandData
  Malformed = {m1}
  CommandIds = {idA, idB}
  Digests = {d1, d2, d3}
  Retention = 1
  Topics = {1, 2}
  CatalogAnswers = {"Resolved", "Revoked"}
  InitialPosition <- MCInitialPosition
  InitialCredentialGeneration = 1
  MaxTime = 0
CHECK_DEADLOCK FALSE
INVARIANTS
  TypeOK
  CurrentInstalled
  RevisionsImmutable
  RestartAccepted
PROPERTIES
  PositionAdvances
  FactsLeaveOnlyConfirmed
  ImplementsHandoff
