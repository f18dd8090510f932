SPECIFICATION Spec
CONSTANTS
  None = None
  OutboxLimit = 4
  JournalLimit = 4
  SequenceMax = 9
  Retention = 1
  c1 = c1
  c2 = c2
  c3 = c3
  c4 = c4
  c5 = c5
  id1 = id1
  id2 = id2
  id3 = id3
  id4 = id4
  rc1 = rc1
  rc2 = rc2
  rc3 = rc3
  rc4 = rc4
  Commands = {c1, c2, c3, c4, c5}
  CommandData <- MCCommandData
  Malformed = {}
  CommandIds = {id1, id2, id3, id4}
  Digests <- MCDigests
  Texts = {id1, id2, id3, id4, rc1, rc2, rc3, rc4}
  BlankTexts = {}
  ControlTexts = {}
  U64Max = 9
  I64Max = 4
  Device = dev
  Receipts <- MCReceipts
  Revoked = {c4}
  InitialPosition <- MCInitialPosition
  InitialCredentialGeneration = 1
  MaxGeneration = 4
  MaxFence = 2
  MaxStatuses = 2
CHECK_DEADLOCK FALSE
INVARIANTS
  TypeOK
  NothingUnsaid
  VerifiedIsOneRotation
  EveryCopyVerifies
  RevokedNoAdvance
