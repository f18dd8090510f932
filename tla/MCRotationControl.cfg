SPECIFICATION Spec
CONSTANTS
  None = None
  k1 = k1
  Device = d1
  Texts = {}
  BlankTexts = {}
  ControlTexts = {}
  U64Max = 2147483647
  I64Max = 1073741824
  Invocations <- MCInvocations
  LoginLimit = 2
  ApiLimit = 1
  ConnectionLimit = 1
  BrowserLimit = 1
  MaxInvocations = 2
  MaxTime = 8
CHECK_DEADLOCK FALSE
INVARIANTS
  TypeOK
  InvocationBudget
  RequestsOfOwnLogin
  OneMutation
  DefiniteFailureUnapplied
  AcceptedIsApplied
  KeyedRetryAgrees
PROPERTIES
  InvocationEnds
