SPECIFICATION Spec
CONSTANTS
  None = None
  id1 = id1
  id2 = id2
  blank = blank
  empty = empty
  long = long
  control = control
  bytes = bytes
  other = other
  Texts = {id1, id2, blank, empty, long, control, bytes}
  BlankTexts = {blank, empty}
  ControlTexts = {control}
  EmptyTexts = {empty}
  LongTexts = {long}
  NonUtf8Texts = {bytes}
  U64Max = 3
  I64Max = 2
  Device = dev
  Devices = {dev, other}
  Payloads = {"garbage", dev, other}
  Published <- MCPublished
  MaxPublished = 2
  MaxGeneration = 3
CHECK_DEADLOCK FALSE
INVARIANTS
  TypeOK
  AcceptedWasMinted
  MintedIsDeliverable
