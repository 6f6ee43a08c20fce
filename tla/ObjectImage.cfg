SPECIFICATION Spec
CONSTANTS
  x = x
  y = y
  b = b
  p = p
  q = q
  Ref <- MCRef
  Protocol <- MCProtocol
  DtypeOf <- MCDtypeOf
  Batched <- MCBatched
  Bitwise <- MCBitwise
  Width <- MCWidth
  MaxWidth <- MCMaxWidth
  Span <- MCSpan
  Program <- MCProgram
  ProtocolEntry <- MCProtocolEntry
  IoEntry <- MCIoEntry
  DefaultType <- MCDefaultType
  PushType <- MCPushType
  HoldingType <- MCHoldingType
  Space <- MCSpace
  SingleBit <- MCSingleBit
  RegistersOf <- MCRegistersOf
  Window <- MCWindow
  MaxRegister <- MCMaxRegister
  AiosToken <- MCAiosToken
  EssToken <- MCEssToken
  ImdsToken <- MCImdsToken
  Uint16Max <- MCUint16Max
  Uint32Max <- MCUint32Max
  ResourceDtypes <- MCResourceDtypes
  Triggers <- MCTriggers
  Undeclared = Undeclared
INVARIANTS
  TypeOK
  ItemsCounted
  AgreeIffWhole
  AcceptedIsSound
  RaisesForCause
  ClaimsHold
CHECK_DEADLOCK FALSE
