CONSTANTS
  A = A
  B = B
  S = S
  uA = uA
  uB = uB
  doc = doc
  other = other
  Primary <- MCPrimary
  Sub <- MCSub
  Uid <- MCUid
  Doc <- MCDoc
  FirstUid <- MCFirstUid
  FlagSign <- MCFlagSign
  Short <- MCShort
  None = None
  MaxSigs = 4
  MaxTime = 1

SPECIFICATION Spec

SYMMETRY Exchange

INVARIANTS
  TypeOK
  GoodIffSigned
  AttestationsAreCurrent

PROPERTIES
  ExpiryIsOwners

CHECK_DEADLOCK FALSE
