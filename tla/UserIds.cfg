CONSTANTS
  u1 = u1
  u2 = u2
  u3 = u3
  photo = photo
  selfPrimary = selfPrimary
  selfLocal = selfLocal
  other = other
  Uid <- AllUids
  Attribute <- MCAttribute
  Kind <- MCKind
  SelfKind <- MCSelfKind
  PrimaryKind <- MCPrimaryKind
  LocalKind <- MCLocalKind
  Time = {1, 2}
  MaxSigs = 3

SPECIFICATION Spec

INVARIANTS
  TypeOK
  SelfsigIsMostRecent
  CopyKeepsOrder
  RebuildingSorts

PROPERTIES
  OrderIsKept
