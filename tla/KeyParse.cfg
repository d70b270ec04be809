CONSTANTS
  KeyId = {k1, k2}
  Half = {pub, priv}
  Length = 4

SPECIFICATION FairSpec

INVARIANTS
  TypeOK
  FiledAsMeant
  AcceptsKeyBlocks

PROPERTY ParseEnds

CHECK_DEADLOCK FALSE
