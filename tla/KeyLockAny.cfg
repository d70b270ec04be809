CONSTANTS
  P = P
  Ssign = Ssign
  Senc = Senc
  Primary = P
  Sub <- MCSub
  CanSign <- MCCanSign
  PrimarySigns = FALSE
  Passphrase = {p1, p2}
  NoPass = NoPass
  MaxBlocks = 2
  Careful = FALSE

SPECIFICATION Spec

INVARIANTS
  TypeOK
  LockedOutsideBlocks
PROPERTIES
  LossOnlyByMisuse
