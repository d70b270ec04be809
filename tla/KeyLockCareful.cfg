CONSTANTS
  P = P
  Ssign = Ssign
  Senc = Senc
  Primary = P
  Sub <- MCSub
  CanSign <- MCCanSign
  PrimarySigns = FALSE
  Passphrase = {p1, p2}
  NoPass = NoPass
  MaxBlocks = 2
  Careful = TRUE

SPECIFICATION Spec

INVARIANTS
  NoSecretLost
  OnePassphrase
  UseFindsSecret

PROPERTIES
  ImplementsSafe
