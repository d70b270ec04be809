CONSTANTS
  Apriv = Apriv
  Apub = Apub
  Bpriv = Bpriv
  Bpub = Bpub
  Spriv = Spriv
  Spub = Spub
  fA = fA
  fS = fS
  nA = nA
  nB = nB
  e = e
  Keys <- MCKeys
  Alias <- MCAlias
  Created <- MCCreated
  Public <- MCPublic
  Aliases <- MCAliasesApart
  Squeeze <- MCNoSpaces
  Subkeys0 <- WithSubkeys
  Late = {}
  CanUnload = FALSE

SPECIFICATION Spec

PROPERTIES
  ImplementsAbs
