CONSTANTS
  Apriv = Apriv
  Apub = Apub
  Bpriv = Bpriv
  Bpub = Bpub
  Spriv = Spriv
  Spub = Spub
  fA = fA
  fS = fS
  nA = nA
  nB = nB
  e = e
  Keys <- FewKeys
  Alias <- MCAlias
  Created <- MCCreated
  Public <- MCPublic
  Aliases <- MCAliases
  Squeeze <- MCSqueeze
  Subkeys0 <- NoSubkeys
  Late <- MCLate
  CanUnload = TRUE

SPECIFICATION Spec

INVARIANTS
  TypeOK
  NoDangling
  AliasesSorted
  DequesAgree
  ReportedIsLoaded
