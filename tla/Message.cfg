CONSTANTS
  own = own
  owner = owner
  e1 = e1
  e2 = e2
  s1 = s1
  s2 = s2
  s3 = s3
  Key <- MCKey
  OwnerOf <- MCOwnerOf
  p = p
  q = q
  x = x
  y = y
  Passphrase <- MCPassphrase
  Secret <- MCSecret
  Sig <- MCSig
  Time <- MCTime
  MaxMsgs = 3
  MaxEsks = 2

SPECIFICATION Spec

SYMMETRY Exchange

INVARIANTS
  TypeOK
  
  OnlyRecipientsRead
  SignaturesInOrder

CHECK_DEADLOCK FALSE
