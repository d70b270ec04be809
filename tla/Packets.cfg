SPECIFICATION Spec
CONSTANTS
  Received <- Foreign
  Made <- Own
  Follow <- NextPackets
  MaxSteps = 3
CHECK_DEADLOCK FALSE
INVARIANTS
  ReadsAllButNamed
  RewrittenAsReceived
  NextPacketFound
PROPERTIES
  SavesSettle
  FreshIsReadBack
  FingerprintKept
  CopyWritesTheSame
